\* 23 full blocks that claim 92 bytes: 23 * 108 = 27 * 92.
CONSTANTS
    END = 108
    MinStatusLen = 10
    Layouts <- RecordedLayout
    ModuleCounts = {23}
    Noise = {0}
    Old = Old
SPECIFICATION Spec
INVARIANT NoFalseAlarm
