\* Up to 22 modules, all layouts.
CONSTANTS
    END = 108
    MinStatusLen = 10
    Layouts <- AllLayouts
    ModuleCounts = {1, 2, 3, 11, 22}
    Noise = {0, 1}
    Old = Old
SPECIFICATION Spec
INVARIANTS TypeOK NoFalseAlarm NothingMissed
PROPERTY BlocksReachTheirModules
