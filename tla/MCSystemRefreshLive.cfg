\* Failures end, the consumer keeps polling; the hub answers start_mirror.
CONSTANTS
    Module = {m1, m2}
    Value = {a, b}
    Short = Short
    NoCrc = NoCrc
    MaxChanges = 2
    MaxTelemetry = 0
    MaxReboots = 1
    MaxLost = 1
    MaxFaults = 1
    MaxRestartFaults = 0
    MaxRaises = 1
    ShortAtBuild = FALSE
SPECIFICATION FairSpec
PROPERTIES ConvergesWithEvents TornIsRepaired MirrorRecovers
