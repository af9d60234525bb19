\* A restart of the mirror that failed, and the next poll.
CONSTANTS
    Module = {m1, m2}
    Value = {a, b}
    Short = Short
    NoCrc = NoCrc
    MaxChanges = 0
    MaxTelemetry = 0
    MaxReboots = 1
    MaxLost = 0
    MaxFaults = 0
    MaxRestartFaults = 1
    MaxRaises = 0
    ShortAtBuild = FALSE
SPECIFICATION Spec
PROPERTY FailedRestartIsRetried
