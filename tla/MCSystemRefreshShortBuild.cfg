\* The router status is short during the build.
CONSTANTS
    Module = {m1, m2}
    Value = {a, b}
    Short = Short
    NoCrc = NoCrc
    MaxChanges = 0
    MaxTelemetry = 0
    MaxReboots = 0
    MaxLost = 0
    MaxFaults = 0
    MaxRestartFaults = 0
    MaxRaises = 0
    ShortAtBuild = TRUE
SPECIFICATION Spec
INVARIANT NoRestartDuringStartup
