\* Two modules; every kind of failure, a lost event, a reboot, a failing restart, a
\* listener that raises.
CONSTANTS
    Module = {m1, m2}
    Value = {a, b}
    Short = Short
    NoCrc = NoCrc
    MaxChanges = 2
    MaxTelemetry = 1
    MaxReboots = 1
    MaxLost = 1
    MaxFaults = 2
    MaxRestartFaults = 1
    MaxRaises = 1
    ShortAtBuild = FALSE
SPECIFICATION Spec
SYMMETRY ModelSymmetry
INVARIANTS TypeOK GateIsSafe RestartsMatchReboots NoRestartDuringStartup
PROPERTY ReadingsAreFresh
