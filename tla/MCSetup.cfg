SPECIFICATION Spec
CONSTANTS
    Layouts <- MCLayouts
    MaxBuilds = 2
    HubInfos <- MCInfos
    HostTable <- MCHostTable
    LogLevels = {"Logging level console", "Logging level file"}
    Readings = {0, 1}
    MaxHostRaises = 1
INVARIANTS
    BuildTypeOK
    ModelComplete
    HostTypeOK
    FirstPollNotifiesAll
PROPERTIES
    ModeReachesItsGroup
    HostChangesHeard
\* What the hub and the consumer do is bounded: when it is used up the system may stop.
CHECK_DEADLOCK FALSE
