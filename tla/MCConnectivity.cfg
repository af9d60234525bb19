SPECIFICATION Spec
CONSTANTS
    Hosts = {h1, h2}
    Window = 2
    MaxInbox = 2
    Tasks = {t1, t2, t3}
    Ops <- Commands
    Channels = {1, 2}
    MaxCalls = 5
INVARIANTS
    FoundOnce
    NothingLeftOpen
    ClosedSendsOnlyLeftovers
    DarkOnlyInCycle
PROPERTIES
    ListeningEnds
    DarkIsTransient
\* What the hub and the consumer do is bounded: when it is used up the system may stop.
CHECK_DEADLOCK FALSE
