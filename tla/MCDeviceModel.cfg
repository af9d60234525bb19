SPECIFICATION Spec
CONSTANTS
    Types <- MCTypes
    Hot <- MCHot
    Books <- MCBooks
    SettingsOf <- MCSettings
    CounterSets <- MCCounters
    MaxChanges = 3
    MaxEvents = 2
    MaxRaises = 1
INVARIANTS
    TypeOK
    DimmersFollowOutputs
    CoversOwnOutputs
PROPERTIES
    EveryChangeIsHeard
    ReparseIsQuiet
    PollAgreesWithEvents
    CoverHearsItsOutputs
\* What the hub and the consumer do is bounded: when it is used up the system may stop.
CHECK_DEADLOCK FALSE
