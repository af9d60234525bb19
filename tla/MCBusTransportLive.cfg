\* One call of each kind under the scheduling of the event loop.
CONSTANTS
    Requests = {r1}
    OneWays = {w1}
    Probes = {p1}
    MaxAttempts = 2
    Socket = {1, 2, 3, 4}
    NoCall = NoCall
    NoSocket = NoSocket
    NoCommand = NoCommand
SPECIFICATION FairSpec
PROPERTIES EveryCallEnds EverySocketCloses
\* Calls are made once each: when all have ended the system may stop.
CHECK_DEADLOCK FALSE
