\* Do connection errors use up the attempts, as the constructor documents?
CONSTANTS
    Requests = {r1}
    OneWays = {}
    Probes = {}
    MaxAttempts = 2
    Socket = {1, 2}
    NoCall = NoCall
    NoSocket = NoSocket
    NoCommand = NoCommand
SPECIFICATION Spec
INVARIANT AttemptsUsedUp
\* Calls are made once each: when all have ended the system may stop.
CHECK_DEADLOCK FALSE
