\* Two requests with two attempts each and a fire-and-forget command race for the bus.
CONSTANTS
    Requests = {r1, r2}
    OneWays = {w1}
    Probes = {}
    MaxAttempts = 2
    Socket = {1, 2, 3, 4, 5}
    NoCall = NoCall
    NoSocket = NoSocket
    NoCommand = NoCommand
SPECIFICATION Spec
SYMMETRY RequestSymmetry
INVARIANTS TypeOK LockDiscipline SocketDiscipline AnswerIsOwn OncePerAttempt NoInterleaving
PROPERTY ImplementsRpc
\* Calls are made once each: when all have ended the system may stop.
CHECK_DEADLOCK FALSE
