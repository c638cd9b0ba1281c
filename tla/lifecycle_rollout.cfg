SPECIFICATION FairSpec
CONSTANTS
    Requests = {r1, r2}
    DrainDelay = 2
    ShutdownGrace = 4
    FlushTimeout = 1
    RequestTimeout = 3
    Propagation = 1
    TerminationGraces = {7, 8}
CHECK_DEADLOCK FALSE
INVARIANT TypeOK NeverKilled NoneRefused NoneAbandoned AliveWhileServing
PROPERTY Terminates
