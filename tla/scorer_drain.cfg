SPECIFICATION Spec
CONSTANTS
    r1 = r1
    r2 = r2
    Requests = {r1}
    Windows <- PlainWindows
    MIN_WINDOW = 8
    MAX_WINDOW = 4096
    Threshold = 7000
    FloatMax = 300
    DrainDelay = 5
    HandlerTime = 1
    GracefulTimeout = 25
    TerminationGraces = {45}
    RouteDelay = 3
    Patience = 2
    ProbePeriod = 10
    ProbeTimeout = 3
    FailureThreshold = 3
CHECK_DEADLOCK FALSE
INVARIANT NoneLost
