SPECIFICATION FairSpec
CONSTANTS
    r1 = r1
    r2 = r2
    Requests = {r1, r2}
    Windows <- MCWindows
    MIN_WINDOW = 8
    MAX_WINDOW = 9
    Threshold = 7000
    FloatMax = 300
    DrainDelay = 2
    HandlerTime = 1
    GracefulTimeout = 3
    TerminationGraces = {1, 6}
    RouteDelay = 1
    Patience = 2
    ProbePeriod = 4
    ProbeTimeout = 1
    FailureThreshold = 2
CHECK_DEADLOCK FALSE
INVARIANT NoneDropped LivenessSurvives RobustScore UnitsDoNotMatter AlwaysEncodable
PROPERTY Terminates
