SPECIFICATION Spec
CONSTANTS
    Callers = {c1, c2}
    MinimumRequests = 2
    RatioNum = 1
    RatioDen = 2
    OpenTimeout = 2
    HalfOpenMaxCalls = 1
    HalfOpenSuccesses = 1
    Window = 2
    MaxCallTime = 1
    MalformedURLs = TRUE
    MaxWindowCalls = 3
    MaxAttempts = 3
    BaseDelay = 1
    MaxDelay = 1
    JitterNum = 1
    JitterDen = 1
    Deadlines = {2, 8}
SYMMETRY CallerSymmetry
INVARIANT TypeOK WithinBudget BackoffFitsDeadline
PROPERTY TrialsDecide OnlyFailuresTrip
