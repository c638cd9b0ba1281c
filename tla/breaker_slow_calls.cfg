SPECIFICATION FairSpec
CONSTANTS
    Callers = {c1, c2, c3, c4}
    MinimumRequests = 2
    RatioNum = 1
    RatioDen = 2
    OpenTimeout = 2
    HalfOpenMaxCalls = 2
    HalfOpenSuccesses = 2
    Window = 3
    MaxCallTime = 3
    MalformedURLs = FALSE
    MaxWindowCalls = 5
INVARIANT TypeOK NoLeakedSlots NoCallWhileOpen OutageTrips
PROPERTY Recovers
