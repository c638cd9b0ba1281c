SPECIFICATION ASpec
CONSTANTS
    c1 = c1
    c2 = c2
    s1 = s1
    s2 = s2
    AnonymousClient = anonymous
    Keys = {c1, c2, anonymous}
    Secrets = {s1, s2}
    KeySpecs <- MCKeySpecs
    Credentials <- MCCredentials
    Requests = {q1, q2}
    Token = 2
    Rate = 1
    Burst = 1
    IdleTTL = 4
    Second = 2
    MaxSkew = 1
    MaxClock = 5
CHECK_DEADLOCK FALSE
INVARIANT RateHeld BucketsBounded KeysIdentify
PROPERTY RetryAfterHonoured
SYMMETRY RequestSymmetry
