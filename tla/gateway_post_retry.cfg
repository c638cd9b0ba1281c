SPECIFICATION Spec
CONSTANTS
    MaxId = 1
    Respelled = {}
    Sites = {north}
    DefaultLimit = 1
    MaxLimit = 1
    Clients = {c1}
    Writers = {c1}
    Readers = {}
    Walkers = {}
    Existing = {}
    Limits = {0}
    Degrade = TRUE
    MaxAttempts = 2
    CallTime = 1
    CallTimes = {1}
    Backoff = 1
    Deadline = 4
    MaxCreates = 1
CHECK_DEADLOCK FALSE
INVARIANT RetryIsIdempotent
