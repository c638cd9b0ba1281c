SPECIFICATION Spec
CONSTANTS
    MaxId = 3
    Respelled = {1}
    Sites = {north}
    DefaultLimit = 1
    MaxLimit = 2
    Clients = {c1, c2}
    Writers = {c1, c2}
    Readers = {c2}
    Walkers = {c2}
    Existing = {2}
    Limits = {0, 2}
    Degrade = TRUE
    MaxAttempts = 2
    CallTime = 2
    CallTimes = {2}
    Backoff = 1
    Deadline = 7
    MaxCreates = 1
INVARIANT WalkExact EnrichmentLeavesTime
PROPERTY ImplementsRegistry
