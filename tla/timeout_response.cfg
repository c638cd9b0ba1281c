SPECIFICATION FairSpec
CONSTANTS
    Requests = {r1, r2}
CHECK_DEADLOCK FALSE
INVARIANT TypeOK OneAuthor ClaimIsAnswered HandlerOwnsHeaders
PROPERTY WorkerFreed
