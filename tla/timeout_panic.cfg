SPECIFICATION FairSpec
CONSTANTS
    Requests = {r1}
CHECK_DEADLOCK FALSE
PROPERTY PanicContained
