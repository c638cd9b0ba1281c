SPECIFICATION Spec
CONSTANTS
    Requests = {r1}
CHECK_DEADLOCK FALSE
INVARIANT BytesOnTheWire
