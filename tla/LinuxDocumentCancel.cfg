CONSTANTS
    Paths = {p, q}
    Versions = {blank, one, two}
    Blank = blank
    Chunks = 2
    None = None
SPECIFICATION Spec
INVARIANT PendingActionIsAsked
CHECK_DEADLOCK FALSE
