SPECIFICATION Spec
CONSTANTS
    None = None
    Sent <- LongSent
CHECK_DEADLOCK FALSE
INVARIANTS
    NasIsWhole
