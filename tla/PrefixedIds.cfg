SPECIFICATION Spec
CONSTANTS
    None = None
    Sent <- PrefixedSent
CHECK_DEADLOCK FALSE
INVARIANTS
    IdsAreRead
