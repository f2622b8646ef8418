SPECIFICATION Spec
CONSTANTS
    None = None
    Sent <- SampleSent
CHECK_DEADLOCK FALSE
INVARIANTS
    PeelTypeOK
    PeelIsTheMessage
