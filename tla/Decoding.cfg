SPECIFICATION Spec
CONSTANTS
    None = None
    Sent <- SampleSent
    Noise <- SampleNoise
CHECK_DEADLOCK FALSE
INVARIANTS
    DecoderTypeOK
    DecodesWhatWasSent
PROPERTIES
    TruncationNeverInvents
