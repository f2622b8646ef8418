SPECIFICATION IngestSpec
CONSTANTS
    None = None
    Captures <- SampleCaptures
    Strays <- SampleStrays
    Packets <- IngestPackets
    Headers <- SampleHeaders
    SizeT = 1073741824
    Mapped = 24
CHECK_DEADLOCK FALSE
INVARIANTS
    FramingTypeOK
    OnlyWrapLeavesPacket
    EveryPayloadFound
    RowsAreTheMessages
PROPERTIES
    CaptureEnds
