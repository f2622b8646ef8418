SPECIFICATION Spec
CONSTANTS
    Packets <- SamplePackets
    Headers <- SampleHeaders
    SizeT = 1073741824
    Mapped = 24
CHECK_DEADLOCK FALSE
INVARIANTS
    SpansInPacket
