CONSTANTS
    HeaderLen = 2
    MaxLen = 4
    Lengths = {1, 2, 4, 5}
    FloodAkEnable = TRUE
    FloodKickCount = 2
    MaxPackets = 4
SPECIFICATION Spec
INVARIANTS
    TypeOK
    BufferExact
    FloodExact
PROPERTY
    ImplementsPacketStream
