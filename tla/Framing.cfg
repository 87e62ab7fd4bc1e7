SPECIFICATION Spec
CONSTANTS
    Bytes = {0, 1, 3, 15, 129}
    MaxPacketSize = 3
    MaxStream = 7
INVARIANTS ChunkingIrrelevant BufferBounded
CHECK_DEADLOCK FALSE
