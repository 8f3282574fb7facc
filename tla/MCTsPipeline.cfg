CONSTANTS
    Times = {1, 12}
    Rooms = {0, 4}
    FrameSizes = {1, 4, 9}
    NumFrames = 4
    HeaderSize = 1
    LowWater = 4
    MaxInput = 4
    PacketSize = 4
    PacketData = 3
    PcrSize = 1
    Batch = 3
    PatPeriod = 6
    PmtPeriod = 12
SPECIFICATION PipeFairSpec
INVARIANTS Sound EveryByteOnce StackBounded FilesEndBetweenPes
PROPERTIES Flushed
CHECK_DEADLOCK FALSE
