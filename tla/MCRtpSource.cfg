CONSTANTS
    NumSeqNos = 10
    FirstSeq = 7
    MaxPackets = 4
    MaxCopies = 2
    MaxSize = 2
SPECIFICATION Spec
INVARIANTS Sound WholeFrames FramesInOrder NoFrameDropped
