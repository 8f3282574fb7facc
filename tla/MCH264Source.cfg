CONSTANTS
    NumTriggers = 2
    Clients = {s1, s2, s3}
    NoClient = NoClient
    Frames = {small, big}
    Oversize = {big}
    MaxFrames = 2
SPECIFICATION ReaderSpec
INVARIANTS NoLostWakeup InOrder TruncationReported HandlerFindsOwner
PROPERTIES Drains
