CONSTANTS
    Tasks = {a, b}
    NumSockets = 2
    MaxDelay = 2
    MaxBusy = 3
    MaxBack = 1
    MaxJumps = 1
    MaxRegs = 3
SPECIFICATION FairSpec
INVARIANTS Sound DueInOrder WakesInTime
PROPERTIES NeverEarly NobodyStarves
