CONSTANTS
    MaxCalls = 3
    QuirkyCalls = 2
    MaxResends = 1
    Room = 4
    Quirks = {"none", "noCSeq", "skips", "bad", "alien", "splitClose", "badLate"}
SPECIFICATION ReqFairSpec
INVARIANTS Sound OneAtATimeIsSafe
PROPERTIES ImplementsPromise EveryCallReturns
CHECK_DEADLOCK FALSE
