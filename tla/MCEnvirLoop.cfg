CONSTANTS
    Threads = {t1, t2}
    Tasks = {f1, f2, f3}
    Loop = Loop
    NoTask = NoTask
    Nobody = Nobody
SPECIFICATION FairSpec
INVARIANTS NothingLost
PROPERTIES ImplementsTaskQueue EventuallyRun CallsReturn
