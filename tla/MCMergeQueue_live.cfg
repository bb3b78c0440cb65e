SPECIFICATION FairSpec
CONSTANTS
    t1 = t1
    t2 = t2
    t3 = t3
    Task = {t1, t2, t3}
    NumPaths = 2
    FileOf <- OneSpelling
    MaxParallel = 2
    Cancellable = {}
    NoTask = NoTask
    CommitLock = CommitLock
PROPERTIES
    EveryTaskAnswered
    ImplementsSerializedScopes
CHECK_DEADLOCK FALSE
