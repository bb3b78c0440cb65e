SPECIFICATION Spec
CONSTANTS
    t1 = t1
    t2 = t2
    t3 = t3
    t4 = t4
    Task = {t1, t2, t3, t4}
    NumPaths = 2
    FileOf <- OneSpelling
    MaxParallel = 3
    Cancellable = {t1, t2, t3, t4}
    NoTask = NoTask
    CommitLock = CommitLock
SYMMETRY Symmetry
INVARIANTS
    ScopesSerialized
    NeverStuck
    OnlyCancellationLeaks
CHECK_DEADLOCK FALSE
