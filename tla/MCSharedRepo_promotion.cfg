SPECIFICATION SharedSpec
CONSTANTS
    t1 = t1
    t2 = t2
    t3 = t3
    t4 = t4
    Task = {t1, t2, t3, t4}
    NumPaths = 3
    FileOf <- OneSpelling
    MaxParallel = 2
    Cancellable = {}
    NoTask = NoTask
    CommitLock = CommitLock
    Scope <- Scopes
    Local = {t1, t2, t3}
    Committing = {t1, t2, t3, t4}
    Cached = {t2}
    Raises = FALSE
CHECK_DEADLOCK FALSE
INVARIANTS VerifiedIsPromoted
