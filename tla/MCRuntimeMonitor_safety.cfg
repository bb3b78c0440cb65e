SPECIFICATION FairSpec
CONSTANTS
    File = {"src", "other", "log"}
    Root = "."
    Dir = {"outer", "inner"}
    Of <- Nested
    Authorized = {"src"}
    Log = "log"
    Backends = {"polling", "watchfiles", "inotify", "none"}
    Remotes = {TRUE, FALSE}
    MaxWrites = 3
CHECK_DEADLOCK FALSE
INVARIANTS NoResultAfterViolation AuditComplete NoOrphans FalseAlarmOnlyFromLog NothingUnnoticed
PROPERTIES ReturnsWhenOver PendingViolationStops
