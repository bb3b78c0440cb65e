SPECIFICATION Spec
CONSTANTS
    File = {"src", "other"}
    Root = "."
    Dir = {}
    Of <- Flat
    Authorized = {"src"}
    Log = "outside"
    Backends = {"watchfiles", "inotify", "fsevents"}
    Remotes = {FALSE}
    MaxWrites = 3
CHECK_DEADLOCK FALSE
INVARIANTS UnauthorizedWriteStops
