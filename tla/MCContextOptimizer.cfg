SPECIFICATION Spec
CONSTANTS
    r1 = r1
    r2 = r2
    File = {1, 2}
    Language <- Languages
    Content <- Contents
    Absent = Absent
    Unread = Unread
    None = None
    Module <- Modules
    Ends <- Endings
    Home <- Homes
    Request <- Requests
    Run = {r1, r2}
    MaxEdits = 1
CHECK_DEADLOCK FALSE
SYMMETRY Symmetry
INVARIANTS ContextOfItsSources LinksLeadHome
