SPECIFICATION Spec
CONSTANTS
    File <- Files
    Link = ".git"
    Before <- BaseTree
    Patch <- Patches
    Nowhere = "nowhere"
    NoTree = NoTree
    Check <- Checks
    Terms <- CheckTerms
    Suite <- Suites
    Adapters = {"worktree", "container", "e2b", "modal", "custom", "humanlayer"}
    MaxRuns = 2
    MaxFaults = 2
INVARIANTS DeliveredWhole EvidenceHolds NothingLeftBehind
PROPERTIES EveryStepCounts
CHECK_DEADLOCK FALSE
