SPECIFICATION FairSpec
CONSTANTS
    Patch <- Patches
    NoPatch = NoPatch
    Loose = {"edit", "clash"}
    Clash = {"clash"}
    Fixing <- Repairs
    Breaking <- Strict
    Repeatable = {"fix"}
    Deleting = {"break"}
    OutOfScope = {"noop"}
    NoTree = NoTree
    Request <- FaultyRequests
    Costs = {2}
    MaxCost = 2
    Faults = {"lower", "snapshot", "prepare", "executor", "direct", "command", "teardown", "cache", "flaky", "crash"}
    MaxRuns = 2
CHECK_DEADLOCK FALSE
INVARIANTS Admissible FailureExplained RollbackRestores
PROPERTIES RunEnds SandboxSparesRepo ImplementsPatchAdmission
