SPECIFICATION Spec
CONSTANTS
    Patch <- Patches
    NoPatch = NoPatch
    Loose = {"edit"}
    Clash = {}
    Fixing <- Repairs
    Breaking <- Strict
    Repeatable = {}
    Deleting = {}
    OutOfScope = {}
    NoTree = NoTree
    Request <- AllRequests
    Costs = {0, 2, 3}
    MaxCost = 2
    Faults = {"lower", "snapshot", "prepare", "executor", "flaky"}
    MaxRuns = 2
CHECK_DEADLOCK FALSE
INVARIANTS VerifiedOnBase DeliveredAsVerified CompensationDestroysSandboxes BudgetFailsClosed VerifiedIsDelivered
