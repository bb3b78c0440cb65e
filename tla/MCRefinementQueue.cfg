SPECIFICATION Spec
CONSTANTS
    NumTasks = 2
    Message = {m}
    Process = {p, q}
    MaxEmissions = 2
    MaxPromotions = 2
    MaxRuns = 2
    None = None
CHECK_DEADLOCK FALSE
INVARIANTS IssuesTicketed DoneMeansResolved LoopCloses
SYMMETRY ProcessSymmetry
