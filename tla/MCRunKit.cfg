SPECIFICATION Spec
CONSTANTS
    Config = {"large", "small", "broken"}
    Item = {"worker-a.md", "worker-b.md"}
    Work <- WorkItems
    Order <- ExecutionOrder
    Resolved <- DoneItems
    Ticket <- TicketNames
    None = None
    Torn = Torn
    Analysis = {m1, m2}
    Budget <- Budgets
SYMMETRY Analysts
CONSTRAINT Apart
INVARIANTS KitRendersConfig QueueOfOneConfig VersionsExplained
PROPERTIES BootstrapCopiesKit WorkNotLost
CHECK_DEADLOCK FALSE
