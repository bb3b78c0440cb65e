-------------------------------- MODULE MCRunKit --------------------------------
EXTENDS RunKit

\* A large and a small configuration, and one whose execution_order names an
\* item that work_items does not have.
WorkItems == [c \in Config |-> CASE c = "large"  -> {"worker-a.md", "worker-b.md"}
                                [] c = "small"  -> {"worker-b.md"}
                                [] c = "broken" -> {"worker-a.md"}]
ExecutionOrder == [c \in Config |-> IF c = "small" THEN <<"worker-b.md">>
                                    ELSE <<"worker-a.md", "worker-b.md">>]
DoneItems == [c \in Config |-> IF c = "large" THEN {"worker-a.md"} ELSE {}]
TicketNames == <<"TICKET-001.md", "TICKET-002.md">>

\* Four commands, three of which one may die or fail to remove a file; enough analyses
\* to take program.md beyond v10, or to lose one and start again.
Budgets == {[commands |-> 4, edits |-> 1, crashes |-> 0, analyses |-> 0],
            [commands |-> 3, edits |-> 1, crashes |-> 1, analyses |-> 0],
            [commands |-> 2, edits |-> 0, crashes |-> 1, analyses |-> 2],
            [commands |-> 1, edits |-> 0, crashes |-> 0, analyses |-> 10]}

\* Bound: no more than two versions are logged before the operator's command is over.
Apart == pc # "ready" => Cardinality(log) <= 2

Analysts == Permutations(Analysis)
================================================================================
