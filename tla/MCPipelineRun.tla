----------------------------- MODULE MCPipelineRun -----------------------------
(* Instances of PipelineRun for TLC.                                         *)
EXTENDS PipelineRun

\* "fix" repairs the bug, "break" does too but breaks what the contracts guard,
\* "noop" changes something else.
Patches == {"fix", "break", "noop"}
Repairs == {"fix", "break"}
Strict  == [strict |-> {"break"}]

\* The requests of one task: every sandbox, the tiers of ResourceConstraints.
Requests(sandboxes, contracts) ==
    [sandbox : sandboxes, contracts : contracts, tiered : {TRUE}, tier : {"draft"},
     escalate : BOOLEAN, attempts : {2}, exposed : BOOLEAN]
    \cup [sandbox : sandboxes, contracts : contracts, tiered : {FALSE},
          tier : {"production"}, escalate : {TRUE}, attempts : {2}, exposed : {FALSE}]

AllRequests   == Requests(Sandbox, {"strict"})
FaultyRequests == {r \in AllRequests : r.escalate /\ (r.tiered => r.exposed)}
===============================================================================
