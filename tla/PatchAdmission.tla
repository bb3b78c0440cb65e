----------------------------- MODULE PatchAdmission -----------------------------
(*****************************************************************************)
(* The admissibility rule of lowering_config.json:41: "No patch is admissible*)
(* unless targeted fail-to-pass checks fail on the base state and            *)
(* pass-to-pass checks succeed on the patched state."  A run first has its   *)
(* bug reproduced, then tries patches one after the other, and admits one    *)
(* only from a state in which that very patch was accepted; a later run may  *)
(* replay the patch that was admitted last.                                  *)
(*****************************************************************************)
CONSTANTS Patch, NoPatch

VARIABLES stage,     \* how far the run has come
          trial,     \* the patch it is trying
          admitted   \* the patch later runs may replay

vars == <<stage, trial, admitted>>

Init == stage = "closed" /\ trial = NoPatch /\ admitted = NoPatch

Open == /\ stage = "closed"
        /\ stage' = "open"
        /\ UNCHANGED <<trial, admitted>>

\* The targeted checks failed on the base state.
Reproduce == /\ stage = "open"
             /\ stage' = "reproduced"
             /\ UNCHANGED <<trial, admitted>>

Try(p) == /\ stage = "reproduced"
          /\ stage' = "trying"
          /\ trial' = p
          /\ UNCHANGED admitted

\* The regression checks succeeded on the patched state.
Accept == /\ stage = "trying"
          /\ stage' = "accepted"
          /\ UNCHANGED <<trial, admitted>>

\* They did not, and another patch may be tried.
Refuse == /\ stage = "trying"
          /\ stage' = "reproduced"
          /\ trial' = NoPatch
          /\ UNCHANGED admitted

Admit == /\ stage = "accepted"
         /\ stage' = "closed"
         /\ admitted' = trial
         /\ trial' = NoPatch

\* A run that ends without a new patch: it replayed one, failed, or crashed.
Close == /\ stage # "closed"
         /\ stage' = "closed"
         /\ trial' = NoPatch
         /\ UNCHANGED admitted

\* What was admitted may be lost, never replaced otherwise.
Forget == /\ admitted' = NoPatch
          /\ UNCHANGED <<stage, trial>>

Next == \/ Open \/ Reproduce \/ Accept \/ Refuse \/ Admit \/ Close \/ Forget
        \/ \E p \in Patch : Try(p)

Spec == Init /\ [][Next]_vars
===============================================================================
