----------------------------- MODULE MCMergeQueue -----------------------------
(*****************************************************************************)
(* Values for the constants of MergeQueue and symmetry for its safety runs.  *)
(*****************************************************************************)
EXTENDS MergeQueue

Symmetry == Permutations(Task)

\* Every path has one spelling.
OneSpelling == [p \in Path |-> p]
===============================================================================
