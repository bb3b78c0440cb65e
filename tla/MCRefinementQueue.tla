-------------------------- MODULE MCRefinementQueue --------------------------
(*****************************************************************************)
(* RefinementQueue for TLC: the processes are interchangeable, the tasks are *)
(* not (tickets follow their order).                                         *)
(*****************************************************************************)
EXTENDS RefinementQueue

ProcessSymmetry == Permutations(Process)
===============================================================================
