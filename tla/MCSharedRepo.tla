----------------------------- MODULE MCSharedRepo -----------------------------
(* Instances of SharedRepo for TLC.                                          *)
EXTENDS SharedRepo

CONSTANTS t1, t2, t3, t4

OneSpelling == [p \in Path |-> p]

\* t1 and t2 share a file, t2 and t3 share another, t4 has one of its own.
Scopes == [t \in Task |-> CASE t = t1 -> {1} [] t = t2 -> {1, 2} [] t = t3 -> {2}
                            [] OTHER -> {3}]
===============================================================================
