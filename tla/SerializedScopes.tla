--------------------------- MODULE SerializedScopes ---------------------------
(*****************************************************************************)
(* What core/merge_queue.py promises its callers: tasks are submitted with a *)
(* set of files, a task runs only while no running task shares a file with   *)
(* it, at most MaxParallel tasks run, and every submitted task ends.  Locks, *)
(* semaphores and their queues do not appear; MergeQueue is shown to         *)
(* implement this module.                                                    *)
(*****************************************************************************)
EXTENDS Naturals, FiniteSets

CONSTANTS Task,          \* the submitted coroutines
          File,          \* the files of the repository
          MaxParallel    \* the parallelism the queue was built with

VARIABLES phase,         \* phase[t]: where the task is
          files          \* files[t]: the files the task may write

vars == <<phase, files>>

Running == {t \in Task : phase[t] = "running"}

Init == /\ phase = [t \in Task |-> "absent"]
        /\ files = [t \in Task |-> {}]

Submit(t) == /\ phase[t] = "absent"
             /\ phase' = [phase EXCEPT ![t] = "waiting"]
             /\ \E F \in SUBSET File : files' = [files EXCEPT ![t] = F]

Begin(t) == /\ phase[t] = "waiting"
            /\ \A u \in Running : files[u] \cap files[t] = {}
            /\ Cardinality(Running) < MaxParallel
            /\ phase' = [phase EXCEPT ![t] = "running"]
            /\ UNCHANGED files

\* A task ends by returning, by failing, or by being cancelled in any phase.
End(t) == /\ phase[t] \in {"waiting", "running"}
          /\ phase' = [phase EXCEPT ![t] = "done"]
          /\ UNCHANGED files

Next == \E t \in Task : Submit(t) \/ Begin(t) \/ End(t)

Spec == Init /\ [][Next]_vars
===============================================================================
