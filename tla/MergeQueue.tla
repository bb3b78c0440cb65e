------------------------------ MODULE MergeQueue ------------------------------
(*****************************************************************************)
(* The scheduler of core/merge_queue.py.  MergeQueue.run starts one coroutine*)
(* per task on one event loop; _run_task takes a permit of the semaphore     *)
(* _parallel, then the lock of every authorized path in sorted order, then   *)
(* runs the pipeline and, if asked to, promotes a commit under _commit_lock  *)
(* in a worker thread.  asyncio's Lock and Semaphore are external: both      *)
(* serve their waiters first come first served and hand what is released     *)
(* straight to the first of them.                                            *)
(*                                                                           *)
(* Every step is what a coroutine does between two suspensions, or less.     *)
(* The pipeline is here only the time it takes and how it ends.              *)
(*****************************************************************************)
EXTENDS Naturals, Sequences, FiniteSets, SequencesExt

CONSTANTS Task,          \* the coroutines run() ever starts on this queue
          NumPaths,      \* how many spellings of paths the requests use
          FileOf,        \* FileOf[p]: the file that spelling p names
          MaxParallel,   \* max_parallel
          Cancellable,   \* the tasks whose run() may be cancelled by its caller
          NoTask,        \* a lock nobody holds
          CommitLock     \* _commit_lock

\* The spellings of paths, numbered in the order sorted() puts them in.
Path == 1..NumPaths

ASSUME PathAssumption == NumPaths \in Nat
ASSUME FileOfAssumption == FileOf = [p \in Path |-> FileOf[p]]
ASSUME ParallelAssumption == MaxParallel \in Nat \ {0}
ASSUME CancelAssumption == Cancellable \subseteq Task
ASSUME NoTaskAssumption == NoTask \notin Task
ASSUME CommitLockAssumption == CommitLock \notin Path

Lock == Path \cup {CommitLock}
File == {FileOf[p] : p \in Path}

VARIABLES
    pc,            \* pc[t]: where the coroutine of task t is
    scope,         \* scope[t]: set(request.authorized_files), as spelled
    permits,       \* the value of the semaphore _parallel
    slotWaiters,   \* the coroutines suspended on _parallel, in order
    owner,         \* owner[l]: the task that holds lock l
    waiters,       \* waiters[l]: the coroutines suspended on lock l, in order
    promoting,     \* the tasks whose promote_commit() runs in a thread
    result         \* result[t]: the status of the QueueResult

vars == <<pc, scope, permits, slotWaiters, owner, waiters, promoting, result>>

(* The coroutines that hold a permit, and those between the last acquire and *)
(* the finally block.                                                        *)
Holding  == {t \in Task : pc[t] \in {"locking", "running", "committing", "promoting"}}
Critical == {t \in Task : pc[t] \in {"running", "committing", "promoting"}}

Owns(t)    == {l \in Lock : owner[l] = t}
Waits(t, l) == \E i \in 1..Len(waiters[l]) : waiters[l][i] = t
Blocked(t) == \E l \in Lock : Waits(t, l)
Files(t)   == {FileOf[p] : p \in scope[t]}

Init == /\ pc = [t \in Task |-> "new"]
        /\ scope = [t \in Task |-> {}]
        /\ permits = MaxParallel
        /\ slotWaiters = <<>>
        /\ owner = [l \in Lock |-> NoTask]
        /\ waiters = [l \in Lock |-> <<>>]
        /\ promoting = {}
        /\ result = [t \in Task |-> "none"]

-------------------------------------------------------------------------------
(* asyncio.Lock and asyncio.Semaphore.                                       *)

AcquireLock(t, l) ==
    IF owner[l] = NoTask
    THEN /\ owner' = [owner EXCEPT ![l] = t]
         /\ UNCHANGED waiters
    ELSE /\ waiters' = [waiters EXCEPT ![l] = Append(@, t)]
         /\ UNCHANGED owner

\* Each lock of R goes to the first coroutine waiting for it.
ReleaseLocks(R) ==
    /\ owner' = [l \in Lock |-> IF l \notin R THEN owner[l]
                                ELSE IF waiters[l] = <<>> THEN NoTask
                                ELSE Head(waiters[l])]
    /\ waiters' = [l \in Lock |-> IF l \in R /\ waiters[l] # <<>>
                                  THEN Tail(waiters[l]) ELSE waiters[l]]

\* The coroutine t ends; its permit goes to the first coroutine in the queue.
ReleasePermit(t) ==
    IF slotWaiters = <<>>
    THEN /\ permits' = permits + 1
         /\ pc' = [pc EXCEPT ![t] = "done"]
         /\ UNCHANGED slotWaiters
    ELSE /\ slotWaiters' = Tail(slotWaiters)
         /\ pc' = [pc EXCEPT ![t] = "done", ![Head(slotWaiters)] = "locking"]
         /\ UNCHANGED permits

-------------------------------------------------------------------------------
(* _run_task.                                                                *)

\* Mutant of FileLocks: the finally block misses the first lock.
FileLocksButFirst(t) == {p \in scope[t] : \E q \in scope[t] : q < p}

\* The locks the finally block releases: those of the task's paths.
FileLocks(t) == scope[t]

\* Mutant of NextPaths: the set is not sorted.
NextPathsUnsorted(t) == scope[t] \ Owns(t)

\* sorted(set(...)): a task asks for the least path it does not own yet.
NextPaths(t) == {p \in scope[t] \ Owns(t) : \A q \in scope[t] \ Owns(t) : p <= q}

\* run() starts the coroutine: it gets a permit or queues for one.
Submit(t, S) ==
    /\ pc[t] = "new"
    /\ scope' = [scope EXCEPT ![t] = S]
    /\ IF permits > 0
       THEN /\ permits' = permits - 1
            /\ pc' = [pc EXCEPT ![t] = "locking"]
            /\ UNCHANGED slotWaiters
       ELSE /\ slotWaiters' = Append(slotWaiters, t)
            /\ pc' = [pc EXCEPT ![t] = "queued"]
            /\ UNCHANGED permits
    /\ UNCHANGED <<owner, waiters, promoting, result>>

AcquireNext(t) ==
    /\ pc[t] = "locking"
    /\ ~Blocked(t)
    /\ \E p \in NextPaths(t) : AcquireLock(t, p)
    /\ UNCHANGED <<pc, scope, permits, slotWaiters, promoting, result>>

\* Mutant of StartPipeline: one lock is taken for the whole scope.
StartPipelineEarly(t) ==
    /\ pc[t] = "locking"
    /\ scope[t] = {} \/ scope[t] \cap Owns(t) # {}
    /\ pc' = [pc EXCEPT ![t] = "running"]
    /\ UNCHANGED <<scope, permits, slotWaiters, owner, waiters, promoting, result>>

StartPipeline(t) ==
    /\ pc[t] = "locking"
    /\ scope[t] \subseteq Owns(t)
    /\ pc' = [pc EXCEPT ![t] = "running"]
    /\ UNCHANGED <<scope, permits, slotWaiters, owner, waiters, promoting, result>>

\* The try block is left with a result: the finally block and the semaphore's
\* __aexit__ run with no suspension in between.
Leave(t, locks, status) ==
    /\ ReleaseLocks(locks)
    /\ ReleasePermit(t)
    /\ result' = [result EXCEPT ![t] = status]

\* The pipeline returns and commit_on_success is false, or the pipeline raises.
PipelineEnds(t, status) ==
    /\ pc[t] = "running"
    /\ Leave(t, FileLocks(t), status)
    /\ UNCHANGED <<scope, promoting>>

\* The pipeline returns and commit_on_success is true.
RequestCommit(t) ==
    /\ pc[t] = "running"
    /\ AcquireLock(t, CommitLock)
    /\ pc' = [pc EXCEPT ![t] = "committing"]
    /\ UNCHANGED <<scope, permits, slotWaiters, promoting, result>>

\* asyncio.to_thread: promote_commit starts in a worker thread.
StartPromotion(t) ==
    /\ pc[t] = "committing"
    /\ owner[CommitLock] = t
    /\ promoting' = promoting \cup {t}
    /\ pc' = [pc EXCEPT ![t] = "promoting"]
    /\ UNCHANGED <<scope, permits, slotWaiters, owner, waiters, result>>

\* The thread ends with a commit ("ok") or with PipelineFailure ("failed").
PromotionEnds(t, status) ==
    /\ pc[t] = "promoting"
    /\ promoting' = promoting \ {t}
    /\ Leave(t, FileLocks(t) \cup {CommitLock}, status)
    /\ UNCHANGED scope

\* The thread of a cancelled task ends; nobody awaits it any more.
OrphanPromotionEnds(t) ==
    /\ pc[t] = "done"
    /\ t \in promoting
    /\ promoting' = promoting \ {t}
    /\ UNCHANGED <<pc, scope, permits, slotWaiters, owner, waiters, result>>

-------------------------------------------------------------------------------
(* Cancellation of run(), which gather() passes on to every coroutine; it    *)
(* arrives where the coroutine is suspended.                                 *)

\* Suspended on the semaphore: the coroutine leaves the queue and ends.
CancelQueued(t) ==
    /\ pc[t] = "queued"
    /\ \E i \in 1..Len(slotWaiters) : /\ slotWaiters[i] = t
                                      /\ slotWaiters' = RemoveAt(slotWaiters, i)
    /\ pc' = [pc EXCEPT ![t] = "done"]
    /\ result' = [result EXCEPT ![t] = "cancelled"]
    /\ UNCHANGED <<scope, permits, owner, waiters, promoting>>

\* Suspended on a file lock: this is before the try block, so the locks already
\* acquired are not released; the permit is.
CancelLocking(t) ==
    /\ pc[t] = "locking"
    /\ \E l \in Lock : \E i \in 1..Len(waiters[l]) :
          /\ waiters[l][i] = t
          /\ waiters' = [waiters EXCEPT ![l] = RemoveAt(@, i)]
    /\ ReleasePermit(t)
    /\ result' = [result EXCEPT ![t] = "cancelled"]
    /\ UNCHANGED <<scope, owner, promoting>>

\* Suspended in the pipeline: CancelledError is no Exception, so no QueueResult
\* is made, but the finally block runs.
CancelRunning(t) ==
    /\ pc[t] = "running"
    /\ Leave(t, FileLocks(t), "cancelled")
    /\ UNCHANGED <<scope, promoting>>

\* Suspended on the commit lock: the coroutine leaves that queue, too.
CancelCommitting(t) ==
    /\ pc[t] = "committing"
    /\ \E i \in 1..Len(waiters[CommitLock]) :
          /\ waiters[CommitLock][i] = t
          /\ owner' = [l \in Lock |-> IF l \notin FileLocks(t) THEN owner[l]
                                      ELSE IF waiters[l] = <<>> THEN NoTask
                                      ELSE Head(waiters[l])]
          /\ waiters' = [l \in Lock |->
                            IF l = CommitLock THEN RemoveAt(waiters[l], i)
                            ELSE IF l \in FileLocks(t) /\ waiters[l] # <<>>
                            THEN Tail(waiters[l]) ELSE waiters[l]]
    /\ ReleasePermit(t)
    /\ result' = [result EXCEPT ![t] = "cancelled"]
    /\ UNCHANGED <<scope, promoting>>

\* Suspended on the thread: every lock is released while the thread runs on.
CancelPromoting(t) ==
    /\ pc[t] = "promoting"
    /\ Leave(t, FileLocks(t) \cup {CommitLock}, "cancelled")
    /\ UNCHANGED <<scope, promoting>>

Cancel(t) == \/ CancelQueued(t)
             \/ CancelLocking(t)
             \/ CancelRunning(t)
             \/ CancelCommitting(t)
             \/ CancelPromoting(t)

-------------------------------------------------------------------------------
\* What the event loop and the worker threads do of themselves.
Step(t) == \/ \E S \in SUBSET Path : Submit(t, S)
           \/ AcquireNext(t)
           \/ StartPipeline(t)
           \/ \E status \in {"ok", "failed"} : PipelineEnds(t, status)
           \/ RequestCommit(t)
           \/ StartPromotion(t)
           \/ \E status \in {"ok", "failed"} : PromotionEnds(t, status)
           \/ OrphanPromotionEnds(t)

Next == \/ \E t \in Task : Step(t)
        \/ \E t \in Cancellable : Cancel(t)

Spec == Init /\ [][Next]_vars

\* The event loop runs every ready coroutine.  That a pipeline and a promotion come
\* to an end is an assumption about what they wait for: neither pytest nor git nor
\* docker is given a time limit.
FairSpec == Spec /\ \A t \in Task : WF_vars(Step(t))

-------------------------------------------------------------------------------
(* Properties.                                                               *)

\* The type of the state.
TypeOK ==
    /\ pc \in [Task -> {"new", "queued", "locking", "running", "committing",
                        "promoting", "done"}]
    /\ scope \in [Task -> SUBSET Path]
    /\ permits \in Nat
    /\ slotWaiters \in Seq(Task)
    /\ owner \in [Lock -> Task \cup {NoTask}]
    /\ waiters \in [Lock -> Seq(Task)]
    /\ promoting \subseteq Task
    /\ result \in [Task -> {"none", "ok", "failed", "cancelled"}]

\* "Serializes overlapping file scopes": from the last acquire to the finally
\* block, no two tasks are authorized to write the same file.
ScopesSerialized ==
    \A t, u \in Critical : t # u => Files(t) \cap Files(u) = {}

\* Every permit of _parallel is either free or held by exactly one coroutine
\* that will give it back, whatever was cancelled and wherever: no permit is
\* lost and none is given back twice.
PermitsAccounted ==
    /\ permits + Cardinality(Holding) = MaxParallel
    /\ slotWaiters # <<>> => permits = 0

\* No hand-over is lost: what coroutines queue for is held by somebody.
NoLostWakeup == \A l \in Lock : waiters[l] # <<>> => owner[l] # NoTask

\* Nothing the scheduler does keeps it from coming to rest.  A set of coroutines
\* none of which waits for one outside it, be it for a lock or for a permit, has a
\* member that waits for nothing: so whoever waits, waits in the end for one that
\* can go on, unless it is for a lock that a cancelled acquire loop left behind.
Started    == {t \in Task : pc[t] \notin {"new", "done"}}
WaitsFor(t) == {u \in Holding : \E i \in 1..Len(slotWaiters) : slotWaiters[i] = t}
                 \cup {u \in Task : \E l \in Lock : Waits(t, l) /\ owner[l] = u}
CanGoOn(t) == \/ pc[t] = "locking" /\ ~Blocked(t)
              \/ pc[t] \in {"running", "promoting"}
              \/ pc[t] = "committing" /\ owner[CommitLock] = t
NeverStuck ==
    \A C \in SUBSET Started :
        C # {} /\ (\A t \in C : WaitsFor(t) \subseteq C) => \E t \in C : CanGoOn(t)

\* How many steps a task is from its end at most, its thread included.
Distance(t) ==
    CASE pc[t] = "new"        -> 2 * NumPaths + 7
      [] pc[t] = "queued"     -> 2 * NumPaths + 6
      [] pc[t] = "locking"    -> 5 + 2 * Cardinality(scope[t] \ Owns(t))
                                   - (IF Blocked(t) THEN 1 ELSE 0)
      [] pc[t] = "running"    -> 4
      [] pc[t] = "committing" -> 3
      [] pc[t] = "promoting"  -> 2
      [] pc[t] = "done"       -> IF t \in promoting THEN 1 ELSE 0

\* Every step, a cancellation included, brings one task nearer to its end and
\* takes none back, whatever locks and permits it hands over: no task is scheduled
\* for ever, and with NeverStuck every task ends.
EveryStepCounts ==
    [][/\ \A t \in Task : Distance(t)' <= Distance(t)
       /\ \E t \in Task : Distance(t)' < Distance(t)]_vars

\* A lock outlives its task only if the task was cancelled between two
\* acquires, that is, before it owned its whole scope; any other end, a
\* cancelled pipeline or commit included, releases everything.
LocksOutliveOnlyCancelledAcquire ==
    \A t \in Task : pc[t] = "done" /\ Owns(t) # {} =>
        /\ result[t] = "cancelled"
        /\ ~(scope[t] \subseteq Owns(t))

\* A thread that promotes a commit runs under the commit lock, unless its task
\* was cancelled: then, and only then, two promotions can overlap.
PromotionHoldsCommitLock ==
    \A t \in promoting : owner[CommitLock] = t \/ result[t] = "cancelled"

\* merge_queue.py:58-75: of all ends of a task only its cancellation, and only at
\* these two places, leaves locks that nobody releases or a thread without locks.
OnlyCancellationLeaks == LocksOutliveOnlyCancelledAcquire /\ PromotionHoldsCommitLock

\* Every task run() starts is answered, whichever scopes overlap and whichever
\* pipelines and commits fail (no run() cancelled).
EveryTaskAnswered == \A t \in Task : <>(result[t] \in {"ok", "failed"})

-------------------------------------------------------------------------------
(* Refinement: the lock-based scheduler implements SerializedScopes.         *)

phaseOf(t) == CASE pc[t] = "new" -> "absent"
                [] pc[t] \in {"queued", "locking"} -> "waiting"
                [] t \in Critical -> "running"
                [] OTHER -> "done"

Promise == INSTANCE SerializedScopes
             WITH phase <- [t \in Task |-> phaseOf(t)],
                  files <- [t \in Task |-> Files(t)]

\* The promise of the class, as an abstract specification.
ImplementsSerializedScopes == Promise!Spec
===============================================================================
