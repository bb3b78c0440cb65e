----------------------------- MODULE MergeQueueProofs -----------------------------
(*****************************************************************************)
(* What MergeQueue guarantees for every value of the constants: overlapping  *)
(* tasks never meet, permits are accounted for, coroutines never wait for    *)
(* each other in a circle, no hand-over of a lock is lost, a lock outlives   *)
(* its task only through a cancelled acquire, a promotion runs under the     *)
(* commit lock, and the scheduler implements SerializedScopes.               *)
(*****************************************************************************)
EXTENDS MergeQueue, SequenceTheorems, FiniteSetTheorems, WellFoundedInduction, TLAPS

LEMMA RemoveAtProperties ==
    ASSUME NEW S, NEW s \in Seq(S), NEW i \in 1..Len(s)
    PROVE  /\ RemoveAt(s, i) \in Seq(S)
           /\ Len(RemoveAt(s, i)) = Len(s) - 1
           /\ \A k \in 1..(Len(s) - 1) :
                 RemoveAt(s, i)[k] = IF k < i THEN s[k] ELSE s[k + 1]
<1> DEFINE a == SubSeq(s, 1, i - 1)
           b == SubSeq(s, i + 1, Len(s))
<1>1. Len(s) \in Nat /\ i \in Nat /\ 1 <= i /\ i <= Len(s)
  BY LenProperties
<1>2. /\ a \in Seq(S)
      /\ Len(a) = i - 1
      /\ \A k \in 1..(i - 1) : a[k] = s[k]
  BY <1>1, SubSeqProperties, ElementOfSeq
<1>3. /\ b \in Seq(S)
      /\ Len(b) = Len(s) - i
      /\ \A k \in 1..(Len(s) - i) : b[k] = s[i + k]
  BY <1>1, SubSeqProperties, ElementOfSeq
<1>4. RemoveAt(s, i) = a \o b
  BY DEF RemoveAt
<1> HIDE DEF a, b
<1>5. /\ a \o b \in Seq(S)
      /\ Len(a \o b) = Len(s) - 1
      /\ \A k \in 1..(Len(s) - 1) : 
            (a \o b)[k] = IF k <= i - 1 THEN a[k] ELSE b[k - (i - 1)]
  <2>1. /\ a \o b \in Seq(S)
        /\ Len(a \o b) = Len(a) + Len(b)
        /\ \A k \in 1..(Len(a) + Len(b)) :
              (a \o b)[k] = IF k <= Len(a) THEN a[k] ELSE b[k - Len(a)]
    BY <1>2, <1>3, ConcatProperties
  <2>2. Len(a) + Len(b) = Len(s) - 1
    BY <1>1, <1>2, <1>3
  <2> QED BY <2>1, <2>2, <1>2
<1>6. ASSUME NEW k \in 1..(Len(s) - 1)
      PROVE  (a \o b)[k] = IF k < i THEN s[k] ELSE s[k + 1]
  <2>1. CASE k < i
    BY <2>1, <1>1, <1>2, <1>5
  <2>2. CASE ~(k < i)
    <3>1. k - (i - 1) \in 1..(Len(s) - i) /\ i + (k - (i - 1)) = k + 1
      BY <2>2, <1>1
    <3> QED BY <2>2, <3>1, <1>1, <1>3, <1>5
  <2> QED BY <2>1, <2>2
<1> QED BY <1>4, <1>5, <1>6

-------------------------------------------------------------------------------
LEMMA ReleaseLocksType ==
    ASSUME TypeOK, NEW R, ReleaseLocks(R)
    PROVE  /\ owner' \in [Lock -> Task \cup {NoTask}]
           /\ waiters' \in [Lock -> Seq(Task)]
  BY HeadTailProperties DEF TypeOK, ReleaseLocks

LEMMA ReleasePermitType ==
    ASSUME TypeOK, NEW t \in Task, ReleasePermit(t)
    PROVE  /\ permits' \in Nat
           /\ slotWaiters' \in Seq(Task)
           /\ pc' \in [Task -> {"new", "queued", "locking", "running", "committing",
                        "promoting", "done"}]
<1>1. CASE slotWaiters = <<>>
  BY <1>1 DEF TypeOK, ReleasePermit
<1>2. CASE slotWaiters # <<>>
  <2>1. Head(slotWaiters) \in Task /\ Tail(slotWaiters) \in Seq(Task)
    BY <1>2, HeadTailProperties DEF TypeOK
  <2> QED BY <1>2, <2>1 DEF TypeOK, ReleasePermit
<1> QED BY <1>1, <1>2

LEMMA AcquireLockType ==
    ASSUME TypeOK, NEW t \in Task, NEW l \in Lock, AcquireLock(t, l)
    PROVE  /\ owner' \in [Lock -> Task \cup {NoTask}]
           /\ waiters' \in [Lock -> Seq(Task)]
<1>1. CASE owner[l] = NoTask
  BY <1>1 DEF TypeOK, AcquireLock
<1>2. CASE owner[l] # NoTask
  <2>1. Append(waiters[l], t) \in Seq(Task)
    BY AppendProperties DEF TypeOK
  <2> QED BY <1>2, <2>1 DEF TypeOK, AcquireLock
<1> QED BY <1>1, <1>2

LEMMA TypeInvariant == TypeOK /\ [Next]_vars => TypeOK'
<1> SUFFICES ASSUME TypeOK, [Next]_vars PROVE TypeOK'
  OBVIOUS
<1>1. ASSUME NEW t \in Task, NEW S \in SUBSET Path, Submit(t, S)
      PROVE  TypeOK'
  <2>1. Append(slotWaiters, t) \in Seq(Task)
    BY AppendProperties DEF TypeOK
  <2>2. /\ scope' \in [Task -> SUBSET Path]
        /\ UNCHANGED <<owner, waiters, promoting, result>>
    BY <1>1 DEF TypeOK, Submit
  <2>3. CASE permits > 0
    <3>1. permits' \in Nat /\ slotWaiters' = slotWaiters
      BY <1>1, <2>3 DEF TypeOK, Submit
    <3>2. pc' = [pc EXCEPT ![t] = "locking"]
      BY <1>1, <2>3 DEF Submit
    <3> QED BY <2>2, <3>1, <3>2 DEF TypeOK
  <2>4. CASE ~(permits > 0)
    <3>1. permits' = permits /\ slotWaiters' \in Seq(Task)
      BY <1>1, <2>1, <2>4 DEF Submit
    <3>2. pc' = [pc EXCEPT ![t] = "queued"]
      BY <1>1, <2>4 DEF Submit
    <3> QED BY <2>2, <3>1, <3>2 DEF TypeOK
  <2> QED BY <2>3, <2>4
<1>2. ASSUME NEW t \in Task, AcquireNext(t)
      PROVE  TypeOK'
  <2>1. PICK p \in NextPaths(t) : AcquireLock(t, p)
    BY <1>2 DEF AcquireNext
  <2>2. p \in Lock
    BY DEF NextPaths, Lock, TypeOK
  <2> QED BY <1>2, <2>1, <2>2, AcquireLockType DEF TypeOK, AcquireNext
<1>3. ASSUME NEW t \in Task, StartPipeline(t)
      PROVE  TypeOK'
  BY <1>3 DEF TypeOK, StartPipeline
<1>4. ASSUME NEW t \in Task, NEW status \in {"ok", "failed"}, PipelineEnds(t, status)
      PROVE  TypeOK'
  BY <1>4, ReleaseLocksType, ReleasePermitType DEF TypeOK, PipelineEnds, Leave
<1>5. ASSUME NEW t \in Task, RequestCommit(t)
      PROVE  TypeOK'
  <2>1. CommitLock \in Lock
    BY DEF Lock
  <2> QED BY <1>5, <2>1, AcquireLockType DEF TypeOK, RequestCommit
<1>6. ASSUME NEW t \in Task, StartPromotion(t)
      PROVE  TypeOK'
  BY <1>6 DEF TypeOK, StartPromotion
<1>7. ASSUME NEW t \in Task, NEW status \in {"ok", "failed"}, PromotionEnds(t, status)
      PROVE  TypeOK'
  BY <1>7, ReleaseLocksType, ReleasePermitType DEF TypeOK, PromotionEnds, Leave
<1>8. ASSUME NEW t \in Task, OrphanPromotionEnds(t)
      PROVE  TypeOK'
  BY <1>8 DEF TypeOK, OrphanPromotionEnds
<1>9. ASSUME NEW t \in Task, CancelQueued(t)
      PROVE  TypeOK'
  BY <1>9, RemoveAtProperties DEF TypeOK, CancelQueued
<1>10. ASSUME NEW t \in Task, CancelLocking(t)
       PROVE  TypeOK'
  <2>1. waiters' \in [Lock -> Seq(Task)]
    BY <1>10, RemoveAtProperties DEF TypeOK, CancelLocking
  <2> QED BY <1>10, <2>1, ReleasePermitType DEF TypeOK, CancelLocking
<1>11. ASSUME NEW t \in Task, CancelRunning(t)
       PROVE  TypeOK'
  BY <1>11, ReleaseLocksType, ReleasePermitType DEF TypeOK, CancelRunning, Leave
<1>12. ASSUME NEW t \in Task, CancelCommitting(t)
       PROVE  TypeOK'
  <2>1. waiters' \in [Lock -> Seq(Task)]
    BY <1>12, RemoveAtProperties, HeadTailProperties DEF TypeOK, CancelCommitting
  <2>2. owner' \in [Lock -> Task \cup {NoTask}]
    BY <1>12, HeadTailProperties DEF TypeOK, CancelCommitting
  <2> QED BY <1>12, <2>1, <2>2, ReleasePermitType DEF TypeOK, CancelCommitting
<1>13. ASSUME NEW t \in Task, CancelPromoting(t)
       PROVE  TypeOK'
  BY <1>13, ReleaseLocksType, ReleasePermitType DEF TypeOK, CancelPromoting, Leave
<1>14. ASSUME UNCHANGED vars
       PROVE  TypeOK'
  BY <1>14 DEF TypeOK, vars
<1> QED
  BY <1>1, <1>2, <1>3, <1>4, <1>5, <1>6, <1>7, <1>8, <1>9, <1>10, <1>11, <1>12,
     <1>13, <1>14, CancelAssumption DEF Next, Step, Cancel

\* Every reachable state of MergeQueue has the type TypeOK states: in
\* particular the semaphore's value never becomes negative and a lock is held
\* by one task or by nobody, with cancellations or without.
THEOREM TypeCorrect == Spec => []TypeOK
<1>1. Init => TypeOK
  BY ParallelAssumption, EmptySeq DEF Init, TypeOK
<1> QED BY <1>1, TypeInvariant, PTL DEF Spec

-------------------------------------------------------------------------------
(* Mutual exclusion.  The strengthening says that a task between its last    *)
(* acquire and its finally block still owns its whole scope; the finally     *)
(* block of another task releases only what that task owns.                  *)

CriticalOwnsScope == \A t \in Critical : scope[t] \subseteq Owns(t)

LEMMA ReleasePermitCritical ==
    ASSUME TypeOK, NEW t \in Task, ReleasePermit(t)
    PROVE  /\ Critical' \subseteq Critical
           /\ t \notin Critical'
<1>1. CASE slotWaiters = <<>>
  BY <1>1 DEF TypeOK, ReleasePermit, Critical
<1>2. CASE slotWaiters # <<>>
  <2>1. Head(slotWaiters) \in Task
    BY <1>2, HeadTailProperties DEF TypeOK
  <2> QED BY <1>2, <2>1 DEF TypeOK, ReleasePermit, Critical
<1> QED BY <1>1, <1>2

\* A critical task u that ends leaves the locks of the others alone.
LEMMA LeaveKeepsScopes ==
    ASSUME TypeOK, CriticalOwnsScope, 
           NEW t \in Task, t \in Critical, 
           NEW R, R = scope[t] \/ (R = scope[t] \cup {CommitLock}),
           ReleaseLocks(R), ReleasePermit(t), scope' = scope
    PROVE  CriticalOwnsScope'
<1> SUFFICES ASSUME NEW u \in Critical', NEW p \in scope[u]
             PROVE  owner'[p] = u
  BY DEF CriticalOwnsScope, Owns, TypeOK, Lock, Critical
<1>1. u \in Critical /\ u # t
  BY ReleasePermitCritical
<1>2. p \in Path /\ p \in Lock /\ p # CommitLock
  BY <1>1, CommitLockAssumption DEF TypeOK, Lock, Critical
<1>3. owner[p] = u
  BY <1>1 DEF CriticalOwnsScope, Owns
<1>4. p \notin scope[t]
  BY <1>1, <1>3 DEF CriticalOwnsScope, Owns
<1> QED BY <1>2, <1>3, <1>4 DEF ReleaseLocks

LEMMA CriticalOwnsScopeInvariant ==
    TypeOK /\ CriticalOwnsScope /\ [Next]_vars => CriticalOwnsScope'
<1> SUFFICES ASSUME TypeOK, CriticalOwnsScope, [Next]_vars
             PROVE  CriticalOwnsScope'
  OBVIOUS
<1>1. ASSUME NEW t \in Task, NEW S \in SUBSET Path, Submit(t, S)
      PROVE  CriticalOwnsScope'
  BY <1>1 DEF TypeOK, CriticalOwnsScope, Critical, Owns, Submit
<1>2. ASSUME NEW t \in Task, AcquireNext(t)
      PROVE  CriticalOwnsScope'
  <2>1. PICK p \in NextPaths(t) : AcquireLock(t, p)
    BY <1>2 DEF AcquireNext
  <2>2. \A l \in Lock : owner[l] # NoTask => owner'[l] = owner[l]
    BY <2>1 DEF AcquireLock, TypeOK, NextPaths, Lock
  <2> QED BY <1>2, <2>2, NoTaskAssumption 
          DEF TypeOK, CriticalOwnsScope, Critical, Owns, AcquireNext
<1>3. ASSUME NEW t \in Task, StartPipeline(t)
      PROVE  CriticalOwnsScope'
  BY <1>3 DEF TypeOK, CriticalOwnsScope, Critical, Owns, StartPipeline
<1>4. ASSUME NEW t \in Task, NEW status \in {"ok", "failed"}, PipelineEnds(t, status)
      PROVE  CriticalOwnsScope'
  BY <1>4, LeaveKeepsScopes DEF PipelineEnds, Leave, Critical, FileLocks
<1>5. ASSUME NEW t \in Task, RequestCommit(t)
      PROVE  CriticalOwnsScope'
  <2>1. \A l \in Lock : owner[l] # NoTask => owner'[l] = owner[l]
    BY <1>5 DEF RequestCommit, AcquireLock, TypeOK, Lock
  <2>2. Critical' = Critical
    BY <1>5 DEF RequestCommit, Critical, TypeOK
  <2> QED BY <1>5, <2>1, <2>2, NoTaskAssumption 
          DEF TypeOK, CriticalOwnsScope, Critical, Owns, RequestCommit
<1>6. ASSUME NEW t \in Task, StartPromotion(t)
      PROVE  CriticalOwnsScope'
  BY <1>6 DEF TypeOK, CriticalOwnsScope, Critical, Owns, StartPromotion
<1>7. ASSUME NEW t \in Task, NEW status \in {"ok", "failed"}, PromotionEnds(t, status)
      PROVE  CriticalOwnsScope'
  BY <1>7, LeaveKeepsScopes DEF PromotionEnds, Leave, Critical, FileLocks
<1>8. ASSUME NEW t \in Task, OrphanPromotionEnds(t)
      PROVE  CriticalOwnsScope'
  BY <1>8 DEF TypeOK, CriticalOwnsScope, Critical, Owns, OrphanPromotionEnds
<1>9. ASSUME NEW t \in Task, CancelQueued(t)
      PROVE  CriticalOwnsScope'
  BY <1>9 DEF TypeOK, CriticalOwnsScope, Critical, Owns, CancelQueued
<1>10. ASSUME NEW t \in Task, CancelLocking(t)
       PROVE  CriticalOwnsScope'
  BY <1>10, ReleasePermitCritical 
     DEF CriticalOwnsScope, Owns, CancelLocking
<1>11. ASSUME NEW t \in Task, CancelRunning(t)
       PROVE  CriticalOwnsScope'
  BY <1>11, LeaveKeepsScopes DEF CancelRunning, Leave, Critical, FileLocks
<1>12. ASSUME NEW t \in Task, CancelCommitting(t)
       PROVE  CriticalOwnsScope'
  <2> SUFFICES ASSUME NEW u \in Critical', NEW p \in scope'[u]
               PROVE  owner'[p] = u
    BY <1>12 DEF CriticalOwnsScope, Owns, TypeOK, Lock, Critical, CancelCommitting
  <2>1. t \in Critical /\ scope' = scope /\ ReleasePermit(t)
    BY <1>12 DEF Critical, CancelCommitting
  <2>2. u \in Critical /\ u # t
    BY <2>1, ReleasePermitCritical
  <2>3. p \in Lock
    BY <2>1, <2>2 DEF TypeOK, Lock, Critical
  <2>4. owner[p] = u /\ p \notin FileLocks(t)
    BY <2>1, <2>2 DEF CriticalOwnsScope, Owns, FileLocks
  <2> QED BY <1>12, <2>3, <2>4 DEF CancelCommitting
<1>13. ASSUME NEW t \in Task, CancelPromoting(t)
       PROVE  CriticalOwnsScope'
  BY <1>13, LeaveKeepsScopes DEF CancelPromoting, Leave, Critical, FileLocks
<1>14. ASSUME UNCHANGED vars
       PROVE  CriticalOwnsScope'
  BY <1>14 DEF CriticalOwnsScope, Critical, Owns, vars
<1> QED
  BY <1>1, <1>2, <1>3, <1>4, <1>5, <1>6, <1>7, <1>8, <1>9, <1>10, <1>11, <1>12,
     <1>13, <1>14, CancelAssumption DEF Next, Step, Cancel

LEMMA CriticalOwnsScopeHolds == Spec => []CriticalOwnsScope
<1>1. Init => CriticalOwnsScope
  BY DEF Init, CriticalOwnsScope, Critical
<1> QED BY <1>1, TypeCorrect, CriticalOwnsScopeInvariant, PTL DEF Spec

\* When no file has two spellings, tasks authorized to write the same file
\* never run at the same time, for any number of tasks, any scopes, any
\* parallelism and any cancellations.
THEOREM ScopesSerializedTheorem ==
    ASSUME \A p, q \in Path : FileOf[p] = FileOf[q] => p = q
    PROVE  Spec => []ScopesSerialized
<1>1. TypeOK /\ CriticalOwnsScope => ScopesSerialized
  <2> SUFFICES ASSUME TypeOK, CriticalOwnsScope, 
                      NEW t \in Critical, NEW u \in Critical, t # u,
                      NEW f \in Files(t) \cap Files(u)
               PROVE  FALSE
    BY DEF ScopesSerialized
  <2>1. PICK p \in scope[t] : f = FileOf[p]
    BY DEF Files
  <2>2. PICK q \in scope[u] : f = FileOf[q]
    BY DEF Files
  <2>3. p = q
    BY <2>1, <2>2 DEF TypeOK, Critical
  <2> QED BY <2>3 DEF CriticalOwnsScope, Owns
<1> QED BY <1>1, TypeCorrect, CriticalOwnsScopeHolds, PTL

-------------------------------------------------------------------------------
(* The permits of the semaphore.  The strengthening says that its queue      *)
(* holds coroutines that wait for a permit, each of them once: a permit that *)
(* is handed over gets a holder that had none.                               *)

SlotQueueSound ==
    /\ \A i \in 1..Len(slotWaiters) : pc[slotWaiters[i]] = "queued"
    /\ \A i, j \in 1..Len(slotWaiters) : i # j => slotWaiters[i] # slotWaiters[j]

PermitInv == /\ SlotQueueSound
             /\ IsFiniteSet(Holding)
             /\ PermitsAccounted

LEMMA ReleasePermitAccounted ==
    ASSUME TypeOK, PermitInv, NEW t \in Holding, ReleasePermit(t)
    PROVE  PermitInv'
<1>0. t \in Task /\ pc[t] # "queued"
  BY DEF Holding
<1>1. CASE slotWaiters = <<>>
  <2>1. Holding' = Holding \ {t}
    BY <1>0, <1>1 DEF TypeOK, ReleasePermit, Holding
  <2>2. IsFiniteSet(Holding') /\ Cardinality(Holding') = Cardinality(Holding) - 1
    BY <2>1, FS_RemoveElement DEF PermitInv
  <2>3. Cardinality(Holding) \in Nat
    BY FS_CardinalityType DEF PermitInv
  <2>4. permits' = permits + 1 /\ slotWaiters' = <<>>
    BY <1>1 DEF ReleasePermit
  <2>5. SlotQueueSound'
    BY <2>4 DEF SlotQueueSound
  <2> QED BY <2>2, <2>3, <2>4, <2>5, ParallelAssumption 
          DEF PermitInv, PermitsAccounted, TypeOK
<1>2. CASE slotWaiters # <<>>
  <2> DEFINE h == Head(slotWaiters)
  <2>1. /\ h = slotWaiters[1]
        /\ h \in Task
        /\ Len(slotWaiters) \in Nat
        /\ 1 \in 1..Len(slotWaiters)
    BY <1>2, HeadTailProperties, EmptySeq DEF TypeOK
  <2>2. pc[h] = "queued" /\ h # t
    BY <1>0, <2>1 DEF PermitInv, SlotQueueSound
  <2>3. /\ slotWaiters' = Tail(slotWaiters)
        /\ permits' = permits
        /\ pc' = [pc EXCEPT ![t] = "done", ![h] = "locking"]
    BY <1>2 DEF ReleasePermit
  <2>4. Holding' = (Holding \ {t}) \cup {h}
    BY <1>0, <2>1, <2>2, <2>3 DEF TypeOK, Holding
  <2>5. h \notin Holding \ {t}
    BY <2>2 DEF Holding
  <2>6. /\ IsFiniteSet(Holding \ {t})
        /\ Cardinality(Holding \ {t}) = Cardinality(Holding) - 1
    BY FS_RemoveElement DEF PermitInv
  <2>7. /\ IsFiniteSet(Holding')
        /\ Cardinality(Holding') = Cardinality(Holding)
    <3>1. Cardinality(Holding) \in Nat
      BY FS_CardinalityType DEF PermitInv
    <3>2. /\ IsFiniteSet((Holding \ {t}) \cup {h})
          /\ Cardinality((Holding \ {t}) \cup {h}) = Cardinality(Holding \ {t}) + 1
      BY <2>5, <2>6, FS_AddElement
    <3> QED BY <2>4, <2>6, <3>1, <3>2
  <2>8. /\ Len(Tail(slotWaiters)) = Len(slotWaiters) - 1
        /\ \A i \in 1..(Len(slotWaiters) - 1) : Tail(slotWaiters)[i] = slotWaiters[i + 1]
    BY <1>2, HeadTailProperties DEF TypeOK
  <2>9. SlotQueueSound'
    <3> SUFFICES ASSUME NEW i \in 1..(Len(slotWaiters) - 1)
                 PROVE  /\ pc'[Tail(slotWaiters)[i]] = "queued"
                        /\ \A j \in 1..(Len(slotWaiters) - 1) : 
                             i # j => Tail(slotWaiters)[i] # Tail(slotWaiters)[j]
      BY <2>3, <2>8 DEF SlotQueueSound
    <3>1. i + 1 \in 1..Len(slotWaiters) /\ i + 1 # 1
      BY <2>1
    <3>2. slotWaiters[i + 1] \in Task /\ slotWaiters[i + 1] # h /\ slotWaiters[i + 1] # t
      BY <1>0, <2>1, <3>1, ElementOfSeq DEF PermitInv, SlotQueueSound, TypeOK
    <3>3. pc'[slotWaiters[i + 1]] = "queued"
      BY <1>0, <2>1, <2>3, <3>1, <3>2 DEF PermitInv, SlotQueueSound, TypeOK
    <3>4. ASSUME NEW j \in 1..(Len(slotWaiters) - 1), i # j
          PROVE  slotWaiters[i + 1] # slotWaiters[j + 1]
      BY <2>1, <3>1, <3>4 DEF PermitInv, SlotQueueSound
    <3> QED BY <2>8, <3>3, <3>4
  <2>10. permits' + Cardinality(Holding') = MaxParallel /\ permits' = 0
    BY <1>2, <2>3, <2>7 DEF PermitInv, PermitsAccounted
  <2> QED BY <2>7, <2>9, <2>10 DEF PermitInv, PermitsAccounted
<1> QED BY <1>1, <1>2

\* A step that leaves the semaphore alone and keeps the holders and the queued
\* coroutines what they are.
LEMMA PermitFrame ==
    ASSUME TypeOK, PermitInv, UNCHANGED <<permits, slotWaiters>>,
           Holding' = Holding, 
           \A t \in Task : pc[t] = "queued" => pc'[t] = "queued"
    PROVE  PermitInv'
<1>1. \A i \in 1..Len(slotWaiters) : slotWaiters[i] \in Task
  BY ElementOfSeq DEF TypeOK
<1> QED BY <1>1 DEF PermitInv, SlotQueueSound, PermitsAccounted

LEMMA PermitInvariant == TypeOK /\ PermitInv /\ [Next]_vars => PermitInv'
<1> SUFFICES ASSUME TypeOK, PermitInv, [Next]_vars PROVE PermitInv'
  OBVIOUS
<1>1. ASSUME NEW t \in Task, NEW S \in SUBSET Path, Submit(t, S)
      PROVE  PermitInv'
  <2>1. pc[t] = "new" /\ t \notin Holding
    BY <1>1 DEF Submit, Holding
  <2>2. \A i \in 1..Len(slotWaiters) : slotWaiters[i] \in Task /\ slotWaiters[i] # t
    BY <2>1, ElementOfSeq DEF TypeOK, PermitInv, SlotQueueSound
  <2>3. CASE permits > 0
    <3>1. slotWaiters = <<>>
      BY <2>3 DEF PermitInv, PermitsAccounted
    <3>2. Holding' = Holding \cup {t}
      BY <1>1, <2>3 DEF Submit, Holding, TypeOK
    <3>3. /\ IsFiniteSet(Holding')
          /\ Cardinality(Holding') = Cardinality(Holding) + 1
      BY <2>1, <3>2, FS_AddElement DEF PermitInv
    <3>4. Cardinality(Holding) \in Nat
      BY FS_CardinalityType DEF PermitInv
    <3>5. permits' = permits - 1 /\ slotWaiters' = <<>>
      BY <1>1, <2>3, <3>1 DEF Submit
    <3>6. SlotQueueSound'
      BY <3>5 DEF SlotQueueSound
    <3> QED BY <3>3, <3>4, <3>5, <3>6, ParallelAssumption 
            DEF PermitInv, PermitsAccounted, TypeOK
  <2>4. CASE ~(permits > 0)
    <3>1. /\ slotWaiters' = Append(slotWaiters, t)
          /\ permits' = permits
          /\ pc' = [pc EXCEPT ![t] = "queued"]
      BY <1>1, <2>4 DEF Submit
    <3>2. permits = 0
      BY <2>4 DEF TypeOK
    <3>3. Holding' = Holding
      BY <2>1, <3>1 DEF Holding, TypeOK
    <3>4. /\ Len(slotWaiters) \in Nat
          /\ Len(Append(slotWaiters, t)) = Len(slotWaiters) + 1
          /\ \A i \in 1..Len(slotWaiters) : Append(slotWaiters, t)[i] = slotWaiters[i]
          /\ Append(slotWaiters, t)[Len(slotWaiters) + 1] = t
      BY AppendProperties, LenProperties DEF TypeOK
    <3>5. SlotQueueSound'
      <4> SUFFICES ASSUME NEW i \in 1..(Len(slotWaiters) + 1)
                   PROVE  /\ pc'[Append(slotWaiters, t)[i]] = "queued"
                          /\ \A j \in 1..(Len(slotWaiters) + 1) :
                                i # j => Append(slotWaiters, t)[i] # Append(slotWaiters, t)[j]
        BY <3>1, <3>4 DEF SlotQueueSound
      <4>1. CASE i = Len(slotWaiters) + 1
        BY <2>2, <3>1, <3>4, <4>1 DEF TypeOK
      <4>2. CASE i \in 1..Len(slotWaiters)
        <5>1. /\ Append(slotWaiters, t)[i] = slotWaiters[i]
              /\ slotWaiters[i] \in Task
              /\ slotWaiters[i] # t
              /\ pc[slotWaiters[i]] = "queued"
          BY <2>2, <3>4, <4>2 DEF PermitInv, SlotQueueSound
        <5>2. pc'[slotWaiters[i]] = "queued"
          BY <3>1, <5>1 DEF TypeOK
        <5>3. ASSUME NEW j \in 1..(Len(slotWaiters) + 1), i # j
              PROVE  slotWaiters[i] # Append(slotWaiters, t)[j]
          <6>1. CASE j = Len(slotWaiters) + 1
            BY <3>4, <5>1, <6>1
          <6>2. CASE j \in 1..Len(slotWaiters)
            BY <3>4, <4>2, <5>3, <6>2 DEF PermitInv, SlotQueueSound
          <6> QED BY <3>4, <6>1, <6>2
        <5> QED BY <5>1, <5>2, <5>3
      <4> QED BY <3>4, <4>1, <4>2
    <3> QED BY <3>1, <3>2, <3>3, <3>5 DEF PermitInv, PermitsAccounted
  <2> QED BY <2>3, <2>4
<1>2. ASSUME NEW t \in Task, AcquireNext(t)
      PROVE  PermitInv'
  BY <1>2, PermitFrame DEF AcquireNext, Holding
<1>3. ASSUME NEW t \in Task, StartPipeline(t)
      PROVE  PermitInv'
  BY <1>3, PermitFrame DEF StartPipeline, Holding, TypeOK
<1>4. ASSUME NEW t \in Task, NEW status \in {"ok", "failed"}, PipelineEnds(t, status)
      PROVE  PermitInv'
  BY <1>4, ReleasePermitAccounted DEF PipelineEnds, Leave, Holding
<1>5. ASSUME NEW t \in Task, RequestCommit(t)
      PROVE  PermitInv'
  BY <1>5, PermitFrame DEF RequestCommit, Holding, TypeOK
<1>6. ASSUME NEW t \in Task, StartPromotion(t)
      PROVE  PermitInv'
  BY <1>6, PermitFrame DEF StartPromotion, Holding, TypeOK
<1>7. ASSUME NEW t \in Task, NEW status \in {"ok", "failed"}, PromotionEnds(t, status)
      PROVE  PermitInv'
  BY <1>7, ReleasePermitAccounted DEF PromotionEnds, Leave, Holding
<1>8. ASSUME NEW t \in Task, OrphanPromotionEnds(t)
      PROVE  PermitInv'
  BY <1>8, PermitFrame DEF OrphanPromotionEnds, Holding
<1>9. ASSUME NEW t \in Task, CancelQueued(t)
      PROVE  PermitInv'
  <2>1. PICK i \in 1..Len(slotWaiters) : /\ slotWaiters[i] = t
                                         /\ slotWaiters' = RemoveAt(slotWaiters, i)
    BY <1>9 DEF CancelQueued
  <2>2. permits' = permits /\ pc' = [pc EXCEPT ![t] = "done"] /\ pc[t] = "queued"
    BY <1>9 DEF CancelQueued
  <2>3. Holding' = Holding
    BY <2>2 DEF Holding, TypeOK
  <2>4. /\ Len(slotWaiters) \in Nat
        /\ Len(slotWaiters') = Len(slotWaiters) - 1
        /\ \A k \in 1..(Len(slotWaiters) - 1) :
              slotWaiters'[k] = IF k < i THEN slotWaiters[k] ELSE slotWaiters[k + 1]
    BY <2>1, RemoveAtProperties, LenProperties DEF TypeOK
  <2>5. SlotQueueSound'
    <3> SUFFICES ASSUME NEW k \in 1..(Len(slotWaiters) - 1)
                 PROVE  /\ pc'[slotWaiters'[k]] = "queued"
                        /\ \A j \in 1..(Len(slotWaiters) - 1) : 
                              k # j => slotWaiters'[k] # slotWaiters'[j]
      BY <2>4 DEF SlotQueueSound
    <3>1. PICK m \in 1..Len(slotWaiters) : m # i /\ slotWaiters'[k] = slotWaiters[m]
      BY <2>4
    <3>2. slotWaiters[m] \in Task /\ slotWaiters[m] # t /\ pc[slotWaiters[m]] = "queued"
      BY <2>1, <3>1, ElementOfSeq DEF TypeOK, PermitInv, SlotQueueSound
    <3>3. ASSUME NEW j \in 1..(Len(slotWaiters) - 1), k # j
          PROVE  slotWaiters'[k] # slotWaiters'[j]
      <4> DEFINE at(x) == IF x < i THEN x ELSE x + 1
      <4>1. at(k) \in 1..Len(slotWaiters) /\ at(j) \in 1..Len(slotWaiters) /\ at(k) # at(j)
        BY <2>4, <3>3
      <4>2. slotWaiters'[k] = slotWaiters[at(k)] /\ slotWaiters'[j] = slotWaiters[at(j)]
        BY <2>4
      <4> QED BY <4>1, <4>2 DEF PermitInv, SlotQueueSound
    <3> QED BY <2>2, <3>1, <3>2, <3>3 DEF TypeOK
  <2>6. slotWaiters # <<>>
    BY <2>1, EmptySeq
  <2> QED BY <2>2, <2>3, <2>5, <2>6 DEF PermitInv, PermitsAccounted
<1>10. ASSUME NEW t \in Task, CancelLocking(t)
       PROVE  PermitInv'
  BY <1>10, ReleasePermitAccounted DEF CancelLocking, Holding
<1>11. ASSUME NEW t \in Task, CancelRunning(t)
       PROVE  PermitInv'
  BY <1>11, ReleasePermitAccounted DEF CancelRunning, Leave, Holding
<1>12. ASSUME NEW t \in Task, CancelCommitting(t)
       PROVE  PermitInv'
  BY <1>12, ReleasePermitAccounted DEF CancelCommitting, Holding
<1>13. ASSUME NEW t \in Task, CancelPromoting(t)
       PROVE  PermitInv'
  BY <1>13, ReleasePermitAccounted DEF CancelPromoting, Leave, Holding
<1>14. ASSUME UNCHANGED vars
       PROVE  PermitInv'
  BY <1>14, PermitFrame DEF Holding, vars
<1> QED
  BY <1>1, <1>2, <1>3, <1>4, <1>5, <1>6, <1>7, <1>8, <1>9, <1>10, <1>11, <1>12,
     <1>13, <1>14, CancelAssumption DEF Next, Step, Cancel

LEMMA PermitInvHolds == Spec => []PermitInv
<1>1. Init => PermitInv
  <2> SUFFICES ASSUME Init PROVE PermitInv
    OBVIOUS
  <2>1. Holding = {}
    BY DEF Init, Holding
  <2>2. IsFiniteSet(Holding) /\ Cardinality(Holding) = 0
    BY <2>1, FS_EmptySet
  <2>3. slotWaiters = <<>> /\ permits = MaxParallel
    BY DEF Init
  <2>4. SlotQueueSound
    BY <2>3 DEF SlotQueueSound
  <2> QED BY <2>2, <2>3, <2>4, ParallelAssumption DEF PermitInv, PermitsAccounted
<1> QED BY <1>1, TypeCorrect, PermitInvariant, PTL DEF Spec

\* No permit of the semaphore is lost or given back twice, and none stays free
\* while a coroutine queues for one, wherever cancellations arrive: at most
\* MaxParallel tasks hold a permit, for every MaxParallel.
THEOREM PermitsAccountedTheorem == Spec => []PermitsAccounted
<1>1. PermitInv => PermitsAccounted
  BY DEF PermitInv
<1> QED BY <1>1, PermitInvHolds, PTL

-------------------------------------------------------------------------------
(* The inductive invariant.                                                  *)

\* What a coroutine suspended on lock l is doing there.
Asks(t, l) == 
    \/ /\ l \in Path
       /\ pc[t] = "locking"
       /\ l \in NextPaths(t)
    \/ /\ l = CommitLock
       /\ pc[t] = "committing"
       /\ owner[l] # t

\* The queue of a lock holds coroutines that ask for it, each of them once.
WaitersAsk == \A l \in Lock : \A i \in 1..Len(waiters[l]) : Asks(waiters[l][i], l)

WaitersDistinct ==
    \A l \in Lock : \A i, j \in 1..Len(waiters[l]) : i # j => waiters[l][i] # waiters[l][j]

\* Who owns a lock has asked for it.
OwnersSound ==
    \A t \in Task : \A l \in Owns(t) :
        \/ l \in scope[t] /\ pc[t] \notin {"new", "queued"}
        \/ l = CommitLock /\ pc[t] \in {"committing", "promoting"}

\* A task owns the first paths of its scope.
OwnsPrefix ==
    \A t \in Task : pc[t] = "locking" =>
        \A q \in Owns(t), p \in scope[t] \ Owns(t) : q < p

PromotersSound ==
    /\ \A t \in Task : pc[t] = "promoting" => owner[CommitLock] = t
    /\ \A t \in promoting : \/ pc[t] = "promoting"
                            \/ pc[t] = "done" /\ result[t] = "cancelled"

LockInv == /\ WaitersAsk
           /\ WaitersDistinct
           /\ NoLostWakeup
           /\ OwnersSound
           /\ OwnsPrefix
           /\ PromotersSound
           /\ LocksOutliveOnlyCancelledAcquire

-------------------------------------------------------------------------------
(* Facts of one state.                                                       *)

LEMMA WaiterAsks ==
    ASSUME LockInv, NEW u \in Task, NEW l \in Lock, Waits(u, l)
    PROVE  Asks(u, l)
  BY DEF LockInv, WaitersAsk, Waits

\* A coroutine is suspended on at most one lock.
LEMMA OneWait ==
    ASSUME TypeOK, LockInv, NEW u \in Task, NEW l \in Lock, NEW m \in Lock,
           Waits(u, l), Waits(u, m)
    PROVE  l = m
<1>1. Asks(u, l) /\ Asks(u, m)
  BY WaiterAsks
<1>2. CASE pc[u] = "locking"
  <2>1. l \in NextPaths(u) /\ m \in NextPaths(u)
    BY <1>1, <1>2 DEF Asks
  <2>2. l <= m /\ m <= l /\ l \in Int /\ m \in Int
    BY <2>1 DEF NextPaths, TypeOK, Path
  <2> QED BY <2>2
<1>3. CASE pc[u] # "locking"
  BY <1>1, <1>3 DEF Asks
<1> QED BY <1>2, <1>3

LEMMA WaiterIsTask ==
    ASSUME TypeOK, NEW l \in Lock, NEW i \in 1..Len(waiters[l])
    PROVE  waiters[l][i] \in Task
  BY ElementOfSeq DEF TypeOK

LEMMA HeadWaits ==
    ASSUME TypeOK, NEW l \in Lock, waiters[l] # <<>>
    PROVE  /\ Head(waiters[l]) \in Task
           /\ Head(waiters[l]) = waiters[l][1]
           /\ 1 \in 1..Len(waiters[l])
           /\ Waits(Head(waiters[l]), l)
<1>1. waiters[l] \in Seq(Task) /\ Len(waiters[l]) \in Nat /\ Len(waiters[l]) # 0
  BY EmptySeq, LenProperties DEF TypeOK
<1>2. 1 \in 1..Len(waiters[l]) /\ Head(waiters[l]) = waiters[l][1]
  BY <1>1
<1> QED BY <1>1, <1>2, HeadTailProperties DEF Waits

-------------------------------------------------------------------------------
(* What the end of coroutine t does to the locks.  FreedBy says that a lock  *)
(* that changes hands was t's and goes to a coroutine that waited for it and *)
(* waits no more.                                                            *)

QueuesShrink(t) ==
    \A l \in Lock : \A u \in Task : Waits(u, l)' => Waits(u, l) /\ u # t

FreedBy(t) ==
    \A l \in Lock : owner'[l] # owner[l] => 
        /\ owner[l] = t
        /\ \/ owner'[l] = NoTask
           \/ \E u \in Task : owner'[l] = u /\ Waits(u, l) /\ ~ Waits(u, l)'

LEMMA ReleaseLocksEffects ==
    ASSUME TypeOK, LockInv, NEW t \in Task, ~ Blocked(t),
           NEW R \in SUBSET Owns(t), ReleaseLocks(R)
    PROVE  /\ QueuesShrink(t)
           /\ FreedBy(t)
           /\ \A l \in R : owner'[l] # t
           /\ WaitersDistinct'
           /\ NoLostWakeup'
<1>1. \A l \in Lock : ~ Waits(t, l)
  BY DEF Blocked
<1>2. \A l \in Lock \ R : owner'[l] = owner[l] /\ waiters'[l] = waiters[l]
  BY DEF ReleaseLocks
<1>3. R \subseteq Lock
  BY DEF Owns
<1>4. ASSUME NEW l \in R, waiters[l] = <<>>
      PROVE  owner'[l] = NoTask /\ waiters'[l] = <<>>
  BY <1>3, <1>4 DEF ReleaseLocks
<1>5. ASSUME NEW l \in R, waiters[l] # <<>>
      PROVE  /\ owner'[l] = Head(waiters[l])
             /\ waiters'[l] = Tail(waiters[l])
             /\ Len(waiters[l]) \in Nat
             /\ Len(waiters'[l]) = Len(waiters[l]) - 1
             /\ \A i \in 1..Len(waiters'[l]) : 
                   /\ i + 1 \in 1..Len(waiters[l])
                   /\ waiters'[l][i] = waiters[l][i + 1]
  <2>1. owner'[l] = Head(waiters[l]) /\ waiters'[l] = Tail(waiters[l])
    BY <1>3, <1>5 DEF ReleaseLocks
  <2>2. waiters[l] \in Seq(Task) /\ Len(waiters[l]) \in Nat
    BY <1>3, LenProperties DEF TypeOK
  <2>3. /\ Len(Tail(waiters[l])) = Len(waiters[l]) - 1
        /\ \A i \in 1..Len(Tail(waiters[l])) : Tail(waiters[l])[i] = waiters[l][i + 1]
    BY <1>5, <2>2, HeadTailProperties
  <2> QED BY <2>1, <2>2, <2>3
<1>6. ASSUME NEW l \in Lock, NEW u \in Task, Waits(u, l)'
      PROVE  Waits(u, l)
  <2>1. CASE l \notin R
    BY <1>2, <1>6, <2>1 DEF Waits
  <2>2. CASE l \in R /\ waiters[l] = <<>>
    BY <1>4, <1>6, <2>2 DEF Waits
  <2>3. CASE l \in R /\ waiters[l] # <<>>
    BY <1>5, <1>6, <2>3 DEF Waits
  <2> QED BY <2>1, <2>2, <2>3
<1>7. QueuesShrink(t)
  BY <1>1, <1>6 DEF QueuesShrink
<1>8. ASSUME NEW l \in R, waiters[l] # <<>>
      PROVE  \E u \in Task : owner'[l] = u /\ Waits(u, l) /\ ~ Waits(u, l)'
  <2>1. PICK u \in Task : owner'[l] = u /\ u = waiters[l][1] /\ Waits(u, l)
    BY <1>3, <1>5, <1>8, HeadWaits
  <2>2. ASSUME NEW i \in 1..Len(waiters'[l])
        PROVE  waiters'[l][i] # u
    <3>1. i + 1 \in 1..Len(waiters[l]) /\ waiters'[l][i] = waiters[l][i + 1]
      BY <1>5, <1>8
    <3>2. 1 \in 1..Len(waiters[l]) /\ i + 1 # 1
      BY <1>3, <1>8, HeadWaits
    <3> QED BY <1>3, <2>1, <3>1, <3>2 DEF LockInv, WaitersDistinct
  <2> QED BY <2>1, <2>2 DEF Waits
<1>9. FreedBy(t)
  BY <1>2, <1>4, <1>8 DEF FreedBy, Owns
<1>10. \A l \in R : owner'[l] # t
  BY <1>1, <1>3, <1>4, <1>8, NoTaskAssumption
<1>11. WaitersDistinct'
  <2> SUFFICES ASSUME NEW l \in Lock, 
                      NEW i \in 1..Len(waiters'[l]), NEW j \in 1..Len(waiters'[l]), i # j
               PROVE  waiters'[l][i] # waiters'[l][j]
    BY DEF WaitersDistinct, Lock
  <2>1. CASE l \notin R
    BY <1>2, <2>1 DEF LockInv, WaitersDistinct
  <2>2. CASE l \in R /\ waiters[l] = <<>>
    BY <1>4, <2>2
  <2>3. CASE l \in R /\ waiters[l] # <<>>
    <3>1. i + 1 # j + 1
      OBVIOUS
    <3> QED BY <1>5, <2>3, <3>1 DEF LockInv, WaitersDistinct
  <2> QED BY <2>1, <2>2, <2>3
<1>12. NoLostWakeup'
  <2> SUFFICES ASSUME NEW l \in Lock, waiters'[l] # <<>>
               PROVE  owner'[l] # NoTask
    BY DEF NoLostWakeup, Lock
  <2>1. CASE l \notin R
    BY <1>2, <2>1 DEF LockInv, NoLostWakeup
  <2>2. CASE l \in R
    BY <1>4, <1>8, <2>2, NoTaskAssumption
  <2> QED BY <2>1, <2>2
<1> QED BY <1>7, <1>9, <1>10, <1>11, <1>12

LEMMA LeaveKeepsLockInv ==
    ASSUME TypeOK, LockInv, NEW t \in Task, TypeOK',
           QueuesShrink(t), FreedBy(t), WaitersDistinct', NoLostWakeup',
           scope' = scope, pc[t] \notin {"new", "queued", "done"}, pc'[t] = "done",
           \A u \in Task \ {t} : \/ pc'[u] = pc[u] 
                                 \/ pc[u] = "queued" /\ pc'[u] = "locking",
           \A u \in Task \ {t} : result'[u] = result[u],
           \/ \A l \in Lock : owner'[l] # t
           \/ /\ result'[t] = "cancelled"
              /\ owner'[CommitLock] # t
              /\ ~ (scope[t] \subseteq Owns(t)),
           promoting' \subseteq promoting,
           t \in promoting' => result'[t] = "cancelled"
    PROVE  LockInv'
<1>1. ASSUME NEW u \in Task, NEW l \in Lock, owner[l] = u, u # t
      PROVE  owner'[l] = u
  BY <1>1, NoTaskAssumption DEF FreedBy
<1>2. ASSUME NEW u \in Task, NEW l \in Lock, owner'[l] = u, owner[l] # u
      PROVE  /\ Waits(u, l) /\ ~ Waits(u, l)' /\ Asks(u, l) /\ u # t
             /\ pc[u] \in {"locking", "committing"} /\ pc'[u] = pc[u]
  <2>1. owner[l] = t /\ Waits(u, l) /\ ~ Waits(u, l)'
    BY <1>2, NoTaskAssumption DEF FreedBy
  <2>2. Asks(u, l) /\ u # t
    BY <1>2, <2>1, WaiterAsks
  <2> QED BY <2>1, <2>2 DEF Asks
<1>3. WaitersAsk'
  <2> SUFFICES ASSUME NEW l \in Lock, NEW i \in 1..Len(waiters'[l])
               PROVE  Asks(waiters[l][i], l)'
    BY DEF WaitersAsk, Lock
  <2>1. PICK u \in Task : u = waiters'[l][i]
    BY ElementOfSeq DEF TypeOK
  <2>2. Waits(u, l)'
    BY <2>1 DEF Waits
  <2>3. Waits(u, l) /\ u # t
    BY <2>1, <2>2 DEF QueuesShrink
  <2>4. Asks(u, l)
    BY <2>1, <2>3, WaiterAsks
  <2>5. pc'[u] = pc[u]
    BY <2>1, <2>3, <2>4 DEF Asks
  <2>6. ASSUME NEW m \in Lock
        PROVE  owner'[m] = u <=> owner[m] = u
    <3>1. ASSUME owner'[m] = u, owner[m] # u
          PROVE  FALSE
      <4>1. Waits(u, m) /\ ~ Waits(u, m)'
        BY <1>2, <2>1, <3>1
      <4> QED BY <2>1, <2>2, <2>3, <4>1, OneWait
    <3> QED BY <1>1, <2>1, <2>3, <3>1
  <2>7. Owns(u)' = Owns(u)
    BY <2>6 DEF Owns, Lock
  <2>8. NextPaths(u)' = NextPaths(u)
    BY <2>7 DEF NextPaths
  <2>9. Asks(u, l)'
    BY <2>4, <2>5, <2>6, <2>8 DEF Asks, Path
  <2>10. ASSUME NEW v, v = waiters'[l][i], Asks(u, l)', u = v
         PROVE  Asks(waiters[l][i], l)'
    BY <2>10 DEF Asks, NextPaths, Owns
  <2> QED BY <2>1, <2>9, <2>10
<1>4. OwnersSound'
  <2> SUFFICES ASSUME NEW u \in Task, NEW l \in Lock, owner'[l] = u
               PROVE  \/ l \in scope[u] /\ pc'[u] \notin {"new", "queued"}
                      \/ l = CommitLock /\ pc'[u] \in {"committing", "promoting"}
    BY DEF OwnersSound, Owns, Lock
  <2>1. CASE owner[l] # u
    BY <1>2, <2>1 DEF Asks, NextPaths
  <2>2. CASE owner[l] = u
    <3>1. \/ l \in scope[u] /\ pc[u] \notin {"new", "queued"}
          \/ l = CommitLock /\ pc[u] \in {"committing", "promoting"}
      BY <2>2 DEF LockInv, OwnersSound, Owns
    <3>2. u = t => l # CommitLock
      OBVIOUS
    <3> QED BY <3>1, <3>2
  <2> QED BY <2>1, <2>2
<1>5. OwnsPrefix'
  <2> SUFFICES ASSUME NEW u \in Task, pc'[u] = "locking",
                      NEW q \in Lock, owner'[q] = u, 
                      NEW p \in scope[u], owner'[p] # u
               PROVE  q < p
    BY DEF OwnsPrefix, Owns, Lock, TypeOK
  <2>1. u # t /\ p \in Lock
    BY DEF TypeOK, Lock
  <2>2. owner[p] # u
    BY <1>1, <2>1
  <2>3. CASE owner[q] = u
    <3>1. pc[u] = "locking"
      <4>1. \/ q \in scope[u] /\ pc[u] \notin {"new", "queued"}
            \/ q = CommitLock /\ pc[u] \in {"committing", "promoting"}
        BY <2>3 DEF LockInv, OwnersSound, Owns
      <4> QED BY <2>1, <4>1
    <3> QED BY <2>1, <2>2, <2>3, <3>1 DEF LockInv, OwnsPrefix, Owns
  <2>4. CASE owner[q] # u
    <3>1. Asks(u, q) /\ pc[u] = "locking"
      BY <1>2, <2>4
    <3>2. q \in NextPaths(u)
      BY <3>1 DEF Asks
    <3>3. q <= p /\ q # p /\ q \in Int /\ p \in Int
      BY <2>1, <2>2, <3>2 DEF NextPaths, Owns, TypeOK, Path
    <3> QED BY <3>3
  <2> QED BY <2>3, <2>4
<1>6. PromotersSound'
  <2>1. ASSUME NEW u \in Task, pc'[u] = "promoting"
        PROVE  owner'[CommitLock] = u
    <3>1. u # t /\ pc[u] = "promoting" /\ CommitLock \in Lock
      BY <2>1 DEF Lock
    <3> QED BY <1>1, <3>1 DEF LockInv, PromotersSound
  <2>2. ASSUME NEW u \in promoting'
        PROVE  \/ pc'[u] = "promoting"
               \/ pc'[u] = "done" /\ result'[u] = "cancelled"
    <3>1. CASE u = t
      BY <2>2, <3>1
    <3>2. CASE u # t
      <4>1. u \in Task /\ u \in promoting
        BY DEF TypeOK
      <4>2. \/ pc[u] = "promoting"
            \/ pc[u] = "done" /\ result[u] = "cancelled"
        BY <4>1 DEF LockInv, PromotersSound
      <4> QED BY <3>2, <4>1, <4>2
    <3> QED BY <3>1, <3>2
  <2> QED BY <2>1, <2>2 DEF PromotersSound
<1>7. LocksOutliveOnlyCancelledAcquire'
  <2> SUFFICES ASSUME NEW u \in Task, pc'[u] = "done", 
                      NEW l \in Lock, owner'[l] = u
               PROVE  /\ result'[u] = "cancelled"
                      /\ ~ (scope[u] \subseteq Owns(u)')
    BY DEF LocksOutliveOnlyCancelledAcquire, Owns, Lock
  <2>1. CASE u = t
    <3>1. result'[t] = "cancelled" /\ ~ (scope[t] \subseteq Owns(t))
      BY <2>1
    <3>2. \A m \in Lock : owner'[m] = t => owner[m] = t
      BY <1>2
    <3> QED BY <2>1, <3>1, <3>2 DEF Owns, Lock
  <2>2. CASE u # t
    <3>1. pc[u] = "done"
      BY <2>2
    <3>2. \A m \in Lock : owner'[m] = u <=> owner[m] = u
      BY <1>1, <1>2, <2>2, <3>1
    <3>3. Owns(u)' = Owns(u)
      BY <3>2 DEF Owns, Lock
    <3> QED BY <2>2, <3>1, <3>2, <3>3 
            DEF LockInv, LocksOutliveOnlyCancelledAcquire, Owns
  <2> QED BY <2>1, <2>2
<1> QED BY <1>3, <1>4, <1>5, <1>6, <1>7 DEF LockInv

-------------------------------------------------------------------------------
(* A coroutine that leaves the queue it is suspended in.                     *)

LEMMA RemoveWaiter ==
    ASSUME NEW s \in Seq(Task), NEW i \in 1..Len(s),
           \A j, k \in 1..Len(s) : j # k => s[j] # s[k]
    PROVE  /\ RemoveAt(s, i) \in Seq(Task)
           /\ \A k \in 1..Len(RemoveAt(s, i)) : 
                 \E m \in 1..Len(s) : RemoveAt(s, i)[k] = s[m] /\ s[m] # s[i]
           /\ \A j, k \in 1..Len(RemoveAt(s, i)) : 
                 j # k => RemoveAt(s, i)[j] # RemoveAt(s, i)[k]
<1> DEFINE r == RemoveAt(s, i)
           at(k) == IF k < i THEN k ELSE k + 1
<1>1. /\ r \in Seq(Task)
      /\ Len(s) \in Nat
      /\ Len(r) = Len(s) - 1
      /\ \A k \in 1..(Len(s) - 1) : r[k] = IF k < i THEN s[k] ELSE s[k + 1]
  BY RemoveAtProperties, LenProperties
<1> HIDE DEF r
<1>2. ASSUME NEW k \in 1..Len(r)
      PROVE  at(k) \in 1..Len(s) /\ at(k) # i /\ r[k] = s[at(k)]
  BY <1>1
<1>3. ASSUME NEW k \in 1..Len(r)
      PROVE  \E m \in 1..Len(s) : r[k] = s[m] /\ s[m] # s[i]
  BY <1>2
<1>4. ASSUME NEW j \in 1..Len(r), NEW k \in 1..Len(r), j # k
      PROVE  r[j] # r[k]
  <2>1. at(j) # at(k)
    BY <1>1, <1>4
  <2> QED BY <1>2, <2>1
<1> QED BY <1>1, <1>3, <1>4 DEF r

\* ReleasePermit moves the ending coroutine and at most one queued one.
LEMMA PermitMovesOnly ==
    ASSUME TypeOK, PermitInv, NEW t \in Task, pc[t] # "queued", ReleasePermit(t)
    PROVE  /\ pc'[t] = "done"
           /\ \A u \in Task \ {t} : \/ pc'[u] = pc[u]
                                    \/ pc[u] = "queued" /\ pc'[u] = "locking"
<1>1. CASE slotWaiters = <<>>
  BY <1>1 DEF ReleasePermit, TypeOK
<1>2. CASE slotWaiters # <<>>
  <2>1. /\ Head(slotWaiters) = slotWaiters[1]
        /\ Head(slotWaiters) \in Task
        /\ 1 \in 1..Len(slotWaiters)
    BY <1>2, HeadTailProperties, EmptySeq, LenProperties DEF TypeOK
  <2>2. pc[Head(slotWaiters)] = "queued"
    BY <2>1 DEF PermitInv, SlotQueueSound
  <2> QED BY <1>2, <2>1, <2>2 DEF ReleasePermit, TypeOK
<1> QED BY <1>1, <1>2

-------------------------------------------------------------------------------
(* What an acquire does to the locks.                                        *)

LEMMA AcquireKeepsLockInv ==
    ASSUME TypeOK, LockInv, TypeOK', NEW t \in Task, NEW l \in Lock, 
           ~ Blocked(t), AcquireLock(t, l),
           UNCHANGED <<scope, promoting, result>>,
           \/ /\ l \in NextPaths(t)
              /\ pc[t] = "locking"
              /\ pc' = pc
           \/ /\ l = CommitLock
              /\ pc[t] = "running"
              /\ pc' = [pc EXCEPT ![t] = "committing"]
    PROVE  LockInv'
<1>1. \A m \in Lock : ~ Waits(t, m)
  BY DEF Blocked
<1>2. \A u \in Task \ {t} : pc'[u] = pc[u]
  BY DEF TypeOK
<1>3. owner[CommitLock] # t
  <2> SUFFICES ASSUME owner[CommitLock] = t PROVE FALSE
    OBVIOUS
  <2>1. CommitLock \in Owns(t)
    BY DEF Owns, Lock
  <2>2. CommitLock \in scope[t] \/ pc[t] \in {"committing", "promoting"}
    BY <2>1 DEF LockInv, OwnersSound
  <2>3. CommitLock \notin scope[t]
    BY CommitLockAssumption DEF TypeOK
  <2> QED BY <2>2, <2>3
<1>4. owner[l] # t
  BY <1>3 DEF NextPaths, Owns
<1>5. ASSUME NEW u \in Task \ {t}, NEW m \in Lock, Asks(u, m), 
             \A k \in Lock : owner'[k] = u <=> owner[k] = u
      PROVE  Asks(u, m)'
  <2>1. Owns(u)' = Owns(u)
    BY <1>5 DEF Owns, Lock
  <2>2. NextPaths(u)' = NextPaths(u)
    BY <2>1 DEF NextPaths
  <2> QED BY <1>2, <1>5, <2>2 DEF Asks, Path
<1>6. CASE owner[l] = NoTask
  <2>1. owner' = [owner EXCEPT ![l] = t] /\ waiters' = waiters
    BY <1>6 DEF AcquireLock
  <2>2. \A u \in Task \ {t}, m \in Lock : owner'[m] = u <=> owner[m] = u
    BY <1>6, <2>1, NoTaskAssumption DEF TypeOK
  <2>3. WaitersAsk'
    <3> SUFFICES ASSUME NEW m \in Lock, NEW i \in 1..Len(waiters[m])
                 PROVE  Asks(waiters[m][i], m)'
      BY <2>1 DEF WaitersAsk, Lock
    <3>1. PICK u \in Task : u = waiters[m][i]
      BY WaiterIsTask
    <3>2. Waits(u, m) /\ Asks(u, m)
      BY <3>1, WaiterAsks DEF Waits
    <3>3. u # t
      BY <1>1, <3>2
    <3>4. Asks(u, m)'
      BY <1>5, <2>2, <3>2, <3>3
    <3>5. waiters'[m][i] = u
      BY <2>1, <3>1
    <3> QED BY <3>4, <3>5 DEF Asks, NextPaths, Owns
  <2>4. WaitersDistinct'
    BY <2>1 DEF LockInv, WaitersDistinct, Lock
  <2>5. NoLostWakeup'
    BY <2>1, NoTaskAssumption DEF LockInv, NoLostWakeup, Lock, TypeOK
  <2>6. OwnersSound'
    <3> SUFFICES ASSUME NEW u \in Task, NEW m \in Lock, owner'[m] = u
                 PROVE  \/ m \in scope[u] /\ pc'[u] \notin {"new", "queued"}
                        \/ m = CommitLock /\ pc'[u] \in {"committing", "promoting"}
      BY DEF OwnersSound, Owns, Lock
    <3>1. CASE u # t
      BY <1>2, <2>2, <3>1 DEF LockInv, OwnersSound, Owns
    <3>2. CASE u = t /\ m # l
      <4>1. owner[m] = t
        BY <2>1, <3>2 DEF TypeOK
      <4>2. m \in scope[t]
        BY <1>3, <4>1 DEF LockInv, OwnersSound, Owns
      <4> QED BY <3>2, <4>2 DEF TypeOK
    <3>3. CASE u = t /\ m = l
      BY <3>3 DEF NextPaths, TypeOK
    <3> QED BY <3>1, <3>2, <3>3
  <2>7. OwnsPrefix'
    <3> SUFFICES ASSUME NEW u \in Task, pc'[u] = "locking",
                        NEW q \in Lock, owner'[q] = u, 
                        NEW p \in scope[u], owner'[p] # u
                 PROVE  q < p
      BY DEF OwnsPrefix, Owns, Lock, TypeOK
    <3>0. p \in Lock /\ p \in Int
      BY DEF TypeOK, Lock, Path
    <3>1. CASE u # t
      <4>1. pc[u] = "locking" /\ owner[q] = u /\ owner[p] # u
        BY <1>2, <2>2, <3>0, <3>1
      <4>2. q \in Owns(u) /\ p \in scope[u] \ Owns(u)
        BY <4>1 DEF Owns
      <4> QED BY <4>1, <4>2 DEF LockInv, OwnsPrefix
    <3>2. CASE u = t
      <4>1. pc[t] = "locking" /\ l \in NextPaths(t)
        BY <3>2 DEF TypeOK
      <4>2. p # l /\ owner[p] # t
        BY <2>1, <3>0, <3>2 DEF TypeOK
      <4>3. CASE q = l
        <5>1. l <= p /\ l \in Int
          BY <3>0, <3>2, <4>1, <4>2 DEF NextPaths, Owns, TypeOK, Path
        <5> QED BY <3>0, <4>2, <4>3, <5>1
      <4>4. CASE q # l
        <5>1. owner[q] = t
          BY <2>1, <3>2, <4>4 DEF TypeOK
        <5> QED BY <3>0, <3>2, <4>1, <4>2, <5>1 DEF LockInv, OwnsPrefix, Owns
      <4> QED BY <4>3, <4>4
    <3> QED BY <3>1, <3>2
  <2>8. PromotersSound'
    <3>1. ASSUME NEW u \in Task, pc'[u] = "promoting"
          PROVE  owner'[CommitLock] = u
      <4>1. u # t
        BY <3>1 DEF TypeOK
      <4>2. pc[u] = "promoting" /\ CommitLock \in Lock
        BY <1>2, <3>1, <4>1 DEF Lock
      <4> QED BY <2>2, <4>1, <4>2 DEF LockInv, PromotersSound
    <3>2. ASSUME NEW u \in promoting
          PROVE  \/ pc'[u] = "promoting"
                 \/ pc'[u] = "done" /\ result[u] = "cancelled"
      <4>1. u \in Task /\ (pc[u] = "promoting" \/ (pc[u] = "done" /\ result[u] = "cancelled"))
        BY DEF LockInv, PromotersSound, TypeOK
      <4>2. u # t
        BY <4>1
      <4> QED BY <1>2, <4>1, <4>2
    <3> QED BY <3>1, <3>2 DEF PromotersSound
  <2>9. LocksOutliveOnlyCancelledAcquire'
    <3> SUFFICES ASSUME NEW u \in Task, pc'[u] = "done", Owns(u)' # {}
                 PROVE  /\ result[u] = "cancelled"
                        /\ ~ (scope[u] \subseteq Owns(u)')
      BY DEF LocksOutliveOnlyCancelledAcquire
    <3>1. u # t
      BY DEF TypeOK
    <3>2. Owns(u)' = Owns(u)
      BY <2>2, <3>1 DEF Owns, Lock
    <3> QED BY <1>2, <3>1, <3>2 DEF LockInv, LocksOutliveOnlyCancelledAcquire
  <2> QED BY <2>3, <2>4, <2>5, <2>6, <2>7, <2>8, <2>9 DEF LockInv
<1>7. CASE owner[l] # NoTask
  <2>1. owner' = owner /\ waiters' = [waiters EXCEPT ![l] = Append(@, t)]
    BY <1>7 DEF AcquireLock
  <2>2. /\ Len(waiters[l]) \in Nat
        /\ Len(waiters'[l]) = Len(waiters[l]) + 1
        /\ \A i \in 1..Len(waiters[l]) : waiters'[l][i] = waiters[l][i]
        /\ waiters'[l][Len(waiters[l]) + 1] = t
    <3>1. waiters[l] \in Seq(Task) /\ waiters'[l] = Append(waiters[l], t)
      BY <2>1 DEF TypeOK
    <3> QED BY <3>1, AppendProperties, LenProperties
  <2>3. \A m \in Lock \ {l} : waiters'[m] = waiters[m]
    BY <2>1 DEF TypeOK
  <2>4. \A u \in Task : Owns(u)' = Owns(u) /\ NextPaths(u)' = NextPaths(u)
    BY <2>1 DEF Owns, Lock, NextPaths
  <2>5. Asks(t, l)'
    BY <1>4, <2>1, <2>4 DEF Asks, NextPaths, TypeOK, Path
  <2>6. ASSUME NEW m \in Lock, NEW i \in 1..Len(waiters[m])
        PROVE  /\ Asks(waiters[m][i], m)
               /\ waiters[m][i] \in Task \ {t}
               /\ \E u \in Task : u = waiters[m][i] /\ Asks(u, m)'
    <3>1. PICK u \in Task : u = waiters[m][i]
      BY WaiterIsTask
    <3>2. Waits(u, m) /\ Asks(u, m)
      BY <3>1, WaiterAsks DEF Waits
    <3>3. u # t
      BY <1>1, <3>2
    <3>4. Asks(u, m)'
      BY <1>5, <2>1, <3>2, <3>3
    <3> QED BY <3>1, <3>2, <3>3, <3>4
  <2>7. WaitersAsk'
    <3> SUFFICES ASSUME NEW m \in Lock, NEW i \in 1..Len(waiters'[m])
                 PROVE  \E u \in Task : u = waiters'[m][i] /\ Asks(u, m)'
      BY DEF WaitersAsk, Lock, Asks, NextPaths, Owns
    <3>1. CASE m # l
      BY <2>3, <2>6, <3>1
    <3>2. CASE m = l /\ i = Len(waiters[l]) + 1
      BY <2>2, <2>5, <3>2
    <3>3. CASE m = l /\ i \in 1..Len(waiters[l])
      BY <2>2, <2>6, <3>3
    <3> QED BY <2>2, <3>1, <3>2, <3>3
  <2>8. WaitersDistinct'
    <3> SUFFICES ASSUME NEW m \in Lock, NEW i \in 1..Len(waiters'[m]), 
                        NEW j \in 1..Len(waiters'[m]), i # j
                 PROVE  waiters'[m][i] # waiters'[m][j]
      BY DEF WaitersDistinct, Lock
    <3>1. CASE m # l
      BY <2>3, <3>1 DEF LockInv, WaitersDistinct
    <3>2. CASE m = l
      <4>1. CASE i \in 1..Len(waiters[l]) /\ j \in 1..Len(waiters[l])
        BY <2>2, <3>2, <4>1 DEF LockInv, WaitersDistinct
      <4>2. CASE i \in 1..Len(waiters[l]) /\ j = Len(waiters[l]) + 1
        BY <2>2, <2>6, <3>2, <4>2
      <4>3. CASE j \in 1..Len(waiters[l]) /\ i = Len(waiters[l]) + 1
        BY <2>2, <2>6, <3>2, <4>3
      <4> QED BY <2>2, <3>2, <4>1, <4>2, <4>3
    <3> QED BY <3>1, <3>2
  <2>9. NoLostWakeup'
    BY <1>7, <2>1, <2>3 DEF LockInv, NoLostWakeup, Lock
  <2>10. OwnersSound'
    BY <1>2, <1>3, <2>1, <2>4 DEF LockInv, OwnersSound, Owns, TypeOK
  <2>11. OwnsPrefix'
    BY <1>2, <2>4 DEF LockInv, OwnsPrefix, TypeOK
  <2>12. PromotersSound'
    BY <1>2, <2>1 DEF LockInv, PromotersSound, TypeOK
  <2>13. LocksOutliveOnlyCancelledAcquire'
    BY <1>2, <2>4 DEF LockInv, LocksOutliveOnlyCancelledAcquire, TypeOK
  <2> QED BY <2>7, <2>8, <2>9, <2>10, <2>11, <2>12, <2>13 DEF LockInv
<1> QED BY <1>6, <1>7

-------------------------------------------------------------------------------
(* The step.                                                                 *)

\* A critical task that releases its locks and its permit.
LEMMA CriticalLeaves ==
    ASSUME TypeOK, LockInv, PermitInv, CriticalOwnsScope, TypeOK',
           NEW t \in Task, NEW status \in {"ok", "failed", "cancelled"},
           \/ pc[t] = "running" /\ Leave(t, FileLocks(t), status)
           \/ pc[t] = "promoting" /\ Leave(t, FileLocks(t) \cup {CommitLock}, status),
           scope' = scope, promoting' \subseteq promoting,
           t \in promoting' => status = "cancelled"
    PROVE  LockInv'
<1>1. PICK R \in SUBSET Owns(t) :
         /\ ReleaseLocks(R)
         /\ Owns(t) \subseteq R
  <2>1. t \in Critical /\ scope[t] \subseteq Owns(t)
    BY DEF Critical, CriticalOwnsScope
  <2>2. CASE pc[t] = "running"
    <3>1. ASSUME NEW l \in Owns(t) PROVE l \in scope[t]
      BY <2>2 DEF LockInv, OwnersSound
    <3> QED BY <2>1, <2>2, <3>1 DEF Leave, FileLocks
  <2>3. CASE pc[t] = "promoting"
    <3>1. CommitLock \in Owns(t)
      BY <2>3 DEF LockInv, PromotersSound, Owns, Lock
    <3>2. ASSUME NEW l \in Owns(t) PROVE l \in scope[t] \cup {CommitLock}
      BY DEF LockInv, OwnersSound
    <3> QED BY <2>1, <2>3, <3>1, <3>2 DEF Leave, FileLocks
  <2> QED BY <2>2, <2>3
<1>2. ~ Blocked(t)
  BY WaiterAsks DEF Blocked, Asks
<1>3. /\ QueuesShrink(t)
      /\ FreedBy(t)
      /\ \A l \in R : owner'[l] # t
      /\ WaitersDistinct'
      /\ NoLostWakeup'
  BY <1>1, <1>2, ReleaseLocksEffects
<1>4. \A l \in Lock : owner'[l] # t
  <2> SUFFICES ASSUME NEW l \in Lock, owner'[l] = t
               PROVE  FALSE
    OBVIOUS
  <2>1. l \notin R
    BY <1>3
  <2>2. owner[l] # t
    BY <1>1, <2>1 DEF Owns
  <2> QED BY <2>2, <1>1, <2>1 DEF ReleaseLocks
<1>5. /\ pc'[t] = "done"
      /\ \A u \in Task \ {t} : \/ pc'[u] = pc[u]
                               \/ pc[u] = "queued" /\ pc'[u] = "locking"
  BY PermitMovesOnly DEF Leave
<1>6. result'[t] = status /\ \A u \in Task \ {t} : result'[u] = result[u]
  BY DEF Leave, TypeOK
<1> QED BY <1>3, <1>4, <1>5, <1>6, LeaveKeepsLockInv

LEMMA LockInvariant ==
    TypeOK /\ TypeOK' /\ CriticalOwnsScope /\ PermitInv /\ LockInv /\ [Next]_vars 
        => LockInv'
<1> SUFFICES ASSUME TypeOK, TypeOK', CriticalOwnsScope, PermitInv, LockInv, [Next]_vars 
             PROVE LockInv'
  OBVIOUS
<1> USE DEF LockInv
<1>1. ASSUME NEW t \in Task, NEW S \in SUBSET Path, Submit(t, S)
      PROVE  LockInv'
  <2>1. /\ pc[t] = "new" 
        /\ pc' = [pc EXCEPT ![t] = pc'[t]] 
        /\ pc'[t] \in {"locking", "queued"}
        /\ scope' = [scope EXCEPT ![t] = S]
        /\ UNCHANGED <<owner, waiters, promoting, result>>
    BY <1>1 DEF Submit, TypeOK
  <2>2. Owns(t) = {}
    BY <2>1 DEF OwnersSound
  <2>3. \A u \in Task : Owns(u)' = Owns(u)
    BY <2>1 DEF Owns
  <2>4. \A u \in Task \ {t} : pc'[u] = pc[u] /\ scope'[u] = scope[u] /\ NextPaths(u)' = NextPaths(u)
    BY <2>1, <2>3 DEF NextPaths, TypeOK
  <2>5. WaitersAsk'
    <3> SUFFICES ASSUME NEW m \in Lock, NEW i \in 1..Len(waiters[m])
                 PROVE  Asks(waiters[m][i], m)'
      BY <2>1 DEF WaitersAsk
    <3>1. PICK u \in Task : u = waiters[m][i]
      BY WaiterIsTask
    <3>2. Asks(u, m) /\ u # t
      BY <2>1, <3>1 DEF WaitersAsk, Asks
    <3>3. Asks(u, m)'
      BY <2>1, <2>4, <3>2 DEF Asks
    <3>4. waiters'[m][i] = u
      BY <2>1, <3>1
    <3> QED BY <3>3, <3>4 DEF Asks, NextPaths, Owns
  <2>6. WaitersDistinct' /\ NoLostWakeup'
    BY <2>1 DEF WaitersDistinct, NoLostWakeup
  <2>7. OwnersSound'
    BY <2>2, <2>3, <2>4 DEF OwnersSound
  <2>8. OwnsPrefix'
    BY <2>2, <2>3, <2>4 DEF OwnsPrefix
  <2>9. PromotersSound'
    BY <2>1 DEF PromotersSound, TypeOK
  <2>10. LocksOutliveOnlyCancelledAcquire'
    BY <2>1, <2>2, <2>3, <2>4 DEF LocksOutliveOnlyCancelledAcquire
  <2> QED BY <2>5, <2>6, <2>7, <2>8, <2>9, <2>10
<1>2. ASSUME NEW t \in Task, AcquireNext(t)
      PROVE  LockInv'
  <2>1. PICK p \in NextPaths(t) : AcquireLock(t, p)
    BY <1>2 DEF AcquireNext
  <2>2. p \in Lock
    BY DEF NextPaths, Lock, TypeOK
  <2> QED BY <1>2, <2>1, <2>2, AcquireKeepsLockInv DEF AcquireNext
<1>3. ASSUME NEW t \in Task, StartPipeline(t)
      PROVE  LockInv'
  <2>1. /\ pc[t] = "locking" /\ scope[t] \subseteq Owns(t)
        /\ pc' = [pc EXCEPT ![t] = "running"]
        /\ UNCHANGED <<scope, owner, waiters, promoting, result>>
    BY <1>3 DEF StartPipeline
  <2>2. \A u \in Task : Owns(u)' = Owns(u) /\ NextPaths(u)' = NextPaths(u)
    BY <2>1 DEF Owns, NextPaths
  <2>3. \A u \in Task \ {t} : pc'[u] = pc[u]
    BY <2>1 DEF TypeOK
  <2>4. WaitersAsk'
    <3> SUFFICES ASSUME NEW m \in Lock, NEW i \in 1..Len(waiters[m])
                 PROVE  Asks(waiters[m][i], m)'
      BY <2>1 DEF WaitersAsk
    <3>1. PICK u \in Task : u = waiters[m][i]
      BY WaiterIsTask
    <3>2. Asks(u, m)
      BY <3>1 DEF WaitersAsk
    <3>3. u # t
      BY <2>1, <3>2 DEF Asks, NextPaths
    <3>4. Asks(u, m)'
      BY <2>1, <2>2, <2>3, <3>2, <3>3 DEF Asks
    <3>5. waiters'[m][i] = u
      BY <2>1, <3>1
    <3> QED BY <3>4, <3>5 DEF Asks, NextPaths, Owns
  <2>5. WaitersDistinct' /\ NoLostWakeup'
    BY <2>1 DEF WaitersDistinct, NoLostWakeup
  <2>6. OwnersSound'
    BY <2>1, <2>2 DEF OwnersSound, TypeOK
  <2>7. OwnsPrefix'
    BY <2>1, <2>2, <2>3 DEF OwnsPrefix, TypeOK
  <2>8. PromotersSound'
    BY <2>1 DEF PromotersSound, TypeOK
  <2>9. LocksOutliveOnlyCancelledAcquire'
    BY <2>1, <2>2 DEF LocksOutliveOnlyCancelledAcquire, TypeOK
  <2> QED BY <2>4, <2>5, <2>6, <2>7, <2>8, <2>9
<1>4. ASSUME NEW t \in Task, NEW status \in {"ok", "failed"}, PipelineEnds(t, status)
      PROVE  LockInv'
  <2>1. t \notin promoting
    BY <1>4 DEF PipelineEnds, PromotersSound
  <2> QED BY <1>4, <2>1, CriticalLeaves DEF PipelineEnds
<1>5. ASSUME NEW t \in Task, RequestCommit(t)
      PROVE  LockInv'
  <2>1. CommitLock \in Lock
    BY DEF Lock
  <2>2. ~ Blocked(t)
    BY <1>5, WaiterAsks DEF RequestCommit, Blocked, Asks
  <2> QED BY <1>5, <2>1, <2>2, AcquireKeepsLockInv DEF RequestCommit
<1>6. ASSUME NEW t \in Task, StartPromotion(t)
      PROVE  LockInv'
  <2>1. /\ pc[t] = "committing" /\ owner[CommitLock] = t
        /\ pc' = [pc EXCEPT ![t] = "promoting"]
        /\ promoting' = promoting \cup {t}
        /\ UNCHANGED <<scope, owner, waiters, result>>
    BY <1>6 DEF StartPromotion
  <2>2. \A u \in Task : Owns(u)' = Owns(u) /\ NextPaths(u)' = NextPaths(u)
    BY <2>1 DEF Owns, NextPaths
  <2>3. \A u \in Task \ {t} : pc'[u] = pc[u]
    BY <2>1 DEF TypeOK
  <2>4. WaitersAsk'
    <3> SUFFICES ASSUME NEW m \in Lock, NEW i \in 1..Len(waiters[m])
                 PROVE  Asks(waiters[m][i], m)'
      BY <2>1 DEF WaitersAsk
    <3>1. PICK u \in Task : u = waiters[m][i]
      BY WaiterIsTask
    <3>2. Asks(u, m)
      BY <3>1 DEF WaitersAsk
    <3>3. u # t
      BY <2>1, <3>2 DEF Asks
    <3>4. Asks(u, m)'
      BY <2>1, <2>2, <2>3, <3>2, <3>3 DEF Asks
    <3>5. waiters'[m][i] = u
      BY <2>1, <3>1
    <3> QED BY <3>4, <3>5 DEF Asks, NextPaths, Owns
  <2>5. WaitersDistinct' /\ NoLostWakeup'
    BY <2>1 DEF WaitersDistinct, NoLostWakeup
  <2>6. OwnersSound'
    BY <2>1, <2>2 DEF OwnersSound, TypeOK
  <2>7. OwnsPrefix'
    BY <2>1, <2>2, <2>3 DEF OwnsPrefix, TypeOK
  <2>8. PromotersSound'
    BY <2>1 DEF PromotersSound, TypeOK
  <2>9. LocksOutliveOnlyCancelledAcquire'
    BY <2>1, <2>2 DEF LocksOutliveOnlyCancelledAcquire, TypeOK
  <2> QED BY <2>4, <2>5, <2>6, <2>7, <2>8, <2>9
<1>7. ASSUME NEW t \in Task, NEW status \in {"ok", "failed"}, PromotionEnds(t, status)
      PROVE  LockInv'
  BY <1>7, CriticalLeaves DEF PromotionEnds
<1>8. ASSUME NEW t \in Task, OrphanPromotionEnds(t)
      PROVE  LockInv'
  BY <1>8 DEF OrphanPromotionEnds, WaitersAsk, WaitersDistinct, NoLostWakeup, OwnersSound,
              OwnsPrefix, PromotersSound, LocksOutliveOnlyCancelledAcquire, Asks, NextPaths, Owns
<1>9. ASSUME NEW t \in Task, CancelQueued(t)
      PROVE  LockInv'
  <2>1. /\ pc[t] = "queued"
        /\ pc' = [pc EXCEPT ![t] = "done"]
        /\ result' = [result EXCEPT ![t] = "cancelled"]
        /\ UNCHANGED <<scope, owner, waiters, promoting>>
    BY <1>9 DEF CancelQueued
  <2>2. \A u \in Task : Owns(u)' = Owns(u) /\ NextPaths(u)' = NextPaths(u)
    BY <2>1 DEF Owns, NextPaths
  <2>3. Owns(t) = {}
    BY <2>1 DEF OwnersSound, Owns
  <2>4. \A u \in Task \ {t} : pc'[u] = pc[u]
    BY <2>1 DEF TypeOK
  <2>5. WaitersAsk'
    <3> SUFFICES ASSUME NEW m \in Lock, NEW i \in 1..Len(waiters[m])
                 PROVE  Asks(waiters[m][i], m)'
      BY <2>1 DEF WaitersAsk
    <3>1. PICK u \in Task : u = waiters[m][i]
      BY WaiterIsTask
    <3>2. Asks(u, m) /\ u # t
      BY <2>1, <3>1 DEF WaitersAsk, Asks
    <3>3. Asks(u, m)'
      BY <2>1, <2>2, <2>4, <3>2 DEF Asks
    <3>4. waiters'[m][i] = u
      BY <2>1, <3>1
    <3> QED BY <3>3, <3>4 DEF Asks, NextPaths, Owns
  <2>6. WaitersDistinct' /\ NoLostWakeup'
    BY <2>1 DEF WaitersDistinct, NoLostWakeup
  <2>7. OwnersSound'
    BY <2>2, <2>3, <2>4, <2>1 DEF OwnersSound
  <2>8. OwnsPrefix'
    BY <2>1, <2>2, <2>3 DEF OwnsPrefix, TypeOK
  <2>9. PromotersSound'
    BY <2>1 DEF PromotersSound, TypeOK
  <2>10. LocksOutliveOnlyCancelledAcquire'
    BY <2>1, <2>2, <2>3 DEF LocksOutliveOnlyCancelledAcquire, TypeOK
  <2> QED BY <2>5, <2>6, <2>7, <2>8, <2>9, <2>10
<1>10. ASSUME NEW t \in Task, CancelLocking(t)
       PROVE  LockInv'
  <2>0. PICK l \in Lock : \E i \in 1..Len(waiters[l]) :
            /\ waiters[l][i] = t
            /\ waiters' = [waiters EXCEPT ![l] = RemoveAt(@, i)]
    BY <1>10 DEF CancelLocking
  <2>1. PICK i \in 1..Len(waiters[l]) :
            /\ waiters[l][i] = t
            /\ waiters' = [waiters EXCEPT ![l] = RemoveAt(@, i)]
    BY <2>0
  <2>2. pc[t] = "locking" /\ owner' = owner /\ scope' = scope /\ promoting' = promoting
    BY <1>10 DEF CancelLocking
  <2>3. Waits(t, l) /\ Asks(t, l)
    BY <2>1, WaiterAsks DEF Waits
  <2>4. /\ waiters[l] \in Seq(Task)
        /\ waiters'[l] = RemoveAt(waiters[l], i)
        /\ \A m \in Lock \ {l} : waiters'[m] = waiters[m]
    BY <2>1 DEF TypeOK
  <2>5. /\ \A k \in 1..Len(waiters'[l]) :
              \E m \in 1..Len(waiters[l]) : waiters'[l][k] = waiters[l][m] /\ waiters[l][m] # t
        /\ \A j, k \in 1..Len(waiters'[l]) : j # k => waiters'[l][j] # waiters'[l][k]
    <3>1. \A j, k \in 1..Len(waiters[l]) : j # k => waiters[l][j] # waiters[l][k]
      BY DEF WaitersDistinct
    <3> QED BY <2>1, <2>4, <3>1, RemoveWaiter
  <2>6. QueuesShrink(t)
    <3> SUFFICES ASSUME NEW m \in Lock, NEW u \in Task, Waits(u, m)'
                 PROVE  Waits(u, m) /\ u # t
      BY DEF QueuesShrink
    <3>1. CASE m = l
      BY <2>5, <3>1 DEF Waits
    <3>2. CASE m # l
      <4>1. Waits(u, m)
        BY <2>4, <3>2 DEF Waits
      <4> QED BY <2>3, <3>2, <4>1, OneWait
    <3> QED BY <3>1, <3>2
  <2>7. FreedBy(t)
    BY <2>2 DEF FreedBy
  <2>8. WaitersDistinct'
    BY <2>4, <2>5 DEF WaitersDistinct, Lock
  <2>9. NoLostWakeup'
    <3>1. waiters[l] # <<>>
      BY <2>1, EmptySeq
    <3> QED BY <2>2, <2>4, <3>1 DEF NoLostWakeup, Lock
  <2>10. owner[CommitLock] # t
    <3>1. CommitLock \notin scope[t]
      BY CommitLockAssumption DEF TypeOK
    <3> QED BY <2>2, <3>1 DEF OwnersSound, Owns, Lock
  <2>11. ~ (scope[t] \subseteq Owns(t))
    BY <2>2, <2>3 DEF Asks, NextPaths
  <2>12. t \notin promoting
    BY <2>2 DEF PromotersSound
  <2>13. /\ pc'[t] = "done"
         /\ \A u \in Task \ {t} : \/ pc'[u] = pc[u]
                                  \/ pc[u] = "queued" /\ pc'[u] = "locking"
    BY <1>10, <2>2, PermitMovesOnly DEF CancelLocking
  <2>14. result'[t] = "cancelled" /\ \A u \in Task \ {t} : result'[u] = result[u]
    BY <1>10 DEF CancelLocking, TypeOK
  <2> QED BY <2>2, <2>6, <2>7, <2>8, <2>9, <2>10, <2>11, <2>12, <2>13, <2>14, 
             LeaveKeepsLockInv
<1>11. ASSUME NEW t \in Task, CancelRunning(t)
       PROVE  LockInv'
  BY <1>11, CriticalLeaves DEF CancelRunning
<1>12. ASSUME NEW t \in Task, CancelCommitting(t)
       PROVE  LockInv'
  <2>1. PICK i \in 1..Len(waiters[CommitLock]) :
          /\ waiters[CommitLock][i] = t
          /\ owner' = [l \in Lock |-> IF l \notin FileLocks(t) THEN owner[l]
                                      ELSE IF waiters[l] = <<>> THEN NoTask
                                      ELSE Head(waiters[l])]
          /\ waiters' = [l \in Lock |->
                            IF l = CommitLock THEN RemoveAt(waiters[l], i)
                            ELSE IF l \in FileLocks(t) /\ waiters[l] # <<>>
                            THEN Tail(waiters[l]) ELSE waiters[l]]
    BY <1>12 DEF CancelCommitting
  <2>2. /\ pc[t] = "committing" /\ scope' = scope /\ promoting' = promoting
        /\ ReleasePermit(t)
        /\ result' = [result EXCEPT ![t] = "cancelled"]
        /\ CommitLock \in Lock
    BY <1>12 DEF CancelCommitting, Lock
  <2>3. Waits(t, CommitLock) /\ Asks(t, CommitLock)
    BY <2>1, <2>2, WaiterAsks DEF Waits
  <2>4. owner[CommitLock] # t
    BY <2>3, CommitLockAssumption DEF Asks
  <2>5. scope[t] \subseteq Owns(t) /\ scope[t] \subseteq Path /\ CommitLock \notin scope[t]
    BY <2>2, CommitLockAssumption DEF CriticalOwnsScope, Critical, TypeOK
  <2>6. Owns(t) \subseteq scope[t]
    BY <2>4 DEF OwnersSound, Owns
  <2>7. \A l \in Lock : Waits(t, l) => l = CommitLock
    BY <2>2, <2>3, OneWait
  <2>8. /\ waiters'[CommitLock] = RemoveAt(waiters[CommitLock], i)
        /\ owner'[CommitLock] = owner[CommitLock]
    BY <2>1, <2>2, <2>5 DEF FileLocks
  <2>9. /\ \A k \in 1..Len(waiters'[CommitLock]) :
              \E m \in 1..Len(waiters[CommitLock]) : 
                 /\ waiters'[CommitLock][k] = waiters[CommitLock][m] 
                 /\ waiters[CommitLock][m] # t
        /\ \A j, k \in 1..Len(waiters'[CommitLock]) : 
              j # k => waiters'[CommitLock][j] # waiters'[CommitLock][k]
    <3>1. \A j, k \in 1..Len(waiters[CommitLock]) : 
             j # k => waiters[CommitLock][j] # waiters[CommitLock][k]
      BY <2>2 DEF WaitersDistinct
    <3>2. waiters[CommitLock] \in Seq(Task)
      BY <2>2 DEF TypeOK
    <3> DEFINE w == waiters[CommitLock]
               r == RemoveAt(w, i)
    <3>3. /\ \A k \in 1..Len(r) : \E m \in 1..Len(w) : r[k] = w[m] /\ w[m] # w[i]
          /\ \A j, k \in 1..Len(r) : j # k => r[j] # r[k]
      <4> HIDE DEF LockInv, w
      <4>1. i \in 1..Len(w) /\ w \in Seq(Task)
        BY <3>2 DEF w
      <4>2. \A j, k \in 1..Len(w) : j # k => w[j] # w[k]
        BY <3>1 DEF w
      <4> QED BY <4>1, <4>2, RemoveWaiter
    <3>4. waiters'[CommitLock] = r /\ w[i] = t
      BY <2>1, <2>8
    <3> HIDE DEF r
    <3> QED BY <3>3, <3>4
  <2>10. \A l \in Lock \ (scope[t] \cup {CommitLock}) :
            owner'[l] = owner[l] /\ waiters'[l] = waiters[l]
    BY <2>1 DEF FileLocks
  <2>11. ASSUME NEW l \in scope[t], waiters[l] = <<>>
         PROVE  owner'[l] = NoTask /\ waiters'[l] = <<>>
    BY <2>1, <2>5, <2>11 DEF FileLocks, Lock
  <2>12. ASSUME NEW l \in scope[t], waiters[l] # <<>>
         PROVE  /\ \E u \in Task : owner'[l] = u /\ Waits(u, l) /\ ~ Waits(u, l)'
                /\ \A k \in 1..Len(waiters'[l]) : 
                      /\ k + 1 \in 1..Len(waiters[l])
                      /\ waiters'[l][k] = waiters[l][k + 1]
    <3>0. l \in Lock /\ l # CommitLock
      BY <2>5 DEF Lock
    <3>1. owner'[l] = Head(waiters[l]) /\ waiters'[l] = Tail(waiters[l])
      BY <2>1, <2>12, <3>0 DEF FileLocks
    <3>2. waiters[l] \in Seq(Task) /\ Len(waiters[l]) \in Nat
      BY <3>0, LenProperties DEF TypeOK
    <3>3. \A k \in 1..Len(waiters'[l]) : 
             /\ k + 1 \in 1..Len(waiters[l])
             /\ waiters'[l][k] = waiters[l][k + 1]
      BY <2>12, <3>1, <3>2, HeadTailProperties
    <3>4. PICK u \in Task : /\ owner'[l] = u
                            /\ u = waiters[l][1] 
                            /\ Waits(u, l)
                            /\ 1 \in 1..Len(waiters[l])
      BY <2>12, <3>0, <3>1, HeadWaits
    <3>5. ASSUME NEW k \in 1..Len(waiters'[l])
          PROVE  waiters'[l][k] # u
      <4>1. k + 1 \in 1..Len(waiters[l]) /\ k + 1 # 1
        BY <3>3
      <4> QED BY <3>0, <3>3, <3>4, <4>1 DEF WaitersDistinct
    <3> QED BY <3>3, <3>4, <3>5 DEF Waits
  <2>13. QueuesShrink(t)
    <3> SUFFICES ASSUME NEW m \in Lock, NEW u \in Task, Waits(u, m)'
                 PROVE  Waits(u, m) /\ u # t
      BY DEF QueuesShrink
    <3>1. CASE m = CommitLock
      BY <2>9, <3>1 DEF Waits
    <3>2. CASE m # CommitLock
      <4>1. Waits(u, m)
        <5>1. CASE m \notin scope[t]
          BY <2>10, <3>2, <5>1 DEF Waits
        <5>2. CASE m \in scope[t] /\ waiters[m] = <<>>
          BY <2>11, <5>2 DEF Waits
        <5>3. CASE m \in scope[t] /\ waiters[m] # <<>>
          BY <2>12, <5>3 DEF Waits
        <5> QED BY <5>1, <5>2, <5>3
      <4> QED BY <2>7, <3>2, <4>1
    <3> QED BY <3>1, <3>2
  <2>14. FreedBy(t)
    <3> SUFFICES ASSUME NEW l \in Lock, owner'[l] # owner[l]
                 PROVE  /\ owner[l] = t
                        /\ \/ owner'[l] = NoTask
                           \/ \E u \in Task : owner'[l] = u /\ Waits(u, l) /\ ~ Waits(u, l)'
      BY DEF FreedBy
    <3>1. l \in scope[t]
      BY <2>8, <2>10
    <3>2. owner[l] = t
      BY <2>5, <3>1 DEF Owns
    <3> QED BY <2>11, <2>12, <3>1, <3>2
  <2>15. WaitersDistinct'
    <3> SUFFICES ASSUME NEW l \in Lock, 
                        NEW j \in 1..Len(waiters'[l]), NEW k \in 1..Len(waiters'[l]), j # k
                 PROVE  waiters'[l][j] # waiters'[l][k]
      BY DEF WaitersDistinct, Lock
    <3>1. CASE l = CommitLock
      BY <2>9, <3>1
    <3>2. CASE l # CommitLock /\ l \notin scope[t]
      BY <2>10, <3>2 DEF WaitersDistinct
    <3>3. CASE l \in scope[t] /\ waiters[l] = <<>>
      BY <2>11, <3>3
    <3>4. CASE l \in scope[t] /\ waiters[l] # <<>>
      <4>1. j + 1 # k + 1
        OBVIOUS
      <4> QED BY <2>12, <3>4, <4>1 DEF WaitersDistinct
    <3> QED BY <3>1, <3>2, <3>3, <3>4
  <2>16. NoLostWakeup'
    <3> SUFFICES ASSUME NEW l \in Lock, waiters'[l] # <<>>
                 PROVE  owner'[l] # NoTask
      BY DEF NoLostWakeup, Lock
    <3>1. CASE l = CommitLock
      <4>1. waiters[CommitLock] # <<>>
        BY <2>1, EmptySeq
      <4> QED BY <2>2, <2>8, <3>1, <4>1 DEF NoLostWakeup
    <3>2. CASE l # CommitLock /\ l \notin scope[t]
      BY <2>10, <3>2 DEF NoLostWakeup
    <3>3. CASE l \in scope[t]
      BY <2>11, <2>12, <3>3, NoTaskAssumption
    <3> QED BY <3>1, <3>2, <3>3
  <2>17. \A l \in Lock : owner'[l] # t
    <3> SUFFICES ASSUME NEW l \in Lock, owner'[l] = t
                 PROVE  FALSE
      OBVIOUS
    <3>1. CASE l \notin scope[t]
      BY <2>4, <2>6, <2>8, <2>10, <3>1 DEF Owns
    <3>2. CASE l \in scope[t]
      <4>1. ~ Waits(t, l)
        BY <2>5, <2>7, <3>2
      <4> QED BY <2>11, <2>12, <3>2, <4>1, NoTaskAssumption
    <3> QED BY <3>1, <3>2
  <2>18. /\ pc'[t] = "done"
         /\ \A u \in Task \ {t} : \/ pc'[u] = pc[u]
                                  \/ pc[u] = "queued" /\ pc'[u] = "locking"
    BY <2>2, PermitMovesOnly
  <2>19. result'[t] = "cancelled" /\ \A u \in Task \ {t} : result'[u] = result[u]
    BY <2>2 DEF TypeOK
  <2> HIDE DEF LockInv
  <2> QED BY <2>2, <2>13, <2>14, <2>15, <2>16, <2>17, <2>18, <2>19, LeaveKeepsLockInv
<1>13. ASSUME NEW t \in Task, CancelPromoting(t)
       PROVE  LockInv'
  BY <1>13, CriticalLeaves DEF CancelPromoting
<1>14. ASSUME UNCHANGED vars
       PROVE  LockInv'
  BY <1>14 DEF vars, WaitersAsk, WaitersDistinct, NoLostWakeup, OwnersSound,
              OwnsPrefix, PromotersSound, LocksOutliveOnlyCancelledAcquire, Asks, NextPaths, Owns
<1> QED
  BY <1>1, <1>2, <1>3, <1>4, <1>5, <1>6, <1>7, <1>8, <1>9, <1>10, <1>11, <1>12,
     <1>13, <1>14, CancelAssumption DEF Next, Step, Cancel

LEMMA LockInvHolds == Spec => []LockInv
<1> DEFINE All == TypeOK /\ CriticalOwnsScope /\ PermitInv
<1>1. Init => LockInv
  <2> SUFFICES ASSUME Init PROVE LockInv
    OBVIOUS
  <2>1. /\ \A l \in Lock : waiters[l] = <<>> /\ owner[l] = NoTask
        /\ \A t \in Task : pc[t] = "new"
        /\ promoting = {}
    BY DEF Init
  <2>2. \A t \in Task : Owns(t) = {}
    BY <2>1, NoTaskAssumption DEF Owns
  <2>3. WaitersAsk /\ WaitersDistinct /\ NoLostWakeup
    BY <2>1 DEF WaitersAsk, WaitersDistinct, NoLostWakeup
  <2>4. OwnersSound /\ OwnsPrefix /\ PromotersSound /\ LocksOutliveOnlyCancelledAcquire
    BY <2>1, <2>2 
       DEF OwnersSound, OwnsPrefix, PromotersSound, LocksOutliveOnlyCancelledAcquire
  <2> QED BY <2>3, <2>4 DEF LockInv
<1>2. Spec => []CriticalOwnsScope
  BY CriticalOwnsScopeHolds
<1>3. Spec => []PermitInv
  BY PermitInvHolds
<1>4. QED 
  BY <1>1, <1>2, <1>3, TypeCorrect, LockInvariant, PTL DEF Spec

-------------------------------------------------------------------------------
(* Deadlock freedom.                                                         *)

\* Every nonempty bounded set of naturals has a greatest element.
LEMMA GreatestElement ==
    ASSUME NEW n \in Nat, NEW S \in SUBSET (0..n), S # {}
    PROVE  \E p \in S : \A q \in S : q <= p
<1> DEFINE D == {d \in 0..n : n - d \in S}
<1>1. D \subseteq Nat /\ D # {}
  <2>1. PICK p \in S : TRUE
    OBVIOUS
  <2>2. n - p \in 0..n /\ n - (n - p) = p
    OBVIOUS
  <2> QED BY <2>1, <2>2
<1>2. PICK d \in D : \A e \in D : ~ (<<e, d>> \in OpToRel(<, Nat))
  BY <1>1, NatLessThanWellFounded, WFMin
<1>3. \A e \in D : ~ (e < d)
  BY <1>1, <1>2 DEF OpToRel
<1>4. ASSUME NEW q \in S
      PROVE  q <= n - d
  <2>1. n - q \in 0..n /\ n - (n - q) = q
    OBVIOUS
  <2>2. ~ (n - q < d)
    BY <1>3, <2>1
  <2> QED BY <2>2
<1> QED BY <1>4

LEMMA LockInvForbidsCycles ==
    ASSUME TypeOK, LockInv, NEW C \in SUBSET Task, 
           \A t \in C : \E l \in Lock : Waits(t, l) /\ owner[l] \in C
    PROVE  C = {}
<1> SUFFICES ASSUME C # {} PROVE FALSE
  OBVIOUS
<1> USE DEF LockInv
<1>1. ASSUME NEW t \in C, NEW l \in Lock, Waits(t, l), owner[l] \in C
      PROVE  l \in Path /\ pc[t] = "locking" /\ l \in NextPaths(t)
  <2>1. Asks(t, l)
    BY <1>1, WaiterAsks
  <2>2. CASE l = CommitLock
    <3>1. PICK u \in C : owner[l] = u
      BY <1>1
    <3>2. PICK m \in Lock : Waits(u, m)
      OBVIOUS
    <3>3. Asks(u, m)
      BY <3>2, WaiterAsks
    <3>4. u \in Task /\ l \in Owns(u) /\ l \notin scope[u]
      BY <2>2, <3>1, CommitLockAssumption DEF Owns, TypeOK
    <3>5. pc[u] \in {"committing", "promoting"}
      BY <3>4 DEF OwnersSound
    <3>6. m = CommitLock /\ owner[m] # u
      BY <3>3, <3>5, CommitLockAssumption DEF Asks
    <3> QED BY <2>2, <3>1, <3>6
  <2> QED BY <2>1, <2>2 DEF Asks
<1> DEFINE P == {p \in Path : \E t \in C : Waits(t, p) /\ owner[p] \in C}
<1>2. P # {}
  <2>1. PICK t \in C : TRUE
    OBVIOUS
  <2>2. PICK l \in Lock : Waits(t, l) /\ owner[l] \in C
    OBVIOUS
  <2> QED BY <1>1, <2>2
<1>3. P \in SUBSET (0..NumPaths)
  BY PathAssumption DEF Path
<1>4. PICK p \in P : \A q \in P : q <= p
  <2> HIDE DEF P
  <2> QED BY <1>2, <1>3, PathAssumption, GreatestElement
<1>5. PICK u \in C : owner[p] = u
  OBVIOUS
<1>6. PICK q \in Lock : Waits(u, q) /\ owner[q] \in C
  OBVIOUS
<1>7. q \in P /\ pc[u] = "locking" /\ q \in NextPaths(u)
  BY <1>1, <1>6
<1>8. p \in Owns(u) /\ q \in scope[u] \ Owns(u)
  BY <1>5, <1>7 DEF Owns, NextPaths, Lock
<1>9. p < q
  BY <1>7, <1>8 DEF OwnsPrefix
<1> QED BY <1>4, <1>7, <1>9 DEF Path

\* No set of coroutines in which each one waits for a lock that another one of
\* the set holds: what the sorted acquisition order is for.
NoWaitCycle ==
    \A C \in SUBSET Task :
        (\A t \in C : \E l \in Lock : Waits(t, l) /\ owner[l] \in C) => C = {}

\* Coroutines never wait for each other in a circle, whatever scopes the tasks
\* have: acquiring the locks in sorted order, and the commit lock last, is
\* enough, even after locks were abandoned by cancelled acquires.
THEOREM NoWaitCycleTheorem == Spec => []NoWaitCycle
<1>1. TypeOK /\ LockInv => NoWaitCycle
  BY LockInvForbidsCycles DEF NoWaitCycle
<1> QED BY <1>1, TypeCorrect, LockInvHolds, PTL

-------------------------------------------------------------------------------
(* Whoever waits is in a queue.                                              *)

\* What stays in a queue that its head leaves, or its i-th, or that another joins.
LEMMA TailKeeps ==
    ASSUME NEW S, NEW s \in Seq(S), NEW k \in 1..Len(s), s[k] # Head(s)
    PROVE  \E j \in 1..Len(Tail(s)) : Tail(s)[j] = s[k]
<1>1. Len(s) \in Nat /\ s # <<>>
  BY LenProperties, EmptySeq
<1>2. /\ Head(s) = s[1]
      /\ Len(Tail(s)) = Len(s) - 1
      /\ \A i \in 1..Len(Tail(s)) : Tail(s)[i] = s[i + 1]
  BY <1>1, HeadTailProperties
<1>3. k # 1
  BY <1>2
<1>4. k - 1 \in 1..Len(Tail(s)) /\ (k - 1) + 1 = k
  BY <1>1, <1>2, <1>3
<1> QED BY <1>2, <1>4

LEMMA RemoveAtKeeps ==
    ASSUME NEW S, NEW s \in Seq(S), NEW i \in 1..Len(s), NEW k \in 1..Len(s), s[k] # s[i]
    PROVE  \E j \in 1..Len(RemoveAt(s, i)) : RemoveAt(s, i)[j] = s[k]
<1> DEFINE r == RemoveAt(s, i)
<1>1. /\ Len(s) \in Nat
      /\ Len(r) = Len(s) - 1
      /\ \A j \in 1..(Len(s) - 1) : r[j] = IF j < i THEN s[j] ELSE s[j + 1]
  BY RemoveAtProperties, LenProperties
<1> HIDE DEF r
<1>2. CASE k < i
  <2>1. k \in 1..(Len(s) - 1)
    BY <1>1, <1>2
  <2> QED BY <1>1, <1>2, <2>1 DEF r
<1>3. CASE k > i
  <2>1. k - 1 \in 1..(Len(s) - 1) /\ ~ (k - 1 < i) /\ (k - 1) + 1 = k
    BY <1>1, <1>3
  <2> QED BY <1>1, <2>1 DEF r
<1> QED BY <1>2, <1>3

LEMMA AppendKeeps ==
    ASSUME NEW S, NEW s \in Seq(S), NEW x \in S
    PROVE  /\ \A k \in 1..Len(s) : \E j \in 1..Len(Append(s, x)) : Append(s, x)[j] = s[k]
           /\ \E j \in 1..Len(Append(s, x)) : Append(s, x)[j] = x
<1>1. /\ Len(s) \in Nat /\ Len(Append(s, x)) = Len(s) + 1
      /\ \A j \in 1..Len(s) : Append(s, x)[j] = s[j]
      /\ Append(s, x)[Len(s) + 1] = x
  BY AppendProperties, LenProperties
<1> QED BY <1>1

\* The same of the semaphore's queue.
LEMMA SlotQueueGrows ==
    ASSUME TypeOK, NEW t \in Task
    PROVE  /\ \A k \in 1..Len(slotWaiters) :
                \E j \in 1..Len(Append(slotWaiters, t)) : Append(slotWaiters, t)[j] = slotWaiters[k]
           /\ \E j \in 1..Len(Append(slotWaiters, t)) : Append(slotWaiters, t)[j] = t
<1>1. slotWaiters \in Seq(Task)
  BY DEF TypeOK
<1> QED BY <1>1, AppendKeeps

InSlotQueue(t) == \E i \in 1..Len(slotWaiters) : slotWaiters[i] = t

\* No coroutine is suspended on the semaphore or the commit lock without being in
\* its queue.
WaitersQueued ==
    /\ \A t \in Task : pc[t] = "queued" => InSlotQueue(t)
    /\ \A t \in Task : pc[t] = "committing" =>
           owner[CommitLock] = t \/ Waits(t, CommitLock)

\* A coroutine that gives its permit back leaves the others in the queue but the one
\* that gets it.
LEMMA ReleasePermitKeepsQueue ==
    ASSUME TypeOK, NEW t \in Task, pc[t] # "queued", ReleasePermit(t),
           \A u \in Task : pc[u] = "queued" => InSlotQueue(u)
    PROVE  \A u \in Task : pc'[u] = "queued" => InSlotQueue(u)'
<1> SUFFICES ASSUME NEW u \in Task, pc'[u] = "queued"
             PROVE  InSlotQueue(u)'
  OBVIOUS
<1>1. CASE slotWaiters = <<>>
  BY <1>1 DEF ReleasePermit, TypeOK, InSlotQueue
<1>2. CASE slotWaiters # <<>>
  <2>1. slotWaiters' = Tail(slotWaiters) /\ Head(slotWaiters) \in Task
    BY <1>2, HeadTailProperties DEF ReleasePermit, TypeOK
  <2>2. pc[u] = "queued" /\ u # Head(slotWaiters)
    BY <1>2, <2>1 DEF ReleasePermit, TypeOK
  <2>3. PICK k \in 1..Len(slotWaiters) : slotWaiters[k] = u
    BY <2>2 DEF InSlotQueue
  <2> QED BY <2>1, <2>2, <2>3, TailKeeps DEF InSlotQueue, TypeOK
<1> QED BY <1>1, <1>2

\* When t releases locks, the others keep what they hold, and whoever waited for
\* one of the locks holds it or waits on.
LEMMA ReleaseLocksServesQueue ==
    ASSUME TypeOK, NEW R, ReleaseLocks(R), NEW t \in Task, NEW u \in Task, u # t,
           NEW l \in Lock, l \in R => owner[l] = t
    PROVE  /\ owner[l] = u => owner'[l] = u
           /\ Waits(u, l) => owner'[l] = u \/ Waits(u, l)'
<1>0. waiters[l] \in Seq(Task)
  BY DEF TypeOK
<1>1. CASE l \notin R
  BY <1>1 DEF ReleaseLocks, Waits
<1>2. CASE l \in R
  <2> SUFFICES ASSUME Waits(u, l)
               PROVE  owner'[l] = u \/ Waits(u, l)'
    BY <1>2
  <2>1. PICK k \in 1..Len(waiters[l]) : waiters[l][k] = u
    BY DEF Waits
  <2>2. waiters[l] # <<>>
    BY <2>1, EmptySeq
  <2>3. owner'[l] = Head(waiters[l]) /\ waiters'[l] = Tail(waiters[l])
    BY <1>2, <2>2 DEF ReleaseLocks
  <2> QED BY <1>0, <2>1, <2>3, TailKeeps DEF Waits
<1> QED BY <1>1, <1>2

LEMMA WaitersQueuedInvariant ==
    TypeOK /\ LockInv /\ WaitersQueued /\ [Next]_vars => WaitersQueued'
<1> SUFFICES ASSUME TypeOK, LockInv, WaitersQueued, [Next]_vars PROVE WaitersQueued'
  OBVIOUS
<1> USE DEF WaitersQueued
<1>0. /\ CommitLock \in Lock
      /\ \A t \in Task : CommitLock \notin scope[t]
      /\ \A t \in Task : CommitLock \notin NextPaths(t)
  BY CommitLockAssumption DEF Lock, NextPaths, TypeOK
<1>1. ASSUME NEW t \in Task, NEW S \in SUBSET Path, Submit(t, S)
      PROVE  WaitersQueued'
  <2>1. UNCHANGED <<owner, waiters>> /\ pc'[t] # "committing"
    BY <1>1 DEF Submit, TypeOK
  <2>2. \A u \in Task \ {t} : pc'[u] = pc[u]
    BY <1>1 DEF Submit, TypeOK
  <2>3. \/ slotWaiters' = slotWaiters /\ pc'[t] = "locking"
        \/ slotWaiters' = Append(slotWaiters, t)
    BY <1>1 DEF Submit, TypeOK
  <2>4. ASSUME NEW u \in Task, pc'[u] = "queued"
        PROVE  InSlotQueue(u)'
    <3>1. CASE slotWaiters' = slotWaiters /\ pc'[t] = "locking"
      BY <2>2, <2>4, <3>1 DEF InSlotQueue
    <3>2. CASE slotWaiters' = Append(slotWaiters, t) /\ u # t
      <4>1. PICK k \in 1..Len(slotWaiters) : slotWaiters[k] = u
        BY <2>2, <2>4, <3>2 DEF InSlotQueue
      <4>2. \E j \in 1..Len(Append(slotWaiters, t)) : Append(slotWaiters, t)[j] = slotWaiters[k]
        BY SlotQueueGrows
      <4> QED BY <3>2, <4>1, <4>2 DEF InSlotQueue
    <3>3. CASE slotWaiters' = Append(slotWaiters, t) /\ u = t
      <4>1. \E j \in 1..Len(Append(slotWaiters, t)) : Append(slotWaiters, t)[j] = t
        BY SlotQueueGrows
      <4> QED BY <3>3, <4>1 DEF InSlotQueue
    <3> QED BY <2>3, <3>1, <3>2, <3>3
  <2> QED BY <2>1, <2>2, <2>4 DEF Waits
<1>2. ASSUME NEW t \in Task, AcquireNext(t)
      PROVE  WaitersQueued'
  <2>1. PICK p \in NextPaths(t) : AcquireLock(t, p)
    BY <1>2 DEF AcquireNext
  <2>2. p # CommitLock /\ pc' = pc /\ slotWaiters' = slotWaiters
    BY <1>0, <1>2 DEF AcquireNext
  <2>3. owner'[CommitLock] = owner[CommitLock] /\ waiters'[CommitLock] = waiters[CommitLock]
    BY <1>0, <2>1, <2>2 DEF AcquireLock, TypeOK
  <2> QED BY <2>2, <2>3 DEF InSlotQueue, Waits
<1>3. ASSUME NEW t \in Task, StartPipeline(t)
      PROVE  WaitersQueued'
  BY <1>3 DEF StartPipeline, InSlotQueue, Waits, TypeOK
<1>4. ASSUME NEW t \in Task, NEW R, ReleaseLocks(R), ReleasePermit(t),
             pc[t] \in {"running", "promoting"}, 
             CommitLock \in R => owner[CommitLock] = t
      PROVE  WaitersQueued'
  <2>1. \A u \in Task : pc'[u] = "queued" => InSlotQueue(u)'
    BY <1>4, ReleasePermitKeepsQueue
  <2>2. ASSUME NEW u \in Task, pc'[u] = "committing"
        PROVE  owner'[CommitLock] = u \/ Waits(u, CommitLock)'
    <3>1. u # t /\ pc[u] = "committing"
      BY <1>4, <2>2, HeadTailProperties DEF ReleasePermit, TypeOK
    <3> QED BY <1>0, <1>4, <3>1, ReleaseLocksServesQueue
  <2> QED BY <2>1, <2>2
<1>5. ASSUME NEW t \in Task, RequestCommit(t)
      PROVE  WaitersQueued'
  <2>1. \A u \in Task \ {t} : pc'[u] = pc[u]
    BY <1>5 DEF RequestCommit, TypeOK
  <2>2. pc'[t] = "committing" /\ slotWaiters' = slotWaiters
    BY <1>5 DEF RequestCommit, TypeOK
  <2>3. waiters[CommitLock] \in Seq(Task)
    BY <1>0 DEF TypeOK
  <2>4. CASE owner[CommitLock] = NoTask
    <3>1. owner'[CommitLock] = t /\ waiters' = waiters
      BY <1>0, <1>5, <2>4 DEF RequestCommit, AcquireLock, TypeOK
    <3> QED BY <2>1, <2>2, <2>4, <3>1, NoTaskAssumption DEF InSlotQueue, Waits
  <2>5. CASE owner[CommitLock] # NoTask
    <3>1. owner' = owner /\ waiters'[CommitLock] = Append(waiters[CommitLock], t)
      BY <1>0, <1>5, <2>5 DEF RequestCommit, AcquireLock, TypeOK
    <3>2. ASSUME NEW u \in Task, u = t \/ Waits(u, CommitLock)
          PROVE  Waits(u, CommitLock)'
      <4> DEFINE w == waiters[CommitLock]
      <4>1. /\ \A k \in 1..Len(w) : \E j \in 1..Len(Append(w, t)) : Append(w, t)[j] = w[k]
            /\ \E j \in 1..Len(Append(w, t)) : Append(w, t)[j] = t
        BY <2>3, AppendKeeps
      <4> QED BY <3>1, <3>2, <4>1 DEF Waits
    <3> QED BY <2>1, <2>2, <3>1, <3>2 DEF InSlotQueue
  <2> QED BY <2>4, <2>5
<1>6. ASSUME NEW t \in Task, StartPromotion(t)
      PROVE  WaitersQueued'
  BY <1>6 DEF StartPromotion, InSlotQueue, Waits, TypeOK
<1>7. ASSUME NEW t \in Task, OrphanPromotionEnds(t)
      PROVE  WaitersQueued'
  BY <1>7 DEF OrphanPromotionEnds, InSlotQueue, Waits
<1>8. ASSUME NEW t \in Task, CancelQueued(t)
      PROVE  WaitersQueued'
  <2>1. PICK i \in 1..Len(slotWaiters) : /\ slotWaiters[i] = t
                                         /\ slotWaiters' = RemoveAt(slotWaiters, i)
    BY <1>8 DEF CancelQueued
  <2>2. UNCHANGED <<owner, waiters>> /\ pc' = [pc EXCEPT ![t] = "done"]
    BY <1>8 DEF CancelQueued
  <2>3. ASSUME NEW u \in Task, pc'[u] = "queued"
        PROVE  InSlotQueue(u)'
    <3>1. u # t /\ pc[u] = "queued"
      BY <2>2, <2>3 DEF TypeOK
    <3>2. PICK k \in 1..Len(slotWaiters) : slotWaiters[k] = u
      BY <3>1 DEF InSlotQueue
    <3>3. \E j \in 1..Len(RemoveAt(slotWaiters, i)) : RemoveAt(slotWaiters, i)[j] = u
      BY <2>1, <3>1, <3>2, RemoveAtKeeps DEF TypeOK
    <3> QED BY <2>1, <3>3 DEF InSlotQueue
  <2> QED BY <2>2, <2>3 DEF Waits, TypeOK
<1>9. ASSUME NEW t \in Task, CancelLocking(t)
      PROVE  WaitersQueued'
  <2>1. PICK l \in Lock : \E i \in 1..Len(waiters[l]) :
            /\ waiters[l][i] = t
            /\ waiters' = [waiters EXCEPT ![l] = RemoveAt(@, i)]
    BY <1>9 DEF CancelLocking
  <2>2. pc[t] = "locking" /\ owner' = owner /\ ReleasePermit(t)
    BY <1>9 DEF CancelLocking
  <2>3. l # CommitLock
    <3>1. Waits(t, l)
      BY <2>1 DEF Waits
    <3> QED BY <1>0, <2>2, <3>1, WaiterAsks DEF Asks
  <2>4. waiters'[CommitLock] = waiters[CommitLock]
    BY <1>0, <2>1, <2>3 DEF TypeOK
  <2>5. \A u \in Task : pc'[u] = "queued" => InSlotQueue(u)'
    BY <2>2, ReleasePermitKeepsQueue
  <2>6. \A u \in Task : pc'[u] = "committing" => pc[u] = "committing"
    BY <2>2, HeadTailProperties DEF ReleasePermit, TypeOK
  <2> QED BY <2>2, <2>4, <2>5, <2>6 DEF Waits
<1>10. ASSUME NEW t \in Task, CancelCommitting(t)
       PROVE  WaitersQueued'
  <2>1. PICK i \in 1..Len(waiters[CommitLock]) :
            /\ waiters[CommitLock][i] = t
            /\ waiters'[CommitLock] = RemoveAt(waiters[CommitLock], i)
            /\ owner'[CommitLock] = owner[CommitLock]
    BY <1>0, <1>10 DEF CancelCommitting, FileLocks
  <2>2. pc[t] = "committing" /\ ReleasePermit(t)
    BY <1>10 DEF CancelCommitting
  <2>3. \A u \in Task : pc'[u] = "queued" => InSlotQueue(u)'
    BY <2>2, ReleasePermitKeepsQueue
  <2>4. ASSUME NEW u \in Task, pc'[u] = "committing"
        PROVE  owner'[CommitLock] = u \/ Waits(u, CommitLock)'
    <3>1. u # t /\ pc[u] = "committing"
      BY <2>2, <2>4, HeadTailProperties DEF ReleasePermit, TypeOK
    <3>2. waiters[CommitLock] \in Seq(Task)
      BY <1>0 DEF TypeOK
    <3>3. CASE owner[CommitLock] = u
      BY <2>1, <3>3
    <3>4. CASE Waits(u, CommitLock)
      BY <2>1, <3>1, <3>2, <3>4, RemoveAtKeeps DEF Waits
    <3> QED BY <3>1, <3>3, <3>4
  <2> QED BY <2>3, <2>4
<1>11. ASSUME NEW t \in Task, pc[t] \in {"running", "promoting"}, NEW status,
              \/ pc[t] = "running" /\ Leave(t, FileLocks(t), status)
              \/ pc[t] = "promoting" /\ Leave(t, FileLocks(t) \cup {CommitLock}, status)
       PROVE  WaitersQueued'
  BY <1>0, <1>4, <1>11 DEF Leave, FileLocks, LockInv, PromotersSound
<1>12. ASSUME UNCHANGED vars
       PROVE  WaitersQueued'
  BY <1>12 DEF vars, InSlotQueue, Waits
<1> QED
  BY <1>1, <1>2, <1>3, <1>5, <1>6, <1>7, <1>8, <1>9, <1>10, <1>11, <1>12, CancelAssumption
     DEF Next, Step, Cancel, PipelineEnds, PromotionEnds, CancelRunning, CancelPromoting

LEMMA WaitersQueuedHolds == Spec => []WaitersQueued
<1>1. Init => WaitersQueued
  BY DEF Init, WaitersQueued
<1> QED BY <1>1, TypeCorrect, LockInvHolds, WaitersQueuedInvariant, PTL DEF Spec

\* Whoever waits for a lock waits for a task, which has a permit.
LEMMA OwnerHolds ==
    ASSUME TypeOK, LockInv, NEW t \in Task, NEW l \in Lock, Waits(t, l)
    PROVE  owner[l] \in Task /\ pc[owner[l]] # "queued" /\ owner[l] \in WaitsFor(t)
<1>1. waiters[l] # <<>>
  BY EmptySeq DEF Waits
<1>2. owner[l] \in Task
  BY <1>1 DEF LockInv, NoLostWakeup, TypeOK
<1>3. l \in Owns(owner[l])
  BY DEF Owns
<1>4. pc[owner[l]] # "queued"
  BY <1>2, <1>3 DEF LockInv, OwnersSound
<1> QED BY <1>2, <1>4 DEF WaitsFor

\* The scheduler never gets stuck, for any number of tasks, scopes, permits and
\* cancellations: every set of waiting tasks that does not wait for others, nor for
\* a lock left behind by a cancelled acquire loop, has a member that can go on.
THEOREM NeverStuckTheorem == Spec => []NeverStuck
<1>1. ASSUME TypeOK, LockInv, PermitInv, WaitersQueued
      PROVE  NeverStuck
  <2> SUFFICES ASSUME NEW C \in SUBSET Started, C # {},
                      \A t \in C : WaitsFor(t) \subseteq C,
                      \A t \in C : ~ CanGoOn(t)
               PROVE  FALSE
    BY DEF NeverStuck
  <2> DEFINE L == {t \in C : pc[t] # "queued"}
  <2>1. \A t \in C : t \in Task /\ pc[t] \in {"queued", "locking", "committing"}
    BY <1>1 DEF Started, CanGoOn, TypeOK
  <2>2. ASSUME NEW t \in L
        PROVE  \E l \in Lock : Waits(t, l) /\ owner[l] \in L
    <3>1. PICK l \in Lock : Waits(t, l)
      BY <1>1, <2>1 DEF CanGoOn, Blocked, WaitersQueued, Lock
    <3> QED BY <1>1, <2>1, <3>1, OwnerHolds
  <2>3. L = {}
    BY <1>1, <2>1, <2>2, LockInvForbidsCycles
  <2>4. PICK t \in C : pc[t] = "queued" /\ InSlotQueue(t)
    BY <1>1, <2>1, <2>3 DEF WaitersQueued
  <2>5. slotWaiters # <<>>
    BY <2>4, EmptySeq DEF InSlotQueue
  <2>6. Cardinality(Holding) = MaxParallel /\ MaxParallel # 0
    BY <1>1, <2>5, ParallelAssumption, FS_CardinalityType DEF PermitInv, PermitsAccounted
  <2>7. PICK u \in Holding : TRUE
    BY <2>6, FS_EmptySet
  <2>8. u \in C
    BY <2>4, <2>7 DEF WaitsFor, InSlotQueue
  <2> QED BY <2>3, <2>7, <2>8 DEF Holding
<1> QED BY <1>1, TypeCorrect, LockInvHolds, PermitInvHolds, WaitersQueuedHolds, PTL

-------------------------------------------------------------------------------
(* Every step counts.                                                        *)

LEMMA PathsLeft ==
    ASSUME NEW S \in SUBSET Path, NEW W
    PROVE  /\ IsFiniteSet(S \ W)
           /\ Cardinality(S \ W) \in 0..NumPaths
<1>1. IsFiniteSet(Path) /\ Cardinality(Path) = NumPaths
  BY FS_Interval, PathAssumption DEF Path
<1>2. S \ W \in SUBSET Path
  OBVIOUS
<1>3. IsFiniteSet(S \ W) /\ Cardinality(S \ W) <= Cardinality(Path)
  BY <1>1, <1>2, FS_Subset
<1> QED BY <1>1, <1>3, FS_CardinalityType, PathAssumption

\* A task that owns more has less to acquire.
LEMMA OwningMoreLeavesLess ==
    ASSUME NEW S \in SUBSET Path, NEW W, NEW V, W \subseteq V
    PROVE  /\ Cardinality(S \ V) <= Cardinality(S \ W)
           /\ \A p \in (S \cap V) \ W : Cardinality(S \ V) <= Cardinality(S \ W) - 1
<1>1. IsFiniteSet(S \ W) /\ S \ V \in SUBSET (S \ W)
  BY PathsLeft
<1>2. ASSUME NEW p \in (S \cap V) \ W
      PROVE  Cardinality(S \ V) <= Cardinality(S \ W) - 1
  <2>1. /\ IsFiniteSet((S \ W) \ {p})
        /\ Cardinality((S \ W) \ {p}) = Cardinality(S \ W) - 1
    BY <1>1, FS_RemoveElement
  <2>2. S \ V \in SUBSET ((S \ W) \ {p})
    OBVIOUS
  <2> QED BY <2>1, <2>2, FS_Subset
<1> QED BY <1>1, <1>2, FS_Subset

\* The paths a coroutine has still to acquire.
Left(t) == Cardinality(scope[t] \ Owns(t))

\* What Distance is, by the place of the coroutine.
LEMMA DistanceNat ==
    ASSUME TypeOK, NEW t \in Task
    PROVE  Distance(t) \in Nat /\ Left(t) \in Nat /\ Left(t) <= NumPaths
<1>1. Left(t) \in 0..NumPaths
  BY PathsLeft DEF TypeOK, Left
<1>2. pc[t] \in {"new", "queued", "locking", "running", "committing", "promoting", "done"}
  BY DEF TypeOK
<1> QED BY <1>1, <1>2, PathAssumption DEF Distance, Left

LEMMA DistanceLocking ==
    ASSUME TypeOK, NEW t \in Task, pc[t] = "locking"
    PROVE  Distance(t) = IF Blocked(t) THEN 4 + 2 * Left(t) ELSE 5 + 2 * Left(t)
  BY DistanceNat DEF Distance, Left

LEMMA DistanceElse ==
    ASSUME NEW t \in Task
    PROVE  /\ pc[t] = "new" => Distance(t) = 2 * NumPaths + 7
           /\ pc[t] = "queued" => Distance(t) = 2 * NumPaths + 6
           /\ pc[t] = "running" => Distance(t) = 4
           /\ pc[t] = "committing" => Distance(t) = 3
           /\ pc[t] = "promoting" => Distance(t) = 2
           /\ pc[t] = "done" => Distance(t) = IF t \in promoting THEN 1 ELSE 0
  BY DEF Distance

LEMMA DistanceNatPrime ==
    ASSUME TypeOK', NEW t \in Task
    PROVE  Distance(t)' \in Nat /\ Left(t)' \in Nat /\ Left(t)' <= NumPaths
<1>1. Left(t)' \in 0..NumPaths
  BY PathsLeft DEF TypeOK, Left
<1>2. pc'[t] \in {"new", "queued", "locking", "running", "committing", "promoting", "done"}
  BY DEF TypeOK
<1> QED BY <1>1, <1>2, PathAssumption DEF Distance, Left

LEMMA DistanceLockingPrime ==
    ASSUME TypeOK', NEW t \in Task, pc'[t] = "locking"
    PROVE  Distance(t)' = IF Blocked(t)' THEN 4 + 2 * Left(t)' ELSE 5 + 2 * Left(t)'
  BY DistanceNatPrime DEF Distance, Left

LEMMA DistanceElsePrime ==
    ASSUME NEW t \in Task
    PROVE  /\ pc'[t] = "new" => Distance(t)' = 2 * NumPaths + 7
           /\ pc'[t] = "queued" => Distance(t)' = 2 * NumPaths + 6
           /\ pc'[t] = "running" => Distance(t)' = 4
           /\ pc'[t] = "committing" => Distance(t)' = 3
           /\ pc'[t] = "promoting" => Distance(t)' = 2
           /\ pc'[t] = "done" => Distance(t)' = IF t \in promoting' THEN 1 ELSE 0
  BY DEF Distance

\* A coroutine that keeps what it holds, waits on or is served, and goes no further
\* than to its first acquire is not taken back.
Unharmed(u) == 
    /\ scope'[u] = scope[u]
    /\ \/ pc'[u] = pc[u]
       \/ pc[u] = "queued" /\ pc'[u] = "locking"
    /\ u \in promoting' => u \in promoting
    /\ \A l \in Lock : /\ owner[l] = u => owner'[l] = u
                       /\ Waits(u, l) => owner'[l] = u \/ Waits(u, l)'

LEMMA UnharmedKeepsDistance ==
    ASSUME TypeOK, TypeOK', LockInv, NEW u \in Task, Unharmed(u)
    PROVE  Distance(u)' <= Distance(u)
<1>1. /\ Distance(u) \in Nat /\ Left(u) \in Nat /\ Left(u) <= NumPaths
      /\ Distance(u)' \in Nat /\ Left(u)' \in Nat /\ Left(u)' <= NumPaths
      /\ NumPaths \in Nat
  BY DistanceNat, DistanceNatPrime, PathAssumption
<1>2. /\ Left(u)' <= Left(u)
      /\ \A l \in scope[u] \ Owns(u) : l \in Owns(u)' => Left(u)' <= Left(u) - 1
  <2>1. Owns(u) \subseteq Owns(u)' /\ scope[u] \in SUBSET Path /\ scope'[u] = scope[u]
    BY DEF Unharmed, Owns, TypeOK
  <2> QED BY <2>1, OwningMoreLeavesLess DEF Left
<1>3. CASE pc[u] = "locking"
  <2>1. Distance(u) = IF Blocked(u) THEN 4 + 2 * Left(u) ELSE 5 + 2 * Left(u)
    BY <1>3, DistanceLocking
  <2>2. Distance(u)' = IF Blocked(u)' THEN 4 + 2 * Left(u)' ELSE 5 + 2 * Left(u)'
    BY <1>3, DistanceLockingPrime DEF Unharmed
  <2>3. CASE Blocked(u) => Blocked(u)'
    BY <1>1, <1>2, <2>1, <2>2, <2>3
  <2>4. CASE Blocked(u) /\ ~ Blocked(u)'
    <3>1. PICK l \in Lock : Waits(u, l)
      BY <2>4 DEF Blocked
    <3>2. l \in Owns(u)'
      BY <2>4, <3>1 DEF Unharmed, Blocked, Owns, Lock
    <3>3. l \in scope[u] \ Owns(u)
      BY <1>3, <3>1, WaiterAsks DEF Asks, NextPaths
    <3> QED BY <1>1, <1>2, <2>1, <2>2, <2>4, <3>2, <3>3
  <2> QED BY <2>3, <2>4
<1>4. CASE pc[u] = "queued" /\ pc'[u] = "locking"
  <2>1. Distance(u)' <= 5 + 2 * Left(u)'
    BY <1>1, <1>4, DistanceLockingPrime
  <2>2. Distance(u) = 2 * NumPaths + 6
    BY <1>4, DistanceElse
  <2> QED BY <1>1, <2>1, <2>2
<1>5. CASE pc[u] # "locking" /\ pc'[u] = pc[u]
  <2>1. pc[u] \in {"new", "queued", "running", "committing", "promoting", "done"}
    BY <1>5 DEF TypeOK
  <2>2. u \in promoting' => u \in promoting
    BY DEF Unharmed
  <2>3. pc[u] # "done" => Distance(u)' = Distance(u)
    BY <1>5, <2>1, DistanceElse, DistanceElsePrime
  <2>4. pc[u] = "done" => Distance(u)' <= Distance(u)
    BY <1>5, <2>2, DistanceElse, DistanceElsePrime
  <2> QED BY <1>1, <2>3, <2>4
<1> QED BY <1>3, <1>4, <1>5 DEF Unharmed

\* The others when the locks stay as they are.
LEMMA LocksKeptUnharmed ==
    ASSUME UNCHANGED <<owner, waiters>>, NEW u \in Task,
           scope'[u] = scope[u], u \in promoting' => u \in promoting,
           pc'[u] = pc[u] \/ (pc[u] = "queued" /\ pc'[u] = "locking")
    PROVE  Unharmed(u)
  BY DEF Unharmed, Waits

LEMMA AcquireUnharmed ==
    ASSUME TypeOK, NEW t \in Task, NEW k \in Lock, AcquireLock(t, k),
           NEW u \in Task, u # t, scope'[u] = scope[u], pc'[u] = pc[u],
           promoting' = promoting
    PROVE  Unharmed(u)
<1>1. CASE owner[k] = NoTask
  <2>1. /\ waiters' = waiters
        /\ \A l \in Lock : owner[l] = u => owner'[l] = u
    BY <1>1, NoTaskAssumption DEF AcquireLock, TypeOK
  <2> QED BY <2>1 DEF Unharmed, Waits
<1>2. CASE owner[k] # NoTask
  <2>1. /\ owner' = owner
        /\ waiters'[k] = Append(waiters[k], t)
        /\ \A l \in Lock \ {k} : waiters'[l] = waiters[l]
    BY <1>2 DEF AcquireLock, TypeOK
  <2>2. ASSUME NEW i \in 1..Len(waiters[k])
        PROVE  \E j \in 1..Len(Append(waiters[k], t)) : Append(waiters[k], t)[j] = waiters[k][i]
    BY AppendKeeps DEF TypeOK
  <2>3. ASSUME NEW l \in Lock, Waits(u, l)
        PROVE  Waits(u, l)'
    <3>1. CASE l = k
      <4>1. PICK i \in 1..Len(waiters[k]) : waiters[k][i] = u
        BY <2>3, <3>1 DEF Waits
      <4> QED BY <2>1, <2>2, <3>1, <4>1 DEF Waits
    <3>2. CASE l # k
      BY <2>1, <2>3, <3>2 DEF Waits
    <3> QED BY <3>1, <3>2
  <2> QED BY <2>1, <2>3 DEF Unharmed
<1> QED BY <1>1, <1>2

\* The coroutine that ends, its thread or no thread left behind.
LEMMA EndIsNearer ==
    ASSUME TypeOK, TypeOK', NEW t \in Task, pc[t] \notin {"new", "done"}, pc'[t] = "done"
    PROVE  Distance(t)' < Distance(t)
<1>1. Distance(t)' \in {0, 1}
  BY DistanceElsePrime
<1>2. pc[t] \in {"queued", "locking", "running", "committing", "promoting"}
  BY DEF TypeOK
<1>3. Distance(t) > 1
  <2>1. Left(t) \in Nat /\ NumPaths \in Nat
    BY DistanceNat, PathAssumption
  <2> QED BY <1>2, <2>1, DistanceLocking, DistanceElse
<1> QED BY <1>1, <1>3, DistanceNat

\* The end of a coroutine harms nobody.
LEMMA LeaveUnharmed ==
    ASSUME TypeOK, PermitInv, LockInv, CriticalOwnsScope, NEW t \in Task, NEW status,
           \/ pc[t] = "running" /\ Leave(t, FileLocks(t), status)
           \/ pc[t] = "promoting" /\ Leave(t, FileLocks(t) \cup {CommitLock}, status),
           scope' = scope, promoting' \subseteq promoting,
           NEW u \in Task, u # t
    PROVE  Unharmed(u)
<1>1. PICK R : ReleaseLocks(R) /\ \A l \in Lock : l \in R => owner[l] = t
  <2>1. \A l \in scope[t] : owner[l] = t
    BY DEF CriticalOwnsScope, Critical, Owns
  <2>2. pc[t] = "promoting" => owner[CommitLock] = t
    BY DEF LockInv, PromotersSound
  <2> QED BY <2>1, <2>2 DEF Leave, FileLocks
<1>2. pc'[u] = pc[u] \/ (pc[u] = "queued" /\ pc'[u] = "locking")
  <2>1. ReleasePermit(t) /\ pc[t] # "queued"
    BY DEF Leave
  <2> QED BY <2>1, PermitMovesOnly
<1>3. \A l \in Lock : /\ owner[l] = u => owner'[l] = u
                      /\ Waits(u, l) => owner'[l] = u \/ Waits(u, l)'
  BY <1>1, ReleaseLocksServesQueue
<1> QED BY <1>2, <1>3 DEF Unharmed

LEMMA StepCounts ==
    TypeOK /\ TypeOK' /\ CriticalOwnsScope /\ PermitInv /\ LockInv /\ [Next]_vars
        => [/\ \A t \in Task : Distance(t)' <= Distance(t)
            /\ \E t \in Task : Distance(t)' < Distance(t)]_vars
<1> SUFFICES ASSUME TypeOK, TypeOK', CriticalOwnsScope, PermitInv, LockInv, Next
             PROVE  /\ \A t \in Task : Distance(t)' <= Distance(t)
                    /\ \E t \in Task : Distance(t)' < Distance(t)
  OBVIOUS
<1> SUFFICES \E t \in Task : /\ Distance(t)' < Distance(t)
                            /\ \A u \in Task \ {t} : Unharmed(u)
  <2>1. ASSUME NEW t \in Task, Distance(t)' < Distance(t),
               NEW u \in Task, u # t => Unharmed(u)
        PROVE  Distance(u)' <= Distance(u)
    <3>1. CASE u = t
      BY <2>1, <3>1, DistanceNat, DistanceNatPrime
    <3>2. CASE u # t
      BY <2>1, <3>2, UnharmedKeepsDistance
    <3> QED BY <3>1, <3>2
  <2> QED BY <2>1
<1> DEFINE Counts(t) == /\ Distance(t)' < Distance(t)
                        /\ \A u \in Task \ {t} : Unharmed(u)
<1>1. ASSUME NEW t \in Task, NEW S \in SUBSET Path, Submit(t, S)
      PROVE  Counts(t)
  <2>1. /\ pc[t] = "new" /\ pc'[t] \in {"locking", "queued"} 
        /\ scope'[t] = S
        /\ \A u \in Task \ {t} : pc'[u] = pc[u] /\ scope'[u] = scope[u]
        /\ UNCHANGED <<owner, waiters, promoting>>
    BY <1>1 DEF Submit, TypeOK
  <2>2. Distance(t) = 2 * NumPaths + 7
    BY <2>1, DistanceElse
  <2>3. Left(t)' \in Nat /\ Left(t)' <= NumPaths /\ NumPaths \in Nat
    BY DistanceNatPrime, PathAssumption
  <2>4. Distance(t)' < Distance(t)
    <3>1. CASE pc'[t] = "queued"
      BY <2>2, <2>3, <3>1, DistanceElsePrime
    <3>2. CASE pc'[t] = "locking"
      BY <2>2, <2>3, <3>2, DistanceLockingPrime
    <3> QED BY <2>1, <3>1, <3>2
  <2>5. ASSUME NEW u \in Task \ {t}
        PROVE  Unharmed(u)
    BY <2>1, LocksKeptUnharmed
  <2> QED BY <2>4, <2>5
<1>2. ASSUME NEW t \in Task, AcquireNext(t)
      PROVE  Counts(t)
  <2>1. PICK p \in NextPaths(t) : AcquireLock(t, p)
    BY <1>2 DEF AcquireNext
  <2>2. /\ p \in Lock /\ p \in scope[t] \ Owns(t)
        /\ pc[t] = "locking" /\ ~ Blocked(t) /\ UNCHANGED <<pc, scope, promoting>>
    BY <1>2 DEF AcquireNext, NextPaths, Lock, TypeOK
  <2>3. /\ Distance(t) = 5 + 2 * Left(t)
        /\ Distance(t)' = IF Blocked(t)' THEN 4 + 2 * Left(t)' ELSE 5 + 2 * Left(t)'
        /\ Left(t) \in Nat /\ Left(t)' \in Nat
    BY <2>2, DistanceLocking, DistanceLockingPrime, DistanceNat, DistanceNatPrime
  <2>4. ASSUME owner[p] = NoTask
        PROVE  Distance(t)' < Distance(t)
    <3>1. Owns(t) \subseteq Owns(t)' /\ p \in Owns(t)'
      BY <2>1, <2>2, <2>4, NoTaskAssumption DEF AcquireLock, Owns, TypeOK
    <3>2. Left(t)' <= Left(t) - 1
      BY <2>2, <3>1, OwningMoreLeavesLess DEF Left, TypeOK
    <3> QED BY <2>3, <3>2
  <2>5. ASSUME owner[p] # NoTask
        PROVE  Distance(t)' < Distance(t)
    <3>1. owner' = owner /\ waiters'[p] = Append(waiters[p], t)
      BY <2>1, <2>2, <2>5 DEF AcquireLock, TypeOK
    <3>2. waiters[p] \in Seq(Task)
      BY <2>2 DEF TypeOK
    <3>3. \E j \in 1..Len(Append(waiters[p], t)) : Append(waiters[p], t)[j] = t
      BY <3>2, AppendKeeps
    <3>4. Waits(t, p)'
      BY <3>1, <3>3 DEF Waits
    <3>5. Blocked(t)'
      BY <2>2, <3>4 DEF Blocked, Lock
    <3>6. Left(t)' = Left(t)
      BY <2>2, <3>1 DEF Left, Owns
    <3> QED BY <2>3, <3>5, <3>6
  <2>6. ASSUME NEW u \in Task \ {t}
        PROVE  Unharmed(u)
    BY <2>1, <2>2, AcquireUnharmed
  <2> QED BY <2>4, <2>5, <2>6
<1>3. ASSUME NEW t \in Task, StartPipeline(t)
      PROVE  Counts(t)
  <2>1. /\ pc[t] = "locking" /\ pc'[t] = "running"
        /\ \A u \in Task \ {t} : pc'[u] = pc[u]
        /\ UNCHANGED <<scope, owner, waiters, promoting>>
    BY <1>3 DEF StartPipeline, TypeOK
  <2>2. ~ Blocked(t)
    BY <1>3, WaiterAsks DEF StartPipeline, Blocked, Asks, NextPaths
  <2>3. Distance(t) = 5 + 2 * Left(t) /\ Left(t) \in Nat /\ Distance(t)' = 4
    BY <2>1, <2>2, DistanceLocking, DistanceNat, DistanceElsePrime
  <2>4. ASSUME NEW u \in Task \ {t}
        PROVE  Unharmed(u)
    BY <2>1, LocksKeptUnharmed
  <2> QED BY <2>3, <2>4
<1>4. ASSUME NEW t \in Task, NEW status, scope' = scope, promoting' \subseteq promoting,
             \/ pc[t] = "running" /\ Leave(t, FileLocks(t), status)
             \/ pc[t] = "promoting" /\ Leave(t, FileLocks(t) \cup {CommitLock}, status)
      PROVE  Counts(t)
  <2>1. pc'[t] = "done"
    BY <1>4, PermitMovesOnly DEF Leave
  <2>2. Distance(t)' < Distance(t)
    BY <1>4, <2>1, EndIsNearer
  <2>3. ASSUME NEW u \in Task \ {t}
        PROVE  Unharmed(u)
    BY <1>4, LeaveUnharmed
  <2> QED BY <2>2, <2>3
<1>5. ASSUME NEW t \in Task, RequestCommit(t)
      PROVE  Counts(t)
  <2>1. /\ pc[t] = "running" /\ pc'[t] = "committing" /\ AcquireLock(t, CommitLock)
        /\ \A u \in Task \ {t} : pc'[u] = pc[u]
        /\ UNCHANGED <<scope, promoting>>
    BY <1>5 DEF RequestCommit, TypeOK
  <2>2. Distance(t)' < Distance(t)
    BY <2>1, DistanceElse, DistanceElsePrime
  <2>3. ASSUME NEW u \in Task \ {t}
        PROVE  Unharmed(u)
    BY <2>1, AcquireUnharmed DEF Lock
  <2> QED BY <2>2, <2>3
<1>6. ASSUME NEW t \in Task, StartPromotion(t)
      PROVE  Counts(t)
  <2>1. /\ pc[t] = "committing" /\ pc'[t] = "promoting"
        /\ \A u \in Task \ {t} : pc'[u] = pc[u]
        /\ \A u \in Task \ {t} : u \in promoting' => u \in promoting
        /\ UNCHANGED <<scope, owner, waiters>>
    BY <1>6 DEF StartPromotion, TypeOK
  <2>2. Distance(t)' < Distance(t)
    BY <2>1, DistanceElse, DistanceElsePrime
  <2>3. ASSUME NEW u \in Task \ {t}
        PROVE  Unharmed(u)
    BY <2>1, LocksKeptUnharmed
  <2> QED BY <2>2, <2>3
<1>7. ASSUME NEW t \in Task, OrphanPromotionEnds(t)
      PROVE  Counts(t)
  <2>1. /\ pc[t] = "done" /\ t \in promoting /\ t \notin promoting'
        /\ \A u \in promoting' : u \in promoting
        /\ UNCHANGED <<pc, scope, owner, waiters>>
    BY <1>7 DEF OrphanPromotionEnds
  <2>2. Distance(t)' < Distance(t)
    BY <2>1, DistanceElse, DistanceElsePrime
  <2>3. ASSUME NEW u \in Task \ {t}
        PROVE  Unharmed(u)
    BY <2>1, LocksKeptUnharmed
  <2> QED BY <2>2, <2>3
<1>8. ASSUME NEW t \in Task, CancelQueued(t)
      PROVE  Counts(t)
  <2>1. /\ pc[t] = "queued" /\ pc'[t] = "done"
        /\ \A u \in Task \ {t} : pc'[u] = pc[u]
        /\ UNCHANGED <<scope, owner, waiters, promoting>>
    BY <1>8 DEF CancelQueued, TypeOK
  <2>2. Distance(t)' < Distance(t)
    BY <2>1, EndIsNearer
  <2>3. ASSUME NEW u \in Task \ {t}
        PROVE  Unharmed(u)
    BY <2>1, LocksKeptUnharmed
  <2> QED BY <2>2, <2>3
<1>9. ASSUME NEW t \in Task, CancelLocking(t)
      PROVE  Counts(t)
  <2>1. PICK l \in Lock : \E i \in 1..Len(waiters[l]) :
            /\ waiters[l][i] = t
            /\ waiters' = [waiters EXCEPT ![l] = RemoveAt(@, i)]
    BY <1>9 DEF CancelLocking
  <2>2. PICK i \in 1..Len(waiters[l]) :
            /\ waiters[l][i] = t
            /\ waiters' = [waiters EXCEPT ![l] = RemoveAt(@, i)]
    BY <2>1
  <2>3. /\ pc[t] = "locking" /\ UNCHANGED <<scope, owner, promoting>>
        /\ pc'[t] = "done"
        /\ \A u \in Task \ {t} : \/ pc'[u] = pc[u]
                                 \/ pc[u] = "queued" /\ pc'[u] = "locking"
    BY <1>9, PermitMovesOnly DEF CancelLocking
  <2>4. ASSUME NEW u \in Task \ {t}, NEW m \in Lock, Waits(u, m)
        PROVE  Waits(u, m)'
    <3>1. CASE m # l
      BY <2>2, <2>4, <3>1 DEF Waits, TypeOK
    <3>2. CASE m = l
      <4>1. waiters[l] \in Seq(Task) /\ waiters'[l] = RemoveAt(waiters[l], i)
        BY <2>2 DEF TypeOK
      <4>2. PICK k \in 1..Len(waiters[l]) : waiters[l][k] = u
        BY <2>4, <3>2 DEF Waits
      <4>3. \E j \in 1..Len(RemoveAt(waiters[l], i)) : RemoveAt(waiters[l], i)[j] = u
        BY <2>2, <4>1, <4>2, RemoveAtKeeps
      <4> QED BY <3>2, <4>1, <4>3 DEF Waits
    <3> QED BY <3>1, <3>2
  <2>5. Distance(t)' < Distance(t)
    BY <2>3, EndIsNearer
  <2>6. ASSUME NEW u \in Task \ {t}
        PROVE  Unharmed(u)
    BY <2>3, <2>4 DEF Unharmed
  <2> QED BY <2>5, <2>6
<1>10. ASSUME NEW t \in Task, CancelCommitting(t)
       PROVE  Counts(t)
  <2>1. PICK i \in 1..Len(waiters[CommitLock]) :
            /\ waiters[CommitLock][i] = t
            /\ owner' = [l \in Lock |-> IF l \notin FileLocks(t) THEN owner[l]
                                        ELSE IF waiters[l] = <<>> THEN NoTask
                                        ELSE Head(waiters[l])]
            /\ waiters' = [l \in Lock |->
                              IF l = CommitLock THEN RemoveAt(waiters[l], i)
                              ELSE IF l \in FileLocks(t) /\ waiters[l] # <<>>
                              THEN Tail(waiters[l]) ELSE waiters[l]]
    BY <1>10 DEF CancelCommitting
  <2>2. /\ pc[t] = "committing" /\ UNCHANGED <<scope, promoting>>
        /\ pc'[t] = "done"
        /\ \A u \in Task \ {t} : \/ pc'[u] = pc[u]
                                 \/ pc[u] = "queued" /\ pc'[u] = "locking"
    BY <1>10, PermitMovesOnly DEF CancelCommitting
  <2>3. /\ CommitLock \in Lock /\ CommitLock \notin FileLocks(t)
        /\ \A l \in FileLocks(t) : owner[l] = t
    BY <2>2, CommitLockAssumption DEF Lock, FileLocks, CriticalOwnsScope, Critical, Owns, TypeOK
  <2>4. ASSUME NEW u \in Task \ {t}, NEW l \in Lock
        PROVE  /\ owner[l] = u => owner'[l] = u
               /\ Waits(u, l) => owner'[l] = u \/ Waits(u, l)'
    <3>1. owner[l] = u => owner'[l] = u
      BY <2>1, <2>3
    <3>2. waiters[l] \in Seq(Task)
      BY DEF TypeOK
    <3>3. ASSUME Waits(u, l)
          PROVE  owner'[l] = u \/ Waits(u, l)'
      <4>1. PICK k \in 1..Len(waiters[l]) : waiters[l][k] = u
        BY <3>3 DEF Waits
      <4>2. waiters[l] # <<>>
        BY <4>1, EmptySeq
      <4>3. CASE l = CommitLock
        <5>1. \E j \in 1..Len(RemoveAt(waiters[l], i)) : RemoveAt(waiters[l], i)[j] = u
          <6>1. i \in 1..Len(waiters[l]) /\ waiters[l][i] = t
            BY <2>1, <4>3
          <6> QED BY <3>2, <4>1, <6>1, RemoveAtKeeps
        <5>2. waiters'[l] = RemoveAt(waiters[l], i)
          BY <2>1, <4>3
        <5> QED BY <5>1, <5>2 DEF Waits
      <4>4. CASE l # CommitLock /\ l \in FileLocks(t)
        <5>1. owner'[l] = Head(waiters[l]) /\ waiters'[l] = Tail(waiters[l])
          BY <2>1, <4>2, <4>4
        <5> QED BY <3>2, <4>1, <5>1, TailKeeps DEF Waits
      <4>5. CASE l # CommitLock /\ l \notin FileLocks(t)
        BY <2>1, <3>3, <4>5 DEF Waits
      <4> QED BY <4>3, <4>4, <4>5
    <3> QED BY <3>1, <3>3
  <2>5. Distance(t)' < Distance(t)
    BY <2>2, EndIsNearer
  <2>6. ASSUME NEW u \in Task \ {t}
        PROVE  Unharmed(u)
    BY <2>2, <2>4 DEF Unharmed
  <2> QED BY <2>5, <2>6
<1> HIDE DEF Counts
<1>11. \E t \in Task : Counts(t)
  BY <1>1, <1>2, <1>3, <1>4, <1>5, <1>6, <1>7, <1>8, <1>9, <1>10, CancelAssumption
     DEF Next, Step, Cancel, PipelineEnds, PromotionEnds, CancelRunning, CancelPromoting
<1> QED BY <1>11 DEF Counts

\* The scheduler makes at most 2 * NumPaths + 7 steps for a task, whatever the tasks
\* share, wait for, and lose to cancellation: no step takes any task back.
THEOREM EveryStepCountsTheorem == Spec => EveryStepCounts
<1>1. Spec => [][TypeOK /\ TypeOK' /\ CriticalOwnsScope /\ PermitInv /\ LockInv /\ [Next]_vars]_vars
  BY TypeCorrect, CriticalOwnsScopeHolds, PermitInvHolds, LockInvHolds, PTL DEF Spec
<1> QED BY <1>1, StepCounts, PTL DEF EveryStepCounts

\* A lock that coroutines queue for always has an owner: no hand-over is lost.
THEOREM NoLostWakeupTheorem == Spec => []NoLostWakeup
<1>1. LockInv => NoLostWakeup
  BY DEF LockInv
<1> QED BY <1>1, LockInvHolds, PTL

\* merge_queue.py:58-75: the finally block releases everything a task owns, so that
\* the only locks that survive a task are those of an acquire loop that was cancelled
\* half-way; and a promotion runs under the commit lock unless its task was cancelled.
THEOREM OnlyCancellationLeaksTheorem == Spec => []OnlyCancellationLeaks
<1>1. LockInv => LocksOutliveOnlyCancelledAcquire
  BY DEF LockInv
<1>2. TypeOK /\ LockInv => PromotionHoldsCommitLock
  BY DEF TypeOK, LockInv, PromotersSound, PromotionHoldsCommitLock
<1>3. TypeOK /\ LockInv => OnlyCancellationLeaks
  BY <1>1, <1>2 DEF OnlyCancellationLeaks
<1> QED BY <1>3, TypeCorrect, LockInvHolds, PTL

-------------------------------------------------------------------------------
(* MergeQueue implements SerializedScopes, provided no file has two          *)
(* spellings.                                                                *)

phase == [t \in Task |-> phaseOf(t)]
files == [t \in Task |-> Files(t)]

\* What a coroutine's place means to the caller of run().
PhaseAt(place) == CASE place = "new" -> "absent"
                    [] place \in {"queued", "locking"} -> "waiting"
                    [] place \in {"running", "committing", "promoting"} -> "running"
                    [] OTHER -> "done"

LEMMA PhaseIsPlace == \A t \in Task : phaseOf(t) = PhaseAt(pc[t])
  BY DEF phaseOf, PhaseAt, Critical

LEMMA PhaseIsPlacePrime == \A t \in Task : phaseOf(t)' = PhaseAt(pc'[t])
  BY DEF phaseOf, PhaseAt, Critical

LEMMA PhaseStutters ==
    ASSUME \A t \in Task : PhaseAt(pc'[t]) = PhaseAt(pc[t]), scope' = scope
    PROVE  UNCHANGED Promise!vars
<1>1. phase' = phase
  BY PhaseIsPlace, PhaseIsPlacePrime DEF phase
<1>2. files' = files
  BY DEF files, Files
<1> QED BY <1>1, <1>2 DEF Promise!vars, phase, files

\* One task changes its phase; the others may move, but not to another phase.
LEMMA PhaseMoves ==
    ASSUME NEW t \in Task, NEW place, pc'[t] = place,
           \A u \in Task \ {t} : PhaseAt(pc'[u]) = PhaseAt(pc[u])
    PROVE  phase' = [phase EXCEPT ![t] = PhaseAt(place)]
<1>1. \A u \in Task \ {t} : phaseOf(u)' = phaseOf(u)
  BY PhaseIsPlace, PhaseIsPlacePrime
<1>2. phaseOf(t)' = PhaseAt(place)
  BY PhaseIsPlacePrime
<1> QED BY <1>1, <1>2 DEF phase

\* A task that ends maps to End.
LEMMA LeaveMapsToEnd ==
    ASSUME TypeOK, PermitInv, NEW t \in Task, pc[t] # "queued",
           PhaseAt(pc[t]) \in {"waiting", "running"}, ReleasePermit(t), scope' = scope
    PROVE  Promise!End(t)
<1>1. /\ pc'[t] = "done"
      /\ \A u \in Task \ {t} : PhaseAt(pc'[u]) = PhaseAt(pc[u])
  <2>1. CASE slotWaiters = <<>>
    BY <2>1 DEF ReleasePermit, TypeOK
  <2>2. CASE slotWaiters # <<>>
    <3>1. /\ Head(slotWaiters) = slotWaiters[1]
          /\ Head(slotWaiters) \in Task
          /\ 1 \in 1..Len(slotWaiters)
      BY <2>2, HeadTailProperties, EmptySeq, LenProperties DEF TypeOK
    <3>2. pc[Head(slotWaiters)] = "queued"
      BY <3>1 DEF PermitInv, SlotQueueSound
    <3> QED BY <2>2, <3>1, <3>2 DEF ReleasePermit, TypeOK, PhaseAt
  <2> QED BY <2>1, <2>2
<1>2. phase' = [phase EXCEPT ![t] = "done"]
  BY <1>1, PhaseMoves DEF PhaseAt
<1>3. phase[t] \in {"waiting", "running"}
  BY PhaseIsPlace DEF phase
<1>4. files' = files
  BY DEF files, Files
<1> QED BY <1>2, <1>3, <1>4 DEF Promise!End, phase, files

LEMMA StepRefines ==
    ASSUME \A p, q \in Path : FileOf[p] = FileOf[q] => p = q,
           TypeOK, PermitInv, CriticalOwnsScope, [Next]_vars
    PROVE  [Promise!Next]_(Promise!vars)
<1>1. ASSUME NEW t \in Task, NEW S \in SUBSET Path, Submit(t, S)
      PROVE  Promise!Next
  <2>1. pc[t] = "new" /\ pc'[t] \in {"locking", "queued"} /\ scope' = [scope EXCEPT ![t] = S]
    BY <1>1 DEF Submit, TypeOK
  <2>2. \A u \in Task \ {t} : pc'[u] = pc[u]
    BY <1>1 DEF Submit, TypeOK
  <2>3. phase' = [phase EXCEPT ![t] = "waiting"]
    BY <2>1, <2>2, PhaseMoves DEF PhaseAt
  <2>4. phase[t] = "absent"
    BY <2>1, PhaseIsPlace DEF phase, PhaseAt
  <2>5. files' = [files EXCEPT ![t] = {FileOf[p] : p \in S}]
    BY <2>1 DEF files, Files, TypeOK
  <2>6. {FileOf[p] : p \in S} \in SUBSET File
    BY DEF File
  <2>7. Promise!Submit(t)
    BY <2>3, <2>4, <2>5, <2>6 DEF Promise!Submit, phase, files
  <2> QED BY <2>7 DEF Promise!Next
<1>2. ASSUME NEW t \in Task, AcquireNext(t)
      PROVE  UNCHANGED Promise!vars
  BY <1>2, PhaseStutters DEF AcquireNext
<1>3. ASSUME NEW t \in Task, StartPipeline(t)
      PROVE  Promise!Next
  <2>1. /\ pc[t] = "locking" /\ pc' = [pc EXCEPT ![t] = "running"]
        /\ scope[t] \subseteq Owns(t) /\ scope' = scope
    BY <1>3 DEF StartPipeline
  <2>2. phase[t] = "waiting"
    BY <2>1, PhaseIsPlace DEF phase, PhaseAt
  <2>3. phase' = [phase EXCEPT ![t] = "running"]
    BY <2>1, PhaseMoves DEF PhaseAt, TypeOK
  <2>4. files' = files
    BY <2>1 DEF files, Files
  <2>5. Promise!Running = Critical
    <3>1. \A u \in Task : phase[u] = "running" <=> u \in Critical
      BY PhaseIsPlace DEF phase, PhaseAt, Critical, TypeOK
    <3>2. Promise!Running = {u \in Task : phase[u] = "running"}
      BY DEF Promise!Running, phase
    <3> QED BY <3>1, <3>2 DEF Critical
  <2>6. \A u \in Critical : files[u] \cap files[t] = {}
    <3> SUFFICES ASSUME NEW u \in Critical, NEW f \in Files(u) \cap Files(t)
                 PROVE  FALSE
      BY DEF files, Critical
    <3>1. u \in Task /\ u # t
      BY <2>1 DEF Critical
    <3>2. PICK p \in scope[u] : f = FileOf[p]
      BY DEF Files
    <3>3. PICK q \in scope[t] : f = FileOf[q]
      BY DEF Files
    <3>4. p = q
      BY <3>1, <3>2, <3>3 DEF TypeOK
    <3>5. owner[p] = u /\ owner[q] = t
      BY <2>1 DEF CriticalOwnsScope, Owns
    <3> QED BY <3>1, <3>4, <3>5
  <2>7. Cardinality(Critical) < MaxParallel
    <3>1. IsFiniteSet(Holding) /\ permits + Cardinality(Holding) = MaxParallel
      BY DEF PermitInv, PermitsAccounted
    <3>2. t \in Holding /\ Critical \subseteq Holding \ {t}
      BY <2>1 DEF Holding, Critical
    <3>3. IsFiniteSet(Holding \ {t}) /\ Cardinality(Holding \ {t}) = Cardinality(Holding) - 1
      BY <3>1, <3>2, FS_RemoveElement
    <3>4. Cardinality(Critical) <= Cardinality(Holding \ {t})
      BY <3>2, <3>3, FS_Subset
    <3>5. Cardinality(Holding) \in Nat /\ Cardinality(Critical) \in Nat /\ permits \in Nat
      BY <3>1, <3>2, <3>3, FS_Subset, FS_CardinalityType DEF TypeOK
    <3> QED BY <3>1, <3>3, <3>4, <3>5, ParallelAssumption
  <2>8. Promise!Cardinality(Critical) = Cardinality(Critical)
    BY DEF Promise!Cardinality, Cardinality
  <2>9. Promise!Begin(t)
    BY <2>2, <2>3, <2>4, <2>5, <2>6, <2>7, <2>8 DEF Promise!Begin, phase, files
  <2> QED BY <2>9 DEF Promise!Next
<1>4. ASSUME NEW t \in Task, NEW status \in {"ok", "failed"}, PipelineEnds(t, status)
      PROVE  Promise!Next
  <2>1. Promise!End(t)
    BY <1>4, LeaveMapsToEnd DEF PipelineEnds, Leave, PhaseAt
  <2> QED BY <2>1 DEF Promise!Next
<1>5. ASSUME NEW t \in Task, RequestCommit(t)
      PROVE  UNCHANGED Promise!vars
  BY <1>5, PhaseStutters DEF RequestCommit, PhaseAt, TypeOK
<1>6. ASSUME NEW t \in Task, StartPromotion(t)
      PROVE  UNCHANGED Promise!vars
  BY <1>6, PhaseStutters DEF StartPromotion, PhaseAt, TypeOK
<1>7. ASSUME NEW t \in Task, NEW status \in {"ok", "failed"}, PromotionEnds(t, status)
      PROVE  Promise!Next
  <2>1. Promise!End(t)
    BY <1>7, LeaveMapsToEnd DEF PromotionEnds, Leave, PhaseAt
  <2> QED BY <2>1 DEF Promise!Next
<1>8. ASSUME NEW t \in Task, OrphanPromotionEnds(t)
      PROVE  UNCHANGED Promise!vars
  BY <1>8, PhaseStutters DEF OrphanPromotionEnds
<1>9. ASSUME NEW t \in Task, CancelQueued(t)
      PROVE  Promise!Next
  <2>1. pc[t] = "queued" /\ pc' = [pc EXCEPT ![t] = "done"] /\ scope' = scope
    BY <1>9 DEF CancelQueued
  <2>2. phase' = [phase EXCEPT ![t] = "done"]
    BY <2>1, PhaseMoves DEF PhaseAt, TypeOK
  <2>3. phase[t] = "waiting" /\ files' = files
    BY <2>1, PhaseIsPlace DEF phase, files, Files, PhaseAt
  <2>4. Promise!End(t)
    BY <2>2, <2>3 DEF Promise!End, phase, files
  <2> QED BY <2>4 DEF Promise!Next
<1>10. ASSUME NEW t \in Task, CancelLocking(t)
       PROVE  Promise!Next
  <2>1. Promise!End(t)
    BY <1>10, LeaveMapsToEnd DEF CancelLocking, PhaseAt
  <2> QED BY <2>1 DEF Promise!Next
<1>11. ASSUME NEW t \in Task, CancelRunning(t)
       PROVE  Promise!Next
  <2>1. Promise!End(t)
    BY <1>11, LeaveMapsToEnd DEF CancelRunning, Leave, PhaseAt
  <2> QED BY <2>1 DEF Promise!Next
<1>12. ASSUME NEW t \in Task, CancelCommitting(t)
       PROVE  Promise!Next
  <2>1. Promise!End(t)
    BY <1>12, LeaveMapsToEnd DEF CancelCommitting, PhaseAt
  <2> QED BY <2>1 DEF Promise!Next
<1>13. ASSUME NEW t \in Task, CancelPromoting(t)
       PROVE  Promise!Next
  <2>1. Promise!End(t)
    BY <1>13, LeaveMapsToEnd DEF CancelPromoting, Leave, PhaseAt
  <2> QED BY <2>1 DEF Promise!Next
<1>14. ASSUME UNCHANGED vars
       PROVE  UNCHANGED Promise!vars
  BY <1>14, PhaseStutters DEF vars
<1> QED
  BY <1>1, <1>2, <1>3, <1>4, <1>5, <1>6, <1>7, <1>8, <1>9, <1>10, <1>11, <1>12,
     <1>13, <1>14, CancelAssumption DEF Next, Step, Cancel

\* The scheduler implements the promise of its class: permits and locks show
\* the caller a queue that runs at most MaxParallel tasks, no two of them
\* authorized to write the same file.
THEOREM Refinement ==
    ASSUME \A p, q \in Path : FileOf[p] = FileOf[q] => p = q
    PROVE  Spec => ImplementsSerializedScopes
<1>1. Init => Promise!Init
  <2> SUFFICES ASSUME Init PROVE Promise!Init
    OBVIOUS
  <2>1. phase = [t \in Task |-> "absent"]
    BY PhaseIsPlace DEF Init, phase, PhaseAt
  <2>2. files = [t \in Task |-> {}]
    BY DEF Init, files, Files
  <2> QED BY <2>1, <2>2 DEF Promise!Init, phase, files
<1>2. TypeOK /\ PermitInv /\ CriticalOwnsScope /\ [Next]_vars 
        => [Promise!Next]_(Promise!vars)
  BY StepRefines
<1>3. Spec => []CriticalOwnsScope
  BY CriticalOwnsScopeHolds
<1> QED 
  BY <1>1, <1>2, <1>3, TypeCorrect, PermitInvHolds, PTL 
     DEF Spec, ImplementsSerializedScopes, Promise!Spec
===============================================================================
