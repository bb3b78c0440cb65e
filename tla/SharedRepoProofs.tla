--------------------------- MODULE SharedRepoProofs ---------------------------
(*****************************************************************************)
(* Theorems about SharedRepo.  Its steps are steps of MergeQueue or leave    *)
(* the scheduler alone, so what is proved of MergeQueue holds here, too.     *)
(*****************************************************************************)
EXTENDS SharedRepo, MergeQueueProofs

LEMMA QueueStep == [SharedNext]_sharedVars => [Next]_vars
<1> SUFFICES ASSUME [SharedNext]_sharedVars PROVE [Next]_vars
  OBVIOUS
<1>1. ASSUME NEW t \in Task, Schedule(t) PROVE Next
  <2>1. Scope[t] \in SUBSET Path
    BY ScopeAssumption
  <2> QED BY <1>1, <2>1 DEF Schedule, Next, Step
<1>2. ASSUME NEW t \in Task, PipelineStep(t) PROVE [Next]_vars
  <2>1. CASE Succeed(t)
    BY <2>1 DEF Succeed, Next, Step
  <2>2. CASE Fail(t)
    BY <2>2 DEF Fail, Next, Step
  <2>3. CASE ~Succeed(t) /\ ~Fail(t)
    BY <1>2, <2>3 DEF PipelineStep, Replay, Snapshot, Apply, Verify, VerifyFails,
                      ReversePatch, Reset, Deliver, queue, vars
  <2> QED BY <2>1, <2>2, <2>3
<1>3. ASSUME NEW t \in Task, PromotionStep(t) PROVE [Next]_vars
  <2>1. CASE AskForCommit(t)
    BY <2>1 DEF AskForCommit, Next, Step
  <2>2. CASE StartAdding(t)
    BY <2>2 DEF StartAdding, Next, Step
  <2>3. CASE Promoted(t)
    BY <2>3 DEF Promoted, Next, Step
  <2>4. CASE Add(t) \/ Commit(t) \/ Resolve(t)
    BY <2>4 DEF Add, Commit, Resolve, queue, vars
  <2> QED BY <1>3, <2>1, <2>2, <2>3, <2>4 DEF PromotionStep
<1>4. ASSUME UNCHANGED sharedVars PROVE UNCHANGED vars
  BY <1>4 DEF sharedVars, queue, vars
<1> QED BY <1>1, <1>2, <1>3, <1>4 DEF SharedNext

\* The repository does not change the scheduler: every behaviour of SharedRepo
\* is one of MergeQueue (in which no run() is cancelled).
THEOREM SchedulerUnchanged == SharedSpec => Spec
<1>1. SharedInit => Init
  BY DEF SharedInit
<1> QED BY <1>1, QueueStep, PTL DEF SharedSpec, Spec

-------------------------------------------------------------------------------
(* Types.                                                                    *)

LEMMA RepoTypeInvariant == RepoTypeOK /\ [SharedNext]_sharedVars => RepoTypeOK'
<1> SUFFICES ASSUME RepoTypeOK, [SharedNext]_sharedVars PROVE RepoTypeOK'
  OBVIOUS
<1> USE DEF RepoTypeOK
<1>1. ASSUME NEW t \in Task, Schedule(t) PROVE RepoTypeOK'
  BY <1>1 DEF Schedule, repo
<1>2. ASSUME NEW t \in Task, Replay(t) PROVE RepoTypeOK'
  BY <1>2, KindsAssumption DEF Replay, Goto
<1>3. ASSUME NEW t \in Task, Snapshot(t) PROVE RepoTypeOK'
  BY <1>3 DEF Snapshot, Goto, repo
<1>4. ASSUME NEW t \in Task, Apply(t) PROVE RepoTypeOK'
  BY <1>4 DEF Apply, Goto, SetWorkspace, Workspace, InRepo
<1>5. ASSUME NEW t \in Task, Verify(t) PROVE RepoTypeOK'
  BY <1>5 DEF Verify, Goto, repo
<1>6. ASSUME NEW t \in Task, VerifyFails(t) PROVE RepoTypeOK'
  BY <1>6 DEF VerifyFails, Goto, repo
<1>7. ASSUME NEW t \in Task, ReversePatch(t) PROVE RepoTypeOK'
  BY <1>7 DEF ReversePatch, Goto, SetWorkspace, Workspace, InRepo
<1>8. ASSUME NEW t \in Task, Reset(t) PROVE RepoTypeOK'
  BY <1>8 DEF Reset, Goto, Critical
<1>9. ASSUME NEW t \in Task, Deliver(t) PROVE RepoTypeOK'
  BY <1>9 DEF Deliver, Goto, SetWorkspace, Workspace, InRepo
<1>10. ASSUME NEW t \in Task, Succeed(t) \/ Fail(t) \/ AskForCommit(t) \/ Promoted(t)
       PROVE  RepoTypeOK'
  BY <1>10 DEF Succeed, Fail, AskForCommit, Promoted, repo
<1>11. ASSUME NEW t \in Task, StartAdding(t) PROVE RepoTypeOK'
  BY <1>11 DEF StartAdding, Goto, repo
<1>12. ASSUME NEW t \in Task, Add(t) PROVE RepoTypeOK'
  BY <1>12 DEF Add, Goto
<1>13. ASSUME NEW t \in Task, Commit(t) PROVE RepoTypeOK'
  BY <1>13 DEF Commit, Goto
<1>14. ASSUME NEW t \in Task, Resolve(t) PROVE RepoTypeOK'
  <2>1. Tip(t) \in SUBSET Task
    BY KindsAssumption DEF Tip
  <2> QED BY <1>14, <2>1 DEF Resolve, Goto, repo
<1>15. ASSUME UNCHANGED sharedVars PROVE RepoTypeOK'
  BY <1>15 DEF sharedVars, repo
<1> QED
  BY <1>1, <1>2, <1>3, <1>4, <1>5, <1>6, <1>7, <1>8, <1>9, <1>10, <1>11, <1>12,
     <1>13, <1>14, <1>15 DEF SharedNext, PipelineStep, PromotionStep

\* The state has the type RepoTypeOK states: repo_root's tree, index and commits
\* hold patches of tasks that work in repo_root only, whatever tasks in
\* worktrees do.
THEOREM RepoTypeCorrect == SharedSpec => []RepoTypeOK
<1>1. SharedInit => RepoTypeOK
  BY DEF SharedInit, RepoTypeOK
<1> QED BY <1>1, RepoTypeInvariant, PTL DEF SharedSpec

-------------------------------------------------------------------------------
(* What a step of the scheduler does to the other tasks: a permit that is    *)
(* handed over moves a coroutine from "queued" to "locking".                 *)

\* The pc of t may go to p, that of the others only to "locking".
Moves(t, p) ==
    /\ pc'[t] = p
    /\ \A u \in Task \ {t} : pc'[u] = pc[u] \/ (pc[u] = "queued" /\ pc'[u] = "locking")

LEMMA ReleasePermitMoves ==
    ASSUME TypeOK, PermitInv, NEW t \in Task, pc[t] # "queued", ReleasePermit(t)
    PROVE  Moves(t, "done")
<1>1. CASE slotWaiters = <<>>
  BY <1>1 DEF ReleasePermit, Moves, TypeOK
<1>2. CASE slotWaiters # <<>>
  <2>1. /\ Head(slotWaiters) = slotWaiters[1]
        /\ Head(slotWaiters) \in Task
        /\ 1 \in 1..Len(slotWaiters)
    BY <1>2, HeadTailProperties, LenProperties, EmptySeq DEF TypeOK
  <2>2. pc[Head(slotWaiters)] = "queued"
    BY <2>1 DEF PermitInv, SlotQueueSound
  <2> QED BY <1>2, <2>1, <2>2 DEF ReleasePermit, Moves, TypeOK
<1> QED BY <1>1, <1>2

LEMMA ScheduleMoves ==
    ASSUME TypeOK, NEW t \in Task, Schedule(t)
    PROVE  /\ pc[t] \in {"new", "locking"}
           /\ Moves(t, pc'[t]) /\ pc'[t] \in {"queued", "locking", "running"}
           /\ \A u \in Task : pc[u] # "new" => scope'[u] = scope[u]
           /\ UNCHANGED <<result, promoting>>
<1>1. CASE Submit(t, Scope[t])
  BY <1>1 DEF Submit, TypeOK, Moves
<1>2. CASE AcquireNext(t)
  BY <1>2 DEF AcquireNext, TypeOK, Moves
<1>3. CASE StartPipeline(t)
  BY <1>3 DEF StartPipeline, TypeOK, Moves
<1> QED BY <1>1, <1>2, <1>3 DEF Schedule

\* The end of a task: it is "ok" after its delivery or its commit only.
Ends(t) == Succeed(t) \/ Fail(t) \/ Promoted(t)

LEMMA EndMoves ==
    ASSUME TypeOK, PermitInv, NEW t \in Task, Ends(t)
    PROVE  /\ t \in Critical /\ Moves(t, "done")
           /\ UNCHANGED scope
           /\ promoting' \subseteq promoting
           /\ (t \in promoting' => pc[t] = "running")
           /\ \A u \in Task : u # t => result'[u] = result[u]
           /\ result'[t] = "ok" =>
                 (step[t] = "finished" /\ t \notin Committing) \/ step[t] = "resolved"
<1>1. CASE Succeed(t)
  BY <1>1, ReleasePermitMoves DEF Succeed, PipelineEnds, Leave, Critical, TypeOK, At
<1>2. CASE Fail(t)
  BY <1>2, ReleasePermitMoves DEF Fail, PipelineEnds, Leave, Critical, TypeOK, At
<1>3. CASE Promoted(t)
  BY <1>3, ReleasePermitMoves
     DEF Promoted, PromotionEnds, PromotingAt, Leave, Critical, TypeOK
<1> QED BY <1>1, <1>2, <1>3 DEF Ends

-------------------------------------------------------------------------------
(* Which phases of the coroutine and of the pipeline go together.            *)

Phases ==
    /\ \A t \in Task : pc[t] \in {"new", "queued", "locking"} => step[t] = "start"
    /\ \A t \in Task : pc[t] = "committing" => step[t] = "finished"
    /\ \A t \in Task : result[t] # "none" => pc[t] = "done"
    /\ \A t \in Task : t \in Committing /\ result[t] = "ok" => step[t] = "resolved"
    /\ \A t \in promoting : pc[t] = "promoting"

LEMMA PhasesInvariant ==
    TypeOK /\ PermitInv /\ RepoTypeOK /\ Phases /\ [SharedNext]_sharedVars => Phases'
<1> SUFFICES ASSUME TypeOK, PermitInv, RepoTypeOK, Phases, [SharedNext]_sharedVars
             PROVE  Phases'
  OBVIOUS
<1>1. ASSUME NEW t \in Task, Schedule(t) PROVE Phases'
  <2>1. UNCHANGED step
    BY <1>1 DEF Schedule
  <2>2. promoting \subseteq Task
    BY DEF TypeOK
  <2> QED BY <1>1, <2>1, <2>2, ScheduleMoves DEF Phases, Moves
<1>2. ASSUME NEW t \in Task, Ends(t) PROVE Phases'
  <2>1. UNCHANGED step
    BY <1>2 DEF Ends, Succeed, Fail, Promoted
  <2>2. promoting \subseteq Task
    BY DEF TypeOK
  <2> QED BY <1>2, <2>1, <2>2, EndMoves DEF Phases, Moves, Critical
<1>3. ASSUME NEW t \in Task, AskForCommit(t) PROVE Phases'
  BY <1>3 DEF AskForCommit, RequestCommit, Phases, TypeOK, At
<1>4. ASSUME NEW t \in Task, StartAdding(t) PROVE Phases'
  BY <1>4 DEF StartAdding, StartPromotion, Goto, Phases, TypeOK, RepoTypeOK
<1>5. ASSUME NEW t \in Task,
             \/ Replay(t) \/ Snapshot(t) \/ Apply(t) \/ Verify(t) \/ VerifyFails(t)
             \/ ReversePatch(t) \/ Reset(t) \/ Deliver(t) \/ Add(t) \/ Commit(t) \/ Resolve(t)
      PROVE  Phases'
  <2>1. UNCHANGED <<pc, result, promoting>>
    BY <1>5 DEF Replay, Snapshot, Apply, Verify, VerifyFails, ReversePatch, Reset, Deliver,
                Add, Commit, Resolve, queue
  <2>2. pc[t] \in {"running", "promoting"} /\ \A u \in Task \ {t} : step'[u] = step[u]
    BY <1>5 DEF Replay, Snapshot, Apply, Verify, VerifyFails, ReversePatch, Reset, Deliver,
                Add, Commit, Resolve, At, PromotingAt, Goto, RepoTypeOK, Phases
  <2> QED BY <2>1, <2>2 DEF Phases
<1>6. ASSUME UNCHANGED sharedVars PROVE Phases'
  BY <1>6 DEF sharedVars, queue, Phases
<1> QED BY <1>1, <1>2, <1>3, <1>4, <1>5, <1>6
        DEF SharedNext, PipelineStep, PromotionStep, Ends

-------------------------------------------------------------------------------
(* A patch stays where its task put it, as long as no other task's rollback  *)
(* crosses the run: nobody else reverses it, and git add . and git commit    *)
(* carry it from the working tree to the index and on to HEAD.               *)

Undisturbed(t) == ~(t \in crossed /\ InRepo(t))

PatchKept ==
    \A t \in Critical : Undisturbed(t) =>
        /\ step[t] \in {"verify", "finished", "add", "commit", "resolve"} => t \in Workspace(t)
        /\ InRepo(t) /\ step[t] \in {"commit", "resolve"} => t \in index
        /\ InRepo(t) /\ step[t] = "resolve" => t \in head

\* A worktree gets no other patch than that of its task.
OwnWorktree == \A t \in Task : ~InRepo(t) => mirror[t] \subseteq {t}

\* What the contracts refuse is not delivered.
RefusedStops ==
    \A t \in Task \ Cached : t \in broken /\ Undisturbed(t) =>
        /\ step[t] \in {"start", "apply", "verify", "reverse", "reset", "failed"}
        /\ result[t] # "ok"

\* What is promoted leaves repo_root from the outside in: it is in HEAD as long as
\* it is in the index, and in the index as long as it is in the working tree.
CommittedFirst ==
    \A t \in Task : InRepo(t) =>
        /\ step[t] \in {"commit", "resolve", "resolved"} /\ t \in work => t \in index
        /\ step[t] \in {"resolve", "resolved"} /\ t \in index => t \in head

LEMMA OwnWorktreeInvariant ==
    RepoTypeOK /\ OwnWorktree /\ [SharedNext]_sharedVars => OwnWorktree'
<1> SUFFICES ASSUME RepoTypeOK, OwnWorktree, [SharedNext]_sharedVars PROVE OwnWorktree'
  OBVIOUS
<1>1. ASSUME NEW t \in Task, Apply(t) \/ Deliver(t) \/ ReversePatch(t) PROVE OwnWorktree'
  BY <1>1 DEF Apply, Deliver, ReversePatch, SetWorkspace, Workspace, OwnWorktree, InRepo,
              RepoTypeOK
<1>2. ASSUME UNCHANGED mirror PROVE OwnWorktree'
  BY <1>2 DEF OwnWorktree, InRepo
<1>3. ASSUME NEW t \in Task,
             Schedule(t) \/ PipelineStep(t) \/ PromotionStep(t),
             ~(Apply(t) \/ Deliver(t) \/ ReversePatch(t))
      PROVE  UNCHANGED mirror
  BY <1>3 DEF Schedule, PipelineStep, PromotionStep, Replay, Snapshot, Verify, VerifyFails,
              Reset, Succeed, Fail, AskForCommit, StartAdding, Add, Commit, Resolve, Promoted
<1>4. ASSUME UNCHANGED sharedVars PROVE UNCHANGED mirror
  BY <1>4 DEF sharedVars
<1> QED BY <1>1, <1>2, <1>3, <1>4 DEF SharedNext

LEMMA PatchKeptInvariant ==
    /\ TypeOK /\ PermitInv /\ RepoTypeOK /\ Phases /\ PatchKept
    /\ [SharedNext]_sharedVars
    => PatchKept'
<1> SUFFICES ASSUME TypeOK, PermitInv, RepoTypeOK, Phases, PatchKept,
                    [SharedNext]_sharedVars
             PROVE  PatchKept'
  OBVIOUS
<1>1. ASSUME NEW t \in Task, Schedule(t) \/ Ends(t) PROVE PatchKept'
  <2>1. UNCHANGED <<step, repo, mirror, crossed>>
    BY <1>1 DEF Schedule, Ends, Succeed, Fail, Promoted
  <2>2. \A u \in Critical' : u \in Critical \/ step[u] = "start"
    BY <1>1, ScheduleMoves, EndMoves DEF Moves, Critical, Phases
  <2> QED BY <2>1, <2>2 DEF PatchKept, Undisturbed, InRepo, Workspace, repo, RepoTypeOK,
                            Critical
<1>2. ASSUME NEW t \in Task, AskForCommit(t) PROVE PatchKept'
  <2>1. Critical' = Critical
    BY <1>2 DEF AskForCommit, RequestCommit, Critical, TypeOK
  <2> QED BY <1>2, <2>1 DEF AskForCommit, PatchKept, Undisturbed, InRepo, Workspace, repo
<1>3. ASSUME NEW t \in Task, StartAdding(t) PROVE PatchKept'
  <2>1. Critical' = Critical /\ pc[t] = "committing"
    BY <1>3 DEF StartAdding, StartPromotion, Critical, TypeOK
  <2>2. step[t] = "finished"
    BY <2>1 DEF Phases
  <2> QED BY <1>3, <2>1, <2>2
          DEF StartAdding, Goto, PatchKept, Undisturbed, InRepo, Workspace, repo,
              RepoTypeOK, Critical
<1>4. ASSUME NEW t \in Task,
             \/ Replay(t) \/ Snapshot(t) \/ Apply(t) \/ Verify(t) \/ VerifyFails(t)
             \/ ReversePatch(t) \/ Deliver(t)
      PROVE  PatchKept'
  <2>1. /\ UNCHANGED <<pc, crossed, index, head>>
        /\ \A u \in Task \ {t} : step'[u] = step[u]
    BY <1>4 DEF Replay, Snapshot, Apply, Verify, VerifyFails, ReversePatch, Deliver, queue,
                repo, Goto, RepoTypeOK
  <2>2. /\ step'[t] \in {"finished", "verify"} => t \in Workspace(t)'
        /\ step'[t] \in {"finished", "apply", "verify", "deliver", "reverse", "reset"}
    BY <1>4 DEF Replay, Snapshot, Apply, Verify, VerifyFails, ReversePatch, Deliver, At,
                Goto, Workspace, SetWorkspace, InRepo, RepoTypeOK
  <2>3. \A u \in Task \ {t} : u \in Workspace(u) => u \in Workspace(u)'
    BY <1>4 DEF Replay, Snapshot, Apply, Verify, VerifyFails, ReversePatch, Deliver, repo,
                Workspace, SetWorkspace, InRepo, RepoTypeOK
  <2> QED BY <2>1, <2>2, <2>3 DEF PatchKept, Undisturbed, InRepo, Critical
<1>5. ASSUME NEW t \in Task, Reset(t) PROVE PatchKept'
  <2>1. UNCHANGED pc /\ Critical' = Critical
    BY <1>5 DEF Reset, queue, Critical
  <2>2. \A u \in Critical \ {t} : step'[u] = step[u] /\ (step[u] # "start" => u \in crossed')
    BY <1>5 DEF Reset, Goto, RepoTypeOK
  <2>3. \A u \in Critical \ {t} : u \in crossed => u \in crossed'
    BY <1>5 DEF Reset
  <2>4. step'[t] = "failed" /\ UNCHANGED mirror
    BY <1>5 DEF Reset, Goto, RepoTypeOK
  <2> QED BY <2>1, <2>2, <2>3, <2>4 DEF PatchKept, Undisturbed, InRepo, Workspace, Critical
<1>6. ASSUME NEW t \in Task, Add(t) PROVE PatchKept'
  <2>1. Critical' = Critical /\ UNCHANGED <<head, work, mirror, crossed>>
    BY <1>6 DEF Add, queue, Critical
  <2>2. /\ step[t] = "add" /\ step'[t] = "commit" 
        /\ \A u \in Task \ {t} : step'[u] = step[u]
    BY <1>6 DEF Add, PromotingAt, Goto, RepoTypeOK
  <2>3. index' = work \/ (index' = index /\ ~InRepo(t))
    BY <1>6 DEF Add
  <2> QED BY <2>1, <2>2, <2>3 DEF PatchKept, Undisturbed, InRepo, Workspace, Critical
<1>7. ASSUME NEW t \in Task, Commit(t) PROVE PatchKept'
  <2>1. Critical' = Critical /\ UNCHANGED <<index, work, mirror, crossed>>
    BY <1>7 DEF Commit, queue, Critical
  <2>2. /\ step[t] = "commit" /\ step'[t] \in {"resolve", "nothing"}
        /\ \A u \in Task \ {t} : step'[u] = step[u]
    BY <1>7 DEF Commit, PromotingAt, Goto, RepoTypeOK
  <2>3. head' = index \/ (head' = head /\ (InRepo(t) => step'[t] = "nothing"))
    BY <1>7 DEF Commit, Goto, RepoTypeOK
  <2> QED BY <2>1, <2>2, <2>3 DEF PatchKept, Undisturbed, InRepo, Workspace, Critical
<1>8. ASSUME NEW t \in Task, Resolve(t) PROVE PatchKept'
  BY <1>8 DEF Resolve, queue, repo, Goto, RepoTypeOK, PatchKept, Undisturbed, InRepo,
              Workspace, Critical
<1>9. ASSUME UNCHANGED sharedVars PROVE PatchKept'
  BY <1>9 DEF sharedVars, queue, repo, PatchKept, Undisturbed, InRepo, Workspace, Critical
<1> QED BY <1>1, <1>2, <1>3, <1>4, <1>5, <1>6, <1>7, <1>8, <1>9
        DEF SharedNext, PipelineStep, PromotionStep, Ends

LEMMA RefusedStopsInvariant ==
    /\ TypeOK /\ PermitInv /\ RepoTypeOK /\ Phases /\ PatchKept /\ RefusedStops
    /\ [SharedNext]_sharedVars
    => RefusedStops'
<1> SUFFICES ASSUME TypeOK, PermitInv, RepoTypeOK, Phases, PatchKept, RefusedStops,
                    [SharedNext]_sharedVars
             PROVE  RefusedStops'
  OBVIOUS
<1> USE DEF RefusedStops, Undisturbed, InRepo
<1>1. ASSUME NEW t \in Task, Schedule(t) PROVE RefusedStops'
  BY <1>1, ScheduleMoves DEF Schedule
<1>2. ASSUME NEW t \in Task, Ends(t) PROVE RefusedStops'
  <2>1. UNCHANGED <<step, broken, crossed>>
    BY <1>2 DEF Ends, Succeed, Fail, Promoted
  <2> QED BY <1>2, <2>1, EndMoves
<1>3. ASSUME NEW t \in Task, Verify(t) PROVE RefusedStops'
  <2>1. t \in Critical /\ step[t] = "verify" /\ Workspace(t) \cap broken = {}
    BY <1>3 DEF Verify, At, Critical, Accepts
  <2>2. t \notin broken \/ ~Undisturbed(t)
    BY <2>1 DEF PatchKept
  <2> QED BY <1>3, <2>2 DEF Verify, queue, Goto, RepoTypeOK
<1>4. ASSUME NEW t \in Task,
             \/ Replay(t) \/ Snapshot(t) \/ Apply(t) \/ VerifyFails(t) \/ ReversePatch(t)
             \/ Reset(t) \/ Deliver(t) \/ AskForCommit(t) \/ Add(t) \/ Commit(t) \/ Resolve(t)
      PROVE  RefusedStops'
  <2>1. UNCHANGED <<result, broken>> /\ crossed \subseteq crossed'
    BY <1>4 DEF Replay, Snapshot, Apply, VerifyFails, ReversePatch, Reset, Deliver,
                AskForCommit, RequestCommit, Add, Commit, Resolve, queue
  <2>2. \A u \in Task \ {t} : step'[u] = step[u]
    BY <1>4 DEF Replay, Snapshot, Apply, VerifyFails, ReversePatch, Reset, Deliver,
                AskForCommit, Add, Commit, Resolve, Goto, RepoTypeOK
  <2>3. \/ t \in Cached
        \/ step'[t] \in {"apply", "verify", "reverse", "reset", "failed"}
        \/ step[t] \in {"deliver", "finished", "add", "commit", "resolve"}
    BY <1>4 DEF Replay, Snapshot, Apply, VerifyFails, ReversePatch, Reset, Deliver,
                AskForCommit, Add, Commit, Resolve, Goto, At, PromotingAt, RepoTypeOK
  <2> QED BY <2>1, <2>2, <2>3
<1>5. ASSUME NEW t \in Task, StartAdding(t) PROVE RefusedStops'
  <2>1. step[t] = "finished"
    BY <1>5 DEF StartAdding, StartPromotion, Phases
  <2> QED BY <1>5, <2>1 DEF StartAdding, StartPromotion, Goto, RepoTypeOK
<1>6. ASSUME UNCHANGED sharedVars PROVE RefusedStops'
  BY <1>6 DEF sharedVars, queue
<1> QED BY <1>1, <1>2, <1>3, <1>4, <1>5, <1>6
        DEF SharedNext, PipelineStep, PromotionStep, Ends

LEMMA CommittedFirstInvariant ==
    /\ TypeOK /\ RepoTypeOK /\ Phases /\ CommittedFirst /\ [SharedNext]_sharedVars
    => CommittedFirst'
<1> SUFFICES ASSUME TypeOK, RepoTypeOK, Phases, CommittedFirst, [SharedNext]_sharedVars
             PROVE  CommittedFirst'
  OBVIOUS
<1> USE DEF CommittedFirst, InRepo
<1>1. ASSUME NEW t \in Task,
             Schedule(t) \/ Ends(t) \/ AskForCommit(t)
      PROVE  CommittedFirst'
  BY <1>1 DEF Schedule, Ends, Succeed, Fail, Promoted, AskForCommit, repo
<1>2. ASSUME NEW t \in Task,
             \/ Replay(t) \/ Snapshot(t) \/ Apply(t) \/ Verify(t) \/ VerifyFails(t)
             \/ ReversePatch(t) \/ Deliver(t) \/ StartAdding(t)
      PROVE  CommittedFirst'
  <2>1. UNCHANGED <<head, index>> /\ work' \subseteq work \cup {t}
    BY <1>2 DEF Replay, Snapshot, Apply, Verify, VerifyFails, ReversePatch, Deliver,
                StartAdding, repo, SetWorkspace, Workspace, InRepo
  <2>2. /\ \A u \in Task \ {t} : step'[u] = step[u]
        /\ step'[t] \notin {"commit", "resolve", "resolved"}
    BY <1>2 DEF Replay, Snapshot, Apply, Verify, VerifyFails, ReversePatch, Deliver,
                StartAdding, Goto, RepoTypeOK
  <2> QED BY <2>1, <2>2
<1>3. ASSUME NEW t \in Task, Reset(t) PROVE CommittedFirst'
  BY <1>3 DEF Reset
<1>4. ASSUME NEW t \in Task, Add(t) PROVE CommittedFirst'
  <2>1. UNCHANGED <<head, work>>
    BY <1>4 DEF Add
  <2>2. \A u \in Task \ {t} : step'[u] = step[u]
    BY <1>4 DEF Add, Goto, RepoTypeOK
  <2>3. step'[t] = "commit"
    BY <1>4 DEF Add, Goto, RepoTypeOK
  <2>4. index' = work \/ (index' = index /\ ~InRepo(t))
    BY <1>4 DEF Add
  <2> QED BY <2>1, <2>2, <2>3, <2>4
<1>5. ASSUME NEW t \in Task, Commit(t) PROVE CommittedFirst'
  <2>1. UNCHANGED <<index, work>> /\ step[t] = "commit"
    BY <1>5 DEF Commit, PromotingAt
  <2>2. \A u \in Task \ {t} : step'[u] = step[u]
    BY <1>5 DEF Commit, Goto, RepoTypeOK
  <2>3. head' = index \/ (head' = head /\ (InRepo(t) => step'[t] = "nothing"))
    BY <1>5 DEF Commit, Goto, RepoTypeOK
  <2> QED BY <2>1, <2>2, <2>3
<1>6. ASSUME NEW t \in Task, Resolve(t) PROVE CommittedFirst'
  BY <1>6 DEF Resolve, PromotingAt, Goto, repo, RepoTypeOK
<1>7. ASSUME UNCHANGED sharedVars PROVE CommittedFirst'
  BY <1>7 DEF sharedVars, repo
<1> QED BY <1>1, <1>2, <1>3, <1>4, <1>5, <1>6, <1>7
        DEF SharedNext, PipelineStep, PromotionStep, Ends

LEMMA CommitHoldsPatchInvariant ==
    /\ TypeOK /\ RepoTypeOK /\ Phases /\ PatchKept /\ OwnWorktree /\ CommitHoldsPatch
    /\ [SharedNext]_sharedVars
    => CommitHoldsPatch'
<1> SUFFICES ASSUME TypeOK, RepoTypeOK, Phases, PatchKept, OwnWorktree, CommitHoldsPatch,
                    [SharedNext]_sharedVars
             PROVE  CommitHoldsPatch'
  OBVIOUS
<1> USE DEF CommitHoldsPatch, InRepo
<1>1. ASSUME NEW t \in Task, Resolve(t) PROVE CommitHoldsPatch'
  <2>1. t \in Critical /\ step[t] = "resolve"
    BY <1>1 DEF Resolve, PromotingAt, Phases, Critical
  <2>2. CASE InRepo(t)
    <3>1. t \in head \/ t \in crossed
      BY <2>1, <2>2 DEF PatchKept, Undisturbed
    <3> QED BY <1>1, <2>2, <3>1 DEF Resolve, Tip, RepoTypeOK
  <2>3. CASE ~InRepo(t)
    <3>1. mirror[t] = {t}
      BY <2>1, <2>3 DEF PatchKept, Undisturbed, OwnWorktree, Workspace
    <3> QED BY <1>1, <2>3, <3>1 DEF Resolve, Tip, RepoTypeOK
  <2> QED BY <2>2, <2>3
<1>2. ASSUME UNCHANGED commit, crossed \subseteq crossed' PROVE CommitHoldsPatch'
  BY <1>2
<1>3. ASSUME NEW t \in Task,
             Schedule(t) \/ PipelineStep(t) \/ PromotionStep(t), ~Resolve(t)
      PROVE  UNCHANGED commit /\ crossed \subseteq crossed'
  BY <1>3 DEF Schedule, PipelineStep, PromotionStep, Replay, Snapshot, Apply, Verify,
              VerifyFails, ReversePatch, Reset, Deliver, Succeed, Fail, AskForCommit,
              StartAdding, Add, Commit, Promoted
<1>4. ASSUME UNCHANGED sharedVars PROVE UNCHANGED commit /\ crossed \subseteq crossed'
  BY <1>4 DEF sharedVars
<1> QED BY <1>1, <1>2, <1>3, <1>4 DEF SharedNext

LEMMA RollbackInvariant ==
    /\ TypeOK /\ PermitInv /\ ScopesSerialized /\ RepoTypeOK /\ RepoTypeOK' /\ Phases
    /\ CommittedFirst /\ RollbackKeepsOverlapping /\ [SharedNext]_sharedVars
    => RollbackKeepsOverlapping'
<1> SUFFICES ASSUME TypeOK, PermitInv, ScopesSerialized, RepoTypeOK, RepoTypeOK', Phases,
                    CommittedFirst, RollbackKeepsOverlapping, [SharedNext]_sharedVars,
                    NEW t \in Task, NEW u \in Task,
                    pc'[t] = "running",
                    step'[t] \in {"apply", "verify", "reverse", "reset"},
                    t \notin crossed', Files(t)' \cap Files(u)' # {},
                    u \in Committing, result'[u] = "ok", u \in head'
             PROVE  u \in stable'[t]
  BY DEF RollbackKeepsOverlapping
<1>1. InRepo(u)
  BY DEF RepoTypeOK, InRepo
<1>2. ASSUME pc[t] = "running", step[t] \in {"apply", "verify", "reverse", "reset"},
             t \notin crossed, UNCHANGED <<scope, stable>>, result[u] = "ok", u \in head
      PROVE  u \in stable'[t]
  BY <1>2 DEF RollbackKeepsOverlapping, Files
<1>3. ASSUME NEW v \in Task, Schedule(v) PROVE u \in stable'[t]
  <2>1. UNCHANGED <<step, stable, crossed, head, result>>
    BY <1>3, ScheduleMoves DEF Schedule, repo
  <2>2. pc[t] = "running"
    BY <1>3, <2>1, ScheduleMoves DEF Moves, Phases
  <2>3. scope'[t] = scope[t] /\ scope'[u] = scope[u]
    BY <1>3, <2>1, <2>2, ScheduleMoves DEF Phases
  <2> QED BY <2>1, <2>2, <2>3 DEF RollbackKeepsOverlapping, Files
<1>4. ASSUME NEW v \in Task, Ends(v) PROVE u \in stable'[t]
  <2>1. UNCHANGED <<step, stable, crossed, head, scope>>
    BY <1>4, EndMoves DEF Ends, Succeed, Fail, Promoted, repo
  <2>2. v # t /\ pc[t] = "running"
    BY <1>4, EndMoves DEF Moves
  <2>3. v # u
    BY <1>4, <2>1, <2>2, EndMoves DEF ScopesSerialized, Critical, Files
  <2>4. result[u] = "ok"
    BY <1>4, <2>3, EndMoves
  <2> QED BY <1>2, <2>1, <2>2, <2>4
<1>5. ASSUME NEW v \in Task, AskForCommit(v) \/ StartAdding(v) PROVE u \in stable'[t]
  <2>1. UNCHANGED <<stable, crossed, head, scope, result>>
    BY <1>5 DEF AskForCommit, RequestCommit, StartAdding, StartPromotion, repo
  <2>2. v # t /\ pc[t] = "running" /\ step'[t] = step[t]
    BY <1>5 DEF AskForCommit, RequestCommit, StartAdding, StartPromotion, Goto, TypeOK,
                RepoTypeOK
  <2> QED BY <1>2, <2>1, <2>2
<1>6. ASSUME NEW v \in Task, Snapshot(v) PROVE u \in stable'[t]
  <2>1. UNCHANGED <<pc, scope, result, head, crossed>>
    BY <1>6 DEF Snapshot, queue, repo
  <2>2. CASE v = t
    BY <1>6, <2>1, <2>2 DEF Snapshot, RepoTypeOK
  <2>3. CASE v # t
    <3>1. stable'[t] = stable[t] /\ step'[t] = step[t]
      BY <1>6, <2>3 DEF Snapshot, Goto, RepoTypeOK
    <3> QED BY <2>1, <3>1 DEF RollbackKeepsOverlapping, Files
  <2> QED BY <2>2, <2>3
<1>7. ASSUME NEW v \in Task,
             \/ Replay(v) \/ Apply(v) \/ Verify(v) \/ VerifyFails(v) \/ ReversePatch(v)
             \/ Deliver(v) \/ Add(v) \/ Resolve(v)
      PROVE  u \in stable'[t]
  <2>1. UNCHANGED <<pc, scope, result, head, crossed, stable>>
    BY <1>7 DEF Replay, Apply, Verify, VerifyFails, ReversePatch, Deliver, Add, Resolve,
                queue, repo
  <2>2. step[t] \in {"apply", "verify", "reverse", "reset"}
    BY <1>7 DEF Replay, Apply, Verify, VerifyFails, ReversePatch, Deliver, Add, Resolve,
                Goto, At, RepoTypeOK
  <2> QED BY <1>2, <2>1, <2>2
<1>8. ASSUME NEW v \in Task, Reset(v) PROVE u \in stable'[t]
  <2>1. v # t
    BY <1>8 DEF Reset, Goto, RepoTypeOK
  <2>2. t \in Critical /\ step[t] # "start"
    BY <1>8, <2>1 DEF Reset, Goto, RepoTypeOK, queue, Critical
  <2> QED BY <1>8, <2>1, <2>2 DEF Reset
<1>9. ASSUME NEW v \in Task, Commit(v) PROVE u \in stable'[t]
  <2>1. UNCHANGED <<pc, scope, result, crossed, stable>>
    BY <1>9 DEF Commit, queue
  <2>2. step[t] \in {"apply", "verify", "reverse", "reset"}
    BY <1>9 DEF Commit, Goto, RepoTypeOK
  <2>3. step[u] = "resolved"
    BY <2>1 DEF Phases
  <2>4. u \in head
    BY <1>1, <1>9, <2>3 DEF Commit, CommittedFirst
  <2> QED BY <1>2, <2>1, <2>2, <2>4
<1>10. ASSUME UNCHANGED sharedVars PROVE u \in stable'[t]
  BY <1>2, <1>10 DEF sharedVars, queue, repo
<1> QED BY <1>3, <1>4, <1>5, <1>6, <1>7, <1>8, <1>9, <1>10
        DEF SharedNext, PipelineStep, PromotionStep, Ends

-------------------------------------------------------------------------------
(* The theorems.                                                             *)

IInv == Phases /\ PatchKept /\ OwnWorktree /\ RefusedStops /\ CommittedFirst

LEMMA IInvHolds == SharedSpec => [](TypeOK /\ PermitInv /\ RepoTypeOK /\ IInv)
<1>1. SharedInit => IInv
  BY DEF SharedInit, Init, IInv, Phases, PatchKept, OwnWorktree, RefusedStops,
         CommittedFirst, Critical
<1>2. TypeOK /\ PermitInv /\ RepoTypeOK /\ IInv /\ [SharedNext]_sharedVars => IInv'
  BY PhasesInvariant, PatchKeptInvariant, OwnWorktreeInvariant, RefusedStopsInvariant,
     CommittedFirstInvariant DEF IInv
<1> QED BY <1>1, <1>2, SchedulerUnchanged, TypeCorrect, PermitInvHolds, RepoTypeCorrect, PTL
        DEF SharedSpec

\* A patch the contracts refuse never ends well, whichever tasks run beside it:
\* unless another task's rollback crossed its run in repo_root.
THEOREM OkMeansVerifiedTheorem == SharedSpec => []OkMeansVerified
<1>1. IInv => OkMeansVerified
  BY DEF IInv, RefusedStops, Undisturbed, OkMeansVerified
<1> QED BY <1>1, IInvHolds, PTL

\* The commit a task reports holds its patch unless a rollback crossed its run,
\* and that of a task in a worktree holds nothing else, for any tasks and any
\* interleaving of their git commands.
THEOREM CommitHoldsPatchTheorem == SharedSpec => []CommitHoldsPatch
<1>1. SharedInit => CommitHoldsPatch
  BY DEF SharedInit, CommitHoldsPatch
<1>2. TypeOK /\ RepoTypeOK /\ IInv /\ CommitHoldsPatch /\ [SharedNext]_sharedVars
      => CommitHoldsPatch'
  BY CommitHoldsPatchInvariant DEF IInv
<1> QED BY <1>1, <1>2, IInvHolds, PTL DEF SharedSpec

\* Where no file has two spellings, the file locks keep the commits of tasks that
\* share a file with t from the rollback of t, unless another rollback crossed t.
THEOREM RollbackKeepsOverlappingTheorem ==
    ASSUME \A p, q \in Path : FileOf[p] = FileOf[q] => p = q
    PROVE  SharedSpec => []RollbackKeepsOverlapping
<1>1. SharedInit => RollbackKeepsOverlapping
  BY DEF SharedInit, Init, RollbackKeepsOverlapping
<1>2. /\ TypeOK /\ PermitInv /\ ScopesSerialized /\ RepoTypeOK /\ RepoTypeOK' /\ IInv
      /\ RollbackKeepsOverlapping /\ [SharedNext]_sharedVars
      => RollbackKeepsOverlapping'
  BY RollbackInvariant DEF IInv
<1>3. Spec => []ScopesSerialized
  BY ScopesSerializedTheorem
<1> QED BY <1>1, <1>2, <1>3, IInvHolds, SchedulerUnchanged, PTL DEF SharedSpec
\* Whatever the pipelines do to the repository, tasks with a common file run one
\* after the other, as SerializedScopes promises, where no file has two spellings.
THEOREM SharedRefinement ==
    ASSUME \A p, q \in Path : FileOf[p] = FileOf[q] => p = q
    PROVE  SharedSpec => ImplementsSerializedScopes
<1>1. Spec => ImplementsSerializedScopes
  BY Refinement
<1> QED BY <1>1, SchedulerUnchanged, PTL

-------------------------------------------------------------------------------
(* When what VerifiedIsPromoted says is true: where no two pipelines are at  *)
(* work in repo_root at a time.                                              *)

AloneInRepo == \A t, u \in Critical : InRepo(t) /\ InRepo(u) => t = u

\* The patch of a task gets into the working tree by the task's own steps, and
\* from there to the index and to HEAD by its own promotion.
OwnPromotion ==
    \A t \in Task : InRepo(t) =>
        /\ step[t] \in {"start", "apply"} => t \notin work \cup index \cup head
        /\ t \in Critical =>
              /\ step[t] \in {"verify", "deliver", "finished", "add"} => t \notin index
              /\ step[t] \in {"verify", "deliver", "finished", "add", "commit"} => t \notin head

\* Where the contracts refuse nothing, nothing is rolled back and nobody fails.
NobodyFails ==
    broken = {} => /\ crossed = {}
                   /\ \A t \in Task : /\ step[t] \notin {"reverse", "reset", "failed", "nothing"}
                                      /\ result[t] # "failed"

LEMMA OwnPromotionInvariant ==
    /\ TypeOK /\ PermitInv /\ RepoTypeOK /\ Phases /\ AloneInRepo /\ OwnPromotion
    /\ broken = {} /\ NobodyFails /\ [SharedNext]_sharedVars
    => OwnPromotion'
<1> SUFFICES ASSUME TypeOK, PermitInv, RepoTypeOK, Phases, AloneInRepo, OwnPromotion,
                    broken = {}, NobodyFails, [SharedNext]_sharedVars
             PROVE  OwnPromotion'
  OBVIOUS
<1> USE DEF OwnPromotion, InRepo
<1>1. ASSUME NEW t \in Task, Schedule(t) \/ Ends(t) \/ AskForCommit(t)
      PROVE  OwnPromotion'
  <2>1. UNCHANGED <<step, work, index, head>>
    BY <1>1 DEF Schedule, Ends, Succeed, Fail, Promoted, AskForCommit, repo
  <2>2. \A u \in Critical' : u \in Critical \/ step[u] = "start"
    <3>1. CASE Schedule(t) \/ Ends(t)
      BY <3>1, ScheduleMoves, EndMoves DEF Moves, Critical, Phases
    <3>2. CASE AskForCommit(t)
      BY <3>2 DEF AskForCommit, RequestCommit, Critical, TypeOK
    <3> QED BY <1>1, <3>1, <3>2
  <2> QED BY <2>1, <2>2
<1>2. ASSUME NEW t \in Task,
             \/ Replay(t) \/ Snapshot(t) \/ Apply(t) \/ Verify(t) \/ Deliver(t)
      PROVE  OwnPromotion'
  <2>1. UNCHANGED <<index, head>> /\ Critical' = Critical /\ t \in Critical
    BY <1>2 DEF Replay, Snapshot, Apply, Verify, Deliver, repo, queue, Critical, At
  <2>2. /\ \A u \in Task \ {t} : step'[u] = step[u]
        /\ step[t] \in {"start", "apply", "verify", "deliver"}
        /\ step'[t] \in {"apply", "verify", "deliver", "finished"}
        /\ step'[t] = "apply" => step[t] = "start" /\ work' = work
    BY <1>2 DEF Replay, Snapshot, Apply, Verify, Deliver, repo, Goto, At, RepoTypeOK
  <2>3. work' \subseteq work \cup {t}
    BY <1>2 DEF Replay, Snapshot, Apply, Verify, Deliver, repo, SetWorkspace, Workspace
  <2> QED BY <2>1, <2>2, <2>3
<1>3. ASSUME NEW t \in Task, StartAdding(t)
      PROVE  OwnPromotion'
  <2>1. /\ UNCHANGED <<index, head, work>> /\ Critical' = Critical
        /\ t \in Critical /\ step[t] = "finished"
    BY <1>3 DEF StartAdding, StartPromotion, repo, Critical, TypeOK, Phases
  <2>2. step' = [step EXCEPT ![t] = "add"]
    BY <1>3 DEF StartAdding, Goto
  <2> QED BY <2>1, <2>2 DEF RepoTypeOK
<1>4. ASSUME NEW t \in Task, Add(t) \/ Commit(t) \/ Resolve(t)
      PROVE  OwnPromotion'
  <2>1. t \in Critical /\ Critical' = Critical /\ work' = work
    BY <1>4 DEF Add, Commit, Resolve, PromotingAt, Phases, Critical, queue, repo
  <2>2. ASSUME NEW u \in Critical, u # t, InRepo(u)
        PROVE  UNCHANGED <<index, head>> /\ step'[u] = step[u]
    <3>1. ~ InRepo(t)
      BY <2>1, <2>2 DEF AloneInRepo
    <3> QED BY <1>4, <2>2, <3>1 DEF Add, Commit, Resolve, repo, Goto, RepoTypeOK, Critical
  <2>3. ASSUME NEW u \in Task, step'[u] \in {"start", "apply"}, InRepo(u)
        PROVE  u \notin work' \cup index' \cup head'
    <3>1. step[u] \in {"start", "apply"}
      BY <1>4, <2>3 DEF Add, Commit, Resolve, Goto, RepoTypeOK
    <3> QED BY <1>4, <2>3, <3>1 DEF Add, Commit, Resolve, repo
  <2>4. InRepo(t) /\ step'[t] = "commit" => step[t] = "add" /\ head' = head
    BY <1>4 DEF Add, Commit, Resolve, PromotingAt, Goto, RepoTypeOK
  <2>5. step'[t] \in {"commit", "resolve", "resolved", "nothing"}
    BY <1>4 DEF Add, Commit, Resolve, PromotingAt, Goto, RepoTypeOK
  <2> QED BY <2>1, <2>2, <2>3, <2>4, <2>5
<1>5. ASSUME UNCHANGED sharedVars
      PROVE  OwnPromotion'
  BY <1>5 DEF sharedVars, queue, repo, Critical
<1>6. ASSUME NEW t \in Task, VerifyFails(t) \/ ReversePatch(t) \/ Reset(t)
      PROVE  FALSE
  BY <1>6 DEF VerifyFails, Accepts, ReversePatch, Reset, At, NobodyFails
<1> QED BY <1>1, <1>2, <1>3, <1>4, <1>5, <1>6
        DEF SharedNext, PipelineStep, PromotionStep, Ends

LEMMA NobodyFailsInvariant ==
    /\ Raises = FALSE
    /\ TypeOK /\ PermitInv /\ RepoTypeOK /\ IInv /\ OwnPromotion
    /\ broken = {} /\ NobodyFails /\ [SharedNext]_sharedVars
    => NobodyFails'
<1> SUFFICES ASSUME Raises = FALSE, TypeOK, PermitInv, RepoTypeOK, IInv, OwnPromotion,
                    broken = {}, NobodyFails, [SharedNext]_sharedVars
             PROVE  NobodyFails'
  OBVIOUS
<1> USE DEF NobodyFails
<1>1. ASSUME NEW t \in Task, Schedule(t)
      PROVE  NobodyFails'
  BY <1>1, ScheduleMoves DEF Schedule
<1>2. ASSUME NEW t \in Task, Succeed(t)
      PROVE  NobodyFails'
  BY <1>2 DEF Succeed, PipelineEnds, Leave, TypeOK
<1>3. ASSUME NEW t \in Task, Promoted(t)
      PROVE  NobodyFails'
  BY <1>3 DEF Promoted, PromotionEnds, PromotingAt, Leave, TypeOK
<1>4. ASSUME NEW t \in Task,
             Replay(t) \/ Snapshot(t) \/ Apply(t) \/ Verify(t) \/ Deliver(t) \/ AskForCommit(t)
             \/ StartAdding(t) \/ Add(t) \/ Resolve(t)
      PROVE  NobodyFails'
  <2>1. UNCHANGED <<crossed, result>>
    BY <1>4 DEF Replay, Snapshot, Apply, Verify, Deliver, AskForCommit, RequestCommit,
                StartAdding, StartPromotion, Add, Resolve, queue
  <2>2. \A u \in Task : step'[u] = step[u] \/
            step'[u] \in {"finished", "apply", "verify", "deliver", "add", "commit", "resolved"}
    BY <1>4 DEF Replay, Snapshot, Apply, Verify, Deliver, AskForCommit, StartAdding, Add,
                Resolve, Goto, RepoTypeOK
  <2> QED BY <2>1, <2>2
<1>5. ASSUME NEW t \in Task, Commit(t)
      PROVE  NobodyFails'
  <2>1. t \in Critical /\ step[t] = "commit"
    BY <1>5 DEF Commit, PromotingAt, IInv, Phases, Critical
  <2>2. InRepo(t) => t \in index /\ t \notin head
    BY <2>1 DEF IInv, PatchKept, Undisturbed, OwnPromotion
  <2>3. step' = [step EXCEPT ![t] = "resolve"]
    BY <1>5, <2>2 DEF Commit, Goto
  <2>4. UNCHANGED <<crossed, result>>
    BY <1>5 DEF Commit, queue
  <2> QED BY <2>3, <2>4 DEF RepoTypeOK
<1>6. ASSUME NEW t \in Task, VerifyFails(t) \/ ReversePatch(t) \/ Reset(t) \/ Fail(t)
      PROVE  FALSE
  BY <1>6 DEF VerifyFails, Accepts, ReversePatch, Reset, Fail, At
<1>7. ASSUME UNCHANGED sharedVars
      PROVE  NobodyFails'
  BY <1>7 DEF sharedVars, queue
<1> QED BY <1>1, <1>2, <1>3, <1>4, <1>5, <1>6, <1>7
        DEF SharedNext, PipelineStep, PromotionStep

LEMMA VerifiedIsPromotedAlone ==
    ASSUME Raises = FALSE
    PROVE  SharedSpec /\ []AloneInRepo => []VerifiedIsPromoted
<1> DEFINE I == broken = {} => OwnPromotion /\ NobodyFails
<1>1. SharedInit => I
  BY DEF SharedInit, Init, OwnPromotion, NobodyFails, Critical
<1>2. /\ TypeOK /\ PermitInv /\ RepoTypeOK /\ IInv /\ AloneInRepo /\ I /\ [SharedNext]_sharedVars
      => I'
  <2> SUFFICES ASSUME TypeOK, PermitInv, RepoTypeOK, IInv, AloneInRepo, I,
                      [SharedNext]_sharedVars, broken' = {}
               PROVE  OwnPromotion' /\ NobodyFails'
    OBVIOUS
  <2>1. broken = {}
    BY DEF SharedNext, Schedule, PipelineStep, PromotionStep, Replay, Snapshot, Apply, Verify,
           VerifyFails, ReversePatch, Reset, Deliver, Succeed, Fail, AskForCommit, StartAdding,
           Add, Commit, Resolve, Promoted, sharedVars
  <2> QED BY <2>1, OwnPromotionInvariant, NobodyFailsInvariant DEF IInv
<1>3. I /\ RepoTypeOK => VerifiedIsPromoted
  BY DEF NobodyFails, VerifiedIsPromoted, RepoTypeOK
<1> QED BY <1>1, <1>2, <1>3, IInvHolds, PTL DEF SharedSpec

\* With max_parallel = 1, a task that was verified is promoted, whichever tasks the
\* queue holds, as long as no command fails and the contracts accept every patch:
\* lowering_config.json:456 needs tasks that run one by one.
THEOREM VerifiedIsPromotedOneByOne ==
    ASSUME Raises = FALSE, MaxParallel = 1
    PROVE  SharedSpec => []VerifiedIsPromoted
<1>1. PermitInv /\ TypeOK => AloneInRepo
  <2> SUFFICES ASSUME PermitInv, TypeOK, NEW t \in Critical, NEW u \in Critical, t # u
               PROVE  FALSE
    BY DEF AloneInRepo
  <2>1. {t, u} \in SUBSET Holding
    BY DEF Critical, Holding
  <2>2. IsFiniteSet(Holding) /\ Cardinality(Holding) \in Nat /\ Cardinality(Holding) <= 1
    BY FS_CardinalityType DEF PermitInv, PermitsAccounted, TypeOK
  <2>3. Cardinality({t, u}) = 2
    <3>1. IsFiniteSet({t}) /\ Cardinality({t}) = 1
      BY FS_Singleton
    <3>2. Cardinality({t} \cup {u}) = 2
      BY <3>1, FS_AddElement
    <3>3. {t, u} = {t} \cup {u}
      OBVIOUS
    <3> QED BY <3>2, <3>3
  <2> QED BY <2>1, <2>2, <2>3, FS_Subset
<1> QED BY <1>1, VerifiedIsPromotedAlone, SchedulerUnchanged, PermitInvHolds, TypeCorrect, PTL

\* The same with any max_parallel, where any two tasks that work in repo_root name
\* a path in common: the file locks then keep their pipelines apart.
THEOREM VerifiedIsPromotedOverlapping ==
    ASSUME Raises = FALSE,
           \A t, u \in Local \cup Cached : t # u => Scope[t] \cap Scope[u] # {}
    PROVE  SharedSpec => []VerifiedIsPromoted
<1> DEFINE Scoped == \A t \in Task : pc[t] # "new" => scope[t] = Scope[t]
<1>1. SharedInit => Scoped
  BY DEF SharedInit, Init
<1>2. TypeOK /\ PermitInv /\ Scoped /\ [SharedNext]_sharedVars => Scoped'
  <2> SUFFICES ASSUME TypeOK, PermitInv, Scoped, [SharedNext]_sharedVars
               PROVE  Scoped'
    OBVIOUS
  <2>1. ASSUME NEW t \in Task, Schedule(t)
        PROVE  Scoped'
    <3>1. CASE Submit(t, Scope[t])
      BY <3>1 DEF Submit, TypeOK
    <3>2. CASE AcquireNext(t) \/ StartPipeline(t)
      BY <3>2 DEF AcquireNext, StartPipeline, TypeOK
    <3> QED BY <2>1, <3>1, <3>2 DEF Schedule
  <2>2. ASSUME NEW t \in Task, Ends(t)
        PROVE  Scoped'
    BY <2>2, EndMoves DEF Moves, Critical
  <2>3. ASSUME NEW t \in Task, PipelineStep(t) \/ PromotionStep(t), ~ Ends(t)
        PROVE  Scoped'
    <3>1. UNCHANGED scope /\ \A u \in Task : pc'[u] # "new" => pc[u] # "new"
      BY <2>3 DEF PipelineStep, PromotionStep, Ends, Replay, Snapshot, Apply, Verify,
                  VerifyFails, ReversePatch, Reset, Deliver, AskForCommit, RequestCommit,
                  StartAdding, StartPromotion, Add, Commit, Resolve, queue, TypeOK
    <3> QED BY <3>1
  <2>4. ASSUME UNCHANGED sharedVars
        PROVE  Scoped'
    BY <2>4 DEF sharedVars, queue
  <2> QED BY <2>1, <2>2, <2>3, <2>4 DEF SharedNext
<1>3. TypeOK /\ Scoped /\ CriticalOwnsScope => AloneInRepo
  BY DEF AloneInRepo, InRepo, CriticalOwnsScope, Critical, Owns
<1> HIDE DEF Scoped
<1> QED BY <1>1, <1>2, <1>3, VerifiedIsPromotedAlone, SchedulerUnchanged, PermitInvHolds,
           TypeCorrect, CriticalOwnsScopeHolds, PTL DEF SharedSpec
===============================================================================
