------------------------------ MODULE SharedRepo ------------------------------
(*****************************************************************************)
(* MergeQueue and what its pipelines do to one repository.  Tasks with       *)
(* disjoint files run at the same time; those with a local sandbox share     *)
(* repo_root's working tree, index and HEAD, and a failed verification       *)
(* resets repo_root whatever the sandbox.  Every git command is a step; the  *)
(* steps of several pipelines and of the thread that promotes interleave.    *)
(*                                                                           *)
(* A tree is the set of tasks whose patch it holds over the base commit, and *)
(* a commit is its tree.  The pipeline of a task makes one attempt           *)
(* (PipelineRun has the others); run() is not cancelled.  What the runs      *)
(* themselves write (events, cache, summaries) is ignored by git.            *)
(*****************************************************************************)
EXTENDS MergeQueue

CONSTANTS
    Scope,       \* Scope[t]: authorized_files of task t
    Local,       \* the tasks with a local sandbox; the others have a worktree
    Committing,  \* the tasks with commit_on_success
    Cached,      \* the tasks whose patch is in the action cache
    Raises       \* a command may fail

ASSUME ScopeAssumption == Scope \in [Task -> SUBSET Path]
ASSUME KindsAssumption == Local \subseteq Task /\ Committing \subseteq Task /\ Cached \subseteq Task
ASSUME RaisesAssumption == Raises \in BOOLEAN

VARIABLES
    step,      \* step[t]: the next git command of t's pipeline or promotion
    head,      \* repo_root: HEAD,
    index,     \* the index
    work,      \* and the working tree
    mirror,    \* mirror[t]: the worktree of t
    stable,    \* stable[t]: stable_point
    broken,    \* the tasks whose patch the contracts refuse in any tree
    commit,    \* commit[t]: {} or the tree of QueueResult.commit
    accepted,  \* history: the tasks whose verification succeeded
    crossed    \* history: the tasks under way when another one reset repo_root

queue == <<pc, scope, permits, slotWaiters, owner, waiters, promoting, result>>
repo  == <<head, index, work>>
sharedVars == <<queue, step, repo, mirror, stable, broken, commit, accepted, crossed>>

\* The run's workspace is repo_root, or the worktree of the task.
InRepo(t)    == t \in Local \cup Cached
Workspace(t) == IF InRepo(t) THEN work ELSE mirror[t]

SharedInit ==
    /\ Init
    /\ step = [t \in Task |-> "start"]
    /\ head = {} /\ index = {} /\ work = {}
    /\ mirror = [t \in Task |-> {}] /\ stable = [t \in Task |-> {}]
    /\ broken \in SUBSET Task
    /\ commit = [t \in Task |-> {}]
    /\ accepted = {} /\ crossed = {}

-------------------------------------------------------------------------------
(* The scheduler, with the repository as it is.                              *)

Schedule(t) ==
    /\ Submit(t, Scope[t]) \/ AcquireNext(t) \/ StartPipeline(t)
    /\ UNCHANGED <<step, repo, mirror, stable, broken, commit, accepted, crossed>>

-------------------------------------------------------------------------------
(* The pipeline of a task: git commands on its workspace.                    *)

At(t, s)   == pc[t] = "running" /\ step[t] = s
Goto(t, s) == step' = [step EXCEPT ![t] = s]

\* Puts the tree T into the workspace of t.
SetWorkspace(t, T) ==
    IF InRepo(t) THEN work' = T /\ UNCHANGED mirror
    ELSE mirror' = [mirror EXCEPT ![t] = T] /\ UNCHANGED work

\* A cache hit: VCSAdapter.apply_patch in repo_root, whatever the sandbox.
Replay(t) ==
    /\ At(t, "start") /\ t \in Cached
    /\ work' = work \cup {t}
    /\ Goto(t, "finished")
    /\ UNCHANGED <<queue, head, index, mirror, stable, broken, commit, accepted, crossed>>

\* snapshot_stable, then the adapter's execute: a worktree is one of base_commit.
Snapshot(t) ==
    /\ At(t, "start") /\ t \notin Cached
    /\ stable' = [stable EXCEPT ![t] = head]
    /\ Goto(t, "apply")
    /\ UNCHANGED <<queue, repo, mirror, broken, commit, accepted, crossed>>

\* runtime_adapter.apply_patch.
Apply(t) ==
    /\ At(t, "apply")
    /\ SetWorkspace(t, Workspace(t) \cup {t})
    /\ Goto(t, "verify")
    /\ UNCHANGED <<queue, head, index, stable, broken, commit, accepted, crossed>>

\* Mutant of Accepts: the tests are run in repo_root.
AcceptsRepo(t) == work \cap broken = {}

\* run_post_patch: the tests see the workspace with all that is in it.
Accepts(t) == Workspace(t) \cap broken = {}

Verify(t) ==
    /\ At(t, "verify") /\ Accepts(t)
    /\ accepted' = accepted \cup {t}
    /\ Goto(t, "deliver")
    /\ UNCHANGED <<queue, repo, mirror, stable, broken, commit, crossed>>

VerifyFails(t) ==
    /\ At(t, "verify") /\ ~Accepts(t)
    /\ Goto(t, "reverse")
    /\ UNCHANGED <<queue, repo, mirror, stable, broken, commit, accepted, crossed>>

ReversePatch(t) ==
    /\ At(t, "reverse") /\ t \in Workspace(t)
    /\ SetWorkspace(t, Workspace(t) \ {t})
    /\ Goto(t, "reset")
    /\ UNCHANGED <<queue, head, index, stable, broken, commit, accepted, crossed>>

\* revert_to_stable: git reset --hard and git clean -fd in repo_root.
Reset(t) ==
    /\ At(t, "reset")
    /\ head' = stable[t] /\ index' = stable[t] /\ work' = stable[t]
    /\ crossed' = crossed \cup {u \in Critical \ {t} : step[u] # "start"}
    /\ Goto(t, "failed")
    /\ UNCHANGED <<queue, mirror, stable, broken, commit, accepted>>

\* VCSAdapter.apply_patch: applied if it is not there (any more).
Deliver(t) ==
    /\ At(t, "deliver")
    /\ SetWorkspace(t, Workspace(t) \cup {t})
    /\ Goto(t, "finished")
    /\ UNCHANGED <<queue, head, index, stable, broken, commit, accepted, crossed>>

-------------------------------------------------------------------------------
(* The end of the pipeline, and the promotion.                               *)

Succeed(t) ==
    /\ At(t, "finished") /\ t \notin Committing
    /\ PipelineEnds(t, "ok")
    /\ UNCHANGED <<step, repo, mirror, stable, broken, commit, accepted, crossed>>

\* The VerificationFailure is raised again, the patch to be reversed is not there
\* any more, or something else fails (the baseline, a command, a patch that does
\* not apply, the cache).  Compensation leaves repo_root alone.
Fail(t) ==
    /\ \/ At(t, "failed")
       \/ At(t, "reverse") /\ t \notin Workspace(t)
       \/ Raises /\ pc[t] = "running"
    /\ PipelineEnds(t, "failed")
    /\ UNCHANGED <<step, repo, mirror, stable, broken, commit, accepted, crossed>>

AskForCommit(t) ==
    /\ At(t, "finished") /\ t \in Committing
    /\ RequestCommit(t)
    /\ UNCHANGED <<step, repo, mirror, stable, broken, commit, accepted, crossed>>

StartAdding(t) ==
    /\ StartPromotion(t)
    /\ Goto(t, "add")
    /\ UNCHANGED <<repo, mirror, stable, broken, commit, accepted, crossed>>

PromotingAt(t, s) == t \in promoting /\ step[t] = s

\* git add .: the whole working tree.
Add(t) ==
    /\ PromotingAt(t, "add")
    /\ index' = IF InRepo(t) THEN work ELSE index
    /\ Goto(t, "commit")
    /\ UNCHANGED <<queue, head, work, mirror, stable, broken, commit, accepted, crossed>>

\* git commit; without a change to HEAD it fails.  The worktree of a task holds its
\* patch, which nobody committed before.
Commit(t) ==
    /\ PromotingAt(t, "commit")
    /\ IF InRepo(t) /\ index = head
       THEN Goto(t, "nothing") /\ UNCHANGED head
       ELSE /\ Goto(t, "resolve")
            /\ head' = IF InRepo(t) THEN index ELSE head
    /\ UNCHANGED <<queue, index, work, mirror, stable, broken, commit, accepted, crossed>>

\* Mutant of Tip: the commit of repo_root.
TipOfRepo(t) == head

\* git rev-parse HEAD in the workspace.
Tip(t) == IF InRepo(t) THEN head ELSE mirror[t]

Resolve(t) ==
    /\ PromotingAt(t, "resolve")
    /\ commit' = [commit EXCEPT ![t] = {Tip(t)}]
    /\ Goto(t, "resolved")
    /\ UNCHANGED <<queue, repo, mirror, stable, broken, accepted, crossed>>

Promoted(t) ==
    /\ \/ PromotingAt(t, "resolved") /\ PromotionEnds(t, "ok")
       \/ /\ PromotingAt(t, "nothing") \/ (Raises /\ step[t] \in {"add", "commit", "resolve"})
          /\ PromotionEnds(t, "failed")
    /\ UNCHANGED <<step, repo, mirror, stable, broken, commit, accepted, crossed>>

-------------------------------------------------------------------------------
PipelineStep(t) == \/ Replay(t) \/ Snapshot(t) \/ Apply(t) \/ Verify(t) \/ VerifyFails(t)
                   \/ ReversePatch(t) \/ Reset(t) \/ Deliver(t) \/ Succeed(t) \/ Fail(t)
PromotionStep(t) == \/ AskForCommit(t) \/ StartAdding(t) \/ Add(t) \/ Commit(t) \/ Resolve(t)
                    \/ Promoted(t)

SharedNext == \E t \in Task : Schedule(t) \/ PipelineStep(t) \/ PromotionStep(t)

SharedSpec == SharedInit /\ [][SharedNext]_sharedVars

-------------------------------------------------------------------------------
(* Properties.                                                               *)

\* The type of the state; repo_root never gets the patch of a worktree's task.
RepoTypeOK ==
    /\ step \in [Task -> {"start", "apply", "verify", "reverse", "reset", "deliver",
                          "finished", "failed", "add", "commit", "resolve", "resolved",
                          "nothing"}]
    /\ {head, index, work} \subseteq SUBSET (Local \cup Cached)
    /\ mirror \in [Task -> SUBSET Task] /\ stable \in [Task -> SUBSET (Local \cup Cached)]
    /\ broken \subseteq Task /\ commit \in [Task -> SUBSET SUBSET Task]
    /\ accepted \subseteq Task /\ crossed \subseteq Task

\* lowering_config.json:41 with several tasks: a task ends well only if the
\* contracts accept its patch, as long as no other task's rollback crossed a run
\* in repo_root.  (Such a rollback may take the patch out before the tests and
\* the delivery put it back afterwards.)
OkMeansVerified ==
    \A t \in Task \ Cached : result[t] = "ok" /\ t \in broken => t \in crossed /\ InRepo(t)

\* The commit a task reports holds its patch, unless a rollback crossed it; that
\* of a task with a worktree holds nothing else.
CommitHoldsPatch ==
    \A t \in Task : \A c \in commit[t] :
        IF InRepo(t) THEN t \in c \/ t \in crossed ELSE c = {t}

\* What the file locks are worth to commits: the rollback of t takes back the
\* commit of a task that shares a file with t only if another rollback crossed t.
RollbackKeepsOverlapping ==
    \A t, u \in Task :
        /\ pc[t] = "running" /\ step[t] \in {"apply", "verify", "reverse", "reset"}
        /\ t \notin crossed /\ Files(t) \cap Files(u) # {}
        /\ u \in Committing /\ result[u] = "ok" /\ u \in head
        => u \in stable[t]

-------------------------------------------------------------------------------
(* What the documents promise and the code does not keep.                    *)

\* lowering_config.json:456, "Verified outputs can be promoted to commits
\* atomically": where no command fails and the contracts accept every patch, a
\* task that was verified is not reported as failed.
VerifiedIsPromoted ==
    broken = {} => \A t \in accepted : result[t] # "failed"
===============================================================================
