------------------------------ MODULE PipelineRun ------------------------------
(*****************************************************************************)
(* Pipeline.run of core/pipeline.py for the requests of one task, one run    *)
(* after the other: the lowering passes, the replay of a cached patch, and   *)
(* the attempts of _pass_execute_or_replay with their sandbox, verification, *)
(* rollback, escalation and compensation.  The collaborators it calls are    *)
(* here with what they change: VCSAdapter, the runtime adapters, Saga,       *)
(* TieredDispatcher, ActionCache and EventStore.                             *)
(*                                                                           *)
(* A run is sequential; what varies is the request, what the model answers,  *)
(* which command fails (Faults), and where the process dies.  Trees are      *)
(* abstracted to the changes they hold over the base commit.                 *)
(*****************************************************************************)
EXTENDS Naturals, Sequences, FiniteSets

CONSTANTS
    Patch,        \* the patches executors answer with
    NoPatch,
    Loose,        \* changes of the workspace that no patch holds: the
                  \* executor's direct writes, the operator's own edits
    Clash,        \* loose changes that keep patches from being applied
    Fixing,       \* the changes that make the fail-to-pass selectors pass
    Breaking,     \* Breaking[c]: the changes that contracts c refuse
    Repeatable,   \* patches that git can apply again to a second place
    Deleting,     \* patches that delete a file besides changing others
    OutOfScope,   \* patches that touch files outside authorized_files
    NoTree,       \* no such directory
    Request,      \* what PipelineRequests of the task may differ in
    Costs,        \* what one model call may cost
    MaxCost,      \* resource_constraints.max_cost_usd
    Faults,       \* the kinds of failure considered
    MaxRuns       \* bound: runs of the task, crashed ones included

Change   == Patch \cup Loose
Presence == {"absent", "partial", "once", "twice"}
Tree     == [Change -> Presence]
Base     == [x \in Change |-> "absent"]
Sandbox  == {"local", "worktree", "container", "remote"}

ASSUME PatchAssumption == NoPatch \notin Patch /\ Patch \cap Loose = {} /\ Clash \subseteq Loose
ASSUME NoTreeAssumption == NoTree \notin Tree
ASSUME CostAssumption == Costs \subseteq Nat /\ MaxCost \in Nat
ASSUME RequestAssumption ==
    Request \subseteq [sandbox   : Sandbox,
                       contracts : DOMAIN Breaking,
                       tiered    : BOOLEAN,   \* executor is a TieredDispatcher
                       tier      : {"draft", "production"},
                       escalate  : BOOLEAN,   \* allow_escalation
                       attempts  : 1..2,      \* max_attempts
                       exposed   : BOOLEAN]   \* git clean reaches the event store,
                                              \* the cache and the summary
ASSUME FaultAssumption ==
    Faults \subseteq {"lower", "snapshot", "prepare", "executor", "direct",
                      "command", "teardown", "cache", "flaky", "crash"}

VARIABLES
    pc,        \* where the run is
    run,       \* how many runs were started
    req,       \* the request of this run
    attempt,   \* attempt, and attempt_plan's model tier
    tier,
    patch,     \* result.patch
    cost,      \* cost[a]: what attempt a's model call cost
    spent,     \* total_cost
    prePatch,  \* the tree of the pre-patch evidence
    verified,  \* the tree of the post-patch evidence
    tree,      \* tree[d]: what directory d holds
    live,      \* the containers and remote sandboxes that exist: <<run, attempt>>
    saga,      \* saga._steps: the attempts whose session it would compensate
    events,    \* the run's events, as pipeline_state and the summary see them
    log,       \* those of them the event store still holds
    summary,   \* summary.json of the task
    cache      \* the action cache's entry under the task's key

model   == <<patch, cost, spent>>
proof   == <<prePatch, verified>>
place   == <<tree, live, saga>>
history == <<events, log>>
vars == <<pc, run, req, attempt, tier, model, proof, place, history, summary, cache>>

EventType == {"frontend_lowered", "middle_end_lowered", "context_optimized",
              "execution_plan_lowered", "cache_hit", "runtime_prepared",
              "verification_pre_patch", "dispatch_attempt", "execution_completed",
              "diagnostic", "compensation_completed"}
Event     == [type : EventType, attempt : 1..2]
NoEntry   == [patch |-> NoPatch, base |-> NoTree, tree |-> NoTree, contracts |-> "none"]

\* The attempts of the records of one type, under their places in the list.
Only(seen, type) == [i \in {j \in DOMAIN seen : seen[j].type = type} |-> seen[i].attempt]

NoSummary == [run |-> 0, status |-> "none", diagnostics |-> Only(<<>>, "diagnostic"),
              dispatch |-> Only(<<>>, "dispatch_attempt")]
Ended     == {"idle", "success", "failed", "escaped", "crashed"}

\* Where a session's commands run, and the workspace the pipeline delivers.
Site      == CASE req.sandbox = "local"  -> "repo"
               [] req.sandbox = "remote" -> "remote"
               [] OTHER                  -> "mirror"
Workspace == IF req.sandbox = "local" THEN "repo" ELSE "mirror"

-------------------------------------------------------------------------------
(* git apply, and the judgement of the verification contracts.               *)

Clean(T)       == \A x \in Clash : T[x] = "absent"
Applies(T, p)  == Clean(T) /\ (T[p] = "absent" \/ (p \in Repeatable /\ T[p] = "once"))
Reverses(T, p) == Clean(T) /\ T[p] \in {"once", "twice"}
Plus(T, p)  == [T EXCEPT ![p] = IF @ = "absent" THEN "once" ELSE "twice"]
Minus(T, p) == [T EXCEPT ![p] = IF @ = "twice" THEN "once" ELSE "absent"]

Fixed(T)    == \E x \in Fixing : T[x] \in {"once", "twice"}
Green(c, T) == \A x \in Breaking[c] : T[x] = "absent"

\* Mutant of VcsApply: no look at whether the patch is there already.
VcsApplyForward(T, p) == IF Applies(T, p) THEN Plus(T, p) ELSE NoTree

\* Mutant of VcsApply: the patch is applied without a check.
VcsApplyBlindly(T, p) == Plus(T, p)

\* VCSAdapter.apply_patch: NoTree is PipelineFailure.
VcsApply(T, p) == IF Applies(T, p) THEN Plus(T, p)
                  ELSE IF Reverses(T, p) THEN T ELSE NoTree

-------------------------------------------------------------------------------
(* Events, failures and the summary.                                         *)

Stamp(type) == [type |-> type, attempt |-> attempt]

Record(type) == /\ events' = Append(events, Stamp(type))
                /\ log' = Append(log, Stamp(type))

RecordBoth(type, then) == /\ events' = Append(Append(events, Stamp(type)), Stamp(then))
                          /\ log' = Append(Append(log, Stamp(type)), Stamp(then))

\* The except clause: diagnostic, then saga.compensate().
Raise == pc' = "abort" /\ Record("diagnostic")

\* _write_summary keeps the diagnostics and the dispatch attempts of the events it
\* is given: none of a PipelineFailure that does not carry pipeline_state.
Summarize(status, seen) ==
    summary' = [run |-> run, status |-> status, diagnostics |-> Only(seen, "diagnostic"),
                dispatch |-> Only(seen, "dispatch_attempt")]

EndWith(status, seen) == pc' = status /\ Summarize(status, seen)

Init == /\ pc = "idle" /\ run = 0
        /\ req \in Request
        /\ attempt = 1 /\ tier = "production"
        /\ patch = NoPatch /\ cost = [a \in 1..2 |-> 0] /\ spent = 0
        /\ prePatch = NoTree /\ verified = NoTree
        /\ \E x \in SUBSET Loose :
              tree = [repo   |-> [c \in Change |-> IF c \in x THEN "once" ELSE "absent"],
                      mirror |-> NoTree, remote |-> NoTree]
        /\ live = {} /\ saga = <<>>
        /\ events = <<>> /\ log = <<>>
        /\ summary = NoSummary /\ cache = NoEntry

-------------------------------------------------------------------------------
(* Pipeline.run and the lowering passes.                                     *)

\* A fresh Pipeline is given the next request.  What an earlier run of the
\* task left behind is still there: trees, sandboxes, cache and summary.json.
StartRun(r) ==
    /\ pc \in Ended /\ run < MaxRuns
    /\ pc' = "lowering" /\ run' = run + 1
    /\ req' = r /\ tier' = r.tier /\ attempt' = 1
    /\ patch' = NoPatch /\ cost' = [a \in 1..2 |-> 0] /\ spent' = 0
    /\ prePatch' = NoTree /\ verified' = NoTree
    /\ tree' = [tree EXCEPT !["remote"] = NoTree]
    /\ saga' = <<>> /\ events' = <<>> /\ log' = <<>>
    /\ UNCHANGED <<live, summary, cache>>

Lowered == <<"frontend_lowered", "middle_end_lowered", "context_optimized",
             "execution_plan_lowered">>

Lower == /\ pc = "lowering"
         /\ Record(Lowered[Len(events) + 1])
         /\ pc' = IF Len(events) + 1 = Len(Lowered) THEN "lookup" ELSE pc
         /\ UNCHANGED <<run, req, attempt, tier, model, proof, place, summary, cache>>

\* An error of validation, a parser or SQLite is no PipelineFailure: run() does not
\* handle it.
LowerFails == /\ pc \in {"lowering", "lookup"} /\ "lower" \in Faults
              /\ pc' = "escaped"
              /\ UNCHANGED <<run, req, attempt, tier, model, proof, place, history,
                             summary, cache>>

-------------------------------------------------------------------------------
(* The action cache: replay, or go on to the attempts.                       *)

\* The cached patch is applied to repo_root whatever the sandbox type; nothing
\* is verified.
Replay ==
    /\ pc = "lookup" /\ cache # NoEntry
    /\ cache.patch \notin OutOfScope /\ VcsApply(tree["repo"], cache.patch) # NoTree
    /\ tree' = [tree EXCEPT !["repo"] = VcsApply(@, cache.patch)]
    /\ Record("cache_hit")
    /\ patch' = cache.patch
    /\ pc' = "report"
    /\ UNCHANGED <<run, req, attempt, tier, cost, spent, proof, live, saga, summary, cache>>

\* validate_paths or git refuses it, outside the try statement: no diagnostic, no
\* pipeline_state.
ReplayFails ==
    /\ pc = "lookup" /\ cache # NoEntry
    /\ cache.patch \in OutOfScope \/ VcsApply(tree["repo"], cache.patch) = NoTree
    /\ EndWith("failed", <<>>)
    /\ UNCHANGED <<run, req, attempt, tier, model, proof, place, history, cache>>

SnapshotStable ==
    /\ pc = "lookup" /\ cache = NoEntry
    /\ pc' = "prepare"
    /\ UNCHANGED <<run, req, attempt, tier, model, proof, place, history, summary, cache>>

SnapshotFails ==
    /\ pc = "lookup" /\ cache = NoEntry /\ "snapshot" \in Faults
    /\ EndWith("failed", <<>>)
    /\ UNCHANGED <<run, req, attempt, tier, model, proof, place, history, cache>>

-------------------------------------------------------------------------------
(* One attempt: sandbox, baseline, execution, patch, verification.           *)

\* WorktreeManager.create returns the directory of an earlier run as it is.
Mirror == IF tree["mirror"] = NoTree THEN Base ELSE tree["mirror"]

\* The name of the container is a function of task, commit and constitution.
NameTaken == req.sandbox = "container" /\ live # {}

\* add_compensation.
Registered == Append(saga, attempt)

\* Mutant of AfterPrepare: the baseline is skipped.
StraightToExecute == "execute"

\* The baseline is verified once, in the first attempt.
AfterPrepare == IF prePatch = NoTree THEN "baseline" ELSE "execute"

Prepare ==
    /\ pc = "prepare" /\ ~NameTaken
    /\ tree' = CASE req.sandbox = "local"  -> tree
                 [] req.sandbox = "remote" ->
                        [tree EXCEPT !["mirror"] = Mirror, !["remote"] = Mirror]
                 [] OTHER -> [tree EXCEPT !["mirror"] = Mirror]
    /\ live' = IF req.sandbox \in {"container", "remote"}
               THEN live \cup {<<run, attempt>>} ELSE live
    /\ saga' = Registered
    /\ Record("runtime_prepared")
    /\ pc' = AfterPrepare
    /\ UNCHANGED <<run, req, attempt, tier, model, proof, summary, cache>>

\* git worktree add, docker run, provider.create or the upload fails.  Docker
\* and a failed upload remove the worktree; a failed create leaves it.
PrepareFails ==
    /\ pc = "prepare"
    /\ "prepare" \in Faults \/ NameTaken
    /\ \E m \in CASE req.sandbox = "container" -> {tree["mirror"], NoTree}
                  [] req.sandbox = "remote"    -> {tree["mirror"], Mirror, NoTree}
                  [] OTHER                     -> {tree["mirror"]} :
          tree' = [tree EXCEPT !["mirror"] = m]
    /\ Raise
    /\ UNCHANGED <<run, req, attempt, tier, model, proof, live, saga, summary, cache>>

\* Mutant of Reproduced: a selector that passes is evidence all the same.
AlwaysReproduced == TRUE

\* _run_fail_to_pass: every selector fails.
Reproduced == ~Fixed(tree[Site])

\* run_pre_patch: the fail-to-pass selectors fail, as they must.
BaselineFails ==
    /\ pc = "baseline" /\ Reproduced
    /\ prePatch' = tree[Site]
    /\ Record("verification_pre_patch")
    /\ pc' = "execute"
    /\ UNCHANGED <<run, req, attempt, tier, model, verified, place, summary, cache>>

\* One of them passes, or a command cannot be run.
BaselineRaises ==
    /\ pc = "baseline"
    /\ ~Reproduced \/ "command" \in Faults
    /\ Raise
    /\ UNCHANGED <<run, req, attempt, tier, model, proof, place, summary, cache>>

\* Mutant of OverBudget: no budget.
NeverOverBudget(c) == FALSE

\* TieredDispatcher._check_budget.
OverBudget(c) == c > MaxCost

\* The executor may write into the workspace, whether it answers with a patch, raises
\* or is stopped by the monitor.  TieredDispatcher.execute charges the call and only
\* then looks at the budget.
Execute(p, c, x) ==
    /\ pc = "execute"
    /\ c = 0 \/ req.tiered
    /\ x \subseteq Loose /\ (x = {} \/ "direct" \in Faults)
    /\ tree' = [tree EXCEPT ![Workspace] =
                    [y \in Change |-> IF y \in x THEN "once" ELSE @[y]]]
    /\ cost' = [cost EXCEPT ![attempt] = c]
    /\ \/ /\ OverBudget(c) \/ "executor" \in Faults
          /\ Raise /\ UNCHANGED patch
       \/ /\ ~OverBudget(c)
          /\ patch' = p
          /\ pc' = "apply"
          /\ UNCHANGED history
    /\ UNCHANGED <<run, req, attempt, tier, spent, proof, live, saga, summary, cache>>

\* validate_paths, runtime_adapter.apply_patch.
Apply ==
    /\ pc = "apply" /\ patch \notin OutOfScope /\ Applies(tree[Site], patch)
    /\ tree' = [tree EXCEPT ![Site] = Plus(@, patch)]
    /\ spent' = spent + cost[attempt]
    /\ pc' = "verify"
    /\ UNCHANGED <<run, req, attempt, tier, patch, cost, proof, live, saga, history,
                   summary, cache>>

ApplyRaises ==
    /\ pc = "apply"
    /\ patch \in OutOfScope \/ ~Applies(tree[Site], patch) \/ "command" \in Faults
    /\ Raise
    /\ UNCHANGED <<run, req, attempt, tier, model, proof, place, summary, cache>>

\* run_post_patch succeeds; it does not look at the fail-to-pass contracts.
Verify ==
    /\ pc = "verify" /\ Green(req.contracts, tree[Site])
    /\ verified' = tree[Site]
    /\ pc' = "sync"
    /\ UNCHANGED <<run, req, attempt, tier, model, prePatch, place, history, summary, cache>>

\* Mutant of VerifyFails: the next attempt starts without a rollback.
VerifyFailsRetries ==
    /\ pc = "verify"
    /\ ~Green(req.contracts, tree[Site]) \/ "flaky" \in Faults
    /\ pc' = "escalate"
    /\ UNCHANGED <<run, req, attempt, tier, model, proof, place, history, summary, cache>>

\* VerificationFailure.
VerifyFails ==
    /\ pc = "verify"
    /\ ~Green(req.contracts, tree[Site]) \/ "flaky" \in Faults
    /\ pc' = "reverse"
    /\ UNCHANGED <<run, req, attempt, tier, model, proof, place, history, summary, cache>>

\* Any other exception of the verification: no rollback.
VerifyRaises ==
    /\ pc = "verify" /\ "command" \in Faults
    /\ Raise
    /\ UNCHANGED <<run, req, attempt, tier, model, proof, place, summary, cache>>

-------------------------------------------------------------------------------
(* Rollback after a failed verification, and the next attempt.               *)

\* A step of the rollback raises: the rest of it is left to compensation.
RollbackRaises ==
    /\ \/ pc = "reverse" /\ (~Reverses(tree[Site], patch) \/ "command" \in Faults)
       \/ pc = "revert"  /\ "command" \in Faults
    /\ Raise
    /\ UNCHANGED <<run, req, attempt, tier, model, proof, place, summary, cache>>

\* So does the compensation of the attempt: its sandbox may be gone and the worktree
\* still there.
TearDownRaises ==
    /\ pc = "compensate" /\ req.sandbox # "local" /\ "teardown" \in Faults
    /\ live' \in {live, live \ {<<run, attempt>>}}
    /\ Raise
    /\ UNCHANGED <<run, req, attempt, tier, model, proof, tree, saga, summary, cache>>

ReversePatch ==
    /\ pc = "reverse" /\ Reverses(tree[Site], patch)
    /\ tree' = [tree EXCEPT ![Site] = Minus(@, patch)]
    /\ pc' = "revert"
    /\ UNCHANGED <<run, req, attempt, tier, model, proof, live, saga, history,
                   summary, cache>>

\* Mutant of RevertToStable: only what the run itself may have changed is reset.
RevertNothing ==
    /\ pc = "revert"
    /\ pc' = "compensate"
    /\ UNCHANGED <<run, req, attempt, tier, model, proof, place, history, summary, cache>>

\* git reset --hard and git clean -fd in repo_root, whatever the sandbox: all
\* uncommitted work goes, and every untracked file that is not ignored; the event
\* store, the action cache and the summary may be among them.
RevertToStable ==
    /\ pc = "revert"
    /\ tree' = [tree EXCEPT !["repo"] = Base]
    /\ IF req.exposed
       THEN log' = <<>> /\ cache' = NoEntry /\ summary' = NoSummary
       ELSE UNCHANGED <<log, cache, summary>>
    /\ pc' = "compensate"
    /\ UNCHANGED <<run, req, attempt, tier, model, proof, live, saga, events>>

\* runtime_adapter.compensate(session of attempt a).  Whether docker rm succeeds
\* is not looked at.
TearDown(a) ==
    IF req.sandbox = "local" THEN UNCHANGED <<tree, live>>
    ELSE /\ tree' = [tree EXCEPT !["mirror"] = NoTree, !["remote"] = NoTree]
         /\ \/ live' = live \ {<<run, a>>}
            \/ req.sandbox = "container" /\ "teardown" \in Faults /\ UNCHANGED live

Compensate ==
    /\ pc = "compensate"
    /\ TearDown(attempt)
    /\ pc' = "escalate"
    /\ UNCHANGED <<run, req, attempt, tier, model, proof, saga, history, summary, cache>>

\* TieredDispatcher.next_attempt_plan.
MayEscalate == req.tiered /\ attempt < req.attempts /\ req.escalate /\ tier = "draft"

\* Mutant of Escalate: the attempt that failed is not recorded.
EscalateSilently ==
    /\ pc = "escalate" /\ MayEscalate
    /\ attempt' = attempt + 1
    /\ tier' = "production"
    /\ patch' = NoPatch
    /\ pc' = "prepare"
    /\ UNCHANGED <<run, req, cost, spent, proof, place, history, summary, cache>>

\* Beyond the budget it raises BudgetExceeded, before the event is appended.
Escalate ==
    /\ pc = "escalate" /\ MayEscalate
    /\ IF OverBudget(spent)
       THEN Raise /\ UNCHANGED <<attempt, tier, patch>>
       ELSE /\ Record("dispatch_attempt")
            /\ attempt' = attempt + 1
            /\ tier' = "production"
            /\ patch' = NoPatch
            /\ pc' = "prepare"
    /\ UNCHANGED <<run, req, cost, spent, proof, place, summary, cache>>

\* The VerificationFailure is raised again.
GiveUp ==
    /\ pc = "escalate" /\ ~MayEscalate
    /\ RecordBoth("dispatch_attempt", "diagnostic")
    /\ pc' = "abort"
    /\ UNCHANGED <<run, req, attempt, tier, model, proof, place, summary, cache>>

-------------------------------------------------------------------------------
(* Delivery of a verified patch.                                             *)

\* sync_back_to_local: a remote sandbox's files are downloaded, those named on
\* a "+++ b/" line, so no deletion; a download that fails is skipped.
SyncBack ==
    /\ pc = "sync"
    /\ \E copied \in IF req.sandbox # "remote" THEN {tree[Workspace][patch]}
                     ELSE {IF patch \in Deleting THEN "partial" ELSE tree["remote"][patch]}
                          \cup (IF "command" \in Faults THEN {"absent"} ELSE {}) :
          tree' = [tree EXCEPT ![Workspace][patch] = copied]
    /\ pc' = "deliver"
    /\ UNCHANGED <<run, req, attempt, tier, model, proof, live, saga, history,
                   summary, cache>>

\* Mutant of Deliver: the patch goes to repo_root.
DeliverToRepo ==
    /\ pc = "deliver" /\ VcsApply(tree["repo"], patch) # NoTree
    /\ tree' = [tree EXCEPT !["repo"] = VcsApply(@, patch)]
    /\ pc' = "cache"
    /\ UNCHANGED <<run, req, attempt, tier, model, proof, live, saga, history,
                   summary, cache>>

Deliver ==
    /\ pc = "deliver" /\ VcsApply(tree[Workspace], patch) # NoTree
    /\ tree' = [tree EXCEPT ![Workspace] = VcsApply(@, patch)]
    /\ pc' = "cache"
    /\ UNCHANGED <<run, req, attempt, tier, model, proof, live, saga, history,
                   summary, cache>>

DeliverRaises ==
    /\ \/ pc = "sync" /\ req.sandbox = "remote" /\ "command" \in Faults
       \/ pc = "deliver" /\ (VcsApply(tree[Workspace], patch) = NoTree \/ "command" \in Faults)
       \/ pc = "cache" /\ "cache" \in Faults
    /\ Raise
    /\ UNCHANGED <<run, req, attempt, tier, model, proof, place, summary, cache>>

\* action_cache.put.
PutInCache ==
    /\ pc = "cache"
    /\ cache' = [patch |-> patch, base |-> prePatch, tree |-> verified,
                 contracts |-> req.contracts]
    /\ pc' = "record"
    /\ UNCHANGED <<run, req, attempt, tier, model, proof, place, history, summary>>

\* The last two events.  An append to the event store is taken to succeed.
Complete ==
    /\ pc = "record"
    /\ RecordBoth("dispatch_attempt", "execution_completed")
    /\ pc' = "report"
    /\ UNCHANGED <<run, req, attempt, tier, model, proof, place, summary, cache>>

\* The pass returns; the saga is dropped with its sessions.
Report ==
    /\ pc = "report"
    /\ EndWith("success", events)
    /\ UNCHANGED <<run, req, attempt, tier, model, proof, place, history, cache>>

-------------------------------------------------------------------------------
(* saga.compensate() in the except clause, and the end of the run.           *)

\* Mutant of CompensateStep: the first session only.
CompensateLast ==
    /\ pc = "abort" /\ saga # <<>>
    /\ saga' = <<>>
    /\ TearDown(saga[1])
    /\ UNCHANGED <<pc, run, req, attempt, tier, model, proof, history, summary, cache>>

\* Mutant of CompensateStep: the step is not taken off the list.
CompensateForever ==
    /\ pc = "abort" /\ saga # <<>>
    /\ TearDown(saga[Len(saga)])
    /\ UNCHANGED <<pc, run, req, attempt, tier, model, proof, saga, history, summary, cache>>

CompensateStep ==
    /\ pc = "abort" /\ saga # <<>>
    /\ saga' = SubSeq(saga, 1, Len(saga) - 1)
    /\ TearDown(saga[Len(saga)])
    /\ UNCHANGED <<pc, run, req, attempt, tier, model, proof, history, summary, cache>>

\* A compensation raises: a PipelineFailure (a worktree that cannot be removed)
\* is summarized without events, a provider's own error escapes from run().
\* What is left of the saga is never compensated; of this session the sandbox may
\* be gone and the worktree still there.
CompensateRaises ==
    /\ pc = "abort" /\ saga # <<>> /\ req.sandbox # "local" /\ "teardown" \in Faults
    /\ live' \in {live, live \ {<<run, saga[Len(saga)]>>}}
    /\ \/ EndWith("failed", <<>>)
       \/ pc' = "escaped" /\ UNCHANGED summary
    /\ UNCHANGED <<run, req, attempt, tier, model, proof, tree, saga, history, cache>>

Fail ==
    /\ pc = "abort" /\ saga = <<>>
    /\ Record("compensation_completed")
    /\ EndWith("failed", events')
    /\ UNCHANGED <<run, req, attempt, tier, model, proof, place, cache>>

-------------------------------------------------------------------------------
(* The environment.                                                          *)

\* The process dies, or run() is cancelled (CancelledError is no Exception): what
\* it had on disk and in the cloud stays.
Crash ==
    /\ pc \notin Ended /\ "crash" \in Faults
    /\ pc' = "crashed"
    /\ UNCHANGED <<run, req, attempt, tier, model, proof, place, history, summary, cache>>

\* max_runtime_seconds is over for a sandbox no run uses any more.
Expire ==
    /\ \E s \in live : /\ s[1] < run \/ pc \in Ended
                       /\ live' = live \ {s}
    /\ UNCHANGED <<pc, run, req, attempt, tier, model, proof, tree, saga, history,
                   summary, cache>>

Step == \/ Lower \/ LowerFails \/ Replay \/ ReplayFails \/ SnapshotStable \/ SnapshotFails
        \/ Prepare \/ PrepareFails \/ BaselineFails \/ BaselineRaises
        \/ \E p \in Patch, c \in Costs \cup {0}, x \in SUBSET Loose : Execute(p, c, x)
        \/ Apply \/ ApplyRaises \/ Verify \/ VerifyFails \/ VerifyRaises
        \/ ReversePatch \/ RevertToStable \/ Compensate \/ RollbackRaises \/ TearDownRaises
        \/ Escalate \/ GiveUp
        \/ SyncBack \/ Deliver \/ DeliverRaises \/ PutInCache \/ Complete \/ Report
        \/ CompensateStep \/ CompensateRaises \/ Fail

Next == Step \/ (\E r \in Request : StartRun(r)) \/ Crash \/ Expire

Spec == Init /\ [][Next]_vars

\* Where a run waits for git, docker, pytest, the provider or the executor.
AtCommand == \/ pc \in {"lookup", "prepare", "baseline", "execute", "apply", "verify",
                        "reverse", "revert", "compensate", "sync", "deliver"}
             \/ pc = "abort" /\ saga # <<>>

\* The process works off what it does itself.
FairSpec == Spec /\ WF_vars(~AtCommand /\ Step)

\* The commands come to an end.  Nothing in the pipeline sees to it: pytest, git,
\* docker and the executor are given no time limit.
CommandsReturn == WF_vars(AtCommand /\ Step)

-------------------------------------------------------------------------------
(* Properties.                                                               *)

\* The type of the state.
ControlTypes ==
    /\ pc \in Ended \cup {"lowering", "lookup", "prepare", "baseline", "execute", "apply",
                         "verify", "reverse", "revert", "compensate", "escalate", "sync",
                         "deliver", "cache", "record", "report", "abort"}
    /\ run \in Nat /\ req \in Request
    /\ attempt \in 1..2 /\ tier \in {"draft", "production"}
ModelTypes ==
    /\ patch \in Patch \cup {NoPatch}
    /\ cost \in [1..2 -> Nat] /\ spent \in Nat
PlaceTypes ==
    /\ tree \in [{"repo", "mirror", "remote"} -> Tree \cup {NoTree}]
    /\ tree["repo"] # NoTree
    /\ live \subseteq (Nat \X (1..2)) /\ saga \in Seq(1..2)
Records(f) == \A i \in DOMAIN f : i \in Nat /\ f[i] \in 1..2
HistoryTypes ==
    /\ events \in Seq(Event) /\ log \in Seq(Event)
    /\ summary.run \in Nat /\ summary.status \in {"none", "success", "failed"}
    /\ Records(summary.diagnostics) /\ Records(summary.dispatch)
EvidenceTypes ==
    /\ prePatch \in Tree \cup {NoTree} /\ verified \in Tree \cup {NoTree}
    /\ cache \in [patch : Patch \cup {NoPatch}, base : Tree \cup {NoTree},
                  tree : Tree \cup {NoTree}, contracts : DOMAIN Breaking \cup {"none"}]
TypeOK == ControlTypes /\ ModelTypes /\ PlaceTypes /\ HistoryTypes /\ EvidenceTypes

Happened(e) == \E i \in 1..Len(events) : events[i] = e
Prepared    == \E i \in 1..Len(events) : events[i].type = "runtime_prepared"
Replayed    == \E i \in 1..Len(events) : events[i].type = "cache_hit"

\* lowering_config.json:41: whatever fails, the cache holds a patch only with
\* evidence of both kinds: selectors that failed on a tree without the fix, and
\* contracts that held on a tree with this very patch.
Admissible ==
    cache # NoEntry => /\ ~Fixed(cache.base)
                       /\ Green(cache.contracts, cache.tree)
                       /\ Reverses(cache.tree, cache.patch)

\* In a sandbox the evidence is about the base commit and nothing but the patch,
\* also after a first attempt that failed: replaying the patch on that commit
\* gives the tree that was verified (no process died, no direct writes).
VerifiedOnBase ==
    pc = "sync" /\ req.sandbox # "local" =>
        prePatch = Base /\ verified = Plus(Base, patch)

\* What a run without a cache hit delivers is the tree that was verified.
DeliveredAsVerified ==
    pc = "success" /\ ~Replayed => tree[Workspace] = verified

\* A patch that was verified is delivered unless a command fails: the two
\* applications, by the adapter and by VCSAdapter, do not refuse each other.
VerifiedIsDelivered == verified # NoTree => pc # "abort"

\* lowering_config.json:370, "Compensation destroys the compute environment even
\* on failure": after a failed run neither sandbox nor worktree is left.
CompensationDestroysSandboxes ==
    pc = "failed" /\ Prepared =>
        /\ \A a \in 1..2 : <<run, a>> \notin live
        /\ tree["mirror"] = NoTree \/ req.sandbox = "local"

\* Until compensation begins, every sandbox the run started is one the saga would
\* destroy, whatever failed and was rolled back before.
SandboxesOnSaga ==
    pc \notin Ended \cup {"abort"} =>
        \A a \in 1..2 : <<run, a>> \in live => \E i \in 1..Len(saga) : saga[i] = a

\* lowering_config.json:428, "Budget exhaustion fails closed": a call beyond the
\* budget is never applied, and no later attempt starts after it.
BudgetFailsClosed ==
    \A a \in 1..2 : cost[a] > MaxCost =>
        /\ a = attempt
        /\ pc \in {"abort", "failed", "escaped", "crashed"}

\* summary.json tells of every failure how it ended.  Either it has one diagnostic,
\* the compensation followed it and left nothing on the saga, and it has a dispatch
\* record of each earlier attempt; or it has neither, and then no attempt was begun,
\* or the compensation itself raised with sessions left.
FailureExplained ==
    pc = "failed" =>
        /\ summary.run = run /\ summary.status = "failed"
        /\ \/ /\ DOMAIN summary.diagnostics = {Len(events) - 1}
              /\ events[Len(events)].type = "compensation_completed" /\ saga = <<>>
              /\ \A a \in 1..attempt - 1 :
                    \E i \in DOMAIN summary.dispatch : summary.dispatch[i] = a
           \/ /\ DOMAIN summary.diagnostics = {} /\ DOMAIN summary.dispatch = {}
              /\ \/ attempt = 1 /\ ~Prepared
                 \/ events[Len(events)].type = "diagnostic" /\ saga # <<>>

\* lowering_config.json:455, "Failed verification restores a stable repository
\* state": an attempt whose rollback went through (its dispatch_attempt is on record
\* and nothing was verified) has left the committed tree in repo_root, whatever
\* fails or dies from then on; only a later attempt in repo_root itself changes it.
RollbackRestores ==
    \A a \in 1..attempt :
        Happened([type |-> "dispatch_attempt", attempt |-> a])
        /\ (a < attempt \/ verified = NoTree) =>
            \/ tree["repo"] = Base
            \/ a < attempt /\ req.sandbox = "local" /\ pc # "prepare"

\* How far a run is from its end, at most: what is left of the passes, of this
\* attempt and of the next one, and the sessions still to be compensated.
Place == [prepare    |-> 14, baseline |-> 13, execute |-> 12, apply    |-> 11,
          verify     |-> 10, reverse  |->  9, revert  |->  8, compensate |-> 7,
          escalate   |->  6, sync     |->  7, deliver |->  6, cache    |->  5,
          record   |->  4]
Remaining == CASE pc \in Ended      -> 0
               [] pc = "report"    -> 1
               [] pc = "abort"     -> 1 + Len(saga)
               [] pc = "lowering"  -> 30 + (5 - Len(events))
               [] pc = "lookup"    -> 30
               [] OTHER            -> 15 * (2 - attempt) + Place[pc]

\* Nothing a run does is done over again without end: each of its steps, the ones
\* that fail included, brings it closer to its end, with two attempts and what is
\* on the saga between them.  Only the time limit of an old sandbox does not.
EveryStepCounts ==
    [][run' = run => Remaining' < Remaining \/ Expire]_vars

\* A run in a sandbox puts a patch into repo_root only by replay, whatever fails
\* and wherever it dies.
SandboxSparesRepo ==
    [][~Replayed /\ req'.sandbox # "local" /\ ~(pc = "lookup" /\ cache # NoEntry)
          => \A p \in Patch : tree'["repo"][p] \in {tree["repo"][p], "absent"}]_vars

\* If the commands a run waits for come to an end, so does the run, whatever they
\* answer and whatever an earlier run left behind.
RunEnds == CommandsReturn => (pc \notin Ended ~> pc \in Ended)

-------------------------------------------------------------------------------
(* Refinement: the runs of a task implement PatchAdmission.                  *)

Started == pc \notin Ended \cup {"record", "report"}
Trying  == pc \in {"verify", "reverse", "revert", "compensate", "escalate"}
Passed  == pc \in {"sync", "deliver", "cache"} \/ (pc = "abort" /\ verified # NoTree)

stage == IF ~Started THEN "closed"
         ELSE IF Passed THEN "accepted"
         ELSE IF Trying THEN "trying"
         ELSE IF prePatch # NoTree THEN "reproduced" ELSE "open"

trial    == IF stage \in {"trying", "accepted"} THEN patch ELSE NoPatch
admitted == cache.patch

Rule == INSTANCE PatchAdmission

ImplementsPatchAdmission == Rule!Spec
===============================================================================
