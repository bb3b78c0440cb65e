-------------------------- MODULE SandboxVerification --------------------------
(*****************************************************************************)
(* One task verified away from repo_root: a git worktree, alone or with a    *)
(* container bound to it, a remote sandbox it is copied to file by file, or  *)
(* an agent session launched in it.  core/adapters (base, docker,            *)
(* remote_compute, humanlayer), core/worktree.py and core/verifier.py at the *)
(* grain of single files, selectors and destructions; Pipeline.run in as far *)
(* as it calls them.  PipelineRun has the same run at the grain of whole     *)
(* trees, with attempts, caches and events.                                  *)
(*                                                                           *)
(* A tree maps every file to what it holds.  A run has one attempt.          *)
(*****************************************************************************)
EXTENDS Naturals, FiniteSets, Sequences, SequencesExt

CONSTANTS
    File,       \* the files of the worktree
    Link,       \* the worktree's .git, a file that names a directory of the host
    Before,     \* the tree of base_commit
    Patch,      \* the patches, each given as the tree it makes of Before
    Nowhere,    \* the file of a selector that names none
    NoTree,     \* no such directory
    Check,      \* the selectors and metrics that contracts may list
    Terms,      \* what a check runs and demands
    Suite,      \* the verification contracts: lists of checks
    Adapters,   \* the runtime adapters considered
    MaxRuns,    \* bound: runs of the task, one after the other
    MaxFaults   \* bound: failures of commands and transfers in a run

Content == {"absent", "empty", "old", "new", "agent"}
Tree    == [File -> Content]
Remote  == {"e2b", "modal", "custom"}   \* custom: an embedder's provider and worktree manager
Adapter == Remote \cup {"worktree", "container", "humanlayer"}
Exit    == {0, 1, 4, 5}                 \* pytest's exit codes for what it finds

\* Those that say nothing of the tree: pytest was interrupted or broke down, there
\* is none where the command runs, it was killed.
Breakdown == {2, 3, 127, 137}

\* A check is a selector with the repetitions its contract allows, or a metric.
\* A selector passes when file holds one of good.
Contract == [kind : {"fail_to_pass", "pass_to_pass", "metric"}, test : File \cup {Nowhere},
             file : File, good : SUBSET Content, flaky : BOOLEAN, retries : 0..3]

ASSUME FileAssumption == IsFiniteSet(File)
ASSUME TreeAssumption ==
    /\ Link \in File /\ Nowhere \notin File /\ NoTree \notin Tree
    /\ Before \in Tree /\ Patch \subseteq Tree
    /\ Before[Link] = "old" /\ \A p \in Patch : p[Link] = "old"
ASSUME SuiteAssumption == Terms \in [Check -> Contract] /\ Suite \subseteq Seq(Check)
ASSUME AdapterAssumption == Adapters \subseteq Adapter
ASSUME BoundAssumption == MaxRuns \in Nat /\ MaxFaults \in Nat

VARIABLES
    pc,       \* where the run is
    run,      \* how many runs were started
    adapter,  \* the run's adapter
    suite,    \* its contracts
    patch,    \* result.patch
    dir,      \* what the worktree's directory holds
    box,      \* what the run's remote sandbox holds
    live,     \* containers, sandboxes and sessions that exist: <<adapter, run>>
    start,    \* what the directory held when the run got it
    todo,     \* files of the transfer under way that are still to come
    left,     \* checks of the stage under way that are still to come
    tries,    \* how often the first of them was repeated
    pre, post,\* the evidence: checks with their exit code
    due,      \* compensations of the session that are still to come
    faults,   \* what went wrong in this run without being noticed, or for good
    failures  \* failures in this run

evidence == <<pre, post>>
place    == <<dir, box, live>>
work     == <<todo, left, tries>>
vars == <<pc, run, adapter, suite, patch, place, start, work, evidence, due, faults, failures>>

Ended == {"idle", "delivered", "failed", "cancelled"}

-------------------------------------------------------------------------------
(* Trees, patches and selectors.                                             *)

Changed(p) == {f \in File : p[f] # Before[f]}

\* "+++ b/": a deleted file has no such line.
Touched(p) == {f \in Changed(p) : p[f] # "absent"}

Applies(T)  == \A f \in Changed(patch) : T[f] = Before[f]
Reverses(T) == \A f \in Changed(patch) : T[f] = patch[f]
Patched(T)  == [f \in File |-> IF f \in Changed(patch) THEN patch[f] ELSE T[f]]
Unpatched(T) == [f \in File |-> IF f \in Changed(patch) THEN Before[f] ELSE T[f]]

\* What pytest may answer for check c in tree T.
Answers(c, T) == LET t == Terms[c]
                 IN  IF t.test = Nowhere \/ (t.test \in File /\ T[t.test] = "absent") THEN {4}
                     ELSE IF T[t.test] = "empty" THEN {5}
                     ELSE IF t.flaky THEN {0, 1}
                     ELSE IF T[t.file] \in t.good THEN {0} ELSE {1}

\* Where the session's commands run: the adapters of base.py, docker among them,
\* run them in the worktree on the host.
Site == IF adapter \in Remote THEN box ELSE dir

\* git finds no repository where .git names a directory of another host.
GitRuns(T) == adapter \in Remote => T[Link] = "absent"

May(fault) == /\ failures < MaxFaults
              /\ failures' = failures + 1
              /\ faults' = faults \cup fault

Quietly == UNCHANGED <<faults, failures>>

\* The except clause of _pass_execute_or_replay: saga.compensate().
Raise == pc' = "destroy" /\ due' = 1

Init == /\ pc = "idle" /\ run = 0
        /\ adapter \in Adapters /\ suite \in Suite /\ patch \in Patch
        /\ dir = NoTree /\ box = NoTree /\ live = {} /\ start = NoTree
        /\ todo = {} /\ left = <<>> /\ tries = 0
        /\ pre = {} /\ post = {} /\ due = 0 /\ faults = {} /\ failures = 0

-------------------------------------------------------------------------------
(* RuntimeAdapter.execute.                                                   *)

\* A run of the task, after one whose result was not cached under its key: the
\* worktree depends on task, commit and constitution only, the key on the
\* authorized files too.
StartRun(a, s, p) ==
    /\ pc \in Ended /\ run < MaxRuns
    /\ pc' = "create" /\ run' = run + 1
    /\ adapter' = a /\ suite' = s /\ patch' = p
    /\ box' = NoTree /\ start' = NoTree
    /\ todo' = {} /\ left' = <<>> /\ tries' = 0
    /\ pre' = {} /\ post' = {} /\ due' = 0 /\ faults' = {} /\ failures' = 0
    /\ UNCHANGED <<dir, live>>

\* git worktree add; an embedder's manager makes a plain directory.
Fresh == IF adapter = "custom" THEN [Before EXCEPT ![Link] = "absent"] ELSE Before

\* WorktreeManager.create: a directory that exists is returned as it is.
CreateWorktree ==
    /\ pc = "create"
    /\ dir' = IF dir = NoTree THEN Fresh ELSE dir
    /\ start' = dir'
    /\ pc' = "launch"
    /\ UNCHANGED <<run, adapter, suite, patch, box, live, work, evidence, due, faults, failures>>

\* No docker binary, no git repository, or git fails.
CreateWorktreeFails ==
    /\ pc = "create"
    /\ adapter = "container" \/ dir = NoTree
    /\ May({})
    /\ pc' = "failed"
    /\ UNCHANGED <<run, adapter, suite, patch, place, start, work, evidence, due>>

\* The name of a container is made of task and worktree.
NameTaken == \E r \in 1..MaxRuns : <<"container", r>> \in live

\* The checks before the patch begin.
BeginBaseline == pc' = "baseline" /\ left' = suite

\* LocalRuntimeAdapter launches nothing.
LaunchNothing ==
    /\ pc = "launch" /\ adapter = "worktree"
    /\ BeginBaseline
    /\ UNCHANGED <<run, adapter, suite, patch, place, start, todo, tries, evidence, due,
                   faults, failures>>

\* docker run: the container has the worktree mounted, and no command runs in it.
LaunchContainer ==
    /\ pc = "launch" /\ adapter = "container" /\ ~NameTaken
    /\ live' = live \cup {<<adapter, run>>}
    /\ BeginBaseline
    /\ UNCHANGED <<run, adapter, suite, patch, dir, box, start, todo, tries, evidence, due,
                   faults, failures>>

\* humanlayer launch: an agent works in the worktree from now on.
LaunchSession ==
    /\ pc = "launch" /\ adapter = "humanlayer"
    /\ live' = live \cup {<<adapter, run>>}
    /\ BeginBaseline
    /\ UNCHANGED <<run, adapter, suite, patch, dir, box, start, todo, tries, evidence, due,
                   faults, failures>>

\* provider.create: an empty remote_root; the .git of the worktree is a file like
\* any other to upload.
CreateSandbox ==
    /\ pc = "launch" /\ adapter \in Remote
    /\ live' = live \cup {<<adapter, run>>}
    /\ box' = [f \in File |-> "absent"]
    /\ todo' = {f \in File : dir[f] # "absent"}
    /\ pc' = "upload"
    /\ UNCHANGED <<run, adapter, suite, patch, dir, start, left, tries, evidence, due,
                   faults, failures>>

\* The docker and HumanLayer adapters remove the worktree when the launch fails.
LaunchFails ==
    /\ pc = "launch" /\ adapter \in {"container", "humanlayer"}
    /\ \/ dir' = NoTree /\ IF adapter = "container" /\ NameTaken THEN Quietly ELSE May({})
       \/ dir' = dir /\ May({"stuck"})
    /\ pc' = "failed"
    /\ UNCHANGED <<run, adapter, suite, patch, box, live, start, work, evidence, due>>

\* No SDK, or the provider raises: the worktree stays, and no saga knows of it.
ProviderFails ==
    /\ pc = "launch" /\ adapter \in Remote
    /\ May({"stuck"})
    /\ pc' = "failed"
    /\ UNCHANGED <<run, adapter, suite, patch, place, start, work, evidence, due>>
-------------------------------------------------------------------------------
(* upload_workspace: one command per file, in the order of rglob.            *)

\* Mutant of UploadRaises: the exception is passed on as it is.
UploadRaisesOnly ==
    /\ pc = "upload"
    /\ IF box = NoTree THEN Quietly ELSE May({})
    /\ pc' = "failed"
    /\ UNCHANGED <<run, adapter, suite, patch, place, start, work, evidence, due>>

\* provider.destroy and cleanup, as compensate() would.
UploadRaises ==
    /\ pc = "upload"
    /\ IF box = NoTree THEN Quietly ELSE May({})
    /\ Raise
    /\ UNCHANGED <<run, adapter, suite, patch, place, start, work, evidence>>

UploadFile(f) ==
    /\ pc = "upload" /\ f \in todo /\ box # NoTree
    /\ box' = [box EXCEPT ![f] = dir[f]]
    /\ todo' = todo \ {f}
    /\ Quietly
    /\ UNCHANGED <<pc, run, adapter, suite, patch, dir, live, start, left, tries, evidence, due>>

\* The command failed; nobody looks at its result.
LoseFile(f) ==
    /\ pc = "upload" /\ f \in todo /\ box # NoTree
    /\ May({"lost"})
    /\ todo' = todo \ {f}
    /\ UNCHANGED <<pc, run, adapter, suite, patch, place, start, left, tries, evidence, due>>

UploadOver ==
    /\ pc = "upload" /\ todo = {} /\ box # NoTree
    /\ BeginBaseline
    /\ UNCHANGED <<run, adapter, suite, patch, place, start, todo, tries, evidence, due, faults, failures>>

-------------------------------------------------------------------------------
(* VerificationRunner before the patch: every fail-to-pass selector once.    *)

\* Both stages go through all contracts and skip those of other kinds.
SkipCheck ==
    /\ left # <<>>
    /\ \/ pc = "baseline" /\ Terms[Head(left)].kind # "fail_to_pass"
       \/ pc = "verify" /\ Terms[Head(left)].kind = "fail_to_pass"
    /\ left' = Tail(left)
    /\ UNCHANGED <<pc, run, adapter, suite, patch, place, start, todo, tries, evidence, due,
                   faults, failures>>

\* The result of a command that passes: an exit code the SDK does not tell is taken
\* for 0.
ReadsZero(c) ==
    \/ 0 \in Answers(c, Site) /\ Quietly
    \/ adapter \in {"e2b", "modal"} /\ May({"blind"})

\* One that does not: what the tree gives, or a breakdown.
Reads(c, e) ==
    \/ e \in Answers(c, Site) \ {0} /\ Quietly
    \/ e \in Breakdown /\ May({})
NotZero(c) == \E e \in Exit \cup Breakdown : Reads(c, e)

\* Any exit code but 0 is evidence.
SelectorFails ==
    /\ pc = "baseline" /\ left # <<>> /\ Terms[Head(left)].kind = "fail_to_pass" /\ Site # NoTree
    /\ \E e \in Exit \cup Breakdown :
          Reads(Head(left), e) /\ pre' = pre \cup {[check |-> Head(left), exit |-> e]}
    /\ left' = Tail(left)
    /\ UNCHANGED <<pc, run, adapter, suite, patch, place, start, todo, tries, post, due>>

\* VerificationFailure, outside the inner try.
SelectorPasses ==
    /\ pc = "baseline" /\ left # <<>> /\ Terms[Head(left)].kind = "fail_to_pass" /\ Site # NoTree
    /\ ReadsZero(Head(left))
    /\ Raise
    /\ UNCHANGED <<run, adapter, suite, patch, place, start, work, evidence>>

BaselineOver ==
    /\ pc = "baseline" /\ left = <<>>
    /\ pc' = "execute"
    /\ UNCHANGED <<run, adapter, suite, patch, place, start, work, evidence, due, faults, failures>>

\* run_command raises: the sandbox is gone, or the connection; on the host, pytest
\* or git is missing.  After the patch a missing pytest is a VerificationFailure.
CommandRaises ==
    /\ pc \in {"baseline", "apply", "verify", "reverse"}
    /\ pc = "verify" => adapter \in Remote
    /\ IF Site = NoTree THEN Quietly ELSE May({})
    /\ Raise
    /\ UNCHANGED <<run, adapter, suite, patch, place, start, work, evidence>>

-------------------------------------------------------------------------------
(* Executor, patch, and VerificationRunner after the patch.                  *)

Execute ==
    /\ pc = "execute"
    /\ pc' = "apply"
    /\ UNCHANGED <<run, adapter, suite, patch, place, start, work, evidence, due, faults, failures>>

ExecuteRaises ==
    /\ pc = "execute"
    /\ May({})
    /\ Raise
    /\ UNCHANGED <<run, adapter, suite, patch, place, start, work, evidence>>

PutSite(T) == IF adapter \in Remote THEN box' = T /\ UNCHANGED dir
                                    ELSE dir' = T /\ UNCHANGED box

\* RuntimeAdapter.apply_patch: git apply in the workspace, or by a command in the
\* sandbox.
ApplyPatch ==
    /\ pc = "apply" /\ Site # NoTree /\ GitRuns(Site) /\ Applies(Site)
    /\ PutSite(Patched(Site))
    /\ pc' = "verify" /\ left' = suite /\ tries' = 0
    /\ UNCHANGED <<run, adapter, suite, patch, live, start, todo, evidence, due, faults, failures>>

ApplyRefused ==
    /\ pc = "apply" /\ Site # NoTree /\ ~(GitRuns(Site) /\ Applies(Site))
    /\ Raise
    /\ UNCHANGED <<run, adapter, suite, patch, place, start, work, evidence, faults, failures>>

\* The first result that passes ends the repetitions.
CheckPasses ==
    /\ pc = "verify" /\ left # <<>> /\ Terms[Head(left)].kind = "pass_to_pass" /\ Site # NoTree
    /\ ReadsZero(Head(left))
    /\ post' = post \cup {[check |-> Head(left), exit |-> 0]}
    /\ left' = Tail(left) /\ tries' = 0
    /\ UNCHANGED <<pc, run, adapter, suite, patch, place, start, todo, pre, due>>

CheckIsRepeated ==
    /\ pc = "verify" /\ left # <<>> /\ Terms[Head(left)].kind = "pass_to_pass" /\ Site # NoTree
    /\ NotZero(Head(left))
    /\ tries < Terms[Head(left)].retries
    /\ tries' = tries + 1
    /\ UNCHANGED <<pc, run, adapter, suite, patch, place, start, todo, left, evidence, due>>

\* Mutant of CheckFails: what failed after all repetitions is taken for flaky.
CheckFailsToleratesFlaky ==
    /\ pc = "verify" /\ left # <<>> /\ Terms[Head(left)].kind = "pass_to_pass" /\ Site # NoTree
    /\ NotZero(Head(left))
    /\ tries = Terms[Head(left)].retries
    /\ IF tries = 0
       THEN pc' = "reverse" /\ UNCHANGED <<left, tries, post>>
       ELSE /\ post' = post \cup {[check |-> Head(left), exit |-> 0]}
            /\ left' = Tail(left) /\ tries' = 0
            /\ UNCHANGED pc
    /\ UNCHANGED <<run, adapter, suite, patch, place, start, todo, pre, due>>

\* VerificationFailure.
CheckFails ==
    /\ pc = "verify" /\ left # <<>> /\ Terms[Head(left)].kind = "pass_to_pass" /\ Site # NoTree
    /\ NotZero(Head(left))
    /\ tries = Terms[Head(left)].retries
    /\ pc' = "reverse"
    /\ UNCHANGED <<run, adapter, suite, patch, place, start, work, evidence, due>>

\* No provider of metrics, or a value beyond the bounds, is a VerificationFailure.
\* For a sandbox the provider is given remote_root, a path of another host, and what
\* it finds under it here is not about the patch.
Metric ==
    /\ pc = "verify" /\ left # <<>> /\ Terms[Head(left)].kind = "metric"
    /\ \/ /\ post' = post \cup {[check |-> Head(left), exit |-> 0]}
          /\ left' = Tail(left)
          /\ UNCHANGED pc
       \/ pc' = "reverse" /\ UNCHANGED <<left, post>>
    /\ UNCHANGED <<run, adapter, suite, patch, place, start, todo, tries, pre, due, faults, failures>>

PytestMissing ==
    /\ pc = "verify" /\ left # <<>> /\ Terms[Head(left)].kind = "pass_to_pass" /\ adapter \notin Remote
    /\ May({})
    /\ pc' = "reverse"
    /\ UNCHANGED <<run, adapter, suite, patch, place, start, work, evidence, due>>

VerifyOver ==
    /\ pc = "verify" /\ left = <<>>
    /\ pc' = "sync"
    /\ todo' = IF adapter \in Remote THEN Touched(patch) ELSE {}
    /\ UNCHANGED <<run, adapter, suite, patch, place, start, left, tries, evidence, due, faults, failures>>

-------------------------------------------------------------------------------
(* sync_back_to_local and VCSAdapter.apply_patch on the worktree.            *)

DownloadFile(f) ==
    /\ pc = "sync" /\ f \in todo /\ box # NoTree /\ box[f] \notin {"absent", "empty"}
    /\ dir' = [dir EXCEPT ![f] = box[f]]
    /\ todo' = todo \ {f}
    /\ UNCHANGED <<pc, run, adapter, suite, patch, box, live, start, left, tries, evidence, due,
                   faults, failures>>

\* A command that fails, a file that is missing and an empty one give no output.
SkipFile(f) ==
    /\ pc = "sync" /\ f \in todo /\ box # NoTree
    /\ IF box[f] \in {"absent", "empty"} THEN Quietly ELSE May({})
    /\ todo' = todo \ {f}
    /\ UNCHANGED <<pc, run, adapter, suite, patch, place, start, left, tries, evidence, due>>

DownloadRaises ==
    /\ pc = "sync" /\ todo # {}
    /\ IF box = NoTree THEN Quietly ELSE May({})
    /\ Raise
    /\ UNCHANGED <<run, adapter, suite, patch, place, start, work, evidence>>

SyncOver ==
    /\ pc = "sync" /\ todo = {}
    /\ pc' = "deliver"
    /\ UNCHANGED <<run, adapter, suite, patch, place, start, work, evidence, due, faults, failures>>

\* Mutant of Deliver: what was synchronized is taken for delivered.
DeliverUnchecked ==
    /\ pc = "deliver"
    /\ pc' = "delivered"
    /\ UNCHANGED <<run, adapter, suite, patch, place, start, work, evidence, due, faults, failures>>

\* Forward, or already there; the sandbox is left as it is.
Deliver ==
    /\ pc = "deliver" /\ (Applies(dir) \/ Reverses(dir))
    /\ dir' = Patched(dir)
    /\ pc' = "delivered"
    /\ UNCHANGED <<run, adapter, suite, patch, box, live, start, work, evidence, due, faults, failures>>

\* A workspace with half of the patch is refused.
DeliverRaises ==
    /\ pc = "deliver" /\ ~(Applies(dir) \/ Reverses(dir))
    /\ Raise
    /\ UNCHANGED <<run, adapter, suite, patch, place, start, work, evidence, faults, failures>>

-------------------------------------------------------------------------------
(* Rollback and RuntimeAdapter.compensate.                                   *)

\* After VerificationFailure: reverse_patch, revert_to_stable of repo_root, and the
\* session is compensated; the saga does it again when the failure is raised.
ReversePatch ==
    /\ pc = "reverse" /\ Site # NoTree /\ GitRuns(Site) /\ Reverses(Site)
    /\ PutSite(Unpatched(Site))
    /\ pc' = "destroy" /\ due' = 2
    /\ UNCHANGED <<run, adapter, suite, patch, live, start, work, evidence, faults, failures>>

ReverseRefused ==
    /\ pc = "reverse" /\ Site # NoTree /\ ~(GitRuns(Site) /\ Reverses(Site))
    /\ Raise
    /\ UNCHANGED <<run, adapter, suite, patch, place, start, work, evidence, faults, failures>>

\* Mutant of Onward: compensated until the worktree is found gone.
OnwardWhenGone == /\ due' = due
                  /\ pc' = IF dir # NoTree THEN "destroy" ELSE "failed"

\* The exception of a compensation or the failure itself goes on: to the saga,
\* then out of run().
Onward == /\ due' = due - 1
          /\ pc' = IF due = 2 THEN "destroy" ELSE "failed"

\* What the last compensation leaves undone nobody does.
MayStick == May(IF due = 2 THEN {} ELSE {"stuck"})

Gone == live' = live \ {<<adapter, run>>} /\ box' = NoTree

\* HumanLayer's compensate() leaves the session alone; docker rm -f is not looked
\* at.
Destroy ==
    /\ pc = "destroy"
    /\ \/ adapter \in {"worktree", "humanlayer"} /\ UNCHANGED <<live, box>> /\ Quietly
       \/ adapter = "container" /\ Gone /\ Quietly
       \/ adapter = "container" /\ UNCHANGED <<live, box>> /\ MayStick
       \/ adapter = "custom" /\ Gone /\ Quietly
    /\ pc' = "cleanup"
    /\ UNCHANGED <<run, adapter, suite, patch, dir, start, work, evidence, due>>

\* The first method of kill, terminate and close the SDK has; none is no error.
DestroyE2B ==
    /\ pc = "destroy" /\ adapter = "e2b"
    /\ \/ Gone /\ Quietly
       \/ UNCHANGED <<live, box>> /\ MayStick
    /\ pc' = "cleanup"
    /\ UNCHANGED <<run, adapter, suite, patch, dir, start, work, evidence, due>>

\* terminate, and then detach or close.
DestroyModal ==
    /\ pc = "destroy" /\ adapter = "modal"
    /\ \/ Gone /\ Quietly
       \/ UNCHANGED <<live, box>> /\ MayStick
    /\ pc' = "cleanup"
    /\ UNCHANGED <<run, adapter, suite, patch, dir, start, work, evidence, due>>

\* The SDK raises, before or after the sandbox is gone: no cleanup.
DestroyRaises ==
    /\ pc = "destroy" /\ adapter \in Remote
    /\ MayStick
    /\ Gone \/ UNCHANGED <<live, box>>
    /\ Onward
    /\ UNCHANGED <<run, adapter, suite, patch, dir, start, work, evidence>>

\* git worktree remove --force, if the directory is there.
Cleanup ==
    /\ pc = "cleanup"
    /\ dir' = NoTree
    /\ Onward
    /\ UNCHANGED <<run, adapter, suite, patch, box, live, start, work, evidence, faults, failures>>

CleanupFails ==
    /\ pc = "cleanup" /\ dir # NoTree
    /\ MayStick
    /\ Onward
    /\ UNCHANGED <<run, adapter, suite, patch, place, start, work, evidence>>

-------------------------------------------------------------------------------
(* What happens meanwhile.                                                   *)

\* CancelledError is no Exception: nothing is compensated.
Cancel ==
    /\ pc \notin Ended \cup {"create"}
    /\ May({"stuck"})
    /\ pc' = "cancelled"
    /\ UNCHANGED <<run, adapter, suite, patch, place, start, work, evidence, due>>

\* A container or sandbox ends by itself after max_runtime_seconds.
Expire(s) ==
    /\ s \in live /\ s[1] \in {"container", "e2b", "modal"}
    /\ live' = live \ {s}
    /\ box' = IF s = <<adapter, run>> THEN NoTree ELSE box
    /\ UNCHANGED <<pc, run, adapter, suite, patch, dir, start, work, evidence, due, faults, failures>>

\* The agent of a HumanLayer session, perhaps of an earlier run, writes into the
\* worktree it was launched in.
SessionWrites(s, f) ==
    /\ s \in live /\ s[1] = "humanlayer"
    /\ dir # NoTree /\ f \in File \ {Link} /\ dir[f] # "agent"
    /\ dir' = [dir EXCEPT ![f] = "agent"]
    /\ faults' = faults \cup {"agent"}
    /\ UNCHANGED <<pc, run, adapter, suite, patch, box, live, start, work, evidence, due, failures>>

SessionEnds(s) ==
    /\ s \in live /\ s[1] = "humanlayer"
    /\ live' = live \ {s}
    /\ UNCHANGED <<pc, run, adapter, suite, patch, dir, box, start, work, evidence, due, faults, failures>>

Prepare == \/ CreateWorktree \/ CreateWorktreeFails
           \/ LaunchNothing \/ LaunchContainer \/ LaunchSession \/ CreateSandbox
           \/ LaunchFails \/ ProviderFails
           \/ UploadOver \/ UploadRaises
           \/ \E f \in File : UploadFile(f) \/ LoseFile(f)

Baseline == SkipCheck \/ SelectorFails \/ SelectorPasses \/ BaselineOver

Verify == \/ Execute \/ ExecuteRaises \/ ApplyPatch \/ ApplyRefused \/ CommandRaises
          \/ CheckPasses \/ CheckIsRepeated \/ CheckFails \/ Metric \/ PytestMissing \/ VerifyOver

Return == \/ SyncOver \/ DownloadRaises \/ Deliver \/ DeliverRaises
          \/ \E f \in File : DownloadFile(f) \/ SkipFile(f)

Compensate == \/ ReversePatch \/ ReverseRefused
              \/ Destroy \/ DestroyE2B \/ DestroyModal \/ DestroyRaises
              \/ Cleanup \/ CleanupFails

Others == \E s \in live : Expire(s) \/ SessionEnds(s) \/ \E f \in File : SessionWrites(s, f)

Meanwhile == Cancel \/ Others

Next == \/ \E a \in Adapters, s \in Suite, p \in Patch : StartRun(a, s, p)
        \/ Prepare \/ Baseline \/ Verify \/ Return \/ Compensate \/ Meanwhile

Spec == Init /\ [][Next]_vars

-------------------------------------------------------------------------------
(* Properties.                                                               *)

\* Types of the state; there is at most one container, since its name is taken.
SandboxTypeOK ==
    /\ pc \in Ended \cup {"create", "launch", "upload", "baseline", "execute", "apply", "verify",
                          "reverse", "destroy", "cleanup", "sync", "deliver"}
    /\ run \in 0..MaxRuns /\ adapter \in Adapters /\ suite \in Suite /\ patch \in Patch
    /\ dir \in Tree \cup {NoTree} /\ box \in Tree \cup {NoTree} /\ start \in Tree \cup {NoTree}
    /\ live \subseteq Adapters \X (1..MaxRuns)
    /\ \A s, t \in live : s[1] = "container" /\ t[1] = "container" => s = t
    /\ todo \subseteq File /\ tries \in 0..3 /\ due \in 0..2
    /\ box # NoTree => adapter \in Remote
    /\ faults \subseteq {"lost", "blind", "agent", "stuck"} /\ failures \in 0..MaxFaults

\* What vcs.py:46-69 makes of a synchronization that may skip any file: a workspace
\* that is delivered holds what the run found there and the whole patch, whichever
\* files were lost on the way to the sandbox and back (an agent's session aside).
DeliveredWhole ==
    pc = "delivered" /\ "agent" \notin faults => dir = Patched(start)

\* verifier.py:127-187: what a delivered patch was accepted for.  No selector is left
\* out, every pass-to-pass selector passes on the tree with the patch, and no number
\* of repetitions makes one pass that cannot; a fail-to-pass selector has an exit
\* code the tree before the patch gives, or the one of a breakdown, which is no
\* evidence of anything and accepted as such.  Files lost on the way to the sandbox,
\* an agent's session, and after the patch an exit code nobody told are excepted.
EvidenceHolds ==
    pc \in {"sync", "deliver", "delivered"} /\ faults \cap {"lost", "agent"} = {} =>
        /\ {e.check : e \in pre} = {c \in ToSet(suite) : Terms[c].kind = "fail_to_pass"}
        /\ \A e \in pre : e.exit \in (Answers(e.check, start) \ {0}) \cup Breakdown
        /\ {e.check : e \in post} = {c \in ToSet(suite) : Terms[c].kind # "fail_to_pass"}
        /\ \A e \in post : Terms[e.check].kind = "pass_to_pass" /\ "blind" \notin faults =>
              0 \in Answers(e.check, Patched(start))

\* remote_compute.py:117-146, docker.py:62-88, worktree.py:41: a run that failed has
\* removed its worktree and what it started, HumanLayer sessions aside, unless the
\* provider could not create the sandbox or the last attempt to remove something
\* failed; a first attempt that failed is made good by the saga.
NothingLeftBehind ==
    pc = "failed" /\ start # NoTree /\ "stuck" \notin faults =>
        dir = NoTree /\ (adapter # "humanlayer" => <<adapter, run>> \notin live)

\* How many steps the run may still take: checks are repeated up to three times,
\* and compensations made twice.
Remaining == CASE pc \in Ended      -> 0
               [] pc = "cleanup"    -> 2 * due - 1
               [] pc = "destroy"    -> 2 * due
               [] pc = "deliver"    -> 4
               [] pc = "reverse"    -> 5
               [] pc = "sync"       -> 5 + Cardinality(todo)
               [] pc = "verify"     -> 9 + Cardinality(File) + 4 * Len(left) - tries
               [] pc = "apply"      -> 10 + Cardinality(File) + 4 * Len(suite)
               [] pc = "execute"    -> 11 + Cardinality(File) + 4 * Len(suite)
               [] pc = "baseline"   -> 12 + Cardinality(File) + 4 * Len(suite) + Len(left)
               [] pc = "upload"     -> 13 + Cardinality(File) + 5 * Len(suite) + Cardinality(todo)
               [] pc = "launch"     -> 14 + 2 * Cardinality(File) + 5 * Len(suite)
               [] pc = "create"     -> 15 + 2 * Cardinality(File) + 5 * Len(suite)

\* verifier.py:156-187, remote_compute.py:46-90, pipeline.py:338-413: neither lost
\* files, flaky selectors nor compensations that fail and are made again keep a
\* run going without end, in whatever state others leave its worktree and its
\* sandbox: each of its own steps brings it closer to its end.
EveryStepCounts ==
    [][run' = run => Remaining' < Remaining \/ Others]_vars

================================================================================
