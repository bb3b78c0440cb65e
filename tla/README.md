# Research-Compiler in TLA+

Specifications of the Research Compiler (`src/`): TLA+ modules of its core, TLC
configurations that check them on small instances, and theorems about them that
TLAPS proves for every instance. `PROJECT.json` is the machine-readable index:
components, runs, mutants, the map from definitions to source lines, findings,
hazards and theorems.

The program takes a *task* (a bug, the files that may be written, commands that
must fail before and pass after), asks a model for a patch in a sandbox, verifies
the patch, and delivers, caches and optionally commits it. Several tasks run side
by side under a merge queue; failures become tickets that later work picks up. A run kit
around it (scripts and generators) prepares the repository in which agents build such a program.

Contents: [inventory](#1-inventory), [plan](#2-plan), [modules](#3-modules-and-how-they-correspond-to-the-code),
[runs](#4-what-the-runs-show), [fairness](#5-fairness), [proofs](#6-what-is-proved),
[model-checked only](#7-what-is-only-model-checked), [not modelled](#8-what-is-not-modelled-and-why),
[findings](#9-findings), [known deviations](#10-known-deviations), [how to run](#11-how-to-run).

## 1. Inventory

| Part | State it keeps | Operations | Interacts by |
|---|---|---|---|
| **MergeQueue** `core/merge_queue.py` | `_locks` per path, `_parallel`, `_commit_lock` | `run`, `_run_task` | starts one `Pipeline` per task on one event loop; `promote_commit` in a thread |
| **Pipeline** `core/pipeline.py`, `core/saga.py` | request, attempt, session, saga, `pipeline_state` | `run`, four lowering passes, `_pass_execute_or_replay`, `sync_back_to_local`, summary | calls every part below |
| **VCSAdapter** `core/vcs.py` | the tree at `repo_root` | snapshot, `apply_patch`, `revert_to_stable`, `promote_commit` | git commands |
| **Runtime adapters** `core/adapters/`, `core/worktree.py` | worktree, container, remote sandbox, agent session | `execute`, `apply_patch`, `reverse_patch`, `sync_back_to_local`, `compensate`, `stream_events` | docker, a provider's API, the HumanLayer CLI, `WorktreeManager`; files copied one by one |
| **TieredDispatcher** `core/dispatcher.py` | an attempt plan | `execute`, `next_attempt_plan`, budget check | wraps a model executor |
| **VerificationRunner** `core/verifier.py` | none | `run_pre_patch`, `run_post_patch` | pytest and metric commands in the sandbox |
| **ActionCache** `core/action_cache.py` | one SQLite row per action key | `get`, `put` | file shared by all runs |
| **EventStore**, summary | a JSONL file, `summary.json` | `append`, `_write_summary` | files shared by all runs |
| **RuntimeMonitor** `core/monitor.py`, `core/watcher.py` | two asyncio tasks | `run_with_monitor`, `watch` | reads the adapter's event stream, stops the executor |
| **Monitor backends** `core/monitor_backends.py` | modification times, a queue | `stream` | polling, watchfiles, inotify, FSEvents |
| **RefinementPlanner / Emitter** `core/refinement.py` | numbered tickets, a manifest | `plan`, `write` | reads all summaries; called by `run_pipeline` and a tool |
| **Promotion** `tools/promote_refinement_queue.py` | the factory's queue | `promote` | copies the emitted queue |
| **RefinementQueueRunner** `core/refinement_runner.py` | done marks in the tickets | `run_command` | a shell command per ticket |
| **Run kit** `draft-lowering.sh`, `materialize.sh`, `tools/scaffold.py`, `lowering_scaffold.py`, `compiler_bootstrap.py`, `compiler_ticket_emitter.py`, `handoff_to_lowering.py` | `lowering_config.json`, `research/`, `lowering-pass/`, `factory/`, the same in a compiler repository | draft, materialize `[--force]`, `bootstrap-compiler-repo.sh`, `install-into-repo.sh`, `meta_analyze.py` | through files only |
| **Optimizer** `core/symbols.py`, `linker.py`, `slicing.py`, `parsers.py`, `optimizers/`, `optimizer_cache.py` | one SQLite row per key | `build` of three passes, `compute_key`, `get`, `put` | reads the authorized files four times; the cache is shared by all runs |
| Executors, diagnostics, IR | data, or none that outlives a call | | see [section 8](#8-what-is-not-modelled-and-why) |

**What is hard about it, and what makes it correct.**

* *Scheduling.* Coroutines take a permit and then several locks, may fail, and may
  be cancelled at each suspension point. Correct: overlapping scopes never run
  together; no permit or hand-over is lost; nobody waits in a circle; every task
  is answered.
* *One task's life.* A run is sequential, but every step can fail, the except
  clauses compensate, a second attempt follows a rolled-back first one, the cache
  outlives crashes, and the same patch is applied twice by two components. Correct:
  nothing enters the cache without evidence of both kinds; evidence is about the
  base commit and the very patch; what is delivered is what was verified; failed
  runs leave neither sandbox nor changes; the budget fails closed.
* *Verification away from home.* A worktree is copied to a sandbox and back file by file, each
  transfer may fail silently, selectors are repeated, and whatever was started has to be destroyed by
  calls that fail themselves. Correct: what is delivered is whole; the evidence is complete and about
  the trees it claims to be about; nothing is left behind.
* *Supervision.* Executor and monitor race in one event loop; either may end, fail
  or be cancelled first. Correct: no result after a violation was seen, the
  violation is on record, nothing is left running, pending violations stop a run.
* *The loop around it.* Several processes write numbered files without a lock, and
  each may die. Correct: reported problems have tickets, *done* means that a
  command succeeded for this problem, and a runner that ends well has seen to
  everything that was promoted.
* *The run kit.* Commands remove directories before they render them, die between two files, read
  a configuration that is edited between them, and copy what another left half done; several
  analyses rewrite one program. Correct: a kit that was made well is whole, queues are never
  mixed, no version goes unexplained as long as versions are short, no agent's work is removed by a command that was not told to.
* *The model's context.* A key is made of the files, three loops then read each again, and the result
  outlives the process and its parsers. Correct: a context from the cache is an analysis of the very files
  the run has, and an import is linked to a file that has the name, its module's where that can be told.

The 40 hazards in `PROJECT.json` name these at their lines, with the properties that
would catch them going wrong.

## 2. Plan

Ordered by how much depends on each part.

| | Module(s) | Subject | State |
|---|---|---|---|
| A | `MergeQueue`, `SerializedScopes` | scheduler, its abstract promise | done, safety proved |
| B | `PipelineRun`, `PatchAdmission` | runs of one task, the admissibility rule | done, safety proved |
| C | `RuntimeMonitor` | monitor, backends, cancellation | done, safety proved |
| D | `RefinementQueue` | emission, promotion, runner | done, proved |
| E | `SharedRepo` | **composition** of A with the git commands of B: several tasks in one `repo_root`; `revert_to_stable`, `git add .` and `promote_commit` of one task against another's uncommitted patch | done, safety proved |
| F | `SandboxVerification` | adapters and `VerificationRunner` at the grain of files, selectors and destructions | done, proved |
| G | `RunKit` | scripts and generators: what is removed before what is rendered, validated and copied | done, proved |
| H | `RuntimeMonitor` | nested directories that inotify watches late | done, proved |
| I | `ContextOptimizer` | parsers, symbols, import resolution, slices, and the optimizer's cache | done, proved |
| J | path normalisation | of the watcher and the scheduler, against a reference definition | left |

F is B with the trees taken apart: one attempt, no cache, but every file and selector. The two are
not one module because their product is out of TLC's reach; they share the order of the steps and
the names.

No module of the project declares a RECURSIVE operator; the planner of
`RefinementQueue` is a recursive function, and those of J are to be written like it.

## 3. Modules and how they correspond to the code

### MergeQueue (and SerializedScopes)

One coroutine per task; `pc[t]` is the suspension point of `_run_task`:
`queued` (semaphore), `locking` (between or in the acquires), `running`
(the pipeline), `committing` (the commit lock), `promoting` (the thread). Each
action is what a coroutine does between two suspensions, or less. `Leave` is the
finally block and the semaphore's `__aexit__`, which run without a suspension.
The five `Cancel…` actions are cancellation of `run()` delivered at each
suspension point: in `CancelLocking` the locks already taken are *not* released,
because the acquire loop stands before the `try`; in `CancelPromoting` the thread
goes on. asyncio's `Lock` and `Semaphore` are external and modelled first come
first served with direct hand-over. That is stronger than what CPython's
`Lock.release` does (it wakes the first waiter, which then takes the lock), but
the same to a caller: while somebody waits, `acquire` does not overtake.
A path is a number in `sorted()` order; `FileOf` maps spellings to files.
The pipeline is the time it takes and how it ends.

`SerializedScopes` is what the class promises: submitted, waiting, running, done,
no two running tasks share a file, at most `MaxParallel` run. `ImplementsSerializedScopes`
is the refinement.

### PipelineRun (and PatchAdmission)

Runs of one task, one after the other; `pc` follows `run()` and
`_pass_execute_or_replay`. Each await or command that can fail is an action with
a failing alternative (`Baseline…`, `Execute…`, `Apply…`, `Verify…`, `Rollback…`, `Deliver…`), and
`Raise` is the except clause. A tree is a function from changes to *absent, partial,
once, twice*: enough to tell what was applied, applied again, partly copied or
reverted. `Site` is the directory the commands run in, `Workspace` the one
delivered from. `live` are the containers and remote sandboxes, `saga` the compensation stack,
`events`/`log` what the run saw and what the store still holds; `Summarize` keeps of the former what `summary.json`
does, diagnostics and dispatch attempts.
`Faults` selects the kinds of failure of a run of TLC.

Abstractions: HEAD is the request's `base_commit`; a patch is not empty; directories
of worktrees are one (`mirror`) because their name depends on the task only;
`Breaking[c]` are the changes contracts `c` refuse, verification being a
function of the tree, or of luck with the fault `flaky`; `event_store.append` succeeds; `attempts` is at most
2 because `next_attempt_plan` escalates only from *draft*, once; `max_cost_usd = None`
is a large `MaxCost`.

`PatchAdmission` is the rule of `lowering_config.json:41` as a machine: reproduce,
try, accept or refuse, admit from *accepted* only. `ImplementsPatchAdmission` is the refinement.

### SandboxVerification

One task whose patch is verified in a worktree, alone or with a container bound to it, in a remote sandbox
(E2B, Modal, or an embedder's own provider, *custom*) or next to a HumanLayer session. `pc` follows
`Pipeline.run` from `create` (`WorktreeManager.create`) over `upload`, `baseline`, `execute`, `apply` and `verify` to `sync` and `deliver`,
or over `reverse` to `destroy` and `cleanup`. A tree maps each file to its content; `dir` is the worktree's
directory, which outlives runs, `box` the remote sandbox, `live` the containers, sandboxes and sessions that exist. `UploadFile`, `LoseFile`, `DownloadFile`
and `SkipFile` are the transfer of one file; `todo` is what is left of it. A stage of the verifier works off a list of checks
(`left`), each a selector with its retries or a metric, and leaves `pre` and `post`: checks with the exit code they got.
`Answers` is what pytest may answer in a tree: 4 for a selector that names nothing, 5 for an empty file, luck for a flaky one.
`Reads` adds the codes that say nothing of a tree (`Breakdown`: interrupted, an error of its own, not installed, killed); the
baseline takes any but 0 for a reproduced bug.
`due` counts compensations: an upload that raises compensates by itself (`remote_compute.py:126`) and the saga's turn comes after that.
`faults` is history: files *lost*, exit codes nobody told (*blind*), what an *agent*'s session wrote,
removals that failed for good (*stuck*).

Abstractions: three files, one of them `.git`, which in a worktree is a file that names a directory of the host (`GitRuns`); a test reads one file;
one attempt per run; which failures of commands the SDKs raise and which they return is taken from `run_command`.

### SharedRepo

MergeQueue together with what its pipelines do to one repository. `step[t]` is the next git
command of a task, `head`, `index` and `work` are `repo_root`, `mirror[t]` is the worktree of a task that
has one, and a tree is the set of tasks whose patch it holds. Tasks with disjoint files run at the same time; those with a local
sandbox, and those whose patch is replayed from the cache, work in `repo_root` itself. `asyncio.to_thread`
puts the adapter's git commands, the tests and `promote_commit` in threads, so the commands of several tasks interleave one by one.
`Schedule`, `Succeed`, `Fail`, `AskForCommit`, `StartAdding` and `Promoted` are actions of `MergeQueue`
with what they mean for the repository. `Reset` is `revert_to_stable`, which takes back *everything* since the snapshot, whoever's
it is and whatever sandbox the failing task has. `Add` is `git add .`, and `Commit` fails
without a change to HEAD.

Abstractions: one attempt per task, no cancellation (PipelineRun and MergeQueue have
these), one key and patch per task; what the runs write themselves (events, cache, summaries) lies outside
`repo_root` or is ignored by git. `crossed` (runs under way while another task reset `repo_root`) and `accepted` are history.

### RuntimeMonitor

`exec` and `mon` are the two asyncio tasks, `caller` the coroutine that waits for
them in `asyncio.wait` (*waiting*), in the andon branch (*stopping*), for the execution
when the stream ended first (*draining*), or for the cancelled monitor (*closing*).
`busy` says that the executor holds the event loop: nothing else in the loop moves, but
its subprocess may write. `Judge` is `on_event` followed by `validate_path`; when the event
store's file lies in the workspace, `on_event` is itself a write that the stream sees. The
polling stream compares times with its last scan (`seen`), the others are one queue of paths,
"none" is a stream that ends at once, and a remote adapter asks its provider first and
falls back when it emitted nothing.

Directories (`Dir`) lie in the workspace (`Root`) or in each other: `Of[p]` is the directory of a file or directory, which may be
written or made once the latter is there (`Reachable`). `since[d]` is the time from which what happens in `d` makes events, the
state of inotify's `watches` with a time. inotify watches a directory only after it read the event of its creation
(`WatchDirectory`), and never one that was moved there; it looks at the directory the event names and not into it, so one that
was made in a directory not yet watched has no event and is never watched. watchfiles reports the
directories themselves, which are no authorized files; FSEvents passes over them.

A scan is taken file by file, which is finer than the code (nothing else runs during one)
and so allows every behaviour of the code. Not modelled: a detached subprocess that
writes after its executor was cancelled, the removal of directories, and the names watchfiles' default filter leaves out.

### RefinementQueue

Processes of `run_pipeline` and `generate_refinement_tasks` (`Process`), one promoter and one
runner. `PlanOf` is `RefinementPlanner.plan` with its deduplication, a recursive function over the
summaries in the order of their paths. Tickets are written under 1, 2, …, then the manifest;
`promote` removes the factory's queue and copies file by file in any order; the runner
loads what is open, runs a command per ticket, and marks *the file under that name*.
Each process may die between any two steps.

`alone`, `torn`, `subject`, `resolved`, `disturbed`, `crossed` and `promise` are history: they
record what a property needs to know about the past, no guard reads them, and
no other variable depends on them.

Abstractions: `rmtree` is one step, so is loading, so is `_mark_done`'s read and write;
one promoter and one runner (a tool of each is started by hand); the runner works on the promoted queue; messages are
model values; priorities, titles, scopes and the Markdown report are left out.

### RunKit

The kit's files (`kit`), those of the compiler repository (`target`) and the operator's `command`. A rendered file
*is* the configuration it was rendered from, since the renderers read nothing else; so a tree maps files to configurations.
`left` is what the tool under way still has to remove, write or copy, as groups of files, the files of a group in any order, and
`held` the configuration it has loaded: the tools of `materialize.sh` load it one after the other, and
`EditConfig` may come in between. `Fails` is any error under `set -e`, and `Crash` stops a command between any two
files. `rmtree(ignore_errors=True)` may leave a file and go on (`KeepKit`); `stray` are the files of which that happened.
`Renders` is what a renderer needs to find in its configuration; without it `UnknownItem` ends the tool after
the packages were removed. `research/` is a stage (absent, begun, template, report). `meta_analyze.py` runs in `Analysis` processes, step by step: read the version, append to the log, read
the program, open it (which empties it), write it. `Replaced` is the replacement of a text, not of a version: where the program read
begins with the version read, that prefix becomes the next version. `drafted`, `whole` and `exit` are history, `budget` the bounds.

Abstractions: of files that are always written directly after each other one stands for all; an empty directory counts as
none; the operator runs one command at a time; what agents do is external (`AgentsReport`, `AgentFinishes`).

### ContextOptimizer

Runs of the pass `optimize_context`, of several processes, on shared files and a shared cache. `pc[r]` is the loop a run is in (*digests*
of `compute_key`, *symbols*, *links*, *slices*), `todo[r]` what the loop has not come to; every loop reads the
files anew, one at a time in the order of their paths, and `Edit` may come between any two reads. `Hit` takes a row, `Put` makes one or replaces what
another run made of the same key. `Parse` is `ParserRegistry.parse_file`: tree-sitter where it is
installed (`parser[r]`) and finds anything, or else the backend of the suffix. A backend is what it finds of a text: `AstParse` the top
level and the methods of classes, `RegexParse` what its expressions match, without owners and import entries. `Resolve` is `Linker._resolve`. `mixed` is history.
Which definitions tree-sitter's queries (`tree`) and the expressions of the fallback (`patterns`) match is part of the text, and may be any of
them, as neither knows every kind of definition.

Abstractions: digests are the texts themselves; lists are sets; excerpts, signatures and lines are part of a text; `Ends[m]` are the files whose path
ends with the module's, and `Home[m]`, which only a property reads, the one it is, if it is in the scope; nothing says that `Home[m]` is in `Ends[m]`.

## 4. What the runs show

Sizes are distinct states. All runs are complete explorations of their instance (`runkit` up to its constraint).

| Run | Instance | What it shows |
|---|---|---|
| `queue_safety` | 4 tasks with any scopes over 2 paths, 3 permits, every task cancellable, symmetric tasks; 71,931 states | `ScopesSerialized`, `NeverStuck`, `OnlyCancellationLeaks` |
| `queue_live` | 3 tasks, 2 paths, 2 permits, no cancellation, fair; 18,498 states | `EveryTaskAnswered`; the refinement of `SerializedScopes` |
| `pipeline_faults` | 2 runs with every kind of failure, crashes, failing teardown, direct writes, operator's edits, patches that repeat, delete and leave their scope; fair; 441,832 states | `Admissible`, `FailureExplained`, `RollbackRestores`, `SandboxSparesRepo`, `RunEnds`, the refinement of `PatchAdmission` |
| `pipeline_calm` | 2 runs, 3 patches, 4 sandboxes, three prices, failing executors, flaky verification; git and teardown succeed; 36,188 states | `VerifiedOnBase`, `DeliveredAsVerified`, `CompensationDestroysSandboxes`, `BudgetFailsClosed`, `VerifiedIsDelivered` |
| `sandbox` | 6 adapters, 3 files, 3 patches (both files, one deletes, one empties), 3 suites of 2 to 4 checks, 2 runs with 2 failures each; 4,006,819 states | `DeliveredWhole`, `EvidenceHolds`, `NothingLeftBehind`, `EveryStepCounts` |
| `shared_safety` | 4 tasks on 2 permits: two overlap a third, a fourth is apart; 3 in `repo_root` (one a replay), 1 in a worktree; 3 commit; commands fail; 2,482,008 states | `OkMeansVerified`, `CommitHoldsPatch`, `RollbackKeepsOverlapping` |
| `shared_promotion` | the same, all commit, no command fails | **violated**: `VerifiedIsPromoted` (finding 1) |
| `monitor_safety` | 3 files: an authorized one in a directory, a foreign one in a directory in that, the event log; the directories are there, made or moved in; polling, watchfiles, inotify or none, with or without a provider's stream; an executor that writes while the clock is below 3, fair; 243,842 states | `NoResultAfterViolation`, `AuditComplete`, `NoOrphans`, `FalseAlarmOnlyFromLog`, `NothingUnnoticed`, `ReturnsWhenOver`, `PendingViolationStops` |
| `monitor_writes` | an authorized and a foreign file, no directories, event backends only | **violated**: `UnauthorizedWriteStops` (finding 2) |
| `refinement` | 2 tasks with 1 message, 2 emitting processes, 2 emissions, 2 promotions, 2 runners, deaths anywhere; 1,881,371 states | `IssuesTicketed`, `DoneMeansResolved`, `LoopCloses` |
| `runkit` | 3 configurations, one of them incomplete, 2 items, 2 tickets, 2 analysing processes (symmetric); 4 commands and an edit, or 3 with an edit and a death or a removal that fails unnoticed, or 2 with one of these and 2 analyses, or 1 with 10 analyses; 2,859,971 states | `KitRendersConfig`, `QueueOfOneConfig`, `VersionsExplained`, `BootstrapCopiesKit`, `WorkNotLost` |
| `context` | 2 runs, each with or without the cache and tree-sitter, a Python and a TypeScript file of 4 texts or none, two of which a parser reads with gaps, a module whose file does not end like it, 1 edit; 3,134,203 states | `ContextOfItsSources`, `LinksLeadHome` |

Types, and other properties of a module that no run lists (`PermitsAccounted`, `NoWaitCycle`, `NoLostWakeup`, `SandboxesOnSaga`,
`PendingGetsItsTurn`, `EveryStepCounts` of `MergeQueue` and of `PipelineRun`), are
proved for every instance and not checked again on a small one.

Why these bounds are enough:

* *MergeQueue.* A lock with two waiters takes three tasks that hold permits, and a queue at the semaphore a
  fourth. Two paths and the commit lock
  allow circles if acquisition were unsorted; three paths (1,193,659 states) pass as well. What
  the bounds leave open is proved for any number (section 6), liveness excepted. For liveness
  three tasks on two permits have a full semaphore, a lock handed over, and a third task behind both.
* *PipelineRun.* What a run leaves behind is read by the next one only, so two runs
  cover replay, a worktree or container found in place and a stale cache; two attempts are
  all the code can make. Three patches are one that repairs, one that repairs and
  breaks something, one that does neither.
* *SandboxVerification.* The second run is the one that finds a directory in place; two failures are one on the way
  there and one in the removal. The files are one the selectors are about, one they may or may not notice, and `.git`. The suites
  have every kind of check, a selector that names nothing, a flaky one with a retry, and a fail-to-pass contract without a bug.
* *SharedRepo.* Two permits let a task with a disjoint scope (in `repo_root` or not) run beside each of the overlapping
  ones, and the third and fourth take over when one ends, as a stale snapshot needs. Three permits (3,213,670 states) pass as well. What the
  bounds leave open is proved.
* *RuntimeMonitor.* One file of each kind; the clock allows the executor to make both directories, or one and write into it, or two writes, or
one whose record in the log is a write, too. Two nested directories are what it takes for one to be missed for good.
`monitor_safety` leaves out FSEvents, a queue like watchfiles' with fewer events in it; what the bounds leave open of the safety properties is proved.
* *RefinementQueue.* Two processes overlap, two promotions replace a queue under
  a runner, two runners resume after a failure. `MaxEmissions = 3` with one promotion and one runner was explored, too (a
  shorter plan after two longer ones), and passes.
* *RunKit.* Two configurations that share an item and whose queues have one and two tickets tell old files from
  new ones and leave surplus ones; the incomplete one makes a tool fail after it removed the packages. Four commands are draft or
  materialize, once more, bootstrap, install. Ten analyses reach v11, past the v10 of which v1 is a prefix; while the command is still
  under way no more than two versions are logged (`Apart`, a constraint). With 21 for the 20 of `VersionsExplained` TLC finds v10
  turned into v20 by an analysis that read 1, so the bound is what the code gives.
* *ContextOptimizer.* One run fills the cache and the other finds its row, or both fill it; the edit falls before, between or
  into them. The texts have every kind of definition and import, definitions a parser does not find, and each way to fail. Everything else is proved.

Every property of a passing run has a mutant in `PROJECT.json`: a
small change of one operator, such as a dropped guard or a missing
reset, under which the same configuration refutes it.

`CHECK_DEADLOCK FALSE` everywhere: tasks, runs and processes end, and with every
bound used up nothing is left to do. That nothing stops *early* is what
`NeverStuck`, `EveryTaskAnswered`, `RunEnds` and `ReturnsWhenOver` say.

## 5. Fairness

* `MergeQueue!FairSpec`: weak fairness of each task's own `Step`. The event loop
  resumes every ready coroutine. That a pipeline and the thread of a promotion end is an assumption: git, docker and pytest are started
  without a time limit. Submission is part of `Step` because `gather` starts all coroutines.
  Cancellation is not fair, and `queue_live` has none: after a leaked lock
  (section 10) later tasks do wait for ever.
* `PipelineRun!FairSpec`: weak fairness of what the process does itself (`~AtCommand`). The commands it waits for have no time limit
  (pytest, `verifier.py:216`; git, docker), so `RunEnds` has their fairness as its premise: `CommandsReturn => …`. New runs, crashes and expiry are not fair.
* `RuntimeMonitor!FairSpec`: weak fairness of starting, of an executor leaving the event loop
  (`timeout_seconds` of its subprocess), and of the end of a cancelled task; strong fairness of the
  monitor's and the caller's steps, because a busy executor disables them again and again, while asyncio's ready queue is first come first
  served, so each of them has its turn between two turns of the executor. That a suspended executor
  resumes is not assumed: `PendingViolationStops` holds for one that never does.
* `SandboxVerification`, `RefinementQueue`, `SharedRepo`, `RunKit`, `ContextOptimizer`: none, every property is a safety property.

## 6. What is proved

Every safety property of every passing run is proved, and a few more. Constants are arbitrary up to the named
assumptions of the modules: `NumPaths` is a natural,
`FileOf` a function on paths, `MaxParallel` positive, `NoTask` and `CommitLock` fresh, `Cancellable` any set
of tasks (MergeQueue); `NoPatch` and `NoTree` fresh, costs natural, requests and faults of their types
(PipelineRun); the log is not authorized, everything lies in a directory or in the root, which are no files (RuntimeMonitor); scopes are sets of paths, the kinds of tasks sets of tasks (SharedRepo);
files are finitely many, patches leave `.git` alone, suites are lists of checks with known terms (SandboxVerification); `None` is none of the data (RefinementQueue);
execution orders are not empty and no longer than the list of ticket names, files have one part each (RunKit);
files are naturals any set of which has a first (ContextOptimizer).

Some theorems have a hypothesis more, which the code needs (section 10):

* `ScopesSerialized`, `RollbackKeepsOverlapping` and the refinement of MergeQueue: no file has two spellings.
* `CompensationDestroysTheorem`: tearing down does not fail (`SandboxVerification` has it failing).
* `VerifiedOnBaseTheorem`: no process dies, no executor writes by itself, tearing down succeeds (`Calm`): each of these can leave a dirty worktree for the next run.
* `DeliveredAsVerifiedTheorem`: no executor writes by itself and no patch applies twice (`Once`).
* `VerifiedIsDeliveredTheorem`: moreover commands and cache do not fail and no patch deletes (`Smooth`).
* `VerifiedIsPromotedOneByOne`, `VerifiedIsPromotedOverlapping`: what finding 1 refutes is true when no command fails and either
  one task runs at a time or all tasks in `repo_root` have files in common, two and two; no file of the repository makes either so
  (`max_parallel` is 2 unless told otherwise, `merge_queue.py:39`).

Data over which an algorithm recurs is reached, where it must be, without an induction theorem: `LeastNumber` and `AllNumbers` of `RefinementQueueProofs`
turn "the naturals are well founded", which the library states for sets, into induction over a *set* of
numbers; `LoopDefined` uses it to show that the planner's recursive function exists, `LoopPlans` what it computes.
PermitsAccounted counts with cardinalities of the set of permit holders only, so `Task` may be infinite.

| Module | Theorem | Says |
|---|---|---|
| `MergeQueueProofs` | `TypeCorrect` | types |
| | `ScopesSerializedTheorem` | overlapping scopes never run together |
| | `PermitsAccountedTheorem` | no permit is lost, doubled, or idle while a task queues |
| | `NoWaitCycleTheorem` | coroutines never wait in a circle |
| | `NeverStuckTheorem` | whoever waits, waits in the end for somebody that can go on |
| | `EveryStepCountsTheorem` | action property: each step brings a task nearer to its end and takes none back |
| | `NoLostWakeupTheorem` | what is queued for has an owner |
| | `OnlyCancellationLeaksTheorem` | locks survive a task only through a cancelled acquire loop; promotions run under the commit lock unless cancelled |
| | `Refinement` | MergeQueue implements SerializedScopes |
| `PipelineRunProofs` | `TypeCorrect`, `AdmissibleTheorem` | types; the cache holds a patch only with both kinds of evidence |
| | `SandboxesOnSagaTheorem` | the saga knows every sandbox of a run that goes on |
| | `BudgetFailsClosedTheorem` | a call over budget is never applied nor followed by another |
| | `SandboxSparesRepoTheorem` | action property: sandboxed runs put patches into `repo_root` by replay only |
| | `FailureExplainedTheorem` | a failed run's summary has one diagnostic, after which compensation was completed, and the dispatch record of an attempt that was given up; if it has neither, no attempt was begun, or compensation raised with sessions left |
| | `CompensationDestroysTheorem` | a failed run leaves no worktree, container or sandbox |
| | `VerifiedOnBaseTheorem` | evidence is about the base commit and the patch only |
| | `DeliveredAsVerifiedTheorem`, `VerifiedIsDeliveredTheorem` | what is delivered was verified; what was verified is delivered |
| | `RollbackRestoresTheorem` | a rolled back attempt leaves the committed tree, whatever fails or dies later |
| | `EveryStepCountsTheorem` | action property: a run takes a bounded number of steps, failing ones included |
| | `Refinement` | PipelineRun implements PatchAdmission |
| `SandboxProofs` | `TypeCorrect`, `DeliveredWholeTheorem`, `EvidenceHoldsTheorem`, `NothingLeftBehindTheorem` | as the properties, for any files, patches, suites and adapters |
| | `EveryStepCountsTheorem` | action property: a run takes a bounded number of steps of its own, whatever is lost, repeated, destroyed or written meanwhile |
| `SharedRepoProofs` | `SchedulerUnchanged` | SharedRepo implements MergeQueue, whose theorems hold in it |
| | `RepoTypeCorrect`, `OkMeansVerifiedTheorem`, `CommitHoldsPatchTheorem`, `RollbackKeepsOverlappingTheorem` | as the properties |
| | `SharedRefinement` | SharedRepo implements SerializedScopes |
| | `VerifiedIsPromotedOneByOne`, `VerifiedIsPromotedOverlapping` | when the property that finding 1 refutes is true |
| `RuntimeMonitorProofs` | `TypeCorrect`, `NoResultAfterViolationTheorem`, `AuditCompleteTheorem`, `NoOrphansTheorem` | as the properties |
| | `FalseAlarmTheorem` | an executor that keeps to its scope is stopped only by its event log, or by watchfiles for a directory |
| | `NothingUnnoticedTheorem` | no event backend loses an unauthorized write in a directory it watches, and a directory made in a watched one is watched or its event still to be read |
| | `PendingGetsItsTurnTheorem` | action property: an unauthorized change comes closer to being read, or waits for the next scan, and is not lost |
| `RefinementQueueProofs` | `TypeCorrect`, `IssuesTicketedTheorem`, `DoneMeansResolvedTheorem`, `LoopClosesTheorem` | as the properties, for any number of tasks, messages, processes and runs |
| `RunKitProofs` | `TypeCorrect`, `KitRendersConfigTheorem`, `QueueOfOneConfigTheorem`, `VersionsExplainedTheorem`, `BootstrapCopiesKitTheorem`, `WorkNotLostTheorem` | as the properties, with the files a removal left (`stray`) and the versions from v20 on excepted; the last two are action properties |
| `ContextProofs` | `TypeCorrect`, `ContextOfItsSourcesTheorem`, `LinksLeadHomeTheorem` | as the properties, for any files, texts, matches of the parsers, modules, runs and edits |

The inductive invariants, and why each is needed:

* *Scopes* (`CriticalOwnsScope`): a task between its last acquire and its finally block owns
  every lock of its scope. Ownership is a function, so two such tasks with one file own
  one lock. `ScopesSerialized` itself is not inductive, as it says nothing of who owns what.
* *Permits* (`PermitInv`): besides the count, the semaphore's queue holds exactly coroutines that are
  `queued`, each once; otherwise a hand-over could go to a task that holds a permit already.
* *Locks* (`LockInv`): waiters ask for what they wait for, once; owners have asked; a locking task owns a
  *prefix* of its sorted scope (`OwnsPrefix`). No wait cycle follows: take the greatest path anybody in the cycle
  waits for; its owner, in the cycle as well, waits for a path not owned, which is greater than all it
  owns, or for the commit lock, whose owner waits for nothing. `NeverStuck` follows: in a set
  that waits for itself only, those that wait for locks would contain a circle, so there are none; then all are queued, every
  permit is held (`PermitsAccounted`), and its holder, for whom they wait, is not queued. `WaitersQueued` (a queued task is in the
  semaphore's queue, a committing one owns the commit lock or waits for it) excludes one that waits for nothing and still does not go on.
* *Steps of a task* (`Distance`): twice the locks it lacks, less one if it waits, so that a hand-over, which changes the owner of a
  lock for the benefit of another task, brings that one nearer, too. `Unharmed` is what a step leaves alone of the others.
* *PipelineRun* (`IInv`): `SitesExist` and `TrialKnown` tie directories and patch to `pc`; `BaselineSound` and
  `VerifiedSound` say of the evidence gathered *so far* what `Admissible` says of the cache, since the cache entry is
  put together from variables that were set many steps, and possibly an attempt, earlier.
  The other proofs add to it: `LiveKnown` (a sandbox belongs to a run that was started); `Explained` (the log of a run in the
  except clause ends with a diagnostic); `Destroyed` (the saga covers container, sandbox and worktree until it has been worked off);
  `OnBase` (`MirrorFresh`, `SiteOnBase`: between runs and between attempts the worktree is absent or the base again); `Delivered` (`Copied`, `Synced`,
  `Handed`: how worktree, sandbox and workspace differ at each step, since the two components that apply the patch see different trees);
  `Restored` (between a rollback and the next attempt the tree is the base, and events say of which attempts that is true); `SagaShort` (the saga
  has no more sessions than there were attempts, so what compensation has left to do is less than an attempt, which `Remaining` needs).
* *SandboxVerification* (`IInv`): `Faithful` says which tree the checks of the stage under way run on, unless a file was lost; `Gathered` that what is
  no longer `left` has evidence of its kind; `Truthful` that this evidence is what that tree gives;
  `Whole` that files outside the patch are as they were found, wherever a transfer stands: so the final `apply_patch` either makes a half
  synchronized patch whole or, where it applies neither forwards nor backwards, refuses it (`DeliverRaises`); `Leaving` that in the cleanup of the last compensation nothing lives any more unless it is `stuck`; `Started` that `live` belongs to runs begun.
  `Remaining` counts a check four times, once and for three repetitions, and a compensation twice; `Leaving` keeps `due` above zero while one is under way.
* *SharedRepo* (`IInv`): `PatchKept` follows an undisturbed patch from the working tree to index and HEAD; `RefusedStops` needs it, since
  verification judges the tree and not the patch. `CommittedFirst` says that a promoted patch leaves `repo_root` from the outside in (in the
  index while it is in the tree, in HEAD while in the index): so no later `git add` or `git commit` of another task brings
  back what a reset took, which `RollbackKeepsOverlapping` needs between the snapshot of a task and its reset. That no
  overlapping task is promoted in between is `ScopesSerialized`, by `SchedulerUnchanged`. `OwnPromotion` (a patch gets into index and HEAD by its own
  task's promotion only) and `NobodyFails` are inductive as long as at most one pipeline is at work in `repo_root` (`AloneInRepo`), which the permits
  or the locks give.
* *RuntimeMonitor* (`IInv`): `Phases` lists which states of caller, executor and monitor go together; that
  `closing` excludes a monitor with a violation is what makes a late violation harmless. `Sources` says where
  everything in the queue, the scan and the record came from; `Watches` says which files an open stream does not watch. `Turn` adds nothing to it:
  queues only grow at their end and lose only their head, which stops the monitor if it is unauthorized.
* *RefinementQueue*: `Ticketed` follows an undisturbed emission ticket by ticket (`LonePlan`) and keeps what the last whole one wrote (`WholeQueue`);
  that it is undisturbed is not visible in the files, hence `alone` and `torn`. `Undisturbed` ties the runner's command to the ticket under its name, which only a
  promotion can change. `Promised` and `SeenTo` say of each promised problem that it is yet to be copied, promoted, to be run, or done.
* *RunKit* (`IInv`): `Progress` says of each step what is already rendered and what is `Pending`; what is to be removed is all there is (`OneConfig`), so
  nothing old survives; `Copying` says that a file of the target is pending or equal to the kit's, with `Doomed` for groups of which the kit has no file and at which the copy will fail;
  `Explained` that every version before the one the program has, or a process holds, is in the log, if it is below v20 (`Below`); that a replacement gives the
  next version or leads to 20 and beyond is `ReplacedIs`. What survives a removal is in `stray`, which `OneConfig` excepts.
* *ContextOptimizer* (`IInv`): `OnItsWay` says of each loop what it has made so far of the files it has come to, and that the digests are those of the
  present files unless one changed (`mixed`); `RowSound` that a row is the analysis of the digests in its key, by the parsers of whoever made it.
  Import resolution needs neither: `LinksInv` says that the links of every context and row were resolved in its own table, which is whole before the first link is made,
  so `LinksLeadHome` holds of mixed contexts, too.

The refinements map each action to one abstract action or to a stutter;
`SerializedScopes!Begin` needs the scope and the permit invariants at once, since both its guards are about other tasks.

## 7. What is only model-checked

Liveness (`EveryTaskAnswered`, `RunEnds`, `ReturnsWhenOver`,
`PendingViolationStops`): fairness and ENABLED are outside what the prover handles. What these rest on is proved, for every instance:

* `EveryTaskAnswered`: `EveryStepCounts` (every step uses up something finite) and `NeverStuck` (somebody can go on).
* `RunEnds`, which supposes that commands return: `EveryStepCounts` of `PipelineRun`.
* `PendingViolationStops`: `PendingGetsItsTurn`; `NoResultAfterViolation` and `AuditComplete` for what follows.
* `ReturnsWhenOver`: `NoOrphans`, for its having been right to return.

What is left to TLC is that a step which is possible is taken.

## 8. What is not modelled, and why

* *Model executors*: prompts, HTTP, extraction of diffs. Data no property tells apart; what matters (when they hold the
  loop, what they write, how they end, what they cost) is in `RuntimeMonitor` and `PipelineRun`.
* *Diagnostics, IR*: sequential functions and tables whose results decide no control flow of the pipeline.
* *tree-sitter*: its grammars and the matching of queries are external; what a match becomes is modelled.
* *HumanLayer's launcher* (`tools/launch_humanlayer_ticket.py`): a call of the adapter's `execute` that is never compensated.
* *Around the run kit*: `notify.py`, the tmux and ticket-flow launchers, the git commits of the agents.
* *Tickets' texts* (priority, title, scope), `refinements.json`: nothing reads them.
* SQLite's transactions, git, docker and asyncio's primitives are trusted or modelled from their use.

## 9. Findings

1. **A verified task fails to be promoted** (`shared_promotion`). Two local tasks with disjoint files run at once; `git add .` (`core/vcs.py:88`) of
   the first commits the second one's patch as well, verified or not, and the second finds nothing to commit and is reported as failed
   ("Verified outputs can be promoted to commits atomically", `lowering_config.json:456`). It takes two tasks at work in `repo_root` at
   a time: `VerifiedIsPromotedOneByOne` and `VerifiedIsPromotedOverlapping` prove that it does not happen otherwise.
2. **A blocking executor is not monitored** (`monitor_writes`). `subprocess.run` inside the coroutine (`core/executors.py:240`) holds
   the loop until the executor returns; the stream, opened only then, begins with the state after the change and has no event of it, and the result is
   returned ("Execution must stop immediately", `lowering_config.json:218`).

## 10. Known deviations

Behaviour met while modelling that the modules contain and the properties exclude by name, or that lies beyond them.

*Scheduler.* Locks are keyed by the strings of `authorized_files` (`merge_queue.py:54`) while the watcher reads `./a.py` and `a.py` as one
file (`watcher.py:10`): two tasks with these spellings run at once (`FileOf` can say so, and `ScopesSerialized` then fails). The permit is taken before the file locks, so tasks that wait for a busy file use up parallelism
(`merge_queue.py:56`). A cancelled acquire loop leaks the locks it holds (`merge_queue.py:58`). A cancelled promotion's thread goes on
without locks (`merge_queue.py:65`).

*Repository.* A task's rollback in `repo_root` takes with it what other tasks delivered or committed since its snapshot, and
can bring back what another rollback had taken before (`vcs.py:114`). If that hits a task between its patch and its tests, the tests run on a tree without the patch, pass, and the delivery puts
the patch back unverified (`pipeline.py:365`); if it hits before the reversal, the reversal fails, and with it the task's own reset (`pipeline.py:339`). A commit may hold other tasks' unverified patches.
A failed task in a sandbox resets `repo_root`, too.

*Verification.* Fail-to-pass contracts are not run again on the patched tree (`verifier.py:78`; "must prove the targeted bug fails on the base
state before the patch and passes after the patch", `lowering_config.json:191`). The action key leaves the contracts out (`pipeline.py:263`) and a hit is
not verified: stricter contracts get what laxer ones accepted. Before the patch every exit code but 0 counts as
a reproduced bug (`verifier.py:131`, `:233`): 4 and 5 of pytest, a selector that names nothing, 2 and 3, an interruption or an error of its own, 127, when
there is none where the command runs (the path looked for in a sandbox is the host's), and that of a process that was killed. A check that passes on the base lets a patch through that way ("No patch is admissible unless targeted
fail-to-pass checks fail on the base state", `lowering_config.json:41`). A provider that tells no exit code is read as 0 (`remote_compute.py:298`).

*Pipeline.* `summary.json` holds the diagnostics and dispatch attempts of a run, not its other events (`pipeline.py:508`), and no record of an attempt
that ended before its verification, over the budget, or with a failing delivery. When a compensation raises (`pipeline.py:407`), or something before the try statement does, such as `validate_paths` of a replayed patch (`:266`), the summary of the failed run has neither. An
executor that raises may have written before (with the fault *direct*). `apply_patch` asks whether a patch applies before it asks whether it is there (`vcs.py:46`): where the context repeats, delivery
applies it again. The sum of both attempts' costs is never compared with the budget, and the cost of the call that exceeded it is
missing from the summary (`dispatcher.py:74`, `:124`). `git clean` removes event store, cache and summary when they lie unignored under `repo_root`
(`vcs.py:122`). The operator's uncommitted edits in `repo_root` are reset after a failed verification in a sandbox (`pipeline.py:340`); when reversing the patch fails the reset is skipped
(`pipeline.py:339`). A crashed run's worktree is reused with what it held (`worktree.py:28`). A local run that fails after delivery leaves its patch (`pipeline.py:366`). A
remote deletion, and a download that fails, are not copied back (`pipeline.py:459`, `remote_compute.py:86`). A failing `destroy` leaves the worktree and the rest of the saga (`remote_compute.py:145`, `saga.py:33`).

*Away from home.* The worktree's `.git` file is uploaded like any other and names a directory of the host, so `git apply` fails in a real remote
sandbox; managers that make plain directories work (adapter *custom*, and *remote* of PipelineRun). `README.md:449` says that remote patches are applied in a local mirror, the code applies them in the sandbox.
A lost upload is not noticed, and the verification is about a tree with holes (`remote_compute.py:66`). Deleted and emptied files are not copied back (`:86`); the final
`apply_patch` makes the workspace whole or, where the half patch lets it apply neither forwards nor backwards, refuses it and the run fails (`vcs.py:59`). A provider that cannot create a sandbox leaves the worktree made for it (`:123`). A cancellation is not compensated, since the
except clause catches `Exception` (`pipeline.py:399`). A HumanLayer session outlives its run and may write into the worktree of the next (`humanlayer.py:83`). Runs with other authorized files have another key but the same
worktree, and so find and remove each other's (`worktree.py:21`). Nothing runs in the container of the docker adapter, the commands run in the worktree on the host (`base.py:53`).

*Monitor.* An event log inside the workspace stops runs that wrote authorized files only (`monitor.py:27`). An error the executor raises while it is cancelled
replaces the violation (`monitor.py:48`). After the stream ended, the execution goes on unwatched (`monitor.py:59`, `remote_compute.py:155`).
A cancellation while waiting leaves both tasks running, one in the clean-up is swallowed (`monitor.py:41`, `:49`, `:63`). Polling misses creations and deletions
(`monitor_backends.py:42`). What is written into a new directory before inotify read its creation goes unseen (`:114`), and all of it when the
directory was moved there (`:117`) or made in one that was not watched yet: `mkdir -p a/b` may leave `a/b` unwatched for ever. watchfiles reports new directories, which no scope authorizes (`:75`): a run that makes one is stopped.

*Refinement.* Two emitters at once can leave a problem without a ticket (`refinement.py:211`); tickets of a longer plan stay (`refinement.py:209`); a promotion
throws done marks away and may leave files it cannot remove (`promote_refinement_queue.py:63`, taken to succeed), and one that crosses a running command gets another problem marked done (`promote_refinement_queue.py:63`, `refinement_runner.py:50`). Priority
*critical* is unreachable because the code of a diagnostic is always `PIPELINE_FAILURE` (`diagnostics.py:48`).

*Run kit.* `draft-lowering.sh` removes the report it drafted from, with what agents added while the model answered (`draft-lowering.sh:14`). A draft after one that
died drafts from no report at all, a text that is not a configuration is noticed after `research/` is gone, and an incomplete one after the packages are
(`compiler_bootstrap.py:472`, `:499`), with the old session manifest still there. `rmtree(ignore_errors=True)` leaves what it cannot remove
among the new files (`compiler_bootstrap.py:472`, `compiler_ticket_emitter.py:296`), and a later bootstrap copies a kit of two halves. `validate_config` does not compare `execution_order` with `work_items`.
A new installation drops done marks (`compiler_ticket_emitter.py:253`) and accepts a queue that is half emitted; a bootstrap from a kit without a queue leaves the old
queue's manifest. Two analyses at once may set the version of `program.md` back, and one that dies leaves it without a version (`scaffold.py:482`).
The version is replaced as a text (`:474`): an analysis that read 1, since another had just emptied the file, turns `v13` into `v23`; from v20 on `program.md` may have versions
that no log explains.

*Optimizer.* The key of its cache digests files that are read again for their contents later (`optimizer_cache.py:37`): if another task changes them in between, the
entry is wrong for good. The key does not say which parsers made the row (`:39`): where tree-sitter gets installed, old contexts stay. An import of a module
outside the scope is linked to the first file that has the name (`linker.py:68`), and so is one whose file does not end like it: Python packages
(`pkg/__init__.py`), `./lib` for `lib/index.ts`, `./util.js` for `util.ts`, Rust's `crate::` and `mod.rs`, Go's packages, which are directories. A module is linked to every path that ends like it, `myutil.py` for `util` (`:66`), and `import a as b` is
looked up as `b` (`:32`). tree-sitter lists methods twice, as functions, too, and misses `import a as b`; its byte offsets are
taken for indices of the text, which garbles names after a character outside ASCII (`tree_sitter_adapter.py:174`). The queries do not match TypeScript's interfaces, type aliases, enums and `var`, Rust's enums, traits, statics and type aliases, nor Go's constants
(`core/optimizers/queries`), and the expressions of the fallback miss `export default function`, `async function`, `export enum` and more (`parsers.py:146`): their names are in no table. Without tree-sitter TypeScript has no import entries (`parsers.py:190`), and a syntax error in a
Python file ends the run (`parsers.py:29`). An empty authorized file ends every run, since a slice's excerpt must not be empty (`ir.py:148`).

## 11. How to run

    tlc -config MCMergeQueue_safety.cfg MCMergeQueue
    tlapm MergeQueueProofs.tla

and likewise for the other rows of section 4 and section 6; `PROJECT.json` names module and configuration of each run.
