--------------------------- MODULE RefinementQueue ---------------------------
(*****************************************************************************)
(* The self-evolution loop around the pipeline: a run_pipeline process       *)
(* leaves a summary of its task and emits the problems of all summaries as   *)
(* numbered tickets (core/refinement.py); promote copies them to the factory *)
(* (tools/promote_refinement_queue.py); a runner executes a command for each *)
(* promoted ticket and marks it done (core/refinement_runner.py).            *)
(*                                                                           *)
(* All of these are processes of their own that share files without a lock,  *)
(* and each can die between two of its steps.                                *)
(*****************************************************************************)
EXTENDS Naturals, FiniteSets, SequencesExt

CONSTANTS
    NumTasks,      \* the tasks, in the order of their summaries' paths
    Message,       \* messages of diagnostics
    Process,       \* run_pipeline and generate_refinement_tasks processes
    MaxEmissions,  \* bound: how many of them are started
    MaxPromotions, \* bound
    MaxRuns,       \* bound: how often the runner is started
    None           \* no summary, no ticket, no promise

ASSUME BoundsAssumption == {NumTasks, MaxEmissions, MaxPromotions, MaxRuns} \subseteq Nat

Task    == 1..NumTasks
Recover == "Recover failed pipeline run"
Issue   == [source : Task, problem : Message \cup {Recover}]
Number  == 1..2 * NumTasks
Ticket  == [issue : Issue, done : BOOLEAN]

\* What a run may leave: at most one diagnostic per attempt, none if it failed
\* before the first; only a run that escalated succeeds with one.
Summary ==
    [status : {"failed"}, diagnostics : BoundedSeq(Message, 2)]
        \cup [status : {"success"}, diagnostics : BoundedSeq(Message, 1)]

ASSUME NoneAssumption ==
    /\ None \notin Summary \cup Issue \cup Ticket
    /\ \A N \in SUBSET Number : N # None
    /\ \A I \in SUBSET Issue : I # None

VARIABLES
    summary,    \* summary[t]: .pipeline/<t>/summary.json
    process,    \* where each process is
    plan,       \* the tasks each process planned and has not written yet
    next,       \* the number of its next ticket
    generated,  \* generated[i]: the issue of RTICKET-i of .pipeline/refinement-queue
    manifest,   \* its queue-manifest.json
    copying,    \* promote: the tickets it listed and has to copy yet, or None
    promoted,   \* promoted[i]: RTICKET-i of the factory's queue
    runner,     \* the runner: idle, between tickets, at a command, at a mark
    todo,       \* the tickets it loaded and has to run yet
    exit,       \* how the last runner of this promotion ended
    emissions, promotions, runs,
    \* History.
    alone,      \* the processes no other process overlapped since they planned
    torn,       \* an emission died, or overlapped, since the last whole one
    subject,    \* the issue the current command was started for
    resolved,   \* issues a command was successful for since the last promotion
    disturbed,  \* a promotion was under way since the runner started
    crossed,    \* tickets marked by a disturbed runner
    promise     \* the issues reported when a sound queue was promoted, or None

emitting == <<summary, process, plan, next, generated, manifest, emissions, alone, torn>>
copies   == <<copying, promotions>>
running  == <<runner, todo, exit, runs, subject, resolved, disturbed, crossed>>
vars     == <<emitting, copies, promoted, running, promise>>

Init ==
    /\ summary = [t \in Task |-> None]
    /\ process = [p \in Process |-> "idle"] /\ plan = [p \in Process |-> <<>>]
    /\ next = [p \in Process |-> 1]
    /\ generated = [i \in Number |-> None] /\ manifest = <<>>
    /\ copying = None /\ promoted = [i \in Number |-> None]
    /\ runner = "idle" /\ todo = {} /\ exit = "none"
    /\ emissions = 0 /\ promotions = 0 /\ runs = 0
    /\ alone = {} /\ torn = FALSE
    /\ subject = None /\ resolved = {} /\ disturbed = FALSE /\ crossed = {}
    /\ promise = None

-------------------------------------------------------------------------------
(* RefinementPlanner.plan.                                                   *)

\* Mutant of Known: the message alone is the key.
SameMessage(issue, tasks) == \E i \in 1..Len(tasks) : tasks[i].problem = issue.problem

\* seen: task, code and message.
Known(issue, tasks) == \E i \in 1..Len(tasks) : tasks[i] = issue

\* What the planner finds in a summary.
Problems(s) ==
    IF s = None THEN <<>>
    ELSE IF s.diagnostics # <<>> THEN s.diagnostics
    ELSE IF s.status = "success" THEN <<>> ELSE <<Recover>>

Add(issue, tasks) == IF Known(issue, tasks) THEN tasks ELSE Append(tasks, issue)

\* The tasks and what was found in the summary of t, at most one per attempt.
AddProblems(tasks, t, problems) ==
    LET Issued(i) == [source |-> t, problem |-> problems[i]]
    IN IF problems = <<>> THEN tasks
       ELSE IF Len(problems) = 1 THEN Add(Issued(1), tasks)
       ELSE Add(Issued(2), Add(Issued(1), tasks))

\* The plan of summaries s.
PlanOf(s) ==
    LET planned[t \in 0..NumTasks] ==
          IF t = 0 THEN <<>> ELSE AddProblems(planned[t - 1], t, Problems(s[t]))
    IN planned[NumTasks]

Plan == PlanOf(summary)

-------------------------------------------------------------------------------
(* run_pipeline and generate_refinement_tasks: a summary, then the tickets.  *)

StartsEmission(p) ==
    /\ process[p] = "idle" /\ emissions < MaxEmissions
    /\ process' = [process EXCEPT ![p] = "planning"]
    /\ emissions' = emissions + 1
    /\ UNCHANGED <<plan, next, generated, manifest, alone, torn, copies, promoted, running,
                   promise>>

\* run_pipeline: its pipeline has written a summary, then it emits.
RunPipeline(p) ==
    /\ StartsEmission(p)
    /\ \E t \in Task, s \in Summary : summary' = [summary EXCEPT ![t] = s]

\* The tool emits from the summaries there are.
GenerateTasks(p) == StartsEmission(p) /\ UNCHANGED summary

ReadSummaries(p) ==
    /\ process[p] = "planning"
    /\ process' = [process EXCEPT ![p] = "emitting"]
    /\ plan' = [plan EXCEPT ![p] = Plan]
    /\ next' = [next EXCEPT ![p] = 1]
    /\ alone' = {q \in {p} : \A r \in Process \ {p} : process[r] # "emitting"}
    /\ torn' = (torn \/ \E r \in Process \ {p} : process[r] = "emitting")
    /\ UNCHANGED <<summary, generated, manifest, emissions, copies, promoted, running, promise>>

\* Tickets are written under the numbers 1, 2, ..., whatever the files held; those
\* of a longer plan of before stay.
WriteTicket(p) ==
    /\ process[p] = "emitting" /\ next[p] <= Len(plan[p])
    /\ generated' = [generated EXCEPT ![next[p]] = plan[p][next[p]]]
    /\ next' = [next EXCEPT ![p] = @ + 1]
    /\ UNCHANGED <<summary, process, plan, manifest, emissions, alone, torn, copies, promoted,
                   running>>
    /\ promise' = IF copying = None THEN promise ELSE None

WriteManifest(p) ==
    /\ process[p] = "emitting" /\ next[p] > Len(plan[p])
    /\ manifest' = plan[p]
    /\ process' = [process EXCEPT ![p] = "idle"]
    /\ plan' = [plan EXCEPT ![p] = <<>>] /\ next' = [next EXCEPT ![p] = 1]
    /\ torn' = (torn /\ p \notin alone)
    /\ alone' = alone \ {p}
    /\ UNCHANGED <<summary, generated, emissions, copies, promoted, running, promise>>

\* The process dies.
Die(p) ==
    /\ process[p] # "idle"
    /\ process' = [process EXCEPT ![p] = "idle"]
    /\ plan' = [plan EXCEPT ![p] = <<>>] /\ next' = [next EXCEPT ![p] = 1]
    /\ torn' = TRUE /\ alone' = {}
    /\ UNCHANGED <<summary, generated, manifest, emissions, copies, promoted, running, promise>>

-------------------------------------------------------------------------------
(* Properties' terms.                                                        *)

AtRest == (\A p \in Process : process[p] = "idle") /\ ~torn

\* What the summaries report, as a set: every diagnostic, and every failure without.
Reports(s, problem) == s # None /\
    \/ problem \in ToSet(s.diagnostics)
    \/ problem = Recover /\ s.status = "failed" /\ s.diagnostics = <<>>

Reported == {issue \in Issue : Reports(summary[issue.source], issue.problem)}

-------------------------------------------------------------------------------
(* promote: the factory's queue is removed and copied anew.                  *)

Listed == {i \in Number : generated[i] # None}

PromoteStarts ==
    /\ copying = None /\ promotions < MaxPromotions /\ Listed # {}
    /\ copying' = Listed /\ promoted' = [i \in Number |-> None]
    /\ promotions' = promotions + 1
    /\ exit' = "none" /\ resolved' = {} /\ crossed' = {}
    /\ disturbed' = TRUE
    /\ promise' = IF AtRest THEN Reported ELSE None
    /\ UNCHANGED <<emitting, runner, todo, runs, subject>>

\* copytree takes the files in no particular order.
CopyTicket(i) ==
    /\ copying # None /\ i \in copying
    /\ promoted' = [promoted EXCEPT ![i] = [issue |-> generated[i], done |-> FALSE]]
    /\ copying' = copying \ {i}
    /\ UNCHANGED <<emitting, promotions, running, promise>>

PromoteEnds ==
    /\ copying = {}
    /\ copying' = None
    /\ UNCHANGED <<emitting, promotions, promoted, running, promise>>

PromoteDies ==
    /\ copying # None
    /\ copying' = None /\ promise' = None
    /\ UNCHANGED <<emitting, promotions, promoted, running>>

-------------------------------------------------------------------------------
(* RefinementQueueRunner.run_command.                                        *)

Found == {i \in Number : promoted[i] # None}

\* Mutant of Open: loading ends at a ticket that is done.
OpenUntilDone == {i \in Found : \A j \in Found : j <= i => ~promoted[j].done}

\* load_tickets, the done ones skipped.
Open == {i \in Found : ~promoted[i].done}

\* Tickets are run in the order of their files.
First == Min(todo)

RunnerStarts ==
    /\ runner = "idle" /\ runs < MaxRuns
    /\ runner' = "ready" /\ todo' = Open
    /\ runs' = runs + 1
    /\ exit' = "none" /\ disturbed' = (copying # None)
    /\ UNCHANGED <<emitting, copies, promoted, subject, resolved, crossed, promise>>

CommandStarts ==
    /\ runner = "ready" /\ todo # {}
    /\ runner' = "command"
    /\ subject' = IF promoted[First] = None THEN None ELSE promoted[First].issue
    /\ UNCHANGED <<emitting, copies, promoted, todo, exit, runs, resolved, disturbed, crossed,
                   promise>>

Stop(how) == runner' = "idle" /\ todo' = {} /\ exit' = how /\ subject' = None

\* Mutant of Successful: the return code is not looked at.
SuccessfulAlways(returncode) == returncode \in {0, 1}

Successful(returncode) == returncode = 0

\* The command is over: its ticket is to be marked, or the runner stops at it.
CommandEnds(returncode) ==
    /\ runner = "command"
    /\ IF Successful(returncode)
       THEN runner' = "marking" /\ UNCHANGED <<todo, exit, subject>>
       ELSE Stop("failed")
    /\ resolved' = resolved \cup (IF returncode = 0 THEN {subject} \ {None} ELSE {})
    /\ UNCHANGED <<emitting, copies, promoted, runs, disturbed, crossed, promise>>

\* _mark_done: the file under this name, whatever it holds by now.
MarkDone ==
    /\ runner = "marking" /\ promoted[First] # None
    /\ promoted' = [promoted EXCEPT ![First].done = TRUE]
    /\ crossed' = IF disturbed THEN crossed \cup {First} ELSE crossed
    /\ runner' = "ready" /\ todo' = todo \ {First} /\ subject' = None
    /\ UNCHANGED <<emitting, copies, exit, runs, resolved, disturbed, promise>>

\* The ticket is gone: FileNotFoundError ends the runner; so does a kill.
RunnerDies ==
    /\ runner # "idle"
    /\ Stop("died")
    /\ UNCHANGED <<emitting, copies, promoted, runs, resolved, disturbed, crossed, promise>>

RunnerEnds ==
    /\ runner = "ready" /\ todo = {}
    /\ Stop("ok")
    /\ UNCHANGED <<emitting, copies, promoted, runs, resolved, disturbed, crossed, promise>>

-------------------------------------------------------------------------------
Emit(p) == \/ RunPipeline(p) \/ GenerateTasks(p) \/ ReadSummaries(p)
           \/ WriteTicket(p) \/ WriteManifest(p) \/ Die(p)
Promote == PromoteStarts \/ (\E i \in Number : CopyTicket(i)) \/ PromoteEnds \/ PromoteDies
Run     == \/ RunnerStarts \/ CommandStarts \/ \E code \in {0, 1} : CommandEnds(code)
           \/ MarkDone \/ RunnerDies \/ RunnerEnds

Next == (\E p \in Process : Emit(p)) \/ Promote \/ Run

Spec == Init /\ [][Next]_vars

-------------------------------------------------------------------------------
(* Properties.                                                               *)

\* The type of the state; a plan never needs more numbers than there are.
EmissionTypes ==
    /\ summary \in [Task -> Summary \cup {None}]
    /\ process \in [Process -> {"idle", "planning", "emitting"}]
    /\ plan \in [Process -> Seq(Issue)]
    /\ \A p \in Process : Len(plan[p]) \in {0} \cup Number
    /\ next \in [Process -> 1..2 * NumTasks + 1]
    /\ generated \in [Number -> Issue \cup {None}]
    /\ manifest \in Seq(Issue) /\ Len(manifest) \in {0} \cup Number
    /\ emissions \in Nat
    /\ alone \subseteq Process /\ torn \in BOOLEAN
PromotionTypes ==
    /\ copying \in {None} \cup SUBSET Listed
    /\ promoted \in [Number -> Ticket \cup {None}]
    /\ promotions \in Nat
    /\ promise \in {None} \cup SUBSET Issue
RunnerTypes ==
    /\ runner \in {"idle", "ready", "command", "marking"}
    /\ todo \subseteq Number /\ (runner \in {"command", "marking"} => todo # {})
    /\ exit \in {"none", "ok", "failed", "died"}
    /\ runs \in Nat
    /\ subject \in Issue \cup {None} /\ resolved \subseteq Issue
    /\ disturbed \in BOOLEAN /\ crossed \subseteq Number
TypeOK == EmissionTypes /\ PromotionTypes /\ RunnerTypes

\* At rest the queue maps every reported problem to a ticket of its own, and the
\* manifest says which, after any number of runs, reruns and deaths before.
IssuesTicketed == AtRest =>
    /\ ToSet(manifest) = Reported /\ IsInjective(manifest)
    /\ \A i \in 1..Len(manifest) : generated[i] = manifest[i]

\* lowering_config.json:597, successful tickets are marked done: a ticket is done
\* only if a command was successful for what it says, unless a promotion put
\* another problem under its number while the command ran.
DoneMeansResolved ==
    \A i \in Number \ crossed :
        promoted[i] # None /\ promoted[i].done => promoted[i].issue \in resolved

\* The loop closes: a runner that ends well has, with the runners before it, seen
\* to every problem that was reported when the queue was promoted, as long as
\* the promotion was whole and did not cross an emission or a runner.
LoopCloses ==
    /\ runner = "idle" /\ exit = "ok" /\ ~disturbed /\ crossed = {}
    /\ copying = None /\ promise # None
    => promise \subseteq resolved
===============================================================================
