--------------------------------- MODULE RunKit ---------------------------------
(*****************************************************************************)
(* The run kit: lowering_config.json and research/, the files the generators *)
(* in tools/ render from them, and the compiler repository they are copied   *)
(* to.  draft-lowering.sh, materialize.sh, bootstrap-compiler-repo.sh and    *)
(* install-into-repo.sh, run one after the other by an operator who may edit *)
(* the configuration at any time and whose commands may die between two      *)
(* files, and meta_analyze.py, run by whoever likes in research/.            *)
(*                                                                           *)
(* A rendered file is the configuration it was rendered from: the renderers  *)
(* read nothing else.                                                        *)
(*****************************************************************************)
EXTENDS Naturals, Sequences, SequencesExt

CONSTANTS
    Config,     \* the texts of lowering_config.json that validate_config accepts
    Item,       \* the work items' ids
    Work,       \* debt.work_items of a configuration
    Order,      \* debt.execution_order of a configuration, the waves joined
    Resolved,   \* its work items whose status is DONE
    Ticket,     \* the names of ticket files, in order
    None,       \* no such file
    Torn,       \* a text that is not JSON, as of a file opened and not written
    Analysis,   \* processes that run meta_analyze.py
    Budget      \* bound: how many commands, edits of the configuration, crashes or
                \* removals that fail, and analyses a behaviour may have

ASSUME ConfigAssumption ==
    /\ Work \in [Config -> SUBSET Item] /\ Resolved \in [Config -> SUBSET Item]
    /\ Order \in [Config -> Seq(Item)]
    /\ \A c \in Config : Order[c] # <<>> /\ Len(Order[c]) <= Len(Ticket)
    /\ None \notin Config /\ Torn \notin Config
ASSUME BudgetAssumption ==
    Budget \subseteq [commands : Nat, edits : Nat, crashes : Nat, analyses : Nat]

\* The directories of a kit, of which an empty one counts as none; of those files
\* that are always written one after the other, with nothing in between, one
\* stands for the others.
LoweringPass == {"CLAUDE.md", "factory.yaml"}
Packages     == {"coordinator.md"} \cup Item
Tickets      == ToSet(Ticket)
CarQueue     == {"contextspace"} \cup Tickets
CompilerQueue == {"install-into-repo.sh", "queue-manifest.json"} \cup CarQueue
Scripts      == {"session-manifest.json", "init-compiler.sh"}
KitFile      == LoweringPass \cup Packages \cup Scripts \cup CompilerQueue
Tree         == [KitFile -> Config \cup {None}]

\* No file has two of these parts.
ASSUME NameAssumption ==
    /\ Ticket \in Seq(Tickets)
    /\ LET fixed == LoweringPass \cup Scripts \cup
                    {"coordinator.md", "contextspace", "install-into-repo.sh", "queue-manifest.json"}
       IN  /\ Item \cap fixed = {} /\ Tickets \cap fixed = {} /\ Item \cap Tickets = {}

VARIABLES
    config,   \* lowering_config.json
    research, \* research/: absent, begun (no report.md yet), with the template, with a report
    program,  \* the version program.md says it has, 0 if it says none
    log,      \* the versions process_log.md has an entry for
    meta,     \* the processes that run meta_analyze.py
    kit,      \* lowering-pass/ and factory/
    target,   \* the same directories of the compiler repository
    done,     \* tickets there that say done: true
    stray,    \* files that a removal once failed to remove and that were left
    command,  \* the operator's command
    pc,       \* where it is
    held,     \* the configuration the tool under way has loaded
    left,     \* what it still has to write, copy or remove: one group after the
              \* other, the files of a group in any order
    drafted,  \* the command has written a configuration the model drafted
    whole,    \* materialize.sh: "making" when it has begun, "yes" when it ended well,
              \* "no" when the configuration was edited after it began
    exit,     \* how the last command ended
    budget    \* what the behaviour may still have of each

inResearch == <<research, program, log, meta>>
vars == <<config, inResearch, kit, target, done, stray, command, pc, held, left, drafted, whole,
          exit, budget>>

Spend(what) == budget[what] > 0 /\ budget' = [budget EXCEPT ![what] = @ - 1]

-------------------------------------------------------------------------------
(* Files and groups of files.                                                *)

Present(tree, group) == {f \in group : tree[f] # None}

\* rm -rf removes what is there, and nothing if nothing is.
Existing(tree, group) == IF Present(tree, group) = {} THEN <<>> ELSE <<Present(tree, group)>>
Singly(files) == [i \in DOMAIN files |-> {files[i]}]

With(tree, f, c)      == [tree EXCEPT ![f] = c]
Without(tree, group)  == [f \in KitFile |-> IF f \in group THEN None ELSE tree[f]]

Take(f) == /\ left # <<>> /\ f \in Head(left)
           /\ left' = IF Head(left) = {f} THEN Tail(left)
                      ELSE <<Head(left) \ {f}>> \o Tail(left)

\* What a whole kit of configuration c consists of.
TicketsOf(c) == {Ticket[i] : i \in DOMAIN Order[c]}
FilesOf(c) == (KitFile \ (Item \cup Tickets)) \cup ToSet(Order[c]) \cup TicketsOf(c)
Rendered(c) == [f \in KitFile |-> IF f \in FilesOf(c) THEN c ELSE None]

\* A worker's package and a ticket need the work item they are for.
Renders(c, f) == /\ f \in Item => f \in Work[c]
                 /\ \A i \in DOMAIN Order[c] : f = Ticket[i] => Order[c][i] \in Work[c]

\* render_ticket: done is true of a work item that is DONE already.
DoneOf(c, t) == \E i \in DOMAIN Order[c] : t = Ticket[i] /\ Order[c][i] \in Resolved[c]

-------------------------------------------------------------------------------

Idle == [at |-> "idle", version |-> 0, text |-> 0]

Init == /\ config \in Config
        /\ research = "absent" /\ program = 0 /\ log = {} /\ meta = [a \in Analysis |-> Idle]
        /\ kit = [f \in KitFile |-> None] /\ target = kit /\ done = {} /\ stray = {}
        /\ command = "none" /\ pc = "ready" /\ held = None /\ left = <<>>
        /\ drafted = FALSE /\ whole = "no" /\ exit = "none"
        /\ budget \in Budget

Begin(name) == pc = "ready" /\ command' = name /\ Spend("commands")

End(how) == /\ pc' = "ready" /\ command' = "none" /\ exit' = how
            /\ held' = None /\ left' = <<>>

trees == <<kit, target, done, stray>>

\* Every script has set -e, a tool does not catch its errors: what was written
\* stays.
Fails == /\ End("failed") /\ UNCHANGED <<config, inResearch, trees, drafted, whole>>

\* The operator's interrupt, between any two files.
Crash == pc # "ready" /\ Spend("crashes") /\ Fails

\* By hand, while a command runs or not; Torn stands for a slip in it too.
EditConfig(c) ==
    /\ c # config /\ Spend("edits")
    /\ config' = c /\ whole' = "no"
    /\ UNCHANGED <<inResearch, trees, command, pc, held, left, drafted, exit>>

-------------------------------------------------------------------------------
(* draft-lowering.sh: handoff_to_lowering.py, then materialize.sh --force.   *)

\* A missing report is an empty one; the configuration is the draft's template.
Draft == /\ Begin("draft") /\ config # Torn
         /\ pc' = "answer" /\ drafted' = FALSE
         /\ UNCHANGED <<config, inResearch, trees, held, left, whole, exit>>

\* The model's answer has a JSON object that validate_config accepts: the file
\* is opened, which empties it, and written.
Answer(c) == /\ pc = "answer"
             /\ config' = Torn /\ whole' = "no"
             /\ pc' = "fill" /\ held' = c
             /\ UNCHANGED <<inResearch, trees, command, left, drafted, exit, budget>>

Fill == /\ pc = "fill"
        /\ config' = held /\ drafted' = TRUE
        /\ pc' = "drafted" /\ held' = None
        /\ UNCHANGED <<inResearch, trees, command, left, whole, exit, budget>>

\* Mutant of NoAnswer: the script goes on after a draft that failed.
NoAnswerGoesOn == /\ pc = "answer" /\ pc' = "drafted"
                  /\ UNCHANGED <<config, inResearch, trees, command, held, left, drafted,
                                 whole, exit, budget>>

\* No claude, no output, no object in it, or not a configuration.
NoAnswer == pc = "answer" /\ Fails /\ UNCHANGED budget

MaterializeDraft ==
    /\ pc = "drafted"
    /\ pc' = "wipe" /\ left' = Existing(kit, LoweringPass) /\ whole' = "making"
    /\ UNCHANGED <<config, inResearch, trees, command, held, drafted, exit, budget>>

-------------------------------------------------------------------------------
(* materialize.sh and the tools it starts.                                   *)

Materialize == /\ Begin("materialize")
               /\ research = "absent" /\ Present(kit, LoweringPass) = {}
               /\ pc' = "wipe" /\ whole' = "making"
               /\ UNCHANGED <<config, inResearch, trees, held, left, drafted, exit>>

MaterializeForce ==
    /\ Begin("materialize --force")
    /\ pc' = "wipe" /\ left' = Existing(kit, LoweringPass) /\ whole' = "making"
    /\ UNCHANGED <<config, inResearch, trees, held, drafted, exit>>

\* rm -rf research lowering-pass.  meta_analyze.py does not survive the loss of
\* the directory it runs in.
WipeResearch == /\ pc = "wipe" /\ research # "absent"
                /\ research' \in {"begun", "absent"}
                /\ program' = 0 /\ log' = {} /\ meta' = [a \in Analysis |-> Idle]
                /\ UNCHANGED <<config, trees, command, pc, held, left, drafted, whole, exit, budget>>

WipeLowering(f) == /\ pc = "wipe" /\ research = "absent" /\ Take(f)
                   /\ kit' = Without(kit, {f})
                   /\ UNCHANGED <<config, inResearch, target, done, stray, command, pc, held,
                                  drafted, whole, exit, budget>>

\* scaffold.py: some files, report.md and the others.
BeginResearch == /\ pc = "wipe" /\ research = "absent" /\ left = <<>>
                 /\ research' = "begun" /\ pc' = "research"
                 /\ UNCHANGED <<config, program, log, meta, trees, command, held, left, drafted,
                                whole, exit, budget>>

EndResearch == /\ pc = "research"
               /\ research' = "template" /\ program' = 1 /\ log' = {}
               /\ pc' = "lower"
               /\ UNCHANGED <<config, meta, trees, command, held, left, drafted, whole, exit, budget>>

\* research_config.json is not one: what was there has been removed already.
RefusesResearch == /\ pc = "wipe" /\ research = "absent" /\ left = <<>>
                   /\ Fails /\ UNCHANGED budget

\* A tool loads the configuration for itself.
Load == config \in Config /\ held' = config

LoadLowering ==
    /\ pc = "lower" /\ Load
    /\ pc' = "lowering" /\ left' = Singly(<<"CLAUDE.md", "factory.yaml">>)
    /\ UNCHANGED <<config, inResearch, trees, command, drafted, whole, exit, budget>>

\* Mutant of LoadPackages: the packages of an earlier configuration stay.
LoadPackagesOver ==
    /\ pc = "lowering" /\ left = <<>> /\ Load
    /\ pc' = "clear packages"
    /\ UNCHANGED <<config, inResearch, trees, command, left, drafted, whole, exit, budget>>

LoadPackages ==
    /\ pc = "lowering" /\ left = <<>> /\ Load
    /\ pc' = "clear packages" /\ left' = Existing(kit, Packages)
    /\ UNCHANGED <<config, inResearch, trees, command, drafted, whole, exit, budget>>

RenderPackages ==
    /\ pc = "clear packages" /\ left = <<>>
    /\ pc' = "packages"
    /\ left' = Singly(<<"coordinator.md">> \o Order[held] \o
                      <<"session-manifest.json", "init-compiler.sh">>)
    /\ UNCHANGED <<config, inResearch, trees, command, held, drafted, whole, exit, budget>>

LoadQueue ==
    /\ pc = "packages" /\ left = <<>> /\ Load
    /\ pc' = "clear queue" /\ left' = Existing(kit, CompilerQueue)
    /\ UNCHANGED <<config, inResearch, trees, command, drafted, whole, exit, budget>>

RenderQueue ==
    /\ pc = "clear queue" /\ left = <<>>
    /\ pc' = "queue"
    /\ left' = Singly(<<"install-into-repo.sh", "contextspace">> \o
                      SubSeq(Ticket, 1, Len(Order[held])) \o <<"queue-manifest.json">>)
    /\ UNCHANGED <<config, inResearch, trees, command, held, drafted, whole, exit, budget>>

Unreadable == /\ \/ pc = "lower"
                 \/ pc \in {"lowering", "packages"} /\ left = <<>>
              /\ config = Torn
              /\ Fails /\ UNCHANGED budget

ClearKit(f) == /\ pc \in {"clear packages", "clear queue"} /\ Take(f)
               /\ kit' = Without(kit, {f})
               /\ UNCHANGED <<config, inResearch, target, done, stray, command, pc, held, drafted,
                              whole, exit, budget>>

\* ignore_errors: a file that cannot be removed stays, and the generator goes on.
KeepKit(f) == /\ pc \in {"clear packages", "clear queue"} /\ Take(f) /\ Spend("crashes")
              /\ stray' = stray \cup {f}
              /\ UNCHANGED <<config, inResearch, kit, target, done, command, pc, held, drafted,
                             whole, exit>>

Write(f) == /\ Take(f) /\ Renders(held, f)
            /\ kit' = With(kit, f, held)
            /\ UNCHANGED <<config, inResearch, target, done, stray, command, pc, held, drafted,
                           whole, exit, budget>>

WriteLowering(f) == pc = "lowering" /\ Write(f)
WritePackage(f)  == pc = "packages" /\ Write(f)
WriteTicket(f)   == pc = "queue" /\ Write(f)

\* An item of execution_order that work_items does not have: KeyError.
UnknownItem == /\ pc \in {"packages", "queue"} /\ left # <<>>
               /\ \E f \in Head(left) : ~Renders(held, f)
               /\ Fails /\ UNCHANGED budget

Materialized == /\ pc = "queue" /\ left = <<>>
                /\ End("ok")
                /\ whole' = IF whole = "making" THEN "yes" ELSE "no"
                /\ UNCHANGED <<config, inResearch, trees, drafted, budget>>

-------------------------------------------------------------------------------
(* bootstrap-compiler-repo.sh and install-into-repo.sh.                      *)

\* Mutant of Bootstrap: nothing is removed before the kit is copied.
BootstrapOver(force) ==
    /\ Begin(IF force THEN "bootstrap --force" ELSE "bootstrap")
    /\ kit["init-compiler.sh"] # None
    /\ ~force => Present(target, LoweringPass \cup Packages \cup CarQueue) = {}
    /\ pc' = "clear target"
    /\ UNCHANGED <<config, inResearch, trees, held, left, drafted, whole, exit>>

Bootstrap(force) ==
    /\ Begin(IF force THEN "bootstrap --force" ELSE "bootstrap")
    /\ kit["init-compiler.sh"] # None
    /\ ~force => Present(target, LoweringPass \cup Packages \cup CarQueue) = {}
    /\ pc' = "clear target"
    /\ left' = Existing(target, LoweringPass) \o Existing(target, Packages) \o Existing(target, CarQueue)
    /\ UNCHANGED <<config, inResearch, trees, held, drafted, whole, exit>>

\* Mutant of Install: the new queue is copied over the old one.
InstallOver == /\ Begin("install") /\ kit["install-into-repo.sh"] # None
               /\ pc' = "clear target"
               /\ UNCHANGED <<config, inResearch, trees, held, left, drafted, whole, exit>>

Install == /\ Begin("install") /\ kit["install-into-repo.sh"] # None
           /\ pc' = "clear target" /\ left' = Existing(target, CarQueue)
           /\ UNCHANGED <<config, inResearch, trees, held, drafted, whole, exit>>

ClearTarget(f) == /\ pc = "clear target" /\ Take(f)
                  /\ target' = Without(target, {f}) /\ done' = done \ {f}
                  /\ UNCHANGED <<config, inResearch, kit, stray, command, pc, held, drafted, whole,
                                 exit, budget>>

\* What cp is told to copy, in order; an empty group is a path that is not there.
Copies == LET queue == Present(kit, CarQueue)
          IN  IF command = "install" THEN <<queue>>
              ELSE <<Present(kit, LoweringPass), Present(kit, Packages),
                     Present(kit, {"session-manifest.json"}), {"init-compiler.sh"}>> \o
                   IF queue = {} THEN <<>>
                   ELSE <<queue, Present(kit, {"queue-manifest.json"})>>

BeginCopies == /\ pc = "clear target" /\ left = <<>>
               /\ pc' = "copy" /\ left' = Copies
               /\ UNCHANGED <<config, inResearch, trees, command, held, drafted, whole, exit, budget>>

Copy(f) == /\ pc = "copy" /\ Take(f)
           /\ target' = With(target, f, kit[f])
           /\ done' = IF f \in Tickets /\ DoneOf(kit[f], f) THEN done \cup {f} ELSE done \ {f}
           /\ UNCHANGED <<config, inResearch, kit, stray, command, pc, held, drafted, whole, exit,
                          budget>>

CopyFails == /\ pc = "copy" /\ left # <<>> /\ Head(left) = {}
             /\ Fails /\ UNCHANGED budget

Copied == /\ pc = "copy" /\ left = <<>>
          /\ End("ok")
          /\ UNCHANGED <<config, inResearch, trees, drafted, whole, budget>>

\* An agent of car's ticket flow has done what a ticket asks for.
AgentFinishes(t) ==
    /\ target[t] # None /\ t \notin done
    /\ done' = done \cup {t}
    /\ UNCHANGED <<config, inResearch, kit, target, stray, command, pc, held, left, drafted,
                   whole, exit, budget>>

-------------------------------------------------------------------------------
(* The research swarm: its agents, and meta_analyze.py.                      *)

Researching == research \in {"template", "report"}

Aside == UNCHANGED <<config, trees, command, pc, held, left, drafted, whole, exit>>

\* The meta agent merges the partial reports into report.md.
AgentsReport == /\ research = "template" /\ research' = "report"
                /\ Aside /\ UNCHANGED <<program, log, meta, budget>>

Proceeds(a, at) == Researching /\ meta[a].at = at

\* run_meta_analysis, from get_version on: what the model answers, and whether
\* it does, is in the log's text only.
ReadVersion(a) ==
    /\ Proceeds(a, "idle") /\ Spend("analyses")
    /\ meta' = [meta EXCEPT ![a] = [at |-> "append", text |-> 0,
                                    version |-> IF program = 0 THEN 1 ELSE program]]
    /\ Aside /\ UNCHANGED <<research, program, log>>

\* Mutant of AppendLog: the entry is written last, with the version it led to.
AppendLogOfNext(a) ==
    /\ Proceeds(a, "append")
    /\ log' = log \cup {meta[a].version + 1}
    /\ meta' = [meta EXCEPT ![a].at = "read"]
    /\ Aside /\ UNCHANGED <<research, program, budget>>

AppendLog(a) ==
    /\ Proceeds(a, "append")
    /\ log' = log \cup {meta[a].version}
    /\ meta' = [meta EXCEPT ![a].at = "read"]
    /\ Aside /\ UNCHANGED <<research, program, budget>>

ReadProgram(a) ==
    /\ Proceeds(a, "read")
    /\ meta' = [meta EXCEPT ![a].at = "open", ![a].text = program]
    /\ Aside /\ UNCHANGED <<research, program, log, budget>>

OpenProgram(a) ==
    /\ Proceeds(a, "open")
    /\ program' = 0 /\ meta' = [meta EXCEPT ![a].at = "write"]
    /\ Aside /\ UNCHANGED <<research, log, budget>>

\* Bound: a text's version has at most four digits more than the one that was read.
Tens == {1, 10, 100, 1000, 10000}

\* The version that was read is replaced wherever the text's begins with it: with
\* 1 read, v1 becomes v2 and v13 becomes v23.
Replaced(text, version) ==
    LET begins == {p \in Tens : text \div p = version}
    IN  IF begins = {} THEN text
        ELSE LET p == CHOOSE p \in begins : TRUE IN (version + 1) * p + (text % p)

WriteProgram(a) ==
    /\ Proceeds(a, "write")
    /\ program' = Replaced(meta[a].text, meta[a].version)
    /\ meta' = [meta EXCEPT ![a] = Idle]
    /\ Aside /\ UNCHANGED <<research, log, budget>>

AnalysisDies(a) ==
    /\ meta[a].at # "idle" /\ Spend("crashes")
    /\ meta' = [meta EXCEPT ![a] = Idle]
    /\ Aside /\ UNCHANGED <<research, program, log>>

-------------------------------------------------------------------------------

Drafting == Draft \/ (\E c \in Config : Answer(c)) \/ NoAnswer \/ Fill \/ MaterializeDraft
Materializing ==
    \/ Materialize \/ MaterializeForce \/ WipeResearch \/ RefusesResearch \/ BeginResearch \/ EndResearch
    \/ LoadLowering \/ LoadPackages \/ RenderPackages \/ LoadQueue \/ RenderQueue
    \/ Unreadable \/ UnknownItem \/ Materialized
    \/ \E f \in KitFile : \/ WipeLowering(f) \/ ClearKit(f) \/ KeepKit(f)
                        \/ WriteLowering(f) \/ WritePackage(f) \/ WriteTicket(f)
Installing ==
    \/ (\E force \in BOOLEAN : Bootstrap(force)) \/ Install
    \/ BeginCopies \/ CopyFails \/ Copied
    \/ \E f \in KitFile : ClearTarget(f) \/ Copy(f)
Analysing == \E a \in Analysis : \/ ReadVersion(a) \/ AppendLog(a) \/ ReadProgram(a)
                                 \/ OpenProgram(a) \/ WriteProgram(a) \/ AnalysisDies(a)

Next == \/ Drafting \/ Materializing \/ Installing \/ Analysing \/ AgentsReport \/ Crash
        \/ \E c \in Config \cup {Torn} : EditConfig(c)
        \/ \E t \in Tickets : AgentFinishes(t)

Spec == Init /\ [][Next]_vars

-------------------------------------------------------------------------------

\* Type invariant: every rendered file is of a configuration that could be read,
\* and only tickets that are there are done.
RunKitTypeOK ==
    /\ config \in Config \cup {Torn} /\ held \in Config \cup {None}
    /\ kit \in Tree /\ target \in Tree /\ done \subseteq Present(target, Tickets)
    /\ stray \subseteq KitFile
    /\ research \in {"absent", "begun", "template", "report"}
    /\ program \in Nat /\ log \subseteq Nat
    /\ meta \in [Analysis -> [at : {"idle", "append", "read", "open", "write"},
                             version : Nat, text : Nat]]
    /\ command = "none" <=> pc = "ready"
    /\ drafted \in BOOLEAN /\ whole \in {"no", "making", "yes"} /\ exit \in {"none", "ok", "failed"}

\* A file is what the configuration renders, or is none of its files and a removal
\* that failed has left it.
AsRendered(f) == kit[f] = Rendered(config)[f] \/ f \in stray \ FilesOf(config)

\* What materialize.sh (README.md:459, "regenerates everything cleanly") comes to:
\* after a run of it that ended well, with the configuration as it was when it
\* began, lowering-pass, packages, scripts, tickets and both manifests are those
\* of the configuration, whole, and nothing of an earlier kit is among them but
\* files that could not be removed, however many commands before it died half way.
KitRendersConfig == whole = "yes" => \A f \in KitFile : AsRendered(f)

\* A queue is never mixed: whatever died between two files, the tickets of the
\* compiler repository and their context are all of one configuration, and so is
\* what there is of factory/compiler-queue, but for the files whose removal from
\* there once failed unnoticed.
QueueOfOneConfig ==
    /\ \A f, g \in Present(target, CarQueue) \ stray : target[f] = target[g]
    /\ \A f, g \in Present(kit, CompilerQueue) \ stray : kit[f] = kit[g]

\* bootstrap-compiler-repo.sh that ends well leaves what the kit has and nothing
\* that an earlier kit left in those directories.
BootstrapCopiesKit ==
    [][ (command \in {"bootstrap", "bootstrap --force"} /\ command' = "none" /\ exit' = "ok")
        => \A f \in LoweringPass \cup Packages \cup Scripts \cup CarQueue : target'[f] = kit[f] ]_vars

\* The work of the agents, a report and the marks of finished tickets, is
\* removed by a command only that was told to overwrite it: --force, a draft that
\* has been written, or an installation.
WorkNotLost ==
    [][ /\ (research = "report" /\ research' # "report")
           => command = "materialize --force" \/ (command = "draft" /\ drafted)
        /\ done \ done' # {} => command \in {"install", "bootstrap --force"} ]_vars

\* Up to version 19, program.md never has a version that process_log.md does not
\* explain: every version it went beyond has an entry, whichever processes ran
\* meta_analyze.py at once and wherever they died.  From v10 on an analysis that
\* found program.md emptied by another, and so read 1, takes it to v20 and beyond.
VersionsExplained == Researching /\ program < 20 => 1..program - 1 \subseteq log
================================================================================
