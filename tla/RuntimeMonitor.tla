---------------------------- MODULE RuntimeMonitor ----------------------------
(*****************************************************************************)
(* run_with_monitor of core/monitor.py: the executor and the monitor are two *)
(* tasks of one event loop, and the caller waits for the first of them.  The *)
(* monitor reads the event stream of the runtime adapter, records every      *)
(* event (on_event) and raises SecurityViolation for a path outside the      *)
(* authorized files.  The streams are those of core/monitor_backends.py and  *)
(* of the remote and the HumanLayer adapter.                                 *)
(*                                                                           *)
(* A coroutine keeps the event loop until it suspends; an executor that      *)
(* waits for its subprocess inside the coroutine keeps it all the time.      *)
(*****************************************************************************)
EXTENDS Naturals, Sequences

CONSTANTS
    File,         \* the files of the workspace, and those it may get
    Root, Dir,    \* the workspace's directory, and those below it, which it may get, too
    Of,           \* Of[p]: the directory in which the file or directory p lies
    Authorized,   \* authorized_files
    Log,          \* the event store's file, a member of File if it lies in the workspace
    Backends,     \* local event streams considered
    Remotes,      \* whether the adapter asks its provider for events first
    MaxWrites     \* bound: clock's value beyond which the executor writes and makes nothing

ASSUME FileAssumption == Authorized \subseteq File /\ Log \notin Authorized
ASSUME DirectoryAssumption ==
    /\ Dir \cap (File \cup {Log, Root}) = {}
    /\ Of \in [File \cup Dir -> Dir \cup {Root}]
ASSUME BackendAssumption ==
    Backends \subseteq {"polling", "watchfiles", "inotify", "fsevents", "none"}
ASSUME RemoteAssumption == Remotes \subseteq BOOLEAN
ASSUME BoundAssumption == MaxWrites \in Nat

VARIABLES
    caller,     \* where run_with_monitor is
    outcome,    \* what it returned or raised
    exec,       \* execution_task
    busy,       \* the executor holds the event loop
    mon,        \* monitor_task
    backend,    \* the monitor backend of the session's adapter
    remote,     \* the adapter has a provider that may emit events
    source,     \* the stream that is read: none yet, the provider's, the local one
    emitted,    \* emitted_remote_event
    since,      \* since[d]: the time from which what happens in d makes events, 0 for never
    clock,      \* the time of the last write
    disk,       \* disk[f]: modification time of f, 0 if there is no such file
    touched,    \* the files the executor wrote or deleted
    made,       \* made[d]: the time at which the directory d was made, 0 if there is none
    moved,      \* the directories that were moved into the workspace
    queue,      \* notifying backends: what happened and was not read yet
    seen,       \* polling backend: mtimes, 0 for a file not seen yet
    recorded    \* the paths given to on_event, in order

workspace == <<clock, disk, touched, made, moved>>
stream    == <<backend, remote, source, emitted, since>>
vars == <<caller, outcome, exec, busy, mon, stream, workspace, queue, seen, recorded>>

\* What an event may be about.
Path == File \cup Dir

\* The directory a path lies in is there.
Reachable(p) == Of[p] \in {Root} \cup {d \in Dir : made[d] # 0}

ExecOver == exec \in {"returned", "raised", "cancelled"}
MonOver  == mon \in {"returned", "violation", "failed", "cancelled"}

Init ==
    /\ caller = "waiting" /\ outcome = "none"
    /\ exec = "new" /\ busy = FALSE /\ mon = "new"
    /\ backend \in Backends /\ remote \in Remotes /\ (remote => backend # "none")
    /\ source = "none" /\ emitted = FALSE /\ since = [d \in Dir \cup {Root} |-> 0]
    /\ clock = 1 /\ disk \in [File -> {0, 1}] /\ touched = {}
    /\ made \in [Dir -> {0, 1}] /\ moved = {}
    /\ \A f \in File : disk[f] # 0 \/ f = Log => Reachable(f)
    /\ \A d \in Dir : made[d] # 0 => Reachable(d)
    /\ queue = <<>> /\ seen = [f \in File |-> 0] /\ recorded = <<>>

-------------------------------------------------------------------------------
(* The executor.                                                             *)

Notifying == {"watchfiles", "inotify", "fsevents"}

\* A file's event reaches the queue of an open local stream that watches it.
Notify(q, f) == IF source = "local" /\ backend \in Notifying /\ since[Of[f]] # 0
                THEN Append(q, f) ELSE q

\* A directory's event does, too: FSEvents passes over it, inotify over one that is
\* moved into the workspace, and over one made in a directory it does not watch.
NotifyDirectory(q, d, way) ==
    IF /\ source = "local" /\ since[Of[d]] # 0
       /\ backend = "watchfiles" \/ (backend = "inotify" /\ way = "created")
    THEN Append(q, d) ELSE q

\* The loop resumes the executor; the first time, before the monitor starts.
ExecResumes ==
    /\ exec \in {"new", "running"} /\ ~busy
    /\ exec' = "running" /\ busy' = TRUE
    /\ UNCHANGED <<caller, outcome, mon, stream, workspace, queue, seen, recorded>>

\* It writes or deletes a file: while it holds the loop, or in a subprocess
\* while it waits.
ExecWrites(f, time) ==
    /\ exec = "running" /\ clock < MaxWrites
    /\ time = 0 => disk[f] # 0
    /\ Reachable(f)
    /\ clock' = clock + 1
    /\ disk' = [disk EXCEPT ![f] = time]
    /\ touched' = touched \cup {f}
    /\ queue' = Notify(queue, f)
    /\ UNCHANGED <<caller, outcome, exec, busy, mon, stream, made, moved, seen, recorded>>

\* It makes a directory, or moves it there.  (One that is made while inotify's
\* directories are listed is noticed as little as one that is moved.)
ExecMakesDirectory(d, way) ==
    /\ exec = "running" /\ clock < MaxWrites
    /\ made[d] = 0 /\ Reachable(d)
    /\ clock' = clock + 1
    /\ made' = [made EXCEPT ![d] = clock + 1]
    /\ moved' = IF way = "moved" THEN moved \cup {d} ELSE moved
    /\ queue' = NotifyDirectory(queue, d, way)
    /\ UNCHANGED <<caller, outcome, exec, busy, mon, stream, disk, touched, seen, recorded>>

\* It awaits something, returns its patch, or raises.
ExecLeaves(state) ==
    /\ busy
    /\ exec' = state /\ busy' = FALSE
    /\ UNCHANGED <<caller, outcome, mon, stream, workspace, queue, seen, recorded>>

\* CancelledError arrives where it is suspended; its clean-up may raise, too.
ExecCancelled(state) ==
    /\ exec = "cancelling"
    /\ exec' = state
    /\ UNCHANGED <<caller, outcome, busy, mon, stream, workspace, queue, seen, recorded>>

-------------------------------------------------------------------------------
(* The monitor: watch() over the adapter's stream_events().                  *)

\* Mutant of Judge: the path is validated before on_event.
JudgeFirst(f, q) ==
    /\ mon' = IF f \in Authorized THEN mon ELSE "violation"
    /\ recorded' = IF f \in Authorized THEN Append(recorded, f) ELSE recorded
    /\ queue' = q
    /\ UNCHANGED <<clock, disk>>

\* on_event appends to the event store, then validate_path looks at the path.
Judge(f, q) ==
    /\ recorded' = Append(recorded, f)
    /\ mon' = IF f \in Authorized THEN mon ELSE "violation"
    /\ IF Log \in File
       THEN /\ clock' = clock + 1
            /\ disk' = [disk EXCEPT ![Log] = clock + 1]
            /\ queue' = Notify(q, Log)
       ELSE queue' = q /\ UNCHANGED <<clock, disk>>

\* The local stream opens: a polling backend's first scan only takes times down,
\* inotify watches the directories there are, the others the workspace with all
\* that comes into it.
OpenLocal ==
    /\ source' = "local"
    /\ since' = [d \in Dir \cup {Root} |->
                    IF \/ backend \notin Notifying
                       \/ backend = "inotify" /\ d # Root /\ made[d] = 0
                    THEN 0 ELSE clock]
    /\ seen' = IF backend = "polling" THEN disk ELSE seen
    /\ mon' = IF backend = "none" THEN "returned" ELSE "watching"

MonStarts ==
    /\ mon = "new" /\ exec # "new" /\ ~busy
    /\ IF remote
       THEN source' = "remote" /\ mon' = "watching" /\ UNCHANGED <<seen, since>>
       ELSE OpenLocal
    /\ UNCHANGED <<caller, outcome, exec, busy, backend, remote, emitted, workspace, queue,
                   recorded>>

Watching(s) == mon = "watching" /\ source = s /\ ~busy

Reading == Watching("local") /\ backend \in Notifying /\ queue # <<>>

\* watchfiles, inotify, FSEvents: the next event.  watchfiles' may be a directory.
Deliver ==
    /\ Reading
    /\ backend = "inotify" => Head(queue) \notin Dir
    /\ Judge(Head(queue), Tail(queue))
    /\ UNCHANGED <<caller, outcome, exec, busy, stream, touched, made, moved, seen>>

\* Mutant of WatchDirectory: the directory is passed over like every other.
PassDirectory ==
    /\ Reading /\ backend = "inotify" /\ Head(queue) \in Dir
    /\ queue' = Tail(queue)
    /\ UNCHANGED <<caller, outcome, exec, busy, mon, stream, workspace, seen, recorded>>

\* inotify reads that a directory was made: from now on it watches that, too, and
\* nothing that was made in it before.
WatchDirectory ==
    /\ Reading /\ backend = "inotify" /\ Head(queue) \in Dir
    /\ since' = [since EXCEPT ![Head(queue)] = clock]
    /\ queue' = Tail(queue)
    /\ UNCHANGED <<caller, outcome, exec, busy, mon, backend, remote, source, emitted,
                   workspace, seen, recorded>>

\* Mutant of Look: current and previous are not compared.
LookAlways(f) ==
    /\ Watching("local") /\ backend = "polling"
    /\ disk[f] # 0
    /\ seen' = [seen EXCEPT ![f] = disk[f]]
    /\ IF seen[f] = 0
       THEN UNCHANGED <<mon, queue, recorded, clock, disk>>
       ELSE Judge(f, queue)
    /\ UNCHANGED <<caller, outcome, exec, busy, stream, touched, made, moved>>

\* A scan comes to f.  Of a file that was not there at the last scan it only takes
\* the time down; a file that is gone it does not miss.  (No other coroutine
\* runs during a scan: taking its files one by one is finer than the code.)
Look(f) ==
    /\ Watching("local") /\ backend = "polling"
    /\ disk[f] \notin {0, seen[f]}
    /\ seen' = [seen EXCEPT ![f] = disk[f]]
    /\ IF seen[f] = 0
       THEN UNCHANGED <<mon, queue, recorded, clock, disk>>
       ELSE Judge(f, queue)
    /\ UNCHANGED <<caller, outcome, exec, busy, stream, touched, made, moved>>

\* The provider reports a write in its sandbox.
RemoteEvent(f) ==
    /\ Watching("remote") /\ Len(recorded) < MaxWrites
    /\ emitted' = TRUE
    /\ Judge(f, queue)
    /\ UNCHANGED <<caller, outcome, exec, busy, backend, remote, source, since, touched,
                   made, moved, seen>>

\* The provider's stream ends: without any event the local one takes over.
RemoteEnds ==
    /\ Watching("remote")
    /\ IF emitted
       THEN mon' = "returned" /\ UNCHANGED <<source, since, seen>>
       ELSE OpenLocal
    /\ UNCHANGED <<caller, outcome, exec, busy, backend, remote, emitted, workspace, queue,
                   recorded>>

\* The stream or on_event raises an error of its own.
MonFails ==
    /\ mon = "watching" /\ ~busy
    /\ mon' = "failed"
    /\ UNCHANGED <<caller, outcome, exec, busy, stream, workspace, queue, seen, recorded>>

MonCancelled ==
    /\ mon = "cancelling" /\ ~busy
    /\ mon' = "cancelled"
    /\ UNCHANGED <<caller, outcome, exec, busy, stream, workspace, queue, seen, recorded>>

-------------------------------------------------------------------------------
(* run_with_monitor: what it does when asyncio.wait returns.                 *)

\* Mutant of Andon: an executor that has finished as well comes first.
AndonUnlessDone == mon \in {"violation", "failed"} /\ ~ExecOver

\* monitor_task.exception() is not None: looked at first.
Andon == mon \in {"violation", "failed"}

\* monitor_task.cancel().
MonitorOff == IF MonOver THEN mon ELSE "cancelling"

\* asyncio.wait returned: a task is over.  Both tasks were started by then.
Woken == caller = "waiting" /\ ~busy /\ mon # "new" /\ (ExecOver \/ MonOver)

\* Mutant of StopExecution: the execution is awaited, not cancelled.
AwaitStop ==
    /\ Woken /\ Andon
    /\ caller' = "stopping"
    /\ UNCHANGED <<outcome, exec, busy, mon, stream, workspace, queue, seen, recorded>>

StopExecution ==
    /\ Woken /\ Andon
    /\ caller' = "stopping"
    /\ exec' = IF ExecOver THEN exec ELSE "cancelling"
    /\ UNCHANGED <<outcome, busy, mon, stream, workspace, queue, seen, recorded>>

\* The executor raised.
PropagateError ==
    /\ Woken /\ ~Andon /\ exec = "raised"
    /\ caller' = "closing" /\ mon' = MonitorOff
    /\ UNCHANGED <<outcome, exec, busy, stream, workspace, queue, seen, recorded>>

\* It returned, or the monitor's stream ended first: then nobody watches any more.
AwaitExecution ==
    /\ Woken /\ ~Andon /\ exec # "raised"
    /\ IF ExecOver
       THEN caller' = "closing" /\ mon' = MonitorOff
       ELSE caller' = "draining" /\ UNCHANGED mon
    /\ UNCHANGED <<outcome, exec, busy, stream, workspace, queue, seen, recorded>>

Finish(o) == caller' = "over" /\ outcome' = o

\* Mutant of Stopped: the end of the execution is not awaited.
StoppedAtOnce ==
    /\ caller = "stopping" /\ ~busy
    /\ Finish(mon)
    /\ UNCHANGED <<exec, busy, mon, stream, workspace, queue, seen, recorded>>

\* Mutant of Stopped: nothing but CancelledError is expected.
StoppedIfCancelled ==
    /\ caller = "stopping" /\ exec = "cancelled" /\ ~busy
    /\ Finish(mon)
    /\ UNCHANGED <<exec, busy, mon, stream, workspace, queue, seen, recorded>>

\* Only CancelledError is caught: an error of the executor takes the place of the
\* monitor's.
Stopped ==
    /\ caller = "stopping" /\ ExecOver /\ ~busy
    /\ Finish(IF exec = "raised" THEN "error" ELSE mon)
    /\ UNCHANGED <<exec, busy, mon, stream, workspace, queue, seen, recorded>>

Drained ==
    /\ caller = "draining" /\ ExecOver /\ ~busy
    /\ Finish(CASE exec = "returned"  -> "result"
                [] exec = "raised"    -> "error"
                [] exec = "cancelled" -> "cancelled")
    /\ UNCHANGED <<exec, busy, mon, stream, workspace, queue, seen, recorded>>

Closed ==
    /\ caller = "closing" /\ MonOver /\ ~busy
    /\ Finish(IF exec = "raised" THEN "error" ELSE "result")
    /\ UNCHANGED <<exec, busy, mon, stream, workspace, queue, seen, recorded>>

\* run_with_monitor is cancelled: asyncio.wait leaves its tasks alone, an await of
\* the execution passes the cancellation on.  In the other two states the
\* except clauses swallow it.
CancelCaller ==
    /\ ~busy
    /\ \/ caller = "waiting" /\ Finish("cancelled") /\ UNCHANGED exec
       \/ /\ caller = "draining" /\ exec = "running"
          /\ exec' = "cancelling" /\ UNCHANGED <<caller, outcome>>
    /\ UNCHANGED <<busy, mon, stream, workspace, queue, seen, recorded>>

-------------------------------------------------------------------------------
ExecLeavesSomehow == \E s \in {"running", "returned", "raised"} : ExecLeaves(s)
ExecStops         == \E s \in {"cancelled", "raised"} : ExecCancelled(s)
CallerStep        == \/ StopExecution \/ PropagateError \/ AwaitExecution
                     \/ Stopped \/ Drained \/ Closed

Next == \/ ExecResumes \/ ExecLeavesSomehow \/ ExecStops
        \/ \E f \in File : \E time \in {0, clock + 1} : ExecWrites(f, time)
        \/ \E d \in Dir : \E way \in {"created", "moved"} : ExecMakesDirectory(d, way)
        \/ MonStarts \/ Deliver \/ WatchDirectory \/ MonFails \/ MonCancelled
        \/ \E f \in File : Look(f)
        \/ \E f \in File : RemoteEvent(f)
        \/ RemoteEnds
        \/ CallerStep \/ CancelCaller

Spec == Init /\ [][Next]_vars

\* The event loop starts both tasks, and an executor does not hold it for ever
\* (timeout_seconds).  Its ready queue is first come first served, so between two
\* turns of the executor every other coroutine that is ready has one: strong
\* fairness.  A scan comes to every file.  That a suspended executor goes on is
\* not assumed.
FairSpec ==
    /\ Spec
    /\ WF_vars(exec = "new" /\ ExecResumes)
    /\ WF_vars(ExecLeavesSomehow) /\ WF_vars(ExecStops)
    /\ WF_vars(MonStarts) /\ WF_vars(MonCancelled)
    /\ SF_vars(Deliver \/ WatchDirectory) /\ \A f \in File : SF_vars(Look(f))
    /\ SF_vars(CallerStep)

-------------------------------------------------------------------------------
(* Properties.                                                               *)

\* The type of the state; no file is younger than the last write.
TypeOK ==
    /\ caller \in {"waiting", "stopping", "draining", "closing", "over"}
    /\ outcome \in {"none", "result", "violation", "failed", "error", "cancelled"}
    /\ exec \in {"new", "running", "cancelling", "returned", "raised", "cancelled"}
    /\ busy \in BOOLEAN
    /\ mon \in {"new", "watching", "cancelling", "returned", "violation", "failed",
                "cancelled"}
    /\ backend \in Backends /\ remote \in Remotes
    /\ source \in {"none", "remote", "local"} /\ emitted \in BOOLEAN
    /\ clock \in Nat \ {0} /\ disk \in [File -> 0..clock] /\ touched \subseteq File
    /\ since \in [Dir \cup {Root} -> 0..clock]
    /\ made \in [Dir -> 0..clock] /\ moved \subseteq Dir
    /\ queue \in Seq(Path) /\ seen \in [File -> 0..clock] /\ recorded \in Seq(Path)

\* A result is returned only if every event the monitor read until then was
\* authorized, also when both tasks end in the same turn of the loop.
NoResultAfterViolation ==
    outcome = "result" => \A i \in 1..Len(recorded) : recorded[i] \in Authorized

\* The event store holds the path that stopped the run: it is the last one, and
\* the only unauthorized one.
AuditComplete ==
    /\ mon = "violation" =>
          recorded # <<>> /\ recorded[Len(recorded)] \notin Authorized
    /\ \A i \in 1..Len(recorded) :
          recorded[i] \notin Authorized => i = Len(recorded) /\ mon = "violation"

\* When run_with_monitor is over nothing of it goes on, unless it was cancelled
\* while it waited: then executor and monitor run on with nobody to stop them.
NoOrphans == outcome \notin {"none", "cancelled"} => ExecOver /\ MonOver

\* A run whose executor writes authorized files only is stopped for a violation
\* in two cases: recording an authorized event changed the event store's file
\* inside the workspace, or watchfiles reports a directory that was made (or the
\* provider itself a foreign path).
FalseAlarmOnlyFromLog ==
    mon = "violation" /\ touched \subseteq Authorized /\ ~remote =>
        \/ recorded[Len(recorded)] = Log /\ Len(recorded) > 1
        \/ recorded[Len(recorded)] \in Dir /\ backend = "watchfiles"

\* While an event backend is read, no unauthorized write is missing from what it has
\* in store that came after its file's directory was watched, and a directory made
\* in a watched one is watched or has its event in store.  Of what is made in a
\* directory that waits for its watch nothing is said: inotify misses it for good.
After(p, time) == since[Of[p]] # 0 /\ time > since[Of[p]]
InStore(p) == \E i \in 1..Len(queue) : queue[i] = p
NothingUnnoticed ==
    mon = "watching" /\ source = "local" /\ backend \in Notifying =>
        /\ \A f \in File \ Authorized : After(f, disk[f]) => InStore(f)
        /\ \A d \in Dir \ moved : After(d, made[d]) => InStore(d) \/ since[d] # 0

\* The end of either task, the monitor's stream excepted, ends run_with_monitor.
ReturnsWhenOver == ExecOver \/ Andon ~> outcome # "none"

\* An event that stops the run when it is read, and a file that does when a scan
\* comes to it.
Stops(p)   == p \notin Authorized /\ (backend = "inotify" => p \notin Dir)
Changed(f) == seen[f] # 0 /\ disk[f] \notin {0, seen[f]}

\* An unauthorized change is not lost on its way to the monitor: its event comes
\* one place closer with every reading until its own, which stops the monitor, and
\* what a scan has not come to yet is still there at the next one, unless the file
\* is deleted.
PendingGetsItsTurn ==
    [][mon = "watching" /\ mon' = "watching" =>
          /\ \A i \in 1..Len(queue) : Stops(queue[i]) =>
                \E j \in 1..i : /\ j <= Len(queue') /\ queue'[j] = queue[i]
                                /\ Deliver \/ WatchDirectory => j < i
          /\ source = "local" /\ backend = "polling" =>
                \A f \in File \ Authorized : Changed(f) => Changed(f)' \/ disk'[f] = 0]_vars

\* An unauthorized change the stream has in store stops a run that goes on, even
\* an executor that would never return.
Pending == mon = "watching" /\
    \/ \E i \in 1..Len(queue) : Stops(queue[i])
    \/ source = "local" /\ backend = "polling" /\ \E f \in File \ Authorized : Changed(f)
PendingViolationStops ==
    Pending ~> \/ outcome # "none"
               \/ backend = "polling" /\ \E f \in File \ Authorized : disk[f] = 0

-------------------------------------------------------------------------------
(* What the documents promise and the code does not keep.                    *)

\* lowering_config.json:218, "Execution must stop immediately when writes occur
\* outside the authorized file list."
UnauthorizedWriteStops == outcome = "result" => touched \subseteq Authorized
===============================================================================
