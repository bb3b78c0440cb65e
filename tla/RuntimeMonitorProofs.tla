------------------------- MODULE RuntimeMonitorProofs -------------------------
(*****************************************************************************)
(* Properties of RuntimeMonitor for any files, streams and writes: what is   *)
(* returned, what is recorded and what goes on after the end, what stops an  *)
(* executor that keeps to its scope, that no event backend loses a write in  *)
(* a directory it watches, and that an unauthorized change has its turn.     *)
(*****************************************************************************)
EXTENDS RuntimeMonitor, SequenceTheorems, TLAPS

\* Where caller, executor and monitor can be at the same time.
Phases ==
    /\ busy => exec = "running"
    /\ (outcome = "none") <=> (caller # "over")
    /\ caller = "waiting"  => mon \notin {"cancelling", "cancelled"}
    /\ caller = "stopping" => mon \in {"violation", "failed"}
    /\ caller = "draining" => mon = "returned"
    /\ caller = "closing"  => ExecOver /\ mon \in {"cancelling", "returned", "cancelled"}
    /\ outcome = "result"  => mon \in {"returned", "cancelled"}

IInv == TypeOK /\ Phases /\ AuditComplete /\ NoOrphans

-------------------------------------------------------------------------------
(* What the operators do.                                                    *)

\* A queue of paths stays one.
LEMMA NotifyType ==
    ASSUME NEW q \in Seq(Path)
    PROVE  /\ \A f \in File : Notify(q, f) \in Seq(Path)
           /\ \A d \in Dir : \A way : NotifyDirectory(q, d, way) \in Seq(Path)
  BY AppendProperties DEF Notify, NotifyDirectory, Path

\* What is in store stays there.
LEMMA NotifyKeeps ==
    ASSUME NEW q \in Seq(Path), NEW f \in Path
    PROVE  /\ Len(q) \in Nat /\ Len(Append(q, f)) = Len(q) + 1
           /\ Append(q, f)[Len(q) + 1] = f
           /\ \A i \in 1..Len(q) : Append(q, f)[i] = q[i]
  BY AppendProperties, LenProperties

\* The effect of judging an event on what is recorded, on the monitor and on times.
LEMMA JudgeEffect ==
    ASSUME TypeOK, NEW f \in Path, NEW q \in Seq(Path), Judge(f, q)
    PROVE  /\ recorded' \in Seq(Path) /\ queue' \in Seq(Path)
           /\ Len(recorded) \in Nat /\ Len(recorded') = Len(recorded) + 1
           /\ \A i \in 1..Len(recorded) : recorded'[i] = recorded[i]
           /\ recorded'[Len(recorded')] = f /\ recorded' # <<>>
           /\ mon' = (IF f \in Authorized THEN mon ELSE "violation")
           /\ clock' \in Nat \ {0} /\ clock' >= clock
           /\ disk' \in [File -> 0..clock']
           /\ \A g \in File : g # Log => disk'[g] = disk[g]
  <1>1. recorded \in Seq(Path) /\ clock \in Nat \ {0} /\ disk \in [File -> 0..clock]
    BY DEF TypeOK
  <1>2. /\ recorded' \in Seq(Path) /\ recorded' # <<>>
        /\ Len(recorded) \in Nat /\ Len(recorded') = Len(recorded) + 1
        /\ \A i \in 1..Len(recorded) : recorded'[i] = recorded[i]
        /\ recorded'[Len(recorded')] = f
    <2>1. recorded' = Append(recorded, f)
      BY DEF Judge
    <2>2. Len(recorded) \in Nat
      BY <1>1, LenProperties
    <2> QED BY <1>1, <2>1, <2>2, AppendProperties
  <1>3. /\ mon' = (IF f \in Authorized THEN mon ELSE "violation")
        /\ queue' \in {q, Notify(q, Log)} /\ (queue' = q \/ Log \in File)
    BY DEF Judge
  <1>4. queue' \in Seq(Path)
    BY <1>3, NotifyType
  <1>5. /\ clock' \in Nat \ {0} /\ clock' >= clock /\ disk' \in [File -> 0..clock']
        /\ \A g \in File : g # Log => disk'[g] = disk[g]
    <2>1. CASE Log \in File
      <3>1. clock' = clock + 1 /\ disk' = [disk EXCEPT ![Log] = clock + 1]
        BY <2>1 DEF Judge
      <3>2. 0..clock \subseteq 0..clock' /\ clock + 1 \in 0..clock'
        BY <1>1, <3>1
      <3> QED BY <1>1, <2>1, <3>1, <3>2
    <2>2. CASE Log \notin File
      BY <1>1, <2>2 DEF Judge
    <2> QED BY <2>1, <2>2
  <1> QED BY <1>2, <1>3, <1>4, <1>5

\* The steps that judge an event.
JudgingStep == \/ Deliver
               \/ \E f \in File : Look(f) /\ seen[f] # 0
               \/ \E f \in File : RemoteEvent(f)

\* The steps that only move executor, monitor and caller, or open a stream.
QuietStep == \/ ExecResumes \/ ExecLeavesSomehow \/ ExecStops
             \/ MonStarts \/ MonFails \/ MonCancelled \/ RemoteEnds
             \/ \E f \in File : Look(f) /\ seen[f] = 0
             \/ CallerStep \/ CancelCaller

WritingStep == \/ \E f \in File : \E time \in {0, clock + 1} : ExecWrites(f, time)
               \/ \E d \in Dir : \E way \in {"created", "moved"} : ExecMakesDirectory(d, way)

\* Every step is one of these.
LEMMA NextCases ==
    ASSUME Next
    PROVE  QuietStep \/ WritingStep \/ JudgingStep \/ WatchDirectory
  BY DEF Next, QuietStep, WritingStep, JudgingStep

\* A judging step reads one event while the monitor watches, and changes nothing of
\* the executor and the caller.
LEMMA JudgingEffect ==
    ASSUME TypeOK, JudgingStep
    PROVE  /\ mon = "watching" /\ ~busy
           /\ \E f \in Path, q \in Seq(Path) : Judge(f, q)
           /\ UNCHANGED <<caller, outcome, exec, busy, backend, remote, source, since,
                          touched, made, moved>>
           /\ emitted' \in BOOLEAN
           /\ seen' = seen \/ \E f \in File : seen' = [seen EXCEPT ![f] = disk[f]]
  <1>1. queue \in Seq(Path) /\ emitted \in BOOLEAN /\ File \subseteq Path
    BY DEF TypeOK, Path
  <1>2. CASE Deliver
    <2>1. Head(queue) \in Path /\ Tail(queue) \in Seq(Path)
      BY <1>1, <1>2, HeadTailProperties DEF Deliver, Reading
    <2> QED BY <1>1, <1>2, <2>1 DEF Deliver, Reading, Watching, stream
  <1>3. CASE \E f \in File : Look(f) /\ seen[f] # 0
    BY <1>1, <1>3 DEF Look, Watching, stream
  <1>4. CASE \E f \in File : RemoteEvent(f)
    BY <1>1, <1>4 DEF RemoteEvent, Watching
  <1> QED BY <1>2, <1>3, <1>4 DEF JudgingStep

\* A quiet step leaves files, queue and record alone.
LEMMA QuietEffect ==
    ASSUME QuietStep
    PROVE  UNCHANGED <<backend, remote, emitted, clock, disk, touched, made, moved, queue,
                       recorded>>
  BY DEF QuietStep, ExecResumes, ExecLeavesSomehow, ExecLeaves, ExecStops, ExecCancelled,
         MonStarts, MonFails, MonCancelled, RemoteEnds, Look, CallerStep, StopExecution,
         PropagateError, AwaitExecution, Stopped, Drained, Closed, CancelCaller, OpenLocal,
         stream, workspace

-------------------------------------------------------------------------------
(* Type correctness.                                                         *)

LEMMA QuietTypes ==
    ASSUME TypeOK, Phases, QuietStep
    PROVE  TypeOK'
  <1> USE DEF TypeOK
  <1>0. UNCHANGED <<backend, remote, emitted, clock, disk, touched, made, moved, queue,
                  recorded>>
    BY QuietEffect
  <1>1. CASE ExecResumes \/ ExecLeavesSomehow \/ ExecStops
    <2>1. UNCHANGED <<caller, outcome, mon, source, since, seen>>
      BY <1>1 DEF ExecResumes, ExecLeavesSomehow, ExecLeaves, ExecStops, ExecCancelled, stream
    <2>2. exec' \in {"running", "returned", "raised", "cancelled"} /\ busy' \in BOOLEAN
      BY <1>1 DEF ExecResumes, ExecLeavesSomehow, ExecLeaves, ExecStops, ExecCancelled
    <2> QED BY <1>0, <2>1, <2>2
  <1>2. CASE MonStarts \/ RemoteEnds
    <2>1. UNCHANGED <<caller, outcome, exec, busy>>
      BY <1>2 DEF MonStarts, RemoteEnds
    <2>2. /\ mon' \in {"watching", "returned"} /\ source' \in {"remote", "local"}
          /\ seen' \in [File -> 0..clock]
      BY <1>2 DEF MonStarts, RemoteEnds, OpenLocal, Watching
    <2>3. since' \in [Dir \cup {Root} -> 0..clock]
      <3>1. CASE OpenLocal
        <4>1. \A d \in Dir \cup {Root} : 0 \in 0..clock /\ clock \in 0..clock
          OBVIOUS
        <4> QED BY <3>1, <4>1 DEF OpenLocal
      <3>2. CASE UNCHANGED since
        BY <3>2
      <3> QED BY <1>2, <3>1, <3>2 DEF MonStarts, RemoteEnds
    <2> QED BY <1>0, <2>1, <2>2, <2>3
  <1>3. CASE MonFails \/ MonCancelled
    BY <1>0, <1>3 DEF MonFails, MonCancelled, stream
  <1>4. CASE \E f \in File : Look(f) /\ seen[f] = 0
    BY <1>0, <1>4 DEF Look, stream
  <1>5. CASE CallerStep
    <2>1. CASE StopExecution \/ PropagateError \/ AwaitExecution
      BY <1>0, <2>1 DEF StopExecution, PropagateError, AwaitExecution, MonitorOff, stream
    <2>2. CASE Stopped
      BY <1>0, <2>2 DEF Stopped, Finish, Phases, stream
    <2>3. CASE Drained
      BY <1>0, <2>3 DEF Drained, Finish, ExecOver, stream
    <2>4. CASE Closed
      BY <1>0, <2>4 DEF Closed, Finish, stream
    <2> QED BY <1>5, <2>1, <2>2, <2>3, <2>4 DEF CallerStep
  <1>6. CASE CancelCaller
    BY <1>0, <1>6 DEF CancelCaller, Finish, stream
  <1> QED BY <1>1, <1>2, <1>3, <1>4, <1>5, <1>6 DEF QuietStep

LEMMA WritingTypes ==
    ASSUME TypeOK, WritingStep
    PROVE  TypeOK'
  <1>1. ASSUME NEW f \in File, NEW time \in {0, clock + 1}, ExecWrites(f, time)
        PROVE  TypeOK'
    <2>1. queue' \in Seq(Path)
      BY <1>1, NotifyType DEF ExecWrites, TypeOK
    <2>2. /\ clock' = clock + 1 /\ disk' = [disk EXCEPT ![f] = time]
          /\ touched' = touched \cup {f}
      BY <1>1 DEF ExecWrites
    <2>3. /\ clock' \in Nat \ {0} /\ disk' \in [File -> 0..clock']
          /\ seen \in [File -> 0..clock'] /\ since \in [Dir \cup {Root} -> 0..clock']
          /\ made \in [Dir -> 0..clock']
      <3>1. 0..clock \subseteq 0..clock' /\ clock \in Nat \ {0} /\ time \in 0..clock'
        BY <2>2 DEF TypeOK
      <3> QED BY <2>2, <3>1 DEF TypeOK
    <2> QED BY <1>1, <2>1, <2>2, <2>3 DEF ExecWrites, TypeOK, stream
  <1>2. ASSUME NEW d \in Dir, NEW way \in {"created", "moved"}, ExecMakesDirectory(d, way)
        PROVE  TypeOK'
    <2>1. queue' \in Seq(Path)
      BY <1>2, NotifyType DEF ExecMakesDirectory, TypeOK
    <2>2. /\ clock' = clock + 1 /\ made' = [made EXCEPT ![d] = clock + 1]
          /\ moved' \in {moved, moved \cup {d}}
      BY <1>2 DEF ExecMakesDirectory
    <2>3. /\ clock' \in Nat \ {0} /\ disk \in [File -> 0..clock'] /\ made' \in [Dir -> 0..clock']
          /\ seen \in [File -> 0..clock'] /\ since \in [Dir \cup {Root} -> 0..clock']
          /\ moved' \subseteq Dir
      <3>1. 0..clock \subseteq 0..clock' /\ clock \in Nat \ {0} /\ clock + 1 \in 0..clock'
        BY <2>2 DEF TypeOK
      <3> QED BY <2>2, <3>1 DEF TypeOK
    <2> QED BY <1>2, <2>1, <2>3 DEF ExecMakesDirectory, TypeOK, stream
  <1> QED BY <1>1, <1>2 DEF WritingStep

LEMMA WatchTypes ==
    ASSUME TypeOK, WatchDirectory
    PROVE  TypeOK'
  <1>1. Tail(queue) \in Seq(Path)
    BY HeadTailProperties DEF WatchDirectory, Reading, TypeOK
  <1>2. since' \in [Dir \cup {Root} -> 0..clock]
    BY DEF WatchDirectory, TypeOK
  <1> QED BY <1>1, <1>2 DEF WatchDirectory, workspace, TypeOK

LEMMA JudgingTypes ==
    ASSUME TypeOK, JudgingStep
    PROVE  TypeOK'
  <1>1. /\ mon = "watching"
        /\ UNCHANGED <<caller, outcome, exec, busy, backend, remote, source, since, touched,
                       made, moved>>
        /\ emitted' \in BOOLEAN
        /\ seen' = seen \/ \E f \in File : seen' = [seen EXCEPT ![f] = disk[f]]
    BY JudgingEffect
  <1>2. PICK f \in Path, q \in Seq(Path) : Judge(f, q)
    BY JudgingEffect
  <1>3. /\ recorded' \in Seq(Path) /\ queue' \in Seq(Path)
        /\ mon' \in {"watching", "violation"}
        /\ clock' \in Nat \ {0} /\ clock' >= clock /\ disk' \in [File -> 0..clock']
    BY <1>1, <1>2, JudgeEffect
  <1>4. /\ seen' \in [File -> 0..clock'] /\ since' \in [Dir \cup {Root} -> 0..clock']
        /\ made' \in [Dir -> 0..clock']
    <2>1. /\ seen \in [File -> 0..clock] /\ disk \in [File -> 0..clock]
          /\ since \in [Dir \cup {Root} -> 0..clock] /\ made \in [Dir -> 0..clock]
          /\ clock \in Nat
      BY DEF TypeOK
    <2>2. 0..clock \subseteq 0..clock'
      BY <1>3, <2>1
    <2> QED BY <1>1, <2>1, <2>2
  <1> QED BY <1>1, <1>3, <1>4 DEF TypeOK

-------------------------------------------------------------------------------
(* Phases, the record, and the end.                                          *)

LEMMA PhasesKept ==
    ASSUME IInv, [Next]_vars
    PROVE  Phases' /\ NoOrphans'
  <1> USE DEF IInv, TypeOK, Phases, NoOrphans, ExecOver, MonOver
  <1>1. CASE JudgingStep
    <2>1. mon' \in {"watching", "violation"}
      BY <1>1, JudgingEffect, JudgeEffect
    <2> QED BY <1>1, <2>1, JudgingEffect
  <1>2. CASE WritingStep
    BY <1>2 DEF WritingStep, ExecWrites, ExecMakesDirectory
  <1>3. CASE QuietStep
    <2>1. CASE ExecResumes \/ ExecLeavesSomehow \/ ExecStops
      BY <2>1 DEF ExecResumes, ExecLeavesSomehow, ExecLeaves, ExecStops, ExecCancelled
    <2>2. CASE MonStarts \/ RemoteEnds \/ MonFails \/ MonCancelled
      BY <2>2 DEF MonStarts, RemoteEnds, OpenLocal, MonFails, MonCancelled, Watching
    <2>3. CASE \E f \in File : Look(f) /\ seen[f] = 0
      BY <2>3 DEF Look
    <2>4. CASE StopExecution \/ PropagateError \/ AwaitExecution
      BY <2>4 DEF StopExecution, PropagateError, AwaitExecution, MonitorOff, Woken, Andon
    <2>5. CASE Stopped \/ Drained \/ Closed
      BY <2>5 DEF Stopped, Drained, Closed, Finish
    <2>6. CASE CancelCaller
      BY <2>6 DEF CancelCaller, Finish
    <2> QED BY <1>3, <2>1, <2>2, <2>3, <2>4, <2>5, <2>6 DEF QuietStep, CallerStep
  <1>4. CASE WatchDirectory
    BY <1>4 DEF WatchDirectory
  <1>5. CASE UNCHANGED vars
    BY <1>5 DEF vars
  <1> QED BY <1>1, <1>2, <1>3, <1>4, <1>5, NextCases

\* A monitor that raised SecurityViolation stays so.
LEMMA ViolationStays ==
    ASSUME IInv, QuietStep
    PROVE  mon' = "violation" <=> mon = "violation"
  BY DEF IInv, Phases, QuietStep, ExecResumes, ExecLeavesSomehow, ExecLeaves, ExecStops,
         ExecCancelled, MonStarts, RemoteEnds, OpenLocal, MonFails, MonCancelled, Watching, Look,
         CallerStep, StopExecution, PropagateError, AwaitExecution, MonitorOff, MonOver, Andon,
         Stopped, Drained, Closed, CancelCaller

LEMMA AuditKept ==
    ASSUME IInv, [Next]_vars
    PROVE  AuditComplete'
  <1>1. CASE JudgingStep
    <2>1. PICK f \in Path, q \in Seq(Path) : Judge(f, q)
      BY <1>1, JudgingEffect DEF IInv
    <2>2. mon = "watching"
      BY <1>1, JudgingEffect DEF IInv
    <2>3. \A i \in 1..Len(recorded) : recorded[i] \in Authorized
      BY <2>2 DEF IInv, AuditComplete
    <2>4. /\ Len(recorded) \in Nat /\ Len(recorded') = Len(recorded) + 1
          /\ \A i \in 1..Len(recorded) : recorded'[i] = recorded[i]
          /\ recorded'[Len(recorded')] = f /\ recorded' # <<>>
          /\ mon' = (IF f \in Authorized THEN mon ELSE "violation")
      BY <2>1, <2>2, JudgeEffect DEF IInv
    <2> QED BY <2>2, <2>3, <2>4 DEF AuditComplete
  <1>2. CASE WritingStep
    BY <1>2 DEF WritingStep, ExecWrites, ExecMakesDirectory, IInv, AuditComplete
  <1>3. CASE QuietStep
    BY <1>3, QuietEffect, ViolationStays DEF IInv, AuditComplete
  <1>4. CASE WatchDirectory
    BY <1>4 DEF WatchDirectory, IInv, AuditComplete
  <1>5. CASE UNCHANGED vars
    BY <1>5 DEF vars, IInv, AuditComplete
  <1> QED BY <1>1, <1>2, <1>3, <1>4, <1>5, NextCases

-------------------------------------------------------------------------------
(* The theorems.                                                             *)

\* The strengthened invariant holds.
THEOREM Inductive == Spec => []IInv
  <1>1. Init => IInv
    <2> SUFFICES ASSUME Init PROVE IInv
      OBVIOUS
    <2>1. <<>> \in Seq(Path) /\ Len(<<>>) = 0
      BY EmptySeq
    <2>2. /\ disk \in [File -> 0..clock] /\ seen \in [File -> 0..clock]
          /\ since \in [Dir \cup {Root} -> 0..clock] /\ clock \in Nat \ {0}
          /\ made \in [Dir -> 0..clock]
      <3>1. {0, 1} \subseteq 0..1 /\ 0 \in 0..1
        OBVIOUS
      <3> QED BY <3>1 DEF Init
    <2>3. TypeOK
      BY <2>1, <2>2 DEF Init, TypeOK
    <2> QED BY <2>1, <2>3 DEF Init, IInv, Phases, AuditComplete, NoOrphans
  <1>2. IInv /\ [Next]_vars => IInv'
    <2> SUFFICES ASSUME IInv, [Next]_vars PROVE TypeOK'
      BY PhasesKept, AuditKept DEF IInv
    <2>1. CASE UNCHANGED vars
      BY <2>1 DEF vars, stream, workspace, IInv, TypeOK
    <2> QED BY <2>1, NextCases, QuietTypes, WritingTypes, JudgingTypes, WatchTypes
           DEF IInv
  <1> QED BY <1>1, <1>2, PTL DEF Spec

\* Type correctness.
THEOREM TypeCorrect == Spec => []TypeOK
  BY Inductive, PTL DEF IInv

\* No result is returned after an unauthorized event was read.
THEOREM NoResultAfterViolationTheorem == Spec => []NoResultAfterViolation
  <1>1. IInv => NoResultAfterViolation
    BY DEF IInv, Phases, AuditComplete, NoResultAfterViolation
  <1> QED BY <1>1, Inductive, PTL

\* The event that stopped a run is recorded, as the last one.
THEOREM AuditCompleteTheorem == Spec => []AuditComplete
  BY Inductive, PTL DEF IInv

\* Nothing goes on after the end of a run_with_monitor that was not cancelled.
THEOREM NoOrphansTheorem == Spec => []NoOrphans
  BY Inductive, PTL DEF IInv

-------------------------------------------------------------------------------
(* Where events come from.                                                   *)

\* What the streams hold and what was recorded is the executor's doing, the event
\* store's after a first record, or a directory.
QueueSources ==
    /\ \A i \in 1..Len(queue) : /\ queue[i] \in touched \cup {Log} \cup Dir
                                /\ queue[i] \in Dir => backend \in {"watchfiles", "inotify"}
    /\ Log \notin touched /\ recorded = <<>> => \A i \in 1..Len(queue) : queue[i] # Log
ScanSources ==
    \A f \in File : seen[f] \notin {0, disk[f]} /\ disk[f] # 0 =>
        f \in touched \/ (f = Log /\ recorded # <<>>)
RecordSources ==
    /\ source = "remote" => remote
    /\ ~remote => /\ \A i \in 1..Len(recorded) :
                        /\ recorded[i] \in touched \cup {Log} \cup Dir
                        /\ recorded[i] \in Dir => backend = "watchfiles"
                  /\ Log \notin touched /\ recorded # <<>> => recorded[1] # Log

Sources == QueueSources /\ ScanSources /\ RecordSources

LEMMA QuietSources ==
    ASSUME IInv, Sources, QuietStep
    PROVE  Sources'
  <1>0. UNCHANGED <<backend, remote, emitted, clock, disk, touched, made, moved, queue,
                  recorded>>
    BY QuietEffect
  <1>1. source' = "remote" => remote
    BY <1>0 DEF QuietStep, ExecResumes, ExecLeavesSomehow, ExecLeaves, ExecStops, ExecCancelled,
        MonStarts, MonFails, MonCancelled, RemoteEnds, Look, CallerStep, StopExecution,
        PropagateError, AwaitExecution, Stopped, Drained, Closed, CancelCaller, OpenLocal,
        stream, Sources, RecordSources
  <1>2. \/ seen' = seen \/ seen' = disk
        \/ \E f \in File : seen' = [seen EXCEPT ![f] = disk[f]]
    BY DEF QuietStep, ExecResumes, ExecLeavesSomehow, ExecLeaves, ExecStops, ExecCancelled,
        MonStarts, MonFails, MonCancelled, RemoteEnds, Look, CallerStep, StopExecution,
        PropagateError, AwaitExecution, Stopped, Drained, Closed, CancelCaller, OpenLocal
  <1>3. seen \in [File -> 0..clock]
    BY DEF IInv, TypeOK
  <1>4. ScanSources'
    BY <1>0, <1>2, <1>3 DEF Sources, ScanSources
  <1> QED BY <1>0, <1>1, <1>4 DEF Sources, QueueSources, RecordSources

LEMMA WritingSources ==
    ASSUME IInv, Sources, WritingStep
    PROVE  Sources'
  <1>1. /\ queue \in Seq(Path) /\ Len(queue) \in Nat
        /\ disk \in [File -> 0..clock] /\ Dir \subseteq Path /\ File \subseteq Path
    BY LenProperties DEF IInv, TypeOK, Path
  <1>2. ASSUME NEW f \in File, NEW time \in {0, clock + 1}, ExecWrites(f, time)
        PROVE  Sources'
    <2>1. /\ touched' = touched \cup {f} /\ disk' = [disk EXCEPT ![f] = time]
          /\ queue' = Notify(queue, f)
          /\ UNCHANGED <<seen, recorded, remote, source, backend>>
      BY <1>2 DEF ExecWrites, stream
    <2>2. \/ queue' = queue
          \/ /\ Len(queue') = Len(queue) + 1 /\ queue'[Len(queue) + 1] = f
             /\ \A i \in 1..Len(queue) : queue'[i] = queue[i]
      BY <1>1, <2>1, NotifyKeeps DEF Notify
    <2>3. QueueSources'
      BY <1>1, <2>1, <2>2, DirectoryAssumption DEF Sources, QueueSources
    <2>4. ScanSources'
      BY <1>1, <2>1 DEF Sources, ScanSources
    <2> QED BY <2>1, <2>3, <2>4 DEF Sources, RecordSources
  <1>3. ASSUME NEW d \in Dir, NEW way \in {"created", "moved"}, ExecMakesDirectory(d, way)
        PROVE  Sources'
    <2>1. /\ UNCHANGED <<disk, touched, seen, recorded, remote, source, backend>>
          /\ queue' = NotifyDirectory(queue, d, way)
      BY <1>3 DEF ExecMakesDirectory, stream
    <2>2. \/ queue' = queue
          \/ /\ Len(queue') = Len(queue) + 1 /\ queue'[Len(queue) + 1] = d
             /\ \A i \in 1..Len(queue) : queue'[i] = queue[i]
             /\ backend \in {"watchfiles", "inotify"}
      BY <1>1, <2>1, NotifyKeeps DEF NotifyDirectory
    <2>3. QueueSources'
      BY <1>1, <2>1, <2>2, DirectoryAssumption DEF Sources, QueueSources
    <2> QED BY <2>1, <2>3 DEF Sources, ScanSources, RecordSources
  <1> QED BY <1>2, <1>3 DEF WritingStep

LEMMA WatchSources ==
    ASSUME IInv, Sources, WatchDirectory
    PROVE  Sources'
  <1>1. /\ queue \in Seq(Path) /\ queue # <<>> /\ queue' = Tail(queue)
        /\ UNCHANGED <<workspace, seen, recorded, backend, remote, source>>
    BY DEF WatchDirectory, Reading, IInv, TypeOK
  <1>2. /\ Len(queue) \in Nat /\ Len(queue') = Len(queue) - 1
        /\ \A i \in 1..Len(queue') : queue'[i] = queue[i + 1]
    BY <1>1, HeadTailProperties, LenProperties
  <1> QED BY <1>1, <1>2
        DEF Sources, QueueSources, ScanSources, RecordSources, workspace

\* An event that may be judged next.
Explained(f) == /\ f \in touched \cup {Log} \cup Dir
                /\ f \in Dir => backend = "watchfiles"
                /\ Log \notin touched /\ recorded = <<>> => f # Log

\* Judging an explained event keeps the record explained.
LEMMA JudgeExplained ==
    ASSUME IInv, Sources, NEW f \in Path, NEW q \in Seq(Path), Judge(f, q),
           remote \/ Explained(f), UNCHANGED <<source, backend, remote, touched>>
    PROVE  RecordSources'
  <1>1. /\ Len(recorded) \in Nat /\ Len(recorded') = Len(recorded) + 1
        /\ \A i \in 1..Len(recorded) : recorded'[i] = recorded[i]
        /\ recorded'[Len(recorded')] = f
    BY JudgeEffect DEF IInv
  <1>2. recorded \in Seq(Path) /\ (recorded = <<>> <=> Len(recorded) = 0)
    BY EmptySeq DEF IInv, TypeOK
  <1> QED BY <1>1, <1>2 DEF Sources, RecordSources, Explained

LEMMA JudgingSources ==
    ASSUME IInv, Sources, JudgingStep
    PROVE  Sources'
  <1>0. /\ UNCHANGED <<backend, remote, source, touched>> /\ File \subseteq Path
        /\ queue \in Seq(Path) /\ seen \in [File -> 0..clock] /\ disk \in [File -> 0..clock]
    BY JudgingEffect DEF IInv, TypeOK, Path
  <1>1. ASSUME NEW f \in Path, NEW q \in Seq(Path), Judge(f, q),
               \A i \in 1..Len(q) :
                   /\ q[i] \in touched \cup {Log} \cup Dir
                   /\ q[i] \in Dir => backend \in {"watchfiles", "inotify"}
        PROVE  QueueSources' /\ recorded' # <<>>
               /\ \A g \in File : g # Log => disk'[g] = disk[g]
    <2>1. recorded' # <<>> /\ \A g \in File : g # Log => disk'[g] = disk[g]
      BY <1>0, <1>1, JudgeEffect DEF IInv
    <2>2. Len(q) \in Nat /\ Log \notin Dir
      BY LenProperties, DirectoryAssumption
    <2>3. queue' = q \/ (queue' = Append(q, Log) /\ Log \in File)
      BY <1>1 DEF Judge, Notify
    <2>4. \/ queue' = q
          \/ /\ Len(queue') = Len(q) + 1 /\ queue'[Len(q) + 1] = Log
             /\ \A i \in 1..Len(q) : queue'[i] = q[i]
      BY <1>0, <2>3, NotifyKeeps
    <2>5. \A i \in 1..Len(queue') :
              /\ queue'[i] \in touched' \cup {Log} \cup Dir
              /\ queue'[i] \in Dir => backend' \in {"watchfiles", "inotify"}
      BY <1>0, <1>1, <2>2, <2>4
    <2> QED BY <2>1, <2>5 DEF QueueSources
  <1>2. CASE Deliver
    <2>1. /\ Head(queue) \in Path /\ Tail(queue) \in Seq(Path) /\ Head(queue) = queue[1]
          /\ Len(queue) \in Nat /\ Len(queue) > 0 /\ Len(Tail(queue)) = Len(queue) - 1
          /\ \A i \in 1..Len(Tail(queue)) : Tail(queue)[i] = queue[i + 1]
      BY <1>0, <1>2, HeadTailProperties, LenProperties, EmptySeq DEF Deliver, Reading
    <2>2. /\ Judge(Head(queue), Tail(queue)) /\ UNCHANGED seen
          /\ backend = "inotify" => Head(queue) \notin Dir
      BY <1>2 DEF Deliver
    <2>3. \A i \in 1..Len(Tail(queue)) :
              /\ Tail(queue)[i] \in touched \cup {Log} \cup Dir
              /\ Tail(queue)[i] \in Dir => backend \in {"watchfiles", "inotify"}
      BY <2>1 DEF Sources, QueueSources
    <2>4. QueueSources' /\ recorded' # <<>> /\ \A g \in File : g # Log => disk'[g] = disk[g]
      BY <1>1, <2>1, <2>2, <2>3
    <2>5. Explained(Head(queue))
      BY <2>1, <2>2 DEF Explained, Sources, QueueSources
    <2>6. RecordSources'
      BY <1>0, <2>1, <2>2, <2>5, JudgeExplained
    <2>7. ScanSources'
      BY <1>0, <2>2, <2>4 DEF Sources, ScanSources
    <2> QED BY <2>4, <2>6, <2>7 DEF Sources
  <1>3. ASSUME NEW f \in File, Look(f), seen[f] # 0
        PROVE  Sources'
    <2>1. Judge(f, queue) /\ seen' = [seen EXCEPT ![f] = disk[f]] /\ disk[f] \notin {0, seen[f]}
      BY <1>3 DEF Look
    <2>2. QueueSources' /\ recorded' # <<>> /\ \A g \in File : g # Log => disk'[g] = disk[g]
      BY <1>0, <1>1, <2>1 DEF Sources, QueueSources
    <2>3. Explained(f)
      BY <1>3, <2>1, DirectoryAssumption DEF Explained, Sources, ScanSources
    <2>4. RecordSources'
      BY <1>0, <2>1, <2>3, JudgeExplained
    <2>5. ScanSources'
      BY <1>0, <2>1, <2>2 DEF Sources, ScanSources
    <2> QED BY <2>2, <2>4, <2>5 DEF Sources
  <1>4. ASSUME NEW f \in File, RemoteEvent(f)
        PROVE  Sources'
    <2>1. Judge(f, queue) /\ UNCHANGED seen /\ remote
      BY <1>4 DEF RemoteEvent, Watching, Sources, RecordSources
    <2>2. QueueSources' /\ recorded' # <<>> /\ \A g \in File : g # Log => disk'[g] = disk[g]
      BY <1>0, <1>1, <2>1 DEF Sources, QueueSources
    <2>3. RecordSources'
      BY <1>0, <2>1, JudgeExplained
    <2>4. ScanSources'
      BY <1>0, <2>1, <2>2 DEF Sources, ScanSources
    <2> QED BY <2>2, <2>3, <2>4 DEF Sources
  <1> QED BY <1>2, <1>3, <1>4 DEF JudgingStep

\* Only the event store's own file, changed by an earlier record, or a directory that
\* watchfiles reports stops an executor that keeps to the authorized files.
THEOREM FalseAlarmTheorem == Spec => []FalseAlarmOnlyFromLog
  <1>1. Init => Sources
    <2> SUFFICES ASSUME Init PROVE Sources
      OBVIOUS
    <2>1. Len(<<>>) = 0
      BY EmptySeq
    <2> QED BY <2>1 DEF Init, Sources, QueueSources, ScanSources, RecordSources
  <1>2. IInv /\ Sources /\ [Next]_vars => Sources'
    <2> SUFFICES ASSUME IInv, Sources, [Next]_vars PROVE Sources'
      OBVIOUS
    <2>1. CASE UNCHANGED vars
      BY <2>1 DEF vars, stream, workspace, Sources, QueueSources, ScanSources, RecordSources
    <2> QED BY <2>1, NextCases, QuietSources, WritingSources, JudgingSources, WatchSources
  <1>3. IInv /\ Sources => FalseAlarmOnlyFromLog
    <2> SUFFICES ASSUME IInv, Sources, mon = "violation", touched \subseteq Authorized, ~remote
                 PROVE  \/ recorded[Len(recorded)] = Log /\ Len(recorded) > 1
                        \/ recorded[Len(recorded)] \in Dir /\ backend = "watchfiles"
      BY DEF FalseAlarmOnlyFromLog
    <2>1. recorded # <<>> /\ recorded \in Seq(Path) /\ recorded[Len(recorded)] \notin Authorized
      BY DEF IInv, TypeOK, AuditComplete
    <2>2. Len(recorded) \in Nat /\ Len(recorded) # 0
      BY <2>1, EmptySeq, LenProperties
    <2>3. recorded[Len(recorded)] \in touched \cup {Log} \cup Dir /\ Log \notin touched
      BY <2>2, FileAssumption DEF Sources, RecordSources
    <2> QED BY <2>1, <2>2, <2>3 DEF Sources, RecordSources
  <1> QED BY <1>1, <1>2, <1>3, Inductive, PTL DEF Spec

-------------------------------------------------------------------------------
(* What the event backends have in store.                                    *)

\* Only inotify leaves directories unwatched.
Watches ==
    source = "local" /\ backend \in Notifying \ {"inotify"} => \A d \in Dir : since[d] # 0

Noticing == Watches /\ NothingUnnoticed

LEMMA QuietNoticing ==
    ASSUME IInv, Noticing, QuietStep
    PROVE  Noticing'
  <1>0. /\ UNCHANGED <<backend, clock, disk, made, moved, queue>>
        /\ disk \in [File -> 0..clock] /\ made \in [Dir -> 0..clock] /\ clock \in Nat \ {0}
        /\ \A p \in Path : Of[p] \in Dir \cup {Root}
    BY QuietEffect, DirectoryAssumption DEF IInv, TypeOK, Path
  <1>1. CASE OpenLocal
    <2>1. \A d \in Dir \cup {Root} :
              since'[d] = (IF \/ backend \notin Notifying
                              \/ backend = "inotify" /\ d # Root /\ made[d] = 0
                          THEN 0 ELSE clock)
      BY <1>1 DEF OpenLocal
    <2>2. Watches'
      BY <1>0, <2>1 DEF Watches
    <2>3. ASSUME NEW p \in Path, NEW time \in 0..clock
          PROVE  ~After(p, time)'
      BY <1>0, <2>1 DEF After
    <2>4. NothingUnnoticed'
      BY <1>0, <2>3 DEF NothingUnnoticed, Path
    <2> QED BY <2>2, <2>4 DEF Noticing
  <1>2. CASE source' = "remote"
    BY <1>2 DEF Noticing, Watches, NothingUnnoticed
  <1>3. CASE UNCHANGED <<source, since>> /\ (mon' = "watching" => mon = "watching")
    BY <1>0, <1>3 DEF Noticing, Watches, NothingUnnoticed, InStore, After
  <1>4. OpenLocal \/ source' = "remote"
        \/ (UNCHANGED <<source, since>> /\ (mon' = "watching" => mon = "watching"))
    <2>1. CASE MonStarts \/ RemoteEnds
      BY <2>1 DEF MonStarts, RemoteEnds
    <2>2. CASE ~(MonStarts \/ RemoteEnds)
      BY <2>2 DEF QuietStep, ExecResumes, ExecLeavesSomehow, ExecLeaves, ExecStops,
          ExecCancelled, MonFails, MonCancelled, Look, CallerStep, StopExecution, PropagateError,
          AwaitExecution, MonitorOff, Stopped, Drained, Closed, CancelCaller, stream
    <2> QED BY <2>1, <2>2
  <1> QED BY <1>1, <1>2, <1>3, <1>4

LEMMA WritingNoticing ==
    ASSUME IInv, Noticing, WritingStep
    PROVE  Noticing'
  <1>1. /\ queue \in Seq(Path) /\ Len(queue) \in Nat /\ disk \in [File -> 0..clock]
        /\ made \in [Dir -> 0..clock] /\ Dir \subseteq Path /\ File \subseteq Path
    BY LenProperties DEF IInv, TypeOK, Path
  <1>2. ASSUME NEW f \in File, NEW time \in {0, clock + 1}, ExecWrites(f, time)
        PROVE  Noticing'
    <2>1. /\ disk' = [disk EXCEPT ![f] = time] /\ queue' = Notify(queue, f)
          /\ UNCHANGED <<mon, source, backend, since, made, moved>>
      BY <1>2 DEF ExecWrites, stream
    <2>2. \/ queue' = queue /\ ~(source = "local" /\ backend \in Notifying /\ since[Of[f]] # 0)
          \/ /\ Len(queue') = Len(queue) + 1 /\ queue'[Len(queue) + 1] = f
             /\ \A i \in 1..Len(queue) : queue'[i] = queue[i]
      BY <1>1, <2>1, NotifyKeeps DEF Notify
    <2>3. \A p : InStore(p) => InStore(p)'
      BY <1>1, <2>2 DEF InStore
    <2>4. source = "local" /\ backend \in Notifying /\ since[Of[f]] # 0 => InStore(f)'
      BY <1>1, <2>2 DEF InStore
    <2>5. \A g \in File : g # f => disk'[g] = disk[g]
      BY <1>1, <2>1
    <2> QED BY <2>1, <2>3, <2>4, <2>5 DEF Noticing, Watches, NothingUnnoticed, After
  <1>3. ASSUME NEW d \in Dir, NEW way \in {"created", "moved"}, ExecMakesDirectory(d, way)
        PROVE  Noticing'
    <2>1. /\ queue' = NotifyDirectory(queue, d, way) /\ made' = [made EXCEPT ![d] = clock + 1]
          /\ moved' = (IF way = "moved" THEN moved \cup {d} ELSE moved)
          /\ UNCHANGED <<disk, mon, source, backend, since>>
      BY <1>3 DEF ExecMakesDirectory, stream
    <2>2. \/ /\ queue' = queue
             /\ ~(source = "local" /\ since[Of[d]] # 0 /\ backend = "inotify" /\ way = "created")
          \/ /\ Len(queue') = Len(queue) + 1 /\ queue'[Len(queue) + 1] = d
             /\ \A i \in 1..Len(queue) : queue'[i] = queue[i]
      BY <1>1, <2>1, NotifyKeeps DEF NotifyDirectory
    <2>3. \A p : InStore(p) => InStore(p)'
      BY <1>1, <2>2 DEF InStore
    <2>4. source = "local" /\ since[Of[d]] # 0 /\ backend = "inotify" /\ way = "created"
              => InStore(d)'
      BY <1>1, <2>2 DEF InStore
    <2>5. \A e \in Dir : e # d => made'[e] = made[e]
      BY <1>1, <2>1
    <2>6. mon = "watching" /\ source = "local" /\ backend \in Notifying =>
              \A e \in Dir \ moved' : After(e, made'[e]) => InStore(e)' \/ since[e] # 0
      <3> SUFFICES ASSUME mon = "watching", source = "local", backend \in Notifying,
                          NEW e \in Dir \ moved', After(e, made'[e])
                   PROVE  InStore(e)' \/ since[e] # 0
        OBVIOUS
      <3>1. CASE e = d
        BY <2>1, <2>4, <3>1 DEF Noticing, Watches, After
      <3>2. CASE e # d
        BY <2>1, <2>3, <2>5, <3>2 DEF Noticing, NothingUnnoticed
      <3> QED BY <3>1, <3>2
    <2> QED BY <2>1, <2>3, <2>6 DEF Noticing, Watches, NothingUnnoticed, After
  <1> QED BY <1>2, <1>3 DEF WritingStep

\* Reading the first event takes nothing else from the store.
LEMMA TailKeeps ==
    ASSUME NEW q \in Seq(Path), q # <<>>
    PROVE  /\ Tail(q) \in Seq(Path)
           /\ \A p : p # Head(q) /\ (\E i \in 1..Len(q) : q[i] = p)
                        => \E i \in 1..Len(Tail(q)) : Tail(q)[i] = p
  <1>1. /\ Len(q) \in Nat /\ Len(q) > 0 /\ Head(q) = q[1] /\ Tail(q) \in Seq(Path)
        /\ Len(Tail(q)) = Len(q) - 1
        /\ \A i \in 1..Len(Tail(q)) : Tail(q)[i] = q[i + 1]
    BY HeadTailProperties, LenProperties, EmptySeq
  <1>2. ASSUME NEW p, p # Head(q), NEW i \in 1..Len(q), q[i] = p
        PROVE  \E j \in 1..Len(Tail(q)) : Tail(q)[j] = p
    <2>1. i - 1 \in 1..Len(Tail(q)) /\ (i - 1) + 1 = i
      BY <1>1, <1>2
    <2> QED BY <1>1, <1>2, <2>1
  <1> QED BY <1>1, <1>2

\* The effect of judging an event that leaves the monitor watching on the store.
LEMMA JudgeNoticing ==
    ASSUME IInv, Noticing, NEW f \in Path, NEW q \in Seq(Path), Judge(f, q),
           UNCHANGED <<source, backend, since, made, moved>>, mon = "watching",
           \A p : p \notin Authorized /\ p # f /\ InStore(p) => \E i \in 1..Len(q) : q[i] = p
    PROVE  Noticing'
  <1>1. CASE f \notin Authorized
    BY <1>1 DEF Judge, Noticing, Watches, NothingUnnoticed
  <1>2. CASE f \in Authorized
    <2>1. disk \in [File -> 0..clock] /\ f \in File /\ Dir \cap Authorized = {}
      BY <1>2, FileAssumption, DirectoryAssumption DEF IInv, TypeOK
    <2>2. CASE Log \notin File
      <3>1. queue' = q /\ UNCHANGED disk
        BY <2>2 DEF Judge
      <3>2. \A p : p \notin Authorized /\ InStore(p) => InStore(p)'
        BY <1>2, <3>1 DEF InStore
      <3> QED BY <2>1, <3>1, <3>2 DEF Noticing, Watches, NothingUnnoticed, After
    <2>3. CASE Log \in File
      <3>1. /\ disk' = [disk EXCEPT ![Log] = clock + 1]
            /\ queue' = Notify(q, Log)
        BY <2>3 DEF Judge
      <3>2. \/ queue' = q /\ ~(source = "local" /\ backend \in Notifying /\ since[Of[Log]] # 0)
            \/ /\ Len(queue') = Len(q) + 1 /\ queue'[Len(q) + 1] = Log /\ Len(q) \in Nat
               /\ \A i \in 1..Len(q) : queue'[i] = q[i]
        BY <2>3, <3>1, NotifyKeeps DEF Notify, Path
      <3>3. \A p : p \notin Authorized /\ InStore(p) => InStore(p)'
        BY <1>2, <3>2 DEF InStore
      <3>4. source = "local" /\ backend \in Notifying /\ since[Of[Log]] # 0 => InStore(Log)'
        BY <3>2 DEF InStore
      <3>5. \A g \in File : g # Log => disk'[g] = disk[g]
        BY <2>1, <3>1
      <3> QED BY <2>1, <3>3, <3>4, <3>5 DEF Noticing, Watches, NothingUnnoticed, After
    <2> QED BY <2>2, <2>3
  <1> QED BY <1>1, <1>2

LEMMA JudgingNoticing ==
    ASSUME IInv, Noticing, JudgingStep
    PROVE  Noticing'
  <1>1. /\ mon = "watching" /\ UNCHANGED <<source, backend, since, made, moved>>
        /\ queue \in Seq(Path) /\ File \subseteq Path
    BY JudgingEffect DEF IInv, TypeOK, Path
  <1>2. CASE Deliver
    <2>1. queue # <<>> /\ Judge(Head(queue), Tail(queue))
      BY <1>2 DEF Deliver, Reading
    <2>2. Head(queue) \in Path /\ Tail(queue) \in Seq(Path)
      BY <1>1, <2>1, HeadTailProperties
    <2>3. \A p : p # Head(queue) /\ InStore(p) =>
              \E i \in 1..Len(Tail(queue)) : Tail(queue)[i] = p
      BY <1>1, <2>1, TailKeeps DEF InStore
    <2> QED BY <1>1, <2>1, <2>2, <2>3, JudgeNoticing
  <1>3. CASE ~Deliver
    <2>1. PICK f \in File : Judge(f, queue)
      BY <1>3 DEF JudgingStep, Look, RemoteEvent
    <2> QED BY <1>1, <2>1, JudgeNoticing DEF InStore
  <1> QED BY <1>2, <1>3

LEMMA WatchNoticing ==
    ASSUME IInv, Noticing, WatchDirectory
    PROVE  Noticing'
  <1>1. /\ queue \in Seq(Path) /\ queue # <<>> /\ queue' = Tail(queue)
        /\ Head(queue) \in Dir /\ Head(queue) \notin File
        /\ since' = [since EXCEPT ![Head(queue)] = clock]
        /\ UNCHANGED <<mon, source, backend, disk, made, moved>>
    <2>1. queue \in Seq(Path)
      BY DEF IInv, TypeOK
    <2>2. Head(queue) \in Dir => Head(queue) \notin File
      BY DirectoryAssumption
    <2> QED BY <2>1, <2>2 DEF WatchDirectory, Reading, workspace
  <1>2. /\ disk \in [File -> 0..clock] /\ made \in [Dir -> 0..clock] /\ clock \in Nat \ {0}
        /\ since \in [Dir \cup {Root} -> 0..clock]
    BY DEF IInv, TypeOK
  <1>3. \A p : p # Head(queue) /\ InStore(p) => InStore(p)'
    BY <1>1, TailKeeps DEF InStore
  <1>4. \A d \in Dir \cup {Root} :
            since'[d] = (IF d = Head(queue) THEN clock ELSE since[d])
    BY <1>1, <1>2
  <1>5. ASSUME NEW p \in Path, NEW time \in 0..clock, After(p, time)'
        PROVE  After(p, time)
    <2>1. Of[p] \in Dir \cup {Root}
      BY DirectoryAssumption DEF Path
    <2>2. Of[p] # Head(queue)
      BY <1>2, <1>4, <1>5, <2>1 DEF After
    <2> QED BY <1>4, <1>5, <2>1, <2>2 DEF After
  <1>6. Watches'
    BY <1>1, <1>2, <1>4 DEF Noticing, Watches
  <1>7. NothingUnnoticed'
    <2> SUFFICES ASSUME mon = "watching", source = "local", backend \in Notifying
                 PROVE  /\ \A f \in File \ Authorized : After(f, disk[f])' => InStore(f)'
                        /\ \A d \in Dir \ moved : After(d, made[d])'
                                                  => InStore(d)' \/ since'[d] # 0
      BY <1>1 DEF NothingUnnoticed
    <2>1. ASSUME NEW f \in File \ Authorized, After(f, disk[f])'
          PROVE  InStore(f)'
      <3>1. After(f, disk[f])
        BY <1>1, <1>2, <1>5, <2>1 DEF Path
      <3> QED BY <1>1, <1>3, <3>1 DEF Noticing, NothingUnnoticed
    <2>2. ASSUME NEW d \in Dir \ moved, After(d, made[d])', d # Head(queue)
          PROVE  InStore(d)' \/ since'[d] # 0
      <3>1. After(d, made[d])
        BY <1>1, <1>2, <1>5, <2>2 DEF Path
      <3> QED BY <1>3, <1>4, <2>2, <3>1 DEF Noticing, NothingUnnoticed
    <2>3. since'[Head(queue)] # 0
      BY <1>1, <1>2, <1>4
    <2> QED BY <2>1, <2>2, <2>3
  <1> QED BY <1>6, <1>7 DEF Noticing

\* No event backend loses an unauthorized write in a directory it watches, nor a
\* directory that was made in one.
THEOREM NothingUnnoticedTheorem == Spec => []NothingUnnoticed
  <1>1. Init => Noticing
    BY DEF Init, Noticing, Watches, NothingUnnoticed
  <1>2. IInv /\ Noticing /\ [Next]_vars => Noticing'
    <2> SUFFICES ASSUME IInv, Noticing, [Next]_vars PROVE Noticing'
      OBVIOUS
    <2>1. CASE UNCHANGED vars
      BY <2>1 DEF vars, stream, workspace, Noticing, Watches, NothingUnnoticed, InStore, After
    <2> QED BY <2>1, NextCases, QuietNoticing, WritingNoticing, JudgingNoticing, WatchNoticing
  <1>3. Noticing => NothingUnnoticed
    BY DEF Noticing
  <1> QED BY <1>1, <1>2, <1>3, Inductive, PTL DEF Spec

-------------------------------------------------------------------------------
(* The turn of an unauthorized change.                                       *)

\* What PendingGetsItsTurn says of a step.
EventTurn ==
    \A i \in 1..Len(queue) : Stops(queue[i]) =>
        \E j \in 1..i : /\ j <= Len(queue') /\ queue'[j] = queue[i]
                        /\ Deliver \/ WatchDirectory => j < i
ScanTurn ==
    source = "local" /\ backend = "polling" =>
        \A f \in File \ Authorized : Changed(f) => Changed(f)' \/ disk'[f] = 0
Turn == mon = "watching" /\ mon' = "watching" => EventTurn /\ ScanTurn

\* A queue that only grows, and a queue whose first event was read.
LEMMA StoredStays ==
    ASSUME NEW q \in Seq(Path), NEW f \in Path,
           queue' = q \/ queue' = Append(q, f)
    PROVE  \A i \in 1..Len(q) : i \in 1..Len(queue') /\ queue'[i] = q[i]
  BY NotifyKeeps

LEMMA GrowingTurn ==
    ASSUME TypeOK, queue' = queue \/ \E f \in Path : queue' = Append(queue, f),
           ~Deliver, ~WatchDirectory
    PROVE  EventTurn
  <1>1. queue \in Seq(Path) /\ Len(queue) \in Nat
    BY LenProperties DEF TypeOK
  <1>2. \A i \in 1..Len(queue) : i \in 1..Len(queue') /\ queue'[i] = queue[i]
    <2>1. CASE queue' = queue
      BY <1>1, <2>1
    <2>2. CASE \E f \in Path : queue' = Append(queue, f)
      BY <1>1, <2>2, StoredStays
    <2> QED BY <2>1, <2>2
  <1>3. ASSUME NEW i \in 1..Len(queue)
        PROVE  i \in 1..i /\ i <= Len(queue') /\ queue'[i] = queue[i]
    BY <1>1, <1>2
  <1> QED BY <1>3 DEF EventTurn

LEMMA ReadingTurn ==
    ASSUME TypeOK, queue # <<>>, NEW f \in Path,
           queue' = Tail(queue) \/ queue' = Append(Tail(queue), f), ~Stops(Head(queue))
    PROVE  EventTurn
  <1>1. queue \in Seq(Path)
    BY DEF TypeOK
  <1>2. /\ Len(queue) \in Nat /\ Len(queue) > 0 /\ Head(queue) = queue[1]
        /\ Tail(queue) \in Seq(Path) /\ Len(Tail(queue)) = Len(queue) - 1
        /\ \A i \in 1..Len(Tail(queue)) : Tail(queue)[i] = queue[i + 1]
    BY <1>1, HeadTailProperties, LenProperties, EmptySeq
  <1>3. \A i \in 1..Len(Tail(queue)) : i \in 1..Len(queue') /\ queue'[i] = Tail(queue)[i]
    BY <1>2, StoredStays
  <1>4. ASSUME NEW i \in 1..Len(queue), Stops(queue[i])
        PROVE  \E j \in 1..i : j <= Len(queue') /\ queue'[j] = queue[i] /\ j < i
    <2>1. i # 1
      BY <1>2, <1>4
    <2>2. /\ i - 1 \in 1..Len(Tail(queue)) /\ (i - 1) + 1 = i
          /\ i - 1 \in 1..i /\ i - 1 < i
      BY <1>2, <2>1
    <2>3. i - 1 \in 1..Len(queue') /\ queue'[i - 1] = queue[i]
      BY <1>2, <1>3, <2>2
    <2>4. i - 1 <= Len(queue')
      BY <2>3
    <2> QED BY <2>2, <2>3, <2>4
  <1> QED BY <1>4 DEF EventTurn

\* A step that records nothing and takes nothing from the queue reads no event.
LEMMA NothingRead ==
    ASSUME TypeOK, UNCHANGED recorded, Len(queue') # Len(queue) - 1
    PROVE  ~Deliver /\ ~WatchDirectory
  <1>1. queue \in Seq(Path)
    BY DEF TypeOK
  <1>2. queue # <<>> => Len(Tail(queue)) = Len(queue) - 1
    BY <1>1, HeadTailProperties
  <1>3. ~WatchDirectory
    BY <1>2 DEF WatchDirectory, Reading
  <1>4. ASSUME Deliver
        PROVE  FALSE
    <2>1. Head(queue) \in Path /\ Tail(queue) \in Seq(Path)
      BY <1>1, <1>4, HeadTailProperties DEF Deliver, Reading
    <2>2. Len(recorded') = Len(recorded) + 1 /\ Len(recorded) \in Nat
      BY <1>4, <2>1, JudgeEffect DEF Deliver
    <2> QED BY <2>2
  <1> QED BY <1>3, <1>4

\* What judging an authorized event adds to the queue, and to the files that are
\* changed for a scan.
LEMMA JudgeTurn ==
    ASSUME TypeOK, NEW f \in Path, NEW q, Judge(f, q)
    PROVE  /\ queue' = q \/ (Log \in Path /\ queue' = Append(q, Log))
           /\ \A g \in File : disk'[g] = disk[g] \/ disk'[g] = clock + 1
  <1>1. disk \in [File -> 0..clock]
    BY DEF TypeOK
  <1>2. queue' = q \/ (Log \in Path /\ queue' = Append(q, Log))
    BY DEF Judge, Notify, Path
  <1>3. \A g \in File : disk'[g] = disk[g] \/ disk'[g] = clock + 1
    BY <1>1 DEF Judge
  <1> QED BY <1>2, <1>3

\* A file whose time differs from the one the last scan took keeps differing.
LEMMA ChangedStays ==
    ASSUME TypeOK, NEW f \in File, Changed(f), seen'[f] = seen[f],
           disk'[f] \in {0, disk[f], clock + 1}
    PROVE  Changed(f)' \/ disk'[f] = 0
  <1>1. seen[f] \in 0..clock /\ disk[f] \in 0..clock /\ clock \in Nat
    BY DEF TypeOK
  <1>2. clock + 1 # seen[f] /\ clock + 1 # 0
    BY <1>1
  <1> QED BY <1>2 DEF Changed

LEMMA TurnTaken ==
    ASSUME IInv, [Next]_vars
    PROVE  Turn
  <1> SUFFICES ASSUME mon = "watching", mon' = "watching"
               PROVE  EventTurn /\ ScanTurn
    BY DEF Turn
  <1>1. TypeOK /\ File \subseteq Path /\ Dir \subseteq Path /\ queue \in Seq(Path)
    BY DEF IInv, TypeOK, Path
  <1>2. CASE QuietStep
    <2>1. UNCHANGED <<clock, disk, queue>>
      BY <1>2, QuietEffect
    <2>2. ~Deliver /\ ~WatchDirectory
      <3>1. UNCHANGED recorded /\ Len(queue) \in Nat
        BY <1>1, <1>2, QuietEffect, LenProperties
      <3> QED BY <1>1, <2>1, <3>1, NothingRead
    <2>3. EventTurn
      BY <1>1, <2>1, <2>2, GrowingTurn
    <2>4. source = "local" => \A f \in File : Changed(f) => seen'[f] = seen[f]
      <3>1. CASE \E f \in File : Look(f) /\ seen[f] = 0
        BY <1>1, <3>1 DEF Look, Changed, TypeOK
      <3>2. CASE RemoteEnds
        BY <3>2 DEF RemoteEnds, Watching
      <3>3. CASE MonStarts
        BY <3>3 DEF MonStarts
      <3>4. CASE ~(RemoteEnds \/ MonStarts \/ \E f \in File : Look(f) /\ seen[f] = 0)
        BY <1>2, <3>4 DEF QuietStep, ExecResumes, ExecLeavesSomehow, ExecLeaves, ExecStops,
           ExecCancelled, MonFails, MonCancelled, CallerStep, StopExecution, PropagateError,
           AwaitExecution, Stopped, Drained, Closed, CancelCaller
      <3> QED BY <3>1, <3>2, <3>3, <3>4
    <2> QED BY <1>1, <2>1, <2>3, <2>4, ChangedStays DEF ScanTurn
  <1>3. CASE WritingStep
    <2>1. /\ \E f \in Path : queue' = queue \/ queue' = Append(queue, f)
          /\ seen' = seen /\ \A f \in File : disk'[f] \in {0, disk[f], clock + 1}
          /\ UNCHANGED recorded /\ Len(queue') # Len(queue) - 1
      <3>1. CASE \E f \in File : \E time \in {0, clock + 1} : ExecWrites(f, time)
        <4>1. PICK f \in File, time \in {0, clock + 1} : ExecWrites(f, time)
          BY <3>1
        <4>2. queue' = queue \/ queue' = Append(queue, f)
          BY <4>1 DEF ExecWrites, Notify
        <4>3. Len(queue') # Len(queue) - 1
          BY <1>1, <4>2, NotifyKeeps
        <4> QED BY <1>1, <4>1, <4>2, <4>3 DEF ExecWrites, TypeOK
      <3>2. CASE \E d \in Dir : \E way \in {"created", "moved"} : ExecMakesDirectory(d, way)
        <4>1. PICK d \in Dir, way \in {"created", "moved"} : ExecMakesDirectory(d, way)
          BY <3>2
        <4>2. queue' = queue \/ queue' = Append(queue, d)
          BY <4>1 DEF ExecMakesDirectory, NotifyDirectory
        <4>3. Len(queue') # Len(queue) - 1
          BY <1>1, <4>2, NotifyKeeps
        <4> QED BY <1>1, <4>1, <4>2, <4>3 DEF ExecMakesDirectory
      <3> QED BY <1>3, <3>1, <3>2 DEF WritingStep
    <2>2. ~Deliver /\ ~WatchDirectory
      BY <1>1, <2>1, NothingRead
    <2> QED BY <1>1, <2>1, <2>2, GrowingTurn, ChangedStays DEF ScanTurn
  <1>4. CASE Deliver
    <2>1. /\ queue # <<>> /\ Judge(Head(queue), Tail(queue)) /\ backend # "polling"
          /\ Head(queue) \in Path
      BY <1>1, <1>4, HeadTailProperties DEF Deliver, Reading, Notifying
    <2>2. ~Stops(Head(queue))
      BY <2>1 DEF Judge, Stops
    <2>3. queue' = Tail(queue) \/ (Log \in Path /\ queue' = Append(Tail(queue), Log))
      BY <1>1, <2>1, JudgeTurn
    <2> QED BY <1>1, <2>1, <2>2, <2>3, ReadingTurn DEF ScanTurn
  <1>5. CASE JudgingStep /\ ~Deliver
    <2>1. PICK f \in File : Judge(f, queue) /\ (Look(f) \/ RemoteEvent(f))
      BY <1>5 DEF JudgingStep, Look, RemoteEvent
    <2>2. f \in Authorized
      BY <2>1 DEF Judge
    <2>3. /\ queue' = queue \/ (Log \in Path /\ queue' = Append(queue, Log))
          /\ \A g \in File : disk'[g] = disk[g] \/ disk'[g] = clock + 1
      BY <1>1, <2>1, JudgeTurn
    <2>4. ~WatchDirectory
      <3>1. Len(recorded') = Len(recorded) + 1 /\ Len(recorded) \in Nat
        BY <1>1, <2>1, JudgeEffect
      <3> QED BY <3>1 DEF WatchDirectory
    <2>5. EventTurn
      BY <1>1, <1>5, <2>3, <2>4, GrowingTurn
    <2>6. \A g \in File \ Authorized : seen'[g] = seen[g]
      BY <1>1, <2>1, <2>2 DEF Look, RemoteEvent, TypeOK
    <2> QED BY <1>1, <2>3, <2>5, <2>6, ChangedStays DEF ScanTurn
  <1>6. CASE WatchDirectory
    <2>1. queue # <<>> /\ queue' = Tail(queue) /\ ~Stops(Head(queue)) /\ backend # "polling"
      BY <1>6 DEF WatchDirectory, Reading, Stops
    <2> QED BY <1>1, <2>1, ReadingTurn DEF ScanTurn
  <1>7. CASE UNCHANGED vars
    <2>1. UNCHANGED <<queue, seen, disk, recorded>>
      BY <1>7 DEF vars, workspace
    <2>2. ~Deliver /\ ~WatchDirectory
      <3>1. Len(queue) \in Nat
        BY <1>1, LenProperties
      <3> QED BY <1>1, <2>1, <3>1, NothingRead
    <2>3. EventTurn
      BY <1>1, <2>1, <2>2, GrowingTurn
    <2> QED BY <1>1, <2>1, <2>3, ChangedStays DEF ScanTurn
  <1> QED BY <1>2, <1>3, <1>4, <1>5, <1>6, <1>7, NextCases

\* No unauthorized change is lost on its way to the monitor: its event is read before
\* all that come after it, and a changed file is still changed when a scan comes to
\* it, for any files, streams and writes.
THEOREM PendingGetsItsTurnTheorem == Spec => PendingGetsItsTurn
  <1>1. IInv /\ [Next]_vars => [Turn]_vars
    BY TurnTaken
  <1> QED BY <1>1, Inductive, PTL DEF Spec, PendingGetsItsTurn, Turn, EventTurn, ScanTurn

===============================================================================
