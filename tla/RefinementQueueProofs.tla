------------------------- MODULE RefinementQueueProofs -------------------------
(*****************************************************************************)
(* The self-evolution loop for any number of tasks, messages and processes:  *)
(* the plan has every reported problem once, reported problems have tickets, *)
(* done means resolved, and a runner that ends well has closed the loop.     *)
(*****************************************************************************)
EXTENDS RefinementQueue, SequenceTheorems, WellFoundedInduction, TLAPS

-------------------------------------------------------------------------------
(* Natural numbers.                                                          *)

\* Every nonempty set of numbers has a least one.
LEMMA LeastNumber ==
    ASSUME NEW S \in SUBSET Nat, S # {}
    PROVE  \E n \in S : \A m \in S : n <= m
  <1>1. PICK n \in S : \A m \in S : ~ (<<m, n>> \in OpToRel(<, Nat))
    BY NatLessThanWellFounded, WFMin
  <1>2. \A m \in S : ~ (m < n)
    BY <1>1 DEF OpToRel
  <1> QED BY <1>2

\* A set of numbers that has 0, and with each number the next, has them all.
LEMMA AllNumbers ==
    ASSUME NEW S \in SUBSET Nat, 0 \in S, \A n \in S : n + 1 \in S
    PROVE  S = Nat
  <1> SUFFICES ASSUME Nat \ S # {} PROVE FALSE
    OBVIOUS
  <1>1. PICK n \in Nat \ S : \A m \in Nat \ S : n <= m
    BY LeastNumber
  <1>2. n # 0 /\ n - 1 \in Nat /\ ~ (n <= n - 1)
    OBVIOUS
  <1>3. n - 1 \in S /\ (n - 1) + 1 = n
    BY <1>1, <1>2
  <1> QED BY <1>3

\* The first of the tickets to run is one of them.
LEMMA FirstIsTicket ==
    ASSUME todo \subseteq Number, todo # {}
    PROVE  First \in todo
  <1>1. Number \subseteq Nat
    BY BoundsAssumption DEF Number
  <1>2. \E n \in todo : \A m \in todo : n =< m
    BY <1>1, LeastNumber
  <1> QED BY <1>2 DEF First, Min

-------------------------------------------------------------------------------
(* The plan.                                                                 *)

\* What a plan is at any time: issues, none of them twice.
Planned(tasks) == tasks \in Seq(Issue) /\ IsInjective(tasks)

LEMMA ProblemsFound ==
    ASSUME NEW s \in Summary \cup {None}
    PROVE  /\ Problems(s) \in Seq(Message \cup {Recover})
           /\ Len(Problems(s)) \in 0..2
           /\ \A x : x \in ToSet(Problems(s)) <=> Reports(s, x)
  <1>1. CASE s = None
    <2>1. Problems(s) = <<>> /\ ToSet(Problems(s)) = {} /\ \A x : ~Reports(s, x)
      BY <1>1 DEF Problems, ToSet, Reports
    <2> QED BY <2>1
  <1>2. CASE s \in Summary
    <2>1. s # None
      BY <1>2, NoneAssumption
    <2>2. /\ s.diagnostics \in [1..Len(s.diagnostics) -> Message]
          /\ Len(s.diagnostics) \in 0..2
          /\ s.diagnostics \in Seq(Message)
      <3>1. \E m \in 0..2 : s.diagnostics \in [1..m -> Message]
        BY <1>2 DEF Summary, BoundedSeq, SeqOf
      <3>2. PICK m \in 0..2 : s.diagnostics \in [1..m -> Message]
        BY <3>1
      <3>3. s.diagnostics \in Seq(Message) /\ Len(s.diagnostics) = m
        BY <3>2
      <3> QED BY <3>2, <3>3
    <2>3. s.status \in {"failed", "success"}
      BY <1>2 DEF Summary
    <2>4. CASE s.diagnostics # <<>>
      BY <2>1, <2>2, <2>4 DEF Problems, ToSet, Reports
    <2>5. CASE s.diagnostics = <<>>
      <3>1. ToSet(s.diagnostics) = {} /\ ToSet(<<Recover>>) = {Recover}
        BY <2>5 DEF ToSet
      <3>2. CASE s.status = "success"
        BY <2>1, <2>5, <3>1, <3>2 DEF Problems, Reports
      <3>3. CASE s.status = "failed"
        BY <2>1, <2>5, <3>1, <3>3 DEF Problems, Reports
      <3> QED BY <2>3, <3>2, <3>3
    <2> QED BY <2>4, <2>5
  <1> QED BY <1>1, <1>2

\* Adding an issue keeps a plan one, and adds this issue only.
LEMMA IssueAdded ==
    ASSUME NEW tasks, Planned(tasks), NEW issue \in Issue
    PROVE  /\ Planned(Add(issue, tasks))
           /\ ToSet(Add(issue, tasks)) = ToSet(tasks) \cup {issue}
           /\ Len(Add(issue, tasks)) \in {Len(tasks), Len(tasks) + 1}
  <1>1. tasks \in Seq(Issue) /\ Len(tasks) \in Nat /\ DOMAIN tasks = 1..Len(tasks)
    BY DEF Planned
  <1>2. CASE Known(issue, tasks)
    BY <1>1, <1>2 DEF Add, Known, ToSet
  <1>3. CASE ~Known(issue, tasks)
    <2>1. /\ Add(issue, tasks) = Append(tasks, issue)
          /\ Append(tasks, issue) \in Seq(Issue)
          /\ Len(Append(tasks, issue)) = Len(tasks) + 1
          /\ DOMAIN Append(tasks, issue) = 1..Len(tasks) + 1
          /\ \A i \in 1..Len(tasks) : Append(tasks, issue)[i] = tasks[i]
          /\ Append(tasks, issue)[Len(tasks) + 1] = issue
      BY <1>1, <1>3 DEF Add
    <2>2. IsInjective(Append(tasks, issue))
      BY <1>1, <1>3, <2>1 DEF Planned, IsInjective, Known
    <2>3. ToSet(Append(tasks, issue)) = ToSet(tasks) \cup {issue}
      BY <1>1, <2>1 DEF ToSet
    <2> QED BY <2>1, <2>2, <2>3 DEF Planned
  <1> QED BY <1>2, <1>3

LEMMA ProblemsAdded ==
    ASSUME NEW tasks, Planned(tasks), NEW t \in Task,
           NEW problems \in Seq(Message \cup {Recover}), Len(problems) \in 0..2
    PROVE  LET all == AddProblems(tasks, t, problems)
           IN  /\ Planned(all)
               /\ ToSet(all) = ToSet(tasks) \cup
                     {[source |-> t, problem |-> x] : x \in ToSet(problems)}
               /\ Len(all) \in Nat /\ Len(all) <= Len(tasks) + 2
  <1> DEFINE Issued(i) == [source |-> t, problem |-> problems[i]]
  <1>1. \A i \in 1..Len(problems) : Issued(i) \in Issue
    BY DEF Issue
  <1>2. Len(tasks) \in Nat
    BY DEF Planned
  <1>3. ToSet(problems) = {problems[i] : i \in 1..Len(problems)}
    BY DEF ToSet
  <1>4. CASE Len(problems) = 0
    <2>1. problems = <<>> /\ ToSet(problems) = {}
      BY <1>3, <1>4
    <2> QED BY <1>2, <2>1 DEF AddProblems
  <1>5. CASE Len(problems) = 1
    <2>1. AddProblems(tasks, t, problems) = Add(Issued(1), tasks)
      <3>1. problems # <<>>
        BY <1>5
      <3> QED BY <1>5, <3>1 DEF AddProblems
    <2>2. ToSet(problems) = {problems[1]}
      BY <1>3, <1>5
    <2> QED BY <1>1, <1>2, <1>5, <2>1, <2>2, IssueAdded
  <1>6. CASE Len(problems) = 2
    <2>1. AddProblems(tasks, t, problems) = Add(Issued(2), Add(Issued(1), tasks))
      <3>1. problems # <<>> /\ Len(problems) # 1
        BY <1>6
      <3> QED BY <3>1 DEF AddProblems
    <2>2. ToSet(problems) = {problems[1], problems[2]}
      BY <1>3, <1>6
    <2>3. /\ Planned(Add(Issued(1), tasks))
          /\ ToSet(Add(Issued(1), tasks)) = ToSet(tasks) \cup {Issued(1)}
          /\ Len(Add(Issued(1), tasks)) \in {Len(tasks), Len(tasks) + 1}
      BY <1>1, <1>6, IssueAdded
    <2>4. /\ Planned(Add(Issued(2), Add(Issued(1), tasks)))
          /\ ToSet(Add(Issued(2), Add(Issued(1), tasks)))
               = ToSet(Add(Issued(1), tasks)) \cup {Issued(2)}
          /\ Len(Add(Issued(2), Add(Issued(1), tasks)))
               \in {Len(Add(Issued(1), tasks)), Len(Add(Issued(1), tasks)) + 1}
      BY <1>1, <1>6, <2>3, IssueAdded
    <2>5. ToSet(tasks) \cup {Issued(1)} \cup {Issued(2)} =
             ToSet(tasks) \cup {[source |-> t, problem |-> x] : x \in ToSet(problems)}
      BY <2>2
    <2>6. Len(AddProblems(tasks, t, problems)) \in Nat
          /\ Len(AddProblems(tasks, t, problems)) <= Len(tasks) + 2
      BY <1>2, <2>1, <2>3, <2>4
    <2> QED BY <2>1, <2>3, <2>4, <2>5, <2>6
  <1> QED BY <1>4, <1>5, <1>6

\* f follows the planner through the summaries s of the first n tasks.
Follows(f, s, n) ==
    f = [t \in 0..n |-> IF t = 0 THEN <<>> ELSE AddProblems(f[t - 1], t, Problems(s[t]))]

\* The planner's loop is well defined.
LEMMA LoopDefined ==
    ASSUME NEW s, NEW n \in Nat
    PROVE  \E f : Follows(f, s, n)
  <1> DEFINE S == {k \in Nat : \E f : Follows(f, s, k)}
  <1>1. 0 \in S
    <2> DEFINE f == [t \in 0..0 |-> <<>>]
    <2>1. f = [t \in 0..0 |-> IF t = 0 THEN <<>>
                               ELSE AddProblems(f[t - 1], t, Problems(s[t]))]
      OBVIOUS
    <2>2. Follows(f, s, 0)
      BY <2>1 DEF Follows
    <2> HIDE DEF f
    <2> QED BY <2>2
  <1>2. ASSUME NEW k \in S
        PROVE  k + 1 \in S
    <2>1. PICK f : Follows(f, s, k)
      OBVIOUS
    <2> DEFINE last == AddProblems(f[k], k + 1, Problems(s[k + 1]))
               g == [t \in 0..k + 1 |-> IF t = k + 1 THEN last ELSE f[t]]
    <2>2. k \in Nat
      OBVIOUS
    <2>3. ASSUME NEW t \in 0..k + 1
          PROVE  g[t] = IF t = 0 THEN <<>> ELSE AddProblems(g[t - 1], t, Problems(s[t]))
      <3>1. CASE t = k + 1
        <4>1. t # 0 /\ t - 1 = k /\ k \in 0..k + 1 /\ k # k + 1
          BY <2>2, <3>1
        <4> QED BY <3>1, <4>1
      <3>2. CASE t # k + 1
        <4>1. t \in 0..k /\ (t # 0 => t - 1 \in 0..k + 1 /\ t - 1 # k + 1)
          BY <2>2, <3>2
        <4>2. f[t] = IF t = 0 THEN <<>> ELSE AddProblems(f[t - 1], t, Problems(s[t]))
          BY <2>1, <4>1 DEF Follows
        <4> QED BY <3>2, <4>1, <4>2
      <3> QED BY <3>1, <3>2
    <2> HIDE DEF last
    <2>4. g = [t \in 0..k + 1 |-> IF t = 0 THEN <<>>
                                   ELSE AddProblems(g[t - 1], t, Problems(s[t]))]
      <3>1. g = [t \in 0..k + 1 |-> g[t]]
        OBVIOUS
      <3> QED BY <2>3, <3>1
    <2>5. Follows(g, s, k + 1)
      BY <2>4 DEF Follows
    <2> QED BY <2>2, <2>5
  <1>3. S = Nat
    <2> HIDE DEF S
    <2>1. S \subseteq Nat
      BY DEF S
    <2> QED BY <1>1, <1>2, <2>1, AllNumbers
  <1> QED BY <1>3

\* What is reported of the first n tasks.
ReportedUpTo(s, n) ==
    {issue \in Issue : issue.source <= n /\ Reports(s[issue.source], issue.problem)}

\* The planner's loop plans what is reported, each issue once.
LEMMA LoopPlans ==
    ASSUME NEW s \in [Task -> Summary \cup {None}], NEW f, Follows(f, s, NumTasks),
           NEW n \in 0..NumTasks
    PROVE  /\ Planned(f[n])
           /\ ToSet(f[n]) = ReportedUpTo(s, n)
           /\ Len(f[n]) <= 2 * n
  <1> DEFINE Holds(k) == /\ Planned(f[k])
                        /\ ToSet(f[k]) = ReportedUpTo(s, k)
                        /\ Len(f[k]) <= 2 * k
             S == {k \in Nat : k \in 0..NumTasks => Holds(k)}
  <1>1. 0 \in S
    <2>1. NumTasks \in Nat
      BY BoundsAssumption
    <2>2. f[0] = <<>>
      BY <2>1 DEF Follows
    <2>3. ReportedUpTo(s, 0) = {}
      BY <2>1 DEF ReportedUpTo, Issue, Task
    <2>4. Planned(<<>>) /\ ToSet(<<>>) = {} /\ Len(<<>>) <= 2 * 0
      BY DEF Planned, IsInjective, ToSet
    <2> QED BY <2>2, <2>3, <2>4
  <1>2. ASSUME NEW k \in S
        PROVE  k + 1 \in S
    <2> SUFFICES ASSUME k + 1 \in 0..NumTasks PROVE Holds(k + 1)
      OBVIOUS
    <2>1. NumTasks \in Nat /\ k \in Nat
      BY BoundsAssumption
    <2>2. k \in 0..NumTasks /\ k + 1 \in Task /\ k + 1 # 0 /\ (k + 1) - 1 = k
      BY <2>1 DEF Task
    <2>3. Holds(k)
      BY <2>2
    <2>4. f[k + 1] = AddProblems(f[k], k + 1, Problems(s[k + 1]))
      BY <2>2 DEF Follows
    <2>5. s[k + 1] \in Summary \cup {None}
      BY <2>2
    <2>6. /\ Planned(f[k + 1])
          /\ ToSet(f[k + 1]) = ToSet(f[k]) \cup
                {[source |-> k + 1, problem |-> x] : x \in ToSet(Problems(s[k + 1]))}
          /\ Len(f[k + 1]) \in Nat /\ Len(f[k + 1]) <= Len(f[k]) + 2
      BY <2>2, <2>3, <2>4, <2>5, ProblemsFound, ProblemsAdded
    <2>7. Len(f[k + 1]) <= 2 * (k + 1)
      <3>1. Len(f[k]) \in Nat
        BY <2>3 DEF Planned
      <3> QED BY <2>1, <2>3, <2>6, <3>1
    <2>8. ReportedUpTo(s, k + 1) = ReportedUpTo(s, k) \cup
                {[source |-> k + 1, problem |-> x] : x \in ToSet(Problems(s[k + 1]))}
      <3> DEFINE New == {[source |-> k + 1, problem |-> x] : x \in ToSet(Problems(s[k + 1]))}
      <3>1. ASSUME NEW x \in ToSet(Problems(s[k + 1]))
            PROVE  [source |-> k + 1, problem |-> x] \in ReportedUpTo(s, k + 1)
        <4>1. x \in Message \cup {Recover} /\ Reports(s[k + 1], x)
          BY <2>5, ProblemsFound DEF ToSet
        <4> QED BY <2>1, <2>2, <4>1 DEF ReportedUpTo, Issue
      <3>2. ReportedUpTo(s, k) \subseteq ReportedUpTo(s, k + 1)
        BY <2>1 DEF ReportedUpTo, Issue, Task
      <3>3. ASSUME NEW issue \in ReportedUpTo(s, k + 1), issue \notin ReportedUpTo(s, k)
            PROVE  issue \in New
        <4>1. issue \in Issue /\ issue.source = k + 1 /\ Reports(s[k + 1], issue.problem)
          BY <2>1, <3>3 DEF ReportedUpTo, Issue, Task
        <4>2. issue = [source |-> k + 1, problem |-> issue.problem]
          BY <4>1 DEF Issue
        <4>3. issue.problem \in ToSet(Problems(s[k + 1]))
          BY <2>5, <4>1, ProblemsFound
        <4> QED BY <4>2, <4>3
      <3> QED BY <3>1, <3>2, <3>3
    <2> QED BY <2>3, <2>6, <2>7, <2>8
  <1>3. S = Nat
    <2> HIDE DEF S
    <2>1. S \subseteq Nat
      BY DEF S
    <2> QED BY <1>1, <1>2, <2>1, AllNumbers
  <1>4. n \in Nat
    BY BoundsAssumption
  <1> QED BY <1>3, <1>4

\* The plan has every reported problem, and each once.
LEMMA PlanFacts ==
    ASSUME summary \in [Task -> Summary \cup {None}]
    PROVE  /\ Plan \in Seq(Issue) /\ IsInjective(Plan)
           /\ ToSet(Plan) = Reported
           /\ Len(Plan) \in {0} \cup Number
  <1>1. NumTasks \in Nat
    BY BoundsAssumption
  <1> DEFINE f == CHOOSE g : Follows(g, summary, NumTasks)
  <1>2. Plan = f[NumTasks]
    BY DEF Plan, PlanOf, Follows
  <1>3. Follows(f, summary, NumTasks)
    BY <1>1, LoopDefined
  <1>4. /\ Planned(f[NumTasks])
        /\ ToSet(f[NumTasks]) = ReportedUpTo(summary, NumTasks)
        /\ Len(f[NumTasks]) <= 2 * NumTasks
    <2> HIDE DEF f
    <2> QED BY <1>1, <1>3, LoopPlans
  <1>5. ReportedUpTo(summary, NumTasks) = Reported
    BY <1>1 DEF ReportedUpTo, Reported, Issue, Task
  <1>6. Len(f[NumTasks]) \in {0} \cup Number
    <2> HIDE DEF f
    <2>1. Len(f[NumTasks]) \in Nat
      BY <1>4 DEF Planned
    <2> QED BY <1>1, <1>4, <2>1 DEF Number
  <1> HIDE DEF f
  <1> QED BY <1>2, <1>4, <1>5, <1>6 DEF Planned

-------------------------------------------------------------------------------
(* Types.                                                                    *)

\* A process that emits has a ticket to write, or the manifest.
NextInPlan == \A p \in Process : next[p] <= Len(plan[p]) + 1

Types == TypeOK /\ NextInPlan

LEMMA ReportedAreIssues == Reported \in SUBSET Issue
  BY DEF Reported

LEMMA EmitTypes ==
    ASSUME Types, NEW p \in Process, Emit(p)
    PROVE  EmissionTypes' /\ NextInPlan' /\ Listed \subseteq Listed'
  <1>0. NumTasks \in Nat
    BY BoundsAssumption
  <1> USE DEF Types, TypeOK, EmissionTypes, NextInPlan
  <1>1. CASE RunPipeline(p) \/ GenerateTasks(p)
    <2>1. /\ process' = [process EXCEPT ![p] = "planning"] /\ emissions' = emissions + 1
          /\ UNCHANGED <<plan, next, generated, manifest, alone, torn>>
      BY <1>1 DEF RunPipeline, GenerateTasks, StartsEmission
    <2>2. summary' \in [Task -> Summary \cup {None}]
      BY <1>1 DEF RunPipeline, GenerateTasks
    <2>3. process' \in [Process -> {"idle", "planning", "emitting"}]
      BY <2>1
    <2>4. Listed' = Listed
      BY <2>1 DEF Listed
    <2> QED BY <2>1, <2>2, <2>3, <2>4
  <1>2. CASE ReadSummaries(p)
    <2>1. Plan \in Seq(Issue) /\ Len(Plan) \in {0} \cup Number /\ Len(Plan) \in Nat
      BY PlanFacts
    <2> QED BY <1>0, <1>2, <2>1 DEF ReadSummaries, Listed
  <1>3. CASE WriteTicket(p)
    <2>1. /\ next[p] \in 1..Len(plan[p]) /\ Len(plan[p]) \in Number
          /\ Len(plan[p]) \in Nat /\ plan[p] \in Seq(Issue)
      BY <1>0, <1>3 DEF WriteTicket, Number
    <2>2. next[p] \in Number /\ plan[p][next[p]] \in Issue /\ plan[p][next[p]] # None
      BY <1>0, <2>1, NoneAssumption DEF Number
    <2>3. next' \in [Process -> 1..2 * NumTasks + 1]
      BY <1>0, <1>3, <2>1 DEF WriteTicket, Number
    <2>4. generated' \in [Number -> Issue \cup {None}]
      BY <1>3, <2>2 DEF WriteTicket
    <2>5. \A q \in Process : next'[q] <= Len(plan'[q]) + 1
      BY <1>3, <2>1 DEF WriteTicket
    <2>6. Listed \subseteq Listed'
      BY <1>3, <2>2 DEF WriteTicket, Listed
    <2> QED BY <1>3, <2>3, <2>4, <2>5, <2>6 DEF WriteTicket
  <1>4. CASE WriteManifest(p)
    BY <1>0, <1>4 DEF WriteManifest, Listed
  <1>5. CASE Die(p)
    BY <1>0, <1>5 DEF Die, Listed
  <1> QED BY <1>1, <1>2, <1>3, <1>4, <1>5 DEF Emit

LEMMA TypesInductive ==
    ASSUME Types, [Next]_vars
    PROVE  Types'
  <1> USE DEF Types
  <1>1. CASE UNCHANGED vars
    BY <1>1 DEF vars, emitting, copies, running, TypeOK, EmissionTypes, PromotionTypes,
                RunnerTypes, NextInPlan, Listed
  <1>2. ASSUME NEW p \in Process, Emit(p)
        PROVE  Types'
    <2>1. EmissionTypes' /\ NextInPlan' /\ Listed \subseteq Listed'
      BY <1>2, EmitTypes
    <2>2. /\ UNCHANGED <<copying, promoted, promotions, running>>
          /\ promise' \in {promise, None}
      BY <1>2 DEF Emit, RunPipeline, GenerateTasks, StartsEmission, ReadSummaries, WriteTicket,
                  WriteManifest, Die, copies
    <2>3. PromotionTypes'
      BY <2>1, <2>2 DEF TypeOK, PromotionTypes
    <2>4. RunnerTypes'
      BY <2>2 DEF TypeOK, RunnerTypes, running
    <2> QED BY <2>1, <2>3, <2>4 DEF TypeOK
  <1>3. CASE Promote
    <2>1. UNCHANGED emitting
      BY <1>3 DEF Promote, PromoteStarts, CopyTicket, PromoteEnds, PromoteDies
    <2>2. EmissionTypes' /\ NextInPlan' /\ Listed' = Listed
      BY <2>1 DEF emitting, TypeOK, EmissionTypes, NextInPlan, Listed
    <2> USE DEF TypeOK, PromotionTypes, RunnerTypes
    <2>3. CASE PromoteStarts
      <3>1. Listed \subseteq Number
        BY DEF Listed
      <3> QED BY <2>2, <2>3, <3>1, ReportedAreIssues DEF PromoteStarts
    <2>4. ASSUME NEW i \in Number, CopyTicket(i)
          PROVE  Types'
      <3>1. copying \in SUBSET Listed /\ generated[i] \in Issue
        BY <2>4 DEF CopyTicket, Listed, EmissionTypes
      <3>2. [issue |-> generated[i], done |-> FALSE] \in Ticket
        BY <3>1 DEF Ticket
      <3> QED BY <2>2, <2>4, <3>1, <3>2 DEF CopyTicket, running
    <2>5. CASE PromoteEnds \/ PromoteDies
      BY <2>2, <2>5 DEF PromoteEnds, PromoteDies, running
    <2> QED BY <1>3, <2>3, <2>4, <2>5 DEF Promote
  <1>4. CASE Run
    <2>1. UNCHANGED <<emitting, copies, promise>>
      BY <1>4 DEF Run, RunnerStarts, CommandStarts, CommandEnds, MarkDone, RunnerDies, RunnerEnds
    <2>2. EmissionTypes' /\ NextInPlan' /\ Listed' = Listed
      BY <2>1 DEF emitting, TypeOK, EmissionTypes, NextInPlan, Listed
    <2> USE DEF TypeOK, PromotionTypes, RunnerTypes
    <2>3. CASE RunnerStarts
      <3>1. Open \subseteq Number
        BY DEF Open, Found
      <3> QED BY <2>1, <2>2, <2>3, <3>1 DEF RunnerStarts, copies
    <2>4. CASE CommandStarts
      <3>1. First \in Number /\ promoted[First] \in Ticket \cup {None}
        BY <2>4, FirstIsTicket DEF CommandStarts
      <3>2. subject' \in Issue \cup {None}
        BY <2>4, <3>1 DEF CommandStarts, Ticket
      <3> QED BY <2>1, <2>2, <2>4, <3>2 DEF CommandStarts, copies
    <2>5. ASSUME NEW code \in {0, 1}, CommandEnds(code)
          PROVE  Types'
      BY <2>1, <2>2, <2>5 DEF CommandEnds, Stop, copies
    <2>6. CASE MarkDone
      <3>1. First \in Number /\ promoted[First] \in Ticket
        BY <2>6, FirstIsTicket DEF MarkDone
      <3>2. promoted' \in [Number -> Ticket \cup {None}]
        BY <2>6, <3>1 DEF MarkDone, Ticket
      <3> QED BY <2>1, <2>2, <2>6, <3>1, <3>2 DEF MarkDone, copies
    <2>7. CASE RunnerDies \/ RunnerEnds
      BY <2>1, <2>2, <2>7 DEF RunnerDies, RunnerEnds, Stop, copies
    <2> QED BY <1>4, <2>3, <2>4, <2>5, <2>6, <2>7 DEF Run
  <1> QED BY <1>1, <1>2, <1>3, <1>4 DEF Next

LEMMA TypesInitially == Init => Types
  <1>1. NumTasks \in Nat /\ Len(<<>>) = 0
    BY BoundsAssumption
  <1> SUFFICES ASSUME Init PROVE Types
    OBVIOUS
  <1>2. EmissionTypes /\ NextInPlan
    <2>1. <<>> \in Seq(Issue)
      OBVIOUS
    <2>2. 1 \in 1..2 * NumTasks + 1
      BY <1>1
    <2>3. /\ summary \in [Task -> Summary \cup {None}]
          /\ process \in [Process -> {"idle", "planning", "emitting"}]
          /\ generated \in [Number -> Issue \cup {None}]
      BY DEF Init
    <2>4. plan \in [Process -> Seq(Issue)] /\ next \in [Process -> 1..2 * NumTasks + 1]
      BY <2>1, <2>2 DEF Init
    <2>5. \A p \in Process : plan[p] = <<>> /\ next[p] = 1
      BY DEF Init
    <2>6. NextInPlan /\ \A p \in Process : Len(plan[p]) \in {0} \cup Number
      BY <1>1, <2>5 DEF NextInPlan
    <2>7. manifest \in Seq(Issue) /\ Len(manifest) = 0 /\ emissions \in Nat /\ alone \subseteq Process
          /\ torn \in BOOLEAN
      BY <1>1, <2>1 DEF Init
    <2> QED BY <2>3, <2>4, <2>6, <2>7 DEF EmissionTypes
  <1>3. PromotionTypes /\ RunnerTypes
    BY DEF Init, PromotionTypes, RunnerTypes
  <1> QED BY <1>2, <1>3 DEF Types, TypeOK

\* The types hold for any number of tasks, messages and processes; in particular
\* no plan has more tickets than there are numbers.
THEOREM TypeCorrect == Spec => []TypeOK
  <1>1. Types => TypeOK
    BY DEF Types
  <1> QED BY <1>1, TypesInitially, TypesInductive, PTL DEF Spec

-------------------------------------------------------------------------------
(* Reported problems have tickets.                                           *)

Idle(p)  == process[p] = "idle"
Emits(p) == process[p] = "emitting"

\* An undisturbed emission is the only one, and no emission is disturbed as long
\* as the queue is not torn.
LoneEmission ==
    /\ \A p \in alone : Emits(p) /\ \A q \in Process \ {p} : ~Emits(q)
    /\ ~torn => \A p \in Process : Emits(p) => p \in alone

\* What an undisturbed emission has written is the first part of its plan, which
\* is the current one unless a pipeline has run since.
LonePlan == \A p \in alone :
    /\ IsInjective(plan[p])
    /\ \A i \in 1..Len(plan[p]) : i < next[p] => generated[i] = plan[p][i]
    /\ (\A q \in Process \ {p} : Idle(q)) => ToSet(plan[p]) = Reported

\* Between emissions the queue is what the last whole one wrote.
WholeQueue == ~torn /\ (\A p \in Process : ~Emits(p)) =>
    /\ IsInjective(manifest)
    /\ \A i \in 1..Len(manifest) : generated[i] = manifest[i]
    /\ (\A p \in Process : Idle(p)) => ToSet(manifest) = Reported

Ticketed == LoneEmission /\ LonePlan /\ WholeQueue

LEMMA TicketedElsewhere ==
    ASSUME Ticketed, UNCHANGED emitting
    PROVE  Ticketed'
  BY DEF Ticketed, LoneEmission, LonePlan, WholeQueue, Idle, Emits, Reported, emitting

LEMMA StartTicketed ==
    ASSUME Types, Ticketed, NEW p \in Process, StartsEmission(p)
    PROVE  Ticketed'
  <1> USE DEF Types, TypeOK, EmissionTypes
  <1>1. /\ process[p] = "idle" /\ process' = [process EXCEPT ![p] = "planning"]
        /\ UNCHANGED <<plan, next, generated, manifest, alone, torn>>
    BY DEF StartsEmission
  <1>2. /\ \A q \in Process : Emits(q)' <=> Emits(q)
        /\ \A q \in Process : Idle(q)' => Idle(q) /\ q # p
    BY <1>1 DEF Emits, Idle
  <1>3. p \notin alone
    BY <1>1 DEF Ticketed, LoneEmission, Emits
  <1>4. LoneEmission'
    BY <1>1, <1>2 DEF Ticketed, LoneEmission
  <1>5. LonePlan'
    BY <1>1, <1>2, <1>3 DEF Ticketed, LonePlan
  <1>6. WholeQueue'
    BY <1>1, <1>2 DEF Ticketed, WholeQueue
  <1> QED BY <1>4, <1>5, <1>6 DEF Ticketed

LEMMA ReadTicketed ==
    ASSUME Types, Ticketed, NEW p \in Process, ReadSummaries(p)
    PROVE  Ticketed'
  <1> USE DEF Types, TypeOK, EmissionTypes
  <1>1. /\ process[p] = "planning" /\ process' = [process EXCEPT ![p] = "emitting"]
        /\ plan' = [plan EXCEPT ![p] = Plan] /\ next' = [next EXCEPT ![p] = 1]
        /\ UNCHANGED <<summary, generated, manifest>>
    BY DEF ReadSummaries
  <1>2. /\ \A q \in Process \ {p} : (Emits(q)' <=> Emits(q)) /\ (Idle(q)' <=> Idle(q))
        /\ Emits(p)' /\ ~Emits(p)
    BY <1>1 DEF Emits, Idle
  <1>3. /\ alone' = {q \in {p} : \A r \in Process \ {p} : ~Emits(r)}
        /\ torn' = (torn \/ \E r \in Process \ {p} : Emits(r))
    BY DEF ReadSummaries, Emits
  <1>4. LoneEmission'
    BY <1>2, <1>3 DEF LoneEmission
  <1>5. LonePlan'
    <2>1. IsInjective(Plan) /\ ToSet(Plan) = Reported /\ Reported' = Reported
      BY <1>1, PlanFacts DEF Reported
    <2>2. alone' \subseteq {p} /\ plan'[p] = Plan /\ next'[p] = 1
      BY <1>1, <1>3
    <2> QED BY <2>1, <2>2 DEF LonePlan
  <1>6. WholeQueue'
    BY <1>2 DEF WholeQueue
  <1> QED BY <1>4, <1>5, <1>6 DEF Ticketed

LEMMA WriteTicketed ==
    ASSUME Types, Ticketed, NEW p \in Process, WriteTicket(p)
    PROVE  Ticketed'
  <1> USE DEF Types, TypeOK, EmissionTypes
  <1>1. /\ Emits(p) /\ next[p] <= Len(plan[p])
        /\ generated' = [generated EXCEPT ![next[p]] = plan[p][next[p]]]
        /\ next' = [next EXCEPT ![p] = @ + 1]
        /\ UNCHANGED <<summary, process, plan, manifest, alone, torn>>
    BY DEF WriteTicket, Emits
  <1>2. \A q \in Process : (Emits(q)' <=> Emits(q)) /\ (Idle(q)' <=> Idle(q))
    BY <1>1 DEF Emits, Idle
  <1>3. Reported' = Reported
    BY <1>1 DEF Reported
  <1>4. LoneEmission'
    BY <1>1, <1>2 DEF Ticketed, LoneEmission
  <1>5. LonePlan'
    <2>1. alone \subseteq {p}
      BY <1>1 DEF Ticketed, LoneEmission
    <2>2. ASSUME p \in alone, NEW i \in 1..Len(plan[p]), i < next'[p]
          PROVE  generated'[i] = plan[p][i]
      <3>0. NumTasks \in Nat
        BY BoundsAssumption
      <3>1. next[p] \in Nat /\ i \in Nat /\ next'[p] = next[p] + 1 /\ i \in Number
            /\ Len(plan[p]) \in Number
        BY <1>1, <3>0 DEF Number
      <3>2. CASE i = next[p]
        BY <1>1, <3>1, <3>2
      <3>3. CASE i # next[p]
        <4>1. i < next[p]
          BY <2>2, <3>1, <3>3
        <4> QED BY <1>1, <2>2, <3>1, <3>3, <4>1 DEF Ticketed, LonePlan
      <3> QED BY <3>2, <3>3
    <2> QED BY <1>1, <1>2, <1>3, <2>1, <2>2 DEF Ticketed, LonePlan
  <1>6. WholeQueue'
    BY <1>1, <1>2 DEF WholeQueue
  <1> QED BY <1>4, <1>5, <1>6 DEF Ticketed

LEMMA ManifestTicketed ==
    ASSUME Types, Ticketed, NEW p \in Process, WriteManifest(p)
    PROVE  Ticketed'
  <1> USE DEF Types, TypeOK, EmissionTypes
  <1>1. /\ Emits(p) /\ next[p] > Len(plan[p])
        /\ manifest' = plan[p] /\ process' = [process EXCEPT ![p] = "idle"]
        /\ plan' = [plan EXCEPT ![p] = <<>>] /\ next' = [next EXCEPT ![p] = 1]
        /\ torn' = (torn /\ p \notin alone) /\ alone' = alone \ {p}
        /\ UNCHANGED <<summary, generated>>
    BY DEF WriteManifest, Emits
  <1>2. /\ \A q \in Process \ {p} : (Emits(q)' <=> Emits(q)) /\ (Idle(q)' <=> Idle(q))
        /\ ~Emits(p)'
    BY <1>1 DEF Emits, Idle
  <1>3. Reported' = Reported
    BY <1>1 DEF Reported
  <1>4. LoneEmission'
    BY <1>1, <1>2 DEF Ticketed, LoneEmission
  <1>5. LonePlan'
    <2>1. alone' = {}
      BY <1>1 DEF Ticketed, LoneEmission
    <2> QED BY <2>1 DEF LonePlan
  <1>6. WholeQueue'
    <2> SUFFICES ASSUME ~torn' PROVE WholeQueue'
      BY DEF WholeQueue
    <2>1. p \in alone
      BY <1>1 DEF Ticketed, LoneEmission
    <2>2. IsInjective(manifest')
      BY <1>1, <2>1 DEF Ticketed, LonePlan
    <2>3. ASSUME NEW i \in 1..Len(manifest')
          PROVE  generated'[i] = manifest'[i]
      <3>1. i < next[p]
        BY <1>1, <2>3
      <3> QED BY <1>1, <2>1, <2>3, <3>1 DEF Ticketed, LonePlan
    <2>4. (\A q \in Process : Idle(q)') => ToSet(manifest') = Reported'
      BY <1>1, <1>2, <1>3, <2>1 DEF Ticketed, LonePlan
    <2> QED BY <2>2, <2>3, <2>4 DEF WholeQueue
  <1> QED BY <1>4, <1>5, <1>6 DEF Ticketed

LEMMA DieTicketed ==
    ASSUME Types, Ticketed, NEW p \in Process, Die(p)
    PROVE  Ticketed'
  BY DEF Die, Ticketed, LoneEmission, LonePlan, WholeQueue

LEMMA TicketedInductive ==
    ASSUME Types, Ticketed, [Next]_vars
    PROVE  Ticketed'
  <1>1. CASE UNCHANGED vars
    BY <1>1, TicketedElsewhere DEF vars
  <1>2. ASSUME NEW p \in Process, Emit(p)
        PROVE  Ticketed'
    BY <1>2, StartTicketed, ReadTicketed, WriteTicketed, ManifestTicketed, DieTicketed
       DEF Emit, RunPipeline, GenerateTasks
  <1>3. CASE Promote \/ Run
    <2>1. UNCHANGED emitting
      BY <1>3 DEF Promote, PromoteStarts, CopyTicket, PromoteEnds, PromoteDies, Run, RunnerStarts,
                  CommandStarts, CommandEnds, MarkDone, RunnerDies, RunnerEnds
    <2> QED BY <2>1, TicketedElsewhere
  <1> QED BY <1>1, <1>2, <1>3 DEF Next

LEMMA TicketedInitially == Init => Ticketed
  <1> SUFFICES ASSUME Init PROVE Ticketed
    OBVIOUS
  <1>1. Reported = {}
    BY DEF Init, Reported, Reports, Issue
  <1>2. IsInjective(manifest) /\ ToSet(manifest) = {} /\ Len(manifest) = 0
    BY DEF Init, IsInjective, ToSet
  <1>3. alone = {} /\ \A p \in Process : ~Emits(p)
    BY DEF Init, Emits
  <1> QED BY <1>1, <1>2, <1>3 DEF Ticketed, LoneEmission, LonePlan, WholeQueue

LEMMA TicketedAlways == Spec => [](Types /\ Ticketed)
  BY TypesInitially, TypesInductive, TicketedInitially, TicketedInductive, PTL DEF Spec

\* RefinementQueueEmitter.write: at rest every reported problem has a ticket of its
\* own and the manifest says which, however emissions, deaths and reruns came before.
THEOREM IssuesTicketedTheorem == Spec => []IssuesTicketed
  <1>1. Types /\ Ticketed => IssuesTicketed
    BY DEF Ticketed, WholeQueue, IssuesTicketed, AtRest, Idle, Emits
  <1> QED BY <1>1, TicketedAlways, PTL

-------------------------------------------------------------------------------
(* Done means resolved.                                                      *)

Present(i) == promoted[i] # None

\* A runner that no promotion disturbs works on tickets that stay what they are.
Undisturbed == ~disturbed =>
    /\ copying = None
    /\ runner \in {"command", "marking"} /\ Present(First) => subject = promoted[First].issue
    /\ runner = "marking" /\ subject # None => subject \in resolved

Resolved == Undisturbed /\ DoneMeansResolved

LEMMA EmitResolved ==
    ASSUME Resolved, UNCHANGED <<copying, promoted, running>>
    PROVE  Resolved'
  BY DEF Resolved, Undisturbed, DoneMeansResolved, Present, First, running

LEMMA PromoteResolved ==
    ASSUME Types, Resolved, Promote
    PROVE  Resolved'
  <1> USE DEF Types, TypeOK, PromotionTypes
  <1>1. CASE PromoteStarts
    BY <1>1 DEF PromoteStarts, Resolved, Undisturbed, DoneMeansResolved
  <1>2. ASSUME NEW i \in Number, CopyTicket(i)
        PROVE  Resolved'
    <2>1. /\ copying # None /\ UNCHANGED running
          /\ promoted' = [promoted EXCEPT ![i] = [issue |-> generated[i], done |-> FALSE]]
      BY <1>2 DEF CopyTicket
    <2>2. disturbed /\ disturbed'
      BY <2>1 DEF Resolved, Undisturbed, running
    <2>3. DoneMeansResolved'
      BY <2>1 DEF Resolved, DoneMeansResolved, running
    <2> QED BY <2>2, <2>3 DEF Resolved, Undisturbed
  <1>3. CASE PromoteEnds \/ PromoteDies
    BY <1>3 DEF PromoteEnds, PromoteDies, Resolved, Undisturbed, DoneMeansResolved, Present,
                First, running
  <1> QED BY <1>1, <1>2, <1>3 DEF Promote

LEMMA MarkResolved ==
    ASSUME Types, Resolved, MarkDone
    PROVE  Resolved'
  <1> USE DEF Types, TypeOK, PromotionTypes, RunnerTypes
  <1>1. /\ runner = "marking" /\ Present(First) /\ First \in Number
        /\ promoted' = [promoted EXCEPT ![First].done = TRUE] /\ runner' = "ready"
        /\ crossed' = IF disturbed THEN crossed \cup {First} ELSE crossed
        /\ UNCHANGED <<copying, disturbed, resolved>>
    BY FirstIsTicket DEF MarkDone, Present, copies
  <1>2. Undisturbed'
    BY <1>1 DEF Resolved, Undisturbed
  <1>3. /\ promoted[First] \in Ticket
        /\ promoted'[First] = [promoted[First] EXCEPT !.done = TRUE]
        /\ \A i \in Number \ {First} : promoted'[i] = promoted[i]
    BY <1>1 DEF Present
  <1>4. promoted'[First].issue = promoted[First].issue /\ promoted[First].issue \in Issue
    BY <1>3 DEF Ticket
  <1>5. CASE disturbed
    BY <1>1, <1>2, <1>3, <1>5 DEF Resolved, DoneMeansResolved
  <1>6. CASE ~disturbed
    <2>1. promoted[First].issue \in resolved
      BY <1>1, <1>4, <1>6, NoneAssumption DEF Resolved, Undisturbed
    <2> QED BY <1>1, <1>2, <1>3, <1>4, <1>6, <2>1 DEF Resolved, DoneMeansResolved
  <1> QED BY <1>5, <1>6

LEMMA RunResolved ==
    ASSUME Types, Resolved, Run
    PROVE  Resolved'
  <1> USE DEF Types, TypeOK, RunnerTypes
  <1>1. CASE RunnerStarts
    BY <1>1 DEF RunnerStarts, Resolved, Undisturbed, DoneMeansResolved, copies
  <1>2. CASE CommandStarts
    BY <1>2 DEF CommandStarts, Resolved, Undisturbed, DoneMeansResolved, Present, First, copies
  <1>3. ASSUME NEW code \in {0, 1}, CommandEnds(code)
        PROVE  Resolved'
    <2>1. /\ runner = "command" /\ UNCHANGED <<copying, promoted, disturbed, crossed>>
          /\ resolved \subseteq resolved'
          /\ \/ runner' = "marking" /\ code = 0 /\ UNCHANGED <<todo, subject>>
             \/ runner' = "idle"
      BY <1>3 DEF CommandEnds, Successful, Stop, copies
    <2>2. runner' = "marking" /\ subject' # None => subject' \in resolved'
      BY <1>3, <2>1 DEF CommandEnds
    <2>3. DoneMeansResolved'
      BY <2>1 DEF Resolved, DoneMeansResolved
    <2>4. Undisturbed'
      BY <2>1, <2>2 DEF Resolved, Undisturbed, Present, First
    <2> QED BY <2>3, <2>4 DEF Resolved
  <1>4. CASE MarkDone
    BY <1>4, MarkResolved
  <1>5. CASE RunnerDies \/ RunnerEnds
    BY <1>5 DEF RunnerDies, RunnerEnds, Stop, Resolved, Undisturbed, DoneMeansResolved, copies
  <1> QED BY <1>1, <1>2, <1>3, <1>4, <1>5 DEF Run

LEMMA ResolvedInductive ==
    ASSUME Types, Resolved, [Next]_vars
    PROVE  Resolved'
  <1>1. CASE UNCHANGED vars
    BY <1>1, EmitResolved DEF vars, copies
  <1>2. ASSUME NEW p \in Process, Emit(p)
        PROVE  Resolved'
    <2>1. UNCHANGED <<copying, promoted, running>>
      BY <1>2 DEF Emit, RunPipeline, GenerateTasks, StartsEmission, ReadSummaries, WriteTicket,
                  WriteManifest, Die, copies
    <2> QED BY <2>1, EmitResolved
  <1> QED BY <1>1, <1>2, PromoteResolved, RunResolved DEF Next

LEMMA ResolvedInitially == Init => Resolved
  BY DEF Init, Resolved, Undisturbed, DoneMeansResolved

LEMMA ResolvedAlways == Spec => [](Types /\ Resolved)
  BY TypesInitially, TypesInductive, ResolvedInitially, ResolvedInductive, PTL DEF Spec

\* RefinementQueueRunner: a ticket is done only if a command was successful for what
\* it says, unless a promotion replaced it while the command ran.
THEOREM DoneMeansResolvedTheorem == Spec => []DoneMeansResolved
  <1>1. Types /\ Resolved => DoneMeansResolved
    BY DEF Resolved
  <1> QED BY <1>1, ResolvedAlways, PTL

-------------------------------------------------------------------------------
(* The loop closes.                                                          *)

\* The tickets of a promotion that are not copied yet, and not there either.
Awaited == copying # None => \A i \in copying : ~Present(i)

\* Every problem that was promised is promoted, or about to be.
Promised == promise # None => \A issue \in promise :
    \/ copying # None /\ \E i \in copying : generated[i] = issue
    \/ \E i \in Number : Present(i) /\ promoted[i].issue = issue

\* An undisturbed runner has seen to every ticket or has it yet to run.
SeenTo == ~disturbed => \A i \in Number : Present(i) /\ ~promoted[i].done =>
    /\ runner # "idle" => i \in todo
    /\ runner = "idle" => exit # "ok"

Closing == Awaited /\ Promised /\ SeenTo

LEMMA EmitClosing ==
    ASSUME Types, Closing, NEW p \in Process, Emit(p)
    PROVE  Closing'
  <1>1. UNCHANGED <<copying, promoted, running>>
    BY DEF Emit, RunPipeline, GenerateTasks, StartsEmission, ReadSummaries, WriteTicket,
           WriteManifest, Die, copies
  <1>2. \/ UNCHANGED <<generated, promise>>
        \/ copying = None /\ UNCHANGED promise
        \/ promise' = None
    BY DEF Emit, RunPipeline, GenerateTasks, StartsEmission, ReadSummaries, WriteTicket,
           WriteManifest, Die
  <1>3. Awaited' /\ SeenTo'
    BY <1>1 DEF Closing, Awaited, SeenTo, Present, running
  <1>4. Promised'
    BY <1>1, <1>2 DEF Closing, Promised, Present
  <1> QED BY <1>3, <1>4 DEF Closing

LEMMA PromoteClosing ==
    ASSUME Types, Ticketed, Resolved, Closing, Promote
    PROVE  Closing'
  <1> USE DEF Types, TypeOK, EmissionTypes, PromotionTypes
  <1>1. CASE PromoteStarts
    <2>1. /\ copying' = Listed /\ disturbed' = TRUE /\ UNCHANGED generated
          /\ \A i \in Number : ~Present(i)'
          /\ promise' = IF AtRest THEN Reported ELSE None
      BY <1>1 DEF PromoteStarts, emitting, Present
    <2>2. Listed # None
      BY NoneAssumption DEF Listed
    <2>3. ASSUME AtRest, NEW issue \in Reported
          PROVE  \E i \in Listed : generated[i] = issue
      <3>1. ToSet(manifest) = Reported /\ \A i \in 1..Len(manifest) : generated[i] = manifest[i]
        BY <2>3 DEF Ticketed, WholeQueue, AtRest, Idle, Emits
      <3>2. PICK i \in 1..Len(manifest) : manifest[i] = issue
        <4>1. DOMAIN manifest = 1..Len(manifest) /\ issue \in ToSet(manifest)
          BY <2>3, <3>1
        <4> QED BY <4>1 DEF ToSet
      <3>3. generated[i] = issue /\ issue # None
        BY <3>1, <3>2, NoneAssumption DEF Reported
      <3>4. i \in Number
        BY BoundsAssumption DEF Number
      <3> QED BY <3>3, <3>4 DEF Listed
    <2>4. Promised'
      BY <2>1, <2>2, <2>3 DEF Promised
    <2>5. Awaited'
      BY <2>1 DEF Awaited, Listed
    <2> QED BY <2>1, <2>4, <2>5 DEF Closing, SeenTo
  <1>2. ASSUME NEW i \in Number, CopyTicket(i)
        PROVE  Closing'
    <2>1. /\ copying # None /\ i \in copying /\ copying' = copying \ {i}
          /\ promoted' = [promoted EXCEPT ![i] = [issue |-> generated[i], done |-> FALSE]]
          /\ UNCHANGED <<generated, running, promise>>
      BY <1>2 DEF CopyTicket, emitting
    <2>2. copying \subseteq Number /\ copying' # None
      BY <2>1, NoneAssumption DEF Listed
    <2>3. disturbed'
      BY <2>1 DEF Resolved, Undisturbed, running
    <2>4. /\ promoted'[i] \in Ticket /\ promoted'[i].issue = generated[i]
          /\ \A j \in Number \ {i} : promoted'[j] = promoted[j]
      BY <2>1 DEF Ticket, Listed
    <2>5. Present(i)' /\ \A j \in Number \ {i} : Present(j)' <=> Present(j)
      BY <2>4, NoneAssumption DEF Present
    <2>6. ~Present(i)
      BY <2>1 DEF Closing, Awaited
    <2>7. Awaited'
      BY <2>1, <2>2, <2>5 DEF Closing, Awaited
    <2>8. ASSUME promise # None, NEW issue \in promise
          PROVE  \/ \E j \in copying' : generated'[j] = issue
                 \/ \E j \in Number : Present(j)' /\ promoted'[j].issue = issue
      <3>1. CASE \E j \in copying : generated[j] = issue
        BY <2>1, <2>4, <2>5, <3>1
      <3>2. CASE \E j \in Number : Present(j) /\ promoted[j].issue = issue
        BY <2>4, <2>5, <2>6, <3>2
      <3> QED BY <2>8, <3>1, <3>2 DEF Closing, Promised
    <2>9. Promised'
      BY <2>1, <2>2, <2>8 DEF Promised
    <2> QED BY <2>3, <2>7, <2>9 DEF Closing, SeenTo
  <1>3. CASE PromoteEnds
    <2>1. /\ copying = {} /\ copying' = None /\ UNCHANGED <<generated, promoted, running, promise>>
      BY <1>3 DEF PromoteEnds, emitting
    <2>2. copying # None
      BY <2>1, NoneAssumption
    <2> QED BY <2>1, <2>2 DEF Closing, Awaited, Promised, SeenTo, Present, running
  <1>4. CASE PromoteDies
    BY <1>4 DEF PromoteDies, Closing, Awaited, Promised, SeenTo, Present, running
  <1> QED BY <1>1, <1>2, <1>3, <1>4 DEF Promote

LEMMA RunClosing ==
    ASSUME Types, Closing, Run
    PROVE  Closing'
  <1> USE DEF Types, TypeOK, PromotionTypes, RunnerTypes
  <1>1. UNCHANGED <<copying, generated, promise>>
    BY DEF Run, RunnerStarts, CommandStarts, CommandEnds, MarkDone, RunnerDies, RunnerEnds,
           copies, emitting
  <1>2. ASSUME UNCHANGED promoted, SeenTo'
        PROVE  Closing'
    BY <1>1, <1>2 DEF Closing, Awaited, Promised, Present
  <1>3. CASE RunnerStarts
    <2>1. SeenTo'
      BY <1>3 DEF RunnerStarts, SeenTo, Open, Found, Present
    <2> QED BY <1>2, <1>3, <2>1 DEF RunnerStarts
  <1>4. CASE CommandStarts
    <2>1. SeenTo'
      BY <1>4 DEF CommandStarts, Closing, SeenTo, Present
    <2> QED BY <1>2, <1>4, <2>1 DEF CommandStarts
  <1>5. ASSUME NEW code \in {0, 1}, CommandEnds(code)
        PROVE  Closing'
    <2>1. SeenTo'
      BY <1>5 DEF CommandEnds, Stop, Closing, SeenTo, Present
    <2> QED BY <1>2, <1>5, <2>1 DEF CommandEnds
  <1>6. CASE MarkDone
    <2>1. /\ runner = "marking" /\ First \in Number /\ promoted[First] \in Ticket
          /\ promoted' = [promoted EXCEPT ![First].done = TRUE] /\ todo' = todo \ {First}
          /\ runner' = "ready" /\ UNCHANGED <<exit, disturbed>>
      BY <1>6, FirstIsTicket DEF MarkDone
    <2>2. /\ promoted'[First] = [promoted[First] EXCEPT !.done = TRUE]
          /\ \A i \in Number \ {First} : promoted'[i] = promoted[i]
      BY <2>1
    <2>3. /\ promoted'[First] \in Ticket /\ promoted'[First].done
          /\ promoted'[First].issue = promoted[First].issue
      BY <2>1, <2>2 DEF Ticket
    <2>4. \A i \in Number : Present(i)' <=> Present(i)
      BY <2>1, <2>2, <2>3, NoneAssumption DEF Present
    <2>5. \A i \in Number : Present(i) => promoted'[i].issue = promoted[i].issue
      BY <2>2, <2>3
    <2>6. SeenTo'
      BY <2>1, <2>2, <2>3, <2>4 DEF Closing, SeenTo
    <2>7. Awaited'
      <3>1. copying # None => copying \subseteq Number
        BY DEF Listed
      <3> QED BY <1>1, <2>4, <3>1 DEF Closing, Awaited
    <2>8. Promised'
      BY <1>1, <2>4, <2>5 DEF Closing, Promised
    <2> QED BY <2>6, <2>7, <2>8 DEF Closing
  <1>7. CASE RunnerDies
    <2>1. SeenTo'
      BY <1>7 DEF RunnerDies, Stop, SeenTo
    <2> QED BY <1>2, <1>7, <2>1 DEF RunnerDies
  <1>8. CASE RunnerEnds
    <2>1. SeenTo'
      BY <1>8 DEF RunnerEnds, Stop, Closing, SeenTo, Present
    <2> QED BY <1>2, <1>8, <2>1 DEF RunnerEnds
  <1> QED BY <1>3, <1>4, <1>5, <1>6, <1>7, <1>8 DEF Run

LEMMA ClosingInductive ==
    ASSUME Types, Ticketed, Resolved, Closing, [Next]_vars
    PROVE  Closing'
  <1>1. CASE UNCHANGED vars
    BY <1>1 DEF vars, emitting, copies, running, Closing, Awaited, Promised, SeenTo, Present
  <1> QED BY <1>1, EmitClosing, PromoteClosing, RunClosing DEF Next

LEMMA ClosingInitially == Init => Closing
  BY DEF Init, Closing, Awaited, Promised, SeenTo, Present

\* The loop closes: every problem that was reported when a whole queue was promoted
\* is resolved once a runner has ended well, unless somebody crossed it.
THEOREM LoopClosesTheorem == Spec => []LoopCloses
  <1>1. Types /\ Resolved /\ Closing => LoopCloses
    BY DEF Types, TypeOK, PromotionTypes, Resolved, DoneMeansResolved, Closing, Promised, SeenTo,
           Present, LoopCloses
  <1> QED BY <1>1, TicketedAlways, ResolvedAlways, ClosingInitially, ClosingInductive, PTL
          DEF Spec
===============================================================================
