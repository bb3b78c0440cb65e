------------------------------ MODULE SandboxProofs ------------------------------
(*****************************************************************************)
(* The properties of SandboxVerification for any files, patches, contracts   *)
(* and adapters: a delivered workspace is whole, the evidence is about it,   *)
(* a failed run leaves nothing behind but what it failed to remove, and      *)
(* every run ends after a bounded number of its steps.                       *)
(*****************************************************************************)
EXTENDS SandboxVerification, SequenceTheorems, FiniteSetTheorems, TLAPS

-------------------------------------------------------------------------------
(* The inductive invariant.                                                  *)

\* Where a run has its worktree.
Working == {"launch", "upload", "baseline", "execute", "apply", "verify", "reverse", "sync", "deliver"}

Sites ==
    /\ pc # "idle" => run # 0
    /\ left \in Seq(Check)
    /\ pc = "create" => start = NoTree
    /\ pc \in Working => dir \in Tree /\ start \in Tree
    /\ pc = "sync" => todo \subseteq Changed(patch)

\* What exists was started by a run, and not before it was.
Started ==
    /\ \A s \in live : s[1] # "worktree" /\ s[2] <= run
    /\ pc \in {"create", "launch"} => <<adapter, run>> \notin live

\* The last compensation.
Leaving ==
    /\ NothingLeftBehind
    /\ pc \in {"destroy", "cleanup"} => due \in {1, 2}
    /\ pc = "cleanup" /\ due = 1 /\ "stuck" \notin faults /\ adapter # "humanlayer"
          => <<adapter, run>> \notin live

\* Nobody but an agent changes files that the patch does not.
Whole ==
    /\ DeliveredWhole
    /\ pc \in Working /\ "agent" \notin faults =>
          \A f \in File \ Changed(patch) : pc # "reverse" => dir[f] = start[f]

\* What the checks run on.
Faithful ==
    faults \cap {"lost", "agent"} = {} =>
        /\ pc \in {"launch", "upload", "baseline", "execute", "apply"} => dir = start
        /\ pc = "upload" /\ box # NoTree => \A f \in File : f \in todo \/ box[f] = start[f]
        /\ pc \in {"baseline", "execute", "apply"} /\ box # NoTree => box = start
        /\ pc = "verify" /\ adapter \notin Remote => dir = Patched(start)
        /\ pc = "verify" /\ box # NoTree => box = Patched(start)

Checks(evidenceOf) == {e.check : e \in evidenceOf}
Demanded   == {c \in ToSet(suite) : Terms[c].kind = "fail_to_pass"}
Guaranteed == {c \in ToSet(suite) : Terms[c].kind # "fail_to_pass"}

\* The checks a stage has left behind have evidence.
Gathered ==
    /\ pc \in {"baseline", "verify"} => ToSet(left) \subseteq ToSet(suite)
    /\ pc \in {"create", "launch", "upload"} => pre = {} /\ post = {}
    /\ pc = "baseline" => /\ Checks(pre) \subseteq Demanded /\ Demanded \subseteq Checks(pre) \cup ToSet(left)
                          /\ post = {}
    /\ pc \in {"execute", "apply"} => Checks(pre) = Demanded /\ post = {}
    /\ pc = "verify" => /\ Checks(pre) = Demanded
                        /\ Checks(post) \subseteq Guaranteed
                        /\ Guaranteed \subseteq Checks(post) \cup ToSet(left)
    /\ pc \in {"sync", "deliver", "delivered"} => Checks(pre) = Demanded /\ Checks(post) = Guaranteed

\* The evidence is what the tree gives, or a breakdown before the patch.
Truthful ==
    pc \in {"baseline", "execute", "apply", "verify", "sync", "deliver", "delivered"}
    /\ faults \cap {"lost", "agent"} = {} =>
        /\ \A e \in pre : e.exit \in (Answers(e.check, start) \ {0}) \cup Breakdown
        /\ \A e \in post : Terms[e.check].kind = "pass_to_pass" /\ "blind" \notin faults =>
              0 \in Answers(e.check, Patched(start))

IInv == SandboxTypeOK /\ Sites /\ Started /\ Leaving /\ Whole /\ Faithful /\ Gathered /\ Truthful

-------------------------------------------------------------------------------
(* What the operators do.                                                    *)

Faults == {"lost", "blind", "agent", "stuck"}

LEMMA MayEffect ==
    ASSUME SandboxTypeOK, NEW f \in SUBSET Faults, May(f) \/ Quietly
    PROVE  /\ failures' \in 0..MaxFaults /\ faults' \in SUBSET Faults
           /\ faults \subseteq faults' /\ faults' \subseteq faults \cup f
           /\ May(f) => faults' = faults \cup f
  <1>1. faults \in SUBSET Faults /\ failures \in 0..MaxFaults /\ MaxFaults \in Nat
    BY BoundAssumption DEF SandboxTypeOK, Faults
  <1>2. CASE May(f)
    BY <1>1, <1>2 DEF May
  <1>3. CASE Quietly
    BY <1>1, <1>3 DEF Quietly, May
  <1> QED BY <1>2, <1>3

LEMMA Stages ==
    ASSUME NEW s \in Seq(Check), s # <<>>
    PROVE  /\ Head(s) \in Check /\ Head(s) \in ToSet(s)
           /\ Tail(s) \in Seq(Check)
           /\ ToSet(s) = {Head(s)} \cup ToSet(Tail(s))
  <1>1. /\ Len(s) \in Nat \ {0} /\ DOMAIN s = 1..Len(s) /\ Head(s) = s[1] /\ Head(s) \in Check
        /\ Tail(s) \in Seq(Check) /\ Len(Tail(s)) = Len(s) - 1
        /\ \A i \in 1..Len(s) - 1 : Tail(s)[i] = s[i+1]
    BY HeadTailProperties, LenProperties, EmptySeq
  <1>2. DOMAIN Tail(s) = 1..Len(s) - 1
    BY <1>1, LenProperties
  <1>3. ToSet(Tail(s)) \subseteq ToSet(s) /\ Head(s) \in ToSet(s)
    BY <1>1, <1>2 DEF ToSet
  <1>4. ASSUME NEW i \in 1..Len(s), i # 1 PROVE s[i] \in ToSet(Tail(s))
    <2>1. i - 1 \in 1..Len(s) - 1 /\ Tail(s)[i - 1] = s[i]
      BY <1>1, <1>4
    <2> QED BY <1>2, <2>1 DEF ToSet
  <1>5. ToSet(s) \subseteq {Head(s)} \cup ToSet(Tail(s))
    BY <1>1, <1>4 DEF ToSet
  <1> QED BY <1>1, <1>3, <1>5

LEMMA NoStage == <<>> \in Seq(Check) /\ ToSet(<<>>) = {}
  BY DEF ToSet

LEMMA Suites ==
    ASSUME SandboxTypeOK
    PROVE  suite \in Seq(Check) /\ \A c \in ToSet(suite) : c \in Check /\ Terms[c] \in Contract
  <1>1. suite \in Seq(Check)
    BY SuiteAssumption DEF SandboxTypeOK
  <1>2. DOMAIN suite = 1..Len(suite) /\ \A i \in 1..Len(suite) : suite[i] \in Check
    BY <1>1, LenProperties
  <1> QED BY <1>1, <1>2, SuiteAssumption DEF ToSet

LEMMA Trees ==
    ASSUME SandboxTypeOK, NEW T \in Tree
    PROVE  /\ patch \in Tree /\ T # NoTree
           /\ Patched(T) \in Tree /\ Unpatched(T) \in Tree
           /\ Touched(patch) \subseteq Changed(patch) /\ Changed(patch) \subseteq File
           /\ \A f \in File \ Changed(patch) : Patched(T)[f] = T[f]
  BY TreeAssumption DEF SandboxTypeOK, Tree, Patched, Unpatched, Touched, Changed

-------------------------------------------------------------------------------
(* Steps.                                                                    *)

\* A failure: what the run was about to do is left as it is.
LEMMA GivesUp ==
    ASSUME IInv, pc # "idle", pc' \in {"destroy", "reverse", "cancelled"},
           due' \in 0..2, pc' = "destroy" => due' = 1, pc' = "reverse" => pc \in Working,
           NEW f \in SUBSET Faults, May(f) \/ Quietly,
           UNCHANGED <<run, adapter, suite, patch, place, start, work, evidence>>
    PROVE  IInv'
  <1> USE DEF IInv, place, work, evidence
  <1>1. faults' \in SUBSET Faults /\ faults \subseteq faults' /\ failures' \in 0..MaxFaults
    BY MayEffect
  <1>2. SandboxTypeOK'
    BY <1>1 DEF SandboxTypeOK, Ended, Faults
  <1>3. Sites' /\ Started'
    BY DEF Sites, Working, Started
  <1>4. Leaving'
    BY DEF Leaving, NothingLeftBehind
  <1>5. Whole' /\ Faithful' /\ Gathered' /\ Truthful'
    BY DEF Whole, DeliveredWhole, Working, Faithful, Gathered, Truthful
  <1> QED BY <1>2, <1>3, <1>4, <1>5

\* Every action of that kind.
LEMMA FailuresGiveUp ==
    ASSUME IInv,
           \/ UploadRaises \/ SelectorPasses \/ CommandRaises \/ ExecuteRaises \/ ApplyRefused
           \/ CheckFails \/ PytestMissing \/ DownloadRaises \/ DeliverRaises \/ ReverseRefused \/ Cancel
           \/ (Metric /\ pc' = "reverse")
    PROVE  IInv'
  <1>1. due \in 0..2 /\ \A f \in {{}, {"stuck"}, {"blind"}} : f \in SUBSET Faults
    BY DEF IInv, SandboxTypeOK, Faults
  <1>2. /\ UNCHANGED <<run, adapter, suite, patch, place, start, work, evidence>>
        /\ pc # "idle" /\ pc' \in {"destroy", "reverse", "cancelled"} /\ due' \in 0..2
        /\ pc' = "destroy" => due' = 1
        /\ pc' = "reverse" => pc \in Working
    BY <1>1 DEF UploadRaises, SelectorPasses, CommandRaises, ExecuteRaises, ApplyRefused, CheckFails,
       PytestMissing, DownloadRaises, DeliverRaises, ReverseRefused, Cancel, Raise, Working, Metric,
       work, evidence, Ended
  <1>3. May({}) \/ May({"stuck"}) \/ May({"blind"}) \/ Quietly
    BY DEF UploadRaises, SelectorPasses, CommandRaises, ExecuteRaises, ApplyRefused, CheckFails,
       PytestMissing, DownloadRaises, DeliverRaises, ReverseRefused, Cancel, Quietly, Metric,
       ReadsZero, NotZero, Reads
  <1> QED BY <1>1, <1>2, <1>3, GivesUp

LEMMA StartRunKeeps ==
    ASSUME IInv, NEW a \in Adapters, NEW s \in Suite, NEW p \in Patch, StartRun(a, s, p)
    PROVE  IInv'
  <1> USE DEF IInv, StartRun
  <1>1. run' \in 0..MaxRuns /\ run \in Nat
    BY BoundAssumption DEF SandboxTypeOK
  <1>2. SandboxTypeOK'
    BY <1>1, BoundAssumption DEF SandboxTypeOK, Ended
  <1>3. Sites'
    BY <1>1, NoStage DEF Sites, Working
  <1>4. Started'
    <2>1. \A e \in live : e[2] \in Nat /\ e[2] <= run
      BY BoundAssumption DEF SandboxTypeOK, Started
    <2>2. <<a, run + 1>>[2] = run + 1 /\ <<a, run + 1>> \notin live
      BY <1>1, <2>1
    <2> QED BY <1>1, <2>1, <2>2 DEF Started
  <1>5. Leaving' /\ Whole' /\ Faithful' /\ Gathered' /\ Truthful'
    BY DEF Leaving, NothingLeftBehind, Whole, DeliveredWhole, Working, Faithful, Gathered, Truthful
  <1> QED BY <1>2, <1>3, <1>4, <1>5

LEMMA CreateWorktreeKeeps ==
    ASSUME IInv, CreateWorktree
    PROVE  IInv'
  <1> USE DEF IInv, CreateWorktree, work, evidence
  <1>1. dir' \in Tree /\ start' = dir'
    BY TreeAssumption DEF SandboxTypeOK, Fresh, Tree, Content
  <1>2. SandboxTypeOK'
    BY <1>1 DEF SandboxTypeOK
  <1>3. Sites' /\ Started'
    BY <1>1 DEF Sites, Working, Started
  <1>4. Leaving' /\ Whole' /\ Faithful' /\ Gathered' /\ Truthful'
    BY <1>1 DEF Leaving, NothingLeftBehind, Whole, DeliveredWhole, Working, Faithful, Gathered, Truthful
  <1> QED BY <1>2, <1>3, <1>4

\* Before anything is launched the worktree is all there is to remove.
LEMMA PrepareFails ==
    ASSUME IInv, CreateWorktreeFails \/ LaunchFails \/ ProviderFails
    PROVE  IInv'
  <1> USE DEF IInv, work, evidence, place
  <1>1. /\ pc \in {"create", "launch"} /\ pc' = "failed" /\ dir' \in {dir, NoTree}
        /\ UNCHANGED <<run, adapter, suite, patch, box, live, start, work, evidence, due>>
        /\ start = NoTree \/ dir' = NoTree \/ "stuck" \in faults'
    BY DEF CreateWorktreeFails, LaunchFails, ProviderFails, Sites, May
  <1>2. failures' \in 0..MaxFaults /\ faults' \in SUBSET Faults
    <2>1. May({}) \/ May({"stuck"}) \/ Quietly
      BY DEF CreateWorktreeFails, LaunchFails, ProviderFails
    <2>2. {} \in SUBSET Faults /\ {"stuck"} \in SUBSET Faults
      BY DEF Faults
    <2> QED BY <2>1, <2>2, MayEffect
  <1>3. SandboxTypeOK'
    BY <1>1, <1>2 DEF SandboxTypeOK, Ended, Faults
  <1>4. Sites' /\ Started'
    BY <1>1 DEF Sites, Working, Started
  <1>5. Leaving'
    BY <1>1 DEF Leaving, NothingLeftBehind, Started
  <1>6. Whole' /\ Faithful' /\ Gathered' /\ Truthful'
    BY <1>1 DEF Whole, DeliveredWhole, Working, Faithful, Gathered, Truthful
  <1> QED BY <1>3, <1>4, <1>5, <1>6

LEMMA LaunchKeeps ==
    ASSUME IInv, LaunchNothing \/ LaunchContainer \/ LaunchSession
    PROVE  IInv'
  <1> USE DEF IInv, evidence, place
  <1>1. /\ pc = "launch" /\ pc' = "baseline" /\ left' = suite
        /\ adapter \in {"worktree", "container", "humanlayer"}
        /\ live' = live \/ (live' = live \cup {<<adapter, run>>} /\ adapter # "worktree")
        /\ live' # live /\ adapter = "container" => ~NameTaken
        /\ UNCHANGED <<run, adapter, suite, patch, dir, box, start, todo, tries, evidence, due,
                       faults, failures>>
    BY DEF LaunchNothing, LaunchContainer, LaunchSession, BeginBaseline
  <1>2. run \in 1..MaxRuns
    BY <1>1 DEF SandboxTypeOK, Sites
  <1>3. SandboxTypeOK'
    BY <1>1, <1>2 DEF SandboxTypeOK, NameTaken
  <1>4. Sites' /\ Started'
    BY <1>1, Suites DEF Sites, Working, Started, SandboxTypeOK
  <1>5. Leaving' /\ Whole' /\ Faithful'
    BY <1>1 DEF Leaving, NothingLeftBehind, Whole, DeliveredWhole, Working, Faithful, SandboxTypeOK, Remote
  <1>6. Gathered' /\ Truthful'
    BY <1>1 DEF Gathered, Truthful, Checks, Demanded
  <1> QED BY <1>3, <1>4, <1>5, <1>6

LEMMA CreateSandboxKeeps ==
    ASSUME IInv, CreateSandbox
    PROVE  IInv'
  <1> USE DEF IInv, CreateSandbox, evidence
  <1>1. /\ box' \in Tree /\ box' # NoTree /\ \A f \in File : box'[f] = "absent"
        /\ dir \in Tree /\ todo' \subseteq File
    BY TreeAssumption DEF Sites, Working, Tree, Content
  <1>2. run \in 1..MaxRuns
    BY DEF SandboxTypeOK, Sites
  <1>3. SandboxTypeOK'
    BY <1>1, <1>2 DEF SandboxTypeOK, Remote
  <1>4. Sites' /\ Started'
    BY DEF Sites, Working, Started, SandboxTypeOK, Remote
  <1>5. Leaving' /\ Whole'
    BY DEF Leaving, NothingLeftBehind, Whole, DeliveredWhole, Working
  <1>6. Faithful'
    BY <1>1 DEF Faithful
  <1>7. Gathered' /\ Truthful'
    BY DEF Gathered, Truthful
  <1> QED BY <1>3, <1>4, <1>5, <1>6, <1>7

LEMMA UploadKeeps ==
    ASSUME IInv, NEW f \in File, UploadFile(f) \/ LoseFile(f)
    PROVE  IInv'
  <1> USE DEF IInv, evidence, place
  <1>1. /\ pc = "upload" /\ pc' = "upload" /\ box # NoTree /\ todo' = todo \ {f}
        /\ UNCHANGED <<run, adapter, suite, patch, dir, live, start, left, tries, evidence, due>>
        /\ \/ box' = [box EXCEPT ![f] = dir[f]] /\ faults' = faults
           \/ box' = box /\ "lost" \in faults'
    BY DEF UploadFile, LoseFile, May, Quietly
  <1>2. box \in Tree /\ dir \in Tree
    BY <1>1 DEF SandboxTypeOK, Sites, Working
  <1>3. /\ box' \in Tree
        /\ box' = box \/ \A g \in File : box'[g] = IF g = f THEN dir[g] ELSE box[g]
    BY <1>1, <1>2 DEF Tree
  <1>4. faults \subseteq faults' /\ faults' \in SUBSET Faults /\ failures' \in 0..MaxFaults
    <2>1. Quietly \/ May({"lost"})
      BY DEF UploadFile, LoseFile
    <2>2. {"lost"} \in SUBSET Faults
      BY DEF Faults
    <2> QED BY <2>1, <2>2, MayEffect
  <1>5. SandboxTypeOK'
    BY <1>1, <1>3, <1>4 DEF SandboxTypeOK, Faults
  <1>6. Sites' /\ Started' /\ Leaving' /\ Whole'
    BY <1>1, <1>4 DEF Sites, Working, Started, Leaving, NothingLeftBehind, Whole, DeliveredWhole
  <1>7. Faithful'
    <2>1. CASE faults' \cap {"lost", "agent"} = {}
      <3>1. faults \cap {"lost", "agent"} = {} /\ "lost" \notin faults'
        BY <1>4, <2>1
      <3>2. box' = [box EXCEPT ![f] = dir[f]] /\ box' # NoTree
        BY <1>1, <1>3, <3>1, TreeAssumption
      <3>3. dir = start /\ \A g \in File : g \in todo \/ box[g] = start[g]
        BY <1>1, <3>1 DEF Faithful
      <3>4. \A g \in File : g \in todo' \/ box'[g] = start[g]
        BY <1>1, <1>2, <3>2, <3>3 DEF Tree
      <3> QED BY <1>1, <3>3, <3>4 DEF Faithful
    <2> QED BY <2>1 DEF Faithful
  <1>8. Gathered' /\ Truthful'
    BY <1>1 DEF Gathered, Truthful
  <1> QED BY <1>5, <1>6, <1>7, <1>8

LEMMA UploadOverKeeps ==
    ASSUME IInv, UploadOver
    PROVE  IInv'
  <1> USE DEF IInv, UploadOver, BeginBaseline, evidence, place
  <1>1. SandboxTypeOK'
    BY DEF SandboxTypeOK
  <1>2. Sites' /\ Started'
    BY Suites DEF Sites, Working, Started
  <1>3. Leaving' /\ Whole'
    BY DEF Leaving, NothingLeftBehind, Whole, DeliveredWhole, Working
  <1>4. Faithful'
    <2> SUFFICES ASSUME faults \cap {"lost", "agent"} = {} PROVE dir = start /\ box = start
      BY DEF Faithful
    <2>1. dir = start /\ start \in Tree /\ box \in Tree /\ \A f \in File : box[f] = start[f]
      BY DEF Faithful, Sites, Working, SandboxTypeOK
    <2> QED BY <2>1 DEF Tree
  <1>5. Gathered' /\ Truthful'
    BY DEF Gathered, Truthful, Checks, Demanded
  <1> QED BY <1>1, <1>2, <1>3, <1>4, <1>5

LEMMA SkipCheckKeeps ==
    ASSUME IInv, SkipCheck
    PROVE  IInv'
  <1> USE DEF IInv, evidence, place
  <1>1. /\ left \in Seq(Check) /\ left # <<>> /\ left' = Tail(left)
        /\ pc \in {"baseline", "verify"} /\ pc # "idle"
        /\ UNCHANGED <<pc, run, adapter, suite, patch, place, start, todo, tries, evidence, due,
                       faults, failures>>
    BY DEF Sites, SkipCheck
  <1>2. Tail(left) \in Seq(Check) /\ ToSet(left) = {Head(left)} \cup ToSet(Tail(left))
    BY <1>1, Stages
  <1>3. SandboxTypeOK'
    BY <1>1 DEF SandboxTypeOK
  <1>4. Sites' /\ Started'
    BY <1>1, <1>2 DEF Sites, Working, Started
  <1>5. Leaving' /\ Whole'
    BY <1>1 DEF Leaving, NothingLeftBehind, Whole, DeliveredWhole, Working, Patched, Changed
  <1>6. Faithful' /\ Truthful'
    <2>1. Patched(start)' = Patched(start)
      BY <1>1 DEF Patched, Changed
    <2>2. Faithful'
      BY <1>1, <2>1 DEF Faithful
    <2> QED BY <1>1, <2>1, <2>2 DEF Truthful
  <1>7. Gathered'
    <2>1. /\ Demanded' = Demanded /\ Guaranteed' = Guaranteed
          /\ Checks(pre)' = Checks(pre) /\ Checks(post)' = Checks(post)
      BY <1>1 DEF Demanded, Guaranteed, Checks
    <2>2. CASE pc = "baseline"
      <3>1. Head(left) \notin Demanded
        BY <2>2 DEF Demanded, SkipCheck
      <3> QED BY <1>1, <1>2, <2>1, <2>2, <3>1 DEF Gathered
    <2>3. CASE pc = "verify"
      <3>1. Head(left) \notin Guaranteed
        BY <2>3 DEF Guaranteed, SkipCheck
      <3> QED BY <1>1, <1>2, <2>1, <2>3, <3>1 DEF Gathered
    <2> QED BY <1>1, <2>2, <2>3
  <1> QED BY <1>3, <1>4, <1>5, <1>6, <1>7

\* Without unnoticed failures the checks run on the tree they are about.
LEMMA SiteBefore ==
    ASSUME IInv, faults \cap {"lost", "agent"} = {}, Site # NoTree,
           pc \in {"baseline", "execute", "apply"}
    PROVE  Site = start
  BY DEF IInv, Site, Faithful

LEMMA SiteAfter ==
    ASSUME IInv, faults \cap {"lost", "agent"} = {}, Site # NoTree, pc = "verify"
    PROVE  Site = Patched(start)
  BY DEF IInv, Site, Faithful

LEMMA Evidence ==
    ASSUME NEW old, NEW c, NEW e
    PROVE  Checks(old \cup {[check |-> c, exit |-> e]}) = Checks(old) \cup {c}
  <1> DEFINE new == [check |-> c, exit |-> e]
  <1>1. new.check = c
    OBVIOUS
  <1> HIDE DEF new
  <1>2. Checks(old \cup {new}) = Checks(old) \cup {new.check}
    BY DEF Checks
  <1> QED BY <1>1, <1>2 DEF new

LEMMA SelectorFailsKeeps ==
    ASSUME IInv, SelectorFails
    PROVE  IInv'
  <1> USE DEF IInv, place
  <1> DEFINE c == Head(left)
  <1>1. /\ left \in Seq(Check) /\ left # <<>> /\ left' = Tail(left)
        /\ pc = "baseline" /\ Terms[c].kind = "fail_to_pass" /\ Site # NoTree
        /\ UNCHANGED <<pc, run, adapter, suite, patch, place, start, todo, tries, post, due>>
    BY DEF Sites, SelectorFails
  <1>2. Tail(left) \in Seq(Check) /\ ToSet(left) = {c} \cup ToSet(Tail(left))
    BY <1>1, Stages
  <1>3. PICK e \in Exit \cup Breakdown :
            Reads(c, e) /\ pre' = pre \cup {[check |-> c, exit |-> e]}
    BY DEF SelectorFails
  <1>4. faults' = faults /\ failures' \in 0..MaxFaults
    <2>1. Quietly \/ May({})
      BY <1>3 DEF Reads
    <2>2. {} \in SUBSET Faults
      OBVIOUS
    <2>3. failures' \in 0..MaxFaults /\ faults \subseteq faults' /\ faults' \subseteq faults \cup {}
      BY <2>1, <2>2, MayEffect
    <2> QED BY <2>3
  <1>5. SandboxTypeOK'
    BY <1>1, <1>4 DEF SandboxTypeOK
  <1>6. Sites' /\ Started'
    BY <1>1, <1>2 DEF Sites, Working, Started
  <1>7. Leaving' /\ Whole' /\ Faithful'
    BY <1>1, <1>4 DEF Leaving, NothingLeftBehind, Whole, DeliveredWhole, Working, Faithful
  <1>8. Gathered'
    <2>1. Checks(pre)' = Checks(pre) \cup {c}
      BY <1>3, Evidence DEF Checks
    <2>2. c \in Demanded
      BY <1>1, <1>2 DEF Gathered, Demanded
    <2>3. Demanded' = Demanded
      BY <1>1 DEF Demanded
    <2> QED BY <1>1, <1>2, <2>1, <2>2, <2>3 DEF Gathered
  <1>9. Truthful'
    <2> SUFFICES ASSUME faults \cap {"lost", "agent"} = {}
                 PROVE  /\ \A d \in pre' : d.exit \in (Answers(d.check, start) \ {0}) \cup Breakdown
                        /\ post = {}
      BY <1>1, <1>4 DEF Truthful
    <2>1. Site = start
      BY <1>1, SiteBefore
    <2>2. e \in (Answers(c, start) \ {0}) \cup Breakdown
      BY <1>3, <2>1 DEF Reads
    <2>3. \A d \in pre : d.exit \in (Answers(d.check, start) \ {0}) \cup Breakdown
      BY <1>1 DEF Truthful
    <2> QED BY <1>1, <1>3, <2>2, <2>3 DEF Gathered
  <1> QED BY <1>5, <1>6, <1>7, <1>8, <1>9

LEMMA BaselineOverKeeps ==
    ASSUME IInv, BaselineOver
    PROVE  IInv'
  <1> USE DEF IInv, BaselineOver, place, work, evidence
  <1>1. SandboxTypeOK' /\ Sites' /\ Started'
    BY DEF SandboxTypeOK, Sites, Working, Started
  <1>2. Leaving' /\ Whole' /\ Faithful'
    BY DEF Leaving, NothingLeftBehind, Whole, DeliveredWhole, Working, Faithful
  <1>3. Gathered' /\ Truthful'
    BY NoStage DEF Gathered, Truthful, Checks, Demanded
  <1> QED BY <1>1, <1>2, <1>3

LEMMA ExecuteKeeps ==
    ASSUME IInv, Execute
    PROVE  IInv'
  <1> USE DEF IInv, Execute, place, work, evidence
  <1>1. SandboxTypeOK' /\ Sites' /\ Started'
    BY DEF SandboxTypeOK, Sites, Working, Started
  <1>2. Leaving' /\ Whole' /\ Faithful'
    BY DEF Leaving, NothingLeftBehind, Whole, DeliveredWhole, Working, Faithful
  <1>3. Gathered' /\ Truthful'
    BY DEF Gathered, Truthful, Checks, Demanded
  <1> QED BY <1>1, <1>2, <1>3

LEMMA ApplyPatchKeeps ==
    ASSUME IInv, ApplyPatch
    PROVE  IInv'
  <1> USE DEF IInv, ApplyPatch, evidence
  <1>1. /\ Site \in Tree /\ Site # NoTree /\ Patched(Site) \in Tree /\ Patched(Site) # NoTree
        /\ dir \in Tree /\ start \in Tree
    <2>1. Site \in Tree /\ dir \in Tree /\ start \in Tree
      BY DEF Site, SandboxTypeOK, Sites, Working
    <2> QED BY <2>1, Trees, TreeAssumption
  <1>2. \/ adapter \in Remote /\ box' = Patched(Site) /\ dir' = dir
        \/ adapter \notin Remote /\ dir' = Patched(Site) /\ box' = box /\ Site = dir /\ box = NoTree
    BY DEF PutSite, Site, SandboxTypeOK
  <1>3. SandboxTypeOK'
    BY <1>1, <1>2 DEF SandboxTypeOK
  <1>4. Sites' /\ Started'
    BY <1>1, <1>2, Suites DEF Sites, Working, Started
  <1>5. Leaving'
    BY DEF Leaving, NothingLeftBehind
  <1>6. Whole'
    <2>1. \A f \in File \ Changed(patch) : dir'[f] = dir[f]
      BY <1>1, <1>2, Trees
    <2>2. Changed(patch)' = Changed(patch)
      BY DEF Changed
    <2> QED BY <2>1, <2>2 DEF Whole, DeliveredWhole, Working
  <1>7. Faithful'
    <2>1. Patched(start)' = Patched(start)
      BY DEF Patched, Changed
    <2>2. faults \cap {"lost", "agent"} = {} => Site = start
      BY <1>1, SiteBefore
    <2> QED BY <1>1, <1>2, <2>1, <2>2 DEF Faithful
  <1>8. Gathered'
    BY DEF Gathered, Checks, Demanded, Guaranteed
  <1>9. Truthful'
    BY DEF Truthful, Gathered
  <1> QED BY <1>3, <1>4, <1>5, <1>6, <1>7, <1>8, <1>9

LEMMA CheckPassesKeeps ==
    ASSUME IInv, CheckPasses
    PROVE  IInv'
  <1> USE DEF IInv, place
  <1> DEFINE c == Head(left)
  <1>1. /\ left \in Seq(Check) /\ left # <<>> /\ left' = Tail(left) /\ tries' = 0
        /\ pc = "verify" /\ Terms[c].kind = "pass_to_pass" /\ Site # NoTree
        /\ post' = post \cup {[check |-> c, exit |-> 0]}
        /\ UNCHANGED <<pc, run, adapter, suite, patch, place, start, todo, pre, due>>
        /\ \/ 0 \in Answers(c, Site) /\ faults' = faults
           \/ "blind" \in faults'
    BY DEF Sites, CheckPasses, ReadsZero, Quietly, May
  <1>2. Tail(left) \in Seq(Check) /\ ToSet(left) = {c} \cup ToSet(Tail(left))
    BY <1>1, Stages
  <1>3. faults \subseteq faults' /\ faults' \in SUBSET Faults /\ failures' \in 0..MaxFaults
    <2>1. Quietly \/ May({"blind"})
      BY DEF CheckPasses, ReadsZero
    <2>2. {"blind"} \in SUBSET Faults
      BY DEF Faults
    <2> QED BY <2>1, <2>2, MayEffect
  <1>4. SandboxTypeOK'
    BY <1>1, <1>3 DEF SandboxTypeOK, Faults
  <1>5. Sites' /\ Started'
    BY <1>1, <1>2 DEF Sites, Working, Started
  <1>6. Leaving' /\ Whole'
    BY <1>1, <1>3 DEF Leaving, NothingLeftBehind, Whole, DeliveredWhole, Working, Changed
  <1>7. Faithful'
    BY <1>1, <1>3 DEF Faithful, Patched, Changed
  <1>8. Gathered'
    <2>1. Checks(post)' = Checks(post) \cup {c}
      BY <1>1, Evidence DEF Checks
    <2>2. c \in Guaranteed
      BY <1>1, <1>2 DEF Gathered, Guaranteed
    <2>3. Demanded' = Demanded /\ Guaranteed' = Guaranteed /\ Checks(pre)' = Checks(pre)
      BY <1>1 DEF Demanded, Guaranteed, Checks
    <2> QED BY <1>1, <1>2, <2>1, <2>2, <2>3 DEF Gathered
  <1>9. Truthful'
    <2>0. Patched(start)' = Patched(start) /\ start' = start /\ pre' = pre
      BY <1>1 DEF Patched, Changed
    <2> SUFFICES ASSUME faults' \cap {"lost", "agent"} = {}
                 PROVE  /\ \A e \in pre : e.exit \in (Answers(e.check, start) \ {0}) \cup Breakdown
                        /\ \A e \in post' : Terms[e.check].kind = "pass_to_pass" /\ "blind" \notin faults' =>
                              0 \in Answers(e.check, Patched(start))
      BY <2>0 DEF Truthful
    <2>1. faults \cap {"lost", "agent"} = {}
      BY <1>3
    <2>2. /\ \A e \in pre : e.exit \in (Answers(e.check, start) \ {0}) \cup Breakdown
          /\ \A e \in post : Terms[e.check].kind = "pass_to_pass" /\ "blind" \notin faults =>
                0 \in Answers(e.check, Patched(start))
      BY <1>1, <2>1 DEF Truthful
    <2>3. "blind" \notin faults' => 0 \in Answers(c, Patched(start))
      BY <1>1, <2>1, SiteAfter
    <2> QED BY <1>1, <1>3, <2>2, <2>3
  <1> QED BY <1>4, <1>5, <1>6, <1>7, <1>8, <1>9

LEMMA CheckIsRepeatedKeeps ==
    ASSUME IInv, CheckIsRepeated
    PROVE  IInv'
  <1> USE DEF IInv, place, evidence
  <1>0. /\ pc = "verify" /\ left # <<>> /\ tries < Terms[Head(left)].retries /\ tries' = tries + 1
        /\ UNCHANGED <<pc, run, adapter, suite, patch, place, start, todo, left, evidence, due>>
    BY DEF CheckIsRepeated
  <1>1. tries' \in 0..3
    <2>1. Terms[Head(left)] \in Contract
      BY <1>0, Stages, SuiteAssumption DEF Sites
    <2>2. Terms[Head(left)].retries \in 0..3
      BY <2>1 DEF Contract
    <2> QED BY <1>0, <2>2 DEF SandboxTypeOK
  <1>2. faults' = faults /\ failures' \in 0..MaxFaults
    <2>1. Quietly \/ May({})
      BY DEF CheckIsRepeated, NotZero, Reads
    <2>2. {} \in SUBSET Faults
      OBVIOUS
    <2>3. failures' \in 0..MaxFaults /\ faults \subseteq faults' /\ faults' \subseteq faults \cup {}
      BY <2>1, <2>2, MayEffect
    <2> QED BY <2>3
  <1>3. SandboxTypeOK' /\ Sites' /\ Started'
    BY <1>0, <1>1, <1>2 DEF SandboxTypeOK, Sites, Working, Started
  <1>4. Leaving' /\ Whole' /\ Faithful'
    BY <1>0, <1>2 DEF Leaving, NothingLeftBehind, Whole, DeliveredWhole, Working, Faithful, Patched,
       Changed
  <1>5. Gathered'
    BY <1>0 DEF Gathered, Checks, Demanded, Guaranteed
  <1>6. Truthful'
    <2>1. Patched(start)' = Patched(start) /\ start' = start
      BY <1>0 DEF Patched, Changed
    <2> QED BY <1>0, <1>2, <2>1 DEF Truthful
  <1> QED BY <1>3, <1>4, <1>5, <1>6

LEMMA MetricKeeps ==
    ASSUME IInv, Metric
    PROVE  IInv'
  <1> USE DEF IInv, place
  <1> DEFINE c == Head(left)
  <1>0. CASE pc' = "reverse"
    BY <1>0, FailuresGiveUp
  <1>1. CASE pc' # "reverse"
    <2>1. /\ left \in Seq(Check) /\ left # <<>> /\ left' = Tail(left)
          /\ pc = "verify" /\ Terms[c].kind = "metric"
          /\ post' = post \cup {[check |-> c, exit |-> 0]}
          /\ UNCHANGED <<pc, run, adapter, suite, patch, place, start, todo, tries, pre, due, faults, failures>>
      BY <1>1 DEF Sites, Metric
    <2>2. Tail(left) \in Seq(Check) /\ ToSet(left) = {c} \cup ToSet(Tail(left))
      BY <2>1, Stages
    <2>3. SandboxTypeOK' /\ Sites' /\ Started'
      BY <2>1, <2>2 DEF SandboxTypeOK, Sites, Working, Started
    <2>4. Leaving' /\ Whole' /\ Faithful'
      BY <2>1 DEF Leaving, NothingLeftBehind, Whole, DeliveredWhole, Working, Faithful, Patched, Changed
    <2>5. Gathered'
      <3>1. Checks(post)' = Checks(post) \cup {c}
        BY <2>1, Evidence DEF Checks
      <3>2. c \in Guaranteed
        BY <2>1, <2>2 DEF Gathered, Guaranteed
      <3>3. Demanded' = Demanded /\ Guaranteed' = Guaranteed /\ Checks(pre)' = Checks(pre)
        BY <2>1 DEF Demanded, Guaranteed, Checks
      <3> QED BY <2>1, <2>2, <3>1, <3>2, <3>3 DEF Gathered
    <2>6. Truthful'
      <3>1. \A e \in post' : Terms[e.check].kind = "pass_to_pass" => e \in post
        BY <2>1
      <3>2. Patched(start)' = Patched(start)
        BY <2>1 DEF Patched, Changed
      <3> QED BY <2>1, <3>1, <3>2 DEF Truthful
    <2> QED BY <2>3, <2>4, <2>5, <2>6
  <1> QED BY <1>0, <1>1

LEMMA VerifyOverKeeps ==
    ASSUME IInv, VerifyOver
    PROVE  IInv'
  <1> USE DEF IInv, VerifyOver, place, evidence
  <1>1. todo' \subseteq Changed(patch) /\ todo' \subseteq File
    BY DEF Touched, Changed
  <1>2. SandboxTypeOK' /\ Sites' /\ Started'
    BY <1>1 DEF SandboxTypeOK, Sites, Working, Started, Changed
  <1>3. Leaving' /\ Whole' /\ Faithful'
    BY DEF Leaving, NothingLeftBehind, Whole, DeliveredWhole, Working, Faithful
  <1>4. Gathered'
    BY NoStage DEF Gathered, Checks, Demanded, Guaranteed
  <1>5. Truthful'
    BY DEF Truthful, Answers, Patched, Changed
  <1> QED BY <1>2, <1>3, <1>4, <1>5

\* What is copied back is in the patch.
LEMMA SyncKeeps ==
    ASSUME IInv, NEW f \in File, DownloadFile(f) \/ SkipFile(f)
    PROVE  IInv'
  <1> USE DEF IInv, place, evidence
  <1>1. /\ pc = "sync" /\ pc' = "sync" /\ f \in todo /\ todo' = todo \ {f} /\ box # NoTree
        /\ dir' = dir \/ dir' = [dir EXCEPT ![f] = box[f]]
        /\ UNCHANGED <<run, adapter, suite, patch, box, live, start, left, tries, evidence, due>>
    BY DEF DownloadFile, SkipFile
  <1>2. /\ dir' \in Tree /\ f \in Changed(patch)
        /\ \A g \in File \ {f} : dir'[g] = dir[g]
    <2>1. dir \in Tree /\ box \in Tree
      BY <1>1 DEF SandboxTypeOK, Sites, Working
    <2> QED BY <1>1, <2>1 DEF Tree, Sites
  <1>3. faults \subseteq faults' /\ faults' \in SUBSET Faults /\ failures' \in 0..MaxFaults
    <2>1. Quietly \/ May({})
      BY DEF DownloadFile, SkipFile, Quietly
    <2>2. {} \in SUBSET Faults
      BY DEF Faults
    <2> QED BY <2>1, <2>2, MayEffect
  <1>4. SandboxTypeOK'
    BY <1>1, <1>2, <1>3 DEF SandboxTypeOK, Faults
  <1>5. Sites' /\ Started'
    BY <1>1, <1>2 DEF Sites, Working, Started, Changed
  <1>6. Leaving'
    BY <1>1, <1>3 DEF Leaving, NothingLeftBehind
  <1>7. Whole'
    BY <1>1, <1>2, <1>3 DEF Whole, DeliveredWhole, Working, Changed
  <1>8. Faithful'
    BY <1>1 DEF Faithful
  <1>9. Gathered'
    BY <1>1 DEF Gathered, Checks, Demanded, Guaranteed
  <1>10. Truthful'
    BY <1>1, <1>3 DEF Truthful, Answers, Patched, Changed
  <1> QED BY <1>4, <1>5, <1>6, <1>7, <1>8, <1>9, <1>10

LEMMA SyncOverKeeps ==
    ASSUME IInv, SyncOver
    PROVE  IInv'
  <1> USE DEF IInv, SyncOver, place, work, evidence
  <1>1. SandboxTypeOK' /\ Sites' /\ Started'
    BY DEF SandboxTypeOK, Sites, Working, Started
  <1>2. Leaving' /\ Whole' /\ Faithful'
    BY DEF Leaving, NothingLeftBehind, Whole, DeliveredWhole, Working, Faithful
  <1>3. Gathered'
    BY DEF Gathered, Checks, Demanded, Guaranteed
  <1>4. Truthful'
    BY DEF Truthful, Answers, Patched, Changed
  <1> QED BY <1>1, <1>2, <1>3, <1>4

\* The files outside the patch are as the run found them, and the patch is whole.
LEMMA DeliverKeeps ==
    ASSUME IInv, Deliver
    PROVE  IInv'
  <1> USE DEF IInv, Deliver, work, evidence
  <1>1. dir \in Tree /\ start \in Tree
    BY DEF Sites, Working
  <1>2. dir' \in Tree /\ dir' # NoTree
    BY <1>1, Trees, TreeAssumption
  <1>3. SandboxTypeOK' /\ Sites' /\ Started'
    BY <1>2 DEF SandboxTypeOK, Sites, Working, Started, Ended
  <1>4. Leaving' /\ Faithful'
    BY DEF Leaving, NothingLeftBehind, Faithful
  <1>5. Whole'
    <2> SUFFICES ASSUME "agent" \notin faults PROVE dir' = Patched(start)
      BY DEF Whole, DeliveredWhole, Working, Patched, Changed
    <2>1. \A f \in File \ Changed(patch) : dir[f] = start[f]
      BY DEF Whole, Working
    <2> QED BY <2>1 DEF Patched
  <1>6. Gathered'
    BY DEF Gathered, Checks, Demanded, Guaranteed
  <1>7. Truthful'
    BY DEF Truthful, Answers, Patched, Changed
  <1> QED BY <1>3, <1>4, <1>5, <1>6, <1>7

LEMMA ReversePatchKeeps ==
    ASSUME IInv, ReversePatch
    PROVE  IInv'
  <1> USE DEF IInv, ReversePatch, work, evidence
  <1>1. dir' \in Tree \cup {NoTree} /\ box' \in Tree \cup {NoTree} /\ (box' # NoTree => adapter \in Remote)
    <2>1. Site \in Tree /\ dir \in Tree
      BY DEF Site, SandboxTypeOK, Sites, Working
    <2>2. Unpatched(Site) \in Tree
      BY <2>1, Trees
    <2> QED BY <2>1, <2>2 DEF PutSite, SandboxTypeOK
  <1>2. SandboxTypeOK' /\ Sites' /\ Started'
    BY <1>1 DEF SandboxTypeOK, Sites, Working, Started
  <1>3. Leaving' /\ Whole' /\ Faithful' /\ Gathered' /\ Truthful'
    BY DEF Leaving, NothingLeftBehind, Whole, DeliveredWhole, Working, Faithful, Gathered, Truthful
  <1> QED BY <1>2, <1>3

\* A step of a compensation only removes; what it owes is Leaving.
LEMMA Removes ==
    ASSUME IInv, pc \in {"destroy", "cleanup"}, pc' \in {"destroy", "cleanup", "failed"},
           UNCHANGED <<run, adapter, suite, patch, start, work, evidence>>,
           dir' \in {dir, NoTree}, live' \subseteq live, box' \in {box, NoTree},
           faults' \in SUBSET Faults, failures' \in 0..MaxFaults, due' \in 0..2, Leaving'
    PROVE  IInv'
  <1> USE DEF IInv, work, evidence
  <1>1. SandboxTypeOK' /\ Sites' /\ Started'
    BY DEF SandboxTypeOK, Sites, Working, Started, Ended, Faults
  <1>2. Whole' /\ Faithful' /\ Gathered' /\ Truthful'
    BY DEF Whole, DeliveredWhole, Working, Faithful, Gathered, Truthful
  <1> QED BY <1>1, <1>2

\* Until the last compensation nothing is stuck; then it is, or it is gone.
LEMMA Sticks ==
    ASSUME IInv, pc \in {"destroy", "cleanup"}, MayStick \/ Quietly
    PROVE  /\ due \in {1, 2} /\ faults' \in SUBSET Faults /\ failures' \in 0..MaxFaults
           /\ faults \subseteq faults' /\ (MayStick /\ due = 1 => "stuck" \in faults')
  <1> DEFINE f == IF due = 2 THEN {} ELSE {"stuck"}
  <1>1. due \in {1, 2} /\ f \in SUBSET Faults
    BY DEF IInv, Leaving, Faults
  <1>2. May(f) \/ Quietly
    BY DEF MayStick
  <1>3. /\ failures' \in 0..MaxFaults /\ faults' \in SUBSET Faults
        /\ faults \subseteq faults' /\ (May(f) => faults' = faults \cup f)
    BY <1>1, <1>2, MayEffect DEF IInv
  <1>4. MayStick /\ due = 1 => "stuck" \in faults'
    BY <1>1, <1>3 DEF MayStick
  <1> QED BY <1>1, <1>3, <1>4

LEMMA DestroyKeeps ==
    ASSUME IInv, Destroy \/ DestroyE2B \/ DestroyModal
    PROVE  IInv'
  <1>1. /\ pc = "destroy" /\ pc' = "cleanup"
        /\ UNCHANGED <<run, adapter, suite, patch, dir, start, work, evidence, due>>
        /\ MayStick \/ Quietly
        /\ live' \subseteq live /\ box' \in {box, NoTree}
        /\ MayStick \/ adapter \in {"worktree", "humanlayer"} \/ <<adapter, run>> \notin live'
    BY DEF Destroy, DestroyE2B, DestroyModal, Gone
  <1>2. /\ due \in {1, 2} /\ faults' \in SUBSET Faults /\ failures' \in 0..MaxFaults
        /\ faults \subseteq faults' /\ (MayStick /\ due = 1 => "stuck" \in faults')
    BY <1>1, Sticks
  <1>3. adapter = "worktree" => <<adapter, run>> \notin live'
    BY <1>1 DEF IInv, Started
  <1>4. Leaving'
    BY <1>1, <1>2, <1>3 DEF Leaving, NothingLeftBehind
  <1> QED BY <1>1, <1>2, <1>4, Removes

LEMMA CleanupKeeps ==
    ASSUME IInv, DestroyRaises \/ Cleanup \/ CleanupFails
    PROVE  IInv'
  <1>1. /\ pc \in {"destroy", "cleanup"} /\ pc' = (IF due = 2 THEN "destroy" ELSE "failed")
        /\ due' = due - 1
        /\ UNCHANGED <<run, adapter, suite, patch, start, work, evidence>>
        /\ MayStick \/ Quietly
        /\ dir' \in {dir, NoTree} /\ live' \subseteq live /\ box' \in {box, NoTree}
        /\ MayStick \/ (pc = "cleanup" /\ dir' = NoTree /\ faults' = faults)
    BY DEF DestroyRaises, Cleanup, CleanupFails, Onward, Gone, Quietly, place
  <1>2. /\ due \in {1, 2} /\ faults' \in SUBSET Faults /\ failures' \in 0..MaxFaults
        /\ faults \subseteq faults' /\ (MayStick /\ due = 1 => "stuck" \in faults')
    BY <1>1, Sticks
  <1>3. Leaving'
    <2>1. CASE due = 2
      BY <1>1, <2>1 DEF Leaving, NothingLeftBehind
    <2>2. CASE due = 1 /\ MayStick
      BY <1>1, <1>2, <2>2 DEF Leaving, NothingLeftBehind
    <2>3. CASE due = 1 /\ ~MayStick
      <3>1. "stuck" \notin faults /\ adapter # "humanlayer" => <<adapter, run>> \notin live
        BY <1>1, <2>3 DEF IInv, Leaving
      <3> QED BY <1>1, <2>3, <3>1 DEF Leaving, NothingLeftBehind
    <2> QED BY <1>2, <2>1, <2>2, <2>3
  <1>4. due' \in 0..2 /\ pc' \in {"destroy", "cleanup", "failed"}
    BY <1>1, <1>2
  <1> QED BY <1>1, <1>2, <1>3, <1>4, Removes

LEMMA EndsKeeps ==
    ASSUME IInv, NEW s \in live, Expire(s) \/ SessionEnds(s)
    PROVE  IInv'
  <1> USE DEF IInv, work, evidence
  <1>1. /\ live' \subseteq live /\ box' \in {box, NoTree}
        /\ UNCHANGED <<pc, run, adapter, suite, patch, dir, start, work, evidence, due, faults, failures>>
    BY DEF Expire, SessionEnds
  <1>2. SandboxTypeOK' /\ Sites' /\ Started'
    BY <1>1 DEF SandboxTypeOK, Sites, Working, Started, Changed
  <1>3. Leaving' /\ Whole'
    BY <1>1 DEF Leaving, NothingLeftBehind, Whole, DeliveredWhole, Working, Changed, Patched
  <1>4. Patched(start)' = Patched(start)
    BY <1>1 DEF Patched, Changed
  <1>5. Faithful'
    BY <1>1, <1>4 DEF Faithful
  <1>6. Gathered'
    BY <1>1 DEF Gathered, Checks, Demanded, Guaranteed
  <1>7. Truthful'
    BY <1>1, <1>4 DEF Truthful
  <1> QED BY <1>2, <1>3, <1>5, <1>6, <1>7

LEMMA SessionWritesKeeps ==
    ASSUME IInv, NEW s \in live, NEW f \in File, SessionWrites(s, f)
    PROVE  IInv'
  <1> USE DEF IInv, work, evidence
  <1>1. /\ dir \in Tree /\ dir' \in Tree /\ dir' # NoTree
    BY TreeAssumption DEF SessionWrites, SandboxTypeOK, Tree, Content
  <1>2. /\ dir # NoTree /\ "agent" \in faults' /\ faults' = faults \cup {"agent"}
        /\ UNCHANGED <<pc, run, adapter, suite, patch, box, live, start, work, evidence, due, failures>>
    BY DEF SessionWrites
  <1>3. SandboxTypeOK'
    BY <1>1, <1>2 DEF SandboxTypeOK
  <1>4. Sites' /\ Started'
    BY <1>1, <1>2 DEF Sites, Working, Started, Changed
  <1>5. Leaving'
    BY <1>2 DEF Leaving, NothingLeftBehind
  <1>6. Whole' /\ Faithful' /\ Truthful'
    BY <1>2 DEF Whole, DeliveredWhole, Faithful, Truthful
  <1>7. Gathered'
    BY <1>2 DEF Gathered, Checks, Demanded, Guaranteed
  <1> QED BY <1>3, <1>4, <1>5, <1>6, <1>7

-------------------------------------------------------------------------------
(* The invariant and what follows from it.                                   *)

LEMMA Initial == Init => IInv
  <1> SUFFICES ASSUME Init PROVE IInv
    OBVIOUS
  <1> USE DEF Init
  <1>1. SandboxTypeOK
    BY BoundAssumption DEF SandboxTypeOK, Ended
  <1>2. Sites /\ Started
    BY NoStage DEF Sites, Working, Started
  <1>3. Leaving /\ Whole /\ Faithful /\ Gathered /\ Truthful
    BY DEF Leaving, NothingLeftBehind, Whole, DeliveredWhole, Working, Faithful, Gathered, Truthful
  <1> QED BY <1>1, <1>2, <1>3 DEF IInv

LEMMA Stutter == IInv /\ UNCHANGED vars => IInv'
  <1> SUFFICES ASSUME IInv, UNCHANGED vars PROVE IInv'
    OBVIOUS
  <1> USE DEF IInv, vars, place, work, evidence
  <1>1. SandboxTypeOK' /\ Sites' /\ Started'
    BY DEF SandboxTypeOK, Sites, Working, Started, Changed
  <1>2. Patched(start)' = Patched(start)
    BY DEF Patched, Changed
  <1>3. Leaving' /\ Whole'
    BY <1>2 DEF Leaving, NothingLeftBehind, Whole, DeliveredWhole, Working, Changed
  <1>4. Faithful' /\ Truthful'
    BY <1>2 DEF Faithful, Truthful
  <1>5. Gathered'
    BY DEF Gathered, Checks, Demanded, Guaranteed
  <1> QED BY <1>1, <1>3, <1>4, <1>5

LEMMA Inductive == IInv /\ [Next]_vars => IInv'
  <1> SUFFICES ASSUME IInv, [Next]_vars PROVE IInv'
    OBVIOUS
  <1>1. ASSUME NEW a \in Adapters, NEW s \in Suite, NEW p \in Patch, StartRun(a, s, p) PROVE IInv'
    BY <1>1, StartRunKeeps
  <1>2. CASE Prepare
    BY <1>2, CreateWorktreeKeeps, PrepareFails, LaunchKeeps, CreateSandboxKeeps, UploadOverKeeps,
       FailuresGiveUp, UploadKeeps DEF Prepare
  <1>3. CASE Baseline
    BY <1>3, SkipCheckKeeps, SelectorFailsKeeps, FailuresGiveUp, BaselineOverKeeps DEF Baseline
  <1>4. CASE Verify
    BY <1>4, ExecuteKeeps, FailuresGiveUp, ApplyPatchKeeps, CheckPassesKeeps, CheckIsRepeatedKeeps,
       MetricKeeps, VerifyOverKeeps DEF Verify
  <1>5. CASE Return
    BY <1>5, SyncOverKeeps, FailuresGiveUp, DeliverKeeps, SyncKeeps DEF Return
  <1>6. CASE Compensate
    BY <1>6, ReversePatchKeeps, FailuresGiveUp, DestroyKeeps, CleanupKeeps DEF Compensate
  <1>7. CASE Meanwhile
    BY <1>7, FailuresGiveUp, EndsKeeps, SessionWritesKeeps DEF Meanwhile, Others
  <1>8. CASE UNCHANGED vars
    BY <1>8, Stutter
  <1> QED BY <1>1, <1>2, <1>3, <1>4, <1>5, <1>6, <1>7, <1>8 DEF Next

\* IInv holds in every reachable state.
THEOREM Always == Spec => []IInv
  BY Initial, Inductive, PTL DEF Spec

\* The types of a run's state, whatever the adapter, with at most one container.
THEOREM TypeCorrect == Spec => []SandboxTypeOK
  <1>1. IInv => SandboxTypeOK
    BY DEF IInv
  <1> QED BY <1>1, Always, PTL

\* vcs.py:46-69 with remote_compute.py:92-115: whichever files of whatever patch
\* are lost on the way to the sandbox and back, a delivered workspace is whole.
THEOREM DeliveredWholeTheorem == Spec => []DeliveredWhole
  <1>1. IInv => DeliveredWhole
    BY DEF IInv, Whole
  <1> QED BY <1>1, Always, PTL

\* verifier.py:127-187: for every list of contracts, the evidence of a delivered
\* patch is complete; what is recorded of the tree before it is what that tree gives
\* or a breakdown, and what is recorded of the tree with it that tree can give.
THEOREM EvidenceHoldsTheorem == Spec => []EvidenceHolds
  <1>1. ASSUME IInv PROVE EvidenceHolds
    <2> SUFFICES ASSUME pc \in {"sync", "deliver", "delivered"}, faults \cap {"lost", "agent"} = {}
                 PROVE  /\ Checks(pre) = Demanded
                        /\ \A e \in pre : e.exit \in (Answers(e.check, start) \ {0}) \cup Breakdown
                        /\ Checks(post) = Guaranteed
                        /\ \A e \in post : Terms[e.check].kind = "pass_to_pass" /\ "blind" \notin faults =>
                              0 \in Answers(e.check, Patched(start))
      BY DEF EvidenceHolds, Checks, Demanded, Guaranteed
    <2> QED BY <1>1 DEF IInv, Gathered, Truthful
  <1>2. IInv => EvidenceHolds
    BY <1>1
  <1> QED BY <1>2, Always, PTL

\* remote_compute.py:117-146, docker.py:62-88: after any failures of any number of
\* runs, what a failed one has not failed to remove is gone.
THEOREM NothingLeftBehindTheorem == Spec => []NothingLeftBehind
  <1>1. IInv => NothingLeftBehind
    BY DEF IInv, Leaving
  <1> QED BY <1>1, Always, PTL

-------------------------------------------------------------------------------
(* A run comes to its end.                                                   *)

Nearer == Remaining' < Remaining

\* What the rank is made of.
Measured(files, checks, coming, ahead) ==
    /\ files \in Nat /\ checks \in Nat /\ coming \in 0..files /\ ahead \in Nat
    /\ tries \in 0..3 /\ due \in 0..2
    /\ pc \in {"destroy", "cleanup"} => due \in {1, 2}

LEMMA Sizes ==
    ASSUME IInv
    PROVE  /\ IsFiniteSet(todo)
           /\ Measured(Cardinality(File), Len(suite), Cardinality(todo), Len(left))
  <1>1. todo \in SUBSET File /\ suite \in Seq(Check) /\ left \in Seq(Check)
    BY Suites DEF IInv, SandboxTypeOK, Sites
  <1>2. IsFiniteSet(todo) /\ Cardinality(todo) <= Cardinality(File)
    BY <1>1, FileAssumption, FS_Subset
  <1>3. Cardinality(todo) \in Nat /\ Cardinality(File) \in Nat
    BY <1>2, FileAssumption, FS_CardinalityType
  <1>4. Len(suite) \in Nat /\ Len(left) \in Nat
    BY <1>1, LenProperties
  <1>5. tries \in 0..3 /\ due \in 0..2 /\ (pc \in {"destroy", "cleanup"} => due \in {1, 2})
    BY DEF IInv, SandboxTypeOK, Leaving
  <1> QED BY <1>2, <1>3, <1>4, <1>5 DEF Measured

LEMMA SizesThen ==
    ASSUME IInv'
    PROVE  Measured(Cardinality(File), Len(suite), Cardinality(todo), Len(left))'
  <1>1. todo' \in SUBSET File /\ suite' \in Suite /\ left' \in Seq(Check)
    BY DEF IInv, SandboxTypeOK, Sites
  <1>2. IsFiniteSet(todo') /\ Cardinality(todo') <= Cardinality(File)
    BY <1>1, FileAssumption, FS_Subset
  <1>3. Cardinality(todo') \in Nat /\ Cardinality(File) \in Nat
    BY <1>2, FileAssumption, FS_CardinalityType
  <1>4. Len(suite') \in Nat /\ Len(left') \in Nat
    BY <1>1, SuiteAssumption, LenProperties
  <1>5. tries' \in 0..3 /\ due' \in 0..2 /\ (pc' \in {"destroy", "cleanup"} => due' \in {1, 2})
    BY DEF IInv, SandboxTypeOK, Leaving
  <1> QED BY <1>2, <1>3, <1>4, <1>5 DEF Measured

LEMMA RemainingNow ==
    /\ pc \in Ended     => Remaining = 0
    /\ pc = "cleanup"   => Remaining = 2 * due - 1
    /\ pc = "destroy"   => Remaining = 2 * due
    /\ pc = "deliver"   => Remaining = 4
    /\ pc = "reverse"   => Remaining = 5
    /\ pc = "sync"      => Remaining = 5 + Cardinality(todo)
    /\ pc = "verify"    => Remaining = 9 + Cardinality(File) + 4 * Len(left) - tries
    /\ pc = "apply"     => Remaining = 10 + Cardinality(File) + 4 * Len(suite)
    /\ pc = "execute"   => Remaining = 11 + Cardinality(File) + 4 * Len(suite)
    /\ pc = "baseline"  => Remaining = 12 + Cardinality(File) + 4 * Len(suite) + Len(left)
    /\ pc = "upload"    => Remaining = 13 + Cardinality(File) + 5 * Len(suite) + Cardinality(todo)
    /\ pc = "launch"    => Remaining = 14 + 2 * Cardinality(File) + 5 * Len(suite)
    /\ pc = "create"    => Remaining = 15 + 2 * Cardinality(File) + 5 * Len(suite)
  BY DEF Remaining, Ended

LEMMA RemainingThen ==
    /\ pc' \in Ended     => Remaining' = 0
    /\ pc' = "cleanup"   => Remaining' = 2 * due' - 1
    /\ pc' = "destroy"   => Remaining' = 2 * due'
    /\ pc' = "deliver"   => Remaining' = 4
    /\ pc' = "reverse"   => Remaining' = 5
    /\ pc' = "sync"      => Remaining' = 5 + Cardinality(todo')
    /\ pc' = "verify"    => Remaining' = 9 + Cardinality(File) + 4 * Len(left') - tries'
    /\ pc' = "apply"     => Remaining' = 10 + Cardinality(File) + 4 * Len(suite')
    /\ pc' = "execute"   => Remaining' = 11 + Cardinality(File) + 4 * Len(suite')
    /\ pc' = "baseline"  => Remaining' = 12 + Cardinality(File) + 4 * Len(suite') + Len(left')
    /\ pc' = "upload"    => Remaining' = 13 + Cardinality(File) + 5 * Len(suite') + Cardinality(todo')
    /\ pc' = "launch"    => Remaining' = 14 + 2 * Cardinality(File) + 5 * Len(suite')
    /\ pc' = "create"    => Remaining' = 15 + 2 * Cardinality(File) + 5 * Len(suite')
  BY DEF Remaining, Ended

\* Before its compensations a run has more steps ahead than these are.
LEMMA FarFromEnd ==
    ASSUME IInv, pc \notin Ended
    PROVE  /\ Remaining \in Nat \ {0}
           /\ pc \in Working => Remaining >= 4
           /\ pc = "verify" => Remaining >= 6
  <1>1. Measured(Cardinality(File), Len(suite), Cardinality(todo), Len(left))
    BY Sizes
  <1>2. pc \in {"create", "launch", "upload", "baseline", "execute", "apply", "verify",
                "reverse", "destroy", "cleanup", "sync", "deliver"}
    BY DEF IInv, SandboxTypeOK
  <1>3. ASSUME pc \in {"cleanup", "destroy"} PROVE Remaining \in Nat \ {0}
    BY <1>1, <1>3, RemainingNow DEF Measured
  <1>4. ASSUME pc \in {"deliver", "reverse", "sync"} PROVE Remaining \in Nat /\ Remaining >= 4
    BY <1>1, <1>4, RemainingNow DEF Measured
  <1>5. ASSUME pc = "verify" PROVE Remaining \in Nat /\ Remaining >= 6
    BY <1>1, <1>5, RemainingNow DEF Measured
  <1>6. ASSUME pc \in {"apply", "execute"} PROVE Remaining \in Nat /\ Remaining >= 10
    BY <1>1, <1>6, RemainingNow DEF Measured
  <1>7. ASSUME pc \in {"baseline", "upload"} PROVE Remaining \in Nat /\ Remaining >= 10
    BY <1>1, <1>7, RemainingNow DEF Measured
  <1>8. ASSUME pc \in {"launch", "create"} PROVE Remaining \in Nat /\ Remaining >= 10
    BY <1>1, <1>8, RemainingNow DEF Measured
  <1>9. Remaining \in Nat \ {0}
    BY <1>2, <1>3, <1>4, <1>5, <1>6, <1>7, <1>8
  <1>10. pc \in Working => Remaining >= 4
    <2> SUFFICES ASSUME pc \in Working PROVE Remaining >= 4
      OBVIOUS
    <2>1. CASE pc \in {"deliver", "reverse", "sync"}
      BY <1>4, <2>1
    <2>2. CASE pc = "verify"
      BY <1>5, <2>2
    <2>3. CASE pc \in {"apply", "execute", "baseline", "upload", "launch"}
      BY <1>6, <1>7, <1>8, <2>3
    <2> QED BY <2>1, <2>2, <2>3 DEF Working
  <1> QED BY <1>5, <1>9, <1>10

\* A run that gives up has its compensations before it, and nothing else.
LEMMA GivingUpNearer ==
    ASSUME IInv, \/ UploadRaises \/ SelectorPasses \/ CommandRaises \/ ExecuteRaises \/ ApplyRefused
                 \/ DownloadRaises \/ DeliverRaises \/ ReverseRefused
    PROVE  Nearer
  <1>1. pc \in Working /\ pc' = "destroy" /\ due' = 1
    BY DEF UploadRaises, SelectorPasses, CommandRaises, ExecuteRaises, ApplyRefused,
           DownloadRaises, DeliverRaises, ReverseRefused, Raise, Working
  <1>2. Remaining \in Nat /\ Remaining >= 4
    BY <1>1, FarFromEnd DEF Working, Ended
  <1>3. Remaining' = 2
    BY <1>1, RemainingThen
  <1> QED BY <1>2, <1>3 DEF Nearer

\* So does one that is over.
LEMMA OverNearer ==
    ASSUME IInv, pc \notin Ended, pc' \in Ended
    PROVE  Nearer
  <1>1. Remaining \in Nat \ {0} /\ Remaining' = 0
    BY FarFromEnd, RemainingThen
  <1> QED BY <1>1 DEF Nearer

LEMMA PrepareNearer ==
    ASSUME IInv, IInv', Prepare
    PROVE  Nearer
  <1> DEFINE N == Cardinality(File)  L == Len(suite)  T == Cardinality(todo)
  <1>1. /\ Measured(N, L, T, Len(left)) /\ Measured(N, L, T, Len(left))' /\ IsFiniteSet(todo)
        /\ N' = N
    BY Sizes, SizesThen
  <1>2. L \in Nat /\ L' \in Nat /\ N \in Nat /\ T \in 0..N /\ T' \in 0..N
    BY <1>1 DEF Measured
  <1>3. CASE CreateWorktree
    <2>1. pc = "create" /\ pc' = "launch" /\ suite' = suite
      BY <1>3 DEF CreateWorktree
    <2>2. Remaining = 15 + 2 * N + 5 * L /\ Remaining' = 14 + 2 * N + 5 * L
      BY <2>1, RemainingNow, RemainingThen
    <2> HIDE DEF N, L, T
    <2> QED BY <1>2, <2>2 DEF Nearer
  <1>4. CASE CreateWorktreeFails \/ LaunchFails \/ ProviderFails
    <2>1. pc \notin Ended /\ pc' \in Ended
      BY <1>4 DEF CreateWorktreeFails, LaunchFails, ProviderFails, Ended
    <2> QED BY <2>1, OverNearer
  <1>5. CASE LaunchNothing \/ LaunchContainer \/ LaunchSession
    <2>1. pc = "launch" /\ pc' = "baseline" /\ suite' = suite /\ left' = suite
      BY <1>5 DEF LaunchNothing, LaunchContainer, LaunchSession, BeginBaseline
    <2>2. Remaining = 14 + 2 * N + 5 * L /\ Remaining' = 12 + N + 4 * L + L
      BY <2>1, RemainingNow, RemainingThen
    <2> HIDE DEF N, L, T
    <2> QED BY <1>2, <2>2 DEF Nearer
  <1>6. CASE CreateSandbox
    <2>1. pc = "launch" /\ pc' = "upload" /\ suite' = suite
      BY <1>6 DEF CreateSandbox
    <2>2. Remaining = 14 + 2 * N + 5 * L /\ Remaining' = 13 + N + 5 * L + T'
      BY <2>1, RemainingNow, RemainingThen
    <2>3. T' \in Nat /\ T' <= N
      BY <1>2
    <2>4. \A n, l, t \in Nat : t <= n => 13 + n + 5 * l + t < 14 + 2 * n + 5 * l
      OBVIOUS
    <2> HIDE DEF N, L, T
    <2>5. 13 + N + 5 * L + T' < 14 + 2 * N + 5 * L
      BY <1>2, <2>3, <2>4
    <2> QED BY <2>2, <2>5 DEF Nearer
  <1>7. CASE UploadOver
    <2>1. pc = "upload" /\ pc' = "baseline" /\ suite' = suite /\ left' = suite
      BY <1>7 DEF UploadOver, BeginBaseline
    <2>2. Remaining = 13 + N + 5 * L + T /\ Remaining' = 12 + N + 4 * L + L
      BY <2>1, RemainingNow, RemainingThen
    <2> HIDE DEF N, L, T
    <2> QED BY <1>2, <2>2 DEF Nearer
  <1>8. CASE UploadRaises
    BY <1>8, GivingUpNearer
  <1>9. ASSUME NEW f \in File, UploadFile(f) \/ LoseFile(f) PROVE Nearer
    <2>1. /\ pc = "upload" /\ pc' = "upload" /\ suite' = suite
          /\ f \in todo /\ todo' = todo \ {f}
      BY <1>9 DEF UploadFile, LoseFile
    <2>2. T' = T - 1
      BY <1>1, <2>1, FS_RemoveElement
    <2>3. Remaining = 13 + N + 5 * L + T /\ Remaining' = 13 + N + 5 * L + T'
      BY <2>1, RemainingNow, RemainingThen
    <2> HIDE DEF N, L, T
    <2> QED BY <1>2, <2>2, <2>3 DEF Nearer
  <1> QED BY <1>3, <1>4, <1>5, <1>6, <1>7, <1>8, <1>9 DEF Prepare

\* A check that a stage leaves behind is one less.
LEMMA OneLess ==
    ASSUME IInv, left # <<>>
    PROVE  Len(Tail(left)) = Len(left) - 1
  BY HeadTailProperties DEF IInv, Sites

LEMMA BaselineNearer ==
    ASSUME IInv, IInv', Baseline
    PROVE  Nearer
  <1> DEFINE N == Cardinality(File)  L == Len(suite)
  <1>1. /\ Measured(N, L, Cardinality(todo), Len(left))
        /\ Measured(N, L, Cardinality(todo), Len(left))' /\ N' = N
    BY Sizes, SizesThen
  <1>2. L \in Nat /\ N \in Nat /\ Len(left) \in Nat /\ Len(left') \in Nat /\ tries \in 0..3
    BY <1>1 DEF Measured
  <1>3. CASE (SkipCheck \/ SelectorFails) /\ pc = "baseline"
    <2>1. pc' = "baseline" /\ suite' = suite /\ left # <<>> /\ left' = Tail(left)
      BY <1>3 DEF SkipCheck, SelectorFails
    <2>2. Len(left') = Len(left) - 1
      BY <2>1, OneLess
    <2>3. Remaining = 12 + N + 4 * L + Len(left) /\ Remaining' = 12 + N + 4 * L + Len(left')
      BY <1>3, <2>1, RemainingNow, RemainingThen
    <2> HIDE DEF N, L
    <2> QED BY <1>2, <2>2, <2>3 DEF Nearer
  <1>4. CASE SkipCheck /\ pc = "verify"
    <2>1. pc' = "verify" /\ left # <<>> /\ left' = Tail(left) /\ tries' = tries
      BY <1>4 DEF SkipCheck
    <2>2. Len(left') = Len(left) - 1
      BY <2>1, OneLess
    <2>3. Remaining = 9 + N + 4 * Len(left) - tries /\ Remaining' = 9 + N + 4 * Len(left') - tries
      BY <1>4, <2>1, RemainingNow, RemainingThen
    <2> HIDE DEF N, L
    <2> QED BY <1>2, <2>2, <2>3 DEF Nearer
  <1>5. CASE SelectorPasses
    BY <1>5, GivingUpNearer
  <1>6. CASE BaselineOver
    <2>1. pc = "baseline" /\ pc' = "execute" /\ suite' = suite /\ left = <<>>
      BY <1>6 DEF BaselineOver
    <2>2. Remaining = 12 + N + 4 * L + Len(left) /\ Remaining' = 11 + N + 4 * L
      BY <2>1, RemainingNow, RemainingThen
    <2> HIDE DEF N, L
    <2> QED BY <1>2, <2>2 DEF Nearer
  <1>7. SkipCheck => pc \in {"baseline", "verify"}
    BY DEF SkipCheck
  <1>8. SelectorFails => pc = "baseline"
    BY DEF SelectorFails
  <1> QED BY <1>3, <1>4, <1>5, <1>6, <1>7, <1>8 DEF Baseline

LEMMA VerifyNearer ==
    ASSUME IInv, IInv', Verify
    PROVE  Nearer
  <1> DEFINE N == Cardinality(File)  L == Len(suite)  T == Cardinality(todo)
  <1>1. Measured(N, L, T, Len(left)) /\ Measured(N, L, T, Len(left))' /\ N' = N
    BY Sizes, SizesThen
  <1>2. /\ L \in Nat /\ N \in Nat /\ T' \in Nat /\ T' <= N
        /\ Len(left) \in Nat /\ Len(left') \in Nat /\ tries \in 0..3
    BY <1>1 DEF Measured
  <1>3. CASE Execute
    <2>1. pc = "execute" /\ pc' = "apply" /\ suite' = suite
      BY <1>3 DEF Execute
    <2>2. Remaining = 11 + N + 4 * L /\ Remaining' = 10 + N + 4 * L
      BY <2>1, RemainingNow, RemainingThen
    <2> HIDE DEF N, L, T
    <2> QED BY <1>2, <2>2 DEF Nearer
  <1>4. CASE ExecuteRaises \/ ApplyRefused \/ CommandRaises
    BY <1>4, GivingUpNearer
  <1>5. CASE ApplyPatch
    <2>1. pc = "apply" /\ pc' = "verify" /\ left' = suite /\ tries' = 0
      BY <1>5 DEF ApplyPatch
    <2>2. Remaining = 10 + N + 4 * L /\ Remaining' = 9 + N + 4 * L - 0
      BY <2>1, RemainingNow, RemainingThen
    <2> HIDE DEF N, L, T
    <2> QED BY <1>2, <2>2 DEF Nearer
  <1>6. CASE CheckPasses \/ (Metric /\ pc' = pc)
    <2>1. /\ pc = "verify" /\ pc' = "verify" /\ left # <<>> /\ left' = Tail(left)
          /\ tries' \in {0, tries}
      BY <1>6 DEF CheckPasses, Metric
    <2>2. Len(left') = Len(left) - 1
      BY <2>1, OneLess
    <2>3. Remaining = 9 + N + 4 * Len(left) - tries /\ Remaining' = 9 + N + 4 * Len(left') - tries'
      BY <2>1, RemainingNow, RemainingThen
    <2>4. tries' \in 0..3
      BY <1>2, <2>1
    <2> HIDE DEF N, L, T
    <2> QED BY <1>2, <2>2, <2>3, <2>4 DEF Nearer
  <1>7. CASE CheckIsRepeated
    <2>1. pc = "verify" /\ pc' = "verify" /\ left' = left /\ tries' = tries + 1
      BY <1>7 DEF CheckIsRepeated
    <2>2. Remaining = 9 + N + 4 * Len(left) - tries /\ Remaining' = 9 + N + 4 * Len(left) - (tries + 1)
      BY <2>1, RemainingNow, RemainingThen
    <2> HIDE DEF N, L, T
    <2> QED BY <1>2, <2>2 DEF Nearer
  <1>8. CASE CheckFails \/ PytestMissing \/ (Metric /\ pc' = "reverse")
    <2>1. pc = "verify" /\ pc' = "reverse"
      BY <1>8 DEF CheckFails, PytestMissing, Metric
    <2>2. Remaining \in Nat /\ Remaining >= 6 /\ Remaining' = 5
      BY <2>1, FarFromEnd, RemainingThen DEF Ended
    <2> QED BY <2>2 DEF Nearer
  <1>9. CASE VerifyOver
    <2>1. pc = "verify" /\ pc' = "sync" /\ left = <<>>
      BY <1>9 DEF VerifyOver
    <2>2. Len(left) = 0
      BY <2>1
    <2>3. Remaining = 9 + N + 4 * Len(left) - tries /\ Remaining' = 5 + T'
      BY <2>1, RemainingNow, RemainingThen
    <2>4. \A n, t \in Nat : \A k \in 0..3 : t <= n => 5 + t < 9 + n + 4 * 0 - k
      OBVIOUS
    <2> HIDE DEF N, L, T
    <2>5. 5 + T' < 9 + N + 4 * Len(left) - tries
      BY <1>2, <2>2, <2>4
    <2> QED BY <2>3, <2>5 DEF Nearer
  <1>10. Metric => pc' = pc \/ pc' = "reverse"
    BY DEF Metric
  <1> QED BY <1>3, <1>4, <1>5, <1>6, <1>7, <1>8, <1>9, <1>10 DEF Verify

LEMMA ReturnNearer ==
    ASSUME IInv, IInv', Return
    PROVE  Nearer
  <1> DEFINE T == Cardinality(todo)
  <1>1. IsFiniteSet(todo) /\ T \in Nat
    BY Sizes, FS_CardinalityType
  <1>2. ASSUME NEW f \in File, DownloadFile(f) \/ SkipFile(f) PROVE Nearer
    <2>1. pc = "sync" /\ pc' = "sync" /\ f \in todo /\ todo' = todo \ {f}
      BY <1>2 DEF DownloadFile, SkipFile
    <2>2. T' = T - 1
      BY <1>1, <2>1, FS_RemoveElement
    <2>3. Remaining = 5 + T /\ Remaining' = 5 + T'
      BY <2>1, RemainingNow, RemainingThen
    <2> HIDE DEF T
    <2> QED BY <1>1, <2>2, <2>3 DEF Nearer
  <1>3. CASE SyncOver
    <2>1. pc = "sync" /\ pc' = "deliver"
      BY <1>3 DEF SyncOver
    <2>2. Remaining = 5 + T /\ Remaining' = 4
      BY <2>1, RemainingNow, RemainingThen
    <2> HIDE DEF T
    <2> QED BY <1>1, <2>2 DEF Nearer
  <1>4. CASE DownloadRaises \/ DeliverRaises
    BY <1>4, GivingUpNearer
  <1>5. CASE Deliver
    <2>1. pc \notin Ended /\ pc' \in Ended
      BY <1>5 DEF Deliver, Ended
    <2> QED BY <2>1, OverNearer
  <1> QED BY <1>2, <1>3, <1>4, <1>5 DEF Return

LEMMA CompensateNearer ==
    ASSUME IInv, Compensate
    PROVE  Nearer
  <1>1. due \in 0..2 /\ (pc \in {"destroy", "cleanup"} => due \in {1, 2})
    BY Sizes DEF Measured
  <1>2. CASE ReversePatch
    <2>1. pc = "reverse" /\ pc' = "destroy" /\ due' = 2
      BY <1>2 DEF ReversePatch
    <2> QED BY <2>1, RemainingNow, RemainingThen DEF Nearer
  <1>3. CASE ReverseRefused
    BY <1>3, GivingUpNearer
  <1>4. CASE Destroy \/ DestroyE2B \/ DestroyModal
    <2>1. pc = "destroy" /\ pc' = "cleanup" /\ due' = due
      BY <1>4 DEF Destroy, DestroyE2B, DestroyModal
    <2>2. Remaining = 2 * due /\ Remaining' = 2 * due - 1
      BY <2>1, RemainingNow, RemainingThen
    <2> QED BY <1>1, <2>2 DEF Nearer
  <1>5. CASE DestroyRaises \/ Cleanup \/ CleanupFails
    <2>1. pc \in {"destroy", "cleanup"} /\ due' = due - 1
          /\ (pc' = IF due = 2 THEN "destroy" ELSE "failed")
      BY <1>5 DEF DestroyRaises, Cleanup, CleanupFails, Onward
    <2>2. CASE due = 2
      <3>1. Remaining' = 2 /\ Remaining \in {3, 4}
        BY <2>1, <2>2, RemainingNow, RemainingThen
      <3> QED BY <3>1 DEF Nearer
    <2>3. CASE due = 1
      <3>1. pc \notin Ended /\ pc' \in Ended
        BY <2>1, <2>3 DEF Ended
      <3> QED BY <3>1, OverNearer
    <2> QED BY <1>1, <2>1, <2>2, <2>3
  <1> QED BY <1>2, <1>3, <1>4, <1>5 DEF Compensate

\* verifier.py:156-187, remote_compute.py:46-90, pipeline.py:338-413: for any suite
\* and any finite number of files a run takes at most so many steps of its own,
\* whichever files are lost, checks repeated and compensations done over, and
\* whatever happens to its sandbox and its worktree meanwhile.
THEOREM EveryStepCountsTheorem == Spec => EveryStepCounts
  <1>1. ASSUME IInv, IInv', [Next]_vars
        PROVE  [run' = run => Nearer \/ Others]_vars
    <2> SUFFICES ASSUME Next, run' = run, ~Others PROVE Nearer
      BY <1>1
    <2>1. ASSUME NEW a \in Adapters, NEW s \in Suite, NEW p \in Patch, StartRun(a, s, p) PROVE FALSE
      <3>1. run \in Nat /\ run' = run + 1
        BY <1>1, <2>1, BoundAssumption DEF StartRun, IInv, SandboxTypeOK
      <3> QED BY <3>1
    <2>2. CASE Cancel
      <3>1. pc \notin Ended /\ pc' \in Ended
        BY <2>2 DEF Cancel, Ended
      <3> QED BY <1>1, <3>1, OverNearer
    <2> QED BY <1>1, <2>1, <2>2, PrepareNearer, BaselineNearer, VerifyNearer, ReturnNearer,
               CompensateNearer DEF Next, Meanwhile
  <1>2. IInv /\ IInv' /\ [Next]_vars => [run' = run => Nearer \/ Others]_vars
    BY <1>1
  <1> QED BY <1>2, Always, PTL DEF Spec, EveryStepCounts, Nearer

================================================================================
