--------------------------- MODULE PipelineRunProofs ---------------------------
(*****************************************************************************)
(* What PipelineRun guarantees for every set of patches and requests and any *)
(* number of runs. Whatever fails: its types; the action cache never holds a *)
(* patch without evidence of both kinds (lowering_config.json:41); no        *)
(* sandbox is missing on the saga; no attempt goes on beyond the budget; a   *)
(* run in a sandbox does not put its patch into repo_root; the runs          *)
(* implement PatchAdmission; the log explains each failure; a rollback that  *)
(* went through has restored repo_root; every step brings a run closer to    *)
(* its end. As long as certain things do not fail: compensation destroys     *)
(* what was started, evidence is about the base, and what was verified is    *)
(* what is delivered.                                                        *)
(*****************************************************************************)
EXTENDS PipelineRun, SequenceTheorems, TLAPS

-------------------------------------------------------------------------------
(* Trees.                                                                    *)

\* Applying and reversing a patch gives a tree, and an applied patch is there.
LEMMA PatchTypes ==
    ASSUME NEW T \in Tree, NEW p \in Patch
    PROVE  /\ Plus(T, p) \in Tree
           /\ Minus(T, p) \in Tree
           /\ Applies(T, p) => Reverses(Plus(T, p), p)
  <1>1. p \in Change /\ p \notin Clash
    BY PatchAssumption DEF Change
  <1>2. Plus(T, p) \in Tree /\ Minus(T, p) \in Tree
    BY <1>1 DEF Tree, Plus, Minus, Presence
  <1>3. ASSUME Applies(T, p)
        PROVE  Reverses(Plus(T, p), p)
    BY <1>1, <1>3, PatchAssumption DEF Tree, Plus, Applies, Reverses, Clean, Presence
  <1> QED BY <1>2, <1>3

-------------------------------------------------------------------------------
(* The inductive invariant.                                                  *)

\* While an attempt goes on, its directories exist and its patch is known.
SitesExist ==
    pc \in {"baseline", "execute", "apply", "verify", "reverse", "sync", "deliver"} =>
        tree[Site] \in Tree /\ tree[Workspace] \in Tree
TrialKnown ==
    pc \in {"apply", "verify", "reverse", "revert", "compensate", "escalate", "sync",
            "deliver", "cache"} => patch \in Patch

\* The evidence gathered so far is what its name says, and there is none of the
\* second kind before a verification succeeded.
BaselineSound ==
    /\ prePatch # NoTree => ~Fixed(prePatch)
    /\ pc \in {"execute", "apply", "verify", "reverse", "revert", "compensate", "escalate",
               "sync", "deliver", "cache"} => prePatch # NoTree
VerifiedSound ==
    /\ pc = "verify" => Reverses(tree[Site], patch)
    /\ pc \in {"sync", "deliver", "cache", "record"} =>
          /\ verified # NoTree
          /\ Green(req.contracts, verified)
          /\ Reverses(verified, patch)
    /\ verified # NoTree => pc \in {"sync", "deliver", "cache", "record", "report", "abort"} \cup Ended
CacheSound == Admissible /\ (cache # NoEntry => cache.patch \in Patch)

Sound == /\ ControlTypes /\ ModelTypes /\ PlaceTypes /\ EvidenceTypes
         /\ SitesExist /\ TrialKnown /\ BaselineSound /\ VerifiedSound /\ CacheSound

\* Four events, then the lowering is over.
LoweringShort == pc = "lowering" => Len(events) < Len(Lowered)

IInv == HistoryTypes /\ LoweringShort /\ Sound

-------------------------------------------------------------------------------
(* The actions that only move pc, record events and write the summary.       *)

Quiet == \/ Lower \/ LowerFails \/ ReplayFails \/ SnapshotStable \/ SnapshotFails
         \/ BaselineRaises \/ ApplyRaises \/ VerifyFails \/ VerifyRaises
         \/ RollbackRaises \/ GiveUp \/ DeliverRaises \/ Complete \/ Report \/ Fail

\* The others.
Busy == \/ Replay \/ Prepare \/ PrepareFails \/ BaselineFails
        \/ \E p \in Patch, c \in Costs \cup {0}, x \in SUBSET Loose : Execute(p, c, x)
        \/ Apply \/ Verify \/ ReversePatch \/ RevertToStable \/ Compensate \/ Escalate
        \/ TearDownRaises \/ SyncBack \/ Deliver \/ PutInCache \/ CompensateStep
        \/ CompensateRaises

\* Where a quiet action may lead.
QuietMove ==
    /\ pc \notin Ended
    /\ \/ pc' = "abort" /\ pc \notin {"record", "report"}
       \/ pc = "record" /\ pc' = "report"
       \/ pc' \in {"success", "failed", "escaped"}
       \/ pc = "lowering" /\ pc' \in {"lowering", "lookup"}
       \/ pc = "lookup" /\ pc' = "prepare"
       \/ pc = "verify" /\ pc' = "reverse"

Kept == UNCHANGED <<run, req, attempt, tier, model, proof, place, cache>>

LEMMA QuietSteps ==
    ASSUME Quiet
    PROVE  QuietMove /\ Kept
  <1>1. CASE Lower \/ LowerFails \/ ReplayFails \/ SnapshotStable \/ SnapshotFails
    BY <1>1 DEF Lower, LowerFails, ReplayFails, SnapshotStable, SnapshotFails, EndWith, QuietMove,
                Kept, Ended
  <1>2. CASE BaselineRaises \/ ApplyRaises \/ VerifyFails \/ VerifyRaises
    BY <1>2 DEF BaselineRaises, ApplyRaises, VerifyFails, VerifyRaises, Raise,
                QuietMove, Kept, Ended
  <1>3. CASE RollbackRaises \/ GiveUp \/ DeliverRaises \/ Complete \/ Report \/ Fail
    BY <1>3 DEF RollbackRaises, GiveUp, DeliverRaises, Complete, Report, Fail, Raise, EndWith,
                QuietMove, Kept, Ended
  <1> QED BY <1>1, <1>2, <1>3 DEF Quiet

LEMMA StepsQuietOrBusy == Step <=> Quiet \/ Busy
  BY DEF Step, Quiet, Busy

LEMMA QuietSound ==
    ASSUME Sound, Quiet
    PROVE  Sound'
  <1>1. QuietMove /\ Kept
    BY QuietSteps
  <1> USE <1>1 DEF Kept, model, proof, place
  <1>2. ControlTypes' /\ ModelTypes' /\ PlaceTypes' /\ EvidenceTypes'
    BY DEF Sound, ControlTypes, ModelTypes, PlaceTypes, EvidenceTypes, QuietMove, Ended
  <1>3. SitesExist' /\ TrialKnown'
    BY DEF Sound, SitesExist, TrialKnown, Site, Workspace, QuietMove, Ended
  <1>4. BaselineSound' /\ VerifiedSound'
    BY DEF Sound, BaselineSound, VerifiedSound, Site, QuietMove, Ended, Fixed, Green, Reverses,
           Clean
  <1>5. CacheSound'
    BY DEF Sound, CacheSound, Admissible, Fixed, Green, Reverses, Clean
  <1> QED BY <1>2, <1>3, <1>4, <1>5 DEF Sound

-------------------------------------------------------------------------------
(* The other actions, one by one.                                            *)

LEMMA TreeFacts == Base \in Tree /\ ~(NoTree \in Tree)
  BY NoTreeAssumption DEF Base, Tree, Presence

LEMMA VcsApplyTree ==
    ASSUME NEW T \in Tree, NEW p \in Patch, VcsApply(T, p) # NoTree
    PROVE  VcsApply(T, p) \in Tree
  BY PatchTypes DEF VcsApply

\* The sandboxes a TearDown leaves are some of those it found, and repo_root is
\* not touched.
LEMMA TearDownTypes ==
    ASSUME PlaceTypes, NEW a, TearDown(a)
    PROVE  /\ tree' \in [{"repo", "mirror", "remote"} -> Tree \cup {NoTree}]
           /\ tree'["repo"] = tree["repo"]
           /\ live' \subseteq live
  BY DEF TearDown, PlaceTypes

LEMMA ReplaySound ==
    ASSUME Sound, Replay
    PROVE  Sound'
  <1>1. cache.patch \in Patch /\ VcsApply(tree["repo"], cache.patch) \in Tree
    BY VcsApplyTree DEF Replay, Sound, CacheSound, PlaceTypes
  <1> USE <1>1 DEF Replay, model, proof, place
  <1>2. ControlTypes' /\ ModelTypes' /\ EvidenceTypes'
    BY DEF Sound, ControlTypes, ModelTypes, EvidenceTypes
  <1>3. PlaceTypes'
    BY NoTreeAssumption DEF Sound, PlaceTypes
  <1>4. SitesExist' /\ TrialKnown'
    BY DEF SitesExist, TrialKnown
  <1>5. BaselineSound' /\ VerifiedSound'
    BY DEF Sound, BaselineSound, VerifiedSound, Fixed, Ended
  <1>6. CacheSound'
    BY DEF Sound, CacheSound, Admissible, Fixed, Green, Reverses, Clean
  <1> QED BY <1>2, <1>3, <1>4, <1>5, <1>6 DEF Sound

LEMMA PrepareSound ==
    ASSUME Sound, Prepare
    PROVE  Sound'
  <1>1. Mirror \in Tree
    BY TreeFacts DEF Mirror, Sound, PlaceTypes
  <1>2. PlaceTypes' /\ tree'[Site] \in Tree /\ tree'[Workspace] \in Tree
    <2>1. req.sandbox \in Sandbox
      BY RequestAssumption DEF Sound, ControlTypes
    <2>2. tree' \in [{"repo", "mirror", "remote"} -> Tree \cup {NoTree}]
          /\ tree'["repo"] # NoTree /\ tree'[Site] \in Tree /\ tree'[Workspace] \in Tree
      <3>1. CASE req.sandbox = "local"
        BY <1>1, <3>1 DEF Prepare, Sound, PlaceTypes, Site, Workspace
      <3>2. CASE req.sandbox = "remote"
        BY <1>1, <3>2 DEF Prepare, Sound, PlaceTypes, Site, Workspace
      <3>3. CASE req.sandbox \in {"worktree", "container"}
        BY <1>1, <3>3 DEF Prepare, Sound, PlaceTypes, Site, Workspace
      <3> QED BY <2>1, <3>1, <3>2, <3>3 DEF Sandbox
    <2>3. live' \subseteq (Nat \X (1..2))
      BY DEF Prepare, Sound, PlaceTypes, ControlTypes
    <2>4. saga' \in Seq(1..2)
      BY AppendProperties DEF Prepare, Registered, Sound, PlaceTypes, ControlTypes
    <2> QED BY <2>2, <2>3, <2>4 DEF PlaceTypes
  <1>3. pc' \in {"baseline", "execute"} /\ (pc' = "execute" => prePatch # NoTree)
    BY DEF Prepare, AfterPrepare
  <1> USE <1>3 DEF Prepare, model, proof
  <1>4. ControlTypes' /\ ModelTypes' /\ EvidenceTypes'
    BY DEF Sound, ControlTypes, ModelTypes, EvidenceTypes
  <1>5. SitesExist' /\ TrialKnown'
    BY <1>2 DEF SitesExist, TrialKnown, Site, Workspace
  <1>6. BaselineSound' /\ VerifiedSound'
    BY DEF Sound, BaselineSound, VerifiedSound, Fixed, Ended
  <1>7. CacheSound'
    BY DEF Sound, CacheSound, Admissible, Fixed, Green, Reverses, Clean
  <1> QED BY <1>2, <1>4, <1>5, <1>6, <1>7 DEF Sound

LEMMA PrepareFailsSound ==
    ASSUME Sound, PrepareFails
    PROVE  Sound'
  <1>1. Mirror \in Tree
    BY TreeFacts DEF Mirror, Sound, PlaceTypes
  <1> USE DEF PrepareFails, Raise, model, proof
  <1>2. PlaceTypes'
    BY <1>1 DEF Sound, PlaceTypes
  <1>3. ControlTypes' /\ ModelTypes' /\ EvidenceTypes'
    BY DEF Sound, ControlTypes, ModelTypes, EvidenceTypes
  <1>4. SitesExist' /\ TrialKnown'
    BY DEF SitesExist, TrialKnown
  <1>5. BaselineSound' /\ VerifiedSound'
    BY DEF Sound, BaselineSound, VerifiedSound, Fixed, Ended
  <1>6. CacheSound'
    BY DEF Sound, CacheSound, Admissible, Fixed, Green, Reverses, Clean
  <1> QED BY <1>2, <1>3, <1>4, <1>5, <1>6 DEF Sound

LEMMA BaselineFailsSound ==
    ASSUME Sound, BaselineFails
    PROVE  Sound'
  <1> USE DEF BaselineFails, model, place
  <1>1. tree[Site] \in Tree
    BY DEF Sound, SitesExist
  <1>2. ControlTypes' /\ ModelTypes' /\ PlaceTypes' /\ EvidenceTypes'
    BY <1>1 DEF Sound, ControlTypes, ModelTypes, PlaceTypes, EvidenceTypes
  <1>3. SitesExist' /\ TrialKnown'
    BY DEF Sound, SitesExist, TrialKnown, Site, Workspace
  <1>4. BaselineSound' /\ VerifiedSound'
    BY <1>1, TreeFacts DEF Sound, BaselineSound, VerifiedSound, Reproduced, Fixed, Ended
  <1>5. CacheSound'
    BY DEF Sound, CacheSound, Admissible, Fixed, Green, Reverses, Clean
  <1> QED BY <1>2, <1>3, <1>4, <1>5 DEF Sound

LEMMA ExecuteSound ==
    ASSUME Sound, NEW p \in Patch, NEW c \in Costs \cup {0}, NEW x \in SUBSET Loose,
           Execute(p, c, x)
    PROVE  Sound'
  <1> USE DEF Execute, Raise, proof
  <1>1. tree[Workspace] \in Tree /\ tree[Site] \in Tree
    BY DEF Sound, SitesExist
  <1>2. [y \in Change |-> IF y \in x THEN "once" ELSE tree[Workspace][y]] \in Tree
    BY <1>1 DEF Tree, Presence
  <1>3. tree' \in [{"repo", "mirror", "remote"} -> Tree \cup {NoTree}]
        /\ tree'[Site] \in Tree /\ tree'[Workspace] \in Tree /\ tree'["repo"] # NoTree
    BY <1>1, <1>2, TreeFacts DEF Sound, PlaceTypes, Site, Workspace
  <1>4. PlaceTypes'
    BY <1>3 DEF Sound, PlaceTypes
  <1>5. c \in Nat
    BY CostAssumption
  <1>6. ModelTypes'
    BY <1>5 DEF Sound, ModelTypes
  <1>7. pc' \in {"apply", "abort"} /\ (pc' = "apply" => patch' \in Patch)
    OBVIOUS
  <1>8. ControlTypes' /\ EvidenceTypes'
    BY <1>7 DEF Sound, ControlTypes, EvidenceTypes
  <1>9. SitesExist' /\ TrialKnown'
    BY <1>3, <1>7 DEF SitesExist, TrialKnown, Site, Workspace
  <1>10. BaselineSound' /\ VerifiedSound'
    BY <1>7 DEF Sound, BaselineSound, VerifiedSound, Fixed, Ended
  <1>11. CacheSound'
    BY DEF Sound, CacheSound, Admissible, Fixed, Green, Reverses, Clean
  <1> QED BY <1>4, <1>6, <1>8, <1>9, <1>10, <1>11 DEF Sound

LEMMA ApplySound ==
    ASSUME Sound, Apply
    PROVE  Sound'
  <1> USE DEF Apply, proof
  <1>1. tree[Workspace] \in Tree /\ tree[Site] \in Tree /\ patch \in Patch
    BY DEF Sound, SitesExist, TrialKnown
  <1>2. Plus(tree[Site], patch) \in Tree /\ Reverses(Plus(tree[Site], patch), patch)
    BY <1>1, PatchTypes
  <1>3. PlaceTypes' /\ tree'[Site] = Plus(tree[Site], patch) /\ tree'[Workspace] \in Tree
    BY <1>1, <1>2, TreeFacts DEF Sound, PlaceTypes, Site, Workspace
  <1>4. ControlTypes' /\ EvidenceTypes'
    BY DEF Sound, ControlTypes, EvidenceTypes
  <1>5. ModelTypes'
    BY DEF Sound, ModelTypes, ControlTypes
  <1>6. SitesExist' /\ TrialKnown'
    BY <1>1, <1>2, <1>3 DEF SitesExist, TrialKnown, Site, Workspace
  <1>7. BaselineSound'
    BY DEF Sound, BaselineSound, Fixed
  <1>8. VerifiedSound'
    <2>1. Reverses(tree[Site], patch)'
      BY <1>2, <1>3 DEF Reverses, Clean, Site
    <2> QED BY <2>1 DEF Sound, VerifiedSound, Ended
  <1>9. CacheSound'
    BY DEF Sound, CacheSound, Admissible, Fixed, Green, Reverses, Clean
  <1> QED BY <1>3, <1>4, <1>5, <1>6, <1>7, <1>8, <1>9 DEF Sound

LEMMA VerifySound ==
    ASSUME Sound, Verify
    PROVE  Sound'
  <1> USE DEF Verify, model, place
  <1>1. tree[Site] \in Tree /\ Reverses(tree[Site], patch)
    BY DEF Sound, SitesExist, VerifiedSound
  <1>2. ControlTypes' /\ ModelTypes' /\ PlaceTypes' /\ EvidenceTypes'
    BY <1>1 DEF Sound, ControlTypes, ModelTypes, PlaceTypes, EvidenceTypes
  <1>3. SitesExist' /\ TrialKnown'
    BY DEF Sound, SitesExist, TrialKnown, Site, Workspace
  <1>4. BaselineSound'
    BY DEF Sound, BaselineSound, Fixed
  <1>5. VerifiedSound'
    BY <1>1, TreeFacts DEF VerifiedSound, Green, Reverses, Clean, Ended
  <1>6. CacheSound'
    BY DEF Sound, CacheSound, Admissible, Fixed, Green, Reverses, Clean
  <1> QED BY <1>2, <1>3, <1>4, <1>5, <1>6 DEF Sound

LEMMA ReversePatchSound ==
    ASSUME Sound, ReversePatch
    PROVE  Sound'
  <1> USE DEF ReversePatch, model, proof
  <1>1. tree[Site] \in Tree /\ patch \in Patch
    BY DEF Sound, SitesExist, TrialKnown
  <1>2. PlaceTypes'
    BY <1>1, PatchTypes, TreeFacts DEF Sound, PlaceTypes, Site
  <1>3. ControlTypes' /\ ModelTypes' /\ EvidenceTypes'
    BY DEF Sound, ControlTypes, ModelTypes, EvidenceTypes
  <1>4. SitesExist' /\ TrialKnown'
    BY <1>1 DEF SitesExist, TrialKnown
  <1>5. BaselineSound' /\ VerifiedSound'
    BY DEF Sound, BaselineSound, VerifiedSound, Fixed, Ended
  <1>6. CacheSound'
    BY DEF Sound, CacheSound, Admissible, Fixed, Green, Reverses, Clean
  <1> QED BY <1>2, <1>3, <1>4, <1>5, <1>6 DEF Sound

\* A cache that git clean removes is an empty one.
LEMMA RevertSound ==
    ASSUME Sound, RevertToStable
    PROVE  Sound'
  <1> USE DEF RevertToStable, model, proof
  <1>1. PlaceTypes'
    BY TreeFacts DEF Sound, PlaceTypes
  <1>2. ControlTypes' /\ ModelTypes'
    BY DEF Sound, ControlTypes, ModelTypes
  <1>3. cache' = cache \/ cache' = NoEntry
    OBVIOUS
  <1>4. EvidenceTypes'
    BY <1>3 DEF Sound, EvidenceTypes, NoEntry
  <1>5. SitesExist' /\ TrialKnown'
    BY DEF Sound, SitesExist, TrialKnown
  <1>6. BaselineSound' /\ VerifiedSound'
    BY DEF Sound, BaselineSound, VerifiedSound, Fixed, Ended
  <1>7. CacheSound'
    BY <1>3 DEF Sound, CacheSound, Admissible, Fixed, Green, Reverses, Clean, NoEntry
  <1> QED BY <1>1, <1>2, <1>4, <1>5, <1>6, <1>7 DEF Sound

LEMMA CompensateSound ==
    ASSUME Sound, Compensate
    PROVE  Sound'
  <1> USE DEF Compensate, model, proof
  <1>1. PlaceTypes'
    BY TearDownTypes DEF Sound, PlaceTypes
  <1>2. ControlTypes' /\ ModelTypes' /\ EvidenceTypes'
    BY DEF Sound, ControlTypes, ModelTypes, EvidenceTypes
  <1>3. SitesExist' /\ TrialKnown'
    BY DEF Sound, SitesExist, TrialKnown
  <1>4. BaselineSound' /\ VerifiedSound'
    BY DEF Sound, BaselineSound, VerifiedSound, Fixed, Ended
  <1>5. CacheSound'
    BY DEF Sound, CacheSound, Admissible, Fixed, Green, Reverses, Clean
  <1> QED BY <1>1, <1>2, <1>3, <1>4, <1>5 DEF Sound

LEMMA TearDownRaisesSound ==
    ASSUME Sound, TearDownRaises
    PROVE  Sound'
  <1> USE DEF TearDownRaises, Raise, model, proof
  <1>1. PlaceTypes'
    BY DEF Sound, PlaceTypes
  <1>2. ControlTypes' /\ ModelTypes' /\ EvidenceTypes'
    BY DEF Sound, ControlTypes, ModelTypes, EvidenceTypes
  <1>3. SitesExist' /\ TrialKnown'
    BY DEF SitesExist, TrialKnown
  <1>4. BaselineSound' /\ VerifiedSound'
    BY DEF Sound, BaselineSound, VerifiedSound, Fixed, Ended
  <1>5. CacheSound'
    BY DEF Sound, CacheSound, Admissible, Fixed, Green, Reverses, Clean
  <1> QED BY <1>1, <1>2, <1>3, <1>4, <1>5 DEF Sound

LEMMA EscalateSound ==
    ASSUME Sound, Escalate
    PROVE  Sound'
  <1> USE DEF Escalate, Raise, proof, place
  <1>1. attempt < 2
    BY RequestAssumption DEF MayEscalate, Sound, ControlTypes
  <1>2. ControlTypes' /\ ModelTypes' /\ PlaceTypes' /\ EvidenceTypes'
    BY <1>1 DEF Sound, ControlTypes, ModelTypes, PlaceTypes, EvidenceTypes
  <1>3. SitesExist' /\ TrialKnown'
    BY DEF SitesExist, TrialKnown
  <1>4. BaselineSound' /\ VerifiedSound'
    BY DEF Sound, BaselineSound, VerifiedSound, Fixed, Ended
  <1>5. CacheSound'
    BY DEF Sound, CacheSound, Admissible, Fixed, Green, Reverses, Clean
  <1> QED BY <1>2, <1>3, <1>4, <1>5 DEF Sound

LEMMA SyncBackSound ==
    ASSUME Sound, SyncBack
    PROVE  Sound'
  <1> USE DEF SyncBack, model, proof
  <1>1. tree[Workspace] \in Tree /\ tree[Site] \in Tree /\ patch \in Patch
    BY DEF Sound, SitesExist, TrialKnown
  <1>2. PICK copied \in Presence : tree' = [tree EXCEPT ![Workspace][patch] = copied]
    <2>1. PICK copied \in IF req.sandbox # "remote" THEN {tree[Workspace][patch]}
                     ELSE {IF patch \in Deleting THEN "partial" ELSE tree["remote"][patch]}
                          \cup (IF "command" \in Faults THEN {"absent"} ELSE {}) :
             tree' = [tree EXCEPT ![Workspace][patch] = copied]
      OBVIOUS
    <2>2. tree[Workspace][patch] \in Presence /\ tree[Site][patch] \in Presence
      BY <1>1 DEF Tree, Change
    <2>3. req.sandbox = "remote" => tree["remote"][patch] \in Presence
      BY <2>2 DEF Site
    <2>4. copied \in Presence
      BY <2>1, <2>2, <2>3 DEF Presence
    <2> QED BY <2>1, <2>4
  <1>3. [tree[Workspace] EXCEPT ![patch] = copied] \in Tree
    BY <1>1, <1>2 DEF Tree
  <1>4. PlaceTypes' /\ tree'[Workspace] \in Tree /\ tree'[Site] \in Tree
    BY <1>1, <1>2, <1>3, TreeFacts DEF Sound, PlaceTypes, Site, Workspace
  <1>5. ControlTypes' /\ ModelTypes' /\ EvidenceTypes'
    BY DEF Sound, ControlTypes, ModelTypes, EvidenceTypes
  <1>6. SitesExist' /\ TrialKnown'
    BY <1>1, <1>4 DEF SitesExist, TrialKnown, Site, Workspace
  <1>7. BaselineSound' /\ VerifiedSound'
    BY DEF Sound, BaselineSound, VerifiedSound, Fixed, Green, Reverses, Clean, Ended
  <1>8. CacheSound'
    BY DEF Sound, CacheSound, Admissible, Fixed, Green, Reverses, Clean
  <1> QED BY <1>4, <1>5, <1>6, <1>7, <1>8 DEF Sound

LEMMA DeliverSound ==
    ASSUME Sound, Deliver
    PROVE  Sound'
  <1> USE DEF Deliver, model, proof
  <1>1. tree[Workspace] \in Tree /\ patch \in Patch
    BY DEF Sound, SitesExist, TrialKnown
  <1>2. VcsApply(tree[Workspace], patch) \in Tree
    BY <1>1, VcsApplyTree
  <1>3. PlaceTypes'
    BY <1>1, <1>2, TreeFacts DEF Sound, PlaceTypes, Workspace
  <1>4. ControlTypes' /\ ModelTypes' /\ EvidenceTypes'
    BY DEF Sound, ControlTypes, ModelTypes, EvidenceTypes
  <1>5. SitesExist' /\ TrialKnown'
    BY <1>1 DEF SitesExist, TrialKnown
  <1>6. BaselineSound' /\ VerifiedSound'
    BY DEF Sound, BaselineSound, VerifiedSound, Fixed, Green, Reverses, Clean, Ended
  <1>7. CacheSound'
    BY DEF Sound, CacheSound, Admissible, Fixed, Green, Reverses, Clean
  <1> QED BY <1>3, <1>4, <1>5, <1>6, <1>7 DEF Sound

\* The step Admissible is about.
LEMMA PutInCacheSound ==
    ASSUME Sound, PutInCache
    PROVE  Sound'
  <1> USE DEF PutInCache, model, proof, place
  <1>1. patch \in Patch /\ prePatch # NoTree /\ ~Fixed(prePatch)
        /\ verified # NoTree /\ Green(req.contracts, verified) /\ Reverses(verified, patch)
    BY DEF Sound, TrialKnown, BaselineSound, VerifiedSound
  <1>2. req.contracts \in DOMAIN Breaking
    BY RequestAssumption DEF Sound, ControlTypes
  <1>3. ControlTypes' /\ ModelTypes' /\ PlaceTypes'
    BY DEF Sound, ControlTypes, ModelTypes, PlaceTypes
  <1>4. EvidenceTypes'
    BY <1>1, <1>2 DEF Sound, EvidenceTypes
  <1>5. SitesExist' /\ TrialKnown'
    BY DEF SitesExist, TrialKnown
  <1>6. BaselineSound' /\ VerifiedSound'
    BY DEF Sound, BaselineSound, VerifiedSound, Fixed, Ended
  <1>7. CacheSound'
    BY <1>1 DEF CacheSound, Admissible, Fixed, Green, Reverses, Clean
  <1> QED BY <1>3, <1>4, <1>5, <1>6, <1>7 DEF Sound

LEMMA CompensateStepSound ==
    ASSUME Sound, CompensateStep
    PROVE  Sound'
  <1> USE DEF CompensateStep, model, proof
  <1>1. saga \in Seq(1..2) /\ Len(saga) \in Nat /\ Len(saga) > 0
    BY EmptySeq, LenProperties DEF Sound, PlaceTypes
  <1>2. SubSeq(saga, 1, Len(saga) - 1) \in Seq(1..2)
    BY <1>1, SubSeqProperties
  <1>3. PlaceTypes'
    BY <1>2, TearDownTypes DEF Sound, PlaceTypes
  <1>4. ControlTypes' /\ ModelTypes' /\ EvidenceTypes'
    BY DEF Sound, ControlTypes, ModelTypes, EvidenceTypes
  <1>5. SitesExist' /\ TrialKnown'
    BY DEF SitesExist, TrialKnown
  <1>6. BaselineSound' /\ VerifiedSound'
    BY DEF Sound, BaselineSound, VerifiedSound, Fixed, Ended
  <1>7. CacheSound'
    BY DEF Sound, CacheSound, Admissible, Fixed, Green, Reverses, Clean
  <1> QED BY <1>3, <1>4, <1>5, <1>6, <1>7 DEF Sound

LEMMA CompensateRaisesSound ==
    ASSUME Sound, CompensateRaises
    PROVE  Sound'
  <1> USE DEF CompensateRaises, EndWith, model, proof
  <1>1. PlaceTypes'
    BY DEF Sound, PlaceTypes
  <1>2. ControlTypes' /\ ModelTypes' /\ EvidenceTypes'
    BY DEF Sound, ControlTypes, ModelTypes, EvidenceTypes, Ended
  <1>3. SitesExist' /\ TrialKnown'
    BY DEF SitesExist, TrialKnown
  <1>4. BaselineSound' /\ VerifiedSound'
    BY DEF Sound, BaselineSound, VerifiedSound, Fixed, Ended
  <1>5. CacheSound'
    BY DEF Sound, CacheSound, Admissible, Fixed, Green, Reverses, Clean
  <1> QED BY <1>1, <1>2, <1>3, <1>4, <1>5 DEF Sound

-------------------------------------------------------------------------------
(* The environment.                                                          *)

LEMMA StartRunSound ==
    ASSUME Sound, NEW r \in Request, StartRun(r)
    PROVE  Sound'
  <1> USE DEF StartRun
  <1>1. r.tier \in {"draft", "production"}
    BY RequestAssumption
  <1>2. ControlTypes'
    BY <1>1 DEF Sound, ControlTypes
  <1>3. ModelTypes' /\ EvidenceTypes'
    BY DEF Sound, ModelTypes, EvidenceTypes
  <1>4. PlaceTypes'
    BY EmptySeq DEF Sound, PlaceTypes
  <1>5. SitesExist' /\ TrialKnown'
    BY DEF SitesExist, TrialKnown
  <1>6. BaselineSound' /\ VerifiedSound'
    BY DEF BaselineSound, VerifiedSound, Ended
  <1>7. CacheSound'
    BY DEF Sound, CacheSound, Admissible, Fixed, Green, Reverses, Clean
  <1> QED BY <1>2, <1>3, <1>4, <1>5, <1>6, <1>7 DEF Sound

\* A crash, the provider's time limit, and stuttering.
LEMMA IdleSound ==
    ASSUME Sound, Crash \/ Expire \/ UNCHANGED vars
    PROVE  Sound'
  <1>1. UNCHANGED <<run, req, attempt, tier, model, proof, tree, saga, cache>>
        /\ live' \subseteq live /\ (pc' = pc \/ pc' = "crashed")
    BY DEF Crash, Expire, vars, place
  <1> USE <1>1 DEF model, proof
  <1>2. ControlTypes' /\ ModelTypes' /\ EvidenceTypes' /\ PlaceTypes'
    BY DEF Sound, ControlTypes, ModelTypes, EvidenceTypes, PlaceTypes, Ended
  <1>3. SitesExist' /\ TrialKnown'
    BY DEF Sound, SitesExist, TrialKnown, Site, Workspace
  <1>4. BaselineSound' /\ VerifiedSound'
    BY DEF Sound, BaselineSound, VerifiedSound, Fixed, Green, Reverses, Clean, Ended, Site
  <1>5. CacheSound'
    BY DEF Sound, CacheSound, Admissible, Fixed, Green, Reverses, Clean
  <1> QED BY <1>2, <1>3, <1>4, <1>5 DEF Sound

LEMMA SoundInductive ==
    ASSUME Sound, [Next]_vars
    PROVE  Sound'
  <1>1. CASE Quiet
    BY <1>1, QuietSound
  <1>2. CASE Busy
    BY <1>2, ReplaySound, PrepareSound, PrepareFailsSound, BaselineFailsSound, ExecuteSound,
       ApplySound, VerifySound, ReversePatchSound, RevertSound, CompensateSound, EscalateSound,
       TearDownRaisesSound,
       SyncBackSound, DeliverSound, PutInCacheSound, CompensateStepSound, CompensateRaisesSound
       DEF Busy
  <1>3. CASE \E r \in Request : StartRun(r)
    BY <1>3, StartRunSound
  <1>4. CASE Crash \/ Expire \/ UNCHANGED vars
    BY <1>4, IdleSound
  <1> QED BY <1>1, <1>2, <1>3, <1>4, StepsQuietOrBusy DEF Next

-------------------------------------------------------------------------------
(* Events, the event store and the summary.                                  *)

LEMMA RecordTypes ==
    ASSUME HistoryTypes, attempt \in 1..2, NEW e \in EventType
    PROVE  /\ Append(events, Stamp(e)) \in Seq(Event) /\ Append(log, Stamp(e)) \in Seq(Event)
           /\ Len(Append(events, Stamp(e))) = Len(events) + 1
           /\ Len(events) \in Nat
  <1>1. Stamp(e) \in Event
    BY DEF Stamp, Event
  <1> QED BY <1>1, AppendProperties, LenProperties DEF HistoryTypes

LEMMA RecordBothTypes ==
    ASSUME HistoryTypes, attempt \in 1..2, NEW e \in EventType, NEW f \in EventType
    PROVE  /\ Append(Append(events, Stamp(e)), Stamp(f)) \in Seq(Event)
           /\ Append(Append(log, Stamp(e)), Stamp(f)) \in Seq(Event)
  <1>1. Stamp(e) \in Event /\ Stamp(f) \in Event
    BY DEF Stamp, Event
  <1>2. Append(events, Stamp(e)) \in Seq(Event) /\ Append(log, Stamp(e)) \in Seq(Event)
    BY RecordTypes
  <1> QED BY <1>1, <1>2, AppendProperties

\* Steps that record one event, two, or none, and do not write the summary.
LEMMA NoneRecorded ==
    ASSUME HistoryTypes, UNCHANGED summary, UNCHANGED history
    PROVE  HistoryTypes'
  BY DEF HistoryTypes, history

LEMMA OneRecorded ==
    ASSUME HistoryTypes, attempt \in 1..2, UNCHANGED summary, NEW e \in EventType, Record(e)
    PROVE  HistoryTypes'
  BY RecordTypes DEF HistoryTypes, Record

LEMMA TwoRecorded ==
    ASSUME HistoryTypes, attempt \in 1..2, UNCHANGED summary,
           NEW e \in EventType, NEW f \in EventType, RecordBoth(e, f)
    PROVE  HistoryTypes'
  BY RecordBothTypes DEF HistoryTypes, RecordBoth

LEMMA RaiseRecorded ==
    ASSUME HistoryTypes, attempt \in 1..2, UNCHANGED summary, Raise
    PROVE  HistoryTypes'
  <1>1. "diagnostic" \in EventType /\ Record("diagnostic")
    BY DEF Raise, EventType
  <1> QED BY <1>1, OneRecorded

LEMMA NoEvents == <<>> \in Seq(Event)
  BY EmptySeq

\* What the summary keeps of a list of events.
LEMMA OnlyTypes ==
    ASSUME NEW es \in Seq(Event), NEW type
    PROVE  Records(Only(es, type))
  <1>1. DOMAIN es = 1..Len(es) /\ Len(es) \in Nat
    BY LenProperties
  <1>2. \A i \in 1..Len(es) : es[i] \in Event
    BY ElementOfSeq
  <1>3. \A i \in DOMAIN Only(es, type) :
            i \in 1..Len(es) /\ Only(es, type)[i] = es[i].attempt
    BY <1>1 DEF Only
  <1> QED BY <1>1, <1>2, <1>3 DEF Records, Event

LEMMA NoSummaryTypes ==
    /\ NoSummary.run \in Nat /\ NoSummary.status \in {"none", "success", "failed"}
    /\ Records(NoSummary.diagnostics) /\ Records(NoSummary.dispatch)
  BY NoEvents, OnlyTypes DEF NoSummary

LEMMA HistoryInductive ==
    ASSUME TypeOK, LoweringShort, [Next]_vars
    PROVE  HistoryTypes'
  <1> USE DEF TypeOK
  <1>1. attempt \in 1..2 /\ run \in Nat
    BY DEF ControlTypes
  <1>2. CASE Lower
    <2>1. Len(Lowered) = 4 /\ Len(events) \in Nat
      BY LenProperties DEF Lowered, HistoryTypes
    <2>2. Len(events) + 1 \in 1..4
      BY <1>2, <2>1 DEF Lower, LoweringShort
    <2>3. \A i \in 1..4 : Lowered[i] \in EventType
      BY DEF Lowered, EventType
    <2> QED BY <1>1, <1>2, <2>2, <2>3, OneRecorded DEF Lower
  <1>3. CASE \/ LowerFails \/ SnapshotStable \/ Verify \/ VerifyFails \/ ReversePatch
             \/ Compensate \/ SyncBack \/ Deliver \/ PutInCache \/ CompensateStep \/ Apply \/ Crash
             \/ Expire
    BY <1>3, NoneRecorded
       DEF LowerFails, SnapshotStable, Verify, VerifyFails, ReversePatch, Compensate, SyncBack,
           Deliver, PutInCache, CompensateStep, Apply, Crash, Expire
  <1>4. CASE \/ PrepareFails \/ BaselineRaises \/ ApplyRaises \/ VerifyRaises
             \/ RollbackRaises \/ TearDownRaises \/ DeliverRaises
    BY <1>1, <1>4, RaiseRecorded
       DEF PrepareFails, BaselineRaises, ApplyRaises, VerifyRaises, RollbackRaises,
           TearDownRaises, DeliverRaises
  <1>5. CASE Replay \/ Prepare \/ BaselineFails
    <2>1. "cache_hit" \in EventType /\ "runtime_prepared" \in EventType
          /\ "verification_pre_patch" \in EventType
      BY DEF EventType
    <2> QED BY <1>1, <1>5, <2>1, OneRecorded DEF Replay, Prepare, BaselineFails
  <1>6. CASE \E p \in Patch, c \in Costs \cup {0}, x \in SUBSET Loose : Execute(p, c, x)
    <2>1. UNCHANGED summary /\ (Raise \/ UNCHANGED history)
      BY <1>6 DEF Execute
    <2> QED BY <1>1, <2>1, RaiseRecorded, NoneRecorded
  <1>7. CASE Escalate
    <2>1. UNCHANGED summary /\ (Raise \/ Record("dispatch_attempt"))
      BY <1>7 DEF Escalate
    <2>2. "dispatch_attempt" \in EventType
      BY DEF EventType
    <2> QED BY <1>1, <2>1, <2>2, RaiseRecorded, OneRecorded
  <1>8. CASE GiveUp \/ Complete
    <2>1. "dispatch_attempt" \in EventType /\ "diagnostic" \in EventType
          /\ "execution_completed" \in EventType
      BY DEF EventType
    <2> QED BY <1>1, <1>8, <2>1, TwoRecorded DEF GiveUp, Complete
  <1>9. CASE \/ ReplayFails \/ SnapshotFails \/ CompensateRaises \/ Report \/ Fail
    <2>1. events' \in Seq(Event) /\ log' \in Seq(Event)
      <3>1. CASE ReplayFails \/ SnapshotFails \/ CompensateRaises \/ Report
        BY <3>1 DEF ReplayFails, SnapshotFails, CompensateRaises, Report, history, HistoryTypes
      <3>2. CASE Fail
        <4>1. Record("compensation_completed") /\ "compensation_completed" \in EventType
          BY <3>2 DEF Fail, EventType
        <4> QED BY <1>1, <4>1, RecordTypes DEF Record
      <3> QED BY <1>9, <3>1, <3>2
    <2>2. CASE UNCHANGED summary
      BY <2>1, <2>2 DEF HistoryTypes
    <2>3. CASE ~UNCHANGED summary
      <3>1. PICK t \in {"success", "failed"}, es \in {<<>>, events, events'} :
              summary' = [run |-> run, status |-> t, diagnostics |-> Only(es, "diagnostic"),
                          dispatch |-> Only(es, "dispatch_attempt")]
        BY <1>9, <2>3 DEF ReplayFails, SnapshotFails, CompensateRaises, Report, Fail, EndWith,
                          Summarize
      <3>2. es \in Seq(Event)
        BY <2>1, NoEvents DEF HistoryTypes
      <3>3. Records(Only(es, "diagnostic")) /\ Records(Only(es, "dispatch_attempt"))
        BY <3>2, OnlyTypes
      <3> QED BY <1>1, <2>1, <3>1, <3>3 DEF HistoryTypes
    <2> QED BY <2>2, <2>3
  <1>10. CASE RevertToStable
    <2>1. /\ events' = events
          /\ log' \in {log, <<>>}
          /\ summary' \in {summary, NoSummary}
      BY <1>10 DEF RevertToStable
    <2> QED BY <2>1, NoEvents, NoSummaryTypes DEF HistoryTypes
  <1>11. CASE \E r \in Request : StartRun(r)
    BY <1>11, NoEvents DEF StartRun, HistoryTypes
  <1>12. CASE UNCHANGED vars
    BY <1>12 DEF vars, history, HistoryTypes
  <1> QED BY <1>2, <1>3, <1>4, <1>5, <1>6, <1>7, <1>8, <1>9, <1>10, <1>11, <1>12 DEF Next, Step

LEMMA LoweringInductive ==
    ASSUME TypeOK, Sound, LoweringShort, [Next]_vars
    PROVE  LoweringShort'
  <1>1. Len(Lowered) = 4 /\ Len(events) \in Nat
    BY LenProperties DEF Lowered, TypeOK, HistoryTypes
  <1>2. CASE Lower
    <2>1. Len(events') = Len(events) + 1 /\ Len(events) < 4
      BY <1>1, <1>2, AppendProperties DEF Lower, Record, LoweringShort, TypeOK, HistoryTypes
    <2> QED BY <1>1, <1>2, <2>1 DEF Lower, LoweringShort, Lowered
  <1>3. CASE \E r \in Request : StartRun(r)
    BY <1>1, <1>3 DEF StartRun, LoweringShort, Lowered
  <1>4. CASE Crash \/ Expire \/ UNCHANGED vars
    BY <1>4 DEF Crash, Expire, vars, history, LoweringShort, Lowered
  <1>5. CASE \/ LowerFails \/ ReplayFails \/ SnapshotStable \/ SnapshotFails \/ BaselineRaises
             \/ ApplyRaises \/ VerifyFails \/ VerifyRaises
    BY <1>5 DEF LowerFails, ReplayFails, SnapshotStable, SnapshotFails, BaselineRaises,
                ApplyRaises, VerifyFails, VerifyRaises, Raise, EndWith, LoweringShort
  <1>6. CASE RollbackRaises \/ TearDownRaises \/ GiveUp \/ DeliverRaises \/ Report \/ Fail
    BY <1>6 DEF RollbackRaises, TearDownRaises, GiveUp, DeliverRaises, Report, Fail, Raise, EndWith, LoweringShort
  <1>7. CASE Replay \/ Prepare \/ PrepareFails \/ BaselineFails
    BY <1>7 DEF Replay, Prepare, AfterPrepare, PrepareFails, BaselineFails, Raise, LoweringShort
  <1>8. CASE \/ \E p \in Patch, c \in Costs \cup {0}, x \in SUBSET Loose : Execute(p, c, x)
             \/ Apply \/ Verify \/ ReversePatch
    BY <1>8 DEF Execute, Raise, Apply, Verify, ReversePatch, LoweringShort
  <1>9. CASE RevertToStable \/ Compensate \/ Escalate \/ SyncBack \/ Deliver
    BY <1>9 DEF RevertToStable, Compensate, Escalate, Raise, SyncBack, Deliver, LoweringShort
  <1>10. CASE PutInCache \/ Complete \/ CompensateStep \/ CompensateRaises
    BY <1>10 DEF PutInCache, Complete, CompensateStep, CompensateRaises, EndWith, LoweringShort
  <1> QED BY <1>2, <1>3, <1>4, <1>5, <1>6, <1>7, <1>8, <1>9, <1>10 DEF Next, Step

-------------------------------------------------------------------------------
(* Theorems.                                                                 *)

LEMMA InitIInv == Init => IInv
  <1> SUFFICES ASSUME Init
               PROVE  IInv
    OBVIOUS
  <1> USE DEF Init
  <1>1. HistoryTypes
    BY NoEvents, NoSummaryTypes DEF HistoryTypes
  <1>2. ControlTypes /\ ModelTypes
    BY DEF ControlTypes, ModelTypes, Ended
  <1>3. PlaceTypes
    <2>1. PICK x \in SUBSET Loose :
            tree = [repo   |-> [c \in Change |-> IF c \in x THEN "once" ELSE "absent"],
                    mirror |-> NoTree, remote |-> NoTree]
      OBVIOUS
    <2>2. [c \in Change |-> IF c \in x THEN "once" ELSE "absent"] \in Tree
      BY DEF Tree, Presence
    <2>3. tree \in [{"repo", "mirror", "remote"} -> Tree \cup {NoTree}] /\ tree["repo"] \in Tree
      BY <2>1, <2>2
    <2> QED BY <2>3, TreeFacts, EmptySeq DEF PlaceTypes
  <1>4. EvidenceTypes /\ CacheSound
    BY DEF EvidenceTypes, CacheSound, Admissible, NoEntry
  <1>5. SitesExist /\ TrialKnown /\ BaselineSound /\ VerifiedSound /\ LoweringShort
    BY DEF SitesExist, TrialKnown, BaselineSound, VerifiedSound, LoweringShort
  <1> QED BY <1>1, <1>2, <1>3, <1>4, <1>5 DEF IInv, Sound

\* The invariant holds in every reachable state, for any constants.
THEOREM Inductive == Spec => []IInv
  <1>1. IInv /\ [Next]_vars => IInv'
    BY SoundInductive, HistoryInductive, LoweringInductive DEF IInv, Sound, TypeOK
  <1> QED BY <1>1, InitIInv, PTL DEF Spec

\* Type correctness of the runs of a task.
THEOREM TypeCorrect == Spec => []TypeOK
  <1>1. IInv => TypeOK
    BY DEF IInv, Sound, TypeOK
  <1> QED BY <1>1, Inductive, PTL

\* lowering_config.json:41: whatever commands fail and wherever the process
\* dies, the action cache holds a patch only with both kinds of evidence.
THEOREM AdmissibleTheorem == Spec => []Admissible
  <1>1. IInv => Admissible
    BY DEF IInv, Sound, CacheSound
  <1> QED BY <1>1, Inductive, PTL

-------------------------------------------------------------------------------
(* Sandboxes and the saga.                                                   *)

\* The run that started a sandbox is not one of the future.
LiveKnown == \A s \in live : s[1] \in 0..run

Registry == LiveKnown /\ SandboxesOnSaga

\* A step that starts no sandbox and leaves the saga as it is.
LEMMA RegistryKept ==
    ASSUME Sound, Registry, live' \subseteq live, UNCHANGED <<run, saga>>,
           pc \in Ended \cup {"abort"} => pc' \in Ended \cup {"abort"}
    PROVE  Registry'
  <1>1. LiveKnown'
    BY DEF Registry, LiveKnown
  <1>2. SandboxesOnSaga'
    BY DEF Registry, SandboxesOnSaga
  <1> QED BY <1>1, <1>2 DEF Registry

LEMMA PrepareRegistry ==
    ASSUME Sound, Registry, Prepare
    PROVE  Registry'
  <1>1. saga \in Seq(1..2) /\ attempt \in 1..2 /\ run \in Nat
    BY DEF Sound, PlaceTypes, ControlTypes
  <1>2. /\ Len(saga') = Len(saga) + 1 /\ Len(saga) \in Nat
        /\ \A i \in 1..Len(saga) : saga'[i] = saga[i]
        /\ saga'[Len(saga) + 1] = attempt
    BY <1>1, AppendProperties, LenProperties DEF Prepare, Registered
  <1>3. live' \subseteq live \cup {<<run, attempt>>} /\ run' = run
        /\ pc \notin Ended \cup {"abort"}
    BY DEF Prepare, Ended
  <1>4. LiveKnown'
    BY <1>1, <1>3 DEF Registry, LiveKnown
  <1>5. ASSUME NEW a \in 1..2, <<run, a>> \in live'
        PROVE  \E i \in 1..Len(saga') : saga'[i] = a
    <2>1. CASE a = attempt
      BY <1>2, <2>1
    <2>2. CASE a # attempt
      <3>1. <<run, a>> \in live
        BY <1>3, <1>5, <2>2
      <3>2. PICK i \in 1..Len(saga) : saga[i] = a
        BY <1>3, <3>1 DEF Registry, SandboxesOnSaga
      <3> QED BY <1>2, <3>2
    <2> QED BY <2>1, <2>2
  <1> QED BY <1>3, <1>4, <1>5 DEF Registry, SandboxesOnSaga

LEMMA RegistryInductive ==
    ASSUME Sound, Registry, [Next]_vars
    PROVE  Registry'
  <1> USE DEF place
  <1>1. CASE Quiet
    <2>1. QuietMove /\ Kept
      BY <1>1, QuietSteps
    <2>2. UNCHANGED <<run, live, saga>>
      BY <2>1 DEF Kept
    <2>3. pc \in Ended \cup {"abort"} => pc' \in Ended \cup {"abort"}
      BY <2>1 DEF QuietMove, Ended
    <2> QED BY <2>2, <2>3, RegistryKept
  <1>2. CASE Prepare
    BY <1>2, PrepareRegistry
  <1>3. CASE Replay \/ PrepareFails \/ BaselineFails \/ Apply \/ Verify \/ ReversePatch
    BY <1>3, RegistryKept
       DEF Replay, PrepareFails, Raise, BaselineFails, Apply, Verify, ReversePatch, Ended
  <1>4. CASE \E p \in Patch, c \in Costs \cup {0}, x \in SUBSET Loose : Execute(p, c, x)
    <2>1. pc = "execute" /\ UNCHANGED <<run, live, saga>>
      BY <1>4 DEF Execute
    <2> QED BY <2>1, RegistryKept DEF Ended
  <1>5. CASE RevertToStable \/ Escalate \/ SyncBack \/ Deliver \/ PutInCache
    BY <1>5, RegistryKept DEF RevertToStable, Escalate, SyncBack, Deliver, PutInCache, Ended
  <1>6. CASE Compensate
    <2>1. live' \subseteq live
      BY <1>6, TearDownTypes DEF Compensate, Sound
    <2> QED BY <1>6, <2>1, RegistryKept DEF Compensate, Ended
  <1>7. CASE CompensateStep
    <2>1. live' \subseteq live
      BY <1>7, TearDownTypes DEF CompensateStep, Sound
    <2> QED BY <1>7, <2>1 DEF CompensateStep, Registry, LiveKnown, SandboxesOnSaga
  <1>8. CASE CompensateRaises \/ TearDownRaises
    BY <1>8, RegistryKept DEF CompensateRaises, TearDownRaises, EndWith, Ended
  <1>9. CASE \E r \in Request : StartRun(r)
    <2>1. run \in Nat /\ run' = run + 1 /\ live' = live
      BY <1>9 DEF StartRun, Sound, ControlTypes
    <2>2. LiveKnown'
      BY <2>1 DEF Registry, LiveKnown
    <2>3. \A a \in 1..2 : <<run', a>> \notin live'
      BY <2>1 DEF Registry, LiveKnown
    <2> QED BY <2>2, <2>3 DEF Registry, SandboxesOnSaga
  <1>10. CASE Crash \/ Expire
    BY <1>10, RegistryKept DEF Crash, Expire, Ended
  <1>11. CASE UNCHANGED vars
    BY <1>11, RegistryKept DEF vars
  <1> QED BY <1>1, <1>2, <1>3, <1>4, <1>5, <1>6, <1>7, <1>8, <1>9, <1>10, <1>11, StepsQuietOrBusy
          DEF Next, Busy

\* Until compensation begins, the saga knows every sandbox the run started: what
\* fails between two attempts leaves none behind that compensate() would miss.
THEOREM SandboxesOnSagaTheorem == Spec => []SandboxesOnSaga
  <1>1. Init => Registry
    BY DEF Init, Registry, LiveKnown, SandboxesOnSaga
  <1>2. IInv /\ Registry /\ [Next]_vars => Registry'
    BY RegistryInductive DEF IInv
  <1>3. Registry => SandboxesOnSaga
    BY DEF Registry
  <1> QED BY <1>1, <1>2, <1>3, Inductive, PTL DEF Spec

-------------------------------------------------------------------------------
(* The budget.                                                               *)

\* Pairs of control states between which no attempt beyond the budget goes on.
LEMMA BudgetKept ==
    ASSUME BudgetFailsClosed, UNCHANGED <<cost, attempt>>,
           \/ pc \notin {"abort", "failed", "escaped", "crashed"}
           \/ pc' \in {"abort", "failed", "escaped", "crashed"}
    PROVE  BudgetFailsClosed'
  BY DEF BudgetFailsClosed

LEMMA BudgetInductive ==
    ASSUME Sound, BudgetFailsClosed, [Next]_vars
    PROVE  BudgetFailsClosed'
  <1> USE DEF model
  <1>1. CASE Quiet
    <2>1. QuietMove /\ Kept
      BY <1>1, QuietSteps
    <2>2. pc # "abort" \/ pc' \in {"abort", "failed"}
      BY <1>1 DEF Quiet, Lower, LowerFails, ReplayFails, SnapshotStable, SnapshotFails,
                  BaselineRaises, ApplyRaises, VerifyFails, VerifyRaises,
                  RollbackRaises, GiveUp, DeliverRaises, Complete, Report, Fail, EndWith
    <2> QED BY <2>1, <2>2, BudgetKept DEF QuietMove, Kept, Ended
  <1>2. CASE Replay \/ Prepare \/ PrepareFails \/ BaselineFails \/ Apply \/ Verify
    BY <1>2, BudgetKept DEF Replay, Prepare, PrepareFails, BaselineFails, Apply, Verify
  <1>3. CASE ReversePatch \/ RevertToStable \/ Compensate \/ SyncBack \/ Deliver \/ PutInCache
    BY <1>3, BudgetKept
       DEF ReversePatch, RevertToStable, Compensate, SyncBack, Deliver, PutInCache
  <1>4. CASE \E p \in Patch, c \in Costs \cup {0}, x \in SUBSET Loose : Execute(p, c, x)
    <2>1. PICK c \in Costs \cup {0} :
             /\ pc = "execute" /\ attempt' = attempt
             /\ cost' = [cost EXCEPT ![attempt] = c]
             /\ c > MaxCost => pc' = "abort"
      BY <1>4 DEF Execute, OverBudget, Raise
    <2>2. \A a \in 1..2 : a # attempt => cost'[a] = cost[a]
      BY <2>1 DEF Sound, ModelTypes
    <2>3. cost'[attempt] = c
      BY <2>1 DEF Sound, ModelTypes, ControlTypes
    <2> QED BY <2>1, <2>2, <2>3 DEF BudgetFailsClosed
  <1>5. CASE Escalate
    <2>1. pc = "escalate" /\ cost' = cost
      BY <1>5 DEF Escalate
    <2> QED BY <2>1 DEF BudgetFailsClosed
  <1>6. CASE CompensateStep \/ CompensateRaises \/ TearDownRaises
    BY <1>6, BudgetKept DEF CompensateStep, CompensateRaises, TearDownRaises, EndWith
  <1>7. CASE \E r \in Request : StartRun(r)
    BY <1>7, CostAssumption DEF StartRun, BudgetFailsClosed
  <1>8. CASE Crash \/ Expire \/ UNCHANGED vars
    BY <1>8, BudgetKept DEF Crash, Expire, vars
  <1> QED BY <1>1, <1>2, <1>3, <1>4, <1>5, <1>6, <1>7, <1>8, StepsQuietOrBusy DEF Next, Busy

\* lowering_config.json:428: the answer of a model call beyond the budget is never
\* applied, and no attempt starts after it.
THEOREM BudgetFailsClosedTheorem == Spec => []BudgetFailsClosed
  <1>1. Init => BudgetFailsClosed
    BY CostAssumption DEF Init, BudgetFailsClosed
  <1>2. IInv /\ BudgetFailsClosed /\ [Next]_vars => BudgetFailsClosed'
    BY BudgetInductive DEF IInv
  <1> QED BY <1>1, <1>2, Inductive, PTL DEF Spec

-------------------------------------------------------------------------------
(* repo_root.                                                                *)

\* What SandboxSparesRepo says of a step.
RepoSpared ==
    ~Replayed /\ req'.sandbox # "local" /\ ~(pc = "lookup" /\ cache # NoEntry)
        => \A p \in Patch : tree'["repo"][p] \in {tree["repo"][p], "absent"}

LEMMA RepoKept ==
    ASSUME UNCHANGED tree
    PROVE  RepoSpared
  BY DEF RepoSpared

LEMMA RepoElsewhere ==
    ASSUME Sound, NEW d \in {"mirror", "remote"}, NEW T, tree' = [tree EXCEPT ![d] = T]
    PROVE  RepoSpared
  BY DEF RepoSpared, Sound, PlaceTypes

\* Sites and workspaces of sandboxes are not repo_root.
LEMMA SitesElsewhere ==
    ASSUME Sound, req.sandbox # "local"
    PROVE  Site \in {"mirror", "remote"} /\ Workspace \in {"mirror", "remote"}
  BY DEF Site, Workspace

LEMMA SandboxSpares ==
    ASSUME Sound, [Next]_vars
    PROVE  RepoSpared
  <1> SUFFICES ASSUME ~Replayed, req'.sandbox # "local", ~(pc = "lookup" /\ cache # NoEntry)
               PROVE  RepoSpared
    BY DEF RepoSpared
  <1> USE DEF place
  <1>1. CASE Quiet
    BY <1>1, QuietSteps, RepoKept DEF Kept
  <1>2. CASE Replay
    BY <1>2 DEF Replay
  <1>3. CASE \E r \in Request : StartRun(r)
    BY <1>3, RepoElsewhere DEF StartRun
  <1>4. CASE Crash \/ Expire \/ BaselineFails \/ Verify \/ Escalate \/ PutInCache
             \/ CompensateRaises \/ TearDownRaises \/ UNCHANGED vars
    BY <1>4, RepoKept
       DEF Crash, Expire, BaselineFails, Verify, Escalate, PutInCache, CompensateRaises,
           TearDownRaises, vars
  <1>5. CASE Compensate \/ CompensateStep
    <2>1. tree'["repo"] = tree["repo"]
      BY <1>5, TearDownTypes DEF Compensate, CompensateStep, Sound
    <2> QED BY <2>1 DEF RepoSpared
  <1>6. CASE RevertToStable
    BY <1>6, PatchAssumption DEF RevertToStable, RepoSpared, Base, Change, Sound, PlaceTypes
  <1>7. CASE Prepare \/ PrepareFails
    <2>1. tree'["repo"] = tree["repo"]
      BY <1>7 DEF Prepare, PrepareFails, Sound, PlaceTypes
    <2> QED BY <2>1 DEF RepoSpared
  <1>8. CASE \/ \E p \in Patch, c \in Costs \cup {0}, x \in SUBSET Loose : Execute(p, c, x)
             \/ Apply \/ ReversePatch \/ SyncBack \/ Deliver
    <2>1. req' = req
      BY <1>8 DEF Execute, Apply, ReversePatch, SyncBack, Deliver
    <2>2. Site \in {"mirror", "remote"} /\ Workspace \in {"mirror", "remote"}
      BY <2>1, SitesElsewhere
    <2>3. \E d \in {"mirror", "remote"}, T \in {tree'["mirror"], tree'["remote"]} :
              tree' = [tree EXCEPT ![d] = T]
      BY <1>8, <2>2 DEF Execute, Apply, ReversePatch, SyncBack, Deliver, Sound, PlaceTypes
    <2> QED BY <2>3, RepoElsewhere
  <1> QED BY <1>1, <1>2, <1>3, <1>4, <1>5, <1>6, <1>7, <1>8, StepsQuietOrBusy DEF Next, Busy

\* Whatever fails and wherever it dies, a run in a sandbox changes repo_root only
\* to replay a cached patch, or to take patches out.
THEOREM SandboxSparesRepoTheorem == Spec => SandboxSparesRepo
  <1>1. IInv /\ [Next]_vars => [RepoSpared]_vars
    BY SandboxSpares DEF IInv
  <1> QED BY <1>1, Inductive, PTL DEF Spec, SandboxSparesRepo, RepoSpared

-------------------------------------------------------------------------------
(* The runs implement PatchAdmission: every step is a step of the rule of    *)
(* lowering_config.json:41, or none.                                         *)

RuleStep == [Rule!Next]_(Rule!vars)

\* What an action must show: how the stage moves, and that the patch on trial
\* and the one admitted move with it.
LEMMA Stutters ==
    ASSUME stage' = stage, UNCHANGED cache,
           patch' = patch \/ stage \in {"closed", "open", "reproduced"}
    PROVE  RuleStep
  BY DEF RuleStep, Rule!vars, trial, admitted

LEMMA Opens ==
    ASSUME stage = "closed", stage' = "open", UNCHANGED cache
    PROVE  RuleStep
  BY DEF RuleStep, Rule!Next, Rule!Open, trial, admitted

LEMMA Closes ==
    ASSUME stage # "closed", stage' = "closed", UNCHANGED cache
    PROVE  RuleStep
  BY DEF RuleStep, Rule!Next, Rule!Close, trial, admitted

LEMMA Reproduces ==
    ASSUME stage = "open", stage' = "reproduced", UNCHANGED cache
    PROVE  RuleStep
  BY DEF RuleStep, Rule!Next, Rule!Reproduce, trial, admitted

LEMMA Tries ==
    ASSUME stage = "reproduced", stage' = "trying", patch' \in Patch, UNCHANGED cache
    PROVE  RuleStep
  BY DEF RuleStep, Rule!Next, Rule!Try, trial, admitted

LEMMA Accepts ==
    ASSUME stage = "trying", stage' = "accepted", UNCHANGED <<patch, cache>>
    PROVE  RuleStep
  BY DEF RuleStep, Rule!Next, Rule!Accept, trial, admitted

LEMMA Refuses ==
    ASSUME stage = "trying", stage' = "reproduced", UNCHANGED cache
    PROVE  RuleStep
  BY DEF RuleStep, Rule!Next, Rule!Refuse, trial, admitted

LEMMA Admits ==
    ASSUME stage = "accepted", stage' = "closed", cache'.patch = patch
    PROVE  RuleStep
  BY DEF RuleStep, Rule!Next, Rule!Admit, trial, admitted

LEMMA Forgets ==
    ASSUME stage' = stage, UNCHANGED patch, cache'.patch = NoPatch
    PROVE  RuleStep
  BY DEF RuleStep, Rule!Next, Rule!Forget, trial, admitted

-------------------------------------------------------------------------------
(* The actions.                                                              *)

LEMMA QuietRefines ==
    ASSUME Sound, Quiet
    PROVE  RuleStep
  <1>1. QuietMove /\ Kept
    BY QuietSteps
  <1>2. UNCHANGED <<patch, prePatch, verified, cache>>
    BY <1>1 DEF Kept, model, proof
  <1> USE DEF Sound, VerifiedSound, BaselineSound, stage, Started, Trying, Passed, Ended
  <1>3. CASE pc' = "abort"
    <2>1. \/ stage' = stage
          \/ stage = "trying" /\ stage' = "reproduced"
      BY <1>1, <1>2, <1>3 DEF QuietMove
    <2> QED BY <1>2, <2>1, Stutters, Refuses
  <1>4. CASE pc' \in {"success", "failed", "escaped"}
    <2>1. stage' = "closed"
      BY <1>4
    <2> QED BY <1>2, <2>1, Stutters, Closes
  <1>5. CASE pc' \in {"lowering", "lookup", "prepare", "reverse", "report"}
    <2>1. stage' = stage
      BY <1>1, <1>2, <1>5 DEF QuietMove
    <2> QED BY <1>2, <2>1, Stutters
  <1> QED BY <1>1, <1>3, <1>4, <1>5 DEF QuietMove

LEMMA BusyRefines ==
    ASSUME Sound, Busy
    PROVE  RuleStep
  <1> USE DEF Sound, VerifiedSound, BaselineSound, stage, Started, Trying, Passed, Ended,
              model, proof
  <1>1. CASE Replay
    BY <1>1, Closes DEF Replay
  <1>2. CASE Prepare
    <2>1. pc' \in {"baseline", "execute"}
      BY <1>2 DEF Prepare, AfterPrepare
    <2> QED BY <1>2, <2>1, Stutters DEF Prepare
  <1>3. CASE PrepareFails
    BY <1>3, Stutters DEF PrepareFails, Raise
  <1>4. CASE BaselineFails
    <2>1. tree[Site] \in Tree
      BY <1>4 DEF SitesExist, BaselineFails
    <2>2. stage' = "reproduced" /\ stage \in {"open", "reproduced"} /\ UNCHANGED <<patch, cache>>
      BY <1>4, <2>1, TreeFacts DEF BaselineFails
    <2> QED BY <2>2, Stutters, Reproduces
  <1>5. CASE \E p \in Patch, c \in Costs \cup {0}, x \in SUBSET Loose : Execute(p, c, x)
    <2>1. /\ pc = "execute" /\ pc' \in {"apply", "abort"}
          /\ UNCHANGED <<prePatch, verified, cache>>
      BY <1>5 DEF Execute, Raise
    <2> QED BY <2>1, Stutters
  <1>6. CASE Apply
    <2>1. patch \in Patch
      BY <1>6 DEF TrialKnown, Apply
    <2> QED BY <1>6, <2>1, Tries DEF Apply
  <1>7. CASE Verify
    BY <1>7, Accepts DEF Verify
  <1>8. CASE ReversePatch \/ Compensate \/ SyncBack \/ Deliver
    BY <1>8, Stutters DEF ReversePatch, Compensate, SyncBack, Deliver
  <1>9. CASE RevertToStable
    <2>1. stage' = stage /\ UNCHANGED patch /\ (UNCHANGED cache \/ cache'.patch = NoPatch)
      BY <1>9 DEF RevertToStable, NoEntry
    <2> QED BY <2>1, Stutters, Forgets
  <1>10. CASE Escalate \/ TearDownRaises
    <2>1. stage = "trying" /\ stage' = "reproduced" /\ UNCHANGED cache
      BY <1>10 DEF Escalate, TearDownRaises, Raise
    <2> QED BY <2>1, Refuses
  <1>11. CASE PutInCache
    BY <1>11, Admits DEF PutInCache
  <1>12. CASE CompensateStep
    BY <1>12, Stutters DEF CompensateStep
  <1>13. CASE CompensateRaises
    BY <1>13, Closes DEF CompensateRaises, EndWith
  <1> QED BY <1>1, <1>2, <1>3, <1>4, <1>5, <1>6, <1>7, <1>8, <1>9, <1>10, <1>11, <1>12, <1>13
          DEF Busy

LEMMA EnvironmentRefines ==
    ASSUME Sound, (\E r \in Request : StartRun(r)) \/ Crash \/ Expire \/ UNCHANGED vars
    PROVE  RuleStep
  <1> USE DEF stage, Started, Trying, Passed, Ended, model, proof
  <1>1. CASE \E r \in Request : StartRun(r)
    <2>1. pc \in Ended /\ pc' = "lowering" /\ prePatch' = NoTree /\ UNCHANGED cache
      BY <1>1 DEF StartRun
    <2> QED BY <2>1, Opens
  <1>2. CASE Crash
    <2>1. stage' = "closed" /\ UNCHANGED <<patch, cache>>
      BY <1>2 DEF Crash
    <2> QED BY <2>1, Stutters, Closes
  <1>3. CASE Expire \/ UNCHANGED vars
    BY <1>3, Stutters DEF Expire, vars
  <1> QED BY <1>1, <1>2, <1>3

\* PipelineRun implements the rule of lowering_config.json:41, whatever fails:
\* no order of its steps admits a patch past a missing piece of evidence.
THEOREM Refinement == Spec => ImplementsPatchAdmission
  <1>1. Init => Rule!Init
    BY DEF Init, Rule!Init, stage, trial, admitted, Started, Ended, NoEntry
  <1>2. IInv /\ [Next]_vars => [Rule!Next]_(Rule!vars)
    BY QuietRefines, BusyRefines, EnvironmentRefines, StepsQuietOrBusy DEF IInv, Next, RuleStep
  <1> QED BY <1>1, <1>2, Inductive, PTL DEF Spec, ImplementsPatchAdmission, Rule!Spec

-------------------------------------------------------------------------------
(* The events of a run that failed.                                          *)

\* A run's events are only ever added to.
Grown == /\ Len(events') \in Nat /\ Len(events') >= Len(events)
         /\ \A i \in 1..Len(events) : events'[i] = events[i]

LEMMA RecordGrows ==
    ASSUME TypeOK, NEW e \in EventType, Record(e)
    PROVE  /\ Grown /\ Len(events) \in Nat
           /\ Len(events') = Len(events) + 1 /\ events'[Len(events) + 1] = Stamp(e)
  <1>1. Stamp(e) \in Event /\ events \in Seq(Event)
    BY DEF Stamp, Event, TypeOK, ControlTypes, HistoryTypes
  <1> QED BY <1>1, AppendProperties, LenProperties DEF Record, Grown

LEMMA RecordBothGrows ==
    ASSUME TypeOK, NEW e \in EventType, NEW f \in EventType, RecordBoth(e, f)
    PROVE  /\ Grown /\ Len(events) \in Nat
           /\ Len(events') = Len(events) + 2
           /\ events'[Len(events) + 1] = Stamp(e) /\ events'[Len(events) + 2] = Stamp(f)
  <1>1. Stamp(e) \in Event /\ Stamp(f) \in Event /\ events \in Seq(Event)
    BY DEF Stamp, Event, TypeOK, ControlTypes, HistoryTypes
  <1>2. Append(events, Stamp(e)) \in Seq(Event)
    BY <1>1, AppendProperties
  <1> QED BY <1>1, <1>2, AppendProperties, LenProperties DEF RecordBoth, Grown

LEMMA GrownHappened ==
    ASSUME TypeOK, Grown, NEW e, Happened(e)
    PROVE  Happened(e)'
  <1>1. Len(events) \in Nat
    BY LenProperties DEF TypeOK, HistoryTypes
  <1> QED BY <1>1 DEF Grown, Happened

LEMMA GrownPrepared ==
    ASSUME TypeOK, Grown,
           \A i \in (Len(events) + 1)..Len(events') : events'[i].type # "runtime_prepared"
    PROVE  Prepared' => Prepared
  <1>1. Len(events) \in Nat
    BY LenProperties DEF TypeOK, HistoryTypes
  <1>2. ASSUME NEW i \in 1..Len(events'), events'[i].type = "runtime_prepared"
        PROVE  i \in 1..Len(events) /\ events[i].type = "runtime_prepared"
    BY <1>1, <1>2 DEF Grown
  <1> QED BY <1>2 DEF Prepared

\* A diagnostic is only recorded on the way to compensation, as the last event.
NewDiagnostics ==
    \A i \in (Len(events) + 1)..Len(events') :
        events'[i].type = "diagnostic" => i = Len(events') /\ pc' = "abort"

\* What a step that is not a new run does to the events.
LEMMA StepGrows ==
    ASSUME TypeOK, LoweringShort, Step \/ Crash \/ Expire \/ UNCHANGED vars
    PROVE  /\ Grown
           /\ pc' = "abort" => \/ pc = "abort" /\ UNCHANGED events
                               \/ /\ events' # <<>>
                                  /\ events'[Len(events')].type = "diagnostic"
           /\ attempt' = attempt \/ (Escalate /\ Record("dispatch_attempt"))
           /\ Prepared' => Prepared \/ Prepare
           /\ NewDiagnostics
  <1> DEFINE Goal == /\ Grown
                     /\ pc' = "abort" => \/ pc = "abort" /\ UNCHANGED events
                                         \/ /\ events' # <<>>
                                            /\ events'[Len(events')].type = "diagnostic"
                     /\ attempt' = attempt \/ (Escalate /\ Record("dispatch_attempt"))
                     /\ Prepared' => Prepared \/ Prepare
                     /\ NewDiagnostics
  <1>1. Len(events) \in Nat
    BY LenProperties DEF TypeOK, HistoryTypes
  <1>2. ASSUME UNCHANGED <<events, attempt>>, pc' = "abort" => pc = "abort"
        PROVE  Goal
    BY <1>1, <1>2 DEF Grown, Prepared, NewDiagnostics
  <1>3. ASSUME NEW e \in EventType \ {"runtime_prepared", "diagnostic"}, Record(e),
               UNCHANGED attempt, pc' # "abort"
        PROVE  Goal
    <2>1. /\ Grown /\ Len(events') = Len(events) + 1
          /\ events'[Len(events) + 1] = Stamp(e)
      BY <1>3, RecordGrows
    <2>2. Stamp(e).type \notin {"runtime_prepared", "diagnostic"}
      BY <1>3 DEF Stamp
    <2>3. \A i \in (Len(events) + 1)..Len(events') : events'[i] = Stamp(e)
      BY <1>1, <2>1
    <2>4. (Prepared' => Prepared) /\ NewDiagnostics
      BY <2>1, <2>2, <2>3, GrownPrepared DEF NewDiagnostics
    <2> QED BY <1>3, <2>1, <2>4
  <1>4. ASSUME Raise, UNCHANGED attempt
        PROVE  Goal
    <2>1. Record("diagnostic") /\ "diagnostic" \in EventType
      BY <1>4 DEF Raise, EventType
    <2>2. Len(events') = Len(events) + 1 /\ events'[Len(events')] = Stamp("diagnostic") /\ Grown
      BY <1>1, <2>1, RecordGrows
    <2>3. NewDiagnostics
      BY <1>1, <1>4, <2>2 DEF NewDiagnostics, Raise
    <2> QED BY <1>1, <1>4, <2>2, <2>3 DEF Grown, Prepared, Stamp
  <1>5. CASE Lower
    <2>1. Len(Lowered) = 4 /\ \A i \in 1..4 : Lowered[i] \in EventType \ {"runtime_prepared", "diagnostic"}
      BY DEF Lowered, EventType
    <2>2. Len(events) + 1 \in 1..4
      BY <1>1, <1>5, <2>1 DEF Lower, LoweringShort
    <2> QED BY <1>3, <1>5, <2>1, <2>2 DEF Lower
  <1>6. CASE Replay \/ BaselineFails
    BY <1>3, <1>6 DEF Replay, BaselineFails, EventType
  <1>7. CASE LowerFails \/ ReplayFails \/ SnapshotStable \/ SnapshotFails \/ VerifyFails \/ Report
    BY <1>2, <1>7 DEF LowerFails, ReplayFails, SnapshotStable, SnapshotFails, VerifyFails, Report,
                      EndWith, history
  <1>8. CASE Apply \/ Verify \/ ReversePatch \/ RevertToStable \/ Compensate \/ SyncBack \/ Deliver
             \/ PutInCache
    BY <1>2, <1>8 DEF Apply, Verify, ReversePatch, RevertToStable, Compensate, SyncBack, Deliver,
                      PutInCache, history
  <1>9. CASE CompensateStep \/ CompensateRaises \/ Crash \/ Expire \/ UNCHANGED vars
    BY <1>2, <1>9 DEF CompensateStep, CompensateRaises, Crash, Expire, EndWith, vars, history
  <1>10. CASE Prepare
    <2>1. Record("runtime_prepared") /\ "runtime_prepared" \in EventType
      BY <1>10 DEF Prepare, EventType
    <2>2. /\ Grown /\ Len(events') = Len(events) + 1
          /\ events'[Len(events) + 1] = Stamp("runtime_prepared")
      BY <2>1, RecordGrows
    <2>3. NewDiagnostics
      BY <1>1, <2>2 DEF NewDiagnostics, Stamp
    <2> QED BY <1>10, <2>2, <2>3 DEF Prepare, AfterPrepare
  <1>11. CASE PrepareFails \/ BaselineRaises \/ ApplyRaises \/ VerifyRaises
              \/ RollbackRaises \/ TearDownRaises \/ DeliverRaises
    BY <1>4, <1>11 DEF PrepareFails, BaselineRaises, ApplyRaises, VerifyRaises,
                       RollbackRaises, TearDownRaises, DeliverRaises
  <1>12. CASE \E p \in Patch, c \in Costs \cup {0}, x \in SUBSET Loose : Execute(p, c, x)
    <2>1. UNCHANGED attempt /\ (Raise \/ (pc' = "apply" /\ UNCHANGED history))
      BY <1>12 DEF Execute
    <2> QED BY <1>2, <1>4, <2>1 DEF history
  <1>13. CASE Escalate
    <2>1. CASE Raise /\ UNCHANGED attempt
      BY <1>4, <2>1
    <2>2. CASE Record("dispatch_attempt") /\ pc' = "prepare"
      <3>1. "dispatch_attempt" \in EventType
        BY DEF EventType
      <3>2. /\ Grown /\ Len(events') = Len(events) + 1
            /\ events'[Len(events) + 1] = Stamp("dispatch_attempt")
        BY <2>2, <3>1, RecordGrows
      <3>3. Stamp("dispatch_attempt").type \notin {"runtime_prepared", "diagnostic"}
        BY DEF Stamp
      <3>4. (Prepared' => Prepared) /\ NewDiagnostics
        BY <1>1, <3>2, <3>3, GrownPrepared DEF NewDiagnostics
      <3> QED BY <1>1, <1>13, <2>2, <3>2, <3>4
    <2> QED BY <1>13, <2>1, <2>2 DEF Escalate
  <1>14. CASE GiveUp
    <2>1. "dispatch_attempt" \in EventType /\ "diagnostic" \in EventType
      BY DEF EventType
    <2>2. RecordBoth("dispatch_attempt", "diagnostic") /\ UNCHANGED attempt
      BY <1>14 DEF GiveUp
    <2>3. /\ Grown /\ Len(events') = Len(events) + 2
          /\ events'[Len(events) + 1] = Stamp("dispatch_attempt")
          /\ events'[Len(events')] = Stamp("diagnostic")
      BY <2>1, <2>2, RecordBothGrows
    <2>4. NewDiagnostics
      BY <1>1, <1>14, <2>3 DEF NewDiagnostics, GiveUp, Stamp
    <2> QED BY <1>1, <2>2, <2>3, <2>4 DEF Grown, Prepared, Stamp
  <1>15. CASE Complete
    <2>1. "dispatch_attempt" \in EventType /\ "execution_completed" \in EventType
      BY DEF EventType
    <2>2. RecordBoth("dispatch_attempt", "execution_completed") /\ UNCHANGED attempt /\ pc' = "report"
      BY <1>15 DEF Complete
    <2>3. /\ Grown /\ Len(events') = Len(events) + 2
          /\ events'[Len(events) + 1] = Stamp("dispatch_attempt")
          /\ events'[Len(events) + 2] = Stamp("execution_completed")
      BY <2>1, <2>2, RecordBothGrows
    <2>5. /\ Stamp("dispatch_attempt").type \notin {"runtime_prepared", "diagnostic"}
          /\ Stamp("execution_completed").type \notin {"runtime_prepared", "diagnostic"}
      BY DEF Stamp
    <2>4. \A i \in (Len(events) + 1)..Len(events') : i \in {Len(events) + 1, Len(events) + 2}
      BY <1>1, <2>3
    <2>6. (Prepared' => Prepared) /\ NewDiagnostics
      BY <1>1, <2>3, <2>4, <2>5, GrownPrepared DEF NewDiagnostics
    <2> QED BY <1>1, <2>2, <2>3, <2>6
  <1>16. CASE Fail
    <2>1. Record("compensation_completed") /\ UNCHANGED attempt /\ pc' = "failed"
          /\ "compensation_completed" \in EventType \ {"runtime_prepared", "diagnostic"}
      BY <1>16 DEF Fail, EndWith, EventType
    <2> QED BY <1>3, <2>1
  <1> QED BY <1>5, <1>6, <1>7, <1>8, <1>9, <1>10, <1>11, <1>12, <1>13, <1>14, <1>15, <1>16 DEF Step

\* The diagnostic is the last event while compensation goes on, and there is none
\* before; a second attempt has the first one recorded; before the first one there
\* is nothing to compensate.
Diagnosed ==
    /\ pc = "abort" => events # <<>> /\ events[Len(events)].type = "diagnostic"
    /\ pc \notin Ended => \A i \in 1..Len(events) :
          events[i].type = "diagnostic" => pc = "abort" /\ i = Len(events)
FirstRecorded == attempt = 2 => Happened([type |-> "dispatch_attempt", attempt |-> 1])
Unprepared == pc \in {"lowering", "lookup"} => attempt = 1 /\ ~Prepared
Explained == Diagnosed /\ FirstRecorded /\ Unprepared /\ FailureExplained

LEMMA DiagnosedInductive ==
    ASSUME IInv, Diagnosed, Step \/ Crash \/ Expire \/ UNCHANGED vars
    PROVE  Diagnosed'
  <1>1. TypeOK /\ LoweringShort /\ Len(events) \in Nat
    BY LenProperties DEF IInv, Sound, TypeOK, HistoryTypes
  <1>2. Grown /\ NewDiagnostics
    BY <1>1, StepGrows
  <1>3. pc' = "abort" => events' # <<>> /\ events'[Len(events')].type = "diagnostic"
    BY <1>1, StepGrows DEF Diagnosed
  <1>4. ASSUME pc' \notin Ended, NEW i \in 1..Len(events'), events'[i].type = "diagnostic"
        PROVE  pc' = "abort" /\ i = Len(events')
    <2>1. CASE i > Len(events)
      BY <1>1, <1>2, <1>4, <2>1 DEF NewDiagnostics, Grown
    <2>2. CASE i <= Len(events)
      <3>1. i \in 1..Len(events) /\ events[i].type = "diagnostic"
        BY <1>1, <1>2, <1>4, <2>2 DEF Grown
      <3>2. pc \notin Ended
        BY <1>4 DEF Step, Quiet, Busy, Crash, Expire, vars, Lower, LowerFails, Replay, ReplayFails,
           SnapshotStable, SnapshotFails, Prepare, PrepareFails, BaselineFails, BaselineRaises,
           Execute, Apply, ApplyRaises, Verify, VerifyFails, VerifyRaises, ReversePatch,
           RevertToStable, Compensate, RollbackRaises, TearDownRaises, Escalate, GiveUp, SyncBack,
           Deliver, DeliverRaises, PutInCache, Complete, Report, CompensateStep, CompensateRaises,
           Fail, Ended
      <3>3. pc = "abort" /\ i = Len(events)
        BY <3>1, <3>2 DEF Diagnosed
      <3>4. UNCHANGED <<pc, events>>
        <4>1. CASE CompensateStep \/ Expire \/ UNCHANGED vars
          BY <4>1 DEF CompensateStep, Expire, vars, history
        <4>2. pc' \in Ended \/ CompensateStep \/ Expire \/ UNCHANGED vars
          BY <3>3 DEF Step, Crash, Lower, LowerFails, Replay, ReplayFails,
             SnapshotStable, SnapshotFails, Prepare, PrepareFails, BaselineFails, BaselineRaises,
             Execute, Apply, ApplyRaises, Verify, VerifyFails, VerifyRaises, ReversePatch,
             RevertToStable, Compensate, RollbackRaises, TearDownRaises, Escalate, GiveUp, SyncBack,
             Deliver, DeliverRaises, PutInCache, Complete, Report, CompensateRaises,
             Fail, EndWith, Ended
        <4> QED BY <1>4, <4>1, <4>2
      <3> QED BY <3>3, <3>4
    <2> QED BY <1>1, <1>2, <2>1, <2>2 DEF Grown
  <1> QED BY <1>3, <1>4 DEF Diagnosed

LEMMA FirstRecordedInductive ==
    ASSUME IInv, FirstRecorded, Step \/ Crash \/ Expire \/ UNCHANGED vars
    PROVE  FirstRecorded'
  <1>1. TypeOK /\ LoweringShort /\ Len(events) \in Nat
    BY LenProperties DEF IInv, Sound, TypeOK, HistoryTypes
  <1>2. CASE attempt' = attempt
    BY <1>1, <1>2, StepGrows, GrownHappened DEF FirstRecorded
  <1>3. CASE Escalate /\ Record("dispatch_attempt")
    <2>1. CASE attempt = 1
      <3>1. events'[Len(events) + 1] = [type |-> "dispatch_attempt", attempt |-> 1]
            /\ Len(events') = Len(events) + 1
        BY <1>1, <1>3, <2>1, RecordGrows DEF Stamp, EventType
      <3> QED BY <1>1, <3>1 DEF FirstRecorded, Happened
    <2>2. CASE attempt = 2
      BY <1>1, <2>2, StepGrows, GrownHappened DEF FirstRecorded
    <2> QED BY <1>1, <2>1, <2>2 DEF TypeOK, ControlTypes
  <1> QED BY <1>1, <1>2, <1>3, StepGrows

LEMMA UnpreparedInductive ==
    ASSUME IInv, Unprepared, Step \/ Crash \/ Expire \/ UNCHANGED vars
    PROVE  Unprepared'
  <1> SUFFICES ASSUME pc' \in {"lowering", "lookup"}
               PROVE  attempt' = 1 /\ ~Prepared'
    BY DEF Unprepared
  <1>1. TypeOK /\ LoweringShort
    BY DEF IInv, Sound, TypeOK
  <1>2. pc \in {"lowering", "lookup"} /\ attempt' = attempt
    BY DEF Step, Crash, Lower, LowerFails, Replay, ReplayFails, Raise, EndWith, AfterPrepare,
       SnapshotStable, SnapshotFails, Prepare, PrepareFails, BaselineFails, BaselineRaises,
       Execute, Apply, ApplyRaises, Verify, VerifyFails, VerifyRaises, ReversePatch, Expire, vars,
       RevertToStable, Compensate, RollbackRaises, TearDownRaises, Escalate, GiveUp, SyncBack,
       Deliver, DeliverRaises, PutInCache, Complete, Report, CompensateStep, CompensateRaises, Fail
  <1>3. ~Prepare
    BY <1>2 DEF Prepare
  <1>4. Prepared' => Prepared \/ Prepare
    BY <1>1, StepGrows
  <1> QED BY <1>2, <1>3, <1>4 DEF Unprepared

\* The end of compensation: the summary is of a diagnostic, its compensation and
\* the attempt given up before.
LEMMA FailExplained ==
    ASSUME IInv, Diagnosed, FirstRecorded', Fail
    PROVE  FailureExplained'
  <1>1. TypeOK /\ Len(events) \in Nat /\ pc = "abort" /\ attempt \in 1..2
    BY LenProperties DEF IInv, Sound, TypeOK, HistoryTypes, Fail, ControlTypes
  <1>2. Len(events) >= 1 /\ events[Len(events)].type = "diagnostic"
    BY <1>1, EmptySeq DEF Diagnosed, TypeOK, HistoryTypes
  <1>3. /\ Grown /\ Len(events') = Len(events) + 1
        /\ events'[Len(events) + 1].type = "compensation_completed"
    BY <1>1, RecordGrows DEF Fail, Stamp, EventType
  <1>4. events' \in Seq(Event)
    BY <1>1, RecordTypes DEF Fail, Record, TypeOK, EventType
  <1>5. DOMAIN events' = 1..Len(events')
    BY <1>4, LenProperties
  <1>6. \A i \in 1..Len(events') : events'[i].type = "diagnostic" <=> i = Len(events') - 1
    <2>1. \A i \in 1..Len(events) : events[i].type = "diagnostic" <=> i = Len(events)
      BY <1>1, <1>2 DEF Diagnosed, Ended
    <2> QED BY <1>1, <1>2, <1>3, <2>1 DEF Grown
  <1>7. {i \in DOMAIN events' : events'[i].type = "diagnostic"} = {Len(events') - 1}
    BY <1>1, <1>2, <1>3, <1>5, <1>6
  <1>8. /\ summary'.run = run' /\ summary'.status = "failed"
        /\ summary'.diagnostics = Only(events', "diagnostic")
        /\ summary'.dispatch = Only(events', "dispatch_attempt")
        /\ attempt' = attempt /\ saga' = <<>>
    BY DEF Fail, EndWith, Summarize, place
  <1>9. DOMAIN summary'.diagnostics = {Len(events') - 1}
    BY <1>7, <1>8 DEF Only
  <1>10. ASSUME NEW a \in 1..attempt' - 1
         PROVE  \E i \in DOMAIN summary'.dispatch : summary'.dispatch[i] = a
    <2>1. a = 1 /\ attempt' = 2
      BY <1>1, <1>8, <1>10
    <2>2. PICK i \in 1..Len(events') : events'[i] = [type |-> "dispatch_attempt", attempt |-> 1]
      BY <2>1 DEF FirstRecorded, Happened
    <2>3. i \in DOMAIN events' /\ events'[i].type = "dispatch_attempt" /\ events'[i].attempt = a
      BY <1>5, <2>1, <2>2
    <2>4. i \in DOMAIN Only(events', "dispatch_attempt")
          /\ Only(events', "dispatch_attempt")[i] = a
      BY <2>3 DEF Only
    <2> QED BY <1>8, <2>4
  <1> QED BY <1>3, <1>8, <1>9, <1>10 DEF FailureExplained

\* A failure outside the try statement, or of the compensation itself.
LEMMA BareFailureExplained ==
    ASSUME IInv, Diagnosed, Unprepared, ReplayFails \/ SnapshotFails \/ CompensateRaises
    PROVE  FailureExplained'
  <1>1. DOMAIN Only(<<>>, "diagnostic") = {} /\ DOMAIN Only(<<>>, "dispatch_attempt") = {}
    <2>1. DOMAIN <<>> = {}
      BY EmptySeq
    <2> QED BY <2>1 DEF Only
  <1>2. CASE ReplayFails \/ SnapshotFails
    <2>1. /\ summary'.run = run' /\ summary'.status = "failed"
          /\ summary'.diagnostics = Only(<<>>, "diagnostic")
          /\ summary'.dispatch = Only(<<>>, "dispatch_attempt")
          /\ UNCHANGED <<attempt, events>> /\ pc = "lookup"
      BY <1>2 DEF ReplayFails, SnapshotFails, EndWith, Summarize, history
    <2>2. attempt' = 1 /\ ~Prepared'
      BY <2>1 DEF Unprepared, Prepared
    <2>3. DOMAIN summary'.diagnostics = {} /\ DOMAIN summary'.dispatch = {}
      BY <1>1, <2>1
    <2> QED BY <2>1, <2>2, <2>3 DEF FailureExplained
  <1>3. CASE CompensateRaises
    <2>1. UNCHANGED <<run, saga, events>> /\ pc = "abort" /\ saga # <<>>
      BY <1>3 DEF CompensateRaises, history
    <2>2. CASE pc' = "failed"
      <3>1. /\ summary'.run = run' /\ summary'.status = "failed"
            /\ summary'.diagnostics = Only(<<>>, "diagnostic")
            /\ summary'.dispatch = Only(<<>>, "dispatch_attempt")
        BY <1>3, <2>2 DEF CompensateRaises, EndWith, Summarize
      <3> QED BY <1>1, <2>1, <3>1 DEF FailureExplained, Diagnosed
    <2> QED BY <2>2 DEF FailureExplained
  <1> QED BY <1>2, <1>3

LEMMA ExplainedInductive ==
    ASSUME IInv, Explained, [Next]_vars
    PROVE  Explained'
  <1> USE DEF Explained
  <1>1. CASE \E r \in Request : StartRun(r)
    <2>1. events' = <<>> /\ pc' = "lowering" /\ attempt' = 1
      BY <1>1 DEF StartRun
    <2>2. Len(events') = 0
      BY <2>1, EmptySeq
    <2> QED BY <2>1, <2>2 DEF Diagnosed, FirstRecorded, Unprepared, Prepared, FailureExplained, Ended
  <1>2. CASE Step \/ Crash \/ Expire \/ UNCHANGED vars
    <2>1. Diagnosed' /\ FirstRecorded' /\ Unprepared'
      BY <1>2, DiagnosedInductive, FirstRecordedInductive, UnpreparedInductive
    <2>2. FailureExplained'
      <3>1. CASE Fail
        BY <2>1, <3>1, FailExplained
      <3>2. CASE ReplayFails \/ SnapshotFails \/ CompensateRaises
        BY <3>2, BareFailureExplained
      <3>3. CASE pc = "failed" /\ UNCHANGED <<run, events, summary, attempt, saga>>
        BY <3>3 DEF FailureExplained, Prepared
      <3>4. CASE pc' # "failed"
        BY <3>4 DEF FailureExplained
      <3>5. \/ Fail \/ ReplayFails \/ SnapshotFails \/ CompensateRaises
            \/ pc = "failed" /\ UNCHANGED <<run, events, summary, attempt, saga>>
            \/ pc' # "failed"
        <4>1. CASE Crash \/ Expire \/ UNCHANGED vars
          BY <4>1 DEF Crash, Expire, vars, history, place
        <4>2. CASE Busy
          BY <4>2 DEF Busy, Replay, Prepare, AfterPrepare, PrepareFails, BaselineFails, Execute,
              Apply, Verify, ReversePatch, RevertToStable, Compensate, Escalate, TearDownRaises,
              SyncBack, Deliver, PutInCache, CompensateStep, Raise
        <4>3. CASE Quiet
          BY <4>3 DEF Quiet, Lower, LowerFails, SnapshotStable, BaselineRaises,
              ApplyRaises, VerifyFails, VerifyRaises, RollbackRaises, GiveUp,
              DeliverRaises, Complete, Report, Raise, EndWith
        <4> QED BY <1>2, <4>1, <4>2, <4>3, StepsQuietOrBusy
      <3> QED BY <3>1, <3>2, <3>3, <3>4, <3>5
    <2> QED BY <2>1, <2>2
  <1> QED BY <1>1, <1>2 DEF Next

\* summary.json tells of every run that failed how it ended: with a diagnostic, its
\* compensation and a record of the attempt given up before, or with none of them
\* where no attempt was begun or the compensation raised.
THEOREM FailureExplainedTheorem == Spec => []FailureExplained
  <1>1. Init => Explained
    <2> SUFFICES ASSUME Init
                 PROVE  Explained
      OBVIOUS
    <2>1. events = <<>> /\ Len(events) = 0 /\ pc = "idle" /\ attempt = 1
      BY EmptySeq DEF Init
    <2> QED BY <2>1 DEF Explained, Diagnosed, FirstRecorded, Unprepared, FailureExplained, Ended
  <1>2. IInv /\ Explained /\ [Next]_vars => Explained'
    BY ExplainedInductive
  <1>3. Explained => FailureExplained
    BY DEF Explained
  <1> QED BY <1>1, <1>2, <1>3, Inductive, PTL DEF Spec

-------------------------------------------------------------------------------
(* What compensation leaves, where it does not fail itself.                  *)

\* The saga still knows all sandboxes of the run while it is worked off, and a
\* run in repo_root has none.
AbortCovers ==
    /\ pc = "abort" =>
          \A a \in 1..2 : <<run, a>> \in live => \E i \in 1..Len(saga) : saga[i] = a
    /\ req.sandbox = "local" => \A a \in 1..2 : <<run, a>> \notin live
\* A run that prepared a sandbox has something on the saga until its compensation
\* took it off, and with it the worktree.
WorktreeCovered ==
    /\ pc \in {"lowering", "lookup"} => ~Prepared
    /\ pc \notin Ended \cup {"abort"} /\ Prepared => saga # <<>>
    /\ pc = "abort" /\ Prepared /\ saga = <<>> =>
          tree["mirror"] = NoTree \/ req.sandbox = "local"
Destroyed == Registry /\ AbortCovers /\ WorktreeCovered /\ CompensationDestroysSandboxes

\* A step that starts no sandbox and leaves saga and worktree as they are.
LEMMA DestroyedKept ==
    ASSUME Destroyed, Registry', live' \subseteq live, UNCHANGED <<run, req, saga>>,
           Prepared' => Prepared,
           \/ pc' = pc /\ tree' = tree
           \/ /\ pc \notin Ended \cup {"abort"}
              /\ pc' \notin Ended \cup {"lowering", "lookup"}
           \/ pc = "lowering" /\ pc' = "lookup"
           \/ pc' \in Ended \ {"failed"}
    PROVE  Destroyed'
  <1>1. AbortCovers'
    BY DEF Destroyed, Registry, SandboxesOnSaga, AbortCovers, Ended
  <1>2. WorktreeCovered'
    BY DEF Destroyed, WorktreeCovered, Ended
  <1>3. CompensationDestroysSandboxes'
    BY DEF Destroyed, CompensationDestroysSandboxes, Ended
  <1> QED BY <1>1, <1>2, <1>3 DEF Destroyed

\* Taking the last step off the saga destroys what it is for.
\* The session compensated last is taken off the saga and no other one.
LEMMA ShorterSaga ==
    ASSUME IInv, CompensateStep
    PROVE  /\ Len(saga') = Len(saga) - 1
           /\ \A i \in 1..Len(saga) - 1 : saga'[i] = saga[i]
  <1>1. saga \in Seq(1..2) /\ saga # <<>> /\ Len(saga) \in Nat
    BY LenProperties DEF CompensateStep, IInv, Sound, PlaceTypes
  <1>2. Len(saga) >= 1
    BY <1>1, EmptySeq
  <1>3. saga' = SubSeq(saga, 1, Len(saga) - 1)
    BY DEF CompensateStep
  <1>4. \A i \in 1..(Len(saga) - 1) : saga[i] \in 1..2
    BY <1>1, ElementOfSeq
  <1>5. Len(saga) - 1 \in Int /\ 1 \in Int
    BY <1>1
  <1>6. /\ Len(SubSeq(saga, 1, Len(saga) - 1)) = IF 1 <= Len(saga) - 1 THEN Len(saga) - 1 - 1 + 1 ELSE 0
        /\ \A i \in 1..(Len(saga) - 1 - 1 + 1) : SubSeq(saga, 1, Len(saga) - 1)[i] = saga[1 + i - 1]
    BY <1>4, <1>5, SubSeqProperties
  <1>7. Len(saga') = Len(saga) - 1
    <2>1. \A n \in Nat : n >= 1 => (IF 1 <= n - 1 THEN n - 1 - 1 + 1 ELSE 0) = n - 1
      OBVIOUS
    <2>2. Len(SubSeq(saga, 1, Len(saga) - 1)) = Len(saga) - 1
      BY <1>1, <1>2, <1>6, <2>1
    <2> QED BY <1>3, <2>2
  <1>8. ASSUME NEW i \in 1..(Len(saga) - 1)
        PROVE  saga'[i] = saga[i]
    <2>1. i \in 1..(Len(saga) - 1 - 1 + 1) /\ 1 + i - 1 = i
      BY <1>1, <1>8
    <2> QED BY <1>3, <1>6, <2>1
  <1> QED BY <1>7, <1>8

LEMMA CompensateStepDestroyed ==
    ASSUME IInv, Destroyed, Registry', CompensateStep, "teardown" \notin Faults,
           Prepared' => Prepared
    PROVE  Destroyed'
  <1>1. Len(saga) \in Nat
    BY LenProperties DEF IInv, Sound, PlaceTypes
  <1>3. /\ Len(saga') = Len(saga) - 1
        /\ \A i \in 1..Len(saga) - 1 : saga'[i] = saga[i]
    BY ShorterSaga
  <1>4. CASE req.sandbox = "local"
    BY <1>4 DEF CompensateStep, TearDown, Destroyed, AbortCovers, WorktreeCovered,
                CompensationDestroysSandboxes
  <1>5. CASE req.sandbox # "local"
    <2>1. live' = live \ {<<run, saga[Len(saga)]>>} /\ tree'["mirror"] = NoTree
      BY <1>5 DEF CompensateStep, TearDown, IInv, Sound, PlaceTypes
    <2>2. ASSUME NEW a \in 1..2, <<run, a>> \in live'
          PROVE  \E i \in 1..Len(saga') : saga'[i] = a
      <3>1. PICK i \in 1..Len(saga) : saga[i] = a
        BY <2>1, <2>2 DEF CompensateStep, Destroyed, AbortCovers
      <3>2. i # Len(saga)
        BY <2>1, <2>2, <3>1
      <3> QED BY <1>1, <1>3, <3>1, <3>2
    <2>3. AbortCovers'
      BY <1>5, <2>2 DEF CompensateStep, AbortCovers
    <2> QED BY <2>1, <2>3 DEF CompensateStep, Destroyed, WorktreeCovered,
                              CompensationDestroysSandboxes, Ended
  <1> QED BY <1>4, <1>5

LEMMA DestroyedInductive ==
    ASSUME IInv, Destroyed, [Next]_vars, "teardown" \notin Faults
    PROVE  Destroyed'
  <1>1. Registry' /\ TypeOK /\ LoweringShort /\ Sound
    BY RegistryInductive DEF Destroyed, IInv, Sound, TypeOK
  <1>2. CASE \E r \in Request : StartRun(r)
    <2>1. run \in Nat /\ run' = run + 1 /\ live' = live /\ pc' = "lowering" /\ events' = <<>>
      BY <1>1, <1>2 DEF StartRun, Sound, ControlTypes
    <2>2. \A a \in 1..2 : <<run', a>> \notin live'
      BY <2>1 DEF Destroyed, Registry, LiveKnown
    <2> QED BY <1>1, <2>1, <2>2 DEF Destroyed, AbortCovers, WorktreeCovered, Prepared,
                                    CompensationDestroysSandboxes, Ended
  <1>3. CASE Step \/ Crash \/ Expire \/ UNCHANGED vars
    <2> USE DEF place
    <2>1. Prepared' => Prepared \/ Prepare
      BY <1>1, <1>3, StepGrows
    <2>2. CASE Prepare
      <3>1. Len(saga) \in Nat /\ Len(saga') = Len(saga) + 1
        BY <1>1, <2>2, AppendProperties, LenProperties
           DEF Prepare, Registered, Sound, PlaceTypes, ControlTypes
      <3>2. saga' # <<>>
        BY <3>1
      <3>3. pc' \in {"baseline", "execute"} /\ pc \notin Ended \cup {"abort"}
            /\ UNCHANGED <<run, req>>
            /\ (req.sandbox = "local" => live' = live)
        BY <2>2 DEF Prepare, AfterPrepare, Ended
      <3> QED BY <1>1, <3>2, <3>3 DEF Destroyed, AbortCovers, WorktreeCovered,
                                      CompensationDestroysSandboxes, Ended
    <2>3. CASE CompensateStep
      BY <1>1, <2>1, <2>3, CompensateStepDestroyed DEF CompensateStep, Prepare
    <2>4. CASE Fail
      BY <1>1, <2>1, <2>4, EmptySeq DEF Fail, EndWith, Prepare, Destroyed, AbortCovers,
         WorktreeCovered, CompensationDestroysSandboxes, Ended, Sound, PlaceTypes
    <2>5. CASE ReplayFails \/ SnapshotFails
      <3>1. UNCHANGED <<run, req, saga, live>> /\ ~Prepared' /\ pc' = "failed"
        BY <2>1, <2>5 DEF ReplayFails, SnapshotFails, EndWith, Prepare, Destroyed, WorktreeCovered
      <3> QED BY <1>1, <3>1 DEF Destroyed, AbortCovers, WorktreeCovered,
                                CompensationDestroysSandboxes, Ended
    <2>6. CASE Lower \/ LowerFails \/ SnapshotStable \/ BaselineRaises
               \/ ApplyRaises \/ VerifyFails \/ VerifyRaises
      BY <1>1, <2>1, <2>6, DestroyedKept
         DEF Lower, LowerFails, SnapshotStable, BaselineRaises, ApplyRaises,
             VerifyFails, VerifyRaises, Raise, Prepare, Ended
    <2>7. CASE RollbackRaises \/ GiveUp \/ DeliverRaises \/ Complete \/ Report \/ Crash \/ UNCHANGED vars
      BY <1>1, <2>1, <2>7, DestroyedKept
         DEF RollbackRaises, GiveUp, DeliverRaises, Complete, Report, EndWith, Crash, Raise, Prepare,
             Ended, vars, history, Prepared
    <2>8. CASE Replay \/ PrepareFails \/ BaselineFails
      <3>1. /\ pc \in {"lookup", "prepare", "baseline"} /\ ~Prepare
            /\ pc' \in {"report", "abort", "execute"}
            /\ UNCHANGED <<run, req, saga, live>>
        <4>1. CASE Replay
          BY <4>1 DEF Replay, Prepare
        <4>2. CASE PrepareFails
          <5>1. pc' = "abort" /\ Record("diagnostic") /\ "diagnostic" \in EventType
            BY <4>2 DEF PrepareFails, Raise, EventType
          <5> QED BY <4>2, <5>1 DEF PrepareFails, Prepare, AfterPrepare
        <4>3. CASE BaselineFails
          BY <4>3 DEF BaselineFails, Prepare
        <4> QED BY <2>8, <4>1, <4>2, <4>3
      <3> QED BY <1>1, <2>1, <3>1, DestroyedKept DEF Ended
    <2>14. CASE Apply \/ Verify \/ ReversePatch \/ RevertToStable
      BY <1>1, <2>1, <2>14, DestroyedKept
         DEF Apply, Verify, ReversePatch, RevertToStable, Prepare, Ended
    <2>9. CASE \E p \in Patch, c \in Costs \cup {0}, x \in SUBSET Loose : Execute(p, c, x)
      <3>1. pc = "execute" /\ pc' \in {"apply", "abort"} /\ UNCHANGED <<run, req, saga, live>>
        BY <2>9 DEF Execute, Raise
      <3> QED BY <1>1, <2>1, <3>1, DestroyedKept DEF Prepare, Ended
    <2>10. CASE Escalate \/ SyncBack \/ Deliver \/ PutInCache
      BY <1>1, <2>1, <2>10, DestroyedKept
         DEF Escalate, Raise, SyncBack, Deliver, PutInCache, Prepare, Ended
    <2>11. CASE Compensate
      <3>1. live' \subseteq live
        BY <1>1, <2>11, TearDownTypes DEF Compensate, Sound
      <3> QED BY <1>1, <2>1, <2>11, <3>1, DestroyedKept DEF Compensate, Prepare, Ended
    <2>12. CASE TearDownRaises \/ CompensateRaises
      BY <2>12 DEF TearDownRaises, CompensateRaises
    <2>13. CASE Expire
      BY <1>1, <2>1, <2>13, DestroyedKept DEF Expire, Prepare, history, Prepared
    <2> QED BY <1>3, <2>2, <2>3, <2>4, <2>5, <2>6, <2>7, <2>8, <2>9, <2>10, <2>11, <2>12, <2>13,
               <2>14 DEF Step
  <1> QED BY <1>2, <1>3 DEF Next

\* lowering_config.json:370: unless a compensation itself fails, a run that failed
\* has destroyed the sandboxes of all its attempts and removed its worktree.
THEOREM CompensationDestroysTheorem ==
    ASSUME "teardown" \notin Faults
    PROVE  Spec => []CompensationDestroysSandboxes
  <1>1. Init => Destroyed
    BY DEF Init, Destroyed, Registry, LiveKnown, SandboxesOnSaga, AbortCovers, WorktreeCovered,
           CompensationDestroysSandboxes, Prepared, Ended
  <1>2. IInv /\ Destroyed /\ [Next]_vars => Destroyed'
    BY DestroyedInductive
  <1>3. Destroyed => CompensationDestroysSandboxes
    BY DEF Destroyed
  <1> QED BY <1>1, <1>2, <1>3, Inductive, PTL DEF Spec

-------------------------------------------------------------------------------
(* What the evidence of a run in a sandbox is about, where no process dies,  *)
(* no executor writes by itself and no compensation fails.                   *)

Calm == {"crash", "direct", "teardown"} \cap Faults = {}

\* Once the cache has an entry no run gets as far as a sandbox.
CacheEnds == /\ cache # NoEntry => pc \in Ended \cup {"lowering", "lookup", "record", "report"}
             /\ pc \in {"record", "report"} => cache # NoEntry
\* Until then a worktree nobody works in is one of the base commit, and the saga
\* of a run in a sandbox is not empty while somebody does.
Fresh(T) == T \in {NoTree, Base}
MirrorFresh ==
    /\ cache = NoEntry /\ (\/ pc \in Ended \cup {"lowering", "lookup", "prepare", "escalate"}
                           \/ req.sandbox = "local"
                           \/ pc = "abort" /\ saga = <<>>)
       => Fresh(tree["mirror"])
    /\ pc \in {"baseline", "execute", "apply", "verify", "reverse", "revert", "compensate",
               "sync", "deliver", "cache"} => saga # <<>>
\* What the site of an attempt holds, and what was gathered as evidence.
SiteOnBase == req.sandbox # "local" =>
    /\ pc \in {"baseline", "execute", "apply"} => tree[Site] = Base
    /\ pc \in {"verify", "sync"} => tree[Site] = Plus(Base, patch)
    /\ pc = "sync" => verified = tree[Site]
    /\ prePatch \in {NoTree, Base}
OnBase == CacheEnds /\ MirrorFresh /\ SiteOnBase

LEMMA QuietOnBase ==
    ASSUME IInv, OnBase, Quiet
    PROVE  OnBase'
  <1>1. QuietMove /\ Kept
    BY QuietSteps
  <1>2. UNCHANGED <<req, patch, prePatch, verified, tree, saga, cache>> /\ (pc' = "report" => pc = "record")
        /\ (pc = "lookup" /\ pc' # "escaped" => cache = NoEntry \/ pc' \notin {"prepare", "abort"})
        /\ (pc \in {"lowering", "lookup"} => pc' # "abort")
    BY <1>1 DEF Kept, model, proof, place, QuietMove, Quiet, Lower, LowerFails, ReplayFails,
       SnapshotStable, SnapshotFails, BaselineRaises, ApplyRaises, VerifyFails,
       VerifyRaises, RollbackRaises, GiveUp, DeliverRaises, Complete, Report, Fail, Raise, EndWith
  <1>3. CacheEnds'
    BY <1>1, <1>2 DEF OnBase, CacheEnds, QuietMove, Ended
  <1>4. MirrorFresh'
    <2>1. CASE Fail
      BY <1>2, <2>1 DEF Fail, EndWith, OnBase, MirrorFresh, Fresh, Ended
    <2>2. CASE Report
      BY <1>2, <2>2 DEF Report, EndWith, OnBase, MirrorFresh, CacheEnds, Fresh, Ended
    <2>3. CASE ReplayFails \/ SnapshotFails \/ LowerFails \/ Lower \/ SnapshotStable
      BY <1>2, <2>3 DEF ReplayFails, SnapshotFails, LowerFails, Lower, SnapshotStable, EndWith,
                        OnBase, MirrorFresh, Fresh, Ended
    <2>4. CASE BaselineRaises \/ ApplyRaises \/ VerifyFails \/ VerifyRaises
      BY <1>2, <2>4 DEF BaselineRaises, ApplyRaises, VerifyFails, VerifyRaises, Raise,
                        OnBase, MirrorFresh, Fresh, Ended
    <2>5. CASE RollbackRaises \/ GiveUp \/ DeliverRaises
      BY <1>2, <2>5 DEF RollbackRaises, GiveUp, DeliverRaises, Raise, OnBase, MirrorFresh, Fresh, Ended
    <2>6. CASE Complete
      BY <1>2, <2>6 DEF Complete, OnBase, MirrorFresh, CacheEnds, Fresh, Ended
    <2> QED BY <2>1, <2>2, <2>3, <2>4, <2>5, <2>6 DEF Quiet
  <1>5. SiteOnBase'
    BY <1>1, <1>2 DEF OnBase, SiteOnBase, Site, QuietMove, Ended
  <1> QED BY <1>3, <1>4, <1>5 DEF OnBase

LEMMA PrepareOnBase ==
    ASSUME IInv, OnBase, Prepare
    PROVE  OnBase'
  <1>1. cache = NoEntry /\ cache' = NoEntry
    BY DEF Prepare, OnBase, CacheEnds, Ended
  <1>2. Fresh(tree["mirror"])
    BY <1>1 DEF Prepare, OnBase, MirrorFresh
  <1>3. Mirror = Base
    BY <1>2, TreeFacts DEF Mirror, Fresh
  <1>4. /\ UNCHANGED <<req, patch, prePatch, verified>> /\ pc' \in {"baseline", "execute"}
        /\ saga' # <<>>
    <2>1. saga \in Seq(1..2) /\ attempt \in 1..2
      BY DEF IInv, Sound, PlaceTypes, ControlTypes
    <2>2. saga' # <<>>
      BY <2>1, AppendProperties DEF Prepare, Registered
    <2> QED BY <2>2 DEF Prepare, AfterPrepare, model, proof
  <1>5. req.sandbox # "local" => tree'[Site] = Base
    <2>1. req.sandbox \in Sandbox /\ tree \in [{"repo", "mirror", "remote"} -> Tree \cup {NoTree}]
      BY RequestAssumption DEF IInv, Sound, ControlTypes, PlaceTypes
    <2>2. CASE req.sandbox = "remote"
      BY <1>3, <2>1, <2>2 DEF Prepare, Site
    <2>3. CASE req.sandbox \in {"worktree", "container"}
      BY <1>3, <2>1, <2>3 DEF Prepare, Site
    <2> QED BY <2>1, <2>2, <2>3 DEF Sandbox
  <1>6. req.sandbox = "local" => tree' = tree
    BY DEF Prepare
  <1>7. CacheEnds' /\ MirrorFresh'
    BY <1>1, <1>2, <1>4, <1>6 DEF OnBase, CacheEnds, MirrorFresh, Fresh, Ended
  <1>8. SiteOnBase'
    BY <1>4, <1>5 DEF OnBase, SiteOnBase, Site
  <1> QED BY <1>7, <1>8 DEF OnBase

\* Steps of an attempt on its own directories.
LEMMA AttemptOnBase ==
    ASSUME IInv, OnBase, Calm,
           \/ BaselineFails \/ Apply \/ Verify \/ ReversePatch \/ SyncBack \/ Deliver
           \/ \E p \in Patch, c \in Costs \cup {0}, x \in SUBSET Loose : Execute(p, c, x)
    PROVE  OnBase'
  <1>1. tree[Site] \in Tree /\ tree[Workspace] \in Tree
        /\ tree \in [{"repo", "mirror", "remote"} -> Tree \cup {NoTree}]
    BY DEF IInv, Sound, SitesExist, PlaceTypes, BaselineFails, Apply, Verify, ReversePatch,
           SyncBack, Deliver, Execute
  <1>2. /\ pc \in {"baseline", "execute", "apply", "verify", "reverse", "sync", "deliver"}
        /\ pc' \in {"execute", "apply", "verify", "sync", "revert", "deliver", "cache", "abort"}
        /\ UNCHANGED <<req, saga, cache>>
    BY DEF BaselineFails, Apply, Verify, ReversePatch, SyncBack, Deliver, Execute, Raise, place
  <1>3. req.sandbox = "local" => tree'["mirror"] = tree["mirror"]
    BY <1>1 DEF BaselineFails, Apply, Verify, ReversePatch, SyncBack, Deliver, Execute, Raise, place,
                Site, Workspace
  <1>4. CacheEnds' /\ MirrorFresh'
    BY <1>2, <1>3 DEF OnBase, CacheEnds, MirrorFresh, Fresh, Ended
  <1>5. SiteOnBase'
    <2>1. CASE BaselineFails
      BY <2>1 DEF BaselineFails, model, place, OnBase, SiteOnBase, Site
    <2>2. CASE Apply
      BY <1>1, <2>2 DEF Apply, proof, OnBase, SiteOnBase, Site
    <2>3. CASE Verify
      BY <2>3 DEF Verify, model, place, OnBase, SiteOnBase, Site
    <2>4. CASE ReversePatch \/ SyncBack \/ Deliver
      BY <2>4 DEF ReversePatch, SyncBack, Deliver, model, proof, OnBase, SiteOnBase
    <2>5. CASE \E p \in Patch, c \in Costs \cup {0}, x \in SUBSET Loose : Execute(p, c, x)
      <3>1. PICK p \in Patch, c \in Costs \cup {0}, x \in SUBSET Loose : Execute(p, c, x)
        BY <2>5
      <3>2. x = {}
        BY <3>1 DEF Execute, Calm
      <3>3. [y \in Change |-> IF y \in x THEN "once" ELSE tree[Workspace][y]] = tree[Workspace]
        BY <1>1, <3>2 DEF Tree
      <3>4. tree' = tree
        BY <1>1, <3>1, <3>3 DEF Execute, Workspace
      <3>5. UNCHANGED <<req, prePatch, verified>> /\ pc = "execute" /\ pc' \in {"apply", "abort"}
        BY <3>1 DEF Execute, Raise, proof
      <3> QED BY <3>4, <3>5 DEF OnBase, SiteOnBase, Site
    <2> QED BY <2>1, <2>2, <2>3, <2>4, <2>5
  <1> QED BY <1>4, <1>5 DEF OnBase

\* Steps after which a worktree is fresh or gone, and those that end a run.
LEMMA OtherOnBase ==
    ASSUME IInv, OnBase, Calm,
           \/ Replay \/ PrepareFails \/ RevertToStable \/ Compensate \/ Escalate
           \/ PutInCache \/ CompensateStep \/ TearDownRaises \/ CompensateRaises
    PROVE  OnBase'
  <1>1. tree \in [{"repo", "mirror", "remote"} -> Tree \cup {NoTree}] /\ NoTree # Base
    BY TreeFacts DEF IInv, Sound, PlaceTypes
  <1>2. CASE Replay
    <2>1. tree'["mirror"] = tree["mirror"]
      BY <1>1, <1>2 DEF Replay
    <2> QED BY <1>2, <2>1 DEF Replay, proof, OnBase, CacheEnds, MirrorFresh, SiteOnBase, Ended
  <1>3. CASE PrepareFails
    <2>1. cache = NoEntry /\ Fresh(tree["mirror"])
      BY <1>3 DEF PrepareFails, OnBase, CacheEnds, MirrorFresh, Ended
    <2>2. Fresh(Mirror)
      BY <2>1 DEF Mirror, Fresh
    <2>3. tree'["mirror"] \in {tree["mirror"], Mirror, NoTree}
      BY <1>1, <1>3 DEF PrepareFails
    <2>4. Fresh(tree'["mirror"])
      BY <2>1, <2>2, <2>3 DEF Fresh
    <2> QED BY <1>3, <2>1, <2>4
            DEF PrepareFails, Raise, model, proof, OnBase, CacheEnds, MirrorFresh, SiteOnBase, Ended,
                Fresh
  <1>4. CASE RevertToStable
    <2>1. tree'["mirror"] = tree["mirror"] /\ cache' = NoEntry
      BY <1>1, <1>4 DEF RevertToStable, OnBase, CacheEnds, Ended
    <2> QED BY <1>4, <2>1
            DEF RevertToStable, model, proof, OnBase, CacheEnds, MirrorFresh, SiteOnBase, Ended, Fresh
  <1>5. CASE Compensate \/ CompensateStep
    <2>1. IF req.sandbox = "local" THEN tree' = tree ELSE tree'["mirror"] = NoTree
      BY <1>1, <1>5 DEF Compensate, CompensateStep, TearDown
    <2>2. /\ UNCHANGED <<req, patch, prePatch, verified, cache>>
          /\ pc \in {"compensate", "abort"} /\ pc' \in {"escalate", "abort"}
      BY <1>5 DEF Compensate, CompensateStep, model, proof
    <2>3. CacheEnds' /\ SiteOnBase'
      BY <2>2 DEF OnBase, CacheEnds, SiteOnBase, Ended
    <2>4. MirrorFresh'
      BY <2>1, <2>2 DEF OnBase, MirrorFresh, Fresh, Ended
    <2> QED BY <2>3, <2>4 DEF OnBase
  <1>6. CASE Escalate
    BY <1>6 DEF Escalate, Raise, proof, place, OnBase, CacheEnds, MirrorFresh, SiteOnBase, Ended, Fresh
  <1>7. CASE PutInCache
    <2>1. cache' # NoEntry
      <3>1. cache'.patch = patch /\ patch \in Patch
        BY <1>7 DEF PutInCache, IInv, Sound, TrialKnown
      <3> QED BY <3>1, PatchAssumption DEF NoEntry
    <2> QED BY <1>7, <2>1
            DEF PutInCache, model, proof, OnBase, CacheEnds, MirrorFresh, SiteOnBase, Ended
  <1>8. CASE TearDownRaises \/ CompensateRaises
    BY <1>8 DEF TearDownRaises, CompensateRaises, Calm
  <1> QED BY <1>2, <1>3, <1>4, <1>5, <1>6, <1>7, <1>8

LEMMA OnBaseInductive ==
    ASSUME IInv, OnBase, Calm, [Next]_vars
    PROVE  OnBase'
  <1>1. CASE Quiet
    BY <1>1, QuietOnBase
  <1>2. CASE Busy
    BY <1>2, PrepareOnBase, AttemptOnBase, OtherOnBase DEF Busy
  <1>3. CASE \E r \in Request : StartRun(r)
    <2>1. /\ pc \in Ended /\ pc' = "lowering" /\ cache' = cache /\ prePatch' = NoTree
          /\ tree'["mirror"] = tree["mirror"]
      BY <1>3 DEF StartRun, IInv, Sound, PlaceTypes
    <2> QED BY <2>1 DEF OnBase, CacheEnds, MirrorFresh, SiteOnBase, Fresh, Ended
  <1>4. CASE Crash
    BY <1>4 DEF Crash, Calm
  <1>5. CASE Expire \/ UNCHANGED vars
    BY <1>5 DEF Expire, vars, model, proof, place, OnBase, CacheEnds, MirrorFresh, SiteOnBase, Fresh,
                Site
  <1> QED BY <1>1, <1>2, <1>3, <1>4, <1>5, StepsQuietOrBusy DEF Next

\* In a sandbox the evidence of both kinds is about the base commit, without and
\* with the patch, whatever commands fail and however often the task was run
\* before, as long as none of these runs died, no executor wrote by itself and no
\* compensation failed.
THEOREM VerifiedOnBaseTheorem ==
    ASSUME Calm
    PROVE  Spec => []VerifiedOnBase
  <1>1. Init => OnBase
    BY DEF Init, OnBase, CacheEnds, MirrorFresh, SiteOnBase, Fresh, Ended
  <1>2. IInv /\ OnBase /\ [Next]_vars => OnBase'
    BY OnBaseInductive
  <1>3. IInv /\ OnBase => VerifiedOnBase
    BY DEF IInv, Sound, BaselineSound, OnBase, SiteOnBase, VerifiedOnBase
  <1> QED BY <1>1, <1>2, <1>3, Inductive, PTL DEF Spec

-------------------------------------------------------------------------------
(* What is delivered, where no executor writes by itself and git refuses to  *)
(* apply a patch twice.                                                      *)

Once == "direct" \notin Faults /\ Repeatable = {}

\* The worktree is a copy of the remote sandbox until the patch is applied there,
\* and the same without the patch from then on.
Copied ==
    req.sandbox = "remote" =>
        /\ pc \in {"baseline", "execute", "apply"} => tree["remote"] = tree["mirror"]
        /\ pc \in {"verify", "sync"} =>
              tree["mirror"] = [tree["remote"] EXCEPT ![patch] = "absent"]
\* What was verified has the patch once; the workspace differs from it by what the
\* synchronization did with the patch.
Synced ==
    /\ pc \in {"verify", "sync"} => tree[Site][patch] = "once"
    /\ pc = "sync" => verified = tree[Site]
    /\ pc = "deliver" =>
          /\ verified \in Tree /\ verified[patch] = "once"
          /\ \E c \in {"absent", "partial", "once"} :
                tree[Workspace] = [verified EXCEPT ![patch] = c]
Handed ==
    /\ pc \in {"cache", "record"} => tree[Workspace] = verified
    /\ pc \in {"report", "success"} /\ ~Replayed => tree[Workspace] = verified
Delivered == Copied /\ Synced /\ Handed

\* A step to a place where nothing is said of the trees, or one that leaves alone
\* what is said of them.
LEMMA DeliveredAway ==
    ASSUME pc' \notin {"baseline", "execute", "apply", "verify", "sync", "deliver", "cache", "record",
                       "report", "success"}
    PROVE  Delivered'
  BY DEF Delivered, Copied, Synced, Handed

LEMMA QuietDelivered ==
    ASSUME IInv, Delivered, Quiet
    PROVE  Delivered'
  <1>1. CASE Report
    <2>1. /\ pc = "report" /\ pc' = "success" /\ UNCHANGED <<req, tree, verified>>
          /\ Replayed => Replayed'
      BY <1>1 DEF Report, EndWith, proof, place, history, Replayed
    <2> QED BY <2>1 DEF Delivered, Copied, Synced, Handed, Workspace
  <1>2. CASE Complete
    <2>1. pc = "record" /\ pc' = "report" /\ UNCHANGED <<req, tree, verified>>
      BY <1>2 DEF Complete, proof, place
    <2> QED BY <2>1 DEF Delivered, Copied, Synced, Handed, Workspace
  <1>3. CASE ~Report /\ ~Complete
    BY <1>3, DeliveredAway
       DEF Quiet, Lower, LowerFails, ReplayFails, SnapshotStable, SnapshotFails, BaselineRaises,
           ApplyRaises, VerifyFails, VerifyRaises, RollbackRaises, GiveUp,
           DeliverRaises, Fail, Raise, EndWith
  <1> QED BY <1>1, <1>2, <1>3

LEMMA PrepareDelivered ==
    ASSUME IInv, Delivered, Prepare
    PROVE  Delivered'
  <1>1. pc' \in {"baseline", "execute"} /\ req' = req
    BY DEF Prepare, AfterPrepare
  <1>2. req.sandbox = "remote" => tree'["remote"] = tree'["mirror"]
    BY DEF Prepare, IInv, Sound, PlaceTypes
  <1> QED BY <1>1, <1>2 DEF Delivered, Copied, Synced, Handed

LEMMA AttemptDelivered ==
    ASSUME IInv, Delivered, Once,
           \/ BaselineFails \/ Apply \/ Verify
           \/ \E p \in Patch, c \in Costs \cup {0}, x \in SUBSET Loose : Execute(p, c, x)
    PROVE  Delivered'
  <1>1. tree[Site] \in Tree /\ tree[Workspace] \in Tree
        /\ tree \in [{"repo", "mirror", "remote"} -> Tree \cup {NoTree}]
    BY DEF IInv, Sound, SitesExist, PlaceTypes, BaselineFails, Apply, Verify, Execute
  <1>2. CASE BaselineFails
    BY <1>2 DEF BaselineFails, place, Delivered, Copied, Synced, Handed
  <1>3. CASE Apply
    <2>1. patch \in Patch /\ patch \in Change
      BY <1>3 DEF Apply, IInv, Sound, TrialKnown, Change
    <2>2. tree[Site][patch] = "absent"
      BY <1>3 DEF Apply, Applies, Once
    <2>3. Plus(tree[Site], patch) = [tree[Site] EXCEPT ![patch] = "once"]
      BY <2>2 DEF Plus
    <2>4. tree' = [tree EXCEPT ![Site] = [tree[Site] EXCEPT ![patch] = "once"]]
      BY <1>3, <2>3 DEF Apply
    <2>5. /\ pc = "apply" /\ pc' = "verify" /\ UNCHANGED <<req, patch>>
      BY <1>3 DEF Apply
    <2>6. tree'[Site][patch] = "once"
      BY <1>1, <2>1, <2>4 DEF Tree, Site
    <2>7. ASSUME req.sandbox = "remote"
          PROVE  tree'["mirror"] = [tree'["remote"] EXCEPT ![patch] = "absent"]
      <3>1. tree["remote"] = tree["mirror"] /\ tree["remote"] \in Tree
            /\ tree["remote"][patch] = "absent"
        BY <1>1, <2>2, <2>5, <2>7 DEF Delivered, Copied, Site
      <3>2. tree'["mirror"] = tree["mirror"]
            /\ tree'["remote"] = [tree["remote"] EXCEPT ![patch] = "once"]
        BY <1>1, <2>4, <2>7 DEF Site
      <3> QED BY <2>1, <3>1, <3>2 DEF Tree
    <2> QED BY <2>5, <2>6, <2>7 DEF Delivered, Copied, Synced, Handed, Site
  <1>4. CASE Verify
    BY <1>4 DEF Verify, model, place, Delivered, Copied, Synced, Handed, Site
  <1>5. CASE \E p \in Patch, c \in Costs \cup {0}, x \in SUBSET Loose : Execute(p, c, x)
    <2>1. PICK p \in Patch, c \in Costs \cup {0}, x \in SUBSET Loose : Execute(p, c, x)
      BY <1>5
    <2>2. x = {}
      BY <2>1 DEF Execute, Once
    <2>3. [y \in Change |-> IF y \in x THEN "once" ELSE tree[Workspace][y]] = tree[Workspace]
      BY <1>1, <2>2 DEF Tree
    <2>4. tree' = tree
      BY <1>1, <2>1, <2>3 DEF Execute, Workspace
    <2>5. req' = req /\ pc = "execute" /\ pc' \in {"apply", "abort"}
      BY <2>1 DEF Execute, Raise
    <2> QED BY <2>4, <2>5 DEF Delivered, Copied, Synced, Handed
  <1> QED BY <1>2, <1>3, <1>4, <1>5

\* What sync_back_to_local copies.
LEMMA SyncBackDelivered ==
    ASSUME IInv, Delivered, SyncBack
    PROVE  /\ Delivered'
           /\ "command" \notin Faults /\ Deleting = {} => tree'[Workspace] = verified
  <1>1. tree[Site] \in Tree /\ tree[Workspace] \in Tree /\ patch \in Patch /\ patch \in Change
        /\ tree \in [{"repo", "mirror", "remote"} -> Tree \cup {NoTree}]
    BY DEF IInv, Sound, SitesExist, TrialKnown, PlaceTypes, SyncBack, Change
  <1>2. /\ pc = "sync" /\ pc' = "deliver" /\ UNCHANGED <<req, patch, verified>>
        /\ verified = tree[Site] /\ tree[Site][patch] = "once"
    BY DEF SyncBack, model, proof, Delivered, Synced
  <1>3. PICK copied \in IF req.sandbox # "remote" THEN {tree[Workspace][patch]}
                     ELSE {IF patch \in Deleting THEN "partial" ELSE tree["remote"][patch]}
                          \cup (IF "command" \in Faults THEN {"absent"} ELSE {}) :
             tree' = [tree EXCEPT ![Workspace][patch] = copied]
    BY DEF SyncBack
  <1>4. CASE req.sandbox # "remote"
    <2>1. Site = Workspace /\ copied = "once"
      BY <1>2, <1>3, <1>4 DEF Site, Workspace
    <2>2. tree'[Workspace] = [verified EXCEPT ![patch] = "once"]
      BY <1>1, <1>2, <1>3, <2>1 DEF Workspace
    <2>3. tree'[Workspace] = verified
      BY <1>1, <1>2, <2>2 DEF Tree
    <2> QED BY <1>1, <1>2, <2>2, <2>3 DEF Delivered, Copied, Synced, Handed, Workspace
  <1>5. CASE req.sandbox = "remote"
    <2>1. tree["mirror"] = [verified EXCEPT ![patch] = "absent"] /\ verified = tree["remote"]
          /\ Workspace = "mirror"
      BY <1>2, <1>5 DEF Delivered, Copied, Site, Workspace
    <2>2. copied \in {"absent", "partial", "once"}
          /\ ("command" \notin Faults /\ Deleting = {} => copied = "once")
      BY <1>2, <1>3, <1>5, <2>1
    <2>3. tree'["mirror"] = [tree["mirror"] EXCEPT ![patch] = copied]
      BY <1>1, <1>3, <2>1
    <2>4. tree'["mirror"] = [verified EXCEPT ![patch] = copied]
      BY <1>1, <1>2, <2>1, <2>3 DEF Tree
    <2>5. copied = "once" => tree'["mirror"] = verified
      BY <1>1, <1>2, <2>4 DEF Tree
    <2> QED BY <1>1, <1>2, <2>1, <2>2, <2>4, <2>5 DEF Delivered, Copied, Synced, Handed, Workspace
  <1> QED BY <1>4, <1>5

\* Forward if the patch is not there, left alone if it is, refused in between.
LEMMA DeliverDelivered ==
    ASSUME IInv, Delivered, Once, Deliver
    PROVE  Delivered'
  <1>1. /\ tree[Workspace] \in Tree /\ patch \in Patch /\ patch \in Change
        /\ tree \in [{"repo", "mirror", "remote"} -> Tree \cup {NoTree}]
    BY DEF IInv, Sound, SitesExist, TrialKnown, PlaceTypes, Deliver, Change
  <1>2. PICK c \in {"absent", "partial", "once"} : tree[Workspace] = [verified EXCEPT ![patch] = c]
    BY DEF Deliver, Delivered, Synced
  <1>3. verified \in Tree /\ verified[patch] = "once"
    BY DEF Deliver, Delivered, Synced
  <1>4. tree[Workspace][patch] = c
    BY <1>1, <1>2, <1>3 DEF Tree
  <1>5. VcsApply(tree[Workspace], patch) = verified
    <2>1. CASE c = "absent"
      <3>1. Plus(tree[Workspace], patch) = verified
        BY <1>1, <1>2, <1>3, <1>4, <2>1 DEF Plus, Tree
      <3> QED BY <1>4, <2>1, <3>1 DEF Deliver, VcsApply, Applies, Reverses, Once
    <2>2. CASE c # "absent"
      <3>1. ~Applies(tree[Workspace], patch)
        BY <1>4, <2>2 DEF Applies, Once
      <3>2. c = "once"
        BY <1>4, <2>2, <3>1 DEF Deliver, VcsApply, Reverses
      <3>3. tree[Workspace] = verified
        BY <1>1, <1>2, <1>3, <3>2 DEF Tree
      <3> QED BY <3>1, <3>3 DEF Deliver, VcsApply
    <2> QED BY <2>1, <2>2
  <1>6. tree'[Workspace] = verified
    BY <1>1, <1>5 DEF Deliver, Workspace
  <1> QED BY <1>6 DEF Deliver, proof, Delivered, Copied, Synced, Handed, Workspace

LEMMA DeliveredInductive ==
    ASSUME IInv, Delivered, Once, [Next]_vars
    PROVE  Delivered'
  <1>1. CASE Quiet
    BY <1>1, QuietDelivered
  <1>2. CASE PutInCache
    BY <1>2 DEF PutInCache, model, proof, place, Delivered, Copied, Synced, Handed, Workspace
  <1>3. CASE Replay
    <2>1. pc' = "report" /\ Record("cache_hit") /\ "cache_hit" \in EventType
      BY <1>3 DEF Replay, EventType
    <2>2. Len(events) \in Nat /\ Len(events') = Len(events) + 1
          /\ events'[Len(events) + 1] = Stamp("cache_hit")
      BY <2>1, RecordGrows DEF IInv, Sound, TypeOK
    <2>3. Replayed'
      BY <2>2 DEF Replayed, Stamp
    <2> QED BY <2>1, <2>3 DEF Delivered, Copied, Synced, Handed
  <1>4. CASE PrepareFails \/ ReversePatch \/ RevertToStable \/ Compensate \/ Escalate
             \/ CompensateStep \/ CompensateRaises \/ TearDownRaises
    BY <1>4, DeliveredAway
       DEF PrepareFails, ReversePatch, RevertToStable, Compensate, Escalate, CompensateStep,
           CompensateRaises, TearDownRaises, Raise, EndWith
  <1>5. CASE Busy
    BY <1>2, <1>3, <1>4, <1>5, PrepareDelivered, AttemptDelivered, SyncBackDelivered, DeliverDelivered
       DEF Busy
  <1>6. CASE (\E r \in Request : StartRun(r)) \/ Crash
    BY <1>6, DeliveredAway DEF StartRun, Crash
  <1>7. CASE Expire \/ UNCHANGED vars
    BY <1>7 DEF Expire, vars, model, proof, place, history, Delivered, Copied, Synced, Handed, Site,
                Workspace, Replayed
  <1> QED BY <1>1, <1>5, <1>6, <1>7, StepsQuietOrBusy DEF Next

LEMMA AlwaysDelivered ==
    ASSUME Once
    PROVE  Spec => []Delivered
  <1>1. Init => Delivered
    BY DEF Init, Delivered, Copied, Synced, Handed
  <1>2. IInv /\ Delivered /\ [Next]_vars => Delivered'
    BY DeliveredInductive
  <1> QED BY <1>1, <1>2, Inductive, PTL DEF Spec

\* What a run without a cache hit delivers is the tree that was verified, also
\* when files of a remote sandbox are lost on the way back, a process died, a
\* directory of an earlier run is used again or a compensation failed.
THEOREM DeliveredAsVerifiedTheorem ==
    ASSUME Once
    PROVE  Spec => []DeliveredAsVerified
  <1>1. Delivered => DeliveredAsVerified
    BY DEF Delivered, Handed, DeliveredAsVerified
  <1> QED BY <1>1, AlwaysDelivered, PTL

\* A verified patch is delivered unless a command fails: neither of the two
\* components that apply it refuses what the other has accepted.
Smooth == Once /\ {"command", "cache"} \cap Faults = {} /\ Deleting = {}

Deliverable == VerifiedIsDelivered /\ (pc = "deliver" => tree[Workspace] = verified)

LEMMA DeliverableInductive ==
    ASSUME IInv, Delivered, Deliverable, Smooth, [Next]_vars
    PROVE  Deliverable'
  <1>1. verified # NoTree => pc \in {"sync", "deliver", "cache", "record", "report"} \cup Ended
    BY DEF IInv, Sound, VerifiedSound, Deliverable, VerifiedIsDelivered, Ended
  <1>2. CASE SyncBack
    BY <1>2, SyncBackDelivered DEF SyncBack, proof, Smooth, Deliverable, VerifiedIsDelivered, Workspace
  <1>3. CASE Verify
    BY <1>3 DEF Verify, Deliverable, VerifiedIsDelivered
  <1>4. CASE \E r \in Request : StartRun(r)
    BY <1>4 DEF StartRun, Deliverable, VerifiedIsDelivered
  <1>5. CASE DeliverRaises
    <2>1. pc = "deliver" /\ VcsApply(tree[Workspace], patch) = NoTree
      BY <1>5 DEF DeliverRaises, Smooth
    <2>2. tree[Workspace] = verified /\ Reverses(verified, patch) /\ verified \in Tree /\ patch \in Patch
      BY <2>1 DEF Deliverable, IInv, Sound, VerifiedSound, TrialKnown, Delivered, Synced
    <2>3. VcsApply(verified, patch) \in Tree
      BY <2>2, PatchTypes DEF VcsApply
    <2> QED BY <2>1, <2>2, <2>3, TreeFacts
  <1>6. CASE Crash \/ Expire \/ UNCHANGED vars
    BY <1>6 DEF Crash, Expire, vars, proof, place, Deliverable, VerifiedIsDelivered, Workspace
  <1>7. CASE Deliver \/ PutInCache \/ Complete \/ Report
    BY <1>1, <1>7 DEF Deliver, PutInCache, Complete, Report, EndWith, proof, Deliverable, VerifiedIsDelivered
  <1>8. ASSUME pc \notin {"sync", "deliver", "cache", "record", "report"} \cup Ended, verified' = verified,
               pc' # "deliver"
        PROVE  Deliverable'
    BY <1>1, <1>8 DEF Deliverable, VerifiedIsDelivered
  <1>9. CASE Quiet /\ ~DeliverRaises /\ ~Complete /\ ~Report
    BY <1>8, <1>9 DEF Quiet, Lower, LowerFails, ReplayFails, SnapshotStable, SnapshotFails,
        BaselineRaises, ApplyRaises, VerifyFails, VerifyRaises, RollbackRaises,
        GiveUp, Fail, Raise, EndWith, proof, Ended
  <1>10. CASE Replay \/ Prepare \/ PrepareFails \/ BaselineFails \/ Apply \/ ReversePatch
    BY <1>8, <1>10 DEF Replay, Prepare, AfterPrepare, PrepareFails, BaselineFails, Apply, ReversePatch,
        Raise, proof, Ended
  <1>11. CASE RevertToStable \/ Compensate \/ Escalate \/ TearDownRaises \/ CompensateStep
              \/ CompensateRaises
    BY <1>8, <1>11 DEF RevertToStable, Compensate, Escalate, TearDownRaises, CompensateStep,
        CompensateRaises, Raise, EndWith, proof, Ended
  <1>12. CASE \E p \in Patch, c \in Costs \cup {0}, x \in SUBSET Loose : Execute(p, c, x)
    <2>1. pc = "execute" /\ pc' \in {"apply", "abort"} /\ verified' = verified
      BY <1>12 DEF Execute, Raise, proof
    <2> QED BY <1>8, <2>1 DEF Ended
  <1> QED BY <1>2, <1>3, <1>4, <1>5, <1>6, <1>7, <1>9, <1>10, <1>11, <1>12, StepsQuietOrBusy
          DEF Next, Busy

\* A patch that was verified is delivered unless a command fails: git applies for
\* VCSAdapter, or finds applied, what the runtime adapter could apply.
THEOREM VerifiedIsDeliveredTheorem ==
    ASSUME Smooth
    PROVE  Spec => []VerifiedIsDelivered
  <1>1. Init => Deliverable
    BY DEF Init, Deliverable, VerifiedIsDelivered
  <1>2. IInv /\ Delivered /\ Deliverable /\ [Next]_vars => Deliverable'
    BY DeliverableInductive
  <1>3. Deliverable => VerifiedIsDelivered
    BY DEF Deliverable
  <1>4. Spec => []Delivered
    BY AlwaysDelivered DEF Smooth
  <1> QED BY <1>1, <1>2, <1>3, <1>4, Inductive, PTL DEF Spec

-------------------------------------------------------------------------------
(* What a rollback leaves in repo_root.                                      *)

\* The attempts that are recorded as over: those whose rollback went through, and
\* the one whose patch was delivered.
Over(a) == Happened([type |-> "dispatch_attempt", attempt |-> a])

LEMMA RecordOver ==
    ASSUME TypeOK, NEW e \in EventType, Record(e), NEW a \in 1..2, Over(a)'
    PROVE  Over(a) \/ (a = attempt /\ e = "dispatch_attempt")
  <1>1. /\ Grown /\ Len(events) \in Nat /\ Len(events') = Len(events) + 1
        /\ events'[Len(events) + 1] = Stamp(e)
    BY RecordGrows
  <1>2. PICK i \in 1..Len(events') : events'[i] = [type |-> "dispatch_attempt", attempt |-> a]
    BY DEF Over, Happened
  <1>3. CASE i = Len(events) + 1
    BY <1>1, <1>2, <1>3 DEF Stamp
  <1>4. CASE i \in 1..Len(events)
    BY <1>1, <1>2, <1>4 DEF Grown, Over, Happened
  <1> QED BY <1>1, <1>2, <1>3, <1>4

LEMMA RecordBothOver ==
    ASSUME TypeOK, NEW f \in EventType, RecordBoth("dispatch_attempt", f), NEW a \in 1..2,
           Over(a)'
    PROVE  Over(a) \/ a = attempt
  <1>1. "dispatch_attempt" \in EventType
    BY DEF EventType
  <1>2. /\ Grown /\ Len(events) \in Nat /\ Len(events') = Len(events) + 2
        /\ events'[Len(events) + 1] = Stamp("dispatch_attempt")
        /\ events'[Len(events) + 2] = Stamp(f)
    BY <1>1, RecordBothGrows
  <1>3. PICK i \in 1..Len(events') : events'[i] = [type |-> "dispatch_attempt", attempt |-> a]
    BY DEF Over, Happened
  <1>4. CASE i \in {Len(events) + 1, Len(events) + 2}
    BY <1>2, <1>3, <1>4 DEF Stamp
  <1>5. CASE i \in 1..Len(events)
    BY <1>2, <1>3, <1>5 DEF Grown, Over, Happened
  <1> QED BY <1>2, <1>3, <1>4, <1>5

\* An attempt is over only by the three actions that say so.
LEMMA OverRecorded ==
    ASSUME TypeOK, LoweringShort, Step \/ Crash \/ Expire \/ UNCHANGED vars,
           ~Escalate, ~GiveUp, ~Complete, NEW a \in 1..2, Over(a)'
    PROVE  Over(a)
  <1>1. ASSUME NEW e \in EventType \ {"dispatch_attempt"}, Record(e)
        PROVE  Over(a)
    BY <1>1, RecordOver
  <1>2. ASSUME UNCHANGED events
        PROVE  Over(a)
    BY <1>2 DEF Over, Happened
  <1>3. CASE Lower
    <2>1. Len(Lowered) = 4 /\ \A i \in 1..4 : Lowered[i] \in EventType \ {"dispatch_attempt"}
      BY DEF Lowered, EventType
    <2>2. Len(events) + 1 \in 1..4
      BY <1>3, <2>1, LenProperties DEF Lower, LoweringShort, TypeOK, HistoryTypes
    <2> QED BY <1>1, <1>3, <2>1, <2>2 DEF Lower
  <1>4. CASE Replay \/ BaselineFails \/ Prepare \/ Fail
    BY <1>1, <1>4 DEF Replay, BaselineFails, Prepare, Fail, EventType
  <1>5. CASE LowerFails \/ ReplayFails \/ SnapshotStable \/ SnapshotFails \/ VerifyFails \/ Report
    BY <1>2, <1>5 DEF LowerFails, ReplayFails, SnapshotStable, SnapshotFails, VerifyFails, Report,
                      history
  <1>6. CASE Apply \/ Verify \/ ReversePatch \/ RevertToStable \/ Compensate \/ SyncBack \/ Deliver
             \/ PutInCache
    BY <1>2, <1>6 DEF Apply, Verify, ReversePatch, RevertToStable, Compensate, SyncBack, Deliver,
                      PutInCache, history
  <1>7. CASE CompensateStep \/ CompensateRaises \/ Crash \/ Expire \/ UNCHANGED vars
    BY <1>2, <1>7 DEF CompensateStep, CompensateRaises, Crash, Expire, vars, history
  <1>8. CASE PrepareFails \/ BaselineRaises \/ ApplyRaises \/ VerifyRaises
             \/ RollbackRaises \/ TearDownRaises \/ DeliverRaises
    BY <1>1, <1>8 DEF PrepareFails, BaselineRaises, ApplyRaises, VerifyRaises,
                      RollbackRaises, TearDownRaises, DeliverRaises, Raise, EventType
  <1>9. CASE \E p \in Patch, c \in Costs \cup {0}, x \in SUBSET Loose : Execute(p, c, x)
    BY <1>1, <1>2, <1>9 DEF Execute, Raise, EventType, history
  <1> QED BY <1>3, <1>4, <1>5, <1>6, <1>7, <1>8, <1>9 DEF Step

\* The rollback of this attempt went through and the next one has not begun; before
\* an attempt none is over, and while one goes on only earlier ones are.
Restored ==
    /\ pc \in {"compensate", "escalate"} => tree["repo"] = Base
    /\ pc \in {"lowering", "lookup"} => \A a \in 1..2 : ~Over(a)
    /\ \A a \in 1..2 : Over(a) =>
          a < attempt \/ (a = attempt /\ pc \in {"report", "abort"} \cup Ended)
    /\ RollbackRestores

\* A step that neither ends an attempt nor changes repo_root.
LEMMA RestoredKept ==
    ASSUME TypeOK, Restored, \A a \in 1..2 : Over(a)' => Over(a),
           UNCHANGED <<req, attempt>>, verified' \in {verified} \cup Tree,
           tree'["repo"] = tree["repo"],
           pc' \in {"compensate", "escalate"} => pc \in {"compensate", "escalate"},
           pc' \in {"lowering", "lookup"} => pc \in {"lowering", "lookup"},
           pc' = "prepare" => pc \in {"lookup", "prepare"},
           pc \in {"report", "abort"} \cup Ended => pc' \in {"report", "abort"} \cup Ended
    PROVE  Restored'
  <1>1. attempt \in 1..2 /\ ~(NoTree \in Tree)
    BY NoTreeAssumption DEF TypeOK, ControlTypes
  <1>2. RollbackRestores'
    <2> SUFFICES ASSUME NEW a \in 1..attempt, Over(a)', a < attempt \/ verified' = NoTree
                 PROVE  \/ tree'["repo"] = Base
                        \/ a < attempt /\ req.sandbox = "local" /\ pc' # "prepare"
      BY DEF RollbackRestores, Over
    <2>1. a \in 1..2 /\ Over(a)
      BY <1>1
    <2>2. a < attempt \/ verified = NoTree
      BY <1>1
    <2>3. \/ tree["repo"] = Base
          \/ a < attempt /\ req.sandbox = "local" /\ pc # "prepare"
      BY <2>1, <2>2 DEF Restored, RollbackRestores, Over
    <2>4. pc # "lookup"
      BY <2>1 DEF Restored
    <2> QED BY <2>3, <2>4
  <1> QED BY <1>2 DEF Restored

\* A step of an attempt on the tree it works in.
LEMMA RestoredInAttempt ==
    ASSUME IInv, Restored, \A a \in 1..2 : Over(a)' => Over(a),
           \/ Apply \/ ReversePatch \/ SyncBack \/ Deliver
           \/ \E p \in Patch, c \in Costs \cup {0}, x \in SUBSET Loose : Execute(p, c, x)
    PROVE  Restored'
  <1>1. /\ pc \in {"execute", "apply", "reverse", "sync", "deliver"}
        /\ pc' \in {"apply", "verify", "revert", "deliver", "cache", "abort"}
        /\ UNCHANGED <<req, attempt, verified>>
    BY DEF Apply, ReversePatch, SyncBack, Deliver, Execute, Raise, proof
  <1>2. CASE req.sandbox # "local"
    <2>1. Site \in {"mirror", "remote"} /\ Workspace \in {"mirror", "remote"}
      BY <1>2, SitesElsewhere DEF IInv
    <2>2. tree'["repo"] = tree["repo"]
      BY <2>1 DEF Apply, ReversePatch, SyncBack, Deliver, Execute, IInv, Sound, PlaceTypes
    <2> QED BY <1>1, <2>2, RestoredKept DEF Ended, IInv, Sound, TypeOK
  <1>3. CASE req.sandbox = "local"
    <2>1. attempt \in 1..2
      BY DEF IInv, Sound, ControlTypes
    <2>2. \A a \in 1..2 : Over(a)' => a < attempt
      BY <1>1 DEF Restored, Ended
    <2>3. RollbackRestores'
      BY <1>1, <1>3, <2>1, <2>2 DEF RollbackRestores, Over
    <2> QED BY <1>1, <2>2, <2>3 DEF Restored
  <1> QED BY <1>2, <1>3

\* The steps after which another attempt is over.
LEMMA RestoredAfter ==
    ASSUME IInv, Restored, Escalate \/ GiveUp \/ Complete
    PROVE  Restored'
  <1>1. /\ attempt \in 1..2 /\ TypeOK /\ req.attempts \in 1..2
        /\ "dispatch_attempt" \in EventType /\ "diagnostic" \in EventType
        /\ "execution_completed" \in EventType
    BY RequestAssumption DEF IInv, Sound, TypeOK, ControlTypes, EventType
  <1>2. \A a \in 1..2 : Over(a) => a < attempt
    BY DEF Restored, Escalate, GiveUp, Complete, Ended
  <1>3. UNCHANGED <<req, tree, verified>>
    BY DEF Escalate, GiveUp, Complete, proof, place
  <1>4. CASE Escalate /\ Raise
    <2>1. \A a \in 1..2 : Over(a)' => Over(a)
      BY <1>1, <1>4, RecordOver DEF Raise
    <2>2. attempt' = attempt /\ pc' = "abort"
      BY <1>4 DEF Escalate, Raise, Record
    <2> QED BY <1>1, <1>3, <2>1, <2>2, RestoredKept
  <1>5. CASE Escalate /\ ~Raise
    <2>1. /\ Record("dispatch_attempt") /\ attempt = 1 /\ attempt' = 2 /\ pc' = "prepare"
          /\ tree'["repo"] = Base
      BY <1>1, <1>3, <1>5 DEF Escalate, MayEscalate, Restored
    <2>2. \A a \in 1..2 : Over(a)' => a = 1
      BY <1>1, <1>2, <2>1, RecordOver
    <2>3. RollbackRestores'
      BY <2>1 DEF RollbackRestores
    <2> QED BY <2>1, <2>2, <2>3 DEF Restored
  <1>6. CASE GiveUp \/ Complete
    <2>1. \A a \in 1..2 : Over(a)' => Over(a) \/ a = attempt
      BY <1>1, <1>6, RecordBothOver DEF GiveUp, Complete
    <2>2. /\ attempt' = attempt /\ pc' \in {"abort", "report"}
          /\ tree'["repo"] = Base \/ verified' # NoTree
      BY <1>3, <1>6 DEF GiveUp, Complete, Restored, IInv, Sound, VerifiedSound
    <2>3. RollbackRestores'
      <3> SUFFICES ASSUME NEW a \in 1..attempt, Over(a)', a < attempt \/ verified' = NoTree
                   PROVE  \/ tree'["repo"] = Base
                          \/ a < attempt /\ req.sandbox = "local"
        BY <1>3, <2>2 DEF RollbackRestores, Over
      <3>1. a \in 1..2 /\ (Over(a) \/ a = attempt)
        BY <1>1, <2>1
      <3>2. CASE a = attempt
        BY <1>1, <2>2, <3>2
      <3>3. CASE Over(a) /\ a # attempt
        BY <1>1, <1>3, <3>1, <3>3 DEF Restored, RollbackRestores, Over
      <3> QED BY <3>1, <3>2, <3>3
    <2>4. \A a \in 1..2 : Over(a)' => a < attempt' \/ a = attempt'
      BY <1>2, <2>1, <2>2
    <2> QED BY <2>2, <2>3, <2>4 DEF Restored
  <1> QED BY <1>4, <1>5, <1>6

LEMMA RestoredInductive ==
    ASSUME IInv, Restored, [Next]_vars
    PROVE  Restored'
  <1> USE DEF place
  <1>1. TypeOK /\ LoweringShort /\ tree \in [{"repo", "mirror", "remote"} -> Tree \cup {NoTree}]
    BY DEF IInv, Sound, TypeOK, PlaceTypes
  <1>2. CASE \E r \in Request : StartRun(r)
    <2>1. events' = <<>> /\ pc' = "lowering"
      BY <1>2 DEF StartRun
    <2>2. \A a : ~Over(a)'
      BY <2>1 DEF Over, Happened
    <2> QED BY <2>1, <2>2 DEF Restored, RollbackRestores, Over
  <1>3. CASE Escalate \/ GiveUp \/ Complete
    BY <1>3, RestoredAfter
  <1>4. CASE (Step \/ Crash \/ Expire \/ UNCHANGED vars) /\ ~(Escalate \/ GiveUp \/ Complete)
    <2>1. \A a \in 1..2 : Over(a)' => Over(a)
      BY <1>1, <1>4, OverRecorded
    <2>2. CASE Quiet
      <3>1. QuietMove /\ Kept
        BY <2>2, QuietSteps
      <3>2. pc \in {"report", "abort"} => pc' \in Ended
        BY <2>2 DEF Quiet, Lower, LowerFails, ReplayFails, SnapshotStable, SnapshotFails,
                    BaselineRaises, ApplyRaises, VerifyFails, VerifyRaises,
                    RollbackRaises, GiveUp, DeliverRaises, Complete, Report, Fail, EndWith, Ended
      <3> QED BY <1>1, <2>1, <3>1, <3>2, RestoredKept DEF QuietMove, Kept, proof, Ended
    <2>3. CASE Replay
      <3>1. (\A a \in 1..2 : ~Over(a)') /\ attempt' = attempt /\ pc' = "report"
        BY <2>1, <2>3 DEF Replay, Restored
      <3>2. attempt \in 1..2
        BY <1>1 DEF TypeOK, ControlTypes
      <3>3. RollbackRestores'
        BY <3>1, <3>2 DEF RollbackRestores, Over
      <3> QED BY <3>1, <3>3 DEF Restored
    <2>4. CASE Prepare \/ PrepareFails
      <3>1. tree'["repo"] = tree["repo"]
        BY <1>1, <2>4 DEF Prepare, PrepareFails
      <3> QED BY <1>1, <2>1, <2>4, <3>1, RestoredKept
              DEF Prepare, AfterPrepare, PrepareFails, Raise, proof, Ended
    <2>5. CASE BaselineFails \/ TearDownRaises
      BY <1>1, <2>1, <2>5, RestoredKept DEF BaselineFails, TearDownRaises, Raise, proof, Ended
    <2>6. CASE Verify
      <3>1. verified' \in Tree
        BY <2>6 DEF Verify, IInv, Sound, SitesExist
      <3> QED BY <1>1, <2>1, <2>6, <3>1, RestoredKept DEF Verify, Ended
    <2>7. CASE \/ Apply \/ ReversePatch \/ SyncBack \/ Deliver
               \/ \E p \in Patch, c \in Costs \cup {0}, x \in SUBSET Loose : Execute(p, c, x)
      BY <2>1, <2>7, RestoredInAttempt
    <2>8. CASE RevertToStable
      <3>1. tree'["repo"] = Base /\ pc' = "compensate" /\ pc = "revert" /\ attempt' = attempt
        BY <1>1, <2>8 DEF RevertToStable
      <3>2. RollbackRestores'
        BY <3>1 DEF RollbackRestores
      <3> QED BY <2>1, <3>1, <3>2 DEF Restored, Ended
    <2>9. CASE Compensate \/ CompensateStep
      <3>1. tree'["repo"] = tree["repo"]
        BY <2>9, TearDownTypes DEF Compensate, CompensateStep, IInv, Sound
      <3> QED BY <1>1, <2>1, <2>9, <3>1, RestoredKept DEF Compensate, CompensateStep, proof, Ended
    <2>10. CASE CompensateRaises
      BY <1>1, <2>1, <2>10, RestoredKept DEF CompensateRaises, EndWith, proof, Ended
    <2>11. CASE PutInCache \/ Crash \/ Expire \/ UNCHANGED vars
      BY <1>1, <2>1, <2>11, RestoredKept DEF PutInCache, Crash, Expire, vars, proof, Ended
    <2> QED BY <1>4, <2>2, <2>3, <2>4, <2>5, <2>6, <2>7, <2>8, <2>9, <2>10, <2>11, StepsQuietOrBusy
            DEF Busy
  <1> QED BY <1>2, <1>3, <1>4 DEF Next

\* lowering_config.json:455: whatever fails or dies afterwards, an attempt whose
\* rollback went through has left the committed tree in repo_root, and only a later
\* attempt in repo_root itself changes it.
THEOREM RollbackRestoresTheorem == Spec => []RollbackRestores
  <1>1. Init => Restored
    BY DEF Init, Restored, RollbackRestores, Over, Happened
  <1>2. IInv /\ Restored /\ [Next]_vars => Restored'
    BY RestoredInductive
  <1>3. Restored => RollbackRestores
    BY DEF Restored
  <1> QED BY <1>1, <1>2, <1>3, Inductive, PTL DEF Spec

-------------------------------------------------------------------------------
(* Every step brings a run closer to its end.                                *)

\* The rank, one control state at a time, before a step and after it.
LEMMA RemainingNow ==
    ASSUME attempt \in 1..2
    PROVE  /\ pc \in Ended => Remaining = 0
           /\ pc = "report" => Remaining = 1
           /\ pc = "abort" => Remaining = 1 + Len(saga)
           /\ pc = "lowering" => Remaining = 30 + (5 - Len(events))
           /\ pc = "lookup" => Remaining = 30
           /\ \A p \in DOMAIN Place : pc = p => Remaining = 15 * (2 - attempt) + Place[p]
  BY DEF Remaining, Place, Ended

LEMMA RemainingThen ==
    ASSUME attempt' \in 1..2
    PROVE  /\ pc' \in Ended => Remaining' = 0
           /\ pc' = "report" => Remaining' = 1
           /\ pc' = "abort" => Remaining' = 1 + Len(saga')
           /\ pc' = "lowering" => Remaining' = 30 + (5 - Len(events'))
           /\ pc' = "lookup" => Remaining' = 30
           /\ \A p \in DOMAIN Place : pc' = p => Remaining' = 15 * (2 - attempt') + Place[p]
  BY DEF Remaining, Place, Ended

LEMMA Places ==
    /\ DOMAIN Place = {"prepare", "baseline", "execute", "apply", "verify", "reverse", "revert",
                       "compensate", "escalate", "sync", "deliver", "cache", "record"}
    /\ Place["prepare"] = 14 /\ Place["baseline"] = 13 /\ Place["execute"] = 12
    /\ Place["apply"] = 11 /\ Place["verify"] = 10 /\ Place["reverse"] = 9
    /\ Place["revert"] = 8 /\ Place["compensate"] = 7 /\ Place["escalate"] = 6
    /\ Place["sync"] = 7 /\ Place["deliver"] = 6 /\ Place["cache"] = 5
    /\ Place["record"] = 4
    /\ \A p \in DOMAIN Place : Place[p] \in 4..14
  BY DEF Place

\* An attempt registers one session, so that what compensation is left with is less
\* than any step of an attempt; a run begins with its first attempt and no session.
SagaShort ==
    /\ Len(saga) <= attempt
    /\ pc \in {"lowering", "lookup"} => attempt = 1 /\ saga = <<>>
    /\ pc = "prepare" => Len(saga) < attempt

LEMMA Lengths ==
    ASSUME IInv
    PROVE  Len(saga) \in Nat /\ Len(events) \in Nat /\ attempt \in 1..2
  BY LenProperties DEF IInv, Sound, PlaceTypes, HistoryTypes, ControlTypes

\* A step that leaves the attempt and its saga alone.
LEMMA SagaShortKept ==
    ASSUME IInv, SagaShort, UNCHANGED <<saga, attempt>>,
           pc' \in {"lowering", "lookup"} => pc \in {"lowering", "lookup"},
           pc' = "prepare" => pc \in {"lookup", "prepare"}
    PROVE  SagaShort'
  <1>1. pc = "lookup" => Len(saga) < attempt
    BY EmptySeq DEF SagaShort
  <1> QED BY <1>1 DEF SagaShort

LEMMA SagaShortInductive ==
    ASSUME IInv, SagaShort, [Next]_vars
    PROVE  SagaShort'
  <1> USE DEF place
  <1>1. Len(saga) \in Nat /\ attempt \in 1..2 /\ saga \in Seq(1..2)
    BY Lengths DEF IInv, Sound, PlaceTypes
  <1>2. CASE Quiet
    <2>1. QuietMove /\ Kept
      BY <1>2, QuietSteps
    <2> QED BY <2>1, SagaShortKept DEF QuietMove, Kept, Ended
  <1>3. CASE Prepare
    <2>1. Len(saga') = Len(saga) + 1 /\ attempt' = attempt /\ Len(saga) < attempt
      BY <1>1, <1>3, AppendProperties DEF Prepare, Registered, SagaShort
    <2>2. pc' \in {"baseline", "execute"}
      BY <1>3 DEF Prepare, AfterPrepare
    <2> QED BY <1>1, <2>1, <2>2 DEF SagaShort
  <1>4. CASE Replay \/ PrepareFails \/ BaselineFails \/ Apply \/ Verify \/ ReversePatch
    BY <1>4, SagaShortKept
       DEF Replay, PrepareFails, Raise, BaselineFails, Apply, Verify, ReversePatch
  <1>5. CASE \E p \in Patch, c \in Costs \cup {0}, x \in SUBSET Loose : Execute(p, c, x)
    BY <1>5, SagaShortKept DEF Execute, Raise
  <1>6. CASE RevertToStable \/ Compensate \/ SyncBack \/ Deliver \/ PutInCache \/ TearDownRaises
             \/ CompensateRaises
    BY <1>6, SagaShortKept DEF RevertToStable, Compensate, SyncBack, Deliver, PutInCache,
       TearDownRaises, CompensateRaises, Raise, EndWith
  <1>7. CASE Escalate
    <2>1. saga' = saga /\ pc' \in {"abort", "prepare"} /\ attempt' \in {attempt, attempt + 1}
          /\ (pc' = "prepare" => attempt' = attempt + 1)
      BY <1>7 DEF Escalate, Raise
    <2> QED BY <1>1, <2>1 DEF SagaShort
  <1>8. CASE CompensateStep
    <2>1. Len(saga') = Len(saga) - 1 /\ pc' = "abort" /\ attempt' = attempt
      BY <1>8, ShorterSaga DEF CompensateStep
    <2> QED BY <1>1, <2>1 DEF SagaShort
  <1>9. CASE \E r \in Request : StartRun(r)
    <2>1. saga' = <<>> /\ attempt' = 1 /\ pc' = "lowering"
      BY <1>9 DEF StartRun
    <2> QED BY <2>1, EmptySeq DEF SagaShort
  <1>10. CASE Crash \/ Expire \/ UNCHANGED vars
    BY <1>10, SagaShortKept DEF Crash, Expire, vars
  <1> QED BY <1>2, <1>3, <1>4, <1>5, <1>6, <1>7, <1>8, <1>9, <1>10, StepsQuietOrBusy DEF Next, Busy

\* What EveryStepCounts says of a step.
Nearer == run' = run => Remaining' < Remaining \/ Expire

LEMMA StepNearer ==
    ASSUME IInv, IInv', SagaShort, SagaShort', Next
    PROVE  Nearer
  <1> USE DEF place
  <1>1. /\ Len(saga) \in Nat /\ Len(events) \in Nat /\ attempt \in 1..2
        /\ Len(saga) <= attempt
    BY Lengths DEF SagaShort
  <1>2. /\ Len(saga') \in Nat /\ Len(events') \in Nat /\ attempt' \in 1..2
        /\ Len(saga') <= attempt'
    <2>1. saga' \in Seq(1..2) /\ events' \in Seq(Event) /\ attempt' \in 1..2
      BY DEF IInv, Sound, PlaceTypes, HistoryTypes, ControlTypes
    <2> QED BY <2>1, LenProperties DEF SagaShort
  <1>3. pc \in DOMAIN Place =>
          /\ Remaining = 15 * (2 - attempt) + Place[pc]
          /\ Remaining >= 4
          /\ Remaining \in Nat
    <2>1. \A a \in 1..2, n \in 4..14 : 15 * (2 - a) + n \in Nat /\ 15 * (2 - a) + n >= 4
      OBVIOUS
    <2>2. pc \in DOMAIN Place => Place[pc] \in 4..14
      BY Places
    <2>3. pc \in DOMAIN Place => Remaining = 15 * (2 - attempt) + Place[pc]
      BY <1>1, RemainingNow
    <2> QED BY <1>1, <2>1, <2>2, <2>3
  <1>4. pc' \in DOMAIN Place => Remaining' = 15 * (2 - attempt') + Place[pc']
    BY <1>2, RemainingThen
  <1>5. ASSUME pc' \in Ended, pc \notin Ended
        PROVE  Nearer
    <2>1. Remaining' = 0
      BY <1>2, <1>5, RemainingThen
    <2>2. Remaining > 0
      <3>1. pc \in {"report", "abort", "lowering", "lookup"} \cup DOMAIN Place
        BY <1>5, Places DEF IInv, Sound, ControlTypes
      <3>2. pc = "lowering" => Len(events) < 4
        BY DEF IInv, LoweringShort, Lowered
      <3> QED BY <1>1, <1>3, <3>1, <3>2, RemainingNow
    <2> QED BY <2>1, <2>2 DEF Nearer
  <1>6. ASSUME pc' = "abort", pc \in DOMAIN Place
        PROVE  Nearer
    <2>1. Remaining' = 1 + Len(saga') /\ Len(saga') <= 2
      BY <1>2, <1>6, RemainingThen
    <2> QED BY <1>2, <1>3, <1>6, <2>1 DEF Nearer
  <1>7. ASSUME pc \in DOMAIN Place, pc' \in DOMAIN Place, attempt' = attempt, Place[pc'] < Place[pc]
        PROVE  Nearer
    <2>1. Place[pc] \in Nat /\ Place[pc'] \in Nat
      BY <1>7, Places
    <2>2. Remaining' = 15 * (2 - attempt) + Place[pc']
      BY <1>4, <1>7
    <2>3. Remaining' < Remaining
      BY <1>1, <1>3, <1>7, <2>1, <2>2
    <2> QED BY <2>3 DEF Nearer
  <1>8. CASE Lower
    <2>1. Len(events) < 4 /\ Len(Lowered) = 4 /\ attempt' = attempt
      BY <1>8 DEF Lower, IInv, LoweringShort, Lowered
    <2>2. Len(events') = Len(events) + 1
      BY <1>8, AppendProperties, LenProperties DEF Lower, Record, Stamp, IInv, HistoryTypes
    <2>3. Remaining = 30 + (5 - Len(events))
      BY <1>1, <1>8, RemainingNow DEF Lower
    <2>4. CASE pc' = "lookup"
      BY <1>1, <1>2, <2>1, <2>3, <2>4, RemainingThen DEF Nearer
    <2>5. CASE pc' = "lowering"
      BY <1>1, <1>2, <2>2, <2>3, <2>5, RemainingThen DEF Nearer
    <2> QED BY <1>8, <2>4, <2>5 DEF Lower
  <1>9. CASE LowerFails \/ ReplayFails \/ SnapshotFails \/ Report \/ Fail \/ CompensateRaises \/ Crash
    BY <1>5, <1>9 DEF LowerFails, ReplayFails, SnapshotFails, Report, Fail, CompensateRaises, Crash,
                      EndWith, Ended
  <1>10. CASE SnapshotStable \/ Replay
    <2>1. Remaining = 30 /\ attempt' = 1
      BY <1>1, <1>10, RemainingNow DEF SnapshotStable, Replay, SagaShort
    <2>2. Remaining' \in {1, 29}
      BY <1>2, <1>10, <2>1, RemainingThen, Places DEF SnapshotStable, Replay
    <2> QED BY <2>1, <2>2 DEF Nearer
  <1>11. CASE PrepareFails \/ BaselineRaises \/ ApplyRaises \/ VerifyRaises
              \/ RollbackRaises \/ TearDownRaises \/ DeliverRaises
    BY <1>6, <1>11, Places
       DEF PrepareFails, BaselineRaises, ApplyRaises, VerifyRaises, RollbackRaises,
           TearDownRaises, DeliverRaises, Raise
  <1>12. CASE GiveUp
    BY <1>6, <1>12, Places DEF GiveUp
  <1>13. CASE Prepare \/ BaselineFails
    BY <1>7, <1>13, Places DEF Prepare, AfterPrepare, BaselineFails
  <1>14. CASE Apply \/ Verify \/ VerifyFails \/ ReversePatch \/ RevertToStable \/ Compensate
              \/ SyncBack \/ Deliver \/ PutInCache
    BY <1>7, <1>14, Places DEF Apply, Verify, VerifyFails, ReversePatch, RevertToStable, Compensate,
                               SyncBack, Deliver, PutInCache
  <1>15. CASE \E p \in Patch, c \in Costs \cup {0}, x \in SUBSET Loose : Execute(p, c, x)
    BY <1>6, <1>7, <1>15, Places DEF Execute, Raise
  <1>16. CASE Escalate
    <2>1. CASE pc' = "abort"
      BY <1>6, <1>16, <2>1, Places DEF Escalate
    <2>2. CASE pc' = "prepare" /\ attempt' = attempt + 1
      <3>1. Remaining = 21
        BY <1>1, <1>2, <1>3, <1>16, <2>2, Places DEF Escalate
      <3>2. Remaining' = 14
        BY <1>1, <1>2, <1>4, <2>2, Places
      <3> QED BY <3>1, <3>2 DEF Nearer
    <2> QED BY <1>16, <2>1, <2>2 DEF Escalate, Raise
  <1>17. CASE Complete
    <2>1. Remaining' = 1 /\ pc \in DOMAIN Place
      BY <1>2, <1>17, RemainingThen, Places DEF Complete
    <2> QED BY <1>3, <2>1 DEF Nearer
  <1>18. CASE CompensateStep
    <2>1. Remaining = 1 + Len(saga) /\ Remaining' = 1 + Len(saga')
      BY <1>1, <1>2, <1>18, RemainingNow, RemainingThen DEF CompensateStep
    <2>2. Len(saga') = Len(saga) - 1
      BY <1>18, ShorterSaga
    <2> QED BY <1>1, <2>1, <2>2 DEF Nearer
  <1>19. CASE \E r \in Request : StartRun(r)
    BY <1>19 DEF StartRun, Nearer, IInv, Sound, ControlTypes
  <1>20. CASE Expire
    BY <1>20 DEF Nearer
  <1> QED BY <1>8, <1>9, <1>10, <1>11, <1>12, <1>13, <1>14, <1>15, <1>16, <1>17, <1>18, <1>19, <1>20
          DEF Next, Step

\* Whatever fails, a run takes less than forty steps: each of them, a failing one
\* included, lowers what remains, for any patches, requests and number of runs.  With
\* it a run ends unless the process stops stepping.
THEOREM EveryStepCountsTheorem == Spec => EveryStepCounts
  <1>1. Init => SagaShort
    BY EmptySeq DEF Init, SagaShort
  <1>2. IInv /\ SagaShort /\ [Next]_vars => SagaShort'
    BY SagaShortInductive
  <1>3. IInv /\ IInv' /\ SagaShort /\ SagaShort' /\ [Next]_vars => [Nearer]_vars
    BY StepNearer
  <1> QED BY <1>1, <1>2, <1>3, Inductive, PTL DEF Spec, EveryStepCounts, Nearer

===============================================================================
