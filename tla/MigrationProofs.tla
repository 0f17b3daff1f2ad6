-------------------------- MODULE MigrationProofs --------------------------
(* Proofs about Migration, for any number of runs and configurations and    *)
(* any bounds on writes and faults.                                         *)
EXTENDS Migration, TLAPS

Free == {"idle", "configured", "lock", "serve source"}
Before == {"serving source", "owned", "quiesce", "stop host", "disable restart",
           "stop containers", "publish receipt"}
Making == {"preflight", "copy", "assemble", "publish", "publishing"}
Choosing == {"select", "link"}
Chosen == {"selected", "serving"}
After == {"quiet", "evidence"} \cup Making \cup Choosing \cup Chosen
Steps == Free \cup Before \cup After

Moment == [legacy : Int, outside : Int, state : States]
Targets ==
  [state : {"absent", "partial", "complete"}, id : Nat, evidence : BOOLEAN, base : Moment,
   config : Configs \cup {None}, own : Nat]

MigrationTypeOK ==
  /\ format \in {"legacy", "current"} /\ source \in Moment
  /\ host \in {"up", "down"} /\ container \in {"up", "down"} /\ restart \in BOOLEAN
  /\ config \in Configs
  /\ target \in Targets /\ staged \in Moment /\ snap \in Moment /\ checked \in Moment
  /\ selection \in [id : Nat, config : Configs \cup {None}]
  /\ at \in [Procs -> Steps] /\ cfg \in [Procs -> Configs \cup {None}]
  /\ owner \in Procs \cup {None}

TargetExists == target = NoTarget \/ (target.state # "absent" /\ target.id >= 1)

Adopted(p) ==
  target.state = "complete" /\ selection = [id |-> target.id, config |-> cfg[p]]

(* The published tree holds what the legacy service ever wrote, and what    *)
(* outsiders had written at the check.                                      *)
WholeCopy == target.base = checked /\ target.base.legacy = source.legacy

(* With a selection the legacy deployment is stopped for good.  A directory *)
(* that has the identity of the record is the one that was selected, and a  *)
(* removed one never comes back.                                            *)
RecordTrue ==
  selection # NoSelection =>
    /\ Stopped /\ format = "legacy"
    /\ selection.id >= 1
    /\ target = NoTarget \/ target.id >= selection.id
    /\ target.id = selection.id => target.state = "complete" /\ WholeCopy

(* What a run at a step has found out is still so: from "owned" on it holds *)
(* the lock of the source, and nobody else does.                            *)
Fits(p, s) ==
  /\ s \notin Free <=> owner = p
  /\ s \in {"serve source", "serving source"} => format = "current"
  /\ s \in After => Stopped
  /\ s \in After \ {"quiet"} => format = "legacy"
  /\ s \in Making \cup Choosing => selection = NoSelection
  /\ s = "publishing" => target.state = "partial"
  /\ s = "link" => target.state = "complete" /\ WholeCopy
  /\ s = "evidence" /\ selection # NoSelection => Adopted(p)
  /\ s \in Chosen => Adopted(p)

RunsFit == \A p \in Procs : Fits(p, at[p])

MigrationInv == MigrationTypeOK /\ TargetExists /\ RecordTrue /\ RunsFit

-----------------------------------------------------------------------------
(* Steps that change nothing the invariant is about but where a run is *)
Still ==
  /\ UNCHANGED <<format, source, host, container, restart, config, target, selection, checked, cfg>>
  /\ staged' \in Moment /\ snap' \in Moment

(* Nobody else is past the lock while somebody holds it. *)
LEMMA OthersFree ==
  ASSUME MigrationInv, NEW p \in Procs, NEW q \in Procs, owner = p, q # p
  PROVE  at[q] \in Free
BY DEF MigrationInv, RunsFit, Fits

(* Everything but the lock and the places of the runs is the same. *)
LEMMA StayedFits ==
  ASSUME Still, NEW q \in Procs, at'[q] = at[q], Fits(q, at[q]), owner' = q <=> owner = q
  PROVE  Fits(q, at[q])'
BY DEF Still, Fits, Stopped, Adopted, WholeCopy

LEMMA MovedFits ==
  ASSUME Still, NEW q \in Procs, NEW s, at'[q] = s, Fits(q, s), owner' = q <=> owner = q
  PROVE  Fits(q, at[q])'
BY DEF Still, Fits, Stopped, Adopted, WholeCopy

LEMMA StillKeeps ==
  ASSUME MigrationInv, Still
  PROVE  /\ TargetExists' /\ RecordTrue'
         /\ at' \in [Procs -> Steps] /\ owner' \in Procs \cup {None} => MigrationTypeOK'
BY DEF MigrationInv, Still, TargetExists, RecordTrue, MigrationTypeOK, Stopped, WholeCopy

LEMMA MoveKeeps ==
  ASSUME MigrationInv, Still, NEW p \in Procs, NEW s \in Steps, Goto(p, s), Fits(p, s)
  PROVE  MigrationInv'
<1>1. at \in [Procs -> Steps] /\ owner \in Procs \cup {None}
  BY DEF MigrationInv, MigrationTypeOK
<1>2. at' = [at EXCEPT ![p] = s] /\ owner' = owner
  BY DEF Goto
<1>3. MigrationTypeOK' /\ TargetExists' /\ RecordTrue'
  BY <1>1, <1>2, StillKeeps
<1>4. ASSUME NEW q \in Procs PROVE Fits(q, at[q])'
  <2>1. CASE q = p
    BY <1>1, <1>2, <2>1, MovedFits
  <2>2. CASE q # p
    <3>1. Fits(q, at[q])
      BY DEF MigrationInv, RunsFit
    <3>2. at'[q] = at[q]
      BY <1>1, <1>2, <2>2
    <3> QED BY <1>2, <3>1, <3>2, StayedFits
  <2> QED BY <2>1, <2>2
<1> QED BY <1>3, <1>4 DEF MigrationInv, RunsFit

(* A run that fails becomes idle and gives up the lock if it had it. *)
LEMMA FailKeeps ==
  ASSUME MigrationInv, Still, NEW p \in Procs, Fail(p)
  PROVE  MigrationInv'
<1>1. at \in [Procs -> Steps] /\ owner \in Procs \cup {None} /\ "idle" \in Steps
  BY DEF MigrationInv, MigrationTypeOK, Steps, Free
<1>2. at' = [at EXCEPT ![p] = "idle"] /\ owner' = IF owner = p THEN None ELSE owner
  BY DEF Fail
<1>3. MigrationTypeOK' /\ TargetExists' /\ RecordTrue'
  BY <1>1, <1>2, StillKeeps
<1>4. ASSUME NEW q \in Procs PROVE Fits(q, at[q])'
  <2>1. None # q
    BY MigrationAssumption
  <2>2. CASE q = p
    BY <1>1, <1>2, <2>1, <2>2
    DEF Fits, Free, Before, Making, Choosing, Chosen, After
  <2>3. CASE q # p
    <3>1. Fits(q, at[q])
      BY DEF MigrationInv, RunsFit
    <3>2. at'[q] = at[q] /\ (owner' = q <=> owner = q)
      BY <1>1, <1>2, <2>1, <2>3
    <3> QED BY <3>1, <3>2, StayedFits
  <2> QED BY <2>2, <2>3
<1> QED BY <1>3, <1>4 DEF MigrationInv, RunsFit

(* A run that holds the lock changes what the others, which are in front of *)
(* it, do not rely on.                                                      *)
LEMMA OwnKeeps ==
  ASSUME MigrationInv, NEW p \in Procs, owner = p, NEW s \in Steps, Goto(p, s),
         UNCHANGED <<format, cfg>>,
         MigrationTypeOK', TargetExists', RecordTrue', Fits(p, s)'
  PROVE  MigrationInv'
<1>1. at \in [Procs -> Steps] /\ at' = [at EXCEPT ![p] = s] /\ owner' = owner
  BY DEF MigrationInv, MigrationTypeOK, Goto
<1>2. ASSUME NEW q \in Procs PROVE Fits(q, at[q])'
  <2>1. CASE q = p
    <3>1. at'[q] = s
      BY <1>1, <2>1
    <3> QED BY <2>1, <3>1 DEF Fits
  <2>2. CASE q # p
    <3>1. Fits(q, at[q]) /\ at'[q] = at[q]
      BY <1>1, <2>2 DEF MigrationInv, RunsFit
    <3>2. at[q] \in Free
      BY <2>2, OthersFree
    <3> QED BY <1>1, <2>2, <3>1, <3>2
        DEF Fits, Free, Before, Making, Choosing, Chosen, After
  <2> QED BY <2>1, <2>2
<1> QED BY <1>2 DEF MigrationInv, RunsFit

-----------------------------------------------------------------------------
(* Every step of a run keeps the invariant.  First those that only look.    *)
LEMMA MovesStill == MigrationInv /\ OnlyMoves => Still
BY DEF OnlyMoves, TreeFrame, StepFrame, treeVars, Still, MigrationInv, MigrationTypeOK

LEMMA PlacesAreSteps ==
  /\ {"configured", "lock", "serve source", "serving source", "owned", "quiesce", "stop host",
      "disable restart", "stop containers", "publish receipt", "quiet", "preflight", "copy",
      "assemble", "publish", "publishing", "evidence", "select", "link", "selected", "serving"}
       \subseteq Steps
  /\ Free \cap (Before \cup After) = {}
BY DEF Steps, Free, Before, Making, Choosing, Chosen, After

LEMMA NoTargetTyped == Mixed \in Moment /\ NoTarget \in Targets
<1>1. (CHOOSE s \in States : TRUE) \in States
  BY MigrationAssumption
<1>2. Mixed \in Moment
  BY <1>1 DEF Mixed, Moment
<1> QED BY <1>2 DEF NoTarget, Targets

LEMMA CompleteExists ==
  MigrationInv /\ target.state # "absent" => target.id >= 1 /\ target.id \in Nat
BY DEF MigrationInv, MigrationTypeOK, TargetExists, Targets, NoTarget

LEMMA FitsNow ==
  ASSUME MigrationInv, NEW p \in Procs
  PROVE  Fits(p, at[p])
BY DEF MigrationInv, RunsFit

LEMMA ConfigureKeeps ==
  ASSUME MigrationInv, NEW p \in Procs, Configure(p)
  PROVE  MigrationInv'
<1>1. /\ at \in [Procs -> Steps] /\ at' = [at EXCEPT ![p] = "configured"] /\ owner' = owner
      /\ cfg \in [Procs -> Configs \cup {None}] /\ config \in Configs
      /\ cfg' = [cfg EXCEPT ![p] = config] /\ at[p] = "idle"
      /\ UNCHANGED <<format, source, host, container, restart, config, treeVars>>
  BY DEF MigrationInv, MigrationTypeOK, Configure, Goto, StepFrame
<1>2. MigrationTypeOK' /\ TargetExists' /\ RecordTrue'
  BY <1>1, PlacesAreSteps
  DEF MigrationInv, MigrationTypeOK, TargetExists, RecordTrue, Stopped, WholeCopy, treeVars
<1>3. ASSUME NEW q \in Procs PROVE Fits(q, at[q])'
  <2>1. CASE q = p
    BY <1>1, <2>1, FitsNow DEF Fits, Free, Before, Making, Choosing, Chosen, After
  <2>2. CASE q # p
    BY <1>1, <2>2, FitsNow DEF Fits, Stopped, Adopted, WholeCopy, treeVars
  <2> QED BY <2>1, <2>2
<1> QED BY <1>2, <1>3 DEF MigrationInv, RunsFit

LEMMA PrecheckKeeps ==
  ASSUME MigrationInv, NEW p \in Procs, Precheck(p)
  PROVE  MigrationInv'
<1>1. Still /\ at[p] = "configured" /\ Fits(p, at[p])
  BY MovesStill, FitsNow DEF Precheck
<1>2. CASE selection = NoSelection /\ format = "current"
  <2>1. Goto(p, "serve source") /\ Fits(p, "serve source")
    BY <1>1, <1>2 DEF Precheck, Fits, Free, Before, Making, Choosing, Chosen, After
  <2> QED BY <1>1, <2>1, MoveKeeps, PlacesAreSteps
<1>3. CASE ~(selection = NoSelection /\ format = "current")
  <2>1. Goto(p, "lock") /\ Fits(p, "lock")
    BY <1>1, <1>3 DEF Precheck, Fits, Free, Before, Making, Choosing, Chosen, After
  <2> QED BY <1>1, <2>1, MoveKeeps, PlacesAreSteps
<1> QED BY <1>2, <1>3

(* The lock is free, so that every other run is in front of it. *)
LEMMA AcquireKeeps ==
  ASSUME MigrationInv, NEW p \in Procs, Acquire(p)
  PROVE  MigrationInv'
<1>1. Still
  BY MovesStill DEF Acquire
<1>2. CASE owner # None
  BY <1>1, <1>2, FailKeeps DEF Acquire
<1>3. CASE owner = None
  <2>1. PICK s \in Steps :
          /\ s = IF at[p] = "lock" THEN "owned" ELSE "serving source"
          /\ at' = [at EXCEPT ![p] = s]
    BY <1>3, PlacesAreSteps DEF Acquire
  <2>2. at \in [Procs -> Steps] /\ owner' = p /\ at[p] \in {"serve source", "lock"}
    BY <1>3 DEF Acquire, MigrationInv, MigrationTypeOK
  <2>3. MigrationTypeOK' /\ TargetExists' /\ RecordTrue'
    BY <1>1, <2>1, <2>2, StillKeeps
  <2>4. ASSUME NEW q \in Procs PROVE Fits(q, at[q])'
    <3>1. q # None /\ p # None
      BY MigrationAssumption
    <3>2. CASE q = p
      <4>1. Fits(q, at[q]) /\ at'[q] = s
        BY <2>1, <2>2, <3>2, FitsNow
      <4> QED BY <1>1, <2>1, <2>2, <3>2, <4>1
          DEF Still, Fits, Free, Before, Making, Choosing, Chosen, After
    <3>3. CASE q # p
      <4>1. Fits(q, at[q]) /\ at'[q] = at[q] /\ (owner' = q <=> owner = q)
        BY <1>3, <2>1, <2>2, <3>1, <3>3, FitsNow
      <4> QED BY <1>1, <4>1, StayedFits
    <3> QED BY <3>2, <3>3
  <2> QED BY <2>3, <2>4 DEF MigrationInv, RunsFit
<1> QED BY <1>2, <1>3

LEMMA LoadFirstKeeps ==
  ASSUME MigrationInv, NEW p \in Procs, LoadFirst(p)
  PROVE  MigrationInv'
<1>1. Still /\ at[p] = "owned" /\ Fits(p, at[p])
  BY MovesStill, FitsNow DEF LoadFirst
<1>2. Fits(p, "quiesce")
  BY <1>1 DEF Fits, Free, Before, Making, Choosing, Chosen, After
<1>3. Goto(p, "quiesce") \/ Fail(p)
  BY DEF LoadFirst
<1> QED BY <1>1, <1>2, <1>3, MoveKeeps, FailKeeps, PlacesAreSteps

LEMMA QuiesceKeeps ==
  ASSUME MigrationInv, NEW p \in Procs, Quiesce(p)
  PROVE  MigrationInv'
<1>1. Still /\ at[p] = "quiesce" /\ Fits(p, at[p])
  BY MovesStill, FitsNow DEF Quiesce
<1>2. Fits(p, "stop host") /\ (Stopped => Fits(p, "quiet"))
  BY <1>1 DEF Fits, Free, Before, Making, Choosing, Chosen, After
<1>3. (Goto(p, "quiet") /\ Stopped) \/ Goto(p, "stop host") \/ Fail(p)
  BY DEF Quiesce
<1> QED BY <1>1, <1>2, <1>3, MoveKeeps, FailKeeps, PlacesAreSteps

LEMMA DecideKeeps ==
  ASSUME MigrationInv, NEW p \in Procs, Decide(p)
  PROVE  MigrationInv'
<1>1. Still /\ at[p] = "quiet" /\ Fits(p, at[p])
  BY MovesStill, FitsNow DEF Decide
<1>2. CASE Fail(p)
  BY <1>1, <1>2, FailKeeps
<1>3. CASE /\ format = "legacy" /\ selection = NoSelection
           /\ Goto(p, "preflight") \/ Goto(p, "evidence")
  <2>1. Fits(p, "preflight") /\ Fits(p, "evidence")
    BY <1>1, <1>3 DEF Fits, Free, Before, Making, Choosing, Chosen, After
  <2> QED BY <1>1, <1>3, <2>1, MoveKeeps, PlacesAreSteps
<1>4. CASE format = "legacy" /\ Loads(cfg[p]) /\ Goto(p, "evidence")
  <2>1. Fits(p, "evidence")
    BY <1>1, <1>4 DEF Fits, Adopted, Loads, Free, Before, Making, Choosing, Chosen, After
  <2> QED BY <1>1, <1>4, <2>1, MoveKeeps, PlacesAreSteps
<1> QED BY <1>2, <1>3, <1>4, MigrationAssumption DEF Decide, MigrationInv, MigrationTypeOK

LEMMA AssembleKeeps ==
  ASSUME MigrationInv, NEW p \in Procs, Assemble(p)
  PROVE  MigrationInv'
<1>1. Still /\ at[p] = "assemble" /\ Fits(p, at[p])
  BY FitsNow DEF Assemble, TreeFrame, StepFrame, treeVars, Still, MigrationInv, MigrationTypeOK
<1>2. Fits(p, "publish")
  BY <1>1 DEF Fits, Free, Before, Making, Choosing, Chosen, After
<1>3. Goto(p, "publish") \/ Fail(p)
  BY DEF Assemble
<1> QED BY <1>1, <1>2, <1>3, MoveKeeps, FailKeeps, PlacesAreSteps

LEMMA EvidenceKeeps ==
  ASSUME MigrationInv, NEW p \in Procs, Evidence(p)
  PROVE  MigrationInv'
<1>1. Still /\ at[p] = "evidence" /\ Fits(p, at[p])
  BY MovesStill, FitsNow DEF Evidence
<1>2. /\ selection = NoSelection => Fits(p, "select")
      /\ selection # NoSelection => Fits(p, "selected")
  BY <1>1 DEF Fits, Free, Before, Making, Choosing, Chosen, After
<1>3. \/ Fail(p)
      \/ selection = NoSelection /\ Goto(p, "select")
      \/ selection # NoSelection /\ Goto(p, "selected")
  BY DEF Evidence
<1> QED BY <1>1, <1>2, <1>3, MoveKeeps, FailKeeps, PlacesAreSteps

LEMMA ValidateKeeps ==
  ASSUME MigrationInv, NEW p \in Procs, Validate(p)
  PROVE  MigrationInv'
<1>1. Still /\ at[p] = "selected" /\ Fits(p, at[p])
  BY MovesStill, FitsNow DEF Validate
<1>2. Fits(p, "serving")
  BY <1>1 DEF Fits, Free, Before, Making, Choosing, Chosen, After
<1>3. Goto(p, "serving") \/ Fail(p)
  BY DEF Validate
<1> QED BY <1>1, <1>2, <1>3, MoveKeeps, FailKeeps, PlacesAreSteps

LEMMA EndsKeeps ==
  ASSUME MigrationInv, NEW p \in Procs, Ends(p)
  PROVE  MigrationInv'
BY FailKeeps DEF Ends, TreeFrame, StepFrame, treeVars, Still, MigrationInv, MigrationTypeOK

LEMMA PreflightKeeps ==
  ASSUME MigrationInv, NEW p \in Procs, Preflight(p)
  PROVE  MigrationInv'
<1>1. Still /\ at[p] = "preflight" /\ Fits(p, at[p])
  BY FitsNow DEF Preflight, TreeFrame, StepFrame, Still, MigrationInv, MigrationTypeOK
<1>2. Fits(p, "copy")
  BY <1>1 DEF Fits, Free, Before, Making, Choosing, Chosen, After
<1>3. Goto(p, "copy") \/ Fail(p)
  BY DEF Preflight
<1> QED BY <1>1, <1>2, <1>3, MoveKeeps, FailKeeps, PlacesAreSteps

LEMMA CopyTreeKeeps ==
  ASSUME MigrationInv, NEW p \in Procs, CopyTree(p)
  PROVE  MigrationInv'
<1>1. Still /\ at[p] = "copy" /\ Fits(p, at[p])
  BY FitsNow, NoTargetTyped
  DEF CopyTree, Copied, TreeFrame, StepFrame, Still, MigrationInv, MigrationTypeOK
<1>2. Fits(p, "assemble")
  BY <1>1 DEF Fits, Free, Before, Making, Choosing, Chosen, After
<1>3. Goto(p, "assemble") \/ Fail(p)
  BY DEF CopyTree
<1> QED BY <1>1, <1>2, <1>3, MoveKeeps, FailKeeps, PlacesAreSteps

-----------------------------------------------------------------------------
(* Those that change what is shared, by the run that holds the lock. *)
LEMMA StopHostKeeps ==
  ASSUME MigrationInv, NEW p \in Procs, StopHost(p)
  PROVE  MigrationInv'
<1>1. owner = p /\ Goto(p, "disable restart") /\ UNCHANGED <<format, cfg>>
  BY FitsNow, PlacesAreSteps DEF StopHost, StepFrame, Fits, Steps, Before
<1>2. MigrationTypeOK' /\ TargetExists' /\ RecordTrue'
  BY <1>1, PlacesAreSteps
  DEF StopHost, Goto, StepFrame, MigrationInv, MigrationTypeOK, TargetExists, RecordTrue, Stopped,
      WholeCopy, treeVars
<1>3. Fits(p, "disable restart")'
  BY <1>1 DEF Goto, Fits, Free, Before, Making, Choosing, Chosen, After
<1> QED BY <1>1, <1>2, <1>3, OwnKeeps, PlacesAreSteps

LEMMA DisableRestartKeeps ==
  ASSUME MigrationInv, NEW p \in Procs, DisableRestart(p)
  PROVE  MigrationInv'
<1>1. owner = p /\ Goto(p, "stop containers") /\ UNCHANGED <<format, cfg>>
  BY FitsNow, PlacesAreSteps DEF DisableRestart, StepFrame, Fits, Before
<1>2. MigrationTypeOK' /\ TargetExists' /\ RecordTrue'
  BY <1>1, PlacesAreSteps
  DEF DisableRestart, Goto, StepFrame, MigrationInv, MigrationTypeOK, TargetExists, RecordTrue,
      Stopped, WholeCopy, treeVars
<1>3. Fits(p, "stop containers")'
  BY <1>1 DEF Goto, Fits, Free, Before, Making, Choosing, Chosen, After
<1> QED BY <1>1, <1>2, <1>3, OwnKeeps, PlacesAreSteps

LEMMA StopContainersKeeps ==
  ASSUME MigrationInv, NEW p \in Procs, StopContainers(p)
  PROVE  MigrationInv'
<1>1. owner = p /\ Goto(p, "publish receipt") /\ UNCHANGED <<format, cfg>>
  BY FitsNow, PlacesAreSteps DEF StopContainers, StepFrame, Fits, Before
<1>2. MigrationTypeOK' /\ TargetExists' /\ RecordTrue'
  BY <1>1, PlacesAreSteps
  DEF StopContainers, Goto, StepFrame, MigrationInv, MigrationTypeOK, TargetExists, RecordTrue,
      Stopped, WholeCopy, treeVars
<1>3. Fits(p, "publish receipt")'
  BY <1>1 DEF Goto, Fits, Free, Before, Making, Choosing, Chosen, After
<1> QED BY <1>1, <1>2, <1>3, OwnKeeps, PlacesAreSteps

LEMMA PublishReceiptKeeps ==
  ASSUME MigrationInv, NEW p \in Procs, PublishReceipt(p)
  PROVE  MigrationInv'
<1>1. Still /\ at[p] = "publish receipt" /\ Fits(p, at[p])
  BY FitsNow DEF PublishReceipt, StepFrame, treeVars, Still, MigrationInv, MigrationTypeOK
<1>2. Stopped => Fits(p, "quiet")
  BY <1>1 DEF Fits, Free, Before, Making, Choosing, Chosen, After
<1>3. (Goto(p, "quiet") /\ Stopped) \/ Fail(p)
  BY DEF PublishReceipt
<1> QED BY <1>1, <1>2, <1>3, MoveKeeps, FailKeeps, PlacesAreSteps

LEMMA PublishBeginsKeeps ==
  ASSUME MigrationInv, NEW p \in Procs, PublishBegins(p)
  PROVE  MigrationInv'
<1>1. Fits(p, at[p]) /\ at[p] = "publish" /\ TreeFrame /\ UNCHANGED <<staged, selection, snap, checked>>
  BY FitsNow DEF PublishBegins
<1>2. CASE Fail(p) /\ UNCHANGED target
  BY <1>1, <1>2, FailKeeps DEF TreeFrame, StepFrame, Still, MigrationInv, MigrationTypeOK
<1>3. CASE /\ target' = [NoTarget EXCEPT !.state = "partial", !.id = 1, !.base = staged,
                                         !.config = cfg[p]]
           /\ Goto(p, "publishing")
  <2>1. owner = p /\ UNCHANGED <<format, cfg>> /\ selection = NoSelection
    BY <1>1, PlacesAreSteps DEF Fits, TreeFrame, StepFrame, Making, After
  <2>2. MigrationTypeOK'
    BY <1>1, <1>3, PlacesAreSteps
    DEF Goto, TreeFrame, StepFrame, MigrationInv, MigrationTypeOK, NoTarget, Targets
  <2>3. TargetExists' /\ RecordTrue'
    BY <1>1, <1>3, <2>1 DEF TargetExists, RecordTrue, NoTarget
  <2>4. Fits(p, "publishing")'
    BY <1>1, <1>3, <2>1
    DEF Goto, TreeFrame, StepFrame, Fits, Stopped, NoTarget, Free, Before, Making, Choosing, Chosen,
        After
  <2> QED BY <1>3, <2>1, <2>2, <2>3, <2>4, OwnKeeps, PlacesAreSteps
<1> QED BY <1>2, <1>3 DEF PublishBegins

LEMMA PublishMovesKeeps ==
  ASSUME MigrationInv, NEW p \in Procs, PublishMoves(p)
  PROVE  MigrationInv'
<1>1. /\ Fits(p, at[p]) /\ at[p] = "publishing" /\ TreeFrame
      /\ UNCHANGED <<staged, selection, snap, checked>>
  BY FitsNow DEF PublishMoves
<1>2. /\ owner = p /\ UNCHANGED <<format, cfg>> /\ selection = NoSelection
      /\ target.state = "partial" /\ target \in Targets /\ target.id >= 1
  <2>1. target.state = "partial" /\ target \in Targets /\ target.id >= 1
    BY <1>1, CompleteExists DEF Fits, MigrationInv, MigrationTypeOK
  <2> QED BY <1>1, <2>1 DEF Fits, TreeFrame, StepFrame, Free, Making
<1>3. CASE target' = [target EXCEPT !.evidence = TRUE] /\ Goto(p, "publishing")
  <2>1. MigrationTypeOK'
    BY <1>1, <1>2, <1>3, PlacesAreSteps
    DEF Goto, TreeFrame, StepFrame, MigrationInv, MigrationTypeOK, Targets
  <2>2. TargetExists' /\ RecordTrue'
    BY <1>1, <1>2, <1>3 DEF TargetExists, RecordTrue, Targets
  <2>3. Fits(p, "publishing")'
    BY <1>1, <1>2, <1>3
    DEF Goto, TreeFrame, StepFrame, Fits, Stopped, Targets, Free, Before, Making, Choosing, Chosen,
        After
  <2> QED BY <1>2, <1>3, <2>1, <2>2, <2>3, OwnKeeps, PlacesAreSteps
<1>4. CASE target' = [target EXCEPT !.state = "complete"] /\ Goto(p, "evidence")
  <2>1. MigrationTypeOK'
    BY <1>1, <1>2, <1>4, PlacesAreSteps
    DEF Goto, TreeFrame, StepFrame, MigrationInv, MigrationTypeOK, Targets
  <2>2. TargetExists' /\ RecordTrue'
    BY <1>1, <1>2, <1>4 DEF TargetExists, RecordTrue, Targets
  <2>3. Fits(p, "evidence")'
    BY <1>1, <1>2, <1>4
    DEF Goto, TreeFrame, StepFrame, Fits, Stopped, Targets, Free, Before, Making, Choosing, Chosen,
        After
  <2> QED BY <1>2, <1>4, <2>1, <2>2, <2>3, OwnKeeps, PlacesAreSteps
<1>5. CASE target' = NoTarget /\ Fail(p)
  <2>1. at \in [Procs -> Steps] /\ at' = [at EXCEPT ![p] = "idle"] /\ owner' = None
    BY <1>2, <1>5 DEF Fail, MigrationInv, MigrationTypeOK
  <2>2. MigrationTypeOK'
    <3>1. at' \in [Procs -> Steps] /\ NoTarget \in Targets
      BY <2>1, NoTargetTyped DEF Steps, Free
    <3> QED BY <1>1, <1>5, <2>1, <3>1 DEF TreeFrame, StepFrame, MigrationInv, MigrationTypeOK
  <2>3. TargetExists' /\ RecordTrue'
    BY <1>1, <1>2, <1>5 DEF TargetExists, RecordTrue
  <2>4. ASSUME NEW q \in Procs PROVE Fits(q, at[q])'
    <3>1. q # None
      BY MigrationAssumption
    <3>2. at'[q] \in Free /\ (q # p => at'[q] = at[q])
      BY <1>2, <2>1, OthersFree DEF Free
    <3>3. CASE q = p
      BY <2>1, <3>1, <3>3 DEF Fits, Free, Before, Making, Choosing, Chosen, After
    <3>4. CASE q # p
      BY <1>2, <2>1, <3>1, <3>2, <3>4, FitsNow
      DEF Fits, Free, Before, Making, Choosing, Chosen, After
    <3> QED BY <3>3, <3>4
  <2> QED BY <2>2, <2>3, <2>4 DEF MigrationInv, RunsFit
<1> QED BY <1>3, <1>4, <1>5 DEF PublishMoves

LEMMA CheckKeeps ==
  ASSUME MigrationInv, NEW p \in Procs, Check(p)
  PROVE  MigrationInv'
<1>1. Fits(p, at[p]) /\ at[p] = "select" /\ TreeFrame /\ UNCHANGED <<target, staged, selection, snap>>
  BY FitsNow DEF Check
<1>2. CASE Fail(p) /\ UNCHANGED checked
  BY <1>1, <1>2, FailKeeps DEF TreeFrame, StepFrame, Still, MigrationInv, MigrationTypeOK
<1>3. CASE SameSource /\ Untouched /\ Goto(p, "link") /\ checked' = source
  <2>1. owner = p /\ UNCHANGED <<format, cfg>> /\ selection = NoSelection
    BY <1>1, PlacesAreSteps DEF Fits, TreeFrame, StepFrame, Choosing, After
  <2>2. MigrationTypeOK' /\ TargetExists' /\ RecordTrue'
    BY <1>1, <1>3, <2>1, PlacesAreSteps
    DEF Goto, TreeFrame, StepFrame, MigrationInv, MigrationTypeOK, TargetExists, RecordTrue
  <2>3. Fits(p, "link")'
    BY <1>1, <1>3, <2>1
    DEF Goto, TreeFrame, StepFrame, Fits, Stopped, WholeCopy, SameSource, Inventoried, Untouched,
        Free, Before, Making, Choosing, Chosen, After
  <2> QED BY <1>3, <2>1, <2>2, <2>3, OwnKeeps, PlacesAreSteps
<1> QED BY <1>2, <1>3 DEF Check

LEMMA LinkKeeps ==
  ASSUME MigrationInv, NEW p \in Procs, Link(p)
  PROVE  MigrationInv'
<1>1. Fits(p, at[p]) /\ at[p] = "link" /\ TreeFrame /\ UNCHANGED <<target, staged, snap, checked>>
  BY FitsNow DEF Link
<1>2. CASE Fail(p) /\ UNCHANGED selection
  BY <1>1, <1>2, FailKeeps DEF TreeFrame, StepFrame, Still, MigrationInv, MigrationTypeOK
<1>3. CASE selection' = [id |-> target.id, config |-> cfg[p]] /\ Goto(p, "selected")
  <2>1. /\ owner = p /\ UNCHANGED <<format, cfg>> /\ target.state = "complete" /\ WholeCopy
        /\ Stopped /\ format = "legacy" /\ target.id >= 1 /\ target.id \in Nat
    <3>1. target.id >= 1 /\ target.id \in Nat
      BY <1>1, CompleteExists DEF Fits
    <3> QED BY <1>1, <3>1 DEF Fits, TreeFrame, StepFrame, Free, Choosing, After
  <2>2. MigrationTypeOK' /\ TargetExists'
    BY <1>1, <1>3, <2>1, PlacesAreSteps
    DEF Goto, TreeFrame, StepFrame, MigrationInv, MigrationTypeOK, TargetExists
  <2>3. RecordTrue'
    BY <1>1, <1>3, <2>1 DEF TreeFrame, StepFrame, RecordTrue, WholeCopy, Stopped
  <2>4. Fits(p, "selected")'
    BY <1>1, <1>3, <2>1
    DEF Goto, TreeFrame, StepFrame, Fits, Stopped, Adopted, Free, Before, Making, Choosing, Chosen,
        After
  <2> QED BY <1>3, <2>1, <2>2, <2>3, <2>4, OwnKeeps, PlacesAreSteps
<1> QED BY <1>2, <1>3 DEF Link

LEMMA ServesKeeps ==
  ASSUME MigrationInv, NEW p \in Procs, Serves(p)
  PROVE  MigrationInv'
<1>1. /\ at[p] = "serving" /\ TreeFrame /\ UNCHANGED <<at, owner, staged, selection, snap, checked>>
      /\ target' = [target EXCEPT !.own = @ + 1] /\ target \in Targets
  BY DEF Serves, MigrationInv, MigrationTypeOK
<1>2. MigrationTypeOK'
  BY <1>1 DEF TreeFrame, StepFrame, MigrationInv, MigrationTypeOK, Targets
<1>3. target.state = "complete"
  BY <1>1, FitsNow DEF Fits, Chosen, Adopted
<1>4. TargetExists' /\ RecordTrue'
  BY <1>1, <1>3
  DEF TreeFrame, StepFrame, MigrationInv, TargetExists, RecordTrue, WholeCopy, Stopped, NoTarget,
      Targets
<1>5. ASSUME NEW q \in Procs PROVE Fits(q, at[q])'
  BY <1>1, FitsNow
  DEF TreeFrame, StepFrame, Fits, Stopped, Adopted, WholeCopy, Targets
<1> QED BY <1>2, <1>4, <1>5 DEF MigrationInv, RunsFit

-----------------------------------------------------------------------------
(* The world: what it changes no run relies on. *)

(* Idle runs rely on nothing but that they do not hold the lock. *)
LEMMA IdleFits ==
  ASSUME NEW q \in Procs, at[q] = "idle", owner # q
  PROVE  Fits(q, at[q])
BY DEF Fits, Free, Before, Making, Choosing, Chosen, After

LEMMA NobodyOwns ==
  ASSUME MigrationInv, NobodyRuns, NEW q \in Procs
  PROVE  at[q] = "idle" /\ owner # q
BY FitsNow DEF NobodyRuns, Fits, Free

LEMMA LegacyWritesKeeps ==
  ASSUME MigrationInv, LegacyWrites
  PROVE  MigrationInv'
<1>1. /\ WorldFrame /\ UNCHANGED <<legacyVars, receipt, config, target, selection, at, owner>>
      /\ source' \in Moment /\ ~Stopped
  <2>1. PICK s \in States : source' = [source EXCEPT !.legacy = @ + 1, !.state = s]
    BY DEF LegacyWrites
  <2>2. source \in Moment
    BY DEF MigrationInv, MigrationTypeOK
  <2>3. /\ source.legacy \in Int /\ source.outside \in Int
        /\ source' = [legacy |-> source.legacy + 1, outside |-> source.outside, state |-> s]
    BY <2>1, <2>2 DEF Moment
  <2>4. source' \in Moment
    BY <2>3 DEF Moment
  <2> QED BY <2>4 DEF LegacyWrites, Stopped
<1>2. MigrationTypeOK' /\ TargetExists' /\ RecordTrue'
  BY <1>1
  DEF WorldFrame, legacyVars, MigrationInv, MigrationTypeOK, TargetExists, RecordTrue
<1>3. ASSUME NEW q \in Procs PROVE Fits(q, at[q])'
  BY <1>1, FitsNow
  DEF WorldFrame, legacyVars, Fits, Stopped, Adopted, Choosing, After
<1> QED BY <1>2, <1>3 DEF MigrationInv, RunsFit

LEMMA OutsideWritesKeeps ==
  ASSUME MigrationInv, OutsideWrites
  PROVE  MigrationInv'
<1>1. /\ WorldFrame /\ UNCHANGED <<legacyVars, receipt, config, target, selection, at, owner>>
      /\ source' \in Moment /\ source'.legacy = source.legacy
  <2>1. PICK s \in States : source' = [source EXCEPT !.outside = @ + 1, !.state = s]
    BY DEF OutsideWrites
  <2>2. source \in Moment
    BY DEF MigrationInv, MigrationTypeOK
  <2>3. /\ source.legacy \in Int /\ source.outside \in Int
        /\ source' = [legacy |-> source.legacy, outside |-> source.outside + 1, state |-> s]
    BY <2>1, <2>2 DEF Moment
  <2>4. source' \in Moment /\ source'.legacy = source.legacy
    BY <2>3 DEF Moment
  <2> QED BY <2>4 DEF OutsideWrites
<1>2. MigrationTypeOK' /\ TargetExists' /\ RecordTrue'
  BY <1>1
  DEF WorldFrame, legacyVars, MigrationInv, MigrationTypeOK, TargetExists, RecordTrue, Stopped,
      WholeCopy
<1>3. ASSUME NEW q \in Procs PROVE Fits(q, at[q])'
  BY <1>1, FitsNow DEF WorldFrame, legacyVars, Fits, Stopped, Adopted, WholeCopy
<1> QED BY <1>2, <1>3 DEF MigrationInv, RunsFit

LEMMA RebootKeeps ==
  ASSUME MigrationInv, Reboot
  PROVE  MigrationInv'
<1>1. /\ WorldFrame /\ UNCHANGED <<source, restart, config, target, selection>>
      /\ host' = "down" /\ container' = IF restart THEN "up" ELSE "down"
      /\ at' = [p \in Procs |-> "idle"] /\ owner' = None
  BY DEF Reboot
<1>2. MigrationTypeOK' /\ TargetExists' /\ RecordTrue'
  BY <1>1
  DEF WorldFrame, MigrationInv, MigrationTypeOK, Steps, Free, TargetExists, RecordTrue, Stopped,
      WholeCopy
<1>3. ASSUME NEW q \in Procs PROVE Fits(q, at[q])'
  <2>1. at'[q] = "idle" /\ owner' # q
    BY <1>1, MigrationAssumption
  <2> QED BY <2>1 DEF Fits, Free, Before, Making, Choosing, Chosen, After
<1> QED BY <1>2, <1>3 DEF MigrationInv, RunsFit

LEMMA LegacyServiceKeeps ==
  ASSUME MigrationInv, LegacyStarts \/ LegacyStops \/ Audit
  PROVE  MigrationInv'
<1>1. /\ WorldFrame /\ UNCHANGED <<source, config, target, selection, at, owner>> /\ NobodyRuns
      /\ host' \in {"up", "down"} /\ container' \in {"up", "down"} /\ restart' \in BOOLEAN
      /\ selection # NoSelection => UNCHANGED <<host, container, restart>>
  BY DEF LegacyStarts, LegacyStops, Audit, MigrationInv, MigrationTypeOK, RecordTrue, Stopped
<1>2. MigrationTypeOK' /\ TargetExists' /\ RecordTrue'
  BY <1>1
  DEF WorldFrame, MigrationInv, MigrationTypeOK, TargetExists, RecordTrue, Stopped, WholeCopy
<1>3. ASSUME NEW q \in Procs PROVE Fits(q, at[q])'
  <2>1. at'[q] = "idle" /\ owner' # q
    BY <1>1, NobodyOwns
  <2> QED BY <2>1 DEF Fits, Free, Before, Making, Choosing, Chosen, After
<1> QED BY <1>2, <1>3 DEF MigrationInv, RunsFit

LEMMA EditConfigKeeps ==
  ASSUME MigrationInv, EditConfig
  PROVE  MigrationInv'
<1>1. /\ WorldFrame /\ UNCHANGED <<source, legacyVars, target, selection, at, owner>>
      /\ config' \in Configs
  BY DEF EditConfig
<1>2. MigrationTypeOK' /\ TargetExists' /\ RecordTrue'
  BY <1>1
  DEF WorldFrame, legacyVars, MigrationInv, MigrationTypeOK, TargetExists, RecordTrue, Stopped,
      WholeCopy
<1>3. ASSUME NEW q \in Procs PROVE Fits(q, at[q])'
  BY <1>1, FitsNow DEF WorldFrame, legacyVars, Fits, Stopped, Adopted, WholeCopy
<1> QED BY <1>2, <1>3 DEF MigrationInv, RunsFit

LEMMA TouchTargetKeeps ==
  ASSUME MigrationInv, TouchTarget
  PROVE  MigrationInv'
<1>1. /\ WorldFrame /\ UNCHANGED <<source, legacyVars, config, selection, at, owner>> /\ NobodyRuns
      /\ target' \in {NoTarget, [target EXCEPT !.id = @ + 1]} /\ target.state # "absent"
      /\ target \in Targets
  BY DEF TouchTarget, MigrationInv, MigrationTypeOK
<1>2. target' \in Targets /\ (target' = NoTarget \/ target'.id = target.id + 1)
  BY <1>1, NoTargetTyped DEF Targets
<1>3. MigrationTypeOK'
  BY <1>1, <1>2 DEF WorldFrame, legacyVars, MigrationInv, MigrationTypeOK
<1>4. TargetExists'
  BY <1>1, <1>2, CompleteExists DEF TargetExists, Targets
<1>5. RecordTrue'
  <2>1. target # NoTarget
    BY <1>1 DEF NoTarget
  <2>2. ASSUME selection # NoSelection
        PROVE  /\ Stopped /\ format = "legacy" /\ selection.id >= 1 /\ target.id >= selection.id
               /\ selection.id \in Nat /\ target.id \in Nat
    BY <2>1, <2>2, <1>1 DEF MigrationInv, MigrationTypeOK, RecordTrue, Targets
  <2>3. selection # NoSelection => target'.id # selection.id
    BY <1>2, <2>2 DEF NoTarget
  <2>4. selection # NoSelection => target' = NoTarget \/ target'.id >= selection.id
    BY <1>2, <2>2
  <2> QED BY <1>1, <2>2, <2>3, <2>4 DEF WorldFrame, legacyVars, RecordTrue, Stopped
<1>6. ASSUME NEW q \in Procs PROVE Fits(q, at[q])'
  <2>1. at'[q] = "idle" /\ owner' # q
    BY <1>1, NobodyOwns
  <2> QED BY <2>1 DEF Fits, Free, Before, Making, Choosing, Chosen, After
<1> QED BY <1>3, <1>4, <1>5, <1>6 DEF MigrationInv, RunsFit

-----------------------------------------------------------------------------
LEMMA MigrationInitInv == Init => MigrationInv
<1> SUFFICES ASSUME Init PROVE MigrationInv
  OBVIOUS
<1>1. MigrationTypeOK
  <2>1. source \in Moment
    BY DEF Init, Moment
  <2> QED BY <2>1, NoTargetTyped DEF Init, MigrationTypeOK, NoSelection, Steps, Free
<1>2. TargetExists /\ RecordTrue
  BY DEF Init, TargetExists, RecordTrue
<1>3. RunsFit
  <2>1. ASSUME NEW q \in Procs PROVE Fits(q, at[q])
    BY IdleFits, MigrationAssumption DEF Init
  <2> QED BY <2>1 DEF RunsFit
<1> QED BY <1>1, <1>2, <1>3 DEF MigrationInv

LEMMA MigrationNextInv == MigrationInv /\ [Next]_migrationVars => MigrationInv'
<1> SUFFICES ASSUME MigrationInv, [Next]_migrationVars PROVE MigrationInv'
  OBVIOUS
<1>1. CASE World
  BY <1>1, LegacyWritesKeeps, OutsideWritesKeeps, RebootKeeps, LegacyServiceKeeps, EditConfigKeeps,
     TouchTargetKeeps DEF World
<1>2. ASSUME NEW p \in Procs, Startup(p) PROVE MigrationInv'
  BY <1>2, ConfigureKeeps, PrecheckKeeps, AcquireKeeps, LoadFirstKeeps, QuiesceKeeps, StopHostKeeps,
     DisableRestartKeeps, StopContainersKeeps, PublishReceiptKeeps, DecideKeeps, PreflightKeeps,
     CopyTreeKeeps, AssembleKeeps, PublishBeginsKeeps, PublishMovesKeeps, EvidenceKeeps, CheckKeeps,
     LinkKeeps, ValidateKeeps, ServesKeeps, EndsKeeps DEF Startup
<1>3. CASE UNCHANGED migrationVars
  BY <1>3
  DEF migrationVars, legacyVars, treeVars, MigrationInv, MigrationTypeOK, TargetExists, RecordTrue,
      RunsFit, Fits, Stopped, Adopted, WholeCopy
<1> QED BY <1>1, <1>2, <1>3 DEF Next

(* In every execution a run that holds the lock can rely on what it found,  *)
(* a selection stays true of the directory it names, and the legacy service *)
(* stays stopped once there is one.                                         *)
THEOREM MigrationInvariant == Spec => []MigrationInv
BY MigrationInitInv, MigrationNextInv, PTL DEF Spec

(* Whatever the number of runs, configurations, writes, crashes, reboots    *)
(* and interventions of operators: what is served as the target is a whole  *)
(* copy of the source, and once a target was selected nobody goes back.     *)
THEOREM MigrationLosesNothing == Spec => []NothingLost
<1>1. MigrationInv => NothingLost
  <2> SUFFICES ASSUME MigrationInv PROVE NothingLost
    OBVIOUS
  <2>1. ASSUME NEW p \in Procs, at[p] = "serving"
        PROVE  /\ owner = p /\ selection = [id |-> target.id, config |-> cfg[p]]
               /\ target.state = "complete"
               /\ target.base.legacy = source.legacy /\ target.base.outside = checked.outside
    <3>1. owner = p /\ Adopted(p)
      BY <2>1, FitsNow DEF Fits, Free, Chosen
    <3>2. target.id >= 1 /\ target.id \in Nat
      BY <3>1, CompleteExists DEF Adopted
    <3>3. selection # NoSelection /\ selection.id = target.id
      BY <3>1, <3>2 DEF Adopted, NoSelection
    <3>4. WholeCopy
      BY <3>3 DEF MigrationInv, RecordTrue
    <3> QED BY <3>1, <3>4 DEF Adopted, WholeCopy
  <2>2. ASSUME NEW p \in Procs, at[p] = "serving source"
        PROVE  selection = NoSelection /\ owner = p
    BY <2>2, FitsNow DEF Fits, Free, MigrationInv, RecordTrue
  <2>3. ASSUME selection # NoSelection, NEW k \in Configs
        PROVE  /\ selected_root(k) # "source"
               /\ selected_root(k) = "target" => target.state = "complete"
    BY <2>3 DEF selected_root, Loads
  <2>4. selection # NoSelection /\ target.id = selection.id => target.base.legacy = source.legacy
    BY DEF MigrationInv, RecordTrue, WholeCopy
  <2> QED BY <2>1, <2>2, <2>3, <2>4 DEF NothingLost, ServesWholeCopy, NoWayBack
<1> QED BY <1>1, MigrationInvariant, PTL

-----------------------------------------------------------------------------
(* What is in the target was converted from a state that could be.          *)
Sound(s, c) == Convertible(s, MapOf[c])

MakesSound(p) ==
  /\ at[p] = "copy" => Sound(snap.state, cfg[p])
  /\ at[p] \in {"assemble", "publish"} => Sound(staged.state, cfg[p])
  /\ at[p] = "link" => target.config = cfg[p]

ConversionInv ==
  /\ \A p \in Procs : MakesSound(p)
  /\ target # NoTarget => Sound(target.base.state, target.config)
  /\ selection # NoSelection /\ target.id = selection.id => target.config = selection.config

(* A conversion finds in one place what it can find in another: a session   *)
(* that is offered to a role has in the new home the history it had.        *)
LEMMA ConversionKeepsHistory ==
  ASSUME NEW s, NEW k, Convertible(s, k)
  PROVE  HistoryKept(s, k, Homes(s, k))
<1>1. RowsMapped(s, k)
  BY DEF Convertible
<1>2. ASSUME NEW r \in Roles, Compatible(s, k, r)
      PROVE  /\ RoleHome(s, k, r) \in DOMAIN Homes(s, k)
             /\ \A f \in Files :
                  {h[f] : h \in Places(s, k, r) \ {NoHome}} \ {None}
                    = {Homes(s, k)[RoleHome(s, k, r)][f]} \ {None}
  <2> DEFINE scope == k.families[s.family[r]].scope
  <2>1. HasSession(s, r) /\ RoleHome(s, k, r) = <<r, scope>>
    BY <1>2 DEF Compatible, RoleHome, SessionRow, SettingsRow
  <2>2. /\ <<r, scope>> \in DOMAIN Homes(s, k)
        /\ Homes(s, k)[<<r, scope>>] = ActiveHome(s, k, r)
    BY <2>1 DEF Homes
  <2>3. HomePlanned(s, k, r)
    BY <2>1 DEF Convertible
  <2>4. ASSUME NEW f \in Files
        PROVE  {h[f] : h \in Places(s, k, r) \ {NoHome}} \ {None} = {ActiveHome(s, k, r)[f]} \ {None}
    <3>1. CASE Imports(s, k, r)
      <4>1. Places(s, k, r) = {s.home[r], s.shared} /\ s.shared # NoHome
        BY <3>1 DEF Places, Imports
      <4>2. ~Conflict(s.shared, Own(s, r))
        BY <2>3, <3>1 DEF HomePlanned
      <4>3. ActiveHome(s, k, r)[f] = IF Own(s, r)[f] # None THEN Own(s, r)[f] ELSE s.shared[f]
        BY <3>1 DEF ActiveHome, Overlaid
      <4>4. CASE s.home[r] = NoHome
        <5>1. Own(s, r)[f] = None /\ Places(s, k, r) \ {NoHome} = {s.shared}
          BY <4>1, <4>4 DEF Own, Nothing
        <5> QED BY <4>3, <5>1
      <4>5. CASE s.home[r] # NoHome
        <5>1. Own(s, r) = s.home[r] /\ Places(s, k, r) \ {NoHome} = {s.home[r], s.shared}
          BY <4>1, <4>5 DEF Own
        <5>2. s.shared[f] # None /\ s.home[r][f] # None => s.shared[f] = s.home[r][f]
          BY <4>2, <5>1 DEF Conflict
        <5>3. {h[f] : h \in Places(s, k, r) \ {NoHome}} = {s.home[r][f], s.shared[f]}
          BY <5>1
        <5> QED BY <4>3, <5>1, <5>2, <5>3
      <4> QED BY <4>4, <4>5
    <3>2. CASE ~Imports(s, k, r)
      <4>1. Places(s, k, r) \ {NoHome} = {s.home[r]} /\ ActiveHome(s, k, r) = s.home[r]
        BY <2>3, <3>2 DEF Places, Imports, HomePlanned, ActiveHome, Own
      <4> QED BY <4>1
    <3> QED BY <3>1, <3>2
  <2> QED BY <2>1, <2>2, <2>4
<1> QED BY <1>1, <1>2 DEF HistoryKept

(* Steps that neither make nor touch a tree, and do not take anybody where  *)
(* a tree is made *)
LEMMA OthersSound ==
  ASSUME ConversionInv, UNCHANGED <<target, selection>>,
         \A q \in Procs : \/ at'[q] \notin {"copy", "assemble", "publish", "link"}
                          \/ at'[q] = at[q] /\ cfg'[q] = cfg[q] /\ UNCHANGED <<snap, staged>>
  PROVE  ConversionInv'
BY DEF ConversionInv, MakesSound

(* The run that makes a tree is the only one that is past the lock. *)
LEMMA AloneSound ==
  ASSUME MigrationInv, MigrationInv', NEW p \in Procs, owner' = p,
         MakesSound(p)',
         (target # NoTarget => Sound(target.base.state, target.config))',
         (selection # NoSelection /\ target.id = selection.id => target.config = selection.config)'
  PROVE  ConversionInv'
<1>1. ASSUME NEW q \in Procs, q # p PROVE MakesSound(q)'
  <2>1. at'[q] \in Free
    BY <1>1 DEF MigrationInv, RunsFit, Fits
  <2> QED BY <2>1 DEF MakesSound, Free
<1> QED BY <1>1 DEF ConversionInv

LEMMA WorldSound ==
  ASSUME MigrationInv, ConversionInv, World
  PROVE  ConversionInv'
<1>1. CASE TouchTarget
  <2>1. /\ UNCHANGED <<selection, at>> /\ NobodyRuns /\ target.state # "absent" /\ target \in Targets
        /\ target' \in {NoTarget, [target EXCEPT !.id = @ + 1]}
    BY <1>1 DEF TouchTarget, WorldFrame, MigrationInv, MigrationTypeOK
  <2>2. ASSUME NEW p \in Procs PROVE MakesSound(p)'
    BY <2>1 DEF MakesSound, NobodyRuns
  <2>3. target # NoTarget
    BY <2>1 DEF NoTarget
  <2>4. target' # NoTarget => target'.base = target.base /\ target'.config = target.config
    BY <2>1 DEF Targets
  <2>5. target' # NoTarget => Sound(target'.base.state, target'.config)
    BY <2>3, <2>4 DEF ConversionInv
  <2>6. selection # NoSelection => target'.id # selection.id
    <3>1. ASSUME selection # NoSelection
          PROVE  selection.id \in Nat /\ selection.id >= 1 /\ target.id >= selection.id
                 /\ target.id \in Nat
      BY <2>1, <2>3, <3>1 DEF MigrationInv, MigrationTypeOK, RecordTrue, Targets
    <3>2. target' = NoTarget \/ target'.id = target.id + 1
      BY <2>1 DEF Targets
    <3> QED BY <3>1, <3>2 DEF NoTarget
  <2>7. (target # NoTarget => Sound(target.base.state, target.config))'
    BY <2>5 DEF Sound
  <2> QED BY <2>1, <2>2, <2>6, <2>7 DEF ConversionInv
<1>2. CASE ~TouchTarget
  <2>1. UNCHANGED <<target, selection, snap, staged, cfg>>
    BY <1>2
    DEF World, LegacyWrites, OutsideWrites, Reboot, LegacyStarts, LegacyStops, Audit, EditConfig,
        WorldFrame
  <2>2. UNCHANGED at \/ at' = [p \in Procs |-> "idle"]
    BY <1>2 DEF World, LegacyWrites, OutsideWrites, Reboot, LegacyStarts, LegacyStops, Audit, EditConfig
  <2> QED BY <2>1, <2>2, OthersSound
<1> QED BY <1>1, <1>2

LEMMA FailSound ==
  ASSUME MigrationInv, ConversionInv, NEW p \in Procs, Fail(p), UNCHANGED <<target, selection, cfg>>,
         UNCHANGED <<snap, staged>> \/ owner = p
  PROVE  ConversionInv'
<1>1. at \in [Procs -> Steps] /\ at' = [at EXCEPT ![p] = "idle"]
  BY DEF MigrationInv, MigrationTypeOK, Fail
<1>2. ASSUME NEW q \in Procs, q # p, owner = p PROVE at[q] \in Free
  BY <1>2, OthersFree
<1>3. \A q \in Procs : \/ at'[q] \notin {"copy", "assemble", "publish", "link"}
                       \/ at'[q] = at[q] /\ cfg'[q] = cfg[q] /\ UNCHANGED <<snap, staged>>
  BY <1>1, <1>2 DEF Free
<1> QED BY <1>3, OthersSound

(* The steps of a run that make no tree *)
Looks(p) ==
  \/ Configure(p) \/ Precheck(p) \/ Acquire(p) \/ LoadFirst(p) \/ Quiesce(p) \/ StopHost(p)
  \/ DisableRestart(p) \/ StopContainers(p) \/ PublishReceipt(p) \/ Decide(p) \/ Evidence(p)
  \/ Validate(p) \/ Ends(p)

LEMMA LooksSound ==
  ASSUME MigrationInv, ConversionInv, NEW p \in Procs, Looks(p)
  PROVE  ConversionInv'
<1>1. UNCHANGED <<target, selection, snap, staged>>
  BY DEF Looks, Configure, Precheck, Acquire, LoadFirst, Quiesce, StopHost, DisableRestart,
         StopContainers, PublishReceipt, Decide, Evidence, Validate, Ends, OnlyMoves, TreeFrame, treeVars
<1>2. PICK s : at' = [at EXCEPT ![p] = s] /\ s \notin {"copy", "assemble", "publish", "link"}
  BY DEF Looks, Configure, Precheck, Acquire, LoadFirst, Quiesce, StopHost, DisableRestart,
         StopContainers, PublishReceipt, Decide, Evidence, Validate, Ends, Goto, Fail
<1>3. cfg' = cfg \/ cfg' = [cfg EXCEPT ![p] = config]
  BY DEF Looks, Configure, Precheck, Acquire, LoadFirst, Quiesce, StopHost, DisableRestart,
         StopContainers, PublishReceipt, Decide, Evidence, Validate, Ends, OnlyMoves, TreeFrame
<1>4. at \in [Procs -> Steps] /\ cfg \in [Procs -> Configs \cup {None}]
  BY DEF MigrationInv, MigrationTypeOK
<1>5. \A q \in Procs : \/ at'[q] \notin {"copy", "assemble", "publish", "link"}
                       \/ at'[q] = at[q] /\ cfg'[q] = cfg[q] /\ UNCHANGED <<snap, staged>>
  BY <1>1, <1>2, <1>3, <1>4
<1> QED BY <1>1, <1>5, OthersSound

(* A run that goes on with the lock *)
LEMMA GoesOn ==
  ASSUME MigrationInv, MigrationInv', NEW p \in Procs, NEW s, Goto(p, s), s \notin Free
  PROVE  at'[p] = s /\ owner' = p
<1>1. at'[p] = s
  BY DEF Goto, MigrationInv, MigrationTypeOK
<1> QED BY <1>1 DEF MigrationInv, RunsFit, Fits

LEMMA PreflightSound ==
  ASSUME MigrationInv, MigrationInv', ConversionInv, NEW p \in Procs, Preflight(p)
  PROVE  ConversionInv'
<1>1. /\ at[p] = "preflight" /\ snap' = source /\ UNCHANGED <<target, selection, staged, cfg>>
      /\ owner = p
  BY FitsNow DEF Preflight, TreeFrame, Fits, Free
<1>2. CASE Fail(p)
  BY <1>1, <1>2, FailSound
<1>3. CASE Sound(source.state, cfg[p]) /\ Goto(p, "copy")
  <2>1. at'[p] = "copy" /\ owner' = p
    BY <1>3, GoesOn DEF Free
  <2>2. MakesSound(p)'
    BY <1>1, <1>3, <2>1 DEF MakesSound, Sound
  <2> QED BY <1>1, <2>1, <2>2, AloneSound DEF ConversionInv, Sound
<1> QED BY <1>2, <1>3 DEF Preflight, Sound

LEMMA CopyTreeSound ==
  ASSUME MigrationInv, MigrationInv', ConversionInv, NEW p \in Procs, CopyTree(p)
  PROVE  ConversionInv'
<1>1. /\ at[p] = "copy" /\ UNCHANGED <<target, selection, snap, cfg>> /\ owner = p
      /\ Sound(snap.state, cfg[p])
  BY FitsNow DEF CopyTree, TreeFrame, Fits, Free, ConversionInv, MakesSound
<1>2. CASE Fail(p)
  BY <1>1, <1>2, FailSound
<1>3. CASE staged' = snap /\ Goto(p, "assemble")
  <2>1. at'[p] = "assemble" /\ owner' = p
    BY <1>3, GoesOn DEF Free
  <2>2. MakesSound(p)'
    BY <1>1, <1>3, <2>1 DEF MakesSound, Sound
  <2> QED BY <1>1, <2>1, <2>2, AloneSound DEF ConversionInv, Sound
<1> QED BY <1>2, <1>3 DEF CopyTree, Copied, Inventoried

LEMMA AssembleSound ==
  ASSUME MigrationInv, MigrationInv', ConversionInv, NEW p \in Procs, Assemble(p)
  PROVE  ConversionInv'
<1>1. /\ at[p] = "assemble" /\ UNCHANGED <<target, selection, snap, staged, cfg>>
      /\ Sound(staged.state, cfg[p])
  BY DEF Assemble, TreeFrame, treeVars, ConversionInv, MakesSound
<1>2. CASE Fail(p)
  BY <1>1, <1>2, FailSound
<1>3. CASE Goto(p, "publish")
  <2>1. at'[p] = "publish" /\ owner' = p
    BY <1>3, GoesOn DEF Free
  <2>2. MakesSound(p)'
    BY <1>1, <1>3, <2>1 DEF MakesSound, Sound
  <2> QED BY <1>1, <2>1, <2>2, AloneSound DEF ConversionInv, Sound
<1> QED BY <1>2, <1>3 DEF Assemble

LEMMA PublishBeginsSound ==
  ASSUME MigrationInv, MigrationInv', ConversionInv, NEW p \in Procs, PublishBegins(p)
  PROVE  ConversionInv'
<1>1. /\ at[p] = "publish" /\ UNCHANGED <<selection, snap, staged, cfg>>
      /\ Sound(staged.state, cfg[p]) /\ selection = NoSelection
  BY FitsNow DEF PublishBegins, TreeFrame, ConversionInv, MakesSound, Fits, Making
<1>2. CASE Fail(p) /\ UNCHANGED target
  BY <1>1, <1>2, FailSound
<1>3. CASE /\ target' = [NoTarget EXCEPT !.state = "partial", !.id = 1, !.base = staged,
                                         !.config = cfg[p]]
           /\ Goto(p, "publishing")
  <2>1. at'[p] = "publishing" /\ owner' = p
    BY <1>3, GoesOn DEF Free
  <2>2. target'.base = staged /\ target'.config = cfg[p]
    BY <1>3 DEF NoTarget
  <2>3. Sound(target'.base.state, target'.config)
    BY <1>1, <2>2
  <2>4. MakesSound(p)'
    BY <2>1 DEF MakesSound
  <2> QED BY <1>1, <2>1, <2>3, <2>4, AloneSound DEF Sound
<1> QED BY <1>2, <1>3 DEF PublishBegins

LEMMA PublishMovesSound ==
  ASSUME MigrationInv, MigrationInv', ConversionInv, NEW p \in Procs, PublishMoves(p)
  PROVE  ConversionInv'
<1>1. /\ at[p] = "publishing" /\ UNCHANGED <<selection, snap, staged, cfg>> /\ owner = p
      /\ selection = NoSelection /\ target.state = "partial" /\ target \in Targets
  BY FitsNow DEF PublishMoves, TreeFrame, Fits, Making, Free, MigrationInv, MigrationTypeOK
<1>2. CASE target' = NoTarget /\ Fail(p)
  <2>1. ASSUME NEW q \in Procs PROVE MakesSound(q)'
    <3>1. at' = [at EXCEPT ![p] = "idle"] /\ at \in [Procs -> Steps] /\ (q # p => at[q] \in Free)
      BY <1>1, <1>2, OthersFree DEF Fail, MigrationInv, MigrationTypeOK
    <3>2. at'[q] \in Free
      BY <3>1 DEF Free
    <3> QED BY <3>2 DEF MakesSound, Free
  <2> QED BY <1>1, <1>2, <2>1 DEF ConversionInv
<1>3. CASE /\ target' = [target EXCEPT !.evidence = TRUE]
              \/ target' = [target EXCEPT !.state = "complete"]
           /\ Goto(p, "publishing") \/ Goto(p, "evidence")
  <2>1. at'[p] \in {"publishing", "evidence"} /\ owner' = p
    BY <1>3, GoesOn DEF Free
  <2>2. target # NoTarget /\ target'.base = target.base /\ target'.config = target.config
    BY <1>1, <1>3 DEF Targets, NoTarget
  <2>3. Sound(target'.base.state, target'.config)
    BY <2>2 DEF ConversionInv
  <2>4. MakesSound(p)'
    BY <2>1 DEF MakesSound
  <2> QED BY <1>1, <2>1, <2>3, <2>4, AloneSound DEF Sound
<1> QED BY <1>2, <1>3 DEF PublishMoves

LEMMA CheckSound ==
  ASSUME MigrationInv, MigrationInv', ConversionInv, NEW p \in Procs, Check(p)
  PROVE  ConversionInv'
<1>1. UNCHANGED <<target, selection, snap, staged, cfg>>
  BY DEF Check, TreeFrame
<1>2. CASE Fail(p)
  BY <1>1, <1>2, FailSound
<1>3. CASE ReportMatches(cfg[p]) /\ Goto(p, "link")
  <2>1. at'[p] = "link" /\ owner' = p
    BY <1>3, GoesOn DEF Free
  <2>2. MakesSound(p)'
    BY <1>1, <1>3, <2>1 DEF MakesSound, ReportMatches
  <2> QED BY <1>1, <2>1, <2>2, AloneSound DEF ConversionInv, Sound
<1> QED BY <1>2, <1>3 DEF Check

LEMMA LinkSound ==
  ASSUME MigrationInv, MigrationInv', ConversionInv, NEW p \in Procs, Link(p)
  PROVE  ConversionInv'
<1>1. UNCHANGED <<target, snap, staged, cfg>> /\ target.config = cfg[p]
  BY DEF Link, TreeFrame, ConversionInv, MakesSound
<1>2. CASE Fail(p) /\ UNCHANGED selection
  BY <1>1, <1>2, FailSound
<1>3. CASE selection' = [id |-> target.id, config |-> cfg[p]] /\ Goto(p, "selected")
  <2>1. at'[p] = "selected" /\ owner' = p
    BY <1>3, GoesOn DEF Free
  <2>2. MakesSound(p)'
    BY <2>1 DEF MakesSound
  <2>3. target'.config = selection'.config
    BY <1>1, <1>3
  <2> QED BY <1>1, <2>1, <2>2, <2>3, AloneSound DEF ConversionInv, Sound
<1> QED BY <1>2, <1>3 DEF Link

LEMMA ServesSound ==
  ASSUME MigrationInv, MigrationInv', ConversionInv, NEW p \in Procs, Serves(p)
  PROVE  ConversionInv'
<1>1. /\ UNCHANGED <<at, selection, snap, staged, cfg>> /\ target \in Targets
      /\ target' = [target EXCEPT !.own = @ + 1] /\ owner' = p /\ at'[p] = "serving"
      /\ target.state = "complete"
  BY FitsNow DEF Serves, TreeFrame, MigrationInv, MigrationTypeOK, Fits, Free, Chosen, Adopted
<1>2. /\ target'.base = target.base /\ target'.config = target.config /\ target'.id = target.id
      /\ target # NoTarget
  BY <1>1 DEF Targets, NoTarget
<1>3. Sound(target'.base.state, target'.config)
  BY <1>2 DEF ConversionInv
<1>4. MakesSound(p)'
  BY <1>1 DEF MakesSound
<1> QED BY <1>1, <1>2, <1>3, <1>4, AloneSound DEF ConversionInv, Sound

LEMMA ConversionInitInv == Init => ConversionInv
BY DEF Init, ConversionInv, MakesSound

LEMMA ConversionNextInv ==
  MigrationInv /\ ConversionInv /\ [Next]_migrationVars => ConversionInv'
<1> SUFFICES ASSUME MigrationInv, ConversionInv, [Next]_migrationVars PROVE ConversionInv'
  OBVIOUS
<1>1. CASE World
  BY <1>1, WorldSound
<1>2. ASSUME NEW p \in Procs, Startup(p) PROVE ConversionInv'
  <2>1. MigrationInv'
    BY MigrationNextInv
  <2> QED BY <1>2, <2>1, LooksSound, PreflightSound, CopyTreeSound, AssembleSound,
             PublishBeginsSound, PublishMovesSound, CheckSound, LinkSound, ServesSound
          DEF Startup, Looks
<1>3. CASE UNCHANGED migrationVars
  BY <1>3 DEF migrationVars, treeVars, ConversionInv, MakesSound, Sound
<1> QED BY <1>1, <1>2, <1>3 DEF Next

(* Whatever the legacy states and the configurations are and however they   *)
(* change while a startup copies: in the selected target every session that *)
(* the new service offers has the history it had when the source was last   *)
(* checked.                                                                 *)
THEOREM SelectionKeepsHistory == Spec => []SelectedKeepsHistory
<1>1. MigrationInv /\ ConversionInv => SelectedKeepsHistory
  <2> SUFFICES ASSUME MigrationInv, ConversionInv, selection # NoSelection, target.id = selection.id
               PROVE  HistoryKept(checked.state, MapOf[selection.config], TargetHomes)
    BY DEF SelectedKeepsHistory
  <2>1. target.state = "complete" /\ target.base = checked
    BY DEF MigrationInv, RecordTrue, WholeCopy
  <2>2. target # NoTarget /\ target.config = selection.config
    BY <2>1 DEF NoTarget, ConversionInv
  <2>3. PICK s, k : s = checked.state /\ k = MapOf[selection.config]
    OBVIOUS
  <2>4. Convertible(s, k) /\ TargetHomes = Homes(s, k)
    BY <2>1, <2>2, <2>3 DEF ConversionInv, Sound, TargetHomes
  <2>5. HistoryKept(s, k, Homes(s, k))
    BY <2>4, ConversionKeepsHistory
  <2> QED BY <2>3, <2>4, <2>5
<1>2. Spec => []ConversionInv
  BY MigrationInvariant, ConversionInitInv, ConversionNextInv, PTL DEF Spec
<1> QED BY <1>1, <1>2, MigrationInvariant, PTL
=============================================================================
