----------------------------- MODULE Migration -----------------------------
(* A managed startup over the state of the previous version.  It stops the  *)
(* audited legacy deployment, copies and converts its state into a target,  *)
(* records the target as selected and serves it.  Coordinators may run at   *)
(* the same time, crash between any two steps and be started again; hosts   *)
(* reboot, operators edit the configuration, start the legacy service again *)
(* as long as nothing was selected, or touch the target; and an accepted    *)
(* external container may write to the source at any time.                  *)
EXTENDS Conversion, Integers, FiniteSets

CONSTANTS Procs,      \* runs of the managed startup
          Configs,    \* configurations, each with a mapping of providers and paths
          MapOf,      \* the mapping of each
          States,     \* what the source may hold, as Conversion says
          MaxWrites,  \* writes of the legacy service, of outsiders, of the new version
          MaxFaults   \* crashes, reboots, failures and operators' actions

ASSUME MigrationAssumption ==
  /\ MaxWrites \in Nat /\ MaxFaults \in Nat /\ None \notin Procs \cup Configs
  /\ States # {}

(* Files of different moments: nobody looks at what they hold *)
Mixed == [legacy |-> -1, outside |-> -1, state |-> CHOOSE s \in States : TRUE]

VARIABLES format, source,             \* the source's format, writes and what it holds
          host, container, restart,   \* the legacy deployment, and docker's policy
          gen, boot, audit, receipt,  \* its identity, the report on it, the shutdown record
          config,
          target, staged, selection,  \* the published tree, the one in assembly, the record
          at, cfg, owner, snap,       \* where each run is; the source's lock; its inventory
          checked,                    \* history: the source when the selection was checked
          faults

legacyVars == <<host, container, restart, gen, boot, audit>>
treeVars == <<target, staged, selection, snap, checked>>
migrationVars == <<format, source, legacyVars, receipt, config, treeVars, at, cfg, owner, faults>>

(* A directory has an identity; a tree holds the source of one moment, was  *)
(* made with one configuration and may hold writes of the new version.      *)
NoTarget == [state |-> "absent", id |-> 0, evidence |-> FALSE, base |-> Mixed, config |-> None,
             own |-> 0]

NoReceipt == [audit |-> 0, boot |-> 0]
NoSelection == [id |-> 0, config |-> None]

Init ==
  /\ format \in {"legacy", "current"}
  /\ source \in [legacy : {0}, outside : {0}, state : States]
  /\ host = "up" /\ container = "up" /\ restart = TRUE
  /\ gen = 1 /\ boot = 1 /\ audit = 1 /\ receipt = NoReceipt
  /\ config \in Configs
  /\ target = NoTarget /\ staged = Mixed /\ selection = NoSelection /\ snap = Mixed
  /\ at = [p \in Procs |-> "idle"] /\ cfg = [p \in Procs |-> None] /\ owner = None
  /\ checked = Mixed /\ faults = 0

Fault == faults < MaxFaults /\ faults' = faults + 1
NobodyRuns == \A p \in Procs : at[p] = "idle"

-----------------------------------------------------------------------------
(* The world around a startup *)
WorldFrame == UNCHANGED <<format, staged, snap, checked, cfg>>

(* A legacy host process or container writes; with the new format it is a   *)
(* state of the new version and nobody legacy is there.                     *)
LegacyWrites ==
  /\ format = "legacy" /\ (host = "up" \/ container = "up") /\ source.legacy < MaxWrites
  /\ \E s \in States : source' = [source EXCEPT !.legacy = @ + 1, !.state = s]
  /\ WorldFrame /\ UNCHANGED <<legacyVars, receipt, config, target, selection, at, owner, faults>>

(* "their identity audit does not fence them from writing the source" *)
OutsideWrites ==
  /\ source.outside < MaxWrites /\ Fault
  /\ \E s \in States : source' = [source EXCEPT !.outside = @ + 1, !.state = s]
  /\ WorldFrame /\ UNCHANGED <<legacyVars, receipt, config, target, selection, at, owner>>

(* Docker brings back what its restart policy says. *)
Reboot ==
  /\ Fault
  /\ boot' = boot + 1 /\ host' = "down" /\ container' = IF restart THEN "up" ELSE "down"
  /\ at' = [p \in Procs |-> "idle"] /\ owner' = None
  /\ WorldFrame /\ UNCHANGED <<source, restart, gen, audit, receipt, config, target, selection>>

(* An aborted migration may be given up for a while: the operator starts    *)
(* the legacy service again, stops it, or audits it anew.  After a          *)
(* selection this would be the rollback that nothing authorizes.            *)
LegacyStarts ==
  /\ NobodyRuns /\ selection = NoSelection /\ host = "down" /\ Fault
  /\ host' = "up" /\ container' = "up" /\ restart' = TRUE /\ gen' = gen + 1
  /\ WorldFrame /\ UNCHANGED <<source, boot, audit, receipt, config, target, selection, at, owner>>

LegacyStops ==
  /\ NobodyRuns /\ host = "up"
  /\ host' = "down" /\ container' = "down" /\ restart' \in BOOLEAN
  /\ WorldFrame
  /\ UNCHANGED <<source, gen, boot, audit, receipt, config, target, selection, at, owner, faults>>

(* capture_deployment, with a new receipt file *)
Audit ==
  /\ NobodyRuns /\ host = "up"
  /\ audit' = gen /\ receipt' = NoReceipt
  /\ WorldFrame
  /\ UNCHANGED <<source, host, container, restart, gen, boot, config, target, selection, at, owner,
                 faults>>

EditConfig ==
  /\ Fault
  /\ \E k \in Configs \ {config} : config' = k
  /\ WorldFrame /\ UNCHANGED <<source, legacyVars, receipt, target, selection, at, owner>>

(* The target is removed, or another directory takes its place. *)
TouchTarget ==
  /\ NobodyRuns /\ target.state # "absent" /\ Fault
  /\ target' \in {NoTarget, [target EXCEPT !.id = @ + 1]}
  /\ WorldFrame /\ UNCHANGED <<source, legacyVars, receipt, config, selection, at, owner>>

-----------------------------------------------------------------------------
(* Steps of a run.  One that fails gives up its lock and touches nothing.   *)
Goto(p, step) == at' = [at EXCEPT ![p] = step] /\ UNCHANGED owner

Fail(p) ==
  /\ at' = [at EXCEPT ![p] = "idle"]
  /\ owner' = IF owner = p THEN None ELSE owner

StepFrame == UNCHANGED <<format, source, gen, boot, audit, config>>
TreeFrame == StepFrame /\ UNCHANGED <<host, container, restart, receipt, cfg>>
OnlyMoves == TreeFrame /\ UNCHANGED <<treeVars, faults>>

(* A crash, an error the validations raise, or the end of a served process  *)
Ends(p) ==
  /\ at[p] # "idle"
  /\ \/ Fault
     \/ at[p] \in {"serving", "serving source"} /\ UNCHANGED faults
  /\ Fail(p)
  /\ TreeFrame /\ UNCHANGED treeVars

(* ManagedStartup: the configuration is read once, and everything that can  *)
(* be validated without touching the deployment is.                         *)
Configure(p) ==
  /\ at[p] = "idle"
  /\ cfg' = [cfg EXCEPT ![p] = config]
  /\ Goto(p, "configured")
  /\ StepFrame /\ UNCHANGED <<host, container, restart, receipt, treeVars, faults>>

(* State of the new format is served as it is, unless a record exists. *)
Precheck(p) ==
  /\ at[p] = "configured"
  /\ Goto(p, IF selection = NoSelection /\ format = "current" THEN "serve source" ELSE "lock")
  /\ OnlyMoves

(* WorkspaceOwnership of the source: the coordinator's, or the application's *)
Acquire(p) ==
  /\ at[p] \in {"serve source", "lock"}
  /\ IF owner # None THEN Fail(p)
     ELSE /\ owner' = p
          /\ at' = [at EXCEPT ![p] = IF @ = "lock" THEN "owned" ELSE "serving source"]
  /\ OnlyMoves

(* _report: the evidence in the target belongs to this configuration. *)
ReportMatches(k) == target.evidence /\ target.config = k

(* load_selection: directory, configuration and format are the recorded     *)
(* ones; the contents may have changed since.                               *)
Loads(k) ==
  /\ target.state = "complete" /\ ReportMatches(k)
  /\ selection = [id |-> target.id, config |-> k]

LoadFirst(p) ==
  /\ at[p] = "owned"
  /\ IF selection = NoSelection \/ Loads(cfg[p]) THEN Goto(p, "quiesce") ELSE Fail(p)
  /\ OnlyMoves

(* _check_stopped *)
Stopped == host = "down" /\ container = "down" /\ ~restart

(* A receipt stands for a shutdown of this deployment since the last boot;  *)
(* without one the audited identities are stopped.                          *)
Quiesce(p) ==
  /\ at[p] = "quiesce"
  /\ IF receipt # NoReceipt
     THEN IF receipt = [audit |-> audit, boot |-> boot] /\ Stopped THEN Goto(p, "quiet") ELSE Fail(p)
     ELSE IF host = "up" /\ gen # audit THEN Fail(p) ELSE Goto(p, "stop host")
  /\ OnlyMoves

StopHost(p) ==
  /\ at[p] = "stop host" /\ host' = "down" /\ Goto(p, "disable restart")
  /\ StepFrame /\ UNCHANGED <<container, restart, receipt, cfg, treeVars, faults>>

(* A container's restart policy goes before the container does. *)
DisableRestart(p) ==
  /\ at[p] = "disable restart" /\ restart' = FALSE /\ Goto(p, "stop containers")
  /\ StepFrame /\ UNCHANGED <<host, container, receipt, cfg, treeVars, faults>>

StopContainers(p) ==
  /\ at[p] = "stop containers" /\ container' = "down" /\ Goto(p, "publish receipt")
  /\ StepFrame /\ UNCHANGED <<host, restart, receipt, cfg, treeVars, faults>>

PublishReceipt(p) ==
  /\ at[p] = "publish receipt"
  /\ IF Stopped /\ receipt = NoReceipt
     THEN receipt' = [audit |-> audit, boot |-> boot] /\ Goto(p, "quiet")
     ELSE Fail(p) /\ UNCHANGED receipt
  /\ StepFrame /\ UNCHANGED <<host, container, restart, cfg, treeVars, faults>>

(* The source is still legacy state.  A target that exists is not made      *)
(* again: only its evidence can tell whether it may be used.                *)
Decide(p) ==
  /\ at[p] = "quiet"
  /\ IF format # "legacy" \/ (selection # NoSelection /\ ~Loads(cfg[p])) THEN Fail(p)
     ELSE Goto(p, IF selection = NoSelection /\ target.state = "absent" THEN "preflight" ELSE "evidence")
  /\ OnlyMoves

-----------------------------------------------------------------------------
(* migrate_workspaces.  Everything is assembled in a private directory and  *)
(* the source is inventoried before, during and after.  What cannot be      *)
(* converted is refused first.                                              *)
Preflight(p) ==
  /\ at[p] = "preflight"
  /\ IF Convertible(source.state, MapOf[cfg[p]]) THEN Goto(p, "copy") ELSE Fail(p)
  /\ snap' = source
  /\ TreeFrame /\ UNCHANGED <<target, staged, selection, checked, faults>>

Inventoried(moment) == source = moment

(* What copy_tree finds: one moment if nothing changed since, or a mixture *)
Copied == IF source = snap THEN snap ELSE Mixed

CopyTree(p) ==
  /\ at[p] = "copy"
  /\ IF Inventoried(snap) THEN Goto(p, "assemble") ELSE Fail(p)
  /\ staged' = Copied
  /\ TreeFrame /\ UNCHANGED <<target, selection, snap, checked, faults>>

(* Databases are converted, homes activated, the originals archived. *)
Assemble(p) ==
  /\ at[p] = "assemble"
  /\ IF Inventoried(snap) THEN Goto(p, "publish") ELSE Fail(p)
  /\ TreeFrame /\ UNCHANGED <<treeVars, faults>>

(* The tree appears entry by entry, its evidence somewhere on the way. *)
PublishBegins(p) ==
  /\ at[p] = "publish"
  /\ IF target.state # "absent" THEN Fail(p) /\ UNCHANGED target
     ELSE /\ target' = [NoTarget EXCEPT !.state = "partial", !.id = 1, !.base = staged,
                                        !.config = cfg[p]]
          /\ Goto(p, "publishing")
  /\ TreeFrame /\ UNCHANGED <<staged, selection, snap, checked, faults>>

PublishMoves(p) ==
  /\ at[p] = "publishing"
  /\ \/ ~target.evidence /\ target' = [target EXCEPT !.evidence = TRUE] /\ Goto(p, "publishing")
        /\ UNCHANGED faults
     \/ target.evidence /\ target' = [target EXCEPT !.state = "complete"] /\ Goto(p, "evidence")
        /\ UNCHANGED faults
     \/ Fault /\ target' = NoTarget /\ Fail(p)      \* what this run made is removed again
  /\ TreeFrame /\ UNCHANGED <<staged, selection, snap, checked>>

Evidence(p) ==
  /\ at[p] = "evidence"
  /\ IF ReportMatches(cfg[p]) THEN Goto(p, IF selection = NoSelection THEN "select" ELSE "selected") ELSE Fail(p)
  /\ OnlyMoves

AnySource == TRUE

(* publish_selection compares the source with what was copied. *)
SameSource == Inventoried(target.base)

Untouched == target.state = "complete" /\ target.own = 0

Check(p) ==
  /\ at[p] = "select"
  /\ IF ReportMatches(cfg[p]) /\ SameSource /\ Untouched
     THEN Goto(p, "link") /\ checked' = source
     ELSE Fail(p) /\ UNCHANGED checked
  /\ TreeFrame /\ UNCHANGED <<target, staged, selection, snap, faults>>

(* The record appears whole, and never replaces another. *)
Link(p) ==
  /\ at[p] = "link"
  /\ IF selection # NoSelection THEN Fail(p) /\ UNCHANGED selection
     ELSE selection' = [id |-> target.id, config |-> cfg[p]] /\ Goto(p, "selected")
  /\ TreeFrame /\ UNCHANGED <<target, staged, snap, checked, faults>>

(* The runtime configuration may have been edited during a long copy. *)
Validate(p) ==
  /\ at[p] = "selected"
  /\ IF config = cfg[p] THEN Goto(p, "serving") ELSE Fail(p)
  /\ OnlyMoves

Serves(p) ==
  /\ at[p] = "serving" /\ target.own < MaxWrites
  /\ target' = [target EXCEPT !.own = @ + 1]
  /\ UNCHANGED <<at, owner>> /\ TreeFrame /\ UNCHANGED <<staged, selection, snap, checked, faults>>

(* selected_root, for the Analyzer, which never migrates *)
selected_root(k) ==
  IF selection # NoSelection THEN IF Loads(k) THEN "target" ELSE "refused"
  ELSE IF format = "current" THEN "source" ELSE "refused"

World ==
  \/ LegacyWrites \/ OutsideWrites \/ Reboot \/ LegacyStarts \/ LegacyStops \/ Audit
  \/ EditConfig \/ TouchTarget

Startup(p) ==
  \/ Configure(p) \/ Precheck(p) \/ Acquire(p) \/ LoadFirst(p) \/ Quiesce(p) \/ StopHost(p)
  \/ DisableRestart(p) \/ StopContainers(p) \/ PublishReceipt(p) \/ Decide(p) \/ Preflight(p)
  \/ CopyTree(p) \/ Assemble(p) \/ PublishBegins(p) \/ PublishMoves(p) \/ Evidence(p) \/ Check(p)
  \/ Link(p) \/ Validate(p) \/ Serves(p) \/ Ends(p)

Next == World \/ \E p \in Procs : Startup(p)

Spec == Init /\ [][Next]_migrationVars

-----------------------------------------------------------------------------
(* The legacy state is given up only for a whole copy of it: what is served *)
(* as the target is the selected directory, complete, made with the         *)
(* recorded configuration, with every write the legacy service ever made    *)
(* and every write of an outsider before the last check.                    *)
ServesWholeCopy ==
  \A p \in Procs : at[p] = "serving" =>
    /\ owner = p
    /\ selection = [id |-> target.id, config |-> cfg[p]]
    /\ target.state = "complete"
    /\ target.base.legacy = source.legacy /\ target.base.outside = checked.outside

(* Once a target was selected nobody serves or reads the source again, and  *)
(* whatever the Analyzer is given is complete; a root has one server.       *)
NoWayBack ==
  /\ \A p \in Procs : at[p] = "serving source" => selection = NoSelection /\ owner = p
  /\ selection # NoSelection =>
       \A k \in Configs : /\ selected_root(k) # "source"
                          /\ selected_root(k) = "target" => target.state = "complete"
  /\ selection # NoSelection /\ target.id = selection.id => target.base.legacy = source.legacy

(* A managed startup never loses state: "Never compare the live target with *)
(* its initial inventory or fall back to the old state on failure".         *)
NothingLost == ServesWholeCopy /\ NoWayBack

(* The homes that the conversion made in the target *)
TargetHomes == Homes(target.base.state, MapOf[target.config])

(* A selection is final, so that from then on every session that the new    *)
(* service offers, with the recorded configuration, must find in the        *)
(* selected target the history it had when the source was last checked.     *)
SelectedKeepsHistory ==
  selection # NoSelection /\ target.id = selection.id =>
    HistoryKept(checked.state, MapOf[selection.config], TargetHomes)
=============================================================================
