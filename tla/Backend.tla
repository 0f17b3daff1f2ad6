------------------------------- MODULE Backend -------------------------------
(***************************************************************************)
(* The life of the backend process around its turn service: ownership of   *)
(* the state root (storage/ownership.py), startup recovery                 *)
(* (services/recovery.py), the shutdown order of application.py and        *)
(* main.py, and a crash at any point.                                      *)
(*                                                                         *)
(* What outlives the process is the tables, the managed context files and  *)
(* the agents: provider processes inside a conversation's container, or    *)
(* process groups on the host.                                             *)
(*                                                                         *)
(* An agent can also outlive its own call, in a process that runs on: the  *)
(* stop raises (RemoteInvocation.stop, HostInvocation.stop), or the docker *)
(* client exits before the agent does (adapter.py).  The turn is settled   *)
(* and the lock is free while such a stray works on.  Module Runtime shows *)
(* how that comes about; here it is a choice of every call.                *)
(***************************************************************************)
EXTENDS TurnService

CONSTANTS
  Managed,       \* workspaces whose conversations run in containers, not on the host
  MaxCrashes     \* bound on the crashes of a behaviour

ASSUME BackendAssumption == Managed \subseteq Workspaces /\ MaxCrashes \in Nat

VARIABLES
  phase,      \* "down", "recovering" or "ready"; not down: holds the flock
  agent,      \* turns whose agent may be alive: it is in a call, or was at a crash
  stray,      \* turns with an agent that may be alive and has outlived its call
  context,    \* conversations with a published managed context file
  pending,    \* recover's snapshot of the running rows, still to interrupt
  released,   \* the turn of pending whose runtime is released
  crashes

recoveryVars == <<pending, released>>
agentVars == <<agent, stray>>
backendVars == <<vars, phase, agentVars, context, recoveryVars, crashes>>

BackendTypeOK ==
  /\ phase \in {"down", "recovering", "ready"}
  /\ agent \subseteq Turns
  /\ stray \subseteq Turns
  /\ context \subseteq Conversations
  /\ pending \subseteq Turns
  /\ released \in Turns \cup {None}
  /\ crashes \in 0 .. MaxCrashes

BackendInit ==
  /\ Init
  /\ phase = "down"
  /\ agent = {}
  /\ stray = {}
  /\ context = {}
  /\ pending = {}
  /\ released = None
  /\ crashes = 0

(* A call of the driver publishes the context and starts an agent after    *)
(* its role_start.  When the generator is closed, driver.run's finally     *)
(* clause has removed the context, and the agent has been stopped or has   *)
(* become a stray.  The cleanup of a deleted conversation releases its     *)
(* runtime, which ends all that runs in its container but finds on the     *)
(* host no more than the records that calls have left, and removes its     *)
(* files.                                                                  *)
InCall(t) == pc[t] \in {"driving", "stopping"} /\ role[t] # NoRole
InContainer(t) == Workspace(t) \in Managed

ServiceStep ==
  LET called == {t \in Turns : InCall(t)}
      started == {t \in Turns : InCall(t)'}
      dropped == {c \in Conversations : conversation[c] # conversation'[c]
                                        /\ conversation'[c] = "deleted"}
      freed == {t \in stray : owner[t] \in dropped /\ InContainer(t)}
  IN
  /\ phase = "ready"
  /\ Next
  /\ agent' = (agent \ called) \cup started
  /\ \E outlived \in SUBSET called : stray' = (stray \ freed) \cup outlived
  /\ context' = ((context \ {owner[t] : t \in called}) \cup {owner[t] : t \in started}) \ dropped
  /\ UNCHANGED <<phase, recoveryVars, crashes>>

(* Nothing waits for a stray; it ends by itself, or works on *)
StrayEnds(t) ==
  /\ t \in stray
  /\ stray' = stray \ {t}
  /\ UNCHANGED <<vars, phase, agent, context, recoveryVars, crashes>>

(* The process is gone: tasks, handles, locks and tokens with it, and the  *)
(* kernel releases the flock.                                              *)
ProcessEnds ==
  /\ phase' = "down"
  /\ pc' = [t \in Turns |-> "idle"]
  /\ cancel' = [t \in Turns |-> "none"]
  /\ cancelRole' = [t \in Turns |-> NoRole]
  /\ role' = [t \in Turns |-> NoRole]
  /\ ready' = [t \in Turns |-> TRUE]
  /\ fate' = [t \in Turns |-> "none"]
  /\ wrong' = [t \in Turns |-> {}]
  /\ timer' = [t \in Turns |-> FALSE]
  /\ error' = [t \in Turns |-> FALSE]
  /\ service' = "open"
  /\ active' = [c \in Conversations |-> None]
  /\ holder' = [w \in Workspaces |-> None]
  /\ deletion' = [c \in Conversations |-> "none"]
  /\ awaited' = [c \in Conversations |-> None]
  /\ pending' = {}
  /\ released' = None
  /\ UNCHANGED <<durable, agentVars, context>>

Crash ==
  /\ phase # "down"
  /\ crashes < MaxCrashes
  /\ crashes' = crashes + 1
  /\ ProcessEnds

(* application.shutdown after evaluations.close: recovery.close releases   *)
(* the state root.                                                         *)
Shutdown ==
  /\ phase = "ready"
  /\ service = "closed"
  /\ ProcessEnds
  /\ UNCHANGED crashes

RecoverBeginStarted ==
  /\ phase = "down"
  /\ phase' = "recovering"
  /\ pending' = {t \in Turns : status[t] = "running" /\ events[t] # <<>>}
  /\ UNCHANGED <<vars, agentVars, context, released, crashes>>

(* recover: take the state root, then read every database *)
RecoverBegin ==
  /\ phase = "down"
  /\ phase' = "recovering"
  /\ pending' = {t \in Turns : status[t] = "running"}
  /\ UNCHANGED <<vars, agentVars, context, released, crashes>>

RecoverReleaseSkipped(t) ==
  /\ phase = "recovering"
  /\ released = None
  /\ t \in pending
  /\ released' = t
  /\ UNCHANGED <<vars, phase, agentVars, context, pending, crashes>>

(* revoke_turn and the awaited release of the conversation's runtime.  Its *)
(* container is gone with all that ran in it.  On the host the recorded    *)
(* process groups are killed; a group without a record, one whose leader   *)
(* is gone and one that cannot be killed stay.                             *)
RecoverRelease(t) ==
  LET here == {u \in Turns : owner[u] = owner[t]}
  IN
  /\ phase = "recovering"
  /\ released = None
  /\ t \in pending
  /\ released' = t
  /\ agent' = agent \ here
  /\ \E kept \in SUBSET {u \in here \cap (agent \cup stray) : ~InContainer(u)} :
       stray' = (stray \ here) \cup kept
  /\ UNCHANGED <<vars, phase, context, pending, crashes>>

(* ManagedContext.remove *)
KeepContext(c) == UNCHANGED context
RemoveContext(c) == context' = context \ {c}

(* Turns.interrupt *)
InterruptSilently(t) ==
  /\ status' = [status EXCEPT ![t] = "interrupted"]
  /\ UNCHANGED answers

Interrupt(t) ==
  /\ status[t] = "running"
  /\ status' = [status EXCEPT ![t] = "interrupted"]
  /\ answers' = [answers EXCEPT ![t] = @ + 1]

(* The context is removed and the row interrupted without an await between *)
(* the two.                                                                *)
RecoverInterrupt(t) ==
  /\ phase = "recovering"
  /\ released = t
  /\ released' = None
  /\ pending' = pending \ {t}
  /\ RemoveContext(owner[t])
  /\ Interrupt(t)
  /\ UNCHANGED <<conversation, mode, interruptedRole, owner, events, handleVars, serviceVars,
                 phase, agentVars, crashes>>

RecoverReadyEarly ==
  /\ phase = "recovering"
  /\ phase' = "ready"
  /\ UNCHANGED <<vars, agentVars, context, recoveryVars, crashes>>

(* Requests are served from here on *)
RecoverReady ==
  /\ phase = "recovering"
  /\ pending = {}
  /\ phase' = "ready"
  /\ UNCHANGED <<vars, agentVars, context, recoveryVars, crashes>>

RecoverStep ==
  \/ RecoverBegin \/ RecoverReady
  \/ \E t \in Turns : RecoverRelease(t) \/ RecoverInterrupt(t)

BackendNext ==
  \/ ServiceStep \/ Crash \/ Shutdown \/ RecoverStep
  \/ \E t \in Turns : StrayEnds(t)

BackendSpec == BackendInit /\ [][BackendNext]_backendVars

-----------------------------------------------------------------------------
OneAgentPerWorkspace ==
  \A t, u \in agent : WorkspaceOf[owner[t]] = WorkspaceOf[owner[u]] => t = u

RowsOfAgentsRun == \A t \in agent : status[t] = "running"

ContainersReleased ==
  \A t \in agent \cup stray : InContainer(t) => status[t] \notin {"interrupted", "deleted"}

(* Of the agents that are still in their call, or were in it when the      *)
(* process died, no two are in one workspace, and the next recovery finds  *)
(* each of them by its running row, however often recovery itself dies.    *)
(* An agent that outlived its call is found by its conversation only: once *)
(* a turn is interrupted or deleted, nothing of it runs in a container any *)
(* more ("Restart recovery interrupts unfinished turns, removes their      *)
(* owned containers").  On the host such an agent may run on.              *)
AgentsAccountedFor == OneAgentPerWorkspace /\ RowsOfAgentsRun /\ ContainersReleased

(* A context file, which holds a capability token, is published only for a *)
(* conversation with an unfinished turn.                                   *)
ContextOfUnfinishedTurn ==
  \A c \in context : \E t \in Turns : owner[t] = c /\ status[t] = "running"

(* While requests are served, an unfinished turn has its task or failed to *)
(* be finalized by this very process, and an agent is in a call of such a  *)
(* task.  Nothing else is left over from a crash in a container; what is   *)
(* left there beside the calls outlived a call of a turn that has ended,   *)
(* or is still running, by itself.                                         *)
NothingLeftOver ==
  phase = "ready" =>
    /\ HandlesMatchRows
    /\ agent = {t \in Turns : InCall(t)}
    /\ \A t \in stray : InContainer(t) =>
         status[t] \in {"complete", "failed"} \/ pc[t] \in Live \/ error[t]

(* The tables keep to the ledger across crashes and recovery. *)
LedgerAcrossCrashes == Ledger!Spec

(* The supervisor restarts the process and every release returns. *)
RecoveryFairness ==
  /\ WF_backendVars(RecoverBegin)
  /\ WF_backendVars(RecoverReady)
  /\ \A t \in Turns : WF_backendVars(RecoverRelease(t)) /\ WF_backendVars(RecoverInterrupt(t))

FairBackendSpec == BackendSpec /\ RecoveryFairness

(* A turn that was unfinished when the process died is settled by the next *)
(* start, and the backend serves again.                                    *)
CrashedTurnSettled ==
  \A t \in Turns : (phase = "down" /\ status[t] = "running") ~> (status[t] # "running")
=============================================================================
