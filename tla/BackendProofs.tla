----------------------------- MODULE BackendProofs -----------------------------
(* Theorems about Backend, for any number of workspaces, conversations,    *)
(* turns and crashes.  While requests are served the invariant of the turn *)
(* service holds and the agents are those of the calls under way, beside   *)
(* the strays.  In any other phase the process has no task, and what the   *)
(* tables say is all that is known of the agents and contexts that were    *)
(* left behind.                                                            *)
(* The second part is about EventStream, which composes the same turns     *)
(* with the readers of their events.                                       *)
EXTENDS Backend, EventStream, TurnServiceProofs, SequenceTheorems

Calls == {t \in Turns : InCall(t)}

(* What outlives the process is what the calls under way have started. *)
CallsOwnResources == agent = Calls /\ context = {owner[t] : t \in Calls}

AgentsLeft == OneAgentPerWorkspace /\ RowsOfAgentsRun

(* A stray is of a turn that was started.  In a container it is gone when  *)
(* the turn is interrupted or deleted, for that takes a release.           *)
StraysReleased ==
  \A t \in stray :
    /\ status[t] # "unused"
    /\ InContainer(t) => status[t] \notin {"interrupted", "deleted"}

(* Recovery has every unfinished row ahead of it, and the conversation it  *)
(* is at is rid of its agents, also of its strays if it has a container.   *)
RecoveryCovers ==
  /\ phase = "recovering" => \A t \in Turns : status[t] = "running" => t \in pending
  /\ released # None =>
       /\ phase = "recovering"
       /\ released \in pending
       /\ \A u \in agent : owner[u] # owner[released]
       /\ \A u \in stray : InContainer(u) => owner[u] # owner[released]

(* OneAgentPerWorkspace alone is not inductive: that a second agent cannot *)
(* start in the workspace of one that was left behind follows from the     *)
(* rows recovery still has ahead of it and from the empty service it       *)
(* begins with.                                                            *)
BackendInv ==
  /\ TypeOK /\ BackendTypeOK
  /\ RowsConsistent /\ OneRunningTurn
  /\ phase = "ready" => Consistent /\ CallsOwnResources
  /\ phase # "ready" => Idle /\ AgentsLeft /\ ContextOfUnfinishedTurn
  /\ StraysReleased
  /\ RecoveryCovers

-----------------------------------------------------------------------------
(* Facts about one state *)

(* A service without a task has consistent handles, locks and deletions,   *)
(* and agrees with the tables unless they hold an unfinished row.          *)
LEMMA IdleConsistent ==
  ASSUME Idle, ConstantsAssumption
  PROVE  /\ ActiveConsistent /\ LockConsistent /\ DeletionConsistent /\ ClosedConsistent
         /\ (\A t \in Turns : status[t] # "running") => HandlesMatchRows
         /\ Calls = {}
<1> USE DEF Idle
<1>1. ActiveConsistent /\ DeletionConsistent /\ ClosedConsistent
  BY DEF ActiveConsistent, DeletionConsistent, ClosedConsistent
<1>2. LockConsistent
  BY DEF LockConsistent, Executing, ConstantsAssumption
<1>3. (\A t \in Turns : status[t] # "running") => HandlesMatchRows
  BY DEF HandlesMatchRows, Live, Executing
<1>4. Calls = {}
  BY DEF Calls, InCall
<1>5. QED
  BY <1>1, <1>2, <1>3, <1>4

LEMMA IdleType ==
  ASSUME Idle
  PROVE  StopsTypeOK /\ TasksTypeOK /\ ServiceTypeOK
BY DEF Idle, StopsTypeOK, TasksTypeOK, ServiceTypeOK, Fates

(* A turn with a call under way is unfinished and holds its workspace. *)
LEMMA CallIsRunning ==
  ASSUME TypeOK, Consistent, NEW t \in Calls
  PROVE  /\ t \in Turns /\ pc[t] \in Executing /\ status[t] = "running"
         /\ owner[t] \in Conversations /\ conversation[owner[t]] = "present"
<1>1. t \in Turns /\ pc[t] \in Executing /\ pc[t] \in Live
  BY DEF Calls, InCall, Executing, Live
<1>2. QED
  BY <1>1, LiveOwner

(* While requests are served, resources follow the rows. *)
LEMMA ResourcesFollowRows ==
  ASSUME TypeOK, Consistent, CallsOwnResources, ConstantsAssumption
  PROVE  /\ agent \subseteq Turns /\ context \subseteq Conversations
         /\ AgentsLeft /\ ContextOfUnfinishedTurn
<1>1. agent \subseteq Turns /\ context \subseteq Conversations /\ RowsOfAgentsRun
  BY CallIsRunning DEF CallsOwnResources, RowsOfAgentsRun
<1>2. OneAgentPerWorkspace
  <2>1. ASSUME NEW t \in Calls, NEW u \in Calls, WorkspaceOf[owner[t]] = WorkspaceOf[owner[u]]
        PROVE  t = u
    <3>1. /\ t \in Turns /\ pc[t] \in Executing /\ owner[t] \in Conversations
          /\ u \in Turns /\ pc[u] \in Executing
      BY CallIsRunning
    <3>2. Workspace(t) \in Workspaces /\ Workspace(t) = Workspace(u)
      BY <2>1, <3>1 DEF Workspace, ConstantsAssumption
    <3>3. holder[Workspace(t)] = t /\ holder[Workspace(t)] = u
      BY <3>1, <3>2 DEF Consistent, LockConsistent
    <3>4. QED
      BY <3>3
  <2>2. QED
    BY <2>1 DEF CallsOwnResources, OneAgentPerWorkspace
<1>3. ContextOfUnfinishedTurn
  BY CallIsRunning DEF CallsOwnResources, ContextOfUnfinishedTurn
<1>4. QED
  BY <1>1, <1>2, <1>3 DEF AgentsLeft

-----------------------------------------------------------------------------
(* The steps of the service *)

(* A turn in a call keeps the conversation it was started in. *)
LEMMA CallKeepsOwner ==
  ASSUME TypeOK, Next, NEW t \in Turns, InCall(t)'
  PROVE  owner'[t] = owner[t]
<1>1. ASSUME NEW c \in Conversations, NEW u \in Turns, NEW m \in Modes,
             NEW r \in Roles \cup {NoRole, None}, Start(c, u, m, r)
      PROVE  owner'[t] = owner[t]
  <2>1. pc'[u] = "created"
    BY <1>1 DEF Start, TypeOK, TasksTypeOK
  <2>2. t # u
    BY <2>1 DEF InCall
  <2>3. QED
    BY <1>1, <2>2 DEF Start, TypeOK, RowsTypeOK
<1>2. CASE \/ \E c \in Conversations, m \in Modes : CreateConversation(c, m)
           \/ \E c \in Conversations, u \in Turns : Cancel(c, u)
           \/ \E c \in Conversations : DeleteRequest(c)
           \/ Close \/ Closed
  BY <1>2 DEF CreateConversation, Cancel, DeleteRequest, Close, Closed, durable
<1>3. ASSUME NEW u \in Turns, TurnStep(u)
      PROVE  owner'[t] = owner[t]
  BY <1>3 DEF TurnStep, Begin, Acquire, OtherEvent, RoleReady, RoleStart, DriverResult,
     DriverRaises, DriverClosed, CallbackRaises, CleanupDone, DeliverCancel, ForceCancel,
     RecordFrame, Leave, EnterCleanup, Finalize, durable
<1>4. ASSUME NEW c \in Conversations, DeletionStep(c)
      PROVE  owner'[t] = owner[t]
  BY <1>4 DEF DeletionStep, RemoveBegin, RemoveWaited, RemoveAcquires, RemoveDone, durable
<1>5. QED
  BY <1>1, <1>2, <1>3, <1>4 DEF Next, Request

(* What a service step does to the row of a turn that was started *)
LEMMA RowKept ==
  ASSUME TypeOK, Next, NEW t \in Turns, status[t] # "unused"
  PROVE  /\ owner'[t] = owner[t]
         /\ \/ status'[t] \in {status[t], "complete", "failed"}
            \/ \E c \in Conversations : RemoveDone(c)
<1> DEFINE Kept == status'[t] \in {status[t], "complete", "failed"}
<1>1. ASSUME NEW c \in Conversations, NEW u \in Turns, NEW m \in Modes,
             NEW r \in Roles \cup {NoRole, None}, Start(c, u, m, r)
      PROVE  owner'[t] = owner[t] /\ Kept
  <2>1. t # u
    BY <1>1 DEF Start
  <2>2. QED
    BY <1>1, <2>1 DEF Start, TypeOK, RowsTypeOK
<1>2. CASE \/ \E c \in Conversations, m \in Modes : CreateConversation(c, m)
           \/ \E c \in Conversations, u \in Turns : Cancel(c, u)
           \/ \E c \in Conversations : DeleteRequest(c)
           \/ Close \/ Closed
  BY <1>2 DEF CreateConversation, Cancel, DeleteRequest, Close, Closed, durable
<1>3. ASSUME NEW u \in Turns, TurnStep(u)
      PROVE  owner'[t] = owner[t] /\ Kept
  <2>1. ASSUME NEW f, Finalize(u, f)
        PROVE  owner'[t] = owner[t] /\ Kept
    BY <2>1 DEF Finalize, Finish, FinishRaises, TypeOK, RowsTypeOK
  <2>2. ASSUME NEW f, Leave(u, f)
        PROVE  owner'[t] = owner[t] /\ Kept
    BY <2>1, <2>2 DEF Leave, EnterCleanup, durable
  <2>3. CASE Begin(u) \/ CleanupDone(u) \/ DeliverCancel(u)
    BY <2>1, <2>3 DEF Begin, CleanupDone, DeliverCancel, durable
  <2>4. CASE DriverRaises(u) \/ DriverClosed(u)
    BY <2>2, <2>4 DEF DriverRaises, DriverClosed
  <2>5. CASE \/ Acquire(u) \/ OtherEvent(u) \/ RoleReady(u) \/ CallbackRaises(u) \/ ForceCancel(u)
             \/ \E r \in Roles : RoleStart(u, r)
             \/ \E f \in {"answer", "reply", "failed"} : DriverResult(u, f)
    BY <2>5 DEF Acquire, OtherEvent, RoleReady, CallbackRaises, ForceCancel, RoleStart,
                DriverResult, RecordFrame, durable
  <2>6. QED
    BY <1>3, <2>3, <2>4, <2>5 DEF TurnStep
<1>4. ASSUME NEW c \in Conversations, RemoveBegin(c) \/ RemoveWaited(c) \/ RemoveAcquires(c)
      PROVE  owner'[t] = owner[t] /\ Kept
  BY <1>4 DEF RemoveBegin, RemoveWaited, RemoveAcquires, durable
<1>5. ASSUME NEW c \in Conversations, RemoveDone(c)
      PROVE  owner'[t] = owner[t]
  BY <1>5 DEF RemoveDone
<1>6. QED
  BY <1>1, <1>2, <1>3, <1>4, <1>5 DEF Next, Request, DeletionStep

LEMMA StartedRow ==
  ASSUME TypeOK, Consistent, Next, NEW t \in Turns, status[t] # "unused"
  PROVE  /\ owner'[t] = owner[t]
         /\ \/ status'[t] \in {status[t], "complete", "failed"}
            \/ /\ status'[t] = "deleted" /\ conversation'[owner[t]] = "deleted"
               /\ owner[t] \in Conversations /\ conversation[owner[t]] = "present"
<1>1. ASSUME NEW c \in Conversations, RemoveDone(c)
      PROVE  \/ status'[t] = status[t]
             \/ /\ status'[t] = "deleted" /\ conversation'[owner[t]] = "deleted"
                /\ owner[t] \in Conversations /\ conversation[owner[t]] = "present"
  <2>1. conversation[c] = "present"
    BY <1>1 DEF RemoveDone, Consistent, DeletionConsistent
  <2>2. QED
    BY <1>1, <2>1 DEF RemoveDone, TypeOK, RowsTypeOK
<1>2. QED
  BY <1>1, RowKept

(* The rows of a turn in a call are not deleted. *)
LEMMA DroppedIsIdle ==
  ASSUME TypeOK, Consistent, Next, NEW t \in Turns, status'[t] = "deleted",
         conversation[owner[t]] = "present"
  PROVE  t \notin Calls
<1>1. SUFFICES ASSUME t \in Calls PROVE FALSE
  OBVIOUS
<1>2. /\ pc[t] \in Live /\ status[t] = "running" /\ owner[t] \in Conversations
      /\ active[owner[t]] = t /\ t # None
  BY <1>1, CallIsRunning, ConstantsAssumption DEF Consistent, HandlesMatchRows, Live,
     ConstantsAssumption
<1>3. ASSUME NEW c \in Conversations, RemoveDone(c)
      PROVE  FALSE
  <2>1. deletion[c] = "cleanup" /\ active[c] = None
    BY <1>3 DEF RemoveDone, Consistent, DeletionConsistent
  <2>2. owner[t] # c
    BY <1>2, <2>1
  <2>3. QED
    BY <1>2, <1>3, <2>2 DEF RemoveDone, TypeOK, RowsTypeOK
<1>4. status'[t] # "deleted" \/ \E c \in Conversations : RemoveDone(c)
  BY <1>2, RowKept
<1>5. QED
  BY <1>3, <1>4

LEMMA ServiceStepStrays ==
  ASSUME BackendInv, ServiceStep
  PROVE  stray' \subseteq Turns /\ StraysReleased'
<1>1. TypeOK /\ Consistent /\ CallsOwnResources /\ StraysReleased /\ Next /\ stray \subseteq Turns
  BY DEF BackendInv, BackendTypeOK, ServiceStep
<1> DEFINE called == {t \in Turns : InCall(t)}
           dropped == {c \in Conversations : conversation[c] # conversation'[c]
                                             /\ conversation'[c] = "deleted"}
           freed == {t \in stray : owner[t] \in dropped /\ InContainer(t)}
<1>2. PICK outlived \in SUBSET called : stray' = (stray \ freed) \cup outlived
  BY DEF ServiceStep
<1>3. ASSUME NEW t \in stray'
      PROVE  /\ t \in Turns
             /\ status'[t] # "unused"
             /\ InContainer(t)' => status'[t] \notin {"interrupted", "deleted"}
  <2>1. t \in Turns /\ (t \in Calls \/ t \in stray)
    BY <1>1, <1>2 DEF Calls
  <2>2. /\ status[t] # "unused"
        /\ InContainer(t) => status[t] \notin {"interrupted", "deleted"}
    BY <1>1, <2>1, CallIsRunning DEF StraysReleased
  <2>3. /\ owner'[t] = owner[t]
        /\ \/ status'[t] \in {status[t], "complete", "failed"}
           \/ /\ status'[t] = "deleted" /\ conversation'[owner[t]] = "deleted"
              /\ owner[t] \in Conversations /\ conversation[owner[t]] = "present"
    BY <1>1, <2>1, <2>2, StartedRow
  <2>4. InContainer(t)' = InContainer(t)
    BY <2>3 DEF InContainer, Workspace
  <2>5. CASE status'[t] \in {status[t], "complete", "failed"}
    BY <2>1, <2>2, <2>4, <2>5
  <2>6. CASE /\ status'[t] = "deleted" /\ conversation'[owner[t]] = "deleted"
             /\ owner[t] \in Conversations /\ conversation[owner[t]] = "present"
    <3>1. owner[t] \in dropped
      BY <2>6
    <3>2. t \notin Calls
      BY <1>1, <2>1, <2>6, DroppedIsIdle
    <3>3. ~InContainer(t)
      BY <1>2, <2>1, <3>1, <3>2 DEF Calls
    <3>4. QED
      BY <2>1, <2>4, <2>6, <3>3
  <2>7. QED
    BY <2>3, <2>5, <2>6
<1>4. QED
  BY <1>3 DEF StraysReleased

LEMMA ServiceStepResources ==
  ASSUME BackendInv, ConstantsAssumption, ServiceStep
  PROVE  /\ TypeOK' /\ Consistent' /\ CallsOwnResources'
         /\ agent' \subseteq Turns /\ context' \subseteq Conversations
<1>1. /\ TypeOK /\ Consistent /\ CallsOwnResources /\ Next
  BY DEF BackendInv, ServiceStep
<1>2. TypeOK' /\ Consistent'
  BY <1>1, NextType, NextConsistent
<1> DEFINE called == {t \in Turns : InCall(t)}
           started == {t \in Turns : InCall(t)'}
           dropped == {c \in Conversations : conversation[c] # conversation'[c]
                                             /\ conversation'[c] = "deleted"}
<1>3. /\ agent' = (agent \ called) \cup started
      /\ context' = ((context \ {owner[t] : t \in called}) \cup {owner[t] : t \in started}) \ dropped
  BY DEF ServiceStep
<1>4. started = Calls' /\ called = Calls
  BY DEF Calls
<1>5. ASSUME NEW t \in started
      PROVE  owner'[t] = owner[t] /\ owner[t] \notin dropped /\ owner'[t] \in Conversations
  <2>1. owner'[t] = owner[t]
    BY <1>1, CallKeepsOwner
  <2>2. /\ t \in Turns /\ status'[t] = "running"
    BY <1>2, <1>5 DEF Consistent, HandlesMatchRows, InCall, Live, Executing
  <2>3. owner'[t] # None /\ conversation'[owner'[t]] # "deleted"
    BY <1>2, <2>2 DEF Consistent, RowsConsistent
  <2>4. owner'[t] \in Conversations
    BY <1>2, <2>2, <2>3 DEF TypeOK, RowsTypeOK
  <2>5. QED
    BY <2>1, <2>3, <2>4
<1>6. agent' = Calls'
  BY <1>1, <1>3, <1>4 DEF CallsOwnResources
<1>7. context \ {owner[t] : t \in called} = {}
  BY <1>1, <1>4 DEF CallsOwnResources
<1>8. context' = {owner'[t] : t \in started}
  <2>1. context' = {owner[t] : t \in started} \ dropped
    BY <1>3, <1>7
  <2>2. QED
    BY <1>5, <2>1
<1>9. CallsOwnResources'
  BY <1>4, <1>6, <1>8 DEF CallsOwnResources
<1>10. agent' \subseteq Turns /\ context' \subseteq Conversations
  BY <1>4, <1>5, <1>6, <1>8
<1>11. QED
  BY <1>2, <1>9, <1>10

LEMMA ServiceStepInv ==
  ASSUME BackendInv, ConstantsAssumption, ServiceStep
  PROVE  BackendInv'
<1>1. /\ TypeOK' /\ Consistent' /\ CallsOwnResources' /\ StraysReleased'
      /\ agent' \subseteq Turns /\ stray' \subseteq Turns /\ context' \subseteq Conversations
  BY ServiceStepResources, ServiceStepStrays
<1>2. /\ phase = "ready" /\ UNCHANGED <<phase, pending, released, crashes>>
      /\ BackendTypeOK /\ released = None
  BY DEF ServiceStep, recoveryVars, BackendInv, RecoveryCovers
<1>3. BackendTypeOK' /\ RecoveryCovers'
  BY <1>1, <1>2 DEF BackendTypeOK, RecoveryCovers
<1>4. QED
  BY <1>1, <1>2, <1>3 DEF BackendInv, Consistent

-----------------------------------------------------------------------------
(* The end of the process, and recovery *)

(* The tables and what outlives the process are what they were; the        *)
(* service is gone.                                                        *)
LEMMA ProcessEndsInv ==
  ASSUME BackendInv, ConstantsAssumption, ProcessEnds, crashes' \in 0 .. MaxCrashes
  PROVE  BackendInv'
<1>1. /\ UNCHANGED <<durable, agent, stray, context>> /\ phase' = "down"
      /\ pending' = {} /\ released' = None
  BY DEF ProcessEnds, agentVars
<1>2. Idle'
  BY DEF ProcessEnds, Idle
<1>3. TypeOK'
  <2>1. RowsTypeOK'
    BY <1>1 DEF BackendInv, TypeOK, RowsTypeOK, durable
  <2>2. StopsTypeOK' /\ TasksTypeOK' /\ ServiceTypeOK'
    BY <1>2 DEF Idle, StopsTypeOK, TasksTypeOK, ServiceTypeOK, Fates
  <2>3. QED
    BY <2>1, <2>2 DEF TypeOK
<1>4. BackendTypeOK' /\ RecoveryCovers'
  BY <1>1 DEF BackendInv, BackendTypeOK, RecoveryCovers
<1>5. RowsConsistent' /\ OneRunningTurn'
  BY <1>1, <1>2 DEF BackendInv, RowsConsistent, OneRunningTurn, durable, Idle
<1>6. AgentsLeft /\ ContextOfUnfinishedTurn
  BY ResourcesFollowRows DEF BackendInv, BackendTypeOK
<1>7. AgentsLeft' /\ ContextOfUnfinishedTurn'
  BY <1>1, <1>6 DEF durable, AgentsLeft, OneAgentPerWorkspace, RowsOfAgentsRun,
                    ContextOfUnfinishedTurn
<1>8. StraysReleased'
  BY <1>1 DEF durable, BackendInv, StraysReleased, InContainer, Workspace
<1>9. QED
  BY <1>1, <1>2, <1>3, <1>4, <1>5, <1>7, <1>8 DEF BackendInv

(* Steps of recovery that leave the tables and the service alone *)
LEMMA SameService ==
  ASSUME BackendInv, UNCHANGED vars
  PROVE  /\ TypeOK' /\ RowsConsistent' /\ OneRunningTurn'
         /\ Idle => Idle'
         /\ Calls' = Calls
<1> USE DEF vars, durable, handleVars, stopVars, serviceVars
<1>1. TypeOK'
  BY DEF BackendInv, TypeOK, RowsTypeOK, StopsTypeOK, TasksTypeOK, ServiceTypeOK
<1>2. RowsConsistent' /\ OneRunningTurn'
  BY DEF BackendInv, RowsConsistent, OneRunningTurn
<1>3. (Idle => Idle') /\ Calls' = Calls
  BY DEF Idle, Calls, InCall
<1>4. QED
  BY <1>1, <1>2, <1>3

(* A stray that ends, and a step that changes nothing *)
LEMMA FewerStraysInv ==
  ASSUME BackendInv, UNCHANGED vars, stray' \subseteq stray,
         UNCHANGED <<phase, agent, context, pending, released, crashes>>
  PROVE  BackendInv'
<1>1. UNCHANGED <<status, owner>>
  BY DEF vars, durable
<1>2. phase = "ready" => Consistent' /\ CallsOwnResources'
  <2>1. UNCHANGED <<related, events>>
    BY DEF vars, related, durable, handleVars, stopVars, serviceVars
  <2>2. phase = "ready" => Calls' = Calls /\ {owner'[t] : t \in Calls'} = {owner[t] : t \in Calls}
    BY <1>1, SameService
  <2>3. QED
    BY <2>1, <2>2, UnrelatedStep DEF BackendInv, CallsOwnResources
<1>3. BackendTypeOK' /\ RecoveryCovers' /\ StraysReleased'
  BY <1>1 DEF BackendInv, BackendTypeOK, RecoveryCovers, StraysReleased, InContainer, Workspace
<1>4. phase # "ready" => AgentsLeft' /\ ContextOfUnfinishedTurn'
  BY <1>1 DEF BackendInv, AgentsLeft, OneAgentPerWorkspace, RowsOfAgentsRun,
              ContextOfUnfinishedTurn
<1>5. QED
  BY <1>2, <1>3, <1>4, SameService DEF BackendInv

LEMMA RecoverBeginInv ==
  ASSUME BackendInv, RecoverBegin
  PROVE  BackendInv'
<1>1. /\ UNCHANGED vars /\ UNCHANGED <<agent, stray, context, released, crashes>>
      /\ phase = "down" /\ phase' = "recovering"
      /\ pending' = {t \in Turns : status[t] = "running"}
      /\ status' = status /\ owner' = owner
  BY DEF RecoverBegin, agentVars, vars, durable
<1>2. BackendTypeOK' /\ RecoveryCovers' /\ StraysReleased'
  BY <1>1 DEF BackendInv, BackendTypeOK, RecoveryCovers, StraysReleased, InContainer, Workspace
<1>3. AgentsLeft' /\ ContextOfUnfinishedTurn'
  BY <1>1 DEF BackendInv, AgentsLeft, OneAgentPerWorkspace, RowsOfAgentsRun,
              ContextOfUnfinishedTurn
<1>4. QED
  BY <1>1, <1>2, <1>3, SameService DEF BackendInv

LEMMA RecoverReleaseInv ==
  ASSUME BackendInv, NEW t \in Turns, RecoverRelease(t)
  PROVE  BackendInv'
<1> DEFINE here == {u \in Turns : owner[u] = owner[t]}
<1>1. /\ UNCHANGED vars /\ UNCHANGED <<phase, context, pending, crashes>>
      /\ phase = "recovering" /\ t \in pending /\ released' = t
      /\ agent' = agent \ here
      /\ status' = status /\ owner' = owner
  BY DEF RecoverRelease, vars, durable
<1>2. PICK kept \in SUBSET {u \in here \cap (agent \cup stray) : ~InContainer(u)} :
        stray' = (stray \ here) \cup kept
  BY DEF RecoverRelease
<1>3. agent \subseteq Turns /\ stray \subseteq Turns /\ RowsOfAgentsRun
  BY <1>1 DEF BackendInv, BackendTypeOK, AgentsLeft
<1>4. \A u \in stray' : /\ u \in Turns /\ u \in agent \cup stray
                        /\ InContainer(u) => u \in stray /\ owner[u] # owner[t]
  BY <1>2, <1>3
<1>5. StraysReleased'
  <2>1. \A u \in Turns : InContainer(u)' = InContainer(u)
    BY <1>1 DEF InContainer, Workspace
  <2>2. \A u \in agent \cup stray : status[u] # "unused"
    BY <1>3 DEF BackendInv, StraysReleased, RowsOfAgentsRun
  <2>3. QED
    BY <1>1, <1>4, <2>1, <2>2 DEF BackendInv, StraysReleased
<1>6. BackendTypeOK' /\ RecoveryCovers'
  <2>1. \A u \in stray' : InContainer(u)' = InContainer(u)
    BY <1>1 DEF InContainer, Workspace
  <2>2. BackendTypeOK'
    BY <1>1, <1>4 DEF BackendInv, BackendTypeOK
  <2>3. RecoveryCovers'
    BY <1>1, <1>3, <1>4, <2>1 DEF BackendInv, RecoveryCovers
  <2>4. QED
    BY <2>2, <2>3
<1>7. AgentsLeft' /\ ContextOfUnfinishedTurn'
  BY <1>1 DEF BackendInv, AgentsLeft, OneAgentPerWorkspace, RowsOfAgentsRun,
              ContextOfUnfinishedTurn
<1>8. QED
  BY <1>1, <1>5, <1>6, <1>7, SameService DEF BackendInv

LEMMA RecoverInterruptInv ==
  ASSUME BackendInv, ConstantsAssumption, NEW t \in Turns, RecoverInterrupt(t)
  PROVE  BackendInv'
<1>1. /\ phase = "recovering" /\ released = t /\ released' = None /\ pending' = pending \ {t}
      /\ context' = context \ {owner[t]} /\ status[t] = "running"
      /\ status' = [status EXCEPT ![t] = "interrupted"]
      /\ answers' = [answers EXCEPT ![t] = @ + 1]
      /\ UNCHANGED <<conversation, mode, interruptedRole, owner, events, handleVars, serviceVars,
                     phase, agent, stray, crashes>>
  BY DEF RecoverInterrupt, RemoveContext, Interrupt, agentVars
<1>2. /\ \A u \in Turns : u # t => status'[u] = status[u]
      /\ status'[t] = "interrupted"
      /\ t # None
  BY <1>1 DEF BackendInv, TypeOK, RowsTypeOK, ConstantsAssumption
<1>3. TypeOK'
  <2>1. RowsTypeOK'
    BY <1>1 DEF BackendInv, TypeOK, RowsTypeOK, Statuses
  <2>2. QED
    BY <1>1, <2>1 DEF BackendInv, TypeOK, StopsTypeOK, TasksTypeOK, ServiceTypeOK,
                      handleVars, stopVars, serviceVars
<1>4. RowsConsistent' /\ OneRunningTurn'
  BY <1>1, <1>2 DEF BackendInv, RowsConsistent, OneRunningTurn, handleVars
<1>5. Idle'
  BY <1>1 DEF BackendInv, Idle, handleVars, stopVars, serviceVars
<1>6. BackendTypeOK' /\ RecoveryCovers'
  BY <1>1, <1>2 DEF BackendInv, BackendTypeOK, RecoveryCovers
<1>7. AgentsLeft'
  <2>1. t \notin agent /\ agent' = agent /\ agent \subseteq Turns
    BY <1>1, <1>2 DEF BackendInv, RecoveryCovers, BackendTypeOK
  <2>2. QED
    BY <1>1, <1>2, <2>1 DEF BackendInv, AgentsLeft, OneAgentPerWorkspace, RowsOfAgentsRun
<1>8. ContextOfUnfinishedTurn'
  BY <1>1, <1>2 DEF BackendInv, ContextOfUnfinishedTurn
<1>9. StraysReleased'
  <2>1. \A u \in stray : InContainer(u)' = InContainer(u) /\ (InContainer(u) => u # t)
    BY <1>1, <1>2 DEF BackendInv, RecoveryCovers, InContainer, Workspace
  <2>2. stray \subseteq Turns
    BY DEF BackendInv, BackendTypeOK
  <2>3. QED
    BY <1>1, <1>2, <2>1, <2>2 DEF BackendInv, StraysReleased
<1>10. QED
  BY <1>1, <1>3, <1>4, <1>5, <1>6, <1>7, <1>8, <1>9 DEF BackendInv

(* No row is left running, so that no agent and no context is left either. *)
LEMMA RecoverReadyInv ==
  ASSUME BackendInv, ConstantsAssumption, RecoverReady
  PROVE  BackendInv'
<1>1. /\ UNCHANGED vars /\ UNCHANGED <<agent, stray, context, pending, released, crashes>>
      /\ phase = "recovering" /\ phase' = "ready" /\ pending = {} /\ Idle
      /\ UNCHANGED <<status, owner>>
  BY DEF RecoverReady, recoveryVars, agentVars, vars, durable, BackendInv
<1>2. \A t \in Turns : status[t] # "running"
  BY <1>1 DEF BackendInv, RecoveryCovers
<1>3. Consistent
  BY <1>1, <1>2, IdleConsistent DEF BackendInv, Consistent
<1>4. Consistent'
  <2>1. UNCHANGED <<related, events>>
    BY <1>1 DEF vars, related, durable, handleVars, stopVars, serviceVars
  <2>2. QED
    BY <1>3, <2>1, UnrelatedStep
<1>5. agent = {} /\ context = {} /\ Calls = {} /\ released = None
  BY <1>1, <1>2, IdleConsistent DEF BackendInv, BackendTypeOK, AgentsLeft, RowsOfAgentsRun,
     ContextOfUnfinishedTurn, RecoveryCovers
<1>6. CallsOwnResources'
  BY <1>1, <1>5, SameService DEF CallsOwnResources
<1>7. BackendTypeOK' /\ RecoveryCovers' /\ StraysReleased'
  BY <1>1, <1>5 DEF BackendInv, BackendTypeOK, RecoveryCovers, StraysReleased, InContainer, Workspace
<1>8. QED
  BY <1>1, <1>4, <1>6, <1>7, SameService DEF BackendInv

-----------------------------------------------------------------------------
(* The invariant *)

LEMMA BackendInitInv ==
  ASSUME BackendInit, ConstantsAssumption, BackendAssumption
  PROVE  BackendInv
<1>1. TypeOK /\ Consistent
  BY InitInvariant DEF BackendInit
<1>2. BackendTypeOK /\ RecoveryCovers /\ StraysReleased
  BY DEF BackendInit, BackendTypeOK, RecoveryCovers, StraysReleased, BackendAssumption
<1>3. AgentsLeft /\ ContextOfUnfinishedTurn
  BY DEF BackendInit, AgentsLeft, OneAgentPerWorkspace, RowsOfAgentsRun,
         ContextOfUnfinishedTurn
<1>4. QED
  BY <1>1, <1>2, <1>3 DEF BackendInit, BackendInv, Consistent, Init

LEMMA BackendNextInv ==
  ASSUME BackendInv, ConstantsAssumption, BackendAssumption, [BackendNext]_backendVars
  PROVE  BackendInv'
<1>1. CASE ServiceStep
  BY <1>1, ServiceStepInv
<1>2. CASE Crash \/ Shutdown
  <2>1. crashes' \in 0 .. MaxCrashes
    BY <1>2 DEF Crash, Shutdown, BackendInv, BackendTypeOK, BackendAssumption
  <2>2. QED
    BY <1>2, <2>1, ProcessEndsInv DEF Crash, Shutdown
<1>3. CASE RecoverStep
  BY <1>3, RecoverBeginInv, RecoverReadyInv, RecoverReleaseInv, RecoverInterruptInv DEF RecoverStep
<1>4. ASSUME NEW t \in Turns, StrayEnds(t)
      PROVE  BackendInv'
  <2>1. stray' \subseteq stray
    BY <1>4 DEF StrayEnds
  <2>2. QED
    BY <1>4, <2>1, FewerStraysInv DEF StrayEnds, recoveryVars
<1>5. CASE UNCHANGED backendVars
  BY <1>5, FewerStraysInv DEF backendVars, agentVars, recoveryVars
<1>6. QED
  BY <1>1, <1>2, <1>3, <1>4, <1>5 DEF BackendNext

(* Across any number of crashes and recoveries the process, its tables and *)
(* what it leaves behind stay consistent.                                  *)
THEOREM BackendInvariant == BackendSpec => []BackendInv
<1>1. BackendInit => BackendInv
  BY BackendInitInv, ConstantsAssumption, BackendAssumption
<1>2. BackendInv /\ [BackendNext]_backendVars => BackendInv'
  BY BackendNextInv, ConstantsAssumption, BackendAssumption
<1>3. QED
  BY <1>1, <1>2, PTL DEF BackendSpec

(* No two agents in their calls, or left in one by a crash, are in one     *)
(* workspace; recovery finds each of them by its running row; and of an    *)
(* interrupted or deleted turn nothing runs in a container (recovery.py,   *)
(* turn.py, runtime.py).                                                   *)
THEOREM AgentsAreAccountedFor == BackendSpec => []AgentsAccountedFor
<1>1. BackendInv => AgentsLeft /\ StraysReleased
  BY ResourcesFollowRows, ConstantsAssumption DEF BackendInv
<1>2. BackendInv => AgentsAccountedFor
  BY <1>1 DEF AgentsLeft, StraysReleased, AgentsAccountedFor, RowsOfAgentsRun, ContainersReleased
<1>3. QED
  BY <1>2, BackendInvariant, PTL

(* A context file is published for an unfinished turn only, also after a   *)
(* crash (managed_context.py, recovery.py).                                *)
THEOREM ContextsAreOfUnfinishedTurns == BackendSpec => []ContextOfUnfinishedTurn
<1>1. BackendInv => ContextOfUnfinishedTurn
  BY ResourcesFollowRows, ConstantsAssumption DEF BackendInv
<1>2. QED
  BY <1>1, BackendInvariant, PTL

(* When requests are served no row and no agent in a call is left over     *)
(* from an earlier process, and what runs in a container beside the calls  *)
(* is not of a turn that was interrupted (recovery.recover).               *)
THEOREM NothingIsLeftOver == BackendSpec => []NothingLeftOver
<1>1. ASSUME BackendInv, phase = "ready"
      PROVE  NothingLeftOver
  <2>1. HandlesMatchRows /\ agent = {t \in Turns : InCall(t)}
    BY <1>1 DEF BackendInv, Consistent, CallsOwnResources, Calls
  <2>2. ASSUME NEW t \in stray, InContainer(t)
        PROVE  status[t] \in {"complete", "failed"} \/ pc[t] \in Live \/ error[t]
    <3>1. t \in Turns /\ status[t] \in Statuses
      BY <1>1 DEF BackendInv, BackendTypeOK, TypeOK, RowsTypeOK
    <3>2. status[t] \notin {"unused", "interrupted", "deleted"}
      BY <1>1, <2>2 DEF BackendInv, StraysReleased
    <3>3. status[t] \in {"complete", "failed", "running"}
      BY <3>1, <3>2 DEF Statuses
    <3>4. QED
      BY <2>1, <3>1, <3>3 DEF HandlesMatchRows
  <2>3. QED
    BY <2>1, <2>2 DEF NothingLeftOver
<1>2. BackendInv => NothingLeftOver
  BY <1>1 DEF NothingLeftOver
<1>3. QED
  BY <1>2, BackendInvariant, PTL

-----------------------------------------------------------------------------
(* The tables implement the ledger across crashes, restarts and recoveries *)

LEMMA BackendKeepsLedger ==
  ASSUME BackendInv, [BackendNext]_backendVars
  PROVE  [Ledger!Next]_Ledger!ledger
<1>1. CASE ServiceStep
  BY <1>1, NextKeepsLedger DEF ServiceStep, BackendInv
<1>2. ASSUME NEW t \in Turns, RecoverInterrupt(t)
      PROVE  Ledger!Next
  <2>1. Ledger!Interrupt(t)
    BY <1>2 DEF RecoverInterrupt, Interrupt, Ledger!Interrupt
  <2>2. QED
    BY <2>1 DEF Ledger!Next
<1>3. CASE \/ Crash \/ Shutdown \/ RecoverBegin \/ RecoverReady
           \/ \E t \in Turns : RecoverRelease(t) \/ StrayEnds(t)
           \/ UNCHANGED backendVars
  BY <1>3 DEF Crash, Shutdown, ProcessEnds, RecoverBegin, RecoverReady, RecoverRelease, StrayEnds,
              backendVars, vars, durable, Ledger!ledger
<1>4. QED
  BY <1>1, <1>2, <1>3 DEF BackendNext, RecoverStep

(* Every transaction on the tables, those of recovery included, is one     *)
(* step of the ledger (storage/turns.py, recovery.py).                     *)
THEOREM LedgerIsKept == BackendSpec => LedgerAcrossCrashes
<1>1. BackendInit => Ledger!Init
  BY DEF BackendInit, Init, Ledger!Init
<1>2. BackendInv /\ [BackendNext]_backendVars => [Ledger!Next]_Ledger!ledger
  BY BackendKeepsLedger
<1>3. QED
  BY <1>1, <1>2, BackendInvariant, PTL DEF BackendSpec, LedgerAcrossCrashes, Ledger!Spec

(* A turn is settled once also when its process died under it: by _run or  *)
(* by recovery, never by both (Turns.finish, Turns.interrupt).             *)
THEOREM SettledOnceAcrossCrashes == BackendSpec => []DoneAndAnswerOnce
<1>1. BackendInit => DoneAndAnswerOnce
  BY DEF BackendInit, Init, DoneAndAnswerOnce
<1>2. BackendInv /\ DoneAndAnswerOnce /\ [BackendNext]_backendVars => DoneAndAnswerOnce'
  BY BackendKeepsLedger, LedgerSettlesOnce, ConstantsAssumption DEF BackendInv, TypeOK
<1>3. QED
  BY <1>1, <1>2, BackendInvariant, PTL DEF BackendSpec

-----------------------------------------------------------------------------
(* The readers of a turn, for any number of them, of turns, of events and   *)
(* of recorded job events.                                                  *)

(* The inductive invariant.  A reader that has taken the end of a turn for *)
(* granted (final) has read all of it, since an ended task records nothing *)
(* more; and a reader without a handle is one of an ended task.            *)

\* sent and then batch are the first elements of log
Follows(log, sn, b) ==
  /\ Len(sn) + Len(b) <= Len(log)
  /\ \A i \in 1 .. Len(sn) : sn[i] = log[i]
  /\ \A i \in 1 .. Len(b) : b[i] = log[Len(sn) + i]

Batching(s) ==
  /\ at[s] \in {"off", "created"} => sent[s] = <<>>
  /\ at[s] # "yielding" /\ at[s] # "raised" => batch[s] = <<>>

Reading(s, t) ==
  /\ pc[t] # "idle"
  /\ status[t] # "deleted" => Follows(events[t], sent[s], batch[s])
  /\ at[s] = "raised" => status[t] = "deleted" \/ error[t]
  /\ at[s] \in {"yielding", "waiting"} /\ ~attached[s] => pc[t] = "ended"
  /\ at[s] = "ended" \/ (at[s] = "yielding" /\ final[s]) =>
       /\ pc[t] = "ended"
       /\ status[t] # "deleted" => Len(sent[s]) + Len(batch[s]) = Len(events[t])
  /\ at[s] = "ended" => status[t] # "running"

ReaderInv(s) == Batching(s) /\ (at[s] # "off" => turn[s] \in Turns /\ Reading(s, turn[s]))

TablesInv ==
  /\ TypeOK /\ Consistent /\ DoneAndAnswerOnce
  /\ \A t \in Turns : status[t] # "interrupted"

StreamInv == TablesInv /\ StreamTypeOK /\ \A s \in Readers : ReaderInv(s)

-----------------------------------------------------------------------------
(* Logs and their readers *)

\* rest is what remains of log after its first n elements
Remains(log, n, rest) ==
  /\ Len(rest) = Len(log) - n
  /\ \A i \in 1 .. Len(log) - n : rest[i] = log[n + i]

LEMMA RestOfLog ==
  ASSUME NEW S, NEW log \in Seq(S), NEW n \in Nat, n <= Len(log)
  PROVE  /\ SubSeq(log, n + 1, Len(log)) \in Seq(S)
         /\ Remains(log, n, SubSeq(log, n + 1, Len(log)))
<1>1. Len(log) \in Nat /\ \A i \in n + 1 .. Len(log) : log[i] \in S
  OBVIOUS
<1>2. /\ SubSeq(log, n + 1, Len(log)) \in Seq(S)
      /\ Len(SubSeq(log, n + 1, Len(log))) =
           IF n + 1 <= Len(log) THEN Len(log) - (n + 1) + 1 ELSE 0
      /\ \A i \in 1 .. Len(log) - (n + 1) + 1 :
           SubSeq(log, n + 1, Len(log))[i] = log[n + 1 + i - 1]
  BY <1>1, SubSeqProperties
<1>3. /\ Len(SubSeq(log, n + 1, Len(log))) = Len(log) - n
      /\ \A i \in 1 .. Len(log) - n : SubSeq(log, n + 1, Len(log))[i] = log[n + i]
  BY <1>1, <1>2
<1>4. QED
  BY <1>2, <1>3 DEF Remains

LEMMA ReadTakesAll ==
  ASSUME NEW S, NEW log \in Seq(S), NEW sn \in Seq(S), Remains(log, Len(sn), <<>>)
  PROVE  Len(sn) = Len(log)
<1>1. Len(sn) \in Nat /\ Len(log) \in Nat /\ Len(<<>>) = 0
  BY EmptySeq
<1>2. QED
  BY <1>1 DEF Remains

LEMMA ReadTakesSome ==
  ASSUME NEW S, NEW log \in Seq(S), NEW sn \in Seq(S), Follows(log, sn, <<>>),
         NEW news \in Seq(S), Remains(log, Len(sn), news), news # <<>>
  PROVE  /\ Follows(log, Append(sn, Head(news)), Tail(news))
         /\ Len(Append(sn, Head(news))) + Len(Tail(news)) = Len(log)
<1>1. Len(sn) \in Nat /\ Len(log) \in Nat /\ Len(news) \in Nat
  OBVIOUS
<1>2. /\ Len(news) = Len(log) - Len(sn)
      /\ \A i \in 1 .. Len(news) : news[i] = log[Len(sn) + i]
  BY DEF Remains
<1>3. PICK x, y : x = Append(sn, Head(news)) /\ y = Tail(news)
  OBVIOUS
<1>4. Follows(log, x, y) /\ Len(x) + Len(y) = Len(log)
  <2>1. /\ Len(news) > 0 /\ Head(news) = news[1] /\ Head(news) \in S
        /\ y \in Seq(S) /\ Len(y) = Len(news) - 1
        /\ \A i \in 1 .. Len(y) : y[i] = news[i + 1]
    BY <1>3, HeadTailProperties, EmptySeq
  <2>2. /\ x \in Seq(S)
        /\ Len(x) = Len(sn) + 1
        /\ \A i \in 1 .. Len(sn) : x[i] = sn[i]
        /\ x[Len(sn) + 1] = Head(news)
    BY <1>3, <2>1, AppendProperties
  <2>3. Head(news) = log[Len(sn) + 1]
    BY <1>1, <1>2, <2>1
  <2>4. \A i \in 1 .. Len(sn) + 1 : x[i] = log[i]
    <3>1. \A i \in 1 .. Len(sn) : x[i] = log[i]
      BY <2>2 DEF Follows
    <3>2. \A i \in 1 .. Len(sn) + 1 : i \in 1 .. Len(sn) \/ i = Len(sn) + 1
      BY <1>1
    <3>3. QED
      BY <2>2, <2>3, <3>1, <3>2
  <2>5. \A i \in 1 .. Len(y) : y[i] = log[Len(sn) + 1 + i]
    BY <1>1, <1>2, <2>1
  <2>6. QED
    <3>1. Len(y) = (Len(log) - Len(sn)) - 1
      BY <1>1, <1>2, <2>1
    <3>2. Follows(log, x, y) /\ Len(x) + Len(y) = Len(log)
      <4>1. Len(x) + Len(y) = Len(log)
        BY <1>1, <2>2, <3>1
      <4>2. \A i \in 1 .. Len(x) : x[i] = log[i]
        BY <2>2, <2>4
      <4>3. \A i \in 1 .. Len(y) : y[i] = log[Len(x) + i]
        BY <2>2, <2>5
      <4>4. Len(x) + Len(y) <= Len(log)
        BY <1>1, <4>1
      <4>5. QED
        BY <4>1, <4>2, <4>3, <4>4 DEF Follows
    <3>3. QED
      BY <2>1, <2>2, <3>2
<1>5. QED
  BY <1>3, <1>4

LEMMA YieldKeepsRest ==
  ASSUME NEW S, NEW log \in Seq(S), NEW sn \in Seq(S), NEW b \in Seq(S), b # <<>>
  PROVE  /\ Len(Append(sn, Head(b))) + Len(Tail(b)) = Len(sn) + Len(b)
         /\ Follows(log, sn, b) => Follows(log, Append(sn, Head(b)), Tail(b))
<1>0. PICK x, y : x = Append(sn, Head(b)) /\ y = Tail(b)
  OBVIOUS
<1>1. /\ Len(b) \in Nat /\ Len(b) > 0 /\ Head(b) = b[1] /\ Head(b) \in S
      /\ y \in Seq(S) /\ Len(y) = Len(b) - 1
      /\ \A i \in 1 .. Len(y) : y[i] = b[i + 1]
  BY <1>0, HeadTailProperties, EmptySeq
<1>2. /\ Len(sn) \in Nat /\ Len(log) \in Nat
      /\ x \in Seq(S)
      /\ Len(x) = Len(sn) + 1
      /\ \A i \in 1 .. Len(sn) : x[i] = sn[i]
      /\ x[Len(sn) + 1] = Head(b)
  BY <1>0, <1>1, AppendProperties
<1>3. ASSUME Follows(log, sn, b)
      PROVE  Follows(log, x, y)
  <2>1. Head(b) = log[Len(sn) + 1]
    BY <1>1, <1>3 DEF Follows
  <2>2. \A i \in 1 .. Len(sn) + 1 : x[i] = log[i]
    BY <1>2, <1>3, <2>1 DEF Follows
  <2>3. \A i \in 1 .. Len(y) : y[i] = log[Len(sn) + 1 + i]
    <3>1. ASSUME NEW i \in 1 .. Len(y)
          PROVE  y[i] = log[Len(sn) + 1 + i]
      <4>1. i + 1 \in 1 .. Len(b) /\ Len(sn) + (i + 1) = Len(sn) + 1 + i
        BY <1>1, <1>2
      <4>2. b[i + 1] = log[Len(sn) + (i + 1)]
        BY <1>3, <4>1 DEF Follows
      <4>3. QED
        BY <1>1, <4>1, <4>2
    <3>2. QED
      BY <3>1
  <2>4. Len(sn) + Len(b) <= Len(log)
    BY <1>3 DEF Follows
  <2>5. Len(x) + Len(y) = Len(sn) + Len(b)
    BY <1>1, <1>2
  <2>6. Len(x) + Len(y) <= Len(log)
    BY <2>4, <2>5
  <2>7. QED
    BY <1>2, <2>2, <2>3, <2>6 DEF Follows
<1>4. QED
  BY <1>0, <1>1, <1>2, <1>3

(* A log that grows is still followed. *)
LEMMA GrowingLog ==
  ASSUME NEW S, NEW log \in Seq(S), NEW sn \in Seq(S), NEW b \in Seq(S), Follows(log, sn, b),
         NEW e
  PROVE  Follows(Append(log, e), sn, b)
<1>1. /\ Len(log) \in Nat /\ Len(sn) \in Nat /\ Len(b) \in Nat
      /\ Len(Append(log, e)) = Len(log) + 1
      /\ \A i \in 1 .. Len(log) : Append(log, e)[i] = log[i]
  OBVIOUS
<1>2. \A i \in 1 .. Len(sn) : sn[i] = Append(log, e)[i]
  BY <1>1 DEF Follows
<1>3. \A i \in 1 .. Len(b) : b[i] = Append(log, e)[Len(sn) + i]
  BY <1>1 DEF Follows
<1>4. QED
  BY <1>1, <1>2, <1>3 DEF Follows

LEMMA FollowsPrefix ==
  ASSUME NEW S, NEW log \in Seq(S), NEW sn \in Seq(S), NEW b \in Seq(S), Follows(log, sn, b)
  PROVE  sn \o b = SubSeq(log, 1, Len(sn) + Len(b))
<1>1. Len(sn) \in Nat /\ Len(b) \in Nat /\ Len(log) \in Nat
  OBVIOUS
<1> DEFINE n == Len(sn) + Len(b)
<1>2. /\ sn \o b \in Seq(S) /\ Len(sn \o b) = n
      /\ \A i \in 1 .. n : (sn \o b)[i] = IF i <= Len(sn) THEN sn[i] ELSE b[i - Len(sn)]
  BY ConcatProperties
<1>3. /\ SubSeq(log, 1, n) \in Seq(S) /\ Len(SubSeq(log, 1, n)) = n
      /\ \A i \in 1 .. n : SubSeq(log, 1, n)[i] = log[i]
  <2>1. n \in Int /\ n <= Len(log) /\ n >= 0
    BY <1>1 DEF Follows
  <2>2. \A i \in 1 .. n : log[i] \in S
    BY <1>1, <2>1
  <2>3. /\ SubSeq(log, 1, n) \in Seq(S)
        /\ Len(SubSeq(log, 1, n)) = IF 1 <= n THEN n - 1 + 1 ELSE 0
        /\ \A i \in 1 .. n - 1 + 1 : SubSeq(log, 1, n)[i] = log[1 + i - 1]
    BY <2>1, <2>2, SubSeqProperties
  <2>4. QED
    BY <1>1, <2>1, <2>3
<1>4. \A i \in 1 .. n : (sn \o b)[i] = SubSeq(log, 1, n)[i]
  <2>1. ASSUME NEW i \in 1 .. n
        PROVE  (sn \o b)[i] = log[i]
    <3>1. CASE i <= Len(sn)
      BY <1>1, <1>2, <3>1 DEF Follows
    <3>2. CASE ~(i <= Len(sn))
      <4>1. i - Len(sn) \in 1 .. Len(b) /\ Len(sn) + (i - Len(sn)) = i
        BY <1>1, <3>2
      <4>2. b[i - Len(sn)] = log[Len(sn) + (i - Len(sn))]
        BY <4>1 DEF Follows
      <4>3. QED
        BY <1>2, <3>2, <4>1, <4>2
    <3>3. QED
      BY <3>1, <3>2
  <2>2. QED
    BY <1>3, <2>1
<1>5. QED
  BY <1>2, <1>3, <1>4, SeqEqual

-----------------------------------------------------------------------------
(* What a step of the turn service means for those who read a turn *)

Kept(t) ==
  /\ pc[t] # "idle" => pc'[t] # "idle"
  /\ pc[t] = "ended" => pc'[t] = "ended"
  /\ error[t] => error'[t]
  /\ status'[t] = "interrupted" => status[t] = "interrupted"
  /\ pc[t] = "ended" => events'[t] = events[t] \/ status'[t] = "deleted"

LEMMA FinalizeKeeps ==
  ASSUME TypeOK, NEW u \in Turns, pc[u] \in Live, NEW f, Finalize(u, f), NEW t \in Turns
  PROVE  Kept(t)
<1>1. /\ pc'[u] = "ended" /\ pc[u] # "ended"
      /\ t # u => pc'[t] = pc[t]
      /\ error'[t] = error[t] \/ error'[t] = TRUE
  BY DEF Finalize, Finish, FinishRaises, TypeOK, TasksTypeOK, Live, Executing
<1>2. t # u => events'[t] = events[t]
  BY DEF Finalize, Finish, FinishRaises, TypeOK, RowsTypeOK
<1>3. status'[t] = status[t] \/ status'[t] \in {"complete", "failed"}
  BY DEF Finalize, Finish, FinishRaises, TypeOK, RowsTypeOK
<1>4. QED
  BY <1>1, <1>2, <1>3 DEF Kept

LEMMA LeaveKeeps ==
  ASSUME TypeOK, NEW u \in Turns, pc[u] \in Live, NEW f, Leave(u, f), NEW t \in Turns
  PROVE  Kept(t)
<1>1. CASE Finalize(u, f)
  BY <1>1, FinalizeKeeps
<1>2. CASE EnterCleanup(u, f)
  BY <1>2 DEF EnterCleanup, durable, Kept, TypeOK, TasksTypeOK, Live, Executing
<1>3. QED
  BY <1>1, <1>2 DEF Leave

LEMMA RecordKeeps ==
  ASSUME TypeOK, NEW u \in Turns, pc[u] = "driving", NEW e, Record(u, e) \/ RecordRaises(u), RecordFrame,
         NEW t \in Turns
  PROVE  Kept(t)
BY DEF Record, RecordRaises, RecordFrame, Kept, TypeOK, TasksTypeOK, RowsTypeOK

LEMMA TurnStepKeeps ==
  ASSUME TypeOK, NEW u \in Turns, TurnStep(u), NEW t \in Turns
  PROVE  Kept(t)
<1>1. CASE Begin(u)
  <2>1. pc[u] \in Live /\ pc[u] = "created"
    BY <1>1 DEF Begin, Live
  <2>2. CASE Finalize(u, "cancelled")
    BY <2>1, <2>2, FinalizeKeeps
  <2>3. CASE /\ \/ pc' = [pc EXCEPT ![u] = "driving"] \/ pc' = [pc EXCEPT ![u] = "locking"]
             /\ UNCHANGED <<durable, error>>
    BY <2>1, <2>3 DEF durable, Kept, TypeOK, TasksTypeOK
  <2>4. QED
    BY <1>1, <2>2, <2>3 DEF Begin
<1>2. CASE Acquire(u) \/ \E f \in {"answer", "reply", "failed"} : DriverResult(u, f)
  BY <1>2 DEF Acquire, DriverResult, Driving, durable, Kept, TypeOK, TasksTypeOK
<1>3. CASE ForceCancel(u) \/ CallbackRaises(u)
  BY <1>3 DEF ForceCancel, CallbackRaises, durable, Kept
<1>4. CASE OtherEvent(u) \/ RoleReady(u) \/ \E r \in Roles : RoleStart(u, r)
  <2>1. pc[u] = "driving"
    BY <1>4 DEF OtherEvent, RoleReady, RoleStart, Driving
  <2>2. QED
    BY <1>4, <2>1, RecordKeeps DEF OtherEvent, RoleReady, RoleStart
<1>5. CASE DriverRaises(u) \/ DriverClosed(u)
  <2>1. pc[u] \in Live
    BY <1>5 DEF DriverRaises, DriverClosed, Driving, Live, Executing
  <2>2. QED
    BY <1>5, <2>1, LeaveKeeps DEF DriverRaises, DriverClosed
<1>6. CASE CleanupDone(u)
  <2>1. pc[u] \in Live
    BY <1>6 DEF CleanupDone, Live, Executing
  <2>2. QED
    BY <1>6, <2>1, FinalizeKeeps DEF CleanupDone
<1>7. CASE DeliverCancel(u)
  <2>1. CASE pc[u] = "locking" /\ Finalize(u, "cancelled")
    BY <2>1, FinalizeKeeps DEF Live
  <2>2. CASE /\ pc[u] \in Executing
             /\ pc' = [pc EXCEPT ![u] = IF @ = "driving" THEN "stopping" ELSE @]
             /\ UNCHANGED <<durable, error>>
    BY <2>2 DEF durable, Kept, TypeOK, TasksTypeOK, Executing
  <2>3. QED
    BY <1>7, <2>1, <2>2 DEF DeliverCancel
<1>8. QED
  BY <1>1, <1>2, <1>3, <1>4, <1>5, <1>6, <1>7 DEF TurnStep

LEMMA NextKeeps ==
  ASSUME TypeOK, Consistent, [Next]_vars, NEW t \in Turns
  PROVE  Kept(t)
<1>1. ASSUME NEW c \in Conversations, NEW u \in Turns, NEW m \in Modes,
             NEW r \in Roles \cup {NoRole, None}, Start(c, u, m, r)
      PROVE  Kept(t)
  <2>1. pc[u] = "idle"
    BY <1>1 DEF Start, Consistent, RowsConsistent
  <2>2. QED
    BY <1>1, <2>1 DEF Start, Kept, TypeOK, TasksTypeOK
<1>2. CASE \/ \E c \in Conversations, m \in Modes : CreateConversation(c, m)
           \/ \E c \in Conversations, u \in Turns : Cancel(c, u)
           \/ \E c \in Conversations : DeleteRequest(c)
           \/ Close \/ Closed \/ UNCHANGED vars
  BY <1>2 DEF CreateConversation, Cancel, DeleteRequest, Close, Closed, vars, durable, handleVars, Kept
<1>3. ASSUME NEW c \in Conversations, DeletionStep(c)
      PROVE  Kept(t)
  <2>1. CASE RemoveBegin(c) \/ RemoveWaited(c) \/ RemoveAcquires(c)
    BY <2>1 DEF RemoveBegin, RemoveWaited, RemoveAcquires, durable, handleVars, Kept
  <2>2. CASE RemoveDone(c)
    BY <2>2 DEF RemoveDone, handleVars, Kept, TypeOK, RowsTypeOK
  <2>3. QED
    BY <1>3, <2>1, <2>2 DEF DeletionStep
<1>4. QED
  BY <1>1, <1>2, <1>3, TurnStepKeeps DEF Next, Request

(* The same as the tables see it *)
GrownTables(t) ==
  /\ status[t] = "deleted" => status'[t] = "deleted"
  /\ status'[t] = "running" => status[t] \in {"running", "unused"}
  /\ \/ status'[t] = "deleted"
     \/ events'[t] = events[t]
     \/ \E e : events'[t] = Append(events[t], e)

LEMMA LedgerGrows ==
  ASSUME RowsTypeOK, RowsConsistent, [Ledger!Next]_Ledger!ledger,
         NEW t \in Turns, ~\E u \in Turns : Ledger!Interrupt(u)
  PROVE  GrownTables(t)
<1>1. ASSUME NEW u \in Turns, Ledger!Gain(u)
      PROVE  GrownTables(t)
  <2>1. events'[t] = events[t] \/ \E e : events'[t] = Append(events[t], e)
    <3>1. PICK e : events' = [events EXCEPT ![u] = Append(@, e)]
      BY <1>1 DEF Ledger!Gain
    <3>2. QED
      BY <3>1 DEF RowsTypeOK
  <2>2. QED
    BY <1>1, <2>1 DEF Ledger!Gain, GrownTables
<1>2. ASSUME NEW u \in Turns, NEW o \in {"answer", "cancelled", "failed"}, Ledger!Settle(u, o)
      PROVE  GrownTables(t)
  <2>1. CASE t = u
    <3>1. events'[t] = Append(events[t], <<"done", o>>)
      BY <1>2, <2>1 DEF Ledger!Settle, RowsTypeOK
    <3>2. status[t] = "running" /\ status'[t] \in {"complete", "failed"}
      BY <1>2, <2>1 DEF Ledger!Settle, RowsTypeOK
    <3>3. QED
      BY <3>1, <3>2 DEF GrownTables
  <2>2. CASE t # u
    BY <1>2, <2>2 DEF Ledger!Settle, GrownTables, RowsTypeOK
  <2>3. QED
    BY <2>1, <2>2
<1>3. ASSUME NEW c \in Conversations, NEW u \in Turns, Ledger!Open(c, u)
      PROVE  GrownTables(t)
  BY <1>3 DEF Ledger!Open, GrownTables, RowsTypeOK
<1>4. ASSUME NEW c \in Conversations, Ledger!Drop(c)
      PROVE  GrownTables(t)
  BY <1>4 DEF Ledger!Drop, GrownTables
<1>5. CASE (\E c \in Conversations : Ledger!Create(c)) \/ UNCHANGED Ledger!ledger
  BY <1>5 DEF Ledger!Create, Ledger!ledger, GrownTables
<1>6. QED
  BY <1>1, <1>2, <1>3, <1>4, <1>5 DEF Ledger!Next

ServiceMoves == \A t \in Turns : Kept(t) /\ GrownTables(t)

LEMMA ServiceTables ==
  ASSUME TablesInv, ConstantsAssumption, [Next]_vars
  PROVE  TablesInv' /\ ServiceMoves
<1>1. TypeOK' /\ Consistent'
  BY NextType, NextConsistent DEF TablesInv
<1>2. [Ledger!Next]_Ledger!ledger
  BY NextKeepsLedger DEF TablesInv
<1>3. DoneAndAnswerOnce'
  BY <1>2, LedgerSettlesOnce DEF TablesInv, TypeOK, Consistent
<1>4. \A t \in Turns : Kept(t)
  BY NextKeeps DEF TablesInv
<1>5. \A t \in Turns : status'[t] # "interrupted"
  BY <1>4 DEF TablesInv, Kept
<1>6. ~\E u \in Turns : Ledger!Interrupt(u)
  <2>1. ASSUME NEW u \in Turns, Ledger!Interrupt(u)
        PROVE  status'[u] = "interrupted"
    BY <2>1 DEF Ledger!Interrupt, TablesInv, TypeOK, RowsTypeOK
  <2>2. QED
    BY <1>5, <2>1
<1>7. \A t \in Turns : GrownTables(t)
  BY <1>2, <1>6, LedgerGrows DEF TablesInv, TypeOK, Consistent
<1>8. QED
  BY <1>1, <1>3, <1>4, <1>5, <1>7 DEF TablesInv, ServiceMoves

(* The callback of a job records an event of a running turn, and changes   *)
(* nothing else of the tables or the tasks.                                *)
LEMMA JobEventTables ==
  ASSUME TablesInv, ConstantsAssumption, NEW u \in Turns, RecordJobEvent(u)
  PROVE  TablesInv' /\ ServiceMoves
<1>1. /\ status[u] = "running" /\ pc[u] # "ended"
      /\ events' = [events EXCEPT ![u] = Append(@, <<"event", NoRole>>)]
      /\ UNCHANGED <<conversation, mode, interruptedRole, status, owner, answers, pc, cancel, cancelRole,
                     timer, role, ready, fate, wrong, error, service, active, holder, deletion, awaited>>
  BY DEF RecordJobEvent, handleVars, stopVars, serviceVars
<1>2. <<"event", NoRole>> \in Events
  BY DEF Events
<1>3. TypeOK'
  <2>1. events' \in [Turns -> Seq(Events)]
    <3>1. Append(events[u], <<"event", NoRole>>) \in Seq(Events)
      BY <1>2 DEF TablesInv, TypeOK, RowsTypeOK
    <3>2. QED
      BY <1>1, <3>1 DEF TablesInv, TypeOK, RowsTypeOK
  <2>2. QED
    BY <1>1, <2>1 DEF TablesInv, TypeOK, RowsTypeOK, StopsTypeOK, TasksTypeOK, ServiceTypeOK
<1>4. Consistent'
  <2>1. RowsConsistent'
    <3>1. \A t \in Turns : t # u => events'[t] = events[t]
      BY <1>1 DEF TablesInv, TypeOK, RowsTypeOK
    <3>2. QED
      BY <1>1, <3>1 DEF TablesInv, Consistent, RowsConsistent
  <2>2. HandlesMatchRows' /\ ActiveConsistent' /\ OneRunningTurn' /\ ClosedConsistent'
    BY <1>1 DEF TablesInv, Consistent, HandlesMatchRows, ActiveConsistent, OneRunningTurn, ClosedConsistent
  <2>3. LockConsistent' /\ DeletionConsistent'
    BY <1>1 DEF TablesInv, Consistent, LockConsistent, DeletionConsistent, Workspace
  <2>4. QED
    BY <2>1, <2>2, <2>3 DEF Consistent
<1>5. [Ledger!Next]_Ledger!ledger
  <2>1. <<"event", NoRole>> \in {"role_start", "role_ready", "event"} \X
                                  {"", "assistant", "orchestrator", "implementer"}
    BY DEF NoRole
  <2>2. Ledger!Gain(u)
    BY <1>1, <2>1 DEF Ledger!Gain
  <2>3. QED
    BY <2>2 DEF Ledger!Next
<1>6. DoneAndAnswerOnce'
  BY <1>5, LedgerSettlesOnce DEF TablesInv, TypeOK, Consistent
<1>7. ASSUME NEW t \in Turns
      PROVE  Kept(t) /\ GrownTables(t)
  <2>1. events'[t] = IF t = u THEN Append(events[t], <<"event", NoRole>>) ELSE events[t]
    BY <1>1 DEF TablesInv, TypeOK, RowsTypeOK
  <2>2. Kept(t)
    BY <1>1, <2>1 DEF Kept
  <2>3. GrownTables(t)
    BY <1>1, <2>1 DEF GrownTables
  <2>4. QED
    BY <2>2, <2>3
<1>8. QED
  BY <1>1, <1>3, <1>4, <1>6, <1>7 DEF TablesInv, ServiceMoves

(* Readers that do not move keep what they have read, whatever the service *)
(* does.                                                                   *)
LEMMA ReaderKeeps ==
  ASSUME TablesInv, TablesInv', ServiceMoves, StreamTypeOK, NEW s \in Readers, ReaderInv(s),
         at'[s] = at[s], turn'[s] = turn[s], attached'[s] = attached[s],
         sent'[s] = sent[s], batch'[s] = batch[s], final'[s] = final[s]
  PROVE  ReaderInv(s)'
<1>1. Batching(s)'
  BY DEF ReaderInv, Batching
<1>2. ASSUME at[s] # "off"
      PROVE  Reading(s, turn[s])'
  <2>1. PICK t \in Turns : t = turn[s] /\ Reading(s, t)
    BY <1>2 DEF ReaderInv
  <2>2. Kept(t) /\ GrownTables(t)
    BY DEF ServiceMoves
  <2>3. events[t] \in Seq(Events) /\ sent[s] \in Seq(Events) /\ batch[s] \in Seq(Events)
    BY DEF TablesInv, TypeOK, RowsTypeOK, StreamTypeOK
  <2>4. status'[t] # "deleted" => Follows(events'[t], sent[s], batch[s])
    <3>1. SUFFICES ASSUME status'[t] # "deleted"
                   PROVE  Follows(events'[t], sent[s], batch[s])
      OBVIOUS
    <3>2. Follows(events[t], sent[s], batch[s])
      BY <2>1, <2>2, <3>1 DEF Reading, GrownTables
    <3>3. CASE events'[t] = events[t]
      BY <3>2, <3>3
    <3>4. ASSUME NEW e, events'[t] = Append(events[t], e)
          PROVE  Follows(events'[t], sent[s], batch[s])
      BY <2>3, <3>2, <3>4, GrowingLog
    <3>5. QED
      BY <2>2, <3>1, <3>3, <3>4 DEF GrownTables
  <2>5. at[s] = "ended" => status'[t] # "running"
    <3>1. status[t] # "unused"
      BY <2>1 DEF Reading, TablesInv, Consistent, RowsConsistent
    <3>2. QED
      BY <2>1, <2>2, <3>1 DEF Reading, GrownTables
  <2>6. pc'[t] # "idle" /\ (at[s] = "raised" => status'[t] = "deleted" \/ error'[t])
    BY <2>1, <2>2 DEF Reading, Kept, GrownTables
  <2>7. at[s] \in {"yielding", "waiting"} /\ ~attached[s] => pc'[t] = "ended"
    BY <2>1, <2>2 DEF Reading, Kept
  <2>8. at[s] = "ended" \/ (at[s] = "yielding" /\ final[s]) =>
          /\ pc'[t] = "ended"
          /\ status'[t] # "deleted" => Len(sent[s]) + Len(batch[s]) = Len(events'[t])
    BY <2>1, <2>2 DEF Reading, Kept, GrownTables
  <2>9. Reading(s, t)'
    BY <2>4, <2>5, <2>6, <2>7, <2>8 DEF Reading
  <2>10. QED
    BY <2>1, <2>9 DEF Reading
<1>3. QED
  BY <1>1, <1>2 DEF ReaderInv

-----------------------------------------------------------------------------
(* Readers that move *)

(* A reader that has yielded all it has read, of a task that has ended, may *)
(* end its stream: nothing is missing, and a running row is an error.      *)
LEMMA ReturnsInv ==
  ASSUME TablesInv, StreamTypeOK, NEW s \in Readers, NEW t, t = turn[s], t \in Turns,
         UNCHANGED vars, pc[t] = "ended", batch[s] = <<>>,
         status[t] # "deleted" => Follows(events[t], sent[s], <<>>) /\ Len(sent[s]) = Len(events[t]),
         NEW h \in BOOLEAN, Returns(s, h),
         turn'[s] = turn[s], sent'[s] = sent[s], batch'[s] = <<>>
  PROVE  ReaderInv(s)'
<1>1. at'[s] = IF (h /\ error[t]) \/ (~h /\ status[t] \in {"running", "deleted"})
               THEN "raised" ELSE "ended"
  BY DEF Returns, StreamTypeOK
<1>2. UNCHANGED <<pc, status, events, error>>
  BY DEF vars, durable, handleVars
<1>3. status[t] = "running" => error[t]
  BY DEF TablesInv, Consistent, HandlesMatchRows, Live, Executing
<1>4. Len(sent[s]) \in Nat /\ Len(<<>>) = 0
  BY EmptySeq DEF StreamTypeOK
<1>5. Batching(s)'
  BY <1>1 DEF Batching
<1>6. Reading(s, t)'
  BY <1>1, <1>2, <1>3, <1>4 DEF Reading
<1>7. QED
  BY <1>5, <1>6 DEF ReaderInv, Reading

LEMMA ReadInv ==
  ASSUME TablesInv, StreamTypeOK, NEW s \in Readers, ReaderInv(s), UNCHANGED vars,
         at[s] \in {"created", "waiting", "yielding"}, batch[s] = <<>>,
         NEW h \in BOOLEAN, Read(s, h), ~h => pc[turn[s]] = "ended"
  PROVE  ReaderInv(s)'
<1>1. PICK t \in Turns : t = turn[s] /\ Reading(s, t)
  BY DEF ReaderInv
<1> DEFINE news == SubSeq(events[t], Len(sent[s]) + 1, Len(events[t]))
           finished == ~h \/ pc[t] = "ended"
<1>2. UNCHANGED <<pc, status, events, error>>
  BY DEF vars, durable, handleVars
<1>3. events[t] \in Seq(Events) /\ sent[s] \in Seq(Events) /\ Len(sent[s]) \in Nat /\ Len(<<>>) = 0
  BY EmptySeq DEF TablesInv, TypeOK, RowsTypeOK, StreamTypeOK
<1>4. CASE status[t] = "deleted"
  <2>1. at'[s] = "raised" /\ UNCHANGED <<turn, attached, sent, batch, final>>
    BY <1>1, <1>4 DEF Read, Raises, StreamTypeOK
  <2>2. Batching(s)'
    BY <2>1 DEF Batching
  <2>3. Reading(s, t)'
    BY <1>1, <1>2, <1>4, <2>1 DEF Reading
  <2>4. QED
    BY <1>1, <2>1, <2>2, <2>3 DEF ReaderInv, Reading
<1>5. CASE status[t] # "deleted"
  <2>1. /\ turn'[s] = t /\ final'[s] = finished /\ attached'[s] = h
        /\ IF news # <<>>
           THEN /\ at'[s] = "yielding"
                /\ sent'[s] = Append(sent[s], Head(news))
                /\ batch'[s] = Tail(news)
           ELSE /\ IF finished THEN Returns(s, h) ELSE at'[s] = "waiting"
                /\ sent'[s] = sent[s] /\ batch'[s] = <<>>
    <3>1. /\ turn' = turn /\ final' = [final EXCEPT ![s] = finished]
          /\ attached' = [attached EXCEPT ![s] = h]
      BY <1>1, <1>5 DEF Read
    <3>2. IF news # <<>>
          THEN /\ at' = [at EXCEPT ![s] = "yielding"]
               /\ sent' = [sent EXCEPT ![s] = Append(@, Head(news))]
               /\ batch' = [batch EXCEPT ![s] = Tail(news)]
          ELSE /\ IF finished THEN Returns(s, h) ELSE at' = [at EXCEPT ![s] = "waiting"]
               /\ UNCHANGED <<sent, batch>>
      BY <1>1, <1>5 DEF Read
    <3> HIDE DEF news, finished
    <3>3. QED
      BY <1>1, <3>1, <3>2 DEF StreamTypeOK
  <2>2. Follows(events[t], sent[s], <<>>) /\ Len(sent[s]) <= Len(events[t])
    BY <1>1, <1>3, <1>5 DEF Reading, Follows
  <2>3. news \in Seq(Events) /\ Remains(events[t], Len(sent[s]), news)
    BY <1>3, <2>2, RestOfLog
  <2> HIDE DEF news
  <2>4. CASE news # <<>>
    <3>1. /\ Follows(events[t], sent'[s], batch'[s])
          /\ Len(sent'[s]) + Len(batch'[s]) = Len(events[t])
      <4>1. /\ Follows(events[t], Append(sent[s], Head(news)), Tail(news))
            /\ Len(Append(sent[s], Head(news))) + Len(Tail(news)) = Len(events[t])
        <5> DEFINE log == events[t]
                   sn == sent[s]
        <5>1. log \in Seq(Events) /\ sn \in Seq(Events) /\ news \in Seq(Events)
          BY <1>3, <2>3
        <5>2. Follows(log, sn, <<>>) /\ Remains(log, Len(sn), news)
          BY <2>2, <2>3
        <5> HIDE DEF log, sn
        <5>3. /\ Follows(log, Append(sn, Head(news)), Tail(news))
              /\ Len(Append(sn, Head(news))) + Len(Tail(news)) = Len(log)
          BY <5>1, <5>2, <2>4, ReadTakesSome, Zenon
        <5>4. QED
          BY <5>3 DEF log, sn
      <4>2. QED
        BY <2>1, <2>4, <4>1
    <3>2. at'[s] = "yielding"
      BY <2>1, <2>4
    <3>3. Batching(s)'
      BY <3>2 DEF Batching
    <3>4. Reading(s, t)'
      BY <1>1, <1>2, <2>1, <3>1, <3>2 DEF Reading
    <3>5. QED
      BY <2>1, <3>3, <3>4 DEF ReaderInv, Reading
  <2>5. CASE news = <<>>
    <3>1. Len(sent[s]) = Len(events[t])
      <4> DEFINE log == events[t]
                 sn == sent[s]
      <4>1. log \in Seq(Events) /\ sn \in Seq(Events) /\ news \in Seq(Events)
        BY <1>3, <2>3
      <4>2. Follows(log, sn, <<>>) /\ Remains(log, Len(sn), news)
        BY <2>2, <2>3
      <4> HIDE DEF log, sn
      <4>3. Len(sn) = Len(log)
        BY <4>1, <4>2, <2>5, ReadTakesAll
      <4>4. QED
        BY <4>3 DEF log, sn
    <3>2. CASE finished
      <4>1. pc[t] = "ended"
        BY <1>1, <3>2
      <4>2. Returns(s, h) /\ sent'[s] = sent[s] /\ batch'[s] = <<>> /\ turn'[s] = turn[s]
        BY <1>1, <2>1, <2>5, <3>2
      <4>3. QED
        BY <1>1, <2>2, <3>1, <4>1, <4>2, ReturnsInv
    <3>3. CASE ~finished
      <4>1. at'[s] = "waiting" /\ sent'[s] = sent[s] /\ batch'[s] = <<>>
        BY <2>1, <2>5, <3>3
      <4>2. Batching(s)'
        BY <4>1 DEF Batching
      <4>3. Reading(s, t)'
        BY <1>1, <1>2, <2>1, <2>2, <3>3, <4>1 DEF Reading
      <4>4. QED
        BY <2>1, <4>2, <4>3 DEF ReaderInv, Reading
    <3>4. \A i, j, n \in Nat : i + j <= n => i <= n
      OBVIOUS
    <3>5. QED
      BY <3>2, <3>3, <3>4
  <2>6. QED
    BY <2>4, <2>5
<1>6. QED
  BY <1>4, <1>5

(* Asking for the next event of a batch loses none of it. *)
LEMMA YieldInv ==
  ASSUME TablesInv, StreamTypeOK, NEW s \in Readers, ReaderInv(s), UNCHANGED vars,
         at[s] = "yielding", batch[s] # <<>>, YieldNext(s)
  PROVE  ReaderInv(s)'
<1>1. PICK t \in Turns : t = turn[s] /\ Reading(s, t)
  BY DEF ReaderInv
<1>2. UNCHANGED <<pc, status, events, error>>
  BY DEF vars, durable, handleVars
<1>3. /\ sent'[s] = Append(sent[s], Head(batch[s])) /\ batch'[s] = Tail(batch[s])
      /\ UNCHANGED <<at, turn, attached, final>>
  BY DEF YieldNext, StreamTypeOK
<1>4. events[t] \in Seq(Events) /\ sent[s] \in Seq(Events) /\ batch[s] \in Seq(Events)
  BY DEF TablesInv, TypeOK, RowsTypeOK, StreamTypeOK
<1>5. /\ Len(sent'[s]) + Len(batch'[s]) = Len(sent[s]) + Len(batch[s])
      /\ Follows(events[t], sent[s], batch[s]) => Follows(events[t], sent'[s], batch'[s])
  <2> DEFINE log == events[t]
             sn == sent[s]
             b == batch[s]
  <2>1. log \in Seq(Events) /\ sn \in Seq(Events) /\ b \in Seq(Events) /\ b # <<>>
    BY <1>4
  <2>2. sent'[s] = Append(sn, Head(b)) /\ batch'[s] = Tail(b)
    BY <1>3
  <2> HIDE DEF log, sn, b
  <2>3. /\ Len(Append(sn, Head(b))) + Len(Tail(b)) = Len(sn) + Len(b)
        /\ Follows(log, sn, b) => Follows(log, Append(sn, Head(b)), Tail(b))
    BY <2>1, YieldKeepsRest, Zenon
  <2>4. QED
    BY <2>2, <2>3 DEF log, sn, b
<1>6. Batching(s)'
  BY <1>3 DEF Batching
<1>7. Reading(s, t)'
  BY <1>1, <1>2, <1>3, <1>5 DEF Reading
<1>8. QED
  BY <1>1, <1>3, <1>6, <1>7 DEF ReaderInv, Reading

LEMMA OpenInv ==
  ASSUME TablesInv, StreamTypeOK, NEW s \in Readers, ReaderInv(s), Open(s)
  PROVE  ReaderInv(s)'
<1>1. PICK t \in Turns : t = turn[s] /\ Reading(s, t)
  BY DEF ReaderInv, Open
<1> DEFINE h == active[owner[t]] = t
<1>2. ~h => pc[t] = "ended"
  BY <1>1 DEF Reading, TablesInv, TypeOK, TasksTypeOK, Consistent, HandlesMatchRows, Live, Executing
<1>3. h \in BOOLEAN /\ Read(s, h) /\ UNCHANGED vars /\ at[s] = "created" /\ batch[s] = <<>>
  BY <1>1 DEF Open, ReaderInv, Batching
<1> HIDE DEF h
<1>4. QED
  BY <1>1, <1>2, <1>3, ReadInv

LEMMA WakeInv ==
  ASSUME TablesInv, StreamTypeOK, NEW s \in Readers, ReaderInv(s), Wake(s)
  PROVE  ReaderInv(s)'
<1>1. /\ at[s] = "waiting" /\ Read(s, attached[s]) /\ UNCHANGED vars
      /\ batch[s] = <<>> /\ attached[s] \in BOOLEAN
  BY DEF Wake, ReaderInv, Batching, StreamTypeOK
<1>2. ~attached[s] => pc[turn[s]] = "ended"
  BY <1>1 DEF ReaderInv, Reading
<1>3. QED
  BY <1>1, <1>2, ReadInv

(* The end is decided by what was seen before the read: a reader whose     *)
(* last read was final has read everything.                                *)
LEMMA ResumeInv ==
  ASSUME TablesInv, StreamTypeOK, NEW s \in Readers, ReaderInv(s), Resume(s)
  PROVE  ReaderInv(s)'
<1>1. PICK t \in Turns : t = turn[s] /\ Reading(s, t)
  BY DEF ReaderInv, Resume
<1>2. at[s] = "yielding" /\ UNCHANGED vars
  BY DEF Resume
<1>3. /\ attached[s] \in BOOLEAN /\ sent[s] \in Seq(Events) /\ events[t] \in Seq(Events)
      /\ Len(sent[s]) \in Nat /\ Len(<<>>) = 0
  BY EmptySeq DEF StreamTypeOK, TablesInv, TypeOK, RowsTypeOK
<1>4. CASE batch[s] # <<>>
  BY <1>2, <1>4, YieldInv DEF Resume
<1>5. CASE batch[s] = <<>> /\ final[s]
  <2>1. Returns(s, attached[s]) /\ UNCHANGED <<turn, attached, sent, batch, final>>
    BY <1>5 DEF Resume
  <2>2. /\ pc[t] = "ended"
        /\ status[t] # "deleted" => Follows(events[t], sent[s], <<>>) /\ Len(sent[s]) = Len(events[t])
    BY <1>1, <1>2, <1>3, <1>5 DEF Reading
  <2>3. QED
    BY <1>1, <1>2, <1>3, <1>5, <2>1, <2>2, ReturnsInv
<1>6. CASE batch[s] = <<>> /\ ~final[s] /\ woken[s]
  <2>1. Read(s, attached[s])
    BY <1>6 DEF Resume
  <2>2. ~attached[s] => pc[turn[s]] = "ended"
    BY <1>1, <1>2 DEF Reading
  <2>3. QED
    BY <1>2, <1>3, <1>6, <2>1, <2>2, ReadInv
<1>7. CASE batch[s] = <<>> /\ ~final[s] /\ ~woken[s]
  <2>1. at'[s] = "waiting" /\ UNCHANGED <<turn, attached, sent, batch, final>>
    BY <1>7 DEF Resume, StreamTypeOK
  <2>2. UNCHANGED <<pc, status, events, error>>
    BY <1>2 DEF vars, durable, handleVars
  <2>3. Batching(s)' /\ Reading(s, t)'
    BY <1>1, <1>2, <1>7, <2>1, <2>2 DEF Batching, Reading
  <2>4. QED
    BY <1>1, <2>1, <2>3 DEF ReaderInv
<1>8. QED
  BY <1>4, <1>5, <1>6, <1>7

LEMMA SubscribeInv ==
  ASSUME TablesInv, StreamTypeOK, NEW s \in Readers, ReaderInv(s), NEW t \in Turns, Subscribe(s, t)
  PROVE  ReaderInv(s)'
<1>1. /\ at'[s] = "created" /\ turn'[s] = t /\ at[s] = "off"
      /\ UNCHANGED <<vars, sent, batch>>
  BY DEF Subscribe, StreamTypeOK
<1>2. UNCHANGED <<pc, status, events, error>>
  BY <1>1 DEF vars, durable, handleVars
<1>3. pc[t] # "idle"
  <2>1. owner[t] \in Conversations /\ active[owner[t]] = t /\ t # None
    BY ConstantsAssumption DEF Subscribe, TablesInv, TypeOK, RowsTypeOK, ConstantsAssumption
  <2>2. QED
    BY <2>1 DEF TablesInv, Consistent, ActiveConsistent, Live, Executing
<1>4. sent[s] = <<>> /\ batch[s] = <<>>
  BY <1>1 DEF ReaderInv, Batching
<1>5. Follows(events[t], <<>>, <<>>)
  <2>1. Len(events[t]) \in Nat /\ Len(<<>>) = 0
    BY EmptySeq DEF TablesInv, TypeOK, RowsTypeOK
  <2>2. QED
    BY <2>1 DEF Follows
<1>6. Batching(s)' /\ Reading(s, t)'
  BY <1>1, <1>2, <1>3, <1>4, <1>5 DEF Batching, Reading
<1>7. QED
  BY <1>1, <1>6 DEF ReaderInv

LEMMA DisconnectInv ==
  ASSUME StreamTypeOK, NEW s \in Readers, Disconnect(s)
  PROVE  ReaderInv(s)'
BY DEF Disconnect, StreamTypeOK, ReaderInv, Batching

(* Types of what a reader takes *)
LEMMA ReadType ==
  ASSUME TablesInv, StreamTypeOK, NEW s \in Readers, ReaderInv(s), at[s] # "off",
         NEW h \in BOOLEAN, Read(s, h), UNCHANGED jobEvents
  PROVE  StreamTypeOK'
<1>1. PICK t \in Turns : t = turn[s] /\ Reading(s, t)
  BY DEF ReaderInv
<1>2. CASE status[t] = "deleted"
  BY <1>1, <1>2 DEF Read, Raises, StreamTypeOK
<1>3. CASE status[t] # "deleted"
  <2> DEFINE news == SubSeq(events[t], Len(sent[s]) + 1, Len(events[t]))
             finished == ~h \/ pc[t] = "ended"
  <2>1. events[t] \in Seq(Events) /\ sent[s] \in Seq(Events) /\ batch[s] \in Seq(Events)
    BY DEF TablesInv, TypeOK, RowsTypeOK, StreamTypeOK
  <2>2. Len(sent[s]) \in Nat /\ Len(sent[s]) <= Len(events[t])
    <3>1. Follows(events[t], sent[s], batch[s])
      BY <1>1, <1>3 DEF Reading
    <3>2. Len(sent[s]) \in Nat /\ Len(batch[s]) \in Nat /\ Len(events[t]) \in Nat
      BY <2>1
    <3>3. Len(sent[s]) + Len(batch[s]) <= Len(events[t])
      BY <3>1 DEF Follows
    <3>4. \A i, j, n \in Nat : i + j <= n => i <= n
      OBVIOUS
    <3>5. QED
      BY <3>2, <3>3, <3>4
  <2>3. news \in Seq(Events)
    BY <2>1, <2>2, RestOfLog
  <2>4. /\ woken' = [woken EXCEPT ![s] = FALSE]
        /\ final' = [final EXCEPT ![s] = finished]
        /\ attached' = [attached EXCEPT ![s] = h]
        /\ IF news # <<>>
           THEN /\ at' = [at EXCEPT ![s] = "yielding"]
                /\ sent' = [sent EXCEPT ![s] = Append(@, Head(news))]
                /\ batch' = [batch EXCEPT ![s] = Tail(news)]
           ELSE /\ IF finished THEN Returns(s, h) ELSE at' = [at EXCEPT ![s] = "waiting"]
                /\ UNCHANGED <<sent, batch>>
        /\ UNCHANGED turn
    BY <1>1, <1>3 DEF Read
  <2>5. finished \in BOOLEAN
    OBVIOUS
  <2> HIDE DEF news, finished
  <2>6. at' \in [Readers -> {"off", "created", "yielding", "waiting", "ended", "raised"}]
    BY <2>4 DEF StreamTypeOK, Returns
  <2>7. sent' \in [Readers -> Seq(Events)] /\ batch' \in [Readers -> Seq(Events)]
    <3>1. CASE news # <<>>
      <4>1. Append(sent[s], Head(news)) \in Seq(Events) /\ Tail(news) \in Seq(Events)
        BY <2>1, <2>3, <3>1, HeadTailProperties, AppendProperties
      <4>2. QED
        BY <2>4, <3>1, <4>1 DEF StreamTypeOK
    <3>2. CASE news = <<>>
      BY <2>4, <3>2 DEF StreamTypeOK
    <3>3. QED
      BY <3>1, <3>2
  <2>8. QED
    BY <2>4, <2>5, <2>6, <2>7 DEF StreamTypeOK
<1>4. QED
  BY <1>2, <1>3

LEMMA ReaderStepType ==
  ASSUME TablesInv, StreamTypeOK, NEW s \in Readers, ReaderInv(s), ReaderStep(s)
  PROVE  StreamTypeOK'
<1>1. attached[s] \in BOOLEAN /\ UNCHANGED jobEvents
  BY DEF ReaderStep, Open, Resume, Wake, StreamTypeOK
<1>2. CASE Open(s)
  BY <1>1, <1>2, ReadType DEF Open
<1>3. CASE Wake(s)
  BY <1>1, <1>3, ReadType DEF Wake
<1>4. CASE Resume(s)
  <2>1. CASE at[s] = "yielding" /\ Read(s, attached[s])
    BY <1>1, <2>1, ReadType
  <2>2. CASE batch[s] # <<>> /\ YieldNext(s)
    <3>1. Append(sent[s], Head(batch[s])) \in Seq(Events) /\ Tail(batch[s]) \in Seq(Events)
      BY <2>2, HeadTailProperties, AppendProperties DEF StreamTypeOK
    <3>2. QED
      BY <1>1, <2>2, <3>1 DEF YieldNext, StreamTypeOK
  <2>3. CASE /\ Returns(s, attached[s]) \/ at' = [at EXCEPT ![s] = "waiting"]
             /\ UNCHANGED <<turn, attached, sent, batch, final, woken>>
    BY <1>1, <2>3 DEF Returns, StreamTypeOK
  <2>4. QED
    BY <1>4, <2>1, <2>2, <2>3 DEF Resume
<1>5. QED
  BY <1>2, <1>3, <1>4 DEF ReaderStep

(* A step of one reader leaves the tables and the other readers alone. *)
LEMMA OthersKeep ==
  ASSUME TablesInv, StreamTypeOK, \A r \in Readers : ReaderInv(r), NEW s \in Readers,
         ReaderStep(s) \/ Disconnect(s) \/ \E t \in Turns : Subscribe(s, t)
  PROVE  TablesInv' /\ \A r \in Readers \ {s} : ReaderInv(r)'
<1>1. UNCHANGED vars
  BY DEF ReaderStep, Open, Resume, Wake, Disconnect, Subscribe
<1>2. TablesInv' /\ ServiceMoves
  BY <1>1, ServiceTables, ConstantsAssumption
<1>3. ASSUME NEW r \in Readers \ {s}
      PROVE  /\ at'[r] = at[r] /\ turn'[r] = turn[r] /\ attached'[r] = attached[r]
             /\ sent'[r] = sent[r] /\ batch'[r] = batch[r] /\ final'[r] = final[r]
  <2>1. CASE Disconnect(s) \/ \E t \in Turns : Subscribe(s, t)
    BY <2>1 DEF Disconnect, Subscribe, StreamTypeOK
  <2>2. ASSUME NEW h, Read(s, h)
        PROVE  /\ at'[r] = at[r] /\ turn'[r] = turn[r] /\ attached'[r] = attached[r]
               /\ sent'[r] = sent[r] /\ batch'[r] = batch[r] /\ final'[r] = final[r]
    BY <2>2 DEF Read, Raises, Returns, StreamTypeOK
  <2>3. CASE Resume(s)
    BY <2>2, <2>3 DEF Resume, YieldNext, Returns, StreamTypeOK
  <2>4. QED
    BY <2>1, <2>2, <2>3 DEF ReaderStep, Open, Wake
<1>4. QED
  BY <1>2, <1>3, ReaderKeeps
-----------------------------------------------------------------------------
LEMMA StreamInvInit ==
  ASSUME StreamInit
  PROVE  StreamInv
<1>1. TypeOK /\ Consistent
  BY InitInvariant, ConstantsAssumption DEF StreamInit
<1>2. TablesInv
  BY <1>1 DEF TablesInv, StreamInit, Init, DoneAndAnswerOnce
<1>3. StreamTypeOK
  <2>1. <<>> \in Seq(Events)
    BY EmptySeq
  <2>2. QED
    BY <2>1, ReadersAssumption DEF StreamInit, StreamTypeOK
<1>4. \A s \in Readers : ReaderInv(s)
  BY DEF StreamInit, ReaderInv, Batching
<1>5. QED
  BY <1>2, <1>3, <1>4 DEF StreamInv

LEMMA StreamInvNext ==
  ASSUME StreamInv, [StreamNext]_streamVars
  PROVE  StreamInv'
<1>1. ASSUME TablesInv', ServiceMoves, UNCHANGED <<at, turn, attached, sent, batch, final>>,
             woken' \in [Readers -> BOOLEAN], jobEvents' \in [Turns -> 0 .. MaxJobEvents]
      PROVE  StreamInv'
  <2>1. StreamTypeOK'
    BY <1>1 DEF StreamInv, StreamTypeOK
  <2>2. \A s \in Readers : ReaderInv(s)'
    BY <1>1, ReaderKeeps DEF StreamInv
  <2>3. QED
    BY <1>1, <2>1, <2>2 DEF StreamInv
<1>2. CASE TurnServiceStep
  <2>1. TablesInv' /\ ServiceMoves
    BY <1>2, ServiceTables, ConstantsAssumption DEF StreamInv, TurnServiceStep
  <2>2. woken' \in [Readers -> BOOLEAN] /\ UNCHANGED <<at, turn, attached, sent, batch, final, jobEvents>>
    BY <1>2 DEF TurnServiceStep, Notify, StreamInv, StreamTypeOK
  <2>3. QED
    BY <1>1, <2>1, <2>2 DEF StreamInv, StreamTypeOK
<1>3. ASSUME NEW t \in Turns, JobEvent(t)
      PROVE  StreamInv'
  <2>1. TablesInv' /\ ServiceMoves
    BY <1>3, JobEventTables, ConstantsAssumption DEF StreamInv, JobEvent
  <2>2. /\ woken' \in [Readers -> BOOLEAN] /\ UNCHANGED <<at, turn, attached, sent, batch, final>>
        /\ jobEvents' \in [Turns -> 0 .. MaxJobEvents]
    BY <1>3, ReadersAssumption DEF JobEvent, RecordJobEvent, Notify, StreamInv, StreamTypeOK
  <2>3. QED
    BY <1>1, <2>1, <2>2
<1>4. ASSUME NEW s \in Readers, ReaderStep(s) \/ Disconnect(s) \/ \E t \in Turns : Subscribe(s, t)
      PROVE  StreamInv'
  <2>1. TablesInv /\ StreamTypeOK /\ ReaderInv(s)
    BY DEF StreamInv
  <2>2. TablesInv' /\ \A r \in Readers \ {s} : ReaderInv(r)'
    BY <1>4, OthersKeep DEF StreamInv
  <2>3. StreamTypeOK'
    <3>1. CASE Disconnect(s)
      <4>1. <<>> \in Seq(Events)
        BY EmptySeq
      <4>2. QED
        BY <2>1, <3>1, <4>1 DEF Disconnect, StreamTypeOK
    <3>2. CASE \E t \in Turns : Subscribe(s, t)
      BY <2>1, <3>2 DEF Subscribe, StreamTypeOK
    <3>3. QED
      BY <1>4, <2>1, <3>1, <3>2, ReaderStepType
  <2>4. ReaderInv(s)'
    BY <1>4, <2>1, OpenInv, ResumeInv, WakeInv, SubscribeInv, DisconnectInv DEF ReaderStep
  <2>5. QED
    BY <2>2, <2>3, <2>4 DEF StreamInv
<1>5. CASE UNCHANGED streamVars
  <2>1. UNCHANGED vars /\ UNCHANGED <<at, turn, attached, sent, batch, final, woken, jobEvents>>
    BY <1>5 DEF streamVars, readerVars
  <2>2. TablesInv' /\ ServiceMoves
    BY <2>1, ServiceTables, ConstantsAssumption DEF StreamInv
  <2>3. QED
    BY <1>1, <2>1, <2>2 DEF StreamInv, StreamTypeOK
<1>6. QED
  BY <1>2, <1>3, <1>4, <1>5 DEF StreamNext

(* What readers hold and the tables agree at every step of the service, of *)
(* jobs and of the readers themselves (stream, start, _run).               *)
THEOREM StreamInvariant == StreamSpec => []StreamInv
<1>1. StreamInit => StreamInv
  BY StreamInvInit
<1>2. StreamInv /\ [StreamNext]_streamVars => StreamInv'
  BY StreamInvNext
<1>3. QED
  BY <1>1, <1>2, PTL DEF StreamSpec

(* A reader gets the events of its turn in order, none missing or twice,   *)
(* and a stream that returns has sent done as its last event (stream).     *)
THEOREM EventsAreDeliveredInOrder == StreamSpec => []DeliveredInOrder
<1>1. ASSUME StreamInv
      PROVE  DeliveredInOrder
  <2>1. ASSUME NEW s \in Readers, at[s] # "off", status[turn[s]] # "deleted"
        PROVE  /\ sent[s] \o batch[s] = SubSeq(events[turn[s]], 1, Len(sent[s]) + Len(batch[s]))
               /\ at[s] = "ended" =>
                    /\ sent[s] = events[turn[s]]
                    /\ sent[s] # <<>> /\ sent[s][Len(sent[s])][1] = "done"
    <3>1. PICK t \in Turns : t = turn[s] /\ Reading(s, t)
      BY <1>1, <2>1 DEF StreamInv, ReaderInv
    <3>2. events[t] \in Seq(Events) /\ sent[s] \in Seq(Events) /\ batch[s] \in Seq(Events)
      BY <1>1 DEF StreamInv, TablesInv, TypeOK, RowsTypeOK, StreamTypeOK
    <3>3. Follows(events[t], sent[s], batch[s])
      BY <2>1, <3>1 DEF Reading
    <3>4. sent[s] \o batch[s] = SubSeq(events[t], 1, Len(sent[s]) + Len(batch[s]))
      BY <3>2, <3>3, FollowsPrefix
    <3>5. ASSUME at[s] = "ended"
          PROVE  sent[s] = events[t] /\ sent[s] # <<>> /\ sent[s][Len(sent[s])][1] = "done"
      <4>1. batch[s] = <<>> /\ Len(<<>>) = 0
        BY <1>1, <3>5, EmptySeq DEF StreamInv, ReaderInv, Batching
      <4>2. Len(sent[s]) = Len(events[t]) /\ \A i \in 1 .. Len(sent[s]) : sent[s][i] = events[t][i]
        BY <2>1, <3>1, <3>2, <3>3, <3>5, <4>1 DEF Reading, Follows
      <4>3. sent[s] = events[t]
        BY <3>2, <4>2, SeqEqual
      <4>4. status[t] \in {"complete", "failed"}
        <5>1. status[t] # "unused"
          BY <1>1, <3>1 DEF Reading, StreamInv, TablesInv, Consistent, RowsConsistent
        <5>2. status[t] \in Statuses /\ status[t] # "interrupted"
          BY <1>1 DEF StreamInv, TablesInv, TypeOK, RowsTypeOK
        <5>3. QED
          BY <2>1, <3>1, <3>5, <5>1, <5>2 DEF Reading, Statuses
      <4>5. Len(events[t]) > 0 /\ events[t][Len(events[t])][1] = "done"
        BY <1>1, <4>4 DEF StreamInv, TablesInv, DoneAndAnswerOnce
      <4>6. QED
        BY <4>1, <4>3, <4>5
    <3>6. QED
      BY <3>1, <3>4, <3>5
  <2>2. QED
    BY <2>1 DEF DeliveredInOrder
<1>2. QED
  BY <1>1, StreamInvariant, PTL

(* A reader is told of an error only when the turn could not be settled or *)
(* was deleted, never because it looked at the wrong moment (stream).      *)
THEOREM ErrorsAreOfUnsettledTurns == StreamSpec => []RaisesOnlyUnsettled
<1>1. StreamInv => RaisesOnlyUnsettled
  BY DEF StreamInv, ReaderInv, Reading, RaisesOnlyUnsettled
<1>2. QED
  BY <1>1, StreamInvariant, PTL
=============================================================================
