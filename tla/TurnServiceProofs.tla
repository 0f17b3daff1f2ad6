-------------------------- MODULE TurnServiceProofs --------------------------
(* Theorems about TurnService, for any number of workspaces, conversations *)
(* and turns.  TypeOK and Consistent are inductive together; the safety    *)
(* properties follow from them.                                            *)
EXTENDS TurnService, TLAPS

-----------------------------------------------------------------------------
(* Facts about one state *)

(* A turn whose task has not ended belongs to a present conversation. *)
LEMMA LiveOwner ==
  ASSUME TypeOK, Consistent, NEW t \in Turns, pc[t] \in Live
  PROVE  /\ owner[t] \in Conversations
         /\ active[owner[t]] = t
         /\ status[t] = "running"
         /\ conversation[owner[t]] = "present"
BY DEF TypeOK, RowsTypeOK, Consistent, HandlesMatchRows, RowsConsistent

-----------------------------------------------------------------------------
(* Type correctness *)

LEMMA LiveWorkspace ==
  ASSUME TypeOK, Consistent, ConstantsAssumption, NEW t \in Turns, pc[t] \in Live
  PROVE  Workspace(t) \in Workspaces
BY LiveOwner DEF Workspace, ConstantsAssumption

LEMMA OutcomeType ==
  ASSUME RowsTypeOK, StopsTypeOK, NEW t \in Turns, owner[t] \in Conversations, NEW f \in Fates
  PROVE  /\ Outcome(t, f) \in Outcomes
         /\ ResumeRole(t, f) \in Roles \cup {NoRole}
         /\ <<"done", Outcome(t, f)>> \in Events
<1>1. Outcome(t, f) \in Outcomes
  BY DEF Outcome, Outcomes
<1>2. ResumeRole(t, f) \in Roles \cup {NoRole}
  BY DEF ResumeRole, Roles, RolesOf, RowsTypeOK, StopsTypeOK
<1>3. QED
  BY <1>1, <1>2 DEF Events

LEMMA FinishType ==
  ASSUME TypeOK, NEW t \in Turns, owner[t] \in Conversations, NEW f \in Fates,
         Finish(t, f) \/ FinishRaises(t)
  PROVE  /\ status' \in [Turns -> Statuses]
         /\ interruptedRole' \in [Conversations -> Roles \cup {NoRole}]
         /\ events' \in [Turns -> Seq(Events)]
         /\ answers' \in [Turns -> Nat]
         /\ error' \in [Turns -> BOOLEAN]
<1> USE DEF TypeOK
<1>1. CASE Finish(t, f)
  <2>1. status' \in [Turns -> Statuses]
    BY <1>1 DEF Finish, Statuses, RowsTypeOK
  <2>2. interruptedRole' \in [Conversations -> Roles \cup {NoRole}]
    BY <1>1, OutcomeType DEF Finish, RowsTypeOK
  <2>3. events' \in [Turns -> Seq(Events)]
    <3>1. Append(events[t], <<"done", Outcome(t, f)>>) \in Seq(Events)
      BY OutcomeType DEF RowsTypeOK
    <3>2. QED
      BY <1>1, <3>1 DEF Finish, RowsTypeOK
  <2>4. answers' \in [Turns -> Nat]
    BY <1>1 DEF Finish, RowsTypeOK
  <2>5. error' \in [Turns -> BOOLEAN]
    BY <1>1 DEF Finish, TasksTypeOK
  <2>6. QED
    BY <2>1, <2>2, <2>3, <2>4, <2>5
<1>2. CASE FinishRaises(t)
  BY <1>2 DEF FinishRaises, RowsTypeOK, TasksTypeOK
<1>3. QED
  BY <1>1, <1>2

LEMMA FinalizeType ==
  ASSUME TypeOK, NEW t \in Turns, owner[t] \in Conversations, NEW f \in Fates, Finalize(t, f)
  PROVE  TypeOK'
<1>1. RowsTypeOK'
  BY FinishType DEF TypeOK, Finalize, RowsTypeOK
<1>2. StopsTypeOK'
  BY DEF TypeOK, Finalize, StopsTypeOK
<1>3. TasksTypeOK'
  BY FinishType DEF TypeOK, Finalize, TasksTypeOK, Fates
<1>4. ServiceTypeOK'
  <2>1. holder' \in [Workspaces -> Turns \cup Conversations \cup {None}]
    BY DEF TypeOK, Finalize, Release, ServiceTypeOK
  <2>2. active' \in [Conversations -> Turns \cup {None}]
    BY DEF TypeOK, Finalize, ServiceTypeOK
  <2>3. QED
    BY <2>1, <2>2 DEF TypeOK, Finalize, ServiceTypeOK
<1>5. QED
  BY <1>1, <1>2, <1>3, <1>4 DEF TypeOK

LEMMA LeaveType ==
  ASSUME TypeOK, NEW t \in Turns, owner[t] \in Conversations, NEW f \in Fates, Leave(t, f)
  PROVE  TypeOK'
<1>1. CASE Finalize(t, f)
  BY <1>1, FinalizeType
<1>2. CASE EnterCleanup(t, f)
  <2>1. RowsTypeOK' /\ StopsTypeOK' /\ ServiceTypeOK'
    BY <1>2 DEF EnterCleanup, TypeOK, durable, stopVars, serviceVars,
                RowsTypeOK, StopsTypeOK, ServiceTypeOK
  <2>2. TasksTypeOK'
    BY <1>2 DEF EnterCleanup, TypeOK, TasksTypeOK, Live, Executing, Failures
  <2>3. QED
    BY <2>1, <2>2 DEF TypeOK
<1>3. QED
  BY <1>1, <1>2 DEF Leave

LEMMA RequestCancelType ==
  ASSUME TypeOK, NEW T, RequestCancel(T)
  PROVE  StopsTypeOK'
BY DEF TypeOK, StopsTypeOK, TasksTypeOK, RequestCancel

LEMMA RequestType ==
  ASSUME TypeOK, ConstantsAssumption, Request
  PROVE  TypeOK'
<1> USE DEF TypeOK, RowsTypeOK, TasksTypeOK, ServiceTypeOK
<1>1. ASSUME NEW c \in Conversations, NEW m \in Modes, CreateConversation(c, m)
      PROVE  TypeOK'
  <2>1. /\ conversation' \in [Conversations -> {"absent", "present", "deleted"}]
        /\ mode' \in [Conversations -> {"single", "orchestrated"}]
    BY <1>1 DEF CreateConversation, ConstantsAssumption
  <2>2. QED
    BY <1>1, <2>1 DEF CreateConversation, StopsTypeOK, handleVars, stopVars, serviceVars
<1>2. ASSUME NEW c \in Conversations, NEW t \in Turns, NEW m \in Modes,
             NEW r \in Roles \cup {NoRole, None}, Start(c, t, m, r)
      PROVE  TypeOK'
  <2>1. \E nm \in {"single", "orchestrated"}, rr \in Roles \cup {NoRole} :
           mode' = [mode EXCEPT ![c] = nm] /\ interruptedRole' = [interruptedRole EXCEPT ![c] = rr]
    BY <1>2 DEF Start, ActiveRole, Roles, RolesOf, ConstantsAssumption
  <2>2. /\ mode' \in [Conversations -> {"single", "orchestrated"}]
        /\ interruptedRole' \in [Conversations -> Roles \cup {NoRole}]
    BY <2>1
  <2>3. /\ status' \in [Turns -> Statuses]
        /\ owner' \in [Turns -> Conversations \cup {None}]
        /\ active' \in [Conversations -> Turns \cup {None}]
        /\ pc' \in [Turns -> {"idle", "ended"} \cup Live]
    BY <1>2 DEF Start, Statuses, Live
  <2>4. QED
    BY <1>2, <2>2, <2>3 DEF Start, stopVars, StopsTypeOK
<1>3. ASSUME NEW c \in Conversations, NEW t \in Turns, Cancel(c, t)
      PROVE  TypeOK'
  <2>1. StopsTypeOK'
    BY <1>3, RequestCancelType DEF Cancel
  <2>2. QED
    BY <1>3, <2>1 DEF Cancel, durable, serviceVars
<1>4. ASSUME NEW c \in Conversations, DeleteRequest(c)
      PROVE  TypeOK'
  <2>1. deletion' \in [Conversations -> {"none", "created", "waiting", "locking", "cleanup"}]
    BY <1>4 DEF DeleteRequest
  <2>2. QED
    BY <1>4, <2>1 DEF DeleteRequest, StopsTypeOK, durable, handleVars, stopVars
<1>5. CASE Close
  <2>1. StopsTypeOK'
    BY <1>5, RequestCancelType DEF Close
  <2>2. QED
    BY <1>5, <2>1 DEF Close, durable
<1>6. QED
  BY <1>1, <1>2, <1>3, <1>4, <1>5 DEF Request

LEMMA RecordType ==
  ASSUME TypeOK, NEW t \in Turns, role' \in [Turns -> Roles \cup {NoRole}],
         ready' \in [Turns -> BOOLEAN], NEW e \in Events,
         Record(t, e) \/ RecordRaises(t), RecordFrame
  PROVE  TypeOK'
<1> USE DEF TypeOK
<1>1. ServiceTypeOK'
  BY DEF RecordFrame, serviceVars, ServiceTypeOK
<1>2. CASE Record(t, e)
  <2>1. Append(events[t], e) \in Seq(Events)
    BY DEF RowsTypeOK
  <2>2. RowsTypeOK'
    BY <1>2, <2>1 DEF Record, RecordFrame, RowsTypeOK
  <2>3. StopsTypeOK'
    BY <1>2 DEF Record, RecordFrame, StopsTypeOK
  <2>4. TasksTypeOK'
    BY <1>2 DEF Record, RecordFrame, TasksTypeOK
  <2>5. QED
    BY <1>1, <2>2, <2>3, <2>4
<1>3. CASE RecordRaises(t)
  <2>1. RowsTypeOK' /\ StopsTypeOK'
    BY <1>3 DEF RecordRaises, RecordFrame, RowsTypeOK, StopsTypeOK
  <2>2. TasksTypeOK'
    BY <1>3 DEF RecordRaises, RecordFrame, TasksTypeOK, Live, Executing, Fates
  <2>3. QED
    BY <1>1, <2>1, <2>2
<1>4. QED
  BY <1>2, <1>3

LEMMA TurnStepType ==
  ASSUME TypeOK, Consistent, ConstantsAssumption, NEW t \in Turns, TurnStep(t)
  PROVE  TypeOK'
<1>0. fate[t] \in Fates /\ "error" \in Fates /\ "cancelled" \in Fates
  BY DEF TypeOK, TasksTypeOK, Fates
<1> USE DEF TypeOK
<1>1. ASSUME NEW p \in Live, pc' = [pc EXCEPT ![t] = p],
             \/ UNCHANGED holder
             \/ \E w \in Workspaces : holder' = [holder EXCEPT ![w] = t],
             UNCHANGED <<durable, stopVars, role, ready, fate, wrong, error,
                         service, active, deletion, awaited>>
      PROVE  TypeOK'
  <2>1. RowsTypeOK' /\ StopsTypeOK'
    BY <1>1 DEF durable, stopVars, RowsTypeOK, StopsTypeOK
  <2>2. TasksTypeOK'
    BY <1>1 DEF TasksTypeOK
  <2>3. holder' \in [Workspaces -> Turns \cup Conversations \cup {None}]
    BY <1>1 DEF ServiceTypeOK
  <2>4. ServiceTypeOK'
    BY <1>1, <2>3 DEF ServiceTypeOK
  <2>5. QED
    BY <2>1, <2>2, <2>4
<1>2. CASE Begin(t)
  <2>1. owner[t] \in Conversations
    BY <1>2, LiveOwner DEF Begin, Live
  <2>2. CASE Finalize(t, "cancelled")
    BY <2>1, <2>2, <1>0, FinalizeType
  <2>3. CASE ~Finalize(t, "cancelled")
    <3>1. "driving" \in Live /\ "locking" \in Live /\ Workspace(t) \in Workspaces
      BY <1>2, LiveWorkspace DEF Begin, Live, Executing
    <3>2. CASE LockFree(Workspace(t))
      BY <1>1, <1>2, <2>3, <3>1, <3>2 DEF Begin
    <3>3. CASE ~LockFree(Workspace(t))
      BY <1>1, <1>2, <2>3, <3>1, <3>3 DEF Begin
    <3>4. QED
      BY <3>2, <3>3
  <2>4. QED
    BY <2>2, <2>3
<1>3. CASE Acquire(t)
  <2>1. "driving" \in Live /\ Workspace(t) \in Workspaces
    BY <1>3, LiveWorkspace DEF Acquire, Live, Executing
  <2>2. QED
    BY <1>1, <1>3, <2>1 DEF Acquire
<1>4. CASE OtherEvent(t)
  <2>1. <<"event", NoRole>> \in Events
    BY DEF Events
  <2>2. role' \in [Turns -> Roles \cup {NoRole}] /\ ready' \in [Turns -> BOOLEAN]
    BY <1>4 DEF OtherEvent, TasksTypeOK
  <2>3. QED
    BY <1>4, <2>1, <2>2, RecordType DEF OtherEvent
<1>5. CASE RoleReady(t)
  <2>1. <<"role_ready", role[t]>> \in Events
    BY <1>5 DEF RoleReady, TasksTypeOK, Events
  <2>2. role' \in [Turns -> Roles \cup {NoRole}] /\ ready' \in [Turns -> BOOLEAN]
    BY <1>5 DEF RoleReady, TasksTypeOK
  <2>3. QED
    BY <1>5, <2>1, <2>2, RecordType DEF RoleReady
<1>6. ASSUME NEW r \in Roles, RoleStart(t, r)
      PROVE  TypeOK'
  <2>1. <<"role_start", r>> \in Events
    BY DEF Events
  <2>2. role' \in [Turns -> Roles \cup {NoRole}] /\ ready' \in [Turns -> BOOLEAN]
    BY <1>6 DEF RoleStart, TasksTypeOK
  <2>3. QED
    BY <1>6, <2>1, <2>2, RecordType DEF RoleStart
<1>7. ASSUME NEW f \in {"answer", "reply", "failed"}, DriverResult(t, f)
      PROVE  TypeOK'
  <2>1. RowsTypeOK' /\ StopsTypeOK' /\ ServiceTypeOK'
    BY <1>7 DEF DriverResult, durable, stopVars, serviceVars, RowsTypeOK, StopsTypeOK, ServiceTypeOK
  <2>2. TasksTypeOK'
    BY <1>7 DEF DriverResult, TasksTypeOK, Live, Executing, Fates, Failures
  <2>3. QED
    BY <2>1, <2>2
<1>8. CASE DriverRaises(t)
  <2>1. owner[t] \in Conversations
    BY <1>8, LiveOwner DEF DriverRaises, Driving, Live, Executing
  <2>2. QED
    BY <1>8, <1>0, <2>1, LeaveType DEF DriverRaises
<1>9. CASE DriverClosed(t)
  <2>1. owner[t] \in Conversations
    BY <1>9, LiveOwner DEF DriverClosed, Live, Executing
  <2>2. QED
    BY <1>9, <1>0, <2>1, LeaveType DEF DriverClosed
<1>10. CASE CleanupDone(t)
  <2>1. owner[t] \in Conversations
    BY <1>10, LiveOwner DEF CleanupDone, Live, Executing
  <2>2. QED
    BY <1>10, <1>0, <2>1, FinalizeType DEF CleanupDone
<1>11. CASE DeliverCancel(t)
  <2>1. CASE pc[t] = "locking" /\ Finalize(t, "cancelled")
    <3>1. owner[t] \in Conversations
      BY <2>1, LiveOwner DEF Live
    <3>2. QED
      BY <2>1, <3>1, <1>0, FinalizeType
  <2>2. CASE ~(pc[t] = "locking" /\ Finalize(t, "cancelled"))
    <3>1. RowsTypeOK' /\ ServiceTypeOK'
      BY <1>11, <2>2 DEF DeliverCancel, durable, serviceVars, RowsTypeOK, ServiceTypeOK
    <3>2. StopsTypeOK'
      BY <1>11, <2>2 DEF DeliverCancel, StopsTypeOK
    <3>3. pc' \in [Turns -> {"idle", "ended"} \cup Live]
      BY <1>11, <2>2 DEF DeliverCancel, TasksTypeOK, Live, Executing
    <3>4. fate' \in [Turns -> Fates]
      BY <1>11, <2>2 DEF DeliverCancel, TasksTypeOK, Fates
    <3>5. TasksTypeOK'
      BY <1>11, <2>2, <3>3, <3>4 DEF DeliverCancel, TasksTypeOK
    <3>6. QED
      BY <3>1, <3>2, <3>5
  <2>3. QED
    BY <2>1, <2>2
<1>12. CASE ForceCancel(t)
  <2>1. StopsTypeOK'
    BY <1>12 DEF ForceCancel, StopsTypeOK, TasksTypeOK
  <2>2. QED
    BY <1>12, <2>1 DEF ForceCancel, durable, serviceVars, RowsTypeOK, TasksTypeOK, ServiceTypeOK
<1>13. CASE CallbackRaises(t)
  <2>1. RowsTypeOK' /\ StopsTypeOK' /\ ServiceTypeOK'
    BY <1>13 DEF CallbackRaises, durable, stopVars, serviceVars, RowsTypeOK, StopsTypeOK, ServiceTypeOK
  <2>2. TasksTypeOK'
    BY <1>13 DEF CallbackRaises, TasksTypeOK, Failures
  <2>3. QED
    BY <2>1, <2>2
<1>14. QED
  BY <1>2, <1>3, <1>4, <1>5, <1>6, <1>7, <1>8, <1>9, <1>10, <1>11, <1>12, <1>13 DEF TurnStep

LEMMA DeletionStepType ==
  ASSUME TypeOK, ConstantsAssumption, NEW c \in Conversations, DeletionStep(c)
  PROVE  TypeOK'
<1> USE DEF TypeOK
<1>1. ASSUME RemoveLocks(c)
      PROVE  /\ deletion' \in [Conversations -> {"none", "created", "waiting", "locking", "cleanup"}]
             /\ holder' \in [Workspaces -> Turns \cup Conversations \cup {None}]
  BY <1>1 DEF RemoveLocks, ServiceTypeOK
<1>2. CASE RemoveBegin(c)
  <2>1. RowsTypeOK' /\ TasksTypeOK'
    BY <1>2 DEF RemoveBegin, durable, RowsTypeOK, TasksTypeOK
  <2>2. StopsTypeOK'
    BY <1>2, RequestCancelType DEF RemoveBegin, stopVars, StopsTypeOK
  <2>3. ServiceTypeOK'
    <3>1. CASE active[c] = None
      BY <1>1, <1>2, <3>1 DEF RemoveBegin, ServiceTypeOK
    <3>2. CASE active[c] # None
      BY <1>2, <3>2 DEF RemoveBegin, ServiceTypeOK
    <3>3. QED
      BY <3>1, <3>2
  <2>4. QED
    BY <2>1, <2>2, <2>3
<1>3. CASE RemoveWaited(c)
  <2>1. RowsTypeOK' /\ TasksTypeOK' /\ StopsTypeOK'
    BY <1>3 DEF RemoveWaited, durable, handleVars, stopVars, RowsTypeOK, TasksTypeOK, StopsTypeOK
  <2>2. ServiceTypeOK'
    <3>1. CASE RemoveLocks(c)
      BY <1>1, <1>3, <3>1 DEF RemoveWaited, ServiceTypeOK
    <3>2. CASE ~RemoveLocks(c)
      BY <1>3, <3>2 DEF RemoveWaited, ServiceTypeOK
    <3>3. QED
      BY <3>1, <3>2
  <2>3. QED
    BY <2>1, <2>2
<1>4. CASE RemoveAcquires(c)
  <2>1. RowsTypeOK' /\ TasksTypeOK' /\ StopsTypeOK'
    BY <1>4 DEF RemoveAcquires, durable, handleVars, stopVars, RowsTypeOK, TasksTypeOK, StopsTypeOK
  <2>2. ServiceTypeOK'
    BY <1>4 DEF RemoveAcquires, ServiceTypeOK
  <2>3. QED
    BY <2>1, <2>2
<1>5. CASE RemoveDone(c)
  <2>1. TasksTypeOK' /\ StopsTypeOK'
    BY <1>5 DEF RemoveDone, handleVars, stopVars, TasksTypeOK, StopsTypeOK
  <2>2. ServiceTypeOK'
    <3>1. deletion' \in [Conversations -> {"none", "created", "waiting", "locking", "cleanup"}]
      BY <1>5 DEF RemoveDone, ServiceTypeOK
    <3>2. holder' \in [Workspaces -> Turns \cup Conversations \cup {None}]
      BY <1>5 DEF RemoveDone, Release, ServiceTypeOK
    <3>3. QED
      BY <1>5, <3>1, <3>2 DEF RemoveDone, ServiceTypeOK
  <2>3. RowsTypeOK'
    <3>1. \/ events' = [t \in Turns |-> IF owner[t] = c THEN <<>> ELSE events[t]]
          \/ events' = events
      BY <1>5 DEF RemoveDone
    <3>2. events' \in [Turns -> Seq(Events)]
      <4>1. \A t \in Turns : (IF owner[t] = c THEN <<>> ELSE events[t]) \in Seq(Events)
        BY DEF RowsTypeOK
      <4>2. events \in [Turns -> Seq(Events)]
        BY DEF RowsTypeOK
      <4>3. QED
        BY <3>1, <4>1, <4>2
    <3>3. conversation' \in [Conversations -> {"absent", "present", "deleted"}]
      BY <1>5 DEF RemoveDone, RowsTypeOK
    <3>4. status' \in [Turns -> Statuses]
      BY <1>5 DEF RemoveDone, RowsTypeOK, Statuses
    <3>5. \/ answers' = [t \in Turns |-> IF owner[t] = c THEN 0 ELSE answers[t]]
          \/ answers' = answers
      BY <1>5 DEF RemoveDone
    <3>6. answers' \in [Turns -> Nat]
      BY <3>5 DEF RowsTypeOK
    <3>7. QED
      BY <1>5, <3>2, <3>3, <3>4, <3>6 DEF RemoveDone, RowsTypeOK
  <2>4. QED
    BY <2>1, <2>2, <2>3
<1>6. QED
  BY <1>2, <1>3, <1>4, <1>5 DEF DeletionStep

LEMMA NextType ==
  ASSUME TypeOK, Consistent, ConstantsAssumption, [Next]_vars
  PROVE  TypeOK'
<1>1. CASE Closed
  BY <1>1 DEF Closed, TypeOK, durable, handleVars, stopVars,
              RowsTypeOK, StopsTypeOK, TasksTypeOK, ServiceTypeOK
<1>2. CASE UNCHANGED vars
  BY <1>2 DEF TypeOK, vars, durable, handleVars, stopVars, serviceVars,
              RowsTypeOK, StopsTypeOK, TasksTypeOK, ServiceTypeOK
<1>3. QED
  BY <1>1, <1>2, RequestType, TurnStepType, DeletionStepType DEF Next

-----------------------------------------------------------------------------
(* Consistency of rows, tasks, handles, locks and deletions.  Most steps   *)
(* do not touch what Consistent relates, or move one task that holds the   *)
(* workspace to another point inside it.                                   *)

related == <<conversation, status, owner, pc, error, service, active, holder, deletion, awaited>>

LEMMA UnrelatedStep ==
  ASSUME Consistent, UNCHANGED <<related, events>>
  PROVE  Consistent'
BY DEF Consistent, related, HandlesMatchRows, RowsConsistent, ActiveConsistent, LockConsistent,
       DeletionConsistent, ClosedConsistent, OneRunningTurn, Workspace

LEMMA InsideStep ==
  ASSUME TypeOK, Consistent, NEW t \in Turns, pc[t] \in Executing, NEW p \in Executing,
         pc' = [pc EXCEPT ![t] = p],
         \A u \in Turns : u # t => events'[u] = events[u],
         UNCHANGED <<conversation, status, owner, error, service, active, holder, deletion, awaited>>
  PROVE  Consistent'
<1> USE DEF Consistent
<1>1. /\ pc'[t] \in Executing /\ \A u \in Turns : u # t => pc'[u] = pc[u]
      /\ p \in Live /\ pc[t] \in Live
  BY DEF TypeOK, TasksTypeOK, Live
<1>2. HandlesMatchRows'
  BY <1>1 DEF HandlesMatchRows
<1>3. RowsConsistent'
  BY <1>1, LiveOwner DEF RowsConsistent, Live, Executing
<1>4. ActiveConsistent'
  BY <1>1 DEF ActiveConsistent, TypeOK, ServiceTypeOK
<1>5. LockConsistent'
  BY <1>1 DEF LockConsistent, Workspace
<1>6. DeletionConsistent' /\ ClosedConsistent' /\ OneRunningTurn'
  BY DEF DeletionConsistent, ClosedConsistent, OneRunningTurn
<1>7. QED
  BY <1>2, <1>3, <1>4, <1>5, <1>6

LEMMA FinalizeStep ==
  ASSUME TypeOK, Consistent, ConstantsAssumption, NEW t \in Turns, pc[t] \in Live,
         NEW f \in Fates, Finalize(t, f)
  PROVE  Consistent'
<1> USE DEF Consistent
<1>1. /\ owner[t] \in Conversations /\ active[owner[t]] = t /\ status[t] = "running"
      /\ conversation[owner[t]] = "present"
  BY LiveOwner
<1>2. /\ pc'[t] = "ended" /\ pc'[t] \notin Live
      /\ \A u \in Turns : u # t => pc'[u] = pc[u]
      /\ UNCHANGED <<conversation, owner, service, deletion, awaited>>
  BY DEF Finalize, TypeOK, TasksTypeOK, Live, Executing
<1>3. \A c \in Conversations : active'[c] = IF c = owner[t] THEN None ELSE active[c]
  BY <1>1 DEF Finalize, TypeOK, ServiceTypeOK
<1>4. /\ \A u \in Turns : u # t => /\ status'[u] = status[u]
                                  /\ events'[u] = events[u]
                                  /\ error'[u] = error[u]
      /\ \/ status'[t] \in {"failed", "complete"}
         \/ status'[t] = "running" /\ error'[t]
  BY <1>1 DEF Finalize, Finish, FinishRaises, TypeOK, RowsTypeOK, TasksTypeOK
<1>5. \A w \in Workspaces : holder'[w] = IF holder[w] = t THEN None ELSE holder[w]
  BY DEF Finalize, Release
<1>6. HandlesMatchRows'
  <2>1. \A u \in Turns : u # t /\ pc[u] \in Live => owner[u] # owner[t]
    BY <1>1 DEF HandlesMatchRows
  <2>2. QED
    BY <1>1, <1>2, <1>3, <1>4, <2>1, LiveOwner DEF HandlesMatchRows
<1>7. RowsConsistent'
  BY <1>1, <1>2, <1>4 DEF RowsConsistent
<1>8. ActiveConsistent'
  BY <1>1, <1>2, <1>3 DEF ActiveConsistent, TypeOK, ServiceTypeOK
<1>9. LockConsistent'
  <2>1. t # None /\ \A c \in Conversations : c # t
    BY DEF ConstantsAssumption
  <2>2. ASSUME NEW w \in Workspaces, NEW u \in Turns
        PROVE  holder'[w] = u <=> (pc'[u] \in Executing /\ WorkspaceOf[owner[u]] = w)
    <3>1. u # None
      BY DEF ConstantsAssumption
    <3>2. CASE u = t
      BY <1>2, <1>5, <2>1, <3>2 DEF Live
    <3>3. CASE u # t
      BY <1>2, <1>5, <3>1, <3>3 DEF LockConsistent, Workspace
    <3>4. QED
      BY <3>2, <3>3
  <2>3. ASSUME NEW w \in Workspaces, NEW c \in Conversations
        PROVE  holder'[w] = c <=> (deletion[c] = "cleanup" /\ WorkspaceOf[c] = w)
    BY <1>5, <2>1 DEF LockConsistent, ConstantsAssumption
  <2>4. QED
    BY <1>2, <2>2, <2>3 DEF LockConsistent, Workspace
<1>10. DeletionConsistent' /\ ClosedConsistent'
  BY <1>1, <1>2, <1>3 DEF DeletionConsistent, ClosedConsistent
<1>11. OneRunningTurn'
  <2>1. \A u \in Turns : status'[u] = "running" => status[u] = "running"
    BY <1>1, <1>4
  <2>2. QED
    BY <1>2, <2>1 DEF OneRunningTurn
<1>12. QED
  BY <1>6, <1>7, <1>8, <1>9, <1>10, <1>11

LEMMA EnterStep ==
  ASSUME TypeOK, Consistent, ConstantsAssumption, NEW t \in Turns, pc[t] \in {"created", "locking"},
         \/ pc' = [pc EXCEPT ![t] = "locking"] /\ UNCHANGED holder
         \/ /\ holder[Workspace(t)] = None
            /\ pc' = [pc EXCEPT ![t] = "driving"]
            /\ holder' = [holder EXCEPT ![Workspace(t)] = t],
         UNCHANGED <<conversation, status, owner, events, error, service, active, deletion, awaited>>
  PROVE  Consistent'
<1> USE DEF Consistent
<1>1. /\ pc[t] \in Live /\ pc[t] \notin Executing /\ pc'[t] \in Live
      /\ \A u \in Turns : u # t => pc'[u] = pc[u]
  BY DEF TypeOK, TasksTypeOK, Live, Executing
<1>2. HandlesMatchRows'
  BY <1>1 DEF HandlesMatchRows
<1>3. RowsConsistent'
  BY <1>1, LiveOwner DEF RowsConsistent
<1>4. ActiveConsistent'
  BY <1>1 DEF ActiveConsistent, TypeOK, ServiceTypeOK
<1>5. LockConsistent'
  <2>1. CASE pc' = [pc EXCEPT ![t] = "locking"] /\ UNCHANGED holder
    <3>1. pc'[t] \notin Executing
      BY <2>1 DEF TypeOK, TasksTypeOK, Executing
    <3>2. QED
      BY <1>1, <2>1, <3>1 DEF LockConsistent, Workspace
  <2>2. CASE /\ holder[Workspace(t)] = None
             /\ pc' = [pc EXCEPT ![t] = "driving"]
             /\ holder' = [holder EXCEPT ![Workspace(t)] = t]
    <3>1. pc'[t] \in Executing
      BY <2>2 DEF TypeOK, TasksTypeOK, Executing
    <3>2. \A w \in Workspaces : holder'[w] = IF w = Workspace(t) THEN t ELSE holder[w]
      BY <2>2 DEF TypeOK, ServiceTypeOK
    <3>3. /\ \A u \in Turns : u # None /\ (pc[u] \in Executing => Workspace(u) # Workspace(t))
          /\ \A c \in Conversations :
               c # None /\ c # t /\ (deletion[c] = "cleanup" => WorkspaceOf[c] # Workspace(t))
      <4>1. Workspace(t) \in Workspaces
        BY <1>1, LiveWorkspace
      <4>2. QED
        BY <2>2, <4>1 DEF LockConsistent, ConstantsAssumption
    <3>4. QED
      BY <1>1, <3>1, <3>2, <3>3 DEF LockConsistent, Workspace
  <2>3. QED
    BY <2>1, <2>2
<1>6. DeletionConsistent' /\ ClosedConsistent' /\ OneRunningTurn'
  BY DEF DeletionConsistent, ClosedConsistent, OneRunningTurn
<1>7. QED
  BY <1>2, <1>3, <1>4, <1>5, <1>6

LEMMA LeaveStep ==
  ASSUME TypeOK, Consistent, ConstantsAssumption, NEW t \in Turns, pc[t] \in Executing,
         NEW f \in Fates, Leave(t, f)
  PROVE  Consistent'
<1>1. CASE Finalize(t, f)
  BY <1>1, FinalizeStep DEF Live
<1>2. CASE EnterCleanup(t, f)
  BY <1>2, InsideStep DEF EnterCleanup, durable, serviceVars, Executing
<1>3. QED
  BY <1>1, <1>2 DEF Leave

LEMMA RecordStep ==
  ASSUME TypeOK, Consistent, NEW t \in Turns, pc[t] \in Executing, NEW e \in Events,
         Record(t, e) \/ RecordRaises(t), RecordFrame
  PROVE  Consistent'
<1>1. \A u \in Turns : u # t => events'[u] = events[u]
  BY DEF Record, RecordRaises, TypeOK, RowsTypeOK
<1>2. \E p \in Executing : pc' = [pc EXCEPT ![t] = p]
  <2>1. CASE Record(t, e)
    BY <2>1 DEF Record, TypeOK, TasksTypeOK
  <2>2. CASE RecordRaises(t)
    BY <2>2 DEF RecordRaises, Executing
  <2>3. QED
    BY <2>1, <2>2
<1>3. QED
  BY <1>1, <1>2, InsideStep DEF RecordFrame, serviceVars

LEMMA TurnStepConsistent ==
  ASSUME TypeOK, Consistent, ConstantsAssumption, NEW t \in Turns, TurnStep(t)
  PROVE  Consistent'
<1>0. /\ fate[t] \in Fates /\ "error" \in Fates /\ "cancelled" \in Fates
      /\ {"created", "locking"} \cup Executing \subseteq Live
  BY DEF TypeOK, TasksTypeOK, Fates, Live
<1> USE DEF durable, serviceVars
<1>1. CASE Begin(t)
  <2>1. CASE Finalize(t, "cancelled")
    BY <1>0, <1>1, <2>1, FinalizeStep DEF Begin
  <2>2. CASE ~Finalize(t, "cancelled") /\ LockFree(Workspace(t))
    BY <1>1, <2>2, EnterStep DEF Begin, LockFree
  <2>3. CASE ~Finalize(t, "cancelled") /\ ~LockFree(Workspace(t))
    BY <1>1, <2>3, EnterStep DEF Begin
  <2>4. QED
    BY <2>1, <2>2, <2>3
<1>2. CASE Acquire(t)
  BY <1>2, EnterStep DEF Acquire
<1>3. CASE OtherEvent(t)
  <2>1. <<"event", NoRole>> \in Events /\ pc[t] \in Executing
    BY <1>3 DEF OtherEvent, Driving, Events, Executing
  <2>2. QED
    BY <1>3, <2>1, RecordStep DEF OtherEvent
<1>4. CASE RoleReady(t)
  <2>1. <<"role_ready", role[t]>> \in Events /\ pc[t] \in Executing
    BY <1>4 DEF RoleReady, Driving, Events, Executing, TypeOK, TasksTypeOK
  <2>2. QED
    BY <1>4, <2>1, RecordStep DEF RoleReady
<1>5. ASSUME NEW r \in Roles, RoleStart(t, r)
      PROVE  Consistent'
  <2>1. <<"role_start", r>> \in Events /\ pc[t] \in Executing
    BY <1>5 DEF RoleStart, Driving, Events, Executing
  <2>2. QED
    BY <1>5, <2>1, RecordStep DEF RoleStart
<1>6. ASSUME NEW f \in {"answer", "reply", "failed"}, DriverResult(t, f)
      PROVE  Consistent'
  BY <1>6, InsideStep DEF DriverResult, Driving, Executing
<1>7. CASE DriverRaises(t)
  BY <1>0, <1>7, LeaveStep DEF DriverRaises, Driving, Executing
<1>8. CASE DriverClosed(t)
  BY <1>0, <1>8, LeaveStep DEF DriverClosed, Executing
<1>9. CASE CleanupDone(t)
  <2>1. pc[t] \in Live
    BY <1>9 DEF CleanupDone, Live, Executing
  <2>2. QED
    BY <1>0, <1>9, <2>1, FinalizeStep DEF CleanupDone
<1>10. CASE DeliverCancel(t)
  <2>1. CASE pc[t] = "locking" /\ Finalize(t, "cancelled")
    BY <1>0, <2>1, FinalizeStep
  <2>2. CASE ~(pc[t] = "locking" /\ Finalize(t, "cancelled"))
    <3>1. \E p \in Executing : pc' = [pc EXCEPT ![t] = p]
      BY <1>10, <2>2 DEF DeliverCancel, Executing
    <3>2. QED
      BY <1>10, <2>2, <3>1, InsideStep DEF DeliverCancel
  <2>3. QED
    BY <2>1, <2>2
<1>11. CASE ForceCancel(t) \/ CallbackRaises(t)
  BY <1>11, UnrelatedStep DEF ForceCancel, CallbackRaises, related
<1>12. QED
  BY <1>1, <1>2, <1>3, <1>4, <1>5, <1>6, <1>7, <1>8, <1>9, <1>10, <1>11 DEF TurnStep

LEMMA StartConsistent ==
  ASSUME TypeOK, Consistent, ConstantsAssumption, NEW c \in Conversations, NEW t \in Turns,
         NEW m \in Modes, NEW r \in Roles \cup {NoRole, None}, Start(c, t, m, r)
  PROVE  Consistent'
<1> USE DEF Consistent
<1>1. /\ owner[t] = None /\ pc[t] = "idle" /\ events[t] = <<>> /\ conversation[c] = "present"
      /\ \A u \in Turns : pc[u] \in Live => u # t /\ owner[u] # c
      /\ \A u \in Turns : owner[u] = c => status[u] # "running"
  BY LiveOwner DEF Start, Unfinished, RowsConsistent, TypeOK, RowsTypeOK, ServiceTypeOK, Live, Executing
<1>2. /\ pc'[t] = "created" /\ status'[t] = "running" /\ owner'[t] = c
      /\ \A u \in Turns : u # t => pc'[u] = pc[u] /\ status'[u] = status[u] /\ owner'[u] = owner[u]
      /\ UNCHANGED <<conversation, events, error, service, holder, deletion, awaited>>
  BY DEF Start, TypeOK, RowsTypeOK, TasksTypeOK
<1>3. \A d \in Conversations : active'[d] = IF d = c THEN t ELSE active[d]
  BY DEF Start, TypeOK, ServiceTypeOK
<1>4. HandlesMatchRows'
  <2>1. active'[owner'[t]] = t
    BY <1>2, <1>3
  <2>2. \A u \in Turns : u # t /\ pc'[u] \in Live => active'[owner'[u]] = u
    BY <1>1, <1>2, <1>3, LiveOwner
  <2>3. QED
    BY <1>2, <2>1, <2>2 DEF HandlesMatchRows, Live
<1>5. RowsConsistent'
  BY <1>1, <1>2 DEF RowsConsistent, ConstantsAssumption
<1>6. ActiveConsistent'
  <2>1. \A d \in Conversations : d # c /\ active[d] # None => active[d] # t
    BY <1>1 DEF ActiveConsistent, TypeOK, ServiceTypeOK
  <2>2. QED
    BY <1>2, <1>3, <2>1 DEF ActiveConsistent, TypeOK, ServiceTypeOK, Live
<1>7. LockConsistent'
  <2>1. pc[t] \notin Executing /\ pc'[t] \notin Executing
    BY <1>1, <1>2 DEF Executing
  <2>2. QED
    BY <1>2, <2>1 DEF LockConsistent, Workspace
<1>8. DeletionConsistent' /\ ClosedConsistent'
  BY <1>2, <1>3 DEF Start, DeletionConsistent, ClosedConsistent
<1>9. OneRunningTurn'
  BY <1>1, <1>2 DEF OneRunningTurn
<1>10. QED
  BY <1>4, <1>5, <1>6, <1>7, <1>8, <1>9

LEMMA RequestConsistent ==
  ASSUME TypeOK, Consistent, ConstantsAssumption, Request
  PROVE  Consistent'
<1> USE DEF durable, handleVars, serviceVars
<1>1. ASSUME NEW c \in Conversations, NEW m \in Modes, CreateConversation(c, m)
      PROVE  Consistent'
  <2>1. /\ conversation[c] = "absent" /\ conversation'[c] = "present"
        /\ \A d \in Conversations : d # c => conversation'[d] = conversation[d]
        /\ \A t \in Turns : owner[t] # c
    BY <1>1 DEF CreateConversation, Consistent, RowsConsistent, TypeOK, RowsTypeOK, ConstantsAssumption
  <2>2. RowsConsistent'
    BY <1>1, <2>1 DEF CreateConversation, Consistent, RowsConsistent, TypeOK, RowsTypeOK
  <2>3. DeletionConsistent'
    BY <1>1, <2>1 DEF CreateConversation, Consistent, DeletionConsistent
  <2>4. QED
    BY <1>1, <2>2, <2>3 DEF CreateConversation, Consistent, HandlesMatchRows, ActiveConsistent,
       LockConsistent, ClosedConsistent, OneRunningTurn, Workspace
<1>2. ASSUME NEW c \in Conversations, NEW t \in Turns, Cancel(c, t)
      PROVE  Consistent'
  BY <1>2, UnrelatedStep DEF Cancel, related
<1>3. ASSUME NEW c \in Conversations, DeleteRequest(c)
      PROVE  Consistent'
  <2>1. /\ deletion'[c] = "created" /\ conversation[c] = "present"
        /\ \A d \in Conversations : d # c => deletion'[d] = deletion[d]
    BY <1>3 DEF DeleteRequest, TypeOK, ServiceTypeOK
  <2>2. LockConsistent' /\ DeletionConsistent' /\ ClosedConsistent'
    BY <1>3, <2>1 DEF DeleteRequest, Consistent, LockConsistent, DeletionConsistent,
       ClosedConsistent, Workspace
  <2>3. QED
    BY <1>3, <2>2 DEF DeleteRequest, Consistent, HandlesMatchRows, RowsConsistent,
       ActiveConsistent, OneRunningTurn
<1>4. CASE Close
  BY <1>4 DEF Close, Consistent, HandlesMatchRows, RowsConsistent, ActiveConsistent,
     LockConsistent, DeletionConsistent, ClosedConsistent, OneRunningTurn, Workspace
<1>5. QED
  BY <1>1, <1>2, <1>3, <1>4, StartConsistent DEF Request

LEMMA DeletionStepConsistent ==
  ASSUME TypeOK, Consistent, ConstantsAssumption, NEW c \in Conversations, DeletionStep(c)
  PROVE  Consistent'
<1> USE DEF durable, handleVars, serviceVars
<1>1. ASSUME RemoveLocks(c), deletion[c] \in {"created", "waiting"}, active[c] = None,
             UNCHANGED <<conversation, status, owner, events, pc, error, service, active>>,
             \A d \in Conversations : d # c => awaited'[d] = awaited[d]
      PROVE  Consistent'
  <2>1. /\ deletion'[c] \in {"locking", "cleanup"}
        /\ \A d \in Conversations : d # c => deletion'[d] = deletion[d]
    BY <1>1 DEF RemoveLocks, TypeOK, ServiceTypeOK
  <2>2. DeletionConsistent'
    BY <1>1, <2>1 DEF Consistent, DeletionConsistent
  <2>3. LockConsistent'
    <3>1. CASE LockFree(WorkspaceOf[c])
      <4>1. /\ holder[WorkspaceOf[c]] = None /\ deletion'[c] = "cleanup"
            /\ \A w \in Workspaces : holder'[w] = IF w = WorkspaceOf[c] THEN c ELSE holder[w]
        BY <1>1, <3>1 DEF RemoveLocks, LockFree, TypeOK, ServiceTypeOK
      <4>2. /\ \A t \in Turns : t # None /\ t # c
            /\ \A d \in Conversations : d # None
            /\ WorkspaceOf[c] \in Workspaces
        BY DEF ConstantsAssumption
      <4>3. QED
        BY <1>1, <2>1, <4>1, <4>2 DEF Consistent, LockConsistent, Workspace
    <3>2. CASE ~LockFree(WorkspaceOf[c])
      BY <1>1, <2>1, <3>2 DEF RemoveLocks, Consistent, LockConsistent, Workspace, TypeOK, ServiceTypeOK
    <3>3. QED
      BY <3>1, <3>2
  <2>4. ClosedConsistent'
    BY <1>1, <2>1 DEF Consistent, ClosedConsistent
  <2>5. QED
    BY <1>1, <2>2, <2>3, <2>4 DEF Consistent, HandlesMatchRows, RowsConsistent, ActiveConsistent,
       OneRunningTurn
<1>2. CASE RemoveBegin(c)
  <2>1. CASE active[c] = None
    BY <1>1, <1>2, <2>1 DEF RemoveBegin
  <2>2. CASE active[c] # None
    <3>1. /\ deletion[c] = "created" /\ deletion'[c] = "waiting" /\ awaited'[c] = active[c]
          /\ active[c] \in Turns
          /\ \A d \in Conversations : d # c => deletion'[d] = deletion[d] /\ awaited'[d] = awaited[d]
      BY <1>2, <2>2 DEF RemoveBegin, TypeOK, ServiceTypeOK
    <3>2. LockConsistent' /\ DeletionConsistent' /\ ClosedConsistent'
      BY <1>2, <2>2, <3>1 DEF RemoveBegin, Consistent, LockConsistent, DeletionConsistent,
         ClosedConsistent, Workspace
    <3>3. QED
      BY <1>2, <3>2 DEF RemoveBegin, Consistent, HandlesMatchRows, RowsConsistent,
         ActiveConsistent, OneRunningTurn
  <2>3. QED
    BY <2>1, <2>2
<1>3. CASE RemoveWaited(c)
  <2>1. active[c] = None
    BY <1>3 DEF RemoveWaited, Consistent, DeletionConsistent, ActiveConsistent, Live, Executing
  <2>2. \A d \in Conversations : d # c => awaited'[d] = awaited[d]
    BY <1>3 DEF RemoveWaited, TypeOK, ServiceTypeOK
  <2>3. CASE RemoveLocks(c)
    BY <1>1, <1>3, <2>1, <2>2, <2>3 DEF RemoveWaited
  <2>4. CASE ~RemoveLocks(c)
    <3>1. /\ deletion[c] = "waiting" /\ deletion'[c] = "none"
          /\ \A d \in Conversations : d # c => deletion'[d] = deletion[d]
      BY <1>3, <2>4 DEF RemoveWaited, TypeOK, ServiceTypeOK
    <3>2. LockConsistent' /\ DeletionConsistent' /\ ClosedConsistent'
      BY <1>3, <2>2, <2>4, <3>1 DEF RemoveWaited, Consistent, LockConsistent, DeletionConsistent,
         ClosedConsistent, Workspace
    <3>3. QED
      BY <1>3, <3>2 DEF RemoveWaited, Consistent, HandlesMatchRows, RowsConsistent,
         ActiveConsistent, OneRunningTurn
  <2>5. QED
    BY <2>3, <2>4
<1>4. CASE RemoveAcquires(c)
  <2>1. /\ holder[WorkspaceOf[c]] = None /\ deletion[c] = "locking" /\ deletion'[c] = "cleanup"
        /\ \A w \in Workspaces : holder'[w] = IF w = WorkspaceOf[c] THEN c ELSE holder[w]
        /\ \A d \in Conversations : d # c => deletion'[d] = deletion[d]
    BY <1>4 DEF RemoveAcquires, TypeOK, ServiceTypeOK
  <2>2. /\ \A t \in Turns : t # None /\ t # c
        /\ \A d \in Conversations : d # None
        /\ WorkspaceOf[c] \in Workspaces
    BY DEF ConstantsAssumption
  <2>3. LockConsistent'
    BY <1>4, <2>1, <2>2 DEF RemoveAcquires, Consistent, LockConsistent, Workspace
  <2>4. DeletionConsistent' /\ ClosedConsistent'
    BY <1>4, <2>1 DEF RemoveAcquires, Consistent, DeletionConsistent, ClosedConsistent
  <2>5. QED
    BY <1>4, <2>3, <2>4 DEF RemoveAcquires, Consistent, HandlesMatchRows, RowsConsistent,
       ActiveConsistent, OneRunningTurn
<1>5. CASE RemoveDone(c)
  <2>1. /\ deletion[c] = "cleanup" /\ deletion'[c] = "none" /\ active[c] = None
        /\ conversation[c] = "present"
        /\ \A d \in Conversations : d # c => deletion'[d] = deletion[d]
        /\ UNCHANGED <<owner, pc, error, service, active, awaited>>
    BY <1>5 DEF RemoveDone, Consistent, DeletionConsistent, TypeOK, ServiceTypeOK
  <2>2. \/ /\ conversation'[c] = "deleted"
           /\ \A d \in Conversations : d # c => conversation'[d] = conversation[d]
           /\ \A t \in Turns : /\ status'[t] = IF owner[t] = c THEN "deleted" ELSE status[t]
                               /\ events'[t] = IF owner[t] = c THEN <<>> ELSE events[t]
        \/ UNCHANGED <<conversation, status, events>>
    BY <1>5 DEF RemoveDone, TypeOK, RowsTypeOK
  <2>3. \A t \in Turns : pc[t] \in Live => owner[t] # c
    BY <2>1, LiveOwner DEF ConstantsAssumption
  <2>4. \A w \in Workspaces : holder'[w] = IF holder[w] = c THEN None ELSE holder[w]
    BY <1>5 DEF RemoveDone, Release
  <2>5. LockConsistent'
    <3>1. /\ \A t \in Turns : t # None /\ t # c
          /\ \A d \in Conversations : d # None
      BY DEF ConstantsAssumption
    <3>2. QED
      BY <2>1, <2>4, <3>1 DEF Consistent, LockConsistent, Workspace
  <2>6. HandlesMatchRows'
    BY <2>1, <2>2, <2>3 DEF Consistent, HandlesMatchRows
  <2>7. RowsConsistent'
    <3>1. c # None /\ \A t \in Turns : owner[t] \in Conversations \cup {None}
      BY DEF ConstantsAssumption, TypeOK, RowsTypeOK
    <3>2. QED
      BY <2>1, <2>2, <3>1 DEF Consistent, RowsConsistent
  <2>8. DeletionConsistent' /\ ClosedConsistent' /\ ActiveConsistent'
    BY <2>1, <2>2 DEF Consistent, DeletionConsistent, ClosedConsistent, ActiveConsistent
  <2>9. OneRunningTurn'
    <3>1. \A t \in Turns : status'[t] = "running" => status[t] = "running"
      BY <2>2
    <3>2. QED
      BY <2>1, <3>1 DEF Consistent, OneRunningTurn
  <2>10. QED
    BY <2>5, <2>6, <2>7, <2>8, <2>9 DEF Consistent
<1>6. QED
  BY <1>2, <1>3, <1>4, <1>5 DEF DeletionStep

LEMMA NextConsistent ==
  ASSUME TypeOK, Consistent, ConstantsAssumption, [Next]_vars
  PROVE  Consistent'
<1>1. CASE Closed
  BY <1>1 DEF Closed, durable, handleVars, Consistent, HandlesMatchRows, RowsConsistent,
     ActiveConsistent, LockConsistent, DeletionConsistent, ClosedConsistent, OneRunningTurn, Workspace
<1>2. CASE UNCHANGED vars
  BY <1>2, UnrelatedStep DEF vars, durable, handleVars, serviceVars, related
<1>3. QED
  BY <1>1, <1>2, RequestConsistent, TurnStepConsistent, DeletionStepConsistent DEF Next

LEMMA InitInvariant ==
  ASSUME ConstantsAssumption, Init
  PROVE  TypeOK /\ Consistent
<1> USE DEF Init, Idle
<1>1. RowsTypeOK /\ StopsTypeOK /\ TasksTypeOK /\ ServiceTypeOK
  BY DEF RowsTypeOK, StopsTypeOK, TasksTypeOK, ServiceTypeOK, Statuses, Fates, Roles
<1>2. HandlesMatchRows /\ RowsConsistent /\ ActiveConsistent /\ DeletionConsistent
  BY DEF HandlesMatchRows, RowsConsistent, ActiveConsistent, DeletionConsistent, Live, Executing
<1>3. LockConsistent
  BY DEF LockConsistent, Executing, ConstantsAssumption
<1>4. ClosedConsistent /\ OneRunningTurn
  BY DEF ClosedConsistent, OneRunningTurn
<1>5. QED
  BY <1>1, <1>2, <1>3, <1>4 DEF TypeOK, Consistent

-----------------------------------------------------------------------------
(* The theorems *)

(* In every behaviour of the service the variables keep their types, and   *)
(* rows, tasks, handles, locks and deletions stay consistent.              *)
THEOREM InvariantHolds == Spec => [](TypeOK /\ Consistent)
<1>1. Init => TypeOK /\ Consistent
  BY InitInvariant, ConstantsAssumption
<1>2. TypeOK /\ Consistent /\ [Next]_vars => (TypeOK /\ Consistent)'
  BY NextType, NextConsistent, ConstantsAssumption
<1>3. QED
  BY <1>1, <1>2, PTL DEF Spec

(* Type correctness of the state the service and its tables keep. *)
THEOREM TypeCorrect == Spec => []TypeOK
BY InvariantHolds, PTL

(* At most one turn or deletion is inside a workspace's lock (_run and     *)
(* delete.remove).                                                         *)
THEOREM WorkspaceIsExclusive == Spec => []WorkspaceExclusive
<1>1. TypeOK /\ Consistent => WorkspaceExclusive
  BY DEF Consistent, LockConsistent, WorkspaceExclusive, Occupants
<1>2. QED
  BY <1>1, InvariantHolds, PTL

(* A conversation has at most one unfinished turn (TurnService.start).     *)
THEOREM TurnsAreSerial == Spec => []OneRunningTurn
<1>1. TypeOK /\ Consistent => OneRunningTurn
  BY DEF Consistent
<1>2. QED
  BY <1>1, InvariantHolds, PTL

(* Tasks, registered handles and running rows agree, but for the turns     *)
(* whose finalization raised.                                              *)
THEOREM TasksAndRowsAgree == Spec => []HandlesMatchRows
<1>1. TypeOK /\ Consistent => HandlesMatchRows
  BY DEF Consistent
<1>2. QED
  BY <1>1, InvariantHolds, PTL

(* Nothing of a deleted conversation runs or is stored, and nothing runs   *)
(* once the service is closed (TurnService.delete, TurnService.close).     *)
THEOREM EndIsQuiet == Spec => []QuietAfterEnd
<1>1. ASSUME TypeOK, Consistent
      PROVE  QuietAfterEnd
  <2>1. ASSUME NEW t \in Turns, owner[t] # None, conversation[owner[t]] = "deleted"
        PROVE  pc[t] \in {"idle", "ended"} /\ status[t] = "deleted" /\ events[t] = <<>>
    <3>1. status[t] = "deleted" /\ events[t] = <<>>
      BY <1>1, <2>1 DEF Consistent, RowsConsistent
    <3>2. QED
      BY <1>1, <3>1 DEF Consistent, HandlesMatchRows, TypeOK, TasksTypeOK
  <2>2. ASSUME service = "closed"
        PROVE  /\ \A t \in Turns : pc[t] \notin Live
               /\ \A w \in Workspaces : holder[w] = None
    <3>1. \A t \in Turns : pc[t] \notin Live
      BY <1>1, <2>2, LiveOwner, ConstantsAssumption DEF Consistent, ClosedConsistent, ConstantsAssumption
    <3>2. ASSUME NEW w \in Workspaces
          PROVE  holder[w] = None
      <4>1. \A t \in Turns : holder[w] # t
        BY <1>1, <3>1 DEF Consistent, LockConsistent, Live
      <4>2. \A c \in Conversations : holder[w] # c
        BY <1>1, <2>2 DEF Consistent, ClosedConsistent, LockConsistent
      <4>3. QED
        BY <1>1, <4>1, <4>2 DEF TypeOK, ServiceTypeOK
    <3>3. QED
      BY <3>1, <3>2
  <2>3. QED
    BY <2>1, <2>2 DEF QuietAfterEnd
<1>2. QED
  BY <1>1, InvariantHolds, PTL

-----------------------------------------------------------------------------
(* What a turn leaves in the tables: the turn service implements the        *)
(* ledger, settles a turn once, and stores a resume role that the next      *)
(* start accepts.                                                           *)

(* The tables implement the ledger *)

LEMMA FinalizeKeepsLedger ==
  ASSUME TypeOK, Consistent, NEW t \in Turns, pc[t] \in Live, NEW f \in Fates, Finalize(t, f)
  PROVE  [Ledger!Next]_Ledger!ledger
<1>1. UNCHANGED <<conversation, owner>> /\ status[t] = "running"
  BY LiveOwner DEF Finalize
<1>2. CASE Finish(t, f)
  <2>1. Outcome(t, f) \in {"answer", "cancelled", "failed"}
    BY DEF Outcome
  <2>2. Ledger!Settle(t, Outcome(t, f))
    BY <1>1, <1>2 DEF Finish, Ledger!Settle
  <2>3. QED
    BY <2>1, <2>2 DEF Ledger!Next
<1>3. CASE FinishRaises(t)
  BY <1>1, <1>3 DEF FinishRaises, Ledger!ledger
<1>4. QED
  BY <1>2, <1>3 DEF Finalize

LEMMA LeaveKeepsLedger ==
  ASSUME TypeOK, Consistent, NEW t \in Turns, pc[t] \in Live, NEW f \in Fates, Leave(t, f)
  PROVE  [Ledger!Next]_Ledger!ledger
<1>1. CASE Finalize(t, f)
  BY <1>1, FinalizeKeepsLedger
<1>2. CASE EnterCleanup(t, f)
  BY <1>2 DEF EnterCleanup, durable, Ledger!ledger
<1>3. QED
  BY <1>1, <1>2 DEF Leave

LEMMA RecordKeepsLedger ==
  ASSUME NEW t \in Turns, RecordFrame,
         \/ \E r \in Roles : Record(t, <<"role_start", r>>) \/ Record(t, <<"role_ready", r>>)
         \/ Record(t, <<"event", NoRole>>)
         \/ RecordRaises(t)
  PROVE  [Ledger!Next]_Ledger!ledger
<1>1. UNCHANGED <<conversation, status, owner, answers>>
  BY DEF RecordFrame
<1>2. ASSUME NEW e \in {"role_start", "role_ready", "event"} \X {"", "assistant", "orchestrator", "implementer"},
             Record(t, e)
      PROVE  Ledger!Next
  <2>1. Ledger!Gain(t)
    BY <1>1, <1>2 DEF Record, Ledger!Gain
  <2>2. QED
    BY <2>1 DEF Ledger!Next
<1>3. CASE RecordRaises(t)
  BY <1>1, <1>3 DEF RecordRaises, Ledger!ledger
<1>4. Roles \cup {NoRole} \subseteq {"", "assistant", "orchestrator", "implementer"}
  BY DEF Roles, RolesOf, NoRole
<1>5. QED
  BY <1>2, <1>3, <1>4

LEMMA TurnStepKeepsLedger ==
  ASSUME TypeOK, Consistent, NEW t \in Turns, TurnStep(t)
  PROVE  [Ledger!Next]_Ledger!ledger
<1>0. fate[t] \in Fates /\ "error" \in Fates /\ "cancelled" \in Fates
  BY DEF TypeOK, TasksTypeOK, Fates
<1>1. CASE Begin(t)
  <2>1. pc[t] \in Live
    BY <1>1 DEF Begin, Live
  <2>2. QED
    BY <1>0, <1>1, <2>1, FinalizeKeepsLedger DEF Begin, durable, Ledger!ledger
<1>2. CASE \/ Acquire(t) \/ ForceCancel(t) \/ CallbackRaises(t)
           \/ \E f \in {"answer", "reply", "failed"} : DriverResult(t, f)
  BY <1>2 DEF Acquire, ForceCancel, CallbackRaises, DriverResult, durable, Ledger!ledger
<1>3. CASE OtherEvent(t)
  BY <1>3, RecordKeepsLedger DEF OtherEvent
<1>4. CASE RoleReady(t)
  <2>1. role[t] \in Roles
    BY <1>4 DEF RoleReady, TypeOK, TasksTypeOK
  <2>2. QED
    BY <1>4, <2>1, RecordKeepsLedger DEF RoleReady
<1>5. ASSUME NEW r \in Roles, RoleStart(t, r)
      PROVE  [Ledger!Next]_Ledger!ledger
  BY <1>5, RecordKeepsLedger DEF RoleStart
<1>6. CASE DriverRaises(t)
  <2>1. pc[t] \in Live
    BY <1>6 DEF DriverRaises, Driving, Live, Executing
  <2>2. QED
    BY <1>0, <1>6, <2>1, LeaveKeepsLedger DEF DriverRaises
<1>7. CASE DriverClosed(t)
  <2>1. pc[t] \in Live
    BY <1>7 DEF DriverClosed, Live, Executing
  <2>2. QED
    BY <1>0, <1>7, <2>1, LeaveKeepsLedger DEF DriverClosed
<1>8. CASE CleanupDone(t)
  <2>1. pc[t] \in Live
    BY <1>8 DEF CleanupDone, Live, Executing
  <2>2. QED
    BY <1>0, <1>8, <2>1, FinalizeKeepsLedger DEF CleanupDone
<1>9. CASE DeliverCancel(t)
  <2>1. CASE pc[t] = "locking" /\ Finalize(t, "cancelled")
    <3>1. pc[t] \in Live
      BY <2>1 DEF Live
    <3>2. QED
      BY <1>0, <2>1, <3>1, FinalizeKeepsLedger
  <2>2. CASE UNCHANGED durable
    BY <2>2 DEF durable, Ledger!ledger
  <2>3. QED
    BY <1>9, <2>1, <2>2 DEF DeliverCancel
<1>10. QED
  BY <1>1, <1>2, <1>3, <1>4, <1>5, <1>6, <1>7, <1>8, <1>9 DEF TurnStep

LEMMA NextKeepsLedger ==
  ASSUME TypeOK, Consistent, [Next]_vars
  PROVE  [Ledger!Next]_Ledger!ledger
<1>1. ASSUME NEW c \in Conversations, NEW m \in Modes, CreateConversation(c, m)
      PROVE  Ledger!Next
  <2>1. Ledger!Create(c)
    BY <1>1 DEF CreateConversation, Ledger!Create
  <2>2. QED
    BY <2>1 DEF Ledger!Next
<1>2. ASSUME NEW c \in Conversations, NEW t \in Turns, NEW m \in Modes,
             NEW r \in Roles \cup {NoRole, None}, Start(c, t, m, r)
      PROVE  Ledger!Next
  <2>1. Ledger!Open(c, t)
    BY <1>2 DEF Start, Unfinished, Ledger!Open
  <2>2. QED
    BY <2>1 DEF Ledger!Next
<1>3. CASE \/ \E c \in Conversations, t \in Turns : Cancel(c, t)
           \/ \E c \in Conversations : DeleteRequest(c)
           \/ Close \/ Closed \/ UNCHANGED vars
  BY <1>3 DEF Cancel, DeleteRequest, Close, Closed, vars, durable, Ledger!ledger
<1>4. ASSUME NEW c \in Conversations, DeletionStep(c)
      PROVE  [Ledger!Next]_Ledger!ledger
  <2>1. CASE RemoveBegin(c) \/ RemoveWaited(c) \/ RemoveAcquires(c)
    BY <2>1 DEF RemoveBegin, RemoveWaited, RemoveAcquires, durable, Ledger!ledger
  <2>2. CASE RemoveDone(c)
    <3>1. conversation[c] = "present"
      BY <2>2 DEF RemoveDone, Consistent, DeletionConsistent
    <3>2. Ledger!Drop(c) \/ UNCHANGED Ledger!ledger
      BY <2>2, <3>1 DEF RemoveDone, Ledger!Drop, Ledger!ledger
    <3>3. QED
      BY <3>2 DEF Ledger!Next
  <2>3. QED
    BY <1>4, <2>1, <2>2 DEF DeletionStep
<1>5. QED
  BY <1>1, <1>2, <1>3, <1>4, TurnStepKeepsLedger DEF Next, Request

(* The turn service implements the ledger: every transaction on the tables *)
(* is one step of it (storage/turns.py, storage/conversations.py).         *)
THEOREM ServiceKeepsLedger == Spec => LedgerSpec
<1>1. Init => Ledger!Init
  BY DEF Init, Ledger!Init
<1>2. TypeOK /\ Consistent /\ [Next]_vars => [Ledger!Next]_Ledger!ledger
  BY NextKeepsLedger
<1>3. QED
  BY <1>1, <1>2, InvariantHolds, PTL DEF Spec, LedgerSpec, Ledger!Spec

(* A step of the ledger settles a turn once, with one message. *)
LEMMA LedgerSettlesOnce ==
  ASSUME RowsTypeOK, RowsConsistent, DoneAndAnswerOnce, ConstantsAssumption,
         [Ledger!Next]_Ledger!ledger
  PROVE  DoneAndAnswerOnce'
<1> DEFINE Settled(u) ==
      /\ answers'[u] = IF status'[u] \in {"complete", "failed", "interrupted"} THEN 1 ELSE 0
      /\ \A i \in 1 .. Len(events'[u]) :
           events'[u][i][1] = "done" =>
             /\ i = Len(events'[u])
             /\ status'[u] = IF events'[u][i][2] = "failed" THEN "failed" ELSE "complete"
      /\ status'[u] \in {"complete", "failed"} =>
           Len(events'[u]) > 0 /\ events'[u][Len(events'[u])][1] = "done"
<1>0. SUFFICES ASSUME NEW u \in Turns
               PROVE  Settled(u)
  BY DEF DoneAndAnswerOnce
<1>1. ASSUME answers'[u] = answers[u], events'[u] = events[u],
             \/ status'[u] = status[u]
             \/ status[u] = "unused" /\ status'[u] = "running"
      PROVE  Settled(u)
  BY <1>1 DEF DoneAndAnswerOnce
<1>2. ASSUME NEW e, events'[u] = Append(events[u], e), status[u] = "running"
      PROVE  /\ Len(events'[u]) = Len(events[u]) + 1 /\ Len(events[u]) \in Nat
             /\ events'[u][Len(events'[u])] = e
             /\ \A i \in 1 .. Len(events'[u]) : events'[u][i][1] = "done" => i = Len(events'[u])
  <2>1. events[u] \in Seq(Events) /\ Len(events[u]) \in Nat
    BY DEF RowsTypeOK
  <2>2. \A i \in 1 .. Len(events[u]) : events[u][i][1] # "done"
    BY <1>2 DEF DoneAndAnswerOnce
  <2>3. /\ Len(events'[u]) = Len(events[u]) + 1
        /\ events'[u][Len(events'[u])] = e
        /\ \A i \in 1 .. Len(events[u]) : events'[u][i] = events[u][i]
    BY <1>2, <2>1
  <2>4. \A i \in 1 .. Len(events'[u]) : i # Len(events'[u]) => i \in 1 .. Len(events[u])
    BY <2>1, <2>3
  <2>5. QED
    BY <2>1, <2>2, <2>3, <2>4
<1>3. ASSUME NEW t \in Turns, Ledger!Gain(t)
      PROVE  Settled(u)
  <2>1. CASE u = t
    <3>1. PICK e \in {"role_start", "role_ready", "event"} \X {"", "assistant", "orchestrator", "implementer"} :
            events'[u] = Append(events[u], e)
      BY <1>3, <2>1 DEF Ledger!Gain, RowsTypeOK
    <3>2. status[u] = "running" /\ status'[u] = "running" /\ answers'[u] = answers[u]
      BY <1>3, <2>1 DEF Ledger!Gain
    <3>3. e[1] # "done"
      OBVIOUS
    <3>4. \A i \in 1 .. Len(events'[u]) : events'[u][i][1] # "done"
      BY <1>2, <3>1, <3>2, <3>3
    <3>5. QED
      BY <3>2, <3>4 DEF DoneAndAnswerOnce
  <2>2. CASE u # t
    BY <1>1, <1>3, <2>2 DEF Ledger!Gain, RowsTypeOK
  <2>3. QED
    BY <2>1, <2>2
<1>4. ASSUME NEW t \in Turns, NEW o \in {"answer", "cancelled", "failed"}, Ledger!Settle(t, o)
      PROVE  Settled(u)
  <2>1. CASE u = t
    <3>1. /\ status[u] = "running" /\ status'[u] = IF o = "failed" THEN "failed" ELSE "complete"
          /\ events'[u] = Append(events[u], <<"done", o>>)
          /\ answers'[u] = answers[u] + 1
      BY <1>4, <2>1 DEF Ledger!Settle, RowsTypeOK
    <3>2. /\ Len(events'[u]) > 0
          /\ events'[u][Len(events'[u])] = <<"done", o>>
          /\ \A i \in 1 .. Len(events'[u]) : events'[u][i][1] = "done" => i = Len(events'[u])
      BY <1>2, <3>1
    <3>3. answers'[u] = 1
      BY <3>1 DEF DoneAndAnswerOnce
    <3>4. <<"done", o>>[1] = "done" /\ <<"done", o>>[2] = o
      OBVIOUS
    <3>5. QED
      BY <3>1, <3>2, <3>3, <3>4
  <2>2. CASE u # t
    BY <1>1, <1>4, <2>2 DEF Ledger!Settle, RowsTypeOK
  <2>3. QED
    BY <2>1, <2>2
<1>5. ASSUME NEW t \in Turns, Ledger!Interrupt(t)
      PROVE  Settled(u)
  <2>1. CASE u = t
    <3>1. /\ status[u] = "running" /\ status'[u] = "interrupted" /\ events'[u] = events[u]
          /\ answers'[u] = answers[u] + 1
      BY <1>5, <2>1 DEF Ledger!Interrupt, RowsTypeOK
    <3>2. QED
      BY <3>1 DEF DoneAndAnswerOnce
  <2>2. CASE u # t
    BY <1>1, <1>5, <2>2 DEF Ledger!Interrupt, RowsTypeOK
  <2>3. QED
    BY <2>1, <2>2
<1>6. ASSUME NEW c \in Conversations, NEW t \in Turns, Ledger!Open(c, t)
      PROVE  Settled(u)
  BY <1>1, <1>6 DEF Ledger!Open, RowsTypeOK
<1>7. ASSUME NEW c \in Conversations, Ledger!Drop(c)
      PROVE  Settled(u)
  <2>1. CASE owner[u] = c
    <3>1. status'[u] = "deleted" /\ events'[u] = <<>> /\ answers'[u] = 0
      BY <1>7, <2>1 DEF Ledger!Drop
    <3>2. QED
      BY <3>1
  <2>2. CASE owner[u] # c
    BY <1>1, <1>7, <2>2 DEF Ledger!Drop
  <2>3. QED
    BY <2>1, <2>2
<1>8. CASE (\E c \in Conversations : Ledger!Create(c)) \/ UNCHANGED Ledger!ledger
  BY <1>1, <1>8 DEF Ledger!Create, Ledger!ledger
<1>9. QED
  BY <1>3, <1>4, <1>5, <1>6, <1>7, <1>8 DEF Ledger!Next

(* A turn has one assistant message when it is settled and none before,    *)
(* and done is its last event with the outcome its row has (Turns.finish). *)
THEOREM TurnsAreSettledOnce == Spec => []DoneAndAnswerOnce
<1>1. Init => DoneAndAnswerOnce
  BY DEF Init, DoneAndAnswerOnce
<1>2. TypeOK /\ Consistent /\ DoneAndAnswerOnce /\ [Next]_vars => DoneAndAnswerOnce'
  BY NextKeepsLedger, LedgerSettlesOnce, ConstantsAssumption DEF TypeOK, Consistent
<1>3. QED
  BY <1>1, <1>2, InvariantHolds, PTL DEF Spec

-----------------------------------------------------------------------------
(* The resume role.  ResumeRoleUsable alone is not inductive: the role a   *)
(* turn leaves behind is one it ran or reported, so roles on their way     *)
(* must belong to the mode of the conversation (RolesConsistent).          *)

RolesUsable == RolesConsistent /\ ResumeRoleUsable

Known(t) == IF pc[t] \in Live THEN RolesOf(mode[owner[t]]) ELSE {}

(* Steps that keep the conversations, their modes and their roles          *)
LEMMA SameModes ==
  ASSUME RolesUsable, UNCHANGED <<conversation, mode, interruptedRole, owner>>,
         \A t \in Turns :
           /\ pc[t] \in Live => pc'[t] \in Live
           /\ role'[t] \in Known(t) \cup {NoRole}
           /\ cancelRole'[t] \in Known(t) \cup {NoRole}
           /\ fate'[t] = "reply" => "implementer" \in Known(t)
  PROVE  RolesUsable'
BY DEF RolesUsable, RolesConsistent, ResumeRoleUsable, Known

LEMMA RolesOfTurn ==
  ASSUME RolesUsable, NEW t \in Turns
  PROVE  /\ role[t] \in Known(t) \cup {NoRole}
         /\ cancelRole[t] \in Known(t) \cup {NoRole}
         /\ fate[t] = "reply" => "implementer" \in Known(t)
BY DEF RolesUsable, RolesConsistent, Known

LEMMA CancelRoles ==
  ASSUME TypeOK, RolesUsable, NEW T, RequestCancel(T),
         UNCHANGED <<conversation, mode, interruptedRole, owner, pc, role, fate>>
  PROVE  RolesUsable'
<1>1. \A t \in Turns : cancelRole'[t] \in {role[t], cancelRole[t]}
  BY DEF RequestCancel
<1>2. QED
  BY <1>1, RolesOfTurn, SameModes

LEMMA FinalizeRoles ==
  ASSUME TypeOK, Consistent, RolesUsable, NEW t \in Turns, pc[t] \in Live, NEW f \in Fates,
         f = "reply" => fate[t] = "reply", Finalize(t, f)
  PROVE  RolesUsable'
<1>1. /\ owner[t] \in Conversations /\ conversation[owner[t]] = "present"
      /\ UNCHANGED <<conversation, mode, owner>>
  BY LiveOwner DEF Finalize
<1>2. /\ pc'[t] = "ended" /\ role'[t] = NoRole /\ cancelRole'[t] = NoRole /\ fate'[t] = "none"
      /\ \A u \in Turns : u # t => /\ pc'[u] = pc[u] /\ role'[u] = role[u]
                                   /\ cancelRole'[u] = cancelRole[u] /\ fate'[u] = fate[u]
  BY DEF Finalize, TypeOK, TasksTypeOK, StopsTypeOK
<1>3. Known(t) = RolesOf(mode[owner[t]])
  BY DEF Known
<1>4. ResumeRole(t, f) \in RolesOf(mode[owner[t]]) \cup {NoRole}
  BY <1>1, <1>3, RolesOfTurn DEF ResumeRole, RolesUsable, ResumeRoleUsable
<1>5. \/ interruptedRole' = [interruptedRole EXCEPT ![owner[t]] = ResumeRole(t, f)]
      \/ interruptedRole' = interruptedRole
  BY DEF Finalize, Finish, FinishRaises
<1>6. ResumeRoleUsable' /\ \A c \in Conversations : conversation'[c] = "absent" => interruptedRole'[c] = NoRole
  BY <1>1, <1>4, <1>5 DEF RolesUsable, RolesConsistent, ResumeRoleUsable, TypeOK, RowsTypeOK
<1>7. QED
  BY <1>1, <1>2, <1>6 DEF RolesUsable, RolesConsistent, Live, Executing

LEMMA LeaveRoles ==
  ASSUME TypeOK, Consistent, RolesUsable, NEW t \in Turns, pc[t] \in Live, NEW f \in Fates,
         f = "reply" => fate[t] = "reply", Leave(t, f)
  PROVE  RolesUsable'
<1>1. CASE Finalize(t, f)
  BY <1>1, FinalizeRoles
<1>2. CASE EnterCleanup(t, f)
  <2>1. \A u \in Turns : /\ pc[u] \in Live => pc'[u] \in Live
                         /\ fate'[u] = "reply" => fate[u] = "reply"
    BY <1>2 DEF EnterCleanup, Live, Executing, TypeOK, TasksTypeOK
  <2>2. QED
    BY <1>2, <2>1, RolesOfTurn, SameModes DEF EnterCleanup, durable, stopVars
<1>3. QED
  BY <1>1, <1>2 DEF Leave

LEMMA RecordRoles ==
  ASSUME TypeOK, RolesUsable, NEW t \in Turns, NEW e, RecordFrame, pc[t] \in Live,
         Record(t, e) \/ RecordRaises(t),
         \A u \in Turns : role'[u] \in Known(u) \cup {NoRole}
  PROVE  RolesUsable'
<1>1. UNCHANGED <<conversation, mode, interruptedRole, owner>>
  BY DEF RecordFrame
<1>2. CASE Record(t, e)
  <2>1. /\ \A u \in Turns : cancelRole'[u] \in {role'[u], cancelRole[u]}
        /\ UNCHANGED <<pc, fate>>
    BY <1>2 DEF Record, TypeOK, StopsTypeOK
  <2>2. QED
    BY <1>1, <2>1, RolesOfTurn, SameModes
<1>3. CASE RecordRaises(t)
  <2>1. /\ \A u \in Turns : /\ pc[u] \in Live => pc'[u] \in Live
                            /\ fate'[u] = "reply" => fate[u] = "reply"
        /\ UNCHANGED cancelRole
    BY <1>3 DEF RecordRaises, Live, Executing, TypeOK, TasksTypeOK
  <2>2. QED
    BY <1>1, <2>1, RolesOfTurn, SameModes
<1>4. QED
  BY <1>2, <1>3

LEMMA TurnStepRoles ==
  ASSUME TypeOK, Consistent, RolesUsable, NEW t \in Turns, TurnStep(t)
  PROVE  RolesUsable'
<1>0. fate[t] \in Fates /\ "error" \in Fates /\ "cancelled" \in Fates
  BY DEF TypeOK, TasksTypeOK, Fates
<1>1. CASE Begin(t)
  <2>1. pc[t] \in Live
    BY <1>1 DEF Begin, Live
  <2>2. CASE Finalize(t, "cancelled")
    BY <1>0, <2>1, <2>2, FinalizeRoles
  <2>3. CASE /\ pc' = [pc EXCEPT ![t] = "driving"] \/ pc' = [pc EXCEPT ![t] = "locking"]
             /\ UNCHANGED <<durable, stopVars, role, fate>>
    <3>1. \A u \in Turns : pc[u] \in Live => pc'[u] \in Live
      BY <2>3 DEF Live, Executing, TypeOK, TasksTypeOK
    <3>2. QED
      BY <2>3, <3>1, RolesOfTurn, SameModes DEF durable, stopVars
  <2>4. QED
    BY <1>1, <2>2, <2>3 DEF Begin
<1>2. CASE Acquire(t)
  <2>1. \A u \in Turns : pc[u] \in Live => pc'[u] \in Live
    BY <1>2 DEF Acquire, Live, Executing, TypeOK, TasksTypeOK
  <2>2. QED
    BY <1>2, <2>1, RolesOfTurn, SameModes DEF Acquire, durable, stopVars
<1>3. CASE OtherEvent(t)
  <2>1. pc[t] \in Live
    BY <1>3 DEF OtherEvent, Driving, Live, Executing
  <2>2. QED
    BY <1>3, <2>1, RolesOfTurn, RecordRoles DEF OtherEvent
<1>4. CASE RoleReady(t)
  <2>1. pc[t] \in Live
    BY <1>4 DEF RoleReady, Driving, Live, Executing
  <2>2. QED
    BY <1>4, <2>1, RolesOfTurn, RecordRoles DEF RoleReady
<1>5. ASSUME NEW r \in Roles, RoleStart(t, r)
      PROVE  RolesUsable'
  <2>1. pc[t] \in Live
    BY <1>5 DEF RoleStart, Driving, Live, Executing
  <2>2. \A u \in Turns : role'[u] \in Known(u) \cup {NoRole}
    BY <1>5, <2>1, RolesOfTurn DEF RoleStart, Known, TypeOK, TasksTypeOK
  <2>3. QED
    BY <1>5, <2>1, <2>2, RecordRoles DEF RoleStart
<1>6. ASSUME NEW f \in {"answer", "reply", "failed"}, DriverResult(t, f)
      PROVE  RolesUsable'
  <2>1. pc[t] = "driving" /\ pc[t] \in Live
    BY <1>6 DEF DriverResult, Driving, Live, Executing
  <2>2. f = "reply" => "implementer" \in Known(t)
    BY <1>6, <2>1 DEF DriverResult, Known, RolesOf
  <2>3. \A u \in Turns : /\ pc[u] \in Live => pc'[u] \in Live
                         /\ fate'[u] = "reply" => "implementer" \in Known(u)
    BY <1>6, <2>2, RolesOfTurn DEF DriverResult, Live, Executing, TypeOK, TasksTypeOK
  <2>4. QED
    BY <1>6, <2>3, RolesOfTurn, SameModes DEF DriverResult, durable, stopVars
<1>7. CASE DriverRaises(t)
  <2>1. pc[t] \in Live
    BY <1>7 DEF DriverRaises, Driving, Live, Executing
  <2>2. QED
    BY <1>0, <1>7, <2>1, LeaveRoles DEF DriverRaises
<1>8. CASE DriverClosed(t)
  <2>1. pc[t] \in Live
    BY <1>8 DEF DriverClosed, Live, Executing
  <2>2. QED
    BY <1>0, <1>8, <2>1, LeaveRoles DEF DriverClosed
<1>9. CASE CleanupDone(t)
  <2>1. pc[t] \in Live
    BY <1>9 DEF CleanupDone, Live, Executing
  <2>2. QED
    BY <1>0, <1>9, <2>1, FinalizeRoles DEF CleanupDone
<1>10. CASE DeliverCancel(t)
  <2>1. CASE pc[t] = "locking" /\ Finalize(t, "cancelled")
    <3>1. pc[t] \in Live
      BY <2>1 DEF Live
    <3>2. QED
      BY <1>0, <2>1, <3>1, FinalizeRoles
  <2>2. CASE pc[t] \in Executing
    <3>1. /\ \A u \in Turns : /\ pc[u] \in Live => pc'[u] \in Live
                              /\ fate'[u] = "reply" => fate[u] = "reply"
          /\ UNCHANGED <<durable, cancelRole, role>>
      BY <1>10, <2>2 DEF DeliverCancel, Live, Executing, TypeOK, TasksTypeOK
    <3>2. QED
      BY <3>1, RolesOfTurn, SameModes DEF durable
  <2>3. QED
    BY <1>10, <2>1, <2>2 DEF DeliverCancel
<1>11. CASE ForceCancel(t)
  <2>1. \A u \in Turns : cancelRole'[u] \in {role[u], cancelRole[u], NoRole}
    BY <1>11 DEF ForceCancel, TypeOK, StopsTypeOK
  <2>2. UNCHANGED <<durable, pc, role, fate>>
    BY <1>11 DEF ForceCancel
  <2>3. QED
    BY <2>1, <2>2, RolesOfTurn, SameModes DEF durable
<1>12. CASE CallbackRaises(t)
  BY <1>12, RolesOfTurn, SameModes DEF CallbackRaises, durable, stopVars
<1>13. QED
  BY <1>1, <1>2, <1>3, <1>4, <1>5, <1>6, <1>7, <1>8, <1>9, <1>10, <1>11, <1>12 DEF TurnStep

LEMMA NextRoles ==
  ASSUME TypeOK, Consistent, RolesUsable, [Next]_vars
  PROVE  RolesUsable'
<1>1. ASSUME NEW c \in Conversations, NEW m \in Modes, CreateConversation(c, m)
      PROVE  RolesUsable'
  <2>1. /\ conversation[c] = "absent"
        /\ \A d \in Conversations : d # c => mode'[d] = mode[d] /\ conversation'[d] = conversation[d]
        /\ UNCHANGED <<interruptedRole, owner, pc, role, cancelRole, fate>>
        /\ conversation'[c] = "present"
    BY <1>1 DEF CreateConversation, handleVars, stopVars, TypeOK, RowsTypeOK
  <2>2. \A t \in Turns : pc[t] \in Live => owner[t] \in Conversations /\ owner[t] # c
    BY <2>1, LiveOwner
  <2>3. QED
    BY <2>1, <2>2 DEF RolesUsable, RolesConsistent, ResumeRoleUsable
<1>2. ASSUME NEW c \in Conversations, NEW t \in Turns, NEW m \in Modes,
             NEW r \in Roles \cup {NoRole, None}, Start(c, t, m, r)
      PROVE  RolesUsable'
  <2>1. /\ conversation[c] = "present" /\ status[t] = "unused"
        /\ \A d \in Conversations : d # c => mode'[d] = mode[d] /\ interruptedRole'[d] = interruptedRole[d]
        /\ interruptedRole'[c] \in RolesOf(mode'[c]) \cup {NoRole}
        /\ (\E u \in Turns : owner[u] = c) => mode'[c] = mode[c]
        /\ UNCHANGED <<conversation, role, cancelRole, fate>>
    BY <1>2 DEF Start, HasHistory, ActiveRole, stopVars, TypeOK, RowsTypeOK
  <2>2. /\ \A u \in Turns : u # t => pc'[u] = pc[u] /\ owner'[u] = owner[u]
        /\ pc'[t] = "created"
    BY <1>2 DEF Start, TypeOK, RowsTypeOK, TasksTypeOK
  <2>3. role[t] = NoRole /\ cancelRole[t] = NoRole /\ fate[t] # "reply"
    <3>1. pc[t] = "idle"
      BY <2>1 DEF Consistent, RowsConsistent
    <3>2. QED
      BY <3>1 DEF RolesUsable, RolesConsistent, Live, Executing
  <2>4. \A u \in Turns : pc[u] \in Live => owner[u] \in Conversations
    BY LiveOwner
  <2>5. QED
    BY <2>1, <2>2, <2>3, <2>4 DEF RolesUsable, RolesConsistent, ResumeRoleUsable
<1>3. ASSUME NEW c \in Conversations, NEW t \in Turns, Cancel(c, t)
      PROVE  RolesUsable'
  BY <1>3, CancelRoles DEF Cancel, durable
<1>4. CASE Close
  BY <1>4, CancelRoles DEF Close, durable
<1>5. CASE (\E c \in Conversations : DeleteRequest(c)) \/ Closed \/ UNCHANGED vars
  BY <1>5, RolesOfTurn, SameModes DEF DeleteRequest, Closed, vars, durable, handleVars, stopVars
<1>6. ASSUME NEW c \in Conversations, DeletionStep(c)
      PROVE  RolesUsable'
  <2>1. CASE RemoveBegin(c)
    BY <2>1, CancelRoles, RolesOfTurn, SameModes DEF RemoveBegin, durable, stopVars
  <2>2. CASE RemoveWaited(c) \/ RemoveAcquires(c)
    BY <2>2, RolesOfTurn, SameModes DEF RemoveWaited, RemoveAcquires, durable, handleVars, stopVars
  <2>3. CASE RemoveDone(c)
    <3>1. /\ UNCHANGED <<mode, interruptedRole, owner, handleVars>>
          /\ \A d \in Conversations : conversation'[d] = "absent" => conversation[d] = "absent"
      BY <2>3 DEF RemoveDone, TypeOK, RowsTypeOK
    <3>2. QED
      BY <3>1 DEF RolesUsable, RolesConsistent, ResumeRoleUsable, handleVars, stopVars
  <2>4. QED
    BY <1>6, <2>1, <2>2, <2>3 DEF DeletionStep
<1>7. QED
  BY <1>1, <1>2, <1>3, <1>4, <1>5, <1>6, TurnStepRoles DEF Next, Request

LEMMA RolesAlwaysUsable == Spec => []RolesUsable
<1>1. Init => RolesUsable
  BY DEF Init, Idle, RolesUsable, RolesConsistent, ResumeRoleUsable, Live, Executing
<1>2. TypeOK /\ Consistent /\ RolesUsable /\ [Next]_vars => RolesUsable'
  BY NextRoles
<1>3. QED
  BY <1>1, <1>2, InvariantHolds, PTL DEF Spec

(* The stored resume role is one the next start accepts under the mode of  *)
(* the conversation (TurnService.start, _run).                             *)
THEOREM ResumeRoleIsUsable == Spec => []ResumeRoleUsable
<1>1. RolesUsable => ResumeRoleUsable
  BY DEF RolesUsable
<1>2. QED
  BY <1>1, RolesAlwaysUsable, PTL

-----------------------------------------------------------------------------
(* The outcome.  A result or an exception is on its way only from a task   *)
(* that has the workspace, and what is known to have gone wrong before the *)
(* callback can only be the result.                                        *)

FatesPlaced ==
  \A t \in Turns :
    /\ pc[t] \notin Executing => fate[t] = "none" /\ wrong[t] = {}
    /\ pc[t] # "cleanup" => wrong[t] \subseteq {"result"}

LEMMA NextFates ==
  ASSUME TypeOK, Consistent, FatesPlaced, [Next]_vars
  PROVE  FatesPlaced'
<1>1. ASSUME NEW t \in Turns, NEW f \in Fates, Finalize(t, f)
      PROVE  FatesPlaced'
  BY <1>1 DEF Finalize, FatesPlaced, TypeOK, TasksTypeOK, Executing
<1>2. ASSUME NEW t \in Turns, NEW f \in Fates, Leave(t, f)
      PROVE  FatesPlaced'
  BY <1>1, <1>2 DEF Leave, EnterCleanup, FatesPlaced, TypeOK, TasksTypeOK, Executing
<1>3. ASSUME NEW t \in Turns, TurnStep(t)
      PROVE  FatesPlaced'
  <2>0. fate[t] \in Fates /\ "error" \in Fates /\ "cancelled" \in Fates
    BY DEF TypeOK, TasksTypeOK, Fates
  <2>1. CASE Begin(t) \/ Acquire(t)
    BY <1>1, <2>0, <2>1 DEF Begin, Acquire, FatesPlaced, TypeOK, TasksTypeOK, Executing
  <2>2. CASE OtherEvent(t) \/ RoleReady(t) \/ \E r \in Roles : RoleStart(t, r)
    BY <2>2 DEF OtherEvent, RoleReady, RoleStart, Driving, Record, RecordRaises, RecordFrame,
       FatesPlaced, Executing, TypeOK, TasksTypeOK
  <2>3. CASE \/ DriverRaises(t) \/ DriverClosed(t) \/ CleanupDone(t)
    BY <1>1, <1>2, <2>0, <2>3 DEF DriverRaises, DriverClosed, CleanupDone
  <2>4. CASE \E f \in {"answer", "reply", "failed"} : DriverResult(t, f)
    BY <2>4 DEF DriverResult, Driving, FatesPlaced, Executing, TypeOK, TasksTypeOK
  <2>5. CASE DeliverCancel(t)
    BY <1>1, <2>0, <2>5 DEF DeliverCancel, FatesPlaced, Executing, TypeOK, TasksTypeOK
  <2>6. CASE ForceCancel(t)
    BY <2>6 DEF ForceCancel, FatesPlaced
  <2>7. CASE CallbackRaises(t)
    BY <2>7 DEF CallbackRaises, FatesPlaced, Executing, TypeOK, TasksTypeOK
  <2>8. QED
    BY <1>3, <2>1, <2>2, <2>3, <2>4, <2>5, <2>6, <2>7 DEF TurnStep
<1>4. CASE \E c \in Conversations, t \in Turns, m \in Modes, r \in Roles \cup {NoRole, None} :
             Start(c, t, m, r)
  <2>1. PICK t \in Turns : pc' = [pc EXCEPT ![t] = "created"] /\ UNCHANGED <<fate, wrong>> /\ status[t] = "unused"
    BY <1>4 DEF Start
  <2>2. pc[t] = "idle"
    BY <2>1 DEF Consistent, RowsConsistent
  <2>3. QED
    BY <2>1, <2>2 DEF FatesPlaced, TypeOK, TasksTypeOK, Executing
<1>5. ASSUME UNCHANGED <<pc, fate, wrong>>
      PROVE  FatesPlaced'
  BY <1>5 DEF FatesPlaced
<1>6. CASE \/ \E c \in Conversations, m \in Modes : CreateConversation(c, m)
           \/ \E c \in Conversations, t \in Turns : Cancel(c, t)
           \/ \E c \in Conversations : DeleteRequest(c)
           \/ Close \/ Closed \/ UNCHANGED vars
  BY <1>5, <1>6 DEF CreateConversation, Cancel, DeleteRequest, Close, Closed, vars, handleVars
<1>7. CASE \E c \in Conversations : DeletionStep(c)
  BY <1>5, <1>7 DEF DeletionStep, RemoveBegin, RemoveWaited, RemoveAcquires, RemoveDone, handleVars
<1>8. QED
  BY <1>3, <1>4, <1>6, <1>7 DEF Next, Request

(* What a task ends with *)
Settles(t, f) ==
  /\ Finalize(t, f)
  /\ \/ f = "error"
     \/ f = fate[t]
     \/ f = "cancelled" /\ pc[t] \in {"created", "locking"}
  /\ pc[t] = "cleanup" /\ wrong[t] \cap {"driver", "cleanup"} # {} => f = "error"

LEMMA EndsBySettling ==
  ASSUME TypeOK, [Next]_vars, NEW t \in Turns, Ends(t)
  PROVE  \E f \in Fates : Settles(t, f)
<1>0. /\ pc[t] \in Live /\ pc'[t] = "ended"
      /\ fate[t] \in Fates /\ "error" \in Fates /\ "cancelled" \in Fates
  BY DEF Ends, TypeOK, TasksTypeOK, Fates
<1>1. pc'[t] # pc[t]
  BY <1>0 DEF Live, Executing
<1>2. TurnStep(t)
  <2>1. ASSUME NEW u \in Turns, u # t, TurnStep(u)
        PROVE  pc'[t] = pc[t]
    BY <2>1 DEF TurnStep, Begin, Acquire, OtherEvent, RoleReady, RoleStart, Record, RecordRaises,
       DriverResult, DriverRaises, DriverClosed, CallbackRaises, CleanupDone, DeliverCancel,
       ForceCancel, Leave, EnterCleanup, Finalize, TypeOK, TasksTypeOK
  <2>2. ASSUME Request
        PROVE  pc'[t] # "ended" \/ pc'[t] = pc[t]
    BY <2>2 DEF Request, CreateConversation, Start, Cancel, DeleteRequest, Close, handleVars,
       TypeOK, TasksTypeOK
  <2>3. ASSUME (\E c \in Conversations : DeletionStep(c)) \/ Closed \/ UNCHANGED vars
        PROVE  pc'[t] = pc[t]
    BY <2>3 DEF DeletionStep, RemoveBegin, RemoveWaited, RemoveAcquires, RemoveDone, Closed, vars,
       handleVars
  <2>4. QED
    BY <1>0, <1>1, <2>1, <2>2, <2>3 DEF Next
<1>3. ASSUME NEW f \in Fates, Leave(t, f)
      PROVE  Finalize(t, f)
  BY <1>0, <1>3 DEF Leave, EnterCleanup, TypeOK, TasksTypeOK
<1>4. CASE Begin(t) \/ DeliverCancel(t)
  BY <1>0, <1>4 DEF Begin, DeliverCancel, Settles, TypeOK, TasksTypeOK, Executing, Live
<1>5. CASE DriverRaises(t) \/ DriverClosed(t) \/ CleanupDone(t)
  <2>1. CASE DriverRaises(t) \/ DriverClosed(t)
    BY <1>0, <1>3, <2>1 DEF DriverRaises, Driving, DriverClosed, Settles
  <2>2. CASE CleanupDone(t)
    <3>1. CASE wrong[t] \cap {"driver", "cleanup"} # {}
      BY <1>0, <2>2, <3>1 DEF CleanupDone, Settles
    <3>2. CASE ~(wrong[t] \cap {"driver", "cleanup"} # {})
      BY <1>0, <2>2, <3>2 DEF CleanupDone, Settles
    <3>3. QED
      BY <3>1, <3>2
  <2>3. QED
    BY <1>5, <2>1, <2>2
<1>6. CASE \/ CallbackRaises(t) \/ Acquire(t) \/ OtherEvent(t) \/ RoleReady(t) \/ ForceCancel(t)
           \/ \E r \in Roles : RoleStart(t, r)
           \/ \E f \in {"answer", "reply", "failed"} : DriverResult(t, f)
  BY <1>0, <1>1, <1>6 DEF CallbackRaises, Acquire, OtherEvent, RoleReady, ForceCancel, RoleStart,
     DriverResult, Record, RecordRaises, TypeOK, TasksTypeOK
<1>7. QED
  BY <1>2, <1>4, <1>5, <1>6 DEF TurnStep

LEMMA SettlingPrecedence ==
  ASSUME TypeOK, Consistent, FatesPlaced, NEW t \in Turns, Ends(t), NEW f \in Fates, Settles(t, f)
  PROVE  /\ wrong[t] # {} => SettledAs(t) = "failed"
         /\ cancel[t] # "none" => SettledAs(t) # "answer"
<1>1. Finish(t, f)
  BY DEF Settles, Finalize, FinishRaises, Ends, TypeOK, TasksTypeOK
<1>2. SettledAs(t) = Outcome(t, f)
  <2>1. events[t] \in Seq(Events)
    BY DEF TypeOK, RowsTypeOK
  <2>2. events'[t] = Append(events[t], <<"done", Outcome(t, f)>>)
    BY <1>1 DEF Finish, TypeOK, RowsTypeOK
  <2>3. events'[t][Len(events'[t])] = <<"done", Outcome(t, f)>>
    BY <2>1, <2>2
  <2>4. QED
    BY <2>3 DEF SettledAs
<1>3. wrong[t] # {} => f = "error" \/ "result" \in wrong[t]
  <2>1. wrong[t] \subseteq {"result", "driver", "cleanup"}
    BY DEF TypeOK, TasksTypeOK, Failures
  <2>2. CASE pc[t] = "cleanup"
    BY <2>1, <2>2 DEF Settles
  <2>3. CASE pc[t] # "cleanup"
    BY <2>3 DEF FatesPlaced
  <2>4. QED
    BY <2>2, <2>3
<1>4. QED
  BY <1>2, <1>3 DEF Outcome

(* A failed result, a pending failure of the driver and an exception of    *)
(* the callback win over every Stop, and a Stop over an answer (_run, and  *)
(* _finish_execution).                                                     *)
THEOREM OutcomesHavePrecedence == Spec => OutcomePrecedence
<1>1. Init => FatesPlaced
  BY DEF Init, Idle, FatesPlaced
<1>2. TypeOK /\ Consistent /\ FatesPlaced /\ [Next]_vars => FatesPlaced'
  BY NextFates
<1>3. TypeOK /\ Consistent /\ FatesPlaced /\ [Next]_vars =>
        [\A t \in Turns :
           Ends(t) =>
             /\ wrong[t] # {} => SettledAs(t) = "failed"
             /\ cancel[t] # "none" => SettledAs(t) # "answer"]_vars
  BY EndsBySettling, SettlingPrecedence
<1>4. QED
  BY <1>1, <1>2, <1>3, InvariantHolds, PTL DEF Spec, OutcomePrecedence

-----------------------------------------------------------------------------
(* The role a Stop leaves to be resumed.  Readiness is set before it is    *)
(* recorded, so the last theorem is about a storage that takes every       *)
(* event: if the write of role_ready raises, the task ends with a role     *)
(* that is ready and not reported.                                         *)

ReadyTracked ==
  \A t \in Turns :
    /\ ready[t] => role[t] \in ReadyRoles(events[t]) \cup {NoRole}
    /\ cancelRole[t] \in ReadyRoles(events[t]) \cup {NoRole}
    /\ cancel[t] \in {"none", "requested"} => cancelRole[t] = NoRole

(* What an event does to the roles that have reported to be ready          *)
LEMMA ReadyRolesAppend ==
  ASSUME NEW log \in Seq(Events), NEW e \in Events
  PROVE  /\ e[1] # "role_start" => ReadyRoles(log) \subseteq ReadyRoles(Append(log, e))
         /\ \A r \in Roles : e = <<"role_ready", r>> => r \in ReadyRoles(Append(log, e))
<1> DEFINE new == Append(log, e)
<1>1. /\ Len(log) \in Nat /\ Len(new) = Len(log) + 1 /\ new[Len(new)] = e
      /\ \A i \in 1 .. Len(log) : new[i] = log[i]
  OBVIOUS
<1>2. \A i \in 1 .. Len(new) : i \in 1 .. Len(log) \/ i = Len(new)
  BY <1>1
<1> HIDE DEF new
<1>3. ASSUME e[1] # "role_start", NEW r \in ReadyRoles(log)
      PROVE  r \in ReadyRoles(new)
  <2>1. PICK i \in 1 .. Len(log) : /\ log[i] = <<"role_ready", r>>
                                   /\ \A j \in i .. Len(log) : log[j][1] # "role_start"
    BY <1>3 DEF ReadyRoles
  <2>2. i \in 1 .. Len(new) /\ new[i] = <<"role_ready", r>>
    BY <1>1, <2>1
  <2>3. ASSUME NEW j \in i .. Len(new)
        PROVE  new[j][1] # "role_start"
    <3>1. j \in i .. Len(log) \/ j = Len(new)
      BY <1>1, <2>1
    <3>2. QED
      BY <1>1, <1>3, <2>1, <3>1
  <2>4. QED
    BY <1>3, <2>2, <2>3 DEF ReadyRoles
<1>4. ASSUME NEW r \in Roles, e = <<"role_ready", r>>
      PROVE  r \in ReadyRoles(new)
  <2>1. Len(new) \in 1 .. Len(new) /\ \A j \in Len(new) .. Len(new) : j = Len(new)
    BY <1>1
  <2>2. e[1] # "role_start"
    BY <1>4
  <2>3. QED
    BY <1>1, <1>4, <2>1, <2>2 DEF ReadyRoles
<1>5. QED
  BY <1>3, <1>4 DEF new

(* Steps that record nothing and make no role ready *)
LEMMA SameReadiness ==
  ASSUME ReadyTracked,
         \A t \in Turns :
           /\ events'[t] = events[t]
           /\ ready'[t] => role'[t] = NoRole \/ (ready[t] /\ role'[t] = role[t])
           /\ \/ cancelRole'[t] = NoRole
              \/ cancelRole'[t] = cancelRole[t] /\ cancel'[t] \notin {"none", "requested"}
              \/ cancelRole'[t] = role[t] /\ ready[t] /\ cancel'[t] \notin {"none", "requested"}
  PROVE  ReadyTracked'
BY DEF ReadyTracked

LEMMA SameStops ==
  ASSUME ReadyTracked, UNCHANGED <<events, cancel, cancelRole, role, ready>>
  PROVE  ReadyTracked'
BY SameReadiness DEF ReadyTracked

LEMMA RequestReady ==
  ASSUME TypeOK, ReadyTracked, NEW T, RequestCancel(T), UNCHANGED <<events, role, ready>>
  PROVE  ReadyTracked'
<1>1. ASSUME NEW t \in Turns
      PROVE  \/ cancelRole'[t] = NoRole
             \/ cancelRole'[t] = cancelRole[t] /\ cancel'[t] \notin {"none", "requested"}
             \/ cancelRole'[t] = role[t] /\ ready[t] /\ cancel'[t] \notin {"none", "requested"}
  BY DEF RequestCancel, StopNow, ReadyTracked, TypeOK, StopsTypeOK
<1>2. QED
  BY <1>1, SameReadiness

LEMMA FinalizeReady ==
  ASSUME TypeOK, ReadyTracked, NEW t \in Turns, NEW f \in Fates, Finalize(t, f)
  PROVE  ReadyTracked'
<1>1. role'[t] = NoRole /\ cancelRole'[t] = NoRole
  BY DEF Finalize, TypeOK, TasksTypeOK, StopsTypeOK
<1>2. \A u \in Turns : u # t =>
        /\ events'[u] = events[u] /\ role'[u] = role[u] /\ ready'[u] = ready[u]
        /\ cancel'[u] = cancel[u] /\ cancelRole'[u] = cancelRole[u]
  BY DEF Finalize, Finish, FinishRaises, TypeOK, RowsTypeOK, TasksTypeOK, StopsTypeOK
<1>3. \A u \in Turns : u # t => ReadyRoles(events'[u]) = ReadyRoles(events[u])
  BY <1>2
<1>4. QED
  BY <1>1, <1>2, <1>3 DEF ReadyTracked

LEMMA LeaveReady ==
  ASSUME TypeOK, ReadyTracked, NEW t \in Turns, NEW f \in Fates, Leave(t, f)
  PROVE  ReadyTracked'
BY FinalizeReady, SameStops DEF Leave, EnterCleanup, durable, stopVars

LEMMA RecordReady ==
  ASSUME TypeOK, ReadyTracked, NEW t \in Turns, NEW e \in Events, Record(t, e), RecordFrame,
         \A u \in Turns : u # t => role'[u] = role[u] /\ ready'[u] = ready[u],
         \/ e[1] # "role_start" /\ role'[t] = role[t] /\ ready'[t] = ready[t]
         \/ role'[t] \in Roles /\ e = <<"role_ready", role'[t]>>
         \/ e[1] = "role_start" /\ ~ready'[t] /\ cancel[t] \in {"none", "requested"}
  PROVE  ReadyTracked'
<1>1. /\ events'[t] = Append(events[t], e) /\ events[t] \in Seq(Events)
      /\ IF cancel[t] = "requested" /\ ready'[t]
         THEN cancel'[t] = "sent" /\ cancelRole'[t] = role'[t]
         ELSE cancel'[t] = cancel[t] /\ cancelRole'[t] = cancelRole[t]
  BY DEF Record, TypeOK, RowsTypeOK, StopsTypeOK
<1>2. \A u \in Turns : u # t =>
        events'[u] = events[u] /\ cancel'[u] = cancel[u] /\ cancelRole'[u] = cancelRole[u]
  BY DEF Record, TypeOK, RowsTypeOK, StopsTypeOK
<1>3. \A u \in Turns : u # t => ReadyRoles(events'[u]) = ReadyRoles(events[u])
  BY <1>2
<1>4. /\ e[1] # "role_start" => ReadyRoles(events[t]) \subseteq ReadyRoles(events'[t])
      /\ \A r \in Roles : e = <<"role_ready", r>> => r \in ReadyRoles(events'[t])
  BY <1>1, ReadyRolesAppend
<1>5. /\ ready'[t] => role'[t] \in ReadyRoles(events'[t]) \cup {NoRole}
      /\ cancelRole'[t] \in ReadyRoles(events'[t]) \cup {NoRole}
      /\ cancel'[t] \in {"none", "requested"} => cancelRole'[t] = NoRole
  <2>1. CASE e[1] # "role_start" /\ role'[t] = role[t] /\ ready'[t] = ready[t]
    BY <1>1, <1>4, <2>1 DEF ReadyTracked
  <2>2. CASE role'[t] \in Roles /\ e = <<"role_ready", role'[t]>>
    <3>1. e[1] # "role_start" /\ role'[t] \in ReadyRoles(events'[t])
      BY <1>4, <2>2
    <3>2. QED
      BY <1>1, <1>4, <3>1 DEF ReadyTracked
  <2>3. CASE e[1] = "role_start" /\ ~ready'[t] /\ cancel[t] \in {"none", "requested"}
    BY <1>1, <2>3 DEF ReadyTracked
  <2>4. QED
    BY <2>1, <2>2, <2>3
<1>6. QED
  BY <1>2, <1>3, <1>5 DEF ReadyTracked

LEMMA TurnStepReady ==
  ASSUME TypeOK, Consistent, ReadyTracked, ~StorageFails, NEW t \in Turns, TurnStep(t)
  PROVE  ReadyTracked'
<1>0. fate[t] \in Fates /\ "error" \in Fates /\ "cancelled" \in Fates
  BY DEF TypeOK, TasksTypeOK, Fates
<1>1. CASE Begin(t) \/ Acquire(t)
  BY <1>0, <1>1, FinalizeReady, SameStops DEF Begin, Acquire, durable, stopVars
<1>2. ASSUME pc[t] = "driving", RecordRaises(t)
      PROVE  FALSE
  <2>1. status[t] = "running"
    BY <1>2, LiveOwner DEF Live, Executing
  <2>2. QED
    BY <1>2, <2>1 DEF RecordRaises
<1>3. CASE OtherEvent(t)
  <2>1. Record(t, <<"event", NoRole>>) /\ RecordFrame /\ UNCHANGED <<role, ready>>
    BY <1>2, <1>3 DEF OtherEvent, Driving
  <2>2. <<"event", NoRole>> \in Events /\ <<"event", NoRole>>[1] # "role_start"
    BY DEF Events
  <2>3. QED
    BY <2>1, <2>2, RecordReady
<1>4. CASE RoleReady(t)
  <2>1. /\ Record(t, <<"role_ready", role[t]>>) /\ RecordFrame
        /\ role' = role /\ ready' = [ready EXCEPT ![t] = TRUE] /\ role[t] \in Roles
    BY <1>2, <1>4 DEF RoleReady, Driving, TypeOK, TasksTypeOK
  <2>2. <<"role_ready", role[t]>> \in Events
    BY <2>1 DEF Events
  <2>3. \A u \in Turns : u # t => role'[u] = role[u] /\ ready'[u] = ready[u]
    BY <2>1 DEF TypeOK, TasksTypeOK
  <2>4. QED
    BY <2>1, <2>2, <2>3, RecordReady
<1>5. ASSUME NEW r \in Roles, RoleStart(t, r)
      PROVE  ReadyTracked'
  <2>1. /\ Record(t, <<"role_start", r>>) /\ RecordFrame
        /\ role' = [role EXCEPT ![t] = r] /\ ready' = [ready EXCEPT ![t] = FALSE]
        /\ cancel[t] \in {"none", "requested"}
    BY <1>2, <1>5 DEF RoleStart, Driving, TypeOK, StopsTypeOK
  <2>2. <<"role_start", r>> \in Events /\ <<"role_start", r>>[1] = "role_start"
    BY DEF Events
  <2>3. /\ \A u \in Turns : u # t => role'[u] = role[u] /\ ready'[u] = ready[u]
        /\ ~ready'[t]
    BY <2>1 DEF TypeOK, TasksTypeOK
  <2>4. QED
    BY <2>1, <2>2, <2>3, RecordReady
<1>6. CASE DriverRaises(t) \/ DriverClosed(t) \/ CleanupDone(t)
  BY <1>0, <1>6, LeaveReady, FinalizeReady DEF DriverRaises, DriverClosed, CleanupDone
<1>7. CASE \E f \in {"answer", "reply", "failed"} : DriverResult(t, f)
  BY <1>7, SameStops DEF DriverResult, durable, stopVars
<1>8. CASE DeliverCancel(t)
  <2>1. CASE Finalize(t, "cancelled")
    BY <1>0, <2>1, FinalizeReady
  <2>2. CASE /\ cancel' = [cancel EXCEPT ![t] = "delivered"]
             /\ UNCHANGED <<durable, cancelRole, role, ready>>
    <3>1. \A u \in Turns : \/ cancelRole'[u] = NoRole
                           \/ cancelRole'[u] = cancelRole[u] /\ cancel'[u] \notin {"none", "requested"}
      BY <2>2 DEF ReadyTracked, TypeOK, StopsTypeOK
    <3>2. QED
      BY <2>2, <3>1, SameReadiness DEF durable
  <2>3. QED
    BY <1>8, <2>1, <2>2 DEF DeliverCancel
<1>9. CASE ForceCancel(t)
  <2>1. UNCHANGED <<events, role, ready>>
    BY <1>9 DEF ForceCancel, durable
  <2>2. ASSUME NEW u \in Turns
        PROVE  \/ cancelRole'[u] = NoRole
               \/ cancelRole'[u] = cancelRole[u] /\ cancel'[u] \notin {"none", "requested"}
               \/ cancelRole'[u] = role[u] /\ ready[u] /\ cancel'[u] \notin {"none", "requested"}
    BY <1>9 DEF ForceCancel, ReadyTracked, TypeOK, StopsTypeOK
  <2>3. QED
    BY <2>1, <2>2, SameReadiness
<1>10. CASE CallbackRaises(t)
  BY <1>10, SameStops DEF CallbackRaises, durable, stopVars
<1>11. QED
  BY <1>1, <1>3, <1>4, <1>5, <1>6, <1>7, <1>8, <1>9, <1>10 DEF TurnStep

LEMMA NextReady ==
  ASSUME TypeOK, Consistent, RolesUsable, ReadyTracked, ~StorageFails, [Next]_vars
  PROVE  ReadyTracked'
<1>1. CASE \/ \E c \in Conversations, m \in Modes : CreateConversation(c, m)
           \/ \E c \in Conversations, t \in Turns, m \in Modes, r \in Roles \cup {NoRole, None} :
                Start(c, t, m, r)
           \/ \E c \in Conversations : DeleteRequest(c)
           \/ Closed \/ UNCHANGED vars
  BY <1>1, SameStops DEF CreateConversation, Start, DeleteRequest, Closed, vars, durable, handleVars, stopVars
<1>2. CASE (\E c \in Conversations, t \in Turns : Cancel(c, t)) \/ Close
  BY <1>2, RequestReady DEF Cancel, Close, durable
<1>3. ASSUME NEW c \in Conversations, DeletionStep(c)
      PROVE  ReadyTracked'
  <2>1. CASE RemoveBegin(c)
    BY <2>1, RequestReady, SameStops DEF RemoveBegin, durable, stopVars
  <2>2. CASE RemoveWaited(c) \/ RemoveAcquires(c)
    BY <2>2, SameStops DEF RemoveWaited, RemoveAcquires, durable, handleVars, stopVars
  <2>3. CASE RemoveDone(c)
    <3>1. /\ UNCHANGED <<cancel, cancelRole, role, ready>>
          /\ \A t \in Turns : owner[t] # c => events'[t] = events[t]
      BY <2>3 DEF RemoveDone, handleVars, stopVars
    <3>2. ASSUME NEW t \in Turns, owner[t] = c
          PROVE  role[t] = NoRole /\ cancelRole[t] = NoRole
      <4>1. active[c] = None
        BY <2>3 DEF RemoveDone, Consistent, DeletionConsistent
      <4>2. pc[t] \notin Live
        BY <3>2, <4>1, LiveOwner, ConstantsAssumption DEF ConstantsAssumption
      <4>3. QED
        BY <4>2 DEF RolesUsable, RolesConsistent
    <3>3. \A t \in Turns : owner[t] # c => ReadyRoles(events'[t]) = ReadyRoles(events[t])
      BY <3>1
    <3>4. QED
      BY <3>1, <3>2, <3>3 DEF ReadyTracked
  <2>4. QED
    BY <1>3, <2>1, <2>2, <2>3 DEF DeletionStep
<1>4. QED
  BY <1>1, <1>2, <1>3, TurnStepReady DEF Next, Request

(* A turn settled as cancelled leaves a role that had reported it can be   *)
(* resumed, or none (_run, Turns.finish).                                  *)
LEMMA SettlingResumes ==
  ASSUME TypeOK, Consistent, ReadyTracked, NEW t \in Turns, Ends(t), NEW f \in Fates,
         Settles(t, f), SettledAs(t) = "cancelled"
  PROVE  interruptedRole'[owner[t]] \in ReadyRoles(events'[t]) \cup {NoRole}
<1>1. Finish(t, f)
  BY DEF Settles, Finalize, FinishRaises, Ends, TypeOK, TasksTypeOK
<1>2. /\ events[t] \in Seq(Events)
      /\ events'[t] = Append(events[t], <<"done", Outcome(t, f)>>)
      /\ <<"done", Outcome(t, f)>> \in Events
  BY <1>1 DEF Finish, TypeOK, RowsTypeOK, Events, Outcome, Outcomes
<1>3. events'[t][Len(events'[t])] = <<"done", Outcome(t, f)>>
  BY <1>2
<1>4. Outcome(t, f) = "cancelled"
  BY <1>3 DEF SettledAs
<1>5. owner[t] \in Conversations
  BY LiveOwner DEF Ends
<1>6. interruptedRole'[owner[t]] = cancelRole[t]
  BY <1>1, <1>4, <1>5 DEF Finish, ResumeRole, TypeOK, RowsTypeOK
<1>7. ReadyRoles(events[t]) \subseteq ReadyRoles(events'[t])
  BY <1>2, ReadyRolesAppend
<1>8. QED
  BY <1>6, <1>7 DEF ReadyTracked

(* When no write raises, the role resumed after a Stop is one whose latest *)
(* run had reported that it can be resumed (TurnService.cancel, _run).     *)
THEOREM StopsResumeReadyRoles == ASSUME ~StorageFails PROVE Spec => StopResumesReadyRole
<1>1. Init => ReadyTracked
  BY DEF Init, Idle, ReadyTracked
<1>2. TypeOK /\ Consistent /\ RolesUsable /\ ReadyTracked /\ [Next]_vars => ReadyTracked'
  BY NextReady
<1>3. TypeOK /\ Consistent /\ ReadyTracked /\ [Next]_vars =>
        [\A t \in Turns :
           Ends(t) /\ SettledAs(t) = "cancelled" =>
             interruptedRole'[owner[t]] \in ReadyRoles(events'[t]) \cup {NoRole}]_vars
  BY EndsBySettling, SettlingResumes
<1>4. QED
  BY <1>1, <1>2, <1>3, InvariantHolds, RolesAlwaysUsable, PTL DEF Spec, StopResumesReadyRole
=============================================================================
