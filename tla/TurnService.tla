----------------------------- MODULE TurnService -----------------------------
(***************************************************************************)
(* One backend process running conversation turns: services/turn.py over   *)
(* the tables of storage/turns.py and storage/conversations.py.            *)
(*                                                                         *)
(* The service is one asyncio thread, so an action is what one task does   *)
(* between two awaits.  SQLite calls are synchronous, and each of them is  *)
(* one transaction.  A turn is a task (TurnService._run), a deletion is a  *)
(* task (TurnService.delete.remove), and both take the asyncio lock of     *)
(* their workspace.                                                        *)
(*                                                                         *)
(* Left out: message texts, session rows, citations, activity, naming.     *)
(***************************************************************************)
EXTENDS Naturals, Sequences

CONSTANTS
  Workspaces,
  Conversations,     \* conversation ids; an id is used once
  WorkspaceOf,       \* the workspace whose database holds a conversation
  Turns,             \* turn ids (uuid4); an id is used once
  EvaluationTurns,   \* turns started with an after_execution callback
  None,
  Modes,             \* the agent modes in use
  MaxEvents,         \* bound on the events the driver records in each turn
  StorageFails       \* may a write of a running turn raise (disk full, ...)?

ASSUME ConstantsAssumption ==
  /\ WorkspaceOf \in [Conversations -> Workspaces]
  /\ EvaluationTurns \subseteq Turns
  /\ Turns \cap Conversations = {}
  /\ None \notin Turns \cup Conversations
  /\ Modes \subseteq {"single", "orchestrated"}
  /\ MaxEvents \in [Turns -> Nat]
  /\ StorageFails \in BOOLEAN

RolesOf(m) == IF m = "single" THEN {"assistant"}
                              ELSE {"orchestrator", "implementer"}
Roles == RolesOf("single") \cup RolesOf("orchestrated")
NoRole == ""

VARIABLES
  \* durable: the rows of the workspace databases
  conversation,      \* "absent", "present" or "deleted"
  mode,              \* conversations.agent_mode
  interruptedRole,   \* conversations.interrupted_role
  status,            \* turns.status; "unused" and "deleted" have no row
  owner,             \* turns.conversation_id
  events,            \* turn_events of a turn, in sequence order
  answers,           \* assistant messages stored for a turn
  \* TurnHandle and the position of its task
  pc,                \* where _run is suspended
  cancel,            \* cancel_requested, cancel_sent, CancelledError thrown
  cancelRole,        \* cancel_resume_role
  role, ready,       \* the role being run, and whether it can be resumed
  fate,              \* the result or the exception on its way out of _run
  wrong,             \* execution_failed, pending_failure, the callback's exception
  timer,             \* the _force_cancel task is pending
  error,             \* handle.error is set: finalization failed
  \* the service
  service,           \* "open", "closing" (_closing) or "closed"
  active,            \* _active
  holder,            \* the task inside _locks[workspace]
  deletion,          \* where delete.remove is suspended; _deleting
  awaited            \* the turn a deletion waits for

durable == <<conversation, mode, interruptedRole, status, owner, events, answers>>
stopVars == <<cancel, cancelRole, timer>>
handleVars == <<pc, stopVars, role, ready, fate, wrong, error>>
serviceVars == <<service, active, holder, deletion, awaited>>
vars == <<durable, handleVars, serviceVars>>

Statuses == {"unused", "running", "complete", "failed", "interrupted", "deleted"}
Executing == {"driving", "stopping", "cleanup"}
Live == {"created", "locking"} \cup Executing
Outcomes == {"answer", "cancelled", "failed"}
Fates == {"none", "answer", "reply", "failed", "error", "cancelled"}
Failures == {"result", "driver", "cleanup"}
Events == ({"role_start", "role_ready"} \X Roles) \cup {<<"event", NoRole>>}
          \cup ({"done"} \X Outcomes)

RowsTypeOK ==
  /\ conversation \in [Conversations -> {"absent", "present", "deleted"}]
  /\ mode \in [Conversations -> {"single", "orchestrated"}]
  /\ interruptedRole \in [Conversations -> Roles \cup {NoRole}]
  /\ status \in [Turns -> Statuses]
  /\ owner \in [Turns -> Conversations \cup {None}]
  /\ events \in [Turns -> Seq(Events)]
  /\ answers \in [Turns -> Nat]

StopsTypeOK ==
  /\ cancel \in [Turns -> {"none", "requested", "sent", "delivered"}]
  /\ cancelRole \in [Turns -> Roles \cup {NoRole}]
  /\ timer \in [Turns -> BOOLEAN]

TasksTypeOK ==
  /\ pc \in [Turns -> {"idle", "ended"} \cup Live]
  /\ role \in [Turns -> Roles \cup {NoRole}]
  /\ ready \in [Turns -> BOOLEAN]
  /\ fate \in [Turns -> Fates]
  /\ wrong \in [Turns -> SUBSET Failures]
  /\ error \in [Turns -> BOOLEAN]

ServiceTypeOK ==
  /\ service \in {"open", "closing", "closed"}
  /\ active \in [Conversations -> Turns \cup {None}]
  /\ holder \in [Workspaces -> Turns \cup Conversations \cup {None}]
  /\ deletion \in [Conversations -> {"none", "created", "waiting", "locking", "cleanup"}]
  /\ awaited \in [Conversations -> Turns \cup {None}]

TypeOK == RowsTypeOK /\ StopsTypeOK /\ TasksTypeOK /\ ServiceTypeOK

Idle ==
  /\ pc = [t \in Turns |-> "idle"]
  /\ cancel = [t \in Turns |-> "none"]
  /\ cancelRole = [t \in Turns |-> NoRole]
  /\ role = [t \in Turns |-> NoRole]
  /\ ready = [t \in Turns |-> TRUE]
  /\ fate = [t \in Turns |-> "none"]
  /\ wrong = [t \in Turns |-> {}]
  /\ timer = [t \in Turns |-> FALSE]
  /\ error = [t \in Turns |-> FALSE]
  /\ service = "open"
  /\ active = [c \in Conversations |-> None]
  /\ holder = [w \in Workspaces |-> None]
  /\ deletion = [c \in Conversations |-> "none"]
  /\ awaited = [c \in Conversations |-> None]

Init ==
  /\ conversation = [c \in Conversations |-> "absent"]
  /\ mode = [c \in Conversations |-> "orchestrated"]
  /\ interruptedRole = [c \in Conversations |-> NoRole]
  /\ status = [t \in Turns |-> "unused"]
  /\ owner = [t \in Turns |-> None]
  /\ events = [t \in Turns |-> <<>>]
  /\ answers = [t \in Turns |-> 0]
  /\ Idle

-----------------------------------------------------------------------------
(* The workspace lock.  asyncio.Lock is first come, first served: a task   *)
(* takes it at once only when nobody holds it and nobody waits for it.     *)

Workspace(t) == WorkspaceOf[owner[t]]
Waiting(w) ==
  \/ \E t \in Turns : pc[t] = "locking" /\ Workspace(t) = w
  \/ \E c \in Conversations : deletion[c] = "locking" /\ WorkspaceOf[c] = w
LockFreeUnchecked(w) == ~Waiting(w)
LockFree(w) == holder[w] = None /\ ~Waiting(w)
ReleaseForgotten(who) == UNCHANGED holder
Release(who) == holder' = [w \in Workspaces |-> IF holder[w] = who THEN None ELSE holder[w]]

-----------------------------------------------------------------------------
(* Requests *)

HasHistory(c) == \E t \in Turns : owner[t] = c

\* Turns.active: an unfinished turn, also one without a task
UnfinishedInMemory(c) == active[c] # None
Unfinished(c) == \E u \in Turns : owner[u] = c /\ status[u] = "running"

AnyRole(r, m) == TRUE
ActiveRole(r, m) == r \in RolesOf(m) \cup {NoRole}

CreateConversation(c, m) ==
  /\ conversation[c] = "absent"
  /\ conversation' = [conversation EXCEPT ![c] = "present"]
  /\ mode' = [mode EXCEPT ![c] = m]
  /\ UNCHANGED <<interruptedRole, status, owner, events, answers, handleVars, serviceVars>>

(* TurnService.start: m is options.mode, applied only while the            *)
(* conversation has no message; r is options.resume_role, None for the     *)
(* stored interrupted role.                                                *)
Start(c, t, m, r) ==
  LET newMode == IF HasHistory(c) THEN mode[c] ELSE m
      resume == IF r = None THEN interruptedRole[c] ELSE r
  IN
  /\ service = "open"
  /\ deletion[c] = "none"
  /\ active[c] = None
  /\ conversation[c] = "present"
  /\ ~Unfinished(c)
  /\ ActiveRole(resume, newMode)
  /\ status[t] = "unused"
  /\ mode' = [mode EXCEPT ![c] = newMode]
  /\ interruptedRole' = [interruptedRole EXCEPT ![c] = resume]
  /\ status' = [status EXCEPT ![t] = "running"]
  /\ owner' = [owner EXCEPT ![t] = c]
  /\ active' = [active EXCEPT ![c] = t]
  /\ pc' = [pc EXCEPT ![t] = "created"]
  /\ UNCHANGED <<conversation, events, answers, stopVars, role, ready, fate, wrong, error,
                 service, holder, deletion, awaited>>

(* TurnService.cancel for every turn of T: a turn that runs a ready role   *)
(* is cancelled at once, any other gets a timer.                           *)
StopNowUnready(t) == pc[t] # "created"
StopNow(t) == pc[t] # "created" /\ ready[t]

RequestCancelUntimed(T) ==
  /\ cancel' = [t \in Turns |-> IF t \notin T \/ cancel[t] # "none" THEN cancel[t]
                                ELSE IF StopNow(t) THEN "sent" ELSE "requested"]
  /\ cancelRole' = [t \in Turns |-> IF t \in T /\ cancel[t] = "none" /\ StopNow(t)
                                    THEN role[t] ELSE cancelRole[t]]
  /\ UNCHANGED timer

RequestCancel(T) ==
  LET New == {t \in T : cancel[t] = "none"}
  IN
  /\ cancel' = [t \in Turns |-> IF t \notin New THEN cancel[t]
                                ELSE IF StopNow(t) THEN "sent" ELSE "requested"]
  /\ cancelRole' = [t \in Turns |-> IF t \in New /\ StopNow(t) THEN role[t] ELSE cancelRole[t]]
  /\ timer' = [t \in Turns |-> timer[t] \/ (t \in New /\ ~StopNow(t))]

Cancel(c, t) ==
  /\ active[c] = t
  /\ RequestCancel({t})
  /\ UNCHANGED <<durable, pc, role, ready, fate, wrong, error, serviceVars>>

(* TurnService._force_cancel when safe_interrupt_timeout has passed *)
ForceCancel(t) ==
  /\ timer[t]
  /\ timer' = [timer EXCEPT ![t] = FALSE]
  /\ IF cancel[t] = "requested" /\ pc[t] # "created"
     THEN /\ cancel' = [cancel EXCEPT ![t] = "sent"]
          /\ cancelRole' = [cancelRole EXCEPT ![t] = IF ready[t] THEN role[t] ELSE NoRole]
     ELSE UNCHANGED <<cancel, cancelRole>>
  /\ UNCHANGED <<durable, pc, role, ready, fate, wrong, error, serviceVars>>

-----------------------------------------------------------------------------
(* The end of _run.  From the release of the lock to the removal of the    *)
(* handle there is no await, so it is one step of every path out.  Nothing *)
(* reads an ended handle but its error: its other fields are forgotten.    *)

Outcome(t, f) ==
  IF f = "error" \/ "result" \in wrong[t] THEN "failed"
  ELSE IF f = "cancelled" \/ cancel[t] # "none" THEN "cancelled" ELSE "answer"

ResumeRoleDropped(t, f) == IF Outcome(t, f) = "cancelled" THEN cancelRole[t] ELSE None

ResumeRole(t, f) ==
  IF Outcome(t, f) = "cancelled" THEN cancelRole[t]
  ELSE IF Outcome(t, f) = "failed" THEN interruptedRole[owner[t]]
  ELSE IF f = "reply" THEN "implementer" ELSE NoRole

FinishAlwaysComplete(t, f) ==
  /\ status' = [status EXCEPT ![t] = "complete"]
  /\ interruptedRole' = [interruptedRole EXCEPT ![owner[t]] = ResumeRole(t, f)]
  /\ events' = [events EXCEPT ![t] = Append(@, <<"done", Outcome(t, f)>>)]
  /\ answers' = [answers EXCEPT ![t] = @ + 1]
  /\ UNCHANGED error

(* Turns.finish with the done event: one transaction *)
Finish(t, f) ==
  /\ status' = [status EXCEPT ![t] = IF Outcome(t, f) = "failed" THEN "failed" ELSE "complete"]
  /\ interruptedRole' = [interruptedRole EXCEPT ![owner[t]] = ResumeRole(t, f)]
  /\ events' = [events EXCEPT ![t] = Append(@, <<"done", Outcome(t, f)>>)]
  /\ answers' = [answers EXCEPT ![t] = @ + 1]
  /\ UNCHANGED error

FinishRaisesSilently(t) ==
  /\ StorageFails \/ conversation[owner[t]] # "present"
  /\ UNCHANGED <<error, status, interruptedRole, events, answers>>

(* The transaction or what is read before it raises: the row stays running *)
FinishRaises(t) ==
  /\ StorageFails \/ conversation[owner[t]] # "present"
  /\ error' = [error EXCEPT ![t] = TRUE]
  /\ UNCHANGED <<status, interruptedRole, events, answers>>

Finalize(t, f) ==
  /\ \/ conversation[owner[t]] = "present" /\ status[t] = "running" /\ Finish(t, f)
     \/ FinishRaises(t)
  /\ Release(t)
  /\ pc' = [pc EXCEPT ![t] = "ended"]
  /\ active' = [active EXCEPT ![owner[t]] = None]
  /\ cancel' = [cancel EXCEPT ![t] = "none"]
  /\ cancelRole' = [cancelRole EXCEPT ![t] = NoRole]
  /\ role' = [role EXCEPT ![t] = NoRole]
  /\ ready' = [ready EXCEPT ![t] = TRUE]
  /\ fate' = [fate EXCEPT ![t] = "none"]
  /\ wrong' = [wrong EXCEPT ![t] = {}]
  /\ timer' = [timer EXCEPT ![t] = FALSE]
  /\ UNCHANGED <<conversation, mode, owner, service, deletion, awaited>>

-----------------------------------------------------------------------------
(* TurnService._run *)

(* The first step of the task.  A Stop that came before it ends the turn   *)
(* without entering the workspace.                                         *)
Begin(t) ==
  /\ pc[t] = "created"
  /\ \/ /\ cancel[t] # "none"
        /\ Finalize(t, "cancelled")
     \/ /\ cancel[t] = "none"
        /\ IF LockFree(Workspace(t))
           THEN /\ pc' = [pc EXCEPT ![t] = "driving"]
                /\ holder' = [holder EXCEPT ![Workspace(t)] = t]
           ELSE pc' = [pc EXCEPT ![t] = "locking"] /\ UNCHANGED holder
        /\ UNCHANGED <<durable, stopVars, role, ready, fate, wrong, error,
                       service, active, deletion, awaited>>

Acquire(t) ==
  /\ pc[t] = "locking"
  /\ cancel[t] # "sent"
  /\ holder[Workspace(t)] = None
  /\ pc' = [pc EXCEPT ![t] = "driving"]
  /\ holder' = [holder EXCEPT ![Workspace(t)] = t]
  /\ UNCHANGED <<durable, stopVars, role, ready, fate, wrong, error,
                 service, active, deletion, awaited>>

(* The driver yields an event only to a task that has not been cancelled:  *)
(* a cancelled one gets CancelledError at its next resumption.             *)
Driving(t) == pc[t] = "driving" /\ cancel[t] \notin {"sent", "delivered"}

(* append_event, notify and _cancel_if_ready, with the role and readiness  *)
(* the event set before it was recorded                                    *)
Record(t, e) ==
  /\ status[t] = "running"
  /\ Len(events[t]) < MaxEvents[t]
  /\ events' = [events EXCEPT ![t] = Append(@, e)]
  /\ IF cancel[t] = "requested" /\ ready'[t]
     THEN /\ cancel' = [cancel EXCEPT ![t] = "sent"]
          /\ cancelRole' = [cancelRole EXCEPT ![t] = role'[t]]
     ELSE UNCHANGED <<cancel, cancelRole>>
  /\ UNCHANGED <<pc, fate>>

(* append_event or sessions.save raises in the body of the loop *)
RecordRaises(t) ==
  /\ StorageFails \/ status[t] # "running"
  /\ pc' = [pc EXCEPT ![t] = "stopping"]
  /\ fate' = [fate EXCEPT ![t] = "error"]
  /\ UNCHANGED <<events, cancel, cancelRole>>

RecordFrame == UNCHANGED <<conversation, mode, interruptedRole, status, owner, answers,
                           timer, wrong, error, serviceVars>>

RoleStart(t, r) ==
  /\ Driving(t)
  /\ r \in RolesOf(mode[owner[t]])
  /\ role' = [role EXCEPT ![t] = r]
  /\ ready' = [ready EXCEPT ![t] = FALSE]
  /\ Record(t, <<"role_start", r>>) \/ RecordRaises(t)
  /\ RecordFrame

RoleReady(t) ==
  /\ Driving(t)
  /\ role[t] # NoRole
  /\ ready' = [ready EXCEPT ![t] = TRUE]
  /\ UNCHANGED role
  /\ Record(t, <<"role_ready", role[t]>>) \/ RecordRaises(t)
  /\ RecordFrame

OtherEvent(t) ==
  /\ Driving(t)
  /\ UNCHANGED <<role, ready>>
  /\ Record(t, <<"event", NoRole>>) \/ RecordRaises(t)
  /\ RecordFrame

(* The driver's result: "reply" is an answer whose resume_role is the      *)
(* implementer, "failed" sets execution_failed for good.                   *)
DriverResult(t, f) ==
  /\ Driving(t)
  /\ f \in {"answer", "failed"} \cup (IF mode[owner[t]] = "orchestrated" THEN {"reply"} ELSE {})
  /\ pc' = [pc EXCEPT ![t] = "stopping"]
  /\ fate' = [fate EXCEPT ![t] = f]
  /\ wrong' = [wrong EXCEPT ![t] = IF f = "failed" THEN @ \cup {"result"} ELSE @]
  /\ UNCHANGED <<durable, stopVars, role, ready, error, serviceVars>>

(* What happens when the generator of the driver is finished:              *)
(* after_execution runs, if the turn has one, and an error (but not a      *)
(* cancellation) is held as the pending failure meanwhile.                 *)
EnterCleanup(t, f) ==
  /\ pc' = [pc EXCEPT ![t] = "cleanup"]
  /\ fate' = [fate EXCEPT ![t] = f]
  /\ wrong' = [wrong EXCEPT ![t] = IF f = "error" THEN @ \cup {"driver"} ELSE @]
  /\ UNCHANGED <<durable, stopVars, role, ready, error, serviceVars>>

Leave(t, f) == IF t \in EvaluationTurns THEN EnterCleanup(t, f) ELSE Finalize(t, f)

(* The driver raises: its generator has already run its finally clauses *)
DriverRaises(t) ==
  /\ Driving(t)
  /\ Leave(t, "error")

(* aclose of the generator returns, or raises *)
DriverClosed(t) ==
  /\ pc[t] = "stopping"
  /\ cancel[t] # "sent"
  /\ Leave(t, fate[t]) \/ Leave(t, "error")

(* The task of the callback raises.  _run learns of it at its next         *)
(* resumption, and a Stop may be accepted and thrown before that.          *)
CallbackRaises(t) ==
  /\ pc[t] = "cleanup"
  /\ "cleanup" \notin wrong[t]
  /\ wrong' = [wrong EXCEPT ![t] = @ \cup {"cleanup"}]
  /\ UNCHANGED <<durable, pc, stopVars, role, ready, fate, error, serviceVars>>

(* _finish_execution resumes after the callback: its exception is raised   *)
(* in place of anything else, and a pending failure in place of a Stop     *)
(* that was thrown meanwhile.                                              *)
CleanupDoneStopped(t) ==
  /\ pc[t] = "cleanup"
  /\ cancel[t] # "sent"
  /\ Finalize(t, IF fate[t] # "cancelled" /\ "cleanup" \in wrong[t] THEN "error" ELSE fate[t])

CleanupDone(t) ==
  /\ pc[t] = "cleanup"
  /\ cancel[t] # "sent"
  /\ Finalize(t, IF wrong[t] \cap {"driver", "cleanup"} # {} THEN "error" ELSE fate[t])

(* CancelledError is thrown where the task waits, in place of what was on  *)
(* its way out.                                                            *)
DeliverCancel(t) ==
  /\ cancel[t] = "sent"
  /\ \/ pc[t] = "locking" /\ Finalize(t, "cancelled")
     \/ /\ pc[t] \in Executing
        /\ cancel' = [cancel EXCEPT ![t] = "delivered"]
        /\ pc' = [pc EXCEPT ![t] = IF @ = "driving" THEN "stopping" ELSE @]
        /\ fate' = [fate EXCEPT ![t] = "cancelled"]
        /\ UNCHANGED <<durable, timer, cancelRole, role, ready, wrong, error, serviceVars>>

-----------------------------------------------------------------------------
(* TurnService.delete *)

DeleteRequest(c) ==
  /\ service = "open"
  /\ deletion[c] = "none"
  /\ conversation[c] = "present"
  /\ deletion' = [deletion EXCEPT ![c] = "created"]
  /\ UNCHANGED <<durable, handleVars, service, active, holder, awaited>>

(* The remove task asks for the lock, and has it at once if it is free *)
RemoveLocks(c) ==
  IF LockFree(WorkspaceOf[c])
  THEN /\ deletion' = [deletion EXCEPT ![c] = "cleanup"]
       /\ holder' = [holder EXCEPT ![WorkspaceOf[c]] = c]
  ELSE deletion' = [deletion EXCEPT ![c] = "locking"] /\ UNCHANGED holder

RemoveBeginUnawaited(c) ==
  /\ deletion[c] = "created"
  /\ RemoveLocks(c)
  /\ UNCHANGED <<durable, handleVars, service, active, awaited>>

RemoveBegin(c) ==
  /\ deletion[c] = "created"
  /\ IF active[c] = None
     THEN RemoveLocks(c) /\ UNCHANGED <<stopVars, awaited>>
     ELSE /\ RequestCancel({active[c]})
          /\ awaited' = [awaited EXCEPT ![c] = active[c]]
          /\ deletion' = [deletion EXCEPT ![c] = "waiting"]
          /\ UNCHANGED holder
  /\ UNCHANGED <<durable, pc, role, ready, fate, wrong, error, service, active>>

(* The awaited task has ended; its finalization error is raised here *)
RemoveWaited(c) ==
  /\ deletion[c] = "waiting"
  /\ pc[awaited[c]] = "ended"
  /\ IF error[awaited[c]]
     THEN deletion' = [deletion EXCEPT ![c] = "none"] /\ UNCHANGED holder
     ELSE RemoveLocks(c)
  /\ awaited' = [awaited EXCEPT ![c] = None]
  /\ UNCHANGED <<durable, handleVars, service, active>>

RemoveAcquires(c) ==
  /\ deletion[c] = "locking"
  /\ holder[WorkspaceOf[c]] = None
  /\ deletion' = [deletion EXCEPT ![c] = "cleanup"]
  /\ holder' = [holder EXCEPT ![WorkspaceOf[c]] = c]
  /\ UNCHANGED <<durable, handleVars, service, active, awaited>>

(* cleanup returns and the rows are deleted with everything that refers to *)
(* them, or one of the two raises and the conversation stays               *)
RemoveDone(c) ==
  /\ deletion[c] = "cleanup"
  /\ \/ /\ conversation' = [conversation EXCEPT ![c] = "deleted"]
        /\ status' = [t \in Turns |-> IF owner[t] = c THEN "deleted" ELSE status[t]]
        /\ events' = [t \in Turns |-> IF owner[t] = c THEN <<>> ELSE events[t]]
        /\ answers' = [t \in Turns |-> IF owner[t] = c THEN 0 ELSE answers[t]]
     \/ UNCHANGED <<conversation, status, events, answers>>
  /\ deletion' = [deletion EXCEPT ![c] = "none"]
  /\ Release(c)
  /\ UNCHANGED <<mode, interruptedRole, owner, handleVars, service, active, awaited>>

-----------------------------------------------------------------------------
(* TurnService.close: no request is accepted any more, every turn is       *)
(* stopped, and the turns and then the deletions are waited for.           *)

CloseWithoutStop ==
  /\ service = "open"
  /\ service' = "closing"
  /\ UNCHANGED <<durable, handleVars, active, holder, deletion, awaited>>

Close ==
  /\ service = "open"
  /\ service' = "closing"
  /\ RequestCancel({t \in Turns : \E c \in Conversations : active[c] = t})
  /\ UNCHANGED <<durable, pc, role, ready, fate, wrong, error, active, holder, deletion, awaited>>

Closed ==
  /\ service = "closing"
  /\ \A c \in Conversations : active[c] = None /\ deletion[c] = "none"
  /\ service' = "closed"
  /\ UNCHANGED <<durable, handleVars, active, holder, deletion, awaited>>

-----------------------------------------------------------------------------
TurnStep(t) ==
  \/ Begin(t) \/ Acquire(t) \/ OtherEvent(t) \/ RoleReady(t)
  \/ \E r \in Roles : RoleStart(t, r)
  \/ \E f \in {"answer", "reply", "failed"} : DriverResult(t, f)
  \/ DriverRaises(t) \/ DriverClosed(t) \/ CallbackRaises(t) \/ CleanupDone(t)
  \/ DeliverCancel(t) \/ ForceCancel(t)

DeletionStep(c) ==
  \/ RemoveBegin(c) \/ RemoveWaited(c) \/ RemoveAcquires(c) \/ RemoveDone(c)

Request ==
  \/ \E c \in Conversations, m \in Modes : CreateConversation(c, m)
  \/ \E c \in Conversations, t \in Turns, m \in Modes, r \in Roles \cup {NoRole, None} :
       Start(c, t, m, r)
  \/ \E c \in Conversations, t \in Turns : Cancel(c, t)
  \/ \E c \in Conversations : DeleteRequest(c)
  \/ Close

Next ==
  \/ Request
  \/ \E t \in Turns : TurnStep(t)
  \/ \E c \in Conversations : DeletionStep(c)
  \/ Closed

Spec == Init /\ [][Next]_vars

-----------------------------------------------------------------------------
(* Properties *)

(* "Conversations serialize turn execution within that workspace": of all  *)
(* turns and deletions of a workspace at most one is between the lock's    *)
(* acquisition and its release (_run, delete.remove).                      *)
Occupants(w) ==
  {t \in Turns : pc[t] \in Executing /\ Workspace(t) = w}
    \cup {c \in Conversations : deletion[c] = "cleanup" /\ WorkspaceOf[c] = w}

WorkspaceExclusive == \A w \in Workspaces : \A x, y \in Occupants(w) : x = y

(* A conversation never has two unfinished turns, also when an earlier one *)
(* could not be finalized (the `active` query in TurnService.start).       *)
OneRunningTurn ==
  \A t, u \in Turns :
    status[t] = "running" /\ status[u] = "running" /\ owner[t] = owner[u] => t = u

(* The tasks in memory and the rows agree: a task that has not ended is    *)
(* the registered one of its conversation and its row is running, and a    *)
(* running row without a task is one whose finalization raised.            *)
HandlesMatchRows ==
  \A t \in Turns :
    /\ pc[t] \in Live => status[t] = "running" /\ active[owner[t]] = t
    /\ status[t] = "running" /\ pc[t] \notin Live => error[t]

(* A turn has an assistant message exactly when it is settled; done is its *)
(* last event exactly when _run settled it, and says the same outcome as   *)
(* the row (Turns.finish, Turns.append_event).                             *)
DoneAndAnswerOnce ==
  \A t \in Turns :
    /\ answers[t] = IF status[t] \in {"complete", "failed", "interrupted"} THEN 1 ELSE 0
    /\ \A i \in 1 .. Len(events[t]) :
         events[t][i][1] = "done" =>
           /\ i = Len(events[t])
           /\ status[t] = IF events[t][i][2] = "failed" THEN "failed" ELSE "complete"
    /\ status[t] \in {"complete", "failed"} =>
         Len(events[t]) > 0 /\ events[t][Len(events[t])][1] = "done"

(* The stored resume role never locks a conversation out: start accepts it *)
(* under the conversation's mode, which is frozen once it has history.     *)
ResumeRoleUsable ==
  \A c \in Conversations : interruptedRole[c] \in RolesOf(mode[c]) \cup {NoRole}

(* Once a conversation is deleted nothing of it runs, waits for the        *)
(* workspace or is left in the tables; once the service is closed nothing  *)
(* runs at all.                                                            *)
QuietAfterEnd ==
  /\ \A t \in Turns :
       owner[t] # None /\ conversation[owner[t]] = "deleted" =>
         pc[t] \in {"idle", "ended"} /\ status[t] = "deleted" /\ events[t] = <<>>
  /\ service = "closed" =>
       /\ \A t \in Turns : pc[t] \notin Live
       /\ \A w \in Workspaces : holder[w] = None

(* The role that is resumed after a Stop is one whose latest run had       *)
(* reported that it can be resumed when the Stop reached it.               *)
ReadyRoles(log) ==
  {r \in Roles : \E i \in 1 .. Len(log) :
     /\ log[i] = <<"role_ready", r>>
     /\ \A j \in i .. Len(log) : log[j][1] # "role_start"}

Ends(t) == pc[t] \in Live /\ pc'[t] = "ended" /\ ~error'[t]
SettledAs(t) == events'[t][Len(events'[t])][2]

StopResumesReadyRole ==
  [][\A t \in Turns :
       Ends(t) /\ SettledAs(t) = "cancelled" =>
         interruptedRole'[owner[t]] \in ReadyRoles(events'[t]) \cup {NoRole}]_vars

(* Whatever went wrong before the end of a turn - a failed result, an      *)
(* error of the driver that waited for the callback, an exception of the   *)
(* callback - settles it as failed, however many Stops were accepted or    *)
(* thrown since ("A cleanup error must win over a concurrent Stop and      *)
(* remain FAILED").  And a turn whose Stop was accepted is never settled   *)
(* with an answer.                                                         *)
OutcomePrecedence ==
  [][\A t \in Turns :
       Ends(t) =>
         /\ wrong[t] # {} => SettledAs(t) = "failed"
         /\ cancel[t] # "none" => SettledAs(t) # "answer"]_vars

(* The tables go through the steps of the ledger only. *)
Ledger == INSTANCE TurnLedger
            WITH conversation <- conversation, status <- status, owner <- owner,
                 events <- events, answers <- answers
LedgerSpec == Ledger!Spec

-----------------------------------------------------------------------------
(* The inductive invariant behind the safety properties: how the rows, the *)
(* tasks, the registered handles, the locks and the deletions determine    *)
(* each other, and which roles can be stored.                              *)

RowsConsistent ==
  \A t \in Turns :
    /\ status[t] = "unused" <=> owner[t] = None
    /\ status[t] = "unused" => pc[t] = "idle"
    /\ status[t] \in {"unused", "deleted"} => events[t] = <<>>
    /\ owner[t] # None =>
         /\ conversation[owner[t]] # "absent"
         /\ conversation[owner[t]] = "deleted" <=> status[t] = "deleted"

ActiveConsistent ==
  \A c \in Conversations : active[c] # None => pc[active[c]] \in Live /\ owner[active[c]] = c

LockConsistent ==
  \A w \in Workspaces :
    /\ \A t \in Turns : holder[w] = t <=> (pc[t] \in Executing /\ Workspace(t) = w)
    /\ \A c \in Conversations : holder[w] = c <=> (deletion[c] = "cleanup" /\ WorkspaceOf[c] = w)

DeletionConsistent ==
  \A c \in Conversations :
    /\ deletion[c] # "none" => conversation[c] = "present"
    /\ deletion[c] \in {"locking", "cleanup"} => active[c] = None
    /\ deletion[c] = "waiting" => awaited[c] \in Turns /\ active[c] \in {None, awaited[c]}

ClosedConsistent ==
  service = "closed" => \A c \in Conversations : active[c] = None /\ deletion[c] = "none"

Consistent ==
  /\ HandlesMatchRows /\ RowsConsistent /\ ActiveConsistent /\ LockConsistent
  /\ DeletionConsistent /\ ClosedConsistent /\ OneRunningTurn

RolesConsistent ==
  /\ \A t \in Turns :
       LET known == IF pc[t] \in Live THEN RolesOf(mode[owner[t]]) ELSE {}
       IN
       /\ role[t] \in known \cup {NoRole}
       /\ cancelRole[t] \in known \cup {NoRole}
       /\ fate[t] = "reply" => "implementer" \in known
  /\ \A c \in Conversations : conversation[c] = "absent" => interruptedRole[c] = NoRole

-----------------------------------------------------------------------------
(* Liveness.  The event loop runs every task that is ready, a timer fires, *)
(* the lock serves its waiters in order, and closing a generator, the      *)
(* callback of an evaluation and the cleanup of a conversation return or   *)
(* raise.  Nothing is assumed of the agent: a driver may stay silent.      *)

Fairness ==
  /\ \A t \in Turns :
       /\ WF_vars(Begin(t)) /\ WF_vars(DeliverCancel(t)) /\ WF_vars(ForceCancel(t))
       /\ WF_vars(DriverClosed(t)) /\ WF_vars(CleanupDone(t)) /\ SF_vars(Acquire(t))
  /\ \A c \in Conversations :
       /\ WF_vars(RemoveBegin(c)) /\ WF_vars(RemoveWaited(c)) /\ WF_vars(RemoveDone(c))
       /\ SF_vars(RemoveAcquires(c))
  /\ WF_vars(Closed)

FairSpec == Spec /\ Fairness

(* A Stop ends the turn it was accepted for, wherever it finds the turn:   *)
(* not begun, queued for the workspace, in a role that never becomes       *)
(* ready, or closing.                                                      *)
StopEndsTurn ==
  \A t \in Turns : (pc[t] \in Live /\ cancel[t] # "none") ~> (pc[t] = "ended")

(* "Shutdown drains active work": close ends, with every turn and deletion *)
(* that was under way.                                                     *)
CloseCompletes == (service = "closing") ~> (service = "closed")

(* A deletion ends, or it is held up by a turn of another conversation     *)
(* that is running in the workspace; it is never stuck on its own turn.    *)
DeletionCompletes ==
  \A c \in Conversations :
    (deletion[c] # "none") ~>
      \/ deletion[c] = "none"
      \/ \E t \in Turns : pc[t] = "driving" /\ Workspace(t) = WorkspaceOf[c] /\ owner[t] # c
=============================================================================
