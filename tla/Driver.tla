------------------------------- MODULE Driver --------------------------------
(***************************************************************************)
(* ConversationDriver (services/driver.py): the loop of agent calls in one *)
(* turn.  In single mode an assistant is called; in orchestrated mode an   *)
(* orchestrator, and an implementer for each task it delegates or for a    *)
(* message that resumes the implementer.                                   *)
(*                                                                         *)
(* An agent may say anything: the text of a call is any of Texts.  Left    *)
(* out: the prompts, provider sessions after the first call, usage.        *)
(***************************************************************************)
EXTENDS Decisions

CONSTANTS
  Texts,           \* the final texts of calls
  MaxDelegations   \* bound on the tasks delegated in the turn

ASSUME DriverAssumption ==
  /\ Texts \subseteq Seq(Candidates)
  /\ MaxDelegations \in Nat

NoRole == ""
RepairAttempts == 2
Continuations == 3

VARIABLES
  mode, readOnly, resume,   \* the TurnInput: mode, sandbox, and whether
                            \* the stored implementer session is to resume
  at,             \* "preparing", "calling", "streaming" or "ended"
  role, ready,    \* what the yielded role events tell the service
  task,           \* pending_task is set
  mayReply, repairs, continuations,
  final,          \* the final event of the call: "none", "failure", "text"
  delegations, rounds, calls,   \* tasks delegated, summaries, calls made
  result          \* "none", a result, or "error", "stopped"

input == <<mode, readOnly, resume>>
counts == <<delegations, rounds, calls>>
vars == <<input, at, role, ready, task, mayReply, repairs, continuations, final, counts, result>>

ModeRoles == IF mode = "single" THEN {"assistant"} ELSE {"orchestrator", "implementer"}
DrivingRole == IF mode = "single" THEN "assistant" ELSE "orchestrator"

FlagsTypeOK ==
  /\ mode \in {"single", "orchestrated"} /\ readOnly \in BOOLEAN /\ resume \in BOOLEAN
  /\ at \in {"preparing", "calling", "streaming", "ended"}
  /\ role \in {NoRole, "assistant", "orchestrator", "implementer"} /\ ready \in BOOLEAN
  /\ task \in BOOLEAN /\ mayReply \in BOOLEAN
  /\ final \in {"none", "failure", "text"}
  /\ result \in {"none", "answer", "reply", "failed", "error", "stopped"}

CountsTypeOK ==
  /\ repairs \in Nat /\ continuations \in Nat
  /\ delegations \in Nat /\ rounds \in Nat /\ calls \in Nat

TypeOK == FlagsTypeOK /\ CountsTypeOK

Init ==
  /\ mode \in {"single", "orchestrated"} /\ readOnly \in BOOLEAN /\ resume \in BOOLEAN
  /\ at = "preparing"
  /\ role = NoRole /\ ready = TRUE
  /\ task = FALSE /\ mayReply = FALSE
  /\ repairs = 0 /\ continuations = 0
  /\ final = "none"
  /\ delegations = 0 /\ rounds = 0 /\ calls = 0
  /\ result = "none"

End(f) ==
  /\ at' = "ended"
  /\ result' = f

(* The message goes to the implementer when the turn resumes it. *)
SteeredAlways == mode = "orchestrated" /\ resume
Steered == mode = "orchestrated" /\ resume /\ ~readOnly

Prepare ==
  /\ at = "preparing"
  /\ at' = "calling"
  /\ task' = Steered
  /\ mayReply' = Steered
  /\ UNCHANGED <<input, role, ready, repairs, continuations, final, counts, result>>

StartCallStillReady ==
  /\ at = "calling"
  /\ at' = "streaming"
  /\ role' = IF task THEN "implementer" ELSE DrivingRole
  /\ calls' = calls + 1
  /\ final' = "none"
  /\ UNCHANGED <<input, ready, task, mayReply, repairs, continuations, delegations, rounds, result>>

(* role_start is yielded before the call is prepared *)
StartCall ==
  /\ at = "calling"
  /\ at' = "streaming"
  /\ role' = IF task THEN "implementer" ELSE DrivingRole
  /\ ready' = FALSE
  /\ calls' = calls + 1
  /\ final' = "none"
  /\ UNCHANGED <<input, task, mayReply, repairs, continuations, delegations, rounds, result>>

ProviderReady ==
  /\ at = "streaming"
  /\ ready' = TRUE
  /\ UNCHANGED <<input, at, role, task, mayReply, repairs, continuations, final, counts, result>>

ProviderFinal(f) ==
  /\ at = "streaming"
  /\ final' = f
  /\ UNCHANGED <<input, at, role, ready, task, mayReply, repairs, continuations, counts, result>>

(* Preparation, the hook before a call, the provider or one of its events  *)
(* raises; or the service closes the generator.                            *)
Abandoned(f) ==
  /\ at # "ended"
  /\ f \in {"error", "stopped"}
  /\ End(f)
  /\ UNCHANGED <<input, role, ready, task, mayReply, repairs, continuations, final, counts>>

-----------------------------------------------------------------------------
(* The call is over. *)

CallFailed ==
  /\ at = "streaming"
  /\ final # "text"
  /\ End("failed")
  /\ UNCHANGED <<input, role, ready, task, mayReply, repairs, continuations, final, counts>>

(* Budgets count the calls that did not move the turn on. *)
RepairUncounted ==
  /\ at' = "calling"
  /\ UNCHANGED <<repairs, result>>

Repair ==
  /\ repairs' = repairs + 1
  /\ IF repairs' > RepairAttempts THEN End("failed") ELSE at' = "calling" /\ UNCHANGED result

Continue ==
  /\ continuations' = continuations + 1
  /\ IF continuations' > Continuations THEN End("failed") ELSE at' = "calling" /\ UNCHANGED result

HandoffMayReply ==
  /\ at' = "calling"
  /\ rounds' = rounds + 1
  /\ task' = FALSE
  /\ continuations' = 0
  /\ UNCHANGED <<mayReply, result>>

(* The summary goes to the orchestrator. *)
Handoff ==
  /\ at' = "calling"
  /\ rounds' = rounds + 1
  /\ task' = FALSE
  /\ mayReply' = FALSE
  /\ continuations' = 0
  /\ UNCHANGED result

ImplementerEnds(text) ==
  LET action == parse_implementer(text, mayReply)
  IN
  /\ at = "streaming" /\ final = "text"
  /\ role = "implementer"
  /\ \/ /\ action \in Commentary
        /\ Continue
        /\ UNCHANGED <<task, mayReply, rounds>>
     \/ /\ action = "reply_user"
        /\ End("reply")
        /\ UNCHANGED <<task, mayReply, rounds, continuations>>
     \/ /\ action = "final_answer"
        /\ Handoff
  /\ UNCHANGED <<input, role, ready, repairs, final, delegations, calls>>

(* In a read-only turn the delegation is answered instead of run. *)
Delegate ==
  IF readOnly
  THEN End("answer") /\ UNCHANGED <<task, continuations, delegations>>
  ELSE /\ delegations < MaxDelegations
       /\ at' = "calling"
       /\ task' = TRUE
       /\ continuations' = 0
       /\ delegations' = delegations + 1
       /\ UNCHANGED result

DriverEnds(text) ==
  LET action == parse_orchestrator(text, mode = "orchestrated")
  IN
  /\ at = "streaming" /\ final = "text"
  /\ role = DrivingRole
  /\ \/ /\ action = "none"
        /\ Repair
        /\ UNCHANGED <<task, continuations, delegations>>
     \/ /\ action \in Commentary
        /\ Continue
        /\ UNCHANGED <<task, repairs, delegations>>
     \/ /\ action \in {"final_answer", "request_user_input"}
        /\ End("answer")
        /\ UNCHANGED <<task, repairs, continuations, delegations>>
     \/ /\ action = "delegate"
        /\ Delegate
        /\ UNCHANGED repairs
  /\ UNCHANGED <<input, role, ready, mayReply, final, rounds, calls>>

-----------------------------------------------------------------------------
Next ==
  \/ Prepare \/ StartCall \/ ProviderReady \/ CallFailed
  \/ \E f \in {"failure", "text"} : ProviderFinal(f)
  \/ \E f \in {"error", "stopped"} : Abandoned(f)
  \/ \E text \in Texts : ImplementerEnds(text) \/ DriverEnds(text)

Spec == Init /\ [][Next]_vars

-----------------------------------------------------------------------------
(* "The driving role has two decision-repair attempts and three checkpoint *)
(* continuations", "Each implementer round starts with a fresh ... budget":*)
(* a turn makes a bounded number of calls for each task it moves on by,    *)
(* whatever its agents say.                                                *)
CallsBounded ==
  calls <= (1 + Continuations) * (1 + delegations + rounds) + RepairAttempts

(* An implementer only works in an orchestrated turn that may write.       *)
RolesConfined ==
  /\ role # NoRole => role \in ModeRoles
  /\ role = "implementer" => ~readOnly

(* A turn is answered by its driving role only when every task has been    *)
(* handed back to it, and by the implementer only when the user's message  *)
(* was the one task of the turn.                                           *)
WorkReviewed ==
  /\ result = "answer" =>
       ~task /\ role = DrivingRole /\ rounds = delegations + (IF Steered THEN 1 ELSE 0)
  /\ result = "reply" => Steered /\ role = "implementer" /\ delegations = 0 /\ rounds = 0

(* The invariant behind them: the calls spent on the present stretch, and  *)
(* where the tasks taken on so far are.                                    *)
CallsSpent ==
  /\ at # "ended" => continuations <= Continuations /\ repairs <= RepairAttempts
  /\ at \in {"preparing", "calling"} =>
       calls <= (1 + Continuations) * (delegations + rounds) + continuations + repairs
  /\ at = "streaming" =>
       calls <= (1 + Continuations) * (delegations + rounds) + continuations + repairs + 1

TasksPlaced ==
  /\ at = "preparing" => role = NoRole /\ ~task /\ ~mayReply /\ rounds = 0 /\ delegations = 0
  /\ at \in {"calling", "streaming"} =>
       rounds + (IF task THEN 1 ELSE 0) = delegations + (IF Steered THEN 1 ELSE 0)
  /\ at = "streaming" => role = IF task THEN "implementer" ELSE DrivingRole
  /\ task => mode = "orchestrated" /\ ~readOnly
  /\ mayReply => task /\ Steered /\ rounds = 0 /\ delegations = 0
  /\ at = "ended" <=> result # "none"

(* The driver keeps what the turn service assumes of it. *)
Contract == INSTANCE DriverContract
              WITH mode <- mode, role <- role, ready <- ready, result <- result
ContractSpec == Contract!Spec
=============================================================================
