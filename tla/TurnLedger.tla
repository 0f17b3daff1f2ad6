----------------------------- MODULE TurnLedger ------------------------------
(***************************************************************************)
(* What the tables of a workspace promise to a reader, whatever tasks,     *)
(* timers, locks and crashes are behind them: a conversation has one       *)
(* unfinished turn at a time; an unfinished turn only gains events; it is  *)
(* settled once, by one message of the assistant, together with the last   *)
(* event of the turn (done) or, after a crash, without one; a settled turn *)
(* never changes again; a deleted conversation takes its turns with it.    *)
(***************************************************************************)
EXTENDS Naturals, Sequences

CONSTANTS Conversations, Turns, None

VARIABLES conversation, status, owner, events, answers

ledger == <<conversation, status, owner, events, answers>>

Init ==
  /\ conversation = [c \in Conversations |-> "absent"]
  /\ status = [t \in Turns |-> "unused"]
  /\ owner = [t \in Turns |-> None]
  /\ events = [t \in Turns |-> <<>>]
  /\ answers = [t \in Turns |-> 0]

Create(c) ==
  /\ conversation[c] = "absent"
  /\ conversation' = [conversation EXCEPT ![c] = "present"]
  /\ UNCHANGED <<status, owner, events, answers>>

Open(c, t) ==
  /\ conversation[c] = "present"
  /\ \A u \in Turns : owner[u] = c => status[u] # "running"
  /\ status[t] = "unused"
  /\ status' = [status EXCEPT ![t] = "running"]
  /\ owner' = [owner EXCEPT ![t] = c]
  /\ UNCHANGED <<conversation, events, answers>>

Gain(t) ==
  /\ status[t] = "running"
  /\ \E e \in {"role_start", "role_ready", "event"} \X {"", "assistant", "orchestrator", "implementer"} :
       events' = [events EXCEPT ![t] = Append(@, e)]
  /\ UNCHANGED <<conversation, status, owner, answers>>

Settle(t, outcome) ==
  /\ status[t] = "running"
  /\ status' = [status EXCEPT ![t] = IF outcome = "failed" THEN "failed" ELSE "complete"]
  /\ events' = [events EXCEPT ![t] = Append(@, <<"done", outcome>>)]
  /\ answers' = [answers EXCEPT ![t] = @ + 1]
  /\ UNCHANGED <<conversation, owner>>

Interrupt(t) ==
  /\ status[t] = "running"
  /\ status' = [status EXCEPT ![t] = "interrupted"]
  /\ answers' = [answers EXCEPT ![t] = @ + 1]
  /\ UNCHANGED <<conversation, owner, events>>

Drop(c) ==
  /\ conversation[c] = "present"
  /\ conversation' = [conversation EXCEPT ![c] = "deleted"]
  /\ status' = [t \in Turns |-> IF owner[t] = c THEN "deleted" ELSE status[t]]
  /\ events' = [t \in Turns |-> IF owner[t] = c THEN <<>> ELSE events[t]]
  /\ answers' = [t \in Turns |-> IF owner[t] = c THEN 0 ELSE answers[t]]
  /\ UNCHANGED owner

Next ==
  \/ \E c \in Conversations : Create(c) \/ Drop(c) \/ \E t \in Turns : Open(c, t)
  \/ \E t \in Turns : Gain(t) \/ Interrupt(t)
                      \/ \E outcome \in {"answer", "cancelled", "failed"} : Settle(t, outcome)

Spec == Init /\ [][Next]_ledger
=============================================================================
