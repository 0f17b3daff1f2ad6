------------------------------ MODULE Decisions ------------------------------
(***************************************************************************)
(* domain/decisions.py: how the final text of a call becomes a decision.   *)
(* A text is the sequence of the JSON objects found in it, in the order    *)
(* they are tried; a candidate that is not an object is never read and is  *)
(* left out.                                                               *)
(***************************************************************************)
EXTENDS Naturals, Sequences

(* A field is absent (or null), a blank string, a string with text in it,  *)
(* or a value of another type.  Other keys of the object are never looked  *)
(* at, but an object without any is told apart.                            *)
Fields == {"absent", "blank", "text", "other"}
Commentary == {"progress", "milestone"}
EmptyObject == [action |-> "empty", message |-> "absent", task |-> "absent"]
Candidates == [action : {"absent", "nonstring", "unknown", "delegate", "run_implementer",
                         "final_answer", "respond", "user_message",
                         "request_user_input", "reply_user"} \cup Commentary,
               message : Fields, task : Fields] \cup {EmptyObject}

Said(field) == field = "text"
Empty(field) == field \in {"absent", "blank"}

(* The decision of the first candidate that reads as one. *)
First(text, Reads(_)) ==
  {a \in UNION {Reads(text[i]) : i \in 1 .. Len(text)} :
     \E i \in 1 .. Len(text) :
       a \in Reads(text[i]) /\ \A j \in 1 .. (i - 1) : Reads(text[j]) = {}}

OrchestratorActions == Commentary \cup {"delegate", "final_answer", "request_user_input"}

(* An object without an action is an answer, whatever else it holds. *)
OrchestratorReads(c, allowDelegate) ==
  {a \in OrchestratorActions :
     \/ /\ a \in Commentary \cup {"request_user_input"}
        /\ c.action = a /\ Said(c.message) /\ Empty(c.task)
     \/ /\ a = "delegate" /\ allowDelegate
        /\ c.action \in {"delegate", "run_implementer"} /\ Said(c.task) /\ Empty(c.message)
     \/ /\ a = "final_answer"
        /\ \/ /\ c.action \in {"final_answer", "respond", "user_message"}
              /\ Said(c.message) /\ Empty(c.task)
           \/ c.action = "absent"}

(* "none" makes the driver ask for a repair. *)
parse_orchestrator(text, allowDelegate) ==
  LET first == First(text, LAMBDA c : OrchestratorReads(c, allowDelegate))
  IN IF first = {} THEN "none" ELSE CHOOSE a \in first : TRUE

ImplementerActions == Commentary \cup {"final_answer", "reply_user"}

ImplementerReads(c, allowReply) ==
  {a \in ImplementerActions :
     /\ Said(c.message)
     /\ c.action \in ImplementerActions
     /\ a = IF c.action = "reply_user" /\ ~allowReply THEN "final_answer" ELSE c.action}

(* Nothing is repaired here: any other text is the summary of the work.    *)
parse_implementer(text, allowReply) ==
  LET first == First(text, LAMBDA c : ImplementerReads(c, allowReply))
  IN IF first = {} THEN "final_answer" ELSE CHOOSE a \in first : TRUE
=============================================================================
