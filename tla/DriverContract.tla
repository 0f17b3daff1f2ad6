--------------------------- MODULE DriverContract ----------------------------
(***************************************************************************)
(* What TurnService._run assumes of the generator it iterates: roles of    *)
(* the turn's mode are started, a started role may become ready, and one   *)
(* result or one exception ends the stream, unless the service closes it.  *)
(***************************************************************************)
VARIABLES mode, role, ready, result

contract == <<mode, role, ready, result>>

NoRole == ""
ModeRoles == IF mode = "single" THEN {"assistant"} ELSE {"orchestrator", "implementer"}

Init ==
  /\ mode \in {"single", "orchestrated"}
  /\ role = NoRole /\ ready = TRUE
  /\ result = "none"

Started(r) ==
  /\ result = "none"
  /\ r \in ModeRoles
  /\ role' = r
  /\ ready' = FALSE
  /\ UNCHANGED <<mode, result>>

BecomesReady ==
  /\ result = "none"
  /\ role # NoRole
  /\ ready' = TRUE
  /\ UNCHANGED <<mode, role, result>>

(* An agent has to be asked before there is an answer, and only the        *)
(* implementer leaves itself as the role to resume.                        *)
Ends(f) ==
  /\ result = "none"
  /\ f \in {"answer", "reply", "failed"} => role # NoRole
  /\ f = "reply" => role = "implementer"
  /\ result' = f
  /\ UNCHANGED <<mode, role, ready>>

Next ==
  \/ \E r \in {"assistant", "orchestrator", "implementer"} : Started(r)
  \/ BecomesReady
  \/ \E f \in {"answer", "reply", "failed", "error", "stopped"} : Ends(f)

Spec == Init /\ [][Next]_contract
=============================================================================
