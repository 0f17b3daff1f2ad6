----------------------------- MODULE DriverProofs -----------------------------
(* Theorems about Driver, for any set of texts and any number of delegated *)
(* tasks.                                                                  *)
EXTENDS Driver, TLAPS, WellFoundedInduction

-----------------------------------------------------------------------------
(* Decisions *)

(* A text read by the orchestrator's contract is one of its decisions or   *)
(* needs a repair, and delegates only where delegation is allowed.         *)
LEMMA OrchestratorDecision ==
  ASSUME NEW text \in Seq(Candidates), NEW allow \in BOOLEAN
  PROVE  /\ parse_orchestrator(text, allow) \in OrchestratorActions \cup {"none"}
         /\ parse_orchestrator(text, allow) = "delegate" => allow
<1> DEFINE first == First(text, LAMBDA c : OrchestratorReads(c, allow))
<1>1. \A a \in first : a \in OrchestratorActions /\ (a = "delegate" => allow)
  BY DEF First, OrchestratorReads, OrchestratorActions, Commentary
<1>2. CASE first = {}
  BY <1>2 DEF parse_orchestrator
<1>3. CASE first # {}
  BY <1>1, <1>3 DEF parse_orchestrator
<1>4. QED
  BY <1>2, <1>3

(* An implementer's text always means something, and replies to the user   *)
(* only where a reply is allowed.                                          *)
LEMMA ImplementerDecision ==
  ASSUME NEW text \in Seq(Candidates), NEW allow \in BOOLEAN
  PROVE  /\ parse_implementer(text, allow) \in ImplementerActions
         /\ parse_implementer(text, allow) = "reply_user" => allow
<1> DEFINE first == First(text, LAMBDA c : ImplementerReads(c, allow))
<1>1. \A a \in first : a \in ImplementerActions /\ (a = "reply_user" => allow)
  BY DEF First, ImplementerReads, ImplementerActions, Commentary
<1>2. CASE first = {}
  BY <1>2 DEF parse_implementer, ImplementerActions
<1>3. CASE first # {}
  BY <1>1, <1>3 DEF parse_implementer
<1>4. QED
  BY <1>2, <1>3

(* Which candidate decides.  No candidate reads as two decisions, so the    *)
(* choice among those of the first readable one is no choice.               *)
LEMMA OrchestratorReadsOne ==
  ASSUME NEW c, NEW allow, NEW a \in OrchestratorReads(c, allow),
         NEW b \in OrchestratorReads(c, allow)
  PROVE  a = b
  BY DEF OrchestratorReads, OrchestratorActions, Commentary

LEMMA ImplementerReadsOne ==
  ASSUME NEW c, NEW allow, NEW a \in ImplementerReads(c, allow),
         NEW b \in ImplementerReads(c, allow)
  PROVE  a = b
  BY DEF ImplementerReads

LEMMA FirstExists ==
  ASSUME NEW T \in SUBSET Nat, T # {}
  PROVE  \E i \in T : \A j \in T : i <= j
<1>1. PICK R : R = {ss \in Nat \X Nat : ss[1] < ss[2]} /\ IsWellFoundedOn(R, Nat)
  BY NatLessThanWellFounded DEF OpToRel
<1>2. PICK i \in T : \A j \in T : <<j, i>> \notin R
  BY <1>1, WFMin
<1>3. ASSUME NEW j \in T PROVE ~(j < i)
  BY <1>1, <1>2, <1>3
<1> QED BY <1>3

(* What a text decides, given what each of its candidates reads as.         *)
FirstOf(reads, n) ==
  {a \in UNION {reads[i] : i \in 1 .. n} :
     \E i \in 1 .. n : a \in reads[i] /\ \A j \in 1 .. (i - 1) : reads[j] = {}}

LEMMA FirstDecides ==
  ASSUME NEW n \in Nat, NEW reads, \A i \in 1 .. n : \A a, b \in reads[i] : a = b
  PROVE  /\ FirstOf(reads, n) = {} <=> \A i \in 1 .. n : reads[i] = {}
         /\ \A i \in 1 .. n : \A a \in reads[i] :
              (\A j \in 1 .. (i - 1) : reads[j] = {}) => FirstOf(reads, n) = {a}
<1> DEFINE first == FirstOf(reads, n)
<1> USE DEF FirstOf
<1>1. ASSUME NEW i \in 1 .. n, NEW a \in reads[i], \A j \in 1 .. (i - 1) : reads[j] = {}
      PROVE  first = {a}
  <2>1. a \in first
    BY <1>1
  <2>2. ASSUME NEW b \in first PROVE b = a
    <3>1. PICK k \in 1 .. n : b \in reads[k] /\ \A j \in 1 .. (k - 1) : reads[j] = {}
      OBVIOUS
    <3>2. ~(k < i) /\ ~(i < k)
      <4>1. k < i => k \in 1 .. (i - 1)
        OBVIOUS
      <4>2. i < k => i \in 1 .. (k - 1)
        OBVIOUS
      <4> QED BY <1>1, <3>1, <4>1, <4>2
    <3>3. k = i
      BY <3>2
    <3> QED BY <1>1, <3>1, <3>3
  <2> QED BY <2>1, <2>2
<1>2. ASSUME NEW i \in 1 .. n, reads[i] # {} PROVE first # {}
  <2> DEFINE T == {k \in 1 .. n : reads[k] # {}}
  <2>1. PICK k \in T : \A j \in T : k <= j
    <3>1. T \in SUBSET Nat /\ T # {}
      BY <1>2
    <3> HIDE DEF T
    <3> QED BY <3>1, FirstExists
  <2>2. \A j \in 1 .. (k - 1) : reads[j] = {}
    BY <2>1
  <2>3. PICK a : a \in reads[k]
    BY <2>1
  <2> QED BY <1>1, <2>1, <2>2, <2>3
<1>3. (\A i \in 1 .. n : reads[i] = {}) => first = {}
  OBVIOUS
<1> QED BY <1>1, <1>2, <1>3

(* The envelope that decides is the first readable one in the text,         *)
(* whatever stands before or after it, and the driver is asked for a repair *)
(* exactly when no object of its text reads as a decision (domain/          *)
(* decisions.py, parse_orchestrator).                                       *)
THEOREM FirstEnvelopeSteers ==
  ASSUME NEW text \in Seq(Candidates), NEW allow \in BOOLEAN
  PROVE  LET Read(i) == OrchestratorReads(text[i], allow)
         IN /\ parse_orchestrator(text, allow) = "none" <=> \A i \in DOMAIN text : Read(i) = {}
            /\ \A i \in DOMAIN text : \A a \in Read(i) :
                 (\A j \in 1 .. (i - 1) : Read(j) = {}) => parse_orchestrator(text, allow) = a
<1> DEFINE reads == [i \in 1 .. Len(text) |-> OrchestratorReads(text[i], allow)]
           first == First(text, LAMBDA c : OrchestratorReads(c, allow))
<1>1. PICK n \in Nat : n = Len(text) /\ DOMAIN text = 1 .. n
  OBVIOUS
<1>2. \A i \in 1 .. n : reads[i] = OrchestratorReads(text[i], allow)
  BY <1>1
<1>3. parse_orchestrator(text, allow) = IF first = {} THEN "none" ELSE CHOOSE a \in first : TRUE
  BY Zenon DEF parse_orchestrator
<1>4. first = FirstOf(reads, n)
  <2>1. \A i \in 1 .. n : \A j \in 1 .. (i - 1) : j \in 1 .. n
    OBVIOUS
  <2> HIDE DEF reads
  <2>2. ASSUME NEW a
        PROVE  a \in first <=>
                 \E i \in 1 .. n : a \in OrchestratorReads(text[i], allow)
                   /\ \A j \in 1 .. (i - 1) : OrchestratorReads(text[j], allow) = {}
    BY <1>1 DEF First
  <2>3. ASSUME NEW a
        PROVE  a \in FirstOf(reads, n) <=>
                 \E i \in 1 .. n : a \in OrchestratorReads(text[i], allow)
                   /\ \A j \in 1 .. (i - 1) : OrchestratorReads(text[j], allow) = {}
    BY <1>2, <2>1 DEF FirstOf
  <2> HIDE DEF first
  <2> QED BY <2>2, <2>3
<1>5. \A i \in 1 .. n : \A a, b \in reads[i] : a = b
  BY <1>2, OrchestratorReadsOne
<1>6. \A a \in first : a \in OrchestratorActions
  BY DEF First, OrchestratorReads
<1> HIDE DEF reads, first
<1>7. /\ first = {} <=> \A i \in 1 .. n : reads[i] = {}
      /\ \A i \in 1 .. n : \A a \in reads[i] :
           (\A j \in 1 .. (i - 1) : reads[j] = {}) => first = {a}
  BY <1>4, <1>5, FirstDecides
<1>8. parse_orchestrator(text, allow) = "none" <=> first = {}
  <2>1. ASSUME first # {} PROVE (CHOOSE a \in first : TRUE) \in OrchestratorActions
    BY <1>6, <2>1
  <2> QED BY <1>3, <2>1 DEF OrchestratorActions, Commentary
<1>9. ASSUME NEW a, first = {a} PROVE parse_orchestrator(text, allow) = a
  BY <1>3, <1>9
<1>10. \A i \in 1 .. n : \A j \in 1 .. (i - 1) : j \in 1 .. n
  OBVIOUS
<1>11. ASSUME NEW i \in 1 .. n, NEW a \in OrchestratorReads(text[i], allow),
               \A j \in 1 .. (i - 1) : OrchestratorReads(text[j], allow) = {}
        PROVE  parse_orchestrator(text, allow) = a
  <2>1. a \in reads[i]
    BY <1>2
  <2>2. \A j \in 1 .. (i - 1) : reads[j] = {}
    BY <1>2, <1>10, <1>11
  <2>3. first = {a}
    BY <1>7, <2>1, <2>2
  <2> QED BY <1>9, <2>3
<1>12. parse_orchestrator(text, allow) = "none"
          <=> \A i \in 1 .. n : OrchestratorReads(text[i], allow) = {}
  BY <1>2, <1>7, <1>8
<1> QED BY <1>1, <1>11, <1>12, Zenon

(* An implementer's text is the summary itself unless some object in it     *)
(* reads as an envelope, and then the first one does (parse_implementer).   *)
THEOREM FirstEnvelopeReports ==
  ASSUME NEW text \in Seq(Candidates), NEW allow \in BOOLEAN
  PROVE  LET Read(i) == ImplementerReads(text[i], allow)
         IN /\ (\A i \in DOMAIN text : Read(i) = {}) => parse_implementer(text, allow) = "final_answer"
            /\ \A i \in DOMAIN text : \A a \in Read(i) :
                 (\A j \in 1 .. (i - 1) : Read(j) = {}) => parse_implementer(text, allow) = a
<1> DEFINE reads == [i \in 1 .. Len(text) |-> ImplementerReads(text[i], allow)]
           first == First(text, LAMBDA c : ImplementerReads(c, allow))
<1>1. PICK n \in Nat : n = Len(text) /\ DOMAIN text = 1 .. n
  OBVIOUS
<1>2. \A i \in 1 .. n : reads[i] = ImplementerReads(text[i], allow)
  BY <1>1
<1>3. parse_implementer(text, allow)
        = IF first = {} THEN "final_answer" ELSE CHOOSE a \in first : TRUE
  BY Zenon DEF parse_implementer
<1>4. first = FirstOf(reads, n)
  <2>1. \A i \in 1 .. n : \A j \in 1 .. (i - 1) : j \in 1 .. n
    OBVIOUS
  <2> HIDE DEF reads
  <2>2. ASSUME NEW a
        PROVE  a \in first <=>
                 \E i \in 1 .. n : a \in ImplementerReads(text[i], allow)
                   /\ \A j \in 1 .. (i - 1) : ImplementerReads(text[j], allow) = {}
    BY <1>1 DEF First
  <2>3. ASSUME NEW a
        PROVE  a \in FirstOf(reads, n) <=>
                 \E i \in 1 .. n : a \in ImplementerReads(text[i], allow)
                   /\ \A j \in 1 .. (i - 1) : ImplementerReads(text[j], allow) = {}
    BY <1>2, <2>1 DEF FirstOf
  <2> HIDE DEF first
  <2> QED BY <2>2, <2>3
<1>5. \A i \in 1 .. n : \A a, b \in reads[i] : a = b
  BY <1>2, ImplementerReadsOne
<1> HIDE DEF reads, first
<1>6. /\ first = {} <=> \A i \in 1 .. n : reads[i] = {}
      /\ \A i \in 1 .. n : \A a \in reads[i] :
           (\A j \in 1 .. (i - 1) : reads[j] = {}) => first = {a}
  BY <1>4, <1>5, FirstDecides
<1>7. ASSUME NEW a, first = {a} PROVE parse_implementer(text, allow) = a
  BY <1>3, <1>7
<1>8. \A i \in 1 .. n : \A j \in 1 .. (i - 1) : j \in 1 .. n
  OBVIOUS
<1>9. ASSUME NEW i \in 1 .. n, NEW a \in ImplementerReads(text[i], allow),
               \A j \in 1 .. (i - 1) : ImplementerReads(text[j], allow) = {}
        PROVE  parse_implementer(text, allow) = a
  <2>1. a \in reads[i]
    BY <1>2
  <2>2. \A j \in 1 .. (i - 1) : reads[j] = {}
    BY <1>2, <1>8, <1>9
  <2>3. first = {a}
    BY <1>6, <2>1, <2>2
  <2> QED BY <1>7, <2>3
<1>10. (\A i \in 1 .. n : ImplementerReads(text[i], allow) = {})
          => parse_implementer(text, allow) = "final_answer"
  BY <1>2, <1>3, <1>6
<1> QED BY <1>1, <1>9, <1>10, Zenon

-----------------------------------------------------------------------------
(* The invariant *)

Inv == TypeOK /\ CallsSpent /\ CallsBounded /\ TasksPlaced /\ RolesConfined /\ WorkReviewed

LEMMA InitInv == ASSUME Init PROVE Inv
<1> USE DEF Init
<1>1. TypeOK
  BY DEF TypeOK, FlagsTypeOK, CountsTypeOK, NoRole
<1>2. CallsSpent /\ CallsBounded
  BY DEF CallsSpent, CallsBounded, Continuations, RepairAttempts
<1>3. TasksPlaced /\ RolesConfined /\ WorkReviewed
  BY DEF TasksPlaced, RolesConfined, WorkReviewed, NoRole
<1>4. QED
  BY <1>1, <1>2, <1>3 DEF Inv

LEMMA SteeredType == ASSUME TypeOK PROVE Steered \in BOOLEAN
BY DEF Steered, TypeOK, FlagsTypeOK

(* The ways an ended call changes the state, by what is decided. *)
LEMMA ImplementerCases ==
  ASSUME TypeOK, DriverAssumption, NEW text \in Texts, ImplementerEnds(text)
  PROVE  /\ at = "streaming" /\ role = "implementer"
         /\ UNCHANGED <<input, role, ready, repairs, final, delegations, calls>>
         /\ \/ Continue /\ UNCHANGED <<task, mayReply, rounds>>
            \/ mayReply /\ End("reply") /\ UNCHANGED <<task, mayReply, rounds, continuations>>
            \/ Handoff
<1>1. parse_implementer(text, mayReply) = "reply_user" => mayReply
  BY ImplementerDecision DEF DriverAssumption, TypeOK, FlagsTypeOK
<1>2. QED
  BY <1>1 DEF ImplementerEnds

LEMMA DriverCases ==
  ASSUME TypeOK, DriverAssumption, NEW text \in Texts, DriverEnds(text)
  PROVE  /\ at = "streaming" /\ role = DrivingRole
         /\ UNCHANGED <<input, role, ready, mayReply, final, rounds, calls>>
         /\ \/ Repair /\ UNCHANGED <<task, continuations, delegations>>
            \/ Continue /\ UNCHANGED <<task, repairs, delegations>>
            \/ End("answer") /\ UNCHANGED <<task, repairs, continuations, delegations>>
            \/ /\ mode = "orchestrated" /\ ~readOnly
               /\ at' = "calling" /\ task' = TRUE /\ continuations' = 0
               /\ delegations' = delegations + 1
               /\ UNCHANGED <<result, repairs>>
<1>1. (mode = "orchestrated") \in BOOLEAN
  OBVIOUS
<1>2. parse_orchestrator(text, mode = "orchestrated") = "delegate" => mode = "orchestrated"
  BY <1>1, OrchestratorDecision DEF DriverAssumption
<1>3. QED
  BY <1>2 DEF DriverEnds, Delegate

LEMMA FlagsStep ==
  ASSUME Inv, DriverAssumption, [Next]_vars
  PROVE  FlagsTypeOK'
<1>1. FlagsTypeOK /\ TypeOK
  BY DEF Inv, TypeOK
<1> USE DEF FlagsTypeOK, input, counts
<1>2. CASE Prepare
  BY <1>1, <1>2, SteeredType DEF Prepare
<1>3. CASE StartCall
  BY <1>1, <1>3 DEF StartCall, DrivingRole
<1>4. CASE ProviderReady \/ CallFailed
  BY <1>1, <1>4 DEF ProviderReady, CallFailed, End
<1>5. ASSUME NEW f \in {"failure", "text"}, ProviderFinal(f)
      PROVE  FlagsTypeOK'
  BY <1>1, <1>5 DEF ProviderFinal
<1>6. ASSUME NEW f \in {"error", "stopped"}, Abandoned(f)
      PROVE  FlagsTypeOK'
  BY <1>1, <1>6 DEF Abandoned, End
<1>7. ASSUME NEW text \in Texts, ImplementerEnds(text)
      PROVE  FlagsTypeOK'
  BY <1>1, <1>7 DEF ImplementerEnds, Continue, Handoff, End
<1>8. ASSUME NEW text \in Texts, DriverEnds(text)
      PROVE  FlagsTypeOK'
  BY <1>1, <1>8 DEF DriverEnds, Repair, Continue, Delegate, End
<1>9. CASE UNCHANGED vars
  BY <1>1, <1>9 DEF vars
<1>10. QED
  BY <1>2, <1>3, <1>4, <1>5, <1>6, <1>7, <1>8, <1>9 DEF Next

(* Calls: every way a call can end pays for it from a budget, or moves the *)
(* turn on and so starts a new stretch.                                    *)
LEMMA CallsStep ==
  ASSUME Inv, DriverAssumption, [Next]_vars
  PROVE  CountsTypeOK' /\ CallsSpent' /\ CallsBounded'
<1> DEFINE Goal == CountsTypeOK /\ CallsSpent /\ CallsBounded
<1>1. Goal /\ TypeOK
  BY DEF Inv, TypeOK
<1> USE DEF CountsTypeOK, CallsSpent, CallsBounded, Continuations, RepairAttempts, input, counts
<1>2. CASE Prepare
  BY <1>1, <1>2 DEF Prepare
<1>3. CASE StartCall
  BY <1>1, <1>3 DEF StartCall
<1>4. CASE ProviderReady \/ CallFailed
  BY <1>1, <1>4 DEF ProviderReady, CallFailed, End
<1>5. ASSUME NEW f \in {"failure", "text"}, ProviderFinal(f)
      PROVE  Goal'
  BY <1>1, <1>5 DEF ProviderFinal
<1>6. ASSUME NEW f \in {"error", "stopped"}, Abandoned(f)
      PROVE  Goal'
  BY <1>1, <1>6 DEF Abandoned, End
<1>7. ASSUME NEW text \in Texts, ImplementerEnds(text)
      PROVE  Goal'
  <2>1. at = "streaming" /\ UNCHANGED <<repairs, delegations, calls>>
    BY <1>7 DEF ImplementerEnds
  <2>2. CASE Continue /\ UNCHANGED rounds
    BY <1>1, <2>1, <2>2 DEF Continue, End
  <2>3. CASE at' = "ended" /\ UNCHANGED <<rounds, continuations>>
    BY <1>1, <2>1, <2>3
  <2>4. CASE Handoff
    BY <1>1, <2>1, <2>4 DEF Handoff
  <2>5. QED
    BY <1>7, <2>2, <2>3, <2>4 DEF ImplementerEnds, End
<1>8. ASSUME NEW text \in Texts, DriverEnds(text)
      PROVE  Goal'
  <2>1. at = "streaming" /\ UNCHANGED <<rounds, calls>>
    BY <1>8 DEF DriverEnds
  <2>2. CASE Repair /\ UNCHANGED <<continuations, delegations>>
    BY <1>1, <2>1, <2>2 DEF Repair, End
  <2>3. CASE Continue /\ UNCHANGED <<repairs, delegations>>
    BY <1>1, <2>1, <2>3 DEF Continue, End
  <2>4. CASE at' = "ended" /\ UNCHANGED <<repairs, continuations, delegations>>
    BY <1>1, <2>1, <2>4
  <2>5. CASE at' = "calling" /\ continuations' = 0 /\ delegations' = delegations + 1 /\ UNCHANGED repairs
    BY <1>1, <2>1, <2>5
  <2>6. QED
    BY <1>8, <2>2, <2>3, <2>4, <2>5 DEF DriverEnds, Delegate, End
<1>9. CASE UNCHANGED vars
  BY <1>1, <1>9 DEF vars
<1>10. QED
  BY <1>2, <1>3, <1>4, <1>5, <1>6, <1>7, <1>8, <1>9 DEF Next

LEMMA WorkStep ==
  ASSUME Inv, DriverAssumption, [Next]_vars
  PROVE  TasksPlaced' /\ RolesConfined' /\ WorkReviewed'
<1> USE DEF Inv, TypeOK, FlagsTypeOK, CountsTypeOK, TasksPlaced, RolesConfined, WorkReviewed,
            Steered, ModeRoles, DrivingRole, input, counts
<1>1. CASE Prepare
  BY <1>1 DEF Prepare
<1>2. CASE StartCall
  BY <1>2 DEF StartCall
<1>3. CASE ProviderReady \/ CallFailed
  BY <1>3 DEF ProviderReady, CallFailed, End
<1>4. ASSUME NEW f \in {"failure", "text"}, ProviderFinal(f)
      PROVE  TasksPlaced' /\ RolesConfined' /\ WorkReviewed'
  BY <1>4 DEF ProviderFinal
<1>5. ASSUME NEW f \in {"error", "stopped"}, Abandoned(f)
      PROVE  TasksPlaced' /\ RolesConfined' /\ WorkReviewed'
  BY <1>5 DEF Abandoned, End
<1>6. ASSUME NEW text \in Texts, ImplementerEnds(text)
      PROVE  TasksPlaced' /\ RolesConfined' /\ WorkReviewed'
  <2>1. at = "streaming" /\ task /\ UNCHANGED <<input, role, delegations>>
    BY <1>6, ImplementerCases
  <2>2. CASE /\ \/ at' = "calling" /\ UNCHANGED result
                \/ at' = "ended" /\ result' = "failed"
             /\ UNCHANGED <<task, mayReply, rounds>>
    BY <2>1, <2>2
  <2>3. CASE mayReply /\ at' = "ended" /\ result' = "reply" /\ UNCHANGED <<task, mayReply, rounds>>
    BY <2>1, <2>3
  <2>4. CASE Handoff
    BY <2>1, <2>4 DEF Handoff
  <2>5. QED
    BY <1>6, <2>2, <2>3, <2>4, ImplementerCases DEF Continue, End
<1>7. ASSUME NEW text \in Texts, DriverEnds(text)
      PROVE  TasksPlaced' /\ RolesConfined' /\ WorkReviewed'
  <2>1. at = "streaming" /\ ~task /\ ~mayReply /\ UNCHANGED <<input, role, mayReply, rounds>>
    BY <1>7, DriverCases
  <2>2. CASE /\ \/ at' = "calling" /\ UNCHANGED result
                \/ at' = "ended" /\ result' = "failed"
             /\ UNCHANGED <<task, delegations>>
    BY <2>1, <2>2
  <2>3. CASE at' = "ended" /\ result' = "answer" /\ UNCHANGED <<task, delegations>>
    BY <2>1, <2>3
  <2>4. CASE /\ mode = "orchestrated" /\ ~readOnly
             /\ at' = "calling" /\ task' = TRUE /\ delegations' = delegations + 1
             /\ UNCHANGED result
    BY <2>1, <2>4
  <2>5. CASE (Repair \/ Continue) /\ UNCHANGED <<task, delegations>>
    <3>1. \/ at' = "calling" /\ UNCHANGED result
          \/ at' = "ended" /\ result' = "failed"
      BY <2>5 DEF Repair, Continue, End
    <3>2. QED
      BY <2>2, <2>5, <3>1
  <2>6. CASE End("answer") /\ UNCHANGED <<task, delegations>>
    BY <2>3, <2>6 DEF End
  <2>7. QED
    BY <1>7, <2>4, <2>5, <2>6, DriverCases
<1>8. CASE UNCHANGED vars
  BY <1>8 DEF vars
<1>9. QED
  BY <1>1, <1>2, <1>3, <1>4, <1>5, <1>6, <1>7, <1>8 DEF Next

-----------------------------------------------------------------------------
(* The theorems *)

THEOREM DriverInvariant == Spec => []Inv
<1>1. Inv /\ [Next]_vars => Inv'
  BY FlagsStep, CallsStep, WorkStep, DriverAssumption DEF Inv, TypeOK
<1>2. QED
  BY <1>1, InitInv, PTL DEF Spec

(* A turn never makes more calls than four for every stretch between two   *)
(* tasks or summaries, and two repairs (ConversationDriver._run).          *)
THEOREM CallsAreBounded == Spec => []CallsBounded
<1>1. Inv => CallsBounded
  BY DEF Inv
<1>2. QED
  BY <1>1, DriverInvariant, PTL

(* Single-mode and read-only turns never call an implementer.              *)
THEOREM RolesAreConfined == Spec => []RolesConfined
<1>1. Inv => RolesConfined
  BY DEF Inv
<1>2. QED
  BY <1>1, DriverInvariant, PTL

(* No turn is answered over the head of a pending task.                    *)
THEOREM WorkIsReviewed == Spec => []WorkReviewed
<1>1. Inv => WorkReviewed
  BY DEF Inv
<1>2. QED
  BY <1>1, DriverInvariant, PTL

(* The driver implements what the turn service assumes of it.              *)
THEOREM ContractKept == Spec => ContractSpec
<1> USE DEF Contract!NoRole, NoRole
<1>1. Init => Contract!Init
  BY DEF Init, Contract!Init
<1>2. ASSUME Inv, [Next]_vars
      PROVE  [Contract!Next]_Contract!contract
  <2> USE DEF Contract!contract, Contract!Next, input, counts
  <2>1. CASE Prepare \/ \E f \in {"failure", "text"} : ProviderFinal(f)
    BY <2>1 DEF Prepare, ProviderFinal
  <2>2. CASE StartCall
    <3>1. role' \in {"assistant", "orchestrator", "implementer"} /\ Contract!Started(role')
      BY <1>2, <2>2 DEF StartCall, Contract!Started, Contract!ModeRoles, Inv, TasksPlaced, DrivingRole, TypeOK
    <3>2. QED
      BY <3>1
  <2>3. CASE ProviderReady
    <3>1. Contract!BecomesReady
      BY <1>2, <2>3 DEF ProviderReady, Contract!BecomesReady, Inv, TasksPlaced, DrivingRole, TypeOK
    <3>2. QED
      BY <3>1
  <2>4. ASSUME NEW f \in {"answer", "reply", "failed", "error", "stopped"}, End(f), at # "ended",
               UNCHANGED <<mode, role, ready>>,
               f \in {"answer", "reply", "failed"} => role # NoRole,
               f = "reply" => role = "implementer"
        PROVE  Contract!Next
    BY <1>2, <2>4 DEF End, Contract!Ends, Inv, TasksPlaced
  <2>5. CASE CallFailed
    BY <1>2, <2>4, <2>5 DEF CallFailed, Inv, TasksPlaced, DrivingRole
  <2>6. ASSUME NEW f \in {"error", "stopped"}, Abandoned(f)
        PROVE  Contract!Next
    BY <2>4, <2>6 DEF Abandoned
  <2>7. ASSUME NEW text \in Texts, ImplementerEnds(text)
        PROVE  [Contract!Next]_Contract!contract
    <3>1. CASE UNCHANGED result
      BY <2>7, <3>1 DEF ImplementerEnds
    <3>2. CASE End("reply") \/ End("failed")
      BY <2>4, <2>7, <3>2 DEF ImplementerEnds
    <3>3. QED
      BY <2>7, <3>1, <3>2 DEF ImplementerEnds, Continue, Handoff
  <2>8. ASSUME NEW text \in Texts, DriverEnds(text)
        PROVE  [Contract!Next]_Contract!contract
    <3>1. CASE UNCHANGED result
      BY <2>8, <3>1 DEF DriverEnds
    <3>2. CASE End("answer") \/ End("failed")
      <4>1. role # NoRole /\ at # "ended"
        BY <2>8 DEF DriverEnds, DrivingRole
      <4>2. QED
        BY <2>4, <2>8, <3>2, <4>1 DEF DriverEnds
    <3>3. QED
      BY <2>8, <3>1, <3>2 DEF DriverEnds, Continue, Repair, Delegate
  <2>9. CASE UNCHANGED vars
    BY <2>9 DEF vars
  <2>10. QED
    BY <1>2, <2>1, <2>2, <2>3, <2>5, <2>6, <2>7, <2>8, <2>9 DEF Next
<1>3. QED
  BY <1>1, <1>2, DriverInvariant, PTL DEF Spec, ContractSpec, Contract!Spec
=============================================================================
