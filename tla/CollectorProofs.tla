---------------------------- MODULE CollectorProofs ----------------------------
(* Theorems about Collector, for lines, records and calls of any length.    *)
EXTENDS Collector, TLAPS, FiniteSetTheorems, WellFoundedInduction

-----------------------------------------------------------------------------
(* The inductive invariant *)

Kinds == {"session", "text", "tool", "warning", "reconnect", "nested"} \cup Closing

LineType == [kind : Kinds, msg : Messages \cup {None}, phase : Phases]

CollectorType ==
  [current : {None, "old", "new"}, offset : Nat, baseline : Nat, ready : BOOLEAN,
   final : Messages \cup {None}, pending : Messages \cup {None}, terminal : Messages \cup {None},
   failure : {None, "upstream"}, seen : SUBSET Nat, result : {None, "result", "error", "invalid"},
   shown : [Messages -> Nat]]

CallTypeOK ==
  /\ provider \in {"codex", "claude"} /\ start \in {"new", "resumed", "forked"}
  /\ said \in Seq(LineType) /\ written \in 0 .. Len(said) /\ torn \in BOOLEAN
  /\ exit \in {None, "ok", "failed"} /\ read \in 0 .. Len(said)
  /\ stage \in {"reading", "done"}
  /\ c \in CollectorType

(* Only text has words and a phase, and a completion ends what is said and  *)
(* repeats the last text.                                                   *)
SaidInv ==
  /\ said # <<>>
  /\ \A i \in DOMAIN said :
       /\ said[i].kind = "text" => said[i].msg \in Messages
       /\ said[i].phase # "" => said[i].kind = "text"
       /\ said[i].kind = "complete" => i = Len(said) /\ said[i].msg = LastText(said)
       /\ provider = "claude" => said[i].kind \notin {"warning", "reconnect", "complete"}

(* The records that a rollout holds of earlier calls *)
Before(s) == IF s = "old" THEN 1 ELSE 0

(* The rollout of a session s of a call that announced a, said ls and       *)
(* recorded w lines of it                                                   *)
RolloutOf(s, a, ls, w) ==
  (IF s = "old" THEN <<Old>> ELSE <<>>) \o (IF s = a THEN SubSeq(ls, 1, w) ELSE <<>>)

Active == \E i \in DOMAIN said : said[i].kind \in {"text", "tool"} \cup Closing

(* What the Codex collector knows is of this call, and of all that it has   *)
(* read of the rollout.                                                     *)
Knows(k) ==
  /\ start = "new" => k.current # "old"
  /\ start = "resumed" => k.current = "old"
  /\ k.current # None \/ start = "new"
  /\ k.offset \in Before(k.current) .. Len(Rollout(k.current))
  /\ k.baseline = Before(k.current)
  /\ \A text \in {k.final, k.pending, k.terminal} \ {None} : Own(text) /\ k.ready
  /\ k.ready => Active
  /\ \A msg \in Messages : k.shown[msg] = 0 \/ (k.shown[msg] = 1 /\ Own(msg))
  /\ k.current = Announced /\ k.offset = Before(k.current) + Len(said)
       /\ Last(said).kind = "complete" /\ Last(said).msg # None =>
       k.terminal = Last(said).msg

(* The Claude collector shows a text once for each line it has seen.        *)
Saw(k, msg) == {i \in k.seen : said[i].kind = "text" /\ said[i].msg = msg}

Heard(k) ==
  /\ k.seen \subseteq DOMAIN said
  /\ \A msg \in Messages : k.shown[msg] <= Cardinality(Saw(k, msg))
  /\ k.ready => Active
  /\ k.result = "result" => k.ready

Reported ==
  IF stage = "reading" THEN answer = None
  ELSE /\ exit # None
       /\ answer \notin {None, MadeUp} => failure = None
       /\ IF provider = "codex"
          THEN /\ answer = Final(c) /\ tokens = Usage(c)
               /\ c.current # None => c.offset = Len(Rollout(c.current))
          ELSE /\ answer # MadeUp
               /\ answer # None => c.result = "result"

CallInv ==
  /\ CallTypeOK /\ SaidInv /\ Reported
  /\ IF provider = "codex" THEN Knows(c) ELSE Heard(c)

-----------------------------------------------------------------------------
(* Facts about the operators *)

LEMMA MinExists ==
  ASSUME NEW T \in SUBSET Nat, T # {}
  PROVE  Min(T) \in T /\ \A n \in T : Min(T) <= n
<1>1. PICK R : R = {ss \in Nat \X Nat : ss[1] < ss[2]} /\ IsWellFoundedOn(R, Nat)
  BY NatLessThanWellFounded DEF OpToRel
<1>2. PICK m \in T : \A n \in T : <<n, m>> \notin R
  BY <1>1, WFMin
<1>3. ASSUME NEW n \in T PROVE ~(n < m)
  BY <1>1, <1>2, <1>3
<1>4. \A n \in T : m <= n
  BY <1>3
<1> QED BY <1>4 DEF Min

LEMMA MaxExists ==
  ASSUME NEW n \in Nat, NEW T \in SUBSET (1 .. n), T # {}
  PROVE  Max(T) \in T
<1> DEFINE D == {n - i : i \in T}
<1>1. D \in SUBSET Nat /\ D # {}
  <2>1. ASSUME NEW i \in T PROVE n - i \in Nat
    <3>1. i \in 1 .. n
      OBVIOUS
    <3> QED BY <3>1
  <2> QED BY <2>1
<1>2. PICK least : least \in D /\ \A d \in D : least <= d
  <2> HIDE DEF D
  <2> QED BY <1>1, MinExists
<1>3. PICK m \in T : least = n - m
  BY <1>2
<1>4. ASSUME NEW i \in T PROVE m >= i
  <2>1. n - m <= n - i
    BY <1>2, <1>3
  <2> QED BY <2>1
<1> QED BY <1>4 DEF Max

Texts(ls) == {i \in DOMAIN ls : ls[i].kind = "text"}

LEMMA LastTextIsOwn ==
  ASSUME said \in Seq(LineType), SaidInv
  PROVE  LastText(said) = None \/ (LastText(said) \in Messages /\ Own(LastText(said)))
<1>1. Len(said) \in Nat /\ Texts(said) \in SUBSET (1 .. Len(said))
  BY DEF Texts
<1>2. CASE Texts(said) # {}
  <2>1. Max(Texts(said)) \in Texts(said)
    BY <1>1, <1>2, MaxExists
  <2>2. LastText(said) = said[Max(Texts(said))].msg
    BY <1>2 DEF LastText, Texts
  <2> QED BY <2>1, <2>2 DEF Texts, SaidInv, Own
<1>3. CASE Texts(said) = {}
  BY <1>3 DEF LastText, Texts
<1> QED BY <1>2, <1>3

(* What is not text does not change which text was the last. *)
LEMMA LastTextOfPrefix ==
  ASSUME NEW ls \in Seq(LineType), NEW l \in LineType, l.kind # "text"
  PROVE  LastText(Append(ls, l)) = LastText(ls)
<1>1. PICK x : x = Append(ls, l)
  OBVIOUS
<1>2. /\ Len(ls) \in Nat /\ DOMAIN ls = 1 .. Len(ls) /\ DOMAIN x = 1 .. Len(ls) + 1
      /\ \A i \in DOMAIN ls : x[i] = ls[i]
      /\ x[Len(ls) + 1] = l
  BY <1>1
<1>3. Texts(x) = Texts(ls)
  BY <1>2 DEF Texts
<1>4. CASE Texts(ls) # {}
  <2>1. Max(Texts(ls)) \in Texts(ls)
    BY <1>2, <1>4, MaxExists DEF Texts
  <2>2. x[Max(Texts(ls))] = ls[Max(Texts(ls))]
    BY <1>2, <2>1 DEF Texts
  <2>3. LastText(ls) = ls[Max(Texts(ls))].msg /\ LastText(x) = x[Max(Texts(x))].msg
    BY <1>3, <1>4 DEF LastText, Texts
  <2> QED BY <1>1, <1>3, <2>2, <2>3
<1>5. CASE Texts(ls) = {}
  BY <1>1, <1>3, <1>5 DEF LastText, Texts
<1> QED BY <1>4, <1>5

(* A rollout is what earlier calls recorded, and then what this one did. *)
Shaped(s, a, ls, w) ==
         /\ Len(RolloutOf(s, a, ls, w)) = Before(s) + (IF s = a THEN w ELSE 0)
         /\ \A i \in Before(s) + 1 .. Len(RolloutOf(s, a, ls, w)) :
              /\ s = a
              /\ i - Before(s) \in 1 .. w
              /\ RolloutOf(s, a, ls, w)[i] = ls[i - Before(s)]

LEMMA RolloutOfShape ==
  ASSUME NEW ls \in Seq(LineType), NEW w \in 0 .. Len(ls), NEW s, NEW a
  PROVE  Shaped(s, a, ls, w)
<1> USE DEF Shaped
<1> DEFINE own == SubSeq(ls, 1, w)
<1>0. Len(ls) \in Nat /\ w \in Nat /\ w <= Len(ls)
  OBVIOUS
<1>1. own \in Seq(LineType) /\ Len(own) = w /\ \A i \in 1 .. w : own[i] = ls[i]
  BY <1>0
<1>2. <<Old>> \in Seq({Old}) /\ Len(<<Old>>) = 1
  OBVIOUS
<1> HIDE DEF own
<1>3. PICK x : x = own
  OBVIOUS
<1>4. x \in Seq(LineType \cup {Old}) /\ <<Old>> \in Seq(LineType \cup {Old})
      /\ << >> \in Seq(LineType \cup {Old})
  BY <1>1, <1>3
<1>5. CASE s = "old" /\ s = a
  <2>1. RolloutOf(s, a, ls, w) = <<Old>> \o x
    BY <1>3, <1>5 DEF RolloutOf, own
  <2> QED BY <1>0, <1>1, <1>3, <1>4, <1>5, <2>1 DEF Before
<1>6. CASE s = "old" /\ s # a
  <2>1. RolloutOf(s, a, ls, w) = <<Old>> \o << >>
    BY <1>6 DEF RolloutOf
  <2>2. Len(RolloutOf(s, a, ls, w)) = 1
    BY <2>1
  <2>3. Before(s) = 1
    BY <1>6 DEF Before
  <2>4. Before(s) + 1 .. Len(RolloutOf(s, a, ls, w)) = {}
    BY <2>2, <2>3
  <2>5. (IF s = a THEN w ELSE 0) = 0
    BY <1>6, Zenon
  <2>6. Len(RolloutOf(s, a, ls, w)) = Before(s) + (IF s = a THEN w ELSE 0)
    <3> HIDE DEF own
    <3>1. 1 = 1 + 0
      OBVIOUS
    <3> QED BY <2>2, <2>3, <2>5, <3>1, Zenon
  <2> QED BY <2>4, <2>6
<1>7. CASE s # "old" /\ s = a
  <2>1. RolloutOf(s, a, ls, w) = << >> \o x
    BY <1>3, <1>7 DEF RolloutOf, own
  <2> QED BY <1>0, <1>1, <1>3, <1>4, <1>7, <2>1 DEF Before
<1>8. CASE s # "old" /\ s # a
  <2>1. RolloutOf(s, a, ls, w) = << >> \o << >>
    BY <1>8 DEF RolloutOf
  <2> QED BY <1>0, <1>4, <1>8, <2>1 DEF Before
<1> QED BY <1>5, <1>6, <1>7, <1>8

LEMMA RolloutShape ==
  ASSUME said \in Seq(LineType), written \in 0 .. Len(said), NEW s
  PROVE  /\ Len(Rollout(s)) = Before(s) + (IF s = Announced THEN written ELSE 0)
         /\ \A i \in Before(s) + 1 .. Len(Rollout(s)) :
              /\ s = Announced
              /\ i - Before(s) \in 1 .. written
              /\ Rollout(s)[i] = said[i - Before(s)]
<1>1. Rollout(s) = RolloutOf(s, Announced, said, written)
  BY DEF Rollout, RolloutOf
<1>2. Shaped(s, Announced, said, written)
  BY RolloutOfShape
<1> QED BY <1>1, <1>2, Zenon DEF Shaped

-----------------------------------------------------------------------------
(* The Codex collector *)

(* What a poll finds as the terminal text was said by this call, and the    *)
(* last message of the completion is found with the completion.             *)
LEMMA TerminalIsOwn ==
  ASSUME said \in Seq(LineType), written \in 0 .. Len(said), SaidInv,
         NEW s, NEW offset \in Before(s) .. Len(Rollout(s))
  PROVE  LET text == Terminal(Rollout(s), offset)
         IN /\ text # None => text \in Messages /\ Own(text) /\ Active
            /\ offset = Len(Rollout(s)) => text = None
            /\ s = Announced /\ written = Len(said) /\ offset < Len(Rollout(s))
                 /\ Last(said).kind = "complete" /\ Last(said).msg # None
               => text = Last(said).msg
<1> DEFINE file == Rollout(s)
           b == Before(s)
           new == offset + 1 .. Len(file)
           finals == {i \in new : file[i].phase = "final_answer"}
           text == Terminal(file, offset)
<1>1. Len(said) \in Nat /\ Len(said) # 0 /\ DOMAIN said = 1 .. Len(said) /\ b \in {0, 1}
  <2>1. b \in {0, 1}
    BY DEF Before
  <2>2. said # <<>>
    BY DEF SaidInv
  <2> QED BY <2>1, <2>2
<1>2. /\ Len(file) = b + (IF s = Announced THEN written ELSE 0)
      /\ \A i \in b + 1 .. Len(file) :
           s = Announced /\ i - b \in 1 .. written /\ file[i] = said[i - b]
  BY RolloutShape, Zenon
<1>3. Len(file) \in Nat /\ offset \in b .. Len(file)
  BY <1>1, <1>2
<1>4. text = IF new # {} /\ Last(file).kind = "complete" /\ Last(file).msg # None
             THEN Last(file).msg
             ELSE IF finals = {} THEN None ELSE file[Min(finals)].msg
  BY Zenon DEF Terminal
<1>5. Last(file) = file[Len(file)] /\ Last(said) = said[Len(said)]
  BY DEF Last
<1> HIDE DEF file, b, text
<1>6. ASSUME NEW i \in new
      PROVE  s = Announced /\ i - b \in DOMAIN said /\ file[i] = said[i - b] /\ i - b <= written
  BY <1>1, <1>2, <1>3
<1>7. CASE new = {}
  <2>1. text = None
    BY <1>4, <1>7
  <2>2. ~(offset < Len(file))
    <3>1. Len(file) \notin new
      BY <1>7
    <3> QED BY <1>3, <3>1
  <2> QED BY <2>1, <2>2 DEF file, text
<1>8. CASE new # {} /\ Last(file).kind = "complete" /\ Last(file).msg # None
  <2>1. Len(file) \in new
    BY <1>3, <1>8
  <2>2. PICK j \in DOMAIN said : Last(file) = said[j]
    BY <1>5, <1>6, <2>1
  <2>3. j = Len(said) /\ Last(file).msg = LastText(said)
    BY <1>8, <2>2 DEF SaidInv
  <2>4. text \in Messages /\ Own(text)
    BY <1>4, <1>8, <2>3, LastTextIsOwn
  <2>5. Active
    BY <1>8, <2>2 DEF Active, Closing
  <2>6. text = Last(said).msg
    BY <1>4, <1>5, <1>8, <2>2, <2>3
  <2>7. offset # Len(file)
    BY <1>1, <1>2, <1>3, <2>1
  <2> QED BY <2>4, <2>5, <2>6, <2>7 DEF file, text
<1>9. CASE new # {} /\ ~(Last(file).kind = "complete" /\ Last(file).msg # None)
  <2>1. text = IF finals = {} THEN None ELSE file[Min(finals)].msg
    BY <1>4, <1>9
  <2>2. offset # Len(file)
    BY <1>3, <1>9
  <2>3. ASSUME s = Announced, written = Len(said), Last(said).kind = "complete",
               Last(said).msg # None
        PROVE  FALSE
    <3>1. Len(file) \in new /\ Len(file) = b + Len(said)
      BY <1>1, <1>2, <1>3, <1>9, <2>3
    <3>2. file[Len(file)] = said[Len(said)]
      <4>1. Len(file) - b = Len(said)
        BY <1>1, <3>1
      <4> QED BY <1>6, <3>1, <4>1
    <3> QED BY <1>5, <1>9, <2>3, <3>2
  <2>4. ASSUME finals # {} PROVE text \in Messages /\ Own(text) /\ Active
    <3>1. finals \in SUBSET Nat
      BY <1>1, <1>3
    <3>2. PICK i \in finals : i = Min(finals)
      BY <2>4, <3>1, MinExists
    <3>3. text = said[i - b].msg /\ said[i - b].phase = "final_answer" /\ i - b \in DOMAIN said
      BY <1>6, <2>1, <2>4, <3>2
    <3>4. said[i - b].kind = "text" /\ said[i - b].msg \in Messages
      BY <3>3 DEF SaidInv
    <3> QED BY <3>3, <3>4 DEF Own, Active
  <2> QED BY <2>1, <2>2, <2>3, <2>4 DEF file, text
<1> QED BY <1>7, <1>8, <1>9

LEMMA ShownFields ==
  ASSUME NEW k \in CollectorType, NEW msgs
  PROVE  /\ Shown(k, msgs) \in CollectorType
         /\ Shown(k, msgs) = [k EXCEPT !.shown = Shown(k, msgs).shown]
         /\ \A msg \in Messages :
              \/ Shown(k, msgs).shown[msg] = k.shown[msg]
              \/ msg \in msgs /\ k.shown[msg] = 0 /\ Shown(k, msgs).shown[msg] = 1
  BY DEF Shown, CollectorType

ShownOwn(k) == \A msg \in Messages : k.shown[msg] = 0 \/ (k.shown[msg] = 1 /\ Own(msg))

LEMMA ShowsOwn ==
  ASSUME NEW k \in CollectorType, ShownOwn(k), NEW msgs, \A msg \in msgs \cap Messages : Own(msg)
  PROVE  ShownOwn(Shown(k, msgs))
<1>1. \A msg \in Messages :
        \/ Shown(k, msgs).shown[msg] = k.shown[msg]
        \/ msg \in msgs /\ k.shown[msg] = 0 /\ Shown(k, msgs).shown[msg] = 1
  BY ShownFields
<1> QED BY <1>1 DEF ShownOwn

LEMMA PollKnows ==
  ASSUME said \in Seq(LineType), written \in 0 .. Len(said), SaidInv,
         NEW k \in CollectorType, Knows(k)
  PROVE  /\ Poll(k) \in CollectorType
         /\ Knows(Poll(k))
         /\ k.current # None => Poll(k).offset = Len(Rollout(k.current))
         /\ Poll(k).current = k.current
<1>1. CASE k.current = None
  BY <1>1 DEF Poll
<1>2. CASE k.current # None
  <2> DEFINE s == k.current
             file == Rollout(s)
             new == {file[i] : i \in k.offset + 1 .. Len(file)}
             terminal == Terminal(file, k.offset)
             commentary == {l.msg : l \in {r \in new : r.phase = "commentary"}}
             shown == Shown(k, commentary)
             ready == k.ready \/ terminal # None \/ \E l \in new : l.kind = "text"
             p == Poll(k)
  <2>1. p = [shown EXCEPT !.offset = Len(file),
                          !.terminal = IF terminal = None THEN @ ELSE terminal,
                          !.ready = @ \/ terminal # None \/ \E l \in new : l.kind = "text"]
    BY <1>2 DEF Poll, Scanned
  <2>2. /\ Len(file) = Before(s) + (IF s = Announced THEN written ELSE 0)
        /\ \A i \in Before(s) + 1 .. Len(file) :
             s = Announced /\ i - Before(s) \in 1 .. written /\ file[i] = said[i - Before(s)]
    BY RolloutShape, Zenon
  <2>3. /\ Len(said) \in Nat /\ Before(s) \in Nat /\ Len(file) \in Nat
        /\ k.offset \in Before(s) .. Len(file) /\ DOMAIN said = 1 .. Len(said)
    <3>1. k.offset \in Before(s) .. Len(file)
      BY Zenon DEF Knows
    <3> QED BY <2>2, <3>1 DEF Before
  <2>4. /\ terminal # None => terminal \in Messages /\ Own(terminal) /\ Active
        /\ k.offset = Len(file) => terminal = None
        /\ s = Announced /\ written = Len(said) /\ k.offset < Len(file)
             /\ Last(said).kind = "complete" /\ Last(said).msg # None
           => terminal = Last(said).msg
    BY <2>3, TerminalIsOwn, Zenon
  <2>5. ASSUME NEW l \in new PROVE \E j \in DOMAIN said : l = said[j]
    <3>1. PICK i \in k.offset + 1 .. Len(file) : l = file[i]
      BY <2>5
    <3>2. i \in Before(s) + 1 .. Len(file)
      BY <2>3, <3>1
    <3>3. i - Before(s) \in DOMAIN said /\ file[i] = said[i - Before(s)]
      BY <2>2, <2>3, <3>2
    <3> QED BY <3>1, <3>3
  <2> HIDE DEF file, new, terminal
  <2>6. ASSUME NEW msg \in commentary PROVE Own(msg)
    <3>1. PICK l \in new : l.phase = "commentary" /\ l.msg = msg
      BY <2>6
    <3>2. PICK j \in DOMAIN said : l = said[j]
      BY <2>5, <3>1
    <3>3. said[j].kind = "text"
      BY <3>1, <3>2 DEF SaidInv
    <3> QED BY <3>1, <3>2, <3>3 DEF Own
  <2>7. \A l \in new : l.kind = "text" => Active
    BY <2>5 DEF Active
  <2> HIDE DEF commentary
  <2>8. shown \in CollectorType /\ shown = [k EXCEPT !.shown = shown.shown]
    BY ShownFields
  <2>9. ShownOwn(shown)
    <3>1. ShownOwn(k)
      BY DEF Knows, ShownOwn
    <3> QED BY <2>6, <3>1, ShowsOwn
  <2> HIDE DEF shown, p
  <2>10. /\ p.current = s /\ p.offset = Len(file) /\ p.baseline = k.baseline
         /\ p.final = k.final /\ p.pending = k.pending /\ p.shown = shown.shown
         /\ p.terminal = (IF terminal = None THEN k.terminal ELSE terminal)
         /\ p.ready = ready
    BY <2>1, <2>8 DEF CollectorType
  <2>11. p \in CollectorType
    BY <2>1, <2>3, <2>4, <2>8 DEF CollectorType
  <2> HIDE DEF ready
  <2>12. ready => Active
    BY <2>4, <2>7 DEF Knows, ready
  <2>13. \A text \in {p.final, p.pending, p.terminal} \ {None} : Own(text) /\ p.ready
    <3>1. k.ready => ready
      BY DEF ready
    <3>2. terminal # None => ready
      BY DEF ready
    <3> QED BY <2>4, <2>10, <3>1, <3>2 DEF Knows
  <2>14. p.offset \in Before(p.current) .. Len(Rollout(p.current))
    BY <2>3, <2>10 DEF file
  <2>15. ASSUME s = Announced, p.offset = Before(s) + Len(said),
                Last(said).kind = "complete", Last(said).msg # None
         PROVE  p.terminal = Last(said).msg
    <3>1. written = Len(said)
      <4>1. Len(file) = Before(s) + written
        BY <2>2, <2>15
      <4>2. Before(s) + written = Before(s) + Len(said)
        BY <2>10, <2>15, <4>1
      <4>3. Before(s) \in Nat /\ written \in Nat /\ Len(said) \in Nat
        BY <2>3
      <4> HIDE DEF s
      <4> QED BY <4>2, <4>3
    <3>2. CASE k.offset = Len(file)
      <4>1. k.offset = Before(s) + Len(said)
        BY <2>10, <2>15, <3>2
      <4>2. k.terminal = Last(said).msg
        BY <2>15, <4>1 DEF Knows
      <4> QED BY <2>4, <2>10, <3>2, <4>2
    <3>3. CASE k.offset # Len(file)
      <4>1. k.offset < Len(file)
        BY <2>3, <3>3
      <4>2. terminal = Last(said).msg
        BY <2>4, <2>15, <3>1, <4>1
      <4> QED BY <2>10, <2>15, <4>2
    <3> QED BY <3>2, <3>3
  <2>16. /\ start = "new" => p.current # "old"
         /\ start = "resumed" => p.current = "old"
         /\ p.current # None \/ start = "new"
         /\ p.baseline = Before(p.current)
         /\ ShownOwn(p)
    BY <2>9, <2>10 DEF Knows, ShownOwn
  <2>17. Knows(p)
    BY <2>10, <2>12, <2>13, <2>14, <2>15, <2>16 DEF Knows, ShownOwn
  <2> QED BY <2>10, <2>11, <2>17 DEF p, file
<1> QED BY <1>1, <1>2

(* What is pending is of this call, so to show it when work goes on is, too. *)
LEMMA FlushedFields ==
  ASSUME NEW k \in CollectorType, ShownOwn(k), k.pending # None => Own(k.pending)
  PROVE  /\ Flushed(k) \in CollectorType
         /\ Flushed(k) = [k EXCEPT !.pending = None, !.shown = Flushed(k).shown]
         /\ ShownOwn(Flushed(k))
<1> DEFINE shown == Shown(k, {k.pending})
<1>1. shown \in CollectorType /\ shown = [k EXCEPT !.shown = shown.shown]
  BY ShownFields
<1>2. ShownOwn(shown)
  <2>1. None \notin Messages
    BY DEF None, Messages
  <2>2. \A msg \in {k.pending} \cap Messages : Own(msg)
    BY <2>1
  <2> QED BY <2>2, ShowsOwn
<1>3. Flushed(k) = [shown EXCEPT !.pending = None]
  BY DEF Flushed
<1> HIDE DEF shown
<1>4. PICK h : h = Flushed(k)
  OBVIOUS
<1>5. h = [k EXCEPT !.shown = shown.shown, !.pending = None]
  BY <1>1, <1>3, <1>4 DEF CollectorType
<1>6. shown.shown \in [Messages -> Nat]
  BY <1>1 DEF CollectorType
<1>7. h \in CollectorType /\ h.shown = shown.shown
  BY <1>5, <1>6 DEF CollectorType
<1>8. ShownOwn(h)
  BY <1>2, <1>7 DEF ShownOwn
<1>9. h = [k EXCEPT !.pending = None, !.shown = h.shown]
  BY <1>5, <1>7 DEF CollectorType
<1> QED BY <1>4, <1>7, <1>8, <1>9

LEMMA StdoutKnows ==
  ASSUME said \in Seq(LineType), written \in 0 .. Len(said), SaidInv,
         start \in {"new", "resumed", "forked"},
         NEW k \in CollectorType, Knows(k), NEW i \in DOMAIN said
  PROVE  FromStdout(k, said[i]) \in CollectorType /\ Knows(FromStdout(k, said[i]))
<1> DEFINE f == FromStdout(k, said[i])
<1>1. PICK l \in LineType : l = said[i]
  OBVIOUS
<1>2. l.kind = "text" => l.msg \in Messages /\ Own(l.msg) /\ Active
  BY <1>1 DEF SaidInv, Own, Active
<1>3. l.kind = "tool" => Active
  BY <1>1 DEF Active
<1>4. ShownOwn(k) /\ (k.pending # None => Own(k.pending))
  BY DEF Knows, ShownOwn
<1>5. PICK h : h = Flushed(k)
  OBVIOUS
<1>6. /\ h \in CollectorType /\ ShownOwn(h)
      /\ h = [k EXCEPT !.pending = None, !.shown = h.shown]
  BY <1>4, <1>5, FlushedFields
<1>7. CASE l.kind = "session"
  <2>1. f = InSession(k, Announced)
    BY <1>1, <1>7 DEF FromStdout
  <2>2. CASE Announced = k.current
    BY <2>1, <2>2 DEF InSession
  <2>3. CASE Announced # k.current
    <3>1. f = [k EXCEPT !.current = Announced, !.offset = 0, !.baseline = 0, !.terminal = None]
      BY <2>1, <2>3 DEF InSession
    <3>2. Announced = "new" /\ start # "resumed"
      BY <2>3 DEF Announced, Knows
    <3>3. Before("new") = 0 /\ Len(Rollout("new")) \in Nat
      <4>1. Len(Rollout("new")) = Before("new") + (IF "new" = Announced THEN written ELSE 0)
        BY RolloutShape, Zenon
      <4>2. Before("new") = 0
        BY DEF Before
      <4> QED BY <3>2, <4>1, <4>2
    <3>4. /\ f.current = "new" /\ f.offset = 0 /\ f.baseline = 0 /\ f.terminal = None
          /\ f.final = k.final /\ f.pending = k.pending /\ f.ready = k.ready
          /\ f.shown = k.shown /\ f \in CollectorType
      <4>1. f = [k EXCEPT !.current = "new", !.offset = 0, !.baseline = 0, !.terminal = None]
        BY <3>1, <3>2
      <4> HIDE DEF f
      <4> QED BY <4>1 DEF CollectorType
    <3>5. Len(said) \in Nat /\ Len(said) # 0
      <4>1. said # <<>>
        BY DEF SaidInv
      <4> QED BY <4>1
    <3> HIDE DEF f
    <3>6. f.offset # Before(f.current) + Len(said)
      BY <3>3, <3>4, <3>5
    <3>7. f.offset \in Before(f.current) .. Len(Rollout(f.current)) /\ f.baseline = Before(f.current)
      BY <3>3, <3>4
    <3>8. f.current # "old" /\ f.current # None
      BY <3>4 DEF None
    <3>9. Knows(f)
      BY <3>2, <3>4, <3>6, <3>7, <3>8 DEF Knows
    <3> QED BY <3>4, <3>9 DEF f
  <2> QED BY <2>2, <2>3
<1>8. CASE l.kind = "text"
  <2>1. f = [Captured(k, l) EXCEPT !.ready = TRUE]
    BY <1>1, <1>8 DEF FromStdout
  <2>2. CASE l.phase = "commentary"
    <3> DEFINE shown == Shown(k, {l.msg})
    <3>1. shown \in CollectorType /\ shown = [k EXCEPT !.shown = shown.shown]
      BY ShownFields
    <3>2. ShownOwn(shown)
      BY <1>2, <1>4, <1>8, ShowsOwn
    <3>3. f = [shown EXCEPT !.ready = TRUE]
      BY <2>1, <2>2 DEF Captured
    <3> HIDE DEF shown, f
    <3>4. /\ f.current = k.current /\ f.offset = k.offset /\ f.baseline = k.baseline
          /\ f.terminal = k.terminal /\ f.final = k.final /\ f.pending = k.pending
          /\ f.ready = TRUE /\ f.shown = shown.shown /\ f \in CollectorType
      BY <3>1, <3>3 DEF CollectorType
    <3>5. Knows(f)
      BY <1>2, <1>8, <3>2, <3>4 DEF Knows, ShownOwn
    <3> QED BY <3>4, <3>5 DEF f
  <2>3. CASE l.phase # "commentary"
    <3>1. f = [k EXCEPT !.final = l.msg, !.ready = TRUE]
            \/ f = [k EXCEPT !.pending = l.msg, !.ready = TRUE]
      BY <2>1, <2>3 DEF Captured, CollectorType
    <3> HIDE DEF f
    <3>2. /\ f.current = k.current /\ f.offset = k.offset /\ f.baseline = k.baseline
          /\ f.terminal = k.terminal /\ f.final \in {k.final, l.msg}
          /\ f.pending \in {k.pending, l.msg}
          /\ f.ready = TRUE /\ f.shown = k.shown /\ f \in CollectorType
      BY <1>2, <1>8, <3>1 DEF CollectorType
    <3>3. Knows(f)
      BY <1>2, <1>8, <3>2 DEF Knows
    <3> QED BY <3>2, <3>3 DEF f
  <2> QED BY <2>2, <2>3
<1>9. CASE l.kind \in {"tool", "warning", "reconnect"}
  <2>1. \/ f = [h EXCEPT !.ready = TRUE] /\ l.kind = "tool"
        \/ f = h
        \/ f = [h EXCEPT !.failure = "upstream"]
    BY <1>1, <1>5, <1>9 DEF FromStdout
  <2> HIDE DEF f
  <2>2. /\ f.current = k.current /\ f.offset = k.offset /\ f.baseline = k.baseline
        /\ f.terminal = k.terminal /\ f.final = k.final /\ f.pending = None
        /\ f.ready = k.ready \/ (f.ready = TRUE /\ l.kind = "tool")
        /\ f.shown = h.shown /\ f \in CollectorType
    <3>1. h.current = k.current /\ h.offset = k.offset /\ h.baseline = k.baseline
          /\ h.terminal = k.terminal /\ h.final = k.final /\ h.pending = None /\ h.ready = k.ready
      BY <1>6 DEF CollectorType
    <3>2. CASE f = [h EXCEPT !.ready = TRUE] /\ l.kind = "tool"
      BY <1>6, <3>1, <3>2 DEF CollectorType
    <3>3. CASE f = h
      BY <1>6, <3>1, <3>3
    <3>4. CASE f = [h EXCEPT !.failure = "upstream"]
      BY <1>6, <3>1, <3>4 DEF CollectorType
    <3> QED BY <2>1, <3>2, <3>3, <3>4
  <2>3. Knows(f)
    BY <1>3, <1>6, <2>2 DEF Knows, ShownOwn
  <2> QED BY <2>2, <2>3 DEF f
<1>10. CASE l.kind \notin {"session", "text", "tool", "warning", "reconnect"}
  BY <1>1, <1>10 DEF FromStdout
<1> QED BY <1>7, <1>8, <1>9, <1>10

-----------------------------------------------------------------------------
(* The Claude collector *)

LEMMA SawIsFinite ==
  ASSUME said \in Seq(LineType), NEW S \in SUBSET (DOMAIN said)
  PROVE  IsFiniteSet(S) /\ Cardinality(S) \in Nat
<1>1. IsFiniteSet(1 .. Len(said))
  BY FS_Interval
<1> QED BY <1>1, FS_Subset, FS_CardinalityType

LEMMA ClaudeHears ==
  ASSUME said \in Seq(LineType), SaidInv, provider = "claude",
         NEW k \in CollectorType, Heard(k), NEW i \in DOMAIN said
  PROVE  FromClaude(k, i) \in CollectorType /\ Heard(FromClaude(k, i))
<1> DEFINE f == FromClaude(k, i)
<1>1. PICK l \in LineType : l = said[i]
  OBVIOUS
<1>2. i \in Nat /\ (l.kind = "text" => l.msg \in Messages)
      /\ l.kind \notin {"warning", "reconnect", "complete"}
  <2>1. i \in Nat
    OBVIOUS
  <2>2. /\ said[i].kind = "text" => said[i].msg \in Messages
        /\ said[i].kind \notin {"warning", "reconnect", "complete"}
    BY Zenon DEF SaidInv
  <2> QED BY <1>1, <2>1, <2>2
<1>3. l.kind \in {"text", "tool"} \cup Closing => Active
  BY <1>1 DEF Active
<1>4. CASE l.kind = "nested" \/ i \in k.seen
  <2>1. said[i].kind = "nested" \/ i \in k.seen
    BY <1>1, <1>4
  <2>2. f = k
    BY <2>1 DEF FromClaude
  <2> QED BY <2>2
<1>5. CASE l.kind = "session" /\ i \notin k.seen
  <2>1. f = [k EXCEPT !.current = Announced]
    BY <1>1, <1>5 DEF FromClaude
  <2> HIDE DEF f
  <2>2. f.seen = k.seen /\ f.shown = k.shown /\ f.ready = k.ready /\ f.result = k.result
        /\ f \in CollectorType
    BY <2>1 DEF CollectorType, Announced
  <2> QED BY <2>2 DEF Heard, Saw, f
<1>6. CASE l.kind \in {"tool", "text"} /\ i \notin k.seen
  <2> DEFINE g == [msg \in Messages |-> IF l.kind = "text" /\ l.msg # "decision" /\ msg = l.msg
                                         THEN k.shown[msg] + 1 ELSE k.shown[msg]]
  <2>1. f = [k EXCEPT !.ready = TRUE, !.seen = @ \cup {i}, !.shown = g]
    BY <1>1, <1>2, <1>6 DEF FromClaude, CollectorType
  <2>2. g \in [Messages -> Nat]
    BY DEF CollectorType
  <2> HIDE DEF f, g
  <2>3. f.seen = k.seen \cup {i} /\ f.shown = g /\ f.ready = TRUE /\ f.result = k.result
        /\ f \in CollectorType
    BY <1>2, <2>1, <2>2 DEF CollectorType
  <2>4. f.seen \subseteq DOMAIN said
    BY <2>3 DEF Heard
  <2>5. ASSUME NEW msg \in Messages PROVE f.shown[msg] <= Cardinality(Saw(f, msg))
    <3>1. /\ Saw(k, msg) \in SUBSET (DOMAIN said) /\ Saw(f, msg) \in SUBSET (DOMAIN said)
          /\ Saw(k, msg) \subseteq Saw(f, msg)
      BY <2>3, <2>4 DEF Saw, Heard
    <3>2. /\ IsFiniteSet(Saw(k, msg)) /\ IsFiniteSet(Saw(f, msg))
          /\ Cardinality(Saw(k, msg)) \in Nat /\ Cardinality(Saw(f, msg)) \in Nat
      BY <3>1, SawIsFinite
    <3>3. Cardinality(Saw(k, msg)) <= Cardinality(Saw(f, msg))
      BY <3>1, <3>2, FS_Subset
    <3>4. k.shown[msg] \in Nat /\ k.shown[msg] <= Cardinality(Saw(k, msg))
      BY DEF Heard, CollectorType
    <3>5. CASE l.kind = "text" /\ l.msg # "decision" /\ msg = l.msg
      <4>1. Saw(f, msg) = Saw(k, msg) \cup {i} /\ i \notin Saw(k, msg)
        BY <1>1, <1>6, <2>3, <3>5 DEF Saw
      <4>2. Cardinality(Saw(f, msg)) = Cardinality(Saw(k, msg)) + 1
        BY <3>2, <4>1, FS_AddElement
      <4>3. f.shown[msg] = k.shown[msg] + 1
        BY <2>3, <3>5 DEF g
      <4> QED BY <3>2, <3>4, <4>2, <4>3
    <3>6. CASE ~(l.kind = "text" /\ l.msg # "decision" /\ msg = l.msg)
      <4>1. f.shown[msg] = k.shown[msg]
        BY <2>3, <3>6 DEF g
      <4> QED BY <3>2, <3>3, <3>4, <4>1
    <3> QED BY <3>5, <3>6
  <2>6. Heard(f)
    BY <1>3, <1>6, <2>3, <2>4, <2>5 DEF Heard
  <2> QED BY <2>3, <2>6 DEF f
<1>7. CASE l.kind \in {"result", "error", "invalid"} /\ i \notin k.seen
  <2>1. f = [k EXCEPT !.ready = TRUE, !.result = l.kind]
    BY <1>1, <1>7 DEF FromClaude
  <2> HIDE DEF f
  <2>2. f.seen = k.seen /\ f.shown = k.shown /\ f.ready = TRUE /\ f \in CollectorType
    BY <1>7, <2>1 DEF CollectorType
  <2>3. Active
    BY <1>3, <1>7 DEF Closing
  <2> QED BY <2>2, <2>3 DEF Heard, Saw, f
<1> QED BY <1>1, <1>2, <1>4, <1>5, <1>6, <1>7 DEF LineType, Kinds, Closing

-----------------------------------------------------------------------------
(* The calls' steps *)

LEMMA LineFields ==
  ASSUME NEW kind \in Kinds
  PROVE  /\ Line(kind) \in LineType
         /\ Line(kind).kind = kind /\ Line(kind).phase = ""
  BY DEF Line, LineType, Phases

LEMMA TextFields ==
  ASSUME NEW msg \in Messages, NEW phase \in Phases
  PROVE  /\ Text(msg, phase) \in LineType
         /\ Text(msg, phase).kind = "text" /\ Text(msg, phase).msg = msg
         /\ Text(msg, phase).phase = phase
  BY DEF Text, LineType, Kinds

LEMMA CallInit == Init => CallInv
<1> SUFFICES ASSUME Init PROVE CallInv
  OBVIOUS
<1>1. /\ provider \in {"codex", "claude"} /\ start \in {"new", "resumed", "forked"}
      /\ said = <<Line("session")>> /\ written = 0 /\ torn = FALSE /\ exit = None
      /\ read = 0 /\ stage = "reading" /\ answer = None
      /\ c = (IF start = "new" THEN Fresh ELSE Prime([Fresh EXCEPT !.current = "old"]))
  BY DEF Init
<1>2. said \in Seq(LineType) /\ Len(said) = 1 /\ DOMAIN said = {1}
      /\ said[1] = Line("session") /\ Last(said) = Line("session")
      /\ Line("session").kind = "session" /\ Line("session").phase = ""
  <2>1. PICK z \in LineType : z = Line("session") /\ z.kind = "session" /\ z.phase = ""
    BY LineFields DEF Kinds
  <2>2. said = <<z>>
    BY <1>1, <2>1
  <2>3. said \in Seq(LineType) /\ Len(said) = 1 /\ DOMAIN said = {1} /\ said[1] = z
    BY <2>2
  <2>4. Last(said) = z
    BY <2>3 DEF Last
  <2> QED BY <2>1, <2>3, <2>4, Zenon
<1>3. SaidInv
  <2>1. said # <<>>
    BY <1>1
  <2> QED BY <1>2, <2>1 DEF SaidInv
<1>4. Fresh \in CollectorType /\ Fresh.shown = [msg \in Messages |-> 0]
  BY DEF Fresh, CollectorType
<1>5. CASE start = "new"
  <2>1. c = Fresh
    BY <1>1, <1>5
  <2>0. Len(said) = 1 /\ said \in Seq(LineType)
    BY <1>2, Zenon
  <2>2. Len(Rollout(None)) = 0
    <3>1. Len(Rollout(None)) = Before(None) + (IF None = Announced THEN written ELSE 0)
      BY <1>1, <2>0, RolloutShape
    <3> QED BY <1>1, <3>1 DEF Before, None
  <2>3. Knows(c)
    <3>1. /\ c.current = None /\ c.offset = 0 /\ c.baseline = 0 /\ c.ready = FALSE
          /\ c.final = None /\ c.pending = None /\ c.terminal = None
      BY <2>1 DEF Fresh
    <3>2. \A msg \in Messages : c.shown[msg] = 0
      BY <1>4, <2>1
    <3>3. None # "old" /\ Before(None) = 0
      BY DEF None, Before
    <3>4. c.offset \in Before(c.current) .. Len(Rollout(c.current)) /\ c.baseline = Before(c.current)
      BY <2>2, <3>1, <3>3
    <3>5. Last(said).kind # "complete"
      <4>1. Last(said).kind = "session"
        BY <1>2, Zenon
      <4> QED BY <4>1
    <3> QED BY <1>5, <3>1, <3>2, <3>3, <3>4, <3>5 DEF Knows
  <2>4. Heard(c)
    <3>1. ASSUME NEW msg \in Messages PROVE c.shown[msg] <= Cardinality(Saw(c, msg))
      <4>1. Saw(c, msg) = {}
        BY <2>1 DEF Saw, Fresh
      <4> QED BY <1>4, <2>1, <4>1, FS_EmptySet
    <3> QED BY <2>1, <3>1 DEF Heard, Fresh, None
  <2>5. CallTypeOK /\ Reported
    <3>1. 0 \in 0 .. Len(said) /\ c \in CollectorType
      BY <1>4, <2>0, <2>1
    <3> QED BY <1>1, <1>2, <3>1, Zenon DEF CallTypeOK, Reported
  <2> QED BY <1>3, <2>3, <2>4, <2>5 DEF CallInv
<1>6. CASE start # "new"
  <2> DEFINE o == [Fresh EXCEPT !.current = "old"]
  <2>1. c = [o EXCEPT !.offset = Len(Rollout("old")), !.baseline = Len(Rollout("old"))]
    BY <1>1, <1>6 DEF Prime, Fresh
  <2>0. Len(said) = 1 /\ said \in Seq(LineType)
    BY <1>2, Zenon
  <2>2. Len(Rollout("old")) = 1
    <3>1. Len(Rollout("old")) = Before("old") + (IF "old" = Announced THEN written ELSE 0)
      BY <1>1, <2>0, RolloutShape
    <3> QED BY <1>1, <3>1 DEF Before
  <2>3. c = [Fresh EXCEPT !.current = "old", !.offset = 1, !.baseline = 1]
    BY <2>1, <2>2 DEF Fresh
  <2>4. /\ c.current = "old" /\ c.offset = 1 /\ c.baseline = 1 /\ c.ready = FALSE
        /\ c.final = None /\ c.pending = None /\ c.terminal = None /\ c.seen = {}
        /\ c.result = None /\ c.shown = [msg \in Messages |-> 0] /\ c \in CollectorType
    BY <1>4, <2>3 DEF Fresh, CollectorType
  <2>5. Knows(c)
    <3>1. \A msg \in Messages : c.shown[msg] = 0
      BY <2>4
    <3>2. None # "old" /\ Before("old") = 1
      BY DEF None, Before
    <3>3. c.offset \in Before(c.current) .. Len(Rollout(c.current)) /\ c.baseline = Before(c.current)
      BY <2>2, <2>4, <3>2
    <3>4. Last(said).kind # "complete"
      <4>1. Last(said).kind = "session"
        BY <1>2, Zenon
      <4> QED BY <4>1
    <3> QED BY <1>6, <2>4, <3>1, <3>2, <3>3, <3>4 DEF Knows
  <2>6. Heard(c)
    <3>1. ASSUME NEW msg \in Messages PROVE c.shown[msg] <= Cardinality(Saw(c, msg))
      <4>1. Saw(c, msg) = {}
        BY <2>4 DEF Saw
      <4> QED BY <2>4, <4>1, FS_EmptySet
    <3> QED BY <2>4, <3>1 DEF Heard, None
  <2>7. CallTypeOK /\ Reported
    <3>1. 0 \in 0 .. Len(said)
      BY <2>0
    <3> QED BY <1>1, <1>2, <2>4, <3>1, Zenon DEF CallTypeOK, Reported
  <2> QED BY <1>3, <2>5, <2>6, <2>7 DEF CallInv
<1> QED BY <1>5, <1>6

LEMMA SaysInv == CallInv /\ Says => CallInv'
<1> SUFFICES ASSUME CallInv, Says PROVE CallInv'
  OBVIOUS
<1>1. PICK l \in Lines(provider) : said' = Append(said, l)
  BY DEF Says
<1>2. /\ UNCHANGED <<provider, start, read, c, stage, answer, failure, tokens, written, torn, exit>>
      /\ exit = None /\ Last(said).kind \notin Closing
  BY DEF Says, CliFrame
<1>3. /\ said \in Seq(LineType) /\ said # <<>> /\ written \in 0 .. Len(said)
      /\ c \in CollectorType /\ provider \in {"codex", "claude"}
      /\ start \in {"new", "resumed", "forked"} /\ SaidInv
  BY DEF CallInv, CallTypeOK, SaidInv
<1>4. LastText(said) = None \/ (LastText(said) \in Messages /\ Own(LastText(said)))
  BY <1>3, LastTextIsOwn
<1>5. /\ l \in LineType
      /\ l.kind = "text" => l.msg \in Messages
      /\ l.phase # "" => l.kind = "text"
      /\ l.kind = "complete" => l.msg = LastText(said)
      /\ provider = "claude" => l.kind \notin {"warning", "reconnect", "complete"}
  <2>1. CASE provider = "codex"
    <3>1. CASE \E t \in CodexTexts : l = Text(t[1], t[2])
      <4>1. PICK t \in CodexTexts : l = Text(t[1], t[2])
        BY <3>1
      <4>2. t[1] \in Messages /\ t[2] \in Phases
        BY CollectorAssumption
      <4>3. l \in LineType /\ l.kind = "text" /\ l.msg \in Messages
        BY <4>1, <4>2, TextFields
      <4> QED BY <2>1, <4>3
    <3>2. CASE l \in {Line("tool"), Line("warning"), Line("reconnect")}
      <4>1. PICK kind \in {"tool", "warning", "reconnect"} : l = Line(kind)
        BY <3>2
      <4>2. kind \in Kinds
        BY DEF Kinds
      <4>3. l \in LineType /\ l.kind = kind /\ l.phase = ""
        BY <4>1, <4>2, LineFields
      <4> QED BY <2>1, <4>3
    <3>3. CASE l = [Line("complete") EXCEPT !.msg = LastText(said)]
      <4>1. l = [kind |-> "complete", msg |-> LastText(said), phase |-> ""]
        BY <3>3 DEF Line
      <4> QED BY <1>4, <2>1, <4>1 DEF LineType, Kinds, Closing, Phases
    <3> QED BY <1>1, <2>1, <3>1, <3>2, <3>3 DEF Lines
  <2>2. CASE provider = "claude"
    <3>1. CASE \E msg \in Messages : l = Text(msg, "")
      <4>1. PICK msg \in Messages : l = Text(msg, "")
        BY <3>1
      <4>2. "" \in Phases
        BY DEF Phases
      <4>3. l \in LineType /\ l.kind = "text" /\ l.msg \in Messages
        BY <4>1, <4>2, TextFields
      <4> QED BY <4>3
    <3>2. CASE \E kind \in {"tool", "nested", "result", "error", "invalid"} : l = Line(kind)
      <4>1. PICK kind \in {"tool", "nested", "result", "error", "invalid"} : l = Line(kind)
        BY <3>2
      <4>2. kind \in Kinds
        BY DEF Kinds, Closing
      <4>3. l \in LineType /\ l.kind = kind /\ l.phase = ""
        BY <4>1, <4>2, LineFields
      <4> QED BY <4>3
    <3>3. \/ \E msg \in Messages : l = Text(msg, "")
          \/ \E kind \in {"tool", "nested", "result", "error", "invalid"} : l = Line(kind)
      <4>1. provider # "codex"
        BY <2>2
      <4> QED BY <1>1, <4>1 DEF Lines
    <3> QED BY <3>1, <3>2, <3>3
  <2> QED BY <1>3, <2>1, <2>2
<1>6. PICK n \in Nat : n = Len(said) /\ DOMAIN said = 1 .. n /\ n # 0
  BY <1>3
<1>7. /\ said' \in Seq(LineType) /\ Len(said') = n + 1 /\ DOMAIN said' = 1 .. n + 1
      /\ \A i \in 1 .. n : said'[i] = said[i]
      /\ said'[n + 1] = l
  <2>1. PICK x : x = Append(said, l)
    OBVIOUS
  <2>2. /\ x \in Seq(LineType) /\ Len(x) = n + 1 /\ DOMAIN x = 1 .. n + 1
        /\ \A i \in 1 .. n : x[i] = said[i]
        /\ x[n + 1] = l
    <3>1. said \in Seq(LineType) /\ l \in LineType
      BY <1>3, <1>5
    <3> QED BY <1>6, <2>1, <3>1
  <2> QED BY <1>1, <2>1, <2>2
<1>8. \A i \in DOMAIN said : i \in DOMAIN said' /\ said'[i] = said[i]
  BY <1>6, <1>7
<1>9. (Active => Active') /\ \A msg : Own(msg) => Own(msg)'
  BY <1>8 DEF Active, Own
<1>10. SaidInv'
  <2>1. said' # <<>>
    BY <1>6, <1>7
  <2>2. ASSUME NEW i \in DOMAIN said'
        PROVE  /\ said'[i].kind = "text" => said'[i].msg \in Messages
               /\ said'[i].phase # "" => said'[i].kind = "text"
               /\ said'[i].kind = "complete" => i = Len(said') /\ said'[i].msg = LastText(said')
               /\ provider = "claude" => said'[i].kind \notin {"warning", "reconnect", "complete"}
    <3>1. CASE i \in 1 .. n
      <4>1. said'[i].kind # "complete"
        <5>1. Last(said) = said[n]
          BY <1>6 DEF Last
        <5>2. said[i].kind = "complete" => i = n
          BY <1>3, <1>6, <3>1 DEF SaidInv
        <5> QED BY <1>2, <1>7, <3>1, <5>1, <5>2 DEF Closing
      <4> QED BY <1>3, <1>6, <1>7, <3>1, <4>1 DEF SaidInv
    <3>2. CASE i = n + 1
      <4>1. ASSUME l.kind = "complete" PROVE LastText(said') = LastText(said)
        BY <1>1, <1>3, <1>5, <4>1, LastTextOfPrefix
      <4> QED BY <1>5, <1>7, <3>2, <4>1
    <3>3. i \in 1 .. n \/ i = n + 1
      BY <1>7
    <3> QED BY <3>1, <3>2, <3>3
  <2> QED BY <1>2, <2>1, <2>2 DEF SaidInv
<1>11. CallTypeOK'
  <2>1. written' \in 0 .. Len(said') /\ read' \in 0 .. Len(said')
    BY <1>2, <1>6, <1>7 DEF CallInv, CallTypeOK
  <2> QED BY <1>2, <1>7, <2>1 DEF CallInv, CallTypeOK
<1>12. Reported'
  <2>1. stage = "reading" /\ answer = None
    BY <1>2 DEF CallInv, CallTypeOK, Reported
  <2> QED BY <1>2, <2>1 DEF Reported
<1>13. CASE provider = "codex"
  <2>1. Knows(c)
    BY <1>13 DEF CallInv
  <2>2. Len(Rollout(c.current)) = Before(c.current) + (IF c.current = Announced THEN written ELSE 0)
    BY <1>3, RolloutShape, Zenon
  <2>3. (Rollout(c.current))' = RolloutOf(c.current, Announced, said', written)
    BY <1>2 DEF Rollout, RolloutOf, Announced
  <2>4. Len((Rollout(c.current))')
          = Before(c.current) + (IF c.current = Announced THEN written ELSE 0)
    <3>1. written \in 0 .. Len(said')
      BY <1>3, <1>6, <1>7
    <3>2. Shaped(c.current, Announced, said', written)
      BY <1>7, <3>1, RolloutOfShape
    <3> QED BY <2>3, <3>2, Zenon DEF Shaped
  <2>5. c.offset \in Before(c.current) .. Len((Rollout(c.current))')
    BY <2>1, <2>2, <2>4 DEF Knows
  <2>6. c.offset # Before(c.current) + Len(said')
    <3>1. c.offset \in Before(c.current) .. Len(Rollout(c.current)) /\ Before(c.current) \in Nat
      BY <2>1, Zenon DEF Knows, Before
    <3>2. Len(Rollout(c.current)) <= Before(c.current) + n
      <4>1. (IF c.current = Announced THEN written ELSE 0) \in 0 .. n
        BY <1>3, <1>6
      <4> QED BY <2>2, <3>1, <4>1
    <3> QED BY <1>6, <1>7, <3>1, <3>2
  <2>7. Knows(c)'
    <3>1. Before(c.current)' = Before(c.current) /\ Announced' = Announced
      BY <1>2 DEF Before, Announced
    <3>2. \A text \in {c.final, c.pending, c.terminal} \ {None} : Own(text)' /\ c.ready
      BY <1>9, <2>1 DEF Knows
    <3>3. c.ready => Active'
      BY <1>9, <2>1 DEF Knows
    <3>4. \A msg \in Messages : c.shown[msg] = 0 \/ (c.shown[msg] = 1 /\ Own(msg)')
      BY <1>9, <2>1 DEF Knows
    <3> QED BY <1>2, <2>1, <2>5, <2>6, <3>1, <3>2, <3>3, <3>4 DEF Knows
  <2> QED BY <1>2, <1>10, <1>11, <1>12, <1>13, <2>7 DEF CallInv
<1>14. CASE provider # "codex"
  <2>1. Heard(c)
    BY <1>14 DEF CallInv
  <2>2. \A msg : Saw(c, msg)' = Saw(c, msg)
    BY <1>2, <1>8, <2>1 DEF Saw, Heard
  <2>3. Heard(c)'
    BY <1>2, <1>8, <1>9, <2>1, <2>2 DEF Heard
  <2> QED BY <1>2, <1>10, <1>11, <1>12, <1>14, <2>3 DEF CallInv
<1> QED BY <1>13, <1>14

LEMMA SameSaid ==
  ASSUME UNCHANGED <<provider, start, said>>
  PROVE  /\ SaidInv' <=> SaidInv
         /\ Active' <=> Active
         /\ \A msg : Own(msg)' <=> Own(msg)
         /\ Announced' = Announced
<1>1. LastText(said)' = LastText(said)
  OBVIOUS
<1>2. SaidInv' <=> SaidInv
  BY <1>1 DEF SaidInv
<1> QED BY <1>2 DEF Active, Own, Announced

LEMMA SameCall ==
  ASSUME UNCHANGED <<provider, start, said, written, c>>
  PROVE  /\ SaidInv' <=> SaidInv
         /\ Knows(c)' <=> Knows(c)
         /\ Heard(c)' <=> Heard(c)
<1>1. /\ SaidInv' <=> SaidInv
      /\ Active' <=> Active
      /\ Announced' = Announced
  BY SameSaid
<1>2. \A msg : Own(msg)' <=> Own(msg)
  BY SameSaid
<1>3. (Rollout(c.current))' = Rollout(c.current) /\ Before(c.current)' = Before(c.current)
  BY DEF Rollout, Announced, Before
<1>4. Knows(c)' <=> Knows(c)
  BY <1>1, <1>2, <1>3 DEF Knows
<1>5. \A msg : Saw(c, msg)' = Saw(c, msg)
  BY DEF Saw
<1>6. Heard(c)' <=> Heard(c)
  BY <1>1, <1>5 DEF Heard
<1> QED BY <1>1, <1>4, <1>6

LEMMA RecordsInv == CallInv /\ Records => CallInv'
<1> SUFFICES ASSUME CallInv, Records PROVE CallInv'
  OBVIOUS
<1>1. /\ UNCHANGED <<provider, start, read, c, stage, answer, failure, tokens, said, exit>>
      /\ provider = "codex" /\ exit = None /\ written < Len(said)
      /\ torn' \in BOOLEAN /\ written' \in {written, written + 1}
  <2>1. torn' \in BOOLEAN
    BY DEF Records
  <2>2. torn' = torn' /\ written' \in {written, written + 1}
    BY DEF Records
  <2> QED BY <2>1, <2>2 DEF Records, CliFrame
<1>2. /\ said \in Seq(LineType) /\ written \in 0 .. Len(said) /\ Len(said) \in Nat
      /\ c \in CollectorType /\ SaidInv /\ Knows(c)
  BY <1>1 DEF CallInv, CallTypeOK
<1>3. written' \in 0 .. Len(said) /\ written' >= written
  BY <1>1, <1>2
<1>4. CallTypeOK'
  <2>1. written' \in 0 .. Len(said')
    BY <1>1, <1>3
  <2> QED BY <1>1, <2>1 DEF CallInv, CallTypeOK
<1>5. SaidInv'
  BY <1>1, <1>2, SameSaid
<1>6. Reported'
  <2>1. stage = "reading" /\ answer = None
    BY <1>1 DEF CallInv, CallTypeOK, Reported
  <2> QED BY <1>1, <2>1 DEF Reported
<1>7. Len(Rollout(c.current)) = Before(c.current) + (IF c.current = Announced THEN written ELSE 0)
  BY <1>2, RolloutShape, Zenon
<1>8. Len((Rollout(c.current))')
        = Before(c.current) + (IF c.current = Announced THEN written' ELSE 0)
  <2>1. (Rollout(c.current))' = RolloutOf(c.current, Announced, said, written')
    BY <1>1 DEF Rollout, RolloutOf, Announced
  <2>2. Shaped(c.current, Announced, said, written')
    BY <1>2, <1>3, RolloutOfShape
  <2> QED BY <2>1, <2>2, Zenon DEF Shaped
<1>9. c.offset \in Before(c.current) .. Len((Rollout(c.current))')
  <2>1. c.offset \in Before(c.current) .. Len(Rollout(c.current)) /\ Before(c.current) \in Nat
    BY <1>2, Zenon DEF Knows, Before
  <2>2. CASE c.current = Announced
    BY <1>2, <1>3, <1>7, <1>8, <2>1, <2>2
  <2>3. CASE c.current # Announced
    BY <1>7, <1>8, <2>1, <2>3
  <2> QED BY <2>2, <2>3
<1>10. Knows(c)'
  <2>1. Before(c.current)' = Before(c.current) /\ Announced' = Announced
    BY <1>1 DEF Before, Announced
  <2>2. (Active' <=> Active) /\ \A msg : Own(msg)' <=> Own(msg)
    BY <1>1 DEF Active, Own
  <2>3. Last(said)' = Last(said)
    BY <1>1
  <2> QED BY <1>1, <1>2, <1>9, <2>1, <2>2, <2>3 DEF Knows
<1> QED BY <1>1, <1>4, <1>5, <1>6, <1>10 DEF CallInv

LEMMA ExitsInv == CallInv /\ Exits => CallInv'
<1> SUFFICES ASSUME CallInv, Exits PROVE CallInv'
  OBVIOUS
<1>1. /\ UNCHANGED <<provider, start, read, c, stage, answer, failure, tokens, said, written, torn>>
      /\ exit = None /\ exit' \in {"ok", "failed"}
  BY DEF Exits, CliFrame
<1>2. stage = "reading" /\ answer = None
  BY <1>1 DEF CallInv, CallTypeOK, Reported
<1>3. Reported'
  BY <1>1, <1>2 DEF Reported
<1>4. CallTypeOK'
  BY <1>1 DEF CallInv, CallTypeOK
<1>5. SaidInv' /\ (Knows(c)' <=> Knows(c)) /\ (Heard(c)' <=> Heard(c))
  BY <1>1, SameCall DEF CallInv
<1> QED BY <1>1, <1>3, <1>4, <1>5 DEF CallInv

(* What a step of the adapter makes of the collector holds after the step.  *)
LEMMA CollectorStep ==
  ASSUME CallInv, AdapterFrame, NEW k \in CollectorType, c' = k,
         IF provider = "codex" THEN Knows(k) ELSE Heard(k)
  PROVE  SaidInv' /\ IF provider' = "codex" THEN Knows(c)' ELSE Heard(c)'
<1>1. UNCHANGED <<provider, start, said, written, torn>> /\ SaidInv
  BY DEF AdapterFrame, CallInv
<1>2. SaidInv' /\ (Active' <=> Active) /\ Announced' = Announced
  BY <1>1, SameSaid
<1>3. \A msg : Own(msg)' <=> Own(msg)
  BY <1>1 DEF Own
<1>4. (Rollout(c.current))' = Rollout(k.current) /\ Before(c.current)' = Before(k.current)
  BY <1>1 DEF Rollout, Announced, Before
<1>5. CASE provider = "codex"
  <2>1. Knows(k)
    BY <1>5
  <2>2. Knows(c)'
    BY <1>1, <1>2, <1>3, <1>4, <2>1 DEF Knows
  <2> QED BY <1>1, <1>2, <1>5, <2>2
<1>6. CASE provider # "codex"
  <2>1. Heard(k)
    BY <1>6
  <2>2. \A msg : Saw(c, msg)' = Saw(k, msg)
    BY <1>1 DEF Saw
  <2>3. Heard(c)'
    BY <1>1, <1>2, <2>1, <2>2 DEF Heard
  <2> QED BY <1>1, <1>2, <1>6, <2>3
<1> QED BY <1>5, <1>6

LEMMA LoopInv == CallInv /\ (Reads \/ ReadsAgain \/ Ticks) => CallInv'
<1> SUFFICES ASSUME CallInv, Reads \/ ReadsAgain \/ Ticks PROVE CallInv'
  OBVIOUS
<1>1. /\ AdapterFrame /\ UNCHANGED <<exit, stage, answer, failure, tokens>>
      /\ stage = "reading"
  BY DEF Reads, ReadsAgain, Ticks
<1>2. /\ said \in Seq(LineType) /\ DOMAIN said = 1 .. Len(said) /\ Len(said) \in Nat
      /\ written \in 0 .. Len(said) /\ read \in 0 .. Len(said)
      /\ start \in {"new", "resumed", "forked"} /\ provider \in {"codex", "claude"}
      /\ c \in CollectorType /\ SaidInv
      /\ IF provider = "codex" THEN Knows(c) ELSE Heard(c)
  BY DEF CallInv, CallTypeOK
<1>3. \E k \in CollectorType :
        c' = k /\ (IF provider = "codex" THEN Knows(k) ELSE Heard(k)) /\ read' \in 0 .. Len(said)
  <2>1. CASE Reads
    <3>1. read + 1 \in DOMAIN said /\ read' = read + 1 /\ read' \in 0 .. Len(said)
      BY <1>2, <2>1 DEF Reads
    <3>2. CASE provider = "codex"
      <4>1. PICK f : f = FromStdout(c, said[read + 1])
        OBVIOUS
      <4>2. f \in CollectorType /\ Knows(f)
        BY <1>2, <3>1, <3>2, <4>1, StdoutKnows
      <4>3. Poll(f) \in CollectorType /\ Knows(Poll(f))
        BY <1>2, <4>2, PollKnows
      <4>4. c' = Poll(f)
        BY <2>1, <3>2, <4>1 DEF Reads
      <4> QED BY <3>1, <3>2, <4>3, <4>4
    <3>3. CASE provider # "codex"
      <4>1. FromClaude(c, read + 1) \in CollectorType /\ Heard(FromClaude(c, read + 1))
        BY <1>2, <3>1, <3>3, ClaudeHears
      <4>2. c' = FromClaude(c, read + 1)
        BY <2>1, <3>3 DEF Reads
      <4> QED BY <3>1, <3>3, <4>1, <4>2
    <3> QED BY <3>2, <3>3
  <2>2. CASE ReadsAgain
    <3>1. PICK i \in 1 .. read : c' = FromClaude(c, i)
      BY <2>2 DEF ReadsAgain
    <3>2. provider = "claude" /\ read' = read /\ i \in DOMAIN said
      BY <1>2, <2>2, <3>1 DEF ReadsAgain
    <3>3. FromClaude(c, i) \in CollectorType /\ Heard(FromClaude(c, i))
      BY <1>2, <3>2, ClaudeHears
    <3> QED BY <1>2, <3>1, <3>2, <3>3
  <2>3. CASE Ticks
    <3>1. PICK f \in {c.failure, "upstream"} : c' = Poll([c EXCEPT !.failure = f])
      BY <2>3 DEF Ticks
    <3>2. provider = "codex" /\ read' = read
      BY <2>3 DEF Ticks
    <3>3. PICK k : k = [c EXCEPT !.failure = f]
      OBVIOUS
    <3>4. k \in CollectorType
      BY <1>2, <3>3 DEF CollectorType
    <3>5. /\ k.current = c.current /\ k.offset = c.offset /\ k.baseline = c.baseline
          /\ k.terminal = c.terminal /\ k.final = c.final /\ k.pending = c.pending
          /\ k.ready = c.ready /\ k.shown = c.shown
      BY <1>2, <3>3 DEF CollectorType
    <3>6. Knows(k)
      BY <1>2, <3>2, <3>5 DEF Knows
    <3>7. Poll(k) \in CollectorType /\ Knows(Poll(k))
      BY <1>2, <3>4, <3>6, PollKnows
    <3>8. c' = Poll(k)
      BY <3>1, <3>3
    <3> QED BY <1>2, <3>2, <3>7, <3>8
  <2> QED BY <2>1, <2>2, <2>3
<1>4. SaidInv' /\ IF provider' = "codex" THEN Knows(c)' ELSE Heard(c)'
  BY <1>1, <1>3, CollectorStep
<1>5. CallTypeOK'
  <2>1. UNCHANGED <<provider, start, said, written, torn>>
    BY <1>1 DEF AdapterFrame
  <2> QED BY <1>1, <1>3, <2>1 DEF CallInv, CallTypeOK
<1>6. Reported'
  BY <1>1 DEF CallInv, Reported
<1> QED BY <1>4, <1>5, <1>6 DEF CallInv

LEMMA FinishInv == CallInv /\ (Ends \/ TimesOut) => CallInv'
<1> SUFFICES ASSUME CallInv, NEW timedOut \in BOOLEAN, Finish(timedOut), stage = "reading"
             PROVE  CallInv'
  BY DEF Ends, TimesOut
<1>1. /\ AdapterFrame /\ UNCHANGED read /\ stage' = "done"
      /\ exit' = IF exit = None THEN "failed" ELSE exit
  BY DEF Finish
<1>2. /\ said \in Seq(LineType) /\ written \in 0 .. Len(said)
      /\ provider \in {"codex", "claude"} /\ exit \in {None, "ok", "failed"}
      /\ c \in CollectorType /\ SaidInv
      /\ IF provider = "codex" THEN Knows(c) ELSE Heard(c)
  BY DEF CallInv, CallTypeOK
<1>3. PICK k : k = IF provider = "codex" THEN Poll(c) ELSE c
  OBVIOUS
<1>4. /\ k \in CollectorType /\ (IF provider = "codex" THEN Knows(k) ELSE Heard(k))
      /\ provider = "codex" /\ k.current # None => k.offset = Len(Rollout(k.current))
  <2>1. CASE provider = "codex"
    <3>1. /\ Poll(c) \in CollectorType /\ Knows(Poll(c)) /\ Poll(c).current = c.current
          /\ c.current # None => Poll(c).offset = Len(Rollout(c.current))
      BY <1>2, <2>1, PollKnows
    <3>2. k = Poll(c)
      BY <1>3, <2>1
    <3> QED BY <2>1, <3>1, <3>2
  <2>2. CASE provider # "codex"
    BY <1>2, <1>3, <2>2
  <2> QED BY <2>1, <2>2
<1>5. /\ c' = k
      /\ answer' = IF provider = "codex" THEN Final(k) ELSE ClaudeAnswer(k, timedOut)
      /\ failure' = IF provider = "codex" THEN Failed(k, timedOut) ELSE ClaudeFailure(k, timedOut)
      /\ tokens' = IF provider = "codex" THEN Usage(k) ELSE 0
  BY <1>3 DEF Finish
<1>6. SaidInv' /\ IF provider' = "codex" THEN Knows(c)' ELSE Heard(c)'
  BY <1>1, <1>4, <1>5, CollectorStep
<1>7. UNCHANGED <<provider, start, said, written, torn>>
  BY <1>1 DEF AdapterFrame
<1>8. exit' \in {"ok", "failed"}
  BY <1>1, <1>2
<1>9. CallTypeOK'
  BY <1>1, <1>4, <1>5, <1>7, <1>8 DEF CallInv, CallTypeOK
<1>10. Reported'
  <2>1. exit' # None
    BY <1>8 DEF None
  <2>2. CASE provider = "codex"
    <3>1. answer' = Final(k) /\ failure' = Failed(k, timedOut) /\ tokens' = Usage(k)
      BY <1>5, <2>2
    <3>2. answer' \notin {None, MadeUp} => failure' = None
      BY <3>1 DEF Failed, Final
    <3>3. (Rollout(c.current))' = Rollout(k.current)
      BY <1>5, <1>7 DEF Rollout, Announced
    <3>4. Final(c)' = Final(k) /\ Usage(c)' = Usage(k)
      BY <1>5, <3>3 DEF Final, FinalText, Usage
    <3>5. c'.current # None => c'.offset = Len((Rollout(c.current))')
      BY <1>4, <1>5, <2>2, <3>3
    <3> QED BY <1>1, <1>7, <2>1, <2>2, <3>1, <3>2, <3>4, <3>5 DEF Reported
  <2>3. CASE provider # "codex"
    <3>1. answer' = ClaudeAnswer(k, timedOut) /\ failure' = ClaudeFailure(k, timedOut)
      BY <1>5, <2>3
    <3>2. /\ answer' # None => ~timedOut /\ exit = "ok" /\ k.result = "result"
          /\ answer' # MadeUp
      BY <3>1 DEF ClaudeAnswer, ResultText, MadeUp, None
    <3>3. answer' # None => failure' = None
      BY <3>1, <3>2 DEF ClaudeFailure, None
    <3> QED BY <1>1, <1>5, <1>7, <2>1, <2>3, <3>2, <3>3 DEF Reported
  <2> QED BY <2>2, <2>3
<1> QED BY <1>6, <1>9, <1>10 DEF CallInv

-----------------------------------------------------------------------------
(* As long as Codex' collector has no answer, none was read. *)
ReadInv == provider = "codex" /\ c.final = None => \A i \in 1 .. read : ~Concludes(said[i])

(* A line never takes an answer away, and one that is an answer is kept. *)
LEMMA FinalKept ==
  ASSUME NEW k \in CollectorType, NEW l \in LineType,
         l.kind = "text" => l.msg \in Messages
  PROVE  /\ Poll(k).final = k.final
         /\ FromStdout(k, l).final = None => k.final = None /\ ~Concludes(l)
<1>2. \A msgs : Shown(k, msgs) \in CollectorType /\ Shown(k, msgs).final = k.final
  <2>1. ASSUME NEW msgs PROVE Shown(k, msgs) \in CollectorType /\ Shown(k, msgs).final = k.final
    <3>1. PICK m : m = msgs
      OBVIOUS
    <3>2. /\ Shown(k, m) \in CollectorType
          /\ Shown(k, m) = [k EXCEPT !.shown = Shown(k, m).shown]
      BY ShownFields
    <3> QED BY <3>1, <3>2 DEF CollectorType
  <2> QED BY <2>1
<1>3. Poll(k).final = k.final
  <2> DEFINE file == Rollout(k.current)
             new == {file[i] : i \in k.offset + 1 .. Len(file)}
             terminal == Terminal(file, k.offset)
  <2>1. CASE k.current # None
    <3>1. PICK p : p = Shown(k, {l2.msg : l2 \in {r \in new : r.phase = "commentary"}})
      OBVIOUS
    <3>2. p \in CollectorType /\ p.final = k.final
      BY <1>2, <3>1
    <3>3. Poll(k) = [p EXCEPT !.offset = Scanned(file),
                              !.terminal = IF terminal = None THEN @ ELSE terminal,
                              !.ready = @ \/ terminal # None \/ \E l2 \in new : l2.kind = "text"]
      BY <2>1, <3>1 DEF Poll
    <3> HIDE DEF file, new, terminal
    <3> QED BY <3>2, <3>3 DEF CollectorType
  <2>2. CASE k.current = None
    BY <2>2 DEF Poll
  <2> QED BY <2>1, <2>2
<1>4. Flushed(k) \in CollectorType /\ Flushed(k).final = k.final
  BY <1>2 DEF Flushed, CollectorType
<1>5. CASE l.kind = "text"
  <2>1. FromStdout(k, l) = [Captured(k, l) EXCEPT !.ready = TRUE]
    BY <1>5 DEF FromStdout
  <2>2. Captured(k, l) \in CollectorType
        /\ (Captured(k, l).final = None => k.final = None /\ ~Concludes(l))
    <3>1. CASE l.phase = "commentary"
      <4>1. Captured(k, l) = Shown(k, {l.msg}) /\ ~Concludes(l)
        BY <3>1 DEF Captured, Concludes
      <4> QED BY <1>2, <4>1
    <3>2. CASE l.phase # "commentary" /\ (l.phase = "final_answer" \/ l.msg = "decision")
      <4>1. Captured(k, l) = [k EXCEPT !.final = l.msg]
        BY <3>2 DEF Captured
      <4>2. l.msg \in Messages /\ l.msg # None
        BY <1>5 DEF Messages, None
      <4> QED BY <4>1, <4>2 DEF CollectorType
    <3>3. CASE l.phase # "commentary" /\ ~(l.phase = "final_answer" \/ l.msg = "decision")
      <4>1. Captured(k, l) = [k EXCEPT !.pending = l.msg] /\ ~Concludes(l)
        BY <3>3 DEF Captured, Concludes
      <4> QED BY <1>5, <4>1 DEF CollectorType
    <3> QED BY <3>1, <3>2, <3>3
  <2> QED BY <1>3, <2>1, <2>2 DEF CollectorType
<1>6. CASE l.kind # "text"
  <2>1. ~Concludes(l)
    BY <1>6 DEF Concludes
  <2>2. FromStdout(k, l).final = k.final
    <3>1. PICK f : f = Flushed(k) /\ f \in CollectorType /\ f.final = k.final
      BY <1>4
    <3>2. \/ FromStdout(k, l) = InSession(k, Announced)
          \/ FromStdout(k, l) = [f EXCEPT !.ready = TRUE]
          \/ FromStdout(k, l) = f
          \/ FromStdout(k, l) = [f EXCEPT !.failure = "upstream"]
          \/ FromStdout(k, l) = k
      BY <1>6, <3>1 DEF FromStdout
    <3>3. InSession(k, Announced).final = k.final
      BY DEF InSession, CollectorType
    <3> QED BY <3>1, <3>2, <3>3 DEF CollectorType
  <2> QED BY <1>3, <2>1, <2>2
<1> QED BY <1>5, <1>6

LEMMA ReadNextInv == CallInv /\ ReadInv /\ [Next]_callVars => ReadInv'
<1> SUFFICES ASSUME CallInv, ReadInv, [Next]_callVars PROVE ReadInv'
  OBVIOUS
<1>0. provider' = provider
  <2>1. Ends \/ TimesOut => AdapterFrame
    BY DEF Ends, TimesOut, Finish
  <2>2. Says \/ Records \/ Exits => CliFrame
    BY DEF Says, Records, Exits
  <2>3. Reads \/ ReadsAgain \/ Ticks => AdapterFrame
    BY DEF Reads, ReadsAgain, Ticks
  <2>4. CliFrame \/ AdapterFrame \/ UNCHANGED callVars
    BY <2>1, <2>2, <2>3 DEF Next
  <2> QED BY <2>4 DEF CliFrame, AdapterFrame, callVars
<1> SUFFICES ASSUME provider = "codex" PROVE ReadInv'
  BY <1>0 DEF ReadInv
<1>1. /\ said \in Seq(LineType) /\ DOMAIN said = 1 .. Len(said) /\ Len(said) \in Nat
      /\ read \in 0 .. Len(said) /\ c \in CollectorType /\ SaidInv
  BY DEF CallInv, CallTypeOK
<1>2. CASE Says
  <2>1. PICK l : said' = Append(said, l)
    BY <1>2 DEF Says
  <2>2. UNCHANGED <<c, read, provider>>
    BY <1>2 DEF Says, CliFrame
  <2>3. \A i \in 1 .. read : said'[i] = said[i]
    BY <1>1, <2>1
  <2> QED BY <2>2, <2>3 DEF ReadInv, Concludes
<1>3. CASE Reads
  <2>1. /\ read + 1 \in DOMAIN said /\ read' = read + 1 /\ UNCHANGED <<said, provider>>
        /\ read \in Nat
    BY <1>1, <1>3 DEF Reads, AdapterFrame
  <2>2. PICK l \in LineType : l = said[read + 1]
    BY <1>1, <2>1
  <2>3. l.kind = "text" => l.msg \in Messages
    BY <2>1, <2>2, <1>1 DEF SaidInv
  <2>4. PICK f : f = FromStdout(c, l) /\ f \in CollectorType
    <3>1. FromStdout(c, said[read + 1]) \in CollectorType
      BY <1>1, <2>1, StdoutKnows DEF CallInv, CallTypeOK
    <3> QED BY <2>2, <3>1
  <2>5. c' = Poll(f)
    BY <1>3, <2>2, <2>4 DEF Reads
  <2>6. c'.final = None => c.final = None /\ ~Concludes(l)
    <3>1. f.final = None => c.final = None /\ ~Concludes(l)
      BY <1>1, <2>3, <2>4, FinalKept
    <3>2. Poll(f).final = f.final
      BY <2>3, <2>4, FinalKept
    <3> QED BY <2>5, <3>1, <3>2
  <2>7. ASSUME c'.final = None, NEW i \in 1 .. read + 1 PROVE ~Concludes(said[i])
    <3>1. CASE i = read + 1
      BY <2>2, <2>6, <2>7, <3>1
    <3>2. CASE i # read + 1
      <4>1. i \in 1 .. read
        BY <2>1, <3>2
      <4> QED BY <2>6, <2>7, <4>1 DEF ReadInv
    <3> QED BY <3>1, <3>2
  <2> QED BY <2>1, <2>7 DEF ReadInv, Concludes
<1>4. CASE Ticks \/ Ends \/ TimesOut
  <2>1. UNCHANGED <<said, read, provider>>
    BY <1>4 DEF Ticks, Ends, TimesOut, Finish, AdapterFrame
  <2>2. PICK k \in CollectorType : c' = Poll(k) /\ k.final = c.final
    <3>1. CASE Ticks
      <4>1. PICK f \in {c.failure, "upstream"} : c' = Poll([c EXCEPT !.failure = f])
        BY <3>1 DEF Ticks
      <4>2. PICK k : k = [c EXCEPT !.failure = f]
        OBVIOUS
      <4>3. k \in CollectorType /\ k.final = c.final
        BY <1>1, <4>2 DEF CollectorType
      <4> QED BY <4>1, <4>2, <4>3
    <3>2. CASE Ends \/ TimesOut
      <4>1. c' = Poll(c)
        BY <3>2 DEF Ends, TimesOut, Finish
      <4> QED BY <1>1, <4>1
    <3> QED BY <1>4, <3>1, <3>2
  <2>3. c'.final = c.final
    <3>1. Line("tool") \in LineType /\ Line("tool").kind # "text"
      BY DEF Line, LineType, Kinds, Phases
    <3> QED BY <2>2, <3>1, FinalKept
  <2> QED BY <2>1, <2>3 DEF ReadInv, Concludes
<1>5. CASE Records \/ Exits \/ UNCHANGED callVars
  <2>1. UNCHANGED <<c, said, read, provider>>
    BY <1>5 DEF Records, Exits, CliFrame, callVars
  <2> QED BY <2>1 DEF ReadInv, Concludes
<1>6. CASE ReadsAgain
  BY <1>6 DEF ReadsAgain
<1> QED BY <1>2, <1>3, <1>4, <1>5, <1>6 DEF Next

-----------------------------------------------------------------------------
(* What the invariant says of the report *)

LEMMA InvReports == CallInv /\ ReadInv => CallReportedTruly
<1> SUFFICES ASSUME CallInv, ReadInv PROVE CallReportedTruly
  OBVIOUS
<1>1. /\ said \in Seq(LineType) /\ DOMAIN said = 1 .. Len(said) /\ Len(said) \in Nat
      /\ written \in 0 .. Len(said) /\ provider \in {"codex", "claude"}
      /\ stage \in {"reading", "done"} /\ c \in CollectorType /\ SaidInv /\ Reported
      /\ provider = "codex" => Knows(c)
      /\ provider # "codex" => Heard(c)
  BY DEF CallInv, CallTypeOK
<1>2. AnswerOfThisCall
  <2>1. ASSUME answer \notin {None, MadeUp}
        PROVE  failure = None /\ c.ready
               /\ IF provider = "codex" THEN Own(answer) ELSE c.result = "result"
    <3>1. stage = "done"
      BY <1>1, <2>1 DEF Reported
    <3>2. CASE provider = "codex"
      <4>1. answer = Final(c) /\ failure = None
        BY <1>1, <2>1, <3>1, <3>2 DEF Reported
      <4>2. answer \in {c.final, c.pending, c.terminal} \ {None}
        BY <2>1, <4>1 DEF Final, FinalText
      <4> QED BY <1>1, <3>2, <4>1, <4>2 DEF Knows
    <3>3. CASE provider # "codex"
      BY <1>1, <2>1, <3>1, <3>3 DEF Reported, Heard
    <3> QED BY <3>2, <3>3
  <2>2. ASSUME answer = MadeUp PROVE \A i \in 1 .. read : ~Concludes(said[i])
    <3>1. stage = "done" /\ provider = "codex" /\ answer = Final(c)
      BY <1>1, <2>2 DEF Reported, None, MadeUp
    <3>2. MadeUp \notin Messages
      BY DEF MadeUp, Messages
    <3>3. c.terminal # MadeUp /\ c.pending # MadeUp /\ c.final # MadeUp
      BY <1>1, <3>2 DEF CollectorType, None, MadeUp
    <3>4. c.final = None
      BY <2>2, <3>1, <3>3 DEF Final, FinalText
    <3> QED BY <3>1, <3>4 DEF ReadInv
  <2> QED BY <2>1, <2>2 DEF AnswerOfThisCall
<1>3. ASSUME stage = "done", provider = "codex", c.current = Announced
      PROVE  /\ c.offset = Before(c.current) + written
             /\ Len(Rollout(c.current)) = Before(c.current) + written
             /\ c.baseline = Before(c.current) /\ Before(c.current) \in Nat
  <2>1. Announced # None /\ Before(c.current) \in Nat
    BY DEF Announced, None, Before
  <2>2. c.offset = Len(Rollout(c.current))
    BY <1>1, <1>3, <2>1 DEF Reported
  <2>3. Len(Rollout(c.current)) = Before(c.current) + (IF c.current = Announced THEN written ELSE 0)
    BY <1>1, RolloutShape, Zenon
  <2> QED BY <1>1, <1>3, <2>1, <2>2, <2>3 DEF Knows
<1>4. RolloutDecides
  <2> DEFINE file == SubSeq(said, 1, written)
  <2> SUFFICES ASSUME stage = "done", provider = "codex", c.current = Announced,
                      file # <<>>, Last(file).kind = "complete", LastText(file) # None
               PROVE  answer = LastText(file)
    BY DEF RolloutDecides
  <2>1. PICK w \in Nat : w = written /\ w <= Len(said)
    BY <1>1
  <2>2. w # 0 /\ Last(file) = said[w] /\ w \in DOMAIN said
    <3>1. PICK x : x = file
      OBVIOUS
    <3>2. Len(x) = w /\ \A i \in 1 .. w : x[i] = said[i]
      BY <1>1, <2>1, <3>1
    <3>3. w # 0
      <4>1. w = 0 => x = << >>
        BY <1>1, <2>1, <3>1
      <4> QED BY <3>1, <4>1
    <3> QED BY <1>1, <2>1, <3>1, <3>2, <3>3 DEF Last
  <2>3. w = Len(said) /\ said[w].msg = LastText(said)
    BY <1>1, <2>2 DEF SaidInv
  <2>4. file = said
    BY <1>1, <2>1, <2>3
  <2>5. Last(said) = said[Len(said)]
    BY DEF Last
  <2>6. c.offset = Before(c.current) + Len(said)
    BY <1>3, <2>1, <2>3
  <2> HIDE DEF file
  <2>7. Last(said).kind = "complete" /\ Last(said).msg = LastText(said) /\ LastText(said) # None
    BY <2>2, <2>3, <2>4, <2>5
  <2>8. c.terminal = LastText(said)
    BY <1>1, <2>6, <2>7 DEF Knows
  <2>9. answer = Final(c)
    BY <1>1 DEF Reported
  <2> QED BY <2>4, <2>7, <2>8, <2>9 DEF Final, FinalText
<1>5. UsageOfThisCall
  <2> SUFFICES ASSUME stage = "done", provider = "codex", c.current = Announced
               PROVE  tokens = written
    BY DEF UsageOfThisCall
  <2>1. tokens = Len(Rollout(c.current)) - c.baseline
    BY <1>1 DEF Reported, Usage, Announced, None
  <2> QED BY <1>1, <1>3, <2>1
<1>6. ShownAsSaid
  <2>1. ASSUME NEW msg \in Messages
        PROVE  c.shown[msg] <=
                 Cardinality({i \in DOMAIN said : said[i].kind = "text" /\ said[i].msg = msg})
    <3> DEFINE times == {i \in DOMAIN said : said[i].kind = "text" /\ said[i].msg = msg}
    <3>1. IsFiniteSet(times) /\ Cardinality(times) \in Nat
      BY <1>1, SawIsFinite
    <3>2. CASE provider = "codex"
      <4>1. c.shown[msg] = 0 \/ (c.shown[msg] = 1 /\ Own(msg))
        BY <1>1, <3>2 DEF Knows
      <4>2. Own(msg) => Cardinality(times) # 0
        BY <3>1, FS_EmptySet DEF Own
      <4> HIDE DEF times
      <4> QED BY <3>1, <4>1, <4>2 DEF times
    <3>3. CASE provider # "codex"
      <4>1. Saw(c, msg) \subseteq times
        BY <1>1, <3>3 DEF Heard, Saw
      <4>2. Cardinality(Saw(c, msg)) <= Cardinality(times) /\ Cardinality(Saw(c, msg)) \in Nat
        BY <3>1, <4>1, FS_Subset, FS_CardinalityType
      <4>3. c.shown[msg] \in Nat /\ c.shown[msg] <= Cardinality(Saw(c, msg))
        BY <1>1, <3>3 DEF Heard, CollectorType
      <4> HIDE DEF times
      <4> QED BY <3>1, <4>2, <4>3 DEF times
    <3> QED BY <3>2, <3>3
  <2>2. c.ready => Active
    BY <1>1 DEF Knows, Heard
  <2> QED BY <2>1, <2>2 DEF ShownAsSaid, Active
<1> QED BY <1>2, <1>4, <1>5, <1>6 DEF CallReportedTruly

(* What one call tells its turn is what its agent did in this very call:    *)
(* the answer is a text that was said and not one of an earlier call of the *)
(* session, or a made-up one where no answer was read, the completion in    *)
(* the rollout decides over what stdout said, the usage is counted from     *)
(* where the call began, and nothing is shown twice, for calls and rollouts *)
(* of any length, however the lines, the records, the ticks, the repeated   *)
(* lines, the timeout and the end of the process interleave.                *)
THEOREM CallIsReportedTruly == Spec => []CallReportedTruly
<1>1. CallInv /\ [Next]_callVars => CallInv'
  <2> SUFFICES ASSUME CallInv, [Next]_callVars PROVE CallInv'
    OBVIOUS
  <2>1. CASE Says
    BY <2>1, SaysInv
  <2>2. CASE Records
    BY <2>2, RecordsInv
  <2>3. CASE Exits
    BY <2>3, ExitsInv
  <2>4. CASE Reads \/ ReadsAgain \/ Ticks
    BY <2>4, LoopInv
  <2>5. CASE Ends \/ TimesOut
    BY <2>5, FinishInv
  <2>6. CASE UNCHANGED callVars
    <3>1. UNCHANGED <<provider, start, said, written, torn, exit, read, c, stage, answer,
                      failure, tokens>>
      BY <2>6 DEF callVars
    <3>2. SaidInv' /\ (Knows(c)' <=> Knows(c)) /\ (Heard(c)' <=> Heard(c))
      BY <3>1, SameCall DEF CallInv
    <3>3. CallTypeOK'
      BY <3>1 DEF CallInv, CallTypeOK
    <3>4. Final(c)' = Final(c) /\ Usage(c)' = Usage(c)
          /\ (Rollout(c.current))' = Rollout(c.current)
      BY <3>1 DEF Final, FinalText, Usage, Rollout, Announced
    <3>5. Reported'
      BY <3>1, <3>4 DEF CallInv, Reported
    <3> QED BY <3>1, <3>2, <3>3, <3>5 DEF CallInv
  <2> QED BY <2>1, <2>2, <2>3, <2>4, <2>5, <2>6 DEF Next
<1>2. Init => ReadInv
  BY DEF Init, ReadInv
<1> QED BY <1>1, <1>2, CallInit, ReadNextInv, InvReports, PTL DEF Spec

=============================================================================
