----------------------------- MODULE Collector -----------------------------
(* How one call of an agent's command line becomes the events of a turn.    *)
(* The CLI prints lines; Codex also appends records to a rollout file, at a *)
(* pace of its own and after what earlier calls of the session left there,  *)
(* and its stdout does not say reliably which text is the answer.  Claude   *)
(* prints a result, and may repeat lines.  Texts are "prose", a "milestone" *)
(* or a bare "decision"; what the wording is does not matter here.          *)
EXTENDS Integers, Sequences, FiniteSets, SequencesExt

CONSTANTS MaxSaid,     \* lines of a call, its session's included
          CodexTexts   \* what Codex may say, as <<text, phase>>

VARIABLES provider, start,          \* "codex" or "claude"; a new, resumed or forked session
          said, written, torn,      \* the CLI's lines, those recorded, a half-written record
          exit,                     \* how the CLI ended
          read, c, stage,           \* lines read, the collector, the adapter's loop
          answer, failure, tokens   \* the final and the usage event

callVars == <<provider, start, said, written, torn, exit, read, c, stage, answer, failure, tokens>>

None == "none"
Messages == {"prose", "milestone", "decision"}
Phases == {"", "commentary", "final_answer"}

ASSUME CollectorAssumption == MaxSaid \in Nat /\ CodexTexts \subseteq Messages \X Phases

Text(msg, phase) == [kind |-> "text", msg |-> msg, phase |-> phase]
Line(kind) == [kind |-> kind, msg |-> None, phase |-> ""]
Old == Text("old", "final_answer")     \* what an earlier call of the session recorded

LastText(ls) == LET texts == {i \in DOMAIN ls : ls[i].kind = "text"}
                IN IF texts = {} THEN None ELSE ls[Max(texts)].msg

(* What a CLI can say after its session: assistant text, a step of work, a  *)
(* warning or a reconnect notice, and at the end the completion of the task *)
(* with its last message, or the result.  Claude has no phases, and nested  *)
(* agents.                                                                  *)
Lines(p) ==
  IF p = "codex"
  THEN {Text(t[1], t[2]) : t \in CodexTexts}
         \cup {Line("tool"), Line("warning"), Line("reconnect"),
                [Line("complete") EXCEPT !.msg = LastText(said)]}
  ELSE {Text(msg, "") : msg \in Messages}
         \cup {Line(kind) : kind \in {"tool", "nested", "result", "error", "invalid"}}

Closing == {"complete", "result", "error", "invalid"}

Announced == IF start = "resumed" THEN "old" ELSE "new"

(* The rollout of a session: one record per line that was recorded. *)
Rollout(s) == (IF s = "old" THEN <<Old>> ELSE <<>>)
              \o (IF s = Announced THEN SubSeq(said, 1, written) ELSE <<>>)

Fresh == [current |-> None, offset |-> 0, baseline |-> 0, ready |-> FALSE, final |-> None,
          pending |-> None, terminal |-> None, failure |-> None, seen |-> {}, result |-> None,
          shown |-> [msg \in Messages |-> 0]]

(* prime_rollout_offset: what the file holds already is not of this call. *)
Prime(k) == [k EXCEPT !.offset = Len(Rollout(k.current)), !.baseline = Len(Rollout(k.current))]

Init ==
  /\ provider \in {"codex", "claude"} /\ start \in {"new", "resumed", "forked"}
  /\ said = <<Line("session")>> /\ written = 0 /\ torn = FALSE /\ exit = None
  /\ read = 0 /\ stage = "reading"
  /\ c = (IF start = "new" THEN Fresh ELSE Prime([Fresh EXCEPT !.current = "old"]))
  /\ answer = None /\ failure = None /\ tokens = 0

-----------------------------------------------------------------------------
(* The CLI *)
CliFrame == UNCHANGED <<provider, start, read, c, stage, answer, failure, tokens>>

Says ==
  /\ exit = None /\ Len(said) < MaxSaid /\ Last(said).kind \notin Closing
  /\ \E l \in Lines(provider) : said' = Append(said, l)
  /\ CliFrame /\ UNCHANGED <<written, torn, exit>>

(* A record is complete, or half of it is there. *)
Records ==
  /\ provider = "codex" /\ exit = None /\ written < Len(said)
  /\ \/ torn' = FALSE /\ written' = written + 1
     \/ torn' = TRUE /\ ~torn /\ UNCHANGED written
  /\ CliFrame /\ UNCHANGED <<said, exit>>

(* It ends by itself, or is lost, and may leave records unwritten. *)
Exits ==
  /\ exit = None
  /\ exit' \in {"ok", "failed"}
  /\ CliFrame /\ UNCHANGED <<said, written, torn>>

-----------------------------------------------------------------------------
(* The Codex collector *)
(* How often each message was shown as an intermediate output: a bare       *)
(* decision is not, and neither is what was shown already at its level.     *)
Shown(k, msgs) ==
  [k EXCEPT !.shown = [msg \in Messages |->
     IF k.shown[msg] = 0 /\ msg \in msgs \ {"decision"} THEN 1 ELSE k.shown[msg]]]

(* Unphased text stays pending until the next line tells what it was. *)
Captured(k, l) ==
  IF l.phase = "commentary" THEN Shown(k, {l.msg})
  ELSE IF l.phase = "final_answer" \/ l.msg = "decision" THEN [k EXCEPT !.final = l.msg]
  ELSE [k EXCEPT !.pending = l.msg]

(* Work that goes on shows that the pending text was not the answer. *)
Flushed(k) == [Shown(k, {k.pending}) EXCEPT !.pending = None]

(* Another session: what was read of the old one's rollout does not count. *)
InSession(k, s) ==
  IF s = k.current THEN k
  ELSE [k EXCEPT !.current = s, !.offset = 0, !.baseline = 0, !.terminal = None]

FromStdout(k, l) ==
  CASE l.kind = "session"   -> InSession(k, Announced)
    [] l.kind = "text"      -> [Captured(k, l) EXCEPT !.ready = TRUE]
    [] l.kind = "tool"      -> [Flushed(k) EXCEPT !.ready = TRUE]
    [] l.kind = "warning"   -> Flushed(k)
    [] l.kind = "reconnect" -> [Flushed(k) EXCEPT !.failure = "upstream"]
    [] OTHER                -> k       \* a completion is only in the rollout

(* The terminal text of the records after an offset: the completion's last  *)
(* message, or else the first final answer among them.                      *)
Terminal(file, offset) ==
  LET new == offset + 1 .. Len(file)
      finals == {i \in new : file[i].phase = "final_answer"}
  IN IF new # {} /\ Last(file).kind = "complete" /\ Last(file).msg # None THEN Last(file).msg
     ELSE IF finals = {} THEN None ELSE file[Min(finals)].msg

ScannedPastTorn(file) == Len(file) + IF torn THEN 1 ELSE 0

(* A record without its end is read again with the next poll. *)
Scanned(file) == Len(file)

Poll(k) ==
  IF k.current = None THEN k
  ELSE LET file == Rollout(k.current)
           new == {file[i] : i \in k.offset + 1 .. Len(file)}
           terminal == Terminal(file, k.offset)
       IN [Shown(k, {l.msg : l \in {r \in new : r.phase = "commentary"}}) EXCEPT
             !.offset = Scanned(file),
             !.terminal = IF terminal = None THEN @ ELSE terminal,
             !.ready = @ \/ terminal # None \/ \E l \in new : l.kind = "text"]

(* The rollout is the authority, then the text that nothing followed. *)
FinalText(k) ==
  IF k.terminal # None THEN k.terminal ELSE IF k.pending # None THEN k.pending ELSE k.final

MadeUp == "made up"

(* The final event always has a text.  Where there is none it says so, with *)
(* a failure if a status or the timeout is known, or else without.          *)
Final(k) == IF FinalText(k) # None THEN FinalText(k) ELSE MadeUp

Failed(k, timedOut) ==
  IF FinalText(k) # None THEN None ELSE IF timedOut THEN "timeout" ELSE k.failure

Usage(k) == IF k.current = None THEN 0 ELSE Len(Rollout(k.current)) - k.baseline

-----------------------------------------------------------------------------
(* The Claude collector.  A message is known by its id, and a nested agent  *)
(* is not the role; only the result is the answer.                          *)
FromClaude(k, i) ==
  LET l == said[i]
      id == [k EXCEPT !.ready = TRUE, !.seen = @ \cup {i}]
  IN IF l.kind = "nested" \/ i \in k.seen THEN k
     ELSE CASE l.kind = "session" -> [k EXCEPT !.current = Announced]
            [] l.kind = "tool" -> id
            [] l.kind = "text" -> IF l.msg = "decision" THEN id
                                  ELSE [id EXCEPT !.shown[l.msg] = @ + 1]
            [] OTHER -> [k EXCEPT !.ready = TRUE, !.result = l.kind]

ResultText == "answer"

ClaudeAnswer(k, timedOut) ==
  IF ~timedOut /\ exit = "ok" /\ k.result = "result" THEN ResultText ELSE None

ClaudeFailure(k, timedOut) ==
  IF timedOut THEN "timeout"
  ELSE IF exit # "ok" \/ k.result \in {None, "error"} THEN "upstream"
  ELSE IF k.result = "invalid" THEN "invalid" ELSE None

-----------------------------------------------------------------------------
(* The adapter's loop *)
AdapterFrame == UNCHANGED <<provider, start, said, written, torn>>

Reads ==
  /\ stage = "reading" /\ read < Len(said)
  /\ read' = read + 1
  /\ c' = IF provider = "codex" THEN Poll(FromStdout(c, said[read + 1]))
                                ELSE FromClaude(c, read + 1)
  /\ AdapterFrame /\ UNCHANGED <<exit, stage, answer, failure, tokens>>

(* After a reconnect the CLI may print a message again. *)
ReadsAgain ==
  /\ provider = "claude" /\ stage = "reading" /\ exit = None
  /\ \E i \in 1 .. read : c' = FromClaude(c, i)
  /\ AdapterFrame /\ UNCHANGED <<exit, read, stage, answer, failure, tokens>>

(* A tick or a line of stderr, which may name an upstream status *)
Ticks ==
  /\ provider = "codex" /\ stage = "reading"
  /\ \E f \in {c.failure, "upstream"} : c' = Poll([c EXCEPT !.failure = f])
  /\ AdapterFrame /\ UNCHANGED <<exit, read, stage, answer, failure, tokens>>

Finish(timedOut) ==
  /\ stage' = "done"
  /\ exit' = IF exit = None THEN "failed" ELSE exit
  /\ LET k == IF provider = "codex" THEN Poll(c) ELSE c
         codex == provider = "codex"
     IN /\ c' = k
        /\ answer' = IF codex THEN Final(k) ELSE ClaudeAnswer(k, timedOut)
        /\ failure' = IF codex THEN Failed(k, timedOut) ELSE ClaudeFailure(k, timedOut)
        /\ tokens' = IF codex THEN Usage(k) ELSE 0
  /\ AdapterFrame /\ UNCHANGED read

(* The output has ended; Codex may have completed its rollout after it. *)
Ends == stage = "reading" /\ exit # None /\ read = Len(said) /\ Finish(FALSE)

TimesOut == stage = "reading" /\ Finish(TRUE)

Next == Says \/ Records \/ Exits \/ Reads \/ ReadsAgain \/ Ticks \/ Ends \/ TimesOut

Spec == Init /\ [][Next]_callVars

-----------------------------------------------------------------------------
Own(msg) == \E i \in DOMAIN said : said[i].kind = "text" /\ said[i].msg = msg

(* A line that is an answer whatever follows *)
Concludes(l) ==
  l.kind = "text" /\ (l.phase = "final_answer" \/ (l.msg = "decision" /\ l.phase # "commentary"))

(* An answer is a text of this call, comes from a role that was announced   *)
(* as ready and carries no failure; a text is made up only where no answer  *)
(* was read.                                                                *)
AnswerOfThisCall ==
  /\ answer \notin {None, MadeUp} =>
       /\ failure = None /\ c.ready
       /\ IF provider = "codex" THEN Own(answer) ELSE c.result = "result"
  /\ answer = MadeUp => \A i \in 1 .. read : ~Concludes(said[i])

(* "the rollout is the durable ordering authority": once it was found, a    *)
(* completed task's last message is the answer, whatever stdout said after. *)
RolloutDecides ==
  LET file == SubSeq(said, 1, written)
  IN stage = "done" /\ provider = "codex" /\ c.current = Announced
       /\ file # <<>> /\ Last(file).kind = "complete" /\ LastText(file) # None
     => answer = LastText(file)

(* The usage of a call is what it recorded itself. *)
UsageOfThisCall ==
  stage = "done" /\ provider = "codex" /\ c.current = Announced => tokens = written

(* No message is shown more often than it was said, and a call that shows   *)
(* nothing of the role's does not make it ready.                            *)
ShownAsSaid ==
  /\ \A msg \in Messages :
       c.shown[msg] <= Cardinality({i \in DOMAIN said : said[i].kind = "text" /\ said[i].msg = msg})
  /\ c.ready => \E i \in DOMAIN said : said[i].kind \in {"text", "tool"} \cup Closing

(* What one call tells the turn is what its agent did in this very call,    *)
(* however the lines, the rollout, earlier calls of the session, repeated   *)
(* lines, a timeout and the end of the process interleave.                  *)
CallReportedTruly == AnswerOfThisCall /\ RolloutDecides /\ UsageOfThisCall /\ ShownAsSaid
=============================================================================
