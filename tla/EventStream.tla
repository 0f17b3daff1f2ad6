----------------------------- MODULE EventStream -----------------------------
(***************************************************************************)
(* Readers of a turn: TurnService.stream behind the SSE responses of       *)
(* api/conversations.py, over the turn service itself.  A reader is an     *)
(* async generator of the same event loop, so an action is what it does    *)
(* between two suspensions.                                                *)
(*                                                                         *)
(* handle.changed is replaced at each notification, so a reader cares only *)
(* whether the event object it captured has been set since: `woken`.       *)
(***************************************************************************)
EXTENDS TurnService

CONSTANTS
  Readers,
  MaxJobEvents     \* bound on the events of managed jobs in a turn

ASSUME ReadersAssumption == MaxJobEvents \in Nat

VARIABLES
  at,         \* "off", "created", "yielding", "waiting", "ended" or "raised"
  turn,       \* the turn a reader was opened for
  attached,   \* it found the turn's handle
  sent,       \* the events it has yielded, in order
  batch,      \* the events of its last read that are still to yield
  final,      \* finished_before_read
  woken,
  jobEvents   \* the events of managed jobs recorded for each turn

readerVars == <<at, turn, attached, sent, batch, final, woken>>
streamVars == <<vars, readerVars, jobEvents>>

StreamTypeOK ==
  /\ at \in [Readers -> {"off", "created", "yielding", "waiting", "ended", "raised"}]
  /\ turn \in [Readers -> Turns \cup {None}]
  /\ attached \in [Readers -> BOOLEAN] /\ final \in [Readers -> BOOLEAN]
  /\ woken \in [Readers -> BOOLEAN]
  /\ sent \in [Readers -> Seq(Events)] /\ batch \in [Readers -> Seq(Events)]
  /\ jobEvents \in [Turns -> 0 .. MaxJobEvents]

StreamInit ==
  /\ Init
  /\ at = [s \in Readers |-> "off"]
  /\ turn = [s \in Readers |-> None]
  /\ attached = [s \in Readers |-> FALSE]
  /\ sent = [s \in Readers |-> <<>>]
  /\ batch = [s \in Readers |-> <<>>]
  /\ final = [s \in Readers |-> FALSE]
  /\ woken = [s \in Readers |-> FALSE]
  /\ jobEvents = [t \in Turns |-> 0]

-----------------------------------------------------------------------------
(* The turn service notifies with each event it records and at the end of  *)
(* _run, whether the turn could be finalized or not.                       *)

Recorded(t) == Len(events'[t]) > Len(events[t])
NotifiedByEvent(t) == Recorded(t)
Notified(t) == Recorded(t) \/ (pc[t] \in Live /\ pc'[t] = "ended")

Notify(T) == woken' = [s \in Readers |-> woken[s] \/ (attached[s] /\ turn[s] \in T)]

TurnServiceStep ==
  /\ Next
  /\ Notify({t \in Turns : Notified(t)})
  /\ UNCHANGED <<at, turn, attached, sent, batch, final, jobEvents>>

RecordJobEvent(t) ==
  /\ pc[t] \in {"driving", "stopping"} /\ role[t] # NoRole
  /\ status[t] = "running"
  /\ jobEvents[t] < MaxJobEvents
  /\ jobEvents' = [jobEvents EXCEPT ![t] = @ + 1]
  /\ events' = [events EXCEPT ![t] = Append(@, <<"event", NoRole>>)]
  /\ UNCHANGED <<conversation, mode, interruptedRole, status, owner, answers, handleVars,
                 serviceVars, at, turn, attached, sent, batch, final>>

JobEventUnnotified(t) ==
  /\ RecordJobEvent(t)
  /\ UNCHANGED woken

(* The agent in the turn reports on a job through the callback of the      *)
(* Launcher (JobService.register, update): its event is committed and then *)
(* the handle notified, in one handler without an await.                   *)
JobEvent(t) ==
  /\ RecordJobEvent(t)
  /\ Notify({t})

-----------------------------------------------------------------------------
(* TurnService.stream *)

Raises(s) ==
  /\ at' = [at EXCEPT ![s] = "raised"]
  /\ UNCHANGED <<turn, attached, sent, batch, final, woken>>

(* What follows a batch that has been yielded whole, short of another read *)
Returns(s, hasHandle) ==
  /\ at' = [at EXCEPT ![s] =
       IF \/ hasHandle /\ error[turn[s]]
          \/ ~hasHandle /\ status[turn[s]] \in {"running", "deleted"}
       THEN "raised" ELSE "ended"]

(* Capture `changed`, see whether the producer has finished, read, and     *)
(* yield the first new event or wait.  Nothing is suspended in between, so *)
(* a read without news is followed by a wait or by the end.                *)
Read(s, hasHandle) ==
  LET t == turn[s]
      finished == ~hasHandle \/ pc[t] = "ended"
      news == SubSeq(events[t], Len(sent[s]) + 1, Len(events[t]))
  IN
  IF status[t] = "deleted" THEN Raises(s)
  ELSE
  /\ woken' = [woken EXCEPT ![s] = FALSE]
  /\ final' = [final EXCEPT ![s] = finished]
  /\ attached' = [attached EXCEPT ![s] = hasHandle]
  /\ IF news # <<>>
     THEN /\ at' = [at EXCEPT ![s] = "yielding"]
          /\ sent' = [sent EXCEPT ![s] = Append(@, Head(news))]
          /\ batch' = [batch EXCEPT ![s] = Tail(news)]
     ELSE /\ IF finished THEN Returns(s, hasHandle) ELSE at' = [at EXCEPT ![s] = "waiting"]
          /\ UNCHANGED <<sent, batch>>
  /\ UNCHANGED turn

(* send and reconnect open a reader for the current handle; the generator  *)
(* starts when the response is sent, and finds out then whether the turn   *)
(* still has its handle.                                                   *)
Subscribe(s, t) ==
  /\ at[s] = "off"
  /\ owner[t] # None
  /\ active[owner[t]] = t
  /\ at' = [at EXCEPT ![s] = "created"]
  /\ turn' = [turn EXCEPT ![s] = t]
  /\ UNCHANGED <<vars, attached, sent, batch, final, woken, jobEvents>>

OpenDetached(s) ==
  /\ at[s] = "created"
  /\ Read(s, FALSE)
  /\ UNCHANGED <<vars, jobEvents>>

Open(s) ==
  /\ at[s] = "created"
  /\ Read(s, active[owner[turn[s]]] = turn[s])
  /\ UNCHANGED <<vars, jobEvents>>

YieldNext(s) ==
  /\ sent' = [sent EXCEPT ![s] = Append(@, Head(batch[s]))]
  /\ batch' = [batch EXCEPT ![s] = Tail(@)]
  /\ UNCHANGED <<at, turn, attached, final, woken>>

ResumeFinishedNow(s) ==
  /\ at[s] = "yielding"
  /\ IF batch[s] # <<>> THEN YieldNext(s)
     ELSE IF ~attached[s] \/ pc[turn[s]] = "ended"
     THEN Returns(s, attached[s]) /\ UNCHANGED <<turn, attached, sent, batch, final, woken>>
     ELSE IF woken[s] THEN Read(s, attached[s])
     ELSE at' = [at EXCEPT ![s] = "waiting"] /\ UNCHANGED <<turn, attached, sent, batch, final, woken>>
  /\ UNCHANGED <<vars, jobEvents>>

(* The consumer asks for the next event.  "Yielding gives the producer     *)
(* time to commit more events": the end is decided by what was seen before *)
(* the read.                                                               *)
Resume(s) ==
  /\ at[s] = "yielding"
  /\ IF batch[s] # <<>> THEN YieldNext(s)
     ELSE IF final[s]
     THEN Returns(s, attached[s]) /\ UNCHANGED <<turn, attached, sent, batch, final, woken>>
     ELSE IF woken[s] THEN Read(s, attached[s])
     ELSE at' = [at EXCEPT ![s] = "waiting"] /\ UNCHANGED <<turn, attached, sent, batch, final, woken>>
  /\ UNCHANGED <<vars, jobEvents>>

Wake(s) ==
  /\ at[s] = "waiting"
  /\ woken[s]
  /\ Read(s, attached[s])
  /\ UNCHANGED <<vars, jobEvents>>

(* The client goes away, or takes the end of its stream; it may come back  *)
(* and then reads the whole turn again.                                    *)
Disconnect(s) ==
  /\ at[s] # "off"
  /\ at' = [at EXCEPT ![s] = "off"]
  /\ turn' = [turn EXCEPT ![s] = None]
  /\ attached' = [attached EXCEPT ![s] = FALSE]
  /\ sent' = [sent EXCEPT ![s] = <<>>]
  /\ batch' = [batch EXCEPT ![s] = <<>>]
  /\ final' = [final EXCEPT ![s] = FALSE]
  /\ woken' = [woken EXCEPT ![s] = FALSE]
  /\ UNCHANGED <<vars, jobEvents>>

ReaderStep(s) == Open(s) \/ Resume(s) \/ Wake(s)

StreamNext ==
  \/ TurnServiceStep
  \/ \E t \in Turns : JobEvent(t)
  \/ \E s \in Readers : ReaderStep(s) \/ Disconnect(s) \/ \E t \in Turns : Subscribe(s, t)

StreamSpec == StreamInit /\ [][StreamNext]_streamVars

-----------------------------------------------------------------------------
(* "Events are persisted in sequence; reconnecting reads that durable      *)
(* stream": a reader has been sent exactly the first events of the turn,   *)
(* none missing, repeated or out of order, and a stream that returns has   *)
(* sent all of a settled turn, its done event included.                    *)
DeliveredInOrder ==
  \A s \in Readers :
    at[s] # "off" /\ status[turn[s]] # "deleted" =>
      /\ sent[s] \o batch[s] = SubSeq(events[turn[s]], 1, Len(sent[s]) + Len(batch[s]))
      /\ at[s] = "ended" =>
           /\ sent[s] = events[turn[s]]
           /\ sent[s] # <<>> /\ sent[s][Len(sent[s])][1] = "done"

(* A stream raises only for a turn that could not be finalized or whose    *)
(* conversation was deleted, never for one that is at work or settled.     *)
RaisesOnlyUnsettled ==
  \A s \in Readers :
    at[s] = "raised" => status[turn[s]] = "deleted" \/ error[turn[s]]

(* The loop runs every reader whose consumer asks for more. *)
ReaderFairness == \A s \in Readers : WF_streamVars(ReaderStep(s))

FairStreamSpec == StreamSpec /\ ReaderFairness

Connected(s, t) == at[s] \in {"created", "yielding", "waiting"} /\ turn[s] = t

(* An event reaches every connected reader, also when the agent falls      *)
(* silent right after it: no notification is lost between a read and the   *)
(* wait that follows it.                                                   *)
EventReachesReaders ==
  \A s \in Readers, t \in Turns : \A n \in 1 .. MaxEvents[t] + MaxJobEvents + 1 :
    (Connected(s, t) /\ Len(events[t]) >= n) ~> (~Connected(s, t) \/ Len(sent[s]) >= n)

(* The stream of a turn that ends is not left waiting, whatever way the    *)
(* turn ended.                                                             *)
StreamEnds ==
  \A s \in Readers, t \in Turns :
    (Connected(s, t) /\ pc[t] = "ended") ~> ~Connected(s, t)
=============================================================================
