----------------------------- MODULE RuntimeProofs -----------------------------
(* Theorems about Runtime, for any number of calls, containers and faults. *)
EXTENDS Runtime, TLAPS

-----------------------------------------------------------------------------
(* The inductive invariant *)

Ours == [id : 1 .. made, owner : {"us"}, ready : BOOLEAN]
Foreign == [id |-> 0, owner |-> "other", ready |-> FALSE]

RuntimeTypeOK ==
  /\ kind \in {"container", "host"}
  /\ container \in {Absent, Foreign} \cup Ours
  /\ made \in Nat /\ seen \in Nat
  /\ svc \in [Calls -> {"idle", "spawning", "abandoned", "streaming", "closing", "marked",
                        "signalling", "killing", "closed", "lost", "released"}]
  /\ client \in [Calls -> {"none", "alive", "exited"}]
  /\ remote \in [Calls -> {"none", "asked", "wrote", "running", "gone"}]
  /\ kids \in [Calls -> BOOLEAN]
  /\ pid \in [Calls -> BOOLEAN] /\ record \in [Calls -> BOOLEAN]
  /\ marker \in [Calls -> {"none", "set", "failed"}]
  /\ reused \in [Calls -> BOOLEAN]
  /\ reaping \in Calls \cup {0}

(* A preparation that removes or starts a container knows the id of one     *)
(* that it saw or made, and no stranger has that id.                        *)
PreparesOurs == prep \in {"remove", "bootstrap"} => seen # 0

Stopping == {"marked", "signalling", "killing"}
Attached == {"streaming", "closing"} \cup Stopping

(* The backend lets go of a call whose agent has ended, or will find the    *)
(* marker before it begins.                                                 *)
Stops(k) == remote[k] # "running" /\ (Live(k) => marker[k] = "set")

CallInv(k) ==
  /\ svc[k] = "idle" => client[k] = "none"
  /\ remote[k] = "none" <=> client[k] = "none"
  /\ remote[k] = "none" => ~pid[k]
  /\ svc[k] \in Attached => remote[k] # "none"
  /\ client[k] = "alive" => Live(k)
  /\ kids[k] => remote[k] \in {"running", "gone"}

ContainerInv(k) ==
  /\ Live(k) /\ client[k] # "alive" => k \in orphan \/ svc[k] = "closed"
  /\ svc[k] \notin {"closed", "released"} /\ remote[k] \in {"wrote", "running"} => pid[k]
  /\ svc[k] \in Stopping => marker[k] # "none"
  /\ svc[k] \in {"killing", "closed"} /\ k \notin raised \cup orphan => Stops(k)
  /\ svc[k] = "released" => ~Live(k) /\ ~kids[k]
  /\ ~reused[k]

(* On the host, the process that works is found through its record, until   *)
(* the call is let go of.                                                   *)
Recorded(k) == record[k] \/ reaping = k \/ k \in missed

HostInv(k) ==
  /\ remote[k] \notin {"asked", "wrote"}
  /\ Live(k) => client[k] = "alive"
  /\ Live(k) => Starting(k) \/ k \in raised \/ (svc[k] # "closed" /\ Recorded(k))
  /\ svc[k] = "released" => ~record[k] /\ reaping # k
  /\ kids[k] => remote[k] = "running" \/ k \in headless
  /\ reused[k] => remote[k] = "gone" /\ ~kids[k]

CallOK(k) == CallInv(k) /\ IF kind = "host" THEN HostInv(k) ELSE ContainerInv(k)

RuntimeInv ==
  /\ RuntimeTypeOK
  /\ PreparesOurs
  /\ \A k \in Calls : CallOK(k)

-----------------------------------------------------------------------------
(* Initially no call has begun. *)
LEMMA InitEstablishes == Init => RuntimeInv
  BY RuntimeAssumption
     DEF Init, RuntimeInv, RuntimeTypeOK, PreparesOurs, CallOK, CallInv, HostInv, ContainerInv,
         Each, Calls, Absent, Live, Attached, Stopping, Stops, Starting, Recorded

-----------------------------------------------------------------------------
(* Preparation changes no call, but by ending what works in a container. *)

LEMMA PreparationSteps ==
  ASSUME RuntimeInv,
         \/ PrepareHost \/ Inspect \/ Create \/ Bootstrap \/ Undo \/ TurnEnds
         \/ StrangerComes \/ StrangerLeaves
  PROVE  RuntimeInv'
<1>1. UNCHANGED <<kind, svc, processes, files, reaping, reused, historyVars>>
  BY DEF PrepareHost, Inspect, Create, Bootstrap, Undo, TurnEnds, StrangerComes, StrangerLeaves,
         PrepareFrame, CallFrame
<1>2. \A k \in Calls : CallOK(k)'
  BY <1>1 DEF RuntimeInv, CallOK, CallInv, HostInv, ContainerInv, processes, files, historyVars,
              Live, Stops, Starting, Recorded
<1>3. RuntimeTypeOK' /\ PreparesOurs'
  <2>0. RuntimeTypeOK /\ PreparesOurs
    BY DEF RuntimeInv
  <2>1. CASE PrepareHost
    BY <1>1, <2>0, <2>1 DEF PrepareHost, RuntimeTypeOK, PreparesOurs, Goto, processes, files, Ours
  <2>2. CASE Inspect
    BY <1>1, <2>0, <2>2 DEF Inspect, RuntimeTypeOK, PreparesOurs, Goto, processes, files, Ours,
                            Foreign, Absent
  <2>3. CASE Create
    <3>1. made' \in Nat /\ made <= made' /\ seen' \in Nat /\ (prep' = "bootstrap" => seen' # 0)
      BY <2>0, <2>3 DEF Create, RuntimeTypeOK, Goto
    <3>2. prep' \in {"bootstrap", "undo"}
      BY <2>3 DEF Create, Goto
    <3>3. CASE container' = [id |-> made', owner |-> "us", ready |-> FALSE] /\ made' = made + 1
      <4>1. container' \in Ours'
        BY <2>0, <3>3 DEF RuntimeTypeOK, Ours
      <4> QED BY <1>1, <2>0, <3>1, <3>2, <4>1 DEF RuntimeTypeOK, PreparesOurs, processes, files
    <3>4. CASE UNCHANGED <<container, made>>
      BY <1>1, <2>0, <3>1, <3>2, <3>4 DEF RuntimeTypeOK, PreparesOurs, processes, files, Ours
    <3> QED BY <2>3, <3>3, <3>4 DEF Create
  <2>4. CASE Bootstrap
    <3>1. seen # 0 /\ prep' \in {"ready", "undo"} /\ UNCHANGED <<made, seen>>
      BY <2>0, <2>4 DEF Bootstrap, PreparesOurs, Goto
    <3>2. CASE container.id = seen /\ container' = [container EXCEPT !.ready = TRUE]
      <4>1. container \in Ours
        BY <2>0, <3>1, <3>2 DEF RuntimeTypeOK, Foreign, Absent
      <4>2. container' \in Ours
        BY <3>2, <4>1 DEF Ours
      <4> QED BY <1>1, <2>0, <3>1, <4>2 DEF RuntimeTypeOK, PreparesOurs, processes, files, Ours
    <3>3. CASE UNCHANGED container
      BY <1>1, <2>0, <3>1, <3>3 DEF RuntimeTypeOK, PreparesOurs, processes, files, Ours
    <3> QED BY <2>4, <3>2, <3>3 DEF Bootstrap
  <2>5. CASE Undo
    BY <1>1, <2>0, <2>5 DEF Undo, RuntimeTypeOK, PreparesOurs, Goto, processes, files, Ours,
                            Foreign, Absent
  <2>6. CASE TurnEnds
    BY <1>1, <2>0, <2>6 DEF TurnEnds, CallFrame, RuntimeTypeOK, PreparesOurs, Goto, processes,
                            files, Ours
  <2>7. CASE StrangerComes \/ StrangerLeaves
    BY <1>1, <2>0, <2>7 DEF StrangerComes, StrangerLeaves, RuntimeTypeOK, PreparesOurs, processes,
                            files, Ours, Foreign, Absent
  <2> QED BY <2>1, <2>2, <2>3, <2>4, <2>5, <2>6, <2>7
<1> QED BY <1>2, <1>3 DEF RuntimeInv

LEMMA EndAllType ==
  ASSUME RuntimeTypeOK, NEW S, EndAll(S)
  PROVE  /\ client' \in [Calls -> {"none", "alive", "exited"}]
         /\ remote' \in [Calls -> {"none", "asked", "wrote", "running", "gone"}]
         /\ kids' \in [Calls -> BOOLEAN]
  BY DEF EndAll, RuntimeTypeOK

LEMMA EndedCall ==
  ASSUME RuntimeInv, NEW S \in SUBSET Calls, EndAll(S), NEW k \in Calls
  PROVE  /\ kids'[k] = (kids[k] /\ k \notin S)
         /\ remote'[k] = IF k \in S /\ Live(k) THEN "gone" ELSE remote[k]
         /\ client'[k] = IF k \in S /\ Live(k) THEN "exited" ELSE client[k]
         /\ headless' = headless
  BY DEF EndAll

(* What ends with its container is gone, and no claim about a call that is  *)
(* gone needs its client.                                                   *)
LEMMA EndAllKeeps ==
  ASSUME RuntimeInv, NEW S \in SUBSET Calls, EndAll(S), NEW k \in Calls,
         UNCHANGED <<kind, svc, files, reaping, reused, historyVars>>
  PROVE  CallOK(k)'
<1>1. CallOK(k) /\ kind \in {"container", "host"}
  BY DEF RuntimeInv, RuntimeTypeOK
<1>2. CASE k \in S /\ Live(k)
  <2>1. remote'[k] = "gone" /\ client'[k] = "exited" /\ ~kids'[k]
    BY <1>2, EndedCall
  <2> QED BY <1>1, <1>2, <2>1 DEF CallOK, CallInv, HostInv, ContainerInv, files, historyVars, Live,
                                  Stops, Starting, Recorded
<1>3. CASE ~(k \in S /\ Live(k))
  <2>1. remote'[k] = remote[k] /\ client'[k] = client[k] /\ (kids'[k] => kids[k])
        /\ headless' = headless
    BY <1>3, EndedCall
  <2> QED BY <1>1, <2>1 DEF CallOK, CallInv, HostInv, ContainerInv, files, historyVars, Live, Stops,
                            Starting, Recorded
<1> QED BY <1>2, <1>3

LEMMA RemoveStaleStep == RuntimeInv /\ RemoveStale => RuntimeInv'
<1> SUFFICES ASSUME RuntimeInv, RemoveStale PROVE RuntimeInv'
  OBVIOUS
<1>0. UNCHANGED <<kind, svc, files, reaping, reused, historyVars, made, seen>>
  BY DEF RemoveStale, PrepareFrame
<1>1. CASE EndAll(Calls)
  <2>1. \A k \in Calls : CallOK(k)'
    BY <1>0, <1>1, EndAllKeeps
  <2>2. RuntimeTypeOK'
    BY <1>0, <1>1, EndAllType DEF RemoveStale, RuntimeInv, RuntimeTypeOK, files, Ours
  <2>3. PreparesOurs'
    BY <1>0 DEF RemoveStale, Goto, PreparesOurs, RuntimeInv
  <2> QED BY <2>1, <2>2, <2>3 DEF RuntimeInv
<1>2. CASE UNCHANGED <<processes, container>> /\ Goto("idle")
  BY <1>0, <1>2 DEF RuntimeInv, RuntimeTypeOK, PreparesOurs, Goto, Ours, CallOK, CallInv, HostInv,
                    ContainerInv, processes, files, historyVars, Live, Stops, Starting, Recorded
<1> QED BY <1>1, <1>2 DEF RemoveStale

-----------------------------------------------------------------------------
(* A step of one call leaves the others as they are. *)

SameCall(k) ==
  /\ svc'[k] = svc[k] /\ client'[k] = client[k] /\ remote'[k] = remote[k] /\ kids'[k] = kids[k]
  /\ pid'[k] = pid[k] /\ marker'[k] = marker[k] /\ record'[k] = record[k]
  /\ reused'[k] = reused[k]
  /\ reaping' = k <=> reaping = k
  /\ k \in raised' <=> k \in raised
  /\ k \in orphan' <=> k \in orphan
  /\ k \in missed' <=> k \in missed
  /\ k \in headless' <=> k \in headless

LEMMA OtherCalls ==
  ASSUME RuntimeInv, NEW k \in Calls, SameCall(k), kind' = kind
  PROVE  CallOK(k)'
  BY DEF RuntimeInv, SameCall, CallOK, CallInv, HostInv, ContainerInv, Live, Stops, Starting,
         Recorded

LEMMA SpawnStep ==
  ASSUME RuntimeInv, NEW k \in Calls, Spawn(k)
  PROVE  RuntimeInv'
<1>0. RuntimeTypeOK /\ PreparesOurs /\ CallOK(k) /\ kind' = kind
  BY DEF RuntimeInv, Spawn, Over, CallFrame, To, files, historyVars, containerVars, processes
<1>1. RuntimeTypeOK' /\ PreparesOurs'
  BY <1>0 DEF Spawn, Over, CallFrame, To, files, historyVars, containerVars, processes,
       RuntimeTypeOK, PreparesOurs, Ours
<1>2. CallOK(k)'
  BY <1>0 DEF Spawn, Over, CallFrame, To, files, historyVars, containerVars, processes,
       RuntimeTypeOK, CallOK, CallInv, HostInv, ContainerInv, Live, Stops, Recorded, Starting,
       Attached, Stopping
<1>3. \A j \in Calls \ {k} : SameCall(j)
  BY <1>0 DEF Spawn, Over, CallFrame, To, files, historyVars, containerVars, processes,
       RuntimeTypeOK, SameCall
<1> QED BY <1>0, <1>1, <1>2, <1>3, OtherCalls DEF RuntimeInv

LEMMA ProcessStep ==
  ASSUME RuntimeInv, NEW k \in Calls, Process(k)
  PROVE  RuntimeInv'
<1>0. RuntimeTypeOK /\ PreparesOurs /\ CallOK(k) /\ kind' = kind
  BY DEF RuntimeInv, Process, Starting, CallFrame, To, files, historyVars, containerVars,
       processes
<1>1. RuntimeTypeOK' /\ PreparesOurs'
  BY <1>0 DEF Process, Starting, CallFrame, To, files, historyVars, containerVars, processes,
       RuntimeTypeOK, PreparesOurs, Ours
<1>2. CallOK(k)'
  BY <1>0 DEF Process, Starting, CallFrame, To, files, historyVars, containerVars, processes,
       RuntimeTypeOK, CallOK, CallInv, HostInv, ContainerInv, Live, Stops, Recorded, Starting,
       Attached, Stopping
<1>3. \A j \in Calls \ {k} : SameCall(j)
  BY <1>0 DEF Process, Starting, CallFrame, To, files, historyVars, containerVars, processes,
       RuntimeTypeOK, SameCall
<1> QED BY <1>0, <1>1, <1>2, <1>3, OtherCalls DEF RuntimeInv

LEMMA SpawnedStep ==
  ASSUME RuntimeInv, NEW k \in Calls, Spawned(k)
  PROVE  RuntimeInv'
<1>0. RuntimeTypeOK /\ PreparesOurs /\ CallOK(k) /\ kind' = kind
  BY DEF RuntimeInv, Spawned, Starting, Note, Fault, CallFrame, To, files, historyVars,
       containerVars, processes
<1>1. RuntimeTypeOK' /\ PreparesOurs'
  BY <1>0 DEF Spawned, Starting, Note, Fault, CallFrame, To, files, historyVars, containerVars,
       processes, RuntimeTypeOK, PreparesOurs, Ours
<1>2. CallOK(k)'
  BY <1>0 DEF Spawned, Starting, Note, Fault, CallFrame, To, files, historyVars, containerVars,
       processes, RuntimeTypeOK, CallOK, CallInv, HostInv, ContainerInv, Live, Stops, Recorded,
       Starting, Attached, Stopping
<1>3. \A j \in Calls \ {k} : SameCall(j)
  BY <1>0 DEF Spawned, Starting, Note, Fault, CallFrame, To, files, historyVars, containerVars,
       processes, RuntimeTypeOK, SameCall
<1> QED BY <1>0, <1>1, <1>2, <1>3, OtherCalls DEF RuntimeInv

LEMMA SpawnFailsStep ==
  ASSUME RuntimeInv, NEW k \in Calls, SpawnFails(k)
  PROVE  RuntimeInv'
<1>0. RuntimeTypeOK /\ PreparesOurs /\ CallOK(k) /\ kind' = kind
  BY DEF RuntimeInv, SpawnFails, Starting, Fault, CallFrame, To, files, historyVars,
       containerVars, processes
<1>1. RuntimeTypeOK' /\ PreparesOurs'
  BY <1>0 DEF SpawnFails, Starting, Fault, CallFrame, To, files, historyVars, containerVars,
       processes, RuntimeTypeOK, PreparesOurs, Ours
<1>2. CallOK(k)'
  BY <1>0 DEF SpawnFails, Starting, Fault, CallFrame, To, files, historyVars, containerVars,
       processes, RuntimeTypeOK, CallOK, CallInv, HostInv, ContainerInv, Live, Stops, Recorded,
       Starting, Attached, Stopping
<1>3. \A j \in Calls \ {k} : SameCall(j)
  BY <1>0 DEF SpawnFails, Starting, Fault, CallFrame, To, files, historyVars, containerVars,
       processes, RuntimeTypeOK, SameCall
<1> QED BY <1>0, <1>1, <1>2, <1>3, OtherCalls DEF RuntimeInv

LEMMA CancelStep ==
  ASSUME RuntimeInv, NEW k \in Calls, Cancel(k)
  PROVE  RuntimeInv'
<1>0. RuntimeTypeOK /\ PreparesOurs /\ CallOK(k) /\ kind' = kind
  BY DEF RuntimeInv, Cancel, AfterCancel, CallFrame, To, files, historyVars, containerVars,
       processes
<1>1. RuntimeTypeOK' /\ PreparesOurs'
  BY <1>0 DEF Cancel, AfterCancel, CallFrame, To, files, historyVars, containerVars, processes,
       RuntimeTypeOK, PreparesOurs, Ours
<1>2. CallOK(k)'
  BY <1>0 DEF Cancel, AfterCancel, CallFrame, To, files, historyVars, containerVars, processes,
       RuntimeTypeOK, CallOK, CallInv, HostInv, ContainerInv, Live, Stops, Recorded, Starting,
       Attached, Stopping
<1>3. \A j \in Calls \ {k} : SameCall(j)
  BY <1>0 DEF Cancel, AfterCancel, CallFrame, To, files, historyVars, containerVars, processes,
       RuntimeTypeOK, SameCall
<1> QED BY <1>0, <1>1, <1>2, <1>3, OtherCalls DEF RuntimeInv

LEMMA TimesOutStep ==
  ASSUME RuntimeInv, NEW k \in Calls, TimesOut(k)
  PROVE  RuntimeInv'
<1>0. RuntimeTypeOK /\ PreparesOurs /\ CallOK(k) /\ kind' = kind
  BY DEF RuntimeInv, TimesOut, Mark, Fault, CallFrame, To, files, historyVars, containerVars,
       processes
<1>1. RuntimeTypeOK' /\ PreparesOurs'
  BY <1>0 DEF TimesOut, Mark, Fault, CallFrame, To, files, historyVars, containerVars,
       processes, RuntimeTypeOK, PreparesOurs, Ours
<1>2. CallOK(k)'
  BY <1>0 DEF TimesOut, Mark, Fault, CallFrame, To, files, historyVars, containerVars,
       processes, RuntimeTypeOK, CallOK, CallInv, HostInv, ContainerInv, Live, Stops, Recorded,
       Starting, Attached, Stopping
<1>3. \A j \in Calls \ {k} : SameCall(j)
  BY <1>0 DEF TimesOut, Mark, Fault, CallFrame, To, files, historyVars, containerVars,
       processes, RuntimeTypeOK, SameCall
<1> QED BY <1>0, <1>1, <1>2, <1>3, OtherCalls DEF RuntimeInv

LEMMA CompletesStep ==
  ASSUME RuntimeInv, NEW k \in Calls, Completes(k)
  PROVE  RuntimeInv'
<1>0. RuntimeTypeOK /\ PreparesOurs /\ CallOK(k) /\ kind' = kind
  BY DEF RuntimeInv, Completes, RemoveFiles, CallFrame, To, files, historyVars, containerVars,
       processes
<1>1. RuntimeTypeOK' /\ PreparesOurs'
  BY <1>0 DEF Completes, RemoveFiles, CallFrame, To, files, historyVars, containerVars,
       processes, RuntimeTypeOK, PreparesOurs, Ours
<1>2. CallOK(k)'
  BY <1>0 DEF Completes, RemoveFiles, CallFrame, To, files, historyVars, containerVars,
       processes, RuntimeTypeOK, CallOK, CallInv, HostInv, ContainerInv, Live, Stops, Recorded,
       Starting, Attached, Stopping
<1>3. \A j \in Calls \ {k} : SameCall(j)
  BY <1>0 DEF Completes, RemoveFiles, CallFrame, To, files, historyVars, containerVars,
       processes, RuntimeTypeOK, SameCall
<1> QED BY <1>0, <1>1, <1>2, <1>3, OtherCalls DEF RuntimeInv

LEMMA ClosesStep ==
  ASSUME RuntimeInv, NEW k \in Calls, Closes(k)
  PROVE  RuntimeInv'
<1>0. RuntimeTypeOK /\ PreparesOurs /\ CallOK(k) /\ kind' = kind
  BY DEF RuntimeInv, Closes, Mark, RemoveFiles, Fault, CallFrame, To, files, historyVars,
       containerVars, processes
<1>1. RuntimeTypeOK' /\ PreparesOurs'
  BY <1>0 DEF Closes, Mark, RemoveFiles, Fault, CallFrame, To, files, historyVars,
       containerVars, processes, RuntimeTypeOK, PreparesOurs, Ours
<1>2. CallOK(k)'
  BY <1>0 DEF Closes, Mark, RemoveFiles, Fault, CallFrame, To, files, historyVars,
       containerVars, processes, RuntimeTypeOK, CallOK, CallInv, HostInv, ContainerInv, Live,
       Stops, Recorded, Starting, Attached, Stopping
<1>3. \A j \in Calls \ {k} : SameCall(j)
  BY <1>0 DEF Closes, Mark, RemoveFiles, Fault, CallFrame, To, files, historyVars,
       containerVars, processes, RuntimeTypeOK, SameCall
<1> QED BY <1>0, <1>1, <1>2, <1>3, OtherCalls DEF RuntimeInv

LEMMA StopLooksStep ==
  ASSUME RuntimeInv, NEW k \in Calls, StopLooks(k)
  PROVE  RuntimeInv'
<1>0. RuntimeTypeOK /\ PreparesOurs /\ CallOK(k) /\ kind' = kind
  BY DEF RuntimeInv, StopLooks, HasProcess, CallFrame, To, files, historyVars, containerVars,
       processes
<1>1. RuntimeTypeOK' /\ PreparesOurs'
  BY <1>0 DEF StopLooks, HasProcess, CallFrame, To, files, historyVars, containerVars,
       processes, RuntimeTypeOK, PreparesOurs, Ours
<1>2. CallOK(k)'
  BY <1>0 DEF StopLooks, HasProcess, CallFrame, To, files, historyVars, containerVars,
       processes, RuntimeTypeOK, CallOK, CallInv, HostInv, ContainerInv, Live, Stops, Recorded,
       Starting, Attached, Stopping
<1>3. \A j \in Calls \ {k} : SameCall(j)
  BY <1>0 DEF StopLooks, HasProcess, CallFrame, To, files, historyVars, containerVars,
       processes, RuntimeTypeOK, SameCall
<1> QED BY <1>0, <1>1, <1>2, <1>3, OtherCalls DEF RuntimeInv

LEMMA SignalsStep ==
  ASSUME RuntimeInv, NEW k \in Calls, Signals(k)
  PROVE  RuntimeInv'
<1>0. RuntimeTypeOK /\ PreparesOurs /\ CallOK(k) /\ kind' = kind
  BY DEF RuntimeInv, Signals, LeaderEnds, Fault, CallFrame, To, files, historyVars,
       containerVars, processes
<1>1. RuntimeTypeOK' /\ PreparesOurs'
  BY <1>0 DEF Signals, LeaderEnds, Fault, CallFrame, To, files, historyVars, containerVars,
       processes, RuntimeTypeOK, PreparesOurs, Ours
<1>2. CallOK(k)'
  BY <1>0 DEF Signals, LeaderEnds, Fault, CallFrame, To, files, historyVars, containerVars,
       processes, RuntimeTypeOK, CallOK, CallInv, HostInv, ContainerInv, Live, Stops, Recorded,
       Starting, Attached, Stopping
<1>3. \A j \in Calls \ {k} : SameCall(j)
  BY <1>0 DEF Signals, LeaderEnds, Fault, CallFrame, To, files, historyVars, containerVars,
       processes, RuntimeTypeOK, SameCall
<1> QED BY <1>0, <1>1, <1>2, <1>3, OtherCalls DEF RuntimeInv

LEMMA KillsStep ==
  ASSUME RuntimeInv, NEW k \in Calls, Kills(k)
  PROVE  RuntimeInv'
<1>0. RuntimeTypeOK /\ PreparesOurs /\ CallOK(k) /\ kind' = kind
  BY DEF RuntimeInv, Kills, EndAll, RemoveFiles, Fault, CallFrame, To, files, historyVars,
       containerVars, processes
<1>1. RuntimeTypeOK' /\ PreparesOurs'
  <2>1. /\ client' \in [Calls -> {"none", "alive", "exited"}]
        /\ remote' \in [Calls -> {"none", "asked", "wrote", "running", "gone"}]
        /\ kids' \in [Calls -> BOOLEAN]
    BY <1>0, EndAllType DEF Kills, RuntimeTypeOK, processes
  <2> QED
    BY <1>0, <2>1 DEF Kills, RemoveFiles, CallFrame, To, RuntimeTypeOK, PreparesOurs, Ours
<1>2. CallOK(k)'
  <2>1. /\ svc[k] = "killing" /\ svc'[k] = "closed" /\ ~record'[k] /\ ~pid'[k]
        /\ UNCHANGED <<marker, reaping, reused, orphan, missed>>
        /\ k \in raised => k \in raised'
    BY <1>0 DEF Kills, To, CallFrame, RemoveFiles, RuntimeTypeOK
  <2>2. CASE UNCHANGED processes /\ (client[k] = "exited" \/ (k \in raised' /\ kind = "host"))
    BY <1>0, <2>1, <2>2 DEF CallOK, CallInv, HostInv, ContainerInv, Live, Stops, Recorded, Starting,
       Attached, Stopping, processes
  <2>3. CASE client[k] = "alive" /\ kind = "host" /\ EndAll({k})
    <3>1. remote'[k] = "gone" /\ client'[k] = "exited" /\ ~kids'[k]
      BY <1>0, <2>3, EndedCall DEF CallOK, CallInv
    <3> QED BY <1>0, <2>1, <2>3, <3>1 DEF CallOK, CallInv, HostInv, Live, Attached, Stopping
  <2>4. CASE /\ client' = [client EXCEPT ![k] = "exited"] /\ kind = "container"
             /\ UNCHANGED <<remote, kids, raised>>
    <3>1. client'[k] = "exited" /\ remote[k] # "none"
      BY <1>0, <2>1, <2>4 DEF CallOK, CallInv, Attached, Stopping, RuntimeTypeOK
    <3> QED BY <1>0, <2>1, <2>4, <3>1 DEF CallOK, CallInv, ContainerInv, Live, Stops, Attached,
               Stopping, RuntimeTypeOK
  <2> QED BY <1>0, <2>2, <2>3, <2>4 DEF Kills
<1>3. \A j \in Calls \ {k} : SameCall(j)
  BY <1>0 DEF Kills, EndAll, RemoveFiles, Fault, CallFrame, To, files, historyVars,
       containerVars, processes, RuntimeTypeOK, SameCall
<1> QED BY <1>0, <1>1, <1>2, <1>3, OtherCalls DEF RuntimeInv

LEMMA RemoteWritesStep ==
  ASSUME RuntimeInv, NEW k \in Calls, RemoteWrites(k)
  PROVE  RuntimeInv'
<1>0. RuntimeTypeOK /\ PreparesOurs /\ CallOK(k) /\ kind' = kind
  BY DEF RuntimeInv, RemoteWrites, RemoteFrame, files, historyVars, containerVars, processes
<1>1. RuntimeTypeOK' /\ PreparesOurs'
  BY <1>0 DEF RemoteWrites, RemoteFrame, files, historyVars, containerVars, processes,
       RuntimeTypeOK, PreparesOurs, Ours
<1>2. CallOK(k)'
  BY <1>0 DEF RemoteWrites, RemoteFrame, files, historyVars, containerVars, processes,
       RuntimeTypeOK, CallOK, CallInv, HostInv, ContainerInv, Live, Stops, Recorded, Starting,
       Attached, Stopping
<1>3. \A j \in Calls \ {k} : SameCall(j)
  BY <1>0 DEF RemoteWrites, RemoteFrame, files, historyVars, containerVars, processes,
       RuntimeTypeOK, SameCall
<1> QED BY <1>0, <1>1, <1>2, <1>3, OtherCalls DEF RuntimeInv

LEMMA RemoteChecksStep ==
  ASSUME RuntimeInv, NEW k \in Calls, RemoteChecks(k)
  PROVE  RuntimeInv'
<1>0. RuntimeTypeOK /\ PreparesOurs /\ CallOK(k) /\ kind' = kind
  BY DEF RuntimeInv, RemoteChecks, LeaderEnds, RemoteFrame, files, historyVars, containerVars,
       processes
<1>1. RuntimeTypeOK' /\ PreparesOurs'
  BY <1>0 DEF RemoteChecks, LeaderEnds, RemoteFrame, files, historyVars, containerVars,
       processes, RuntimeTypeOK, PreparesOurs, Ours
<1>2. CallOK(k)'
  BY <1>0 DEF RemoteChecks, LeaderEnds, RemoteFrame, files, historyVars, containerVars,
       processes, RuntimeTypeOK, CallOK, CallInv, HostInv, ContainerInv, Live, Stops, Recorded,
       Starting, Attached, Stopping
<1>3. \A j \in Calls \ {k} : SameCall(j)
  BY <1>0 DEF RemoteChecks, LeaderEnds, RemoteFrame, files, historyVars, containerVars,
       processes, RuntimeTypeOK, SameCall
<1> QED BY <1>0, <1>1, <1>2, <1>3, OtherCalls DEF RuntimeInv

LEMMA RemoteEndsStep ==
  ASSUME RuntimeInv, NEW k \in Calls, RemoteEnds(k)
  PROVE  RuntimeInv'
<1>0. RuntimeTypeOK /\ PreparesOurs /\ CallOK(k) /\ kind' = kind
  BY DEF RuntimeInv, RemoteEnds, LeaderEnds, RemoteFrame, files, historyVars, containerVars,
       processes
<1>1. RuntimeTypeOK' /\ PreparesOurs'
  BY <1>0 DEF RemoteEnds, LeaderEnds, RemoteFrame, files, historyVars, containerVars, processes,
       RuntimeTypeOK, PreparesOurs, Ours
<1>2. CallOK(k)'
  BY <1>0 DEF RemoteEnds, LeaderEnds, RemoteFrame, files, historyVars, containerVars, processes,
       RuntimeTypeOK, CallOK, CallInv, HostInv, ContainerInv, Live, Stops, Recorded, Starting,
       Attached, Stopping
<1>3. \A j \in Calls \ {k} : SameCall(j)
  BY <1>0 DEF RemoteEnds, LeaderEnds, RemoteFrame, files, historyVars, containerVars, processes,
       RuntimeTypeOK, SameCall
<1> QED BY <1>0, <1>1, <1>2, <1>3, OtherCalls DEF RuntimeInv

LEMMA AgentForksStep ==
  ASSUME RuntimeInv, NEW k \in Calls, AgentForks(k)
  PROVE  RuntimeInv'
<1>0. RuntimeTypeOK /\ PreparesOurs /\ CallOK(k) /\ kind' = kind
  BY DEF RuntimeInv, AgentForks, RemoteFrame, files, historyVars, containerVars, processes
<1>1. RuntimeTypeOK' /\ PreparesOurs'
  BY <1>0 DEF AgentForks, RemoteFrame, files, historyVars, containerVars, processes,
       RuntimeTypeOK, PreparesOurs, Ours
<1>2. CallOK(k)'
  BY <1>0 DEF AgentForks, RemoteFrame, files, historyVars, containerVars, processes,
       RuntimeTypeOK, CallOK, CallInv, HostInv, ContainerInv, Live, Stops, Recorded, Starting,
       Attached, Stopping
<1>3. \A j \in Calls \ {k} : SameCall(j)
  BY <1>0 DEF AgentForks, RemoteFrame, files, historyVars, containerVars, processes,
       RuntimeTypeOK, SameCall
<1> QED BY <1>0, <1>1, <1>2, <1>3, OtherCalls DEF RuntimeInv

LEMMA KidsEndStep ==
  ASSUME RuntimeInv, NEW k \in Calls, KidsEnd(k)
  PROVE  RuntimeInv'
<1>0. RuntimeTypeOK /\ PreparesOurs /\ CallOK(k) /\ kind' = kind
  BY DEF RuntimeInv, KidsEnd, RemoteFrame, files, historyVars, containerVars, processes
<1>1. RuntimeTypeOK' /\ PreparesOurs'
  BY <1>0 DEF KidsEnd, RemoteFrame, files, historyVars, containerVars, processes, RuntimeTypeOK,
       PreparesOurs, Ours
<1>2. CallOK(k)'
  BY <1>0 DEF KidsEnd, RemoteFrame, files, historyVars, containerVars, processes, RuntimeTypeOK,
       CallOK, CallInv, HostInv, ContainerInv, Live, Stops, Recorded, Starting, Attached,
       Stopping
<1>3. \A j \in Calls \ {k} : SameCall(j)
  BY <1>0 DEF KidsEnd, RemoteFrame, files, historyVars, containerVars, processes, RuntimeTypeOK,
       SameCall
<1> QED BY <1>0, <1>1, <1>2, <1>3, OtherCalls DEF RuntimeInv

LEMMA ClientDiesStep ==
  ASSUME RuntimeInv, NEW k \in Calls, ClientDies(k)
  PROVE  RuntimeInv'
<1>0. RuntimeTypeOK /\ PreparesOurs /\ CallOK(k) /\ kind' = kind
  BY DEF RuntimeInv, ClientDies, Fault, RemoteFrame, files, historyVars, containerVars,
       processes
<1>1. RuntimeTypeOK' /\ PreparesOurs'
  BY <1>0 DEF ClientDies, Fault, RemoteFrame, files, historyVars, containerVars, processes,
       RuntimeTypeOK, PreparesOurs, Ours
<1>2. CallOK(k)'
  BY <1>0 DEF ClientDies, Fault, RemoteFrame, files, historyVars, containerVars, processes,
       RuntimeTypeOK, CallOK, CallInv, HostInv, ContainerInv, Live, Stops, Recorded, Starting,
       Attached, Stopping
<1>3. \A j \in Calls \ {k} : SameCall(j)
  BY <1>0 DEF ClientDies, Fault, RemoteFrame, files, historyVars, containerVars, processes,
       RuntimeTypeOK, SameCall
<1> QED BY <1>0, <1>1, <1>2, <1>3, OtherCalls DEF RuntimeInv

LEMMA PidReusedStep ==
  ASSUME RuntimeInv, NEW k \in Calls, PidReused(k)
  PROVE  RuntimeInv'
<1>0. RuntimeTypeOK /\ PreparesOurs /\ CallOK(k) /\ kind' = kind
  BY DEF RuntimeInv, PidReused, files, historyVars, containerVars, processes
<1>1. RuntimeTypeOK' /\ PreparesOurs'
  BY <1>0 DEF PidReused, files, historyVars, containerVars, processes, RuntimeTypeOK,
       PreparesOurs, Ours
<1>2. CallOK(k)'
  BY <1>0 DEF PidReused, files, historyVars, containerVars, processes, RuntimeTypeOK, CallOK,
       CallInv, HostInv, ContainerInv, Live, Stops, Recorded, Starting, Attached, Stopping
<1>3. \A j \in Calls \ {k} : SameCall(j)
  BY <1>0 DEF PidReused, files, historyVars, containerVars, processes, RuntimeTypeOK, SameCall
<1> QED BY <1>0, <1>1, <1>2, <1>3, OtherCalls DEF RuntimeInv

LEMMA ReapTakesStep ==
  ASSUME RuntimeInv, NEW k \in Calls, ReapTakes(k)
  PROVE  RuntimeInv'
<1>0. RuntimeTypeOK /\ PreparesOurs /\ CallOK(k) /\ kind' = kind
  BY DEF RuntimeInv, ReapTakes, Calls, Releasing, Over, ReleaseFrame, files, historyVars,
       containerVars, processes
<1>1. RuntimeTypeOK' /\ PreparesOurs'
  BY <1>0 DEF ReapTakes, Calls, Releasing, Over, ReleaseFrame, files, historyVars,
       containerVars, processes, RuntimeTypeOK, PreparesOurs, Ours
<1>2. CallOK(k)'
  BY <1>0 DEF ReapTakes, Calls, Releasing, Over, ReleaseFrame, files, historyVars,
       containerVars, processes, RuntimeTypeOK, CallOK, CallInv, HostInv, ContainerInv, Live,
       Stops, Recorded, Starting, Attached, Stopping
<1>3. \A j \in Calls \ {k} : SameCall(j)
  BY <1>0 DEF ReapTakes, Calls, Releasing, Over, ReleaseFrame, files, historyVars,
       containerVars, processes, RuntimeTypeOK, SameCall
<1> QED BY <1>0, <1>1, <1>2, <1>3, OtherCalls DEF RuntimeInv

-----------------------------------------------------------------------------
(* The backend dies, and what it left behind is released. *)

LEMMA BackendDiesStep == RuntimeInv /\ BackendDies => RuntimeInv'
<1> SUFFICES ASSUME RuntimeInv, BackendDies PROVE RuntimeInv'
  OBVIOUS
<1>1. RuntimeTypeOK' /\ PreparesOurs'
  BY DEF RuntimeInv, BackendDies, RuntimeTypeOK, PreparesOurs, Goto, Ours, files, processes, Over
<1>2. ASSUME NEW k \in Calls PROVE CallOK(k)'
  <2>1. /\ CallOK(k)
        /\ svc'[k] = svc[k] \/ (svc[k] \notin {"idle", "closed", "released"} /\ svc'[k] = "lost")
        /\ Starting(k) => svc'[k] = "lost"
    BY DEF BackendDies, RuntimeInv, Over, Starting
  <2>2. UNCHANGED <<kind, processes, files, reused, raised, orphan>> /\ reaping' = 0
    BY DEF BackendDies
  <2>3. /\ k \in missed \/ reaping = k => k \in missed'
        /\ kind = "host" /\ Starting(k) /\ client[k] # "none" => k \in missed'
    BY DEF BackendDies, Unnoted, Calls
  <2>4. k # 0
    BY DEF Calls
  <2> QED BY <2>1, <2>2, <2>3, <2>4 DEF CallOK, CallInv, HostInv, ContainerInv, Live, Stops, files,
                            processes, Attached, Stopping, Starting, Recorded
<1> QED BY <1>1, <1>2 DEF RuntimeInv

LEMMA ReleaseContainerStep == RuntimeInv /\ ReleaseContainer => RuntimeInv'
<1> SUFFICES ASSUME RuntimeInv, ReleaseContainer PROVE RuntimeInv'
  OBVIOUS
<1>0. /\ UNCHANGED <<kind, made, prep, seen, files, reaping, reused, historyVars>>
      /\ kind = "container" /\ RuntimeTypeOK /\ PreparesOurs
  BY DEF ReleaseContainer, ReleaseFrame, RuntimeInv, files
<1>1. CASE MayRemove(container)
  <2>1. container' = Absent /\ EndAll(Calls) /\ LetGo
    BY <1>1 DEF ReleaseContainer
  <2>2. RuntimeTypeOK' /\ PreparesOurs'
    BY <1>0, <2>1, EndAllType DEF RuntimeTypeOK, PreparesOurs, Ours, LetGo, files
  <2>3. ASSUME NEW k \in Calls PROVE CallOK(k)'
    <3>1. CallOK(k) /\ svc'[k] = (IF svc[k] = "idle" THEN "idle" ELSE "released")
      BY <2>1 DEF RuntimeInv, LetGo
    <3>2. /\ remote'[k] = (IF Live(k) THEN "gone" ELSE remote[k]) /\ ~kids'[k]
          /\ client'[k] = (IF Live(k) THEN "exited" ELSE client[k])
      BY <2>1, EndedCall
    <3> QED BY <1>0, <3>1, <3>2 DEF CallOK, CallInv, ContainerInv, Live, Stops, files, historyVars,
               Attached, Stopping
  <2> QED BY <2>2, <2>3 DEF RuntimeInv
<1>2. CASE ~MayRemove(container)
  BY <1>0, <1>2 DEF ReleaseContainer, RuntimeInv, RuntimeTypeOK, PreparesOurs, Ours, CallOK, CallInv,
     ContainerInv, processes, files, historyVars, Live, Stops
<1> QED BY <1>1, <1>2

LEMMA ReapKillsStep == RuntimeInv /\ ReapKills => RuntimeInv'
<1> SUFFICES ASSUME RuntimeInv, ReapKills PROVE RuntimeInv'
  OBVIOUS
<1>0. /\ UNCHANGED <<kind, made, prep, seen, container, svc, files, raised, orphan>>
      /\ RuntimeTypeOK /\ PreparesOurs /\ reaping \in Calls /\ reaping' = 0
  BY DEF ReapKills, ReleaseFrame, RuntimeInv, RuntimeTypeOK, files
<1>1. PICK r \in Calls : r = reaping
  BY <1>0
<1>2. CASE SameProcess(r) /\ KillGroup(r) /\ UNCHANGED missed
  <2>1. EndAll({r}) /\ reused' = [reused EXCEPT ![r] = FALSE]
    BY <1>2 DEF KillGroup
  <2>2. RuntimeTypeOK' /\ PreparesOurs'
    BY <1>0, <2>1, EndAllType DEF RuntimeTypeOK, PreparesOurs, Ours, files
  <2>3. ASSUME NEW k \in Calls PROVE CallOK(k)'
    <3>0. CallOK(k)
      BY DEF RuntimeInv
    <3>1. CASE k = r
      <4>1. remote[k] = "running"
        BY <1>2, <3>1 DEF SameProcess, Holder
      <4>2. remote'[k] = "gone" /\ client'[k] = "exited" /\ ~kids'[k] /\ ~reused'[k]
        <5>1. EndAll({k}) /\ {k} \in SUBSET Calls
          BY <2>1, <3>1
        <5>2. remote'[k] = "gone" /\ client'[k] = "exited" /\ ~kids'[k]
          BY <4>1, <5>1, EndedCall DEF Live
        <5>3. ~reused'[k]
          BY <1>0, <2>1, <3>1 DEF RuntimeTypeOK
        <5> QED BY <5>2, <5>3
      <4>3. k # 0
        BY DEF Calls
      <4> QED BY <1>0, <3>0, <4>1, <4>2, <4>3 DEF CallOK, CallInv, HostInv, ContainerInv, Live, Stops,
                 files, Attached, Stopping, Recorded, Starting
    <3>2. CASE k # r
      <4>1. /\ remote'[k] = remote[k] /\ client'[k] = client[k] /\ kids'[k] = kids[k]
            /\ headless' = headless /\ reused'[k] = reused[k] /\ reaping # k
        BY <1>0, <1>1, <2>1, <3>2, EndedCall DEF RuntimeTypeOK
      <4>2. k # 0
        BY DEF Calls
      <4> QED BY <1>0, <1>2, <3>0, <4>1, <4>2 DEF CallOK, CallInv, HostInv, ContainerInv, Live,
                 Stops, files, Recorded, Starting
    <3> QED BY <3>1, <3>2
  <2> QED BY <2>2, <2>3 DEF RuntimeInv
<1>3. CASE /\ UNCHANGED <<processes, reused>> /\ missed \subseteq missed'
           /\ r \in missed' \/ ~SameProcess(r)
  <2>1. RuntimeTypeOK' /\ PreparesOurs'
    BY <1>0, <1>3 DEF RuntimeTypeOK, PreparesOurs, Ours, files, processes
  <2>2. ASSUME NEW k \in Calls PROVE CallOK(k)'
    <3>0. CallOK(k) /\ k # 0
      BY DEF RuntimeInv, Calls
    <3>1. (k \in missed => k \in missed') /\ (k = reaping => k \in missed' \/ remote[k] # "running")
      BY <1>1, <1>3 DEF SameProcess, Holder
    <3> QED BY <1>0, <1>3, <3>0, <3>1 DEF CallOK, CallInv, HostInv, ContainerInv, Live, Stops,
               files, processes, Recorded, Starting
  <2> QED BY <2>1, <2>2 DEF RuntimeInv
<1> QED BY <1>1, <1>2, <1>3 DEF ReapKills

LEMMA ReapedStep == RuntimeInv /\ Reaped => RuntimeInv'
<1> SUFFICES ASSUME RuntimeInv, Reaped PROVE RuntimeInv'
  OBVIOUS
<1>0. /\ UNCHANGED <<kind, made, prep, seen, container, processes, files, reaping, reused,
                     historyVars>>
      /\ kind = "host" /\ reaping = 0 /\ LetGo /\ RuntimeTypeOK /\ PreparesOurs
  BY DEF Reaped, Releasing, ReleaseFrame, RuntimeInv, files
<1>1. RuntimeTypeOK' /\ PreparesOurs'
  BY <1>0 DEF RuntimeTypeOK, PreparesOurs, Ours, LetGo, files, processes
<1>2. ASSUME NEW k \in Calls PROVE CallOK(k)'
  <2>1. /\ CallOK(k) /\ svc'[k] = (IF svc[k] = "idle" THEN "idle" ELSE "released")
        /\ ~record[k] /\ svc[k] \in {"idle", "lost", "closed", "released"} /\ k # 0
    BY <1>0 DEF RuntimeInv, LetGo, Reaped, Releasing, Over, Calls
  <2> QED BY <1>0, <2>1 DEF CallOK, CallInv, HostInv, Live, files, historyVars, processes, Attached,
                            Stopping, Starting, Recorded
<1> QED BY <1>1, <1>2 DEF RuntimeInv

-----------------------------------------------------------------------------
(* The theorems *)

LEMMA NextPreserves == RuntimeInv /\ [Next]_runtimeVars => RuntimeInv'
<1> SUFFICES ASSUME RuntimeInv, [Next]_runtimeVars PROVE RuntimeInv'
  OBVIOUS
<1>1. CASE Preparation \/ StrangerComes \/ StrangerLeaves
  BY <1>1, PreparationSteps, RemoveStaleStep DEF Preparation
<1>2. CASE BackendDies \/ ReleaseContainer \/ ReapKills \/ Reaped
  BY <1>2, BackendDiesStep, ReleaseContainerStep, ReapKillsStep, ReapedStep
<1>3. ASSUME NEW k \in Calls, Call(k) PROVE RuntimeInv'
  BY <1>3, SpawnStep, ProcessStep, SpawnedStep, SpawnFailsStep, CancelStep, TimesOutStep,
     CompletesStep, ClosesStep, StopLooksStep, SignalsStep, KillsStep DEF Call
<1>4. ASSUME NEW k \in Calls, Agent(k) PROVE RuntimeInv'
  BY <1>4, RemoteWritesStep, RemoteChecksStep, RemoteEndsStep, AgentForksStep, KidsEndStep,
     ClientDiesStep, PidReusedStep DEF Agent
<1>5. ASSUME NEW k \in Calls, ReapTakes(k) PROVE RuntimeInv'
  BY <1>5, ReapTakesStep
<1>6. CASE UNCHANGED runtimeVars
  BY <1>6 DEF runtimeVars, containerVars, historyVars, processes, files, RuntimeInv, RuntimeTypeOK,
              PreparesOurs, Ours, CallOK, CallInv, HostInv, ContainerInv, Live, Stops, Starting,
              Recorded
<1> QED BY <1>1, <1>2, <1>3, <1>4, <1>5, <1>6 DEF Next

(* The inductive invariant: what the backend, the shell in the container or *)
(* the process group on the host, and the files between them know of a call *)
(* at each point of its life, whichever of them dies: from the moment the   *)
(* process exists until the call is let go of, a working host process is in *)
(* the hands of the start, has its record, is in the reaper's hands, or is  *)
(* one that no record leads to.                                             *)
THEOREM RuntimeInvariant == Spec => []RuntimeInv
<1> QED BY InitEstablishes, NextPreserves, PTL DEF Spec

(* After a Stop or a timeout that did not raise the agent neither runs nor  *)
(* starts later; after a release nothing works in the container, and on the *)
(* host only an agent whose stop raised or to which no record led, and what *)
(* an agent had left running before.                                        *)
THEOREM StopIsFinal == Spec => []StoppedStaysStopped
<1>1. RuntimeInv => StoppedStaysStopped
  BY DEF RuntimeInv, RuntimeTypeOK, StoppedStaysStopped, CallOK, CallInv, HostInv, ContainerInv,
         Stops, Live, Recorded, Starting
<1> QED BY <1>1, RuntimeInvariant, PTL

(* Preparing, undoing and releasing touch neither a container of another    *)
(* owner under the conversation's name nor a process with a reused number.  *)
LEMMA StepSparesStrangers ==
  ASSUME RuntimeInv, [Next]_runtimeVars
  PROVE  [/\ container.owner = "other" => container' = container \/ StrangerLeaves
          /\ \A k \in Calls : reused[k] => reused'[k]]_runtimeVars
<1> SUFFICES ASSUME Next
             PROVE  /\ container.owner = "other" => container' = container \/ StrangerLeaves
                    /\ \A k \in Calls : reused[k] => reused'[k]
  OBVIOUS
<1>0. RuntimeTypeOK /\ PreparesOurs
  BY DEF RuntimeInv
<1>1. ASSUME container.owner = "other" PROVE container' = container \/ StrangerLeaves
  <2>1. container = Foreign
    BY <1>0, <1>1 DEF RuntimeTypeOK, Absent, Ours
  <2>2. CASE Preparation
    BY <1>0, <2>1, <2>2, RuntimeAssumption
       DEF Preparation, PrepareHost, Inspect, RemoveStale, Create, Bootstrap, Undo, TurnEnds,
           CallFrame, PreparesOurs, Foreign, Absent
  <2>3. CASE StrangerComes \/ BackendDies \/ ReapKills \/ Reaped
    BY <2>1, <2>3 DEF StrangerComes, BackendDies, ReapKills, Reaped, Foreign, Absent
  <2>4. CASE ReleaseContainer
    BY <2>1, <2>4 DEF ReleaseContainer, MayRemove, Foreign, Absent
  <2>5. ASSUME NEW k \in Calls, Call(k) \/ Agent(k) \/ ReapTakes(k)
        PROVE  container' = container
    BY <2>5 DEF Call, Spawn, Process, Spawned, SpawnFails, Cancel, TimesOut, Completes, Closes,
                StopLooks, Signals, Kills, CallFrame, Agent, RemoteWrites, RemoteChecks, RemoteEnds,
                AgentForks, KidsEnd, ClientDies, RemoteFrame, PidReused, containerVars, ReapTakes
  <2> QED BY <2>2, <2>3, <2>4, <2>5 DEF Next
<1>2. ASSUME NEW j \in Calls, reused[j] PROVE reused'[j]
  <2>0. reused[j] => remote[j] = "gone"
    BY DEF RuntimeInv, CallOK, HostInv, ContainerInv
  <2>1. CASE Preparation \/ StrangerComes \/ StrangerLeaves \/ BackendDies
    BY <1>2, <2>1 DEF Preparation, PrepareHost, Inspect, RemoveStale, Create, Bootstrap, Undo,
                      TurnEnds, StrangerComes, StrangerLeaves, BackendDies, CallFrame, PrepareFrame
  <2>2. CASE ReleaseContainer \/ Reaped
    BY <1>2, <2>2 DEF ReleaseContainer, Reaped
  <2>3. CASE ReapKills
    <3>1. CASE SameProcess(reaping) /\ KillGroup(reaping)
      <4>1. reaping # j
        BY <1>2, <2>0, <3>1 DEF SameProcess, Holder
      <4> QED BY <1>0, <1>2, <3>1, <4>1 DEF KillGroup, RuntimeTypeOK
    <3>2. CASE reused' = reused
      BY <1>2, <3>2
    <3> QED BY <2>3, <3>1, <3>2 DEF ReapKills
  <2>4. ASSUME NEW k \in Calls, PidReused(k) PROVE reused'[j]
    BY <1>0, <1>2, <2>4 DEF PidReused, RuntimeTypeOK
  <2>5. ASSUME NEW k \in Calls, \/ Call(k) \/ RemoteWrites(k) \/ RemoteChecks(k) \/ RemoteEnds(k)
                                \/ AgentForks(k) \/ KidsEnd(k) \/ ClientDies(k) \/ ReapTakes(k)
        PROVE  reused'[j]
    BY <1>2, <2>5 DEF Call, Spawn, Process, Spawned, SpawnFails, Cancel, TimesOut, Completes, Closes,
                StopLooks, Signals, Kills, CallFrame, RemoteWrites, RemoteChecks, RemoteEnds,
                AgentForks, KidsEnd, ClientDies, RemoteFrame, ReapTakes
  <2> QED BY <2>1, <2>2, <2>3, <2>4, <2>5 DEF Next, Agent
<1> QED BY <1>1, <1>2

THEOREM StrangersSurvive == Spec => StrangersAreSpared
<1>1. RuntimeInv /\ [Next]_runtimeVars =>
        [/\ container.owner = "other" => container' = container \/ StrangerLeaves
         /\ \A k \in Calls : reused[k] => reused'[k]]_runtimeVars
  BY StepSparesStrangers
<1> QED BY <1>1, RuntimeInvariant, PTL DEF Spec, StrangersAreSpared
=============================================================================
