------------------------------- MODULE Runtime -------------------------------
(* Where the calls of one conversation run.  A workspace that is a copy has *)
(* a container of its own, prepared for each turn, and a call is a local    *)
(* `docker exec` client of a shell inside it; an external workspace has the *)
(* agent as a local process group.  A call may be cancelled, time out, lose *)
(* its client or be left behind by a backend that dies; the cancellation    *)
(* marker and the pid file are all that the two sides share.  An agent      *)
(* starts processes of its own, and they may outlive it.                    *)
EXTENDS Integers, FiniteSets

CONSTANTS MaxCalls,       \* calls of the conversation, one after the other
          MaxContainers,  \* containers made under its name
          MaxFaults       \* failing commands, dead clients, crashes, strangers

ASSUME RuntimeAssumption == MaxCalls \in Nat /\ MaxContainers \in Nat /\ MaxFaults \in Nat

Calls == 1 .. MaxCalls
Absent == [id |-> 0, owner |-> "none", ready |-> FALSE]

VARIABLES kind,                    \* "container" or "host"
          container, made,         \* what docker has under the name; ids given out
          prep, seen,              \* the prepare thread and the container it means
          svc,                     \* where the backend is in each call
          client, remote,          \* the local process and the one that works
          kids,                    \* processes which that one has started
          pid, marker, record,     \* files of the role home
          reaping,                 \* the group whose record the reaper has taken, or 0
          reused,                  \* a stranger's process got the call's process id
          up,                      \* the backend serves, or recovers
          stopped, raised, early, orphan,   \* history
          missed,                  \* history: no record led the reaper to the group
          headless,                \* history: ended, and processes it started did not
          faults

processes == <<client, remote, kids, headless>>
files == <<pid, marker, record>>
containerVars == <<container, made, prep, seen>>
historyVars == <<stopped, raised, early, orphan, missed>>
runtimeVars ==
  <<kind, containerVars, svc, processes, files, reaping, reused, up, historyVars, faults>>

Each(v) == [k \in Calls |-> v]

Init ==
  /\ kind \in {"container", "host"}
  /\ container = Absent /\ made = 0 /\ prep = "idle" /\ seen = 0
  /\ svc = Each("idle") /\ client = Each("none") /\ remote = Each("none")
  /\ pid = Each(FALSE) /\ marker = Each("none") /\ record = Each(FALSE)
  /\ kids = Each(FALSE) /\ reused = Each(FALSE) /\ reaping = 0
  /\ up = "serving"
  /\ stopped = {} /\ raised = {} /\ early = {} /\ orphan = {} /\ missed = {} /\ headless = {}
  /\ faults = 0

Fault == faults < MaxFaults /\ faults' = faults + 1

Over(k) == svc[k] \in {"closed", "released"}
Quiet == \A k \in Calls : svc[k] = "idle" \/ Over(k)
Live(k) == remote[k] \in {"asked", "wrote", "running"}

(* A container ends with all that works in it, and its clients with that;   *)
(* SIGKILL ends a whole process group.                                      *)
EndAll(S) ==
  /\ kids' = [k \in Calls |-> kids[k] /\ k \notin S]
  /\ UNCHANGED headless
  /\ remote' = [k \in Calls |-> IF k \in S /\ Live(k) THEN "gone" ELSE remote[k]]
  /\ client' = [k \in Calls |-> IF k \in S /\ Live(k) THEN "exited" ELSE client[k]]

-----------------------------------------------------------------------------
(* Preparation, in a thread that a cancellation waits for *)
Goto(step) == prep' = step

PrepareFrame == UNCHANGED <<kind, svc, files, reaping, reused, up, historyVars>>

(* Every role is validated first; a host turn needs only its tools. *)
PrepareHost ==
  /\ up = "serving" /\ prep = "idle" /\ Quiet /\ kind = "host"
  /\ Goto("ready")
  /\ PrepareFrame /\ UNCHANGED <<container, made, seen, processes, faults>>

(* A running container of ours with this configuration that is ready is     *)
(* used again; one of another owner is refused, and anything else replaced. *)
Inspect ==
  /\ up = "serving" /\ prep = "idle" /\ Quiet /\ kind = "container"
  /\ container.owner # "other"
  /\ seen' = container.id
  /\ \/ container = Absent /\ Goto("create")
     \/ container.ready /\ Goto("ready")
     \/ container # Absent /\ Goto("remove")     \* stopped, another image or configuration
  /\ PrepareFrame /\ UNCHANGED <<container, made, processes, faults>>

RemoveStale ==
  /\ prep = "remove"
  /\ \/ /\ Goto("create")
        /\ container' = IF container.id = seen THEN Absent ELSE container
        /\ EndAll(Calls)
        /\ UNCHANGED faults
     \/ Fault /\ Goto("idle") /\ UNCHANGED <<container, processes>>
  /\ PrepareFrame /\ UNCHANGED <<made, seen>>

(* `docker create` may make the container and still fail, and fails if the  *)
(* name was taken meanwhile; seen is then 0, as its id was never printed.   *)
Create ==
  /\ prep = "create"
  /\ \/ /\ container = Absent /\ made < MaxContainers
        /\ made' = made + 1
        /\ container' = [id |-> made', owner |-> "us", ready |-> FALSE]
        /\ \/ seen' = made' /\ Goto("bootstrap") /\ UNCHANGED faults
           \/ Fault /\ seen' = 0 /\ Goto("undo")
     \/ container # Absent /\ seen' = 0 /\ Goto("undo") /\ UNCHANGED <<container, made, faults>>
  /\ PrepareFrame /\ UNCHANGED processes

(* Started, checked, its target seeded, and then marked as ready *)
Bootstrap ==
  /\ prep = "bootstrap"
  /\ \/ /\ container.id = seen
        /\ container' = [container EXCEPT !.ready = TRUE]
        /\ Goto("ready") /\ UNCHANGED faults
     \/ Fault /\ Goto("undo") /\ UNCHANGED container
  /\ PrepareFrame /\ UNCHANGED <<made, seen, processes>>

(* Only what this very creation made is removed: its id, or a container     *)
(* with its creation label, which is the last one made.                     *)
Undo ==
  /\ prep = "undo"
  /\ Goto("idle")
  /\ \/ /\ container' = IF container.owner = "us" /\ container.id = (IF seen = 0 THEN made ELSE seen)
                        THEN Absent ELSE container
        /\ UNCHANGED faults
     \/ Fault /\ UNCHANGED container
  /\ PrepareFrame /\ UNCHANGED <<made, seen, processes>>

(* Another deployment takes the free name, or lets it go again. *)
StrangerComes ==
  /\ container = Absent /\ Fault
  /\ container' = [Absent EXCEPT !.owner = "other"]
  /\ PrepareFrame /\ UNCHANGED <<made, prep, seen, processes>>

StrangerLeaves ==
  /\ container.owner = "other"
  /\ container' = Absent
  /\ PrepareFrame /\ UNCHANGED <<made, prep, seen, processes, faults>>

-----------------------------------------------------------------------------
(* A call, on the backend's side *)
To(k, step) == svc' = [svc EXCEPT ![k] = step]
CallFrame == UNCHANGED <<kind, container, made, seen, reaping, reused, up>>

Spawn(k) ==
  /\ prep = "ready" /\ svc[k] = "idle" /\ Quiet /\ \A j \in 1 .. k - 1 : Over(j)
  /\ To(k, "spawning")
  /\ CallFrame /\ UNCHANGED <<prep, processes, files, historyVars, faults>>

(* The turn is over and the next one prepares again. *)
TurnEnds ==
  /\ prep = "ready" /\ Quiet
  /\ Goto("idle")
  /\ CallFrame /\ UNCHANGED <<svc, processes, files, historyVars, faults>>

Starting(k) == svc[k] \in {"spawning", "abandoned"}

(* The process is made, and works at once; the task that made it is only    *)
(* scheduled.                                                               *)
Process(k) ==
  /\ Starting(k) /\ client[k] = "none"
  /\ client' = [client EXCEPT ![k] = "alive"]
  /\ remote' = [remote EXCEPT ![k] = IF kind = "host" THEN "running" ELSE "asked"]
  /\ CallFrame /\ UNCHANGED <<prep, svc, kids, headless, files, historyVars, faults>>

(* On the host the group is recorded.  A record that cannot be written is   *)
(* only logged, and one of a leader that has ended already may be missing.  *)
Note(k) ==
  \/ kind = "host" /\ record' = [record EXCEPT ![k] = TRUE] /\ UNCHANGED <<missed, faults>>
  \/ (kind = "container" \/ ~Live(k)) /\ UNCHANGED <<record, missed, faults>>
  \/ kind = "host" /\ Fault /\ missed' = missed \cup {k} /\ UNCHANGED record

(* The backend has the process in hand.  A cancellation that came meanwhile *)
(* has waited for it, and closes it now.                                    *)
Spawned(k) ==
  /\ Starting(k) /\ client[k] # "none"
  /\ Note(k)
  /\ To(k, IF svc[k] = "spawning" THEN "streaming" ELSE "closing")
  /\ CallFrame /\ UNCHANGED <<prep, processes, pid, marker, stopped, raised, early, orphan>>

SpawnFails(k) ==
  /\ Starting(k) /\ client[k] = "none"
  /\ Fault
  /\ To(k, "closed")
  /\ CallFrame /\ UNCHANGED <<prep, processes, files, historyVars>>

AfterCancel(k) == IF svc[k] = "spawning" THEN "abandoned" ELSE "closing"

Cancel(k) ==
  /\ svc[k] \in {"spawning", "streaming"}
  /\ To(k, AfterCancel(k))
  /\ stopped' = stopped \cup {k}
  /\ CallFrame /\ UNCHANGED <<prep, processes, files, raised, early, orphan, missed, faults>>

MarkWhenStarted(k) ==
  /\ marker' = [marker EXCEPT ![k] = IF kind = "container" /\ pid[k] THEN "set" ELSE @]
  /\ UNCHANGED faults

(* The marker is written once; on the host there is none. *)
Mark(k) ==
  IF kind = "host" \/ marker[k] # "none" THEN UNCHANGED <<marker, faults>>
  ELSE \/ marker' = [marker EXCEPT ![k] = "set"] /\ UNCHANGED faults
       \/ Fault /\ marker' = [marker EXCEPT ![k] = "failed"]

(* Neither output nor a sign of life for the idle timeout *)
TimesOut(k) ==
  /\ svc[k] = "streaming"
  /\ Mark(k)
  /\ To(k, "closing")
  /\ stopped' = stopped \cup {k}
  /\ CallFrame /\ UNCHANGED <<prep, processes, pid, record, raised, early, orphan, missed>>

(* remove_pid, at the end of every call *)
RemoveFiles(k) == pid' = [pid EXCEPT ![k] = FALSE] /\ record' = [record EXCEPT ![k] = FALSE]

(* The stream ends when the local process has exited, for whatever reason. *)
Completes(k) ==
  /\ svc[k] = "streaming" /\ client[k] = "exited"
  /\ To(k, "closed") /\ RemoveFiles(k)
  /\ CallFrame /\ UNCHANGED <<prep, processes, marker, historyVars, faults>>

(* Closing begins with the marker.  Nothing is stopped if the local process *)
(* has exited by then.                                                      *)
Closes(k) ==
  /\ svc[k] = "closing"
  /\ Mark(k)
  /\ IF client[k] = "exited" THEN To(k, "closed") /\ RemoveFiles(k)
                             ELSE To(k, "marked") /\ UNCHANGED <<pid, record>>
  /\ CallFrame /\ UNCHANGED <<prep, processes, historyVars>>

HasProcess(k) == IF kind = "host" THEN TRUE ELSE pid[k]

(* No pid file: the shell has not started and will find the marker. *)
StopLooks(k) ==
  /\ svc[k] = "marked"
  /\ IF HasProcess(k) THEN To(k, "signalling") /\ UNCHANGED raised
     ELSE /\ To(k, "killing")
          /\ raised' = IF marker[k] = "failed" THEN raised \cup {k} ELSE raised
  /\ CallFrame
  /\ UNCHANGED <<prep, processes, files, stopped, early, orphan, missed, faults>>

(* The process that works ends, its client with it, and what it started     *)
(* does not.                                                                *)
LeaderEnds(k) ==
  /\ remote' = [remote EXCEPT ![k] = "gone"]
  /\ client' = [client EXCEPT ![k] = "exited"]
  /\ headless' = IF kids[k] THEN headless \cup {k} ELSE headless
  /\ UNCHANGED kids

(* INT, TERM and KILL, each given time: the process ends and is the only    *)
(* one waited for, or none of them gets through and the stop raises.        *)
Signals(k) ==
  /\ svc[k] = "signalling"
  /\ \/ client[k] = "alive" /\ LeaderEnds(k) /\ UNCHANGED <<raised, faults>>
     \/ client[k] = "exited" /\ UNCHANGED <<processes, raised, faults>>
     \/ Fault /\ raised' = raised \cup {k} /\ UNCHANGED processes
  /\ To(k, "killing")
  /\ CallFrame /\ UNCHANGED <<prep, files, stopped, early, orphan, missed>>

(* A local process that has not exited is killed: with its group on the     *)
(* host, where the kill may be refused, and only the client of a container. *)
Kills(k) ==
  /\ svc[k] = "killing"
  /\ \/ client[k] = "exited" /\ UNCHANGED <<processes, raised, faults>>
     \/ client[k] = "alive" /\ kind = "host" /\ EndAll({k}) /\ UNCHANGED <<raised, faults>>
     \/ /\ client[k] = "alive" /\ kind = "host" /\ Fault
        /\ raised' = raised \cup {k} /\ UNCHANGED processes
     \/ /\ client[k] = "alive" /\ kind = "container"
        /\ client' = [client EXCEPT ![k] = "exited"]
        /\ UNCHANGED <<remote, kids, headless, raised, faults>>
  /\ To(k, "closed") /\ RemoveFiles(k)
  /\ CallFrame /\ UNCHANGED <<prep, marker, stopped, early, orphan, missed>>

-----------------------------------------------------------------------------
(* A call, on the side of the process that works *)
RemoteFrame ==
  UNCHANGED <<kind, containerVars, svc, marker, record, reaping, reused, up, stopped, raised, missed>>

RemoteWrites(k) ==
  /\ remote[k] = "asked"
  /\ remote' = [remote EXCEPT ![k] = "wrote"]
  /\ pid' = [pid EXCEPT ![k] = TRUE]
  /\ RemoteFrame /\ UNCHANGED <<client, kids, headless, early, orphan, faults>>

(* The shell looks for the marker after it wrote its pid, and becomes the   *)
(* agent if there is none.                                                  *)
RemoteChecks(k) ==
  /\ remote[k] = "wrote"
  /\ IF marker[k] = "set" THEN LeaderEnds(k) /\ pid' = [pid EXCEPT ![k] = FALSE]
     ELSE remote' = [remote EXCEPT ![k] = "running"] /\ UNCHANGED <<client, kids, headless, pid>>
  /\ RemoteFrame /\ UNCHANGED <<early, orphan, faults>>

RemoteEnds(k) ==
  /\ remote[k] = "running"
  /\ LeaderEnds(k)
  /\ RemoteFrame /\ UNCHANGED <<pid, early, orphan, faults>>

AgentForks(k) ==
  /\ remote[k] = "running" /\ ~kids[k]
  /\ kids' = [kids EXCEPT ![k] = TRUE]
  /\ RemoteFrame /\ UNCHANGED <<client, remote, headless, pid, early, orphan, faults>>

KidsEnd(k) ==
  /\ kids[k]
  /\ kids' = [kids EXCEPT ![k] = FALSE]
  /\ RemoteFrame /\ UNCHANGED <<client, remote, headless, pid, early, orphan, faults>>

(* The docker client loses its daemon or is killed; what it asked for goes  *)
(* on in the container.                                                     *)
ClientDies(k) ==
  /\ kind = "container" /\ client[k] = "alive" /\ Live(k)
  /\ Fault
  /\ client' = [client EXCEPT ![k] = "exited"]
  /\ early' = IF remote[k] = "asked" THEN early \cup {k} ELSE early
  /\ orphan' = orphan \cup {k}
  /\ RemoteFrame /\ UNCHANGED <<remote, kids, headless, pid>>

(* The process id of an ended group, which no process has as its group,     *)
(* belongs to somebody else.                                                *)
PidReused(k) ==
  /\ kind = "host" /\ remote[k] = "gone" /\ ~kids[k] /\ ~reused[k]
  /\ record[k] \/ reaping = k
  /\ reused' = [reused EXCEPT ![k] = TRUE]
  /\ UNCHANGED <<kind, containerVars, svc, processes, files, reaping, up, historyVars, faults>>

-----------------------------------------------------------------------------
(* The backend dies; what it started goes on without it.  A process that    *)
(* was not noted yet, and one whose record the reaper has taken, are lost.  *)
Unnoted == {k \in Calls : kind = "host" /\ Starting(k) /\ client[k] # "none"}

BackendDies ==
  /\ up = "serving" \/ reaping # 0
  /\ Fault
  /\ up' = "recovering" /\ reaping' = 0
  /\ missed' = missed \cup Unnoted \cup ({reaping} \ {0})
  /\ svc' = [k \in Calls |-> IF svc[k] = "idle" \/ Over(k) THEN svc[k] ELSE "lost"]
  /\ Goto("idle")
  /\ UNCHANGED <<kind, container, made, seen, processes, files, reused,
                 stopped, raised, early, orphan>>

(* Recovery, the deletion of the conversation or the end of an evaluation   *)
Releasing ==
  /\ prep = "idle" /\ reaping = 0
  /\ \A k \in Calls : svc[k] = "idle" \/ svc[k] = "lost" \/ Over(k)

LetGo ==
  /\ up' = "serving"
  /\ svc' = [k \in Calls |-> IF svc[k] = "idle" THEN "idle" ELSE "released"]

ReleaseFrame == UNCHANGED <<kind, made, prep, seen, pid, marker>>

AnyContainer(c) == TRUE

(* The owner label, asked of whatever has the name *)
MayRemove(c) == c = Absent \/ c.owner = "us"

(* The container is removed; one of another owner is refused, and nothing   *)
(* is let go.                                                               *)
ReleaseContainer ==
  /\ Releasing /\ kind = "container"
  /\ IF MayRemove(container)
     THEN container' = Absent /\ EndAll(Calls) /\ LetGo
     ELSE UNCHANGED <<container, processes, up, svc>>
  /\ ReleaseFrame /\ UNCHANGED <<record, reaping, reused, historyVars, faults>>

(* A record is deleted as soon as it has been read. *)
ReapTakes(k) ==
  /\ Releasing /\ kind = "host" /\ record[k]
  /\ reaping' = k
  /\ record' = [record EXCEPT ![k] = FALSE]
  /\ ReleaseFrame
  /\ UNCHANGED <<container, processes, svc, reused, up, historyVars, faults>>

(* Who has the number now, and whether it started when the record says, as  *)
(* only the agent's own process did *)
Holder(k) ==
  IF remote[k] = "running" THEN "agent" ELSE IF reused[k] THEN "stranger" ELSE "nobody"

AnyProcess(k) == Holder(k) # "nobody"

SameProcess(k) == Holder(k) = "agent"

(* A signal to the group reaches whoever has the number. *)
KillGroup(k) ==
  /\ EndAll({k})
  /\ reused' = [reused EXCEPT ![k] = FALSE]

(* The group is killed if its leader is still the recorded process, in one  *)
(* step with that check; a kill that is refused is only logged.             *)
ReapKills ==
  /\ reaping # 0
  /\ \/ SameProcess(reaping) /\ KillGroup(reaping) /\ UNCHANGED <<missed, faults>>
     \/ /\ SameProcess(reaping) /\ Fault
        /\ missed' = missed \cup {reaping} /\ UNCHANGED <<processes, reused>>
     \/ ~SameProcess(reaping) /\ UNCHANGED <<processes, reused, missed, faults>>
  /\ reaping' = 0
  /\ ReleaseFrame
  /\ UNCHANGED <<container, svc, record, up, stopped, raised, early, orphan>>

(* Every record has been looked at. *)
Reaped ==
  /\ Releasing /\ kind = "host" /\ \A k \in Calls : ~record[k]
  /\ LetGo
  /\ ReleaseFrame
  /\ UNCHANGED <<container, processes, record, reaping, reused, historyVars, faults>>

Preparation ==
  \/ PrepareHost \/ Inspect \/ RemoveStale \/ Create \/ Bootstrap \/ Undo \/ TurnEnds

Call(k) ==
  \/ Spawn(k) \/ Process(k) \/ Spawned(k) \/ SpawnFails(k) \/ Cancel(k) \/ TimesOut(k)
  \/ Completes(k) \/ Closes(k) \/ StopLooks(k) \/ Signals(k) \/ Kills(k)

Agent(k) ==
  \/ RemoteWrites(k) \/ RemoteChecks(k) \/ RemoteEnds(k) \/ AgentForks(k) \/ KidsEnd(k)
  \/ ClientDies(k) \/ PidReused(k)

Next ==
  \/ Preparation \/ StrangerComes \/ StrangerLeaves
  \/ BackendDies \/ ReleaseContainer \/ ReapKills \/ Reaped
  \/ \E k \in Calls : Call(k) \/ Agent(k) \/ ReapTakes(k)

Spec == Init /\ [][Next]_runtimeVars

-----------------------------------------------------------------------------
(* After a Stop or a timeout that did not raise, the agent neither runs nor *)
(* starts later, however the shell's start and the Stop interleave, unless  *)
(* its client had died by itself.  After a release nothing of a container's *)
(* calls runs; on the host the agent does not, except one whose stop raised *)
(* or to which no record led (never written, or taken and the kill refused  *)
(* or never sent), and processes it had started only if they had outlived   *)
(* it before.                                                               *)
StoppedStaysStopped ==
  \A k \in Calls :
    /\ svc[k] = "closed" /\ k \in stopped \ (raised \cup orphan) => remote[k] # "running"
    /\ svc[k] = "released" /\ kind = "container" => ~Live(k) /\ ~kids[k]
    /\ svc[k] = "released" /\ kind = "host" /\ k \notin missed \cup raised =>
         remote[k] # "running" /\ (kids[k] => k \in headless)

(* Whatever the backend prepares, undoes or releases, a container of        *)
(* another owner goes only when its owner removes it, and a process that    *)
(* merely got the number of an ended one is not killed ("a group is only    *)
(* signalled while both still agree").                                      *)
StrangersAreSpared ==
  [][/\ container.owner = "other" => container' = container \/ StrangerLeaves
     /\ \A k \in Calls : reused[k] => reused'[k]]_runtimeVars

(* What the comment on PID_WRAPPER says: "the client can exit before the    *)
(* shell has started, and the `.cancel` check closes that window".          *)
EarlyExitIsNoWindow ==
  \A k \in early : svc[k] = "closed" => remote[k] # "running"
=============================================================================
