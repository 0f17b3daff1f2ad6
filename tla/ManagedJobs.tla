----------------------------- MODULE ManagedJobs -----------------------------
(***************************************************************************)
(* Managed jobs: the callbacks of the Launcher (api/jobs.py,               *)
(* services/jobs.py) over the job tables (storage/jobs.py) and the         *)
(* metadata files in the experiment directories of one workspace.          *)
(*                                                                         *)
(* A callback is authorized in one step of the event loop and handled in   *)
(* another.  Its handler awaits nothing, so no other handler runs during   *)
(* it; a crash, an agent that works on the files and a failing write come  *)
(* between its durable writes.  The check of the expected metadata and the *)
(* rename that follows it are one step.                                    *)
(*                                                                         *)
(* Left out: axes, titles, the identities repeated in a pending entry, the *)
(* tokens themselves (a turn has a live one at most while it is running).  *)
(***************************************************************************)
EXTENDS Naturals

CONSTANTS
  Turns,
  Conversations,
  ConversationOf,   \* the conversation of each turn
  Paths,            \* directories below the logs root
  Jobs,             \* job ids (uuid4), each used once; the experiment id a
                    \* registration makes up is named by its job
  Statuses,         \* the statuses a Launcher reports
  None

ASSUME JobsAssumption ==
  /\ ConversationOf \in [Turns -> Conversations]
  /\ None \notin Jobs \cup Turns \cup Paths
  /\ "requested" \notin Statuses /\ "none" \notin Statuses

VARIABLES
  \* durable
  turn,        \* turns.status: "unused", "running", "ended" or "deleted"
  job,         \* execution_jobs
  row,         \* experiments, by relative_path
  link,        \* conversation_experiments: <<conversation, experiment>>
  lastEvent,   \* the last event of a job in turn_events, by its status
  file,        \* experiment.meta.json in each directory
  \* the process
  authorized,  \* turns with an authorized callback that is not yet handled
  call,        \* the simulation registration that is being handled
  \* bookkeeping of the model
  used,        \* job ids taken from uuid4
  copied,      \* directories whose metadata someone copied or was copied
  touched      \* the metadata at call.path was removed during the call

rows == <<job, row, link, lastEvent>>
process == <<authorized, call>>
vars == <<turn, rows, file, process, used, copied, touched>>

NoJob == [turn |-> None, kind |-> "none", path |-> None, id |-> None, status |-> "none"]
NoRow == [id |-> None, status |-> "none", job |-> None]
NoFile == [id |-> None, pending |-> None, origin |-> None]
NoCall == [step |-> "idle", turn |-> None, path |-> None, job |-> None, meta |-> NoFile]

Files == [id : Jobs \cup {None}, pending : Jobs \cup {None}, origin : Jobs \cup {None}]

TypeOK ==
  /\ turn \in [Turns -> {"unused", "running", "ended", "deleted"}]
  /\ job \in [Jobs -> [turn : Turns \cup {None}, kind : {"none", "simulation", "artifact"},
                       path : Paths \cup {None}, id : Jobs \cup {None},
                       status : Statuses \cup {"none", "requested"}]]
  /\ row \in [Paths -> [id : Jobs \cup {None}, status : Statuses \cup {"none", "requested"},
                        job : Jobs \cup {None}]]
  /\ link \subseteq Conversations \X Jobs
  /\ lastEvent \in [Jobs -> Statuses \cup {"none", "requested"}]
  /\ file \in [Paths -> Files]
  /\ authorized \subseteq Turns
  /\ call \in [step : {"idle", "recover", "recoverLost", "publish", "replace", "commit", "finalize",
                       "registered", "conflict", "error"},
               turn : Turns \cup {None}, path : Paths \cup {None}, job : Jobs \cup {None}, meta : Files]
  /\ used \subseteq Jobs /\ copied \subseteq Paths /\ touched \in BOOLEAN

Init ==
  /\ turn = [t \in Turns |-> "unused"]
  /\ job = [j \in Jobs |-> NoJob]
  /\ row = [p \in Paths |-> NoRow]
  /\ link = {}
  /\ lastEvent = [j \in Jobs |-> "none"]
  /\ file = [p \in Paths |-> NoFile]
  /\ authorized = {}
  /\ call = NoCall
  /\ used = {} /\ copied = {} /\ touched = FALSE

Serving == call.step = "idle"

-----------------------------------------------------------------------------
(* The turns and conversations, as TurnService moves them. *)

BeginTurn(t) ==
  /\ Serving
  /\ turn[t] = "unused"
  /\ \A u \in Turns : ConversationOf[u] = ConversationOf[t] => turn[u] # "running"
  /\ turn' = [turn EXCEPT ![t] = "running"]
  /\ UNCHANGED <<rows, file, process, used, copied, touched>>

(* Turns.finish *)
EndTurn(t) ==
  /\ Serving
  /\ turn[t] = "running"
  /\ turn' = [turn EXCEPT ![t] = "ended"]
  /\ UNCHANGED <<rows, file, process, used, copied, touched>>

(* Conversations.delete: jobs, links and events go with the conversation,  *)
(* the experiments and the directories stay.                               *)
DeleteConversation(c) ==
  LET gone == {t \in Turns : ConversationOf[t] = c}
      lost == {j \in Jobs : job[j].turn \in gone}
  IN
  /\ Serving
  /\ \E t \in gone : turn[t] \in {"running", "ended"}
  /\ turn' = [t \in Turns |-> IF t \in gone THEN "deleted" ELSE turn[t]]
  /\ job' = [j \in Jobs |-> IF j \in lost THEN NoJob ELSE job[j]]
  /\ lastEvent' = [j \in Jobs |-> IF j \in lost THEN "none" ELSE lastEvent[j]]
  /\ link' = {l \in link : l[1] # c}
  /\ UNCHANGED <<row, file, process, used, copied, touched>>

-----------------------------------------------------------------------------
(* require_capability: the dependency runs, and the handler later. *)
Authorize(t) ==
  /\ Serving
  /\ turn[t] = "running"
  /\ authorized' = authorized \cup {t}
  /\ UNCHANGED <<turn, rows, file, call, used, copied, touched>>

(* JobService._owner, and _require_running in the transactions *)
AnyOwner(t) == turn[t] # "deleted"
Owner(t) == turn[t] = "running"

(* The handlers refuse the callback of a turn that has ended or is gone. *)
Refuse(t) ==
  /\ Serving
  /\ t \in authorized
  /\ ~Owner(t)
  /\ authorized' = authorized \ {t}
  /\ UNCHANGED <<turn, rows, file, call, used, copied, touched>>

-----------------------------------------------------------------------------
(* JobService.register_run, in steps with one durable write each.  The     *)
(* metadata is first reconciled with the tables, then the job is committed *)
(* and the metadata says so.                                               *)

Continue(step, meta) == call' = [call EXCEPT !.step = step, !.meta = meta]
Answer(r) == call' = [call EXCEPT !.step = r, !.meta = NoFile]

Register(t, p, j) ==
  /\ Serving
  /\ t \in authorized /\ Owner(t)
  /\ j \notin used
  /\ used' = used \cup {j}
  /\ authorized' = authorized \ {t}
  /\ call' = [step |-> "recover", turn |-> t, path |-> p, job |-> j, meta |-> file[p]]
  /\ UNCHANGED <<turn, rows, file, copied, touched>>

(* _finalize_metadata: the pending registration becomes the origin *)
Finalized(m) == [m EXCEPT !.pending = None, !.origin = m.pending]

(* What the tables say of the job that metadata m at p was left pending    *)
(* for: nothing, or that it was committed, or something else.              *)
Committed(m) == m.pending # None /\ job[m.pending] # NoJob
Contradicted(m, p) ==
  \/ job[m.pending].id # m.id
  \/ job[m.pending].path # p
  \/ job[m.pending].kind # "simulation"

Disagree(m, p) == m.id # None /\ row[p].id # None /\ m.id # row[p].id

Reconciled(m) ==
  IF m = NoFile THEN Continue("publish", m)
  ELSE IF m.pending = None THEN Continue("commit", m)
  ELSE Continue("replace", m)

(* _recover_metadata, and after the first read the comparison with the row *)
Recover ==
  LET m == call.meta
      p == call.path
      now == IF Committed(m) THEN Finalized(m) ELSE m
  IN
  /\ call.step \in {"recover", "recoverLost"}
  /\ \/ /\ Committed(m)
        /\ Contradicted(m, p) \/ file[p] # m
        /\ Answer("conflict")
        /\ UNCHANGED file
     \/ /\ Committed(m) => ~Contradicted(m, p) /\ file[p] = m
        /\ file' = IF Committed(m) THEN [file EXCEPT ![p] = now] ELSE file
        /\ IF call.step = "recover" /\ Disagree(now, p)
           THEN Answer("conflict")
           ELSE Reconciled(now)
  /\ UNCHANGED <<turn, rows, authorized, used, copied, touched>>

PublishFreshId ==
  LET p == call.path
      mine == [id |-> call.job, pending |-> call.job, origin |-> None]
  IN
  /\ call.step = "publish"
  /\ IF file[p] = NoFile
     THEN file' = [file EXCEPT ![p] = mine] /\ Continue("commit", mine)
     ELSE UNCHANGED file /\ Continue("recoverLost", file[p])
  /\ UNCHANGED <<turn, rows, authorized, used, copied, touched>>

(* os.link loses to metadata that has appeared, which is then reconciled;  *)
(* the id is the one the path has in the tables, if it has one.            *)
Publish ==
  LET p == call.path
      mine == [id |-> IF row[p].id # None THEN row[p].id ELSE call.job,
               pending |-> call.job, origin |-> None]
  IN
  /\ call.step = "publish"
  /\ IF file[p] = NoFile
     THEN file' = [file EXCEPT ![p] = mine] /\ Continue("commit", mine)
     ELSE UNCHANGED file /\ Continue("recoverLost", file[p])
  /\ UNCHANGED <<turn, rows, authorized, used, copied, touched>>

(* A pending registration that was not committed gives way to this one. *)
Replace ==
  LET p == call.path
      mine == [call.meta EXCEPT !.pending = call.job]
  IN
  /\ call.step = "replace"
  /\ IF file[p] = call.meta
     THEN file' = [file EXCEPT ![p] = mine] /\ Continue("commit", mine)
     ELSE Answer("conflict") /\ UNCHANGED file
  /\ UNCHANGED <<turn, rows, authorized, used, copied, touched>>

(* Jobs.create_simulation: one transaction *)
CommitUnlessSame(p, id) == row[p].id # None => row[p].id = id
Commitable(p, id) ==
  /\ row[p].id # None => row[p].id = id
  /\ \A q \in Paths \ {p} : row[q].id # id

Commit ==
  LET p == call.path
      j == call.job
      id == call.meta.id
  IN
  /\ call.step = "commit"
  /\ IF ~Commitable(p, id)
     THEN Answer("conflict") /\ UNCHANGED rows
     ELSE /\ job' = [job EXCEPT ![j] = [turn |-> call.turn, kind |-> "simulation", path |-> p,
                                        id |-> id, status |-> "requested"]]
          /\ row' = [row EXCEPT ![p] = [id |-> id, status |-> "requested", job |-> j]]
          /\ link' = link \cup {<<ConversationOf[call.turn], id>>}
          /\ lastEvent' = [lastEvent EXCEPT ![j] = "requested"]
          /\ IF call.meta.pending # None
             THEN Continue("finalize", call.meta)
             ELSE Answer("registered")
  /\ UNCHANGED <<turn, file, authorized, used, copied, touched>>

Finalize ==
  LET p == call.path
  IN
  /\ call.step = "finalize"
  /\ IF file[p] = call.meta
     THEN file' = [file EXCEPT ![p] = Finalized(call.meta)] /\ Answer("registered")
     ELSE UNCHANGED file /\ Answer("conflict")
  /\ UNCHANGED <<turn, rows, authorized, used, copied, touched>>

(* The next write of the handler fails: a file cannot be written, the      *)
(* transaction is rolled back.                                             *)
WriteFails ==
  /\ call.step \notin {"idle", "registered", "conflict", "error"}
  /\ Answer("error")
  /\ UNCHANGED <<turn, rows, file, authorized, used, copied, touched>>

(* The response leaves, and the next handler may run. *)
Return ==
  /\ call.step \in {"registered", "conflict", "error"}
  /\ call' = NoCall
  /\ touched' = FALSE
  /\ UNCHANGED <<turn, rows, file, authorized, used, copied>>

-----------------------------------------------------------------------------
(* JobService.register_artifact *)
RegisterArtifact(t, p, j) ==
  /\ Serving
  /\ t \in authorized /\ Owner(t)
  /\ j \notin used
  /\ used' = used \cup {j}
  /\ authorized' = authorized \ {t}
  /\ job' = [job EXCEPT ![j] = [turn |-> t, kind |-> "artifact", path |-> p,
                                id |-> None, status |-> "requested"]]
  /\ lastEvent' = [lastEvent EXCEPT ![j] = "requested"]
  /\ UNCHANGED <<turn, row, link, file, call, copied, touched>>

RowAlways(j, s) ==
  [p \in Paths |-> IF row[p].id # None /\ row[p].id = job[j].id
                   THEN [row[p] EXCEPT !.status = s] ELSE row[p]]

(* The experiment shows the status of the job that was registered last. *)
RowUpdated(j, s) ==
  [p \in Paths |-> IF row[p].id # None /\ row[p].id = job[j].id /\ row[p].job = j
                   THEN [row[p] EXCEPT !.status = s] ELSE row[p]]

(* JobService.update, by a callback of the turn that registered the job:   *)
(* one transaction (Jobs.update).  Any status may follow any other.        *)
Update(t, j, s) ==
  /\ Serving
  /\ t \in authorized /\ Owner(t)
  /\ job[j].turn = t
  /\ job' = [job EXCEPT ![j].status = s]
  /\ row' = RowUpdated(j, s)
  /\ lastEvent' = [lastEvent EXCEPT ![j] = s]
  /\ authorized' = authorized \ {t}
  /\ UNCHANGED <<turn, link, file, call, used, copied, touched>>

-----------------------------------------------------------------------------
(* The process dies, and the next one has interrupted every running turn   *)
(* before it serves (services/recovery.py).  Tokens and callbacks are gone.*)
Crash ==
  /\ turn' = [t \in Turns |-> IF turn[t] = "running" THEN "ended" ELSE turn[t]]
  /\ authorized' = {}
  /\ call' = NoCall
  /\ touched' = FALSE
  /\ UNCHANGED <<rows, file, used, copied>>

(* An agent or a user removes an experiment's directory, or makes a copy   *)
(* of one with its metadata.                                               *)
RemoveDirectory(p) ==
  /\ file[p] # NoFile
  /\ file' = [file EXCEPT ![p] = NoFile]
  /\ copied' = copied \ {p}
  /\ touched' = (touched \/ call.path = p)
  /\ UNCHANGED <<turn, rows, process, used>>

CopyDirectory(p, q) ==
  /\ p # q
  /\ file[p] # NoFile
  /\ file' = [file EXCEPT ![q] = file[p]]
  /\ copied' = copied \cup {p, q}
  /\ UNCHANGED <<turn, rows, process, used, touched>>

Next ==
  \/ \E t \in Turns :
       \/ BeginTurn(t) \/ EndTurn(t) \/ Authorize(t) \/ Refuse(t)
       \/ \E p \in Paths, j \in Jobs : Register(t, p, j) \/ RegisterArtifact(t, p, j)
       \/ \E j \in Jobs, s \in Statuses : Update(t, j, s)
  \/ \E c \in Conversations : DeleteConversation(c)
  \/ Recover \/ Publish \/ Replace \/ Commit \/ Finalize \/ WriteFails \/ Return
  \/ Crash
  \/ \E p \in Paths : RemoveDirectory(p) \/ \E q \in Paths : CopyDirectory(p, q)

Spec == Init /\ [][Next]_vars

-----------------------------------------------------------------------------
(* The metadata of a directory and the tables name the same experiment, no *)
(* experiment has two paths, and settled metadata names a registration     *)
(* that was committed for this very path and experiment, whatever crashed, *)
(* failed or was removed in between (register_run, create_simulation).     *)
IdentitiesAgree ==
  /\ \A p, q \in Paths : row[p].id # None /\ row[p].id = row[q].id => p = q
  /\ \A p \in Paths \ copied :
       /\ file[p].id # None /\ row[p].id # None => file[p].id = row[p].id
       /\ file[p].origin # None =>
            /\ row[p].id = file[p].id
            /\ job[file[p].origin] # NoJob => job[file[p].origin].path = p

(* Nothing a crash or a failed write leaves behind makes a later           *)
(* registration fail: a conflict means that somebody else copied the       *)
(* metadata, or removed it while it was being registered.                  *)
ConflictOnlyAfterEdit ==
  call.step = "conflict" => call.path \in copied \/ touched

(* The job, its experiment, its conversation's list and the last event of  *)
(* the job say the same, also while an older job of the same experiment is *)
(* still reporting (Jobs.create_simulation, Jobs.update).                  *)
RowsFollowJobs ==
  /\ \A j \in Jobs :
       /\ lastEvent[j] = job[j].status
       /\ job[j].kind = "simulation" =>
            /\ row[job[j].path].id = job[j].id
            /\ <<ConversationOf[job[j].turn], job[j].id>> \in link
  /\ \A p \in Paths :
       LET j == row[p].job
       IN j # None /\ job[j] # NoJob => row[p].status = job[j].status /\ job[j].path = p

(* "Storage rechecks ownership and turn state": jobs appear and change     *)
(* only for a turn that is running, also when the callback was authorized  *)
(* before the turn ended or the process restarted; after that they can     *)
(* only disappear with their conversation.                                 *)
EndedTurnsFrozen ==
  [][\A j \in Jobs :
       job'[j] # job[j] =>
         \/ job'[j] # NoJob /\ turn[job'[j].turn] = "running"
         \/ job'[j] = NoJob /\ turn'[job[j].turn] = "deleted"]_vars
=============================================================================
