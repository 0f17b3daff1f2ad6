--------------------------- MODULE ManagedJobsProofs ---------------------------
(* Theorems about ManagedJobs, for any set of turns, conversations,        *)
(* directories and jobs, and any crashes, failing writes and edits.        *)
EXTENDS ManagedJobs, TLAPS

-----------------------------------------------------------------------------
(* The inductive invariant.  Metadata that nobody copied tells the truth   *)
(* (UncopiedTrue); what a registration has read still holds unless its     *)
(* directory was edited (CallTrue); and ids are fresh until a registration *)
(* publishes them (CallKnown).                                             *)

Unpublished == {"recover", "recoverLost", "publish", "replace"}
Uncommitted == Unpublished \cup {"commit"}
Busy == Uncommitted \cup {"finalize"}

JobsKnown ==
  /\ \A j \in Jobs : job[j] # NoJob =>
       /\ j \in used /\ job[j].turn \in Turns
       /\ job[j].kind \in {"simulation", "artifact"}
       /\ job[j].kind = "simulation" => job[j].path \in Paths /\ job[j].id # None
  /\ \A p \in Paths :
       /\ row[p].id \in used \cup {None} /\ row[p].job \in used \cup {None}
       /\ row[p].job # None /\ job[row[p].job] # NoJob => job[row[p].job].kind = "simulation"

Known(m) ==
  /\ m = NoFile \/ m.id # None
  /\ {m.id, m.pending, m.origin} \subseteq used \cup {None}

FilesKnown == \A p \in Paths : Known(file[p])

(* What a pending registration says of its job *)
PendingTrue(m, p) ==
  m.pending # None /\ job[m.pending] # NoJob =>
    job[m.pending].id = m.id /\ job[m.pending].path = p /\ job[m.pending].kind = "simulation"

SettledTrue(m, p) ==
  m.origin # None =>
    /\ row[p].id = m.id
    /\ job[m.origin] # NoJob => job[m.origin].path = p

OneRowPerExperiment == \A p, q \in Paths : row[p].id # None /\ row[p].id = row[q].id => p = q

UncopiedTrue ==
  \A p \in Paths \ copied :
    /\ file[p].id # None /\ row[p].id # None => file[p].id = row[p].id
    /\ SettledTrue(file[p], p)
    /\ PendingTrue(file[p], p)
    /\ \A q \in Paths \ {p} : file[p].id # None =>
         /\ row[q].id # file[p].id
         /\ file[q].id = file[p].id => row[p].id = file[p].id

CallKnown ==
  LET m == call.meta
      j == call.job
  IN
  call.step \in Busy =>
    /\ call.turn \in Turns /\ turn[call.turn] = "running"
    /\ call.path \in Paths /\ j \in used
    /\ Known(m)
    /\ call.step = "publish" => m = NoFile
    /\ call.step \in {"replace", "commit", "finalize"} => m.id # None
    /\ call.step \in Uncommitted =>
         /\ job[j] = NoJob /\ m.origin # j
         /\ \A p \in Paths : row[p].job # j /\ file[p].origin # j
    /\ call.step \in Unpublished =>
         /\ m.id # j /\ m.pending # j
         /\ \A p \in Paths : row[p].id # j /\ file[p].id # j /\ file[p].pending # j
    /\ call.step = "commit" => m.pending \in {None, j}
    /\ call.step = "finalize" =>
         /\ m.pending = j /\ job[j] # NoJob
         /\ job[j].id = m.id /\ job[j].path = call.path /\ job[j].kind = "simulation"

CallTrue ==
  call.step \in Busy =>
    /\ call.path \notin copied =>
         /\ file[call.path] \in {NoFile, call.meta}
         /\ ~touched => file[call.path] = call.meta
    /\ \A p \in Paths \ copied : p # call.path =>
         /\ file[p].pending # call.job
         /\ file[p].id # None /\ file[p].id = call.meta.id => row[p].id = file[p].id

JobsInv ==
  /\ TypeOK /\ JobsKnown /\ FilesKnown /\ CallKnown
  /\ RowsFollowJobs /\ OneRowPerExperiment /\ UncopiedTrue /\ CallTrue
  /\ ConflictOnlyAfterEdit

-----------------------------------------------------------------------------
(* Types *)

LEMMA TypeStep ==
  ASSUME TypeOK, JobsKnown, CallKnown, JobsAssumption, [Next]_vars
  PROVE  TypeOK'
<1> USE DEF TypeOK, rows, process
<1>1. NoJob \in [turn : Turns \cup {None}, kind : {"none", "simulation", "artifact"},
                 path : Paths \cup {None}, id : Jobs \cup {None},
                 status : Statuses \cup {"none", "requested"}]
  BY DEF NoJob
<1>2. NoFile \in Files
  BY DEF NoFile, Files
<1>3. \A m \in Files : /\ Finalized(m) \in Files
                       /\ \A j \in Jobs : [m EXCEPT !.pending = j] \in Files
  BY DEF Finalized, Files
<1>4. ASSUME NEW t \in Turns,
             BeginTurn(t) \/ EndTurn(t) \/ Authorize(t) \/ Refuse(t)
      PROVE  TypeOK'
  BY <1>4 DEF BeginTurn, EndTurn, Authorize, Refuse
<1>5. ASSUME NEW t \in Turns, NEW p \in Paths, NEW j \in Jobs, Register(t, p, j)
      PROVE  TypeOK'
  <2>1. file[p] \in Files
    OBVIOUS
  <2>2. QED
    BY <1>5, <2>1 DEF Register
<1>6. ASSUME NEW t \in Turns, NEW p \in Paths, NEW j \in Jobs, RegisterArtifact(t, p, j)
      PROVE  TypeOK'
  BY <1>6 DEF RegisterArtifact
<1>7. ASSUME NEW t \in Turns, NEW j \in Jobs, NEW s \in Statuses, Update(t, j, s)
      PROVE  TypeOK'
  <2>1. [job[j] EXCEPT !.status = s] \in
          [turn : Turns \cup {None}, kind : {"none", "simulation", "artifact"},
           path : Paths \cup {None}, id : Jobs \cup {None},
           status : Statuses \cup {"none", "requested"}]
    OBVIOUS
  <2>2. \A p \in Paths : [row[p] EXCEPT !.status = s] \in
          [id : Jobs \cup {None}, status : Statuses \cup {"none", "requested"}, job : Jobs \cup {None}]
    OBVIOUS
  <2>3. QED
    BY <1>7, <2>1, <2>2 DEF Update, RowUpdated
<1>8. ASSUME NEW c \in Conversations, DeleteConversation(c)
      PROVE  TypeOK'
  BY <1>1, <1>8 DEF DeleteConversation
<1>9. call.step \in Busy => /\ call.path \in Paths /\ call.job \in Jobs /\ call.turn \in Turns
                           /\ file[call.path] \in Files /\ call.meta \in Files
  BY DEF CallKnown
<1> DEFINE Steps == {"idle", "recover", "recoverLost", "publish", "replace", "commit", "finalize",
                      "registered", "conflict", "error"}
           CallType == [step : Steps, turn : Turns \cup {None}, path : Paths \cup {None},
                        job : Jobs \cup {None}, meta : Files]
<1>a. call \in CallType
  OBVIOUS
<1>b. ASSUME NEW s \in Steps, NEW m \in Files, Continue(s, m)
      PROVE  call' \in CallType
  BY <1>a, <1>b DEF Continue
<1>c. ASSUME NEW s \in Steps, Answer(s)
      PROVE  call' \in CallType
  BY <1>2, <1>a, <1>c DEF Answer
<1>10. CASE WriteFails \/ Return \/ Crash
  <2>1. call' \in CallType
    BY <1>2, <1>c, <1>10 DEF WriteFails, Return, Crash, NoCall
  <2>2. turn' \in [Turns -> {"unused", "running", "ended", "deleted"}]
    BY <1>10 DEF WriteFails, Return, Crash
  <2>3. QED
    BY <1>10, <2>1, <2>2 DEF WriteFails, Return, Crash
<1>11. CASE Recover
  <2>1. call.path \in Paths /\ call.meta \in Files /\ Finalized(call.meta) \in Files
    BY <1>3, <1>9, <1>11 DEF Recover, Busy, Uncommitted, Unpublished
  <2>2. call' \in CallType
    BY <1>b, <1>c, <1>11, <2>1 DEF Recover, Reconciled
  <2>3. file' \in [Paths -> Files]
    BY <1>11, <2>1 DEF Recover
  <2>4. QED
    BY <1>11, <2>2, <2>3 DEF Recover
<1>12. CASE Publish
  <2>1. /\ call.path \in Paths /\ call.job \in Jobs /\ file[call.path] \in Files
        /\ row[call.path].id \in Jobs \cup {None}
    BY <1>9, <1>12 DEF Publish, Busy, Uncommitted, Unpublished
  <2>2. [id |-> IF row[call.path].id # None THEN row[call.path].id ELSE call.job,
         pending |-> call.job, origin |-> None] \in Files
    BY <2>1 DEF Files
  <2>3. call' \in CallType
    BY <1>b, <1>12, <2>1, <2>2 DEF Publish
  <2>4. file' \in [Paths -> Files]
    BY <1>12, <2>1, <2>2 DEF Publish
  <2>5. QED
    BY <1>12, <2>3, <2>4 DEF Publish
<1>13. CASE Replace \/ Finalize
  <2>1. call.path \in Paths /\ call.job \in Jobs /\ call.meta \in Files
    BY <1>9, <1>13 DEF Replace, Finalize, Busy, Uncommitted, Unpublished
  <2>2. Finalized(call.meta) \in Files /\ [call.meta EXCEPT !.pending = call.job] \in Files
    BY <1>3, <2>1
  <2>3. call' \in CallType
    BY <1>b, <1>c, <1>13, <2>2 DEF Replace, Finalize
  <2>4. file' \in [Paths -> Files]
    BY <1>13, <2>1, <2>2 DEF Replace, Finalize
  <2>5. QED
    BY <1>13, <2>3, <2>4 DEF Replace, Finalize
<1>14. CASE Commit
  <2>1. /\ call.path \in Paths /\ call.job \in Jobs /\ call.turn \in Turns
        /\ call.meta \in Files /\ call.meta.id \in Jobs
    BY <1>9, <1>14 DEF Commit, CallKnown, Busy, Uncommitted, Files
  <2>2. ConversationOf[call.turn] \in Conversations
    BY <2>1 DEF JobsAssumption
  <2>3. call' \in CallType
    BY <1>b, <1>c, <1>14, <2>1 DEF Commit
  <2>4. job' \in [Jobs -> [turn : Turns \cup {None}, kind : {"none", "simulation", "artifact"},
                          path : Paths \cup {None}, id : Jobs \cup {None},
                          status : Statuses \cup {"none", "requested"}]]
    BY <1>14, <2>1 DEF Commit
  <2>5. row' \in [Paths -> [id : Jobs \cup {None}, status : Statuses \cup {"none", "requested"},
                           job : Jobs \cup {None}]]
    BY <1>14, <2>1 DEF Commit
  <2>6. link' \subseteq Conversations \X Jobs /\ lastEvent' \in [Jobs -> Statuses \cup {"none", "requested"}]
    BY <1>14, <2>1, <2>2 DEF Commit
  <2>7. QED
    BY <1>14, <2>3, <2>4, <2>5, <2>6 DEF Commit
<1>15. ASSUME NEW p \in Paths, RemoveDirectory(p)
       PROVE  TypeOK'
  BY <1>2, <1>15 DEF RemoveDirectory
<1>16. ASSUME NEW p \in Paths, NEW q \in Paths, CopyDirectory(p, q)
       PROVE  TypeOK'
  BY <1>16 DEF CopyDirectory
<1>17. CASE UNCHANGED vars
  BY <1>17 DEF vars
<1>18. QED
  BY <1>4, <1>5, <1>6, <1>7, <1>8, <1>10, <1>11, <1>12, <1>13, <1>14, <1>15, <1>16, <1>17 DEF Next

-----------------------------------------------------------------------------
(* Steps outside a registration *)

(* Steps that leave rows and metadata alone, and leave or stay out of a    *)
(* registration                                                            *)
LEMMA QuietStep ==
  ASSUME JobsInv, TypeOK', UNCHANGED <<rows, file, used, copied>>, call'.step \notin Busy,
         call'.step = "conflict" => call'.path \in copied \/ touched'
  PROVE  JobsInv'
<1> USE DEF rows
<1>1. JobsKnown' /\ FilesKnown' /\ OneRowPerExperiment' /\ RowsFollowJobs'
  BY DEF JobsInv, JobsKnown, FilesKnown, Known, OneRowPerExperiment, RowsFollowJobs
<1>2. UncopiedTrue'
  BY DEF JobsInv, UncopiedTrue, SettledTrue, PendingTrue
<1>3. CallKnown' /\ CallTrue' /\ ConflictOnlyAfterEdit'
  BY DEF CallKnown, CallTrue, ConflictOnlyAfterEdit
<1>4. QED
  BY <1>1, <1>2, <1>3 DEF JobsInv

LEMMA DeleteConversationInv ==
  ASSUME JobsInv, JobsAssumption, TypeOK', NEW c \in Conversations, DeleteConversation(c)
  PROVE  JobsInv'
<1>1. /\ call.step = "idle" /\ UNCHANGED <<row, file, call, used, copied, touched>>
      /\ \A j \in Jobs :
           \/ /\ job'[j] = job[j] /\ lastEvent'[j] = lastEvent[j]
              /\ job[j].turn \in Turns => ConversationOf[job[j].turn] # c
           \/ job'[j] = NoJob /\ lastEvent'[j] = "none"
      /\ link' = {l \in link : l[1] # c}
  <2> DEFINE gone == {t \in Turns : ConversationOf[t] = c}
             lost == {j \in Jobs : job[j].turn \in gone}
  <2>1. /\ job' = [j \in Jobs |-> IF j \in lost THEN NoJob ELSE job[j]]
        /\ lastEvent' = [j \in Jobs |-> IF j \in lost THEN "none" ELSE lastEvent[j]]
    BY DEF DeleteConversation
  <2>2. ASSUME NEW j \in Jobs
        PROVE  \/ /\ job'[j] = job[j] /\ lastEvent'[j] = lastEvent[j]
                  /\ job[j].turn \in Turns => ConversationOf[job[j].turn] # c
               \/ job'[j] = NoJob /\ lastEvent'[j] = "none"
    BY <2>1
  <2>3. /\ call.step = "idle" /\ UNCHANGED <<row, file, call, used, copied, touched>>
        /\ link' = {l \in link : l[1] # c}
    BY DEF DeleteConversation, Serving, process
  <2>4. QED
    BY <2>2, <2>3
<1>2. JobsKnown' /\ FilesKnown' /\ OneRowPerExperiment'
  BY <1>1 DEF JobsInv, TypeOK, JobsKnown, FilesKnown, Known, OneRowPerExperiment
<1>3. RowsFollowJobs'
  <2>1. ASSUME NEW j \in Jobs
        PROVE  /\ lastEvent'[j] = job'[j].status
               /\ job'[j].kind = "simulation" =>
                    /\ row'[job'[j].path].id = job'[j].id
                    /\ <<ConversationOf[job'[j].turn], job'[j].id>> \in link'
    <3>1. CASE job'[j] = NoJob /\ lastEvent'[j] = "none"
      BY <3>1 DEF NoJob
    <3>2. CASE job'[j] = job[j] /\ lastEvent'[j] = lastEvent[j] /\ job[j] # NoJob
               /\ (job[j].turn \in Turns => ConversationOf[job[j].turn] # c)
      BY <1>1, <3>2 DEF JobsInv, JobsKnown, RowsFollowJobs
    <3>3. QED
      BY <1>1, <3>1, <3>2 DEF JobsInv, RowsFollowJobs, NoJob
  <2>2. ASSUME NEW p \in Paths, row'[p].job # None, job'[row'[p].job] # NoJob
        PROVE  /\ row'[p].status = job'[row'[p].job].status
               /\ job'[row'[p].job].path = p
    <3>1. row[p].job \in Jobs /\ row'[p] = row[p]
      BY <1>1, <2>2 DEF JobsInv, TypeOK
    <3>2. job'[row[p].job] = job[row[p].job] /\ job[row[p].job] # NoJob
      BY <1>1, <2>2, <3>1
    <3>3. QED
      BY <2>2, <3>1, <3>2 DEF JobsInv, RowsFollowJobs
  <2>3. QED
    BY <2>1, <2>2 DEF RowsFollowJobs
<1>4. UncopiedTrue'
  <2>1. \A p \in Paths : /\ file[p].pending \in Jobs \cup {None}
                         /\ file[p].origin \in Jobs \cup {None}
    BY DEF JobsInv, TypeOK, Files
  <2>2. QED
    BY <1>1, <2>1 DEF JobsInv, UncopiedTrue, SettledTrue, PendingTrue
<1>5. CallKnown' /\ CallTrue' /\ ConflictOnlyAfterEdit'
  BY <1>1 DEF CallKnown, CallTrue, ConflictOnlyAfterEdit, Busy, Uncommitted, Unpublished
<1>6. QED
  BY <1>2, <1>3, <1>4, <1>5 DEF JobsInv

LEMMA RegisterArtifactInv ==
  ASSUME JobsInv, JobsAssumption, TypeOK', NEW t \in Turns, NEW p \in Paths, NEW j \in Jobs,
         RegisterArtifact(t, p, j)
  PROVE  JobsInv'
<1>1. /\ call.step = "idle" /\ UNCHANGED <<row, link, file, call, copied, touched>>
      /\ j \notin used /\ used' = used \cup {j}
      /\ job'[j] = [turn |-> t, kind |-> "artifact", path |-> p, id |-> None, status |-> "requested"]
      /\ lastEvent'[j] = "requested"
      /\ \A k \in Jobs : k # j => job'[k] = job[k] /\ lastEvent'[k] = lastEvent[k]
  BY DEF RegisterArtifact, Serving, JobsInv, TypeOK
<1>2. j # None
  BY DEF JobsAssumption
<1>3. JobsKnown'
  <2>1. ASSUME NEW k \in Jobs, job'[k] # NoJob
        PROVE  /\ k \in used' /\ job'[k].turn \in Turns
               /\ job'[k].kind \in {"simulation", "artifact"}
               /\ job'[k].kind = "simulation" => job'[k].path \in Paths /\ job'[k].id # None
    BY <1>1, <2>1 DEF JobsInv, JobsKnown
  <2>2. ASSUME NEW q \in Paths
        PROVE  /\ row'[q].id \in used' \cup {None} /\ row'[q].job \in used' \cup {None}
               /\ row'[q].job # None /\ job'[row'[q].job] # NoJob => job'[row'[q].job].kind = "simulation"
    BY <1>1, <1>2 DEF JobsInv, JobsKnown, TypeOK
  <2>3. QED
    BY <2>1, <2>2 DEF JobsKnown
<1>4. FilesKnown' /\ OneRowPerExperiment'
  BY <1>1 DEF JobsInv, FilesKnown, Known, OneRowPerExperiment
<1>5. RowsFollowJobs'
  <2>1. \A q \in Paths : row[q].job # j /\ row[q].job \in Jobs \cup {None}
    BY <1>1, <1>2 DEF JobsInv, JobsKnown, TypeOK
  <2>2. QED
    BY <1>1, <2>1 DEF JobsInv, RowsFollowJobs
<1>6. UncopiedTrue'
  <2>1. \A q \in Paths : /\ file[q].pending \in Jobs \cup {None} /\ file[q].pending # j
                         /\ file[q].origin \in Jobs \cup {None} /\ file[q].origin # j
    BY <1>1, <1>2 DEF JobsInv, FilesKnown, Known, TypeOK
  <2>2. QED
    BY <1>1, <2>1 DEF JobsInv, UncopiedTrue, SettledTrue, PendingTrue
<1>7. CallKnown' /\ CallTrue' /\ ConflictOnlyAfterEdit'
  BY <1>1 DEF CallKnown, CallTrue, ConflictOnlyAfterEdit, Busy, Uncommitted, Unpublished
<1>8. QED
  BY <1>3, <1>4, <1>5, <1>6, <1>7 DEF JobsInv

LEMMA UpdateInv ==
  ASSUME JobsInv, JobsAssumption, TypeOK', NEW t \in Turns, NEW j \in Jobs, NEW s \in Statuses,
         Update(t, j, s)
  PROVE  JobsInv'
<1>1. /\ call.step = "idle" /\ UNCHANGED <<link, file, call, used, copied, touched>>
      /\ job[j].turn = t
      /\ job'[j] = [job[j] EXCEPT !.status = s] /\ lastEvent'[j] = s
      /\ \A k \in Jobs : k # j => job'[k] = job[k] /\ lastEvent'[k] = lastEvent[k]
  BY DEF Update, Serving, JobsInv, TypeOK
<1>2. j # None /\ job[j] # NoJob /\ job'[j] # NoJob
  <2>1. t # None /\ j # None
    BY DEF JobsAssumption
  <2>2. job'[j].turn = t
    BY <1>1 DEF JobsInv, TypeOK
  <2>3. QED
    BY <1>1, <2>1, <2>2 DEF NoJob
<1>3. \A k \in Jobs :
        /\ job'[k].turn = job[k].turn /\ job'[k].kind = job[k].kind
        /\ job'[k].path = job[k].path /\ job'[k].id = job[k].id
        /\ job'[k] = NoJob <=> job[k] = NoJob
  BY <1>1, <1>2 DEF JobsInv, TypeOK
<1>4. \A p \in Paths : /\ row'[p].id = row[p].id /\ row'[p].job = row[p].job
                       /\ row'[p].status = IF row[p].id # None /\ row[p].id = job[j].id /\ row[p].job = j
                                           THEN s ELSE row[p].status
  BY DEF Update, RowUpdated, JobsInv, TypeOK
<1>5. JobsKnown' /\ FilesKnown' /\ OneRowPerExperiment'
  <2>1. \A p \in Paths : row[p].job \in Jobs \cup {None}
    BY DEF JobsInv, TypeOK
  <2>2. ASSUME NEW k \in Jobs, job'[k] # NoJob
        PROVE  /\ k \in used' /\ job'[k].turn \in Turns
               /\ job'[k].kind \in {"simulation", "artifact"}
               /\ job'[k].kind = "simulation" => job'[k].path \in Paths /\ job'[k].id # None
    <3>1. job[k] # NoJob
      BY <1>3, <2>2
    <3>2. QED
      BY <1>1, <1>3, <3>1 DEF JobsInv, JobsKnown
  <2>3. ASSUME NEW p \in Paths
        PROVE  /\ row'[p].id \in used' \cup {None} /\ row'[p].job \in used' \cup {None}
               /\ row'[p].job # None /\ job'[row'[p].job] # NoJob => job'[row'[p].job].kind = "simulation"
    <3>1. row'[p].job = row[p].job /\ row'[p].id = row[p].id
      BY <1>4
    <3>2. row[p].job # None /\ job'[row[p].job] # NoJob => job'[row[p].job].kind = "simulation"
      BY <1>3, <2>1 DEF JobsInv, JobsKnown
    <3>3. QED
      BY <1>1, <3>1, <3>2 DEF JobsInv, JobsKnown
  <2>4. FilesKnown'
    BY <1>1 DEF JobsInv, FilesKnown, Known
  <2>5. OneRowPerExperiment'
    BY <1>4 DEF JobsInv, OneRowPerExperiment
  <2>6. QED
    BY <2>2, <2>3, <2>4, <2>5 DEF JobsKnown
<1>6. RowsFollowJobs'
  <2>1. ASSUME NEW k \in Jobs
        PROVE  /\ lastEvent'[k] = job'[k].status
               /\ job'[k].kind = "simulation" =>
                    /\ row'[job'[k].path].id = job'[k].id
                    /\ <<ConversationOf[job'[k].turn], job'[k].id>> \in link'
    <3>1. lastEvent'[k] = job'[k].status
      <4>1. CASE k = j
        BY <1>1, <4>1 DEF JobsInv, TypeOK
      <4>2. CASE k # j
        BY <1>1, <4>2 DEF JobsInv, RowsFollowJobs
      <4>3. QED
        BY <4>1, <4>2
    <3>2. job[k].kind = "simulation" => job[k].path \in Paths
      BY DEF JobsInv, JobsKnown, NoJob
    <3>3. ASSUME job[k].kind = "simulation"
          PROVE  /\ row'[job[k].path].id = job[k].id
                 /\ <<ConversationOf[job[k].turn], job[k].id>> \in link'
      <4>1. row'[job[k].path].id = row[job[k].path].id
        BY <1>4, <3>2, <3>3
      <4>2. QED
        BY <1>1, <3>3, <4>1 DEF JobsInv, RowsFollowJobs
    <3>4. QED
      BY <1>3, <3>1, <3>3
  <2>2. ASSUME NEW p \in Paths, row'[p].job # None, job'[row'[p].job] # NoJob
        PROVE  /\ row'[p].status = job'[row'[p].job].status
               /\ job'[row'[p].job].path = p
    <3>1. /\ row'[p].job = row[p].job /\ row[p].job \in Jobs /\ job[row[p].job] # NoJob
          /\ job[row[p].job].kind = "simulation"
      BY <1>3, <1>4, <2>2 DEF JobsInv, TypeOK, JobsKnown
    <3>2. /\ row[p].status = job[row[p].job].status /\ job[row[p].job].path = p
          /\ row[p].id = job[row[p].job].id /\ row[p].id # None
      <4>1. row[p].job # None
        BY <1>4, <2>2
      <4>2. row[p].status = job[row[p].job].status /\ job[row[p].job].path = p
        BY <3>1, <4>1 DEF JobsInv, RowsFollowJobs
      <4>3. row[job[row[p].job].path].id = job[row[p].job].id /\ job[row[p].job].id # None
        BY <3>1 DEF JobsInv, RowsFollowJobs, JobsKnown
      <4>4. QED
        BY <4>2, <4>3
    <3>3. CASE row[p].job = j
      BY <1>1, <1>3, <1>4, <3>1, <3>2, <3>3 DEF JobsInv, TypeOK
    <3>4. CASE row[p].job # j
      BY <1>1, <1>3, <1>4, <3>1, <3>2, <3>4
    <3>5. QED
      BY <3>3, <3>4
  <2>3. QED
    BY <2>1, <2>2 DEF RowsFollowJobs
<1>7. UncopiedTrue'
  <2>1. \A p \in Paths : /\ file[p].pending \in Jobs \cup {None}
                         /\ file[p].origin \in Jobs \cup {None}
    BY DEF JobsInv, TypeOK, Files
  <2>2. QED
    <3>1. \A p \in Paths \ copied : SettledTrue(file[p], p)' /\ PendingTrue(file[p], p)'
      BY <1>1, <1>3, <1>4, <2>1 DEF JobsInv, UncopiedTrue, SettledTrue, PendingTrue
    <3>2. QED
      BY <1>1, <1>4, <3>1 DEF JobsInv, UncopiedTrue
<1>8. CallKnown' /\ CallTrue' /\ ConflictOnlyAfterEdit'
  BY <1>1 DEF CallKnown, CallTrue, ConflictOnlyAfterEdit, Busy, Uncommitted, Unpublished
<1>9. QED
  BY <1>5, <1>6, <1>7, <1>8 DEF JobsInv

-----------------------------------------------------------------------------
(* A registration.  Ids are fresh when it starts, and what it has read     *)
(* holds of its directory.                                                 *)

LEMMA RegisterInv ==
  ASSUME JobsInv, JobsAssumption, TypeOK', NEW t \in Turns, NEW p \in Paths, NEW j \in Jobs,
         Register(t, p, j)
  PROVE  JobsInv'
<1>1. /\ UNCHANGED <<turn, job, row, link, lastEvent, file, copied, touched>>
      /\ j \notin used /\ used' = used \cup {j} /\ turn[t] = "running"
      /\ call' = [step |-> "recover", turn |-> t, path |-> p, job |-> j, meta |-> file[p]]
  BY DEF Register, Owner, rows
<1>2. j # None
  BY DEF JobsAssumption
<1>3. JobsKnown' /\ FilesKnown' /\ OneRowPerExperiment' /\ RowsFollowJobs' /\ UncopiedTrue'
  <2>1. JobsKnown'
    BY <1>1 DEF JobsInv, JobsKnown
  <2>2. FilesKnown' /\ OneRowPerExperiment' /\ RowsFollowJobs'
    BY <1>1 DEF JobsInv, FilesKnown, Known, OneRowPerExperiment, RowsFollowJobs
  <2>3. UncopiedTrue'
    BY <1>1 DEF JobsInv, UncopiedTrue, SettledTrue, PendingTrue
  <2>4. QED
    BY <2>1, <2>2, <2>3
<1>4. CallKnown'
  <2>1. job[j] = NoJob
    BY <1>1 DEF JobsInv, JobsKnown
  <2>2. \A q \in Paths : /\ row[q].id # j /\ row[q].job # j
                         /\ file[q].id # j /\ file[q].pending # j /\ file[q].origin # j
    BY <1>1, <1>2 DEF JobsInv, JobsKnown, FilesKnown, Known
  <2>3. Known(file[p])'
    BY <1>1, <1>3 DEF FilesKnown
  <2>4. QED
    BY <1>1, <2>1, <2>2, <2>3 DEF CallKnown, Known
<1>5. CallTrue'
  <2>1. \A q \in Paths \ copied : q # p =>
          /\ file[q].pending # j
          /\ file[q].id # None /\ file[q].id = file[p].id => row[q].id = file[q].id
    BY <1>1, <1>2 DEF JobsInv, UncopiedTrue, FilesKnown, Known
  <2>2. QED
    BY <1>1, <2>1 DEF CallTrue
<1>6. ConflictOnlyAfterEdit'
  BY <1>1 DEF ConflictOnlyAfterEdit
<1>7. QED
  BY <1>3, <1>4, <1>5, <1>6 DEF JobsInv

(* A committed registration becomes the origin of its metadata. *)
LEMMA FinalizedTrue ==
  ASSUME JobsInv, NEW p \in Paths, NEW m, m = file[p], Committed(m), ~Contradicted(m, p),
         file' = [file EXCEPT ![p] = Finalized(m)], UNCHANGED <<rows, used, copied>>
  PROVE  JobsKnown' /\ FilesKnown' /\ OneRowPerExperiment' /\ RowsFollowJobs' /\ UncopiedTrue'
<1>1. /\ UNCHANGED <<job, row, link, lastEvent, used, copied>>
      /\ \A q \in Paths : q # p => file'[q] = file[q]
  BY DEF rows, JobsInv, TypeOK
<1>2. /\ file'[p].id = m.id /\ file'[p].pending = None /\ file'[p].origin = m.pending
      /\ m \in Files /\ m.pending \in used /\ m.pending # None
  <2>1. file'[p] = Finalized(m) /\ m \in Files
    BY DEF JobsInv, TypeOK
  <2>2. m.pending \in used \cup {None}
    BY DEF JobsInv, FilesKnown, Known
  <2>3. m.pending # None
    BY DEF Committed
  <2>4. /\ Finalized(m).id = m.id /\ Finalized(m).pending = None
        /\ Finalized(m).origin = m.pending
    BY <2>1 DEF Finalized, Files
  <2>5. QED
    BY <2>1, <2>2, <2>3, <2>4
<1>3. /\ job[m.pending] # NoJob /\ job[m.pending].id = m.id /\ job[m.pending].path = p
      /\ job[m.pending].kind = "simulation" /\ m.pending \in Jobs
  BY <1>2 DEF Committed, Contradicted, JobsInv, TypeOK
<1>4. row[p].id = m.id /\ m.id # None
  <2>1. \A j \in Jobs : job[j] # NoJob /\ job[j].kind = "simulation" =>
          row[job[j].path].id = job[j].id /\ job[j].id # None
    BY DEF JobsInv, RowsFollowJobs, JobsKnown
  <2>2. QED
    BY <1>3, <2>1
<1>5. JobsKnown' /\ OneRowPerExperiment' /\ RowsFollowJobs'
  BY <1>1 DEF JobsInv, JobsKnown, OneRowPerExperiment, RowsFollowJobs
<1>6. FilesKnown'
  <2>1. Known(file[p])'
    <3>1. {m.id, m.pending, m.origin} \subseteq used \cup {None}
      BY DEF JobsInv, FilesKnown, Known
    <3>2. QED
      BY <1>1, <1>2, <1>4, <3>1 DEF Known
  <2>2. \A q \in Paths : q # p => Known(file[q])'
    BY <1>1 DEF JobsInv, FilesKnown, Known
  <2>3. QED
    BY <2>1, <2>2 DEF FilesKnown
<1>7. UncopiedTrue'
  <2>1. \A q \in Paths : file'[q].id = file[q].id
    BY <1>1, <1>2
  <2>2. \A q \in Paths \ copied : SettledTrue(file[q], q)' /\ PendingTrue(file[q], q)'
    BY <1>1, <1>2, <1>3, <1>4 DEF JobsInv, UncopiedTrue, SettledTrue, PendingTrue
  <2>3. QED
    BY <1>1, <2>1, <2>2 DEF JobsInv, UncopiedTrue
<1>8. QED
  BY <1>5, <1>6, <1>7

(* A step that leaves the rest alone, as far as the registration that goes *)
(* on is concerned                                                         *)
LEMMA ReconciledInv ==
  ASSUME JobsInv, TypeOK', JobsAssumption, NEW m,
         call.step \in {"recover", "recoverLost"},
         JobsKnown' /\ FilesKnown' /\ OneRowPerExperiment' /\ RowsFollowJobs' /\ UncopiedTrue',
         UNCHANGED <<turn, rows, used, copied, touched>>,
         Reconciled(m), m \in Files,
         m.id = call.meta.id /\ m.origin # call.job /\ m.pending # call.job,
         \A p \in Paths : p # call.path => file'[p] = file[p],
         file'[call.path].origin # call.job /\ file'[call.path].id = file[call.path].id,
         file'[call.path].pending # call.job,
         {m.id, m.pending, m.origin} \subseteq used \cup {None}, m = NoFile \/ m.id # None,
         call.path \notin copied =>
           /\ file'[call.path] \in {NoFile, m}
           /\ ~touched => file'[call.path] = m
  PROVE  JobsInv'
<1>1. /\ call'.step \in {"publish", "commit", "replace"} /\ call'.meta = m
      /\ call'.turn = call.turn /\ call'.path = call.path /\ call'.job = call.job
      /\ call'.step = "publish" => m = NoFile
      /\ call'.step \in {"commit", "replace"} => m # NoFile
      /\ call'.step = "commit" => m.pending = None
  <2>1. ASSUME NEW step, Continue(step, m)
        PROVE  /\ call'.step = step /\ call'.meta = m
               /\ call'.turn = call.turn /\ call'.path = call.path /\ call'.job = call.job
    BY <2>1 DEF Continue, JobsInv, TypeOK
  <2>2. \/ Continue("publish", m) /\ m = NoFile
        \/ Continue("commit", m) /\ m # NoFile /\ m.pending = None
        \/ Continue("replace", m) /\ m # NoFile
    BY DEF Reconciled
  <2>3. QED
    BY <2>1, <2>2
<1>2. UNCHANGED <<turn, job, row, link, lastEvent, used, copied, touched>>
  BY DEF rows
<1>3. CallKnown'
  <2>1. call.step \in Unpublished /\ call.step \in Uncommitted /\ call.step \in Busy
    BY DEF Unpublished, Uncommitted, Busy
  <2>2. /\ call.turn \in Turns /\ turn[call.turn] = "running" /\ call.path \in Paths
        /\ call.job \in used /\ job[call.job] = NoJob /\ call.meta.id # call.job
        /\ \A p \in Paths : /\ row[p].job # call.job /\ row[p].id # call.job
                            /\ file[p].id # call.job /\ file[p].origin # call.job
                            /\ file[p].pending # call.job
    BY <2>1 DEF JobsInv, CallKnown
  <2>3. \A p \in Paths : /\ file'[p].origin # call.job /\ file'[p].id # call.job
                         /\ file'[p].pending # call.job
    BY <2>2
  <2>4. Known(m)'
    BY <1>2 DEF Known
  <2>5. QED
    BY <1>1, <1>2, <2>2, <2>3, <2>4 DEF CallKnown, Known, Unpublished, Uncommitted, Busy
<1>4. CallTrue'
  <2>1. call.step \in Busy
    BY DEF Unpublished, Uncommitted, Busy
  <2>2. QED
    BY <1>1, <1>2, <2>1 DEF JobsInv, CallTrue
<1>5. ConflictOnlyAfterEdit'
  BY <1>1 DEF ConflictOnlyAfterEdit
<1>6. QED
  BY <1>3, <1>4, <1>5 DEF JobsInv

(* Metadata that a crash left pending is never contradicted by the tables, *)
(* unless somebody copied or removed it.                                   *)
LEMMA RecoverInv ==
  ASSUME JobsInv, JobsAssumption, TypeOK', Recover
  PROVE  JobsInv'
<1> DEFINE m == call.meta
           p == call.path
           j == call.job
           now == IF Committed(m) THEN Finalized(m) ELSE m
<1>1. call.step \in {"recover", "recoverLost"} /\ UNCHANGED <<turn, rows, used, copied, touched>>
  BY DEF Recover
<1>2. call.step \in Unpublished /\ call.step \in Uncommitted /\ call.step \in Busy
  BY <1>1 DEF Unpublished, Uncommitted, Busy
<1>3. /\ p \in Paths /\ j \in used /\ j # None /\ m \in Files
      /\ m.id # j /\ m.pending # j /\ m.origin # j /\ Known(m)
      /\ file[p].origin # j /\ file[p].id # j /\ file[p].pending # j
  <2>1. /\ p \in Paths /\ j \in used /\ m.id # j /\ m.pending # j /\ m.origin # j /\ Known(m)
        /\ file[p].origin # j /\ file[p].id # j /\ file[p].pending # j
    BY <1>2 DEF JobsInv, CallKnown
  <2>2. used \subseteq Jobs /\ m \in Files
    BY DEF JobsInv, TypeOK
  <2>3. QED
    BY <2>1, <2>2 DEF JobsAssumption
<1>4. p \notin copied =>
        /\ file[p] \in {NoFile, m}
        /\ ~touched => file[p] = m
        /\ PendingTrue(file[p], p)
        /\ file[p].id # None /\ row[p].id # None => file[p].id = row[p].id
  BY <1>2, <1>3 DEF JobsInv, CallTrue, UncopiedTrue
<1>5. ASSUME Answer("conflict")
      PROVE  call'.step = "conflict" /\ call'.path = p /\ call'.step \notin Busy
  BY <1>5 DEF Answer, JobsInv, TypeOK, Busy, Uncommitted, Unpublished
<1>6. CASE /\ (Committed(m) /\ Contradicted(m, p)) \/ file[p] # m
           /\ Answer("conflict") /\ UNCHANGED file
  <2>1. p \in copied \/ touched
    <3>1. SUFFICES ASSUME p \notin copied, ~touched
                   PROVE  FALSE
      OBVIOUS
    <3>2. file[p] = m /\ PendingTrue(m, p) /\ Committed(m) /\ Contradicted(m, p)
      BY <1>4, <1>6, <3>1
    <3>3. QED
      BY <3>2 DEF PendingTrue, Committed, Contradicted
  <2>2. QED
    BY <1>1, <1>5, <1>6, <2>1, QuietStep
<1>7. CASE /\ Committed(m) => ~Contradicted(m, p) /\ file[p] = m
           /\ file' = IF Committed(m) THEN [file EXCEPT ![p] = now] ELSE file
           /\ IF call.step = "recover" /\ Disagree(now, p)
              THEN Answer("conflict")
              ELSE Reconciled(now)
  <2>1. JobsKnown' /\ FilesKnown' /\ OneRowPerExperiment' /\ RowsFollowJobs' /\ UncopiedTrue'
    <3>1. CASE Committed(m)
      BY <1>1, <1>3, <1>7, <3>1, FinalizedTrue
    <3>2. CASE ~Committed(m)
      <4>1. UNCHANGED <<job, row, link, lastEvent, file, used, copied>>
        BY <1>1, <1>7, <3>2 DEF rows
      <4>2. JobsKnown' /\ FilesKnown' /\ OneRowPerExperiment' /\ RowsFollowJobs'
        BY <4>1 DEF JobsInv, JobsKnown, FilesKnown, Known, OneRowPerExperiment, RowsFollowJobs
      <4>3. UncopiedTrue'
        BY <4>1 DEF JobsInv, UncopiedTrue, SettledTrue, PendingTrue
      <4>4. QED
        BY <4>2, <4>3
    <3>3. QED
      BY <3>1, <3>2
  <2>2. /\ now \in Files /\ now.id = m.id /\ now.origin # j /\ now.pending # j
        /\ {now.id, now.pending, now.origin} \subseteq used \cup {None}
        /\ now = NoFile \/ now.id # None
    <3>1. CASE Committed(m)
      <4>1. m # NoFile
        BY <3>1 DEF Committed, NoFile
      <4>2. Finalized(m) \in Files /\ Finalized(m).id = m.id /\ Finalized(m).pending = None
            /\ Finalized(m).origin = m.pending
        BY <1>3 DEF Finalized, Files
      <4>3. QED
        BY <1>3, <3>1, <4>1, <4>2 DEF Known
    <3>2. CASE ~Committed(m)
      BY <1>3, <3>2 DEF Known
    <3>3. QED
      BY <3>1, <3>2
  <2>3. /\ \A q \in Paths : q # p => file'[q] = file[q]
        /\ file'[p].origin # j /\ file'[p].id = file[p].id /\ file'[p].pending # j
        /\ p \notin copied => /\ file'[p] \in {NoFile, now}
                              /\ ~touched => file'[p] = now
    <3>1. CASE Committed(m)
      <4>1. file'[p] = now /\ file[p] = m /\ \A q \in Paths : q # p => file'[q] = file[q]
        BY <1>3, <1>7, <3>1 DEF JobsInv, TypeOK
      <4>2. QED
        BY <2>2, <4>1
    <3>2. CASE ~Committed(m)
      BY <1>3, <1>4, <1>7, <3>2
    <3>3. QED
      BY <3>1, <3>2
  <2>4. CASE Reconciled(now)
    BY <1>1, <2>1, <2>2, <2>3, <2>4, ReconciledInv
  <2>5. CASE call.step = "recover" /\ Disagree(now, p) /\ Answer("conflict")
    <3>1. p \in copied \/ touched
      <4>1. SUFFICES ASSUME p \notin copied, ~touched
                     PROVE  FALSE
        OBVIOUS
      <4>2. file[p] = m /\ row[p].id # None /\ m.id # None /\ m.id # row[p].id
        BY <1>4, <2>2, <2>5, <4>1 DEF Disagree
      <4>3. QED
        BY <1>4, <4>1, <4>2
    <3>2. CallKnown' /\ CallTrue' /\ ConflictOnlyAfterEdit'
      BY <1>1, <1>5, <2>5, <3>1 DEF CallKnown, CallTrue, ConflictOnlyAfterEdit
    <3>3. QED
      BY <2>1, <3>2 DEF JobsInv
  <2>6. QED
    BY <1>7, <2>4, <2>5
<1>8. QED
  BY <1>6, <1>7 DEF Recover

(* The experiment id that a first registration publishes is the row's, or  *)
(* as fresh as its job.                                                    *)
LEMMA PublishInv ==
  ASSUME JobsInv, JobsAssumption, TypeOK', Publish
  PROVE  JobsInv'
<1>0. PICK p, j, n :
        /\ p = call.path /\ j = call.job
        /\ n = [id |-> IF row[p].id # None THEN row[p].id ELSE j, pending |-> j, origin |-> None]
  OBVIOUS
<1> USE <1>0
<1>1. call.step = "publish" /\ UNCHANGED <<turn, job, row, link, lastEvent, used, copied, touched>>
  BY DEF Publish, rows
<1>2. call.step \in Unpublished /\ call.step \in Uncommitted /\ call.step \in Busy
  BY <1>1 DEF Unpublished, Uncommitted, Busy
<1>3. /\ p \in Paths /\ j \in used /\ j # None /\ call.turn \in Turns /\ turn[call.turn] = "running"
      /\ job[j] = NoJob
      /\ \A q \in Paths : /\ row[q].job # j /\ row[q].id # j
                          /\ file[q].id # j /\ file[q].pending # j /\ file[q].origin # j
  <2>1. /\ p \in Paths /\ j \in used /\ call.turn \in Turns /\ turn[call.turn] = "running"
        /\ job[j] = NoJob
        /\ \A q \in Paths : /\ row[q].job # j /\ row[q].id # j
                            /\ file[q].id # j /\ file[q].pending # j /\ file[q].origin # j
    BY <1>2 DEF JobsInv, CallKnown
  <2>2. used \subseteq Jobs
    BY DEF JobsInv, TypeOK
  <2>3. QED
    BY <2>1, <2>2 DEF JobsAssumption
<1>4. ASSUME NEW step, NEW m, Continue(step, m)
      PROVE  /\ call'.step = step /\ call'.meta = m
             /\ call'.turn = call.turn /\ call'.path = call.path /\ call'.job = call.job
  BY <1>4 DEF Continue, JobsInv, TypeOK
<1>5. JobsKnown' /\ OneRowPerExperiment' /\ RowsFollowJobs'
  BY <1>1 DEF JobsInv, JobsKnown, OneRowPerExperiment, RowsFollowJobs
<1>6. CASE file[p] = NoFile /\ file' = [file EXCEPT ![p] = n] /\ Continue("commit", n)
  <2>1. /\ file'[p] = n /\ \A q \in Paths : q # p => file'[q] = file[q]
    BY <1>3, <1>6 DEF JobsInv, TypeOK
  <2>2. /\ n.id \in {row[p].id, j} /\ n.id # None /\ n.pending = j /\ n.origin = None
        /\ row[p].id # None => n.id = row[p].id
        /\ n.id \in used
    BY <1>3 DEF JobsInv, JobsKnown
  <2>3. Known(n)' /\ FilesKnown'
    <3>1. Known(n)'
      BY <1>1, <1>3, <2>2 DEF Known, NoFile
    <3>2. \A q \in Paths : Known(file[q])'
      <4>1. \A q \in Paths : q # p => Known(file[q])'
        BY <1>1, <2>1 DEF JobsInv, FilesKnown, Known
      <4>2. Known(file[p])'
        BY <2>1, <3>1 DEF Known
      <4>3. QED
        BY <4>1, <4>2
    <3>3. QED
      BY <3>1, <3>2 DEF FilesKnown
  <2>4. ASSUME NEW q \in Paths, q # p
        PROVE  /\ row[q].id # n.id
               /\ q \notin copied /\ file[q].id # None /\ file[q].id = n.id => FALSE
               /\ file[q].id = n.id => row[p].id = n.id
    <3>1. row[q].id # n.id
      BY <1>3, <2>2, <2>4 DEF JobsInv, OneRowPerExperiment
    <3>2. n.id = row[p].id \/ file[q].id # n.id
      BY <1>3, <2>2
    <3>3. q \notin copied /\ file[q].id # None => row[p].id # file[q].id
      BY <1>3, <2>4 DEF JobsInv, UncopiedTrue
    <3>4. QED
      BY <3>1, <3>2, <3>3
  <2>5. UncopiedTrue'
    <3>1. ASSUME NEW q \in Paths \ copied, q # p
          PROVE  /\ file'[q].id # None /\ row'[q].id # None => file'[q].id = row'[q].id
                 /\ SettledTrue(file[q], q)'
                 /\ PendingTrue(file[q], q)'
                 /\ \A r \in Paths \ {q} : file'[q].id # None =>
                      /\ row'[r].id # file'[q].id
                      /\ file'[r].id = file'[q].id => row'[q].id = file'[q].id
      <4>1. /\ file'[q].id # None /\ row'[q].id # None => file'[q].id = row'[q].id
            /\ SettledTrue(file[q], q)'
            /\ PendingTrue(file[q], q)'
        BY <1>1, <2>1, <3>1 DEF JobsInv, UncopiedTrue, SettledTrue, PendingTrue
      <4>2. ASSUME NEW r \in Paths \ {q}, file'[q].id # None
            PROVE  /\ row'[r].id # file'[q].id
                   /\ file'[r].id = file'[q].id => row'[q].id = file'[q].id
        BY <1>1, <2>1, <2>4, <3>1, <4>2 DEF JobsInv, UncopiedTrue
      <4>3. QED
        BY <4>1, <4>2
    <3>2. /\ file'[p].id # None /\ row'[p].id # None => file'[p].id = row'[p].id
          /\ SettledTrue(file[p], p)'
          /\ PendingTrue(file[p], p)'
          /\ \A r \in Paths \ {p} : file'[p].id # None =>
               /\ row'[r].id # file'[p].id
               /\ file'[r].id = file'[p].id => row'[p].id = file'[p].id
      BY <1>1, <1>3, <2>1, <2>2, <2>4 DEF SettledTrue, PendingTrue
    <3>3. QED
      BY <1>1, <3>1, <3>2 DEF UncopiedTrue
  <2>6. call'.step = "commit" /\ call'.meta = n /\ call'.turn = call.turn /\ call'.path = p /\ call'.job = j
    BY <1>4, <1>6
  <2>7. CallKnown'
    BY <1>1, <1>3, <2>1, <2>2, <2>3, <2>6 DEF CallKnown, Known, Busy, Uncommitted, Unpublished
  <2>8. CallTrue'
    BY <1>1, <1>3, <2>1, <2>4, <2>6 DEF CallTrue
  <2>9. ConflictOnlyAfterEdit'
    BY <2>6 DEF ConflictOnlyAfterEdit
  <2>10. QED
    BY <1>5, <2>3, <2>5, <2>7, <2>8, <2>9 DEF JobsInv
<1>7. CASE UNCHANGED file /\ Continue("recoverLost", file[p])
  <2>1. /\ call'.step = "recoverLost" /\ call'.meta = file[p]
        /\ call'.turn = call.turn /\ call'.path = p /\ call'.job = j
    BY <1>4, <1>7
  <2>2. FilesKnown' /\ UncopiedTrue'
    BY <1>1, <1>7 DEF JobsInv, FilesKnown, Known, UncopiedTrue, SettledTrue, PendingTrue
  <2>3. CallKnown'
    BY <1>1, <1>3, <1>7, <2>1, <2>2 DEF CallKnown, FilesKnown, Known
  <2>4. CallTrue'
    BY <1>1, <1>3, <1>7, <2>1 DEF CallTrue, JobsInv, UncopiedTrue
  <2>5. ConflictOnlyAfterEdit'
    BY <2>1 DEF ConflictOnlyAfterEdit
  <2>6. QED
    BY <1>5, <2>2, <2>3, <2>4, <2>5 DEF JobsInv
<1>8. QED
  BY <1>6, <1>7 DEF Publish

LEMMA ReplaceInv ==
  ASSUME JobsInv, JobsAssumption, TypeOK', Replace
  PROVE  JobsInv'
<1>0. PICK p, j, m, n :
        /\ p = call.path /\ j = call.job /\ m = call.meta
        /\ n = [m EXCEPT !.pending = j]
  OBVIOUS
<1> USE <1>0
<1>1. call.step = "replace" /\ UNCHANGED <<turn, job, row, link, lastEvent, used, copied, touched>>
  BY DEF Replace, rows
<1>2. call.step \in Unpublished /\ call.step \in Uncommitted /\ call.step \in Busy
  BY <1>1 DEF Unpublished, Uncommitted, Busy
<1>3. /\ p \in Paths /\ j \in used /\ call.turn \in Turns /\ turn[call.turn] = "running"
      /\ job[j] = NoJob /\ Known(m) /\ m.id # None /\ m.id # j /\ m.origin # j
      /\ \A q \in Paths : /\ row[q].job # j /\ row[q].id # j
                          /\ file[q].id # j /\ file[q].pending # j /\ file[q].origin # j
  BY <1>1, <1>2 DEF JobsInv, CallKnown
<1>4. n.id = m.id /\ n.origin = m.origin /\ n.pending = j /\ m \in Files
  BY DEF JobsInv, TypeOK, Files
<1>5. CASE file[p] = m /\ file' = [file EXCEPT ![p] = n] /\ Continue("commit", n)
  <2>1. file'[p] = n /\ \A q \in Paths : q # p => file'[q] = file[q]
    BY <1>3, <1>5 DEF JobsInv, TypeOK
  <2>2. JobsKnown' /\ OneRowPerExperiment' /\ RowsFollowJobs'
    BY <1>1 DEF JobsInv, JobsKnown, OneRowPerExperiment, RowsFollowJobs
  <2>3. Known(n)' /\ FilesKnown'
    <3>1. Known(n)'
      BY <1>1, <1>3, <1>4 DEF Known, NoFile
    <3>2. \A q \in Paths : q # p => Known(file[q])'
      BY <1>1, <2>1 DEF JobsInv, FilesKnown, Known
    <3>3. Known(file[p])'
      BY <2>1, <3>1 DEF Known
    <3>4. QED
      BY <3>1, <3>2, <3>3 DEF FilesKnown
  <2>4. UncopiedTrue'
    <3>1. \A q \in Paths : file'[q].id = file[q].id /\ file'[q].origin = file[q].origin
      BY <1>4, <1>5, <2>1
    <3>2. \A q \in Paths \ copied : SettledTrue(file[q], q)'
      BY <1>1, <3>1 DEF JobsInv, UncopiedTrue, SettledTrue
    <3>3. \A q \in Paths \ copied : PendingTrue(file[q], q)'
      <4>1. PendingTrue(file[p], p)'
        BY <1>1, <1>3, <1>4, <2>1 DEF PendingTrue
      <4>2. \A q \in Paths \ copied : q # p => PendingTrue(file[q], q)'
        BY <1>1, <2>1 DEF JobsInv, UncopiedTrue, PendingTrue
      <4>3. QED
        BY <4>1, <4>2
    <3>4. QED
      BY <1>1, <3>1, <3>2, <3>3 DEF JobsInv, UncopiedTrue
  <2>5. call'.step = "commit" /\ call'.meta = n /\ call'.turn = call.turn /\ call'.path = p /\ call'.job = j
    BY <1>5 DEF Continue, JobsInv, TypeOK
  <2>6. CallKnown'
    <3>1. \A q \in Paths : file'[q].origin # j
      <4>1. file'[p].origin # j
        BY <1>3, <1>4, <2>1
      <4>2. QED
        BY <1>3, <2>1, <4>1
    <3>2. QED
      BY <1>1, <1>3, <1>4, <2>3, <2>5, <3>1 DEF CallKnown, Known, Busy, Uncommitted, Unpublished
  <2>7. CallTrue'
    BY <1>1, <1>2, <1>3, <1>4, <1>5, <2>1, <2>5 DEF CallTrue, JobsInv
  <2>8. ConflictOnlyAfterEdit'
    BY <2>5 DEF ConflictOnlyAfterEdit
  <2>9. QED
    BY <2>2, <2>3, <2>4, <2>6, <2>7, <2>8 DEF JobsInv
<1>6. CASE file[p] # m /\ Answer("conflict") /\ UNCHANGED file
  <2>1. p \in copied \/ touched
    BY <1>2, <1>6 DEF JobsInv, CallTrue
  <2>2. call'.step = "conflict" /\ call'.path = p /\ call'.step \notin Busy
    BY <1>6 DEF Answer, JobsInv, TypeOK, Busy, Uncommitted, Unpublished
  <2>3. QED
    BY <1>1, <1>6, <2>1, <2>2, QuietStep DEF rows
<1>7. QED
  BY <1>5, <1>6 DEF Replace

(* What the metadata and the tables say survives every crash up to here,   *)
(* so that the transaction refuses only what somebody copied.              *)
LEMMA CommitInv ==
  ASSUME JobsInv, JobsAssumption, TypeOK', Commit
  PROVE  JobsInv'
<1>0. PICK p, j, m : p = call.path /\ j = call.job /\ m = call.meta
  OBVIOUS
<1> USE <1>0
<1>1. call.step = "commit" /\ UNCHANGED <<turn, file, used, copied, touched>>
  BY DEF Commit
<1>2. call.step \in Uncommitted /\ call.step \in Busy
  BY <1>1 DEF Unpublished, Uncommitted, Busy
<1>3. /\ p \in Paths /\ j \in used /\ call.turn \in Turns /\ turn[call.turn] = "running"
      /\ job[j] = NoJob /\ Known(m) /\ m.id # None /\ m.origin # j /\ m.pending \in {None, j}
      /\ \A q \in Paths : row[q].job # j /\ file[q].origin # j
  BY <1>1, <1>2 DEF JobsInv, CallKnown
<1>4. j \in Jobs /\ j # None /\ m.id \in used
  BY <1>3 DEF JobsInv, TypeOK, JobsAssumption, Known, NoFile
<1>5. /\ p \notin copied => file[p] \in {NoFile, m} /\ (~touched => file[p] = m)
      /\ \A q \in Paths \ copied : q # p =>
           /\ file[q].pending # j
           /\ file[q].id # None /\ file[q].id = m.id => row[q].id = file[q].id
  BY <1>2 DEF JobsInv, CallTrue
<1>6. CASE ~Commitable(p, m.id) /\ Answer("conflict") /\ UNCHANGED rows
  <2>1. p \in copied \/ touched
    <3>1. SUFFICES ASSUME p \notin copied, ~touched
                   PROVE  Commitable(p, m.id)
      BY <1>6
    <3>2. file[p] = m
      BY <1>5, <3>1
    <3>3. QED
      BY <1>3, <3>1, <3>2 DEF JobsInv, UncopiedTrue, Commitable
  <2>2. call'.step = "conflict" /\ call'.path = p /\ call'.step \notin Busy
    BY <1>6 DEF Answer, JobsInv, TypeOK, Busy, Uncommitted, Unpublished
  <2>3. QED
    BY <1>1, <1>6, <2>1, <2>2, QuietStep
<1>7. CASE Commitable(p, m.id)
  <2>2. /\ job' = [job EXCEPT ![j] = [turn |-> call.turn, kind |-> "simulation", path |-> p,
                                      id |-> m.id, status |-> "requested"]]
        /\ row' = [row EXCEPT ![p] = [id |-> m.id, status |-> "requested", job |-> j]]
        /\ link' = link \cup {<<ConversationOf[call.turn], m.id>>}
        /\ lastEvent' = [lastEvent EXCEPT ![j] = "requested"]
        /\ m.pending # None => Continue("finalize", m)
        /\ m.pending = None => Answer("registered")
    BY <1>7 DEF Commit
  <2>3. /\ job'[j].turn = call.turn /\ job'[j].kind = "simulation" /\ job'[j].path = p
        /\ job'[j].id = m.id /\ job'[j].status = "requested" /\ job'[j] # NoJob
        /\ \A k \in Jobs : k # j => job'[k] = job[k] /\ lastEvent'[k] = lastEvent[k]
        /\ lastEvent'[j] = "requested"
    BY <1>4, <2>2 DEF JobsInv, TypeOK, NoJob
  <2>4. /\ row'[p] = [id |-> m.id, status |-> "requested", job |-> j]
        /\ \A q \in Paths : q # p => row'[q] = row[q]
    BY <1>3, <2>2 DEF JobsInv, TypeOK
  <2>5. /\ row[p].id # None => row[p].id = m.id
        /\ \A q \in Paths : q # p => row[q].id # m.id
    BY <1>7 DEF Commitable
  <2>6. JobsKnown'
    <3>1. \A k \in Jobs : job'[k] # NoJob =>
            /\ k \in used' /\ job'[k].turn \in Turns
            /\ job'[k].kind \in {"simulation", "artifact"}
            /\ job'[k].kind = "simulation" => job'[k].path \in Paths /\ job'[k].id # None
      <4>1. ASSUME NEW k \in Jobs, job'[k] # NoJob, k # j
            PROVE  /\ k \in used' /\ job'[k].turn \in Turns
                   /\ job'[k].kind \in {"simulation", "artifact"}
                   /\ job'[k].kind = "simulation" => job'[k].path \in Paths /\ job'[k].id # None
        BY <1>1, <2>3, <4>1 DEF JobsInv, JobsKnown
      <4>2. QED
        BY <1>1, <1>3, <2>3, <4>1
    <3>2. ASSUME NEW q \in Paths
          PROVE  /\ row'[q].id \in used' \cup {None} /\ row'[q].job \in used' \cup {None}
                 /\ row'[q].job # None /\ job'[row'[q].job] # NoJob =>
                      job'[row'[q].job].kind = "simulation"
      <4>1. CASE q = p
        BY <1>1, <1>3, <1>4, <2>3, <2>4, <4>1
      <4>2. CASE q # p
        <5>1. row[q].job \in Jobs \cup {None} /\ row[q].job # j /\ row'[q] = row[q]
          BY <1>3, <2>4, <4>2 DEF JobsInv, TypeOK
        <5>2. row[q].job # None => job'[row[q].job] = job[row[q].job]
          BY <2>3, <5>1
        <5>3. QED
          BY <1>1, <5>1, <5>2 DEF JobsInv, JobsKnown
      <4>3. QED
        BY <4>1, <4>2
    <3>3. QED
      BY <3>1, <3>2 DEF JobsKnown
  <2>7. RowsFollowJobs'
    <3>1. ASSUME NEW k \in Jobs
          PROVE  /\ lastEvent'[k] = job'[k].status
                 /\ job'[k].kind = "simulation" =>
                      /\ row'[job'[k].path].id = job'[k].id
                      /\ <<ConversationOf[job'[k].turn], job'[k].id>> \in link'
      <4>1. CASE k = j
        BY <2>2, <2>3, <2>4, <4>1
      <4>2. CASE k # j
        <5>1. job'[k] = job[k] /\ lastEvent'[k] = lastEvent[k]
          BY <2>3, <4>2
        <5>2. lastEvent[k] = job[k].status
          BY DEF JobsInv, RowsFollowJobs
        <5>3. ASSUME job[k].kind = "simulation"
              PROVE  /\ row[job[k].path].id = job[k].id /\ job[k].path \in Paths /\ job[k].id # None
                     /\ <<ConversationOf[job[k].turn], job[k].id>> \in link
          <6>1. job[k] # NoJob
            BY <5>3 DEF NoJob
          <6>2. QED
            BY <5>3, <6>1 DEF JobsInv, RowsFollowJobs, JobsKnown
        <5>4. ASSUME job[k].kind = "simulation"
              PROVE  row'[job[k].path].id = job[k].id
          BY <2>4, <2>5, <5>3, <5>4
        <5>5. QED
          BY <2>2, <5>1, <5>2, <5>3, <5>4
      <4>3. QED
        BY <4>1, <4>2
    <3>2. ASSUME NEW q \in Paths, row'[q].job # None, job'[row'[q].job] # NoJob
          PROVE  row'[q].status = job'[row'[q].job].status /\ job'[row'[q].job].path = q
      <4>1. CASE q = p
        BY <2>3, <2>4, <4>1
      <4>2. CASE q # p
        <5>1. row[q].job \in Jobs /\ row[q].job # j /\ row'[q] = row[q]
          BY <1>3, <2>4, <3>2, <4>2 DEF JobsInv, TypeOK
        <5>2. job'[row[q].job] = job[row[q].job]
          BY <2>3, <5>1
        <5>3. QED
          BY <3>2, <5>1, <5>2 DEF JobsInv, RowsFollowJobs
      <4>3. QED
        BY <4>1, <4>2
    <3>3. QED
      BY <3>1, <3>2 DEF RowsFollowJobs
  <2>8. OneRowPerExperiment'
    BY <2>4, <2>5 DEF JobsInv, OneRowPerExperiment
  <2>9. FilesKnown'
    BY <1>1 DEF JobsInv, FilesKnown, Known
  <2>10. UncopiedTrue'
    <3>1. \A q \in Paths : /\ file[q].origin # j
                           /\ file[q].origin \in Jobs \cup {None} /\ file[q].pending \in Jobs \cup {None}
      BY <1>3 DEF JobsInv, TypeOK, Files
    <3>2. ASSUME p \notin copied
          PROVE  /\ file[p].id # None /\ row'[p].id # None => file[p].id = row'[p].id
                 /\ SettledTrue(file[p], p)' /\ PendingTrue(file[p], p)'
                 /\ \A q \in Paths \ {p} : file[p].id # None =>
                      /\ row'[q].id # file[p].id
                      /\ file[q].id = file[p].id => row'[p].id = file[p].id
      <4>1. file[p] = NoFile \/ file[p] = m
        BY <1>5, <3>2
      <4>2. CASE file[p] = NoFile
        BY <1>1, <4>2 DEF NoFile, SettledTrue, PendingTrue
      <4>3. CASE file[p] = m
        <5>1. SettledTrue(file[p], p)'
          BY <1>1, <1>3, <2>3, <2>4, <3>1, <3>2, <4>3 DEF JobsInv, UncopiedTrue, SettledTrue
        <5>2. PendingTrue(file[p], p)'
          BY <1>1, <1>3, <2>3, <4>3 DEF PendingTrue
        <5>3. QED
          BY <1>3, <2>4, <2>5, <4>3, <5>1, <5>2
      <4>4. QED
        BY <4>1, <4>2, <4>3
    <3>3. ASSUME NEW q \in Paths \ copied, q # p
          PROVE  /\ file[q].id # None /\ row'[q].id # None => file[q].id = row'[q].id
                 /\ SettledTrue(file[q], q)' /\ PendingTrue(file[q], q)'
                 /\ \A r \in Paths \ {q} : file[q].id # None =>
                      /\ row'[r].id # file[q].id
                      /\ file[r].id = file[q].id => row'[q].id = file[q].id
      <4>1. row'[q] = row[q] /\ file[q].pending # j
        BY <1>5, <2>4, <3>3
      <4>2. SettledTrue(file[q], q)' /\ PendingTrue(file[q], q)'
        BY <1>1, <2>3, <3>1, <3>3, <4>1 DEF JobsInv, UncopiedTrue, SettledTrue, PendingTrue
      <4>3. ASSUME NEW r \in Paths \ {q}, file[q].id # None
            PROVE  /\ row'[r].id # file[q].id
                   /\ file[r].id = file[q].id => row'[q].id = file[q].id
        <5>1. file[q].id # m.id
          BY <1>5, <2>5, <3>3, <4>3
        <5>2. row'[r].id # file[q].id
          BY <2>4, <3>3, <4>3, <5>1 DEF JobsInv, UncopiedTrue
        <5>3. QED
          BY <3>3, <4>1, <4>3, <5>2 DEF JobsInv, UncopiedTrue
      <4>4. QED
        BY <3>3, <4>1, <4>2, <4>3 DEF JobsInv, UncopiedTrue
    <3>4. QED
      BY <1>1, <3>2, <3>3 DEF UncopiedTrue
  <2>11. /\ call'.turn = call.turn /\ call'.path = p /\ call'.job = j
         /\ \/ call'.step = "finalize" /\ call'.meta = m /\ m.pending = j
            \/ call'.step = "registered"
    <3>1. ASSUME NEW step, Answer(step)
          PROVE  /\ call'.turn = call.turn /\ call'.path = p /\ call'.job = j
                 /\ call'.step = step
      BY <3>1 DEF Answer, JobsInv, TypeOK
    <3>2. ASSUME NEW step, Continue(step, m)
          PROVE  /\ call'.turn = call.turn /\ call'.path = p /\ call'.job = j
                 /\ call'.step = step /\ call'.meta = m
      BY <3>2 DEF Continue, JobsInv, TypeOK
    <3>3. QED
      BY <1>3, <2>2, <3>1, <3>2
  <2>12. CallKnown'
    <3>1. CASE call'.step = "finalize" /\ call'.meta = m /\ m.pending = j
      BY <1>1, <1>3, <2>3, <2>11, <3>1 DEF CallKnown, Known, Busy, Uncommitted, Unpublished
    <3>2. CASE call'.step = "registered"
      BY <3>2 DEF CallKnown, Busy, Uncommitted, Unpublished
    <3>3. QED
      BY <2>11, <3>1, <3>2
  <2>13. CallTrue'
    <3>1. CASE call'.step = "finalize" /\ call'.meta = m
      BY <1>1, <1>5, <2>4, <2>11, <3>1 DEF CallTrue
    <3>2. CASE call'.step = "registered"
      BY <3>2 DEF CallTrue, Busy, Uncommitted, Unpublished
    <3>3. QED
      BY <2>11, <3>1, <3>2
  <2>14. ConflictOnlyAfterEdit'
    BY <2>11 DEF ConflictOnlyAfterEdit
  <2>15. QED
    BY <2>6, <2>7, <2>8, <2>9, <2>10, <2>12, <2>13, <2>14 DEF JobsInv
<1>8. QED
  BY <1>6, <1>7 DEF Commit

LEMMA FinalizeInv ==
  ASSUME JobsInv, JobsAssumption, TypeOK', Finalize
  PROVE  JobsInv'
<1>0. PICK p, j, m : p = call.path /\ j = call.job /\ m = call.meta
  OBVIOUS
<1> USE <1>0
<1>1. call.step = "finalize" /\ UNCHANGED <<turn, rows, used, copied, touched>>
  BY DEF Finalize
<1>2. call.step \in Busy
  BY <1>1 DEF Busy
<1>3. /\ p \in Paths /\ j \in used /\ m.pending = j /\ job[j] # NoJob
      /\ job[j].id = m.id /\ job[j].path = p /\ job[j].kind = "simulation"
  BY <1>1, <1>2 DEF JobsInv, CallKnown
<1>4. ASSUME NEW step, Answer(step)
      PROVE  call'.step = step /\ call'.path = p
  BY <1>4 DEF Answer, JobsInv, TypeOK
<1>5. CASE file[p] = m /\ file' = [file EXCEPT ![p] = Finalized(m)] /\ Answer("registered")
  <2>1. j # None
    BY <1>3 DEF JobsInv, TypeOK, JobsAssumption
  <2>2. Committed(m) /\ ~Contradicted(m, p)
    BY <1>3, <2>1 DEF Committed, Contradicted
  <2>3. JobsKnown' /\ FilesKnown' /\ OneRowPerExperiment' /\ RowsFollowJobs' /\ UncopiedTrue'
    BY <1>1, <1>3, <1>5, <2>2, FinalizedTrue
  <2>4. call'.step = "registered"
    BY <1>4, <1>5
  <2>5. CallKnown' /\ CallTrue' /\ ConflictOnlyAfterEdit'
    BY <2>4 DEF CallKnown, CallTrue, ConflictOnlyAfterEdit, Busy, Uncommitted, Unpublished
  <2>6. QED
    BY <2>3, <2>5 DEF JobsInv
<1>6. CASE file[p] # m /\ UNCHANGED file /\ Answer("conflict")
  <2>1. p \in copied \/ touched
    BY <1>2, <1>6 DEF JobsInv, CallTrue
  <2>2. call'.step = "conflict" /\ call'.path = p /\ call'.step \notin Busy
    BY <1>4, <1>6 DEF Busy, Uncommitted, Unpublished
  <2>3. QED
    BY <1>1, <1>6, <2>1, <2>2, QuietStep
<1>7. QED
  BY <1>5, <1>6 DEF Finalize

-----------------------------------------------------------------------------
(* Directories that are removed or copied *)

LEMMA RemoveDirectoryInv ==
  ASSUME JobsInv, JobsAssumption, TypeOK', NEW p \in Paths, RemoveDirectory(p)
  PROVE  JobsInv'
<1>1. /\ UNCHANGED <<turn, job, row, link, lastEvent, call, used>>
      /\ file'[p] = NoFile /\ \A q \in Paths : q # p => file'[q] = file[q]
      /\ copied' = copied \ {p} /\ touched' = (touched \/ call.path = p)
  BY DEF RemoveDirectory, rows, process, JobsInv, TypeOK
<1>2. JobsKnown' /\ OneRowPerExperiment' /\ RowsFollowJobs'
  BY <1>1 DEF JobsInv, JobsKnown, OneRowPerExperiment, RowsFollowJobs
<1>3. FilesKnown'
  <2>1. Known(file[p])'
    BY <1>1 DEF Known, NoFile
  <2>2. \A q \in Paths : q # p => Known(file[q])'
    BY <1>1 DEF JobsInv, FilesKnown, Known
  <2>3. QED
    BY <2>1, <2>2 DEF FilesKnown
<1>4. UncopiedTrue'
  <2>1. ASSUME NEW q \in Paths \ copied'
        PROVE  /\ file'[q].id # None /\ row'[q].id # None => file'[q].id = row'[q].id
               /\ SettledTrue(file[q], q)' /\ PendingTrue(file[q], q)'
               /\ \A r \in Paths \ {q} : file'[q].id # None =>
                    /\ row'[r].id # file'[q].id
                    /\ file'[r].id = file'[q].id => row'[q].id = file'[q].id
    <3>1. CASE q = p
      BY <1>1, <3>1 DEF NoFile, SettledTrue, PendingTrue
    <3>2. CASE q # p
      <4>1. q \in Paths \ copied /\ file'[q] = file[q]
        BY <1>1, <3>2
      <4>2. SettledTrue(file[q], q)' /\ PendingTrue(file[q], q)'
        BY <1>1, <4>1 DEF JobsInv, UncopiedTrue, SettledTrue, PendingTrue
      <4>3. \A r \in Paths \ {q} : file'[q].id # None =>
              /\ row'[r].id # file'[q].id
              /\ file'[r].id = file'[q].id => row'[q].id = file'[q].id
        BY <1>1, <4>1 DEF JobsInv, UncopiedTrue, NoFile
      <4>4. QED
        BY <1>1, <4>1, <4>2, <4>3 DEF JobsInv, UncopiedTrue
    <3>3. QED
      BY <3>1, <3>2
  <2>2. QED
    BY <2>1 DEF UncopiedTrue
<1>5. CASE call.step \in Busy
  <2>1. call.job \in used /\ call.job # None
    <3>1. call.job \in used /\ used \subseteq Jobs
      BY <1>5 DEF JobsInv, CallKnown, TypeOK
    <3>2. QED
      BY <3>1 DEF JobsAssumption
  <2>2. CallKnown'
    <3>1. Known(call.meta)'
      BY <1>1, <1>5 DEF JobsInv, CallKnown, Known
    <3>2. call.step \in Uncommitted => \A q \in Paths : file'[q].origin # call.job
      BY <1>1, <1>5, <2>1 DEF JobsInv, CallKnown, NoFile
    <3>3. call.step \in Unpublished =>
            \A q \in Paths : file'[q].id # call.job /\ file'[q].pending # call.job
      BY <1>1, <1>5, <2>1 DEF JobsInv, CallKnown, NoFile
    <3>4. QED
      BY <1>1, <1>5, <3>1, <3>2, <3>3 DEF JobsInv, CallKnown
  <2>3. CallTrue'
    <3>1. call.path \notin copied' =>
            /\ file'[call.path] \in {NoFile, call.meta}
            /\ ~touched' => file'[call.path] = call.meta
      BY <1>1, <1>5 DEF JobsInv, CallKnown, CallTrue
    <3>2. \A q \in Paths \ copied' : q # call.path =>
            /\ file'[q].pending # call.job
            /\ file'[q].id # None /\ file'[q].id = call.meta.id => row'[q].id = file'[q].id
      BY <1>1, <1>5, <2>1 DEF JobsInv, CallTrue, NoFile
    <3>3. QED
      BY <1>1, <3>1, <3>2 DEF CallTrue
  <2>4. QED
    BY <1>1, <1>2, <1>3, <1>4, <1>5, <2>2, <2>3 DEF JobsInv, ConflictOnlyAfterEdit, Busy, Uncommitted, Unpublished
<1>6. CASE call.step \notin Busy
  <2>1. CallKnown' /\ CallTrue'
    BY <1>1, <1>6 DEF CallKnown, CallTrue
  <2>2. ConflictOnlyAfterEdit'
    BY <1>1 DEF JobsInv, ConflictOnlyAfterEdit
  <2>3. QED
    BY <1>2, <1>3, <1>4, <2>1, <2>2 DEF JobsInv
<1>7. QED
  BY <1>5, <1>6

LEMMA CopyDirectoryInv ==
  ASSUME JobsInv, JobsAssumption, TypeOK', NEW p \in Paths, NEW q \in Paths, CopyDirectory(p, q)
  PROVE  JobsInv'
<1>1. /\ UNCHANGED <<turn, job, row, link, lastEvent, call, used, touched>>
      /\ p # q /\ file'[q] = file[p] /\ \A r \in Paths : r # q => file'[r] = file[r]
      /\ copied' = copied \cup {p, q}
  BY DEF CopyDirectory, rows, process, JobsInv, TypeOK
<1>2. \A r \in Paths : file'[r] = file[r] \/ file'[r] = file[p]
  BY <1>1
<1>3. JobsKnown' /\ OneRowPerExperiment' /\ RowsFollowJobs'
  BY <1>1 DEF JobsInv, JobsKnown, OneRowPerExperiment, RowsFollowJobs
<1>4. FilesKnown'
  BY <1>1, <1>2 DEF JobsInv, FilesKnown, Known
<1>5. \A r \in Paths \ copied' : r \in Paths \ copied /\ r # p /\ r # q /\ file'[r] = file[r]
  BY <1>1
<1>6. UncopiedTrue'
  <2>1. \A r \in Paths \ copied' : SettledTrue(file[r], r)' /\ PendingTrue(file[r], r)'
    BY <1>1, <1>5 DEF JobsInv, UncopiedTrue, SettledTrue, PendingTrue
  <2>2. ASSUME NEW r \in Paths \ copied', NEW s \in Paths \ {r}, file'[r].id # None
        PROVE  /\ row'[s].id # file'[r].id
               /\ file'[s].id = file'[r].id => row'[r].id = file'[r].id
    BY <1>1, <1>2, <1>5, <2>2 DEF JobsInv, UncopiedTrue
  <2>3. QED
    BY <1>1, <1>5, <2>1, <2>2 DEF JobsInv, UncopiedTrue
<1>7. CallKnown'
  <2>1. Known(call.meta)' <=> Known(call.meta)
    BY <1>1 DEF Known
  <2>2. QED
    BY <1>1, <1>2, <2>1 DEF JobsInv, CallKnown
<1>8. CallTrue'
  BY <1>1, <1>5 DEF JobsInv, CallKnown, CallTrue
<1>9. ConflictOnlyAfterEdit'
  BY <1>1 DEF JobsInv, ConflictOnlyAfterEdit
<1>10. QED
  BY <1>3, <1>4, <1>6, <1>7, <1>8, <1>9 DEF JobsInv

-----------------------------------------------------------------------------
LEMMA JobsInit ==
  ASSUME JobsAssumption, Init
  PROVE  JobsInv
<1> USE DEF Init, NoJob, NoRow, NoFile, NoCall
<1>1. TypeOK
  BY DEF TypeOK, Files
<1>2. JobsKnown /\ FilesKnown /\ OneRowPerExperiment /\ RowsFollowJobs
  BY DEF JobsKnown, FilesKnown, Known, OneRowPerExperiment, RowsFollowJobs
<1>3. UncopiedTrue
  BY DEF UncopiedTrue, SettledTrue, PendingTrue
<1>4. CallKnown /\ CallTrue /\ ConflictOnlyAfterEdit
  BY DEF CallKnown, CallTrue, ConflictOnlyAfterEdit, Busy, Uncommitted, Unpublished
<1>5. QED
  BY <1>1, <1>2, <1>3, <1>4 DEF JobsInv

LEMMA JobsNext ==
  ASSUME JobsInv, JobsAssumption, [Next]_vars
  PROVE  JobsInv'
<1>1. TypeOK'
  BY TypeStep DEF JobsInv
<1>2. ASSUME NEW t \in Turns,
             BeginTurn(t) \/ EndTurn(t) \/ Authorize(t) \/ Refuse(t)
      PROVE  JobsInv'
  <2>1. call.step = "idle" /\ UNCHANGED <<rows, file, call, used, copied>>
    BY <1>2 DEF BeginTurn, EndTurn, Authorize, Refuse, Serving, process
  <2>2. call'.step \notin Busy /\ call'.step # "conflict"
    BY <2>1 DEF Busy, Uncommitted, Unpublished
  <2>3. QED
    BY <1>1, <2>1, <2>2, QuietStep
<1>3. CASE WriteFails \/ Return \/ Crash
  <2>1. UNCHANGED <<rows, file, used, copied>>
    BY <1>3 DEF WriteFails, Return, Crash
  <2>2. call'.step \in {"error", "idle"}
    <3>1. ASSUME NEW step, Answer(step)
          PROVE  call'.step = step
      BY <3>1 DEF Answer, JobsInv, TypeOK
    <3>2. NoCall.step = "idle"
      BY DEF NoCall
    <3>3. QED
      BY <1>3, <3>1, <3>2 DEF WriteFails, Return, Crash
  <2>3. call'.step \notin Busy /\ call'.step # "conflict"
    BY <2>2 DEF Busy, Uncommitted, Unpublished
  <2>4. QED
    BY <1>1, <2>1, <2>3, QuietStep
<1>4. CASE UNCHANGED vars
  <2>1. UNCHANGED <<turn, job, row, link, lastEvent, file, call, used, copied, touched>>
    BY <1>4 DEF vars, rows, process
  <2>2. JobsKnown' /\ FilesKnown' /\ OneRowPerExperiment' /\ RowsFollowJobs'
    BY <2>1 DEF JobsInv, JobsKnown, FilesKnown, Known, OneRowPerExperiment, RowsFollowJobs
  <2>3. UncopiedTrue'
    BY <2>1 DEF JobsInv, UncopiedTrue, SettledTrue, PendingTrue
  <2>4. CallKnown' /\ CallTrue' /\ ConflictOnlyAfterEdit'
    BY <2>1 DEF JobsInv, CallKnown, Known, CallTrue, ConflictOnlyAfterEdit
  <2>5. QED
    BY <1>1, <2>2, <2>3, <2>4 DEF JobsInv
<1>5. QED
  BY <1>1, <1>2, <1>3, <1>4, RegisterInv, RegisterArtifactInv, UpdateInv, DeleteConversationInv,
     RecoverInv, PublishInv, ReplaceInv, CommitInv, FinalizeInv, RemoveDirectoryInv, CopyDirectoryInv
     DEF Next

(* JobsInv holds whatever crashes, fails or is edited, and with it what    *)
(* the runs check: IdentitiesAgree, RowsFollowJobs, ConflictOnlyAfterEdit. *)
THEOREM JobsInvariant == Spec => []JobsInv
<1>1. Init => JobsInv
  BY JobsInit, JobsAssumption
<1>2. JobsInv /\ [Next]_vars => JobsInv'
  BY JobsNext, JobsAssumption
<1>3. QED
  BY <1>1, <1>2, PTL DEF Spec

(* Metadata and tables name the same experiment, whatever crash or failed  *)
(* write came between the two (register_run).                              *)
THEOREM MetadataAndTablesAgree == Spec => []IdentitiesAgree
<1>1. JobsInv => IdentitiesAgree
  BY DEF JobsInv, OneRowPerExperiment, UncopiedTrue, SettledTrue, IdentitiesAgree
<1>2. QED
  BY <1>1, JobsInvariant, PTL

(* An experiment, its list and the events follow the job that was          *)
(* registered last, also while older jobs report (Jobs.update).            *)
THEOREM ExperimentsFollowJobs == Spec => []RowsFollowJobs
<1>1. JobsInv => RowsFollowJobs
  BY DEF JobsInv
<1>2. QED
  BY <1>1, JobsInvariant, PTL

(* A registration conflicts only with an edit, never with what a crash     *)
(* left behind (_recover_metadata).                                        *)
THEOREM CrashesLeaveNoConflict == Spec => []ConflictOnlyAfterEdit
<1>1. JobsInv => ConflictOnlyAfterEdit
  BY DEF JobsInv
<1>2. QED
  BY <1>1, JobsInvariant, PTL

(* Storage rechecks the owner: the jobs of a turn that has ended never     *)
(* change again (_require_running).                                        *)
THEOREM EndedTurnsKeepTheirJobs == Spec => EndedTurnsFrozen
<1> DEFINE Frozen ==
      \A j \in Jobs :
        job'[j] # job[j] =>
          \/ job'[j] # NoJob /\ turn[job'[j].turn] = "running"
          \/ job'[j] = NoJob /\ turn'[job[j].turn] = "deleted"
<1>1. ASSUME JobsInv, JobsAssumption, [Next]_vars
      PROVE  [Frozen]_vars
  <2>1. ASSUME NEW t \in Turns, NEW p \in Paths, NEW j \in Jobs, RegisterArtifact(t, p, j)
        PROVE  Frozen
    BY <1>1, <2>1 DEF RegisterArtifact, Owner, JobsInv, TypeOK, NoJob
  <2>2. ASSUME NEW t \in Turns, NEW j \in Jobs, NEW s \in Statuses, Update(t, j, s)
        PROVE  Frozen
    <3>1. /\ turn[t] = "running" /\ job'[j].turn = t /\ job[j].turn = t
          /\ \A k \in Jobs : k # j => job'[k] = job[k]
      BY <1>1, <2>2 DEF Update, Owner, JobsInv, TypeOK
    <3>2. t # None
      BY <1>1 DEF JobsAssumption
    <3>3. job'[j] # NoJob
      BY <3>1, <3>2 DEF NoJob
    <3>4. QED
      BY <3>1, <3>3
  <2>3. ASSUME NEW c \in Conversations, DeleteConversation(c)
        PROVE  Frozen
    <3>1. ASSUME NEW j \in Jobs, job'[j] # job[j]
          PROVE  job'[j] = NoJob /\ job[j].turn \in Turns /\ ConversationOf[job[j].turn] = c
      BY <2>3, <3>1 DEF DeleteConversation
    <3>2. \A t \in Turns : ConversationOf[t] = c => turn'[t] = "deleted"
      BY <2>3 DEF DeleteConversation
    <3>3. QED
      BY <3>1, <3>2
  <2>4. CASE Commit
    <3>1. /\ call.step = "commit"
          /\ \A k \in Jobs : job'[k] # job[k] =>
               k = call.job /\ job'[k].turn = call.turn /\ job'[k].kind = "simulation"
      BY <1>1, <2>4 DEF Commit, rows, JobsInv, TypeOK
    <3>2. turn[call.turn] = "running"
      BY <1>1, <3>1 DEF JobsInv, CallKnown, Busy, Uncommitted
    <3>3. QED
      BY <3>1, <3>2 DEF NoJob
  <2>5. CASE job' = job
    BY <2>5
  <2>7. CASE UNCHANGED vars
    BY <2>7
  <2>8. CASE Next
    <3>1. ASSUME NEW t \in Turns,
                 BeginTurn(t) \/ EndTurn(t) \/ Authorize(t) \/ Refuse(t)
          PROVE  job' = job
      BY <3>1 DEF BeginTurn, EndTurn, Authorize, Refuse, rows
    <3>2. ASSUME NEW t \in Turns, NEW p \in Paths, NEW j \in Jobs, Register(t, p, j)
          PROVE  job' = job
      BY <3>2 DEF Register, rows
    <3>3. CASE Recover \/ Publish \/ Replace \/ Finalize \/ WriteFails \/ Return \/ Crash
      BY <3>3 DEF Recover, Publish, Replace, Finalize, WriteFails, Return, Crash, rows
    <3>4. ASSUME NEW p \in Paths, RemoveDirectory(p) \/ \E q \in Paths : CopyDirectory(p, q)
          PROVE  job' = job
      BY <3>4 DEF RemoveDirectory, CopyDirectory, rows
    <3>5. QED
      BY <2>1, <2>2, <2>3, <2>4, <2>5, <2>8, <3>1, <3>2, <3>3, <3>4 DEF Next
  <2>9. QED
    BY <1>1, <2>7, <2>8
<1>2. JobsInv /\ JobsAssumption /\ [Next]_vars => [Frozen]_vars
  BY <1>1
<1>3. QED
  BY <1>2, JobsInvariant, JobsAssumption, PTL DEF Spec, EndedTurnsFrozen
=============================================================================
