------------------------------ MODULE NamingProofs ------------------------------
(* Theorems about Workspaces and Naming together, for any requests, names,  *)
(* conversations, evaluations and failures.                                 *)
EXTENDS Naming, TLAPS, WellFoundedInduction

-----------------------------------------------------------------------------
(* The inductive invariant of the registry and of the creations *)

Steps == {"new", "add", "stage", "logs", "discard", "publish", "move", "describe", "index",
          "done", "failed", "dead"}

WorkspacesTypeOK ==
  /\ pc \in [Requests \cup {Main} -> Steps]
  /\ form \in [Requests -> Forms] /\ pick \in [Requests -> 0 .. MaxSuffix]
  /\ lock \in Requests \cup {None}
  /\ dir \in [Ids -> {"absent", "made", "full"}]
  /\ repo \in [Ids -> {"absent", "whole", "part"}]
  /\ desc \in [Ids -> {None, Broken} \cup Descriptors]
  /\ tree \in [Suffixes -> Requests \cup {None}]
  /\ branch \in [Suffixes -> Requests \cup {None, "user"}]
  /\ torn \in BOOLEAN

(* A descriptor that is there to stay: its creation is over. *)
Published(i) == Readable(i) /\ (i \in Requests => pc[i] \in {"done", "dead"})

Holding == {"move", "describe", "index"}

(* What a creation has made of its worktree, its directory and its          *)
(* descriptor at each of its steps.                                         *)
CreationInv(r) ==
  /\ desc[r] # Broken
  /\ lock = r <=> pc[r] \in Holding
  /\ pc[r] \in {"add", "stage", "logs", "discard"} => IsWorktree(r)
  /\ IsWorktree(r) /\ pc[r] \notin {"new", "failed", "dead"} => pick[r] \in Suffixes
  /\ IsWorktree(r) /\ pc[r] \in {"stage", "logs", "discard", "publish", "done"} \cup Holding =>
       tree[pick[r]] = r /\ branch[pick[r]] = r
  /\ pc[r] \in {"new", "add", "stage", "logs", "discard", "publish", "failed"} =>
       dir[r] = "absent" /\ repo[r] = "absent"
  /\ pc[r] \in {"index", "done"} => Readable(r)
  /\ Readable(r) =>
       /\ pc[r] \in {"index", "done", "dead"} /\ dir[r] = "full" /\ desc[r].kind = Kind(r)
       /\ IF IsWorktree(r) THEN pick[r] \in Suffixes /\ tree[pick[r]] = r /\ branch[pick[r]] = r
                           ELSE repo[r] = "whole"
  /\ pc[r] = "describe" => dir[r] = "full" /\ (IsWorktree(r) \/ repo[r] = "whole")
  /\ \A n \in Suffixes : r \in {tree[n], branch[n]} =>
       /\ n = pick[r] /\ IsWorktree(r)
       /\ pc[r] \notin {"new", "add"} /\ (pc[r] = "failed" => r \in leaked)

(* The descriptors that the index was written from: all but the one whose   *)
(* creation is about to write the index.                                    *)
Settled == [i \in Ids |-> IF i \in Requests /\ pc[i] = "index" THEN None ELSE desc[i]]

IndexInv ==
  /\ \A i \in DOMAIN index : Published(i)
  /\ DOMAIN index \subseteq Ids
  /\ ~torn => index = Projection(Settled)

(* Nothing is created before w_main is there. *)
MainInv ==
  /\ pc[Main] \in {"new", "done"}
  /\ pc[Main] = "new" => desc[Main] = None /\ \A r \in Requests : pc[r] = "new"

(* A name that a user chose is not a generated one. *)
NamesInv == \A i \in Ids : Readable(i) /\ desc[i].naming = "manual" => desc[i].name # "generated"

WorkspacesInv ==
  /\ WorkspacesTypeOK
  /\ \A r \in Requests : CreationInv(r)
  /\ IndexInv
  /\ MainInv
  /\ NamesInv

-----------------------------------------------------------------------------
(* The inductive invariant of naming and of evaluations *)

TalkTypeOK ==
  /\ conversation \in [Conversations -> Rows \cup {None}]
  /\ turn \in [Conversations -> {"none", "running", "ended"}]
  /\ ticket \in [Conversations -> {"none", "waiting", "ready", "aborted"}]
  /\ naming \in {"open", "stopping", "draining", "closed"}
  /\ evaluation \in [Evaluations -> {"none", "preparing", "running", "ended"}]

ConversationInv(c) ==
  /\ Exists(c) => Published(WorkspaceOf[c])
  /\ Exists(c) /\ conversation[c].title = "generated" => c \in answered
  /\ ticket[c] = "ready" => c \in answered
  /\ naming \in {"draining", "closed"} => turn[c] # "running"
  /\ naming = "closed" => ticket[c] = "none"

EvaluationInv(r) ==
  /\ Evaluates(r) /\ ~Ended(r) => evaluation[r] = "preparing"
  /\ naming \in {"draining", "closed"} => evaluation[r] \notin {"preparing", "running"}

TalkInv ==
  /\ TalkTypeOK
  /\ \A c \in Conversations : ConversationInv(c)
  /\ \A r \in Evaluations : EvaluationInv(r)

NamingInv == WorkspacesInv /\ TalkInv

LEMMA RecordsAreDescriptors ==
  ASSUME NEW d \in Descriptors PROVE d \notin {None, Broken}
  BY WorkspacesAssumption

LEMMA WorkspacesInitInv == WorkspacesInit => WorkspacesInv
<1> SUFFICES ASSUME WorkspacesInit PROVE WorkspacesInv
  OBVIOUS
<1>1. MainDescriptor \in Descriptors
      /\ Descriptor("given", "manual", "active", "managed") \in Descriptors
  BY DEF MainDescriptor, Descriptor, Descriptors
<1>2. /\ \A i \in Ids \ {Main, Old} : desc[i] = None
      /\ desc \in [Ids -> {None, Broken} \cup Descriptors]
      /\ desc[Main] # Broken
      /\ \A i \in Ids : desc[i] \in Descriptors => desc[i].name = "given"
  BY <1>1, WorkspacesAssumption DEF WorkspacesInit, Ids, MainDescriptor, Descriptor
<1>3. WorkspacesTypeOK
  <2>1. form \in [Requests -> Forms]
    BY WorkspacesAssumption DEF WorkspacesInit
  <2>2. pick \in [Requests -> 0 .. MaxSuffix]
    BY WorkspacesAssumption DEF WorkspacesInit
  <2>3. branch \in [Suffixes -> Requests \cup {None, "user"}]
    BY DEF WorkspacesInit
  <2>4. pc \in [Requests \cup {Main} -> Steps]
    BY DEF WorkspacesInit, Steps
  <2> QED BY <1>2, <2>1, <2>2, <2>3, <2>4 DEF WorkspacesInit, WorkspacesTypeOK
<1>4. ASSUME NEW r \in Requests PROVE CreationInv(r) /\ pc[r] = "new"
  BY <1>2, WorkspacesAssumption DEF WorkspacesInit, CreationInv, Ids, Readable, Holding, Suffixes
<1>5. IndexInv
  <2>1. Settled = desc
    BY <1>2, <1>4 DEF Settled
  <2>2. index = Projection(desc) /\ DOMAIN index = {i \in Ids : Readable(i)}
    BY DEF WorkspacesInit, Projection, Readable
  <2>3. \A i \in Requests : ~Readable(i)
    BY <1>2, WorkspacesAssumption DEF Readable, Ids
  <2> QED BY <2>1, <2>2, <2>3 DEF IndexInv, Published
<1>6. MainInv /\ NamesInv
  BY <1>2, <1>4, WorkspacesAssumption DEF MainInv, NamesInv, WorkspacesInit, Readable, Ids
<1> QED BY <1>3, <1>4, <1>5, <1>6 DEF WorkspacesInv

-----------------------------------------------------------------------------
(* The steps of a creation *)

(* The first free name is one of the names. *)
LEMMA FirstFreeIsSuffix == Candidates # {} => FirstFree \in Suffixes
<1> SUFFICES ASSUME Candidates # {} PROVE \E n \in Candidates : \A k \in Candidates : n <= k
  BY DEF FirstFree, Candidates
<1>1. Candidates \subseteq Nat
  BY WorkspacesAssumption DEF Candidates, Suffixes
<1>2. PICK R : R = {ss \in Nat \X Nat : ss[1] < ss[2]} /\ IsWellFoundedOn(R, Nat)
  BY NatLessThanWellFounded DEF OpToRel
<1>3. PICK n \in Candidates : \A k \in Candidates : <<k, n>> \notin R
  BY <1>1, <1>2, WFMin
<1>4. ASSUME NEW k \in Candidates PROVE ~(k < n)
  BY <1>1, <1>2, <1>3, <1>4
<1> QED BY <1>1, <1>4

(* A step of one creation leaves the others as they are. *)
SameCreation(j) ==
  /\ pc'[j] = pc[j] /\ dir'[j] = dir[j] /\ repo'[j] = repo[j] /\ desc'[j] = desc[j]
  /\ pick'[j] = pick[j] /\ form' = form
  /\ lock' = j <=> lock = j
  /\ \A n \in Suffixes : (tree'[n] = j <=> tree[n] = j) /\ (branch'[n] = j <=> branch[n] = j)
  /\ j \in leaked' <=> j \in leaked

LEMMA OtherCreations ==
  ASSUME WorkspacesInv, NEW j \in Requests, SameCreation(j)
  PROVE  CreationInv(j)'
<1>1. CreationInv(j) /\ WorkspacesTypeOK
  BY DEF WorkspacesInv
<1>2. Readable(j)' = Readable(j) /\ IsWorktree(j)' = IsWorktree(j) /\ Kind(j)' = Kind(j)
  BY DEF SameCreation, Readable, IsWorktree, Kind
<1>3. pick[j] \in Suffixes /\ tree[pick[j]] = j /\ branch[pick[j]] = j =>
        tree'[pick[j]] = j /\ branch'[pick[j]] = j
  BY DEF SameCreation
<1>4. \A n \in Suffixes : j \in {tree'[n], branch'[n]} => j \in {tree[n], branch[n]}
  BY DEF SameCreation
<1> QED BY <1>1, <1>2, <1>3, <1>4 DEF SameCreation, CreationInv, Holding

(* A step that writes neither descriptors nor the index *)
LEMMA IndexKept ==
  ASSUME WorkspacesInv, UNCHANGED <<desc, index, torn>>,
         \A r \in Requests : /\ pc'[r] = "index" <=> pc[r] = "index"
                             /\ pc[r] \in {"done", "dead"} => pc'[r] \in {"done", "dead"}
  PROVE  IndexInv'
<1>1. Settled' = Settled
  BY DEF Settled
<1>2. Projection(Settled)' = Projection(Settled)
  BY <1>1 DEF Projection
<1> QED BY <1>2 DEF WorkspacesInv, IndexInv, Published, Readable

LEMMA ReserveStep ==
  ASSUME WorkspacesInv, NEW r \in Requests, Reserve(r)
  PROVE  WorkspacesInv'
<1>0. WorkspacesTypeOK /\ CreationInv(r) /\ (pick'[r] # pick[r] => pick'[r] \in Suffixes)
      /\ (pc'[r] = "add" => pick'[r] \in Suffixes)
  BY FirstFreeIsSuffix DEF WorkspacesInv, Reserve, Goto, Forms, Asked, Suffixes, WorkspacesTypeOK
<1>1. WorkspacesTypeOK'
  <2>1. pc' \in [Requests \cup {Main} -> Steps]
    BY <1>0 DEF Reserve, Goto, WorkspacesTypeOK, Steps
  <2>2. pick' \in [Requests -> 0 .. MaxSuffix]
    <3>1. pick' = pick \/ \E n : pick' = [pick EXCEPT ![r] = n]
      BY DEF Reserve
    <3> QED BY <1>0, <3>1 DEF WorkspacesTypeOK, Suffixes
  <2> QED BY <1>0, <2>1, <2>2 DEF Reserve, diskVars, historyVars, WorkspacesTypeOK
<1>2. CreationInv(r)'
  BY <1>0, WorkspacesAssumption DEF Reserve, Goto, diskVars, historyVars, WorkspacesTypeOK, Ids,
         CreationInv, Holding, IsWorktree, Readable, Kind
<1>3. \A j \in Requests \ {r} : SameCreation(j)
  BY <1>0, WorkspacesAssumption DEF Reserve, Goto, diskVars, historyVars, WorkspacesTypeOK, Ids,
         SameCreation
<1>4. IndexInv'
  BY <1>0, IndexKept DEF Reserve, Goto, diskVars, historyVars, WorkspacesTypeOK
<1>5. MainInv' /\ NamesInv'
  BY <1>0, WorkspacesAssumption DEF Reserve, Goto, diskVars, historyVars, WorkspacesTypeOK,
         MainInv, NamesInv, Readable, Descriptor, WorkspacesInv, Ids
<1> QED BY <1>1, <1>2, <1>3, <1>4, <1>5, OtherCreations DEF WorkspacesInv

LEMMA AddStep ==
  ASSUME WorkspacesInv, NEW r \in Requests, Add(r)
  PROVE  WorkspacesInv'
<1>0. WorkspacesTypeOK /\ CreationInv(r)
  BY DEF WorkspacesInv
<1>1. WorkspacesTypeOK'
  BY <1>0 DEF Add, Goto, Made, Taken, diskVars, historyVars, WorkspacesTypeOK, Steps, Ids
<1>2. CreationInv(r)'
  BY <1>0, WorkspacesAssumption DEF Add, Goto, Made, Taken, diskVars, historyVars,
         WorkspacesTypeOK, Ids, CreationInv, Holding, IsWorktree, Readable, Kind
<1>3. \A j \in Requests \ {r} : SameCreation(j)
  BY <1>0, WorkspacesAssumption DEF Add, Goto, Made, Taken, diskVars, historyVars,
         WorkspacesTypeOK, Ids, SameCreation
<1>4. IndexInv'
  BY <1>0, IndexKept DEF Add, Goto, diskVars, historyVars, WorkspacesTypeOK
<1>5. MainInv' /\ NamesInv'
  BY <1>0, WorkspacesAssumption DEF Add, Goto, Made, Taken, diskVars, historyVars,
         WorkspacesTypeOK, MainInv, NamesInv, Readable, Descriptor, WorkspacesInv, Ids
<1> QED BY <1>1, <1>2, <1>3, <1>4, <1>5, OtherCreations DEF WorkspacesInv

LEMMA StageStep ==
  ASSUME WorkspacesInv, NEW r \in Requests, Stage(r)
  PROVE  WorkspacesInv'
<1>0. WorkspacesTypeOK /\ CreationInv(r)
  BY DEF WorkspacesInv
<1>1. WorkspacesTypeOK'
  BY <1>0 DEF Stage, Goto, diskVars, historyVars, WorkspacesTypeOK, Steps, Ids
<1>2. CreationInv(r)'
  BY <1>0, WorkspacesAssumption DEF Stage, Goto, diskVars, historyVars, WorkspacesTypeOK, Ids,
         CreationInv, Holding, IsWorktree, Readable, Kind
<1>3. \A j \in Requests \ {r} : SameCreation(j)
  BY <1>0, WorkspacesAssumption DEF Stage, Goto, diskVars, historyVars, WorkspacesTypeOK, Ids,
         SameCreation
<1>4. IndexInv'
  BY <1>0, IndexKept DEF Stage, Goto, diskVars, historyVars, WorkspacesTypeOK
<1>5. MainInv' /\ NamesInv'
  BY <1>0, WorkspacesAssumption DEF Stage, Goto, diskVars, historyVars, WorkspacesTypeOK, MainInv,
         NamesInv, Readable, Descriptor, WorkspacesInv, Ids
<1> QED BY <1>1, <1>2, <1>3, <1>4, <1>5, OtherCreations DEF WorkspacesInv

LEMMA MakeLogsStep ==
  ASSUME WorkspacesInv, NEW r \in Requests, MakeLogs(r)
  PROVE  WorkspacesInv'
<1>0. WorkspacesTypeOK /\ CreationInv(r)
  BY DEF WorkspacesInv
<1>1. WorkspacesTypeOK'
  BY <1>0 DEF MakeLogs, Goto, diskVars, historyVars, WorkspacesTypeOK, Steps, Ids
<1>2. CreationInv(r)'
  BY <1>0, WorkspacesAssumption DEF MakeLogs, Goto, diskVars, historyVars, WorkspacesTypeOK, Ids,
         CreationInv, Holding, IsWorktree, Readable, Kind
<1>3. \A j \in Requests \ {r} : SameCreation(j)
  BY <1>0, WorkspacesAssumption DEF MakeLogs, Goto, diskVars, historyVars, WorkspacesTypeOK, Ids,
         SameCreation
<1>4. IndexInv'
  BY <1>0, IndexKept DEF MakeLogs, Goto, diskVars, historyVars, WorkspacesTypeOK
<1>5. MainInv' /\ NamesInv'
  BY <1>0, WorkspacesAssumption DEF MakeLogs, Goto, diskVars, historyVars, WorkspacesTypeOK,
         MainInv, NamesInv, Readable, Descriptor, WorkspacesInv, Ids
<1> QED BY <1>1, <1>2, <1>3, <1>4, <1>5, OtherCreations DEF WorkspacesInv

LEMMA DiscardStep ==
  ASSUME WorkspacesInv, NEW r \in Requests, Discard(r)
  PROVE  WorkspacesInv'
<1>0. WorkspacesTypeOK /\ CreationInv(r)
  BY DEF WorkspacesInv
<1>1. WorkspacesTypeOK'
  BY <1>0 DEF Discard, Goto, Without, diskVars, historyVars, WorkspacesTypeOK, Steps, Ids
<1>2. CreationInv(r)'
  <2>0. /\ IsWorktree(r) /\ pick[r] \in Suffixes /\ ~Readable(r)
        /\ pc'[r] = "failed" /\ lock # r
        /\ UNCHANGED <<dir, repo, desc, lock, pick, form>>
    BY <1>0 DEF Discard, Goto, CreationInv, WorkspacesTypeOK, Holding
  <2>1. CASE tree' = Without(r, tree) /\ branch' = Without(r, branch)
    <3>1. \A n \in Suffixes : r \notin {tree'[n], branch'[n]}
      BY <1>0, <2>0, <2>1, WorkspacesAssumption DEF Without, CreationInv, WorkspacesTypeOK
    <3> QED BY <1>0, <2>0, <3>1 DEF Discard, CreationInv, Holding, Readable, IsWorktree
  <2>2. CASE leaked' = leaked \cup {r} /\ tree' \in {tree, Without(r, tree)} /\ branch' = branch
    <3>1. \A n \in Suffixes : r \in {tree'[n], branch'[n]} => n = pick[r] /\ r \in leaked'
      BY <1>0, <2>0, <2>2, WorkspacesAssumption DEF Without, CreationInv, WorkspacesTypeOK
    <3> QED BY <1>0, <2>0, <3>1 DEF Discard, CreationInv, Holding, Readable, IsWorktree
  <2> QED BY <2>1, <2>2 DEF Discard
<1>3. \A j \in Requests \ {r} : SameCreation(j)
  <2>1. tree[pick[r]] = r /\ branch[pick[r]] = r /\ pick[r] \in Suffixes
    BY <1>0 DEF Discard, CreationInv
  <2>2. \A j \in Requests \ {r}, n \in Suffixes :
          (tree'[n] = j <=> tree[n] = j) /\ (branch'[n] = j <=> branch[n] = j)
    BY <1>0, <2>1, WorkspacesAssumption DEF Discard, Without, WorkspacesTypeOK
  <2> QED BY <1>0, <2>2 DEF Discard, Goto, historyVars, WorkspacesTypeOK, Ids, SameCreation
<1>4. IndexInv'
  BY <1>0, IndexKept DEF Discard, Goto, diskVars, historyVars, WorkspacesTypeOK
<1>5. MainInv' /\ NamesInv'
  BY <1>0, WorkspacesAssumption DEF Discard, Goto, Without, diskVars, historyVars,
         WorkspacesTypeOK, MainInv, NamesInv, Readable, Descriptor, WorkspacesInv, Ids
<1> QED BY <1>1, <1>2, <1>3, <1>4, <1>5, OtherCreations DEF WorkspacesInv

LEMMA PublishReserveStep ==
  ASSUME WorkspacesInv, NEW r \in Requests, PublishReserve(r)
  PROVE  WorkspacesInv'
<1>0. WorkspacesTypeOK /\ CreationInv(r)
  BY DEF WorkspacesInv
<1>1. WorkspacesTypeOK'
  BY <1>0 DEF PublishReserve, Goto, diskVars, historyVars, WorkspacesTypeOK, Steps, Ids
<1>2. CreationInv(r)'
  BY <1>0, WorkspacesAssumption DEF PublishReserve, Goto, diskVars, historyVars, WorkspacesTypeOK,
         Ids, CreationInv, Holding, IsWorktree, Readable, Kind
<1>3. \A j \in Requests \ {r} : SameCreation(j)
  BY <1>0, WorkspacesAssumption DEF PublishReserve, Goto, diskVars, historyVars, WorkspacesTypeOK,
         Ids, SameCreation
<1>4. IndexInv'
  BY <1>0, IndexKept DEF PublishReserve, Goto, diskVars, historyVars, WorkspacesTypeOK
<1>5. MainInv' /\ NamesInv'
  BY <1>0, WorkspacesAssumption DEF PublishReserve, Goto, diskVars, historyVars, WorkspacesTypeOK,
         MainInv, NamesInv, Readable, Descriptor, WorkspacesInv, Ids
<1> QED BY <1>1, <1>2, <1>3, <1>4, <1>5, OtherCreations DEF WorkspacesInv

LEMMA PublishMoveStep ==
  ASSUME WorkspacesInv, NEW r \in Requests, PublishMove(r)
  PROVE  WorkspacesInv'
<1>0. WorkspacesTypeOK /\ CreationInv(r)
  BY DEF WorkspacesInv
<1>1. WorkspacesTypeOK'
  BY <1>0 DEF PublishMove, Goto, diskVars, historyVars, WorkspacesTypeOK, Steps, Ids
<1>2. CreationInv(r)'
  BY <1>0, WorkspacesAssumption DEF PublishMove, Goto, diskVars, historyVars, WorkspacesTypeOK,
         Ids, CreationInv, Holding, IsWorktree, Readable, Kind
<1>3. \A j \in Requests \ {r} : SameCreation(j)
  BY <1>0, WorkspacesAssumption DEF PublishMove, Goto, diskVars, historyVars, WorkspacesTypeOK,
         Ids, SameCreation
<1>4. IndexInv'
  BY <1>0, IndexKept DEF PublishMove, Goto, diskVars, historyVars, WorkspacesTypeOK
<1>5. MainInv' /\ NamesInv'
  BY <1>0, WorkspacesAssumption DEF PublishMove, Goto, diskVars, historyVars, WorkspacesTypeOK,
         MainInv, NamesInv, Readable, Descriptor, WorkspacesInv, Ids
<1> QED BY <1>1, <1>2, <1>3, <1>4, <1>5, OtherCreations DEF WorkspacesInv

LEMMA PublishDescribeStep ==
  ASSUME WorkspacesInv, NEW r \in Requests, PublishDescribe(r)
  PROVE  WorkspacesInv'
<1>0. WorkspacesTypeOK /\ CreationInv(r)
  BY DEF WorkspacesInv
<1>a. PICK d \in Descriptors : /\ desc' = [desc EXCEPT ![r] = d] /\ d.kind = Kind(r)
                              /\ d.name = "given" /\ d \notin {None, Broken}
  <2>1. \A n \in {"pending", "manual"} :
          Descriptor("given", n, "active", Kind(r)) \in Descriptors
    BY DEF Descriptor, Descriptors, Kind
  <2> QED BY <2>1, RecordsAreDescriptors DEF PublishDescribe, Descriptor
<1>b. /\ desc'[r] = d /\ \A i \in Ids \ {r} : desc'[i] = desc[i]
      /\ pc' = [pc EXCEPT ![r] = "index"] /\ pc[r] = "describe"
      /\ UNCHANGED <<form, pick, lock, dir, repo, index, tree, branch, historyVars>>
  BY <1>0, <1>a DEF PublishDescribe, Goto, WorkspacesTypeOK, Ids
<1>1. WorkspacesTypeOK'
  <2>1. /\ pc' \in [Requests \cup {Main} -> Steps]
        /\ desc' \in [Ids -> {None, Broken} \cup Descriptors]
    BY <1>0, <1>a, <1>b DEF WorkspacesTypeOK, Steps
  <2> QED BY <1>0, <1>b, <2>1 DEF WorkspacesTypeOK, historyVars
<1>2. CreationInv(r)'
  <2>1. Readable(r)' /\ pc'[r] = "index" /\ desc'[r].kind = Kind(r) /\ lock = r
    BY <1>0, <1>a, <1>b DEF Readable, WorkspacesTypeOK, CreationInv, Holding
  <2>2. /\ dir[r] = "full" /\ (IsWorktree(r) \/ repo[r] = "whole")
        /\ IsWorktree(r) => pick[r] \in Suffixes /\ tree[pick[r]] = r /\ branch[pick[r]] = r
    BY <1>0, <1>b DEF CreationInv, Holding
  <2>3. \A n \in Suffixes : r \in {tree[n], branch[n]} => n = pick[r] /\ IsWorktree(r)
    BY <1>0 DEF CreationInv
  <2>4. IsWorktree(r)' = IsWorktree(r) /\ Kind(r)' = Kind(r) /\ desc'[r] # Broken
    BY <1>a, <1>b DEF IsWorktree, Kind
  <2> QED BY <1>b, <2>1, <2>2, <2>3, <2>4 DEF CreationInv, Holding
<1>3. \A j \in Requests \ {r} : SameCreation(j)
  BY <1>0, <1>b DEF WorkspacesTypeOK, Ids, SameCreation, historyVars
<1>4. IndexInv'
  <2>1. desc[r] = None /\ r \notin DOMAIN index
    BY <1>0, <1>b DEF CreationInv, Readable, WorkspacesInv, IndexInv, Published
  <2>2. Settled' = Settled
    BY <1>0, <1>b, <2>1 DEF Settled, WorkspacesTypeOK
  <2>3. \A i \in DOMAIN index : Published(i)'
    BY <1>0, <1>b, <2>1 DEF WorkspacesInv, IndexInv, Published, Readable, WorkspacesTypeOK
  <2> QED BY <1>b, <2>2, <2>3 DEF WorkspacesInv, IndexInv, Projection, historyVars
<1>5. MainInv' /\ NamesInv'
  BY <1>0, <1>a, <1>b, WorkspacesAssumption
     DEF MainInv, NamesInv, Readable, WorkspacesInv, Ids, WorkspacesTypeOK
<1> QED BY <1>1, <1>2, <1>3, <1>4, <1>5, OtherCreations DEF WorkspacesInv

LEMMA PublishIndexStep ==
  ASSUME WorkspacesInv, NEW r \in Requests, PublishIndex(r)
  PROVE  WorkspacesInv'
<1>0. WorkspacesTypeOK /\ CreationInv(r)
  BY DEF WorkspacesInv
<1>a. /\ pc[r] = "index" /\ pc' = [pc EXCEPT ![r] = "done"] /\ lock = r /\ lock' = None
      /\ index' = Projection(desc') /\ torn' = FALSE
      /\ UNCHANGED <<form, pick, dir, repo, desc, tree, branch, leaked, failures>>
  BY <1>0 DEF PublishIndex, Goto, RebuildIndex, CreationInv, Holding
<1>1. WorkspacesTypeOK'
  <2>1. pc' \in [Requests \cup {Main} -> Steps]
    BY <1>0, <1>a DEF WorkspacesTypeOK, Steps
  <2> QED BY <1>0, <1>a, <2>1 DEF WorkspacesTypeOK
<1>2. CreationInv(r)'
  <2>1. pc'[r] = "done" /\ r # None
    BY <1>0, <1>a, WorkspacesAssumption DEF WorkspacesTypeOK
  <2> QED BY <1>0, <1>a, <2>1 DEF CreationInv, Holding, Readable, Kind, IsWorktree
<1>3. \A j \in Requests \ {r} : SameCreation(j)
  BY <1>0, <1>a, WorkspacesAssumption DEF WorkspacesTypeOK, SameCreation
<1>4. IndexInv'
  <2>1. \A i \in Requests : pc'[i] # "index"
    BY <1>0, <1>a DEF WorkspacesInv, CreationInv, Holding, WorkspacesTypeOK
  <2>2. Settled' = desc'
    BY <1>1, <2>1 DEF Settled, WorkspacesTypeOK
  <2>3. \A i \in Requests : Readable(i)' => pc'[i] \in {"done", "dead"}
    BY <1>2, <1>3, <2>1, OtherCreations DEF CreationInv
  <2>4. DOMAIN index' = {i \in Ids : Readable(i)'}
    BY <1>a DEF Projection, Readable
  <2> QED BY <1>a, <2>2, <2>3, <2>4 DEF IndexInv, Published
<1>5. MainInv' /\ NamesInv'
  BY <1>0, WorkspacesAssumption DEF PublishIndex, Goto, diskVars, historyVars, WorkspacesTypeOK,
         MainInv, NamesInv, Readable, Descriptor, WorkspacesInv, Ids
<1> QED BY <1>1, <1>2, <1>3, <1>4, <1>5, OtherCreations DEF WorkspacesInv

LEMMA PublishFailsStep ==
  ASSUME WorkspacesInv, NEW r \in Requests, PublishFails(r)
  PROVE  WorkspacesInv'
<1>0. WorkspacesTypeOK /\ CreationInv(r)
  BY DEF WorkspacesInv
<1>1. WorkspacesTypeOK'
  BY <1>0 DEF PublishFails, Goto, diskVars, historyVars, WorkspacesTypeOK, Steps, Ids
<1>2. CreationInv(r)'
  BY <1>0, WorkspacesAssumption DEF PublishFails, Goto, diskVars, historyVars, WorkspacesTypeOK,
         Ids, CreationInv, Holding, IsWorktree, Readable, Kind
<1>3. \A j \in Requests \ {r} : SameCreation(j)
  BY <1>0, WorkspacesAssumption DEF PublishFails, Goto, diskVars, historyVars, WorkspacesTypeOK,
         Ids, SameCreation
<1>4. IndexInv'
  <2>0. /\ desc' = [desc EXCEPT ![r] = None] /\ UNCHANGED <<index, torn>>
        /\ pc'[r] \in {"discard", "failed"} /\ \A j \in Requests \ {r} : pc'[j] = pc[j]
    BY <1>0 DEF PublishFails, Goto, WorkspacesTypeOK
  <2>1. r \notin DOMAIN index /\ (pc[r] = "index" \/ desc[r] = None)
    BY <1>0 DEF PublishFails, CreationInv, Readable, WorkspacesInv, IndexInv, Published
  <2>2. Settled' = Settled
    BY <1>0, <2>0, <2>1 DEF Settled, WorkspacesTypeOK
  <2>3. \A i \in DOMAIN index : Published(i)'
    BY <1>0, <2>0, <2>1 DEF WorkspacesInv, IndexInv, Published, Readable, WorkspacesTypeOK
  <2> QED BY <2>0, <2>2, <2>3 DEF WorkspacesInv, IndexInv, Projection
<1>5. MainInv' /\ NamesInv'
  BY <1>0, WorkspacesAssumption DEF PublishFails, Goto, diskVars, historyVars, WorkspacesTypeOK,
         MainInv, NamesInv, Readable, Descriptor, WorkspacesInv, Ids
<1> QED BY <1>1, <1>2, <1>3, <1>4, <1>5, OtherCreations DEF WorkspacesInv

LEMMA CreationStepKeeps ==
  ASSUME WorkspacesInv, NEW r \in Requests, Creation(r) PROVE WorkspacesInv'
  BY ReserveStep, AddStep, StageStep, MakeLogsStep, DiscardStep, PublishReserveStep,
     PublishMoveStep, PublishDescribeStep, PublishIndexStep, PublishFailsStep DEF Creation

-----------------------------------------------------------------------------
(* The writes of the registry *)

(* A descriptor is written over one that is there, with or without the      *)
(* index, and nothing is being published meanwhile.                         *)
LEMMA WriteKeeps ==
  ASSUME WorkspacesInv, NEW i \in Ids, Readable(i), NEW d \in Descriptors, Write(i, d),
         d.kind = desc[i].kind, d.naming = "manual" => d.name # "generated"
  PROVE  WorkspacesInv'
<1>0. WorkspacesTypeOK /\ d \notin {None, Broken}
  BY RecordsAreDescriptors DEF WorkspacesInv
<1>1. /\ lock = None /\ desc' = [desc EXCEPT ![i] = d]
      /\ index' = Projection(desc') \/ (index' = index /\ torn' = TRUE)
      /\ torn' \in BOOLEAN
      /\ UNCHANGED <<creationVars, lock, dir, repo, tree, branch, leaked>>
  BY DEF Write, WriteBoth, WriteTorn, RebuildIndex
<1>2. WorkspacesTypeOK'
  BY <1>0, <1>1 DEF WorkspacesTypeOK, creationVars
<1>3. ASSUME NEW r \in Requests PROVE CreationInv(r)' /\ pc[r] # "index"
  <2>1. CreationInv(r) /\ lock # r /\ pc[r] # "index"
    BY <1>1, WorkspacesAssumption DEF WorkspacesInv, CreationInv, Holding
  <2>2. /\ Readable(r)' = Readable(r) /\ desc'[r] # Broken
        /\ Readable(r) => desc'[r].kind = desc[r].kind
    BY <1>0, <1>1, <2>1 DEF Readable, WorkspacesTypeOK, CreationInv
  <2> QED BY <1>1, <2>1, <2>2 DEF CreationInv, creationVars, Kind, IsWorktree
<1>4. \A j \in Ids : Readable(j)' = Readable(j) /\ Published(j)' = Readable(j)
  BY <1>0, <1>1, <1>3 DEF Readable, WorkspacesTypeOK, Published, creationVars, CreationInv
<1>5. IndexInv'
  <2>1. Settled' = desc'
    BY <1>1, <1>2, <1>3 DEF Settled, creationVars, WorkspacesTypeOK
  <2>2. CASE index' = Projection(desc')
    <3>1. DOMAIN index' = {j \in Ids : Readable(j)'}
      BY <2>2 DEF Projection, Readable
    <3> QED BY <1>4, <2>1, <2>2, <3>1 DEF IndexInv
  <2>3. CASE index' = index /\ torn' = TRUE
    BY <1>4, <2>3 DEF IndexInv, WorkspacesInv, Published
  <2> QED BY <1>1, <2>2, <2>3
<1>6. MainInv'
  BY <1>1 DEF MainInv, WorkspacesInv, creationVars, WorkspacesTypeOK, Readable
<1>7. NamesInv'
  BY <1>0, <1>1, <1>4 DEF NamesInv, WorkspacesInv, WorkspacesTypeOK
<1> QED BY <1>2, <1>3, <1>5, <1>6, <1>7 DEF WorkspacesInv

LEMMA RegistryStepKeeps == WorkspacesInv /\ RegistryStep => WorkspacesInv'
<1> SUFFICES ASSUME WorkspacesInv, RegistryStep PROVE WorkspacesInv'
  OBVIOUS
<1>0. /\ WorkspacesTypeOK /\ NamesInv /\ MainInv
      /\ \A i \in Ids : Readable(i) => desc[i] \in Descriptors
  BY DEF WorkspacesInv, WorkspacesTypeOK, Readable
<1>1. ASSUME NEW i \in Ids, Touch(i) PROVE WorkspacesInv'
  BY <1>0, <1>1, WriteKeeps DEF Touch, NamesInv
<1>2. ASSUME NEW i \in Ids, Rename(i) PROVE WorkspacesInv'
  <2> DEFINE d == [desc[i] EXCEPT !.name = "chosen", !.naming = "manual"]
  <2>1. d \in Descriptors /\ d.kind = desc[i].kind /\ d.name # "generated" /\ Write(i, d) /\ Readable(i)
    BY <1>0, <1>2 DEF Rename, Descriptors
  <2> HIDE DEF d
  <2> QED BY <2>1, WriteKeeps
<1>3. ASSUME NEW i \in Ids, NEW state \in {"active", "archived"}, Archive(i, state) PROVE WorkspacesInv'
  <2> DEFINE d == [desc[i] EXCEPT !.state = state]
  <2>1. /\ d \in Descriptors /\ d.kind = desc[i].kind /\ Write(i, d) /\ Readable(i)
        /\ d.naming = desc[i].naming /\ d.name = desc[i].name
    BY <1>0, <1>3 DEF Archive, Descriptors
  <2>2. d.naming = "manual" => d.name # "generated"
    BY <1>0, <2>1 DEF NamesInv
  <2> HIDE DEF d
  <2> QED BY <2>1, <2>2, WriteKeeps
<1>4. ASSUME NEW i \in Ids, Prepare(i) PROVE WorkspacesInv'
  <2>1. i \notin Requests
    <3> SUFFICES ASSUME i \in Requests PROVE FALSE
      OBVIOUS
    <3> QED BY <1>4 DEF Prepare, Unprepared, WorkspacesInv, CreationInv, Kind
  <2>2. /\ \A r \in Requests : repo'[r] = repo[r]
        /\ repo' \in [Ids -> {"absent", "whole", "part"}]
        /\ UNCHANGED <<creationVars, lock, dir, desc, index, tree, branch, torn, leaked>>
    BY <1>0, <1>4, <2>1 DEF Prepare, historyVars, WorkspacesTypeOK, Ids
  <2>3. \A r \in Requests : SameCreation(r)
    BY <2>2 DEF SameCreation, creationVars
  <2>4. IndexInv'
    BY <2>2, IndexKept DEF creationVars
  <2> QED BY <1>0, <2>2, <2>3, <2>4, OtherCreations
          DEF WorkspacesInv, WorkspacesTypeOK, MainInv, NamesInv, Readable, creationVars
<1>5. CASE InitializeMain
  <2>1. CASE UNCHANGED <<pc, desc, dir, index, torn>>
    <3>1. UNCHANGED <<creationVars, lock, dir, repo, desc, index, tree, branch, torn, leaked>>
      BY <1>5, <2>1 DEF InitializeMain, creationVars
    <3>2. \A r \in Requests : SameCreation(r)
      BY <3>1 DEF SameCreation, creationVars
    <3>3. IndexInv'
      BY <3>1, IndexKept DEF creationVars
    <3> QED BY <1>0, <3>1, <3>2, <3>3, OtherCreations
            DEF WorkspacesInv, WorkspacesTypeOK, MainInv, NamesInv, Readable, creationVars
  <2>2. CASE /\ desc' = [desc EXCEPT ![Main] = MainDescriptor]
             /\ dir' = [dir EXCEPT ![Main] = "full"]
             /\ RebuildIndex
             /\ Goto(Main, "done")
    <3>0. MainDescriptor \in Descriptors /\ MainDescriptor.name = "given"
      BY DEF MainDescriptor, Descriptor, Descriptors
    <3>1. /\ \A r \in Requests : pc[r] = "new" /\ r # Main
          /\ UNCHANGED <<form, pick, lock, repo, tree, branch, leaked>>
          /\ pc' = [pc EXCEPT ![Main] = "done"]
          /\ index' = Projection(desc') /\ torn' = FALSE
      BY <1>0, <1>5, <2>2, WorkspacesAssumption DEF MainInv, InitializeMain, Goto, RebuildIndex
    <3>2. WorkspacesTypeOK'
      BY <1>0, <2>2, <3>0, <3>1 DEF WorkspacesTypeOK, Steps
    <3>3. \A r \in Requests : SameCreation(r)
      BY <1>0, <2>2, <3>1 DEF SameCreation, WorkspacesTypeOK, Ids
    <3>4. \A r \in Requests : CreationInv(r)' /\ pc'[r] = "new"
      BY <1>0, <3>1, <3>3, OtherCreations DEF WorkspacesTypeOK
    <3>5. IndexInv'
      <4>1. Settled' = desc'
        BY <3>2, <3>4 DEF Settled, WorkspacesTypeOK
      <4>2. DOMAIN index' = {i \in Ids : Readable(i)'}
        BY <3>1 DEF Projection, Readable
      <4>3. \A r \in Requests : ~Readable(r)'
        BY <3>4 DEF CreationInv
      <4> QED BY <3>1, <4>1, <4>2, <4>3 DEF IndexInv, Published
    <3>6. MainInv' /\ NamesInv'
      BY <1>0, <2>2, <3>0, <3>1 DEF MainInv, NamesInv, WorkspacesTypeOK, Readable, Ids
    <3> QED BY <3>2, <3>4, <3>5, <3>6 DEF WorkspacesInv
  <2> QED BY <1>5, <2>1, <2>2 DEF InitializeMain
<1> QED BY <1>1, <1>2, <1>3, <1>4, <1>5, WorkspacesAssumption DEF RegistryStep

(* The process dies: what was being made is left as it is. *)
LEMMA DieKeeps == WorkspacesInv /\ Die => WorkspacesInv'
<1> SUFFICES ASSUME WorkspacesInv, Die PROVE WorkspacesInv'
  OBVIOUS
<1>0. /\ WorkspacesTypeOK /\ lock' = None
      /\ UNCHANGED <<form, pick, dir, index, desc, tree, branch>>
      /\ torn' = (torn \/ \E r \in Requests : pc[r] = "index")
      /\ pc' = [i \in DOMAIN pc |-> IF i \in Requests /\ ~Ended(i) THEN "dead" ELSE pc[i]]
      /\ leaked \subseteq leaked'
  BY DEF WorkspacesInv, Die
<1>1. /\ repo' \in [Ids -> {"absent", "whole", "part"}]
      /\ \A r \in Requests : repo'[r] = repo[r]
  <2>1. CASE UNCHANGED repo
    BY <1>0, <2>1 DEF WorkspacesTypeOK
  <2>2. ASSUME NEW i \in Ids, Unprepared(i), repo' = [repo EXCEPT ![i] = "part"]
        PROVE  /\ repo' \in [Ids -> {"absent", "whole", "part"}]
               /\ \A r \in Requests : repo'[r] = repo[r]
    <3>1. i \notin Requests
      BY <2>2 DEF Unprepared, WorkspacesInv, CreationInv, Kind
    <3> QED BY <1>0, <2>2, <3>1 DEF WorkspacesTypeOK, Ids
  <2> QED BY <2>1, <2>2 DEF Die
<1>2. WorkspacesTypeOK'
  BY <1>0, <1>1 DEF WorkspacesTypeOK, Steps
<1>3. ASSUME NEW r \in Requests
      PROVE  /\ CreationInv(r)' /\ pc'[r] # "index" /\ (pc[r] # "index" => Settled[r] = desc[r])
             /\ pc[r] \in {"done", "dead"} => pc'[r] = pc[r]
  <2>1. CreationInv(r) /\ r # None
    BY WorkspacesAssumption DEF WorkspacesInv
  <2>2. pc'[r] = IF pc[r] \in {"new", "done", "failed", "dead"} THEN pc[r] ELSE "dead"
    BY <1>0 DEF WorkspacesTypeOK, Ended
  <2>3. IsWorktree(r)' = IsWorktree(r) /\ Kind(r)' = Kind(r) /\ Readable(r)' = Readable(r)
    BY <1>0 DEF IsWorktree, Kind, Readable
  <2>4. CreationInv(r)'
    BY <1>0, <1>1, <2>1, <2>2, <2>3 DEF CreationInv, Holding
  <2>5. pc[r] # "index" => Settled[r] = desc[r]
    BY DEF Settled, Ids
  <2> QED BY <2>2, <2>4, <2>5
<1>4. IndexInv'
  <2>1. Settled' = desc
    BY <1>0, <1>3 DEF Settled, WorkspacesTypeOK
  <2>2. ~torn' => Settled = desc
    BY <1>0 DEF Settled, WorkspacesTypeOK
  <2>3. \A i \in DOMAIN index : Published(i)'
    BY <1>0, <1>3 DEF WorkspacesInv, IndexInv, Published, Readable
  <2> QED BY <1>0, <2>1, <2>2, <2>3 DEF WorkspacesInv, IndexInv
<1>5. MainInv' /\ NamesInv'
  BY <1>0, WorkspacesAssumption DEF WorkspacesInv, MainInv, NamesInv, WorkspacesTypeOK, Readable, Ended
<1> QED BY <1>2, <1>3, <1>4, <1>5 DEF WorkspacesInv

-----------------------------------------------------------------------------
(* What naming and evaluations see of the registry *)

(* A published descriptor stays published. *)
LEMMA PublishedKept ==
  ASSUME WorkspacesInv, NEW i \in Ids, Published(i),
         \/ \E r \in Requests : Creation(r)
         \/ RegistryStep \/ Die
         \/ \E j \in Ids, d \in Descriptors : Write(j, d)
  PROVE  Published(i)'
<1>0. WorkspacesTypeOK /\ \A j \in Ids : Readable(j) => desc[j] \in Descriptors
  BY DEF WorkspacesInv, WorkspacesTypeOK, Readable
<1>1. ASSUME NEW r \in Requests, Creation(r) PROVE Published(i)'
  <2>1. r # i /\ r \in Ids
    BY <1>1 DEF Creation, Reserve, Add, Stage, MakeLogs, Discard, PublishReserve, PublishMove,
                PublishDescribe, PublishIndex, PublishFails, Published, Ids
  <2>2. desc'[i] = desc[i]
    BY <1>0, <1>1, <2>1 DEF Creation, Reserve, Add, Stage, MakeLogs, Discard, PublishReserve,
       PublishMove, PublishDescribe, PublishIndex, PublishFails, diskVars, WorkspacesTypeOK
  <2>3. i \in Requests => pc'[i] = pc[i]
    BY <1>0, <1>1, <2>1 DEF Creation, Reserve, Add, Stage, MakeLogs, Discard, PublishReserve,
       PublishMove, PublishDescribe, PublishIndex, PublishFails, Goto, WorkspacesTypeOK
  <2> QED BY <2>2, <2>3 DEF Published, Readable
<1>2. ASSUME NEW j \in Ids, NEW d \in Descriptors, Write(j, d) PROVE Published(i)'
  BY <1>0, <1>2, RecordsAreDescriptors
     DEF Write, WriteBoth, WriteTorn, Published, Readable, creationVars, WorkspacesTypeOK
<1>3. CASE RegistryStep
  <2>1. ASSUME NEW j \in Ids, Touch(j) PROVE Published(i)'
    BY <1>0, <1>2, <2>1 DEF Touch
  <2>2. ASSUME NEW j \in Ids, Rename(j) PROVE Published(i)'
    BY <1>0, <1>2, <2>2 DEF Rename, Descriptors
  <2>3. ASSUME NEW j \in Ids, NEW state \in {"active", "archived"}, Archive(j, state)
        PROVE  Published(i)'
    BY <1>0, <1>2, <2>3 DEF Archive, Descriptors
  <2>4. ASSUME NEW j \in Ids, Prepare(j) PROVE Published(i)'
    BY <2>4 DEF Prepare, Published, Readable, creationVars
  <2>5. CASE InitializeMain
    <3>1. i # Main /\ Main \notin Requests
      BY <2>5, WorkspacesAssumption DEF InitializeMain, WorkspacesInv, MainInv, Published, Readable
    <3> QED BY <1>0, <2>5, <3>1 DEF InitializeMain, Goto, Published, Readable, WorkspacesTypeOK
  <2> QED BY <1>3, <2>1, <2>2, <2>3, <2>4, <2>5, WorkspacesAssumption DEF RegistryStep
<1>4. CASE Die
  BY <1>0, <1>4 DEF Die, Published, Readable, Ended, WorkspacesTypeOK
<1> QED BY <1>1, <1>2, <1>3, <1>4

(* What a step that is not a creation's keeps of the registry *)
RegistryKept ==
  /\ WorkspacesInv'
  /\ \A i \in Ids : Published(i) => Published(i)'
  /\ form' = form /\ \A r \in Requests : pc'[r] = pc[r]

LEMMA RegistryUnchanged ==
  ASSUME WorkspacesInv,
         UNCHANGED <<creationVars, lock, diskVars, torn, leaked>>
  PROVE  RegistryKept
  BY DEF RegistryKept, WorkspacesInv, creationVars, diskVars, WorkspacesTypeOK, CreationInv,
         IndexInv, Published, Readable, Settled, Projection, MainInv, NamesInv, IsWorktree, Kind

LEMMA GeneratedNameKept ==
  ASSUME WorkspacesInv, NEW i \in Ids, Published(i), desc[i].naming = "pending",
         Write(i, GeneratedName(i))
  PROVE  RegistryKept
<1> DEFINE d == GeneratedName(i)
<1>1. Readable(i) /\ desc[i] \in Descriptors
  BY DEF Published, Readable, WorkspacesInv, WorkspacesTypeOK
<1>2. d \in Descriptors /\ d.kind = desc[i].kind /\ d.naming # "manual" /\ Write(i, d)
  BY <1>1 DEF GeneratedName, Descriptors
<1> HIDE DEF d
<1>3. WorkspacesInv'
  BY <1>1, <1>2, WriteKeeps
<1>4. \A j \in Ids : Published(j) => Published(j)'
  BY <1>2, PublishedKept
<1> QED BY <1>2, <1>3, <1>4 DEF RegistryKept, Write, WriteBoth, WriteTorn, creationVars

-----------------------------------------------------------------------------
(* The steps of naming and of evaluations *)

LEMMA NamingInitInv == NamingInit => NamingInv
  BY WorkspacesInitInv, NamingAssumption
     DEF NamingInit, NamingInv, TalkInv, TalkTypeOK, ConversationInv, EvaluationInv, Exists,
         WorkspacesInit, Ended

(* A step of one conversation, on a registry that is as good as before. *)
LEMMA ConversationStep ==
  ASSUME NamingInv, NEW c \in Conversations,
         \/ CreateConversation(c) \/ RenameConversation(c) \/ DeleteConversation(c)
         \/ StartTurn(c) \/ (\E answer, committed \in BOOLEAN : FinishTurn(c, answer, committed))
         \/ Generated(c) \/ GenerationFails(c) \/ TicketAborted(c)
  PROVE  NamingInv'
<1>0. TalkTypeOK /\ WorkspaceOf[c] \in Ids /\ WorkspacesInv /\ ConversationInv(c)
  BY NamingAssumption DEF NamingInv, TalkInv
<1>1. RegistryKept
  <2>1. ASSUME NEW answer \in BOOLEAN, NEW committed \in BOOLEAN, FinishTurn(c, answer, committed)
        PROVE  RegistryKept
    BY <1>0, <2>1, RegistryUnchanged DEF FinishTurn
  <2>2. CASE Generated(c)
    <3>1. CASE Exists(c) /\ desc[WorkspaceOf[c]].naming = "pending"
      BY <1>0, <2>2, <3>1, GeneratedNameKept DEF Generated, ApplyName, Write, ConversationInv
    <3>2. CASE ~(Exists(c) /\ desc[WorkspaceOf[c]].naming = "pending")
      BY <1>0, <2>2, <3>2, RegistryUnchanged DEF Generated, ApplyName, workspaceVars, historyVars
    <3> QED BY <3>1, <3>2
  <2>3. CASE GenerationFails(c)
    <3>1. CASE UNCHANGED workspaceVars
      BY <1>0, <3>1, RegistryUnchanged DEF workspaceVars, historyVars
    <3>2. CASE Exists(c) /\ Workspace(c).naming = "pending"
               /\ WriteTorn(WorkspaceOf[c], GeneratedName(WorkspaceOf[c]))
      BY <1>0, <3>2, GeneratedNameKept DEF Write, ConversationInv, Workspace
    <3> QED BY <2>3, <3>1, <3>2 DEF GenerationFails
  <2>4. CASE \/ CreateConversation(c) \/ RenameConversation(c) \/ DeleteConversation(c)
             \/ StartTurn(c) \/ TicketAborted(c)
    <3>1. UNCHANGED workspaceVars
      BY <2>4 DEF CreateConversation, RenameConversation, DeleteConversation, StartTurn, TicketAborted
    <3> QED BY <1>0, <3>1, RegistryUnchanged DEF workspaceVars, historyVars
  <2> QED BY <2>1, <2>2, <2>3, <2>4
<1>2. /\ \A x \in Conversations \ {c} :
            /\ conversation'[x] = conversation[x] /\ turn'[x] = turn[x] /\ ticket'[x] = ticket[x]
      /\ answered \subseteq answered'
      /\ UNCHANGED <<naming, evaluation>>
  BY <1>0 DEF CreateConversation, RenameConversation, DeleteConversation, StartTurn, FinishTurn,
     Generated, GenerationFails, TicketAborted, Titled, EndTicket, ApplyTitle, TalkTypeOK
<1>3. TalkTypeOK'
  <2>1. conversation' \in [Conversations -> Rows \cup {None}]
    BY <1>0 DEF CreateConversation, RenameConversation, DeleteConversation, StartTurn, FinishTurn,
       Generated, GenerationFails, TicketAborted, Titled, ApplyTitle, TalkTypeOK, Rows
  <2>2. /\ turn' \in [Conversations -> {"none", "running", "ended"}]
        /\ ticket' \in [Conversations -> {"none", "waiting", "ready", "aborted"}]
    BY <1>0 DEF CreateConversation, RenameConversation, DeleteConversation, StartTurn, FinishTurn,
       Generated, GenerationFails, TicketAborted, EndTicket, TicketAfter, TalkTypeOK
  <2> QED BY <1>0, <1>2, <2>1, <2>2 DEF TalkTypeOK
<1>4. ConversationInv(c)'
  <2>1. Exists(c)' => Published(WorkspaceOf[c])
    <3>1. CASE CreateConversation(c)
      <4>1. ASSUME WorkspaceOf[c] \in Requests PROVE pc[WorkspaceOf[c]] \in {"done", "dead"}
        BY <1>0, <3>1, <4>1, WorkspacesAssumption
           DEF CreateConversation, WorkspacesInv, CreationInv, Holding
      <4> QED BY <3>1, <4>1 DEF CreateConversation, Published
    <3>2. CASE ~CreateConversation(c)
      <4>1. Exists(c)' => Exists(c)
        BY <1>0, <3>2 DEF RenameConversation, DeleteConversation, StartTurn, FinishTurn, Generated,
           GenerationFails, TicketAborted, Titled, ApplyTitle, Pending, Exists, TalkTypeOK
      <4> QED BY <1>0, <4>1 DEF ConversationInv
    <3> QED BY <3>1, <3>2
  <2>2. Exists(c)' => Published(WorkspaceOf[c])'
    BY <1>0, <1>1, <2>1 DEF RegistryKept
  <2>3. Exists(c)' /\ conversation'[c].title = "generated" => c \in answered
    BY <1>0 DEF CreateConversation, RenameConversation, DeleteConversation, StartTurn, FinishTurn,
       Generated, GenerationFails, TicketAborted, Titled, ApplyTitle, ConversationInv, Exists,
       TalkTypeOK
  <2>4. ticket'[c] = "ready" => c \in answered'
    BY <1>0 DEF CreateConversation, RenameConversation, DeleteConversation, StartTurn, FinishTurn,
       Generated, GenerationFails, TicketAborted, EndTicket, TicketAfter, ConversationInv,
       TalkTypeOK
  <2>5. naming \in {"draining", "closed"} => turn'[c] # "running"
    BY <1>0 DEF CreateConversation, RenameConversation, DeleteConversation, StartTurn, FinishTurn,
       Generated, GenerationFails, TicketAborted, ConversationInv, TalkTypeOK
  <2>6. naming = "closed" => ticket'[c] = "none"
    BY <1>0 DEF CreateConversation, RenameConversation, DeleteConversation, StartTurn, FinishTurn,
       Generated, GenerationFails, TicketAborted, EndTicket, ConversationInv, TalkTypeOK
  <2> QED BY <1>2, <2>2, <2>3, <2>4, <2>5, <2>6 DEF ConversationInv
<1>5. ASSUME NEW x \in Conversations \ {c} PROVE ConversationInv(x)'
  <2>1. ConversationInv(x) /\ WorkspaceOf[x] \in Ids
    BY NamingAssumption DEF NamingInv, TalkInv
  <2> QED BY <1>1, <1>2, <2>1 DEF ConversationInv, Exists, RegistryKept
<1>6. ASSUME NEW r \in Evaluations PROVE EvaluationInv(r)'
  BY <1>1, <1>2, NamingAssumption DEF NamingInv, TalkInv, EvaluationInv, Evaluates, Ended,
     RegistryKept, IsWorktree
<1> QED BY <1>1, <1>3, <1>4, <1>5, <1>6 DEF NamingInv, TalkInv, RegistryKept

(* A step of one evaluation *)
LEMMA EvaluationStep ==
  ASSUME NamingInv, NEW r \in Evaluations, Evaluate(r) \/ EvaluationPrepared(r) \/ EvaluationEnds(r)
  PROVE  NamingInv'
<1>0. TalkTypeOK /\ WorkspacesInv /\ EvaluationInv(r) /\ r \in Requests
      /\ UNCHANGED <<workspaceVars, conversation, turn, ticket, naming, answered>>
  BY NamingAssumption DEF NamingInv, TalkInv, Evaluate, EvaluationPrepared, EvaluationEnds
<1>1. RegistryKept
  BY <1>0, RegistryUnchanged DEF workspaceVars, historyVars
<1>2. TalkTypeOK' /\ \A x \in Evaluations \ {r} : evaluation'[x] = evaluation[x]
  BY <1>0 DEF TalkTypeOK, Evaluate, EvaluationPrepared, EvaluationEnds
<1>3. ASSUME NEW c \in Conversations PROVE ConversationInv(c)'
  BY <1>0, <1>1, NamingAssumption DEF NamingInv, TalkInv, ConversationInv, Exists, RegistryKept
<1>4. EvaluationInv(r)'
  <2>1. Evaluates(r)' = Evaluates(r) /\ Ended(r)' = Ended(r)
    BY <1>0, <1>1 DEF RegistryKept, Evaluates, IsWorktree, Ended
  <2> QED BY <1>0, <2>1 DEF EvaluationInv, Evaluate, EvaluationPrepared, EvaluationEnds, Ended,
             TalkTypeOK
<1>5. ASSUME NEW x \in Evaluations \ {r} PROVE EvaluationInv(x)'
  BY <1>0, <1>1, <1>2, NamingAssumption DEF NamingInv, TalkInv, EvaluationInv, Evaluates, Ended,
     RegistryKept, IsWorktree
<1> QED BY <1>1, <1>2, <1>3, <1>4, <1>5 DEF NamingInv, TalkInv, RegistryKept

(* The service stops, drains and closes, and starts again. *)
LEMMA ShutdownStep ==
  ASSUME NamingInv, StopAccepting \/ Drain \/ Drained \/ Restart
  PROVE  NamingInv'
<1>0. TalkTypeOK /\ WorkspacesInv /\ UNCHANGED <<workspaceVars, conversation, answered>>
  BY DEF NamingInv, TalkInv, StopAccepting, Drain, Drained, Restart, Restarted
<1>1. RegistryKept
  BY <1>0, RegistryUnchanged DEF workspaceVars, historyVars
<1>2. TalkTypeOK'
  BY <1>0 DEF TalkTypeOK, StopAccepting, Drain, Drained, Restart, Restarted
<1>3. ASSUME NEW c \in Conversations PROVE ConversationInv(c)'
  <2>1. ConversationInv(c) /\ WorkspaceOf[c] \in Ids
    BY NamingAssumption DEF NamingInv, TalkInv
  <2>2. Exists(c)' = Exists(c) /\ (Exists(c) => Published(WorkspaceOf[c])')
    BY <1>0, <1>1, <2>1 DEF Exists, ConversationInv, RegistryKept
  <2>3. /\ ticket'[c] = "ready" => c \in answered
        /\ naming' \in {"draining", "closed"} => turn'[c] # "running"
        /\ naming' = "closed" => ticket'[c] = "none"
    BY <1>0, <2>1 DEF ConversationInv, StopAccepting, Drain, Drained, Restart, Restarted,
       EvaluationsClosed, TurnsEnded, TalkTypeOK
  <2> QED BY <1>0, <2>1, <2>2, <2>3 DEF ConversationInv
<1>4. ASSUME NEW r \in Evaluations PROVE EvaluationInv(r)'
  <2>1. EvaluationInv(r) /\ Evaluates(r)' = Evaluates(r) /\ Ended(r)' = Ended(r)
    BY <1>0, <1>1, NamingAssumption
       DEF NamingInv, TalkInv, RegistryKept, Evaluates, IsWorktree, Ended
  <2> QED BY <1>0, <2>1 DEF EvaluationInv, StopAccepting, Drain, Drained, Restart, Restarted,
             EvaluationsClosed, TurnsEnded, TalkTypeOK
<1> QED BY <1>1, <1>2, <1>3, <1>4 DEF NamingInv, TalkInv, RegistryKept

(* The registry's and the creations' own steps, and a crash *)
LEMMA RegistrySteps ==
  ASSUME NamingInv,
         \/ \E r \in Requests : CreationStep(r)
         \/ RegistryStep /\ UNCHANGED talkVars
         \/ Die /\ Restarted
  PROVE  NamingInv'
<1>0. TalkTypeOK /\ WorkspacesInv /\ UNCHANGED <<conversation, answered>> /\ form' = form
  BY DEF NamingInv, TalkInv, talkVars, Restarted, CreationStep, RegistryStep, Die, Creation, Reserve,
     Add, Stage, MakeLogs, Discard, PublishReserve, PublishMove, PublishDescribe, PublishIndex,
     PublishFails, Touch, Prepare, Rename, Archive, InitializeMain, Write, WriteBoth, WriteTorn,
     creationVars
<1>1. WorkspacesInv' /\ \A i \in Ids : Published(i) => Published(i)'
  BY <1>0, CreationStepKeeps, RegistryStepKeeps, DieKeeps, PublishedKept DEF CreationStep
<1>2. TalkTypeOK'
  BY <1>0 DEF TalkTypeOK, talkVars, CreationStep, Restarted
<1>3. ASSUME NEW c \in Conversations PROVE ConversationInv(c)'
  <2>1. ConversationInv(c) /\ WorkspaceOf[c] \in Ids
    BY NamingAssumption DEF NamingInv, TalkInv
  <2>2. Exists(c)' = Exists(c) /\ (Exists(c) => Published(WorkspaceOf[c])')
    BY <1>0, <1>1, <2>1 DEF Exists, ConversationInv
  <2>3. /\ ticket'[c] = "ready" => c \in answered
        /\ naming' \in {"draining", "closed"} => turn'[c] # "running"
        /\ naming' = "closed" => ticket'[c] = "none"
    BY <1>0, <2>1 DEF ConversationInv, talkVars, CreationStep, Restarted, TalkTypeOK
  <2> QED BY <1>0, <2>1, <2>2, <2>3 DEF ConversationInv
<1>4. ASSUME NEW e \in Evaluations PROVE EvaluationInv(e)'
  <2>0. EvaluationInv(e) /\ e \in Requests /\ Evaluates(e)' = Evaluates(e) /\ WorkspacesTypeOK
        /\ e # Main
    BY <1>0, NamingAssumption, WorkspacesAssumption
       DEF NamingInv, TalkInv, Evaluates, IsWorktree, WorkspacesInv
  <2>1. ASSUME NEW r \in Requests, CreationStep(r) PROVE EvaluationInv(e)'
    <3>1. UNCHANGED <<evaluation, naming>> /\ (Evaluates(r) => evaluation[r] = "preparing")
      BY <2>1 DEF CreationStep, talkVars
    <3>2. r # e => pc'[e] = pc[e]
      BY <2>0, <2>1 DEF CreationStep, Creation, Reserve, Add, Stage, MakeLogs, Discard,
         PublishReserve, PublishMove, PublishDescribe, PublishIndex, PublishFails, Goto,
         WorkspacesTypeOK
    <3> QED BY <2>0, <3>1, <3>2 DEF EvaluationInv, Ended
  <2>2. CASE RegistryStep /\ UNCHANGED talkVars
    <3>1. pc'[e] = pc[e]
      BY <2>0, <2>2 DEF RegistryStep, Touch, Prepare, Rename, Archive, InitializeMain, Write,
         WriteBoth, WriteTorn, creationVars, Goto, WorkspacesTypeOK
    <3> QED BY <2>0, <2>2, <3>1 DEF EvaluationInv, Ended, talkVars
  <2>3. CASE Die /\ Restarted
    <3>1. Ended(e)'
      BY <2>0, <2>3 DEF Die, Ended, WorkspacesTypeOK
    <3> QED BY <2>0, <2>3, <3>1 DEF EvaluationInv, Restarted
  <2> QED BY <2>1, <2>2, <2>3
<1> QED BY <1>1, <1>2, <1>3, <1>4 DEF NamingInv, TalkInv

LEMMA NextPreserves == NamingInv /\ [NamingNext]_namingVars => NamingInv'
<1> SUFFICES ASSUME NamingInv, [NamingNext]_namingVars PROVE NamingInv'
  OBVIOUS
<1>1. CASE NamingNext
  BY <1>1, ConversationStep, EvaluationStep, ShutdownStep, RegistrySteps DEF NamingNext, NamingStep
<1>2. CASE UNCHANGED namingVars
  <2>1. RegistryKept
    BY <1>2, RegistryUnchanged DEF NamingInv, namingVars, workspaceVars, historyVars
  <2>2. TalkInv'
    BY <1>2, <2>1, NamingAssumption DEF NamingInv, TalkInv, TalkTypeOK, ConversationInv, EvaluationInv,
       Exists, Evaluates, IsWorktree, Ended, RegistryKept, namingVars, talkVars
  <2> QED BY <2>1, <2>2 DEF NamingInv, RegistryKept
<1> QED BY <1>1, <1>2

-----------------------------------------------------------------------------
(* The theorems *)

(* The inductive invariant of the registry, the creations, the automatic    *)
(* names and the evaluations: who owns what at each step of a creation, from *)
(* which descriptors the index was written, and what a conversation's row,  *)
(* its ticket and the shutdown say of each other.                           *)
THEOREM NamingInvariant == NamingSpec => []NamingInv
<1> QED BY NamingInitInv, NextPreserves, PTL DEF NamingSpec

(* A creation makes everything or nothing, whatever fails in it and         *)
(* whichever other creation wanted the same name.                           *)
THEOREM CreationIsAtomic == NamingSpec => []CreationAllOrNothing
<1>1. ASSUME NamingInv PROVE CreationAllOrNothing
  <2>1. ASSUME NEW r \in Requests
        PROVE  CreationInv(r) /\ (pc[r] = "failed" => desc[r] = None)
    BY <1>1 DEF NamingInv, WorkspacesInv, CreationInv, Readable
  <2> QED BY <2>1 DEF CreationAllOrNothing, CreationInv
<1> QED BY <1>1, NamingInvariant, PTL

(* registry.json names no workspace without a descriptor, and agrees with   *)
(* the descriptors whenever no durable step is under way and the last write *)
(* was whole.                                                               *)
THEOREM IndexIsProjection == NamingSpec => []IndexFollows
<1>1. ASSUME NamingInv PROVE IndexFollows
  <2>1. IndexInv /\ WorkspacesTypeOK /\ \A r \in Requests : CreationInv(r)
    BY <1>1 DEF NamingInv, WorkspacesInv
  <2>2. lock = None => Settled = desc
    BY <2>1, WorkspacesAssumption DEF Settled, CreationInv, Holding, WorkspacesTypeOK
  <2> QED BY <2>1, <2>2 DEF IndexFollows, IndexInv, Published
<1> QED BY <1>1, NamingInvariant, PTL

(* When the service has closed, nothing of it runs: no turn, no ticket, no  *)
(* evaluation and no thread that makes a workspace for one.                 *)
THEOREM ClosedMeansQuiet == NamingSpec => []ClosedIsQuiet
<1>1. NamingInv => ClosedIsQuiet
  BY DEF NamingInv, TalkInv, ConversationInv, EvaluationInv, ClosedIsQuiet
<1> QED BY <1>1, NamingInvariant, PTL

(* What a step may do to a descriptor: it stays, it is a failed creation's  *)
(* and goes, it becomes what a user or a creation writes, or a pending name *)
(* is generated for a conversation that has an answer and still exists.     *)
LEMMA DescriptorSteps ==
  ASSUME NamingInv, NamingNext, NEW i \in Ids, Readable(i)
  PROVE  \/ desc'[i] = None
         \/ desc'[i] = desc[i]
         \/ desc'[i].naming = "manual" /\ desc'[i].name = "chosen"
         \/ desc'[i].naming = desc[i].naming /\ desc'[i].name = desc[i].name
         \/ /\ desc[i].naming = "pending"
            /\ \E c \in answered : WorkspaceOf[c] = i /\ Exists(c)
<1>0. /\ WorkspacesTypeOK /\ TalkTypeOK /\ desc[i] \in Descriptors
      /\ \A r \in Requests : CreationInv(r)
      /\ \A c \in Conversations : ConversationInv(c)
  BY DEF NamingInv, WorkspacesInv, TalkInv, WorkspacesTypeOK, Readable
<1>1. ASSUME NEW r \in Requests, Creation(r) PROVE desc'[i] \in {None, desc[i]}
  <2>1. CASE PublishDescribe(r)
    <3>1. r # i /\ r \in Ids
      BY <1>0, <2>1 DEF PublishDescribe, CreationInv, Ids
    <3> QED BY <1>0, <2>1, <3>1 DEF PublishDescribe, WorkspacesTypeOK
  <2>2. CASE ~PublishDescribe(r)
    BY <1>0, <1>1, <2>2 DEF Creation, Reserve, Add, Stage, MakeLogs, Discard, PublishReserve,
       PublishMove, PublishIndex, PublishFails, diskVars, WorkspacesTypeOK
  <2> QED BY <2>1, <2>2
<1>2. ASSUME NEW j \in Ids, NEW d, Write(j, d) PROVE desc'[i] = IF i = j THEN d ELSE desc[i]
  BY <1>0, <1>2 DEF Write, WriteBoth, WriteTorn, WorkspacesTypeOK
<1>3. ASSUME RegistryStep
      PROVE  \/ desc'[i] = desc[i]
             \/ desc'[i].naming = "manual" /\ desc'[i].name = "chosen"
             \/ desc'[i].naming = desc[i].naming /\ desc'[i].name = desc[i].name
  <2>1. ASSUME NEW j \in Ids, Touch(j) PROVE desc'[i] = desc[i]
    BY <1>2, <2>1 DEF Touch
  <2>2. ASSUME NEW j \in Ids, Rename(j)
        PROVE  desc'[i] = desc[i] \/ (desc'[i].naming = "manual" /\ desc'[i].name = "chosen")
    <3>1. desc'[i] = IF i = j THEN [desc[j] EXCEPT !.name = "chosen", !.naming = "manual"] ELSE desc[i]
      BY <1>2, <2>2 DEF Rename
    <3> QED BY <1>0, <3>1 DEF Descriptors
  <2>3. ASSUME NEW j \in Ids, NEW state \in {"active", "archived"}, Archive(j, state)
        PROVE  \/ desc'[i] = desc[i]
               \/ desc'[i].naming = desc[i].naming /\ desc'[i].name = desc[i].name
    BY <1>0, <1>2, <2>3 DEF Archive, Descriptors
  <2>4. ASSUME NEW j \in Ids, Prepare(j) PROVE desc'[i] = desc[i]
    BY <2>4 DEF Prepare
  <2>5. CASE InitializeMain
    <3>1. i # Main
      BY <2>5 DEF InitializeMain, NamingInv, WorkspacesInv, MainInv, Readable
    <3> QED BY <1>0, <2>5, <3>1 DEF InitializeMain, WorkspacesTypeOK
  <2> QED BY <1>3, <2>1, <2>2, <2>3, <2>4, <2>5, WorkspacesAssumption DEF RegistryStep
<1>4. ASSUME NEW c \in Conversations, Generated(c) \/ GenerationFails(c)
      PROVE  \/ desc'[i] = desc[i]
             \/ /\ desc[i].naming = "pending"
                /\ c \in answered /\ WorkspaceOf[c] = i /\ Exists(c)
  <2>1. c \in answered /\ WorkspaceOf[c] \in Ids
    BY <1>0, <1>4, NamingAssumption DEF Generated, GenerationFails, ConversationInv
  <2> DEFINE j == WorkspaceOf[c]
  <2>2. \/ UNCHANGED desc
        \/ Exists(c) /\ desc[j].naming = "pending" /\ Write(j, GeneratedName(j))
    BY <1>4 DEF Generated, GenerationFails, ApplyName, Workspace, Write, workspaceVars, diskVars
  <2>3. CASE UNCHANGED desc
    BY <2>3
  <2>4. CASE Exists(c) /\ desc[j].naming = "pending" /\ Write(j, GeneratedName(j))
    BY <1>2, <2>1, <2>4
  <2> QED BY <2>2, <2>3, <2>4
<1>5. ASSUME \/ \E c \in Conversations :
                  \/ CreateConversation(c) \/ RenameConversation(c) \/ DeleteConversation(c)
                  \/ StartTurn(c) \/ TicketAborted(c)
                  \/ \E answer, committed \in BOOLEAN : FinishTurn(c, answer, committed)
             \/ \E r \in Evaluations : Evaluate(r) \/ EvaluationPrepared(r) \/ EvaluationEnds(r)
             \/ StopAccepting \/ Drain \/ Drained \/ Restart \/ Die
      PROVE  desc' = desc
  BY <1>5 DEF CreateConversation, RenameConversation, DeleteConversation, StartTurn, TicketAborted,
     FinishTurn, Evaluate, EvaluationPrepared, EvaluationEnds, StopAccepting, Drain, Drained,
     Restart, Die, workspaceVars, diskVars
<1>6. CASE \E r \in Requests : CreationStep(r)
  BY <1>1, <1>6 DEF CreationStep
<1>7. CASE RegistryStep
  BY <1>3, <1>7
<1>8. CASE NamingStep
  BY <1>4, <1>5, <1>8 DEF NamingStep
<1>9. CASE Die
  BY <1>5, <1>9
<1> QED BY <1>6, <1>7, <1>8, <1>9 DEF NamingNext

(* And to the row of a conversation *)
LEMMA RowSteps ==
  ASSUME NamingInv, NamingNext, NEW c \in Conversations
  PROVE  \/ conversation'[c] \in {None, conversation[c], [title |-> "chosen", naming |-> "manual"]}
         \/ ~Exists(c) /\ conversation'[c] = [title |-> "given", naming |-> "pending"]
         \/ Pending(c) /\ c \in answered
<1>0. TalkTypeOK /\ \A x \in Conversations : ConversationInv(x)
  BY DEF NamingInv, TalkInv
<1>1. CASE conversation' = conversation
  BY <1>1
<1>2. ASSUME NEW x \in Conversations,
             CreateConversation(x) \/ RenameConversation(x) \/ DeleteConversation(x) \/ Generated(x)
      PROVE  \/ conversation'[c] \in {None, conversation[c], [title |-> "chosen", naming |-> "manual"]}
             \/ ~Exists(c) /\ conversation'[c] = [title |-> "given", naming |-> "pending"]
             \/ Pending(c) /\ c \in answered
  <2>1. CASE x = c
    BY <1>0, <1>2, <2>1 DEF CreateConversation, RenameConversation, DeleteConversation, Generated,
       ApplyTitle, Titled, TalkTypeOK, ConversationInv
  <2>2. CASE x # c
    BY <1>0, <1>2, <2>2 DEF CreateConversation, RenameConversation, DeleteConversation, Generated,
       ApplyTitle, Titled, TalkTypeOK
  <2> QED BY <2>1, <2>2
<1>3. \/ conversation' = conversation
      \/ \E x \in Conversations :
           CreateConversation(x) \/ RenameConversation(x) \/ DeleteConversation(x) \/ Generated(x)
  <2>1. CASE NamingStep
    BY <2>1 DEF NamingStep, StartTurn, FinishTurn, GenerationFails, TicketAborted, Evaluate,
       EvaluationPrepared, EvaluationEnds, StopAccepting, Drain, Drained, Restart, Restarted
  <2>2. CASE ~NamingStep
    BY <2>2 DEF NamingNext, CreationStep, talkVars, Restarted
  <2> QED BY <2>1, <2>2
<1> QED BY <1>1, <1>2, <1>3

(* A generated name or title never replaces one that a user chose. *)
THEOREM UsersNamesStay == NamingSpec => ChosenNamesStay
<1> DEFINE A == /\ \A i \in Ids : Readable(i) /\ desc[i].naming = "manual" =>
                     desc'[i] = None \/ (desc'[i].naming = "manual" /\ desc'[i].name # "generated")
                /\ \A c \in Conversations : Exists(c) /\ ~Pending(c) =>
                     conversation'[c] \in {None, conversation[c],
                                           [title |-> "chosen", naming |-> "manual"]}
<1>1. ASSUME NamingInv, NamingNext PROVE A
  <2>1. NamesInv
    BY <1>1 DEF NamingInv, WorkspacesInv
  <2>2. ASSUME NEW i \in Ids, Readable(i), desc[i].naming = "manual"
        PROVE  desc'[i] = None \/ (desc'[i].naming = "manual" /\ desc'[i].name # "generated")
    BY <1>1, <2>1, <2>2, DescriptorSteps DEF NamesInv
  <2>3. ASSUME NEW c \in Conversations, Exists(c), ~Pending(c)
        PROVE  conversation'[c] \in {None, conversation[c], [title |-> "chosen", naming |-> "manual"]}
    BY <1>1, <2>3, RowSteps
  <2> QED BY <2>2, <2>3
<1>2. NamingInv /\ [NamingNext]_namingVars => [A]_namingVars
  BY <1>1
<1> QED BY <1>2, NamingInvariant, PTL DEF NamingSpec, ChosenNamesStay

(* A name is generated only for a conversation with a committed answer, and *)
(* a workspace is named only on behalf of one that still exists.            *)
THEOREM GeneratedNamesHaveAnswers == NamingSpec => NamesFollowAnswers
<1> DEFINE A == /\ \A c \in Conversations :
                     Exists(c)' /\ conversation'[c].title = "generated" => c \in answered
                /\ \A i \in Ids : desc[i] \notin {None, Broken} /\ desc'[i] # desc[i]
                                  /\ desc'[i] # None /\ desc'[i].naming = "generated"
                                  /\ desc[i].naming = "pending" =>
                     \E c \in answered : WorkspaceOf[c] = i /\ Exists(c)
<1>1. ASSUME NamingInv, NamingNext PROVE A
  <2>1. ASSUME NEW c \in Conversations, Exists(c)', conversation'[c].title = "generated"
        PROVE  c \in answered
    <3>1. ConversationInv(c)
      BY <1>1 DEF NamingInv, TalkInv
    <3> QED BY <1>1, <2>1, <3>1, RowSteps DEF ConversationInv, Exists
  <2>2. ASSUME NEW i \in Ids, Readable(i), desc'[i] # desc[i], desc'[i] # None,
               desc'[i].naming = "generated", desc[i].naming = "pending"
        PROVE  \E c \in answered : WorkspaceOf[c] = i /\ Exists(c)
    BY <1>1, <2>2, DescriptorSteps
  <2> QED BY <2>1, <2>2 DEF Readable
<1>2. NamingInv /\ [NamingNext]_namingVars => [A]_namingVars
  BY <1>1
<1> QED BY <1>2, NamingInvariant, PTL DEF NamingSpec, NamesFollowAnswers
==============================================================================
