----------------------------- MODULE Workspaces -----------------------------
(* The workspace registry and the creation of workspaces.  A workspace is a *)
(* directory of the registry root with a descriptor (workspace.json); the   *)
(* index (registry.json) is derived from the descriptors and read by other  *)
(* programs.  Creation runs in worker threads: it makes a copy, or a Git    *)
(* worktree with its branch beside the main checkout, and then publishes a  *)
(* directory under the registry's lock.  Any step may fail, and the process *)
(* may die between two of them.                                             *)
EXTENDS Integers, FiniteSets

CONSTANTS Requests,      \* creation requests; each has a fresh workspace id
          Main, Old,     \* w_main, and a workspace of an earlier version
          MaxSuffix,     \* worktree names tried before giving up (99 in the code)
          Plans,         \* what the requests ask for: some of [Requests -> Forms]
          Occupied,      \* the sets of names users may have taken before
          Edited,        \* the workspaces that users rename and archive
          MaxFailures,   \* failing steps and crashes in a behaviour
          None, Broken   \* no descriptor, and one that does not validate

Ids == Requests \cup {Main, Old}
Suffixes == 1 .. MaxSuffix

(* A copy, a worktree named by the server (0), or one the user named. *)
Forms == {"copy", "worktree"} \X (0 .. MaxSuffix)

(* What a workspace.json that validates says. *)
Descriptors ==
  [name : {"given", "chosen", "generated"}, naming : {"pending", "manual", "generated"},
   state : {"active", "archived"}, kind : {"managed", "external"}]

ASSUME WorkspacesAssumption ==
  /\ MaxSuffix \in Nat \ {0} /\ MaxFailures \in Nat
  /\ Main # Old /\ Requests \cap {Main, Old, None} = {} /\ None \notin {Main, Old, Broken}
  /\ "user" \notin Requests \cup {None} /\ {None, Broken} \cap Descriptors = {}
  /\ Plans \subseteq [Requests -> Forms] /\ Edited \subseteq Ids
  /\ \A B \in Occupied : B \subseteq Suffixes

VARIABLES pc, form, pick,     \* a creation's next step, what was asked, the name it picked
          lock,               \* holder of WorkspaceRegistry._lock across durable steps
          dir, repo, desc,    \* registry directories, their repositories and descriptors
          index,              \* the entries of registry.json
          tree, branch,       \* who made the worktree and the branch of a name
          torn, leaked,       \* history: a write without its index; creations cut short
          failures

creationVars == <<pc, form, pick>>
diskVars == <<dir, repo, desc, index, tree, branch>>
historyVars == <<torn, leaked, failures>>
workspaceVars == <<creationVars, lock, diskVars, historyVars>>

IsWorktree(r) == form[r][1] = "worktree"
Asked(r) == form[r][2]

Descriptor(name, naming, state, kind) ==
  [name |-> name, naming |-> naming, state |-> state, kind |-> kind]

MainDescriptor == Descriptor("given", "manual", "active", "external")

(* What rebuild_index writes: an entry for each descriptor that validates. *)
Projection(descriptors) ==
  [i \in {j \in Ids : descriptors[j] \notin {None, Broken}} |->
     [name |-> descriptors[i].name, state |-> descriptors[i].state]]

WorkspacesInit ==
  /\ form \in Plans
  /\ pick = [r \in Requests |-> 0]
  /\ lock = None
  /\ \/ desc = [i \in Ids |-> None]     \* no state directory yet
     \/ \E d \in {None, Broken, Descriptor("given", "manual", "active", "managed")} :
          desc = [i \in Ids |-> CASE i = Main -> MainDescriptor [] i = Old -> d [] OTHER -> None]
  /\ pc = [i \in Requests \cup {Main} |-> IF desc[i] = None THEN "new" ELSE "done"]
  /\ dir = [i \in Ids |-> IF desc[i] = None THEN "absent" ELSE "full"]
  /\ repo = [i \in Ids |-> "absent"]
  /\ index = Projection(desc)
  /\ \E taken \in Occupied : branch = [n \in Suffixes |-> IF n \in taken THEN "user" ELSE None]
  /\ tree = [n \in Suffixes |-> None]
  /\ torn = FALSE
  /\ leaked = {}
  /\ failures = 0

Readable(i) == desc[i] \notin {None, Broken}

-----------------------------------------------------------------------------
(* The registry's writes *)
Fail == failures < MaxFailures /\ failures' = failures + 1

IndexFirst == index' = Projection(desc) /\ torn' = FALSE

RebuildIndex == index' = Projection(desc') /\ torn' = FALSE

(* One descriptor is replaced and the index rebuilt, under the lock. *)
WriteBoth(i, d) ==
  /\ lock = None
  /\ desc' = [desc EXCEPT ![i] = d]
  /\ RebuildIndex
  /\ UNCHANGED <<creationVars, lock, dir, repo, tree, branch, leaked, failures>>

(* The index is not written: an error for the caller, who sees the new name *)
WriteTorn(i, d) ==
  /\ lock = None
  /\ Fail
  /\ desc' = [desc EXCEPT ![i] = d]
  /\ torn' = TRUE
  /\ UNCHANGED <<creationVars, lock, dir, repo, index, tree, branch, leaked>>

Write(i, d) == WriteBoth(i, d) \/ WriteTorn(i, d)

Rename(i) == Readable(i) /\ Write(i, [desc[i] EXCEPT !.name = "chosen", !.naming = "manual"])

Archive(i, state) == Readable(i) /\ i # Main /\ Write(i, [desc[i] EXCEPT !.state = state])

Touch(i) == Readable(i) /\ Write(i, desc[i])

(* What apply_generated_name writes; it does nothing unless naming is pending *)
GeneratedName(i) == [desc[i] EXCEPT !.name = "generated", !.naming = "generated"]

-----------------------------------------------------------------------------
(* Creation, up to the publication *)
Goto(r, step) == pc' = [pc EXCEPT ![r] = step]

Taken(n) == branch[n] # None \/ tree[n] # None

Candidates == {n \in Suffixes : ~Taken(n)}
FirstFree == CHOOSE n \in Candidates : \A k \in Candidates : n <= k

(* The first unused name, or the one the user asked for, checked here and   *)
(* used later.                                                              *)
Reserve(r) ==
  /\ pc[Main] = "done" /\ pc[r] = "new"
  /\ IF ~IsWorktree(r) THEN Goto(r, "publish") /\ UNCHANGED pick
     ELSE LET refused == IF Asked(r) = 0 THEN Candidates = {} ELSE Taken(Asked(r))
          IN IF refused THEN Goto(r, "failed") /\ UNCHANGED pick
             ELSE /\ pick' = [pick EXCEPT ![r] = IF Asked(r) = 0 THEN FirstFree ELSE Asked(r)]
                  /\ Goto(r, "add")
  /\ UNCHANGED <<form, lock, diskVars, historyVars>>

AddOrDiscard(r) ==
  /\ pc[r] = "add"
  /\ IF Taken(pick[r])
     THEN Goto(r, "discard") /\ UNCHANGED <<tree, branch>>
     ELSE Goto(r, "stage") /\ branch' = [branch EXCEPT ![pick[r]] = r]
                           /\ tree' = [tree EXCEPT ![pick[r]] = r]
  /\ UNCHANGED <<form, pick, lock, dir, repo, desc, index, historyVars>>

Made(r) ==
  /\ branch' = [branch EXCEPT ![pick[r]] = r]
  /\ tree' = [tree EXCEPT ![pick[r]] = r]

(* `git worktree add -b` refuses a branch or a directory that is there by   *)
(* now; a base that does not resolve is refused before.  It makes the       *)
(* branch first: an error of the checkout leaves it, and the end of its     *)
(* time the tree as well, and nobody discards either.                       *)
Add(r) ==
  /\ pc[r] = "add"
  /\ \/ Taken(pick[r]) /\ Goto(r, "failed") /\ UNCHANGED <<tree, branch, leaked, failures>>
     \/ ~Taken(pick[r]) /\ Made(r) /\ Goto(r, "stage") /\ UNCHANGED <<leaked, failures>>
     \/ ~Taken(pick[r]) /\ Fail /\ Goto(r, "failed") /\ UNCHANGED <<tree, branch, leaked>>
     \/ /\ ~Taken(pick[r]) /\ Fail /\ Goto(r, "failed") /\ leaked' = leaked \cup {r}
        /\ Made(r) \/ (branch' = [branch EXCEPT ![pick[r]] = r] /\ UNCHANGED tree)
  /\ UNCHANGED <<form, pick, lock, dir, repo, desc, index, torn>>

(* Staging the artifacts a checkout lacks; if it fails the tree is discarded. *)
Stage(r) ==
  /\ pc[r] = "stage"
  /\ \/ Goto(r, "logs") /\ UNCHANGED failures
     \/ Fail /\ Goto(r, "discard")
  /\ UNCHANGED <<form, pick, lock, diskVars, torn, leaked>>

(* The logs directory is made outside of the block that discards the tree. *)
MakeLogs(r) ==
  /\ pc[r] = "logs"
  /\ \/ Goto(r, "publish") /\ UNCHANGED <<failures, leaked>>
     \/ Fail /\ Goto(r, "failed") /\ leaked' = leaked \cup {r}
  /\ UNCHANGED <<form, pick, lock, diskVars, torn>>

Without(r, owner) == [owner EXCEPT ![pick[r]] = None]

(* Three Git commands on the name, each best effort; a branch that is checked out in a  *)
(* worktree cannot be deleted.                                              *)
Discard(r) ==
  /\ pc[r] = "discard"
  /\ Goto(r, "failed")
  /\ \/ /\ tree' = Without(r, tree) /\ branch' = Without(r, branch)
        /\ UNCHANGED <<leaked, failures>>
     \/ /\ Fail /\ leaked' = leaked \cup {r}
        /\ tree' \in {tree, Without(r, tree)} /\ UNCHANGED branch
  /\ UNCHANGED <<form, pick, lock, dir, repo, desc, index, torn>>

-----------------------------------------------------------------------------
(* Publication, under the lock *)
Kind(r) == IF IsWorktree(r) THEN "external" ELSE "managed"

PublishReserve(r) ==
  /\ pc[r] = "publish" /\ lock = None
  /\ lock' = r
  /\ dir' = [dir EXCEPT ![r] = "made"]
  /\ Goto(r, "move")
  /\ UNCHANGED <<form, pick, repo, desc, index, tree, branch, historyVars>>

PublishMove(r) ==
  /\ pc[r] = "move"
  /\ dir' = [dir EXCEPT ![r] = "full"]
  /\ repo' = [repo EXCEPT ![r] = IF IsWorktree(r) THEN "absent" ELSE "whole"]
  /\ Goto(r, "describe")
  /\ UNCHANGED <<form, pick, lock, desc, index, tree, branch, historyVars>>

(* The workspace is named when it is created, or left to automatic naming. *)
PublishDescribe(r) ==
  /\ pc[r] = "describe"
  /\ \E naming \in {"pending", "manual"} :
       desc' = [desc EXCEPT ![r] = Descriptor("given", naming, "active", Kind(r))]
  /\ Goto(r, "index")
  /\ UNCHANGED <<form, pick, lock, dir, repo, index, tree, branch, historyVars>>

PublishIndex(r) ==
  /\ pc[r] = "index"
  /\ UNCHANGED desc /\ RebuildIndex
  /\ lock' = None
  /\ Goto(r, "done")
  /\ UNCHANGED <<form, pick, dir, repo, tree, branch, leaked, failures>>

(* Any of these raises: the directory this call made is removed with what   *)
(* it holds, and the worktree discarded.                                    *)
PublishFails(r) ==
  /\ pc[r] \in {"publish", "move", "describe", "index"}
  /\ Fail
  /\ dir' = [dir EXCEPT ![r] = "absent"]
  /\ repo' = [repo EXCEPT ![r] = "absent"]
  /\ desc' = [desc EXCEPT ![r] = None]
  /\ lock' = IF lock = r THEN None ELSE lock
  /\ Goto(r, IF IsWorktree(r) THEN "discard" ELSE "failed")
  /\ UNCHANGED <<form, pick, index, tree, branch, torn, leaked>>

(* The state directory is created once, with w_main; a failure removes it.  *)
InitializeMain ==
  /\ pc[Main] = "new"
  /\ \/ /\ desc' = [desc EXCEPT ![Main] = MainDescriptor]
        /\ dir' = [dir EXCEPT ![Main] = "full"]
        /\ RebuildIndex
        /\ Goto(Main, "done") /\ UNCHANGED failures
     \/ Fail /\ UNCHANGED <<pc, desc, dir, index, torn>>
  /\ UNCHANGED <<form, pick, lock, repo, tree, branch, leaked>>

(* A managed workspace of an earlier version has no repository until its    *)
(* first use: a copy is staged and moved into a directory reserved for it.  *)
Unprepared(i) == Readable(i) /\ desc[i].kind = "managed" /\ repo[i] = "absent"

Prepare(i) ==
  /\ lock = None /\ Unprepared(i)
  /\ repo' = [repo EXCEPT ![i] = "whole"]
  /\ UNCHANGED <<creationVars, lock, dir, desc, index, tree, branch, historyVars>>

Ended(r) == pc[r] \in {"new", "done", "failed", "dead"}

(* The process dies and starts again; requests that had begun are lost. *)
Die ==
  /\ Fail
  /\ leaked' = leaked \cup {r \in Requests : ~Ended(r)}
  /\ torn' = (torn \/ \E r \in Requests : pc[r] = "index")
  /\ pc' = [i \in DOMAIN pc |-> IF i \in Requests /\ ~Ended(i) THEN "dead" ELSE pc[i]]
  /\ lock' = None
  /\ \/ UNCHANGED repo
     \/ \E i \in Ids : Unprepared(i) /\ repo' = [repo EXCEPT ![i] = "part"]
  /\ UNCHANGED <<form, pick, dir, desc, index, tree, branch>>

Creation(r) ==
  \/ Reserve(r) \/ Add(r) \/ Stage(r) \/ MakeLogs(r) \/ Discard(r)
  \/ PublishReserve(r) \/ PublishMove(r) \/ PublishDescribe(r) \/ PublishIndex(r)
  \/ PublishFails(r)

RegistryStep ==
  \/ \E i \in Ids : Touch(i) \/ Prepare(i)
  \/ \E i \in Edited : Rename(i)
  \/ \E i \in Edited, state \in {"active", "archived"} : Archive(i, state)
  \/ InitializeMain

-----------------------------------------------------------------------------
(* A creation makes everything or nothing.  A workspace with a descriptor   *)
(* has its database, its copy or its own worktree and branch, whatever      *)
(* another creation does that wanted the same name and failed; a creation   *)
(* that failed left nothing behind ("a failed publication must not leave    *)
(* one behind with nothing pointing at it"), unless Git failed half-way or  *)
(* failed to undo, the logs directory could not be made, or the process     *)
(* died.                                                                    *)
CreationAllOrNothing ==
  /\ \A r \in Requests : Readable(r) =>
       /\ dir[r] = "full"
       /\ IF IsWorktree(r) THEN tree[pick[r]] = r /\ branch[pick[r]] = r
                           ELSE repo[r] = "whole"
  /\ \A r \in Requests : pc[r] = "failed" /\ r \notin leaked =>
       /\ dir[r] = "absent" /\ desc[r] = None
       /\ \A n \in Suffixes : r \notin {tree[n], branch[n]}

(* The index never names a workspace without a descriptor, also after a     *)
(* crash, and says what the descriptors say whenever the registry is at     *)
(* rest, unless the last write failed or died between the two files.        *)
IndexFollows ==
  /\ \A i \in DOMAIN index : Readable(i)
  /\ lock = None /\ ~torn => index = Projection(desc)
=============================================================================
