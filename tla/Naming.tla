------------------------------- MODULE Naming -------------------------------
(* Automatic names.  A turn that ends with an answer may prepare a ticket   *)
(* for its conversation; the ticket is released when the turn's rows are    *)
(* committed and cancelled when that fails.  A released ticket asks a model *)
(* for a workspace name and a conversation title, and applies each where    *)
(* naming is still pending.  Meanwhile users rename, archive and delete,    *)
(* workspaces are created, and the service drains.  An evaluation creates a *)
(* workspace in a thread and then runs one turn in it, without naming.      *)
EXTENDS Workspaces

CONSTANTS Conversations, WorkspaceOf,
          Evaluations    \* requests that are evaluations if they ask for a copy

(* A row of the conversations' table *)
Rows == [title : {"given", "chosen", "generated"}, naming : {"pending", "manual", "generated"}]

ASSUME NamingAssumption ==
  WorkspaceOf \in [Conversations -> Ids] /\ Evaluations \subseteq Requests /\ None \notin Rows

VARIABLES conversation,   \* the row of a conversation: its title and naming_state
          turn,           \* "none" before the first, "running", "ended"
          ticket,         \* NamingService._pending: "none", "waiting", "ready", "aborted"
          naming,         \* the shutdown: open, stopping, draining, closed
          evaluation,     \* the turn of an evaluation: "none", "running", "ended"
          answered        \* history: conversations with a committed answer

talkVars == <<conversation, turn, ticket, naming, evaluation, answered>>
namingVars == <<workspaceVars, talkVars>>

NamingInit ==
  /\ WorkspacesInit
  /\ conversation = [c \in Conversations |-> None]
  /\ turn = [c \in Conversations |-> "none"]
  /\ ticket = [c \in Conversations |-> "none"]
  /\ naming = "open"
  /\ evaluation = [r \in Evaluations |-> "none"]
  /\ answered = {}

Exists(c) == conversation[c] # None
Pending(c) == Exists(c) /\ conversation[c].naming = "pending"
Workspace(c) == desc[WorkspaceOf[c]]

Titled(c, title, state) ==
  conversation' = [conversation EXCEPT ![c] = [title |-> title, naming |-> state]]

CreateConversation(c) ==
  /\ naming = "open" /\ ~Exists(c) /\ turn[c] = "none"
  /\ lock = None /\ Readable(WorkspaceOf[c])
  /\ Titled(c, "given", "pending")
  /\ UNCHANGED <<workspaceVars, turn, ticket, naming, evaluation, answered>>

RenameConversation(c) ==
  /\ Exists(c)
  /\ Titled(c, "chosen", "manual")
  /\ UNCHANGED <<workspaceVars, turn, ticket, naming, evaluation, answered>>

(* The turn of the conversation has ended when its row is deleted. *)
DeleteConversation(c) ==
  /\ Exists(c) /\ turn[c] # "running"
  /\ conversation' = [conversation EXCEPT ![c] = None]
  /\ turn' = [turn EXCEPT ![c] = "ended"]
  /\ UNCHANGED <<workspaceVars, ticket, naming, evaluation, answered>>

StartTurn(c) ==
  /\ naming = "open" /\ Exists(c) /\ turn[c] # "running"
  /\ turn' = [turn EXCEPT ![c] = "running"]
  /\ UNCHANGED <<workspaceVars, conversation, ticket, naming, evaluation, answered>>

-----------------------------------------------------------------------------
(* NamingService.prepare returns a ticket *)
Prepares(c) ==
  /\ naming = "open" /\ ticket[c] = "none"
  /\ Readable(WorkspaceOf[c]) /\ Exists(c)
  /\ Workspace(c).naming = "pending" \/ Pending(c)

TicketUnaborted(c, committed) ==
  IF ~Prepares(c) THEN ticket[c] ELSE IF committed THEN "ready" ELSE "waiting"

(* The ticket is committed after the turn's rows, or aborted with them. *)
TicketAfter(c, committed) ==
  IF ~Prepares(c) THEN ticket[c] ELSE IF committed THEN "ready" ELSE "aborted"

(* A turn ends: with an answer to name after, or without (stopped, failed,  *)
(* empty), and its rows are committed or not.                               *)
FinishTurn(c, answer, committed) ==
  /\ turn[c] = "running" /\ lock = None
  /\ turn' = [turn EXCEPT ![c] = "ended"]
  /\ ticket' = IF answer THEN [ticket EXCEPT ![c] = TicketAfter(c, committed)] ELSE ticket
  /\ answered' = IF answer /\ committed THEN answered \cup {c} ELSE answered
  /\ IF committed THEN UNCHANGED failures ELSE Fail
  /\ UNCHANGED <<creationVars, lock, diskVars, torn, leaked, conversation, naming, evaluation>>

EndTicket(c) == ticket' = [ticket EXCEPT ![c] = "none"]

ApplyTitle(c) ==
  IF Pending(c) THEN Titled(c, "generated", "generated") ELSE UNCHANGED conversation

ApplyNameAlways(i) == WriteBoth(i, GeneratedName(i))

(* Only a workspace whose naming is still pending is renamed. *)
ApplyName(i) ==
  IF desc[i].naming = "pending" THEN WriteBoth(i, GeneratedName(i)) ELSE UNCHANGED workspaceVars

GeneratedForDeleted(c) ==
  /\ ticket[c] = "ready" /\ lock = None
  /\ EndTicket(c)
  /\ ApplyName(WorkspaceOf[c]) /\ ApplyTitle(c)
  /\ UNCHANGED <<turn, naming, evaluation, answered>>

(* The model has answered: the conversation is looked up again, then the    *)
(* workspace is named, and then the conversation.                           *)
Generated(c) ==
  /\ ticket[c] = "ready" /\ lock = None
  /\ EndTicket(c)
  /\ IF Exists(c) THEN ApplyName(WorkspaceOf[c]) /\ ApplyTitle(c)
                  ELSE UNCHANGED <<workspaceVars, conversation>>
  /\ UNCHANGED <<turn, naming, evaluation, answered>>

(* The model fails or times out, or the registry raises after the           *)
(* descriptor: naming is left pending for a later turn.                     *)
GenerationFails(c) ==
  /\ ticket[c] = "ready"
  /\ EndTicket(c)
  /\ \/ UNCHANGED workspaceVars
     \/ /\ Exists(c) /\ Workspace(c).naming = "pending"
        /\ WriteTorn(WorkspaceOf[c], GeneratedName(WorkspaceOf[c]))
  /\ UNCHANGED <<conversation, turn, naming, evaluation, answered>>

(* A cancelled ticket leaves _pending in its done callback. *)
TicketAborted(c) ==
  /\ ticket[c] = "aborted"
  /\ EndTicket(c)
  /\ UNCHANGED <<workspaceVars, conversation, turn, naming, evaluation, answered>>

-----------------------------------------------------------------------------
StopAccepting ==
  /\ naming = "open"
  /\ naming' = "stopping"
  /\ UNCHANGED <<workspaceVars, conversation, turn, ticket, evaluation, answered>>

(* EvalService.run.  The task outlives the request that asked for it.       *)
Evaluates(r) == r \in Evaluations /\ ~IsWorktree(r)

Evaluate(r) ==
  /\ naming = "open" /\ pc[Main] = "done" /\ Evaluates(r) /\ evaluation[r] = "none"
  /\ evaluation' = [evaluation EXCEPT ![r] = "preparing"]
  /\ UNCHANGED <<workspaceVars, conversation, turn, ticket, naming, answered>>

(* The thread that makes the workspace is not cancelled.  When it is done   *)
(* the service may be closing; otherwise the conversation is created and    *)
(* its turn started at once.                                                *)
EvaluationPrepared(r) ==
  /\ evaluation[r] = "preparing" /\ pc[r] \in {"done", "failed"}
  /\ evaluation' = [evaluation EXCEPT
       ![r] = IF pc[r] = "done" /\ naming = "open" THEN "running" ELSE "ended"]
  /\ UNCHANGED <<workspaceVars, conversation, turn, ticket, naming, answered>>

EvaluationEnds(r) ==
  /\ evaluation[r] = "running"
  /\ evaluation' = [evaluation EXCEPT ![r] = "ended"]
  /\ UNCHANGED <<workspaceVars, conversation, turn, ticket, naming, answered>>

(* A creation that is an evaluation begins with it. *)
CreationStep(r) ==
  Creation(r) /\ (Evaluates(r) => evaluation[r] = "preparing") /\ UNCHANGED talkVars

-----------------------------------------------------------------------------
TurnsEnded ==
  /\ \A c \in Conversations : turn[c] # "running"
  /\ \A r \in Evaluations : evaluation[r] # "running"

(* EvalService._shutdown: the turns, and then the tasks of evaluations, some *)
(* of which may have no turn yet.                                           *)
EvaluationsClosed == TurnsEnded /\ \A r \in Evaluations : evaluation[r] # "preparing"

(* After that a ticket that was never released is aborted.                  *)
Drain ==
  /\ naming = "stopping" /\ EvaluationsClosed
  /\ naming' = "draining"
  /\ ticket' = [c \in Conversations |-> IF ticket[c] = "waiting" THEN "aborted" ELSE ticket[c]]
  /\ UNCHANGED <<workspaceVars, conversation, turn, evaluation, answered>>

Drained ==
  /\ naming = "draining" /\ \A c \in Conversations : ticket[c] = "none"
  /\ naming' = "closed"
  /\ UNCHANGED <<workspaceVars, conversation, turn, ticket, evaluation, answered>>

(* The process starts again: tasks, tickets and turns are gone. *)
Restarted ==
  /\ turn' = [c \in Conversations |-> IF turn[c] = "running" THEN "ended" ELSE turn[c]]
  /\ ticket' = [c \in Conversations |-> "none"]
  /\ naming' = "open"
  /\ evaluation' = [r \in Evaluations |-> IF evaluation[r] = "none" THEN "none" ELSE "ended"]
  /\ UNCHANGED <<conversation, answered>>

Restart == naming = "closed" /\ Restarted /\ UNCHANGED workspaceVars

NamingStep ==
  \/ \E c \in Conversations :
       \/ CreateConversation(c) \/ RenameConversation(c) \/ DeleteConversation(c)
       \/ StartTurn(c)
       \/ \E answer, committed \in BOOLEAN : FinishTurn(c, answer, committed)
       \/ Generated(c) \/ GenerationFails(c) \/ TicketAborted(c)
  \/ \E r \in Evaluations : Evaluate(r) \/ EvaluationPrepared(r) \/ EvaluationEnds(r)
  \/ StopAccepting \/ Drain \/ Drained \/ Restart

NamingNext ==
  \/ \E r \in Requests : CreationStep(r)
  \/ RegistryStep /\ UNCHANGED talkVars
  \/ NamingStep
  \/ Die /\ Restarted

NamingSpec == NamingInit /\ [][NamingNext]_namingVars

-----------------------------------------------------------------------------
(* A generated name or title never replaces one a user chose, and what was  *)
(* generated stays until a user renames it.                                 *)
ChosenNamesStay ==
  [][/\ \A i \in Ids : Readable(i) /\ desc[i].naming = "manual" =>
          desc'[i] = None \/ (desc'[i].naming = "manual" /\ desc'[i].name # "generated")
     /\ \A c \in Conversations : Exists(c) /\ ~Pending(c) =>
          conversation'[c] \in {None, conversation[c], [title |-> "chosen", naming |-> "manual"]}
    ]_namingVars

(* A name is generated for a conversation that has a committed answer, and  *)
(* a workspace is named only on behalf of one that still exists.            *)
NamesFollowAnswers ==
  [][/\ \A c \in Conversations :
          Exists(c)' /\ conversation'[c].title = "generated" => c \in answered
     /\ \A i \in Ids : desc[i] \notin {None, Broken} /\ desc'[i] # desc[i]
                       /\ desc'[i] # None /\ desc'[i].naming = "generated"
                       /\ desc[i].naming = "pending" =>
          \E c \in answered : WorkspaceOf[c] = i /\ Exists(c)
    ]_namingVars

(* When the service has closed no turn, no ticket and no evaluation is left *)
(* and no thread makes a workspace for one: "close() drains preparation     *)
(* instead of cancelling its filesystem thread", so that nobody writes when *)
(* the state root is given up.                                              *)
ClosedIsQuiet ==
  naming = "closed" =>
    /\ \A c \in Conversations : turn[c] # "running" /\ ticket[c] = "none"
    /\ \A r \in Evaluations : Evaluates(r) => Ended(r) /\ evaluation[r] # "running"

(* The event loop runs every task, worker threads finish what they began,   *)
(* and a stopping service ends its turns.                                   *)
NamingFairness ==
  /\ WF_namingVars(Drain) /\ WF_namingVars(Drained)
  /\ \A c \in Conversations :
       /\ WF_namingVars(Generated(c) \/ GenerationFails(c)) /\ WF_namingVars(TicketAborted(c))
       /\ WF_namingVars(naming # "open" /\ \E answer \in BOOLEAN : FinishTurn(c, answer, TRUE))
  /\ \A r \in Requests : WF_namingVars(CreationStep(r))
  /\ \A r \in Evaluations :
       /\ WF_namingVars(EvaluationPrepared(r))
       /\ WF_namingVars(naming # "open" /\ EvaluationEnds(r))

FairNamingSpec == NamingSpec /\ NamingFairness

(* A ticket always ends, also one whose turn failed to commit, so that a    *)
(* later answer can be named after.  A shutdown waits for the names that    *)
(* were released and for evaluations, also for one whose workspace is still *)
(* in the making, and for nothing else.                                     *)
TicketsEnd ==
  /\ \A c \in Conversations : ticket[c] # "none" ~> ticket[c] = "none"
  /\ naming = "stopping" ~> naming \in {"closed", "open"}
=============================================================================
