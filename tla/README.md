# ServingStudioAgent in TLA+

A verification development for the backend in `src/vibesim_agent`: a FastAPI
service that runs conversation turns of coding agents (Codex, Claude) in
workspaces, streams their events, lets them register experiments, and survives
restarts. The modules are translated from the code; TLC checks them on small
instances and TLAPS proves the results listed under [Proofs](#proofs) for every
value of the constants.

    tlc -workers 2 -config TurnService_shared.cfg MCTurnService
    tlapm TurnServiceProofs.tla

`PROJECT.json` lists components, runs, the source lines behind every definition,
the hazards each property is for, at least one mutant of the code for every
property, and the theorems.

## 1. Inventory

The backend is one asyncio process. SQLite calls are synchronous and each is one
transaction, so between two awaits a task runs alone; the interleavings that
matter are those of tasks at awaits, of the process with what outlives it
(tables, files, agents), and of the process with whoever edits the directories.

| Component | State | Operations | Talks to | Hard part | What makes it correct |
|---|---|---|---|---|---|
| Turn service `services/turn.py` | `_active` handles, one lock per workspace, `_deleting`, `_closing`, timers | start, `_run`, cancel, forced cancel, stream, delete, close | tables, driver, naming, runtime cleanup | tasks queueing for a lock, Stop in every state, failing writes, shutdown | one task in a workspace; one unfinished turn per conversation; tasks and rows agree; errors over Stops over answers; everything told to stop ends |
| Turn and conversation tables `storage/turns.py`, `conversations.py`, `sessions.py` | `turns`, `turn_events`, `messages`, `conversations`, sessions | start, append_event, finish, interrupt, delete, titles | turn service, jobs, recovery | transactions that refuse or raise | a settled turn has one answer and one `done`, its last event; nothing is appended to it |
| Recovery, ownership, shutdown `services/recovery.py`, `storage/ownership.py`, `application.py`, `main.py` | flock, `_ready`, `_recovering` | recover, close, lifespan | every workspace's tables, runtime, context files | a crash at any point, also during recovery; a release that raises | no request before what a crash left is settled; no agent that a crash left without a running row |
| Conversation driver `services/driver.py`, `domain/roles.py` | role, task, budgets, pending text of one turn | calls of a role, repair, checkpoint, delegate, hand back | provider adapters, `domain/decisions.py`, turn service | loops steered by model text | bounded calls; roles confined; no answer over a pending task |
| Decision parsing `domain/decisions.py` | none | parse_orchestrator, parse_implementer | driver | several or broken envelopes in one text | always a decision, never one without the text it needs |
| Event stream `TurnService.stream`, `api/conversations.py` | a reader's position, the captured `changed` event | subscribe, read, wait, reconnect, disconnect | tables, handle | events committed while a batch is being yielded; wake-ups | each event once and in order; the end not before the last event; no lost wake-up |
| Managed jobs `services/jobs.py`, `storage/jobs.py`, `api/jobs.py` | `execution_jobs`, `experiments`, links, `experiment.meta.json` | register, register_run, register_artifact, update | tables, capability, turn service (notify) | three durable steps per registration; copied or removed directories; late callbacks | one identity per path; a crash blocks nothing; ended turns are frozen |
| Capabilities and context `services/capabilities.py` | tokens with expiry, `context.json` per conversation | issue, authorize (renews), revoke, write, remove | driver, jobs API | expiry against use; files left by a crash | a context file only for an unfinished turn |
| Agent runtime `services/runtime.py`, `runtime/*` | container or process group, homes, PID files | prepare, execute, release | docker, git, provider CLIs | Stop while spawning or before the remote start, stuck processes, processes that outlive the agent | in a container nothing outlives a release, on a host only what cannot be identified; cleanup is not cut short |
| Providers `providers/*` | collector of one call: pending text, usage, session | command, stdout and rollout events, final event | runtime, driver | order of phased and unphased text, timeout | one final event; no text lost or twice |
| Naming `services/naming.py` | tickets, `naming_state` in registry and table | prepare, commit, abort, drain | turn service, registry | generated name against rename, delete and drain | a manual name is never overwritten; names only after committed answers; no ticket left waiting |
| Workspace registry `storage/registry.py`, `services/workspace.py`, `runtime/worktree.py` | descriptors, derived index, worktrees and branches | publish, update, rebuild_index, create_worktree, discard | git, file system | crash or failure between steps | index derivable from descriptors; a failed creation removes only its own |
| Evaluation `services/eval.py` | tasks | run, close | workspaces, turn service | close during a preparation thread | every accepted evaluation ends |
| Citations and evidence `services/citations.py`, `artifacts.py`, `domain/evidence.py`, MCP server | dictionary in turn events | register, freeze | turn tables | mostly data | registered only in running turns |
| API, prompts, settings, startup | none of their own | validation, rendering, wiring | all of the above | - | - |
| Tools `src/tools/*` | shutdown receipt, assembled tree, selection record | quiesce, migrate, publish_selection, load | docker, tmux, file system | crashes, reboots and writers between shutdown, copy, check and record | what is served is a whole copy; no way back after a selection; sessions keep their history |

## 2. Modules

| Module | Models | EXTENDS / uses |
|---|---|---|
| `TurnLedger` | abstract: what the turn and conversation tables promise | - |
| `TurnService` | the turn service over its tables; properties, inductive invariant, fairness | `INSTANCE TurnLedger` |
| `Backend` | the process around it: ownership, recovery, shutdown, crash, agents, context files | `TurnService` |
| `EventStream` | readers of a turn and the job events they also carry | `TurnService` |
| `DriverContract` | abstract: the protocol `_run` expects of its driver | - |
| `Decisions` | what a final text decides | - |
| `Driver` | one turn of the conversation driver | `Decisions`, `INSTANCE DriverContract` |
| `ManagedJobs` | registrations and reports over tables and marker files | - |
| `Runtime` | where a call runs: containers, host process groups, spawn, Stop, marker, PID file, release | - |
| `Collector` | how the lines and the rollout of one call become its events | - |
| `Workspaces` | descriptors, index, creation of copies and worktrees, publication and its undoing | - |
| `Naming` | naming tickets, evaluations and the shutdown that waits for them | `Workspaces` |
| `Conversion` | what a migration makes of rows, homes and paths, as functions | - |
| `Migration` | a managed startup: shutdown of the old service, copy, publication, selection, serving | `Conversion` |
| `*Proofs` | theorems about the module of that name; `BackendProofs` also has those about `EventStream`, `NamingProofs` those about `Workspaces` | the module and `TLAPS` |
| `MC*` | constants of the small instances | the module and `TLC` |

### How they correspond to the code

**TurnService.** An action is what one task does between two awaits. `pc[t]` is
where `_run` is suspended: `created` (task not begun), `locking` (at the lock),
`driving` (in the driver's next event), `stopping` (closing the generator),
`cleanup` (in `after_execution`), `ended`. `cancel` is `none`, `requested`
(`cancel_requested`), `sent` (`cancel_sent`, `task.cancel()` called) or
`delivered` (thrown at an await). `fate` is the result or exception on its way
out, which a Stop replaces; `wrong` is what has failed and is not replaced: the
result (`execution_failed`), the driver (`pending_failure`) and the callback that
`_finish_execution` waits for through any Stop (`CallbackRaises`). `Finalize` is everything from `except CancelledError` to `finally` in one
step, because it awaits nothing: outcome, resume role, `Turns.finish`, or its
failure (`FinishRaises`), which leaves the row running, removes the handle and
sets `error`. `Record` is an event appended, the notification, and the Stop that
may follow it; `RecordRaises` is a failing append. A deletion is a task of its own
(`RemoveBegin`, `RemoveWaited`, `RemoveAcquires`, `RemoveDone`), and `Close` is
the shutdown. `TurnService.cancel` returns before the cancelled task runs, so a
driver event may be handled between the Stop and its delivery.

**Backend.** `ServiceStep` is any step of `TurnService` plus what it means for
the agents and the context file. An agent that is in a call (`InCall`), or was in
one when the process died, is in `agent`. A call that ends may leave its agent
behind, when the stop raised or the docker client exited before it: the turn is
settled, the lock is free and the agent is a `stray`, which works on beside the
next turn until it ends by itself (`StrayEnds`) or its conversation is released.
That is what the code does, and no property here denies it; what the properties
say is who finds what. A workspace in `Managed` has containers, and a release
(`RecoverRelease`, the cleanup of a deletion) ends all that is in one; on the host
it kills recorded groups and may leave others. `Crash` keeps tables, agents and
context files and loses the rest; it may come between `RecoverRelease` and
`RecoverInterrupt`, since only the release awaits. A recovery that raises (a
release, a write) closes ownership and fails the start of the process, which is
the same change of state as a `Crash` while `recovering`, and is modelled by it.
A release is one step here; what happens inside it is `Runtime`.

**EventStream.** A reader's step is what its generator does between two
suspensions: `Open` reads a first batch, `Resume` yields the next event or reads
again, `Wake` follows a notification. `woken` abstracts the `changed` event the
reader captured. Job events are recorded by another request (`JobEvent`).

**Driver.** `StartCall` is `_call` up to the role_start event, `ProviderReady` the
first session event, `ProviderFinal` the end of a call: a failure or any text of
`Texts`, which `Decisions` reads. `Repair`, `Continue`, `Delegate`, `Handoff` and
`End` are the branches of `_run`. The number of delegations is unbounded in the
code; `MaxDelegations` bounds it in a behaviour. A text is the sequence of JSON
objects found in it, and an object is its action, message and task, each in the
few forms the parser tells apart.

**ManagedJobs.** `call` is the registration being handled, `call.step` its next
durable write: recover a leftover marker, publish, replace, commit the
transaction, finalize. A crash or a failing write may come before each. `copied`
and `touched` mark directories somebody edited, for the properties only. A job id
also names the experiment id minted by the same registration; both are uuid4 and
used once. Handlers are synchronous, so two of them never interleave; what comes
between their steps are crashes, agents and users.

**Runtime.** Four places act on a call: the backend (`svc`), the local process
(`client`: the agent itself on the host, a `docker exec` client otherwise), the
process that works (`remote`: `asked` of docker, `wrote` its PID file, `running`,
`gone`) and the files between them (`marker`, `pid`, `record`). `Spawn`, `Process`,
`Spawned` and `Cancel` are the shielded spawn: the process exists and works
(`Process`) before the task that made it runs again and records it (`Spawned`,
`Note`), and a cancellation between the two leaves the call `abandoned` until then.
`kids` says that the agent has started processes of its own, which end with a
container or a killed group but not with the agent (`LeaderEnds`). `Closes`,
`StopLooks`, `Signals` and `Kills` are the steps of stopping, which may raise: the
stop waits for the leader only, and the group is killed only if the leader has not
exited. `RemoteWrites` and `RemoteChecks` are the two commands of the wrapper script
whose order decides the race. `Inspect` to `Undo` are the preparation of a
container. `ReleaseContainer` removes it unless its owner is another
(`MayRemove`); on the host `ReapTakes` deletes one record after it read it,
`ReapKills` kills the group if its leader is the recorded process, and `Reaped` ends
the release. The backend may die between any two of these (`BackendDies`), and what
was not recorded yet, or whose record was just taken, is `missed`. `stopped`,
`raised`, `early`, `orphan`, `missed` and `headless` (an agent that ended before
processes it had started) are history, read by the properties only. Three
simplifications: the comparison of start times and the kill after it are one step
(what comes between them is one line of the code, but another process could get the
number there); removing a call's own files is assumed to succeed; and a record is
whole or not there.

**Collector.** `said` is what the CLI prints, `written` how much of it the rollout
file holds, `c` the collector's fields. `Reads`, `ReadsAgain` (Claude repeats lines
after a reconnect), `Ticks`, `Ends` and `TimesOut` are the loop of the adapters;
`Says`, `Records` and `Exits` are the CLI, external and free to stop anywhere,
also inside a record (`torn`). A text is prose, a milestone or a bare decision.
Codex's final event always has a text: where no source has one it is `MadeUp`, and
without a known status or a timeout nothing marks it as a failure.

**Workspaces.** `pc[r]` is the next durable step of a creation: the name is
reserved, the worktree added, artifacts staged, logs made, and then a directory is
reserved, moved into, described and indexed under the registry's lock. Each may
fail (`Fail`), the failure undoes what the code undoes, and `Die` may come between
any two. `tree` and `branch` say who made the worktree and branch of a name, which
is what a discard must respect. A `git worktree add -b` that fails may have made the
branch, and one that is killed by its timeout also the tree, and nobody discards
them (`Add`). `leaked` and `torn` are history: creations that ended without their
undo, and a descriptor written without its index.

**Naming.** `TicketAfter` is `prepare` with the commit or abort that follows the
turn's transaction, `Generated` the two names a ticket applies, `Drain` and
`Drained` the shutdown. Evaluations are creations in a thread (`Evaluate`) with a
turn after it (`EvaluationPrepared`), and the shutdown waits for both kinds. A
turn is only "running" or "ended" here: its inside is `TurnService`.

**Migration and Conversion.** `at[p]` is where a run of the managed startup is,
from reading its configuration to serving; `source`, `target`, `staged` and `snap`
abstract trees to the writes they hold and the state that is to be converted, so
that a copy made during a write is `Mixed`. `World` is everybody else: the legacy
service, a reboot with docker's restart policies, operators, an accepted outside
writer. `Conversion` has what is accepted (`Convertible`, which `Preflight` asks of
the state that it reads, with the mapping of its configuration) and what comes out
(`Homes`, `PlaceOf`, the rows). `HistoryKept` is the property: it collects a
session's files from where the source has them (`Places`), and asks that the home
which the target has for that role holds exactly those.

## 3. Runs

| Run | Instance | Shows |
|---|---|---|
| `turns_shared` | 2 conversations, 1 workspace, 2 turns (one with a callback), 2 events each, every write may fail | `WorkspaceExclusive`, `OneRunningTurn`, `HandlesMatchRows`, `QuietAfterEnd` |
| `turns_roles` | 1 conversation, either mode, 2 turns of 3 and 1 events, one with a callback | `TypeOK`, `DoneAndAnswerOnce`, `ResumeRoleUsable`, `StopResumesReadyRole`, `OutcomePrecedence` |
| `turns_live` | 2 conversations, 2 turns, fair event loop, silent agent | `StopEndsTurn`, `CloseCompletes`, `DeletionCompletes` |
| `backend` | 2 conversations with containers, 2 turns, strays, 2 crashes, fair recovery | one called agent per workspace and a row for each, strays released (`AgentsAccountedFor`), `ContextOfUnfinishedTurn`, `NothingLeftOver`, the ledger across crashes, `CrashedTurnSettled` |
| `driver` | every text with one object and selected texts with two, 3 delegations | `CallsBounded`, `RolesConfined`, `WorkReviewed`, refinement of `DriverContract` |
| `stream` | 1 reader that may return, 2 turns, an event and a job event, every write may fail, deletion, fair reader | `DeliveredInOrder`, `RaisesOnlyUnsettled`, `EventReachesReaders`, `StreamEnds` |
| `jobs` | 2 turns of 2 conversations, 2 directories, 3 jobs, crashes and edits unbounded | `IdentitiesAgree`, `RowsFollowJobs`, `ConflictOnlyAfterEdit`, `EndedTurnsFrozen` |
| `naming` | 2 competing creations (or an evaluation and a copy), 2 branch names, 1 conversation, a failure or crash anywhere, fair tasks | `CreationAllOrNothing`, `IndexFollows`, `ClosedIsQuiet`, `ChosenNamesStay`, `NamesFollowAnswers`, `TicketsEnd` |
| `runtime` | 2 calls one after the other on a host or in a container, agents with processes of their own, 2 containers, 3 faults | `StoppedStaysStopped`, `StrangersAreSpared` |
| `runtime_window` | 1 call, 1 fault | a violation: `EarlyExitIsNoWindow` does not hold (see below) |
| `collector` | calls of either CLI with 4 lines, new, resumed or forked sessions, any exit or timeout | `CallReportedTruly` |
| `migration` | 2 concurrent runs, 2 configurations (one maps not every family), 3 faults; 2 roles, 2 files, homes to be merged, in conflict and imported before | `NothingLost`, `SelectedKeepsHistory` |

**The divergence.** The comment on `PID_WRAPPER` (`runtime/execution.py:27-30`)
says that the client may exit before the shell has started and that the `.cancel`
check closes this window. It does so when the call was cancelled or timed out,
which is when the marker is written, and `runtime` shows it. When the client exits
by itself, the end of its output is taken for the end of the call, no marker is
written, and the shell that docker still starts becomes an agent in a workspace
that its turn has left. `runtime_window` is the behaviour.

**Why these bounds are enough.** The contended resource is a workspace, and two
tasks contend for it: two turns of different conversations, a turn and a
deletion, a turn and its successor; a third waiter only adds another order of
acquisition. Two turns of a conversation are what a stored resume role, a failed
finalization and a stale stream need. Three events are role_start, role_ready and
a second role_start, after which readiness is lost again; event histories only
differ by role and readiness. Two crashes put one inside the recovery of the
other. Three jobs over two directories give an older and a newer job of one
experiment and a third in a copy of the directory. Three delegations are one more
than the two rounds needed for a budget to be refilled twice. A branch name is
contended by two creations, and one failure in either reaches every undo while the
other is anywhere; a second failure adds undos that fail, which the property
exempts. A call and its successor share files and a container; three faults are a
command that fails, a client or backend that dies and a stranger. Four lines are a
session, a text, something after it and a completion, enough for each order of
stdout and rollout that the collector tells apart. A startup can be disturbed once
per stage it has to trust: three faults crash it and edit or touch something, in any
order. The three states are one for each thing a plan of homes decides: to merge, to
refuse, to import only once. The backend's instance has containers, where a release
must be complete; the theorems are about both kinds of workspace. The proof modules remove these bounds for the properties they cover.

**Deadlock** is not checked: ids are used once, events and faults are bounded, so
every instance stops when they are spent, as the real service does without
requests. What must not get stuck is stated as liveness.

**Symmetry** is used in safety runs only: over conversations in `turns_shared`,
over jobs and over paths in `jobs`, over the runs of the startup and two equal
configurations in `migration`.

**Fairness.** The event loop runs every ready task and timer: weak fairness of
the tasks' own steps. `asyncio.Lock` serves waiters in order, so a task that waits
is not overtaken for ever: strong fairness of `Acquire` and `RemoveAcquires`, whose
guard is false while another holds the lock. Closing a generator, an evaluation's
callback and a conversation's cleanup are assumed to return or raise (the code
bounds the process cleanup by timeouts). The supervisor restarts the process and
releases return: weak fairness of recovery. A connected reader asks for more.
`NamingFairness`: naming tasks and worker threads finish (the model call and Git
have timeouts), and a service that is stopping ends its turns, which is
`CloseCompletes` of `TurnService`. No fairness is assumed of users, agents or the
driver: a turn may run for ever unless it is stopped, so `DeletionCompletes` allows
being held up by another conversation's turn, which is what the code does. Nowhere
is a crash, a failure or a Stop forced to happen.

## 4. Proofs

Every invariant and every action property that a run checks is proved; the rest are
liveness properties. Assumptions: `ConstantsAssumption` (ids are distinct, each
conversation has a workspace, the modes are the two there are) and one for each
other module: `BackendAssumption`, `DriverAssumption`, `ReadersAssumption`,
`JobsAssumption`, `WorkspacesAssumption`, `NamingAssumption`, `RuntimeAssumption`,
`CollectorAssumption` and `MigrationAssumption`. They say which constants are
numbers, that the values standing for "nothing", "unreadable" and "a user's" are no
ids, rows or descriptors, where plans and histories begin, and that there is a legacy
state. None bounds a set or
a number of actors.

`TurnServiceProofs`, failing writes or not:

- `InvariantHolds`: `TypeOK /\ Consistent` is invariant. The properties are not
  inductive alone. That one task is in a workspace needs the lock to name exactly
  the tasks inside (`LockConsistent`); that a start does not find a second
  unfinished row needs `_active` to be the live task of its conversation
  (`ActiveConsistent`) and `HandlesMatchRows`; that nothing survives a deletion
  needs that a deletion past its wait has no registered task
  (`DeletionConsistent`); that close leaves nothing needs `ClosedConsistent`.
  `RowsConsistent` ties ids to rows. The step is one lemma per kind of action:
  those that enter, stay in and leave the lock share `EnterStep`, `InsideStep`
  and `LeaveStep`.
- `TypeCorrect`, `WorkspaceIsExclusive`, `TurnsAreSerial`, `TasksAndRowsAgree` and
  `EndIsQuiet` follow from it.

The second half of the module, about outcomes, rests on that invariant:

- `ServiceKeepsLedger`: every step of the service is a step of `TurnLedger` on its
  tables, or a stutter. What the ledger promises is then proved of the ledger, once:
  `TurnsAreSettledOnce` uses that it opens a turn without events and settles a
  running one.
- `ResumeRoleIsUsable` needs `RolesConsistent`: the role a task has, and the one a
  Stop was sent with, belong to the mode of its conversation, which is frozen once
  it has history.
- `OutcomesHavePrecedence` and `StopsResumeReadyRoles` are proved step by step. The
  first needs `FatesPlaced`: nothing but a failed result can be wrong before the
  callback runs, so that whatever else is wrong at the end passes `CleanupDone`. The
  second assumes that no write raises: the handle is marked ready before the event
  is recorded, so when that append raises, a Stop can leave a role to be resumed
  whose readiness was never recorded.

`BackendProofs`: `BackendInvariant` across any number of crashes. The service
invariant alone does not survive a crash, since it says that a running row has a
task. `BackendInv` therefore has two halves: while requests are served, the service
invariant and `CallsOwnResources` (a called agent and a context file belong to the
task that made them); before that, an idle process whose unfinished rows, still
ahead of recovery (`RecoveryCovers`), account for every such agent and context. A
stray may be anywhere but where a container was released (`StraysReleased`). From it
follow
`AgentsAreAccountedFor`, `ContextsAreOfUnfinishedTurns`, `NothingIsLeftOver`,
`LedgerIsKept` and `SettledOnceAcrossCrashes`.

`DriverProofs`, for any set of texts and any `MaxDelegations`:

- `FirstEnvelopeSteers` and `FirstEnvelopeReports` are about the parsers alone, for
  every text: no candidate reads as two decisions, so the first readable one decides,
  and only a text without any is repaired (orchestrator) or taken as it is
  (implementer).
- `DriverInvariant`: types, `CallsSpent` and `TasksPlaced`. `CallsBounded` is not
  inductive because a refilled budget is paid for by the round that just ended;
  `CallsSpent` counts what the current stretch has used, `TasksPlaced` says where
  the tasks taken on so far are, which is also what `WorkReviewed` needs.
- `CallsAreBounded`, `RolesAreConfined`, `WorkIsReviewed`, and `ContractKept`: every
  step of the driver is a step of `DriverContract` or a stutter.

The second half of `BackendProofs`, for any readers, turns, events and job events,
is about `EventStream`: `StreamInv` says that what a reader has sent and still holds are the first events of its turn
(`Follows`), that one which saw the task finished before its last read holds all of
them, and that one without a handle reads a task that has ended. It needs from the
service only that an ended task stays ended and records nothing more (`Kept`), and
that tables grow by appending, which comes from the ledger (`GrownTables`).
`EventsAreDeliveredInOrder` and `ErrorsAreOfUnsettledTurns` follow.

`ManagedJobsProofs`, for any jobs, paths, crashes, failures and edits: `JobsInv`
says of each durable step what is true then. Ids are fresh until they are published
(`CallKnown`); what a registration has read still holds unless the directory was
edited (`CallTrue`); metadata in a directory nobody copied names a registration of
this path (`UncopiedTrue`, `SettledTrue`). From it follow `MetadataAndTablesAgree`,
`ExperimentsFollowJobs`, `CrashesLeaveNoConflict` and `EndedTurnsKeepTheirJobs`.

`MigrationProofs`, for any number of runs, configurations, writes and faults:
`MigrationInv` has types, `TargetExists` (a target is a directory with an identity),
`RecordTrue` (a selection is true of the directory it names, and the legacy service
is stopped for good) and `RunsFit` (what a run found out stays true while it holds
the source's lock). `MigrationLosesNothing` follows. `SelectionKeepsHistory`, for all legacy states and
mappings, takes the lemma `ConversionKeepsHistory`, that a conversion which is
accepted keeps histories, and `ConversionInv`, which carries the acceptance from the
state that `Preflight` read, through the copy, to the target and the configuration
that are recorded.

`RuntimeProofs`, for any number of calls, containers, faults and crashes:
`RuntimeInv` says of each call how the four places that act on it agree
(`CallInv`): what the backend has not spawned does not work, what it is attached to
was asked for, and an agent works without its client only in a container, when the
client has died by itself or the backend has let go of the call.
`StoppedStaysStopped` is not inductive because a Stop that looks before the shell has
written its PID file finds nothing. What closes that race is in `ContainerInv`: the
marker is written before the PID file is looked for, so when the backend lets go of
the call, whatever still starts will find it (`Stops`). On a host (`HostInv`) the
client is the agent. One that works is being spawned, has a record, has its record
in the reaper's hand (`Recorded`), or is one of the stated exceptions: that is what a
backend that dies between spawn and record, or inside the reaper, has to keep. Its
processes live with it or after it (`headless`). `StopIsFinal` follows.
`StrangersSurvive` is proved step by step: a preparation acts on the id it saw, which
is never a stranger's (`PreparesOurs`), a release asks for the owner, and a number
that is reused belongs to an agent that is gone, so that the start times differ.

`NamingProofs`, for any requests, names, conversations, evaluations and failures.
`CreationInv` says what a creation owns at each of its steps: who holds the
registry's lock, which worktree and branch are its own, what its directory holds.
That two creations never get one worktree follows from saying it of the owner: what
`tree` and `branch` name `r` is `r`'s picked name (and is gone after a failure
unless leaked). `IndexInv` compares the index with the descriptors that it was
written from (`Settled`), not with those there are: between the write of a
descriptor and that of the index they differ by the one being indexed.
`NamingInv` adds what conversations, tickets and evaluations rely on: a
conversation's workspace is published for good (`Published`), a ready ticket has an
answer, an unfinished creation of an evaluation has its task. From it follow
`CreationIsAtomic`, `IndexIsProjection`, `ClosedMeansQuiet`, `UsersNamesStay` and
`GeneratedNamesHaveAnswers`.

`CollectorProofs`, for calls and rollouts of any length: `CallIsReportedTruly`. The
answer of Codex comes from three fields that are filled in any order, from two
sources. `Knows` says of the collector after every line and poll that each of
them is a text of this call (only the rollout of the announced session can hold
any, and only after `Before`, what earlier calls left there), that a role with one
was announced, and that a completion that was read is the terminal text. The
last needs `SaidInv`: a completion is the last line and repeats the last text.
A text is made up only where no line was an answer, which `ReadInv` says of the lines
read so far. `Heard` is the same for Claude, which counts lines it has seen: nothing
is shown more often than it was seen (`Saw`), and a repeated line is not counted
again.

What proving changed in the model: `FromClaude` and `ClaudeFailure` were `CASE`s with
overlapping guards, which TLC evaluates in order and the logic leaves open; they are
`IF`s now, as in the code. The collector's folds over sequences became sets of
indices and a count per message, since the order of what is shown is of no property
here and induction over data is out of the provers' reach. `NamingAssumption` and
`WorkspacesAssumption` say what TLC's values satisfied silently: "nothing" is
neither a row nor a descriptor.

Only model-checked: `StopEndsTurn`, `CloseCompletes`, `DeletionCompletes`,
`CrashedTurnSettled`, `EventReachesReaders`, `StreamEnds` and `TicketsEnd`, which are
liveness under fairness and need `ENABLED`, both out of the prover's reach; and the
violation of `EarlyExitIsNoWindow`, for which the run's behaviour is the proof.

## 5. Left out, and why

- Texts, metadata, citations, activity, logging and layout: no property reads them.
- Sessions: saved per role and scope; a lost session only starts a fresh one.
- Identifier uniqueness: uuid4 is modelled as fresh.
- Time: idle timeouts, the forced cancel and the signals' grace periods may expire
  at any moment; the expiry and renewal of capability tokens is left out, since a
  callback may be refused at any moment in `ManagedJobs`.
- `TurnService._run` raising `KeyError` for a conversation that vanished: a
  deletion waits for the turn, and the invariant proves the row is there.
- A second backend process: `flock` excludes it; its start is the `down` phase.
- Jobs left in a non-final status when a turn ends: the code allows it.
- stdin, line framing and the stderr task of `runtime/process.py`; mounts,
  permissions and the text of commands: input and output without a decision.
- The capture of a tmux deployment is one step of `Migration` (`Audit`): the
  inspection of its panes and processes is left out, what `quiesce` does with the
  result is modelled. `rehearsal_repository.py` is left out: external commands for
  one operator, nothing concurrent.
- Everything listed as `not_modelled` in `PROJECT.json`, with its reason there.

Met while modelling, and left as the properties' stated exceptions:

- A managed workspace of an earlier version gets its repository on first use. If
  the process dies while the staged copy is moved, the part that was moved is taken
  for the repository afterwards (`part` in `Workspaces`).
- A worktree whose logs directory cannot be made, and what a `git worktree add` has
  made before it failed or was killed, is not discarded (`leaked`).
- An agent whose stop raised, or whose docker client exited early, works on beside
  the next turn of its workspace. Recovery goes by running rows: it does not look
  for an agent of a turn that has been settled (`stray` in `Backend`).
- On a host, processes that outlive their agent are never killed
  (`runtime/host.py:158-161` says why), and a group is lost for the reaper when the
  backend dies before it is recorded or after its record was deleted (`missed`).
- A write of `registry.json` that fails after its descriptor was written leaves the
  index stale until the next write (`torn`).
- When Codex leaves no readable rollout, unphased text that stays pending is the
  answer even if a text with phase final_answer came before it
  (`providers/codex/collector.py:205-211`, `FinalText` in `Collector`).

## 6. Plan

Done, in this order: `TurnLedger`, `TurnService` and its proofs, `Backend`, `Driver`
with its contract and proofs, `EventStream`, `ManagedJobs`; then `Workspaces` and
`Naming`, `Runtime`, `Collector`, `Conversion` and `Migration`, and the proofs about
outcomes, crashes, streams, jobs and the migration; then the proofs about the
runtime, the registry, naming and the collector.

Next, most important first:

1. `Runtime` as an implementation of the one-step release of `Backend`, with the
   divergence above as the case in which it is not one.
2. Sessions and their scopes, with the choice between resuming and starting afresh.
