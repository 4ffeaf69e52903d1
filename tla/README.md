# Verification of k3code's orchestration core

k3apps packages *k3code*, a server that runs coding agents on behalf of web and
desktop clients (`src/packages/k3code/upstream`). This directory holds TLA+ models of
the parts of that server that carry its state: what may be written, in which order,
and what is left of it after a failure, a retry or a restart. TLC checks the models on
small instances; TLAPS proves some of their properties for instances of any size.

Paths below are relative to `src/packages/k3code/upstream`; `S/` stands for
`apps/server/src/`.

## The system

    clients ──WebSocket──> ws.ts ──dispatch──> OrchestrationEngine ──append──> event store   (SQLite)
       ^                                        │   decider              ├──> projections   (SQLite)
       │                                        │   projector (model)    └──> receipts      (SQLite)
       └─snapshot + stream── ws.ts <──eventPubSub (hot stream)
                                                │
                   reactors: ProviderCommandReactor, ProviderRuntimeIngestion,
                             CheckpointReactor, ThreadDeletionReactor ──dispatch──> engine
                                                │
                             ProviderService ── adapters ── agent processes
                             CheckpointStore ── git refs

| component | state it keeps | operations | who it talks to |
|---|---|---|---|
| OrchestrationEngine | command queue, in-memory read model, hot stream | `dispatch`, the worker, reconciliation | decider, projector, store, projections, receipts; every client and reactor calls it |
| decider, commandInvariants | none | `decideOrchestrationCommand`, `decideCommandSequence` | pure, on the in-memory model |
| projector | none (folds into the model) | `projectEvent` | pure |
| event store, command receipts | SQLite tables | `append`, `readFromSequence`; `upsert`, `getByCommandId` | the engine, the pipeline |
| ProjectionPipeline | projection tables, a cursor per projector | `bootstrap`, `projectEvent` | event store |
| ProjectionSnapshotQuery | none | snapshots, `getCommandReadModel` | projection tables |
| KeyedCoalescingWorker | pending value per key, queued and active keys, queue | `enqueue`, `drainKey`, the worker | the terminal manager |
| DrainableWorker | queue, count of outstanding items | `enqueue`, `drain`, the worker | all four reactors |
| ProviderRuntimeIngestion | buffered texts, caches per turn | provider events to commands | engine, projections |
| CheckpointReactor | none of its own | baseline, capture, revert | engine, git, provider |
| ProviderCommandReactor | handled-turn cache, session settings per thread | sends turns, interrupts, answers | provider service, engine |
| ProviderService, directory, reaper | bindings of threads to sessions | start, send, stop, sweep | adapters, SQLite |
| ws.ts, serverRuntimeStartup.ts, orchestration/http.ts | subscriptions, command gate | dispatch, subscribe; the HTTP route dispatches past the gate | engine, snapshots |
| terminal Manager | PTY sessions and histories | open, write, close, persist | KeyedCoalescingWorker |
| auth, git/VCS status, settings, text generation, telemetry | small caches and files | see `PROJECT.json` | |

Two kinds of concurrency make this code hard. Inside the process every component is a
fiber over its own queue, and whatever it reads may have changed when it dispatches what
it concluded. And the process as a whole may stop between any two steps: the SQLite
store survives, the queue, the model and the hot stream do not.

What makes each component correct:

- **engine**: a command takes effect completely or not at all, once, on the current
  state, whatever is retried, fails or crashes; callers are told the truth; committed
  events are published once and in order.
- **decider, projector**: nothing is created twice, a deletion leaves nothing active
  behind, the two projections agree on what decisions depend on.
- **pipeline**: after every start the tables are what live projection would have made
  them; no projector sees an event twice or misses one.
- **workers**: the bookkeeping agrees with the queue, nothing enqueued is lost, `drain`
  returns when, and only when, everything before it has been processed.
- **reactors**: a turn's captured checkpoint stays; a revert ends with files, provider and
  read model at the same turn.
- **provider sessions**: a requested turn is sent or reported as failed; the projected session
  tells what is at work, in which mode; a stopped thread has nothing at work; a turn reported as
  started ends; a request for permission that waits can be answered.
- **subscriptions, gate**: a client that has caught up shows what is stored and never goes
  back; commands held back at startup all end; a thread made for a turn gets it or goes again.
- **terminals**: no shell is lost, its exit is noticed, and its transcript survives in a file.

`PROJECT.json` lists, under `hazards`, where each of these can go wrong, line by line, and
the properties that would show it.

## Modules

| module | models | built on |
|---|---|---|
| `CommandModel` | `decider.ts`, `commandInvariants.ts`, `projector.ts`, and of `ProjectionPipeline.ts` the live projection, on the view decisions depend on | |
| `OrchestrationEngine` | `OrchestrationEngine.ts` over the event store and the receipts, with faults, crashes and restarts | `CommandModel` |
| `CommandLog` | what the engine promises, with no queue, transaction, receipt or crash, for any decider and projection | |
| `MCOrchestrationEngine` | instances: command sets for TLC | `OrchestrationEngine` |
| `OrchestrationEngineProofs` | theorems | `OrchestrationEngine`, `CommandLog` |
| `ProjectionBootstrap` | `ProjectionPipeline.ts` at startup and after, with its cursors | |
| `MCProjectionBootstrap` | instances | `ProjectionBootstrap` |
| `ProjectionBootstrapProofs` | theorems | `ProjectionBootstrap` |
| `KeyedCoalescingWorker` | `packages/shared/src/KeyedCoalescingWorker.ts` | |
| `DrainableWorker` | `packages/shared/src/DrainableWorker.ts` | |
| `WorkersProofs` | theorems about both workers | `KeyedCoalescingWorker`, `DrainableWorker` |
| `TurnCheckpoints` | `CheckpointReactor.ts`; of `ProviderRuntimeIngestion.ts` the turn lifecycle and the placeholders; the checkpoints in the turn projection; the git refs | |
| `TurnCheckpointsProofs` | theorems | `TurnCheckpoints` |
| `ProviderSessions` | `ProviderCommandReactor.ts`, `ThreadDeletionReactor.ts`, `ProviderSessionReaper.ts` over `ProviderService.ts` and its directory; of `ProviderRuntimeIngestion.ts` the projected session | |
| `ProviderSessionsProofs` | theorems | `ProviderSessions` |
| `ClaudeSession`, `ClaudeSessionProofs` | the sessions, turns and requests of `ClaudeAdapter.ts`; theorems | |
| `CommandGate` | the gate of `serverRuntimeStartup.ts`, `dispatchCommand` of `ws.ts` with the bootstrap of a turn, the dispatch route of `orchestration/http.ts`, and what the server dispatches by itself | |
| `ClientSync`, `MCClientSync`, `ClientSyncProofs` | `subscribeShell` of `ws.ts` and the web client that follows it; an instance; theorems | `CommandGate` |
| `TerminalSessions`, `TerminalSessionsProofs` | `terminal/Layers/Manager.ts`; theorems | what `KeyedCoalescingWorker` shows |

The modules join where the code does. `OrchestrationEngine` is shown to implement `CommandLog`,
a log to which each command adds its events in one step; the engine inside `CommandGate`
is such a log, and `ClientSync` runs on its events. `ProviderSessions` takes an adapter's `startSession` and
`sendTurn` in two steps each, before and after they wait for the agent, and its other calls in one; `ClaudeSession` opens
the adapter up further. `TurnCheckpoints` and
the reactors in `ProviderSessions` run on a worker that handles one input after the other, which is
`DrainableWorker`, and `TerminalSessions` has its files written by what `KeyedCoalescingWorker`
guarantees: one key at a time, always the latest value, and a drain that waits for both.

Definitions named `...Bug` stand for plausible mistakes in the definition that follows
them. Nothing uses them; put in the place of the original, each one violates the property
`PROJECT.json` pairs it with, which shows that the property depends on that definition.

### CommandModel

A *view* maps projects to absent, live or deleted and threads to a record of project,
archived and deleted marks, runtime mode, proposed plans and checkpoints: the fields of
`OrchestrationReadModel` that some decision reads, and those that decide how such a field
changes. Titles, messages, activities, sessions and timestamps reach no decision and are
left out; the eleven commands that touch only those are `PlainCommands`, with the
event each is decided into. `Accepts` is the conjunction of the `require...` calls of a
command, `EventsOf` the events it returns. `ProjectInMemory` and `ProjectInSql` are the two
projections, apart where the code is: on checkpoints, and on rows that outlive a thread
that is created again. `ViewsAlong` are the views a log leads to, event after event, and `Replay` the last
of them; what the tables should hold is defined by them. `TurnCounts` bounds the turn counts of checkpoints, which the code
leaves to any natural number.

### OrchestrationEngine

| state | code |
|---|---|
| `log`, `receipts`, `sql` | tables `orchestration_events`, `orchestration_command_receipts`, `projection_*` |
| `queue`, `reply` | `commandQueue` and the `Deferred` of every envelope |
| `pc`, `cur`, `startSeq`, `answer` | where `processEnvelope` is, its envelope, `dispatchStartSequence`, its exit |
| `model`, `seq` | `commandReadModel` and its `snapshotSequence` |
| `tx` | the open transaction, invisible to everybody else until `Commit` |
| `published` | the sequences `eventPubSub` has published since the server started |

`Take`, `KnownCommand`/`NewCommand`, `Decide`/`Refuse`, `AppendEvent` (one turn of the
loop over the events), `Commit`, `Publish`, `Reply` are `processEnvelope` from top to
bottom. A failure goes through `Reconcile`, `CatchUp` (one event), `PublishMissed`, and
for a refused command `RecordRejection`. Storage faults are actions of their own, each
allowed by the constant `Faults`: reading the receipt (`LookupFails`), a statement of the
transaction (`TxFails`), COMMIT itself with the transaction in the store nevertheless
(`CommitUncertain`, the case reconciliation is written for), the re-read of the
reconciliation (`ReconcileFails`) and the receipt of a rejection (`RejectionLost`). `Crash`
loses everything volatile; `Boot` loads the model with `getCommandReadModel`.

A caller's retry is a second attempt with the same command id, since the id is what the
receipt is kept under.

### ProjectionBootstrap

Three projectors that depend on one another: proposed plans (pruned by a revert according
to the turn rows; messages and activities are pruned alike), turns with their checkpoints,
and the thread's latest turn. `pc` walks the list of projectors, each replaying its stream
(`ReplayEvent`, until `StreamEnds`) before the next starts (`NextProjector`); then the
engine commits events (`CommitEvent`), and the server may stop anywhere (`Restart`). The
initial states are the databases a start can find: an up-to-date one, one written before
the plan projection existed (migration 013), one from before all projections (migration 005).

### The workers

Every `Effect.tx` is one action, and everything done outside one is another: `Take` and
the transaction that claims the key, the transaction of `cleanupFailedKey` and its offer
to the queue, taking an item and counting it off. A value of `KeyedCoalescingWorker` is its
generation (how many enqueues its key had seen); `merge` keeps the later one, as the
terminal manager's does.

### TurnCheckpoints

| state | code |
|---|---|
| `checkpoints` | rows of the turn projection that have a turn count |
| `active` | `session.activeTurnId` in the read model |
| `ingest`, `runtime`, `domain` | what waits for `ProviderRuntimeIngestion` (provider events) and for `CheckpointReactor` (provider events, events of the engine) |
| `placeholder`, `job` | what the handler at work has concluded from what it read, and has not yet dispatched or done |
| `refs` | git refs of the thread by turn count: the files in them, and the turn they were captured for |
| `files`, `conversation`, `live`, `edits` | the workspace, the turns the provider remembers, the turn the agent works on and how often it changed files |
| `sent`, `pending`, `reverts` | what the user has asked for |

`IngestStarted`, `IngestCompleted` and `IngestDiff` handle a provider event; `IngestDiff` reads
the projected checkpoints, and `RecordPlaceholder` is the command it dispatches, later.
`TakeRuntime` and `TakeDomain` start the reactor on its next input, from either of the two
streams its queue merges, and `JobFor` is what the handler concludes from the read model of that
moment: capture a baseline, capture a turn (from `turn.completed` or from the placeholder's
event), take the thread back, or nothing. `CaptureBaseline`; `CaptureTurn` then
`RecordCheckpoint`; `Restore`, `Rollback`, `DeleteRefs`, `CompleteRevert` are the steps of those
jobs, and `StepFails` is the failure of one, after which the reactor goes on to its next input. The
agent (`TurnBegins`, `Edit`, `TurnEnds`) and the user (`Send`, `RequestRevert`, guarded as in
`ChatView.tsx`) are the environment.

`patient` is chosen at the start. In a patient behaviour the user sends and reverts only when
nothing is left to handle (`Quiet`), and the agent changes files only after its baseline has been
captured; that the three copies of the history agree is claimed of those. In the others nobody
waits, and what is claimed there is that refs, rows and placeholders stay in order. Neither kind of waiting
is enforced by the code (see the hazard at `CheckpointReactor.ts:568`).

### ProviderSessions

One thread, seen from everything that starts, sends to and stops its sessions.

| state | code |
|---|---|
| `alive`, `mode`, `session` | the thread in the read model, and its projected session |
| `queue`, `chosen` | the reactor's worker, and `threadModelSelections` |
| `calls` | how far the reactor, the deletion reactor, the reaper and each forked `sendTurn` are in `ProviderService` |
| `live`, `orphans` | of each provider instance, the adapter's session, and sessions over which another was entered while both started; a session has its active turn (`context.turnState`) and the `sends` that hold it |
| `binding` | the row of the session directory |
| `events`, `ingest` | what each instance's adapter has reported, a stream per instance, and the event ingestion works on with the session it has read |

`sendTurn` of the adapter is split where `ClaudeAdapter.ts:3064-3093` waits: `SendBegins` looks the session up and
completes its turn, `Deliver` starts the new turn in the session that it holds, whatever has become of that session: it may have
been stopped, replaced or left by its process, or have begun a turn of the agent's own (`OwnTurn`, numbered above `MaxTurns`).
`DeliveryFails` is an error in the wait or after the turn was started. `raced` observes the turns that `Deliver`
overwrites and those that it starts in a session that is over; nobody reports the end of these. The turns of agents' own (`MaxOwn`)
count as two inputs each.

A caller moves one step at a time (`Call`), from what it reads to the adapter's call to
what it writes; `StartFails` and the failing sends are the faults of an adapter, `SessionExits` is an agent that ends,
`Restart` a server that goes down, with or without its finalizers. The directory's upsert is one
step. A new session's starter then stops the sessions of the other instances, one adapter after the
other (`StopStale`; `stale` is what is left to look at), and only then writes the binding. `switched`
observes that a session was started on another instance than the binding's; `RunningIsShown` and
`StoppedIsStopped` except that case, see Findings. `patient` is as in `TurnCheckpoints`: the user asks for nothing before everything is handled,
which the last three properties assume. `IdleTime` is the half hour after which the reaper sweeps; it passes
only when nothing else is left to do.

### ClaudeSession

`startSession`, `sendTurn` and `stopSession` run in fibers that do not wait for each other. `stage` and `stopper` say how
far each session is with starting and stopping, and by whom it is stopped; `entry` is the
adapter's map; `turn` is `context.turnState`; `sends` is how far each `sendTurn` is; `requests` are
the pending approvals and questions. The agent answers prompts in order (`Result`), may report on work in the
background, which starts a turn of its own, and asks for permission. `raced`, `overlapped` and
`late` are observations: they mark what happens in one of the races described below.

### CommandGate and ClientSync

Most commands come over a socket and pass the gate. `Posts` are sent to `POST /api/orchestration/dispatch`, which dispatches them in
any state of the gate (`Post`). `ServerWrites` is what the server dispatches itself, before it is ready too: the thread of the
automatic bootstrap, and what reactors and ingestion write of threads there are. (`cli.ts` posts there when a server
runs, and has an engine of its own when none does.)

`gate`, `held`, `worker` are `commandReadinessState` (with `commandReady`), `commandQueue` and what its
worker runs; `call` is how far each client's command is: held, creating its thread, making a worktree, noting it,
sending the turn, cleaning up, ended in one of five ways. `log` and `published` are the engine. Every step
of a call may fail, and a client may go away, which interrupts its call unless the gate runs it.
A command's creation and turn carry the client's time, other events the server's, which
increases with every event; what was stored before the server started has time 0.

A subscription takes its `snap`shot, has it acknowledged, then passes on published events from
`next` on, each as the row is at that moment. `shown` and `applied` are the client's store and the version
it compares with. `LoseConnection` loses the connection with whatever was on the way. `missed` and `skipped` are observations.

### TerminalSessions

| state | code |
|---|---|
| `sessions`, `session`, `recent` | the manager's map, the session objects (a fiber or a call may hold one that is in the map no more), and the order of `updatedAt` |
| `process`, `killing` | the PTY processes, and kill escalations |
| `fiber` | the fibers that run `drainProcessEvents` |
| `call` | the call that holds a terminal's lock, at the place where it waits |
| `file`, `queued`, `writing` | transcript files and the persist worker |

A call is as many actions as it has places to wait: for the worker's drain
(`Opened`, `Renewed`, `ClearEnds`, `Closed`), for the shell (`Spawned`, `SpawnFails`), and there it may be
interrupted. A fiber takes an event, changes the session, and hands the transcript over in a later step
(`TakeOutput`, `PersistOutput`) or evicts (`TakeExit`, `EvictAfterExit`). An output is a number, a
transcript their sequence. `kept` is what a terminal without a session showed last; `stale`, `dropped` and
`displaced` mark the races described below.

## Runs

| run | instance | what it shows |
|---|---|---|
| `engine_lifecycle` | project, thread, runtime mode, turn, forced deletion; the thread's creation sent twice; one fault of `lookup`, `tx`, `commit`; one crash; at most one more call waiting (`ShortQueue`) | The projected tables are the log's (`ProjectionIsLog`), the model is current whenever a command is decided (`ModelIsCurrent`), subscribers see the log (`PublishedIsLog`), replies stay true (`RepliesAreTrue`), a turn starts in its thread's mode (`TurnStartsInCurrentMode`). The engine implements `CommandLog` (`ImplementsCommandLog`). |
| `engine_threads` | thirteen commands on two threads; project and threads first, then any four of the others in any order; no fault | While the server runs, plans in memory are those in the store (`PlansAreCurrent`), and a deleted project has no active thread left (`DeletedProjectIsEmpty`). |
| `engine_restart` | a plan of a captured turn, a revert that keeps it, a crash, a turn that starts from it | **Violation** of `RefusedPlanIsAbsent`, see below. |
| `engine_faults` | project, thread twice, turn; two faults of all five kinds; one crash; fair | Even when reconciliation fails, commands are atomic (`CommandsAreAtomic`), and nothing is published twice or out of order (`NeverPublishedTwice`); every call of `dispatch` ends (`EveryCallIsAnswered`); what is committed is published (`CommittedIsPublished`). |
| `bootstrap_upgrade` | every log of up to four events of eight kinds, one read of at most three, one crash | No projector sees an event twice or out of order (`NeverTwice`). When the old log fits into one read, turns and latest turn come out as live projection makes them, although the latest turn is replayed over the turn rows of the whole log; plans do when the old log holds no revert (`ReplayIsLive`). |
| `keyed_worker` | two keys, two drainers, three enqueues per key, failures anywhere; fair | The bookkeeping is exact (`QueueIsBookkeeping`), the last value of a key is never lost (`LatestNeverLost`), and `drainKey` returns (`DrainReturns`), and never early (`DrainKeyIsComplete`). |
| `drainable_worker` | two drainers, three items, failures anywhere; fair | `drain` never returns early (`DrainIsComplete`), and returns until a processor failure ends the worker (`DrainReturns`). |
| `checkpoints` | three turns, two reverts, an edit per turn, three failing steps of the reactor; in hasty behaviours two turns, one revert, no fault; fair workers | A row with a ref has the ref of its turn (`RefsAreCaptured`), and no placeholder stays for good (`PlaceholdersAreReplaced`), whoever of ingestion and reactor comes first; when the user waits for the server, rows and conversation agree count by count (`RowsAreConversation`) and files and refs have nothing of a turn given up (`WorkspaceIsOfConversation`). |
| `provider_sessions` | two instances, two modes, two turns; mode, stop, interrupt, delete; failing starts and sends, exits, one restart; one turn of an agent's own; four inputs and faults for a user who waits, two for one who does not | No turn is shown that nobody works on, but for those that `sendTurn` overwrites or starts in a session that is over (`NoPhantomTurn`); every requested turn is sent or reported (`TurnsAreAnswered`); for a user who waits, a requested turn at work is shown (`RunningIsShown`), the shown mode is the session's (`ShownModeIsReal`), and a stopped thread has nothing at work (`StoppedIsStopped`), the first and the last as long as the thread has not moved to another instance. |
| `claude_session` | three starts, two sends, one turn of the agent's own, one request | A turn reported as started is completed or still somebody's (`TurnsEnd`), an approval that waits can be answered (`ApprovalsCanBeAnswered`), no agent runs outside of the map (`NoneLeaks`). |
| `client_sync` | two of these: a bootstrap that creates a thread with a worktree, another command of a socket and one posted to the HTTP route, each of any kind on any thread, events that the server writes by itself; one failing step; two lost connections; fair | Nothing is written for a command of a socket before the server is ready or after it has failed to start (`OnlyWhenReady`), every call ends (`EveryCallEnds`), no bootstrap is left half done (`BootstrapIsWhole`); a client that has caught up shows what is stored (`ShownIsStored`), and never anything older than it showed (`NeverBack`). |
| `terminals` | two terminals, one inactive session retained, three sessions, two shells, two outputs, three calls, two fibers | No living shell is out of reach (`NoneAtLarge`), a terminal at rest has its transcript in its file (`TranscriptIsStored`), a dead shell's exit is waiting to be noticed (`DeathIsNoticed`). |

The exceptions that a property makes are listed under Findings.

### Why the bounds are enough

- *One crash, one or two faults.* Every fault leads through reconciliation back to the
  idle worker, and a restart reloads everything volatile, so faults interact only through
  `model`, `seq` and the store. Two faults are the least that leave the model behind the
  log (`commit`, then `reconcile`), and all pairs are checked. The theorems have no such bound.
- *Commands.* The set of each run contains what its properties tell apart: two creations
  of one thing, a multi-event command (turn start, forced deletion), one that changes what
  a later one copies (runtime mode), a refused one, a retried one. `ShortQueue` keeps at
  most one more call waiting: the order of arrival is the order of handling, so a longer
  queue reaches the same decisions later. `InOrder` and `Further` of `engine_threads`
  skip the orders in which a missing project or thread only makes commands fail;
  `engine_lifecycle` has those.
- *Bootstrap.* A difference between replay and live projection needs a turn, a plan of it and a
  revert; a fourth event gives a second turn or an event after the revert. One thread is
  enough, as no projector relates two here. `Limit` stands for 1000.
- *Workers.* Three enqueues per key are one in process, one pending and one that merges
  into it; two keys make the queue's order matter.
- *Checkpoints.* Three turns and two reverts give counts used again after a revert, and a revert
  to a count used twice. The outcomes `failed` and `interrupted` and the placeholders' own
  captures give all three statuses; `completed` differs from `failed` in the status only. Three failing
  baselines are what it takes for turn 0 to have no ref, which is when a revert falls back to
  HEAD. Hasty behaviours are many: two turns are enough for two fibers to take the same count,
  and one revert to meet a capture.
- *Provider sessions.* Two turns are the least for one to be overtaken by another; four inputs give
  every pair of requests around two others, of which some are faults. Two instances are the least for a thread
  to move, whose new session then reports on another stream than the one it leaves. Two inputs of a user who does
  not wait are a request and what overtakes it. One turn of an agent's own is enough to meet a `sendTurn` that waits; it counts as
  two inputs, so that up to two others meet it. The theorems have none of these bounds.
- *Claude.* A third start can meet the stop of the second while the first is still being stopped; two sends and
  one turn of the agent's own give every way to overwrite a turn.
- *Clients.* Two lost connections give a snapshot after a snapshot that was skipped. Two threads
  distinguish a row that is missed from a row that is shown; one of them is there from the start, and a third is the server's to
  create. Two inputs give every pair of ways to the engine, two held commands among them. The theorems have no such bound.
- *Terminals.* With one session retained, two terminals are the least for one to displace the other; a third
  session is a terminal opened again after eviction or close; two shells and two fibers are an old
  and a new one of the same session. The theorems have no such bound.

Runs of `Spec` disable TLC's deadlock check because the attempts, enqueues or events
are finite: when all are used up and handled the modelled system really has nothing left
to do. That nothing stops earlier is what the liveness properties say.

### Fairness

`engine_faults`: weak fairness of `WorkerStep`, because `Effect.forever` runs in a forked
fiber of the server's scope for as long as the server runs, and of `Boot`, because an
operator (or systemd) starts a server that is down. Clients need not dispatch, and faults
need not happen. `keyed_worker` and `drainable_worker`: weak fairness of the worker
fiber and of every waiting drainer's retried transaction. Nobody has to enqueue or to call `drain`.
`checkpoints`: weak fairness of `IngestStep` and of `ReactorStep`, each the worker fiber of a
`DrainableWorker`; neither user nor agent has to do anything. `client_sync`: the startup ends (it
succeeds or fails), the gate's worker, the engine's publication and each running call go on; no client
has to stay connected, subscribe or send anything. The other runs check no liveness: their
sessions wait for users and agents, who need not act.

## Findings

One run is expected to find a violation. **Plans lost by a restart** (`engine_restart`): the model
the engine starts with has no checkpoints (`S/orchestration/Layers/ProjectionSnapshotQuery.ts:1198`),
so the next `thread.reverted` drops every plan bound to a turn from it (`projector.ts:577-586`),
while the tables keep those of retained turns. A turn started from such a plan is then refused as
non-existent, and a rejection is recorded for good. `PROJECT.json` quotes what it departs from.

The other departures met while modelling are exceptions that a property names, so that the run shows
that nothing else goes wrong. Each is at its line under `hazards`.

- *Engine.* After an uncertain commit *and* a failed reconciliation the engine decides on a stale model
  until the next failure, and the missed events are never published once a later commit has moved
  `snapshotSequence` past them. When the receipt of a rejection cannot be written, a retry of a refused
  command may be accepted (the assumption of `RepliesTrue`).
- *Bootstrap.* The replay goes projector by projector, so plans are pruned by turn rows of another moment
  when the log has reverts (`ProjectionPipeline.ts:1463`); a projector more than 1000 events behind
  is not caught up, and the next live event hides its gap (`OrchestrationEventStore.ts:210`).
- *Checkpoints.* The placeholder of the first `turn.diff.updated` makes the reactor capture the workspace at
  once, as ready, while the agent is at work, and `turn.completed` then captures nothing
  (`CheckpointReactor.ts:346`). A placeholder dispatched after a capture replaces the
  captured row until the reactor captures again. A late baseline has the first changes of its turn. A turn whose
  capture fails gets no row, so that the next one takes its count and a revert rolls back too few turns: `Faults` of the run leaves this out.
- *Provider sessions.* Ingestion may write back a session it read before the reactor bound a new one
  (`clobbered`), a turn that fails to start clears whichever turn is shown, a turn that `sendTurn` starts in a session that is
  over is shown for ever, a turn that it overwrites stays shown in the place of the new one, whose start ingestion
  drops as conflicting (`ClaudeAdapter.ts:3107`, `ProviderRuntimeIngestion.ts:1186`), and for a user who does not wait a forked
  `sendTurn` may start again what a stop or a deletion has just ended. When a thread moves to another
  instance, the session it leaves is stopped after the new one has started (`ProviderService.ts:580`), and its
  `session.exited` comes on a stream of its own: ingestion, which does not look where it comes from
  (`ProviderRuntimeIngestion.ts:1247`), may show the thread as stopped while the new session is at work.
  A stop that was routed before the move writes the binding of the instance the thread has left
  (`ProviderService.ts:817`). The run found both once it had a second instance; `switched` marks these behaviours.
- *Claude.* A `sendTurn` overwrites a turn that began while it waited for a change of mode
  (`ClaudeAdapter.ts:3107`); a stop deletes the map's entry of a session started while it waited
  (`:2466`); a stop cancels approvals but no questions.
- *Subscriptions.* An event published between the snapshot's read and the subscription is in neither
  (`ws.ts:699`), and so is one whose row cannot be read (`ws.ts:304`); a client that reconnects skips
  a snapshot of the same sequence whose time is not later (`service.ts:1088`); a snapshot that cannot be read
  ends the subscription for good (`wsTransport.ts:177`).
- *Gate.* A command posted to the HTTP route is dispatched before the server is ready and after it has failed to start
  (`orchestration/http.ts:82`), and so is what the server dispatches itself (`serverRuntimeStartup.ts:195`, `:215`, the
  reactors). A client that disconnects leaves its bootstrap where it is, and a failing cleanup is only
  logged (`ws.ts:495`).
- *Terminals.* An output persisted in a later step than it was taken may overwrite a transcript that was
  cleared or deleted meanwhile (`Manager.ts:1236`), and the deletion of a thread without a
  session does not wait for what is queued (`:1890`): `stale`. clear, and the fiber of an earlier process,
  discard events among which the exit may be (`:1784`, `:1164`): `dropped`. A session evicted
  while it is started runs on outside of the map (`:1131`): `displaced`.

## Proofs

`OrchestrationEngineProofs`, for any projects, threads, commands, attempts, faults and number
of crashes, from the assumptions named in the modules (threads are finite, command ids name
commands, attempts carry command ids):

- `SpecIInv`: the inductive invariant
  `IInv == Typed /\ AtWork /\ Staged /\ Undecided /\ CommandsAreAtomic`. `CommandsAreAtomic` is not
  inductive: that a commit adds one whole block needs `Staged` (the transaction holds the log as it was when
  it opened, then a prefix of the command's decision, and the rest is in `tx.todo`), that
  it adds the command's first block needs `Undecided` (a command being decided has no
  receipt, hence no event), and both need `AtWork` (which of `cur`, `tx` and `answer` are set at which
  `pc`). `Typed` adds to `TypeOK` that every event, stored or staged, came out of a
  decision (`Genuine`), without which its projection need not be a view.
- `TypeCorrect`, `Atomic`: `TypeOK`, `CommandsAreAtomic`; `Final`: the log is append-only and receipts are
  final, which no run checks.
- `RepliesTrue`: `RepliesAreTrue` when no rejection's receipt is lost. It adds that the answer the worker
  is about to give is true of the store, and that what was said stays so.
- `PublishedOnce`: `NeverPublishedTwice`, with all faults allowed. `Published` bounds what subscribers have got by
  where the model is and, while a command is handled, by where it started; a transaction starts where the log ends.
- `ProjectionFollowsLog`: `ProjectionIsLog`, with no condition. `Stored` says that the tables are the log
  replayed, and those of an open transaction the log as it is staged.
- `DecidesOnCurrent`, `TurnsInCurrentMode`, `NoOrphans`: `ModelIsCurrent`, `TurnStartsInCurrentMode`,
  `DeletedProjectIsEmpty`, by the invariant `Current`: the model agrees with the tables as of event `seq`, on all
  that decisions read but plans and checkpoints; `seq` is the end of the log whenever the worker may go on to another command; all turns and
  deletions in the log are `Sound`, and a transaction in progress carries out a decision made on the tables it
  extends (`Timely`). The last takes most work: each deletion of a forced `project.delete` is decided on what the
  earlier ones leave, which on the log means that a block empties its project thread by thread (`ActiveThreads` of each view
  is that of the one before less one).
- `PlansCurrent`: `PlansAreCurrent`, by `PlansFollow`: model and tables have the same plans, and the same
  checkpoints if reverts may come.
- `Implements`: the engine implements `CommandLog`. The view is the tables, an outcome is told by the receipts.
  A commit is `Accept` (its events are a decision on the tables: `Current`, `PlansFollow` and the block of
  the transaction), a recorded rejection is `Refuse`, and all else stutters, crashes included. `Planned` says of
  the command at work that its refusal still stands.

The last two kinds of results have hypotheses, each of them a case in which the statement is false:
`NeverStale` (`"commit" \notin Faults \/ "reconcile" \notin Faults`), since when a commit took effect although it
reported an error and reconciling fails too, the engine goes on with the model as it was; `PlansKept`, since
after a restart reverts prune other plans in memory than in the store (the finding), and so they do when a
placeholder's or a shared turn count made memory and store keep different checkpoints. For `Implements` it is enough that
no turn is started from a plan (`NoSources`), which is when plans reach decisions. The instances of the runs meet the hypotheses of
what they check; `engine_restart` shows that the second one is needed.

`ProjectionBootstrapProofs`, for any older log, live events, read limit and number of crashes: `SeenOnce`
(`NeverTwice`), because a cursor is the last sequence its projector applied; and `NoneSkipped`, that unless the old log
exceeds the limit every projector has applied all sequences up to its cursor, and is at the end of
the log when the server runs (no run checks it: `ReplayIsLive` checks what comes of it). The assumption is needed, see Findings.
`ReplayLive` is `ReplayIsLive`. Its invariant `LiveSoFar` compares the rows with those along the log (`RowsAlong`), each
projector at its own cursor: the turns always, the latest turn where no later event touches the turn rows any more (`Settled`),
because its replay runs over the turn rows of the whole log, the plans where no revert is replayed. `Grown` adds that
no projector is behind once the server has written an event.

What a fold over the log amounts to is proved without an induction theorem (those take an operator): rows and
views along a log are recursive functions of the event's number, and a property of all of them
holds because the set of numbers at which it fails has no least element (`UpTo`).

`WorkersProofs`, about the keyed worker, for any keys, drainers and bound:

- `Bookkeeping`: `QueueIsBookkeeping` by induction together with `ActiveIsWorker` and typing; the
  work is in two lemmas on sequences without duplicates under `Append` and `Tail`.
- `NothingLost`: `LatestNeverLost`, with `NoOrphanedValue` and the order of the
  generations (settled, in process, pending, issued).
- `DrainComplete`, `OrderKept`: the action property `DrainKeyIsComplete`, and that the values of a key are
  never processed back in time (no run checks it), from those invariants.

About the drainable worker, for any number of items and drainers: `DrainsAreComplete`, `DrainIsComplete` by
the invariant that the count is the queue and the item in process, and that every item enqueued is done,
queued or in the worker's hands.

`ProviderSessionsProofs`, for any instances, modes, commands, faults and bounds, is about all five invariants of the run.
`Typed` says at which places a caller may be with which request and what it holds there (`Fits`); most later steps
use it through lemmas that say what each action makes of its caller (`CallIs`, `ReactorIs`) and
of an instance (`InstanceStep`: nothing, a session that ceases and reports it, one that is entered, a turn that begins,
an event taken).

- `SpecTurnsAreAnswered` (`TurnsAreAnswered`), by `Attended`: a requested turn is in the queue, with the reactor or
  with its own fiber.
- `SpecNoPhantomTurn` (`NoPhantomTurn`), by `Accounted`: a turn that is shown, that ingestion has read or
  whose start is still to be ingested is at work, or its completion comes later in the stream of its instance, or
  it is in `raced`. Every step that ends a turn or a session reports what it ends (`AccountedEnds`, `AccountedStops`), whichever
  of stop, restart, exit, interrupt or next turn it is; only `Deliver` loses turns, and `raced` has
  those (`AccountedSent`).
  Neither of the two needs a user who waits.
- `SpecSerial`: for a user who waits, reactor and fibers work one at a time, and a session is entered where none is
  left. `SpecAtHome`: until the thread moves, sessions, reports and callers are all at the
  binding's instance. The next three rest on these.
- `SpecShownModeIsReal` (`ShownModeIsReal`), by `ModesFollow`: the modes of the session that is shown, of the binding, of
  the provider's session and of whoever recovers or stops one agree, but between the start of a session and its binding.
- `SpecStoppedIsStopped` (`StoppedIsStopped`), by `LiveIsShown`: the last that an instance with a session reports is not
  an exit, and when all is ingested the session is shown.
- `SpecRunningIsShown` (`RunningIsShown`), by `TurnIsShown`: the start of the turn at work is the last that its
  instance reports, or is being ingested, or is shown. It needs `Accounted`: ingestion drops a turn's start only for another
  turn that is shown, and by then that one is completed, be it requested or an agent's own.

The hypotheses of the last three are their own: that the user waits, that the server did not restart (not for
`StoppedIsStopped`), that ingestion has not overwritten what it had not read (for the modes), that the thread has not moved (for the other
two) and that no turn was reported as failed, overwritten or started in a session that was over (for `RunningIsShown`). Each is needed: TLC finds a behaviour
against the statement without it (some with one more input of a user who does not wait), and the Findings say what the code does there.

`ClaudeSessionProofs`, for any numbers of starts, sends, turns and requests. `TypeCorrect`; `TurnsAreEnded`
(`TurnsEnd`) is inductive with the facts that a session has a turn only while it lives and that turns are taken
by one session; `NothingLeaks` and `ApprovalsAreAnswerable` need that the session being replaced is the
one its starter stops, and that `overlapped` is set by the step that breaks this.

`ClientSyncProofs`, for any commands, threads, bootstraps, posted commands, initial log, writes of the server, faults and losses. `ServerIsSound` and
`ClientIsSound` are the inductive invariants of the two sides: `ServerInv` relates the place
of a call to what it has done (only what it has created is deleted again) and to the gate: what runs runs in a server that is ready, or was
posted. Each event in the log is of the command that wrote it, or of none (`ServerAppends`);
`ClientInv` bounds a client's rows, version and snapshot by what was published, and says of each thread
that what is shown is its row as of what the subscription has passed on, or that it is in `missed`. From them
`WritesWhenReady`, `BootstrapsAreWhole`, `CaughtUpIsStored` and `NothingGoesBack` (`OnlyWhenReady`, `BootstrapIsWhole`,
`ShownIsStored`, `NeverBack`).

`TurnCheckpointsProofs`, for any numbers of turns, reverts, edits and failing steps. The greatest count exists
(`MaxCountIsGreatest`) because every set of naturals has a least element, by the library's theorem on well-founded relations.

- `RefsStay` (`RefsAreCaptured`) holds whether anybody waits or not and whatever fails. In its invariant, `Held` names the only
  two moments at which a row may be without its ref, and `Concluded` says that what the reactor concluded stays true
  until it acts: no ref where it is about to capture a baseline, and only counts above the target where it deletes.
- `RowsMatch` (`RowsAreConversation`) is about patient behaviours and needs that captures do not fail. `Story` divides them
  into four phases, each with all that may wait or be at work in it: `Resting`, `Waiting` (a turn is sent), `Turning` (everything is
  about the latest turn, whose row is there or promised) and `Reverting` (rows up to the target, conversation cut or not yet).
- `WorkspaceMatches` (`WorkspaceIsOfConversation`) adds `Work`: the latest turn changes nothing before its baseline is settled, so
  that the ref of count 0 is empty; a ref is of its row's place only if it was captured for the turn there, although
  refs of forgotten turns are left over; a placeholder's replacement is on the way, so that a revert finds the ref of its target.

Without the assumption neither of the last two holds: a turn whose capture failed has no row, and the next one takes its count.

`TerminalSessionsProofs`, for any terminals, number of retained sessions and bounds. The inductive
invariant `Inv` has, besides the three properties: what the lock of a terminal keeps for the call that holds it
(`CallHolds`), what sessions and processes have of each other (`MapInv`), that a queue of events has its fiber
(`EventsAreDrained`), and that the last transcript handed to the persist worker is the one shown
(`HandedIsShown`), queued, being written or in the file. How eviction chooses plays no part: `Sheds` is what the
proofs use of it, that what leaves the map does not run and, if a call is to start it, is marked
as displaced. `Changes` and the lemmas about it treat the steps that change one session; `CallKeeps`, `FiberStepKeeps` and
`StillKeeps` put them together. The theorems are `TypeCorrect` (`TypeOK`, which no run lists), `NothingAtLarge`, `DeathsAreNoticed` and
`TranscriptsAreStored`.

Only model-checked: liveness (`DrainReturns`, `EveryCallIsAnswered`, `CommittedIsPublished`,
`PlaceholdersAreReplaced`, `EveryCallEnds`), which TLAPS cannot derive from fairness, and the violation of
`RefusedPlanIsAbsent`.

## Plan

Done: the engine with its pure core and its abstract specification, the bootstrap, the two workers, the
checkpoints of a thread, its provider sessions, the Claude adapter's sessions, the gate, the shell subscription and its client,
the terminals; theorems that state every safety property the passing runs check. Left, most important first:

1. Crashes and failed dispatches in `TurnCheckpoints`: the reactors' queues are volatile, and a
   revert that stops between the rollback and `thread.revert.complete` is requested again.
2. Thread details in `ClientSync`: streamed messages and activities, with their own stream and store.
3. The other adapters (Codex, ACP), and the VCS status cache.

## Not modelled

Most of the repository's lines are user interface, generated schemas and translations between
protocols; the models cover the parts that keep state other parts rely on.

- Provider adapters other than Claude's, `piSdkManager.ts`, and of the Claude adapter the translation of messages, resume
  cursors, text blocks and tools.
- The git commands behind a capture, a restore or a deletion of refs, which are one step each in
  `TurnCheckpoints`; checkpoint diffs; VCS status and source control. They run git and parse
  its output; their state is the repository.
- Of the checkpoint reactor and ingestion: sessions without a workspace, workspaces without git, failure
  activities, buffered assistant texts. The reactors' dispatches are taken as atomic, which the engine's runs justify.
- Of the provider side: answers to approvals and questions above the adapter, rollbacks, titles and branches, model
  options, provider instances that are rebuilt, two threads at once (they share nothing but the directory's table).
- Of the subscriptions: thread details, the order of the startup's phases, setup scripts of a bootstrap, the stops
  that follow an archive command.
- Of the terminals: a signal that cannot be sent (`Manager.ts:858`: a failing SIGTERM skips the SIGKILL), write and resize, the polling of subprocesses, the finalizer of the server, several terminals of
  one thread (close of all of them takes the same steps one by one), the files of older versions, file errors, the cutting and
  sanitizing of histories.
- Auth: pairing links and sessions are single SQL statements or single `Ref` updates.
- Settings, keybindings, workspace search, text generation, telemetry: file I/O.
- Messages, activities and titles in the engine's read models; pending approvals; attachment
  files and their removal; the caps of 200 proposed plans and 500 checkpoints in memory.
- The clients' user interface, drafts and stores beyond the rows of threads; contracts beyond the command and event
  types; packaging scripts.
- Time, but for the times that `ClientSync` compares and the half hour of the reaper.
