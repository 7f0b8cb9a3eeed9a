# Verification of claude-worker

TLA+ models of the parts of claude-worker where order, time and failure matter,
TLC configurations that check them on small instances, and TLAPS proofs that
hold for every value of the constants. Paths below are relative to the
repository root; `queue.ts` is `packages/queue/src/queue.ts`.

A check is `tlc -config <Run>.cfg <MC module>.tla`, a proof `tlapm <Proofs module>.tla`:

| Configurations | Module |
|---|---|
| `JobQueueSafety`, `JobQueueLive`, `JobQueueRemote` | `MCJobQueue` |
| `ParkGeneral`, `ParkSingle`, `ParkLostResult` | `MCSessionParking` |
| `SessionNotifier` | `MCSessionNotifier` |
| `SessionStream` | `MCSessionStream` |
| `ToolBridge` | `MCToolBridge` |
| `RestartGuard` | `MCRestartGuard` |
| `Gateway` | `MCGateway` |
| `PromptDocument` | `MCPromptDocument` |

Two conventions. A definition that directly precedes the one it resembles
(`PostUnchained` before `Post`) is a faulty variant of it that nothing uses: put
in its place it makes a property fail, which is how each property is known to be
able to. `PROJECT.json` names the pairs. It also maps every definition to the
lines it translates and lists, as hazards, what in this code a test hardly
reaches, each with the properties that cover it.

## The system

claude-worker runs agent sessions behind an HTTP and WebSocket server. A session
is driven by a *runner*: `SessionRunner` wraps the Claude Agent SDK,
`AiSdkRunner` talks to any model provider through the AI SDK. A *job queue* runs
sessions unattended. A session that waits for results that may take hours is
*parked*: its runner is thrown away, a snapshot kept, and a result rebuilds it.
Pages attach over WebSockets, follow the session's numbered events, answer its
questions and may execute its tool calls. The command line serves all of it
behind a key, and tells an operator whether it can be restarted.

| Component | State | Operations | Hard part | Correct when |
|---|---|---|---|---|
| Job queue (`queue.ts`, `adapter.ts`) | job records and daily token counters behind an adapter; maps of running and parked runs with their timers; `#pumping`, `#closed` | submit, cancel, close, pump/start, session events, kill, finalize, park, resume, sweep | every await is a point where anything can happen; timers race results; a queue has to wake itself | records and live runs agree, every job ends once, no run is without a watchdog, tokens are charged once, no job is stranded |
| Session parking (`server/src/parking.ts`), snapshots (`session-store.ts`), registry | owners of deferred executions, settled ids, watchdog timers, detach timers, resumes in progress; one snapshot per parked session | deliver a result, detach, park, resume, discard, hydrate, close | results arrive while a park, a rebuild or a discard is under way; a crash between two of them | every accepted result reaches the model, a session is in one place, nothing that could wake it is left of an ended one |
| AI SDK runner (`ai-sdk-runner.ts`, `deferred-executor.ts`) | messages, pending calls, the turn in flight, announced batches, status | start, message, turn, resolve a call, interrupt, park, restore, close | calls of one turn are handed over and settled concurrently | no call is lost or answered twice |
| Claude session runner (`runner.ts`, `input-queue.ts`) | status, pending questions with timers, input queue, event log | message, canUseTool, resolve, interrupt, close, end of the stream | a question is answered, times out and is aborted at once; a listener ends the session inside an emission | status, log and model agree on every question |
| Notifications (`notifications.ts`) | a delivery chain per session | watch, build, send, retry | retries against order, lost answers | people are told in order |
| Client (`client/src/index.ts`), transcript and hook (`react/src`) | outbox, last sequence number, socket; transcript | connect, send, receive, reconnect, detach, remount | replay after a reconnect, a second handle over the same transcript | every event once and in order, the page shows what the log says |
| Browser tool bridge (`bridge.ts`, `browser-bridge-executor.ts`, `pending-registry.ts`, `tool-host.ts`) | attached sockets, pending bridged calls, early answers, calls in flight in a tab | dispatch, answer, timeout, cancel, detach | answers early and late, dead sockets, torn-down hosts | a call runs at most once and its end is always heard |
| Session server (`server.ts`), profiles and policy (`profile-store.ts`, `engine.ts`) | live sessions, clients, the mirror of the profile store | sessions, jobs, attach, commands, profiles, shutdown | what was read before an await is used after it | no policy is slipped past |
| Worker guard (`cli/src/guard.ts`) | the reasons of a look, a deadline | look, count, conclude | four readings of a server that goes on | safe is not said of a busy server |
| Command line and login (`config.ts`, `auth-key.ts`, `instance.ts`, `auth.ts`) | configuration, key file, browser sessions, login throttle | start, make or find the key, login, logout, expiry | a crash while the key is written; two components that each rely on the other's guard | no instance is open by accident, the key outlives restarts, sessions are good exactly as long as promised |
| UI kit (`ui/src/components/prompt-area`) | a document of segments, the DOM it is rendered to, caret, undo history, clipboard | some thirty editing handlers | offsets taken before an edit and used after it; a DOM the browser edits too | document, DOM and caret stay one text |
| Engine, tools, sandbox, dashboard | small maps or none | | | not protocol code |

Interaction: the parking manager asks the queue before it parks a job's session
(`onSessionParking`) and hands it the rebuilt runner (`onSessionResumed`); the
queue calls back into the server to create a session and to discard a parked
one. A runner's listeners run inside its emission, in the order they subscribed:
queue, parking manager, notifier, sockets. Clients see all of it through
sequence-numbered events. What a session is built from is read from the profile
mirror when a request is admitted, when a job is claimed and when a parked
session wakes.

## Modules

| Module | Models |
|---|---|
| `JobLifecycle` | abstract: what the queue promises a client about a job's status and attempt |
| `JobQueue` | `JobQueue` of `queue.ts` over a `QueueAdapter` of `adapter.ts`; implements `JobLifecycle` |
| `DeferredCalls` | abstract: what a backend that answers deferred calls may rely on |
| `SessionParking` | one session: `parking.ts`, the parkable part of `ai-sdk-runner.ts`, its record, its registry entry, and the server's attach, delivery, delete and shutdown; implements `DeferredCalls` |
| `SessionRunner` | one Claude session (`runner.ts`, `input-queue.ts`) and the listeners that end it |
| `SessionNotifier` | extends `SessionRunner` with `notifications.ts` and a webhook |
| `EventStream` | abstract: every event of a log once and in order |
| `Transcript` | the reducer of `transcript.ts`, and what a transcript should show, said of the log |
| `SessionStream` | extends `Transcript`: the server's side of a socket, the client's handle and the React hook; implements `EventStream` |
| `ToolBridge` | calls executed in browser tabs, from the runner that waits to the host that runs them |
| `SessionPolicy` | pure: validation, admission and building of sessions from profiles |
| `ProfileServer` | extends `SessionPolicy`: profile management, sessions and jobs over the mirrored store, restarts |
| `RestartGuard` | extends `ProfileServer` with `guard.ts` |
| `GatewayConfig` | pure: what an instance is told and resolves (`config.ts`) |
| `Gateway` | extends `GatewayConfig`: key file, host guard, browser sessions, login throttle, over starts and crashes |
| `PromptText` | pure: the document engine, list and emphasis operations, triggers |
| `PromptDom` | extends `PromptText`: rendering, decorations, reading back, caret positions |
| `PromptDocument` | extends `PromptDom`: the handlers, undo history, clipboard and props |
| `JobQueueProofs`, `SessionParkingProofs`, `RestartGuardProofs`, `ToolBridgeProofs`, `SessionStreamProofs`, `SessionNotifierProofs`, `GatewayProofs` | theorems about the module named |
| `CollectionLemmas` | what operators on sequences and finite sets do, sums and ascending numbers, for the proofs |
| `MC...` | small instances for TLC |

`JobQueue` and `SessionParking` meet in the queue's hooks: each models the other
side as a free choice (`JobQueue`: any subscribed session may park or resume;
`SessionParking` with `IsJob`: the queue may refuse a park and discard a parked
session).

## Runs

All runs together take about 25 minutes on two workers.

| Run | Distinct states | Shows |
|---|---|---|
| `JobQueueSafety` | 2.90 million | over the in-memory adapter records, runs, timers and the token ledger agree, no watchdog is left to a finalized run, and the queue implements `JobLifecycle` |
| `JobQueueLive` | 23,000 | every job ends, none is stranded while it could run |
| `JobQueueRemote` | 2.56 million | with a backend that answers late no run is held twice, loses its watchdog or is parked after its kill, and every retry has its wake-up |
| `ParkGeneral` | 2.29 million | with interrupts, deletes, a job's veto, a failing store, failing rebuilds and a crash: one place, an ended session begins no new resume, no ownerless watchdog, no forgotten caller |
| `ParkSingle` | 42,000 | one deferred call at a time: an answer is never refused while waited for, finds its session, the session implements `DeferredCalls`, and deadlines end the wait |
| `ParkLostResult` | a violation | the first of two answers is accepted and lost |
| `SessionNotifier` | 1.02 million | status, log and model agree on questions, which are answered in the end; a webhook hears of them in order |
| `SessionStream` | 616,000 | through drops and a second handle each event is seen once and in order, the page shows the log and catches up, messages are handled in order and at most once |
| `ToolBridge` | 1.24 million | an awaited call is registered and timed, is run at most once, and ends |
| `RestartGuard` | 1.03 million | no session bypasses permissions but under a profile stored so before the start; the mirror is the store once no request is under way; the guard's `safe` is true of what holds still and is looked for, and it concludes |
| `Gateway` | 1.96 million | guard and key agree, the key is kept, sessions and the throttle tell who was let in |
| `PromptDocument` | 124,000 | document, rendered nodes and caret stay one text; numbering, undo, toggles and cut and paste are exact |

`CHECK_DEADLOCK FALSE` is in every configuration because the bounds let a
behaviour end: all jobs over, every message sent, every edit made. That nothing
stops too early is said by the liveness properties instead.

## JobQueue

**State.** The adapter's records are functions of the job: `status` (the string
of `JobInfo`, with `"none"` before submit and `"gone"` after retention removed
it), `attempt`, `usage`, `backoff` (`nextRunAt` lies ahead), `parkedAt`, and
`arrival` (insertion order of the map). `spent` holds the daily counters. The
live runs of `#running` and `#parked` are sets with, per run, its armed
`timers` (`durationTimer`, `parkTimer`, `forceTimer`), its subscription,
`killReason` and estimated `tokens`. `told` is the last lifecycle event an
observer of the job got.

**Steps.** A call on the adapter takes effect when it is made, and what the code
does after the `await` is a step of its own: for the pump it is held in `pump`
and `claimed` (`#pump` and `#start` are one thread: `#pumping` keeps it single),
for everything else a record in `awaiting` names the continuation. So `cancel` is
`Cancel` (reads the record), then `CancelRead` (acts on what it read), then
`Dequeued`. `RemoteAdapter` decides what may come between: with the bundled
`InMemoryQueueAdapter` every answer is a microtask and no request, timer or
session event can (`Macrotask`); with a remote backend anything can.

A run can end inside a call the queue makes of its runner, before the queue is done
with the call: `interrupt()` of an `AiSdkRunner` at rest emits the result the queue
finalizes on, and `subscribe` replays what the session said while it was created.
`KilledAtOnce` and `StartedOver` are these cases; what `#kill` arms and `#start`
keeps afterwards is then left on a run that is over.

| Code | Actions |
|---|---|
| `submit` | `Submit`, `Added` |
| `cancel` | `Cancel`, `CancelRead`, `Dequeued` |
| `#pump`, `#start` | `Pump` (called by others), `PumpReturns`, `ClaimNext`, `StartJob`, `CreateFails`, `StartFailed`, `CreateResolves`, `Started` (`StartedRunning`, `StartedOver`) |
| `#handleEvent` | `AssistantMessage` (with the token limit), `TurnResult`, `SessionEnds` |
| `#kill`, watchdogs | `WatchdogFires`, `ForceTimerFires`; `Kill` and `KilledAtOnce` inside the actions that kill |
| `#finalize` | `Finalize`, `Finish` and `Settle` inside the actions above, `Charged`, `Requeued`, `Ended` |
| `onSessionParking`, `#recordPark`, `onSessionResumed`, `#recordResume` | `SessionParking`, `ParkRecorded`, `SessionResumed`, `ResumeRecorded` |
| `#sweep`, retention interval | `Sweep` in `Ended`, `SweepTimerFires` |
| `close` | `Close` |
| time | `BackoffElapses`, `RetryTimerFires`, `DayRollsOver` |

**Abstractions.** Jobs share one token limit; tokens are small numbers;
timestamps are reduced to whether a moment has passed. Retry wake-ups of one
job are a set: the code can hold two timers of a job, which both only pump. The
session is the environment: it may report usage, finish a turn, end, park or
resume whenever it is subscribed. A session parks only after the queue recorded
its start. `createRunner` settles some time. Webhooks, `onWork` and read-only
calls are left out.

**Bounds.** Two jobs are enough for contention for a slot, and for a job that ends
while another is claimed, and with one slot for a resume that exceeds it. Two
attempts exercise the retry once and its limit; the daily limit of 2 with
messages of 1 makes the budget run out inside and between runs; `TokenCap`
bounds the usage a session reports, `LastDay` the calendar.

**Fairness.** The adapter answers (weak fairness of each continuation and of the
pump's steps). `createRunner` settles and an armed timer fires (strong: with the
in-memory adapter both wait for a macrotask, so they are not continuously
enabled while requests keep coming, yet the event loop reaches them). The
watchdogs measure `runningMs` and `parkedMs` over all stays in a state, which is
why they fire although a session parks and resumes for ever. Clients and
sessions are under no obligation.

## SessionParking

**State.** The registry and its runner: `status`, `turn` (`#abort`), `pending`
(`#pendingToolCalls`), `dispatching` (batches whose `Promise.allSettled` is
outstanding, each with the calls still being handed over). The manager:
`owners`, `settled`, `timers`, `detach`, `closed`, the chain of operations on the
record (`storeOps`), and the one entry `#resuming` can have for the session:
`resume` says where the rebuild is (`loading` the record, `building`, registered
and `clearing` the record, its callers `woken`), `loaded` holds the snapshot it
rebuilds, `calls` and `knock` the deliveries and the upgrade that wait for it,
`fresh` whether the runner it built is still the one registered (a waiting
delivery goes to *that* runner, whatever became of it). `record` is the file, `kept` whether the store failed to
remove it.
`life`, `applied` and `refused` remember what the outside was told.

**Steps.** A macrotask with all listeners it calls is one step: an
`execution_result` that makes the manager park the runner, with the eviction and
the queued save, is inside `Fold`. Each operation of the store is a step
(`StoreStep`), and so are the rebuild and each caller it wakes; until all have
run no macrotask may come between (`Macrotask`), since they are promise
reactions. A delivery is fewer promises away from the resume than an upgrade,
which goes through `ensureLive` and `catch`, so deliveries run first.

| Code | Actions |
|---|---|
| `#runTurn`, `#finishTurn` | `TurnRests` (calls to wait for), `TurnEnds` |
| `#dispatchPending` | `HandedOver`, `DispatchSettles`, `AnnounceParked` |
| `#applyExecutionResult`, `#settlePendingCall` | `Fold` in `DispatchSettles`, `BridgeAnswers`, `Deliver`, `WatchdogFires`, `WakesCall` |
| `#park` | `GoesDown`, `StaysUp` in `AnnounceParked`, `Fold`, `DetachTimerFires` |
| `submitResult` | `Deliver`, `WatchdogFires`, then `WakesCall` |
| `#resume`, `#rebuild` | `Joins`, `Loads`, `RebuildSucceeds`, `RebuildFails`, `Removes`, `ResumeOver` |
| `discard` | `ForgetsSession` in `CloseSession`, `DeleteSession`, `LooksUp`, `JobDiscards`, `Shutdown` |
| `onDetach`, upgrade, `attachClient` | `Detach`, `Attach`, `WakesClient` |
| `sendMessage`, `interrupt`, `close`, DELETE | `Message`, `Interrupt`, `CloseSession`, `DeleteSession` |
| `close` of the server, `hydrate` | `Shutdown`, `Restart` |

**Abstractions.** One session with at most one client. Deliveries of one
execution that wait together are one. A turn calls for executions not used
before. `#configs` equals "registered or stored" and is left out, and so are
messages typed while a turn runs or waits (they join the history and do not
change who is waited for), the transcript, usage, and the lookup a caller
restricted to profiles makes before its delivery. A detach timer of a runner
that was evicted finds another runner registered and does nothing; it is dropped
with the runner. `PromptStore` says the store works off its chain before a model
call returns and before the park delay is over: true of a local file, a
condition of the properties of `ParkSingle`, and off in `ParkGeneral`.

**Bounds.** Three executions allow two turns after one another or a batch of two
and a turn; two are deferred and one bridged in `ParkGeneral`, so batches mix.
One crash suffices for what a restart finds. The store fails to write
(`SaveMayFail`), to read or to remove a record (`AccessMayFail`) and a rebuild
fails only in `ParkGeneral`. A record that a restart cannot read while it lists
them is not modelled.

**Fairness** (`ParkSingle`). Microtasks run (weak). The store answers, a rebuild
ends, an armed watchdog fires (strong: each waits for a macrotask of its own
while others come and go). Nothing is assumed of the model, of backends or of
clients.

## SessionRunner and SessionNotifier

**State.** `status`, `pending` (`#pending`, in the order asked), `query` (not
created, up, over), `turn` and `interrupted` (where the CLI is), `inbox` and
`done` (the input queue), `log` (the events that say something about questions
and ends), `told` (what each `canUseTool` promise resolved with). The notifier
adds `chain` and the attempt count; `received` is what the webhook's receiver
took last.

| Code | Actions |
|---|---|
| `#run`, end and failure of the query | `QueryStarts`, `StreamEnds`, `StreamThrows` |
| `sendMessage`, the input queue's iterator | `SendMessage`, `InitArrives`, `InputReturns` |
| SDK messages | `InitArrives`, `StateChanged`, `TurnEnds` |
| `canUseTool` with `questionBehavior` | `Asks` |
| `resolvePermission`, approval timer, abort signal | `Decides`, `TimesOut`, `Aborts`, all through `Settle` |
| `close`, `fail` | `CloseCalled`; `Ends` and `Fails` inside the actions that end a session |
| `#emit` of the notifier | `Notify`, in the step of the event it follows |
| `#deliver` | `Post`: one attempt, taken or not, its answer lost or not |

A listener that ends the session inside the emission (`closesOn`: the queue on a
job's first result, the server on an init message that shows the wrong
credentials) is part of the step. `LateMessages` lets what the CLI had sent be
handled after a close. A notification is built a microtask after its event; the
snapshot of the session it carries is left out.

**Bounds.** Two questions, one to the user and one permission, can be open
together; two messages allow a second turn; two attempts one retry. The three
configurations are an interactive session, a job and a session refused at its
init message. **Fairness**: an armed approval timer fires, a delivery is
attempted. **Left out**: the normalisation of SDK messages, the backfill of a
resumed session, capabilities and context usage.

## SessionStream

**State.** The session's `log`, and `script`, what its engine still says;
`handled`, the messages the server took. The socket: `phase`, frames `down` and
`up`, and `oldUp`, those of sockets the page closed itself, which still arrive.
The handle: `lastSeq`, `outbox`; `seen` is what its listeners got. The page:
`view`, the transcript.

| Code | Actions |
|---|---|
| `attachClient`, `handleCommand` | `Attach`, `FrameArrives` (`Handle`) |
| the runner's emissions | `EngineSays`, and `Emit` inside `Handle` |
| `#connect`, `onopen`, `onclose`, `onmessage` | `Connect`, `Open`, `Drop`, `Receive` |
| `#sendFrame` | `Send` in `Type`, `Decide` |
| `detach`, `closeSession`, a second mount | `Detach`, `CloseSession`, `Remount` |
| `applyEvent`, `seedFromSessionInfo` | `ApplyEvent`, `SeedFromSessionInfo` in `Receive` |

**Abstractions.** A text is the number of pieces it was put together from. Timer
delays are left out: a reconnect comes some time. Protocol errors reach the page
and change nothing. **Bounds.** Three scripts cover streamed text and a client
tool, a deferred call with a thought that was encrypted, and a resumed session
whose last message the engine repeats, with a question; two messages tell an
order, one drop at any point makes a replay, two handles a second replay into
one transcript. The engine's messages are lists of blocks of
the protocol's types or of one it does not model (`StreamAssumption`).
**Fairness**: once attached and undisturbed, timers, connections
and frames make progress and the engine goes on; the number of drops is bounded,
so the network stays up in the end.

## ToolBridge

**State.** `awaited` (`#pendingToolCalls`) and `outcome` of the runner;
`waiting` and `early` of the registry; `sockets` of the hub in the order they
attached, each alive or not; frames and outboxes per tab; `hosts` and `inFlight`
of the pages. `ran` and `missed` are history.

| Code | Actions |
|---|---|
| `#dispatchPending`, `BrowserBridgeExecutor.dispatch`, `register` | `Dispatch` |
| `handleCommand`, `BridgeHub.resolve`, `resolve` | `AnswerArrives`, `EarlyExpires` |
| the slot's timer | `Timeout` |
| `interrupt`, `close`, DELETE | `Interrupt`, `Close`, `Delete` |
| `attach`, a broken connection, its `close` event | `Attach`, `Break`, `Notice` |
| `createToolCallHost`, `dispose`, `runScript` | `SetUp`, `Dispose`, `FrameArrives`, `Finishes` |

**Bounds.** Two calls are one batch or two turns; of two tabs one refuses a tool;
one broken connection, and two set-ups of hosts, so that one is torn down and
another takes its place. **Fairness**: the timer of a slot fires; nothing is
asked of pages or connections.

## ProfileServer and RestartGuard

**State.** `store`, what it held before the start (`loaded`), its `mirror` in the
server, per management request where it is between its awaits (`writer`), and for
a store that answers at once the order in which they go on (`ready`); per session
whether it is absent, being created, queued, claimed, busy, idle, at rest on
deferred calls but kept live (`resting`), parked, waking or ended, with the request it was
admitted with and what it was built from. The guard's `reasons` are what one
look has found.

| Code | Actions |
|---|---|
| `POST`, `PATCH`, `DELETE /profiles` | `Post`; `PatchArrives`, `PatchRead`; `Delete`; then `StoreActs`, `Refresh`, `Refreshed` |
| `POST /sessions`, `POST /jobs` | `CreateSession`, `SubmitJob` (`Admitted` is the checks, in order) |
| `createRunner`, `createEngineSession` | `ClaimJob`, `Starts` (`Built`) |
| `set_permission_mode` | `SetMode` |
| `#park` that returns early, a result for a live runner | `Rests`, `GoesOnLive` |
| park, wake, retry, end | `Park`, `Wake`, `Retry`, `EndSession` |
| process | `Stop`, `Listen` |
| `inspect`, `guard` | `Look`, `Listed`, `Count`, `Counted`, `RequestFails` |

**Abstractions.** A profile is its engine, where its directory is, its mode and
its capabilities; a request adds the profiles its principal may use. Every
management request comes from a principal that may manage. **Bounds.** One
declared profile and one managed name make a request that names none resolve
differently over time; two writers overlap their refreshes; one session or job
goes through the whole life, so that every reading of a look can fall before or
after each of its steps; one restart. The store answers at once or in its own
time, and holds nothing at startup or profiles that this policy never validated.
**Fairness**: the guard goes on; nothing is asked of the server.

## Gateway

**State.** `phase` of the process, the resolved `config`, `keyFile` per state
directory (none, corrupt, or a key), `secret`, and in memory `sessions`,
`failures`, `globalFailures`; the `cookie` of each client. `login` has a slot for
each login whose body is being read, of whichever client. `issued`, `out`, `wrong`,
`kept`, `most` and `globalMost` (the most logins that were on their way at once,
of an address and of all) are history.

| Code | Actions |
|---|---|
| `main`, `parseArgs`, `loadConfigFile`, `resolveInstanceConfig` | `Start` (`GatewayConfig`) |
| `materializeAuthKey` | `MintEphemeral`; `ReadKey`, `WriteKey` (truncate, then write) |
| `startInstance` | `Arm` |
| signal, crash, a start that fails | `Stop` at any phase |
| login, in two halves around its body | `Login`, `LoginRead` |
| logout, expiry | `handleLogout`; `Presents`, `Tick` |
| `authenticate`, `hostAllowed`, `originVerdict` | operators of these names |

**Abstractions.** An option stands with its value and a host with its name; the
parsing of a hostname, cookie attributes, file modes and the sweep of a failure
table past 256 entries are left out. **Bounds.** Eighteen ways to be told, among
them each source of a key, of a host and of a directory, the ways to stand the
guard down and the ones that are refused. Two clients behind one proxy share an
address when it is not trusted; two sessions, two failures per address and three
in all make each limit bind with three logins; of these two can be on their way at
once (`Slot`), of one client or of two; two starts make one restart;
`LastInstant` lets a session and a window run out.

## The prompt area

**State.** `value` is the list of text and chip segments last given to
`onChange`; `dom` the children of the editor (a text per line, line breaks,
chips, decorated spans), `sentinel` whether the break behind them that rendering
adds is still there; `sel` the selection as offsets; `active`, `editing` and
`launched` the dropdown; `history` the undo and redo stacks and the base of a
session of typing whose timer runs; `clipboard`. One action is one handler with
the render and the effect that its `onChange` sets off; its name is the
handler's, or says what was typed.

| Code | Actions |
|---|---|
| `handleInput` | `Type`, `Backspace`, `DeleteForward` |
| `handleKeyDown` | `ContinueList`, `InsertNewline`, `Indent`, `Outdent`, `Wrap`, `DeleteSelection`, `RemovePrefix`, `handleChipBackspace`, `handleChipForwardDelete`, `autoResolveActiveTrigger`, `Launch` |
| chips and the dropdown | `OpenChip`, `selectSuggestion`, `replaceInPlace`, `replaceNothing`, `handleBlur`, `InsertLaunched` |
| clipboard | `handleCopy`, `handleCut`, `handlePaste` (text, segments, nothing) |
| undo | `Undo`, `Redo`, `TypingPauses` |
| the handle and the props | `insertChip`, `setText`, `appendText`, `clear`, `SetValue`, `toggleMarkdown` |
| the browser | `Spliced` in the actions that let it edit, `Select` |

**Abstractions.** A text is a sequence of the characters the code tells apart;
`f` stands for a code fence and `u` for the start of an URL. Numbers are written
in `Radix`, 2 here, so that it is the second line of a list whose number gains a digit.
**Bounds.** Two edits, one selection of at most two characters (or one chip
opened), five documents that hold a nested numbered list, an empty item before a
chip, emphasis, and an URL and a trigger word before a line that begins with a chip,
and a value of a line break and a chip; the undo limit of 100 is 1, so that the second
recorded edit, or the recording of typed text, makes a full history drop a snapshot. **Left out**: composing, the
search behind a dropdown, and scrolling.

## What TLC found

`ParkLostResult` ends in a violation, of a sentence the repository says about
itself (quoted in `PROJECT.json`): the manager parks on the `execution_result`
event, which the runner emits *before* it removes the pending call, so the first
of two answers to an unwatched session is reported as applied and is not in the
snapshot.

While the code was modelled the following came up as well. They have no run of
their own; each is a formula the named module states, or a choice of constants,
with which TLC shows it, or a condition a property was given because of it.

*Queue.* A cancel while the session is being created is lost (`CancelStops`);
`close` does not stop a pump that is in its loop (`ClosedClaimsNothing`); a queue
held by the daily budget is not woken by the next day (`NoneStranded` with a
budget that binds); a run that ends while parked keeps `parkedAt`; with
`RemoteAdapter` a submit during an empty claim is stranded and a cancel can
overwrite a finished job (`NoneStranded`, `ImplementsLifecycle`). A kill whose
interrupt ends the run at once arms the grace timer behind it (`queue.ts:457`), and
a start whose replay ends the run keeps its subscription (`queue.ts:438`); both are
without effect, since the run is found to be over (`FinalizedIsOver`).

*Parking.* Two answers that arrive together wake one runner; the first parks it,
the second is refused by what is left of it and loses its watchdog
(`RefusedWasSettled` with batches of two). A `DELETE` or a discard during a rebuild
is overtaken by it, and the session lives again (`EndedStaysEnded`), although
`apps/docs/src/content/docs/reference/server.md:70` says a late result "can no longer
wake it". A record the store failed to remove can be restored after the session
ended, or beside it after a crash (`kept` in `InOnePlace`). A read of the record
that fails is taken for no record, so that the call is refused and its deadline
forgotten (`RefusedWasSettled` and `CallsCanEnd` with `AccessMayFail`). A watchdog that fires into a failing rebuild
is spent (`CallsCanEnd` with `RebuildMayFail`). An answer that overtakes the
acknowledgement of its own dispatch has the old batch announce the new one while
that is handed over. A session stays live for good when its batch's bridged call
is answered last, or when the client that wakes it is gone before the rebuild is
done.

*Stream and bridge.* A job's result ends its session inside the emission, so the
sockets subscribed behind the queue see the end before the result and their
handles drop the result as old (`ImplementsStream` with `JobSession` and the
script `Job`). Nothing else is missing (`HandedInOrder`, proved). A close frame that waits in the outbox of a handle that detaches
is never sent (`CloseReaches`). An interrupt or close of a turn at rest does not
reach the bridge (`InterruptedIsCanceled`).

*Server and guard.* A profile that is in the store at startup is not validated
(`server.ts:519`), so one that was stored under another policy keeps what that
allowed (`Unvetted` in `NeverBypassed`). With a store that answers in its own time
two refreshes can leave an older listing in the mirror for good (`MirrorTells`
without `~remote`), and while the mirror is empty, with no profile declared,
`resolveProfile` has nothing to resolve to and lets a restricted principal's
session run without a profile (`server.ts:729-733`). A `PATCH` writes over, or
revives, a profile that was changed or deleted while its body was read. What moves
during a look from a place not yet read to one already read is in no reading, and a
session at rest that a client keeps live has no record although the guard takes a
parked session for a durable one (`parking.ts:241`, `guard.ts:15`): with
`--allow-parked` it says safe and the restart loses it (`SafeLosesNothing`).

*Command line.* Without `--auth-key` an instance that binds beyond loopback is given a
key (`config.ts:362`); `packages/cli/README.md:36` and the comment at `auth.ts:25` still say
that it refuses to bind. Logins posted in parallel pass the throttle together,
since it is asked before their bodies are read (`auth.ts:399-407`; `most` in
`TablesTell`). A read of the key file that fails for a moment has a good key
replaced (`KeyKept` with `ReadMayFail`); a key made by a start whose listen fails
is kept and was never printed.

*Prompt area.* Cutting the chip behind a lone line break leaves a break that the code
reads as an empty editor, so that pasting does not bring the line back, although
the comment at `use-prompt-area.ts:246` says that a break that was rendered always
has content or a sentinel beside it (`OnlyBreaks` in `CutPastesBack`); an undo over
a full history whose typing is not recorded yet drops the oldest document
(`UndoMovesAlong`); `resolveChip` makes one chip for every segment that holds part of
the word, and puts the caret behind the last chip that looks the same;
`replaceTextRange` puts a replacement whose range starts at a chip at the end;
no caret can stand before a chip or line break that opens the value; Backspace
on a chip and an external paste restore the caret by child, not by text; Delete
at the end of emphasised text takes the chip behind the mark; Enter in a list
line leaves a selection in place; italic beside a lone `*`, and a mark within its
own kind, do not toggle back; `maxLength` cuts the end whatever the caret;
`insertChip` appends, "at the current cursor position" notwithstanding
(`types.ts`); `activeTrigger` outlives Enter, a wrap, `setText`, `clear` and
undo; a launcher inserts into the segments it was opened with; Enter before
the first item of a list makes that item the second;
a line that begins behind a chip is taken for the start of a line; edits of
lists and chips are not recorded for undo, and the base of a typing session that
a recorded edit interrupts is recorded behind that edit. `CaretKeepsPlace`,
`EditsInPlace`, `TakenBack` and `UndoMovesAlong` state under which conditions
they hold because of these.

## Proofs

Each theorem holds for every value of the constants that the module's `ASSUME`
allows, and under the further conditions named here. Where a property is not
inductive, the invariant it follows from is named, with what it adds and why.

| Property | Theorem | Condition |
|---|---|---|
| `TypeOK`, `OneHolder`, `Supervised` of the queue | `TypeCorrect`, `OneHolderAlways`, `SupervisedAlways` | |
| `LedgerBalances` | `LedgerBalancesHolds` | |
| `RecordsMatchRuns`, `FinalizedIsOver`, `ImplementsLifecycle` | `RecordsMatchRunsHolds`, `FinalizedIsOverHolds`, `LifecycleImplemented` | in-memory adapter |
| `TimersAreOwned`, `InOnePlace`, `NobodyForgotten` | `WatchdogsAreOwned`, `InOnePlaceHolds`, `NobodyForgottenHolds` | |
| `RefusedWasSettled`, `CallsCanEnd`, `ImplementsDeferredCalls` | `RefusedWasSettledHolds`, `CallsCanEndHolds`, `DeferredCallsImplemented` | `SingleCall` |
| `NeverBypassed`, `MirrorTells` | `NeverBypassedHolds`, `MirrorTellsHolds` | |
| `SafeSeesTheSteady` | `SafeSeesTheSteadyHolds` | |
| `AwaitedIsHeld`, `RunOnce` | `AwaitedIsHeldHolds`, `RunOnceHolds` | |
| `MessagesInOrder`, `HandedInOrder`, `TranscriptTells` | `MessagesInOrderHolds`, `HandedInOrderHolds`, `TranscriptTellsHolds` | |
| `ImplementsStream` | `StreamImplemented` | an interactive session |
| `QuestionsAgree`, `ReceivedInOrder` | `QuestionsAgreeHolds`, `ReceivedInOrderHolds` | |
| `SeamHolds`, `TablesTell`, `SessionsTell` | `SeamAlways`, `TablesTellAlways`, `SessionsTellAlways` | |
| `KeyKept` | `KeyKeptAlways` | `~ReadMayFail` |

**`JobQueueProofs`.** For both kinds of adapter `IInv` is `TypeOK`, `OneHolder`,
`Watched` and `RetryWillWake`. A watchdog could be lost if a job were claimed a
second time while its first run is still in a map, since `CreateResolves` starts
with an empty set of timers; so the invariant must say that a job is held by one
of the pump, the maps and a charge in flight, and that its record is not
claimable while it is (`OneHolder`). `RecordStep` and `WakeStep` treat the steps
that leave the maps alone, `SettleStep`, `FinalizeStep` and `KillStep` the
operators several actions share, and one lemma per group of actions the rest.

`LedgerBalances` is an invariant together with `IInv`: a second charge of one run
could come while its first is in flight, and `OneHolder` excludes it. Its sums are
taken apart by `CollectionLemmas` (one summand changed, one added, one removed).

With the in-memory adapter (`~RemoteAdapter`) the promise reactions of one
macrotask run before the next, and `SerialInv` says what they still have to do:
whose turn it is (`InTurn`: at most one continuation, and none while the pump is
at work), what each found the record to be when it was called (`Expects`), and
what a record, its run and its last announcement say between them (`Recorded`).
The three properties and each step of the refinement are read off it. A remote
adapter breaks them (see *What TLC found*), so the condition is needed.

**`SessionParkingProofs`.** `TimersAreOwned` is inductive as it stands, because
`#park` re-indexes exactly what it re-arms and `#forget` clears both. `InOnePlace`
and `NobodyForgotten` need `ParkInv`: what may stand in the chain of the store,
above all that one operation at most is awaited, by the resume under way
(`Chain`), that a session whose runner is gone has nothing of it in flight
(`Inert`), and that `InOnePlace` is true of what the store will hold when it has
worked off the chain (`Alone`): no record, or one it failed to remove when nothing
writes another (`Gone`). The other three hold of calls made one at a time,

    SingleCall == /\ MaxBatch = 1 /\ ~IsJob /\ ~Interrupts
                  /\ ~Deletes /\ PromptStore /\ ~AccessMayFail

and each part of it is needed, as TLC shows with `ParkSingle` changed in that one
constant: batches of two lose an answer (`ParkLostResult`), `RefusedWasSettled`
fails without `PromptStore`, `CallsCanEnd` with `Interrupts`, without
`PromptStore` and with `RebuildMayFail`, both with `AccessMayFail`, the refinement with `IsJob`, `Interrupts`
or `Deletes`. `Parked` adds to `ParkInv` who holds the call that is waited for
(the runner, the snapshot being rebuilt, or the record as the chain will leave
it: `Held`), what a resume has loaded (`Resuming`) and that the index knows it
(`Indexed`).

**`RestartGuardProofs`.** `ServerInv`: every profile in the store, the mirror, a
request in flight or a listing being read is one the policy allows, or has the name
of one that bypassed permissions in the store before the start (`ProfilesAllowed`;
the server does not validate what its store lists); every session was admitted with
a request the policy allowed then, and what it runs with came from it or from such a
profile (`SessionsAdmitted`); after a stop only what is durable is left.

`MirrorTells` is of a store that answers at once, whose requests go on in the order
in which they wrote. `PromptInv` puts them in that line (`LineInv`) and says that a
listing can be out of date only while a request that wrote later stands behind it,
which will empty the mirror again, and that with none such left what the mirror
holds is in the store (`MirrorInv`).

`GuardedServer` shows that the guard changes nothing, so that both hold beside it;
`GuardInv` follows what is steady through the readings of a look. What no reading
asks for is left out of `steady` by name (`PassedOver`).

**`ToolBridgeProofs`.** `BridgeInv` says what may be on its way between runner,
registry, hub and tab: no answer without a request (`OnTheWayWasMade`), no request
that is not held or being cancelled (`RequestsAreHeld`), one request per call
(`AskedOnce`), none for an answered call (`AnsweredIsDone`), and a page's side of
a connection against the hub's (`SidesAgree`).

**`SessionStreamProofs`.** What a handle sent waits in four places in this order:
handled, on a socket that was left, on the present one, in the outbox. `OrderInv`
says that these, put together, are in the order typed. `StreamInv` says that what
is on the wire continues what the handle has seen without a gap. With a job the
refinement fails (see *What TLC found*).

`TranscriptTells` compares a fold over the log with sentences about the log, and is
proved in two parts. The first is about the reducer: no two items share a key
(`Table`), so a transcript is the set of its items; `Tells` says of that set what
`Shows` says of the sequence, with the states and texts the next event will read,
and a lemma per kind of event shows that `ItemsAfter` keeps it when the log grows
by the event (`ToldAfter`). For an assistant message `BlocksTold` does the same
block by block, by an induction over the places of the message. The second part is
about the wire, and holds of job sessions too: `Sent` says that
before every event on the way to a handle, and up to the end of the log, nothing
it has not had is missing but a result (`Skipped`), which may come behind the end
it brought about and is then dropped. A result bears on nothing that
`Shows` speaks of; so the page tells its log as far as it has folded it (`PageInv`),
and `HandedInOrderHolds` reads the order and the gaps of what a handle was given off the
same description of the wire.

**`SessionNotifierProofs`.** `RunnerInv`: a question is told `asked` exactly while
it is in the table, which holds it once; the session is closed exactly when its
status is terminal; and the log *tells* of each question what the model was told
(`Tells`): its request if it was asked, and, only after that request, at most one
answer. `TellsStill` and `TellsAnswer` say which events a log may grow by, so that
each action is judged by the events it emits. `RunnerInvariance` also has it that
no step takes anything off the log, which the queue of notifications needs:
`QueueInv` says the positions in it ascend, from that of the last one received to
the end of the log.

**`GatewayProofs`.** `SeamAlways`: that the guard stands down only for a promise of
a key (`StandsDownForAKey`, about `resolveInstanceConfig`) is not enough, since the
key is made later; `SInv` adds that the promise is being kept in every phase until
the instance is armed. `BareIsRefused` turns a key into a refusal. `KeyKeptAlways`:
`KInv` adds to `SInv` that a key once served with is on file ever after, that a
file is written only in a directory no instance has served from, and that an
instance about to serve has its key there. `TInv` counts, for every address and for
all, the wrong answers of the window against the entry of the throttle, and holds
the entry and the logins being read together below the limit and the most logins
that were on their way at once; `TableInv` has the table ordered and a displaced session followed
by `MaxSessions` later ones. Counting needs `IsFiniteSet(Client)` and `IsFiniteSet(Slot)`.

**Only model-checked.**
- Liveness (`Ends`, `NoneStranded`, `Answered`, `QuestionAnswered`, `CaughtUp`,
  `LoopGoesOn`, `GuardAnswers`): out of the prover's reach, with `ENABLED`.
- The prompt area (`TypeOK`, `NumberedByPosition`, `CaretKeepsPlace`,
  `EditsInPlace`, `TakenBack`, `UndoMovesAlong`): what its handlers do to a document
  is computed by folds over texts inside folds over segments, each of which would
  need an induction of its own. The library's induction theorems cannot be used
  (their operator parameters are out of the provers' reach); the inductions that
  are proved, over sums, blocks and filters, each go over the least number at which
  a fact about a recursive function fails (`CollectionLemmas`).
- The refinements and invariants outside their conditions in the table: TLC shows
  that they fail there.

## Plan

1. The job queue, parking, sessions, stream, bridge, server, command line and
   prompt area are modelled and checked (done).
2. The safety properties and refinements of all of these but the prompt area are
   proved (done, see the table).
3. Proofs that are left: the prompt area, first that its list operations renumber
   by position whatever the document, by induction over its lines.
4. The delivery of webhooks in the queue, the composition of queue and parking
   in one module, and the search behind the prompt area's dropdown.

## Not modelled

- Routing, validation of bodies, the static and file routes, skills and
  transcript routes: they keep no state, or only read.
- The normalisation of SDK messages and the backfill of a resumed session in
  `runner.ts`; streaming and usage in `ai-sdk-runner.ts`: translations of one
  format to another.
- The delivery of the queue's webhooks, its read-only calls, and the client's
  queue handle and REST calls.
- Tools, `web-fetch.ts`, `quickjs-executor.ts` and the HTML conversion: third-party
  input and output around pure functions.
- The other components of the UI kit, the dashboard, examples and smoke tests:
  presentation without a protocol of their own.
