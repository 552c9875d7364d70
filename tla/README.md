# A TLA+ verification project for conductor-oss

Conductor runs coding agents.  A Rust backend (`crates/conductor-server`) keeps
*sessions*; each is one agent in a git worktree, run in a detached `ttyd`
process that the backend drives over a WebSocket, or by an executor
(`crates/conductor-executors`).  Around it are a relay for remote devices
(`crates/conductor-relay`) and its bridge client (`crates/conductor-cli`), a
Markdown board whose tasks start sessions, dispatcher threads that speak ACP, a
SQLite database, a web front end and a CLI.

This directory holds the TLA+ modules that model the core of these programs, the
configurations with which TLC checks them, and theorems that TLAPS proves.

| Modules | What they model |
|---|---|
| `SessionLifecycle` | sessions: launch queue, launches, kills, messages, resumes, restores, runtimes, flush, crash and start-up |
| `TtydOwners` | the ttyd of one session, the owners of its WebSocket, its monitors, reconnects and restores |
| `TerminalStream` | the screen of a session: hosts, subscribers, captures, restore snapshots, idle eviction |
| `ExecutorProcess` | a child process, its readers, the bounded output buffer, the report of its end |
| `CodexAppServer`, `OpenClawTurn` | one turn over the Codex app-server; one at an OpenClaw gateway |
| `DispatcherThreads`, `AcpPrompts`, `DispatcherBindings` | the turns of a dispatcher thread; the prompts of an ACP client; bindings of external threads |
| `BoardTasks`, `GitHubSync` | the board and everybody who writes it; its synchronisation with a GitHub project |
| `RelayTerminals`, `RelayRequests` | terminal sessions of the relay; control connections, forwarded requests and streams |
| `RelayQueues`, `RelayLimits`, `ByteCounts` | bounded queues and byte budgets; rate limits; sums of sizes |
| `RelayPairing`, `DeviceRegistry` | codes, claims, devices and their file; the durable registry it implements |
| `BridgeClient` | the relay's peer on a paired machine |
| `AppUpdate`, `ConfigStore`, `AccessIdentity`, `ModelCatalogs` | updates of the program; the configuration; who a request is from; which models agents offer |
| `MC*` | instances for TLC, one module per run or two |
| `*Proofs` | theorems and their proofs |

`PROJECT.json` has the components, the runs, for each checked property a mutation of
the model that breaks it, the map from definitions to lines of the
source, the hazards and the theorems.

    tlc -workers 2 -config pairing.cfg MCRelayPairing.tla     a run
    tlapm RelayPairingProofs.tla                              proofs

## 1. Inventory

Paths are relative to `src/crates/`; `server/` is `conductor-server/src/`, and `state/` is
`server/state/`.

**Launch queue and supervisor** (`state/spawn_queue.rs`, modelled).  State: the
map of sessions under a lock, a snapshot file per session, a guard that
admits one supervisor loop at a time, two limits.  Routes, the board and time-outs
kick the loop, which calls `spawn_session_now`; every lock is released
between its steps.  Hard: a session may be killed, messaged or restored at each
await of its launch; clones are written back after the write to disk; the loop
runs only when kicked.  Correct when no session is launched twice, the limits
hold, duplicates are not launched side by side, and no eligible session waits
for ever.

**Session manager** (`state/session_manager.rs`, `server/routes/sessions.rs`, partly).
Launch, kill, archive, time-out, send, resume, restore and the events of a runtime.
Hard: a termination marks, signals, waits, reaps and only then writes the
status; events of an older runtime come after a newer one was attached.  Correct
when a kill reaches the runtime it saw, an ended session has no runtime, and a message kills
nothing.

**Session store and flush** (`state/session_store.rs`, `state/mod.rs`, partly).  Session
files, pending flushes, captures, restore snapshots.  Hard: a flush may write an older clone
over a newer file; writes fail.  Correct when what can be seen is in a file and what was
emitted is captured once and in order.

**Terminal hosts and ttyd** (`state/terminal_hosts.rs`, `state/detached/`, `server/routes/terminal.rs`,
`server/lib.rs`, partly).  Per session the senders of the attached runtime, those *retained* of
detached ones, a screen and its subscribers; detached processes with exit monitors and
the owner of a WebSocket.  Hard: detaching is by session id; dropping
a kill sender has the effect of using it; eviction looks at one lock after the
other; an owner sleeps before it reconnects while a restore makes another.
Correct when whoever is attached can be killed, a ttyd has one owner and survivors are found again.

**Executors** (`conductor-executors/src`, partly).  A child with a reader per
stream, a byte count shared by three tasks, one select that takes exits, kills
and answers in any order.  Correct when each line reaches its consumer once
and before the end, or its loss is announced, and a turn ends once.

**Dispatcher** (`state/acp_dispatcher.rs`, `state/dispatcher_bindings.rs`, `server/acp.rs`,
partly).  A thread's record, snapshot and runtime handle; requests that send,
interrupt, bind and delete; a consumer per runtime.  Hard: an interrupt races the
end of its turn; a thread is deleted while an event is applied.  Correct when one agent at most is at work on a
thread, what was acknowledged was heard and is on disk, and the client is shown everything once.

**Board** (`server/runtime.rs`, `conductor-watcher`, `server/routes/boards.rs`,
`server/routes/github.rs`, partly).  A file that many read, change in memory
and write whole.  Correct when no card is lost, doubled or dispatched twice.

**Relay** (`conductor-relay/src/relay.rs`, partly) **and bridge client**
(`conductor-cli/src/bridge.rs`, partly).  Pairing, control connections, terminals that join a browser and a
bridge, requests and streams with deadlines, queues with shared byte budgets.  Hard:
reconnects overtake disconnects, expiry races the first connection, each byte charged is released once, and writes
fail after memory was changed.

**App update, configuration, access, catalogs** (`state/app_update.rs`,
`conductor-core/src/config.rs`, `server/routes/config.rs`, `repositories.rs`,
`workspaces.rs`, `agents.rs`, partly).  Flags that a dropped request must reset; a
configuration that is changed under one lock and saved under another; keys that rotate under a cache.

Not modelled: the bridge registry and the session GC (a map with one lock, a sweep
over old files), the database (one statement per operation), git and the
command lines and event parsers of the other agents (what they return is a
choice), MCP, notifiers and the routes that only read or translate, `bridge-cmd`, the authentication and
share links of the relay, the web and CLI packages.

## 2. How the modules correspond to the code

One action is one stretch of a handler or task between two points where another may change
what it goes on to use: an acquisition of a lock, an await, an atomic operation.  What a
handler cloned under a lock and uses later is kept in its record (`sup.rec`,
`cmd[c].rec`, `own`, `copy`, `peer`).  Guards are the code's conditions and early
returns.  `Faults`, `Events` and `Background` are the sets of things that may go
wrong or happen by themselves in an instance.  Texts, sizes and wording are left
out, except sizes in `RelayQueues`, `RelayRequests`, `RelayPairing` and
`ExecutorProcess`, which are about them.

**`SessionLifecycle`.**  `mem` is `AppState.sessions` (status, request, branch, whether launched,
requested termination, pid), `disk` the snapshot files, `host` the `LiveSessionHandle`s,
`proc` the ttyd processes, `watch` their exit monitors and output consumers, `sup` and `kick` the
loop and who waits for its guard, `cmd` the client tasks, `pend` and `flush` the debounced
flush, `timers` the session time-outs, `phase`, `todo`, `crashes` where `serve` is.  A oneshot
receiver resolves when its sender is dropped, so `Signalled` is used both for a kill
that is sent and for a sender that is dropped.  `AttachedHost` is `attach_runtime`: an
attach that finds an open input is skipped and what the newcomer held is dropped.
Each handler is a chain of actions: `enqueue_session_spawn_inner` is `Enqueue`,
`EnqueuePersist`, `EnqueueInsert`; `kick_spawn_supervisor` is `TakeGuard`, `SelectNext`, `SelectNone`;
marking is `Mark*`; `spawn_session_now` is `Stage1` to `LaunchAttach`; failing is
`Fail*`; kill, archive and time-out are `Term*`; `ensure_session_live` and
`send_to_session` are `Send*` and `Ensure*`; `Resume*` and `Restore*` are what they say; `Exit`, `Monitor*`,
`Consume` are a runtime's end, and `Crash` and `Boot*` the restart.  `Uninstalled` are the requests whose agent is no longer there after a restart: what needs an executor returns early (`Offered`).
Activity, conversations, parser state and notifications are left out, and so are the operations
that change nothing else.

**`TtydOwners`.**  One ttyd; a *group* is one set of channels.  `owner` is the task of
`ttyd_launcher.rs` that connects, sleeps and reconnects, `monitor` the exit
monitors, `host` the current and retained senders, `at`/`holds` the callers of
`ensure_session_live`, who may hang up (`HangUp`); `Evict` is idle eviction, which drops the host and with it every retained
sender, `lapsed` says that a sender was dropped while ttyd lived.

**`TerminalStream`.**  `hosts`/`reg` are the terminal stores ever made and the
registered one, `capture`/`restore` the files; `task` is whoever emits, watches or attaches, `flush` the
maintenance and the closers, which each look, flush and record in separate steps; `should_evict` is three (`Scan`,
`ScanTracking`, `ScanCapture`), one for each lock it takes.  A chunk is a number; the write of a capture may fail when a part was
written.

**`ExecutorProcess`.**  `reader` (one per stream), `forwards` and `sup` are the tasks of
`process.rs`, `bytes` and `over` its two atomics, each operation on them a step, in words of the instance's size; the notice of an
overflow weighs what it weighs in the code; `holder` is a descendant that keeps the output open.

**`CodexAppServer`.**  The caller of `spawn`, the select of `run_app_server`, and the app-server, which follows its
protocol or fails.  **`OpenClawTurn`.**  A turn, the identity file it shares with other turns, which may be unreadable or
torn, the gateway (external), whose events are pieces of the text, whole messages, or finals with the text or without.

**`DispatcherThreads`.**  `mem`, `disk`: the record and its snapshot; `rt`, `con`: runtimes and their
consumers; `guard`, `snap`: the two guards; `at`, `own`: requests and their copies; `pending`, `flush`: the
watchdog's queue.  **`AcpPrompts`.**  Each prompt polls the thread (`copy`) and streams what it gained (the cursor
`sent`, `announced`, `open`; `card` is what its client was last told of a tool call).  A message grows, the entry of a tool call is replaced
(`Speak`) and settled when its turn ends (`Settled`).  **`DispatcherBindings`.**  The list of a project, its file and the steps of an upsert.

**`BoardTasks`.**  `board` is the lines of the file; each writer parses (`copy`), works, and writes the
whole file.  A file that cannot be read is an empty board (`Read`), one that is being written too (`Tear`).  `changed` is the watcher's
event, which a full channel drops.  **`GitHubSync`.**  A push or pull
with its snapshot of the items (`snap`) and of the board (`copy`); people change both sides.

**`RelayTerminals`.**  `sessions` is `RelayInner.terminal_sessions`; `conns` the tasks of
`handle_terminal_connection` with what they looked up and use after the lock (`peer`, `todo`); `creators` the tasks of
`create_terminal_session`; `timers` the spawned expiries and cleanups; `got` and `told` what was queued to a connection.
**`RelayRequests`.**  `channel` is `RelayInner.channels`, `conns` the control connections, `reqs` the tasks that
forward a request, `pending` and `bytes` the tables and counts of waiting requests, `reply`, `events`,
`cancels` the channels; `work` and `sent` are the bridge (external).  The removal of an entry and the cancellation are two steps, and the
request may be dropped between them (`AbandonCancel`).
**`RelayQueues`.**  Each message goes through reserve, charge, enqueue, receive, release, return, each one atomic
operation of the code.  **`RelayLimits`.**  Buckets, pruning and eviction; `asked` and `granted` count what came and what
was let through, `late` how long the
requests for a key have waited: each reads the clock before it waits for the lock (`Times`), so times arrive out of order.  **`RelayPairing`.**  `codes`, `claims`, `claimBytes`, `devices`, `tokens`, `revision` are fields of
`RelayInner`; `holder` and `written` the persistence coordinator; `disk` the file; `renaming` renames that go on
after their call was dropped.  **`DeviceRegistry`** is not code but what pairing promises.

**`BridgeClient`.**  `loop`, `writer`, `poll`, `tasks`, `proxies` are the tasks of a connection;
`byId`/`byTask` is the `StreamTaskAbortRegistry`; `file` the state file.

**`AppUpdate`.**  Two flags, a status, a job; every call can be dropped, also between the flag and the start of the job
(`Invoke`, `SpawnJob`).  **`ConfigStore`.**  Memory, `conductor.yaml`, mirrors in project directories; a request changes memory under the
lock and saves a copy taken under another, in place: a write that is cut off leaves a beginning (`Tear`).
**`AccessIdentity`.**  Key cache, allow list, bindings of roles.  **`ModelCatalogs`.**  Pure: a catalog from what an
installation holds, over all sources of the instance.

## 3. The runs

TLC checks several *parts* side by side: a variable (`part` or `case`) is chosen initially and never
changes, each part is the component's own `Init` and `Next` with constants of its own (an `INSTANCE`), and
the variables of the other components are idle.  A run thus asks one
question of several small instances.  A `MC` module that shares its properties with a theorem
EXTENDS the component, so that run and theorem speak of one definition.

| Run | Parts | States | Time |
|---|---|---|---|
| `session_safety` | `kill`, `send`, `restart`, `capacity`, `duplicates`, `failures` | 556 k | 95 s |
| `session_progress` | two sessions, one place, under fairness | 54 k | 40 s |
| `relay_terminals` | `attaching`, `displacing`, `pausing` | 1 116 k | 75 s |
| `relay_requests` | `answers`, `streams`, `cancels` | 352 k | 60 s |
| `pairing` | `devices`, `claims` | 589 k | 50 s |
| `relay_progress` | `collect`, `answer`, `drain`, `poll`, under fairness | 51 k | 30 s |
| `dispatcher` | `turns`, `prefs`, `binds`, `crash`, `deleted`, `prompts` (one cancel), `pieces` (two pieces of text), `stopped` (two cancels), `overlap`, `upserts`, `serial`, `saved` | 845 k | 55 s |
| `processes` | `pipes`, `pty`, `codex`, `calls`, `restored`, `drops`, `all`, `view`, `files`, `idle` | 1 016 k | 45 s |
| `boards` | `tasks`, `serial`, `syncs`, `pulls`, `pushes` | 1 720 k | 90 s |
| `server_progress` | `turn`, `prompt`, `ends`, `owner`, `ready`, `hooks`, `capture`, under fairness | 82 k | 185 s |
| `services` | `installs`, `updates`, `streams`, `files`, `screen`, `breaks`, `agent`, `agents`, `config`, `creates`, `serial`, `torn`, `links`, `access`, `catalogs`, `rates` | 1 634 k | 115 s |
| `send_vs_launch` | one session, spawn and send | violated | |

`CHECK_DEADLOCK FALSE` everywhere: when requests and faults are used up, a server
sits idle, as it may.

### What the properties say

*Sessions.*  `KillReachesRuntime`: once a termination has sent its signals, the runtime attached when
it began is dead or has a monitor with the order to kill it, whatever detach, attach or
second termination came in between.  `LaunchOnce`, `NeverRequeued`: no late clone, event or failed launch sends a
session into the queue again.  `SeenIsSaved`: what a client can see is in a file.
`LaunchesWithinLimits`: capacity is counted once, before a launch, and still holds; two launches for the same work
are not side by side, and no launch is left behind; `CasesWithinLimits` says it of each case.  `SurvivorsAreReattached`: what lives, and whose agent is still
installed, is attached before requests are accepted again, or, where an owner may fail, has a monitor with the order to kill it.
`LaunchesProgress`: no lost wake-up, no launch without an end, no kill without effect.

*Relay.*  `NothingStrands`: a terminal that nobody is connected to always has a request or a timer that removes it.
`ReplacementStays`: neither an earlier attempt's time-out nor the end of an older connection
takes down what replaced it.  `EveryoneIsTold`: while queues have room, who lost its place was sent a Close.
`OutputKeepsOrder`: a browser gets the output of a bridge's connection in order
and never twice, through pauses and reconnects.  `PendingIsAccounted`: a request waits only while its device has a bridge, which
is the one the channel's status is about, and the bytes counted are those of the requests that wait.  `FailsWithBridge`: only the end of the
current bridge fails requests.  `StreamsAreWhole`: chunks without a gap, streams only of bridges that take them, no bridge that streams to
nobody unless the cancellation found a full queue or was dropped with its request (`lost`).  `RatesHold`: the table of buckets is bounded, a claim finds its buckets as long as
no claim has waited for the lock, and a rate is exceeded, beyond what its waits allow, only by a key whose bucket was forgotten.  `BudgetsHold`: every byte counted is that of a message held, within caps.
`RegistryIsWhole`, `UsedOnce`, `ClaimBytesMatch`: file, memory, tokens and caps agree; a code pairs once, a claim is
completed and handed out once.  `DurableSpec`: `RelayPairing` implements `DeviceRegistry`.
`RelayLeavesNothing`: sessions are collected, bytes come back, requests and polls are answered.

*Dispatcher.*  `ThreadIsWhole`: one agent at work, a changed thread is about to be written, an acknowledged turn was heard, acknowledged changes and
deletions stay, each under the requests and faults it needs; the part `turns` is the instance of the configuration, `ThreadsAreWhole` says the same of
the parts with other agents, requests and faults.  `ApprovalAsked`: a turn that needs approval does not end as one that is done with.  `ToldIsSo`: a prompt's client has each piece of the answer
before it is told of the end, and of a tool call no less than its last text is long; the one open tool call is closed unless the prompt fails; and the
bindings a client was told of.

*Server.*  `OutputIsAccounted`, `TurnIsReported`,
`TerminalIsWhole`, `EvictedIsSaved`, `BoardIsWhole`, `SyncIsWhole`, `CardsStay`, `WorkEnds`, `WorkArrives`, `UpdatesAreWhole`,
`BridgeIsWhole`, `AgentTurnIsWhole`, `SettingsAreWhole`, `SettingsStay`: each is a conjunction of named properties of its
component, under the parts for which they hold; the comment before each says it in a sentence.  The hypotheses, and where each hazard is on:
`OutputIsAccounted` counts the bytes to the notice; `TerminalIsWhole` has callers that overlap a restore, hang up and lose their host
(`restored`, `drops`) and failing writes (`files`), under which the capture is in order and has everything, but not once; `EvictedIsSaved` has
output, attaches and failing writes between the looks, and exempts a failed last write.  `CardsStay` has overlapping writers in `tasks` (whoever writes keeps
what he read: `LosesOnlyUnread`) and none in `serial`, `pulls` and `pushes`, where nothing may be
lost, but everything at once where the file could not be read (in all but `serial`).  `SyncIsWhole` has three
pushes that each may fail at each call: a card has at most one item more than there were failures.  `UpdatesAreWhole` says `InstallsNewer` of calls that
are not overtaken by a check, of versions that only increase, and `OfferIsNewer` of all.  `BridgeIsWhole` has connections that end while
two streams run, or between two screens.  `AgentTurnIsWhole` has gateways that are lost at each step: then, and only then, a run may stay.  `SettingsStay` and
`SettingsAreWhole` keep what was added and deleted in memory whoever overlaps, and on disk for requests one after the other, with failed writes in
`serial` and cut ones in `torn`.

### Bounds

Every bound is a constant of an instance: clients, requests, runtimes (never reused), crashes, frames, connections,
capacities, how long a request may wait for a lock (`MaxLate`); `Room` and `MaxCapture` are computed from them.  Capacities are one or two, so that they bind.  Most properties relate two actors that overlap (a termination and
an attach, two attempts for a terminal, a push and an edit), with a third step in between; instances have two or three of each
and one or two of everything else, and each fault is on in at least one part.  What does not depend on more than one session, device or thread has one.
Where three would repeat two (the bytes of a queue, codes, terminals), the theorems cover all sizes.
`MCSymmetry` permutes processes, `Symmetric` calls (never with liveness); `MCView` leaves out what no step of the case reads: with no crash, what a file
holds beyond whether it is there; with no time-outs, the timers.

### Fairness

Weak fairness is assumed of tasks that the tokio runtime polls when they can go on, each step of which nothing disables but
itself or the end of what it works on: the supervisor, a command that began, monitors, consumers, the flush,
start-up; the relay's timers, attempts, forwards and detaches, and the peer that was told to close; readers, the forwarder and the
waiter of a child; a turn's consumer and requests; the board's passes.  Strong fairness only where the code tries again for ever and others
interfere in between: the poll of a prompt's end, and the board automation's spawn and write.  A webhook that GitHub has begun to deliver is delivered.  No fairness of requests, output,
exits, faults, drops, crashes or of people.

`session_progress` leaves out three things under which its properties fail: kill and archive through the *actions* route free a
place and kick nobody (`server/routes/sessions.rs:1194`); a dropped request leaves its session `Spawning` until the next
start-up (`state/spawn_queue.rs:413`), and so does a failed write of the mark (`:443`).

## 4. Where the code differs from what it says

`send_vs_launch` is the one kept as a run: between the insert of a launched record and its attach, a message makes
`ensure_session_live` take the runtime for a lost one and attach it with a second group; the launch's attach is skipped, its kill sender
dropped, and the drop kills the process.  `PROJECT.json` quotes the lines.

The others were met while modelling.  The models contain each of them, so a property named here fails where its part allows
the events (they are stated in the modules; the passing runs use parts that exclude exactly these events, or check a property that names them as its exception).

*Sessions.*  An archive that comes between the launch's last look at a session and the attach leaves an archived session with a live runtime
(`ArchivedHasNoRuntime`).  A restart archives waiting sessions as legacy ones, because they have no runtime mode yet (`QueueSurvivesRestart`).  A crash
between the start of a process and the write of its pid orphans it (`NoOrphanAfterRestart`).  A paused session frees its place and wakes nobody
(`PausedDoNotBlock`).  A
survivor whose agent is no longer installed is restored to nobody: `restore_ttyd_runtime` returns before there is a monitor, the error is logged, and
the process lives on unwatched (`NobodyUnwatched`).

*Terminals.*  While an owner sleeps before it reconnects, a restore makes a second one (`OneOwner`, with drops).  A sender that is dropped has the effect
of a kill, and three things drop that of a living ttyd: that overlap, a client that hangs up while its restore waits for the owner, and the eviction of a quiet host
that nobody watches, with the senders it retained, while the owner sleeps (`KeepsRunning`; `ttyd_launcher.rs:762` says that the process keeps
running).  Past its maximum duration a ttyd is reported and runs on (`StaleEnds`).  Two tasks that emit may
broadcast out of order, and an evicted host may have a subscriber (`Lossless`); a transcript may miss what a flush moves while it is read
(`Transcript`); `dirty` is cleared by the write of an older snapshot (`Survives`).  A host whose last flush failed is
evicted all the same, and its screen lost (`EvictKeeps`); a capture write that fails half-way is repeated whole, so that output is kept twice (`KeptOnce`).

*Executors.*  The notice of an overflow is taken off the byte count and was never added: from then on the count is too low, wraps below zero when the
queue is empty, and the next reader's sum wraps too, or panics in a build with overflow checks (`CountIsRight`).  With a process left behind that holds the terminal, an exit is seen and never reported (`ExitDetected`).  A
handshake that takes too long gives the prompt to `codex exec` as well (`FallsBackBeforeTurn`).  An OpenClaw turn reports a kill nobody sent when the device stays unpaired
although the secret approves it (`KilledOnlyIfAsked`), and overlapping turns lose each other's tokens (`IdentityKept`).  An identity file that cannot be read, or was
torn by a write that failed, is replaced by a new device, which has to be approved again (`IdentityKept` and `OneDevice`, with those faults); the run of a
turn whose gateway is lost, or whose send failed after it had arrived, goes on.

*Dispatcher.*  Agents that were given no input count as gone, so two turns overlap (`OneTurn`); an event may be applied to the turn after its own
(`StaleIgnored`); a message to an agent that just exited is acknowledged and lost (`Heard`); a binding writes a deleted thread back (`DeletedStays`), a turn
being started survives the deletion (`DeletedIsDetached`), and deleting the thread of an OpenClaw turn terminates the server (`ServerLives`); a last
event that cannot be written is not queued again (`Saved`).  When the record of a turn that was just started cannot be written, its handle is dropped, and so is the
sender that would stop it: the agent works on beside the next one (`OneTurn`, with failing disks).  A refused prompt changes the approval state of the turn at work (`PlanHolds`).
The text of a tool call that is replaced by one no longer is not streamed, and neither is its state; an update to a tool call that was closed opens
its card again, which nobody closes (`NoneRunsOn`), one the client was told is over may still run (`EndedIsOver`), and a prompt that fails leaves its card open.  Bindings are
replaced by position in a list that is not sorted (`UniqueIds`), and a thread deleted after its check is bound (`ClearedAfterDelete`).

*Board.*  A pass does not count the queued sessions of the pass before (`WithinShare`); an error in mid-pass leaves cards ready whose sessions
were queued, and the launch of a line without an id never finds that line again, so that the next pass starts a second session (`DispatchedOnce`, without
its exception); a pass overwrites what was acknowledged meanwhile (`UpdateStays`); a line without an id gets a new one from each parse
(`FoundByRef`).  A board that cannot be read is taken for an empty one and written back: every card is lost, and so it is of one that is read while it is
being written (`LosesNothing`, with those faults; in a sync, `CardsKept`).  A push that fails on its way, or whose client hangs up, leaves items that no line names, and the
next makes each of them again (`OneItem`, without the failures it counts).  With the options Todo and Ready a ready card is pushed as Todo and comes back into the inbox (`Onward`).

*Relay.*  A bridge that attaches after its browser's handshake frame was dropped never gets it (`HandshakeReachesBridge`); a reused terminal whose bridge left is not collected
(`LeftBridgeIsCollected`).  When a client hangs up in the middle of a write, the rename goes on without the lock: an older state may replace a newer one (`NeverStale`), and a claim stays
marked busy (`BusyHasCall`); when a write fails after the file was replaced, file and memory differ (`DiskIsMemory`).  A
client that leaves while its stream's cancellation waits for the lock leaves its bridge streaming to nobody (`CancelsAreSent`).  Claims read the clock before they wait for the lock,
and one that waited may make everybody's bucket so old that it is pruned, with a caller's that was just made sure of, or be the oldest of a full table itself: then the `expect` at
`relay.rs:4023` panics, under the lock (`ClaimsFindBuckets`).  In the bridge client a state file that cannot be written ends a connection
and leaves heartbeat, poller and writer running (`NothingLeft`), and answers above 1 MiB or for a full queue are dropped silently.

*Services.*  A refused repository is left half changed in memory (`RefusedLeavesNothing`), two requests for one section lose one
(`SectionsKept`), and a copy saved last may be the older one (`OkIsSaved`): then a project that was
acknowledged is in memory and not in the file.  The file is written in place: when a write is cut off it is a beginning of itself, and a restart finds less than was
acknowledged (`AddedStays`, without `Cut`).  A hang-up between the flag of an update and its job leaves the flag set for ever, and no update starts again until the server does
(`OneAtATime` counts the lost call); the version to install is read before the lock, so a client may install one that is older than what another installed meanwhile
(`InstallsNewer`, without its exception).

## 5. What is proved

Each theorem holds for every value of the constants that the named assumptions of its module admit: any number of sessions, requests, connections,
devices, frames, faults and crashes.  The argument is always an inductive invariant, which TLC checked on an instance before it was
proved, one lemma for what each operator leaves, one per action or group of actions, and the temporal step last.

| Theorem | States | Rests on |
|---|---|---|
| `TypeCorrect` | `SessionLifecycle!TypeOK` | itself |
| `KillIsDelivered` | `KillReachesRuntime` | `KillInv` |
| `LaunchedOnce`, `QueuedOnce` | `LaunchOnce`, `NeverRequeued` | `LaunchInv` |
| `SavedBeforeSeen` | `SeenIsSaved` | `SavedInv`, `LaunchInv` |
| `LaunchesAreDistinct` (no message, restore or crash) | `NoDuplicateLaunch` | `DistinctInv`, `Clones` |
| `LimitsAreKept` (same, and who waits for input stays paused) | `WithinLimits` | `LimitInv`, `PausedInv` |
| `NoLaunchLeftBehind` (no dropped loop, files can be written) | `OneSpawning` | `SpawnInv` |
| `LaunchesAreWithinLimits` | `LaunchesWithinLimits`: types and these three | these |
| `SurvivorsAreAttended` (of agents that are still installed) | `SurvivorsAreReattached` | `ReattachInv`, `LaunchInv` |
| `TurnsAreTyped` | `DispatcherThreads!TypeOK` | `TurnInv` |
| `ApprovalIsAsked` | `ApprovalAsked` | `Calm` |
| `OneTurnAtWork` (input is kept, the disk works, no deletion) | `OneTurn` | `RunsOK`, `HeldOK` |
| `TurnsAreHeard` (an agent per turn, no binding or no deletion) | `Heard` | `Listened`, `Exists` |
| `ChangesAreWritten` (files can be written) | `Saved` | `Owed`, `Order` |
| `AcknowledgedIsKept` (no deletion or binding, one change of preferences) | `AckedOnDisk` | `Acked`, `Exists`, `Order` |
| `DeletionIsKept` (no preferences or binding) | `DeletedStays` | `Removed`, `Order` |
| `ThreadIsKept` | `ThreadIsWhole`: the six above | these |
| `TerminalsAreTyped` | `RelayTerminals!TypeOK` | `TypesInv` |
| `TerminalsAreCollected` | `NothingStrands` | `TimelyInv` |
| `ReplacementIsKept` | `ReplacementStays` | `TypesInv` |
| `OutputIsInOrder` | `OutputKeepsOrder` | `OrderInv` |
| `TheDisplacedAreTold` (queues have room) | `DisplacedIsTold` | `ToldInv` |
| `BytesAreAccounted`, `NothingBackTwice` | `BudgetsHold`, no subtraction goes below zero | `QueuesInv` |
| `RequestsAreAccounted` | `PendingIsAccounted` | `AccountInv` |
| `RequestsFailWithBridge` | `FailsWithBridge` | `AccountInv` |
| `StreamsStayWhole` | `StreamsAreWhole` | `StreamInv` |
| `RatesAreKept` | `RatesHold` | `LimitsInv`, `RateInv` |
| `PairingTypes` | `RelayPairing!TypeOK` | `PendingInv` |
| `PairsAndHandsOutOnce`, `CodesAndClaimsAreUsedOnce` (no abandoned call) | `CodeOnce`, `ClaimOnce`; `UsedOnce` | `PendingInv`, `BusyHasCall` |
| `ClaimBytesAreCounted` | `ClaimBytesMatch` | `PendingInv` |
| `TokensAndCapsHold` | tokens, caps, no refused write of the holder | `RegistryInv` |
| `FileNeverGoesBack` (no abandoned call) | `NeverStale` | `UpToDate` |
| `RegistryStaysWhole` (no abandoned call, no late failure) | `RegistryIsWhole` | `InStep` |
| `RelayImplementsRegistry` (same) | `DurableSpec` | `InStep`, the refinement mapping `memory`/`file` |

The hypotheses in brackets are those under which the statement is true of the code: section 4 says what happens without them.  They exclude events, not
states: every action but those stays.

**Kills.**  `KillReachesRuntime` says nothing about the time before the signals, so it is not inductive.  `KillInv` adds that every kill
sender a host, a launch, a resume or a reattachment holds leads to a monitor that listens or to a dead process (`HeldAreWatched`), that the
host has a sender for the runtime whose input it has, unless that is doomed (`InputHasSender`: this is what retaining senders at a
detach is for), and the same of the runtime a termination is after (`MarkedIsReachable`).  A step keeps it if no monitor is
forgotten (`Stays`), no host loses a sender unused (`HostKeeps`), and supervisor and commands take hold of watched
runtimes only (`SupKeeps`, `CmdKeeps`).

**Launches.**  `LaunchInv` says of every clone under way that it is *settled* (neither unknown nor queued), except in an enqueue, whose id
nobody else has, and of the session of each launched process that it is settled and not the one about to be launched.  A step keeps it if
statuses change only for known sessions and to settled ones (`StatusKeeps`), and no launch starts a process but `SpawnRuntime`
(`ProcKeeps`); the start of a process, the insert of an enqueue, the crash and the load have lemmas of their own.

**Files.**  `SavedInv` says that clones on their way to memory are in a file already, those on their way to the file are of known sessions,
and marks for a flush are too; no step removes a file (`DiskKeeps`).

**Limits.**  `LimitInv` counts not what occupies a place but what occupies one *or is in hand* (`Held`): then selecting a session is the only
step that adds one, and it looks at the limits.  That nothing else adds one needs `Plain` (only starts and terminations are under way),
`Clones` (a clone keeps the key and the branch of its session) and, because a paused session has no place and would take
one when it goes on, `PausedInv`: one that is paused stays so.  `DistinctInv` is the same for fingerprints.  `SpawnInv` says that a session shown as spawning is the
one in hand and that no clone elsewhere says so.  These theorems are the parts of `LaunchesWithinLimits`, which the runs check under the same
hypotheses (`capacity`, `duplicates`).

**Start-up.**  That nobody is forgotten (`NoneForgotten`: what `todo` holds or the loops have done covers each session that lives) is easy while
the loops run alone.  They do not: what was queued is launched meanwhile, and processes end, and either may detach a host by the id of its session.
So `ReattachInv` says that a record names only a process of its session that has started (`RecordsFit`, of memory, disk and all clones, through crashes), that an end
is reported only of a process that is gone (`EndsAreTrue`), and, while the server starts, that of a session's processes only the one on its record has an
input or a watcher (`UsesOne`, `LaunchUses` for the one in hand): then no end of one takes the other's input away.  Once the server serves, a resume has two for a while,
and `UsesOne` is no longer claimed; a crash makes it true again.

**Turns.**  `TurnInv` says where each request may be, that the transition guard is held by the one guarded request under way, and the snapshot guard by the one
who writes.  From it, `HeldOK` is short: an agent at work is the thread's, or the send that started it has it and has not stored it,
or the change of preferences that took it will stop it; the last two hold the transition guard, and find nobody attached.  Nobody
loses an agent at work unless its input is closed, and `RunsOK` says that it stays open until the agent has ended.  `Calm` says that no record, in memory, on disk
or in a copy, is idle while it needs approval.  `Order` says what is on disk while a change or a deletion is between its write
and its insert, `Owed` who is going to write what memory holds, `Removed` that nobody holds a record of a thread that is deleted.  `Acked` says that a message that was
written is in each record that may replace the thread: memory, the snapshot under way, the copies of preferences (`ContentMove`,
`CopiesGrow` say how records follow from one another); and the same of the model that was chosen.

**Terminals.**  `TypesInv` ties sessions to connections: the browser and the bridge of a session are connections of that
terminal, used, of that kind.  `TimelyInv` says for each live terminal which of attempt, time-out and grace timer is there for which combination of
ends; a step keeps it if waits go on (`SameWaits`) or are replaced by others.  `ReplacementStays` follows from the guards that
compare a generation or a connection with the present one.  `ToldInv` holds `DisplacedIsTold` and that nobody is about to undo a creation,
which happens only when a queue is full.  `OrderInv` has two halves: what a session holds back is in order, of bridges of its own terminal with nothing
in flight past it (`BufferOK`), and what a browser got is in order, older than what is in flight to it and than what is held back
(`GotOK`); `PeersOK` says that the peer a forwarder cloned faces it.

**Requests.**  `AccountInv` adds to the property that a request that has not begun is in no table, which is what makes an admission add its
bytes once.  `StreamInv` says who may touch a stream: the bridge asked is a connection of its device that takes streams, and the only one
(`WorkersFit`); the peer a request is to be sent to is one too, and while it is the bridge the request waits (`PeersFit`); a connection that holds an
event, or a cancellation, of a stream has no rival (`HoldersFit`); the end is queued only for streams that left the table (`TracesFit`).  Then
`Whole(id, m)` says of some m that of the chunks 1..m the client has read the first and the others are queued in order, that a chunk in the
hands of a connection is m + 1, and that for a stream in the table nothing else is missing, unless it is about to be cut.  Every step
keeps m, but for the delivery of a chunk, which makes it m + 1.

**Queues.**  Sums of sizes are counted without induction: a message of size n stands for n numbered bytes, and `TotalBytes` is the
cardinality of their union (`ByteCounts`), so that adding and removing a message is a disjoint union.  `QueuesInv` says that the bytes of a
queue and of a budget are those of the messages in the states between charge and release, in the channel or on the way.

**Rates.**  That a claim finds its buckets is said of claims none of which waited for the lock (`late`); dashboards may wait.  Then whoever has claimed has also asked for
everybody's bucket, at the same instant or before it was asked for last (`ClaimsShare`).  So when that bucket is
missing or idle so is the claimant's, both are made anew, and the one just made is the youngest: it is neither pruned nor the oldest, for
there are at least three places.  Where there is room for everybody who asks, only an idle bucket is forgotten, and one that is idle would be full:
what was let through and what is left in the bucket is within burst and refill (`Paid`).

**Pairing.**  `PendingInv` says which codes and claims each call has taken and that calls are serial while they hold the lock.  `RegistryInv`
says the same of tokens, caps and revisions of memory, file and each snapshot to be written; `UpToDate` that nothing older is on its way to the file; `InStep` that file and
memory agree but for the record of the call that holds the lock.  Then each step changes `file` for at most one device, and outcomes follow it: the
refinement.

Only model-checked: the liveness properties (fairness and `ENABLED` are out of the prover's reach), what is defined by recursion over data,
and the properties of the other modules.

## 6. What is left

In this order: the proof of `OneOwner` without drops.  Then models of the
routes that keep state of their own (skills, chat feeds) and of MCP.
