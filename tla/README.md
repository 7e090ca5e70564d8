# Verification of the track manager service

TLA+ models, TLC runs and TLAPS proofs about the Go service in this repository
(`utm-track-manager`, built from a service template). Paths below are relative
to the root of the repository; `tlc -config X.cfg M` checks a run, `tlapm M.tla`
checks the proofs of a module.

## 1. The system

The service subscribes to NATS messages about aircraft tracks, keeps the current
tracks in a map, republishes each change as an event, and keeps a history of
positions in Aerospike. HTTP handlers read the map and the history.

| Component | State | Operations | Interacts with |
|---|---|---|---|
| Message handlers (`internal/service/track.go`, `event_process.go`) | `trackMap` under `rwm` | `ReceiveNATSMsg`, `ProcessIpcEvent`, `processIpcTrackUpdate`, `...Remove`, `...Statistic`; map helpers; `convertIpcTrackToTrack` | one goroutine per NATS message; publishes `track.update`, `track.delete`, `track.all`; calls the history pipeline |
| History pipeline (`track_history.go`) | `historyCh` (10000), the worker's `batch` and `timer`; the Aerospike set | `CreateTrackHistory`, `ProcessBatchHistory`, `InsertBatchTrackHistory`, `DeleteTrackHistory`, `FindByTrackId` | handlers (producers and deleters), one worker goroutine, Aerospike |
| Websocket hub (`internal/hapi/websocket/hub.go`) | `clients`, the channels `register`, `unregister`, `broadcast` | `Register`, `Unregister`, `Broadcast`, `run` | HTTP connection handlers; created in `hapi.NewServer` |
| Task runner (`internal/service/util/concurrency.go`) | `sem`, `wg`, `errCh` of a call | `RunAll`, `RunAllWithLimit` | library; no caller yet |
| Process life cycle (`cmd/start.go`, the systemd unit) | `errs`, subscriptions, the NATS client, `workers` (cron); the secondary indexes in Aerospike | start-up in order, `MigrateDB`, SIGINT, fatal errors, restart after 3 s | everything |
| Socket.io connections (`cmd/start.go`) | `conns` under `connMutex` | `OnConnect`, `OnError`, `OnDisconnect`, `cleanup` | the goroutines of go-socket.io; `runServer`'s `err` |
| HTTP and gRPC servers, gRPC client (`internal/hapi`, `internal/gapi`) | the router; `Client.conns` | start, failure, read handlers (`/ready`, `/tracks`, `/track-histories`), `GetConn` | the map, the history, `errs` |
| Aerospike connection (`internal/db`) | the client | `ConnectDatabase`, `buildHosts`, `EnsureSecondaryIndex` | start-up |
| Helpers (`internal/service/util`) | none, or files | arrays, `CopyFile`, `CreateFolders`, zip and unzip, searches, `Retry`, `RunCommand` | - |
| Configuration, logging, metrics, tracing, i18n, RabbitMQ publisher, protobuf code | constants and output | - | not modelled, see section 8 |

### What is hard

* Every message has its own goroutine and no order is kept between messages. A
  handler takes the lock once for each access, so publish, map change and
  history are separate steps and a statistic removes what it saw missing *before*.
* A history record is stamped, then waits for room in the channel, then in the
  channel, then in the batch; a removal scans a store that the worker writes to
  at the same time.
* A write may fail in the middle of a batch, and a write or a delete that timed out
  may be applied at any later time. The timer and the size of the batch both trigger
  flushes, and the timer may fire during one.
* Nothing but the Aerospike set survives a crash, and a malformed message panics
  in a handler, which ends the process.
* The hub's three channels have no order between them; its loop deletes clients
  from the set it ranges over.
* A socket.io session has three goroutines that enter `runServer`'s handlers: a
  DISCONNECT, an error and the close of the connection may clean up at once, and a
  CONNECT, the first or another one, may come when the close is over.
* Whatever fails at start-up fails in its own way: `log.Fatal`, `errs` (read only at
  the end of `runServer`), or silence (`QueueSubscribe`). Servers accept requests before
  the migration; an index that is half built is found, and not waited for, by the next
  process.
* The helpers have edges in their data: nil pointers, numbers cut to their width,
  folders in one another or below a file, an archive in the folder it is made of.

## 2. Modules

| Module | What it is |
|---|---|
| `HistoryLog` | what the pipeline promises: an append-only log whose records are settled in order, each written at most once |
| `TrackHistory` | the pipeline: senders, `historyCh`, worker, flushes, timer, deletions, crash and restart |
| `Conversion` | `convertIpcTrackToTrack`, by the presence of its fields |
| `TrackManager` | the message handlers; EXTENDS `TrackHistory`, whose actions its own actions call, and `Conversion` |
| `HistoryQuery` | `FindByTrackId` and its HTTP handler, as functions |
| `TrackHistoryProofs`, `TrackManagerProofs` | their theorems |
| `SocketConns` | the socket.io sessions and `conns` |
| `ServerLifecycle`, `ServerLifecycleProofs` | `runServer`, its goroutines and its restarts; EXTENDS `SocketConns`; the theorems of both |
| `WsHub`, `WsHubProofs` | the websocket hub and its callers, and its theorems |
| `TaskRunner`, `TaskRunnerProofs` | `RunAllWithLimit` (and `RunAll`), and its theorems |
| `ArrayUtil`, `Hosts`, `FileUtil` | array helpers, `buildHosts`, file helpers, as functions |
| `SequenceFolds` | lemmas: induction, folds as loops |
| `HelperProofs`, `FileProofs` | the theorems about all pure functions |
| `MCTrackHistory`, `MCTrackManager`, `MCWsHub`, `MCHelpers` | symmetry, message sets and inputs for TLC |

`TrackManager` composes with `TrackHistory`: `RecordHistory` and `SendHistory`
are `CreateTrackHistory` and `Send` with the handler's control state, and so on.
`UsesPipeline` says that the composition implements `HistorySpec`, and
`ImplementsLog` that the pipeline implements `HistoryLog`; both are checked and
proved, so that the service implements the log. `ServerLifecycle` composes with
`SocketConns` in the same way: sessions come through its HTTP server, and the panic of
a session is the end of its process. `MCHelpers` puts the pure functions behind
`TaskRunner`, so that one run evaluates each on every input of a small set.

Some definitions have *mutants* next to them: variants with a plausible bug, named
in a comment. No specification uses them; they show that each property can fail.

### TrackHistory and the code

| Model | Code |
|---|---|
| `CreateTrackHistory(g, id)`, `Send(r)` | `CreateTrackHistory` before and at `s.historyCh <- ...`; `Send` waits while the buffer has `QueueCap` records |
| `Receive` | the receive case; `worker' = "full"` if `len(batch) >= s.BatchSize` |
| `TimerFires`, `TimerCase` | the timer's tick, and its case (`flush` returns at once on an empty batch) |
| `PutBins`, `FlushDone`, `FlushFails` | one iteration of `InsertBatchTrackHistory`, its end, and a returned error, after which a write that timed out is in `late` |
| `EndFlush` | `batch = batch[:0]` on both ways out of `flush`, then stop, drain and `Reset` of the timer |
| `ApplyLate` | the server applies a write or a delete whose client has given it up, at once or long after, in any order |
| `QueryHistory`, `DeleteRecord`, `DeleteDone`, `DeleteFails` | `DeleteTrackHistory`: the query, one record of the scan, and its ends; a scan may also yield a record written since it began |
| `Crash`, `Restart` | the end of the process, however it comes about; systemd's `Restart=always` |

`late` holds the commands that timed out and may still be applied, the writes of
`FlushFails` and the deletes of `DeleteFails`. A write is sent once, since the policy of
`InsertBatchTrackHistory` allows no retries (`MaxRetries` is 0 in `NewWritePolicy`), so no
copy of it is left behind when it succeeds. `EndFlush` is one step because nothing can come
between its parts: `go.mod` asks for Go 1.24, and since 1.23 `Stop` discards a tick that
nobody has received, so that the drain after it is never taken and a stale tick cannot follow.

The worker's context is `context.Background()` and nothing closes `historyCh`,
so the other two ways out of its loop never happen. A record is a track, a
millisecond and an author; the positions in it matter to no property. The key is
`track_id:created_at`, which `SameKey` is. `sent` and `found` are history
variables.

### TrackManager and the code

The handler of a message is a `pc` in the order of the statements of its
function: update `received` (publish) - `mapping` - `recording` - `sending`;
remove, for each id of its list, `received` (publish) - `unmapping` - `erasing`
(query) - `deleting` (scan); statistic `received` (read the ids, `diffArray`) -
`pruning` - `announcing`. A message's list may be empty or repeat an id.

The conversion is abstracted to the four outcomes of `Conversion` (`Forms`): a full
track; a track with an error that has an Identification; one that has none; a panic.
`FormsOfConversion` says that these are all outcomes of `Convert`, over the presence
of every field. The error is ignored, as in the code. A track in the map is the goroutine whose
message it came from, so that a replaced track can be told from its replacement.
`announced` and `missed` say what subscribers have heard, and keep it when the process
crashes and starts again; `before[g]` which handlers had returned when the one of `g` began.
The returns after `proto.Marshal` (`track.go:64`, `138`, `169`) are left out, since it cannot
fail: what it would refuse is a string that is not UTF-8, and the only strings that come from
outside, those of the message, have passed the same check in `proto.Unmarshal`.

`GetTrack` and `GetAllTracks` change nothing and are left out; `FindByTrackId` is in
`HistoryQuery`.
`broadcastTrackInfo` reads only, and is never run (section 7). `createTrackInfo`
has no caller.

### WsHub and the code

`register`, `unregister` and `broadcast` are the channels' buffers; `hub` and
`todo` are the control state of `run`, a broadcast being one step per client in
any order, since it ranges over a Go map. No code in the repository calls
`Register` yet. The model assumes the use the methods' comments describe: a
connection is registered, then unregistered, once, by one goroutine. A peer may go
at any time; after that a write fails, or still succeeds for a while.

### TaskRunner and the code

The caller's loop, its semaphore and its wait are one process, each task another.
Deferred calls run in reverse order, so a goroutine returns its token (`Release`)
before it calls `wg.Done` (`Done`). A task's work is one step with either outcome.
`RunAll` is the same function without the semaphore.

### SocketConns and the code

Who may call the handlers, and when, is read from the vendored go-socket.io: a session
has a goroutine in `conn.Serve`, which waits for the end and then closes (`serve`), one
that reads packets (`reader`) and one that passes errors on (`failed` is what it still has to
pass on). The CONNECT packet joins the namespace before it calls `OnConnect`
(`ConnectPacket`, `JoinNamespace`, `OnConnect`); a second CONNECT of a session that has
joined calls `OnConnect` all the same, whose new entry of `conns` replaces the old one, or
takes the place of one that `OnError` has removed. The DISCONNECT packet leaves it before
it calls `OnDisconnect`. `Close` calls `OnDisconnect` if the namespace is joined when it
looks. Both ways of calling it evaluate `err.Error()` first: `ErrIsSet` is the guard of
the ways out that do not panic. While `runServer` writes `err` the read is a data
race, so that both outcomes are possible. `written` and `late` are history variables: the
sessions for which packets have been queued, whose writing may fail at any later time, and
those whose `OnConnect` ran after `Close`. That the context of a replaced entry is never
cancelled has no effect, since nothing waits for it.

### ServerLifecycle and the code

`main` is the next statement of `runServer` that matters: the configuration, Aerospike,
NATS, the servers, `CreateIndex` and its wait for each of two indexes, the goroutines,
the wait for an error. `http`, `grpc` and `signals` are goroutines that run beside it, `errs`
counts the errors in the channel. `GrpcFails` ends the process itself
(`PrintFatalLog`), `HttpFails` sends to `errs`, which is only read at the end:
`TakeError`, then `Terminate`. The indexes are in the store and survive the process;
`interrupted` remembers those whose build a process left behind, which
`EnsureSecondaryIndex` takes for done (INDEX_FOUND). `nats` is the client of nats.go:
it reconnects a limited number of times, then closes. A subject is subscribed to in a
goroutine of its own, whose error is ignored. The cron scheduler has no step.

### The pure functions and the code

`Conversion.Stops` lists, in the order of the code, the checks and the unchecked
dereferences of `convertIpcTrackToTrack`. `HistoryQuery` keeps the widths: `Atoi`
saturates, `int32()` wraps, `make` panics for a capacity that is negative or too large; the
scan delivers records in any order. In `ArrayUtil` and `Hosts` a call returns the set of
what it may return, empty for a panic or an error. `FileUtil` works on a file system of
folders and files and returns the one a call leaves, and whether it returned an error, in the
order of the code's statements: `Then` is its `if err != nil { return err }`. Calls of
`os` fail where the tree makes them fail (a file where a folder should be, or above a path
that is to be removed), not at random. `ZipDir` creates the archive before it walks, so
that a walk that fails leaves one that is empty or unfinished; an archive inside the folder it
is made of becomes an entry of itself, empty if nothing has been flushed when the walk
gets there (the argument `flushed`), and else is copied into itself until the disk is full.
`SearchFiles` takes a pattern as the set of the names it matches, or as one that does
not compile. Links, rights, and paths that end in `.` are left out.

## 3. Runs

| Run | Checks | Bounds |
|---|---|---|
| `history` | `TypeOK`, `InFlightInOrder`, `WrittenOnce`, `TimerLive`, `ScanCovers`, `LeavesByItsKey`, `ImplementsLog` | 3 goroutines, 1 track, 2 milliseconds, channel 1, batch 2, 1 late command at a time (1.3 million states) |
| `map_races` | `ManagerTypeOK`, `NoStaleTrack`, `NoLostTrack`, `AgreesWithSubscribers`, `UsesPipeline` | 3 overlapping messages of every kind and form about 2 tracks, 1 late command at a time (2.2 million states) |
| `handlers_live` | `HandlersReturn`, `EveryRecordSettles` | 3 overlapping updates, one form of which panics, and removals of 1 track, channel 1, batch 2 (340 thousand states) |
| `hub` | `HubTypeOK`, `EveryClientGetsAll`, `ClosedAreGone`, `CallsReturn`, `RegisteredJoins` | 2 connections, 3 broadcasts, channels of 1 and 2 |
| `service` | `ServerTypeOK`, `ClosedAreForgotten`, `MigratedBeforeMessages`, `ErrorsReachMain`, `NoSubjectForgotten`, `FailureEndsProcess`, `ServesAgain` | 1 session, 2 subjects, 2 indexes, any number of restarts (330 thousand states) |
| `helpers` | the four properties of `TaskRunner` and `CallReturns`; `ConversionIsWhole`, `QueryAnswers`, `ArraysKeepValues`, `HostsAreKept`, `CopyKeepsFiles`, `FoldersAreMade`, `ZipRoundTrip`, `SearchIsExact` | 4 tasks, limit 2; the inputs below |
| `removed_history` | `RemovedHistoryIsGone`: violated | 2 messages |
| `rejected_track` | `RejectedIsNoTrack`: violated | 2 messages |
| `hub_unregister` | `UnregisteredIsGone`: violated | 2 connections |
| `empty_folders` | `FoldersAreZipped`: violated | the trees of `helpers` |
| `ready_early` | `ReadyIsReady`: violated | 1 start |
| `socket_disconnect` | `LeavingIsPrivate`: violated | 2 sessions |

What the main properties say:

* `InFlightInOrder`, `WrittenOnce`: whatever fails, the channel and the batch are
  exactly the last accepted records in order, and no record is in the store or in a
  timed-out write while it waits to be written, nor in both - so none comes back after
  it was deleted.
* `ScanCovers`: a deletion that returns nil has deleted all it found, although the
  worker, other deletions and late commands change the store under its scan.
* `LeavesByItsKey`: records of a track leave with a call that is deleting that track's, or
  by a late delete of their own key, or under a record of their own key.
* `NoStaleTrack`, `NoLostTrack`: handlers of messages that overlap may win in any
  order, but a message that was over before another arrived never overrides it,
  and a track leaves the map only because of a message not over before its update.
* `AgreesWithSubscribers`: a track whose messages were handled in turn is in the map exactly
  if the running process has handled one and subscribers who missed no event believe in it,
  whatever happens meanwhile to other tracks, a statistic included. After a crash they may
  believe in tracks that the map has lost; the next message about such a track puts both in
  step again. For overlapping messages about one track the property would fail, which is the
  known price of a goroutine per message and contradicts no document.
* `EveryClientGetsAll`: a client misses no accepted message and gets none twice,
  though others fail in the same loop.
* `ClosedAreForgotten`: three goroutines may clean up after a session and one may
  enter it. When its close is over it is forgotten, unless a DISCONNECT is still being
  handled or a CONNECT of it came too late; the second leaves an entry for ever.
* `MigratedBeforeMessages`: no message is handled before both indexes are built, except
  for an index that an earlier process left half built.
* `ErrorsReachMain`: the error of an HTTP server that failed is in `errs` until `runServer` has
  taken one, and neither the server nor the interrupt signal waits for room. (A failure of gRPC
  ends the process itself; NATS reports to nobody.) `NoSubjectForgotten`: a subject that was
  subscribed to is only given up with the whole NATS client.
* `FailureEndsProcess`: an HTTP server that fails during the migration leaves its error
  in `errs` before anyone reads it, and the process ends all the same.
* `ServesAgain`: if faults end, the process is in the end up for good, with both servers,
  all subscriptions and both indexes, or up with a NATS client that gave up. The second is a state
  the code can be in for ever: nothing listens for the closed connection.
* The properties of the pure functions compare each with what it is for: `QueryAnswers`
  says which records are left out, and which track is answered when ids are cut to 32 bits,
  `ArraysKeepValues` that equal values are kept once and exactly when a nil pointer panics in
  `Unique`, `AppendUnique` and `Remove`, `FoldersAreMade` that recreated folders are empty
  although they contain one another and what a failure may cost, `CopyKeepsFiles` what a failed
  copy may cost, `ZipRoundTrip` that every file comes back, wherever the archive and the target
  are, and no other is touched (`FoldersAreZipped`, which asks the same of folders, fails: finding
  6), `SearchIsExact` that a search with paths repeats no file, and one without
  names the same files.

### Why the bounds are enough

A channel of one place and a batch of two make all the boundaries happen with
three senders: one waits at the send, one record is in the channel, one or two are
in a batch, or half written. Two milliseconds let a key be shared and be different;
that deletions leave the records of other tracks alone, for which `history` has one track too
few, is proved (`LeavesOnlyByKey`). One late command at a time overtakes, or is overtaken by,
every flush and every deletion; the theorems cover any number. In `handlers_live` `MaxLate`
is 0: the server owes nobody a late command, and none makes anyone wait. Three handlers are one more than
any race of the handlers needs: a message that is over, and two that overlap.
A capacity of one makes callers of the hub wait with two connections; a failing
client and one that goes on show what a broadcast owes the others. Four tasks on two
tokens make the caller wait and several tasks fail while others run.

Sessions touch each other through `conns`, where each has its own key, and through the end
of the process, so one session meets every race of its three goroutines; the
theorems cover any number. Two subjects let one be subscribed to before an outage and one
after. An `int` of 4 bits (`IntHalf` is 8) and an `int32` of 3 (`Int32Half` is 4) have numbers beyond both ends of each, between
the two widths, and negative ones; a track of three records, sizes around three and
another track's record show every cut. Arrays have up to three elements of two values and nil;
host lists up to three entries of every form. The file trees are all those with two
names in a folder and two levels, and every path in them is a source, a destination,
a folder to recreate or to search, or to zip into an archive at any path, itself included.

The bounds are `MaxTime` (clock), `MaxLate` (late commands), one message and one record per goroutine,
`MaxBroadcasts`, `MaxLen` and the input sets of `MCHelpers`; a session is used once in
the life of a process. `CHECK_DEADLOCK FALSE` is set because each
system stops: messages, broadcasts and tasks are finitely many, and a service with
nothing to do waits. Symmetry is used in runs of safety properties only.

## 4. Fairness

* `WF` of the worker's steps, of each handler, of the callers of the hub and of the
  tasks: the Go scheduler runs every goroutine that can run. Which of a step's
  outcomes happens (success or failure) is free.
* `SF(Receive)`: Go's `select` chooses at random among its ready cases, so a receive
  that is ready again and again is taken in the end although the timer's case may
  be ready each time too.
* `SF(Register(c))`, `SF(Unregister(c))`: the goroutines that wait to send on a
  channel are served first come, first served.
* `WF(TimerFires)`: a timer that was reset fires. `WF(RestartService)`: systemd has
  `Restart=always`.
* `ServerFairness`: `WF` of `runServer` and of its goroutines (the Go scheduler), of
  `StartProcess` (systemd), of `IndexIsBuilt` (the store builds an index whether or not a
  client waits), and of the NATS client, which goes on trying until it gives up. The
  choice between success and giving up is free.
* In `HubFairness` a write ends, with or without an error. `WriteMessage` has no
  deadline, so this is an assumption about the peers, not a fact of the code.
* In `FairRunnerSpec` every task returns, which is its author's business.

No other action of the environment (messages, failures, crashes, signals, peers that
go, sessions) is fair.

## 5. Proofs

All theorems hold for every value of the constants that satisfies the modules'
assumptions: `PipelineConfig` (a positive channel capacity; any batch size,
0 included), `MessagesAssumption` (messages have the shape the handlers decode),
`RunnerConfig` (a positive limit), `HubConfig` (positive channel capacities), `QueryConfig`
(an `int32` no wider than an `int`). `ServerLifecycle` needs none.

Every invariant and every action property that a passing run checks has a theorem.

**TrackHistoryProofs.** `TypeCorrect`, `InFlight`, `AtMostOneWrite`, `ScansCover`,
`LeavesOnlyByKey`, `TimerIsLive`, and `Refinement`: `HistorySpec => ImplementsLog`. The inductive
invariant `IInv` adds to the properties: each goroutine has at most one record,
before or after acceptance (`OneRecordEach`); all that is in the store, or was when
a scan began, is among the first `Settled` records of the log (`StoreIsSettled`);
a scan's records are of its track (`FoundOfTrack`); a batch never exceeds its limit
(`BatchBounded`). `WrittenOnce` follows because a waiting record has a larger index
in the log than any settled one, and no two indices hold the same record; `LateIsNew` says of a
write that timed out that it is not in the store and was found by no scan.
`ScanCovers` alone is not inductive: a write could put back a record the scan has
deleted. It cannot, because the record found was settled and the one written is not.
In the refinement `Settled` counts what was accepted and waits no more: `Send` is
`Accept`, `PutBins` is `Settle`, `FlushFails` is `GiveUp` (at most a batch, by
`BatchBounded`), `ApplyLate` of a write is `WriteLate`, `Crash` is `Lose`, a delete is `Forget`,
all else stutters. `NoneComesBack` draws the line that finding 1 is about: a record that is
settled and neither in the store nor in a write that timed out never returns; only one not
yet settled, or timed out, can be written after a deletion.

**TrackManagerProofs.** `ManagerTypeCorrect`, `ServiceUsesPipeline`,
`TracksAreNotStale`, `TracksAreNotLost`. `PipelineSimulated` shows each step to be a
step of the pipeline, so that `IInv` carries over; it needs `CallsMatch`, which ties
a handler's `pc` to its traces in the pipeline. The race properties need to know that
the handlers in `before[g]` have returned (`BeforeReturned`), that a track in the map
comes from an update that has been applied (`TracksApplied`), and what a statistic's
snapshot is still good for when it removes (`GoneCovers`): every unlisted track that
was there when it began, and is still there, is in `deleteTrackIds`. `ServiceInherits`
collects what therefore holds in the service of all that is proved of the pipeline.

`SubscribersAgree`, in the same module, is `AgreesWithSubscribers`. The property speaks
of tracks whose messages are all over; to be inductive it must say where a track
stands while the last of its messages is under way. `Agreement` does so for every track
whose messages came in turn (`InTurn`): `Progress` gives, for each position of each kind of
handler, which of the two sides - the subscribers, the map - has been told. A handler
that publishes about a track cannot be overtaken by another about the same track, since
that one would not be in turn; one about other tracks does not touch its entries, and
`CurrentInList` says which entries a handler touches. `PositionsMatch` excludes positions of
another kind, and `DownIsEmpty` starts a new process with an empty map.

`HandlersNeverStuck` is deadlock freedom of the handlers with the worker: a handler under way
can go on, or it waits at a full `historyCh` and then the worker can go on. It needs the
converse of `CallsMatch` (`CallsHeld`): a handler at the channel has a record there, one in
a scan has a scan.

**ServerLifecycleProofs.** `ServerTypeCorrect`, `ClosedForgotten`,
`MessagesAfterMigration`, `ErrorsAreKept`, `SubjectsAreKept`, for any number of sessions and
subjects. `ClosedAreForgotten` is not inductive: a `Close` that sees no joined namespace calls
nobody. `EntriesHaveOwner` says that it then has nothing to clean up. `MigratedBeforeMessages`
needs where `runServer` is: `BuildersInv` says of each index that it is built once `runServer` is
past it (`Passed`) and that one under construction is awaited, or was left by a process that
ended; `SubscribersInv` that subscriptions begin after that. `ErrorsReachMain` needs a count:
`ErrorsInv` says that `errs` holds the errors that the HTTP server and the signal handler have
reported, but for the one `runServer` has taken, and `NotStartedInv` that a goroutine which
`runServer` has not started has reported none.

**WsHubProofs.** `HubTypeCorrect`, `NoClosedClient`, `Delivery`, `CallOrderKept`. The invariant
`HubIInv` adds two things to the properties. `RegisteredOnce`: the connections waiting in
`register` are distinct and fresh, that is no clients, not closed and without a message,
since a handler registers its connection once; without it a closed connection could join
again. `LoopInv`: while the loop writes, the clients still to visit joined before
the last accepted message. `Due` is a slice of the log of accepted messages, and the
lemmas `SliceOfAppend` and `SliceGrows` say how slices change when the log or the
slice grows. `CallOrderKept` goes from the calls of `Broadcast` to the peers, and speaks of
connections that are no clients any more too: the accepted messages increase
(`CallsInOrder`), and what a connection has is a gapless piece of them (`GotSlice`).

**TaskRunnerProofs.** `RunnerTypeCorrect`, `LimitKept`, `AllTasksEnd`, `ErrorsAreReturned`:
`sem` and `wg` are the cardinalities of the sets of goroutines they stand for (`CountInv`), and an
error is on its way to `errCh`, in it, or returned (`ErrorInv`). `CallNeverStuck` and
`EveryStepCounts` are what `CallReturns` is without fairness: until the call has returned
someone can go on, and each step lowers `StepsLeft`, which begins at 6 for each task and 2.

**SequenceFolds, HelperProofs, FileProofs.** The pure functions, for all inputs: sequences of any
length, values of any kind, finite histories, finite trees of any depth. `Converted`, `HostsBuilt`,
`NewestReturned`, `OneTrackReturned`, `UniqueKept`, `AddedAndRemoved`, `Copied`, `Recreated`,
`ZipKept` and `Searched` state the predicates that TLC evaluates on the inputs of `MCHelpers`;
`AcceptedWhole`, `HostsKept`, `QueriesAnswered`, `ArraysKept`, `CopyFaithful`, `FoldersMade`,
`ZipRestored` and `SearchExact` draw from them the invariants of the run `helpers`. What the
general theorems assume is what the store or the file system guarantees: a history is finite and
has one record of a track at a time (its primary key), a file lies in folders that
exist (`IsTree`), and no path is both. `Recreated`, `ZipKept` and `Searched` speak of calls
that fail as well: which error is possible, and what it leaves.

The induction these need cannot be taken from the library, whose theorems have the
property as an operator parameter. `SequenceFolds` states it for *sets*: `InductionSet` and
`RangeInduction` say of a set of numbers that it holds them all, and the proof of a loop
puts the turns that keep its invariant into such a set; it comes from the
well-foundedness of `<` as a relation. `FoldLoop` then shows once for all that `FoldLeft` is a
loop: there is a sequence of its values, one a turn (`FoldExists`). The invariants say, for
`buildHosts`, that the hosts so far are those of the entries so far that are not blank, by
`Rank`; for `Unique`, that the result has the first occurrences so far, in their order; for
`Unzip`, that the files so far are those of the names so far. `Sorted` is a choice of a
bijection, and exists because the number of records that come before each, ties settled by
position, is one (`SortOrderExists`). `SearchFiles` is a recursive function;
`SearchEnds` builds it by depth and shows that there is one, before `Searched` shows, from the
deepest folders up, what it returns.

Not proved, and only model-checked, is liveness: `EveryRecordSettles`,
`HandlersReturn`, `CallsReturn`, `RegisteredJoins`, `CallReturns`, `FailureEndsProcess` and
`ServesAgain`. It needs fairness, and `ENABLED`, which the proof system does not reason about.
What is proved of it is what holds under any schedule: `HandlersNeverStuck`, `CallNeverStuck`,
`EveryStepCounts`, `TimerIsLive`, `ErrorsAreKept`. The guards in these theorems are written out,
for want of `ENABLED`; they are the guards of the actions they name.

## 6. Findings

1. *Removed history comes back* (`removed_history`). "DELETE track history"
   (`track.go:153`) deletes what the store holds; records of earlier updates that
   still wait in the channel or the batch are written afterwards and stay.
2. *Rejected updates are used* (`rejected_track`). `processIpcTrackUpdate` ignores the
   error of `convertIpcTrackToTrack` (`track.go:60-62`; without `Msg` the log entry is
   not even emitted). The half-converted track is published and put into the map, and
   one without an Identification makes `CreateTrackHistory` panic.
3. *Unregister before Register* (`hub_unregister`). The two calls go through different
   channels, so `run` may handle a connection's `Unregister` first, to no effect, and
   then keep the connection as a client.
4. *Ready too early* (`ready_early`). The HTTP server listens before `MigrateDB` has
   created the indexes (`start.go:238-257`), and `/ready` looks at the server's fields and
   at the store's build only: it answers 200 while queries by `track_id` have no index.
5. *The first client that leaves ends the service* (`socket_disconnect`). `OnDisconnect`
   calls `err.Error()` on `runServer`'s `err` (`start.go:219`), which is nil in normal
   operation; the panic is in a goroutine of the library that recovers nothing.
6. *Empty folders are not zipped* (`empty_folders`). "Zip all files and folders in dir
   path" (`file.go:175`): the walk names a folder's header and returns before it adds it to
   the archive (`file.go:211-214`), so that a folder which holds no file is lost, although
   `Unzip` has a branch that would make it again.

## 7. Seen in the code, not modelled

No document of the repository promises anything about these, or nothing calls the code.

* `workers` (`track.go:31`) is never started, so `broadcastTrackInfo` never runs although
  `start.go:276` announces it.
* `SIGINT` ends the process without the final flush that `ProcessBatchHistory` has for
  a cancelled context.
* `RunAllWithLimit` with limit 0 waits for ever.
* `InitLog` creates the folder of `resolveLogDir` but writes to `LogDir`; the error of
  `InitI18n` is ignored; the heading of a history record is stored and never returned.
* `buildHosts` takes what follows the last colon for the port, also in an IPv6 address.
* `CopyFile` never closes its source, and two different names of one file make it copy the
  file onto itself, emptied.
* `RunCommand`'s goroutine ends neither with the command nor with its context.

## 8. Not modelled, and why

* `pkg/pb` is generated code, 31 000 of the 36 000 lines of Go that are not vendored; it
  has no control of its own, and its messages are the records and the presence
  flags of `TrackManager` and `Conversion`. What this project can model is in the
  remaining lines. `docs` is generated and `vendor`
  third-party code, of which `SocketConns` models what it needs of go-socket.io.
* Configuration, logging, metrics, tracing, i18n and the health probes keep no state that
  others read; what they configure are the CONSTANTS of the modules.
* The RabbitMQ publisher and the gRPC client are not created by `runServer`, and the gRPC
  server registers no service of its own beyond what `grpc` stands for.
* The byte-level helpers (`crypto.go`, `transform_type.go`) transform data without control.
* `GET /tracks` copies the map under its lock. The other array helpers are single loops;
  `SearchDirs` and `ZipFiles` are variants of what `FileUtil` has; `Retry` and `RunCommand`
  have no caller.
* Aerospike, NATS and systemd appear as the steps the service sees of them.

## 9. Plan

What is left, the most consequential first:

1. Proofs: `CallsReturn` and `FailureEndsProcess` without fairness, as was done for the task runner
   (the hub and its callers are never stuck; an error in `errs` is followed by a bounded number of
   steps of `runServer`); an abstract hub (a log of accepted messages, and for each connection
   the piece of it that it has) that `WsHub` implements.
2. Several instances of the service in one NATS queue group, each with its own map, and
   the history they share.
3. `ServerLifecycle` with `TrackManager`: messages only for a process that has subscribed, and a
   crash of the one the crash of the other. Today each has its own.
4. `Client.GetConn` of the gRPC client, if the service begins to create one.
5. `SearchDirs`, `ZipFiles` and `Retry` in `FileUtil` and a module of their own.
