# serve-emu: models and proofs

TLA+ specifications of serve-emu, the server that streams an Android device to
browsers. Paths are relative to `src/packages/serve-emu/src/` unless they start with
`src/`.

The program is one JavaScript process: one callback runs at a time, and every `await`
is a point where anything else may run. An action of a model is the code from one such
point to the next. Where the program awaits something external (a socket, an adb
process, a timer), the answer is an action of the environment. The browser viewer is
another such process, and its worker a third.

## 1. The system

| Component | State | Operations | Talks to | Module |
|---|---|---|---|---|
| Session manager (`device-session-context.ts`, `DeviceSessionManager`) | `#current`, the promise chain `#tail`, `#transitionController`, `#closing` | `switch`, `replace`, `stop`, `close` | contexts; called by the HTTP endpoints | `DeviceSessions`, `PublishedSession` |
| Context, one per generation (`ActiveDeviceSession`) | status, abort signal, cleanups, drains, clients | constructor, `registerCleanup`, `trackDrain`, `dispose` | its stream, input queue and device state | `DeviceSessions` |
| Device state (`device-session-state.ts`) | owners, replay targets, recorder, route, logcat | `acquire`, `activate`, `release` | shared by the generations of one device | `DeviceSessions`, `DeviceServices` |
| Server (`server.ts`) | status of every client, settings per serial | `prepareContext`, `activateContext`, frame pump, `markTerminal`, the switches, `stop` | everything | `DeviceSessions`, `StreamDelivery` |
| HTTP endpoints (`server.ts`, `middleware.ts`) | the requests under way, the transitions of AVDs and devices | device settings, AVDs, signaling, replay, gestures, stream settings | adb, emulators, the components | `SessionRequests`, `AppRequests` |
| Control input (`control-input-queue.ts`) | pending entries, depth, bytes, open pointers | `enqueue`, `enqueueVideoReset`, pump, `close` | the scrcpy control socket or a semantic dispatcher | `ControlInput` |
| Uploads (`upload-manager.ts`) | queue, active jobs, cancelled generations, totals | `run`, `cancelGeneration`, `close` | request and session abort signals, a timer | `Uploads` |
| HTTP bodies (`request-body.ts`, `multipart-upload.ts`) | bytes read, staged file | read, stage, clean up | uploads | `RequestBodies` |
| Frame delivery and recovery (`session-recovery-watchdog.ts`, `sendFrame` of `server.ts`) | who awaits a key frame, since when, cooldowns | `tick`, `markAwaiting`, `keyFrameAccepted`, `requestVideoReset` | the input queue, client sockets | `StreamDelivery` |
| WebRTC (`webrtc-publisher.ts`, `webrtc-signaling.ts`) | peers, cancelled sessions | offer, send, close | browsers | `WebRtcPublisher` |
| Scrcpy transport (`scrcpy.ts`, `stream-session.ts`) | process, forwards, sockets, read buffer | start with deadlines, read frames, close | adb, `exec.ts` | `ScrcpyLaunch`, `StreamFraming` |
| Emulator capture (`grpc-session.ts`, `grpc-mmap.ts`, `h264-encoder.ts`) | image queue, pacer, the shared file of screenshots, encoder process, parser, packet queue | capture, pace, encode, restart, close | ffmpeg, the emulator | `GrpcCapture`, `GrpcPackets`, `EncoderOutput`, `ScreenshotRegion` |
| Emulator client (`emulator-grpc.ts`) | the screenshot call and its timers, what is held down | stream, pause, probe, gesture, release | the emulator | `GrpcChannel` |
| Cameras (`camera.ts`, `emulator.ts`) | a file per facing, the staging files beside it | seed, replace, sweep | the emulator, which opens them at any moment | `CameraFeeds` |
| Process executor (`exec.ts`) | two lanes, active processes, totals | run, abort, time out, kill | the operating system | `Executor` |
| Recorder, route (`session-recorder.ts`, `route-playback.ts`) | events and a replay; a run and its timer | record, replay, cancel; start, pause, tick | the device state | `DeviceServices` |
| Logcat (`logcat.ts`) | the child process, subscribers and their line queues | subscribe, flush, terminate | adb | `LogcatHub` |
| Router (`middleware.ts`, `createRouter`) | one app per device, starts and queues of switches | get, switch, stop, close | a host HTTP server | `RouterPool` |
| App of the router (`middleware.ts`, `createAppInternal`) | capture, viewers, encoder settings, publisher | attach, pump, replace the capture, stop | sessions, sockets | `CaptureApp`, `AppRequests` |
| Browser viewer (`ui/lib/use-stream.ts`, `stream-worker.ts`, `mse-player.ts`, `webrtc-negotiation.ts`) | transport, generation, decoders, player | connect, decode, recover, fall back | the server's sockets and endpoints | `ViewerWorker`, `ViewerMse`, `ViewerWebRtc` |
| Browser panels (`ui/lib/device-session-store.ts`, `use-poll.ts`, `visibility-poller.ts`) | session of the last answer, poll under way | poll, mutate, refresh | the endpoints | `ViewerPolling` |

What is hard in it, and what makes each part correct:

- *Sessions.* Several requests replace, stop or close the session while streams fail on
  their own. Correct means: one published session; no live session beside it but the
  candidate of the running request; the shared device state open exactly as long as
  someone needs it; a revocation always has a cause; no request waits for ever.
- *Input.* Limits, coalescing, a slow socket, a failing socket, close in the middle of a
  gesture. Correct means: capacity is never leaked, a finger can always be lifted, order
  is kept, no completion lies, nothing is sent after a failure.
- *Uploads.* Four sources of cancellation race with start and finish. Correct means: the
  bound covers cancelled work that is still cleaning up, no slot is lost, every upload is
  counted once, and "cancelled" means quiet.
- *Delivery.* Any frame may be dropped for any viewer. Correct means: what a decoder is
  fed is decodable, and whoever waits for a key frame is the reason for a request of one.
- *Launches and captures.* Every step of a start may fail, time out or be aborted, and
  processes are replaced while others are shut down. Correct means: what was started is
  ended, on the host and on the device, and the stream is whole.
- *Files shared with the emulator* (screenshots, cameras). It writes, or opens, them while
  the server reads, or replaces, them. Correct means: what is taken from one is of one
  moment, and what is put into one is there as a whole or not at all.
- *Everything with generations* (recorder, route, logcat, apps, viewer, panels). Late
  answers of an earlier run must not act on a later one, whoever waits must have a timer
  or a task that will move it on, and bounded queues must say what they dropped.

The hazards are listed, each at its line, in `PROJECT.json`.

## 2. Plan

Everything the plan of modules asked for is built: the sessions with input and uploads,
delivery, launches and captures, the services of a device, bodies, endpoints, router and
viewer, the files shared with an emulator, and the abstract specification of the published
session with the refinement. The safety properties of the passing runs are proved for every
value of the constants. What could follow is to model what section 8 leaves out.

## 3. The modules

### DeviceSessions

`ctx[c]` is an `ActiveDeviceSession` with its stream; contexts are numbered by creation.
`phase` is how far `dispose` has come:

| phase | the code |
|---|---|
| `live` | `dispose` not called |
| `releasing` | aborted; awaits the disposal of the device state it was the last to own |
| `released` | aborted; others own the device state |
| `closing` | `stream.close()` called; awaits it, the drains and the cleanups |
| `disposed` | the dispose promise has resolved |

`dev[s]` is a `DeviceSessionState`, named by the context that created it. `tail` is the
promise chain; its head is the only operation that runs. `op[o]` is a request: `pc` tells
which await it is at. `cancelled` is the set of generations `UploadManager` refuses.

A request is made (`RequestSwitch`, `RequestOnCurrent`, `Shutdown`), waits, is looked at
again when it is the head (`RunSwitch`, `RunMode`, `RunSettings`, `RunStop`, `RunClose`),
and if it replaces the session goes through `Prepare`, `OpenFails` or `OpenSucceeds`, then
`Withdraw`, `ActivationFails` or `Publish`, then `Settle`. Streams act on their own:
`StreamFails`, `PumpEnds`. `Unwind` is what a revoked context does by itself. The stop
request of `/api/avds/stop` is the `stop` kind.

### ControlInput

`pending`, `active`, `depth`, `bytes` and `open` are the fields of `ControlInputQueue`.
`dispatch`, `step` and `waiting` say where `#dispatch` of the active entry is. The adapter
(socket writer or dispatcher) is chosen at the start. Gestures other than touches are
represented by a tap (two packets, a delay between them); a video reset is the other
coalescing input. `accepted`, `outcome` and `sent` record what was promised, how it settled
and what left the queue. The content of packets is left out: a coalesced move replaces one
of the same size.

### Uploads

`job[i]` is an `UploadJob`, numbered as `#nextId` numbers them. `op` follows the microtask
chain of `#start`: started, operation running, settled, and then `FinishActive`. The
environment settles operations, aborts requests, ends sessions and fires the timer.
Refused uploads change only a counter and are left out, as are `started` and `rejected`
of the totals.

### PublishedSession

What the rest of the server sees of the manager: `gen`, `verdict` and `alive` of the
published session, whether it ended of its own (`own`), which stops name it (`asked`) and
whether the server is stopping (`over`). Generations advance by one, a session is revoked
because it ended, was asked to, or the server stops, and a stop never hits the successor
of the session it named. `DeviceSessions` implements it under the substitution of
`Published`: `asked` are the stops made for the current context that have not run.

### StreamDelivery, WebRtcPublisher

`client[c]` is a websocket client with its `RecoveryClientState`, `web` the state all
WebRTC peers share, `peer[s]` a `WebRtcPeer`, `watchdog` the `SessionRecoveryWatchdog`.
`FrameArrives` is one turn of the pump for all viewers. The clock is replaced by ages that
stop growing past the limits they are compared with; the event loop misses no tick.
`neglect` counts how long an overdue client has been without an attempt to reset the
encoder; it stays below an interval plus a cooldown. Packets of a source come in the order
of H.264. SDP, RTP and statistics are left out.

### ScrcpyLaunch, Executor

`Executor` is `ExternalCommandExecutor` as functions on its state: admission, lanes with
their reserves, drain, abort, time-out and kill. `ScrcpyLaunch` is a launch whose adb
commands compete in it with those of others. A command takes its effect before it ends,
also when it was killed; a killed adb is gone within `ADB_CANCELLATION_SETTLE_MS`; the
removals of several forwards are one command. A device that goes is exempt from the
clean-up property, since nothing on it can be reached.

### GrpcCapture, GrpcPackets

A gRPC session: start-up with its gate, pacing of images into ffmpeg, replacement of the
encoder, the packet queue (`GrpcPackets`) and close. The microtasks between the creation
of an encoder and its publication are part of the action. An image is the size it shows.

### RouterPool

`pool` holds the entries one device has in the maps of `createRouter`; `start` and
`request` are the promises of `getAppUnqueued` and of the queue of switches, `stop` what each
`POST /api/avds/stop` has captured and waits for, `stopAll` the close of the router. Stops of
the device overlap: nothing in `/api/avds/stop` keeps a second one from beginning.
`forgotten` records that the serial left `stoppingSerials` while one of them was under way.
Microtasks run in the order of their promises, before anything else. Source settings and the
state kept across restarts are left out.

### Components

Fifteen modules share no state with the others. `Components` is their sum: `part` says
which one runs, the others keep their initial state, so that each is explored on its own
and one property states for all of them what each promises. Its conjuncts are defined, and
commented, in the modules:

| Module | Code | Left out |
|---|---|---|
| `DeviceServices` | recorder, replay, route and location of a device state | `replay` and `stopReplay`, which nothing in `src/` calls; an aborted location command may have reached the device |
| `LogcatHub` | the hub, its child process, subscribers | which lines a filter matches (any may) |
| `RequestBodies` | the bounded body reader; staging of an upload | header checks; the events of busboy are taken from their handlers |
| `GrpcChannel` | screenshot stream, gestures and keys, touch geometry | a cancelled call may have been carried out; the geometry is a number that counts turns |
| `StreamFraming` | `SocketReader` and the video framing of scrcpy | headers of invalid size are not sent; one read waits at a time |
| `CaptureApp` | captures, viewers, encoder settings and publisher of an app | a generation is current or stale; gestures |
| `SessionRequests` | endpoints of the server: device settings, AVDs, streams | transitions are atomic at their end; one AVD; each client makes one request; `alone`, `since` and `kills` only record whether a setter had one device to itself |
| `AppRequests` | endpoints of the app | values of settings; what the services do is in `DeviceServices` |
| `ScreenshotRegion` | the file an emulator writes its screenshots to, which of its notifications are copied, the stable read, the probe of a silent stream, the removal of the file | a cell is the number of its image; two images differ in every cell |
| `CameraFeeds` | the images a wired emulator shows as its cameras: seed, replacement by a rename, sweep of orphaned staging files | one client beside the seed; an image can be loaded or not |
| `EncoderOutput` | the parser of the encoder's output, its timestamps and its shutdown | bytes are start codes, types and one byte of payload; one access unit per image |
| `ViewerWorker` | effect of `useStream`, the worker, its sockets and decoders | drawing, pointers, statistics |
| `ViewerMse` | the MSE fallback: player, pump, link | boxes of MP4 |
| `ViewerWebRtc` | negotiation, retry, session cancellation, the server's memory of it | ICE candidates; closes are not lost |
| `ViewerPolling` | health poll with the session store; polled panels | React renders before the next event |

### Wrong variants

Operators named `Bug...` are wrong variants of the definition that follows them. Nothing
uses them; substituted for it, each makes one of the properties (in `Components`: one of
its conjuncts) fail, which shows the property is about that code. `PROJECT.json` lists one
per property.

## 4. The runs

| Run | Instance | Shows |
|---|---|---|
| `DeviceSessions` | two serials, two replacing requests (one of them a switch) and a stop or shutdown, two contexts after the first | six invariants, an action property and the refinement of `PublishedSession`, in every interleaving with failing streams |
| `DeviceSessionsProgress` | two requests of any kind, one further context | every request is answered |
| `DeviceSessionsFailedSwitchIsHarmless` | the same | violated: see section 7 |
| `DeviceSessionsCrashWinsTheRace` | the same | violated: see section 7 |
| `ControlInput` | two pointers, depth 3, 160 bytes, four inputs, both adapters | capacity balances, releases fit, no completion lies, order, no lost wake-up, nothing sent after failure, close settles everything |
| `Uploads` | two generations, one slot, two queued, four uploads, one `cancelGeneration` beside `close` | the bound, the service of the queue, the totals, quiet after cancellation; every wait ends |
| `StreamDelivery` | one websocket client, two WebRTC sessions, one remembered cancellation | what is served is decodable, who waits is retried, peers are tracked, nothing outlives the session |
| `GrpcCapture` | two display sizes, both input sources and image modes, three encoders, three frames each | the reader can decode, encoders fit their images, no image is stranded, close leaves nothing |
| `ScrcpyLaunch` | two slots and two places, one of each reserved, beside an interactive and a background command; two attempts at a port, three packets | slots are used, the device is left clean, the stream is whole, every launch settles |
| `Components` | per component, below | nothing is left behind or stranded, what is handed on is whole, what is stale is ignored |
| `RouterPool` | three requests, two stops that may overlap and starts of the AVD, five of them in all, one close | apps have an owner, requests settle |
| `RouterPoolAppsAreOwned` | one stop | violated: see section 7 |

Bounds and why they are enough. *DeviceSessions*: two contexts after the first give an old
session, its replacement and a third, so a device state can pass from owner to owner
twice, an operation can find the session replaced under it, and an activation can fail and
be followed by a success. `OneEnder` makes one of the two replacing requests a switch and
limits the third request to stop or shutdown; two
ending requests together appear in the progress run. *ControlInput*: four inputs at depth
3 fill the queue with a pointer open, coalesce twice, and leave input behind a failing
one; five packets of bytes let either limit bite first. *Uploads*: four uploads fill one
slot and the queue and find it full. *StreamDelivery*: a client, two peers that can be
exchanged (symmetry), and ages past every limit. *GrpcCapture*: three encoders are one, its
replacement, and another asked for during the replacement; five bytes overflow the queue.
*ScrcpyLaunch*: with one slot reserved the launch can be kept waiting by a background
command and passed by an interactive one. *RouterPool*: a start, a switch and a third
request can wait for each other, overlap a stop and outlive it; of two stops each can end
while the other waits, kills or has yet to begin, and its kill can fail then.

*Components*: two events of either size reach both limits of the recorder; two route runs
and two epochs make one of each stale; two subscribers with a queue of one line overflow,
share and leave, and two children follow each other; three bytes of body with chunks of up
to two grow the buffer twice and pass the limit; four turns of the display and two probes;
packets of no, two and three bytes in chunks of four are split and joined everywhere; three
captures are an old one, a replacement and a rollback; four images with reads of five and
nine bytes cut units anywhere and pass the pending limit; two effects with two sockets or
two sessions make the first stale; four revisions with two mutations overlap polls; two
clients of the endpoints overlap each other, a switch and the end of the session; three
images of two cells tear a copy in either half, and a second read finds it unstable; two
starts of an emulator with a seed each meet a client's write to either facing.

Deadlock checking is off where the system may rest (all requests answered, the queue, the
launch or the session closed, every bound used up); it is on for `StreamDelivery`.

## 5. Fairness

- `DeviceSessions`: weak fairness of each request's progress, of each revoked context's
  unwinding and of the recorder's disposal. Opening a stream has a deadline (`scrcpy.ts`,
  `withDeadline`), the close of a stream ends its reads, and a continuation whose promise
  is settled is run by the event loop. No fairness is assumed of requests or failures.
- `ControlInput`: the pump's continuations run, and a dispatcher that was told to abort
  settles. Nothing is assumed of the socket: `close` settles a write by the abort signal.
- `Uploads`: microtasks run, the timer fires, and an operation whose signal is aborted
  settles, which the class comment (`upload-manager.ts:159-161`) asks of its callers. An
  operation nobody cancelled may run for ever.
- `ScrcpyLaunch`: timers fire, results are seen, a killed process ends. adb and the device
  may never answer.
- `RouterPool`: what is under way goes on, since opening and closing an app have
  deadlines. Nobody need make a request.

The other modules state what must eventually happen as safety: whoever waits has a timer
or a task under way that will move it on (`NothingStranded`, `NoImageStranded`), or waits
for less than a bound (`AwaitingIsRetried`).

## 6. Proofs

TLAPS checks these for every value of the constants that satisfies the module's
assumptions (finite or infinite sets of requests and serials, any bounds). Few of the
properties are inductive. In each module an invariant adds what ties the parts of the
state together; `Init` establishes it, every action preserves it (one step per action, and
under it one per conjunct the action disturbs), and the properties follow. Each invariant
held in TLC's run of the module before it was proved.

| Module | Invariant | Properties |
|---|---|---|
| `Sessions_proofs`, `DeviceSessions` | `IInv`, `PInv` | `TypeOK`, `NoStrayContext`, `PublishedSessionDrivesItsDevice`, `ReplayTargetsPublished`, `StagedStateStaysOpen`; `ImplementsPublishedSession`, `VerdictIsFinal`, `StopLeavesNothing` |
| `Queues_proofs`, `ControlInput` | `IInv`, `Kept` | `ReleaseAlwaysFits`, `NoLostWakeup`; `AccountsBalance`, `OutcomeIsTrue`, `SentInOrder`, `NothingSentAfterFailure` |
| `Uploads_proofs` | `IInv`, `QInv` | `WorkIsBounded`, `ResolvedIsQuiet`, `CancelledNeverBegins`; `QueueIsServed`, `TotalsBalance` |
| `Transports_proofs`, `ScrcpyLaunch` | `LInv` | `SlotsAreUsed`, `DeviceIsLeftClean`, `StreamIsWhole` |
| `Transports_proofs`, `GrpcCapture` | `CInv` | `TypeOK`, `ReaderDecodes`, `EncoderFitsImage`, `NoImageStranded`, `ClosedLeavesNothing` |
| `Sessions_proofs`, `StreamDelivery` | `DInv` | `DeliveryTypeOK`, `IntactWhenServed`, `AwaitingIsRetried`, `PeersAreTracked`, `NothingOutlivesSession` |
| `Queues_proofs`, `RouterPool` | `RInv` | `AppsAreOwnedInOrder` |
| `Components_proofs`, with `Devices_proofs` and `Viewers_proofs` | `ComponentsInv` | `NothingLeftBehind`, `NothingStranded`, `WhatIsHandedOnIsWhole`, `StaleIsIgnored` |

What the invariants add, and why it is needed:

- `Sessions_proofs`, `DeviceSessions`. Only the head of the chain is past `queued`; a live context owns
  its device state; an owner of one is a live context or the running operation's staging
  owner; the replay targets are owners that were activated, the youngest of them the
  published one. `PInv`: who owns each device state and who awaits each disposal (`Held`,
  `DisposalAwaited`), that a context has a verdict exactly when it was revoked,
  that a candidate has the next generation, which context a waiting stop and `close` name,
  and that nothing follows an answered `close`. The refinement is proved step by step: each
  action is a step of `PublishedSession` under the substitution of `Published`, or leaves
  all that it shows.
- `Queues_proofs`, `ControlInput`. Room: `depth + |open| <= MaxDepth` and `bytes + 32 |open| <=
  MaxBytes`, which admission keeps and every release only relaxes; the pump is under way
  exactly while there is something for it. Books: the inputs that wait for an entry are
  consecutive, alike and unsettled, entries keep the order of acceptance, the counters are
  the sums over the entries, and what was sent ends where the dispatch of the active entry
  is. Without the last two, neither a coalesced nor a completed input could be told from
  one that was lost.
- `Uploads_proofs`. The active jobs are counted, and every call waits for each unfinished
  job it has to; a cancelled generation, or a closed manager, accepts no other. The queue
  holds exactly the queued jobs, rising, behind the active ones, and jobs wait in it only
  while every slot is taken.
- `Transports_proofs`, `ScrcpyLaunch`. The executor's tables and queue agree and leave no slot idle
  (`ExecOK`); the launch has a command under way exactly where it waits for one; whatever
  is on the device was announced to the clean-up (`ForwardsAnnounced`), so that a clean-up without
  errors found all of it.
- `Transports_proofs`, `GrpcCapture`. The queue is linked: each packet can follow its predecessor, and
  the first one what the decoder has. This is local, so that it survives the cut of an
  overflow at any place.
- `Sessions_proofs`, `StreamDelivery`. Peers belong to an open publisher, and the neglect of an overdue
  client is bounded by the age of the last attempt and by the age of the timer.
- `Queues_proofs`, `RouterPool`. Unless the serial left `stoppingSerials` while a stop of it
  was under way (`forgotten`, section 7): requests go on in the order of the queue, one start or switch is under way at
  a time, every open app is in its hands or published, and what each stop captured when it
  began is all there is to wait for. `AppsAreOwnedInOrder` speaks of the end of a stop; the
  invariant has to carry the queue through all its awaits, for each of the stops that overlap:
  one that ends empties the maps, and what the others wait for must still be all there is.
- `Devices_proofs`, `Viewers_proofs` and `Components_proofs`. One invariant per component (two
  or three where it has parts that share nothing), each kept by the component's `Next`:
  `Devices_proofs` has what belongs to a device and its streams, `Viewers_proofs` the apps, the
  requests and the pages; `Components_proofs` puts them together.
  `EachStepsOrStays` says that a step of `Components` is a step of each or leaves its
  variables alone, so that the conjunction is inductive and every action property of one
  component is one of all. Among the invariants:
  - `CaptureInv`: of the captures of an app only the published one or the one that is opened
    in its place is open, and a reader is current only while its capture is.
  - `WaitingInv`: a request whose update is chained stands in the chain, one that waits for
    updates waits for such as are chained or over, one that waits for a publisher has one
    starting; a replay keeps the capture it was asked for.
  - `CapturedInv`: what a request of the server has captured is the session that was
    published when it came, and no later one; an emulator is owned by the start that
    spawned it.
  - `SettingsInv`: while a setter has had its device to itself (nobody else wrote, nobody
    killed it), each key of the setting has the new value already or its command is still
    to come, and what was read back is what was found there.
  - `RecorderOK`: the bytes a recorder counts are the JSON of the events it holds, and those
    are the latest of all it was given that are within its limits. Each shift takes the
    first event away and its bytes with the comma; the loop ends at the first rest that is
    within the limits (`Least`).
  - `ServicesInv`, `AdmissionOK`: a route that runs is the live run and has the only
    interval, a shut one none; whatever overtakes a request for a replay takes the recorder
    to a later epoch than the one it has read.
  - `ViewerInv`: the commands of the effects and the events of the worker are numbered;
    what is on its way is between the two, and nothing that was drawn is of a later
    generation than the worker has begun.
  - `FeedInv`: packets on the wire are of one capture up to the message that announces the
    next, a player is fed the first of them, and behind each such message a key frame is on
    its way or awaited.
  - `WebRtcInv`, `PeerOK`: the peers the server keeps for a page are of an offer that is
    under way or was answered; a run is given up with all its timers but the next run's,
    connected and awaited, lost and in grace, or not yet connected.
  - `PollingInv`, `PanelInv`: behind whatever moves the barrier no run of its generation is
    left but those that began after it; a mutation aborts the read before it.
  - `FramingInv`: a read from the scrcpy stream holds what is between the last packet
    boundary and what was sent; that each stream has such boundaries is the one place that
    argues over the lengths of all prefixes (`Least`).
  - `OutputInv`: whatever the pipe has cut, all that the parser of the encoder's output holds
    follows from the number of bytes it was given. In the model the output lies in groups of
    five bytes, one for each NAL unit (a code of four bytes and a type, or one of three, a
    type and a payload), so that `BegunBy(m)` units have shown their type in the first `m`
    bytes, `UnitsBy` access units of them are complete, and `ParserAt` says what is pending,
    where the next scan begins, which units are known and whose times are still to come. A
    scan that goes back over four bytes finds each unit once (`LookedIs`, `ScannedIs`), every
    delimiter completes the access unit before it (`UnitEndedIs`, `EmitUnitsIs`), and
    letting go of what was handed on moves all offsets alike (`RebasedIs`).
  - `WatchInv`, `GeometryInv`: while a probe is awaited the silent stream has no slot, and an
    answer is not older than its question.
  - `RegionInv`: a complete copy lies, cell by cell, between what was read and what is in the
    region now, so that a second copy that agrees with it is of one moment in between.
  - `CameraInv`: what will be renamed is all of an image that can be loaded, and no file of
    a facing is ever taken away.
  - `BodiesInv`: a staged file is complete only once its writer has ended and the parser has
    seen the whole body.

What the recursive functions over data compute (sums over a queue, the order of a filtered
sequence) needs induction, and the library's induction theorems take an operator as a
parameter, which no prover here instantiates. Where the proofs need it they argue from the
least counterexample instead (`Least` in `Sums_proofs`, from the well-foundedness of `<` on `Nat`).
`Sums` holds the sums that the control queue and the recorder keep beside what they queue,
as a recursive function; `Sums_proofs` shows from its partial sums what a push, a shift or
a change of one entry does to the total.

Only model-checked are:

- the liveness properties (`RequestsSettle`, `WaitsEnd` and their like) and all fairness,
  which are out of the prover's reach;
- the three runs of section 7, which are counterexamples.

## 7. Where the code departs from what it says

- *A failed switch is not harmless.* `switchSession` (`server.ts:1690-1701`) awaits
  `uploads.cancelGeneration(previous.generation)` before it asks for the switch, and the
  manager never forgets a cancelled generation. If the new device is missing or its stream
  does not open, the old generation stays published and streams, but refuses every upload
  from then on. `device-session-context.ts:471-472` says a failed preparation "leaves the
  working generation untouched". Run `DeviceSessionsFailedSwitchIsHarmless`.
- *A crash does not win the race.* `session-status.ts:5-9` and
  `tests/session-status.test.ts:14` describe that an abnormal exit reported after a clean
  end of the video turns "stopped" into "error". But the clean end disposes the context,
  whose cleanup unsubscribes the fatal handler one microtask later
  (`server.ts:1594`, `device-session-context.ts:295`), and the process reports its exit
  later than that. Run `DeviceSessionsCrashWinsTheRace`.
- *An app without an owner.* The AVD is started (or adb no longer lists the device, or a
  second stop of it fails to kill the emulator, `middleware.ts:2838`) while `stopApp` waits for
  the starts and switches it found. The serial leaves `stoppingSerials`, a request begins a new start, and when `stopApp` goes on it removes
  that start, and the queue, from `pending` and `streamModeQueues`
  (`middleware.ts:2569,2574`). A switch no longer waits for the start; both publish; the
  app published first stays live, and no map holds it. `middleware.ts:2564-2565` expects
  the publication paths to prevent what comes late. Run `RouterPoolAppsAreOwned`.

Met while modelling, each the reason for an exclusion or a narrower property:

- After a failed activation the next candidate gets the generation number whose uploads
  were cancelled (`server.ts:614`): it refuses every upload.
- Two starts of AVDs can pick the same console port (`emulator.ts:203-211`).
- `/api/avds/start` may stop an emulator, when its own request fails, that another
  request's session streams from by then (`server.ts:2293-2318`).
- `/webrtc/close` before there is any publisher is forgotten (`server.ts`, `/webrtc/close`).
- `middleware.ts:1658-1688` has no admission check between reading the body of a replay
  request and starting it: a stop that came in between is overtaken.
- The worker drops a key frame when its decode queue is too long
  (`ui/lib/stream-worker.ts:416-419`), and the request for another may be suppressed by
  the cooldown of the last one; `DroppingIsAskedFor` exempts it (`overrun`).
- An error of `appendBuffer` other than a full quota drops the chunk, and what is queued
  waits for the next one (`ui/lib/mse-player.ts`, `pump`); `ChunksAreOnTheirWay` exempts
  it (`stuck`).
- A camera's write that passed its check before the emulator was started again, and whose
  staging file was not there yet when the seed swept the directory, replaces the seeded
  placeholder by the image of the session before (`camera.ts`, `writeFeedFile`); it is a
  whole image, and `MutatesItsOwnSession` speaks of the check only.
- `adb.ts:486` says the three animation scales are written "as one"; they are written one
  after another, and a failure leaves some.

## 8. Not modelled

The command line (option parsing and a sequential start), formats and codecs (SDP, RTP,
MP4, protobuf, routes, accessibility trees, the schema of the API in
`shared/api-contracts.ts`), rendering and pointers of the user interface,
frame statistics, origin checks and static answers. `server/session-cache.ts`,
`server/session-scope.ts`, `ui/lib/stream-state.ts` and `ui/lib/poller.ts` are used by
tests only. Within the modelled parts: the accessibility snapshot cache and the client
sockets of a context, the wording of errors, packet contents, and what the table of
`Components` names.
