# stackchan-hermes in TLA+

stackchan-hermes lets a desktop robot hold spoken conversations. The robot's firmware keeps one
WebSocket to the *Bridge*, a Python service that runs one asyncio loop: it listens (STT), asks the
Hermes agent, speaks the answer (TTS), takes photos and relays commands. This directory models the
Bridge's coordination of turns, speech, connections, commands and photos, and the firmware's link,
session, playback and camera; it checks them with TLC and proves their central properties with
TLAPS. Line references are to the files under `src/`; `PROJECT.json` maps every definition to its
lines.

## Inventory

`B/` is `bridge/src/stackchan_bridge`, `C/` is `firmware/components/stackchan_bridge_client`, `H/` is
`firmware/main/hal`.

| Part | State | Operations | Correct when | Hard because | Module |
|---|---|---|---|---|---|
| Turn coordinator, `B/turns/coordinator.py` | `_active` per device; state, cancellation event, attached tasks of each turn; gauge | `begin`, `transition`, `cancel`, `complete`, `fail`, `attach_task` | a device has one turn; it is freed once, after the turn's task ended | `cancel` suspends in `gather`; cancellations race each other, failures and late results | `TurnCoordinator` |
| Turn services, `B/turns/{service,speech,vision}.py` | the task of a turn | STT, Hermes, TTS, photo, error cue | a turn that fails anywhere ends; late results do nothing | errors while cancelled, awaits in error paths, eviction of tasks | `TurnCoordinator` |
| Audio input, `B/audio/input.py` | `_captures`, `_turn_tasks`, deadlines | stream start, frame, end, disconnect, deadline | a stream always ends, a turn does not outlive its stream | start waits for a cancellation while its connection is replaced | `DeviceGateway` |
| Gateway, `B/device_gateway/application.py` | registry, pending handshakes, streams per connection | register, hello_ack, receive loop, teardown | the newest connection wins; old handlers do no harm | several handlers of a device alive at once | `DeviceGateway` |
| Commands, same file 428-505 | pending futures per connection, limit 16 | `send_command`, `route_result`, `_fail_pending` | each call ends once, with its own result | results early, late or of a replaced connection | `CommandRegistry` |
| Photos, `B/captures/{store,coordinator}.py` | transactions, reservations, images, failures, deadlines, retention | reserve, upload, complete, fail, cancel, delete, purge, `take_photo` | success needs matching image and proof; an end is final | two messages in either order against timers, deletions and repeats | `CaptureStore` |
| Speech pipeline and playback, `B/tts/pipeline.py`, `B/audio/output.py` | producer, synthesis tasks, ready queue; the stream being sent | stream, synthesize, play; start, frames, end | segments are heard in source order; nothing is left running; every stream started is ended | failures, cancellation and a lost connection between any two awaits | `SegmentPipeline` |
| Firmware transport, `H/stackchan_bridge_websocket.cpp`, `C/web_socket.cpp` | connection worker, callback queue, generation | connect, poll, close | a loss is always reported, an old connection never speaks | three threads, a bounded queue, callbacks of older connections | `FirmwareLink` |
| Firmware connection, `C/session.cpp` 60-98, 331-500 | state, timers, back-off | hello, heartbeat, reconnect | one reconnection at a time; it always comes back | timers and callbacks in any order | `FirmwareLink` |
| Firmware session, `C/session.cpp` | state, input, cancellations remembered, error window | the Bridge's messages, touch, commands | state, stream and input agree; late control does nothing | ends, cancels and faults of what is over | `FirmwareSession` |
| Firmware audio, `C/audio_output.cpp`, `patches/xiaozhi-esp32.patch` | packet queue, decode and playback queues, failure gate | start, push, deliver, decode, reset, acknowledge | only the stream of now is heard, to its end | packets name no stream; the decoder runs beside the worker | `FirmwareSession` |
| Firmware camera, `H/stackchan_bridge_camera.cpp`, `C/camera_capture.cpp`, `capture_transaction.h` | gate, worker thread, retries, notices | start, cancel, update, capture, upload | one worker at the camera; a report is true; the camera is freed | a thread published between two critical sections, lost answers | `FirmwareCamera` |
| Speech history, `B/turns/speech.py:201-244` | finished jobs | status, prune, shutdown | a turn's status is what happened | derived after the fact | - |
| Segmenter, VAD, rate limits, authentication gate | buffers, counters, buckets, slots | feed, process, acquire, verify | nothing lost, limits exact | boundaries | - |

How they interact: the gateway hands messages to the audio input and event handlers; those and the
control API begin and cancel turns at the coordinator; turn tasks send audio and commands through
the registry and photos through `take_photo`. All run on one event loop, so a step is everything
between two awaits. State is shared, messages of one socket are ordered, and sockets, HTTP requests
and timers race each other. On the device one worker thread polls the transport, runs the session's
callbacks, the touch input, the playback loop and the camera's `update`; the TCP receive task, the
connection worker, the decoder, the output and the capture are threads beside it.

`PROJECT.json` lists the hazards with the properties aimed at them.

## Modules

Seven parts are specified twice. An abstract module says what the part promises, in terms a user of it
knows, and the detailed module, translated from the code, is shown to implement it: TLC checks the
refinement on small instances and TLAPS proves it for all. The mapping is at the end of the detailed
module. The abstract modules are neither translated nor mapped to lines.

| Promise | Kept by | What it hides | What it owns up to |
|---|---|---|---|
| `TurnSlot` | `TurnCoordinator` | tasks, cancellations, awaits | - |
| `RemoteCall` | `CommandRegistry` | queue, futures, connections replaced, messages under way | a command may run after its call has failed |
| `PhotoTransaction` | `CaptureStore` | clocks, waiting calls, repeated and contradicting messages | an image may go, whatever became of its capture |
| `SpokenAnswer` | `SegmentPipeline` | producer, syntheses, ready queue, clean-up | a stream without frames may stay open; a cancellation replaces any verdict |
| `BridgeLink` | `FirmwareLink` | connection worker, receive task, callbacks, generations, timers | a lost attempt or session may go on until the session hears of it; one given up may still be answered, for a session that is then left |
| `Conversation` | `FirmwareSession` | wire, queues, decoder thread, failing sends | a lost connection does not silence the device; a stream that nobody ends may be talked over by later ones |
| `CameraSlot` | `FirmwareCamera` | worker thread, mutex, requests, cancellations | a withdrawn failure may take the next capture with it; an image may be stored late |

### TurnSlot, TurnCoordinator, TurnCoordinatorProofs

`TurnSlot` is the promise: a device's slot is taken by one new turn, may be put into closing, and is
left once with one outcome. `TurnCoordinator` is `coordinator.py` with the tasks of
`service.py`, `speech.py` and `vision.py` that run turns, over many devices. `active` is `_active`,
`state` is `Turn.state` (with `"NEW"` before `begin`), `task` is where the task is suspended,
`interrupt` the pending `CancelledError`s, `call` the cancellations suspended in `gather`. An action
is the code from one await to the next, e.g. `VoiceError` is the `except` clause of
`run_existing_turn` up to the failure cue and `Notified` what follows it. A canceller that is itself
cancelled while it waits cancels the tasks again and goes on waiting, for `gather` returns only when
its children are done. `orphaned` marks turns whose task the eviction of the oldest voice task in
`VoiceAudioInputHandler._start_turn_task` has cancelled. Nobody waits for such a task; when it ends
by its cancellation the turn stays active until somebody cancels it. `ActiveTurnHasOwner` and
`SubmittedTurnEnds` exclude these turns, `NoOverlap` and `HandOver` do not.

`BeginVoice` allows a stream while an earlier, completed one is still being received, which is
slightly more than the input handler permits. Turn ids are random and never repeat, so the
duplicate-id test of `begin` has no effect. The runtime gives the coordinator the null cancellation
hook (`runtime.py:162`), so none is modelled.

### DeviceGateway, DeviceGatewayProofs

One device with several connections alive at once; handlers of different devices share only the
coordinator. `at` is where each handler of `device_websocket` is suspended, `waiting` the handlers
in `gather` for a turn. A turn is abstracted to what the coordinator shows from outside; that a
cancellation ends when the turn's task does is what `TurnCoordinator` establishes.
Limits, parse errors, unmatched ends and sockets that break are all `Disconnected`.

A `gather` returns some turns of the event loop after the task it waits for is done, and other
handlers run meanwhile, see `task.done()` and go on at once. So a waiter of a turn whose task is done
may resume at any moment; the waiters of one turn resume in the order they came, as asyncio calls
them back, and nothing else is assumed of the order.

Three properties name the one place where the code does otherwise, and show that there is no other.
`TurnHasKeeper` excepts a bad frame that resumes (`B/audio/input.py:118`) and removes the stream of
another turn, with its deadline. `StreamHasHandler` excepts a start that resumes after its connection
was closed (`:79`) and opens a stream nobody handles. `StreamStaysIntact` speaks of streams whose turn
is under way: one whose turn an overtaken handshake has cancelled is overwritten by a start that
resumes (`:97`). `DeviceFreed` speaks of turns that have a keeper. The differences below say how
TLC reaches the three.

### RemoteCall, CommandRegistry, CommandRegistryProofs

`send_command` and `route_result` for one device: `pending` is `pending_commands`, `future` the
state of `result_future`, `commands` and `results` what is on the wire. A text leaves before
`send_text` returns, so a result may come first. A timeout may win against a result routed in the
same turn of the loop. The device executes a command at most once because a socket delivers once
and the Bridge does not retry; its replay cache is therefore without effect here and not
modelled. Capability and motion checks refuse without a state change and are left out.

### PhotoTransaction, CaptureStore, CaptureStoreProofs

`store.py` with `take_photo` and the upload and completion handlers. `state`, `proof` and `deleted`
are fields of `_Transaction`; `record` is `_records`; `late`, `aged` and `agedRecord` are captures
whose deadline, reservation or image has run out of time. `Found` and `Seen` are `_transaction`:
the latter is where a passed deadline is noticed. `asleep` are those who wait for the shared
`changed` event; `Signal` wakes all of them. That one waiter clears the event another still waits for
(`store.py:249`) cannot go wrong in the model, and no property speaks of it: `Event.set` makes every
waiter runnable before anybody can clear. A content stands for a body and for its digest and
size. `accepted` is a history of the acknowledgements and has no counterpart in the code. The
store's own `wait_for` has no caller and is not modelled, nor are files left by an earlier process,
JPEG validation (a body may be refused), and `camera.cancel`.

Assumptions: the wall clock does not step backwards; an image's retention ends no earlier than its
reservation's, which follows from `save` and `reserve` using the same TTL.

### SpokenAnswer, SegmentPipeline, SegmentPipelineProofs

One answer: `run_streaming` with the `play` it calls. The producer takes segments from the source and
starts a synthesis for each; the consumer takes the syntheses in order, plays them, and in its
finally clause cancels and awaits what is left. `at` is where the consumer is suspended, `made` the
length of `synthesis_tasks`, `device` the stream open on the connection. An action is the code
between two awaits; a message leaves when it is sent, the await after it only waits for the socket.
The queue's end marker is derived from the producer's state. A second cancellation during the
`gather` of the finally clause is a step of its own. The ownership test of `_OwnedSpeechPlayer` is a
refusal that may happen at any segment; pacing and failures to create the encoder are left out.

### BridgeLink, FirmwareLink, FirmwareLinkProofs

How the device gets, loses and regains its connection: `OfficialWebSocketTransport` with its
connection worker and its bounded queue of callbacks, what `WebSocket` and `EspTcp` report, and the
connection handling of `BridgeClient`. `generation` is `connectionGeneration_`; `queue` holds
callbacks with the generation of their connection, `batch` those `poll` has taken. `closing` and
`overflow` are the flags of the transport; `pending`, `scheduled` and `handshake` the timers and
wishes of the session. Time is abstract: an armed timer may expire at any look. Back-off lengths, the
timer of a stable connection, and the framing are left out. `Stage` reads the link as `BridgeLink`:
an attempt is `answered` while the hello_ack of its generation is queued, and an established session
with a timer or a wish to reconnect left over counts as `leaving`, so that such a leftover could not
pass for an established one. A `connect` that fails does so in three places with three effects
(`NoConnect`): before it has looked at the old connection, after it has cleared `closeRequested_`, or
after it has counted a generation too. `ajar` is the stage in which the attempt that was given up may
still be answered for that reason.

### Conversation, FirmwareSession, FirmwareSessionProofs

What the device does while it is connected: the Bridge's messages (`onData`), the playback context
of `AudioOutputBuffer`, touch input, the playback loop of the worker, and the decoder and output
tasks of `AudioService` as the patch leaves them. `wire` is the FIFO from the Bridge, whose player
starts, feeds and ends one stream after another and may be cancelled at any time; the
`speech.cancel` of a cancelled turn goes its own way and may be late. A packet carries the number
of its stream in the model, which the real one does not: the handlers never look at it, and
`PlaysItsStream` says that they need not. `starting` is the Bridge in the await after the start of a
stream: a cancellation there sends no end (`BridgeCancelsStart`), and `endless` are the streams left
so. `encoding` says that `audio_encode_queue_` may hold microphone packets, for which `IsIdle` looks
too; it empties once the microphone is off. `stale` is the epoch that `ResetDecoder` advances.
`closing` is a connection given up by the session, which `FirmwareLink` then takes down.
`Disconnect` stands for any loss. Left out: messages from the device (any send may fail), lookups
in the replay cache, which this Bridge gives no occasion for, and the counters of underruns.

### CameraSlot, FirmwareCamera, FirmwareCameraProofs

The device's end of a photo: `start`, `cancel`, `setBridgeUrl` and `update` on the worker thread of the
session, and `run` on a thread of its own, with three attempts at an upload and the lookup of a
receipt when an answer is lost. `update` enters its mutex twice and joins in between: `at` tells
which half is next. `saved` are the images the Bridge has, by whatever attempt. A notice is kept
until it is acknowledged or expires; the acknowledgement is abstract. The Bridge may store an image
that was `sent` at any time, when its request has lost its answer or its capture is long over
(`BridgeStores`). `LaunchFails` includes the
launch that leaves no `io_`, from which `CameraSlot`'s `ReportOwed` comes (see the differences).

## Runs

| Run | Module | Bounds | States | Shows |
|---|---|---|---|---|
| `turn_coordinator` | `TurnCoordinator` | 2 devices, 2 turns, 2 cancellations, 1 voice task | 23,405 | no two tasks on one device, an owner for each active turn, final states, hand-over, `TurnSlot`; cancellations and submitted turns end |
| `device_gateway` | `MCDeviceGateway` | 3 connections, 3 turns; symmetry | 1,540,598 | a turn keeps its keeper and a stream its handler, with one exception each; streams are not overwritten |
| `device_gateway_live` | `DeviceGateway` | 2 connections, 2 turns | 52,560 | devices and streams are released |
| `stale_handshake` | `DeviceGateway` | 3 connections, 1 turn | - | the first finding below |
| `commands` | `CommandRegistry` | 3 connections, 2 commands, queue of 1 | 308,519 | no future left behind, exact slots, `RemoteCall`, every command ends |
| `captures` | `MCCaptureStore` | 1 device, 2 captures, 2 uploads, 2 bodies, room for 1; symmetry | 1,140,803 | proven success, `PhotoTransaction`, acknowledgements that stay true, no lost wake-up, no open reservation without a caller |
| `captures_live` | `CaptureStore` | 1 capture, 2 uploads, 2 bodies | 22,668 | `take_photo` ends |
| `segment_pipeline` | `SegmentPipeline` | 3 segments, 2 cancellations | 37,138 | order, complete success, `SpokenAnswer`, the run ends |
| `firmware_link` | `FirmwareLink` | 3 connections, queue of 2 | 170,262 | losses are reported, `BridgeLink` (one session per attempt, on its own hello_ack; how late it may come), the device comes back |
| `firmware_session` | `FirmwareSession` | 2 streams of 2 turns, 1 input, 1 message under way, queues of 2, 1 and 1, preroll 2, limits 1, 2 and 1 | 377,240 | one picture of what the device does, its stream and no other is played, `Conversation`, late control, SPEAKING ends |
| `firmware_camera` | `FirmwareCamera` | 4 captures, 2 notices, 3 attempts | 52,538 | room for every notice, one worker at the camera, `CameraSlot`, the camera is freed |
| `unjoined_worker` | `FirmwareCamera` | 2 captures, 1 attempt | - | the second finding below |

Why the bounds are enough to be interesting. Two turns on two devices are a cancelled one with its
successor, or two that share the task limit, so that an eviction hits a turn of the other device;
three turns on one device add nothing the proofs do not cover. Three connections are an old one, one
that is suspended while closing it and one that overtakes; the second command finds the queue full;
two uploads can agree or differ, and the second capture meets a full store or one swept. Three
segments are one being played, one synthesized ahead and one not yet made; the second cancellation
meets the clean-up of the first. Three generations of a link are a lost one, its successor and one
whose callbacks arrive when a queue of two has overflowed. In the session the second stream is the
one that a late end, cancel or decode of the first may disturb; one message under way is enough
because the Bridge's player never looks at the device: what it would have sent before the device
looked, it may as well send after (the invariants were also checked with three, over 8 million states,
and are proved for any number); a preroll of two equals the queue; a failure limit of one reaches
the gate, an invalid limit of two has a first and a last error. Four captures outrun two notices.
The code's constants (16 commands, 1024 transactions, 256 callbacks, 3 errors) are CONSTANTS that are
small here. `MaxGeneration`, `Captures`, `Streams`, `Inputs`, `Segments` and `Interrupts` bound
behaviours and appear in guards only. Runs without deadlock checking may stop for good once all
turns, calls, captures or streams are used up. Symmetry is used in runs of invariants and action
properties only.

Type invariants are proved and appear in no run but the camera's, where the type of `notices` is the
queue's bound. The same holds of the gauge of active turns (`GaugeCorrect`), of images that are
stored into an open reservation only (`ImagesStoredInTime`), and of five properties whose place in
their runs the refinements have taken, which say more of the same steps: `ResultIsOwn`,
`TerminalIsFinal`, `StartedIsEnded`, `LeavingIsSilent` and `SuccessIsSaved`.

## Fairness

On the Bridge the event loop runs what is ready (`TaskStep`, `CancelReturns`, `WakeUp`, `Wakes`,
`PhotoChecks`, `Cleanup`), timers fire (`Deadline`, `TimesOut`, `DeadlinePasses`, `PhotoTimesOut`),
and what is awaited from outside is bounded: STT, Hermes, TTS and the failure cue have timeouts, a
socket closes within the server's limit, and `send_text` returns or raises because the server closes
a socket that does not answer pings. Nothing is assumed of devices, clients or cancellations.

On the device the worker's loop polls and runs its callbacks, the connection worker returns, the
receive task delivers, and WLAN comes back (weak fairness). The handshake timer, the scheduling and
the reconnection are strongly fair: callbacks of older connections may disarm them again and again,
but the timers are looked at in each round. A live Bridge answers a close frame. The decoder and the
output and the encoder go on, a connection that was given up is lost in the end (weak), and a stream
that is being sent gets its first packet and its end whenever there is room again and again (strong);
a cancellation in the send of the start takes precedence, and `SpeakingEnds` owns up to it. Not
assumed: that a Bridge which is
silent is noticed (see below), that packets arrive, that a user touches the device.

## Proofs

All are for every value of the constants, under the named assumptions only: the null values are not
members of the sets they complete, capacities and bounds are natural numbers, and devices are
finitely many where the gauge counts them.

- `TurnCoordinatorProofs`: types, `GaugeExact`, `ActiveTurnHasOwner`, `NoOverlap`,
  `NoLateTransition`, `HandOver` and the refinement of `TurnSlot`. The invariants are not inductive
  alone. `Ownership` adds that active turns sit on their own device in an open state, that only
  cancelled or orphaned turns are interrupted, that whoever waits in `gather` waits for an attached
  task of a cancelling turn, and that an attached task belongs to the active turn of its device; the
  last part is the reason two tasks never overlap, and it needs no exception for orphaned turns.
  Steps fall into four shapes (begin, move, end, cancel or release), each proved once. For the
  gauge, the cardinality of the set of busy devices is followed through begin and release.
- `CommandRegistryProofs`: types, `NoPendingFutureLeft`, `SlotsAreCalls`, `ResultIsOwn` and
  `LateResultIgnored`. `SlotsAreCalls` is what lets `_fail_pending` find every future that must
  fail; `AnswersAreExecuted` follows a result from execution to outcome. The refinement of
  `RemoteCall` needs `WireInv` as well: what is on its way or executed is the command of a call that
  was made, over the connection it took, and never both at once.
- `CaptureStoreProofs`: types, `SuccessIsProven`, `TerminalIsFinal` and `ImageOnlyIntoReserved`.
  `StateTellsImage` is the key: an open transaction whose image is missing is `reserved`, or its
  image was deleted or has aged, which `save` refuses; so `save` may set the state without reading
  it. Most actions merely close one transaction (`Closes`), which is proved sound once. A second
  invariant on top of the first, `WaitInv`, gives `AcksHold`, `AbandonedIsClosed`,
  `NobodyOversleeps` and `DeliveredIsProven`: a stored proof has been acknowledged, a running
  `take_photo` keeps its capture, and each step either wakes those who wait for what it ends
  (`Rouses`) or lets a waiter fall asleep that has just looked. The shapes that were proved sound
  are also the steps of `PhotoTransaction`; that ending a capture never ends one that was not
  reserved takes one more fact about `take_photo` (`CallReserved`).
- `SegmentPipelineProofs`: types, `HeardInOrder`, `ReturnedIsHeard`, `StartedIsEnded` and the
  refinement of `SpokenAnswer`. The consumer's place tells how many syntheses it has taken, and
  which of them were skipped; past its finally clause every task is done. For the refinement
  `AnswerInv` adds that no segment is heard twice, or heard and missed.
- `FirmwareLinkProofs`: types, `LossIsReported`, `UpIsAcknowledged` (which no run checks: it is part
  of the invariant) and the refinement of `BridgeLink`. The invariant follows one connection:
  nothing of it is queued before its worker has connected; its one "connected" is taken from the
  queue before the hello goes out, and so before a hello_ack; after its loss is queued no hello_ack
  is. A connection the session is about to use, and only such a one, has left a report in the queue,
  in the batch or in the overflow flag when its socket is no longer connected (`LossLeavesReport`):
  after a failing connect there may be none, and `LossIsReported` is therefore a property of steps,
  each of which keeps the report or establishes a session late (`EstablishesLate`). The same facts
  place each step in `BridgeLink`: the connection's threads move an attempt towards its answer or
  out of reach of one (`Advances`), and only the session's thread establishes, leaves, ends or
  begins; a new generation starts as `dialing` because nothing of it can be queued yet
  (`NewGeneration`), or as `over` when the connect that counted it has failed.
- `FirmwareSessionProofs`: types, `StateMatchesStreams`, `LateControlIsHarmless`, `LeavingIsSilent`,
  `PlaysItsStream` and the refinement of `Conversation`. The types need `PlaybackFits`, room for the
  packet being decoded. `StateMatchesStreams` is inductive with them and settles the next two:
  whatever a late message addresses, there is nothing left of it to change, and each step that
  leaves SPEAKING resets the decoder or found it empty. `PlaysItsStream` rests on the order of what
  is on the wire (`WireIsInOrder`): starts come in increasing order, each after the end of the
  stream before unless that one is `endless`, and a packet follows the start it belongs to, so what
  follows an open stream is its own until its end, or newer if nobody ends it (`Sending`,
  `Continues`, `Aging`). `NumbersAreKnown` adds that whatever is left in the queues, in the decoder,
  or remembered from a barge-in, is older than every stream still to be started, and that nothing
  older than the stream of now is on the wire (`Reaches`). These same facts carry the refinement of
  `Conversation`: the streams that are past are the known ones, so that a start taken from the wire
  is newer than all of them; and `Air`, what is still to sound, is emptied by each step that begins
  or ends SPEAKING in a session and grows by packets of the stream of now only, or by newer ones if
  it is endless. `NothingArrives` adds that a device without a session receives nothing.
- `DeviceGatewayProofs`: types, `TurnHasKeeper`, `StreamHasHandler` and `StreamStaysIntact`.
  Handlers resume in any order among the steps of the others, so the invariant says only what they
  cannot but find: the turn of a suspended start has not begun and its stream is still its
  connection's unless that was closed (`StartersKeepTheirs`), the turn of a suspended frame's stream
  is not the device's any more (`FramesAgree`), and a start that waits for a turn never finds that
  turn's stream open (`StartersWaitForOthers`), which is why it overwrites no stream whose turn is
  under way. Each kind of step is shown to keep the keeper and the handler, or to be the step its
  property names (`Outcome`).
- `FirmwareCameraProofs`: types with the bound on notices, `WorkerHoldsGate`, `SuccessIsSaved` and
  the refinement of `CameraSlot`. What is being uploaded was sent (`ImageIsSent`). `StageInv` says
  which result belongs to which capture: one that waits has none, one that is over has its own, and
  any other result is a failure of a launch without a context.

A refinement is proved in three parts: initial states map to initial states; each step, from a state
of the invariant, is a step of the promise or changes nothing of it (one lemma per action or shape
of actions); and temporal logic does the rest. Where the promise is a next-state relation with
existentials, the lemma names the witness.

Every invariant, action property and refinement that a passing run checks is proved. Only
model-checked is liveness, which is out of the prover's reach, like ENABLED.

## Findings

`StaleHandlerIsHarmless` is violated. `device_websocket` (`application.py:793`) cancels the device's
current turn after `register` has returned from closing the previous socket. If a newer connection
registered, became ready and began a turn during that close, its turn is cancelled by the overtaken
handshake, against `docs/state-machines.md:49` ("reconnection uses a generation/connection ID so an
old receive task cannot change new state") and `docs/protocol-v1.md:274`. The device gives up a
handshake after 5 s (`session.cpp:441`) and a close may take longer, so the device itself can
produce it. The other properties of the gateway hold nevertheless.

`CompletionFollowsJoin` is violated (`H/stackchan_bridge_camera.cpp:192`). `update` decides in a first
critical section whether to join the worker and looks for its result in a second one. A worker that
publishes in between is collected without a join; `worker_` stays joinable, line 206 then returns
for ever, and every later capture is accepted and never runs. `docs/protocol-v1.md:292` has the
completion follow the join. `CameraIsFreed` therefore speaks of behaviours without this race.

### Differences without a run

Met while modelling; the models follow the code.

- A cancellation in the await after `audio.output.start` (`B/audio/output.py:66`) is outside the `try`
  and sends no end, although `docs/state-machines.md:89` has a cancellation stop playback. Without its
  exception TLC refutes `SpeakingEnds`: the player is cancelled while it sends the start, no
  `speech.cancel` follows, the device takes the start and stays SPEAKING; it then refuses the next
  start and plays the packets of that stream in the old one. `ImplementsAnswer` excludes this await by
  its own words; `FirmwareSession` models it (`BridgeCancelsStart`), and `PlaysItsStream`,
  `ImplementsConversation` and `SpeakingEnds` each say what holds of such a stream.
- A bad frame whose cancellation returns after another start has opened a stream removes that stream
  and its deadline (`B/audio/input.py:118`), and the turn waits for the device; the test at
  `bridge/tests/test_audio_input.py:539` says that only the stream with the errors
  ends. `TurnHasKeeper` without its exception is violated in 14 states.
- A start that waits for the old turn while its connection is replaced opens a stream nobody handles
  (`B/audio/input.py:79`), which blocks the next connection until its deadline, against
  `docs/protocol-v1.md:274`. `StreamHasHandler` without its exception is violated in 9 states: a
  connection is replaced, its direct turn is running, its start waits for it; the turn ends, the
  replacement's close returns, finds the task done and drops the old input; the start resumes.
- A stream whose turn was cancelled by an overtaken handshake is overwritten by a start that was
  suspended (`B/audio/input.py:97`), against `docs/protocol-v1.md:171`. `StreamStaysIntact` for all
  streams is violated in 12 states.
- A `connect` that fails has already cleared `closeRequested_`
  (`H/stackchan_bridge_websocket.cpp:133`): after an expired handshake, a late hello_ack of the
  connection that was given up establishes a session, with a reconnection pending and possibly on a
  dead socket whose loss nobody reports, against `docs/state-machines.md:49`. `BridgeLink` has it as
  `ajar`; that a session is never established with a reconnection pending is violated in 15 states.
- The pong timeout (`C/session.cpp:457`) only asks a silent Bridge to close, and `reconnect` refuses
  unless the state is CONNECTING; `docs/protocol-v1.md:117` has the device close and reconnect after
  45 s. `Recovers` excludes the silent Bridge. An overflow of the callbacks may also drop a newer
  connection than the one that overflowed (`H/stackchan_bridge_websocket.cpp:198`).
- A disconnect while SPEAKING discards the playback context and not the queues of `AudioService`
  (`C/session.cpp:331`), against `docs/state-machines.md:45`; `LeavingIsSilent` speaks of connected
  devices. `Conversation` makes it explicit: `Lose` leaves what is to sound, and only the next stream
  or barge-in is sure to silence it, so a device that reconnects and is touched may record it.
- A launch that fails before it has a context leaves a result while `io_` is null
  (`H/stackchan_bridge_camera.cpp:214`). A `camera.cancel` before the next `update` then frees the gate
  (line 174), a new capture may be accepted in the same batch of messages, and `update` completes it
  when it collects the old result (line 203): it is never run and never reported, against
  `docs/protocol-v1.md:290`. It is `ReportOwed` of `CameraSlot`, and `CameraRefinement` shows that an
  accepted capture is lost in no other way.
- The gate of decode failures and the request it made are not reset by a new stream
  (`H/stackchan_bridge_service.cpp:203`), so failures of one stream can end the next one, against
  `docs/protocol-v1.md:46`.
- After a barge-in each packet still under way counts as an invalid message, and the third within ten
  seconds closes the connection; a start that meets a stream which has ended but is still being
  played is refused, and so are its packets.

## Not modelled

HTTP surfaces and the MCP server (they translate requests), the adapters for STT, TTS and Hermes (their
results, errors and timeouts are inputs here), codecs, message schemas, configuration and CLI, the
simulator, and the firmware's board support, fonts, drawing, motion and apps. These last are most of
the repository's lines (vendored sensor drivers and generated fonts), which is why the mapped share
of all lines is small. The authentication gate and the rate limiter are sequential arithmetic on one
loop, the segmenter and the voice activity detector pure functions of their input.

## What could follow

The contract of the playback wire, kept by `SegmentPipeline` and relied upon by `FirmwareSession`, as a
module of its own; `SpeechHistory` (the status derived after a turn has ended); the replay cache with a
Bridge that repeats requests; the segmenter and the detector against reference definitions.
`DeviceGateway` does not implement `TurnSlot`: `StaleHandlerIsHarmless` shows why.
