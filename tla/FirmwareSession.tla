-------------------------- MODULE FirmwareSession --------------------------
(***************************************************************************)
(* An established session of the device: what BridgeClient (session.cpp)   *)
(* makes of the Bridge's messages, the AudioOutputBuffer of the stream     *)
(* being played (audio_output.cpp), the touch input and the playback loop  *)
(* of BridgeClientWorker (stackchan_bridge_service.cpp), and the decoder   *)
(* and output tasks of AudioService as patched by xiaozhi-esp32.patch.     *)
(*                                                                         *)
(* All of the session runs on the worker's thread; the touch sensor, the   *)
(* decoder and the output run on others. The wire is the FIFO from the     *)
(* Bridge's player (audio/output.py), which may cancel a turn at any time: *)
(* what the device tells the Bridge is not modelled, and any send may      *)
(* fail. A packet is the number of its stream.                             *)
(***************************************************************************)
EXTENDS Integers, Sequences

CONSTANTS
  Streams,       \* bound: playback streams of a behaviour
  Segments,      \* bound: streams of a turn
  Inputs,        \* bound: audio inputs of a behaviour
  WireLimit,     \* bound: messages under way
  QueueLimit,    \* kAudioOutputQueuePackets
  Preroll,       \* packets queued before an open stream is played
  DecodeLimit,   \* packets AudioService takes before it has decoded one
  PlayLimit,     \* MAX_PLAYBACK_TASKS_IN_QUEUE
  FailureLimit,  \* the gate's threshold (3)
  InvalidLimit,  \* kInvalidMessageLimit (3)
  CommandLimit   \* kCommandResultCacheLimit (256)

ASSUME StreamAssumption == Streams \in Nat /\ Segments \in Nat \ {0} /\ Inputs \in Nat
ASSUME LimitAssumption ==
  /\ WireLimit \in Nat /\ QueueLimit \in Nat /\ Preroll \in 0..QueueLimit
  /\ DecodeLimit \in Nat /\ PlayLimit \in Nat /\ CommandLimit \in Nat
  /\ FailureLimit \in Nat \ {0} /\ InvalidLimit \in Nat \ {0, 1}

VARIABLES
  wire,        \* the Bridge's messages, oldest first
  sent,        \* the last stream the Bridge has started
  over,        \* the last turn that was cancelled or failed
  playing,     \* the stream the Bridge is sending, 0 if none
  starting,    \* it has sent no packet of it
  endless,     \* the streams whose player was cancelled in the send of the start
  order,       \* the turn whose speech.cancel the Bridge has still to send, 0 if none
  state,       \* the device's state; "connecting" without a session
  closing,     \* the session has given its connection up: nothing more is received
  stream,      \* the stream of the playback context, 0 without one (contextActive_)
  open,        \* it has not ended (open_)
  preroll,     \* prerollSatisfied_
  queue,       \* its packets
  recent,      \* recentlyCancelledAudioOutputTurnId_, 0 if none
  local,       \* locallyCancelledAudioOutputStreamId_, 0 if none
  input,       \* the open audio input, 0 if none
  inputs,      \* the inputs begun so far
  invalid,     \* count_ of the window of invalid messages
  commands,    \* the cached results of commands
  recording,   \* recording_
  encoding,    \* AudioService may still have microphone packets to encode
  decodeQueue, playQueue,  \* AudioService's queues
  decoding,    \* the packet being decoded, 0 if none
  stale,       \* it was begun before the last ResetDecoder
  output,      \* a packet is being played
  failures,    \* the decodes failed in a row; FailureLimit of them latch the gate
  failed       \* decodeFailureRequested_

bridgeVars == <<wire, sent, over, playing, starting, endless, order>>
contextVars == <<stream, open, preroll, queue>>
cancelVars == <<recent, local>>
inputVars == <<input, inputs>>
micVars == <<recording, encoding>>
codecVars == <<decodeQueue, playQueue, decoding, stale>>
failureVars == <<failures, failed>>
vars == <<bridgeVars, state, closing, contextVars, cancelVars, inputVars, invalid, commands,
          micVars, codecVars, output, failureVars>>

Turns == (Streams + Segments - 1) \div Segments
TurnOf(s) == (s + Segments - 1) \div Segments
EndReasons == {"completed", "cancelled", "error"}

Message ==
  [kind : {"start", "packet"}, of : 1..Streams] \cup
  [kind : {"end"}, of : 1..Streams, reason : EndReasons] \cup
  [kind : {"cancel"}, of : 1..Turns] \cup
  [kind : {"fault"}, of : 1..Inputs]

TypeOK ==
  /\ wire \in Seq(Message) /\ Len(wire) <= WireLimit
  /\ sent \in 0..Streams /\ playing \in {0, sent} /\ over \in 0..Turns /\ order \in 0..Turns
  /\ state \in {"connecting", "idle", "listening", "speaking"}
  /\ closing \in BOOLEAN
  /\ stream \in 0..Streams /\ open \in BOOLEAN /\ preroll \in BOOLEAN
  /\ queue \in Seq(1..Streams) /\ Len(queue) <= QueueLimit
  /\ recent \in 0..Turns /\ local \in 0..Streams
  /\ inputs \in 0..Inputs /\ input \in {0, inputs}
  /\ invalid \in 0..InvalidLimit /\ commands \in 0..CommandLimit
  /\ starting \in BOOLEAN /\ endless \subseteq 1..sent
  /\ recording \in BOOLEAN /\ encoding \in BOOLEAN
  /\ decodeQueue \in Seq(1..Streams) /\ Len(decodeQueue) <= DecodeLimit
  /\ playQueue \in Seq(1..Streams) /\ Len(playQueue) <= PlayLimit
  /\ decoding \in 0..Streams /\ stale \in BOOLEAN /\ output \in BOOLEAN
  /\ failures \in 0..FailureLimit /\ failed \in BOOLEAN

Init ==
  /\ wire = <<>> /\ sent = 0 /\ over = 0 /\ playing = 0 /\ order = 0
  /\ state = "connecting" /\ closing = FALSE
  /\ stream = 0 /\ open = FALSE /\ preroll = FALSE /\ queue = <<>>
  /\ recent = 0 /\ local = 0 /\ input = 0 /\ inputs = 0 /\ invalid = 0 /\ commands = 0
  /\ starting = FALSE /\ endless = {}
  /\ recording = FALSE /\ encoding = FALSE
  /\ decodeQueue = <<>> /\ playQueue = <<>> /\ decoding = 0 /\ stale = FALSE /\ output = FALSE
  /\ failures = 0 /\ failed = FALSE

(***************************************************************************)
(* The Bridge.                                                             *)
(***************************************************************************)
Says(message) ==
  /\ state # "connecting"
  /\ Len(wire) < WireLimit
  /\ wire' = Append(wire, message)
  /\ UNCHANGED <<state, closing, contextVars, cancelVars, inputVars, invalid, commands,
                 micVars, codecVars, output, failureVars>>

\* The player of a turn sends its streams one after the other.
NextStream == IF sent < Segments * over THEN Segments * over + 1 ELSE sent + 1

BridgeStart ==
  /\ playing = 0 /\ NextStream <= Streams
  /\ sent' = NextStream /\ playing' = NextStream /\ starting' = TRUE
  /\ Says([kind |-> "start", of |-> NextStream])
  /\ UNCHANGED <<over, endless, order>>

BridgePacket ==
  /\ playing # 0
  /\ starting' = FALSE
  /\ Says([kind |-> "packet", of |-> playing])
  /\ UNCHANGED <<sent, over, playing, endless, order>>

\* The audio is never empty.
BridgeEnd ==
  /\ playing # 0 /\ ~starting
  /\ playing' = 0
  /\ Says([kind |-> "end", of |-> playing, reason |-> "completed"])
  /\ UNCHANGED <<sent, over, starting, endless, order>>

\* The encoder fails, and with it the turn.
BridgeFails ==
  /\ playing # 0
  /\ playing' = 0 /\ starting' = FALSE /\ over' = TurnOf(playing)
  /\ Says([kind |-> "end", of |-> playing, reason |-> "error"])
  /\ UNCHANGED <<sent, endless, order>>

\* The turn is cancelled while its player sends. The device may be told to stop the speech
\* of the turn by a command that goes its own way.
CancelPlayer ==
  /\ playing # 0
  /\ playing' = 0 /\ starting' = FALSE /\ over' = TurnOf(playing)
  /\ order' \in {order, TurnOf(playing)}
  /\ UNCHANGED sent

\* While it sends packets: it ends its stream.
BridgeCancels ==
  /\ CancelPlayer
  /\ Says([kind |-> "end", of |-> playing, reason |-> "cancelled"])
  /\ UNCHANGED endless

\* While it sends the start: it ends nothing, and the device may have the start.
BridgeCancelsStart ==
  /\ starting
  /\ CancelPlayer
  /\ endless' = endless \cup {playing}
  /\ UNCHANGED <<wire, state, closing, contextVars, cancelVars, inputVars, invalid, commands,
                 micVars, codecVars, output, failureVars>>

\* It is cancelled while its player waits after a stream.
BridgeCancelsBetween ==
  /\ playing = 0 /\ TurnOf(sent) > over
  /\ over' = TurnOf(sent) /\ order' = TurnOf(sent)
  /\ UNCHANGED <<wire, sent, playing, starting, endless, state, closing, contextVars, cancelVars, inputVars,
                 invalid, commands, micVars, codecVars, output, failureVars>>

BridgeOrders ==
  /\ order # 0
  /\ order' = 0
  /\ Says([kind |-> "cancel", of |-> order])
  /\ UNCHANGED <<sent, over, playing, starting, endless>>

\* A packet of the last audio input cannot be decoded. The turn of an input is the only one.
BridgeFaults ==
  /\ inputs # 0 /\ playing = 0
  /\ Says([kind |-> "fault", of |-> inputs])
  /\ UNCHANGED <<sent, over, playing, starting, endless, order>>

(***************************************************************************)
(* What handlers of the session have in common.                            *)
(***************************************************************************)
\* A send may fail, and the connection is then given up (close and reconnectPending_).
MaySend == closing' \in {closing, TRUE}

\* The playback context is discarded (clearContext).
ClearContext == stream' = 0 /\ open' = FALSE /\ preroll' = FALSE /\ queue' = <<>>

ResetDecoderFaulty == decodeQueue' = <<>> /\ playQueue' = <<>> /\ UNCHANGED <<decoding, stale>>

\* AudioService::ResetDecoder: both queues are emptied, a decode in flight goes stale.
ResetDecoder ==
  /\ decodeQueue' = <<>> /\ playQueue' = <<>>
  /\ stale' = (decoding # 0)
  /\ UNCHANGED decoding

\* InvalidMessageWindow: its ten seconds may be over, and then it begins anew.
Observe == invalid' \in {1, IF invalid < InvalidLimit THEN invalid + 1 ELSE InvalidLimit}

\* reportPeerError: the third error of a window gives the connection up.
ReportError == Observe /\ IF invalid' = InvalidLimit THEN closing' = TRUE ELSE MaySend

\* A message that is only reported.
Refuse ==
  /\ ReportError
  /\ UNCHANGED <<state, contextVars, cancelVars, input, commands, codecVars>>

(***************************************************************************)
(* The Bridge's messages (onData).                                         *)
(***************************************************************************)
\* An open input is ended first, and the start is dropped when that cannot be sent.
\* Entering SPEAKING resets the decoder (stateChanged).
OnStart(s) ==
  \/ /\ input # 0
     /\ closing' = TRUE
     /\ UNCHANGED <<state, contextVars, cancelVars, input, invalid, commands, codecVars>>
  \/ /\ stream = 0
     /\ stream' = s /\ open' = TRUE /\ preroll' = FALSE /\ queue' = <<>>
     /\ input' = 0
     /\ state' = "speaking" /\ ResetDecoder
     /\ recent' = 0
     /\ UNCHANGED <<local, closing, invalid, commands>>
  \/ stream # 0 /\ Refuse

\* A packet names no stream: it belongs to the open one. A full queue drops it.
OnPacket(s) ==
  \/ /\ open
     /\ IF Len(queue) < QueueLimit
          THEN /\ queue' = Append(queue, s)
               /\ preroll' = (preroll \/ Len(queue) + 1 >= Preroll)
          ELSE UNCHANGED <<queue, preroll>>
     /\ UNCHANGED <<state, closing, stream, open, cancelVars, input, invalid, commands, codecVars>>
  \/ ~open /\ Refuse

\* The end of a stream the device has left by barge-in is ignored. Any end but a completed
\* one flushes the playback at once.
OnEnd(s, reason) ==
  \/ /\ s = local
     /\ UNCHANGED <<state, closing, contextVars, cancelVars, input, invalid, commands, codecVars>>
  \/ /\ s # local /\ open /\ stream = s
     /\ IF reason = "completed"
          THEN open' = FALSE /\ UNCHANGED <<state, stream, preroll, queue, codecVars>>
          ELSE ClearContext /\ ResetDecoder /\ state' = "idle"
     /\ recent' = IF reason = "cancelled" THEN TurnOf(s) ELSE recent
     /\ UNCHANGED <<closing, local, input, invalid, commands>>
  \/ s # local /\ ~(open /\ stream = s) /\ Refuse

\* An undecodable input ends on the Bridge's word, if it is still the open one.
OnFault(i) ==
  /\ IF i = input THEN input' = 0 /\ state' = "idle" ELSE UNCHANGED <<input, state>>
  /\ UNCHANGED <<closing, contextVars, cancelVars, invalid, commands, codecVars>>

CancellableFaulty(t) == stream # 0 \/ recent = t

\* The turn is being played, or was cancelled a moment ago.
Cancellable(t) == IF stream # 0 THEN TurnOf(stream) = t ELSE recent = t

\* speech.cancel: any other turn is answered INVALID_STATE. Every result is kept for a
\* replay, and without room for it the connection is given up.
OnCancel(t) ==
  \/ /\ commands >= CommandLimit
     /\ closing' = TRUE
     /\ Observe
     /\ UNCHANGED <<state, contextVars, cancelVars, input, commands, codecVars>>
  \/ /\ commands < CommandLimit
     /\ IF Cancellable(t)
          THEN /\ ClearContext /\ ResetDecoder
               /\ recent' = 0
               /\ state' = IF state = "speaking" THEN "idle" ELSE state
          ELSE UNCHANGED <<state, contextVars, recent, codecVars>>
     /\ \/ commands' = commands + 1 /\ UNCHANGED closing
        \/ closing' = TRUE /\ UNCHANGED commands
     /\ UNCHANGED <<local, input, invalid>>

Handle(message) ==
  \/ message.kind = "start" /\ OnStart(message.of)
  \/ message.kind = "packet" /\ OnPacket(message.of)
  \/ message.kind = "end" /\ OnEnd(message.of, message.reason)
  \/ message.kind = "fault" /\ OnFault(message.of)
  \/ message.kind = "cancel" /\ OnCancel(message.of)

\* A session that is closing drops what still arrives.
Receive ==
  /\ wire # <<>>
  /\ wire' = Tail(wire)
  /\ IF closing
       THEN UNCHANGED <<state, closing, contextVars, cancelVars, input, invalid, commands, codecVars>>
       ELSE Handle(Head(wire))
  /\ UNCHANGED <<sent, over, playing, starting, endless, order, inputs, micVars, output,
                 failureVars>>

(***************************************************************************)
(* The connection: FirmwareLink says how it is lost and made again.        *)
(***************************************************************************)
\* handleTransportDisconnected. The Bridge's player fails, and its turn.
Disconnect ==
  /\ state # "connecting"
  /\ wire' = <<>> /\ playing' = 0 /\ starting' = FALSE /\ order' = 0 /\ over' = TurnOf(sent)
  /\ state' = "connecting" /\ closing' = FALSE
  /\ ClearContext
  /\ recent' = 0 /\ local' = 0 /\ input' = 0 /\ invalid' = 0 /\ commands' = 0
  /\ UNCHANGED <<sent, endless, inputs, micVars, codecVars, output, failureVars>>

\* The hello is acknowledged.
Acknowledged ==
  /\ state = "connecting"
  /\ state' = "idle"
  /\ UNCHANGED <<bridgeVars, closing, contextVars, cancelVars, inputVars, invalid, commands,
                 micVars, codecVars, output, failureVars>>

(***************************************************************************)
(* Touch and audio input.                                                  *)
(***************************************************************************)
\* audio.input.start cannot be sent: no input, and after a barge-in the state stays.
NoInput == closing' = TRUE /\ UNCHANGED <<inputVars, micVars>>

NewInput ==
  /\ inputs' = inputs + 1 /\ input' = inputs + 1
  /\ recording' = TRUE /\ encoding' = TRUE
  /\ UNCHANGED closing

\* beginAudioInput. A barge-in flushes the stream being played and remembers it.
BeginInput ==
  \/ /\ state = "idle" /\ input = 0
     /\ \/ NewInput /\ state' = "listening"
        \/ NoInput /\ UNCHANGED state
     /\ UNCHANGED <<contextVars, cancelVars, codecVars>>
  \/ /\ state = "speaking" /\ input = 0
     /\ ResetDecoder
     /\ local' = stream /\ recent' = TurnOf(stream)
     /\ ClearContext
     /\ state' = "listening"
     /\ (NewInput \/ NoInput)

\* The worker finds a press of the head; while recording it is forgotten.
HandleStart ==
  /\ ~recording /\ inputs < Inputs
  /\ BeginInput
  /\ UNCHANGED <<bridgeVars, invalid, commands, output, failureVars>>

EndInputFaulty ==
  \/ /\ input # 0
     /\ \/ input' = 0 /\ UNCHANGED <<state, closing>>
        \/ closing' = TRUE /\ UNCHANGED <<input, state>>
  \/ input = 0 /\ UNCHANGED <<input, state, closing>>

\* endAudioInput, after the last packets: an end that cannot be sent leaves the input open
\* in a lost connection.
EndInput ==
  \/ /\ input # 0
     /\ \/ input' = 0 /\ state' = "idle" /\ MaySend
        \/ closing' = TRUE /\ UNCHANGED <<input, state>>
  \/ input = 0 /\ UNCHANGED <<input, state, closing>>

\* The worker finds a release, which counts only while recording.
HandleEnd ==
  /\ recording
  /\ recording' = FALSE
  /\ EndInput
  /\ UNCHANGED <<bridgeVars, contextVars, cancelVars, inputs, invalid, commands, encoding,
                 codecVars, output, failureVars>>

\* In any other state than LISTENING the microphone is turned off.
StopRecording ==
  /\ recording /\ state # "listening"
  /\ recording' = FALSE
  /\ UNCHANGED <<bridgeVars, state, closing, contextVars, cancelVars, inputVars, invalid,
                 commands, encoding, codecVars, output, failureVars>>

\* A microphone packet is too large to be sent, or its send fails.
PacketFails ==
  /\ recording /\ state = "listening"
  /\ recording' = FALSE /\ MaySend
  /\ UNCHANGED <<bridgeVars, state, contextVars, cancelVars, inputVars, invalid, commands,
                 encoding, codecVars, output, failureVars>>

\* External: while the microphone is on its packets wait to be encoded now and again; the
\* last of them are encoded after it is off.
Encoded ==
  /\ encoding /\ ~recording
  /\ encoding' = FALSE
  /\ UNCHANGED <<bridgeVars, state, closing, contextVars, cancelVars, inputVars, invalid,
                 commands, recording, codecVars, output, failureVars>>

\* The input has lasted audioInputMaxDurationMs.
InputExpires ==
  /\ input # 0
  /\ EndInput
  /\ UNCHANGED <<bridgeVars, contextVars, cancelVars, inputs, invalid, commands, micVars,
                 codecVars, output, failureVars>>

(***************************************************************************)
(* Playback.                                                               *)
(***************************************************************************)
DeliverFaulty ==
  /\ queue # <<>> /\ preroll
  /\ Len(decodeQueue) < DecodeLimit
  /\ decodeQueue' = Append(decodeQueue, Head(queue))
  /\ queue' = Tail(queue)
  /\ UNCHANGED <<bridgeVars, state, closing, stream, open, preroll, cancelVars, inputVars,
                 invalid, commands, micVars, playQueue, decoding, stale, output, failureVars>>

\* deliverAudioOutputPacket: the next packet, once there are enough, if AudioService takes it.
Deliver ==
  /\ queue # <<>> /\ (preroll \/ ~open)
  /\ Len(decodeQueue) < DecodeLimit
  /\ decodeQueue' = Append(decodeQueue, Head(queue))
  /\ queue' = Tail(queue)
  /\ UNCHANGED <<bridgeVars, state, closing, stream, open, preroll, cancelVars, inputVars,
                 invalid, commands, micVars, playQueue, decoding, stale, output, failureVars>>

IsIdleFaulty == ~encoding /\ decodeQueue = <<>> /\ playQueue = <<>> /\ ~output

\* AudioService::IsIdle and AudioPlaybackCompletion::isIdle. Nothing here fills the queue of
\* the audio test.
IsIdle == ~encoding /\ decodeQueue = <<>> /\ playQueue = <<>> /\ decoding = 0 /\ ~output

\* acknowledgeAudioOutputPlayback, when all is delivered and played.
Acknowledge ==
  /\ state = "speaking" /\ ~open /\ queue = <<>>
  /\ IsIdle
  /\ ClearContext
  /\ state' = "idle"
  /\ UNCHANGED <<bridgeVars, closing, cancelVars, inputVars, invalid, commands, micVars,
                 codecVars, output, failureVars>>

\* reportAudioDecodeFailure: whatever is being played is ended, and reported.
ReportDecodeFailure ==
  /\ failed
  /\ failed' = FALSE /\ failures' = 0
  /\ ResetDecoder
  /\ ClearContext
  /\ state' = IF state = "speaking" THEN "idle" ELSE state
  /\ IF state = "connecting" THEN UNCHANGED closing ELSE MaySend
  /\ UNCHANGED <<bridgeVars, cancelVars, inputVars, invalid, commands, micVars, output>>

DecodeBegins ==
  /\ decoding = 0 /\ decodeQueue # <<>> /\ Len(playQueue) < PlayLimit
  /\ decoding' = Head(decodeQueue) /\ decodeQueue' = Tail(decodeQueue)
  /\ UNCHANGED <<bridgeVars, state, closing, contextVars, cancelVars, inputVars, invalid,
                 commands, micVars, playQueue, stale, output, failureVars>>

\* finishDecode: what was begun before a reset is not played.
DecodeSucceeds ==
  /\ decoding # 0
  /\ decoding' = 0 /\ stale' = FALSE
  /\ playQueue' = IF stale THEN playQueue ELSE Append(playQueue, decoding)
  /\ failures' = 0
  /\ UNCHANGED <<bridgeVars, state, closing, contextVars, cancelVars, inputVars, invalid,
                 commands, micVars, decodeQueue, output, failed>>

\* ConsecutiveFailureGate: the last failure of a row latches it and asks the worker to report it.
DecodeFails ==
  /\ decoding # 0
  /\ decoding' = 0 /\ stale' = FALSE
  /\ failures' = IF failures < FailureLimit THEN failures + 1 ELSE failures
  /\ failed' = (failed \/ failures + 1 = FailureLimit)
  /\ UNCHANGED <<bridgeVars, state, closing, contextVars, cancelVars, inputVars, invalid,
                 commands, micVars, decodeQueue, playQueue, output>>

OutputBegins ==
  /\ ~output /\ playQueue # <<>>
  /\ output' = TRUE /\ playQueue' = Tail(playQueue)
  /\ UNCHANGED <<bridgeVars, state, closing, contextVars, cancelVars, inputVars, invalid,
                 commands, micVars, decodeQueue, decoding, stale, failureVars>>

OutputEnds ==
  /\ output
  /\ output' = FALSE
  /\ UNCHANGED <<bridgeVars, state, closing, contextVars, cancelVars, inputVars, invalid,
                 commands, micVars, codecVars, failureVars>>

BridgeNext ==
  \/ BridgeStart \/ BridgePacket \/ BridgeEnd \/ BridgeFails \/ BridgeCancels
  \/ BridgeCancelsStart \/ BridgeCancelsBetween \/ BridgeOrders \/ BridgeFaults

WorkerNext ==
  \/ Receive \/ HandleStart \/ HandleEnd \/ StopRecording \/ PacketFails \/ InputExpires
  \/ Deliver \/ Acknowledge \/ ReportDecodeFailure

AudioNext ==
  DecodeBegins \/ DecodeSucceeds \/ DecodeFails \/ OutputBegins \/ OutputEnds \/ Encoded

Next == BridgeNext \/ WorkerNext \/ AudioNext \/ Disconnect \/ Acknowledged

Spec == Init /\ [][Next]_vars

\* The worker's loop and the tasks of AudioService go on. A stream being sent is ended, if
\* only there is room on the wire, and a connection that was given up is lost.
Fairness ==
  /\ WF_vars(Receive) /\ WF_vars(Deliver \/ Acknowledge \/ ReportDecodeFailure)
  /\ WF_vars(StopRecording) /\ WF_vars(AudioNext) /\ WF_vars(Encoded)
  /\ SF_vars(starting /\ BridgePacket) /\ SF_vars(BridgeEnd) /\ WF_vars(closing /\ Disconnect)

LiveSpec == Spec /\ Fairness

(***************************************************************************)
(* Properties.                                                             *)
(***************************************************************************)
\* Three variables tell what the device is doing, and they are written apart: the state,
\* the playback context and the open input always tell the same. Only a connection that was
\* given up may be LISTENING without an input (beginAudioInput, endAudioInput).
StateMatchesStreams ==
  /\ state = "speaking" <=> stream # 0
  /\ input # 0 => state = "listening"
  /\ state = "listening" => input # 0 \/ closing
  /\ open \/ preroll \/ queue # <<>> => stream # 0

\* A packet of the stream being played, or of a later one if nobody ends this one.
Belongs(packet) == packet = stream \/ (stream \in endless /\ packet > stream)

Own(packets) == \A i \in DOMAIN packets : Belongs(packets[i])

\* Binary packets name no stream and the decoder's thread runs beside the worker, and yet a
\* device that is SPEAKING plays its stream: nothing older is waiting or comes out of the
\* decoder, and no packet of its own is dropped there (ResetDecoder, AudioPlaybackCompletion,
\* docs/state-machines.md:44). Nothing newer is played either, unless the Bridge left the
\* stream without an end (AudioOutputStreamer.play, cancelled in the send of the start).
PlaysItsStream ==
  state = "speaking" =>
    /\ Own(queue) /\ Own(decodeQueue) /\ Own(playQueue)
    /\ decoding # 0 => IF stale THEN decoding < stream ELSE Belongs(decoding)

\* Nothing of a stream is left to be played.
Silent == decodeQueue = <<>> /\ playQueue = <<>> /\ (decoding # 0 => stale)

\* A device that leaves SPEAKING while connected has discarded the playback, or played it
\* to the end: a microphone opened next does not record it (docs/state-machines.md:45).
LeavingIsSilent == [][state = "speaking" /\ state' \in {"idle", "listening"} => Silent']_vars

Concerns(message) ==
  \/ message.kind \in {"start", "packet"}
  \/ message.kind = "end" /\ message.of = stream
  \/ message.kind = "cancel" /\ stream # 0 /\ message.of = TurnOf(stream)
  \/ message.kind = "fault" /\ message.of = input

\* What arrives late for a stream, turn or input that is over, as after a barge-in, changes
\* nothing of what the device is doing now (session.cpp:174).
LateControlIsHarmless ==
  [][wire # <<>> /\ wire' = Tail(wire) /\ state' # "connecting" /\ ~Concerns(Head(wire))
       => UNCHANGED <<state, contextVars, input>>
          /\ (state = "speaking" => UNCHANGED codecVars)]_vars

\* The streams that have begun and whose start is no longer on the wire, nor an older one.
Past ==
  {s \in 1..sent : \A i \in 1..Len(wire) : wire[i].kind = "start" => s < wire[i].of}

Streamed(packets) == {packets[i] : i \in 1..Len(packets)}

\* The streams of which a packet may still be played, but for the one in the output.
Air ==
  Streamed(decodeQueue) \cup Streamed(playQueue) \cup (IF decoding # 0 /\ ~stale THEN {decoding} ELSE {})

Talk == INSTANCE Conversation WITH
  mode <- state, voice <- stream, ear <- input, past <- Past, air <- Air, adrift <- endless

\* Whatever the Bridge sends late, drops or cancels, whoever presses the head, and wherever
\* the decoder's thread is, the device holds the conversation that Conversation describes
\* (onData, beginAudioInput, ResetDecoder, docs/state-machines.md:44).
ImplementsConversation == Talk!TalkSpec

\* The device never stays SPEAKING: the stream is played to its end or given up, unless the
\* Bridge was cancelled while it sent the start (AudioOutputStreamer.play).
SpeakingEnds == state = "speaking" ~> state # "speaking" \/ stream \in endless
=============================================================================
