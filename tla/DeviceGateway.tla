--------------------------- MODULE DeviceGateway ---------------------------
(***************************************************************************)
(* One device and its connections: DeviceRegistry and device_websocket of  *)
(* bridge/src/stackchan_bridge/device_gateway/application.py composed with *)
(* the microphone streams of audio/input.py, the taps of turns/events.py,  *)
(* the requests of the control API, and the turn coordinator.              *)
(*                                                                         *)
(* Several connections of the device are alive at once: a new one closes   *)
(* the old one, cancels the old turn and drops the old stream, each step   *)
(* with a suspension in which the others go on. The coordinator appears    *)
(* as TurnCoordinator shows it from outside: a cancellation of a turn with *)
(* a running task suspends its caller until that task is done.             *)
(*                                                                         *)
(* A microphone stream is named by the turn its start message carries.     *)
(***************************************************************************)
EXTENDS Sequences, FiniteSets

CONSTANTS Conn, Turn, NoConn, NoTurn

ASSUME ConnAssumption == NoConn \notin Conn
ASSUME TurnAssumption == NoTurn \notin Turn

VARIABLES
  registered,  \* DeviceRegistry._connections for the device
  pending,     \* DeviceRegistry._pending_handshakes
  previous,    \* previous_connection, as each handshake read it
  shut,        \* connections whose socket the registry has closed
  input,       \* active_audio_inputs
  capture,     \* VoiceAudioInputHandler._captures for the device
  completed,   \* completed, of that capture
  slot,        \* TurnCoordinator._active for the device
  phase,       \* how far each turn is
  live,        \* what each turn's own task does
  origin,      \* the connection a turn was begun for
  at,          \* where each connection's handler is suspended
  waiting,     \* the handlers whose cancellation waits for each turn, in order
  message,     \* the audio.input.start a handler is working on
  api          \* the turn a cancel_speech request waits for

registryVars == <<registered, pending, previous, shut>>
streamVars == <<input, capture, completed>>
turnVars == <<slot, phase, live, origin>>
handlerVars == <<at, waiting, message>>
vars == <<registryVars, streamVars, turnVars, handlerVars, api>>

\* "capturing" is TurnState.CAPTURING, "closing" CANCELLING, "working" the states
\* between, "over" a turn that has left the coordinator.
Phase == {"new", "capturing", "working", "closing", "over"}

(***************************************************************************)
(* "new": not registered; "replacing": awaits previous.websocket.close;    *)
(* "cancelling": awaits the end of the old turn; "acking": sends           *)
(* hello_ack; "dropping": awaits the cancellation of the old stream;       *)
(* "ready": awaits a message; "starting", "ending", "framing",             *)
(* "barging": awaits the cancellation in input.start, input.end,           *)
(* input.frame or in a tap; "leaving": the finally block; "discarding",    *)
(* "quitting": awaits its two cancellations; "gone": returned.             *)
(***************************************************************************)
Place == {"new", "replacing", "cancelling", "dropping", "acking", "ready",
          "starting", "ending", "framing", "barging",
          "leaving", "discarding", "quitting", "gone"}

TypeOK ==
  /\ registered \in Conn \cup {NoConn}
  /\ pending \subseteq Conn
  /\ previous \in [Conn -> Conn \cup {NoConn}]
  /\ shut \subseteq Conn
  /\ input \in [Conn -> Turn \cup {NoTurn}]
  /\ capture \in Turn \cup {NoTurn}
  /\ completed \in BOOLEAN
  /\ slot \in Turn \cup {NoTurn}
  /\ phase \in [Turn -> Phase]
  /\ live \in [Turn -> {"none", "queued", "running", "done"}]
  /\ origin \in [Turn -> Conn \cup {NoConn}]
  /\ at \in [Conn -> Place]
  /\ waiting \in [Turn -> Seq(Conn)]
  /\ message \in [Conn -> Turn \cup {NoTurn}]
  /\ api \in Turn \cup {NoTurn}

Init ==
  /\ registered = NoConn
  /\ pending = {}
  /\ previous = [k \in Conn |-> NoConn]
  /\ shut = {}
  /\ input = [k \in Conn |-> NoTurn]
  /\ capture = NoTurn
  /\ completed = FALSE
  /\ slot = NoTurn
  /\ phase = [t \in Turn |-> "new"]
  /\ live = [t \in Turn |-> "none"]
  /\ origin = [t \in Turn |-> NoConn]
  /\ at = [k \in Conn |-> "new"]
  /\ waiting = [t \in Turn |-> <<>>]
  /\ message = [k \in Conn |-> NoTurn]
  /\ api = NoTurn

(***************************************************************************)
(* The coordinator, seen from a handler that cancels. The gather of a      *)
(* handler returns some turns of the event loop after the task it waits    *)
(* for is done: the waiters of a turn resume in the order they came, but   *)
(* whatever else is ready may run before and between them, and sees        *)
(* task.done(). A handler that resumes finds its turn still in the slot,   *)
(* or released meanwhile. The operators below take the state of the        *)
(* coordinator, c, that a handler finds.                                   *)
(***************************************************************************)
Current == [slot |-> slot, phase |-> phase, waiting |-> waiting]

Put(c) == slot' = c.slot /\ phase' = c.phase /\ waiting' = c.waiting

\* The turn in the slot leaves it.
Without(c) ==
  IF c.slot = NoTurn THEN c
  ELSE [c EXCEPT !.slot = NoTurn, !.phase[c.slot] = "over"]

\* _cancel_owned once its gather has returned: release "if the turn is current"
Released(c, t) == IF c.slot = t THEN Without(c) ELSE c

\* What the handler that waited longest for t finds
Woken(t) == Released([Current EXCEPT !.waiting[t] = Tail(@)], t)

Wakes(k, t, place) ==
  /\ at[k] = place
  /\ live[t] = "done" /\ waiting[t] # <<>> /\ k = Head(waiting[t])

Running(c) == c.slot # NoTurn /\ live[c.slot] = "running"

Go(k, place) == at' = [at EXCEPT ![k] = place]

\* cancel_device or cancel_turn: k goes on to the place "next" at once, or waits for
\* the turn's task.
CancelThen(k, c, suspended, next) ==
  IF Running(c)
    THEN /\ Go(k, suspended)
         /\ Put([c EXCEPT !.phase[c.slot] = "closing", !.waiting[c.slot] = Append(@, k)])
    ELSE /\ Go(k, next)
         /\ Put(Without(c))

(***************************************************************************)
(* The handshake.                                                          *)
(***************************************************************************)
\* register, up to the close of the previous socket. The loop does not suspend
\* between the read of previous_connection and this.
Register(k) ==
  /\ at[k] = "new"
  /\ registered' = k
  /\ pending' = (pending \ {registered}) \cup {k}
  /\ previous' = [previous EXCEPT ![k] = registered]
  /\ Go(k, IF registered = NoConn THEN "acking" ELSE "replacing")
  /\ UNCHANGED <<shut, streamVars, turnVars, waiting, message, api>>

\* Fault: the old connection's entry is dropped and the stream is not disconnected.
DropPreviousInputFaulty(k, c) ==
  /\ input' = [input EXCEPT ![previous[k]] = NoTurn]
  /\ Go(k, "acking") /\ Put(c)
  /\ UNCHANGED <<capture, completed>>

\* disconnect of the old stream: whatever turn the device then has is cancelled.
DropPreviousInput(k, c) ==
  LET stream == input[previous[k]]
      owned == stream # NoTurn /\ capture = stream
  IN  /\ input' = [input EXCEPT ![previous[k]] = NoTurn]
      /\ capture' = IF owned THEN NoTurn ELSE capture
      /\ completed' = (completed /\ ~owned)
      /\ IF owned THEN CancelThen(k, c, "dropping", "acking")
                  ELSE Go(k, "acking") /\ Put(c)

\* The close took its time: the handler now cancels the turn that is active when it
\* returns. Nobody asks whether k is still the registered connection.
CloseReturns(k) ==
  /\ at[k] = "replacing"
  /\ shut' = shut \cup {previous[k]}
  /\ IF Running(Current)
       THEN CancelThen(k, Current, "cancelling", "cancelling") /\ UNCHANGED streamVars
       ELSE DropPreviousInput(k, Without(Current))
  /\ UNCHANGED <<registered, pending, previous, live, origin, message, api>>

OldTurnCancelled(k) ==
  \E t \in Turn :
    /\ Wakes(k, t, "cancelling")
    /\ DropPreviousInput(k, Woken(t))
    /\ UNCHANGED <<registryVars, live, origin, message, api>>

OldStreamDropped(k) ==
  \E t \in Turn :
    /\ Wakes(k, t, "dropping")
    /\ Go(k, "acking") /\ Put(Woken(t))
    /\ UNCHANGED <<registryVars, streamVars, live, origin, message, api>>

\* mark_ready
Acknowledged(k) ==
  /\ at[k] = "acking" /\ k \notin shut
  /\ IF registered = k
       THEN Go(k, "ready") /\ pending' = pending \ {k}
       ELSE Go(k, "leaving") /\ UNCHANGED pending
  /\ UNCHANGED <<registered, previous, shut, streamVars, turnVars, waiting, message, api>>

\* The socket is closed or lost, a limit is exceeded, or a message is not allowed.
Disconnected(k) ==
  /\ at[k] \in {"acking", "ready"}
  /\ Go(k, "leaving")
  /\ UNCHANGED <<registryVars, streamVars, turnVars, waiting, message, api>>

(***************************************************************************)
(* The receive loop. A replaced connection goes on receiving until the     *)
(* close of its socket has returned.                                       *)
(***************************************************************************)
Receives(k) == at[k] = "ready" /\ k \notin shut

\* coordinator.begin and the rest of VoiceAudioInputHandler.start, after the cancellation
BeginCapture(k, t, c) ==
  /\ Put([c EXCEPT !.slot = t, !.phase[t] = "capturing"])
  /\ capture' = t /\ completed' = FALSE
  /\ Go(k, "ready")

\* Fault: start does not look for another stream of the device.
StartStreamFaulty(k, t) ==
  /\ Receives(k) /\ input[k] = NoTurn
  /\ origin[t] = NoConn /\ phase[t] = "new"
  /\ origin' = [origin EXCEPT ![t] = k]
  /\ input' = [input EXCEPT ![k] = t]
  /\ message' = [message EXCEPT ![k] = t]
  /\ IF Running(Current)
       THEN CancelThen(k, Current, "starting", "starting") /\ UNCHANGED <<capture, completed>>
       ELSE BeginCapture(k, t, Without(Current))
  /\ UNCHANGED <<registryVars, live, api>>

\* A stream starts: RuntimeError while the device has another one, otherwise the
\* active turn is cancelled first.
StartStream(k, t) ==
  /\ Receives(k) /\ input[k] = NoTurn
  /\ origin[t] = NoConn /\ phase[t] = "new"
  /\ origin' = [origin EXCEPT ![t] = k]
  /\ input' = [input EXCEPT ![k] = t]
  /\ message' = [message EXCEPT ![k] = t]
  /\ IF capture # NoTurn
       THEN Go(k, "leaving") /\ Put(Current) /\ UNCHANGED <<capture, completed>>
       ELSE IF Running(Current)
         THEN CancelThen(k, Current, "starting", "starting") /\ UNCHANGED <<capture, completed>>
         ELSE BeginCapture(k, t, Without(Current))
  /\ UNCHANGED <<registryVars, live, api>>

\* TurnBusyError when somebody else has begun a turn meanwhile
StartResumes(k) ==
  \E t \in Turn :
    /\ Wakes(k, t, "starting")
    /\ IF Woken(t).slot = NoTurn
         THEN BeginCapture(k, message[k], Woken(t))
         ELSE Go(k, "leaving") /\ Put(Woken(t)) /\ UNCHANGED <<capture, completed>>
    /\ UNCHANGED <<registryVars, input, live, origin, message, api>>

\* coordinator.fail of the turn of the stream s: NO_SPEECH, EMPTY_AUDIO,
\* SPEECH_TOO_SHORT. StaleTurnError when s is not the active turn.
FailTurn(k, s) ==
  /\ Put(Released(Current, s))
  /\ Go(k, IF slot = s THEN "ready" ELSE "leaving")
  /\ UNCHANGED live

\* _start_turn_task
SubmitTurn(k, s) ==
  /\ live' = [live EXCEPT ![s] = "queued"]
  /\ Put(Current) /\ Go(k, "ready")

\* audio.input.end of the handler's own stream
EndStream(k) ==
  /\ Receives(k) /\ input[k] # NoTurn
  /\ input' = [input EXCEPT ![k] = NoTurn]
  /\ IF capture # input[k]
       THEN Go(k, "leaving") /\ Put(Current) /\ UNCHANGED <<live, capture, completed>>
       ELSE /\ capture' = NoTurn /\ completed' = FALSE
            /\ \/ CancelThen(k, Current, "ending", "ready") /\ UNCHANGED live
               \/ completed /\ Go(k, "ready") /\ Put(Current) /\ UNCHANGED live
               \/ ~completed /\ FailTurn(k, input[k])
               \/ ~completed /\ SubmitTurn(k, input[k])
  /\ UNCHANGED <<registryVars, origin, message, api>>

\* A frame after which the voice activity detector has an utterance
Utterance(k) ==
  /\ Receives(k) /\ input[k] # NoTurn
  /\ capture = input[k] /\ ~completed
  /\ completed' = TRUE
  /\ FailTurn(k, capture) \/ SubmitTurn(k, capture)
  /\ UNCHANGED <<registryVars, input, capture, origin, message, api>>

\* Once a cancellation for a bad frame has returned, the device's stream is removed,
\* whichever it is.
RemoveCapture(k) ==
  /\ capture' = NoTurn /\ completed' = FALSE
  /\ input' = [input EXCEPT ![k] = NoTurn]

\* A frame that cannot be decoded once too often, or is beyond the recording limit
\* (which also ends the connection: Disconnected)
BadFrame(k) ==
  /\ Receives(k) /\ input[k] # NoTurn
  /\ capture = input[k] /\ ~completed
  /\ CancelThen(k, Current, "framing", "ready")
  /\ IF Running(Current) THEN UNCHANGED streamVars ELSE RemoveCapture(k)
  /\ UNCHANGED <<registryVars, live, origin, message, api>>

\* A tap, or a device error while playing: events come from the registered
\* connection only, and a capturing turn is left to the device.
Barge(k) ==
  /\ Receives(k) /\ registered = k
  /\ slot # NoTurn /\ phase[slot] # "capturing"
  /\ CancelThen(k, Current, "barging", "ready")
  /\ UNCHANGED <<registryVars, streamVars, live, origin, message, api>>

\* Back to the receive loop after a cancellation
CancelResumes(k) ==
  \E t \in Turn, place \in {"ending", "framing", "barging"} :
    /\ Wakes(k, t, place)
    /\ Go(k, "ready") /\ Put(Woken(t))
    /\ IF place = "framing" THEN RemoveCapture(k) ELSE UNCHANGED streamVars
    /\ UNCHANGED <<registryVars, live, origin, message, api>>

\* A frame of a stream the handler no longer has
StrayFrame(k) ==
  /\ Receives(k) /\ input[k] # NoTurn /\ capture # input[k]
  /\ Go(k, "leaving")
  /\ UNCHANGED <<registryVars, streamVars, turnVars, waiting, message, api>>

(***************************************************************************)
(* The finally block.                                                      *)
(***************************************************************************)
Unregister(k) ==
  /\ registered' = IF registered = k THEN NoConn ELSE registered
  /\ pending' = pending \ {k}

\* The turn is cancelled if k is still the registered connection.
CancelOwnTurn(k, c) ==
  IF registered = k /\ Running(c)
    THEN CancelThen(k, c, "quitting", "quitting") /\ UNCHANGED <<registered, pending>>
    ELSE /\ Go(k, "gone") /\ Unregister(k)
         /\ Put(IF registered = k THEN Without(c) ELSE c)

Leave(k) ==
  /\ at[k] = "leaving"
  /\ input' = [input EXCEPT ![k] = NoTurn]
  /\ LET owned == input[k] # NoTurn /\ capture = input[k]
     IN  /\ capture' = IF owned THEN NoTurn ELSE capture
         /\ completed' = (completed /\ ~owned)
         /\ IF owned /\ Running(Current)
              THEN CancelThen(k, Current, "discarding", "discarding")
                   /\ UNCHANGED <<registered, pending>>
              ELSE CancelOwnTurn(k, IF owned THEN Without(Current) ELSE Current)
  /\ UNCHANGED <<previous, shut, live, origin, message, api>>

StreamDiscarded(k) ==
  \E t \in Turn :
    /\ Wakes(k, t, "discarding")
    /\ CancelOwnTurn(k, Woken(t))
    /\ UNCHANGED <<previous, shut, streamVars, live, origin, message, api>>

OwnTurnCancelled(k) ==
  \E t \in Turn :
    /\ Wakes(k, t, "quitting")
    /\ Go(k, "gone") /\ Put(Woken(t)) /\ Unregister(k)
    /\ UNCHANGED <<previous, shut, streamVars, live, origin, message, api>>

(***************************************************************************)
(* Timers, tasks and the control API.                                      *)
(***************************************************************************)
\* Faults: the stream is removed and its turn forgotten; a completed stream, or one that
\* its connection no longer has, is left to the device.
DeadlineForgets ==
  /\ capture # NoTurn
  /\ capture' = NoTurn /\ completed' = FALSE
  /\ Put(Current)
  /\ UNCHANGED <<registryVars, input, live, origin, at, message, api>>

DeadlineSkips ==
  /\ capture # NoTurn /\ ~completed
  /\ capture' = NoTurn /\ completed' = FALSE
  /\ Put(Released(Current, capture))
  /\ UNCHANGED <<registryVars, input, live, origin, at, message, api>>

DeadlineGivesUp ==
  /\ capture # NoTurn
  /\ registered # NoConn /\ registered \notin pending /\ input[registered] = capture
  /\ capture' = NoTurn /\ completed' = FALSE
  /\ input' = [input EXCEPT ![registered] = NoTurn]
  /\ Put(IF completed THEN Current ELSE Released(Current, capture))
  /\ UNCHANGED <<registryVars, live, origin, at, message, api>>

\* _enforce_recording_deadline and release_timed_out_stream. A late end of the stream
\* is then accepted without effect (timed_out_audio_inputs), and is not an action.
Deadline ==
  /\ capture # NoTurn
  /\ capture' = NoTurn /\ completed' = FALSE
  /\ LET k == registered
         active == k # NoConn /\ k \notin pending /\ input[k] = capture
     IN  input' = IF active THEN [input EXCEPT ![k] = NoTurn] ELSE input
  /\ Put(IF completed THEN Current ELSE Released(Current, capture))
  /\ UNCHANGED <<registryVars, live, origin, at, message, api>>

\* The submitted task takes its first step: _require_owned.
TaskStarts(t) ==
  /\ live[t] = "queued"
  /\ IF slot = t
       THEN live' = [live EXCEPT ![t] = "running"] /\ phase' = [phase EXCEPT ![t] = "working"]
       ELSE live' = [live EXCEPT ![t] = "done"] /\ UNCHANGED phase
  /\ UNCHANGED <<registryVars, streamVars, slot, origin, handlerVars, api>>

\* The task ends: complete or fail, or nothing when the turn is being cancelled.
TaskEnds(t) ==
  /\ live[t] = "running"
  /\ live' = [live EXCEPT ![t] = "done"]
  /\ Put(IF phase[t] = "closing" THEN Current ELSE Released(Current, t))
  /\ UNCHANGED <<registryVars, streamVars, origin, at, message, api>>

\* SpeechTurnService.start; VisionTurnService.run, which does not look at the registry
BeginDirect(t, k, initialPhase) ==
  /\ slot = NoTurn
  /\ origin[t] = NoConn /\ phase[t] = "new"
  /\ slot' = t
  /\ phase' = [phase EXCEPT ![t] = initialPhase]
  /\ live' = [live EXCEPT ![t] = "running"]
  /\ origin' = [origin EXCEPT ![t] = k]
  /\ UNCHANGED <<registryVars, streamVars, handlerVars, api>>

BeginSpeech(t) ==
  /\ registered # NoConn /\ registered \notin pending
  /\ BeginDirect(t, registered, "working")

BeginVision(t) == BeginDirect(t, NoConn, "capturing")

PhotoTaken(t) ==
  /\ slot = t /\ live[t] = "running" /\ phase[t] = "capturing"
  /\ phase' = [phase EXCEPT ![t] = "working"]
  /\ UNCHANGED <<registryVars, streamVars, slot, live, origin, handlerVars, api>>

\* cancel_speech refuses a capturing turn.
CancelSpeech ==
  /\ api = NoTurn
  /\ slot # NoTurn /\ phase[slot] # "capturing"
  /\ IF Running(Current)
       THEN api' = slot /\ phase' = [phase EXCEPT ![slot] = "closing"] /\ UNCHANGED slot
       ELSE slot' = NoTurn /\ phase' = [phase EXCEPT ![slot] = "over"] /\ UNCHANGED api
  /\ UNCHANGED <<registryVars, streamVars, live, origin, handlerVars>>

CancelSpeechReturns ==
  /\ api # NoTurn /\ live[api] = "done"
  /\ api' = NoTurn
  /\ Put(Released(Current, api))
  /\ UNCHANGED <<registryVars, streamVars, live, origin, at, message>>

(***************************************************************************)
(* The specification.                                                      *)
(***************************************************************************)
\* A cancellation has ended
WakeUp(k) ==
  \/ OldTurnCancelled(k) \/ OldStreamDropped(k) \/ StartResumes(k)
  \/ CancelResumes(k) \/ StreamDiscarded(k) \/ OwnTurnCancelled(k)

\* What a handler does without hearing from its device again
HandlerStep(k) == CloseReturns(k) \/ Acknowledged(k) \/ Leave(k)

DeviceStep(k) ==
  \/ Register(k) \/ Disconnected(k)
  \/ \E t \in Turn : StartStream(k, t)
  \/ EndStream(k) \/ Utterance(k) \/ BadFrame(k) \/ StrayFrame(k) \/ Barge(k)

ApiStep ==
  \/ \E t \in Turn : BeginSpeech(t) \/ BeginVision(t) \/ PhotoTaken(t)
  \/ CancelSpeech

Next ==
  \/ \E k \in Conn : WakeUp(k) \/ HandlerStep(k) \/ DeviceStep(k)
  \/ \E t \in Turn : TaskStarts(t) \/ TaskEnds(t)
  \/ Deadline
  \/ ApiStep \/ CancelSpeechReturns

Spec == Init /\ [][Next]_vars

(***************************************************************************)
(* Sockets close within their time limit, a closed socket ends its receive *)
(* loop, tasks end (TurnCoordinator), and the deadline's sleep returns. No *)
(* device or client is trusted to send anything.                           *)
(***************************************************************************)
Fairness ==
  /\ \A k \in Conn : WF_vars(WakeUp(k))
  /\ WF_vars(CancelSpeechReturns)
  /\ \A k \in Conn : WF_vars(HandlerStep(k))
  /\ \A k \in Conn : WF_vars(k \in shut /\ Disconnected(k))
  /\ \A t \in Turn : WF_vars(TaskStarts(t) \/ TaskEnds(t))
  /\ WF_vars(Deadline)

FairSpec == Spec /\ Fairness

(***************************************************************************)
(* Properties.                                                             *)
(***************************************************************************)
\* Something will free the device: the stream of a capturing turn, whose deadline is
\* running, the turn's task, or a cancellation in flight.
Kept ==
  slot # NoTurn =>
    IF phase[slot] = "closing"
      THEN waiting[slot] # <<>> \/ api = slot
      ELSE live[slot] \in {"queued", "running"}
           \/ (live[slot] = "none" /\ capture = slot /\ ~completed)

\* A handler that waited in frame resumes and removes a stream that is not its own.
RemovesAnothersStream(k) ==
  /\ at[k] = "framing" /\ at'[k] = "ready"
  /\ capture \notin {input[k], NoTurn}

\* A busy device never loses what will free it, whatever replaces, ends or cancels
\* what, with one exception: frame awaits the cancellation and then removes the
\* device's stream "whichever it is", so a stream opened meanwhile loses its deadline.
TurnHasKeeper ==
  [][Kept => Kept' \/ \E k \in Conn : RemovesAnothersStream(k)]_vars

\* The connection of an open stream can end it.
HasHandler == capture # NoTurn => input[origin[capture]] = capture

\* A start that waited for a cancellation resumes after its connection was closed.
OpensLate(k) == k \in shut /\ at[k] = "starting" /\ at'[k] = "ready"

\* Losing or replacing a connection never leaves its stream behind to block the next
\* one's (RuntimeError in start), with one exception: a start whose connection is closed
\* while it waits for the old turn still opens its stream, for a handler that dropped it.
StreamHasHandler ==
  [][HasHandler => HasHandler' \/ \E k \in Conn : OpensLate(k)]_vars

\* "Second start: reject second start; keep original stream intact"
\* (docs/protocol-v1.md): a stream whose turn is under way is never replaced by
\* another, even one that was waiting for a cancellation when the stream was opened.
StreamStaysIntact ==
  [][capture # NoTurn /\ phase[capture] # "over" => capture' \in {capture, NoTurn}]_vars

\* The task that ends a turn, a cancellation, or the deadline: no turn that is kept
\* (TurnHasKeeper) holds the device forever, whatever connections come and go.
DeviceFreed == \A t \in Turn : (slot = t) ~> (slot # t \/ ~Kept)

\* A microphone stream never blocks the device's next one forever.
StreamReleased == \A t \in Turn : (capture = t) ~> (capture # t)

\* "Reconnection uses a generation/connection ID so an old receive task cannot change
\* new state" (docs/state-machines.md): the handler of a connection that is no longer
\* registered does not cancel a turn begun for the one that is.
StaleHandlerIsHarmless ==
  [][\A k \in Conn, t \in Turn :
       /\ at'[k] # at[k] /\ registered # k
       /\ slot = t /\ origin[t] = registered
       => slot' = t /\ phase'[t] = phase[t]]_vars
=============================================================================
