-------------------------- MODULE TurnCoordinator --------------------------
(***************************************************************************)
(* TurnCoordinator of bridge/src/stackchan_bridge/turns/coordinator.py and *)
(* the asyncio tasks that own turns: the voice turn of turns/service.py,   *)
(* the direct speech of turns/speech.py and the vision turn of             *)
(* turns/vision.py.                                                        *)
(*                                                                         *)
(* An action is what the event loop runs between two suspension points.    *)
(* Every body under the coordinator's lock is free of awaits, so begin,    *)
(* transition, complete and fail are atomic; a cancellation is not: it     *)
(* marks the turn, interrupts its tasks, waits for them, and only then     *)
(* gives the device back.                                                  *)
(***************************************************************************)
EXTENDS Integers, Sequences, FiniteSets

CONSTANTS
  Device, Turn,
  NoTurn, NoDevice,
  Call,          \* cancel_device/cancel_turn calls that may be in flight at once
  TaskCapacity   \* voice tasks VoiceAudioInputHandler keeps (128 in the code)

ASSUME DeviceAssumption == IsFiniteSet(Device) /\ NoDevice \notin Device
ASSUME TurnAssumption == NoTurn \notin Turn
ASSUME CapacityAssumption == TaskCapacity \in Nat \ {0}

VARIABLES
  active,        \* TurnCoordinator._active, as a total function
  gauge,         \* the active_turns metric
  state,         \* Turn.state, "NEW" before begin
  cancelled,     \* Turn.cancellation
  deviceOf,      \* Turn.device_id
  kind,          \* which service owns the turn
  task,          \* where the turn's own task is suspended
  interrupt,     \* turns whose task has a CancelledError on its way
  turnTasks,     \* VoiceAudioInputHandler._turn_tasks, oldest first
  call,          \* the turn each in-flight cancellation is waiting for
  orphaned       \* turns whose task was cancelled by the eviction in Submit,
                 \* which waits for nothing

turnVars == <<state, cancelled, deviceOf, kind>>
taskVars == <<task, interrupt, turnTasks>>
vars == <<active, gauge, state, cancelled, deviceOf, kind,
          task, interrupt, turnTasks, call, orphaned>>

Kind == {"voice", "speech", "vision"}

TurnState == {"CAPTURING", "TRANSCRIBING", "WAITING_HERMES", "SYNTHESIZING",
              "PLAYING", "CANCELLING", "FAILED", "COMPLETED"}

(***************************************************************************)
(* "none": no task yet (a voice turn whose microphone is open);            *)
(* "queued": create_task was called, the first step has not run;           *)
(* "photo", "stt", "hermes", "speak": awaiting the camera, the             *)
(* transcription, the first speakable segment, the playback;               *)
(* "notify": awaiting notify_failure inside the except block;              *)
(* "unplay": awaiting the end frame play sends on a CancelledError;        *)
(* "unwind": awaiting the rest of the cleanup of a CancelledError;         *)
(* "done": finished, or the capture ended without ever making a task.      *)
(***************************************************************************)
TaskState == {"none", "queued", "photo", "stt", "hermes", "speak",
              "notify", "unplay", "unwind", "done"}

\* _ALLOWED_TRANSITIONS: each working state leads to the next one, and may be
\* cancelled or fail; the other states lead nowhere.
Successor == [CAPTURING |-> "TRANSCRIBING", TRANSCRIBING |-> "WAITING_HERMES",
              WAITING_HERMES |-> "SYNTHESIZING", SYNTHESIZING |-> "PLAYING",
              PLAYING |-> "COMPLETED"]

\* Fault: a turn that is being cancelled may still fail.
AllowedFaulty(s) ==
  IF s \in DOMAIN Successor THEN {Successor[s], "CANCELLING", "FAILED"}
  ELSE IF s = "CANCELLING" THEN {"FAILED"} ELSE {}

Allowed(s) ==
  IF s \in DOMAIN Successor THEN {Successor[s], "CANCELLING", "FAILED"} ELSE {}

TypeOK ==
  /\ active \in [Device -> Turn \cup {NoTurn}]
  /\ gauge \in Int
  /\ state \in [Turn -> TurnState \cup {"NEW"}]
  /\ cancelled \in [Turn -> BOOLEAN]
  /\ deviceOf \in [Turn -> Device \cup {NoDevice}]
  /\ kind \in [Turn -> Kind \cup {"none"}]
  /\ task \in [Turn -> TaskState]
  /\ interrupt \in SUBSET Turn
  /\ turnTasks \in Seq(Turn)
  /\ call \in [Call -> Turn \cup {NoTurn}]
  /\ orphaned \in SUBSET Turn

Init ==
  /\ active = [d \in Device |-> NoTurn]
  /\ gauge = 0
  /\ state = [t \in Turn |-> "NEW"]
  /\ cancelled = [t \in Turn |-> FALSE]
  /\ deviceOf = [t \in Turn |-> NoDevice]
  /\ kind = [t \in Turn |-> "none"]
  /\ task = [t \in Turn |-> "none"]
  /\ interrupt = {}
  /\ turnTasks = <<>>
  /\ call = [c \in Call |-> NoTurn]
  /\ orphaned = {}

(***************************************************************************)
(* Ownership.                                                              *)
(***************************************************************************)
IsActive(t) == \E d \in Device : active[d] = t

\* VoiceTurnService._require_owned and its twins in speech.py and vision.py
Owned(t) == IsActive(t) /\ ~cancelled[t]

\* Turn.tasks holds the task until it is done. A queued voice task has not
\* called attach_task yet; a speech or vision task is attached from the start.
Attached(t) ==
  \/ task[t] \in {"photo", "stt", "hermes", "speak", "notify",
                 "unplay", "unwind"}
  \/ task[t] = "queued" /\ kind[t] # "voice"

\* _finalize_owned_turn, and the same lines at the end of _cancel_owned
Release(t) ==
  /\ active' = [active EXCEPT ![deviceOf[t]] = NoTurn]
  /\ gauge' = gauge - 1

Resume(t, place) == task' = [task EXCEPT ![t] = place]

\* Fault: begin without the TurnBusyError test.
BeginFaulty(d, t, k, initialState, place) ==
  /\ state[t] = "NEW"
  /\ active' = [active EXCEPT ![d] = t]
  /\ gauge' = gauge + 1
  /\ state' = [state EXCEPT ![t] = initialState]
  /\ deviceOf' = [deviceOf EXCEPT ![t] = d]
  /\ kind' = [kind EXCEPT ![t] = k]
  /\ Resume(t, place)
  /\ UNCHANGED <<cancelled, interrupt, turnTasks, call, orphaned>>

(***************************************************************************)
(* TurnCoordinator.begin, in its three uses. Turn identities are random    *)
(* UUIDs, so a turn that begins is a new one.                              *)
(***************************************************************************)
Begin(d, t, k, initialState, place) ==
  /\ active[d] = NoTurn
  /\ state[t] = "NEW"
  /\ active' = [active EXCEPT ![d] = t]
  /\ gauge' = gauge + 1
  /\ state' = [state EXCEPT ![t] = initialState]
  /\ deviceOf' = [deviceOf EXCEPT ![t] = d]
  /\ kind' = [kind EXCEPT ![t] = k]
  /\ Resume(t, place)
  /\ UNCHANGED <<cancelled, interrupt, turnTasks, call, orphaned>>

\* VoiceAudioInputHandler.start: one open microphone stream per device
BeginVoice(d, t) ==
  /\ \A u \in Turn : ~(deviceOf[u] = d /\ kind[u] = "voice" /\ task[u] = "none")
  /\ Begin(d, t, "voice", "CAPTURING", "none")

\* SpeechTurnService.start creates and attaches its task in the same step
BeginSpeech(d, t) == Begin(d, t, "speech", "SYNTHESIZING", "queued")

\* VisionTurnService.run attaches the request's own task and asks for a photo
BeginVision(d, t) == Begin(d, t, "vision", "CAPTURING", "photo")

(***************************************************************************)
(* The end of a microphone stream.                                         *)
(***************************************************************************)
\* _start_turn_task: the oldest task is cancelled when too many are kept. Its
\* turn is not told.
Submit(t) ==
  /\ kind[t] = "voice" /\ task[t] = "none"
  /\ Resume(t, "queued")
  /\ LET kept == Append(turnTasks, t)
         oldest == Head(kept)
         evict == Len(kept) > TaskCapacity
         running == evict /\ oldest # t /\ task[oldest] # "done"
     IN  /\ turnTasks' = IF evict THEN Tail(kept) ELSE kept
         /\ interrupt' = IF running THEN interrupt \cup {oldest} ELSE interrupt
         /\ orphaned' = IF running THEN orphaned \cup {oldest} ELSE orphaned
  /\ UNCHANGED <<active, gauge, turnVars, call>>

\* Nothing to transcribe: coordinator.fail. StaleTurnError when the turn is gone
\* and InvalidTurnTransitionError while it is being cancelled change nothing.
FailCapture(t) ==
  /\ kind[t] = "voice" /\ task[t] = "none"
  /\ Resume(t, "done")
  /\ IF IsActive(t) /\ "FAILED" \in Allowed(state[t])
       THEN Release(t) /\ state' = [state EXCEPT ![t] = "FAILED"]
       ELSE UNCHANGED <<active, gauge, state>>
  /\ UNCHANGED <<cancelled, deviceOf, kind, interrupt, turnTasks, call, orphaned>>

\* The handler forgets the stream of a cancelled turn.
DropCapture(t) ==
  /\ kind[t] = "voice" /\ task[t] = "none"
  /\ state[t] = "CANCELLING"
  /\ Resume(t, "done")
  /\ UNCHANGED <<active, gauge, turnVars, interrupt, turnTasks, call, orphaned>>

(***************************************************************************)
(* Steps of a turn's task.                                                 *)
(***************************************************************************)
Keep == UNCHANGED <<cancelled, deviceOf, kind, interrupt, turnTasks, call, orphaned>>

\* TurnCoordinator.transition, once or twice with no suspension in between
Transition(t, s) ==
  /\ IsActive(t)
  /\ s \in Allowed(state[t])
  /\ state' = [state EXCEPT ![t] = s]
  /\ UNCHANGED <<active, gauge>>

TransitionVia(t, r, s) ==
  /\ IsActive(t)
  /\ r \in Allowed(state[t]) /\ s \in Allowed(r)
  /\ state' = [state EXCEPT ![t] = s]
  /\ UNCHANGED <<active, gauge>>

\* First step of run_existing_turn: _require_owned, attach_task, TRANSCRIBING
StartVoice(t) ==
  /\ task[t] = "queued" /\ kind[t] = "voice" /\ t \notin interrupt
  /\ IF Owned(t)
       THEN Transition(t, "TRANSCRIBING") /\ Resume(t, "stt")
       ELSE Resume(t, "done") /\ UNCHANGED <<active, gauge, state>>
  /\ Keep

\* First step of SpeechTurnService._run
StartSpeech(t) ==
  /\ task[t] = "queued" /\ kind[t] = "speech" /\ t \notin interrupt
  /\ Owned(t)
  /\ Resume(t, "speak")
  /\ UNCHANGED <<active, gauge, state>>
  /\ Keep

Transcribed(t) ==
  /\ task[t] = "stt" /\ t \notin interrupt
  /\ Owned(t)
  /\ Transition(t, "WAITING_HERMES")
  /\ Resume(t, "hermes")
  /\ Keep

Photographed(t) ==
  /\ task[t] = "photo" /\ t \notin interrupt
  /\ Owned(t)
  /\ TransitionVia(t, "TRANSCRIBING", "WAITING_HERMES")
  /\ Resume(t, "hermes")
  /\ Keep

\* The pipeline's producer task meets the first segment. It is not the attached
\* task, so an interrupt on its way to the owner does not stop it, and after
\* segmenter.finish() it does not check the ownership again.
FirstSegment(t) ==
  /\ task[t] = "hermes"
  /\ TransitionVia(t, "SYNTHESIZING", "PLAYING")
  /\ Resume(t, "speak")
  /\ Keep

\* SpeechTurnService._before_playback
BeforePlayback(t) ==
  /\ task[t] = "speak" /\ kind[t] = "speech" /\ t \notin interrupt
  /\ Owned(t)
  /\ state[t] = "SYNTHESIZING"
  /\ Transition(t, "PLAYING")
  /\ UNCHANGED task
  /\ Keep

\* Playback returned: _require_owned, then TurnCoordinator.complete
Complete(t) ==
  /\ task[t] = "speak" /\ t \notin interrupt
  /\ Owned(t)
  /\ "COMPLETED" \in Allowed(state[t])
  /\ state' = [state EXCEPT ![t] = "COMPLETED"]
  /\ Release(t)
  /\ Resume(t, "done")
  /\ Keep

\* Fault: fail sets the state and forgets the device.
FailIfCurrentFaulty(t, current) ==
  /\ Resume(t, "done")
  /\ state' = [state EXCEPT ![t] =
                 IF current /\ "FAILED" \in Allowed(state[t]) THEN "FAILED" ELSE @]
  /\ UNCHANGED <<active, gauge>>
  /\ Keep

\* TurnCoordinator.fail behind "if current is turn"; InvalidTurnTransitionError
\* leaves everything as it was and ends the task all the same.
FailIfCurrent(t, current) ==
  /\ Resume(t, "done")
  /\ IF current /\ "FAILED" \in Allowed(state[t])
       THEN Release(t) /\ state' = [state EXCEPT ![t] = "FAILED"]
       ELSE UNCHANGED <<active, gauge, state>>
  /\ Keep

\* Fault: the error is logged and nothing else.
VoiceErrorFaulty(t) ==
  /\ kind[t] = "voice"
  /\ task[t] \in {"stt", "hermes", "speak"} /\ t \notin interrupt
  /\ Resume(t, "done")
  /\ UNCHANGED <<active, gauge, state>>
  /\ Keep

\* An adapter failed or timed out, the player lost its connection, or
\* _require_owned raised: run_existing_turn notifies the device before it fails.
VoiceError(t) ==
  /\ kind[t] = "voice"
  /\ task[t] \in {"stt", "hermes", "speak"} /\ t \notin interrupt
  /\ Resume(t, "notify")
  /\ UNCHANGED <<active, gauge, state>>
  /\ Keep

Notified(t) ==
  /\ task[t] = "notify" /\ t \notin interrupt
  /\ FailIfCurrent(t, IsActive(t))

SpeechError(t) ==
  /\ kind[t] = "speech"
  /\ task[t] \in {"queued", "speak"} /\ t \notin interrupt
  /\ FailIfCurrent(t, Owned(t))

VisionError(t) ==
  /\ kind[t] = "vision"
  /\ task[t] \in {"photo", "hermes", "speak"} /\ t \notin interrupt
  /\ FailIfCurrent(t, IsActive(t))

\* CancelledError arrives. What awaits a pipeline or the camera has cleanup to
\* await; the turn itself is left to whoever sent the interrupt.
Interrupted(t) ==
  /\ t \in interrupt
  /\ interrupt' = interrupt \ {t}
  /\ \/ task[t] = "speak" /\ Resume(t, "unplay")
     \/ task[t] \in {"photo", "hermes", "unplay"} /\ Resume(t, "unwind")
     \/ task[t] \in {"queued", "stt", "notify", "unwind"} /\ Resume(t, "done")
  /\ UNCHANGED <<active, gauge, turnVars, turnTasks, call, orphaned>>

Unwound(t) ==
  /\ task[t] \in {"unplay", "unwind"} /\ t \notin interrupt
  /\ Resume(t, "done")
  /\ UNCHANGED <<active, gauge, state>>
  /\ Keep

\* AudioOutputStreamer.play raises DeviceDisconnectedError from the end frame it
\* sends while handling CancelledError: the task goes on as after an error.
UnwindFails(t) ==
  /\ task[t] = "unplay" /\ t \notin interrupt
  /\ IF kind[t] = "voice"
       THEN Resume(t, "notify") /\ UNCHANGED <<active, gauge, state>> /\ Keep
       ELSE FailIfCurrent(t, IF kind[t] = "vision" THEN IsActive(t) ELSE Owned(t))

(***************************************************************************)
(* TurnCoordinator._cancel_owned.                                          *)
(***************************************************************************)
\* Up to the gather; all the way when the turn has no task to wait for.
Cancel(c, t) ==
  /\ call[c] = NoTurn
  /\ IsActive(t)
  /\ state' = [state EXCEPT ![t] = "CANCELLING"]
  /\ cancelled' = [cancelled EXCEPT ![t] = TRUE]
  /\ IF Attached(t)
       THEN /\ call' = [call EXCEPT ![c] = t]
            /\ interrupt' = interrupt \cup {t}
            /\ UNCHANGED <<active, gauge>>
       ELSE Release(t) /\ UNCHANGED <<call, interrupt>>
  /\ UNCHANGED <<deviceOf, kind, task, turnTasks, orphaned>>

\* Faults: no "is turn" test at all, and the wrong ownership test.
ReleaseUntested(t) == Release(t)
ReleaseIfOwned(t) == IF Owned(t) THEN Release(t) ELSE UNCHANGED <<active, gauge>>

ReleaseIfCurrent(t) ==
  IF IsActive(t) THEN Release(t) ELSE UNCHANGED <<active, gauge>>

\* Fault: the finally block does not wait for the gather.
CancelReturnsFaulty(c) ==
  \E t \in Turn :
    /\ call[c] = t
    /\ ReleaseIfCurrent(t)
    /\ call' = [call EXCEPT ![c] = NoTurn]
    /\ UNCHANGED <<turnVars, taskVars, orphaned>>

\* gather returned: the finally block
CancelReturns(c) ==
  \E t \in Turn :
    /\ call[c] = t
    /\ task[t] = "done"
    /\ ReleaseIfCurrent(t)
    /\ call' = [call EXCEPT ![c] = NoTurn]
    /\ UNCHANGED <<turnVars, taskVars, orphaned>>

\* The task that called cancel is itself cancelled: gather cancels the turn's task
\* once more and raises the CancelledError when that task has ended, so the finally
\* block is still CancelReturns.
CancelInterrupted(c) ==
  \E t \in Turn :
    /\ call[c] = t
    /\ task[t] # "done"
    /\ interrupt' = interrupt \cup {t}
    /\ UNCHANGED <<active, gauge, turnVars, task, turnTasks, call, orphaned>>

(***************************************************************************)
(* The specification.                                                      *)
(***************************************************************************)
TaskStep(t) ==
  \/ StartVoice(t) \/ StartSpeech(t)
  \/ Transcribed(t) \/ Photographed(t) \/ FirstSegment(t)
  \/ BeforePlayback(t) \/ Complete(t)
  \/ VoiceError(t) \/ Notified(t) \/ SpeechError(t) \/ VisionError(t)
  \/ Interrupted(t) \/ Unwound(t) \/ UnwindFails(t)

Next ==
  \/ \E d \in Device, t \in Turn :
       BeginVoice(d, t) \/ BeginSpeech(d, t) \/ BeginVision(d, t)
  \/ \E t \in Turn : Submit(t) \/ FailCapture(t) \/ DropCapture(t)
  \/ \E t \in Turn : TaskStep(t)
  \/ \E c \in Call, t \in Turn : Cancel(c, t)
  \/ \E c \in Call : CancelReturns(c) \/ CancelInterrupted(c)

Spec == Init /\ [][Next]_vars

(***************************************************************************)
(* The event loop runs every ready task; STT, Hermes, TTS, the photo and   *)
(* the failure cue have timeouts, so what a task awaits always returns.    *)
(* Nothing is assumed of devices, of clients or of cancellations.          *)
(***************************************************************************)
Fairness ==
  /\ \A t \in Turn : WF_vars(TaskStep(t))
  /\ \A c \in Call : WF_vars(CancelReturns(c))

FairSpec == Spec /\ Fairness

(***************************************************************************)
(* Properties.                                                             *)
(***************************************************************************)
\* The active_turns metric is the number of devices that have a turn: two
\* cancellations of one turn, a cancellation and a failure, or an interrupted
\* cancellation never count its end twice (the "is turn" test of _cancel_owned).
GaugeExact == gauge = Cardinality({d \in Device : active[d] # NoTurn})

Running(t) == Attached(t) /\ task[t] # "queued"

\* "No device conversation has two concurrent Hermes requests" and "never
\* overlapping streams" (docs/state-machines.md): the tasks of two turns never run for
\* one device, cleanup included, although tasks are evicted and the cancellers that
\* wait for them are cancelled too.
NoOverlap ==
  \A t, u \in Turn :
    t # u /\ Running(t) /\ Running(u) => deviceOf[t] # deviceOf[u]

\* A device is never left busy with nobody to free it: a capturing turn still has
\* its stream or its task, a cancelling one a cancellation in flight, any other one
\* an unfinished task, unless its task was cancelled by the eviction in Submit.
ActiveTurnHasOwner ==
  \A d \in Device : active[d] # NoTurn =>
    LET t == active[d]
    IN IF state[t] = "CANCELLING"
         THEN \E c \in Call : call[c] = t
         ELSE t \in orphaned \/ task[t] # "done"

\* A turn that was cancelled, failed or completed keeps that state whatever its
\* task, or a second cancellation, does later ("make late asynchronous results
\* harmless"): only the release of the device is still to come.
NoLateTransition ==
  [][\A t \in Turn :
       state[t] \in {"CANCELLING", "FAILED", "COMPLETED"} => state'[t] = state[t]]_vars

\* A device changes hands through an empty slot only, and no task of the turn that
\* gives it up runs any more: it has ended, or its first step is still to come.
HandOver ==
  [][\A d \in Device :
       active'[d] # active[d] =>
         \/ active[d] = NoTurn
         \/ /\ active'[d] = NoTurn
            /\ task'[active[d]] \in {"none", "queued", "done"}]_vars

\* Every cancellation ends: the device is free again although several cancellations,
\* late results and failing cleanups may be under way.
CancelReleases ==
  \A t \in Turn : (state[t] = "CANCELLING") ~> ~IsActive(t)

\* Every turn whose task was started leaves its device, except where Submit's
\* eviction cancelled the task and nobody cancels the turn.
SubmittedTurnEnds ==
  \A t \in Turn : (task[t] = "queued") ~> (~IsActive(t) \/ t \in orphaned)

\* The coordinator implements the slot specification.
SlotOutcome ==
  [t \in Turn |->
     IF state[t] = "NEW" THEN "idle"
     ELSE IF state[t] = "COMPLETED" THEN "completed"
     ELSE IF state[t] = "FAILED" THEN "failed"
     ELSE IF state[t] # "CANCELLING" THEN "open"
     ELSE IF IsActive(t) THEN "closing" ELSE "cancelled"]

Slot == INSTANCE TurnSlot WITH slot <- active, outcome <- SlotOutcome

\* A device's slot is taken, closed and left by one turn at a time, each turn leaving
\* once with one outcome: begin, complete, fail and _cancel_owned do nothing else.
ImplementsSlot == Slot!SlotSpec
=============================================================================
