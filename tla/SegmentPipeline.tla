---------------------------- MODULE SegmentPipeline ----------------------------
(***************************************************************************)
(* The speech of one answer: SegmentPlaybackPipeline.run_streaming         *)
(* (tts/pipeline.py) with the AudioOutputStreamer.play it calls            *)
(* (audio/output.py). A producer task takes segments from the source,      *)
(* Hermes or a text, and starts a synthesis task for each; the consumer,   *)
(* the task of the turn, takes the syntheses in order and plays them.      *)
(*                                                                         *)
(* An action is the code between two awaits. The messages of play leave    *)
(* when they are sent, and the awaits after it only wait for the socket.   *)
(* The consumer may be cancelled at any await, and the connection may be   *)
(* lost or replaced at any time.                                           *)
(***************************************************************************)
EXTENDS Integers

CONSTANTS
  Segments,   \* bound: segments of the answer
  Interrupts  \* bound: cancellations of the turn's task

ASSUME SegmentAssumption == Segments \in Nat
ASSUME InterruptAssumption == Interrupts \in Nat

VARIABLES
  policy,      \* _failure_policy
  producer,    \* the producer task; "stopping" once it has been asked to end
  made,        \* the length of synthesis_tasks
  synthesis,   \* the task of each segment
  at,          \* where the consumer is suspended
  taken,       \* the segments it has taken from ready, the last one being its synthesis
  skipped,     \* first_synthesis_error is set
  reason,      \* the reason of the end frame being sent
  outcome,     \* what the run ends with, once the consumer is in its finally clause
  interrupts,  \* cancellations so far
  owned,       \* the registry still holds the connection
  device,      \* the stream open on it, named by its segment, 0 if none
  heard        \* the segments whose stream has been started

producerVars == <<producer, made>>
playVars == <<reason, device, heard>>
envVars == <<policy, interrupts, owned>>
vars == <<producerVars, synthesis, at, taken, skipped, outcome, playVars, envVars>>

Segment == 1..Segments
Finished == {"ended", "raised", "cancelled"}
Done == {"ok", "failed", "broken", "cancelled"}

TypeOK ==
  /\ policy \in {"abort", "play_completed"}
  /\ producer \in {"running", "stopping"} \cup Finished
  /\ made \in 0..Segments /\ taken \in 0..made
  /\ synthesis \in [Segment -> {"none", "running", "stopping"} \cup Done]
  /\ at \in {"get", "await", "start", "frames", "end", "pause", "gather", "done"}
  /\ skipped \in BOOLEAN
  /\ reason \in {"none", "completed", "cancelled", "tts_error"}
  /\ outcome \in {"none", "returned", "error", "cancelled"}
  /\ interrupts \in 0..Interrupts
  /\ owned \in BOOLEAN
  /\ device \in 0..Segments
  /\ heard \subseteq Segment

Init ==
  /\ policy \in {"abort", "play_completed"}
  /\ producer = "running" /\ made = 0
  /\ synthesis = [s \in Segment |-> "none"]
  /\ at = "get" /\ taken = 0 /\ skipped = FALSE
  /\ reason = "none" /\ outcome = "none" /\ interrupts = 0
  /\ owned \in BOOLEAN
  /\ device = 0 /\ heard = {}

(***************************************************************************)
(* The producer and the syntheses.                                         *)
(***************************************************************************)
Produce ==
  /\ producer = "running" /\ made < Segments
  /\ made' = made + 1
  /\ synthesis' = [synthesis EXCEPT ![made + 1] = "running"]
  /\ UNCHANGED <<producer, at, taken, skipped, outcome, playVars, envVars>>

\* The source is exhausted or raises, as Hermes may; an empty segment raises as well.
ProducerEnds ==
  /\ producer = "running"
  /\ producer' \in {"ended", "raised"}
  /\ UNCHANGED <<made, synthesis, at, taken, skipped, outcome, playVars, envVars>>

ProducerStops ==
  /\ producer = "stopping"
  /\ producer' = "cancelled"
  /\ UNCHANGED <<made, synthesis, at, taken, skipped, outcome, playVars, envVars>>

\* A TtsError, a timeout included, or an error of another kind.
SynthesisEnds(s) ==
  /\ synthesis[s] = "running"
  /\ \E result \in {"ok", "failed", "broken"} : synthesis' = [synthesis EXCEPT ![s] = result]
  /\ UNCHANGED <<producerVars, at, taken, skipped, outcome, playVars, envVars>>

SynthesisStops(s) ==
  /\ synthesis[s] = "stopping"
  /\ synthesis' = [synthesis EXCEPT ![s] = "cancelled"]
  /\ UNCHANGED <<producerVars, at, taken, skipped, outcome, playVars, envVars>>

(***************************************************************************)
(* The consumer.                                                           *)
(***************************************************************************)
Stop == [s \in Segment |-> IF synthesis[s] = "running" THEN "stopping" ELSE synthesis[s]]

\* The finally clause: what still runs is cancelled, and awaited together.
Leave(how) ==
  /\ at' = "gather" /\ outcome' = how
  /\ producer' = IF producer = "running" THEN "stopping" ELSE producer
  /\ synthesis' = Stop
  /\ UNCHANGED <<made, taken, skipped>>

Continue(place) == at' = place /\ UNCHANGED <<producerVars, synthesis, taken, skipped, outcome>>

Take ==
  /\ at = "get" /\ taken < made
  /\ at' = "await" /\ taken' = taken + 1
  /\ UNCHANGED <<producerVars, synthesis, skipped, outcome, playVars, envVars>>

EndMarkerFaulty == producer = "ended"

\* Whatever ends the producer, it puts the end marker behind its syntheses.
EndMarker == producer \in Finished

ExhaustedFaulty ==
  /\ at = "get" /\ taken = made /\ EndMarker
  /\ Leave(IF producer = "ended" /\ made > 0 THEN "returned" ELSE "error")
  /\ UNCHANGED <<playVars, envVars>>

\* The end marker is taken: an error of the source or of a skipped synthesis comes last.
Exhausted ==
  /\ at = "get" /\ taken = made /\ EndMarker
  /\ Leave(IF producer = "ended" /\ made > 0 /\ ~skipped THEN "returned" ELSE "error")
  /\ UNCHANGED <<playVars, envVars>>

SynthesisFailedFaulty ==
  /\ at = "await" /\ synthesis[taken] \in {"failed", "broken", "cancelled"}
  /\ at' = "get" /\ skipped' = TRUE
  /\ UNCHANGED <<producerVars, synthesis, taken, outcome, playVars, envVars>>

\* A segment is skipped only for a TtsError, and only if the policy says so.
SynthesisFailed ==
  /\ at = "await" /\ synthesis[taken] \in {"failed", "broken", "cancelled"}
  /\ IF synthesis[taken] = "failed" /\ policy = "play_completed"
       THEN at' = "get" /\ skipped' = TRUE /\ UNCHANGED <<producerVars, synthesis, taken, outcome>>
       ELSE Leave(IF synthesis[taken] = "cancelled" THEN "cancelled" ELSE "error")
  /\ UNCHANGED <<playVars, envVars>>

\* play sends the start frame. A speech that has lost its turn does not play any more
\* (_OwnedSpeechPlayer), nor anybody without a connection.
Play ==
  /\ at = "await" /\ synthesis[taken] = "ok"
  /\ \/ /\ owned
        /\ device' = taken /\ heard' = heard \cup {taken}
        /\ Continue("start")
     \/ Leave("error") /\ UNCHANGED <<device, heard>>
  /\ UNCHANGED <<reason, envVars>>

Started ==
  /\ at = "start"
  /\ IF owned THEN Continue("frames") ELSE Leave("error")
  /\ UNCHANGED <<playVars, envVars>>

\* _send_end, or DeviceDisconnectedError, which then replaces any other.
SendEnd(why) ==
  IF owned THEN /\ reason' = why /\ device' = 0
                /\ Continue("end")
           ELSE Leave("error") /\ UNCHANGED <<reason, device>>

\* The frames have been sent, or one of them cannot be encoded.
Framed ==
  /\ at = "frames"
  /\ \E why \in {"completed", "tts_error"} : SendEnd(why)
  /\ UNCHANGED <<heard, envVars>>

EndSent ==
  /\ at = "end"
  /\ IF owned /\ reason = "completed"
       THEN Continue("pause")
       ELSE Leave(IF owned /\ reason = "cancelled" THEN "cancelled" ELSE "error")
  /\ UNCHANGED <<playVars, envVars>>

\* The device has had the time to play its preroll.
Paused ==
  /\ at = "pause"
  /\ IF owned THEN Continue("get") ELSE Leave("error")
  /\ UNCHANGED <<playVars, envVars>>

Gathered ==
  /\ at = "gather"
  /\ producer \in Finished /\ \A s \in 1..made : synthesis[s] \in Done
  /\ at' = "done"
  /\ UNCHANGED <<producerVars, synthesis, taken, skipped, outcome, playVars, envVars>>

InterruptFramesFaulty == Leave("cancelled") /\ UNCHANGED playVars

\* A stream being played is ended, and the cancellation goes on when that has been sent.
InterruptFrames == SendEnd("cancelled") /\ UNCHANGED heard

\* The turn's task is cancelled. An awaited task is cancelled with it, and the consumer
\* goes on when it has ended; so does a gather.
Interrupt ==
  /\ interrupts < Interrupts /\ at # "done"
  /\ interrupts' = interrupts + 1
  /\ \/ at \in {"get", "start", "end", "pause"} /\ Leave("cancelled") /\ UNCHANGED playVars
     \/ /\ at = "await"
        /\ IF synthesis[taken] \in {"running", "stopping"}
             THEN /\ synthesis' = [synthesis EXCEPT ![taken] = "stopping"]
                  /\ UNCHANGED <<producerVars, at, taken, skipped, outcome>>
             ELSE Leave("cancelled")
        /\ UNCHANGED playVars
     \/ at = "frames" /\ InterruptFrames
     \/ at = "gather" /\ Leave("cancelled") /\ UNCHANGED playVars
  /\ UNCHANGED <<policy, owned>>

\* The connection is lost or replaced, and the device drops what it was playing.
Lose ==
  /\ owned
  /\ owned' = FALSE /\ device' = 0
  /\ UNCHANGED <<producerVars, synthesis, at, taken, skipped, outcome, reason, heard, policy,
                 interrupts>>

ProducerNext == Produce \/ ProducerEnds \/ ProducerStops

SynthesisNext(s) == SynthesisEnds(s) \/ SynthesisStops(s)

ConsumerNext ==
  \/ Take \/ Exhausted \/ SynthesisFailed \/ Play \/ Started \/ Framed \/ EndSent \/ Paused
  \/ Gathered

Next ==
  \/ ProducerNext \/ (\E s \in Segment : SynthesisNext(s)) \/ ConsumerNext
  \/ Interrupt \/ Lose

Spec == Init /\ [][Next]_vars

\* The loop runs what is ready, Hermes and the syntheses are bounded by timeouts, and a
\* send returns or raises.
LiveSpec ==
  /\ Spec
  /\ WF_vars(ProducerNext) /\ WF_vars(ConsumerNext)
  /\ \A s \in Segment : WF_vars(SynthesisNext(s))

(***************************************************************************)
(* Properties.                                                             *)
(***************************************************************************)
\* Syntheses end in any order, and yet the device hears the segments in that of the source:
\* what lies before a segment it hears was heard, or has failed under the policy that
\* allows that (run_streaming, docs/state-machines.md:74).
HeardInOrder ==
  \A t \in heard : \A s \in 1..t :
    s \in heard \/ (policy = "play_completed" /\ synthesis[s] = "failed")

\* A run that returns has said everything: it hides no failure of the source, of a synthesis
\* or of the connection (first_synthesis_error, await producer).
ReturnedIsHeard ==
  outcome = "returned" =>
    /\ producer = "ended" /\ made > 0
    /\ heard = 1..made /\ device = 0

\* The speech without tasks, queues and awaits: what it has passed over, and whether frames of
\* the open stream may have been sent.
Missed == {s \in 1..taken : policy = "play_completed" /\ synthesis[s] = "failed"}

Framing == at = "frames" /\ device # 0

Answer == INSTANCE SpokenAnswer WITH
  tolerant <- policy = "play_completed", length <- made, whole <- producer = "ended",
  spoken <- heard, missed <- Missed, open <- device, framed <- Framing, verdict <- outcome

\* However the source, the syntheses, cancellations and the connection interleave, the speech
\* is what SpokenAnswer says: in order, one stream at a time, nothing after its verdict, and
\* a verdict that is true (run_streaming, play).
ImplementsAnswer == Answer!AnswerSpec

\* A stream of which frames may have been sent is ended before its turn does anything else,
\* or the connection is gone. A cancellation in the await of its start sends no end: that
\* await is outside of the try (output.py:66).
StartedIsEnded == [][at = "frames" /\ at' # "frames" => device' = 0]_vars

\* Neither a failing source, nor a failing synthesis, nor a cancellation leaves the consumer
\* waiting for an end marker that never comes.
RunEnds == <>(at = "done")
================================================================================
