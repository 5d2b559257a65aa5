------------------------ MODULE SegmentPipelineProofs ------------------------
(***************************************************************************)
(* Proofs about SegmentPipeline, for any number of segments and            *)
(* cancellations. The consumer's way through a segment is what matters:    *)
(* Progress says what is settled about the segments it has passed.         *)
(***************************************************************************)
EXTENDS SegmentPipeline, TLAPS

(***************************************************************************)
(* The inductive invariant.                                                *)
(***************************************************************************)
Leaving == at \in {"gather", "done"}

\* The segments the consumer is through with.
Passed == {s \in 1..taken : s < taken \/ at = "get"}

\* A segment that was passed was heard, or failed and was skipped; only those taken were heard.
Progress ==
  /\ heard \subseteq 1..taken
  /\ at \in {"start", "frames", "end", "pause"} => taken \in heard
  /\ at = "await" => taken # 0
  /\ \A s \in Passed :
       s \in heard \/ (policy = "play_completed" /\ synthesis[s] = "failed" /\ skipped)

\* The synthesis of each segment that was made, and of no other, has been started.
SynthesesAreMade == \A s \in Segment : synthesis[s] = "none" <=> s > made

\* An open stream is being played, or the consumer has left it behind.
StreamIsPlayed == device # 0 => owned /\ (at \in {"start", "frames"} \/ Leaving)

\* The finally clause has asked everything to end. A run that returns has taken the marker.
CleanUp ==
  /\ outcome # "none" => Leaving
  /\ Leaving => producer # "running" /\ \A s \in Segment : synthesis[s] # "running"
  /\ producer = "stopping" => Leaving

PipelineInv ==
  /\ Progress
  /\ SynthesesAreMade
  /\ StreamIsPlayed
  /\ CleanUp
  /\ ReturnedIsHeard

IInv == TypeOK /\ PipelineInv

\* At first nothing is made.
LEMMA InitInv == Init => IInv
<1> SUFFICES ASSUME Init PROVE IInv OBVIOUS
<1>1. skipped \in BOOLEAN /\ ~skipped BY Zenon DEF Init
<1> QED
  BY <1>1, SegmentAssumption, InterruptAssumption
  DEF Init, IInv, TypeOK, PipelineInv, Progress, Passed, SynthesesAreMade, StreamIsPlayed, CleanUp,
      ReturnedIsHeard, Leaving, Segment, Finished, Done

\* The producer keeps the invariant.
LEMMA ProducerKeeps == ASSUME IInv, ProducerNext PROVE IInv'
<1> USE SegmentAssumption, InterruptAssumption
    DEF IInv, TypeOK, PipelineInv, Segment, Finished, Done, playVars, envVars
<1>1. CASE Produce
  <2> USE <1>1 DEF Produce
  <2>1. TypeOK' OBVIOUS
  <2>2. Progress' BY DEF Progress, Passed
  <2>3. SynthesesAreMade' BY DEF SynthesesAreMade
  <2>4. StreamIsPlayed' /\ CleanUp' /\ ReturnedIsHeard'
    BY DEF StreamIsPlayed, CleanUp, ReturnedIsHeard, Leaving
  <2> QED BY <2>1, <2>2, <2>3, <2>4
<1>2. CASE ProducerEnds \/ ProducerStops
  BY <1>2, ZenonT(40)
  DEF ProducerEnds, ProducerStops, Progress, Passed, SynthesesAreMade, StreamIsPlayed, CleanUp,
      ReturnedIsHeard, Leaving
<1> QED BY <1>1, <1>2 DEF ProducerNext

\* So do the syntheses: a failure is final.
LEMMA SynthesisKeeps == ASSUME IInv, NEW s \in Segment, SynthesisNext(s) PROVE IInv'
<1> USE SegmentAssumption, InterruptAssumption
    DEF IInv, TypeOK, PipelineInv, Segment, Finished, Done, playVars, envVars, producerVars,
        SynthesisNext, SynthesisEnds, SynthesisStops
<1>1. PICK result \in {"ok", "failed", "broken", "cancelled"} :
        synthesis' = [synthesis EXCEPT ![s] = result]
  OBVIOUS
<1>2. synthesis[s] \in {"running", "stopping"} /\ (synthesis[s] = "running" => ~Leaving)
  BY DEF CleanUp
<1>3. TypeOK' BY <1>1
<1>4. Progress'
  <2>1. \A r \in Segment : synthesis[r] = "failed" => synthesis'[r] = "failed" BY <1>1, <1>2
  <2>2. UNCHANGED <<at, taken, skipped, heard, policy>> OBVIOUS
  <2>3. Passed' = Passed /\ Passed \subseteq Segment BY <2>2 DEF Passed
  <2> QED BY <2>1, <2>2, <2>3 DEF Progress
<1>5. SynthesesAreMade' BY <1>1, <1>2 DEF SynthesesAreMade
<1>6. CleanUp' BY <1>1 DEF CleanUp, Leaving
<1>7. StreamIsPlayed' /\ ReturnedIsHeard'
  BY <1>1 DEF StreamIsPlayed, ReturnedIsHeard, Leaving
<1> QED BY <1>3, <1>4, <1>5, <1>6, <1>7

\* What leaves for the finally clause keeps the invariant, if it returns only when all is said.
LEMMA LeaveKeeps ==
  ASSUME IInv, NEW how \in {"returned", "error", "cancelled"}, Leave(how), at # "done",
         policy' = policy, heard' = heard, device' \in {0, device},
         reason' \in {"none", "completed", "cancelled", "tts_error"},
         owned' = owned, interrupts' \in 0..Interrupts,
         how = "returned" => producer = "ended" /\ made > 0 /\ heard = 1..made /\ device = 0
  PROVE  IInv'
<1> USE SegmentAssumption, InterruptAssumption
    DEF IInv, TypeOK, PipelineInv, Segment, Finished, Done, Leave, Stop
<1>1. TypeOK' OBVIOUS
<1>2. Progress' BY DEF Progress, Passed
<1>3. SynthesesAreMade' BY DEF SynthesesAreMade
<1>4. StreamIsPlayed' /\ CleanUp' BY DEF StreamIsPlayed, CleanUp, Leaving
<1>5. ReturnedIsHeard' BY DEF ReturnedIsHeard
<1> QED BY <1>1, <1>2, <1>3, <1>4, <1>5

\* A step within the loop that passes no unheard segment keeps it.
LEMMA ContinueKeeps ==
  ASSUME IInv, ~Leaving, NEW place \in {"get", "start", "frames", "end", "pause"}, Continue(place),
         policy' = policy, owned' = owned, interrupts' \in 0..Interrupts,
         reason' \in {"none", "completed", "cancelled", "tts_error"},
         device' \in 0..Segments, device' # 0 => owned /\ place \in {"start", "frames"},
         heard' = heard \cup {taken}, taken # 0
  PROVE  IInv'
<1> USE SegmentAssumption, InterruptAssumption
    DEF IInv, TypeOK, PipelineInv, Segment, Finished, Done, Continue, producerVars, Leaving
<1>1. TypeOK' OBVIOUS
<1>2. Progress' BY DEF Progress, Passed
<1>3. SynthesesAreMade' BY DEF SynthesesAreMade
<1>4. StreamIsPlayed' /\ CleanUp' BY DEF StreamIsPlayed, CleanUp
<1>5. ReturnedIsHeard' BY DEF ReturnedIsHeard, CleanUp
<1> QED BY <1>1, <1>2, <1>3, <1>4, <1>5

\* The end of a stream is a step of one of the two kinds.
LEMMA SendEndKeeps ==
  ASSUME IInv, at = "frames", NEW why \in {"completed", "cancelled", "tts_error"}, SendEnd(why),
         UNCHANGED <<heard, policy, owned>>, interrupts' \in 0..Interrupts
  PROVE  IInv'
<1>1. taken \in heard /\ taken # 0 /\ ~Leaving
  BY SegmentAssumption DEF IInv, TypeOK, PipelineInv, Progress, Leaving
<1>2. heard' = heard \cup {taken} BY <1>1
<1>3. CASE owned
  BY <1>1, <1>2, <1>3, SegmentAssumption, ContinueKeeps DEF SendEnd, IInv, TypeOK
<1>4. CASE ~owned
  BY <1>4, LeaveKeeps DEF SendEnd, IInv, TypeOK
<1> QED BY <1>3, <1>4

\* The consumer keeps the invariant.
LEMMA ConsumerKeeps == ASSUME IInv, ConsumerNext PROVE IInv'
<1> USE SegmentAssumption, InterruptAssumption
<1> USE DEF envVars, playVars
<1>1. CASE Take
  <2> USE <1>1 DEF Take, IInv, TypeOK, PipelineInv, Segment, Finished, Done, producerVars
  <2>1. TypeOK' OBVIOUS
  <2>2. Progress' BY DEF Progress, Passed
  <2>3. SynthesesAreMade' /\ StreamIsPlayed' /\ CleanUp' /\ ReturnedIsHeard'
    BY DEF SynthesesAreMade, StreamIsPlayed, CleanUp, ReturnedIsHeard, Leaving
  <2> QED BY <2>1, <2>2, <2>3
<1>2. CASE Exhausted
  <2> DEFINE how == IF producer = "ended" /\ made > 0 /\ ~skipped THEN "returned" ELSE "error"
  <2>1. how = "returned" => producer = "ended" /\ made > 0 /\ heard = 1..made /\ device = 0
    <3>1. device = 0 BY <1>2 DEF Exhausted, IInv, PipelineInv, StreamIsPlayed, Leaving
    <3>2. ~skipped => heard = 1..made
      BY <1>2 DEF Exhausted, IInv, PipelineInv, TypeOK, Progress, Passed
    <3> QED BY <3>1, <3>2
  <2> QED BY <1>2, <2>1, LeaveKeeps DEF Exhausted, IInv, TypeOK
<1>3. CASE SynthesisFailed
  <2>1. CASE synthesis[taken] = "failed" /\ policy = "play_completed"
    <3> USE <1>3, <2>1
        DEF SynthesisFailed, IInv, TypeOK, PipelineInv, Segment, Finished, Done, producerVars
    <3>1. TypeOK' OBVIOUS
    <3>2. Progress' BY DEF Progress, Passed
    <3>3. SynthesesAreMade' /\ StreamIsPlayed' /\ CleanUp' /\ ReturnedIsHeard'
      BY DEF SynthesesAreMade, StreamIsPlayed, CleanUp, ReturnedIsHeard, Leaving
    <3> QED BY <3>1, <3>2, <3>3
  <2>2. CASE ~(synthesis[taken] = "failed" /\ policy = "play_completed")
    BY <1>3, <2>2, LeaveKeeps DEF SynthesisFailed, IInv, TypeOK
  <2> QED BY <2>1, <2>2
<1>4. CASE Play
  <2>1. CASE Leave("error")
    <3>1. UNCHANGED <<device, heard>> BY <1>4, <2>1 DEF Play, Leave, Continue
    <3> QED BY <1>4, <2>1, <3>1, LeaveKeeps DEF Play, IInv, TypeOK
  <2>2. CASE ~Leave("error")
    <3>1. taken # 0 /\ taken \in Segment
      BY <1>4, <2>2 DEF Play, IInv, TypeOK, PipelineInv, Progress, Segment
    <3>2. ~Leaving BY <1>4 DEF Play, Leaving
    <3> QED BY <1>4, <2>2, <3>1, <3>2, ContinueKeeps DEF Play, IInv, TypeOK, Segment
  <2> QED BY <2>1, <2>2
<1>5. CASE Started
  <2>1. taken \in heard /\ taken # 0 /\ ~Leaving
    BY <1>5 DEF Started, IInv, TypeOK, PipelineInv, Progress, Leaving
  <2>2. heard' = heard \cup {taken} BY <1>5, <2>1 DEF Started
  <2>3. CASE owned BY <1>5, <2>1, <2>2, <2>3, ContinueKeeps DEF Started, IInv, TypeOK
  <2>4. CASE ~owned BY <1>5, <2>4, LeaveKeeps DEF Started, IInv, TypeOK
  <2> QED BY <2>3, <2>4
<1>6. CASE Framed BY <1>6, SendEndKeeps DEF Framed, IInv, TypeOK
<1>7. CASE EndSent
  <2>1. taken \in heard /\ taken # 0 /\ ~Leaving /\ device = 0
    BY <1>7 DEF EndSent, IInv, TypeOK, PipelineInv, Progress, Leaving, StreamIsPlayed
  <2>2. heard' = heard \cup {taken} BY <1>7, <2>1 DEF EndSent
  <2>3. CASE owned /\ reason = "completed"
    BY <1>7, <2>1, <2>2, <2>3, ContinueKeeps DEF EndSent, IInv, TypeOK
  <2>4. CASE ~(owned /\ reason = "completed")
    BY <1>7, <2>4, LeaveKeeps DEF EndSent, IInv, TypeOK
  <2> QED BY <2>3, <2>4
<1>8. CASE Paused
  <2>1. taken \in heard /\ taken # 0 /\ ~Leaving /\ device = 0
    BY <1>8 DEF Paused, IInv, TypeOK, PipelineInv, Progress, Leaving, StreamIsPlayed
  <2>2. heard' = heard \cup {taken} BY <1>8, <2>1 DEF Paused
  <2>3. CASE owned BY <1>8, <2>1, <2>2, <2>3, ContinueKeeps DEF Paused, IInv, TypeOK
  <2>4. CASE ~owned BY <1>8, <2>4, LeaveKeeps DEF Paused, IInv, TypeOK
  <2> QED BY <2>3, <2>4
<1>9. CASE Gathered
  BY <1>9
  DEF Gathered, IInv, TypeOK, PipelineInv, Segment, Finished, Done, producerVars, Progress, Passed,
      SynthesesAreMade, StreamIsPlayed, CleanUp, ReturnedIsHeard, Leaving
<1> QED BY <1>1, <1>2, <1>3, <1>4, <1>5, <1>6, <1>7, <1>8, <1>9 DEF ConsumerNext

\* A cancellation and a lost connection keep it.
LEMMA EnvironmentKeeps == ASSUME IInv, Interrupt \/ Lose PROVE IInv'
<1> USE SegmentAssumption, InterruptAssumption
<1>1. CASE Interrupt
  <2>1. interrupts' \in 0..Interrupts BY <1>1 DEF Interrupt, IInv, TypeOK
  <2>2. CASE at = "frames"
    BY <1>1, <2>1, <2>2, SendEndKeeps DEF Interrupt, InterruptFrames
  <2>3. CASE at = "await" /\ synthesis[taken] \in {"running", "stopping"}
    <3> USE <1>1, <2>1, <2>3
        DEF Interrupt, IInv, TypeOK, PipelineInv, Segment, Finished, Done, producerVars, playVars
    <3>1. taken \in Segment BY DEF Progress
    <3>2. synthesis' = [synthesis EXCEPT ![taken] = "stopping"] OBVIOUS
    <3>3. TypeOK' BY <3>1, <3>2
    <3>4. Progress'
      <4>1. \A r \in Segment : synthesis[r] = "failed" => synthesis'[r] = "failed" BY <3>1, <3>2
      <4>2. UNCHANGED <<at, taken, skipped, heard, policy>> BY <3>1 DEF envVars
      <4>3. Passed' = Passed /\ Passed \subseteq Segment BY <4>2 DEF Passed
      <4> QED BY <4>1, <4>2, <4>3 DEF Progress
    <3>5. SynthesesAreMade' BY <3>1, <3>2 DEF SynthesesAreMade
    <3>6. StreamIsPlayed' /\ CleanUp' /\ ReturnedIsHeard'
      BY <3>1, <3>2 DEF StreamIsPlayed, CleanUp, ReturnedIsHeard, Leaving
    <3> QED BY <3>3, <3>4, <3>5, <3>6
  <2>4. CASE Leave("cancelled") /\ UNCHANGED playVars
    BY <1>1, <2>1, <2>4, LeaveKeeps DEF Interrupt, IInv, TypeOK, playVars
  <2> QED BY <1>1, <2>2, <2>3, <2>4 DEF Interrupt
<1>2. CASE Lose
  <2>1. owned' \in BOOLEAN BY <1>2, Zenon DEF Lose
  <2> QED
    BY <1>2, <2>1
    DEF Lose, IInv, TypeOK, PipelineInv, Segment, Finished, Done, producerVars, Progress, Passed,
        SynthesesAreMade, StreamIsPlayed, CleanUp, ReturnedIsHeard, Leaving
<1> QED BY <1>1, <1>2

\* The invariant is inductive.
LEMMA StepInv == IInv /\ [Next]_vars => IInv'
<1> SUFFICES ASSUME IInv, [Next]_vars PROVE IInv' OBVIOUS
<1>1. CASE UNCHANGED vars
  BY <1>1
  DEF vars, producerVars, playVars, envVars, IInv, TypeOK, PipelineInv, Segment, Finished, Done,
      Progress, Passed, SynthesesAreMade, StreamIsPlayed, CleanUp, ReturnedIsHeard,
      Leaving
<1>2. CASE Next
  BY <1>2, ProducerKeeps, SynthesisKeeps, ConsumerKeeps, EnvironmentKeeps DEF Next
<1> QED BY <1>1, <1>2

LEMMA Invariance == Spec => []IInv
  BY InitInv, StepInv, PTL DEF Spec

(***************************************************************************)
(* The theorems.                                                           *)
(***************************************************************************)
\* The variables keep their types: the consumer never takes a synthesis that was not made.
THEOREM TypeCorrect == Spec => []TypeOK
<1>1. IInv => TypeOK BY DEF IInv
<1> QED BY <1>1, Invariance, PTL

\* The device hears the segments in the order of the source, and misses only failed ones that
\* the policy allows to skip.
THEOREM OrderIsKept == Spec => []HeardInOrder
<1>1. IInv => HeardInOrder
  BY SegmentAssumption DEF IInv, PipelineInv, TypeOK, Progress, Passed, HeardInOrder
<1> QED BY <1>1, Invariance, PTL

\* A run that returns has said everything.
THEOREM SuccessIsComplete == Spec => []ReturnedIsHeard
<1>1. IInv => ReturnedIsHeard BY DEF IInv, PipelineInv
<1> QED BY <1>1, Invariance, PTL

\* A stream of which frames may have been sent is ended, or its connection is gone.
THEOREM StreamsAreEnded == Spec => StartedIsEnded
<1>1. IInv /\ [Next]_vars => (at = "frames" /\ at' # "frames" => device' = 0)
  <2> SUFFICES ASSUME IInv, Next, at = "frames", at' # "frames" PROVE device' = 0
    BY DEF vars
  <2>1. Framed \/ Interrupt
    BY DEF Next, ProducerNext, Produce, ProducerEnds, ProducerStops, SynthesisNext, SynthesisEnds,
           SynthesisStops, ConsumerNext, Take, Exhausted, SynthesisFailed, Play, Started, EndSent,
           Paused, Gathered, Lose
  <2>2. \E why \in {"completed", "cancelled", "tts_error"} : SendEnd(why)
    BY <2>1 DEF Framed, Interrupt, InterruptFrames
  <2> QED BY <2>2 DEF SendEnd, IInv, PipelineInv, StreamIsPlayed
<1> QED BY <1>1, Invariance, PTL DEF Spec, StartedIsEnded
-----------------------------------------------------------------------------
(***************************************************************************)
(* Refinement: the pipeline implements SpokenAnswer.                       *)
(*                                                                         *)
(* IInv says that what was passed is heard or missed. That a segment is    *)
(* never both, or heard twice, needs the syntheses of the heard ones.      *)
(***************************************************************************)
\* A segment that is awaited has not been heard, and one that was heard has not failed.
AnswerInv ==
  /\ at = "await" => taken \notin heard
  /\ \A s \in heard : synthesis[s] = "ok"

\* At first nothing is heard.
LEMMA InitAnswer == Init => AnswerInv
  BY DEF Init, AnswerInv

\* A synthesis that has ended well stays so: a step changes one that has not, or stops all
\* that still run.
LEMMA SynthesesChange ==
  ASSUME IInv, [Next]_vars
  PROVE  \A s \in Segment : synthesis[s] = "ok" => synthesis'[s] = "ok"
<1> USE SegmentAssumption DEF IInv, TypeOK, Segment
<1>1. \/ synthesis' \in {synthesis, Stop}
      \/ \E s \in Segment : \E result \in {"running", "stopping"} \cup Done :
           /\ synthesis[s] \in {"none", "running", "stopping"}
           /\ synthesis' = [synthesis EXCEPT ![s] = result]
  <2>1. CASE ProducerNext
    <3>1. CASE Produce
      <4>1. made + 1 \in Segment /\ synthesis[made + 1] = "none"
        BY <3>1 DEF Produce, PipelineInv, SynthesesAreMade
      <4> QED BY <3>1, <4>1 DEF Produce
    <3>2. CASE ProducerEnds \/ ProducerStops BY <3>2 DEF ProducerEnds, ProducerStops
    <3> QED BY <2>1, <3>1, <3>2 DEF ProducerNext
  <2>2. ASSUME NEW s \in Segment, SynthesisNext(s)
        PROVE  \E result \in {"running", "stopping"} \cup Done :
                 /\ synthesis[s] \in {"none", "running", "stopping"}
                 /\ synthesis' = [synthesis EXCEPT ![s] = result]
    BY <2>2 DEF SynthesisNext, SynthesisEnds, SynthesisStops, Done
  <2>3. CASE ConsumerNext
    BY <2>3
    DEF ConsumerNext, Take, Exhausted, SynthesisFailed, Play, Started, Framed, EndSent, Paused,
        Gathered, Continue, SendEnd, Leave
  <2>4. CASE Interrupt
    <3>1. CASE at = "await" /\ synthesis[taken] \in {"running", "stopping"}
      <4>1. taken \in Segment BY <3>1 DEF PipelineInv, Progress
      <4> QED BY <2>4, <3>1, <4>1 DEF Interrupt
    <3>2. CASE ~(at = "await" /\ synthesis[taken] \in {"running", "stopping"})
      BY <2>4, <3>2 DEF Interrupt, InterruptFrames, Continue, SendEnd, Leave
    <3> QED BY <3>1, <3>2
  <2>5. CASE Lose \/ UNCHANGED vars BY <2>5 DEF Lose, vars
  <2> QED BY <2>1, <2>2, <2>3, <2>4, <2>5 DEF Next
<1> QED BY <1>1 DEF Stop

\* Only an awaited segment is heard, and the one that is awaited next is another.
LEMMA StepAnswer == IInv /\ AnswerInv /\ [Next]_vars => AnswerInv'
<1> SUFFICES ASSUME IInv, AnswerInv, [Next]_vars PROVE AnswerInv' OBVIOUS
<1> USE SegmentAssumption
    DEF IInv, TypeOK, PipelineInv, Progress, Segment, producerVars, playVars, envVars
<1>1. heard' = heard \/ (at = "await" /\ synthesis[taken] = "ok" /\ heard' = heard \cup {taken})
  BY DEF Next, ProducerNext, Produce, ProducerEnds, ProducerStops, SynthesisNext, SynthesisEnds,
         SynthesisStops, ConsumerNext, Take, Exhausted, SynthesisFailed, Play, Started, Framed,
         EndSent, Paused, Gathered, Interrupt, InterruptFrames, SendEnd, Lose, vars
<1>2. at' = "await" =>
        \/ heard' = heard /\ at = "await" /\ taken' = taken
        \/ heard' = heard /\ taken' = taken + 1
  BY DEF Next, ProducerNext, Produce, ProducerEnds, ProducerStops, SynthesisNext, SynthesisEnds,
         SynthesisStops, ConsumerNext, Take, Exhausted, SynthesisFailed, Play, Started, Framed,
         EndSent, Paused, Gathered, Interrupt, InterruptFrames, SendEnd, Leave, Continue, Lose, vars
<1>3. at' = "await" => taken' \notin heard' BY <1>2 DEF AnswerInv
<1>4. ASSUME NEW s \in heard' PROVE synthesis'[s] = "ok"
  <2>1. s \in Segment /\ synthesis[s] = "ok"
    <3>1. CASE s \in heard BY <3>1 DEF AnswerInv
    <3>2. CASE s \notin heard BY <1>1, <1>4, <3>2
    <3> QED BY <3>1, <3>2
  <2> QED BY <2>1, SynthesesChange
<1> QED BY <1>3, <1>4 DEF AnswerInv

LEMMA AnswerInvariance == Spec => []AnswerInv
  BY InitAnswer, StepAnswer, Invariance, PTL DEF Spec

(***************************************************************************)
(* The steps.                                                              *)
(***************************************************************************)
\* What a step may leave alone of the speech.
SameSource == policy' = policy /\ made' = made /\ (producer' = "ended" <=> producer = "ended")
SameSpeech == UNCHANGED <<heard, Missed, device, Framing, outcome>>

\* What a step of the pipeline is to the speech.
MapsToAnswer == Answer!AnswerNext \/ (SameSource /\ SameSpeech)

\* At first nothing is spoken.
LEMMA AnswerInitMaps == Init => Answer!AnswerInit
<1> SUFFICES ASSUME Init PROVE Answer!AnswerInit OBVIOUS
<1>1. Missed = {} BY DEF Init, Missed
<1>2. ~Framing BY DEF Init, Framing
<1> QED BY <1>1, <1>2 DEF Init, Answer!AnswerInit

\* What the consumer has passed is heard or missed, and nothing else is.
LEMMA PassedIsSettled ==
  ASSUME IInv, AnswerInv, at \in {"get", "await"}
  PROVE  /\ at = "get" => heard \cup Missed = 1..taken
         /\ at = "await" => 1..(taken - 1) \subseteq heard \cup Missed /\ heard \subseteq 1..(taken - 1)
<1> USE DEF IInv, TypeOK, PipelineInv, Progress, Passed, Missed, AnswerInv
<1>1. CASE at = "get" BY <1>1
<1>2. CASE at = "await" BY <1>2
<1> QED BY <1>1, <1>2

\* The source is part of the speech; how its task is stopped is not.
LEMMA ProducerMaps == ASSUME IInv, ProducerNext PROVE MapsToAnswer
<1> USE SegmentAssumption DEF IInv, TypeOK, Segment, Finished, playVars, envVars
<1>1. CASE Produce
  <2>1. Missed' = Missed BY <1>1 DEF Produce, Missed
  <2>2. Framing' = Framing BY <1>1 DEF Produce, Framing
  <2>3. Answer!Grow BY <1>1, <2>1, <2>2 DEF Produce, Answer!Grow
  <2> QED BY <2>3 DEF MapsToAnswer, Answer!AnswerNext
<1>2. CASE ProducerEnds
  <2>1. Missed' = Missed /\ Framing' = Framing BY <1>2 DEF ProducerEnds, Missed, Framing
  <2>2. CASE producer' = "ended"
    <3>1. Answer!Complete BY <1>2, <2>1, <2>2 DEF ProducerEnds, Answer!Complete
    <3> QED BY <3>1 DEF MapsToAnswer, Answer!AnswerNext
  <2>3. CASE producer' # "ended"
    BY <1>2, <2>1, <2>3 DEF ProducerEnds, MapsToAnswer, SameSource, SameSpeech
  <2> QED BY <2>2, <2>3
<1>3. CASE ProducerStops
  BY <1>3 DEF ProducerStops, MapsToAnswer, SameSource, SameSpeech, Missed, Framing
<1> QED BY <1>1, <1>2, <1>3 DEF ProducerNext

\* A failure is missed when the consumer waits for it, or comes to it.
LEMMA MissMaps ==
  ASSUME IInv, AnswerInv, NEW s \in 1..made,
         \/ at = "await" /\ s = taken /\ Missed = Missed \ {taken}
         \/ at = "get" /\ s = taken + 1,
         policy = "play_completed", Missed' = Missed \cup {s}, at' = "await",
         SameSource, UNCHANGED <<heard, device, outcome>>
  PROVE  MapsToAnswer
<1> USE DEF IInv, TypeOK
<1>1. outcome = "none" /\ device = 0
  BY DEF PipelineInv, CleanUp, StreamIsPlayed, Leaving
<1>2. \A r \in 1..made : r < s <=> r \in heard \cup Missed
  <2>1. CASE at = "get" BY <2>1, PassedIsSettled
  <2>2. CASE at = "await"
    <3>1. 1..(taken - 1) \subseteq heard \cup Missed /\ heard \subseteq 1..(taken - 1)
      BY <2>2, PassedIsSettled
    <3>2. Missed \subseteq 1..(taken - 1) BY <2>2 DEF Missed
    <3> QED BY <2>2, <3>1, <3>2
  <2> QED BY <2>1, <2>2
<1>3. Answer!IsNext(s) BY <1>2 DEF Answer!IsNext
<1>4. Framing' = Framing BY DEF Framing
<1>5. Answer!Miss(s) BY <1>1, <1>3, <1>4 DEF Answer!Miss, SameSource
<1> QED BY <1>5 DEF MapsToAnswer, Answer!AnswerNext

\* A synthesis only matters when it fails, and the consumer has come to it.
LEMMA SynthesisMaps == ASSUME IInv, AnswerInv, NEW s \in Segment, SynthesisNext(s) PROVE MapsToAnswer
<1> USE SegmentAssumption DEF IInv, TypeOK, Segment, producerVars, playVars, envVars
<1>1. PICK result \in {"ok", "failed", "broken", "cancelled"} :
        /\ synthesis' = [synthesis EXCEPT ![s] = result]
        /\ synthesis[s] \in {"running", "stopping"}
        /\ result = "failed" => synthesis[s] = "running"
  BY DEF SynthesisNext, SynthesisEnds, SynthesisStops
<1>2. SameSource /\ UNCHANGED <<heard, device, outcome, at, taken>>
  BY DEF SynthesisNext, SynthesisEnds, SynthesisStops, SameSource
<1>3. Framing' = Framing BY <1>2 DEF Framing
<1>4. CASE result = "failed" /\ policy = "play_completed" /\ s <= taken
  <2>1. s \notin heard /\ s \notin Missed BY <1>1 DEF AnswerInv, Missed
  <2>2. ~Leaving BY <1>1, <1>4 DEF PipelineInv, CleanUp
  <2>3. s \notin Passed BY <1>1, <2>1 DEF PipelineInv, Progress
  <2>4. s = taken /\ at = "await"
    BY <1>4, <2>1, <2>2, <2>3 DEF PipelineInv, Progress, Passed, Leaving
  <2>5. Missed' = Missed \cup {s} BY <1>1, <1>2, <1>4 DEF Missed, SameSource
  <2>6. s \in 1..made /\ Missed = Missed \ {taken} BY <1>4, <2>1, <2>4
  <2> QED BY <1>2, <1>4, <2>4, <2>5, <2>6, MissMaps
<1>5. CASE ~(result = "failed" /\ policy = "play_completed" /\ s <= taken)
  <2>1. Missed' = Missed BY <1>1, <1>2, <1>5 DEF Missed, SameSource
  <2> QED BY <1>2, <1>3, <2>1 DEF MapsToAnswer, SameSpeech
<1> QED BY <1>4, <1>5

\* What leaves for the finally clause concludes the speech, if no stream with frames is open.
LEMMA LeaveMaps ==
  ASSUME IInv, AnswerInv, NEW how \in {"returned", "error", "cancelled"}, Leave(how),
         ~Leaving \/ how = "cancelled", ~Framing, UNCHANGED <<policy, heard, device>>,
         how = "returned" => producer = "ended" /\ made > 0 /\ heard = 1..made /\ device = 0
  PROVE  MapsToAnswer
<1> USE DEF IInv, TypeOK
<1>1. Missed' = Missed BY SegmentAssumption DEF Leave, Stop, Missed, Segment
<1>2. Framing' = Framing BY DEF Leave, Framing
<1>3. (producer = "ended")' = (producer = "ended") BY DEF Leave
<1>4. outcome = "none" \/ how = "cancelled" BY DEF PipelineInv, CleanUp
<1>5. how = "returned" => Missed = {} BY DEF Missed, AnswerInv
<1>6. Answer!Conclude(how) BY <1>1, <1>2, <1>3, <1>4, <1>5 DEF Leave, Answer!Conclude
<1> QED BY <1>6 DEF MapsToAnswer, Answer!AnswerNext
\* The end of a stream closes it, or concludes the speech when the connection is gone.
LEMMA SendEndMaps ==
  ASSUME IInv, AnswerInv, at = "frames", NEW why, SendEnd(why), UNCHANGED <<heard, policy>>
  PROVE  MapsToAnswer
<1> USE DEF IInv, TypeOK, PipelineInv
<1>1. CASE owned
  <2>1. SameSource /\ UNCHANGED <<heard, Missed, outcome>> /\ device' = 0 /\ at' = "end"
    BY <1>1 DEF SendEnd, Continue, producerVars, SameSource, Missed
  <2>2. ~Framing' BY <2>1 DEF Framing
  <2>3. CASE device = 0
    <3>1. Framing' = Framing BY <2>1, <2>3 DEF Framing
    <3> QED BY <2>1, <2>3, <3>1 DEF MapsToAnswer, SameSpeech
  <2>4. CASE device # 0
    <3>1. Framing' = FALSE BY <2>1, Zenon DEF Framing
    <3>2. Answer!Close BY <2>1, <2>4, <3>1 DEF Answer!Close, SameSource
    <3> QED BY <3>2 DEF MapsToAnswer, Answer!AnswerNext
  <2> QED BY <2>3, <2>4
<1>2. CASE ~owned
  <2>1. Leave("error") /\ device' = device /\ device = 0
    BY <1>2 DEF SendEnd, StreamIsPlayed
  <2>2. ~Framing /\ ~Leaving BY <2>1 DEF Framing, Leaving
  <2> QED BY <2>1, <2>2, LeaveMaps
<1> QED BY <1>1, <1>2

\* A step within the loop that neither plays nor skips is none of the speech's.
LEMMA ContinueMaps ==
  ASSUME NEW place \in {"get", "frames", "pause"}, Continue(place), at # "frames",
         UNCHANGED <<heard, policy, device>>, place = "frames" => device = 0
  PROVE  MapsToAnswer
<1>1. SameSource /\ UNCHANGED <<heard, Missed, device, outcome>>
  BY DEF Continue, producerVars, SameSource, Missed
<1>2. Framing' = Framing BY DEF Continue, Framing
<1> QED BY <1>1, <1>2 DEF MapsToAnswer, SameSpeech

\* The consumer speaks, frames, ends and concludes.
LEMMA ConsumerMaps == ASSUME IInv, AnswerInv, ConsumerNext PROVE MapsToAnswer
<1> USE SegmentAssumption DEF IInv, TypeOK, playVars, envVars
<1>1. CASE Take
  <2>1. SameSource /\ UNCHANGED <<heard, device, outcome>> BY <1>1 DEF Take, SameSource, producerVars
  <2>2. CASE policy = "play_completed" /\ synthesis[taken + 1] = "failed"
    <3>1. Missed' = Missed \cup {taken + 1} BY <1>1, <2>2 DEF Take, Missed
    <3>2. taken + 1 \in 1..made BY <1>1 DEF Take
    <3> QED BY <1>1, <2>1, <2>2, <3>1, <3>2, MissMaps DEF Take
  <2>3. CASE ~(policy = "play_completed" /\ synthesis[taken + 1] = "failed")
    <3>1. Missed' = Missed BY <1>1, <2>3 DEF Take, Missed
    <3>2. Framing' = Framing BY <1>1 DEF Take, Framing
    <3> QED BY <2>1, <3>1, <3>2 DEF MapsToAnswer, SameSpeech
  <2> QED BY <2>2, <2>3
<1>2. CASE Exhausted
  <2> DEFINE how == IF producer = "ended" /\ made > 0 /\ ~skipped THEN "returned" ELSE "error"
  <2>1. Leave(how) /\ ~Leaving /\ ~Framing BY <1>2 DEF Exhausted, Leaving, Framing
  <2>2. IInv' BY ConsumerKeeps
  <2>3. how = "returned" => producer = "ended" /\ made > 0 /\ heard = 1..made /\ device = 0
    BY <1>2, <2>1, <2>2 DEF Exhausted, Leave, PipelineInv, ReturnedIsHeard
  <2>4. how \in {"returned", "error", "cancelled"} OBVIOUS
  <2> HIDE DEF how
  <2> QED BY <1>2, <2>1, <2>3, <2>4, LeaveMaps DEF Exhausted
<1>3. CASE SynthesisFailed
  <2>1. ~Leaving /\ ~Framing BY <1>3 DEF SynthesisFailed, Leaving, Framing
  <2>2. CASE synthesis[taken] = "failed" /\ policy = "play_completed"
    <3>1. SameSource /\ UNCHANGED <<heard, Missed, device, outcome>>
      BY <1>3, <2>2 DEF SynthesisFailed, SameSource, Missed, producerVars
    <3>2. Framing' = Framing BY <1>3, <2>2 DEF SynthesisFailed, Framing
    <3> QED BY <3>1, <3>2 DEF MapsToAnswer, SameSpeech
  <2>3. CASE ~(synthesis[taken] = "failed" /\ policy = "play_completed")
    BY <1>3, <2>1, <2>3, LeaveMaps DEF SynthesisFailed
  <2> QED BY <2>2, <2>3
<1>4. CASE Play
  <2>1. ~Leaving /\ ~Framing BY <1>4 DEF Play, Leaving, Framing
  <2>2. CASE Leave("error") /\ UNCHANGED <<device, heard>>
    BY <1>4, <2>1, <2>2, LeaveMaps DEF Play
  <2>3. CASE ~(Leave("error") /\ UNCHANGED <<device, heard>>)
    <3>1. /\ SameSource /\ UNCHANGED <<Missed, outcome>> /\ at' = "start"
          /\ device' = taken /\ heard' = heard \cup {taken}
      BY <1>4, <2>3 DEF Play, Continue, producerVars, SameSource, Missed
    <3>2. outcome = "none" /\ device = 0
      BY <1>4, <2>1 DEF Play, PipelineInv, CleanUp, StreamIsPlayed
    <3>3. taken \in 1..made BY <1>4 DEF Play, PipelineInv, Progress
    <3>4. Answer!IsNext(taken)
      <4>1. 1..(taken - 1) \subseteq heard \cup Missed /\ heard \subseteq 1..(taken - 1)
        BY <1>4, PassedIsSettled DEF Play
      <4>2. Missed \subseteq 1..(taken - 1) BY <1>4, <3>3 DEF Play, Missed
      <4> QED BY <3>3, <4>1, <4>2 DEF Answer!IsNext
    <3>5. Framing' = Framing BY <1>4, <3>1 DEF Play, Framing
    <3>6. Answer!Speak(taken) BY <3>1, <3>2, <3>4, <3>5 DEF Answer!Speak, SameSource
    <3> QED BY <3>3, <3>6 DEF MapsToAnswer, Answer!AnswerNext
  <2> QED BY <2>2, <2>3
<1>5. CASE Started
  <2>1. ~Leaving /\ ~Framing BY <1>5 DEF Started, Leaving, Framing
  <2>2. CASE ~owned BY <1>5, <2>1, <2>2, LeaveMaps DEF Started
  <2>3. CASE owned /\ device = 0 BY <1>5, <2>3, ContinueMaps DEF Started
  <2>4. CASE owned /\ device # 0
    <3>1. SameSource /\ UNCHANGED <<heard, Missed, device, outcome>> /\ at' = "frames"
      BY <1>5, <2>4 DEF Started, Continue, producerVars, SameSource, Missed
    <3>2. Framing' = TRUE BY <2>4, <3>1, Zenon DEF Framing
    <3>3. Answer!Frame BY <2>1, <2>4, <3>1, <3>2 DEF Answer!Frame, SameSource
    <3> QED BY <3>3 DEF MapsToAnswer, Answer!AnswerNext
  <2> QED BY <2>2, <2>3, <2>4
<1>6. CASE Framed BY <1>6, SendEndMaps DEF Framed
<1>7. CASE EndSent \/ Paused
  <2>1. ~Leaving /\ ~Framing BY <1>7 DEF EndSent, Paused, Leaving, Framing
  <2>2. ASSUME NEW how \in {"cancelled", "error"}, Leave(how) PROVE MapsToAnswer
    BY <1>7, <2>1, <2>2, LeaveMaps DEF EndSent, Paused
  <2>3. ASSUME NEW place \in {"get", "pause"}, Continue(place) PROVE MapsToAnswer
    BY <1>7, <2>3, ContinueMaps DEF EndSent, Paused
  <2> QED BY <1>7, <2>2, <2>3 DEF EndSent, Paused
<1>8. CASE Gathered
  BY <1>8 DEF Gathered, producerVars, MapsToAnswer, SameSource, SameSpeech, Missed, Framing
<1> QED BY <1>1, <1>2, <1>3, <1>4, <1>5, <1>6, <1>7, <1>8 DEF ConsumerNext

\* A cancellation ends the stream first or concludes the speech, and replaces its verdict.
LEMMA EnvironmentMaps == ASSUME IInv, AnswerInv, Interrupt \/ Lose PROVE MapsToAnswer
<1> USE DEF IInv, TypeOK, playVars
<1>1. CASE Interrupt
  <2>1. CASE at = "frames" BY <1>1, <2>1, SendEndMaps DEF Interrupt, InterruptFrames
  <2>2. CASE at = "await" /\ synthesis[taken] \in {"running", "stopping"}
    <3>1. SameSource /\ UNCHANGED <<heard, device, outcome, at, taken>>
          /\ synthesis' = [synthesis EXCEPT ![taken] = "stopping"]
      BY <1>1, <2>2 DEF Interrupt, SameSource, producerVars
    <3>2. Missed' = Missed BY <2>2, <3>1, SegmentAssumption DEF Missed, SameSource, Segment
    <3>3. Framing' = Framing BY <3>1 DEF Framing
    <3> QED BY <3>1, <3>2, <3>3 DEF MapsToAnswer, SameSpeech
  <2>3. CASE Leave("cancelled") /\ UNCHANGED playVars /\ at # "frames"
    <3>1. ~Framing BY <2>3 DEF Framing
    <3> QED BY <1>1, <2>3, <3>1, LeaveMaps DEF Interrupt
  <2> QED BY <1>1, <2>1, <2>2, <2>3 DEF Interrupt
<1>2. CASE Lose
  <2>1. SameSource /\ UNCHANGED <<heard, Missed, outcome>> /\ device' = 0
    BY <1>2 DEF Lose, producerVars, SameSource, Missed
  <2>2. CASE device = 0
    <3>1. Framing' = Framing BY <2>1, <2>2 DEF Framing
    <3> QED BY <2>1, <2>2, <3>1 DEF MapsToAnswer, SameSpeech
  <2>3. CASE device # 0
    <3>1. Framing' = FALSE BY <2>1, Zenon DEF Framing
    <3>2. Answer!Close BY <2>1, <2>3, <3>1 DEF Answer!Close, SameSource
    <3> QED BY <3>2 DEF MapsToAnswer, Answer!AnswerNext
  <2> QED BY <2>2, <2>3
<1> QED BY <1>1, <1>2

\* Every step of the pipeline is a step of the speech, or leaves it alone.
LEMMA AnswerStepMaps == IInv /\ AnswerInv /\ [Next]_vars => [Answer!AnswerNext]_(Answer!answerVars)
<1> SUFFICES ASSUME IInv, AnswerInv, [Next]_vars
             PROVE  Answer!AnswerNext \/ UNCHANGED Answer!answerVars
  OBVIOUS
<1>1. MapsToAnswer
  <2>1. CASE UNCHANGED vars
    BY <2>1
    DEF vars, producerVars, playVars, envVars, MapsToAnswer, SameSource, SameSpeech, Missed, Framing
  <2> QED
    BY <2>1, ProducerMaps, SynthesisMaps, ConsumerMaps, EnvironmentMaps DEF Next
<1>2. SameSource => (policy = "play_completed")' = (policy = "play_completed")
                    /\ (producer = "ended")' = (producer = "ended")
  BY DEF SameSource
<1> QED BY <1>1, <1>2 DEF MapsToAnswer, SameSource, SameSpeech, Answer!answerVars

\* Whatever fails, is cancelled or gets lost, the speech of an answer is in order, one stream
\* at a time, never goes on after its verdict, and a verdict of success is true
\* (run_streaming, play).
THEOREM AnswerRefinement == Spec => ImplementsAnswer
<1>1. Init => Answer!AnswerInit
  BY AnswerInitMaps
<1>2. IInv /\ AnswerInv /\ [Next]_vars => [Answer!AnswerNext]_(Answer!answerVars)
  BY AnswerStepMaps
<1> QED
  BY <1>1, <1>2, Invariance, AnswerInvariance, PTL DEF Spec, ImplementsAnswer, Answer!AnswerSpec
=============================================================================
