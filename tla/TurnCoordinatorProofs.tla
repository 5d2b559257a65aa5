----------------------- MODULE TurnCoordinatorProofs -----------------------
(***************************************************************************)
(* Proofs about TurnCoordinator, for any number of devices, turns and      *)
(* concurrent cancellations and any task capacity.                         *)
(*                                                                         *)
(* The steps of Next have four shapes: a turn begins, a turn's task moves, *)
(* a turn ends, or a cancellation starts or returns. Each shape is proved  *)
(* to preserve the inductive invariant once, and every action is shown to  *)
(* have one of them.                                                       *)
(***************************************************************************)
EXTENDS TurnCoordinator, FiniteSetTheorems, SequenceTheorems, TLAPS

(***************************************************************************)
(* The inductive invariant.                                                *)
(***************************************************************************)
\* An active turn sits on its own device and has not ended.
SlotsConsistent ==
  \A d \in Device : active[d] # NoTurn =>
    /\ deviceOf[active[d]] = d
    /\ state[active[d]] \notin {"NEW", "FAILED", "COMPLETED"}

\* Before begin a turn has no history.
NewIsBlank ==
  \A t \in Turn : state[t] = "NEW" =>
    kind[t] = "none" /\ task[t] = "none" /\ t \notin orphaned

BegunHasDevice ==
  \A t \in Turn : state[t] # "NEW" => deviceOf[t] \in Device

\* The cancellation event is set exactly when the turn is being, or was, cancelled.
CancelledIsCancelling ==
  \A t \in Turn : cancelled[t] <=> state[t] = "CANCELLING"

\* Somebody interrupted a task: the turn is cancelled, or its task was evicted.
InterruptHasCause ==
  \A t \in Turn :
    /\ t \in interrupt => task[t] \notin {"none", "done"}
    /\ t \in interrupt \/ task[t] \in {"unplay", "unwind"} =>
         state[t] = "CANCELLING" \/ t \in orphaned

\* What VoiceAudioInputHandler keeps are turns whose task was made.
KeptHaveTasks ==
  \A i \in 1..Len(turnTasks) : task[turnTasks[i]] # "none"

\* Whoever waits in gather waits for an attached task of a cancelled turn.
CallsWaitForTasks ==
  \A c \in Call : call[c] # NoTurn =>
    /\ state[call[c]] = "CANCELLING"
    /\ Attached(call[c]) \/ task[call[c]] = "done"

\* The heart of NoOverlap: an attached task belongs to the turn that has the device.
AttachedIsActive ==
  \A t \in Turn : Attached(t) => IsActive(t)

\* The part of the invariant that speaks of the slots and the tasks.
Ownership ==
  /\ SlotsConsistent
  /\ NewIsBlank
  /\ BegunHasDevice
  /\ CancelledIsCancelling
  /\ InterruptHasCause
  /\ KeptHaveTasks
  /\ CallsWaitForTasks
  /\ AttachedIsActive
  /\ ActiveTurnHasOwner

IInv == TypeOK /\ Ownership /\ GaugeExact

-----------------------------------------------------------------------------
(***************************************************************************)
(* The shapes of a step.                                                   *)
(***************************************************************************)
Working == {"CAPTURING", "TRANSCRIBING", "WAITING_HERMES", "SYNTHESIZING", "PLAYING"}

\* The task of t moves and takes the turn along the table or leaves it alone. It
\* may end without ending the turn only when somebody else is to end it.
Moves(t) ==
  /\ state[t] # "NEW" /\ task[t] # "done"
  /\ \E s \in TurnState :
       /\ state' = [state EXCEPT ![t] = s]
       /\ s = state[t] \/ (IsActive(t) /\ {s, state[t]} \subseteq Working)
  /\ \E p \in TaskState :
       /\ task' = [task EXCEPT ![t] = p]
       /\ p = "none" => task[t] = "none"
       /\ Attached(t) => p \notin {"none", "queued"}
       /\ Attached(t)' => Attached(t) \/ IsActive(t)
       /\ p = "done" /\ IsActive(t) => state[t] = "CANCELLING" \/ t \in orphaned
       /\ p \in {"unplay", "unwind"} => t \in interrupt \/ task[t] \in {"unplay", "unwind"}
  /\ orphaned \subseteq orphaned'
  /\ orphaned' \in SUBSET Turn
  /\ interrupt' \subseteq interrupt \cup orphaned'
  /\ \A u \in orphaned' \ orphaned : state[u] # "NEW"
  /\ \A u \in interrupt' \ interrupt : u # t /\ task[u] \notin {"none", "done"}
  /\ task'[t] = "done" => t \notin interrupt'
  /\ turnTasks' \in Seq(Turn) /\ KeptHaveTasks'
  /\ UNCHANGED <<active, gauge, cancelled, deviceOf, kind, call>>

\* The task of t ends and ends its turn.
Ends(t) ==
  /\ IsActive(t) /\ t \notin interrupt
  /\ state[t] \in Working
  /\ \E s \in {"COMPLETED", "FAILED"} : state' = [state EXCEPT ![t] = s]
  /\ Release(t)
  /\ task' = [task EXCEPT ![t] = "done"]
  /\ UNCHANGED <<cancelled, deviceOf, kind, interrupt, turnTasks, call, orphaned>>

USE DEF TurnState, TaskState, Kind

-----------------------------------------------------------------------------
(***************************************************************************)
(* The gauge.                                                              *)
(***************************************************************************)
\* Clearing one taken slot takes one off the number of taken slots.
LEMMA GaugeAfterRelease ==
  ASSUME TypeOK, SlotsConsistent, GaugeExact, NEW t \in Turn, IsActive(t), Release(t)
  PROVE  GaugeExact'
<1> DEFINE taken == {d \in Device : active[d] # NoTurn}
<1>1. IsFiniteSet(taken)
  BY FS_Subset, DeviceAssumption
<1>2. deviceOf[t] \in taken
  BY TurnAssumption DEF IsActive, SlotsConsistent
<1>3. {d \in Device : active'[d] # NoTurn} = taken \ {deviceOf[t]}
  BY <1>2 DEF Release, TypeOK
<1>4. Cardinality(taken \ {deviceOf[t]}) = Cardinality(taken) - 1
  BY <1>1, <1>2, FS_RemoveElement
<1> QED
  BY <1>3, <1>4 DEF GaugeExact, Release

\* Taking one free slot adds one.
LEMMA GaugeAfterBegin ==
  ASSUME TypeOK, GaugeExact, NEW d \in Device, NEW t \in Turn, active[d] = NoTurn,
         active' = [active EXCEPT ![d] = t], gauge' = gauge + 1
  PROVE  GaugeExact'
<1> DEFINE taken == {e \in Device : active[e] # NoTurn}
<1>1. IsFiniteSet(taken)
  BY FS_Subset, DeviceAssumption
<1>2. {e \in Device : active'[e] # NoTurn} = taken \cup {d}
  BY TurnAssumption DEF TypeOK
<1>3. Cardinality(taken \cup {d}) = Cardinality(taken) + 1
  BY <1>1, FS_AddElement
<1> QED
  BY <1>2, <1>3 DEF GaugeExact

-----------------------------------------------------------------------------
(***************************************************************************)
(* What the shapes preserve.                                               *)
(***************************************************************************)
\* A moving task disturbs neither the slots nor anybody else's task.
LEMMA MovesPreserve ==
  ASSUME IInv, NEW t \in Turn, Moves(t)
  PROVE  IInv'
<1> USE DEF IInv, Ownership
<1>1. TypeOK'
  BY DEF Moves, TypeOK
<1>2. SlotsConsistent'
  BY TurnAssumption DEF Moves, TypeOK, SlotsConsistent, Working, IsActive
<1>3. NewIsBlank' /\ BegunHasDevice'
  BY DEF Moves, TypeOK, NewIsBlank, BegunHasDevice, Working
<1>4. CancelledIsCancelling'
  BY DEF Moves, TypeOK, CancelledIsCancelling, Working
<1>5. InterruptHasCause'
  BY DEF Moves, TypeOK, InterruptHasCause, Working
<1>6. CallsWaitForTasks'
  BY DEF Moves, TypeOK, CallsWaitForTasks, Attached, Working
<1>7. AttachedIsActive'
  BY DEF Moves, TypeOK, AttachedIsActive, Attached, IsActive
<1>8. ActiveTurnHasOwner'
  BY DEF Moves, TypeOK, ActiveTurnHasOwner, IsActive, Working
<1>9. GaugeExact' /\ KeptHaveTasks'
  BY DEF Moves, GaugeExact
<1> QED
  BY <1>1, <1>2, <1>3, <1>4, <1>5, <1>6, <1>7, <1>8, <1>9

\* A turn that ends frees exactly its own slot.
LEMMA EndsPreserve ==
  ASSUME IInv, NEW t \in Turn, Ends(t)
  PROVE  IInv'
<1> USE DEF IInv, Ownership
<1>1. TypeOK'
  <2>1. state' \in [Turn -> TurnState \cup {"NEW"}] /\ task' \in [Turn -> TaskState]
    <3>1. PICK s \in {"COMPLETED", "FAILED"} : state' = [state EXCEPT ![t] = s]
      BY DEF Ends
    <3> QED
      BY <3>1 DEF Ends, TypeOK
  <2>2. active' \in [Device -> Turn \cup {NoTurn}] /\ gauge' \in Int
    <3>1. Release(t) /\ TypeOK
      BY DEF Ends
    <3>2. deviceOf[t] \in Device
      BY TurnAssumption DEF Ends, IsActive, SlotsConsistent
    <3> QED
      BY <3>1, <3>2 DEF Release, TypeOK
  <2> QED
    BY <2>1, <2>2 DEF Ends, TypeOK
<1>2. SlotsConsistent'
  BY TurnAssumption DEF Ends, TypeOK, SlotsConsistent, Release, IsActive
<1>3. NewIsBlank' /\ BegunHasDevice'
  BY DEF Ends, TypeOK, NewIsBlank, BegunHasDevice, Working
<1>4. CancelledIsCancelling'
  BY DEF Ends, TypeOK, CancelledIsCancelling, Working
<1>9. InterruptHasCause'
  BY DEF Ends, TypeOK, InterruptHasCause, Working
<1>5. CallsWaitForTasks'
  BY DEF Ends, TypeOK, CallsWaitForTasks, Attached, Working
<1>6. AttachedIsActive'
  BY TurnAssumption DEF Ends, TypeOK, SlotsConsistent, AttachedIsActive, Attached, IsActive, Release
<1>7. ActiveTurnHasOwner'
  BY TurnAssumption DEF Ends, TypeOK, SlotsConsistent, ActiveTurnHasOwner, IsActive, Release, Working
<1>8. GaugeExact'
  BY GaugeAfterRelease DEF Ends
<1>10. KeptHaveTasks'
  BY DEF Ends, TypeOK, KeptHaveTasks
<1> QED
  BY <1>1, <1>2, <1>3, <1>4, <1>5, <1>6, <1>7, <1>8, <1>9, <1>10

\* A turn that begins takes a free slot and starts with a stream or a task.
LEMMA BeginPreserves ==
  ASSUME IInv, NEW d \in Device, NEW t \in Turn, NEW k \in Kind,
         NEW s \in Working, NEW p \in {"none", "queued", "photo"},
         Begin(d, t, k, s, p)
  PROVE  IInv'
<1> USE DEF IInv, Ownership
<1>1. TypeOK'
  BY DEF Begin, TypeOK, Resume, Working
<1>2. SlotsConsistent'
  BY TurnAssumption DEF Begin, TypeOK, SlotsConsistent, Working
<1>3. NewIsBlank' /\ BegunHasDevice'
  BY DEF Begin, TypeOK, NewIsBlank, BegunHasDevice, Working, Resume
<1>4. CancelledIsCancelling' /\ InterruptHasCause'
  BY DEF Begin, TypeOK, CancelledIsCancelling, InterruptHasCause, NewIsBlank, Working, Resume
<1>5. CallsWaitForTasks'
  BY DEF Begin, TypeOK, CallsWaitForTasks, Attached, Working, Resume
<1>6. AttachedIsActive'
  BY TurnAssumption DEF Begin, TypeOK, AttachedIsActive, Attached, IsActive, Resume
<1>7. ActiveTurnHasOwner'
  BY TurnAssumption DEF Begin, TypeOK, SlotsConsistent, ActiveTurnHasOwner, Working, Resume
<1>8. GaugeExact'
  BY GaugeAfterBegin DEF Begin
<1>9. KeptHaveTasks'
  BY DEF Begin, TypeOK, KeptHaveTasks, NewIsBlank, Resume
<1> QED
  BY <1>1, <1>2, <1>3, <1>4, <1>5, <1>6, <1>7, <1>8, <1>9


-----------------------------------------------------------------------------
(***************************************************************************)
(* Every step of a task, or of the end of a stream, has one of the shapes. *)
(***************************************************************************)
\* An owned turn is neither cancelled nor over, so its state is a working one.
LEMMA OwnedIsWorking ==
  ASSUME TypeOK, Ownership, NEW t \in Turn, Owned(t)
  PROVE  state[t] \in Working
  BY TurnAssumption DEF TypeOK, Ownership, Owned, IsActive, SlotsConsistent, CancelledIsCancelling, Working

\* Each arrow of the table leaves a working state, and every working state may fail.
LEMMA ArrowsWork ==
  \A s : /\ Allowed(s) # {} => s \in Working
         /\ s \in Working => "FAILED" \in Allowed(s) /\ "CANCELLING" \in Allowed(s)
<1>1. DOMAIN Successor = Working
  BY DEF Successor, Working
<1> QED
  BY <1>1 DEF Allowed

\* An active turn is working or being cancelled, and only a working one may fail.
LEMMA ActiveMayFail ==
  ASSUME TypeOK, Ownership, NEW t \in Turn, IsActive(t)
  PROVE  /\ state[t] \in Working \cup {"CANCELLING"}
         /\ "FAILED" \in Allowed(state[t]) <=> state[t] \in Working
<1>1. state[t] \in Working \cup {"CANCELLING"}
  BY TurnAssumption DEF TypeOK, Ownership, IsActive, SlotsConsistent, Working
<1>2. "FAILED" \in Allowed(state[t]) <=> state[t] \in Working
  BY ArrowsWork, <1>1
<1> QED
  BY <1>1, <1>2

\* A task that exists belongs to a turn that began.
LEMMA TaskHasBegun ==
  ASSUME Ownership, NEW t \in Turn, task[t] # "none" \/ kind[t] # "none"
  PROVE  state[t] # "NEW"
  BY DEF Ownership, NewIsBlank


\* "if current is turn: fail" ends the turn, or leaves it to its canceller.
LEMMA FailShape ==
  ASSUME IInv, NEW t \in Turn, NEW current \in BOOLEAN,
         task[t] \notin {"none", "done"}, t \notin interrupt,
         current => IsActive(t),
         IsActive(t) /\ ~current => cancelled[t],
         FailIfCurrent(t, current)
  PROVE  Moves(t) \/ Ends(t)
<1> USE DEF IInv, Resume, Keep
<1>0. state[t] # "NEW"
  BY DEF Ownership, NewIsBlank
<1>1. CASE current /\ "FAILED" \in Allowed(state[t])
  <2>1. state[t] \in Working
    BY <1>1, ActiveMayFail
  <2> QED
    BY <1>1, <2>1 DEF FailIfCurrent, Ends
<1>2. CASE ~(current /\ "FAILED" \in Allowed(state[t]))
  <2>1. IsActive(t) => state[t] = "CANCELLING"
    BY <1>2, ActiveMayFail DEF Ownership, CancelledIsCancelling
  <2>2. UNCHANGED <<active, gauge, state>> /\ task' = [task EXCEPT ![t] = "done"]
    BY <1>2 DEF FailIfCurrent
  <2> QED
    BY <1>0, <2>1, <2>2 DEF FailIfCurrent, Moves, Attached, TypeOK, Ownership, KeptHaveTasks
<1> QED
  BY <1>1, <1>2

\* Every step of a task moves it, or ends it and its turn.
LEMMA TaskStepShape ==
  ASSUME IInv, NEW t \in Turn, TaskStep(t)
  PROVE  Moves(t) \/ Ends(t)
<1> USE DEF IInv, Resume, Keep
<1>0. task[t] # "none" => state[t] # "NEW"
  BY DEF Ownership, NewIsBlank
<1>k. KeptHaveTasks
  BY DEF Ownership
<1>1. CASE StartVoice(t)
  BY <1>0, <1>k, <1>1, OwnedIsWorking, ArrowsWork, ActiveMayFail
  DEF StartVoice, Transition, Moves, Attached, TypeOK, KeptHaveTasks, Owned, Ownership,
      CancelledIsCancelling, Working
<1>2. CASE StartSpeech(t)
  BY <1>0, <1>k, <1>2 DEF StartSpeech, Moves, Attached, TypeOK, KeptHaveTasks, Owned
<1>3. CASE Transcribed(t)
  BY <1>0, <1>k, <1>3, OwnedIsWorking DEF Transcribed, Transition, Moves, Attached, TypeOK, KeptHaveTasks, Working
<1>4. CASE Photographed(t)
  BY <1>0, <1>k, <1>4, OwnedIsWorking DEF Photographed, TransitionVia, Moves, Attached, TypeOK, KeptHaveTasks, Working
<1>5. CASE FirstSegment(t)
  BY <1>0, <1>k, <1>5, ArrowsWork DEF FirstSegment, TransitionVia, Moves, Attached, TypeOK, KeptHaveTasks, Working
<1>6. CASE BeforePlayback(t)
  BY <1>0, <1>k, <1>6, OwnedIsWorking DEF BeforePlayback, Transition, Moves, Attached, TypeOK, KeptHaveTasks, Working
<1>7. CASE Complete(t)
  BY <1>7, OwnedIsWorking DEF Complete, Ends, Owned
<1>8. CASE VoiceError(t)
  BY <1>0, <1>k, <1>8 DEF VoiceError, Moves, Attached, TypeOK, KeptHaveTasks
<1>9. CASE Notified(t)
  BY <1>9, FailShape DEF Notified, IsActive
<1>10. CASE SpeechError(t)
  BY <1>10, FailShape DEF SpeechError, IsActive, Owned, TypeOK, KeptHaveTasks
<1>11. CASE VisionError(t)
  BY <1>11, FailShape DEF VisionError, IsActive
<1>12. CASE Interrupted(t)
  BY <1>0, <1>k, <1>12 DEF Interrupted, Moves, Attached, TypeOK, KeptHaveTasks, turnVars, Ownership, InterruptHasCause
<1>13. CASE Unwound(t)
  BY <1>0, <1>k, <1>13 DEF Unwound, Moves, Attached, TypeOK, KeptHaveTasks, Ownership, InterruptHasCause
<1>14. CASE UnwindFails(t)
  <2>1. CASE kind[t] = "voice"
    BY <1>0, <1>k, <1>14, <2>1 DEF UnwindFails, Moves, Attached, TypeOK, KeptHaveTasks
  <2>2. CASE kind[t] = "vision"
    BY <1>14, <2>2, FailShape DEF UnwindFails, IsActive
  <2>3. CASE kind[t] \notin {"voice", "vision"}
    BY <1>14, <2>3, FailShape DEF UnwindFails, IsActive, Owned, TypeOK, KeptHaveTasks
  <2> QED
    BY <2>1, <2>2, <2>3
<1> QED
  BY <1>1, <1>2, <1>3, <1>4, <1>5, <1>6, <1>7, <1>8, <1>9, <1>10, <1>11, <1>12, <1>13, <1>14
  DEF TaskStep


\* So does the end of a microphone stream.
LEMMA StreamEndShape ==
  ASSUME IInv, NEW t \in Turn, Submit(t) \/ FailCapture(t) \/ DropCapture(t)
  PROVE  Moves(t) \/ Ends(t)
<1> USE DEF IInv, Resume
<1>0. state[t] # "NEW" /\ t \notin interrupt
  BY DEF Ownership, NewIsBlank, Submit, FailCapture, DropCapture, InterruptHasCause
<1>1. CASE Submit(t)
  <2> DEFINE kept == Append(turnTasks, t)
  <2>1. kept \in Seq(Turn) /\ kept # <<>>
    BY AppendProperties DEF TypeOK
  <2>2. Head(kept) \in Turn /\ Tail(kept) \in Seq(Turn)
    BY <2>1, HeadTailProperties
  <2>3. \A i \in 1..Len(kept) : kept[i] = t \/ task[kept[i]] # "none"
    BY AppendProperties DEF TypeOK, Ownership, KeptHaveTasks
  <2>4. task' = [task EXCEPT ![t] = "queued"]
    BY <1>1 DEF Submit
  <2>5. turnTasks' \in Seq(Turn) /\ KeptHaveTasks'
    <3>1. \A i \in 1..Len(kept) : task'[kept[i]] # "none"
      BY <2>1, <2>3, <2>4 DEF TypeOK
    <3>2. \A i \in 1..Len(Tail(kept)) : task'[Tail(kept)[i]] # "none"
      BY <2>1, <3>1, HeadTailProperties
    <3>3. turnTasks' \in {kept, Tail(kept)}
      BY <1>1 DEF Submit
    <3> QED
      BY <2>1, <2>2, <3>1, <3>2, <3>3 DEF KeptHaveTasks
  <2>6. Head(kept) = t \/ task[Head(kept)] # "none"
    <3>1. Head(kept) = kept[1] /\ Len(kept) >= 1
      BY <2>1
    <3> QED
      BY <2>1, <2>3, <3>1
  <2>7. \/ UNCHANGED <<interrupt, orphaned>>
        \/ /\ Head(kept) # t /\ task[Head(kept)] \notin {"none", "done"}
           /\ interrupt' = interrupt \cup {Head(kept)}
           /\ orphaned' = orphaned \cup {Head(kept)}
    BY <1>1, <2>6 DEF Submit
  <2>8. task[Head(kept)] # "none" => state[Head(kept)] # "NEW"
    BY <2>2 DEF Ownership, NewIsBlank
  <2>9. UNCHANGED <<active, gauge, state, cancelled, deviceOf, kind, call>>
    BY <1>1 DEF Submit, turnVars
  <2>10. task[t] = "none" /\ kind[t] = "voice"
    BY <1>1 DEF Submit
  <2> HIDE DEF kept
  <2> QED
    BY <1>0, <2>2, <2>4, <2>5, <2>7, <2>8, <2>9, <2>10 DEF Moves, Attached, TypeOK
<1>2. CASE FailCapture(t)
  <2>1. CASE IsActive(t) /\ "FAILED" \in Allowed(state[t])
    BY <1>0, <1>2, <2>1, ActiveMayFail DEF FailCapture, Ends
  <2>2. CASE ~(IsActive(t) /\ "FAILED" \in Allowed(state[t]))
    <3>1. IsActive(t) => state[t] = "CANCELLING"
      BY <2>2, ActiveMayFail
    <3> QED
      BY <1>0, <1>2, <2>2, <3>1
      DEF FailCapture, Moves, Attached, TypeOK, Ownership, KeptHaveTasks
  <2> QED
    BY <2>1, <2>2
<1>3. CASE DropCapture(t)
  BY <1>0, <1>3 DEF DropCapture, Moves, Attached, TypeOK, turnVars, Ownership, KeptHaveTasks
<1> QED
  BY <1>1, <1>2, <1>3

-----------------------------------------------------------------------------
(***************************************************************************)
(* Cancellation.                                                           *)
(***************************************************************************)
\* Marking a turn keeps the slots; a turn without a task is released at once.
LEMMA CancelPreserves ==
  ASSUME IInv, NEW c \in Call, NEW t \in Turn, Cancel(c, t)
  PROVE  IInv'
<1> USE DEF IInv, Ownership
<1>0. deviceOf[t] \in Device /\ state[t] \notin {"NEW", "FAILED", "COMPLETED"}
  BY TurnAssumption DEF Cancel, IsActive, SlotsConsistent
<1>1. TypeOK'
  BY <1>0 DEF Cancel, TypeOK, Release
<1>2. SlotsConsistent'
  BY TurnAssumption DEF Cancel, TypeOK, SlotsConsistent, Release, IsActive
<1>3. NewIsBlank' /\ BegunHasDevice'
  BY <1>0 DEF Cancel, TypeOK, NewIsBlank, BegunHasDevice
<1>4. CancelledIsCancelling'
  BY DEF Cancel, TypeOK, CancelledIsCancelling
<1>5. InterruptHasCause'
  BY DEF Cancel, TypeOK, InterruptHasCause, Attached
<1>6. CallsWaitForTasks'
  BY DEF Cancel, TypeOK, CallsWaitForTasks, Attached
<1>7. AttachedIsActive'
  BY TurnAssumption
  DEF Cancel, TypeOK, SlotsConsistent, AttachedIsActive, Attached, IsActive, Release
<1>8. ActiveTurnHasOwner'
  BY TurnAssumption
  DEF Cancel, TypeOK, SlotsConsistent, ActiveTurnHasOwner, IsActive, Release
<1>9. GaugeExact' /\ KeptHaveTasks'
  BY GaugeAfterRelease DEF Cancel, GaugeExact, KeptHaveTasks
<1> QED
  BY <1>1, <1>2, <1>3, <1>4, <1>5, <1>6, <1>7, <1>8, <1>9

\* An interrupted canceller tells the task once more and waits on.
LEMMA InterruptPreserves ==
  ASSUME IInv, NEW c \in Call, CancelInterrupted(c)
  PROVE  IInv'
<1> USE DEF IInv, Ownership
<1>0. PICK t \in Turn :
        /\ call[c] = t /\ task[t] # "done" /\ interrupt' = interrupt \cup {t}
        /\ UNCHANGED <<active, gauge, turnVars, task, turnTasks, call, orphaned>>
  BY DEF CancelInterrupted
<1>1. state[t] = "CANCELLING" /\ Attached(t)
  BY <1>0, TurnAssumption DEF CallsWaitForTasks
<1>2. InterruptHasCause'
  BY <1>0, <1>1 DEF InterruptHasCause, Attached, turnVars
<1> QED
  BY <1>0, <1>2
  DEF TypeOK, SlotsConsistent, NewIsBlank, BegunHasDevice, CancelledIsCancelling, KeptHaveTasks,
      CallsWaitForTasks, AttachedIsActive, Attached, IsActive, ActiveTurnHasOwner, GaugeExact,
      turnVars

\* The finally block of a cancellation: only the turn it cancelled leaves, only from
\* its own device, and only once.
LEMMA ReleasePreserves ==
  ASSUME IInv, NEW c \in Call, CancelReturns(c)
  PROVE  IInv'
<1> USE DEF IInv, Ownership
<1>0. PICK t \in Turn :
        /\ call[c] = t
        /\ ReleaseIfCurrent(t)
        /\ call' = [call EXCEPT ![c] = NoTurn]
        /\ task[t] = "done"
        /\ UNCHANGED <<state, cancelled, deviceOf, kind, task, interrupt, turnTasks, orphaned>>
  BY DEF CancelReturns, turnVars, taskVars
<1>1. state[t] = "CANCELLING"
  BY <1>0, TurnAssumption DEF CallsWaitForTasks
<1>2. IsActive(t) => deviceOf[t] \in Device
  BY TurnAssumption DEF IsActive, SlotsConsistent
<1>3. TypeOK'
  BY <1>0, <1>2 DEF TypeOK, ReleaseIfCurrent, Release
<1>4. SlotsConsistent'
  BY <1>0, TurnAssumption DEF TypeOK, SlotsConsistent, ReleaseIfCurrent, Release, IsActive
<1>5. NewIsBlank' /\ BegunHasDevice' /\ CancelledIsCancelling'
  BY <1>0, <1>1 DEF TypeOK, NewIsBlank, BegunHasDevice, CancelledIsCancelling
<1>6. InterruptHasCause'
  BY <1>0, <1>1 DEF TypeOK, InterruptHasCause, Attached
<1>7. CallsWaitForTasks'
  BY <1>0, <1>1 DEF TypeOK, CallsWaitForTasks, Attached
<1>8. AttachedIsActive'
  BY <1>0, <1>1, TurnAssumption
  DEF TypeOK, SlotsConsistent, AttachedIsActive, Attached, IsActive, ReleaseIfCurrent, Release
<1>9. ActiveTurnHasOwner'
  BY <1>0, <1>1, TurnAssumption
  DEF TypeOK, SlotsConsistent, ActiveTurnHasOwner, IsActive, ReleaseIfCurrent, Release
<1>10. GaugeExact' /\ KeptHaveTasks'
  BY <1>0, GaugeAfterRelease DEF ReleaseIfCurrent, GaugeExact, KeptHaveTasks
<1> QED
  BY <1>3, <1>4, <1>5, <1>6, <1>7, <1>8, <1>9, <1>10


-----------------------------------------------------------------------------
(***************************************************************************)
(* The theorems.                                                           *)
(***************************************************************************)
\* The initial state satisfies the inductive invariant.
LEMMA InitEstablishes ==
  Init => IInv
<1> SUFFICES ASSUME Init PROVE IInv
  OBVIOUS
<1> USE DEF Init
<1>1. TypeOK
  BY DEF TypeOK
<1>2. Ownership
  BY DEF Ownership, SlotsConsistent, NewIsBlank, BegunHasDevice, CancelledIsCancelling,
     InterruptHasCause, KeptHaveTasks, CallsWaitForTasks, AttachedIsActive, Attached,
     ActiveTurnHasOwner
<1>3. {d \in Device : active[d] # NoTurn} = {}
  OBVIOUS
<1>4. GaugeExact
  BY <1>3, FS_EmptySet DEF GaugeExact
<1> QED
  BY <1>1, <1>2, <1>4 DEF IInv

\* Every step preserves it.
LEMMA NextPreserves ==
  IInv /\ [Next]_vars => IInv'
<1> SUFFICES ASSUME IInv, [Next]_vars PROVE IInv'
  OBVIOUS
<1>1. ASSUME NEW d \in Device, NEW t \in Turn, BeginVoice(d, t) PROVE IInv'
  BY <1>1, BeginPreserves DEF BeginVoice, Working
<1>2. ASSUME NEW d \in Device, NEW t \in Turn, BeginSpeech(d, t) PROVE IInv'
  BY <1>2, BeginPreserves DEF BeginSpeech, Working
<1>3. ASSUME NEW d \in Device, NEW t \in Turn, BeginVision(d, t) PROVE IInv'
  BY <1>3, BeginPreserves DEF BeginVision, Working
<1>4. ASSUME NEW t \in Turn, Submit(t) \/ FailCapture(t) \/ DropCapture(t) PROVE IInv'
  BY <1>4, StreamEndShape, MovesPreserve, EndsPreserve
<1>5. ASSUME NEW t \in Turn, TaskStep(t) PROVE IInv'
  BY <1>5, TaskStepShape, MovesPreserve, EndsPreserve
<1>6. ASSUME NEW c \in Call, NEW t \in Turn, Cancel(c, t) PROVE IInv'
  BY <1>6, CancelPreserves
<1>7. ASSUME NEW c \in Call, CancelReturns(c) \/ CancelInterrupted(c) PROVE IInv'
  BY <1>7, ReleasePreserves, InterruptPreserves
<1>8. CASE UNCHANGED vars
  BY <1>8 DEF vars, IInv, TypeOK, Ownership, GaugeExact, SlotsConsistent, NewIsBlank,
     BegunHasDevice, CancelledIsCancelling, InterruptHasCause, KeptHaveTasks,
     CallsWaitForTasks, AttachedIsActive, Attached, IsActive, ActiveTurnHasOwner
<1> QED
  BY <1>1, <1>2, <1>3, <1>4, <1>5, <1>6, <1>7, <1>8 DEF Next

\* IInv holds in every reachable state: begin, a task's step, the end of a stream and
\* every step of a cancellation preserve the ownership of the devices.
THEOREM Invariance == Spec => []IInv
<1> QED
  BY InitEstablishes, NextPreserves, PTL DEF Spec

\* Type correctness.
THEOREM TypeCorrect == Spec => []TypeOK
<1>1. IInv => TypeOK
  BY DEF IInv
<1> QED
  BY <1>1, Invariance, PTL

\* The active_turns metric counts the devices that have a turn, for any interleaving of
\* completions, failures and concurrent cancellations.
THEOREM GaugeCorrect == Spec => []GaugeExact
<1>1. IInv => GaugeExact
  BY DEF IInv
<1> QED
  BY <1>1, Invariance, PTL

\* No device is left busy with nobody to free it.
THEOREM OwnerExists == Spec => []ActiveTurnHasOwner
<1>1. IInv => ActiveTurnHasOwner
  BY DEF IInv, Ownership
<1> QED
  BY <1>1, Invariance, PTL

\* Tasks of two turns never run for one device.
THEOREM NoTwoTasksPerDevice == Spec => []NoOverlap
<1>1. IInv => NoOverlap
  <2> SUFFICES ASSUME IInv, NEW t \in Turn, NEW u \in Turn,
                      t # u, Running(t), Running(u)
               PROVE  deviceOf[t] # deviceOf[u]
    BY DEF NoOverlap
  <2>1. IsActive(t) /\ IsActive(u)
    BY DEF IInv, Ownership, AttachedIsActive, Running
  <2>2. active[deviceOf[t]] = t /\ active[deviceOf[u]] = u
    BY <2>1, TurnAssumption DEF IInv, Ownership, SlotsConsistent, IsActive
  <2> QED
    BY <2>2
<1> QED
  BY <1>1, Invariance, PTL


-----------------------------------------------------------------------------
(***************************************************************************)
(* What a step may never do.                                               *)
(***************************************************************************)
Over == {"CANCELLING", "FAILED", "COMPLETED"}

KeepsOutcome == \A t \in Turn : state[t] \in Over => state'[t] = state[t]

\* No shape of step touches the state of a turn that is over.
LEMMA StepKeepsOutcome ==
  IInv /\ [Next]_vars => KeepsOutcome
<1> SUFFICES ASSUME IInv, [Next]_vars PROVE KeepsOutcome
  OBVIOUS
<1> USE DEF IInv, Over
<1>1. ASSUME NEW t \in Turn, Moves(t) PROVE KeepsOutcome
  BY <1>1 DEF Moves, KeepsOutcome, Working, TypeOK
<1>2. ASSUME NEW t \in Turn, Ends(t) PROVE KeepsOutcome
  BY <1>2 DEF Ends, KeepsOutcome, Working, TypeOK
<1>3. ASSUME NEW d \in Device, NEW t \in Turn, NEW k, NEW s, NEW p, Begin(d, t, k, s, p)
      PROVE  KeepsOutcome
  BY <1>3 DEF Begin, KeepsOutcome, TypeOK
<1>4. ASSUME NEW c \in Call, NEW t \in Turn, Cancel(c, t) PROVE KeepsOutcome
  BY <1>4, ActiveMayFail DEF Cancel, KeepsOutcome, Working, TypeOK
<1>5. ASSUME NEW c \in Call, CancelReturns(c) \/ CancelInterrupted(c) PROVE KeepsOutcome
  BY <1>5 DEF CancelReturns, CancelInterrupted, KeepsOutcome, turnVars
<1>6. CASE UNCHANGED vars
  BY <1>6 DEF vars, KeepsOutcome
<1> QED
  BY <1>1, <1>2, <1>3, <1>4, <1>5, <1>6, TaskStepShape, StreamEndShape
  DEF Next, BeginVoice, BeginSpeech, BeginVision

\* Late results are harmless: a turn that is cancelled, failed or completed keeps that
\* state whatever its task or another cancellation does afterwards.
THEOREM LateResultsAreHarmless == Spec => NoLateTransition
<1>1. IInv /\ [Next]_vars =>
        [\A t \in Turn :
           state[t] \in {"CANCELLING", "FAILED", "COMPLETED"} => state'[t] = state[t]]_vars
  BY StepKeepsOutcome DEF KeepsOutcome, Over
<1> QED
  BY <1>1, Invariance, PTL DEF Spec, NoLateTransition

\* A device is given up by a turn whose task does not run.
HandsOver ==
  \A d \in Device :
    active'[d] # active[d] =>
      \/ active[d] = NoTurn
      \/ /\ active'[d] = NoTurn
         /\ task'[active[d]] \in {"none", "queued", "done"}

\* A release takes the device of its own turn only.
LEMMA ReleaseHandsOver ==
  ASSUME IInv, NEW t \in Turn, IsActive(t), Release(t),
         task'[t] \in {"none", "queued", "done"}
  PROVE  HandsOver
<1>1. active[deviceOf[t]] = t /\ active' = [active EXCEPT ![deviceOf[t]] = NoTurn]
  BY TurnAssumption DEF IInv, Ownership, SlotsConsistent, IsActive, Release
<1> QED
  BY <1>1 DEF IInv, TypeOK, HandsOver

\* No shape of step hands a device over otherwise.
LEMMA StepHandsOver ==
  IInv /\ [Next]_vars => HandsOver
<1> SUFFICES ASSUME IInv, [Next]_vars PROVE HandsOver
  OBVIOUS
<1> USE DEF IInv
<1>1. ASSUME NEW t \in Turn, Moves(t) PROVE HandsOver
  BY <1>1 DEF Moves, HandsOver
<1>2. ASSUME NEW t \in Turn, Ends(t) PROVE HandsOver
  BY <1>2, ReleaseHandsOver DEF Ends, TypeOK
<1>3. ASSUME NEW d \in Device, NEW t \in Turn, NEW k, NEW s, NEW p, Begin(d, t, k, s, p)
      PROVE  HandsOver
  BY <1>3 DEF Begin, HandsOver, TypeOK
<1>4. ASSUME NEW c \in Call, NEW t \in Turn, Cancel(c, t) PROVE HandsOver
  <2>1. CASE Attached(t) BY <1>4, <2>1 DEF Cancel, HandsOver
  <2>2. CASE ~Attached(t)
    <3>1. task'[t] \in {"none", "queued", "done"}
      BY <1>4, <2>2 DEF Cancel, Attached, TypeOK
    <3> QED BY <1>4, <2>2, <3>1, ReleaseHandsOver DEF Cancel
  <2> QED BY <2>1, <2>2
<1>5. ASSUME NEW c \in Call, CancelReturns(c) PROVE HandsOver
  <2> PICK t \in Turn : ReleaseIfCurrent(t) /\ task'[t] = "done"
    BY <1>5 DEF CancelReturns, taskVars
  <2>1. CASE IsActive(t) BY <2>1, ReleaseHandsOver DEF ReleaseIfCurrent
  <2>2. CASE ~IsActive(t) BY <2>2 DEF ReleaseIfCurrent, HandsOver
  <2> QED BY <2>1, <2>2
<1>7. ASSUME NEW c \in Call, CancelInterrupted(c) PROVE HandsOver
  BY <1>7 DEF CancelInterrupted, HandsOver
<1>6. CASE UNCHANGED vars
  BY <1>6 DEF vars, HandsOver
<1> QED
  BY <1>1, <1>2, <1>3, <1>4, <1>5, <1>6, <1>7, TaskStepShape, StreamEndShape
  DEF Next, BeginVoice, BeginSpeech, BeginVision

\* A device changes hands through an empty slot, after the task of the turn that gives it
\* up has ended (complete, fail, the finally block of _cancel_owned).
THEOREM DevicesHandedOver == Spec => HandOver
<1>1. IInv /\ [Next]_vars =>
        [\A d \in Device :
           active'[d] # active[d] =>
             \/ active[d] = NoTurn
             \/ /\ active'[d] = NoTurn
                /\ task'[active[d]] \in {"none", "queued", "done"}]_vars
  BY StepHandsOver DEF HandsOver
<1> QED
  BY <1>1, Invariance, PTL DEF Spec, HandOver

-----------------------------------------------------------------------------
(***************************************************************************)
(* Refinement: the coordinator implements TurnSlot.                        *)
(***************************************************************************)
\* Before any turn begins every slot is free.
LEMMA SlotInitMaps ==
  Init => Slot!SlotInit
  BY DEF Init, Slot!SlotInit, SlotOutcome

\* A task that moves is invisible.
LEMMA MovesStutter ==
  ASSUME IInv, NEW t \in Turn, Moves(t)
  PROVE  UNCHANGED <<active, SlotOutcome>>
<1>1. \A u \in Turn : IsActive(u)' <=> IsActive(u)
  BY DEF Moves, IsActive
<1>2. \A u \in Turn : \/ state'[u] = state[u]
                      \/ {state[u], state'[u]} \subseteq Working
  BY DEF Moves, IInv, TypeOK
<1>3. \A u \in Turn : SlotOutcome[u]' = SlotOutcome[u]
  BY <1>1, <1>2 DEF SlotOutcome, Working
<1> QED
  BY <1>3 DEF Moves, SlotOutcome


\* Releasing a turn's own slot makes that turn, and no other, inactive.
LEMMA ReleaseClears ==
  ASSUME TypeOK, SlotsConsistent, NEW t \in Turn, IsActive(t), Release(t)
  PROVE  /\ deviceOf[t] \in Device /\ active[deviceOf[t]] = t
         /\ active' = [active EXCEPT ![deviceOf[t]] = NoTurn]
         /\ ~IsActive(t)'
         /\ \A u \in Turn : u # t => (IsActive(u)' <=> IsActive(u))
<1>1. deviceOf[t] \in Device /\ active[deviceOf[t]] = t
  BY TurnAssumption DEF SlotsConsistent, IsActive
<1>2. active' = [active EXCEPT ![deviceOf[t]] = NoTurn]
  BY DEF Release
<1>3. ~IsActive(t)'
  BY <1>1, <1>2, TurnAssumption DEF TypeOK, SlotsConsistent, IsActive
<1>4. \A u \in Turn : u # t => (IsActive(u)' <=> IsActive(u))
  BY <1>1, <1>2, TurnAssumption DEF TypeOK, IsActive
<1> QED
  BY <1>1, <1>2, <1>3, <1>4

\* A turn that ends leaves its slot as completed or failed.
LEMMA EndsLeaves ==
  ASSUME IInv, NEW t \in Turn, Ends(t)
  PROVE  Slot!SlotNext
<1> USE DEF IInv, Ownership
<1>1. PICK s \in {"COMPLETED", "FAILED"} : state' = [state EXCEPT ![t] = s]
  BY DEF Ends
<1>2. /\ deviceOf[t] \in Device /\ active[deviceOf[t]] = t
      /\ active' = [active EXCEPT ![deviceOf[t]] = NoTurn]
      /\ \A u \in Turn : u # t => (IsActive(u)' <=> IsActive(u))
  BY ReleaseClears DEF Ends
<1> DEFINE result == IF s = "COMPLETED" THEN "completed" ELSE "failed"
<1>3. SlotOutcome[t] = "open"
  BY DEF Ends, SlotOutcome, Working
<1>4. SlotOutcome' = [SlotOutcome EXCEPT ![t] = result]
  BY <1>1, <1>2 DEF SlotOutcome, TypeOK
<1>5. Slot!Leave(deviceOf[t], t, result)
  BY <1>2, <1>3, <1>4 DEF Slot!Leave
<1> QED
  BY <1>2, <1>5 DEF Slot!SlotNext

\* A turn that begins opens a free slot.
LEMMA BeginOpens ==
  ASSUME IInv, NEW d \in Device, NEW t \in Turn, NEW k \in Kind, NEW s \in Working, NEW p,
         Begin(d, t, k, s, p)
  PROVE  Slot!SlotNext
<1> USE DEF IInv, Ownership
<1>1. /\ active[d] = NoTurn /\ active' = [active EXCEPT ![d] = t]
      /\ state[t] = "NEW" /\ state' = [state EXCEPT ![t] = s]
  BY DEF Begin
<1>2. \A u \in Turn : u # t => (IsActive(u)' <=> IsActive(u))
  BY <1>1, TurnAssumption DEF IsActive, TypeOK
<1>3. SlotOutcome[t] = "idle"
  BY <1>1 DEF SlotOutcome
<1>4. SlotOutcome' = [SlotOutcome EXCEPT ![t] = "open"]
  BY <1>1, <1>2 DEF SlotOutcome, TypeOK, Working
<1>5. Slot!Open(d, t)
  BY <1>1, <1>3, <1>4 DEF Slot!Open
<1> QED
  BY <1>5 DEF Slot!SlotNext

\* A cancellation closes an open turn, repeats itself on a closing one, and lets a turn
\* without a task leave at once.
LEMMA CancelCloses ==
  ASSUME IInv, NEW c \in Call, NEW t \in Turn, Cancel(c, t)
  PROVE  Slot!SlotNext \/ UNCHANGED <<active, SlotOutcome>>
<1> USE DEF IInv, Ownership
<1>1. IsActive(t) /\ state' = [state EXCEPT ![t] = "CANCELLING"]
  BY DEF Cancel
<1>2. deviceOf[t] \in Device /\ active[deviceOf[t]] = t
  BY <1>1, TurnAssumption DEF SlotsConsistent, IsActive
<1>3. SlotOutcome[t] = IF state[t] = "CANCELLING" THEN "closing" ELSE "open"
  BY <1>1, ActiveMayFail DEF SlotOutcome, Working
<1>4. CASE Attached(t)
  <2>1. active' = active /\ \A u \in Turn : IsActive(u)' <=> IsActive(u)
    BY <1>4 DEF Cancel, IsActive
  <2>2. SlotOutcome' = [SlotOutcome EXCEPT ![t] = "closing"]
    BY <1>1, <2>1 DEF SlotOutcome, TypeOK
  <2>3. CASE state[t] = "CANCELLING"
    <3>1. SlotOutcome' = SlotOutcome
      BY <1>3, <2>2, <2>3 DEF SlotOutcome
    <3> QED
      BY <2>1, <3>1
  <2>4. CASE state[t] # "CANCELLING"
    <3>1. Slot!Close(deviceOf[t], t)
      BY <1>2, <1>3, <2>1, <2>2, <2>4 DEF Slot!Close
    <3> QED
      BY <1>2, <3>1 DEF Slot!SlotNext
  <2> QED
    BY <2>3, <2>4
<1>5. CASE ~Attached(t)
  <2>1. /\ active' = [active EXCEPT ![deviceOf[t]] = NoTurn]
        /\ ~IsActive(t)'
        /\ \A u \in Turn : u # t => (IsActive(u)' <=> IsActive(u))
    BY <1>1, <1>5, ReleaseClears DEF Cancel
  <2>2. SlotOutcome' = [SlotOutcome EXCEPT ![t] = "cancelled"]
    BY <1>1, <2>1 DEF SlotOutcome, TypeOK
  <2>3. Slot!Leave(deviceOf[t], t, "cancelled")
    BY <1>2, <1>3, <2>1, <2>2 DEF Slot!Leave
  <2> QED
    BY <1>2, <2>3 DEF Slot!SlotNext
<1> QED
  BY <1>4, <1>5

\* The first cancellation that returns lets the turn leave; a later one changes nothing.
LEMMA ReleaseLeaves ==
  ASSUME IInv, NEW c \in Call, CancelReturns(c)
  PROVE  Slot!SlotNext \/ UNCHANGED <<active, SlotOutcome>>
<1> USE DEF IInv, Ownership
<1>1. PICK t \in Turn : call[c] = t /\ ReleaseIfCurrent(t) /\ state' = state
  BY DEF CancelReturns, turnVars
<1>2. state[t] = "CANCELLING"
  BY <1>1, TurnAssumption DEF CallsWaitForTasks
<1>3. CASE IsActive(t)
  <2>1. /\ deviceOf[t] \in Device /\ active[deviceOf[t]] = t
        /\ active' = [active EXCEPT ![deviceOf[t]] = NoTurn]
        /\ ~IsActive(t)'
        /\ \A u \in Turn : u # t => (IsActive(u)' <=> IsActive(u))
    BY <1>1, <1>3, ReleaseClears DEF ReleaseIfCurrent
  <2>2. SlotOutcome[t] = "closing"
    BY <1>2, <1>3 DEF SlotOutcome
  <2>3. SlotOutcome' = [SlotOutcome EXCEPT ![t] = "cancelled"]
    BY <1>1, <1>2, <2>1 DEF SlotOutcome
  <2>4. Slot!Leave(deviceOf[t], t, "cancelled")
    BY <2>1, <2>2, <2>3 DEF Slot!Leave
  <2> QED
    BY <2>1, <2>4 DEF Slot!SlotNext
<1>4. CASE ~IsActive(t)
  <2>1. active' = active /\ \A u \in Turn : IsActive(u)' <=> IsActive(u)
    BY <1>1, <1>4 DEF ReleaseIfCurrent, IsActive
  <2>2. SlotOutcome' = SlotOutcome
    BY <1>1, <2>1 DEF SlotOutcome
  <2> QED
    BY <2>1, <2>2
<1> QED
  BY <1>3, <1>4

\* Every step of the coordinator is a step of the slots, or leaves them alone.
LEMMA StepMaps ==
  IInv /\ [Next]_vars => [Slot!SlotNext]_<<active, SlotOutcome>>
<1> SUFFICES ASSUME IInv, [Next]_vars
             PROVE  Slot!SlotNext \/ UNCHANGED <<active, SlotOutcome>>
  OBVIOUS
<1>1. ASSUME NEW d \in Device, NEW t \in Turn,
             BeginVoice(d, t) \/ BeginSpeech(d, t) \/ BeginVision(d, t)
      PROVE  Slot!SlotNext
  BY <1>1, BeginOpens DEF BeginVoice, BeginSpeech, BeginVision, Working
<1>2. ASSUME NEW t \in Turn, Moves(t) \/ Ends(t)
      PROVE  Slot!SlotNext \/ UNCHANGED <<active, SlotOutcome>>
  BY <1>2, MovesStutter, EndsLeaves
<1>3. ASSUME NEW c \in Call, NEW t \in Turn, Cancel(c, t)
      PROVE  Slot!SlotNext \/ UNCHANGED <<active, SlotOutcome>>
  BY <1>3, CancelCloses
<1>4. ASSUME NEW c \in Call, CancelReturns(c) \/ CancelInterrupted(c)
      PROVE  Slot!SlotNext \/ UNCHANGED <<active, SlotOutcome>>
  BY <1>4, ReleaseLeaves DEF CancelInterrupted, turnVars, SlotOutcome, IsActive
<1>5. CASE UNCHANGED vars
  BY <1>5 DEF vars, SlotOutcome, IsActive
<1> QED
  BY <1>1, <1>2, <1>3, <1>4, <1>5, TaskStepShape, StreamEndShape DEF Next

\* Every behaviour of the coordinator, its services and its cancellations is a
\* behaviour of the slot specification.
THEOREM Refinement == Spec => ImplementsSlot
<1> QED
  BY SlotInitMaps, StepMaps, Invariance, PTL
  DEF Spec, ImplementsSlot, Slot!SlotSpec, Slot!slotVars

=============================================================================
