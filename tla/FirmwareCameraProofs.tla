------------------------ MODULE FirmwareCameraProofs ------------------------
(***************************************************************************)
(* Proofs about FirmwareCamera, for any number of captures, notices and    *)
(* attempts. A step of the commands, of update and of the worker each      *)
(* keep the inductive invariant; the worker's steps all have one shape.    *)
(***************************************************************************)
EXTENDS FirmwareCamera, FiniteSetTheorems, TLAPS

(***************************************************************************)
(* The inductive invariant.                                                *)
(***************************************************************************)
\* A capture that waits, runs or has a result is an accepted one.
CaptureIsAccepted ==
  /\ pending => current # 0
  /\ phase # "off" \/ ready => job # 0

\* What is uploaded was put on the wire.
ImageIsSent == phase \in {"upload", "lookup", "retry"} => job \in sent

\* A result stands for an image the Bridge has.
ResultIsHonest == result => job \in saved

\* A capture that is busy or has ended has a place in the queue of notices.
NoticeHasRoom == current # 0 \/ ready => Cardinality(notices) < NoticeLimit

CameraInv ==
  /\ CaptureIsAccepted
  /\ ImageIsSent
  /\ ResultIsHonest
  /\ NoticeHasRoom
  /\ WorkerHoldsGate
  /\ SuccessIsSaved

IInv == TypeOK /\ CameraInv

\* What every step of the worker leaves alone, and what it may change.
Works ==
  /\ phase # "off"
  /\ phase' \in {"query", "capture", "upload", "lookup", "retry", "publish"}
  /\ attempt' \in 0..Attempts
  /\ result' \in BOOLEAN
  /\ sent' \in {sent, sent \cup {job}}
  /\ saved' \in {saved, saved \cup {job}}
  /\ saved' # saved => job \in sent /\ sent' = sent
  /\ result' => result \/ job \in saved'
  /\ phase' \in {"upload", "lookup", "retry"} => job \in sent'
  /\ UNCHANGED <<gateVars, io, joinable, at, job, ready, notices>>

\* At first nothing is busy.
LEMMA InitInv == Init => IInv
<1> SUFFICES ASSUME Init PROVE IInv OBVIOUS
<1>1. IsFiniteSet(notices) /\ Cardinality(notices) = 0 BY FS_EmptySet DEF Init
<1>2. TypeOK
  <2>1. /\ pending \in BOOLEAN /\ joinable \in BOOLEAN
        /\ ready \in BOOLEAN /\ result \in BOOLEAN
    BY Zenon DEF Init
  <2> QED BY <1>1, <2>1, CameraAssumption DEF Init, TypeOK
<1>3. CameraInv
  BY DEF Init, CameraInv, CaptureIsAccepted, ImageIsSent, ResultIsHonest, NoticeHasRoom,
         WorkerHoldsGate, SuccessIsSaved
<1> QED BY <1>2, <1>3 DEF IInv

\* A command keeps the invariant.
LEMMA CommandsKeep == ASSUME IInv, Start \/ Cancel \/ ChangeUrl PROVE IInv'
<1> USE CameraAssumption DEF IInv, CameraInv, TypeOK, workerVars, gateVars, imageVars
<1>1. CASE Start
  <2>1. phase = "off" BY <1>1 DEF Start, WorkerHoldsGate, CaptureIsAccepted
  <2> QED
    BY <1>1, <2>1
    DEF Start, CaptureIsAccepted, ImageIsSent, ResultIsHonest, NoticeHasRoom, WorkerHoldsGate,
        SuccessIsSaved
<1>2. CASE Cancel
  <2>1. TypeOK'
    <3>1. pending' \in BOOLEAN BY <1>2, Zenon DEF Cancel, FreeGate, IInv, TypeOK
    <3> QED BY <1>2, <3>1 DEF Cancel, FreeGate
  <2>2. WorkerHoldsGate' BY <1>2 DEF Cancel, FreeGate, WorkerHoldsGate
  <2>3. CaptureIsAccepted' /\ NoticeHasRoom'
    BY <1>2 DEF Cancel, FreeGate, CaptureIsAccepted, NoticeHasRoom
  <2> QED BY <1>2, <2>1, <2>2, <2>3 DEF Cancel, ImageIsSent, ResultIsHonest, SuccessIsSaved
<1>3. CASE ChangeUrl
  BY <1>3
  DEF ChangeUrl, CaptureIsAccepted, ImageIsSent, ResultIsHonest, NoticeHasRoom, WorkerHoldsGate,
      SuccessIsSaved
<1> QED BY <1>1, <1>2, <1>3

\* So does a notice that is settled.
LEMMA SettleKeeps == ASSUME IInv, NEW notice \in notices, Settle(notice) PROVE IInv'
<1>1. IsFiniteSet(notices') /\ Cardinality(notices') = Cardinality(notices) - 1
  BY FS_RemoveElement DEF Settle, IInv, TypeOK
<1>2. Cardinality(notices) \in Nat BY FS_CardinalityType DEF IInv, TypeOK
<1> QED
  BY <1>1, <1>2, CameraAssumption
  DEF Settle, IInv, TypeOK, CameraInv, CaptureIsAccepted, ImageIsSent, ResultIsHonest,
      NoticeHasRoom, WorkerHoldsGate,
      SuccessIsSaved, gateVars, workerVars, imageVars

\* So does an image that the Bridge stores: it loses none.
LEMMA StoreKeeps == ASSUME IInv, BridgeStores PROVE IInv'
<1>1. saved \subseteq saved' /\ saved' \subseteq 1..Captures
  BY DEF BridgeStores, IInv, TypeOK
<1> QED
  BY <1>1
  DEF BridgeStores, IInv, TypeOK, CameraInv, CaptureIsAccepted, ImageIsSent, ResultIsHonest,
      NoticeHasRoom, WorkerHoldsGate,
      SuccessIsSaved, gateVars, workerVars

\* A result that is collected has its place in the queue, and says what the Bridge has.
LEMMA CollectKeeps == ASSUME IInv, Collect PROVE IInv'
<1> USE CameraAssumption DEF IInv, CameraInv, TypeOK, Collect, FreeGate, workerVars, imageVars
<1> DEFINE new == [id |-> job, ok |-> result]
<1>1. new \in Notice BY DEF Notice, CaptureIsAccepted
<1>2. IsFiniteSet(notices') /\ Cardinality(notices') <= NoticeLimit
  <2>1. Cardinality(notices) < NoticeLimit /\ Cardinality(notices) \in Nat
    BY FS_CardinalityType DEF NoticeHasRoom
  <2>2. /\ IsFiniteSet(notices \cup {new})
        /\ Cardinality(notices \cup {new}) \in {Cardinality(notices), Cardinality(notices) + 1}
    BY FS_AddElement
  <2> QED BY <2>1, <2>2
<1>3. SuccessIsSaved' BY DEF SuccessIsSaved, ResultIsHonest
<1>4. phase = "off" BY DEF WorkerHoldsGate
<1>5. TypeOK'
  <2>1. pending' \in BOOLEAN /\ ready' \in BOOLEAN BY Zenon DEF Collect, FreeGate
  <2> QED BY <1>1, <1>2, <2>1
<1>6. CaptureIsAccepted' /\ ImageIsSent' /\ ResultIsHonest' /\ NoticeHasRoom' /\ WorkerHoldsGate'
  BY <1>4 DEF CaptureIsAccepted, ImageIsSent, ResultIsHonest, NoticeHasRoom, WorkerHoldsGate
<1> QED BY <1>3, <1>5, <1>6

\* The other steps of update keep the invariant.
LEMMA UpdateKeeps ==
  ASSUME IInv, UpdateBegins \/ Launch \/ LaunchFails \/ UpdateEnds
  PROVE  IInv'
<1> USE CameraAssumption DEF IInv, CameraInv, TypeOK, workerVars, gateVars, imageVars, Takes
<1>1. CASE UpdateBegins
  BY <1>1
  DEF UpdateBegins, CaptureIsAccepted, ImageIsSent, ResultIsHonest, NoticeHasRoom, WorkerHoldsGate,
      SuccessIsSaved
<1>2. CASE Launch
  <2>1. TypeOK'
    <3>1. pending' \in BOOLEAN /\ result' \in BOOLEAN BY <1>2, Zenon DEF Launch, Takes
    <3> QED BY <1>2, <3>1 DEF Launch
  <2>2. CaptureIsAccepted' /\ NoticeHasRoom' BY <1>2 DEF Launch, CaptureIsAccepted, NoticeHasRoom
  <2>3. WorkerHoldsGate' BY <1>2 DEF Launch, WorkerHoldsGate
  <2> QED BY <1>2, <2>1, <2>2, <2>3 DEF Launch, ImageIsSent, ResultIsHonest, SuccessIsSaved
<1>3. CASE LaunchFails
  <2>1. TypeOK'
    <3>1. pending' \in BOOLEAN /\ result' \in BOOLEAN BY <1>3, Zenon DEF LaunchFails, Takes
    <3> QED BY <1>3, <3>1 DEF LaunchFails
  <2>2. CaptureIsAccepted' /\ NoticeHasRoom'
    BY <1>3 DEF LaunchFails, CaptureIsAccepted, NoticeHasRoom
  <2>3. WorkerHoldsGate' BY <1>3 DEF LaunchFails, WorkerHoldsGate
  <2> QED BY <1>3, <2>1, <2>2, <2>3
      DEF LaunchFails, ImageIsSent, ResultIsHonest, WorkerHoldsGate, SuccessIsSaved
<1>4. CASE UpdateEnds
  BY <1>4
  DEF UpdateEnds, CaptureIsAccepted, ImageIsSent, ResultIsHonest, NoticeHasRoom, WorkerHoldsGate,
      SuccessIsSaved
<1> QED BY <1>1, <1>2, <1>3, <1>4

\* Every step of a running worker has the shape Works.
LEMMA WorkerWorks == ASSUME IInv, WorkerNext, ~Publish PROVE Works
<1> USE CameraAssumption DEF IInv, TypeOK, CameraInv, ImageIsSent, WorkerIn, Works, imageVars
<1>1. CASE Query BY <1>1 DEF Query
<1>2. CASE CaptureFrame BY <1>2 DEF CaptureFrame
<1>3. CASE Upload BY <1>3 DEF Upload, Ends
<1>4. CASE UploadLost BY <1>4 DEF UploadLost
<1>5. CASE UploadRefused BY <1>5 DEF UploadRefused
<1>6. CASE LookupFinds BY <1>6 DEF LookupFinds, Ends
<1>7. CASE LookupLeavesOpen BY <1>7 DEF LookupLeavesOpen
<1>8. CASE Retry BY <1>8 DEF Retry
<1>9. CASE Fails BY <1>9 DEF Fails, Ends
<1> QED BY <1>1, <1>2, <1>3, <1>4, <1>5, <1>6, <1>7, <1>8, <1>9 DEF WorkerNext

\* So the worker keeps the invariant.
LEMMA WorkerKeeps == ASSUME IInv, WorkerNext PROVE IInv'
<1> USE CameraAssumption DEF IInv, CameraInv, TypeOK, gateVars, imageVars
<1>1. CASE Publish
  BY <1>1
  DEF Publish, CaptureIsAccepted, ImageIsSent, ResultIsHonest, NoticeHasRoom, WorkerHoldsGate,
      SuccessIsSaved
<1>2. CASE ~Publish
  <2>1. Works BY <1>2, WorkerWorks
  <2>2. TypeOK' BY <2>1 DEF Works, CaptureIsAccepted
  <2> QED
    BY <2>1, <2>2
    DEF Works, CaptureIsAccepted, ImageIsSent, ResultIsHonest, NoticeHasRoom, WorkerHoldsGate,
        SuccessIsSaved
<1> QED BY <1>1, <1>2

\* The invariant is inductive.
LEMMA StepInv == IInv /\ [Next]_vars => IInv'
<1> SUFFICES ASSUME IInv, [Next]_vars PROVE IInv' OBVIOUS
<1>1. CASE UNCHANGED vars
  BY <1>1
  DEF vars, gateVars, workerVars, imageVars, IInv, TypeOK, CameraInv, CaptureIsAccepted,
      ImageIsSent, ResultIsHonest,
      NoticeHasRoom, WorkerHoldsGate, SuccessIsSaved
<1>2. CASE Next
  BY <1>2, CommandsKeep, SettleKeeps, CollectKeeps, UpdateKeeps, WorkerKeeps, StoreKeeps
     DEF Next, UpdateNext
<1> QED BY <1>1, <1>2

LEMMA Invariance == Spec => []IInv
  BY InitInv, StepInv, PTL DEF Spec

(***************************************************************************)
(* The theorems.                                                           *)
(***************************************************************************)
\* The variables keep their types, and the queue of notices never overflows: a capture is
\* accepted only with a place for its notice (start, CaptureCompletionQueue::push).
THEOREM TypeCorrect == Spec => []TypeOK
<1>1. IInv => TypeOK BY DEF IInv
<1> QED BY <1>1, Invariance, PTL

\* While a worker runs, its capture holds the gate, however it is cancelled.
THEOREM GateIsHeld == Spec => []WorkerHoldsGate
<1>1. IInv => WorkerHoldsGate BY DEF IInv, CameraInv
<1> QED BY <1>1, Invariance, PTL

\* A capture reported as successful is one whose image the Bridge has.
THEOREM ReportIsTrue == Spec => []SuccessIsSaved
<1>1. IInv => SuccessIsSaved BY DEF IInv, CameraInv
<1> QED BY <1>1, Invariance, PTL
-----------------------------------------------------------------------------
(***************************************************************************)
(* Refinement: the device implements CameraSlot.                           *)
(*                                                                         *)
(* That a stage follows the other needs more than IInv says: what a gate   *)
(* that is busy, a worker that is off and a result that is ready tell of   *)
(* each other.                                                             *)
(***************************************************************************)
\* A capture that waits has no result yet; one that neither waits nor works has one; and a
\* result that is not of the gate's capture is a failure of a launch without a context.
StageInv ==
  /\ pending => job # current
  /\ current # 0 /\ ~pending /\ phase = "off" => ready /\ job = current
  /\ ready /\ job # current => io = "none"
  /\ ready /\ io = "none" => ~result

\* At first there is neither a capture nor a result.
LEMMA InitStage == Init => StageInv
  BY DEF Init, StageInv

\* A command keeps it: a start takes a number no result has.
LEMMA CommandsKeepStage == ASSUME IInv, StageInv, Start \/ Cancel \/ ChangeUrl PROVE StageInv'
<1> USE CameraAssumption DEF IInv, CameraInv, TypeOK, CaptureIsAccepted, WorkerHoldsGate,
                             StageInv,
                             gateVars, workerVars
<1>1. CASE Start BY <1>1 DEF Start
<1>2. CASE Cancel BY <1>2 DEF Cancel, FreeGate
<1>3. CASE ChangeUrl BY <1>3 DEF ChangeUrl
<1> QED BY <1>1, <1>2, <1>3

\* So does update: a launch gives the capture a worker or a result.
LEMMA UpdateKeepsStage == ASSUME IInv, StageInv, UpdateNext PROVE StageInv'
<1> USE CameraAssumption DEF IInv, CameraInv, TypeOK, CaptureIsAccepted, WorkerHoldsGate,
                             StageInv,
                             gateVars, workerVars, Takes
<1>1. CASE UpdateBegins BY <1>1 DEF UpdateBegins
<1>2. CASE Collect BY <1>2 DEF Collect, FreeGate
<1>3. CASE Launch BY <1>3 DEF Launch
<1>4. CASE LaunchFails BY <1>4 DEF LaunchFails
<1>5. CASE UpdateEnds BY <1>5 DEF UpdateEnds
<1> QED BY <1>1, <1>2, <1>3, <1>4, <1>5 DEF UpdateNext

\* So does the worker, whose capture holds the gate until it publishes.
LEMMA WorkerKeepsStage == ASSUME IInv, StageInv, WorkerNext PROVE StageInv'
<1> USE DEF IInv, CameraInv, CaptureIsAccepted, WorkerHoldsGate, StageInv, gateVars
<1>1. CASE Publish BY <1>1 DEF Publish
<1>2. CASE ~Publish BY <1>2, WorkerWorks DEF Works
<1> QED BY <1>1, <1>2

\* The two invariants together are inductive.
LEMMA StepStage == IInv /\ StageInv /\ [Next]_vars => StageInv'
<1> SUFFICES ASSUME IInv, StageInv, [Next]_vars PROVE StageInv' OBVIOUS
<1>1. ASSUME NEW notice \in notices, Settle(notice) PROVE StageInv'
  BY <1>1 DEF Settle, StageInv, gateVars, workerVars
<1>2. CASE UNCHANGED vars BY <1>2 DEF vars, gateVars, workerVars, StageInv
<1>3. CASE BridgeStores BY <1>3 DEF BridgeStores, StageInv, gateVars, workerVars
<1> QED BY <1>1, <1>2, <1>3, CommandsKeepStage, UpdateKeepsStage, WorkerKeepsStage DEF Next

LEMMA StageInvariance == Spec => []StageInv
  BY InitStage, StepStage, Invariance, PTL DEF Spec

(***************************************************************************)
(* The steps.                                                              *)
(***************************************************************************)
\* What a step of the device is to the slot.
MapsToSlot ==
  \/ Camera!SlotNext
  \/ UNCHANGED <<started, current, CameraStage, Owed, notices, sent, saved>>

\* At first the slot is free.
LEMMA CameraInitMaps == Init => Camera!SlotInit
  BY DEF Init, Camera!SlotInit, CameraStage, Owed

\* A start is an acceptance: the failure that may be owed stays owed.
LEMMA StartMaps == ASSUME IInv, StageInv, Start PROVE MapsToSlot
<1> USE CameraAssumption DEF IInv, CameraInv, TypeOK, CaptureIsAccepted, StageInv, Start,
                             workerVars,
                             imageVars
<1>1. CameraStage = "free" /\ CameraStage' = "waiting" BY DEF CameraStage
<1>2. UNCHANGED Owed BY DEF Owed
<1>3. Camera!Accept BY <1>1, <1>2 DEF Camera!Accept
<1> QED BY <1>3 DEF MapsToSlot, Camera!SlotNext

\* A cancel withdraws a capture that has no context, whether it waits or could not be
\* launched; of any other it only asks an end.
LEMMA CancelMaps == ASSUME IInv, StageInv, Cancel PROVE MapsToSlot
<1> USE DEF IInv, CameraInv, TypeOK, CaptureIsAccepted, WorkerHoldsGate, StageInv, Cancel,
            FreeGate,
            workerVars, imageVars
<1>1. CASE io = "none"
  <2>1. phase = "off" /\ CameraStage' = "free" BY <1>1 DEF CameraStage
  <2>2. CASE pending
    <3>1. CameraStage = "waiting" BY <2>2 DEF CameraStage
    <3>2. UNCHANGED Owed BY <1>1, <2>2 DEF Owed
    <3>3. Camera!Withdraw BY <1>1, <2>1, <3>1, <3>2 DEF Camera!Withdraw, Camera!Free
    <3> QED BY <3>3 DEF MapsToSlot, Camera!SlotNext
  <2>3. CASE ~pending
    <3>1. CameraStage = "over" BY <2>1, <2>3 DEF CameraStage
    <3>2. Owed = 0 /\ Owed' = current BY <1>1, <2>1, <2>3 DEF Owed
    <3>3. Camera!Withdraw BY <1>1, <2>1, <3>1, <3>2 DEF Camera!Withdraw, Camera!Free
    <3> QED BY <3>3 DEF MapsToSlot, Camera!SlotNext
  <2> QED BY <2>2, <2>3
<1>2. CASE io # "none"
  BY <1>2 DEF MapsToSlot, CameraStage, Owed
<1> QED BY <1>1, <1>2

\* A result that is collected is a report of the gate's capture, or the failure that is
\* owed, which frees the gate of whichever capture it is.
LEMMA CollectMaps == ASSUME IInv, StageInv, Collect PROVE MapsToSlot
<1> USE DEF IInv, CameraInv, TypeOK, CaptureIsAccepted, WorkerHoldsGate, StageInv, Collect,
            FreeGate,
            workerVars, imageVars
<1>1. CameraStage' = "free" /\ Owed' = 0 BY DEF CameraStage, Owed
<1>2. phase = "off" OBVIOUS
<1>3. CASE job = current
  <2>1. CameraStage = "over" /\ Owed = 0 BY <1>2, <1>3 DEF CameraStage, Owed
  <2>2. result => current \in saved BY <1>3 DEF ResultIsHonest
  <2>3. Camera!Report(result) BY <1>1, <1>3, <2>1, <2>2 DEF Camera!Report, Camera!Free
  <2>4. result \in BOOLEAN BY Zenon DEF IInv, TypeOK
  <2> QED BY <2>3, <2>4 DEF MapsToSlot, Camera!SlotNext
<1>4. CASE job # current
  <2>1. CameraStage \in {"free", "waiting"} BY <1>2, <1>4 DEF CameraStage
  <2>2. Owed = job /\ Owed # 0 BY <1>4 DEF Owed
  <2>3. ~result BY <1>4
  <2>4. notices' = notices \cup {[id |-> job, ok |-> FALSE]}
    <3>1. result = FALSE BY <2>3, Zenon DEF IInv, TypeOK
    <3> QED BY <3>1
  <2>5. Camera!ReportOwed BY <1>1, <2>1, <2>2, <2>4 DEF Camera!ReportOwed, Camera!Free
  <2> QED BY <2>5 DEF MapsToSlot, Camera!SlotNext
<1> QED BY <1>3, <1>4

\* A launch begins the work, or ends it before it has begun.
LEMMA LaunchMaps == ASSUME IInv, StageInv, Launch \/ LaunchFails PROVE MapsToSlot
<1> USE DEF IInv, CameraInv, TypeOK, CaptureIsAccepted, WorkerHoldsGate, Takes, imageVars
<1>1. CameraStage = "waiting" BY DEF Launch, LaunchFails, CameraStage
<1>2. Owed = 0 /\ Owed' = 0 BY DEF Launch, LaunchFails, Owed
<1>3. CameraStage' \in {"working", "over"} BY DEF Launch, LaunchFails, CameraStage
<1>4. Camera!Begin BY <1>1, <1>2, <1>3 DEF Launch, LaunchFails, Camera!Begin
<1> QED BY <1>4 DEF MapsToSlot, Camera!SlotNext

\* The worker takes its image, has it stored or neither, and is over when it publishes.
LEMMA WorkerMaps == ASSUME IInv, WorkerNext PROVE MapsToSlot
<1> USE DEF IInv, CameraInv, TypeOK, CaptureIsAccepted, WorkerHoldsGate, gateVars, imageVars
<1>1. CASE Publish
  <2>1. CameraStage = "working" /\ CameraStage' = "over" BY <1>1 DEF Publish, CameraStage
  <2>2. Owed = 0 /\ Owed' = 0 BY <1>1 DEF Publish, Owed
  <2>3. Camera!Finish BY <1>1, <2>1, <2>2 DEF Publish, Camera!Finish
  <2> QED BY <2>3 DEF MapsToSlot, Camera!SlotNext
<1>2. CASE ~Publish
  <2>1. Works BY <1>2, WorkerWorks
  <2>2. CameraStage = "working" /\ CameraStage' = "working" BY <2>1 DEF Works, CameraStage
  <2>3. UNCHANGED Owed BY <2>1 DEF Works, Owed
  <2>4. /\ sent' \in {sent, sent \cup {current}}
        /\ saved' \in {saved, saved \cup {current}}
        /\ saved' # saved => current \in sent /\ sent' = sent
    BY <2>1 DEF Works
  <2>5. CASE saved' = saved /\ sent' = sent BY <2>1, <2>2, <2>3, <2>5 DEF Works, MapsToSlot
  <2>6. CASE saved' = saved /\ sent' = sent \cup {current}
    <3>1. Camera!Take BY <2>1, <2>2, <2>3, <2>6 DEF Works, Camera!Take
    <3> QED BY <3>1 DEF MapsToSlot, Camera!SlotNext
  <2>7. CASE saved' # saved
    <3>1. current \in sent /\ Camera!Store(current)
      BY <2>1, <2>2, <2>3, <2>4, <2>7 DEF Works, Camera!Store
    <3> QED BY <3>1 DEF MapsToSlot, Camera!SlotNext
  <2> QED BY <2>4, <2>5, <2>6, <2>7
<1> QED BY <1>1, <1>2

\* Every other step leaves the slot alone, but for a report that is settled.
LEMMA OthersMap ==
  ASSUME ChangeUrl \/ BridgeStores \/ UpdateBegins \/ UpdateEnds
         \/ (\E notice \in notices : Settle(notice))
         \/ UNCHANGED vars
  PROVE  MapsToSlot
<1> USE DEF CameraStage, Owed, gateVars, workerVars, imageVars
<1>1. CASE ChangeUrl BY <1>1 DEF ChangeUrl, MapsToSlot
<1>2. CASE UpdateBegins BY <1>2 DEF UpdateBegins, MapsToSlot
<1>3. CASE UpdateEnds BY <1>3 DEF UpdateEnds, MapsToSlot
<1>4. ASSUME NEW notice \in notices, Settle(notice) PROVE MapsToSlot
  <2>1. Camera!Settle(notice) BY <1>4 DEF Settle, Camera!Settle
  <2> QED BY <2>1 DEF MapsToSlot, Camera!SlotNext
<1>5. CASE UNCHANGED vars BY <1>5 DEF vars, MapsToSlot
<1>6. CASE BridgeStores
  <2>1. PICK image \in sent : Camera!Store(image) BY <1>6 DEF BridgeStores, Camera!Store
  <2> QED BY <2>1 DEF MapsToSlot, Camera!SlotNext
<1> QED BY <1>1, <1>2, <1>3, <1>4, <1>5, <1>6

\* Every step of the device is a step of the slot, or leaves it alone.
LEMMA CameraStepMaps ==
  IInv /\ StageInv /\ [Next]_vars =>
    [Camera!SlotNext]_<<started, current, CameraStage, Owed, notices, sent, saved>>
<1> SUFFICES ASSUME IInv, StageInv, [Next]_vars PROVE MapsToSlot BY DEF MapsToSlot
<1> QED
  BY StartMaps, CancelMaps, CollectMaps, LaunchMaps, WorkerMaps, OthersMap DEF Next, UpdateNext

\* Commands, update and the worker together implement the camera's slot: a capture works
\* once and is reported once after its work, or is withdrawn before, and only a failure
\* that was withdrawn takes another capture along (cancel, update, run).
THEOREM CameraRefinement == Spec => ImplementsCameraSlot
<1>1. Init => Camera!SlotInit
  BY CameraInitMaps
<1>2. IInv /\ StageInv /\ [Next]_vars =>
        [Camera!SlotNext]_<<started, current, CameraStage, Owed, notices, sent, saved>>
  BY CameraStepMaps
<1> QED
  BY <1>1, <1>2, Invariance, StageInvariance, PTL
  DEF Spec, ImplementsCameraSlot, Camera!SlotSpec, Camera!slotVars
=============================================================================
