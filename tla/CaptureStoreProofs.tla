-------------------------- MODULE CaptureStoreProofs --------------------------
(***************************************************************************)
(* Proofs about CaptureStore, for any number of devices, captures, uploads *)
(* and bodies, and any capacity.                                           *)
(*                                                                         *)
(* Most actions only close a transaction or leave the store alone; the     *)
(* others sweep it, age it, store an image, take a proof or delete an      *)
(* image. Each kind of step keeps the inductive invariant and respects the *)
(* two action properties, and every action is shown to be of one kind.     *)
(*                                                                         *)
(* On top of it, a second invariant follows those who wait: the device for *)
(* what it was told, take_photo for its capture, the sleepers for the      *)
(* event that wakes them up. It is kept action by action.                  *)
(***************************************************************************)
EXTENDS CaptureStore, TLAPS

(***************************************************************************)
(* The inductive invariant.                                                *)
(***************************************************************************)
\* A capture that has not been reserved has nothing.
NewIsBlank ==
  \A c \in Capture : state[c] = "new" =>
    /\ c \notin known \cup reserved \cup deleted \cup aged \cup agedRecord
    /\ proof[c] = None /\ record[c] = None

\* Images and reservations belong to transactions the store knows.
ImagesAreKnown == \A c \in Capture : record[c] # None \/ c \in reserved => c \in known

\* The retention of an image outlasts that of its reservation.
ImagesAgeLater == agedRecord \subseteq aged

\* Before an image there is the state "reserved", after it "image_saved"; an image that
\* has gone was deleted or its retention is over.
StateTellsImage ==
  \A c \in known :
    /\ state[c] # "new"
    /\ state[c] = "reserved" => record[c] = None
    /\ state[c] = "image_saved" /\ record[c] = None => c \in deleted \cup aged

StoreInv ==
  /\ NewIsBlank
  /\ ImagesAreKnown
  /\ ImagesAgeLater
  /\ StateTellsImage
  /\ SuccessIsProven

IInv == TypeOK /\ StoreInv

\* What TerminalIsFinal and ImageOnlyIntoReserved ask of a step.
Final == \A c \in known \cap known' : state[c] \in TerminalState => state'[c] = state[c]

StoredInTime ==
  \A c \in Capture : record[c] = None /\ record'[c] # None =>
    /\ state[c] = "reserved" /\ c \in reserved
    /\ c \notin late \cup aged \cup deleted \cup failures

Sound == StoreInv' /\ Final /\ StoredInTime

\* A step that ends the transaction c unsuccessfully, drops its image after the
\* retention, or does neither.
Closes(c) ==
  /\ reserved' \subseteq reserved
  /\ UNCHANGED <<known, proof, deleted, aged, agedRecord>>
  /\ \/ UNCHANGED state
     \/ /\ state[c] \notin TerminalState
        /\ \E s \in {"failed", "cancelled", "expired"} : Become(c, s)
  /\ \/ UNCHANGED record
     \/ c \in agedRecord /\ record' = [record EXCEPT ![c] = None]

\* A transaction that is known, or that of a take_photo that waits.
IsHeld(c) == c \in known \/ \E d \in Device : c = active[d] /\ photo[d] = "waiting"

\* No take_photo begins.
CallsOnlyEnd == \A d \in Device : active'[d] \in {active[d], None}

EndsOne(c) == Closes(c) /\ (UNCHANGED state \/ IsHeld(c)) /\ CallsOnlyEnd

\* The steps of the device, of an upload or of take_photo that do so.
ClosingAction ==
  \/ \E c \in Capture :
       \/ DeadlinePasses(c) \/ CompleteFailed(c) \/ Get(c) \/ Status(c)
       \/ \E u \in Upload, body \in Content : BeginUpload(u, c, body)
  \/ \E u \in Upload : UploadChecks(u) \/ UploadAborts(u)
  \/ \E d \in Device :
       CommandFails(d) \/ PhotoChecks(d) \/ PhotoTimesOut(d) \/ PhotoAborts(d) \/ Cleanup(d)

\* At first nothing is reserved.
LEMMA InitInv == Init => IInv
  BY NoneAssumption
  DEF Init, IInv, TypeOK, StoreInv, NewIsBlank, ImagesAreKnown, ImagesAgeLater, StateTellsImage,
      SuccessIsProven, NoUpload, State, TerminalState

\* Closing a transaction is sound.
LEMMA ClosesSound == ASSUME IInv, NEW c, Closes(c) PROVE Sound
<1> USE DEF Closes, IInv, StoreInv, Become, TypeOK
<1>1. NewIsBlank' BY DEF NewIsBlank
<1>2. ImagesAreKnown' BY DEF ImagesAreKnown
<1>3. ImagesAgeLater' BY DEF ImagesAgeLater
<1>4. StateTellsImage' BY DEF StateTellsImage, ImagesAgeLater
<1>5. SuccessIsProven' BY DEF SuccessIsProven, ImagesAgeLater, TerminalState
<1>6. Final BY DEF Final
<1>7. StoredInTime BY DEF StoredInTime
<1> QED BY <1>1, <1>2, <1>3, <1>4, <1>5, <1>6, <1>7 DEF Sound

\* Noticing a deadline closes at most the transaction that is looked at.
LEMMA LookCloses ==
  ASSUME TypeOK, NEW c \in Capture, Look(c)
  PROVE  /\ \/ UNCHANGED state
            \/ state[c] \notin TerminalState /\ Become(c, "expired")
         /\ asleep' \subseteq asleep
  BY DEF Look, Become, Seen, SignalIf, Signal, TypeOK

\* The sweep drops what is past its retention and reserves fresh captures only.
LEMMA SweepSound ==
  ASSUME IInv, NEW new \in SUBSET {c \in Capture : state[c] = "new"}, SweepAndReserve(new),
         UNCHANGED clockVars
  PROVE  Sound
<1> USE DEF SweepAndReserve, IInv, StoreInv, TypeOK, clockVars, Retired
<1>1. NewIsBlank' BY DEF NewIsBlank
<1>2. ImagesAreKnown' BY DEF ImagesAreKnown, ImagesAgeLater
<1>3. ImagesAgeLater' BY DEF ImagesAgeLater
<1>4. StateTellsImage' BY DEF StateTellsImage, ImagesAgeLater, NewIsBlank
<1>5. SuccessIsProven' BY DEF SuccessIsProven, ImagesAgeLater, TerminalState
<1>6. Final BY DEF Final, NewIsBlank
<1>7. StoredInTime BY DEF StoredInTime
<1> QED BY <1>1, <1>2, <1>3, <1>4, <1>5, <1>6, <1>7 DEF Sound

\* The end of a retention.
LEMMA RetentionSound == ASSUME IInv, NEW c \in Capture, RetentionEnds(c) PROVE Sound
<1> USE DEF RetentionEnds, IInv, StoreInv, TypeOK, storeVars
<1>1. NewIsBlank' BY DEF NewIsBlank
<1>2. ImagesAreKnown' BY DEF ImagesAreKnown
<1>3. ImagesAgeLater' BY DEF ImagesAgeLater
<1>4. StateTellsImage' BY DEF StateTellsImage
<1>5. SuccessIsProven' BY DEF SuccessIsProven
<1>6. Final /\ StoredInTime BY DEF Final, StoredInTime
<1> QED BY <1>1, <1>2, <1>3, <1>4, <1>5, <1>6 DEF Sound

\* An image is stored where the transaction is open and has none.
LEMMA StoresSound ==
  ASSUME IInv, NEW u \in Upload, NEW c, NEW body \in Content, Storable(c), Stores(u, c, body),
         UNCHANGED <<known, reserved, proof, deleted, clockVars>>
  PROVE  Sound
<1> USE DEF IInv, StoreInv, TypeOK, clockVars, Stores, Become
<1>1. c \in known /\ c \in Capture BY DEF Storable, Uploadable, Found
<1>2. state[c] = "reserved" /\ c \in reserved /\ c \notin late \cup aged \cup deleted \cup failures
  BY <1>1 DEF Storable, Uploadable, Seen, StateTellsImage, SuccessIsProven, State, TerminalState
<1>3. NewIsBlank' BY <1>1 DEF NewIsBlank
<1>4. ImagesAreKnown' BY <1>1 DEF ImagesAreKnown
<1>5. ImagesAgeLater' BY DEF ImagesAgeLater
<1>6. StateTellsImage' BY <1>1, NoneAssumption DEF StateTellsImage
<1>7. SuccessIsProven' BY <1>1, NoneAssumption DEF SuccessIsProven
<1>8. Final BY <1>1, <1>2 DEF Final, TerminalState
<1>9. StoredInTime BY <1>2 DEF StoredInTime
<1> QED BY <1>3, <1>4, <1>5, <1>6, <1>7, <1>8, <1>9 DEF Sound

\* A proof that contradicts nothing is taken by an open transaction.
LEMMA ProvesSound ==
  ASSUME IInv, NEW c \in Capture, NEW body \in Content, Found(c), Seen(c) \notin TerminalState,
         ~Contradicts(c, body), Proves(c, body),
         UNCHANGED <<known, reserved, deleted, record, clockVars>>
  PROVE  Sound
<1> USE DEF IInv, StoreInv, TypeOK, clockVars, Proves, Become
<1>1. c \in known /\ state[c] \in {"reserved", "image_saved"}
  BY DEF Found, Seen, StateTellsImage, State, TerminalState
<1>2. NewIsBlank' BY <1>1 DEF NewIsBlank
<1>3. ImagesAreKnown' BY DEF ImagesAreKnown
<1>4. ImagesAgeLater' BY DEF ImagesAgeLater
<1>5. StateTellsImage' BY <1>1 DEF StateTellsImage
<1>6. SuccessIsProven' BY <1>1, NoneAssumption DEF SuccessIsProven, Contradicts
<1>7. Final /\ StoredInTime BY <1>1 DEF Final, StoredInTime, TerminalState
<1> QED BY <1>2, <1>3, <1>4, <1>5, <1>6, <1>7 DEF Sound

\* A deleted image is remembered as deleted.
LEMMA DeleteSound == ASSUME IInv, NEW c \in Capture, Delete(c) PROVE Sound
<1> USE DEF IInv, StoreInv, TypeOK, clockVars, Delete
<1>0. c \in known BY DEF ImagesAreKnown
<1>1. NewIsBlank' BY <1>0 DEF NewIsBlank
<1>2. ImagesAreKnown' BY DEF ImagesAreKnown
<1>3. ImagesAgeLater' BY DEF ImagesAgeLater
<1>4. StateTellsImage' BY <1>0 DEF StateTellsImage
<1>5. SuccessIsProven' BY <1>0 DEF SuccessIsProven
<1>6. Final /\ StoredInTime BY DEF Final, StoredInTime
<1> QED BY <1>1, <1>2, <1>3, <1>4, <1>5, <1>6 DEF Sound
(***************************************************************************)
(* Every action keeps the types.                                           *)
(***************************************************************************)
\* Looking at a transaction keeps the types of the two variables it may change.
LEMMA LookTypes ==
  ASSUME TypeOK, NEW c, Found(c), Look(c)
  PROVE  /\ state' \in [Capture -> State \cup {"new"}]
         /\ asleep' \in SUBSET (Device \cup Upload)
<1>1. c \in Capture BY DEF Found, TypeOK
<1> QED BY <1>1, LookCloses DEF TypeOK, Become, State, TerminalState

\* So does the sweep.
LEMMA SweepTypes ==
  ASSUME IInv, NEW new \in SUBSET Capture, SweepAndReserve(new),
         UNCHANGED <<clockVars, upload, accepted>>,
         active' \in [Device -> Capture \cup {None}],
         photo' \in [Device -> {"idle", "waiting", "returning", "raising"}]
  PROVE  TypeOK'
  BY DEF SweepAndReserve, IInv, TypeOK, clockVars, State, TerminalState

\* A step of the device, of an upload or of take_photo that closes or leaves the store.
LEMMA ClosingActionTypes ==
  ASSUME IInv, ClosingAction PROVE TypeOK'
<1> USE DEF IInv, TypeOK, storeVars, clockVars, photoVars
<1>1. ASSUME NEW c \in Capture, DeadlinePasses(c) PROVE TypeOK' BY <1>1 DEF DeadlinePasses
<1>2. ASSUME NEW c \in Capture, CompleteFailed(c) PROVE TypeOK'
  <2>1. CASE Fails(c) /\ Acknowledge(c, None)
    BY <1>2, <2>1 DEF CompleteFailed, Fails, Become, Signal, Acknowledge, State, TerminalState
  <2>2. CASE ~(Fails(c) /\ Acknowledge(c, None))
    BY <1>2, <2>2, LookTypes DEF CompleteFailed, Acknowledge
  <2> QED BY <2>1, <2>2
<1>3. ASSUME NEW c \in Capture, Get(c) PROVE TypeOK' BY <1>3 DEF Get
<1>4. ASSUME NEW c \in Capture, Status(c) PROVE TypeOK' BY <1>4, LookTypes DEF Status
<1>5. ASSUME NEW c \in Capture, NEW u \in Upload, NEW body \in Content, BeginUpload(u, c, body)
      PROVE TypeOK'
  BY <1>5, LookTypes DEF BeginUpload
<1>6. ASSUME NEW u \in Upload, UploadChecks(u) PROVE TypeOK'
  BY <1>6, LookTypes DEF UploadChecks, NoUpload
<1>7. ASSUME NEW u \in Upload, UploadAborts(u) PROVE TypeOK' BY <1>7 DEF UploadAborts, NoUpload
<1>8. ASSUME NEW d \in Device, CommandFails(d) PROVE TypeOK'
  <2>1. CASE Found(active[d]) /\ Seen(active[d]) \notin TerminalState
    BY <1>8, <2>1 DEF CommandFails, Fails, Become, Signal, Found, State, TerminalState
  <2>2. CASE ~(Found(active[d]) /\ Seen(active[d]) \notin TerminalState)
    BY <1>8, <2>2, LookTypes DEF CommandFails
  <2> QED BY <2>1, <2>2
<1>9. ASSUME NEW d \in Device, PhotoChecks(d) PROVE TypeOK'
  BY <1>9, LookTypes DEF PhotoChecks, Photo
<1>10. ASSUME NEW d \in Device, PhotoTimesOut(d) PROVE TypeOK'
  BY <1>10 DEF PhotoTimesOut, Become, State, TerminalState
<1>11. ASSUME NEW d \in Device, PhotoAborts(d) PROVE TypeOK' BY <1>11 DEF PhotoAborts, Photo
<1>12. ASSUME NEW d \in Device, Cleanup(d) PROVE TypeOK'
  <2>1. /\ state' \in [Capture -> State \cup {"new"}]
        /\ reserved' \in SUBSET Capture /\ failures' \in SUBSET Capture
        /\ asleep' \in SUBSET (Device \cup Upload)
    BY <1>12, LookTypes DEF Cleanup, Cancel, Become, Signal, State, TerminalState
  <2> QED BY <1>12, <2>1 DEF Cleanup, Photo
<1> QED BY <1>1, <1>2, <1>3, <1>4, <1>5, <1>6, <1>7, <1>8, <1>9, <1>10, <1>11, <1>12 DEF ClosingAction

\* Those steps close one transaction at most, which the store knows or take_photo holds, and
\* reserve nothing.
LEMMA ClosingActionCloses ==
  ASSUME IInv, ClosingAction
  PROVE  \E c : EndsOne(c)
<1> USE DEF EndsOne, Closes, IsHeld, CallsOnlyEnd, storeVars, clockVars, photoVars
<1>0. TypeOK /\ \A c : Found(c) => c \in Capture /\ c \in known BY DEF IInv, Found, TypeOK
<1>s. \A c : Found(c) /\ Seen(c) \notin TerminalState => state[c] \notin TerminalState BY DEF Seen
<1>1. ASSUME NEW c \in Capture, DeadlinePasses(c) PROVE EndsOne(c) BY <1>1 DEF DeadlinePasses
<1>2. ASSUME NEW c \in Capture, CompleteFailed(c) PROVE EndsOne(c)
  BY <1>0, <1>s, <1>2, LookCloses DEF CompleteFailed, Fails
<1>3. ASSUME NEW c \in Capture, Get(c) PROVE EndsOne(c) BY <1>3 DEF Get
<1>4. ASSUME NEW c \in Capture, Status(c) PROVE EndsOne(c) BY <1>0, <1>4, LookCloses DEF Status
<1>5. ASSUME NEW c \in Capture, NEW u \in Upload, NEW body \in Content, BeginUpload(u, c, body)
      PROVE EndsOne(c)
  BY <1>0, <1>5, LookCloses DEF BeginUpload
<1>6. ASSUME NEW u \in Upload, UploadChecks(u) PROVE EndsOne(upload[u].capture)
  BY <1>0, <1>6, LookCloses DEF UploadChecks
<1>7. ASSUME NEW u \in Upload, UploadAborts(u) PROVE EndsOne(upload[u].capture)
  BY <1>7 DEF UploadAborts
<1>8. ASSUME NEW d \in Device, CommandFails(d) PROVE EndsOne(active[d])
  BY <1>0, <1>s, <1>8, LookCloses DEF CommandFails, Fails
<1>9. ASSUME NEW d \in Device, PhotoChecks(d) PROVE EndsOne(active[d])
  BY <1>0, <1>9, LookCloses DEF PhotoChecks
<1>10. ASSUME NEW d \in Device, PhotoTimesOut(d) PROVE EndsOne(active[d])
  BY <1>10 DEF PhotoTimesOut
<1>11. ASSUME NEW d \in Device, PhotoAborts(d) PROVE EndsOne(active[d]) BY <1>11 DEF PhotoAborts
<1>12. ASSUME NEW d \in Device, Cleanup(d) PROVE EndsOne(active[d])
  <2>1. CASE photo[d] # "raising" BY <1>12, <2>1 DEF Cleanup
  <2>2. CASE photo[d] = "raising"
    <3>1. CASE Found(active[d]) /\ Seen(active[d]) \notin TerminalState
      BY <1>0, <1>s, <1>12, <2>2, <3>1 DEF Cleanup, Cancel, IInv, TypeOK
    <3>2. CASE ~(Found(active[d]) /\ Seen(active[d]) \notin TerminalState)
      <4>1. UNCHANGED state \/ (Found(active[d]) /\ Look(active[d]))
        BY <1>12, <2>2, <3>2 DEF Cleanup, Cancel
      <4> QED BY <1>0, <1>12, <2>2, <3>2, <4>1, LookCloses DEF Cleanup, Cancel, IInv, TypeOK
    <3> QED BY <3>1, <3>2
  <2> QED BY <2>1, <2>2
<1> QED BY <1>1, <1>2, <1>3, <1>4, <1>5, <1>6, <1>7, <1>8, <1>9, <1>10, <1>11, <1>12 DEF ClosingAction

\* So they are sound.
LEMMA ClosingActionSound ==
  ASSUME IInv, ClosingAction PROVE Sound
  BY ClosingActionCloses, ClosesSound DEF EndsOne

\* A body that was read is stored or refused.
LEMMA SaveSound == ASSUME IInv, NEW u \in Upload, SaveUpload(u) PROVE TypeOK' /\ Sound
<1> DEFINE c == upload[u].capture
           body == upload[u].body
<1> USE DEF storeVars, clockVars, photoVars
<1>1. CASE Storable(c) /\ Stores(u, c, body) /\ UNCHANGED reserved
  <2>1. body \in Content BY DEF SaveUpload, IInv, TypeOK
  <2>2. Sound BY <1>1, <2>1, StoresSound DEF SaveUpload
  <2>3. TypeOK'
    BY <1>1, <2>1 DEF SaveUpload, IInv, TypeOK, Stores, Become, State, TerminalState, NoUpload
  <2> QED BY <2>2, <2>3
<1>2. CASE StoresNothing(u, c) /\ reserved' \subseteq reserved
  <2>1. \A x : Found(x) => x \in Capture BY DEF IInv, Found, TypeOK
  <2>2. \/ UNCHANGED state
        \/ state[c] \notin TerminalState /\ Become(c, "expired")
    BY <1>2, <2>1 DEF StoresNothing, Seen, Become, IInv, TypeOK
  <2>3. Closes(c) BY <1>2, <2>2 DEF SaveUpload, Closes, StoresNothing
  <2>4. TypeOK'
    BY <1>2, <2>2 DEF SaveUpload, IInv, TypeOK, StoresNothing, Become, State, TerminalState, NoUpload
  <2> QED BY <2>3, <2>4, ClosesSound
<1> QED BY <1>1, <1>2 DEF SaveUpload
\* A completion event with the digest of an image.
LEMMA CompleteSound ==
  ASSUME IInv, NEW c \in Capture, NEW body \in Content, Complete(c, body) PROVE TypeOK' /\ Sound
<1> USE DEF storeVars, clockVars, photoVars
<1>1. CASE Repeats(c, body)
  <2>1. Closes(c) BY <1>1, LookCloses DEF Complete, Repeats, Closes, IInv
  <2>2. TypeOK' BY <1>1, LookTypes DEF Complete, Repeats, Acknowledge, IInv, TypeOK
  <2> QED BY <2>1, <2>2, ClosesSound
<1>2. CASE UNCHANGED <<state, proof, asleep, accepted>>
  <2>1. Closes(c) BY <1>2 DEF Complete, Closes
  <2>2. TypeOK' BY <1>2 DEF Complete, IInv, TypeOK
  <2> QED BY <2>1, <2>2, ClosesSound
<1>3. CASE Seen(c) \notin TerminalState /\ ~Contradicts(c, body) /\ Proves(c, body)
  <2>1. Sound BY <1>3, ProvesSound DEF Complete
  <2>2. TypeOK'
    BY <1>3 DEF Complete, Proves, Become, Signal, Acknowledge, IInv, TypeOK, State, TerminalState
  <2> QED BY <2>1, <2>2
<1> QED BY <1>1, <1>2, <1>3 DEF Complete

\* take_photo reserves a capture, or finds the store full.
LEMMA TakePhotoSound ==
  ASSUME IInv, NEW d \in Device, NEW c \in Capture, TakePhoto(d, c) PROVE TypeOK' /\ Sound
<1> USE DEF photoVars
<1>1. CASE SweepAndReserve({c}) /\ active' = [active EXCEPT ![d] = c]
             /\ photo' = [photo EXCEPT ![d] = "waiting"]
  <2>1. Sound BY <1>1, SweepSound DEF TakePhoto
  <2>2. TypeOK' BY <1>1, SweepTypes DEF TakePhoto, IInv, TypeOK
  <2> QED BY <2>1, <2>2
<1>2. CASE SweepAndReserve({}) /\ UNCHANGED photoVars
  <2>1. Sound BY <1>2, SweepSound DEF TakePhoto
  <2>2. TypeOK' BY <1>2, SweepTypes DEF TakePhoto, IInv, TypeOK
  <2> QED BY <2>1, <2>2
<1> QED BY <1>1, <1>2 DEF TakePhoto

(***************************************************************************)
(* The theorems.                                                           *)
(***************************************************************************)
\* Every step keeps the invariant and respects the two action properties.
LEMMA NextSound == ASSUME IInv, Next PROVE TypeOK' /\ Sound
<1> USE DEF storeVars, clockVars, photoVars
<1>1. CASE Purge
  <2>1. Sound BY <1>1, SweepSound DEF Purge
  <2>2. TypeOK' BY <1>1, SweepTypes DEF Purge, IInv, TypeOK
  <2> QED BY <2>1, <2>2
<1>2. ASSUME NEW c \in Capture, RetentionEnds(c) PROVE TypeOK' /\ Sound
  <2>1. TypeOK' BY <1>2 DEF RetentionEnds, IInv, TypeOK
  <2> QED BY <1>2, <2>1, RetentionSound
<1>3. ASSUME NEW c \in Capture, Delete(c) PROVE TypeOK' /\ Sound
  <2>1. TypeOK' BY <1>3 DEF Delete, Signal, IInv, TypeOK
  <2> QED BY <1>3, <2>1, DeleteSound
<1>4. ASSUME NEW u \in Upload, SaveUpload(u) PROVE TypeOK' /\ Sound BY <1>4, SaveSound
<1>5. ASSUME NEW c \in Capture, NEW body \in Content, Complete(c, body) PROVE TypeOK' /\ Sound
  BY <1>5, CompleteSound
<1>6. ASSUME NEW d \in Device, NEW c \in Capture, TakePhoto(d, c) PROVE TypeOK' /\ Sound
  BY <1>6, TakePhotoSound
<1>7. CASE ClosingAction
  BY <1>7, ClosingActionTypes, ClosingActionSound
<1> QED BY <1>1, <1>2, <1>3, <1>4, <1>5, <1>6, <1>7 DEF Next, ClosingAction

\* A step that changes nothing keeps the invariant.
LEMMA StutterInv == ASSUME IInv, UNCHANGED vars PROVE IInv'
  BY DEF IInv, TypeOK, StoreInv, NewIsBlank, ImagesAreKnown, ImagesAgeLater, StateTellsImage,
         SuccessIsProven, vars, storeVars, clockVars, photoVars

\* The inductive invariant holds of every behaviour of the store.
THEOREM Invariance == Spec => []IInv
<1>1. ASSUME IInv, [Next]_vars PROVE IInv' BY <1>1, NextSound, StutterInv DEF Sound, IInv
<1> QED BY <1>1, InitInv, PTL DEF Spec

\* Every variable keeps its type.
THEOREM TypeCorrect == Spec => []TypeOK
<1>1. IInv => TypeOK BY DEF IInv
<1> QED BY <1>1, Invariance, PTL

\* A capture has succeeded only when device and Bridge agree on its image (complete, save).
THEOREM SuccessNeedsProof == Spec => []SuccessIsProven
<1>1. IInv => SuccessIsProven BY DEF IInv, StoreInv
<1> QED BY <1>1, Invariance, PTL

\* No late message reopens a transaction that has ended (_Transaction.terminal).
THEOREM TerminalStaysFinal == Spec => TerminalIsFinal
<1>1. ASSUME IInv, [Next]_vars PROVE [Final]_vars BY <1>1, NextSound DEF Sound
<1>2. [Final]_vars =>
        [\A c \in known \cap known' : state[c] \in TerminalState => state'[c] = state[c]]_vars
  BY DEF Final
<1> QED BY <1>1, <1>2, Invariance, PTL DEF Spec, TerminalIsFinal

\* An image is written into an open reservation only, and once (check_upload, save).
THEOREM ImagesStoredInTime == Spec => ImageOnlyIntoReserved
<1>1. ASSUME IInv, [Next]_vars PROVE [StoredInTime]_vars BY <1>1, NextSound DEF Sound
<1>2. [StoredInTime]_vars =>
        [\A c \in Capture : record[c] = None /\ record'[c] # None =>
           /\ state[c] = "reserved" /\ c \in reserved
           /\ c \notin late \cup aged \cup deleted \cup failures]_vars
  BY DEF StoredInTime
<1> QED BY <1>1, <1>2, Invariance, PTL DEF Spec, ImageOnlyIntoReserved

(***************************************************************************)
(* Those who wait: what the device was told, take_photo, and the sleepers. *)
(* The second inductive invariant builds on the first.                     *)
(***************************************************************************)
\* A proof is stored and acknowledged in one step; a fresh capture has reported nothing.
ProofIsAcked ==
  \A c \in Capture :
    /\ proof[c] # None => proof[c] \in accepted[c]
    /\ state[c] = "new" => None \notin accepted[c]

\* take_photo holds its capture as long as it runs, and is not done before the capture.
CallHasCapture ==
  \A d \in Device :
    /\ active[d] # None <=> photo[d] # "idle"
    /\ photo[d] = "returning" => state[active[d]] \in TerminalState

\* Only calls and uploads that wait are asleep.
SleepersWait ==
  /\ \A d \in Device \cap asleep : photo[d] = "waiting"
  /\ \A u \in Upload \cap asleep : upload[u] # NoUpload

AckInv == ProofIsAcked /\ AcksHold
CallInv == CallHasCapture /\ AbandonedIsClosed
SleepInv == SleepersWait /\ NobodyOversleeps
WaitInv == AckInv /\ CallInv /\ SleepInv

\* A transaction that still takes an image: Found(c), and Seen(c) is not terminal.
Open(c) == c \in known \ late /\ ~Retired(c) /\ state[c] \notin TerminalState

\* What no step undoes: deadlines pass, transactions end, and are only reserved once.
Forward ==
  /\ late \subseteq late'
  /\ \A c \in known' \ known : state[c] = "new"
  /\ \A c \in Capture :
       /\ state[c] # "new" => state'[c] # "new"
       /\ state[c] \in TerminalState => state'[c] \in TerminalState
       /\ Open(c)' => Open(c) \/ \E d \in Device : active[d] = None /\ active'[d] = c

\* Who waits for a capture that has ended, or whose image is deleted, is woken up.
Rouses ==
  \A c \in Capture :
    \/ c \in late'
    \/ asleep' \cap WaitersOn(c) = {}
    \/ (state'[c] \in TerminalState => state'[c] = state[c]) /\ (c \in deleted' => c \in deleted)

\* Nobody falls asleep, and whoever sleeps on waits for the same.
Dozes ==
  /\ asleep' \subseteq asleep
  /\ \A d \in Device \cap asleep' : active'[d] = active[d] /\ photo'[d] = photo[d]
  /\ \A u \in Upload \cap asleep' : upload'[u] = upload[u]

Moves == Forward /\ Rouses /\ Dozes

\* take_photo, for every device, goes on waiting, raises, or returns after the capture has ended.
Waits ==
  /\ UNCHANGED active
  /\ \A d \in Device :
       \/ photo'[d] = photo[d]
       \/ photo[d] = "waiting" /\ photo'[d] = "raising"
       \/ photo[d] = "waiting" /\ photo'[d] = "returning" /\ state'[active[d]] \in TerminalState

\* Nobody waits at first.
LEMMA InitWaits == Init => WaitInv
  BY NoneAssumption
  DEF Init, WaitInv, AckInv, CallInv, SleepInv, ProofIsAcked, AcksHold, CallHasCapture,
      AbandonedIsClosed, SleepersWait, NobodyOversleeps, Found

\* Open says what the store finds when it looks.
LEMMA OpenIsSeen == \A c : Open(c) <=> Found(c) /\ Seen(c) \notin TerminalState
  BY DEF Open, Found, Seen, TerminalState

\* Acknowledgements hold in a step that makes none.
LEMMA AcksKept ==
  ASSUME IInv, AckInv, Forward, Final, UNCHANGED <<proof, accepted>>, TypeOK'
  PROVE  AckInv'
<1> USE DEF AckInv, TypeOK
<1>1. ProofIsAcked' BY DEF ProofIsAcked, Forward
<1>2. AcksHold'
  <2> SUFFICES ASSUME NEW c \in Capture, None \in accepted[c], c \in known' PROVE state'[c] = "failed"
    BY DEF AcksHold
  <2>1. c \in known BY DEF Forward, ProofIsAcked
  <2> QED BY <2>1 DEF AcksHold, Final, TerminalState
<1> QED BY <1>1, <1>2

\* A running take_photo stays with its capture.
LEMMA CallsKept == ASSUME IInv, CallInv, Forward, Waits, TypeOK' PROVE CallInv'
<1>1. CallHasCapture'
  <2> SUFFICES ASSUME NEW d \in Device
               PROVE  /\ active'[d] # None <=> photo'[d] # "idle"
                      /\ photo'[d] = "returning" => state'[active'[d]] \in TerminalState
    BY DEF CallHasCapture
  <2>1. active'[d] = active[d] /\ (active[d] # None => active[d] \in Capture) BY DEF Waits, IInv, TypeOK
  <2>2. active[d] # None <=> photo[d] # "idle" BY DEF CallInv, CallHasCapture
  <2>3. CASE photo'[d] = photo[d] BY <2>1, <2>2, <2>3 DEF CallInv, CallHasCapture, Forward
  <2>4. CASE photo'[d] # photo[d] BY <2>1, <2>2, <2>4 DEF Waits
  <2> QED BY <2>3, <2>4
<1>2. AbandonedIsClosed'
  <2> SUFFICES ASSUME NEW c \in Capture, Open(c)' PROVE \E d \in Device : active'[d] = c
    BY DEF AbandonedIsClosed, Open, Found, Seen, TerminalState
  <2>1. Open(c) BY NoneAssumption DEF Forward, Waits, IInv, TypeOK
  <2>2. PICK d \in Device : active[d] = c BY <2>1, OpenIsSeen DEF CallInv, AbandonedIsClosed
  <2> QED BY <2>2 DEF Waits
<1> QED BY <1>1, <1>2 DEF CallInv

\* Nobody sleeps on through the end of a capture.
LEMMA SleepKept == ASSUME IInv, SleepInv, Moves, TypeOK', CallInv PROVE SleepInv'
<1> USE DEF SleepInv, Moves, Dozes
<1>1. SleepersWait' BY DEF SleepersWait
<1>2. ASSUME NEW d \in Device, d \in asleep'
      PROVE  state'[active'[d]] \notin TerminalState \/ active'[d] \in late'
  <2> DEFINE c == active[d]
  <2>1. c \in Capture /\ active'[d] = c
    BY <1>2 DEF SleepersWait, CallInv, CallHasCapture, IInv, TypeOK
  <2>2. state[c] \notin TerminalState \/ c \in late BY <1>2 DEF NobodyOversleeps
  <2>3. d \in WaitersOn(c) BY DEF WaitersOn
  <2> HIDE DEF c
  <2> QED BY <1>2, <2>1, <2>2, <2>3 DEF Rouses, Forward
<1>3. ASSUME NEW u \in Upload, u \in asleep'
      PROVE  LET c == upload'[u].capture
             IN  \/ c \in late'
                 \/ c \notin deleted' /\ state'[c] \notin {"failed", "cancelled", "expired"}
  <2> DEFINE c == upload[u].capture
  <2>1. c \in Capture /\ upload'[u].capture = c
    BY <1>3 DEF SleepersWait, IInv, TypeOK
  <2>2. c \in late \/ (c \notin deleted /\ state[c] \notin {"failed", "cancelled", "expired"})
    BY <1>3 DEF NobodyOversleeps
  <2>3. u \in WaitersOn(c) BY DEF WaitersOn
  <2> HIDE DEF c
  <2>4. CASE c \in late BY <2>1, <2>4 DEF Forward
  <2>5. CASE c \notin late
    BY <1>3, <2>1, <2>2, <2>3, <2>5 DEF Rouses, TerminalState
  <2> QED BY <2>4, <2>5
<1>4. NobodyOversleeps' BY <1>2, <1>3 DEF NobodyOversleeps
<1> QED BY <1>1, <1>4

\* Noticing a deadline wakes up who waits.
LEMMA LookRouses ==
  ASSUME TypeOK, NEW c, Found(c), Look(c), UNCHANGED <<deleted, late>>
  PROVE  Rouses /\ asleep' \subseteq asleep
<1>1. c \in Capture BY DEF Found, TypeOK
<1>2. asleep' \subseteq asleep BY DEF Look, SignalIf, Signal
<1>3. CASE Seen(c) = state[c]
  <2>1. state' = state BY <1>1, <1>3 DEF Look, Become, TypeOK
  <2> QED BY <1>2, <2>1 DEF Rouses
<1>4. CASE Seen(c) # state[c]
  <2>1. asleep' = asleep \ WaitersOn(c) BY <1>4 DEF Look, SignalIf, Signal
  <2>2. \A x \in Capture : x # c => state'[x] = state[x] BY DEF Look, Become, TypeOK
  <2> QED BY <1>2, <2>1, <2>2 DEF Rouses
<1> QED BY <1>3, <1>4

\* A step that closes a transaction goes forward.
LEMMA ClosesForward == ASSUME IInv, NEW c, Closes(c), late \subseteq late' PROVE Forward
<1> USE DEF Closes, Become, IInv, TypeOK
<1>1. ASSUME NEW x \in Capture
      PROVE  /\ state[x] # "new" => state'[x] # "new"
             /\ state[x] \in TerminalState => state'[x] \in TerminalState
  BY DEF TerminalState
<1>2. ASSUME NEW x \in Capture, Open(x)' PROVE Open(x)
  <2>1. x \in known \ late /\ state[x] \notin TerminalState BY <1>1, <1>2 DEF Open
  <2>2. ~Retired(x) BY <1>2 DEF Open, Retired, StoreInv, ImagesAgeLater
  <2> QED BY <2>1, <2>2 DEF Open
<1> QED BY <1>1, <1>2 DEF Forward

\* A step that leaves the acknowledgements and the calls to these lemmas.
LEMMA MovesKeep ==
  ASSUME IInv, WaitInv, Moves, Final, TypeOK', UNCHANGED <<proof, accepted>>, Waits
  PROVE  WaitInv'
<1>1. AckInv' BY AcksKept DEF WaitInv, Moves
<1>2. CallInv' BY CallsKept DEF WaitInv, Moves
<1>3. SleepInv' BY SleepKept DEF WaitInv
<1> QED BY <1>1, <1>2, <1>3 DEF WaitInv

\* Failing a transaction wakes up who waits for it.
LEMMA FailsRouses ==
  ASSUME TypeOK, NEW c \in Capture, Fails(c), UNCHANGED deleted
  PROVE  Rouses /\ asleep' \subseteq asleep
<1>1. asleep' = asleep \ WaitersOn(c) BY DEF Fails, Signal
<1>2. \A x \in Capture : x # c => state'[x] = state[x] BY DEF Fails, Become, TypeOK
<1> QED BY <1>1, <1>2 DEF Rouses

(***************************************************************************)
(* The steps that close a transaction at most.                             *)
(***************************************************************************)
\* Steps of the clocks and of a client.
LEMMA ClientWaits ==
  ASSUME IInv, WaitInv, TypeOK', Final, NEW c \in Capture, DeadlinePasses(c) \/ Get(c) \/ Status(c)
  PROVE  WaitInv'
<1> USE DEF storeVars, clockVars, photoVars
<1>0. TypeOK BY DEF IInv
<1>1. CASE DeadlinePasses(c)
  <2>1. Closes(c) /\ late \subseteq late' /\ Waits BY <1>1 DEF DeadlinePasses, Closes, Waits
  <2>2. Rouses /\ Dozes BY <1>1 DEF DeadlinePasses, Rouses, Dozes
  <2> QED BY <1>1, <2>1, <2>2, ClosesForward, MovesKeep DEF DeadlinePasses, Moves
<1>2. CASE Get(c)
  <2>1. Closes(c) /\ late \subseteq late' /\ Waits BY <1>2 DEF Get, Closes, Waits
  <2>2. Rouses /\ Dozes BY <1>2 DEF Get, Rouses, Dozes
  <2> QED BY <1>2, <2>1, <2>2, ClosesForward, MovesKeep DEF Get, Moves
<1>3. CASE Status(c)
  <2>1. Closes(c) /\ late \subseteq late' /\ Waits
    BY <1>0, <1>3, LookCloses DEF Status, Closes, Waits
  <2>2. Rouses /\ Dozes BY <1>0, <1>3, LookRouses DEF Status, Dozes
  <2> QED BY <1>3, <2>1, <2>2, ClosesForward, MovesKeep DEF Status, Moves
<1> QED BY <1>1, <1>2, <1>3

\* A failure the device reports is acknowledged when it is the outcome.
LEMMA CompleteFailedWaits ==
  ASSUME IInv, WaitInv, TypeOK', Final, NEW c \in Capture, CompleteFailed(c)
  PROVE  WaitInv'
<1> USE DEF clockVars, photoVars
<1>0. TypeOK /\ c \in known BY DEF IInv, CompleteFailed, Found
<1>1. Closes(c) /\ late \subseteq late' /\ Waits
  BY <1>0, LookCloses DEF CompleteFailed, Closes, Waits, Fails, Seen
<1>2. Rouses /\ Dozes
  BY <1>0, LookRouses, FailsRouses DEF CompleteFailed, Dozes
<1>3. Forward BY <1>1, ClosesForward
<1>4. CallInv' /\ SleepInv' BY <1>1, <1>2, <1>3, CallsKept, SleepKept DEF WaitInv, Moves
<1>5. CASE UNCHANGED accepted
  BY <1>3, <1>4, <1>5, AcksKept DEF WaitInv, CompleteFailed
<1>6. CASE Acknowledge(c, None) /\ state'[c] = "failed"
  <2>1. accepted' = [accepted EXCEPT ![c] = @ \cup {None}] /\ UNCHANGED <<proof, known>>
    BY <1>6 DEF Acknowledge, CompleteFailed
  <2>2. ProofIsAcked'
    BY <1>0, <1>3, <1>6, <2>1, NoneAssumption DEF ProofIsAcked, WaitInv, AckInv, TypeOK, Forward
  <2>3. AcksHold'
    <3> SUFFICES ASSUME NEW x \in Capture
                 PROVE  /\ accepted'[x] \ {None} \subseteq {proof[x]}
                        /\ None \in accepted'[x] /\ x \in known => state'[x] = "failed"
      BY <2>1 DEF AcksHold
    <3>1. CASE x = c BY <1>0, <1>6, <2>1, <3>1 DEF AcksHold, WaitInv, AckInv, TypeOK
    <3>2. CASE x # c
      BY <1>0, <2>1, <3>2 DEF AcksHold, WaitInv, AckInv, TypeOK, Final, TerminalState
    <3> QED BY <3>1, <3>2
  <2> QED BY <1>4, <2>2, <2>3 DEF WaitInv, AckInv
<1>7. state'[c] = "failed" \/ UNCHANGED accepted
  BY <1>0 DEF CompleteFailed, Fails, Become, Look, TypeOK
<1> QED BY <1>5, <1>6, <1>7 DEF CompleteFailed

\* A client that begins an upload is not asleep yet.
LEMMA BeginUploadWaits ==
  ASSUME IInv, WaitInv, TypeOK', Final,
         NEW c \in Capture, NEW u \in Upload, NEW body \in Content, BeginUpload(u, c, body)
  PROVE  WaitInv'
<1> USE DEF clockVars, photoVars
<1>0. TypeOK BY DEF IInv
<1>1. Closes(c) /\ late \subseteq late' /\ Waits
  BY <1>0, LookCloses DEF BeginUpload, Closes, Waits
<1>2. Rouses /\ asleep' \subseteq asleep BY <1>0, LookRouses DEF BeginUpload
<1>3. u \notin asleep BY WaiterAssumption DEF BeginUpload, WaitInv, SleepInv, SleepersWait
<1>4. Dozes BY <1>0, <1>2, <1>3 DEF BeginUpload, Dozes, TypeOK
<1> QED BY <1>1, <1>2, <1>4, ClosesForward, MovesKeep DEF BeginUpload, Moves

\* An upload falls asleep after it has seen that the transaction is open.
LEMMA UploadChecksWaits ==
  ASSUME IInv, WaitInv, TypeOK', Final, NEW u \in Upload, UploadChecks(u)
  PROVE  WaitInv'
<1> DEFINE c == upload[u].capture
<1> USE DEF clockVars, photoVars
<1>0. TypeOK BY DEF IInv
<1>1. CASE Uploadable(c)
  <2>1. asleep' = asleep \cup {u} /\ UNCHANGED <<state, upload>> BY <1>1 DEF UploadChecks
  <2>2. Closes(c) /\ late \subseteq late' /\ Waits BY <2>1 DEF UploadChecks, Closes, Waits
  <2>3. AckInv' /\ CallInv'
    BY <2>2, ClosesForward, AcksKept, CallsKept DEF WaitInv, UploadChecks
  <2>4. SleepersWait'
    BY <2>1, WaiterAssumption DEF UploadChecks, WaitInv, SleepInv, SleepersWait
  <2>5. c \notin deleted /\ state[c] \notin {"failed", "cancelled", "expired"}
    BY <1>1 DEF Uploadable, Seen, TerminalState
  <2>6. NobodyOversleeps'
    BY <2>1, <2>5, WaiterAssumption DEF UploadChecks, WaitInv, SleepInv, NobodyOversleeps
  <2> QED BY <2>3, <2>4, <2>6 DEF WaitInv, SleepInv
<1>2. CASE ~Uploadable(c)
  <2>1. Closes(c) /\ late \subseteq late' /\ Waits
    BY <1>0, <1>2, LookCloses DEF UploadChecks, Closes, Waits, Found, TypeOK
  <2>2. Rouses /\ asleep' \subseteq asleep
    <3>1. CASE Found(c) BY <1>0, <1>2, <3>1, LookRouses DEF UploadChecks
    <3>2. CASE ~Found(c) BY <1>2, <3>2 DEF UploadChecks, Rouses
    <3> QED BY <3>1, <3>2
  <2>3. Dozes BY <1>0, <1>2, <2>2 DEF UploadChecks, Dozes, TypeOK
  <2> QED BY <2>1, <2>2, <2>3, ClosesForward, MovesKeep DEF UploadChecks, Moves
<1> QED BY <1>1, <1>2

\* An upload that ends was woken up.
LEMMA UploadAbortsWaits ==
  ASSUME IInv, WaitInv, TypeOK', Final, NEW u \in Upload, UploadAborts(u)
  PROVE  WaitInv'
<1> USE DEF storeVars, clockVars, photoVars
<1>1. Closes(upload[u].capture) /\ late \subseteq late' /\ Waits
  BY DEF UploadAborts, Closes, Waits
<1>2. Rouses /\ Dozes BY DEF UploadAborts, Rouses, Dozes, IInv, TypeOK
<1> QED BY <1>1, <1>2, ClosesForward, MovesKeep DEF UploadAborts, Moves

\* A body that is stored, or refused, ends its upload and wakes up who waits for the capture.
LEMMA SaveWaits ==
  ASSUME IInv, WaitInv, TypeOK', Final, NEW u \in Upload, SaveUpload(u)
  PROVE  WaitInv'
<1> DEFINE c == upload[u].capture
           body == upload[u].body
<1> USE DEF storeVars, clockVars, photoVars
<1>0. TypeOK /\ c \in Capture BY DEF IInv, TypeOK, SaveUpload
<1>w. Waits /\ UNCHANGED <<late, known, aged, agedRecord, deleted, proof, accepted>>
  BY DEF SaveUpload, Waits
<1>u. asleep' \subseteq asleep \ {u} => Dozes BY <1>0, <1>w DEF SaveUpload, Dozes, Waits, TypeOK
<1>1. CASE Storable(c) /\ Stores(u, c, body)
  <2>1. Open(c) BY <1>1, OpenIsSeen DEF Storable, Uploadable, Found, Seen, Open, StateTellsImage,
                   IInv, StoreInv, SuccessIsProven, TypeOK, State, TerminalState
  <2>2. \A x \in Capture : x # c => state'[x] = state[x] /\ record'[x] = record[x]
    BY <1>1 DEF Stores, Become, IInv, TypeOK
  <2>3. state'[c] # "new" BY <1>0, <1>1 DEF Stores, Become, TypeOK
  <2>4. Forward
    <3>1. ASSUME NEW x \in Capture, Open(x)' PROVE Open(x)
      BY <1>w, <2>1, <2>2, <3>1 DEF Open, Retired
    <3>2. state[c] \notin TerminalState BY <2>1 DEF Open
    <3> QED BY <1>w, <2>2, <2>3, <3>1, <3>2 DEF Forward
  <2>5. Rouses
    <3>1. asleep' \cap WaitersOn(c) = {} BY <1>1 DEF Stores
    <3> QED BY <1>w, <2>2, <3>1 DEF Rouses
  <2>6. Dozes BY <1>1, <1>u DEF Stores
  <2> QED BY <1>w, <2>4, <2>5, <2>6, MovesKeep DEF Moves
<1>2. CASE StoresNothing(u, c) /\ reserved' \subseteq reserved
  <2>1. \/ UNCHANGED state
        \/ state[c] \notin TerminalState /\ Become(c, "expired") /\ asleep' = asleep \ (WaitersOn(c) \cup {u})
    BY <1>0, <1>2 DEF StoresNothing, Seen, Become, TypeOK
  <2>2. Closes(c) BY <1>2, <2>1 DEF SaveUpload, Closes, StoresNothing
  <2>3. Rouses
    <3>1. CASE UNCHANGED state BY <1>w, <3>1 DEF Rouses
    <3>2. CASE Become(c, "expired") /\ asleep' = asleep \ (WaitersOn(c) \cup {u})
      <4>1. \A x \in Capture : x # c => state'[x] = state[x] BY <3>2 DEF Become, IInv, TypeOK
      <4> QED BY <1>w, <3>2, <4>1 DEF Rouses
    <3> QED BY <2>1, <3>1, <3>2
  <2>4. Dozes BY <1>2, <1>u DEF StoresNothing
  <2> QED BY <1>w, <2>2, <2>3, <2>4, ClosesForward, MovesKeep DEF Moves
<1> QED BY <1>1, <1>2 DEF SaveUpload

\* A negative command result.
LEMMA CommandFailsWaits ==
  ASSUME IInv, WaitInv, TypeOK', Final, NEW d \in Device, CommandFails(d)
  PROVE  WaitInv'
<1> DEFINE c == active[d]
<1> USE DEF clockVars, photoVars
<1>0. TypeOK /\ (Found(c) => c \in Capture) BY DEF IInv, Found, TypeOK
<1>1. CASE Found(c) /\ Seen(c) \notin TerminalState
  <2>1. Closes(c) /\ late \subseteq late' /\ Waits
    BY <1>1 DEF CommandFails, Closes, Waits, Fails, Seen
  <2>2. Rouses /\ Dozes BY <1>0, <1>1, FailsRouses DEF CommandFails, Dozes
  <2> QED BY <2>1, <2>2, ClosesForward, MovesKeep DEF CommandFails, Moves
<1>2. CASE ~(Found(c) /\ Seen(c) \notin TerminalState)
  <2>1. Closes(c) /\ late \subseteq late' /\ Waits
    BY <1>0, <1>2, LookCloses DEF CommandFails, Closes, Waits
  <2>2. Rouses /\ Dozes
    <3>1. CASE Found(c) BY <1>0, <1>2, <3>1, LookRouses DEF CommandFails, Dozes
    <3>2. CASE ~Found(c) BY <1>2, <3>2 DEF CommandFails, Rouses, Dozes
    <3> QED BY <3>1, <3>2
  <2> QED BY <2>1, <2>2, ClosesForward, MovesKeep DEF CommandFails, Moves
<1> QED BY <1>1, <1>2

(***************************************************************************)
(* take_photo.                                                             *)
(***************************************************************************)
\* It falls asleep only while the transaction is open, and returns only after its success.
LEMMA PhotoChecksWaits ==
  ASSUME IInv, WaitInv, TypeOK', Final, NEW d \in Device, PhotoChecks(d)
  PROVE  WaitInv'
<1> DEFINE c == active[d]
<1> USE DEF clockVars, photoVars
<1>0. TypeOK /\ c \in Capture
  BY DEF PhotoChecks, WaitInv, CallInv, CallHasCapture, IInv, TypeOK
<1>1. CASE Found(c) /\ Seen(c) \notin TerminalState
  <2>1. /\ asleep' = asleep \cup {d} /\ photo[d] = "waiting"
        /\ UNCHANGED <<known, reserved, proof, deleted, record, late, aged, agedRecord,
                       state, photo, active, upload, accepted>>
    BY <1>1 DEF PhotoChecks
  <2>2. Closes(c) /\ late \subseteq late' /\ Waits BY <2>1 DEF Closes, Waits
  <2>3. AckInv' /\ CallInv'
    BY <2>1, <2>2, ClosesForward, AcksKept, CallsKept DEF WaitInv
  <2>4. SleepersWait' BY <2>1, WaiterAssumption DEF WaitInv, SleepInv, SleepersWait
  <2>5. state[c] \notin TerminalState BY <1>1 DEF Seen
  <2>6. NobodyOversleeps'
    BY <2>1, <2>5, WaiterAssumption DEF WaitInv, SleepInv, NobodyOversleeps
  <2> QED BY <2>3, <2>4, <2>6 DEF WaitInv, SleepInv
<1>2. CASE ~(Found(c) /\ Seen(c) \notin TerminalState)
  <2>1. Closes(c) /\ late \subseteq late'
    BY <1>0, <1>2, LookCloses DEF PhotoChecks, Closes
  <2>2. photo' = [photo EXCEPT ![d] = IF Found(c) /\ Seen(c) = "succeeded" /\ record[c] # None
                                        THEN "returning" ELSE "raising"]
    BY <1>2 DEF PhotoChecks, Photo
  <2>3. photo'[d] = "returning" => state'[c] \in TerminalState
    BY <1>0, <1>2, <2>2 DEF PhotoChecks, Look, Become, TypeOK, TerminalState
  <2>4. Waits BY <1>0, <2>2, <2>3 DEF PhotoChecks, Waits, TypeOK
  <2>5. Rouses /\ asleep' \subseteq asleep
    <3>1. CASE Found(c) BY <1>0, <1>2, <3>1, LookRouses DEF PhotoChecks
    <3>2. CASE ~Found(c) BY <1>2, <3>2 DEF PhotoChecks, Rouses
    <3> QED BY <3>1, <3>2
  <2>6. Dozes BY <1>0, <2>2, <2>5 DEF PhotoChecks, Dozes, TypeOK
  <2> QED BY <2>1, <2>4, <2>5, <2>6, ClosesForward, MovesKeep DEF PhotoChecks, Moves
<1> QED BY <1>1, <1>2

\* Its timer and its cancellation wake it up.
LEMMA PhotoEndsWaits ==
  ASSUME IInv, WaitInv, TypeOK', Final, NEW d \in Device, PhotoTimesOut(d) \/ PhotoAborts(d)
  PROVE  WaitInv'
<1> DEFINE c == active[d]
<1> USE DEF storeVars, clockVars, photoVars
<1>0. TypeOK BY DEF IInv
<1>1. CASE PhotoTimesOut(d)
  <2>1. Closes(c) /\ late \subseteq late' /\ Waits BY <1>1 DEF PhotoTimesOut, Closes, Waits
  <2>2. Rouses BY <1>0, <1>1 DEF PhotoTimesOut, Rouses, Become, TypeOK
  <2>3. Dozes BY <1>1 DEF PhotoTimesOut, Dozes
  <2> QED BY <1>1, <2>1, <2>2, <2>3, ClosesForward, MovesKeep DEF PhotoTimesOut, Moves
<1>2. CASE PhotoAborts(d)
  <2>1. Closes(c) /\ late \subseteq late' BY <1>2 DEF PhotoAborts, Closes
  <2>2. Waits BY <1>0, <1>2 DEF PhotoAborts, Photo, Waits, TypeOK
  <2>3. Rouses /\ Dozes BY <1>0, <1>2 DEF PhotoAborts, Photo, Rouses, Dozes, TypeOK
  <2> QED BY <1>2, <2>1, <2>2, <2>3, ClosesForward, MovesKeep DEF PhotoAborts, Moves
<1> QED BY <1>1, <1>2

\* When it has ended, its capture has too.
LEMMA CleanupWaits ==
  ASSUME IInv, WaitInv, TypeOK', Final, NEW d \in Device, Cleanup(d)
  PROVE  WaitInv'
<1> PICK c \in Capture : active[d] = c
  BY DEF Cleanup, WaitInv, CallInv, CallHasCapture, IInv, TypeOK
<1> USE DEF clockVars
<1>0. TypeOK BY DEF IInv
<1>1. /\ photo' = [photo EXCEPT ![d] = "idle"] /\ active' = [active EXCEPT ![d] = None]
      /\ UNCHANGED <<known, proof, deleted, record, late, aged, agedRecord, upload, accepted>>
  BY DEF Cleanup, Photo
<1>2. Closes(c)
  <2>1. CASE photo[d] # "raising" BY <2>1 DEF Cleanup, Closes
  <2>2. CASE photo[d] = "raising"
    BY <1>0, <2>2, LookCloses DEF Cleanup, Cancel, Closes, Seen
  <2> QED BY <2>1, <2>2
<1>3. Forward BY <1>1, <1>2, ClosesForward
<1>4. ~Open(c)'
  <2>1. CASE photo[d] # "raising"
    BY <1>0, <1>3, <2>1 DEF Cleanup, WaitInv, CallInv, CallHasCapture, Forward, Open
  <2>2. CASE photo[d] = "raising" /\ Open(c)
    BY <1>0, <2>2, OpenIsSeen DEF Cleanup, Cancel, Become, TypeOK, Open, TerminalState
  <2>3. CASE photo[d] = "raising" /\ ~Open(c)
    <3>1. Open(c)' => \E e \in Device : active[e] = None /\ active'[e] = c
      BY <1>0, <1>3, <2>3 DEF Forward
    <3> QED BY <1>0, <1>1, <3>1, NoneAssumption DEF TypeOK
  <2> QED BY <2>1, <2>2, <2>3
<1>5. CallHasCapture'
  BY <1>0, <1>1, <1>3, NoneAssumption DEF CallHasCapture, WaitInv, CallInv, TypeOK, Forward
<1>6. AbandonedIsClosed'
  <2> SUFFICES ASSUME NEW x \in Capture, Open(x)' PROVE \E e \in Device : active'[e] = x
    BY DEF AbandonedIsClosed, Open, Found, Seen, TerminalState
  <2>1. x # c BY <1>4
  <2>2. Open(x) \/ \E e \in Device : active'[e] = x BY <1>3 DEF Forward
  <2>3. ASSUME Open(x) PROVE \E e \in Device : active'[e] = x
    <3>1. PICK e \in Device : active[e] = x
      BY <2>3, OpenIsSeen DEF WaitInv, CallInv, AbandonedIsClosed
    <3> QED BY <1>0, <1>1, <2>1, <3>1 DEF TypeOK
  <2> QED BY <2>2, <2>3
<1>7. Rouses /\ asleep' \subseteq asleep
  <2>1. CASE photo[d] # "raising" BY <1>1, <2>1 DEF Cleanup, Rouses
  <2>2. CASE photo[d] = "raising" /\ Found(c) /\ Seen(c) \notin TerminalState
    <3>1. asleep' = asleep \ WaitersOn(c) /\ \A x \in Capture : x # c => state'[x] = state[x]
      BY <1>0, <2>2 DEF Cleanup, Cancel, Signal, Become, TypeOK
    <3> QED BY <1>1, <3>1 DEF Rouses
  <2>3. CASE photo[d] = "raising" /\ Found(c) /\ Seen(c) \in TerminalState
    BY <1>0, <1>1, <2>3, LookRouses DEF Cleanup, Cancel
  <2>4. CASE photo[d] = "raising" /\ ~Found(c) BY <1>1, <2>4 DEF Cleanup, Cancel, Rouses
  <2> QED BY <2>1, <2>2, <2>3, <2>4
<1>8. d \notin asleep BY DEF Cleanup, WaitInv, SleepInv, SleepersWait
<1>9. Dozes BY <1>0, <1>1, <1>7, <1>8 DEF Dozes, TypeOK
<1> QED BY <1>1, <1>3, <1>5, <1>6, <1>7, <1>9, AcksKept, SleepKept DEF WaitInv, CallInv, Moves

(***************************************************************************)
(* The other steps.                                                        *)
(***************************************************************************)
\* The sweep goes forward, and wakes up who waits for what it drops.
LEMMA SweepMoves ==
  ASSUME IInv, NEW new \in SUBSET {c \in Capture : state[c] = "new"}, SweepAndReserve(new),
         UNCHANGED <<clockVars, upload>>,
         \A c \in new : \E d \in Device : active[d] = None /\ active'[d] = c
  PROVE  Forward /\ Rouses /\ asleep' \subseteq asleep
<1> USE DEF SweepAndReserve, clockVars, IInv, TypeOK
<1>1. ASSUME NEW c \in Capture, Open(c)'
      PROVE  Open(c) \/ \E d \in Device : active[d] = None /\ active'[d] = c
  <2>1. CASE c \in new BY <2>1
  <2>2. CASE c \notin new
    BY <1>1, <2>2 DEF Open, Retired, TerminalState
  <2> QED BY <2>1, <2>2
<1>2. Forward BY <1>1 DEF Forward, TerminalState
<1>3. Rouses BY DEF Rouses, TerminalState
<1>4. asleep' \subseteq asleep OBVIOUS
<1> QED BY <1>2, <1>3, <1>4

\* The end of a retention.
LEMMA RetentionWaits ==
  ASSUME IInv, WaitInv, TypeOK', Final, NEW c \in Capture, RetentionEnds(c)
  PROVE  WaitInv'
<1> USE DEF storeVars, photoVars
<1>1. ASSUME NEW x \in Capture, Open(x)' PROVE Open(x)
  BY <1>1 DEF RetentionEnds, Open, Retired, IInv, TypeOK
<1>2. Forward BY <1>1 DEF RetentionEnds, Forward
<1>3. Waits /\ Rouses /\ Dozes BY DEF RetentionEnds, Waits, Rouses, Dozes
<1> QED BY <1>2, <1>3, MovesKeep DEF RetentionEnds, Moves

\* A deletion wakes up the uploads: there is nothing to add to.
LEMMA DeleteWaits ==
  ASSUME IInv, WaitInv, TypeOK', Final, NEW c \in Capture, Delete(c)
  PROVE  WaitInv'
<1> USE DEF clockVars, photoVars
<1>0. c \in known BY DEF Delete, IInv, StoreInv, ImagesAreKnown
<1>1. ASSUME NEW x \in Capture, Open(x)' PROVE Open(x)
  BY <1>1 DEF Delete, Open, Retired, IInv, TypeOK, StoreInv, ImagesAgeLater
<1>2. Forward BY <1>1 DEF Delete, Forward
<1>3. Waits BY DEF Delete, Waits
<1>4. Rouses /\ Dozes BY <1>0 DEF Delete, Signal, Rouses, Dozes
<1> QED BY <1>2, <1>3, <1>4, MovesKeep DEF Delete, Moves

\* A proof is acknowledged when it is stored, or was the accepted one.
LEMMA CompleteWaits ==
  ASSUME IInv, WaitInv, TypeOK', Final, NEW c \in Capture, NEW body \in Content, Complete(c, body)
  PROVE  WaitInv'
<1> USE DEF clockVars, photoVars
<1>0. TypeOK /\ c \in known BY DEF IInv, Complete, Found
<1>w. Waits BY DEF Complete, Waits
<1>1. CASE Repeats(c, body) /\ UNCHANGED accepted
  <2>1. Closes(c) /\ late \subseteq late' BY <1>0, <1>1, LookCloses DEF Complete, Repeats, Closes
  <2>2. Rouses /\ Dozes BY <1>0, <1>1, LookRouses DEF Complete, Repeats, Dozes
  <2> QED BY <1>1, <1>w, <2>1, <2>2, ClosesForward, MovesKeep DEF Complete, Repeats, Moves
<1>2. CASE UNCHANGED <<state, proof, asleep, accepted>>
  <2>1. Closes(c) /\ late \subseteq late' BY <1>2 DEF Complete, Closes
  <2>2. Rouses /\ Dozes BY <1>2 DEF Complete, Rouses, Dozes
  <2> QED BY <1>2, <1>w, <2>1, <2>2, ClosesForward, MovesKeep DEF Complete, Moves
<1>3. CASE Repeats(c, body) /\ Seen(c) = "succeeded" /\ proof[c] = body /\ Acknowledge(c, body)
  <2>1. body \in accepted[c]
    BY <1>3, <1>0, NoneAssumption DEF WaitInv, AckInv, ProofIsAcked, TypeOK
  <2>2. UNCHANGED accepted BY <1>0, <1>3, <2>1 DEF Acknowledge, TypeOK
  <2> QED BY <1>1, <1>3, <2>2
<1>4. CASE Seen(c) \notin TerminalState /\ ~Contradicts(c, body) /\ Proves(c, body)
  <2>1. /\ proof' = [proof EXCEPT ![c] = body]
        /\ accepted' = [accepted EXCEPT ![c] = @ \cup {body}]
        /\ asleep' = asleep \ WaitersOn(c)
        /\ UNCHANGED <<known, deleted, record, late, aged, agedRecord, active, photo, upload>>
    BY <1>4 DEF Complete, Proves, Signal, Acknowledge
  <2>2. state[c] \notin TerminalState /\ state[c] # "new"
    BY <1>0, <1>4 DEF Seen, IInv, StoreInv, StateTellsImage
  <2>3. state'[c] # "new" /\ \A x \in Capture : x # c => state'[x] = state[x]
    BY <1>0, <1>4, <2>2 DEF Proves, Become, TypeOK
  <2>4. Open(c) BY <1>0, <1>4, OpenIsSeen DEF Complete
  <2>5. ASSUME NEW x \in Capture, Open(x)' PROVE Open(x)
    BY <2>1, <2>3, <2>4, <2>5 DEF Open, Retired
  <2>6. Forward BY <2>1, <2>2, <2>3, <2>5 DEF Forward
  <2>7. Rouses /\ Dozes BY <2>1, <2>3 DEF Rouses, Dozes
  <2>8. ProofIsAcked'
    BY <1>0, <2>1, <2>3, NoneAssumption DEF ProofIsAcked, WaitInv, AckInv, TypeOK
  <2>9. AcksHold'
    <3> SUFFICES ASSUME NEW x \in Capture
                 PROVE  /\ accepted'[x] \ {None} \subseteq {proof'[x]}
                        /\ None \in accepted'[x] /\ x \in known => state'[x] = "failed"
      BY <2>1 DEF AcksHold
    <3>1. CASE x = c
      <4>1. accepted[c] \ {None} \subseteq {body}
        BY <1>4 DEF Contradicts, WaitInv, AckInv, AcksHold
      <4>2. None \notin accepted[c]
        BY <1>0, <2>2 DEF WaitInv, AckInv, AcksHold, TerminalState
      <4> QED BY <1>0, <2>1, <3>1, <4>1, <4>2, NoneAssumption DEF TypeOK
    <3>2. CASE x # c BY <1>0, <2>1, <2>3, <3>2 DEF WaitInv, AckInv, AcksHold, TypeOK
    <3> QED BY <3>1, <3>2
  <2> QED BY <1>w, <2>6, <2>7, <2>8, <2>9, CallsKept, SleepKept DEF WaitInv, AckInv, Moves
<1> QED BY <1>1, <1>2, <1>3, <1>4 DEF Complete, Repeats

\* take_photo gives its capture a caller.
LEMMA TakePhotoWaits ==
  ASSUME IInv, WaitInv, TypeOK', Final, NEW d \in Device, NEW c \in Capture, TakePhoto(d, c)
  PROVE  WaitInv'
<1> USE DEF clockVars, photoVars
<1>0. TypeOK BY DEF IInv
<1>1. CASE SweepAndReserve({}) /\ UNCHANGED photoVars
  <2>1. Forward /\ Rouses /\ asleep' \subseteq asleep BY <1>1, SweepMoves DEF TakePhoto
  <2>2. Dozes /\ Waits BY <1>1, <2>1 DEF TakePhoto, Dozes, Waits
  <2> QED BY <1>1, <2>1, <2>2, MovesKeep DEF TakePhoto, SweepAndReserve, Moves
<1>2. CASE /\ SweepAndReserve({c})
           /\ active' = [active EXCEPT ![d] = c]
           /\ photo' = [photo EXCEPT ![d] = "waiting"]
  <2>1. Forward /\ Rouses /\ asleep' \subseteq asleep
    BY <1>0, <1>2, SweepMoves DEF TakePhoto, TypeOK
  <2>2. active[d] = None /\ photo[d] = "idle" /\ d \notin asleep
    BY DEF TakePhoto, WaitInv, CallInv, CallHasCapture, SleepInv, SleepersWait
  <2>3. Dozes BY <1>0, <1>2, <2>1, <2>2 DEF TakePhoto, Dozes, TypeOK
  <2>4. CallHasCapture'
    BY <1>0, <1>2, <2>1, <2>2, NoneAssumption DEF CallHasCapture, WaitInv, CallInv, TypeOK, Forward
  <2>5. AbandonedIsClosed'
    <3> SUFFICES ASSUME NEW x \in Capture, Open(x)' PROVE \E e \in Device : active'[e] = x
      BY DEF AbandonedIsClosed, Open, Found, Seen, TerminalState
    <3>1. Open(x) => \E e \in Device : active[e] = x
      BY OpenIsSeen DEF WaitInv, CallInv, AbandonedIsClosed
    <3> QED BY <1>0, <1>2, <2>1, <2>2, <3>1, NoneAssumption DEF Forward, TypeOK
  <2> QED BY <1>2, <2>1, <2>3, <2>4, <2>5, AcksKept, SleepKept
          DEF WaitInv, CallInv, Moves, TakePhoto, SweepAndReserve
<1> QED BY <1>1, <1>2 DEF TakePhoto

\* The periodic sweep.
LEMMA PurgeWaits == ASSUME IInv, WaitInv, TypeOK', Final, Purge PROVE WaitInv'
<1> USE DEF photoVars
<1>1. Forward /\ Rouses /\ asleep' \subseteq asleep BY SweepMoves DEF Purge
<1>2. Dozes /\ Waits BY <1>1 DEF Purge, Dozes, Waits
<1> QED BY <1>1, <1>2, MovesKeep DEF Purge, SweepAndReserve, Moves

\* A step that changes nothing.
LEMMA StutterWaits == ASSUME WaitInv, UNCHANGED vars PROVE WaitInv'
<1> USE DEF vars, storeVars, clockVars, photoVars
<1>1. AckInv' BY DEF WaitInv, AckInv, ProofIsAcked, AcksHold
<1>2. CallInv'
  BY DEF WaitInv, CallInv, CallHasCapture, AbandonedIsClosed, Found, Seen, Retired
<1>3. SleepInv' BY DEF WaitInv, SleepInv, SleepersWait, NobodyOversleeps
<1> QED BY <1>1, <1>2, <1>3 DEF WaitInv

\* The second invariant holds of every behaviour as well.
THEOREM WaitersCorrect == Spec => [](IInv /\ WaitInv)
<1>1. ASSUME IInv, WaitInv, [Next]_vars PROVE WaitInv'
  <2>1. CASE UNCHANGED vars BY <1>1, <2>1, StutterWaits
  <2>2. CASE Next
    <3>1. TypeOK' /\ Final BY <1>1, <2>2, NextSound DEF Sound
    <3> QED BY <1>1, <2>2, <3>1, ClientWaits, CompleteFailedWaits, BeginUploadWaits, UploadChecksWaits,
               UploadAbortsWaits, SaveWaits, CommandFailsWaits, PhotoChecksWaits, PhotoEndsWaits,
               CleanupWaits, RetentionWaits, DeleteWaits, CompleteWaits, TakePhotoWaits, PurgeWaits
            DEF Next
  <2> QED BY <1>1, <2>1, <2>2
<1> QED BY <1>1, InitWaits, Invariance, PTL DEF Spec

\* What the device was told stays true (the return value of complete).
THEOREM AcknowledgementsHold == Spec => []AcksHold
<1>1. WaitInv => AcksHold BY DEF WaitInv, AckInv
<1> QED BY <1>1, WaitersCorrect, PTL

\* No reservation is left open without a caller (the finally block of take_photo, cancel).
THEOREM AbandonedAreClosed == Spec => []AbandonedIsClosed
<1>1. WaitInv => AbandonedIsClosed BY DEF WaitInv, CallInv
<1> QED BY <1>1, WaitersCorrect, PTL

\* The shared Event loses no wake-up (wait_for_completion, wait_upload_closed).
THEOREM WakeUpsArrive == Spec => []NobodyOversleeps
<1>1. WaitInv => NobodyOversleeps BY DEF WaitInv, SleepInv
<1> QED BY <1>1, WaitersCorrect, PTL

\* What DeliveredIsProven asks of a step.
Delivers ==
  \A d \in Device : photo[d] = "waiting" /\ photo'[d] = "returning" =>
    record[active[d]] \in accepted[active[d]] \ {None}

\* take_photo returns the image that the device was told it is (wait_for_completion).
THEOREM DeliveriesAreProven == Spec => DeliveredIsProven
<1>1. ASSUME IInv, WaitInv, Next PROVE Delivers
  <2> SUFFICES ASSUME NEW d \in Device, photo[d] = "waiting", photo'[d] = "returning"
               PROVE  record[active[d]] \in accepted[active[d]] \ {None}
    BY DEF Delivers
  <2>0. photo \in [Device -> {"idle", "waiting", "returning", "raising"}] BY <1>1 DEF IInv, TypeOK
  <2>1. photo' # photo OBVIOUS
  <2>2. ASSUME NEW c \in Capture, NEW body \in Content PROVE ~Complete(c, body)
    BY <2>1 DEF Complete, photoVars
  <2>3. ASSUME NEW c \in Capture
        PROVE  ~(DeadlinePasses(c) \/ RetentionEnds(c) \/ CompleteFailed(c) \/ Delete(c) \/ Get(c) \/ Status(c))
    BY <2>1 DEF DeadlinePasses, RetentionEnds, CompleteFailed, Delete, Get, Status, photoVars
  <2>4. ASSUME NEW c \in Capture, NEW e \in Device PROVE ~TakePhoto(e, c)
    BY <2>0, <2>1 DEF TakePhoto, photoVars
  <2>5. ASSUME NEW u \in Upload
        PROVE  /\ ~UploadChecks(u) /\ ~UploadAborts(u) /\ ~SaveUpload(u)
               /\ \A c \in Capture, body \in Content : ~BeginUpload(u, c, body)
    BY <2>1 DEF UploadChecks, UploadAborts, SaveUpload, BeginUpload, photoVars
  <2>6. ASSUME NEW e \in Device
        PROVE  ~CommandFails(e) /\ ~PhotoTimesOut(e) /\ ~PhotoAborts(e) /\ ~Cleanup(e)
    BY <2>0, <2>1 DEF CommandFails, PhotoTimesOut, PhotoAborts, Cleanup, Photo, photoVars
  <2>7. ~Purge BY <2>1 DEF Purge, photoVars
  <2>8. PICK e \in Device : PhotoChecks(e) BY <1>1, <2>2, <2>3, <2>4, <2>5, <2>6, <2>7 DEF Next
  <2>9. e = d /\ Found(active[d]) /\ Seen(active[d]) = "succeeded" /\ record[active[d]] # None
    BY <2>0, <2>8 DEF PhotoChecks, Photo
  <2>10. active[d] \in known /\ state[active[d]] = "succeeded" /\ active[d] \in Capture
    BY <1>1, <2>9 DEF Found, Seen, IInv, TypeOK
  <2>11. record[active[d]] = proof[active[d]] BY <1>1, <2>9, <2>10 DEF IInv, StoreInv, SuccessIsProven
  <2> QED BY <1>1, <2>9, <2>10, <2>11 DEF WaitInv, AckInv, ProofIsAcked
<1>2. ASSUME IInv, WaitInv, [Next]_vars PROVE [Delivers]_vars BY <1>1, <1>2
<1>3. [Delivers]_vars =>
        [\A d \in Device : photo[d] = "waiting" /\ photo'[d] = "returning" =>
           record[active[d]] \in accepted[active[d]] \ {None}]_vars
  BY DEF Delivers
<1> QED BY <1>2, <1>3, WaitersCorrect, PTL DEF Spec, DeliveredIsProven
(***************************************************************************)
(* Every behaviour of the store is one of PhotoTransaction. The kinds of   *)
(* step that are sound are also the steps of a transaction; that a step    *)
(* which ends a capture does not end one that was never reserved needs one *)
(* more fact about take_photo.                                             *)
(***************************************************************************)
CallReserved == \A d \in Device : active[d] # None => state[active[d]] # "new"

MapsToTxn == Txn!TxnNext \/ UNCHANGED <<Stage, record, Taken, proof>>

\* Nothing is reserved, and nothing called, at first.
LEMMA TxnInitMaps == Init => Txn!TxnInit /\ CallReserved
  BY NoneAssumption DEF Init, Txn!TxnInit, Stage, Taken, CallReserved

\* A capture ends, loses its image, or both.
LEMMA ClosesMaps ==
  ASSUME IInv, CallReserved, NEW c, EndsOne(c) PROVE MapsToTxn /\ CallReserved'
<1> USE DEF EndsOne, Closes, Become, IInv, StoreInv, TypeOK
<1>1. CallReserved' BY DEF CallReserved, CallsOnlyEnd, TerminalState
<1> SUFFICES MapsToTxn BY <1>1
<1>2. Taken' = Taken BY DEF Taken, ImagesAgeLater
<1>3. CASE UNCHANGED state
  <2>1. Stage' = Stage BY <1>3 DEF Stage
  <2>2. CASE UNCHANGED record BY <1>2, <2>1, <2>2 DEF MapsToTxn
  <2>3. CASE c \in agedRecord /\ record' = [record EXCEPT ![c] = None]
    BY <1>2, <2>1, <2>3 DEF MapsToTxn, Txn!TxnNext, Txn!Lose, Txn!Loses
  <2> QED BY <2>2, <2>3
<1>4. CASE ~UNCHANGED state
  <2>1. PICK s \in {"failed", "cancelled", "expired"} : state' = [state EXCEPT ![c] = s] BY <1>4
  <2>2. c \in Capture /\ state[c] \notin TerminalState BY <1>4, <2>1
  <2>3. state[c] # "new" BY <1>4, <2>2, NoneAssumption DEF IsHeld, CallReserved, StateTellsImage
  <2>4. CASE c \in known
    <3>1. Stage[c] = "open" BY <2>2, <2>4 DEF Stage
    <3>2. Stage' = [Stage EXCEPT ![c] = s]
      <4>1. s \in TerminalState BY DEF TerminalState
      <4>2. known' = known /\ state'[c] = s /\ \A x \in Capture \ {c} : state'[x] = state[x]
        BY <2>1, <2>2
      <4>3. Stage'[c] = s /\ \A x \in Capture \ {c} : Stage'[x] = Stage[x]
        BY <2>2, <2>4, <4>1, <4>2 DEF Stage
      <4> QED BY <2>2, <4>3 DEF Stage
    <3>3. Txn!Close(c, s) BY <1>2, <3>1, <3>2 DEF Txn!Close, Txn!Loses
    <3> QED BY <2>2, <3>3 DEF MapsToTxn, Txn!TxnNext, Txn!Failure
  <2>5. CASE c \notin known
    <3>1. Stage' = Stage BY <2>1, <2>2, <2>3, <2>5 DEF Stage
    <3>2. UNCHANGED record \/ Txn!Loses(c) BY DEF Txn!Loses
    <3> QED BY <1>2, <2>2, <3>1, <3>2 DEF MapsToTxn, Txn!TxnNext, Txn!Lose
  <2> QED BY <2>4, <2>5
<1> QED BY <1>3, <1>4

\* The sweep forgets captures with their images, and reserves fresh ones.
LEMMA SweepMaps ==
  ASSUME IInv, CallReserved, NEW new \in SUBSET {c \in Capture : state[c] = "new"}, SweepAndReserve(new),
         UNCHANGED clockVars, \A d \in Device : active'[d] \in {active[d], None} \cup new
  PROVE  MapsToTxn /\ CallReserved'
<1> USE DEF SweepAndReserve, IInv, StoreInv, TypeOK, clockVars
<1> DEFINE gone == {c \in known : Retired(c)}
<1>1. gone \in SUBSET Capture /\ new \in SUBSET Capture OBVIOUS
<1>2. CallReserved' BY DEF CallReserved
<1>3. Taken' = Taken BY DEF Taken, ImagesAreKnown, Retired, NewIsBlank
<1>4. Stage' = [c \in Capture |->
         IF c \in new THEN "open" ELSE IF c \in gone THEN "forgotten" ELSE Stage[c]]
  BY DEF Stage, NewIsBlank, TerminalState
<1>5. record' = [c \in Capture |-> IF c \in gone THEN None ELSE record[c]]
  BY DEF Retired, ImagesAreKnown
<1>6. (\A c \in gone : Stage[c] \notin {"none", "forgotten"}) /\ \A c \in new : Stage[c] = "none"
  BY DEF Stage, NewIsBlank, TerminalState
<1>7. Txn!Turnover(gone, new) BY <1>3, <1>4, <1>5, <1>6 DEF Txn!Turnover
<1> QED BY <1>1, <1>2, <1>7 DEF MapsToTxn, Txn!TxnNext

\* An image is taken by an open capture that has had none.
LEMMA StoresMaps ==
  ASSUME IInv, CallReserved, NEW u \in Upload, NEW c, NEW body \in Content, Storable(c),
         Stores(u, c, body), UNCHANGED <<known, proof, deleted, clockVars, active>>
  PROVE  MapsToTxn /\ CallReserved'
<1> USE DEF IInv, StoreInv, TypeOK, clockVars, Stores, Become
<1>1. c \in known /\ c \in Capture BY DEF Storable, Uploadable, Found
<1>2. state[c] = "reserved" /\ c \notin aged \cup deleted /\ record[c] = None
  BY <1>1 DEF Storable, Uploadable, Seen, StateTellsImage, SuccessIsProven, State, TerminalState
<1>3. Stage[c] = "open" /\ c \notin Taken
  BY <1>1, <1>2 DEF Stage, Taken, TerminalState, ImagesAgeLater
<1>4. Taken' = Taken \cup {c} BY <1>1, NoneAssumption DEF Taken
<1>5. Stage' = IF proof[c] = body THEN [Stage EXCEPT ![c] = "succeeded"] ELSE Stage
  BY <1>1, <1>2 DEF Stage, TerminalState
<1>6. Txn!Take(c, body) BY <1>3, <1>4, <1>5 DEF Txn!Take
<1>7. CallReserved' BY <1>1 DEF CallReserved
<1> QED BY <1>1, <1>6, <1>7 DEF MapsToTxn, Txn!TxnNext

\* A proof that contradicts nothing is the claim of an open capture.
LEMMA ProvesMaps ==
  ASSUME IInv, CallReserved, NEW c \in Capture, NEW body \in Content, Found(c),
         Seen(c) \notin TerminalState, ~Contradicts(c, body), Proves(c, body),
         UNCHANGED <<known, deleted, record, clockVars, active>>
  PROVE  MapsToTxn /\ CallReserved'
<1> USE DEF IInv, StoreInv, TypeOK, clockVars, Proves, Become
<1>1. c \in known /\ state[c] \in {"reserved", "image_saved"}
  BY DEF Found, Seen, StateTellsImage, State, TerminalState
<1>2. Stage[c] = "open" BY <1>1 DEF Stage, TerminalState
<1>3. proof[c] \in {None, body} /\ record[c] \in {None, body} BY DEF Contradicts
<1>4. Taken' = Taken BY DEF Taken
<1>5. Stage' = IF record[c] = body THEN [Stage EXCEPT ![c] = "succeeded"] ELSE Stage
  BY <1>1, <1>3, NoneAssumption DEF Stage, TerminalState
<1>6. Txn!Claim(c, body) BY <1>2, <1>3, <1>4, <1>5 DEF Txn!Claim
<1>7. CallReserved' BY <1>1 DEF CallReserved
<1> QED BY <1>6, <1>7 DEF MapsToTxn, Txn!TxnNext

\* Whatever is said or done with an image, its capture has been and stays reserved.
LEMMA ImageMaps ==
  ASSUME IInv, CallReserved, NEW c \in Capture, Delete(c) \/ RetentionEnds(c)
  PROVE  MapsToTxn /\ CallReserved'
<1> USE DEF IInv, StoreInv, TypeOK, storeVars, clockVars, photoVars
<1>1. CallReserved' BY DEF Delete, RetentionEnds, CallReserved
<1>2. Stage' = Stage /\ proof' = proof BY DEF Delete, RetentionEnds, Stage
<1>3. Taken' = Taken BY DEF Delete, RetentionEnds, Taken, ImagesAreKnown
<1>4. UNCHANGED record \/ Txn!Loses(c) BY DEF Delete, RetentionEnds, Txn!Loses
<1> QED BY <1>1, <1>2, <1>3, <1>4 DEF MapsToTxn, Txn!TxnNext, Txn!Lose

\* Every step of the store is a step of a transaction, or one that it does not see.
LEMMA TxnStepMaps == ASSUME IInv, CallReserved, [Next]_vars PROVE MapsToTxn /\ CallReserved'
<1> USE DEF storeVars, clockVars, photoVars
<1>0. TypeOK BY DEF IInv
<1>1. CASE Purge BY <1>1, SweepMaps DEF Purge
<1>2. ASSUME NEW c \in Capture, Delete(c) \/ RetentionEnds(c) PROVE MapsToTxn /\ CallReserved'
  BY <1>2, ImageMaps
<1>3. ASSUME NEW u \in Upload, SaveUpload(u) PROVE MapsToTxn /\ CallReserved'
  <2> DEFINE c == upload[u].capture
             body == upload[u].body
  <2>1. CASE Storable(c) /\ Stores(u, c, body)
    <3>1. body \in Content BY <1>0, <1>3 DEF SaveUpload, TypeOK
    <3> QED BY <1>3, <2>1, <3>1, StoresMaps DEF SaveUpload
  <2>2. CASE StoresNothing(u, c) /\ reserved' \subseteq reserved
    <3>1. EndsOne(c)
      BY <1>0, <1>3, <2>2
      DEF SaveUpload, EndsOne, Closes, StoresNothing, Seen, Become, Found, IsHeld, CallsOnlyEnd, TypeOK
    <3> QED BY <3>1, ClosesMaps
  <2> QED BY <1>3, <2>1, <2>2 DEF SaveUpload
<1>4. ASSUME NEW c \in Capture, NEW body \in Content, Complete(c, body) PROVE MapsToTxn /\ CallReserved'
  <2>1. CASE Repeats(c, body) \/ UNCHANGED <<state, proof, asleep, accepted>>
    <3>1. EndsOne(c)
      BY <1>0, <1>4, <2>1, LookCloses
      DEF Complete, Repeats, EndsOne, Closes, Found, IsHeld, CallsOnlyEnd
    <3> QED BY <3>1, ClosesMaps
  <2>2. CASE Seen(c) \notin TerminalState /\ ~Contradicts(c, body) /\ Proves(c, body)
    BY <1>4, <2>2, ProvesMaps DEF Complete
  <2> QED BY <1>4, <2>1, <2>2 DEF Complete
<1>5. ASSUME NEW d \in Device, NEW c \in Capture, TakePhoto(d, c) PROVE MapsToTxn /\ CallReserved'
  <2>1. CASE SweepAndReserve({c}) /\ active' = [active EXCEPT ![d] = c]
    BY <1>0, <1>5, <2>1, SweepMaps DEF TakePhoto, TypeOK
  <2>2. CASE SweepAndReserve({}) /\ UNCHANGED photoVars
    BY <1>5, <2>2, SweepMaps DEF TakePhoto
  <2> QED BY <1>5, <2>1, <2>2 DEF TakePhoto
<1>6. CASE ClosingAction BY <1>6, ClosingActionCloses, ClosesMaps
<1>7. CASE UNCHANGED vars BY <1>7 DEF vars, MapsToTxn, Stage, Taken, CallReserved
<1> QED BY <1>1, <1>2, <1>3, <1>4, <1>5, <1>6, <1>7 DEF Next, ClosingAction

\* Uploads, events, timers and callers in any order implement a photo's transaction.
THEOREM TransactionRefinement == Spec => ImplementsTransaction
<1>1. IInv /\ CallReserved /\ [Next]_vars => [Txn!TxnNext]_<<Stage, record, Taken, proof>> /\ CallReserved'
  BY TxnStepMaps DEF MapsToTxn
<1> QED
  BY <1>1, TxnInitMaps, Invariance, PTL DEF Spec, ImplementsTransaction, Txn!TxnSpec, Txn!txnVars
===============================================================================
