---------------------------- MODULE CaptureStore ----------------------------
(***************************************************************************)
(* Camera transactions: CaptureStore of                                    *)
(* bridge/src/stackchan_bridge/captures/store.py, take_photo of            *)
(* captures/coordinator.py, and the upload and completion handlers of      *)
(* device_gateway/application.py.                                          *)
(*                                                                         *)
(* A photo succeeds when two messages of the device agree, in whichever    *)
(* order they arrive: the uploaded image and the completion event with its *)
(* digest. Both race the deadline, failures, cancellation, deletion of the *)
(* image and the end of its retention. Two clocks pass: the monotonic      *)
(* deadline, and the wall clock of retention, which does not run backwards.*)
(***************************************************************************)
EXTENDS Integers, FiniteSets

CONSTANTS
  Device,
  Capture,    \* capture ids
  Upload,     \* upload requests
  Content,    \* JPEG bodies; a digest and size stands for its body
  None,
  Capacity    \* transactions the store retains (1024 in the code)

ASSUME NoneAssumption == None \notin Device \cup Capture \cup Upload \cup Content
ASSUME WaiterAssumption == Device \cap Upload = {}
ASSUME CapacityAssumption == Capacity \in Nat

VARIABLES
  known,      \* _transactions
  reserved,   \* _reservations
  failures,   \* _failures
  state,      \* _Transaction.state
  proof,      \* _Transaction.proof
  deleted,    \* _Transaction.image_deleted
  record,     \* the body of each of _records
  late,       \* captures whose deadline has passed
  aged,       \* captures whose reservation is past its retention
  agedRecord, \* captures whose image is past its retention
  active,     \* CaptureCoordinator._active
  photo,      \* where take_photo is suspended, for each device
  upload,     \* the body being read for a capture
  asleep,     \* take_photo calls and uploads waiting for _Transaction.changed
  accepted    \* what completion events were acknowledged as accepted

storeVars == <<known, reserved, failures, state, proof, deleted, record>>
clockVars == <<late, aged, agedRecord>>
photoVars == <<active, photo>>
vars == <<storeVars, clockVars, photoVars, upload, asleep, accepted>>

TerminalState == {"succeeded", "failed", "cancelled", "expired"}
State == {"reserved", "image_saved"} \cup TerminalState

NoUpload == [capture |-> None, body |-> None]

TypeOK ==
  /\ known \in SUBSET Capture /\ reserved \in SUBSET Capture /\ failures \in SUBSET Capture
  /\ state \in [Capture -> State \cup {"new"}]
  /\ proof \in [Capture -> Content \cup {None}]
  /\ deleted \in SUBSET Capture
  /\ record \in [Capture -> Content \cup {None}]
  /\ late \in SUBSET Capture /\ aged \in SUBSET Capture /\ agedRecord \in SUBSET Capture
  /\ active \in [Device -> Capture \cup {None}]
  /\ photo \in [Device -> {"idle", "waiting", "returning", "raising"}]
  /\ upload \in [Upload -> [capture : Capture, body : Content] \cup {NoUpload}]
  /\ asleep \in SUBSET (Device \cup Upload)
  /\ accepted \in [Capture -> SUBSET (Content \cup {None})]

Init ==
  /\ known = {} /\ reserved = {} /\ failures = {}
  /\ state = [c \in Capture |-> "new"]
  /\ proof = [c \in Capture |-> None]
  /\ deleted = {}
  /\ record = [c \in Capture |-> None]
  /\ late = {} /\ aged = {} /\ agedRecord = {}
  /\ active = [d \in Device |-> None]
  /\ photo = [d \in Device |-> "idle"]
  /\ upload = [u \in Upload |-> NoUpload]
  /\ asleep = {}
  /\ accepted = [c \in Capture |-> {}]

(***************************************************************************)
(* Access to a transaction.                                                *)
(***************************************************************************)
\* Retention is the image's once there is one, the reservation's before.
Retired(c) == IF record[c] # None THEN c \in agedRecord ELSE c \in aged

\* _transaction finds c, and leaves it in the state Seen(c): a deadline that has
\* passed is noticed here.
Found(c) == c \in known /\ ~Retired(c)
Seen(c) == IF state[c] \notin TerminalState /\ c \in late THEN "expired" ELSE state[c]

Become(c, s) == state' = [state EXCEPT ![c] = s]

\* changed.set(): whoever waits for c wakes up and looks again.
WaitersOn(c) == {d \in Device : active[d] = c} \cup {u \in Upload : upload[u].capture = c}
Signal(c) == asleep' = asleep \ WaitersOn(c)
SignalIf(c, b) == IF b THEN Signal(c) ELSE UNCHANGED asleep

\* _transaction alone, as status and remaining_seconds call it
Look(c) == Become(c, Seen(c)) /\ SignalIf(c, Seen(c) # state[c])

\* check_upload goes through: a succeeded transaction still takes a duplicate.
Uploadable(c) ==
  Found(c) /\ c \notin late /\ c \notin deleted
    /\ Seen(c) \notin {"failed", "cancelled", "expired"}

(***************************************************************************)
(* Reservation and retention.                                              *)
(***************************************************************************)
\* purge_expired, followed by the reservation of the captures in new
SweepAndReserve(new) ==
  LET gone == {c \in known : Retired(c)}
  IN  /\ known' = (known \ gone) \cup new
      /\ state' = [c \in Capture |-> IF c \in new THEN "reserved"
                                     ELSE IF c \in gone THEN "expired" ELSE state[c]]
      /\ reserved' = (reserved \ aged) \cup new
      /\ failures' = failures \ (reserved \cap aged)
      /\ record' = [c \in Capture |-> IF c \in agedRecord THEN None ELSE record[c]]
      /\ asleep' = asleep \ UNION {WaitersOn(c) : c \in gone}
      /\ UNCHANGED <<proof, deleted>>

Purge ==
  /\ aged \cap known # {}
  /\ SweepAndReserve({})
  /\ UNCHANGED <<clockVars, photoVars, upload, accepted>>

\* take_photo up to its first wait. When the store is full the sweep is all it does.
TakePhoto(d, c) ==
  /\ active[d] = None
  /\ state[c] = "new"
  /\ IF Cardinality({k \in known : ~Retired(k)}) < Capacity
       THEN /\ SweepAndReserve({c})
            /\ active' = [active EXCEPT ![d] = c]
            /\ photo' = [photo EXCEPT ![d] = "waiting"]
       ELSE SweepAndReserve({}) /\ UNCHANGED photoVars
  /\ UNCHANGED <<clockVars, upload, accepted>>

DeadlinePasses(c) ==
  /\ c \in known \ late
  /\ late' = late \cup {c}
  /\ UNCHANGED <<storeVars, aged, agedRecord, photoVars, upload, asleep, accepted>>

\* The image was saved after its capture was reserved, so it is kept at least as long.
RetentionEnds(c) ==
  /\ c \in known
  /\ IF c \notin aged
       THEN aged' = aged \cup {c} /\ UNCHANGED agedRecord
       ELSE /\ record[c] # None /\ c \notin agedRecord
            /\ agedRecord' = agedRecord \cup {c} /\ UNCHANGED aged
  /\ UNCHANGED <<storeVars, late, photoVars, upload, asleep, accepted>>

(***************************************************************************)
(* Uploads.  wait_upload_closed runs beside the reading of the body.       *)
(***************************************************************************)
BeginUpload(u, c, body) ==
  /\ upload[u] = NoUpload
  /\ Found(c)
  /\ upload' = IF Uploadable(c) THEN [upload EXCEPT ![u] = [capture |-> c, body |-> body]] ELSE upload
  /\ Look(c)
  /\ UNCHANGED <<known, reserved, failures, proof, deleted, record, clockVars, photoVars, accepted>>

\* One round of wait_upload_closed: the upload ends, or it sleeps until something changes.
UploadChecks(u) ==
  LET c == upload[u].capture
  IN  /\ upload[u] # NoUpload /\ u \notin asleep
      /\ IF Uploadable(c)
           THEN asleep' = asleep \cup {u} /\ UNCHANGED <<state, upload>>
           ELSE /\ upload' = [upload EXCEPT ![u] = NoUpload]
                /\ IF Found(c) THEN Look(c) ELSE UNCHANGED <<state, asleep>>
      /\ UNCHANGED <<known, reserved, failures, proof, deleted, record, clockVars, photoVars, accepted>>

\* A timeout, a malformed body or a client that has gone.
UploadAborts(u) ==
  /\ upload[u] # NoUpload
  /\ upload' = [upload EXCEPT ![u] = NoUpload]
  /\ asleep' = asleep \ {u}
  /\ UNCHANGED <<storeVars, clockVars, photoVars, accepted>>

\* save reaches the file: the capture is open, and has no image yet.
Storable(c) == Uploadable(c) /\ c \in reserved \ (failures \cup aged) /\ record[c] = None

StoresFaulty(u, c, body) ==
  /\ record' = [record EXCEPT ![c] = body]
  /\ Become(c, IF proof[c] # None THEN "succeeded" ELSE "image_saved")
  /\ asleep' = asleep \ (WaitersOn(c) \cup {u})

\* The image is written and recorded.
Stores(u, c, body) ==
  /\ record' = [record EXCEPT ![c] = body]
  /\ Become(c, IF proof[c] = body THEN "succeeded" ELSE "image_saved")
  /\ asleep' = asleep \ (WaitersOn(c) \cup {u})

\* save refuses the body (closed, not a JPEG, or different from the image there is), or
\* finds the same image.
StoresNothing(u, c) ==
  /\ IF Found(c) THEN Become(c, Seen(c)) ELSE UNCHANGED state
  /\ asleep' = IF Found(c) /\ Seen(c) # state[c] THEN asleep \ (WaitersOn(c) \cup {u}) ELSE asleep \ {u}
  /\ UNCHANGED record

SaveUpload(u) ==
  LET c == upload[u].capture
  IN  /\ upload[u] # NoUpload
      /\ \/ Storable(c) /\ Stores(u, c, upload[u].body) /\ UNCHANGED reserved
         \/ /\ StoresNothing(u, c)
            /\ reserved' = IF Uploadable(c) /\ c \notin failures THEN reserved \ (aged \cap {c}) ELSE reserved
      /\ upload' = [upload EXCEPT ![u] = NoUpload]
      /\ UNCHANGED <<known, failures, proof, deleted, clockVars, photoVars, accepted>>

(***************************************************************************)
(* What the device reports.                                                *)
(***************************************************************************)
Acknowledge(c, what) == accepted' = [accepted EXCEPT ![c] = @ \cup {what}]

\* complete(ok=True) on a terminal transaction: a repetition is confirmed, nothing changes.
Repeats(c, body) ==
  /\ Look(c)
  /\ IF Seen(c) = "succeeded" /\ proof[c] = body THEN Acknowledge(c, body) ELSE UNCHANGED accepted
  /\ UNCHANGED proof

ContradictsFaulty(c, body) == record[c] \notin {None, body}

\* The proof contradicts the image or an earlier proof.
Contradicts(c, body) == record[c] \notin {None, body} \/ proof[c] \notin {None, body}

Proves(c, body) ==
  /\ proof' = [proof EXCEPT ![c] = body]
  /\ Become(c, IF record[c] # None THEN "succeeded" ELSE state[c])
  /\ Signal(c)
  /\ Acknowledge(c, body)

CompleteFaulty(c, body) ==
  /\ Found(c)
  /\ IF Contradicts(c, body) THEN UNCHANGED <<state, proof, asleep, accepted>> ELSE Proves(c, body)
  /\ UNCHANGED <<known, reserved, failures, deleted, record, clockVars, photoVars, upload>>

Complete(c, body) ==
  /\ Found(c)
  /\ IF Seen(c) \in TerminalState THEN Repeats(c, body)
     ELSE IF Contradicts(c, body) THEN UNCHANGED <<state, proof, asleep, accepted>>
     ELSE Proves(c, body)
  /\ UNCHANGED <<known, reserved, failures, deleted, record, clockVars, photoVars, upload>>

\* store.fail, after _transaction
Fails(c) ==
  /\ Become(c, "failed")
  /\ failures' = failures \cup {c}
  /\ Signal(c)

\* complete(ok=False); whether the reason is that of an earlier failure is left open.
CompleteFailed(c) ==
  /\ Found(c)
  /\ \/ Seen(c) \notin TerminalState /\ Fails(c) /\ Acknowledge(c, None)
     \/ /\ Seen(c) \in TerminalState
        /\ Look(c)
        /\ accepted' = accepted \/ (Seen(c) = "failed" /\ Acknowledge(c, None))
        /\ UNCHANGED failures
  /\ UNCHANGED <<known, reserved, proof, deleted, record, clockVars, photoVars, upload>>

\* The command result of camera.capture is negative while take_photo waits.
CommandFails(d) ==
  LET c == active[d]
  IN  /\ photo[d] = "waiting"
      /\ IF Found(c) /\ Seen(c) \notin TerminalState THEN Fails(c)
         ELSE /\ IF Found(c) THEN Look(c) ELSE UNCHANGED <<state, asleep>>
              /\ UNCHANGED failures
      /\ UNCHANGED <<known, reserved, proof, deleted, record, clockVars, photoVars, upload, accepted>>

DeleteFaulty(c) ==
  /\ record[c] # None
  /\ record' = [record EXCEPT ![c] = None]
  /\ deleted' = deleted \cup {c}
  /\ UNCHANGED <<known, reserved, failures, state, proof, clockVars, photoVars, upload, asleep, accepted>>

\* A client of the control API deletes the image.
Delete(c) ==
  /\ record[c] # None
  /\ record' = [record EXCEPT ![c] = None]
  /\ deleted' = IF c \in known THEN deleted \cup {c} ELSE deleted
  /\ IF c \in known THEN Signal(c) ELSE UNCHANGED asleep
  /\ UNCHANGED <<known, reserved, failures, state, proof, clockVars, photoVars, upload, accepted>>

\* A client asks for an image past its retention.
Get(c) ==
  /\ record[c] # None /\ c \in agedRecord
  /\ record' = [record EXCEPT ![c] = None]
  /\ UNCHANGED <<known, reserved, failures, state, proof, deleted, clockVars, photoVars, upload, asleep, accepted>>

\* The device asks for the receipt.
Status(c) ==
  /\ Found(c) /\ Seen(c) # state[c]
  /\ Look(c)
  /\ UNCHANGED <<known, reserved, failures, proof, deleted, record, clockVars, photoVars, upload, accepted>>

(***************************************************************************)
(* take_photo.                                                             *)
(***************************************************************************)
Photo(d, p) == photo' = [photo EXCEPT ![d] = p]

PhotoChecksFaulty(d) ==
  LET c == active[d]
  IN  /\ photo[d] = "waiting" /\ d \notin asleep
      /\ IF Found(c) /\ Seen(c) \notin TerminalState /\ record[c] = None
           THEN asleep' = asleep \cup {d} /\ UNCHANGED <<state, photo>>
           ELSE /\ Photo(d, IF Found(c) /\ record[c] # None THEN "returning" ELSE "raising")
                /\ IF Found(c) THEN Look(c) ELSE UNCHANGED <<state, asleep>>
      /\ UNCHANGED <<known, reserved, failures, proof, deleted, record, clockVars, active, upload, accepted>>

\* One round of wait_for_completion.
PhotoChecks(d) ==
  LET c == active[d]
  IN  /\ photo[d] = "waiting" /\ d \notin asleep
      /\ IF Found(c) /\ Seen(c) \notin TerminalState
           THEN asleep' = asleep \cup {d} /\ UNCHANGED <<state, photo>>
           ELSE /\ Photo(d, IF Found(c) /\ Seen(c) = "succeeded" /\ record[c] # None
                              THEN "returning" ELSE "raising")
                /\ IF Found(c) THEN Look(c) ELSE UNCHANGED <<state, asleep>>
      /\ UNCHANGED <<known, reserved, failures, proof, deleted, record, clockVars, active, upload, accepted>>

\* The timer of wait_for_completion: the state becomes expired without a signal, the
\* next round raises.
PhotoTimesOut(d) ==
  LET c == active[d]
  IN  /\ photo[d] = "waiting" /\ d \in asleep /\ c \in late
      /\ IF state[c] \notin TerminalState THEN Become(c, "expired") ELSE UNCHANGED state
      /\ record' = IF state[c] \notin TerminalState /\ c \in agedRecord
                     THEN [record EXCEPT ![c] = None] ELSE record
      /\ asleep' = asleep \ {d}
      /\ UNCHANGED <<known, reserved, failures, proof, deleted, clockVars, photoVars, upload, accepted>>

\* The command raises something take_photo does not catch, or its caller is cancelled.
PhotoAborts(d) ==
  /\ photo[d] = "waiting"
  /\ Photo(d, "raising")
  /\ asleep' = asleep \ {d}
  /\ UNCHANGED <<storeVars, clockVars, active, upload, accepted>>

CleanupFaulty(d) ==
  /\ photo[d] \in {"returning", "raising"}
  /\ Photo(d, "idle")
  /\ active' = [active EXCEPT ![d] = None]
  /\ UNCHANGED <<storeVars, clockVars, upload, asleep, accepted>>

CleanupForgets(d) ==
  /\ photo[d] = "raising"
  /\ Photo(d, "idle")
  /\ UNCHANGED <<storeVars, clockVars, active, upload, asleep, accepted>>

\* store.cancel
Cancel(c) ==
  IF Found(c) /\ Seen(c) \notin TerminalState
    THEN /\ Become(c, "cancelled")
         /\ reserved' = reserved \ {c}
         /\ failures' = failures \ {c}
         /\ Signal(c)
    ELSE /\ IF Found(c) THEN Look(c) ELSE UNCHANGED <<state, asleep>>
         /\ UNCHANGED <<reserved, failures>>

\* The finally block of take_photo, after its tasks have ended.
Cleanup(d) ==
  /\ photo[d] \in {"returning", "raising"}
  /\ IF photo[d] = "raising" THEN Cancel(active[d])
     ELSE UNCHANGED <<state, reserved, failures, asleep>>
  /\ Photo(d, "idle")
  /\ active' = [active EXCEPT ![d] = None]
  /\ UNCHANGED <<known, proof, deleted, record, clockVars, upload, accepted>>

Next ==
  \/ Purge
  \/ \E c \in Capture :
       \/ DeadlinePasses(c) \/ RetentionEnds(c)
       \/ CompleteFailed(c) \/ Delete(c) \/ Get(c) \/ Status(c)
       \/ \E body \in Content : Complete(c, body)
       \/ \E d \in Device : TakePhoto(d, c)
       \/ \E u \in Upload, body \in Content : BeginUpload(u, c, body)
  \/ \E u \in Upload : UploadChecks(u) \/ UploadAborts(u) \/ SaveUpload(u)
  \/ \E d \in Device :
       CommandFails(d) \/ PhotoChecks(d) \/ PhotoTimesOut(d) \/ PhotoAborts(d) \/ Cleanup(d)

\* The event loop runs what is ready, and time passes.
Fairness ==
  /\ \A c \in Capture : WF_vars(DeadlinePasses(c))
  /\ \A d \in Device :
       /\ WF_vars(PhotoChecks(d)) /\ WF_vars(PhotoTimesOut(d)) /\ WF_vars(Cleanup(d))
  /\ \A u \in Upload : WF_vars(UploadAborts(u))

Spec == Init /\ [][Next]_vars

LiveSpec == Spec /\ Fairness

(***************************************************************************)
(* Properties.                                                             *)
(***************************************************************************)
\* While the store remembers a transaction, a terminal state stays what it is: nothing
\* the device or a client sends late reopens it (_Transaction.terminal).
TerminalIsFinal ==
  [][\A c \in known \cap known' : state[c] \in TerminalState => state'[c] = state[c]]_vars

\* The captures without the two clocks, the waiting calls and the messages.
Stage ==
  [c \in Capture |->
     IF c \in known THEN IF state[c] \in TerminalState THEN state[c] ELSE "open"
     ELSE IF state[c] = "new" THEN "none" ELSE "forgotten"]

Taken == {c \in Capture : record[c] # None \/ c \in deleted \cup agedRecord}

Txn == INSTANCE PhotoTransaction WITH stage <- Stage, image <- record, taken <- Taken, claim <- proof

\* Uploads, completion events, deadlines, retention, deletion and the ends of take_photo, in
\* any order, make a transaction: one image and one claim, taken while it is open, success
\* when they agree, and one end that nothing reopens (save, complete, _Transaction.terminal).
ImplementsTransaction == Txn!TxnSpec

\* A transaction has succeeded only when the device proved exactly the image that was
\* uploaded (complete and save, in either order); without an image it was deleted.
SuccessIsProven ==
  \A c \in known : state[c] = "succeeded" =>
    /\ proof[c] # None
    /\ \/ record[c] = proof[c]
       \/ record[c] = None /\ (c \in deleted \/ c \in aged)

\* An image is only ever written for a reservation that is open: never twice, nor after
\* a failure, a cancellation, a deletion or the deadline (save, check_upload).
ImageOnlyIntoReserved ==
  [][\A c \in Capture : record[c] = None /\ record'[c] # None =>
       /\ state[c] = "reserved" /\ c \in reserved
       /\ c \notin late \cup aged \cup deleted \cup failures]_vars

\* What the device was told stays true: one proof at most was accepted, and it is the
\* one the store holds; an accepted failure is the outcome (complete's return value).
AcksHold ==
  \A c \in Capture :
    /\ accepted[c] \ {None} \subseteq {proof[c]}
    /\ None \in accepted[c] /\ c \in known => state[c] = "failed"

\* Once take_photo has ended, the transaction it reserved takes no image any more
\* (Cleanup, store.cancel): none is left open without a caller.
AbandonedIsClosed ==
  \A c \in Capture : Found(c) /\ Seen(c) \notin TerminalState => \E d \in Device : active[d] = c

\* Nobody sleeps through the end of a capture: the one Event that take_photo and all
\* uploads share, and clear, loses no wake-up (wait_for_completion, wait_upload_closed).
NobodyOversleeps ==
  /\ \A d \in Device \cap asleep : state[active[d]] \notin TerminalState \/ active[d] \in late
  /\ \A u \in Upload \cap asleep :
       LET c == upload[u].capture
       IN  c \in late \/ (c \notin deleted /\ state[c] \notin {"failed", "cancelled", "expired"})

\* take_photo returns an image only when the device was told that it is the one.
DeliveredIsProven ==
  [][\A d \in Device : photo[d] = "waiting" /\ photo'[d] = "returning" =>
       record[active[d]] \in accepted[active[d]] \ {None}]_vars

\* Whatever the device does, take_photo ends and the camera can be used again.
CameraReleased == \A d \in Device : (photo[d] # "idle") ~> (photo[d] = "idle" /\ active[d] = None)
=============================================================================
