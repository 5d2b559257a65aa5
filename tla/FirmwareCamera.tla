--------------------------- MODULE FirmwareCamera ---------------------------
(***************************************************************************)
(* The device's side of a capture: OfficialCameraCapture                   *)
(* (stackchan_bridge_camera.cpp), its gate (CameraCaptureGate), the retry  *)
(* of the upload and the notices of completion (capture_transaction.h).    *)
(*                                                                         *)
(* Commands and update run on the session's thread, a capture on a worker  *)
(* thread of its own; a mutex protects what they share. update takes the   *)
(* mutex twice, and joins the worker in between: the worker may publish    *)
(* its result between the two. The Bridge answers the worker's requests,   *)
(* and may store an image long after the worker has given up waiting for   *)
(* the answer. Time is abstract: a request, a wait or a notice may be late *)
(* at any moment.                                                          *)
(***************************************************************************)
EXTENDS Integers, FiniteSets

CONSTANTS
  Captures,     \* bound: captures of a behaviour
  NoticeLimit,  \* notices kept at most (16 in the code)
  Attempts      \* uploads of a capture (3)

ASSUME CameraAssumption == Captures \in Nat /\ NoticeLimit \in Nat /\ Attempts \in Nat \ {0}

VARIABLES
  started,   \* the captures accepted so far; a capture's id is its number
  current,   \* the capture of the gate, 0 while it is not busy
  pending,   \* it waits for a worker
  io,        \* CaptureIoContext: "none", "live" or "cancelled"
  joinable,  \* worker_ holds a thread
  at,        \* where update is: "idle", or "between" its two critical sections
  phase,     \* what the worker thread does; "off" without one
  attempt,   \* the upload's attempt
  job,       \* the request of the worker, and so the capture of completion_
  result,    \* completion_.ok
  ready,     \* completionReady_
  notices,   \* CaptureCompletionQueue
  sent,      \* the captures whose image has been put on the wire
  saved      \* the images the Bridge has stored

gateVars == <<started, current, pending>>
workerVars == <<phase, attempt, job, result>>
imageVars == <<sent, saved>>
vars == <<gateVars, io, joinable, at, workerVars, ready, notices, imageVars>>

Notice == [id : 1..Captures, ok : BOOLEAN]

\* The queue has room for every notice: push is never refused, as start looks first.
TypeOK ==
  /\ started \in 0..Captures /\ current \in 0..started
  /\ pending \in BOOLEAN /\ joinable \in BOOLEAN /\ ready \in BOOLEAN /\ result \in BOOLEAN
  /\ io \in {"none", "live", "cancelled"}
  /\ at \in {"idle", "between"}
  /\ phase \in {"off", "query", "capture", "upload", "lookup", "retry", "publish"}
  /\ attempt \in 0..Attempts
  /\ job \in 0..started
  /\ notices \subseteq Notice /\ IsFiniteSet(notices) /\ Cardinality(notices) <= NoticeLimit
  /\ sent \subseteq 1..Captures /\ saved \subseteq 1..Captures

Init ==
  /\ started = 0 /\ current = 0 /\ pending = FALSE
  /\ io = "none" /\ joinable = FALSE /\ at = "idle"
  /\ phase = "off" /\ attempt = 0 /\ job = 0 /\ result = FALSE
  /\ ready = FALSE /\ notices = {} /\ sent = {} /\ saved = {}

(***************************************************************************)
(* Commands of the Bridge, on the session's thread.                        *)
(***************************************************************************)
StartFaulty ==
  /\ at = "idle" /\ started < Captures
  /\ Cardinality(notices) <= NoticeLimit
  /\ current = 0
  /\ started' = started + 1 /\ current' = started + 1 /\ pending' = TRUE
  /\ UNCHANGED <<io, joinable, at, workerVars, ready, notices, imageVars>>

\* start: DEVICE_BUSY with a capture in the gate or with no room for a notice.
Start ==
  /\ at = "idle" /\ started < Captures
  /\ Cardinality(notices) < NoticeLimit
  /\ current = 0
  /\ started' = started + 1 /\ current' = started + 1 /\ pending' = TRUE
  /\ UNCHANGED <<io, joinable, at, workerVars, ready, notices, imageVars>>

\* CameraCaptureGate::complete
FreeGate == current' = 0 /\ pending' = FALSE

CancelFaulty ==
  /\ at = "idle" /\ current # 0
  /\ FreeGate
  /\ io' = IF io = "none" THEN io ELSE "cancelled"
  /\ UNCHANGED <<started, joinable, at, workerVars, ready, notices, imageVars>>

\* cancel of the current capture: a running one is only asked to stop.
Cancel ==
  /\ at = "idle" /\ current # 0
  /\ IF io = "none" THEN FreeGate /\ UNCHANGED io
                    ELSE io' = "cancelled" /\ UNCHANGED <<current, pending>>
  /\ UNCHANGED <<started, joinable, at, workerVars, ready, notices, imageVars>>

\* setBridgeUrl: the Bridge has another address now.
ChangeUrl ==
  /\ at = "idle" /\ io = "live"
  /\ io' = "cancelled"
  /\ UNCHANGED <<gateVars, joinable, at, workerVars, ready, notices, imageVars>>

\* A notice leaves the queue when the Bridge acknowledges it, or at its deadline.
Settle(notice) ==
  /\ at = "idle"
  /\ notices' = notices \ {notice}
  /\ UNCHANGED <<gateVars, io, joinable, at, workerVars, ready, imageVars>>

(***************************************************************************)
(* update.                                                                 *)
(***************************************************************************)
\* A worker that has published its result is joined.
UpdateBegins ==
  /\ at = "idle"
  /\ at' = "between"
  /\ joinable' = (joinable /\ ~ready)
  /\ UNCHANGED <<gateVars, io, workerVars, ready, notices, imageVars>>

\* The result becomes a notice, and the gate is free.
Collect ==
  /\ at = "between" /\ ready
  /\ at' = "idle"
  /\ ready' = FALSE
  /\ io' = "none"
  /\ FreeGate
  /\ notices' = notices \cup {[id |-> job, ok |-> result]}
  /\ UNCHANGED <<started, joinable, workerVars, imageVars>>

\* Without a worker, a pending capture gets one.
Takes ==
  /\ at = "between" /\ ~ready /\ ~joinable /\ pending
  /\ at' = "idle"
  /\ pending' = FALSE /\ job' = current /\ result' = FALSE /\ attempt' = 0
  /\ UNCHANGED <<started, current, notices, imageVars>>

Launch ==
  /\ Takes
  /\ io' = "live" /\ joinable' = TRUE /\ phase' = "query"
  /\ UNCHANGED ready

LaunchFailsFaulty ==
  /\ Takes
  /\ io' \in {io, "live"}
  /\ UNCHANGED <<joinable, phase, ready>>

\* No memory for its context or no thread: the capture has failed.
LaunchFails ==
  /\ Takes
  /\ io' \in {io, "live"}
  /\ ready' = TRUE
  /\ UNCHANGED <<joinable, phase>>

UpdateEnds ==
  /\ at = "between" /\ ~ready /\ (joinable \/ ~pending)
  /\ at' = "idle"
  /\ UNCHANGED <<gateVars, io, joinable, workerVars, ready, notices, imageVars>>

(***************************************************************************)
(* The worker (captureAndUpload).                                          *)
(***************************************************************************)
WorkerIn(here, there) ==
  /\ phase = here
  /\ phase' = there
  /\ UNCHANGED <<gateVars, io, joinable, at, job, ready, notices>>

Ends(here, ok) ==
  /\ WorkerIn(here, "publish")
  /\ result' = ok
  /\ UNCHANGED attempt

\* The receipt must say "reserved" before the camera is used.
Query == WorkerIn("query", "capture") /\ io # "cancelled" /\ UNCHANGED <<attempt, result, imageVars>>

\* The frame is captured and encoded once, and its first upload begins.
CaptureFrame ==
  /\ WorkerIn("capture", "upload")
  /\ attempt' = 1
  /\ sent' = sent \cup {job}
  /\ UNCHANGED <<result, saved>>

\* 201: the Bridge has stored the image, or had stored the same before.
Upload ==
  /\ io # "cancelled"
  /\ Ends("upload", TRUE)
  /\ saved' = saved \cup {job}
  /\ UNCHANGED sent

UploadLostFaulty ==
  /\ io # "cancelled"
  /\ Ends("upload", TRUE)
  /\ UNCHANGED imageVars

\* No answer: the image has been stored, or will be, or is lost, and the receipt tells.
UploadLost ==
  /\ io # "cancelled"
  /\ WorkerIn("upload", "lookup")
  /\ UNCHANGED <<attempt, result, imageVars>>

\* 408, most of 5xx, or 429 with a usable Retry-After.
UploadRefused ==
  /\ io # "cancelled"
  /\ WorkerIn("upload", "retry")
  /\ UNCHANGED <<attempt, result, imageVars>>

\* The receipt holds this image's digest and size.
LookupFinds == job \in saved /\ Ends("lookup", TRUE) /\ UNCHANGED imageVars

\* It still says "reserved", or there is none to be had.
LookupLeavesOpen == WorkerIn("lookup", "retry") /\ UNCHANGED <<attempt, result, imageVars>>

\* captureRetryDelay has passed.
Retry ==
  /\ attempt < Attempts
  /\ WorkerIn("retry", "upload")
  /\ attempt' = attempt + 1
  /\ UNCHANGED <<result, imageVars>>

\* Cancelled, late, out of attempts, refused for good, or an error of the camera.
Fails ==
  /\ \E here \in {"query", "capture", "upload", "lookup", "retry"} : Ends(here, FALSE)
  /\ UNCHANGED imageVars

\* The end of run.
Publish ==
  /\ phase = "publish"
  /\ phase' = "off" /\ ready' = TRUE
  /\ UNCHANGED <<gateVars, io, joinable, at, attempt, job, result, notices, imageVars>>

\* External: an image that was sent reaches the Bridge's store, perhaps after its answer was
\* given up, after a cancel, or when another capture is already at work.
BridgeStores ==
  /\ \E image \in sent : saved' = saved \cup {image}
  /\ UNCHANGED <<gateVars, io, joinable, at, workerVars, ready, notices, sent>>

UpdateNext == UpdateBegins \/ Collect \/ Launch \/ LaunchFails \/ UpdateEnds

WorkerNext ==
  \/ Query \/ CaptureFrame \/ Upload \/ UploadLost \/ UploadRefused
  \/ LookupFinds \/ LookupLeavesOpen \/ Retry \/ Fails \/ Publish

Next ==
  \/ Start \/ Cancel \/ ChangeUrl \/ \E notice \in notices : Settle(notice)
  \/ UpdateNext \/ WorkerNext \/ BridgeStores

Spec == Init /\ [][Next]_vars

\* The session's loop calls update again and again, and every wait of the worker is timed.
LiveSpec == Spec /\ WF_vars(UpdateNext) /\ WF_vars(WorkerNext)

(***************************************************************************)
(* Properties.                                                             *)
(***************************************************************************)
\* While a worker uses the camera and the network, its capture holds the gate, however it
\* is cancelled: no other capture is accepted or started meanwhile (cancel, tryStart).
WorkerHoldsGate ==
  phase # "off" => current = job /\ ~pending /\ joinable /\ io # "none" /\ ~ready

\* A capture is reported as successful only if the Bridge has stored its image, whatever
\* answers were lost on the way (captureAndUpload, docs/protocol-v1.md:290).
SuccessIsSaved == \A notice \in notices : notice.ok => notice.id \in saved

\* The camera without threads, requests and the two critical sections.
CameraStage ==
  IF current = 0 THEN "free" ELSE IF pending THEN "waiting" ELSE IF phase # "off" THEN "working" ELSE "over"

Owed == IF ready /\ job # current THEN job ELSE 0

Camera == INSTANCE CameraSlot WITH
  accepted <- started, slot <- current, stage <- CameraStage, owed <- Owed,
  reports <- notices, taken <- sent, stored <- saved

\* However commands, update and the worker interleave, a capture works once, is reported
\* once, truly and after its work, or is withdrawn before (start, cancel, update, run). The
\* one exception is in CameraSlot: a failure that was withdrawn takes the next capture along.
ImplementsCameraSlot == Camera!SlotSpec

\* The thread object of a worker that has ended is still there, and its result is not.
NeverJoined == joinable /\ phase = "off" /\ ~ready

\* An accepted capture ends and frees the camera, unless an earlier worker's result was
\* collected before update had joined it: then no worker is ever started again.
CameraIsFreed == current # 0 ~> (current = 0 \/ NeverJoined)

\* Firmware sends completion after joining its worker, freeing temporary buffers and
\* connections and releasing camera busy (docs/protocol-v1.md:292).
CompletionFollowsJoin == [][notices' \subseteq notices \/ ~joinable']_vars
=============================================================================
