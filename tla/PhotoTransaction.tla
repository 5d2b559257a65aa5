-------------------------- MODULE PhotoTransaction --------------------------
(***************************************************************************)
(* What the Bridge promises about a photo, with no clock, no waiting call  *)
(* and no message in it: a capture is reserved once; it takes one image    *)
(* and one claim of the device, in either order, only while it is open,    *)
(* and succeeds when they agree; it ends once; and then its image may go.  *)
(***************************************************************************)
CONSTANTS
  Capture,    \* captures; each is reserved at most once
  Content,    \* what an image or a claim may be
  None        \* neither

VARIABLES
  stage,      \* what has become of each capture
  image,      \* the image the Bridge holds for it
  taken,      \* the captures that have taken an image
  claim       \* what the device claims to have taken

txnVars == <<stage, image, taken, claim>>

Failure == {"failed", "cancelled", "expired"}
Stage == {"none", "open", "succeeded", "forgotten"} \cup Failure

TxnTypeOK ==
  /\ stage \in [Capture -> Stage]
  /\ image \in [Capture -> Content \cup {None}]
  /\ taken \subseteq Capture
  /\ claim \in [Capture -> Content \cup {None}]

TxnInit ==
  /\ stage = [c \in Capture |-> "none"]
  /\ image = [c \in Capture |-> None]
  /\ taken = {}
  /\ claim = [c \in Capture |-> None]

\* Some captures are forgotten with their images, and others reserved.
Turnover(old, new) ==
  /\ \A c \in old : stage[c] \notin {"none", "forgotten"}
  /\ \A c \in new : stage[c] = "none"
  /\ stage' = [c \in Capture |->
       IF c \in new THEN "open" ELSE IF c \in old THEN "forgotten" ELSE stage[c]]
  /\ image' = [c \in Capture |-> IF c \in old THEN None ELSE image[c]]
  /\ UNCHANGED <<taken, claim>>

\* The first image is the only one, and a deleted one is not replaced.
Take(c, body) ==
  /\ stage[c] = "open" /\ c \notin taken
  /\ taken' = taken \cup {c}
  /\ image' = [image EXCEPT ![c] = body]
  /\ stage' = IF claim[c] = body THEN [stage EXCEPT ![c] = "succeeded"] ELSE stage
  /\ UNCHANGED claim

\* The device may repeat its claim, not change it.
Claim(c, body) ==
  /\ stage[c] = "open"
  /\ claim[c] \in {None, body} /\ image[c] \in {None, body}
  /\ claim' = [claim EXCEPT ![c] = body]
  /\ stage' = IF image[c] = body THEN [stage EXCEPT ![c] = "succeeded"] ELSE stage
  /\ UNCHANGED <<image, taken>>

Loses(c) == image' = [image EXCEPT ![c] = None]

Close(c, how) ==
  /\ stage[c] = "open"
  /\ stage' = [stage EXCEPT ![c] = how]
  /\ UNCHANGED image \/ Loses(c)
  /\ UNCHANGED <<taken, claim>>

\* An image is deleted or its retention ends; what became of the capture stays.
Lose(c) ==
  /\ Loses(c)
  /\ UNCHANGED <<stage, taken, claim>>

TxnNext ==
  \/ \E old, new \in SUBSET Capture : Turnover(old, new)
  \/ \E c \in Capture :
       \/ Lose(c)
       \/ \E body \in Content : Take(c, body) \/ Claim(c, body)
       \/ \E how \in Failure : Close(c, how)

TxnSpec == TxnInit /\ [][TxnNext]_txnVars
=============================================================================
