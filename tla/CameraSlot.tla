----------------------------- MODULE CameraSlot -----------------------------
(***************************************************************************)
(* What the device promises about its camera, with no thread, no mutex and *)
(* no request in it: one capture has it at a time, from its acceptance     *)
(* until its work is over; it works once; it is withdrawn before or        *)
(* reported after; and a success is reported only of an image the Bridge   *)
(* has.                                                                    *)
(***************************************************************************)
EXTENDS Integers

VARIABLES
  accepted,   \* captures accepted so far, numbered in their order
  slot,       \* the capture that has the camera, 0 without one
  stage,      \* how far it is: "free", "waiting", "working" or "over"
  owed,       \* a withdrawn capture whose failure is still to be reported, or 0
  reports,    \* reports on their way to the Bridge
  taken,      \* the captures with an image
  stored      \* the images the Bridge has

slotVars == <<accepted, slot, stage, owed, reports, taken, stored>>

SlotInit ==
  /\ accepted = 0 /\ slot = 0 /\ stage = "free"
  /\ owed = 0 /\ reports = {} /\ taken = {} /\ stored = {}

Accept ==
  /\ stage = "free"
  /\ stage' = "waiting"
  /\ accepted' = accepted + 1 /\ slot' = accepted + 1
  /\ UNCHANGED <<owed, reports, taken, stored>>

\* It works, or cannot.
Begin ==
  /\ stage = "waiting" /\ owed = 0
  /\ stage' \in {"working", "over"}
  /\ UNCHANGED <<accepted, slot, owed, reports, taken, stored>>

Take ==
  /\ stage = "working"
  /\ taken' = taken \cup {slot}
  /\ UNCHANGED <<accepted, slot, stage, owed, reports, stored>>

\* The Bridge may store an image at any time after, whatever has become of its capture.
Store(image) ==
  /\ stored' = stored \cup {image}
  /\ UNCHANGED <<accepted, slot, stage, owed, reports, taken>>

Finish ==
  /\ stage = "working"
  /\ stage' = "over"
  /\ UNCHANGED <<accepted, slot, owed, reports, taken, stored>>

Free == stage' = "free" /\ slot' = 0

\* A capture at work is never withdrawn. One that could not work may be, and still fails.
Withdraw ==
  /\ \/ stage = "waiting" /\ UNCHANGED owed
     \/ stage = "over" /\ owed = 0 /\ owed' = slot
  /\ Free
  /\ UNCHANGED <<accepted, reports, taken, stored>>

Report(ok) ==
  /\ stage = "over" /\ owed = 0
  /\ ok => slot \in stored
  /\ reports' = reports \cup {[id |-> slot, ok |-> ok]}
  /\ Free
  /\ UNCHANGED <<accepted, owed, taken, stored>>

\* The failure that is owed takes the slot with it: a capture that was accepted meanwhile
\* neither works nor is it ever reported.
ReportOwed ==
  /\ owed # 0 /\ stage \in {"free", "waiting"}
  /\ owed' = 0
  /\ reports' = reports \cup {[id |-> owed, ok |-> FALSE]}
  /\ Free
  /\ UNCHANGED <<accepted, taken, stored>>

Settle(report) ==
  /\ reports' = reports \ {report}
  /\ UNCHANGED <<accepted, slot, stage, owed, taken, stored>>

SlotNext ==
  \/ Accept \/ Begin \/ Take \/ Finish \/ Withdraw \/ ReportOwed
  \/ \E image \in taken : Store(image)
  \/ \E ok \in BOOLEAN : Report(ok)
  \/ \E report \in reports : Settle(report)

SlotSpec == SlotInit /\ [][SlotNext]_slotVars
=============================================================================
