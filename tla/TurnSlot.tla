------------------------------ MODULE TurnSlot ------------------------------
(***************************************************************************)
(* What the Bridge promises about turns, with no task, no await and no     *)
(* cancellation protocol in it: every device has one slot, a turn enters   *)
(* its slot once, it is closed at most once, and it leaves the slot once,  *)
(* with exactly one outcome that nothing changes afterwards.               *)
(***************************************************************************)
CONSTANTS
  Device,     \* device identities
  Turn,       \* turn objects; a turn is begun at most once
  NoTurn      \* the content of a free slot, not a turn

VARIABLES
  slot,       \* the turn that owns each device
  outcome     \* what has become of each turn

slotVars == <<slot, outcome>>

Outcome == {"idle", "open", "closing", "completed", "failed", "cancelled"}

SlotTypeOK ==
  /\ slot \in [Device -> Turn \cup {NoTurn}]
  /\ outcome \in [Turn -> Outcome]

SlotInit ==
  /\ slot = [d \in Device |-> NoTurn]
  /\ outcome = [t \in Turn |-> "idle"]

Open(d, t) ==
  /\ slot[d] = NoTurn
  /\ outcome[t] = "idle"
  /\ slot' = [slot EXCEPT ![d] = t]
  /\ outcome' = [outcome EXCEPT ![t] = "open"]

\* Somebody decided to cancel the turn; the device stays taken.
Close(d, t) ==
  /\ slot[d] = t
  /\ outcome[t] = "open"
  /\ outcome' = [outcome EXCEPT ![t] = "closing"]
  /\ UNCHANGED slot

\* The turn leaves; a closing turn can only leave as cancelled.
Leave(d, t, result) ==
  /\ slot[d] = t
  /\ \/ outcome[t] = "open" /\ result \in {"completed", "failed", "cancelled"}
     \/ outcome[t] = "closing" /\ result = "cancelled"
  /\ slot' = [slot EXCEPT ![d] = NoTurn]
  /\ outcome' = [outcome EXCEPT ![t] = result]

SlotNext ==
  \E d \in Device, t \in Turn :
    \/ Open(d, t)
    \/ Close(d, t)
    \/ \E result \in {"completed", "failed", "cancelled"} : Leave(d, t, result)

SlotSpec == SlotInit /\ [][SlotNext]_slotVars
=============================================================================
