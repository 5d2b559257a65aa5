----------------------------- MODULE BridgeLink -----------------------------
(***************************************************************************)
(* What the device's link to the Bridge promises to its session, with no   *)
(* thread, no queue and no socket in it: a session is established once per *)
(* attempt, by the answer to the question this attempt asked; an attempt   *)
(* that can no longer be answered is over, and so is a session that has    *)
(* been given up, before another attempt begins. The exception is a dial   *)
(* that fails: it may leave the attempt that is over ajar, and a late      *)
(* answer then leads to a session that is to be left.                      *)
(***************************************************************************)
EXTENDS Integers

VARIABLES
  stage,    \* where the link is
  attempt   \* connection attempts so far

linkVars == <<stage, attempt>>

Asking == {"dialing", "asked", "answered", "silent"}

LinkInit == stage = "off" /\ attempt = 0

Dial ==
  /\ stage \in {"off", "over", "ajar"} /\ stage' = "dialing"
  /\ attempt' = attempt + 1

Goes(from, to) == stage \in from /\ stage' = to /\ UNCHANGED attempt

\* There was nobody to dial, or no means; the attempt may count all the same.
NoDial ==
  /\ stage \in {"off", "over", "ajar"}
  /\ \/ stage' = "over" /\ attempt' \in {attempt, attempt + 1}
     \/ stage = "over" /\ stage' = "ajar" /\ UNCHANGED attempt

Ask == Goes({"dialing"}, "asked")

Answer == Goes({"asked"}, "answered")

\* No answer can come any more, and the session does not know yet.
Fail == Goes({"dialing", "asked"}, "silent")

Establish == Goes({"answered"}, "up")

EstablishLate == Goes({"ajar"}, "leaving")

\* The session has asked for another connection and waits for the end of this one.
Leave == Goes({"up"}, "leaving")

End == Goes(Asking \cup {"ajar", "up", "leaving"}, "over")

LinkNext ==
  \/ Dial \/ NoDial \/ Ask \/ Answer \/ Fail
  \/ Establish \/ EstablishLate \/ Leave \/ End

LinkSpec == LinkInit /\ [][LinkNext]_linkVars
=============================================================================
