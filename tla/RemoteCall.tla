----------------------------- MODULE RemoteCall -----------------------------
(***************************************************************************)
(* What the Bridge promises about a command, with no queue, no future and  *)
(* no message in it: a call is made over one connection or refused; the    *)
(* device runs it at most once, over that connection and maybe after its   *)
(* caller has given up; and it ends once, with a result only if it ran.    *)
(***************************************************************************)
CONSTANTS
  Request,    \* calls
  Conn,       \* the connections they are made over
  NoConn      \* a call that has taken none

VARIABLES
  fate,       \* what has become of each call
  via,        \* the connection it was made over
  ran         \* <<connection, request>>: what the device has run

callVars == <<fate, via, ran>>

Failure == {"disconnected", "timeout", "interrupted"}
Fate == {"idle", "called", "refused", "result"} \cup Failure

CallTypeOK ==
  /\ fate \in [Request -> Fate]
  /\ via \in [Request -> Conn \cup {NoConn}]
  /\ ran \subseteq Conn \X Request

CallInit ==
  /\ fate = [r \in Request |-> "idle"]
  /\ via = [r \in Request |-> NoConn]
  /\ ran = {}

Refuse(r) ==
  /\ fate[r] = "idle"
  /\ fate' = [fate EXCEPT ![r] = "refused"]
  /\ UNCHANGED <<via, ran>>

Call(r, k) ==
  /\ fate[r] = "idle"
  /\ fate' = [fate EXCEPT ![r] = "called"]
  /\ via' = [via EXCEPT ![r] = k]
  /\ UNCHANGED ran

\* The command of a call that has ended may still be on its way.
Run(r) ==
  /\ fate[r] \notin {"idle", "refused"}
  /\ <<via[r], r>> \notin ran
  /\ ran' = ran \cup {<<via[r], r>>}
  /\ UNCHANGED <<fate, via>>

Return(r) ==
  /\ fate[r] = "called"
  /\ <<via[r], r>> \in ran
  /\ fate' = [fate EXCEPT ![r] = "result"]
  /\ UNCHANGED <<via, ran>>

\* Its caller learns nothing of whether it ran.
Fail(r, how) ==
  /\ fate[r] = "called"
  /\ fate' = [fate EXCEPT ![r] = how]
  /\ UNCHANGED <<via, ran>>

CallNext ==
  \E r \in Request :
    \/ Refuse(r) \/ Run(r) \/ Return(r)
    \/ \E k \in Conn : Call(r, k)
    \/ \E how \in Failure : Fail(r, how)

CallSpec == CallInit /\ [][CallNext]_callVars
=============================================================================
