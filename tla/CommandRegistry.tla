--------------------------- MODULE CommandRegistry ---------------------------
(***************************************************************************)
(* Commands of the Bridge to one device: send_command and route_result of  *)
(* DeviceRegistry (bridge/src/stackchan_bridge/device_gateway/             *)
(* application.py) over connections that replace each other, and the       *)
(* device's execution of a command (firmware session.cpp).                 *)
(*                                                                         *)
(* A command is pending from before its text is sent, so its result may    *)
(* arrive before send_text returns. A socket delivers each text at most    *)
(* once. Commands of different devices share nothing but max_connections,  *)
(* which is left out.                                                      *)
(***************************************************************************)
EXTENDS Integers, FiniteSets

CONSTANTS
  Conn,       \* connections of the device, in no particular order
  Request,    \* calls of send_command, each with its own request id
  None,
  Limit       \* pending commands of a connection (16 in the code)

ASSUME ConnAssumption == None \notin Conn
ASSUME LimitAssumption == Limit \in Nat

VARIABLES
  current,    \* _connections[device_id]
  ready,      \* registered connections that are not in _pending_handshakes
  socket,     \* the handler of each connection: "new", "open" or "closed"
  pending,    \* pending_commands of each connection
  conn,       \* the connection a call has taken
  call,       \* where each call is suspended
  future,     \* the state of each call's result_future
  outcome,    \* how each call ended
  commands,   \* <<connection, request>>: commands on their way to the device
  results,    \* <<connection, request>>: results on their way to the Bridge
  executed    \* <<connection, request>>: what the device has executed

connVars == <<current, ready, socket>>
wireVars == <<commands, results, executed>>
vars == <<connVars, pending, conn, call, future, outcome, wireVars>>

TypeOK ==
  /\ current \in Conn \cup {None}
  /\ ready \in SUBSET Conn
  /\ socket \in [Conn -> {"new", "open", "closed"}]
  /\ pending \in [Conn -> SUBSET Request]
  /\ conn \in [Request -> Conn \cup {None}]
  /\ call \in [Request -> {"idle", "sending", "waiting", "done"}]
  /\ future \in [Request -> {"none", "pending", "answered", "failed"}]
  /\ outcome \in [Request -> {"none", "refused", "result", "disconnected", "timeout", "interrupted"}]
  /\ commands \in SUBSET (Conn \X Request)
  /\ results \in SUBSET (Conn \X Request)
  /\ executed \in SUBSET (Conn \X Request)

Init ==
  /\ current = None /\ ready = {}
  /\ socket = [k \in Conn |-> "new"]
  /\ pending = [k \in Conn |-> {}]
  /\ conn = [r \in Request |-> None]
  /\ call = [r \in Request |-> "idle"]
  /\ future = [r \in Request |-> "none"]
  /\ outcome = [r \in Request |-> "none"]
  /\ commands = {} /\ results = {} /\ executed = {}

(***************************************************************************)
(* Connections.                                                            *)
(***************************************************************************)
FailPendingFaulty(k) ==
  future' = [r \in Request |->
    IF k # None /\ r \in pending[k] /\ future[r] = "pending" THEN "answered" ELSE future[r]]

\* _fail_pending: every command of k that has no result yet.
FailPending(k) ==
  future' = [r \in Request |->
    IF k # None /\ r \in pending[k] /\ future[r] = "pending" THEN "failed" ELSE future[r]]

\* register: the newer connection wins, and is not ready yet.
Register(k) ==
  /\ socket[k] = "new"
  /\ socket' = [socket EXCEPT ![k] = "open"]
  /\ current' = k
  /\ FailPending(current)
  /\ UNCHANGED <<ready, pending, conn, call, outcome, wireVars>>

\* mark_ready, after the hello_ack
MarkReady(k) ==
  /\ socket[k] = "open" /\ current = k /\ k \notin ready
  /\ ready' = ready \cup {k}
  /\ UNCHANGED <<current, socket, pending, conn, call, future, outcome, wireVars>>

UnregisterFaulty(k) ==
  /\ socket[k] = "open"
  /\ socket' = [socket EXCEPT ![k] = "closed"]
  /\ ready' = ready \ {k}
  /\ IF current = k THEN current' = None ELSE UNCHANGED current
  /\ UNCHANGED <<pending, conn, call, future, outcome, wireVars>>

\* The socket closed, by either end, and its handler leaves (unregister); a connection
\* that was replaced leaves the registry alone.
Unregister(k) ==
  /\ socket[k] = "open"
  /\ socket' = [socket EXCEPT ![k] = "closed"]
  /\ ready' = ready \ {k}
  /\ IF current = k THEN current' = None /\ FailPending(k) ELSE UNCHANGED <<current, future>>
  /\ UNCHANGED <<pending, conn, call, outcome, wireVars>>

(***************************************************************************)
(* send_command.                                                           *)
(***************************************************************************)
Ends(r, how) ==
  /\ call' = [call EXCEPT ![r] = "done"]
  /\ outcome' = [outcome EXCEPT ![r] = how]

\* A call ends after it has taken a connection: its finally block.
Leaves(r, how) ==
  /\ Ends(r, how)
  /\ pending' = [pending EXCEPT ![conn[r]] = @ \ {r}]
  /\ UNCHANGED <<connVars, conn, future, wireVars>>

\* get_connection finds a connection, and its queue has room.
HasRoom == current \in ready /\ Cardinality(pending[current]) < Limit

\* No connection, one in its handshake, or too many pending commands.
Refuse(r) ==
  /\ call[r] = "idle"
  /\ ~HasRoom
  /\ Ends(r, "refused")
  /\ UNCHANGED <<connVars, pending, conn, future, wireVars>>

\* Up to the wait for send_text, which hands the text to an open socket at once.
Send(r) ==
  /\ call[r] = "idle"
  /\ HasRoom
  /\ conn' = [conn EXCEPT ![r] = current]
  /\ pending' = [pending EXCEPT ![current] = @ \cup {r}]
  /\ call' = [call EXCEPT ![r] = "sending"]
  /\ future' = [future EXCEPT ![r] = "pending"]
  /\ commands' = commands \cup {<<current, r>>}
  /\ UNCHANGED <<connVars, outcome, results, executed>>

SendReturnsFaulty(r) ==
  /\ call[r] = "sending" /\ current = conn[r]
  /\ call' = [call EXCEPT ![r] = "waiting"]
  /\ UNCHANGED <<connVars, pending, conn, future, outcome, wireVars>>

\* send_text returns; the connection may have been replaced meanwhile.
SendReturns(r) ==
  /\ call[r] = "sending"
  /\ IF current = conn[r]
       THEN /\ call' = [call EXCEPT ![r] = "waiting"]
            /\ UNCHANGED <<connVars, pending, conn, future, outcome, wireVars>>
       ELSE Leaves(r, "disconnected")

\* send_text raises on a closed socket; the text may not have left.
SendFails(r) ==
  /\ call[r] = "sending"
  /\ Leaves(r, "disconnected")

WakesFaulty(r) ==
  /\ call[r] = "waiting" /\ future[r] \in {"answered", "failed"}
  /\ call' = [call EXCEPT ![r] = "done"]
  /\ outcome' = [outcome EXCEPT ![r] = IF future[r] = "answered" THEN "result" ELSE "disconnected"]
  /\ UNCHANGED <<connVars, pending, conn, future, wireVars>>

\* The future is done.
Wakes(r) ==
  /\ call[r] = "waiting" /\ future[r] \in {"answered", "failed"}
  /\ Leaves(r, IF future[r] = "answered" THEN "result" ELSE "disconnected")

\* The timeout, which wins against a result that arrives in the same turn of the loop.
TimesOut(r) ==
  /\ call[r] = "waiting"
  /\ Leaves(r, "timeout")

\* The caller of send_command is cancelled.
Interrupt(r) ==
  /\ call[r] \in {"sending", "waiting"}
  /\ Leaves(r, "interrupted")

(***************************************************************************)
(* Results.                                                                *)
(***************************************************************************)
\* The device executes a command it has received and sends the result.
Execute(k, r) ==
  /\ <<k, r>> \in commands
  /\ commands' = commands \ {<<k, r>>}
  /\ executed' = executed \cup {<<k, r>>}
  /\ results' = IF socket[k] = "open" THEN results \cup {<<k, r>>} ELSE results
  /\ UNCHANGED <<connVars, pending, conn, call, future, outcome>>

\* The handler of k receives a result (route_result): it counts while k is the current
\* connection and the call has no result yet.
RouteResult(k, r) ==
  /\ <<k, r>> \in results /\ socket[k] = "open"
  /\ results' = results \ {<<k, r>>}
  /\ future' = IF current = k /\ r \in pending[k] /\ future[r] = "pending"
                 THEN [future EXCEPT ![r] = "answered"] ELSE future
  /\ UNCHANGED <<connVars, pending, conn, call, outcome, commands, executed>>

Next ==
  \/ \E k \in Conn : Register(k) \/ MarkReady(k) \/ Unregister(k)
  \/ \E r \in Request :
       \/ Refuse(r) \/ Send(r) \/ SendReturns(r) \/ SendFails(r)
       \/ Wakes(r) \/ TimesOut(r) \/ Interrupt(r)
  \/ \E k \in Conn, r \in Request : Execute(k, r) \/ RouteResult(k, r)

\* send_text returns or raises (the server closes a socket that does not answer pings);
\* the loop wakes who can run, and the timer fires.
Fairness ==
  \A r \in Request : WF_vars(SendReturns(r)) /\ WF_vars(Wakes(r)) /\ WF_vars(TimesOut(r))

Spec == Init /\ [][Next]_vars

LiveSpec == Spec /\ Fairness

(***************************************************************************)
(* Properties.                                                             *)
(***************************************************************************)
\* A connection that has gone leaves no pending command future behind: nobody waits for
\* a result that route_result would reject (_fail_pending, docs/state-machines.md:91).
NoPendingFutureLeft ==
  \A r \in Request :
    call[r] \in {"sending", "waiting"} /\ future[r] = "pending" => conn[r] = current

\* A slot of the queue is held exactly by a call that is under way, so a full queue
\* drains and a freed slot can be used (the finally block of send_command).
SlotsAreCalls ==
  \A k \in Conn, r \in Request :
    r \in pending[k] <=> conn[r] = k /\ call[r] \in {"sending", "waiting"}

\* A result is the answer to this very command over the connection it was sent on.
ResultIsOwn ==
  \A r \in Request : outcome[r] = "result" => <<conn[r], r>> \in executed

\* A result that comes late, after the call has ended, over a connection that was
\* replaced, or after the future has failed, changes nothing (route_result).
LateResultIgnored ==
  [][\A r \in Request : future'[r] = "answered" /\ future[r] # "answered" =>
       call[r] \in {"sending", "waiting"} /\ conn[r] = current /\ socket[current] = "open"]_vars

\* The calls as their callers see them.
CallFate ==
  [r \in Request |->
     IF call[r] = "done" THEN outcome[r] ELSE IF call[r] = "idle" THEN "idle" ELSE "called"]

Remote == INSTANCE RemoteCall WITH NoConn <- None, fate <- CallFate, via <- conn, ran <- executed

\* Over connections that replace each other, and with results that come late, a command is
\* a remote call: made over one connection, executed at most once, and only there, ended
\* once, and with a result only if it was executed (send_command, route_result).
ImplementsRemoteCall == Remote!CallSpec

\* Every command ends, whether or not the device answers.
CallsEnd == \A r \in Request : (call[r] # "idle") ~> (call[r] = "done")
=============================================================================
