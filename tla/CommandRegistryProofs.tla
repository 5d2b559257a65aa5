------------------------ MODULE CommandRegistryProofs ------------------------
(***************************************************************************)
(* Proofs about CommandRegistry, for any number of connections and         *)
(* requests and any limit.                                                 *)
(***************************************************************************)
EXTENDS CommandRegistry, TLAPS

(***************************************************************************)
(* The inductive invariant: SlotsAreCalls tells register and unregister    *)
(* which futures there are to fail; the provenance of results carries      *)
(* ResultIsOwn.                                                            *)
(***************************************************************************)
\* A call that has not begun has no result, one that is under way has a connection.
IdleIsFresh ==
  \A r \in Request :
    /\ call[r] = "idle" => future[r] = "none" /\ outcome[r] = "none"
    /\ call[r] \in {"sending", "waiting"} => conn[r] \in Conn

\* Results on the wire, and answers, come from an execution.
AnswersAreExecuted ==
  /\ results \subseteq executed
  /\ \A r \in Request : future[r] = "answered" => <<conn[r], r>> \in executed

IInv ==
  /\ TypeOK
  /\ IdleIsFresh
  /\ SlotsAreCalls
  /\ NoPendingFutureLeft
  /\ AnswersAreExecuted
  /\ ResultIsOwn

\* Before anything happens there is no call, no slot and no future.
LEMMA InitInv == Init => IInv
  BY ConnAssumption
  DEF Init, IInv, TypeOK, IdleIsFresh, SlotsAreCalls, NoPendingFutureLeft, AnswersAreExecuted, ResultIsOwn

\* Failing the pending futures of a connection leaves no pending future on it, and
\* changes no other future (_fail_pending).
LEMMA FailPendingEffect ==
  ASSUME NEW k \in Conn \cup {None}, FailPending(k), IInv
  PROVE  /\ future' \in [Request -> {"none", "pending", "answered", "failed"}]
         /\ \A r \in Request :
              /\ future'[r] = "answered" <=> future[r] = "answered"
              /\ future'[r] = "pending" => future[r] = "pending"
              /\ future'[r] = "none" <=> future[r] = "none"
              /\ future'[r] = "pending" /\ call[r] \in {"sending", "waiting"} => conn[r] # k \/ k = None
<1>1. \A r \in Request : future'[r] =
         IF k # None /\ r \in pending[k] /\ future[r] = "pending" THEN "failed" ELSE future[r]
  BY DEF FailPending
<1>2. \A r \in Request :
         k # None /\ conn[r] = k /\ call[r] \in {"sending", "waiting"} => r \in pending[k]
  BY DEF IInv, SlotsAreCalls
<1>3. future' \in [Request -> {"none", "pending", "answered", "failed"}]
  BY DEF FailPending, IInv, TypeOK
<1> QED BY <1>1, <1>2, <1>3

\* A newer connection takes the registry (register).
LEMMA RegisterInv == ASSUME IInv, NEW k \in Conn, Register(k) PROVE IInv'
<1> USE DEF Register
<1>0. current \in Conn \cup {None} BY DEF IInv, TypeOK
<1>1. TypeOK' BY <1>0, FailPendingEffect DEF IInv, TypeOK, connVars, wireVars
<1>2. IdleIsFresh' BY <1>0, FailPendingEffect DEF IInv, IdleIsFresh
<1>3. SlotsAreCalls' BY DEF IInv, SlotsAreCalls
<1>4. NoPendingFutureLeft'
  <2> SUFFICES ASSUME NEW r \in Request, call[r] \in {"sending", "waiting"}, future'[r] = "pending"
               PROVE  FALSE
    BY DEF NoPendingFutureLeft
  <2>1. conn[r] = current BY <1>0, FailPendingEffect DEF IInv, NoPendingFutureLeft
  <2>2. conn[r] # current \/ current = None BY <1>0, FailPendingEffect
  <2> QED BY <2>1, <2>2, ConnAssumption DEF IInv, IdleIsFresh
<1>5. AnswersAreExecuted' BY <1>0, FailPendingEffect DEF IInv, AnswersAreExecuted, wireVars
<1>6. ResultIsOwn' BY DEF IInv, ResultIsOwn, wireVars
<1> QED BY <1>1, <1>2, <1>3, <1>4, <1>5, <1>6 DEF IInv

\* A connection leaves (unregister).
LEMMA UnregisterInv == ASSUME IInv, NEW k \in Conn, Unregister(k) PROVE IInv'
<1> USE DEF Unregister
<1>a. CASE current = k
  <2>0. k \in Conn \cup {None} /\ FailPending(k) BY <1>a
  <2>1. TypeOK' BY <1>a, <2>0, FailPendingEffect DEF IInv, TypeOK, connVars, wireVars
  <2>2. IdleIsFresh' BY <2>0, FailPendingEffect DEF IInv, IdleIsFresh
  <2>3. SlotsAreCalls' BY DEF IInv, SlotsAreCalls
  <2>4. NoPendingFutureLeft'
    BY <1>a, <2>0, FailPendingEffect, ConnAssumption DEF IInv, NoPendingFutureLeft, TypeOK
  <2>5. AnswersAreExecuted' BY <2>0, FailPendingEffect DEF IInv, AnswersAreExecuted, wireVars
  <2>6. ResultIsOwn' BY DEF IInv, ResultIsOwn, wireVars
  <2> QED BY <2>1, <2>2, <2>3, <2>4, <2>5, <2>6 DEF IInv
<1>b. CASE current # k
  BY <1>b DEF IInv, TypeOK, IdleIsFresh, SlotsAreCalls, NoPendingFutureLeft, AnswersAreExecuted,
              ResultIsOwn, connVars, wireVars
<1> QED BY <1>a, <1>b

\* A call takes a slot and a future of the current connection.
LEMMA SendInv == ASSUME IInv, NEW r \in Request, Send(r) PROVE IInv'
<1> USE DEF Send
<1>0. current \in Conn BY DEF HasRoom, IInv, TypeOK
<1>1. TypeOK' BY <1>0 DEF IInv, TypeOK, connVars
<1>2. IdleIsFresh' BY <1>0 DEF IInv, IdleIsFresh, TypeOK
<1>3. SlotsAreCalls' BY <1>0 DEF IInv, SlotsAreCalls, TypeOK
<1>4. NoPendingFutureLeft' BY <1>0 DEF IInv, NoPendingFutureLeft, TypeOK, connVars
<1>5. AnswersAreExecuted' BY <1>0 DEF IInv, AnswersAreExecuted, TypeOK
<1>6. ResultIsOwn' BY DEF IInv, ResultIsOwn, IdleIsFresh, TypeOK
<1> QED BY <1>1, <1>2, <1>3, <1>4, <1>5, <1>6 DEF IInv

\* A call gives its slot back, whatever ended it.
LEMMA LeavesInv ==
  ASSUME IInv, NEW r \in Request, call[r] \in {"sending", "waiting"},
         NEW how \in {"result", "disconnected", "timeout", "interrupted"},
         how = "result" => future[r] = "answered",
         Leaves(r, how)
  PROVE  IInv'
<1> USE DEF Leaves, Ends
<1>1. TypeOK' BY DEF IInv, TypeOK, connVars, wireVars
<1>2. IdleIsFresh' BY DEF IInv, IdleIsFresh, TypeOK
<1>3. SlotsAreCalls' BY DEF IInv, SlotsAreCalls, TypeOK
<1>4. NoPendingFutureLeft' BY DEF IInv, NoPendingFutureLeft, TypeOK, connVars
<1>5. AnswersAreExecuted' BY DEF IInv, AnswersAreExecuted, wireVars
<1>6. ResultIsOwn' BY DEF IInv, ResultIsOwn, AnswersAreExecuted, TypeOK, wireVars
<1> QED BY <1>1, <1>2, <1>3, <1>4, <1>5, <1>6 DEF IInv

\* A result is received (route_result).
LEMMA RouteResultInv ==
  ASSUME IInv, NEW k \in Conn, NEW r \in Request, RouteResult(k, r) PROVE IInv'
<1> USE DEF RouteResult
<1>1. TypeOK' BY DEF IInv, TypeOK, connVars
<1>2. IdleIsFresh' BY DEF IInv, IdleIsFresh, TypeOK
<1>3. SlotsAreCalls' BY DEF IInv, SlotsAreCalls
<1>4. NoPendingFutureLeft' BY DEF IInv, NoPendingFutureLeft, TypeOK, connVars
<1>5. AnswersAreExecuted' BY DEF IInv, AnswersAreExecuted, SlotsAreCalls, TypeOK
<1>6. ResultIsOwn' BY DEF IInv, ResultIsOwn
<1> QED BY <1>1, <1>2, <1>3, <1>4, <1>5, <1>6 DEF IInv

\* Every step preserves the inductive invariant.
LEMMA NextInv == ASSUME IInv, [Next]_vars PROVE IInv'
<1>a. ASSUME NEW k \in Conn, Register(k) PROVE IInv' BY <1>a, RegisterInv
<1>b. ASSUME NEW k \in Conn, MarkReady(k) PROVE IInv'
  BY <1>b DEF MarkReady, IInv, TypeOK, IdleIsFresh, SlotsAreCalls, NoPendingFutureLeft,
              AnswersAreExecuted, ResultIsOwn, wireVars
<1>c. ASSUME NEW k \in Conn, Unregister(k) PROVE IInv' BY <1>c, UnregisterInv
<1>d. ASSUME NEW r \in Request, Refuse(r) PROVE IInv'
  BY <1>d DEF Refuse, Ends, IInv, TypeOK, IdleIsFresh, SlotsAreCalls, NoPendingFutureLeft,
              AnswersAreExecuted, ResultIsOwn, connVars, wireVars
<1>e. ASSUME NEW r \in Request, Send(r) PROVE IInv' BY <1>e, SendInv
<1>f. ASSUME NEW r \in Request, SendReturns(r) PROVE IInv'
  <2>1. CASE current = conn[r]
    BY <1>f, <2>1 DEF SendReturns, IInv, TypeOK, IdleIsFresh, SlotsAreCalls, NoPendingFutureLeft,
              AnswersAreExecuted, ResultIsOwn, connVars, wireVars
  <2>2. CASE current # conn[r] BY <1>f, <2>2, LeavesInv DEF SendReturns
  <2> QED BY <2>1, <2>2
<1>g. ASSUME NEW r \in Request, SendFails(r) PROVE IInv' BY <1>g, LeavesInv DEF SendFails
<1>h. ASSUME NEW r \in Request, Wakes(r) PROVE IInv'
  <2>1. CASE future[r] = "answered" BY <1>h, <2>1, LeavesInv DEF Wakes
  <2>2. CASE future[r] # "answered" BY <1>h, <2>2, LeavesInv DEF Wakes
  <2> QED BY <2>1, <2>2
<1>i. ASSUME NEW r \in Request, TimesOut(r) PROVE IInv' BY <1>i, LeavesInv DEF TimesOut
<1>j. ASSUME NEW r \in Request, Interrupt(r) PROVE IInv' BY <1>j, LeavesInv DEF Interrupt
<1>k. ASSUME NEW k \in Conn, NEW r \in Request, Execute(k, r) PROVE IInv'
  BY <1>k DEF Execute, IInv, TypeOK, IdleIsFresh, SlotsAreCalls, NoPendingFutureLeft,
              AnswersAreExecuted, ResultIsOwn, connVars
<1>l. ASSUME NEW k \in Conn, NEW r \in Request, RouteResult(k, r) PROVE IInv'
  BY <1>l, RouteResultInv
<1>m. CASE UNCHANGED vars
  BY <1>m DEF vars, connVars, wireVars, IInv, TypeOK, IdleIsFresh, SlotsAreCalls,
              NoPendingFutureLeft, AnswersAreExecuted, ResultIsOwn
<1> QED BY <1>a, <1>b, <1>c, <1>d, <1>e, <1>f, <1>g, <1>h, <1>i, <1>j, <1>k, <1>l, <1>m DEF Next

\* The inductive invariant holds of every behaviour of the registry.
THEOREM Invariance == Spec => []IInv
  BY InitInv, NextInv, PTL DEF Spec

\* Every variable keeps its type.
THEOREM TypeCorrect == Spec => []TypeOK
<1>1. IInv => TypeOK BY DEF IInv
<1> QED BY <1>1, Invariance, PTL

\* A connection that has gone leaves no pending command future (_fail_pending).
THEOREM NoFutureLeft == Spec => []NoPendingFutureLeft
<1>1. IInv => NoPendingFutureLeft BY DEF IInv
<1> QED BY <1>1, Invariance, PTL

\* The slots of the queue are exactly the calls under way.
THEOREM SlotsExact == Spec => []SlotsAreCalls
<1>1. IInv => SlotsAreCalls BY DEF IInv
<1> QED BY <1>1, Invariance, PTL

\* A result answers the command, over its own connection.
THEOREM ResultsAuthentic == Spec => []ResultIsOwn
<1>1. IInv => ResultIsOwn BY DEF IInv
<1> QED BY <1>1, Invariance, PTL

\* Only route_result answers a call, and only for the current connection's open socket.
THEOREM LateResultsIgnored == Spec => LateResultIgnored
<1> DEFINE TakenInTime ==
      \A r \in Request : future'[r] = "answered" /\ future[r] # "answered" =>
        call[r] \in {"sending", "waiting"} /\ conn[r] = current /\ socket[current] = "open"
<1>1. ASSUME IInv, Next PROVE TakenInTime
  <2>0. current \in Conn \cup {None} BY <1>1 DEF IInv, TypeOK
  <2>1. ASSUME NEW k \in Conn, Register(k) \/ Unregister(k) PROVE TakenInTime
    BY <1>1, <2>0, <2>1, FailPendingEffect DEF Register, Unregister
  <2>2. ASSUME NEW r \in Request, Send(r) PROVE TakenInTime
    BY <1>1, <2>2 DEF Send, IInv, TypeOK
  <2>3. ASSUME NEW k \in Conn, NEW r \in Request, RouteResult(k, r) PROVE TakenInTime
    BY <1>1, <2>3 DEF RouteResult, IInv, TypeOK, SlotsAreCalls
  <2>4. ASSUME UNCHANGED future PROVE TakenInTime BY <2>4
  <2> QED
    BY <1>1, <2>1, <2>2, <2>3, <2>4
    DEF Next, MarkReady, Refuse, SendReturns, SendFails, Wakes, TimesOut, Interrupt, Execute, Leaves
<1>2. ASSUME IInv, [Next]_vars PROVE [TakenInTime]_vars BY <1>1, <1>2
<1> QED BY <1>2, Invariance, PTL DEF Spec, LateResultIgnored

(***************************************************************************)
(* Every behaviour of the registry is one of RemoteCall. WireInv is what   *)
(* the mapping needs beyond IInv: a command on its way, or executed, is    *)
(* that of a call which was made, over the connection it has taken, and it *)
(* is not on its way any more once it was executed.                        *)
(***************************************************************************)
Made(k, r) == k = conn[r] /\ call[r] # "idle" /\ outcome[r] # "refused"

WireInv ==
  /\ \A k \in Conn, r \in Request : <<k, r>> \in commands \cup executed => Made(k, r)
  /\ commands \cap executed = {}
  /\ \A r \in Request : (call[r] # "done" => outcome[r] = "none") /\ (call[r] = "idle" => conn[r] = None)

\* Nothing is on its way before the first call.
LEMMA InitWire == Init => WireInv
  BY DEF Init, WireInv

\* A call that is made and ends stays made (Leaves).
LEMMA LeavesWire ==
  ASSUME IInv, WireInv, NEW r \in Request, call[r] \in {"sending", "waiting"},
         NEW how \in Remote!Failure \cup {"result"}, Leaves(r, how)
  PROVE  WireInv'
BY DEF IInv, TypeOK, WireInv, Made, Leaves, Ends, wireVars, Remote!Failure

\* Every step preserves it: only send_command puts a command on the wire, once per call.
LEMMA NextWire == ASSUME IInv, WireInv, [Next]_vars PROVE WireInv'
<1>a. ASSUME UNCHANGED <<commands, executed, conn, call, outcome>> PROVE WireInv'
  BY <1>a DEF WireInv, Made
<1>b. ASSUME NEW r \in Request, Refuse(r) PROVE WireInv'
  BY <1>b DEF Refuse, Ends, IInv, TypeOK, WireInv, Made, wireVars
<1>c. ASSUME NEW r \in Request, Send(r) PROVE WireInv'
  <2>1. current \in Conn BY <1>c DEF Send, HasRoom, IInv, TypeOK
  <2>2. \A k \in Conn : <<k, r>> \notin commands \cup executed
    BY <1>c DEF Send, WireInv, Made
  <2> QED BY <1>c, <2>1, <2>2 DEF Send, IInv, TypeOK, WireInv, Made
<1>d. ASSUME NEW r \in Request, SendReturns(r) PROVE WireInv'
  <2>1. CASE current = conn[r]
    BY <1>d, <2>1 DEF SendReturns, IInv, TypeOK, WireInv, Made, wireVars
  <2>2. CASE current # conn[r]
    BY <1>d, <2>2, LeavesWire DEF SendReturns, Remote!Failure
  <2> QED BY <2>1, <2>2
<1>e. ASSUME NEW r \in Request, SendFails(r) \/ Wakes(r) \/ TimesOut(r) \/ Interrupt(r) PROVE WireInv'
  BY <1>e, LeavesWire DEF SendFails, Wakes, TimesOut, Interrupt, Remote!Failure
<1>f. ASSUME NEW k \in Conn, NEW r \in Request, Execute(k, r) PROVE WireInv'
  BY <1>f DEF Execute, WireInv, Made
<1> QED
  BY <1>a, <1>b, <1>c, <1>d, <1>e, <1>f
  DEF Next, Register, MarkReady, Unregister, RouteResult, vars, wireVars

\* No call is made in the registry's initial state.
LEMMA CallInitMaps == Init => Remote!CallInit
  BY DEF Init, Remote!CallInit, CallFate

\* A call under way ends as its caller sees it end.
LEMMA LeavesMaps ==
  ASSUME IInv, NEW r \in Request, call[r] \in {"sending", "waiting"},
         NEW how \in Remote!Failure \cup {"result"},
         how = "result" => future[r] = "answered",
         Leaves(r, how)
  PROVE  Remote!CallNext
<1>1. CallFate[r] = "called" BY DEF CallFate
<1>2. CallFate' = [CallFate EXCEPT ![r] = how]
  BY DEF CallFate, Leaves, Ends, IInv, TypeOK
<1>3. UNCHANGED <<conn, executed>> BY DEF Leaves, wireVars
<1>4. CASE how = "result"
  <2>1. <<conn[r], r>> \in executed BY <1>4 DEF IInv, AnswersAreExecuted
  <2> QED BY <1>1, <1>2, <1>3, <1>4, <2>1 DEF Remote!CallNext, Remote!Return
<1>5. CASE how # "result"
  BY <1>1, <1>2, <1>3, <1>5 DEF Remote!CallNext, Remote!Fail
<1> QED BY <1>4, <1>5

\* Every step is a step of a remote call, or one that callers do not see.
LEMMA CallStepMaps ==
  ASSUME IInv, WireInv, [Next]_vars
  PROVE  Remote!CallNext \/ UNCHANGED <<CallFate, conn, executed>>
<1>a. ASSUME UNCHANGED <<conn, call, outcome, executed>> PROVE UNCHANGED <<CallFate, conn, executed>>
  BY <1>a DEF CallFate
<1>b. ASSUME NEW r \in Request, Refuse(r) PROVE Remote!CallNext
  <2>1. CallFate[r] = "idle" BY <1>b DEF Refuse, CallFate
  <2>2. CallFate' = [CallFate EXCEPT ![r] = "refused"]
    BY <1>b DEF Refuse, Ends, CallFate, IInv, TypeOK
  <2> QED BY <1>b, <2>1, <2>2 DEF Refuse, wireVars, Remote!CallNext, Remote!Refuse
<1>c. ASSUME NEW r \in Request, Send(r) PROVE Remote!CallNext
  <2>1. CallFate[r] = "idle" /\ current \in Conn
    BY <1>c DEF Send, HasRoom, CallFate, IInv, TypeOK
  <2>2. CallFate' = [CallFate EXCEPT ![r] = "called"]
    BY <1>c DEF Send, CallFate, IInv, TypeOK
  <2> QED BY <1>c, <2>1, <2>2 DEF Send, Remote!CallNext, Remote!Call
<1>d. ASSUME NEW r \in Request, SendReturns(r)
      PROVE  Remote!CallNext \/ UNCHANGED <<CallFate, conn, executed>>
  <2>1. CASE current = conn[r]
    BY <1>d, <2>1 DEF SendReturns, CallFate, IInv, TypeOK, wireVars
  <2>2. CASE current # conn[r]
    BY <1>d, <2>2, LeavesMaps DEF SendReturns, Remote!Failure
  <2> QED BY <2>1, <2>2
<1>e. ASSUME NEW r \in Request, SendFails(r) \/ TimesOut(r) \/ Interrupt(r) PROVE Remote!CallNext
  BY <1>e, LeavesMaps DEF SendFails, TimesOut, Interrupt, Remote!Failure
<1>f. ASSUME NEW r \in Request, Wakes(r) PROVE Remote!CallNext
  <2>1. CASE future[r] = "answered" BY <1>f, <2>1, LeavesMaps DEF Wakes
  <2>2. CASE future[r] # "answered" BY <1>f, <2>2, LeavesMaps DEF Wakes, Remote!Failure
  <2> QED BY <2>1, <2>2
<1>g. ASSUME NEW k \in Conn, NEW r \in Request, Execute(k, r) PROVE Remote!CallNext
  <2>1. Made(k, r) /\ <<k, r>> \notin executed BY <1>g DEF Execute, WireInv
  <2>2. CallFate[r] \notin {"idle", "refused"}
    BY <2>1 DEF Made, CallFate, IInv, TypeOK
  <2>3. CallFate' = CallFate BY <1>g DEF Execute, CallFate
  <2> QED BY <1>g, <2>1, <2>2, <2>3 DEF Execute, Made, Remote!CallNext, Remote!Run
<1> QED
  BY <1>a, <1>b, <1>c, <1>d, <1>e, <1>f, <1>g
  DEF Next, Register, MarkReady, Unregister, RouteResult, vars, wireVars

\* Commands over connections that replace each other implement remote calls.
THEOREM CallRefinement == Spec => ImplementsRemoteCall
<1>1. Init => IInv /\ WireInv BY InitInv, InitWire
<1>2. IInv /\ WireInv /\ [Next]_vars => (IInv /\ WireInv)' BY NextInv, NextWire
<1>3. IInv /\ WireInv /\ [Next]_vars => [Remote!CallNext]_<<CallFate, conn, executed>>
  BY CallStepMaps
<1> QED
  BY <1>1, <1>2, <1>3, CallInitMaps, PTL
  DEF Spec, ImplementsRemoteCall, Remote!CallSpec, Remote!callVars
=============================================================================
