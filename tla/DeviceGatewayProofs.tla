------------------------- MODULE DeviceGatewayProofs -------------------------
(***************************************************************************)
(* Proofs about DeviceGateway, for any number of connections and turns: a  *)
(* busy device never loses its keeper nor a stream its handler, but for    *)
(* the two places the properties name, and no stream is overwritten.       *)
(*                                                                         *)
(* Handlers resume in any order among the steps of the others, so little   *)
(* is known of what they find. What is known is the invariant: a start     *)
(* that waits has a turn nobody has begun; a frame that waits has a stream *)
(* whose turn is over; and who waits for a turn in start never finds that  *)
(* turn's stream open.                                                     *)
(***************************************************************************)
EXTENDS DeviceGateway, Integers, SequenceTheorems, TLAPS

InLine(w, k) == \E i \in 1..Len(w) : w[i] = k

\* What is so of any state of the coordinator that a handler finds or leaves.
Sound(c) ==
  /\ c.slot # NoTurn => c.phase[c.slot] \notin {"new", "over"}
  /\ \A t \in Turn : c.phase[t] \notin {"new", "over"} => c.slot = t
  /\ \A t \in Turn : c.phase[t] = "new" => c.waiting[t] = <<>>
  /\ \A t \in Turn : live[t] = "running" => c.slot = t

\* Each turn's phase, task, line and slot agree.
TurnsAgree ==
  /\ Sound(Current)
  /\ \A t \in Turn : phase[t] = "new" => live[t] = "none"

\* The turn of an open stream was begun by its connection, and submitted once completed.
StreamsAgree ==
  capture # NoTurn =>
    /\ phase[capture] # "new"
    /\ origin[capture] \in Conn
    /\ ~completed => live[capture] = "none"

\* A handler suspended in start has its new turn, and its stream until its socket is closed.
StartersKeepTheirs ==
  \A k \in Conn :
    at[k] = "starting" =>
      /\ message[k] \in Turn
      /\ origin[message[k]] = k
      /\ phase[message[k]] = "new"
      /\ input[k] = message[k] \/ k \in shut

\* A handler suspended in frame cancels another turn than that of its stream.
FramesAgree ==
  \A k \in Conn :
    at[k] = "framing" /\ input[k] # NoTurn => phase[input[k]] # "new" /\ slot # input[k]

\* A start does not wait for the turn of the open stream.
StartersWaitForOthers ==
  \A t \in Turn, k \in Conn : at[k] = "starting" /\ InLine(waiting[t], k) => capture # t

\* A handshake closes the socket it replaces before it waits for the old turn.
PreviousKnown ==
  /\ \A j \in Conn : at[j] \in {"replacing", "cancelling"} => previous[j] \in Conn
  /\ \A j \in Conn : at[j] = "cancelling" => previous[j] \in shut

Agreed ==
  /\ TurnsAgree
  /\ StreamsAgree
  /\ StartersKeepTheirs
  /\ FramesAgree
  /\ StartersWaitForOthers
  /\ PreviousKnown

Agreement == TypeOK /\ Agreed

(***************************************************************************)
(* Types.                                                                  *)
(***************************************************************************)
CoordinatorState ==
  [slot : Turn \cup {NoTurn}, phase : [Turn -> Phase], waiting : [Turn -> Seq(Conn)]]

LEMMA CurrentType == TypeOK => Current \in CoordinatorState
BY DEF TypeOK, Current, CoordinatorState

LEMMA ReleasedType ==
  ASSUME NEW c \in CoordinatorState, NEW t
  PROVE  Without(c) \in CoordinatorState /\ Released(c, t) \in CoordinatorState
<1>1. Without(c) \in CoordinatorState
  <2>1. CASE c.slot = NoTurn BY <2>1 DEF Without
  <2>2. CASE c.slot # NoTurn
    <3>1. Without(c) = [c EXCEPT !.slot = NoTurn, !.phase[c.slot] = "over"]
      BY <2>2 DEF Without
    <3>2. c.phase \in [Turn -> Phase] /\ c.waiting \in [Turn -> Seq(Conn)]
      BY DEF CoordinatorState
    <3>3. [c.phase EXCEPT ![c.slot] = "over"] \in [Turn -> Phase] BY <3>2 DEF Phase
    <3>4. Without(c) = [slot |-> NoTurn, phase |-> [c.phase EXCEPT ![c.slot] = "over"],
                        waiting |-> c.waiting]
      BY <3>1 DEF CoordinatorState
    <3> QED BY <3>2, <3>3, <3>4 DEF CoordinatorState
  <2> QED BY <2>1, <2>2
<1> QED BY <1>1 DEF Released

LEMMA WokenType ==
  ASSUME TypeOK, NEW t \in Turn, waiting[t] # <<>>
  PROVE  Woken(t) \in CoordinatorState
<1>1. Tail(waiting[t]) \in Seq(Conn) BY HeadTailProperties DEF TypeOK
<1>2. [Current EXCEPT !.waiting[t] = Tail(@)] \in CoordinatorState
  BY <1>1, CurrentType DEF Current, CoordinatorState
<1> QED BY <1>2, ReleasedType DEF Woken

TurnTypes ==
  slot \in Turn \cup {NoTurn} /\ phase \in [Turn -> Phase] /\ waiting \in [Turn -> Seq(Conn)]

LEMMA PutType ==
  ASSUME NEW c \in CoordinatorState, Put(c)
  PROVE  TurnTypes'
BY DEF Put, CoordinatorState, TurnTypes

LEMMA GoType ==
  ASSUME TypeOK, NEW k \in Conn, NEW place \in Place, Go(k, place)
  PROVE  at' \in [Conn -> Place]
BY DEF TypeOK, Go

LEMMA CancelType ==
  ASSUME TypeOK, NEW k \in Conn, NEW c \in CoordinatorState, NEW p \in Place, NEW q \in Place,
         CancelThen(k, c, p, q)
  PROVE  TurnTypes' /\ at' \in [Conn -> Place]
<1>1. CASE Running(c)
  <2>1. c.slot \in Turn BY <1>1 DEF Running, CoordinatorState
  <2>2. Append(c.waiting[c.slot], k) \in Seq(Conn)
    BY <2>1, AppendProperties DEF CoordinatorState
  <2>3. [c EXCEPT !.phase[c.slot] = "closing", !.waiting[c.slot] = Append(@, k)]
          \in CoordinatorState
    BY <2>1, <2>2 DEF CoordinatorState, Phase
  <2>4. Go(k, p) /\ Put([c EXCEPT !.phase[c.slot] = "closing", !.waiting[c.slot] = Append(@, k)])
    BY <1>1 DEF CancelThen
  <2> QED BY <2>3, <2>4, PutType, GoType
<1>2. CASE ~Running(c) BY <1>2, PutType, GoType, ReleasedType DEF CancelThen
<1> QED BY <1>1, <1>2

StreamTypes ==
  /\ input \in [Conn -> Turn \cup {NoTurn}] /\ capture \in Turn \cup {NoTurn}
  /\ completed \in BOOLEAN

RestTypes ==
  /\ registered \in Conn \cup {NoConn} /\ pending \subseteq Conn
  /\ previous \in [Conn -> Conn \cup {NoConn}] /\ shut \subseteq Conn
  /\ live \in [Turn -> {"none", "queued", "running", "done"}]
  /\ origin \in [Turn -> Conn \cup {NoConn}]
  /\ message \in [Conn -> Turn \cup {NoTurn}] /\ api \in Turn \cup {NoTurn}

AllTypes == TurnTypes /\ StreamTypes /\ RestTypes /\ at \in [Conn -> Place]

LEMMA TypeParts == ASSUME AllTypes' PROVE TypeOK'
BY DEF TypeOK, AllTypes, TurnTypes, StreamTypes, RestTypes

LEMMA DropType ==
  ASSUME TypeOK, NEW k \in Conn, NEW c \in CoordinatorState, DropPreviousInput(k, c)
  PROVE  TurnTypes' /\ StreamTypes' /\ at' \in [Conn -> Place]
<1> DEFINE owned == input[previous[k]] # NoTurn /\ capture = input[previous[k]]
<1>1. CancelThen(k, c, "dropping", "acking") \/ (Go(k, "acking") /\ Put(c))
  BY DEF DropPreviousInput
<1>2. TurnTypes' /\ at' \in [Conn -> Place]
  BY <1>1, PutType, CancelType, GoType DEF Place
<1>3. input' = [input EXCEPT ![previous[k]] = NoTurn] /\ capture' \in {capture, NoTurn}
  BY DEF DropPreviousInput
<1>4. completed' \in BOOLEAN BY Zenon DEF DropPreviousInput
<1> QED BY <1>2, <1>3, <1>4 DEF StreamTypes, TypeOK

LEMMA BeginCaptureType ==
  ASSUME TypeOK, NEW k \in Conn, NEW t \in Turn \cup {NoTurn}, NEW c \in CoordinatorState,
         BeginCapture(k, t, c)
  PROVE  TurnTypes' /\ capture' \in Turn \cup {NoTurn} /\ completed' \in BOOLEAN
         /\ at' \in [Conn -> Place]
<1>1. [c EXCEPT !.slot = t, !.phase[t] = "capturing"] \in CoordinatorState
  BY DEF CoordinatorState, Phase
<1> QED BY <1>1, PutType, GoType DEF BeginCapture, Place

LEMMA OwnTurnType ==
  ASSUME TypeOK, NEW k \in Conn, NEW c \in CoordinatorState, CancelOwnTurn(k, c)
  PROVE  /\ TurnTypes' /\ at' \in [Conn -> Place]
         /\ registered' \in Conn \cup {NoConn} /\ pending' \subseteq Conn
<1>1. CASE registered = k /\ Running(c)
  BY <1>1, CancelType DEF CancelOwnTurn, Place, TypeOK
<1>2. CASE ~(registered = k /\ Running(c))
  BY <1>2, GoType, PutType, ReleasedType DEF CancelOwnTurn, Unregister, Place, TypeOK
<1> QED BY <1>1, <1>2

LEMMA HandlerTypes ==
  ASSUME TypeOK, PreviousKnown, NEW k \in Conn, HandlerStep(k) \/ WakeUp(k)
  PROVE  TypeOK'
<1> USE CurrentType
<1>1. CASE CloseReturns(k)
  <2>1. previous[k] \in Conn BY <1>1 DEF CloseReturns, PreviousKnown
  <2>2. RestTypes' BY <1>1, <2>1 DEF CloseReturns, TypeOK, RestTypes
  <2>3. CASE Running(Current)
    <3>1. CancelThen(k, Current, "cancelling", "cancelling") /\ UNCHANGED streamVars
      BY <1>1, <2>3 DEF CloseReturns
    <3>2. TurnTypes' /\ at' \in [Conn -> Place] BY <3>1, CancelType DEF Place
    <3>3. StreamTypes' BY <3>1 DEF streamVars, StreamTypes, TypeOK
    <3> QED BY <2>2, <3>2, <3>3, TypeParts DEF AllTypes
  <2>4. CASE ~Running(Current)
    <3>1. DropPreviousInput(k, Without(Current)) BY <1>1, <2>4 DEF CloseReturns
    <3>2. Without(Current) \in CoordinatorState BY ReleasedType
    <3> QED BY <2>2, <3>1, <3>2, DropType, TypeParts DEF AllTypes
  <2> QED BY <2>3, <2>4
<1>2. CASE Acknowledged(k)
  BY <1>2 DEF Acknowledged, Go, TypeOK, Place, streamVars, turnVars
<1>3. CASE Leave(k)
  <2>1. StreamTypes'
    <3>1. completed' \in BOOLEAN BY <1>3, Zenon DEF Leave
    <3> QED BY <1>3, <3>1 DEF Leave, TypeOK, StreamTypes
  <2>2. TurnTypes' /\ at' \in [Conn -> Place]
        /\ registered' \in Conn \cup {NoConn} /\ pending' \subseteq Conn
    <3> DEFINE owned == input[k] # NoTurn /\ capture = input[k]
    <3>1. CASE owned /\ Running(Current)
      BY <1>3, <3>1, CancelType DEF Leave, Place, TypeOK
    <3>2. CASE ~(owned /\ Running(Current))
      <4>1. CancelOwnTurn(k, IF owned THEN Without(Current) ELSE Current)
        BY <1>3, <3>2 DEF Leave
      <4> QED BY <4>1, OwnTurnType, ReleasedType
    <3> QED BY <3>1, <3>2
  <2>3. RestTypes' BY <1>3, <2>2 DEF Leave, TypeOK, RestTypes
  <2> QED BY <2>1, <2>2, <2>3, TypeParts DEF AllTypes
<1>4. CASE OldTurnCancelled(k)
  <2>1. PICK t \in Turn : Wakes(k, t, "cancelling") /\ DropPreviousInput(k, Woken(t))
    BY <1>4 DEF OldTurnCancelled
  <2>2. Woken(t) \in CoordinatorState BY <2>1, WokenType DEF Wakes
  <2>3. TurnTypes' /\ StreamTypes' /\ at' \in [Conn -> Place] BY <2>1, <2>2, DropType
  <2>4. RestTypes' BY <1>4 DEF OldTurnCancelled, registryVars, RestTypes, TypeOK
  <2> QED BY <2>3, <2>4, TypeParts DEF AllTypes
<1>5. CASE StartResumes(k)
  <2>1. PICK t \in Turn :
          /\ Wakes(k, t, "starting")
          /\ IF Woken(t).slot = NoTurn
               THEN BeginCapture(k, message[k], Woken(t))
               ELSE Go(k, "leaving") /\ Put(Woken(t)) /\ UNCHANGED <<capture, completed>>
    BY <1>5 DEF StartResumes
  <2>2. Woken(t) \in CoordinatorState BY <2>1, WokenType DEF Wakes
  <2>3. message[k] \in Turn \cup {NoTurn} BY DEF TypeOK
  <2>4. /\ TurnTypes' /\ capture' \in Turn \cup {NoTurn} /\ completed' \in BOOLEAN
        /\ at' \in [Conn -> Place]
    BY <2>1, <2>2, <2>3, BeginCaptureType, PutType, GoType DEF Place, TypeOK
  <2>5. RestTypes' /\ input' = input BY <1>5 DEF StartResumes, registryVars, RestTypes, TypeOK
  <2>6. StreamTypes' BY <2>4, <2>5 DEF StreamTypes, TypeOK
  <2> QED BY <2>4, <2>5, <2>6, TypeParts DEF AllTypes
<1>6. CASE CancelResumes(k)
  <2>1. PICK t \in Turn, place \in {"ending", "framing", "barging"} :
          /\ Wakes(k, t, place) /\ Go(k, "ready") /\ Put(Woken(t))
          /\ IF place = "framing" THEN RemoveCapture(k) ELSE UNCHANGED streamVars
    BY <1>6 DEF CancelResumes
  <2>2. TurnTypes' /\ at' \in [Conn -> Place]
    BY <2>1, WokenType, PutType, GoType DEF Wakes, Place
  <2>3. StreamTypes'
    <3>1. CASE place = "framing" BY <2>1, <3>1 DEF RemoveCapture, StreamTypes, TypeOK
    <3>2. CASE place # "framing" BY <2>1, <3>2 DEF streamVars, StreamTypes, TypeOK
    <3> QED BY <3>1, <3>2
  <2>4. RestTypes' BY <1>6 DEF CancelResumes, registryVars, RestTypes, TypeOK
  <2> QED BY <2>2, <2>3, <2>4, TypeParts DEF AllTypes
<1>7. CASE StreamDiscarded(k)
  <2>1. PICK t \in Turn : Wakes(k, t, "discarding") /\ CancelOwnTurn(k, Woken(t))
    BY <1>7 DEF StreamDiscarded
  <2>2. Woken(t) \in CoordinatorState BY <2>1, WokenType DEF Wakes
  <2>3. /\ TurnTypes' /\ at' \in [Conn -> Place]
        /\ registered' \in Conn \cup {NoConn} /\ pending' \subseteq Conn
    BY <2>1, <2>2, OwnTurnType
  <2>4. RestTypes' BY <1>7, <2>3 DEF StreamDiscarded, RestTypes, TypeOK
  <2>5. StreamTypes' BY <1>7 DEF StreamDiscarded, streamVars, StreamTypes, TypeOK
  <2> QED BY <2>3, <2>4, <2>5, TypeParts DEF AllTypes
<1>8. CASE OwnTurnCancelled(k)
  <2>1. PICK t \in Turn : Wakes(k, t, "quitting") /\ Go(k, "gone") /\ Put(Woken(t))
    BY <1>8 DEF OwnTurnCancelled
  <2>2. Woken(t) \in CoordinatorState BY <2>1, WokenType DEF Wakes
  <2>3. TurnTypes' /\ at' \in [Conn -> Place] BY <2>1, <2>2, PutType, GoType DEF Place
  <2>4. RestTypes' BY <1>8 DEF OwnTurnCancelled, Unregister, RestTypes, TypeOK
  <2>5. StreamTypes' BY <1>8 DEF OwnTurnCancelled, streamVars, StreamTypes, TypeOK
  <2> QED BY <2>3, <2>4, <2>5, TypeParts DEF AllTypes
<1>9. CASE OldStreamDropped(k)
  <2>1. PICK t \in Turn : Wakes(k, t, "dropping") /\ Go(k, "acking") /\ Put(Woken(t))
    BY <1>9 DEF OldStreamDropped
  <2>2. Woken(t) \in CoordinatorState BY <2>1, WokenType DEF Wakes
  <2>3. TurnTypes' /\ at' \in [Conn -> Place] BY <2>1, <2>2, PutType, GoType DEF Place
  <2>4. RestTypes' /\ StreamTypes'
    BY <1>9 DEF OldStreamDropped, registryVars, streamVars, RestTypes, StreamTypes, TypeOK
  <2> QED BY <2>3, <2>4, TypeParts DEF AllTypes
<1> QED BY <1>1, <1>2, <1>3, <1>4, <1>5, <1>6, <1>7, <1>8, <1>9 DEF HandlerStep, WakeUp

LEMMA DeviceTypes ==
  ASSUME TypeOK, NEW k \in Conn, DeviceStep(k)
  PROVE  TypeOK'
<1> USE CurrentType
<1>1. CASE Register(k)
  BY <1>1 DEF Register, Go, TypeOK, Place, streamVars, turnVars
<1>2. CASE Disconnected(k)
  BY <1>2 DEF Disconnected, Go, TypeOK, Place, registryVars, streamVars, turnVars
<1>3. ASSUME NEW t \in Turn, StartStream(k, t) PROVE TypeOK'
  <2>1. RestTypes' BY <1>3 DEF StartStream, registryVars, RestTypes, TypeOK
  <2>2. input' \in [Conn -> Turn \cup {NoTurn}] BY <1>3 DEF StartStream, TypeOK
  <2>3. CASE capture # NoTurn
    <3>1. Go(k, "leaving") /\ Put(Current) /\ UNCHANGED <<capture, completed>>
      BY <1>3, <2>3 DEF StartStream
    <3>2. TurnTypes' /\ at' \in [Conn -> Place] BY <3>1, PutType, GoType DEF Place
    <3>3. StreamTypes' BY <2>2, <3>1 DEF StreamTypes, TypeOK
    <3> QED BY <2>1, <3>2, <3>3, TypeParts DEF AllTypes
  <2>4. CASE capture = NoTurn /\ Running(Current)
    <3>1. CancelThen(k, Current, "starting", "starting") /\ UNCHANGED <<capture, completed>>
      BY <1>3, <2>4 DEF StartStream
    <3>2. TurnTypes' /\ at' \in [Conn -> Place] BY <3>1, CancelType DEF Place
    <3>3. StreamTypes' BY <2>2, <3>1 DEF StreamTypes, TypeOK
    <3> QED BY <2>1, <3>2, <3>3, TypeParts DEF AllTypes
  <2>5. CASE capture = NoTurn /\ ~Running(Current)
    <3>1. BeginCapture(k, t, Without(Current)) BY <1>3, <2>5 DEF StartStream
    <3>2. Without(Current) \in CoordinatorState BY ReleasedType
    <3>3. /\ TurnTypes' /\ capture' \in Turn \cup {NoTurn} /\ completed' \in BOOLEAN
          /\ at' \in [Conn -> Place]
      BY <3>1, <3>2, BeginCaptureType
    <3> QED BY <2>1, <2>2, <3>3, TypeParts DEF AllTypes, StreamTypes
  <2> QED BY <2>3, <2>4, <2>5
<1>4. ASSUME NEW s \in Turn, FailTurn(k, s) \/ SubmitTurn(k, s)
      PROVE  /\ TurnTypes' /\ at' \in [Conn -> Place]
             /\ live' \in [Turn -> {"none", "queued", "running", "done"}]
  <2>1. CASE FailTurn(k, s)
    <3>1. Go(k, "ready") \/ Go(k, "leaving") BY <2>1 DEF FailTurn
    <3> QED BY <2>1, <3>1, PutType, GoType, ReleasedType DEF FailTurn, TypeOK, Place
  <2>2. CASE SubmitTurn(k, s) BY <2>2, PutType, GoType DEF SubmitTurn, TypeOK, Place
  <2> QED BY <1>4, <2>1, <2>2
<1>5. CASE EndStream(k)
  <2>1. StreamTypes' BY <1>5 DEF EndStream, StreamTypes, TypeOK
  <2>2. input[k] \in Turn BY <1>5 DEF EndStream, TypeOK
  <2>3. /\ TurnTypes' /\ at' \in [Conn -> Place]
        /\ live' \in [Turn -> {"none", "queued", "running", "done"}]
    <3>1. \/ Go(k, "leaving") /\ Put(Current) /\ UNCHANGED live
          \/ CancelThen(k, Current, "ending", "ready") /\ UNCHANGED live
          \/ Go(k, "ready") /\ Put(Current) /\ UNCHANGED live
          \/ FailTurn(k, input[k]) \/ SubmitTurn(k, input[k])
      BY <1>5 DEF EndStream
    <3> QED BY <1>4, <2>2, <3>1, PutType, GoType, CancelType DEF Place, TypeOK
  <2>4. RestTypes' BY <1>5, <2>3 DEF EndStream, registryVars, RestTypes, TypeOK
  <2> QED BY <2>1, <2>3, <2>4, TypeParts DEF AllTypes
<1>6. CASE Utterance(k)
  <2>1. StreamTypes' BY <1>6 DEF Utterance, StreamTypes, TypeOK
  <2>2. capture \in Turn BY <1>6 DEF Utterance, TypeOK
  <2>3. /\ TurnTypes' /\ at' \in [Conn -> Place]
        /\ live' \in [Turn -> {"none", "queued", "running", "done"}]
    BY <1>4, <1>6, <2>2 DEF Utterance
  <2>4. RestTypes' BY <1>6, <2>3 DEF Utterance, registryVars, RestTypes, TypeOK
  <2> QED BY <2>1, <2>3, <2>4, TypeParts DEF AllTypes
<1>7. CASE BadFrame(k)
  <2>1. StreamTypes'
    <3>1. CASE Running(Current) BY <1>7, <3>1 DEF BadFrame, streamVars, StreamTypes, TypeOK
    <3>2. CASE ~Running(Current) BY <1>7, <3>2 DEF BadFrame, RemoveCapture, StreamTypes, TypeOK
    <3> QED BY <3>1, <3>2
  <2>2. TurnTypes' /\ at' \in [Conn -> Place] BY <1>7, CancelType DEF BadFrame, Place
  <2>3. RestTypes' BY <1>7 DEF BadFrame, registryVars, RestTypes, TypeOK
  <2> QED BY <2>1, <2>2, <2>3, TypeParts DEF AllTypes
<1>8. CASE StrayFrame(k)
  BY <1>8 DEF StrayFrame, Go, TypeOK, Place, registryVars, streamVars, turnVars
<1>9. CASE Barge(k)
  <2>1. TurnTypes' /\ at' \in [Conn -> Place] BY <1>9, CancelType DEF Barge, Place
  <2>2. RestTypes' /\ StreamTypes'
    BY <1>9 DEF Barge, registryVars, streamVars, RestTypes, StreamTypes, TypeOK
  <2> QED BY <2>1, <2>2, TypeParts DEF AllTypes
<1> QED BY <1>1, <1>2, <1>3, <1>5, <1>6, <1>7, <1>8, <1>9 DEF DeviceStep

LEMMA OtherTypes ==
  ASSUME TypeOK,
         \/ \E t \in Turn : TaskStarts(t) \/ TaskEnds(t)
         \/ Deadline \/ ApiStep \/ CancelSpeechReturns
  PROVE  TypeOK'
<1> USE CurrentType
<1>1. ASSUME NEW t \in Turn, TaskStarts(t) PROVE TypeOK'
  <2>1. slot' = slot /\ at' = at /\ waiting' = waiting /\ message' = message
    BY <1>1 DEF TaskStarts, handlerVars
  <2>2. StreamTypes' BY <1>1 DEF TaskStarts, streamVars, StreamTypes, TypeOK
  <2>3. RestTypes' BY <1>1, <2>1 DEF TaskStarts, registryVars, RestTypes, TypeOK
  <2>4. phase' \in [Turn -> Phase] BY <1>1 DEF TaskStarts, TypeOK, Phase
  <2> QED BY <2>1, <2>2, <2>3, <2>4, TypeParts DEF AllTypes, TurnTypes, TypeOK
<1>2. ASSUME NEW t \in Turn, TaskEnds(t) PROVE TypeOK'
  <2>1. Put(Current) \/ Put(Released(Current, t)) BY <1>2 DEF TaskEnds
  <2>2. TurnTypes' BY <2>1, PutType, ReleasedType
  <2>3. RestTypes' /\ StreamTypes' /\ at' \in [Conn -> Place]
    BY <1>2 DEF TaskEnds, registryVars, streamVars, RestTypes, StreamTypes, TypeOK
  <2> QED BY <2>2, <2>3, TypeParts DEF AllTypes
<1>3. CASE Deadline
  <2>1. Put(Current) \/ Put(Released(Current, capture)) BY <1>3 DEF Deadline
  <2>2. TurnTypes' BY <2>1, PutType, ReleasedType
  <2>3. input' \in [Conn -> Turn \cup {NoTurn}] BY <1>3 DEF Deadline, TypeOK
  <2>4. RestTypes' /\ StreamTypes' /\ at' \in [Conn -> Place]
    BY <1>3, <2>3 DEF Deadline, registryVars, RestTypes, StreamTypes, TypeOK
  <2> QED BY <2>2, <2>4, TypeParts DEF AllTypes
<1>4. ASSUME NEW t \in Turn, BeginSpeech(t) \/ BeginVision(t) PROVE TypeOK'
  <2>1. PICK k \in Conn \cup {NoConn}, p \in {"working", "capturing"} : BeginDirect(t, k, p)
    BY <1>4 DEF BeginSpeech, BeginVision, TypeOK
  <2>2. TurnTypes' /\ at' \in [Conn -> Place]
    BY <2>1 DEF BeginDirect, handlerVars, TurnTypes, TypeOK, Phase
  <2>3. RestTypes' /\ StreamTypes'
    BY <2>1 DEF BeginDirect, registryVars, streamVars, handlerVars, RestTypes, StreamTypes, TypeOK
  <2> QED BY <2>2, <2>3, TypeParts DEF AllTypes
<1>5. ASSUME NEW t \in Turn, PhotoTaken(t) PROVE TypeOK'
  BY <1>5 DEF PhotoTaken, registryVars, streamVars, handlerVars, TypeOK, Phase
<1>6. CASE CancelSpeech
  BY <1>6 DEF CancelSpeech, registryVars, streamVars, handlerVars, TypeOK, Phase
<1>7. CASE CancelSpeechReturns
  <2>1. TurnTypes' BY <1>7, PutType, ReleasedType DEF CancelSpeechReturns
  <2>2. RestTypes' /\ StreamTypes' /\ at' \in [Conn -> Place]
    BY <1>7 DEF CancelSpeechReturns, registryVars, streamVars, RestTypes, StreamTypes, TypeOK
  <2> QED BY <2>1, <2>2, TypeParts DEF AllTypes
<1> QED BY <1>1, <1>2, <1>3, <1>4, <1>5, <1>6, <1>7 DEF ApiStep

(***************************************************************************)
(* Lines.                                                                  *)
(***************************************************************************)
LEMMA LineJoined ==
  ASSUME NEW w \in Seq(Conn), NEW k \in Conn
  PROVE  /\ Append(w, k) # <<>>
         /\ \A x \in Conn : InLine(Append(w, k), x) => InLine(w, x) \/ x = k
<1>1. /\ Append(w, k) # <<>>
      /\ Len(Append(w, k)) = Len(w) + 1 /\ Append(w, k)[Len(w) + 1] = k
      /\ \A i \in 1..Len(w) : Append(w, k)[i] = w[i]
  BY AppendProperties
<1>2. Len(w) \in Nat BY LenProperties
<1> QED BY <1>1, <1>2 DEF InLine

LEMMA LineLeft ==
  ASSUME NEW w \in Seq(Conn), w # <<>>
  PROVE  /\ InLine(w, Head(w))
         /\ \A x \in Conn : InLine(Tail(w), x) => InLine(w, x)
<1>1. /\ Head(w) = w[1]
      /\ Len(Tail(w)) = Len(w) - 1
      /\ \A i \in 1..Len(Tail(w)) : Tail(w)[i] = w[i + 1]
  BY HeadTailProperties
<1>2. Len(w) \in Nat \ {0} BY EmptySeq, LenProperties
<1>3. \A i \in 1..Len(Tail(w)) : i + 1 \in 1..Len(w) BY <1>1, <1>2
<1> QED BY <1>1, <1>2, <1>3 DEF InLine

LEMMA NobodyInLine == \A x : ~InLine(<<>>, x)
BY DEF InLine

(***************************************************************************)
(* What the coordinator's operators make of a state of the coordinator.    *)
(***************************************************************************)
\* c is what the steps of the handlers ks, which cancel and do not begin, may leave.
Follows(c, ks) ==
  /\ c \in CoordinatorState
  /\ Sound(c)
  /\ c.slot \in {slot, NoTurn}
  /\ \A t \in Turn : c.phase[t] = "new" <=> phase[t] = "new"
  /\ \A t \in Turn, x \in Conn : InLine(c.waiting[t], x) => InLine(waiting[t], x) \/ x \in ks
  /\ c.slot # NoTurn =>
       \/ c.phase[slot] = phase[slot] /\ c.waiting[slot] = waiting[slot]
       \/ c.phase[slot] = "closing" /\ c.waiting[slot] # <<>>

LEMMA CurrentFollows ==
  ASSUME TypeOK, Agreed
  PROVE  Follows(Current, {})
BY CurrentType DEF Agreed, TurnsAgree, Follows, Current

LEMMA WithoutFollows ==
  ASSUME NEW ks, NEW c, Follows(c, ks), c.slot # NoTurn => live[c.slot] # "running"
  PROVE  Follows(Without(c), ks) /\ Without(c).slot = NoTurn
<1>1. CASE c.slot = NoTurn BY <1>1 DEF Without
<1>2. CASE c.slot # NoTurn
  <2>1. c \in CoordinatorState /\ c.slot \in Turn BY <1>2 DEF Follows, CoordinatorState
  <2> DEFINE d == Without(c)
  <2>2. d \in CoordinatorState BY <2>1, ReleasedType
  <2>3. /\ d.slot = NoTurn /\ d.waiting = c.waiting
        /\ \A t \in Turn : d.phase[t] = IF t = c.slot THEN "over" ELSE c.phase[t]
    BY <1>2, <2>1 DEF Without, CoordinatorState
  <2>4. Sound(d)
    <3>1. ASSUME NEW t \in Turn, live[t] = "running" PROVE FALSE
      BY <1>2, <3>1, TurnAssumption DEF Follows, Sound
    <3> HIDE DEF d
    <3> QED BY <1>2, <2>1, <2>3, <3>1 DEF Follows, Sound
  <2>5. \A t \in Turn : d.phase[t] = "new" <=> c.phase[t] = "new"
    BY <1>2, <2>1, <2>3 DEF Follows, Sound
  <2> HIDE DEF d
  <2>6. Follows(d, ks) BY <2>2, <2>3, <2>4, <2>5 DEF Follows
  <2> QED BY <2>3, <2>6 DEF d
<1> QED BY <1>1, <1>2

LEMMA ReleasedFollows ==
  ASSUME NEW ks, NEW c, Follows(c, ks), NEW t \in Turn, live[t] # "running"
  PROVE  Follows(Released(c, t), ks) /\ Released(c, t).slot # t
<1>1. CASE c.slot = t BY <1>1, WithoutFollows, TurnAssumption DEF Released
<1>2. CASE c.slot # t BY <1>2 DEF Released
<1> QED BY <1>1, <1>2

LEMMA WokenFollows ==
  ASSUME TypeOK, Agreed, NEW t \in Turn, live[t] = "done", waiting[t] # <<>>
  PROVE  Follows(Woken(t), {}) /\ Woken(t).slot # t
<1> DEFINE c == [Current EXCEPT !.waiting[t] = Tail(@)]
<1>1. CASE slot = t
  <2>1. c \in CoordinatorState
    <3>1. Tail(waiting[t]) \in Seq(Conn) BY HeadTailProperties DEF TypeOK
    <3> QED BY <3>1, CurrentType DEF Current, CoordinatorState
  <2>2. /\ c.slot = t /\ c.phase = phase
        /\ c.waiting = [waiting EXCEPT ![t] = Tail(waiting[t])]
    BY <1>1 DEF Current
  <2> DEFINE d == Woken(t)
  <2>3. d = Without(c) BY <2>2 DEF Woken, Released
  <2> HIDE DEF c
  <2>4. /\ d \in CoordinatorState /\ d.slot = NoTurn /\ d.waiting = c.waiting
        /\ \A u \in Turn : d.phase[u] = IF u = t THEN "over" ELSE phase[u]
    <3>1. d \in CoordinatorState BY <2>1, <2>3, ReleasedType
    <3>2. Without(c) = [c EXCEPT !.slot = NoTurn, !.phase[t] = "over"]
      BY <2>2, TurnAssumption DEF Without
    <3> HIDE DEF d
    <3> QED BY <2>1, <2>2, <2>3, <3>1, <3>2 DEF CoordinatorState
  <2>5. \A u \in Turn, x \in Conn : InLine(d.waiting[u], x) => InLine(waiting[u], x)
    BY <2>2, <2>4, LineLeft DEF TypeOK
  <2>6. phase[t] # "new" BY DEF Agreed, TurnsAgree
  <2> HIDE DEF d
  <2>7. Sound(d)
    BY <1>1, <2>2, <2>4, <2>6, TurnAssumption DEF Agreed, TurnsAgree, Sound, Current, TypeOK
  <2>8. Follows(d, {}) BY <2>4, <2>5, <2>6, <2>7 DEF Follows
  <2> QED BY <2>4, <2>8, TurnAssumption DEF d
<1>2. CASE slot # t
  <2>1. c \in CoordinatorState
    <3>1. Tail(waiting[t]) \in Seq(Conn) BY HeadTailProperties DEF TypeOK
    <3> QED BY <3>1, CurrentType DEF Current, CoordinatorState
  <2>2. /\ c.slot = slot /\ c.phase = phase
        /\ c.waiting = [waiting EXCEPT ![t] = Tail(waiting[t])]
    BY DEF Current
  <2>3. Woken(t) = c BY <1>2, <2>2 DEF Woken, Released
  <2> HIDE DEF c
  <2>4. \A u \in Turn, x \in Conn : InLine(c.waiting[u], x) => InLine(waiting[u], x)
    BY <2>2, LineLeft DEF TypeOK
  <2>5. phase[t] # "new" BY DEF Agreed, TurnsAgree
  <2>6. Sound(c) BY <2>2, <2>5 DEF Agreed, TurnsAgree, Sound, Current, TypeOK
  <2>7. slot # NoTurn => c.waiting[slot] = waiting[slot] BY <1>2, <2>2 DEF TypeOK
  <2> QED BY <1>2, <2>1, <2>2, <2>3, <2>4, <2>6, <2>7 DEF Follows
<1> QED BY <1>1, <1>2

LEMMA CancelFollows ==
  ASSUME NEW k \in Conn, NEW c, Follows(c, {}), NEW p, NEW q, CancelThen(k, c, p, q)
  PROVE  \E d :
           /\ Put(d) /\ Follows(d, {k})
           /\ d.slot # NoTurn => live[d.slot] = "running"
           /\ Go(k, IF Running(c) THEN p ELSE q)
<1>1. CASE Running(c)
  <2>1. c \in CoordinatorState /\ c.slot \in Turn /\ live[c.slot] = "running" /\ c.slot = slot
    BY <1>1 DEF Running, Follows, CoordinatorState
  <2> DEFINE d == [c EXCEPT !.phase[c.slot] = "closing", !.waiting[c.slot] = Append(@, k)]
  <2>2. Put(d) /\ Go(k, p) BY <1>1 DEF CancelThen
  <2>3. /\ c.waiting[slot] \in Seq(Conn)
        /\ Append(c.waiting[slot], k) \in Seq(Conn) /\ Append(c.waiting[slot], k) # <<>>
        /\ \A x \in Conn : InLine(Append(c.waiting[slot], k), x) => InLine(c.waiting[slot], x) \/ x = k
    BY <2>1, LineJoined, AppendProperties DEF CoordinatorState
  <2>4. /\ d \in CoordinatorState /\ d.slot = slot
        /\ d.waiting = [c.waiting EXCEPT ![slot] = Append(c.waiting[slot], k)]
        /\ d.phase = [c.phase EXCEPT ![slot] = "closing"]
    BY <2>1, <2>3 DEF CoordinatorState, Phase
  <2>5. /\ d.phase[slot] = "closing" /\ d.waiting[slot] = Append(c.waiting[slot], k)
        /\ \A t \in Turn : t # slot => d.phase[t] = c.phase[t] /\ d.waiting[t] = c.waiting[t]
    BY <2>1, <2>4 DEF CoordinatorState
  <2> HIDE DEF d
  <2>6. Sound(d) BY <2>1, <2>4, <2>5 DEF Follows, Sound
  <2>7. \A t \in Turn : d.phase[t] = "new" <=> phase[t] = "new"
    BY <2>1, <2>5, TurnAssumption DEF Follows, Sound
  <2>8. \A t \in Turn, x \in Conn : InLine(d.waiting[t], x) => InLine(waiting[t], x) \/ x \in {k}
    BY <2>3, <2>5 DEF Follows
  <2>9. Follows(d, {k}) BY <2>3, <2>4, <2>5, <2>6, <2>7, <2>8 DEF Follows
  <2> QED BY <1>1, <2>1, <2>2, <2>4, <2>9
<1>2. CASE ~Running(c)
  <2>1. c.slot # NoTurn => live[c.slot] # "running" BY <1>2 DEF Running
  <2>2. Follows(Without(c), {}) /\ Without(c).slot = NoTurn BY <2>1, WithoutFollows
  <2>3. Follows(Without(c), {k}) BY <2>2 DEF Follows
  <2>4. Put(Without(c)) /\ Go(k, q) BY <1>2 DEF CancelThen
  <2> QED BY <1>2, <2>2, <2>3, <2>4
<1> QED BY <1>1, <1>2
(***************************************************************************)
(* A calm step begins no turn and opens no stream.                         *)
(***************************************************************************)
\* j stays where it is, or comes to a place of which the invariant asks little.
Places(j) ==
  \/ at'[j] = at[j] /\ previous'[j] = previous[j]
  \/ at'[j] \notin {"starting", "framing", "replacing", "cancelling"}
  \/ at'[j] = "replacing" /\ previous'[j] \in Conn
  \/ at'[j] = "cancelling" /\ previous'[j] \in shut'
  \/ at'[j] = "framing" /\ input[j] # NoTurn /\ phase[input[j]] # "new" /\ slot # input[j]

\* j keeps its stream, or loses it without leaving it open.
Inputs(j) ==
  \/ input'[j] = input[j]
  \/ /\ input'[j] = NoTurn
     /\ at'[j] = "starting" => j \in shut'
     /\ capture' = NoTurn \/ input[j] # capture

\* The two exceptions of the properties.
Removed == \E k \in Conn : RemovesAnothersStream(k)
Opened == \E k \in Conn : OpensLate(k)

\* The stream stays, goes, or has its utterance; the device does not wait for it any more.
Stream(c) ==
  /\ capture' \in {capture, NoTurn}
  /\ completed' = completed \/ completed' = TRUE \/ capture' = NoTurn
  /\ \/ capture' = capture /\ completed' = completed
     \/ Kept /\ c.slot # NoTurn => live'[c.slot] # "none" \/ c.phase[c.slot] = "closing"
     \/ Removed

\* The task of t does what it did, is submitted, or ends.
Task(c, t) ==
  \/ live'[t] = live[t]
  \/ /\ phase[t] # "new"
     /\ live[t] = "none" => capture' # t \/ completed' = TRUE
     /\ live'[t] = "queued" \/ (live'[t] = "done" /\ (c.slot = t => c.phase[t] = "closing"))

Calm(c, ks) ==
  /\ Put(c) /\ Follows(c, ks)
  /\ shut \subseteq shut' /\ message' = message /\ origin' = origin
  /\ api' = api \/ c.slot # api
  /\ \A j \in Conn : Places(j) /\ Inputs(j)
  /\ \A j \in Conn : j \in ks => at'[j] # "starting"
  /\ Stream(c)
  /\ \A t \in Turn : Task(c, t)

\* What every step keeps.
Outcome == Agreed' /\ (Kept => Kept' \/ Removed) /\ (HasHandler => HasHandler' \/ Opened)

LEMMA CalmTurns ==
  ASSUME TypeOK, Agreed, TypeOK', NEW ks, NEW c, Calm(c, ks)
  PROVE  TurnsAgree' /\ \A t \in Turn : phase'[t] = "new" <=> phase[t] = "new"
<1>1. slot' = c.slot /\ phase' = c.phase /\ waiting' = c.waiting BY DEF Calm, Put
<1>2. ASSUME NEW t \in Turn PROVE live'[t] = "running" => live[t] = "running"
  BY DEF Calm, Task
<1>3. Sound(Current)' BY <1>1, <1>2 DEF Calm, Follows, Sound, Current
<1>4. \A t \in Turn : phase'[t] = "new" <=> phase[t] = "new" BY <1>1 DEF Calm, Follows
<1>5. ASSUME NEW t \in Turn, phase'[t] = "new" PROVE live'[t] = "none"
  BY <1>4, <1>5 DEF Calm, Task, Agreed, TurnsAgree
<1> QED BY <1>3, <1>4, <1>5 DEF TurnsAgree

LEMMA CalmHandlers ==
  ASSUME TypeOK, Agreed, TypeOK', NEW ks, NEW c, Calm(c, ks)
  PROVE  StartersKeepTheirs' /\ FramesAgree' /\ StartersWaitForOthers' /\ PreviousKnown'
<1>1. slot' = c.slot /\ phase' = c.phase /\ waiting' = c.waiting BY DEF Calm, Put
<1>2. \A t \in Turn : phase'[t] = "new" <=> phase[t] = "new" BY CalmTurns
<1>3. StartersKeepTheirs'
  <2>1. SUFFICES ASSUME NEW k \in Conn, at'[k] = "starting"
                 PROVE  /\ message'[k] \in Turn /\ origin'[message'[k]] = k
                        /\ phase'[message'[k]] = "new"
                        /\ input'[k] = message'[k] \/ k \in shut'
    BY DEF StartersKeepTheirs
  <2>2. Places(k) /\ Inputs(k) /\ shut \subseteq shut' /\ message' = message /\ origin' = origin
    BY DEF Calm
  <2>3. at[k] = "starting" BY <2>1, <2>2 DEF Places
  <2>4. /\ message[k] \in Turn /\ origin[message[k]] = k /\ phase[message[k]] = "new"
        /\ input[k] = message[k] \/ k \in shut
    BY <2>3 DEF Agreed, StartersKeepTheirs
  <2> QED BY <1>2, <2>1, <2>2, <2>4 DEF Inputs
<1>4. FramesAgree'
  <2>1. SUFFICES ASSUME NEW k \in Conn, at'[k] = "framing", input'[k] # NoTurn
                 PROVE  phase'[input'[k]] # "new" /\ slot' # input'[k]
    BY DEF FramesAgree
  <2>2. Places(k) /\ Inputs(k) BY DEF Calm
  <2>3. input'[k] = input[k] BY <2>1, <2>2 DEF Inputs
  <2>4. phase[input[k]] # "new" /\ slot # input[k]
    BY <2>1, <2>2, <2>3 DEF Places, Agreed, FramesAgree
  <2>5. input[k] \in Turn /\ c.slot \in {slot, NoTurn}
    BY <2>1, <2>3 DEF TypeOK, Calm, Follows
  <2> QED BY <1>1, <1>2, <2>1, <2>3, <2>4, <2>5
<1>5. StartersWaitForOthers'
  <2>1. SUFFICES ASSUME NEW t \in Turn, NEW k \in Conn, at'[k] = "starting", InLine(waiting'[t], k)
                 PROVE  capture' # t
    BY DEF StartersWaitForOthers
  <2>2. at[k] = "starting" BY <2>1 DEF Calm, Places
  <2>3. InLine(waiting[t], k) BY <1>1, <2>1 DEF Calm, Follows
  <2>4. capture # t BY <2>2, <2>3 DEF Agreed, StartersWaitForOthers
  <2> QED BY <2>4, TurnAssumption DEF Calm, Stream
<1>6. PreviousKnown'
  <2>1. shut \subseteq shut' /\ shut' \subseteq Conn BY DEF Calm, TypeOK
  <2>2. \A j \in Conn : Places(j) BY DEF Calm
  <2> QED BY <2>1, <2>2 DEF Places, PreviousKnown, Agreed
<1> QED BY <1>3, <1>4, <1>5, <1>6

LEMMA CalmStep ==
  ASSUME TypeOK, Agreed, TypeOK', NEW ks, NEW c, Calm(c, ks)
  PROVE  Outcome
<1>1. slot' = c.slot /\ phase' = c.phase /\ waiting' = c.waiting BY DEF Calm, Put
<1>2. TurnsAgree' /\ \A t \in Turn : phase'[t] = "new" <=> phase[t] = "new" BY CalmTurns
<1>3. capture' \in {capture, NoTurn} /\ Stream(c) /\ origin' = origin
      /\ \A t \in Turn : Task(c, t)
  BY DEF Calm, Stream
<1>4. StreamsAgree'
  <2>1. SUFFICES ASSUME capture' # NoTurn
                 PROVE  /\ phase'[capture'] # "new" /\ origin'[capture'] \in Conn
                        /\ ~completed' => live'[capture'] = "none"
    BY DEF StreamsAgree
  <2>2. capture' = capture /\ capture \in Turn BY <1>3, <2>1 DEF TypeOK
  <2>3. /\ phase[capture] # "new" /\ origin[capture] \in Conn
        /\ ~completed => live[capture] = "none"
    BY <2>1, <2>2 DEF Agreed, StreamsAgree
  <2>4. ASSUME ~completed' PROVE live'[capture] = "none"
    <3>1. ~completed BY <1>3, <2>1, <2>4 DEF Stream
    <3> QED BY <1>3, <2>2, <2>3, <2>4, <3>1 DEF Task
  <2> QED BY <1>2, <1>3, <2>2, <2>3, <2>4
<1>5. Agreed' BY <1>2, <1>4, CalmHandlers DEF Agreed
<1>6. ASSUME Kept, ~Removed PROVE Kept'
  <2>1. SUFFICES ASSUME c.slot # NoTurn PROVE Kept' BY <1>1 DEF Kept
  <2>2. c.slot = slot /\ slot \in Turn BY <2>1 DEF Calm, Follows, TypeOK
  <2>3. CASE c.phase[slot] = "closing" /\ c.waiting[slot] # <<>>
    BY <1>1, <2>2, <2>3 DEF Kept
  <2>4. CASE c.phase[slot] = phase[slot] /\ c.waiting[slot] = waiting[slot]
    <3>1. CASE phase[slot] = "closing"
      BY <1>1, <1>6, <2>1, <2>2, <2>4, <3>1 DEF Kept, Calm
    <3>2. CASE phase[slot] # "closing"
      <4>1. live'[slot] \in {live[slot], "queued"}
        BY <1>3, <2>2, <2>4, <3>2 DEF Task
      <4>2. live[slot] \in {"queued", "running"} \/ (live[slot] = "none" /\ capture = slot /\ ~completed)
        BY <1>6, <2>1, <2>2, <3>2 DEF Kept
      <4>3. live'[slot] \in {"queued", "running"} \/ (live'[slot] = "none" /\ capture' = slot /\ ~completed')
        BY <1>3, <1>6, <2>1, <2>2, <2>4, <3>2, <4>1, <4>2 DEF Stream
      <4> QED BY <1>1, <2>2, <2>4, <3>2, <4>3 DEF Kept
    <3> QED BY <3>1, <3>2
  <2> QED BY <2>1, <2>2, <2>3, <2>4 DEF Calm, Follows
<1>7. ASSUME HasHandler PROVE HasHandler'
  <2>1. SUFFICES ASSUME capture' # NoTurn PROVE input'[origin'[capture']] = capture'
    BY DEF HasHandler
  <2>2. capture' = capture /\ capture # NoTurn BY <1>3, <2>1
  <2>3. origin[capture] \in Conn /\ input[origin[capture]] = capture
    BY <1>7, <2>2 DEF Agreed, StreamsAgree, HasHandler
  <2>4. Inputs(origin[capture]) BY <2>3 DEF Calm
  <2> QED BY <1>3, <2>1, <2>2, <2>3, <2>4 DEF Inputs
<1> QED BY <1>5, <1>6, <1>7 DEF Outcome
\* The places a calm step may lead to, whatever the invariant says.
Easy == Place \ {"starting", "framing", "replacing", "cancelling"}

LEMMA GoesEasily ==
  ASSUME TypeOK, NEW k \in Conn, NEW q \in Easy, Go(k, q), previous' = previous
  PROVE  (\A j \in Conn : Places(j)) /\ at'[k] # "starting"
BY DEF Go, Places, Easy, TypeOK

LEMMA SameStream ==
  ASSUME NEW c, capture' = capture, completed' = completed, input' = input
  PROVE  Stream(c) /\ \A j \in Conn : Inputs(j)
BY DEF Stream, Inputs

LEMMA SameTasks == ASSUME NEW c, live' = live PROVE \A t \in Turn : Task(c, t)
BY DEF Task

\* A handler goes on, and no cancellation is involved.
LEMMA PlainStep ==
  ASSUME TypeOK, Agreed, TypeOK', NEW k \in Conn,
         Register(k) \/ Acknowledged(k) \/ Disconnected(k) \/ StrayFrame(k)
  PROVE  Outcome
<1>1. Put(Current) /\ Follows(Current, {})
  BY CurrentFollows
  DEF Register, Acknowledged, Disconnected, StrayFrame, turnVars, Put, Current
<1>2. /\ shut' = shut /\ message' = message /\ origin' = origin /\ api' = api /\ live' = live
      /\ capture' = capture /\ completed' = completed /\ input' = input
  BY DEF Register, Acknowledged, Disconnected, StrayFrame, turnVars, registryVars, streamVars
<1>3. \A j \in Conn : Places(j)
  <2>1. CASE Register(k) BY <2>1 DEF Register, Go, Places, TypeOK
  <2>2. CASE Acknowledged(k) \/ Disconnected(k) \/ StrayFrame(k)
    <3>1. previous' = previous /\ (Go(k, "ready") \/ Go(k, "leaving"))
      BY <2>2 DEF Acknowledged, Disconnected, StrayFrame, registryVars
    <3> QED BY <3>1, GoesEasily DEF Easy, Place
  <2> QED BY <2>1, <2>2
<1>4. Calm(Current, {}) BY <1>1, <1>2, <1>3, SameStream, SameTasks DEF Calm
<1> QED BY <1>4, CalmStep

\* disconnect of the stream of an older connection
LEMMA DropStep ==
  ASSUME TypeOK, Agreed, TypeOK', NEW k \in Conn, NEW c, Follows(c, {}), DropPreviousInput(k, c),
         previous[k] \in shut', shut \subseteq shut',
         UNCHANGED <<previous, live, origin, message, api>>
  PROVE  Outcome
<1> DEFINE owned == input[previous[k]] # NoTurn /\ capture = input[previous[k]]
<1>1. input' = [input EXCEPT ![previous[k]] = NoTurn] BY DEF DropPreviousInput
<1>2. capture' = (IF owned THEN NoTurn ELSE capture) /\ completed' = (completed /\ ~owned)
  BY DEF DropPreviousInput
<1>3. \A j \in Conn : Inputs(j)
  BY <1>1, <1>2 DEF Inputs, TypeOK
<1>4. CASE owned
  <2>1. CancelThen(k, c, "dropping", "acking") BY <1>4 DEF DropPreviousInput
  <2>2. PICK d : /\ Put(d) /\ Follows(d, {k})
                 /\ d.slot # NoTurn => live[d.slot] = "running"
                 /\ Go(k, IF Running(c) THEN "dropping" ELSE "acking")
    BY <2>1, CancelFollows
  <2>3. (\A j \in Conn : Places(j)) /\ at'[k] # "starting"
    BY <2>2, GoesEasily DEF Easy, Place
  <2>4. Stream(d)
    <3>1. capture' = NoTurn BY <1>2, <1>4
    <3> QED BY <2>2, <3>1 DEF Stream
  <2>5. Calm(d, {k}) BY <1>3, <2>2, <2>3, <2>4, SameTasks DEF Calm
  <2> QED BY <2>5, CalmStep
<1>5. CASE ~owned
  <2>1. Go(k, "acking") /\ Put(c) BY <1>5 DEF DropPreviousInput
  <2>2. \A j \in Conn : Places(j) BY <2>1, GoesEasily DEF Easy, Place
  <2>3. capture' = capture BY <1>2, <1>5
  <2>4. completed' = completed
    <3>1. completed \in BOOLEAN BY DEF TypeOK
    <3> HIDE DEF owned
    <3> QED BY <1>2, <1>5, <3>1
  <2>5. Stream(c) BY <2>3, <2>4 DEF Stream
  <2>6. Calm(c, {}) BY <1>3, <2>1, <2>2, <2>5, SameTasks DEF Calm
  <2> QED BY <2>6, CalmStep
<1> QED BY <1>4, <1>5

LEMMA CloseStep ==
  ASSUME TypeOK, Agreed, TypeOK', NEW k \in Conn, CloseReturns(k)
  PROVE  Outcome
<1>1. previous[k] \in Conn /\ previous[k] \in shut' /\ shut \subseteq shut'
  BY DEF CloseReturns, Agreed, PreviousKnown
<1>2. UNCHANGED <<previous, live, origin, message, api>> BY DEF CloseReturns
<1>3. Follows(Current, {}) BY CurrentFollows
<1>4. CASE Running(Current)
  <2>1. CancelThen(k, Current, "cancelling", "cancelling") /\ UNCHANGED streamVars
    BY <1>4 DEF CloseReturns
  <2>2. PICK d : /\ Put(d) /\ Follows(d, {k})
                 /\ Go(k, IF Running(Current) THEN "cancelling" ELSE "cancelling")
    BY <1>3, <2>1, CancelFollows
  <2>3. (\A j \in Conn : Places(j)) /\ at'[k] # "starting"
    BY <1>1, <1>2, <2>2 DEF Places, Go, TypeOK
  <2>4. Stream(d) /\ \A j \in Conn : Inputs(j) BY <2>1, SameStream DEF streamVars
  <2>5. Calm(d, {k}) BY <1>1, <1>2, <2>2, <2>3, <2>4, SameTasks DEF Calm
  <2> QED BY <2>5, CalmStep
<1>5. CASE ~Running(Current)
  <2>1. DropPreviousInput(k, Without(Current)) BY <1>5 DEF CloseReturns
  <2>2. Follows(Without(Current), {}) BY <1>3, <1>5, WithoutFollows DEF Running
  <2> QED BY <1>1, <1>2, <2>1, <2>2, DropStep
<1> QED BY <1>4, <1>5

\* A cancellation has ended, and the handler removes no stream of its own.
LEMMA WokenStep ==
  ASSUME TypeOK, Agreed, TypeOK', NEW k \in Conn,
         OldTurnCancelled(k) \/ OldStreamDropped(k) \/ OwnTurnCancelled(k)
  PROVE  Outcome
<1>1. CASE OldTurnCancelled(k)
  <2>1. PICK t \in Turn : Wakes(k, t, "cancelling") /\ DropPreviousInput(k, Woken(t))
    BY <1>1 DEF OldTurnCancelled
  <2>2. Follows(Woken(t), {}) BY <2>1, WokenFollows DEF Wakes
  <2>3. UNCHANGED <<previous, shut, live, origin, message, api>>
    BY <1>1 DEF OldTurnCancelled, registryVars
  <2>4. previous[k] \in shut BY <2>1 DEF Wakes, Agreed, PreviousKnown
  <2> QED BY <2>1, <2>2, <2>3, <2>4, DropStep
<1>2. CASE OldStreamDropped(k) \/ OwnTurnCancelled(k)
  <2>1. PICK t \in Turn, p \in Place :
          Wakes(k, t, p) /\ (Go(k, "acking") \/ Go(k, "gone")) /\ Put(Woken(t))
    BY <1>2 DEF OldStreamDropped, OwnTurnCancelled, Place
  <2>2. Follows(Woken(t), {}) BY <2>1, WokenFollows DEF Wakes
  <2>3. UNCHANGED <<previous, shut, streamVars, live, origin, message, api>>
    BY <1>2 DEF OldStreamDropped, OwnTurnCancelled, registryVars
  <2>4. \A j \in Conn : Places(j) BY <2>1, <2>3, GoesEasily DEF Easy, Place
  <2>5. Calm(Woken(t), {})
    BY <2>1, <2>2, <2>3, <2>4, SameStream, SameTasks DEF Calm, streamVars
  <2> QED BY <2>5, CalmStep
<1> QED BY <1>1, <1>2

\* The handler's own cancellations in the finally block
LEMMA OwnTurnStep ==
  ASSUME TypeOK, Agreed, TypeOK', NEW k \in Conn, NEW c, Follows(c, {}), CancelOwnTurn(k, c),
         UNCHANGED <<previous, shut, live, origin, message, api>>,
         \A j \in Conn : Inputs(j),
         (capture' = capture /\ completed' = completed) \/ (capture' = NoTurn /\ c.slot = NoTurn)
  PROVE  Outcome
<1>1. CASE registered = k /\ Running(c)
  <2>1. CancelThen(k, c, "quitting", "quitting") BY <1>1 DEF CancelOwnTurn
  <2>2. PICK d : /\ Put(d) /\ Follows(d, {k})
                 /\ Go(k, IF Running(c) THEN "quitting" ELSE "quitting")
    BY <2>1, CancelFollows
  <2>3. (\A j \in Conn : Places(j)) /\ at'[k] # "starting"
    BY <2>2, GoesEasily DEF Easy, Place
  <2>4. Stream(d) BY <1>1 DEF Running, Stream
  <2>5. Calm(d, {k}) BY <2>2, <2>3, <2>4, SameTasks DEF Calm
  <2> QED BY <2>5, CalmStep
<1>2. CASE ~(registered = k /\ Running(c))
  <2> DEFINE d == IF registered = k THEN Without(c) ELSE c
  <2>1. Go(k, "gone") /\ Put(d) BY <1>2 DEF CancelOwnTurn
  <2>2. registered = k /\ c.slot # NoTurn => live[c.slot] # "running" BY <1>2 DEF Running
  <2>3. Follows(d, {}) /\ d.slot \in {c.slot, NoTurn} BY <2>2, WithoutFollows
  <2> HIDE DEF d
  <2>4. \A j \in Conn : Places(j) BY <2>1, GoesEasily DEF Easy, Place
  <2>5. Stream(d) BY <2>3 DEF Stream
  <2>6. Calm(d, {}) BY <2>1, <2>3, <2>4, <2>5, SameTasks DEF Calm
  <2> QED BY <2>6, CalmStep
<1> QED BY <1>1, <1>2

LEMMA LeaveSteps ==
  ASSUME TypeOK, Agreed, TypeOK', NEW k \in Conn, Leave(k) \/ StreamDiscarded(k)
  PROVE  Outcome
<1>1. CASE Leave(k)
  <2> DEFINE owned == input[k] # NoTurn /\ capture = input[k]
  <2>1. input' = [input EXCEPT ![k] = NoTurn] BY <1>1 DEF Leave
  <2>2. capture' = (IF owned THEN NoTurn ELSE capture) /\ completed' = (completed /\ ~owned)
    BY <1>1 DEF Leave
  <2>3. at[k] = "leaving" /\ UNCHANGED <<previous, shut, live, origin, message, api>>
    BY <1>1 DEF Leave
  <2>4. at'[k] # "starting"
    <3>1. Go(k, "discarding") \/ Go(k, "quitting") \/ Go(k, "gone")
      BY <1>1 DEF Leave, CancelOwnTurn, CancelThen
    <3> QED BY <3>1 DEF Go, TypeOK
  <2>5. \A j \in Conn : Inputs(j) BY <2>1, <2>2, <2>4 DEF Inputs, TypeOK
  <2>6. Follows(Current, {}) BY CurrentFollows
  <2>7. CASE owned /\ Running(Current)
    <3>1. CancelThen(k, Current, "discarding", "discarding") BY <1>1, <2>7 DEF Leave
    <3>2. PICK d : /\ Put(d) /\ Follows(d, {k})
                   /\ d.slot # NoTurn => live[d.slot] = "running"
                   /\ Go(k, IF Running(Current) THEN "discarding" ELSE "discarding")
      BY <2>6, <3>1, CancelFollows
    <3>3. \A j \in Conn : Places(j) BY <2>3, <3>2, GoesEasily DEF Easy, Place
    <3>4. Stream(d) BY <2>2, <2>3, <2>7, <3>2 DEF Stream
    <3>5. Calm(d, {k}) BY <2>3, <2>4, <2>5, <3>2, <3>3, <3>4, SameTasks DEF Calm
    <3> QED BY <3>5, CalmStep
  <2>8. CASE owned /\ ~Running(Current)
    <3>1. CancelOwnTurn(k, Without(Current)) BY <1>1, <2>8 DEF Leave
    <3>2. Follows(Without(Current), {}) /\ Without(Current).slot = NoTurn
      BY <2>6, <2>8, WithoutFollows DEF Running
    <3>3. capture' = NoTurn BY <2>2, <2>8
    <3> QED BY <2>3, <2>5, <3>1, <3>2, <3>3, OwnTurnStep
  <2>9. CASE ~owned
    <3>1. CancelOwnTurn(k, Current) BY <1>1, <2>9 DEF Leave
    <3>2. capture' = capture BY <2>2, <2>9
    <3>3. completed' = completed
      <4>1. completed \in BOOLEAN BY DEF TypeOK
      <4> HIDE DEF owned
      <4> QED BY <2>2, <2>9, <4>1
    <3> QED BY <2>3, <2>5, <2>6, <3>1, <3>2, <3>3, OwnTurnStep
  <2> QED BY <2>7, <2>8, <2>9
<1>2. CASE StreamDiscarded(k)
  <2>1. PICK t \in Turn : Wakes(k, t, "discarding") /\ CancelOwnTurn(k, Woken(t))
    BY <1>2 DEF StreamDiscarded
  <2>2. Follows(Woken(t), {}) BY <2>1, WokenFollows DEF Wakes
  <2>3. UNCHANGED <<previous, shut, streamVars, live, origin, message, api>>
    BY <1>2 DEF StreamDiscarded
  <2>4. capture' = capture /\ completed' = completed /\ \A j \in Conn : Inputs(j)
    BY <2>3 DEF streamVars, Inputs
  <2> QED BY <2>1, <2>2, <2>3, <2>4, OwnTurnStep
<1> QED BY <1>1, <1>2
\* While a device is kept, who took the slot has a task, a canceller or the open stream.
LEMMA NoStreamNoWait ==
  ASSUME TypeOK, NEW ks, NEW c, Follows(c, ks), Kept, c.slot # NoTurn, live[c.slot] = "none",
         c.phase[c.slot] # "closing"
  PROVE  capture = c.slot /\ slot = c.slot /\ ~completed
<1>1. slot = c.slot /\ phase[slot] = c.phase[slot] BY DEF Follows
<1> QED BY <1>1 DEF Kept

LEMMA ResumedStep ==
  ASSUME TypeOK, Agreed, TypeOK', NEW k \in Conn, CancelResumes(k)
  PROVE  Outcome
<1>1. PICK t \in Turn, p \in {"ending", "framing", "barging"} :
        /\ Wakes(k, t, p) /\ Go(k, "ready") /\ Put(Woken(t))
        /\ IF p = "framing" THEN RemoveCapture(k) ELSE UNCHANGED streamVars
  BY DEF CancelResumes
<1>2. UNCHANGED <<previous, shut, live, origin, message, api>>
  BY DEF CancelResumes, registryVars
<1>3. Follows(Woken(t), {}) BY <1>1, WokenFollows DEF Wakes
<1>4. \A j \in Conn : Places(j) BY <1>1, <1>2, GoesEasily DEF Easy, Place
<1>5. CASE p = "framing"
  <2>1. at[k] = "framing" /\ at'[k] = "ready" BY <1>1, <1>5 DEF Wakes, Go, TypeOK
  <2>2. capture' = NoTurn /\ input' = [input EXCEPT ![k] = NoTurn]
    BY <1>1, <1>5 DEF RemoveCapture
  <2>3. \A j \in Conn : Inputs(j) BY <2>1, <2>2 DEF Inputs, TypeOK
  <2>4. Stream(Woken(t))
    <3>1. CASE capture \in {input[k], NoTurn}
      <4>1. input[k] # NoTurn => slot # input[k] BY <2>1 DEF Agreed, FramesAgree
      <4>2. Kept /\ Woken(t).slot # NoTurn
            => live[Woken(t).slot] # "none" \/ Woken(t).phase[Woken(t).slot] = "closing"
        BY <1>3, <3>1, <4>1, NoStreamNoWait
      <4> QED BY <1>2, <2>2, <4>2 DEF Stream
    <3>2. CASE capture \notin {input[k], NoTurn}
      <4>1. Removed BY <2>1, <3>2 DEF Removed, RemovesAnothersStream
      <4> QED BY <2>2, <4>1 DEF Stream
    <3> QED BY <3>1, <3>2
  <2>5. Calm(Woken(t), {}) BY <1>1, <1>2, <1>3, <1>4, <2>3, <2>4, SameTasks DEF Calm
  <2> QED BY <2>5, CalmStep
<1>6. CASE p # "framing"
  <2>1. Stream(Woken(t)) /\ \A j \in Conn : Inputs(j) BY <1>1, <1>6, SameStream DEF streamVars
  <2>2. Calm(Woken(t), {}) BY <1>1, <1>2, <1>3, <1>4, <2>1, SameTasks DEF Calm
  <2> QED BY <2>2, CalmStep
<1> QED BY <1>5, <1>6
\* The utterance of a stream is refused or submitted.
LEMMA UtteranceStep ==
  ASSUME TypeOK, Agreed, TypeOK', NEW k \in Conn, capture # NoTurn, ~completed,
         FailTurn(k, capture) \/ SubmitTurn(k, capture),
         UNCHANGED <<previous, shut, origin, message, api>>,
         capture' = NoTurn \/ (capture' = capture /\ completed' = TRUE),
         \A j \in Conn : Inputs(j)
  PROVE  Outcome
<1>1. capture \in Turn /\ phase[capture] # "new" /\ live[capture] = "none"
  BY DEF TypeOK, Agreed, StreamsAgree
<1>2. Follows(Current, {}) BY CurrentFollows
<1>3. CASE FailTurn(k, capture)
  <2> DEFINE c == Released(Current, capture)
  <2>1. Put(c) /\ live' = live /\ (Go(k, "ready") \/ Go(k, "leaving")) BY <1>3 DEF FailTurn
  <2>2. Follows(c, {}) /\ c.slot # capture BY <1>1, <1>2, ReleasedFollows
  <2> HIDE DEF c
  <2>3. \A j \in Conn : Places(j) BY <2>1, GoesEasily DEF Easy, Place
  <2>4. Stream(c) BY <2>1, <2>2, NoStreamNoWait DEF Stream
  <2>5. Calm(c, {}) BY <2>1, <2>2, <2>3, <2>4, SameTasks DEF Calm
  <2> QED BY <2>5, CalmStep
<1>4. CASE SubmitTurn(k, capture)
  <2>1. /\ Put(Current) /\ live' = [live EXCEPT ![capture] = "queued"] /\ Go(k, "ready")
    BY <1>4 DEF SubmitTurn
  <2>2. \A j \in Conn : Places(j) BY <2>1, GoesEasily DEF Easy, Place
  <2>3. \A t \in Turn : Task(Current, t) BY <1>1, <2>1, TurnAssumption DEF Task, TypeOK
  <2>4. Stream(Current)
    <3>1. ASSUME Kept, Current.slot # NoTurn, Current.phase[Current.slot] # "closing"
          PROVE  live'[Current.slot] # "none"
      <4>1. Current.slot \in Turn BY <3>1 DEF Current, TypeOK
      <4> QED BY <1>1, <1>2, <2>1, <3>1, <4>1, NoStreamNoWait DEF TypeOK
    <3> QED BY <3>1 DEF Stream
  <2>5. Calm(Current, {}) BY <1>2, <2>1, <2>2, <2>3, <2>4 DEF Calm
  <2> QED BY <2>5, CalmStep
<1> QED BY <1>3, <1>4

LEMMA FrameSteps ==
  ASSUME TypeOK, Agreed, TypeOK', NEW k \in Conn, Utterance(k) \/ BadFrame(k) \/ Barge(k)
  PROVE  Outcome
<1>1. Follows(Current, {}) BY CurrentFollows
<1>2. CASE Utterance(k)
  <2>1. /\ capture # NoTurn /\ ~completed /\ capture' = capture /\ completed' = TRUE
        /\ FailTurn(k, capture) \/ SubmitTurn(k, capture)
        /\ UNCHANGED <<previous, shut, origin, message, api>>
    BY <1>2 DEF Utterance, registryVars
  <2>2. \A j \in Conn : Inputs(j) BY <1>2 DEF Utterance, Inputs
  <2> QED BY <2>1, <2>2, UtteranceStep
<1>3. CASE BadFrame(k)
  <2>1. /\ input[k] # NoTurn /\ capture = input[k] /\ ~completed
        /\ CancelThen(k, Current, "framing", "ready")
        /\ UNCHANGED <<previous, shut, live, origin, message, api>>
    BY <1>3 DEF BadFrame, registryVars
  <2>2. PICK d : /\ Put(d) /\ Follows(d, {k})
                 /\ d.slot # NoTurn => live[d.slot] = "running"
                 /\ Go(k, IF Running(Current) THEN "framing" ELSE "ready")
    BY <1>1, <2>1, CancelFollows
  <2>3. at'[k] # "starting" BY <2>2 DEF Go, TypeOK
  <2>4. CASE Running(Current)
    <3>1. phase[capture] # "new" /\ live[capture] = "none" BY <2>1 DEF Agreed, StreamsAgree
    <3>2. slot # capture BY <2>4, <3>1 DEF Running, Current
    <3>3. \A j \in Conn : Places(j)
      BY <2>1, <2>2, <2>4, <3>1, <3>2 DEF Go, Places, TypeOK
    <3>4. UNCHANGED streamVars BY <1>3, <2>4 DEF BadFrame
    <3>5. Stream(d) /\ \A j \in Conn : Inputs(j) BY <3>4, SameStream DEF streamVars
    <3>6. Calm(d, {k}) BY <2>1, <2>2, <2>3, <3>3, <3>5, SameTasks DEF Calm
    <3> QED BY <3>6, CalmStep
  <2>5. CASE ~Running(Current)
    <3>1. capture' = NoTurn /\ input' = [input EXCEPT ![k] = NoTurn]
      BY <1>3, <2>5 DEF BadFrame, RemoveCapture
    <3>2. \A j \in Conn : Places(j) BY <2>1, <2>2, <2>5, GoesEasily DEF Easy, Place
    <3>3. \A j \in Conn : Inputs(j) BY <2>3, <3>1 DEF Inputs, TypeOK
    <3>4. Stream(d) BY <2>1, <2>2, <3>1 DEF Stream
    <3>5. Calm(d, {k}) BY <2>1, <2>2, <2>3, <3>2, <3>3, <3>4, SameTasks DEF Calm
    <3> QED BY <3>5, CalmStep
  <2> QED BY <2>4, <2>5
<1>4. CASE Barge(k)
  <2>1. /\ CancelThen(k, Current, "barging", "ready")
        /\ UNCHANGED <<previous, shut, streamVars, live, origin, message, api>>
    BY <1>4 DEF Barge, registryVars
  <2>2. PICK d : /\ Put(d) /\ Follows(d, {k})
                 /\ Go(k, IF Running(Current) THEN "barging" ELSE "ready")
    BY <1>1, <2>1, CancelFollows
  <2>3. (\A j \in Conn : Places(j)) /\ at'[k] # "starting"
    BY <2>1, <2>2, GoesEasily DEF Easy, Place
  <2>4. Stream(d) /\ \A j \in Conn : Inputs(j) BY <2>1, SameStream DEF streamVars
  <2>5. Calm(d, {k}) BY <2>1, <2>2, <2>3, <2>4, SameTasks DEF Calm
  <2> QED BY <2>5, CalmStep
<1> QED BY <1>2, <1>3, <1>4

LEMMA EndStep ==
  ASSUME TypeOK, Agreed, TypeOK', NEW k \in Conn, EndStream(k)
  PROVE  Outcome
<1>1. /\ at[k] = "ready" /\ input[k] # NoTurn /\ input' = [input EXCEPT ![k] = NoTurn]
      /\ UNCHANGED <<previous, shut, origin, message, api>>
  BY DEF EndStream, Receives, registryVars
<1>2. Follows(Current, {}) BY CurrentFollows
<1>3. CASE capture # input[k]
  <2>1. Go(k, "leaving") /\ Put(Current) /\ UNCHANGED <<live, capture, completed>>
    BY <1>3 DEF EndStream
  <2>2. (\A j \in Conn : Places(j)) /\ at'[k] # "starting"
    BY <1>1, <2>1, GoesEasily DEF Easy, Place
  <2>3. \A j \in Conn : Inputs(j) BY <1>1, <1>3, <2>2 DEF Inputs, TypeOK
  <2>4. Stream(Current) BY <2>1 DEF Stream
  <2>5. Calm(Current, {}) BY <1>1, <1>2, <2>1, <2>2, <2>3, <2>4, SameTasks DEF Calm
  <2> QED BY <2>5, CalmStep
<1>4. CASE capture = input[k]
  <2>1. capture' = NoTurn
        /\ \/ CancelThen(k, Current, "ending", "ready") /\ UNCHANGED live
           \/ completed /\ Go(k, "ready") /\ Put(Current) /\ UNCHANGED live
           \/ ~completed /\ FailTurn(k, input[k])
           \/ ~completed /\ SubmitTurn(k, input[k])
    BY <1>4 DEF EndStream
  <2>2. at'[k] # "starting"
    <3>1. Go(k, "ending") \/ Go(k, "ready") \/ Go(k, "leaving")
      BY <2>1 DEF CancelThen, FailTurn, SubmitTurn
    <3> QED BY <3>1 DEF Go, TypeOK
  <2>3. \A j \in Conn : Inputs(j) BY <1>1, <2>1, <2>2 DEF Inputs, TypeOK
  <2>4. CASE CancelThen(k, Current, "ending", "ready") /\ UNCHANGED live
    <3>1. PICK d : /\ Put(d) /\ Follows(d, {k})
                   /\ d.slot # NoTurn => live[d.slot] = "running"
                   /\ Go(k, IF Running(Current) THEN "ending" ELSE "ready")
      BY <1>2, <2>4, CancelFollows
    <3>2. \A j \in Conn : Places(j) BY <1>1, <3>1, GoesEasily DEF Easy, Place
    <3>3. Stream(d) BY <2>1, <2>4, <3>1 DEF Stream
    <3>4. Calm(d, {k}) BY <1>1, <2>2, <2>3, <2>4, <3>1, <3>2, <3>3, SameTasks DEF Calm
    <3> QED BY <3>4, CalmStep
  <2>5. CASE completed /\ Go(k, "ready") /\ Put(Current) /\ UNCHANGED live
    <3>1. \A j \in Conn : Places(j) BY <1>1, <2>5, GoesEasily DEF Easy, Place
    <3>2. Stream(Current) BY <1>2, <2>1, <2>5, NoStreamNoWait DEF Stream
    <3>3. Calm(Current, {}) BY <1>1, <1>2, <2>3, <2>5, <3>1, <3>2, SameTasks DEF Calm
    <3> QED BY <3>3, CalmStep
  <2>6. CASE ~completed /\ (FailTurn(k, input[k]) \/ SubmitTurn(k, input[k]))
    BY <1>1, <1>4, <2>1, <2>3, <2>6, UtteranceStep
  <2> QED BY <2>1, <2>4, <2>5, <2>6
<1> QED BY <1>3, <1>4
(***************************************************************************)
(* A turn is begun.                                                        *)
(***************************************************************************)
\* The stream of t is opened by k, for which it was chosen now or when k began to wait.
LEMMA BeginStep ==
  ASSUME TypeOK, Agreed, TypeOK', NEW k \in Conn, NEW t \in Turn, NEW c,
         Follows(c, {}), c.slot = NoTurn, BeginCapture(k, t, c),
         phase[t] = "new", origin[t] \in {k, NoConn}, at[k] \in {"ready", "starting"},
         origin'[t] = k, \A u \in Turn : u # t => origin'[u] = origin[u],
         \A j \in Conn : j # k => input'[j] = input[j] /\ message'[j] = message[j],
         input'[k] = t \/ Opened,
         UNCHANGED <<previous, shut, live, api>>
  PROVE  Outcome
<1>1. /\ slot' = t /\ waiting' = c.waiting
      /\ capture' = t /\ completed' = FALSE
  BY DEF BeginCapture, Put
<1>2. c \in CoordinatorState BY DEF Follows
<1>3. phase'[t] = "capturing" /\ \A u \in Turn : u # t => phase'[u] = c.phase[u]
  BY <1>2 DEF BeginCapture, Put, CoordinatorState
<1>4. at' = [at EXCEPT ![k] = "ready"] BY DEF BeginCapture, Go
<1>5. live[t] = "none" BY DEF Agreed, TurnsAgree
<1>6. TurnsAgree'
  <2>1. \A u \in Turn : live[u] # "running" BY TurnAssumption DEF Follows, Sound
  <2>2. \A u \in Turn : c.phase[u] \in {"new", "over"} BY TurnAssumption DEF Follows, Sound
  <2>3. Sound(Current)' BY <1>1, <1>3, <2>1, <2>2, TurnAssumption DEF Follows, Sound, Current
  <2>4. \A u \in Turn : phase'[u] = "new" => live'[u] = "none"
    BY <1>3 DEF Follows, Agreed, TurnsAgree
  <2> QED BY <2>3, <2>4 DEF TurnsAgree
<1>7. StreamsAgree' BY <1>1, <1>3, <1>5 DEF StreamsAgree
<1>8. \A u \in Turn : u # t => (phase'[u] = "new" <=> phase[u] = "new") BY <1>3 DEF Follows
<1>9. StartersKeepTheirs'
  <2>1. SUFFICES ASSUME NEW j \in Conn, at'[j] = "starting"
                 PROVE  /\ message'[j] \in Turn /\ origin'[message'[j]] = j
                        /\ phase'[message'[j]] = "new"
                        /\ input'[j] = message'[j] \/ j \in shut'
    BY DEF StartersKeepTheirs
  <2>2. j # k /\ at[j] = "starting" BY <1>4, <2>1 DEF TypeOK
  <2>3. /\ message[j] \in Turn /\ origin[message[j]] = j /\ phase[message[j]] = "new"
        /\ input[j] = message[j] \/ j \in shut
    BY <2>2 DEF Agreed, StartersKeepTheirs
  <2>4. message[j] # t BY <2>2, <2>3, ConnAssumption
  <2> QED BY <1>8, <2>2, <2>3, <2>4
<1>10. FramesAgree'
  <2>1. SUFFICES ASSUME NEW j \in Conn, at'[j] = "framing", input'[j] # NoTurn
                 PROVE  phase'[input'[j]] # "new" /\ slot' # input'[j]
    BY DEF FramesAgree
  <2>2. j # k /\ at[j] = "framing" /\ input'[j] = input[j] BY <1>4, <2>1 DEF TypeOK
  <2>3. phase[input[j]] # "new" BY <2>1, <2>2 DEF Agreed, FramesAgree
  <2>4. input[j] # t /\ input[j] \in Turn BY <2>1, <2>2, <2>3 DEF TypeOK
  <2> QED BY <1>1, <1>8, <2>2, <2>3, <2>4
<1>11. StartersWaitForOthers'
  <2>1. c.waiting[t] = <<>> BY DEF Follows, Sound
  <2> QED BY <1>1, <2>1, NobodyInLine DEF StartersWaitForOthers
<1>12. PreviousKnown' BY <1>4 DEF PreviousKnown, Agreed, TypeOK
<1>13. Kept' BY <1>1, <1>3, <1>5 DEF Kept
<1>14. HasHandler' \/ Opened BY <1>1 DEF HasHandler
<1> QED BY <1>6, <1>7, <1>9, <1>10, <1>11, <1>12, <1>13, <1>14 DEF Outcome, Agreed

\* A stream is refused, or has to wait.
LEMMA NotYetStep ==
  ASSUME TypeOK, Agreed, TypeOK', NEW k \in Conn, NEW t \in Turn, NEW p \in {"leaving", "starting"},
         NEW d, Put(d), Follows(d, {k}), Go(k, p), Receives(k), input[k] = NoTurn,
         p = "starting" => capture = NoTurn,
         origin[t] = NoConn, phase[t] = "new",
         origin' = [origin EXCEPT ![t] = k], input' = [input EXCEPT ![k] = t],
         message' = [message EXCEPT ![k] = t],
         UNCHANGED <<previous, shut, live, capture, completed, api>>
  PROVE  Outcome
<1>1. slot' = d.slot /\ phase' = d.phase /\ waiting' = d.waiting BY DEF Put
<1>2. at' = [at EXCEPT ![k] = p] BY DEF Go
<1>3. \A u \in Turn : phase'[u] = "new" <=> phase[u] = "new" BY <1>1 DEF Follows
<1>4. TurnsAgree'
  <2>1. Sound(Current)' BY <1>1 DEF Follows, Sound, Current
  <2> QED BY <1>3, <2>1 DEF TurnsAgree, Agreed
<1>5. capture # NoTurn => capture \in Turn /\ capture # t
  BY DEF TypeOK, Agreed, StreamsAgree
<1>6. StreamsAgree' BY <1>3, <1>5 DEF StreamsAgree, Agreed, TypeOK
<1>7. StartersKeepTheirs'
  <2>1. SUFFICES ASSUME NEW j \in Conn, at'[j] = "starting"
                 PROVE  /\ message'[j] \in Turn /\ origin'[message'[j]] = j
                        /\ phase'[message'[j]] = "new"
                        /\ input'[j] = message'[j] \/ j \in shut'
    BY DEF StartersKeepTheirs
  <2>2. CASE j = k BY <1>3, <2>2 DEF TypeOK
  <2>3. CASE j # k
    <3>1. at[j] = "starting" BY <1>2, <2>1, <2>3 DEF TypeOK
    <3>2. /\ message[j] \in Turn /\ origin[message[j]] = j /\ phase[message[j]] = "new"
          /\ input[j] = message[j] \/ j \in shut
      BY <3>1 DEF Agreed, StartersKeepTheirs
    <3>3. message[j] # t BY <3>2, ConnAssumption
    <3> QED BY <1>3, <2>3, <3>2, <3>3 DEF TypeOK
  <2> QED BY <2>2, <2>3
<1>8. FramesAgree'
  <2>1. SUFFICES ASSUME NEW j \in Conn, at'[j] = "framing", input'[j] # NoTurn
                 PROVE  phase'[input'[j]] # "new" /\ slot' # input'[j]
    BY DEF FramesAgree
  <2>2. j # k /\ at[j] = "framing" BY <1>2, <2>1 DEF TypeOK
  <2>3. input'[j] = input[j] BY <2>2 DEF TypeOK
  <2>4. phase[input[j]] # "new" /\ slot # input[j] /\ input[j] \in Turn
    BY <2>1, <2>2, <2>3 DEF Agreed, FramesAgree, TypeOK
  <2> QED BY <1>1, <1>3, <2>1, <2>3, <2>4 DEF Follows
<1>9. StartersWaitForOthers'
  <2>1. SUFFICES ASSUME NEW u \in Turn, NEW j \in Conn, at'[j] = "starting", InLine(waiting'[u], j)
                 PROVE  capture' # u
    BY DEF StartersWaitForOthers
  <2>2. CASE j = k
    <3>1. p = "starting" BY <1>2, <2>1, <2>2 DEF TypeOK
    <3>2. capture' = NoTurn BY <3>1
    <3> QED BY <3>2, TurnAssumption
  <2>3. CASE j # k
    <3>1. at[j] = "starting" BY <1>2, <2>1, <2>3 DEF TypeOK
    <3>2. InLine(waiting[u], j) BY <1>1, <2>1, <2>3 DEF Follows
    <3> QED BY <3>1, <3>2 DEF Agreed, StartersWaitForOthers
  <2> QED BY <2>2, <2>3
<1>10. PreviousKnown' BY <1>2 DEF PreviousKnown, Agreed, TypeOK
<1>11. ASSUME Kept PROVE Kept' BY <1>1, <1>11 DEF Kept, Follows
<1>12. ASSUME HasHandler PROVE HasHandler'
  <2>1. SUFFICES ASSUME capture # NoTurn PROVE input'[origin'[capture]] = capture
    BY DEF HasHandler
  <2>2. origin'[capture] = origin[capture] BY <1>5, <2>1 DEF TypeOK
  <2>3. /\ origin[capture] \in Conn /\ input[origin[capture]] = capture
    BY <1>12, <2>1 DEF HasHandler, Agreed, StreamsAgree
  <2> QED BY <2>1, <2>2, <2>3 DEF TypeOK
<1> QED BY <1>4, <1>6, <1>7, <1>8, <1>9, <1>10, <1>11, <1>12 DEF Outcome, Agreed

LEMMA StartStep ==
  ASSUME TypeOK, Agreed, TypeOK', NEW k \in Conn, NEW t \in Turn, StartStream(k, t)
  PROVE  Outcome
<1>1. /\ Receives(k) /\ input[k] = NoTurn /\ origin[t] = NoConn /\ phase[t] = "new"
      /\ origin' = [origin EXCEPT ![t] = k] /\ input' = [input EXCEPT ![k] = t]
      /\ message' = [message EXCEPT ![k] = t]
      /\ UNCHANGED <<previous, shut, live, api>>
  BY DEF StartStream, registryVars
<1>2. Follows(Current, {}) /\ Follows(Current, {k}) BY CurrentFollows DEF Follows
<1>3. CASE capture # NoTurn
  <2>1. Go(k, "leaving") /\ Put(Current) /\ UNCHANGED <<capture, completed>>
    BY <1>3 DEF StartStream
  <2> QED BY <1>1, <1>2, <2>1, NotYetStep
<1>4. CASE capture = NoTurn /\ Running(Current)
  <2>1. CancelThen(k, Current, "starting", "starting") /\ UNCHANGED <<capture, completed>>
    BY <1>4 DEF StartStream
  <2>2. PICK d : /\ Put(d) /\ Follows(d, {k})
                 /\ Go(k, IF Running(Current) THEN "starting" ELSE "starting")
    BY <1>2, <2>1, CancelFollows
  <2>3. Go(k, "starting") BY <2>2
  <2> QED BY <1>1, <1>4, <2>1, <2>2, <2>3, NotYetStep
<1>5. CASE capture = NoTurn /\ ~Running(Current)
  <2>1. BeginCapture(k, t, Without(Current)) BY <1>5 DEF StartStream
  <2>2. Follows(Without(Current), {}) /\ Without(Current).slot = NoTurn
    BY <1>2, <1>5, WithoutFollows DEF Running
  <2>3. /\ at[k] \in {"ready", "starting"} /\ origin'[t] = k /\ input'[k] = t
        /\ \A u \in Turn : u # t => origin'[u] = origin[u]
        /\ \A j \in Conn : j # k => input'[j] = input[j] /\ message'[j] = message[j]
    BY <1>1 DEF Receives, TypeOK
  <2> QED BY <1>1, <2>1, <2>2, <2>3, BeginStep
<1> QED BY <1>3, <1>4, <1>5

LEMMA StartResumedStep ==
  ASSUME TypeOK, Agreed, TypeOK', NEW k \in Conn, StartResumes(k)
  PROVE  Outcome
<1>1. PICK t \in Turn :
        /\ Wakes(k, t, "starting")
        /\ IF Woken(t).slot = NoTurn
             THEN BeginCapture(k, message[k], Woken(t))
             ELSE Go(k, "leaving") /\ Put(Woken(t)) /\ UNCHANGED <<capture, completed>>
  BY DEF StartResumes
<1>2. Follows(Woken(t), {}) BY <1>1, WokenFollows DEF Wakes
<1>3. UNCHANGED <<previous, shut, input, live, origin, message, api>>
  BY DEF StartResumes, registryVars
<1>4. CASE Woken(t).slot = NoTurn
  <2>1. /\ at[k] = "starting" /\ message[k] \in Turn /\ origin[message[k]] = k
        /\ phase[message[k]] = "new"
        /\ input[k] = message[k] \/ k \in shut
    BY <1>1 DEF Wakes, Agreed, StartersKeepTheirs
  <2>2. BeginCapture(k, message[k], Woken(t)) BY <1>1, <1>4
  <2>3. at'[k] = "ready" BY <2>2 DEF BeginCapture, Go, TypeOK
  <2>4. input'[k] = message[k] \/ Opened BY <1>3, <2>1, <2>3 DEF Opened, OpensLate
  <2> QED BY <1>2, <1>3, <1>4, <2>1, <2>2, <2>4, BeginStep
<1>5. CASE Woken(t).slot # NoTurn
  <2>1. Go(k, "leaving") /\ Put(Woken(t)) /\ UNCHANGED <<capture, completed>> BY <1>1, <1>5
  <2>2. \A j \in Conn : Places(j) BY <1>3, <2>1, GoesEasily DEF Easy, Place
  <2>3. Stream(Woken(t)) /\ \A j \in Conn : Inputs(j) BY <1>3, <2>1, SameStream
  <2>4. Calm(Woken(t), {}) BY <1>2, <1>3, <2>1, <2>2, <2>3, SameTasks DEF Calm
  <2> QED BY <2>4, CalmStep
<1> QED BY <1>4, <1>5
(***************************************************************************)
(* Tasks, timers and the control API.                                      *)
(***************************************************************************)
\* Handlers and streams stay as they are.
Still == UNCHANGED <<registryVars, streamVars, at, message>>

\* The turn in the slot goes on, its task running.
LEMMA SlotStep ==
  ASSUME TypeOK, Agreed, TypeOK', Still, slot # NoTurn, NEW p \in {"working", "closing"},
         phase' = [phase EXCEPT ![slot] = p], slot' = slot, waiting' = waiting, origin' = origin,
         live[slot] \in {"queued", "running"}, live' = [live EXCEPT ![slot] = "running"],
         p = "closing" => api' = slot
  PROVE  Outcome
<1>1. slot \in Turn /\ phase[slot] # "new" BY DEF TypeOK, Agreed, TurnsAgree
<1>2. \A t \in Turn : phase'[t] = "new" <=> phase[t] = "new" BY <1>1 DEF TypeOK
<1>3. TurnsAgree'
  <2>1. Sound(Current)' BY <1>1 DEF Agreed, TurnsAgree, Sound, Current, TypeOK
  <2>2. \A t \in Turn : phase'[t] = "new" => live'[t] = "none"
    BY <1>1, <1>2 DEF Agreed, TurnsAgree, TypeOK
  <2> QED BY <2>1, <2>2 DEF TurnsAgree
<1>4. StreamsAgree' BY <1>2 DEF StreamsAgree, Agreed, Still, streamVars, TypeOK
<1>5. StartersKeepTheirs'
  BY <1>2 DEF StartersKeepTheirs, Agreed, Still, streamVars, registryVars
<1>6. FramesAgree' BY <1>2 DEF FramesAgree, Agreed, Still, streamVars, TypeOK
<1>7. StartersWaitForOthers' BY DEF StartersWaitForOthers, Agreed, Still, streamVars
<1>8. PreviousKnown' BY DEF PreviousKnown, Agreed, Still, registryVars
<1>9. Kept' BY <1>1 DEF Kept, TypeOK
<1>10. HasHandler => HasHandler' BY DEF HasHandler, Still, streamVars
<1> QED BY <1>3, <1>4, <1>5, <1>6, <1>7, <1>8, <1>9, <1>10 DEF Outcome, Agreed

\* The turn in the slot ends with its task.
LEMMA FinishStep ==
  ASSUME TypeOK, Agreed, TypeOK', Still, slot # NoTurn, live[slot] = "running",
         phase' = [phase EXCEPT ![slot] = "over"], slot' = NoTurn, waiting' = waiting,
         origin' = origin, live' = [live EXCEPT ![slot] = "done"]
  PROVE  Outcome
<1>1. slot \in Turn /\ phase[slot] # "new" BY DEF TypeOK, Agreed, TurnsAgree
<1>2. \A t \in Turn : phase'[t] = "new" <=> phase[t] = "new" BY <1>1 DEF TypeOK
<1>3. TurnsAgree'
  <2>1. Sound(Current)' BY <1>1 DEF Agreed, TurnsAgree, Sound, Current, TypeOK
  <2>2. \A t \in Turn : phase'[t] = "new" => live'[t] = "none"
    BY <1>1, <1>2 DEF Agreed, TurnsAgree, TypeOK
  <2> QED BY <2>1, <2>2 DEF TurnsAgree
<1>4. StreamsAgree' BY <1>2 DEF StreamsAgree, Agreed, Still, streamVars, TypeOK
<1>5. StartersKeepTheirs'
  BY <1>2 DEF StartersKeepTheirs, Agreed, Still, streamVars, registryVars
<1>6. FramesAgree' BY <1>2 DEF FramesAgree, Agreed, Still, streamVars, TypeOK
<1>7. StartersWaitForOthers' BY DEF StartersWaitForOthers, Agreed, Still, streamVars
<1>8. PreviousKnown' BY DEF PreviousKnown, Agreed, Still, registryVars
<1>9. Kept' BY DEF Kept
<1>10. HasHandler => HasHandler' BY DEF HasHandler, Still, streamVars
<1> QED BY <1>3, <1>4, <1>5, <1>6, <1>7, <1>8, <1>9, <1>10 DEF Outcome, Agreed

LEMMA StillCalm ==
  ASSUME TypeOK, Agreed, TypeOK', Still, origin' = origin, NEW c, Put(c), Follows(c, {}),
         \A t \in Turn : Task(c, t), api' = api \/ c.slot # api
  PROVE  Outcome
<1>1. Stream(c) /\ \A j \in Conn : Inputs(j) BY SameStream DEF Still, streamVars
<1>2. \A j \in Conn : Places(j) BY DEF Places, Still, registryVars
<1>3. Calm(c, {}) BY <1>1, <1>2 DEF Calm, Still, registryVars
<1> QED BY <1>3, CalmStep

LEMMA TaskSteps ==
  ASSUME TypeOK, Agreed, TypeOK', NEW t \in Turn, TaskStarts(t) \/ TaskEnds(t)
  PROVE  Outcome
<1>1. Follows(Current, {}) BY CurrentFollows
<1>2. phase[t] # "new" BY DEF TaskStarts, TaskEnds, Agreed, TurnsAgree
<1>3. Still /\ origin' = origin /\ api' = api
  BY DEF TaskStarts, TaskEnds, Still, handlerVars, registryVars, streamVars
<1>4. CASE TaskStarts(t) /\ slot = t
  <2>1. /\ live[t] = "queued" /\ live' = [live EXCEPT ![t] = "running"]
        /\ phase' = [phase EXCEPT ![t] = "working"] /\ slot' = slot /\ waiting' = waiting
    BY <1>4 DEF TaskStarts, handlerVars
  <2> QED BY <1>3, <1>4, <2>1, TurnAssumption, SlotStep
<1>5. CASE TaskStarts(t) /\ slot # t
  <2>1. /\ live[t] = "queued" /\ live' = [live EXCEPT ![t] = "done"]
        /\ phase' = phase /\ slot' = slot /\ waiting' = waiting
    BY <1>5 DEF TaskStarts, handlerVars
  <2>2. Put(Current) BY <2>1 DEF Put, Current
  <2>3. \A u \in Turn : Task(Current, u) BY <1>2, <1>5, <2>1 DEF Task, Current, TypeOK
  <2> QED BY <1>1, <1>3, <2>2, <2>3, StillCalm
<1>6. CASE TaskEnds(t) /\ phase[t] = "closing"
  <2>1. live[t] = "running" /\ live' = [live EXCEPT ![t] = "done"] /\ Put(Current)
    BY <1>6 DEF TaskEnds
  <2>2. \A u \in Turn : Task(Current, u) BY <1>2, <1>6, <2>1 DEF Task, Current, TypeOK
  <2> QED BY <1>1, <1>3, <2>1, <2>2, StillCalm
<1>7. CASE TaskEnds(t) /\ phase[t] # "closing"
  <2>1. live[t] = "running" /\ live' = [live EXCEPT ![t] = "done"] /\ Put(Released(Current, t))
    BY <1>7 DEF TaskEnds
  <2>2. slot = t BY <2>1 DEF Agreed, TurnsAgree, Sound, Current
  <2>3. slot' = NoTurn /\ phase' = [phase EXCEPT ![t] = "over"] /\ waiting' = waiting
    BY <2>1, <2>2, TurnAssumption DEF Released, Without, Current, Put
  <2> QED BY <1>3, <2>1, <2>2, <2>3, TurnAssumption, FinishStep
<1> QED BY <1>4, <1>5, <1>6, <1>7

LEMMA DeadlineStep ==
  ASSUME TypeOK, Agreed, TypeOK', Deadline
  PROVE  Outcome
<1>1. /\ capture \in Turn /\ capture' = NoTurn
      /\ UNCHANGED <<registryVars, live, origin, at, message, api>>
  BY DEF Deadline, TypeOK
<1>2. phase[capture] # "new" /\ (~completed => live[capture] = "none")
  BY <1>1, TurnAssumption DEF Agreed, StreamsAgree
<1>3. \A j \in Conn : Places(j) BY <1>1 DEF Places, registryVars
<1>4. ASSUME NEW j \in Conn PROVE Inputs(j)
  <2>1. input'[j] = input[j] \/ (input'[j] = NoTurn /\ input[j] = capture)
    BY DEF Deadline, TypeOK
  <2>2. at[j] = "starting" /\ input[j] = capture => j \in shut
    BY <1>2 DEF Agreed, StartersKeepTheirs
  <2> QED BY <1>1, <2>1, <2>2 DEF Inputs, registryVars
<1>5. Follows(Current, {}) BY CurrentFollows
<1> DEFINE c == IF completed THEN Current ELSE Released(Current, capture)
<1>6. Put(c) BY DEF Deadline
<1>7. Follows(c, {}) /\ (~completed => c.slot # capture)
  BY <1>1, <1>2, <1>5, ReleasedFollows
<1> HIDE DEF c
<1>8. Stream(c) BY <1>1, <1>7, NoStreamNoWait DEF Stream
<1>9. Calm(c, {}) BY <1>1, <1>3, <1>4, <1>6, <1>7, <1>8, SameTasks DEF Calm, registryVars
<1> QED BY <1>9, CalmStep

LEMMA DirectStep ==
  ASSUME TypeOK, Agreed, TypeOK', NEW t \in Turn, BeginSpeech(t) \/ BeginVision(t)
  PROVE  Outcome
<1>1. PICK k \in Conn \cup {NoConn}, p \in {"working", "capturing"} : BeginDirect(t, k, p)
  BY DEF BeginSpeech, BeginVision, TypeOK
<1>2. /\ slot = NoTurn /\ origin[t] = NoConn /\ phase[t] = "new" /\ slot' = t
      /\ phase' = [phase EXCEPT ![t] = p] /\ live' = [live EXCEPT ![t] = "running"]
      /\ origin' = [origin EXCEPT ![t] = k]
      /\ UNCHANGED <<registryVars, streamVars, handlerVars, api>>
  BY <1>1 DEF BeginDirect
<1>3. TurnsAgree'
  <2>1. Sound(Current)'
    BY <1>2, TurnAssumption DEF Agreed, TurnsAgree, Sound, Current, TypeOK, handlerVars
  <2>2. \A u \in Turn : phase'[u] = "new" => live'[u] = "none"
    BY <1>2 DEF Agreed, TurnsAgree, TypeOK
  <2> QED BY <2>1, <2>2 DEF TurnsAgree
<1>4. capture # NoTurn => capture \in Turn /\ capture # t
  BY <1>2 DEF TypeOK, Agreed, StreamsAgree
<1>5. StreamsAgree' BY <1>2, <1>4 DEF StreamsAgree, Agreed, TypeOK, streamVars
<1>6. StartersKeepTheirs'
  <2>1. SUFFICES ASSUME NEW j \in Conn, at[j] = "starting"
                 PROVE  /\ message[j] \in Turn /\ origin'[message[j]] = j
                        /\ phase'[message[j]] = "new"
                        /\ input[j] = message[j] \/ j \in shut
    BY <1>2 DEF StartersKeepTheirs, handlerVars, streamVars, registryVars
  <2>2. /\ message[j] \in Turn /\ origin[message[j]] = j /\ phase[message[j]] = "new"
        /\ input[j] = message[j] \/ j \in shut
    BY <2>1 DEF Agreed, StartersKeepTheirs
  <2>3. message[j] # t BY <1>2, <2>2, ConnAssumption
  <2> QED BY <1>2, <2>2, <2>3 DEF TypeOK
<1>7. FramesAgree'
  <2>1. SUFFICES ASSUME NEW j \in Conn, at[j] = "framing", input[j] # NoTurn
                 PROVE  phase'[input[j]] # "new" /\ slot' # input[j]
    BY <1>2 DEF FramesAgree, handlerVars, streamVars
  <2>2. phase[input[j]] # "new" /\ input[j] \in Turn BY <2>1 DEF Agreed, FramesAgree, TypeOK
  <2> QED BY <1>2, <2>2 DEF TypeOK
<1>8. StartersWaitForOthers' BY <1>2 DEF StartersWaitForOthers, Agreed, handlerVars, streamVars
<1>9. PreviousKnown' BY <1>2 DEF PreviousKnown, Agreed, handlerVars, registryVars
<1>10. Kept' BY <1>2 DEF Kept, TypeOK
<1>11. HasHandler => HasHandler' BY <1>2, <1>4 DEF HasHandler, streamVars, TypeOK
<1> QED BY <1>3, <1>5, <1>6, <1>7, <1>8, <1>9, <1>10, <1>11 DEF Outcome, Agreed

LEMMA ApiSteps ==
  ASSUME TypeOK, Agreed, TypeOK', ApiStep \/ CancelSpeechReturns
  PROVE  Outcome
<1>1. Follows(Current, {}) BY CurrentFollows
<1>2. ASSUME NEW t \in Turn, PhotoTaken(t) PROVE Outcome
  <2>1. /\ slot = t /\ live[slot] = "running" /\ phase' = [phase EXCEPT ![slot] = "working"]
        /\ UNCHANGED <<registryVars, streamVars, slot, live, origin, handlerVars, api>>
    BY <1>2 DEF PhotoTaken
  <2>2. live' = [live EXCEPT ![slot] = "running"] BY <2>1 DEF TypeOK
  <2>3. Still /\ waiting' = waiting BY <2>1 DEF Still, handlerVars, registryVars, streamVars
  <2> QED BY <2>1, <2>2, <2>3, TurnAssumption, SlotStep
<1>3. CASE CancelSpeech /\ Running(Current)
  <2>1. /\ slot # NoTurn /\ live[slot] = "running" /\ api' = slot
        /\ phase' = [phase EXCEPT ![slot] = "closing"] /\ slot' = slot
        /\ UNCHANGED <<registryVars, streamVars, live, origin, handlerVars>>
    BY <1>3 DEF CancelSpeech, Running, Current
  <2>2. live' = [live EXCEPT ![slot] = "running"] BY <2>1 DEF TypeOK
  <2>3. Still /\ waiting' = waiting BY <2>1 DEF Still, handlerVars, registryVars, streamVars
  <2> QED BY <2>1, <2>2, <2>3, SlotStep
<1>4. CASE CancelSpeech /\ ~Running(Current)
  <2>1. /\ slot # NoTurn /\ slot' = NoTurn /\ phase' = [phase EXCEPT ![slot] = "over"]
        /\ UNCHANGED <<registryVars, streamVars, live, origin, handlerVars, api>>
    BY <1>4 DEF CancelSpeech
  <2>2. Put(Without(Current)) BY <2>1 DEF Put, Without, Current, handlerVars
  <2>3. Follows(Without(Current), {}) BY <1>1, <1>4, WithoutFollows DEF Running
  <2>4. Still BY <2>1 DEF Still, handlerVars, registryVars, streamVars
  <2> QED BY <2>1, <2>2, <2>3, <2>4, SameTasks, StillCalm
<1>5. CASE CancelSpeechReturns
  <2>1. /\ api \in Turn /\ live[api] = "done" /\ Put(Released(Current, api))
        /\ UNCHANGED <<registryVars, streamVars, live, origin, at, message>>
    BY <1>5 DEF CancelSpeechReturns, TypeOK
  <2>2. Follows(Released(Current, api), {}) /\ Released(Current, api).slot # api
    BY <1>1, <2>1, ReleasedFollows
  <2>3. Still BY <2>1 DEF Still, registryVars, streamVars
  <2> QED BY <2>1, <2>2, <2>3, SameTasks, StillCalm
<1> QED BY <1>2, <1>3, <1>4, <1>5, DirectStep DEF ApiStep

(***************************************************************************)
(* The invariant, and the theorems.                                        *)
(***************************************************************************)
LEMMA AgreementInit == Init => Agreement
<1> SUFFICES ASSUME Init PROVE Agreement OBVIOUS
<1> USE DEF Init
<1>1. TypeOK
  <2>1. <<>> \in Seq(Conn) BY EmptySeq
  <2> QED BY <2>1 DEF TypeOK, Phase, Place
<1>2. TurnsAgree BY TurnAssumption DEF TurnsAgree, Sound, Current
<1>3. StreamsAgree BY DEF StreamsAgree
<1>4. StartersKeepTheirs /\ FramesAgree /\ StartersWaitForOthers /\ PreviousKnown
  BY DEF StartersKeepTheirs, FramesAgree, StartersWaitForOthers, PreviousKnown
<1> QED BY <1>1, <1>2, <1>3, <1>4 DEF Agreement, Agreed

LEMMA EveryStep ==
  ASSUME Agreement, [Next]_vars
  PROVE  TypeOK' /\ Outcome
<1>1. TypeOK /\ Agreed /\ PreviousKnown BY DEF Agreement, Agreed
<1>2. ASSUME NEW k \in Conn, WakeUp(k) PROVE TypeOK' /\ Outcome
  <2>1. TypeOK' BY <1>1, <1>2, HandlerTypes
  <2> QED BY <1>1, <1>2, <2>1, WokenStep, StartResumedStep, ResumedStep, LeaveSteps DEF WakeUp
<1>3. ASSUME NEW k \in Conn, HandlerStep(k) PROVE TypeOK' /\ Outcome
  <2>1. TypeOK' BY <1>1, <1>3, HandlerTypes
  <2> QED BY <1>1, <1>3, <2>1, CloseStep, PlainStep, LeaveSteps DEF HandlerStep
<1>4. ASSUME NEW k \in Conn, DeviceStep(k) PROVE TypeOK' /\ Outcome
  <2>1. TypeOK' BY <1>1, <1>4, DeviceTypes
  <2> QED BY <1>1, <1>4, <2>1, PlainStep, StartStep, EndStep, FrameSteps DEF DeviceStep
<1>5. ASSUME NEW t \in Turn, TaskStarts(t) \/ TaskEnds(t) PROVE TypeOK' /\ Outcome
  BY <1>1, <1>5, OtherTypes, TaskSteps
<1>6. CASE Deadline BY <1>1, <1>6, OtherTypes, DeadlineStep
<1>7. CASE ApiStep \/ CancelSpeechReturns BY <1>1, <1>7, OtherTypes, ApiSteps
<1>8. CASE UNCHANGED vars
  <2>1. Follows(Current, {}) /\ Put(Current)
    BY <1>1, <1>8, CurrentFollows DEF Put, Current, vars, turnVars, handlerVars
  <2>2. TypeOK'
    BY <1>1, <1>8 DEF TypeOK, vars, registryVars, streamVars, turnVars, handlerVars
  <2>3. Still /\ origin' = origin /\ live' = live /\ api' = api
    BY <1>8 DEF Still, vars, turnVars, handlerVars
  <2> QED BY <1>1, <2>1, <2>2, <2>3, SameTasks, StillCalm
<1> QED BY <1>2, <1>3, <1>4, <1>5, <1>6, <1>7, <1>8 DEF Next

LEMMA AgreementInvariant == Spec => []Agreement
<1>1. Agreement /\ [Next]_vars => Agreement' BY EveryStep DEF Outcome, Agreement
<1> QED BY <1>1, AgreementInit, PTL DEF Spec

\* The types of every variable.
THEOREM TypeCorrect == Spec => []TypeOK
<1>1. Agreement => TypeOK BY DEF Agreement
<1> QED BY <1>1, AgreementInvariant, PTL

\* Whatever connections come and go, a busy device never loses what will free it, but for
\* a stream that a resumed frame takes away: DeviceRegistry, the input handler and the
\* coordinator never lose a turn between them.
THEOREM KeeperCorrect == Spec => TurnHasKeeper
<1>1. Agreement /\ [Next]_vars
      => [Kept => Kept' \/ \E k \in Conn : RemovesAnothersStream(k)]_vars
  BY EveryStep DEF Outcome, Removed
<1> QED BY <1>1, AgreementInvariant, PTL DEF Spec, TurnHasKeeper

\* An open stream never loses the connection that can end it, and a stream nobody can end
\* is opened by a start only whose connection was closed while it waited.
THEOREM HandlerCorrect == Spec => StreamHasHandler
<1>1. Agreement /\ [Next]_vars
      => [HasHandler => HasHandler' \/ \E k \in Conn : OpensLate(k)]_vars
  BY EveryStep DEF Outcome, Opened
<1> QED BY <1>1, AgreementInvariant, PTL DEF Spec, StreamHasHandler

\* No stream whose turn is under way is overwritten by another, in whatever order starts
\* are woken.
THEOREM IntactCorrect == Spec => StreamStaysIntact
<1> DEFINE Intact == capture # NoTurn /\ phase[capture] # "over" => capture' \in {capture, NoTurn}
<1>1. Agreement /\ [Next]_vars => [Intact]_vars
  <2>1. SUFFICES ASSUME Agreement, Next PROVE Intact OBVIOUS
  <2>2. ASSUME NEW k \in Conn, StartResumes(k) PROVE Intact
    <3>1. PICK t \in Turn :
            /\ Wakes(k, t, "starting")
            /\ Woken(t).slot = NoTurn \/ UNCHANGED capture
      BY <2>2 DEF StartResumes
    <3>2. SUFFICES ASSUME capture # NoTurn, phase[capture] # "over", Woken(t).slot = NoTurn
                   PROVE  FALSE
      BY <3>1
    <3>3. capture \in Turn /\ phase[capture] # "new"
      BY <2>1, <3>2 DEF Agreement, TypeOK, Agreed, StreamsAgree
    <3>4. slot = capture
      BY <2>1, <3>2, <3>3 DEF Agreement, Agreed, TurnsAgree, Sound, Current
    <3>5. slot = t
      BY <3>2, <3>3, <3>4, TurnAssumption DEF Woken, Released, Current
    <3>6. at[k] = "starting" /\ InLine(waiting[t], k)
      BY <2>1, <3>1, LineLeft DEF Wakes, Agreement, TypeOK
    <3> QED BY <2>1, <3>4, <3>5, <3>6 DEF Agreement, Agreed, StartersWaitForOthers
  <2>3. ASSUME NEW k \in Conn, WakeUp(k), ~StartResumes(k) PROVE Intact
    BY <2>3 DEF WakeUp, OldTurnCancelled, OldStreamDropped, DropPreviousInput, CancelResumes,
      RemoveCapture, StreamDiscarded, OwnTurnCancelled, streamVars
  <2>4. ASSUME NEW k \in Conn, HandlerStep(k) PROVE Intact
    BY <2>4 DEF HandlerStep, CloseReturns, DropPreviousInput, Acknowledged, Leave, streamVars
  <2>5. ASSUME NEW k \in Conn, NEW t \in Turn, StartStream(k, t) PROVE Intact
    BY <2>5 DEF StartStream
  <2>6. ASSUME NEW k \in Conn, DeviceStep(k), \A t \in Turn : ~StartStream(k, t) PROVE Intact
    BY <2>6 DEF DeviceStep, Register, Disconnected, EndStream, Utterance, BadFrame,
      RemoveCapture, StrayFrame, Barge, streamVars
  <2>7. CASE CancelSpeechReturns BY <2>7 DEF CancelSpeechReturns, streamVars
  <2>8. ASSUME NEW t \in Turn, TaskStarts(t) \/ TaskEnds(t) PROVE Intact
    BY <2>8 DEF TaskStarts, TaskEnds, streamVars
  <2>9. CASE Deadline BY <2>9 DEF Deadline
  <2>10. CASE ApiStep
    BY <2>10 DEF ApiStep, BeginSpeech, BeginVision, BeginDirect, PhotoTaken, CancelSpeech,
      streamVars
  <2> QED BY <2>1, <2>2, <2>3, <2>4, <2>5, <2>6, <2>7, <2>8, <2>9, <2>10 DEF Next
<1> QED BY <1>1, AgreementInvariant, PTL DEF Spec, StreamStaysIntact
=============================================================================
