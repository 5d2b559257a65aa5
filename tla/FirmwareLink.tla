---------------------------- MODULE FirmwareLink ----------------------------
(***************************************************************************)
(* The device's link to the Bridge: OfficialWebSocketTransport             *)
(* (firmware/main/hal/stackchan_bridge_websocket.cpp), the connection      *)
(* handling of BridgeClient (session.cpp) and what WebSocket and EspTcp    *)
(* report of a socket that opens, closes or breaks.                        *)
(*                                                                         *)
(* Three threads take part. The session's thread polls the queue of        *)
(* callbacks, runs them one by one, and then looks at the timers. The      *)
(* connection worker drops the previous socket, opens the new one and      *)
(* ends. The receive task of the TCP connection turns what arrives into    *)
(* callbacks. Callbacks carry the generation of their connection.          *)
(*                                                                         *)
(* Time is abstract: an armed timer may expire at any look. An established *)
(* session is "up"; FirmwareSession says what it does there.               *)
(***************************************************************************)
EXTENDS Integers, Sequences

CONSTANTS
  MaxGeneration,  \* bound: connection attempts of a behaviour
  QueueLimit      \* kMaxPendingCallbacks (256 in the code)

ASSUME GenerationAssumption == MaxGeneration \in Nat
ASSUME QueueAssumption == QueueLimit \in Nat

VARIABLES
  generation,  \* connectionGeneration_
  closing,     \* closeRequested_
  worker,      \* where the connection worker is; "none" while connectionRunning_ is unset
  socket,      \* the generation of the WebSocket in socket_, 0 without one
  connected,   \* its connected_
  tcp,         \* its TCP connection
  peer,        \* the Bridge at the other end of it
  queue,       \* pendingCallbacks_
  overflow,    \* pendingCallbackOverflow_
  batch,       \* the callbacks poll has taken and not yet run
  state,       \* "wifi", "connecting" or "up": Idle, Listening and Speaking
  pending,     \* reconnectPending_
  scheduled,   \* reconnectScheduled_
  handshake,   \* handshakeTimerArmed_
  heartbeat    \* "off", "armed", or "awaiting" a pong

socketVars == <<socket, connected, tcp, peer>>
queueVars == <<queue, overflow>>
timerVars == <<pending, scheduled, handshake, heartbeat>>
sessionVars == <<state, timerVars>>
vars == <<generation, closing, worker, socketVars, queueVars, batch, sessionVars>>

Kind == {"connected", "disconnected", "broken", "failed", "ack", "data", "pong"}

Callback == [gen : 1..MaxGeneration, kind : Kind]

\* The Bridge has our close frame to answer, and perhaps our hello before it.
Closing == {"closing", "overdue"}

\* requiresOpenConnection: the callback is dropped once a close has been requested.
RequiresOpen(entry) == entry.kind \notin {"disconnected", "broken"}

TypeOK ==
  /\ generation \in 0..MaxGeneration
  /\ closing \in BOOLEAN
  /\ worker \in {"none", "started", "creating", "created", "connecting", "returned", "failed"}
  /\ socket \in 0..MaxGeneration
  /\ connected \in BOOLEAN
  /\ tcp \in {"none", "open", "closed"}
  /\ peer \in {"waiting", "greeted", "ready", "gone", "hung"} \cup Closing
  /\ queue \in Seq(Callback) /\ Len(queue) <= QueueLimit
  /\ overflow \in BOOLEAN
  /\ batch \in Seq(Callback)
  /\ state \in {"wifi", "connecting", "up"}
  /\ pending \in BOOLEAN /\ scheduled \in BOOLEAN /\ handshake \in BOOLEAN
  /\ heartbeat \in {"off", "armed", "awaiting"}

Init ==
  /\ generation = 0 /\ closing = FALSE /\ worker = "none"
  /\ socket = 0 /\ connected = FALSE /\ tcp = "none" /\ peer = "waiting"
  /\ queue = <<>> /\ overflow = FALSE /\ batch = <<>>
  /\ state = "wifi"
  /\ pending = FALSE /\ scheduled = FALSE /\ handshake = FALSE /\ heartbeat = "off"

(***************************************************************************)
(* The queue of callbacks.                                                 *)
(***************************************************************************)
\* A full queue drops the callback and remembers that it did (enqueueCallback).
Enqueue(gen, kind) ==
  IF Len(queue) < QueueLimit
    THEN queue' = Append(queue, [gen |-> gen, kind |-> kind]) /\ UNCHANGED overflow
    ELSE overflow' = TRUE /\ UNCHANGED queue

EnqueueIf(condition, gen, kind) ==
  IF condition THEN Enqueue(gen, kind) ELSE UNCHANGED queueVars

(***************************************************************************)
(* The connection worker (runConnection).                                  *)
(***************************************************************************)
\* ~WebSocket closes an open TCP connection, which reports the loss of a connected socket.
ReportsLoss == connected /\ tcp = "open"

DropSocket == socket' = 0 /\ connected' = FALSE /\ tcp' = "none" /\ peer' = "waiting"

\* The previous connection's socket goes first.
DropPrevious ==
  /\ worker = "started"
  /\ DropSocket
  /\ EnqueueIf(ReportsLoss, socket, "disconnected")
  /\ worker' = IF closing THEN "none" ELSE "creating"
  /\ UNCHANGED <<generation, closing, batch, sessionVars>>

CreateSocket ==
  /\ worker = "creating"
  /\ \/ socket' = generation /\ worker' = "created"
     \/ worker' = "failed" /\ UNCHANGED socket
  /\ UNCHANGED <<generation, closing, connected, tcp, peer, queueVars, batch, sessionVars>>

\* The last look at closeRequested_ before WebSocket::Connect, which opens the TCP connection.
BeginConnect ==
  /\ worker = "created"
  /\ \/ closing /\ worker' = "returned" /\ UNCHANGED tcp
     \/ ~closing /\ worker' = "connecting" /\ tcp' = "open"
     \/ ~closing /\ worker' = "failed" /\ UNCHANGED tcp
  /\ UNCHANGED <<generation, closing, socket, connected, peer, queueVars, batch, sessionVars>>

\* The upgrade is answered. The TCP connection may be closed again before Connect goes on.
Upgrade ==
  /\ worker = "connecting"
  /\ connected' = TRUE
  /\ Enqueue(socket, "connected")
  /\ worker' = "returned"
  /\ UNCHANGED <<generation, closing, socket, tcp, peer, batch, sessionVars>>

\* The upgrade is refused, malformed or late, or close() gives it up.
UpgradeFails ==
  /\ worker = "connecting"
  /\ worker' = "failed"
  /\ UNCHANGED <<generation, closing, socketVars, queueVars, batch, sessionVars>>

WorkerEndsFaulty ==
  /\ worker \in {"returned", "failed"}
  /\ worker' = "none"
  /\ IF worker = "failed" \/ closing THEN DropSocket ELSE UNCHANGED socketVars
  /\ EnqueueIf(worker = "failed" /\ ~closing, generation, "failed")
  /\ UNCHANGED <<generation, closing, batch, sessionVars>>

\* A socket that failed, or that nobody wants any more, is destroyed; a failure is
\* reported unless a close was requested.
WorkerEnds ==
  /\ worker \in {"returned", "failed"}
  /\ worker' = "none"
  /\ IF worker = "failed" \/ closing THEN DropSocket ELSE UNCHANGED socketVars
  /\ IF worker = "failed" /\ ~closing
       THEN Enqueue(generation, "failed")
       ELSE EnqueueIf(closing /\ ReportsLoss, socket, "disconnected")
  /\ UNCHANGED <<generation, closing, batch, sessionVars>>

(***************************************************************************)
(* The receive task (EspTcp::ReceiveTask, WebSocket::OnTcpData). It runs   *)
(* from the TCP connection on, also before the upgrade has been answered.  *)
(***************************************************************************)
Receives(from) ==
  /\ tcp = "open" /\ peer \in from
  /\ UNCHANGED <<generation, closing, worker, socket, batch, sessionVars>>

\* A message counts for the current connection, while nobody has asked to close it.
EnqueueMessage(kind) == EnqueueIf(generation = socket /\ ~closing, socket, kind)

\* The Bridge acknowledges the hello, perhaps before it sees our close frame.
ReceiveAck ==
  /\ Receives({"greeted", "overdue"})
  /\ EnqueueMessage("ack")
  /\ peer' = IF peer = "greeted" THEN "ready" ELSE "closing"
  /\ UNCHANGED <<connected, tcp>>

ReceiveData ==
  /\ Receives({"ready", "closing"})
  /\ EnqueueMessage("data")
  /\ UNCHANGED <<connected, tcp, peer>>

ReceivePong ==
  /\ Receives({"ready"})
  /\ heartbeat = "awaiting"
  /\ Enqueue(socket, "pong")
  /\ UNCHANGED <<connected, tcp, peer>>

\* A close frame, of the Bridge's own accord or in answer to ours.
ReceiveClose ==
  /\ Receives({"waiting", "greeted", "ready"} \cup Closing)
  /\ connected' = FALSE
  /\ Enqueue(socket, "disconnected")
  /\ peer' = "gone"
  /\ UNCHANGED tcp

\* A frame that breaks the protocol.
ReceiveBroken ==
  /\ Receives({"waiting", "greeted", "ready"} \cup Closing)
  /\ connected' = FALSE
  /\ Enqueue(socket, "broken")
  /\ UNCHANGED <<tcp, peer>>

\* recv returns an error or the end of the stream.
LoseTcp ==
  /\ Receives({"waiting", "greeted", "ready", "gone", "hung"} \cup Closing)
  /\ tcp' = "closed"
  /\ connected' = FALSE
  /\ EnqueueIf(connected, socket, "disconnected")
  /\ UNCHANGED peer

\* External: the Bridge stops reading and answering, and its TCP connection stays.
Hang ==
  /\ Receives({"ready"})
  /\ peer' = "hung"
  /\ UNCHANGED <<connected, tcp, queueVars>>

(***************************************************************************)
(* The session's thread.                                                   *)
(***************************************************************************)
\* transport_.close(): no more callbacks of an open connection, and a close frame.
Close ==
  /\ closing' = TRUE
  /\ peer' = IF connected /\ tcp = "open" /\ peer \in {"waiting", "greeted", "ready"}
               THEN IF peer = "greeted" THEN "overdue" ELSE "closing"
               ELSE peer

\* handleTransportDisconnected, whichever state it finds.
HandleTransportDisconnected ==
  /\ state' = IF state = "up" THEN "connecting" ELSE state
  /\ pending' = TRUE /\ scheduled' = FALSE
  /\ handshake' = FALSE /\ heartbeat' = "off"

\* What many handlers do with a connection they cannot use: ask for another one.
GiveUpConnection == pending' = TRUE /\ scheduled' = FALSE /\ Close

PollFaulty ==
  /\ batch = <<>>
  /\ queue # <<>> \/ overflow
  /\ batch' = queue /\ queue' = <<>>
  /\ overflow' = FALSE
  /\ UNCHANGED <<closing, peer, sessionVars>>
  /\ UNCHANGED <<generation, worker, socket, connected, tcp>>

\* poll: an overflow is an error of the connection; then all callbacks are taken at once.
Poll ==
  /\ batch = <<>>
  /\ queue # <<>> \/ overflow
  /\ batch' = queue /\ queue' = <<>>
  /\ overflow' = FALSE
  /\ IF overflow THEN HandleTransportDisconnected /\ Close
                 ELSE UNCHANGED <<closing, peer, sessionVars>>
  /\ UNCHANGED <<generation, worker, socket, connected, tcp>>

\* The hello is sent over the socket there is by now, or the connection is given up.
OnConnected ==
  \/ /\ connected /\ tcp = "open"
     /\ handshake' = TRUE
     /\ peer' = IF peer = "waiting" THEN "greeted" ELSE peer
     /\ UNCHANGED <<closing, state, pending, scheduled, heartbeat>>
  \/ /\ pending' = TRUE
     /\ Close
     /\ UNCHANGED <<state, scheduled, handshake, heartbeat>>

\* The first message of a connection must be the hello_ack, and is refused otherwise. What
\* an established session makes of a message is left open, but that it may give up.
OnData(kind) ==
  IF state = "connecting"
    THEN IF kind = "ack"
           THEN /\ state' = "up" /\ handshake' = FALSE /\ heartbeat' = "armed"
                /\ UNCHANGED <<closing, peer, pending, scheduled>>
           ELSE Close /\ UNCHANGED sessionVars
    ELSE \/ UNCHANGED <<closing, peer, sessionVars>>
         \/ GiveUpConnection /\ UNCHANGED <<state, handshake, heartbeat>>

Run(kind) ==
  \/ kind = "connected" /\ OnConnected
  \/ /\ kind = "disconnected"
     /\ HandleTransportDisconnected /\ UNCHANGED <<closing, peer>>
  \/ kind \in {"broken", "failed"} /\ HandleTransportDisconnected /\ Close
  \/ /\ kind = "pong"
     /\ heartbeat' = IF heartbeat = "awaiting" THEN "armed" ELSE heartbeat
     /\ UNCHANGED <<closing, peer, state, pending, scheduled, handshake>>
  \/ kind \in {"ack", "data"} /\ OnData(kind)

WantedFaulty(entry) == ~(RequiresOpen(entry) /\ closing)

\* A callback of an older connection is dropped, and once a close was requested all but
\* the report that the connection is gone.
Wanted(entry) == entry.gen = generation /\ ~(RequiresOpen(entry) /\ closing)

\* The next callback of the batch.
Deliver ==
  /\ batch # <<>>
  /\ batch' = Tail(batch)
  /\ IF Wanted(Head(batch)) THEN Run(Head(batch).kind)
                            ELSE UNCHANGED <<closing, peer, sessionVars>>
  /\ UNCHANGED <<generation, worker, socket, connected, tcp, queueVars>>

\* The rest of update and of the worker's loop runs between two polls.
Looks == batch = <<>> /\ UNCHANGED <<batch, queueVars, socket, connected, tcp>>

\* A text or packet of an established session cannot be sent.
GiveUp ==
  /\ Looks
  /\ state = "up"
  /\ pending' = TRUE /\ scheduled' \in {scheduled, FALSE} /\ Close
  /\ UNCHANGED <<generation, worker, state, handshake, heartbeat>>

HandshakeExpires ==
  /\ Looks
  /\ handshake
  /\ handshake' = FALSE
  /\ GiveUpConnection
  /\ UNCHANGED <<generation, worker, state, heartbeat>>

SendPing ==
  /\ Looks
  /\ heartbeat = "armed"
  /\ heartbeat' = "awaiting"
  /\ UNCHANGED <<generation, closing, worker, peer, state, pending, scheduled, handshake>>

\* The first unanswered ping has waited 45 seconds.
HeartbeatExpires ==
  /\ Looks
  /\ heartbeat = "awaiting"
  /\ heartbeat' = "off"
  /\ GiveUpConnection
  /\ UNCHANGED <<generation, worker, state, handshake>>

\* The next back-off delay starts.
Schedule ==
  /\ Looks
  /\ pending /\ ~scheduled
  /\ scheduled' = TRUE
  /\ UNCHANGED <<generation, closing, worker, peer, state, pending, handshake, heartbeat>>

\* transport_.connect, once the previous worker has ended.
Connect ==
  /\ worker = "none" /\ generation < MaxGeneration
  /\ closing' = FALSE
  /\ generation' = generation + 1
  /\ worker' = "started"
  /\ pending' = FALSE

\* Without an address, or while a worker still runs, nothing is touched.
Refused == UNCHANGED <<closing, generation, worker>>

\* closeRequested_ is cleared before the thread's configuration is applied, and the
\* generation counted before the thread is created; either may fail.
NoThread ==
  /\ worker = "none"
  /\ closing' = FALSE
  /\ generation' \in {generation, generation + 1} /\ generation' <= MaxGeneration
  /\ UNCHANGED worker

\* To be tried again
NoConnect == pending' = TRUE /\ (Refused \/ NoThread)

WifiConnected ==
  /\ Looks
  /\ state = "wifi"
  /\ state' = "connecting"
  /\ scheduled' = FALSE
  /\ (Connect \/ NoConnect)
  /\ UNCHANGED <<peer, handshake, heartbeat>>

\* The delay is over and update calls reconnect.
DelayEnds ==
  /\ Looks
  /\ pending /\ scheduled
  /\ scheduled' = FALSE
  /\ UNCHANGED <<peer, state, handshake, heartbeat>>

Reconnects == DelayEnds /\ state = "connecting" /\ Connect

ReconnectFails == DelayEnds /\ state = "connecting" /\ NoConnect

\* reconnect refuses unless the session is connecting, and is asked again.
ReconnectRefused == DelayEnds /\ state # "connecting" /\ Refused /\ UNCHANGED pending

SessionNext ==
  \/ Poll \/ Deliver \/ GiveUp \/ HandshakeExpires \/ SendPing \/ HeartbeatExpires
  \/ Schedule \/ WifiConnected \/ Reconnects \/ ReconnectFails \/ ReconnectRefused

WorkerNext ==
  DropPrevious \/ CreateSocket \/ BeginConnect \/ Upgrade \/ UpgradeFails \/ WorkerEnds

ReceiveNext ==
  \/ ReceiveAck \/ ReceiveData \/ ReceivePong \/ ReceiveClose \/ ReceiveBroken
  \/ LoseTcp \/ Hang

Next == SessionNext \/ WorkerNext \/ ReceiveNext

Spec == Init /\ [][Next]_vars

\* The loop polls and runs callbacks; blocking calls of the worker time out; Wi-Fi connects.
\* Polls come between the looks at a timer, so its expiry is fair only in the strong sense.
\* The Bridge's address is found and a thread is there again and again. A Bridge that is
\* alive answers a close frame.
Fairness ==
  /\ WF_vars(Poll) /\ WF_vars(Deliver) /\ WF_vars(WorkerNext) /\ WF_vars(WifiConnected)
  /\ SF_vars(HandshakeExpires) /\ SF_vars(Schedule)
  /\ SF_vars(Reconnects) /\ SF_vars(Reconnects \/ ReconnectFails \/ ReconnectRefused)
  /\ WF_vars(peer \in Closing /\ ReceiveClose)

LiveSpec == Spec /\ Fairness

(***************************************************************************)
(* Properties.                                                             *)
(***************************************************************************)
OnTheWay(entries) ==
  \E i \in DOMAIN entries :
    entries[i].gen = generation /\ entries[i].kind \in {"disconnected", "broken"}

\* Between the socket's loss and the session's notice a report is on its way: in the
\* batch, in the queue, or as the overflow that stands for what the full queue dropped.
Reported ==
  state = "up" /\ (socket # generation \/ ~connected) =>
    OnTheWay(batch) \/ OnTheWay(queue) \/ overflow

\* A hello_ack establishes a session although another connection is already wanted.
EstablishesLate == state = "connecting" /\ state' = "up" /\ pending

\* A session never stays in a dead connection unnoticed (handleTransportDisconnected),
\* unless it began in one: connect clears closeRequested_ before it fails, and lets the
\* late hello_ack of the connection that was given up through.
LossIsReported == [][Reported => Reported' \/ EstablishesLate]_vars

\* Whatever happens to a connection, and whatever the queue drops, the device gets to
\* another one, unless the Bridge stays connected and silent or the loss of the socket
\* went unnoticed (LossIsReported).
Recovers ==
  (state # "up" \/ tcp # "open")
    ~> ((state = "up" /\ tcp = "open") \/ generation = MaxGeneration \/ ~Reported)

\* How far this attempt has come towards its hello_ack.
AckIn(entries) ==
  \E i \in DOMAIN entries : entries[i].gen = generation /\ entries[i].kind = "ack"

IsAsked == socket = generation /\ peer = "greeted" /\ tcp = "open"

IsDialing == worker \in {"started", "creating"} \/ (socket = generation /\ peer = "waiting")

Progress ==
  IF AckIn(batch) \/ AckIn(queue) THEN "answered"
  ELSE IF IsAsked THEN "asked"
  ELSE IF IsDialing THEN "dialing" ELSE "silent"

\* A session with a timer or a wish to reconnect left over counts as being given up.
IsLeaving == closing \/ pending \/ handshake \/ heartbeat = "off"

\* The connection that was given up may still be answered: its hello_ack is under way and
\* a failed connect has cleared closeRequested_.
IsAjar ==
  /\ ~closing
  /\ \/ AckIn(batch) \/ AckIn(queue)
     \/ socket = generation /\ peer \in {"greeted", "overdue"} /\ tcp = "open"

Stage ==
  CASE state = "wifi" -> "off"
    [] state = "up" -> IF IsLeaving THEN "leaving" ELSE "up"
    [] state = "connecting" ->
         IF ~closing /\ ~pending THEN Progress ELSE IF IsAjar THEN "ajar" ELSE "over"

LinkRefinement == INSTANCE BridgeLink WITH stage <- Stage, attempt <- generation

\* A session is established once per connection attempt, by the hello_ack of that attempt
\* and with nothing left over from an older one, and is over before the next attempt
\* (the onData callback, reconnect); only a failed connect lets an answer through that
\* comes too late, into a session that is to be left at once.
ImplementsLink == LinkRefinement!LinkSpec
=============================================================================
