-------------------------- MODULE FirmwareLinkProofs --------------------------
(***************************************************************************)
(* Proofs about FirmwareLink, for any number of connections and any length *)
(* of the queue: the loss of a session's connection is reported to it, no  *)
(* session is up but on its own connection's hello_ack, and the link       *)
(* implements BridgeLink.                                                  *)
(*                                                                         *)
(* The argument follows one connection: nothing of it is queued before its *)
(* worker has connected; its one "connected" is taken before the hello     *)
(* goes out, and so before its hello_ack arrives; after the report of its  *)
(* loss no hello_ack is queued; and from the greeting on, a socket that is *)
(* no longer connected has left a report, unless the connection has been   *)
(* given up. Connections that were given up and that a failing connect     *)
(* opens again are the exception both theorems name.                       *)
(***************************************************************************)
EXTENDS FirmwareLink, SequenceTheorems, TLAPS

Of(entry, gen, kind) == entry.gen = gen /\ entry.kind = kind

Has(entries, gen, kind) == \E i \in 1..Len(entries) : Of(entries[i], gen, kind)

Old(entries, gen) == \A i \in 1..Len(entries) : entries[i].gen <= gen

\* No acknowledgement follows the report that the connection is gone.
Ordered(entries, gen) ==
  \A i, j \in 1..Len(entries) :
    Of(entries[i], gen, "disconnected") /\ Of(entries[j], gen, "ack") => j < i

Unique(entries, gen) ==
  \A i, j \in 1..Len(entries) :
    Of(entries[i], gen, "connected") /\ Of(entries[j], gen, "connected") => i = j

(***************************************************************************)
(* What appending, taking and a new generation do to a queue.              *)
(***************************************************************************)
LEMMA HasAppended ==
  ASSUME NEW q \in Seq(Callback), NEW e \in Callback, NEW g, NEW k
  PROVE  Has(Append(q, e), g, k) <=> Has(q, g, k) \/ Of(e, g, k)
<1>1. /\ Len(Append(q, e)) = Len(q) + 1 /\ Append(q, e)[Len(q) + 1] = e
      /\ \A i \in 1..Len(q) : Append(q, e)[i] = q[i]
  OBVIOUS
<1>2. Len(q) \in Nat OBVIOUS
<1> QED BY <1>1, <1>2 DEF Has

LEMMA HasTaken ==
  ASSUME NEW q \in Seq(Callback), q # <<>>, NEW g, NEW k
  PROVE  Has(q, g, k) <=> Of(Head(q), g, k) \/ Has(Tail(q), g, k)
<1>1. /\ Len(Tail(q)) = Len(q) - 1 /\ Head(q) = q[1]
      /\ \A i \in 1..Len(Tail(q)) : Tail(q)[i] = q[i + 1]
  OBVIOUS
<1>2. Len(q) \in Nat \ {0} BY EmptySeq, LenProperties
<1>3. ASSUME NEW i \in 1..Len(q), Of(q[i], g, k) PROVE Of(Head(q), g, k) \/ Has(Tail(q), g, k)
  <2>1. CASE i = 1 BY <1>1, <1>3, <2>1
  <2>2. CASE i # 1
    <3>1. i - 1 \in 1..Len(Tail(q)) /\ Tail(q)[i - 1] = q[i] BY <1>1, <1>2, <2>2
    <3> QED BY <1>3, <3>1 DEF Has
  <2> QED BY <2>1, <2>2
<1>4. ASSUME NEW i \in 1..Len(Tail(q)), Of(Tail(q)[i], g, k) PROVE Has(q, g, k)
  <2>1. i + 1 \in 1..Len(q) /\ q[i + 1] = Tail(q)[i] BY <1>1, <1>2
  <2> QED BY <1>4, <2>1 DEF Has
<1>5. Of(Head(q), g, k) => Has(q, g, k) BY <1>1, <1>2 DEF Has
<1> QED BY <1>3, <1>4, <1>5 DEF Has

LEMMA OrderAppended ==
  ASSUME NEW q \in Seq(Callback), NEW e \in Callback, NEW g,
         Ordered(q, g), Of(e, g, "ack") => ~Has(q, g, "disconnected")
  PROVE  Ordered(Append(q, e), g)
<1>1. /\ Len(Append(q, e)) = Len(q) + 1 /\ Append(q, e)[Len(q) + 1] = e
      /\ \A i \in 1..Len(q) : Append(q, e)[i] = q[i]
  OBVIOUS
<1>2. Len(q) \in Nat OBVIOUS
<1>3. ~(Of(e, g, "ack") /\ Of(e, g, "disconnected")) BY DEF Of
<1> QED BY <1>1, <1>2, <1>3 DEF Ordered, Has

LEMMA OrderTaken ==
  ASSUME NEW q \in Seq(Callback), q # <<>>, NEW g, Ordered(q, g)
  PROVE  /\ Ordered(Tail(q), g)
         /\ Of(Head(q), g, "disconnected") => ~Has(Tail(q), g, "ack")
<1>1. /\ Len(Tail(q)) = Len(q) - 1 /\ Head(q) = q[1]
      /\ \A i \in 1..Len(Tail(q)) : Tail(q)[i] = q[i + 1]
  OBVIOUS
<1>2. Len(q) \in Nat \ {0} BY EmptySeq, LenProperties
<1>3. \A i \in 1..Len(Tail(q)) : i + 1 \in 1..Len(q) /\ i \in Int BY <1>1, <1>2
<1>4. Ordered(Tail(q), g)
  <2> SUFFICES ASSUME NEW i \in 1..Len(Tail(q)), NEW j \in 1..Len(Tail(q)),
                      Of(Tail(q)[i], g, "disconnected"), Of(Tail(q)[j], g, "ack")
               PROVE  j < i
    BY DEF Ordered
  <2>1. j + 1 < i + 1 BY <1>1, <1>3 DEF Ordered
  <2> QED BY <1>3, <2>1
<1>5. ASSUME Of(Head(q), g, "disconnected"), NEW j \in 1..Len(Tail(q)), Of(Tail(q)[j], g, "ack")
      PROVE  FALSE
  <2>1. j + 1 < 1 BY <1>1, <1>2, <1>3, <1>5 DEF Ordered
  <2> QED BY <1>1, <1>2, <2>1
<1> QED BY <1>4, <1>5 DEF Has

LEMMA UniqueAppended ==
  ASSUME NEW q \in Seq(Callback), NEW e \in Callback, NEW g,
         Unique(q, g), Of(e, g, "connected") => ~Has(q, g, "connected")
  PROVE  Unique(Append(q, e), g)
<1>1. /\ Len(Append(q, e)) = Len(q) + 1 /\ Append(q, e)[Len(q) + 1] = e
      /\ \A i \in 1..Len(q) : Append(q, e)[i] = q[i]
  OBVIOUS
<1>2. Len(q) \in Nat OBVIOUS
<1> QED BY <1>1, <1>2 DEF Unique, Has

LEMMA UniqueTaken ==
  ASSUME NEW q \in Seq(Callback), q # <<>>, NEW g, Unique(q, g)
  PROVE  /\ Unique(Tail(q), g)
         /\ Of(Head(q), g, "connected") => ~Has(Tail(q), g, "connected")
<1>1. /\ Len(Tail(q)) = Len(q) - 1 /\ Head(q) = q[1]
      /\ \A i \in 1..Len(Tail(q)) : Tail(q)[i] = q[i + 1]
  OBVIOUS
<1>2. Len(q) \in Nat \ {0} BY EmptySeq, LenProperties
<1>3. \A i \in 1..Len(Tail(q)) : i + 1 \in 1..Len(q) /\ i \in Int BY <1>1, <1>2
<1>4. Unique(Tail(q), g)
  <2> SUFFICES ASSUME NEW i \in 1..Len(Tail(q)), NEW j \in 1..Len(Tail(q)),
                      Of(Tail(q)[i], g, "connected"), Of(Tail(q)[j], g, "connected")
               PROVE  i = j
    BY DEF Unique
  <2>1. j + 1 = i + 1 BY <1>1, <1>3 DEF Unique
  <2> QED BY <1>3, <2>1
<1>5. ASSUME Of(Head(q), g, "connected"), NEW j \in 1..Len(Tail(q)), Of(Tail(q)[j], g, "connected")
      PROVE  FALSE
  <2>1. j + 1 = 1 BY <1>1, <1>2, <1>3, <1>5 DEF Unique
  <2> QED BY <1>1, <1>2, <2>1
<1> QED BY <1>4, <1>5 DEF Has

LEMMA OldAppended ==
  ASSUME NEW q \in Seq(Callback), NEW e \in Callback, NEW g, Old(q, g), e.gen <= g
  PROVE  Old(Append(q, e), g)
<1>1. /\ Len(Append(q, e)) = Len(q) + 1 /\ Append(q, e)[Len(q) + 1] = e
      /\ \A i \in 1..Len(q) : Append(q, e)[i] = q[i]
  OBVIOUS
<1>2. Len(q) \in Nat OBVIOUS
<1> QED BY <1>1, <1>2 DEF Old

LEMMA OldTaken ==
  ASSUME NEW q \in Seq(Callback), q # <<>>, NEW g, Old(q, g)
  PROVE  Old(Tail(q), g) /\ Head(q).gen <= g /\ Head(q) \in Callback /\ Tail(q) \in Seq(Callback)
<1>1. /\ Len(Tail(q)) = Len(q) - 1 /\ Head(q) = q[1]
      /\ \A i \in 1..Len(Tail(q)) : Tail(q)[i] = q[i + 1]
  OBVIOUS
<1>2. Len(q) \in Nat \ {0} BY EmptySeq, LenProperties
<1>3. \A i \in 1..Len(Tail(q)) : i + 1 \in 1..Len(q) BY <1>1, <1>2
<1> QED BY <1>1, <1>2, <1>3 DEF Old

\* Nothing of a new generation is on its way.
LEMMA NewGeneration ==
  ASSUME NEW q \in Seq(Callback), NEW g \in Nat, Old(q, g)
  PROVE  /\ \A k : ~Has(q, g + 1, k)
         /\ Old(q, g + 1) /\ Ordered(q, g + 1) /\ Unique(q, g + 1)
<1>1. ASSUME NEW i \in 1..Len(q)
      PROVE  q[i].gen <= g + 1 /\ \A k : ~Of(q[i], g + 1, k)
  <2>1. q[i] \in Callback BY ElementOfSeq
  <2>2. q[i].gen \in 1..MaxGeneration BY <2>1 DEF Callback
  <2>3. q[i].gen \in Int BY <2>2, GenerationAssumption
  <2>4. q[i].gen <= g BY DEF Old
  <2>5. q[i].gen # g + 1 /\ q[i].gen <= g + 1 BY <2>3, <2>4
  <2> QED BY <2>5 DEF Of
<1> QED BY <1>1 DEF Has, Old, Ordered, Unique

LEMMA NothingQueued ==
  ASSUME NEW g
  PROVE  /\ \A k : ~Has(<<>>, g, k)
         /\ Old(<<>>, g) /\ Ordered(<<>>, g) /\ Unique(<<>>, g)
<1>1. 1..Len(<<>>) = {} OBVIOUS
<1> QED BY <1>1 DEF Has, Old, Ordered, Unique

(***************************************************************************)
(* The inductive invariant.                                                *)
(***************************************************************************)
InBatch(kind) == Has(batch, generation, kind)
InQueue(kind) == Has(queue, generation, kind)
Coming(kind) == InBatch(kind) \/ InQueue(kind)
ReportComing == Coming("disconnected") \/ Coming("broken") \/ overflow
Acked == state = "up" \/ Coming("ack")

\* Entries of the current connection come in the order in which they were caused.
EntriesAreInOrder ==
  /\ Old(batch, generation) /\ Ordered(batch, generation) /\ Unique(batch, generation)
  /\ Old(queue, generation) /\ Ordered(queue, generation) /\ Unique(queue, generation)
  /\ ~(InBatch("connected") /\ InQueue("connected"))
  /\ ~(InBatch("disconnected") /\ InQueue("ack"))

\* What the socket and the session's state say of the generation. A connect that fails may
\* count a generation for which nothing happens.
SocketIsKnown ==
  /\ socket <= generation
  /\ state = "wifi" => generation = 0
  /\ state = "up" => generation # 0
  /\ worker # "none" => generation # 0
  /\ socket = 0 => ~connected /\ tcp = "none" /\ peer = "waiting"
  /\ socket \notin {0, generation} =>
       worker \in {"none", "started"} /\ state # "up" /\ \A kind \in Kind : ~Coming(kind)

\* Until the worker has connected, nothing of its connection has happened.
WorkerIsFirst ==
  /\ worker \in {"started", "creating"} => socket # generation
  /\ worker \in {"started", "creating", "created"} => \A kind \in Kind : ~Coming(kind)
  /\ worker = "creating" => socket = 0
  /\ worker \in {"created", "connecting"} => socket = generation
  /\ worker \in {"created", "connecting", "failed"} /\ socket = generation =>
       ~connected /\ peer \in {"waiting", "gone"}
  /\ worker = "created" => peer = "waiting" /\ tcp = "none"
  /\ worker = "connecting" => ~Coming("connected")

\* The hello is sent, and answered, after the worker's part is over.
AfterUpgrade ==
  (socket = generation /\ peer \in {"greeted", "ready", "hung"} \cup Closing) \/ Acked
    \/ Coming("connected")
      => worker \in {"none", "returned"}

\* The acknowledgement answers a hello, and the hello the one report of the connection.
AckAfterGreeting ==
  /\ (socket = generation /\ peer \in {"greeted", "overdue", "ready", "hung"}) \/ Acked =>
       ~Coming("connected")
  /\ Acked /\ socket = generation =>
       /\ peer \notin {"waiting", "greeted", "overdue"}
       /\ connected => tcp = "open"

\* After a reported loss no acknowledgement comes. A close frame has been sent only once a
\* close was requested, which a failing connect may have forgotten.
LossIsFinal ==
  /\ Coming("disconnected") /\ socket = generation => peer = "gone" \/ tcp # "open"
  /\ socket = generation /\ peer \in Closing => closing \/ pending

\* A connection the session is about to use is not lost without a report.
LossLeavesReport ==
  ~closing /\ ~pending =>
    /\ Coming("ack") /\ (socket # generation \/ ~connected) => ReportComing
    /\ socket = generation /\ peer = "greeted" /\ tcp = "open" /\ ~connected => ReportComing

\* No timer is left over in an established session that is to stay.
UpIsClean == state = "up" => closing \/ pending \/ (~handshake /\ heartbeat # "off")

IInv ==
  /\ TypeOK /\ EntriesAreInOrder /\ SocketIsKnown /\ WorkerIsFirst /\ AfterUpgrade
  /\ AckAfterGreeting /\ LossIsFinal /\ LossLeavesReport /\ UpIsClean

\* enqueueCallback leaves the callback in the queue or the overflow, and all else in place.
LEMMA EnqueueFacts ==
  ASSUME TypeOK, NEW gen \in 1..MaxGeneration, NEW kind \in Kind, Enqueue(gen, kind)
  PROVE  /\ queue' \in Seq(Callback) /\ Len(queue') <= QueueLimit
         /\ overflow' \in BOOLEAN /\ (overflow => overflow')
         /\ \A g, k : Has(queue', g, k) => Has(queue, g, k) \/ (g = gen /\ k = kind)
         /\ \A g, k : Has(queue, g, k) => Has(queue', g, k)
         /\ Has(queue', gen, kind) \/ overflow'
         /\ \A g : Old(queue, g) /\ gen <= g => Old(queue', g)
         /\ \A g : Ordered(queue, g) /\ (g = gen /\ kind = "ack" => ~Has(queue, g, "disconnected"))
                     => Ordered(queue', g)
         /\ \A g : Unique(queue, g) /\ (g = gen /\ kind = "connected" => ~Has(queue, g, "connected"))
                     => Unique(queue', g)
<1> DEFINE e == [gen |-> gen, kind |-> kind]
<1>1. e \in Callback BY DEF Callback
<1>2. \A g, k : Of(e, g, k) <=> g = gen /\ k = kind BY DEF Of
<1>3. e.gen = gen OBVIOUS
<1> HIDE DEF e
<1>4. CASE Len(queue) < QueueLimit
  <2>1. queue' = Append(queue, e) /\ overflow' = overflow BY <1>4 DEF Enqueue, e
  <2>2. queue \in Seq(Callback) BY DEF TypeOK
  <2>3. queue' \in Seq(Callback) BY <1>1, <2>1, <2>2
  <2>4. Len(queue') = Len(queue) + 1 BY <2>1, <2>2
  <2>5. Len(queue') <= QueueLimit BY <1>4, <2>2, <2>4, QueueAssumption
  <2>6. \A g, k : Has(queue', g, k) <=> Has(queue, g, k) \/ (g = gen /\ k = kind)
    BY <1>1, <1>2, <2>1, <2>2, HasAppended
  <2>7. \A g : Old(queue, g) /\ gen <= g => Old(queue', g) BY <1>1, <1>3, <2>1, <2>2, OldAppended
  <2>8. \A g : Ordered(queue, g) /\ (g = gen /\ kind = "ack" => ~Has(queue, g, "disconnected"))
                 => Ordered(queue', g)
    BY <1>1, <1>2, <2>1, <2>2, OrderAppended
  <2>9. \A g : Unique(queue, g) /\ (g = gen /\ kind = "connected" => ~Has(queue, g, "connected"))
                 => Unique(queue', g)
    BY <1>1, <1>2, <2>1, <2>2, UniqueAppended
  <2>10. overflow' \in BOOLEAN /\ (overflow => overflow') BY <2>1 DEF TypeOK
  <2> QED BY <2>3, <2>5, <2>6, <2>7, <2>8, <2>9, <2>10, Zenon
<1>5. CASE ~(Len(queue) < QueueLimit)
  <2>1. overflow' = TRUE /\ queue' = queue BY <1>5 DEF Enqueue
  <2> QED BY <2>1 DEF TypeOK
<1> QED BY <1>4, <1>5

\* What a request to close may do to the Bridge's part of the connection.
Closes ==
  /\ peer' \in {peer} \cup Closing
  /\ peer' # peer =>
       /\ connected /\ tcp = "open" /\ peer \in {"waiting", "greeted", "ready"}
       /\ peer' = "overdue" <=> peer = "greeted"

LEMMA Initially == Init => IInv
<1> SUFFICES ASSUME Init PROVE IInv OBVIOUS
<1>1. TypeOK
  <2>1. /\ queue \in Seq(Callback) /\ Len(queue) <= QueueLimit
        /\ batch \in Seq(Callback)
    BY QueueAssumption DEF Init
  <2>2. generation \in 0..MaxGeneration /\ socket \in 0..MaxGeneration
    BY GenerationAssumption DEF Init
  <2> QED BY <2>1, <2>2, Zenon DEF Init, TypeOK
<1>2. /\ \A k : ~InBatch(k) /\ ~InQueue(k)
      /\ EntriesAreInOrder
  BY NothingQueued DEF Init, InBatch, InQueue, EntriesAreInOrder
<1>3. ~connected /\ ~closing /\ ~pending BY DEF Init
<1> QED BY <1>1, <1>2, <1>3
    DEF Init, IInv, Coming, ReportComing, Acked, SocketIsKnown, WorkerIsFirst, AfterUpgrade,
        AckAfterGreeting, LossIsFinal, LossLeavesReport, UpIsClean, Closing

LEMMA SameEntries ==
  ASSUME IInv, UNCHANGED <<generation, batch, queueVars>>
  PROVE  /\ EntriesAreInOrder'
         /\ \A k : Coming(k)' <=> Coming(k)
         /\ ReportComing' <=> ReportComing
BY DEF IInv, queueVars, EntriesAreInOrder, InBatch, InQueue, Coming, ReportComing

LEMMA OneMoreEntry ==
  ASSUME IInv, UNCHANGED <<generation, batch>>,
         NEW gen \in 1..MaxGeneration, gen <= generation, NEW kind \in Kind,
         Enqueue(gen, kind),
         gen = generation /\ kind = "ack" => ~Coming("disconnected"),
         gen = generation /\ kind = "connected" => ~Coming("connected")
  PROVE  /\ queue' \in Seq(Callback) /\ Len(queue') <= QueueLimit /\ overflow' \in BOOLEAN
         /\ EntriesAreInOrder'
         /\ \A k : Coming(k) => Coming(k)'
         /\ \A k : Coming(k)' => Coming(k) \/ (gen = generation /\ k = kind)
         /\ ReportComing => ReportComing'
         /\ gen = generation /\ kind \in {"disconnected", "broken"} => ReportComing'
<1>1. /\ queue' \in Seq(Callback) /\ Len(queue') <= QueueLimit /\ overflow' \in BOOLEAN
      /\ overflow => overflow'
      /\ \A k : InQueue(k)' => InQueue(k) \/ (gen = generation /\ k = kind)
      /\ \A k : InQueue(k) => InQueue(k)'
      /\ gen = generation => InQueue(kind)' \/ overflow'
      /\ Old(queue', generation) /\ Ordered(queue', generation) /\ Unique(queue', generation)
  BY EnqueueFacts DEF IInv, InQueue, Coming, EntriesAreInOrder
<1>2. \A k : InBatch(k)' <=> InBatch(k) BY DEF InBatch
<1>3. EntriesAreInOrder' BY <1>1, <1>2 DEF IInv, EntriesAreInOrder, Coming
<1> QED BY <1>1, <1>2, <1>3 DEF Coming, ReportComing

LEMMA SocketDropped ==
  ASSUME DropSocket
  PROVE  /\ ~connected' /\ connected' \in BOOLEAN
         /\ socket' = 0 /\ socket' \in 0..MaxGeneration
<1>1. ~connected' /\ connected' \in BOOLEAN BY Zenon DEF DropSocket
<1>2. socket' = 0 BY DEF DropSocket
<1> QED BY <1>1, <1>2, GenerationAssumption

(***************************************************************************)
(* Every step preserves the invariant.                                     *)
(***************************************************************************)
LEMMA CreateSocketStep == IInv /\ CreateSocket => IInv'
<1> SUFFICES ASSUME IInv, CreateSocket PROVE IInv' OBVIOUS
<1> USE DEF CreateSocket
<1>1. /\ EntriesAreInOrder'
      /\ \A k : Coming(k)' <=> Coming(k)
      /\ ReportComing' <=> ReportComing
  BY SameEntries
<1>2. TypeOK' BY DEF IInv, TypeOK, queueVars, sessionVars, timerVars
<1> QED
  BY <1>1, <1>2
     DEF IInv, TypeOK, SocketIsKnown, WorkerIsFirst, AfterUpgrade, AckAfterGreeting, Acked,
         LossIsFinal, LossLeavesReport, UpIsClean, Closing, queueVars, sessionVars, timerVars

LEMMA BeginConnectStep == IInv /\ BeginConnect => IInv'
<1> SUFFICES ASSUME IInv, BeginConnect PROVE IInv' OBVIOUS
<1> USE DEF BeginConnect
<1>1. /\ EntriesAreInOrder'
      /\ \A k : Coming(k)' <=> Coming(k)
      /\ ReportComing' <=> ReportComing
  BY SameEntries
<1>2. TypeOK' BY DEF IInv, TypeOK, Kind, queueVars, sessionVars, timerVars
<1> QED
  BY <1>1, <1>2
     DEF IInv, TypeOK, SocketIsKnown, WorkerIsFirst, AfterUpgrade, AckAfterGreeting, Acked,
         LossIsFinal, LossLeavesReport, UpIsClean, Closing, Kind, queueVars, sessionVars, timerVars

LEMMA UpgradeFailsStep == IInv /\ UpgradeFails => IInv'
<1> SUFFICES ASSUME IInv, UpgradeFails PROVE IInv' OBVIOUS
<1> USE DEF UpgradeFails
<1>1. /\ EntriesAreInOrder'
      /\ \A k : Coming(k)' <=> Coming(k)
      /\ ReportComing' <=> ReportComing
  BY SameEntries
<1>2. TypeOK' BY DEF IInv, TypeOK, queueVars, socketVars, sessionVars, timerVars
<1> QED
  BY <1>1, <1>2
     DEF IInv, TypeOK, SocketIsKnown, WorkerIsFirst, AfterUpgrade, AckAfterGreeting, Acked,
         LossIsFinal, LossLeavesReport, UpIsClean, Closing, queueVars, socketVars, sessionVars,
         timerVars

LEMMA DropPreviousStep == IInv /\ DropPrevious => IInv'
<1> SUFFICES ASSUME IInv, DropPrevious PROVE IInv' OBVIOUS
<1> USE DEF DropPrevious
<1>1. /\ ReportsLoss => socket \in 1..MaxGeneration
      /\ socket # generation /\ socket <= generation
  BY GenerationAssumption DEF IInv, TypeOK, SocketIsKnown, WorkerIsFirst, ReportsLoss
<1>2. /\ queue' \in Seq(Callback) /\ Len(queue') <= QueueLimit /\ overflow' \in BOOLEAN
      /\ EntriesAreInOrder'
      /\ \A k : Coming(k) => Coming(k)'
      /\ \A k : Coming(k)' => Coming(k) \/ (ReportsLoss /\ socket = generation /\ k = "disconnected")
      /\ ReportComing => ReportComing'
      /\ ReportsLoss /\ socket = generation => ReportComing'
  <2>1. CASE ReportsLoss
    <3>1. Enqueue(socket, "disconnected") BY <2>1 DEF EnqueueIf
    <3> QED BY <1>1, <2>1, <3>1, OneMoreEntry DEF Kind
  <2>2. CASE ~(ReportsLoss)
    <3>1. UNCHANGED <<generation, batch, queueVars>> BY <2>2 DEF EnqueueIf
    <3> QED BY <2>2, <3>1, SameEntries DEF IInv, TypeOK, queueVars
  <2> QED BY <2>1, <2>2
<1>3. TypeOK'
  <2>1. connected' \in BOOLEAN /\ socket' \in 0..MaxGeneration
    BY SocketDropped
  <2> QED BY <1>2, <2>1 DEF IInv, TypeOK, DropSocket, sessionVars, timerVars
<1>4. ~connected' BY SocketDropped
<1> QED
  BY <1>1, <1>2, <1>3, <1>4
     DEF IInv, TypeOK, SocketIsKnown, WorkerIsFirst, AfterUpgrade, AckAfterGreeting, Acked,
         LossIsFinal, LossLeavesReport, UpIsClean, Closing, DropSocket, sessionVars, timerVars

LEMMA UpgradeStep == IInv /\ Upgrade => IInv'
<1> SUFFICES ASSUME IInv, Upgrade PROVE IInv' OBVIOUS
<1> USE DEF Upgrade
<1>1. socket = generation /\ socket \in 1..MaxGeneration /\ ~Coming("connected")
  BY GenerationAssumption DEF IInv, TypeOK, SocketIsKnown, WorkerIsFirst
<1>2. /\ queue' \in Seq(Callback) /\ Len(queue') <= QueueLimit /\ overflow' \in BOOLEAN
      /\ EntriesAreInOrder'
      /\ \A k : Coming(k) => Coming(k)'
      /\ \A k : Coming(k)' => Coming(k) \/ (socket = generation /\ k = "connected")
      /\ ReportComing => ReportComing'
  BY <1>1, OneMoreEntry DEF Kind
<1>3. TypeOK' BY <1>2 DEF IInv, TypeOK, sessionVars, timerVars
<1> QED
  BY <1>1, <1>2, <1>3
     DEF IInv, TypeOK, SocketIsKnown, WorkerIsFirst, AfterUpgrade, AckAfterGreeting, Acked,
         LossIsFinal, LossLeavesReport, UpIsClean, Closing, sessionVars, timerVars

LEMMA ReceiveAckStep == IInv /\ ReceiveAck => IInv'
<1> SUFFICES ASSUME IInv, ReceiveAck PROVE IInv' OBVIOUS
<1> USE DEF ReceiveAck
<1>1. /\ socket \in 1..MaxGeneration /\ socket <= generation
      /\ generation = socket /\ ~closing => ~Coming("disconnected")
  BY GenerationAssumption DEF IInv, TypeOK, SocketIsKnown, LossIsFinal, Receives
<1>2. /\ queue' \in Seq(Callback) /\ Len(queue') <= QueueLimit /\ overflow' \in BOOLEAN
      /\ EntriesAreInOrder'
      /\ \A k : Coming(k) => Coming(k)'
      /\ \A k : Coming(k)' => Coming(k) \/ ((generation = socket /\ ~closing) /\ socket = generation /\ k = "ack")
      /\ ReportComing => ReportComing'
  <2>1. CASE (generation = socket /\ ~closing)
    <3>1. Enqueue(socket, "ack") BY <2>1 DEF EnqueueIf, Receives, EnqueueMessage
    <3> QED BY <1>1, <2>1, <3>1, OneMoreEntry DEF Kind, Receives, EnqueueMessage
  <2>2. CASE ~((generation = socket /\ ~closing))
    <3>1. UNCHANGED <<generation, batch, queueVars>> BY <2>2
        DEF EnqueueIf, Receives, EnqueueMessage
    <3> QED BY <2>2, <3>1, SameEntries DEF IInv, TypeOK, queueVars
  <2> QED BY <2>1, <2>2
<1>3. TypeOK' BY <1>2 DEF IInv, TypeOK, Closing, Receives, sessionVars, timerVars
<1> QED
  BY <1>1, <1>2, <1>3
     DEF IInv, TypeOK, SocketIsKnown, WorkerIsFirst, AfterUpgrade, AckAfterGreeting, Acked,
         LossIsFinal, LossLeavesReport, UpIsClean, Closing, Receives, sessionVars, timerVars

LEMMA ReceiveDataStep == IInv /\ ReceiveData => IInv'
<1> SUFFICES ASSUME IInv, ReceiveData PROVE IInv' OBVIOUS
<1> USE DEF ReceiveData
<1>1. socket \in 1..MaxGeneration /\ socket <= generation
  BY GenerationAssumption DEF IInv, TypeOK, SocketIsKnown, Receives
<1>2. /\ queue' \in Seq(Callback) /\ Len(queue') <= QueueLimit /\ overflow' \in BOOLEAN
      /\ EntriesAreInOrder'
      /\ \A k : Coming(k) => Coming(k)'
      /\ \A k : Coming(k)' => Coming(k) \/ ((generation = socket /\ ~closing) /\ socket = generation /\ k = "data")
      /\ ReportComing => ReportComing'
  <2>1. CASE (generation = socket /\ ~closing)
    <3>1. Enqueue(socket, "data") BY <2>1 DEF EnqueueIf, Receives, EnqueueMessage
    <3> QED BY <1>1, <2>1, <3>1, OneMoreEntry DEF Kind, Receives, EnqueueMessage
  <2>2. CASE ~((generation = socket /\ ~closing))
    <3>1. UNCHANGED <<generation, batch, queueVars>> BY <2>2
        DEF EnqueueIf, Receives, EnqueueMessage
    <3> QED BY <2>2, <3>1, SameEntries DEF IInv, TypeOK, queueVars
  <2> QED BY <2>1, <2>2
<1>3. TypeOK' BY <1>2 DEF IInv, TypeOK, Receives, sessionVars, timerVars
<1> QED
  BY <1>1, <1>2, <1>3
     DEF IInv, TypeOK, SocketIsKnown, WorkerIsFirst, AfterUpgrade, AckAfterGreeting, Acked,
         LossIsFinal, LossLeavesReport, UpIsClean, Closing, Receives, sessionVars, timerVars

LEMMA ReceivePongStep == IInv /\ ReceivePong => IInv'
<1> SUFFICES ASSUME IInv, ReceivePong PROVE IInv' OBVIOUS
<1> USE DEF ReceivePong
<1>1. socket \in 1..MaxGeneration /\ socket <= generation
  BY GenerationAssumption DEF IInv, TypeOK, SocketIsKnown, Receives
<1>2. /\ queue' \in Seq(Callback) /\ Len(queue') <= QueueLimit /\ overflow' \in BOOLEAN
      /\ EntriesAreInOrder'
      /\ \A k : Coming(k) => Coming(k)'
      /\ \A k : Coming(k)' => Coming(k) \/ (socket = generation /\ k = "pong")
      /\ ReportComing => ReportComing'
  BY <1>1, OneMoreEntry DEF Kind, Receives
<1>3. TypeOK' BY <1>2 DEF IInv, TypeOK, Receives, sessionVars, timerVars
<1> QED
  BY <1>1, <1>2, <1>3
     DEF IInv, TypeOK, SocketIsKnown, WorkerIsFirst, AfterUpgrade, AckAfterGreeting, Acked,
         LossIsFinal, LossLeavesReport, UpIsClean, Closing, Receives, sessionVars, timerVars

LEMMA ReceiveCloseStep == IInv /\ ReceiveClose => IInv'
<1> SUFFICES ASSUME IInv, ReceiveClose PROVE IInv' OBVIOUS
<1> USE DEF ReceiveClose
<1>1. socket \in 1..MaxGeneration /\ socket <= generation
  BY GenerationAssumption DEF IInv, TypeOK, SocketIsKnown, Receives
<1>2. /\ queue' \in Seq(Callback) /\ Len(queue') <= QueueLimit /\ overflow' \in BOOLEAN
      /\ EntriesAreInOrder'
      /\ \A k : Coming(k) => Coming(k)'
      /\ \A k : Coming(k)' => Coming(k) \/ (socket = generation /\ k = "disconnected")
      /\ ReportComing => ReportComing'
      /\ socket = generation => ReportComing'
  BY <1>1, OneMoreEntry DEF Kind, Receives
<1>3. TypeOK' BY <1>2, ZenonT(40) DEF IInv, TypeOK, Receives, sessionVars, timerVars
<1>4. ~connected' BY Zenon
<1> QED
  BY <1>1, <1>2, <1>3, <1>4
     DEF IInv, TypeOK, SocketIsKnown, WorkerIsFirst, AfterUpgrade, AckAfterGreeting, Acked,
         LossIsFinal, LossLeavesReport, UpIsClean, Closing, Receives, sessionVars, timerVars

LEMMA ReceiveBrokenStep == IInv /\ ReceiveBroken => IInv'
<1> SUFFICES ASSUME IInv, ReceiveBroken PROVE IInv' OBVIOUS
<1> USE DEF ReceiveBroken
<1>1. socket \in 1..MaxGeneration /\ socket <= generation
  BY GenerationAssumption DEF IInv, TypeOK, SocketIsKnown, Receives
<1>2. /\ queue' \in Seq(Callback) /\ Len(queue') <= QueueLimit /\ overflow' \in BOOLEAN
      /\ EntriesAreInOrder'
      /\ \A k : Coming(k) => Coming(k)'
      /\ \A k : Coming(k)' => Coming(k) \/ (socket = generation /\ k = "broken")
      /\ ReportComing => ReportComing'
      /\ socket = generation => ReportComing'
  BY <1>1, OneMoreEntry DEF Kind, Receives
<1>3. TypeOK' BY <1>2, ZenonT(40) DEF IInv, TypeOK, Receives, sessionVars, timerVars
<1>4. ~connected' BY Zenon
<1> QED
  BY <1>1, <1>2, <1>3, <1>4
     DEF IInv, TypeOK, SocketIsKnown, WorkerIsFirst, AfterUpgrade, AckAfterGreeting, Acked,
         LossIsFinal, LossLeavesReport, UpIsClean, Closing, Receives, sessionVars, timerVars

LEMMA LoseTcpStep == IInv /\ LoseTcp => IInv'
<1> SUFFICES ASSUME IInv, LoseTcp PROVE IInv' OBVIOUS
<1> USE DEF LoseTcp
<1>1. socket \in 1..MaxGeneration /\ socket <= generation
  BY GenerationAssumption DEF IInv, TypeOK, SocketIsKnown, Receives
<1>2. /\ queue' \in Seq(Callback) /\ Len(queue') <= QueueLimit /\ overflow' \in BOOLEAN
      /\ EntriesAreInOrder'
      /\ \A k : Coming(k) => Coming(k)'
      /\ \A k : Coming(k)' => Coming(k) \/ (connected /\ socket = generation /\ k = "disconnected")
      /\ ReportComing => ReportComing'
      /\ connected /\ socket = generation => ReportComing'
  <2>1. CASE connected
    <3>1. Enqueue(socket, "disconnected") BY <2>1 DEF EnqueueIf, Receives
    <3> QED BY <1>1, <2>1, <3>1, OneMoreEntry DEF Kind, Receives
  <2>2. CASE ~(connected)
    <3>1. UNCHANGED <<generation, batch, queueVars>> BY <2>2 DEF EnqueueIf, Receives
    <3> QED BY <2>2, <3>1, SameEntries DEF IInv, TypeOK, queueVars
  <2> QED BY <2>1, <2>2
<1>3. TypeOK'
  <2>1. connected' \in BOOLEAN BY Zenon
  <2> QED BY <1>2, <2>1 DEF IInv, TypeOK, Receives, sessionVars, timerVars
<1>4. ~connected' BY Zenon
<1> QED
  BY <1>1, <1>2, <1>3, <1>4
     DEF IInv, TypeOK, SocketIsKnown, WorkerIsFirst, AfterUpgrade, AckAfterGreeting, Acked,
         LossIsFinal, LossLeavesReport, UpIsClean, Closing, Receives, sessionVars, timerVars

LEMMA WorkerEndsStep == IInv /\ WorkerEnds => IInv'
<1> SUFFICES ASSUME IInv, WorkerEnds PROVE IInv' OBVIOUS
<1> USE DEF WorkerEnds
<1>1. /\ generation \in 1..MaxGeneration
      /\ connected => socket \in 1..MaxGeneration
      /\ socket <= generation
  BY GenerationAssumption DEF IInv, TypeOK, SocketIsKnown
<1>2. /\ queue' \in Seq(Callback) /\ Len(queue') <= QueueLimit /\ overflow' \in BOOLEAN
      /\ EntriesAreInOrder'
      /\ \A k : Coming(k) => Coming(k)'
      /\ \A k : Coming(k)' => Coming(k) \/ k \in {"disconnected", "failed"}
      /\ \A k : Coming(k)' => Coming(k) \/ closing \/ k = "failed"
      /\ ReportComing => ReportComing'
      /\ closing /\ ReportsLoss /\ socket = generation => ReportComing'
  <2>1. CASE worker = "failed" /\ ~closing
    <3>1. Enqueue(generation, "failed") BY <2>1
    <3> QED BY <1>1, <2>1, <3>1, OneMoreEntry DEF Kind
  <2>2. CASE ~(worker = "failed" /\ ~closing) /\ closing /\ ReportsLoss
    <3>1. Enqueue(socket, "disconnected") BY <2>2 DEF EnqueueIf
    <3>2. socket \in 1..MaxGeneration BY <1>1, <2>2 DEF ReportsLoss
    <3> QED BY <1>1, <2>2, <3>1, <3>2, OneMoreEntry DEF Kind
  <2>3. CASE ~(worker = "failed" /\ ~closing) /\ ~(closing /\ ReportsLoss)
    <3>1. UNCHANGED <<generation, batch, queueVars>> BY <2>3 DEF EnqueueIf
    <3> QED BY <2>3, <3>1, SameEntries DEF IInv, TypeOK, queueVars
  <2> QED BY <2>1, <2>2, <2>3
<1>3. \/ /\ worker = "failed" \/ closing
         /\ ~connected' /\ connected' \in BOOLEAN
         /\ socket' = 0 /\ socket' \in 0..MaxGeneration /\ tcp' = "none" /\ peer' = "waiting"
      \/ worker = "returned" /\ ~closing /\ UNCHANGED socketVars
  <2>1. CASE worker = "failed" \/ closing
    <3>1. DropSocket BY <2>1
    <3> QED BY <2>1, <3>1, SocketDropped DEF DropSocket
  <2>2. CASE ~(worker = "failed" \/ closing)
    BY <2>2
  <2> QED BY <2>1, <2>2
<1>4. TypeOK' BY <1>2, <1>3 DEF IInv, TypeOK, socketVars, sessionVars, timerVars
<1> QED
  BY <1>1, <1>2, <1>3, <1>4
     DEF IInv, TypeOK, SocketIsKnown, WorkerIsFirst, AfterUpgrade, AckAfterGreeting, Acked,
         LossIsFinal, LossLeavesReport, UpIsClean, Closing, ReportsLoss, socketVars, sessionVars,
         timerVars

LEMMA HangStep == IInv /\ Hang => IInv'
<1> SUFFICES ASSUME IInv, Hang PROVE IInv' OBVIOUS
<1> USE DEF Hang
<1>1. /\ EntriesAreInOrder'
      /\ \A k : Coming(k)' <=> Coming(k)
      /\ ReportComing' <=> ReportComing
  BY SameEntries DEF Receives, queueVars
<1>2. TypeOK' BY DEF IInv, TypeOK, Receives, sessionVars, timerVars, queueVars
<1> QED
  BY <1>1, <1>2
     DEF IInv, TypeOK, SocketIsKnown, WorkerIsFirst, AfterUpgrade, AckAfterGreeting, Acked,
         LossIsFinal, LossLeavesReport, UpIsClean, Closing, Receives, sessionVars, timerVars,
         queueVars

LEMMA GiveUpStep == IInv /\ GiveUp => IInv'
<1> SUFFICES ASSUME IInv, GiveUp PROVE IInv' OBVIOUS
<1> USE DEF GiveUp
<1>1. /\ EntriesAreInOrder'
      /\ \A k : Coming(k)' <=> Coming(k)
      /\ ReportComing' <=> ReportComing
  BY SameEntries DEF Looks, queueVars
<1>2. TypeOK'
  <2>1. scheduled' \in BOOLEAN /\ pending' \in BOOLEAN /\ closing' \in BOOLEAN
    BY Zenon DEF IInv, TypeOK, Close
  <2>2. peer' \in {peer} \cup Closing BY DEF Close, Closing
  <2>3. UNCHANGED <<generation, worker, socket, connected, tcp, queue, overflow, batch, state,
                    handshake, heartbeat>>
    BY DEF Looks, queueVars
  <2> QED BY <2>1, <2>2, <2>3 DEF IInv, TypeOK
<1> QED
  BY <1>1, <1>2
     DEF IInv, TypeOK, SocketIsKnown, WorkerIsFirst, AfterUpgrade, AckAfterGreeting, Acked,
         LossIsFinal, LossLeavesReport, UpIsClean, Closing, Looks, queueVars, timerVars, sessionVars,
         Close

LEMMA HandshakeExpiresStep == IInv /\ HandshakeExpires => IInv'
<1> SUFFICES ASSUME IInv, HandshakeExpires PROVE IInv' OBVIOUS
<1> USE DEF HandshakeExpires
<1>1. /\ EntriesAreInOrder'
      /\ \A k : Coming(k)' <=> Coming(k)
      /\ ReportComing' <=> ReportComing
  BY SameEntries DEF Looks, queueVars
<1>2. TypeOK' BY
    DEF IInv, TypeOK, Looks, queueVars, timerVars, sessionVars, GiveUpConnection, Close, Closing
<1> QED
  BY <1>1, <1>2
     DEF IInv, TypeOK, SocketIsKnown, WorkerIsFirst, AfterUpgrade, AckAfterGreeting, Acked,
         LossIsFinal, LossLeavesReport, UpIsClean, Closing, Looks, queueVars, timerVars, sessionVars,
         GiveUpConnection, Close

LEMMA SendPingStep == IInv /\ SendPing => IInv'
<1> SUFFICES ASSUME IInv, SendPing PROVE IInv' OBVIOUS
<1> USE DEF SendPing
<1>1. /\ EntriesAreInOrder'
      /\ \A k : Coming(k)' <=> Coming(k)
      /\ ReportComing' <=> ReportComing
  BY SameEntries DEF Looks, queueVars
<1>2. TypeOK' BY DEF IInv, TypeOK, Looks, queueVars, timerVars, sessionVars
<1> QED
  BY <1>1, <1>2
     DEF IInv, TypeOK, SocketIsKnown, WorkerIsFirst, AfterUpgrade, AckAfterGreeting, Acked,
         LossIsFinal, LossLeavesReport, UpIsClean, Closing, Looks, queueVars, timerVars, sessionVars

LEMMA HeartbeatExpiresStep == IInv /\ HeartbeatExpires => IInv'
<1> SUFFICES ASSUME IInv, HeartbeatExpires PROVE IInv' OBVIOUS
<1> USE DEF HeartbeatExpires
<1>1. /\ EntriesAreInOrder'
      /\ \A k : Coming(k)' <=> Coming(k)
      /\ ReportComing' <=> ReportComing
  BY SameEntries DEF Looks, queueVars
<1>2. TypeOK' BY
    DEF IInv, TypeOK, Looks, queueVars, timerVars, sessionVars, GiveUpConnection, Close, Closing
<1> QED
  BY <1>1, <1>2
     DEF IInv, TypeOK, SocketIsKnown, WorkerIsFirst, AfterUpgrade, AckAfterGreeting, Acked,
         LossIsFinal, LossLeavesReport, UpIsClean, Closing, Looks, queueVars, timerVars, sessionVars,
         GiveUpConnection, Close

LEMMA ScheduleStep == IInv /\ Schedule => IInv'
<1> SUFFICES ASSUME IInv, Schedule PROVE IInv' OBVIOUS
<1> USE DEF Schedule
<1>1. /\ EntriesAreInOrder'
      /\ \A k : Coming(k)' <=> Coming(k)
      /\ ReportComing' <=> ReportComing
  BY SameEntries DEF Looks, queueVars
<1>2. TypeOK' BY DEF IInv, TypeOK, Looks, queueVars, timerVars, sessionVars
<1> QED
  BY <1>1, <1>2
     DEF IInv, TypeOK, SocketIsKnown, WorkerIsFirst, AfterUpgrade, AckAfterGreeting, Acked,
         LossIsFinal, LossLeavesReport, UpIsClean, Closing, Looks, queueVars, timerVars, sessionVars

LEMMA ConnectStep ==
  ASSUME IInv, Looks, Connect, peer' = peer, handshake' = handshake, heartbeat' = heartbeat,
         scheduled' = FALSE, state # "up", state' = "connecting"
  PROVE  IInv'
<1>1. /\ generation \in Nat /\ generation' = generation + 1 /\ generation' \in 1..MaxGeneration
      /\ UNCHANGED <<queue, overflow, batch, socket, connected, tcp>>
      /\ worker' = "started" /\ worker = "none"
  BY GenerationAssumption DEF Connect, Looks, queueVars, IInv, TypeOK
<1>2. /\ ~closing' /\ closing' \in BOOLEAN /\ ~pending' /\ pending' \in BOOLEAN
      /\ scheduled' \in BOOLEAN
  BY Zenon DEF Connect
<1>3. TypeOK' BY <1>1, <1>2 DEF IInv, TypeOK
<1>4. \A k : ~Coming(k)'
  BY <1>1, NewGeneration DEF IInv, TypeOK, EntriesAreInOrder, Coming, InBatch, InQueue
<1>5. EntriesAreInOrder'
  BY <1>1, <1>4, NewGeneration DEF IInv, TypeOK, EntriesAreInOrder, Coming
<1>6. SocketIsKnown' /\ WorkerIsFirst'
  BY <1>1, <1>2, <1>3, <1>4 DEF IInv, TypeOK, SocketIsKnown, WorkerIsFirst
<1>7. ~Acked' BY <1>4 DEF Acked
<1>8. socket' # generation' BY <1>1 DEF IInv, TypeOK, SocketIsKnown
<1>9. /\ AfterUpgrade' /\ AckAfterGreeting' /\ LossIsFinal'
      /\ LossLeavesReport' /\ UpIsClean'
  BY <1>2, <1>4, <1>7, <1>8
     DEF Acked, AfterUpgrade, AckAfterGreeting, LossIsFinal, LossLeavesReport, UpIsClean, Closing
<1> QED BY <1>3, <1>5, <1>6, <1>9 DEF IInv

LEMMA NoConnectStep ==
  ASSUME IInv, Looks, NoConnect, peer' = peer, handshake' = handshake, heartbeat' = heartbeat,
         scheduled' = FALSE, state # "up", state' = "connecting"
  PROVE  IInv'
<1>1. /\ UNCHANGED <<batch, queue, overflow, socket, connected, tcp, worker>>
      /\ closing' \in BOOLEAN /\ generation' \in 0..MaxGeneration
      /\ generation' = generation \/ (generation' = generation + 1 /\ worker = "none" /\ ~closing')
  <2>1. closing' \in BOOLEAN
    BY Zenon DEF NoConnect, Refused, NoThread, IInv, TypeOK
  <2> QED BY <2>1, GenerationAssumption
      DEF Looks, NoConnect, Refused, NoThread, queueVars, IInv, TypeOK
<1>2. pending' /\ pending' \in BOOLEAN /\ scheduled' \in BOOLEAN BY Zenon DEF NoConnect
<1>3. TypeOK' BY <1>1, <1>2 DEF IInv, TypeOK
<1>4. CASE generation' = generation
  <2>1. /\ EntriesAreInOrder'
        /\ \A k : Coming(k)' <=> Coming(k)
        /\ ReportComing' <=> ReportComing
    BY <1>1, <1>4, SameEntries DEF queueVars
  <2>2. SocketIsKnown' /\ WorkerIsFirst'
    BY <1>1, <1>2, <1>4, <2>1 DEF IInv, SocketIsKnown, WorkerIsFirst
  <2> QED
    BY <1>1, <1>2, <1>3, <1>4, <2>1, <2>2
       DEF IInv, AfterUpgrade, AckAfterGreeting, Acked, LossIsFinal, LossLeavesReport, UpIsClean
<1>5. CASE generation' # generation
  <2>1. generation \in Nat /\ generation' = generation + 1 /\ worker = "none"
    BY <1>1, <1>5, GenerationAssumption DEF IInv, TypeOK
  <2>2. \A k : ~Coming(k)'
    BY <1>1, <2>1, NewGeneration DEF IInv, TypeOK, EntriesAreInOrder, Coming, InBatch, InQueue
  <2>3. EntriesAreInOrder'
    BY <1>1, <2>1, <2>2, NewGeneration DEF IInv, TypeOK, EntriesAreInOrder, Coming
  <2>4. socket' \in Int /\ socket' < generation' BY <1>1, <2>1 DEF IInv, TypeOK, SocketIsKnown
  <2>5. SocketIsKnown' /\ WorkerIsFirst'
    BY <1>1, <1>2, <2>1, <2>2, <2>4 DEF IInv, TypeOK, SocketIsKnown, WorkerIsFirst
  <2> QED
    BY <1>2, <1>3, <2>2, <2>3, <2>4, <2>5
       DEF IInv, AfterUpgrade, AckAfterGreeting, Acked, LossIsFinal, LossLeavesReport, UpIsClean
<1> QED BY <1>4, <1>5

LEMMA WifiConnectedStep == IInv /\ WifiConnected => IInv'
  BY ConnectStep, NoConnectStep DEF WifiConnected

LEMMA ReconnectsStep == IInv /\ Reconnects => IInv'
  BY ConnectStep DEF Reconnects, DelayEnds

LEMMA ReconnectFailsStep == IInv /\ ReconnectFails => IInv'
  BY NoConnectStep DEF ReconnectFails, DelayEnds

LEMMA ReconnectRefusedStep == IInv /\ ReconnectRefused => IInv'
<1> SUFFICES ASSUME IInv, ReconnectRefused PROVE IInv' OBVIOUS
<1> USE DEF ReconnectRefused, DelayEnds, Refused
<1>1. /\ EntriesAreInOrder'
      /\ \A k : Coming(k)' <=> Coming(k)
      /\ ReportComing' <=> ReportComing
  BY SameEntries DEF Looks, queueVars
<1>2. TypeOK'
  <2>1. scheduled' \in BOOLEAN BY Zenon
  <2> QED BY <2>1 DEF IInv, TypeOK, Looks, queueVars
<1> QED
  BY <1>1, <1>2
     DEF IInv, TypeOK, SocketIsKnown, WorkerIsFirst, AfterUpgrade, AckAfterGreeting, Acked,
         LossIsFinal, LossLeavesReport, UpIsClean, Closing, Looks, queueVars

LEMMA PollStep == IInv /\ Poll => IInv'
<1> SUFFICES ASSUME IInv, Poll PROVE IInv' OBVIOUS
<1> USE DEF Poll
<1>1. /\ batch' = queue /\ queue' = <<>> /\ batch = <<>>
      /\ UNCHANGED <<generation, worker, socket, connected, tcp>>
      /\ ~overflow' /\ overflow' \in BOOLEAN
  BY Zenon
<1>2. /\ \A k : ~InBatch(k) /\ ~InQueue(k)'
      /\ \A k : InBatch(k)' <=> InQueue(k)
  BY <1>1, NothingQueued DEF InBatch, InQueue
<1>3. EntriesAreInOrder'
  BY <1>1, <1>2, NothingQueued DEF IInv, EntriesAreInOrder
<1>4. \A k : Coming(k)' <=> Coming(k) BY <1>2 DEF Coming
<1>5. ReportComing => ReportComing' \/ overflow BY <1>4 DEF ReportComing
<1>6. batch' \in Seq(Callback) /\ queue' \in Seq(Callback) /\ Len(queue') <= QueueLimit
  BY <1>1, QueueAssumption DEF IInv, TypeOK
<1>7. CASE ~overflow
  <2>1. UNCHANGED <<closing, peer, state, pending, scheduled, handshake, heartbeat>>
    BY <1>7 DEF sessionVars, timerVars
  <2>2. TypeOK' BY <1>1, <1>6, <2>1 DEF IInv, TypeOK
  <2>3. /\ SocketIsKnown' /\ WorkerIsFirst' /\ AfterUpgrade' /\ AckAfterGreeting'
        /\ LossIsFinal' /\ LossLeavesReport' /\ UpIsClean'
    BY <1>1, <1>4, <1>5, <1>7, <2>1
       DEF IInv, Acked, SocketIsKnown, WorkerIsFirst, AfterUpgrade, AckAfterGreeting,
           LossIsFinal, LossLeavesReport, UpIsClean, Closing
  <2> QED BY <1>3, <2>2, <2>3 DEF IInv
<1>8. CASE overflow
  <2>1. /\ closing' /\ closing' \in BOOLEAN /\ pending' \in BOOLEAN
        /\ scheduled' \in BOOLEAN /\ handshake' \in BOOLEAN
    BY <1>8, Zenon DEF HandleTransportDisconnected, Close
  <2>2. /\ state' = IF state = "up" THEN "connecting" ELSE state
        /\ heartbeat' = "off"
        /\ Closes
    BY <1>8 DEF HandleTransportDisconnected, Close, Closes, Closing
  <2>3. TypeOK' BY <1>1, <1>6, <2>1, <2>2 DEF IInv, TypeOK, Closes, Closing
  <2>4. SocketIsKnown' /\ WorkerIsFirst'
    BY <1>1, <1>4, <2>2 DEF IInv, TypeOK, SocketIsKnown, WorkerIsFirst, Closes, Closing
  <2>5. AfterUpgrade' /\ AckAfterGreeting'
    BY <1>1, <1>4, <2>2
       DEF IInv, TypeOK, SocketIsKnown, WorkerIsFirst, AfterUpgrade, AckAfterGreeting, Acked,
           Closes, Closing
  <2>6. LossIsFinal' /\ LossLeavesReport' /\ UpIsClean'
    BY <1>1, <1>4, <2>1, <2>2 DEF IInv, Closes, LossIsFinal, LossLeavesReport, UpIsClean, Closing
  <2> QED BY <1>3, <2>3, <2>4, <2>5, <2>6 DEF IInv
<1> QED BY <1>7, <1>8

(***************************************************************************)
(* A callback is taken from the batch, and run or dropped.                 *)
(***************************************************************************)
Taken(h) ==
  /\ UNCHANGED <<generation, worker, socket, connected, tcp, queueVars>>
  /\ batch' \in Seq(Callback)
  /\ EntriesAreInOrder'
  /\ \A k : Coming(k)' => Coming(k)
  /\ \A k : Coming(k) => Coming(k)' \/ Of(h, generation, k)
  /\ \A k : Of(h, generation, k) => Coming(k)
  /\ Of(h, generation, "disconnected") => ~Coming("ack")'
  /\ Of(h, generation, "connected") => ~Coming("connected")'

LEMMA EntryTaken ==
  ASSUME IInv, Deliver
  PROVE  Head(batch) \in Callback /\ Taken(Head(batch))
<1>1. /\ batch # <<>> /\ batch' = Tail(batch) /\ batch \in Seq(Callback)
      /\ UNCHANGED <<generation, worker, socket, connected, tcp, queueVars>>
  BY DEF Deliver, IInv, TypeOK
<1>2. Head(batch) \in Callback /\ batch' \in Seq(Callback) /\ Old(batch', generation')
  BY <1>1, OldTaken DEF IInv, EntriesAreInOrder
<1>3. \A k : InBatch(k) <=> Of(Head(batch), generation, k) \/ InBatch(k)'
  BY <1>1, HasTaken DEF InBatch
<1>4. \A k : InQueue(k)' <=> InQueue(k) BY <1>1 DEF InQueue, queueVars
<1>5. /\ Ordered(batch', generation')
      /\ Of(Head(batch), generation, "disconnected") => ~InBatch("ack")'
  BY <1>1, OrderTaken DEF IInv, EntriesAreInOrder, InBatch
<1>6. /\ Unique(batch', generation')
      /\ Of(Head(batch), generation, "connected") => ~InBatch("connected")'
  BY <1>1, UniqueTaken DEF IInv, EntriesAreInOrder, InBatch
<1>7. EntriesAreInOrder'
  BY <1>1, <1>2, <1>3, <1>4, <1>5, <1>6 DEF IInv, EntriesAreInOrder, queueVars
<1> QED BY <1>1, <1>2, <1>3, <1>4, <1>5, <1>6, <1>7
    DEF Coming, IInv, EntriesAreInOrder, Taken

LEMMA DroppedStep ==
  ASSUME IInv, NEW h \in Callback, Taken(h), ~Wanted(h),
         UNCHANGED <<closing, peer, sessionVars>>
  PROVE  IInv'
<1>1. /\ UNCHANGED <<closing, peer, state, pending, scheduled, handshake, heartbeat>>
      /\ \A k : Of(h, generation, k) => closing /\ k \notin {"disconnected", "broken"}
  BY DEF Wanted, RequiresOpen, sessionVars, timerVars, Of
<1>2. /\ UNCHANGED <<generation, worker, socket, connected, tcp, queue, overflow>>
      /\ \A k : Coming(k)' => Coming(k)
      /\ \A k : Coming(k) => Coming(k)' \/ Of(h, generation, k)
      /\ \A k : Of(h, generation, k) => Coming(k)
      /\ \A k : Of(h, generation, k) => h.kind = k
      /\ Of(h, generation, "disconnected") => ~Coming("ack")'
      /\ Of(h, generation, "connected") => ~Coming("connected")'
      /\ ReportComing => \/ ReportComing' \/ Of(h, generation, "disconnected")
                     \/ Of(h, generation, "broken")
  BY DEF Taken, ReportComing, queueVars, Of
<1>3. TypeOK' BY <1>1, <1>2 DEF IInv, TypeOK, Taken
<1>4. EntriesAreInOrder' BY DEF Taken
<1> QED
  BY <1>1, <1>2, <1>3, <1>4
     DEF IInv, TypeOK, SocketIsKnown, WorkerIsFirst, AfterUpgrade, AckAfterGreeting, Acked,
         LossIsFinal, LossLeavesReport, UpIsClean, Closing

LEMMA OnConnectedStep ==
  ASSUME IInv, NEW h \in Callback, Taken(h), Of(h, generation, "connected"), OnConnected
  PROVE  IInv'
<1>1. /\ h.kind = "connected" /\ Of(h, generation, "connected") /\ Coming("connected")
      /\ state' = state /\ scheduled' = scheduled /\ heartbeat' = heartbeat
      /\ closing' \in BOOLEAN /\ pending' \in BOOLEAN /\ handshake' \in BOOLEAN
      /\ \/ /\ connected /\ tcp = "open"
            /\ peer' = IF peer = "waiting" THEN "greeted" ELSE peer
            /\ UNCHANGED <<closing, pending>>
         \/ closing' /\ Closes
  BY DEF OnConnected, Close, Closes, Closing, Taken, IInv, TypeOK, Of
<1>2. /\ UNCHANGED <<generation, worker, socket, connected, tcp, queue, overflow>>
      /\ \A k : Coming(k)' => Coming(k)
      /\ \A k : Coming(k) => Coming(k)' \/ Of(h, generation, k)
      /\ \A k : Of(h, generation, k) => Coming(k)
      /\ \A k : Of(h, generation, k) => h.kind = k
      /\ Of(h, generation, "disconnected") => ~Coming("ack")'
      /\ Of(h, generation, "connected") => ~Coming("connected")'
      /\ ReportComing => \/ ReportComing' \/ Of(h, generation, "disconnected")
                     \/ Of(h, generation, "broken")
  BY DEF Taken, ReportComing, queueVars, Of
<1>3. TypeOK' BY <1>1, <1>2 DEF IInv, TypeOK, Taken, Closes, Closing
<1>4. EntriesAreInOrder' BY DEF Taken
<1> QED
  BY <1>1, <1>2, <1>3, <1>4
     DEF IInv, TypeOK, SocketIsKnown, WorkerIsFirst, AfterUpgrade, AckAfterGreeting, Acked,
         LossIsFinal, LossLeavesReport, UpIsClean, Closing, Closes

LEMMA OnDisconnectedStep ==
  ASSUME IInv, NEW h \in Callback, Taken(h), Of(h, generation, "disconnected"),
         HandleTransportDisconnected, UNCHANGED <<closing, peer>>
  PROVE  IInv'
<1>1. /\ state' = (IF state = "up" THEN "connecting" ELSE state) /\ heartbeat' = "off"
      /\ pending' \in BOOLEAN /\ scheduled' \in BOOLEAN /\ handshake' \in BOOLEAN
      /\ closing' \in BOOLEAN /\ pending'
      /\ UNCHANGED <<closing, peer>>
      /\ Of(h, generation, "disconnected")
  BY DEF HandleTransportDisconnected, IInv, TypeOK
<1>2. /\ UNCHANGED <<generation, worker, socket, connected, tcp, queue, overflow>>
      /\ \A k : Coming(k)' => Coming(k)
      /\ \A k : Coming(k) => Coming(k)' \/ Of(h, generation, k)
      /\ \A k : Of(h, generation, k) => Coming(k)
      /\ \A k : Of(h, generation, k) => h.kind = k
      /\ Of(h, generation, "disconnected") => ~Coming("ack")'
      /\ Of(h, generation, "connected") => ~Coming("connected")'
      /\ ReportComing => \/ ReportComing' \/ Of(h, generation, "disconnected")
                     \/ Of(h, generation, "broken")
  BY DEF Taken, ReportComing, queueVars, Of
<1>3. TypeOK' BY <1>1, <1>2 DEF IInv, TypeOK, Taken
<1>4. EntriesAreInOrder' BY DEF Taken
<1> QED
  BY <1>1, <1>2, <1>3, <1>4
     DEF IInv, TypeOK, SocketIsKnown, WorkerIsFirst, AfterUpgrade, AckAfterGreeting, Acked,
         LossIsFinal, LossLeavesReport, UpIsClean, Closing, Closes, Kind

LEMMA OnBrokenStep ==
  ASSUME IInv, NEW h \in Callback, Taken(h), h.kind \in {"broken", "failed"},
         HandleTransportDisconnected, Close
  PROVE  IInv'
<1>1. /\ state' = (IF state = "up" THEN "connecting" ELSE state) /\ heartbeat' = "off"
      /\ pending' \in BOOLEAN /\ scheduled' \in BOOLEAN /\ handshake' \in BOOLEAN
      /\ closing' \in BOOLEAN
      /\ closing' /\ Closes
  BY DEF HandleTransportDisconnected, Close, Closes, Closing, IInv, TypeOK
<1>2. /\ UNCHANGED <<generation, worker, socket, connected, tcp, queue, overflow>>
      /\ \A k : Coming(k)' => Coming(k)
      /\ \A k : Coming(k) => Coming(k)' \/ Of(h, generation, k)
      /\ \A k : Of(h, generation, k) => Coming(k)
      /\ \A k : Of(h, generation, k) => h.kind = k
      /\ Of(h, generation, "disconnected") => ~Coming("ack")'
      /\ Of(h, generation, "connected") => ~Coming("connected")'
      /\ ReportComing => \/ ReportComing' \/ Of(h, generation, "disconnected")
                     \/ Of(h, generation, "broken")
  BY DEF Taken, ReportComing, queueVars, Of
<1>3. TypeOK' BY <1>1, <1>2 DEF IInv, TypeOK, Taken, Closes, Closing
<1>4. EntriesAreInOrder' BY DEF Taken
<1> QED
  BY <1>1, <1>2, <1>3, <1>4
     DEF IInv, TypeOK, SocketIsKnown, WorkerIsFirst, AfterUpgrade, AckAfterGreeting, Acked,
         LossIsFinal, LossLeavesReport, UpIsClean, Closing, Closes

LEMMA OnPongStep ==
  ASSUME IInv, NEW h \in Callback, Taken(h), h.kind = "pong",
         heartbeat' = (IF heartbeat = "awaiting" THEN "armed" ELSE heartbeat),
         UNCHANGED <<closing, peer, state, pending, scheduled, handshake>>
  PROVE  IInv'
<1>1. /\ h.kind = "pong" /\ heartbeat' \in {heartbeat, "armed"}
      /\ UNCHANGED <<closing, peer, state, pending, scheduled, handshake>>
  BY DEF IInv, TypeOK
<1>2. /\ UNCHANGED <<generation, worker, socket, connected, tcp, queue, overflow>>
      /\ \A k : Coming(k)' => Coming(k)
      /\ \A k : Coming(k) => Coming(k)' \/ Of(h, generation, k)
      /\ \A k : Of(h, generation, k) => Coming(k)
      /\ \A k : Of(h, generation, k) => h.kind = k
      /\ Of(h, generation, "disconnected") => ~Coming("ack")'
      /\ Of(h, generation, "connected") => ~Coming("connected")'
      /\ ReportComing => \/ ReportComing' \/ Of(h, generation, "disconnected")
                     \/ Of(h, generation, "broken")
  BY DEF Taken, ReportComing, queueVars, Of
<1>3. TypeOK' BY <1>1, <1>2 DEF IInv, TypeOK, Taken
<1>4. EntriesAreInOrder' BY DEF Taken
<1> QED
  BY <1>1, <1>2, <1>3, <1>4
     DEF IInv, TypeOK, SocketIsKnown, WorkerIsFirst, AfterUpgrade, AckAfterGreeting, Acked,
         LossIsFinal, LossLeavesReport, UpIsClean, Closing, Closes

LEMMA OnDataStep ==
  ASSUME IInv, NEW h \in Callback, Taken(h), h.kind \in {"ack", "data"}, h.gen = generation, generation # 0,
         ~closing, OnData(h.kind)
  PROVE  IInv'
<1>1. \/ /\ Of(h, generation, "ack") /\ state = "connecting"
         /\ state' = "up" /\ ~handshake' /\ handshake' \in BOOLEAN /\ heartbeat' = "armed"
         /\ UNCHANGED <<closing, peer, pending, scheduled>>
      \/ UNCHANGED <<closing, peer, state, pending, scheduled, handshake, heartbeat>>
         /\ state # "connecting" /\ h.kind \in {"ack", "data"}
      \/ /\ UNCHANGED <<state, handshake, heartbeat>>
         /\ pending' \in BOOLEAN /\ scheduled' \in BOOLEAN
         /\ closing' /\ closing' \in BOOLEAN /\ Closes
         /\ h.kind \in {"ack", "data"}
  BY DEF OnData, GiveUpConnection, Close, Closes, Closing, IInv, TypeOK, Of, sessionVars, timerVars
<1>2. /\ UNCHANGED <<generation, worker, socket, connected, tcp, queue, overflow>>
      /\ \A k : Coming(k)' => Coming(k)
      /\ \A k : Coming(k) => Coming(k)' \/ Of(h, generation, k)
      /\ \A k : Of(h, generation, k) => Coming(k)
      /\ \A k : Of(h, generation, k) => h.kind = k
      /\ Of(h, generation, "disconnected") => ~Coming("ack")'
      /\ Of(h, generation, "connected") => ~Coming("connected")'
      /\ ReportComing => \/ ReportComing' \/ Of(h, generation, "disconnected")
                     \/ Of(h, generation, "broken")
  BY DEF Taken, ReportComing, queueVars, Of
<1>3. TypeOK' BY <1>1, <1>2 DEF IInv, TypeOK, Taken, Closes, Closing
<1>4. EntriesAreInOrder' BY DEF Taken
<1> QED
  BY <1>1, <1>2, <1>3, <1>4
     DEF IInv, TypeOK, SocketIsKnown, WorkerIsFirst, AfterUpgrade, AckAfterGreeting, Acked,
         LossIsFinal, LossLeavesReport, UpIsClean, Closing, Closes, Kind

LEMMA DeliverStep == IInv /\ Deliver => IInv'
<1> SUFFICES ASSUME IInv, Deliver PROVE IInv' OBVIOUS
<1> DEFINE h == Head(batch)
<1>1. h \in Callback /\ Taken(h) BY EntryTaken
<1>2. CASE ~Wanted(h) BY <1>1, <1>2, DroppedStep DEF Deliver
<1>3. CASE Wanted(h)
  <2>1. h.gen = generation /\ Run(h.kind) BY <1>3 DEF Deliver, Wanted
  <2>2. RequiresOpen(h) => ~closing BY <1>3 DEF Wanted
  <2>8. generation # 0 BY <1>1, <2>1 DEF Callback
  <2> HIDE DEF h
  <2>3. CASE h.kind = "connected"
    BY <1>1, <2>1, <2>3, OnConnectedStep DEF Run, Of
  <2>4. CASE h.kind = "disconnected"
    BY <1>1, <2>1, <2>4, OnDisconnectedStep DEF Run, Of
  <2>5. CASE h.kind \in {"broken", "failed"}
    BY <1>1, <2>1, <2>5, OnBrokenStep DEF Run
  <2>6. CASE h.kind = "pong"
    BY <1>1, <2>1, <2>6, OnPongStep DEF Run
  <2>7. CASE h.kind \in {"ack", "data"}
    BY <1>1, <2>1, <2>2, <2>7, <2>8, OnDataStep DEF Run, RequiresOpen
  <2> QED BY <1>1, <2>3, <2>4, <2>5, <2>6, <2>7 DEF Callback, Kind
<1> QED BY <1>2, <1>3

LEMMA Stutter == IInv /\ UNCHANGED vars => IInv'
<1> SUFFICES ASSUME IInv, UNCHANGED vars PROVE IInv' OBVIOUS
<1>1. /\ EntriesAreInOrder'
      /\ \A k : Coming(k)' <=> Coming(k)
      /\ ReportComing' <=> ReportComing
  BY SameEntries DEF vars, queueVars
<1>2. TypeOK' BY DEF IInv, TypeOK, vars, socketVars, queueVars, sessionVars, timerVars
<1> QED
  BY <1>1, <1>2
     DEF IInv, TypeOK, SocketIsKnown, WorkerIsFirst, AfterUpgrade, AckAfterGreeting, Acked,
         LossIsFinal, LossLeavesReport, UpIsClean, Closing, vars, socketVars, sessionVars, timerVars

\* The inductive invariant holds throughout every behaviour of the link.
THEOREM Invariance == Spec => []IInv
<1>1. IInv /\ [Next]_vars => IInv'
  <2>1. IInv /\ SessionNext => IInv'
    BY PollStep, DeliverStep, GiveUpStep, HandshakeExpiresStep, SendPingStep,
       HeartbeatExpiresStep, ScheduleStep, WifiConnectedStep, ReconnectsStep,
       ReconnectFailsStep, ReconnectRefusedStep, Zenon
       DEF SessionNext
  <2>2. IInv /\ WorkerNext => IInv'
    BY DropPreviousStep, CreateSocketStep, BeginConnectStep, UpgradeStep, UpgradeFailsStep,
       WorkerEndsStep, Zenon
       DEF WorkerNext
  <2>3. IInv /\ ReceiveNext => IInv'
    BY ReceiveAckStep, ReceiveDataStep, ReceivePongStep, ReceiveCloseStep, ReceiveBrokenStep,
       LoseTcpStep, HangStep, Zenon
       DEF ReceiveNext
  <2> QED BY <2>1, <2>2, <2>3, Stutter, Zenon DEF Next
<1> QED BY Initially, <1>1, PTL DEF Spec

\* Type correctness; the queue never exceeds kMaxPendingCallbacks (enqueueCallback).
THEOREM TypeCorrect == Spec => []TypeOK
<1>1. IInv => TypeOK BY DEF IInv
<1> QED BY <1>1, Invariance, PTL

(***************************************************************************)
(* The loss of an established session's socket leaves a report.            *)
(***************************************************************************)
LEMMA ReportIsOnTheWay ==
  /\ TypeOK => (OnTheWay(batch) \/ OnTheWay(queue) \/ overflow <=> ReportComing)
  /\ TypeOK' => ((OnTheWay(batch) \/ OnTheWay(queue) \/ overflow)' <=> ReportComing')
<1>1. ASSUME NEW q \in Seq(Callback), NEW g
      PROVE  (\E i \in DOMAIN q : q[i].gen = g /\ q[i].kind \in {"disconnected", "broken"})
               <=> Has(q, g, "disconnected") \/ Has(q, g, "broken")
  <2>1. DOMAIN q = 1..Len(q) OBVIOUS
  <2> QED BY <2>1 DEF Has, Of
<1>2. ASSUME TypeOK PROVE OnTheWay(batch) \/ OnTheWay(queue) \/ overflow <=> ReportComing
  <2>1. batch \in Seq(Callback) /\ queue \in Seq(Callback) BY <1>2 DEF TypeOK
  <2>2. OnTheWay(batch) <=> InBatch("disconnected") \/ InBatch("broken")
    BY <1>1, <2>1 DEF OnTheWay, InBatch
  <2>3. OnTheWay(queue) <=> InQueue("disconnected") \/ InQueue("broken")
    BY <1>1, <2>1 DEF OnTheWay, InQueue
  <2> QED BY <2>2, <2>3 DEF ReportComing, Coming
<1>3. ASSUME TypeOK'
      PROVE  (OnTheWay(batch) \/ OnTheWay(queue) \/ overflow)' <=> ReportComing'
  <2>1. batch' \in Seq(Callback) /\ queue' \in Seq(Callback) BY <1>3 DEF TypeOK
  <2>2. OnTheWay(batch)' <=> InBatch("disconnected")' \/ InBatch("broken")'
    BY <1>1, <2>1 DEF OnTheWay, InBatch
  <2>3. OnTheWay(queue)' <=> InQueue("disconnected")' \/ InQueue("broken")'
    BY <1>1, <2>1 DEF OnTheWay, InQueue
  <2> QED BY <2>2, <2>3 DEF ReportComing, Coming
<1> QED BY <1>2, <1>3

IsLost == socket # generation \/ ~connected

\* What a step leaves to a session that is up.
Reports ==
  state = "up" /\ state' = "up" =>
    (ReportComing => ReportComing') /\ (IsLost' => IsLost \/ ReportComing')

LEMMA WorkerReports == ASSUME IInv, WorkerNext PROVE Reports
<1>1. ASSUME state = "up" PROVE worker \in {"none", "returned"}
  BY <1>1 DEF IInv, AfterUpgrade, Acked
<1>2. CASE WorkerEnds
  <2>1. ASSUME state = "up", closing, ReportsLoss, socket = generation
        PROVE  ReportComing'
    <3>1. Enqueue(socket, "disconnected") BY <1>1, <1>2, <2>1 DEF WorkerEnds, EnqueueIf
    <3>2. socket \in 1..MaxGeneration
      BY <2>1, GenerationAssumption DEF IInv, TypeOK, SocketIsKnown
    <3> QED BY <1>2, <2>1, <3>1, <3>2, OneMoreEntry DEF Kind, WorkerEnds
  <2>2. ASSUME state = "up" PROVE ReportComing => ReportComing'
    <3>1. CASE closing /\ ReportsLoss
      <4>1. Enqueue(socket, "disconnected") BY <1>1, <1>2, <2>2, <3>1 DEF WorkerEnds, EnqueueIf
      <4>2. socket \in 1..MaxGeneration /\ socket <= generation
        BY <3>1, GenerationAssumption DEF IInv, TypeOK, SocketIsKnown, ReportsLoss
      <4> QED BY <1>2, <4>1, <4>2, OneMoreEntry DEF Kind, WorkerEnds
    <3>2. CASE ~(closing /\ ReportsLoss)
      <4>1. UNCHANGED <<generation, batch, queueVars>>
        BY <1>1, <1>2, <2>2, <3>2 DEF WorkerEnds, EnqueueIf
      <4> QED BY <4>1, SameEntries
    <3> QED BY <3>1, <3>2
  <2>3. ASSUME state = "up", IsLost', ~IsLost PROVE closing /\ ReportsLoss
    <3>1. worker = "returned" /\ generation' = generation BY <1>1, <1>2, <2>3 DEF WorkerEnds
    <3>2. closing BY <1>2, <2>3, <3>1 DEF WorkerEnds, socketVars, IsLost
    <3>3. connected /\ socket = generation BY <2>3 DEF IsLost
    <3>4. tcp = "open" BY <2>3, <3>3 DEF IInv, AckAfterGreeting, Acked
    <3> QED BY <3>2, <3>3, <3>4 DEF ReportsLoss
  <2> QED BY <2>1, <2>2, <2>3 DEF Reports, IsLost
<1>3. CASE ~WorkerEnds
  BY <1>1, <1>3
     DEF WorkerNext, DropPrevious, CreateSocket, BeginConnect, Upgrade, UpgradeFails, Reports
<1> QED BY <1>2, <1>3

LEMMA ReceiveReports == ASSUME IInv, ReceiveNext PROVE Reports
<1> USE DEF Receives
<1>1. /\ tcp = "open" /\ UNCHANGED <<generation, socket, batch>>
      /\ socket \in 1..MaxGeneration /\ socket <= generation
  BY GenerationAssumption
     DEF ReceiveNext, ReceiveAck, ReceiveData, ReceivePong, ReceiveClose, ReceiveBroken, LoseTcp,
         Hang, IInv, TypeOK, SocketIsKnown
<1>2. CASE ReceiveClose \/ ReceiveBroken
  <2>1. PICK kind \in {"disconnected", "broken"} : Enqueue(socket, kind)
    BY <1>2 DEF ReceiveClose, ReceiveBroken
  <2>2. /\ ReportComing => ReportComing'
        /\ socket = generation => ReportComing'
    BY <1>1, <2>1, OneMoreEntry DEF Kind
  <2> QED BY <1>1, <2>2 DEF Reports, IsLost
<1>3. CASE LoseTcp
  <2>1. CASE connected
    <3>1. Enqueue(socket, "disconnected") BY <1>3, <2>1 DEF LoseTcp, EnqueueIf
    <3>2. /\ ReportComing => ReportComing'
          /\ socket = generation => ReportComing'
      BY <1>1, <3>1, OneMoreEntry DEF Kind
    <3> QED BY <1>1, <3>2 DEF Reports, IsLost
  <2>2. CASE ~connected
    <3>1. UNCHANGED <<generation, batch, queueVars>> BY <1>1, <1>3, <2>2 DEF LoseTcp, EnqueueIf
    <3>2. ReportComing => ReportComing' BY <3>1, SameEntries
    <3> QED BY <2>2, <3>2 DEF Reports, IsLost
  <2> QED BY <2>1, <2>2
<1>4. CASE ReceiveAck \/ ReceiveData \/ ReceivePong \/ Hang
  <2>1. connected' = connected BY <1>4 DEF ReceiveAck, ReceiveData, ReceivePong, Hang
  <2>2. ReportComing => ReportComing'
    <3>1. CASE UNCHANGED queueVars BY <1>1, <3>1, SameEntries
    <3>2. CASE ~UNCHANGED queueVars
      <4>1. \/ generation = socket /\ ~closing /\ Enqueue(socket, "ack") /\ peer \in {"greeted", "overdue"}
            \/ Enqueue(socket, "data") \/ Enqueue(socket, "pong")
        BY <1>4, <3>2
           DEF ReceiveAck, ReceiveData, ReceivePong, Hang, EnqueueMessage, EnqueueIf
      <4>2. CASE generation = socket /\ Enqueue(socket, "ack") /\ peer \in {"greeted", "overdue"}
        <5>1. ~Coming("disconnected") BY <1>1, <4>2 DEF IInv, LossIsFinal
        <5> QED BY <1>1, <4>2, <5>1, OneMoreEntry DEF Kind
      <4>3. CASE Enqueue(socket, "data") BY <1>1, <4>3, OneMoreEntry DEF Kind
      <4>4. CASE Enqueue(socket, "pong") BY <1>1, <4>4, OneMoreEntry DEF Kind
      <4> QED BY <4>1, <4>2, <4>3, <4>4
    <3> QED BY <3>1, <3>2
  <2> QED BY <1>1, <2>1, <2>2 DEF Reports, IsLost
<1> QED BY <1>2, <1>3, <1>4 DEF ReceiveNext

LEMMA DeliverReports == ASSUME IInv, Deliver PROVE Reports
<1> DEFINE h == Head(batch)
<1>1. h \in Callback /\ Taken(h) BY EntryTaken
<1>2. UNCHANGED <<generation, socket, connected, overflow>> BY <1>1 DEF Taken, queueVars
<1>3. ASSUME state = "up", state' = "up"
      PROVE  ~Of(h, generation, "disconnected") /\ ~Of(h, generation, "broken")
  <2> HIDE DEF h
  <2>1. SUFFICES ASSUME h.gen = generation, h.kind \in {"disconnected", "broken"} PROVE FALSE
    BY DEF Of
  <2>2. Wanted(h) BY <2>1 DEF Wanted, RequiresOpen
  <2>3. Run(h.kind) BY <2>2 DEF Deliver, h
  <2>4. state' = "connecting" BY <1>3, <2>1, <2>3 DEF Run, HandleTransportDisconnected
  <2> QED BY <1>3, <2>4
<1>4. state = "up" /\ state' = "up" => (ReportComing => ReportComing')
  BY <1>1, <1>2, <1>3 DEF Taken, ReportComing
<1> QED BY <1>2, <1>4 DEF Reports, IsLost

LEMMA LookReports == ASSUME IInv, SessionNext, ~Deliver PROVE Reports
<1>1. CASE Poll
  <2>1. CASE overflow
    BY <1>1, <2>1 DEF Poll, HandleTransportDisconnected, Reports
  <2>2. CASE ~overflow
    <3>1. \A k : Coming(k)' <=> Coming(k)
      BY <1>1, NothingQueued DEF Poll, Coming, InBatch, InQueue
    <3> QED BY <1>1, <2>2, <3>1 DEF Poll, Reports, ReportComing, IsLost
  <2> QED BY <2>1, <2>2
<1>2. CASE WifiConnected \/ Reconnects \/ ReconnectFails
  BY <1>2 DEF WifiConnected, Reconnects, ReconnectFails, DelayEnds, Reports
<1>3. CASE ~(Poll \/ WifiConnected \/ Reconnects \/ ReconnectFails)
  <2>1. UNCHANGED <<generation, batch, queueVars, socket, connected>>
    BY <1>3
       DEF SessionNext, GiveUp, HandshakeExpires, SendPing, HeartbeatExpires, Schedule,
           ReconnectRefused, DelayEnds, Refused, Looks
  <2>2. ReportComing' <=> ReportComing BY <2>1, SameEntries
  <2> QED BY <2>1, <2>2 DEF Reports, IsLost
<1> QED BY <1>1, <1>2, <1>3

LEMMA EveryStepReports == ASSUME IInv, [Next]_vars PROVE Reports
<1>1. CASE UNCHANGED vars
  <2>1. UNCHANGED <<generation, batch, queueVars, socket, connected>>
    BY <1>1 DEF vars, socketVars
  <2>2. ReportComing' <=> ReportComing BY <2>1, SameEntries
  <2> QED BY <2>1, <2>2 DEF Reports, IsLost
<1> QED BY <1>1, WorkerReports, ReceiveReports, DeliverReports, LookReports DEF Next

\* A session begins in a connection whose loss, if it is lost by then, is reported.
LEMMA EstablishedReports ==
  ASSUME IInv, [Next]_vars, state # "up", state' = "up", ~EstablishesLate
  PROVE  IsLost' => ReportComing'
<1>1. Deliver
  BY DEF Next, WorkerNext, DropPrevious, CreateSocket, BeginConnect, Upgrade, UpgradeFails,
         WorkerEnds, ReceiveNext, ReceiveAck, ReceiveData, ReceivePong, ReceiveClose,
         ReceiveBroken, LoseTcp, Hang, Receives, SessionNext, Poll, HandleTransportDisconnected,
         GiveUp, HandshakeExpires, SendPing, HeartbeatExpires, Schedule, WifiConnected,
         Reconnects, ReconnectFails, ReconnectRefused, DelayEnds, vars, sessionVars
<1> DEFINE h == Head(batch)
<1>2. h \in Callback /\ Taken(h) BY <1>1, EntryTaken
<1>3. UNCHANGED <<generation, socket, connected, overflow>> BY <1>2 DEF Taken, queueVars
<1>4. Wanted(h) /\ Run(h.kind) BY <1>1 DEF Deliver, sessionVars
<1> HIDE DEF h
<1>5. state = "connecting" /\ h.kind = "ack"
  BY <1>4
     DEF Run, OnConnected, OnData, HandleTransportDisconnected, GiveUpConnection, sessionVars,
         IInv, TypeOK
<1>6. Of(h, generation, "ack") /\ ~closing
  BY <1>4, <1>5 DEF Wanted, RequiresOpen, Of
<1>7. Coming("ack") /\ ~pending BY <1>2, <1>5, <1>6 DEF Taken, EstablishesLate
<1>8. ~Of(h, generation, "disconnected") /\ ~Of(h, generation, "broken") BY <1>6 DEF Of
<1>9. ReportComing => ReportComing' BY <1>2, <1>3, <1>8 DEF Taken, ReportComing
<1>10. IsLost' => ReportComing BY <1>3, <1>6, <1>7 DEF IInv, LossLeavesReport, IsLost
<1> QED BY <1>9, <1>10

\* An established session whose socket is gone has a report of it in the batch, in the
\* queue, or as an overflow (enqueueCallback, poll), unless it was established by the late
\* hello_ack of a connection that had been given up.
THEOREM LossAlwaysReported == Spec => LossIsReported
<1>1. ASSUME IInv, IInv', [Next]_vars PROVE Reported => Reported' \/ EstablishesLate
  <2>1. Reported <=> (state = "up" /\ IsLost => ReportComing)
    <3>1. TypeOK BY <1>1 DEF IInv
    <3>2. OnTheWay(batch) \/ OnTheWay(queue) \/ overflow <=> ReportComing
      BY <3>1, ReportIsOnTheWay
    <3> QED BY <3>2, Zenon DEF Reported, IsLost
  <2>2. Reported' <=> (state' = "up" /\ IsLost' => ReportComing')
    <3>1. TypeOK' BY <1>1 DEF IInv
    <3>2. (OnTheWay(batch) \/ OnTheWay(queue) \/ overflow)' <=> ReportComing'
      BY <3>1, ReportIsOnTheWay
    <3> QED BY <3>2, Zenon DEF Reported, IsLost
  <2> QED BY <1>1, <2>1, <2>2, EveryStepReports, EstablishedReports DEF Reports
<1> QED BY <1>1, Invariance, PTL DEF Spec, LossIsReported

\* An established session rests on this connection's own hello_ack, with no timer left over
\* from an older one: reconnection uses a generation so that an old receive task cannot
\* change new state (docs/state-machines.md:49).
UpIsAcknowledged ==
  state = "up" =>
    /\ worker \in {"none", "returned"}
    /\ socket \in {0, generation}
    /\ socket = generation => peer \notin {"waiting", "greeted", "overdue"}
    /\ closing \/ pending \/ (~handshake /\ heartbeat # "off")

\* A session is up on its own connection's hello_ack only, with no timer left over from an
\* older one (handleHelloAck, generations of poll).
THEOREM UpAlwaysAcknowledged == Spec => []UpIsAcknowledged
<1>1. IInv => UpIsAcknowledged
  BY DEF IInv, UpIsAcknowledged, UpIsClean, AfterUpgrade, AckAfterGreeting, Acked, SocketIsKnown
<1> QED BY <1>1, Invariance, PTL

(***************************************************************************)
(* The link implements BridgeLink. The threads of the connection move an   *)
(* attempt towards its answer or out of reach of one; only the session's   *)
(* thread establishes a session, ends it or begins another attempt.        *)
(***************************************************************************)
LEMMA AckIsHad ==
  ASSUME NEW q \in Seq(Callback), NEW g
  PROVE  (\E i \in DOMAIN q : q[i].gen = g /\ q[i].kind = "ack") <=> Has(q, g, "ack")
<1>1. DOMAIN q = 1..Len(q) OBVIOUS
<1> QED BY <1>1 DEF Has, Of

Course(answered, asked, dialing) ==
  IF answered THEN "answered" ELSE IF asked THEN "asked" ELSE IF dialing THEN "dialing" ELSE "silent"

MayAnswer == socket = generation /\ peer \in {"greeted", "overdue"} /\ tcp = "open"

LEMMA ProgressNow ==
  /\ TypeOK => Progress = Course(Coming("ack"), IsAsked, IsDialing)
  /\ TypeOK' => Progress' = Course(Coming("ack")', IsAsked', IsDialing')
<1>1. ASSUME TypeOK PROVE Progress = Course(Coming("ack"), IsAsked, IsDialing)
  <2>1. batch \in Seq(Callback) /\ queue \in Seq(Callback) BY <1>1 DEF TypeOK
  <2>2. AckIn(batch) <=> InBatch("ack") BY <2>1, AckIsHad DEF AckIn, InBatch
  <2>3. AckIn(queue) <=> InQueue("ack") BY <2>1, AckIsHad DEF AckIn, InQueue
  <2> QED BY <2>2, <2>3 DEF Progress, Course, Coming
<1>2. ASSUME TypeOK' PROVE Progress' = Course(Coming("ack")', IsAsked', IsDialing')
  <2>1. batch' \in Seq(Callback) /\ queue' \in Seq(Callback) BY <1>2 DEF TypeOK
  <2>2. AckIn(batch)' <=> InBatch("ack")' BY <2>1, AckIsHad DEF AckIn, InBatch
  <2>3. AckIn(queue)' <=> InQueue("ack")' BY <2>1, AckIsHad DEF AckIn, InQueue
  <2> QED BY <2>2, <2>3 DEF Progress, Course, Coming
<1> QED BY <1>1, <1>2

LEMMA AjarNow ==
  /\ TypeOK => (IsAjar <=> ~closing /\ (Coming("ack") \/ MayAnswer))
  /\ TypeOK' => (IsAjar' <=> ~closing' /\ (Coming("ack")' \/ MayAnswer'))
<1>1. ASSUME TypeOK PROVE AckIn(batch) \/ AckIn(queue) <=> Coming("ack")
  <2>1. batch \in Seq(Callback) /\ queue \in Seq(Callback) BY <1>1 DEF TypeOK
  <2> QED BY <2>1, AckIsHad DEF AckIn, InBatch, InQueue, Coming
<1>2. ASSUME TypeOK' PROVE AckIn(batch)' \/ AckIn(queue)' <=> Coming("ack")'
  <2>1. batch' \in Seq(Callback) /\ queue' \in Seq(Callback) BY <1>2 DEF TypeOK
  <2>2. AckIn(batch)' <=> InBatch("ack")' BY <2>1, AckIsHad DEF AckIn, InBatch
  <2>3. AckIn(queue)' <=> InQueue("ack")' BY <2>1, AckIsHad DEF AckIn, InQueue
  <2> QED BY <2>2, <2>3 DEF Coming
<1> QED BY <1>1, <1>2, Zenon DEF IsAjar, MayAnswer

Moves == LinkRefinement!LinkNext \/ UNCHANGED <<Stage, generation>>

\* An attempt that is over may be ajar, as long as the session waits to begin another.
LEMMA Lingers ==
  ASSUME state = "connecting", state' = "connecting", closing \/ pending, closing' \/ pending',
         generation' = generation
  PROVE  Moves
<1>1. Stage \in {"over", "ajar"} /\ Stage' \in {"over", "ajar"} BY DEF Stage
<1> QED BY <1>1
    DEF Moves, LinkRefinement!LinkNext, LinkRefinement!NoDial, LinkRefinement!End,
        LinkRefinement!Goes

\* What the threads of the connection may do to an attempt.
Advances ==
  \/ (Coming("ack")' <=> Coming("ack")) /\ (IsAsked' <=> IsAsked) /\ (IsDialing' <=> IsDialing)
  \/ Coming("ack") /\ Coming("ack")'
  \/ ~Coming("ack") /\ IsAsked /\ Coming("ack")'
  \/ ~Coming("ack")' /\ ~IsAsked' /\ ~IsDialing' /\ ~Coming("ack")
  \/ ~Coming("ack")' /\ ~IsAsked' /\ IsDialing' /\ IsDialing /\ ~IsAsked /\ ~Coming("ack")
  \/ ~Coming("ack")' /\ IsAsked' /\ IsAsked /\ ~Coming("ack")

LEMMA ConnectionMoves ==
  ASSUME IInv, IInv', UNCHANGED <<generation, closing, batch, sessionVars>>,
         state = "connecting" /\ ~closing /\ ~pending => Advances
  PROVE  Moves
<1>1. /\ Progress = Course(Coming("ack"), IsAsked, IsDialing)
      /\ Progress' = Course(Coming("ack")', IsAsked', IsDialing')
  BY ProgressNow DEF IInv
<1>2. state \in {"wifi", "connecting", "up"} /\ generation' = generation /\ IsLeaving' = IsLeaving
      /\ UNCHANGED <<state, closing, pending>>
  BY DEF IInv, TypeOK, IsLeaving, sessionVars, timerVars
<1>3. CASE state = "connecting" /\ ~closing /\ ~pending
  <2>1. Stage = Progress /\ Stage' = Progress' BY <1>2, <1>3 DEF Stage
  <2>2. \/ Progress' = Progress
        \/ Progress \in {"dialing", "asked"} /\ Progress' = "silent"
        \/ Progress = "asked" /\ Progress' = "answered"
    BY <1>1, <1>3 DEF Advances, Course
  <2> QED BY <1>2, <2>1, <2>2
      DEF Moves, LinkRefinement!LinkNext, LinkRefinement!Fail, LinkRefinement!Answer,
          LinkRefinement!Goes
<1>4. CASE state = "connecting" /\ (closing \/ pending) BY <1>2, <1>4, Lingers
<1>5. CASE state # "connecting"
  <2>1. Stage' = Stage BY <1>2, <1>5 DEF Stage
  <2> QED BY <1>2, <2>1 DEF Moves
<1> QED BY <1>3, <1>4, <1>5

\* Whatever else is queued, no acknowledgement comes of it.
LEMMA NoAckComes ==
  ASSUME IInv, UNCHANGED <<generation, batch>>, NEW c \in BOOLEAN, NEW gen, NEW kind \in Kind,
         c => gen \in 1..MaxGeneration /\ gen <= generation,
         kind # "ack", kind = "connected" => ~Coming("connected"),
         EnqueueIf(c, gen, kind)
  PROVE  Coming("ack")' <=> Coming("ack")
<1>1. CASE c
  <2>1. Enqueue(gen, kind) BY <1>1 DEF EnqueueIf
  <2> QED BY <1>1, <2>1, OneMoreEntry
<1>2. CASE ~c
  <2>1. UNCHANGED <<generation, batch, queueVars>> BY <1>2 DEF EnqueueIf
  <2> QED BY <2>1, SameEntries
<1> QED BY <1>1, <1>2

LEMMA SocketHasGeneration ==
  ASSUME IInv, connected \/ tcp = "open"
  PROVE  socket \in 1..MaxGeneration /\ socket <= generation
BY GenerationAssumption DEF IInv, TypeOK, SocketIsKnown

LEMMA DropPreviousMoves == ASSUME IInv, IInv', DropPrevious PROVE Moves
<1>1. ASSUME state = "connecting" /\ ~closing /\ ~pending PROVE Advances
  <2>1. worker = "started" /\ worker' = "creating" /\ generation' = generation
    BY <1>1 DEF DropPrevious
  <2>2. /\ ~Coming("ack") /\ ~Coming("ack")'
        /\ socket # generation /\ socket' # generation'
    BY <2>1 DEF IInv, WorkerIsFirst, Kind
  <2> QED BY <2>1, <2>2 DEF Advances, IsAsked, IsDialing
<1> QED BY <1>1, ConnectionMoves DEF DropPrevious

LEMMA CreateSocketMoves == ASSUME IInv, IInv', CreateSocket PROVE Moves
<1>1. worker = "creating" /\ worker' \in {"created", "failed"} /\ UNCHANGED <<generation, peer>>
  BY DEF CreateSocket
<1>2. ~Coming("ack") /\ socket # generation /\ IsDialing
  BY <1>1 DEF IInv, WorkerIsFirst, Kind, IsDialing
<1>3. ~Coming("ack")' BY <1>2, SameEntries DEF CreateSocket
<1>4. CASE worker' = "created"
  <2>1. socket' = generation' /\ peer' = "waiting" BY <1>4 DEF IInv, WorkerIsFirst
  <2> QED BY <1>2, <1>3, <2>1, ConnectionMoves DEF CreateSocket, Advances, IsAsked, IsDialing
<1>5. CASE worker' = "failed"
  <2>1. socket' = socket BY <1>5 DEF CreateSocket
  <2> QED BY <1>1, <1>2, <1>3, <1>5, <2>1, ConnectionMoves
      DEF CreateSocket, Advances, IsAsked, IsDialing
<1> QED BY <1>1, <1>4, <1>5

LEMMA BeginConnectMoves == ASSUME IInv, IInv', BeginConnect PROVE Moves
<1>1. worker = "created" /\ UNCHANGED <<generation, peer, socket>> BY DEF BeginConnect
<1>2. ~Coming("ack") /\ socket = generation /\ peer = "waiting"
  BY <1>1 DEF IInv, WorkerIsFirst, Kind
<1>3. ~Coming("ack")' BY <1>2, SameEntries DEF BeginConnect
<1> QED BY <1>1, <1>2, <1>3, ConnectionMoves DEF BeginConnect, Advances, IsAsked, IsDialing

LEMMA UpgradeMoves == ASSUME IInv, IInv', Upgrade PROVE Moves
<1>1. /\ worker = "connecting" /\ worker' = "returned"
      /\ UNCHANGED <<generation, socket, peer, tcp>>
  BY DEF Upgrade
<1>2. socket \in 1..MaxGeneration /\ socket <= generation /\ ~Coming("connected")
  BY <1>1, GenerationAssumption DEF IInv, TypeOK, SocketIsKnown, WorkerIsFirst
<1>3. EnqueueIf(TRUE, socket, "connected") BY DEF Upgrade, EnqueueIf
<1>4. Coming("ack")' <=> Coming("ack") BY <1>2, <1>3, NoAckComes DEF Upgrade, Kind
<1> QED BY <1>1, <1>4, ConnectionMoves DEF Upgrade, Advances, IsAsked, IsDialing

LEMMA UpgradeFailsMoves == ASSUME IInv, IInv', UpgradeFails PROVE Moves
<1>1. Coming("ack")' <=> Coming("ack") BY SameEntries DEF UpgradeFails
<1> QED BY <1>1, ConnectionMoves DEF UpgradeFails, socketVars, Advances, IsAsked, IsDialing

LEMMA WorkerEndsMoves == ASSUME IInv, IInv', WorkerEnds PROVE Moves
<1>1. ASSUME ~closing PROVE Advances
  <2>1. CASE worker = "failed"
    <3>1. ~Coming("ack") /\ generation # 0 BY <2>1 DEF IInv, AfterUpgrade, Acked, SocketIsKnown
    <3>2. socket' = 0 /\ worker' = "none" /\ generation' = generation
      BY <2>1 DEF WorkerEnds, DropSocket
    <3>3. EnqueueIf(TRUE, generation, "failed") BY <1>1, <2>1 DEF WorkerEnds, EnqueueIf
    <3>4. generation \in 1..MaxGeneration /\ generation <= generation
      BY <3>1, GenerationAssumption DEF IInv, TypeOK
    <3>5. ~Coming("ack")' BY <3>1, <3>3, <3>4, NoAckComes DEF WorkerEnds, Kind
    <3> QED BY <3>1, <3>2, <3>5 DEF Advances, IsAsked, IsDialing
  <2>2. CASE worker = "returned"
    <3>1. UNCHANGED <<generation, batch, queueVars, socketVars>> /\ worker' = "none"
      BY <1>1, <2>2 DEF WorkerEnds, EnqueueIf
    <3>2. Coming("ack")' <=> Coming("ack") BY <3>1, SameEntries
    <3> QED BY <2>2, <3>1, <3>2 DEF Advances, IsAsked, IsDialing, socketVars
  <2> QED BY <2>1, <2>2 DEF WorkerEnds
<1> QED BY <1>1, ConnectionMoves DEF WorkerEnds
LEMMA ReceiveAckMoves == ASSUME IInv, IInv', ReceiveAck PROVE Moves
<1>1. /\ tcp = "open" /\ peer \in {"greeted", "overdue"} /\ peer' \in {"ready", "closing"}
      /\ EnqueueMessage("ack")
      /\ UNCHANGED <<generation, closing, worker, socket, batch, sessionVars>>
  BY DEF ReceiveAck, Receives
<1>2. ASSUME state = "connecting" /\ ~closing /\ ~pending PROVE Advances
  <2>1. CASE socket = generation
    <3>1. Enqueue(socket, "ack") BY <1>1, <1>2, <2>1 DEF EnqueueMessage, EnqueueIf
    <3>2. ~Coming("disconnected") BY <1>1, <1>2, <2>1 DEF IInv, LossIsFinal
    <3>3. Coming("ack") => Coming("ack")'
      BY <1>1, <2>1, <3>1, <3>2, SocketHasGeneration, OneMoreEntry DEF Kind
    <3>4. worker \in {"none", "returned"} BY <1>1, <2>1 DEF IInv, AfterUpgrade, Closing
    <3>5. peer = "greeted" BY <1>1, <1>2, <2>1 DEF IInv, LossIsFinal, Closing
    <3> QED BY <1>1, <2>1, <3>3, <3>4, <3>5 DEF Advances, IsAsked, IsDialing
  <2>2. CASE socket # generation
    <3>1. UNCHANGED queueVars BY <1>1, <2>2 DEF EnqueueMessage, EnqueueIf
    <3>2. Coming("ack")' <=> Coming("ack") BY <1>1, <3>1, SameEntries
    <3> QED BY <1>1, <2>2, <3>2 DEF Advances, IsAsked, IsDialing
  <2> QED BY <2>1, <2>2
<1> QED BY <1>1, <1>2, ConnectionMoves

LEMMA ReceiveDataMoves == ASSUME IInv, IInv', ReceiveData PROVE Moves
<1>1. /\ tcp = "open" /\ UNCHANGED <<tcp, peer>>
      /\ EnqueueIf(generation = socket /\ ~closing, socket, "data")
      /\ UNCHANGED <<generation, closing, worker, socket, batch, sessionVars>>
  BY DEF ReceiveData, Receives, EnqueueMessage
<1>2. socket \in 1..MaxGeneration /\ socket <= generation BY <1>1, SocketHasGeneration
<1>3. Coming("ack")' <=> Coming("ack") BY <1>1, <1>2, NoAckComes DEF Kind
<1> QED BY <1>1, <1>3, ConnectionMoves DEF Advances, IsAsked, IsDialing

LEMMA ReceivePongMoves == ASSUME IInv, IInv', ReceivePong PROVE Moves
<1>1. /\ tcp = "open" /\ UNCHANGED <<tcp, peer>>
      /\ EnqueueIf(TRUE, socket, "pong")
      /\ UNCHANGED <<generation, closing, worker, socket, batch, sessionVars>>
  BY DEF ReceivePong, Receives, EnqueueIf
<1>2. socket \in 1..MaxGeneration /\ socket <= generation BY <1>1, SocketHasGeneration
<1>3. Coming("ack")' <=> Coming("ack") BY <1>1, <1>2, NoAckComes DEF Kind
<1> QED BY <1>1, <1>3, ConnectionMoves DEF Advances, IsAsked, IsDialing

\* Nothing is asked of a Bridge that has gone.
LEMMA NothingIsAsked ==
  ASSUME Coming("ack")' <=> Coming("ack"), ~IsAsked', IsAsked => ~IsDialing',
         ~IsDialing => ~IsDialing'
  PROVE  Advances
BY DEF Advances

LEMMA ReceiveCloseMoves == ASSUME IInv, IInv', ReceiveClose PROVE Moves
<1>1. /\ tcp = "open" /\ tcp' = tcp /\ peer' = "gone"
      /\ EnqueueIf(TRUE, socket, "disconnected")
      /\ UNCHANGED <<generation, closing, worker, socket, batch, sessionVars>>
  BY DEF ReceiveClose, Receives, EnqueueIf
<1>2. socket \in 1..MaxGeneration /\ socket <= generation BY <1>1, SocketHasGeneration
<1>3. Coming("ack")' <=> Coming("ack") BY <1>1, <1>2, NoAckComes DEF Kind
<1>4. IsAsked => worker \in {"none", "returned"} BY DEF IInv, AfterUpgrade, IsAsked
<1>5. ~IsAsked' /\ (IsAsked => ~IsDialing') /\ (~IsDialing => ~IsDialing')
  BY <1>1, <1>4 DEF IsAsked, IsDialing
<1> QED BY <1>1, <1>3, <1>5, NothingIsAsked, ConnectionMoves

LEMMA ReceiveBrokenMoves == ASSUME IInv, IInv', ReceiveBroken PROVE Moves
<1>1. /\ tcp = "open" /\ UNCHANGED <<tcp, peer>>
      /\ EnqueueIf(TRUE, socket, "broken")
      /\ UNCHANGED <<generation, closing, worker, socket, batch, sessionVars>>
  BY DEF ReceiveBroken, Receives, EnqueueIf
<1>2. socket \in 1..MaxGeneration /\ socket <= generation BY <1>1, SocketHasGeneration
<1>3. Coming("ack")' <=> Coming("ack") BY <1>1, <1>2, NoAckComes DEF Kind
<1> QED BY <1>1, <1>3, ConnectionMoves DEF Advances, IsAsked, IsDialing

LEMMA LoseTcpMoves == ASSUME IInv, IInv', LoseTcp PROVE Moves
<1>1. /\ tcp = "open" /\ tcp' = "closed" /\ peer' = peer
      /\ EnqueueIf(connected, socket, "disconnected")
      /\ UNCHANGED <<generation, closing, worker, socket, batch, sessionVars>>
  BY DEF LoseTcp, Receives
<1>2. socket \in 1..MaxGeneration /\ socket <= generation /\ connected \in BOOLEAN
  BY <1>1, SocketHasGeneration DEF IInv, TypeOK
<1>3. Coming("ack")' <=> Coming("ack") BY <1>1, <1>2, NoAckComes DEF Kind
<1>4. IsAsked => worker \in {"none", "returned"} BY DEF IInv, AfterUpgrade, IsAsked
<1>5. ~IsAsked' /\ (IsAsked => ~IsDialing') /\ (~IsDialing => ~IsDialing')
  BY <1>1, <1>4 DEF IsAsked, IsDialing
<1> QED BY <1>1, <1>3, <1>5, NothingIsAsked, ConnectionMoves

LEMMA HangMoves == ASSUME IInv, IInv', Hang PROVE Moves
<1>1. /\ tcp' = tcp /\ peer = "ready" /\ peer' = "hung" /\ UNCHANGED queueVars
      /\ UNCHANGED <<generation, closing, worker, socket, batch, sessionVars>>
  BY DEF Hang, Receives
<1>2. Coming("ack")' <=> Coming("ack") BY <1>1, SameEntries
<1> QED BY <1>1, <1>2, ConnectionMoves DEF Advances, IsAsked, IsDialing
(***************************************************************************)
(* What the session's thread may do to an attempt.                         *)
(***************************************************************************)
LEMMA StaysOff ==
  ASSUME state = "wifi", state' = "wifi", generation' = generation
  PROVE  Moves
BY DEF Moves, Stage

LEMMA StaysOn ==
  ASSUME IInv, IInv', UNCHANGED <<state, closing, pending, generation>>,
         IsLeaving' <=> IsLeaving, Coming("ack")' <=> Coming("ack"),
         IsAsked' <=> IsAsked, IsDialing' <=> IsDialing
  PROVE  Moves
<1>1. Progress' = Progress BY ProgressNow DEF IInv, Course
<1>2. state \in {"wifi", "connecting", "up"} BY DEF IInv, TypeOK
<1>3. CASE state = "connecting" /\ (closing \/ pending) BY <1>3, Lingers
<1>4. CASE ~(state = "connecting" /\ (closing \/ pending))
  BY <1>1, <1>2, <1>4 DEF Moves, Stage
<1> QED BY <1>3, <1>4

LEMMA Leaves ==
  ASSUME state = "up", state' = "up", generation' = generation, IsLeaving => IsLeaving'
  PROVE  Moves
<1>1. /\ Stage = (IF IsLeaving THEN "leaving" ELSE "up")
      /\ Stage' = (IF IsLeaving' THEN "leaving" ELSE "up")
  BY DEF Stage
<1> QED BY <1>1
    DEF Moves, LinkRefinement!LinkNext, LinkRefinement!Leave, LinkRefinement!Goes

LEMMA Ends ==
  ASSUME state \in {"connecting", "up"}, state' = "connecting", closing' \/ pending',
         ~IsAjar', generation' = generation
  PROVE  Moves
<1>1. Stage' = "over" BY DEF Stage
<1>2. Progress \in LinkRefinement!Asking BY DEF Progress, LinkRefinement!Asking
<1>3. Stage \in LinkRefinement!Asking \cup {"ajar", "up", "leaving", "over"} BY <1>2 DEF Stage
<1> QED BY <1>1, <1>3
    DEF Moves, LinkRefinement!LinkNext, LinkRefinement!End, LinkRefinement!Goes

LEMMA ClosedIsNotAjar == closing' => ~IsAjar'
BY DEF IsAjar

LEMMA Dials ==
  ASSUME IInv', Stage \in {"off", "over", "ajar"}, Connect, state' = "connecting"
  PROVE  Moves
<1>1. /\ closing' = FALSE /\ pending' = FALSE /\ worker' = "started"
      /\ generation' = generation + 1
  BY DEF Connect
<1>2. ~Coming("ack")' /\ ~IsAsked' /\ IsDialing'
  BY <1>1 DEF IInv, WorkerIsFirst, Kind, IsAsked, IsDialing
<1>3. Progress' = "dialing" BY <1>2, ProgressNow DEF IInv, Course
<1>4. Stage' = "dialing" BY <1>1, <1>3 DEF Stage
<1> QED BY <1>1, <1>4 DEF Moves, LinkRefinement!LinkNext, LinkRefinement!Dial

LEMMA PollMoves == ASSUME IInv, IInv', Poll PROVE Moves
<1>1. UNCHANGED <<generation, worker, socket, connected, tcp>> /\ state \in {"wifi", "connecting", "up"}
  BY DEF Poll, IInv, TypeOK
<1>2. CASE overflow
  <2>1. /\ pending' = TRUE /\ state' = (IF state = "up" THEN "connecting" ELSE state)
        /\ closing' = TRUE
    BY <1>2 DEF Poll, HandleTransportDisconnected, Close
  <2> QED BY <1>1, <2>1, StaysOff, Ends, ClosedIsNotAjar
<1>3. CASE ~overflow
  <2>1. UNCHANGED <<closing, peer, state, pending, handshake, heartbeat>>
    BY <1>3 DEF Poll, sessionVars, timerVars
  <2>2. ~InBatch("ack") /\ ~InQueue("ack")' BY NothingQueued DEF Poll, InBatch, InQueue
  <2>3. InBatch("ack")' <=> InQueue("ack") BY <1>1 DEF Poll, InBatch, InQueue
  <2>4. /\ IsLeaving' <=> IsLeaving
        /\ IsAsked' <=> IsAsked
        /\ IsDialing' <=> IsDialing
    BY <1>1, <2>1 DEF IsLeaving, IsAsked, IsDialing
  <2> QED BY <1>1, <2>1, <2>2, <2>3, <2>4, StaysOn DEF Coming
<1> QED BY <1>2, <1>3

LEMMA GiveUpMoves == ASSUME IInv, IInv', GiveUp PROVE Moves
BY Leaves DEF GiveUp, IsLeaving, Close

\* An expired timer gives up whatever connection there is.
LEMMA ExpiryMoves ==
  ASSUME IInv, closing' = TRUE, UNCHANGED <<generation, state>>
  PROVE  Moves
<1>1. state \in {"wifi", "connecting", "up"} BY DEF IInv, TypeOK
<1>2. CASE state = "wifi" BY <1>2, StaysOff
<1>3. CASE state = "connecting" BY <1>3, Ends, ClosedIsNotAjar
<1>4. CASE state = "up" BY <1>4, Leaves DEF IsLeaving
<1> QED BY <1>1, <1>2, <1>3, <1>4

LEMMA HandshakeExpiresMoves == ASSUME IInv, IInv', HandshakeExpires PROVE Moves
BY ExpiryMoves DEF HandshakeExpires, GiveUpConnection, Close

LEMMA HeartbeatExpiresMoves == ASSUME IInv, IInv', HeartbeatExpires PROVE Moves
BY ExpiryMoves DEF HeartbeatExpires, GiveUpConnection, Close

LEMMA SendPingMoves == ASSUME IInv, IInv', SendPing PROVE Moves
<1>1. /\ heartbeat = "armed" /\ heartbeat' = "awaiting"
      /\ UNCHANGED <<generation, closing, worker, socket, tcp, peer, state, pending, handshake>>
      /\ UNCHANGED <<generation, batch, queueVars>>
  BY DEF SendPing, Looks
<1>2. Coming("ack")' <=> Coming("ack") BY <1>1, SameEntries
<1> QED BY <1>1, <1>2, StaysOn DEF IsLeaving, IsAsked, IsDialing

LEMMA ScheduleMoves == ASSUME IInv, IInv', Schedule PROVE Moves
<1>1. /\ UNCHANGED <<generation, closing, worker, socket, tcp, peer, state, pending, handshake>>
      /\ UNCHANGED <<generation, batch, queueVars, heartbeat>>
  BY DEF Schedule, Looks
<1>2. Coming("ack")' <=> Coming("ack") BY <1>1, SameEntries
<1> QED BY <1>1, <1>2, StaysOn DEF IsLeaving, IsAsked, IsDialing

\* A generation that is new has not been answered.
LEMMA NewIsNotAjar ==
  ASSUME IInv, IInv', Looks, NoConnect, peer' = peer, generation' # generation \/ generation = 0
  PROVE  ~IsAjar'
<1>1. UNCHANGED <<batch, queueVars, socket, tcp, peer>> BY DEF Looks
<1>2. generation \in Nat /\ generation' \in {generation, generation + 1}
  BY GenerationAssumption DEF NoConnect, Refused, NoThread, IInv, TypeOK
<1>3. CASE generation' # generation
  <2>1. generation' = generation + 1 BY <1>2, <1>3
  <2>2. ~Coming("ack")'
    BY <1>1, <1>2, <2>1, NewGeneration
       DEF IInv, TypeOK, EntriesAreInOrder, Coming, InBatch, InQueue, queueVars
  <2>3. socket' # generation' BY <1>1, <1>2, <2>1 DEF IInv, TypeOK, SocketIsKnown
  <2> QED BY <2>2, <2>3, AjarNow DEF IInv, MayAnswer
<1>4. CASE generation' = generation
  <2>1. generation' = 0 BY <1>4
  <2>2. state' # "up" /\ worker' = "none" BY <2>1 DEF IInv, SocketIsKnown
  <2>3. ~Coming("ack")'
    <3>1. ASSUME NEW q \in Seq(Callback) PROVE ~Has(q, 0, "ack")
      <4>1. ASSUME NEW i \in 1..Len(q) PROVE q[i].gen # 0
        <5>1. q[i] \in Callback BY ElementOfSeq
        <5> QED BY <5>1, GenerationAssumption DEF Callback
      <4> QED BY <4>1 DEF Has, Of
    <3> QED BY <2>1, <3>1 DEF IInv, TypeOK, Coming, InBatch, InQueue
  <2>4. socket' = generation' => tcp' = "none" BY <2>1 DEF IInv, SocketIsKnown
  <2> QED BY <2>3, <2>4, AjarNow DEF IInv, MayAnswer
<1> QED BY <1>3, <1>4

LEMMA WifiConnectedMoves == ASSUME IInv, IInv', WifiConnected PROVE Moves
<1>1. Stage = "off" /\ state' = "connecting" /\ generation = 0 /\ Looks /\ peer' = peer
  BY DEF WifiConnected, Stage, IInv, SocketIsKnown
<1>2. CASE Connect BY <1>1, <1>2, Dials
<1>3. CASE NoConnect
  <2>1. pending' /\ generation' \in {generation, generation + 1}
    BY <1>3 DEF NoConnect, Refused, NoThread
  <2>2. ~IsAjar' BY <1>1, <1>3, NewIsNotAjar
  <2>3. Stage' = "over" BY <1>1, <2>1, <2>2 DEF Stage
  <2> QED BY <1>1, <2>1, <2>3 DEF Moves, LinkRefinement!LinkNext, LinkRefinement!NoDial
<1> QED BY <1>2, <1>3 DEF WifiConnected

LEMMA ReconnectsMoves == ASSUME IInv, IInv', Reconnects PROVE Moves
<1>1. pending /\ state = "connecting" /\ state' = "connecting" /\ Connect
  BY DEF Reconnects, DelayEnds
<1>2. Stage \in {"over", "ajar"} BY <1>1 DEF Stage
<1> QED BY <1>1, <1>2, Dials

LEMMA ReconnectFailsMoves == ASSUME IInv, IInv', ReconnectFails PROVE Moves
<1>1. /\ pending /\ state = "connecting" /\ state' = "connecting" /\ NoConnect /\ Looks
      /\ peer' = peer
  BY DEF ReconnectFails, DelayEnds
<1>2. pending' /\ generation' \in {generation, generation + 1}
  BY <1>1 DEF NoConnect, Refused, NoThread
<1>3. CASE generation' = generation BY <1>1, <1>2, <1>3, Lingers
<1>4. CASE generation' # generation
  <2>1. ~IsAjar' BY <1>1, <1>4, NewIsNotAjar
  <2>2. Stage' = "over" /\ Stage \in {"over", "ajar"} BY <1>1, <1>2, <2>1 DEF Stage
  <2> QED BY <1>2, <2>2 DEF Moves, LinkRefinement!LinkNext, LinkRefinement!NoDial
<1> QED BY <1>3, <1>4

LEMMA ReconnectRefusedMoves == ASSUME IInv, IInv', ReconnectRefused PROVE Moves
<1>1. state # "connecting" /\ UNCHANGED <<state, generation, closing, pending, handshake, heartbeat>>
  BY DEF ReconnectRefused, DelayEnds, Refused
<1>2. state \in {"wifi", "up"} BY <1>1 DEF IInv, TypeOK
<1> QED BY <1>1, <1>2, StaysOff, Leaves DEF IsLeaving

(***************************************************************************)
(* A callback is run or dropped.                                           *)
(***************************************************************************)
\* What taking the callback leaves in place.
Kept(h) ==
  /\ UNCHANGED <<generation, worker, socket, connected, tcp>>
  /\ Coming("ack")' => Coming("ack")
  /\ Coming("ack") => Coming("ack")' \/ Of(h, generation, "ack")

LEMMA TakenKeeps ==
  ASSUME NEW h, Taken(h)
  PROVE  Kept(h)
BY DEF Taken, Kept

LEMMA DroppedMoves ==
  ASSUME IInv, IInv', NEW h \in Callback, Kept(h), ~Wanted(h),
         UNCHANGED <<closing, peer, sessionVars>>
  PROVE  Moves
<1>1. /\ UNCHANGED <<generation, worker, socket, tcp, closing, peer, state, pending, handshake>>
      /\ heartbeat' = heartbeat
  BY DEF Kept, sessionVars, timerVars
<1>2. /\ IsLeaving' <=> IsLeaving
      /\ IsAsked' <=> IsAsked
      /\ IsDialing' <=> IsDialing
  BY <1>1 DEF IsLeaving, IsAsked, IsDialing
<1>3. CASE Of(h, generation, "ack")
  <2>1. closing BY <1>3 DEF Wanted, RequiresOpen, Of
  <2>2. state \in {"wifi", "connecting", "up"} BY DEF IInv, TypeOK
  <2>3. CASE state = "connecting" BY <1>1, <2>1, <2>3, Lingers DEF Kept
  <2>4. CASE state # "connecting" BY <1>1, <1>2, <2>2, <2>4 DEF Moves, Stage
  <2> QED BY <2>3, <2>4
<1>4. CASE ~Of(h, generation, "ack") BY <1>1, <1>2, <1>4, StaysOn DEF Kept
<1> QED BY <1>3, <1>4

LEMMA OnConnectedMoves ==
  ASSUME IInv, IInv', NEW h \in Callback, Kept(h), Of(h, generation, "connected"),
         Coming("connected"), generation # 0, OnConnected
  PROVE  Moves
<1>1. /\ UNCHANGED <<generation, worker, socket, tcp, state>>
      /\ state \in {"wifi", "connecting", "up"}
  BY DEF Kept, OnConnected, IInv, TypeOK
<1>2. /\ ~Acked /\ worker \in {"none", "returned"}
      /\ socket = generation => peer \notin {"greeted", "ready", "hung"}
  BY DEF IInv, AfterUpgrade, AckAfterGreeting
<1>3. state # "up" /\ ~Coming("ack") /\ ~Coming("ack")'
  BY <1>2 DEF Acked, Kept
<1>4. CASE state = "wifi" BY <1>1, <1>4, StaysOff
<1>5. CASE state = "connecting" /\ (closing' \/ pending')
  <2>1. CASE closing' BY <1>1, <1>5, <2>1, Ends, ClosedIsNotAjar
  <2>2. CASE ~closing'
    <3>1. UNCHANGED <<closing, pending>> BY <2>2 DEF OnConnected, Close
    <3> QED BY <1>1, <1>5, <2>2, <3>1, Lingers
  <2> QED BY <2>1, <2>2
<1>6. CASE state = "connecting" /\ ~closing' /\ ~pending'
  <2>1. /\ connected /\ tcp = "open" /\ UNCHANGED <<closing, pending>>
        /\ peer' = IF peer = "waiting" THEN "greeted" ELSE peer
    BY <1>6 DEF OnConnected, Close
  <2>2. socket = generation BY <2>1 DEF IInv, SocketIsKnown, Kind
  <2>3. Stage = Progress /\ Stage' = Progress'
    BY <1>1, <1>6, <2>1 DEF Stage
  <2>4. /\ Progress = Course(FALSE, IsAsked, IsDialing)
        /\ Progress' = Course(FALSE, IsAsked', IsDialing')
    BY <1>3, ProgressNow DEF IInv, Course
  <2>5. CASE peer = "waiting"
    <3>1. ~IsAsked /\ IsDialing /\ IsAsked'
      BY <1>1, <2>1, <2>2, <2>5 DEF IsAsked, IsDialing
    <3> QED BY <1>1, <2>3, <2>4, <3>1
        DEF Course, Moves, LinkRefinement!LinkNext, LinkRefinement!Ask, LinkRefinement!Goes
  <2>6. CASE peer # "waiting"
    <3>1. (IsAsked' <=> IsAsked) /\ (IsDialing' <=> IsDialing)
      BY <1>1, <2>1, <2>6 DEF IsAsked, IsDialing
    <3> QED BY <1>1, <2>3, <2>4, <3>1 DEF Course, Moves
  <2> QED BY <2>5, <2>6
<1> QED BY <1>1, <1>3, <1>4, <1>5, <1>6

\* A lost connection, reported or failed, ends the session or the attempt.
LEMMA OnLossMoves ==
  ASSUME IInv, NEW h, Kept(h), HandleTransportDisconnected, ~IsAjar'
  PROVE  Moves
<1>1. /\ pending' = TRUE /\ generation' = generation
      /\ state' = IF state = "up" THEN "connecting" ELSE state
  BY DEF HandleTransportDisconnected, Kept
<1>2. state \in {"wifi", "connecting", "up"} BY DEF IInv, TypeOK
<1> QED BY <1>1, <1>2, StaysOff, Ends

LEMMA OnPongMoves ==
  ASSUME IInv, IInv', NEW h, Kept(h), ~Of(h, generation, "ack"),
         heartbeat' = (IF heartbeat = "awaiting" THEN "armed" ELSE heartbeat),
         UNCHANGED <<closing, peer, state, pending, scheduled, handshake>>
  PROVE  Moves
<1>1. IsLeaving' <=> IsLeaving BY DEF IsLeaving
<1>2. (IsAsked' <=> IsAsked) /\ (IsDialing' <=> IsDialing) BY DEF Kept, IsAsked, IsDialing
<1> QED BY <1>1, <1>2, StaysOn DEF Kept

LEMMA OnDataMoves ==
  ASSUME IInv, IInv', NEW h \in Callback, Kept(h), h.kind \in {"ack", "data"},
         Coming(h.kind), h.gen = generation, generation # 0, ~closing, OnData(h.kind)
  PROVE  Moves
<1>1. generation' = generation /\ state \in {"connecting", "up"}
  BY DEF Kept, IInv, TypeOK, SocketIsKnown
<1>2. CASE state = "connecting" /\ h.kind = "ack"
  <2>1. /\ state' = "up" /\ handshake' = FALSE /\ heartbeat' = "armed"
        /\ UNCHANGED <<closing, pending>>
    BY <1>2 DEF OnData
  <2>2. Coming("ack") BY <1>2
  <2>3. CASE ~pending
    <3>1. Progress = "answered" BY <2>2, ProgressNow DEF IInv, Course
    <3>2. Stage = "answered" BY <1>2, <2>3, <3>1 DEF Stage
    <3>3. ~IsLeaving' BY <2>1, <2>3 DEF IsLeaving
    <3>4. Stage' = "up" BY <2>1, <3>3 DEF Stage
    <3> QED BY <1>1, <3>2, <3>4
        DEF Moves, LinkRefinement!LinkNext, LinkRefinement!Establish, LinkRefinement!Goes
  <2>4. CASE pending
    <3>1. IsAjar BY <2>2, AjarNow DEF IInv
    <3>2. Stage = "ajar" BY <1>2, <2>4, <3>1 DEF Stage
    <3>3. Stage' = "leaving" BY <2>1, <2>4 DEF Stage, IsLeaving
    <3> QED BY <1>1, <3>2, <3>3
        DEF Moves, LinkRefinement!LinkNext, LinkRefinement!EstablishLate, LinkRefinement!Goes
  <2> QED BY <2>3, <2>4
<1>3. CASE state = "connecting" /\ h.kind # "ack"
  <2>1. state' = "connecting" /\ closing' = TRUE BY <1>3 DEF OnData, Close, sessionVars
  <2> QED BY <1>1, <1>3, <2>1, Ends, ClosedIsNotAjar
<1>4. CASE state = "up"
  <2>1. state' = "up" /\ (IsLeaving => IsLeaving')
    BY <1>4 DEF OnData, GiveUpConnection, Close, IsLeaving, sessionVars, timerVars
  <2> QED BY <1>1, <1>4, <2>1, Leaves
<1> QED BY <1>1, <1>2, <1>3, <1>4

LEMMA DeliverMoves == ASSUME IInv, IInv', Deliver PROVE Moves
<1> DEFINE h == Head(batch)
<1>1. h \in Callback /\ Taken(h) BY EntryTaken
<1>2. Kept(h) BY <1>1, TakenKeeps
<1>3. CASE ~Wanted(h) BY <1>1, <1>2, <1>3, DroppedMoves DEF Deliver
<1>4. CASE Wanted(h)
  <2>1. h.gen = generation /\ Run(h.kind) BY <1>4 DEF Deliver, Wanted
  <2>2. RequiresOpen(h) => ~closing BY <1>4 DEF Wanted
  <2>3. generation # 0 BY <1>1, <2>1 DEF Callback
  <2>4. Coming(h.kind) BY <1>1, <2>1 DEF Taken, Of
  <2> HIDE DEF h
  <2>5. CASE h.kind = "connected"
    BY <1>1, <1>2, <2>1, <2>3, <2>4, <2>5, OnConnectedMoves DEF Run, Of
  <2>6. CASE h.kind \in {"disconnected", "broken", "failed"}
    <3>1. CASE h.kind = "disconnected"
      <4>1. UNCHANGED <<closing, peer>> /\ HandleTransportDisconnected BY <2>1, <3>1 DEF Run
      <4>2. ~Coming("ack")' BY <1>1, <2>1, <3>1 DEF Taken, Of
      <4>3. socket = generation => peer = "gone" \/ tcp # "open"
        BY <2>4, <3>1 DEF IInv, LossIsFinal
      <4>4. ~IsAjar' BY <1>2, <4>1, <4>2, <4>3, AjarNow DEF IInv, MayAnswer, Kept
      <4> QED BY <1>2, <4>1, <4>4, OnLossMoves
    <3>2. CASE h.kind # "disconnected"
      <4>1. HandleTransportDisconnected /\ closing' = TRUE BY <2>1, <2>6, <3>2 DEF Run, Close
      <4> QED BY <1>2, <4>1, OnLossMoves, ClosedIsNotAjar
    <3> QED BY <3>1, <3>2
  <2>7. CASE h.kind = "pong"
    BY <1>2, <2>1, <2>7, OnPongMoves DEF Run, Of
  <2>8. CASE h.kind \in {"ack", "data"}
    BY <1>1, <1>2, <2>1, <2>2, <2>3, <2>4, <2>8, OnDataMoves DEF Run, RequiresOpen
  <2> QED BY <1>1, <2>5, <2>6, <2>7, <2>8 DEF Callback, Kind
<1> QED BY <1>3, <1>4

\* Every step of the three threads is a step of BridgeLink, or none that it sees.
LEMMA EveryStepMoves == ASSUME IInv, IInv', [Next]_vars PROVE Moves
<1>1. CASE SessionNext
  BY <1>1, PollMoves, DeliverMoves, GiveUpMoves, HandshakeExpiresMoves, SendPingMoves,
     HeartbeatExpiresMoves, ScheduleMoves, WifiConnectedMoves, ReconnectsMoves,
     ReconnectFailsMoves, ReconnectRefusedMoves, Zenon
     DEF SessionNext
<1>2. CASE WorkerNext
  BY <1>2, DropPreviousMoves, CreateSocketMoves, BeginConnectMoves, UpgradeMoves,
     UpgradeFailsMoves, WorkerEndsMoves, Zenon
     DEF WorkerNext
<1>3. CASE ReceiveNext
  BY <1>3, ReceiveAckMoves, ReceiveDataMoves, ReceivePongMoves, ReceiveCloseMoves,
     ReceiveBrokenMoves, LoseTcpMoves, HangMoves, Zenon
     DEF ReceiveNext
<1>4. CASE UNCHANGED vars
  <2>1. Coming("ack")' <=> Coming("ack") BY <1>4, SameEntries DEF vars, queueVars
  <2> QED BY <1>4, <2>1, StaysOn
      DEF vars, socketVars, queueVars, sessionVars, timerVars, IsLeaving, IsAsked, IsDialing
<1> QED BY <1>1, <1>2, <1>3, <1>4 DEF Next

\* A session is established once per connection attempt, by the hello_ack of that attempt
\* and with nothing left over from an older one, and is over before the next attempt; a late
\* hello_ack, let through by a failed connect, leads to a session that is to be left
\* (handleHelloAck, reconnect, generations of poll).
THEOREM LinkImplementsBridgeLink == Spec => ImplementsLink
<1>1. Init => LinkRefinement!LinkInit BY DEF Init, Stage, LinkRefinement!LinkInit
<1>2. IInv /\ IInv' /\ [Next]_vars => [LinkRefinement!LinkNext]_(LinkRefinement!linkVars)
  BY EveryStepMoves DEF Moves, LinkRefinement!linkVars
<1> QED BY <1>1, <1>2, Invariance, PTL DEF Spec, ImplementsLink, LinkRefinement!LinkSpec
=============================================================================
