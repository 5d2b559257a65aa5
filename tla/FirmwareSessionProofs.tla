----------------------- MODULE FirmwareSessionProofs -----------------------
(***************************************************************************)
(* Proofs about FirmwareSession for every number of streams, segments and  *)
(* inputs and every length of the queues: types, the agreement of state    *)
(* and streams, late control, silence after SPEAKING, and that a speaking  *)
(* device plays its stream only. The last rests on the order of the        *)
(* streams on the wire: they are started in increasing order, each after   *)
(* the end of the one before unless nobody ends that one. What follows an  *)
(* open stream on the wire is therefore its own until its end, and never   *)
(* older if it has none; and everything older, in the decoder or           *)
(* remembered from a barge-in, has a smaller number than any stream still  *)
(* to be started.                                                          *)
(***************************************************************************)
EXTENDS FirmwareSession, SequenceTheorems, TLAPS

(***************************************************************************)
(* The numbers of turns and streams.                                       *)
(***************************************************************************)
LEMMA DivIsMonotonic ==
  ASSUME NEW a \in Nat, NEW b \in Nat, a <= b, NEW n \in Nat \ {0}
  PROVE  a \div n \in Nat /\ a \div n <= b \div n
<1> DEFINE p == a \div n
           q == b \div n
<1>1. /\ p \in Nat /\ n * p <= a
      /\ q \in Nat /\ b < n * q + n
  OBVIOUS
<1> HIDE DEF p, q
<1>2. ASSUME p >= q + 1 PROVE FALSE
  <2>1. n * p >= n * (q + 1) BY <1>1, <1>2
  <2>2. n * (q + 1) = n * q + n BY <1>1
  <2>3. n * p \in Nat /\ n * q \in Nat BY <1>1
  <2> QED BY <1>1, <2>1, <2>2, <2>3
<1> QED BY <1>1, <1>2 DEF p, q

LEMMA TurnsAreBounded ==
  /\ Turns \in Nat
  /\ \A s \in 0..Streams : TurnOf(s) \in 0..Turns
<1>1. Streams \in Nat /\ Segments \in Nat /\ Segments # 0 BY StreamAssumption
<1>2. Turns \in Nat BY <1>1, DivIsMonotonic DEF Turns
<1>3. ASSUME NEW s \in 0..Streams PROVE TurnOf(s) \in 0..Turns
  <2>1. /\ s + Segments - 1 \in Nat /\ Streams + Segments - 1 \in Nat
        /\ s + Segments - 1 <= Streams + Segments - 1
    BY <1>1
  <2>2. TurnOf(s) \in Nat /\ TurnOf(s) <= Turns
    BY <1>1, <2>1, DivIsMonotonic DEF TurnOf, Turns
  <2> QED BY <1>2, <2>2
<1> QED BY <1>2, <1>3

LEMMA StreamsIncrease ==
  ASSUME TypeOK
  PROVE  NextStream \in Nat /\ NextStream > sent
<1>1. Segments * over \in Nat
  <2>1. Segments \in Nat /\ over \in Nat BY StreamAssumption, TurnsAreBounded DEF TypeOK
  <2> QED BY <2>1
<1>2. sent \in Nat BY StreamAssumption DEF TypeOK
<1> QED BY <1>1, <1>2 DEF NextStream

(***************************************************************************)
(* The order of the messages on the wire.                                  *)
(***************************************************************************)
Starts(w, i) == w[i].kind = "start"
Ends(w, i, s) == w[i].kind = "end" /\ w[i].of = s

\* Streams are started in increasing order, each after the end of the one before it but for
\* those in E, which nobody ends, and packets belong to the stream started last.
StreamsInOrder(w, E) ==
  \A i, j \in 1..Len(w) :
    Starts(w, i) /\ i < j =>
      /\ Starts(w, j) =>
           /\ w[i].of < w[j].of
           /\ w[i].of \in E \/ \E k \in 1..Len(w) : i < k /\ k < j /\ Ends(w, k, w[i].of)
      /\ w[j].kind = "packet" =>
           w[j].of = w[i].of \/ \E k \in 1..Len(w) : i < k /\ k < j /\ Starts(w, k)

\* The same for what is on the wire and the stream s that is open.
Continues(w, s) ==
  \A j \in 1..Len(w) :
    /\ Starts(w, j) => \E k \in 1..Len(w) : k < j /\ Ends(w, k, s)
    /\ w[j].kind = "packet" =>
         w[j].of = s \/ \E k \in 1..Len(w) : k < j /\ Starts(w, k)

\* The Bridge has ended all streams but the one it is playing and those in E, and started the
\* last one last.
Sending(w, p, last, E) ==
  \A i \in 1..Len(w) : Starts(w, i) =>
    /\ w[i].of \in E \cup {p} \/ \E j \in 1..Len(w) : i < j /\ Ends(w, j, w[i].of)
    /\ w[i].of <= last
    /\ \E j \in 1..Len(w) : Starts(w, j) /\ w[j].of = last

HasEnd(w, s) == \E j \in 1..Len(w) : Ends(w, j, s)
HasStart(w, s) == \E j \in 1..Len(w) : Starts(w, j) /\ w[j].of = s

\* All starts on the wire are newer than n.
Before(n, w) == \A i \in 1..Len(w) : Starts(w, i) => n < w[i].of

\* No packet on the wire is older than n.
Reaches(n, w) == \A i \in 1..Len(w) : w[i].kind = "packet" => n <= w[i].of

\* Starts and packets come in the order of their streams, up to the last one.
Aging(w, last) ==
  \A i \in 1..Len(w) : w[i].kind \in {"start", "packet"} =>
    /\ w[i].of <= last
    /\ \A j \in 1..Len(w) : i < j =>
         /\ Starts(w, j) => w[i].of < w[j].of
         /\ w[j].kind = "packet" => w[i].of <= w[j].of

LEMMA NumberOfMessage ==
  ASSUME NEW w \in Seq(Message), NEW i \in 1..Len(w)
  PROVE  /\ w[i].of \in Int /\ w[i].of > 0
         /\ w[i] \in Message
<1>1. w[i] \in Message BY ElementOfSeq
<1>2. Turns \in Nat /\ Streams \in Nat /\ Inputs \in Nat BY TurnsAreBounded, StreamAssumption
<1> QED BY <1>1, <1>2 DEF Message

\* What a message must fulfil to be appended in order.
LEMMA OrderIsKept ==
  ASSUME NEW w \in Seq(Message), NEW m \in Message, NEW E, StreamsInOrder(w, E),
         m.kind = "start" => \A i \in 1..Len(w) : Starts(w, i) =>
           /\ w[i].of < m.of
           /\ w[i].of \in E \/ \E k \in 1..Len(w) : i < k /\ Ends(w, k, w[i].of),
         m.kind = "packet" => \A i \in 1..Len(w) : Starts(w, i) =>
           w[i].of = m.of \/ \E k \in 1..Len(w) : i < k /\ Starts(w, k)
  PROVE  StreamsInOrder(Append(w, m), E)
<1> DEFINE a == Append(w, m)
<1>1. /\ Len(a) = Len(w) + 1 /\ a[Len(w) + 1] = m
      /\ \A i \in 1..Len(w) : a[i] = w[i]
  OBVIOUS
<1>2. Len(w) \in Nat OBVIOUS
<1>3. /\ \A i \in 1..Len(w) : i \in 1..Len(a) /\ (Starts(a, i) <=> Starts(w, i))
      /\ \A i \in 1..Len(w) : \A n : Ends(a, i, n) <=> Ends(w, i, n)
  BY <1>1, <1>2 DEF Starts, Ends
<1>4. Starts(a, Len(w) + 1) <=> m.kind = "start" BY <1>1 DEF Starts
<1> HIDE DEF a
<1>5. ASSUME NEW i \in 1..Len(a), NEW j \in 1..Len(a), Starts(a, i), i < j
      PROVE  /\ Starts(a, j) =>
                  /\ a[i].of < a[j].of
                  /\ a[i].of \in E \/ \E k \in 1..Len(a) : i < k /\ k < j /\ Ends(a, k, a[i].of)
             /\ a[j].kind = "packet" =>
                  a[j].of = a[i].of \/ \E k \in 1..Len(a) : i < k /\ k < j /\ Starts(a, k)
  <2>1. i \in 1..Len(w) /\ Starts(w, i) /\ a[i] = w[i] BY <1>1, <1>2, <1>3, <1>5
  <2>2. CASE j \in 1..Len(w)
    <3>1. a[j] = w[j] /\ (Starts(a, j) <=> Starts(w, j)) BY <1>1, <1>3, <2>2
    <3>2. Starts(w, j) =>
            /\ w[i].of < w[j].of
            /\ w[i].of \in E \/ \E k \in 1..Len(w) : i < k /\ k < j /\ Ends(w, k, w[i].of)
      BY <1>5, <2>1, <2>2 DEF StreamsInOrder
    <3>3. w[j].kind = "packet" => w[j].of = w[i].of \/ \E k \in 1..Len(w) : i < k /\ k < j /\ Starts(w, k)
      BY <1>5, <2>1, <2>2 DEF StreamsInOrder
    <3> QED BY <1>3, <2>1, <3>1, <3>2, <3>3
  <2>3. CASE j = Len(w) + 1
    <3>1. a[j] = m /\ \A k \in 1..Len(w) : k < j BY <1>1, <1>2, <2>3
    <3> QED BY <1>3, <1>4, <2>1, <2>3, <3>1
  <2> QED BY <1>1, <1>2, <2>2, <2>3
<1> QED BY <1>5 DEF StreamsInOrder, a

\* The Bridge starts the stream s, greater than the last one, while it plays none.
LEMMA StartIsSaid ==
  ASSUME NEW w \in Seq(Message), NEW s \in 1..Streams, NEW m \in Message, m.kind = "start", m.of = s,
         NEW last \in Int, last < s, NEW E, StreamsInOrder(w, E), Sending(w, 0, last, E)
  PROVE  /\ StreamsInOrder(Append(w, m), E) /\ Sending(Append(w, m), s, s, E)
         /\ HasStart(Append(w, m), s)
         /\ \A n : Continues(w, n) /\ HasEnd(w, n) => Continues(Append(w, m), n)
<1>1. /\ Len(Append(w, m)) = Len(w) + 1 /\ Append(w, m)[Len(w) + 1] = m
      /\ \A i \in 1..Len(w) : Append(w, m)[i] = w[i]
  OBVIOUS
<1>2. Len(w) \in Nat OBVIOUS
<1>3. Starts(Append(w, m), Len(w) + 1) BY <1>1 DEF Starts
<1>4. \A i \in 1..Len(w) : Starts(Append(w, m), i) =>
        /\ Starts(w, i)
        /\ w[i].of < s
        /\ w[i].of \in E \/ \E j \in 1..Len(w) : i < j /\ Ends(w, j, w[i].of)
  BY <1>1, NumberOfMessage, StreamAssumption DEF Sending, Starts
<1>5. StreamsInOrder(Append(w, m), E) BY <1>1, <1>4, OrderIsKept DEF Starts
<1>6. Sending(Append(w, m), s, s, E)
  <2> SUFFICES ASSUME NEW i \in 1..Len(w) + 1, Starts(Append(w, m), i)
               PROVE  /\ \/ Append(w, m)[i].of \in E \cup {s}
                         \/ \E j \in 1..Len(w) + 1 : i < j /\ Ends(Append(w, m), j, Append(w, m)[i].of)
                      /\ Append(w, m)[i].of <= s
    BY <1>1, <1>2, <1>3 DEF Sending
  <2>1. CASE i = Len(w) + 1 BY <1>1, <2>1
  <2>2. CASE i \in 1..Len(w)
    <3>1. Starts(Append(w, m), i) /\ Append(w, m)[i] = w[i] BY <1>1, <2>2
    <3>2. w[i].of <= s BY <1>4, <2>2, <3>1, NumberOfMessage
    <3>3. CASE w[i].of \in E BY <3>1, <3>2, <3>3
    <3>4. CASE w[i].of \notin E
      <4>1. PICK j \in 1..Len(w) : i < j /\ Ends(w, j, w[i].of) BY <1>4, <2>2, <3>1, <3>4
      <4>2. j \in 1..Len(w) + 1 /\ Ends(Append(w, m), j, Append(w, m)[i].of)
        BY <1>1, <1>2, <3>1, <4>1 DEF Ends
      <4> QED BY <3>1, <3>2, <4>1, <4>2
    <3> QED BY <3>3, <3>4
  <2> QED BY <1>2, <2>1, <2>2
<1>7. HasStart(Append(w, m), s) BY <1>1, <1>2, <1>3 DEF HasStart
<1>8. ASSUME NEW n, Continues(w, n), HasEnd(w, n) PROVE Continues(Append(w, m), n)
  <2>1. PICK k \in 1..Len(w) : Ends(w, k, n) BY <1>8 DEF HasEnd
  <2>2. k \in 1..Len(w) + 1 /\ k < Len(w) + 1 /\ Ends(Append(w, m), k, n) BY <1>1, <1>2, <2>1
      DEF Ends
  <2> SUFFICES ASSUME NEW j \in 1..Len(w) + 1
               PROVE  /\ Starts(Append(w, m), j) =>
                           \E l \in 1..Len(w) + 1 : l < j /\ Ends(Append(w, m), l, n)
                      /\ Append(w, m)[j].kind = "packet" =>
                           \/ Append(w, m)[j].of = n
                           \/ \E l \in 1..Len(w) + 1 : l < j /\ Starts(Append(w, m), l)
    BY <1>1 DEF Continues
  <2>3. CASE j = Len(w) + 1 BY <1>1, <2>2, <2>3
  <2>4. CASE j \in 1..Len(w) BY <1>1, <1>2, <1>8, <2>4 DEF Continues, Starts, Ends
  <2> QED BY <1>2, <2>3, <2>4
<1> QED BY <1>5, <1>6, <1>7, <1>8

LEMMA PacketIsSaid ==
  ASSUME NEW w \in Seq(Message), NEW p \in 1..Streams, NEW m \in Message, m.kind = "packet", m.of = p,
         NEW E, StreamsInOrder(w, E), Sending(w, p, p, E)
  PROVE  /\ StreamsInOrder(Append(w, m), E) /\ Sending(Append(w, m), p, p, E)
         /\ \A n : Continues(w, n) /\ (n = p \/ HasStart(w, p)) => Continues(Append(w, m), n)
         /\ \A n : HasEnd(w, n) => HasEnd(Append(w, m), n)
         /\ \A n : HasStart(w, n) => HasStart(Append(w, m), n)
<1>1. /\ Len(Append(w, m)) = Len(w) + 1 /\ Append(w, m)[Len(w) + 1] = m
      /\ \A i \in 1..Len(w) : Append(w, m)[i] = w[i]
  OBVIOUS
<1>2. Len(w) \in Nat OBVIOUS
<1>3. \A i \in 1..Len(Append(w, m)) : Starts(Append(w, m), i) => i \in 1..Len(w) /\ Starts(w, i)
  BY <1>1, <1>2 DEF Starts
<1>4. ASSUME NEW i \in 1..Len(w), Starts(w, i), w[i].of # p
      PROVE  \E k \in 1..Len(w) : i < k /\ Starts(w, k)
  <2>1. PICK j \in 1..Len(w) : Starts(w, j) /\ w[j].of = p BY <1>4 DEF Sending
  <2>2. w[i].of < p BY <1>4, NumberOfMessage, StreamAssumption DEF Sending
  <2>3. ~(j < i) BY <1>4, <2>1, <2>2, NumberOfMessage, StreamAssumption DEF StreamsInOrder
  <2>4. i # j BY <1>4, <2>1
  <2> QED BY <1>2, <2>1, <2>3, <2>4
<1>5. StreamsInOrder(Append(w, m), E) BY <1>1, <1>4, OrderIsKept
<1>6. Sending(Append(w, m), p, p, E)
  BY <1>1, <1>2, <1>3 DEF Sending, Ends, Starts
<1>7. ASSUME NEW n, Continues(w, n), n = p \/ HasStart(w, p) PROVE Continues(Append(w, m), n)
  BY <1>1, <1>2, <1>7 DEF Continues, HasStart, Starts, Ends
<1> QED BY <1>1, <1>2, <1>5, <1>6, <1>7 DEF HasEnd, HasStart, Ends, Starts

LEMMA EndIsSaid ==
  ASSUME NEW w \in Seq(Message), NEW p \in 1..Streams, NEW m \in Message, m.kind = "end", m.of = p,
         NEW E, StreamsInOrder(w, E), Sending(w, p, p, E)
  PROVE  /\ StreamsInOrder(Append(w, m), E) /\ Sending(Append(w, m), 0, p, E)
         /\ \A n : Continues(w, n) => Continues(Append(w, m), n)
         /\ \A n : n = p \/ HasEnd(w, n) => HasEnd(Append(w, m), n)
         /\ \A n : HasStart(w, n) => HasStart(Append(w, m), n)
<1>1. /\ Len(Append(w, m)) = Len(w) + 1 /\ Append(w, m)[Len(w) + 1] = m
      /\ \A i \in 1..Len(w) : Append(w, m)[i] = w[i]
  OBVIOUS
<1>2. Len(w) \in Nat OBVIOUS
<1>3. \A i \in 1..Len(Append(w, m)) : Starts(Append(w, m), i) => i \in 1..Len(w) /\ Starts(w, i)
  BY <1>1, <1>2 DEF Starts
<1>4. Ends(Append(w, m), Len(w) + 1, p) BY <1>1 DEF Ends
<1>5. StreamsInOrder(Append(w, m), E) BY OrderIsKept
<1>6. Sending(Append(w, m), 0, p, E)
  BY <1>1, <1>2, <1>3, <1>4 DEF Sending, Ends, Starts
<1>7. ASSUME NEW n, Continues(w, n) PROVE Continues(Append(w, m), n)
  BY <1>1, <1>2, <1>3, <1>7, SMTT(30) DEF Continues, Starts, Ends
<1>8. \A n : n = p \/ HasEnd(w, n) => HasEnd(Append(w, m), n)
  BY <1>1, <1>2, <1>4 DEF HasEnd, Ends
<1>9. \A n : HasStart(w, n) => HasStart(Append(w, m), n)
  BY <1>1, <1>2 DEF HasStart, Starts
<1> QED BY <1>5, <1>6, <1>7, <1>8, <1>9

LEMMA OtherIsSaid ==
  ASSUME NEW w \in Seq(Message), NEW m \in Message, m.kind \in {"cancel", "fault"},
         NEW p, NEW last, NEW E, StreamsInOrder(w, E), Sending(w, p, last, E)
  PROVE  /\ StreamsInOrder(Append(w, m), E) /\ Sending(Append(w, m), p, last, E)
         /\ \A n : Continues(w, n) => Continues(Append(w, m), n)
         /\ \A n : HasEnd(w, n) => HasEnd(Append(w, m), n)
         /\ \A n : HasStart(w, n) => HasStart(Append(w, m), n)
<1>1. /\ Len(Append(w, m)) = Len(w) + 1 /\ Append(w, m)[Len(w) + 1] = m
      /\ \A i \in 1..Len(w) : Append(w, m)[i] = w[i]
  OBVIOUS
<1>2. Len(w) \in Nat OBVIOUS
<1>3. \A i \in 1..Len(Append(w, m)) : Starts(Append(w, m), i) => i \in 1..Len(w) /\ Starts(w, i)
  BY <1>1, <1>2 DEF Starts
<1>4. Append(w, m)[Len(w) + 1].kind \notin {"start", "packet", "end"} BY <1>1
<1>5. StreamsInOrder(Append(w, m), E) BY <1>1, <1>4, OrderIsKept
<1>6. Sending(Append(w, m), p, last, E)
  BY <1>1, <1>2, <1>3, <1>4 DEF Sending, Ends, Starts
<1>7. ASSUME NEW n, Continues(w, n) PROVE Continues(Append(w, m), n)
  BY <1>1, <1>2, <1>3, <1>4, <1>7 DEF Continues, Starts, Ends
<1> QED BY <1>1, <1>2, <1>5, <1>6, <1>7 DEF HasEnd, HasStart, Ends, Starts

\* What a message must fulfil to be appended after n.
LEMMA NumbersWhileSaid ==
  ASSUME NEW w \in Seq(Message), NEW m \in Message, NEW n
  PROVE  /\ Before(n, w) /\ (m.kind = "start" => n < m.of) => Before(n, Append(w, m))
         /\ Reaches(n, w) /\ (m.kind = "packet" => n <= m.of) => Reaches(n, Append(w, m))
<1>1. /\ Len(Append(w, m)) = Len(w) + 1 /\ Append(w, m)[Len(w) + 1] = m
      /\ \A i \in 1..Len(w) : Append(w, m)[i] = w[i]
  OBVIOUS
<1>2. Len(w) \in Nat OBVIOUS
<1> QED BY <1>1, <1>2 DEF Before, Reaches, Starts

\* What a message must fulfil to be appended in the order of the streams.
LEMMA AgeIsKept ==
  ASSUME NEW w \in Seq(Message), NEW m \in Message, NEW last \in Int, NEW next \in Int,
         Aging(w, last), last <= next,
         m.kind = "start" => m.of = next /\ last < next,
         m.kind = "packet" => m.of = next
  PROVE  Aging(Append(w, m), next)
<1>1. /\ Len(Append(w, m)) = Len(w) + 1 /\ Append(w, m)[Len(w) + 1] = m
      /\ \A i \in 1..Len(w) : Append(w, m)[i] = w[i]
  OBVIOUS
<1>2. Len(w) \in Nat OBVIOUS
<1> SUFFICES ASSUME NEW i \in 1..Len(w) + 1, Append(w, m)[i].kind \in {"start", "packet"}
             PROVE  /\ Append(w, m)[i].of <= next
                    /\ \A j \in 1..Len(w) + 1 : i < j =>
                         /\ Starts(Append(w, m), j) => Append(w, m)[i].of < Append(w, m)[j].of
                         /\ Append(w, m)[j].kind = "packet" => Append(w, m)[i].of <= Append(w, m)[j].of
  BY <1>1, <1>2 DEF Aging
<1>3. CASE i = Len(w) + 1 BY <1>1, <1>2, <1>3
<1>4. CASE i \in 1..Len(w)
  <2>1. Append(w, m)[i] = w[i] /\ w[i].of \in Int /\ w[i].of <= last
    BY <1>1, <1>4, NumberOfMessage DEF Aging
  <2>2. \A j \in 1..Len(w) : i < j =>
          /\ Starts(Append(w, m), j) => w[i].of < w[j].of
          /\ w[j].kind = "packet" => w[i].of <= w[j].of
    BY <1>1, <1>4, <2>1 DEF Aging, Starts
  <2>3. ASSUME NEW j \in 1..Len(w) + 1, i < j
        PROVE  /\ Starts(Append(w, m), j) => w[i].of < Append(w, m)[j].of
               /\ Append(w, m)[j].kind = "packet" => w[i].of <= Append(w, m)[j].of
    <3>1. CASE j \in 1..Len(w) BY <1>1, <2>2, <2>3, <3>1
    <3>2. CASE j = Len(w) + 1 BY <1>1, <2>1, <3>2 DEF Starts
    <3> QED BY <1>2, <3>1, <3>2
  <2> QED BY <2>1, <2>3
<1> QED BY <1>2, <1>3, <1>4

LEMMA AgeIsTaken ==
  ASSUME NEW w \in Seq(Message), w # <<>>, NEW last \in Int, Aging(w, last)
  PROVE  /\ Aging(Tail(w), last)
         /\ Head(w).kind \in {"start", "packet"} =>
              Head(w).of <= last /\ Before(Head(w).of, Tail(w)) /\ Reaches(Head(w).of, Tail(w))
         /\ \A n : Reaches(n, w) => Reaches(n, Tail(w))
<1>1. /\ Len(w) \in Nat \ {0}
      /\ Len(Tail(w)) = Len(w) - 1 /\ Head(w) = w[1]
      /\ \A i \in 1..Len(Tail(w)) : Tail(w)[i] = w[i + 1] /\ i \in Int /\ i + 1 \in 1..Len(w)
  <2>1. Len(w) \in Nat \ {0} BY EmptySeq, LenProperties
  <2>2. Len(Tail(w)) = Len(w) - 1 /\ Head(w) = w[1] OBVIOUS
  <2>3. \A i \in 1..Len(Tail(w)) : Tail(w)[i] = w[i + 1] OBVIOUS
  <2> QED BY <2>1, <2>2, <2>3
<1>2. \A i \in 1..Len(Tail(w)) : Starts(Tail(w), i) <=> Starts(w, i + 1) BY <1>1 DEF Starts
<1>3. Aging(Tail(w), last) BY <1>1, <1>2 DEF Aging
<1>4. Head(w).kind \in {"start", "packet"} =>
        Head(w).of <= last /\ Before(Head(w).of, Tail(w)) /\ Reaches(Head(w).of, Tail(w))
  BY <1>1, <1>2 DEF Aging, Before, Reaches
<1>5. \A n : Reaches(n, w) => Reaches(n, Tail(w)) BY <1>1 DEF Reaches
<1> QED BY <1>3, <1>4, <1>5

LEMMA WireIsTaken ==
  ASSUME NEW w \in Seq(Message), w # <<>>, NEW p, NEW last \in Int,
         NEW E, StreamsInOrder(w, E), Sending(w, p, last, E)
  PROVE  /\ Tail(w) \in Seq(Message) /\ Head(w) \in Message
         /\ StreamsInOrder(Tail(w), E) /\ Sending(Tail(w), p, last, E)
         /\ \A n : Before(n, w) => Before(n, Tail(w))
<1>1. /\ Len(Tail(w)) = Len(w) - 1 /\ Head(w) = w[1]
      /\ \A i \in 1..Len(Tail(w)) : Tail(w)[i] = w[i + 1] /\ i \in Int /\ i + 1 \in 1..Len(w)
      /\ \A i \in 1..Len(w) : i # 1 => i - 1 \in 1..Len(Tail(w)) /\ Tail(w)[i - 1] = w[i] /\ i \in Int
  <2>1. Len(w) \in Nat \ {0} BY EmptySeq, LenProperties
  <2>2. Len(Tail(w)) = Len(w) - 1 /\ Head(w) = w[1] OBVIOUS
  <2>3. \A i \in 1..Len(Tail(w)) : Tail(w)[i] = w[i + 1] OBVIOUS
  <2> QED BY <2>1, <2>2, <2>3
<1>2. Len(w) \in Nat \ {0} BY EmptySeq, LenProperties
<1>3. \A i \in 1..Len(Tail(w)) : Starts(Tail(w), i) <=> Starts(w, i + 1) BY <1>1 DEF Starts
<1>4. StreamsInOrder(Tail(w), E)
  <2> SUFFICES ASSUME NEW i \in 1..Len(Tail(w)), NEW j \in 1..Len(Tail(w)), Starts(Tail(w), i), i < j
               PROVE  /\ Starts(Tail(w), j) =>
                           /\ Tail(w)[i].of < Tail(w)[j].of
                           /\ \/ Tail(w)[i].of \in E
                              \/ \E k \in 1..Len(Tail(w)) : i < k /\ k < j /\ Ends(Tail(w), k, Tail(w)[i].of)
                      /\ Tail(w)[j].kind = "packet" =>
                           \/ Tail(w)[j].of = Tail(w)[i].of
                           \/ \E k \in 1..Len(Tail(w)) : i < k /\ k < j /\ Starts(Tail(w), k)
    BY DEF StreamsInOrder
  <2>1. i + 1 < j + 1 /\ Starts(w, i + 1) BY <1>1, <1>3
  <2>2. CASE Starts(Tail(w), j)
    <3>1. Tail(w)[i].of < Tail(w)[j].of BY <1>1, <1>3, <2>1, <2>2 DEF StreamsInOrder
    <3>2. CASE Tail(w)[i].of \in E BY <2>2, <3>1, <3>2 DEF Starts
    <3>3. CASE Tail(w)[i].of \notin E
      <4>1. PICK k \in 1..Len(w) : i + 1 < k /\ k < j + 1 /\ Ends(w, k, w[i + 1].of)
        BY <1>1, <1>3, <2>1, <2>2, <3>3 DEF StreamsInOrder
      <4>2. k - 1 \in 1..Len(Tail(w)) /\ i < k - 1 /\ k - 1 < j /\ Ends(Tail(w), k - 1, Tail(w)[i].of)
        BY <1>1, <1>2, <4>1 DEF Ends
      <4> QED BY <2>2, <3>1, <4>2 DEF Starts
    <3> QED BY <3>2, <3>3
  <2>3. CASE Tail(w)[j].kind = "packet" /\ Tail(w)[j].of # Tail(w)[i].of
    <3>1. PICK k \in 1..Len(w) : i + 1 < k /\ k < j + 1 /\ Starts(w, k)
      BY <1>1, <2>1, <2>3 DEF StreamsInOrder
    <3>2. k - 1 \in 1..Len(Tail(w)) /\ i < k - 1 /\ k - 1 < j /\ Starts(Tail(w), k - 1)
      BY <1>1, <1>2, <3>1 DEF Starts
    <3> QED BY <2>3, <3>2 DEF Starts
  <2> QED BY <2>2, <2>3
<1>5. Sending(Tail(w), p, last, E)
  <2> SUFFICES ASSUME NEW i \in 1..Len(Tail(w)), Starts(Tail(w), i)
               PROVE  /\ \/ Tail(w)[i].of \in E \cup {p}
                         \/ \E j \in 1..Len(Tail(w)) : i < j /\ Ends(Tail(w), j, Tail(w)[i].of)
                      /\ Tail(w)[i].of <= last
                      /\ \E j \in 1..Len(Tail(w)) : Starts(Tail(w), j) /\ Tail(w)[j].of = last
    BY DEF Sending
  <2>1. Starts(w, i + 1) /\ Tail(w)[i].of = w[i + 1].of BY <1>1, <1>3
  <2>2. Tail(w)[i].of <= last BY <1>1, <2>1 DEF Sending
  <2>3. ASSUME Tail(w)[i].of \notin E \cup {p}
               PROVE \E j \in 1..Len(Tail(w)) : i < j /\ Ends(Tail(w), j, Tail(w)[i].of)
    <3>1. PICK j \in 1..Len(w) : i + 1 < j /\ Ends(w, j, w[i + 1].of) BY <1>1, <2>1, <2>3
        DEF Sending
    <3>2. j - 1 \in 1..Len(Tail(w)) /\ i < j - 1 /\ Ends(Tail(w), j - 1, Tail(w)[i].of)
      BY <1>1, <1>2, <3>1 DEF Ends
    <3> QED BY <3>2
  <2>4. PICK j \in 1..Len(w) : Starts(w, j) /\ w[j].of = last BY <1>1, <2>1 DEF Sending
  <2>5. j # 1
    <3>1. ASSUME j = 1 PROVE FALSE
      <4>1. 1 < i + 1 /\ 1 \in 1..Len(w) /\ i + 1 \in 1..Len(w) BY <1>1, <1>2
      <4>2. last < w[i + 1].of BY <2>1, <2>4, <3>1, <4>1 DEF StreamsInOrder
      <4> QED BY <2>1, <2>2, <4>1, <4>2, NumberOfMessage
    <3> QED BY <3>1
  <2>6. j - 1 \in 1..Len(Tail(w)) /\ Starts(Tail(w), j - 1) /\ Tail(w)[j - 1].of = last
    BY <1>1, <2>4, <2>5 DEF Starts
  <2> QED BY <2>2, <2>3, <2>6
<1>6. \A n : Before(n, w) => Before(n, Tail(w)) BY <1>1, <1>3 DEF Before
<1>7. Tail(w) \in Seq(Message) /\ Head(w) \in Message BY <1>1, <1>2, NumberOfMessage
<1> QED BY <1>4, <1>5, <1>6, <1>7

\* A start is taken from the wire: all that follows continues its stream.
LEMMA StartIsTaken ==
  ASSUME NEW w \in Seq(Message), w # <<>>, Head(w).kind = "start", NEW p, NEW last \in Int,
         NEW E, StreamsInOrder(w, E), Sending(w, p, last, E)
  PROVE  LET s == Head(w).of
         IN  /\ s \notin E => Continues(Tail(w), s)
             /\ s \in E \cup {p} \/ HasEnd(Tail(w), s)
             /\ s = last \/ HasStart(Tail(w), last)
             /\ \A n : ~Continues(w, n)
<1>1. /\ Len(Tail(w)) = Len(w) - 1 /\ Head(w) = w[1]
      /\ \A i \in 1..Len(Tail(w)) : Tail(w)[i] = w[i + 1] /\ i \in Int /\ i + 1 \in 1..Len(w)
      /\ \A i \in 1..Len(w) : i # 1 => i - 1 \in 1..Len(Tail(w)) /\ Tail(w)[i - 1] = w[i] /\ i \in Int
  <2>1. Len(w) \in Nat \ {0} BY EmptySeq, LenProperties
  <2>2. Len(Tail(w)) = Len(w) - 1 /\ Head(w) = w[1] OBVIOUS
  <2>3. \A i \in 1..Len(Tail(w)) : Tail(w)[i] = w[i + 1] OBVIOUS
  <2> QED BY <2>1, <2>2, <2>3
<1>2. Len(w) \in Nat \ {0} BY EmptySeq, LenProperties
<1> DEFINE s == Head(w).of
<1>3. /\ Starts(w, 1) /\ w[1].of = s /\ 1 \in 1..Len(w)
      /\ \A i \in 1..Len(Tail(w)) : 1 < i + 1
  BY <1>1, <1>2 DEF Starts
<1> HIDE DEF s
<1>4. ASSUME s \notin E PROVE Continues(Tail(w), s)
  <2> SUFFICES ASSUME NEW j \in 1..Len(Tail(w))
               PROVE  /\ Starts(Tail(w), j) => \E k \in 1..Len(Tail(w)) : k < j /\ Ends(Tail(w), k, s)
                      /\ Tail(w)[j].kind = "packet" =>
                           Tail(w)[j].of = s \/ \E k \in 1..Len(Tail(w)) : k < j /\ Starts(Tail(w), k)
    BY DEF Continues
  <2>1. CASE Starts(Tail(w), j)
    <3>1. PICK k \in 1..Len(w) : 1 < k /\ k < j + 1 /\ Ends(w, k, s)
      BY <1>1, <1>3, <1>4, <2>1 DEF StreamsInOrder, Starts
    <3>2. k - 1 \in 1..Len(Tail(w)) /\ k - 1 < j /\ Ends(Tail(w), k - 1, s)
      BY <1>1, <1>2, <3>1 DEF Ends
    <3> QED BY <2>1, <3>2 DEF Starts
  <2>2. CASE Tail(w)[j].kind = "packet" /\ Tail(w)[j].of # s
    <3>1. PICK k \in 1..Len(w) : 1 < k /\ k < j + 1 /\ Starts(w, k)
      BY <1>1, <1>3, <2>2 DEF StreamsInOrder
    <3>2. k - 1 \in 1..Len(Tail(w)) /\ k - 1 < j /\ Starts(Tail(w), k - 1)
      BY <1>1, <1>2, <3>1 DEF Starts
    <3> QED BY <2>2, <3>2 DEF Starts
  <2> QED BY <2>1, <2>2
<1>5. ASSUME s \notin E \cup {p} PROVE HasEnd(Tail(w), s)
  <2>1. PICK j \in 1..Len(w) : 1 < j /\ Ends(w, j, s) BY <1>3, <1>5 DEF Sending
  <2>2. j - 1 \in 1..Len(Tail(w)) /\ Ends(Tail(w), j - 1, s) BY <1>1, <2>1 DEF Ends
  <2> QED BY <2>2 DEF HasEnd
<1>6. ASSUME s # last PROVE HasStart(Tail(w), last)
  <2>1. PICK j \in 1..Len(w) : Starts(w, j) /\ w[j].of = last BY <1>3 DEF Sending
  <2>2. j # 1 BY <1>3, <1>6, <2>1
  <2>3. j - 1 \in 1..Len(Tail(w)) /\ Starts(Tail(w), j - 1) /\ Tail(w)[j - 1].of = last
    BY <1>1, <2>1, <2>2 DEF Starts
  <2> QED BY <2>3 DEF HasStart
<1>7. ASSUME NEW n, Continues(w, n) PROVE FALSE
  <2>1. \E k \in 1..Len(w) : k < 1 BY <1>3, <1>7 DEF Continues
  <2> QED BY <1>2, <2>1
<1> QED BY <1>4, <1>5, <1>6, <1>7 DEF s

\* Any other message is taken: a packet belongs to the open stream.
LEMMA OtherIsTaken ==
  ASSUME NEW w \in Seq(Message), w # <<>>, Head(w).kind # "start", NEW n, Continues(w, n)
  PROVE  /\ Head(w).kind = "packet" => Head(w).of = n
         /\ \A last : HasStart(w, last) => HasStart(Tail(w), last)
         /\ ~(Head(w).kind = "end" /\ Head(w).of = n) =>
              Continues(Tail(w), n) /\ (HasEnd(w, n) => HasEnd(Tail(w), n))
<1>1. /\ Len(Tail(w)) = Len(w) - 1 /\ Head(w) = w[1]
      /\ \A i \in 1..Len(Tail(w)) : Tail(w)[i] = w[i + 1] /\ i \in Int /\ i + 1 \in 1..Len(w)
      /\ \A i \in 1..Len(w) : i # 1 => i - 1 \in 1..Len(Tail(w)) /\ Tail(w)[i - 1] = w[i] /\ i \in Int
  <2>1. Len(w) \in Nat \ {0} BY EmptySeq, LenProperties
  <2>2. Len(Tail(w)) = Len(w) - 1 /\ Head(w) = w[1] OBVIOUS
  <2>3. \A i \in 1..Len(Tail(w)) : Tail(w)[i] = w[i + 1] OBVIOUS
  <2> QED BY <2>1, <2>2, <2>3
<1>2. Len(w) \in Nat \ {0} BY EmptySeq, LenProperties
<1>3. 1 \in 1..Len(w) /\ ~Starts(w, 1) BY <1>1, <1>2 DEF Starts
<1>4. ASSUME Head(w).kind = "packet" PROVE Head(w).of = n
  <2>1. w[1].of = n \/ \E k \in 1..Len(w) : k < 1 BY <1>1, <1>3, <1>4 DEF Continues
  <2> QED BY <1>1, <1>2, <2>1
<1>5. ASSUME NEW last, HasStart(w, last) PROVE HasStart(Tail(w), last)
  <2>1. PICK j \in 1..Len(w) : Starts(w, j) /\ w[j].of = last BY <1>5 DEF HasStart
  <2>2. j - 1 \in 1..Len(Tail(w)) /\ Starts(Tail(w), j - 1) /\ Tail(w)[j - 1].of = last
    BY <1>1, <1>3, <2>1 DEF Starts
  <2> QED BY <2>2 DEF HasStart
<1>6. ASSUME ~(Head(w).kind = "end" /\ Head(w).of = n)
      PROVE  Continues(Tail(w), n) /\ (HasEnd(w, n) => HasEnd(Tail(w), n))
  <2>1. \A k \in 1..Len(w) : Ends(w, k, n) => k - 1 \in 1..Len(Tail(w)) /\ Ends(Tail(w), k - 1, n)
    BY <1>1, <1>6 DEF Ends
  <2>2. HasEnd(w, n) => HasEnd(Tail(w), n) BY <2>1 DEF HasEnd
  <2>3. ASSUME NEW j \in 1..Len(Tail(w)), Starts(Tail(w), j)
        PROVE  \E k \in 1..Len(Tail(w)) : k < j /\ Ends(Tail(w), k, n)
    <3>1. PICK k \in 1..Len(w) : k < j + 1 /\ Ends(w, k, n) BY <1>1, <2>3
        DEF Continues, Starts
    <3> QED BY <1>1, <2>1, <3>1
  <2>4. ASSUME NEW j \in 1..Len(Tail(w)), Tail(w)[j].kind = "packet", Tail(w)[j].of # n
        PROVE  \E k \in 1..Len(Tail(w)) : k < j /\ Starts(Tail(w), k)
    <3>1. PICK k \in 1..Len(w) : k < j + 1 /\ Starts(w, k) BY <1>1, <2>4 DEF Continues
    <3>2. k - 1 \in 1..Len(Tail(w)) /\ k - 1 < j /\ Starts(Tail(w), k - 1)
      BY <1>1, <1>3, <3>1 DEF Starts
    <3> QED BY <3>2
  <2> QED BY <2>2, <2>3, <2>4 DEF Continues
<1> QED BY <1>4, <1>5, <1>6

(***************************************************************************)
(* Types.                                                                  *)
(***************************************************************************)
LEMMA ContextCleared ==
  ASSUME ClearContext
  PROVE  /\ stream' = 0 /\ ~open' /\ ~preroll' /\ queue' = <<>>
         /\ stream' \in 0..Streams /\ open' \in BOOLEAN /\ preroll' \in BOOLEAN
         /\ queue' \in Seq(1..Streams) /\ Len(queue') <= QueueLimit
<1>1. ~open' /\ ~preroll' /\ open' \in BOOLEAN /\ preroll' \in BOOLEAN BY Zenon
    DEF ClearContext
<1>2. stream' = 0 /\ queue' = <<>> BY DEF ClearContext
<1>3. Len(<<>>) = 0 /\ <<>> \in Seq(1..Streams) OBVIOUS
<1> QED BY <1>1, <1>2, <1>3, StreamAssumption, LimitAssumption

LEMMA DecoderReset ==
  ASSUME ResetDecoder
  PROVE  /\ decodeQueue' = <<>> /\ playQueue' = <<>> /\ decoding' = decoding
         /\ stale' \in BOOLEAN /\ (stale' <=> decoding # 0)
         /\ decodeQueue' \in Seq(1..Streams) /\ Len(decodeQueue') <= DecodeLimit
         /\ playQueue' \in Seq(1..Streams) /\ Len(playQueue') <= PlayLimit
<1>1. stale' \in BOOLEAN /\ (stale' <=> decoding # 0) BY Zenon DEF ResetDecoder
<1>2. decodeQueue' = <<>> /\ playQueue' = <<>> /\ decoding' = decoding BY DEF ResetDecoder
<1>3. Len(<<>>) = 0 /\ <<>> \in Seq(1..Streams) OBVIOUS
<1> QED BY <1>1, <1>2, <1>3, LimitAssumption

LEMMA QueueGrows ==
  ASSUME NEW S, NEW q \in Seq(S), NEW e \in S, NEW limit \in Nat, Len(q) < limit
  PROVE  Append(q, e) \in Seq(S) /\ Len(Append(q, e)) <= limit
OBVIOUS

LEMMA QueueShrinks ==
  ASSUME NEW S, NEW q \in Seq(S), q # <<>>, NEW limit \in Nat, Len(q) <= limit
  PROVE  /\ Head(q) \in S /\ Tail(q) \in Seq(S) /\ Len(Tail(q)) <= limit
         /\ Len(Tail(q)) = Len(q) - 1
<1>1. Len(q) \in Nat /\ Len(q) > 0 BY EmptySeq, LenProperties
<1> QED BY <1>1

LEMMA SaysType ==
  ASSUME TypeOK, NEW m \in Message, Says(m)
  PROVE  /\ wire' \in Seq(Message) /\ Len(wire') <= WireLimit
         /\ UNCHANGED <<state, closing, contextVars, cancelVars, inputVars, invalid, commands,
                        micVars, codecVars, output, failureVars>>
  BY QueueGrows, LimitAssumption DEF Says, TypeOK

LEMMA ObserveType ==
  ASSUME TypeOK, Observe
  PROVE  invalid' \in 0..InvalidLimit
<1>1. invalid \in 0..InvalidLimit BY DEF TypeOK
<1>2. InvalidLimit \in Nat \ {0, 1} BY LimitAssumption
<1> QED BY <1>1, <1>2 DEF Observe

LEMMA ReportType ==
  ASSUME TypeOK, ReportError
  PROVE  closing' \in BOOLEAN /\ (closing => closing') /\ invalid' \in 0..InvalidLimit
<1>1. closing' \in BOOLEAN /\ (closing => closing') BY Zenon
    DEF ReportError, MaySend, TypeOK
<1>2. invalid' \in 0..InvalidLimit BY ObserveType DEF ReportError
<1> QED BY <1>1, <1>2

LEMMA BridgeStartType == TypeOK /\ BridgeStart => TypeOK'
<1> SUFFICES ASSUME TypeOK, BridgeStart PROVE TypeOK' OBVIOUS
<1> USE DEF BridgeStart
<1>1. NextStream \in 1..Streams
  BY StreamsIncrease, StreamAssumption DEF TypeOK
<1>2. [kind |-> "start", of |-> NextStream] \in Message
  BY <1>1, StreamAssumption, TurnsAreBounded DEF Message, TypeOK, EndReasons
<1>3. /\ wire' \in Seq(Message) /\ Len(wire') <= WireLimit
      /\ UNCHANGED <<state, closing, contextVars, cancelVars, inputVars, invalid, commands,
                     micVars, codecVars, output, failureVars>>
  BY <1>2, SaysType
<1>4. starting' \in BOOLEAN BY Zenon
<1>5. endless' \subseteq 1..sent'
  <2>1. sent' = NextStream /\ endless' = endless OBVIOUS
  <2>2. endless \subseteq 1..sent /\ sent \in 0..Streams /\ NextStream > sent /\ NextStream \in Nat
    BY StreamsIncrease DEF TypeOK
  <2> QED BY <2>1, <2>2, StreamAssumption
<1> QED BY <1>1, <1>3, <1>4, <1>5, StreamAssumption
    DEF TypeOK, contextVars, cancelVars, inputVars, micVars, codecVars, failureVars, bridgeVars

LEMMA BridgePacketType == TypeOK /\ BridgePacket => TypeOK'
<1> SUFFICES ASSUME TypeOK, BridgePacket PROVE TypeOK' OBVIOUS
<1> USE DEF BridgePacket
<1>1. playing = sent /\ playing \in 1..Streams BY StreamAssumption DEF TypeOK
<1>2. [kind |-> "packet", of |-> playing] \in Message
  BY <1>1, StreamAssumption, TurnsAreBounded DEF Message, TypeOK, EndReasons
<1>3. /\ wire' \in Seq(Message) /\ Len(wire') <= WireLimit
      /\ UNCHANGED <<state, closing, contextVars, cancelVars, inputVars, invalid, commands,
                     micVars, codecVars, output, failureVars>>
  BY <1>2, SaysType
<1>4. starting' \in BOOLEAN BY Zenon DEF TypeOK
<1> QED BY <1>1, <1>2, <1>3, <1>4
    DEF TypeOK, contextVars, cancelVars, inputVars, micVars, codecVars, failureVars, bridgeVars

LEMMA BridgeEndType == TypeOK /\ BridgeEnd => TypeOK'
<1> SUFFICES ASSUME TypeOK, BridgeEnd PROVE TypeOK' OBVIOUS
<1> USE DEF BridgeEnd
<1>1. playing = sent /\ playing \in 1..Streams BY StreamAssumption DEF TypeOK
<1>2. [kind |-> "end", of |-> playing, reason |-> "completed"] \in Message
  BY <1>1, StreamAssumption, TurnsAreBounded DEF Message, TypeOK, EndReasons
<1>3. /\ wire' \in Seq(Message) /\ Len(wire') <= WireLimit
      /\ UNCHANGED <<state, closing, contextVars, cancelVars, inputVars, invalid, commands,
                     micVars, codecVars, output, failureVars>>
  BY <1>2, SaysType
<1>4. starting' \in BOOLEAN BY Zenon DEF TypeOK
<1> QED BY <1>1, <1>2, <1>3, <1>4
    DEF TypeOK, contextVars, cancelVars, inputVars, micVars, codecVars, failureVars, bridgeVars

LEMMA BridgeFailsType == TypeOK /\ BridgeFails => TypeOK'
<1> SUFFICES ASSUME TypeOK, BridgeFails PROVE TypeOK' OBVIOUS
<1> USE DEF BridgeFails
<1>1. playing = sent /\ playing \in 1..Streams BY StreamAssumption DEF TypeOK
<1>2. [kind |-> "end", of |-> playing, reason |-> "error"] \in Message
  BY <1>1, StreamAssumption, TurnsAreBounded DEF Message, TypeOK, EndReasons
<1>3. /\ wire' \in Seq(Message) /\ Len(wire') <= WireLimit
      /\ UNCHANGED <<state, closing, contextVars, cancelVars, inputVars, invalid, commands,
                     micVars, codecVars, output, failureVars>>
  BY <1>2, SaysType
<1>4. TurnOf(playing) \in 0..Turns BY <1>1, TurnsAreBounded
<1>5. starting' \in BOOLEAN BY Zenon
<1> QED BY <1>1, <1>2, <1>3, <1>4, <1>5
    DEF TypeOK, contextVars, cancelVars, inputVars, micVars, codecVars, failureVars, bridgeVars

LEMMA BridgeCancelsType == TypeOK /\ BridgeCancels => TypeOK'
<1> SUFFICES ASSUME TypeOK, BridgeCancels PROVE TypeOK' OBVIOUS
<1> USE DEF BridgeCancels, CancelPlayer
<1>1. playing = sent /\ playing \in 1..Streams BY StreamAssumption DEF TypeOK
<1>2. [kind |-> "end", of |-> playing, reason |-> "cancelled"] \in Message
  BY <1>1, StreamAssumption, TurnsAreBounded DEF Message, TypeOK, EndReasons
<1>3. /\ wire' \in Seq(Message) /\ Len(wire') <= WireLimit
      /\ UNCHANGED <<state, closing, contextVars, cancelVars, inputVars, invalid, commands,
                     micVars, codecVars, output, failureVars>>
  BY <1>2, SaysType
<1>4. TurnOf(playing) \in 0..Turns BY <1>1, TurnsAreBounded
<1>5. starting' \in BOOLEAN BY Zenon
<1> QED BY <1>1, <1>2, <1>3, <1>4, <1>5, SMTT(20)
    DEF TypeOK, contextVars, cancelVars, inputVars, micVars, codecVars, failureVars, bridgeVars

LEMMA BridgeCancelsStartType == TypeOK /\ BridgeCancelsStart => TypeOK'
<1> SUFFICES ASSUME TypeOK, BridgeCancelsStart PROVE TypeOK' OBVIOUS
<1> USE DEF BridgeCancelsStart, CancelPlayer
<1>1. playing = sent /\ playing \in 1..Streams BY StreamAssumption DEF TypeOK
<1>2. TurnOf(playing) \in 0..Turns BY <1>1, TurnsAreBounded
<1>3. starting' \in BOOLEAN BY Zenon
<1>4. endless' \subseteq 1..sent' BY <1>1 DEF TypeOK
<1> QED BY <1>1, <1>2, <1>3, <1>4, SMTT(20)
    DEF TypeOK, contextVars, cancelVars, inputVars, micVars, codecVars, failureVars, bridgeVars

LEMMA BridgeCancelsBetweenType == TypeOK /\ BridgeCancelsBetween => TypeOK'
<1> SUFFICES ASSUME TypeOK, BridgeCancelsBetween PROVE TypeOK' OBVIOUS
<1> USE DEF BridgeCancelsBetween
<1>1. TurnOf(sent) \in 0..Turns BY TurnsAreBounded DEF TypeOK
<1> QED BY <1>1
    DEF TypeOK, contextVars, cancelVars, inputVars, micVars, codecVars, failureVars, bridgeVars

LEMMA BridgeOrdersType == TypeOK /\ BridgeOrders => TypeOK'
<1> SUFFICES ASSUME TypeOK, BridgeOrders PROVE TypeOK' OBVIOUS
<1> USE DEF BridgeOrders
<1>1. order \in 1..Turns /\ 0 \in 0..Turns BY TurnsAreBounded DEF TypeOK
<1>2. [kind |-> "cancel", of |-> order] \in Message
  BY <1>1, StreamAssumption, TurnsAreBounded DEF Message, TypeOK, EndReasons
<1>3. /\ wire' \in Seq(Message) /\ Len(wire') <= WireLimit
      /\ UNCHANGED <<state, closing, contextVars, cancelVars, inputVars, invalid, commands,
                     micVars, codecVars, output, failureVars>>
  BY <1>2, SaysType
<1> QED BY <1>1, <1>2, <1>3
    DEF TypeOK, contextVars, cancelVars, inputVars, micVars, codecVars, failureVars, bridgeVars

LEMMA BridgeFaultsType == TypeOK /\ BridgeFaults => TypeOK'
<1> SUFFICES ASSUME TypeOK, BridgeFaults PROVE TypeOK' OBVIOUS
<1> USE DEF BridgeFaults
<1>1. inputs \in 1..Inputs BY StreamAssumption DEF TypeOK
<1>2. [kind |-> "fault", of |-> inputs] \in Message
  BY <1>1, StreamAssumption, TurnsAreBounded DEF Message, TypeOK, EndReasons
<1>3. /\ wire' \in Seq(Message) /\ Len(wire') <= WireLimit
      /\ UNCHANGED <<state, closing, contextVars, cancelVars, inputVars, invalid, commands,
                     micVars, codecVars, output, failureVars>>
  BY <1>2, SaysType
<1> QED BY <1>1, <1>2, <1>3
    DEF TypeOK, contextVars, cancelVars, inputVars, micVars, codecVars, failureVars, bridgeVars

\* What a handler of the session may change, with its types.
HandledType ==
  /\ state' \in {"connecting", "idle", "listening", "speaking"} /\ closing' \in BOOLEAN
  /\ stream' \in 0..Streams /\ open' \in BOOLEAN /\ preroll' \in BOOLEAN
  /\ queue' \in Seq(1..Streams) /\ Len(queue') <= QueueLimit
  /\ recent' \in 0..Turns /\ local' \in 0..Streams /\ input' \in {0, inputs}
  /\ invalid' \in 0..InvalidLimit /\ commands' \in 0..CommandLimit
  /\ decodeQueue' \in Seq(1..Streams) /\ Len(decodeQueue') <= DecodeLimit
  /\ playQueue' \in Seq(1..Streams) /\ Len(playQueue') <= PlayLimit
  /\ decoding' \in 0..Streams /\ stale' \in BOOLEAN

LEMMA SameType ==
  ASSUME TypeOK
  PROVE  /\ UNCHANGED contextVars => /\ stream' \in 0..Streams /\ open' \in BOOLEAN /\ preroll' \in BOOLEAN
                                     /\ queue' \in Seq(1..Streams) /\ Len(queue') <= QueueLimit
         /\ UNCHANGED codecVars => /\ decodeQueue' \in Seq(1..Streams) /\ Len(decodeQueue') <= DecodeLimit
                                   /\ playQueue' \in Seq(1..Streams) /\ Len(playQueue') <= PlayLimit
                                   /\ decoding' \in 0..Streams /\ stale' \in BOOLEAN
         /\ UNCHANGED cancelVars => recent' \in 0..Turns /\ local' \in 0..Streams
         /\ UNCHANGED input => input' \in {0, inputs}
         /\ UNCHANGED state => state' \in {"connecting", "idle", "listening", "speaking"}
         /\ UNCHANGED closing => closing' \in BOOLEAN
         /\ UNCHANGED invalid => invalid' \in 0..InvalidLimit
         /\ UNCHANGED commands => commands' \in 0..CommandLimit
  BY DEF TypeOK, contextVars, cancelVars, codecVars

LEMMA RefuseType == TypeOK /\ Refuse => HandledType
  BY ReportType, SameType DEF Refuse, HandledType

LEMMA OnStartType ==
  ASSUME TypeOK, NEW s \in 1..Streams, OnStart(s)
  PROVE  HandledType
<1>1. CASE /\ input # 0
           /\ closing' = TRUE
           /\ UNCHANGED <<state, contextVars, cancelVars, input, invalid, commands, codecVars>>
  <2>1. closing' \in BOOLEAN BY <1>1, Zenon
  <2> QED BY <1>1, <2>1, SameType DEF HandledType
<1>2. CASE /\ stream = 0
           /\ stream' = s /\ open' = TRUE /\ preroll' = FALSE /\ queue' = <<>>
           /\ input' = 0
           /\ state' = "speaking" /\ ResetDecoder
           /\ recent' = 0
           /\ UNCHANGED <<local, closing, invalid, commands>>
  <2>1. open' \in BOOLEAN /\ preroll' \in BOOLEAN BY <1>2, Zenon
  <2>2. Len(<<>>) = 0 /\ <<>> \in Seq(1..Streams) OBVIOUS
  <2>3. 0 \in 0..Turns /\ local' \in 0..Streams /\ decoding \in 0..Streams BY <1>2, TurnsAreBounded
      DEF TypeOK
  <2>4. queue' \in Seq(1..Streams) /\ Len(queue') <= QueueLimit BY <1>2, <2>2, LimitAssumption
  <2>5. stream' \in 0..Streams BY <1>2, StreamAssumption
  <2> QED BY <1>2, <2>1, <2>3, <2>4, <2>5, DecoderReset, SameType DEF HandledType
<1>3. CASE stream # 0 /\ Refuse BY <1>3, RefuseType
<1> QED BY <1>1, <1>2, <1>3 DEF OnStart

LEMMA OnPacketType ==
  ASSUME TypeOK, NEW s \in 1..Streams, OnPacket(s)
  PROVE  HandledType
<1>1. CASE /\ open
           /\ IF Len(queue) < QueueLimit
                THEN /\ queue' = Append(queue, s)
                     /\ preroll' = (preroll \/ Len(queue) + 1 >= Preroll)
                ELSE UNCHANGED <<queue, preroll>>
           /\ UNCHANGED <<state, closing, stream, open, cancelVars, input, invalid, commands, codecVars>>
  <2>1. preroll' \in BOOLEAN BY <1>1, Zenon DEF TypeOK
  <2>2. queue' \in Seq(1..Streams) /\ Len(queue') <= QueueLimit
    <3>1. queue \in Seq(1..Streams) /\ Len(queue) <= QueueLimit BY DEF TypeOK
    <3>2. CASE Len(queue) < QueueLimit BY <1>1, <3>1, <3>2, QueueGrows, LimitAssumption
    <3>3. CASE ~(Len(queue) < QueueLimit) BY <1>1, <3>1, <3>3
    <3> QED BY <3>2, <3>3
  <2>3. stream' \in 0..Streams /\ open' \in BOOLEAN BY <1>1 DEF TypeOK
  <2> QED BY <1>1, <2>1, <2>2, <2>3, SameType DEF HandledType
<1>2. CASE ~open /\ Refuse BY <1>2, RefuseType
<1> QED BY <1>1, <1>2 DEF OnPacket

LEMMA OnEndType ==
  ASSUME TypeOK, NEW s \in 1..Streams, NEW reason \in EndReasons, OnEnd(s, reason)
  PROVE  HandledType
<1>1. CASE /\ s = local
           /\ UNCHANGED <<state, closing, contextVars, cancelVars, input, invalid, commands, codecVars>>
  BY <1>1, SameType DEF HandledType
<1>2. CASE /\ s # local /\ open /\ stream = s
           /\ IF reason = "completed"
                THEN open' = FALSE /\ UNCHANGED <<state, stream, preroll, queue, codecVars>>
                ELSE ClearContext /\ ResetDecoder /\ state' = "idle"
           /\ recent' = IF reason = "cancelled" THEN TurnOf(s) ELSE recent
           /\ UNCHANGED <<closing, local, input, invalid, commands>>
  <2>1. recent' \in 0..Turns /\ local' \in 0..Streams BY <1>2, TurnsAreBounded, StreamAssumption
      DEF TypeOK
  <2>2. CASE reason = "completed"
    <3>1. open' \in BOOLEAN BY <1>2, <2>2, Zenon
    <3>2. /\ UNCHANGED <<state, stream, preroll, queue, codecVars>>
          /\ stream' \in 0..Streams /\ preroll' \in BOOLEAN
          /\ queue' \in Seq(1..Streams) /\ Len(queue') <= QueueLimit
      BY <1>2, <2>2 DEF TypeOK
    <3> QED BY <1>2, <2>1, <3>1, <3>2, SameType DEF HandledType
  <2>3. CASE reason # "completed"
    <3>1. ClearContext /\ ResetDecoder /\ state' = "idle" BY <1>2, <2>3
    <3>2. decoding' \in 0..Streams BY <3>1, DecoderReset DEF TypeOK
    <3> QED BY <1>2, <2>1, <3>1, <3>2, ContextCleared, DecoderReset, SameType
        DEF HandledType
  <2> QED BY <2>2, <2>3
<1>3. CASE s # local /\ ~(open /\ stream = s) /\ Refuse BY <1>3, RefuseType
<1> QED BY <1>1, <1>2, <1>3 DEF OnEnd

LEMMA OnFaultType ==
  ASSUME TypeOK, NEW i \in 1..Inputs, OnFault(i)
  PROVE  HandledType
<1>1. input' \in {0, inputs} /\ state' \in {"connecting", "idle", "listening", "speaking"}
  BY DEF OnFault, TypeOK
<1> QED BY <1>1, SameType DEF OnFault, HandledType

LEMMA OnCancelType ==
  ASSUME TypeOK, NEW t \in 1..Turns, OnCancel(t)
  PROVE  HandledType
<1>1. CASE /\ commands >= CommandLimit
           /\ closing' = TRUE
           /\ Observe
           /\ UNCHANGED <<state, contextVars, cancelVars, input, commands, codecVars>>
  <2>1. closing' \in BOOLEAN BY <1>1, Zenon
  <2>2. invalid' \in 0..InvalidLimit BY <1>1, ObserveType
  <2> QED BY <1>1, <2>1, <2>2, SameType DEF HandledType
<1>2. CASE /\ commands < CommandLimit
           /\ IF Cancellable(t)
                THEN /\ ClearContext /\ ResetDecoder
                     /\ recent' = 0
                     /\ state' = IF state = "speaking" THEN "idle" ELSE state
                ELSE UNCHANGED <<state, contextVars, recent, codecVars>>
           /\ \/ commands' = commands + 1 /\ UNCHANGED closing
              \/ closing' = TRUE /\ UNCHANGED commands
           /\ UNCHANGED <<local, input, invalid>>
  <2>1. closing' \in BOOLEAN BY <1>2, Zenon DEF TypeOK
  <2>2. commands' \in 0..CommandLimit
    <3>1. commands \in 0..CommandLimit /\ CommandLimit \in Nat BY LimitAssumption DEF TypeOK
    <3>2. commands < CommandLimit /\ commands' \in {commands, commands + 1} BY <1>2
    <3> QED BY <3>1, <3>2
  <2>3. recent' \in 0..Turns /\ local' \in 0..Streams
    BY <1>2, TurnsAreBounded, StreamAssumption DEF TypeOK
  <2>4. CASE Cancellable(t)
    <3>1. ClearContext /\ ResetDecoder BY <1>2, <2>4
    <3>2. decoding' \in 0..Streams BY <3>1, DecoderReset DEF TypeOK
    <3>3. state' \in {"connecting", "idle", "listening", "speaking"} BY <1>2, <2>4
        DEF TypeOK
    <3> QED BY <1>2, <2>1, <2>2, <2>3, <3>1, <3>2, <3>3, ContextCleared, DecoderReset, SameType
        DEF HandledType
  <2>5. CASE ~Cancellable(t)
    <3>1. UNCHANGED <<state, contextVars, codecVars>> BY <1>2, <2>5
    <3> QED BY <1>2, <2>1, <2>2, <2>3, <3>1, SameType DEF HandledType
  <2> QED BY <2>4, <2>5
<1> QED BY <1>1, <1>2 DEF OnCancel

LEMMA MessageKinds ==
  ASSUME NEW m \in Message
  PROVE  /\ m.kind \in {"start", "packet", "end", "cancel", "fault"}
         /\ m.kind \in {"start", "packet", "end"} => m.of \in 1..Streams
         /\ m.kind = "end" => m.reason \in EndReasons
         /\ m.kind = "cancel" => m.of \in 1..Turns
         /\ m.kind = "fault" => m.of \in 1..Inputs
  BY DEF Message

LEMMA ReceiveType == TypeOK /\ Receive => TypeOK'
<1> SUFFICES ASSUME TypeOK, Receive PROVE TypeOK' OBVIOUS
<1>1. Head(wire) \in Message /\ wire' \in Seq(Message) /\ Len(wire') <= WireLimit
  BY QueueShrinks, LimitAssumption DEF Receive, TypeOK
<1>2. CASE closing BY <1>1, <1>2
    DEF Receive, TypeOK, contextVars, cancelVars, micVars, codecVars, failureVars
<1>3. CASE ~closing
  <2>1. Handle(Head(wire)) BY <1>3 DEF Receive
  <2>2. HandledType
    BY <1>1, <2>1, MessageKinds, OnStartType, OnPacketType, OnEndType, OnFaultType, OnCancelType
       DEF Handle
  <2> QED BY <1>1, <2>2 DEF Receive, HandledType, TypeOK, micVars, failureVars
<1> QED BY <1>2, <1>3

LEMMA DisconnectType == TypeOK /\ Disconnect => TypeOK'
<1> SUFFICES ASSUME TypeOK, Disconnect PROVE TypeOK' OBVIOUS
<1>1. closing' \in BOOLEAN /\ starting' \in BOOLEAN BY Zenon DEF Disconnect
<1>2. ClearContext BY DEF Disconnect
<1>3. TurnOf(sent) \in 0..Turns /\ 0 \in 0..Turns BY TurnsAreBounded DEF TypeOK
<1>4. wire' \in Seq(Message) /\ Len(wire') <= WireLimit
  <2>1. Len(<<>>) = 0 /\ <<>> \in Seq(Message) OBVIOUS
  <2> QED BY <2>1, LimitAssumption DEF Disconnect
<1> QED BY <1>1, <1>2, <1>3, <1>4, ContextCleared, StreamAssumption, LimitAssumption
        DEF Disconnect, TypeOK, micVars, codecVars, failureVars

LEMMA HandleStartType == TypeOK /\ HandleStart => TypeOK'
<1> SUFFICES ASSUME TypeOK, HandleStart PROVE TypeOK' OBVIOUS
<1>1. inputs + 1 \in 0..Inputs BY StreamAssumption DEF HandleStart, TypeOK
<1>2. BeginInput => /\ inputs' \in 0..Inputs /\ input' \in {0, inputs'}
                    /\ state' \in {"connecting", "idle", "listening", "speaking"}
  BY <1>1 DEF BeginInput, NewInput, NoInput, inputVars, TypeOK
<1>3. BeginInput => closing' \in BOOLEAN /\ recording' \in BOOLEAN /\ encoding' \in BOOLEAN
  BY Zenon DEF BeginInput, NewInput, NoInput, micVars, TypeOK
<1>4. CASE UNCHANGED <<contextVars, cancelVars, codecVars>>
  BY <1>2, <1>3, <1>4
     DEF HandleStart, TypeOK, contextVars, cancelVars, codecVars, failureVars, bridgeVars
<1>5. CASE ResetDecoder /\ ClearContext /\ local' = stream /\ recent' = TurnOf(stream)
  <2>1. local' \in 0..Streams /\ recent' \in 0..Turns /\ decoding' \in 0..Streams
    BY <1>5, TurnsAreBounded, DecoderReset DEF TypeOK
  <2> QED BY <1>2, <1>3, <1>5, <2>1, ContextCleared, DecoderReset
      DEF HandleStart, TypeOK, failureVars, bridgeVars
<1> QED BY <1>4, <1>5 DEF HandleStart, BeginInput

LEMMA HandleEndType == TypeOK /\ (HandleEnd \/ InputExpires) => TypeOK'
<1> SUFFICES ASSUME TypeOK, HandleEnd \/ InputExpires PROVE TypeOK' OBVIOUS
<1>1. closing' \in BOOLEAN /\ recording' \in BOOLEAN
  BY Zenon DEF HandleEnd, InputExpires, EndInput, MaySend, micVars, TypeOK
<1>2. EndInput BY DEF HandleEnd, InputExpires
<1>3. input' \in {0, inputs} /\ state' \in {"connecting", "idle", "listening", "speaking"}
  BY <1>2 DEF EndInput, TypeOK
<1>4. UNCHANGED <<bridgeVars, contextVars, cancelVars, inputs, invalid, commands, encoding,
                  codecVars, output, failureVars>>
  BY DEF HandleEnd, InputExpires, micVars
<1> QED BY <1>1, <1>3, <1>4
    DEF TypeOK, bridgeVars, contextVars, cancelVars, codecVars, failureVars

LEMMA MicrophoneType ==
  TypeOK /\ (StopRecording \/ PacketFails \/ Encoded \/ Acknowledged) => TypeOK'
<1> SUFFICES ASSUME TypeOK, StopRecording \/ PacketFails \/ Encoded \/ Acknowledged PROVE TypeOK'
  OBVIOUS
<1>1. closing' \in BOOLEAN /\ recording' \in BOOLEAN /\ encoding' \in BOOLEAN
  BY Zenon DEF StopRecording, PacketFails, MaySend, Encoded, Acknowledged, micVars, TypeOK
<1>2. state' \in {"connecting", "idle", "listening", "speaking"}
  BY DEF StopRecording, PacketFails, Encoded, Acknowledged, TypeOK
<1>3. UNCHANGED <<bridgeVars, contextVars, cancelVars, inputVars, invalid, commands, codecVars,
                  output, failureVars>>
  BY DEF StopRecording, PacketFails, Encoded, Acknowledged
<1> QED BY <1>1, <1>2, <1>3, SMTT(20)
    DEF TypeOK, bridgeVars, contextVars, cancelVars, inputVars, codecVars, failureVars

LEMMA DeliverType == TypeOK /\ Deliver => TypeOK'
<1> SUFFICES ASSUME TypeOK, Deliver PROVE TypeOK' OBVIOUS
<1>1. queue \in Seq(1..Streams) /\ decodeQueue \in Seq(1..Streams) /\ Len(queue) <= QueueLimit BY
    DEF TypeOK
<1>2. queue' \in Seq(1..Streams) /\ Len(queue') <= QueueLimit /\ Head(queue) \in 1..Streams
  BY <1>1, QueueShrinks, LimitAssumption DEF Deliver
<1>3. decodeQueue' \in Seq(1..Streams) /\ Len(decodeQueue') <= DecodeLimit
  BY <1>1, <1>2, QueueGrows, LimitAssumption DEF Deliver
<1> QED BY <1>2, <1>3 DEF Deliver, TypeOK, bridgeVars, cancelVars, inputVars, micVars, failureVars

LEMMA AcknowledgeType == TypeOK /\ Acknowledge => TypeOK'
  BY ContextCleared
     DEF Acknowledge, TypeOK, bridgeVars, cancelVars, inputVars, micVars, codecVars, failureVars

LEMMA ReportDecodeFailureType == TypeOK /\ ReportDecodeFailure => TypeOK'
<1> SUFFICES ASSUME TypeOK, ReportDecodeFailure PROVE TypeOK' OBVIOUS
<1>1. closing' \in BOOLEAN /\ failed' \in BOOLEAN BY Zenon
    DEF ReportDecodeFailure, MaySend, TypeOK
<1>2. ClearContext /\ ResetDecoder BY DEF ReportDecodeFailure
<1>3. decoding' \in 0..Streams BY <1>2, DecoderReset DEF TypeOK
<1>4. UNCHANGED <<bridgeVars, cancelVars, inputVars, invalid, commands, micVars, output>>
      /\ failures' = 0 /\ state' \in {state, "idle"}
  BY DEF ReportDecodeFailure
<1>5. failures' \in 0..FailureLimit BY <1>4, LimitAssumption
<1> QED BY <1>1, <1>2, <1>3, <1>4, <1>5, ContextCleared, DecoderReset, SMTT(30)
        DEF TypeOK, bridgeVars, cancelVars, inputVars, micVars

\* There is room for what is being decoded.
PlaybackFits == decoding # 0 => Len(playQueue) < PlayLimit

LEMMA DecoderType == TypeOK /\ PlaybackFits /\ (DecodeBegins \/ DecodeSucceeds \/ DecodeFails) => TypeOK'
<1> SUFFICES ASSUME TypeOK, PlaybackFits, DecodeBegins \/ DecodeSucceeds \/ DecodeFails PROVE TypeOK' OBVIOUS
<1>1. stale' \in BOOLEAN /\ failed' \in BOOLEAN
  BY Zenon DEF DecodeBegins, DecodeSucceeds, DecodeFails, failureVars, TypeOK
<1>2. decodeQueue' \in Seq(1..Streams) /\ Len(decodeQueue') <= DecodeLimit /\ decoding' \in 0..Streams
  <2>1. decodeQueue \in Seq(1..Streams) /\ Len(decodeQueue) <= DecodeLimit BY DEF TypeOK
  <2>2. CASE DecodeBegins
    <3>1. decodeQueue # <<>> /\ decoding' = Head(decodeQueue) /\ decodeQueue' = Tail(decodeQueue)
      BY <2>2 DEF DecodeBegins
    <3>2. decoding' \in 1..Streams /\ decodeQueue' \in Seq(1..Streams) /\ Len(decodeQueue') <= DecodeLimit
      BY <2>1, <3>1, QueueShrinks, LimitAssumption
    <3> QED BY <3>2, StreamAssumption
  <2>3. CASE DecodeSucceeds \/ DecodeFails BY <2>1, <2>3, StreamAssumption
      DEF DecodeSucceeds, DecodeFails
  <2> QED BY <2>2, <2>3
<1>3. failures' \in 0..FailureLimit
  <2>1. failures \in 0..FailureLimit /\ FailureLimit \in Nat BY LimitAssumption DEF TypeOK
  <2>2. failures' \in {0, failures} \/ (failures < FailureLimit /\ failures' = failures + 1)
    <3>1. CASE DecodeBegins BY <3>1 DEF DecodeBegins, failureVars
    <3>2. CASE DecodeSucceeds BY <3>2 DEF DecodeSucceeds
    <3>3. CASE DecodeFails BY <3>3 DEF DecodeFails
    <3> QED BY <3>1, <3>2, <3>3
  <2> QED BY <2>1, <2>2
<1>4. playQueue' \in Seq(1..Streams) /\ Len(playQueue') <= PlayLimit
  <2>1. playQueue \in Seq(1..Streams) /\ Len(playQueue) <= PlayLimit BY DEF TypeOK
  <2>2. CASE DecodeBegins \/ DecodeFails BY <2>1, <2>2 DEF DecodeBegins, DecodeFails
  <2>3. CASE DecodeSucceeds
    <3>1. decoding \in 1..Streams /\ Len(playQueue) < PlayLimit
      BY <2>3, StreamAssumption DEF DecodeSucceeds, PlaybackFits, TypeOK
    <3> QED BY <2>1, <2>3, <3>1, QueueGrows, LimitAssumption DEF DecodeSucceeds
  <2> QED BY <2>2, <2>3
<1>5. UNCHANGED <<bridgeVars, state, closing, contextVars, cancelVars, inputVars, invalid, commands,
                  micVars, output>>
  BY DEF DecodeBegins, DecodeSucceeds, DecodeFails
<1> QED BY <1>1, <1>2, <1>3, <1>4, <1>5
    DEF TypeOK, bridgeVars, contextVars, cancelVars, inputVars, micVars

LEMMA OutputType == TypeOK /\ (OutputBegins \/ OutputEnds) => TypeOK'
<1> SUFFICES ASSUME TypeOK, OutputBegins \/ OutputEnds PROVE TypeOK' OBVIOUS
<1>1. output' \in BOOLEAN BY Zenon DEF OutputBegins, OutputEnds
<1>2. playQueue' \in Seq(1..Streams) /\ Len(playQueue') <= PlayLimit
  <2>1. playQueue \in Seq(1..Streams) /\ Len(playQueue) <= PlayLimit BY DEF TypeOK
  <2>2. CASE OutputBegins
    <3>1. playQueue # <<>> /\ playQueue' = Tail(playQueue) BY <2>2 DEF OutputBegins
    <3> QED BY <2>1, <3>1, QueueShrinks, LimitAssumption
  <2>3. CASE OutputEnds BY <2>1, <2>3 DEF OutputEnds, codecVars
  <2> QED BY <2>2, <2>3
<1>3. /\ UNCHANGED <<bridgeVars, state, closing, contextVars, cancelVars, inputVars, invalid, commands,
                     micVars, failureVars>>
      /\ UNCHANGED <<decodeQueue, decoding, stale>>
  BY DEF OutputBegins, OutputEnds, codecVars
<1> QED BY <1>1, <1>2, <1>3
    DEF TypeOK, bridgeVars, contextVars, cancelVars, inputVars, micVars, failureVars

LEMMA CodecChanges ==
  ASSUME Next
  PROVE  \/ UNCHANGED <<decoding, playQueue>> \/ ResetDecoder
         \/ DecodeBegins \/ DecodeSucceeds \/ DecodeFails \/ OutputBegins
<1>1. CASE BridgeNext
  BY <1>1 DEF BridgeNext, BridgeStart, BridgePacket, BridgeEnd, BridgeFails, BridgeCancels,
     CancelPlayer, BridgeCancelsStart, BridgeCancelsBetween, BridgeOrders, BridgeFaults, Says, codecVars
<1>2. CASE Receive
  BY <1>2
     DEF Receive, Handle, OnStart, OnPacket, OnEnd, OnFault, OnCancel, Refuse, codecVars
<1>3. CASE HandleStart BY <1>3 DEF HandleStart, BeginInput, codecVars
<1>4. CASE HandleEnd \/ StopRecording \/ PacketFails \/ InputExpires \/ Disconnect \/ Acknowledged
  BY <1>4
     DEF HandleEnd, StopRecording, PacketFails, InputExpires, Disconnect, Acknowledged,
         codecVars
<1>5. CASE Deliver \/ Acknowledge \/ ReportDecodeFailure
  BY <1>5 DEF Deliver, Acknowledge, ReportDecodeFailure, codecVars
<1>6. CASE AudioNext BY <1>6 DEF AudioNext, OutputEnds, Encoded, codecVars
<1> QED BY <1>1, <1>2, <1>3, <1>4, <1>5, <1>6 DEF Next, WorkerNext

LEMMA PlaybackFitsStays == TypeOK /\ PlaybackFits /\ [Next]_vars => PlaybackFits'
<1> SUFFICES ASSUME TypeOK, PlaybackFits, [Next]_vars PROVE PlaybackFits' OBVIOUS
<1>1. playQueue \in Seq(1..Streams) /\ Len(<<>>) = 0 BY DEF TypeOK
<1>2. CASE UNCHANGED <<decoding, playQueue>> BY <1>2 DEF PlaybackFits
<1>3. CASE ResetDecoder
  <2>1. decoding' = decoding /\ playQueue' = <<>> BY <1>3 DEF ResetDecoder
  <2> QED BY <1>1, <2>1, LimitAssumption DEF PlaybackFits
<1>4. CASE DecodeBegins BY <1>4 DEF DecodeBegins, PlaybackFits
<1>5. CASE DecodeSucceeds \/ DecodeFails BY <1>5
    DEF DecodeSucceeds, DecodeFails, PlaybackFits
<1>6. CASE OutputBegins
  BY <1>1, <1>6, QueueShrinks, LimitAssumption DEF OutputBegins, PlaybackFits, TypeOK
<1>7. UNCHANGED vars => UNCHANGED <<decoding, playQueue>> BY DEF vars, codecVars
<1> QED BY <1>2, <1>3, <1>4, <1>5, <1>6, <1>7, CodecChanges

\* Every variable keeps its type and every queue its bound.
THEOREM TypeCorrect == Spec => []TypeOK
<1>1. Init => TypeOK /\ PlaybackFits
  <2> SUFFICES ASSUME Init PROVE TypeOK /\ PlaybackFits OBVIOUS
  <2>1. /\ closing \in BOOLEAN /\ open \in BOOLEAN /\ preroll \in BOOLEAN /\ recording \in BOOLEAN
        /\ stale \in BOOLEAN /\ output \in BOOLEAN /\ failed \in BOOLEAN
        /\ starting \in BOOLEAN /\ encoding \in BOOLEAN
    BY Zenon DEF Init
  <2>2. Len(<<>>) = 0 /\ <<>> \in Seq(Message) /\ <<>> \in Seq(1..Streams) OBVIOUS
  <2> QED BY <2>1, <2>2, StreamAssumption, LimitAssumption, TurnsAreBounded
      DEF Init, TypeOK, PlaybackFits
<1>2. TypeOK /\ PlaybackFits /\ [Next]_vars => TypeOK'
  <2> SUFFICES ASSUME TypeOK, PlaybackFits, [Next]_vars PROVE TypeOK' OBVIOUS
  <2>1. CASE BridgeNext
    BY <2>1, BridgeStartType, BridgePacketType, BridgeEndType, BridgeFailsType, BridgeCancelsType,
       BridgeCancelsStartType, BridgeCancelsBetweenType, BridgeOrdersType, BridgeFaultsType DEF BridgeNext
  <2>2. CASE WorkerNext
    BY <2>2, ReceiveType, HandleStartType, HandleEndType, MicrophoneType, DeliverType,
       AcknowledgeType, ReportDecodeFailureType DEF WorkerNext
  <2>3. CASE AudioNext BY <2>3, DecoderType, OutputType, MicrophoneType DEF AudioNext
  <2>4. CASE Disconnect \/ Acknowledged BY <2>4, DisconnectType, MicrophoneType
  <2>5. CASE UNCHANGED vars
    BY <2>5
       DEF vars, TypeOK, bridgeVars, contextVars, cancelVars, inputVars, micVars, codecVars,
           failureVars
  <2> QED BY <2>1, <2>2, <2>3, <2>4, <2>5 DEF Next
<1>3. TypeOK /\ PlaybackFits /\ [Next]_vars => (TypeOK /\ PlaybackFits)'
  BY <1>2, PlaybackFitsStays
<1> QED BY <1>1, <1>3, PTL DEF Spec

(***************************************************************************)
(* The state, the playback context and the input.                          *)
(***************************************************************************)
\* A step that changes none of them, and gives up a connection at most.
LEMMA MatchStays ==
  ASSUME StateMatchesStreams, UNCHANGED <<state, contextVars, input>>, closing => closing'
  PROVE StateMatchesStreams'
  BY DEF StateMatchesStreams, contextVars

LEMMA OnStartMatches ==
  ASSUME TypeOK, StateMatchesStreams, NEW s \in 1..Streams, OnStart(s)
  PROVE StateMatchesStreams'
<1>1. CASE /\ input # 0
           /\ closing' = TRUE
           /\ UNCHANGED <<state, contextVars, cancelVars, input, invalid, commands, codecVars>>
  <2>1. closing' BY <1>1, Zenon
  <2> QED BY <1>1, <2>1, MatchStays
<1>2. CASE /\ stream' = s /\ input' = 0 /\ state' = "speaking"
  BY <1>2 DEF StateMatchesStreams
<1>3. CASE Refuse BY <1>3, ReportType, MatchStays DEF Refuse
<1> QED BY <1>1, <1>2, <1>3 DEF OnStart

LEMMA OnPacketMatches ==
  ASSUME TypeOK, StateMatchesStreams, NEW s \in 1..Streams, OnPacket(s)
  PROVE StateMatchesStreams'
<1>1. CASE open /\ UNCHANGED <<state, closing, stream, input>>
  BY <1>1 DEF StateMatchesStreams
<1>2. CASE Refuse BY <1>2, ReportType, MatchStays DEF Refuse
<1> QED BY <1>1, <1>2 DEF OnPacket

LEMMA OnEndMatches ==
  ASSUME TypeOK, StateMatchesStreams, NEW s \in 1..Streams, NEW reason \in EndReasons, OnEnd(s, reason)
  PROVE StateMatchesStreams'
<1>1. CASE UNCHANGED <<state, closing, contextVars, input>> BY <1>1, MatchStays
<1>2. CASE open /\ UNCHANGED <<state, stream, closing, input>>
  BY <1>2 DEF StateMatchesStreams
<1>3. CASE open /\ ClearContext /\ state' = "idle" /\ UNCHANGED input
  BY <1>3, ContextCleared DEF StateMatchesStreams
<1>4. CASE Refuse BY <1>4, ReportType, MatchStays DEF Refuse
<1> QED BY <1>1, <1>2, <1>3, <1>4 DEF OnEnd

LEMMA OnFaultMatches ==
  ASSUME TypeOK, StateMatchesStreams, NEW i \in 1..Inputs, OnFault(i)
  PROVE StateMatchesStreams'
<1>1. CASE input' = 0 /\ state' = "idle" /\ input # 0 BY <1>1
    DEF OnFault, StateMatchesStreams, contextVars
<1>2. CASE UNCHANGED <<state, input>> BY <1>2, MatchStays DEF OnFault
<1> QED BY <1>1, <1>2 DEF OnFault

LEMMA OnCancelMatches ==
  ASSUME TypeOK, StateMatchesStreams, NEW t \in 1..Turns, OnCancel(t)
  PROVE StateMatchesStreams'
<1>1. closing => closing' BY Zenon DEF OnCancel
<1>2. UNCHANGED input BY DEF OnCancel
<1>3. CASE UNCHANGED <<state, contextVars>> BY <1>1, <1>2, <1>3, MatchStays
<1>4. CASE ClearContext /\ state' = IF state = "speaking" THEN "idle" ELSE state
  BY <1>1, <1>2, <1>4, ContextCleared DEF StateMatchesStreams
<1> QED BY <1>3, <1>4 DEF OnCancel

LEMMA ReceiveMatches == TypeOK /\ StateMatchesStreams /\ Receive => StateMatchesStreams'
<1> SUFFICES ASSUME TypeOK, StateMatchesStreams, Receive PROVE StateMatchesStreams' OBVIOUS
<1>1. Head(wire) \in Message BY QueueShrinks, LimitAssumption DEF Receive, TypeOK
<1>2. CASE closing BY <1>2, MatchStays DEF Receive
<1>3. CASE ~closing
  <2>1. Handle(Head(wire)) BY <1>3 DEF Receive
  <2> QED BY <1>1, <2>1, MessageKinds, OnStartMatches, OnPacketMatches, OnEndMatches, OnFaultMatches,
             OnCancelMatches DEF Handle
<1> QED BY <1>2, <1>3

LEMMA HandleStartMatches == TypeOK /\ StateMatchesStreams /\ HandleStart => StateMatchesStreams'
<1> SUFFICES ASSUME TypeOK, StateMatchesStreams, HandleStart PROVE StateMatchesStreams' OBVIOUS
<1>1. inputs + 1 # 0 BY StreamAssumption DEF TypeOK
<1>2. NoInput => closing' BY Zenon DEF NoInput
<1>3. closing => closing' BY Zenon DEF HandleStart, BeginInput, NewInput, NoInput
<1>4. CASE UNCHANGED <<contextVars, cancelVars, codecVars>> /\ state = "idle"
  BY <1>1, <1>2, <1>3, <1>4
     DEF HandleStart, BeginInput, NewInput, NoInput, inputVars, contextVars,
         StateMatchesStreams
<1>5. CASE ClearContext /\ state' = "listening" /\ (NewInput \/ NoInput)
  BY <1>1, <1>2, <1>5, ContextCleared DEF NewInput, NoInput, inputVars, StateMatchesStreams
<1> QED BY <1>4, <1>5 DEF HandleStart, BeginInput

LEMMA EndInputMatches ==
  TypeOK /\ StateMatchesStreams /\ EndInput /\ UNCHANGED contextVars => StateMatchesStreams'
<1> SUFFICES ASSUME TypeOK, StateMatchesStreams, EndInput, UNCHANGED contextVars
             PROVE StateMatchesStreams' OBVIOUS
<1>1. closing => closing' BY Zenon DEF EndInput, MaySend
<1>2. CASE input # 0 /\ input' = 0 /\ state' = "idle" BY <1>2
    DEF StateMatchesStreams, contextVars
<1>3. CASE UNCHANGED <<input, state>> BY <1>1, <1>3, MatchStays
<1> QED BY <1>2, <1>3 DEF EndInput

LEMMA PlaybackMatches ==
  TypeOK /\ StateMatchesStreams /\ (Deliver \/ Acknowledge \/ ReportDecodeFailure) => StateMatchesStreams'
<1> SUFFICES ASSUME TypeOK, StateMatchesStreams, Deliver \/ Acknowledge \/ ReportDecodeFailure
             PROVE StateMatchesStreams' OBVIOUS
<1>1. closing => closing' BY Zenon DEF Deliver, Acknowledge, ReportDecodeFailure, MaySend
<1>2. UNCHANGED input BY DEF Deliver, Acknowledge, ReportDecodeFailure, inputVars
<1>3. CASE Deliver BY <1>2, <1>3 DEF Deliver, StateMatchesStreams
<1>4. CASE ClearContext /\ state' = IF state = "speaking" THEN "idle" ELSE state
  BY <1>1, <1>2, <1>4, ContextCleared DEF StateMatchesStreams
<1> QED BY <1>3, <1>4 DEF Acknowledge, ReportDecodeFailure

LEMMA MatchIsKept == TypeOK /\ StateMatchesStreams /\ [Next]_vars => StateMatchesStreams'
<1> SUFFICES ASSUME TypeOK, StateMatchesStreams, [Next]_vars PROVE StateMatchesStreams' OBVIOUS
<1>1. CASE BridgeNext \/ AudioNext \/ UNCHANGED vars
  <2>1. UNCHANGED <<state, closing, contextVars, input>>
    BY <1>1
       DEF BridgeNext, BridgeStart, BridgePacket, BridgeEnd, BridgeFails, BridgeCancels,
       CancelPlayer, BridgeCancelsStart, BridgeCancelsBetween, BridgeOrders, BridgeFaults, Says,
       AudioNext, DecodeBegins, DecodeSucceeds,
       DecodeFails, OutputBegins, OutputEnds, Encoded, vars, inputVars
  <2> QED BY <2>1, MatchStays
<1>2. CASE HandleEnd \/ InputExpires BY <1>2, EndInputMatches DEF HandleEnd, InputExpires
<1>3. CASE StopRecording \/ PacketFails
  <2>1. closing => closing' BY <1>3, Zenon DEF StopRecording, PacketFails, MaySend
  <2> QED BY <1>3, <2>1, MatchStays DEF StopRecording, PacketFails, inputVars
<1>4. CASE Disconnect BY <1>4, ContextCleared DEF Disconnect, StateMatchesStreams
<1>5. CASE Acknowledged BY <1>5
    DEF Acknowledged, StateMatchesStreams, contextVars, inputVars
<1> QED BY <1>1, <1>2, <1>3, <1>4, <1>5, ReceiveMatches, HandleStartMatches, PlaybackMatches
    DEF Next, WorkerNext

\* The state, the playback context and the open input, which are written apart, always tell the
\* same of what the device is doing (startAudioOutput, endAudioOutput, beginAudioInput).
THEOREM MatchCorrect == Spec => []StateMatchesStreams
<1>1. Init => StateMatchesStreams
  <2> SUFFICES ASSUME Init PROVE StateMatchesStreams OBVIOUS
  <2>1. ~open /\ ~preroll BY Zenon DEF Init
  <2> QED BY <2>1 DEF Init, StateMatchesStreams
<1>2. TypeOK /\ StateMatchesStreams /\ [Next]_vars => StateMatchesStreams' BY MatchIsKept
<1> QED BY <1>1, <1>2, TypeCorrect, PTL DEF Spec

LEMMA HandlerEffect ==
  ASSUME TypeOK, StateMatchesStreams, Receive, ~Concerns(Head(wire))
  PROVE  /\ UNCHANGED <<state, contextVars, input>>
         /\ state = "speaking" => UNCHANGED codecVars
<1> DEFINE m == Head(wire)
<1>1. m \in Message BY QueueShrinks, LimitAssumption DEF Receive, TypeOK
<1> HIDE DEF m
<1>2. CASE closing BY <1>2 DEF Receive
<1>3. CASE ~closing
  <2>1. Handle(m) /\ ~Concerns(m) BY <1>3 DEF Receive, m
  <2>2. CASE m.kind = "end"
    <3>1. OnEnd(m.of, m.reason) /\ m.of # stream BY <1>1, <2>1, <2>2 DEF Handle, Concerns
    <3> QED BY <3>1 DEF OnEnd, Refuse
  <2>3. CASE m.kind = "cancel"
    <3>1. OnCancel(m.of) /\ ~(stream # 0 /\ m.of = TurnOf(stream)) BY <1>1, <2>1, <2>3
        DEF Handle, Concerns
    <3>2. CASE ~Cancellable(m.of) BY <3>1, <3>2 DEF OnCancel, contextVars
    <3>3. CASE Cancellable(m.of)
      <4>1. stream = 0 BY <3>1, <3>3 DEF Cancellable
      <4>2. state # "speaking" /\ ~open /\ ~preroll /\ queue = <<>> BY <4>1
          DEF StateMatchesStreams
      <4>3. CASE commands < CommandLimit
        <5>1. ClearContext /\ state' = state /\ input' = input
          BY <3>1, <3>3, <4>2, <4>3, LimitAssumption DEF OnCancel, TypeOK
        <5>2. open' = open /\ preroll' = preroll BY <4>2, <5>1, ContextCleared, Zenon
            DEF TypeOK
        <5>3. stream' = stream /\ queue' = queue BY <4>1, <4>2, <5>1, ContextCleared
        <5> QED BY <4>2, <5>1, <5>2, <5>3 DEF contextVars
      <4>4. CASE ~(commands < CommandLimit) BY <3>1, <4>4 DEF OnCancel
      <4> QED BY <4>3, <4>4
    <3> QED BY <3>2, <3>3
  <2>4. CASE m.kind = "fault"
    <3>1. OnFault(m.of) /\ m.of # input BY <1>1, <2>1, <2>4 DEF Handle, Concerns
    <3> QED BY <3>1 DEF OnFault
  <2> QED BY <1>1, <2>1, <2>2, <2>3, <2>4, MessageKinds DEF Concerns
<1> QED BY <1>2, <1>3

\* Of all steps only Receive takes a message while the session lives.
LEMMA OnlyReceiveTakes ==
  ASSUME TypeOK, [Next]_vars, wire # <<>>, wire' = Tail(wire), state' # "connecting"
  PROVE  Receive
<1>1. Len(wire') = Len(wire) - 1 /\ Len(wire) \in Nat BY EmptySeq, LenProperties DEF TypeOK
<1>2. wire' # wire
  <2>1. ASSUME wire' = wire PROVE FALSE
    <3>1. Len(wire') = Len(wire) BY <2>1
    <3> QED BY <1>1, <3>1
  <2> QED BY <2>1
<1>3. ~BridgeNext
  <2>1. ASSUME NEW m, Says(m) PROVE FALSE
    <3>1. Len(wire') = Len(wire) + 1 BY <2>1 DEF Says, TypeOK
    <3> QED BY <1>1, <3>1
  <2> QED BY <1>2, <2>1
      DEF BridgeNext, BridgeStart, BridgePacket, BridgeEnd, BridgeFails, BridgeCancels,
        CancelPlayer, BridgeCancelsStart, BridgeCancelsBetween, BridgeOrders, BridgeFaults
<1>4. ~Disconnect BY DEF Disconnect
<1> QED BY <1>2, <1>3, <1>4
    DEF Next, WorkerNext, AudioNext, HandleStart, HandleEnd, StopRecording, PacketFails,
       InputExpires, Deliver, Acknowledge, ReportDecodeFailure, DecodeBegins, DecodeSucceeds, DecodeFails,
       OutputBegins, OutputEnds, Encoded, Acknowledged, vars, bridgeVars

\* A message about a stream, turn or input that is over changes nothing of what the device
\* is doing (onData and the handlers it calls).
THEOREM LateControlIsIgnored == Spec => LateControlIsHarmless
<1>1. TypeOK /\ StateMatchesStreams /\ [Next]_vars =>
        (wire # <<>> /\ wire' = Tail(wire) /\ state' # "connecting" /\ ~Concerns(Head(wire))
           => UNCHANGED <<state, contextVars, input>> /\ (state = "speaking" => UNCHANGED codecVars))
  BY OnlyReceiveTakes, HandlerEffect
<1> QED BY <1>1, TypeCorrect, MatchCorrect, PTL DEF Spec, LateControlIsHarmless

\* The steps that leave SPEAKING while connected empty the decoder, or find it empty.
LEMMA LeavingEmpties ==
  ASSUME TypeOK, StateMatchesStreams, [Next]_vars, state = "speaking", state' \in {"idle", "listening"}
  PROVE  ResetDecoder \/ (IsIdle /\ UNCHANGED codecVars)
<1>1. input = 0 /\ stream # 0 BY DEF StateMatchesStreams
<1>2. CASE Receive
  <2>1. Head(wire) \in Message BY <1>2, QueueShrinks, LimitAssumption DEF Receive, TypeOK
  <2>2. Handle(Head(wire)) BY <1>2 DEF Receive
  <2>3. CASE OnStart(Head(wire).of) BY <1>1, <2>3 DEF OnStart, Refuse
  <2>4. CASE OnPacket(Head(wire).of) BY <2>4 DEF OnPacket, Refuse
  <2>5. CASE OnEnd(Head(wire).of, Head(wire).reason) BY <2>5 DEF OnEnd, Refuse
  <2>6. ASSUME Head(wire).kind = "fault", OnFault(Head(wire).of) PROVE FALSE
    <3>1. Head(wire).of # 0 BY <2>1, <2>6, MessageKinds, StreamAssumption
    <3> QED BY <1>1, <2>6, <3>1 DEF OnFault
  <2>7. CASE OnCancel(Head(wire).of) BY <2>7 DEF OnCancel
  <2> QED BY <2>2, <2>3, <2>4, <2>5, <2>6, <2>7 DEF Handle
<1>3. CASE HandleStart BY <1>3 DEF HandleStart, BeginInput
<1>4. CASE Acknowledge \/ ReportDecodeFailure BY <1>4 DEF Acknowledge, ReportDecodeFailure
<1>5. UNCHANGED state \/ Receive \/ HandleStart \/ Acknowledge \/ ReportDecodeFailure
  BY <1>1
     DEF Next, BridgeNext, BridgeStart, BridgePacket, BridgeEnd, BridgeFails, BridgeCancels,
     CancelPlayer, BridgeCancelsStart, BridgeCancelsBetween, BridgeOrders, BridgeFaults, Says,
     AudioNext, DecodeBegins, DecodeSucceeds,
     DecodeFails, OutputBegins, OutputEnds, Encoded, WorkerNext, HandleEnd, InputExpires,
     EndInput, StopRecording,
     PacketFails, Deliver, Disconnect, Acknowledged, vars
<1> QED BY <1>2, <1>3, <1>4, <1>5

\* A device that leaves SPEAKING while connected has thrown away what was left of the playback, or
\* played it to the end: nothing of it is heard in IDLE or recorded in LISTENING.
THEOREM LeavesSilently == Spec => LeavingIsSilent
<1>1. TypeOK /\ StateMatchesStreams /\ [Next]_vars =>
        (state = "speaking" /\ state' \in {"idle", "listening"} => Silent')
  <2> SUFFICES ASSUME TypeOK, StateMatchesStreams, [Next]_vars,
                      state = "speaking", state' \in {"idle", "listening"}
               PROVE  Silent'
    OBVIOUS
  <2>1. CASE ResetDecoder BY <2>1, DecoderReset DEF Silent
  <2>2. CASE IsIdle /\ UNCHANGED codecVars BY <2>2 DEF IsIdle, Silent, codecVars
  <2> QED BY <2>1, <2>2, LeavingEmpties
<1> QED BY <1>1, TypeCorrect, MatchCorrect, PTL DEF Spec, LeavingIsSilent

(***************************************************************************)
(* What is played.                                                         *)
(***************************************************************************)
\* The Bridge's streams come in order, and what is on the wire continues the open one, if
\* somebody ends it.
WireIsInOrder ==
  /\ StreamsInOrder(wire, endless)
  /\ Sending(wire, playing, sent, endless)
  /\ Aging(wire, sent)
  /\ open /\ ~closing /\ stream \notin endless =>
             /\ Continues(wire, stream)
             /\ stream = playing \/ HasEnd(wire, stream)
             /\ stream = sent \/ HasStart(wire, sent)

\* The stream n was started, and no start still on the wire is as old.
Known(n) == n <= sent /\ Before(n, wire)

\* All that is left of streams on the device is older than what is to be started, what was left
\* by a barge-in is older than the stream of now, and nothing older than this is on the wire.
NumbersAreKnown ==
  /\ Known(stream) /\ Known(local) /\ Known(decoding)
  /\ \A i \in 1..Len(queue) : Known(queue[i])
  /\ \A i \in 1..Len(decodeQueue) : Known(decodeQueue[i])
  /\ stream # 0 => local < stream
  /\ Reaches(stream, wire)
  /\ decoding = 0 => ~stale

LEMMA EndStays ==
  ASSUME NEW w \in Seq(Message), NEW m \in Message, NEW n, HasEnd(w, n)
  PROVE  HasEnd(Append(w, m), n)
<1>1. PICK j \in 1..Len(w) : Ends(w, j, n) BY DEF HasEnd
<1>2. Len(w) \in Nat /\ Len(Append(w, m)) = Len(w) + 1 /\ Append(w, m)[j] = w[j] OBVIOUS
<1>3. j \in 1..Len(Append(w, m)) /\ Ends(Append(w, m), j, n) BY <1>1, <1>2 DEF Ends
<1> QED BY <1>3 DEF HasEnd

\* The streams stay in order, and the numbers that are known stay known.
StepKeepsOrder ==
  /\ WireIsInOrder'
  /\ \A n \in 0..Streams : Known(n) => n <= sent' /\ Before(n, wire')
  /\ \A n \in 0..Streams : n <= sent /\ Reaches(n, wire) => Reaches(n, wire')

LEMMA BridgeStartKeeps ==
  ASSUME TypeOK, StateMatchesStreams, WireIsInOrder, BridgeStart
  PROVE  StepKeepsOrder
<1> DEFINE m == [kind |-> "start", of |-> NextStream]
<1>1. /\ NextStream \in 1..Streams /\ NextStream > sent /\ sent \in Int
      /\ m \in Message /\ m.kind = "start" /\ m.of = NextStream
  <2>1. NextStream \in Nat /\ NextStream > sent /\ NextStream <= Streams
    BY StreamsIncrease DEF BridgeStart
  <2>2. sent \in 0..Streams BY DEF TypeOK
  <2>3. NextStream \in 1..Streams BY <2>1, <2>2, StreamAssumption
  <2> QED BY <2>1, <2>2, <2>3, StreamAssumption DEF Message
<1>2. /\ wire \in Seq(Message) /\ wire' = Append(wire, m) /\ sent' = NextStream /\ playing' = NextStream
      /\ UNCHANGED <<open, closing, stream, endless>> /\ playing = 0
  BY DEF TypeOK, BridgeStart, Says, contextVars
<1> HIDE DEF m
<1>3. StreamsInOrder(wire, endless) /\ Sending(wire, 0, sent, endless) BY <1>2 DEF WireIsInOrder
<1>4. /\ StreamsInOrder(wire', endless')
      /\ Sending(wire', playing', sent', endless')
      /\ HasStart(wire', sent')
      /\ \A n : Continues(wire, n) /\ HasEnd(wire, n) => Continues(wire', n)
  BY <1>1, <1>2, <1>3, StartIsSaid
<1>5. open /\ ~closing /\ stream \notin endless => Continues(wire, stream) /\ HasEnd(wire, stream)
  BY <1>2 DEF WireIsInOrder, StateMatchesStreams
<1>6. Aging(wire', sent') BY <1>1, <1>2, AgeIsKept, StreamAssumption DEF WireIsInOrder
<1>7. WireIsInOrder' BY <1>1, <1>2, <1>4, <1>5, <1>6, EndStays DEF WireIsInOrder
<1>8. ASSUME NEW n \in 0..Streams, Known(n) PROVE n <= sent' /\ Before(n, wire')
  <2>1. n < NextStream /\ Before(n, wire) BY <1>1, <1>8, StreamAssumption DEF Known
  <2> QED BY <1>1, <1>2, <2>1, NumbersWhileSaid, StreamAssumption
<1>9. \A n \in 0..Streams : n <= sent /\ Reaches(n, wire) => Reaches(n, wire')
  BY <1>1, <1>2, NumbersWhileSaid
<1> QED BY <1>7, <1>8, <1>9 DEF StepKeepsOrder

LEMMA BridgePacketKeeps ==
  ASSUME TypeOK, StateMatchesStreams, WireIsInOrder, BridgePacket
  PROVE  StepKeepsOrder
<1> DEFINE m == [kind |-> "packet", of |-> playing]
<1>1. /\ playing = sent /\ playing \in 1..Streams
      /\ m \in Message /\ m.kind = "packet" /\ m.of = playing
  <2>1. playing = sent /\ playing \in 1..Streams
    BY StreamAssumption DEF BridgePacket, TypeOK
  <2> QED BY <2>1 DEF Message
<1>2. /\ wire \in Seq(Message) /\ wire' = Append(wire, m)
      /\ UNCHANGED <<open, closing, stream, sent, playing, endless>>
  BY DEF TypeOK, BridgePacket, Says, contextVars
<1> HIDE DEF m
<1>3. StreamsInOrder(wire, endless) /\ Sending(wire, playing, playing, endless) BY <1>1 DEF WireIsInOrder
<1>4. /\ StreamsInOrder(wire', endless') /\ Sending(wire', playing, playing, endless')
      /\ \A n : Continues(wire, n) /\ (n = playing \/ HasStart(wire, playing)) => Continues(wire', n)
      /\ \A n : HasEnd(wire, n) => HasEnd(wire', n)
      /\ \A n : HasStart(wire, n) => HasStart(wire', n)
  BY <1>1, <1>2, <1>3, PacketIsSaid
<1>5. Aging(wire', sent') BY <1>1, <1>2, AgeIsKept, StreamAssumption DEF WireIsInOrder
<1>6. WireIsInOrder' BY <1>1, <1>2, <1>4, <1>5 DEF WireIsInOrder
<1>7. ASSUME NEW n \in 0..Streams, Known(n) PROVE n <= sent' /\ Before(n, wire')
  BY <1>1, <1>2, <1>7, NumbersWhileSaid DEF Known
<1>8. \A n \in 0..Streams : n <= sent /\ Reaches(n, wire) => Reaches(n, wire')
  BY <1>1, <1>2, NumbersWhileSaid
<1> QED BY <1>6, <1>7, <1>8 DEF StepKeepsOrder

LEMMA BridgeEndKeeps ==
  ASSUME TypeOK, StateMatchesStreams, WireIsInOrder, BridgeEnd \/ BridgeFails \/ BridgeCancels
  PROVE  StepKeepsOrder
<1>1. PICK reason \in EndReasons :
        /\ playing # 0 /\ playing' = 0 /\ UNCHANGED <<sent, endless>>
        /\ Says([kind |-> "end", of |-> playing, reason |-> reason])
  BY DEF BridgeEnd, BridgeFails, BridgeCancels, CancelPlayer, EndReasons
<1> DEFINE m == [kind |-> "end", of |-> playing, reason |-> reason]
<1>2. /\ playing = sent /\ playing \in 1..Streams
      /\ m \in Message /\ m.kind = "end" /\ m.of = playing
  BY <1>1, StreamAssumption DEF TypeOK, Message
<1>3. /\ wire \in Seq(Message) /\ wire' = Append(wire, m)
      /\ UNCHANGED <<open, closing, stream>>
  BY <1>1 DEF TypeOK, Says, contextVars
<1> HIDE DEF m
<1>4. StreamsInOrder(wire, endless) /\ Sending(wire, playing, playing, endless) BY <1>2 DEF WireIsInOrder
<1>5. /\ StreamsInOrder(wire', endless') /\ Sending(wire', 0, playing, endless')
      /\ \A n : Continues(wire, n) => Continues(wire', n)
      /\ \A n : n = playing \/ HasEnd(wire, n) => HasEnd(wire', n)
      /\ \A n : HasStart(wire, n) => HasStart(wire', n)
  BY <1>1, <1>2, <1>3, <1>4, EndIsSaid
<1>6. Aging(wire', sent')
  <2>1. sent \in Int /\ sent' = sent /\ Aging(wire, sent)
    BY <1>1, StreamAssumption DEF TypeOK, WireIsInOrder
  <2> QED BY <1>2, <1>3, <2>1, AgeIsKept
<1>7. WireIsInOrder' BY <1>1, <1>2, <1>3, <1>5, <1>6 DEF WireIsInOrder
<1>8. ASSUME NEW n \in 0..Streams, Known(n) PROVE n <= sent' /\ Before(n, wire')
  BY <1>1, <1>2, <1>3, <1>8, NumbersWhileSaid DEF Known
<1>9. \A n \in 0..Streams : n <= sent /\ Reaches(n, wire) => Reaches(n, wire')
  BY <1>2, <1>3, NumbersWhileSaid
<1> QED BY <1>7, <1>8, <1>9 DEF StepKeepsOrder

LEMMA BridgeOtherKeeps ==
  ASSUME TypeOK, StateMatchesStreams, WireIsInOrder, BridgeOrders \/ BridgeFaults
  PROVE  StepKeepsOrder
<1>1. PICK m \in Message : m.kind \in {"cancel", "fault"} /\ Says(m)
  <2>1. CASE BridgeOrders
    <3>1. order \in 1..Turns BY <2>1, TurnsAreBounded DEF BridgeOrders, TypeOK
    <3>2. [kind |-> "cancel", of |-> order] \in Message BY <3>1 DEF Message
    <3> QED BY <2>1, <3>2 DEF BridgeOrders
  <2>2. CASE BridgeFaults
    <3>1. inputs \in 1..Inputs BY <2>2, StreamAssumption DEF BridgeFaults, TypeOK
    <3>2. [kind |-> "fault", of |-> inputs] \in Message BY <3>1 DEF Message
    <3> QED BY <2>2, <3>2 DEF BridgeFaults
  <2> QED BY <2>1, <2>2
<1>2. /\ wire \in Seq(Message) /\ wire' = Append(wire, m)
      /\ UNCHANGED <<open, closing, stream, sent, playing, endless>> /\ sent \in Int
  BY <1>1, StreamAssumption DEF TypeOK, Says, contextVars, BridgeOrders, BridgeFaults
<1>3. StreamsInOrder(wire, endless) /\ Sending(wire, playing, sent, endless) BY DEF WireIsInOrder
<1>4. /\ StreamsInOrder(wire', endless') /\ Sending(wire', playing, sent, endless')
      /\ \A n : Continues(wire, n) => Continues(wire', n)
      /\ \A n : HasEnd(wire, n) => HasEnd(wire', n)
      /\ \A n : HasStart(wire, n) => HasStart(wire', n)
  BY <1>1, <1>2, <1>3, OtherIsSaid
<1>5. Aging(wire', sent') BY <1>1, <1>2, AgeIsKept DEF WireIsInOrder
<1>6. WireIsInOrder' BY <1>2, <1>4, <1>5 DEF WireIsInOrder
<1>7. ASSUME NEW n \in 0..Streams, Known(n) PROVE n <= sent' /\ Before(n, wire')
  BY <1>1, <1>2, <1>7, NumbersWhileSaid DEF Known
<1>8. \A n \in 0..Streams : n <= sent /\ Reaches(n, wire) => Reaches(n, wire')
  BY <1>1, <1>2, NumbersWhileSaid
<1> QED BY <1>6, <1>7, <1>8 DEF StepKeepsOrder

\* A stream that is left without an end is no longer expected to have one.
LEMMA BridgeCancelsStartKeeps ==
  ASSUME TypeOK, WireIsInOrder, BridgeCancelsStart
  PROVE  StepKeepsOrder
<1>1. /\ playing' = 0 /\ endless' = endless \cup {playing}
      /\ UNCHANGED <<wire, sent, open, closing, stream>>
  BY DEF BridgeCancelsStart, CancelPlayer, contextVars
<1>2. StreamsInOrder(wire', endless') BY <1>1 DEF WireIsInOrder, StreamsInOrder
<1>3. Sending(wire', playing', sent', endless') BY <1>1 DEF WireIsInOrder, Sending
<1>4. WireIsInOrder' BY <1>1, <1>2, <1>3 DEF WireIsInOrder
<1> QED BY <1>1, <1>4 DEF StepKeepsOrder, Known

\* Away from the wire a stream can only be left.
LEMMA LocalStepKeeps ==
  ASSUME TypeOK, WireIsInOrder, UNCHANGED <<wire, sent, playing, endless>>,
         open' => open /\ stream' = stream, closing => closing'
  PROVE  StepKeepsOrder
<1>1. WireIsInOrder'
  BY DEF WireIsInOrder
<1> QED BY <1>1 DEF StepKeepsOrder, Known

LEMMA ReceiveKeeps ==
  ASSUME TypeOK, StateMatchesStreams, WireIsInOrder, NumbersAreKnown, Receive
  PROVE  StepKeepsOrder
<1> DEFINE m == Head(wire)
<1>1. /\ wire \in Seq(Message) /\ wire # <<>> /\ wire' = Tail(wire) /\ UNCHANGED <<sent, playing, endless>>
      /\ sent \in Int /\ Aging(wire, sent)
      /\ StreamsInOrder(wire, endless) /\ Sending(wire, playing, sent, endless)
  BY StreamAssumption DEF Receive, TypeOK, WireIsInOrder
<1>2. /\ m \in Message /\ StreamsInOrder(wire', endless') /\ Sending(wire', playing', sent', endless')
      /\ \A n : Before(n, wire) => Before(n, wire')
      /\ Aging(wire', sent')
      /\ \A n : Reaches(n, wire) => Reaches(n, wire')
  BY <1>1, WireIsTaken, AgeIsTaken
<1>3. ASSUME NEW n \in 0..Streams, Known(n) PROVE n <= sent' /\ Before(n, wire')
  BY <1>1, <1>2, <1>3 DEF Known
<1>4. ASSUME open', ~closing', stream' \notin endless
      PROVE  /\ Continues(wire', stream')
             /\ stream' = playing' \/ HasEnd(wire', stream')
             /\ stream' = sent' \/ HasStart(wire', sent')
  <2> HIDE DEF m
  <2>1. ~closing /\ Handle(m)
    <3>1. closing => closing' BY Zenon DEF Receive
    <3> QED BY <1>4, <3>1 DEF Receive, m
  <2>2. CASE m.kind = "start"
    <3>1. LET s == m.of
          IN  /\ s \notin endless => Continues(wire', s)
              /\ s \in endless \cup {playing} \/ HasEnd(wire', s)
              /\ s = sent \/ HasStart(wire', sent)
              /\ \A n : ~Continues(wire, n)
      BY <1>1, <2>2, StartIsTaken DEF m
    <3>2. open => stream \in endless BY <2>1, <3>1 DEF WireIsInOrder
    <3>3. OnStart(m.of) BY <2>1, <2>2 DEF Handle
    <3>4. stream' = m.of
      <4>1. ~(UNCHANGED <<open, stream>>) BY <1>4, <3>2
      <4> QED BY <3>3, <4>1 DEF OnStart, Refuse, contextVars
    <3> QED BY <1>1, <1>4, <3>1, <3>4
  <2>3. CASE m.kind # "start"
    <3>1. open /\ stream' = stream /\ ~(m.kind = "end" /\ m.of = stream)
      <4>1. ClearContext => ~open' BY ContextCleared
      <4>2. CASE m.kind = "packet"
        <5>1. OnPacket(m.of) BY <2>1, <4>2 DEF Handle
        <5> QED BY <1>4, <4>2, <5>1 DEF OnPacket, Refuse, contextVars
      <4>3. CASE m.kind = "end"
        <5>1. OnEnd(m.of, m.reason) BY <2>1, <4>3 DEF Handle
        <5>2. CASE UNCHANGED contextVars /\ (m.of = local \/ ~(open /\ stream = m.of))
          <6>1. open /\ stream' = stream BY <1>4, <5>2 DEF contextVars
          <6>2. stream # 0 /\ local < stream /\ stream \in Int
            BY <6>1, StreamAssumption DEF StateMatchesStreams, NumbersAreKnown, TypeOK
          <6> QED BY <5>2, <6>1, <6>2
        <5>3. ASSUME open' = FALSE PROVE FALSE BY <1>4, <5>3, Zenon
        <5> QED BY <1>4, <4>1, <5>1, <5>2, <5>3 DEF OnEnd, Refuse
      <4>4. CASE m.kind = "fault"
        <5>1. OnFault(m.of) BY <2>1, <4>4 DEF Handle
        <5> QED BY <1>4, <4>4, <5>1 DEF OnFault, contextVars
      <4>5. CASE m.kind = "cancel"
        <5>1. OnCancel(m.of) BY <2>1, <4>5 DEF Handle
        <5> QED BY <1>4, <4>1, <4>5, <5>1 DEF OnCancel, contextVars
      <4> QED BY <1>2, <2>3, <4>2, <4>3, <4>4, <4>5, MessageKinds
    <3>2. /\ Continues(wire, stream)
          /\ stream = playing \/ HasEnd(wire, stream)
          /\ stream = sent \/ HasStart(wire, sent)
      BY <1>4, <2>1, <3>1 DEF WireIsInOrder
    <3>3. /\ Continues(wire', stream)
          /\ HasEnd(wire, stream) => HasEnd(wire', stream)
          /\ HasStart(wire, sent) => HasStart(wire', sent)
      BY <1>1, <2>3, <3>1, <3>2, OtherIsTaken DEF m
    <3> QED BY <1>1, <3>1, <3>2, <3>3
  <2> QED BY <2>2, <2>3
<1> QED BY <1>1, <1>2, <1>3, <1>4 DEF StepKeepsOrder, WireIsInOrder

LEMMA DisconnectKeeps ==
  ASSUME TypeOK, Disconnect
  PROVE  StepKeepsOrder
<1>1. ~open' BY ContextCleared DEF Disconnect
<1>2. wire' = <<>> /\ Len(<<>>) = 0 /\ sent' = sent BY DEF Disconnect
<1>3. WireIsInOrder' BY <1>1, <1>2 DEF WireIsInOrder, StreamsInOrder, Sending, Aging
<1> QED BY <1>2, <1>3 DEF StepKeepsOrder, Known, Before, Reaches

LEMMA EveryStepKeepsOrder ==
  ASSUME TypeOK, StateMatchesStreams, WireIsInOrder, NumbersAreKnown, [Next]_vars
  PROVE  StepKeepsOrder
<1>1. CASE BridgeNext
  <2>1. CASE BridgeCancelsBetween
    BY <2>1, LocalStepKeeps DEF BridgeCancelsBetween, contextVars
  <2> QED BY <1>1, <2>1, BridgeStartKeeps, BridgePacketKeeps, BridgeEndKeeps,
             BridgeCancelsStartKeeps, BridgeOtherKeeps
      DEF BridgeNext
<1>2. CASE HandleStart \/ HandleEnd \/ StopRecording \/ PacketFails \/ InputExpires
  <2>1. closing => closing'
    BY <1>2, Zenon
       DEF HandleStart, BeginInput, NewInput, NoInput, HandleEnd, InputExpires, EndInput,
           MaySend,
       StopRecording, PacketFails
  <2>2. open' => open /\ stream' = stream
    BY <1>2, ContextCleared
       DEF HandleStart, BeginInput, HandleEnd, InputExpires, StopRecording, PacketFails,
           contextVars
  <2>3. UNCHANGED <<wire, sent, playing, endless>>
    BY <1>2 DEF HandleStart, HandleEnd, InputExpires, StopRecording, PacketFails, bridgeVars
  <2> QED BY <2>1, <2>2, <2>3, LocalStepKeeps
<1>3. CASE Deliver \/ Acknowledge \/ ReportDecodeFailure
  <2>1. closing => closing' BY <1>3, Zenon
      DEF Deliver, Acknowledge, ReportDecodeFailure, MaySend
  <2>2. open' => open /\ stream' = stream
    BY <1>3, ContextCleared DEF Deliver, Acknowledge, ReportDecodeFailure
  <2>3. UNCHANGED <<wire, sent, playing, endless>>
    BY <1>3 DEF Deliver, Acknowledge, ReportDecodeFailure, bridgeVars
  <2> QED BY <2>1, <2>2, <2>3, LocalStepKeeps
<1>4. CASE AudioNext \/ Acknowledged \/ UNCHANGED vars
  <2>1. UNCHANGED <<wire, sent, playing, endless, open, stream, closing>>
    BY <1>4
       DEF AudioNext, DecodeBegins, DecodeSucceeds, DecodeFails, OutputBegins, OutputEnds, Encoded,
           Acknowledged, vars,
       bridgeVars, contextVars
  <2> QED BY <2>1, LocalStepKeeps
<1> QED BY <1>1, <1>2, <1>3, <1>4, ReceiveKeeps, DisconnectKeeps DEF Next, WorkerNext

LEMMA ZeroIsKnown ==
  ASSUME TypeOK
  PROVE  Known(0) /\ Reaches(0, wire) /\ 0 <= sent
<1>1. \A i \in 1..Len(wire) : 0 < wire[i].of
  <2> SUFFICES ASSUME NEW i \in 1..Len(wire) PROVE 0 < wire[i].of OBVIOUS
  <2>1. wire \in Seq(Message) BY DEF TypeOK
  <2>2. wire[i].of \in Int /\ wire[i].of > 0 BY <2>1, NumberOfMessage
  <2> QED BY <2>2
<1>2. sent \in 0..Streams BY DEF TypeOK
<1>3. 0 <= sent BY <1>2, StreamAssumption
<1>4. Reaches(0, wire)
  <2>1. \A i \in 1..Len(wire) : wire[i].of \in Int
    <3>1. wire \in Seq(Message) BY DEF TypeOK
    <3> QED BY <3>1, NumberOfMessage
  <2> QED BY <1>1, <2>1 DEF Reaches
<1> QED BY <1>1, <1>3, <1>4 DEF Known, Before

\* A step that only leaves a stream, a packet or a queue.
LEMMA NumbersStay ==
  ASSUME TypeOK, NumbersAreKnown, StepKeepsOrder,
         stream' \in {0, stream}, local' \in {0, local} \/ (local' = stream /\ stream' = 0),
         decoding' \in {0, decoding}, decodeQueue' \in {<<>>, decodeQueue}, queue' \in {<<>>, queue},
         decoding' = 0 => ~stale'
  PROVE  NumbersAreKnown'
<1>1. /\ stream \in 0..Streams /\ local \in 0..Streams /\ decoding \in 0..Streams /\ 0 \in 0..Streams
      /\ \A i \in 1..Len(decodeQueue) : decodeQueue[i] \in 0..Streams
      /\ \A i \in 1..Len(queue) : queue[i] \in 0..Streams
  <2>1. /\ \A i \in 1..Len(decodeQueue) : decodeQueue[i] \in 1..Streams
        /\ \A i \in 1..Len(queue) : queue[i] \in 1..Streams
    BY ElementOfSeq DEF TypeOK
  <2>2. stream \in 0..Streams /\ local \in 0..Streams /\ decoding \in 0..Streams BY DEF TypeOK
  <2>3. 0 \in 0..Streams /\ \A n \in 1..Streams : n \in 0..Streams BY StreamAssumption
  <2> QED BY <2>1, <2>2, <2>3
<1>2. Known(stream)' /\ Known(local)' /\ Known(decoding)'
  BY <1>1, ZeroIsKnown DEF StepKeepsOrder, NumbersAreKnown, Known
<1>3. \A i \in 1..Len(decodeQueue') : decodeQueue'[i] <= sent' /\ Before(decodeQueue'[i], wire')
  <2>1. Len(<<>>) = 0 OBVIOUS
  <2>2. CASE decodeQueue' = <<>> BY <2>1, <2>2
  <2>3. CASE decodeQueue' = decodeQueue BY <1>1, <2>3 DEF StepKeepsOrder, NumbersAreKnown
  <2> QED BY <2>2, <2>3
<1>4. \A i \in 1..Len(queue') : queue'[i] <= sent' /\ Before(queue'[i], wire')
  <2>1. Len(<<>>) = 0 OBVIOUS
  <2>2. CASE queue' = <<>> BY <2>1, <2>2
  <2>3. CASE queue' = queue BY <1>1, <2>3 DEF StepKeepsOrder, NumbersAreKnown
  <2> QED BY <2>2, <2>3
<1>5. stream' # 0 => local' < stream' BY <1>1 DEF NumbersAreKnown
<1>6. Reaches(stream', wire')
  <2>1. Reaches(0, wire) /\ 0 <= sent BY ZeroIsKnown
  <2> QED BY <1>1, <2>1 DEF StepKeepsOrder, NumbersAreKnown, Known
<1> QED BY <1>2, <1>3, <1>5, <1>4, <1>6 DEF NumbersAreKnown, Known

LEMMA OwnPackets ==
  ASSUME NEW q \in Seq(1..Streams), Own(q)
  PROVE  /\ \A s \in 1..Streams : Belongs(s) => Own(Append(q, s))
         /\ q # <<>> => Belongs(Head(q)) /\ Own(Tail(q))
<1>1. DOMAIN q = 1..Len(q) /\ Len(q) \in Nat BY LenProperties
<1>2. ASSUME NEW s \in 1..Streams, Belongs(s) PROVE Own(Append(q, s))
  <2>1. /\ Append(q, s) \in Seq(1..Streams) /\ Len(Append(q, s)) = Len(q) + 1
        /\ \A i \in 1..Len(q) : Append(q, s)[i] = q[i]
        /\ Append(q, s)[Len(q) + 1] = s
    OBVIOUS
  <2>2. DOMAIN Append(q, s) = 1..Len(q) + 1 BY <2>1, LenProperties
  <2> QED BY <1>1, <1>2, <2>1, <2>2 DEF Own
<1>3. ASSUME q # <<>> PROVE Belongs(Head(q)) /\ Own(Tail(q))
  <2>1. Len(q) > 0 BY <1>1, <1>3, EmptySeq
  <2>2. /\ Head(q) = q[1] /\ Tail(q) \in Seq(1..Streams) /\ Len(Tail(q)) = Len(q) - 1
        /\ \A i \in 1..Len(Tail(q)) : Tail(q)[i] = q[i + 1]
    BY <2>1
  <2>3. DOMAIN Tail(q) = 1..Len(q) - 1 BY <2>2, LenProperties
  <2> QED BY <1>1, <2>1, <2>2, <2>3 DEF Own
<1> QED BY <1>2, <1>3

\* What a message does to the playback.
LEMMA ReceiveChoices ==
  ASSUME TypeOK, Receive
  PROVE  /\ local' = local
         /\ \/ UNCHANGED <<stream, queue, codecVars>> /\ state' \in {state, "idle"}
            \/ /\ Head(wire).kind = "start" /\ stream = 0 /\ stream' = Head(wire).of
               /\ queue' = <<>> /\ ResetDecoder
            \/ /\ Head(wire).kind = "packet" /\ open /\ ~closing
               /\ queue' = Append(queue, Head(wire).of)
               /\ UNCHANGED <<state, stream, codecVars>>
            \/ ClearContext /\ ResetDecoder /\ state' # "speaking"
<1>1. Head(wire) \in Message BY QueueShrinks, LimitAssumption DEF Receive, TypeOK
<1>2. CASE closing BY <1>2 DEF Receive, contextVars, cancelVars
<1>3. CASE ~closing
  <2>1. Handle(Head(wire)) BY <1>3 DEF Receive
  <2> DEFINE m == Head(wire)
  <2> HIDE DEF m
  <2>2. CASE m.kind = "start"
    <3>1. OnStart(m.of) BY <2>1, <2>2 DEF Handle, m
    <3> QED BY <2>2, <3>1 DEF OnStart, Refuse, contextVars, cancelVars, m
  <2>3. CASE m.kind = "packet"
    <3>1. OnPacket(m.of) BY <2>1, <2>3 DEF Handle, m
    <3> QED BY <1>3, <2>3, <3>1 DEF OnPacket, Refuse, contextVars, cancelVars, m
  <2>4. CASE m.kind = "end"
    <3>1. OnEnd(m.of, m.reason) BY <2>1, <2>4 DEF Handle, m
    <3> QED BY <3>1 DEF OnEnd, Refuse, contextVars, cancelVars
  <2>5. CASE m.kind = "fault"
    <3>1. OnFault(m.of) BY <2>1, <2>5 DEF Handle, m
    <3> QED BY <3>1 DEF OnFault, contextVars, cancelVars
  <2>6. CASE m.kind = "cancel"
    <3>1. OnCancel(m.of) BY <2>1, <2>6 DEF Handle, m
    <3> QED BY <3>1 DEF OnCancel, contextVars, cancelVars
  <2> QED BY <1>1, <2>2, <2>3, <2>4, <2>5, <2>6, MessageKinds DEF m
<1> QED BY <1>2, <1>3

\* A stream that begins is newer than all that is left of older ones.
LEMMA StartIsNew ==
  ASSUME TypeOK, WireIsInOrder, Receive, Head(wire).kind = "start"
  PROVE  LET s == Head(wire).of
         IN  /\ s \in 1..Streams /\ s <= sent' /\ Before(s, wire') /\ Reaches(s, wire')
             /\ \A n \in 0..Streams : Known(n) => n < s
<1> DEFINE s == Head(wire).of
<1>1. /\ wire \in Seq(Message) /\ wire # <<>> /\ wire' = Tail(wire) /\ sent' = sent /\ sent \in Int
      /\ Aging(wire, sent)
  BY StreamAssumption DEF Receive, TypeOK, WireIsInOrder
<1>2. Head(wire) = wire[1] /\ 1 \in 1..Len(wire) /\ wire[1] \in Message
  <2>1. Len(wire) \in Nat /\ Len(wire) > 0 BY <1>1, EmptySeq, LenProperties
  <2> QED BY <1>1, <2>1, ElementOfSeq
<1>3. s \in 1..Streams BY <1>2, MessageKinds
<1>4. s <= sent' /\ Before(s, wire') /\ Reaches(s, wire') BY <1>1, AgeIsTaken
<1>5. \A n \in 0..Streams : Known(n) => n < s BY <1>2 DEF Known, Before, Starts
<1> QED BY <1>3, <1>4, <1>5

LEMMA ReceiveNumbers ==
  ASSUME TypeOK, WireIsInOrder, NumbersAreKnown, StepKeepsOrder, Receive
  PROVE  NumbersAreKnown'
<1>1. local' = local BY ReceiveChoices
<1>2. CASE UNCHANGED <<stream, queue, codecVars>>
  BY <1>1, <1>2, NumbersStay DEF codecVars, NumbersAreKnown
<1>3. CASE ClearContext /\ ResetDecoder
  BY <1>1, <1>3, NumbersStay, ContextCleared, DecoderReset
<1>4. CASE /\ Head(wire).kind = "start" /\ stream' = Head(wire).of
           /\ queue' = <<>> /\ ResetDecoder
  <2>1. /\ local \in 0..Streams /\ decoding \in 0..Streams /\ Known(local) /\ Known(decoding)
    BY DEF TypeOK, NumbersAreKnown
  <2>2. Known(stream)' /\ local' < stream' /\ Reaches(stream', wire')
    BY <1>1, <1>4, <2>1, StartIsNew DEF Known
  <2>3. Known(local)' /\ Known(decoding)' BY <1>1, <1>4, <2>1, DecoderReset
      DEF StepKeepsOrder, Known
  <2>4. Len(decodeQueue') = 0 /\ Len(queue') = 0 /\ (decoding' = 0 => ~stale')
    BY <1>4, DecoderReset
  <2> QED BY <2>2, <2>3, <2>4 DEF NumbersAreKnown
<1>5. CASE /\ Head(wire).kind = "packet"
           /\ queue' = Append(queue, Head(wire).of)
           /\ UNCHANGED <<stream, codecVars>>
  <2>1. /\ wire \in Seq(Message) /\ wire # <<>> /\ wire' = Tail(wire) /\ sent' = sent /\ sent \in Int
        /\ Aging(wire, sent) /\ queue \in Seq(1..Streams)
    BY StreamAssumption DEF Receive, TypeOK, WireIsInOrder
  <2>2. Head(wire).of <= sent' /\ Before(Head(wire).of, wire')
    BY <1>5, <2>1, AgeIsTaken
  <2>3. Head(wire).of \in 1..Streams
    BY <1>5, <2>1, QueueShrinks, MessageKinds, LimitAssumption DEF TypeOK
  <2>4. \A i \in 1..Len(queue) : queue[i] \in 0..Streams
    <3>1. \A i \in 1..Len(queue) : queue[i] \in 1..Streams BY <2>1, ElementOfSeq
    <3> QED BY <3>1, StreamAssumption
  <2>5. ASSUME NEW i \in 1..Len(queue') PROVE queue'[i] <= sent' /\ Before(queue'[i], wire')
    <3>1. /\ Len(queue) \in Nat /\ Len(queue') = Len(queue) + 1
          /\ \A j \in 1..Len(queue) : queue'[j] = queue[j]
          /\ queue'[Len(queue) + 1] = Head(wire).of
      BY <1>5, <2>1, <2>3
    <3>2. CASE i \in 1..Len(queue) BY <2>4, <3>1, <3>2 DEF StepKeepsOrder, NumbersAreKnown
    <3>3. CASE i = Len(queue) + 1 BY <2>2, <3>1, <3>3
    <3> QED BY <3>1, <3>2, <3>3
  <2>6. /\ stream \in 0..Streams /\ local \in 0..Streams /\ decoding \in 0..Streams
        /\ \A i \in 1..Len(decodeQueue) : decodeQueue[i] \in 0..Streams
    <3>1. \A i \in 1..Len(decodeQueue) : decodeQueue[i] \in 1..Streams BY ElementOfSeq
        DEF TypeOK
    <3>2. stream \in 0..Streams /\ local \in 0..Streams /\ decoding \in 0..Streams BY DEF TypeOK
    <3>3. \A n \in 1..Streams : n \in 0..Streams BY StreamAssumption
    <3> QED BY <3>1, <3>2, <3>3
  <2>7. Known(stream)' /\ Known(local)' /\ Known(decoding)'
    BY <1>1, <1>5, <2>6 DEF StepKeepsOrder, NumbersAreKnown, Known, codecVars
  <2>8. \A i \in 1..Len(decodeQueue') : Known(decodeQueue[i])'
    BY <1>5, <2>6 DEF StepKeepsOrder, NumbersAreKnown, Known, codecVars
  <2>9. Reaches(stream', wire') BY <1>5, <2>6 DEF StepKeepsOrder, NumbersAreKnown, Known
  <2> QED BY <1>1, <1>5, <2>5, <2>7, <2>8, <2>9 DEF NumbersAreKnown, Known, codecVars
<1> QED BY <1>2, <1>3, <1>4, <1>5, ReceiveChoices

LEMMA DeliverNumbers ==
  ASSUME TypeOK, NumbersAreKnown, StepKeepsOrder, Deliver
  PROVE  NumbersAreKnown'
<1>1. /\ queue \in Seq(1..Streams) /\ queue # <<>> /\ decodeQueue \in Seq(1..Streams)
      /\ decodeQueue' = Append(decodeQueue, Head(queue)) /\ queue' = Tail(queue)
      /\ UNCHANGED <<stream, local, decoding, stale>>
  BY DEF Deliver, TypeOK, cancelVars
<1>2. /\ Len(queue) \in Nat /\ Len(queue) > 0 /\ Len(queue') = Len(queue) - 1
      /\ Head(queue) = queue[1] /\ Head(queue) \in 1..Streams
      /\ \A i \in 1..Len(queue') : queue'[i] = queue[i + 1] /\ i + 1 \in 1..Len(queue)
  <2>1. Len(queue) \in Nat /\ Len(queue) > 0 BY <1>1, EmptySeq, LenProperties
  <2>2. Len(queue') = Len(queue) - 1 BY <1>1, <2>1
  <2>3. \A i \in 1..Len(queue') : queue'[i] = queue[i + 1] /\ i + 1 \in 1..Len(queue)
    BY <1>1, <2>1, <2>2
  <2>4. Head(queue) = queue[1] /\ 1 \in 1..Len(queue) BY <1>1, <2>1
  <2>5. queue[1] \in 1..Streams BY <1>1, <2>4, ElementOfSeq
  <2> QED BY <2>1, <2>2, <2>3, <2>4, <2>5
<1>3. /\ stream \in 0..Streams /\ local \in 0..Streams /\ decoding \in 0..Streams
      /\ \A i \in 1..Len(decodeQueue) : decodeQueue[i] \in 0..Streams
      /\ \A i \in 1..Len(queue) : queue[i] \in 0..Streams
  <2>1. /\ \A i \in 1..Len(decodeQueue) : decodeQueue[i] \in 1..Streams
        /\ \A i \in 1..Len(queue) : queue[i] \in 1..Streams
    BY <1>1, ElementOfSeq
  <2>2. stream \in 0..Streams /\ local \in 0..Streams /\ decoding \in 0..Streams BY DEF TypeOK
  <2>3. 0 \in 0..Streams /\ \A n \in 1..Streams : n \in 0..Streams BY StreamAssumption
  <2> QED BY <2>1, <2>2, <2>3
<1>4. Known(stream)' /\ Known(local)' /\ Known(decoding)'
  BY <1>1, <1>3 DEF StepKeepsOrder, NumbersAreKnown, Known
<1>5. \A i \in 1..Len(queue) : queue[i] <= sent' /\ Before(queue[i], wire')
  BY <1>3 DEF StepKeepsOrder, NumbersAreKnown
<1>6. ASSUME NEW i \in 1..Len(decodeQueue')
      PROVE  decodeQueue'[i] <= sent' /\ Before(decodeQueue'[i], wire')
  <2>1. /\ Len(decodeQueue) \in Nat /\ Len(decodeQueue') = Len(decodeQueue) + 1
        /\ \A j \in 1..Len(decodeQueue) : decodeQueue'[j] = decodeQueue[j]
        /\ decodeQueue'[Len(decodeQueue) + 1] = queue[1] /\ 1 \in 1..Len(queue)
    BY <1>1, <1>2
  <2>2. CASE i \in 1..Len(decodeQueue) BY <1>3, <2>1, <2>2
      DEF StepKeepsOrder, NumbersAreKnown
  <2>3. CASE i = Len(decodeQueue) + 1 BY <1>5, <2>1, <2>3
  <2> QED BY <2>1, <2>2, <2>3
<1>7. \A i \in 1..Len(queue') : queue'[i] <= sent' /\ Before(queue'[i], wire') BY <1>2, <1>5
<1>8. Reaches(stream', wire') BY <1>1, <1>3 DEF StepKeepsOrder, NumbersAreKnown, Known
<1> QED BY <1>1, <1>4, <1>6, <1>7, <1>8 DEF NumbersAreKnown, Known

LEMMA DecodeBeginsNumbers ==
  ASSUME TypeOK, NumbersAreKnown, StepKeepsOrder, DecodeBegins
  PROVE  NumbersAreKnown'
<1>1. /\ decodeQueue \in Seq(1..Streams) /\ decodeQueue # <<>> /\ decoding = 0
      /\ decoding' = Head(decodeQueue) /\ decodeQueue' = Tail(decodeQueue)
      /\ UNCHANGED <<stream, local, queue, stale>>
  BY DEF DecodeBegins, TypeOK, cancelVars, contextVars
<1>2. \A i \in 1..Len(decodeQueue) :
        decodeQueue[i] \in 0..Streams /\ decodeQueue[i] <= sent' /\ Before(decodeQueue[i], wire')
  <2>1. \A i \in 1..Len(decodeQueue) : decodeQueue[i] \in 1..Streams BY <1>1, ElementOfSeq
  <2>2. \A i \in 1..Len(decodeQueue) : decodeQueue[i] \in 0..Streams BY <2>1, StreamAssumption
  <2> QED BY <2>2 DEF StepKeepsOrder, NumbersAreKnown
<1>3. /\ Len(decodeQueue) \in Nat /\ Len(decodeQueue) > 0 /\ Len(decodeQueue') = Len(decodeQueue) - 1
      /\ decoding' = decodeQueue[1]
      /\ \A i \in 1..Len(decodeQueue') : decodeQueue'[i] = decodeQueue[i + 1] /\ i + 1 \in 1..Len(decodeQueue)
  <2>1. Len(decodeQueue) \in Nat /\ Len(decodeQueue) > 0 BY <1>1, EmptySeq, LenProperties
  <2>2. Len(decodeQueue') = Len(decodeQueue) - 1 BY <1>1, <2>1
  <2> QED BY <1>1, <2>1, <2>2
<1>4. stream \in 0..Streams /\ local \in 0..Streams BY DEF TypeOK
<1>5. Known(stream)' /\ Known(local)' BY <1>1, <1>4
    DEF StepKeepsOrder, NumbersAreKnown, Known
<1>6. Known(decoding)' BY <1>2, <1>3 DEF Known
<1>7. \A i \in 1..Len(decodeQueue') : Known(decodeQueue[i])' BY <1>2, <1>3 DEF Known
<1>8. \A i \in 1..Len(queue') : Known(queue[i])'
  <2>1. queue \in Seq(1..Streams) BY DEF TypeOK
  <2>2. \A i \in 1..Len(queue) : queue[i] \in 1..Streams BY <2>1, ElementOfSeq
  <2>3. \A i \in 1..Len(queue) : queue[i] \in 0..Streams BY <2>2, StreamAssumption
  <2> QED BY <1>1, <2>3 DEF StepKeepsOrder, NumbersAreKnown, Known
<1>9. Reaches(stream', wire') BY <1>1, <1>4 DEF StepKeepsOrder, NumbersAreKnown, Known
<1> QED BY <1>1, <1>5, <1>6, <1>7, <1>8, <1>9 DEF NumbersAreKnown

LEMMA StepNumbers ==
  ASSUME TypeOK, WireIsInOrder, NumbersAreKnown, StepKeepsOrder, [Next]_vars
  PROVE  NumbersAreKnown'
<1>1. CASE UNCHANGED <<stream, local, queue, decodeQueue, decoding, stale>>
  BY <1>1, NumbersStay DEF NumbersAreKnown
<1>2. CASE Disconnect
  BY <1>2, NumbersStay, ContextCleared DEF Disconnect, codecVars, NumbersAreKnown
<1>3. CASE HandleStart
  <2>1. CASE UNCHANGED <<contextVars, cancelVars, codecVars>>
    BY <1>1, <2>1 DEF contextVars, cancelVars, codecVars
  <2>2. CASE ResetDecoder /\ ClearContext /\ local' = stream
    BY <2>2, NumbersStay, ContextCleared, DecoderReset
  <2> QED BY <1>3, <2>1, <2>2 DEF HandleStart, BeginInput
<1>4. CASE Acknowledge BY <1>4, NumbersStay, ContextCleared
    DEF Acknowledge, cancelVars, codecVars, NumbersAreKnown
<1>5. CASE ReportDecodeFailure
  BY <1>5, NumbersStay, ContextCleared, DecoderReset DEF ReportDecodeFailure, cancelVars
<1>6. CASE DecodeSucceeds \/ DecodeFails
  <2>1. ~stale' BY <1>6, Zenon DEF DecodeSucceeds, DecodeFails
  <2> QED BY <1>6, <2>1, NumbersStay
      DEF DecodeSucceeds, DecodeFails, contextVars, cancelVars
<1>7. CASE BridgeNext \/ HandleEnd \/ InputExpires \/ StopRecording \/ PacketFails \/ Acknowledged
           \/ OutputBegins \/ OutputEnds \/ Encoded \/ UNCHANGED vars
  BY <1>1, <1>7
     DEF BridgeNext, BridgeStart, BridgePacket, BridgeEnd, BridgeFails, BridgeCancels,
     CancelPlayer, BridgeCancelsStart, BridgeCancelsBetween, BridgeOrders, BridgeFaults, Says,
     HandleEnd, InputExpires, StopRecording,
     PacketFails, Acknowledged, OutputBegins, OutputEnds, Encoded, vars, contextVars, cancelVars, codecVars
<1> QED BY <1>2, <1>3, <1>4, <1>5, <1>6, <1>7, ReceiveNumbers, DeliverNumbers, DecodeBeginsNumbers
        DEF Next, WorkerNext, AudioNext

\* A stream plays on where neither the state nor a queue changes.
LEMMA PlayStays ==
  ASSUME PlaysItsStream, UNCHANGED <<stream, endless, queue, codecVars>>,
         state' = "speaking" => state = "speaking"
  PROVE  PlaysItsStream'
  BY DEF PlaysItsStream, codecVars, Own, Belongs

LEMMA ReceivePlays ==
  ASSUME TypeOK, StateMatchesStreams, PlaysItsStream, WireIsInOrder, NumbersAreKnown, Receive
  PROVE  PlaysItsStream'
<1>1. endless' = endless BY DEF Receive
<1>2. CASE UNCHANGED <<stream, queue, codecVars>> /\ state' \in {state, "idle"}
  BY <1>1, <1>2, PlayStays
<1>3. CASE Head(wire).kind = "start" /\ stream' = Head(wire).of /\ queue' = <<>> /\ ResetDecoder
  <2>1. decoding \in 0..Streams /\ Known(decoding) BY DEF TypeOK, NumbersAreKnown
  <2>2. decoding < stream' BY <1>3, <2>1, StartIsNew
  <2>3. queue' = <<>> /\ decodeQueue' = <<>> /\ playQueue' = <<>> BY <1>3, DecoderReset
  <2>4. decoding' # 0 => stale' /\ decoding' < stream' BY <1>3, <2>2, DecoderReset
  <2> QED BY <2>3, <2>4 DEF PlaysItsStream, Own
<1>4. CASE /\ Head(wire).kind = "packet" /\ open /\ ~closing
           /\ queue' = Append(queue, Head(wire).of)
           /\ UNCHANGED <<state, stream, codecVars>>
  <2>1. /\ wire \in Seq(Message) /\ wire # <<>> /\ Len(wire) \in Nat /\ Len(wire) > 0
        /\ Head(wire) = wire[1]
    <3>1. wire \in Seq(Message) /\ wire # <<>> BY DEF Receive, TypeOK
    <3>2. Len(wire) \in Nat /\ Len(wire) > 0 BY <3>1, EmptySeq, LenProperties
    <3> QED BY <3>1, <3>2
  <2>2. Head(wire).of \in 1..Streams
    BY <1>4, <2>1, QueueShrinks, MessageKinds, LimitAssumption DEF TypeOK
  <2>3. Belongs(Head(wire).of)
    <3>1. CASE stream \notin endless
      <4>1. Continues(wire, stream) BY <1>4, <3>1 DEF WireIsInOrder
      <4>2. Head(wire).of = stream BY <1>4, <2>1, <4>1, OtherIsTaken
      <4> QED BY <4>2 DEF Belongs
    <3>2. CASE stream \in endless
      <4>1. Reaches(stream, wire) /\ 1 \in 1..Len(wire) BY <2>1 DEF NumbersAreKnown
      <4>2. stream <= Head(wire).of BY <1>4, <2>1, <4>1 DEF Reaches
      <4>3. stream \in Int BY StreamAssumption DEF TypeOK
      <4> QED BY <2>2, <3>2, <4>2, <4>3 DEF Belongs
    <3> QED BY <3>1, <3>2
  <2>4. state = "speaking" /\ queue \in Seq(1..Streams)
    BY <1>4 DEF StateMatchesStreams, TypeOK
  <2>5. Own(queue') BY <1>4, <2>2, <2>3, <2>4, OwnPackets DEF PlaysItsStream
  <2> QED BY <1>1, <1>4, <2>4, <2>5 DEF PlaysItsStream, codecVars, Own, Belongs
<1>5. CASE state' # "speaking" BY <1>5 DEF PlaysItsStream
<1> QED BY <1>2, <1>3, <1>4, <1>5, ReceiveChoices

LEMMA DeliverPlays ==
  ASSUME TypeOK, StateMatchesStreams, PlaysItsStream, Deliver
  PROVE  PlaysItsStream'
<1>1. state = "speaking" BY DEF Deliver, StateMatchesStreams
<1>2. /\ queue \in Seq(1..Streams) /\ queue # <<>> /\ decodeQueue \in Seq(1..Streams)
      /\ Own(queue) /\ Own(decodeQueue) /\ Own(playQueue)
      /\ decoding # 0 => IF stale THEN decoding < stream ELSE Belongs(decoding)
  BY <1>1 DEF Deliver, PlaysItsStream, TypeOK
<1>3. Head(queue) \in 1..Streams BY <1>2, QueueShrinks, LimitAssumption DEF TypeOK
<1>4. Own(Tail(queue)) /\ Own(Append(decodeQueue, Head(queue))) BY <1>2, <1>3, OwnPackets
<1>5. /\ queue' = Tail(queue) /\ decodeQueue' = Append(decodeQueue, Head(queue))
      /\ UNCHANGED <<stream, endless, playQueue, decoding, stale>>
  BY DEF Deliver, bridgeVars
<1>6. Own(queue') /\ Own(decodeQueue') BY <1>4, <1>5
<1> QED BY <1>2, <1>5, <1>6 DEF PlaysItsStream, Own, Belongs

LEMMA DecoderPlays ==
  ASSUME TypeOK, PlaysItsStream, NumbersAreKnown,
         DecodeBegins \/ DecodeSucceeds \/ DecodeFails \/ OutputBegins
  PROVE  PlaysItsStream'
<1>1. UNCHANGED <<state, stream, endless, queue>>
  BY DEF DecodeBegins, DecodeSucceeds, DecodeFails, OutputBegins, contextVars, bridgeVars
<1>2. CASE state # "speaking" BY <1>1, <1>2 DEF PlaysItsStream
<1>3. CASE state = "speaking"
  <2>1. /\ decodeQueue \in Seq(1..Streams) /\ playQueue \in Seq(1..Streams)
        /\ Own(queue) /\ Own(decodeQueue) /\ Own(playQueue)
        /\ decoding # 0 => IF stale THEN decoding < stream ELSE Belongs(decoding)
        /\ decoding = 0 => ~stale
    BY <1>3 DEF PlaysItsStream, TypeOK, NumbersAreKnown
  <2>2. CASE DecodeBegins
    <3>1. decodeQueue # <<>> /\ decodeQueue' = Tail(decodeQueue) /\ decoding' = Head(decodeQueue)
          /\ decoding = 0 /\ UNCHANGED <<playQueue, stale>>
      BY <2>2 DEF DecodeBegins
    <3>2. Belongs(decoding') /\ Own(decodeQueue') BY <2>1, <3>1, OwnPackets
    <3> QED BY <1>1, <2>1, <3>1, <3>2 DEF PlaysItsStream, Own, Belongs
  <2>3. CASE DecodeSucceeds
    <3>1. decoding # 0 /\ decoding' = 0 /\ UNCHANGED decodeQueue
          /\ playQueue' = IF stale THEN playQueue ELSE Append(playQueue, decoding)
      BY <2>3 DEF DecodeSucceeds
    <3>2. Own(playQueue')
      <4>1. CASE stale BY <2>1, <3>1, <4>1
      <4>2. CASE ~stale
        <5>1. /\ playQueue' = Append(playQueue, decoding) /\ Belongs(decoding)
              /\ decoding \in 1..Streams
          BY <2>1, <3>1, <4>2, StreamAssumption DEF TypeOK
        <5> QED BY <2>1, <5>1, OwnPackets
      <4> QED BY <4>1, <4>2
    <3> QED BY <1>1, <2>1, <3>1, <3>2 DEF PlaysItsStream, Own, Belongs
  <2>4. CASE DecodeFails
    BY <1>1, <2>1, <2>4 DEF DecodeFails, PlaysItsStream, Own, Belongs
  <2>5. CASE OutputBegins
    <3>1. playQueue # <<>> /\ playQueue' = Tail(playQueue) /\ UNCHANGED <<decodeQueue, decoding, stale>>
      BY <2>5 DEF OutputBegins
    <3>2. Own(playQueue') BY <2>1, <3>1, OwnPackets
    <3> QED BY <1>1, <2>1, <3>1, <3>2 DEF PlaysItsStream, Own, Belongs
  <2> QED BY <2>2, <2>3, <2>4, <2>5
<1> QED BY <1>2, <1>3

LEMMA StepPlays ==
  ASSUME TypeOK, StateMatchesStreams, PlaysItsStream, WireIsInOrder, NumbersAreKnown, [Next]_vars
  PROVE  PlaysItsStream'
<1>1. CASE HandleStart \/ Disconnect \/ Acknowledged \/ Acknowledge \/ ReportDecodeFailure
  <2>1. state' # "speaking"
    BY <1>1
       DEF HandleStart, BeginInput, Disconnect, Acknowledged, Acknowledge,
           ReportDecodeFailure
  <2> QED BY <2>1 DEF PlaysItsStream
<1>2. CASE \/ BridgeNext /\ ~BridgeCancelsStart
           \/ OutputEnds \/ Encoded \/ UNCHANGED vars \/ StopRecording \/ PacketFails
  <2>1. UNCHANGED <<state, endless, contextVars, codecVars>>
    BY <1>2
       DEF BridgeNext, BridgeStart, BridgePacket, BridgeEnd, BridgeFails, BridgeCancels, CancelPlayer,
       BridgeCancelsBetween, BridgeOrders, BridgeFaults, Says, OutputEnds, Encoded, vars, StopRecording,
       PacketFails, bridgeVars
  <2> QED BY <2>1, PlayStays DEF contextVars
<1>3. CASE HandleEnd \/ InputExpires
  BY <1>3, PlayStays DEF HandleEnd, InputExpires, EndInput, contextVars, bridgeVars
<1>4. CASE BridgeCancelsStart
  <2>1. UNCHANGED <<state, contextVars, codecVars>> /\ endless \subseteq endless'
    BY <1>4 DEF BridgeCancelsStart
  <2> QED BY <2>1 DEF PlaysItsStream, Own, Belongs, contextVars, codecVars
<1> QED BY <1>1, <1>2, <1>3, <1>4, ReceivePlays, DeliverPlays, DecoderPlays
    DEF Next, WorkerNext, AudioNext

\* The inductive invariant, on top of types and StateMatchesStreams.
PlayInvariant == PlaysItsStream /\ WireIsInOrder /\ NumbersAreKnown

LEMMA PlayBegins == Init => PlayInvariant
<1> SUFFICES ASSUME Init PROVE PlayInvariant OBVIOUS
<1>1. ~open /\ ~stale BY Zenon DEF Init
<1>2. Len(<<>>) = 0 OBVIOUS
<1>3. PlaysItsStream BY DEF Init, PlaysItsStream
<1>4. WireIsInOrder BY <1>1, <1>2 DEF Init, WireIsInOrder, StreamsInOrder, Sending, Aging
<1>5. NumbersAreKnown BY <1>1, <1>2 DEF Init, NumbersAreKnown, Known, Before, Reaches
<1> QED BY <1>3, <1>4, <1>5 DEF PlayInvariant

LEMMA PlayInvariance == Spec => []PlayInvariant
<1>1. TypeOK /\ StateMatchesStreams /\ PlayInvariant /\ [Next]_vars => PlayInvariant'
  BY EveryStepKeepsOrder, StepNumbers, StepPlays DEF PlayInvariant, StepKeepsOrder
<1> QED BY <1>1, PlayBegins, TypeCorrect, MatchCorrect, PTL DEF Spec

\* A device that is SPEAKING plays the packets of its stream and none older, and drops none of them
\* in the decoder, whatever barge-ins, cancellations and losses came before (OnPacket,
\* AudioService::ResetDecoder, finishDecode). It plays none newer either, unless the Bridge was
\* cancelled in the send of the start and ends the stream nowhere (AudioOutputStreamer.play).
THEOREM PlayCorrect == Spec => []PlaysItsStream
<1>1. PlayInvariant => PlaysItsStream BY DEF PlayInvariant
<1> QED BY <1>1, PlayInvariance, PTL
-----------------------------------------------------------------------------
(***************************************************************************)
(* Refinement: the session implements Conversation.                        *)
(*                                                                         *)
(* The streams that are past are the known ones of above, and a start that *)
(* is taken is newer than all of them. What is still to sound is emptied   *)
(* wherever the device begins or stops to speak.                           *)
(***************************************************************************)
\* Without a session nothing is on the wire.
NothingArrives == state = "connecting" => wire = <<>>

LEMMA NothingArrivesStays == ASSUME NothingArrives, [Next]_vars PROVE NothingArrives'
<1> USE DEF NothingArrives
<1>1. CASE BridgeNext
  BY <1>1
  DEF BridgeNext, BridgeStart, BridgePacket, BridgeEnd, BridgeFails, BridgeCancels,
      CancelPlayer, BridgeCancelsStart, BridgeCancelsBetween, BridgeOrders, BridgeFaults, Says
<1>2. CASE Receive
  <2>1. CASE closing BY <1>2, <2>1 DEF Receive
  <2>2. CASE ~closing
    <3>1. state' # "connecting"
      BY <1>2, <2>2
      DEF Receive, Handle, OnStart, OnPacket, OnEnd, OnFault, OnCancel, Refuse
    <3> QED BY <3>1
  <2> QED BY <2>1, <2>2
<1>3. CASE Disconnect BY <1>3 DEF Disconnect
<1>4. CASE HandleStart \/ HandleEnd \/ InputExpires
  BY <1>4 DEF HandleStart, BeginInput, HandleEnd, InputExpires, EndInput, bridgeVars
<1>5. CASE \/ StopRecording \/ PacketFails \/ Deliver \/ Acknowledge \/ ReportDecodeFailure
           \/ AudioNext \/ Acknowledged \/ UNCHANGED vars
  BY <1>5
  DEF StopRecording, PacketFails, Deliver, Acknowledge, ReportDecodeFailure, AudioNext,
      DecodeBegins, DecodeSucceeds, DecodeFails, OutputBegins, OutputEnds, Encoded, Acknowledged, vars,
      bridgeVars
<1> QED BY <1>1, <1>2, <1>3, <1>4, <1>5 DEF Next, WorkerNext

LEMMA ArrivalInvariance == Spec => []NothingArrives
<1>1. Init => NothingArrives BY DEF Init, NothingArrives
<1> QED BY <1>1, NothingArrivesStays, PTL DEF Spec

(***************************************************************************)
(* What is still to sound.                                                 *)
(***************************************************************************)
LEMMA NothingIsStreamed == Streamed(<<>>) = {}
<1>1. Len(<<>>) = 0 OBVIOUS
<1> QED BY <1>1 DEF Streamed

LEMMA TailIsStreamed ==
  ASSUME NEW S, NEW q \in Seq(S), q # <<>>
  PROVE  Streamed(Tail(q)) \subseteq Streamed(q) /\ Head(q) \in Streamed(q)
<1>1. Len(q) \in Nat /\ Len(q) > 0 BY EmptySeq, LenProperties
<1>2. /\ Head(q) = q[1] /\ Len(Tail(q)) = Len(q) - 1
      /\ \A i \in 1..Len(Tail(q)) : Tail(q)[i] = q[i + 1]
  BY <1>1
<1> QED BY <1>1, <1>2 DEF Streamed

LEMMA AppendIsStreamed ==
  ASSUME NEW S, NEW q \in Seq(S), NEW e \in S
  PROVE  Streamed(Append(q, e)) \subseteq Streamed(q) \cup {e}
<1>1. /\ Len(q) \in Nat /\ Len(Append(q, e)) = Len(q) + 1 /\ Append(q, e)[Len(q) + 1] = e
      /\ \A i \in 1..Len(q) : Append(q, e)[i] = q[i]
  OBVIOUS
<1> QED BY <1>1 DEF Streamed

LEMMA SilenceIsAirless == ASSUME Silent' PROVE Air' = {}
  BY NothingIsStreamed DEF Silent, Air

LEMMA ResetIsAirless == ASSUME ResetDecoder PROVE Air' = {}
  BY DecoderReset, NothingIsStreamed DEF Air

LEMMA AirStays == ASSUME UNCHANGED codecVars PROVE Air' = Air
  BY DEF codecVars, Air, Streamed

(***************************************************************************)
(* The steps.                                                              *)
(***************************************************************************)
\* What a step is to the conversation, the streams that are past aside.
Converses ==
  \/ Talk!Arrive \/ Talk!Lose \/ Talk!Hush \/ Talk!BargeIn \/ Talk!Listen \/ Talk!EndListening
  \/ Talk!Sound
  \/ \E s \in Past' : Talk!Speak(s)

\* At first the device is silent.
LEMMA TalkInitMaps == Init => Talk!TalkInit
<1> SUFFICES ASSUME Init PROVE Talk!TalkInit OBVIOUS
<1>1. Past = {} BY DEF Init, Past
<1>2. Air = {} BY NothingIsStreamed DEF Init, Air
<1> QED BY <1>1, <1>2 DEF Init, Talk!TalkInit

\* A stream that is past stays so.
LEMMA PastGrows == ASSUME TypeOK, TypeOK', StepKeepsOrder PROVE Past \subseteq Past'
<1> SUFFICES ASSUME NEW s \in Past PROVE s \in Past' OBVIOUS
<1>1. sent \in 0..Streams BY DEF TypeOK
<1>2. s \in 1..sent /\ Before(s, wire) BY DEF Past, Before, Starts
<1>3. s \in 0..Streams /\ Known(s) BY <1>1, <1>2, StreamAssumption DEF Known
<1>4. s <= sent' /\ Before(s, wire') BY <1>3 DEF StepKeepsOrder
<1>5. sent' \in Int BY DEF TypeOK
<1> QED BY <1>1, <1>2, <1>4, <1>5 DEF Past, Before, Starts

\* What changes neither the state, nor the streams, nor the input is at most heard.
LEMMA OnlySounds ==
  ASSUME UNCHANGED <<state, stream, inputVars>>, Air' \subseteq Air
  PROVE  Converses
  BY DEF Converses, Talk!Sound, inputVars

LEMMA NothingSounds == ASSUME UNCHANGED <<state, stream, inputVars, codecVars>> PROVE Converses
  BY OnlySounds, AirStays

\* Discarding the playback hushes a device that speaks, and is nothing to another.
LEMMA DiscardHushes ==
  ASSUME StateMatchesStreams, ClearContext, UNCHANGED inputVars, Air' = {},
         state' = IF state = "speaking" THEN "idle" ELSE state
  PROVE  Converses
<1>1. stream' = 0 BY ContextCleared
<1>2. CASE state = "speaking" BY <1>1, <1>2 DEF Converses, Talk!Hush, inputVars
<1>3. CASE state # "speaking"
  <2>1. stream = 0 BY <1>3 DEF StateMatchesStreams
  <2> QED BY <1>1, <1>3, <2>1, OnlySounds
<1> QED BY <1>2, <1>3

\* A stream is begun by a device that does not speak, and is newer than all that is past.
LEMMA OnStartConverses ==
  ASSUME TypeOK, StateMatchesStreams, WireIsInOrder, NothingArrives, Receive,
         Head(wire).kind = "start", OnStart(Head(wire).of), UNCHANGED inputs
  PROVE  Converses
<1> DEFINE s == Head(wire).of
<1>1. /\ s \in 1..Streams /\ s <= sent' /\ Before(s, wire')
      /\ \A n \in 0..Streams : Known(n) => n < s
  BY StartIsNew
<1> HIDE DEF s
<1>2. CASE stream = 0 /\ stream' = s /\ input' = 0 /\ state' = "speaking" /\ ResetDecoder
  <2>1. state \in {"idle", "listening"}
    BY <1>2 DEF StateMatchesStreams, NothingArrives, Receive, TypeOK
  <2>2. s \in Past' BY <1>1 DEF Past, Before, Starts
  <2>3. ASSUME NEW p \in Past PROVE p < s
    <3>1. sent \in 0..Streams BY DEF TypeOK
    <3>2. p \in 1..sent /\ Before(p, wire) BY DEF Past, Before, Starts
    <3>3. p \in 0..Streams /\ Known(p) BY <3>1, <3>2, StreamAssumption DEF Known
    <3> QED BY <1>1, <3>3
  <2>4. Talk!Speak(s) BY <1>2, <2>1, <2>2, <2>3, ResetIsAirless DEF Talk!Speak
  <2> QED BY <2>2, <2>4 DEF Converses
<1>3. CASE UNCHANGED <<state, contextVars, input, codecVars>>
  BY <1>3, NothingSounds DEF contextVars, inputVars
<1> QED BY <1>2, <1>3 DEF OnStart, Refuse, s

\* A message begins a stream, ends it, ends the input, or is nothing to the conversation.
LEMMA ReceiveConverses ==
  ASSUME TypeOK, StateMatchesStreams, WireIsInOrder, NothingArrives, Receive
  PROVE  Converses
<1> DEFINE m == Head(wire)
<1>1. m \in Message BY QueueShrinks, LimitAssumption DEF Receive, TypeOK
<1>2. UNCHANGED inputs BY DEF Receive
<1> HIDE DEF m
<1>3. CASE closing BY <1>2, <1>3, NothingSounds DEF Receive, contextVars, inputVars
<1>4. CASE ~closing
  <2>1. Handle(m) BY <1>4 DEF Receive, m
  <2>2. ASSUME UNCHANGED <<state, contextVars, input, codecVars>> PROVE Converses
    BY <1>2, <2>2, NothingSounds DEF contextVars, inputVars
  <2>3. CASE m.kind = "start" BY <1>2, <2>1, <2>3, OnStartConverses DEF Handle, m
  <2>4. CASE m.kind = "packet"
    <3>1. OnPacket(m.of) BY <2>1, <2>4 DEF Handle
    <3>2. CASE UNCHANGED <<state, stream, input, codecVars>>
      BY <1>2, <3>2, NothingSounds DEF inputVars
    <3> QED BY <2>2, <3>1, <3>2 DEF OnPacket, Refuse
  <2>5. CASE m.kind = "end"
    <3>1. OnEnd(m.of, m.reason) BY <2>1, <2>5 DEF Handle
    <3>2. CASE UNCHANGED <<state, stream, input, codecVars>>
      BY <1>2, <3>2, NothingSounds DEF inputVars
    <3>3. CASE open /\ ClearContext /\ ResetDecoder /\ state' = "idle" /\ UNCHANGED input
      <4>1. state = "speaking" BY <3>3 DEF StateMatchesStreams
      <4> QED BY <1>2, <3>3, <4>1, ResetIsAirless, DiscardHushes DEF inputVars
    <3> QED BY <2>2, <3>1, <3>2, <3>3 DEF OnEnd, Refuse
  <2>6. CASE m.kind = "fault"
    <3>1. OnFault(m.of) BY <2>1, <2>6 DEF Handle
    <3>2. CASE m.of = input
      <4>1. input # 0 /\ state = "listening"
        BY <1>1, <2>6, <3>2, MessageKinds, StreamAssumption DEF StateMatchesStreams
      <4>2. state' = "idle" /\ input' = 0 /\ stream' = stream /\ Air' = Air
        BY <3>1, <3>2, AirStays DEF OnFault, contextVars
      <4>3. Talk!EndListening BY <1>2, <4>1, <4>2 DEF Talk!EndListening
      <4> QED BY <4>3 DEF Converses
    <3>3. CASE m.of # input BY <2>2, <3>1, <3>3 DEF OnFault
    <3> QED BY <3>2, <3>3
  <2>7. CASE m.kind = "cancel"
    <3>1. OnCancel(m.of) BY <2>1, <2>7 DEF Handle
    <3>2. CASE /\ ClearContext /\ ResetDecoder /\ UNCHANGED input
               /\ state' = IF state = "speaking" THEN "idle" ELSE state
      BY <1>2, <3>2, ResetIsAirless, DiscardHushes DEF inputVars
    <3> QED BY <2>2, <3>1, <3>2 DEF OnCancel
  <2> QED BY <1>1, <2>3, <2>4, <2>5, <2>6, <2>7, MessageKinds
<1> QED BY <1>3, <1>4
\* A press begins an input, over a stream being spoken or in silence, or its start cannot be sent.
LEMMA HandleStartConverses ==
  ASSUME HandleStart
  PROVE  Converses
<1>1. NewInput \/ NoInput BY DEF HandleStart, BeginInput
<1>2. CASE state = "speaking" /\ state' = "listening" /\ ResetDecoder /\ ClearContext
  <2>1. stream' = 0 /\ Air' = {} BY <1>2, ContextCleared, ResetIsAirless
  <2>2. Talk!NewInput \/ UNCHANGED inputVars BY <1>1 DEF NewInput, NoInput, Talk!NewInput
  <2>3. Talk!BargeIn BY <1>2, <2>1, <2>2 DEF Talk!BargeIn, inputVars
  <2> QED BY <2>3 DEF Converses
<1>3. CASE state = "idle" /\ UNCHANGED <<contextVars, codecVars>> /\ NewInput /\ state' = "listening"
  <2>1. Talk!Listen
    BY <1>3, AirStays DEF Talk!Listen, Talk!NewInput, NewInput, contextVars
  <2> QED BY <2>1 DEF Converses
<1>4. CASE UNCHANGED <<state, contextVars, codecVars, inputVars>>
  BY <1>4, NothingSounds DEF contextVars
<1> QED BY <1>2, <1>3, <1>4 DEF HandleStart, BeginInput, NoInput

\* A release or the time limit ends the open input, if its end can be sent.
LEMMA EndInputConverses ==
  ASSUME StateMatchesStreams, EndInput, UNCHANGED <<contextVars, inputs, codecVars>>
  PROVE  Converses
<1>1. CASE input # 0 /\ input' = 0 /\ state' = "idle"
  <2>1. Talk!EndListening
    BY <1>1, AirStays DEF Talk!EndListening, StateMatchesStreams, contextVars
  <2> QED BY <2>1 DEF Converses
<1>2. CASE UNCHANGED <<input, state>>
  BY <1>2, NothingSounds DEF contextVars, inputVars
<1> QED BY <1>1, <1>2 DEF EndInput

\* A packet given to AudioService is one of the stream being spoken.
LEMMA DeliverConverses ==
  ASSUME TypeOK, StateMatchesStreams, PlaysItsStream, Deliver
  PROVE  Converses
<1>1. state = "speaking" /\ Own(queue)
  BY DEF Deliver, StateMatchesStreams, PlaysItsStream
<1>2. /\ queue \in Seq(1..Streams) /\ queue # <<>> /\ decodeQueue \in Seq(1..Streams)
      /\ decodeQueue' = Append(decodeQueue, Head(queue))
      /\ UNCHANGED <<state, stream, inputVars, playQueue, decoding, stale>>
  BY DEF Deliver, TypeOK
<1>3. Belongs(Head(queue)) BY <1>1, <1>2, OwnPackets
<1>4. Head(queue) \in 1..Streams BY <1>2, QueueShrinks, LimitAssumption DEF TypeOK
<1>5. Streamed(decodeQueue') \subseteq Streamed(decodeQueue) \cup {Head(queue)}
  BY <1>2, <1>4, AppendIsStreamed
<1>6. Air' \subseteq Air \cup {Head(queue)} BY <1>2, <1>5 DEF Air, Streamed
<1>7. Talk!Sound BY <1>1, <1>2, <1>3, <1>6 DEF Talk!Sound, Belongs, inputVars
<1> QED BY <1>7 DEF Converses

\* A stream played to the end leaves nothing to sound.
LEMMA AcknowledgeConverses ==
  ASSUME StateMatchesStreams, Acknowledge
  PROVE  Converses
<1>1. /\ state = "speaking" /\ state' = "idle" /\ ClearContext /\ IsIdle
      /\ UNCHANGED <<inputVars, codecVars>>
  BY DEF Acknowledge
<1>2. Silent' BY <1>1 DEF IsIdle, Silent, codecVars
<1> QED BY <1>1, <1>2, SilenceIsAirless, DiscardHushes

LEMMA ReportDecodeFailureConverses ==
  ASSUME StateMatchesStreams, ReportDecodeFailure
  PROVE  Converses
<1>1. /\ ResetDecoder /\ ClearContext /\ UNCHANGED inputVars
      /\ state' = IF state = "speaking" THEN "idle" ELSE state
  BY DEF ReportDecodeFailure
<1> QED BY <1>1, ResetIsAirless, DiscardHushes

\* What the decoder and the output do only takes away from what is to sound.
LEMMA AudioConverses ==
  ASSUME TypeOK, AudioNext
  PROVE  Converses
<1>1. UNCHANGED <<state, stream, inputVars>>
  BY DEF AudioNext, DecodeBegins, DecodeSucceeds, DecodeFails, OutputBegins, OutputEnds, Encoded, contextVars
<1>2. decodeQueue \in Seq(1..Streams) /\ playQueue \in Seq(1..Streams) /\ decoding \in 0..Streams
  BY DEF TypeOK
<1>3. CASE DecodeBegins
  <2>1. /\ decodeQueue # <<>> /\ decodeQueue' = Tail(decodeQueue) /\ decoding' = Head(decodeQueue)
        /\ UNCHANGED playQueue
    BY <1>3 DEF DecodeBegins
  <2>2. Streamed(decodeQueue') \cup {decoding'} \subseteq Streamed(decodeQueue)
    BY <1>2, <2>1, TailIsStreamed
  <2>3. Streamed(playQueue') = Streamed(playQueue) BY <2>1 DEF Streamed
  <2>4. Air' \subseteq Air BY <2>2, <2>3 DEF Air
  <2> QED BY <1>1, <2>4, OnlySounds
<1>4. CASE DecodeSucceeds
  <2>1. /\ decoding # 0 /\ decoding' = 0 /\ UNCHANGED decodeQueue
        /\ playQueue' = IF stale THEN playQueue ELSE Append(playQueue, decoding)
    BY <1>4 DEF DecodeSucceeds
  <2>2. Streamed(decodeQueue') = Streamed(decodeQueue) BY <2>1 DEF Streamed
  <2>3. Air' = Streamed(decodeQueue) \cup Streamed(playQueue')
    BY <2>1, <2>2 DEF Air
  <2>4. CASE stale
    <3>1. Streamed(playQueue') = Streamed(playQueue) BY <2>1, <2>4 DEF Streamed
    <3>2. Air' \subseteq Air BY <2>3, <3>1 DEF Air
    <3> QED BY <1>1, <3>2, OnlySounds
  <2>5. CASE ~stale
    <3>1. decoding \in 1..Streams /\ playQueue' = Append(playQueue, decoding)
      BY <1>2, <2>1, <2>5, StreamAssumption
    <3>2. Streamed(playQueue') \subseteq Streamed(playQueue) \cup {decoding}
      BY <1>2, <3>1, AppendIsStreamed
    <3>3. Air' \subseteq Air BY <2>1, <2>3, <2>5, <3>2 DEF Air
    <3> QED BY <1>1, <3>3, OnlySounds
  <2> QED BY <2>4, <2>5
<1>5. CASE DecodeFails
  <2>1. decoding' = 0 /\ UNCHANGED <<decodeQueue, playQueue>> BY <1>5 DEF DecodeFails
  <2>2. Air' \subseteq Air BY <2>1 DEF Air, Streamed
  <2> QED BY <1>1, <2>2, OnlySounds
<1>6. CASE OutputBegins
  <2>1. /\ playQueue # <<>> /\ playQueue' = Tail(playQueue)
        /\ UNCHANGED <<decodeQueue, decoding, stale>>
    BY <1>6 DEF OutputBegins
  <2>2. Streamed(playQueue') \subseteq Streamed(playQueue) BY <1>2, <2>1, TailIsStreamed
  <2>3. Streamed(decodeQueue') = Streamed(decodeQueue) BY <2>1 DEF Streamed
  <2>4. Air' \subseteq Air BY <2>1, <2>2, <2>3 DEF Air
  <2> QED BY <1>1, <2>4, OnlySounds
<1>7. CASE OutputEnds \/ Encoded BY <1>1, <1>7, NothingSounds DEF OutputEnds, Encoded
<1> QED BY <1>3, <1>4, <1>5, <1>6, <1>7 DEF AudioNext

\* A lost connection ends both roles, and what is to sound is left as it is.
LEMMA ConnectionConverses ==
  ASSUME Disconnect \/ Acknowledged
  PROVE  Converses
<1>1. CASE Disconnect
  <2>1. Talk!Lose BY <1>1, ContextCleared, AirStays DEF Disconnect, Talk!Lose
  <2> QED BY <2>1 DEF Converses
<1>2. CASE Acknowledged
  <2>1. Talk!Arrive
    BY <1>2, AirStays DEF Acknowledged, Talk!Arrive, contextVars, inputVars
  <2> QED BY <2>1 DEF Converses
<1> QED BY <1>1, <1>2

\* A stream without an end stays so.
LEMMA EndlessGrows == ASSUME [Next]_vars PROVE endless \subseteq endless'
<1>1. CASE BridgeNext
  BY <1>1
  DEF BridgeNext, BridgeStart, BridgePacket, BridgeEnd, BridgeFails, BridgeCancels,
      BridgeCancelsStart, BridgeCancelsBetween, BridgeOrders, BridgeFaults
<1>2. CASE WorkerNext
  BY <1>2
  DEF WorkerNext, Receive, HandleStart, HandleEnd, StopRecording, PacketFails, InputExpires,
      Deliver, Acknowledge, ReportDecodeFailure, bridgeVars
<1>3. CASE AudioNext \/ Disconnect \/ Acknowledged \/ UNCHANGED vars
  BY <1>3
  DEF AudioNext, DecodeBegins, DecodeSucceeds, DecodeFails, OutputBegins, OutputEnds, Encoded,
      Disconnect, Acknowledged, vars, bridgeVars
<1> QED BY <1>1, <1>2, <1>3 DEF Next

LEMMA TalkStepMaps ==
  ASSUME TypeOK, TypeOK', StateMatchesStreams, PlayInvariant, NothingArrives, [Next]_vars
  PROVE  Talk!TalkNext
<1>1. PlaysItsStream /\ WireIsInOrder /\ NumbersAreKnown BY DEF PlayInvariant
<1>2. Past \subseteq Past' /\ endless \subseteq endless'
  <2>1. endless \subseteq endless' BY EndlessGrows
  <2> QED BY <1>1, <2>1, EveryStepKeepsOrder, PastGrows
<1> SUFFICES Converses BY <1>2 DEF Converses, Talk!TalkNext
<1>3. CASE \/ BridgeNext \/ StopRecording \/ PacketFails \/ UNCHANGED vars
  <2>1. UNCHANGED <<state, stream, inputVars, codecVars>>
    BY <1>3
    DEF BridgeNext, BridgeStart, BridgePacket, BridgeEnd, BridgeFails, BridgeCancels,
        CancelPlayer, BridgeCancelsStart, BridgeCancelsBetween, BridgeOrders, BridgeFaults, Says,
        StopRecording, PacketFails, vars,
        contextVars
  <2> QED BY <2>1, NothingSounds
<1>4. CASE HandleEnd \/ InputExpires
  BY <1>4, EndInputConverses DEF HandleEnd, InputExpires
<1> QED
  BY <1>1, <1>3, <1>4, ReceiveConverses, HandleStartConverses, DeliverConverses,
     AcknowledgeConverses, ReportDecodeFailureConverses, AudioConverses, ConnectionConverses
  DEF Next, WorkerNext

\* Whatever the wire, the queues and the decoder's thread do, the device holds the conversation of
\* Conversation: one role at a time, no stream twice or after a newer one, silence when it stops
\* to speak, but for a connection that is lost, and nothing of another stream over one that
\* somebody ends (onData, beginAudioInput, ResetDecoder).
THEOREM TalkRefinement == Spec => ImplementsConversation
<1>1. Init => Talk!TalkInit BY TalkInitMaps
<1>2. TypeOK /\ TypeOK' /\ StateMatchesStreams /\ PlayInvariant /\ NothingArrives /\ [Next]_vars =>
        [Talk!TalkNext]_(Talk!talkVars)
  BY TalkStepMaps
<1> QED BY <1>1, <1>2, TypeCorrect, MatchCorrect, PlayInvariance, ArrivalInvariance, PTL
    DEF Spec, ImplementsConversation, Talk!TalkSpec
=============================================================================
