------------------------------ MODULE SessionProofs -----------------------------
(***************************************************************************)
(* Safety of the sessions of both adapters for every number of orders, lots,  *)
(* messages in flight and losses of a line: what the engines know of an order *)
(* is wrong only for the reasons that PictureExplained names, and a finished  *)
(* order stays finished.  First what a queue of messages says of an order,    *)
(* then the session of OKX, then that of Binance.                            *)
(***************************************************************************)
EXTENDS OkxSession, FiniteSetTheorems, TLAPS

\* A report of an order, a request or its answer.
Reports(o, m) == m.op = "orders" /\ m.o = o
Requests(o, m) == m.op = "order" /\ m.o = o

Ended == {"filled", "canceled", "rejected"}

\* The reports of an order that are in flight are in the order of their states: all but
\* the newest are of an order that is open, and the newest has the venue's state.
Chronicle(o, q, state) ==
  \A k \in DOMAIN q : Reports(o, q[k]) =>
    IF \E j \in DOMAIN q : j > k /\ Reports(o, q[j]) THEN q[k].state \in Open ELSE q[k].state = state

\* An order is requested once.
Once(o, q) == \A j, k \in DOMAIN q : Requests(o, q[j]) /\ Requests(o, q[k]) => j = k
-------------------------------------------------------------------------------
\* A queue mentions an order if one of its messages does.
LEMMA MentionsIndex ==
  ASSUME NEW o, NEW q, NEW ops
  PROVE  Mentions(o, q, ops) <=> \E k \in DOMAIN q : q[k].op \in ops /\ q[k].o = o
BY DEF Mentions, Range

\* What is in flight when a message is sent, and when the first is received.
LEMMA MentionsAppend ==
  ASSUME NEW S, NEW q \in Seq(S), NEW m \in S, NEW o, NEW ops
  PROVE  Mentions(o, Append(q, m), ops) <=> Mentions(o, q, ops) \/ (m.op \in ops /\ m.o = o)
<1> DEFINE r == Append(q, m)
<1>1. /\ DOMAIN r = 1 .. Len(q) + 1 /\ DOMAIN q = 1 .. Len(q) /\ Len(q) \in Nat
      /\ \A k \in DOMAIN q : r[k] = q[k]
      /\ r[Len(q) + 1] = m
  OBVIOUS
<1> HIDE DEF r
<1>2. Mentions(o, r, ops) <=> Mentions(o, q, ops) \/ (m.op \in ops /\ m.o = o)
  BY <1>1, MentionsIndex
<1> QED
  BY <1>2 DEF r

LEMMA MentionsTail ==
  ASSUME NEW S, NEW q \in Seq(S), q # <<>>, NEW o, NEW ops
  PROVE  Mentions(o, q, ops) <=> Mentions(o, Tail(q), ops) \/ (Head(q).op \in ops /\ Head(q).o = o)
<1> DEFINE r == Tail(q)
<1>1. /\ DOMAIN r = 1 .. Len(q) - 1 /\ DOMAIN q = 1 .. Len(q) /\ Len(q) \in Nat \ {0}
      /\ \A k \in DOMAIN r : r[k] = q[k + 1]
      /\ Head(q) = q[1]
  OBVIOUS
<1> HIDE DEF r
<1>2. ASSUME NEW k \in DOMAIN q PROVE k = 1 \/ (k - 1 \in DOMAIN r /\ r[k - 1] = q[k])
  BY <1>1, <1>2
<1>3. 1 \in DOMAIN q /\ \A k \in DOMAIN r : k + 1 \in DOMAIN q /\ q[k + 1] = r[k]
  BY <1>1
<1>4. Mentions(o, r, ops) <=> \E k \in DOMAIN r : r[k].op \in ops /\ r[k].o = o
  BY MentionsIndex
<1>5. Mentions(o, q, ops) <=> \E k \in DOMAIN q : q[k].op \in ops /\ q[k].o = o
  BY MentionsIndex
<1>6. Mentions(o, q, ops) <=> Mentions(o, r, ops) \/ (Head(q).op \in ops /\ Head(q).o = o)
  BY <1>1, <1>2, <1>3, <1>4, <1>5
<1> QED
  BY <1>6 DEF r

LEMMA MentionsNothing == \A o, ops : ~Mentions(o, <<>>, ops)
BY MentionsIndex

\* A report that is sent is the newest.
LEMMA ChronicleReport ==
  ASSUME NEW S, NEW q \in Seq(S), NEW m \in S, NEW o, NEW state, Reports(o, m),
         Chronicle(o, q, state), ~Mentions(o, q, {"orders"}) \/ state \in Open
  PROVE  Chronicle(o, Append(q, m), m.state)
<1> DEFINE r == Append(q, m)
<1>1. /\ DOMAIN r = 1 .. Len(q) + 1 /\ DOMAIN q = 1 .. Len(q) /\ Len(q) \in Nat
      /\ \A k \in DOMAIN q : r[k] = q[k]
      /\ r[Len(q) + 1] = m
  OBVIOUS
<1> HIDE DEF r
<1>2. \A k \in DOMAIN q : Reports(o, q[k]) => state \in Open
  BY MentionsIndex DEF Reports
<1>3. \A k \in DOMAIN q : Reports(o, q[k]) => q[k].state \in Open
  BY <1>2 DEF Chronicle
<1>4. ASSUME NEW k \in DOMAIN r, Reports(o, r[k])
      PROVE  IF \E j \in DOMAIN r : j > k /\ Reports(o, r[j]) THEN r[k].state \in Open ELSE r[k].state = m.state
  <2>1. CASE k = Len(q) + 1
    BY <1>1, <2>1
  <2>2. CASE k \in DOMAIN q
    <3>1. Len(q) + 1 > k /\ Len(q) + 1 \in DOMAIN r
      BY <1>1, <2>2
    <3> QED
      BY <1>1, <1>3, <1>4, <2>2, <3>1
  <2> QED
    BY <1>1, <1>4, <2>1, <2>2
<1> QED
  BY <1>4 DEF r, Chronicle

\* Messages about something else change nothing.
LEMMA ChronicleOther ==
  ASSUME NEW S, NEW q \in Seq(S), NEW m \in S, NEW o, NEW state, ~Reports(o, m)
  PROVE  Chronicle(o, Append(q, m), state) <=> Chronicle(o, q, state)
<1> DEFINE r == Append(q, m)
<1>1. /\ DOMAIN r = 1 .. Len(q) + 1 /\ DOMAIN q = 1 .. Len(q) /\ Len(q) \in Nat
      /\ \A k \in DOMAIN q : r[k] = q[k]
      /\ r[Len(q) + 1] = m
  OBVIOUS
<1> HIDE DEF r
<1>2. \A k \in DOMAIN r : Reports(o, r[k]) => k \in DOMAIN q
  BY <1>1
<1>3. \A k \in DOMAIN q : (\E j \in DOMAIN r : j > k /\ Reports(o, r[j])) <=> (\E j \in DOMAIN q : j > k /\ Reports(o, q[j]))
  BY <1>1, <1>2
<1>4. Chronicle(o, r, state) <=> Chronicle(o, q, state)
  BY <1>1, <1>2, <1>3 DEF Chronicle
<1> QED
  BY <1>4 DEF r

\* The first message is received: if it was the order's last, it has the venue's
\* state, and otherwise one of an open order.
LEMMA ChronicleTail ==
  ASSUME NEW S, NEW q \in Seq(S), q # <<>>, NEW o, NEW state, Chronicle(o, q, state)
  PROVE  /\ Chronicle(o, Tail(q), state)
         /\ Reports(o, Head(q)) =>
              IF Mentions(o, Tail(q), {"orders"}) THEN Head(q).state \in Open ELSE Head(q).state = state
<1> DEFINE r == Tail(q)
<1>1. /\ DOMAIN r = 1 .. Len(q) - 1 /\ DOMAIN q = 1 .. Len(q) /\ Len(q) \in Nat \ {0}
      /\ \A k \in DOMAIN r : r[k] = q[k + 1]
      /\ Head(q) = q[1]
  OBVIOUS
<1> HIDE DEF r
<1>2. \A k \in DOMAIN q : k > 1 => k - 1 \in DOMAIN r /\ r[k - 1] = q[k]
  BY <1>1
<1>3. ASSUME NEW k \in DOMAIN r, Reports(o, r[k])
      PROVE  IF \E j \in DOMAIN r : j > k /\ Reports(o, r[j]) THEN r[k].state \in Open ELSE r[k].state = state
  <2>1. k + 1 \in DOMAIN q /\ q[k + 1] = r[k] /\ Reports(o, q[k + 1])
    BY <1>1, <1>3
  <2>2. IF \E j \in DOMAIN q : j > k + 1 /\ Reports(o, q[j]) THEN q[k + 1].state \in Open ELSE q[k + 1].state = state
    BY <2>1 DEF Chronicle
  <2>3. (\E j \in DOMAIN r : j > k /\ Reports(o, r[j])) <=> (\E j \in DOMAIN q : j > k + 1 /\ Reports(o, q[j]))
    <3>1. \A j \in DOMAIN r : j > k /\ Reports(o, r[j]) => j + 1 \in DOMAIN q /\ j + 1 > k + 1 /\ Reports(o, q[j + 1])
      BY <1>1, <1>3
    <3>2. \A j \in DOMAIN q : j > k + 1 /\ Reports(o, q[j]) => j - 1 \in DOMAIN r /\ j - 1 > k /\ Reports(o, r[j - 1])
      BY <1>1, <1>2, <1>3
    <3> QED
      BY <3>1, <3>2
  <2> QED
    BY <2>1, <2>2, <2>3
<1>4. Mentions(o, r, {"orders"}) <=> \E j \in DOMAIN q : j > 1 /\ Reports(o, q[j])
  <2>1. \A j \in DOMAIN r : Reports(o, r[j]) => j + 1 \in DOMAIN q /\ j + 1 > 1 /\ Reports(o, q[j + 1])
    BY <1>1
  <2>2. Mentions(o, r, {"orders"}) <=> \E j \in DOMAIN r : Reports(o, r[j])
    BY MentionsIndex DEF Reports
  <2> QED
    BY <1>2, <2>1, <2>2
<1>5. 1 \in DOMAIN q
  BY <1>1
<1>6. Reports(o, Head(q)) =>
        IF Mentions(o, r, {"orders"}) THEN Head(q).state \in Open ELSE Head(q).state = state
  BY <1>1, <1>4, <1>5 DEF Chronicle
<1> QED
  BY <1>3, <1>6 DEF r, Chronicle

\* Requests that are sent and read.
LEMMA OnceAppend ==
  ASSUME NEW S, NEW q \in Seq(S), NEW m \in S, NEW o, Once(o, q), Requests(o, m) => ~Mentions(o, q, {"order"})
  PROVE  Once(o, Append(q, m))
<1> DEFINE r == Append(q, m)
<1>1. /\ DOMAIN r = 1 .. Len(q) + 1 /\ DOMAIN q = 1 .. Len(q) /\ Len(q) \in Nat
      /\ \A k \in DOMAIN q : r[k] = q[k]
      /\ r[Len(q) + 1] = m
  OBVIOUS
<1> HIDE DEF r
<1>2. Requests(o, m) => \A k \in DOMAIN q : ~Requests(o, q[k])
  BY MentionsIndex DEF Requests
<1>3. \A k \in DOMAIN r : k \in DOMAIN q \/ k = Len(q) + 1
  BY <1>1
<1>4. Once(o, r)
  BY <1>1, <1>2, <1>3 DEF Once
<1> QED
  BY <1>4 DEF r

LEMMA OnceTail ==
  ASSUME NEW S, NEW q \in Seq(S), q # <<>>, NEW o, Once(o, q)
  PROVE  /\ Once(o, Tail(q))
         /\ Requests(o, Head(q)) => ~Mentions(o, Tail(q), {"order"})
<1> DEFINE r == Tail(q)
<1>1. /\ DOMAIN r = 1 .. Len(q) - 1 /\ DOMAIN q = 1 .. Len(q) /\ Len(q) \in Nat \ {0}
      /\ \A k \in DOMAIN r : r[k] = q[k + 1]
      /\ Head(q) = q[1]
  OBVIOUS
<1> HIDE DEF r
<1>2. 1 \in DOMAIN q /\ \A k \in DOMAIN r : k + 1 \in DOMAIN q /\ q[k + 1] = r[k] /\ k \in Nat \ {0}
  BY <1>1
<1>3. Once(o, r)
  <2>1. ASSUME NEW j \in DOMAIN r, NEW k \in DOMAIN r, Requests(o, r[j]), Requests(o, r[k]) PROVE j = k
    <3>1. j + 1 = k + 1
      BY <1>2, <2>1 DEF Once
    <3> QED
      BY <1>2, <3>1
  <2> QED
    BY <2>1 DEF Once
<1>4. ASSUME Requests(o, Head(q)), NEW k \in DOMAIN r, Requests(o, r[k]) PROVE FALSE
  <2>1. 1 = k + 1
    BY <1>1, <1>2, <1>4 DEF Once
  <2> QED
    BY <1>2, <2>1
<1>5. Requests(o, Head(q)) => ~Mentions(o, r, {"order"})
  BY <1>4, MentionsIndex DEF Requests
<1> QED
  BY <1>3, <1>5 DEF r

\* The lots in flight: one more, one less, none.
LEMMA LotsNothing == \A o : LotsIn(o, <<>>) = 0
<1>1. \A o : {k \in DOMAIN <<>> : Fills(o, <<>>[k])} = {}
  OBVIOUS
<1> QED
  BY <1>1, FS_EmptySet DEF LotsIn

Lot(o, m) == IF Fills(o, m) THEN 1 ELSE 0

LEMMA LotsType ==
  ASSUME NEW S, NEW q \in Seq(S), NEW o
  PROVE  LotsIn(o, q) \in Nat /\ IsFiniteSet({k \in DOMAIN q : Fills(o, q[k])})
<1>1. IsFiniteSet(1 .. Len(q)) /\ DOMAIN q = 1 .. Len(q)
  BY FS_Interval
<1>2. {k \in DOMAIN q : Fills(o, q[k])} \subseteq 1 .. Len(q)
  BY <1>1
<1>3. IsFiniteSet({k \in DOMAIN q : Fills(o, q[k])})
  BY <1>1, <1>2, FS_Subset
<1> QED
  BY <1>3, FS_CardinalityType DEF LotsIn

LEMMA LotsAppend ==
  ASSUME NEW S, NEW q \in Seq(S), NEW m \in S, NEW o
  PROVE  LotsIn(o, Append(q, m)) = LotsIn(o, q) + Lot(o, m)
<1> DEFINE r == Append(q, m)
           K == {k \in DOMAIN q : Fills(o, q[k])}
           L == {k \in DOMAIN r : Fills(o, r[k])}
<1>1. /\ DOMAIN r = 1 .. Len(q) + 1 /\ DOMAIN q = 1 .. Len(q) /\ Len(q) \in Nat
      /\ \A k \in DOMAIN q : r[k] = q[k]
      /\ r[Len(q) + 1] = m
  OBVIOUS
<1>2. IsFiniteSet(K)
  BY LotsType
<1> HIDE DEF r
<1>3. L = IF Fills(o, m) THEN K \cup {Len(q) + 1} ELSE K
  <2>1. \A k \in DOMAIN r : k \in DOMAIN q \/ k = Len(q) + 1
    BY <1>1
  <2>2. \A k : k \in L <=> (k \in K \/ (k = Len(q) + 1 /\ Fills(o, m)))
    BY <1>1, <2>1
  <2> QED
    BY <2>2
<1>4. Len(q) + 1 \notin K
  BY <1>1
<1> HIDE DEF K, L
<1>5. Cardinality(L) = Cardinality(K) + Lot(o, m)
  <2>1. CASE Fills(o, m)
    BY <1>2, <1>3, <1>4, <2>1, FS_AddElement DEF Lot
  <2>2. CASE ~Fills(o, m)
    BY <1>2, <1>3, <2>2, FS_CardinalityType DEF Lot
  <2> QED
    BY <2>1, <2>2
<1> QED
  BY <1>5 DEF LotsIn, K, L, r

LEMMA LotsTail ==
  ASSUME NEW S, NEW q \in Seq(S), q # <<>>, NEW o
  PROVE  LotsIn(o, q) = LotsIn(o, Tail(q)) + Lot(o, Head(q))
<1> DEFINE r == Tail(q)
           K == {k \in DOMAIN q : Fills(o, q[k])}
           L == {k \in DOMAIN r : Fills(o, r[k])}
           f == [k \in L |-> k + 1]
<1>1. /\ DOMAIN r = 1 .. Len(q) - 1 /\ DOMAIN q = 1 .. Len(q) /\ Len(q) \in Nat \ {0}
      /\ \A k \in DOMAIN r : r[k] = q[k + 1]
      /\ Head(q) = q[1]
  OBVIOUS
<1>2. IsFiniteSet(K) /\ IsFiniteSet(L)
  <2>1. r \in Seq(S)
    OBVIOUS
  <2> HIDE DEF r
  <2> QED
    BY <2>1, LotsType
<1> HIDE DEF r
<1>3. L \subseteq 1 .. Len(q) - 1 /\ L \subseteq Nat
  BY <1>1
<1>4. \A k \in L : k + 1 \in K \ {1}
  BY <1>1
<1>5. \A k \in K \ {1} : k - 1 \in L /\ (k - 1) + 1 = k
  BY <1>1
<1> HIDE DEF K, L
<1>6. f \in Bijection(L, K \ {1})
  <2>1. f \in [L -> K \ {1}]
    BY <1>4
  <2>2. \A a, b \in L : f[a] = f[b] => a = b
    BY <1>3
  <2>3. \A t \in K \ {1} : \E a \in L : f[a] = t
    BY <1>5
  <2> QED
    BY <2>1, <2>2, <2>3 DEF Bijection, Injection, Surjection, IsInjective
<1>7. IsFiniteSet(K \ {1}) /\ Cardinality(L) = Cardinality(K \ {1})
  <2>1. IsFiniteSet(K \ {1})
    BY <1>2, FS_RemoveElement
  <2>2. ExistsBijection(L, K \ {1})
    BY <1>6 DEF ExistsBijection
  <2> QED
    BY <1>2, <2>1, <2>2, FS_Bijection
<1>8. Cardinality(K) = Cardinality(L) + Lot(o, Head(q))
  <2>1. 1 \in K <=> Fills(o, Head(q))
    BY <1>1 DEF K
  <2>2. CASE 1 \in K
    <3>1. Cardinality(K \ {1}) = Cardinality(K) - 1 /\ Cardinality(K) \in Nat
      BY <1>2, <2>2, FS_RemoveElement, FS_CardinalityType
    <3> QED
      BY <1>7, <2>1, <2>2, <3>1 DEF Lot
  <2>3. CASE 1 \notin K
    <3>1. K \ {1} = K
      BY <2>3
    <3>2. Cardinality(L) = Cardinality(K) /\ Cardinality(K) \in Nat
      BY <1>2, <1>7, <3>1, FS_CardinalityType
    <3> QED
      BY <2>1, <2>3, <3>2 DEF Lot
  <2> QED
    BY <2>2, <2>3
<1> QED
  BY <1>8 DEF LotsIn, K, L, r

\* What a queue of reports says of an order is the same in r as in q.
SameView(o, q, r) ==
  /\ Mentions(o, r, {"orders"}) <=> Mentions(o, q, {"orders"})
  /\ \A state : Chronicle(o, q, state) => Chronicle(o, r, state)
  /\ LotsIn(o, r) = LotsIn(o, q)

\* A queue tells of the order what it told before, and m.
NewReport(o, q, r, m) ==
  /\ Mentions(o, r, {"orders"})
  /\ \A state : Chronicle(o, q, state) /\ (~Mentions(o, q, {"orders"}) \/ state \in Open) => Chronicle(o, r, m.state)
  /\ LotsIn(o, r) = LotsIn(o, q) + Lot(o, m)

LEMMA ViewAppend ==
  ASSUME NEW S, NEW q \in Seq(S), NEW m \in S, NEW o, ~Reports(o, m)
  PROVE  SameView(o, q, Append(q, m))
<1>1. Mentions(o, Append(q, m), {"orders"}) <=> Mentions(o, q, {"orders"})
  BY MentionsAppend DEF Reports
<1>2. Lot(o, m) = 0
  BY DEF Lot, Fills, Reports
<1>3. LotsIn(o, Append(q, m)) = LotsIn(o, q) + Lot(o, m)
  BY LotsAppend
<1>4. LotsIn(o, q) \in Nat
  BY LotsType
<1>5. LotsIn(o, Append(q, m)) = LotsIn(o, q)
  BY <1>2, <1>3, <1>4
<1> QED
  BY <1>1, <1>5, ChronicleOther DEF SameView

LEMMA ViewTail ==
  ASSUME NEW S, NEW q \in Seq(S), q # <<>>, NEW o, ~Reports(o, Head(q))
  PROVE  SameView(o, q, Tail(q))
<1>1. Mentions(o, Tail(q), {"orders"}) <=> Mentions(o, q, {"orders"})
  BY MentionsTail DEF Reports
<1>2. Lot(o, Head(q)) = 0
  BY DEF Lot, Fills, Reports
<1>3. LotsIn(o, q) = LotsIn(o, Tail(q)) + Lot(o, Head(q))
  BY LotsTail
<1>4. Tail(q) \in Seq(S)
  OBVIOUS
<1>5. LotsIn(o, Tail(q)) \in Nat
  BY <1>4, LotsType
<1>6. LotsIn(o, Tail(q)) = LotsIn(o, q)
  BY <1>2, <1>3, <1>5
<1> QED
  BY <1>1, <1>6, ChronicleTail DEF SameView

LEMMA ViewSame == \A o, q : SameView(o, q, q)
BY DEF SameView

LEMMA ReportAppend ==
  ASSUME NEW S, NEW q \in Seq(S), NEW m \in S, NEW o, Reports(o, m)
  PROVE  NewReport(o, q, Append(q, m), m)
<1>1. Mentions(o, Append(q, m), {"orders"})
  BY MentionsAppend DEF Reports
<1> QED
  BY <1>1, ChronicleReport, LotsAppend DEF NewReport

\* Nothing is reported.
LEMMA ChronicleNothing ==
  ASSUME NEW q, NEW o, ~Mentions(o, q, {"orders"})
  PROVE  \A state : Chronicle(o, q, state)
BY MentionsIndex DEF Chronicle, Reports

\* One message is on its way.
InFlight(n, q) == \E k \in DOMAIN q : q[k] = n

LEMMA InFlightAppend ==
  ASSUME NEW S, NEW q \in Seq(S), NEW m \in S, NEW n
  PROVE  InFlight(n, Append(q, m)) <=> InFlight(n, q) \/ m = n
<1> DEFINE r == Append(q, m)
<1>1. /\ DOMAIN r = 1 .. Len(q) + 1 /\ DOMAIN q = 1 .. Len(q) /\ Len(q) \in Nat
      /\ \A k \in DOMAIN q : r[k] = q[k]
      /\ r[Len(q) + 1] = m
  OBVIOUS
<1> HIDE DEF r
<1>2. \A k \in DOMAIN r : k \in DOMAIN q \/ k = Len(q) + 1
  BY <1>1
<1>3. InFlight(n, r) <=> InFlight(n, q) \/ m = n
  BY <1>1, <1>2 DEF InFlight
<1> QED
  BY <1>3 DEF r

LEMMA InFlightTail ==
  ASSUME NEW S, NEW q \in Seq(S), q # <<>>, NEW n
  PROVE  InFlight(n, q) <=> InFlight(n, Tail(q)) \/ Head(q) = n
<1> DEFINE r == Tail(q)
<1>1. /\ DOMAIN r = 1 .. Len(q) - 1 /\ DOMAIN q = 1 .. Len(q) /\ Len(q) \in Nat \ {0}
      /\ \A k \in DOMAIN r : r[k] = q[k + 1]
      /\ Head(q) = q[1]
  OBVIOUS
<1> HIDE DEF r
<1>2. ASSUME NEW k \in DOMAIN q PROVE k = 1 \/ (k - 1 \in DOMAIN r /\ r[k - 1] = q[k])
  BY <1>1, <1>2
<1>3. 1 \in DOMAIN q /\ \A k \in DOMAIN r : k + 1 \in DOMAIN q /\ q[k + 1] = r[k]
  BY <1>1
<1>4. InFlight(n, q) <=> InFlight(n, r) \/ Head(q) = n
  BY <1>1, <1>2, <1>3 DEF InFlight
<1> QED
  BY <1>4 DEF r
-------------------------------------------------------------------------------
(* The session of OKX.                                                       *)

Refusal(o) == [op |-> "order", o |-> o, code |-> "refused"]

Requested(o) == Mentions(o, up, {"order"})
Reported(o) == Mentions(o, down, {"orders"})
Refused(o) == InFlight(Refusal(o), down)

\* What is kept is of its type; lots are not bounded here.
Types ==
  /\ line \in Link!Lines
  /\ {stopped, logged, subscribed, refused} \subseteq BOOLEAN
  /\ subscribed => logged
  /\ logged \/ refused => line = "up"
  /\ line # "up" => up = <<>> /\ down = <<>>
  /\ up \in Seq(Messages) /\ down \in Seq(Pushes)
  /\ orders \in [Orders -> Status \cup {None}]
  /\ local_orderids \subseteq Own
  /\ rest = [at |-> rest.at, open |-> rest.open]
  /\ rest.at \in {"asked", "answered", "done"} /\ DOMAIN rest.open \subseteq Orders
  /\ venue \in [Orders -> [state : VenueStates, lots : Nat]]
  /\ traded \in [Orders -> Nat] /\ missed \in [Orders -> Nat]
  /\ stale \subseteq Orders

\* The login is the first that is sent on a connection, and nothing is reported on one
\* that is not subscribed.
LoginInv == \A k \in DOMAIN up : up[k].op = "login" => k = 1 /\ ~logged /\ ~subscribed
SubscribedInv == ~subscribed => \A o \in Orders : ~Reported(o)
LineInv == LoginInv /\ SubscribedInv

\* An order that the venue does not have was not reported.
VenueInv(o) ==
  /\ venue[o].state = "none" => venue[o].lots = 0 /\ o \notin DOMAIN rest.open /\ ~Reported(o)
  /\ venue[o].state \in Open => venue[o].lots < Lots
  /\ venue[o].lots <= Lots
  /\ o \in DOMAIN rest.open => rest.open[o] \in Open

\* A request on its way is the order's only one, and a refusal is of an order that ended.
RequestInv(o) ==
  /\ Requested(o) => venue[o].state = "none" /\ orders[o] # None
  /\ Once(o, up)
  /\ Refused(o) => venue[o].state = "rejected"

\* The reports on their way are in order and end with the venue's state; of an order
\* that was rejected, that is known as finished or whose latest report was lost there
\* are none.  Without a message about it on its way an order is known as it is.
ReportInv(o) ==
  /\ Chronicle(o, down, venue[o].state)
  /\ venue[o].state = "rejected" \/ o \in stale \/ orders[o] \in Finished => ~Reported(o)
  /\ orders[o] \in Finished => venue[o].state \in Ended
  /\ Requested(o) \/ Reported(o) \/ Refused(o) \/ o \in stale \/ Agree(orders[o], venue[o].state)

LotsInv(o) == traded[o] + LotsIn(o, down) + missed[o] = venue[o].lots

IdInv(o) ==
  orders[o] \in {"NOTTRADED", "PARTTRADED", "ALLTRADED", "CANCELLED"} => (o \in local_orderids <=> o \notin Manual)

OrderInv(o) == VenueInv(o) /\ RequestInv(o) /\ ReportInv(o) /\ LotsInv(o) /\ IdInv(o)

SessionInv == Types /\ LineInv /\ \A o \in Orders : OrderInv(o)
-------------------------------------------------------------------------------
\* What the messages in flight say of an order is as it was.
SameRequests(o) == (Requested(o)' <=> Requested(o)) /\ (Once(o, up) => Once(o, up'))
SameReports(o) == SameView(o, down, down') /\ (Refused(o)' <=> Refused(o))

\* What is known of an order is as it was.
SameOrder(o) ==
  /\ orders'[o] = orders[o] /\ venue'[o] = venue[o]
  /\ traded'[o] = traded[o] /\ missed'[o] = missed[o]
  /\ o \in stale' <=> o \in stale
  /\ o \in local_orderids' <=> o \in local_orderids
  /\ o \in DOMAIN rest'.open => o \in DOMAIN rest.open /\ rest'.open[o] = rest.open[o]

LEMMA OrderFrame ==
  ASSUME NEW o \in Orders, OrderInv(o), SameRequests(o), SameReports(o), SameOrder(o)
  PROVE  OrderInv(o)'
<1> USE DEF SameRequests, SameReports, SameView, SameOrder, OrderInv, Reported
<1>1. VenueInv(o)'
  BY DEF VenueInv
<1>2. RequestInv(o)'
  BY DEF RequestInv
<1>3. ReportInv(o)'
  BY DEF ReportInv, Agree
<1>4. LotsInv(o)' /\ IdInv(o)'
  BY DEF LotsInv, IdInv
<1> QED
  BY <1>1, <1>2, <1>3, <1>4

LEMMA SameUnchanged == (up' = up => \A o : SameRequests(o)) /\ (down' = down => \A o : SameReports(o))
BY ViewSame DEF SameRequests, SameReports, Requested, Refused

LEMMA RequestsOther ==
  ASSUME NEW S, up \in Seq(S), NEW o,
         \/ \E m \in S : up' = Append(up, m) /\ ~Requests(o, m)
         \/ up # <<>> /\ up' = Tail(up) /\ ~Requests(o, Head(up))
  PROVE  SameRequests(o)
<1>1. ASSUME NEW m \in S, up' = Append(up, m), ~Requests(o, m) PROVE SameRequests(o)
  <2>1. Requested(o)' <=> Requested(o)
    BY <1>1, MentionsAppend DEF Requested, Requests
  <2> QED
    BY <1>1, <2>1, OnceAppend DEF SameRequests
<1>2. ASSUME up # <<>>, up' = Tail(up), ~Requests(o, Head(up)) PROVE SameRequests(o)
  <2>1. Requested(o)' <=> Requested(o)
    BY <1>2, MentionsTail DEF Requested, Requests
  <2> QED
    BY <1>2, <2>1, OnceTail DEF SameRequests
<1> QED
  BY <1>1, <1>2

\* A message about another order, or one that only logs, is sent or received.
LEMMA ReportsOther ==
  ASSUME down \in Seq(Pushes), NEW o,
         \/ \E m \in Pushes : down' = Append(down, m) /\ ~Reports(o, m) /\ m # Refusal(o)
         \/ down # <<>> /\ down' = Tail(down) /\ ~Reports(o, Head(down)) /\ Head(down) # Refusal(o)
  PROVE  SameReports(o)
<1>1. ASSUME NEW m \in Pushes, down' = Append(down, m), ~Reports(o, m), m # Refusal(o) PROVE SameReports(o)
  BY <1>1, ViewAppend, InFlightAppend DEF SameReports, Refused
<1>2. ASSUME down # <<>>, down' = Tail(down), ~Reports(o, Head(down)), Head(down) # Refusal(o) PROVE SameReports(o)
  BY <1>2, ViewTail, InFlightTail DEF SameReports, Refused
<1> QED
  BY <1>1, <1>2
-------------------------------------------------------------------------------
\* Wherever a report is put, behind an answer or before it, it is the newest.
LEMMA AfterNews ==
  ASSUME NEW q \in Seq(Pushes), NEW m \in Pushes, m.op = "orders", NEW r \in After(q, m)
  PROVE  /\ r \in Seq(Pushes)
         /\ \A n \in Pushes : n.op = "order" => (InFlight(n, r) <=> InFlight(n, q))
         /\ NewReport(m.o, q, r, m)
         /\ \A o : o # m.o => SameView(o, q, r)
<1>1. CASE r = Append(q, m)
  <2>1. \A n \in Pushes : n.op = "order" => (InFlight(n, r) <=> InFlight(n, q))
    BY <1>1, InFlightAppend
  <2>2. NewReport(m.o, q, r, m)
    BY <1>1, ReportAppend DEF Reports
  <2>3. \A o : o # m.o => SameView(o, q, r)
    BY <1>1, ViewAppend DEF Reports
  <2> QED
    BY <1>1, <2>1, <2>2, <2>3
<1>2. ASSUME q # <<>>, Last(q).op = "order", r = Front(q) \o <<m, Last(q)>>
      PROVE  /\ r \in Seq(Pushes)
             /\ \A n \in Pushes : n.op = "order" => (InFlight(n, r) <=> InFlight(n, q))
             /\ NewReport(m.o, q, r, m)
             /\ \A o : o # m.o => SameView(o, q, r)
  <2> DEFINE f == Front(q)
             l == Last(q)
             g == Append(f, m)
  <2>1. f \in Seq(Pushes) /\ l \in Pushes /\ q = Append(f, l)
    BY <1>2 DEF Front, Last
  <2> HIDE DEF f, l
  <2>2. r = Append(g, l) /\ g \in Seq(Pushes) /\ l.op = "order"
    BY <1>2, <2>1 DEF f, l
  <2> HIDE DEF g
  <2>3. \A n \in Pushes : n.op = "order" => (InFlight(n, r) <=> InFlight(n, q))
    <3>1. \A n : InFlight(n, g) <=> InFlight(n, f) \/ m = n
      BY <2>1, InFlightAppend DEF g
    <3>2. \A n : InFlight(n, q) <=> InFlight(n, f) \/ l = n
      BY <2>1, InFlightAppend
    <3>3. \A n : InFlight(n, r) <=> InFlight(n, g) \/ l = n
      BY <2>1, <2>2, InFlightAppend
    <3> QED
      BY <3>1, <3>2, <3>3
  <2>4. \A o : SameView(o, f, q) /\ SameView(o, g, r)
    <3>1. \A o : ~Reports(o, l)
      BY <2>2 DEF Reports
    <3> QED
      BY <2>1, <2>2, <3>1, ViewAppend
  <2>5. \A o : o # m.o => SameView(o, f, g)
    BY <2>1, ViewAppend DEF Reports, g
  <2>6. \A o, state : Chronicle(o, q, state) <=> Chronicle(o, f, state)
    BY <2>1, <2>2, ChronicleOther DEF Reports
  <2>7. NewReport(m.o, f, g, m)
    BY <2>1, ReportAppend DEF Reports, g
  <2>8. NewReport(m.o, q, r, m)
    BY <2>4, <2>6, <2>7 DEF NewReport, SameView
  <2>9. \A o : o # m.o => SameView(o, q, r)
    BY <2>4, <2>5, <2>6 DEF SameView
  <2> QED
    BY <2>1, <2>2, <2>3, <2>8, <2>9
<1> QED
  BY <1>1, <1>2 DEF After

\* The first message is read, or one that is not a login is sent.
LEMMA LoginFrame ==
  ASSUME up \in Seq(Messages), LoginInv, UNCHANGED <<logged, subscribed>>,
         \/ up' = up
         \/ \E m \in Messages : up' = Append(up, m) /\ m.op # "login"
         \/ up # <<>> /\ up' = Tail(up)
  PROVE  LoginInv'
<1>1. ASSUME NEW m \in Messages, up' = Append(up, m), m.op # "login", NEW k \in DOMAIN up', up'[k].op = "login"
      PROVE  k \in DOMAIN up /\ up'[k] = up[k]
  BY <1>1
<1>2. ASSUME up # <<>>, up' = Tail(up), NEW k \in DOMAIN up'
      PROVE  k \in Nat \ {0} /\ k + 1 \in DOMAIN up /\ up'[k] = up[k + 1] /\ k + 1 # 1
  BY <1>2
<1>3. CASE up' = up
  BY <1>3 DEF LoginInv
<1>4. ASSUME NEW m \in Messages, up' = Append(up, m), m.op # "login" PROVE LoginInv'
  BY <1>1, <1>4 DEF LoginInv
<1>5. CASE up # <<>> /\ up' = Tail(up)
  BY <1>2, <1>5 DEF LoginInv
<1> QED
  BY <1>3, <1>4, <1>5

\* Once a login has been read none is on its way.
LEMMA LoginRead ==
  ASSUME up \in Seq(Messages), LoginInv, up # <<>>, up' = Tail(up)
  PROVE  \A k \in DOMAIN up' : up'[k].op # "login"
<1>1. ASSUME NEW k \in DOMAIN up'
      PROVE  k \in Nat \ {0} /\ k + 1 \in DOMAIN up /\ up'[k] = up[k + 1] /\ k + 1 # 1
  OBVIOUS
<1> QED
  BY <1>1 DEF LoginInv

\* What the venue does with an order and how it is reported.
Rises(o, state, fill) ==
  /\ state \in VenueStates \ {"none", "rejected"} /\ fill \in 0 .. 1
  /\ venue[o].state \in Open \cup {"none"}
  /\ venue[o].lots + fill <= Lots /\ (state \in Open => venue[o].lots + fill < Lots)

LEMMA ReportedState ==
  ASSUME Types, SubscribedInv, NEW o \in Orders, NEW state, NEW fill, NEW answers, Rises(o, state, fill),
         Report(o, state, fill, answers),
         answers \in {<<>>, <<[op |-> "order", o |-> o, code |-> "accepted"]>>},
         answers # <<>> => line = "up" /\ o \in Own, UNCHANGED subscribed
  PROVE  /\ down' \in Seq(Pushes) /\ (line # "up" => down' = <<>>)
         /\ \A x \in Orders : Refused(x)' <=> Refused(x)
         /\ \A x \in Orders \ {o} : SameReports(x)
         /\ IF subscribed
            THEN /\ Reported(o)'
                 /\ \A s : Chronicle(o, down, s) /\ (~Reported(o) \/ s \in Open) => Chronicle(o, down', state)
                 /\ LotsIn(o, down') = LotsIn(o, down) + fill
            ELSE SameReports(o)
<1> DEFINE q == down \o answers
           m == [op |-> "orders", o |-> o, state |-> state, fill |-> fill]
<1>1. m \in Pushes /\ m.op = "orders" /\ m.o = o /\ m.state = state /\ m.fill = fill
  BY DEF Rises, Pushes
<1>2. Lot(o, m) = fill
  <2>1. fill = 0 \/ fill = 1
    BY DEF Rises
  <2> QED
    BY <1>1, <2>1 DEF Lot, Fills
<1>3. /\ q \in Seq(Pushes) /\ (line # "up" => q = <<>>)
      /\ \A x \in Orders : SameView(x, down, q) /\ (InFlight(Refusal(x), q) <=> Refused(x))
      /\ \A s : Chronicle(o, q, s) <=> Chronicle(o, down, s)
  <2>1. CASE answers = <<>>
    <3>1. q = down
      BY <2>1 DEF Types
    <3> QED
      BY <3>1, ViewSame DEF Types, Refused
  <2>2. CASE answers = <<[op |-> "order", o |-> o, code |-> "accepted"]>>
    <3> DEFINE a == [op |-> "order", o |-> o, code |-> "accepted"]
    <3>1. a \in Pushes /\ line = "up"
      BY <2>2 DEF Pushes
    <3>2. q = Append(down, a)
      BY <2>2 DEF Types
    <3>3. \A x : ~Reports(x, a) /\ a # Refusal(x)
      <4>1. a.op = "order" /\ a.code = "accepted"
        OBVIOUS
      <4>2. \A x : Refusal(x).code = "refused"
        BY DEF Refusal
      <4> QED
        BY <4>1, <4>2 DEF Reports
    <3>4. down \in Seq(Pushes)
      BY DEF Types
    <3> HIDE DEF a, q
    <3>5. \A x \in Orders : SameView(x, down, q) /\ (InFlight(Refusal(x), q) <=> Refused(x))
      BY <3>1, <3>2, <3>3, <3>4, ViewAppend, InFlightAppend DEF Refused
    <3>6. \A s : Chronicle(o, q, s) <=> Chronicle(o, down, s)
      BY <3>1, <3>2, <3>3, <3>4, ChronicleOther
    <3> QED
      BY <3>1, <3>2, <3>4, <3>5, <3>6
  <2> QED
    BY <2>1, <2>2
<1> HIDE DEF q, m
<1>4. CASE subscribed
  <2>1. down' \in After(q, m) /\ line = "up"
    BY <1>4 DEF Report, q, m, Types
  <2>2. /\ down' \in Seq(Pushes)
        /\ \A n \in Pushes : n.op = "order" => (InFlight(n, down') <=> InFlight(n, q))
        /\ NewReport(o, q, down', m)
        /\ \A x : x # o => SameView(x, q, down')
    BY <1>1, <1>3, <2>1, AfterNews
  <2>3. \A x \in Orders : Refused(x)' <=> Refused(x)
    <3>1. ASSUME NEW x \in Own PROVE Refusal(x) \in Pushes /\ Refusal(x).op = "order"
      BY DEF Refusal, Pushes
    <3>2. ASSUME NEW x \in Orders \ Own, NEW r \in Seq(Pushes) PROVE ~InFlight(Refusal(x), r)
      <4>1. \A k \in DOMAIN r : r[k] \in Pushes
        OBVIOUS
      <4>2. ASSUME NEW n \in Pushes, n = Refusal(x) PROVE FALSE
        BY <4>2 DEF Pushes, Refusal
      <4> QED
        BY <4>1, <4>2 DEF InFlight
    <3>3. \A x \in Own : InFlight(Refusal(x), down') <=> InFlight(Refusal(x), q)
      BY <2>2, <3>1
    <3> QED
      BY <1>3, <2>2, <3>2, <3>3 DEF Refused, Orders
  <2>4. \A x \in Orders \ {o} : SameReports(x)
    BY <1>3, <2>2, <2>3 DEF SameReports, SameView
  <2>5. LotsIn(o, down') = LotsIn(o, down) + fill
    BY <1>2, <1>3, <2>2 DEF NewReport, SameView
  <2>6. Reported(o)' /\ \A s : Chronicle(o, down, s) /\ (~Reported(o) \/ s \in Open) => Chronicle(o, down', state)
    BY <1>1, <1>3, <2>2 DEF NewReport, SameView, Reported
  <2> QED
    BY <1>4, <2>1, <2>2, <2>3, <2>4, <2>5, <2>6
<1>5. CASE ~subscribed
  <2>1. down' = q
    BY <1>5 DEF Report, q
  <2> QED
    BY <1>3, <1>5, <2>1 DEF SameReports, Refused
<1> QED
  BY <1>4, <1>5

LEMMA ReportedOrder ==
  ASSUME Types, SubscribedInv, NEW o \in Orders, OrderInv(o), NEW state, NEW fill, NEW answers, Rises(o, state, fill),
         Report(o, state, fill, answers),
         answers \in {<<>>, <<[op |-> "order", o |-> o, code |-> "accepted"]>>},
         answers # <<>> => line = "up" /\ o \in Own,
         UNCHANGED <<subscribed, adapterVars, rest>>, ~Requested(o)', Once(o, up')
  PROVE  OrderInv(o)'
<1> USE DEF OrderInv, Rises
<1>1. /\ state \in VenueStates \ {"none", "rejected"} /\ fill \in Nat
      /\ venue[o] \in [state : VenueStates, lots : Nat] /\ missed[o] \in Nat /\ traded[o] \in Nat
      /\ orders[o] \notin Finished /\ ~Refused(o)
  BY DEF Types, ReportInv, RequestInv, Open, Ended
<1>2. /\ venue'[o] = [state |-> state, lots |-> venue[o].lots + fill]
      /\ orders' = orders /\ local_orderids' = local_orderids /\ rest' = rest /\ traded' = traded
  BY DEF Report, Types, adapterVars
<1>3. /\ ~Refused(o)' /\ down' \in Seq(Pushes)
      /\ IF subscribed
         THEN /\ Reported(o)'
              /\ \A s : Chronicle(o, down, s) /\ (~Reported(o) \/ s \in Open) => Chronicle(o, down', state)
              /\ LotsIn(o, down') = LotsIn(o, down) + fill
         ELSE SameReports(o)
  BY <1>1, ReportedState
<1>4. IF subscribed THEN o \notin stale' /\ missed'[o] = missed[o] ELSE o \in stale' /\ missed'[o] = missed[o] + fill
  BY DEF Report, Types
<1>5. VenueInv(o)'
  <2>1. rest.open = rest'.open /\ (o \in DOMAIN rest.open => rest.open[o] \in Open)
    BY <1>2 DEF VenueInv
  <2> QED
    BY <1>1, <1>2, <2>1 DEF VenueInv
<1>6. RequestInv(o)'
  BY <1>3 DEF RequestInv
<1>7. ReportInv(o)'
  <2>1. Chronicle(o, down, venue[o].state) /\ (~Reported(o) \/ venue[o].state \in Open)
    BY <1>1 DEF ReportInv, VenueInv
  <2>2. CASE subscribed
    <3>1. Chronicle(o, down', state) /\ Reported(o)'
      BY <1>3, <2>1, <2>2
    <3> QED
      BY <1>1, <1>2, <1>4, <2>2, <3>1 DEF ReportInv
  <2>3. CASE ~subscribed
    <3>1. ~Mentions(o, down', {"orders"})
      BY <1>3, <2>3 DEF SubscribedInv, SameReports, SameView, Reported
    <3>2. Chronicle(o, down', state) /\ ~Reported(o)'
      BY <3>1, ChronicleNothing DEF Reported
    <3> QED
      BY <1>1, <1>2, <1>4, <2>3, <3>2 DEF ReportInv
  <2> QED
    BY <2>2, <2>3
<1>8. LotsInv(o)'
  <2>1. LotsIn(o, down) \in Nat
    BY LotsType DEF Types
  <2>2. traded[o] + LotsIn(o, down) + missed[o] = venue[o].lots
    BY DEF LotsInv
  <2>3. IF subscribed THEN LotsIn(o, down') = LotsIn(o, down) + fill ELSE LotsIn(o, down') = LotsIn(o, down)
    BY <1>3 DEF SameReports, SameView
  <2>4. venue'[o].lots = venue[o].lots + fill /\ traded'[o] = traded[o]
    BY <1>2
  <2>5. LotsIn(o, down') \in Nat /\ LotsIn(o, down') + missed'[o] = (LotsIn(o, down) + missed[o]) + fill
    <3>1. CASE subscribed
      BY <1>1, <1>4, <2>1, <2>3, <3>1
    <3>2. CASE ~subscribed
      BY <1>1, <1>4, <2>1, <2>3, <3>2
    <3> QED
      BY <3>1, <3>2
  <2>6. missed'[o] \in Nat
    BY <1>1, <1>4
  <2>t. traded[o] \in Nat /\ missed[o] \in Nat /\ fill \in Nat
    BY <1>1
  <2>7. traded[o] + LotsIn(o, down') + missed'[o] = (traded[o] + LotsIn(o, down) + missed[o]) + fill
    <3> DEFINE told == traded[o]
               before == LotsIn(o, down)
               after == LotsIn(o, down')
               lost == missed[o]
               more == missed'[o]
    <3>1. told \in Nat /\ before \in Nat /\ after \in Nat /\ lost \in Nat /\ more \in Nat
      BY <2>1, <2>t, <2>5, <2>6
    <3>2. after + more = (before + lost) + fill
      BY <2>5
    <3> HIDE DEF told, before, after, lost, more
    <3>3. told + after + more = (told + before + lost) + fill
      BY <2>t, <3>1, <3>2
    <3> QED
      BY <3>3 DEF told, before, after, lost, more
  <2>8. traded'[o] + LotsIn(o, down') + missed'[o] = venue'[o].lots
    BY <2>2, <2>4, <2>7
  <2> QED
    BY <2>8 DEF LotsInv
<1>9. IdInv(o)'
  BY <1>2 DEF IdInv
<1> QED
  BY <1>5, <1>6, <1>7, <1>8, <1>9

\* A step in which the venue acts on one order and reports it.
LEMMA ReportedSession ==
  ASSUME SessionInv, NEW o \in Orders, NEW state, NEW fill, NEW answers, Rises(o, state, fill),
         Report(o, state, fill, answers),
         answers \in {<<>>, <<[op |-> "order", o |-> o, code |-> "accepted"]>>},
         answers # <<>> => line = "up" /\ o \in Own,
         UNCHANGED <<linkVars, adapterVars, rest>>, ~Requested(o)', Once(o, up'),
         \A x \in Orders \ {o} : SameRequests(x),
         up' \in Seq(Messages), LoginInv', line # "up" => up' = <<>>
  PROVE  SessionInv'
<1> USE DEF SessionInv, LineInv
<1>1. UNCHANGED <<line, stopped, logged, subscribed, refused>> /\ UNCHANGED <<orders, local_orderids, traded, rest>>
  BY DEF linkVars, adapterVars
<1>2. /\ down' \in Seq(Pushes) /\ (line # "up" => down' = <<>>)
      /\ \A x \in Orders \ {o} : SameReports(x)
      /\ ~subscribed => SameReports(o)
  BY <1>1, ReportedState
<1>3. /\ venue' = [venue EXCEPT ![o] = [state |-> state, lots |-> venue[o].lots + fill]]
      /\ stale' \in {stale \ {o}, stale \cup {o}}
      /\ missed' \in {missed, [missed EXCEPT ![o] = missed[o] + fill]}
  <2>1. stale' \in {stale \ {o}, stale \cup {o}} /\ missed' \in {missed, [missed EXCEPT ![o] = missed[o] + fill]}
    BY DEF Report
  <2> QED
    BY <2>1 DEF Report, Types
<1>4. Types'
  <2>1. venue' \in [Orders -> [state : VenueStates, lots : Nat]]
    <3>1. venue[o].lots + fill \in Nat /\ state \in VenueStates
      BY DEF Types, Rises
    <3> QED
      BY <1>3, <3>1 DEF Types
  <2>2. missed' \in [Orders -> Nat] /\ stale' \subseteq Orders
    <3>1. missed[o] + fill \in Nat
      BY DEF Types, Rises
    <3> QED
      BY <1>3, <3>1 DEF Types
  <2>3. rest' = [at |-> rest'.at, open |-> rest'.open] /\ rest'.at \in {"asked", "answered", "done"} /\ DOMAIN rest'.open \subseteq Orders
    BY <1>1 DEF Types
  <2> QED
    BY <1>1, <1>2, <2>1, <2>2, <2>3 DEF Types
<1>5. OrderInv(o)'
  BY <1>1, ReportedOrder DEF adapterVars
<1>6. ASSUME NEW x \in Orders \ {o} PROVE OrderInv(x)'
  <2>1. SameOrder(x)
    BY <1>1, <1>3 DEF SameOrder, Types
  <2> QED
    BY <1>2, <1>6, <2>1, OrderFrame
<1>7. SubscribedInv'
  <2>1. ~subscribed => \A x \in Orders : SameReports(x)
    BY <1>2
  <2> QED
    BY <1>1, <2>1 DEF SubscribedInv, SameReports, SameView, Reported
<1> QED
  BY <1>4, <1>5, <1>6, <1>7
-------------------------------------------------------------------------------
\* What is said and known of every order is as it was.
LEMMA AllFramed ==
  ASSUME SessionInv, \A o \in Orders : SameRequests(o) /\ SameReports(o) /\ SameOrder(o)
  PROVE  (\A o \in Orders : OrderInv(o)') /\ (\A o \in Orders : Reported(o)' <=> Reported(o))
<1>1. \A o \in Orders : Reported(o)' <=> Reported(o)
  BY DEF SameReports, SameView, Reported
<1> QED
  BY <1>1, OrderFrame DEF SessionInv

LEMMA SameOrderUnchanged == UNCHANGED <<adapterVars, rest, venue, ghostVars>> => \A o : SameOrder(o)
BY DEF SameOrder, adapterVars, ghostVars

LEMMA ConnectedStep == SessionInv /\ OnConnected => SessionInv'
<1> SUFFICES ASSUME SessionInv, OnConnected PROVE SessionInv'
  OBVIOUS
<1> DEFINE m == [op |-> "login"]
<1>1. /\ line = "opening" /\ line' = "up" /\ stopped' = stopped /\ up = <<>> /\ ~logged /\ ~subscribed
      /\ UNCHANGED <<logged, subscribed, refused, down>> /\ UNCHANGED <<adapterVars, rest, venue, ghostVars>>
      /\ up' = <<m>>
  BY DEF OnConnected, Link!Open, Link!Move, SessionInv, Types
<1>2. m \in Messages /\ up' = Append(up, m) /\ \A o : ~Requests(o, m)
  BY <1>1 DEF Messages, Requests
<1>3. \A o \in Orders : SameRequests(o) /\ SameReports(o) /\ SameOrder(o)
  BY <1>1, <1>2, RequestsOther, SameUnchanged, SameOrderUnchanged DEF SessionInv, Types
<1>4. Types'
  BY <1>1, <1>2 DEF SessionInv, Types, Link!Lines, adapterVars, ghostVars
<1>5. LineInv'
  BY <1>1, <1>3, AllFramed DEF SessionInv, LineInv, LoginInv, SubscribedInv
<1> QED
  BY <1>3, <1>4, <1>5, AllFramed DEF SessionInv

LEMMA RetryStep == SessionInv /\ Retry => SessionInv'
<1> SUFFICES ASSUME SessionInv, Retry PROVE SessionInv'
  OBVIOUS
<1>1. /\ line # "up" /\ line' \in {"opening", "down"} /\ stopped' = stopped
      /\ UNCHANGED <<logged, subscribed, refused, up, down>> /\ UNCHANGED <<adapterVars, rest, venue, ghostVars>>
  BY DEF Retry, Link!Attempt, Link!Fail, Link!Move
<1>2. \A o \in Orders : SameRequests(o) /\ SameReports(o) /\ SameOrder(o)
  BY <1>1, SameUnchanged, SameOrderUnchanged
<1>3. Types'
  BY <1>1 DEF SessionInv, Types, Link!Lines, adapterVars, ghostVars
<1>4. LineInv'
  BY <1>1, <1>2, AllFramed DEF SessionInv, LineInv, LoginInv, SubscribedInv
<1> QED
  BY <1>2, <1>3, <1>4, AllFramed DEF SessionInv

LEMMA CancelStep == ASSUME SessionInv, NEW o \in Orders, CancelOrder(o) PROVE SessionInv'
<1> DEFINE m == [op |-> "cancel-order", o |-> o, by |-> IF o \in local_orderids THEN "clOrdId" ELSE "ordId"]
<1>1. /\ UNCHANGED <<line, stopped, logged, subscribed, refused, down>>
      /\ UNCHANGED <<adapterVars, rest, venue, ghostVars>>
      /\ up' = IF line = "up" THEN Append(up, m) ELSE up
  BY DEF CancelOrder, Sent, linkVars
<1>2. m \in Messages /\ m.op = "cancel-order" /\ \A x : ~Requests(x, m)
  BY DEF Messages, Requests
<1> HIDE DEF m
<1>3. up \in Seq(Messages) /\ LoginInv
  BY DEF SessionInv, Types, LineInv
<1>4. \A x \in Orders : SameRequests(x) /\ SameReports(x) /\ SameOrder(x)
  BY <1>1, <1>2, <1>3, RequestsOther, SameUnchanged, SameOrderUnchanged
<1>5. Types'
  BY <1>1, <1>2 DEF SessionInv, Types, adapterVars, ghostVars
<1>6. LoginInv'
  BY <1>1, <1>2, <1>3, LoginFrame
<1>7. SubscribedInv'
  BY <1>1, <1>4, AllFramed DEF SessionInv, LineInv, SubscribedInv
<1> QED
  BY <1>4, <1>5, <1>6, <1>7, AllFramed DEF SessionInv, LineInv

LEMMA LoginStep == SessionInv /\ OnLogin => SessionInv'
<1> SUFFICES ASSUME SessionInv, OnLogin PROVE SessionInv'
  OBVIOUS
<1> DEFINE m == [op |-> "subscribe"]
<1>1. /\ UNCHANGED <<line, stopped, logged, subscribed, refused>>
      /\ UNCHANGED <<adapterVars, rest, venue, ghostVars>>
      /\ line = "up" /\ down # <<>> /\ down' = Tail(down) /\ Head(down).op = "login"
      /\ up' = Append(up, m) \/ up' = up
  BY DEF OnLogin, Received, Message, linkVars
<1>2. m \in Messages /\ m.op = "subscribe" /\ \A x : ~Requests(x, m)
  BY DEF Messages, Requests
<1> HIDE DEF m
<1>3. up \in Seq(Messages) /\ down \in Seq(Pushes) /\ LoginInv
  BY DEF SessionInv, Types, LineInv
<1>4. \A x \in Orders : SameRequests(x) /\ SameReports(x) /\ SameOrder(x)
  <2>1. \A x : ~Reports(x, Head(down)) /\ Head(down) # Refusal(x)
    BY <1>1 DEF Reports, Refusal
  <2> QED
    BY <1>1, <1>2, <1>3, <2>1, RequestsOther, ReportsOther, SameUnchanged, SameOrderUnchanged
<1>5. Types'
  <2>1. up' \in Seq(Messages)
    <3>1. up \in Seq(Messages) /\ Append(up, m) \in Seq(Messages)
      BY <1>2, <1>3
    <3> QED
      BY <1>1, <3>1
  <2>2. down' \in Seq(Pushes)
    BY <1>1, <1>3
  <2> QED
    BY <1>1, <2>1, <2>2 DEF SessionInv, Types, adapterVars, ghostVars
<1>6. LoginInv'
  BY <1>1, <1>2, <1>3, LoginFrame
<1>7. SubscribedInv'
  BY <1>1, <1>4, AllFramed DEF SessionInv, LineInv, SubscribedInv
<1> QED
  BY <1>4, <1>5, <1>6, <1>7, AllFramed DEF SessionInv, LineInv

LEMMA QueryFailsStep == SessionInv /\ QueryFails => SessionInv'
<1> SUFFICES ASSUME SessionInv, QueryFails PROVE SessionInv'
  OBVIOUS
<1>1. /\ UNCHANGED <<line, stopped, logged, subscribed, refused, up, down>>
      /\ UNCHANGED <<adapterVars, venue, ghostVars>>
      /\ rest' = [at |-> "done", open |-> rest.open]
  BY DEF QueryFails, linkVars, SessionInv, Types
<1>2. \A x \in Orders : SameRequests(x) /\ SameReports(x) /\ SameOrder(x)
  BY <1>1, SameUnchanged DEF SameOrder, adapterVars, ghostVars
<1>3. Types'
  BY <1>1 DEF SessionInv, Types, adapterVars, ghostVars
<1>4. LineInv'
  BY <1>1, <1>2, AllFramed DEF SessionInv, LineInv, LoginInv, SubscribedInv
<1> QED
  BY <1>2, <1>3, <1>4, AllFramed DEF SessionInv

LEMMA VenueLoginStep == SessionInv /\ VenueLogin => SessionInv'
<1> SUFFICES ASSUME SessionInv, VenueLogin PROVE SessionInv'
  OBVIOUS
<1>1. PICK ok \in BOOLEAN : logged' = ok /\ refused' = ~ok /\ down' = Append(down, [op |-> "login", ok |-> ok])
  BY DEF VenueLogin
<1> DEFINE m == [op |-> "login", ok |-> ok]
<1>2. /\ UNCHANGED <<line, stopped, subscribed>> /\ UNCHANGED <<adapterVars, rest, venue, ghostVars>>
      /\ line = "up" /\ up # <<>> /\ Head(up).op = "login" /\ up' = Tail(up)
  BY DEF VenueLogin, Reads
<1>3. m \in Pushes /\ m.op = "login"
  BY DEF Pushes
<1>4. down' = Append(down, m)
  BY <1>1
<1> HIDE DEF m
<1>5. up \in Seq(Messages) /\ down \in Seq(Pushes) /\ LoginInv /\ SubscribedInv
  BY DEF SessionInv, Types, LineInv
<1>6. ~subscribed
  <2>1. 1 \in DOMAIN up /\ up[1] = Head(up)
    BY <1>2, <1>5
  <2> QED
    BY <1>2, <1>5, <2>1 DEF LoginInv
<1>7. \A x \in Orders : SameRequests(x) /\ SameReports(x) /\ SameOrder(x)
  <2>1. \A x : ~Reports(x, m) /\ m # Refusal(x) /\ ~Requests(x, Head(up))
    BY <1>2, <1>3 DEF Reports, Requests, Refusal
  <2> QED
    BY <1>2, <1>3, <1>4, <1>5, <2>1, RequestsOther, ReportsOther, SameOrderUnchanged
<1>8. Types'
  BY <1>1, <1>2, <1>3, <1>4, <1>6 DEF SessionInv, Types, adapterVars, ghostVars
<1>9. LineInv'
  <2>1. LoginInv'
    BY <1>2, <1>5, LoginRead DEF LoginInv
  <2> QED
    BY <1>2, <1>5, <1>7, <2>1, AllFramed DEF LineInv, SubscribedInv
<1> QED
  BY <1>7, <1>8, <1>9, AllFramed DEF SessionInv

LEMMA SubscribeStep == SessionInv /\ VenueSubscribe => SessionInv'
<1> SUFFICES ASSUME SessionInv, VenueSubscribe PROVE SessionInv'
  OBVIOUS
<1>1. /\ UNCHANGED <<line, stopped, logged, refused, down>> /\ UNCHANGED <<adapterVars, rest, venue, ghostVars>>
      /\ line = "up" /\ up # <<>> /\ Head(up).op = "subscribe" /\ up' = Tail(up) /\ subscribed' = logged
  BY DEF VenueSubscribe, Reads
<1>2. up \in Seq(Messages) /\ LoginInv /\ SubscribedInv /\ (subscribed => logged)
  BY DEF SessionInv, Types, LineInv
<1>3. \A x \in Orders : SameRequests(x) /\ SameReports(x) /\ SameOrder(x)
  <2>1. \A x : ~Requests(x, Head(up))
    BY <1>1 DEF Requests
  <2> QED
    BY <1>1, <1>2, <2>1, RequestsOther, SameUnchanged, SameOrderUnchanged
<1>4. Types'
  BY <1>1, <1>2 DEF SessionInv, Types, adapterVars, ghostVars
<1>5. LineInv'
  <2>1. LoginInv'
    BY <1>1, <1>2, LoginRead DEF LoginInv
  <2> QED
    BY <1>1, <1>2, <1>3, <2>1, AllFramed DEF LineInv, SubscribedInv
<1> QED
  BY <1>3, <1>4, <1>5, AllFramed DEF SessionInv

\* What was in flight is lost: the orders it was about are stale, its lots missed.
LEMMA LoseStep ==
  ASSUME SessionInv, Lose, line' \in Link!Lines, stopped' \in BOOLEAN
  PROVE  SessionInv'
<1>1. /\ ~logged' /\ ~subscribed' /\ ~refused' /\ up' = <<>> /\ down' = <<>>
      /\ logged' = FALSE /\ subscribed' = FALSE /\ refused' = FALSE
      /\ UNCHANGED <<orders, local_orderids, traded>> /\ rest' = rest /\ venue' = venue
      /\ stale' = stale \cup {o \in Orders : About(o, up) \/ About(o, down)}
      /\ missed' = [o \in Orders |-> missed[o] + LotsIn(o, down)]
  BY DEF Lose, adapterVars
<1>2. Types'
  <2>1. \A o \in Orders : missed[o] \in Nat /\ LotsIn(o, down) \in Nat
    BY LotsType DEF SessionInv, Types
  <2>2. missed' \in [Orders -> Nat] /\ stale' \subseteq Orders
    BY <1>1, <2>1 DEF SessionInv, Types
  <2>3. up' \in Seq(Messages) /\ down' \in Seq(Pushes)
    BY <1>1
  <2>4. {stopped', logged', subscribed', refused'} \subseteq BOOLEAN
    BY <1>1
  <2> QED
    BY <1>1, <2>2, <2>3, <2>4 DEF SessionInv, Types
<1>3. ASSUME NEW o \in Orders PROVE OrderInv(o)' /\ ~Reported(o)'
  <2> USE DEF SessionInv, OrderInv
  <2>1. ~Requested(o)' /\ ~Reported(o)' /\ ~Refused(o)'
    BY <1>1, MentionsNothing DEF Requested, Reported, Refused, InFlight
  <2>2. VenueInv(o)'
    BY <1>1, <2>1 DEF VenueInv
  <2>3. RequestInv(o)'
    BY <1>1, <2>1 DEF RequestInv, Once
  <2>4. ReportInv(o)'
    <3>1. \A s : Chronicle(o, down', s)
      BY <2>1, ChronicleNothing DEF Reported
    <3>2. Requested(o) => Mentions(o, up, {"order", "orders"})
      BY MentionsIndex DEF Requested
    <3>3. Reported(o) => Mentions(o, down, {"order", "orders"})
      BY MentionsIndex DEF Reported
    <3>4. Refused(o) => Mentions(o, down, {"order", "orders"})
      BY MentionsIndex DEF Refused, InFlight, Refusal
    <3>5. Requested(o) \/ Reported(o) \/ Refused(o) => o \in stale'
      BY <1>1, <3>2, <3>3, <3>4 DEF About
    <3> QED
      BY <1>1, <2>1, <3>1, <3>5 DEF ReportInv
  <2>5. LotsInv(o)'
    <3>1. LotsIn(o, down') = 0
      BY <1>1, LotsNothing
    <3>2. /\ traded[o] \in Nat /\ missed[o] \in Nat /\ LotsIn(o, down) \in Nat
          /\ traded[o] + LotsIn(o, down) + missed[o] = venue[o].lots
      BY LotsType DEF Types, LotsInv
    <3>3. traded'[o] = traded[o] /\ missed'[o] = missed[o] + LotsIn(o, down) /\ venue'[o] = venue[o]
      BY <1>1
    <3>4. traded'[o] + LotsIn(o, down') + missed'[o] = venue'[o].lots
      BY <3>1, <3>2, <3>3
    <3> QED
      BY <3>4 DEF LotsInv
  <2>6. IdInv(o)'
    BY <1>1 DEF IdInv
  <2> QED
    BY <2>1, <2>2, <2>3, <2>4, <2>5, <2>6
<1>4. LineInv'
  BY <1>1, <1>3 DEF LineInv, LoginInv, SubscribedInv
<1> QED
  BY <1>2, <1>3, <1>4 DEF SessionInv

LEMMA DisconnectedStep == SessionInv /\ OnDisconnected => SessionInv'
<1> SUFFICES ASSUME SessionInv, OnDisconnected PROVE SessionInv'
  OBVIOUS
<1>1. Lose /\ line' \in Link!Lines /\ stopped' = stopped
  BY DEF OnDisconnected, Link!Closing, Link!Drop, Link!Move, Link!Lines
<1> QED
  BY <1>1, LoseStep DEF SessionInv, Types

LEMMA CloseStep == SessionInv /\ Close => SessionInv'
<1> SUFFICES ASSUME SessionInv, Close PROVE SessionInv'
  OBVIOUS
<1>1. stopped' = TRUE /\ line' = IF line = "up" THEN "closing" ELSE line
  BY DEF Close, Link!Stop
<1>2. line' \in Link!Lines
  BY <1>1 DEF SessionInv, Types, Link!Lines
<1>3. CASE line = "up"
  BY <1>1, <1>2, <1>3, LoseStep DEF Close
<1>4. CASE line # "up"
  <2>1. UNCHANGED <<line, logged, subscribed, refused, up, down>> /\ UNCHANGED <<adapterVars, rest, venue, ghostVars>>
    BY <1>1, <1>4 DEF Close
  <2>2. \A o \in Orders : SameRequests(o) /\ SameReports(o) /\ SameOrder(o)
    BY <2>1, SameUnchanged, SameOrderUnchanged
  <2>3. Types'
    BY <1>1, <2>1 DEF SessionInv, Types, adapterVars, ghostVars
  <2>4. LineInv'
    BY <2>1, <2>2, AllFramed DEF SessionInv, LineInv, LoginInv, SubscribedInv
  <2> QED
    BY <2>2, <2>3, <2>4, AllFramed DEF SessionInv
<1> QED
  BY <1>3, <1>4

LEMMA SendStep == ASSUME SessionInv, NEW o \in Orders, SendOrder(o) PROVE SessionInv'
<1> DEFINE m == [op |-> "order", o |-> o]
<1>1. /\ o \in Own /\ orders[o] = None /\ venue[o].state = "none"
      /\ up' = IF line = "up" THEN Append(up, m) ELSE up
      /\ orders' = [orders EXCEPT ![o] = "SUBMITTING"]
      /\ stale' = IF line = "up" THEN stale ELSE stale \cup {o}
      /\ UNCHANGED <<line, stopped, logged, subscribed, refused, down, local_orderids, traded, rest, venue, missed>>
  BY DEF SendOrder, Sent, linkVars
<1>2. m \in Messages /\ m.op = "order" /\ Requests(o, m) /\ \A x : x # o => ~Requests(x, m)
  BY <1>1 DEF Messages, Requests
<1> HIDE DEF m
<1>3. up \in Seq(Messages) /\ down \in Seq(Pushes) /\ LoginInv /\ SubscribedInv /\ OrderInv(o)
  BY DEF SessionInv, Types, LineInv
<1>4. "SUBMITTING" \in Status \ Finished /\ "SUBMITTING" # None
  BY NoneAssumption DEF Status, Finished
<1>5. Types'
  <2>1. orders' \in [Orders -> Status \cup {None}]
    BY <1>1, <1>4 DEF SessionInv, Types
  <2>2. up' \in Seq(Messages) /\ (line # "up" => up' = <<>>)
    BY <1>1, <1>2, <1>3 DEF SessionInv, Types
  <2> QED
    BY <1>1, <2>1, <2>2 DEF SessionInv, Types
<1>6. LineInv'
  <2>1. \A x : Reported(x)' <=> Reported(x)
    BY <1>1 DEF Reported
  <2>2. LoginInv'
    BY <1>1, <1>2, <1>3, LoginFrame
  <2> QED
    BY <1>1, <1>3, <2>1, <2>2 DEF LineInv, SubscribedInv
<1>7. ASSUME NEW x \in Orders \ {o} PROVE OrderInv(x)'
  <2>1. SameRequests(x) /\ SameReports(x)
    BY <1>1, <1>2, <1>3, RequestsOther, SameUnchanged
  <2>2. SameOrder(x)
    BY <1>1 DEF SameOrder, SessionInv, Types
  <2> QED
    BY <2>1, <2>2, OrderFrame DEF SessionInv
<1>8. OrderInv(o)'
  <2> USE DEF OrderInv
  <2>1. orders'[o] = "SUBMITTING" /\ ~Requested(o)
    BY <1>1, <1>3 DEF SessionInv, Types, RequestInv
  <2>2. (Reported(o)' <=> Reported(o)) /\ (Refused(o)' <=> Refused(o)) /\ ~Reported(o) /\ ~Refused(o)
    BY <1>1, <1>3 DEF Reported, Refused, VenueInv, RequestInv
  <2>3. Once(o, up')
    BY <1>1, <1>2, <1>3, <2>1, OnceAppend DEF RequestInv, Requested
  <2>4. IF line = "up" THEN Requested(o)' ELSE o \in stale'
    BY <1>1, <1>2, <1>3, MentionsAppend DEF Requests, Requested
  <2>5. VenueInv(o)' /\ RequestInv(o)'
    BY <1>1, <1>3, <1>4, <2>1, <2>2, <2>3 DEF VenueInv, RequestInv
  <2>6. ReportInv(o)'
    BY <1>1, <1>3, <1>4, <2>1, <2>2, <2>4 DEF ReportInv
  <2>7. LotsInv(o)' /\ IdInv(o)'
    BY <1>1, <1>3, <2>1 DEF LotsInv, IdInv
  <2> QED
    BY <2>5, <2>6, <2>7
<1> QED
  BY <1>5, <1>6, <1>7, <1>8 DEF SessionInv

\* What is received of an order is what the venue says of it, or once said.
LEMMA OrderStep == SessionInv /\ OnOrder => SessionInv'
<1> SUFFICES ASSUME SessionInv, OnOrder PROVE SessionInv'
  OBVIOUS
<1> DEFINE m == Head(down)
           o == m.o
<1>1. /\ line = "up" /\ down # <<>> /\ m.op = "orders" /\ down' = Tail(down)
      /\ orders' = [orders EXCEPT ![o] = StatusOf(m.state)]
      /\ local_orderids' = local_orderids \cup ({o} \ Manual)
      /\ traded' = [traded EXCEPT ![o] = traded[o] + m.fill]
      /\ UNCHANGED <<line, stopped, logged, subscribed, refused, up, rest, venue, missed, stale>>
  BY DEF OnOrder, Received, Message, Seen, linkVars, ghostVars
<1>2. up \in Seq(Messages) /\ down \in Seq(Pushes) /\ LoginInv /\ SubscribedInv
  BY DEF SessionInv, Types, LineInv
<1>3. m \in Pushes /\ o \in Orders /\ m.state \in VenueStates /\ m.fill \in 0 .. 1 /\ Reports(o, m)
  <2>1. m \in Pushes
    BY <1>1, <1>2
  <2> QED
    BY <1>1, <2>1 DEF Pushes, Reports
<1>4. PICK p \in Orders : p = o
  BY <1>3
<1>5. PICK n \in Pushes : n = m
  BY <1>3
<1>6. /\ line = "up" /\ n = Head(down) /\ n.op = "orders" /\ down' = Tail(down)
      /\ orders' = [orders EXCEPT ![p] = StatusOf(n.state)]
      /\ local_orderids' = local_orderids \cup ({p} \ Manual)
      /\ traded' = [traded EXCEPT ![p] = traded[p] + n.fill]
      /\ n.o = p /\ n.state \in VenueStates /\ n.fill \in 0 .. 1
  BY <1>1, <1>3, <1>4, <1>5
<1> HIDE DEF m, o
<1>7. Reported(p) /\ OrderInv(p)
  BY <1>1, <1>2, <1>6, MentionsTail DEF Reported, SessionInv
<1>8. /\ venue[p].state \notin {"none", "rejected"} /\ p \notin stale /\ orders[p] \notin Finished
      /\ ~Requested(p)
  BY <1>7 DEF OrderInv, VenueInv, RequestInv, ReportInv
<1>9. /\ Chronicle(p, down', venue[p].state)
      /\ IF Reported(p)' THEN n.state \in Open ELSE n.state = venue[p].state
  BY <1>1, <1>2, <1>6, <1>7, ChronicleTail DEF OrderInv, ReportInv, Reports, Reported
<1>10. n.state # "none" /\ StatusOf(n.state) \in Status
       /\ (StatusOf(n.state) \in Finished => n.state \in Ended)
  BY <1>6, <1>8, <1>9 DEF VenueStates, StatusOf, Status, Finished, Open, Ended
<1>11. Types'
  <2>1. orders' \in [Orders -> Status \cup {None}]
    BY <1>6, <1>10 DEF SessionInv, Types
  <2>2. traded[p] + n.fill \in Nat
    BY <1>6 DEF SessionInv, Types
  <2>3. traded' \in [Orders -> Nat] /\ local_orderids' \subseteq Own
    BY <1>6, <2>2 DEF SessionInv, Types, Orders
  <2> QED
    BY <1>1, <2>1, <2>3 DEF SessionInv, Types
<1>12. \A x \in Orders \ {p} : SameRequests(x) /\ SameReports(x)
  <2>1. \A x : x # p => ~Reports(x, n) /\ n # Refusal(x)
    BY <1>6 DEF Reports, Refusal
  <2> QED
    BY <1>1, <1>2, <1>6, <2>1, ReportsOther, SameUnchanged
<1>13. ASSUME NEW x \in Orders \ {p} PROVE OrderInv(x)'
  <2>1. SameOrder(x)
    BY <1>1, <1>6 DEF SameOrder, SessionInv, Types
  <2> QED
    BY <1>12, <2>1, OrderFrame DEF SessionInv
<1>14. LineInv'
  <2>1. \A x \in Orders : Reported(x)' => Reported(x)
    BY <1>7, <1>12 DEF SameReports, SameView, Reported
  <2> QED
    BY <1>1, <1>2, <2>1 DEF LineInv, LoginInv, SubscribedInv
<1>15. OrderInv(p)'
  <2> USE DEF OrderInv
  <2>1. orders'[p] = StatusOf(n.state) /\ (p \in local_orderids' <=> p \in local_orderids \/ p \notin Manual)
    BY <1>6 DEF SessionInv, Types
  <2>2. (Requested(p)' <=> Requested(p)) /\ (Refused(p)' <=> Refused(p))
    <3>1. n # Refusal(p)
      BY <1>6 DEF Refusal
    <3> QED
      BY <1>1, <1>2, <1>6, <3>1, InFlightTail DEF Requested, Refused
  <2>3. VenueInv(p)' /\ RequestInv(p)'
    BY <1>1, <1>7, <1>8, <2>2 DEF VenueInv, RequestInv
  <2>4. ReportInv(p)'
    <3>1. ~Reported(p)' => Agree(orders'[p], venue'[p].state)
      BY <1>1, <1>8, <1>9, <2>1 DEF Agree
    <3>2. Ended \cap Open = {}
      BY DEF Ended, Open
    <3>3. orders'[p] \in Finished => ~Reported(p)' /\ venue'[p].state \in Ended
      BY <1>1, <1>9, <1>10, <2>1, <3>2
    <3> QED
      BY <1>1, <1>8, <1>9, <3>1, <3>3 DEF ReportInv
  <2>5. LotsInv(p)'
    <3>1. Lot(p, n) = n.fill /\ n.fill \in Nat
      <4>1. n.fill = 0 \/ n.fill = 1
        BY <1>6
      <4> QED
        BY <1>6, <4>1 DEF Lot, Fills
    <3>2. LotsIn(p, down) = LotsIn(p, down') + n.fill
      BY <1>1, <1>2, <1>6, <3>1, LotsTail
    <3>3. down' \in Seq(Pushes)
      BY <1>1, <1>2
    <3>4. LotsIn(p, down') \in Nat
      BY <3>3, LotsType
    <3>5. traded'[p] = traded[p] + n.fill /\ traded[p] \in Nat /\ missed[p] \in Nat
      BY <1>6 DEF SessionInv, Types
    <3>6. traded[p] + LotsIn(p, down) + missed[p] = venue[p].lots
      BY <1>7 DEF LotsInv
    <3>7. traded'[p] + LotsIn(p, down') + missed[p] = venue[p].lots
      BY <3>1, <3>2, <3>4, <3>5, <3>6
    <3> QED
      BY <1>1, <3>7 DEF LotsInv
  <2>6. IdInv(p)'
    <3>1. p \in local_orderids => p \notin Manual
      BY SessionAssumption DEF SessionInv, Types
    <3> QED
      BY <2>1, <3>1 DEF IdInv
  <2> QED
    BY <2>3, <2>4, <2>5, <2>6
<1> QED
  BY <1>11, <1>13, <1>14, <1>15 DEF SessionInv

\* A refusal ends the order; the other answers change nothing.
LEMMA SendOrderStep == SessionInv /\ OnSendOrder => SessionInv'
<1> SUFFICES ASSUME SessionInv, OnSendOrder PROVE SessionInv'
  OBVIOUS
<1>1. down \in Seq(Pushes) /\ down # <<>> /\ Head(down).op = "order"
  BY DEF OnSendOrder, Received, SessionInv, Types
<1>2. PICK n \in Pushes : n = Head(down)
  BY <1>1
<1>3. n.op = "order" /\ n.o \in Own /\ n = [op |-> "order", o |-> n.o, code |-> n.code]
  BY <1>1, <1>2 DEF Pushes
<1>4. PICK p \in Orders : p = n.o
  BY <1>3 DEF Orders
<1>5. /\ line = "up" /\ down' = Tail(down)
      /\ orders' = [orders EXCEPT ![p] = Answered(p, n.code)]
      /\ UNCHANGED <<line, stopped, logged, subscribed, refused, up, local_orderids, traded, rest, venue, missed, stale>>
  BY <1>2, <1>4 DEF OnSendOrder, Received, Message, linkVars, ghostVars
<1>6. \A x : ~Reports(x, n) /\ (n = Refusal(x) <=> x = p /\ n.code = "refused")
  BY <1>3, <1>4 DEF Reports, Refusal
<1>7. \A x \in Orders : SameRequests(x) /\ (x # p \/ n.code # "refused" => SameReports(x))
  BY <1>1, <1>2, <1>5, <1>6, ReportsOther, SameUnchanged
<1>8. Answered(p, n.code) \in Status \cup {None}
  BY DEF Answered, Status, Finished, SessionInv, Types
<1>9. Types'
  <2>1. orders' \in [Orders -> Status \cup {None}] /\ down' \in Seq(Pushes)
    BY <1>1, <1>5, <1>8 DEF SessionInv, Types
  <2> QED
    BY <1>5, <2>1 DEF SessionInv, Types
<1>10. SameView(p, down, down')
  BY <1>1, <1>2, <1>5, <1>6, ViewTail
<1>11. LineInv'
  <2>1. \A x \in Orders : Reported(x)' <=> Reported(x)
    BY <1>7, <1>10 DEF SameReports, SameView, Reported
  <2> QED
    BY <1>5, <2>1 DEF SessionInv, LineInv, LoginInv, SubscribedInv
<1>12. ASSUME NEW x \in Orders, x # p \/ n.code # "refused" PROVE OrderInv(x)'
  <2>1. SameOrder(x)
    BY <1>5, <1>12 DEF SameOrder, SessionInv, Types, Answered
  <2> QED
    BY <1>7, <1>12, <2>1, OrderFrame DEF SessionInv
<1>13. ASSUME n.code = "refused" PROVE OrderInv(p)'
  <2> USE DEF OrderInv
  <2>1. orders'[p] = "REJECTED" /\ OrderInv(p)
    BY <1>5, <1>13 DEF Answered, SessionInv, Types
  <2>2. Refused(p)
    BY <1>1, <1>2, <1>6, <1>13, InFlightTail DEF Refused
  <2>3. venue[p].state = "rejected" /\ ~Reported(p) /\ (Reported(p)' <=> Reported(p)) /\ (Requested(p)' <=> Requested(p)) /\ ~Requested(p)
    BY <1>7, <1>10, <2>1, <2>2 DEF RequestInv, ReportInv, SameView, SameRequests, Reported
  <2>4. VenueInv(p)' /\ RequestInv(p)'
    BY <1>5, <2>1, <2>3 DEF VenueInv, RequestInv
  <2>5. ReportInv(p)'
    <3>1. Agree("REJECTED", "rejected") /\ "rejected" \in Ended
      BY DEF Agree, StatusOf, Ended
    <3> QED
      BY <1>5, <1>10, <2>1, <2>3, <3>1 DEF ReportInv, SameView
  <2>6. LotsInv(p)' /\ IdInv(p)'
    BY <1>5, <1>10, <2>1 DEF LotsInv, IdInv, SameView
  <2> QED
    BY <2>4, <2>5, <2>6
<1> QED
  BY <1>9, <1>11, <1>12, <1>13 DEF SessionInv

\* The answer to the query of the open orders is reported, however old it is.
LEMMA QueryStep == SessionInv /\ OnQueryOrder => SessionInv'
<1> SUFFICES ASSUME SessionInv, OnQueryOrder PROVE SessionInv'
  OBVIOUS
<1> DEFINE open == DOMAIN rest.open
<1>1. /\ rest' = [at |-> "done", open |-> NothingOpen]
      /\ orders' = [o \in Orders |-> IF o \in open THEN StatusOf(rest.open[o]) ELSE orders[o]]
      /\ local_orderids' = local_orderids \cup (open \ Manual)
      /\ stale' = {o \in stale : o \notin open \/ rest.open[o] # venue[o].state}
                  \cup {o \in open : rest.open[o] # venue[o].state /\ ~Reported(o)}
      /\ UNCHANGED <<line, stopped, logged, subscribed, refused, up, down, traded, venue, missed>>
  BY DEF OnQueryOrder, Seen, Reported, linkVars
<1>2. open \subseteq Orders /\ rest'.at = "done" /\ DOMAIN rest'.open = {}
  BY <1>1 DEF SessionInv, Types, NothingOpen
<1>3. \A o \in open : rest.open[o] \in Open
  BY <1>2 DEF SessionInv, OrderInv, VenueInv
<1>4. \A s \in Open : StatusOf(s) \in {"NOTTRADED", "PARTTRADED"}
  BY DEF Open, StatusOf
<1>5. {"NOTTRADED", "PARTTRADED"} \subseteq Status /\ \A s \in {"NOTTRADED", "PARTTRADED"} : s \notin Finished /\ s # None
  BY NoneAssumption DEF Status, Finished
<1> HIDE DEF open
<1>6. Types'
  <2>1. orders' \in [Orders -> Status \cup {None}]
    <3>1. \A o \in Orders : (IF o \in open THEN StatusOf(rest.open[o]) ELSE orders[o]) \in Status \cup {None}
      BY <1>3, <1>4, <1>5 DEF SessionInv, Types
    <3> QED
      BY <1>1, <3>1
  <2>2. local_orderids' \subseteq Own /\ stale' \subseteq Orders
    BY <1>1, <1>2 DEF SessionInv, Types, Orders
  <2>3. rest' = [at |-> rest'.at, open |-> rest'.open] /\ rest'.at \in {"asked", "answered", "done"} /\ DOMAIN rest'.open \subseteq Orders
    BY <1>1, <1>2
  <2> QED
    BY <1>1, <2>1, <2>2, <2>3 DEF SessionInv, Types
<1>7. \A o \in Orders : SameRequests(o) /\ SameReports(o)
  BY <1>1, SameUnchanged
<1>8. ASSUME NEW o \in Orders \ open PROVE OrderInv(o)'
  <2>1. SameOrder(o)
    BY <1>1, <1>2, <1>8 DEF SameOrder
  <2> QED
    BY <1>7, <2>1, OrderFrame DEF SessionInv
<1>9. ASSUME NEW o \in open PROVE OrderInv(o)'
  <2> USE DEF OrderInv
  <2>1. OrderInv(o) /\ o \in Orders
    BY <1>2 DEF SessionInv
  <2>2. orders'[o] = StatusOf(rest.open[o]) /\ orders'[o] \in {"NOTTRADED", "PARTTRADED"}
    BY <1>1, <1>3, <1>4, <2>1
  <2>3. venue[o].state # "none" /\ ~Requested(o)
    BY <1>9, <2>1 DEF open, VenueInv, RequestInv
  <2>4. (Requested(o)' <=> Requested(o)) /\ (Reported(o)' <=> Reported(o)) /\ (Refused(o)' <=> Refused(o))
    BY <1>1 DEF Requested, Reported, Refused
  <2>5. o \in stale' <=> rest.open[o] # venue[o].state /\ (o \in stale \/ ~Reported(o))
    BY <1>1, <1>9
  <2>6. VenueInv(o)' /\ RequestInv(o)'
    BY <1>1, <1>2, <2>1, <2>3, <2>4 DEF VenueInv, RequestInv
  <2>7. ReportInv(o)'
    <3>1. Chronicle(o, down', venue'[o].state)
      BY <1>1, <2>1 DEF ReportInv
    <3>2. venue'[o].state = "rejected" \/ o \in stale' => ~Reported(o)'
      BY <1>1, <2>1, <2>4, <2>5 DEF ReportInv
    <3>3. Reported(o)' \/ o \in stale' \/ Agree(orders'[o], venue'[o].state)
      BY <1>1, <2>2, <2>3, <2>4, <2>5 DEF Agree
    <3> QED
      BY <1>5, <2>2, <3>1, <3>2, <3>3 DEF ReportInv
  <2>8. LotsInv(o)'
    BY <1>1, <2>1 DEF LotsInv
  <2>9. IdInv(o)'
    <3>1. o \in local_orderids' <=> o \notin Manual
      <4>1. o \in local_orderids => o \notin Manual
        BY SessionAssumption DEF SessionInv, Types
      <4> QED
        BY <1>1, <1>9, <4>1
    <3> QED
      BY <3>1 DEF IdInv
  <2> QED
    BY <2>6, <2>7, <2>8, <2>9
<1>10. LineInv'
  BY <1>1 DEF SessionInv, LineInv, LoginInv, SubscribedInv, Reported
<1> QED
  BY <1>6, <1>8, <1>9, <1>10 DEF SessionInv

\* The venue answers the query with its open orders.
LEMMA VenueQueryStep == SessionInv /\ VenueQuery => SessionInv'
<1> SUFFICES ASSUME SessionInv, VenueQuery PROVE SessionInv'
  OBVIOUS
<1> DEFINE open == {o \in Orders : venue[o].state \in Open}
<1>1. /\ rest' = [at |-> "answered", open |-> [o \in open |-> venue[o].state]]
      /\ UNCHANGED <<line, stopped, logged, subscribed, refused, up, down, orders, local_orderids, traded, venue, missed, stale>>
  BY DEF VenueQuery, linkVars, adapterVars, ghostVars
<1>2. rest'.at = "answered" /\ DOMAIN rest'.open = open /\ \A o \in open : rest'.open[o] = venue[o].state
  BY <1>1
<1>3. Types'
  <2>1. rest' = [at |-> rest'.at, open |-> rest'.open]
    BY <1>1, <1>2
  <2>2. DOMAIN rest'.open \subseteq Orders
    BY <1>2
  <2> HIDE DEF open
  <2> QED
    BY <1>1, <1>2, <2>1, <2>2 DEF SessionInv, Types
<1>4. ASSUME NEW o \in Orders PROVE OrderInv(o)'
  <2> USE DEF OrderInv, SessionInv
  <2>1. (Requested(o)' <=> Requested(o)) /\ (Reported(o)' <=> Reported(o)) /\ (Refused(o)' <=> Refused(o))
    BY <1>1 DEF Requested, Reported, Refused
  <2>2. VenueInv(o)'
    <3>1. "none" \notin Open
      BY DEF Open
    <3> QED
      BY <1>1, <1>2, <2>1, <3>1 DEF VenueInv
  <2>3. RequestInv(o)'
    BY <1>1, <2>1 DEF RequestInv
  <2>4. ReportInv(o)'
    BY <1>1, <2>1 DEF ReportInv
  <2>5. LotsInv(o)' /\ IdInv(o)'
    BY <1>1 DEF LotsInv, IdInv
  <2> QED
    BY <2>2, <2>3, <2>4, <2>5
<1>5. LineInv'
  BY <1>1 DEF SessionInv, LineInv, LoginInv, SubscribedInv, Reported
<1> QED
  BY <1>3, <1>4, <1>5 DEF SessionInv

\* Fills, cancels by hand or by the venue, orders placed by hand.
LEMMA MovesStep == ASSUME SessionInv, NEW o \in Orders, VenueMoves(o) PROVE SessionInv'
<1>1. UNCHANGED <<linkVars, up, adapterVars, rest>>
  BY DEF VenueMoves
<1>2. /\ \A x : SameRequests(x)
      /\ up' \in Seq(Messages) /\ LoginInv' /\ (line # "up" => up' = <<>>) /\ Once(o, up')
  BY <1>1, SameUnchanged DEF linkVars, SessionInv, Types, LineInv, LoginInv, OrderInv, RequestInv
<1>3. ~Requested(o)'
  <2>1. venue[o].state \in Open \/ o \in Manual
    BY DEF VenueMoves
  <2>2. CASE venue[o].state \in Open
    BY <1>2, <2>2 DEF SameRequests, SessionInv, OrderInv, RequestInv, Open
  <2>3. CASE o \in Manual
    <3>1. \A k \in DOMAIN up : up[k] \in Messages
      BY DEF SessionInv, Types
    <3>2. \A m \in Messages : m.op = "order" => m.o \in Own
      BY DEF Messages
    <3>3. ~Requested(o)
      BY <2>3, <3>1, <3>2, MentionsIndex, SessionAssumption DEF Requested
    <3> QED
      BY <1>2, <3>3 DEF SameRequests
  <2> QED
    BY <2>1, <2>2, <2>3
<1>4. PICK state \in VenueStates, fill \in 0 .. 1 : Rises(o, state, fill) /\ Report(o, state, fill, <<>>)
  <2>1. venue[o].lots \in Nat /\ Lots \in Nat \ {0}
    BY SessionAssumption DEF SessionInv, Types
  <2>2. CASE venue[o].state \in Open
    <3>1. venue[o].lots < Lots
      BY <2>2 DEF SessionInv, OrderInv, VenueInv
    <3>2. venue[o].state \in Open \cup {"none"}
      BY <2>2
    <3>3. Rises(o, IF venue[o].lots + 1 = Lots THEN "filled" ELSE "partially_filled", 1)
      <4>1. CASE venue[o].lots + 1 = Lots
        BY <2>1, <3>2, <4>1 DEF Rises, VenueStates, Open
      <4>2. CASE venue[o].lots + 1 # Lots
        BY <2>1, <3>1, <3>2, <4>2 DEF Rises, VenueStates, Open
      <4> QED
        BY <4>1, <4>2
    <3>4. Rises(o, "canceled", 0)
      BY <2>1, <3>1, <3>2 DEF Rises, VenueStates, Open
    <3>5. ~(venue[o].state = "none")
      BY <2>2 DEF Open
    <3>6. CASE Report(o, "canceled", 0, <<>>)
      BY <3>4, <3>6 DEF Rises
    <3>7. CASE Report(o, IF venue[o].lots + 1 = Lots THEN "filled" ELSE "partially_filled", 1, <<>>)
      BY <3>3, <3>7 DEF Rises
    <3> QED
      BY <3>5, <3>6, <3>7 DEF VenueMoves
  <2>3. CASE venue[o].state \notin Open
    <3>1. venue[o].state = "none" /\ Report(o, "live", 0, <<>>) /\ venue[o].lots = 0
      BY <2>3 DEF VenueMoves, SessionInv, OrderInv, VenueInv
    <3>2. Rises(o, "live", 0)
      BY <2>1, <3>1 DEF Rises, VenueStates, Open
    <3> QED
      BY <3>1, <3>2 DEF Rises
  <2> QED
    BY <2>2, <2>3
<1> QED
  BY <1>1, <1>2, <1>3, <1>4, ReportedSession

LEMMA VenueCancelStep == SessionInv /\ VenueCancel => SessionInv'
<1> SUFFICES ASSUME SessionInv, VenueCancel PROVE SessionInv'
  OBVIOUS
<1>1. /\ UNCHANGED <<linkVars, adapterVars, rest>>
      /\ line = "up" /\ up # <<>> /\ Head(up).op = "cancel-order" /\ up' = Tail(up)
  BY DEF VenueCancel, Reads
<1>2. up \in Seq(Messages) /\ LoginInv /\ up' \in Seq(Messages) /\ UNCHANGED <<line, stopped, logged, subscribed, refused>>
  BY <1>1 DEF SessionInv, Types, LineInv, linkVars
<1>3. \A x : SameRequests(x)
  BY <1>1, <1>2, RequestsOther DEF Requests
<1>4. LoginInv'
  BY <1>1, <1>2, LoginFrame
<1>5. PICK p \in Orders : p = Head(up).o
  <2>1. Head(up) \in Messages
    BY <1>1, <1>2
  <2> QED
    BY <1>1, <2>1 DEF Messages
<1>6. CASE venue[p].state \in Open /\ Report(p, "canceled", 0, <<>>)
  <2>1. Rises(p, "canceled", 0)
    <3>1. venue[p].lots \in Nat /\ venue[p].lots < Lots /\ Lots \in Nat
      BY <1>6, SessionAssumption DEF SessionInv, Types, OrderInv, VenueInv
    <3> QED
      BY <1>6, <3>1 DEF Rises, VenueStates, Open
  <2>2. ~Requested(p)' /\ Once(p, up')
    BY <1>3, <1>6 DEF SameRequests, SessionInv, OrderInv, RequestInv, Open
  <2> QED
    BY <1>1, <1>2, <1>3, <1>4, <1>6, <2>1, <2>2, ReportedSession
<1>7. CASE UNCHANGED <<down, venue, ghostVars>>
  <2>1. \A x \in Orders : SameReports(x) /\ SameOrder(x)
    BY <1>1, <1>7, SameUnchanged, SameOrderUnchanged
  <2>2. Types'
    BY <1>1, <1>2, <1>7 DEF SessionInv, Types, adapterVars, ghostVars
  <2>3. SubscribedInv'
    BY <1>2, <1>7 DEF SessionInv, LineInv, SubscribedInv, Reported
  <2> QED
    BY <1>3, <1>4, <2>1, <2>2, <2>3, AllFramed DEF SessionInv, LineInv
<1>8. \/ venue[p].state \in Open /\ Report(p, "canceled", 0, <<>>)
      \/ UNCHANGED <<down, venue, ghostVars>>
  BY <1>5 DEF VenueCancel
<1> QED
  BY <1>6, <1>7, <1>8

\* The venue takes an order, refuses it, or the request fails as a whole.
LEMMA VenueOrderStep == SessionInv /\ VenueOrder => SessionInv'
<1> SUFFICES ASSUME SessionInv, VenueOrder PROVE SessionInv'
  OBVIOUS
<1>1. /\ UNCHANGED <<linkVars, adapterVars, rest>>
      /\ line = "up" /\ up # <<>> /\ Head(up).op = "order" /\ up' = Tail(up)
  BY DEF VenueOrder, Reads
<1>2. /\ up \in Seq(Messages) /\ LoginInv /\ up' \in Seq(Messages) /\ down \in Seq(Pushes)
      /\ UNCHANGED <<line, stopped, logged, subscribed, refused, orders, local_orderids, traded, rest>>
  BY <1>1 DEF SessionInv, Types, LineInv, linkVars, adapterVars
<1>3. LoginInv'
  BY <1>1, <1>2, LoginFrame
<1>4. Head(up).o \in Own
  <2>1. Head(up) \in Messages
    BY <1>1, <1>2
  <2> QED
    BY <1>1, <2>1 DEF Messages
<1>5. PICK p \in Own : p = Head(up).o
  BY <1>4
<1>6. p \in Orders /\ OrderInv(p)
  BY DEF Orders, SessionInv
<1>7. /\ \A x \in Orders \ {p} : SameRequests(x)
      /\ Requested(p) /\ ~Requested(p)' /\ Once(p, up')
  <2>1. Requests(p, Head(up)) /\ \A x : x # p => ~Requests(x, Head(up))
    BY <1>1, <1>5 DEF Requests
  <2>2. Requested(p)
    BY <1>1, <1>2, <2>1, MentionsTail DEF Requests, Requested
  <2> QED
    BY <1>1, <1>2, <1>6, <2>1, <2>2, RequestsOther, OnceTail DEF OrderInv, RequestInv, Requested
<1>8. /\ venue[p] \in [state : VenueStates, lots : Nat] /\ venue[p].state = "none" /\ venue[p].lots = 0
      /\ p \notin DOMAIN rest.open /\ ~Reported(p) /\ ~Refused(p) /\ orders[p] \notin Finished
      /\ Lots \in Nat \ {0}
  BY <1>6, <1>7, SessionAssumption DEF OrderInv, VenueInv, RequestInv, ReportInv, SessionInv, Types, Ended
<1> DEFINE answer(code) == [op |-> "order", o |-> p, code |-> code]
<1>9. CASE Report(p, "live", 0, <<answer("accepted")>>)
  <2>1. Rises(p, "live", 0)
    BY <1>8 DEF Rises, VenueStates, Open
  <2> QED
    BY <1>1, <1>2, <1>3, <1>6, <1>7, <1>9, <2>1, ReportedSession
<1>10. ASSUME NEW code \in {"refused", "failed"},
              venue' = [venue EXCEPT ![p].state = "rejected"], down' = down \o <<answer(code)>>, missed' = missed,
              IF code = "refused" THEN stale' = stale ELSE stale' = stale \cup {p}
       PROVE  SessionInv'
  <2> DEFINE a == answer(code)
  <2>1. a \in Pushes /\ down' = Append(down, a) /\ (a = Refusal(p) <=> code = "refused")
    BY <1>2, <1>10 DEF Pushes, Refusal
  <2>2. \A x : ~Reports(x, a) /\ (x # p => a # Refusal(x))
    BY DEF Reports, Refusal
  <2> HIDE DEF a
  <2>3. venue' = [venue EXCEPT ![p] = [state |-> "rejected", lots |-> 0]]
    <3>1. [venue[p] EXCEPT !.state = "rejected"] = [state |-> "rejected", lots |-> 0]
      BY <1>8
    <3> QED
      BY <1>6, <1>10, <3>1 DEF SessionInv, Types
  <2>4. Types'
    <3>1. venue' \in [Orders -> [state : VenueStates, lots : Nat]]
      BY <2>3 DEF SessionInv, Types, VenueStates
    <3>2. down' \in Seq(Pushes) /\ stale' \subseteq Orders
      BY <1>2, <1>6, <1>10, <2>1 DEF SessionInv, Types
    <3> QED
      BY <1>1, <1>2, <1>10, <3>1, <3>2 DEF SessionInv, Types
  <2>5. \A x : SameView(x, down, down')
    BY <1>2, <2>1, <2>2, ViewAppend
  <2>6. ASSUME NEW x \in Orders \ {p} PROVE OrderInv(x)'
    <3>1. SameReports(x)
      BY <1>2, <2>1, <2>2, <2>6, ReportsOther
    <3>2. SameOrder(x)
      BY <1>2, <1>10, <2>3, <2>6 DEF SameOrder, SessionInv, Types
    <3> QED
      BY <1>7, <2>6, <3>1, <3>2, OrderFrame DEF SessionInv
  <2>7. LineInv'
    BY <1>2, <1>3, <2>5 DEF SessionInv, LineInv, SubscribedInv, SameView, Reported
  <2>8. OrderInv(p)'
    <3> USE DEF OrderInv
    <3>1. venue'[p] = [state |-> "rejected", lots |-> 0]
      BY <1>6, <2>3 DEF SessionInv, Types
    <3>2. ~Reported(p)' /\ (Refused(p)' <=> code = "refused")
      BY <1>2, <1>8, <2>1, <2>5, InFlightAppend DEF Reported, Refused, SameView
    <3>3. VenueInv(p)' /\ RequestInv(p)'
      BY <1>2, <1>6, <1>7, <1>8, <3>1, <3>2 DEF VenueInv, RequestInv, Open
    <3>4. ReportInv(p)'
      <4>1. Chronicle(p, down', "rejected")
        BY <3>2, ChronicleNothing DEF Reported
      <4>2. Refused(p)' \/ p \in stale'
        BY <1>10, <3>2
      <4> QED
        BY <1>2, <1>8, <3>1, <3>2, <4>1, <4>2 DEF ReportInv, Ended
    <3>5. LotsInv(p)'
      <4>1. LotsIn(p, down') = LotsIn(p, down)
        BY <2>5 DEF SameView
      <4> QED
        BY <1>2, <1>6, <1>8, <1>10, <3>1, <4>1 DEF LotsInv
    <3>6. IdInv(p)'
      BY <1>2, <1>6 DEF IdInv
    <3> QED
      BY <3>3, <3>4, <3>5, <3>6
  <2> QED
    BY <2>4, <2>6, <2>7, <2>8 DEF SessionInv
<1>11. \/ Report(p, "live", 0, <<answer("accepted")>>)
       \/ \E code \in {"refused", "failed"} :
            /\ venue' = [venue EXCEPT ![p].state = "rejected"] /\ down' = down \o <<answer(code)>> /\ missed' = missed
            /\ IF code = "refused" THEN stale' = stale ELSE stale' = stale \cup {p}
  BY <1>5 DEF VenueOrder, ghostVars
<1> QED
  BY <1>9, <1>10, <1>11
-------------------------------------------------------------------------------
LEMMA SessionInit == Init => SessionInv
<1> SUFFICES ASSUME Init PROVE SessionInv
  OBVIOUS
<1> USE DEF Init, Link!Init
<1>1. Types
  <2>1. venue \in [Orders -> [state : VenueStates, lots : Nat]]
    BY DEF VenueStates, Open
  <2>2. orders \in [Orders -> Status \cup {None}] /\ traded \in [Orders -> Nat] /\ missed \in [Orders -> Nat]
    OBVIOUS
  <2>3. rest = [at |-> rest.at, open |-> rest.open] /\ rest.at = "asked" /\ DOMAIN rest.open \subseteq Orders
    BY DEF NothingOpen
  <2>4. up \in Seq(Messages) /\ down \in Seq(Pushes)
    OBVIOUS
  <2> QED
    BY <2>1, <2>2, <2>3, <2>4 DEF Types, Link!Lines
<1>2. ASSUME NEW o \in Orders PROVE OrderInv(o) /\ ~Reported(o)
  <2>1. ~Requested(o) /\ ~Reported(o) /\ ~Refused(o)
    BY MentionsNothing DEF Requested, Reported, Refused, InFlight
  <2>2. VenueInv(o)
    BY <2>1, SessionAssumption DEF VenueInv, NothingOpen, Open
  <2>3. RequestInv(o)
    BY <2>1 DEF RequestInv, Once
  <2>4. ReportInv(o)
    <3>1. Chronicle(o, down, venue[o].state)
      BY <2>1, ChronicleNothing DEF Reported
    <3>2. orders[o] \notin Finished
      BY NoneAssumption DEF Status
    <3>3. o \in stale \/ Agree(orders[o], venue[o].state)
      BY DEF Agree, Open
    <3> QED
      BY <2>1, <3>1, <3>2, <3>3 DEF ReportInv
  <2>5. LotsInv(o)
    BY LotsNothing DEF LotsInv
  <2>6. IdInv(o)
    BY NoneAssumption DEF IdInv, Status, Finished
  <2> QED
    BY <2>1, <2>2, <2>3, <2>4, <2>5, <2>6 DEF OrderInv
<1>3. LineInv
  BY <1>2 DEF LineInv, LoginInv, SubscribedInv
<1> QED
  BY <1>1, <1>2, <1>3 DEF SessionInv

LEMMA SessionStep == SessionInv /\ [Next]_vars => SessionInv'
<1> SUFFICES ASSUME SessionInv, [Next]_vars PROVE SessionInv'
  OBVIOUS
<1>1. CASE UNCHANGED vars
  <2>1. /\ UNCHANGED <<line, stopped, logged, subscribed, refused, up, down>>
        /\ UNCHANGED <<adapterVars, rest, venue, ghostVars>>
    BY <1>1 DEF vars, linkVars
  <2>2. \A o \in Orders : SameRequests(o) /\ SameReports(o) /\ SameOrder(o)
    BY <2>1, SameUnchanged, SameOrderUnchanged
  <2>3. Types' /\ LineInv'
    BY <2>1 DEF SessionInv, Types, LineInv, LoginInv, SubscribedInv, Reported, adapterVars, ghostVars
  <2> QED
    BY <2>2, <2>3, AllFramed DEF SessionInv
<1>2. CASE OnConnected \/ Retry \/ OnDisconnected \/ Close
  BY <1>2, ConnectedStep, RetryStep, DisconnectedStep, CloseStep
<1>3. ASSUME NEW o \in Orders, SendOrder(o) \/ CancelOrder(o) \/ VenueMoves(o) PROVE SessionInv'
  BY <1>3, SendStep, CancelStep, MovesStep
<1>4. CASE Handler
  BY <1>4, LoginStep, OrderStep, SendOrderStep DEF Handler
<1>5. CASE OnQueryOrder \/ QueryFails
  BY <1>5, QueryStep, QueryFailsStep
<1>6. CASE VenueReads \/ VenueQuery
  BY <1>6, VenueLoginStep, SubscribeStep, VenueOrderStep, VenueCancelStep, VenueQueryStep DEF VenueReads
<1> QED
  BY <1>1, <1>2, <1>3, <1>4, <1>5, <1>6 DEF Next

\* What is known of every order, its status, its lots and its id, is explained.
LEMMA SessionExplained == SessionInv => PictureExplained
<1> SUFFICES ASSUME SessionInv PROVE PictureExplained
  OBVIOUS
<1> USE DEF SessionInv, OrderInv
<1>1. TypeOK
  <2>1. ASSUME NEW o \in Orders PROVE venue[o].lots \in 0 .. Lots /\ traded[o] \in 0 .. Lots /\ missed[o] \in 0 .. Lots
    <3>1. venue[o].lots \in Nat /\ traded[o] \in Nat /\ missed[o] \in Nat /\ LotsIn(o, down) \in Nat
      BY LotsType DEF Types
    <3>2. venue[o].lots <= Lots /\ traded[o] + LotsIn(o, down) + missed[o] = venue[o].lots
      BY DEF VenueInv, LotsInv
    <3> QED
      BY <3>1, <3>2, SessionAssumption
  <2>2. venue \in [Orders -> [state : VenueStates, lots : 0 .. Lots]]
    BY <2>1 DEF Types
  <2>3. traded \in [Orders -> 0 .. Lots] /\ missed \in [Orders -> 0 .. Lots]
    BY <2>1 DEF Types
  <2>4. Range(up) \subseteq Messages /\ Range(down) \subseteq Pushes
    BY DEF Types, Range
  <2> QED
    BY <2>2, <2>3, <2>4 DEF Types, TypeOK
<1>2. DriftExplained
  <2>1. ASSUME NEW o \in Orders PROVE (Requested(o) => About(o, up)) /\ (Reported(o) \/ Refused(o) => About(o, down))
    BY MentionsIndex DEF Requested, Reported, Refused, InFlight, Refusal, About
  <2> QED
    BY <2>1 DEF DriftExplained, ReportInv
<1>3. LotsAccounted /\ ReportedIdsKnown
  BY DEF LotsAccounted, ReportedIdsKnown, LotsInv, IdInv
<1> QED
  BY <1>1, <1>2, <1>3 DEF PictureExplained

LEMMA SessionInvariant == Spec => []SessionInv
BY SessionInit, SessionStep, PTL DEF Spec

\* What the engines know of an order of OKX, its status, its lots and its id, is wrong only
\* while a message about it is in flight or after the losses and failures that
\* PictureExplained names.
THEOREM OkxPictureExplained == Spec => []PictureExplained
BY SessionInvariant, SessionExplained, PTL

\* No order of OKX that is finished comes back to life, whatever is lost or late, unless the
\* answer to the query of the open orders arrives behind newer reports.
THEOREM OkxFinishedStays == Spec => FinishedStays
<1>1. ASSUME SessionInv, [Next]_vars, NEW o \in Orders, orders[o] \in Finished, orders'[o] \notin Finished
      PROVE  rest.at = "answered" /\ rest'.at = "done"
  <2>1. orders \in [Orders -> Status \cup {None}] /\ orders[o] # None
    BY <1>1, NoneAssumption DEF SessionInv, Types, Status
  <2>2. orders' # orders
    BY <1>1
  <2>3. ASSUME NEW p \in Orders, SendOrder(p) PROVE FALSE
    BY <1>1, <2>1, <2>3 DEF SendOrder
  <2>4. ASSUME OnOrder PROVE FALSE
    <3>1. down \in Seq(Pushes) /\ down # <<>> /\ Head(down).op = "orders"
      BY <1>1, <2>4 DEF SessionInv, Types, OnOrder, Received
    <3>2. Head(down).o # o
      BY <1>1, <3>1, MentionsTail DEF SessionInv, OrderInv, ReportInv, Reported
    <3> QED
      BY <1>1, <2>1, <2>4, <3>2 DEF OnOrder, Message
  <2>5. ASSUME OnSendOrder PROVE FALSE
    BY <1>1, <2>1, <2>5 DEF OnSendOrder, Answered, Finished
  <2>6. CASE OnQueryOrder
    BY <2>6 DEF OnQueryOrder
  <2>7. OnOrder \/ OnSendOrder \/ OnQueryOrder \/ \E p \in Orders : SendOrder(p)
    BY <1>1, <2>2 DEF Next, vars, adapterVars, Handler, VenueReads, OnConnected, Retry, OnDisconnected, Close, Lose,
                      CancelOrder, VenueMoves, OnLogin, QueryFails, VenueLogin, VenueSubscribe, VenueOrder,
                      VenueCancel, VenueQuery
  <2> QED
    BY <2>3, <2>4, <2>5, <2>6, <2>7
<1>2. SessionInv /\ [Next]_vars =>
        [\A o \in Orders : orders[o] \in Finished /\ orders'[o] \notin Finished
                            => rest.at = "answered" /\ rest'.at = "done"]_vars
  BY <1>1
<1> QED
  BY <1>2, SessionInvariant, PTL DEF Spec, FinishedStays
-------------------------------------------------------------------------------
(* The two lines of Binance, for any orders: those of OkxSession are any set  *)
(* that does not hold None.  Variables of the same name stand for each other. *)

VARIABLES tline, tstopped, uline, ustopped, asking, failed, valid, undefined, answers, reports

Binance == INSTANCE BinanceSession

\* The operators of OrderReports mean the same in both sessions.
LEMMA SameWords ==
  /\ \A o, q, ops : Binance!Mentions(o, q, ops) <=> Mentions(o, q, ops)
  /\ \A o, q : Binance!LotsIn(o, q) = LotsIn(o, q)
  /\ Binance!Open = Open /\ Binance!VenueStates = VenueStates
  /\ Binance!Finished = Finished /\ Binance!Status = Status
  /\ \A s : Binance!StatusOf(s) = StatusOf(s)
<1>1. \A o, q, ops : Binance!Mentions(o, q, ops) <=> Mentions(o, q, ops)
  BY DEF Mentions, Binance!Mentions, Range, Binance!Range
<1>2. \A S : Binance!Cardinality(S) = Cardinality(S)
  BY DEF Cardinality, Binance!Cardinality
<1>3. \A o, q : Binance!LotsIn(o, q) = LotsIn(o, q)
  BY <1>2 DEF LotsIn, Binance!LotsIn, Fills, Binance!Fills
<1>4. Binance!Open = Open /\ Binance!VenueStates = VenueStates
  BY DEF Open, Binance!Open, VenueStates, Binance!VenueStates
<1>5. Binance!Finished = Finished /\ Binance!Status = Status
  BY DEF Finished, Binance!Finished, Status, Binance!Status
<1>6. \A s : Binance!StatusOf(s) = StatusOf(s)
  BY DEF StatusOf, Binance!StatusOf
<1> QED
  BY <1>1, <1>3, <1>4, <1>5, <1>6

Rejection(o) == [op |-> "order", o |-> o, error |-> TRUE]

Pending(o) == Mentions(o, reports, {"orders"})
Denied(o) == InFlight(Rejection(o), answers)
Expiring == \E k \in DOMAIN reports : reports[k].op = "listenKeyExpired"

BinanceRequests == [op : {"order", "cancel"}, o : Orders]
BinanceAnswers == [op : {"order"}, o : Orders, error : BOOLEAN]
BinanceReports ==
  [op : {"orders"}, o : Orders, state : VenueStates, fill : 0 .. 1]
  \cup [op : {"listenKeyExpired"}, o : {None}, fill : {0}]

\* What is kept is of its type; lots and requests of a key are not bounded here.
BinanceTypes ==
  /\ {tline, uline} \subseteq Binance!Trade!Lines
  /\ {tstopped, ustopped, failed, valid, undefined} \subseteq BOOLEAN
  /\ asking \in Nat /\ drops \in Nat
  /\ tline # "up" => up = <<>> /\ answers = <<>>
  /\ uline # "up" => reports = <<>>
  /\ up \in Seq(BinanceRequests) /\ answers \in Seq(BinanceAnswers) /\ reports \in Seq(BinanceReports)
  /\ orders \in [Orders -> Status \cup {None}]
  /\ rest = [at |-> rest.at, open |-> rest.open]
  /\ rest.at \in {"asked", "answered", "done"} /\ DOMAIN rest.open \subseteq Orders
  /\ venue \in [Orders -> [state : VenueStates, lots : Nat]]
  /\ traded \in [Orders -> Nat] /\ missed \in [Orders -> Nat]
  /\ stale \subseteq Orders

\* A key is asked for at the start, and again when the user line has dropped or closed: it drops
\* at most MaxDrops times, keys that expire included, and is closed once.  One expiry at
\* most is on its way, and only once the key is not accepted any more.
KeyInv ==
  /\ valid => ~Expiring
  /\ drops <= MaxDrops
  /\ asking + (IF uline = "closing" \/ Expiring THEN 1 ELSE 0) <= 1 + drops + (IF tstopped THEN 1 ELSE 0)

BinanceVenueInv(o) ==
  /\ venue[o].state = "none" => venue[o].lots = 0 /\ o \notin DOMAIN rest.open /\ ~Pending(o)
  /\ venue[o].state \in Open => venue[o].lots < Lots
  /\ venue[o].lots <= Lots
  /\ o \in DOMAIN rest.open => rest.open[o] \in Open

BinanceRequestInv(o) ==
  /\ Requested(o) => venue[o].state = "none" /\ orders[o] # None
  /\ Once(o, up)
  /\ Denied(o) => venue[o].state = "rejected"

\* The reports on their way are in order.  They end with the venue's state, or with one of an
\* open order whose latest report was not sent: unlike those of OKX, reports may still come when
\* that is known, as an answer is lost with another line than they are.
BinanceReportInv(o) ==
  /\ \E s \in VenueStates : Chronicle(o, reports, s) /\ (s = venue[o].state \/ (o \in stale /\ s \in Open))
  /\ venue[o].state = "rejected" \/ orders[o] \in Finished => ~Pending(o)
  /\ orders[o] \in Finished => venue[o].state \in Ended
  /\ Requested(o) \/ Pending(o) \/ Denied(o) \/ o \in stale \/ Agree(orders[o], venue[o].state)

BinanceLotsInv(o) == traded[o] + LotsIn(o, reports) + missed[o] = venue[o].lots

BinanceOrderInv(o) == BinanceVenueInv(o) /\ BinanceRequestInv(o) /\ BinanceReportInv(o) /\ BinanceLotsInv(o)

BinanceInv == BinanceTypes /\ KeyInv /\ \A o \in Orders : BinanceOrderInv(o)
-------------------------------------------------------------------------------
\* What the reports and answers in flight say of an order is as it was.
SamePending(o) == SameView(o, reports, reports')
SameAnswers(o) == Denied(o)' <=> Denied(o)

\* What is known of an order is as it was.
SameBinanceOrder(o) ==
  /\ orders'[o] = orders[o] /\ venue'[o] = venue[o]
  /\ traded'[o] = traded[o] /\ missed'[o] = missed[o]
  /\ o \in stale' <=> o \in stale
  /\ o \in DOMAIN rest'.open => o \in DOMAIN rest.open /\ rest'.open[o] = rest.open[o]

LEMMA BinanceFrame ==
  ASSUME NEW o \in Orders, BinanceOrderInv(o), SameRequests(o), SamePending(o), SameAnswers(o), SameBinanceOrder(o)
  PROVE  BinanceOrderInv(o)'
<1> USE DEF SameRequests, SamePending, SameAnswers, SameView, SameBinanceOrder, BinanceOrderInv, Pending
<1>1. BinanceVenueInv(o)'
  BY DEF BinanceVenueInv
<1>2. BinanceRequestInv(o)'
  BY DEF BinanceRequestInv
<1>3. BinanceReportInv(o)'
  BY DEF BinanceReportInv, Agree
<1>4. BinanceLotsInv(o)'
  BY DEF BinanceLotsInv
<1> QED
  BY <1>1, <1>2, <1>3, <1>4

LEMMA SameLines ==
  /\ up' = up => \A o : SameRequests(o)
  /\ answers' = answers => \A o : SameAnswers(o)
  /\ reports' = reports => \A o : SamePending(o)
BY SameUnchanged, ViewSame DEF SameAnswers, SamePending, Denied

LEMMA AnswersOther ==
  ASSUME answers \in Seq(BinanceAnswers), NEW o,
         \/ \E m \in BinanceAnswers : answers' = Append(answers, m) /\ m # Rejection(o)
         \/ answers # <<>> /\ answers' = Tail(answers) /\ Head(answers) # Rejection(o)
  PROVE  SameAnswers(o)
<1>1. ASSUME NEW m \in BinanceAnswers, answers' = Append(answers, m), m # Rejection(o) PROVE SameAnswers(o)
  BY <1>1, InFlightAppend DEF SameAnswers, Denied
<1>2. ASSUME answers # <<>>, answers' = Tail(answers), Head(answers) # Rejection(o) PROVE SameAnswers(o)
  BY <1>2, InFlightTail DEF SameAnswers, Denied
<1> QED
  BY <1>1, <1>2

LEMMA PendingOther ==
  ASSUME reports \in Seq(BinanceReports), NEW o,
         \/ \E m \in BinanceReports : reports' = Append(reports, m) /\ ~Reports(o, m)
         \/ reports # <<>> /\ reports' = Tail(reports) /\ ~Reports(o, Head(reports))
  PROVE  SamePending(o)
BY ViewAppend, ViewTail DEF SamePending

\* What is in flight on a line is as it was, or lost: the orders it was about are stale.
LEMMA LostOrder ==
  ASSUME BinanceTypes, NEW o \in Orders, BinanceOrderInv(o), UNCHANGED <<orders, venue, traded, rest>>,
         o \in stale => o \in stale',
         \/ up' = up /\ answers' = answers
         \/ up' = <<>> /\ answers' = <<>> /\ (Requested(o) \/ Denied(o) => o \in stale'),
         \/ reports' = reports /\ missed'[o] = missed[o]
         \/ reports' = <<>> /\ missed'[o] = missed[o] + LotsIn(o, reports) /\ (Pending(o) => o \in stale')
  PROVE  BinanceOrderInv(o)'
<1> USE DEF BinanceOrderInv
<1>1. /\ Requested(o)' => Requested(o)
      /\ Once(o, up')
      /\ Denied(o)' => Denied(o)
      /\ Requested(o) \/ Denied(o) => Requested(o)' \/ Denied(o)' \/ o \in stale'
  <2>1. CASE up' = up /\ answers' = answers
    BY <2>1 DEF BinanceRequestInv, Requested, Denied
  <2>2. CASE up' = <<>> /\ answers' = <<>> /\ (Requested(o) \/ Denied(o) => o \in stale')
    <3>1. ~Requested(o)' /\ ~Denied(o)' /\ Once(o, up')
      BY <2>2, MentionsNothing DEF Requested, Denied, InFlight, Once
    <3> QED
      BY <2>2, <3>1
  <2> QED
    BY <2>1, <2>2
<1>2. /\ Pending(o)' => Pending(o)
      /\ Pending(o) => Pending(o)' \/ o \in stale'
      /\ \A s : Chronicle(o, reports, s) => Chronicle(o, reports', s)
      /\ LotsIn(o, reports') + missed'[o] = LotsIn(o, reports) + missed[o]
  <2>1. CASE reports' = reports /\ missed'[o] = missed[o]
    BY <2>1 DEF Pending
  <2>2. CASE reports' = <<>> /\ missed'[o] = missed[o] + LotsIn(o, reports) /\ (Pending(o) => o \in stale')
    <3>1. ~Pending(o)'
      BY <2>2, MentionsNothing DEF Pending
    <3>2. \A s : Chronicle(o, reports', s)
      BY <3>1, ChronicleNothing DEF Pending
    <3>3. LotsIn(o, reports') = 0 /\ LotsIn(o, reports) \in Nat /\ missed[o] \in Nat
      BY <2>2, LotsNothing, LotsType DEF BinanceTypes
    <3> QED
      BY <2>2, <3>1, <3>2, <3>3
  <2> QED
    BY <2>1, <2>2
<1>3. BinanceVenueInv(o)'
  BY <1>2 DEF BinanceVenueInv
<1>4. BinanceRequestInv(o)'
  BY <1>1 DEF BinanceRequestInv
<1>5. BinanceReportInv(o)'
  BY <1>1, <1>2 DEF BinanceReportInv
<1>6. BinanceLotsInv(o)'
  <2>1. traded[o] \in Nat /\ missed[o] \in Nat /\ LotsIn(o, reports) \in Nat
    BY LotsType DEF BinanceTypes
  <2>2. traded[o] + (LotsIn(o, reports) + missed[o]) = venue[o].lots
    BY <2>1 DEF BinanceLotsInv
  <2>3. LotsIn(o, reports') \in Nat /\ missed'[o] \in Nat
    <3>1. CASE reports' = reports
      BY <2>1, <3>1, <1>2
    <3>2. CASE reports' = <<>>
      BY <2>1, <3>2, <1>2, LotsNothing
    <3> QED
      BY <3>1, <3>2
  <2>4. traded[o] + LotsIn(o, reports') + missed'[o] = venue[o].lots
    BY <1>2, <2>1, <2>2, <2>3
  <2> QED
    BY <2>4 DEF BinanceLotsInv
<1> QED
  BY <1>3, <1>4, <1>5, <1>6
-------------------------------------------------------------------------------
\* A step of the lines alone: what is in flight on each stays or is lost.
LEMMA LostSession ==
  ASSUME BinanceInv, KeyInv', {tline', uline'} \subseteq Binance!Trade!Lines,
         {tstopped', ustopped', failed', valid', undefined'} \subseteq BOOLEAN, asking' \in Nat, drops' \in Nat,
         UNCHANGED <<orders, traded, rest, venue>>,
         \/ UNCHANGED <<up, answers>> /\ (tline' # "up" => tline # "up") /\ stale \subseteq stale'
         \/ /\ up' = <<>> /\ answers' = <<>>
            /\ stale \cup {o \in Orders : Mentions(o, up, {"order"}) \/ Mentions(o, answers, {"order"})} \subseteq stale',
         \/ UNCHANGED <<reports, missed>> /\ (uline' # "up" => uline # "up")
         \/ /\ reports' = <<>> /\ missed' = [o \in Orders |-> missed[o] + LotsIn(o, reports)]
            /\ {o \in Orders : Mentions(o, reports, {"orders"})} \subseteq stale',
         stale' \subseteq Orders
  PROVE  BinanceInv'
<1> USE DEF BinanceInv
<1>1. stale \subseteq stale'
  OBVIOUS
<1>2. BinanceTypes'
  <2>1. missed' \in [Orders -> Nat]
    <3>1. \A o \in Orders : missed[o] \in Nat /\ LotsIn(o, reports) \in Nat
      BY LotsType DEF BinanceTypes
    <3>2. \A o \in Orders : missed[o] + LotsIn(o, reports) \in Nat
      BY <3>1
    <3>3. CASE UNCHANGED <<reports, missed>>
      BY <3>3 DEF BinanceTypes
    <3>4. CASE missed' = [o \in Orders |-> missed[o] + LotsIn(o, reports)]
      BY <3>2, <3>4
    <3> QED
      BY <3>3, <3>4
  <2>2. /\ up' \in Seq(BinanceRequests) /\ answers' \in Seq(BinanceAnswers)
        /\ tline' # "up" => up' = <<>> /\ answers' = <<>>
    <3>1. CASE UNCHANGED <<up, answers>> /\ (tline' # "up" => tline # "up")
      <4>1. up' = up /\ answers' = answers
        BY <3>1
      <4> QED
        BY <3>1, <4>1 DEF BinanceTypes
    <3>2. CASE up' = <<>> /\ answers' = <<>>
      BY <3>2
    <3> QED
      BY <3>1, <3>2
  <2>3. reports' \in Seq(BinanceReports) /\ (uline' # "up" => reports' = <<>>)
    <3>1. CASE reports' = reports /\ (uline' # "up" => uline # "up")
      BY <3>1 DEF BinanceTypes
    <3>2. CASE reports' = <<>>
      BY <3>2
    <3> QED
      BY <3>1, <3>2
  <2> QED
    BY <2>1, <2>2, <2>3 DEF BinanceTypes
<1>3. ASSUME NEW o \in Orders PROVE BinanceOrderInv(o)'
  <2>1. \/ up' = up /\ answers' = answers
        \/ up' = <<>> /\ answers' = <<>> /\ (Requested(o) \/ Denied(o) => o \in stale')
    <3>1. Requested(o) => Mentions(o, up, {"order"})
      BY DEF Requested
    <3>2. Denied(o) => Mentions(o, answers, {"order"})
      BY MentionsIndex DEF Denied, InFlight, Rejection
    <3> QED
      BY <3>1, <3>2
  <2>2. \/ reports' = reports /\ missed'[o] = missed[o]
        \/ reports' = <<>> /\ missed'[o] = missed[o] + LotsIn(o, reports) /\ (Pending(o) => o \in stale')
    BY DEF Pending
  <2> QED
    BY <1>1, <2>1, <2>2, LostOrder
<1> QED
  BY <1>2, <1>3

LEMMA BinanceRetryStep == BinanceInv /\ Binance!Retry => BinanceInv'
<1> SUFFICES ASSUME BinanceInv, Binance!Retry PROVE BinanceInv'
  OBVIOUS
<1>1. /\ UNCHANGED <<up, answers, asking, failed, valid, undefined, reports, orders, traded, rest, venue, missed, stale, drops>>
      /\ UNCHANGED <<tstopped, ustopped>>
      /\ \/ tline \in {"down", "opening"} /\ tline' \in {"opening", "up", "down"} /\ uline' = uline
         \/ uline \in {"down", "opening"} /\ uline' \in {"opening", "up", "down"} /\ tline' = tline
  BY DEF Binance!Retry, Binance!keyVars, Binance!orderVars, Binance!venueVars, Binance!Trade!Attempt, Binance!Trade!Open,
         Binance!Trade!Fail, Binance!User!Attempt, Binance!User!Open, Binance!User!Fail, Binance!Trade!Move, Binance!User!Move
<1>2. KeyInv'
  BY <1>1 DEF BinanceInv, KeyInv, Expiring
<1>3. {tline', uline'} \subseteq Binance!Trade!Lines /\ stale' \subseteq Orders
  BY <1>1 DEF BinanceInv, BinanceTypes, Binance!Trade!Lines
<1> QED
  BY <1>1, <1>2, <1>3, LostSession DEF BinanceInv, BinanceTypes

LEMMA TradeDisconnectedStep == BinanceInv /\ Binance!OnTradeDisconnected => BinanceInv'
<1> SUFFICES ASSUME BinanceInv, Binance!OnTradeDisconnected PROVE BinanceInv'
  OBVIOUS
<1>1. /\ UNCHANGED <<asking, failed, valid, undefined, uline, ustopped, reports, orders, traded, rest, venue, missed>>
      /\ tline' = "down" /\ tstopped' = tstopped /\ up' = <<>> /\ answers' = <<>>
      /\ stale' = stale \cup {o \in Orders : Mentions(o, up, {"order"}) \/ Mentions(o, answers, {"order"})}
      /\ drops' = drops \/ (drops < MaxDrops /\ drops' = drops + 1)
  BY SameWords DEF Binance!OnTradeDisconnected, Binance!LoseTrade, Binance!Trade!Drop, Binance!Trade!Move, Binance!keyVars,
         Binance!userVars, Binance!orderVars
<1>2. MaxDrops \in Nat /\ drops \in Nat /\ asking \in Nat
  BY SessionAssumption DEF BinanceInv, BinanceTypes
<1>3. KeyInv'
  BY <1>1, <1>2 DEF BinanceInv, KeyInv, Expiring
<1>4. {tline', uline'} \subseteq Binance!Trade!Lines /\ stale' \subseteq Orders /\ drops' \in Nat
  BY <1>1, <1>2 DEF BinanceInv, BinanceTypes, Binance!Trade!Lines
<1> QED
  BY <1>1, <1>3, <1>4, LostSession DEF BinanceInv, BinanceTypes

LEMMA UserDisconnectedStep == BinanceInv /\ Binance!OnUserDisconnected => BinanceInv'
<1> SUFFICES ASSUME BinanceInv, Binance!OnUserDisconnected PROVE BinanceInv'
  OBVIOUS
<1>1. /\ UNCHANGED <<valid, undefined, tline, tstopped, up, answers, ustopped, orders, traded, rest, venue>>
      /\ uline' = "down" /\ reports' = <<>> /\ asking' = asking + 1 /\ failed' = FALSE
      /\ stale' = stale \cup {o \in Orders : Mentions(o, reports, {"orders"})}
      /\ missed' = [o \in Orders |-> missed[o] + LotsIn(o, reports)]
      /\ \/ uline = "closing" /\ drops' = drops
         \/ drops < MaxDrops /\ drops' = drops + 1
  BY SameWords DEF Binance!OnUserDisconnected, Binance!LoseReports, Binance!User!Drop, Binance!User!Move, Binance!tradeVars,
         Binance!orderVars
<1>2. MaxDrops \in Nat /\ drops \in Nat /\ asking \in Nat
  BY SessionAssumption DEF BinanceInv, BinanceTypes
<1>3. KeyInv'
  <2>1. ~Expiring' /\ uline' # "closing"
    BY <1>1 DEF Expiring
  <2> QED
    BY <1>1, <1>2, <2>1 DEF BinanceInv, KeyInv
<1>4. {tline', uline'} \subseteq Binance!Trade!Lines /\ stale' \subseteq Orders /\ drops' \in Nat /\ asking' \in Nat
  BY <1>1, <1>2 DEF BinanceInv, BinanceTypes, Binance!Trade!Lines
<1> QED
  BY <1>1, <1>3, <1>4, LostSession DEF BinanceInv, BinanceTypes

LEMMA StreamStep == BinanceInv /\ Binance!OnStartUserStream => BinanceInv'
<1> SUFFICES ASSUME BinanceInv, Binance!OnStartUserStream PROVE BinanceInv'
  OBVIOUS
<1>1. /\ UNCHANGED <<tline, tstopped, up, answers, orders, traded, rest, venue, drops>>
      /\ uline' = "opening" /\ ustopped' = FALSE /\ reports' = <<>> /\ asking > 0 /\ asking' = asking - 1
      /\ failed' = FALSE /\ valid' = TRUE
      /\ stale' = stale \cup {o \in Orders : Mentions(o, reports, {"orders"})}
      /\ missed' = [o \in Orders |-> missed[o] + LotsIn(o, reports)]
  BY SameWords DEF Binance!OnStartUserStream, Binance!LoseReports, Binance!tradeVars, Binance!orderVars
<1>2. undefined' \in BOOLEAN
  <2>1. ustopped \in BOOLEAN
    BY DEF BinanceInv, BinanceTypes
  <2> QED
    BY <2>1 DEF Binance!OnStartUserStream
<1>3. drops \in Nat /\ asking \in Nat
  BY DEF BinanceInv, BinanceTypes
<1>4. KeyInv'
  <2>1. ~Expiring' /\ uline' # "closing"
    BY <1>1 DEF Expiring
  <2> QED
    BY <1>1, <1>3, <2>1 DEF BinanceInv, KeyInv
<1>5. {tline', uline'} \subseteq Binance!Trade!Lines /\ stale' \subseteq Orders /\ asking' \in Nat
  BY <1>1, <1>3 DEF BinanceInv, BinanceTypes, Binance!Trade!Lines
<1> QED
  BY <1>1, <1>2, <1>4, <1>5, LostSession DEF BinanceInv, BinanceTypes

LEMMA StreamFailsStep == BinanceInv /\ Binance!StartUserStreamFails => BinanceInv'
<1> SUFFICES ASSUME BinanceInv, Binance!StartUserStreamFails PROVE BinanceInv'
  OBVIOUS
<1>1. /\ UNCHANGED <<tline, tstopped, up, answers, uline, ustopped, reports, valid, undefined, orders, traded, rest, venue, missed, stale, drops>>
      /\ asking > 0 /\ asking' = asking - 1 /\ failed' = TRUE
  BY DEF Binance!StartUserStreamFails, Binance!tradeVars, Binance!userVars, Binance!orderVars, Binance!venueVars
<1>2. drops \in Nat /\ asking \in Nat
  BY DEF BinanceInv, BinanceTypes
<1>3. KeyInv' /\ asking' \in Nat
  BY <1>1, <1>2 DEF BinanceInv, KeyInv, Expiring
<1> QED
  BY <1>1, <1>3, LostSession DEF BinanceInv, BinanceTypes

LEMMA KeyExpiredStep == BinanceInv /\ Binance!OnListenKeyExpired => BinanceInv'
<1> SUFFICES ASSUME BinanceInv, Binance!OnListenKeyExpired PROVE BinanceInv'
  OBVIOUS
<1>1. /\ UNCHANGED <<tline, tstopped, up, answers, asking, failed, valid, undefined, orders, traded, rest, venue, drops>>
      /\ uline = "up" /\ uline' = "closing" /\ ustopped' = TRUE /\ reports' = <<>>
      /\ reports # <<>> /\ Head(reports).op = "listenKeyExpired"
      /\ stale' = stale \cup {o \in Orders : Mentions(o, reports, {"orders"})}
      /\ missed' = [o \in Orders |-> missed[o] + LotsIn(o, reports)]
  BY SameWords DEF Binance!OnListenKeyExpired, Binance!LoseReports, Binance!User!Stop, Binance!tradeVars, Binance!keyVars,
         Binance!orderVars
<1>2. Expiring
  <2>1. reports \in Seq(BinanceReports)
    BY DEF BinanceInv, BinanceTypes
  <2>2. 1 \in DOMAIN reports /\ reports[1] = Head(reports)
    BY <1>1, <2>1
  <2> QED
    BY <1>1, <2>2 DEF Expiring
<1>3. KeyInv'
  <2>1. ~Expiring'
    BY <1>1 DEF Expiring
  <2> QED
    BY <1>1, <1>2, <2>1 DEF BinanceInv, KeyInv
<1>4. {tline', uline'} \subseteq Binance!Trade!Lines /\ stale' \subseteq Orders
  BY <1>1 DEF BinanceInv, BinanceTypes, Binance!Trade!Lines
<1> QED
  BY <1>1, <1>3, <1>4, LostSession DEF BinanceInv, BinanceTypes

LEMMA BinanceCloseStep == BinanceInv /\ Binance!Close => BinanceInv'
<1> SUFFICES ASSUME BinanceInv, Binance!Close PROVE BinanceInv'
  OBVIOUS
<1>1. /\ UNCHANGED <<asking, failed, valid, undefined, orders, traded, rest, venue, drops>>
      /\ ~tstopped /\ tstopped' = TRUE /\ ustopped' = TRUE
      /\ tline' = (IF tline = "up" THEN "closing" ELSE tline)
      /\ uline' = (IF uline = "up" THEN "closing" ELSE uline)
      /\ up' = <<>> /\ answers' = <<>>
      /\ IF uline = "up" THEN reports' = <<>> ELSE reports' = reports
      /\ stale' = stale \cup {o \in Orders : \/ Mentions(o, up, {"order"}) \/ Mentions(o, answers, {"order"})
                                             \/ Mentions(o, reports, {"orders"})}
      /\ missed' = [o \in Orders |-> missed[o] + LotsIn(o, reports)]
  BY SameWords DEF Binance!Close, Binance!Trade!Stop, Binance!User!Stop, Binance!keyVars, Binance!orderVars
<1>2. reports' = <<>>
  BY <1>1 DEF BinanceInv, BinanceTypes
<1>3. drops \in Nat /\ asking \in Nat
  BY DEF BinanceInv, BinanceTypes
<1>4. KeyInv'
  <2>1. ~Expiring'
    BY <1>2 DEF Expiring
  <2> QED
    BY <1>1, <1>3, <2>1 DEF BinanceInv, KeyInv
<1>5. {tline', uline'} \subseteq Binance!Trade!Lines /\ stale' \subseteq Orders
  BY <1>1 DEF BinanceInv, BinanceTypes, Binance!Trade!Lines
<1> QED
  BY <1>1, <1>2, <1>4, <1>5, LostSession DEF BinanceInv, BinanceTypes
-------------------------------------------------------------------------------
LEMMA ExpiringAppend ==
  ASSUME reports \in Seq(BinanceReports), NEW m \in BinanceReports, reports' = Append(reports, m)
  PROVE  Expiring' <=> Expiring \/ m.op = "listenKeyExpired"
<1> DEFINE r == Append(reports, m)
<1>1. /\ DOMAIN r = 1 .. Len(reports) + 1 /\ DOMAIN reports = 1 .. Len(reports) /\ Len(reports) \in Nat
      /\ \A k \in DOMAIN reports : r[k] = reports[k]
      /\ r[Len(reports) + 1] = m
  OBVIOUS
<1> HIDE DEF r
<1>2. (\E k \in DOMAIN r : r[k].op = "listenKeyExpired") <=> Expiring \/ m.op = "listenKeyExpired"
  <2>1. \A k \in DOMAIN r : k \in DOMAIN reports \/ k = Len(reports) + 1
    BY <1>1
  <2> QED
    BY <1>1, <2>1 DEF Expiring
<1> QED
  BY <1>2 DEF r, Expiring

LEMMA ExpiringTail ==
  ASSUME reports \in Seq(BinanceReports), reports # <<>>, reports' = Tail(reports)
  PROVE  Expiring' => Expiring
<1>1. \A k \in DOMAIN reports' : k + 1 \in DOMAIN reports /\ reports'[k] = reports[k + 1]
  OBVIOUS
<1> QED
  BY <1>1 DEF Expiring

LEMMA KeyFrame ==
  ASSUME KeyInv, UNCHANGED <<asking, drops, uline, tstopped, valid>>, Expiring' <=> Expiring
  PROVE  KeyInv'
BY DEF KeyInv

\* Lots that are told or missed are those that were filled.
LEMMA LotsAddUp ==
  ASSUME NEW o, NEW fill \in Nat, traded[o] \in Nat, missed[o] \in Nat, missed'[o] \in Nat,
         LotsIn(o, reports) \in Nat, LotsIn(o, reports') \in Nat,
         LotsIn(o, reports') + missed'[o] = LotsIn(o, reports) + missed[o] + fill
  PROVE  traded[o] + LotsIn(o, reports') + missed'[o] = (traded[o] + LotsIn(o, reports) + missed[o]) + fill
OBVIOUS

\* A step in which the venue acts on one order and reports it, if it can.
LEMMA BinanceReported ==
  ASSUME BinanceInv, NEW o \in Orders, NEW state, NEW fill, Rises(o, state, fill), Binance!Report(o, state, fill),
         UNCHANGED <<orders, traded, rest, asking, failed, valid, undefined, uline, ustopped, tline, tstopped, drops>>,
         ~Requested(o)', Once(o, up'), \A x \in Orders \ {o} : SameRequests(x), \A x \in Orders : SameAnswers(x),
         up' \in Seq(BinanceRequests), answers' \in Seq(BinanceAnswers), tline # "up" => up' = <<>> /\ answers' = <<>>
  PROVE  BinanceInv'
<1> USE DEF BinanceInv
<1> DEFINE sent == uline = "up" /\ valid
           m == [op |-> "orders", o |-> o, state |-> state, fill |-> fill]
<1>1. /\ state \in VenueStates \ {"none", "rejected"} /\ fill \in 0 .. 1 /\ fill \in Nat
      /\ venue[o] \in [state : VenueStates, lots : Nat] /\ missed[o] \in Nat /\ traded[o] \in Nat
      /\ reports \in Seq(BinanceReports) /\ BinanceOrderInv(o)
  <2>1. state \in VenueStates \ {"none", "rejected"} /\ fill \in 0 .. 1 /\ fill \in Nat
    BY DEF Rises
  <2>2. /\ venue[o] \in [state : VenueStates, lots : Nat] /\ missed[o] \in Nat /\ traded[o] \in Nat
        /\ reports \in Seq(BinanceReports)
    BY DEF BinanceTypes
  <2> QED
    BY <2>1, <2>2
<1>2. m \in BinanceReports /\ m.op = "orders" /\ m.state = state /\ Reports(o, m) /\ \A x : x # o => ~Reports(x, m)
  BY <1>1 DEF BinanceReports, Reports
<1>3. Lot(o, m) = fill
  <2>1. fill = 0 \/ fill = 1
    BY <1>1
  <2> QED
    BY <2>1 DEF Lot, Fills
<1>4. /\ venue' = [venue EXCEPT ![o] = [state |-> state, lots |-> venue[o].lots + fill]]
      /\ IF sent
         THEN reports' = Append(reports, m) /\ stale' = stale \ {o} /\ missed' = missed
         ELSE reports' = reports /\ stale' = stale \cup {o} /\ missed' = [missed EXCEPT ![o] = missed[o] + fill]
  BY DEF Binance!Report
<1> HIDE DEF m
<1>5. BinanceTypes'
  <2>1. venue' \in [Orders -> [state : VenueStates, lots : Nat]]
    <3>1. venue[o].lots + fill \in Nat
      BY <1>1
    <3> QED
      BY <1>1, <1>4, <3>1 DEF BinanceTypes
  <2>2. missed' \in [Orders -> Nat] /\ stale' \subseteq Orders
    <3>1. missed[o] + fill \in Nat
      BY <1>1
    <3> QED
      BY <1>4, <3>1 DEF BinanceTypes
  <2>3. reports' \in Seq(BinanceReports) /\ (uline # "up" => reports' = <<>>)
    <3>1. CASE sent
      <4>1. Append(reports, m) \in Seq(BinanceReports)
        BY <1>1, <1>2
      <4>2. reports' = Append(reports, m) /\ uline = "up"
        BY <1>4, <3>1
      <4> QED
        BY <4>1, <4>2
    <3>2. CASE ~sent
      BY <1>1, <1>4, <3>2 DEF BinanceTypes
    <3> QED
      BY <3>1, <3>2
  <2>4. rest' = [at |-> rest'.at, open |-> rest'.open] /\ rest'.at \in {"asked", "answered", "done"} /\ DOMAIN rest'.open \subseteq Orders
    BY DEF BinanceTypes
  <2> QED
    BY <2>1, <2>2, <2>3, <2>4 DEF BinanceTypes
<1>6. KeyInv'
  <2>1. Expiring' <=> Expiring
    <3>1. CASE sent
      BY <1>1, <1>2, <1>4, <3>1, ExpiringAppend
    <3>2. CASE ~sent
      BY <1>4, <3>2 DEF Expiring
    <3> QED
      BY <3>1, <3>2
  <2> QED
    BY <2>1, KeyFrame
<1>7. ASSUME NEW x \in Orders \ {o} PROVE BinanceOrderInv(x)'
  <2>1. SamePending(x)
    <3>1. CASE sent
      BY <1>1, <1>2, <1>4, <1>7, <3>1, PendingOther
    <3>2. CASE ~sent
      BY <1>4, <3>2, SameLines
    <3> QED
      BY <3>1, <3>2
  <2>2. SameBinanceOrder(x)
    BY <1>4, <1>7 DEF SameBinanceOrder, BinanceTypes
  <2> QED
    BY <1>7, <2>1, <2>2, BinanceFrame
<1>8. BinanceOrderInv(o)'
  <2> USE DEF BinanceOrderInv
  <2>1. venue'[o] = [state |-> state, lots |-> venue[o].lots + fill] /\ rest.open = rest'.open /\ orders' = orders
    BY <1>4 DEF BinanceTypes
  <2>2. orders[o] \notin Finished /\ ~Denied(o) /\ ~Denied(o)'
    BY <1>1 DEF BinanceReportInv, BinanceRequestInv, Rises, Open, Ended, SameAnswers
  <2>3. PICK s \in VenueStates : Chronicle(o, reports, s) /\ (s \in Open \/ ~Pending(o))
    BY <1>1 DEF BinanceReportInv, BinanceVenueInv, Rises
  <2>4. IF sent
        THEN Chronicle(o, reports', state) /\ Pending(o)' /\ LotsIn(o, reports') = LotsIn(o, reports) + fill /\ missed'[o] = missed[o]
        ELSE /\ reports' = reports /\ o \in stale' /\ missed'[o] = missed[o] + fill
    <3>1. CASE sent
      <4>1. NewReport(o, reports, reports', m)
        <5>1. NewReport(o, reports, Append(reports, m), m)
          BY <1>1, <1>2, ReportAppend
        <5>2. reports' = Append(reports, m)
          BY <1>4, <3>1
        <5> QED
          BY <5>1, <5>2
      <4> QED
        BY <1>2, <1>3, <1>4, <2>3, <3>1, <4>1 DEF NewReport, Pending
    <3>2. CASE ~sent
      BY <1>4, <3>2 DEF BinanceTypes
    <3> QED
      BY <3>1, <3>2
  <2>5. BinanceVenueInv(o)'
    BY <1>1, <2>1 DEF BinanceVenueInv, Rises
  <2>6. BinanceRequestInv(o)'
    BY <2>2 DEF BinanceRequestInv
  <2>7. BinanceReportInv(o)'
    <3>1. \E t \in VenueStates : Chronicle(o, reports', t) /\ (t = venue'[o].state \/ (o \in stale' /\ t \in Open))
      <4>1. CASE sent
        BY <1>1, <2>1, <2>4, <4>1
      <4>2. CASE ~sent /\ s \in Open
        BY <2>3, <2>4, <4>2
      <4>3. CASE ~sent /\ ~Pending(o)
        <5>1. Chronicle(o, reports', state)
          BY <2>4, <4>3, ChronicleNothing DEF Pending
        <5> QED
          BY <1>1, <2>1, <5>1
      <4> QED
        BY <2>3, <4>1, <4>2, <4>3
    <3>2. Pending(o)' \/ o \in stale'
      BY <2>4
    <3> QED
      BY <1>1, <2>1, <2>2, <3>1, <3>2 DEF BinanceReportInv
  <2>8. BinanceLotsInv(o)'
    <3>1. LotsIn(o, reports) \in Nat
      BY <1>1, LotsType
    <3>2. traded[o] + LotsIn(o, reports) + missed[o] = venue[o].lots
      BY <1>1 DEF BinanceLotsInv
    <3>3. venue'[o].lots = venue[o].lots + fill /\ traded'[o] = traded[o]
      BY <2>1
    <3>4. missed[o] \in Nat /\ traded[o] \in Nat /\ fill \in Nat
      BY <1>1 DEF BinanceTypes
    <3>5. LotsIn(o, reports') + missed'[o] = LotsIn(o, reports) + missed[o] + fill
      BY <2>4, <3>1, <3>4
    <3>6. LotsIn(o, reports') \in Nat /\ missed'[o] \in Nat
      BY <2>4, <3>1, <3>4
    <3>7. traded[o] + LotsIn(o, reports') + missed'[o] = (traded[o] + LotsIn(o, reports) + missed[o]) + fill
      BY <3>1, <3>4, <3>5, <3>6, LotsAddUp, Zenon
    <3>8. traded'[o] + LotsIn(o, reports') + missed'[o] = venue'[o].lots
      BY <3>2, <3>3, <3>7, Zenon
    <3> QED
      BY <3>8 DEF BinanceLotsInv
  <2> QED
    BY <2>5, <2>6, <2>7, <2>8
<1> QED
  BY <1>5, <1>6, <1>7, <1>8
-------------------------------------------------------------------------------
\* A step that says nothing new of any order.
LEMMA BinanceFramed ==
  ASSUME BinanceInv, BinanceTypes', UNCHANGED <<asking, drops, uline, tstopped, valid>>, Expiring' <=> Expiring,
         \A o \in Orders : SameRequests(o) /\ SamePending(o) /\ SameAnswers(o) /\ SameBinanceOrder(o)
  PROVE  BinanceInv'
BY KeyFrame, BinanceFrame DEF BinanceInv

LEMMA BinanceSendStep == ASSUME BinanceInv, NEW o \in Orders, Binance!SendOrder(o) PROVE BinanceInv'
<1> DEFINE m == [op |-> "order", o |-> o]
<1>1. /\ orders[o] = None /\ venue[o].state = "none"
      /\ up' = IF tline = "up" THEN Append(up, m) ELSE up
      /\ orders' = [orders EXCEPT ![o] = "SUBMITTING"]
      /\ stale' = IF tline = "up" THEN stale ELSE stale \cup {o}
      /\ UNCHANGED <<tline, tstopped, answers, asking, failed, valid, undefined, uline, ustopped, reports>>
      /\ UNCHANGED <<traded, rest, venue, missed, drops>>
  BY DEF Binance!SendOrder, Binance!Sent, Binance!keyVars, Binance!userVars
<1>2. m \in BinanceRequests /\ Requests(o, m) /\ \A x : x # o => ~Requests(x, m)
  BY DEF BinanceRequests, Requests
<1> HIDE DEF m
<1>3. up \in Seq(BinanceRequests) /\ BinanceOrderInv(o)
  BY DEF BinanceInv, BinanceTypes
<1>4. "SUBMITTING" \in Status \ Finished /\ "SUBMITTING" # None
  BY NoneAssumption DEF Status, Finished
<1>5. BinanceTypes'
  <2>1. orders' \in [Orders -> Status \cup {None}]
    BY <1>1, <1>4 DEF BinanceInv, BinanceTypes
  <2>2. up' \in Seq(BinanceRequests) /\ (tline # "up" => up' = <<>>)
    BY <1>1, <1>2, <1>3 DEF BinanceInv, BinanceTypes
  <2> QED
    BY <1>1, <2>1, <2>2 DEF BinanceInv, BinanceTypes
<1>6. KeyInv'
  <2>1. Expiring' <=> Expiring
    BY <1>1 DEF Expiring
  <2> QED
    BY <1>1, <2>1, KeyFrame DEF BinanceInv
<1>7. ASSUME NEW x \in Orders \ {o} PROVE BinanceOrderInv(x)'
  <2>1. SameRequests(x) /\ SamePending(x) /\ SameAnswers(x)
    BY <1>1, <1>2, <1>3, RequestsOther, SameLines
  <2>2. SameBinanceOrder(x)
    BY <1>1 DEF SameBinanceOrder, BinanceInv, BinanceTypes
  <2> QED
    BY <2>1, <2>2, BinanceFrame DEF BinanceInv
<1>8. BinanceOrderInv(o)'
  <2> USE DEF BinanceOrderInv
  <2>1. orders'[o] = "SUBMITTING" /\ ~Requested(o)
    BY <1>1, <1>3 DEF BinanceInv, BinanceTypes, BinanceRequestInv
  <2>2. (Pending(o)' <=> Pending(o)) /\ (Denied(o)' <=> Denied(o)) /\ ~Pending(o) /\ ~Denied(o)
    BY <1>1, <1>3 DEF Pending, Denied, BinanceVenueInv, BinanceRequestInv
  <2>3. Once(o, up')
    BY <1>1, <1>2, <1>3, <2>1, OnceAppend DEF BinanceRequestInv, Requested
  <2>4. IF tline = "up" THEN Requested(o)' ELSE o \in stale'
    BY <1>1, <1>2, <1>3, MentionsAppend DEF Requests, Requested
  <2>5. BinanceVenueInv(o)' /\ BinanceRequestInv(o)'
    BY <1>1, <1>3, <1>4, <2>1, <2>2, <2>3 DEF BinanceVenueInv, BinanceRequestInv
  <2>6. BinanceReportInv(o)'
    BY <1>1, <1>3, <1>4, <2>1, <2>2, <2>4 DEF BinanceReportInv
  <2>7. BinanceLotsInv(o)'
    BY <1>1, <1>3, <2>1 DEF BinanceLotsInv
  <2> QED
    BY <2>5, <2>6, <2>7
<1> QED
  BY <1>5, <1>6, <1>7, <1>8 DEF BinanceInv

LEMMA BinanceCancelStep == ASSUME BinanceInv, NEW o \in Orders, Binance!CancelOrder(o) PROVE BinanceInv'
<1> DEFINE m == [op |-> "cancel", o |-> o]
<1>1. /\ up' = IF tline = "up" THEN Append(up, m) ELSE up
      /\ UNCHANGED <<tline, tstopped, answers, asking, failed, valid, undefined, uline, ustopped, reports>>
      /\ UNCHANGED <<orders, traded, rest, venue, missed, stale, drops>>
  BY DEF Binance!CancelOrder, Binance!Sent, Binance!keyVars, Binance!userVars, Binance!orderVars, Binance!venueVars
<1>2. m \in BinanceRequests /\ \A x : ~Requests(x, m)
  BY DEF BinanceRequests, Requests
<1> HIDE DEF m
<1>3. up \in Seq(BinanceRequests)
  BY DEF BinanceInv, BinanceTypes
<1>4. BinanceTypes'
  <2>1. up' \in Seq(BinanceRequests) /\ (tline # "up" => up' = <<>>)
    BY <1>1, <1>2, <1>3 DEF BinanceInv, BinanceTypes
  <2> QED
    BY <1>1, <2>1 DEF BinanceInv, BinanceTypes
<1>5. \A x \in Orders : SameRequests(x) /\ SamePending(x) /\ SameAnswers(x) /\ SameBinanceOrder(x)
  BY <1>1, <1>2, <1>3, RequestsOther, SameLines DEF SameBinanceOrder
<1>6. Expiring' <=> Expiring
  BY <1>1 DEF Expiring
<1> QED
  BY <1>1, <1>4, <1>5, <1>6, BinanceFramed

\* A refusal ends the order; a confirmation changes nothing.
LEMMA BinanceAnswerStep == BinanceInv /\ Binance!OnSendOrder => BinanceInv'
<1> SUFFICES ASSUME BinanceInv, Binance!OnSendOrder PROVE BinanceInv'
  OBVIOUS
<1>1. answers \in Seq(BinanceAnswers) /\ answers # <<>>
  BY DEF Binance!OnSendOrder, BinanceInv, BinanceTypes
<1>2. PICK n \in BinanceAnswers : n = Head(answers)
  BY <1>1
<1>3. PICK p \in Orders : p = n.o
  BY DEF BinanceAnswers
<1>4. n = [op |-> "order", o |-> p, error |-> n.error] /\ n.error \in BOOLEAN
  BY <1>3 DEF BinanceAnswers
<1>5. /\ tline = "up" /\ answers' = Tail(answers)
      /\ orders' = IF n.error THEN [orders EXCEPT ![p] = "REJECTED"] ELSE orders
      /\ UNCHANGED <<tline, tstopped, up, asking, failed, valid, undefined, uline, ustopped, reports>>
      /\ UNCHANGED <<traded, rest, venue, missed, stale, drops>>
  BY <1>2, <1>3 DEF Binance!OnSendOrder, Binance!Rejected, Binance!keyVars, Binance!userVars, Binance!venueVars
<1>6. \A x : n = Rejection(x) <=> x = p /\ n.error
  BY <1>4 DEF Rejection
<1>7. \A x \in Orders : SameRequests(x) /\ SamePending(x) /\ (x # p \/ ~n.error => SameAnswers(x))
  BY <1>1, <1>2, <1>5, <1>6, AnswersOther, SameLines
<1>8. BinanceTypes'
  <2>1. orders' \in [Orders -> Status \cup {None}] /\ answers' \in Seq(BinanceAnswers)
    BY <1>1, <1>5 DEF BinanceInv, BinanceTypes, Status, Finished
  <2> QED
    BY <1>5, <2>1 DEF BinanceInv, BinanceTypes
<1>9. KeyInv'
  <2>1. Expiring' <=> Expiring
    BY <1>5 DEF Expiring
  <2> QED
    BY <1>5, <2>1, KeyFrame DEF BinanceInv
<1>10. ASSUME NEW x \in Orders, x # p \/ ~n.error PROVE BinanceOrderInv(x)'
  <2>1. SameBinanceOrder(x)
    BY <1>5, <1>10 DEF SameBinanceOrder, BinanceInv, BinanceTypes
  <2> QED
    BY <1>7, <1>10, <2>1, BinanceFrame DEF BinanceInv
<1>11. ASSUME n.error PROVE BinanceOrderInv(p)'
  <2> USE DEF BinanceOrderInv
  <2>1. orders'[p] = "REJECTED" /\ BinanceOrderInv(p)
    BY <1>5, <1>11 DEF BinanceInv, BinanceTypes
  <2>2. Denied(p)
    BY <1>1, <1>2, <1>6, <1>11, InFlightTail DEF Denied
  <2>3. venue[p].state = "rejected" /\ ~Pending(p) /\ (Pending(p)' <=> Pending(p)) /\ (Requested(p)' <=> Requested(p)) /\ ~Requested(p)
    BY <1>5, <2>1, <2>2 DEF BinanceRequestInv, BinanceReportInv, Pending, Requested
  <2>4. BinanceVenueInv(p)' /\ BinanceRequestInv(p)'
    BY <1>5, <2>1, <2>3 DEF BinanceVenueInv, BinanceRequestInv
  <2>5. BinanceReportInv(p)'
    <3>1. Agree("REJECTED", "rejected") /\ "rejected" \in Ended
      BY DEF Agree, StatusOf, Ended
    <3> QED
      BY <1>5, <2>1, <2>3, <3>1 DEF BinanceReportInv
  <2>6. BinanceLotsInv(p)'
    BY <1>5, <2>1 DEF BinanceLotsInv
  <2> QED
    BY <2>4, <2>5, <2>6
<1> QED
  BY <1>8, <1>9, <1>10, <1>11 DEF BinanceInv

LEMMA BinanceOrderStep == BinanceInv /\ Binance!OnOrder => BinanceInv'
<1> SUFFICES ASSUME BinanceInv, Binance!OnOrder PROVE BinanceInv'
  OBVIOUS
<1>1. reports \in Seq(BinanceReports) /\ reports # <<>> /\ Head(reports).op = "orders"
  BY DEF Binance!OnOrder, BinanceInv, BinanceTypes
<1>2. PICK n \in BinanceReports : n = Head(reports)
  BY <1>1
<1>3. n.op = "orders" /\ n.o \in Orders /\ n.state \in VenueStates /\ n.fill \in 0 .. 1
  BY <1>1, <1>2 DEF BinanceReports
<1>4. PICK p \in Orders : p = n.o
  BY <1>3
<1>5. /\ uline = "up" /\ reports' = Tail(reports)
      /\ orders' = [orders EXCEPT ![p] = StatusOf(n.state)]
      /\ traded' = [traded EXCEPT ![p] = traded[p] + n.fill]
      /\ UNCHANGED <<tline, tstopped, up, answers, asking, failed, valid, undefined, uline, ustopped>>
      /\ UNCHANGED <<rest, venue, missed, stale, drops>>
  BY <1>2, <1>4, SameWords DEF Binance!OnOrder, Binance!tradeVars, Binance!keyVars, Binance!venueVars
<1>6. Reports(p, n) /\ \A x : x # p => ~Reports(x, n)
  BY <1>3, <1>4 DEF Reports
<1>7. Pending(p) /\ BinanceOrderInv(p)
  BY <1>1, <1>2, <1>3, <1>4, MentionsTail DEF Pending, BinanceInv
<1>8. venue[p].state \notin {"none", "rejected"} /\ orders[p] \notin Finished /\ ~Requested(p)
  BY <1>7 DEF BinanceOrderInv, BinanceVenueInv, BinanceRequestInv, BinanceReportInv
<1>9. PICK s \in VenueStates : Chronicle(p, reports, s) /\ (s = venue[p].state \/ (p \in stale /\ s \in Open))
  BY <1>7 DEF BinanceOrderInv, BinanceReportInv
<1>10. /\ Chronicle(p, reports', s)
       /\ IF Pending(p)' THEN n.state \in Open ELSE n.state = s
  BY <1>1, <1>2, <1>5, <1>6, <1>9, ChronicleTail DEF Pending
<1>11. Ended \cap Open = {} /\ "none" \notin Open
  BY DEF Ended, Open
<1>12. n.state # "none" /\ StatusOf(n.state) \in Status
       /\ (StatusOf(n.state) \in Finished => n.state \in Ended)
  BY <1>3, <1>8, <1>9, <1>10 DEF VenueStates, StatusOf, Status, Finished, Open, Ended
<1>13. BinanceTypes'
  <2>1. orders' \in [Orders -> Status \cup {None}] /\ reports' \in Seq(BinanceReports)
    BY <1>1, <1>5, <1>12 DEF BinanceInv, BinanceTypes
  <2>2. traded[p] + n.fill \in Nat
    BY <1>3 DEF BinanceInv, BinanceTypes
  <2>3. traded' \in [Orders -> Nat]
    BY <1>5, <2>2 DEF BinanceInv, BinanceTypes
  <2> QED
    BY <1>5, <2>1, <2>3 DEF BinanceInv, BinanceTypes
<1>14. KeyInv'
  <2>1. Expiring' => Expiring
    BY <1>1, <1>5, ExpiringTail
  <2>2. KeyInv /\ asking \in Nat /\ drops \in Nat
    BY DEF BinanceInv, BinanceTypes
  <2>3. UNCHANGED <<asking, drops, uline, tstopped, valid>>
    BY <1>5
  <2>4. CASE Expiring' <=> Expiring
    BY <2>2, <2>3, <2>4, KeyFrame
  <2>5. CASE ~Expiring' /\ Expiring
    <3> DEFINE most == 1 + drops + (IF tstopped THEN 1 ELSE 0)
    <3>1. most \in Int
      BY <2>2
    <3>2. asking + 1 <= most /\ drops <= MaxDrops
      BY <2>2, <2>5 DEF KeyInv
    <3> HIDE DEF most
    <3>3. asking <= most
      BY <2>2, <3>1, <3>2
    <3> QED
      BY <2>2, <2>3, <2>5, <3>2, <3>3 DEF KeyInv, most
  <2> QED
    BY <2>1, <2>4, <2>5
<1>15. ASSUME NEW x \in Orders \ {p} PROVE BinanceOrderInv(x)'
  <2>1. SameBinanceOrder(x)
    BY <1>5 DEF SameBinanceOrder, BinanceInv, BinanceTypes
  <2>2. SameRequests(x) /\ SamePending(x) /\ SameAnswers(x)
    BY <1>1, <1>2, <1>5, <1>6, PendingOther, SameLines
  <2> QED
    BY <2>1, <2>2, BinanceFrame DEF BinanceInv
<1>16. BinanceOrderInv(p)'
  <2> USE DEF BinanceOrderInv
  <2>1. orders'[p] = StatusOf(n.state)
    BY <1>5 DEF BinanceInv, BinanceTypes
  <2>2. (Requested(p)' <=> Requested(p)) /\ (Denied(p)' <=> Denied(p)) /\ Once(p, up')
    BY <1>5, <1>7 DEF Requested, Denied, BinanceRequestInv
  <2>3. BinanceVenueInv(p)' /\ BinanceRequestInv(p)'
    BY <1>5, <1>7, <1>8, <2>2 DEF BinanceVenueInv, BinanceRequestInv
  <2>4. BinanceReportInv(p)'
    <3>1. \E t \in VenueStates : Chronicle(p, reports', t) /\ (t = venue'[p].state \/ (p \in stale' /\ t \in Open))
      BY <1>5, <1>9, <1>10
    <3>2. orders'[p] \in Finished => ~Pending(p)' /\ venue'[p].state \in Ended
      BY <1>5, <1>9, <1>10, <1>11, <1>12, <2>1
    <3>3. Pending(p)' \/ p \in stale' \/ Agree(orders'[p], venue'[p].state)
      BY <1>5, <1>8, <1>9, <1>10, <2>1 DEF Agree
    <3> QED
      BY <1>5, <1>8, <3>1, <3>2, <3>3 DEF BinanceReportInv
  <2>5. BinanceLotsInv(p)'
    <3>1. Lot(p, n) = n.fill /\ n.fill \in Nat
      <4>1. n.fill = 0 \/ n.fill = 1
        BY <1>3
      <4> QED
        BY <1>3, <1>4, <4>1 DEF Lot, Fills
    <3>2. LotsIn(p, reports) = LotsIn(p, reports') + n.fill
      BY <1>1, <1>2, <1>5, <3>1, LotsTail
    <3>3. reports' \in Seq(BinanceReports)
      BY <1>1, <1>5
    <3>4. LotsIn(p, reports') \in Nat
      BY <3>3, LotsType
    <3>5. traded'[p] = traded[p] + n.fill /\ traded[p] \in Nat /\ missed[p] \in Nat
      BY <1>5 DEF BinanceInv, BinanceTypes
    <3>6. traded[p] + LotsIn(p, reports) + missed[p] = venue[p].lots
      BY <1>7 DEF BinanceLotsInv
    <3>7. traded'[p] + LotsIn(p, reports') + missed[p] = venue[p].lots
      BY <3>1, <3>2, <3>4, <3>5, <3>6
    <3> QED
      BY <1>5, <3>7 DEF BinanceLotsInv
  <2> QED
    BY <2>3, <2>4, <2>5
<1> QED
  BY <1>13, <1>14, <1>15, <1>16 DEF BinanceInv

\* The answer to the query of the open orders is reported, however old it is.
LEMMA BinanceQueryStep == BinanceInv /\ Binance!OnQueryOrder => BinanceInv'
<1> SUFFICES ASSUME BinanceInv, Binance!OnQueryOrder PROVE BinanceInv'
  OBVIOUS
<1> DEFINE open == DOMAIN rest.open
<1>1. /\ rest' = [at |-> "done", open |-> NothingOpen]
      /\ UNCHANGED <<tline, tstopped, up, answers, asking, failed, valid, undefined, uline, ustopped, reports>>
      /\ UNCHANGED <<traded, venue, missed, drops>>
  BY DEF Binance!OnQueryOrder, Binance!NothingOpen, NothingOpen, Binance!tradeVars, Binance!keyVars, Binance!userVars
<1>2. /\ orders' = [o \in Orders |-> IF o \in open THEN StatusOf(rest.open[o]) ELSE orders[o]]
      /\ \A o \in Orders : o \in stale' <=> IF o \in open /\ ~Pending(o) THEN rest.open[o] # venue[o].state ELSE o \in stale
      /\ stale' \subseteq Orders
  <2>1. open \subseteq Orders /\ stale \subseteq Orders
    BY DEF BinanceInv, BinanceTypes
  <2> DEFINE old == {o \in open : rest.open[o] # venue[o].state}
             last == {o \in Orders : ~Binance!Mentions(o, reports, {"orders"})}
  <2>2. stale' = (stale \ ((open \ old) \cap last)) \cup (old \cap last)
    BY DEF Binance!OnQueryOrder
  <2>3. \A o \in Orders : (o \in last <=> ~Pending(o)) /\ (o \in old <=> o \in open /\ rest.open[o] # venue[o].state)
    BY <2>1, SameWords DEF Pending
  <2>4. orders' = [o \in Orders |-> IF o \in open THEN StatusOf(rest.open[o]) ELSE orders[o]]
    BY SameWords DEF Binance!OnQueryOrder
  <2> HIDE DEF old, last, open
  <2>5. \A o \in Orders : o \in stale' <=> IF o \in open /\ ~Pending(o) THEN rest.open[o] # venue[o].state ELSE o \in stale
    BY <2>2, <2>3
  <2>6. stale' \subseteq Orders
    <3>1. last \subseteq Orders
      BY DEF last
    <3> QED
      BY <2>1, <2>2, <3>1
  <2> QED
    BY <2>4, <2>5, <2>6
<1>3. open \subseteq Orders /\ rest'.at = "done" /\ DOMAIN rest'.open = {}
  BY <1>1 DEF BinanceInv, BinanceTypes, NothingOpen
<1>4. \A o \in open : rest.open[o] \in Open
  BY <1>3 DEF BinanceInv, BinanceOrderInv, BinanceVenueInv
<1>5. \A s \in Open : StatusOf(s) \in {"NOTTRADED", "PARTTRADED"}
  BY DEF Open, StatusOf
<1>6. {"NOTTRADED", "PARTTRADED"} \subseteq Status /\ \A s \in {"NOTTRADED", "PARTTRADED"} : s \notin Finished /\ s # None
  BY NoneAssumption DEF Status, Finished
<1> HIDE DEF open
<1>7. BinanceTypes'
  <2>1. orders' \in [Orders -> Status \cup {None}]
    <3>1. \A o \in Orders : (IF o \in open THEN StatusOf(rest.open[o]) ELSE orders[o]) \in Status \cup {None}
      BY <1>4, <1>5, <1>6 DEF BinanceInv, BinanceTypes
    <3> QED
      BY <1>2, <3>1
  <2>2. rest' = [at |-> rest'.at, open |-> rest'.open] /\ rest'.at \in {"asked", "answered", "done"} /\ DOMAIN rest'.open \subseteq Orders
    BY <1>1, <1>3
  <2> QED
    BY <1>1, <1>2, <2>1, <2>2 DEF BinanceInv, BinanceTypes
<1>8. KeyInv'
  <2>1. Expiring' <=> Expiring
    BY <1>1 DEF Expiring
  <2> QED
    BY <1>1, <2>1, KeyFrame DEF BinanceInv
<1>9. \A o \in Orders : SameRequests(o) /\ SamePending(o) /\ SameAnswers(o)
  BY <1>1, SameLines
<1>10. ASSUME NEW o \in Orders \ open PROVE BinanceOrderInv(o)'
  <2>1. SameBinanceOrder(o)
    BY <1>1, <1>2, <1>3, <1>10 DEF SameBinanceOrder
  <2> QED
    BY <1>9, <2>1, BinanceFrame DEF BinanceInv
<1>11. ASSUME NEW o \in open PROVE BinanceOrderInv(o)'
  <2> USE DEF BinanceOrderInv
  <2>1. BinanceOrderInv(o) /\ o \in Orders
    BY <1>3 DEF BinanceInv
  <2>2. orders'[o] = StatusOf(rest.open[o]) /\ orders'[o] \in {"NOTTRADED", "PARTTRADED"}
    BY <1>2, <1>4, <1>5, <2>1
  <2>3. venue[o].state # "none" /\ ~Requested(o)
    BY <1>11, <2>1 DEF open, BinanceVenueInv, BinanceRequestInv
  <2>4. (Requested(o)' <=> Requested(o)) /\ (Pending(o)' <=> Pending(o)) /\ (Denied(o)' <=> Denied(o))
    BY <1>1 DEF Requested, Pending, Denied
  <2>5. BinanceVenueInv(o)' /\ BinanceRequestInv(o)'
    BY <1>1, <1>3, <2>1, <2>3, <2>4 DEF BinanceVenueInv, BinanceRequestInv
  <2>6. BinanceReportInv(o)'
    <3>1. PICK s \in VenueStates : Chronicle(o, reports, s) /\ (s = venue[o].state \/ (o \in stale /\ s \in Open))
      BY <2>1 DEF BinanceReportInv
    <3>2. \E t \in VenueStates : Chronicle(o, reports', t) /\ (t = venue'[o].state \/ (o \in stale' /\ t \in Open))
      <4>1. CASE Pending(o)
        BY <1>1, <1>2, <2>1, <3>1, <4>1
      <4>2. CASE ~Pending(o)
        <5>1. Chronicle(o, reports', venue[o].state)
          BY <1>1, <4>2, ChronicleNothing DEF Pending
        <5>2. venue'[o].state = venue[o].state /\ venue[o].state \in VenueStates
          BY <1>1, <2>1 DEF BinanceInv, BinanceTypes
        <5> QED
          BY <5>1, <5>2
      <4> QED
        BY <4>1, <4>2
    <3>3. venue'[o].state = "rejected" => ~Pending(o)'
      BY <1>1, <2>1, <2>4 DEF BinanceReportInv
    <3>4. Pending(o)' \/ o \in stale' \/ Agree(orders'[o], venue'[o].state)
      BY <1>1, <1>2, <1>11, <2>1, <2>2, <2>3, <2>4 DEF Agree
    <3> QED
      BY <1>6, <2>2, <3>2, <3>3, <3>4 DEF BinanceReportInv
  <2>7. BinanceLotsInv(o)'
    BY <1>1, <2>1 DEF BinanceLotsInv
  <2> QED
    BY <2>5, <2>6, <2>7
<1> QED
  BY <1>7, <1>8, <1>10, <1>11 DEF BinanceInv

LEMMA BinanceQueryFailsStep == BinanceInv /\ Binance!QueryFails => BinanceInv'
<1> SUFFICES ASSUME BinanceInv, Binance!QueryFails PROVE BinanceInv'
  OBVIOUS
<1>1. /\ UNCHANGED <<tline, tstopped, up, answers, asking, failed, valid, undefined, uline, ustopped, reports>>
      /\ UNCHANGED <<orders, traded, venue, missed, stale, drops>>
      /\ rest' = [at |-> "done", open |-> rest.open]
  BY DEF Binance!QueryFails, Binance!tradeVars, Binance!keyVars, Binance!userVars, Binance!orderVars, Binance!venueVars,
         BinanceInv, BinanceTypes
<1>2. BinanceTypes'
  BY <1>1 DEF BinanceInv, BinanceTypes
<1>3. \A x \in Orders : SameRequests(x) /\ SamePending(x) /\ SameAnswers(x) /\ SameBinanceOrder(x)
  BY <1>1, SameLines DEF SameBinanceOrder
<1>4. Expiring' <=> Expiring
  BY <1>1 DEF Expiring
<1> QED
  BY <1>1, <1>2, <1>3, <1>4, BinanceFramed

LEMMA BinanceVenueQueryStep == BinanceInv /\ Binance!VenueQuery => BinanceInv'
<1> SUFFICES ASSUME BinanceInv, Binance!VenueQuery PROVE BinanceInv'
  OBVIOUS
<1> DEFINE open == {o \in Orders : venue[o].state \in Open}
<1>1. /\ UNCHANGED <<tline, tstopped, up, answers, asking, failed, valid, undefined, uline, ustopped, reports>>
      /\ UNCHANGED <<orders, traded, venue, missed, stale, drops>>
      /\ rest' = [at |-> "answered", open |-> [o \in open |-> venue[o].state]]
  BY SameWords DEF Binance!VenueQuery, Binance!tradeVars, Binance!keyVars, Binance!userVars, Binance!orderVars, Binance!venueVars
<1>2. rest'.at = "answered" /\ DOMAIN rest'.open = open /\ \A o \in open : rest'.open[o] = venue[o].state
  BY <1>1
<1>3. BinanceTypes'
  <2>1. rest' = [at |-> rest'.at, open |-> rest'.open] /\ DOMAIN rest'.open \subseteq Orders
    BY <1>1, <1>2
  <2> HIDE DEF open
  <2> QED
    BY <1>1, <1>2, <2>1 DEF BinanceInv, BinanceTypes
<1>4. KeyInv'
  <2>1. Expiring' <=> Expiring
    BY <1>1 DEF Expiring
  <2> QED
    BY <1>1, <2>1, KeyFrame DEF BinanceInv
<1>5. ASSUME NEW o \in Orders PROVE BinanceOrderInv(o)'
  <2> USE DEF BinanceOrderInv, BinanceInv
  <2>1. (Requested(o)' <=> Requested(o)) /\ (Pending(o)' <=> Pending(o)) /\ (Denied(o)' <=> Denied(o))
    BY <1>1 DEF Requested, Pending, Denied
  <2>2. BinanceVenueInv(o)'
    <3>1. "none" \notin Open
      BY DEF Open
    <3> QED
      BY <1>1, <1>2, <2>1, <3>1 DEF BinanceVenueInv
  <2>3. BinanceRequestInv(o)' /\ BinanceReportInv(o)' /\ BinanceLotsInv(o)'
    BY <1>1, <2>1 DEF BinanceRequestInv, BinanceReportInv, BinanceLotsInv
  <2> QED
    BY <2>2, <2>3
<1> QED
  BY <1>3, <1>4, <1>5 DEF BinanceInv

LEMMA BinanceMovesStep == ASSUME BinanceInv, NEW o \in Orders, Binance!VenueMoves(o) PROVE BinanceInv'
<1>1. /\ UNCHANGED <<orders, traded, rest, asking, failed, valid, undefined, uline, ustopped, tline, tstopped, drops>>
      /\ UNCHANGED <<up, answers>> /\ venue[o].state \in Open
  BY SameWords DEF Binance!VenueMoves, Binance!tradeVars, Binance!keyVars, Binance!orderVars
<1>2. /\ \A x : SameRequests(x) /\ SameAnswers(x)
      /\ up' \in Seq(BinanceRequests) /\ answers' \in Seq(BinanceAnswers)
      /\ tline # "up" => up' = <<>> /\ answers' = <<>>
  BY <1>1, SameLines DEF BinanceInv, BinanceTypes
<1>3. ~Requested(o)' /\ Once(o, up')
  BY <1>1, <1>2 DEF SameRequests, BinanceInv, BinanceOrderInv, BinanceRequestInv, Open
<1>4. venue[o].lots \in Nat /\ Lots \in Nat \ {0} /\ venue[o].lots < Lots /\ venue[o].state \in Open \cup {"none"}
  BY <1>1, SessionAssumption DEF BinanceInv, BinanceTypes, BinanceOrderInv, BinanceVenueInv
<1>5. Rises(o, IF venue[o].lots + 1 = Lots THEN "filled" ELSE "partially_filled", 1)
  <2>1. CASE venue[o].lots + 1 = Lots
    BY <1>4, <2>1 DEF Rises, VenueStates, Open
  <2>2. CASE venue[o].lots + 1 # Lots
    BY <1>4, <2>2 DEF Rises, VenueStates, Open
  <2> QED
    BY <2>1, <2>2
<1>6. Rises(o, "canceled", 0)
  BY <1>4 DEF Rises, VenueStates, Open
<1>7. CASE Binance!Report(o, "canceled", 0)
  BY <1>1, <1>2, <1>3, <1>6, <1>7, BinanceReported
<1>8. CASE Binance!Report(o, IF venue[o].lots + 1 = Lots THEN "filled" ELSE "partially_filled", 1)
  BY <1>1, <1>2, <1>3, <1>5, <1>8, BinanceReported
<1> QED
  BY <1>7, <1>8 DEF Binance!VenueMoves

LEMMA BinanceVenueCancelStep == BinanceInv /\ Binance!VenueCancel => BinanceInv'
<1> SUFFICES ASSUME BinanceInv, Binance!VenueCancel PROVE BinanceInv'
  OBVIOUS
<1>1. /\ UNCHANGED <<orders, traded, rest, asking, failed, valid, undefined, uline, ustopped, tline, tstopped, drops>>
      /\ answers' = answers
      /\ tline = "up" /\ up # <<>> /\ Head(up).op = "cancel" /\ up' = Tail(up)
  BY DEF Binance!VenueCancel, Binance!Reads, Binance!keyVars, Binance!orderVars
<1>2. up \in Seq(BinanceRequests) /\ up' \in Seq(BinanceRequests) /\ answers' \in Seq(BinanceAnswers)
  BY <1>1 DEF BinanceInv, BinanceTypes
<1>3. \A x : SameRequests(x) /\ SameAnswers(x)
  BY <1>1, <1>2, RequestsOther, SameLines DEF Requests
<1>4. PICK p \in Orders : p = Head(up).o
  <2>1. Head(up) \in BinanceRequests
    BY <1>1, <1>2
  <2> QED
    BY <2>1 DEF BinanceRequests
<1>5. CASE venue[p].state \in Open /\ Binance!Report(p, "canceled", 0)
  <2>1. Rises(p, "canceled", 0)
    <3>1. venue[p].lots \in Nat /\ venue[p].lots < Lots /\ Lots \in Nat
      BY <1>5, SessionAssumption DEF BinanceInv, BinanceTypes, BinanceOrderInv, BinanceVenueInv
    <3> QED
      BY <1>5, <3>1 DEF Rises, VenueStates, Open
  <2>2. ~Requested(p)' /\ Once(p, up')
    BY <1>3, <1>5 DEF SameRequests, BinanceInv, BinanceOrderInv, BinanceRequestInv, Open
  <2> QED
    BY <1>1, <1>2, <1>3, <1>5, <2>1, <2>2, BinanceReported
<1>6. CASE UNCHANGED <<reports, venue, missed, stale>>
  <2>1. \A x \in Orders : SamePending(x) /\ SameBinanceOrder(x)
    BY <1>1, <1>6, SameLines DEF SameBinanceOrder
  <2>2. BinanceTypes'
    BY <1>1, <1>2, <1>6 DEF BinanceInv, BinanceTypes
  <2>3. Expiring' <=> Expiring
    BY <1>6 DEF Expiring
  <2> QED
    BY <1>1, <1>3, <2>1, <2>2, <2>3, BinanceFramed
<1>7. \/ venue[p].state \in Open /\ Binance!Report(p, "canceled", 0)
      \/ UNCHANGED <<reports, venue, missed, stale>>
  BY <1>4, SameWords DEF Binance!VenueCancel, Binance!venueVars
<1> QED
  BY <1>5, <1>6, <1>7

\* The venue takes an order or refuses it.
LEMMA BinanceVenueOrderStep == BinanceInv /\ Binance!VenueOrder => BinanceInv'
<1> SUFFICES ASSUME BinanceInv, Binance!VenueOrder PROVE BinanceInv'
  OBVIOUS
<1>1. /\ UNCHANGED <<orders, traded, rest, asking, failed, valid, undefined, uline, ustopped, tline, tstopped, drops>>
      /\ tline = "up" /\ up # <<>> /\ Head(up).op = "order" /\ up' = Tail(up)
  BY DEF Binance!VenueOrder, Binance!Reads, Binance!keyVars, Binance!orderVars
<1>2. up \in Seq(BinanceRequests) /\ up' \in Seq(BinanceRequests) /\ answers \in Seq(BinanceAnswers)
  BY <1>1 DEF BinanceInv, BinanceTypes
<1>3. Head(up).o \in Orders
  <2>1. Head(up) \in BinanceRequests
    BY <1>1, <1>2
  <2> QED
    BY <2>1 DEF BinanceRequests
<1>4. PICK p \in Orders : p = Head(up).o
  BY <1>3
<1>5. BinanceOrderInv(p)
  BY DEF BinanceInv
<1>6. /\ \A x \in Orders \ {p} : SameRequests(x)
      /\ Requested(p) /\ ~Requested(p)' /\ Once(p, up')
  <2>1. Requests(p, Head(up)) /\ \A x : x # p => ~Requests(x, Head(up))
    BY <1>1, <1>4 DEF Requests
  <2>2. Requested(p)
    BY <1>1, <1>2, <2>1, MentionsTail DEF Requests, Requested
  <2> QED
    BY <1>1, <1>2, <1>5, <2>1, <2>2, RequestsOther, OnceTail DEF BinanceOrderInv, BinanceRequestInv, Requested
<1>7. /\ venue[p] \in [state : VenueStates, lots : Nat] /\ venue[p].state = "none" /\ venue[p].lots = 0
      /\ p \notin DOMAIN rest.open /\ ~Pending(p) /\ ~Denied(p) /\ orders[p] \notin Finished
      /\ Lots \in Nat \ {0}
  BY <1>5, <1>6, SessionAssumption DEF BinanceOrderInv, BinanceVenueInv, BinanceRequestInv, BinanceReportInv, BinanceInv,
                                       BinanceTypes, Ended
<1>8. PICK e \in BOOLEAN :
        /\ answers' = Append(answers, [op |-> "order", o |-> p, error |-> e])
        /\ IF e THEN venue' = [venue EXCEPT ![p].state = "rejected"] /\ UNCHANGED <<reports, missed, stale>>
                ELSE Binance!Report(p, "live", 0)
  BY <1>4 DEF Binance!VenueOrder
<1> DEFINE a == [op |-> "order", o |-> p, error |-> e]
<1>9. a \in BinanceAnswers /\ answers' = Append(answers, a) /\ \A x : a = Rejection(x) <=> x = p /\ e
  BY <1>8 DEF BinanceAnswers, Rejection
<1> HIDE DEF a
<1>10. answers' \in Seq(BinanceAnswers) /\ \A x \in Orders : x # p \/ ~e => SameAnswers(x)
  BY <1>2, <1>9, AnswersOther
<1>11. CASE ~e
  <2>1. Rises(p, "live", 0) /\ Binance!Report(p, "live", 0)
    BY <1>7, <1>8, <1>11 DEF Rises, VenueStates, Open
  <2> QED
    BY <1>1, <1>2, <1>6, <1>10, <1>11, <2>1, BinanceReported
<1>12. CASE e
  <2>1. UNCHANGED <<reports, missed, stale>>
    BY <1>8, <1>12
  <2>2. venue' = [venue EXCEPT ![p] = [state |-> "rejected", lots |-> 0]]
    <3>1. [venue[p] EXCEPT !.state = "rejected"] = [state |-> "rejected", lots |-> 0]
      BY <1>7
    <3> QED
      BY <1>8, <1>12, <3>1 DEF BinanceInv, BinanceTypes
  <2>3. BinanceTypes'
    <3>1. venue' \in [Orders -> [state : VenueStates, lots : Nat]]
      BY <2>2 DEF BinanceInv, BinanceTypes, VenueStates
    <3> QED
      BY <1>1, <1>2, <1>10, <2>1, <3>1 DEF BinanceInv, BinanceTypes
  <2>4. KeyInv'
    <3>1. Expiring' <=> Expiring
      BY <2>1 DEF Expiring
    <3> QED
      BY <1>1, <3>1, KeyFrame DEF BinanceInv
  <2>5. ASSUME NEW x \in Orders \ {p} PROVE BinanceOrderInv(x)'
    <3>1. SamePending(x)
      BY <2>1, SameLines
    <3>2. SameBinanceOrder(x)
      BY <1>1, <2>1, <2>2 DEF SameBinanceOrder, BinanceInv, BinanceTypes
    <3> QED
      BY <1>6, <1>10, <3>1, <3>2, BinanceFrame DEF BinanceInv
  <2>6. BinanceOrderInv(p)'
    <3> USE DEF BinanceOrderInv
    <3>1. venue'[p] = [state |-> "rejected", lots |-> 0]
      BY <2>2 DEF BinanceInv, BinanceTypes
    <3>2. ~Pending(p)' /\ Denied(p)'
      BY <1>2, <1>7, <1>9, <1>12, <2>1, InFlightAppend DEF Pending, Denied
    <3>3. BinanceVenueInv(p)' /\ BinanceRequestInv(p)'
      BY <1>1, <1>5, <1>6, <1>7, <3>1, <3>2 DEF BinanceVenueInv, BinanceRequestInv, Open
    <3>4. BinanceReportInv(p)'
      <4>1. Chronicle(p, reports', "rejected") /\ "rejected" \in VenueStates
        BY <3>2, ChronicleNothing DEF Pending, VenueStates
      <4> QED
        BY <1>1, <1>7, <3>1, <3>2, <4>1 DEF BinanceReportInv, Ended
    <3>5. BinanceLotsInv(p)'
      BY <1>1, <1>5, <1>7, <2>1, <3>1 DEF BinanceLotsInv
    <3> QED
      BY <3>3, <3>4, <3>5
  <2> QED
    BY <2>3, <2>4, <2>5, <2>6 DEF BinanceInv
<1> QED
  BY <1>11, <1>12

LEMMA BinanceExpiresStep == BinanceInv /\ Binance!KeyExpires => BinanceInv'
<1> SUFFICES ASSUME BinanceInv, Binance!KeyExpires PROVE BinanceInv'
  OBVIOUS
<1> DEFINE m == [op |-> "listenKeyExpired", o |-> None, fill |-> 0]
<1>1. /\ valid /\ valid' = FALSE /\ drops < MaxDrops /\ drops' = drops + 1
      /\ reports' = IF uline = "up" THEN Append(reports, m) ELSE reports
      /\ UNCHANGED <<tline, tstopped, up, answers, asking, failed, undefined, uline, ustopped>>
      /\ UNCHANGED <<orders, traded, rest, venue, missed, stale>>
  BY DEF Binance!KeyExpires, Binance!tradeVars, Binance!orderVars, Binance!venueVars
<1>2. m \in BinanceReports /\ m.op = "listenKeyExpired" /\ \A x : ~Reports(x, m)
  BY DEF BinanceReports, Reports
<1> HIDE DEF m
<1>3. reports \in Seq(BinanceReports) /\ drops \in Nat /\ asking \in Nat /\ MaxDrops \in Nat
  BY SessionAssumption DEF BinanceInv, BinanceTypes
<1>4. BinanceTypes'
  <2>1. reports' \in Seq(BinanceReports) /\ (uline # "up" => reports' = <<>>)
    <3>1. Append(reports, m) \in Seq(BinanceReports)
      BY <1>2, <1>3
    <3> QED
      BY <1>1, <1>3, <3>1 DEF BinanceInv, BinanceTypes
  <2>2. drops' \in Nat
    BY <1>1, <1>3
  <2> QED
    BY <1>1, <2>1, <2>2 DEF BinanceInv, BinanceTypes
<1>5. KeyInv'
  <2>1. ~Expiring
    BY <1>1 DEF BinanceInv, KeyInv
  <2> QED
    BY <1>1, <1>3, <2>1 DEF BinanceInv, KeyInv
<1>6. \A x \in Orders : SameRequests(x) /\ SamePending(x) /\ SameAnswers(x) /\ SameBinanceOrder(x)
  BY <1>1, <1>2, <1>3, PendingOther, SameLines DEF SameBinanceOrder
<1> QED
  BY <1>4, <1>5, <1>6, BinanceFrame DEF BinanceInv
-------------------------------------------------------------------------------
LEMMA BinanceInit == Binance!Init => BinanceInv
<1> SUFFICES ASSUME Binance!Init PROVE BinanceInv
  OBVIOUS
<1> USE DEF Binance!Init, Binance!Trade!Init
<1>1. BinanceTypes
  <2>1. venue \in [Orders -> [state : VenueStates, lots : Nat]]
    BY DEF VenueStates, Open
  <2>2. orders \in [Orders -> Status \cup {None}] /\ traded \in [Orders -> Nat] /\ missed \in [Orders -> Nat]
    OBVIOUS
  <2>3. rest = [at |-> rest.at, open |-> rest.open] /\ rest.at = "asked" /\ DOMAIN rest.open \subseteq Orders
    BY DEF Binance!NothingOpen
  <2>4. up \in Seq(BinanceRequests) /\ answers \in Seq(BinanceAnswers) /\ reports \in Seq(BinanceReports)
    OBVIOUS
  <2> QED
    BY <2>1, <2>2, <2>3, <2>4 DEF BinanceTypes, Binance!Trade!Lines
<1>2. KeyInv
  BY SessionAssumption DEF KeyInv, Expiring
<1>3. ASSUME NEW o \in Orders PROVE BinanceOrderInv(o)
  <2>1. ~Requested(o) /\ ~Pending(o) /\ ~Denied(o)
    BY MentionsNothing DEF Requested, Pending, Denied, InFlight
  <2>2. BinanceVenueInv(o)
    BY <2>1, SessionAssumption DEF BinanceVenueInv, Binance!NothingOpen, Open
  <2>3. BinanceRequestInv(o)
    BY <2>1 DEF BinanceRequestInv, Once
  <2>4. BinanceReportInv(o)
    <3>1. Chronicle(o, reports, venue[o].state) /\ venue[o].state \in VenueStates
      BY <1>1, <2>1, ChronicleNothing DEF Pending, BinanceTypes
    <3>2. orders[o] \notin Finished
      BY NoneAssumption DEF Status
    <3>3. o \in stale \/ Agree(orders[o], venue[o].state)
      BY DEF Agree, Open
    <3> QED
      BY <2>1, <3>1, <3>2, <3>3 DEF BinanceReportInv
  <2>5. BinanceLotsInv(o)
    BY LotsNothing DEF BinanceLotsInv
  <2> QED
    BY <2>2, <2>3, <2>4, <2>5 DEF BinanceOrderInv
<1> QED
  BY <1>1, <1>2, <1>3 DEF BinanceInv

LEMMA BinanceStep == BinanceInv /\ [Binance!Next]_Binance!vars => BinanceInv'
<1> SUFFICES ASSUME BinanceInv, [Binance!Next]_Binance!vars PROVE BinanceInv'
  OBVIOUS
<1>1. CASE UNCHANGED Binance!vars
  <2>1. /\ UNCHANGED <<tline, tstopped, up, answers, asking, failed, valid, undefined, uline, ustopped, reports>>
        /\ UNCHANGED <<orders, traded, rest, venue, missed, stale, drops>>
    BY <1>1 DEF Binance!vars, Binance!tradeVars, Binance!keyVars, Binance!userVars, Binance!orderVars, Binance!venueVars
  <2>2. \A x \in Orders : SameRequests(x) /\ SamePending(x) /\ SameAnswers(x) /\ SameBinanceOrder(x)
    BY <2>1, SameLines DEF SameBinanceOrder
  <2>3. BinanceTypes' /\ (Expiring' <=> Expiring)
    BY <2>1 DEF BinanceInv, BinanceTypes, Expiring
  <2> QED
    BY <2>1, <2>2, <2>3, BinanceFramed
<1>2. CASE Binance!Retry \/ Binance!OnTradeDisconnected \/ Binance!OnUserDisconnected \/ Binance!Close
  BY <1>2, BinanceRetryStep, TradeDisconnectedStep, UserDisconnectedStep, BinanceCloseStep
<1>3. ASSUME NEW o \in Orders, Binance!SendOrder(o) \/ Binance!CancelOrder(o) \/ Binance!VenueMoves(o) PROVE BinanceInv'
  BY <1>3, BinanceSendStep, BinanceCancelStep, BinanceMovesStep
<1>4. CASE Binance!Handler \/ Binance!OnSendOrder
  BY <1>4, BinanceOrderStep, KeyExpiredStep, BinanceAnswerStep DEF Binance!Handler
<1>5. CASE Binance!OnQueryOrder \/ Binance!QueryFails
  BY <1>5, BinanceQueryStep, BinanceQueryFailsStep
<1>6. CASE Binance!Answer
  BY <1>6, StreamStep, StreamFailsStep DEF Binance!Answer
<1>7. CASE Binance!VenueOrder \/ Binance!VenueCancel \/ Binance!VenueQuery \/ Binance!KeyExpires
  BY <1>7, BinanceVenueOrderStep, BinanceVenueCancelStep, BinanceVenueQueryStep, BinanceExpiresStep
<1> QED
  BY <1>1, <1>2, <1>3, <1>4, <1>5, <1>6, <1>7 DEF Binance!Next

LEMMA BinanceExplained == BinanceInv => Binance!PictureExplained
<1> SUFFICES ASSUME BinanceInv PROVE Binance!PictureExplained
  OBVIOUS
<1> USE DEF BinanceInv, BinanceOrderInv
<1>1. Binance!TypeOK
  <2>1. ASSUME NEW o \in Orders PROVE venue[o].lots \in 0 .. Lots /\ traded[o] \in 0 .. Lots /\ missed[o] \in 0 .. Lots
    <3>1. venue[o].lots \in Nat /\ traded[o] \in Nat /\ missed[o] \in Nat /\ LotsIn(o, reports) \in Nat
      BY LotsType DEF BinanceTypes
    <3>2. venue[o].lots <= Lots /\ traded[o] + LotsIn(o, reports) + missed[o] = venue[o].lots
      BY DEF BinanceVenueInv, BinanceLotsInv
    <3> QED
      BY <3>1, <3>2, SessionAssumption
  <2>2. venue \in [Orders -> [state : VenueStates, lots : 0 .. Lots]]
    BY <2>1 DEF BinanceTypes
  <2>3. traded \in [Orders -> 0 .. Lots] /\ missed \in [Orders -> 0 .. Lots]
    BY <2>1 DEF BinanceTypes
  <2>4. Binance!Range(up) \subseteq BinanceRequests /\ Binance!Range(answers) \subseteq BinanceAnswers
    BY DEF BinanceTypes, Binance!Range
  <2>5. asking \in 0 .. MaxDrops + 2
    BY SessionAssumption DEF BinanceTypes, KeyInv
  <2> QED
    BY <2>2, <2>3, <2>4, <2>5, SameWords DEF BinanceTypes, BinanceRequests, BinanceAnswers, Binance!TypeOK
<1>2. Binance!DriftExplained
  <2>1. ASSUME NEW o \in Orders, Denied(o) PROVE Mentions(o, answers, {"order"})
    BY <2>1, MentionsIndex DEF Denied, InFlight, Rejection
  <2>2. \A status, state : Binance!Agree(status, state) <=> Agree(status, state)
    BY SameWords DEF Agree, Binance!Agree
  <2> QED
    BY <2>1, <2>2, SameWords DEF Binance!DriftExplained, BinanceReportInv, Requested, Pending
<1>3. Binance!LotsAccounted
  BY SameWords DEF Binance!LotsAccounted, BinanceLotsInv
<1> QED
  BY <1>1, <1>2, <1>3 DEF Binance!PictureExplained

LEMMA BinanceInvariant == Binance!Spec => []BinanceInv
BY BinanceInit, BinanceStep, PTL DEF Binance!Spec

\* What the engines know of an order of Binance, its status and its lots, is wrong only while a
\* message about it is in flight on one of the two lines or after the losses that its
\* PictureExplained names; no more keys are asked for than lines drop.
THEOREM BinancePictureExplained == Binance!Spec => []Binance!PictureExplained
BY BinanceInvariant, BinanceExplained, PTL

\* No order of Binance that is finished comes back to life, although answers and reports come
\* over two lines, unless the answer to the query arrives behind newer reports.
THEOREM BinanceFinishedStays == Binance!Spec => Binance!FinishedStays
<1>1. ASSUME BinanceInv, [Binance!Next]_Binance!vars, NEW o \in Orders, orders[o] \in Finished, orders'[o] \notin Finished
      PROVE  rest.at = "answered" /\ rest'.at = "done"
  <2>1. orders \in [Orders -> Status \cup {None}] /\ orders[o] # None
    BY <1>1, NoneAssumption DEF BinanceInv, BinanceTypes, Status
  <2>2. orders' # orders
    BY <1>1
  <2>3. ASSUME NEW p \in Orders, Binance!SendOrder(p) PROVE FALSE
    BY <1>1, <2>1, <2>3 DEF Binance!SendOrder
  <2>4. ASSUME Binance!OnOrder PROVE FALSE
    <3>1. reports \in Seq(BinanceReports) /\ reports # <<>> /\ Head(reports).op = "orders"
      BY <1>1, <2>4 DEF BinanceInv, BinanceTypes, Binance!OnOrder
    <3>2. Head(reports).o # o
      BY <1>1, <3>1, MentionsTail DEF BinanceInv, BinanceOrderInv, BinanceReportInv, Pending
    <3> QED
      BY <1>1, <2>1, <2>4, <3>2 DEF Binance!OnOrder
  <2>5. ASSUME Binance!OnSendOrder PROVE FALSE
    BY <1>1, <2>1, <2>5 DEF Binance!OnSendOrder, Binance!Rejected, Finished
  <2>6. CASE Binance!OnQueryOrder
    BY <2>6 DEF Binance!OnQueryOrder
  <2>7. Binance!OnOrder \/ Binance!OnSendOrder \/ Binance!OnQueryOrder \/ \E p \in Orders : Binance!SendOrder(p)
    BY <1>1, <2>2 DEF Binance!Next, Binance!vars, Binance!orderVars, Binance!Handler, Binance!Answer, Binance!Retry,
         Binance!OnTradeDisconnected, Binance!OnUserDisconnected, Binance!Close, Binance!CancelOrder, Binance!VenueMoves,
         Binance!OnListenKeyExpired, Binance!QueryFails, Binance!OnStartUserStream, Binance!StartUserStreamFails,
         Binance!VenueOrder, Binance!VenueCancel, Binance!VenueQuery, Binance!KeyExpires
  <2> QED
    BY <2>3, <2>4, <2>5, <2>6, <2>7
<1>2. BinanceInv /\ [Binance!Next]_Binance!vars =>
        [\A o \in Orders : orders[o] \in Binance!Finished /\ orders'[o] \notin Binance!Finished
                            => rest.at = "answered" /\ rest'.at = "done"]_Binance!vars
  BY <1>1, SameWords
<1> QED
  BY <1>2, BinanceInvariant, PTL DEF Binance!Spec, Binance!FinishedStays
===============================================================================
