------------------------------ MODULE RBreakProofs ------------------------------
(***************************************************************************)
(* Safety of RBreak for any prices, days, pages and number of ticks: the bar   *)
(* under way is that of its ticks, the bars that a query of history returns   *)
(* are one run of minutes whatever its pages, and the position is bounded by  *)
(* one entry, one reversal, the example's tenth and what was filled after a   *)
(* cancel_all.                                                              *)
(***************************************************************************)
EXTENDS RBreak, FiniteSetTheorems, SequenceTheorems, TLAPS

\* The bar's minute and its four prices, said of the ticks it was made of without
\* Max and Min, which a proof by steps cannot follow.
BarInv ==
  /\ bar = NoBar => heard = <<>>
  /\ bar # NoBar =>
       /\ heard \in Seq(Int) /\ heard # <<>>
       /\ bar = Bar(heardMinute, heard[1], bar.high, bar.low, heard[Len(heard)])
       /\ bar.high \in ToSet(heard) /\ \A x \in ToSet(heard) : x <= bar.high
       /\ bar.low \in ToSet(heard) /\ \A x \in ToSet(heard) : bar.low <= x

\* A step that handles a tick.
Ticking ==
  \E price \in Prices, minute \in {now, now - 1} : Tick([price |-> price, minute |-> minute])
-------------------------------------------------------------------------------
\* A bar is not the value that says there is none.
LEMMA BarIsSome == \A m, o, h, l, c : Bar(m, o, h, l, c) # NoBar
<1> SUFFICES ASSUME NEW m, NEW o, NEW h, NEW l, NEW c PROVE Bar(m, o, h, l, c) # NoBar
  OBVIOUS
<1>1. "minute" \in DOMAIN Bar(m, o, h, l, c)
  BY DEF Bar
<1>2. DOMAIN NoBar = 1 .. 0
  BY DEF NoBar
<1>3. "minute" \notin 1 .. 0
  OBVIOUS
<1> QED
  BY <1>1, <1>2, <1>3

\* What bounds a set and is in it is its maximum, or its minimum.
LEMMA MaxIs ==
  ASSUME NEW S \in SUBSET Int, NEW m \in S, \A x \in S : x <= m
  PROVE  Max(S) = m
<1>1. \A y \in S : m >= y
  OBVIOUS
<1>2. Max(S) \in S /\ \A y \in S : Max(S) >= y
  BY <1>1 DEF Max
<1>3. Max(S) \in Int /\ m \in Int /\ Max(S) <= m /\ m <= Max(S)
  BY <1>2
<1> QED
  BY <1>3

LEMMA MinIs ==
  ASSUME NEW S \in SUBSET Int, NEW m \in S, \A x \in S : m <= x
  PROVE  Min(S) = m
<1>1. \A y \in S : m =< y
  OBVIOUS
<1>2. Min(S) \in S /\ \A y \in S : Min(S) =< y
  BY <1>1 DEF Min
<1>3. Min(S) \in Int /\ m \in Int /\ Min(S) <= m /\ m <= Min(S)
  BY <1>2
<1> QED
  BY <1>3

LEMMA OfTwo ==
  ASSUME NEW a \in Int, NEW b \in Int
  PROVE  /\ Max({a, b}) \in {a, b} /\ a <= Max({a, b}) /\ b <= Max({a, b})
         /\ Min({a, b}) \in {a, b} /\ Min({a, b}) <= a /\ Min({a, b}) <= b
<1>1. CASE a <= b
  <2>1. Max({a, b}) = b
    BY <1>1, MaxIs
  <2>2. Min({a, b}) = a
    BY <1>1, MinIs
  <2> QED
    BY <1>1, <2>1, <2>2
<1>2. CASE b <= a
  <2>1. Max({a, b}) = a
    BY <1>2, MaxIs
  <2>2. Min({a, b}) = b
    BY <1>2, MinIs
  <2> QED
    BY <1>2, <2>1, <2>2
<1> QED
  BY <1>1, <1>2

\* What a further tick adds to the prices heard.
LEMMA OneMore ==
  ASSUME NEW q \in Seq(Int), NEW p \in Int
  PROVE  /\ Append(q, p) \in Seq(Int) /\ Append(q, p) # <<>>
         /\ Append(q, p)[Len(Append(q, p))] = p
         /\ q # <<>> => Append(q, p)[1] = q[1]
         /\ ToSet(Append(q, p)) = ToSet(q) \cup {p}
<1>1. Append(q, p) \in Seq(Int) /\ Len(Append(q, p)) = Len(q) + 1
  OBVIOUS
<1>5. Append(q, p) # <<>>
  BY <1>1, EmptySeq
<1>6. q # <<>> => Len(q) >= 1
  BY EmptySeq
<1>2. DOMAIN Append(q, p) = 1 .. Len(q) + 1 /\ DOMAIN q = 1 .. Len(q) /\ Len(q) \in Nat
  OBVIOUS
<1>3. \A i \in 1 .. Len(q) : Append(q, p)[i] = q[i]
  OBVIOUS
<1>4. Append(q, p)[Len(q) + 1] = p
  OBVIOUS
<1>7. q # <<>> => Append(q, p)[1] = q[1]
  BY <1>2, <1>3, <1>6
<1>8. ToSet(Append(q, p)) = ToSet(q) \cup {p}
  BY <1>2, <1>3, <1>4 DEF ToSet
<1> QED
  BY <1>1, <1>4, <1>5, <1>7, <1>8

LEMMA PricesAreInts == \A p \in Prices : p \in Int
BY RBreakAssumption

LEMMA BarInit == Init => BarInv
BY DEF Init, BarInv

\* A tick with a price extends the bar of its minute or begins another one.
LEMMA BarTick ==
  ASSUME BarInv, NEW t, t.price \in Prices, Tick(t)
  PROVE  BarInv'
<1>1. /\ bar' = UpdateTick(bar, t)
      /\ heard' = IF t.price = 0 THEN heard
                  ELSE IF t.minute = heardMinute THEN Append(heard, t.price) ELSE <<t.price>>
      /\ heardMinute' = IF t.price = 0 THEN heardMinute ELSE t.minute
  BY DEF Tick
<1>2. t.price \in Int
  BY PricesAreInts
<1>3. CASE t.price = 0
  BY <1>1, <1>3 DEF UpdateTick, BarInv
<1>4. CASE t.price # 0 /\ Joins(bar, t)
  <2>1. /\ bar # NoBar /\ bar.minute = t.minute
        /\ heard \in Seq(Int) /\ heard # <<>>
        /\ bar = Bar(heardMinute, heard[1], bar.high, bar.low, heard[Len(heard)])
        /\ bar.high \in ToSet(heard) /\ \A x \in ToSet(heard) : x <= bar.high
        /\ bar.low \in ToSet(heard) /\ \A x \in ToSet(heard) : bar.low <= x
    BY <1>4 DEF Joins, BarInv
  <2>2. bar.minute = heardMinute /\ bar.open = heard[1]
    BY <2>1 DEF Bar
  <2> DEFINE high == Max({bar.high, t.price})
             low == Min({bar.low, t.price})
             q == Append(heard, t.price)
  <2>3. bar' = Bar(t.minute, bar.open, high, low, t.price)
    BY <1>1, <1>4, <2>1 DEF UpdateTick, Bar
  <2>4. heard' = q /\ heardMinute' = t.minute
    BY <1>1, <1>4, <2>1, <2>2
  <2>5. ToSet(heard) \subseteq Int
    BY <2>1 DEF ToSet
  <2>6. /\ high \in {bar.high, t.price} /\ bar.high <= high /\ t.price <= high
        /\ low \in {bar.low, t.price} /\ low <= bar.low /\ low <= t.price
    BY <1>2, <2>1, <2>5, OfTwo
  <2>7. /\ q \in Seq(Int) /\ q # <<>> /\ q[Len(q)] = t.price /\ q[1] = heard[1]
        /\ ToSet(q) = ToSet(heard) \cup {t.price}
    BY <1>2, <2>1, OneMore
  <2> HIDE DEF high, low, q
  <2>8. high \in ToSet(q) /\ low \in ToSet(q)
    BY <2>1, <2>6, <2>7
  <2>9. \A x \in ToSet(q) : x <= high /\ low <= x
    BY <1>2, <2>1, <2>5, <2>6, <2>7
  <2>10. bar'.high = high /\ bar'.low = low
    BY <2>3 DEF Bar
  <2>11. bar' = Bar(heardMinute', heard'[1], bar'.high, bar'.low, heard'[Len(heard')])
    BY <2>2, <2>3, <2>4, <2>7, <2>10
  <2>12. bar' # NoBar
    BY <2>3, BarIsSome
  <2> QED
    BY <2>4, <2>7, <2>8, <2>9, <2>10, <2>11, <2>12 DEF BarInv
<1>5. CASE t.price # 0 /\ ~Joins(bar, t)
  <2>1. bar' = Bar(t.minute, t.price, t.price, t.price, t.price)
    BY <1>1, <1>5 DEF UpdateTick
  <2>2. bar # NoBar => bar.minute = heardMinute
    BY DEF BarInv, Bar
  <2>3. heard' = <<t.price>> /\ heardMinute' = t.minute
    <3>1. CASE bar = NoBar
      BY <1>1, <1>5, <3>1 DEF BarInv
    <3>2. CASE bar # NoBar
      BY <1>1, <1>5, <2>2, <3>2 DEF Joins
    <3> QED
      BY <3>1, <3>2
  <2>4. /\ <<t.price>> \in Seq(Int) /\ <<t.price>> # <<>>
        /\ <<t.price>>[1] = t.price /\ Len(<<t.price>>) = 1
    BY <1>2
  <2>5. ToSet(<<t.price>>) = {t.price}
    BY <2>4 DEF ToSet
  <2>6. bar'.high = t.price /\ bar'.low = t.price
    BY <2>1 DEF Bar
  <2>7. bar' # NoBar
    BY <2>1, BarIsSome
  <2> QED
    BY <1>2, <2>1, <2>3, <2>4, <2>5, <2>6, <2>7 DEF BarInv
<1> QED
  BY <1>3, <1>4, <1>5

\* Nothing else touches the bar.
LEMMA BarRest ==
  ASSUME [Next]_vars, ~Ticking
  PROVE  UNCHANGED <<bar, heard, heardMinute>>
<1>1. CASE UNCHANGED vars
  BY <1>1 DEF vars, strategyVars
<1>2. CASE (OkxTurn \/ BinanceTurn \/ PageFails \/ Minute \/ Return) /\ UNCHANGED strategyVars
  BY <1>2 DEF strategyVars
<1>3. CASE \E price \in Prices, minute \in {now, now - 1} : Tick([price |-> price, minute |-> minute])
  BY <1>3 DEF Ticking
<1>4. CASE Start \/ LoadBar \/ Loaded \/ Stop
  BY <1>4 DEF Start, LoadBar, Loaded, Stop
<1>5. CASE \E o \in orders : Known(o) \/ Fill(o) \/ Cancelled(o)
  BY <1>5 DEF Known, Fill, Cancelled
<1> QED
  BY <1>1, <1>2, <1>3, <1>4, <1>5 DEF Next

LEMMA BarStep == BarInv /\ [Next]_vars => BarInv'
<1> SUFFICES ASSUME BarInv, [Next]_vars PROVE BarInv'
  OBVIOUS
<1>1. CASE Ticking
  <2>1. PICK price \in Prices, minute \in {now, now - 1} : Tick([price |-> price, minute |-> minute])
    BY <1>1 DEF Ticking
  <2> DEFINE t == [price |-> price, minute |-> minute]
  <2>2. t.price \in Prices /\ Tick(t)
    BY <2>1
  <2> HIDE DEF t
  <2> QED
    BY <2>2, BarTick
<1>2. CASE ~Ticking
  BY <1>2, BarRest DEF BarInv
<1> QED
  BY <1>1, <1>2

LEMMA BarImplies == BarInv => BarsFaithful
<1> SUFFICES ASSUME BarInv, bar # NoBar PROVE bar = BarOf(heardMinute, heard)
  BY DEF BarsFaithful
<1>1. ToSet(heard) \in SUBSET Int
  BY DEF BarInv, ToSet
<1>2. Max(ToSet(heard)) = bar.high
  BY <1>1, MaxIs DEF BarInv
<1>3. Min(ToSet(heard)) = bar.low
  BY <1>1, MinIs DEF BarInv
<1> QED
  BY <1>2, <1>3 DEF BarInv, BarOf, Last

\* For any prices and any number of ticks: the bar under way has the first, the
\* highest, the lowest and the last price of its minute's ticks.
THEOREM BarsOfTicks == Spec => []BarsFaithful
<1>1. Init => BarInv
  BY BarInit
<1>2. BarInv /\ [Next]_vars => BarInv'
  BY BarStep
<1>3. BarInv => BarsFaithful
  BY BarImplies
<1> QED
  BY <1>1, <1>2, <1>3, PTL DEF Spec
-------------------------------------------------------------------------------
(* The position.  A bound on a sum over sets of orders is carried step by step *)
(* by what each kind of order can still add: at most one short order, one long *)
(* order, waiting as a stop order or working, and the example's tenth.        *)

Dirs == {"LONG", "SHORT"}
OrderType == [n : Nat, dir : Dirs, volume : Nat \ {0}, known : BOOLEAN, asked : BOOLEAN, over : BOOLEAN]

\* Orders of numbers 1 .. n, stop orders and the other variables are of their types.
Kinds ==
  /\ \A o \in orders : o \in OrderType /\ 1 <= o.n /\ o.n <= sent
  /\ \A x \in stops : x.dir \in Dirs /\ x.volume \in Nat \ {0}
  /\ IsFiniteSet(stops)
  /\ pos \in Int /\ index \in 0 .. 2 /\ sent \in Nat /\ late \in [Dirs -> Nat]

Share(dir, s, l) == IF dir = "SHORT" THEN s ELSE l

\* One item of a direction, among the working orders but the tenth and the stop orders.
Single(os, sts, tenth) ==
  /\ \A o, p \in os : o.n # tenth /\ p.n # tenth /\ o.dir = p.dir => o = p
  /\ \A o, p \in os : o.n = tenth /\ p.n = tenth => o = p
  /\ \A o \in os, x \in sts : o.n # tenth => o.dir # x.dir
  /\ \A x, y \in sts : x.dir = y.dir => x = y

\* What the short, the long and the tenth's order can still add.
Shares(os, sts, s, l, b, tenth) ==
  /\ \A o \in os : o.n # tenth => o.volume <= Share(o.dir, s, l)
  /\ \A o \in os : o.n = tenth => o.dir = "LONG" /\ o.volume <= b
  /\ \A x \in sts : x.volume <= Share(x.dir, s, l)

Top(i) == IF i = 2 THEN 31 ELSE 30
Within(low, high, i, s, l, b) == -10 <= low - s /\ high + l + b <= Top(i)

\* Until on_tick has bought its tenth there is no such order.
Tenth(i, b, tenth) == i = 2 \/ (tenth = 0 /\ b = 0)

\* Orders that no cancel_all was made over.
Working(os) == {o \in os : ~o.over}

Bounded(os, sts, low, high, i, n) ==
  \E s, l, b \in Nat, tenth \in 0 .. n :
    /\ Single(os, sts, tenth) /\ Shares(os, sts, s, l, b, tenth)
    /\ Within(low, high, i, s, l, b) /\ Tenth(i, b, tenth)

\* The position without the late fills of one direction.
Low == pos + late["SHORT"]
High == pos - late["LONG"]

PosInv == Kinds /\ Bounded(Working(orders), stops, Low, High, index, sent)
-------------------------------------------------------------------------------
LEMMA PosInit == Init => PosInv
<1> SUFFICES ASSUME Init PROVE PosInv
  OBVIOUS
<1>1. /\ orders = {} /\ stops = {} /\ pos = 0 /\ index = 0 /\ sent = 0
      /\ late = [d \in Dirs |-> 0]
  BY DEF Init, Dirs
<1>2. Kinds
  BY <1>1, FS_EmptySet DEF Kinds
<1>3. Single({}, {}, 0) /\ Shares({}, {}, 0, 0, 0, 0) /\ Within(0, 0, 0, 0, 0, 0) /\ Tenth(0, 0, 0)
  BY DEF Single, Shares, Within, Top, Tenth
<1>4. Bounded({}, {}, 0, 0, 0, 0)
  BY <1>3 DEF Bounded
<1>5. Working(orders) = {}
  BY <1>1 DEF Working
<1>6. Low = 0 /\ High = 0
  BY <1>1 DEF Low, High, Dirs
<1> QED
  BY <1>1, <1>2, <1>4, <1>5, <1>6 DEF PosInv

\* The position and its late fills are numbers, and Low and High are beside the position.
LEMMA Beside ==
  ASSUME Kinds
  PROVE  /\ pos \in Int /\ late["SHORT"] \in Nat /\ late["LONG"] \in Nat
         /\ Low \in Int /\ High \in Int /\ pos <= Low /\ High <= pos
         /\ Low = pos + late["SHORT"] /\ High = pos - late["LONG"]
<1>1. pos \in Int /\ late["SHORT"] \in Nat /\ late["LONG"] \in Nat
  BY DEF Kinds, Dirs
<1> QED
  BY <1>1 DEF Low, High

LEMMA PosWithin ==
  ASSUME PosInv
  PROVE  -10 <= Low /\ High <= Top(index)
<1>1. Low \in Int /\ High \in Int
  BY Beside DEF PosInv
<1>2. PICK s, l, b \in Nat : Within(Low, High, index, s, l, b)
  BY DEF PosInv, Bounded
<1> QED
  BY <1>1, <1>2 DEF Within, Top

LEMMA PosImplies == PosInv => PosBounded
<1> SUFFICES ASSUME PosInv PROVE PosBounded
  OBVIOUS
<1>1. /\ pos \in Int /\ late["SHORT"] \in Nat /\ late["LONG"] \in Nat
      /\ Low = pos + late["SHORT"] /\ High = pos - late["LONG"]
  BY Beside DEF PosInv
<1>2. -10 <= Low /\ High <= 31
  BY <1>1, PosWithin DEF Top
<1> QED
  BY <1>1, <1>2 DEF PosBounded

\* A sequence made of a finite set has each of its elements once.
LEMMA SeqOfSet ==
  ASSUME NEW S, IsFiniteSet(S)
  PROVE  /\ Cardinality(S) \in Nat
         /\ \A i \in 1 .. Cardinality(S) : SetToSeq(S)[i] \in S
         /\ \A i, j \in 1 .. Cardinality(S) : SetToSeq(S)[i] = SetToSeq(S)[j] => i = j
<1>1. Cardinality(S) \in Nat /\ ExistsBijection(1 .. Cardinality(S), S)
  BY FS_CardinalityType
<1>2. \E f \in [1 .. Cardinality(S) -> S] : IsInjective(f)
  BY <1>1 DEF ExistsBijection, Bijection, Injection
<1>3. SetToSeq(S) \in [1 .. Cardinality(S) -> S] /\ IsInjective(SetToSeq(S))
  BY <1>2 DEF SetToSeq
<1> QED
  BY <1>1, <1>3 DEF IsInjective

\* The orders of triggered stop orders are new, one of a direction, and have the
\* volumes of the stop orders.
LEMMA FreshOrders ==
  ASSUME NEW fired, IsFiniteSet(fired), sent \in Nat,
         \A x \in fired : x.dir \in Dirs /\ x.volume \in Nat \ {0}
  PROVE  /\ Cardinality(fired) \in Nat
         /\ \A o \in Fresh(fired) :
              /\ o.n \in Nat /\ sent < o.n /\ o.n <= sent + Cardinality(fired)
              /\ o.over = FALSE
              /\ \E x \in fired : o.dir = x.dir /\ o.volume = x.volume
         /\ (\A x, y \in fired : x.dir = y.dir => x = y) =>
              \A o, p \in Fresh(fired) : o.dir = p.dir => o = p
<1> DEFINE first == SetToSeq(fired)
           k == Cardinality(fired)
<1>1. /\ k \in Nat
      /\ \A i \in 1 .. k : first[i] \in fired
      /\ \A i, j \in 1 .. k : first[i] = first[j] => i = j
  BY SeqOfSet
<1>2. \A o \in Fresh(fired) : \E i \in 1 .. k :
        /\ o = Order(sent + i, first[i].dir, first[i].volume)
        /\ o.n = sent + i /\ o.dir = first[i].dir /\ o.volume = first[i].volume /\ o.over = FALSE
  BY DEF Fresh, Order
<1> HIDE DEF first, k
<1>3. ASSUME NEW o \in Fresh(fired)
      PROVE  /\ o.n \in Nat /\ sent < o.n /\ o.n <= sent + k
             /\ o.over = FALSE
             /\ \E x \in fired : o.dir = x.dir /\ o.volume = x.volume
  <2>1. PICK i \in 1 .. k :
          o.n = sent + i /\ o.dir = first[i].dir /\ o.volume = first[i].volume /\ o.over = FALSE
    BY <1>2, <1>3
  <2>2. i \in Nat /\ 1 <= i /\ i <= k
    BY <1>1, <2>1
  <2> QED
    BY <1>1, <2>1, <2>2
<1>4. ASSUME \A x, y \in fired : x.dir = y.dir => x = y,
             NEW o \in Fresh(fired), NEW p \in Fresh(fired), o.dir = p.dir
      PROVE  o = p
  <2>1. PICK i \in 1 .. k : o = Order(sent + i, first[i].dir, first[i].volume) /\ o.dir = first[i].dir
    BY <1>2, <1>4
  <2>2. PICK j \in 1 .. k : p = Order(sent + j, first[j].dir, first[j].volume) /\ p.dir = first[j].dir
    BY <1>2, <1>4
  <2>3. first[i] = first[j]
    BY <1>1, <1>4, <2>1, <2>2
  <2> QED
    BY <1>1, <2>1, <2>2, <2>3
<1> QED
  BY <1>1, <1>3, <1>4 DEF k
-------------------------------------------------------------------------------
\* A fill uses up the share of its order, if a cancel_all has not taken it already.
LEMMA PosFill == ASSUME PosInv, NEW o \in orders, Fill(o) PROVE PosInv'
<1>1. /\ orders' = orders \ {o} /\ stops' = stops /\ index' = index /\ sent' = sent
      /\ pos' = IF o.dir = "LONG" THEN pos + o.volume ELSE pos - o.volume
      /\ late' = IF o.over THEN [late EXCEPT ![o.dir] = @ + o.volume] ELSE late
  BY DEF Fill
<1>2. o.dir \in Dirs /\ o.volume \in Nat /\ o.over \in BOOLEAN
  BY DEF PosInv, Kinds, OrderType
<1>3. Kinds'
  <2>1. late' \in [Dirs -> Nat]
    BY <1>1, <1>2 DEF PosInv, Kinds
  <2>2. pos' \in Int
    BY <1>1, <1>2 DEF PosInv, Kinds
  <2> QED
    BY <1>1, <2>1, <2>2 DEF PosInv, Kinds
<1>4. /\ pos \in Int /\ late["SHORT"] \in Nat /\ late["LONG"] \in Nat
      /\ Low \in Int /\ High \in Int
      /\ Low = pos + late["SHORT"] /\ High = pos - late["LONG"]
  BY Beside DEF PosInv
<1>5. Low' = pos' + late'["SHORT"] /\ High' = pos' - late'["LONG"]
  BY DEF Low, High
<1> DEFINE v == o.volume
           W == Working(orders)
<1>6. PICK s \in Nat, l \in Nat, b \in Nat, tenth \in 0 .. sent :
        /\ Single(W, stops, tenth) /\ Shares(W, stops, s, l, b, tenth)
        /\ Within(Low, High, index, s, l, b) /\ Tenth(index, b, tenth)
  BY DEF PosInv, Bounded
<1>7. Working(orders') = W \ {o}
  BY <1>1 DEF Working
<1> HIDE DEF v, W
<1>8. Single(W \ {o}, stops, tenth)
  BY <1>6 DEF Single
<1>9. CASE o.over
  <2>1. W \ {o} = W
    BY <1>9 DEF W, Working
  <2>2. v \in Nat /\ /\ o.dir = "LONG" => Low' = Low + v /\ High' = High
                     /\ o.dir = "SHORT" => Low' = Low /\ High' = High - v
    <3>1. v \in Nat
      BY <1>2 DEF v
    <3>2. CASE o.dir = "LONG"
      <4>1. pos' = pos + v /\ late'["LONG"] = late["LONG"] + v /\ late'["SHORT"] = late["SHORT"]
        BY <1>1, <1>9, <3>2 DEF PosInv, Kinds, Dirs, v
      <4> QED
        BY <1>4, <1>5, <3>1, <3>2, <4>1
    <3>3. CASE o.dir = "SHORT"
      <4>1. pos' = pos - v /\ late'["LONG"] = late["LONG"] /\ late'["SHORT"] = late["SHORT"] + v
        BY <1>1, <1>9, <3>3 DEF PosInv, Kinds, Dirs, v
      <4> QED
        BY <1>4, <1>5, <3>1, <3>3, <4>1
    <3> QED
      BY <3>1, <3>2, <3>3
  <2>3. Within(Low', High', index, s, l, b)
    BY <1>2, <1>4, <1>6, <2>2 DEF Within, Top, Dirs
  <2> QED
    BY <1>1, <1>3, <1>6, <1>7, <2>1, <2>3 DEF PosInv, Bounded
<1>10. CASE ~o.over
  <2>1. o \in W
    BY <1>10 DEF W, Working
  <2>2. v \in Nat /\ /\ o.dir = "LONG" => Low' = Low + v /\ High' = High + v
                     /\ o.dir = "SHORT" => Low' = Low - v /\ High' = High - v
    <3>1. v \in Nat /\ late' = late
      BY <1>1, <1>2, <1>10 DEF v
    <3>2. o.dir = "LONG" => pos' = pos + v
      BY <1>1 DEF v
    <3>3. o.dir = "SHORT" => pos' = pos - v
      BY <1>1 DEF v
    <3> QED
      BY <1>4, <1>5, <3>1, <3>2, <3>3
  <2>5. CASE o.n = tenth
    <3>1. o.dir = "LONG" /\ v <= b
      BY <2>1, <1>6, <2>5 DEF Shares, v
    <3>2. \A p \in W \ {o} : p.n # tenth
      BY <2>1, <1>6, <2>5 DEF Single
    <3>3. Shares(W \ {o}, stops, s, l, 0, tenth)
      BY <1>6, <3>2 DEF Shares
    <3>4. Within(Low', High', index, s, l, 0) /\ Tenth(index, 0, tenth)
      BY <1>4, <1>6, <2>2, <3>1 DEF Within, Top, Tenth
    <3> QED
      BY <1>1, <1>3, <1>6, <1>7, <1>8, <3>3, <3>4 DEF PosInv, Bounded
  <2>6. CASE o.n # tenth /\ o.dir = "LONG"
    <3>1. v <= l
      BY <2>1, <1>6, <2>6 DEF Shares, Share, v
    <3>2. /\ \A p \in W \ {o} : p.n # tenth => p.dir # "LONG"
          /\ \A x \in stops : x.dir # "LONG"
      BY <2>1, <1>6, <2>6 DEF Single
    <3>3. Shares(W \ {o}, stops, s, 0, b, tenth)
      <4>1. \A p \in W \ {o} : p.n # tenth => p.dir = "SHORT"
        BY <3>2 DEF W, Working, PosInv, Kinds, OrderType, Dirs
      <4>2. \A x \in stops : x.dir = "SHORT"
        BY <3>2 DEF PosInv, Kinds, Dirs
      <4> QED
        BY <1>6, <4>1, <4>2 DEF Shares, Share
    <3>4. Within(Low', High', index, s, 0, b)
      BY <1>4, <1>6, <2>2, <2>6, <3>1 DEF Within, Top
    <3> QED
      BY <1>1, <1>3, <1>6, <1>7, <1>8, <3>3, <3>4 DEF PosInv, Bounded
  <2>7. CASE o.n # tenth /\ o.dir = "SHORT"
    <3>1. v <= s
      BY <2>1, <1>6, <2>7 DEF Shares, Share, v
    <3>2. /\ \A p \in W \ {o} : p.n # tenth => p.dir # "SHORT"
          /\ \A x \in stops : x.dir # "SHORT"
      BY <2>1, <1>6, <2>7 DEF Single
    <3>3. Shares(W \ {o}, stops, 0, l, b, tenth)
      BY <1>6, <3>2 DEF Shares, Share
    <3>4. Within(Low', High', index, 0, l, b)
      BY <1>4, <1>6, <2>2, <2>7, <3>1 DEF Within, Top
    <3> QED
      BY <1>1, <1>3, <1>6, <1>7, <1>8, <3>3, <3>4 DEF PosInv, Bounded
  <2> QED
    BY <1>2, <2>5, <2>6, <2>7 DEF Dirs
<1> QED
  BY <1>2, <1>9, <1>10

\* An order that ends adds nothing more.
LEMMA PosCancelled == ASSUME PosInv, NEW o \in orders, Cancelled(o) PROVE PosInv'
<1>1. /\ orders' = orders \ {o}
      /\ stops' = stops /\ index' = index /\ sent' = sent /\ pos' = pos /\ late' = late
  BY DEF Cancelled
<1> DEFINE W == Working(orders)
<1>2. Working(orders') = W \ {o}
  BY <1>1 DEF Working
<1>3. PICK s \in Nat, l \in Nat, b \in Nat, tenth \in 0 .. sent :
        /\ Single(W, stops, tenth) /\ Shares(W, stops, s, l, b, tenth)
        /\ Within(Low, High, index, s, l, b) /\ Tenth(index, b, tenth)
  BY DEF PosInv, Bounded
<1> HIDE DEF W
<1>4. Single(W \ {o}, stops, tenth) /\ Shares(W \ {o}, stops, s, l, b, tenth)
  BY <1>3 DEF Single, Shares
<1>5. Bounded(W \ {o}, stops, Low, High, index, sent)
  BY <1>3, <1>4 DEF Bounded
<1>6. Kinds' /\ Low' = Low /\ High' = High
  BY <1>1 DEF PosInv, Kinds, Low, High
<1> QED
  BY <1>1, <1>2, <1>5, <1>6 DEF PosInv

\* An order that OmsEngine comes to know is the order that it was.
LEMMA PosKnown == ASSUME PosInv, NEW o \in orders, Known(o) PROVE PosInv'
<1> DEFINE q == [o EXCEPT !.known = TRUE]
           W == Working(orders)
           V == Working(orders')
<1>1. /\ orders' = (orders \ {o}) \cup {q}
      /\ stops' = stops /\ index' = index /\ sent' = sent /\ pos' = pos /\ late' = late
  BY DEF Known
<1>2. q \in OrderType /\ q.n = o.n /\ q.dir = o.dir /\ q.volume = o.volume /\ q.over = o.over
  BY DEF PosInv, Kinds, OrderType
<1>3. PICK s \in Nat, l \in Nat, b \in Nat, tenth \in 0 .. sent :
        /\ Single(W, stops, tenth) /\ Shares(W, stops, s, l, b, tenth)
        /\ Within(Low, High, index, s, l, b) /\ Tenth(index, b, tenth)
  BY DEF PosInv, Bounded
<1> HIDE DEF q
<1>4. \A p \in V : (p \in W /\ p # o) \/ (p = q /\ o \in W)
  BY <1>1, <1>2 DEF Working
<1>5. Kinds' /\ Low' = Low /\ High' = High
  <2>1. \A p \in orders' : p \in OrderType /\ 1 <= p.n /\ p.n <= sent
    BY <1>1, <1>2 DEF PosInv, Kinds
  <2> QED
    BY <1>1, <2>1 DEF PosInv, Kinds, Low, High
<1> HIDE DEF V, W
<1>6. Single(V, stops, tenth)
  BY <1>2, <1>3, <1>4 DEF Single
<1>7. Shares(V, stops, s, l, b, tenth)
  BY <1>2, <1>3, <1>4 DEF Shares
<1>8. Bounded(V, stops, Low, High, index, sent)
  BY <1>3, <1>6, <1>7 DEF Bounded
<1> QED
  BY <1>1, <1>5, <1>8 DEF PosInv, V

LEMMA WithdrawnOrders ==
  ASSUME NEW os \in SUBSET OrderType
  PROVE  /\ Working(Withdrawn(os)) = {}
         /\ \A o \in Withdrawn(os) : o \in OrderType /\ \E p \in os : o.n = p.n
<1>1. ASSUME NEW o \in Withdrawn(os)
      PROVE  o \in OrderType /\ o.over = TRUE /\ \E p \in os : o.n = p.n
  <2>1. PICK p \in os : o = [p EXCEPT !.over = TRUE, !.asked = @ \/ p.known]
    BY <1>1 DEF Withdrawn
  <2>2. p \in OrderType /\ (p.asked \/ p.known) \in BOOLEAN
    BY DEF OrderType
  <2> QED
    BY <2>1, <2>2 DEF OrderType
<1> QED
  BY <1>1 DEF Working

\* Nothing is left to add, to a position that is within its bounds.
LEMMA NothingPending ==
  ASSUME NEW low \in Int, NEW high \in Int, NEW i, NEW n \in Nat, -10 <= low, high <= Top(i)
  PROVE  Bounded({}, {}, low, high, i, n)
<1>1. Single({}, {}, 0) /\ Shares({}, {}, 0, 0, 0, 0)
  BY DEF Single, Shares
<1>2. Within(low, high, i, 0, 0, 0) /\ Tenth(i, 0, 0)
  BY DEF Within, Top, Tenth
<1> QED
  BY <1>1, <1>2 DEF Bounded

LEMMA PosStop == ASSUME PosInv, Stop PROVE PosInv'
<1>1. /\ stops' = {} /\ orders' = Withdrawn(orders)
      /\ index' = index /\ sent' = sent /\ pos' = pos /\ late' = late
  BY DEF Stop
<1>2. orders \subseteq OrderType /\ sent \in Nat
  BY DEF PosInv, Kinds
<1>3. Working(orders') = {}
  BY <1>1, <1>2, WithdrawnOrders
<1>4. Kinds'
  <2>1. \A o \in orders' : o \in OrderType /\ 1 <= o.n /\ o.n <= sent
    BY <1>1, <1>2, WithdrawnOrders DEF PosInv, Kinds
  <2> QED
    BY <1>1, <2>1, FS_EmptySet DEF PosInv, Kinds
<1>5. Bounded({}, {}, Low, High, index, sent)
  <2>1. Low \in Int /\ High \in Int
    BY Beside DEF PosInv
  <2> QED
    BY <1>2, <2>1, PosWithin, NothingPending
<1>6. Low' = Low /\ High' = High
  BY <1>1 DEF Low, High
<1> QED
  BY <1>1, <1>3, <1>4, <1>5, <1>6 DEF PosInv

\* What neither trades nor handles a tick leaves the position and its orders alone.
LEMMA PosRest ==
  ASSUME [Next]_vars, ~Ticking, ~Stop, ~\E o \in orders : Known(o) \/ Fill(o) \/ Cancelled(o)
  PROVE  UNCHANGED <<orders, stops, pos, index, sent, late>>
<1>1. CASE UNCHANGED vars
  BY <1>1 DEF vars, strategyVars
<1>2. CASE (OkxTurn \/ BinanceTurn \/ PageFails \/ Minute \/ Return) /\ UNCHANGED strategyVars
  BY <1>2 DEF strategyVars
<1>3. CASE \E price \in Prices, minute \in {now, now - 1} : Tick([price |-> price, minute |-> minute])
  BY <1>3 DEF Ticking
<1>4. CASE Start \/ LoadBar \/ Loaded
  BY <1>4 DEF Start, LoadBar, Loaded
<1> QED
  BY <1>1, <1>2, <1>3, <1>4 DEF Next
-------------------------------------------------------------------------------
\* What on_bar sets for this position: one stop order of a direction, which closes it
\* or, when flat, enters by ten and reverses by thirty.
ShortShare == IF pos = 0 THEN 10 ELSE IF pos > 0 THEN pos ELSE 0
LongShare == IF pos = 0 THEN 30 ELSE IF pos > 0 THEN 0 ELSE -pos

LEMMA StopOrdersOf ==
  ASSUME NEW r, pos \in Int
  PROVE  /\ IsFiniteSet(StopOrders(r))
         /\ \A x \in StopOrders(r) : /\ x.dir \in Dirs /\ x.volume \in Nat \ {0}
                                     /\ x.volume <= Share(x.dir, ShortShare, LongShare)
         /\ \A x, y \in StopOrders(r) : x.dir = y.dir => x = y
<1>1. CASE pos = 0 /\ r.levels.buy_setup > 0
  <2> DEFINE a == [dir |-> "SHORT", volume |-> 10, price |-> Min({r.levels.sell_break, 1000 * r.day.low})]
             c == [dir |-> "LONG", volume |-> 30, price |-> r.levels.buy_enter]
  <2>1. StopOrders(r) = {a, c}
    BY <1>1 DEF StopOrders
  <2>2. a.dir = "SHORT" /\ a.volume = 10 /\ c.dir = "LONG" /\ c.volume = 30
    OBVIOUS
  <2> HIDE DEF a, c
  <2>3. IsFiniteSet({a, c})
    <3>1. IsFiniteSet({a}) /\ {a, c} = {a} \cup {c}
      BY FS_Singleton
    <3> QED
      BY <3>1, FS_AddElement
  <2> QED
    BY <1>1, <2>1, <2>2, <2>3 DEF Dirs, Share, ShortShare, LongShare
<1>2. CASE pos = 0 /\ ~(r.levels.buy_setup > 0)
  <2>1. StopOrders(r) = {}
    BY <1>2 DEF StopOrders
  <2> QED
    BY <2>1, FS_EmptySet
<1>3. CASE pos > 0
  <2> DEFINE a == [dir |-> "SHORT", volume |-> pos, price |-> 996 * r.intra.high]
  <2>1. StopOrders(r) = {a}
    BY <1>3 DEF StopOrders
  <2>2. a.dir = "SHORT" /\ a.volume = pos
    OBVIOUS
  <2> HIDE DEF a
  <2>3. IsFiniteSet({a})
    BY FS_Singleton
  <2>4. a.volume \in Nat \ {0} /\ a.volume <= Share(a.dir, ShortShare, LongShare) /\ a.dir \in Dirs
    BY <1>3, <2>2 DEF Dirs, Share, ShortShare
  <2> QED
    BY <2>1, <2>3, <2>4
<1>4. CASE pos < 0
  <2> DEFINE a == [dir |-> "LONG", volume |-> -pos, price |-> 1004 * r.intra.low]
  <2>1. StopOrders(r) = {a}
    BY <1>4 DEF StopOrders
  <2>2. a.dir = "LONG" /\ a.volume = -pos
    OBVIOUS
  <2> HIDE DEF a
  <2>3. IsFiniteSet({a})
    BY FS_Singleton
  <2>4. a.volume \in Nat \ {0} /\ a.volume <= Share(a.dir, ShortShare, LongShare) /\ a.dir \in Dirs
    BY <1>4, <2>2 DEF Dirs, Share, LongShare
  <2> QED
    BY <2>1, <2>3, <2>4
<1> QED
  BY <1>1, <1>2, <1>3, <1>4

\* The example's order is of a number of its own.
LEMMA WithTenth ==
  ASSUME NEW os, NEW sts, NEW s \in Nat, NEW l \in Nat, NEW m \in Nat,
         \A o \in os : o.n \in Nat /\ 1 <= o.n /\ o.n <= m,
         Single(os, sts, 0), Shares(os, sts, s, l, 0, 0)
  PROVE  LET T == Order(m + 1, "LONG", 1) IN
           Single(os \cup {T}, sts, m + 1) /\ Shares(os \cup {T}, sts, s, l, 1, m + 1)
<1> DEFINE T == Order(m + 1, "LONG", 1)
<1>1. T.n = m + 1 /\ T.dir = "LONG" /\ T.volume = 1
  BY DEF Order
<1>2. \A o \in os : o.n # 0 /\ o.n # m + 1
  OBVIOUS
<1> HIDE DEF T
<1>3. Single(os \cup {T}, sts, m + 1)
  BY <1>1, <1>2 DEF Single
<1>4. Shares(os \cup {T}, sts, s, l, 1, m + 1)
  BY <1>1, <1>2 DEF Shares
<1> QED
  BY <1>3, <1>4 DEF T

\* A stop order that becomes an order keeps its share.
LEMMA WithFresh ==
  ASSUME NEW os, NEW sts, NEW fired \in SUBSET sts, NEW fresh, NEW s \in Nat, NEW l \in Nat,
         NEW b \in Nat, NEW tenth,
         Single(os, sts, tenth), Shares(os, sts, s, l, b, tenth),
         \A o \in fresh : o.n # tenth /\ \E x \in fired : o.dir = x.dir /\ o.volume = x.volume,
         \A o, p \in fresh : o.dir = p.dir => o = p
  PROVE  Single(os \cup fresh, sts \ fired, tenth) /\ Shares(os \cup fresh, sts \ fired, s, l, b, tenth)
<1>1. \A o \in os, f \in fresh : o.n # tenth => o.dir # f.dir
  BY DEF Single
<1>2. \A f \in fresh, x \in sts \ fired : f.dir # x.dir
  BY DEF Single
<1>3. \A f \in fresh : f.n # tenth /\ f.volume <= Share(f.dir, s, l)
  BY DEF Shares
<1>4. Single(os \cup fresh, sts \ fired, tenth)
  BY <1>1, <1>2, <1>3 DEF Single
<1>5. Shares(os \cup fresh, sts \ fired, s, l, b, tenth)
  BY <1>3 DEF Shares
<1> QED
  BY <1>4, <1>5
-------------------------------------------------------------------------------
\* What on_bar sets, with nothing else at work, keeps the position within its bounds.
LEMMA BoundedByStops ==
  ASSUME NEW sts, PosInv, NEW n \in Nat,
         \A x \in sts : x.volume <= Share(x.dir, ShortShare, LongShare),
         \A x, y \in sts : x.dir = y.dir => x = y
  PROVE  Bounded({}, sts, Low, High, index, n)
<1>0. pos \in Int /\ Low \in Int /\ High \in Int /\ pos <= Low /\ High <= pos
  BY Beside DEF PosInv
<1>1. ShortShare \in Nat /\ LongShare \in Nat
  BY <1>0 DEF ShortShare, LongShare
<1>2. Within(Low, High, index, ShortShare, LongShare, 0)
  <2>1. -10 <= Low /\ High <= Top(index)
    BY PosWithin
  <2> DEFINE low == Low
             high == High
             top == Top(index)
  <2>2. low \in Int /\ high \in Int /\ pos <= low /\ high <= pos /\ -10 <= low /\ high <= top /\ top \in {30, 31}
    BY <1>0, <2>1 DEF Top
  <2> HIDE DEF low, high, top
  <2>3. -10 <= low - ShortShare /\ high + LongShare + 0 <= top
    BY <1>0, <2>2 DEF ShortShare, LongShare
  <2> QED
    BY <2>3 DEF Within, low, high, top
<1>3. Single({}, sts, 0) /\ Shares({}, sts, ShortShare, LongShare, 0, 0) /\ Tenth(index, 0, 0)
  BY DEF Single, Shares, Tenth
<1>4. 0 \in Nat /\ 0 \in 0 .. n
  OBVIOUS
<1> QED
  BY <1>1, <1>2, <1>3, <1>4 DEF Bounded

\* The stop orders that a tick triggers and what becomes of them before on_tick.
LEMMA FreshBounded ==
  ASSUME PosInv, NEW fired \in SUBSET stops, IsFiniteSet(fired), NEW n \in Nat,
         n = sent + Cardinality(fired)
  PROVE  Bounded(Working(orders \cup Fresh(fired)), stops \ fired, Low, High, index, n)
<1>1. PICK s \in Nat, l \in Nat, b \in Nat, tenth \in 0 .. sent :
        /\ Single(Working(orders), stops, tenth)
        /\ Shares(Working(orders), stops, s, l, b, tenth)
        /\ Within(Low, High, index, s, l, b) /\ Tenth(index, b, tenth)
  BY DEF PosInv, Bounded
<1>2. sent \in Nat /\ \A x \in fired : x.dir \in Dirs /\ x.volume \in Nat \ {0}
  BY DEF PosInv, Kinds
<1>3. \A x, y \in fired : x.dir = y.dir => x = y
  BY <1>1 DEF Single
<1>4. /\ Cardinality(fired) \in Nat
      /\ \A o \in Fresh(fired) :
           /\ o.n \in Nat /\ sent < o.n
           /\ o.over = FALSE
           /\ \E x \in fired : o.dir = x.dir /\ o.volume = x.volume
      /\ \A o, p \in Fresh(fired) : o.dir = p.dir => o = p
  BY <1>2, <1>3, FreshOrders
<1>5. Working(orders \cup Fresh(fired)) = Working(orders) \cup Fresh(fired)
  BY <1>4 DEF Working
<1>6. \A o \in Fresh(fired) : o.n # tenth /\ \E x \in fired : o.dir = x.dir /\ o.volume = x.volume
  BY <1>1, <1>2, <1>4
<1> DEFINE W == Working(orders)
           F == Fresh(fired)
<1> HIDE DEF W, F
<1>7. Single(W \cup F, stops \ fired, tenth) /\ Shares(W \cup F, stops \ fired, s, l, b, tenth)
  BY <1>1, <1>4, <1>6, WithFresh DEF W, F
<1>8. tenth \in 0 .. n
  BY <1>1, <1>2, <1>4
<1> QED
  BY <1>1, <1>5, <1>7, <1>8 DEF Bounded, W, F

\* on_tick's own order, and its index which is 2 for ever after the second tick.
LEMMA TenthBounded ==
  ASSUME NEW os, NEW sts, NEW n \in Nat, NEW low \in Int, NEW high \in Int, index \in 0 .. 2,
         \A o \in os : o.n \in Nat /\ 1 <= o.n /\ o.n <= n,
         Bounded(os, sts, low, high, index, n)
  PROVE  LET i == IF index = 2 THEN 2 ELSE index + 1 IN
         /\ Bounded(os, sts, low, high, i, n)
         /\ index = 1 => Bounded(os \cup {Order(n + 1, "LONG", 1)}, sts, low, high, i, n + 1)
<1> DEFINE i == IF index = 2 THEN 2 ELSE index + 1
           T == Order(n + 1, "LONG", 1)
<1>1. PICK s \in Nat, l \in Nat, b \in Nat, tenth \in 0 .. n :
        /\ Single(os, sts, tenth) /\ Shares(os, sts, s, l, b, tenth)
        /\ Within(low, high, index, s, l, b) /\ Tenth(index, b, tenth)
  BY DEF Bounded
<1>2. Within(low, high, i, s, l, b) /\ Tenth(i, b, tenth)
  BY <1>1 DEF Within, Tenth, Top
<1>3. Bounded(os, sts, low, high, i, n)
  BY <1>1, <1>2 DEF Bounded
<1>4. ASSUME index = 1 PROVE Bounded(os \cup {T}, sts, low, high, i, n + 1)
  <2>1. tenth = 0 /\ b = 0
    BY <1>1, <1>4 DEF Tenth
  <2>2. Single(os \cup {T}, sts, n + 1) /\ Shares(os \cup {T}, sts, s, l, 1, n + 1)
    BY <1>1, <2>1, WithTenth
  <2>3. Within(low, high, i, s, l, 1) /\ Tenth(i, 1, n + 1)
    BY <1>1, <1>4, <2>1 DEF Within, Tenth, Top
  <2>4. n + 1 \in 0 .. n + 1 /\ 1 \in Nat
    OBVIOUS
  <2> HIDE DEF i, T
  <2> QED
    BY <1>1, <2>2, <2>3, <2>4 DEF Bounded
<1> QED
  BY <1>3, <1>4

LEMMA PosTick == ASSUME PosInv, NEW t, Tick(t) PROVE PosInv'
<1> DEFINE fired == Fired(t.price)
           fresh == Fresh(fired)
           n == sent + Cardinality(fired)
           handed == Closed(bar, t) # NoBar
           base == IF handed /\ trading THEN Withdrawn(orders \cup fresh) ELSE orders \cup fresh
           tenths == IF Buys THEN {Order(n + 1, "LONG", 1)} ELSE {}
<1>1. /\ orders' = base \cup tenths
      /\ sent' = (IF Buys THEN n + 1 ELSE n)
      /\ index' = Min({index + 1, 2})
      /\ pos' = pos /\ late' = late
      /\ Low' = Low /\ High' = High
  BY DEF Tick, Low, High
<1>2. /\ ~trading \/ ~handed => stops' = stops \ fired
      /\ trading /\ handed => stops' = {} \/ \E r : stops' = StopOrders(r)
  BY DEF Tick
<1>3. /\ \A o \in orders : o \in OrderType /\ 1 <= o.n /\ o.n <= sent
      /\ \A x \in stops : x.dir \in Dirs /\ x.volume \in Nat \ {0}
      /\ IsFiniteSet(stops)
      /\ pos \in Int /\ index \in 0 .. 2 /\ sent \in Nat /\ late \in [Dirs -> Nat]
  BY DEF PosInv, Kinds
<1>4. fired \in SUBSET stops /\ IsFiniteSet(fired)
  BY <1>3, FS_Subset DEF Fired
<1>5. index' = IF index = 2 THEN 2 ELSE index + 1
  <2> DEFINE j == index + 1
             m == Min({j, 2})
  <2>1. j \in 1 .. 3 /\ j \in Int
    BY <1>3
  <2> HIDE DEF j
  <2>2. m \in {j, 2} /\ m <= j /\ m <= 2
    BY <2>1, OfTwo
  <2>3. m = IF j <= 2 THEN j ELSE 2
    <3> HIDE DEF m
    <3> QED
      BY <2>1, <2>2
  <2> QED
    BY <1>1, <1>3, <2>1, <2>3 DEF j
<1> HIDE DEF fired
<1>6. Cardinality(fired) \in Nat /\ n \in Nat /\ sent <= n
  BY <1>3, <1>4, FS_CardinalityType
<1>7. \A o \in orders \cup fresh : o \in OrderType /\ 1 <= o.n /\ o.n <= n
  <2>1. \A x \in fired : x.dir \in Dirs /\ x.volume \in Nat \ {0}
    BY <1>3, <1>4
  <2>2. ASSUME NEW o \in fresh PROVE o \in OrderType /\ 1 <= o.n /\ o.n <= n
    <3>1. o.n \in Nat /\ sent < o.n /\ o.n <= n
      BY <1>3, <1>4, <2>1, <2>2, FreshOrders
    <3>2. o \in OrderType
      <4>1. \A i \in 1 .. Cardinality(fired) : SetToSeq(fired)[i] \in fired
        BY <1>4, SeqOfSet
      <4>2. PICK i \in 1 .. Cardinality(fired) :
              o = Order(sent + i, SetToSeq(fired)[i].dir, SetToSeq(fired)[i].volume)
        BY <2>2 DEF Fresh
      <4>3. SetToSeq(fired)[i].dir \in Dirs /\ SetToSeq(fired)[i].volume \in Nat \ {0} /\ sent + i \in Nat
        BY <1>3, <1>6, <2>1, <4>1, <4>2
      <4> QED
        BY <4>2, <4>3 DEF Order, OrderType
    <3> QED
      BY <1>3, <3>1, <3>2
  <2> QED
    BY <1>3, <1>6, <2>2 DEF OrderType
<1> HIDE DEF fresh, n, handed
<1>8. \A o \in base : o \in OrderType /\ 1 <= o.n /\ o.n <= n
  <2>1. orders \cup fresh \in SUBSET OrderType
    BY <1>7
  <2> QED
    BY <1>7, <2>1, WithdrawnOrders
<1>9. Kinds'
  <2>1. \A o \in tenths : o \in OrderType /\ 1 <= o.n /\ o.n <= sent'
    <3>1. CASE Buys
      <4>1. sent' = n + 1 /\ tenths = {Order(n + 1, "LONG", 1)} /\ n + 1 \in Nat
        BY <1>1, <1>6, <3>1
      <4> DEFINE T == Order(n + 1, "LONG", 1)
      <4>2. T \in OrderType /\ T.n = n + 1
        BY <4>1 DEF Order, OrderType, Dirs
      <4> QED
        BY <1>6, <4>1, <4>2
    <3>2. CASE ~Buys
      BY <3>2
    <3> QED
      BY <3>1, <3>2
  <2>2. \A o \in base : o.n <= sent'
    <3> HIDE DEF base
    <3>1. sent' \in Nat /\ n <= sent'
      BY <1>1, <1>6
    <3>2. \A o \in base : o.n \in Nat /\ o.n <= n
      BY <1>8 DEF OrderType
    <3> QED
      BY <1>6, <3>1, <3>2
  <2>3. IsFiniteSet(stops') /\ \A x \in stops' : x.dir \in Dirs /\ x.volume \in Nat \ {0}
    BY <1>2, <1>3, FS_Subset, FS_EmptySet, StopOrdersOf
  <2>4. index' \in 0 .. 2 /\ sent' \in Nat /\ pos' \in Int
    BY <1>1, <1>3, <1>5, <1>6
  <2> HIDE DEF base, tenths
  <2> QED
    BY <1>1, <1>3, <1>8, <2>1, <2>2, <2>3, <2>4 DEF Kinds
<1>10. Bounded(Working(base), stops', Low, High, index, n)
  <2>1. CASE ~trading \/ ~handed
    <3>1. base = orders \cup fresh /\ stops' = stops \ fired
      BY <1>2, <2>1
    <3>2. Bounded(Working(orders \cup fresh), stops \ fired, Low, High, index, n)
      BY <1>4, <1>6, FreshBounded DEF fresh, n
    <3> QED
      BY <3>1, <3>2
  <2>2. CASE trading /\ handed
    <3>1. Working(base) = {}
      BY <1>7, <2>2, WithdrawnOrders
    <3>3. /\ \A x \in stops' : x.volume <= Share(x.dir, ShortShare, LongShare)
          /\ \A x, y \in stops' : x.dir = y.dir => x = y
      BY <1>2, <1>3, <2>2, StopOrdersOf
    <3>4. Bounded({}, stops', Low, High, index, n)
      BY <1>6, <3>3, BoundedByStops
    <3> QED
      BY <3>1, <3>4
  <2> QED
    BY <2>1, <2>2
<1>11. Bounded(Working(orders'), stops', Low', High', index', sent')
  <2>1. \A o \in Working(base) : o.n \in Nat /\ 1 <= o.n /\ o.n <= n
    BY <1>8 DEF Working, OrderType
  <2>2. Working(orders') = Working(base) \cup tenths
    BY <1>1 DEF Working, Order
  <2> DEFINE W == Working(base)
  <2> HIDE DEF W
  <2>3. /\ Bounded(W, stops', Low, High, index', n)
        /\ index = 1 => Bounded(W \cup {Order(n + 1, "LONG", 1)}, stops', Low, High, index', n + 1)
    <3>1. Low \in Int /\ High \in Int
      BY Beside DEF PosInv
    <3> QED
      BY <1>3, <1>5, <1>6, <1>10, <2>1, <3>1, TenthBounded DEF W
  <2>4. CASE Buys
    BY <1>1, <2>2, <2>3, <2>4 DEF Buys, W
  <2>5. CASE ~Buys
    <3>1. Working(orders') = W
      BY <2>2, <2>5 DEF W
    <3> QED
      BY <1>1, <2>3, <2>5, <3>1
  <2> QED
    BY <2>4, <2>5
<1> QED
  BY <1>1, <1>9, <1>11 DEF PosInv

LEMMA PosStep == ASSUME PosInv, [Next]_vars PROVE PosInv'
<1>1. CASE Ticking
  BY <1>1, PosTick DEF Ticking
<1>2. CASE Stop
  BY <1>2, PosStop
<1>3. CASE \E o \in orders : Known(o) \/ Fill(o) \/ Cancelled(o)
  BY <1>3, PosKnown, PosFill, PosCancelled
<1>4. CASE ~Ticking /\ ~Stop /\ ~\E o \in orders : Known(o) \/ Fill(o) \/ Cancelled(o)
  <2>1. UNCHANGED <<orders, stops, pos, index, sent, late>>
    BY <1>4, PosRest
  <2> QED
    BY <2>1 DEF PosInv, Kinds, Low, High
<1> QED
  BY <1>1, <1>2, <1>3, <1>4

\* For any prices, sizes and numbers of ticks: whichever orders are filled before, during
\* or after a cancel_all, no sequence of triggers, fills, bars, stops and starts takes the
\* position further below ten tenths of fixed_size short, or above thirty-one long, than
\* the volume that was filled late on that side.
THEOREM PositionBounded == Spec => []PosBounded
<1>1. Init => PosInv
  BY PosInit
<1>2. PosInv /\ [Next]_vars => PosInv'
  BY PosStep
<1>3. PosInv => PosBounded
  BY PosImplies
<1> QED
  BY <1>1, <1>2, <1>3, PTL DEF Spec
-------------------------------------------------------------------------------
(* The history: what came so far are the minutes from one to another, each    *)
(* once, whatever the order of the pages.                                     *)

Spans(q, lo, hi) ==
  /\ q \in Seq(Int)
  /\ ToSet(q) = lo .. hi
  /\ \A i, j \in 1 .. Len(q) : q[i] = q[j] => i = j

\* A sequence that is given by its elements.
LEMMA Tabled ==
  ASSUME NEW n \in Int, NEW f \in [1 .. n -> Int]
  PROVE  f \in Seq(Int) /\ DOMAIN f = 1 .. n /\ Len(f) = IF n < 0 THEN 0 ELSE n
<1>1. CASE n >= 0
  <2>1. f \in Seq(Int)
    BY <1>1, SeqDef
  <2>2. DOMAIN f = 1 .. n /\ DOMAIN f = 1 .. Len(f) /\ Len(f) \in Nat
    BY <2>1, LenProperties
  <2>3. Len(f) = n
    <3> PICK m : m = Len(f)
      OBVIOUS
    <3>1. m \in Nat /\ 1 .. m = 1 .. n
      BY <2>2
    <3>2. n > 0 => n \in 1 .. m
      BY <3>1
    <3>3. m > 0 => m \in 1 .. n
      BY <3>1
    <3>4. m = n
      BY <1>1, <3>1, <3>2, <3>3
    <3> QED
      BY <3>4
  <2> QED
    BY <1>1, <2>1, <2>2, <2>3
<1>2. CASE n < 0
  <2>1. 1 .. n = 1 .. 0
    BY <1>2
  <2>2. f \in [1 .. 0 -> Int] /\ DOMAIN f = 1 .. n
    BY <2>1
  <2>3. f \in Seq(Int)
    BY <2>2, SeqDef
  <2>4. DOMAIN f = 1 .. Len(f) /\ Len(f) \in Nat
    BY <2>3, LenProperties
  <2>5. Len(f) = 0
    <3> PICK m : m = Len(f)
      OBVIOUS
    <3>1. m \in Nat /\ 1 .. m = 1 .. 0
      BY <2>1, <2>2, <2>4
    <3>2. m > 0 => m \in 1 .. 0
      BY <3>1
    <3>3. m = 0
      BY <3>1, <3>2
    <3> QED
      BY <3>3
  <2> QED
    BY <1>2, <2>2, <2>3, <2>5
<1> QED
  BY <1>1, <1>2

\* Both kinds of page have the minutes from the first to the last, each once.
LEMMA AscendingSpans ==
  ASSUME NEW a \in Int, NEW b \in Int
  PROVE  /\ Spans(Ascending(a, b), a, b)
         /\ Len(Ascending(a, b)) = IF b < a THEN 0 ELSE b - a + 1
         /\ a <= b => Last(Ascending(a, b)) = b
<1> PICK q : q = Ascending(a, b)
  OBVIOUS
<1>1. q = [i \in 1 .. b - a + 1 |-> a + i - 1]
  BY DEF Ascending
<1>2. b - a + 1 \in Int /\ q \in [1 .. b - a + 1 -> Int]
  BY <1>1
<1>3. q \in Seq(Int) /\ DOMAIN q = 1 .. b - a + 1 /\ Len(q) = IF b - a + 1 < 0 THEN 0 ELSE b - a + 1
  BY <1>2, Tabled
<1>4. Len(q) = IF b < a THEN 0 ELSE b - a + 1
  BY <1>3
<1>5. DOMAIN q = 1 .. Len(q)
  BY <1>3, LenProperties
<1>6. ToSet(q) = a .. b
  <2>1. ASSUME NEW x \in a .. b PROVE x \in ToSet(q)
    <3>1. x - a + 1 \in 1 .. b - a + 1 /\ a + (x - a + 1) - 1 = x
      OBVIOUS
    <3>2. q[x - a + 1] = x
      BY <1>1, <3>1
    <3> QED
      BY <1>3, <3>1, <3>2 DEF ToSet
  <2>2. ASSUME NEW i \in 1 .. b - a + 1 PROVE q[i] \in a .. b
    <3>1. q[i] = a + i - 1
      BY <1>1
    <3> QED
      BY <3>1
  <2> QED
    BY <1>3, <2>1, <2>2 DEF ToSet
<1>7. \A i, j \in 1 .. Len(q) : q[i] = q[j] => i = j
  <2> SUFFICES ASSUME NEW i \in 1 .. b - a + 1, NEW j \in 1 .. b - a + 1, q[i] = q[j] PROVE i = j
    BY <1>3, <1>5
  <2>1. a + i - 1 = a + j - 1
    BY <1>1
  <2> QED
    BY <2>1
<1>8. a <= b => q[Len(q)] = b
  <2> SUFFICES ASSUME a <= b PROVE q[Len(q)] = b
    OBVIOUS
  <2>1. Len(q) = b - a + 1 /\ b - a + 1 \in 1 .. b - a + 1 /\ a + (b - a + 1) - 1 = b
    BY <1>4
  <2> QED
    BY <1>1, <2>1
<1> QED
  BY <1>3, <1>4, <1>6, <1>7, <1>8 DEF Spans, Last

LEMMA DescendingSpans ==
  ASSUME NEW a \in Int, NEW b \in Int
  PROVE  /\ Spans(Descending(a, b), a, b)
         /\ Descending(a, b) = <<>> => b < a
         /\ a <= b => Last(Descending(a, b)) = a
<1> PICK q : q = Descending(a, b)
  OBVIOUS
<1>1. q = [i \in 1 .. b - a + 1 |-> b - i + 1]
  BY DEF Descending
<1>2. b - a + 1 \in Int /\ q \in [1 .. b - a + 1 -> Int]
  BY <1>1
<1>3. q \in Seq(Int) /\ DOMAIN q = 1 .. b - a + 1 /\ Len(q) = IF b - a + 1 < 0 THEN 0 ELSE b - a + 1
  BY <1>2, Tabled
<1>4. Len(q) = IF b < a THEN 0 ELSE b - a + 1
  BY <1>3
<1>5. DOMAIN q = 1 .. Len(q)
  BY <1>3, LenProperties
<1>6. ToSet(q) = a .. b
  <2>1. ASSUME NEW x \in a .. b PROVE x \in ToSet(q)
    <3>1. b - x + 1 \in 1 .. b - a + 1 /\ b - (b - x + 1) + 1 = x
      OBVIOUS
    <3>2. q[b - x + 1] = x
      BY <1>1, <3>1
    <3> QED
      BY <1>3, <3>1, <3>2 DEF ToSet
  <2>2. ASSUME NEW i \in 1 .. b - a + 1 PROVE q[i] \in a .. b
    <3>1. q[i] = b - i + 1
      BY <1>1
    <3> QED
      BY <3>1
  <2> QED
    BY <1>3, <2>1, <2>2 DEF ToSet
<1>7. \A i, j \in 1 .. Len(q) : q[i] = q[j] => i = j
  <2> SUFFICES ASSUME NEW i \in 1 .. b - a + 1, NEW j \in 1 .. b - a + 1, q[i] = q[j] PROVE i = j
    BY <1>3, <1>5
  <2>1. b - i + 1 = b - j + 1
    BY <1>1
  <2> QED
    BY <2>1
<1>8. a <= b => q[Len(q)] = a
  <2> SUFFICES ASSUME a <= b PROVE q[Len(q)] = a
    OBVIOUS
  <2>1. Len(q) = b - a + 1 /\ b - a + 1 \in 1 .. b - a + 1 /\ b - (b - a + 1) + 1 = a
    BY <1>4
  <2> QED
    BY <1>1, <2>1
<1>9. q = <<>> => b < a
  <2>1. q = <<>> => Len(q) = 0
    BY EmptySeq
  <2> QED
    BY <1>4, <2>1
<1> QED
  BY <1>3, <1>6, <1>7, <1>8, <1>9 DEF Spans, Last

\* Pages whose minutes differ are joined.
LEMMA JoinedSpans ==
  ASSUME NEW p \in Seq(Int), NEW q \in Seq(Int), NEW lo \in Int, NEW hi \in Int,
         \A i, j \in 1 .. Len(p) : p[i] = p[j] => i = j,
         \A i, j \in 1 .. Len(q) : q[i] = q[j] => i = j,
         ToSet(p) \cap ToSet(q) = {}, ToSet(p) \cup ToSet(q) = lo .. hi
  PROVE  Spans(p \o q, lo, hi)
<1> PICK r : r = p \o q
  OBVIOUS
<1> PICK m, n : m = Len(p) /\ n = Len(q)
  OBVIOUS
<1>1. /\ m \in Nat /\ n \in Nat /\ DOMAIN p = 1 .. m /\ DOMAIN q = 1 .. n
  BY LenProperties
<1>2. /\ r \in Seq(Int) /\ Len(r) = m + n
      /\ \A i \in 1 .. m + n : r[i] = IF i <= m THEN p[i] ELSE q[i - m]
  BY ConcatProperties
<1>3. DOMAIN r = 1 .. m + n
  BY <1>2, LenProperties
<1>4. \A i \in 1 .. m : i \in 1 .. m + n /\ r[i] = p[i] /\ p[i] \in ToSet(p)
  <2> SUFFICES ASSUME NEW i \in 1 .. m PROVE i \in 1 .. m + n /\ r[i] = p[i] /\ p[i] \in ToSet(p)
    OBVIOUS
  <2>1. i \in 1 .. m + n /\ i <= m
    BY <1>1
  <2>2. p[i] \in ToSet(p)
    BY <1>1 DEF ToSet
  <2> QED
    BY <1>2, <2>1, <2>2
<1>5. \A i \in 1 .. n : m + i \in 1 .. m + n /\ r[m + i] = q[i] /\ q[i] \in ToSet(q)
  <2> SUFFICES ASSUME NEW i \in 1 .. n PROVE m + i \in 1 .. m + n /\ r[m + i] = q[i] /\ q[i] \in ToSet(q)
    OBVIOUS
  <2>1. m + i \in 1 .. m + n /\ ~(m + i <= m) /\ (m + i) - m = i
    BY <1>1
  <2> QED
    BY <1>1, <1>2, <2>1 DEF ToSet
<1>6. \A i \in 1 .. m + n : i \in 1 .. m \/ (i - m \in 1 .. n /\ m + (i - m) = i)
  BY <1>1
<1>7. ToSet(r) = lo .. hi
  <2>1. ASSUME NEW x \in ToSet(r) PROVE x \in ToSet(p) \cup ToSet(q)
    <3>1. PICK i \in 1 .. m + n : r[i] = x
      BY <1>3 DEF ToSet
    <3> QED
      BY <1>4, <1>5, <1>6, <3>1
  <2>2. ASSUME NEW x \in ToSet(p) PROVE x \in ToSet(r)
    BY <1>1, <1>3, <1>4 DEF ToSet
  <2>3. ASSUME NEW x \in ToSet(q) PROVE x \in ToSet(r)
    <3>1. PICK i \in 1 .. n : q[i] = x
      BY <1>1 DEF ToSet
    <3>2. m + i \in DOMAIN r /\ r[m + i] = x
      BY <1>3, <1>5, <3>1
    <3> QED
      BY <3>2 DEF ToSet
  <2> QED
    BY <2>1, <2>2, <2>3
<1>8. ASSUME NEW i \in 1 .. m + n, NEW j \in 1 .. m + n, r[i] = r[j] PROVE i = j
  <2>1. CASE i \in 1 .. m /\ j \in 1 .. m
    BY <1>4, <1>8, <2>1
  <2>2. CASE i \in 1 .. m /\ j \notin 1 .. m
    BY <1>4, <1>5, <1>6, <1>8, <2>2
  <2>3. CASE i \notin 1 .. m /\ j \in 1 .. m
    BY <1>4, <1>5, <1>6, <1>8, <2>3
  <2>4. CASE i \notin 1 .. m /\ j \notin 1 .. m
    <3>1. i - m \in 1 .. n /\ j - m \in 1 .. n /\ r[i] = q[i - m] /\ r[j] = q[j - m]
      BY <1>5, <1>6, <2>4
    <3>2. i - m = j - m
      BY <1>8, <3>1
    <3> QED
      BY <1>1, <3>2
  <2> QED
    BY <2>1, <2>2, <2>3, <2>4
<1>9. \A i, j \in 1 .. Len(r) : r[i] = r[j] => i = j
  BY <1>2, <1>8
<1> QED
  BY <1>2, <1>7, <1>9 DEF Spans

\* Of a sequence that has the minutes from lo to hi, those before x are as many as the
\* minutes from lo to x.
LEMMA MinutesBefore ==
  ASSUME NEW q, NEW lo \in Int, NEW hi \in Int, Spans(q, lo, hi),
         NEW x \in Int, lo <= x, x <= hi + 1
  PROVE  Cardinality({k \in 1 .. Len(q) : q[k] < x}) = x - lo
<1> PICK K : K = {k \in 1 .. Len(q) : q[k] < x}
  OBVIOUS
<1> PICK f : f = [k \in K |-> q[k]]
  OBVIOUS
<1>1. /\ DOMAIN q = 1 .. Len(q) /\ Len(q) \in Nat
      /\ \A k \in 1 .. Len(q) : q[k] \in lo .. hi
      /\ \A y \in lo .. hi : \E k \in 1 .. Len(q) : q[k] = y
  <2>1. DOMAIN q = 1 .. Len(q) /\ Len(q) \in Nat
    BY LenProperties DEF Spans
  <2> QED
    BY <2>1 DEF Spans, ToSet
<1>2. f \in [K -> lo .. x - 1]
  <2>1. ASSUME NEW k \in K PROVE q[k] \in lo .. x - 1
    <3>1. q[k] \in lo .. hi /\ q[k] < x
      BY <1>1
    <3> QED
      BY <3>1
  <2> QED
    BY <2>1
<1>3. \A i, j \in K : f[i] = f[j] => i = j
  BY DEF Spans
<1>4. ASSUME NEW y \in lo .. x - 1 PROVE \E k \in K : f[k] = y
  <2>1. y \in lo .. hi /\ y < x
    BY <1>4
  <2>2. PICK k \in 1 .. Len(q) : q[k] = y
    BY <1>1, <2>1
  <2> QED
    BY <2>1, <2>2
<1>5. f \in Bijection(K, lo .. x - 1)
  <2>1. f \in Injection(K, lo .. x - 1)
    BY <1>2, <1>3 DEF Injection, IsInjective
  <2>2. f \in Surjection(K, lo .. x - 1)
    BY <1>2, <1>4 DEF Surjection
  <2> QED
    BY <2>1, <2>2 DEF Bijection
<1>6. IsFiniteSet(K)
  <2>1. IsFiniteSet(1 .. Len(q))
    BY <1>1, FS_Interval
  <2> QED
    BY <2>1, FS_Subset
<1>7. Cardinality(lo .. x - 1) = Cardinality(K)
  <2>1. ExistsBijection(K, lo .. x - 1)
    BY <1>5 DEF ExistsBijection
  <2> QED
    BY <1>6, <2>1, FS_Bijection
<1>8. Cardinality(lo .. x - 1) = x - lo
  <2>1. x - 1 \in Int /\ (IF lo > x - 1 THEN 0 ELSE (x - 1) - lo + 1) = x - lo
    OBVIOUS
  <2> QED
    BY <2>1, FS_Interval
<1> QED
  BY <1>7, <1>8

LEMMA SpanLength ==
  ASSUME NEW q, NEW lo \in Int, NEW hi \in Int, Spans(q, lo, hi)
  PROVE  /\ Len(q) \in Nat /\ DOMAIN q = 1 .. Len(q)
         /\ q = <<>> => hi < lo
         /\ q # <<>> => lo <= hi /\ Len(q) = hi - lo + 1
<1>1. Len(q) \in Nat /\ DOMAIN q = 1 .. Len(q)
  BY LenProperties DEF Spans
<1>2. ASSUME q = <<>> PROVE hi < lo
  <2>1. ToSet(q) = {}
    <3>1. Len(q) = 0
      BY <1>2, EmptySeq
    <3> QED
      BY <1>1, <3>1 DEF ToSet
  <2>2. lo .. hi = {}
    BY <2>1 DEF Spans
  <2>3. ASSUME lo <= hi PROVE FALSE
    <3>1. lo \in lo .. hi
      BY <2>3
    <3> QED
      BY <2>2, <3>1
  <2> QED
    BY <2>3
<1>3. ASSUME q # <<>> PROVE lo <= hi /\ Len(q) = hi - lo + 1
  <2>1. Len(q) # 0
    BY <1>3, EmptySeq DEF Spans
  <2>2. q[1] \in lo .. hi
    <3>1. 1 \in DOMAIN q
      BY <1>1, <2>1
    <3> QED
      BY <3>1 DEF Spans, ToSet
  <2>3. lo <= hi
    BY <2>2
  <2>4. Cardinality({k \in 1 .. Len(q) : q[k] < hi + 1}) = (hi + 1) - lo
    <3>1. hi + 1 \in Int /\ lo <= hi + 1
      BY <2>3
    <3> QED
      BY <3>1, MinutesBefore
  <2>5. {k \in 1 .. Len(q) : q[k] < hi + 1} = 1 .. Len(q)
    <3>1. ASSUME NEW k \in 1 .. Len(q) PROVE q[k] < hi + 1
      <4>1. q[k] \in lo .. hi
        BY <1>1 DEF Spans, ToSet
      <4> QED
        BY <4>1
    <3> QED
      BY <3>1
  <2>6. Cardinality(1 .. Len(q)) = Len(q)
    <3> PICK n : n = Len(q)
      OBVIOUS
    <3>1. n \in Nat
      BY <1>1
    <3>2. Cardinality(1 .. n) = n
      <4>1. n \in Int /\ 1 \in Int /\ (IF 1 > n THEN 0 ELSE n - 1 + 1) = n
        BY <3>1
      <4> QED
        BY <4>1, FS_Interval
    <3> QED
      BY <3>2
  <2>7. Len(q) = (hi + 1) - lo
    BY <2>4, <2>5, <2>6
  <2>8. (hi + 1) - lo = hi - lo + 1
    OBVIOUS
  <2> QED
    BY <2>3, <2>7, <2>8
<1> QED
  BY <1>1, <1>2, <1>3

\* Sorted, they ascend from the first to the last.
LEMMA SortedAscends ==
  ASSUME NEW q, NEW lo \in Int, NEW hi \in Int, Spans(q, lo, hi)
  PROVE  Sorted(q) = [i \in 1 .. Len(q) |-> lo + i - 1]
<1>1. ASSUME NEW i \in 1 .. Len(q)
      PROVE  (CHOOSE x \in ToSet(q) : /\ Cardinality({k \in 1 .. Len(q) : q[k] < x}) < i
                                      /\ Cardinality({k \in 1 .. Len(q) : q[k] <= x}) >= i) = lo + i - 1
  <2>1. /\ Len(q) \in Nat /\ lo <= hi /\ Len(q) = hi - lo + 1 /\ i \in Int /\ 1 <= i /\ i <= hi - lo + 1
    <3>1. q # <<>>
      BY <1>1, EmptySeq
    <3>2. Len(q) \in Nat /\ lo <= hi /\ Len(q) = hi - lo + 1
      BY <3>1, SpanLength
    <3> QED
      BY <1>1, <3>2
  <2>2. \A k \in 1 .. Len(q) : q[k] \in Int
    BY LenProperties DEF Spans
  <2>3. ASSUME NEW x \in ToSet(q)
        PROVE  /\ Cardinality({k \in 1 .. Len(q) : q[k] < x}) = x - lo
               /\ Cardinality({k \in 1 .. Len(q) : q[k] <= x}) = x + 1 - lo
               /\ x \in Int
    <3>1. x \in Int /\ x + 1 \in Int /\ lo <= x /\ x <= hi + 1 /\ lo <= x + 1 /\ x + 1 <= hi + 1
      BY <2>3 DEF Spans
    <3>2. {k \in 1 .. Len(q) : q[k] <= x} = {k \in 1 .. Len(q) : q[k] < x + 1}
      BY <2>2, <3>1
    <3>3. Cardinality({k \in 1 .. Len(q) : q[k] < x}) = x - lo
      BY <3>1, MinutesBefore
    <3>4. Cardinality({k \in 1 .. Len(q) : q[k] < x + 1}) = x + 1 - lo
      <4> PICK y : y = x + 1
        OBVIOUS
      <4>1. y \in Int /\ lo <= y /\ y <= hi + 1
        BY <3>1
      <4>2. Cardinality({k \in 1 .. Len(q) : q[k] < y}) = y - lo
        BY <4>1, MinutesBefore
      <4>3. {k \in 1 .. Len(q) : q[k] < x + 1} = {k \in 1 .. Len(q) : q[k] < y}
        OBVIOUS
      <4>4. x + 1 - lo = y - lo
        BY <3>1, <4>1
      <4> QED
        BY <4>2, <4>3, <4>4, Zenon
    <3> QED
      BY <3>1, <3>2, <3>3, <3>4
  <2> DEFINE P(x) == /\ Cardinality({k \in 1 .. Len(q) : q[k] < x}) < i
                     /\ Cardinality({k \in 1 .. Len(q) : q[k] <= x}) >= i
  <2>4. ASSUME NEW x \in ToSet(q) PROVE P(x) <=> x = lo + i - 1
    <3>1. P(x) <=> x - lo < i /\ x + 1 - lo >= i
      BY <2>3
    <3>2. x \in Int
      BY <2>3
    <3> QED
      BY <2>1, <3>1, <3>2
  <2>5. lo + i - 1 \in ToSet(q)
    BY <2>1 DEF Spans
  <2> HIDE DEF P
  <2>6. (CHOOSE x \in ToSet(q) : P(x)) = lo + i - 1
    BY <2>4, <2>5
  <2> QED
    BY <2>6 DEF P
<1> QED
  BY <1>1 DEF Sorted
-------------------------------------------------------------------------------
(* The types of the strategy's series, and the query.                        *)

SeriesInv ==
  /\ series = [count |-> series.count, bars |-> series.bars, day |-> series.day,
               levels |-> series.levels, intra |-> series.intra]
  /\ series.count \in 0 .. Size
  /\ series.bars \in Seq(Int) /\ Len(series.bars) <= 2
  /\ heardMinute \in Int

\* The first minute that is asked for.
From == Max({query.start, query.listing})

\* What came so far is one run of minutes: for OKX it ends with the query's end and the
\* cursor is its first, for Binance it begins with From and the cursor follows its last.
HistoryInv ==
  /\ HistoryTypeOK
  /\ query = [at |-> query.at, exchange |-> query.exchange, listing |-> query.listing,
              start |-> query.start, end |-> query.end, cursor |-> query.cursor]
  /\ query.listing \in Int /\ query.start \in Int /\ query.end \in Int /\ query.cursor \in Int
  /\ query.end <= now
  /\ history \in Seq(Int)
  /\ ~Busy => history = <<>>
  /\ Querying =>
       /\ ~broken /\ query.start <= query.end /\ query.cursor <= query.end + 1
       /\ \/ Of("OKX") /\ Spans(history, query.cursor, query.end)
          \/ Of("BINANCE") /\ Spans(history, From, query.cursor - 1) /\ query.start <= query.cursor
  /\ Done =>
       \E lo, hi \in Int : Spans(history, lo, hi) /\ (~broken => lo <= From /\ query.end <= hi)

BarsInv == BarInv /\ Kinds /\ SeriesInv /\ HistoryInv

LEMMA SeriesOnBar ==
  ASSUME NEW r, NEW b, b.minute \in Int,
         r = [count |-> r.count, bars |-> r.bars, day |-> r.day, levels |-> r.levels, intra |-> r.intra],
         r.count \in 0 .. Size, r.bars \in Seq(Int), Len(r.bars) <= 2
  PROVE  /\ OnBar(r, b) = [count |-> OnBar(r, b).count, bars |-> OnBar(r, b).bars, day |-> OnBar(r, b).day,
                           levels |-> OnBar(r, b).levels, intra |-> OnBar(r, b).intra]
         /\ OnBar(r, b).intra = r.intra
         /\ OnBar(r, b).count \in 0 .. Size
         /\ OnBar(r, b).bars \in Seq(Int) /\ Len(OnBar(r, b).bars) <= 2
<1> PICK x : x = OnBar(r, b)
  OBVIOUS
<1> PICK count : count = Min({r.count + 1, Size})
  OBVIOUS
<1>1. Size \in Nat /\ r.count \in Int
  BY RBreakAssumption
<1>2. count \in 0 .. Size
  <2>1. r.count + 1 \in Int /\ Size \in Int
    BY <1>1
  <2>2. count \in {r.count + 1, Size} /\ count <= Size
    BY <2>1, OfTwo
  <2> QED
    BY <1>1, <2>2
<1>3. CASE count < Size
  <2>1. x = [r EXCEPT !.count = count]
    BY <1>3 DEF OnBar
  <2>2. /\ x = [count |-> count, bars |-> r.bars, day |-> r.day, levels |-> r.levels, intra |-> r.intra]
    BY <2>1
  <2> QED
    BY <1>2, <2>2
<1>4. CASE ~(count < Size) /\ Len(r.bars) < 2
  <2> PICK q : q = Append(r.bars, b.minute)
    OBVIOUS
  <2>1. x = [r EXCEPT !.count = count, !.bars = q]
    BY <1>4 DEF OnBar
  <2>2. /\ x = [count |-> count, bars |-> q, day |-> r.day, levels |-> r.levels, intra |-> r.intra]
    BY <2>1
  <2>3. q \in Seq(Int) /\ Len(q) = Len(r.bars) + 1
    OBVIOUS
  <2>4. Len(q) <= 2
    <3>1. Len(r.bars) \in Nat
      BY LenProperties
    <3> QED
      BY <1>4, <2>3, <3>1
  <2> QED
    BY <1>2, <2>2, <2>3, <2>4
<1>5. CASE ~(count < Size) /\ ~(Len(r.bars) < 2)
  <2>1. Len(r.bars) = 2
    <3>1. \A n \in Nat : n <= 2 /\ ~(n < 2) => n = 2
      OBVIOUS
    <3>2. Len(r.bars) \in Nat
      BY LenProperties
    <3> QED
      BY <1>5, <3>1, <3>2, Zenon
  <2> PICK q : q = <<Last(r.bars), b.minute>>
    OBVIOUS
  <2> PICK d : d = IF NewDay(Last(r.bars), b) THEN DayOf(b) ELSE Extended(r.day, b)
    OBVIOUS
  <2> PICK l : l = IF NewDay(Last(r.bars), b) /\ r.day.open # 0 THEN LevelsAfter(r.day) ELSE r.levels
    OBVIOUS
  <2>2. x = [r EXCEPT !.bars = q, !.day = d, !.levels = l]
    BY <1>5 DEF OnBar
  <2>3. x = [count |-> r.count, bars |-> q, day |-> d, levels |-> l, intra |-> r.intra]
    BY <2>2
  <2>4. q \in Seq(Int) /\ Len(q) = 2
    <3>1. Last(r.bars) \in Int
      <4>1. r.bars[2] \in Int
        BY <2>1, ElementOfSeq
      <4> QED
        BY <2>1, <4>1 DEF Last
    <3> QED
      BY <3>1
  <2> QED
    BY <2>3, <2>4
<1> QED
  BY <1>3, <1>4, <1>5

LEMMA BarsInit == Init => BarsInv
<1> SUFFICES ASSUME Init PROVE BarsInv
  OBVIOUS
<1>1. BarInv /\ Kinds
  BY BarInit, PosInit DEF PosInv
<1>2. <<>> \in Seq(Int) /\ Len(<<>>) = 0 /\ DOMAIN <<>> = {}
  BY EmptySeq
<1>3. SeriesInv
  BY <1>2, RBreakAssumption DEF Init, SeriesInv
<1>4. HistoryInv
  <2>1. ToSet(<<>>) = {}
    BY <1>2 DEF ToSet
  <2>2. now \in 0 .. LastMinute
    BY HistoryAssumption DEF Init, HistoryInit
  <2> QED
    BY <1>2, <2>1, <2>2 DEF Init, HistoryInit, HistoryInv, HistoryTypeOK, Idle, Busy, Querying, Done
<1> QED
  BY <1>1, <1>3, <1>4 DEF BarsInv
-------------------------------------------------------------------------------
(* The steps of the query.                                                   *)

LEMMA MinOfThree ==
  ASSUME NEW a \in Int, NEW b \in Int, NEW c \in Int
  PROVE  /\ Min({a, b, c}) \in {a, b, c}
         /\ Min({a, b, c}) <= a /\ Min({a, b, c}) <= b /\ Min({a, b, c}) <= c
<1>1. CASE a <= b /\ a <= c
  BY <1>1, MinIs
<1>2. CASE b <= a /\ b <= c
  BY <1>2, MinIs
<1>3. CASE c <= a /\ c <= b
  BY <1>3, MinIs
<1> QED
  BY <1>1, <1>2, <1>3

\* What a turn of the loop writes into the query.
LEMMA QueryExcept ==
  ASSUME NEW q, NEW c,
         q = [at |-> q.at, exchange |-> q.exchange, listing |-> q.listing,
              start |-> q.start, end |-> q.end, cursor |-> q.cursor]
  PROVE  /\ \A at : [q EXCEPT !.at = at] =
              [at |-> at, exchange |-> q.exchange, listing |-> q.listing,
               start |-> q.start, end |-> q.end, cursor |-> q.cursor]
         /\ [q EXCEPT !.cursor = c] =
              [at |-> q.at, exchange |-> q.exchange, listing |-> q.listing,
               start |-> q.start, end |-> q.end, cursor |-> c]
OBVIOUS

\* Pages are joined to what came before, on the one side or the other.
LEMMA PageJoins ==
  ASSUME NEW p, NEW q, NEW a \in Int, NEW b \in Int, NEW c \in Int, NEW d \in Int,
         NEW lo \in Int, NEW hi \in Int,
         Spans(p, a, b), Spans(q, c, d),
         \/ d + 1 = a /\ lo = (IF c <= a THEN c ELSE a) /\ hi = b /\ d <= b
         \/ b + 1 = c /\ lo = a /\ hi = d /\ b <= d /\ a <= c
         \/ b < a /\ lo = c /\ hi = d
  PROVE  Spans(p \o q, lo, hi) /\ ToSet(p \o q) = ToSet(p) \cup ToSet(q)
<1>1. /\ p \in Seq(Int) /\ ToSet(p) = a .. b /\ \A i, j \in 1 .. Len(p) : p[i] = p[j] => i = j
      /\ q \in Seq(Int) /\ ToSet(q) = c .. d /\ \A i, j \in 1 .. Len(q) : q[i] = q[j] => i = j
  BY DEF Spans
<1>2. (a .. b) \cap (c .. d) = {} /\ (a .. b) \cup (c .. d) = lo .. hi
  <2>1. CASE d + 1 = a /\ lo = (IF c <= a THEN c ELSE a) /\ hi = b /\ d <= b
    BY <2>1
  <2>2. CASE b + 1 = c /\ lo = a /\ hi = d /\ b <= d /\ a <= c
    BY <2>2
  <2>3. CASE b < a /\ lo = c /\ hi = d
    BY <2>3
  <2> QED
    BY <2>1, <2>2, <2>3
<1>3. Spans(p \o q, lo, hi)
  BY <1>1, <1>2, JoinedSpans
<1>4. ToSet(p \o q) = lo .. hi
  BY <1>3 DEF Spans
<1> QED
  BY <1>1, <1>2, <1>3, <1>4

\* A page of OKX goes on to the left.
LEMMA OkxTurnKeeps == ASSUME HistoryInv, OkxTurn PROVE HistoryInv'
<1> PICK page, old : page = OkxPage /\ old = history
  OBVIOUS
<1> PICK start, end, cursor, listing :
      start = query.start /\ end = query.end /\ cursor = query.cursor /\ listing = query.listing
  OBVIOUS
<1>1. /\ Querying /\ Of("OKX") /\ history' = old \o page /\ UNCHANGED <<now, broken>>
      /\ query' = IF page = <<>> \/ Last(page) <= start THEN [query EXCEPT !.at = "done"]
                  ELSE [query EXCEPT !.cursor = Last(page)]
  BY DEF OkxTurn
<1>2. /\ now \in 0 .. LastMinute /\ now \in Int /\ Limit \in Nat \ {0}
      /\ ToSet(old) \subseteq listing .. now
      /\ query = [at |-> query.at, exchange |-> query.exchange, listing |-> query.listing,
                  start |-> query.start, end |-> query.end, cursor |-> query.cursor]
      /\ listing \in Int /\ start \in Int /\ end \in Int /\ cursor \in Int
      /\ end <= now
      /\ ~broken /\ start <= end /\ cursor <= end + 1
      /\ Spans(old, cursor, end)
  <2>1. Limit \in Nat \ {0} /\ LastMinute \in Nat
    BY HistoryAssumption
  <2> QED
    BY <1>1, <2>1 DEF HistoryInv, HistoryTypeOK, Querying, Of
<1> PICK newest : newest = Min({now, cursor - 1})
  OBVIOUS
<1> PICK first : first = Max({listing, newest - Limit + 1})
  OBVIOUS
<1>3. newest = cursor - 1
  <2>1. cursor - 1 \in Int /\ cursor - 1 <= now
    BY <1>2
  <2>2. newest \in {now, cursor - 1} /\ newest <= now /\ newest <= cursor - 1
    BY <1>2, <2>1, OfTwo
  <2> QED
    BY <1>2, <2>1, <2>2
<1>4. first \in {listing, newest - Limit + 1} /\ listing <= first /\ newest - Limit + 1 <= first
  <2>1. newest - Limit + 1 \in Int
    BY <1>2, <1>3
  <2> QED
    BY <1>2, <2>1, OfTwo
<1>5. first \in Int /\ newest \in Int
  BY <1>2, <1>3, <1>4
<1>6. page = Descending(first, newest)
  BY DEF OkxPage
<1>7. /\ Spans(page, first, newest)
      /\ page = <<>> => newest < first
      /\ first <= newest => Last(page) = first
  BY <1>5, <1>6, DescendingSpans
<1>8. PICK lo \in Int :
        /\ lo = IF first <= cursor THEN first ELSE cursor
        /\ Spans(old \o page, lo, end) /\ ToSet(old \o page) = ToSet(old) \cup ToSet(page)
  <2> PICK lo : lo = IF first <= cursor THEN first ELSE cursor
    OBVIOUS
  <2>1. lo \in Int /\ newest + 1 = cursor /\ newest <= end
    BY <1>2, <1>3, <1>5
  <2>2. Spans(old \o page, lo, end) /\ ToSet(old \o page) = ToSet(old) \cup ToSet(page)
    BY <1>2, <1>5, <1>7, <2>1, PageJoins
  <2> QED
    BY <2>1, <2>2
<1>9. ToSet(old \o page) \subseteq listing .. now
  <2>1. ToSet(page) = first .. newest
    BY <1>7 DEF Spans
  <2>2. first .. newest \subseteq listing .. now
    BY <1>2, <1>3, <1>4, <1>5
  <2> QED
    BY <1>2, <1>8, <2>1, <2>2
<1>10. old \o page \in Seq(Int)
  BY <1>8 DEF Spans
<1>11. From \in {start, listing} /\ start <= From /\ listing <= From
  BY <1>2, OfTwo DEF From
<1>12. CASE page = <<>> \/ Last(page) <= start
  <2>1. query' = [at |-> "done", exchange |-> query.exchange, listing |-> query.listing,
                  start |-> query.start, end |-> query.end, cursor |-> query.cursor]
    BY <1>1, <1>2, <1>12, QueryExcept
  <2>2. lo <= From
    <3>1. CASE first <= newest
      <4>1. Last(page) = first /\ page # <<>>
        BY <1>5, <1>7, <3>1
      <4>2. first <= start
        BY <1>12, <4>1
      <4>3. lo = first
        BY <1>2, <1>3, <1>5, <1>8, <3>1
      <4> QED
        BY <1>2, <1>5, <1>11, <4>2, <4>3
    <3>2. CASE ~(first <= newest)
      <4>1. lo <= cursor
        BY <1>2, <1>5, <1>8
      <4>2. cursor <= listing
        BY <1>2, <1>3, <1>4, <1>5, <3>2
      <4> QED
        BY <1>2, <1>8, <1>11, <4>1, <4>2
    <3> QED
      BY <3>1, <3>2
  <2>3. From' = From
    BY <2>1 DEF From
  <2>4. Spans(history', lo, query'.end) /\ lo <= From' /\ query'.end <= query'.end
    <3>1. history' = old \o page /\ query'.end = end /\ end <= end
      BY <1>1, <1>2, <2>1
    <3> QED
      BY <1>8, <2>2, <2>3, <3>1, Zenon
  <2>5. HistoryTypeOK'
    BY <1>1, <1>2, <1>9, <2>1 DEF HistoryInv, HistoryTypeOK
  <2>6. ~Querying' /\ Busy' /\ Done'
    BY <2>1 DEF Querying, Busy, Done
  <2>7. \E l, h \in Int : Spans(history', l, h) /\ (~broken' => l <= From' /\ query'.end <= h)
    BY <1>2, <2>1, <2>4
  <2>8. /\ query' = [at |-> query'.at, exchange |-> query'.exchange, listing |-> query'.listing,
                     start |-> query'.start, end |-> query'.end, cursor |-> query'.cursor]
        /\ query'.listing \in Int /\ query'.start \in Int /\ query'.end \in Int /\ query'.cursor \in Int
    BY <1>2, <2>1
  <2>9. query'.end <= now' /\ history' \in Seq(Int)
    BY <1>1, <1>2, <1>10, <2>1
  <2> QED
    BY <2>5, <2>6, <2>7, <2>8, <2>9 DEF HistoryInv
<1>13. CASE ~(page = <<>> \/ Last(page) <= start)
  <2>1. first <= newest /\ Last(page) = first /\ lo = first
    <3>1. first <= newest
      <4>1. ASSUME newest < first PROVE page = <<>>
        <5>1. ToSet(page) = {}
          <6>1. first .. newest = {}
            BY <1>5, <4>1
          <6> QED
            BY <1>7, <6>1 DEF Spans
        <5>2. page \in Seq(Int) /\ DOMAIN page = 1 .. Len(page) /\ Len(page) \in Nat
          BY <1>7, LenProperties DEF Spans
        <5>3. Len(page) = 0
          <6>1. ASSUME Len(page) # 0 PROVE FALSE
            <7>1. 1 \in DOMAIN page
              BY <5>2, <6>1
            <7> QED
              BY <5>1, <7>1 DEF ToSet
          <6> QED
            BY <6>1
        <5> QED
          BY <5>2, <5>3, EmptySeq
      <4> QED
        BY <1>5, <1>13, <4>1
    <3> QED
      BY <1>2, <1>3, <1>5, <1>7, <1>8, <3>1
  <2>2. query' = [at |-> query.at, exchange |-> query.exchange, listing |-> query.listing,
                  start |-> query.start, end |-> query.end, cursor |-> first]
    BY <1>1, <1>2, <1>13, <2>1, QueryExcept
  <2>3. first <= end + 1
    BY <1>2, <1>3, <1>5, <2>1
  <2>4. HistoryTypeOK'
    BY <1>1, <1>2, <1>9, <2>2 DEF HistoryInv, HistoryTypeOK
  <2>5. Querying' /\ Busy' /\ ~Done' /\ Of("OKX")'
    BY <1>1, <2>2 DEF Querying, Busy, Done, Of
  <2>6. Spans(history', query'.cursor, query'.end)
    <3>1. history' = old \o page /\ query'.cursor = lo /\ query'.end = end
      BY <1>1, <2>1, <2>2
    <3> QED
      BY <1>8, <3>1, Zenon
  <2>7. /\ query' = [at |-> query'.at, exchange |-> query'.exchange, listing |-> query'.listing,
                     start |-> query'.start, end |-> query'.end, cursor |-> query'.cursor]
        /\ query'.listing \in Int /\ query'.start \in Int /\ query'.end \in Int /\ query'.cursor \in Int
        /\ query'.end <= now' /\ query'.start <= query'.end /\ query'.cursor <= query'.end + 1
    <3>1. /\ query'.listing = listing /\ query'.start = start /\ query'.end = end /\ query'.cursor = first
          /\ query'.at = query.at /\ query'.exchange = query.exchange
      BY <2>2
    <3>2. query' = [at |-> query'.at, exchange |-> query'.exchange, listing |-> query'.listing,
                    start |-> query'.start, end |-> query'.end, cursor |-> query'.cursor]
      BY <2>2
    <3>3. now' = now
      BY <1>1
    <3> QED
      BY <1>2, <1>5, <2>3, <3>1, <3>2, <3>3
  <2>8. history' \in Seq(Int) /\ ~broken'
    BY <1>1, <1>2, <1>10
  <2> QED
    BY <2>4, <2>5, <2>6, <2>7, <2>8 DEF HistoryInv
<1> QED
  BY <1>12, <1>13

\* A page of Binance goes on to the right.
LEMMA BinanceTurnKeeps == ASSUME HistoryInv, BinanceTurn PROVE HistoryInv'
<1> PICK page, old : page = BinancePage /\ old = history
  OBVIOUS
<1> PICK start, end, cursor, listing :
      start = query.start /\ end = query.end /\ cursor = query.cursor /\ listing = query.listing
  OBVIOUS
<1>1. /\ Querying /\ Of("BINANCE") /\ history' = old \o page /\ UNCHANGED <<now, broken>>
      /\ query' = IF Len(page) < Limit THEN [query EXCEPT !.at = "done"]
                  ELSE [query EXCEPT !.cursor = Last(page) + 1]
  BY DEF BinanceTurn
<1>2. /\ now \in 0 .. LastMinute /\ now \in Int /\ Limit \in Nat \ {0}
      /\ ToSet(old) \subseteq listing .. now
      /\ query = [at |-> query.at, exchange |-> query.exchange, listing |-> query.listing,
                  start |-> query.start, end |-> query.end, cursor |-> query.cursor]
      /\ listing \in Int /\ start \in Int /\ end \in Int /\ cursor \in Int
      /\ end <= now
      /\ ~broken /\ start <= end /\ cursor <= end + 1
      /\ Spans(old, From, cursor - 1) /\ start <= cursor
  <2>1. Limit \in Nat \ {0} /\ LastMinute \in Nat
    BY HistoryAssumption
  <2> QED
    BY <1>1, <2>1 DEF HistoryInv, HistoryTypeOK, Querying, Of
<1> PICK oldest : oldest = Max({listing, cursor})
  OBVIOUS
<1> PICK newest : newest = Min({now, end, oldest + Limit - 1})
  OBVIOUS
<1> PICK from : from = From
  OBVIOUS
<1>3. from \in {start, listing} /\ start <= from /\ listing <= from
  BY <1>2, OfTwo DEF From
<1>4. oldest \in {listing, cursor} /\ listing <= oldest /\ cursor <= oldest
  BY <1>2, OfTwo
<1>5. /\ newest \in {now, end, oldest + Limit - 1}
      /\ newest <= now /\ newest <= end /\ newest <= oldest + Limit - 1
  <2> DEFINE last == oldest + Limit - 1
             least == Min({now, end, last})
  <2>1. now \in Int /\ end \in Int /\ last \in Int
    BY <1>2, <1>4
  <2> HIDE DEF last
  <2>2. least \in {now, end, last} /\ least <= now /\ least <= end /\ least <= last
    BY <2>1, MinOfThree
  <2>3. newest = least
    BY DEF last
  <2> QED
    BY <2>2, <2>3 DEF last
<1>6. from \in Int /\ oldest \in Int /\ newest \in Int /\ cursor - 1 \in Int
  BY <1>2, <1>3, <1>4, <1>5
<1>7. page = Ascending(oldest, newest)
  BY DEF BinancePage
<1>8. /\ Spans(page, oldest, newest)
      /\ Len(page) = IF newest < oldest THEN 0 ELSE newest - oldest + 1
      /\ oldest <= newest => Last(page) = newest
  <2>1. Spans(Ascending(oldest, newest), oldest, newest)
    BY <1>6, AscendingSpans
  <2>2. Len(Ascending(oldest, newest)) = IF newest < oldest THEN 0 ELSE newest - oldest + 1
    BY <1>6, AscendingSpans
  <2>3. oldest <= newest => Last(Ascending(oldest, newest)) = newest
    BY <1>6, AscendingSpans
  <2> QED
    BY <1>7, <2>1, <2>2, <2>3, Zenon
<1>9. Spans(old \o page, from, newest) /\ ToSet(old \o page) = ToSet(old) \cup ToSet(page)
  <2>1. Spans(old, from, cursor - 1)
    BY <1>2
  <2>2. CASE from <= cursor - 1
    <3>1. oldest = cursor
      BY <1>2, <1>3, <1>4, <2>2
    <3>2. cursor - 1 + 1 = oldest /\ cursor - 1 <= newest /\ from <= oldest
      BY <1>2, <1>5, <1>6, <2>2, <3>1
    <3> QED
      BY <1>6, <1>8, <2>1, <3>2, PageJoins
  <2>3. CASE ~(from <= cursor - 1)
    <3>1. oldest = from /\ cursor - 1 < from
      BY <1>2, <1>3, <1>4, <1>6, <2>3
    <3> QED
      BY <1>6, <1>8, <2>1, <3>1, PageJoins
  <2> QED
    BY <2>2, <2>3
<1>10. ToSet(old \o page) \subseteq listing .. now
  <2>1. ToSet(page) = oldest .. newest
    BY <1>8 DEF Spans
  <2>2. oldest .. newest \subseteq listing .. now
    BY <1>2, <1>4, <1>5, <1>6
  <2> QED
    BY <1>2, <1>9, <2>1, <2>2
<1>11. old \o page \in Seq(Int)
  BY <1>9 DEF Spans
<1>12. CASE Len(page) < Limit
  <2>1. query' = [at |-> "done", exchange |-> query.exchange, listing |-> query.listing,
                  start |-> query.start, end |-> query.end, cursor |-> query.cursor]
    BY <1>1, <1>2, <1>12, QueryExcept
  <2>2. end <= newest
    <3> PICK n : n = Len(page)
      OBVIOUS
    <3>1. n = (IF newest < oldest THEN 0 ELSE newest - oldest + 1) /\ n < Limit
      BY <1>8, <1>12
    <3>2. newest # oldest + Limit - 1
      BY <1>2, <1>6, <3>1
    <3> QED
      BY <1>2, <1>5, <1>6, <3>2
  <2>3. From' = from
    BY <2>1 DEF From
  <2>4. Spans(history', from, newest) /\ from <= From' /\ query'.end <= newest
    <3>1. history' = old \o page /\ query'.end = end /\ from <= from
      BY <1>1, <1>6, <2>1
    <3> QED
      BY <1>9, <2>2, <2>3, <3>1, Zenon
  <2>5. HistoryTypeOK'
    BY <1>1, <1>2, <1>10, <2>1 DEF HistoryInv, HistoryTypeOK
  <2>6. ~Querying' /\ Busy' /\ Done'
    BY <2>1 DEF Querying, Busy, Done
  <2>7. \E l, h \in Int : Spans(history', l, h) /\ (~broken' => l <= From' /\ query'.end <= h)
    BY <1>6, <2>4
  <2>8. /\ query' = [at |-> query'.at, exchange |-> query'.exchange, listing |-> query'.listing,
                     start |-> query'.start, end |-> query'.end, cursor |-> query'.cursor]
        /\ query'.listing \in Int /\ query'.start \in Int /\ query'.end \in Int /\ query'.cursor \in Int
        /\ query'.end <= now' /\ history' \in Seq(Int)
    BY <1>1, <1>2, <1>11, <2>1
  <2> QED
    BY <2>5, <2>6, <2>7, <2>8 DEF HistoryInv
<1>13. CASE ~(Len(page) < Limit)
  <2>1. oldest <= newest /\ Last(page) = newest
    <3> PICK n : n = Len(page)
      OBVIOUS
    <3>1. n = (IF newest < oldest THEN 0 ELSE newest - oldest + 1) /\ ~(n < Limit)
      BY <1>8, <1>13
    <3>2. oldest <= newest
      BY <1>2, <1>6, <3>1
    <3> QED
      BY <1>8, <3>2
  <2> PICK next : next = newest + 1
    OBVIOUS
  <2>2. query' = [at |-> query.at, exchange |-> query.exchange, listing |-> query.listing,
                  start |-> query.start, end |-> query.end, cursor |-> next]
    BY <1>1, <1>2, <1>13, <2>1, QueryExcept
  <2>3. next \in Int /\ next <= end + 1 /\ start <= next /\ next - 1 = newest
    BY <1>2, <1>4, <1>5, <1>6, <2>1
  <2>4. HistoryTypeOK'
    BY <1>1, <1>2, <1>10, <2>2 DEF HistoryInv, HistoryTypeOK
  <2>5. Querying' /\ Busy' /\ ~Done' /\ Of("BINANCE")'
    BY <1>1, <2>2 DEF Querying, Busy, Done, Of
  <2>6. Spans(history', From', query'.cursor - 1)
    <3>1. history' = old \o page /\ query'.cursor = next
      BY <1>1, <2>2
    <3>2. From' = from
      BY <2>2 DEF From
    <3>3. query'.cursor - 1 = newest
      BY <2>3, <3>1
    <3> QED
      BY <1>9, <3>1, <3>2, <3>3, Zenon
  <2>7. /\ query' = [at |-> query'.at, exchange |-> query'.exchange, listing |-> query'.listing,
                     start |-> query'.start, end |-> query'.end, cursor |-> query'.cursor]
        /\ query'.listing \in Int /\ query'.start \in Int /\ query'.end \in Int /\ query'.cursor \in Int
        /\ query'.end <= now' /\ query'.start <= query'.end /\ query'.cursor <= query'.end + 1
        /\ query'.start <= query'.cursor
    <3>1. /\ query'.listing = listing /\ query'.start = start /\ query'.end = end /\ query'.cursor = next
          /\ query'.at = query.at /\ query'.exchange = query.exchange
      BY <2>2
    <3>2. query' = [at |-> query'.at, exchange |-> query'.exchange, listing |-> query'.listing,
                    start |-> query'.start, end |-> query'.end, cursor |-> query'.cursor]
      BY <2>2
    <3>3. now' = now
      BY <1>1
    <3> QED
      BY <1>2, <2>3, <3>1, <3>2, <3>3
  <2>8. history' \in Seq(Int) /\ ~broken'
    BY <1>1, <1>2, <1>11
  <2> QED
    BY <2>4, <2>5, <2>6, <2>7, <2>8 DEF HistoryInv
<1> QED
  BY <1>12, <1>13

\* A page that fails leaves what came before it.
LEMMA PageFailsKeeps == ASSUME HistoryInv, PageFails PROVE HistoryInv'
<1>1. /\ Querying /\ broken' = TRUE /\ UNCHANGED <<now, history>>
      /\ query' = [query EXCEPT !.at = "done"]
  BY DEF PageFails
<1>2. query' = [at |-> "done", exchange |-> query.exchange, listing |-> query.listing,
                start |-> query.start, end |-> query.end, cursor |-> query.cursor]
  BY <1>1, QueryExcept DEF HistoryInv
<1>3. \E l, h \in Int : Spans(history, l, h)
  <2>1. From \in Int
    <3>1. From \in {query.start, query.listing}
      BY OfTwo DEF From, HistoryInv
    <3> QED
      BY <3>1 DEF HistoryInv
  <2>2. query.cursor - 1 \in Int /\ query.cursor \in Int /\ query.end \in Int
    BY DEF HistoryInv
  <2> QED
    BY <1>1, <2>1, <2>2 DEF HistoryInv
<1>4. HistoryTypeOK'
  BY <1>1, <1>2 DEF HistoryInv, HistoryTypeOK
<1>5. ~Querying' /\ Busy' /\ Done'
  BY <1>2 DEF Querying, Busy, Done
<1>6. \E l, h \in Int : Spans(history', l, h) /\ (~broken' => l <= From' /\ query'.end <= h)
  BY <1>1, <1>3
<1> QED
  BY <1>1, <1>2, <1>4, <1>5, <1>6 DEF HistoryInv

LEMMA MinuteKeeps == ASSUME HistoryInv, Minute PROVE HistoryInv'
<1>1. now < LastMinute /\ now' = now + 1 /\ UNCHANGED <<query, history, broken>>
  BY DEF Minute
<1>2. now \in 0 .. LastMinute /\ LastMinute \in Nat
  BY HistoryAssumption DEF HistoryInv, HistoryTypeOK
<1>3. now' \in 0 .. LastMinute /\ now <= now'
  BY <1>1, <1>2
<1>4. query.listing \in Int /\ query.end \in Int /\ query.end <= now /\ ToSet(history) \subseteq query.listing .. now
  BY DEF HistoryInv, HistoryTypeOK
<1>5. query.end <= now' /\ ToSet(history) \subseteq query.listing .. now'
  BY <1>2, <1>3, <1>4
<1>6. HistoryTypeOK'
  BY <1>1, <1>3, <1>5 DEF HistoryInv, HistoryTypeOK
<1>7. From' = From /\ Querying' = Querying /\ Done' = Done /\ Busy' = Busy
      /\ Of("OKX")' = Of("OKX") /\ Of("BINANCE")' = Of("BINANCE")
  BY <1>1 DEF From, Querying, Done, Busy, Of
<1> QED
  BY <1>1, <1>5, <1>6, <1>7 DEF HistoryInv

\* A query begins with nothing, to the right of its end or to the left of its start.
LEMMA StartKeeps == ASSUME HistoryInv, Start PROVE HistoryInv'
<1>1. /\ now \in 0 .. LastMinute /\ Day \in Nat \ {0} /\ now \in Int /\ now - Day \in Int /\ now + 1 \in Int
  BY HistoryAssumption DEF HistoryInv, HistoryTypeOK
<1>2. now' = now /\ history' = <<>> /\ broken' = FALSE
  BY DEF Start, Ask
<1>3. PICK exchange \in {"OKX", "BINANCE"}, listing \in {0, 2} :
        query' = [at |-> "page", exchange |-> exchange, listing |-> listing, start |-> FirstMinute(exchange),
                  end |-> now, cursor |-> IF exchange = "OKX" THEN now + 1 ELSE FirstMinute(exchange)]
  BY DEF Start, Ask
<1> PICK start : start = FirstMinute(exchange)
  OBVIOUS
<1> PICK cursor : cursor = IF exchange = "OKX" THEN now + 1 ELSE start
  OBVIOUS
<1>4. /\ query'.at = "page" /\ query'.exchange = exchange /\ query'.listing = listing
      /\ query'.start = start /\ query'.end = now /\ query'.cursor = cursor
      /\ query' = [at |-> query'.at, exchange |-> query'.exchange, listing |-> query'.listing,
                   start |-> query'.start, end |-> query'.end, cursor |-> query'.cursor]
  BY <1>3
<1>0. start \in Int /\ start <= now
  BY <1>1 DEF FirstMinute
<1>5. <<>> \in Seq(Int) /\ Len(<<>>) = 0 /\ DOMAIN <<>> = {} /\ ToSet(<<>>) = {}
  BY EmptySeq DEF ToSet
<1>6. \A a, b \in Int : b < a => Spans(<<>>, a, b)
  <2> SUFFICES ASSUME NEW a \in Int, NEW b \in Int, b < a PROVE Spans(<<>>, a, b)
    OBVIOUS
  <2>1. a .. b = {} /\ 1 .. 0 = {}
    OBVIOUS
  <2> QED
    BY <1>5, <2>1 DEF Spans
<1>7. HistoryTypeOK'
  BY <1>1, <1>2, <1>3, <1>4, <1>5 DEF HistoryTypeOK
<1>8. Querying' /\ Busy' /\ ~Done' /\ Of(exchange)'
  BY <1>4 DEF Querying, Busy, Done, Of
<1>9. cursor \in Int /\ cursor <= now + 1 /\ start <= cursor /\ start <= now
  BY <1>0, <1>1
<1>12. /\ query'.listing \in Int /\ query'.start \in Int /\ query'.end \in Int /\ query'.cursor \in Int
       /\ query'.start <= query'.end /\ query'.end <= now' /\ query'.cursor <= query'.end + 1
       /\ query'.start <= query'.cursor
  BY <1>0, <1>1, <1>2, <1>3, <1>4, <1>9
<1>13. history' \in Seq(Int)
  BY <1>2, <1>5
<1>10. CASE exchange = "OKX"
  <2>1. Spans(<<>>, now + 1, now)
    BY <1>1, <1>6
  <2>2. Spans(history', query'.cursor, query'.end)
    <3>1. history' = <<>> /\ query'.cursor = now + 1 /\ query'.end = now
      BY <1>2, <1>4, <1>10
    <3> QED
      BY <2>1, <3>1, Zenon
  <2> QED
    BY <1>2, <1>4, <1>7, <1>8, <1>10, <1>12, <1>13, <2>2 DEF HistoryInv
<1>11. CASE exchange = "BINANCE"
  <2>1. From' \in {start, listing} /\ start <= From'
    <3>1. From' = Max({start, listing})
      BY <1>4 DEF From
    <3>2. /\ Max({start, listing}) \in {start, listing}
          /\ start <= Max({start, listing})
      <4>1. start \in Int /\ listing \in Int
        BY <1>0, <1>3
      <4> QED
        BY <4>1, OfTwo
    <3> QED
      BY <3>1, <3>2, Zenon
  <2>2. From' \in Int /\ start - 1 \in Int /\ start - 1 < From'
    BY <1>0, <1>3, <2>1
  <2>3. Spans(history', From', query'.cursor - 1)
    <3>1. history' = <<>> /\ query'.cursor - 1 = start - 1
      BY <1>2, <1>4, <1>11
    <3> QED
      BY <1>6, <2>2, <3>1, Zenon
  <2> QED
    BY <1>2, <1>4, <1>7, <1>8, <1>11, <1>12, <1>13, <2>3 DEF HistoryInv
<1> QED
  BY <1>3, <1>10, <1>11
-------------------------------------------------------------------------------
(* What is returned, and how it is loaded.                                   *)

\* The minutes in order; Binance's without the last.
LEMMA ReturnedRuns ==
  ASSUME NEW lo \in Int, NEW hi \in Int, Spans(history, lo, hi)
  PROVE  \E n \in Nat :
           /\ Returned \in Seq(Int) /\ Len(Returned) = n
           /\ \A i \in 1 .. n : Returned[i] = lo + i - 1
           /\ n > 0 => hi - 1 <= lo + n - 1 /\ lo + n - 1 <= hi
<1> PICK s, m : s = Sorted(history) /\ m = Len(history)
  OBVIOUS
<1>1. /\ m \in Nat
      /\ history = <<>> => m = 0
      /\ history # <<>> => lo <= hi /\ m = hi - lo + 1
  BY SpanLength, EmptySeq
<1>2. s = [i \in 1 .. m |-> lo + i - 1]
  BY SortedAscends
<1>3. s \in Seq(Int) /\ Len(s) = m
  <2>1. s \in [1 .. m -> Int] /\ m \in Int
    BY <1>1, <1>2
  <2>2. s \in Seq(Int) /\ Len(s) = IF m < 0 THEN 0 ELSE m
    BY <2>1, Tabled
  <2> QED
    BY <1>1, <2>2
<1>4. CASE Of("BINANCE") /\ history # <<>>
  <2>1. Returned = SubSeq(s, 1, m - 1)
    BY <1>3, <1>4 DEF Returned, Front
  <2>2. \A i \in 1 .. m - 1 : i \in 1 .. m /\ s[i] = lo + i - 1 /\ s[i] \in Int
    BY <1>1, <1>2
  <2>3. 1 \in Int /\ m - 1 \in Int /\ m - 1 \in Nat /\ m >= 1
    BY <1>1, <1>4
  <2>4. /\ SubSeq(s, 1, m - 1) \in Seq(Int)
        /\ Len(SubSeq(s, 1, m - 1)) = IF 1 <= m - 1 THEN (m - 1) - 1 + 1 ELSE 0
        /\ \A i \in 1 .. (m - 1) - 1 + 1 : SubSeq(s, 1, m - 1)[i] = s[1 + i - 1]
    BY <2>2, <2>3, SubSeqProperties
  <2>5. Len(SubSeq(s, 1, m - 1)) = m - 1
    BY <2>3, <2>4
  <2>6. ASSUME NEW i \in 1 .. m - 1 PROVE SubSeq(s, 1, m - 1)[i] = lo + i - 1
    <3>1. i \in 1 .. (m - 1) - 1 + 1 /\ 1 + i - 1 = i
      BY <1>1
    <3>2. SubSeq(s, 1, m - 1)[i] = s[i]
      BY <2>4, <3>1
    <3> QED
      BY <2>2, <3>2
  <2>7. hi - 1 <= lo + (m - 1) - 1 /\ lo + (m - 1) - 1 <= hi
    BY <1>1, <1>4
  <2> PICK n : n = m - 1
    OBVIOUS
  <2>8. /\ n \in Nat /\ Returned \in Seq(Int) /\ Len(Returned) = n
        /\ \A i \in 1 .. n : Returned[i] = lo + i - 1
        /\ hi - 1 <= lo + n - 1 /\ lo + n - 1 <= hi
    BY <2>1, <2>3, <2>4, <2>5, <2>6, <2>7
  <2> QED
    BY <2>8
<1>5. CASE ~(Of("BINANCE") /\ history # <<>>)
  <2>1. Returned = s
    BY <1>5 DEF Returned
  <2>2. \A i \in 1 .. m : s[i] = lo + i - 1
    BY <1>2
  <2>3. m > 0 => hi - 1 <= lo + m - 1 /\ lo + m - 1 <= hi
    BY <1>1
  <2> QED
    BY <1>1, <1>3, <2>1, <2>2, <2>3
<1> QED
  BY <1>4, <1>5

LEMMA ReturnKeeps == ASSUME HistoryInv, Return PROVE HistoryInv'
<1>1. /\ Done /\ history' = Returned /\ UNCHANGED <<now, broken>>
      /\ query' = [query EXCEPT !.at = "loading"]
  BY DEF Return
<1>2. query' = [at |-> "loading", exchange |-> query.exchange, listing |-> query.listing,
                start |-> query.start, end |-> query.end, cursor |-> query.cursor]
  BY <1>1, QueryExcept DEF HistoryInv
<1>3. PICK lo, hi \in Int : Spans(history, lo, hi)
  BY <1>1 DEF HistoryInv
<1>4. PICK n \in Nat :
        /\ Returned \in Seq(Int) /\ Len(Returned) = n
        /\ \A i \in 1 .. n : Returned[i] = lo + i - 1
        /\ n > 0 => hi - 1 <= lo + n - 1 /\ lo + n - 1 <= hi
  BY <1>3, ReturnedRuns
<1>5. ToSet(Returned) \subseteq lo .. hi
  <2>1. DOMAIN Returned = 1 .. n
    BY <1>4, LenProperties
  <2>2. ASSUME NEW i \in 1 .. n PROVE Returned[i] \in lo .. hi
    BY <1>3, <1>4
  <2> QED
    BY <2>1, <2>2 DEF ToSet
<1>6. lo .. hi \subseteq query.listing .. now
  BY <1>3 DEF Spans, HistoryInv, HistoryTypeOK
<1>7. HistoryTypeOK'
  BY <1>1, <1>2, <1>5, <1>6 DEF HistoryInv, HistoryTypeOK
<1>8. ~Querying' /\ Busy' /\ ~Done'
  BY <1>2 DEF Querying, Busy, Done
<1> QED
  BY <1>1, <1>2, <1>4, <1>7, <1>8 DEF HistoryInv

LEMMA LoadBarKeeps == ASSUME HistoryInv, SeriesInv, LoadBar PROVE HistoryInv' /\ SeriesInv'
<1>1. /\ Loading /\ history # <<>> /\ history' = Tail(history)
      /\ series' = OnBar(series, BarAt(Head(history)))
      /\ UNCHANGED <<now, query, broken, heardMinute>>
  BY DEF LoadBar
<1>2. history \in Seq(Int)
  BY DEF HistoryInv
<1>3. /\ Head(history) \in Int /\ Tail(history) \in Seq(Int) /\ Len(Tail(history)) = Len(history) - 1
      /\ \A i \in 1 .. Len(Tail(history)) : Tail(history)[i] = history[i + 1]
  BY <1>1, <1>2, HeadTailProperties
<1>4. ToSet(Tail(history)) \subseteq ToSet(history)
  <2>1. DOMAIN history = 1 .. Len(history) /\ Len(history) \in Nat
    BY <1>2, LenProperties
  <2>2. DOMAIN Tail(history) = 1 .. Len(Tail(history))
    BY <1>3, LenProperties
  <2>3. ASSUME NEW i \in 1 .. Len(Tail(history)) PROVE Tail(history)[i] \in ToSet(history)
    <3>1. i + 1 \in 1 .. Len(history)
      BY <1>3, <2>1
    <3> QED
      BY <1>3, <2>1, <3>1 DEF ToSet
  <2> QED
    BY <2>2, <2>3 DEF ToSet
<1>5. HistoryTypeOK'
  BY <1>1, <1>4 DEF HistoryInv, HistoryTypeOK
<1>6. ~Querying' /\ Busy' /\ ~Done'
  BY <1>1 DEF Loading, Querying, Busy, Done
<1>7. HistoryInv'
  BY <1>1, <1>3, <1>5, <1>6 DEF HistoryInv
<1>8. SeriesInv'
  <2> PICK b : b = BarAt(Head(history))
    OBVIOUS
  <2>1. b.minute \in Int
    BY <1>3 DEF BarAt, Bar
  <2>2. series' = OnBar(series, b)
    BY <1>1
  <2> QED
    BY <1>1, <2>1, <2>2, SeriesOnBar DEF SeriesInv
<1> QED
  BY <1>7, <1>8

LEMMA LoadedKeeps == ASSUME HistoryInv, Loaded PROVE HistoryInv'
<1>1. /\ history' = history /\ history = <<>> /\ query' = Idle /\ now' = now
  BY DEF Loaded
<1>2. <<>> \in Seq(Int) /\ Len(<<>>) = 0 /\ DOMAIN <<>> = {} /\ ToSet(<<>>) = {}
  BY EmptySeq DEF ToSet
<1>3. now \in 0 .. LastMinute
  BY DEF HistoryInv, HistoryTypeOK
<1>4. ~Querying' /\ ~Busy' /\ ~Done'
  BY <1>1 DEF Idle, Querying, Busy, Done
<1>5. HistoryTypeOK'
  BY <1>1, <1>2, <1>3 DEF Idle, HistoryTypeOK
<1> QED
  BY <1>1, <1>2, <1>3, <1>4, <1>5 DEF Idle, HistoryInv

\* HistoryInv is about the variables of History alone.
LEMMA HistoryKept == ASSUME HistoryInv, UNCHANGED historyVars PROVE HistoryInv'
<1>1. UNCHANGED <<now, query, history, broken>>
  BY DEF historyVars
<1>2. From' = From /\ Querying' = Querying /\ Done' = Done /\ Busy' = Busy
      /\ Of("OKX")' = Of("OKX") /\ Of("BINANCE")' = Of("BINANCE") /\ HistoryTypeOK' = HistoryTypeOK
  BY <1>1 DEF From, Querying, Done, Busy, Of, HistoryTypeOK
<1> QED
  BY <1>1, <1>2 DEF HistoryInv

\* A tick may hand the bar that it closes to on_bar.
LEMMA TickKeeps ==
  ASSUME BarsInv, NEW price \in Prices, NEW minute \in {now, now - 1},
         Tick([price |-> price, minute |-> minute])
  PROVE  HistoryInv' /\ SeriesInv'
<1> PICK t : t = [price |-> price, minute |-> minute]
  OBVIOUS
<1> PICK closed : closed = Closed(bar, t)
  OBVIOUS
<1> PICK r : r = IF closed # NoBar THEN OnBar(series, closed) ELSE series
  OBVIOUS
<1>1. /\ series' = IF closed # NoBar /\ Ready(r) THEN [r EXCEPT !.intra = Intra(r, closed)] ELSE r
      /\ heardMinute' = IF t.price = 0 THEN heardMinute ELSE t.minute
      /\ UNCHANGED historyVars
  BY DEF Tick
<1>2. now \in Int
  BY HistoryAssumption DEF BarsInv, HistoryInv, HistoryTypeOK
<1>3. heardMinute' \in Int
  BY <1>1, <1>2 DEF BarsInv, SeriesInv
<1>4. closed # NoBar => closed.minute \in Int
  <2> SUFFICES ASSUME closed # NoBar PROVE closed.minute \in Int
    OBVIOUS
  <2>1. closed = bar /\ bar # NoBar
    BY DEF Closed
  <2>2. bar = Bar(heardMinute, heard[1], bar.high, bar.low, heard[Len(heard)])
    BY <2>1 DEF BarsInv, BarInv
  <2>3. bar.minute = heardMinute
    BY <2>2 DEF Bar
  <2> QED
    BY <2>1, <2>3 DEF BarsInv, SeriesInv
<1>5. /\ r = [count |-> r.count, bars |-> r.bars, day |-> r.day, levels |-> r.levels, intra |-> r.intra]
      /\ r.count \in 0 .. Size
      /\ r.bars \in Seq(Int) /\ Len(r.bars) <= 2
  <2>1. CASE closed # NoBar
    <3>1. r = OnBar(series, closed)
      BY <2>1
    <3>2. /\ series = [count |-> series.count, bars |-> series.bars, day |-> series.day,
                       levels |-> series.levels, intra |-> series.intra]
          /\ series.count \in 0 .. Size
          /\ series.bars \in Seq(Int) /\ Len(series.bars) <= 2
      BY DEF BarsInv, SeriesInv
    <3> QED
      BY <1>4, <2>1, <3>1, <3>2, SeriesOnBar
  <2>2. CASE closed = NoBar
    BY <2>2 DEF BarsInv, SeriesInv
  <2> QED
    BY <2>1, <2>2
<1>6. SeriesInv'
  <2>1. CASE closed # NoBar /\ Ready(r)
    <3> PICK i : i = Intra(r, closed)
      OBVIOUS
    <3>1. series' = [r EXCEPT !.intra = i]
      BY <1>1, <2>1
    <3>2. series' = [count |-> r.count, bars |-> r.bars, day |-> r.day, levels |-> r.levels, intra |-> i]
      BY <1>5, <3>1
    <3> QED
      BY <1>3, <1>5, <3>2 DEF SeriesInv
  <2>2. CASE ~(closed # NoBar /\ Ready(r))
    <3>1. series' = r
      BY <1>1, <2>2
    <3> QED
      BY <1>3, <1>5, <3>1 DEF SeriesInv
  <2> QED
    BY <2>1, <2>2
<1>7. HistoryInv'
  BY <1>1, HistoryKept DEF BarsInv
<1> QED
  BY <1>6, <1>7

LEMMA BarsStep == ASSUME BarsInv, PosInv, [Next]_vars PROVE BarsInv'
<1>1. BarInv' /\ Kinds'
  BY BarStep, PosStep DEF BarsInv, PosInv
<1>2. BarInv /\ SeriesInv /\ HistoryInv
  BY DEF BarsInv
<1>3. SUFFICES SeriesInv' /\ HistoryInv'
  BY <1>1, <1>3 DEF BarsInv
<1>4. CASE UNCHANGED <<historyVars, series, heardMinute>>
  BY <1>2, <1>4, HistoryKept DEF SeriesInv
<1>5. CASE (OkxTurn \/ BinanceTurn \/ PageFails \/ Minute \/ Return) /\ UNCHANGED strategyVars
  <2>1. HistoryInv'
    BY <1>2, <1>5, OkxTurnKeeps, BinanceTurnKeeps, PageFailsKeeps, MinuteKeeps, ReturnKeeps
  <2>2. SeriesInv'
    BY <1>2, <1>5 DEF SeriesInv, strategyVars
  <2> QED
    BY <2>1, <2>2
<1>6. CASE \E price \in Prices, minute \in {now, now - 1} : Tick([price |-> price, minute |-> minute])
  BY <1>6, TickKeeps
<1>7. CASE Start
  <2>1. SeriesInv'
    BY <1>2, <1>7 DEF Start, SeriesInv
  <2> QED
    BY <1>2, <1>7, <2>1, StartKeeps
<1>8. CASE LoadBar
  BY <1>2, <1>8, LoadBarKeeps
<1>9. CASE Loaded
  <2>1. SeriesInv'
    BY <1>2, <1>9 DEF Loaded, SeriesInv
  <2> QED
    BY <1>2, <1>9, <2>1, LoadedKeeps
<1>10. CASE Stop
  <2>1. UNCHANGED <<historyVars, series, heardMinute>>
    BY <1>10 DEF Stop
  <2> QED
    BY <1>4, <2>1
<1>11. CASE \E o \in orders : Known(o) \/ Fill(o) \/ Cancelled(o)
  <2>1. UNCHANGED <<historyVars, series, heardMinute>>
    BY <1>11 DEF Known, Fill, Cancelled
  <2> QED
    BY <1>4, <2>1
<1>12. CASE UNCHANGED vars
  <2>1. UNCHANGED <<historyVars, series, heardMinute>>
    BY <1>12 DEF vars, strategyVars
  <2> QED
    BY <1>4, <2>1
<1> QED
  BY <1>5, <1>6, <1>7, <1>8, <1>9, <1>10, <1>11, <1>12 DEF Next

\* Of a run of minutes in order none is missing and none comes twice.
LEMMA WholeImplies == HistoryInv => HistoryWhole
<1> SUFFICES ASSUME HistoryInv, Done PROVE HistoryWhole
  BY DEF HistoryWhole
<1>1. PICK lo, hi \in Int : Spans(history, lo, hi) /\ (~broken => lo <= From /\ query.end <= hi)
  BY DEF HistoryInv
<1>2. PICK n \in Nat :
        /\ Returned \in Seq(Int) /\ Len(Returned) = n
        /\ \A i \in 1 .. n : Returned[i] = lo + i - 1
        /\ n > 0 => hi - 1 <= lo + n - 1 /\ lo + n - 1 <= hi
  BY <1>1, ReturnedRuns
<1> PICK loaded : loaded = Returned
  OBVIOUS
<1>3. \A i \in 1 .. Len(loaded) - 1 : loaded[i + 1] = loaded[i] + 1
  <2> SUFFICES ASSUME NEW i \in 1 .. n - 1 PROVE loaded[i + 1] = loaded[i] + 1
    BY <1>2
  <2>1. i \in 1 .. n /\ i + 1 \in 1 .. n
    BY <1>2
  <2>2. loaded[i] = lo + i - 1 /\ loaded[i + 1] = lo + (i + 1) - 1
    BY <1>2, <2>1
  <2> QED
    BY <1>1, <2>1, <2>2
<1>4. ASSUME ~broken, loaded # <<>>
      PROVE  loaded[1] <= Max({query.start, query.listing}) /\ Last(loaded) >= query.end - 1
  <2>1. n > 0
    BY <1>2, <1>4, EmptySeq
  <2>2. loaded[1] = lo /\ Last(loaded) = lo + n - 1
    <3>1. 1 \in 1 .. n /\ n \in 1 .. n
      BY <1>2, <2>1
    <3>2. loaded[1] = lo + 1 - 1 /\ loaded[n] = lo + n - 1
      BY <1>2, <3>1
    <3>3. lo + 1 - 1 = lo
      BY <1>1
    <3> QED
      BY <1>2, <3>2, <3>3 DEF Last
  <2>3. lo <= Max({query.start, query.listing})
    BY <1>1, <1>4 DEF From
  <2>4. lo + n - 1 >= query.end - 1
    <3>1. query.end \in Int /\ query.end <= hi /\ hi - 1 <= lo + n - 1
      BY <1>1, <1>2, <1>4, <2>1 DEF HistoryInv
    <3> QED
      BY <1>1, <1>2, <3>1
  <2> QED
    BY <2>2, <2>3, <2>4
<1> QED
  BY <1>3, <1>4 DEF HistoryWhole

LEMMA TypesImplied == BarsInv => TypeOK
<1> SUFFICES ASSUME BarsInv PROVE TypeOK
  OBVIOUS
<1>1. ASSUME NEW o \in orders PROVE o.n \in 1 .. sent /\ o.volume > 0
  BY DEF BarsInv, Kinds, OrderType
<1>2. ASSUME NEW x \in stops PROVE x.volume > 0
  BY DEF BarsInv, Kinds
<1> QED
  BY <1>1, <1>2 DEF BarsInv, HistoryInv, SeriesInv, Kinds, TypeOK

\* For any prices and sizes, pages of any limit, days of any length, any minutes that
\* pass while a query waits and any page that fails: the bars that a query returns are
\* of consecutive minutes, each once, from the start (or the listing) to the minute that
\* ran, unless a page failed, and bars made of ticks are those of their ticks.
THEOREM BarsAreSound == Spec => []BarsSound
<1>1. Init => BarsInv /\ PosInv
  BY BarsInit, PosInit
<1>2. BarsInv /\ PosInv /\ [Next]_vars => (BarsInv /\ PosInv)'
  BY BarsStep, PosStep
<1>3. BarsInv => BarsSound
  BY BarImplies, WholeImplies, TypesImplied DEF BarsInv, BarsSound
<1> QED
  BY <1>1, <1>2, <1>3, PTL DEF Spec
===============================================================================
