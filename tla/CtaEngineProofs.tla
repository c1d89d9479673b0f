--------------------------- MODULE CtaEngineProofs -----------------------------
(***************************************************************************)
(* CtaEngine for every number of strategies, orders, prices, queued events   *)
(* and restarts.  First its stop orders: they belong to a registered        *)
(* strategy that trades, they fire at most once, and nothing is sent for a   *)
(* strategy that does not trade.  Then its orders: what the engines know of  *)
(* them is what the venue has but for the events on the bus, and             *)
(* stop_strategy forgets none.                                               *)
(***************************************************************************)
EXTENDS CtaEngine, SequenceTheorems, FiniteSetTheorems, TLAPS

-------------------------------------------------------------------------------
(* Sequences of anything: the frames of the stack are records of many kinds. *)

IsSequence(q) == q \in Seq(Range(q))

LEMMA OwnRange ==
  ASSUME NEW S, NEW q \in Seq(S)
  PROVE  IsSequence(q)
<1>1. Len(q) \in Nat /\ q \in [1 .. Len(q) -> S] /\ DOMAIN q = 1 .. Len(q)
  BY LenProperties
<1>2. \A k \in 1 .. Len(q) : q[k] \in Range(q)
  BY <1>1 DEF Range
<1>3. q \in [1 .. Len(q) -> Range(q)]
  BY <1>1, <1>2
<1> QED
  BY <1>1, <1>3, IsASeq DEF IsSequence

LEMMA PushSequence ==
  ASSUME NEW q, IsSequence(q), NEW x
  PROVE  /\ IsSequence(<<x>> \o q)
         /\ Len(q) \in Nat /\ Len(<<x>> \o q) = Len(q) + 1
         /\ (<<x>> \o q)[1] = x
         /\ \A k \in 1 .. Len(q) : (<<x>> \o q)[k + 1] = q[k]
<1> DEFINE S == Range(q) \cup {x}
<1>1. q \in Seq(S) /\ <<x>> \in Seq(S) /\ Len(<<x>>) = 1 /\ <<x>>[1] = x
  <2>1. q \in Seq(Range(q)) /\ Range(q) \subseteq S
    BY DEF IsSequence
  <2>2. q \in Seq(S)
    BY <2>1, SeqDef
  <2> QED
    BY <2>2
<1> HIDE DEF S
<1>2. /\ <<x>> \o q \in Seq(S)
      /\ Len(<<x>> \o q) = 1 + Len(q)
      /\ \A i \in 1 .. 1 + Len(q) : (<<x>> \o q)[i] = IF i <= 1 THEN <<x>>[i] ELSE q[i - 1]
  BY <1>1, ConcatProperties
<1>3. Len(q) \in Nat
  BY <1>1, LenProperties
<1>4. IsSequence(<<x>> \o q)
  BY <1>2, OwnRange
<1>5. ASSUME NEW k \in 1 .. Len(q) PROVE (<<x>> \o q)[k + 1] = q[k]
  <2>1. k + 1 \in 1 .. 1 + Len(q) /\ ~(k + 1 <= 1) /\ (k + 1) - 1 = k
    BY <1>3
  <2> QED
    BY <1>2, <2>1
<1>6. (<<x>> \o q)[1] = x
  BY <1>1, <1>2, <1>3
<1> QED
  BY <1>2, <1>3, <1>4, <1>5, <1>6

LEMMA PopSequence ==
  ASSUME NEW q, IsSequence(q), q # <<>>
  PROVE  /\ IsSequence(Tail(q))
         /\ Len(q) \in Nat \ {0} /\ Len(Tail(q)) = Len(q) - 1
         /\ Head(q) = q[1]
         /\ \A k \in 1 .. Len(q) - 1 : Tail(q)[k] = q[k + 1]
         /\ Len(q) = 1 => Tail(q) = <<>>
<1>1. q \in Seq(Range(q))
  BY DEF IsSequence
<1>2. /\ Tail(q) \in Seq(Range(q))
      /\ Len(Tail(q)) = Len(q) - 1
      /\ \A k \in 1 .. Len(Tail(q)) : Tail(q)[k] = q[k + 1]
      /\ Len(q) \in Nat \ {0}
      /\ Head(q) = q[1]
  BY <1>1, HeadTailProperties, EmptySeq, LenProperties
<1>3. IsSequence(Tail(q))
  BY <1>2, OwnRange
<1>4. Len(q) = 1 => Tail(q) = <<>>
  <2>1. \A seq \in Seq(Range(q)) : seq # <<>> => Len(seq) \in Nat \ {0}
    BY EmptySeq
  <2>2. Len(q) = 1 => Len(Tail(q)) = 0
    BY <1>2
  <2> QED
    BY <1>2, <2>1, <2>2
<1> QED
  BY <1>2, <1>3, <1>4

LEMMA PushTwo ==
  ASSUME NEW q, IsSequence(q), NEW x, NEW y
  PROVE  <<x>> \o <<y>> \o q = <<x>> \o (<<y>> \o q)
<1> DEFINE S == Range(q) \cup {x, y}
<1>1. q \in Seq(S)
  <2>1. q \in Seq(Range(q)) /\ Range(q) \subseteq S
    BY DEF IsSequence
  <2> QED
    BY <2>1, SeqDef
<1>2. x \in S /\ y \in S
  OBVIOUS
<1> HIDE DEF S
<1>3. <<x>> \in Seq(S) /\ <<y>> \in Seq(S)
  BY <1>2
<1> QED
  BY <1>1, <1>3, ConcatAssociative

\* Nothing in front changes nothing.
LEMMA PushNothing ==
  ASSUME NEW q, IsSequence(q)
  PROVE  <<>> \o q = q
<1>1. q \in Seq(Range(q))
  BY DEF IsSequence
<1> QED
  BY <1>1, ConcatEmptySeq
-------------------------------------------------------------------------------
(* The stack.                                                                *)

\* The kinds of frame and their fields.
FrameShape(x) ==
  \/ x = [f |-> "callback", s |-> x.s]
  \/ x = [f |-> "stopped", s |-> x.s] /\ x.s \in Instances
  \/ x = [f |-> "cancelAll", todo |-> x.todo]
  \/ x = [f |-> "walk", price |-> x.price, last |-> x.last, dangling |-> x.dangling]
  \/ x = [f |-> "ticks", todo |-> x.todo]
  \/ x = [f |-> "event", e |-> x.e, todo |-> x.todo] /\ x.e.id \in OrderIds

\* A handler of the main loop stays at the bottom until it is done; above it
\* are the callbacks, what they call, and the walk of a tick.
Shape(q) ==
  /\ IsSequence(q)
  /\ \A k \in 1 .. Len(q) :
       /\ FrameShape(q[k])
       /\ k < Len(q) => q[k].f \in {"callback", "cancelAll", "walk"}
       /\ q[k].f = "walk" => q[Len(q)].f = "ticks"

\* What the cancel_all that ends stop_strategy still has to do.
Pending(q) == IF q # <<>> /\ q[Len(q)].f = "cancelAll" THEN q[Len(q)].todo ELSE {}

LEMMA PushShape ==
  ASSUME NEW q, Shape(q), NEW x, FrameShape(x),
         x.f = "callback" \/ (x.f = "cancelAll" /\ q # <<>>)
  PROVE  Shape(<<x>> \o q) /\ Pending(<<x>> \o q) = Pending(q) /\ <<x>> \o q # <<>>
<1> DEFINE p == <<x>> \o q
<1>1. /\ IsSequence(p) /\ Len(q) \in Nat /\ Len(p) = Len(q) + 1 /\ p[1] = x
      /\ \A k \in 1 .. Len(q) : p[k + 1] = q[k]
  BY PushSequence DEF Shape
<1>2. p # <<>> /\ (q # <<>> => Len(q) >= 1) /\ (q = <<>> => Len(q) = 0)
  <2>1. Len(<<>>) = 0
    BY EmptySeq
  <2>2. q # <<>> => Len(q) >= 1
    BY PopSequence DEF Shape
  <2> QED
    BY <1>1, <2>1, <2>2
<1> HIDE DEF p
<1>3. ASSUME NEW k \in 1 .. Len(p), k # 1
      PROVE  k - 1 \in 1 .. Len(q) /\ p[k] = q[k - 1]
  <2>1. k - 1 \in 1 .. Len(q) /\ (k - 1) + 1 = k
    BY <1>1, <1>3
  <2> QED
    BY <1>1, <2>1
<1>4. q # <<>> => p[Len(p)] = q[Len(q)]
  BY <1>1, <1>2
<1>5. q = <<>> => p[Len(p)] = x /\ x.f = "callback"
  BY <1>1, <1>2
<1>6. ASSUME NEW k \in 1 .. Len(p)
      PROVE  /\ FrameShape(p[k])
             /\ k < Len(p) => p[k].f \in {"callback", "cancelAll", "walk"}
             /\ p[k].f = "walk" => p[Len(p)].f = "ticks"
  <2>1. CASE k = 1
    BY <1>1, <2>1
  <2>2. CASE k # 1
    <3>1. k - 1 \in 1 .. Len(q) /\ p[k] = q[k - 1] /\ (k < Len(p) => k - 1 < Len(q)) /\ q # <<>>
      BY <1>1, <1>2, <1>3, <2>2
    <3> QED
      BY <1>4, <3>1 DEF Shape
  <2> QED
    BY <2>1, <2>2
<1>7. Shape(p)
  BY <1>1, <1>6 DEF Shape
<1>8. Pending(p) = Pending(q)
  BY <1>2, <1>4, <1>5 DEF Pending
<1> QED
  BY <1>2, <1>7, <1>8 DEF p

LEMMA PopShape ==
  ASSUME NEW q, Shape(q), q # <<>>
  PROVE  /\ Head(q) = q[1] /\ FrameShape(q[1])
         /\ Shape(Tail(q))
         /\ Tail(q) # <<>> => Pending(Tail(q)) = Pending(q) /\ q[1].f \in {"callback", "cancelAll", "walk"}
         /\ Tail(q) = <<>> => Pending(q) = (IF q[1].f = "cancelAll" THEN q[1].todo ELSE {})
         /\ q[1].f = "walk" => Tail(q) # <<>> /\ Tail(q)[Len(Tail(q))].f = "ticks"
<1> DEFINE t == Tail(q)
<1>1. /\ IsSequence(t) /\ Len(q) \in Nat \ {0} /\ Len(t) = Len(q) - 1 /\ Head(q) = q[1]
      /\ \A k \in 1 .. Len(q) - 1 : t[k] = q[k + 1]
      /\ Len(q) = 1 => t = <<>>
  BY PopSequence DEF Shape
<1>2. t = <<>> <=> Len(q) = 1
  <2>1. Len(<<>>) = 0
    BY EmptySeq
  <2> QED
    BY <1>1, <2>1
<1> HIDE DEF t
<1>3. t # <<>> => t[Len(t)] = q[Len(q)] /\ Len(q) > 1
  BY <1>1, <1>2
<1>4. ASSUME NEW k \in 1 .. Len(t)
      PROVE  /\ FrameShape(t[k])
             /\ k < Len(t) => t[k].f \in {"callback", "cancelAll", "walk"}
             /\ t[k].f = "walk" => t[Len(t)].f = "ticks"
  <2>1. k + 1 \in 1 .. Len(q) /\ t[k] = q[k + 1] /\ (k < Len(t) => k + 1 < Len(q)) /\ t # <<>>
    BY <1>1, <1>2
  <2> QED
    BY <1>3, <2>1 DEF Shape
<1>5. Shape(t)
  BY <1>1, <1>4 DEF Shape
<1>6. 1 \in 1 .. Len(q)
  BY <1>1
<1>7. t # <<>> => Pending(t) = Pending(q) /\ q[1].f \in {"callback", "cancelAll", "walk"}
  BY <1>3, <1>6 DEF Pending, Shape
<1>8. t = <<>> => Pending(q) = (IF q[1].f = "cancelAll" THEN q[1].todo ELSE {})
  BY <1>2 DEF Pending
<1>9. q[1].f = "walk" => t # <<>> /\ t[Len(t)].f = "ticks"
  BY <1>2, <1>3, <1>6 DEF Shape
<1> QED
  BY <1>1, <1>5, <1>6, <1>7, <1>8, <1>9 DEF t, Shape

LEMMA ReplaceShape ==
  ASSUME NEW q, Shape(q), q # <<>>, NEW y, FrameShape(y), y.f = q[1].f
  PROVE  /\ Shape(<<y>> \o Tail(q))
         /\ <<y>> \o Tail(q) # <<>>
         /\ Tail(q) # <<>> => Pending(<<y>> \o Tail(q)) = Pending(q)
         /\ Tail(q) = <<>> => Pending(<<y>> \o Tail(q)) = (IF y.f = "cancelAll" THEN y.todo ELSE {})
<1> DEFINE t == Tail(q)
           p == <<y>> \o t
<1>1. Shape(t) /\ (t # <<>> => Pending(t) = Pending(q) /\ q[1].f \in {"callback", "cancelAll", "walk"})
  BY PopShape
<1>2. q[1].f = "walk" => t # <<>> /\ t[Len(t)].f = "ticks"
  BY PopShape
<1> HIDE DEF t
<1>3. /\ IsSequence(p) /\ Len(t) \in Nat /\ Len(p) = Len(t) + 1 /\ p[1] = y
      /\ \A k \in 1 .. Len(t) : p[k + 1] = t[k]
  BY <1>1, PushSequence DEF Shape
<1>4. p # <<>> /\ (t # <<>> => Len(t) >= 1) /\ (t = <<>> => Len(t) = 0)
  <2>1. Len(<<>>) = 0
    BY EmptySeq
  <2>2. t # <<>> => Len(t) >= 1
    BY <1>1, PopSequence DEF Shape
  <2> QED
    BY <1>3, <2>1, <2>2
<1> HIDE DEF p
<1>5. t # <<>> => p[Len(p)] = t[Len(t)]
  BY <1>3, <1>4
<1>6. t = <<>> => p[Len(p)] = y
  BY <1>3, <1>4
<1>7. ASSUME NEW k \in 1 .. Len(p)
      PROVE  /\ FrameShape(p[k])
             /\ k < Len(p) => p[k].f \in {"callback", "cancelAll", "walk"}
             /\ p[k].f = "walk" => p[Len(p)].f = "ticks"
  <2>1. CASE k = 1
    <3>1. k < Len(p) => t # <<>>
      BY <1>3, <1>4, <2>1
    <3> QED
      BY <1>1, <1>2, <1>3, <1>5, <2>1, <3>1
  <2>2. CASE k # 1
    <3>1. k - 1 \in 1 .. Len(t) /\ (k - 1) + 1 = k /\ (k < Len(p) => k - 1 < Len(t))
      BY <1>3, <2>2
    <3>2. p[k] = t[k - 1] /\ t # <<>>
      BY <1>3, <1>4, <3>1
    <3> QED
      BY <1>1, <1>5, <3>1, <3>2 DEF Shape
  <2> QED
    BY <2>1, <2>2
<1>8. Shape(p)
  BY <1>3, <1>7 DEF Shape
<1>9. /\ t # <<>> => Pending(p) = Pending(q)
      /\ t = <<>> => Pending(p) = (IF y.f = "cancelAll" THEN y.todo ELSE {})
  BY <1>1, <1>4, <1>5, <1>6 DEF Pending
<1> QED
  BY <1>4, <1>8, <1>9 DEF t, p

\* Updating a field of a frame keeps its kind.
LEMMA TodoUpdate ==
  ASSUME NEW x, FrameShape(x), x.f \in {"cancelAll", "ticks", "event"}, NEW v
  PROVE  /\ FrameShape([x EXCEPT !.todo = v])
         /\ [x EXCEPT !.todo = v].f = x.f
         /\ [x EXCEPT !.todo = v].todo = v
<1>1. ASSUME x.f = "cancelAll"
      PROVE  [x EXCEPT !.todo = v] = [f |-> "cancelAll", todo |-> v]
  BY <1>1 DEF FrameShape
<1>2. ASSUME x.f = "ticks"
      PROVE  [x EXCEPT !.todo = v] = [f |-> "ticks", todo |-> v]
  BY <1>2 DEF FrameShape
<1>3. ASSUME x.f = "event"
      PROVE  [x EXCEPT !.todo = v] = [f |-> "event", e |-> x.e, todo |-> v] /\ x.e.id \in OrderIds
  BY <1>3 DEF FrameShape
<1>4. CASE x.f = "cancelAll"
  BY <1>1, <1>4 DEF FrameShape
<1>5. CASE x.f = "ticks"
  BY <1>2, <1>5 DEF FrameShape
<1>6. CASE x.f = "event"
  BY <1>3, <1>6 DEF FrameShape
<1> QED
  BY <1>4, <1>5, <1>6

LEMMA LastUpdate ==
  ASSUME NEW x, FrameShape(x), x.f = "walk", NEW v
  PROVE  FrameShape([x EXCEPT !.last = v]) /\ [x EXCEPT !.last = v].f = "walk"
<1>1. [x EXCEPT !.last = v] = [f |-> "walk", price |-> x.price, last |-> v, dangling |-> x.dangling]
  BY DEF FrameShape
<1> QED
  BY <1>1 DEF FrameShape

LEMMA DanglingUpdate ==
  ASSUME NEW x, FrameShape(x), x.f = "walk", NEW v, NEW w
  PROVE  /\ FrameShape([x EXCEPT !.last = v, !.dangling = w])
         /\ [x EXCEPT !.last = v, !.dangling = w].f = "walk"
<1> DEFINE p == x.price
           l == x.last
           d == x.dangling
<1>1. x = [f |-> "walk", price |-> p, last |-> l, dangling |-> d]
  BY DEF FrameShape
<1> HIDE DEF p, l, d
<1>2. [x EXCEPT !.last = v] = [f |-> "walk", price |-> p, last |-> v, dangling |-> d]
  BY <1>1
<1>3. [x EXCEPT !.last = v, !.dangling = w] = [[x EXCEPT !.last = v] EXCEPT !.dangling = w]
  OBVIOUS
<1>4. ASSUME NEW y, y = [f |-> "walk", price |-> p, last |-> v, dangling |-> d]
      PROVE  [y EXCEPT !.dangling = w] = [f |-> "walk", price |-> p, last |-> v, dangling |-> w]
  BY <1>4
<1>5. [x EXCEPT !.last = v, !.dangling = w] = [f |-> "walk", price |-> p, last |-> v, dangling |-> w]
  BY <1>2, <1>3, <1>4
<1> QED
  BY <1>5 DEF FrameShape

\* Popping a frame that has nothing to cancel, and replacing one that cancels

\* nothing, leave what is pending.
LEMMA PopKeeps ==
  ASSUME NEW q, Shape(q), q # <<>>, q[1].f = "cancelAll" => q[1].todo = {}
  PROVE  Shape(Tail(q)) /\ Pending(Tail(q)) = Pending(q)
<1>1. Pending(<<>>) = {}
  BY DEF Pending
<1> QED
  BY <1>1, PopShape

LEMMA ReplaceKeeps ==
  ASSUME NEW q, Shape(q), q # <<>>, NEW y, FrameShape(y), y.f = q[1].f, y.f # "cancelAll"
  PROVE  /\ Shape(<<y>> \o Tail(q)) /\ <<y>> \o Tail(q) # <<>>
         /\ Pending(<<y>> \o Tail(q)) = Pending(q)
<1>1. Shape(<<y>> \o Tail(q)) /\ <<y>> \o Tail(q) # <<>>
  BY ReplaceShape
<1>2. CASE Tail(q) = <<>>
  BY <1>1, <1>2, ReplaceShape, PopShape
<1>3. CASE Tail(q) # <<>>
  BY <1>1, <1>3, ReplaceShape
<1> QED
  BY <1>1, <1>2, <1>3
-------------------------------------------------------------------------------
(* The inductive invariant.                                                  *)

BusEvents ==
  [t : {"order"}, id : OrderIds, st : Status] \cup [t : {"trade"}, id : OrderIds, k : Int]

VenueOrders ==
  [st : Status \cup {None}, traded : Int, dir : Directions \cup {None}, by : Instances \cup {None}]

\* The object of a name, and that only a registered object trades.
Registered ==
  /\ strategies \in [Names -> Instances \cup {None}]
  /\ gens \in [Names -> 0 .. MaxGen]
  /\ settings \subseteq Names
  /\ None \notin inited /\ trading \subseteq inited
  /\ \A n \in Names : strategies[n] # None => NameOf(strategies[n]) = n
  /\ \A i \in trading : NameOf(i) \in Names /\ strategies[NameOf(i)] = i

BookTypes ==
  /\ orderCount \in 0 .. MaxOrders /\ stopCount \in 0 .. MaxStops
  /\ DOMAIN stopOrders \subseteq StopIds
  /\ \A s \in DOMAIN stopOrders : stopOrders[s].dir \in Directions /\ stopOrders[s].name \in Names
  /\ strategyOrders \in [Names -> SUBSET (OrderIds \cup StopIds)]
  /\ fired \in [StopIds -> Nat] /\ withdrawn \subseteq StopIds

\* The map of stop orders and the ids of each strategy agree, always.
Books ==
  \A n \in Names, s \in StopIds :
    s \in strategyOrders[n] <=> s \in DOMAIN stopOrders /\ stopOrders[s].name = n

\* Stop ids grow: an entry of the map has not fired, and an id that left it
\* does not come back.
Once ==
  \A s \in StopIds :
    /\ s \in DOMAIN stopOrders => s <= MaxOrders + stopCount /\ fired[s] = 0 /\ s \notin withdrawn
    /\ s > MaxOrders + stopCount => fired[s] = 0 /\ s \notin withdrawn
    /\ fired[s] <= 1
    /\ fired[s] = 1 => s \notin withdrawn

\* A stop order has a trading owner, or the end of stop_strategy has it in its
\* copy of the ids; a process that died no longer cancels it.
Owned ==
  \A s \in DOMAIN stopOrders :
    /\ strategies[stopOrders[s].name] # None
    /\ alive => strategies[stopOrders[s].name] \in trading \/ s \in Pending(stack)

IInv ==
  /\ Shape(stack)
  /\ Registered
  /\ BookTypes
  /\ Books
  /\ Once
  /\ Owned
  /\ bus \in Seq(BusEvents)
  /\ venue \in [OrderIds -> VenueOrders]

bookVars == <<strategies, alive, gens, settings, inited, trading, orderCount, stopCount, stopOrders,
              strategyOrders, fired, withdrawn>>

LEMMA EmptyShape == Shape(<<>>) /\ Pending(<<>>) = {}
<1>1. <<>> \in Seq({}) /\ Len(<<>>) = 0
  BY EmptySeq
<1>2. IsSequence(<<>>)
  BY <1>1, OwnRange
<1> QED
  BY <1>1, <1>2 DEF Shape, Pending

LEMMA Bounds ==
  /\ MaxOrders \in Nat /\ MaxStops \in Nat /\ Volume \in Nat
  /\ OrderIds \cap StopIds = {}
  /\ StopIds \subseteq Nat /\ OrderIds \subseteq Nat
<1>1. MaxOrders \in Nat /\ MaxStops \in Nat /\ Volume \in Nat
  BY CtaAssumption
<1> QED
  BY <1>1 DEF OrderIds, StopIds

LEMMA InitInv == Init => IInv
<1> SUFFICES ASSUME Init PROVE IInv
  OBVIOUS
<1>1. Shape(stack)
  BY EmptyShape DEF Init
<1>2. Registered
  BY CtaAssumption DEF Init, Registered
<1>3. DOMAIN stopOrders = {}
  BY EmptySeq DEF Init
<1>4. BookTypes /\ Books /\ Once
  BY <1>3, Bounds DEF Init, BookTypes, Books, Once
<1>5. Owned
  BY <1>3 DEF Owned
<1>6. bus \in Seq(BusEvents)
  BY EmptySeq DEF Init
<1>7. venue \in [OrderIds -> VenueOrders]
  <2>1. [st |-> None, traded |-> 0, dir |-> None, by |-> None] \in VenueOrders
    BY DEF VenueOrders
  <2> QED
    BY <2>1 DEF Init
<1> QED
  BY <1>1, <1>2, <1>4, <1>5, <1>6, <1>7 DEF IInv

\* A step that leaves the books alone has to keep what is pending.
LEMMA StackStep ==
  ASSUME IInv, UNCHANGED bookVars, Shape(stack'),
         \A s \in DOMAIN stopOrders : s \in Pending(stack) => s \in Pending(stack'),
         bus' \in Seq(BusEvents), venue' \in [OrderIds -> VenueOrders]
  PROVE  IInv'
<1>1. Registered' /\ BookTypes' /\ Books' /\ Once'
  BY DEF IInv, bookVars, Registered, BookTypes, Books, Once
<1>2. Owned'
  BY DEF IInv, bookVars, Owned
<1> QED
  BY <1>1, <1>2 DEF IInv
-------------------------------------------------------------------------------
(* Steps that touch the stack only, or the bus and the venue.                *)

LEMMA TopFrame ==
  ASSUME NEW f, IInv, Top(f)
  PROVE  stack # <<>> /\ Frame = stack[1] /\ FrameShape(stack[1]) /\ stack[1].f = f
BY PopShape DEF Top, Frame, IInv

LEMMA ReturnInv == IInv /\ Return => IInv'
<1> SUFFICES ASSUME IInv, Return PROVE IInv'
  OBVIOUS
<1>1. stack # <<>> /\ stack[1].f = "callback"
  BY TopFrame DEF Return
<1>2. Shape(Tail(stack)) /\ Pending(Tail(stack)) = Pending(stack)
  BY <1>1, PopKeeps DEF IInv
<1>3. UNCHANGED bookVars /\ stack' = Tail(stack) /\ bus' = bus /\ venue' = venue
  BY DEF Return, bookVars, ctaVars, orderVars, stopVars, venueVars, procVars
<1> QED
  BY <1>2, <1>3, StackStep DEF IInv

\* Callbacks and what they call go on top; the first frames of a handler go on

\* an empty stack.
LEMMA CallInv ==
  ASSUME IInv, NEW x, FrameShape(x), x.f = "callback" \/ (x.f = "cancelAll" /\ stack # <<>>),
         stack' = <<x>> \o stack, UNCHANGED bookVars, bus' = bus, venue' = venue
  PROVE  IInv'
BY PushShape, StackStep DEF IInv

LEMMA CancelAllInv == ASSUME IInv, NEW i, CancelAll(i) PROVE IInv'
<1> DEFINE x == [f |-> "cancelAll", todo |-> strategyOrders[NameOf(i)]]
<1>1. stack # <<>>
  BY TopFrame DEF CancelAll, MayCall
<1>2. FrameShape(x) /\ x.f = "cancelAll"
  BY DEF FrameShape
<1>3. stack' = <<x>> \o stack /\ UNCHANGED bookVars /\ bus' = bus /\ venue' = venue
  BY DEF CancelAll, bookVars, ctaVars, orderVars, stopVars, venueVars, procVars
<1> HIDE DEF x
<1> QED
  BY <1>1, <1>2, <1>3, CallInv

\* The stack after a handler has begun with one frame, or with two.
LEMMA BeginOne ==
  ASSUME NEW x, FrameShape(x), x.f # "walk"
  PROVE  Shape(<<x>>)
<1>1. <<x>> \in Seq({x}) /\ Len(<<x>>) = 1 /\ <<x>>[1] = x
  OBVIOUS
<1>2. IsSequence(<<x>>)
  BY <1>1, OwnRange
<1> QED
  BY <1>1, <1>2 DEF Shape

LEMMA BeginTwo ==
  ASSUME NEW x, FrameShape(x), NEW y, FrameShape(y),
         y.f = "callback" \/ (y.f = "walk" /\ x.f = "ticks"), x.f # "walk"
  PROVE  Shape(<<y, x>>)
<1> DEFINE S == {x, y}
<1>1. x \in S /\ y \in S
  OBVIOUS
<1> HIDE DEF S
<1>2. <<y, x>> \in Seq(S) /\ Len(<<y, x>>) = 2 /\ <<y, x>>[1] = y /\ <<y, x>>[2] = x
  BY <1>1
<1>3. IsSequence(<<y, x>>)
  BY <1>2, OwnRange
<1>4. \A k \in 1 .. 2 : k = 1 \/ k = 2
  OBVIOUS
<1> QED
  BY <1>2, <1>3, <1>4 DEF Shape

LEMMA BeginInv ==
  ASSUME IInv, stack = <<>>, Shape(stack'), UNCHANGED bookVars, bus' \in Seq(BusEvents), venue' = venue
  PROVE  IInv'
BY EmptyShape, StackStep DEF IInv

LEMMA HandlerBegins ==
  ASSUME IInv,
         \/ \E n \in Names : StopStrategy(n)
         \/ \E p \in Prices : ProcessTick(p)
         \/ Deliver
  PROVE  IInv'
<1>1. CASE \E n \in Names : StopStrategy(n)
  <2>1. PICK n \in Names : StopStrategy(n)
    BY <1>1
  <2> DEFINE x == [f |-> "stopped", s |-> strategies[n]]
             y == Callback(strategies[n])
  <2>2. FrameShape(x) /\ x.f = "stopped"
    <3>1. strategies[n] \in Instances
      BY <2>1 DEF StopStrategy, IInv, Registered
    <3> QED
      BY <3>1 DEF FrameShape
  <2>3. FrameShape(y) /\ y.f = "callback"
    BY DEF FrameShape, Callback
  <2>4. stack = <<>> /\ stack' = <<y, x>> /\ UNCHANGED bookVars /\ bus' = bus /\ venue' = venue
    BY <2>1 DEF StopStrategy, Idle, bookVars, ctaVars, orderVars, stopVars, venueVars, procVars
  <2> HIDE DEF x, y
  <2>5. Shape(<<y, x>>)
    BY <2>2, <2>3, BeginTwo
  <2> QED
    BY <2>4, <2>5, BeginInv DEF IInv
<1>2. CASE \E p \in Prices : ProcessTick(p)
  <2>1. PICK p \in Prices : ProcessTick(p)
    BY <1>2
  <2> DEFINE x == [f |-> "ticks", todo |-> symbolStrategies]
             y == [f |-> "walk", price |-> p, last |-> 0, dangling |-> FALSE]
  <2>2. FrameShape(x) /\ x.f = "ticks"
    BY DEF FrameShape
  <2>3. FrameShape(y) /\ y.f = "walk"
    BY DEF FrameShape
  <2>4. stack = <<>> /\ stack' = <<y, x>> /\ UNCHANGED bookVars /\ bus' = bus /\ venue' = venue
    BY <2>1 DEF ProcessTick, Idle, bookVars, ctaVars, orderVars, stopVars, venueVars, procVars
  <2> HIDE DEF x, y
  <2>5. Shape(<<y, x>>)
    BY <2>2, <2>3, BeginTwo
  <2> QED
    BY <2>4, <2>5, BeginInv DEF IInv
<1>3. CASE Deliver
  <2> DEFINE h == Head(bus)
             x == [f |-> "event", e |-> h, todo |-> {"oms", "cta"}]
  <2>1. h \in BusEvents /\ Tail(bus) \in Seq(BusEvents)
    BY <1>3 DEF Deliver, IInv
  <2>2. h.id \in OrderIds
    BY <2>1 DEF BusEvents
  <2> HIDE DEF h
  <2>3. FrameShape(x) /\ x.f = "event"
    BY <2>2 DEF FrameShape
  <2>4. stack = <<>> /\ stack' = <<x>> /\ bus' = Tail(bus) /\ UNCHANGED bookVars /\ venue' = venue
    BY <1>3 DEF Deliver, Idle, bookVars, ctaVars, orderVars, stopVars, venueVars, procVars, h
  <2> HIDE DEF x
  <2>5. Shape(<<x>>)
    BY <2>3, BeginOne
  <2> QED
    BY <2>1, <2>4, <2>5, BeginInv
<1> QED
  BY <1>1, <1>2, <1>3

\* The walk of a tick and the calls of on_tick, as far as they send nothing.
LEMMA TickInv ==
  ASSUME IInv, OnTick \/ WalkEnd \/ WalkOn \/ WalkDangling
  PROVE  IInv'
<1>1. /\ UNCHANGED bookVars
      /\ bus' \in Seq(BusEvents) /\ venue' \in [OrderIds -> VenueOrders]
  BY DEF OnTick, WalkEnd, WalkOn, WalkDangling, bookVars, ctaVars, orderVars, stopVars, venueVars, procVars, IInv
<1>2. Shape(stack)
  BY DEF IInv
<1>3. ASSUME Shape(stack'), Pending(stack') = Pending(stack) PROVE IInv'
  BY <1>1, <1>3, StackStep
<1>4. CASE OnTick
  <2> DEFINE y == [Frame EXCEPT !.todo = Tail(@)]
             q == <<y>> \o Tail(stack)
  <2>1. stack # <<>> /\ Frame = stack[1] /\ FrameShape(Frame) /\ Frame.f = "ticks"
    BY <1>4, TopFrame DEF OnTick
  <2>2. FrameShape(y) /\ y.f = "ticks"
    <3> DEFINE v == Tail(Frame.todo)
    <3>1. y = [Frame EXCEPT !.todo = v]
      OBVIOUS
    <3> HIDE DEF q, y, v
    <3>2. FrameShape(Frame) /\ Frame.f \in {"cancelAll", "ticks", "event"}
      BY <2>1
    <3>3. FrameShape(y) /\ y.f = Frame.f
      BY <3>1, <3>2, TodoUpdate
    <3> QED
      BY <2>1, <3>3
  <2>3. CASE Frame.todo = <<>>
    <3>1. stack' = Tail(stack)
      BY <1>4, <2>3 DEF OnTick
    <3> QED
      BY <1>2, <1>3, <2>1, <3>1, PopKeeps
  <2> HIDE DEF y
  <2>4. Shape(q) /\ Pending(q) = Pending(stack)
    BY <1>2, <2>1, <2>2, ReplaceKeeps
  <2> HIDE DEF q
  <2>5. CASE Frame.todo # <<>> /\ Head(Frame.todo) \in inited
    <3> DEFINE x == Callback(Head(Frame.todo))
    <3>1. FrameShape(x) /\ x.f = "callback"
      BY DEF FrameShape, Callback
    <3>2. stack' = <<x>> \o <<y>> \o Tail(stack)
      BY <1>4, <2>5 DEF OnTick, y
    <3> HIDE DEF x
    <3>3. IsSequence(Tail(stack))
      BY <1>2, <2>1, PopSequence DEF Shape
    <3>4. stack' = <<x>> \o q
      BY <3>2, <3>3, PushTwo DEF q
    <3> QED
      BY <1>3, <2>4, <3>1, <3>4, PushShape
  <2>6. CASE Frame.todo # <<>> /\ Head(Frame.todo) \notin inited
    <3>1. stack' = <<>> \o <<y>> \o Tail(stack)
      BY <1>4, <2>6 DEF OnTick, y
    <3>2. <<>> \o <<y>> = <<y>>
      BY PushNothing, PushSequence, EmptyShape DEF Shape
    <3> QED
      BY <1>3, <2>4, <3>1, <3>2 DEF q
  <2> QED
    BY <2>3, <2>5, <2>6
<1>5. CASE WalkEnd
  <2>1. stack # <<>> /\ stack[1].f = "walk" /\ stack' = Tail(stack)
    BY <1>5, TopFrame DEF WalkEnd, Walking
  <2> QED
    BY <1>2, <1>3, <2>1, PopKeeps
<1>6. ASSUME NEW y, Top("walk"), FrameShape(y), y.f = "walk", stack' = <<y>> \o Tail(stack)
      PROVE  IInv'
  <2>1. stack # <<>> /\ stack[1].f = "walk"
    BY <1>6, TopFrame
  <2> QED
    BY <1>2, <1>3, <1>6, <2>1, ReplaceKeeps
<1>7. CASE WalkOn
  <2>1. PICK s : stack' = <<[Frame EXCEPT !.last = s]>> \o Tail(stack)
    BY <1>7 DEF WalkOn
  <2>2. Top("walk")
    BY <1>7 DEF WalkOn, Walking
  <2>3. FrameShape(Frame) /\ Frame.f = "walk"
    BY <2>2, TopFrame
  <2>4. FrameShape([Frame EXCEPT !.last = s]) /\ [Frame EXCEPT !.last = s].f = "walk"
    BY <2>3, LastUpdate
  <2> QED
    BY <1>6, <2>1, <2>2, <2>4
<1>8. CASE WalkDangling
  <2>1. PICK s : stack' = <<[Frame EXCEPT !.last = s, !.dangling = FALSE]>> \o Tail(stack)
    BY <1>8 DEF WalkDangling
  <2>2. Top("walk")
    BY <1>8 DEF WalkDangling
  <2>3. FrameShape(Frame) /\ Frame.f = "walk"
    BY <2>2, TopFrame
  <2>4. /\ FrameShape([Frame EXCEPT !.last = s, !.dangling = FALSE])
        /\ [Frame EXCEPT !.last = s, !.dangling = FALSE].f = "walk"
    BY <2>3, DanglingUpdate
  <2> QED
    BY <1>6, <2>1, <2>2, <2>4
<1> QED
  BY <1>4, <1>5, <1>7, <1>8

\* What is left of an event when an engine has handled it.
LEMMA AfterShape ==
  ASSUME IInv, Top("event"), NEW h
  PROVE  Shape(After(h)) /\ Pending(After(h)) = Pending(stack) /\ Frame.e.id \in OrderIds
<1>1. stack # <<>> /\ Frame = stack[1] /\ FrameShape(Frame) /\ Frame.f = "event" /\ Shape(stack)
  BY TopFrame DEF IInv
<1> DEFINE y == [Frame EXCEPT !.todo = @ \ {h}]
<1>2. FrameShape(y) /\ y.f = "event"
  <2> DEFINE v == Frame.todo \ {h}
  <2>1. y = [Frame EXCEPT !.todo = v]
    OBVIOUS
  <2> HIDE DEF y, v
  <2> QED
    BY <1>1, <2>1, TodoUpdate
<1>3. Frame.e.id \in OrderIds
  BY <1>1 DEF FrameShape
<1> HIDE DEF y
<1>4. CASE Frame.todo = {h}
  BY <1>1, <1>3, <1>4, PopKeeps DEF After
<1>5. CASE Frame.todo # {h}
  <2>1. After(h) = <<y>> \o Tail(stack)
    BY <1>5 DEF After, y
  <2> QED
    BY <1>1, <1>2, <1>3, <2>1, ReplaceKeeps
<1> QED
  BY <1>4, <1>5

\* The same under the callback of a strategy, if there is one.
LEMMA CallbackShape ==
  ASSUME NEW q, Shape(q), NEW i
  PROVE  /\ Shape(<<Callback(i)>> \o q) /\ Pending(<<Callback(i)>> \o q) = Pending(q)
         /\ Shape(<<>> \o q) /\ Pending(<<>> \o q) = Pending(q)
<1> DEFINE x == Callback(i)
<1>1. FrameShape(x) /\ x.f = "callback"
  BY DEF FrameShape, Callback
<1> HIDE DEF x
<1>2. Shape(<<x>> \o q) /\ Pending(<<x>> \o q) = Pending(q)
  BY <1>1, PushShape
<1>3. <<>> \o q = q
  BY PushNothing DEF Shape
<1> QED
  BY <1>2, <1>3 DEF x

\* Events that change no book of the stop orders.
LEMMA EventInv ==
  ASSUME IInv, OmsOrderEvent \/ OmsTradeEvent \/ CtaTradeEvent
  PROVE  IInv'
<1>1. /\ UNCHANGED bookVars
      /\ bus' \in Seq(BusEvents) /\ venue' \in [OrderIds -> VenueOrders]
  BY DEF OmsOrderEvent, OmsTradeEvent, CtaTradeEvent, bookVars, ctaVars, orderVars, stopVars, venueVars, procVars, IInv
<1>2. Top("event")
  BY DEF OmsOrderEvent, OmsTradeEvent, CtaTradeEvent, Handling
<1>3. Shape(stack') /\ Pending(stack') = Pending(stack)
  <2>1. CASE stack' = After("oms") \/ stack' = After("cta")
    BY <1>2, <2>1, AfterShape
  <2>2. CASE CtaTradeEvent /\ ~(stack' = After("oms") \/ stack' = After("cta"))
    <3> DEFINE i == orderStrategy[Frame.e.id]
    <3>1. stack' = (IF i = None THEN <<>> ELSE <<Callback(i)>>) \o After("cta")
      BY <2>2 DEF CtaTradeEvent
    <3> HIDE DEF i
    <3> QED
      BY <1>2, <3>1, AfterShape, CallbackShape
  <2>3. CASE OmsOrderEvent \/ OmsTradeEvent
    BY <2>1, <2>3 DEF OmsOrderEvent, OmsTradeEvent
  <2> QED
    BY <2>1, <2>2, <2>3
<1> QED
  BY <1>1, <1>3, StackStep
-------------------------------------------------------------------------------
(* Steps that change the books.                                              *)

\* An order takes the next id, and the rest of the books of the stop orders is

\* left to the caller.
LEMMA SendTypes ==
  ASSUME IInv, NEW i \in Instances, NEW d \in Directions, NEW gone, SendServerOrder(i, d, gone)
  PROVE  /\ orderCount' \in 0 .. MaxOrders
         /\ bus' \in Seq(BusEvents) /\ venue' \in [OrderIds -> VenueOrders]
         /\ \E o \in OrderIds :
              strategyOrders' = [strategyOrders EXCEPT ![NameOf(i)] = (@ \cup {o}) \ gone]
<1> DEFINE o == orderCount + 1
           v == [st |-> "SUBMITTING", traded |-> 0, dir |-> d, by |-> i]
           e == OrderEvent(o, "SUBMITTING")
<1>1. o \in OrderIds /\ o \in 0 .. MaxOrders
  BY Bounds DEF IInv, BookTypes, SendServerOrder, OrderIds
<1>2. /\ orderCount' = o /\ venue' = [venue EXCEPT ![o] = v] /\ bus' = Append(bus, e)
      /\ strategyOrders' = [strategyOrders EXCEPT ![NameOf(i)] = (@ \cup {o}) \ gone]
  BY DEF SendServerOrder
<1>3. v \in VenueOrders
  BY DEF VenueOrders, Status, Active
<1>4. e \in BusEvents
  BY <1>1 DEF BusEvents, OrderEvent, Status, Active
<1> HIDE DEF o, v, e
<1>5. bus' \in Seq(BusEvents)
  BY <1>2, <1>4, AppendProperties DEF IInv
<1>6. venue' \in [OrderIds -> VenueOrders]
  BY <1>2, <1>3 DEF IInv
<1> QED
  BY <1>1, <1>2, <1>5, <1>6

LEMMA SendLimitInv ==
  ASSUME IInv, NEW i \in Instances, NEW d \in Directions, SendLimitOrder(i, d)
  PROVE  IInv'
<1>1. SendServerOrder(i, d, {})
  BY DEF SendLimitOrder
<1>2. /\ orderCount' \in 0 .. MaxOrders
      /\ bus' \in Seq(BusEvents) /\ venue' \in [OrderIds -> VenueOrders]
  BY <1>1, SendTypes
<1>3. PICK o \in OrderIds : strategyOrders' = [strategyOrders EXCEPT ![NameOf(i)] = (@ \cup {o}) \ {}]
  BY <1>1, SendTypes
<1>4. UNCHANGED <<strategies, alive, gens, settings, inited, trading, stopOrders, stopCount, fired,
                  withdrawn, stack>>
  BY DEF SendLimitOrder, ctaVars, stopVars, procVars
<1>5. strategyOrders \in [Names -> SUBSET (OrderIds \cup StopIds)]
  BY DEF IInv, BookTypes
<1>6. /\ strategyOrders' \in [Names -> SUBSET (OrderIds \cup StopIds)]
      /\ \A n \in Names, s \in StopIds : s \in strategyOrders'[n] <=> s \in strategyOrders[n]
  BY <1>3, <1>5, Bounds
<1>7. Registered' /\ Once' /\ Owned' /\ Shape(stack')
  BY <1>4 DEF IInv, Registered, Once, Owned
<1>8. BookTypes'
  BY <1>2, <1>4, <1>6 DEF IInv, BookTypes
<1>9. Books'
  BY <1>4, <1>6 DEF IInv, Books
<1> QED
  BY <1>2, <1>7, <1>8, <1>9 DEF IInv

\* A stop order is withdrawn: the name in it leads to its owner.
LEMMA WithdrawInv ==
  ASSUME IInv, NEW s \in DOMAIN stopOrders, NEW q, Shape(q), CancelLocalStopOrder(s, q),
         \A t \in DOMAIN stopOrders \ {s} : t \in Pending(stack) => t \in Pending(q),
         UNCHANGED <<strategies, alive, gens, settings, inited, trading, orderCount, stopCount, fired, bus, venue>>
  PROVE  IInv'
<1> DEFINE name == stopOrders[s].name
<1>1. s \in StopIds /\ name \in Names
  BY DEF IInv, BookTypes
<1>2. /\ DOMAIN stopOrders' = DOMAIN stopOrders \ {s}
      /\ \A t \in DOMAIN stopOrders' : stopOrders'[t] = stopOrders[t]
      /\ strategyOrders' = [strategyOrders EXCEPT ![name] = @ \ {s}]
      /\ withdrawn' = withdrawn \cup {s}
  BY DEF CancelLocalStopOrder
<1>3. stack' = <<Callback(strategies[name])>> \o q
  BY DEF CancelLocalStopOrder
<1>4. Shape(stack') /\ Pending(stack') = Pending(q)
  BY <1>3, CallbackShape
<1> HIDE DEF name
<1>5. Registered'
  BY DEF IInv, Registered
<1>6. BookTypes'
  BY <1>1, <1>2 DEF IInv, BookTypes
<1>7. Books'
  <2> SUFFICES ASSUME NEW n \in Names, NEW t \in StopIds
               PROVE  t \in strategyOrders'[n] <=> t \in DOMAIN stopOrders' /\ stopOrders'[t].name = n
    BY DEF Books
  <2>1. strategyOrders'[n] = IF n = name THEN strategyOrders[n] \ {s} ELSE strategyOrders[n]
    BY <1>1, <1>2 DEF IInv, BookTypes
  <2>2. t \in strategyOrders[n] <=> t \in DOMAIN stopOrders /\ stopOrders[t].name = n
    BY DEF IInv, Books
  <2> QED
    BY <1>2, <2>1, <2>2 DEF name
<1>8. Once'
  <2>1. /\ s <= MaxOrders + stopCount /\ fired[s] = 0
        /\ MaxOrders + stopCount \in Nat /\ StopIds \subseteq Nat
    BY <1>1, Bounds DEF IInv, Once, BookTypes
  <2> SUFFICES ASSUME NEW t \in StopIds
               PROVE  /\ t \in DOMAIN stopOrders' => t <= MaxOrders + stopCount /\ fired[t] = 0 /\ t \notin withdrawn'
                      /\ t > MaxOrders + stopCount => fired[t] = 0 /\ t \notin withdrawn'
                      /\ fired[t] <= 1
                      /\ fired[t] = 1 => t \notin withdrawn'
    BY DEF Once
  <2>2. /\ t \in DOMAIN stopOrders => t <= MaxOrders + stopCount /\ fired[t] = 0 /\ t \notin withdrawn
        /\ t > MaxOrders + stopCount => fired[t] = 0 /\ t \notin withdrawn
        /\ fired[t] <= 1
        /\ fired[t] = 1 => t \notin withdrawn
    BY DEF IInv, Once
  <2>3. t > MaxOrders + stopCount => t # s
    BY <2>1
  <2> QED
    BY <1>2, <2>1, <2>2, <2>3
<1>9. Owned'
  BY <1>2, <1>4 DEF IInv, Owned
<1> QED
  BY <1>4, <1>5, <1>6, <1>7, <1>8, <1>9 DEF IInv

LEMMA CancelStopInv ==
  ASSUME IInv, NEW i, NEW s, CancelStop(i, s)
  PROVE  IInv'
<1>1. s \in DOMAIN stopOrders /\ CancelLocalStopOrder(s, stack)
  BY DEF CancelStop
<1>2. UNCHANGED <<strategies, alive, gens, settings, inited, trading, orderCount, stopCount, fired, bus, venue>>
  BY DEF CancelStop, ctaVars, venueVars, procVars
<1>3. Shape(stack)
  BY DEF IInv
<1> QED
  BY <1>1, <1>2, <1>3, WithdrawInv

LEMMA CancelServerInv ==
  ASSUME IInv, NEW i, NEW o, CancelServer(i, o)
  PROVE  IInv'
<1>1. UNCHANGED bookVars /\ stack' = stack /\ bus' = bus /\ venue' = venue
  BY DEF CancelServer, bookVars, ctaVars, orderVars, stopVars, procVars
<1> QED
  BY <1>1, StackStep DEF IInv

\* cancel_all takes one id off its copy, and the stop order with it.
LEMMA CancelNextInv ==
  ASSUME IInv, CancelNext
  PROVE  IInv'
<1> DEFINE m == Min(Frame.todo)
           y == [Frame EXCEPT !.todo = @ \ {m}]
           below == <<y>> \o Tail(stack)
<1>1. stack # <<>> /\ Frame = stack[1] /\ FrameShape(Frame) /\ Frame.f = "cancelAll" /\ Shape(stack)
  BY TopFrame DEF CancelNext, IInv
<1>2. UNCHANGED <<strategies, alive, gens, settings, inited, trading, orderCount, stopCount, fired, bus, venue>>
  BY DEF CancelNext, ctaVars, procVars
<1>3. FrameShape(y) /\ y.f = "cancelAll" /\ y.todo = Frame.todo \ {m}
  <2> DEFINE v == Frame.todo \ {m}
  <2>1. y = [Frame EXCEPT !.todo = v]
    OBVIOUS
  <2>2. FrameShape(Frame) /\ Frame.f \in {"cancelAll", "ticks", "event"}
    BY <1>1
  <2> HIDE DEF y, v
  <2>3. FrameShape(y) /\ y.f = Frame.f /\ y.todo = v
    BY <2>1, <2>2, TodoUpdate
  <2> QED
    BY <1>1, <2>3 DEF v
<1> HIDE DEF y
<1>4. Shape(below)
  BY <1>1, <1>3, ReplaceShape
<1>5. \A s : s # m /\ s \in Pending(stack) => s \in Pending(below)
  <2>1. CASE Tail(stack) = <<>>
    <3>1. Pending(stack) = Frame.todo
      BY <1>1, <2>1, PopShape
    <3>2. Pending(below) = y.todo
      BY <1>1, <1>3, <2>1, ReplaceShape
    <3> QED
      BY <1>3, <3>1, <3>2
  <2>2. CASE Tail(stack) # <<>>
    BY <1>1, <1>3, <2>2, ReplaceShape
  <2> QED
    BY <2>1, <2>2
<1> HIDE DEF below, m
<1>6. CASE Frame.todo = {} /\ stack' = Tail(stack) /\ UNCHANGED <<strategyOrders, stopOrders, withdrawn>>
  <2>1. Shape(stack') /\ Pending(stack') = Pending(stack)
    BY <1>1, <1>6, PopKeeps
  <2> QED
    BY <1>2, <1>6, <2>1, StackStep DEF IInv, bookVars
<1>7. CASE m \notin DOMAIN stopOrders /\ stack' = below /\ UNCHANGED <<strategyOrders, stopOrders, withdrawn>>
  BY <1>2, <1>4, <1>5, <1>7, StackStep DEF IInv, bookVars
<1>8. CASE m \in DOMAIN stopOrders /\ CancelLocalStopOrder(m, below)
  BY <1>2, <1>4, <1>5, <1>8, WithdrawInv
<1>9. m \in OrderIds => m \notin DOMAIN stopOrders
  BY Bounds DEF IInv, BookTypes
<1>10. \/ Frame.todo = {} /\ stack' = Tail(stack) /\ UNCHANGED <<strategyOrders, stopOrders, withdrawn>>
       \/ m \in OrderIds /\ stack' = below /\ UNCHANGED <<strategyOrders, stopOrders, withdrawn>>
       \/ m \in DOMAIN stopOrders /\ CancelLocalStopOrder(m, below)
       \/ m \in StopIds \ DOMAIN stopOrders /\ stack' = below /\ UNCHANGED <<strategyOrders, stopOrders, withdrawn>>
  BY DEF CancelNext, m, y, below
<1> QED
  BY <1>6, <1>7, <1>8, <1>9, <1>10

\* A new stop order takes an id that no stop order had, and its owner trades.
LEMMA SendStopInv ==
  ASSUME IInv, NEW i \in Instances, NEW d \in Directions, NEW p, SendLocalStopOrder(i, d, p)
  PROVE  IInv'
<1> DEFINE s == MaxOrders + stopCount + 1
           n == NameOf(i)
           entry == [dir |-> d, price |-> p, name |-> n]
<1>1. i \in trading /\ n \in Names /\ strategies[n] = i
  BY DEF SendLocalStopOrder, MayCall, IInv, Registered
<1>2. s \in StopIds /\ stopCount + 1 \in 0 .. MaxStops /\ s = MaxOrders + (stopCount + 1)
  <2>1. stopCount < MaxStops /\ stopCount \in 0 .. MaxStops
    BY DEF SendLocalStopOrder, IInv, BookTypes
  <2> QED
    BY <2>1, Bounds DEF StopIds
<1>3. /\ stopCount' = stopCount + 1
      /\ stopOrders' = [t \in DOMAIN stopOrders \cup {s} |-> IF t = s THEN entry ELSE stopOrders[t]]
      /\ strategyOrders' = [strategyOrders EXCEPT ![n] = @ \cup {s}]
      /\ stack' = <<Callback(i)>> \o stack
      /\ UNCHANGED <<strategies, alive, gens, settings, inited, trading, orderCount, fired, withdrawn, bus, venue>>
  BY DEF SendLocalStopOrder, ctaVars, venueVars, procVars
<1>4. entry.dir = d /\ entry.name = n
  OBVIOUS
<1>5. s \notin DOMAIN stopOrders /\ MaxOrders + stopCount \in Nat /\ StopIds \subseteq Nat
  <2>1. MaxOrders + stopCount \in Nat /\ StopIds \subseteq Nat
    BY Bounds DEF IInv, BookTypes
  <2> QED
    BY <1>2, <2>1 DEF IInv, Once
<1> HIDE DEF n, entry
<1>6. /\ DOMAIN stopOrders' = DOMAIN stopOrders \cup {s}
      /\ \A t \in DOMAIN stopOrders : stopOrders'[t] = stopOrders[t]
      /\ stopOrders'[s] = entry
  <2> HIDE DEF s
  <2> QED
    BY <1>3, <1>5
<1>7. s > MaxOrders + stopCount
  BY <1>5
<1>8. \A t \in StopIds : t > MaxOrders + stopCount' => t > MaxOrders + stopCount /\ t # s
  BY <1>2, <1>3, <1>5, Bounds DEF IInv, BookTypes
<1>9. \A t \in StopIds : t <= MaxOrders + stopCount \/ t = s => t <= MaxOrders + stopCount'
  BY <1>2, <1>3, <1>5, Bounds DEF IInv, BookTypes
<1> HIDE DEF s
<1>10. Shape(stack') /\ Pending(stack') = Pending(stack)
  BY <1>3, CallbackShape DEF IInv
<1>11. Registered'
  BY <1>3 DEF IInv, Registered
<1>12. BookTypes'
  BY <1>1, <1>2, <1>3, <1>4, <1>6 DEF IInv, BookTypes
<1>13. Books'
  <2> SUFFICES ASSUME NEW m \in Names, NEW t \in StopIds
               PROVE  t \in strategyOrders'[m] <=> t \in DOMAIN stopOrders' /\ stopOrders'[t].name = m
    BY DEF Books
  <2>1. strategyOrders'[m] = IF m = n THEN strategyOrders[m] \cup {s} ELSE strategyOrders[m]
    BY <1>1, <1>3 DEF IInv, BookTypes
  <2>2. t \in strategyOrders[m] <=> t \in DOMAIN stopOrders /\ stopOrders[t].name = m
    BY DEF IInv, Books
  <2>3. CASE t = s
    BY <1>4, <1>5, <1>6, <2>1, <2>2, <2>3
  <2>4. CASE t # s
    BY <1>6, <2>1, <2>2, <2>4
  <2> QED
    BY <2>3, <2>4
<1>14. Once'
  <2> SUFFICES ASSUME NEW t \in StopIds
               PROVE  /\ t \in DOMAIN stopOrders' => t <= MaxOrders + stopCount' /\ fired[t] = 0 /\ t \notin withdrawn
                      /\ t > MaxOrders + stopCount' => fired[t] = 0 /\ t \notin withdrawn
                      /\ fired[t] <= 1
                      /\ fired[t] = 1 => t \notin withdrawn
    BY <1>3 DEF Once
  <2>1. /\ t \in DOMAIN stopOrders => t <= MaxOrders + stopCount /\ fired[t] = 0 /\ t \notin withdrawn
        /\ t > MaxOrders + stopCount => fired[t] = 0 /\ t \notin withdrawn
        /\ fired[t] <= 1
        /\ fired[t] = 1 => t \notin withdrawn
    BY DEF IInv, Once
  <2>2. t \in DOMAIN stopOrders' => t <= MaxOrders + stopCount' /\ fired[t] = 0 /\ t \notin withdrawn
    BY <1>6, <1>7, <1>9, <2>1
  <2>3. t > MaxOrders + stopCount' => fired[t] = 0 /\ t \notin withdrawn
    BY <1>8, <2>1
  <2> QED
    BY <2>1, <2>2, <2>3
<1>15. Owned'
  <2> SUFFICES ASSUME NEW t \in DOMAIN stopOrders'
               PROVE  /\ strategies[stopOrders'[t].name] # None
                      /\ alive => strategies[stopOrders'[t].name] \in trading \/ t \in Pending(stack')
    BY <1>3 DEF Owned
  <2>1. CASE t = s
    <3>1. i # None
      BY <1>1 DEF IInv, Registered
    <3> QED
      BY <1>1, <1>4, <1>6, <2>1, <3>1
  <2>2. CASE t # s
    BY <1>6, <1>10, <2>2 DEF IInv, Owned
  <2> QED
    BY <2>1, <2>2
<1> QED
  BY <1>3, <1>10, <1>11, <1>12, <1>13, <1>14, <1>15 DEF IInv

\* While a tick is walked nothing is pending.
LEMMA WalkPending == ASSUME IInv, Top("walk") PROVE Pending(stack) = {}
<1>1. /\ stack # <<>> /\ stack[1].f = "walk" /\ Shape(stack)
  BY TopFrame DEF IInv
<1>2. Tail(stack) # <<>> /\ Tail(stack)[Len(Tail(stack))].f = "ticks" /\ Pending(Tail(stack)) = Pending(stack)
  BY <1>1, PopShape
<1> QED
  BY <1>2 DEF Pending

\* A stop order that triggers: the walk of a tick is the only handler there is,

\* so nothing is pending and the owner of the stop order trades.
LEMMA TriggerInv == ASSUME IInv, WalkTrigger PROVE IInv'
<1>1. PICK s \in Following :
        LET i == strategies[stopOrders[s].name] IN
        /\ i # None
        /\ SendServerOrder(i, stopOrders[s].dir, {s})
        /\ stopOrders' = Erased(s)
        /\ fired' = [fired EXCEPT ![s] = @ + 1]
        /\ stack' = <<Callback(i)>> \o <<[Frame EXCEPT !.last = s, !.dangling = TRUE]>> \o Tail(stack)
  BY DEF WalkTrigger
<1> DEFINE n == stopOrders[s].name
           i == strategies[n]
           y == [Frame EXCEPT !.last = s, !.dangling = TRUE]
           x == Callback(i)
<1>2. s \in DOMAIN stopOrders /\ s \in StopIds /\ n \in Names /\ stopOrders[s].dir \in Directions
  BY DEF Following, Ahead, IInv, BookTypes
<1>3. /\ i \in Instances /\ i # None /\ NameOf(i) = n
      /\ SendServerOrder(i, stopOrders[s].dir, {s})
      /\ stopOrders' = Erased(s)
      /\ fired' = [fired EXCEPT ![s] = @ + 1]
      /\ stack' = <<x>> \o <<y>> \o Tail(stack)
  BY <1>1, <1>2 DEF IInv, Registered
<1>4. UNCHANGED <<strategies, alive, gens, settings, inited, trading, stopCount, withdrawn>>
  BY DEF WalkTrigger, ctaVars, procVars
<1>5. /\ stack # <<>> /\ Frame = stack[1] /\ FrameShape(Frame) /\ Frame.f = "walk"
      /\ Shape(stack)
  BY TopFrame DEF WalkTrigger, Walking, IInv
<1>6. Pending(stack) = {}
  BY WalkPending DEF WalkTrigger, Walking
<1>7. FrameShape(y) /\ y.f = "walk"
  <2>1. FrameShape(Frame) /\ Frame.f = "walk"
    BY <1>5
  <2> QED
    BY <2>1, DanglingUpdate
<1> HIDE DEF n, i, x, y
<1>8. Shape(stack') /\ Pending(stack') = Pending(stack)
  <2>1. Shape(<<y>> \o Tail(stack)) /\ Pending(<<y>> \o Tail(stack)) = Pending(stack)
    BY <1>5, <1>7, ReplaceKeeps
  <2>2. IsSequence(Tail(stack))
    BY <1>5, PopSequence DEF Shape
  <2>3. stack' = <<x>> \o (<<y>> \o Tail(stack))
    BY <1>3, <2>2, PushTwo
  <2> QED
    BY <2>1, <2>3, CallbackShape DEF x
<1>9. /\ orderCount' \in 0 .. MaxOrders
      /\ bus' \in Seq(BusEvents) /\ venue' \in [OrderIds -> VenueOrders]
  BY <1>2, <1>3, SendTypes
<1>10. PICK o \in OrderIds : strategyOrders' = [strategyOrders EXCEPT ![n] = (@ \cup {o}) \ {s}]
  BY <1>2, <1>3, SendTypes
<1>11. /\ DOMAIN stopOrders' = DOMAIN stopOrders \ {s}
       /\ \A t \in DOMAIN stopOrders' : stopOrders'[t] = stopOrders[t]
  BY <1>3 DEF Erased
<1>12. /\ fired[s] = 0 /\ s \notin withdrawn /\ s <= MaxOrders + stopCount
       /\ MaxOrders + stopCount \in Nat /\ StopIds \subseteq Nat
  BY <1>2, Bounds DEF IInv, Once, BookTypes
<1>13. /\ fired' \in [StopIds -> Nat] /\ fired'[s] = 1
       /\ \A t \in StopIds : t # s => fired'[t] = fired[t]
  BY <1>2, <1>3, <1>12 DEF IInv, BookTypes
<1>14. Registered'
  BY <1>4 DEF IInv, Registered
<1>15. strategyOrders \in [Names -> SUBSET (OrderIds \cup StopIds)]
  BY DEF IInv, BookTypes
<1>16. BookTypes'
  <2>1. strategyOrders' \in [Names -> SUBSET (OrderIds \cup StopIds)]
    BY <1>2, <1>10, <1>15
  <2> QED
    BY <1>4, <1>9, <1>11, <1>13, <2>1 DEF IInv, BookTypes
<1>17. Books'
  <2> SUFFICES ASSUME NEW m \in Names, NEW t \in StopIds
               PROVE  t \in strategyOrders'[m] <=> t \in DOMAIN stopOrders' /\ stopOrders'[t].name = m
    BY DEF Books
  <2>1. t # o
    BY Bounds
  <2>2. t \in strategyOrders'[m] <=> t \in strategyOrders[m] /\ ~(m = n /\ t = s)
    BY <1>2, <1>10, <1>15, <2>1
  <2>3. t \in strategyOrders[m] <=> t \in DOMAIN stopOrders /\ stopOrders[t].name = m
    BY DEF IInv, Books
  <2> QED
    BY <1>11, <2>2, <2>3 DEF n
<1>18. Once'
  <2> SUFFICES ASSUME NEW t \in StopIds
               PROVE  /\ t \in DOMAIN stopOrders' => t <= MaxOrders + stopCount /\ fired'[t] = 0 /\ t \notin withdrawn
                      /\ t > MaxOrders + stopCount => fired'[t] = 0 /\ t \notin withdrawn
                      /\ fired'[t] <= 1
                      /\ fired'[t] = 1 => t \notin withdrawn
    BY <1>4 DEF Once
  <2>1. CASE t = s
    BY <1>11, <1>12, <1>13, <2>1
  <2>2. CASE t # s
    BY <1>11, <1>13, <2>2 DEF IInv, Once
  <2> QED
    BY <2>1, <2>2
<1>19. Owned'
  BY <1>4, <1>6, <1>8, <1>11 DEF IInv, Owned
<1> QED
  BY <1>8, <1>9, <1>14, <1>16, <1>17, <1>18, <1>19 DEF IInv

\* An order event takes a finished order, never a stop order, off the ids.
LEMMA CtaOrderInv == ASSUME IInv, CtaOrderEvent PROVE IInv'
<1> DEFINE e == Frame.e
           i == orderStrategy[e.id]
<1>1. UNCHANGED <<strategies, alive, gens, settings, inited, trading, orderCount, stopOrders, stopCount,
                  fired, withdrawn, bus, venue>>
  BY DEF CtaOrderEvent, ctaVars, stopVars, venueVars, procVars
<1>2. Shape(After("cta")) /\ Pending(After("cta")) = Pending(stack) /\ e.id \in OrderIds
  BY AfterShape DEF CtaOrderEvent, Handling
<1>3. \/ stack' = After("cta")
      \/ stack' = <<Callback(i)>> \o After("cta")
  BY DEF CtaOrderEvent
<1>4. \/ strategyOrders' = strategyOrders
      \/ strategyOrders' = [strategyOrders EXCEPT ![NameOf(i)] = @ \ {e.id}]
  BY DEF CtaOrderEvent
<1> HIDE DEF i, e
<1>5. Shape(stack') /\ Pending(stack') = Pending(stack)
  BY <1>2, <1>3, CallbackShape
<1>6. strategyOrders \in [Names -> SUBSET (OrderIds \cup StopIds)]
  BY DEF IInv, BookTypes
<1>7. /\ strategyOrders' \in [Names -> SUBSET (OrderIds \cup StopIds)]
      /\ \A n \in Names, s \in StopIds : s \in strategyOrders'[n] <=> s \in strategyOrders[n]
  BY <1>2, <1>4, <1>6, Bounds
<1>8. Registered' /\ Once' /\ Owned'
  BY <1>1, <1>5 DEF IInv, Registered, Once, Owned
<1>9. BookTypes' /\ Books'
  BY <1>1, <1>7 DEF IInv, BookTypes, Books
<1> QED
  BY <1>1, <1>5, <1>8, <1>9 DEF IInv

\* stop_strategy takes the flag away and its cancel_all, the whole stack now,

\* has every stop order of the strategy to cancel.
LEMMA StoppedInv == ASSUME IInv, Stopped PROVE IInv'
<1> DEFINE i == Frame.s
           v == strategyOrders[NameOf(i)]
           y == [f |-> "cancelAll", todo |-> v]
<1>1. stack # <<>> /\ Frame = stack[1] /\ Frame.f = "stopped" /\ Shape(stack) /\ alive
  BY TopFrame DEF Stopped, Top, IInv
<1>2. Tail(stack) = <<>> /\ Pending(stack) = {}
  BY <1>1, PopShape
<1>3. /\ trading' = trading \ {i} /\ stack' = <<y>> \o Tail(stack)
      /\ UNCHANGED <<strategies, alive, gens, settings, inited, orderCount, stopOrders, strategyOrders,
                     stopCount, fired, withdrawn, bus, venue>>
  BY DEF Stopped, orderVars, stopVars, venueVars, procVars
<1>4. FrameShape(y) /\ y.f = "cancelAll" /\ y.todo = v
  BY DEF FrameShape
<1> HIDE DEF i, v, y
<1>5. stack' = <<y>>
  <2>1. <<y>> \in Seq({y})
    OBVIOUS
  <2> QED
    BY <1>2, <1>3, <2>1, ConcatEmptySeq
<1>6. Shape(stack')
  BY <1>4, <1>5, BeginOne
<1>7. Pending(stack') = v
  <2>1. Len(<<y>>) = 1 /\ <<y>>[1] = y /\ <<y>> # <<>>
    OBVIOUS
  <2> QED
    BY <1>4, <1>5, <2>1 DEF Pending
<1>8. Registered' /\ BookTypes' /\ Books' /\ Once'
  BY <1>3 DEF IInv, Registered, BookTypes, Books, Once
<1>9. Owned'
  <2> SUFFICES ASSUME NEW s \in DOMAIN stopOrders
               PROVE  /\ strategies[stopOrders[s].name] # None
                      /\ strategies[stopOrders[s].name] \in trading' \/ s \in Pending(stack')
    BY <1>3 DEF Owned
  <2> DEFINE n == stopOrders[s].name
  <2>1. n \in Names /\ s \in StopIds
    BY DEF IInv, BookTypes
  <2>2. strategies[n] # None /\ strategies[n] \in trading
    BY <1>1, <1>2 DEF IInv, Owned
  <2>3. NameOf(strategies[n]) = n
    BY <2>1, <2>2 DEF IInv, Registered
  <2>4. s \in strategyOrders[n]
    BY <2>1 DEF IInv, Books
  <2> HIDE DEF n
  <2>5. strategies[n] = i => s \in v
    BY <2>3, <2>4 DEF v
  <2> QED
    BY <1>3, <1>7, <2>2, <2>5 DEF n
<1> QED
  BY <1>3, <1>6, <1>8, <1>9 DEF IInv
-------------------------------------------------------------------------------
(* The life of a strategy: between handlers nothing is pending.              *)

LEMMA IdleOwned ==
  ASSUME IInv, Idle
  PROVE  /\ stack = <<>>
         /\ \A s \in DOMAIN stopOrders : strategies[stopOrders[s].name] \in trading
BY EmptyShape DEF Idle, IInv, Owned

\* A new object of a name that has none.
LEMMA AddInv == ASSUME IInv, NEW n \in Names, AddStrategy(n) PROVE IInv'
<1> DEFINE i == <<n, gens[n] + 1>>
<1>1. strategies[n] = None /\ gens[n] + 1 \in 1 .. MaxGen
  <2>1. gens[n] \in 0 .. MaxGen /\ MaxGen \in Nat /\ gens[n] < MaxGen
    BY CtaAssumption DEF AddStrategy, UpdateStrategySetting, IInv, Registered
  <2> QED
    BY <2>1 DEF AddStrategy, UpdateStrategySetting
<1>2. i \in Instances /\ NameOf(i) = n
  BY <1>1 DEF Instances, NameOf
<1>3. /\ strategies' = [strategies EXCEPT ![n] = i]
      /\ gens' = [gens EXCEPT ![n] = @ + 1] /\ settings' = settings \cup {n}
      /\ UNCHANGED <<alive, inited, trading, orderCount, stopOrders, strategyOrders, stopCount, fired, withdrawn,
                     stack, bus, venue>>
  BY DEF AddStrategy, UpdateStrategySetting, orderVars, stopVars, venueVars
<1> HIDE DEF i
<1>4. Registered'
  <2>1. /\ strategies' \in [Names -> Instances \cup {None}]
        /\ settings' \subseteq Names /\ None \notin inited' /\ trading' \subseteq inited'
    BY <1>2, <1>3 DEF IInv, Registered
  <2>2. gens' \in [Names -> 0 .. MaxGen]
    BY <1>1, <1>3, CtaAssumption DEF IInv, Registered
  <2>3. \A m \in Names : strategies'[m] # None => NameOf(strategies'[m]) = m
    BY <1>2, <1>3 DEF IInv, Registered
  <2>4. \A j \in trading' : NameOf(j) \in Names /\ strategies'[NameOf(j)] = j
    <3> SUFFICES ASSUME NEW j \in trading PROVE NameOf(j) \in Names /\ strategies'[NameOf(j)] = j
      BY <1>3
    <3>1. NameOf(j) \in Names /\ strategies[NameOf(j)] = j /\ j # None
      BY DEF IInv, Registered
    <3>2. NameOf(j) # n
      BY <1>1, <3>1
    <3> QED
      BY <1>3, <3>1, <3>2 DEF IInv, Registered
  <2> QED
    BY <2>1, <2>2, <2>3, <2>4 DEF Registered
<1>5. BookTypes' /\ Books' /\ Once'
  BY <1>3 DEF IInv, BookTypes, Books, Once
<1>6. Owned'
  <2> SUFFICES ASSUME NEW s \in DOMAIN stopOrders
               PROVE  /\ strategies'[stopOrders[s].name] # None
                      /\ alive => strategies'[stopOrders[s].name] \in trading \/ s \in Pending(stack)
    BY <1>3 DEF Owned
  <2>1. /\ stopOrders[s].name \in Names /\ strategies[stopOrders[s].name] # None
        /\ alive => strategies[stopOrders[s].name] \in trading \/ s \in Pending(stack)
    BY DEF IInv, BookTypes, Owned
  <2> QED
    BY <1>1, <1>3, <2>1 DEF IInv, Registered
<1> QED
  BY <1>3, <1>4, <1>5, <1>6 DEF IInv

\* The flags of a registered object.
LEMMA FlagInv ==
  ASSUME IInv, NEW n \in Names, InitStrategy(n) \/ StartStrategy(n)
  PROVE  IInv'
<1>1. UNCHANGED <<strategies, alive, gens, settings, orderCount, stopOrders, strategyOrders, stopCount, fired,
                  withdrawn, stack, bus, venue>>
  BY DEF InitStrategy, StartStrategy, orderVars, stopVars, venueVars, procVars
<1>2. /\ strategies[n] # None
      /\ \/ inited' = inited \cup {strategies[n]} /\ trading' = trading
         \/ strategies[n] \in inited /\ inited' = inited /\ trading' = trading \cup {strategies[n]}
  BY DEF InitStrategy, StartStrategy, IInv, Registered
<1>3. Registered'
  BY <1>1, <1>2 DEF IInv, Registered
<1>4. BookTypes' /\ Books' /\ Once'
  BY <1>1 DEF IInv, BookTypes, Books, Once
<1>5. Owned'
  BY <1>1, <1>2 DEF IInv, Owned
<1> QED
  BY <1>1, <1>3, <1>4, <1>5 DEF IInv

\* A strategy that is removed does not trade, so it has no stop order.
LEMMA RemoveInv == ASSUME IInv, NEW n \in Names, RemoveStrategy(n) PROVE IInv'
<1>1. /\ strategies[n] \notin trading
      /\ settings' = settings \ {n}
      /\ strategyOrders' = [strategyOrders EXCEPT ![n] = {}]
      /\ strategies' = [strategies EXCEPT ![n] = None]
      /\ UNCHANGED <<alive, gens, inited, trading, orderCount, stopOrders, stopCount, fired, withdrawn,
                     stack, bus, venue>>
  BY DEF RemoveStrategy, RemoveStrategySetting, stopVars, venueVars, procVars
<1>2. \A s \in DOMAIN stopOrders : strategies[stopOrders[s].name] \in trading /\ stopOrders[s].name # n
  BY <1>1, IdleOwned DEF RemoveStrategy, RemoveStrategySetting
<1>3. Registered'
  <2>1. /\ strategies' \in [Names -> Instances \cup {None}]
        /\ settings' \subseteq Names /\ None \notin inited' /\ trading' \subseteq inited'
        /\ gens' \in [Names -> 0 .. MaxGen]
    BY <1>1 DEF IInv, Registered
  <2>2. \A m \in Names : strategies'[m] # None => NameOf(strategies'[m]) = m
    BY <1>1 DEF IInv, Registered
  <2>3. \A j \in trading' : NameOf(j) \in Names /\ strategies'[NameOf(j)] = j
    BY <1>1 DEF IInv, Registered
  <2> QED
    BY <2>1, <2>2, <2>3 DEF Registered
<1>4. BookTypes' /\ Once'
  BY <1>1 DEF IInv, BookTypes, Once
<1>5. Books'
  <2> SUFFICES ASSUME NEW m \in Names, NEW s \in StopIds
               PROVE  s \in strategyOrders'[m] <=> s \in DOMAIN stopOrders /\ stopOrders[s].name = m
    BY <1>1 DEF Books
  <2>1. strategyOrders'[m] = IF m = n THEN {} ELSE strategyOrders[m]
    BY <1>1 DEF IInv, BookTypes
  <2> QED
    BY <1>2, <2>1 DEF IInv, Books
<1>6. Owned'
  <2> SUFFICES ASSUME NEW s \in DOMAIN stopOrders
               PROVE  strategies'[stopOrders[s].name] # None /\ strategies'[stopOrders[s].name] \in trading
    BY <1>1 DEF Owned
  <2>1. strategies[stopOrders[s].name] # None /\ stopOrders[s].name \in Names
    BY DEF IInv, Owned, BookTypes
  <2> QED
    BY <1>1, <1>2, <2>1 DEF IInv, Registered
<1> QED
  BY <1>1, <1>3, <1>4, <1>5, <1>6 DEF IInv
-------------------------------------------------------------------------------
(* The venue and the process.                                                *)

\* The entry of an order that the venue moves.
LEMMA VenueEntry ==
  ASSUME venue \in [OrderIds -> VenueOrders], NEW o \in OrderIds, NEW st, NEW lots, NEW es, VenueMoves(o, st, lots, es)
  PROVE  venue' = [venue EXCEPT ![o] = [st |-> st, traded |-> venue[o].traded + lots,
                                        dir |-> venue[o].dir, by |-> venue[o].by]]
<1> DEFINE v == venue[o]
           w == [st |-> st, traded |-> v.traded + lots, dir |-> v.dir, by |-> v.by]
<1>1. v = [st |-> v.st, traded |-> v.traded, dir |-> v.dir, by |-> v.by]
  BY DEF VenueOrders
<1>2. venue' = [venue EXCEPT ![o] = w]
  <2> DEFINE x == [st |-> st, traded |-> v.traded, dir |-> v.dir, by |-> v.by]
             u == [venue EXCEPT ![o] = x]
  <2>1. venue' = [venue EXCEPT ![o].st = st, ![o].traded = @ + lots]
    BY DEF VenueMoves
  <2>2. venue' = [[venue EXCEPT ![o].st = st] EXCEPT ![o].traded = @ + lots]
    BY <2>1
  <2>3. [v EXCEPT !.st = st] = x
    <3> HIDE DEF v
    <3> QED
      BY <1>1
  <2>4. [venue EXCEPT ![o].st = st] = u
    <3>1. [venue EXCEPT ![o].st = st] = [venue EXCEPT ![o] = [v EXCEPT !.st = st]]
      OBVIOUS
    <3> QED
      BY <2>3, <3>1
  <2>5. u[o] = x /\ DOMAIN u = DOMAIN venue
    OBVIOUS
  <2>6. [x EXCEPT !.traded = @ + lots] = w
    <3> HIDE DEF v
    <3> QED
      OBVIOUS
  <2> HIDE DEF x, w
  <2>7. [u EXCEPT ![o].traded = @ + lots] = [u EXCEPT ![o] = w]
    <3> HIDE DEF u
    <3> QED
      BY <2>5, <2>6
  <2>8. venue' = [u EXCEPT ![o] = w]
    BY <2>2, <2>4, <2>7
  <2> QED
    BY <2>8
<1> QED
  BY <1>2

\* The venue moves an order that it has: the sender stays.
LEMMA VenueMovesInv ==
  ASSUME IInv, NEW o \in OrderIds, NEW st \in Status, NEW lots \in Int, NEW es \in Seq(BusEvents),
         VenueMoves(o, st, lots, es)
  PROVE  IInv' /\ \A r \in OrderIds : venue'[r].by = venue[r].by
<1> DEFINE v == venue[o]
           w == [st |-> st, traded |-> v.traded + lots, dir |-> v.dir, by |-> v.by]
           e == OrderEvent(o, st)
<1>1. venue \in [OrderIds -> VenueOrders] /\ bus \in Seq(BusEvents) /\ Shape(stack)
  BY DEF IInv
<1>2. v = [st |-> v.st, traded |-> v.traded, dir |-> v.dir, by |-> v.by] /\ v.traded \in Int /\ v \in VenueOrders
  BY <1>1 DEF VenueOrders
<1>3. venue' = [venue EXCEPT ![o] = w]
  BY <1>1, VenueEntry
<1>4. w \in VenueOrders /\ w.by = v.by
  BY <1>2 DEF VenueOrders
<1>5. e \in BusEvents
  BY DEF BusEvents, OrderEvent
<1>6. bus' = IF alive THEN bus \o (<<e>> \o es) ELSE bus
  BY DEF VenueMoves, Push
<1> HIDE DEF e, v, w
<1>7. bus' \in Seq(BusEvents)
  <2>1. <<e>> \in Seq(BusEvents)
    BY <1>5
  <2>2. <<e>> \o es \in Seq(BusEvents)
    BY <2>1, ConcatProperties
  <2>3. bus \o (<<e>> \o es) \in Seq(BusEvents)
    BY <1>1, <2>2, ConcatProperties
  <2> QED
    BY <1>1, <1>6, <2>3
<1>8. venue' \in [OrderIds -> VenueOrders] /\ \A r \in OrderIds : venue'[r].by = venue[r].by
  BY <1>1, <1>3, <1>4 DEF v
<1>9. UNCHANGED bookVars /\ stack' = stack
  BY DEF VenueMoves, bookVars, ctaVars, orderVars, stopVars, procVars
<1> QED
  BY <1>1, <1>7, <1>8, <1>9, StackStep

LEMMA VenueInv == ASSUME IInv, VenueStep PROVE IInv' /\ \A r \in OrderIds : venue'[r].by = venue[r].by
<1>1. PICK o \in OrderIds : \/ Accept(o)
                            \/ Reject(o)
                            \/ CancelDone(o)
                            \/ Fill(o)
                            \/ \E k \in 1 .. Volume : DuplicateTrade(o, k)
  BY DEF VenueStep
<1>2. <<>> \in Seq(BusEvents) /\ {"NOTTRADED", "REJECTED", "CANCELLED", "ALLTRADED", "PARTTRADED"} \subseteq Status
  BY EmptySeq DEF Status, Active
<1>3. \A k \in Int : <<TradeEvent(o, k)>> \in Seq(BusEvents)
  <2> SUFFICES ASSUME NEW k \in Int PROVE <<TradeEvent(o, k)>> \in Seq(BusEvents)
    OBVIOUS
  <2>1. TradeEvent(o, k) \in BusEvents
    BY DEF TradeEvent, BusEvents
  <2> QED
    BY <2>1
<1>4. CASE Accept(o) \/ Reject(o) \/ CancelDone(o)
  <2>1. PICK st \in Status : VenueMoves(o, st, 0, <<>>)
    BY <1>2, <1>4 DEF Accept, Reject, CancelDone
  <2> DEFINE es == <<>>
  <2>2. es \in Seq(BusEvents) /\ 0 \in Int /\ VenueMoves(o, st, 0, es)
    BY <1>2, <2>1
  <2> HIDE DEF es
  <2> QED
    BY <2>2, VenueMovesInv
<1>5. CASE Fill(o)
  <2> DEFINE k == venue[o].traded + 1
             st == IF k = Volume THEN "ALLTRADED" ELSE "PARTTRADED"
             es == <<TradeEvent(o, k)>>
  <2>1. VenueMoves(o, st, 1, es)
    BY <1>5 DEF Fill
  <2>2. k \in Int
    BY DEF IInv, VenueOrders
  <2>3. st \in Status
    BY <1>2
  <2> HIDE DEF k
  <2>4. es \in Seq(BusEvents)
    BY <1>3, <2>2
  <2> HIDE DEF st, es
  <2> QED
    BY <2>1, <2>3, <2>4, VenueMovesInv
<1>6. CASE \E k \in 1 .. Volume : DuplicateTrade(o, k)
  <2>1. PICK k \in 1 .. Volume : DuplicateTrade(o, k)
    BY <1>6
  <2> DEFINE es == <<TradeEvent(o, k)>>
  <2>2. es \in Seq(BusEvents)
    BY <1>3
  <2>3. bus' = (IF alive THEN bus \o es ELSE bus) /\ venue' = venue /\ stack' = stack /\ UNCHANGED bookVars
    BY <2>1 DEF DuplicateTrade, Push, bookVars, ctaVars, orderVars, stopVars, procVars
  <2> HIDE DEF es
  <2>4. bus' \in Seq(BusEvents)
    BY <2>2, <2>3, ConcatProperties DEF IInv
  <2> QED
    BY <2>3, <2>4, StackStep DEF IInv
<1> QED
  BY <1>1, <1>4, <1>5, <1>6

\* A process that died has an empty stack; what stop_strategy had pending is

\* lost with it.
LEMMA CrashInv == ASSUME IInv, Crash PROVE IInv' /\ venue' = venue
<1>1. /\ ~alive' /\ stack' = <<>> /\ bus' = <<>>
      /\ UNCHANGED <<strategies, gens, settings, inited, trading, orderCount, stopOrders, strategyOrders,
                     stopCount, fired, withdrawn, venue>>
  BY DEF Crash, ctaVars, orderVars, stopVars, venueVars
<1>2. Registered' /\ BookTypes' /\ Books' /\ Once' /\ Owned'
  BY <1>1 DEF IInv, Registered, BookTypes, Books, Once, Owned
<1>3. Shape(stack') /\ bus' \in Seq(BusEvents)
  BY <1>1, EmptyShape, EmptySeq
<1> QED
  BY <1>1, <1>2, <1>3 DEF IInv

\* The process starts with the strategies of the setting file, none of them

\* trading, no stop order, and the open orders as the adapter reports them.
LEMMA RestartInv == ASSUME IInv, Restart PROVE IInv' /\ venue' = venue
<1>1. /\ gens' = [n \in Names |-> IF n \in settings THEN gens[n] + 1 ELSE gens[n]]
      /\ strategies' = [n \in Names |-> IF n \in settings THEN Loaded(n) ELSE None]
      /\ inited' = {} /\ trading' = {}
      /\ strategyOrders' = [n \in Names |-> {}] /\ stopOrders' = <<>>
      /\ UNCHANGED <<settings, orderCount, stopCount, fired, withdrawn, venue, stack>>
  BY DEF Restart, venueVars
<1>2. DOMAIN stopOrders' = {}
  BY <1>1, EmptySeq
<1>3. \A n \in settings : n \in Names /\ gens[n] + 1 \in 1 .. MaxGen /\ gens[n] + 1 \in 0 .. MaxGen
  <2> SUFFICES ASSUME NEW n \in settings
               PROVE  n \in Names /\ gens[n] + 1 \in 1 .. MaxGen /\ gens[n] + 1 \in 0 .. MaxGen
    OBVIOUS
  <2>1. n \in Names /\ gens[n] \in 0 .. MaxGen /\ MaxGen \in Nat /\ gens[n] < MaxGen
    BY CtaAssumption DEF Restart, IInv, Registered
  <2> QED
    BY <2>1
<1>4. \A n \in settings : Loaded(n) \in Instances /\ NameOf(Loaded(n)) = n
  BY <1>3 DEF Loaded, Instances, NameOf
<1>5. Registered'
  <2>1. gens' \in [Names -> 0 .. MaxGen]
    BY <1>1, <1>3 DEF IInv, Registered
  <2>2. strategies' \in [Names -> Instances \cup {None}]
    BY <1>1, <1>4
  <2>3. settings' \subseteq Names
    BY <1>1 DEF IInv, Registered
  <2> QED
    BY <1>1, <1>4, <2>1, <2>2, <2>3 DEF Registered
<1>6. BookTypes' /\ Books'
  BY <1>1, <1>2 DEF IInv, BookTypes, Books
<1>7. Once' /\ Owned'
  BY <1>1, <1>2 DEF IInv, Once, Owned
<1>8. bus' \in Seq(BusEvents)
  <2>1. IsFiniteSet(OpenOrders)
    <3>1. IsFiniteSet(OrderIds)
      BY Bounds, FS_Interval DEF OrderIds
    <3>2. OpenOrders \in SUBSET OrderIds
      BY DEF OpenOrders
    <3> QED
      BY <3>1, <3>2, FS_Subset
  <2> DEFINE m == Cardinality(OpenOrders)
  <2>2. m \in Nat
    BY <2>1, FS_CardinalityType
  <2>3. PICK q \in [1 .. m -> OpenOrders] : bus' = [k \in DOMAIN q |-> OrderEvent(q[k], venue[q[k]].st)]
    BY DEF Restart
  <2>4. \A o \in OpenOrders : OrderEvent(o, venue[o].st) \in BusEvents
    BY DEF OpenOrders, OrderEvent, BusEvents, Status
  <2> HIDE DEF m
  <2>5. bus' \in [1 .. m -> BusEvents]
    BY <2>3, <2>4
  <2> QED
    BY <2>2, <2>5, IsASeq
<1> QED
  BY <1>1, <1>5, <1>6, <1>7, <1>8 DEF IInv
-------------------------------------------------------------------------------
(* The theorems.                                                             *)

LEMMA CallsInv == ASSUME IInv, StrategyCalls PROVE IInv'
BY SendLimitInv, SendStopInv, CancelServerInv, CancelStopInv, CancelAllInv DEF StrategyCalls

LEMMA EngineInv == ASSUME IInv, EngineStep PROVE IInv'
BY StoppedInv, ReturnInv, CancelNextInv, TickInv, TriggerInv, EventInv, CtaOrderInv DEF EngineStep

LEMMA LifecycleInv == ASSUME IInv, Lifecycle PROVE IInv'
BY AddInv, FlagInv, HandlerBegins, RemoveInv DEF Lifecycle

LEMMA NextInv == IInv /\ [Next]_vars => IInv'
<1> SUFFICES ASSUME IInv, [Next]_vars PROVE IInv'
  OBVIOUS
<1>1. CASE Lifecycle
  BY <1>1, LifecycleInv
<1>2. CASE StrategyCalls
  BY <1>2, CallsInv
<1>3. CASE EngineStep
  BY <1>3, EngineInv
<1>4. CASE (\E p \in Prices : ProcessTick(p)) \/ Deliver
  BY <1>4, HandlerBegins
<1>5. CASE VenueStep
  BY <1>5, VenueInv
<1>6. CASE Crash \/ Restart
  BY <1>6, CrashInv, RestartInv
<1>7. CASE UNCHANGED vars
  <2>1. UNCHANGED bookVars /\ stack' = stack /\ bus' = bus /\ venue' = venue
    BY <1>7 DEF vars, bookVars, ctaVars, orderVars, stopVars, venueVars, procVars
  <2> QED
    BY <2>1, StackStep DEF IInv
<1> QED
  BY <1>1, <1>2, <1>3, <1>4, <1>5, <1>6, <1>7 DEF Next

\* The books of the stop orders agree in every state the engine reaches,
\* whatever the callbacks, the ticks, the venue and crashes do.
THEOREM Invariance == Spec => []IInv
<1> QED
  BY InitInv, NextInv, PTL DEF Spec

\* check_stop_order and cancel_local_stop_order always find a registered
\* strategy, and between handlers a stop order belongs to a strategy that trades
\* and is among its ids.
THEOREM StopOrdersHaveOwner == Spec => []StopOrdersOwned
<1>1. IInv => StopOrdersOwned
  <2> SUFFICES ASSUME IInv PROVE StopOrdersOwned
    OBVIOUS
  <2>1. \A s \in DOMAIN stopOrders : strategies[stopOrders[s].name] # None
    BY DEF IInv, Owned
  <2>2. ASSUME Idle, NEW n \in Names
        PROVE  LET own == {s \in DOMAIN stopOrders : stopOrders[s].name = n}
               IN own # {} => strategies[n] \in trading
    BY <2>2, IdleOwned
  <2>3. ASSUME NEW n \in Names
        PROVE  LET own == {s \in DOMAIN stopOrders : stopOrders[s].name = n}
               IN own = strategyOrders[n] \cap StopIds
    BY DEF IInv, Books, BookTypes
  <2> QED
    BY <2>1, <2>2, <2>3 DEF StopOrdersOwned
<1> QED
  BY <1>1, Invariance, PTL

\* check_stop_order sends a stop order once, although its walk resumes from the
\* entry it erased, and never one that was cancelled.
THEOREM FireOnce == Spec => []StopFiresOnce
<1>1. IInv => StopFiresOnce
  BY DEF IInv, Once, StopFiresOnce
<1> QED
  BY <1>1, Invariance, PTL

\* The stop orders are sound: each has its owner, and each fires once.
THEOREM StopOrdersKept == Spec => []StopOrdersSound
  BY StopOrdersHaveOwner, FireOnce, PTL DEF StopOrdersSound

\* A venue order has a new sender only if that strategy trades.
SentFor == \A o \in OrderIds : venue[o].by = None /\ venue'[o].by # None => venue'[o].by \in trading

LEMMA SentForSender ==
  ASSUME IInv, NEW i \in Instances, NEW d \in Directions, NEW gone, SendServerOrder(i, d, gone), i \in trading
  PROVE  SentFor
<1> DEFINE r == orderCount + 1
           v == [st |-> "SUBMITTING", traded |-> 0, dir |-> d, by |-> i]
<1>1. venue' = [venue EXCEPT ![r] = v] /\ v.by = i /\ venue \in [OrderIds -> VenueOrders]
  BY DEF SendServerOrder, IInv
<1> HIDE DEF r, v
<1> QED
  BY <1>1 DEF SentFor

\* Neither a strategy nor the trigger of a stop order sends an order for a
\* strategy that was stopped.
THEOREM OnlyTrading == Spec => OnlyTradingSend
<1>1. IInv /\ [Next]_vars => SentFor
  <2> SUFFICES ASSUME IInv, [Next]_vars PROVE SentFor
    OBVIOUS
  <2>1. CASE \E i \in Instances, d \in Directions : SendLimitOrder(i, d)
    BY <2>1, SentForSender DEF SendLimitOrder, MayCall
  <2>2. CASE WalkTrigger
    <3>1. PICK s \in Following : SendServerOrder(strategies[stopOrders[s].name], stopOrders[s].dir, {s})
      BY <2>2 DEF WalkTrigger
    <3> DEFINE i == strategies[stopOrders[s].name]
    <3>2. s \in DOMAIN stopOrders /\ stopOrders[s].name \in Names /\ stopOrders[s].dir \in Directions
      BY DEF Following, Ahead, IInv, BookTypes
    <3>3. alive /\ Pending(stack) = {}
      BY <2>2, WalkPending DEF WalkTrigger, Walking, Top
    <3>4. i # None /\ i \in trading
      BY <3>2, <3>3 DEF IInv, Owned
    <3>5. i \in Instances
      BY <3>2, <3>4 DEF IInv, Registered
    <3> HIDE DEF i
    <3> QED
      BY <3>1, <3>2, <3>4, <3>5, SentForSender DEF i
  <2>3. CASE VenueStep
    BY <2>3, VenueInv DEF SentFor
  <2>4. CASE UNCHANGED venue
    BY <2>4 DEF SentFor
  <2>5. \/ \E i \in Instances, d \in Directions : SendLimitOrder(i, d)
        \/ WalkTrigger \/ VenueStep \/ UNCHANGED venue
    <3>1. Lifecycle => UNCHANGED venue
      BY DEF Lifecycle, AddStrategy, InitStrategy, StartStrategy, StopStrategy, RemoveStrategy, venueVars
    <3>2. StrategyCalls => (\E i \in Instances, d \in Directions : SendLimitOrder(i, d)) \/ UNCHANGED venue
      BY DEF StrategyCalls, SendLocalStopOrder, CancelServer, CancelStop, CancelAll, venueVars
    <3>3. EngineStep => WalkTrigger \/ UNCHANGED venue
      BY DEF EngineStep, Stopped, Return, CancelNext, OnTick, WalkEnd, WalkOn, WalkDangling,
             OmsOrderEvent, OmsTradeEvent, CtaOrderEvent, CtaTradeEvent, venueVars
    <3>4. (\E p \in Prices : ProcessTick(p)) \/ Deliver \/ Crash \/ Restart => UNCHANGED venue
      BY DEF ProcessTick, Deliver, Crash, Restart, venueVars
    <3>5. UNCHANGED vars => UNCHANGED venue
      BY DEF vars, venueVars
    <3> QED
      BY <3>1, <3>2, <3>3, <3>4, <3>5 DEF Next
  <2> QED
    BY <2>1, <2>2, <2>3, <2>4, <2>5
<1> QED
  BY <1>1, Invariance, PTL DEF Spec, OnlyTradingSend, SentFor
-------------------------------------------------------------------------------
(* Agreement with the venue: the inductive invariant.                        *)

\* The event that waits for engine h in the handler at the bottom of the stack.
Waiting(q, h) ==
  IF q # <<>> /\ q[Len(q)].f = "event" /\ h \in q[Len(q)].todo THEN <<q[Len(q)].e>> ELSE <<>>

\* What engine h has yet to be given, in order.
Line(h) == Waiting(stack, h) \o bus

\* What was said of order o, and of its lot k.
IsOrder(e, o) == e.t = "order" /\ e.id = o
IsTrade(e, o, k) == e.t = "trade" /\ e.id = o /\ e.k = k

\* A line says of each order what happened to it, in order: a report that another
\* one follows is of an active order, and the last report is what the venue has;
\* a trade is of a lot that was traded.
Chronicle(q, v) ==
  /\ q \in Seq(BusEvents)
  /\ \A k \in 1 .. Len(q) :
       /\ v[q[k].id].by # None
       /\ q[k].t = "trade" => q[k].k \in 1 .. v[q[k].id].traded
       /\ q[k].t = "order" =>
            \/ \E l \in k + 1 .. Len(q) : IsOrder(q[l], q[k].id)
            \/ q[k].st = v[q[k].id].st
  /\ \A k, l \in 1 .. Len(q) :
       k < l /\ q[k].t = "order" /\ IsOrder(q[l], q[k].id) => q[k].st \in Active

\* The copies that cancel_all works through hold ids of S.
Copies(q, S) == \A k \in 1 .. Len(q) : q[k].f = "cancelAll" => q[k].todo \subseteq S

\* The orders of the venue are those that were sent, and what is known of an order
\* anywhere is known of one that was sent.
SentOrders ==
  /\ \A o \in OrderIds :
       /\ venue[o].by = None <=> o > orderCount
       /\ venue[o].by = None => venue[o].st = None /\ venue[o].traded = 0
       /\ venue[o].by # None => venue[o].dir \in Directions
       /\ venue[o].traded \in 0 .. Volume
       /\ venue[o].st \in Active => venue[o].traded < Volume
       /\ orderStrategy[o] \in {None, venue[o].by}
  /\ cancelReq \cup unfound \subseteq 1 .. orderCount
  /\ \A n \in Names : strategyOrders[n] \cap OrderIds \subseteq 1 .. orderCount
  /\ Copies(stack, (1 .. orderCount) \cup StopIds)

\* An object that was not made yet has no position and no order, and is in no list.
Lives ==
  /\ \A n \in Names : strategies[n] # None => strategies[n][2] <= gens[n]
  /\ \A i \in Instances : i[2] > gens[i[1]] => pos[i] = 0 /\ \A o \in OrderIds : venue[o].by # i
  /\ \A i \in Range(symbolStrategies) : i[2] <= gens[i[1]]

\* Order management is right about every order that no report waits for.
OmsAgrees(q) ==
  \A o \in OrderIds : (\A e \in Range(q) : ~IsOrder(e, o)) =>
    /\ o \in activeOrders <=> venue[o].st \in Active
    /\ oms[o] = venue[o].st \/ (restarts > 0 /\ oms[o] = None)

\* A registered strategy owns its orders, and its ids are those that are active or
\* whose end it was not told yet.
IdsAgree(q) ==
  \A n \in Names, o \in OrderIds :
    /\ venue[o].by # None /\ venue[o].by = strategies[n] => orderStrategy[o] = strategies[n]
    /\ o \in strategyOrders[n] <=>
         /\ venue[o].by # None /\ venue[o].by = strategies[n]
         /\ venue[o].st \in Active \/ \E e \in Range(q) : IsOrder(e, o) /\ e.st \notin Active

\* The lots of an object that were counted.
Counted(i, d) == {t \in tradeids : venue[t[1]].by = i /\ venue[t[1]].dir = d}

\* Every lot of a registered strategy was counted once or waits.
PosAgrees(q) ==
  /\ \A t \in tradeids : t[2] <= venue[t[1]].traded
  /\ \A n \in Names : strategies[n] # None =>
       /\ pos[strategies[n]] =
            Cardinality(Counted(strategies[n], "LONG")) - Cardinality(Counted(strategies[n], "SHORT"))
       /\ \A o \in OrderIds, k \in 1 .. Volume :
            venue[o].by = strategies[n] /\ k <= venue[o].traded =>
              <<o, k>> \in tradeids \/ \E e \in Range(q) : IsTrade(e, o, k)

\* A strategy that does not trade has its orders asked to be cancelled, or the end
\* of stop_strategy has them in its copy of the ids.
StopsReach ==
  \A n \in Names : strategies[n] \notin trading =>
    strategyOrders[n] \cap OrderIds \subseteq cancelReq \cup unfound \cup Pending(stack)

\* The variables that the books of the stop orders leave out.
OtherTypes ==
  /\ IsInjective(symbolStrategies) /\ symbolStrategies \in Seq(Instances)
  /\ inited \subseteq Instances
  /\ pos \in [Instances -> Int]
  /\ orderStrategy \in [OrderIds -> Instances \cup {None}]
  /\ \A s \in DOMAIN stopOrders : stopOrders[s] \in [dir : Directions, price : Prices, name : Names]
  /\ tradeids \subseteq OrderIds \X (1 .. Volume)
  /\ oms \in [OrderIds -> Status \cup {None}]
  /\ activeOrders \subseteq OrderIds
  /\ restarts \in Nat
  /\ IsFiniteSet(settings)

\* The inductive invariant: a process that died is told nothing.
Agreement ==
  /\ OtherTypes
  /\ SentOrders
  /\ Lives
  /\ \A h \in {"oms", "cta"} : Chronicle(Line(h), venue)
  /\ alive \/ (stack = <<>> /\ bus = <<>>)
  /\ alive => OmsAgrees(Line("oms")) /\ IdsAgree(Line("cta")) /\ PosAgrees(Line("cta")) /\ StopsReach
-------------------------------------------------------------------------------
(* Lines of events.                                                          *)

LEMMA AppendRange ==
  ASSUME NEW S, NEW q \in Seq(S), NEW e \in S
  PROVE  Range(Append(q, e)) = Range(q) \cup {e}
<1> DEFINE p == Append(q, e)
<1>1. /\ Len(q) \in Nat /\ Len(p) = Len(q) + 1
      /\ \A i \in 1 .. Len(q) : p[i] = q[i]
      /\ p[Len(q) + 1] = e /\ DOMAIN p = 1 .. Len(p) /\ DOMAIN q = 1 .. Len(q)
  <2>1. p \in Seq(S)
    BY AppendProperties
  <2> QED
    BY <2>1, AppendProperties, LenProperties
<1> HIDE DEF p
<1>2. \A i \in 1 .. Len(p) : i \in 1 .. Len(q) \/ i = Len(q) + 1
  BY <1>1
<1>3. 1 .. Len(q) \subseteq 1 .. Len(p) /\ Len(q) + 1 \in 1 .. Len(p)
  BY <1>1
<1> QED
  BY <1>1, <1>2, <1>3 DEF p, Range

LEMMA TailRange ==
  ASSUME NEW S, NEW q \in Seq(S), q # <<>>
  PROVE  /\ Range(q) = {Head(q)} \cup Range(Tail(q))
         /\ Head(q) \in S /\ Tail(q) \in Seq(S)
<1> DEFINE p == Tail(q)
<1>1. /\ Len(q) \in Nat \ {0} /\ Len(p) = Len(q) - 1
      /\ \A i \in 1 .. Len(p) : p[i] = q[i + 1]
      /\ Head(q) = q[1] /\ DOMAIN p = 1 .. Len(p) /\ DOMAIN q = 1 .. Len(q)
      /\ p \in Seq(S) /\ Head(q) \in S
  BY EmptySeq, HeadTailProperties, LenProperties
<1> HIDE DEF p
<1>2. \A i \in 1 .. Len(q) : i = 1 \/ (i - 1 \in 1 .. Len(p) /\ (i - 1) + 1 = i)
  BY <1>1
<1>3. \A i \in 1 .. Len(p) : i + 1 \in 1 .. Len(q)
  BY <1>1
<1>4. 1 \in 1 .. Len(q)
  BY <1>1
<1>5. ASSUME NEW x \in Range(q) PROVE x = Head(q) \/ x \in Range(p)
  <2>1. PICK i \in 1 .. Len(q) : q[i] = x
    BY <1>1 DEF Range
  <2>2. i # 1 => i - 1 \in 1 .. Len(p) /\ p[i - 1] = x
    BY <1>1, <1>2, <2>1
  <2> QED
    BY <1>1, <2>1, <2>2 DEF Range
<1>6. ASSUME NEW x \in Range(p) PROVE x \in Range(q)
  <2>1. PICK i \in 1 .. Len(p) : p[i] = x
    BY <1>1 DEF Range
  <2>2. i + 1 \in DOMAIN q /\ q[i + 1] = x
    BY <1>1, <1>3, <2>1
  <2> QED
    BY <2>2 DEF Range
<1>7. Head(q) \in Range(q)
  BY <1>1, <1>4 DEF Range
<1> QED
  BY <1>1, <1>5, <1>6, <1>7 DEF p

\* An event of a line is at some place of it.
LEMMA LineRange ==
  ASSUME NEW q \in Seq(BusEvents), NEW e
  PROVE  e \in Range(q) <=> \E k \in 1 .. Len(q) : q[k] = e
<1>1. DOMAIN q = 1 .. Len(q)
  BY LenProperties
<1> QED
  BY <1>1 DEF Range

LEMMA EventTypes ==
  ASSUME NEW e \in BusEvents
  PROVE  /\ e.id \in OrderIds /\ e.t \in {"order", "trade"}
         /\ e.t = "order" => e.st \in Status
         /\ e.t = "trade" => e.k \in Int
BY DEF BusEvents

LEMMA ChronicleNothing == \A v : Chronicle(<<>>, v)
<1>1. <<>> \in Seq(BusEvents) /\ Len(<<>>) = 0
  BY EmptySeq
<1> QED
  BY <1>1 DEF Chronicle

\* The venue moves an order, or takes a new one, and says so.
LEMMA ReportAppended ==
  ASSUME NEW q, NEW v, Chronicle(q, v), NEW w, NEW o \in OrderIds, NEW st \in Status,
         w[o].by # None, w[o].st = st,
         v[o].by # None => v[o].st \in Active /\ v[o].traded \in Nat /\ w[o].traded \in Nat
                           /\ v[o].traded <= w[o].traded,
         \A r \in OrderIds : r # o => w[r] = v[r]
  PROVE  Chronicle(Append(q, OrderEvent(o, st)), w)
<1> DEFINE e == OrderEvent(o, st)
           p == Append(q, e)
<1>1. e \in BusEvents /\ e.t = "order" /\ e.id = o /\ e.st = st
  BY DEF OrderEvent, BusEvents
<1> HIDE DEF e
<1>2. /\ q \in Seq(BusEvents) /\ Len(q) \in Nat
      /\ p \in Seq(BusEvents) /\ Len(p) = Len(q) + 1
      /\ \A i \in 1 .. Len(q) : p[i] = q[i] /\ q[i] \in BusEvents
      /\ p[Len(q) + 1] = e
  BY <1>1, AppendProperties, LenProperties, ElementOfSeq DEF Chronicle
<1> HIDE DEF p
<1>3. \A k \in 1 .. Len(p) : k \in 1 .. Len(q) \/ k = Len(q) + 1
  BY <1>2
<1>4. ASSUME NEW k \in 1 .. Len(q)
      PROVE  /\ p[k] = q[k] /\ q[k].id \in OrderIds /\ v[q[k].id].by # None
             /\ q[k].t = "order" => \/ \E l \in k + 1 .. Len(q) : IsOrder(q[l], q[k].id)
                                    \/ q[k].st = v[q[k].id].st
             /\ q[k].t = "trade" => q[k].k \in 1 .. v[q[k].id].traded
             /\ q[k].id # o => w[q[k].id] = v[q[k].id]
  BY <1>2, EventTypes DEF Chronicle
<1>5. ASSUME NEW k \in 1 .. Len(q), IsOrder(q[k], o)
      PROVE  q[k].st \in Active
  <2>1. q[k].t = "order" /\ q[k].id = o
    BY <1>5 DEF IsOrder
  <2>2. v[o].st \in Active
    BY <1>4, <2>1
  <2>3. CASE \E l \in k + 1 .. Len(q) : IsOrder(q[l], q[k].id)
    <3>1. PICK l \in k + 1 .. Len(q) : IsOrder(q[l], q[k].id)
      BY <2>3
    <3>2. l \in 1 .. Len(q) /\ k < l
      BY <1>2
    <3> QED
      BY <2>1, <3>1, <3>2 DEF Chronicle
  <2> QED
    BY <1>4, <2>1, <2>2, <2>3
<1>6. ASSUME NEW k \in 1 .. Len(p)
      PROVE  /\ w[p[k].id].by # None
             /\ p[k].t = "trade" => p[k].k \in 1 .. w[p[k].id].traded
             /\ p[k].t = "order" => \/ \E l \in k + 1 .. Len(p) : IsOrder(p[l], p[k].id)
                                    \/ p[k].st = w[p[k].id].st
  <2>1. CASE k = Len(q) + 1
    BY <1>1, <1>2, <2>1
  <2>2. CASE k \in 1 .. Len(q) /\ q[k].id # o
    <3>1. ASSUME NEW l \in k + 1 .. Len(q), IsOrder(q[l], q[k].id)
          PROVE  l \in k + 1 .. Len(p) /\ IsOrder(p[l], p[k].id)
      <4>1. l \in k + 1 .. Len(p) /\ l \in 1 .. Len(q)
        BY <1>2
      <4> QED
        BY <1>4, <2>2, <3>1, <4>1
    <3>2. p[k] = q[k] /\ w[q[k].id] = v[q[k].id] /\ v[q[k].id].by # None
      BY <1>4, <2>2
    <3>3. q[k].t = "trade" => q[k].k \in 1 .. v[q[k].id].traded
      BY <1>4, <2>2
    <3>4. ASSUME q[k].t = "order", q[k].st # v[q[k].id].st
          PROVE  \E l \in k + 1 .. Len(p) : IsOrder(p[l], p[k].id)
      <4>1. PICK l \in k + 1 .. Len(q) : IsOrder(q[l], q[k].id)
        BY <1>4, <2>2, <3>4
      <4> QED
        BY <3>1, <4>1
    <3>5. w[p[k].id].by # None /\ (p[k].t = "trade" => p[k].k \in 1 .. w[p[k].id].traded)
      BY <3>2, <3>3
    <3>6. p[k].st = q[k].st /\ w[p[k].id].st = v[q[k].id].st /\ p[k].t = q[k].t
      BY <3>2
    <3> DEFINE Replaced == \E l \in k + 1 .. Len(p) : IsOrder(p[l], p[k].id)
    <3>7. q[k].t = "order" /\ q[k].st # v[q[k].id].st => Replaced
      BY <3>4
    <3> HIDE DEF Replaced
    <3>8. p[k].t = "order" => Replaced \/ p[k].st = w[p[k].id].st
      BY <3>6, <3>7
    <3> QED
      BY <3>5, <3>8, Zenon DEF Replaced
  <2>3. CASE k \in 1 .. Len(q) /\ q[k].id = o
    <3>1. Len(q) + 1 \in k + 1 .. Len(p) /\ IsOrder(p[Len(q) + 1], o)
      BY <1>1, <1>2, <2>3 DEF IsOrder
    <3>2. p[k] = q[k] /\ v[o].by # None /\ (q[k].t = "trade" => q[k].k \in 1 .. v[o].traded)
      BY <1>4, <2>3
    <3>3. v[o].traded \in Nat /\ w[o].traded \in Nat /\ v[o].traded <= w[o].traded
      BY <3>2
    <3>4. q[k].t = "trade" => q[k].k \in 1 .. w[o].traded
      BY <3>2, <3>3
    <3> QED
      BY <2>3, <3>1, <3>2, <3>4
  <2> QED
    BY <1>3, <2>1, <2>2, <2>3
<1>7. ASSUME NEW k \in 1 .. Len(p), NEW l \in 1 .. Len(p), k < l, p[k].t = "order", IsOrder(p[l], p[k].id)
      PROVE  p[k].st \in Active
  <2>1. k \in 1 .. Len(q)
    BY <1>2, <1>7
  <2>2. CASE l \in 1 .. Len(q)
    BY <1>4, <1>7, <2>1, <2>2 DEF Chronicle
  <2>3. CASE l = Len(q) + 1
    <3>1. q[k].id = o
      BY <1>1, <1>2, <1>4, <1>7, <2>1, <2>3 DEF IsOrder
    <3> QED
      BY <1>4, <1>5, <1>7, <2>1, <3>1 DEF IsOrder
  <2> QED
    BY <1>3, <2>2, <2>3
<1> QED
  BY <1>2, <1>6, <1>7 DEF Chronicle, p, e

\* A trade is pushed, for the first time or again.
LEMMA TradeAppended ==
  ASSUME NEW q, NEW v, Chronicle(q, v), NEW o \in OrderIds, v[o].by # None,
         v[o].traded \in Nat, NEW k \in 1 .. v[o].traded
  PROVE  Chronicle(Append(q, TradeEvent(o, k)), v)
<1> DEFINE e == TradeEvent(o, k)
           p == Append(q, e)
<1>1. e \in BusEvents /\ e.t = "trade" /\ e.id = o /\ e.k = k
  BY DEF TradeEvent, BusEvents
<1> HIDE DEF e
<1>2. /\ q \in Seq(BusEvents) /\ Len(q) \in Nat
      /\ p \in Seq(BusEvents) /\ Len(p) = Len(q) + 1
      /\ \A i \in 1 .. Len(q) : p[i] = q[i] /\ q[i] \in BusEvents
      /\ p[Len(q) + 1] = e
  BY <1>1, AppendProperties, LenProperties, ElementOfSeq DEF Chronicle
<1> HIDE DEF p
<1>3. \A i \in 1 .. Len(p) : i \in 1 .. Len(q) \/ i = Len(q) + 1
  BY <1>2
<1>4. ASSUME NEW i \in 1 .. Len(p)
      PROVE  /\ v[p[i].id].by # None
             /\ p[i].t = "trade" => p[i].k \in 1 .. v[p[i].id].traded
             /\ p[i].t = "order" => \/ \E l \in i + 1 .. Len(p) : IsOrder(p[l], p[i].id)
                                    \/ p[i].st = v[p[i].id].st
  <2>1. CASE i = Len(q) + 1
    BY <1>1, <1>2, <2>1
  <2>2. CASE i \in 1 .. Len(q)
    <3>1. ASSUME NEW l \in i + 1 .. Len(q), IsOrder(q[l], q[i].id)
          PROVE  l \in i + 1 .. Len(p) /\ IsOrder(p[l], p[i].id)
      <4>1. l \in i + 1 .. Len(p) /\ l \in 1 .. Len(q)
        BY <1>2
      <4> QED
        BY <1>2, <2>2, <3>1, <4>1
    <3> QED
      BY <1>2, <2>2, <3>1 DEF Chronicle
  <2> QED
    BY <1>3, <2>1, <2>2
<1>5. ASSUME NEW i \in 1 .. Len(p), NEW l \in 1 .. Len(p), i < l, p[i].t = "order", IsOrder(p[l], p[i].id)
      PROVE  p[i].st \in Active
  <2>1. i \in 1 .. Len(q)
    BY <1>2, <1>5
  <2>2. CASE l \in 1 .. Len(q)
    BY <1>2, <1>5, <2>1, <2>2 DEF Chronicle
  <2>3. l # Len(q) + 1
    BY <1>1, <1>2, <1>5 DEF IsOrder
  <2> QED
    BY <1>3, <2>2, <2>3
<1> QED
  BY <1>2, <1>4, <1>5 DEF Chronicle, p, e

\* The first event of a line is taken: what it says and what is left.
LEMMA ChronicleTail ==
  ASSUME NEW q, NEW v, Chronicle(q, v), q # <<>>
  PROVE  /\ Chronicle(Tail(q), v)
         /\ Head(q) \in BusEvents /\ Range(q) = {Head(q)} \cup Range(Tail(q))
         /\ v[Head(q).id].by # None
         /\ Head(q).t = "trade" => Head(q).k \in 1 .. v[Head(q).id].traded
         /\ Head(q).t = "order" /\ (\A e \in Range(Tail(q)) : ~IsOrder(e, Head(q).id)) =>
              Head(q).st = v[Head(q).id].st
         /\ Head(q).t = "order" /\ Head(q).st \notin Active =>
              \A e \in Range(Tail(q)) : ~IsOrder(e, Head(q).id)
<1> DEFINE p == Tail(q)
<1>1. /\ q \in Seq(BusEvents) /\ p \in Seq(BusEvents) /\ Head(q) \in BusEvents
      /\ Range(q) = {Head(q)} \cup Range(p)
  BY TailRange DEF Chronicle
<1>2. /\ Len(q) \in Nat \ {0} /\ Len(p) = Len(q) - 1 /\ Head(q) = q[1]
      /\ \A i \in 1 .. Len(p) : p[i] = q[i + 1]
  BY <1>1, EmptySeq, HeadTailProperties
<1> HIDE DEF p
<1>3. \A i \in 1 .. Len(p) : i + 1 \in 1 .. Len(q)
  BY <1>2
<1>4. 1 \in 1 .. Len(q)
  BY <1>2
<1>5. ASSUME NEW i \in 1 .. Len(p)
      PROVE  /\ v[p[i].id].by # None
             /\ p[i].t = "trade" => p[i].k \in 1 .. v[p[i].id].traded
             /\ p[i].t = "order" => \/ \E l \in i + 1 .. Len(p) : IsOrder(p[l], p[i].id)
                                    \/ p[i].st = v[p[i].id].st
  <2>1. i + 1 \in 1 .. Len(q) /\ p[i] = q[i + 1]
    BY <1>2, <1>3
  <2>2. ASSUME NEW l \in (i + 1) + 1 .. Len(q), IsOrder(q[l], q[i + 1].id)
        PROVE  \E m \in i + 1 .. Len(p) : IsOrder(p[m], p[i].id)
    <3>1. l - 1 \in i + 1 .. Len(p) /\ l - 1 \in 1 .. Len(p) /\ (l - 1) + 1 = l
      BY <1>2
    <3>2. p[l - 1] = q[l]
      BY <1>2, <3>1
    <3> QED
      BY <2>1, <2>2, <3>1, <3>2
  <2> QED
    BY <2>1, <2>2 DEF Chronicle
<1>6. ASSUME NEW i \in 1 .. Len(p), NEW l \in 1 .. Len(p), i < l, p[i].t = "order", IsOrder(p[l], p[i].id)
      PROVE  p[i].st \in Active
  <2>1. i + 1 < l + 1
    BY <1>6
  <2> QED
    BY <1>2, <1>3, <1>6, <2>1 DEF Chronicle
<1>7. Chronicle(p, v)
  BY <1>1, <1>5, <1>6 DEF Chronicle
<1>8. ASSUME NEW e \in Range(p), IsOrder(e, Head(q).id), Head(q).t = "order"
      PROVE  Head(q).st \in Active
  <2>1. PICK i \in 1 .. Len(p) : p[i] = e
    BY <1>1, LineRange
  <2>2. i + 1 \in 1 .. Len(q) /\ 1 < i + 1 /\ q[i + 1] = e
    BY <1>2, <1>3, <2>1
  <2> QED
    BY <1>2, <1>4, <1>8, <2>2 DEF Chronicle
<1>9. ASSUME Head(q).t = "order", \A e \in Range(p) : ~IsOrder(e, Head(q).id)
      PROVE  Head(q).st = v[Head(q).id].st
  <2>1. ASSUME NEW l \in 1 + 1 .. Len(q)
        PROVE  ~IsOrder(q[l], q[1].id)
    <3>1. l - 1 \in 1 .. Len(p) /\ (l - 1) + 1 = l
      BY <1>2
    <3>2. p[l - 1] = q[l] /\ p[l - 1] \in Range(p)
      BY <1>1, <1>2, <3>1, LineRange
    <3> QED
      BY <1>2, <1>9, <3>2
  <2> QED
    BY <1>2, <1>4, <1>9, <2>1 DEF Chronicle
<1>10. /\ v[Head(q).id].by # None
       /\ Head(q).t = "trade" => Head(q).k \in 1 .. v[Head(q).id].traded
  BY <1>2, <1>4 DEF Chronicle
<1> QED
  BY <1>1, <1>7, <1>8, <1>9, <1>10 DEF p
-------------------------------------------------------------------------------
(* What waits while the stack changes.                                       *)

LEMMA WaitingPush ==
  ASSUME NEW q, Shape(q), NEW x, x.f # "event", NEW h
  PROVE  Waiting(<<x>> \o q, h) = Waiting(q, h)
<1> DEFINE p == <<x>> \o q
<1>1. /\ Len(q) \in Nat /\ Len(p) = Len(q) + 1 /\ p[1] = x
      /\ \A k \in 1 .. Len(q) : p[k + 1] = q[k]
  BY PushSequence DEF Shape
<1>2. p # <<>> /\ (q # <<>> => Len(q) >= 1) /\ (q = <<>> => Len(q) = 0)
  <2>1. Len(<<>>) = 0
    BY EmptySeq
  <2>2. q # <<>> => Len(q) >= 1
    BY PopSequence DEF Shape
  <2> QED
    BY <1>1, <2>1, <2>2
<1> HIDE DEF p
<1>3. q # <<>> => p[Len(p)] = q[Len(q)]
  BY <1>1, <1>2
<1>4. q = <<>> => p[Len(p)] = x
  BY <1>1, <1>2
<1> QED
  BY <1>2, <1>3, <1>4 DEF Waiting, p

LEMMA WaitingPop ==
  ASSUME NEW q, Shape(q), q # <<>>, q[1].f # "event", NEW h
  PROVE  Waiting(Tail(q), h) = Waiting(q, h)
<1> DEFINE t == Tail(q)
<1>1. /\ Len(q) \in Nat \ {0} /\ Len(t) = Len(q) - 1
      /\ \A k \in 1 .. Len(q) - 1 : t[k] = q[k + 1]
      /\ Len(q) = 1 => t = <<>>
  BY PopSequence DEF Shape
<1>2. t = <<>> <=> Len(q) = 1
  <2>1. Len(<<>>) = 0
    BY EmptySeq
  <2> QED
    BY <1>1, <2>1
<1> HIDE DEF t
<1>3. t # <<>> => t[Len(t)] = q[Len(q)]
  BY <1>1, <1>2
<1> QED
  BY <1>2, <1>3 DEF Waiting, t

LEMMA WaitingReplace ==
  ASSUME NEW q, Shape(q), q # <<>>, NEW y, y.f = q[1].f, y.f # "event", NEW h
  PROVE  Waiting(<<y>> \o Tail(q), h) = Waiting(q, h)
<1>1. Shape(Tail(q))
  BY PopShape
<1> QED
  BY <1>1, WaitingPush, WaitingPop

\* An event is alone on the stack until an engine calls a strategy.
LEMMA WaitingAfter ==
  ASSUME IInv, NEW h, Top("event"), h \in Frame.todo, NEW g
  PROVE  /\ Waiting(stack, h) = <<Frame.e>>
         /\ Waiting(After(h), g) = (IF g = h THEN <<>> ELSE Waiting(stack, g))
<1>1. stack # <<>> /\ Frame = stack[1] /\ FrameShape(Frame) /\ Frame.f = "event" /\ Shape(stack)
  BY TopFrame DEF IInv
<1>2. Tail(stack) = <<>>
  BY <1>1, PopShape
<1>3. Len(stack) = 1
  <2>1. Len(stack) \in Nat \ {0} /\ Len(Tail(stack)) = Len(stack) - 1
    BY <1>1, PopSequence DEF Shape
  <2>2. Len(<<>>) = 0
    BY EmptySeq
  <2> PICK k : k = Len(stack)
    OBVIOUS
  <2>3. k \in Nat /\ k - 1 = 0
    BY <1>2, <2>1, <2>2
  <2>4. k = 1
    BY <2>3
  <2> QED
    BY <2>4
<1>4. \A j : Waiting(stack, j) = (IF j \in Frame.todo THEN <<Frame.e>> ELSE <<>>)
  BY <1>1, <1>3 DEF Waiting
<1>5. Waiting(<<>>, g) = <<>>
  BY DEF Waiting
<1>6. CASE Frame.todo = {h}
  BY <1>2, <1>4, <1>5, <1>6 DEF After
<1>7. CASE Frame.todo # {h}
  <2> DEFINE v == Frame.todo \ {h}
             y == [Frame EXCEPT !.todo = v]
  <2>1. After(h) = <<y>> \o <<>>
    BY <1>2, <1>7 DEF After
  <2>2. y.f = "event" /\ y.todo = v /\ y.e = Frame.e
    BY <1>1 DEF FrameShape
  <2> HIDE DEF v, y
  <2>3. <<y>> \o <<>> = <<y>> /\ Len(<<y>>) = 1 /\ <<y>>[1] = y /\ <<y>> # <<>>
    <3>1. <<y>> \in Seq({y})
      OBVIOUS
    <3> QED
      BY <3>1, ConcatEmptySeq
  <2>4. Waiting(<<y>>, g) = (IF g \in v THEN <<Frame.e>> ELSE <<>>)
    BY <2>2, <2>3 DEF Waiting
  <2> QED
    BY <1>4, <2>1, <2>3, <2>4 DEF v
<1> QED
  BY <1>4, <1>6, <1>7

\* The copies of cancel_all while the stack changes.
LEMMA CopiesPush ==
  ASSUME NEW q, Shape(q), NEW S, Copies(q, S), NEW x, x.f = "cancelAll" => x.todo \subseteq S
  PROVE  Copies(<<x>> \o q, S)
<1> DEFINE p == <<x>> \o q
<1>1. /\ Len(q) \in Nat /\ Len(p) = Len(q) + 1 /\ p[1] = x
      /\ \A k \in 1 .. Len(q) : p[k + 1] = q[k]
  BY PushSequence DEF Shape
<1> HIDE DEF p
<1>2. \A k \in 1 .. Len(p) : k = 1 \/ (k - 1 \in 1 .. Len(q) /\ (k - 1) + 1 = k)
  BY <1>1
<1>3. \A k \in 1 .. Len(p) : k = 1 \/ (k - 1 \in 1 .. Len(q) /\ p[k] = q[k - 1])
  BY <1>1, <1>2
<1> QED
  BY <1>1, <1>3 DEF Copies, p

LEMMA CopiesPop ==
  ASSUME NEW q, Shape(q), q # <<>>, NEW S, Copies(q, S)
  PROVE  Copies(Tail(q), S) /\ (q[1].f = "cancelAll" => q[1].todo \subseteq S)
<1> DEFINE t == Tail(q)
<1>1. /\ Len(q) \in Nat \ {0} /\ Len(t) = Len(q) - 1
      /\ \A k \in 1 .. Len(q) - 1 : t[k] = q[k + 1]
  BY PopSequence DEF Shape
<1> HIDE DEF t
<1>2. 1 \in 1 .. Len(q) /\ \A k \in 1 .. Len(t) : k + 1 \in 1 .. Len(q) /\ t[k] = q[k + 1]
  BY <1>1
<1> QED
  BY <1>2 DEF Copies, t
-------------------------------------------------------------------------------
(* Steps of the stack.                                                       *)

\* A step from stack q to stack p that leaves alone what waits, what is pending and
\* the copies of ids.
Keeps(q, p) ==
  /\ Shape(p) /\ Pending(p) = Pending(q)
  /\ \A h : Waiting(p, h) = Waiting(q, h)
  /\ \A S : Copies(q, S) => Copies(p, S)

LEMMA KeepsItself == ASSUME NEW q, Shape(q) PROVE Keeps(q, q)
BY DEF Keeps

LEMMA KeepsBoth == ASSUME NEW q, NEW p, NEW r, Keeps(q, p), Keeps(p, r) PROVE Keeps(q, r)
BY DEF Keeps

LEMMA PopFrame ==
  ASSUME NEW q, Shape(q), q # <<>>, q[1].f # "event", q[1].f = "cancelAll" => q[1].todo = {}
  PROVE  Keeps(q, Tail(q))
BY PopKeeps, WaitingPop, CopiesPop DEF Keeps

LEMMA ReplaceFrame ==
  ASSUME NEW q, Shape(q), q # <<>>, NEW y, FrameShape(y), y.f = q[1].f, y.f \notin {"cancelAll", "event"}
  PROVE  Keeps(q, <<y>> \o Tail(q))
<1>1. Shape(<<y>> \o Tail(q)) /\ Pending(<<y>> \o Tail(q)) = Pending(q)
  BY ReplaceKeeps
<1>2. \A h : Waiting(<<y>> \o Tail(q), h) = Waiting(q, h)
  BY WaitingReplace
<1>3. ASSUME NEW S, Copies(q, S) PROVE Copies(<<y>> \o Tail(q), S)
  <2>1. Shape(Tail(q)) /\ Copies(Tail(q), S)
    BY <1>3, PopShape, CopiesPop
  <2> QED
    BY <2>1, CopiesPush
<1> QED
  BY <1>1, <1>2, <1>3 DEF Keeps

LEMMA CallFrame ==
  ASSUME NEW q, Shape(q), NEW i
  PROVE  Keeps(q, <<Callback(i)>> \o q) /\ Keeps(q, <<>> \o q)
<1> DEFINE x == Callback(i)
<1>1. FrameShape(x) /\ x.f = "callback"
  BY DEF FrameShape, Callback
<1> HIDE DEF x
<1>2. Shape(<<x>> \o q) /\ Pending(<<x>> \o q) = Pending(q)
  BY <1>1, PushShape
<1>3. \A h : Waiting(<<x>> \o q, h) = Waiting(q, h)
  BY <1>1, WaitingPush
<1>4. \A S : Copies(q, S) => Copies(<<x>> \o q, S)
  BY <1>1, CopiesPush
<1>5. <<>> \o q = q
  BY PushNothing DEF Shape
<1> QED
  BY <1>2, <1>3, <1>4, <1>5, KeepsItself DEF Keeps, x

\* A handler that begins, or one that ends with its frame.
LEMMA OneFrame ==
  ASSUME NEW x, x.f # "event"
  PROVE  /\ \A h : Waiting(<<x>>, h) = <<>>
         /\ \A S : (x.f = "cancelAll" => x.todo \subseteq S) => Copies(<<x>>, S)
<1>1. Len(<<x>>) = 1 /\ <<x>>[1] = x /\ \A k \in 1 .. 1 : k = 1
  OBVIOUS
<1> QED
  BY <1>1 DEF Waiting, Copies

LEMMA TwoFrames ==
  ASSUME NEW x, NEW y, x.f \notin {"event", "cancelAll"}, y.f # "cancelAll"
  PROVE  /\ \A h : Waiting(<<y, x>>, h) = <<>>
         /\ \A S : Copies(<<y, x>>, S)
<1>1. Len(<<y, x>>) = 2 /\ <<y, x>>[1] = y /\ <<y, x>>[2] = x /\ \A k \in 1 .. 2 : k = 1 \/ k = 2
  OBVIOUS
<1> QED
  BY <1>1 DEF Waiting, Copies

LEMMA NoFrames ==
  /\ \A h : Waiting(<<>>, h) = <<>>
  /\ \A S : Copies(<<>>, S)
  /\ Pending(<<>>) = {}
<1>1. Len(<<>>) = 0
  BY EmptySeq
<1> QED
  BY <1>1 DEF Waiting, Copies, Pending
-------------------------------------------------------------------------------
(* Agreement with the venue: what a step has to keep.                        *)

\* What neither a stack, nor a request, nor a flag of a strategy is.
agreementVars == <<strategies, gens, pos, tradeids, orderStrategy, oms, activeOrders, venue, orderCount,
                   alive, restarts, symbolStrategies, settings>>

\* The lines are what they were, and so are the ids of orders.
SameLines ==
  /\ \A h \in {"oms", "cta"} : Line(h)' = Line(h)
  /\ \A n \in Names : strategyOrders'[n] \cap OrderIds = strategyOrders[n] \cap OrderIds

LEMMA LinesAgree ==
  ASSUME Agreement, UNCHANGED agreementVars, SameLines, OtherTypes',
         cancelReq' \cup unfound' \subseteq 1 .. orderCount,
         Copies(stack', (1 .. orderCount) \cup StopIds),
         alive \/ (stack' = <<>> /\ bus' = <<>>),
         alive => StopsReach'
  PROVE  Agreement'
<1> USE DEF agreementVars
<1>1. Line("oms")' = Line("oms") /\ Line("cta")' = Line("cta")
  BY DEF SameLines
<1>2. SentOrders'
  <2>1. Copies(stack, (1 .. orderCount) \cup StopIds)'
    OBVIOUS
  <2>2. \A n \in Names : strategyOrders'[n] \cap OrderIds \subseteq 1 .. orderCount'
    BY DEF Agreement, SentOrders, SameLines
  <2>3. \A o \in OrderIds :
       /\ venue'[o].by = None <=> o > orderCount'
       /\ venue'[o].by = None => venue'[o].st = None /\ venue'[o].traded = 0
       /\ venue'[o].by # None => venue'[o].dir \in Directions
       /\ venue'[o].traded \in 0 .. Volume
       /\ venue'[o].st \in Active => venue'[o].traded < Volume
       /\ orderStrategy'[o] \in {None, venue'[o].by}
    BY DEF Agreement, SentOrders
  <2> QED
    BY <2>1, <2>2, <2>3 DEF SentOrders
<1>3. Lives'
  BY DEF Agreement, Lives
<1>4. \A h \in {"oms", "cta"} : Chronicle(Line(h), venue)'
  BY DEF Agreement, SameLines
<1>5. alive => OmsAgrees(Line("oms"))'
  BY <1>1 DEF Agreement, OmsAgrees
<1>6. alive => IdsAgree(Line("cta"))'
  <2> SUFFICES ASSUME alive, NEW n \in Names, NEW o \in OrderIds
               PROVE  /\ venue[o].by # None /\ venue[o].by = strategies[n] => orderStrategy[o] = strategies[n]
                      /\ o \in strategyOrders'[n] <=>
                           /\ venue[o].by # None /\ venue[o].by = strategies[n]
                           /\ venue[o].st \in Active
                              \/ \E e \in Range(Line("cta")) : IsOrder(e, o) /\ e.st \notin Active
    BY <1>1 DEF IdsAgree
  <2>1. o \in strategyOrders'[n] <=> o \in strategyOrders[n]
    BY DEF SameLines
  <2> QED
    BY <2>1 DEF Agreement, IdsAgree
<1>7. alive => PosAgrees(Line("cta"))'
  <2>1. \A i, d : Counted(i, d)' = Counted(i, d)
    BY DEF Counted
  <2> QED
    BY <1>1, <2>1 DEF Agreement, PosAgrees
<1> QED
  BY <1>2, <1>3, <1>4, <1>5, <1>6, <1>7 DEF Agreement

\* The ids of a strategy that does not trade shrink, and what is asked or pending grows.
LEMMA StopsStill ==
  ASSUME StopsReach, UNCHANGED <<strategies, trading>>,
         \A n \in Names : strategyOrders'[n] \cap OrderIds \subseteq strategyOrders[n],
         (cancelReq \cup unfound \cup Pending(stack)) \cap OrderIds
           \subseteq cancelReq' \cup unfound' \cup Pending(stack')
  PROVE  StopsReach'
BY DEF StopsReach

StopEntries == [dir : Directions, price : Prices, name : Names]

\* A step of the stack and the stop orders.
LEMMA StackAgrees ==
  ASSUME Agreement, Keeps(stack, stack'), bus' = bus,
         UNCHANGED agreementVars, UNCHANGED <<trading, inited, cancelReq, unfound>>,
         \A n \in Names : strategyOrders'[n] \cap OrderIds = strategyOrders[n] \cap OrderIds,
         \A s \in DOMAIN stopOrders' : stopOrders'[s] \in StopEntries,
         alive
  PROVE  Agreement'
<1>1. SameLines
  BY DEF SameLines, Line, Keeps
<1>2. OtherTypes'
  BY DEF Agreement, OtherTypes, agreementVars, StopEntries
<1>3. cancelReq' \cup unfound' \subseteq 1 .. orderCount
  BY DEF Agreement, SentOrders
<1>4. Copies(stack', (1 .. orderCount) \cup StopIds)
  BY DEF Agreement, SentOrders, Keeps
<1>5. alive => StopsReach'
  BY StopsStill DEF Agreement, Keeps, agreementVars
<1> QED
  BY <1>1, <1>2, <1>3, <1>4, <1>5, LinesAgree

LEMMA EntriesUnchanged ==
  ASSUME Agreement, stopOrders' = stopOrders
  PROVE  \A s \in DOMAIN stopOrders' : stopOrders'[s] \in StopEntries
BY DEF Agreement, OtherTypes, StopEntries
-------------------------------------------------------------------------------
(* Steps of the stack: callbacks, ticks, and the start of a handler.         *)

LEMMA CallAgrees ==
  ASSUME IInv, Agreement, NEW i, Top("callback"),
         \/ Return
         \/ CancelAll(i)
         \/ \E d \in Directions, p \in Prices : SendLocalStopOrder(i, d, p)
         \/ \E s \in StopIds : CancelStop(i, s)
  PROVE  Agreement'
<1>1. Shape(stack) /\ alive
  BY DEF IInv, Top
<1>2. CASE Return
  <2>1. Keeps(stack, stack')
    <3>1. stack # <<>> /\ stack[1].f = "callback" /\ stack' = Tail(stack)
      BY <1>2, TopFrame DEF Return
    <3> QED
      BY <1>1, <3>1, PopFrame
  <2>2. /\ bus' = bus /\ UNCHANGED agreementVars /\ UNCHANGED <<trading, inited, cancelReq, unfound>>
        /\ strategyOrders' = strategyOrders /\ stopOrders' = stopOrders
    BY <1>2 DEF Return, agreementVars, ctaVars, orderVars, stopVars, omsVars, venueVars, procVars
  <2> QED
    BY <1>1, <2>1, <2>2, StackAgrees, EntriesUnchanged
<1>3. CASE CancelAll(i)
  <2> DEFINE x == [f |-> "cancelAll", todo |-> strategyOrders[NameOf(i)]]
  <2>1. /\ bus' = bus /\ UNCHANGED agreementVars /\ UNCHANGED <<trading, inited, cancelReq, unfound>>
        /\ strategyOrders' = strategyOrders /\ stopOrders' = stopOrders
        /\ stack' = <<x>> \o stack /\ i \in trading
    BY <1>3 DEF CancelAll, MayCall, agreementVars, ctaVars, orderVars, stopVars, omsVars, venueVars, procVars
  <2>2. NameOf(i) \in Names /\ strategyOrders[NameOf(i)] \subseteq OrderIds \cup StopIds
    BY <2>1 DEF IInv, Registered, BookTypes
  <2>3. strategyOrders[NameOf(i)] \subseteq (1 .. orderCount) \cup StopIds
    BY <2>2 DEF Agreement, SentOrders
  <2>4. FrameShape(x) /\ x.f = "cancelAll" /\ x.todo = strategyOrders[NameOf(i)] /\ stack # <<>>
    <3>1. stack # <<>>
      BY TopFrame
    <3> QED
      BY <3>1 DEF FrameShape
  <2> HIDE DEF x
  <2>5. Shape(<<x>> \o stack) /\ Pending(<<x>> \o stack) = Pending(stack)
    BY <1>1, <2>4, PushShape
  <2>6. \A h : Waiting(<<x>> \o stack, h) = Waiting(stack, h)
    BY <1>1, <2>4, WaitingPush
  <2>7. Copies(stack', (1 .. orderCount) \cup StopIds)
    BY <1>1, <2>1, <2>3, <2>4, CopiesPush DEF Agreement, SentOrders
  <2>8. SameLines
    BY <2>1, <2>6 DEF SameLines, Line
  <2>9. OtherTypes'
    BY <2>1 DEF Agreement, OtherTypes, agreementVars
  <2>10. cancelReq' \cup unfound' \subseteq 1 .. orderCount
    BY <2>1 DEF Agreement, SentOrders
  <2>11. alive => StopsReach'
    BY <2>1, <2>5, StopsStill DEF Agreement, agreementVars
  <2> QED
    BY <1>1, <2>1, <2>7, <2>8, <2>9, <2>10, <2>11, LinesAgree
<1>4. CASE \E d \in Directions, p \in Prices : SendLocalStopOrder(i, d, p)
  <2>1. PICK d \in Directions, p \in Prices : SendLocalStopOrder(i, d, p)
    BY <1>4
  <2> DEFINE s == MaxOrders + stopCount + 1
             entry == [dir |-> d, price |-> p, name |-> NameOf(i)]
  <2>2. /\ bus' = bus /\ UNCHANGED agreementVars /\ UNCHANGED <<trading, inited, cancelReq, unfound>>
        /\ strategyOrders' = [strategyOrders EXCEPT ![NameOf(i)] = @ \cup {s}]
        /\ stopOrders' = [t \in DOMAIN stopOrders \cup {s} |-> IF t = s THEN entry ELSE stopOrders[t]]
        /\ stack' = <<Callback(i)>> \o stack /\ i \in trading /\ stopCount < MaxStops
    BY <2>1 DEF SendLocalStopOrder, MayCall, agreementVars, ctaVars, stopVars, omsVars, venueVars, procVars
  <2>3. NameOf(i) \in Names /\ entry \in StopEntries
    BY <2>2 DEF IInv, Registered, StopEntries
  <2>4. s \in StopIds
    <3>1. stopCount \in 0 .. MaxStops /\ stopCount < MaxStops
      BY <2>2 DEF IInv, BookTypes
    <3> QED
      BY <3>1, Bounds DEF StopIds
  <2> HIDE DEF s, entry
  <2>5. \A n \in Names : strategyOrders'[n] \cap OrderIds = strategyOrders[n] \cap OrderIds
    BY <2>2, <2>3, <2>4, Bounds DEF IInv, BookTypes
  <2>6. \A t \in DOMAIN stopOrders' : stopOrders'[t] \in StopEntries
    BY <2>2, <2>3 DEF Agreement, OtherTypes, StopEntries
  <2>7. Keeps(stack, stack')
    BY <1>1, <2>2, CallFrame
  <2> QED
    BY <1>1, <2>2, <2>5, <2>6, <2>7, StackAgrees
<1>5. CASE \E s \in StopIds : CancelStop(i, s)
  <2>1. PICK s \in StopIds : CancelStop(i, s)
    BY <1>5
  <2> DEFINE name == stopOrders[s].name
  <2>2. /\ bus' = bus /\ UNCHANGED agreementVars /\ UNCHANGED <<trading, inited, cancelReq, unfound>>
        /\ strategyOrders' = [strategyOrders EXCEPT ![name] = @ \ {s}]
        /\ stopOrders' = [t \in DOMAIN stopOrders \ {s} |-> stopOrders[t]]
        /\ stack' = <<Callback(strategies[name])>> \o stack
    BY <2>1 DEF CancelStop, CancelLocalStopOrder, agreementVars, ctaVars, omsVars, venueVars, procVars
  <2> HIDE DEF name
  <2>3. \A n \in Names : strategyOrders'[n] \cap OrderIds = strategyOrders[n] \cap OrderIds
    BY <2>2, Bounds DEF IInv, BookTypes
  <2>4. \A t \in DOMAIN stopOrders' : stopOrders'[t] \in StopEntries
    BY <2>2 DEF Agreement, OtherTypes, StopEntries
  <2>5. Keeps(stack, stack')
    BY <1>1, <2>2, CallFrame
  <2> QED
    BY <1>1, <2>2, <2>3, <2>4, <2>5, StackAgrees
<1> QED
  BY <1>2, <1>3, <1>4, <1>5

\* The walk of a tick and the calls of on_tick.
LEMMA TickAgrees ==
  ASSUME IInv, Agreement, OnTick \/ WalkEnd \/ WalkOn \/ WalkDangling
  PROVE  Agreement'
<1>1. /\ bus' = bus /\ UNCHANGED agreementVars /\ UNCHANGED <<trading, inited, cancelReq, unfound>>
      /\ strategyOrders' = strategyOrders /\ stopOrders' = stopOrders
  BY DEF OnTick, WalkEnd, WalkOn, WalkDangling, agreementVars, ctaVars, orderVars, stopVars, omsVars, venueVars,
         procVars
<1>2. Shape(stack) /\ alive
  BY DEF IInv, OnTick, WalkEnd, WalkOn, WalkDangling, Walking, Top
<1>3. SUFFICES Keeps(stack, stack')
  BY <1>1, <1>2, StackAgrees, EntriesUnchanged
<1>4. CASE OnTick
  <2> DEFINE v == Tail(Frame.todo)
             y == [Frame EXCEPT !.todo = v]
             q == <<y>> \o Tail(stack)
  <2>1. stack # <<>> /\ Frame = stack[1] /\ FrameShape(Frame) /\ Frame.f = "ticks"
    BY <1>4, TopFrame DEF OnTick
  <2>2. \/ Frame.todo = <<>> /\ stack' = Tail(stack)
        \/ Frame.todo # <<>> /\ stack' = <<Callback(Head(Frame.todo))>> \o <<y>> \o Tail(stack)
        \/ Frame.todo # <<>> /\ stack' = <<>> \o <<y>> \o Tail(stack)
    BY <1>4 DEF OnTick
  <2> HIDE DEF v
  <2>3. FrameShape(y) /\ y.f = "ticks"
    BY <2>1, TodoUpdate
  <2> HIDE DEF y
  <2>4. Keeps(stack, q)
    BY <1>2, <2>1, <2>3, ReplaceFrame
  <2>5. IsSequence(Tail(stack))
    BY <1>2, <2>1, PopSequence DEF Shape
  <2>6. CASE stack' = Tail(stack)
    BY <1>2, <2>1, <2>6, PopFrame
  <2>7. CASE stack' = <<Callback(Head(Frame.todo))>> \o <<y>> \o Tail(stack)
    <3> DEFINE x == Callback(Head(Frame.todo))
    <3>1. Keeps(q, <<x>> \o q)
      BY <2>4, CallFrame DEF Keeps
    <3> HIDE DEF x
    <3>2. stack' = <<x>> \o q
      <4>1. stack' = <<x>> \o <<y>> \o Tail(stack)
        BY <2>7 DEF x
      <4> QED
        BY <2>5, <4>1, PushTwo
    <3> HIDE DEF q
    <3> QED
      BY <2>4, <3>1, <3>2, KeepsBoth
  <2>8. CASE stack' = <<>> \o <<y>> \o Tail(stack)
    <3>1. <<>> \o <<y>> = <<y>>
      <4>1. <<y>> \in Seq({y})
        OBVIOUS
      <4> QED
        BY <4>1, ConcatEmptySeq
    <3> QED
      BY <2>4, <2>8, <3>1
  <2> QED
    BY <2>2, <2>6, <2>7, <2>8
<1>5. CASE WalkEnd
  <2>1. stack # <<>> /\ stack[1].f = "walk" /\ stack' = Tail(stack)
    BY <1>5, TopFrame DEF WalkEnd, Walking
  <2> QED
    BY <1>2, <2>1, PopFrame
<1>6. ASSUME NEW y, Top("walk"), FrameShape(y), y.f = "walk", stack' = <<y>> \o Tail(stack)
      PROVE  Keeps(stack, stack')
  <2>1. stack # <<>> /\ stack[1].f = "walk"
    BY <1>6, TopFrame
  <2> QED
    BY <1>2, <1>6, <2>1, ReplaceFrame
<1>7. CASE WalkOn
  <2>1. PICK s : stack' = <<[Frame EXCEPT !.last = s]>> \o Tail(stack)
    BY <1>7 DEF WalkOn
  <2>2. Top("walk")
    BY <1>7 DEF WalkOn, Walking
  <2>3. FrameShape(Frame) /\ Frame.f = "walk"
    BY <2>2, TopFrame
  <2>4. FrameShape([Frame EXCEPT !.last = s]) /\ [Frame EXCEPT !.last = s].f = "walk"
    BY <2>3, LastUpdate
  <2> QED
    BY <1>6, <2>1, <2>2, <2>4
<1>8. CASE WalkDangling
  <2>1. PICK s : stack' = <<[Frame EXCEPT !.last = s, !.dangling = FALSE]>> \o Tail(stack)
    BY <1>8 DEF WalkDangling
  <2>2. Top("walk")
    BY <1>8 DEF WalkDangling
  <2>3. FrameShape(Frame) /\ Frame.f = "walk"
    BY <2>2, TopFrame
  <2>4. /\ FrameShape([Frame EXCEPT !.last = s, !.dangling = FALSE])
        /\ [Frame EXCEPT !.last = s, !.dangling = FALSE].f = "walk"
    BY <2>3, DanglingUpdate
  <2> QED
    BY <1>6, <2>1, <2>2, <2>4
<1> QED
  BY <1>4, <1>5, <1>7, <1>8

\* A handler begins on an empty stack; the event of Deliver stays in the lines.
LEMMA BeginAgrees ==
  ASSUME IInv, Agreement,
         \/ \E n \in Names : StopStrategy(n)
         \/ \E p \in Prices : ProcessTick(p)
         \/ Deliver
  PROVE  Agreement'
<1>1. /\ UNCHANGED agreementVars /\ UNCHANGED <<trading, inited, cancelReq, unfound>>
      /\ strategyOrders' = strategyOrders /\ stopOrders' = stopOrders
      /\ stack = <<>> /\ alive
  BY DEF StopStrategy, ProcessTick, Deliver, Idle, agreementVars, ctaVars, orderVars, stopVars, omsVars, venueVars,
         procVars
<1>2. OtherTypes'
  BY <1>1 DEF Agreement, OtherTypes, agreementVars
<1>3. cancelReq' \cup unfound' \subseteq 1 .. orderCount
  BY <1>1 DEF Agreement, SentOrders
<1>4. StopsReach'
  <2>1. Pending(stack) = {}
    BY <1>1, NoFrames
  <2> QED
    BY <1>1, <2>1, StopsStill DEF Agreement, agreementVars
<1>5. \A h : Line(h) = bus
  <2>1. <<>> \o bus = bus
    BY ConcatEmptySeq DEF IInv
  <2> QED
    BY <1>1, <2>1, NoFrames DEF Line
<1>6. SUFFICES (\A h \in {"oms", "cta"} : Line(h)' = bus) /\ Copies(stack', (1 .. orderCount) \cup StopIds)
  BY <1>1, <1>2, <1>3, <1>4, <1>5, LinesAgree DEF SameLines
<1>7. CASE (\E n \in Names : StopStrategy(n)) \/ \E p \in Prices : ProcessTick(p)
  <2>1. PICK x, y : /\ stack' = <<y, x>> /\ bus' = bus
                    /\ x.f \in {"stopped", "ticks"} /\ y.f \in {"callback", "walk"}
    <3>1. ASSUME NEW n \in Names, StopStrategy(n)
          PROVE  \E x, y : /\ stack' = <<y, x>> /\ bus' = bus
                           /\ x.f \in {"stopped", "ticks"} /\ y.f \in {"callback", "walk"}
      <4> DEFINE a == [f |-> "stopped", s |-> strategies[n]]
                 b == Callback(strategies[n])
      <4>1. stack' = <<b, a>> /\ bus' = bus
        BY <3>1 DEF StopStrategy
      <4>2. a.f = "stopped" /\ b.f = "callback"
        BY DEF Callback
      <4> HIDE DEF a, b
      <4> QED
        BY <4>1, <4>2
    <3>2. ASSUME NEW p \in Prices, ProcessTick(p)
          PROVE  \E x, y : /\ stack' = <<y, x>> /\ bus' = bus
                           /\ x.f \in {"stopped", "ticks"} /\ y.f \in {"callback", "walk"}
      <4> DEFINE a == [f |-> "ticks", todo |-> symbolStrategies]
                 b == [f |-> "walk", price |-> p, last |-> 0, dangling |-> FALSE]
      <4>1. stack' = <<b, a>> /\ bus' = bus
        BY <3>2 DEF ProcessTick
      <4>2. a.f = "ticks" /\ b.f = "walk"
        OBVIOUS
      <4> HIDE DEF a, b
      <4> QED
        BY <4>1, <4>2
    <3> QED
      BY <1>7, <3>1, <3>2
  <2>2. (\A h : Waiting(<<y, x>>, h) = <<>>) /\ \A S : Copies(<<y, x>>, S)
    BY <2>1, TwoFrames
  <2>3. <<>> \o bus = bus
    BY ConcatEmptySeq DEF IInv
  <2> QED
    BY <2>1, <2>2, <2>3 DEF Line
<1>8. CASE Deliver
  <2> DEFINE e == Head(bus)
             x == [f |-> "event", e |-> e, todo |-> {"oms", "cta"}]
  <2>1. stack' = <<x>> /\ bus' = Tail(bus) /\ bus # <<>>
    BY <1>8 DEF Deliver
  <2>2. x.f = "event" /\ x.e = e /\ x.todo = {"oms", "cta"}
    OBVIOUS
  <2> HIDE DEF x
  <2>3. Len(<<x>>) = 1 /\ <<x>>[1] = x /\ <<x>> # <<>> /\ \A k \in 1 .. 1 : k = 1
    OBVIOUS
  <2>4. Copies(<<x>>, (1 .. orderCount) \cup StopIds)
    BY <2>2, <2>3 DEF Copies
  <2>5. \A h \in {"oms", "cta"} : Waiting(<<x>>, h) = <<e>>
    BY <2>2, <2>3 DEF Waiting
  <2>6. <<e>> \o Tail(bus) = bus
    <3>1. bus \in Seq(BusEvents) /\ Len(bus) \in Nat \ {0}
      BY <2>1, EmptySeq DEF IInv
    <3>2. 1 \in 1 .. Len(bus) /\ Len(bus) \in 1 .. Len(bus)
      BY <3>1
    <3>3. /\ SubSeq(bus, 1, Len(bus)) = <<bus[1]>> \o SubSeq(bus, 1 + 1, Len(bus))
          /\ SubSeq(bus, 1, Len(bus)) = bus
      BY <3>1, <3>2, SubSeqRecursiveFirst, SubSeqFull
    <3>4. Tail(bus) = SubSeq(bus, 2, Len(bus)) /\ e = bus[1]
      BY <2>1, <3>1, TailIsSubSeq
    <3> QED
      BY <3>3, <3>4
  <2> HIDE DEF e
  <2> QED
    BY <2>1, <2>4, <2>5, <2>6 DEF Line
<1> QED
  BY <1>7, <1>8
-------------------------------------------------------------------------------
(* Cancelling, and the flags of a strategy.                                  *)

\* A request to cancel an order that was sent, or the log of one that failed.
LEMMA RequestSent ==
  ASSUME Agreement, NEW o \in 1 .. orderCount, CancelServerOrder(o)
  PROVE  /\ cancelReq' \cup unfound' \subseteq 1 .. orderCount
         /\ cancelReq \subseteq cancelReq' /\ unfound \subseteq unfound'
         /\ o \in cancelReq' \cup unfound'
BY DEF CancelServerOrder, Agreement, SentOrders

LEMMA CancelServerAgrees ==
  ASSUME IInv, Agreement, NEW i \in Instances, NEW o \in OrderIds, CancelServer(i, o)
  PROVE  Agreement'
<1>1. /\ UNCHANGED agreementVars /\ UNCHANGED <<trading, inited>> /\ bus' = bus /\ stack' = stack
      /\ strategyOrders' = strategyOrders /\ stopOrders' = stopOrders
      /\ CancelServerOrder(o) /\ alive /\ orderStrategy[o] = i
  BY DEF CancelServer, MayCall, Top, agreementVars, ctaVars, orderVars, stopVars, omsVars, procVars
<1>2. o \in 1 .. orderCount
  <2>1. i # None
    BY NoneAssumption
  <2>2. orderStrategy[o] \in {None, venue[o].by} /\ (venue[o].by = None <=> o > orderCount)
    BY DEF Agreement, SentOrders
  <2>3. ~(o > orderCount) /\ o \in Nat /\ o >= 1 /\ orderCount \in Nat
    BY <1>1, <2>1, <2>2, Bounds DEF OrderIds, IInv, BookTypes
  <2> QED
    BY <2>3
<1>3. /\ cancelReq' \cup unfound' \subseteq 1 .. orderCount
      /\ cancelReq \subseteq cancelReq' /\ unfound \subseteq unfound'
  BY <1>1, <1>2, RequestSent
<1>4. SameLines
  BY <1>1 DEF SameLines, Line
<1>5. OtherTypes'
  BY <1>1 DEF Agreement, OtherTypes, agreementVars
<1>6. Copies(stack', (1 .. orderCount) \cup StopIds)
  BY <1>1 DEF Agreement, SentOrders
<1>7. StopsReach'
  BY <1>1, <1>3, StopsStill DEF Agreement, agreementVars
<1> QED
  BY <1>1, <1>3, <1>4, <1>5, <1>6, <1>7, LinesAgree

\* The least of some ids is one of them.
LEMMA LeastId ==
  ASSUME NEW S, S \subseteq Nat, S # {}
  PROVE  Min(S) \in S
<1>1. \E x \in S : \A y \in S : ~(<<y, x>> \in OpToRel(<, Nat))
  BY NatLessThanWellFounded, WFMin
<1>2. PICK x \in S : \A y \in S : ~(<<y, x>> \in OpToRel(<, Nat))
  BY <1>1
<1>3. \A y \in S : x <= y
  <2> SUFFICES ASSUME NEW y \in S, ~(x <= y) PROVE FALSE
    OBVIOUS
  <2>1. x \in Nat /\ y \in Nat /\ y < x
    OBVIOUS
  <2>2. <<y, x>> \in OpToRel(<, Nat)
    BY <2>1 DEF OpToRel
  <2> QED
    BY <1>2, <2>2
<1>4. \E z \in S : \A y \in S : z <= y
  BY <1>3
<1> QED
  BY <1>4 DEF Min

LEMMA CancelNextAgrees ==
  ASSUME IInv, Agreement, CancelNext
  PROVE  Agreement'
<1> DEFINE m == Min(Frame.todo)
           v == Frame.todo \ {m}
           y == [Frame EXCEPT !.todo = v]
           below == <<y>> \o Tail(stack)
           S == (1 .. orderCount) \cup StopIds
<1>1. stack # <<>> /\ Frame = stack[1] /\ FrameShape(Frame) /\ Frame.f = "cancelAll" /\ Shape(stack) /\ alive
  BY TopFrame DEF CancelNext, Top, IInv
<1>2. UNCHANGED agreementVars /\ UNCHANGED <<trading, inited>> /\ bus' = bus
  BY DEF CancelNext, agreementVars, ctaVars, omsVars, procVars
<1>3. \/ Frame.todo = {} /\ stack' = Tail(stack) /\ UNCHANGED <<cancelReq, unfound, strategyOrders, stopOrders>>
      \/ Frame.todo # {} /\ m \in OrderIds /\ CancelServerOrder(m) /\ stack' = below
         /\ UNCHANGED <<strategyOrders, stopOrders>>
      \/ m \in DOMAIN stopOrders /\ CancelLocalStopOrder(m, below) /\ UNCHANGED <<cancelReq, unfound>>
      \/ m \in StopIds \ DOMAIN stopOrders /\ stack' = below
         /\ UNCHANGED <<cancelReq, unfound, strategyOrders, stopOrders>>
  BY DEF CancelNext
<1>4. FrameShape(y) /\ y.f = "cancelAll" /\ y.todo = v
  <2> HIDE DEF v
  <2> QED
    BY <1>1, TodoUpdate
<1>5. Copies(stack, S) /\ Frame.todo \subseteq S /\ Copies(Tail(stack), S) /\ Shape(Tail(stack))
  <2>1. Copies(stack, S)
    BY DEF Agreement, SentOrders
  <2> HIDE DEF S
  <2> QED
    BY <1>1, <2>1, CopiesPop, PopShape
<1>6. Frame.todo # {} => m \in Frame.todo
  <2>1. S \subseteq Nat
    BY Bounds DEF IInv, BookTypes
  <2> QED
    BY <1>5, <2>1, LeastId
<1> HIDE DEF m, y
<1>7. Shape(below) /\ Copies(below, S) /\ \A h : Waiting(below, h) = Waiting(stack, h)
  <2>1. Shape(below)
    BY <1>1, <1>4, ReplaceShape
  <2>2. Copies(below, S)
    <3>1. y.todo \subseteq S
      BY <1>4, <1>5
    <3> HIDE DEF S
    <3> QED
      BY <1>5, <3>1, CopiesPush
  <2>3. \A h : Waiting(below, h) = Waiting(stack, h)
    BY <1>1, <1>4, WaitingReplace
  <2> QED
    BY <2>1, <2>2, <2>3
<1>8. \A s : s # m /\ s \in Pending(stack) => s \in Pending(below)
  <2>1. CASE Tail(stack) = <<>>
    BY <1>1, <1>4, <2>1, PopShape, ReplaceShape
  <2>2. CASE Tail(stack) # <<>>
    BY <1>1, <1>4, <2>2, ReplaceShape
  <2> QED
    BY <2>1, <2>2
<1> HIDE DEF below
<1>9. CASE Frame.todo = {} /\ stack' = Tail(stack) /\ UNCHANGED <<cancelReq, unfound, strategyOrders, stopOrders>>
  <2>1. Keeps(stack, stack')
    BY <1>1, <1>9, PopFrame
  <2> QED
    BY <1>1, <1>2, <1>9, <2>1, StackAgrees, EntriesUnchanged
<1>10. ASSUME UNCHANGED <<strategyOrders, stopOrders>>, stack' = below,
              cancelReq' \cup unfound' \subseteq 1 .. orderCount,
              cancelReq \subseteq cancelReq' /\ unfound \subseteq unfound',
              m \in OrderIds => m \in cancelReq' \cup unfound'
       PROVE  Agreement'
  <2>1. SameLines
    BY <1>2, <1>7, <1>10 DEF SameLines, Line
  <2>2. OtherTypes'
    BY <1>2, <1>10 DEF Agreement, OtherTypes, agreementVars
  <2>3. StopsReach'
    BY <1>1, <1>2, <1>8, <1>10, StopsStill DEF Agreement, agreementVars
  <2> QED
    BY <1>1, <1>2, <1>7, <1>10, <2>1, <2>2, <2>3, LinesAgree
<1>11. CASE Frame.todo # {} /\ m \in OrderIds /\ CancelServerOrder(m) /\ stack' = below
            /\ UNCHANGED <<strategyOrders, stopOrders>>
  <2>1. m \in 1 .. orderCount
    BY <1>5, <1>6, <1>11, Bounds
  <2>2. /\ cancelReq' \cup unfound' \subseteq 1 .. orderCount
        /\ cancelReq \subseteq cancelReq' /\ unfound \subseteq unfound'
        /\ m \in cancelReq' \cup unfound'
    BY <1>11, <2>1, RequestSent
  <2> QED
    BY <1>10, <1>11, <2>2
<1>12. CASE m \in StopIds \ DOMAIN stopOrders /\ stack' = below
            /\ UNCHANGED <<cancelReq, unfound, strategyOrders, stopOrders>>
  <2>1. cancelReq' \cup unfound' \subseteq 1 .. orderCount
    BY <1>12 DEF Agreement, SentOrders
  <2> QED
    BY <1>10, <1>12, <2>1, Bounds
<1>13. CASE m \in DOMAIN stopOrders /\ CancelLocalStopOrder(m, below) /\ UNCHANGED <<cancelReq, unfound>>
  <2> DEFINE name == stopOrders[m].name
             i == strategies[name]
  <2>1. /\ strategyOrders' = [strategyOrders EXCEPT ![name] = @ \ {m}]
        /\ stopOrders' = [t \in DOMAIN stopOrders \ {m} |-> stopOrders[t]]
        /\ stack' = <<Callback(i)>> \o below
    BY <1>13 DEF CancelLocalStopOrder
  <2>2. m \in StopIds
    BY <1>13 DEF IInv, BookTypes
  <2> HIDE DEF name, i
  <2>3. \A n \in Names : strategyOrders'[n] \cap OrderIds = strategyOrders[n] \cap OrderIds
    BY <2>1, <2>2, Bounds DEF IInv, BookTypes
  <2>4. Keeps(below, stack')
    BY <1>7, <2>1, CallFrame
  <2>5. SameLines
    BY <1>2, <1>7, <2>3, <2>4 DEF SameLines, Line, Keeps
  <2>6. OtherTypes'
    <3>1. \A t \in DOMAIN stopOrders' : stopOrders'[t] \in StopEntries
      BY <2>1 DEF Agreement, OtherTypes, StopEntries
    <3> QED
      BY <1>2, <3>1 DEF Agreement, OtherTypes, agreementVars, StopEntries
  <2>7. cancelReq' \cup unfound' \subseteq 1 .. orderCount
    BY <1>13 DEF Agreement, SentOrders
  <2>8. Copies(stack', S)
    BY <1>7, <2>4 DEF Keeps
  <2>9. StopsReach'
    <3>1. m \notin OrderIds
      BY <2>2, Bounds
    <3>2. Pending(stack') = Pending(below)
      BY <2>4 DEF Keeps
    <3> QED
      BY <1>1, <1>2, <1>8, <1>13, <2>3, <3>1, <3>2, StopsStill DEF Agreement, agreementVars
  <2> QED
    BY <1>1, <1>2, <2>5, <2>6, <2>7, <2>8, <2>9, LinesAgree
<1> QED
  BY <1>3, <1>9, <1>11, <1>12, <1>13

\* on_stop is over: from now on the end of stop_strategy has the ids.
LEMMA StoppedAgrees ==
  ASSUME IInv, Agreement, Stopped
  PROVE  Agreement'
<1> DEFINE i == Frame.s
           v == strategyOrders[NameOf(i)]
           y == [f |-> "cancelAll", todo |-> v]
<1>1. stack # <<>> /\ Frame = stack[1] /\ Frame.f = "stopped" /\ Shape(stack) /\ alive
  BY TopFrame DEF Stopped, Top, IInv
<1>2. Tail(stack) = <<>> /\ Pending(stack) = {}
  BY <1>1, PopShape
<1>3. /\ trading' = trading \ {i} /\ stack' = <<y>> \o Tail(stack)
      /\ UNCHANGED agreementVars /\ UNCHANGED <<inited, cancelReq, unfound>> /\ bus' = bus
      /\ strategyOrders' = strategyOrders /\ stopOrders' = stopOrders
  BY DEF Stopped, agreementVars, orderVars, stopVars, omsVars, venueVars, procVars
<1>4. y.f = "cancelAll" /\ y.todo = v
  OBVIOUS
<1> HIDE DEF y
<1>5. stack' = <<y>>
  <2>1. <<y>> \in Seq({y})
    OBVIOUS
  <2> QED
    BY <1>2, <1>3, <2>1, ConcatEmptySeq
<1>6. \A h : Waiting(stack, h) = <<>>
  <2>1. \A h : Waiting(Tail(stack), h) = Waiting(stack, h)
    BY <1>1, WaitingPop
  <2> QED
    BY <1>2, <2>1, NoFrames
<1>7. SameLines
  BY <1>3, <1>4, <1>5, <1>6, OneFrame DEF SameLines, Line
<1>8. OtherTypes'
  BY <1>3 DEF Agreement, OtherTypes, agreementVars
<1>9. cancelReq' \cup unfound' \subseteq 1 .. orderCount
  BY <1>3 DEF Agreement, SentOrders
<1>10. Pending(stack') = v
  <2>1. Len(<<y>>) = 1 /\ <<y>>[1] = y /\ <<y>> # <<>>
    OBVIOUS
  <2> QED
    BY <1>4, <1>5, <2>1 DEF Pending
<1>11. StopsReach'
  <2> SUFFICES ASSUME NEW n \in Names, strategies[n] \notin trading'
               PROVE  strategyOrders[n] \cap OrderIds \subseteq cancelReq \cup unfound \cup Pending(stack')
    BY <1>3 DEF StopsReach, agreementVars
  <2>1. CASE strategies[n] \notin trading
    BY <1>1, <1>2, <2>1 DEF Agreement, StopsReach
  <2>2. CASE strategies[n] \in trading
    <3>1. strategies[n] = i /\ strategies[n] # None
      BY <1>3, <2>2 DEF IInv, Registered
    <3>2. NameOf(i) = n
      BY <3>1 DEF IInv, Registered
    <3> QED
      BY <1>10, <3>2
  <2> QED
    BY <2>1, <2>2
<1>12. Copies(stack', (1 .. orderCount) \cup StopIds)
  <2> DEFINE S == (1 .. orderCount) \cup StopIds
  <2>1. v \subseteq S
    <3>1. ASSUME NameOf(i) \in Names PROVE v \subseteq S
      <4>1. v \subseteq OrderIds \cup StopIds /\ v \cap OrderIds \subseteq 1 .. orderCount
        BY <3>1 DEF IInv, BookTypes, Agreement, SentOrders
      <4> QED
        BY <4>1
    <3>2. NameOf(i) \in Names
      <4>1. FrameShape(Frame)
        BY <1>1, TopFrame DEF Stopped
      <4> QED
        BY <1>1, <4>1 DEF FrameShape, Instances, NameOf
    <3> QED
      BY <3>1, <3>2
  <2> HIDE DEF S, v
  <2>2. Copies(<<y>>, S)
    BY <1>4, <2>1, OneFrame
  <2> QED
    BY <1>5, <2>2 DEF S
<1> QED
  BY <1>1, <1>3, <1>7, <1>8, <1>9, <1>11, <1>12, LinesAgree

\* A strategy is initialised or started.
LEMMA FlagAgrees ==
  ASSUME IInv, Agreement, NEW n \in Names, InitStrategy(n) \/ StartStrategy(n)
  PROVE  Agreement'
<1>1. /\ UNCHANGED agreementVars /\ UNCHANGED <<cancelReq, unfound>> /\ bus' = bus /\ stack' = stack
      /\ strategyOrders' = strategyOrders /\ stopOrders' = stopOrders /\ alive /\ trading \subseteq trading'
  BY DEF InitStrategy, StartStrategy, Idle, agreementVars, orderVars, stopVars, omsVars, venueVars, procVars
<1>2. inited' \subseteq Instances
  BY DEF InitStrategy, StartStrategy, IInv, Registered, Agreement, OtherTypes
<1>3. OtherTypes'
  BY <1>1, <1>2 DEF Agreement, OtherTypes, agreementVars
<1>4. SameLines
  BY <1>1 DEF SameLines, Line
<1>5. /\ cancelReq' \cup unfound' \subseteq 1 .. orderCount
      /\ Copies(stack', (1 .. orderCount) \cup StopIds)
  BY <1>1 DEF Agreement, SentOrders
<1>6. StopsReach'
  BY <1>1 DEF Agreement, StopsReach, agreementVars
<1> QED
  BY <1>1, <1>3, <1>4, <1>5, <1>6, LinesAgree
-------------------------------------------------------------------------------
(* An engine takes an event.                                                 *)

\* The event leaves the line of the engine that handles it and no other.
LEMMA LineTaken ==
  ASSUME IInv, Agreement, NEW h \in {"oms", "cta"}, Top("event"), h \in Frame.todo, bus' = bus,
         stack' = After(h) \/ \E i : stack' = <<Callback(i)>> \o After(h)
  PROVE  /\ Line(h) # <<>> /\ Head(Line(h)) = Frame.e /\ Tail(Line(h)) = bus /\ Line(h)' = bus
         /\ \A g \in {"oms", "cta"} : g # h => Line(g)' = Line(g)
         /\ Copies(stack', (1 .. orderCount) \cup StopIds) /\ Pending(stack') = Pending(stack)
         /\ Frame.e \in BusEvents
<1> DEFINE S == (1 .. orderCount) \cup StopIds
<1>1. /\ Waiting(stack, h) = <<Frame.e>>
      /\ \A g : Waiting(After(h), g) = (IF g = h THEN <<>> ELSE Waiting(stack, g))
      /\ Shape(After(h)) /\ Pending(After(h)) = Pending(stack)
  BY WaitingAfter, AfterShape
<1>2. Copies(After(h), S)
  <2>1. stack # <<>> /\ Shape(stack) /\ Frame = stack[1] /\ FrameShape(Frame) /\ Frame.f = "event"
    BY TopFrame DEF IInv
  <2>2. Copies(stack, S)
    BY DEF Agreement, SentOrders
  <2> HIDE DEF S
  <2>3. Copies(Tail(stack), S) /\ Shape(Tail(stack))
    BY <2>1, <2>2, CopiesPop, PopShape
  <2> DEFINE v == Frame.todo \ {h}
             y == [Frame EXCEPT !.todo = v]
  <2>4. After(h) = Tail(stack) \/ After(h) = <<y>> \o Tail(stack)
    BY DEF After
  <2> HIDE DEF v
  <2>5. y.f = "event"
    BY <2>1, TodoUpdate
  <2> HIDE DEF y
  <2> QED
    BY <2>3, <2>4, <2>5, CopiesPush
<1>3. Copies(stack', S) /\ Pending(stack') = Pending(stack) /\ \A g : Waiting(stack', g) = Waiting(After(h), g)
  <2> HIDE DEF S
  <2>1. \A i : Keeps(After(h), <<Callback(i)>> \o After(h))
    BY <1>1, CallFrame
  <2> QED
    BY <1>1, <1>2, <2>1 DEF Keeps
<1>4. <<>> \o bus = bus
  BY ConcatEmptySeq DEF IInv
<1>5. /\ Line(h)' = bus /\ Line(h) = <<Frame.e>> \o bus
      /\ \A g \in {"oms", "cta"} : g # h => Line(g)' = Line(g)
  BY <1>1, <1>3, <1>4 DEF Line
<1>6. Line(h) \in Seq(BusEvents)
  BY DEF Agreement, Chronicle
<1>7. IsSequence(bus)
  BY OwnRange DEF IInv
<1> DEFINE x == Frame.e
           q == <<x>> \o bus
<1>8. q \in Seq(BusEvents)
  BY <1>5, <1>6
<1>9. q # <<>> /\ Head(q) = x /\ Tail(q) = bus /\ x \in BusEvents
  <2> HIDE DEF x
  <2>1. /\ Len(bus) \in Nat /\ Len(q) = Len(bus) + 1 /\ q[1] = x
        /\ \A k \in 1 .. Len(bus) : q[k + 1] = bus[k]
    BY <1>7, PushSequence
  <2> HIDE DEF q
  <2>2. q # <<>>
    <3>1. Len(<<>>) = 0
      BY EmptySeq
    <3> QED
      BY <2>1, <3>1
  <2>3. /\ Tail(q) \in Seq(BusEvents) /\ Len(Tail(q)) = Len(q) - 1
        /\ \A i \in 1 .. Len(Tail(q)) : Tail(q)[i] = q[i + 1]
        /\ Head(q) \in BusEvents /\ Head(q) = q[1]
    BY <1>8, <2>2, HeadTailProperties
  <2>4. bus \in Seq(BusEvents) /\ Len(Tail(q)) = Len(bus)
    BY <2>1, <2>3 DEF IInv
  <2>5. Tail(q) = bus
    BY <2>1, <2>3, <2>4, SeqEqual
  <2> QED
    BY <2>1, <2>2, <2>3, <2>5
<1> HIDE DEF q, x
<1> QED
  BY <1>3, <1>5, <1>9 DEF q, x

\* What an engine keeps when the other one takes an event.
LEMMA OmsAgreesStill ==
  ASSUME OmsAgrees(Line("oms")), Line("oms")' = Line("oms"), UNCHANGED <<oms, activeOrders, venue, restarts>>
  PROVE  OmsAgrees(Line("oms"))'
BY DEF OmsAgrees

LEMMA IdsAgreeStill ==
  ASSUME IdsAgree(Line("cta")), Line("cta")' = Line("cta"),
         UNCHANGED <<strategies, strategyOrders, orderStrategy, venue>>
  PROVE  IdsAgree(Line("cta"))'
BY DEF IdsAgree

LEMMA PosAgreesStill ==
  ASSUME PosAgrees(Line("cta")), Line("cta")' = Line("cta"), UNCHANGED <<strategies, pos, tradeids, venue>>
  PROVE  PosAgrees(Line("cta"))'
BY DEF PosAgrees, Counted

LEMMA OmsTakes ==
  ASSUME IInv, Agreement, OmsOrderEvent \/ OmsTradeEvent
  PROVE  Agreement'
<1> DEFINE e == Frame.e
           q == Line("oms")
<1>1. /\ Top("event") /\ "oms" \in Frame.todo /\ bus' = bus /\ stack' = After("oms") /\ alive
      /\ UNCHANGED <<ctaVars, orderVars, stopVars, venueVars, procVars>>
  BY DEF OmsOrderEvent, OmsTradeEvent, Handling, Top, omsVars
<1>2. /\ q # <<>> /\ Head(q) = e /\ Tail(q) = bus /\ q' = bus
      /\ Line("cta")' = Line("cta")
      /\ Copies(stack', (1 .. orderCount) \cup StopIds) /\ Pending(stack') = Pending(stack)
      /\ e \in BusEvents
  BY <1>1, LineTaken
<1>3. Chronicle(q, venue)
  BY DEF Agreement
<1>4. /\ Chronicle(bus, venue) /\ Range(q) = {e} \cup Range(bus)
      /\ e.t = "order" /\ (\A f \in Range(bus) : ~IsOrder(f, e.id)) => e.st = venue[e.id].st
  <2> HIDE DEF q, e
  <2> QED
    BY <1>2, <1>3, ChronicleTail
<1>5. e.id \in OrderIds /\ (e.t = "order" => e.st \in Status)
  BY <1>2, EventTypes
<1>6. OmsAgrees(q)
  BY <1>1 DEF Agreement
<1>7. \/ e.t = "order" /\ oms' = [oms EXCEPT ![e.id] = e.st]
         /\ activeOrders' = IF e.st \in Active THEN activeOrders \cup {e.id} ELSE activeOrders \ {e.id}
      \/ e.t = "trade" /\ UNCHANGED <<oms, activeOrders>>
  BY DEF OmsOrderEvent, OmsTradeEvent, Handling, omsVars
<1> HIDE DEF e
<1>8. OmsAgrees(q)'
  <2> SUFFICES ASSUME NEW o \in OrderIds, \A f \in Range(bus) : ~IsOrder(f, o)
               PROVE  /\ o \in activeOrders' <=> venue[o].st \in Active
                      /\ oms'[o] = venue[o].st \/ (restarts > 0 /\ oms'[o] = None)
    BY <1>1, <1>2 DEF OmsAgrees, venueVars, procVars
  <2>1. CASE IsOrder(e, o)
    <3>1. e.t = "order" /\ e.id = o /\ e.st = venue[o].st
      BY <1>4, <2>1 DEF IsOrder
    <3> QED
      BY <1>5, <1>7, <3>1 DEF Agreement, OtherTypes
  <2>2. CASE ~IsOrder(e, o)
    <3> HIDE DEF q
    <3>1. \A f \in Range(q) : ~IsOrder(f, o)
      BY <1>4, <2>2
    <3>2. o \in activeOrders <=> venue[o].st \in Active
      BY <1>6, <3>1 DEF OmsAgrees
    <3>3. oms[o] = venue[o].st \/ (restarts > 0 /\ oms[o] = None)
      BY <1>6, <3>1 DEF OmsAgrees
    <3>4. e.t = "order" => e.id # o
      BY <2>2 DEF IsOrder
    <3>5. (o \in activeOrders' <=> o \in activeOrders) /\ oms'[o] = oms[o]
      BY <1>5, <1>7, <3>4 DEF Agreement, OtherTypes
    <3> QED
      BY <3>2, <3>3, <3>5
  <2> QED
    BY <2>1, <2>2
<1>9. OtherTypes'
  <2>1. oms' \in [OrderIds -> Status \cup {None}] /\ activeOrders' \subseteq OrderIds
    BY <1>5, <1>7 DEF Agreement, OtherTypes
  <2> QED
    BY <1>1, <2>1 DEF Agreement, OtherTypes, ctaVars, orderVars, stopVars, procVars
<1>10. SentOrders'
  BY <1>1, <1>2 DEF Agreement, SentOrders, orderVars, venueVars
<1>11. Lives'
  BY <1>1 DEF Agreement, Lives, ctaVars, procVars, venueVars
<1>12. \A h \in {"oms", "cta"} : Chronicle(Line(h), venue)'
  BY <1>1, <1>2, <1>4 DEF Agreement, venueVars
<1>13. IdsAgree(Line("cta"))' /\ PosAgrees(Line("cta"))'
  BY <1>1, <1>2, IdsAgreeStill, PosAgreesStill DEF Agreement, ctaVars, orderVars, venueVars
<1>14. StopsReach'
  BY <1>1, <1>2, StopsStill DEF Agreement, ctaVars, orderVars, venueVars
<1> QED
  BY <1>1, <1>8, <1>9, <1>10, <1>11, <1>12, <1>13, <1>14 DEF Agreement, procVars

\* The ids lose an order with the report of its end, which nothing follows.
LEMMA CtaOrderAgrees ==
  ASSUME IInv, Agreement, CtaOrderEvent
  PROVE  Agreement'
<1> DEFINE e == Frame.e
           q == Line("cta")
           i == orderStrategy[e.id]
<1>1. /\ Top("event") /\ "cta" \in Frame.todo /\ e.t = "order" /\ bus' = bus /\ alive
      /\ stack' = After("cta") \/ \E j : stack' = <<Callback(j)>> \o After("cta")
      /\ UNCHANGED <<ctaVars, orderStrategy, stopVars, omsVars, venueVars, procVars>>
  BY DEF CtaOrderEvent, Handling, Top
<1>2. /\ q # <<>> /\ Head(q) = e /\ Tail(q) = bus /\ q' = bus
      /\ Line("oms")' = Line("oms")
      /\ Copies(stack', (1 .. orderCount) \cup StopIds) /\ Pending(stack') = Pending(stack)
      /\ e \in BusEvents
  BY <1>1, LineTaken
<1>3. Chronicle(q, venue)
  BY DEF Agreement
<1>4. /\ Chronicle(bus, venue) /\ Range(q) = {e} \cup Range(bus)
      /\ (\A f \in Range(bus) : ~IsOrder(f, e.id)) => e.st = venue[e.id].st
      /\ e.st \notin Active => \A f \in Range(bus) : ~IsOrder(f, e.id)
  <2> HIDE DEF q, e
  <2> QED
    BY <1>1, <1>2, <1>3, ChronicleTail
<1>5. e.id \in OrderIds
  BY <1>2, EventTypes
<1>6. IdsAgree(q)
  BY <1>1 DEF Agreement
<1>7. \/ i = None /\ strategyOrders' = strategyOrders
      \/ e.st \in Active /\ strategyOrders' = strategyOrders
      \/ i # None /\ e.st \notin Active
         /\ strategyOrders' = [strategyOrders EXCEPT ![NameOf(i)] = @ \ {e.id}]
  BY DEF CtaOrderEvent
<1>8. i \in {None, venue[e.id].by} /\ i \in Instances \cup {None}
  BY <1>5 DEF Agreement, SentOrders, OtherTypes
<1>9. strategyOrders \in [Names -> SUBSET (OrderIds \cup StopIds)]
  BY DEF IInv, BookTypes
<1> HIDE DEF e, i
<1>10. \A n \in Names : strategyOrders'[n] \subseteq strategyOrders[n]
  BY <1>7, <1>9
<1>11. IdsAgree(q)'
  <2> SUFFICES ASSUME NEW n \in Names, NEW o \in OrderIds
               PROVE  /\ venue[o].by # None /\ venue[o].by = strategies[n] => orderStrategy[o] = strategies[n]
                      /\ o \in strategyOrders'[n] <=>
                           /\ venue[o].by # None /\ venue[o].by = strategies[n]
                           /\ venue[o].st \in Active \/ \E f \in Range(bus) : IsOrder(f, o) /\ f.st \notin Active
    BY <1>1, <1>2 DEF IdsAgree, ctaVars, venueVars
  <2> HIDE DEF q
  <2>1. /\ venue[o].by # None /\ venue[o].by = strategies[n] => orderStrategy[o] = strategies[n]
        /\ o \in strategyOrders[n] <=>
             /\ venue[o].by # None /\ venue[o].by = strategies[n]
             /\ venue[o].st \in Active \/ \E f \in Range(q) : IsOrder(f, o) /\ f.st \notin Active
    BY <1>6 DEF IdsAgree
  <2>2. CASE o # e.id \/ e.st \in Active
    <3>1. o \in strategyOrders'[n] <=> o \in strategyOrders[n]
      BY <1>7, <1>9, <2>2
    <3>2. (\E f \in Range(q) : IsOrder(f, o) /\ f.st \notin Active)
            <=> \E f \in Range(bus) : IsOrder(f, o) /\ f.st \notin Active
      BY <1>4, <2>2 DEF IsOrder
    <3> QED
      BY <2>1, <3>1, <3>2
  <2>3. CASE o = e.id /\ e.st \notin Active
    <3>1. venue[o].st \notin Active /\ \A f \in Range(bus) : ~IsOrder(f, o)
      BY <1>4, <2>3
    <3>2. ASSUME o \in strategyOrders'[n] PROVE FALSE
      <4>1. o \in strategyOrders[n]
        BY <1>10, <3>2
      <4>2. venue[o].by # None /\ venue[o].by = strategies[n] /\ orderStrategy[o] = strategies[n]
        BY <2>1, <4>1
      <4>3. i = strategies[n] /\ i # None
        BY <2>3, <4>2 DEF i
      <4>4. NameOf(i) = n
        BY <4>3 DEF IInv, Registered
      <4> QED
        BY <1>7, <1>9, <2>3, <3>2, <4>3, <4>4
    <3> QED
      BY <2>1, <3>1, <3>2
  <2> QED
    BY <2>2, <2>3
<1>12. OtherTypes'
  BY <1>1 DEF Agreement, OtherTypes, ctaVars, stopVars, omsVars, procVars
<1>13. SentOrders'
  <2>1. Copies(stack, (1 .. orderCount) \cup StopIds)'
    BY <1>1, <1>2 DEF venueVars
  <2>2. \A n \in Names : strategyOrders'[n] \cap OrderIds \subseteq 1 .. orderCount'
    BY <1>1, <1>10 DEF Agreement, SentOrders, venueVars
  <2> QED
    BY <1>1, <2>1, <2>2 DEF Agreement, SentOrders, venueVars
<1>14. Lives'
  BY <1>1 DEF Agreement, Lives, ctaVars, procVars, venueVars
<1>15. \A h \in {"oms", "cta"} : Chronicle(Line(h), venue)'
  BY <1>1, <1>2, <1>4 DEF Agreement, venueVars
<1>16. OmsAgrees(Line("oms"))'
  BY <1>1, <1>2, OmsAgreesStill DEF Agreement, omsVars, venueVars, procVars
<1>17. PosAgrees(q)'
  <2>1. PosAgrees(q)
    BY <1>1 DEF Agreement
  <2>2. \A o, k : (\E f \in Range(q) : IsTrade(f, o, k)) <=> \E f \in Range(bus) : IsTrade(f, o, k)
    <3> HIDE DEF q
    <3>1. \A o, k : ~IsTrade(e, o, k)
      BY <1>1 DEF IsTrade, e
    <3> QED
      BY <1>4, <3>1
  <2>3. \A j, d : Counted(j, d)' = Counted(j, d)
    BY <1>1 DEF Counted, ctaVars, venueVars
  <2> QED
    BY <1>1, <1>2, <2>1, <2>2, <2>3 DEF PosAgrees, ctaVars, venueVars
<1>18. StopsReach'
  BY <1>1, <1>2, <1>10, StopsStill DEF Agreement, ctaVars, venueVars
<1> QED
  BY <1>1, <1>11, <1>12, <1>13, <1>14, <1>15, <1>16, <1>17, <1>18 DEF Agreement, procVars

LEMMA CountedFinite ==
  ASSUME OtherTypes, NEW i, NEW d
  PROVE  IsFiniteSet(Counted(i, d)) /\ Cardinality(Counted(i, d)) \in Nat
<1>1. IsFiniteSet(OrderIds) /\ IsFiniteSet(1 .. Volume)
  BY Bounds, FS_Interval DEF OrderIds
<1>2. IsFiniteSet(OrderIds \X (1 .. Volume))
  BY <1>1, FS_Product
<1>3. Counted(i, d) \subseteq OrderIds \X (1 .. Volume)
  BY DEF Counted, OtherTypes
<1>4. IsFiniteSet(Counted(i, d))
  BY <1>2, <1>3, FS_Subset
<1> QED
  BY <1>4, FS_CardinalityType

\* A lot is counted for the strategy that owns the order, the first time it is told.
LEMMA CtaTradeAgrees ==
  ASSUME IInv, Agreement, CtaTradeEvent
  PROVE  Agreement'
<1> DEFINE e == Frame.e
           q == Line("cta")
           i == orderStrategy[e.id]
           lot == <<e.id, e.k>>
           by == venue[e.id].by
           dir == venue[e.id].dir
<1>1. /\ Top("event") /\ "cta" \in Frame.todo /\ e.t = "trade" /\ bus' = bus /\ alive
      /\ UNCHANGED <<strategies, symbolStrategies, inited, trading, settings, orderVars, stopVars, omsVars,
                     venueVars, procVars>>
  BY DEF CtaTradeEvent, Handling, Top
<1>2. stack' = After("cta") \/ \E j : stack' = <<Callback(j)>> \o After("cta")
  <2>1. CASE stack' = (IF i = None THEN <<>> ELSE <<Callback(i)>>) \o After("cta")
    <3>1. <<>> \o After("cta") = After("cta")
      BY <1>1, AfterShape, PushNothing DEF Shape
    <3> HIDE DEF i
    <3> QED
      BY <2>1, <3>1
  <2> QED
    BY <2>1 DEF CtaTradeEvent
<1>3. /\ q # <<>> /\ Head(q) = e /\ Tail(q) = bus /\ q' = bus
      /\ Line("oms")' = Line("oms")
      /\ Copies(stack', (1 .. orderCount) \cup StopIds) /\ Pending(stack') = Pending(stack)
      /\ e \in BusEvents
  BY <1>1, <1>2, LineTaken
<1>4. Chronicle(q, venue)
  BY DEF Agreement
<1>5. /\ Chronicle(bus, venue) /\ Range(q) = {e} \cup Range(bus)
      /\ by # None /\ e.k \in 1 .. venue[e.id].traded
  <2> HIDE DEF q, e
  <2> QED
    BY <1>1, <1>3, <1>4, ChronicleTail
<1>6. e.id \in OrderIds
  BY <1>3, EventTypes
<1>7. /\ i \in {None, by} /\ dir \in Directions /\ venue[e.id].traded \in 0 .. Volume
      /\ by \in Instances
  BY <1>5, <1>6 DEF Agreement, SentOrders, IInv, VenueOrders
<1>8. lot \in OrderIds \X (1 .. Volume)
  <2>1. e.k \in 1 .. Volume
    BY <1>5, <1>7, Bounds
  <2> QED
    BY <1>6, <2>1
<1>9. \/ lot \notin tradeids /\ tradeids' = tradeids \cup {lot}
         /\ pos' = IF i = None THEN pos ELSE [pos EXCEPT ![i] = IF dir = "LONG" THEN @ + 1 ELSE @ - 1]
      \/ lot \in tradeids /\ UNCHANGED <<tradeids, pos>>
  BY DEF CtaTradeEvent, Fresh
<1>10. IdsAgree(q) /\ PosAgrees(q) /\ OtherTypes
  BY <1>1 DEF Agreement
<1> DEFINE x == e.id
           k == e.k
<1>11. lot = <<x, k>> /\ lot[1] = x /\ lot[2] = k
  OBVIOUS
<1>12. \A n \in Names : by = strategies[n] => i = by
  BY <1>5, <1>6, <1>10 DEF IdsAgree
<1>13. by = venue[x].by /\ dir = venue[x].dir
  OBVIOUS
<1> HIDE DEF i, by, dir, lot
<1>14. pos' \in [Instances -> Int] /\ \A j \in Instances : j # i => pos'[j] = pos[j]
  BY <1>7, <1>9 DEF Agreement, OtherTypes
<1>15. OtherTypes'
  <2>1. tradeids' \subseteq OrderIds \X (1 .. Volume)
    BY <1>8, <1>9, <1>10 DEF OtherTypes
  <2> QED
    BY <1>1, <1>10, <1>14, <2>1 DEF OtherTypes, orderVars, stopVars, omsVars, procVars
<1>16. SentOrders'
  BY <1>1, <1>3 DEF Agreement, SentOrders, orderVars, venueVars
<1>17. Lives'
  <2>1. ASSUME NEW j \in Instances, j[2] > gens[j[1]]
        PROVE  pos'[j] = 0 /\ \A o \in OrderIds : venue[o].by # j
    <3>1. pos[j] = 0 /\ \A o \in OrderIds : venue[o].by # j
      BY <2>1 DEF Agreement, Lives
    <3>2. j # i
      BY <1>6, <1>7, <1>13, <3>1, NoneAssumption
    <3> QED
      BY <1>14, <3>1, <3>2
  <2> QED
    BY <1>1, <2>1 DEF Agreement, Lives, procVars, venueVars
<1>18. \A h \in {"oms", "cta"} : Chronicle(Line(h), venue)'
  BY <1>1, <1>3, <1>5 DEF Agreement, venueVars
<1>19. OmsAgrees(Line("oms"))'
  BY <1>1, <1>3, OmsAgreesStill DEF Agreement, omsVars, venueVars, procVars
<1>20. IdsAgree(q)'
  <2>1. \A o : (\E f \in Range(q) : IsOrder(f, o) /\ f.st \notin Active)
                 <=> \E f \in Range(bus) : IsOrder(f, o) /\ f.st \notin Active
    <3>1. \A o : ~IsOrder(e, o)
      BY <1>1 DEF IsOrder
    <3> HIDE DEF q, e
    <3> QED
      BY <1>5, <3>1
  <2> QED
    BY <1>1, <1>3, <1>10, <2>1 DEF IdsAgree, orderVars, venueVars
<1>21. ASSUME NEW n \in Names, strategies[n] # None
       PROVE  pos'[strategies[n]] =
                Cardinality(Counted(strategies[n], "LONG")') - Cardinality(Counted(strategies[n], "SHORT")')
  <2> PICK j : j = strategies[n]
    OBVIOUS
  <2>0. \A d : Counted(strategies[n], d)' = Counted(j, d)'
    BY <1>1 DEF Counted
  <2>1. j \in Instances
    BY <1>21 DEF IInv, Registered
  <2>2. pos[j] = Cardinality(Counted(j, "LONG")) - Cardinality(Counted(j, "SHORT"))
    BY <1>10, <1>21 DEF PosAgrees
  <2>3. /\ IsFiniteSet(Counted(j, "LONG")) /\ Cardinality(Counted(j, "LONG")) \in Nat
        /\ IsFiniteSet(Counted(j, "SHORT")) /\ Cardinality(Counted(j, "SHORT")) \in Nat
    BY <1>10, CountedFinite
  <2>4. \A d : Counted(j, d)' = {t \in tradeids' : venue[t[1]].by = j /\ venue[t[1]].dir = d}
    BY <1>1 DEF Counted, venueVars
  <2>5. CASE lot \in tradeids
    <3>1. tradeids' = tradeids /\ pos' = pos
      BY <1>9, <2>5
    <3>2. \A d : Counted(j, d)' = Counted(j, d)
      BY <2>4, <3>1 DEF Counted
    <3> QED
      BY <2>2, <2>0, <3>1, <3>2
  <2>6. CASE lot \notin tradeids /\ by # j
    <3>1. tradeids' = tradeids \cup {lot}
      BY <1>9, <2>6
    <3>2. \A d : Counted(j, d)' = Counted(j, d)
      BY <1>11, <1>13, <2>4, <2>6, <3>1 DEF Counted
    <3>3. j # i
      BY <1>7, <1>21, <2>6
    <3> QED
      BY <1>14, <2>1, <2>2, <3>2, <3>3, <2>0
  <2>7. CASE lot \notin tradeids /\ by = j
    <3>1. i = j /\ i # None
      BY <1>5, <1>12, <2>7
    <3>2. /\ tradeids' = tradeids \cup {lot}
          /\ pos' = [pos EXCEPT ![j] = IF dir = "LONG" THEN @ + 1 ELSE @ - 1]
      BY <1>9, <2>7, <3>1
    <3> PICK c : c = dir
      OBVIOUS
    <3>3. /\ Counted(j, c)' = Counted(j, c) \cup {lot}
          /\ \A d : d # c => Counted(j, d)' = Counted(j, d)
          /\ lot \notin Counted(j, c)
      <4>1. venue[lot[1]].by = j /\ venue[lot[1]].dir = c
        BY <1>11, <1>13, <2>7
      <4>2. lot \notin Counted(j, c)
        BY <2>7 DEF Counted
      <4>3. Counted(j, c)' = Counted(j, c) \cup {lot}
        BY <2>4, <3>2, <4>1 DEF Counted
      <4>4. ASSUME NEW d, d # c PROVE Counted(j, d)' = Counted(j, d)
        BY <2>4, <3>2, <4>1, <4>4 DEF Counted
      <4> QED
        BY <4>2, <4>3, <4>4
    <3>4. dir \in {"LONG", "SHORT"}
      BY <1>7, CtaAssumption
    <3>5. CASE dir = "LONG"
      <4>1. Counted(j, "LONG")' = Counted(j, "LONG") \cup {lot} /\ Counted(j, "SHORT")' = Counted(j, "SHORT")
        BY <3>3, <3>5
      <4>2. Cardinality(Counted(j, "LONG") \cup {lot}) = Cardinality(Counted(j, "LONG")) + 1
        BY <2>3, <3>3, <3>5, FS_AddElement
      <4>3. pos'[j] = pos[j] + 1
        BY <1>10, <2>1, <3>2, <3>5 DEF OtherTypes
      <4>4. pos'[j] = (Cardinality(Counted(j, "LONG")) + 1) - Cardinality(Counted(j, "SHORT"))
        BY <2>2, <2>3, <4>3
      <4>5. pos'[j] = Cardinality(Counted(j, "LONG") \cup {lot}) - Cardinality(Counted(j, "SHORT"))
        BY <4>2, <4>4
      <4> QED
        BY <2>0, <4>1, <4>5
    <3>6. CASE dir = "SHORT"
      <4>1. Counted(j, "SHORT")' = Counted(j, "SHORT") \cup {lot} /\ Counted(j, "LONG")' = Counted(j, "LONG")
        BY <3>3, <3>6
      <4>2. Cardinality(Counted(j, "SHORT") \cup {lot}) = Cardinality(Counted(j, "SHORT")) + 1
        BY <2>3, <3>3, <3>6, FS_AddElement
      <4>3. pos'[j] = pos[j] - 1
        BY <1>10, <2>1, <3>2, <3>6 DEF OtherTypes
      <4>4. pos'[j] = Cardinality(Counted(j, "LONG")) - (Cardinality(Counted(j, "SHORT")) + 1)
        BY <2>2, <2>3, <4>3
      <4>5. pos'[j] = Cardinality(Counted(j, "LONG")) - Cardinality(Counted(j, "SHORT") \cup {lot})
        BY <4>2, <4>4
      <4> QED
        BY <2>0, <4>1, <4>5
    <3> QED
      BY <3>4, <3>5, <3>6
  <2> QED
    BY <2>5, <2>6, <2>7
<1>22. ASSUME NEW n \in Names, strategies[n] # None, NEW o \in OrderIds, NEW m \in 1 .. Volume,
              venue[o].by = strategies[n], m <= venue[o].traded
       PROVE  <<o, m>> \in tradeids' \/ \E f \in Range(bus) : IsTrade(f, o, m)
  <2>1. <<o, m>> \in tradeids \/ \E f \in Range(q) : IsTrade(f, o, m)
    BY <1>10, <1>22 DEF PosAgrees
  <2>2. tradeids \subseteq tradeids' /\ lot \in tradeids'
    BY <1>9
  <2>3. IsTrade(e, o, m) => lot = <<o, m>>
    BY DEF IsTrade, lot
  <2> HIDE DEF q, e
  <2> QED
    BY <1>5, <2>1, <2>2, <2>3
<1>23. \A t \in tradeids' : t[2] <= venue[t[1]].traded
  <2>1. lot[2] <= venue[lot[1]].traded
    BY <1>5, <1>7, <1>11
  <2> QED
    BY <1>9, <1>10, <2>1 DEF PosAgrees
<1>24. PosAgrees(q)'
  <2>1. strategies' = strategies /\ venue' = venue /\ q' = bus
    BY <1>1, <1>3 DEF venueVars
  <2> HIDE DEF q
  <2> QED
    BY <1>21, <1>22, <1>23, <2>1 DEF PosAgrees
<1>25. StopsReach'
  BY <1>1, <1>3, StopsStill DEF Agreement, orderVars, venueVars
<1> QED
  BY <1>1, <1>15, <1>16, <1>17, <1>18, <1>19, <1>20, <1>24, <1>25 DEF Agreement, procVars
-------------------------------------------------------------------------------
(* An order is sent.                                                         *)

\* What is put on the bus ends the line of each engine.
LEMMA LineGrows ==
  ASSUME NEW w, w = <<>> \/ (\E x : w = <<x>>), NEW b \in Seq(BusEvents), NEW e \in BusEvents
  PROVE  w \o Append(b, e) = Append(w \o b, e)
<1>1. PICK x : w = <<>> \/ w = <<x>>
  OBVIOUS
<1> DEFINE S == BusEvents \cup {x}
<1>2. w \in Seq(S) /\ b \in Seq(S) /\ <<e>> \in Seq(S) /\ e \in S
  <2>1. b \in Seq(S)
    BY SeqMonotonic
  <2>2. <<>> \in Seq(S)
    BY EmptySeq
  <2>3. x \in S /\ e \in S
    OBVIOUS
  <2> HIDE DEF S
  <2>4. <<x>> \in Seq(S) /\ <<e>> \in Seq(S)
    BY <2>3
  <2> QED
    BY <1>1, <2>1, <2>2, <2>3, <2>4
<1> HIDE DEF S
<1>3. w \o b \in Seq(S)
  BY <1>2, ConcatProperties
<1>4. Append(b, e) = b \o <<e>> /\ Append(w \o b, e) = (w \o b) \o <<e>>
  BY <1>2, <1>3, AppendIsConcat
<1> QED
  BY <1>2, <1>4, ConcatAssociative

LEMMA WaitingOne == \A q, h : Waiting(q, h) = <<>> \/ \E x : Waiting(q, h) = <<x>>
BY DEF Waiting

LEMMA CopiesMore ==
  ASSUME NEW q, NEW S, NEW T, Copies(q, S), S \subseteq T
  PROVE  Copies(q, T)
BY DEF Copies

\* An order takes the next id, which the venue, the ids and the events leave free.
LEMMA SendAgrees ==
  ASSUME IInv, Agreement, NEW i \in Instances, NEW d \in Directions, NEW gone \in SUBSET StopIds,
         SendServerOrder(i, d, gone), i \in trading, alive, Keeps(stack, stack'),
         UNCHANGED <<ctaVars, omsVars, procVars>>,
         \A s \in DOMAIN stopOrders' : stopOrders'[s] \in StopEntries
  PROVE  Agreement'
<1> DEFINE o == orderCount + 1
           v == [st |-> "SUBMITTING", traded |-> 0, dir |-> d, by |-> i]
           e == OrderEvent(o, "SUBMITTING")
           n == NameOf(i)
<1>1. o \in OrderIds /\ o > orderCount /\ orderCount \in Nat
  BY Bounds DEF IInv, BookTypes, SendServerOrder, OrderIds
<1>2. /\ orderCount' = o /\ venue' = [venue EXCEPT ![o] = v] /\ bus' = Append(bus, e)
      /\ orderStrategy' = [orderStrategy EXCEPT ![o] = i]
      /\ strategyOrders' = [strategyOrders EXCEPT ![n] = (@ \cup {o}) \ gone]
      /\ UNCHANGED <<cancelReq, unfound>>
  BY DEF SendServerOrder
<1>3. v.st = "SUBMITTING" /\ v.traded = 0 /\ v.dir = d /\ v.by = i
  OBVIOUS
<1>4. e \in BusEvents /\ IsOrder(e, o) /\ e.st \in Active
  BY <1>1 DEF BusEvents, OrderEvent, Status, Active, IsOrder
<1>5. /\ strategies' = strategies /\ trading' = trading /\ pos' = pos /\ tradeids' = tradeids
      /\ symbolStrategies' = symbolStrategies /\ inited' = inited /\ settings' = settings
      /\ oms' = oms /\ activeOrders' = activeOrders /\ alive' = alive /\ gens' = gens /\ restarts' = restarts
  BY DEF ctaVars, omsVars, procVars
<1>6. n \in Names /\ strategies[n] = i /\ i # None
  BY NoneAssumption DEF IInv, Registered
<1>7. \A m \in Names : strategies[m] = i => m = n
  BY <1>6 DEF IInv, Registered
<1>8. venue[o].by = None /\ venue[o].st = None /\ venue[o].traded = 0
  BY <1>1 DEF Agreement, SentOrders
<1> HIDE DEF o, v, n
<1>9. /\ venue'[o].st = "SUBMITTING" /\ venue'[o].traded = 0 /\ venue'[o].dir = d /\ venue'[o].by = i
      /\ \A r \in OrderIds : r # o => venue'[r] = venue[r]
  BY <1>1, <1>2, <1>3 DEF IInv
<1>10. /\ orderStrategy'[o] = i
       /\ \A r \in OrderIds : r # o => orderStrategy'[r] = orderStrategy[r]
       /\ orderStrategy' \in [OrderIds -> Instances \cup {None}]
  BY <1>1, <1>2 DEF Agreement, OtherTypes
<1>11. /\ \A m \in Names, r \in OrderIds :
            r \in strategyOrders'[m] <=> r \in strategyOrders[m] \/ (r = o /\ m = n)
       /\ \A m \in Names : o \notin strategyOrders[m]
  <2>1. strategyOrders \in [Names -> SUBSET (OrderIds \cup StopIds)]
    BY DEF IInv, BookTypes
  <2>2. \A r \in OrderIds : r \notin gone
    BY Bounds
  <2>3. \A m \in Names : strategyOrders[m] \cap OrderIds \subseteq 1 .. orderCount
    BY DEF Agreement, SentOrders
  <2>4. o \notin 1 .. orderCount
    BY <1>1
  <2> QED
    BY <1>1, <1>2, <1>6, <2>1, <2>2, <2>3, <2>4
<1> DEFINE oq == Line("oms")
           cq == Line("cta")
<1> HIDE DEF e
<1>12. \A h \in {"oms", "cta"} :
         /\ Line(h)' = Append(Line(h), e)
         /\ Line(h) \in Seq(BusEvents)
         /\ \A f \in Range(Line(h)) : ~IsOrder(f, o)
  <2> SUFFICES ASSUME NEW h \in {"oms", "cta"}
               PROVE  /\ Line(h)' = Append(Line(h), e)
                      /\ Line(h) \in Seq(BusEvents)
                      /\ \A f \in Range(Line(h)) : ~IsOrder(f, o)
    OBVIOUS
  <2>1. Waiting(stack', h) = Waiting(stack, h)
    BY DEF Keeps
  <2>2. bus \in Seq(BusEvents)
    BY DEF IInv
  <2>3. Waiting(stack, h) \o Append(bus, e) = Append(Waiting(stack, h) \o bus, e)
    BY <1>4, <2>2, WaitingOne, LineGrows
  <2>4. Line(h)' = Append(Line(h), e)
    BY <1>2, <2>1, <2>3 DEF Line
  <2>5. Chronicle(Line(h), venue)
    BY DEF Agreement
  <2>6. ASSUME NEW f \in Range(Line(h)), IsOrder(f, o) PROVE FALSE
    <3>1. PICK k \in 1 .. Len(Line(h)) : Line(h)[k] = f
      BY <2>5, <2>6, LineRange DEF Chronicle
    <3>2. venue[f.id].by # None
      BY <2>5, <3>1 DEF Chronicle
    <3> QED
      BY <1>8, <2>6, <3>2 DEF IsOrder
  <2> QED
    BY <2>4, <2>5, <2>6 DEF Chronicle
<1>13. \A h \in {"oms", "cta"} : Range(Line(h)') = Range(Line(h)) \cup {e}
  <2> SUFFICES ASSUME NEW h \in {"oms", "cta"} PROVE Range(Line(h)') = Range(Line(h)) \cup {e}
    OBVIOUS
  <2> DEFINE q == Line(h)
  <2>1. q \in Seq(BusEvents) /\ q' = Append(q, e)
    BY <1>12
  <2> HIDE DEF q
  <2>2. Range(Append(q, e)) = Range(q) \cup {e}
    BY <1>4, <2>1, AppendRange
  <2>3. Range(q') = Range(q) \cup {e}
    BY <2>1, <2>2
  <2> QED
    BY <2>3 DEF q
<1>14. Range(oq') = Range(oq) \cup {e} /\ Range(cq') = Range(cq) \cup {e}
  BY <1>13
<1>15. /\ \A f \in Range(oq) : ~IsOrder(f, o)
       /\ \A f \in Range(cq) : ~IsOrder(f, o)
  BY <1>12
<1>16. \A r : r # o => ~IsOrder(e, r)
  BY <1>4 DEF IsOrder
<1> HIDE DEF oq, cq
<1>17. OmsAgrees(oq)'
  <2> SUFFICES ASSUME NEW r \in OrderIds, \A f \in Range(oq') : ~IsOrder(f, r)
               PROVE  /\ r \in activeOrders <=> venue'[r].st \in Active
                      /\ oms[r] = venue'[r].st \/ (restarts > 0 /\ oms[r] = None)
    BY <1>5 DEF OmsAgrees
  <2>1. r # o /\ \A f \in Range(oq) : ~IsOrder(f, r)
    BY <1>4, <1>14
  <2>2. OmsAgrees(oq)
    BY DEF Agreement, oq
  <2> QED
    BY <1>9, <2>1, <2>2 DEF OmsAgrees
<1>18. IdsAgree(cq)'
  <2> SUFFICES ASSUME NEW m \in Names, NEW r \in OrderIds
               PROVE  /\ venue'[r].by # None /\ venue'[r].by = strategies[m] => orderStrategy'[r] = strategies[m]
                      /\ r \in strategyOrders'[m] <=>
                           /\ venue'[r].by # None /\ venue'[r].by = strategies[m]
                           /\ venue'[r].st \in Active \/ \E f \in Range(cq') : IsOrder(f, r) /\ f.st \notin Active
    BY <1>5 DEF IdsAgree
  <2>1. CASE r = o
    BY <1>6, <1>7, <1>9, <1>10, <1>11, <2>1 DEF Active
  <2>2. CASE r # o
    <3>1. IdsAgree(cq)
      BY DEF Agreement, cq
    <3>2. /\ venue[r].by # None /\ venue[r].by = strategies[m] => orderStrategy[r] = strategies[m]
          /\ r \in strategyOrders[m] <=>
               /\ venue[r].by # None /\ venue[r].by = strategies[m]
               /\ venue[r].st \in Active \/ \E f \in Range(cq) : IsOrder(f, r) /\ f.st \notin Active
      BY <3>1 DEF IdsAgree
    <3>3. venue'[r] = venue[r] /\ orderStrategy'[r] = orderStrategy[r]
          /\ (r \in strategyOrders'[m] <=> r \in strategyOrders[m])
      BY <1>9, <1>10, <1>11, <2>2
    <3>4. (\E f \in Range(cq') : IsOrder(f, r) /\ f.st \notin Active)
            <=> \E f \in Range(cq) : IsOrder(f, r) /\ f.st \notin Active
      BY <1>14, <1>16, <2>2
    <3> QED
      BY <3>2, <3>3, <3>4
  <2> QED
    BY <2>1, <2>2
<1>19. PosAgrees(cq)'
  <2>1. PosAgrees(cq) /\ OtherTypes
    BY DEF Agreement, cq
  <2>2. \A t \in tradeids : t[1] \in OrderIds /\ t[2] \in 1 .. Volume /\ t[2] <= venue[t[1]].traded
    BY <2>1 DEF PosAgrees, OtherTypes
  <2>3. \A t \in tradeids : t[1] # o /\ venue'[t[1]] = venue[t[1]]
    <3> SUFFICES ASSUME NEW t \in tradeids PROVE t[1] # o /\ venue'[t[1]] = venue[t[1]]
      OBVIOUS
    <3>1. t[1] \in OrderIds /\ t[2] \in 1 .. Volume /\ t[2] <= venue[t[1]].traded
      BY <2>2
    <3>2. t[1] # o
      BY <1>8, <3>1, Bounds
    <3> QED
      BY <1>9, <3>1, <3>2
  <2>4. \A j, c : Counted(j, c)' = Counted(j, c)
    BY <1>5, <2>3 DEF Counted
  <2>5. \A t \in tradeids : t[2] <= venue'[t[1]].traded
    BY <2>2, <2>3
  <2>6. ASSUME NEW m \in Names, strategies[m] # None, NEW r \in OrderIds, NEW k \in 1 .. Volume,
               venue'[r].by = strategies[m], k <= venue'[r].traded
        PROVE  <<r, k>> \in tradeids \/ \E f \in Range(cq') : IsTrade(f, r, k)
    <3>1. r # o /\ venue'[r] = venue[r]
      BY <1>9, <2>6, Bounds
    <3>2. <<r, k>> \in tradeids \/ \E f \in Range(cq) : IsTrade(f, r, k)
      BY <2>1, <2>6, <3>1 DEF PosAgrees
    <3> QED
      BY <1>14, <3>2
  <2>7. \A m \in Names : strategies[m] # None =>
          pos[strategies[m]] =
            Cardinality(Counted(strategies[m], "LONG")) - Cardinality(Counted(strategies[m], "SHORT"))
    BY <2>1 DEF PosAgrees
  <2> QED
    BY <1>5, <2>4, <2>5, <2>6, <2>7 DEF PosAgrees
<1>20. StopsReach'
  <2> SUFFICES ASSUME NEW m \in Names, strategies[m] \notin trading, NEW r \in strategyOrders'[m], r \in OrderIds
               PROVE  r \in cancelReq \cup unfound \cup Pending(stack')
    BY <1>2, <1>5 DEF StopsReach
  <2>1. r \in strategyOrders[m]
    BY <1>6, <1>11
  <2> QED
    BY <2>1 DEF Agreement, StopsReach, Keeps
<1>21. SentOrders'
  <2>1. ASSUME NEW r \in OrderIds
        PROVE  /\ venue'[r].by = None <=> r > orderCount'
               /\ venue'[r].by = None => venue'[r].st = None /\ venue'[r].traded = 0
               /\ venue'[r].by # None => venue'[r].dir \in Directions
               /\ venue'[r].traded \in 0 .. Volume
               /\ venue'[r].st \in Active => venue'[r].traded < Volume
               /\ orderStrategy'[r] \in {None, venue'[r].by}
    <3>1. CASE r = o
      <4>1. 0 \in 0 .. Volume /\ 0 < Volume /\ ~(o > o)
        BY <1>1, Bounds, CtaAssumption
      <4> QED
        BY <1>1, <1>2, <1>6, <1>9, <1>10, <3>1, <4>1
    <3>2. CASE r # o
      <4>1. r \in Nat /\ (r > o <=> r > orderCount)
        BY <1>1, <3>2, Bounds DEF o
      <4> QED
        BY <1>2, <1>9, <1>10, <3>2, <4>1 DEF Agreement, SentOrders
    <3> QED
      BY <3>1, <3>2
  <2>2. 1 .. orderCount \subseteq 1 .. o /\ o \in 1 .. o
    BY <1>1 DEF o
  <2>3. cancelReq' \cup unfound' \subseteq 1 .. orderCount'
    BY <1>2, <2>2 DEF Agreement, SentOrders
  <2>4. \A m \in Names : strategyOrders'[m] \cap OrderIds \subseteq 1 .. orderCount'
    BY <1>2, <1>11, <2>2 DEF Agreement, SentOrders
  <2>5. Copies(stack', (1 .. orderCount') \cup StopIds)
    <3> DEFINE S == (1 .. orderCount) \cup StopIds
               T == (1 .. o) \cup StopIds
    <3>1. Copies(stack', S)
      BY DEF Agreement, SentOrders, Keeps
    <3>2. S \subseteq T
      BY <2>2
    <3> HIDE DEF S, T
    <3>3. Copies(stack', T)
      BY <3>1, <3>2, CopiesMore
    <3> QED
      BY <1>2, <3>3 DEF T
  <2>6. Copies(stack, (1 .. orderCount) \cup StopIds)'
    BY <2>5
  <2> QED
    BY <2>1, <2>3, <2>4, <2>6 DEF SentOrders
<1>22. Lives'
  <2>1. i[2] <= gens[i[1]]
    BY <1>6 DEF Agreement, Lives, n, NameOf
  <2>2. i[2] \in Int /\ gens[i[1]] \in Int
    BY <1>6, CtaAssumption DEF Instances, IInv, Registered, n, NameOf
  <2>3. ASSUME NEW j \in Instances, j[2] > gens[j[1]]
        PROVE  pos[j] = 0 /\ \A r \in OrderIds : venue'[r].by # j
    <3>1. pos[j] = 0 /\ \A r \in OrderIds : venue[r].by # j
      BY <2>3 DEF Agreement, Lives
    <3>2. j # i
      BY <2>1, <2>2, <2>3
    <3> QED
      BY <1>9, <3>1, <3>2
  <2> QED
    BY <1>5, <2>3 DEF Agreement, Lives
<1>23. \A h \in {"oms", "cta"} : Chronicle(Line(h), venue)'
  <2> SUFFICES ASSUME NEW h \in {"oms", "cta"} PROVE Chronicle(Line(h)', venue')
    OBVIOUS
  <2>1. Chronicle(Line(h), venue) /\ Line(h)' = Append(Line(h), e)
    BY <1>12 DEF Agreement
  <2>2. "SUBMITTING" \in Status
    BY DEF Status, Active
  <2>3. Chronicle(Append(Line(h), OrderEvent(o, "SUBMITTING")), venue')
    BY <1>1, <1>6, <1>8, <1>9, <2>1, <2>2, ReportAppended
  <2> QED
    BY <2>1, <2>3 DEF e
<1>24. OtherTypes'
  BY <1>5, <1>10 DEF Agreement, OtherTypes, StopEntries
<1> QED
  BY <1>5, <1>17, <1>18, <1>19, <1>20, <1>21, <1>22, <1>23, <1>24 DEF Agreement, oq, cq

LEMMA SendLimitAgrees ==
  ASSUME IInv, Agreement, NEW i \in Instances, NEW d \in Directions, SendLimitOrder(i, d)
  PROVE  Agreement'
<1>1. /\ SendServerOrder(i, d, {}) /\ i \in trading /\ alive /\ stack' = stack /\ stopOrders' = stopOrders
      /\ UNCHANGED <<ctaVars, omsVars, procVars>>
  BY DEF SendLimitOrder, MayCall, Top, stopVars
<1>2. Keeps(stack, stack')
  BY <1>1, KeepsItself DEF IInv
<1> QED
  BY <1>1, <1>2, SendAgrees, EntriesUnchanged

\* The owner of a stop order that triggers trades: nothing is pending in a walk.
LEMMA TriggerAgrees ==
  ASSUME IInv, Agreement, WalkTrigger
  PROVE  Agreement'
<1>1. PICK s \in Following :
        LET i == strategies[stopOrders[s].name] IN
        /\ i # None
        /\ SendServerOrder(i, stopOrders[s].dir, {s})
        /\ stopOrders' = Erased(s)
        /\ stack' = <<Callback(i)>> \o <<[Frame EXCEPT !.last = s, !.dangling = TRUE]>> \o Tail(stack)
  BY DEF WalkTrigger
<1> DEFINE i == strategies[stopOrders[s].name]
           y == [Frame EXCEPT !.last = s, !.dangling = TRUE]
           x == Callback(i)
           q == <<y>> \o Tail(stack)
<1>2. s \in DOMAIN stopOrders /\ s \in StopIds /\ stopOrders[s].name \in Names /\ stopOrders[s].dir \in Directions
  BY DEF Following, Ahead, IInv, BookTypes
<1>3. /\ SendServerOrder(i, stopOrders[s].dir, {s}) /\ i # None
      /\ stopOrders' = Erased(s) /\ stack' = <<x>> \o <<y>> \o Tail(stack)
  BY <1>1
<1>4. /\ stack # <<>> /\ Frame = stack[1] /\ FrameShape(Frame) /\ Frame.f = "walk" /\ Shape(stack)
      /\ Pending(stack) = {} /\ alive
  BY TopFrame, WalkPending DEF WalkTrigger, Walking, Top, IInv
<1>5. i \in Instances /\ i \in trading
  BY <1>2, <1>3, <1>4 DEF IInv, Registered, Owned
<1>6. FrameShape(y) /\ y.f = "walk"
  <2>1. FrameShape(Frame) /\ Frame.f = "walk"
    BY <1>4
  <2> QED
    BY <2>1, DanglingUpdate
<1> HIDE DEF y
<1>7. Keeps(stack, q)
  BY <1>4, <1>6, ReplaceFrame
<1>8. Keeps(q, <<x>> \o q)
  BY <1>7, CallFrame DEF Keeps
<1>9. stack' = <<x>> \o q
  <2>1. IsSequence(Tail(stack))
    BY <1>4, PopSequence DEF Shape
  <2> HIDE DEF x
  <2> QED
    BY <1>3, <2>1, PushTwo
<1> HIDE DEF q, x
<1>10. Keeps(stack, stack')
  BY <1>7, <1>8, <1>9, KeepsBoth
<1>11. \A t \in DOMAIN stopOrders' : stopOrders'[t] \in StopEntries
  BY <1>3 DEF Erased, Agreement, OtherTypes, StopEntries
<1>12. UNCHANGED <<ctaVars, omsVars, procVars>>
  BY DEF WalkTrigger
<1> DEFINE d == stopOrders[s].dir
           gone == {s}
<1>13. SendServerOrder(i, d, gone) /\ d \in Directions /\ gone \in SUBSET StopIds
  BY <1>2, <1>3
<1> HIDE DEF i, d, gone
<1> QED
  BY <1>4, <1>5, <1>10, <1>11, <1>12, <1>13, SendAgrees
-------------------------------------------------------------------------------
(* The venue moves an order, or pushes a trade again.                        *)

\* What a line says after the reports of a move.
LEMMA LineMoves ==
  ASSUME NEW w, w = <<>> \/ (\E x : w = <<x>>), NEW b \in Seq(BusEvents), NEW e \in BusEvents, NEW f \in BusEvents
  PROVE  /\ w \o (b \o (<<e>> \o <<>>)) = Append(w \o b, e)
         /\ w \o (b \o (<<e>> \o <<f>>)) = Append(Append(w \o b, e), f)
<1>1. <<e>> \in Seq(BusEvents) /\ <<f>> \in Seq(BusEvents) /\ Append(b, e) \in Seq(BusEvents)
  <2>1. <<e>> \in Seq(BusEvents) /\ <<f>> \in Seq(BusEvents)
    OBVIOUS
  <2> QED
    BY <2>1, AppendProperties
<1>2. <<e>> \o <<>> = <<e>> /\ b \o <<e>> = Append(b, e)
  BY <1>1, ConcatEmptySeq, AppendIsConcat
<1>3. b \o (<<e>> \o <<f>>) = Append(Append(b, e), f)
  <2>1. b \o (<<e>> \o <<f>>) = (b \o <<e>>) \o <<f>>
    BY <1>1, ConcatAssociative
  <2>2. Append(Append(b, e), f) = Append(b, e) \o <<f>>
    BY <1>1, AppendIsConcat
  <2> QED
    BY <1>2, <2>1, <2>2
<1>4. w \o Append(b, e) = Append(w \o b, e)
  BY LineGrows
<1>5. w \o Append(Append(b, e), f) = Append(w \o Append(b, e), f)
  BY <1>1, LineGrows
<1> QED
  BY <1>2, <1>3, <1>4, <1>5

\* A move is reported to both engines; a fill tells the trade after the order.
LEMMA MoveAgrees ==
  ASSUME IInv, Agreement, NEW o \in OrderIds, NEW st \in Status, NEW lots \in {0, 1}, NEW es,
         VenueMoves(o, st, lots, es),
         lots = 0 => es = <<>>,
         lots = 1 => es = <<TradeEvent(o, venue[o].traded + 1)>>
                     /\ (st \in Active => venue[o].traded + 1 # Volume)
  PROVE  Agreement'
<1> DEFINE e == OrderEvent(o, st)
           k == venue[o].traded + 1
           f == TradeEvent(o, k)
<1>1. venue \in [OrderIds -> VenueOrders] /\ bus \in Seq(BusEvents)
  BY DEF IInv
<1>2. /\ venue[o].st \in Active /\ venue[o].by # None
      /\ venue[o].traded \in 0 .. Volume /\ venue[o].traded < Volume /\ venue[o].dir \in Directions
  <2>1. venue[o].st \in Active
    BY DEF VenueMoves
  <2>2. venue[o].st # None
    BY <2>1, NoneAssumption DEF Status
  <2> QED
    BY <2>1, <2>2 DEF Agreement, SentOrders
<1>3. venue' = [venue EXCEPT ![o] = [st |-> st, traded |-> venue[o].traded + lots,
                                     dir |-> venue[o].dir, by |-> venue[o].by]]
  BY <1>1, VenueEntry
<1>4. /\ venue'[o].st = st /\ venue'[o].traded = venue[o].traded + lots
      /\ venue'[o].dir = venue[o].dir /\ venue'[o].by = venue[o].by
      /\ \A r \in OrderIds : r # o => venue'[r] = venue[r]
  BY <1>1, <1>3
<1>5. /\ \A r \in OrderIds : venue'[r].by = venue[r].by /\ venue'[r].dir = venue[r].dir
      /\ \A r \in OrderIds : venue[r].traded \in 0 .. Volume /\ venue[r].traded <= venue'[r].traded
      /\ venue'[o].traded \in 0 .. Volume /\ (st \in Active => venue'[o].traded < Volume)
  <2>1. venue'[o].traded \in 0 .. Volume /\ (st \in Active => venue'[o].traded < Volume)
    BY <1>2, <1>4, Bounds
  <2>2. \A r \in OrderIds : venue[r].traded \in 0 .. Volume
    BY DEF Agreement, SentOrders
  <2>3. venue[o].traded <= venue'[o].traded
    BY <1>2, <1>4, Bounds
  <2>4. \A r \in OrderIds : venue[r].traded <= venue'[r].traded
    BY <1>4, <2>2, <2>3, Bounds
  <2> QED
    BY <1>4, <2>1, <2>2, <2>4
<1>6. /\ bus' = IF alive THEN bus \o (<<e>> \o es) ELSE bus
      /\ UNCHANGED <<ctaVars, orderVars, stopVars, omsVars, procVars>>
      /\ UNCHANGED <<cancelReq, unfound, orderCount, stack>>
  BY DEF VenueMoves, Push
<1>7. /\ e \in BusEvents /\ f \in BusEvents /\ k \in 1 .. Volume
      /\ IsOrder(e, o) /\ e.st = st /\ IsTrade(f, o, k)
      /\ \A r : r # o => ~IsOrder(e, r)
      /\ \A r : ~IsOrder(f, r)
      /\ \A r, m : ~IsTrade(e, r, m)
  <2>1. k \in 1 .. Volume
    BY <1>2, Bounds
  <2> HIDE DEF k
  <2>2. k \in Int
    BY <2>1, Bounds
  <2> QED
    BY <2>1, <2>2 DEF BusEvents, OrderEvent, TradeEvent, IsOrder, IsTrade
<1>8. lots = 0 => k = venue'[o].traded + 1
  BY <1>2, <1>4
<1>9. lots = 1 => k = venue'[o].traded
  BY <1>2, <1>4
<1> HIDE DEF e, f
<1>10. ASSUME alive, NEW h \in {"oms", "cta"}
       PROVE  Line(h)' = IF lots = 0 THEN Append(Line(h), e) ELSE Append(Append(Line(h), e), f)
  <2> DEFINE w == Waiting(stack, h)
  <2>1. Line(h)' = w \o (bus \o (<<e>> \o es)) /\ Line(h) = w \o bus
    BY <1>6, <1>10 DEF Line
  <2>2. w = <<>> \/ \E x : w = <<x>>
    BY WaitingOne
  <2> HIDE DEF w
  <2>3. /\ w \o (bus \o (<<e>> \o <<>>)) = Append(w \o bus, e)
        /\ w \o (bus \o (<<e>> \o <<f>>)) = Append(Append(w \o bus, e), f)
    BY <1>1, <1>7, <2>2, LineMoves
  <2>4. lots = 0 => es = <<>>
    OBVIOUS
  <2>5. lots = 1 => es = <<f>>
    BY DEF f
  <2> QED
    BY <2>1, <2>3, <2>4, <2>5
<1>11. ASSUME alive, NEW h \in {"oms", "cta"}
       PROVE  /\ Chronicle(Line(h)', venue')
              /\ Range(Line(h)') = Range(Line(h)) \cup {e} \cup (IF lots = 0 THEN {} ELSE {f})
  <2> PICK q : q = Line(h)
    OBVIOUS
  <2> DEFINE p == Append(q, e)
  <2>1. Chronicle(q, venue) /\ q \in Seq(BusEvents)
    BY DEF Agreement, Chronicle
  <2>2. Chronicle(p, venue')
    <3>1. Chronicle(Append(q, OrderEvent(o, st)), venue')
      <4>1. venue[o].traded \in Nat /\ venue'[o].traded \in Nat
        BY <1>5, Bounds
      <4> QED
        BY <1>2, <1>4, <1>5, <2>1, <4>1, ReportAppended
    <3> QED
      BY <3>1 DEF e
  <2>3. Range(p) = Range(q) \cup {e} /\ p \in Seq(BusEvents)
    BY <1>7, <2>1, AppendRange, AppendProperties
  <2>4. Line(h)' = IF lots = 0 THEN p ELSE Append(p, f)
    BY <1>10, <1>11
  <2> HIDE DEF p
  <2>5. CASE lots = 0
    BY <2>2, <2>3, <2>4, <2>5
  <2>6. CASE lots = 1
    <3>1. Range(Append(p, f)) = Range(p) \cup {f}
      BY <1>7, <2>3, AppendRange
    <3>2. venue'[o].traded \in Nat /\ k \in 1 .. venue'[o].traded /\ venue'[o].by # None
      BY <1>2, <1>4, <1>5, <1>7, <1>9, <2>6, Bounds
    <3> HIDE DEF k
    <3>3. Chronicle(Append(p, TradeEvent(o, k)), venue')
      BY <2>2, <3>2, TradeAppended
    <3>4. Chronicle(Append(p, f), venue')
      BY <3>3 DEF f
    <3> QED
      BY <2>3, <2>4, <2>6, <3>1, <3>4
  <2> QED
    BY <2>5, <2>6
<1> DEFINE oq == Line("oms")
           cq == Line("cta")
<1>12. ASSUME alive
       PROVE  /\ Range(oq') = Range(oq) \cup {e} \cup (IF lots = 0 THEN {} ELSE {f})
              /\ Range(cq') = Range(cq) \cup {e} \cup (IF lots = 0 THEN {} ELSE {f})
  BY <1>11, <1>12
<1> HIDE DEF oq, cq, k
<1>13. /\ strategies' = strategies /\ trading' = trading /\ pos' = pos /\ tradeids' = tradeids
       /\ strategyOrders' = strategyOrders /\ orderStrategy' = orderStrategy
       /\ oms' = oms /\ activeOrders' = activeOrders /\ alive' = alive /\ gens' = gens /\ restarts' = restarts
  BY <1>6 DEF ctaVars, orderVars, omsVars, procVars
<1>14. alive => OmsAgrees(oq)'
  <2> SUFFICES ASSUME alive, NEW r \in OrderIds, \A g \in Range(oq') : ~IsOrder(g, r)
               PROVE  /\ r \in activeOrders <=> venue'[r].st \in Active
                      /\ oms[r] = venue'[r].st \/ (restarts > 0 /\ oms[r] = None)
    BY <1>13 DEF OmsAgrees
  <2>1. r # o /\ \A g \in Range(oq) : ~IsOrder(g, r)
    BY <1>7, <1>12
  <2>2. OmsAgrees(oq)
    BY DEF Agreement, oq
  <2> QED
    BY <1>4, <2>1, <2>2 DEF OmsAgrees
<1>15. alive => IdsAgree(cq)'
  <2> SUFFICES ASSUME alive, NEW m \in Names, NEW r \in OrderIds
               PROVE  /\ venue'[r].by # None /\ venue'[r].by = strategies[m] => orderStrategy[r] = strategies[m]
                      /\ r \in strategyOrders[m] <=>
                           /\ venue'[r].by # None /\ venue'[r].by = strategies[m]
                           /\ venue'[r].st \in Active \/ \E g \in Range(cq') : IsOrder(g, r) /\ g.st \notin Active
    BY <1>13 DEF IdsAgree
  <2>1. IdsAgree(cq)
    BY DEF Agreement, cq
  <2>2. /\ venue[r].by # None /\ venue[r].by = strategies[m] => orderStrategy[r] = strategies[m]
        /\ r \in strategyOrders[m] <=>
             /\ venue[r].by # None /\ venue[r].by = strategies[m]
             /\ venue[r].st \in Active \/ \E g \in Range(cq) : IsOrder(g, r) /\ g.st \notin Active
    BY <2>1 DEF IdsAgree
  <2>3. venue'[r].by = venue[r].by
    BY <1>5
  <2>4. CASE r = o
    <3>1. venue'[r].st \in Active \/ \E g \in Range(cq') : IsOrder(g, r) /\ g.st \notin Active
      BY <1>4, <1>7, <1>12, <2>4
    <3> QED
      BY <1>2, <2>2, <2>3, <2>4, <3>1
  <2>5. CASE r # o
    <3>1. (\E g \in Range(cq') : IsOrder(g, r) /\ g.st \notin Active)
            <=> \E g \in Range(cq) : IsOrder(g, r) /\ g.st \notin Active
      BY <1>7, <1>12, <2>5
    <3> QED
      BY <1>4, <2>2, <2>5, <3>1
  <2> QED
    BY <2>4, <2>5
<1>16. alive => PosAgrees(cq)'
  <2> SUFFICES ASSUME alive PROVE PosAgrees(cq)'
    OBVIOUS
  <2>1. PosAgrees(cq) /\ OtherTypes
    BY DEF Agreement, cq
  <2>2. \A t \in tradeids : t[1] \in OrderIds /\ t[2] \in 1 .. Volume /\ t[2] <= venue[t[1]].traded
    BY <2>1 DEF PosAgrees, OtherTypes
  <2>3. \A j, c : Counted(j, c)' = Counted(j, c)
    BY <1>5, <1>13, <2>2 DEF Counted
  <2>4. \A t \in tradeids : t[2] <= venue'[t[1]].traded
    <3> SUFFICES ASSUME NEW t \in tradeids PROVE t[2] <= venue'[t[1]].traded
      OBVIOUS
    <3>1. t[1] \in OrderIds /\ t[2] \in 1 .. Volume /\ t[2] <= venue[t[1]].traded
      BY <2>2
    <3>2. venue[t[1]].traded \in 0 .. Volume /\ venue[t[1]].traded <= venue'[t[1]].traded
      BY <1>5, <3>1
    <3>3. venue'[t[1]].traded \in 0 .. Volume
      BY <1>4, <1>5, <3>1
    <3> QED
      BY <3>1, <3>2, <3>3, Bounds
  <2>5. ASSUME NEW m \in Names, strategies[m] # None, NEW r \in OrderIds, NEW l \in 1 .. Volume,
               venue'[r].by = strategies[m], l <= venue'[r].traded
        PROVE  <<r, l>> \in tradeids \/ \E g \in Range(cq') : IsTrade(g, r, l)
    <3>1. CASE l <= venue[r].traded
      <4>1. <<r, l>> \in tradeids \/ \E g \in Range(cq) : IsTrade(g, r, l)
        BY <1>5, <2>1, <2>5, <3>1 DEF PosAgrees
      <4> QED
        BY <1>12, <4>1
    <3>2. CASE ~(l <= venue[r].traded)
      <4>1. r = o
        BY <1>4, <2>5, <3>2
      <4>2. lots = 1 /\ l = k
        BY <1>2, <1>4, <2>5, <3>2, <4>1, Bounds DEF k
      <4> QED
        BY <1>7, <1>12, <4>1, <4>2
    <3> QED
      BY <3>1, <3>2
  <2>6. \A m \in Names : strategies[m] # None =>
          pos[strategies[m]] =
            Cardinality(Counted(strategies[m], "LONG")) - Cardinality(Counted(strategies[m], "SHORT"))
    BY <2>1 DEF PosAgrees
  <2> QED
    BY <1>13, <2>3, <2>4, <2>5, <2>6 DEF PosAgrees
<1>17. \A h \in {"oms", "cta"} : Chronicle(Line(h), venue)'
  <2> SUFFICES ASSUME NEW h \in {"oms", "cta"} PROVE Chronicle(Line(h)', venue')
    OBVIOUS
  <2>1. CASE alive
    BY <1>11, <2>1
  <2>2. CASE ~alive
    <3>1. stack = <<>> /\ bus = <<>>
      BY <2>2 DEF Agreement
    <3>2. <<>> \o bus = <<>>
      BY <1>1, <3>1, ConcatEmptySeq
    <3>3. Line(h)' = <<>>
      BY <1>6, <2>2, <3>1, <3>2, NoFrames DEF Line
    <3> QED
      BY <3>3, ChronicleNothing
  <2> QED
    BY <2>1, <2>2
<1>18. SentOrders'
  <2>1. ASSUME NEW r \in OrderIds
        PROVE  /\ venue'[r].by = None <=> r > orderCount
               /\ venue'[r].by = None => venue'[r].st = None /\ venue'[r].traded = 0
               /\ venue'[r].by # None => venue'[r].dir \in Directions
               /\ venue'[r].traded \in 0 .. Volume
               /\ venue'[r].st \in Active => venue'[r].traded < Volume
               /\ orderStrategy[r] \in {None, venue'[r].by}
    BY <1>2, <1>4, <1>5 DEF Agreement, SentOrders
  <2>2. Copies(stack, (1 .. orderCount) \cup StopIds)'
    BY <1>6 DEF Agreement, SentOrders
  <2> QED
    BY <1>6, <1>13, <2>1, <2>2 DEF Agreement, SentOrders
<1>19. Lives'
  BY <1>5, <1>6, <1>13 DEF Agreement, Lives, ctaVars
<1>20. alive => StopsReach'
  BY <1>6, <1>13, StopsStill DEF Agreement
<1>21. OtherTypes'
  BY <1>6 DEF Agreement, OtherTypes, ctaVars, orderVars, stopVars, omsVars, procVars
<1>22. alive \/ (stack' = <<>> /\ bus' = <<>>)
  BY <1>6 DEF Agreement
<1> QED
  BY <1>13, <1>14, <1>15, <1>16, <1>17, <1>18, <1>19, <1>20, <1>21, <1>22 DEF Agreement, oq, cq

\* A trade that is pushed again is one more event of a lot that was traded.
LEMMA DuplicateAgrees ==
  ASSUME IInv, Agreement, NEW o \in OrderIds, NEW k \in 1 .. Volume, DuplicateTrade(o, k)
  PROVE  Agreement'
<1> DEFINE e == TradeEvent(o, k)
<1>1. /\ alive /\ k <= venue[o].traded /\ bus' = bus \o <<e>>
      /\ UNCHANGED <<ctaVars, orderVars, stopVars, omsVars, procVars>>
      /\ UNCHANGED <<venue, cancelReq, unfound, orderCount, stack>>
  BY DEF DuplicateTrade, Push
<1>2. e \in BusEvents /\ (\A r : ~IsOrder(e, r)) /\ bus \in Seq(BusEvents)
  <2>1. k \in Int
    BY Bounds
  <2> QED
    BY <2>1 DEF BusEvents, TradeEvent, IsOrder, IInv
<1>3. venue[o].by # None /\ venue[o].traded \in Nat /\ k \in 1 .. venue[o].traded
  <2>1. venue[o].traded \in 0 .. Volume /\ (venue[o].by = None => venue[o].traded = 0)
    BY DEF Agreement, SentOrders
  <2> QED
    BY <1>1, <2>1, Bounds
<1> HIDE DEF e
<1>4. ASSUME NEW h \in {"oms", "cta"}
      PROVE  Chronicle(Line(h)', venue) /\ Range(Line(h)') = Range(Line(h)) \cup {e}
  <2> PICK q : q = Line(h)
    OBVIOUS
  <2>1. Chronicle(q, venue) /\ q \in Seq(BusEvents)
    BY DEF Agreement, Chronicle
  <2>2. Line(h)' = Append(q, e)
    <3>1. bus \o <<e>> = Append(bus, e)
      BY <1>2, AppendIsConcat
    <3>2. Waiting(stack, h) \o Append(bus, e) = Append(Waiting(stack, h) \o bus, e)
      BY <1>2, WaitingOne, LineGrows
    <3> QED
      BY <1>1, <3>1, <3>2 DEF Line
  <2>3. Range(Append(q, e)) = Range(q) \cup {e}
    BY <1>2, <2>1, AppendRange
  <2>4. Chronicle(Append(q, TradeEvent(o, k)), venue)
    BY <1>3, <2>1, TradeAppended
  <2> QED
    BY <2>2, <2>3, <2>4 DEF e
<1> DEFINE oq == Line("oms")
           cq == Line("cta")
<1>5. Range(oq') = Range(oq) \cup {e} /\ Range(cq') = Range(cq) \cup {e}
  BY <1>4
<1>6. OmsAgrees(oq) /\ IdsAgree(cq) /\ PosAgrees(cq)
  BY <1>1 DEF Agreement
<1> HIDE DEF oq, cq
<1>7. /\ strategies' = strategies /\ trading' = trading /\ pos' = pos /\ tradeids' = tradeids
      /\ strategyOrders' = strategyOrders /\ orderStrategy' = orderStrategy /\ venue' = venue
      /\ oms' = oms /\ activeOrders' = activeOrders /\ alive' = alive /\ gens' = gens /\ restarts' = restarts
  BY <1>1 DEF ctaVars, orderVars, omsVars, procVars
<1>8. OmsAgrees(oq)'
  BY <1>2, <1>5, <1>6, <1>7 DEF OmsAgrees
<1>9. IdsAgree(cq)'
  <2>1. \A r : (\E g \in Range(cq') : IsOrder(g, r) /\ g.st \notin Active)
                 <=> \E g \in Range(cq) : IsOrder(g, r) /\ g.st \notin Active
    BY <1>2, <1>5
  <2> QED
    BY <1>6, <1>7, <2>1 DEF IdsAgree
<1>10. PosAgrees(cq)'
  <2>1. \A j, c : Counted(j, c)' = Counted(j, c)
    BY <1>7 DEF Counted
  <2>2. \A r, l : (\E g \in Range(cq) : IsTrade(g, r, l)) => \E g \in Range(cq') : IsTrade(g, r, l)
    BY <1>5
  <2> QED
    BY <1>6, <1>7, <2>1, <2>2 DEF PosAgrees
<1>11. \A h \in {"oms", "cta"} : Chronicle(Line(h), venue)'
  BY <1>4, <1>7
<1>12. SentOrders'
  BY <1>1, <1>7 DEF Agreement, SentOrders
<1>13. Lives'
  BY <1>1, <1>7 DEF Agreement, Lives, ctaVars
<1>14. StopsReach'
  BY <1>1, <1>7, StopsStill DEF Agreement
<1>15. OtherTypes'
  BY <1>1 DEF Agreement, OtherTypes, ctaVars, orderVars, stopVars, omsVars, procVars
<1> QED
  BY <1>1, <1>7, <1>8, <1>9, <1>10, <1>11, <1>12, <1>13, <1>14, <1>15 DEF Agreement, oq, cq

LEMMA VenueAgrees ==
  ASSUME IInv, Agreement, VenueStep
  PROVE  Agreement'
<1>1. PICK o \in OrderIds : \/ Accept(o)
                            \/ Reject(o)
                            \/ CancelDone(o)
                            \/ Fill(o)
                            \/ \E k \in 1 .. Volume : DuplicateTrade(o, k)
  BY DEF VenueStep
<1>2. {"NOTTRADED", "REJECTED", "CANCELLED", "ALLTRADED", "PARTTRADED"} \subseteq Status
  BY DEF Status, Active
<1>3. CASE Accept(o) \/ Reject(o) \/ CancelDone(o)
  <2>1. PICK st \in Status : VenueMoves(o, st, 0, <<>>)
    BY <1>2, <1>3 DEF Accept, Reject, CancelDone
  <2> DEFINE es == <<>>
             lots == 0
  <2>2. es = <<>> /\ lots = 0 /\ lots \in {0, 1} /\ VenueMoves(o, st, lots, es)
    BY <2>1
  <2> HIDE DEF es, lots
  <2> QED
    BY <2>2, MoveAgrees
<1>4. CASE Fill(o)
  <2> DEFINE k == venue[o].traded + 1
             st == IF k = Volume THEN "ALLTRADED" ELSE "PARTTRADED"
             es == <<TradeEvent(o, k)>>
             lots == 1
  <2>1. VenueMoves(o, st, lots, es) /\ es = <<TradeEvent(o, venue[o].traded + 1)>>
    BY <1>4 DEF Fill
  <2>2. st \in Status /\ lots = 1 /\ lots \in {0, 1} /\ (st \in Active => venue[o].traded + 1 # Volume)
    BY <1>2 DEF Active
  <2> HIDE DEF st, es, lots
  <2> QED
    BY <2>1, <2>2, MoveAgrees
<1>5. CASE \E k \in 1 .. Volume : DuplicateTrade(o, k)
  BY <1>5, DuplicateAgrees
<1> QED
  BY <1>1, <1>3, <1>4, <1>5
-------------------------------------------------------------------------------
(* Strategies come and go, and so does the process.                          *)

LEMMA AppendDistinct ==
  ASSUME NEW S, NEW q \in Seq(S), IsInjective(q), NEW x \in S, x \notin Range(q)
  PROVE  IsInjective(Append(q, x)) /\ Append(q, x) \in Seq(S)
<1> DEFINE p == Append(q, x)
<1>1. /\ p \in Seq(S) /\ Len(q) \in Nat /\ Len(p) = Len(q) + 1
      /\ \A k \in 1 .. Len(q) : p[k] = q[k]
      /\ p[Len(q) + 1] = x /\ DOMAIN q = 1 .. Len(q)
  BY AppendProperties, LenProperties
<1>2. DOMAIN p = 1 .. Len(p)
  <2> HIDE DEF p
  <2> QED
    BY <1>1, LenProperties
<1> HIDE DEF p
<1>3. \A k \in 1 .. Len(p) : k \in 1 .. Len(q) \/ k = Len(q) + 1
  BY <1>1
<1>4. \A k \in 1 .. Len(q) : q[k] # x
  BY <1>1 DEF Range
<1>5. ASSUME NEW a \in DOMAIN p, NEW b \in DOMAIN p, p[a] = p[b] PROVE a = b
  <2>1. a \in 1 .. Len(p) /\ b \in 1 .. Len(p)
    BY <1>2
  <2>2. CASE a \in 1 .. Len(q) /\ b \in 1 .. Len(q)
    BY <1>1, <1>5, <2>2 DEF IsInjective
  <2>3. CASE a = Len(q) + 1 \/ b = Len(q) + 1
    BY <1>1, <1>3, <1>4, <1>5, <2>1, <2>3
  <2> QED
    BY <1>3, <2>1, <2>2, <2>3
<1> QED
  BY <1>1, <1>5 DEF IsInjective, p

\* What list::remove leaves of the list of the contract.
LEMMA RemoveDistinct ==
  ASSUME NEW S, NEW q \in Seq(S), IsInjective(q), NEW x
  PROVE  /\ RemoveFirst(q, x) \in Seq(S) /\ IsInjective(RemoveFirst(q, x))
         /\ Range(RemoveFirst(q, x)) \subseteq Range(q)
<1>1. Len(q) \in Nat /\ DOMAIN q = 1 .. Len(q) /\ \A k \in 1 .. Len(q) : q[k] \in S
  BY LenProperties, ElementOfSeq
<1>2. CASE ~\E k \in 1 .. Len(q) : q[k] = x
  BY <1>2 DEF RemoveFirst
<1>3. CASE \E k \in 1 .. Len(q) : q[k] = x
  <2> DEFINE I == {k \in 1 .. Len(q) : q[k] = x}
             m == Min(I)
             a == SubSeq(q, 1, m - 1)
             b == SubSeq(q, m + 1, Len(q))
             p == a \o b
  <2>1. RemoveFirst(q, x) = p
    BY <1>3 DEF RemoveFirst, RemoveAt, SelectInSeq
  <2>2. m \in 1 .. Len(q)
    <3>1. I \subseteq Nat /\ I # {}
      BY <1>3
    <3>2. m \in I
      BY <3>1, LeastId
    <3> QED
      BY <3>2
  <2> HIDE DEF m
  <2>3. /\ a \in Seq(S) /\ Len(a) = m - 1
        /\ \A k \in 1 .. m - 1 : a[k] = q[k]
    <3>1. /\ m - 1 \in Int /\ (\A k \in 1 .. m - 1 : q[k] \in S)
          /\ 1 \in Int /\ (\A k \in 1 .. m - 1 : 1 + k - 1 = k)
          /\ (m - 1) - 1 + 1 = m - 1 /\ (IF 1 <= m - 1 THEN (m - 1) - 1 + 1 ELSE 0) = m - 1
      BY <1>1, <2>2
    <3>2. /\ a \in Seq(S) /\ Len(a) = (IF 1 <= m - 1 THEN (m - 1) - 1 + 1 ELSE 0)
          /\ \A k \in 1 .. (m - 1) - 1 + 1 : a[k] = q[1 + k - 1]
      BY <3>1, SubSeqProperties
    <3> QED
      BY <3>1, <3>2
  <2>4. /\ b \in Seq(S) /\ Len(b) = Len(q) - m
        /\ \A k \in 1 .. Len(q) - m : b[k] = q[m + k]
    <3>1. /\ m + 1 \in Int /\ Len(q) \in Int /\ (\A k \in m + 1 .. Len(q) : q[k] \in S)
          /\ (\A k \in 1 .. Len(q) - m : (m + 1) + k - 1 = m + k)
          /\ Len(q) - (m + 1) + 1 = Len(q) - m
          /\ (IF m + 1 <= Len(q) THEN Len(q) - (m + 1) + 1 ELSE 0) = Len(q) - m
      <4>1. m \in Int /\ Len(q) \in Int /\ 1 <= m /\ m <= Len(q)
        BY <1>1, <2>2
      <4>2. \A k \in m + 1 .. Len(q) : k \in 1 .. Len(q)
        BY <4>1
      <4>3. \A k \in 1 .. Len(q) - m : (m + 1) + k - 1 = m + k
        BY <4>1
      <4>4. /\ Len(q) - (m + 1) + 1 = Len(q) - m
            /\ (IF m + 1 <= Len(q) THEN Len(q) - (m + 1) + 1 ELSE 0) = Len(q) - m
        BY <4>1
      <4>5. \A k \in m + 1 .. Len(q) : q[k] \in S
        BY <1>1, <4>2
      <4>6. m + 1 \in Int
        BY <4>1
      <4> QED
        BY <4>1, <4>3, <4>4, <4>5, <4>6
    <3>2. /\ b \in Seq(S) /\ Len(b) = (IF m + 1 <= Len(q) THEN Len(q) - (m + 1) + 1 ELSE 0)
          /\ \A k \in 1 .. Len(q) - (m + 1) + 1 : b[k] = q[(m + 1) + k - 1]
      BY <3>1, SubSeqProperties
    <3> QED
      BY <3>1, <3>2
  <2> HIDE DEF a, b
  <2>5. /\ p \in Seq(S) /\ Len(p) = Len(a) + Len(b)
        /\ \A k \in 1 .. Len(a) + Len(b) : p[k] = IF k <= Len(a) THEN a[k] ELSE b[k - Len(a)]
    BY <2>3, <2>4, ConcatProperties
  <2>6. DOMAIN p = 1 .. Len(p)
    <3> HIDE DEF p
    <3> QED
      BY <2>5, LenProperties
  <2> HIDE DEF p
  <2>7. Len(p) = Len(q) - 1
    BY <1>1, <2>2, <2>3, <2>4, <2>5
  <2>8. \A k \in 1 .. Len(p) : k \in 1 .. m - 1 \/ k - (m - 1) \in 1 .. Len(q) - m
    BY <1>1, <2>2, <2>7
  <2>9. ASSUME NEW k \in 1 .. Len(p)
        PROVE  /\ p[k] = q[IF k < m THEN k ELSE k + 1]
               /\ (IF k < m THEN k ELSE k + 1) \in 1 .. Len(q)
    <3>1. CASE k \in 1 .. m - 1
      BY <1>1, <2>2, <2>3, <2>5, <2>7, <3>1
    <3>2. CASE k - (m - 1) \in 1 .. Len(q) - m
      <4>1. ~(k < m) /\ ~(k <= Len(a)) /\ k - Len(a) = k - (m - 1) /\ m + (k - (m - 1)) = k + 1
            /\ k \in 1 .. Len(a) + Len(b)
        BY <1>1, <2>2, <2>3, <2>5, <3>2
      <4>2. p[k] = b[k - Len(a)] /\ b[k - (m - 1)] = q[m + (k - (m - 1))]
        BY <2>4, <2>5, <3>2, <4>1
      <4> QED
        BY <1>1, <2>7, <4>1, <4>2
    <3> QED
      BY <2>8, <3>1, <3>2
  <2>10. IsInjective(p)
    <3> SUFFICES ASSUME NEW k \in 1 .. Len(p), NEW l \in 1 .. Len(p), p[k] = p[l] PROVE k = l
      BY <2>6 DEF IsInjective
    <3>1. (IF k < m THEN k ELSE k + 1) = (IF l < m THEN l ELSE l + 1)
      BY <1>1, <2>9 DEF IsInjective
    <3> QED
      BY <1>1, <2>2, <2>7, <3>1
  <2>11. Range(p) \subseteq Range(q)
    <3> SUFFICES ASSUME NEW y \in Range(p) PROVE y \in Range(q)
      OBVIOUS
    <3>1. PICK k \in 1 .. Len(p) : p[k] = y
      BY <2>6 DEF Range
    <3> QED
      BY <1>1, <2>9, <3>1 DEF Range
  <2> QED
    BY <2>1, <2>5, <2>10, <2>11
<1> QED
  BY <1>2, <1>3

\* A list of a finite set holds each of its members, once.
LEMMA ListOfSet ==
  ASSUME NEW T, IsFiniteSet(T)
  PROVE  SetToSeq(T) \in Seq(T) /\ IsInjective(SetToSeq(T)) /\ Range(SetToSeq(T)) \subseteq T
<1> DEFINE n == Cardinality(T)
           f == SetToSeq(T)
<1>1. n \in Nat /\ \E g : g \in Bijection(1 .. n, T)
  BY FS_CardinalityType DEF ExistsBijection
<1>2. \E g \in [1 .. n -> T] : IsInjective(g)
  BY <1>1 DEF Bijection, Injection
<1>3. f \in [1 .. n -> T] /\ IsInjective(f)
  BY <1>2 DEF SetToSeq
<1> HIDE DEF n, f
<1>4. f \in Seq(T)
  BY <1>1, <1>3, IsASeq
<1>5. Range(f) \subseteq T
  BY <1>3 DEF Range
<1> QED
  BY <1>3, <1>4, <1>5 DEF f

\* An object that was not made yet has counted nothing.
LEMMA Unborn ==
  ASSUME Agreement, NEW i \in Instances, i[2] > gens[i[1]]
  PROVE  /\ pos[i] = 0 /\ \A o \in OrderIds : venue[o].by # i
         /\ \A d : Counted(i, d) = {}
<1>1. pos[i] = 0 /\ \A o \in OrderIds : venue[o].by # i
  BY DEF Agreement, Lives
<1>2. \A t \in tradeids : t[1] \in OrderIds
  BY DEF Agreement, OtherTypes
<1> QED
  BY <1>1, <1>2 DEF Counted

LEMMA AddAgrees ==
  ASSUME IInv, Agreement, NEW n \in Names, AddStrategy(n)
  PROVE  Agreement'
<1> DEFINE i == <<n, gens[n] + 1>>
<1>1. /\ strategies[n] = None /\ gens[n] < MaxGen /\ stack = <<>> /\ alive
      /\ strategies' = [strategies EXCEPT ![n] = i]
      /\ symbolStrategies' = Append(symbolStrategies, i)
      /\ gens' = [gens EXCEPT ![n] = @ + 1] /\ settings' = settings \cup {n}
      /\ UNCHANGED <<inited, trading, pos, tradeids, orderVars, stopVars, omsVars, venueVars,
                     alive, restarts, stack, bus>>
  BY DEF AddStrategy, UpdateStrategySetting, Idle
<1>2. /\ gens \in [Names -> 0 .. MaxGen] /\ MaxGen \in Nat
      /\ strategies \in [Names -> Instances \cup {None}]
  BY CtaAssumption DEF IInv, Registered
<1>3. gens[n] \in Nat /\ gens[n] + 1 \in 1 .. MaxGen
  BY <1>1, <1>2
<1>4. i \in Instances /\ i[1] = n /\ i[2] = gens[n] + 1 /\ i[2] > gens[i[1]]
  BY <1>3 DEF Instances
<1> HIDE DEF i
<1>5. /\ strategies'[n] = i /\ gens'[n] = i[2]
      /\ \A m \in Names : m # n => strategies'[m] = strategies[m] /\ gens'[m] = gens[m]
  BY <1>1, <1>2, <1>4
<1>6. /\ pos[i] = 0 /\ (\A o \in OrderIds : venue[o].by # i) /\ (\A d : Counted(i, d) = {}) /\ i # None
  BY <1>4, Unborn, NoneAssumption
<1>7. \A m \in Names : gens[m] <= gens'[m]
  BY <1>2, <1>3, <1>4, <1>5
<1>8. \A m \in Names : gens[m] \in Int /\ gens'[m] \in Int
  BY <1>2, <1>3, <1>4, <1>5
<1>9. \A j \in Instances : j[1] \in Names /\ j[2] \in Int
  BY DEF Instances
<1>10. OtherTypes'
  <2>1. symbolStrategies \in Seq(Instances) /\ IsInjective(symbolStrategies) /\ IsFiniteSet(settings)
    BY DEF Agreement, OtherTypes
  <2>2. i \notin Range(symbolStrategies)
    BY <1>3, <1>4 DEF Agreement, Lives
  <2>3. IsInjective(symbolStrategies') /\ symbolStrategies' \in Seq(Instances)
    BY <1>1, <1>4, <2>1, <2>2, AppendDistinct
  <2>4. IsFiniteSet(settings')
    BY <1>1, <2>1, FS_AddElement
  <2> QED
    BY <1>1, <2>3, <2>4 DEF Agreement, OtherTypes, orderVars, stopVars, omsVars
<1>11. SentOrders'
  BY <1>1 DEF Agreement, SentOrders, orderVars, venueVars
<1>12. Lives'
  <2>1. ASSUME NEW m \in Names, strategies'[m] # None PROVE strategies'[m][2] <= gens'[m]
    <3>1. CASE m = n
      BY <1>4, <1>5, <1>9, <3>1
    <3>2. CASE m # n
      BY <1>5, <2>1, <3>2 DEF Agreement, Lives
    <3> QED
      BY <3>1, <3>2
  <2>2. ASSUME NEW j \in Instances, j[2] > gens'[j[1]]
        PROVE  pos[j] = 0 /\ \A o \in OrderIds : venue[o].by # j
    <3>1. j[2] > gens[j[1]]
      BY <1>7, <1>8, <1>9, <2>2
    <3> QED
      BY <3>1 DEF Agreement, Lives
  <2>3. ASSUME NEW j \in Range(symbolStrategies') PROVE j[2] <= gens'[j[1]]
    <3>1. symbolStrategies \in Seq(Instances)
      BY DEF Agreement, OtherTypes
    <3>2. Range(symbolStrategies') = Range(symbolStrategies) \cup {i}
      BY <1>1, <1>4, <3>1, AppendRange
    <3>3. CASE j = i
      BY <1>4, <1>5, <1>9, <3>3
    <3>4. CASE j \in Range(symbolStrategies)
      <4>1. j \in Instances /\ j[2] <= gens[j[1]]
        BY <3>1, <3>4, RangeOfSeq DEF Agreement, Lives
      <4> QED
        BY <1>7, <1>8, <1>9, <4>1
    <3> QED
      BY <3>2, <3>3, <3>4
  <2> QED
    BY <1>1, <2>1, <2>2, <2>3 DEF Lives, venueVars
<1>13. \A h \in {"oms", "cta"} : Line(h)' = Line(h)
  BY <1>1 DEF Line
<1> DEFINE cq == Line("cta")
<1>14. cq' = cq /\ OmsAgrees(Line("oms")) /\ IdsAgree(cq) /\ PosAgrees(cq) /\ StopsReach
  BY <1>1, <1>13 DEF Agreement
<1>15. OmsAgrees(Line("oms"))'
  BY <1>1, <1>13, <1>14, OmsAgreesStill DEF omsVars, venueVars
<1> HIDE DEF cq
<1>16. venue' = venue /\ strategyOrders' = strategyOrders /\ orderStrategy' = orderStrategy
  BY <1>1 DEF venueVars, orderVars
<1>17. \A o \in OrderIds : o \notin strategyOrders[n]
  BY <1>1, <1>14 DEF IdsAgree
<1>18. IdsAgree(cq)'
  <2> SUFFICES ASSUME NEW m \in Names, NEW o \in OrderIds
               PROVE  /\ venue[o].by # None /\ venue[o].by = strategies'[m] => orderStrategy[o] = strategies'[m]
                      /\ o \in strategyOrders[m] <=>
                           /\ venue[o].by # None /\ venue[o].by = strategies'[m]
                           /\ venue[o].st \in Active \/ \E g \in Range(cq) : IsOrder(g, o) /\ g.st \notin Active
    BY <1>14, <1>16 DEF IdsAgree
  <2>1. CASE m = n
    BY <1>5, <1>6, <1>17, <2>1
  <2>2. CASE m # n
    BY <1>5, <1>14, <2>2 DEF IdsAgree
  <2> QED
    BY <2>1, <2>2
<1>19. PosAgrees(cq)'
  <2> PICK z : z = strategies'
    OBVIOUS
  <2>1. \A j, d : Counted(j, d)' = Counted(j, d)
    BY <1>1, <1>16 DEF Counted
  <2>2. ASSUME NEW m \in Names, z[m] # None
        PROVE  /\ pos[z[m]] = Cardinality(Counted(z[m], "LONG")) - Cardinality(Counted(z[m], "SHORT"))
               /\ \A o \in OrderIds, k \in 1 .. Volume :
                    venue[o].by = z[m] /\ k <= venue[o].traded =>
                      <<o, k>> \in tradeids \/ \E g \in Range(cq) : IsTrade(g, o, k)
    <3>1. CASE m = n
      <4>1. z[m] = i
        BY <1>5, <3>1
      <4>2. Counted(z[m], "LONG") = {} /\ Counted(z[m], "SHORT") = {}
        BY <1>6, <4>1
      <4>3. Cardinality(Counted(z[m], "LONG")) = 0 /\ Cardinality(Counted(z[m], "SHORT")) = 0
        BY <4>2, FS_EmptySet
      <4> QED
        BY <1>6, <4>1, <4>3
    <3>2. CASE m # n
      BY <1>5, <1>14, <2>2, <3>2 DEF PosAgrees
    <3> QED
      BY <3>1, <3>2
  <2>3. \A t \in tradeids : t[2] <= venue[t[1]].traded
    BY <1>14 DEF PosAgrees
  <2>4. \A m \in Names : z[m] # None =>
          pos[z[m]] = Cardinality(Counted(z[m], "LONG")') - Cardinality(Counted(z[m], "SHORT")')
    BY <2>1, <2>2
  <2>5. strategies' = z /\ tradeids' = tradeids /\ pos' = pos
    BY <1>1
  <2>6. \A m \in Names : \A d : Counted(strategies[m], d)' = Counted(z[m], d)
    BY <1>1, <1>16, <2>5 DEF Counted
  <2> QED
    BY <1>14, <1>16, <2>2, <2>3, <2>5, <2>6 DEF PosAgrees
<1>20. StopsReach'
  <2> SUFFICES ASSUME NEW m \in Names, strategies'[m] \notin trading
               PROVE  strategyOrders[m] \cap OrderIds \subseteq cancelReq \cup unfound \cup Pending(stack)
    BY <1>1, <1>16 DEF StopsReach, venueVars
  <2>1. CASE m = n
    BY <1>17, <2>1
  <2>2. CASE m # n
    BY <1>5, <1>14, <2>2 DEF StopsReach
  <2> QED
    BY <2>1, <2>2
<1>21. \A h \in {"oms", "cta"} : Chronicle(Line(h), venue)'
  BY <1>13, <1>16 DEF Agreement
<1> QED
  BY <1>1, <1>10, <1>11, <1>12, <1>15, <1>18, <1>19, <1>20, <1>21 DEF Agreement, cq

\* What is forgotten of a strategy that is removed is its own.
LEMMA RemoveAgrees ==
  ASSUME IInv, Agreement, NEW n \in Names, RemoveStrategy(n)
  PROVE  Agreement'
<1>1. /\ strategies[n] # None /\ alive
      /\ settings' = settings \ {n}
      /\ symbolStrategies' = RemoveFirst(symbolStrategies, strategies[n])
      /\ orderStrategy' = [o \in OrderIds |-> IF o \in strategyOrders[n] THEN None ELSE orderStrategy[o]]
      /\ strategyOrders' = [strategyOrders EXCEPT ![n] = {}]
      /\ strategies' = [strategies EXCEPT ![n] = None]
      /\ UNCHANGED <<inited, trading, pos, tradeids, stopVars, omsVars, venueVars, procVars, stack, bus>>
  BY DEF RemoveStrategy, RemoveStrategySetting, Idle
<1>2. /\ strategies \in [Names -> Instances \cup {None}]
      /\ strategyOrders \in [Names -> SUBSET (OrderIds \cup StopIds)]
  BY DEF IInv, Registered, BookTypes
<1>3. /\ strategies'[n] = None /\ strategyOrders'[n] = {}
      /\ \A m \in Names : m # n => strategies'[m] = strategies[m] /\ strategyOrders'[m] = strategyOrders[m]
  BY <1>1, <1>2
<1>4. venue' = venue /\ cancelReq' = cancelReq /\ unfound' = unfound /\ orderCount' = orderCount
      /\ gens' = gens /\ alive' = alive /\ restarts' = restarts
  BY <1>1 DEF venueVars, procVars
<1>5. \A h \in {"oms", "cta"} : Line(h)' = Line(h)
  BY <1>1 DEF Line
<1> DEFINE cq == Line("cta")
<1>6. cq' = cq /\ OmsAgrees(Line("oms")) /\ IdsAgree(cq) /\ PosAgrees(cq) /\ StopsReach
  BY <1>1, <1>5 DEF Agreement
<1>7. OmsAgrees(Line("oms"))'
  BY <1>1, <1>4, <1>5, <1>6, OmsAgreesStill DEF omsVars
<1> HIDE DEF cq
<1>8. /\ symbolStrategies' \in Seq(Instances) /\ IsInjective(symbolStrategies')
      /\ Range(symbolStrategies') \subseteq Range(symbolStrategies)
  <2>1. symbolStrategies \in Seq(Instances) /\ IsInjective(symbolStrategies)
    BY DEF Agreement, OtherTypes
  <2> QED
    BY <1>1, <2>1, RemoveDistinct
<1>9. OtherTypes'
  <2>1. IsFiniteSet(settings')
    BY <1>1, FS_RemoveElement DEF Agreement, OtherTypes
  <2>2. orderStrategy' \in [OrderIds -> Instances \cup {None}]
    BY <1>1 DEF Agreement, OtherTypes
  <2> QED
    BY <1>1, <1>8, <2>1, <2>2 DEF Agreement, OtherTypes, stopVars, omsVars, procVars
<1>10. SentOrders'
  <2>1. \A o \in OrderIds : orderStrategy'[o] \in {None, venue[o].by}
    BY <1>1 DEF Agreement, SentOrders
  <2>2. \A m \in Names : strategyOrders'[m] \cap OrderIds \subseteq 1 .. orderCount
    BY <1>3 DEF Agreement, SentOrders
  <2>3. Copies(stack, (1 .. orderCount) \cup StopIds)'
    BY <1>1, <1>4 DEF Agreement, SentOrders
  <2> QED
    BY <1>4, <2>1, <2>2, <2>3 DEF Agreement, SentOrders
<1>11. Lives'
  <2>1. \A m \in Names : strategies'[m] # None => strategies'[m][2] <= gens[m]
    BY <1>3 DEF Agreement, Lives
  <2>2. \A j \in Range(symbolStrategies') : j[2] <= gens[j[1]]
    BY <1>8 DEF Agreement, Lives
  <2>3. pos' = pos
    BY <1>1
  <2> QED
    BY <1>4, <2>1, <2>2, <2>3 DEF Agreement, Lives
<1>12. IdsAgree(cq)'
  <2> SUFFICES ASSUME NEW m \in Names, NEW o \in OrderIds
               PROVE  /\ venue[o].by # None /\ venue[o].by = strategies'[m] => orderStrategy'[o] = strategies'[m]
                      /\ o \in strategyOrders'[m] <=>
                           /\ venue[o].by # None /\ venue[o].by = strategies'[m]
                           /\ venue[o].st \in Active \/ \E g \in Range(cq) : IsOrder(g, o) /\ g.st \notin Active
    BY <1>4, <1>6 DEF IdsAgree
  <2>1. CASE m = n
    BY <1>3, <2>1
  <2>2. CASE m # n
    <3>1. /\ venue[o].by # None /\ venue[o].by = strategies[m] => orderStrategy[o] = strategies[m]
          /\ o \in strategyOrders[m] <=>
               /\ venue[o].by # None /\ venue[o].by = strategies[m]
               /\ venue[o].st \in Active \/ \E g \in Range(cq) : IsOrder(g, o) /\ g.st \notin Active
      BY <1>6 DEF IdsAgree
    <3>2. o \in strategyOrders[n] => venue[o].by = strategies[n]
      BY <1>6 DEF IdsAgree
    <3>3. strategies[m] # None => strategies[m] # strategies[n]
      BY <1>1, <2>2 DEF IInv, Registered
    <3> QED
      BY <1>1, <1>3, <2>2, <3>1, <3>2, <3>3
  <2> QED
    BY <2>1, <2>2
<1>13. PosAgrees(cq)'
  <2> PICK z : z = strategies'
    OBVIOUS
  <2>1. strategies' = z /\ tradeids' = tradeids /\ pos' = pos
    BY <1>1
  <2>2. \A m \in Names : \A d : Counted(strategies[m], d)' = Counted(z[m], d)
    BY <1>4, <2>1 DEF Counted
  <2>3. \A m \in Names : z[m] # None => z[m] = strategies[m]
    BY <1>3
  <2>4. ASSUME NEW m \in Names, z[m] # None
        PROVE  /\ pos[z[m]] = Cardinality(Counted(z[m], "LONG")) - Cardinality(Counted(z[m], "SHORT"))
               /\ \A o \in OrderIds, k \in 1 .. Volume :
                    venue[o].by = z[m] /\ k <= venue[o].traded =>
                      <<o, k>> \in tradeids \/ \E g \in Range(cq) : IsTrade(g, o, k)
    BY <1>6, <2>3, <2>4 DEF PosAgrees
  <2>5. \A t \in tradeids : t[2] <= venue[t[1]].traded
    BY <1>6 DEF PosAgrees
  <2> QED
    BY <1>4, <1>6, <2>1, <2>2, <2>4, <2>5 DEF PosAgrees
<1>14. StopsReach'
  <2> SUFFICES ASSUME NEW m \in Names, strategies'[m] \notin trading
               PROVE  strategyOrders'[m] \cap OrderIds \subseteq cancelReq \cup unfound \cup Pending(stack)
    BY <1>1, <1>4 DEF StopsReach
  <2> QED
    BY <1>3, <1>6 DEF StopsReach
<1>15. \A h \in {"oms", "cta"} : Chronicle(Line(h), venue)'
  BY <1>4, <1>5 DEF Agreement
<1> QED
  BY <1>1, <1>4, <1>7, <1>9, <1>10, <1>11, <1>12, <1>13, <1>14, <1>15 DEF Agreement, cq

\* A process that died has nothing of an engine to agree with.
LEMMA CrashAgrees ==
  ASSUME IInv, Agreement, Crash
  PROVE  Agreement'
<1>1. /\ ~alive' /\ stack' = <<>> /\ bus' = <<>>
      /\ UNCHANGED <<ctaVars, orderVars, stopVars, omsVars, venueVars, gens, restarts>>
  BY DEF Crash
<1>2. \A h \in {"oms", "cta"} : Chronicle(Line(h), venue)'
  <2>1. <<>> \o <<>> = <<>>
    <3>1. <<>> \in Seq(BusEvents)
      BY EmptySeq
    <3> QED
      BY <3>1, ConcatEmptySeq
  <2>2. \A h : Line(h)' = <<>>
    BY <1>1, <2>1, NoFrames DEF Line
  <2> QED
    BY <2>2, ChronicleNothing
<1>3. SentOrders'
  <2>1. Copies(stack, (1 .. orderCount) \cup StopIds)'
    BY <1>1, NoFrames
  <2> QED
    BY <1>1, <2>1 DEF Agreement, SentOrders, orderVars, venueVars
<1>4. Lives'
  BY <1>1 DEF Agreement, Lives, ctaVars, venueVars
<1>5. OtherTypes'
  BY <1>1 DEF Agreement, OtherTypes, ctaVars, orderVars, stopVars, omsVars
<1> QED
  BY <1>1, <1>2, <1>3, <1>4, <1>5 DEF Agreement

\* The open orders that the adapter reports: each one, once.
LEMMA OpenReports ==
  ASSUME IInv, SentOrders, Restart
  PROVE  /\ Chronicle(bus', venue)
         /\ \A o \in OpenOrders : \E e \in Range(bus') : IsOrder(e, o)
<1> DEFINE m == Cardinality(OpenOrders)
<1>1. IsFiniteSet(OpenOrders) /\ m \in Nat
  <2>1. IsFiniteSet(OrderIds)
    BY Bounds, FS_Interval DEF OrderIds
  <2>2. OpenOrders \in SUBSET OrderIds
    BY DEF OpenOrders
  <2> QED
    BY <2>1, <2>2, FS_Subset, FS_CardinalityType
<1>2. PICK q \in [1 .. m -> OpenOrders] :
        IsInjective(q) /\ bus' = [k \in DOMAIN q |-> OrderEvent(q[k], venue[q[k]].st)]
  BY DEF Restart
<1>3. bus' \in Seq(BusEvents)
  BY RestartInv DEF IInv
<1>4. IsFiniteSet(1 .. m) /\ Cardinality(1 .. m) = m
  <2>1. m \in Int /\ 1 \in Int /\ (IF 1 > m THEN 0 ELSE m - 1 + 1) = m
    BY <1>1
  <2> HIDE DEF m
  <2> QED
    BY <2>1, FS_Interval
<1>5. \A o \in OpenOrders : \E k \in 1 .. m : q[k] = o
  <2>1. q \in Injection(1 .. m, OpenOrders)
    BY <1>2 DEF Injection
  <2>2. q \in Surjection(1 .. m, OpenOrders)
    <3> DEFINE D == 1 .. m
    <3>1. q \in Injection(D, OpenOrders) /\ Cardinality(D) = Cardinality(OpenOrders)
      BY <1>4, <2>1
    <3> HIDE DEF D
    <3>2. q \in Surjection(D, OpenOrders)
      BY <1>1, <3>1, FS_Injection
    <3> QED
      BY <3>2 DEF D
  <2> QED
    BY <2>2 DEF Surjection
<1> HIDE DEF m
<1>6. DOMAIN q = 1 .. m /\ DOMAIN bus' = 1 .. m /\ 1 .. Len(bus') = 1 .. m
  <2>1. DOMAIN bus' = 1 .. Len(bus')
    BY <1>3, LenProperties
  <2> QED
    BY <1>2, <2>1
<1>7. ASSUME NEW k \in 1 .. m
      PROVE  /\ bus'[k].t = "order" /\ bus'[k].id = q[k] /\ bus'[k].st = venue[q[k]].st
             /\ q[k] \in OpenOrders
  <2>1. bus'[k] = OrderEvent(q[k], venue[q[k]].st)
    BY <1>2, <1>6
  <2> QED
    BY <1>2, <2>1 DEF OrderEvent
<1>8. \A o \in OpenOrders : venue[o].by # None /\ venue[o].st \in Active
  <2> SUFFICES ASSUME NEW o \in OpenOrders PROVE venue[o].by # None /\ venue[o].st \in Active
    OBVIOUS
  <2>1. o \in OrderIds /\ venue[o].st \in Active
    BY DEF OpenOrders
  <2>2. venue[o].st # None
    BY <2>1, NoneAssumption DEF Status
  <2> QED
    BY <2>1, <2>2 DEF SentOrders
<1>9. Chronicle(bus', venue)
  <2>1. ASSUME NEW k \in 1 .. Len(bus'), NEW l \in 1 .. Len(bus'), k < l, IsOrder(bus'[l], bus'[k].id)
        PROVE  FALSE
    <3>1. q[l] = q[k] /\ k \in DOMAIN q /\ l \in DOMAIN q
      BY <1>6, <1>7, <2>1 DEF IsOrder
    <3>2. k = l
      BY <1>2, <3>1 DEF IsInjective
    <3> QED
      BY <1>1, <1>6, <2>1, <3>2
  <2> QED
    BY <1>3, <1>6, <1>7, <1>8, <2>1 DEF Chronicle
<1>10. ASSUME NEW o \in OpenOrders PROVE \E e \in Range(bus') : IsOrder(e, o)
  <2>1. PICK k \in 1 .. m : q[k] = o
    BY <1>5
  <2>2. bus'[k] \in Range(bus')
    BY <1>6 DEF Range
  <2> QED
    BY <1>7, <2>1, <2>2 DEF IsOrder
<1> QED
  BY <1>9, <1>10

\* The objects are new, so nothing is theirs yet; the open orders are reported.
LEMMA RestartAgrees ==
  ASSUME IInv, Agreement, Restart
  PROVE  Agreement'
<1>1. /\ stack = <<>> /\ stack' = <<>> /\ alive' = TRUE /\ restarts' = restarts + 1
      /\ gens' = [n \in Names |-> IF n \in settings THEN gens[n] + 1 ELSE gens[n]]
      /\ strategies' = [n \in Names |-> IF n \in settings THEN Loaded(n) ELSE None]
      /\ symbolStrategies' = SetToSeq({Loaded(n) : n \in settings})
      /\ inited' = {} /\ trading' = {} /\ tradeids' = {}
      /\ orderStrategy' = [o \in OrderIds |-> None]
      /\ strategyOrders' = [n \in Names |-> {}]
      /\ stopOrders' = <<>>
      /\ oms' = [o \in OrderIds |-> None] /\ activeOrders' = {}
      /\ UNCHANGED <<pos, settings, venueVars>>
  BY DEF Restart, Agreement
<1>2. venue' = venue /\ cancelReq' = cancelReq /\ unfound' = unfound /\ orderCount' = orderCount /\ pos' = pos
  BY <1>1 DEF venueVars
<1>3. OtherTypes /\ SentOrders /\ Lives
  BY DEF Agreement
<1>4. /\ settings \subseteq Names /\ gens \in [Names -> 0 .. MaxGen] /\ MaxGen \in Nat
      /\ \A n \in settings : gens[n] < MaxGen
  BY CtaAssumption DEF IInv, Registered, Restart
<1>5. ASSUME NEW n \in settings
      PROVE  /\ n \in Names /\ Loaded(n) \in Instances /\ Loaded(n)[1] = n /\ Loaded(n)[2] = gens[n] + 1
             /\ Loaded(n)[2] > gens[n] /\ gens'[n] = gens[n] + 1 /\ gens[n] \in Nat
  <2>1. gens[n] \in Nat /\ gens[n] + 1 \in 1 .. MaxGen /\ n \in Names
    BY <1>4
  <2> QED
    BY <1>1, <2>1 DEF Loaded, Instances
<1>6. \A n \in Names : gens[n] \in Int /\ gens'[n] \in Int /\ gens[n] <= gens'[n]
  <2> SUFFICES ASSUME NEW n \in Names PROVE gens[n] \in Int /\ gens'[n] \in Int /\ gens[n] <= gens'[n]
    OBVIOUS
  <2>1. gens[n] \in Int
    BY <1>4
  <2> QED
    BY <1>1, <2>1
<1>7. \A j \in Instances : j[1] \in Names /\ j[2] \in Int
  BY DEF Instances
<1>8. ASSUME NEW n \in settings
      PROVE  pos[Loaded(n)] = 0 /\ \A o \in OrderIds : venue[o].by # Loaded(n)
  BY <1>5, Unborn
<1> DEFINE T == {Loaded(n) : n \in settings}
<1>9. /\ symbolStrategies' \in Seq(Instances) /\ IsInjective(symbolStrategies')
      /\ Range(symbolStrategies') \subseteq T
  <2>1. IsFiniteSet(T)
    <3> DEFINE f == [n \in settings |-> Loaded(n)]
    <3>1. f \in Surjection(settings, T)
      BY DEF Surjection
    <3>2. IsFiniteSet(settings)
      BY <1>3 DEF OtherTypes
    <3> HIDE DEF T, f
    <3> QED
      BY <3>1, <3>2, FS_Surjection
  <2>2. T \subseteq Instances
    BY <1>5
  <2>3. symbolStrategies' = SetToSeq(T)
    BY <1>1
  <2> HIDE DEF T
  <2>4. /\ symbolStrategies' \in Seq(T) /\ IsInjective(symbolStrategies')
        /\ Range(symbolStrategies') \subseteq T
    BY <2>1, <2>3, ListOfSet
  <2> QED
    BY <2>2, <2>4, SeqMonotonic
<1>10. OtherTypes'
  <2>1. DOMAIN stopOrders' = {}
    BY <1>1, EmptySeq
  <2>2. restarts' \in Nat
    BY <1>1, <1>3 DEF OtherTypes
  <2> QED
    BY <1>1, <1>3, <1>9, <2>1, <2>2 DEF OtherTypes
<1>11. SentOrders'
  <2>1. Copies(stack, (1 .. orderCount) \cup StopIds)'
    BY <1>1, NoFrames
  <2>2. \A o \in OrderIds : orderStrategy'[o] \in {None, venue[o].by}
    BY <1>1
  <2>3. \A n \in Names : strategyOrders'[n] \cap OrderIds \subseteq 1 .. orderCount
    BY <1>1
  <2> QED
    BY <1>2, <1>3, <2>1, <2>2, <2>3 DEF SentOrders
<1>12. Lives'
  <2>1. ASSUME NEW n \in Names, strategies'[n] # None PROVE strategies'[n][2] <= gens'[n]
    <3>1. n \in settings
      BY <1>1, <2>1
    <3>2. strategies'[n] = Loaded(n)
      BY <1>1, <3>1
    <3>3. Loaded(n)[2] = gens'[n] /\ gens'[n] \in Int
      BY <1>5, <1>6, <3>1
    <3>4. gens'[n] <= gens'[n]
      BY <3>3
    <3> QED
      BY <3>2, <3>3, <3>4
  <2>2. ASSUME NEW j \in Instances, j[2] > gens'[j[1]]
        PROVE  pos[j] = 0 /\ \A o \in OrderIds : venue[o].by # j
    <3>1. j[2] > gens[j[1]]
      BY <1>6, <1>7, <2>2
    <3> QED
      BY <1>3, <3>1 DEF Lives
  <2>3. \A j \in Range(symbolStrategies') : j[2] <= gens'[j[1]]
    BY <1>5, <1>6, <1>9
  <2> QED
    BY <1>2, <2>1, <2>2, <2>3 DEF Lives
<1>13. /\ Chronicle(bus', venue)
       /\ \A o \in OpenOrders : \E e \in Range(bus') : IsOrder(e, o)
  BY <1>3, OpenReports
<1>14. \A h : Line(h)' = bus'
  <2>1. <<>> \o bus' = bus'
    BY <1>13, ConcatEmptySeq DEF Chronicle
  <2> QED
    BY <1>1, <2>1, NoFrames DEF Line
<1>15. OmsAgrees(Line("oms"))'
  <2> SUFFICES ASSUME NEW o \in OrderIds, \A e \in Range(bus') : ~IsOrder(e, o)
               PROVE  /\ o \in activeOrders' <=> venue[o].st \in Active
                      /\ oms'[o] = venue[o].st \/ (restarts' > 0 /\ oms'[o] = None)
    BY <1>2, <1>14 DEF OmsAgrees
  <2>1. venue[o].st \notin Active
    BY <1>13 DEF OpenOrders
  <2>2. restarts' > 0
    BY <1>1, <1>3 DEF OtherTypes
  <2> QED
    BY <1>1, <2>1, <2>2
<1>16. \A n \in Names, o \in OrderIds : strategies'[n] # None => venue[o].by # strategies'[n]
  BY <1>1, <1>8
<1>17. IdsAgree(Line("cta"))'
  BY <1>1, <1>2, <1>16 DEF IdsAgree
<1>18. PosAgrees(Line("cta"))'
  <2>1. Cardinality({}) = 0
    BY FS_EmptySet
  <2>2. \A n \in Names : \A d : Counted(strategies[n], d)' = {}
    BY <1>1 DEF Counted
  <2>3. ASSUME NEW n \in Names, strategies'[n] # None
        PROVE  pos'[strategies'[n]] =
                 Cardinality(Counted(strategies[n], "LONG")') - Cardinality(Counted(strategies[n], "SHORT")')
    <3>1. Counted(strategies[n], "LONG")' = {} /\ Counted(strategies[n], "SHORT")' = {}
      BY <2>2
    <3>2. /\ Cardinality(Counted(strategies[n], "LONG")') = 0
          /\ Cardinality(Counted(strategies[n], "SHORT")') = 0
      BY <2>1, <3>1
    <3>3. pos'[strategies'[n]] = 0
      BY <1>1, <1>8, <2>3
    <3> QED
      BY <3>2, <3>3
  <2>4. \A n \in Names, o \in OrderIds : strategies'[n] # None => venue'[o].by # strategies'[n]
    BY <1>2, <1>16
  <2>5. tradeids' = {}
    BY <1>1
  <2> QED
    BY <2>3, <2>4, <2>5 DEF PosAgrees
<1>19. StopsReach'
  BY <1>1 DEF StopsReach
<1>20. \A h \in {"oms", "cta"} : Chronicle(Line(h), venue)'
  BY <1>2, <1>13, <1>14
<1> QED
  BY <1>1, <1>10, <1>11, <1>12, <1>15, <1>17, <1>18, <1>19, <1>20 DEF Agreement
-------------------------------------------------------------------------------
(* The invariant of the agreement.                                           *)

LEMMA InitAgrees == Init => Agreement
<1> SUFFICES ASSUME Init PROVE Agreement
  OBVIOUS
<1>1. /\ <<>> \in Seq(BusEvents) /\ Len(<<>>) = 0 /\ <<>> \in Seq(Instances) /\ <<>> \o <<>> = <<>>
      /\ DOMAIN <<>> = {}
  <2>1. <<>> \in Seq(BusEvents) /\ Len(<<>>) = 0 /\ <<>> \in Seq(Instances)
    BY EmptySeq
  <2> QED
    BY <2>1, ConcatEmptySeq
<1>2. \A h : Line(h) = <<>>
  BY <1>1, NoFrames DEF Init, Line
<1>3. Range(<<>>) = {}
  BY <1>1 DEF Range
<1>4. OtherTypes
  <2>1. IsInjective(<<>>)
    BY <1>1 DEF IsInjective
  <2>2. IsFiniteSet({})
    BY FS_EmptySet
  <2> QED
    BY <1>1, <2>1, <2>2 DEF Init, OtherTypes
<1>5. SentOrders
  <2>1. Copies(stack, (1 .. orderCount) \cup StopIds)
    BY NoFrames DEF Init
  <2>2. \A o \in OrderIds : o > 0 /\ 0 \in 0 .. Volume /\ None \notin Active
    BY CtaAssumption, NoneAssumption DEF OrderIds, Status
  <2> QED
    BY <2>1, <2>2 DEF Init, SentOrders
<1>6. Lives
  <2>1. \A i \in Instances : i # None
    BY NoneAssumption
  <2> QED
    BY <1>3, <2>1 DEF Init, Lives
<1>7. \A h \in {"oms", "cta"} : Chronicle(Line(h), venue)
  BY <1>2, ChronicleNothing
<1>8. OmsAgrees(Line("oms"))
  <2>1. None \notin Active
    BY NoneAssumption DEF Status
  <2> QED
    BY <2>1 DEF Init, OmsAgrees
<1>9. IdsAgree(Line("cta")) /\ PosAgrees(Line("cta")) /\ StopsReach
  BY DEF Init, IdsAgree, PosAgrees, StopsReach
<1> QED
  BY <1>4, <1>5, <1>6, <1>7, <1>8, <1>9 DEF Init, Agreement

LEMMA EngineAgrees == ASSUME IInv, Agreement, EngineStep PROVE Agreement'
<1>1. CASE Stopped
  BY <1>1, StoppedAgrees
<1>2. CASE Return
  BY <1>2, CallAgrees DEF Return
<1>3. CASE CancelNext
  BY <1>3, CancelNextAgrees
<1>4. CASE OnTick \/ WalkEnd \/ WalkOn \/ WalkDangling
  BY <1>4, TickAgrees
<1>5. CASE WalkTrigger
  BY <1>5, TriggerAgrees
<1>6. CASE OmsOrderEvent \/ OmsTradeEvent
  BY <1>6, OmsTakes
<1>7. CASE CtaOrderEvent
  BY <1>7, CtaOrderAgrees
<1>8. CASE CtaTradeEvent
  BY <1>8, CtaTradeAgrees
<1> QED
  BY <1>1, <1>2, <1>3, <1>4, <1>5, <1>6, <1>7, <1>8 DEF EngineStep

LEMMA StrategyAgrees == ASSUME IInv, Agreement, StrategyCalls PROVE Agreement'
<1>1. PICK i \in Instances :
        \/ \E d \in Directions : SendLimitOrder(i, d)
        \/ \E d \in Directions, p \in Prices : SendLocalStopOrder(i, d, p)
        \/ \E o \in OrderIds : CancelServer(i, o)
        \/ \E s \in StopIds : CancelStop(i, s)
        \/ CancelAll(i)
  BY DEF StrategyCalls
<1>2. CASE \E d \in Directions : SendLimitOrder(i, d)
  BY <1>2, SendLimitAgrees
<1>3. CASE \E o \in OrderIds : CancelServer(i, o)
  BY <1>3, CancelServerAgrees
<1>4. CASE \/ CancelAll(i)
           \/ \E d \in Directions, p \in Prices : SendLocalStopOrder(i, d, p)
           \/ \E s \in StopIds : CancelStop(i, s)
  <2>1. Top("callback")
    BY <1>4 DEF CancelAll, SendLocalStopOrder, CancelStop, MayCall
  <2> QED
    BY <1>4, <2>1, CallAgrees
<1> QED
  BY <1>1, <1>2, <1>3, <1>4

LEMMA LifecycleAgrees == ASSUME IInv, Agreement, Lifecycle PROVE Agreement'
BY AddAgrees, FlagAgrees, BeginAgrees, RemoveAgrees DEF Lifecycle

LEMMA NextAgrees == IInv /\ Agreement /\ [Next]_vars => Agreement'
<1> SUFFICES ASSUME IInv, Agreement, [Next]_vars PROVE Agreement'
  OBVIOUS
<1>1. CASE Lifecycle
  BY <1>1, LifecycleAgrees
<1>2. CASE StrategyCalls
  BY <1>2, StrategyAgrees
<1>3. CASE EngineStep
  BY <1>3, EngineAgrees
<1>4. CASE (\E p \in Prices : ProcessTick(p)) \/ Deliver
  BY <1>4, BeginAgrees
<1>5. CASE VenueStep
  BY <1>5, VenueAgrees
<1>6. CASE Crash \/ Restart
  BY <1>6, CrashAgrees, RestartAgrees
<1>7. CASE UNCHANGED vars
  <2>1. /\ UNCHANGED agreementVars /\ UNCHANGED <<trading, inited, cancelReq, unfound>>
        /\ strategyOrders' = strategyOrders /\ stopOrders' = stopOrders /\ stack' = stack /\ bus' = bus
    BY <1>7 DEF vars, agreementVars, ctaVars, orderVars, stopVars, omsVars, venueVars, procVars
  <2>2. SameLines
    BY <2>1 DEF SameLines, Line
  <2>3. OtherTypes'
    BY <2>1 DEF Agreement, OtherTypes, agreementVars
  <2>4. StopsReach => StopsReach'
    BY <2>1 DEF StopsReach, agreementVars
  <2>5. /\ cancelReq' \cup unfound' \subseteq 1 .. orderCount
        /\ Copies(stack', (1 .. orderCount) \cup StopIds)
    BY <2>1 DEF Agreement, SentOrders
  <2>6. (alive \/ (stack' = <<>> /\ bus' = <<>>)) /\ (alive => StopsReach')
    BY <2>1, <2>4 DEF Agreement
  <2> QED
    BY <2>1, <2>2, <2>3, <2>5, <2>6, LinesAgree
<1> QED
  BY <1>1, <1>2, <1>3, <1>4, <1>5, <1>6, <1>7 DEF Next

\* Every report on its way says what happened, and what the engines hold is what
\* the venue has but for those reports, in every state the program reaches.
THEOREM AgreementKept == Spec => [](IInv /\ Agreement)
<1>1. Init => IInv /\ Agreement
  BY InitInv, InitAgrees
<1>2. IInv /\ Agreement /\ [Next]_vars => (IInv /\ Agreement)'
  BY NextInv, NextAgrees
<1> QED
  BY <1>1, <1>2, PTL DEF Spec

LEMMA Typed == IInv /\ Agreement => TypeOK
<1> SUFFICES ASSUME IInv, Agreement PROVE TypeOK
  OBVIOUS
<1>1. OtherTypes /\ SentOrders
  BY DEF Agreement
<1>2. ASSUME NEW e \in Range(bus) PROVE e.id \in 1 .. orderCount
  <2> PICK w : w = Waiting(stack, "oms")
    OBVIOUS
  <2>1. Chronicle(w \o bus, venue) /\ bus \in Seq(BusEvents) /\ (w = <<>> \/ \E x : w = <<x>>)
    BY WaitingOne DEF Agreement, Line, IInv
  <2>2. PICK k \in 1 .. Len(bus) : bus[k] = e
    BY <2>1, LineRange
  <2>3. venue[e.id].by # None
    <3>1. CASE w = <<>>
      <4>1. w \o bus = bus
        BY <2>1, <3>1, ConcatEmptySeq
      <4> QED
        BY <2>1, <2>2, <4>1 DEF Chronicle
    <3>2. CASE \E x : w = <<x>>
      <4>1. PICK x : w = <<x>>
        BY <3>2
      <4>2. IsSequence(bus)
        BY <2>1, OwnRange
      <4>3. /\ Len(bus) \in Nat /\ Len(<<x>> \o bus) = Len(bus) + 1
            /\ \A l \in 1 .. Len(bus) : (<<x>> \o bus)[l + 1] = bus[l]
        BY <4>2, PushSequence
      <4>4. <<x>> \o bus = w \o bus
        BY <4>1
      <4>5. /\ Len(bus) \in Nat /\ Len(w \o bus) = Len(bus) + 1
            /\ (w \o bus)[k + 1] = bus[k]
        BY <2>2, <4>3, <4>4
      <4>6. k + 1 \in 1 .. Len(w \o bus)
        BY <4>5
      <4> QED
        BY <2>1, <2>2, <4>5, <4>6 DEF Chronicle
    <3> QED
      BY <2>1, <3>1, <3>2
  <2>4. e.id \in OrderIds /\ orderCount \in Nat
    <3>1. e \in BusEvents
      BY <2>1, <2>2, ElementOfSeq
    <3> QED
      BY <3>1, EventTypes, Bounds DEF IInv, BookTypes
  <2>5. ~(e.id > orderCount)
    BY <1>1, <2>3, <2>4 DEF SentOrders
  <2> QED
    BY <2>4, <2>5, Bounds DEF OrderIds
<1>3. Range(symbolStrategies) \subseteq Instances
  BY <1>1, RangeOfSeq DEF OtherTypes
<1>4. \A o \in OrderIds : venue[o].traded \in 0 .. Volume
  BY <1>1 DEF SentOrders
<1> QED
  BY <1>1, <1>2, <1>3, <1>4 DEF TypeOK, IInv, Registered, BookTypes, OtherTypes, SentOrders

\* When the bus is drained OmsEngine has the venue's orders, the ids of each strategy are
\* its active orders, and its position is what they traded: whatever order the engines are
\* given the events in, whatever is pushed twice, removed, added again or lost with the
\* process.
THEOREM VenueAgreementKept == Spec => []VenueAgreement
<1>1. IInv /\ Agreement => VenueAgreement
  <2> SUFFICES ASSUME IInv, Agreement PROVE VenueAgreement
    OBVIOUS
  <2>1. ASSUME Quiet
        PROVE  /\ alive
               /\ \A h : Line(h) = <<>>
    <3>1. stack = <<>> /\ bus = <<>> /\ alive
      BY <2>1 DEF Quiet, Idle
    <3>2. <<>> \o bus = <<>>
      BY <3>1, ConcatEmptySeq DEF IInv
    <3> QED
      BY <3>1, <3>2, NoFrames DEF Line
  <2>2. Range(<<>>) = {}
    <3>1. DOMAIN <<>> = {}
      BY EmptySeq
    <3> QED
      BY <3>1 DEF Range
  <2>3. OmsTracksVenue
    <3> SUFFICES ASSUME Quiet
                 PROVE  /\ activeOrders = OpenOrders
                        /\ \A o \in OrderIds : oms[o] = venue[o].st \/ (restarts > 0 /\ oms[o] = None)
      BY DEF OmsTracksVenue
    <3>1. OmsAgrees(<<>>)
      BY <2>1 DEF Agreement
    <3>2. \A o \in OrderIds :
            /\ o \in activeOrders <=> venue[o].st \in Active
            /\ oms[o] = venue[o].st \/ (restarts > 0 /\ oms[o] = None)
      BY <2>2, <3>1 DEF OmsAgrees
    <3>3. activeOrders \subseteq OrderIds
      BY DEF Agreement, OtherTypes
    <3> QED
      BY <3>2, <3>3 DEF OpenOrders
  <2>4. ActiveIdsTrackVenue
    <3> SUFFICES ASSUME Quiet, NEW n \in Names
                 PROVE  strategyOrders[n] \cap OrderIds = {o \in OpenOrders : venue[o].by = strategies[n]}
      BY DEF ActiveIdsTrackVenue
    <3>1. IdsAgree(<<>>)
      BY <2>1 DEF Agreement
    <3>2. ASSUME NEW o \in OrderIds
          PROVE  o \in strategyOrders[n] <=> venue[o].st \in Active /\ venue[o].by = strategies[n]
      <4>1. o \in strategyOrders[n] <=>
              venue[o].by # None /\ venue[o].by = strategies[n] /\ venue[o].st \in Active
        BY <2>2, <3>1 DEF IdsAgree
      <4>2. venue[o].st \in Active => venue[o].by # None
        <5>1. None \notin Active
          BY NoneAssumption DEF Status
        <5> QED
          BY <5>1 DEF Agreement, SentOrders
      <4> QED
        BY <4>1, <4>2
    <3> QED
      BY <3>2 DEF OpenOrders
  <2>5. PosTracksVenue
    <3> SUFFICES ASSUME Quiet, NEW n \in Names, strategies[n] # None
                 PROVE  pos[strategies[n]] = NetLots(strategies[n])
      BY DEF PosTracksVenue
    <3>1. PosAgrees(<<>>)
      BY <2>1 DEF Agreement
    <3>2. ASSUME NEW d PROVE Counted(strategies[n], d) = Lots(strategies[n], d)
      <4>1. ASSUME NEW t \in Counted(strategies[n], d) PROVE t \in Lots(strategies[n], d)
        BY <3>1 DEF Counted, Lots, PosAgrees, Agreement, OtherTypes
      <4>2. ASSUME NEW t \in Lots(strategies[n], d) PROVE t \in Counted(strategies[n], d)
        <5>1. /\ t[1] \in OrderIds /\ t[2] \in 1 .. Volume /\ t = <<t[1], t[2]>>
              /\ venue[t[1]].by = strategies[n] /\ venue[t[1]].dir = d /\ t[2] <= venue[t[1]].traded
          BY DEF Lots
        <5>2. <<t[1], t[2]>> \in tradeids
          BY <2>2, <3>1, <5>1 DEF PosAgrees
        <5> QED
          BY <5>1, <5>2 DEF Counted
      <4> QED
        BY <4>1, <4>2
    <3> QED
      BY <3>1, <3>2 DEF PosAgrees, NetLots
  <2> QED
    BY <2>3, <2>4, <2>5, Typed DEF VenueAgreement
<1> QED
  BY <1>1, AgreementKept, PTL

\* Between handlers no active id of a strategy that does not trade was forgotten by
\* stop_strategy: each was asked to be cancelled or logged as a failure.
THEOREM StopReaches == Spec => []StopReachesOrders
<1>1. Agreement => StopReachesOrders
  <2> SUFFICES ASSUME Agreement, Idle, NEW n \in Names, strategies[n] \notin trading
               PROVE  strategyOrders[n] \cap OrderIds \subseteq cancelReq \cup unfound
    BY DEF StopReachesOrders
  <2>1. stack = <<>> /\ alive
    BY DEF Idle
  <2>2. Pending(stack) = {}
    BY <2>1, NoFrames
  <2> QED
    BY <2>1, <2>2 DEF Agreement, StopsReach
<1> QED
  BY <1>1, AgreementKept, PTL
===============================================================================
