------------------------------- MODULE OmsProofs -------------------------------
(***************************************************************************)
(* The offset converter for any volumes, positions, orders, trades reported   *)
(* again and pushes: what it knows of a position is the sum of what it was    *)
(* told; what it makes of a request adds up; and what it makes of a request   *)
(* to close, the venue can close beside the orders it has.  First induction,  *)
(* which the loops of the converter need; then its operators; then the        *)
(* specification's types and what is proved of it.                            *)
(***************************************************************************)
EXTENDS Oms, SequenceTheorems, FiniteSetTheorems, WellFoundedInduction, TLAPS

-------------------------------------------------------------------------------
\* Induction on the numbers, with a set in the place of a predicate.
LEMMA InductionOnNat ==
  ASSUME NEW T \in SUBSET Nat, 0 \in T, \A n \in T : n + 1 \in T
  PROVE  T = Nat
<1> SUFFICES ASSUME Nat \ T # {} PROVE FALSE
  OBVIOUS
<1>1. PICK x \in Nat \ T : \A y \in Nat \ T : <<y, x>> \notin OpToRel(<, Nat)
  <2>1. Nat \ T \subseteq Nat
    OBVIOUS
  <2> QED
    BY <2>1, WFMin, NatLessThanWellFounded, Zenon
<1>2. \A y \in Nat \ T : ~(y < x)
  BY <1>1, Zenon DEF OpToRel
<1>3. x # 0 /\ x - 1 \in Nat /\ x - 1 < x /\ (x - 1) + 1 = x
  OBVIOUS
<1>4. x - 1 \in T
  BY <1>2, <1>3
<1> QED
  BY <1>3, <1>4

LEMMA InductionUpTo ==
  ASSUME NEW N \in Nat, NEW T, 0 \in T, \A n \in 1 .. N : n - 1 \in T => n \in T
  PROVE  \A n \in 0 .. N : n \in T
<1> DEFINE U == {m \in Nat : m <= N => m \in T}
<1>1. 0 \in U
  OBVIOUS
<1>2. ASSUME NEW m \in U PROVE m + 1 \in U
  <2>1. m + 1 <= N => m \in T /\ m + 1 \in 1 .. N /\ (m + 1) - 1 = m
    OBVIOUS
  <2> QED
    BY <2>1
<1>3. U = Nat
  <2> HIDE DEF U
  <2>1. U \in SUBSET Nat
    BY DEF U
  <2> QED
    BY <1>1, <1>2, <2>1, InductionOnNat
<1> QED
  BY <1>3

\* A loop of N rounds: from z, round n makes G[n][b] of b.
Rounds(f, B, z, N, G) == f \in [0 .. N -> B] /\ f[0] = z /\ \A n \in 1 .. N : f[n] = G[n][f[n - 1]]

LEMMA Loop ==
  ASSUME NEW B, NEW z \in B, NEW N \in Nat, NEW G, \A n \in 1 .. N, b \in B : G[n][b] \in B
  PROVE  \E f : Rounds(f, B, z, N, G)
<1> DEFINE D(f, m) == f[0] = z /\ \A n \in 1 .. m : f[n] = G[n][f[n - 1]]
           T == {m \in 0 .. N : \E f \in [0 .. m -> B] : D(f, m)}
<1>1. 0 \in T
  <2> DEFINE f == [n \in 0 .. 0 |-> z]
  <2>1. f \in [0 .. 0 -> B] /\ D(f, 0)
    OBVIOUS
  <2> HIDE DEF f, D
  <2>2. 0 \in 0 .. N
    OBVIOUS
  <2> QED
    BY <2>1, <2>2
<1>2. ASSUME NEW k \in 1 .. N, k - 1 \in T PROVE k \in T
  <2> DEFINE m == k - 1
  <2>1. m \in Nat /\ k = m + 1 /\ m \in 0 .. m /\ k \in 0 .. N
    OBVIOUS
  <2>2. PICK f \in [0 .. m -> B] : D(f, m)
    BY <1>2, Zenon
  <2> HIDE DEF m
  <2> DEFINE g == [n \in 0 .. k |-> IF n = k THEN G[k][f[m]] ELSE f[n]]
  <2>3. f[m] \in B /\ G[k][f[m]] \in B
    BY <2>1
  <2>4. g \in [0 .. k -> B] /\ g[k] = G[k][f[m]] /\ \A n \in 0 .. m : g[n] = f[n]
    BY <2>1, <2>3
  <2> HIDE DEF g
  <2>5. \A n \in 1 .. k : g[n] = G[n][g[n - 1]]
    <3>1. \A n \in 1 .. m : n - 1 \in 0 .. m /\ n \in 0 .. m
      BY <2>1
    <3>2. \A n \in 1 .. k : n \in 1 .. m \/ (n = k /\ n - 1 = m)
      BY <2>1
    <3> QED
      BY <2>1, <2>2, <2>4, <3>1, <3>2
  <2>6. g[0] = z
    BY <2>1, <2>2, <2>4
  <2>7. D(g, k)
    BY <2>5, <2>6
  <2> HIDE DEF D
  <2> QED
    BY <2>1, <2>4, <2>7
<1>3. N \in T
  <2> HIDE DEF T
  <2>1. \A n \in 0 .. N : n \in T
    BY <1>1, <1>2, InductionUpTo
  <2>2. N \in 0 .. N
    OBVIOUS
  <2> QED
    BY <2>1, <2>2, Zenon
<1> QED
  BY <1>3 DEF Rounds

-------------------------------------------------------------------------------
(* Holdings.                                                                 *)

Balance == [td : Int, yd : Int]
Traders == Offsets \ {"NONE"}
OrderType == [id : Nat, direction : Sides, offset : Traders, volume : Int, traded : Int]

LEMMA Shapes ==
  /\ \A v \in Volumes :
       v = [pos |-> v.pos, yd |-> v.yd, td |-> v.td, pos_frozen |-> v.pos_frozen, yd_frozen |-> v.yd_frozen,
            td_frozen |-> v.td_frozen]
  /\ \A a \in Balance : a = [td |-> a.td, yd |-> a.yd]
BY DEF Volumes, Balance

LEMMA Targets ==
  \A direction \in Sides, offset \in Traders : Target(direction, offset) \in Sides /\ Opposite(direction) \in Sides
BY DEF Target, Opposite, Sides

LEMMA SetBoth ==
  ASSUME NEW z, NEW w
  PROVE  /\ \A v \in Volumes :
              [v EXCEPT !.td = z, !.yd = w] =
                [pos |-> v.pos, yd |-> w, td |-> z, pos_frozen |-> v.pos_frozen, yd_frozen |-> v.yd_frozen,
                 td_frozen |-> v.td_frozen]
         /\ \A a \in Balance : [a EXCEPT !.td = z, !.yd = w] = [td |-> z, yd |-> w]
<1>1. ASSUME NEW v \in Volumes
      PROVE  [v EXCEPT !.td = z, !.yd = w] =
               [pos |-> v.pos, yd |-> w, td |-> z, pos_frozen |-> v.pos_frozen, yd_frozen |-> v.yd_frozen,
                td_frozen |-> v.td_frozen]
  <2> DEFINE x == [v EXCEPT !.td = z]
             y == [pos |-> v.pos, yd |-> v.yd, td |-> z, pos_frozen |-> v.pos_frozen, yd_frozen |-> v.yd_frozen,
                   td_frozen |-> v.td_frozen]
  <2>1. x = y
    BY Shapes
  <2>2. [v EXCEPT !.td = z, !.yd = w] = [x EXCEPT !.yd = w]
    BY Zenon
  <2>3. [y EXCEPT !.yd = w] =
          [pos |-> v.pos, yd |-> w, td |-> z, pos_frozen |-> v.pos_frozen, yd_frozen |-> v.yd_frozen,
           td_frozen |-> v.td_frozen]
    OBVIOUS
  <2> HIDE DEF x, y
  <2> QED
    BY <2>1, <2>2, <2>3, Zenon
<1>2. ASSUME NEW a \in Balance
      PROVE  [a EXCEPT !.td = z, !.yd = w] = [td |-> z, yd |-> w]
  <2> DEFINE x == [a EXCEPT !.td = z]
             y == [td |-> z, yd |-> a.yd]
  <2>1. x = y
    BY Shapes
  <2>2. [a EXCEPT !.td = z, !.yd = w] = [x EXCEPT !.yd = w]
    BY Zenon
  <2>3. [y EXCEPT !.yd = w] = [td |-> z, yd |-> w]
    OBVIOUS
  <2> HIDE DEF x, y
  <2> QED
    BY <2>1, <2>2, <2>3, Zenon
<1> QED
  BY <1>1, <1>2, Zenon

\* A trade moves a balance and a holding alike.
LEMMA TradedTypes ==
  ASSUME NEW v \in Volumes, NEW a \in Balance, a.td = v.td, a.yd = v.yd,
         NEW offset \in Traders, NEW sh \in BOOLEAN, NEW volume \in Int
  PROVE  /\ Traded(v, offset, sh, volume) \in Volumes
         /\ Traded(a, offset, sh, volume) \in Balance
         /\ Traded(a, offset, sh, volume).td = Traded(v, offset, sh, volume).td
         /\ Traded(a, offset, sh, volume).yd = Traded(v, offset, sh, volume).yd
<1>1. /\ v = [pos |-> v.pos, yd |-> v.yd, td |-> v.td, pos_frozen |-> v.pos_frozen, yd_frozen |-> v.yd_frozen,
              td_frozen |-> v.td_frozen]
      /\ a = [td |-> a.td, yd |-> a.yd]
      /\ v.pos \in Int /\ v.yd \in Int /\ v.td \in Int /\ v.pos_frozen \in Int /\ v.yd_frozen \in Int
      /\ v.td_frozen \in Int /\ a.td \in Int /\ a.yd \in Int
  BY Shapes DEF Volumes, Balance
<1>2. /\ v.td + volume \in Int /\ v.td - volume \in Int /\ v.yd - volume \in Int /\ v.yd + v.td - volume \in Int
  BY <1>1
<1> DEFINE Same(x, y) == x \in Volumes /\ y \in Balance /\ y.td = x.td /\ y.yd = x.yd
<1>3. Same([v EXCEPT !.td = @ + volume], [a EXCEPT !.td = @ + volume])
  <2>1. /\ [v EXCEPT !.td = @ + volume] =
            [pos |-> v.pos, yd |-> v.yd, td |-> v.td + volume, pos_frozen |-> v.pos_frozen,
             yd_frozen |-> v.yd_frozen, td_frozen |-> v.td_frozen]
        /\ [a EXCEPT !.td = @ + volume] = [td |-> v.td + volume, yd |-> v.yd]
    BY <1>1
  <2> QED
    BY <1>1, <1>2, <2>1 DEF Volumes, Balance
<1>4. Same([v EXCEPT !.td = @ - volume], [a EXCEPT !.td = @ - volume])
  <2>1. /\ [v EXCEPT !.td = @ - volume] =
            [pos |-> v.pos, yd |-> v.yd, td |-> v.td - volume, pos_frozen |-> v.pos_frozen,
             yd_frozen |-> v.yd_frozen, td_frozen |-> v.td_frozen]
        /\ [a EXCEPT !.td = @ - volume] = [td |-> v.td - volume, yd |-> v.yd]
    BY <1>1
  <2> QED
    BY <1>1, <1>2, <2>1 DEF Volumes, Balance
<1>5. Same([v EXCEPT !.yd = @ - volume], [a EXCEPT !.yd = @ - volume])
  <2>1. /\ [v EXCEPT !.yd = @ - volume] =
            [pos |-> v.pos, yd |-> v.yd - volume, td |-> v.td, pos_frozen |-> v.pos_frozen,
             yd_frozen |-> v.yd_frozen, td_frozen |-> v.td_frozen]
        /\ [a EXCEPT !.yd = @ - volume] = [td |-> v.td, yd |-> v.yd - volume]
    BY <1>1
  <2> QED
    BY <1>1, <1>2, <2>1 DEF Volumes, Balance
<1>6. Same([v EXCEPT !.td = 0, !.yd = @ + v.td - volume], [a EXCEPT !.td = 0, !.yd = @ + a.td - volume])
  <2>1. \A z, w :
          /\ [v EXCEPT !.td = z, !.yd = w] =
               [pos |-> v.pos, yd |-> w, td |-> z, pos_frozen |-> v.pos_frozen, yd_frozen |-> v.yd_frozen,
                td_frozen |-> v.td_frozen]
          /\ [a EXCEPT !.td = z, !.yd = w] = [td |-> z, yd |-> w]
    <3> SUFFICES ASSUME NEW z, NEW w
                 PROVE  /\ [v EXCEPT !.td = z, !.yd = w] =
                             [pos |-> v.pos, yd |-> w, td |-> z, pos_frozen |-> v.pos_frozen,
                              yd_frozen |-> v.yd_frozen, td_frozen |-> v.td_frozen]
                        /\ [a EXCEPT !.td = z, !.yd = w] = [td |-> z, yd |-> w]
      OBVIOUS
    <3>1. v \in Volumes /\ a \in Balance
      OBVIOUS
    <3> QED
      BY <3>1, SetBoth
  <2>4. \A z, w \in Int : Same([v EXCEPT !.td = z, !.yd = w], [a EXCEPT !.td = z, !.yd = w])
    <3> SUFFICES ASSUME NEW z \in Int, NEW w \in Int
                 PROVE  Same([v EXCEPT !.td = z, !.yd = w], [a EXCEPT !.td = z, !.yd = w])
      OBVIOUS
    <3> DEFINE x == [pos |-> v.pos, yd |-> w, td |-> z, pos_frozen |-> v.pos_frozen, yd_frozen |-> v.yd_frozen,
                     td_frozen |-> v.td_frozen]
               y == [td |-> z, yd |-> w]
    <3>1. Same(x, y)
      BY <1>1 DEF Volumes, Balance
    <3> HIDE DEF Same
    <3> QED
      BY <2>1, <3>1, Zenon
  <2>2. 0 \in Int /\ v.yd + v.td - volume \in Int
    BY <1>2
  <2>3. a.yd + a.td - volume = v.yd + v.td - volume
    OBVIOUS
  <2> HIDE DEF Same
  <2> QED
    BY <2>2, <2>3, <2>4, Zenon
<1>7. Same(v, a)
  BY <1>1
<1> HIDE DEF Same
<1>8. Same(Traded(v, offset, sh, volume), Traded(a, offset, sh, volume))
  BY <1>3, <1>4, <1>5, <1>6, <1>7, Zenon DEF Traded, Spent
<1> QED
  BY <1>8 DEF Same

\* The frozen volumes are capped by the volumes, which stay as they are.
LEMMA Summed ==
  ASSUME NEW h \in [Sides -> Volumes]
  PROVE  /\ SumPosFrozen(h) \in [Sides -> Volumes]
         /\ \A s \in Sides : /\ SumPosFrozen(h)[s].td = h[s].td /\ SumPosFrozen(h)[s].yd = h[s].yd
                             /\ SumPosFrozen(h)[s].pos = h[s].pos
                             /\ SumPosFrozen(h)[s].td_frozen = Less(h[s].td_frozen, h[s].td)
                             /\ SumPosFrozen(h)[s].yd_frozen = Less(h[s].yd_frozen, h[s].yd)
                             /\ SumPosFrozen(h)[s].pos_frozen =
                                  Less(h[s].td_frozen, h[s].td) + Less(h[s].yd_frozen, h[s].yd)
<1> SUFFICES ASSUME NEW s \in Sides
             PROVE  /\ SumPosFrozen(h)[s] \in Volumes
                    /\ SumPosFrozen(h)[s].td = h[s].td /\ SumPosFrozen(h)[s].yd = h[s].yd
                    /\ SumPosFrozen(h)[s].pos = h[s].pos
                    /\ SumPosFrozen(h)[s].td_frozen = Less(h[s].td_frozen, h[s].td)
                    /\ SumPosFrozen(h)[s].yd_frozen = Less(h[s].yd_frozen, h[s].yd)
                    /\ SumPosFrozen(h)[s].pos_frozen = Less(h[s].td_frozen, h[s].td) + Less(h[s].yd_frozen, h[s].yd)
  BY DEF SumPosFrozen
<1> DEFINE v == h[s]
           td == Less(v.td_frozen, v.td)
           yd == Less(v.yd_frozen, v.yd)
<1>1. /\ v = [pos |-> v.pos, yd |-> v.yd, td |-> v.td, pos_frozen |-> v.pos_frozen, yd_frozen |-> v.yd_frozen,
              td_frozen |-> v.td_frozen]
      /\ v.pos \in Int /\ v.yd \in Int /\ v.td \in Int /\ v.pos_frozen \in Int /\ v.yd_frozen \in Int
      /\ v.td_frozen \in Int
  BY Shapes DEF Volumes
<1>2. td \in Int /\ yd \in Int /\ td + yd \in Int
  BY <1>1 DEF Less
<1>3. SumPosFrozen(h)[s] = [v EXCEPT !.td_frozen = td, !.yd_frozen = yd, !.pos_frozen = td + yd]
  BY DEF SumPosFrozen
<1> HIDE DEF v, td, yd
<1>4. SumPosFrozen(h)[s] = [pos |-> v.pos, yd |-> v.yd, td |-> v.td, pos_frozen |-> td + yd, yd_frozen |-> yd,
                            td_frozen |-> td]
  BY <1>1, <1>3
<1>5. /\ SumPosFrozen(h)[s] \in Volumes /\ SumPosFrozen(h)[s].td = v.td /\ SumPosFrozen(h)[s].yd = v.yd
      /\ SumPosFrozen(h)[s].pos = v.pos /\ SumPosFrozen(h)[s].td_frozen = td /\ SumPosFrozen(h)[s].yd_frozen = yd
      /\ SumPosFrozen(h)[s].pos_frozen = td + yd
  BY <1>1, <1>2, <1>4 DEF Volumes
<1> QED
  BY <1>5 DEF v, td, yd

\* What a trade makes of the volumes of a side.
Taken(v, e, s, sh) == IF s = Target(e.direction, e.offset) THEN Traded(v, e.offset, sh, e.volume) ELSE v

LEMMA UpdateTradeTypes ==
  ASSUME NEW h \in [Sides -> Volumes], NEW sh \in BOOLEAN, NEW e,
         e.direction \in Sides, e.offset \in Traders, e.volume \in Int
  PROVE  /\ UpdateTrade(h, e, sh) \in [Sides -> Volumes]
         /\ \A s \in Sides : /\ UpdateTrade(h, e, sh)[s].td = Taken(h[s], e, s, sh).td
                             /\ UpdateTrade(h, e, sh)[s].yd = Taken(h[s], e, s, sh).yd
                             /\ UpdateTrade(h, e, sh)[s].pos =
                                  UpdateTrade(h, e, sh)[s].td + UpdateTrade(h, e, sh)[s].yd
<1> DEFINE side == Target(e.direction, e.offset)
           moved == [h EXCEPT ![side] = Traded(h[side], e.offset, sh, e.volume)]
           g == [s \in Sides |-> [moved[s] EXCEPT !.pos = moved[s].td + moved[s].yd]]
<1>1. side \in Sides
  BY Targets
<1>2. Traded(h[side], e.offset, sh, e.volume) \in Volumes
  <2>1. h[side] \in Volumes
    BY <1>1
  <2>2. [td |-> h[side].td, yd |-> h[side].yd] \in Balance
    BY <2>1 DEF Volumes, Balance
  <2> HIDE DEF side
  <2> QED
    BY <2>1, <2>2, TradedTypes
<1> HIDE DEF side
<1>3. moved \in [Sides -> Volumes]
  BY <1>1, <1>2
<1>4. \A s \in Sides : moved[s] = IF s = side THEN Traded(h[s], e.offset, sh, e.volume) ELSE h[s]
  BY <1>1
<1> HIDE DEF moved
<1>5. \A s \in Sides : /\ g[s] \in Volumes /\ g[s].td = moved[s].td /\ g[s].yd = moved[s].yd
                       /\ g[s].pos = g[s].td + g[s].yd
  <2> SUFFICES ASSUME NEW s \in Sides
               PROVE  /\ g[s] \in Volumes /\ g[s].td = moved[s].td /\ g[s].yd = moved[s].yd
                      /\ g[s].pos = g[s].td + g[s].yd
    OBVIOUS
  <2> DEFINE v == moved[s]
  <2>1. /\ v = [pos |-> v.pos, yd |-> v.yd, td |-> v.td, pos_frozen |-> v.pos_frozen, yd_frozen |-> v.yd_frozen,
                td_frozen |-> v.td_frozen]
        /\ v.pos \in Int /\ v.yd \in Int /\ v.td \in Int /\ v.pos_frozen \in Int /\ v.yd_frozen \in Int
        /\ v.td_frozen \in Int
    BY <1>3, Shapes DEF Volumes
  <2>2. g[s] = [v EXCEPT !.pos = v.td + v.yd] /\ v.td + v.yd \in Int
    BY <2>1
  <2> HIDE DEF v
  <2>3. g[s] = [pos |-> v.td + v.yd, yd |-> v.yd, td |-> v.td, pos_frozen |-> v.pos_frozen,
                yd_frozen |-> v.yd_frozen, td_frozen |-> v.td_frozen]
    BY <2>1, <2>2
  <2>4. g[s] \in Volumes /\ g[s].td = v.td /\ g[s].yd = v.yd /\ g[s].pos = v.td + v.yd
    BY <2>1, <2>2, <2>3 DEF Volumes
  <2> QED
    BY <2>4 DEF v
<1>6. g \in [Sides -> Volumes] /\ UpdateTrade(h, e, sh) = SumPosFrozen(g)
  <2>1. UpdateTrade(h, e, sh) = SumPosFrozen(g)
    BY DEF UpdateTrade, moved, side
  <2> QED
    BY <1>5, <2>1
<1> HIDE DEF g
<1> QED
  BY <1>4, <1>5, <1>6, Summed DEF side, Taken
-------------------------------------------------------------------------------
(* The loop of calculate_frozen.                                             *)

LEMMA FreezeTypes ==
  ASSUME NEW h \in [Sides -> Volumes], NEW f \in [Sides -> Balance], NEW o \in OrderType
  PROVE  Freeze(h, f, o) \in [Sides -> Balance]
<1> DEFINE s == Opposite(o.direction)
           left == o.volume - o.traded
           td == f[s].td + left
<1>1. s \in Sides /\ left \in Int
  BY Targets DEF OrderType
<1>2. h[s] \in Volumes /\ f[s] \in Balance
  BY <1>1
<1>3. h[s].td \in Int /\ f[s].td \in Int /\ f[s].yd \in Int
  BY <1>2 DEF Volumes, Balance
<1>4. td \in Int /\ f[s].yd + left \in Int /\ f[s].yd + td - h[s].td \in Int
  BY <1>1, <1>3
<1>5. \A z \in Balance : [f EXCEPT ![s] = z] \in [Sides -> Balance]
  BY <1>1
<1>6. \A n \in Int : [f[s] EXCEPT !.td = n] \in Balance /\ [f[s] EXCEPT !.yd = n] \in Balance
  BY <1>2 DEF Balance
<1>7. /\ [f EXCEPT ![s].td = td] = [f EXCEPT ![s] = [f[s] EXCEPT !.td = td]]
      /\ [f EXCEPT ![s].yd = @ + left] = [f EXCEPT ![s] = [f[s] EXCEPT !.yd = f[s].yd + left]]
  OBVIOUS
<1>8. [f EXCEPT ![s] = [td |-> h[s].td, yd |-> @.yd + td - h[s].td]]
        = [f EXCEPT ![s] = [td |-> h[s].td, yd |-> f[s].yd + td - h[s].td]]
  OBVIOUS
<1>9. [td |-> h[s].td, yd |-> f[s].yd + td - h[s].td] \in Balance
  BY <1>3, <1>4 DEF Balance
<1>10. /\ [f EXCEPT ![s].td = td] \in [Sides -> Balance]
       /\ [f EXCEPT ![s].yd = @ + left] \in [Sides -> Balance]
       /\ [f EXCEPT ![s] = [td |-> h[s].td, yd |-> @.yd + td - h[s].td]] \in [Sides -> Balance]
  BY <1>4, <1>5, <1>6, <1>7, <1>8, <1>9, Zenon
<1> QED
  BY <1>10, Zenon DEF Freeze

LEMMA FrozenRounds ==
  ASSUME NEW h \in [Sides -> Volumes], NEW q \in Seq(OrderType)
  PROVE  \E f \in [0 .. Len(q) -> [Sides -> Balance]] :
           /\ f[0] = Thawed /\ Frozen(h, q) = f[Len(q)]
           /\ \A n \in 1 .. Len(q) : f[n] = Freeze(h, f[n - 1], q[n])
<1> DEFINE N == Len(q)
           B == [Sides -> Balance]
           D(f) == f = [n \in 0 .. N |-> IF n = 0 THEN Thawed ELSE Freeze(h, f[n - 1], q[n])]
           G == [n \in 1 .. N |-> [f \in B |-> Freeze(h, f, q[n])]]
<1>1. N \in Nat /\ \A n \in 1 .. N : q[n] \in OrderType
  OBVIOUS
<1>2. Thawed \in B
  BY DEF Thawed, Balance
<1>3. \A f \in B, n \in 1 .. N : Freeze(h, f, q[n]) \in B
  BY <1>1, FreezeTypes
<1> HIDE DEF B
<1>4. \A f \in B, n \in 1 .. N : G[n][f] = Freeze(h, f, q[n])
  OBVIOUS
<1> HIDE DEF N, G
<1>5. PICK f : Rounds(f, B, Thawed, N, G)
  <2>1. \A n \in 1 .. N, b \in B : G[n][b] \in B
    BY <1>3, <1>4
  <2> QED
    BY <1>1, <1>2, <2>1, Loop, Zenon
<1>6. D(f)
  <2>1. f \in [0 .. N -> B] /\ f[0] = Thawed /\ \A n \in 1 .. N : f[n] = G[n][f[n - 1]]
    BY <1>5 DEF Rounds
  <2>3. \A n \in 0 .. N : n # 0 => n \in 1 .. N /\ f[n - 1] \in B
    BY <1>1, <2>1
  <2>2. \A n \in 0 .. N : f[n] = IF n = 0 THEN Thawed ELSE Freeze(h, f[n - 1], q[n])
    BY <1>4, <2>1, <2>3, Zenon
  <2> QED
    BY <2>1, <2>2
<1> DEFINE c == CHOOSE x : D(x)
<1>7. D(c)
  BY <1>6
<1>8. Frozen(h, q) = c[N]
  BY DEF Frozen, N
<1> HIDE DEF c
<1>9. c[0] \in B
  BY <1>1, <1>2, <1>7
<1>10. \A n \in 1 .. N : c[n] = Freeze(h, c[n - 1], q[n])
  <2> SUFFICES ASSUME NEW n \in 1 .. N PROVE c[n] = Freeze(h, c[n - 1], q[n])
    OBVIOUS
  <2>1. n \in 0 .. N /\ n # 0
    BY <1>1
  <2> QED
    BY <1>7, <2>1, Zenon
<1>11. \A n \in 0 .. N : c[n] \in B
  <2> DEFINE T == {n \in 0 .. N : c[n] \in B}
  <2>1. 0 \in T /\ \A n \in 1 .. N : n - 1 \in T => n \in T
    BY <1>1, <1>3, <1>9, <1>10
  <2> HIDE DEF T
  <2>2. \A n \in 0 .. N : n \in T
    BY <1>1, <2>1, InductionUpTo
  <2> QED
    BY <2>2 DEF T
<1>12. c \in [0 .. N -> B] /\ c[0] = Thawed
  <2>1. c = [n \in 0 .. N |-> c[n]]
    BY <1>7
  <2>2. c[0] = Thawed
    BY <1>1, <1>7
  <2> QED
    BY <1>11, <2>1, <2>2
<1> QED
  BY <1>8, <1>10, <1>12 DEF B, N

LEMMA FrozenTypes ==
  ASSUME NEW h \in [Sides -> Volumes], NEW q \in Seq(OrderType)
  PROVE  Frozen(h, q) \in [Sides -> Balance]
<1>1. PICK f \in [0 .. Len(q) -> [Sides -> Balance]] : Frozen(h, q) = f[Len(q)]
  BY FrozenRounds
<1> QED
  BY <1>1

\* calculate_frozen finds new frozen volumes and leaves the others alone, whatever
\* the order of the loop.
LEMMA CalculateFrozenTypes ==
  ASSUME NEW h \in [Sides -> Volumes], NEW os \in SUBSET OrderType, IsFiniteSet(os),
         NEW g \in CalculateFrozen(h, os)
  PROVE  /\ g \in [Sides -> Volumes]
         /\ \A s \in Sides : g[s].td = h[s].td /\ g[s].yd = h[s].yd /\ g[s].pos = h[s].pos
         /\ \E q \in SetToSeqs(os) : \A s \in Sides :
              /\ g[s].td_frozen = Less(Frozen(h, q)[s].td, h[s].td)
              /\ g[s].yd_frozen = Less(Frozen(h, q)[s].yd, h[s].yd)
              /\ g[s].pos_frozen = g[s].td_frozen + g[s].yd_frozen
<1>1. PICK q \in SetToSeqs(os) :
        g = LET f == Frozen(h, q)
            IN SumPosFrozen([s \in Sides |-> [h[s] EXCEPT !.td_frozen = f[s].td, !.yd_frozen = f[s].yd]])
  BY Zenon DEF CalculateFrozen
<1>2. q \in Seq(OrderType)
  <2>1. Cardinality(os) \in Nat
    BY FS_CardinalityType
  <2>2. q \in [1 .. Cardinality(os) -> os]
    BY DEF SetToSeqs
  <2> QED
    BY <2>1, <2>2
<1> DEFINE f == Frozen(h, q)
           k == [s \in Sides |-> [h[s] EXCEPT !.td_frozen = f[s].td, !.yd_frozen = f[s].yd]]
<1>3. f \in [Sides -> Balance]
  BY <1>2, FrozenTypes
<1>4. g = SumPosFrozen(k)
  BY <1>1
<1> HIDE DEF f
<1>5. ASSUME NEW s \in Sides
      PROVE  /\ k[s] \in Volumes /\ k[s].td = h[s].td /\ k[s].yd = h[s].yd /\ k[s].pos = h[s].pos
             /\ k[s].td_frozen = f[s].td /\ k[s].yd_frozen = f[s].yd
  <2> DEFINE v == h[s]
             td == f[s].td
             yd == f[s].yd
  <2>1. v = [pos |-> v.pos, yd |-> v.yd, td |-> v.td, pos_frozen |-> v.pos_frozen, yd_frozen |-> v.yd_frozen,
             td_frozen |-> v.td_frozen]
    BY Shapes
  <2>2. /\ v.pos \in Int /\ v.yd \in Int /\ v.td \in Int /\ v.pos_frozen \in Int
        /\ td \in Int /\ yd \in Int
    BY <1>3 DEF Volumes, Balance
  <2>3. k[s] = [v EXCEPT !.td_frozen = td, !.yd_frozen = yd]
    OBVIOUS
  <2> HIDE DEF v, td, yd
  <2>4. k[s] = [pos |-> v.pos, yd |-> v.yd, td |-> v.td, pos_frozen |-> v.pos_frozen, yd_frozen |-> yd,
                td_frozen |-> td]
    BY <2>1, <2>3
  <2>5. k[s] \in Volumes
    BY <2>2, <2>4 DEF Volumes
  <2>6. /\ k[s].td = v.td /\ k[s].yd = v.yd /\ k[s].pos = v.pos
        /\ k[s].td_frozen = td /\ k[s].yd_frozen = yd
    BY <2>4
  <2> QED
    BY <2>5, <2>6 DEF v, td, yd
<1>6. k \in [Sides -> Volumes]
  BY <1>5
<1> HIDE DEF k
<1>7. \A s \in Sides : /\ g[s].td_frozen = Less(Frozen(h, q)[s].td, h[s].td)
                       /\ g[s].yd_frozen = Less(Frozen(h, q)[s].yd, h[s].yd)
                       /\ g[s].pos_frozen = g[s].td_frozen + g[s].yd_frozen
  BY <1>4, <1>5, <1>6, Summed DEF f
<1> QED
  BY <1>4, <1>5, <1>6, <1>7, Summed
-------------------------------------------------------------------------------
(* Requests.                                                                 *)

RequestType == [direction : Sides, offset : Traders, volume : Int]

LEMMA PartTypes ==
  ASSUME NEW req \in RequestType, NEW offset \in Traders, NEW volume \in Int
  PROVE  /\ Part(req, offset, volume) \in RequestType
         /\ Part(req, offset, volume).volume = volume
<1>1. /\ req = [direction |-> req.direction, offset |-> req.offset, volume |-> req.volume]
      /\ req.direction \in Sides
  BY DEF RequestType
<1> DEFINE x == [req EXCEPT !.offset = offset]
           y == [direction |-> req.direction, offset |-> offset, volume |-> req.volume]
           z == [direction |-> req.direction, offset |-> offset, volume |-> volume]
<1>2. x = y
  BY <1>1
<1>3. Part(req, offset, volume) = [x EXCEPT !.volume = volume]
  BY Zenon DEF Part
<1>4. [y EXCEPT !.volume = volume] = z
  OBVIOUS
<1>5. z \in RequestType /\ z.volume = volume
  BY <1>1 DEF RequestType
<1> HIDE DEF x, y, z
<1> QED
  BY <1>2, <1>3, <1>4, <1>5, Zenon

\* A volume that is cut is no larger in size, keeps its sign and lacks less than a lot.
LEMMA CutBounds ==
  ASSUME NEW v \in Int
  PROVE  /\ Cut(v) \in Int
         /\ v >= 0 => 0 <= Cut(v) /\ Cut(v) <= v /\ v < Cut(v) + Whole
<1>1. Whole \in Nat /\ Whole > 0
  BY HoldingAssumption
<1>2. /\ v % Whole \in 0 .. Whole - 1 /\ (-v) % Whole \in 0 .. Whole - 1
      /\ v >= 0 => v % Whole <= v
  BY <1>1
<1> QED
  BY <1>1, <1>2 DEF Cut

LEMMA AtHand ==
  ASSUME NEW v \in Volumes
  PROVE  /\ Available(v).pos \in Int /\ Available(v).td \in Int /\ Available(v).yd \in Int
         /\ v.td \in Int /\ v.pos \in Int
BY DEF Volumes, Available

\* Whole lots; what adds or cuts lots has lots.
Lots == {x \in Int : x % Whole = 0}

LEMMA LotsAre == Lots = {x \in Int : \E k \in Int : x = Whole * k}
<1>1. Whole \in Nat /\ Whole > 0
  BY HoldingAssumption
<1>2. ASSUME NEW x \in Int, x % Whole = 0 PROVE \E k \in Int : x = Whole * k
  <2>1. x = Whole * (x \div Whole) + (x % Whole) /\ x \div Whole \in Int
    BY <1>1
  <2>2. x = Whole * (x \div Whole)
    BY <1>1, <1>2, <2>1
  <2> QED
    BY <2>1, <2>2
<1>3. ASSUME NEW x \in Int, NEW k \in Int, x = Whole * k PROVE x % Whole = 0
  <2> DEFINE d == x \div Whole
             r == x % Whole
  <2>1. x = Whole * d + r /\ d \in Int /\ r \in Int /\ 0 <= r /\ r < Whole
    BY <1>1
  <2> HIDE DEF d, r
  <2>2. r = Whole * (k - d)
    BY <1>1, <1>3, <2>1
  <2>3. CASE k - d >= 1
    <3>1. Whole * (k - d) >= Whole
      BY <1>1, <2>1, <2>3
    <3> QED
      BY <1>1, <2>1, <2>2, <3>1
  <2>4. CASE k - d <= -1
    <3>1. Whole * (k - d) <= -Whole
      BY <1>1, <2>1, <2>4
    <3> QED
      BY <1>1, <2>1, <2>2, <3>1
  <2>5. CASE k - d = 0
    <3>1. Whole * (k - d) = 0
      BY <1>1, <2>5
    <3>2. r = 0
      BY <2>2, <3>1
    <3> QED
      BY <3>2 DEF r
  <2> QED
    BY <2>1, <2>3, <2>4, <2>5
<1> QED
  BY <1>2, <1>3 DEF Lots

LEMMA LotsClosed ==
  /\ 0 \in Lots
  /\ \A x, y \in Lots : x + y \in Lots /\ x - y \in Lots
<1>1. Whole \in Nat /\ Whole > 0
  BY HoldingAssumption
<1>2. 0 \in Lots
  <2>1. 0 = Whole * 0
    BY <1>1
  <2> QED
    BY <2>1, LotsAre
<1>3. ASSUME NEW x \in Lots, NEW y \in Lots PROVE x + y \in Lots /\ x - y \in Lots
  <2>1. PICK j \in Int : x = Whole * j
    BY LotsAre
  <2>2. PICK k \in Int : y = Whole * k
    BY LotsAre
  <2>3. x + y = Whole * (j + k) /\ x - y = Whole * (j - k) /\ j + k \in Int /\ j - k \in Int
    BY <1>1, <2>1, <2>2
  <2>4. x + y \in Int /\ x - y \in Int
    BY DEF Lots
  <2> QED
    BY <2>3, <2>4, LotsAre
<1> QED
  BY <1>2, <1>3

\* What is cut is whole, and what is whole is not cut.
LEMMA CutLots ==
  ASSUME NEW v \in Int
  PROVE  Cut(v) \in Lots /\ (v \in Lots => Cut(v) = v)
<1>1. Whole \in Nat /\ Whole > 0
  BY HoldingAssumption
<1>2. \A x \in Int : x - (x % Whole) \in Lots
  <2> SUFFICES ASSUME NEW x \in Int PROVE x - (x % Whole) \in Lots
    OBVIOUS
  <2>1. x = Whole * (x \div Whole) + (x % Whole) /\ x \div Whole \in Int /\ x % Whole \in Int
    BY <1>1
  <2>2. x - (x % Whole) = Whole * (x \div Whole) /\ x - (x % Whole) \in Int
    BY <1>1, <2>1
  <2> QED
    BY <2>1, <2>2, LotsAre
<1>3. -v \in Int /\ v % Whole \in Int /\ (-v) % Whole \in Int
  BY <1>1
<1>4. Cut(v) \in Lots
  <2>1. CASE v >= 0
    BY <1>2, <2>1 DEF Cut
  <2>2. CASE ~(v >= 0)
    <3> DEFINE z == (-v) - ((-v) % Whole)
    <3>1. z \in Lots
      BY <1>2, <1>3
    <3> HIDE DEF z
    <3>2. z \in Int /\ 0 - z \in Lots
      BY <3>1, LotsClosed DEF Lots
    <3>3. Cut(v) = -z
      BY <2>2 DEF Cut, z
    <3> QED
      BY <3>2, <3>3
  <2> QED
    BY <2>1, <2>2
<1>5. ASSUME v \in Lots PROVE Cut(v) = v
  <2>1. CASE v >= 0
    BY <1>5, <2>1 DEF Cut, Lots
  <2>2. CASE ~(v >= 0)
    <3>1. 0 - v \in Lots /\ -v = 0 - v
      BY <1>5, LotsClosed
    <3>2. (-v) % Whole = 0
      BY <3>1 DEF Lots
    <3>3. Cut(v) = -((-v) - 0)
      BY <2>2, <3>2 DEF Cut
    <3> QED
      BY <3>3
  <2> QED
    BY <2>1, <2>2
<1> QED
  BY <1>4, <1>5

\* The offsets of the requests for the two kinds of exchange.
Uses(sh) == IF sh THEN {"OPEN", "CLOSETODAY", "CLOSEYESTERDAY"} ELSE {"OPEN", "CLOSE"}

\* What is converted is split into parts R of the request: of volumes V that are cut
\* or subtracted, by offsets that the exchange uses.
LEMMA ConvertParts ==
  ASSUME NEW h \in [Sides -> Volumes], NEW req \in RequestType, NEW sh \in BOOLEAN,
         NEW lock, NEW net,
         NEW V \in SUBSET Int, req.volume \in V, 0 \in V, \A a, b \in V : a - b \in V, \A a \in Int : Cut(a) \in V,
         NEW R, ~sh \/ req.offset = "OPEN" => req \in R,
         \A offset \in Uses(sh), volume \in V : Part(req, offset, volume) \in R
  PROVE  Convert(h, req, sh, lock, net) \in Seq(R)
<1> DEFINE v == h[Opposite(req.direction)]
           at == Available(v)
           n == req.volume
           P(offset, volume) == <<Part(req, offset, volume)>>
<1>1. n \in V /\ n \in Int /\ v \in Volumes
  BY Targets DEF RequestType
<1>2. at.pos \in Int /\ at.td \in Int /\ at.yd \in Int
  BY <1>1, AtHand
<1> HIDE DEF v, n
<1>3. /\ "OPEN" \in Uses(sh)
      /\ sh => "CLOSETODAY" \in Uses(sh) /\ "CLOSEYESTERDAY" \in Uses(sh)
      /\ ~sh => "CLOSE" \in Uses(sh)
  BY DEF Uses
<1>4. \A offset \in Uses(sh), volume \in V : P(offset, volume) \in Seq(R)
  <2>1. \A r \in R : <<r>> \in Seq(R)
    OBVIOUS
  <2> QED
    BY <2>1
<1>5. /\ ~sh \/ req.offset = "OPEN" => <<req>> \in Seq(R)
      /\ <<>> \in Seq(R)
      /\ \A a, b \in Seq(R) : a \o b \in Seq(R)
  OBVIOUS
<1>6. /\ \A a, b \in Int : a - b \in Int /\ Cut(Less(a, b)) \in V
      /\ \A a \in Int : Cut(a) \in V
      /\ \A a, b \in V : a - b \in V
      /\ \A a \in V : a \in Int
  <2>1. \A a, b \in Int : a - b \in Int /\ Less(a, b) \in Int
    BY DEF Less
  <2> QED
    BY <2>1
<1> HIDE DEF at, P
<1>7. ASSUME sh PROVE ConvertShfe(h, req) \in Seq(R)
  <2> DEFINE td == Cut(at.td)
  <2>1. td \in V /\ n - td \in V
    BY <1>1, <1>2, <1>6
  <2>2. ConvertShfe(h, req) =
          IF req.offset = "OPEN" THEN <<req>>
          ELSE IF n > Cut(at.pos) THEN <<>>
          ELSE IF n <= td THEN P("CLOSETODAY", n)
          ELSE (IF td > 0 THEN P("CLOSETODAY", td) ELSE <<>>) \o P("CLOSEYESTERDAY", n - td)
    BY Zenon DEF ConvertShfe, at, v, n, P
  <2> HIDE DEF td
  <2>3. P("CLOSETODAY", n) \in Seq(R) /\ P("CLOSETODAY", td) \in Seq(R) /\ P("CLOSEYESTERDAY", n - td) \in Seq(R)
    BY <1>1, <1>3, <1>4, <1>7, <2>1
  <2> QED
    BY <1>5, <2>2, <2>3, Zenon
<1>8. ConvertLock(h, req, sh) \in Seq(R)
  <2> DEFINE open == Cut(IF n > at.yd THEN n - at.yd ELSE 0)
             yd == Cut(Less(n, at.yd))
             offset == IF sh THEN "CLOSEYESTERDAY" ELSE "CLOSE"
  <2>1. open \in V /\ yd \in V /\ offset \in Uses(sh)
    <3>1. (IF n > at.yd THEN n - at.yd ELSE 0) \in Int
      BY <1>1, <1>2
    <3> QED
      BY <1>1, <1>2, <1>3, <1>6, <3>1
  <2>2. ConvertLock(h, req, sh) =
          IF v.td # 0 /\ ~sh THEN P("OPEN", n)
          ELSE (IF at.yd > 0 THEN P(offset, yd) ELSE <<>>) \o (IF open > 0 THEN P("OPEN", open) ELSE <<>>)
    BY Zenon DEF ConvertLock, at, v, n, P
  <2> HIDE DEF open, yd, offset
  <2>3. P("OPEN", n) \in Seq(R) /\ P(offset, yd) \in Seq(R) /\ P("OPEN", open) \in Seq(R)
    BY <1>1, <1>3, <1>4, <2>1
  <2> QED
    BY <1>5, <2>2, <2>3, Zenon
<1>9. ConvertNet(h, req, sh) \in Seq(R)
  <2> DEFINE td == IF sh /\ at.td > 0 THEN Cut(Less(at.td, n)) ELSE 0
             yd == IF sh /\ at.yd > 0 /\ n > td THEN Cut(Less(at.yd, n - td)) ELSE 0
             pos == IF ~sh /\ at.pos > 0 THEN Cut(Less(at.pos, n)) ELSE 0
             left == n - td - yd - pos
             a == IF sh /\ at.td > 0 THEN P("CLOSETODAY", td) ELSE <<>>
             b == IF sh /\ at.yd > 0 /\ n > td THEN P("CLOSEYESTERDAY", yd) ELSE <<>>
             c == IF ~sh /\ at.pos > 0 THEN P("CLOSE", pos) ELSE <<>>
             d == IF left > 0 THEN P("OPEN", left) ELSE <<>>
  <2>1. ConvertNet(h, req, sh) = a \o b \o c \o d
    BY Zenon DEF ConvertNet, at, v, n, P
  <2>2. td \in V /\ n - td \in Int
    BY <1>1, <1>2, <1>6
  <2>3. a \in Seq(R)
    BY <1>3, <1>4, <1>5, <2>2, Zenon
  <2> HIDE DEF td, a
  <2>4. yd \in V
    BY <1>2, <1>6, <2>2, Zenon
  <2>5. b \in Seq(R)
    BY <1>3, <1>4, <1>5, <2>4, Zenon
  <2> HIDE DEF yd, b
  <2>6. pos \in V
    BY <1>1, <1>2, <1>6, Zenon
  <2>7. c \in Seq(R)
    BY <1>3, <1>4, <1>5, <2>6, Zenon
  <2> HIDE DEF pos, c
  <2>8. left \in V
    BY <1>1, <1>6, <2>2, <2>4, <2>6
  <2> HIDE DEF left
  <2>9. d \in Seq(R)
    BY <1>3, <1>4, <1>5, <2>8, Zenon
  <2> HIDE DEF d
  <2> QED
    BY <1>5, <2>1, <2>3, <2>5, <2>7, <2>9
<1> QED
  BY <1>5, <1>7, <1>8, <1>9, Zenon DEF Convert

LEMMA ConvertTypes ==
  ASSUME NEW h \in [Sides -> Volumes], NEW req \in RequestType, NEW sh \in BOOLEAN,
         NEW lock, NEW net
  PROVE  Convert(h, req, sh, lock, net) \in Seq(RequestType)
<1>1. /\ Int \in SUBSET Int /\ req.volume \in Int /\ 0 \in Int /\ \A a, b \in Int : a - b \in Int
      /\ \A a \in Int : Cut(a) \in Int
  BY CutBounds DEF RequestType
<1>2. \A offset \in Uses(sh), volume \in Int : Part(req, offset, volume) \in RequestType
  BY PartTypes DEF Uses, Traders, Offsets
<1> QED
  BY <1>1, <1>2, ConvertParts

\* What a request to open or close becomes at an exchange of either kind.
Fit(direction, sh) ==
  {r \in RequestType : r.direction = direction /\ r.offset \in Uses(sh) /\ (sh => r.volume \in Lots)}

LEMMA ConvertFits ==
  ASSUME NEW h \in [Sides -> Volumes], NEW req \in RequestType, NEW sh \in BOOLEAN, NEW lock, NEW net,
         req.offset \in {"OPEN", "CLOSE"}, sh => req.volume \in Lots
  PROVE  Convert(h, req, sh, lock, net) \in Seq(Fit(req.direction, sh))
<1> DEFINE V == IF sh THEN Lots ELSE Int
           R == Fit(req.direction, sh)
<1>1. V \in SUBSET Int /\ req.volume \in V
  BY DEF Lots, RequestType
<1>2. 0 \in V /\ (\A a, b \in V : a - b \in V) /\ (\A a \in Int : Cut(a) \in V)
  BY LotsClosed, CutLots, CutBounds
<1>3. ASSUME NEW offset \in Uses(sh), NEW volume \in V PROVE Part(req, offset, volume) \in R
  <2> DEFINE r == Part(req, offset, volume)
  <2>1. offset \in Traders /\ volume \in Int
    BY <1>1 DEF Uses, Traders, Offsets
  <2>2. r \in RequestType /\ r.volume = volume
    BY <2>1, PartTypes
  <2>3. r.direction = req.direction /\ r.offset = offset
    BY DEF Part, RequestType
  <2> HIDE DEF r
  <2> QED
    BY <2>2, <2>3 DEF Fit, r
<1> HIDE DEF V
<1>4. Convert(h, req, sh, lock, net) \in Seq(R)
  <2> HIDE DEF R
  <2>1. ~sh \/ req.offset = "OPEN" => req \in R
    BY DEF R, Fit, Uses
  <2> QED
    BY <1>1, <1>2, <1>3, <2>1, ConvertParts
<1> QED
  BY <1>4

-------------------------------------------------------------------------------
(* Totals, and the volume of requests.                                       *)

\* The order in which numbers are added does not matter.
LEMMA SumsOfThree ==
  ASSUME NEW i \in Int, NEW j \in Int, NEW k \in Int
  PROVE  /\ (i + j) + k = i + (j + k)
         /\ (i + j) + k = (i + k) + j
         /\ (i + j) + (k - j) = i + k
OBVIOUS

\* A sequence of numbers is summed up, one after the other.
LEMMA TotalRounds ==
  ASSUME NEW q \in Seq(Int)
  PROVE  \E f \in [0 .. Len(q) -> Int] : /\ f[0] = 0 /\ Total(q) = f[Len(q)]
                                         /\ \A n \in 1 .. Len(q) : f[n] = f[n - 1] + q[n]
<1> DEFINE N == Len(q)
           D(f) == f = [n \in 0 .. N |-> IF n = 0 THEN 0 ELSE f[n - 1] + q[n]]
           G == [n \in 1 .. N |-> [b \in Int |-> b + q[n]]]
<1>1. N \in Nat /\ \A n \in 1 .. N : q[n] \in Int
  OBVIOUS
<1>2. \A n \in 1 .. N, b \in Int : G[n][b] = b + q[n]
  OBVIOUS
<1> HIDE DEF N, G
<1>3. PICK f : Rounds(f, Int, 0, N, G)
  <2>1. 0 \in Int /\ \A n \in 1 .. N, b \in Int : b + q[n] \in Int
    BY <1>1
  <2>2. \A n \in 1 .. N, b \in Int : G[n][b] \in Int
    BY <1>2, <2>1, Zenon
  <2> QED
    BY <1>1, <2>1, <2>2, Loop, Zenon
<1>4. /\ f \in [0 .. N -> Int] /\ f[0] = 0
      /\ \A n \in 1 .. N : f[n] = f[n - 1] + q[n]
  <2>1. f \in [0 .. N -> Int] /\ f[0] = 0 /\ \A n \in 1 .. N : f[n] = G[n][f[n - 1]]
    BY <1>3 DEF Rounds
  <2>2. ASSUME NEW n \in 1 .. N PROVE f[n] = f[n - 1] + q[n]
    <3>1. n - 1 \in 0 .. N
      BY <1>1
    <3>2. f[n - 1] \in Int /\ f[n] = G[n][f[n - 1]]
      BY <2>1, <3>1, Zenon
    <3> QED
      BY <1>2, <3>2, Zenon
  <2> QED
    BY <2>1, <2>2
<1>5. D(f)
  <2>1. \A n \in 0 .. N : f[n] = IF n = 0 THEN 0 ELSE f[n - 1] + q[n]
    <3>1. \A n \in 0 .. N : n # 0 => n \in 1 .. N
      BY <1>1
    <3> QED
      BY <1>4, <3>1, Zenon
  <2> QED
    BY <1>4, <2>1
<1> DEFINE c == CHOOSE x : D(x)
<1>6. D(c)
  BY <1>5
<1>7. Total(q) = c[N]
  BY DEF Total, N
<1> HIDE DEF c
<1>8. c[0] = 0
  BY <1>1, <1>6
<1>9. ASSUME NEW n \in 1 .. N, c[n - 1] = f[n - 1] PROVE c[n] = f[n]
  <2>1. n \in 0 .. N /\ n # 0
    BY <1>1
  <2>2. c[n] = c[n - 1] + q[n]
    BY <1>6, <2>1, Zenon
  <2> QED
    BY <1>4, <1>9, <2>2, Zenon
<1>10. c[N] = f[N]
  <2> DEFINE T == {n \in 0 .. N : c[n] = f[n]}
  <2>1. 0 \in T /\ \A n \in 1 .. N : n - 1 \in T => n \in T
    BY <1>1, <1>4, <1>8, <1>9
  <2> HIDE DEF T
  <2>2. \A n \in 0 .. N : n \in T
    BY <1>1, <2>1, InductionUpTo
  <2> QED
    BY <1>1, <2>2 DEF T
<1> QED
  BY <1>4, <1>7, <1>10, Zenon DEF N

LEMMA TotalParts ==
  /\ Total(<<>>) = 0
  /\ \A r \in Int : Total(<<r>>) = r
  /\ \A a, b \in Seq(Int) : Total(a) \in Int /\ Total(a \o b) = Total(a) + Total(b)
<1>1. Total(<<>>) = 0
  <2>1. <<>> \in Seq(Int) /\ Len(<<>>) = 0
    OBVIOUS
  <2>2. PICK f : f[0] = 0 /\ Total(<<>>) = f[Len(<<>>)]
    BY <2>1, TotalRounds, Zenon
  <2> QED
    BY <2>1, <2>2, Zenon
<1>2. ASSUME NEW r \in Int PROVE Total(<<r>>) = r
  <2> DEFINE q == <<r>>
  <2>1. q \in Seq(Int) /\ Len(q) = 1 /\ q[1] = r /\ 1 \in 1 .. Len(q)
    OBVIOUS
  <2> HIDE DEF q
  <2>2. PICK f \in [0 .. Len(q) -> Int] :
          /\ f[0] = 0 /\ Total(q) = f[Len(q)]
          /\ \A n \in 1 .. Len(q) : f[n] = f[n - 1] + q[n]
    BY <2>1, TotalRounds, Zenon
  <2>3. f[1] = f[1 - 1] + q[1]
    BY <2>1, <2>2, Zenon
  <2>4. Total(q) = r
    BY <2>1, <2>2, <2>3
  <2> QED
    BY <2>4 DEF q
<1>3. ASSUME NEW a \in Seq(Int), NEW b \in Seq(Int)
      PROVE  Total(a) \in Int /\ Total(a \o b) = Total(a) + Total(b)
  <2> DEFINE M == Len(a)
             N == Len(b)
             q == a \o b
  <2>1. /\ M \in Nat /\ N \in Nat /\ q \in Seq(Int) /\ Len(q) = M + N
        /\ \A n \in 1 .. M : q[n] = a[n]
        /\ \A n \in 1 .. N : q[M + n] = b[n]
    OBVIOUS
  <2> HIDE DEF q
  <2>2. PICK f \in [0 .. M -> Int] :
          f[0] = 0 /\ Total(a) = f[M] /\ \A n \in 1 .. M : f[n] = f[n - 1] + a[n]
    BY TotalRounds, Zenon
  <2>3. PICK g \in [0 .. N -> Int] :
          g[0] = 0 /\ Total(b) = g[N] /\ \A n \in 1 .. N : g[n] = g[n - 1] + b[n]
    BY TotalRounds, Zenon
  <2>4. PICK h \in [0 .. Len(q) -> Int] :
          h[0] = 0 /\ Total(q) = h[Len(q)] /\ \A n \in 1 .. Len(q) : h[n] = h[n - 1] + q[n]
    BY <2>1, TotalRounds, Zenon
  <2>5. f[M] \in Int
    <3>1. M \in 0 .. M
      BY <2>1
    <3> HIDE DEF M
    <3> QED
      BY <2>2, <3>1
  <2>6. h[M] = f[M]
    <3> DEFINE T == {n \in 0 .. M : h[n] = f[n]}
    <3>1. 0 \in T
      BY <2>1, <2>2, <2>4
    <3>2. ASSUME NEW n \in 1 .. M, n - 1 \in T PROVE n \in T
      <4>1. n \in 1 .. Len(q) /\ q[n] = a[n] /\ n \in 0 .. M
        BY <2>1
      <4>2. h[n] = h[n - 1] + q[n] /\ f[n] = f[n - 1] + a[n]
        BY <2>2, <2>4, <4>1, Zenon
      <4> QED
        BY <3>2, <4>1, <4>2
    <3> HIDE DEF T
    <3>3. \A n \in 0 .. M : n \in T
      BY <2>1, <3>1, <3>2, InductionUpTo
    <3> QED
      BY <2>1, <3>3 DEF T
  <2>7. h[M + N] = f[M] + g[N]
    <3> DEFINE T == {n \in 0 .. N : h[M + n] = f[M] + g[n]}
    <3>1. 0 \in T
      <4>1. 0 \in 0 .. N /\ M + 0 = M /\ f[M] + 0 = f[M] /\ g[0] = 0
        BY <2>1, <2>3, <2>5
      <4> QED
        BY <2>6, <4>1, Zenon
    <3>2. ASSUME NEW n \in 1 .. N, n - 1 \in T PROVE n \in T
      <4>1. M + n \in 1 .. Len(q) /\ q[M + n] = b[n] /\ n \in 0 .. N /\ (M + n) - 1 = M + (n - 1) /\ n - 1 \in 0 .. N
        BY <2>1
      <4>2. h[M + n] = h[(M + n) - 1] + b[n] /\ g[n] = g[n - 1] + b[n]
        BY <2>3, <2>4, <4>1, Zenon
      <4>3. h[M + (n - 1)] = f[M] + g[n - 1]
        BY <3>2
      <4>4. f[M] \in Int /\ g[n - 1] \in Int /\ b[n] \in Int
        <5>1. b[n] \in Int
          OBVIOUS
        <5> QED
          BY <2>3, <2>5, <4>1, <5>1
      <4> DEFINE i == f[M]
                 j == g[n - 1]
                 k == b[n]
                 x == h[M + n]
                 y == g[n]
      <4>5. x = (i + j) + k
        BY <4>1, <4>2, <4>3
      <4>6. y = j + k
        BY <4>2
      <4>t. i \in Int /\ j \in Int /\ k \in Int
        BY <4>4
      <4> HIDE DEF i, j, k, x, y
      <4>7. x = i + y
        BY <4>t, <4>5, <4>6
      <4> QED
        BY <4>1, <4>7 DEF x, y, i
    <3> HIDE DEF T
    <3>3. \A n \in 0 .. N : n \in T
      BY <2>1, <3>1, <3>2, InductionUpTo
    <3>4. N \in T
      BY <2>1, <3>3
    <3> QED
      BY <3>4 DEF T
  <2>8. Total(q) = Total(a) + Total(b)
    BY <2>1, <2>2, <2>3, <2>4, <2>7, Zenon
  <2> QED
    BY <2>2, <2>5, <2>8 DEF q
<1> QED
  BY <1>1, <1>2, <1>3

LEMMA SameConcat ==
  ASSUME NEW S, NEW u \in Seq(S), NEW v \in Seq(S), NEW w \in Seq(S), Len(w) = Len(u) + Len(v),
         \A k \in 1 .. Len(u) : w[k] = u[k], \A k \in 1 .. Len(v) : w[Len(u) + k] = v[k]
  PROVE  w = u \o v
<1>1. /\ u \o v \in Seq(S) /\ Len(u \o v) = Len(u) + Len(v) /\ Len(u) \in Nat /\ Len(v) \in Nat
      /\ \A k \in 1 .. Len(u) : (u \o v)[k] = u[k]
      /\ \A k \in 1 .. Len(v) : (u \o v)[Len(u) + k] = v[k]
  OBVIOUS
<1>2. ASSUME NEW k \in 1 .. Len(w) PROVE w[k] = (u \o v)[k]
  <2>1. CASE k \in 1 .. Len(u)
    BY <1>1, <2>1
  <2>2. CASE k \notin 1 .. Len(u)
    <3>1. k - Len(u) \in 1 .. Len(v) /\ Len(u) + (k - Len(u)) = k
      BY <1>1, <2>2
    <3> QED
      BY <1>1, <3>1
  <2> QED
    BY <2>1, <2>2
<1> QED
  BY <1>1, <1>2

\* The volume of requests is the sum of theirs.
LEMMA VolumeParts ==
  ASSUME NEW offsets
  PROVE  /\ Volume(<<>>, offsets) = 0
         /\ \A r \in RequestType : Volume(<<r>>, offsets) = IF r.offset \in offsets THEN r.volume ELSE 0
         /\ \A a, b \in Seq(RequestType) :
              Volume(a, offsets) \in Int /\ Volume(a \o b, offsets) = Volume(a, offsets) + Volume(b, offsets)
<1> DEFINE W(q) == [k \in DOMAIN q |-> IF q[k].offset \in offsets THEN q[k].volume ELSE 0]
<1>1. \A q : Volume(q, offsets) = Total(W(q))
  BY DEF Volume
<1>2. W(<<>>) = <<>>
  OBVIOUS
<1>3. ASSUME NEW r \in RequestType
      PROVE  W(<<r>>) = <<IF r.offset \in offsets THEN r.volume ELSE 0>>
  OBVIOUS
<1>4. ASSUME NEW q \in Seq(RequestType) PROVE W(q) \in Seq(Int) /\ Len(W(q)) = Len(q)
  <2>1. \A k \in 1 .. Len(q) : q[k] \in RequestType
    OBVIOUS
  <2>2. \A k \in 1 .. Len(q) : q[k].volume \in Int
    BY <2>1 DEF RequestType
  <2> QED
    BY <2>2
<1>5. ASSUME NEW a \in Seq(RequestType), NEW b \in Seq(RequestType) PROVE W(a \o b) = W(a) \o W(b)
  <2> DEFINE u == W(a)
             v == W(b)
             w == W(a \o b)
  <2>1. /\ a \o b \in Seq(RequestType) /\ Len(a \o b) = Len(a) + Len(b)
        /\ Len(a) \in Nat /\ Len(b) \in Nat
        /\ \A k \in 1 .. Len(a) : (a \o b)[k] = a[k]
        /\ \A k \in 1 .. Len(b) : (a \o b)[Len(a) + k] = b[k]
    OBVIOUS
  <2>2. /\ u \in Seq(Int) /\ v \in Seq(Int) /\ w \in Seq(Int)
        /\ Len(u) = Len(a) /\ Len(v) = Len(b) /\ Len(w) = Len(u) + Len(v)
    BY <1>4, <2>1
  <2>3. /\ \A k \in 1 .. Len(a) : w[k] = u[k]
        /\ \A k \in 1 .. Len(b) : w[Len(a) + k] = v[k]
    BY <2>1
  <2> HIDE DEF u, v, w
  <2>4. w = u \o v
    <3>1. (\A k \in 1 .. Len(u) : w[k] = u[k]) /\ (\A k \in 1 .. Len(v) : w[Len(u) + k] = v[k])
      BY <2>2, <2>3
    <3> QED
      BY <2>2, <3>1, SameConcat, Zenon
  <2> QED
    BY <2>4 DEF u, v, w
<1> HIDE DEF W
<1>6. Volume(<<>>, offsets) = 0
  BY <1>1, <1>2, TotalParts
<1>7. ASSUME NEW r \in RequestType
      PROVE  Volume(<<r>>, offsets) = IF r.offset \in offsets THEN r.volume ELSE 0
  <2>1. (IF r.offset \in offsets THEN r.volume ELSE 0) \in Int
    BY DEF RequestType
  <2> QED
    BY <1>1, <1>3, <2>1, TotalParts
<1>8. ASSUME NEW a \in Seq(RequestType), NEW b \in Seq(RequestType)
      PROVE  Volume(a, offsets) \in Int /\ Volume(a \o b, offsets) = Volume(a, offsets) + Volume(b, offsets)
  <2> DEFINE u == W(a)
             v == W(b)
  <2>1. u \in Seq(Int) /\ v \in Seq(Int)
    BY <1>4
  <2>2. Volume(a, offsets) = Total(u) /\ Volume(b, offsets) = Total(v) /\ Volume(a \o b, offsets) = Total(u \o v)
    BY <1>1, <1>5
  <2> HIDE DEF u, v
  <2>3. Total(u) \in Int /\ Total(u \o v) = Total(u) + Total(v)
    BY <2>1, TotalParts
  <2> QED
    BY <2>2, <2>3
<1> QED
  BY <1>6, <1>7, <1>8

LEMMA AskedParts ==
  /\ Asked(<<>>) = 0
  /\ \A r \in RequestType : Asked(<<r>>) = r.volume
  /\ \A a, b \in Seq(RequestType) : Asked(a) \in Int /\ Asked(a \o b) = Asked(a) + Asked(b)
<1>1. \A r \in RequestType : r.offset \in Offsets
  BY DEF RequestType, Traders
<1> QED
  BY <1>1, VolumeParts DEF Asked

-------------------------------------------------------------------------------
(* Conversions.                                                              *)

\* What a request is converted to adds up, whatever the holding is.
LEMMA ConvertAddsUp ==
  ASSUME NEW h \in [Sides -> Volumes], NEW req \in RequestType, req.volume \in Nat, NEW sh \in BOOLEAN,
         NEW lock, NEW net
  PROVE  LET reqs == Convert(h, req, sh, lock, net)
             at == Available(h[Opposite(req.direction)])
         IN  /\ Asked(reqs) > req.volume => at.td < 0 \/ at.yd < 0
             /\ Asked(reqs) < req.volume => reqs = <<>> \/ (lock /\ req.volume < Asked(reqs) + 2 * Whole)
<1> DEFINE v == h[Opposite(req.direction)]
           at == Available(v)
           n == req.volume
<1>1. n \in Int /\ n >= 0 /\ v \in Volumes /\ Whole \in Nat /\ Whole > 0
  BY Targets, HoldingAssumption DEF RequestType
<1>2. at.pos \in Int /\ at.td \in Int /\ at.yd \in Int
  BY <1>1, AtHand
<1> HIDE DEF v
<1>3. {"OPEN", "CLOSE", "CLOSETODAY", "CLOSEYESTERDAY"} = Traders
  BY DEF Traders, Offsets
<1>4. \A offset \in Traders, volume \in Int : Part(req, offset, volume) \in RequestType /\ Part(req, offset, volume).volume = volume
  BY PartTypes
<1>5. \A offset \in Traders, volume \in Int :
        <<Part(req, offset, volume)>> \in Seq(RequestType) /\ Asked(<<Part(req, offset, volume)>>) = volume
  <2>1. \A r \in RequestType : <<r>> \in Seq(RequestType)
    OBVIOUS
  <2> QED
    BY <1>4, <2>1, AskedParts, Zenon
<1>6. <<>> \in Seq(RequestType) /\ Asked(<<>>) = 0 /\ 0 \in Int
  BY AskedParts
<1>7. \A a, b \in Seq(RequestType) : a \o b \in Seq(RequestType) /\ Asked(a \o b) = Asked(a) + Asked(b)
  <2>1. \A a, b \in Seq(RequestType) : a \o b \in Seq(RequestType)
    OBVIOUS
  <2> QED
    BY <2>1, AskedParts, Zenon
<1>8. /\ \A x \in Int : Cut(x) \in Int
      /\ \A x \in Int : x >= 0 => 0 <= Cut(x) /\ Cut(x) <= x /\ x < Cut(x) + Whole
  BY CutBounds
<1>9. \A x \in Int : Cut(x) < 0 => x < 0
  <2>1. \A x \in Int : x >= 0 \/ x < 0
    OBVIOUS
  <2>2. \A x \in Int : Cut(x) < 0 => ~(0 <= Cut(x))
    BY <1>8
  <2> QED
    BY <1>8, <2>1, <2>2, Zenon
<1> HIDE DEF at, n
<1>10. /\ Asked(ConvertShfe(h, req)) > n => at.td < 0
       /\ Asked(ConvertShfe(h, req)) < n => ConvertShfe(h, req) = <<>>
  <2> DEFINE td == Cut(at.td)
             reqs == ConvertShfe(h, req)
             first == IF td > 0 THEN <<Part(req, "CLOSETODAY", td)>> ELSE <<>>
             rest == <<Part(req, "CLOSEYESTERDAY", n - td)>>
  <2>1. td \in Int /\ n - td \in Int
    BY <1>1, <1>2, <1>8
  <2>2. reqs = IF req.offset = "OPEN" THEN <<req>>
               ELSE IF n > Cut(at.pos) THEN <<>>
               ELSE IF n <= td THEN <<Part(req, "CLOSETODAY", n)>>
               ELSE first \o rest
    BY Zenon DEF ConvertShfe, at, v, n
  <2>3. td < 0 => at.td < 0
    BY <1>2, <1>9
  <2> HIDE DEF td
  <2>4. Asked(<<req>>) = n /\ Asked(<<Part(req, "CLOSETODAY", n)>>) = n
    BY <1>1, <1>3, <1>5, AskedParts DEF n
  <2>5. Asked(first \o rest) = IF td > 0 THEN n ELSE n - td
    <3>1. first \in Seq(RequestType) /\ Asked(first) = IF td > 0 THEN td ELSE 0
      BY <1>3, <1>5, <1>6, <2>1
    <3>2. rest \in Seq(RequestType) /\ Asked(rest) = n - td
      BY <1>3, <1>5, <2>1
    <3> HIDE DEF first, rest
    <3>3. Asked(first \o rest) = Asked(first) + Asked(rest)
      BY <1>7, <3>1, <3>2
    <3> QED
      BY <1>1, <2>1, <3>1, <3>2, <3>3
  <2> HIDE DEF first, rest
  <2>6. reqs = <<>> \/ Asked(reqs) = n \/ (Asked(reqs) = n - td /\ ~(td > 0))
    BY <2>2, <2>4, <2>5, Zenon
  <2> SUFFICES (Asked(reqs) > n => at.td < 0) /\ (Asked(reqs) < n => reqs = <<>>)
    OBVIOUS
  <2> HIDE DEF reqs
  <2>7. CASE reqs = <<>>
    BY <1>1, <1>6, <2>7
  <2>8. CASE Asked(reqs) = n
    BY <1>1, <2>8
  <2>9. CASE Asked(reqs) = n - td /\ ~(td > 0)
    BY <1>1, <2>1, <2>3, <2>9
  <2> QED
    BY <2>6, <2>7, <2>8, <2>9
<1>11. /\ Asked(ConvertLock(h, req, sh)) > n => at.yd < 0
       /\ Asked(ConvertLock(h, req, sh)) < n => n < Asked(ConvertLock(h, req, sh)) + 2 * Whole
  <2> DEFINE more == IF n > at.yd THEN n - at.yd ELSE 0
             open == Cut(more)
             most == Less(n, at.yd)
             yd == Cut(most)
             offset == IF sh THEN "CLOSEYESTERDAY" ELSE "CLOSE"
             reqs == ConvertLock(h, req, sh)
             first == IF at.yd > 0 THEN <<Part(req, offset, yd)>> ELSE <<>>
             rest == IF open > 0 THEN <<Part(req, "OPEN", open)>> ELSE <<>>
  <2>1. reqs = IF v.td # 0 /\ ~sh THEN <<Part(req, "OPEN", n)>> ELSE first \o rest
    BY Zenon DEF ConvertLock, at, v, n
  <2>2. more \in Int /\ more >= 0 /\ (n > at.yd => more = n - at.yd) /\ (~(n > at.yd) => more = 0)
    BY <1>1, <1>2
  <2>3. most \in Int /\ (n > at.yd => most = at.yd) /\ (~(n > at.yd) => most = n)
    BY <1>1, <1>2 DEF Less
  <2> HIDE DEF more, most
  <2>4. open \in Int /\ 0 <= open /\ open <= more /\ more < open + Whole
    BY <1>8, <2>2
  <2>5. yd \in Int /\ (most >= 0 => 0 <= yd /\ yd <= most /\ most < yd + Whole)
    BY <1>8, <2>3
  <2>6. offset \in Traders
    BY <1>3
  <2> HIDE DEF open, yd, offset
  <2>7. Asked(first \o rest) = (IF at.yd > 0 THEN yd ELSE 0) + open
    <3>1. first \in Seq(RequestType) /\ Asked(first) = IF at.yd > 0 THEN yd ELSE 0
      BY <1>5, <1>6, <2>5, <2>6
    <3>2. rest \in Seq(RequestType) /\ Asked(rest) = open
      <4>1. open > 0 \/ open = 0
        BY <2>4
      <4> QED
        BY <1>3, <1>5, <1>6, <2>4, <4>1
    <3> HIDE DEF first, rest
    <3>3. Asked(first \o rest) = Asked(first) + Asked(rest)
      BY <1>7, <3>1, <3>2
    <3> QED
      BY <3>1, <3>2, <3>3, Zenon
  <2>8. Asked(<<Part(req, "OPEN", n)>>) = n
    BY <1>1, <1>3, <1>5
  <2> HIDE DEF first, rest
  <2>9. Asked(reqs) = n \/ Asked(reqs) = (IF at.yd > 0 THEN yd ELSE 0) + open
    BY <2>1, <2>7, <2>8, Zenon
  <2> SUFFICES (Asked(reqs) > n => at.yd < 0) /\ (Asked(reqs) < n => n < Asked(reqs) + 2 * Whole)
    OBVIOUS
  <2> HIDE DEF reqs
  <2>10. CASE Asked(reqs) = n
    BY <1>1, <2>10
  <2>11. CASE Asked(reqs) = (IF at.yd > 0 THEN yd ELSE 0) + open
    <3>1. CASE at.yd > 0
      BY <1>1, <1>2, <2>2, <2>3, <2>4, <2>5, <2>11, <3>1
    <3>2. CASE ~(at.yd > 0)
      BY <1>1, <1>2, <2>2, <2>4, <2>11, <3>2
    <3> QED
      BY <3>1, <3>2
  <2> QED
    BY <2>9, <2>10, <2>11
<1>12. Asked(ConvertNet(h, req, sh)) = n
  <2> DEFINE td == IF sh /\ at.td > 0 THEN Cut(Less(at.td, n)) ELSE 0
             yd == IF sh /\ at.yd > 0 /\ n > td THEN Cut(Less(at.yd, n - td)) ELSE 0
             pos == IF ~sh /\ at.pos > 0 THEN Cut(Less(at.pos, n)) ELSE 0
             left == n - td - yd - pos
             a == IF sh /\ at.td > 0 THEN <<Part(req, "CLOSETODAY", td)>> ELSE <<>>
             b == IF sh /\ at.yd > 0 /\ n > td THEN <<Part(req, "CLOSEYESTERDAY", yd)>> ELSE <<>>
             c == IF ~sh /\ at.pos > 0 THEN <<Part(req, "CLOSE", pos)>> ELSE <<>>
             d == IF left > 0 THEN <<Part(req, "OPEN", left)>> ELSE <<>>
  <2>1. ConvertNet(h, req, sh) = a \o b \o c \o d
    BY Zenon DEF ConvertNet, at, v, n
  <2>2. \A x, y \in Int : x > 0 /\ y >= 0 => Cut(Less(x, y)) \in Int /\ 0 <= Cut(Less(x, y)) /\ Cut(Less(x, y)) <= y
    <3> SUFFICES ASSUME NEW x \in Int, NEW y \in Int, x > 0, y >= 0
                 PROVE  Cut(Less(x, y)) \in Int /\ 0 <= Cut(Less(x, y)) /\ Cut(Less(x, y)) <= y
      OBVIOUS
    <3> DEFINE z == Less(x, y)
    <3>1. z \in Int /\ z >= 0 /\ z <= y
      BY DEF Less
    <3> HIDE DEF z
    <3>2. Cut(z) \in Int /\ 0 <= Cut(z) /\ Cut(z) <= z
      BY <1>8, <3>1
    <3> QED
      BY <3>1, <3>2 DEF z
  <2>3. td \in Int /\ 0 <= td /\ td <= n /\ (~sh => td = 0)
    BY <1>1, <1>2, <2>2
  <2>4. a \in Seq(RequestType) /\ Asked(a) = td
    BY <1>3, <1>5, <1>6, <2>3
  <2> HIDE DEF td, a
  <2>5. n - td \in Int /\ n - td >= 0
    BY <1>1, <2>3
  <2>6. yd \in Int /\ 0 <= yd /\ yd <= n - td /\ (~sh => yd = 0)
    BY <1>2, <2>2, <2>5
  <2>7. b \in Seq(RequestType) /\ Asked(b) = yd
    BY <1>3, <1>5, <1>6, <2>6
  <2> HIDE DEF yd, b
  <2>8. pos \in Int /\ 0 <= pos /\ pos <= n /\ (sh => pos = 0)
    BY <1>1, <1>2, <2>2
  <2>9. c \in Seq(RequestType) /\ Asked(c) = pos
    BY <1>3, <1>5, <1>6, <2>8
  <2> HIDE DEF pos, c
  <2>10. left \in Int /\ left >= 0
    BY <1>1, <2>3, <2>6, <2>8
  <2>11. td + yd + pos + left = n
    BY <1>1, <2>3, <2>6, <2>8
  <2> HIDE DEF left
  <2>12. d \in Seq(RequestType) /\ Asked(d) = left
    <3>1. left > 0 \/ left = 0
      BY <2>10
    <3> QED
      BY <1>3, <1>5, <1>6, <2>10, <3>1
  <2> HIDE DEF d
  <2>13. a \o b \in Seq(RequestType) /\ Asked(a \o b) = td + yd
    BY <1>7, <2>4, <2>7, Zenon
  <2>14. a \o b \o c \in Seq(RequestType) /\ Asked(a \o b \o c) = td + yd + pos
    BY <1>7, <2>9, <2>13, Zenon
  <2>15. Asked(a \o b \o c \o d) = td + yd + pos + left
    BY <1>7, <2>12, <2>14, Zenon
  <2> QED
    BY <2>1, <2>11, <2>15, Zenon
<1>13. Asked(<<req>>) = n
  BY AskedParts DEF n
<1> DEFINE reqs == Convert(h, req, sh, lock, net)
<1>14. CASE lock
  <2>1. reqs = ConvertLock(h, req, sh)
    BY <1>14, Zenon DEF Convert
  <2> QED
    BY <1>11, <1>14, <2>1 DEF n, at, v
<1>15. CASE ~lock /\ ~net /\ sh
  <2>1. reqs = ConvertShfe(h, req)
    BY <1>15, Zenon DEF Convert
  <2> QED
    BY <1>10, <2>1 DEF n, at, v
<1>16. CASE ~lock /\ (net \/ ~sh)
  <2>1. Asked(reqs) = n
    BY <1>12, <1>13, <1>16, Zenon DEF Convert
  <2> QED
    BY <1>1, <2>1 DEF n
<1> QED
  BY <1>14, <1>15, <1>16, Zenon

-------------------------------------------------------------------------------
(* Totals that change, and totals that are the same.                         *)

\* A total is where the numbers are, if that is closed under addition.
LEMMA TotalIn ==
  ASSUME NEW S \in SUBSET Int, 0 \in S, \A x, y \in S : x + y \in S, NEW w \in Seq(S)
  PROVE  Total(w) \in S
<1>1. w \in Seq(Int) /\ Len(w) \in Nat /\ \A n \in 1 .. Len(w) : w[n] \in S
  <2>1. Len(w) \in Nat /\ w \in [1 .. Len(w) -> S]
    OBVIOUS
  <2>2. w \in [1 .. Len(w) -> Int] /\ \A n \in 1 .. Len(w) : w[n] \in S
    BY <2>1
  <2> QED
    BY <2>1, <2>2
<1>2. PICK f \in [0 .. Len(w) -> Int] :
        f[0] = 0 /\ Total(w) = f[Len(w)] /\ \A n \in 1 .. Len(w) : f[n] = f[n - 1] + w[n]
  BY <1>1, TotalRounds, Zenon
<1> DEFINE T == {n \in 0 .. Len(w) : f[n] \in S}
<1>3. 0 \in T
  BY <1>1, <1>2
<1>4. ASSUME NEW n \in 1 .. Len(w), n - 1 \in T PROVE n \in T
  <2>1. f[n] = f[n - 1] + w[n] /\ f[n - 1] \in S /\ w[n] \in S /\ n \in 0 .. Len(w)
    BY <1>1, <1>2, <1>4
  <2> QED
    BY <2>1
<1> HIDE DEF T
<1>5. \A n \in 0 .. Len(w) : n \in T
  BY <1>1, <1>3, <1>4, InductionUpTo
<1>6. Len(w) \in T
  BY <1>1, <1>5
<1> QED
  BY <1>2, <1>6 DEF T

\* A number that changes changes the total by as much.
LEMMA TotalChange ==
  ASSUME NEW w \in Seq(Int), NEW x \in 1 .. Len(w), NEW m \in Int
  PROVE  Total([w EXCEPT ![x] = m]) = Total(w) - w[x] + m
<1> DEFINE N == Len(w)
           v == [w EXCEPT ![x] = m]
<1>1. /\ N \in Nat /\ v \in Seq(Int) /\ Len(v) = N /\ v[x] = m /\ w[x] \in Int
      /\ \A n \in 1 .. N : n # x => v[n] = w[n]
  OBVIOUS
<1> HIDE DEF v
<1>2. PICK f \in [0 .. N -> Int] : f[0] = 0 /\ Total(w) = f[N] /\ \A n \in 1 .. N : f[n] = f[n - 1] + w[n]
  BY TotalRounds, Zenon
<1>3. PICK g \in [0 .. Len(v) -> Int] :
        g[0] = 0 /\ Total(v) = g[Len(v)] /\ \A n \in 1 .. Len(v) : g[n] = g[n - 1] + v[n]
  BY <1>1, TotalRounds, Zenon
<1> DEFINE D(n) == IF n >= x THEN m - w[x] ELSE 0
           T == {n \in 0 .. N : g[n] = f[n] + D(n)}
<1>4. 0 \in T
  BY <1>1, <1>2, <1>3
<1>5. ASSUME NEW n \in 1 .. N, n - 1 \in T PROVE n \in T
  <2>1. /\ f[n] = f[n - 1] + w[n] /\ g[n] = g[n - 1] + v[n] /\ g[n - 1] = f[n - 1] + D(n - 1)
        /\ n \in 0 .. N /\ n - 1 \in 0 .. N /\ f[n - 1] \in Int /\ w[n] \in Int
    <3>1. n \in 0 .. N /\ n - 1 \in 0 .. N /\ w[n] \in Int /\ n \in 1 .. Len(v)
      BY <1>1
    <3>2. f[n] = f[n - 1] + w[n] /\ g[n] = g[n - 1] + v[n] /\ f[n - 1] \in Int
      BY <1>2, <1>3, <3>1
    <3>3. g[n - 1] = f[n - 1] + D(n - 1)
      BY <1>5
    <3> QED
      BY <3>1, <3>2, <3>3
  <2>2. g[n] = f[n] + D(n) => n \in T
    BY <2>1
  <2>t. f[n - 1] \in Int /\ w[n] \in Int
    BY <2>1
  <2>3. CASE n = x
    <3>1. D(n) = m - w[n] /\ D(n - 1) = 0 /\ v[n] = m /\ m \in Int
      BY <1>1, <2>3
    <3> HIDE DEF D, T
    <3>2. g[n] = f[n - 1] + m
      BY <2>1, <3>1
    <3>3. f[n] + D(n) = (f[n - 1] + w[n]) + (m - w[n])
      BY <2>1, <3>1, Zenon
    <3>4. (f[n - 1] + w[n]) + (m - w[n]) = f[n - 1] + m
      BY <2>t, SumsOfThree
    <3> QED
      BY <2>2, <3>2, <3>3, <3>4
  <2>4. CASE n # x
    <3>1. D(n) = D(n - 1)
      BY <1>1, <2>4
    <3>2. v[n] = w[n] /\ D(n) \in Int
      BY <1>1, <2>4
    <3> HIDE DEF D, T
    <3>3. (f[n - 1] + D(n)) + w[n] = (f[n - 1] + w[n]) + D(n)
      <4>1. D(n) \in Int
        BY <3>2
      <4> QED
        BY <2>t, <4>1, SumsOfThree
    <3>4. g[n] = (f[n - 1] + D(n)) + w[n]
      BY <2>1, <3>1, <3>2
    <3>5. f[n] + D(n) = (f[n - 1] + w[n]) + D(n)
      BY <2>1
    <3> QED
      BY <2>2, <3>3, <3>4, <3>5
  <2> QED
    BY <2>3, <2>4
<1> HIDE DEF T
<1>6. \A n \in 0 .. N : n \in T
  BY <1>1, <1>4, <1>5, InductionUpTo
<1>7. N \in T /\ D(N) = m - w[x] /\ N \in 0 .. N
  BY <1>1, <1>6
<1>8. g[N] = f[N] + (m - w[x]) /\ f[N] \in Int
  BY <1>2, <1>7 DEF T
<1>9. Total(v) = Total(w) - w[x] + m
  BY <1>1, <1>2, <1>3, <1>8
<1> QED
  BY <1>9 DEF v

\* Numbers that are not negative are no more than their total.
LEMMA TotalBounds ==
  ASSUME NEW w \in Seq(Nat)
  PROVE  Total(w) \in Nat /\ \A x \in 1 .. Len(w) : w[x] <= Total(w)
<1>1. Total(w) \in Nat
  <2>1. Nat \in SUBSET Int /\ 0 \in Nat /\ \A x, y \in Nat : x + y \in Nat
    OBVIOUS
  <2> QED
    BY <2>1, TotalIn
<1>2. ASSUME NEW x \in 1 .. Len(w) PROVE w[x] <= Total(w)
  <2> DEFINE v == [w EXCEPT ![x] = 0]
  <2>1. v \in Seq(Nat) /\ w \in Seq(Int) /\ w[x] \in Nat /\ 0 \in Int
    OBVIOUS
  <2>2. Total(v) = Total(w) - w[x] + 0
    BY <2>1, TotalChange, Zenon
  <2> HIDE DEF v
  <2>3. Total(v) \in Nat
    <3>1. Nat \in SUBSET Int /\ 0 \in Nat /\ \A p, q \in Nat : p + q \in Nat
      OBVIOUS
    <3> QED
      BY <2>1, <3>1, TotalIn
  <2> QED
    BY <1>1, <2>1, <2>2, <2>3
<1> QED
  BY <1>1, <1>2

LEMMA TotalZero ==
  ASSUME NEW w \in Seq(Int), \A k \in 1 .. Len(w) : w[k] = 0
  PROVE  Total(w) = 0
<1>1. {0} \in SUBSET Int /\ 0 \in {0} /\ \A x, y \in {0} : x + y \in {0}
  OBVIOUS
<1>2. w \in Seq({0})
  OBVIOUS
<1>3. Total(w) \in {0}
  BY <1>1, <1>2, TotalIn
<1> QED
  BY <1>3

LEMMA SameSeq ==
  ASSUME NEW a \in Seq(Int), NEW b \in Seq(Int), NEW N, Len(a) = N, Len(b) = N, \A k \in 1 .. N : a[k] = b[k]
  PROVE  a = b
OBVIOUS

LEMMA ChangeIs ==
  ASSUME NEW S, NEW a \in Seq(S), NEW x \in 1 .. Len(a), NEW y \in S
  PROVE  /\ [a EXCEPT ![x] = y] \in Seq(S) /\ Len([a EXCEPT ![x] = y]) = Len(a)
         /\ \A k \in 1 .. Len(a) : [a EXCEPT ![x] = y][k] = IF k = x THEN y ELSE a[k]
OBVIOUS

\* The numbers of v that are found among the first m of w, at the places g.
Found(w, g, m, k) == \E i \in 1 .. m : w[i] # 0 /\ g[i] = k
Placed(w, v, g, m) == [k \in 1 .. Len(v) |-> IF Found(w, g, m, k) THEN v[k] ELSE 0]
Places(w, v, g) ==
  /\ \A i \in 1 .. Len(w) : w[i] # 0 => g[i] \in 1 .. Len(v) /\ v[g[i]] = w[i]
  /\ \A i, j \in 1 .. Len(w) : w[i] # 0 /\ w[j] # 0 /\ g[i] = g[j] => i = j
  /\ \A k \in 1 .. Len(v) : v[k] # 0 => Found(w, g, Len(w), k)

LEMMA PlacedIs ==
  ASSUME NEW w, NEW v \in Seq(Int), NEW g, NEW m
  PROVE  /\ Placed(w, v, g, m) \in Seq(Int) /\ Len(Placed(w, v, g, m)) = Len(v)
         /\ \A k \in 1 .. Len(v) : Placed(w, v, g, m)[k] = IF Found(w, g, m, k) THEN v[k] ELSE 0
<1> DEFINE N == Len(v)
           P == Placed(w, v, g, m)
<1>1. N \in Nat /\ \A k \in 1 .. N : v[k] \in Int
  OBVIOUS
<1>2. P = [k \in 1 .. N |-> IF Found(w, g, m, k) THEN v[k] ELSE 0]
  BY DEF Placed
<1> HIDE DEF N, P
<1>3. P \in Seq(Int) /\ Len(P) = N /\ \A k \in 1 .. N : P[k] = IF Found(w, g, m, k) THEN v[k] ELSE 0
  BY <1>1, <1>2
<1> QED
  BY <1>3 DEF N, P

LEMMA PlacedOne ==
  ASSUME NEW w \in Seq(Int), NEW v \in Seq(Int), NEW g, Places(w, v, g), NEW n \in 1 .. Len(w)
  PROVE  Total(Placed(w, v, g, n)) = Total(Placed(w, v, g, n - 1)) + w[n]
<1> DEFINE N == Len(v)
           p == Placed(w, v, g, n - 1)
           q == Placed(w, v, g, n)
           x == g[n]
           y == w[n]
<1>1. /\ p \in Seq(Int) /\ q \in Seq(Int) /\ Len(p) = N /\ Len(q) = N
      /\ \A k \in 1 .. N : p[k] = IF Found(w, g, n - 1, k) THEN v[k] ELSE 0
      /\ \A k \in 1 .. N : q[k] = IF Found(w, g, n, k) THEN v[k] ELSE 0
  BY PlacedIs
<1>2. \A k \in 1 .. N : Found(w, g, n, k) <=> Found(w, g, n - 1, k) \/ (y # 0 /\ x = k)
  <2>1. (\A i \in 1 .. n : i \in 1 .. n - 1 \/ i = n) /\ (\A i \in 1 .. n - 1 : i \in 1 .. n) /\ n \in 1 .. n
    OBVIOUS
  <2> QED
    BY <2>1 DEF Found
<1>3. y \in Int /\ Total(p) \in Int
  <2>1. Total(p) \in Int
    BY <1>1, TotalParts
  <2> QED
    BY <2>1
<1>4. CASE y = 0
  <2> HIDE DEF N, p, q, x, y
  <2>1. \A k \in 1 .. N : q[k] = p[k]
    BY <1>1, <1>2, <1>4
  <2>2. q = p
    BY <1>1, <2>1, SameSeq
  <2>3. Total(q) = Total(p) + y
    BY <1>3, <1>4, <2>2
  <2> QED
    BY <2>3 DEF p, q, y
<1>5. CASE y # 0
  <2>1. x \in 1 .. N /\ v[x] = y
    BY <1>5 DEF Places
  <2>2. ~Found(w, g, n - 1, x)
    <3>1. \A i \in 1 .. n - 1 : i \in 1 .. Len(w) /\ i # n
      OBVIOUS
    <3> QED
      BY <1>5, <3>1 DEF Places, Found
  <2> HIDE DEF N, p, q, x, y
  <2> DEFINE z == [p EXCEPT ![x] = y]
  <2>3. z \in Seq(Int) /\ Len(z) = N /\ \A k \in 1 .. N : z[k] = IF k = x THEN y ELSE p[k]
    BY <1>1, <1>3, <2>1, ChangeIs
  <2>4. Total(z) = Total(p) - p[x] + y
    <3>1. p \in Seq(Int) /\ x \in 1 .. Len(p) /\ y \in Int
      BY <1>1, <1>3, <2>1
    <3> QED
      BY <3>1, TotalChange
  <2> HIDE DEF z
  <2>5. p[x] = 0
    BY <1>1, <2>1, <2>2
  <2>6. \A k \in 1 .. N : q[k] = z[k]
    BY <1>1, <1>2, <1>5, <2>1, <2>3
  <2>7. q = z
    BY <1>1, <2>3, <2>6, SameSeq
  <2>8. Total(q) = Total(p) + y
    BY <1>3, <2>4, <2>5, <2>7
  <2> QED
    BY <2>8 DEF p, q, y
<1> QED
  BY <1>4, <1>5

\* Two sequences have the same total if one has the numbers of the other that are
\* not zero, each in a place of its own.
LEMMA TotalSame ==
  ASSUME NEW w \in Seq(Int), NEW v \in Seq(Int), NEW g, Places(w, v, g)
  PROVE  Total(w) = Total(v)
<1> DEFINE M == Len(w)
           U(m) == Total(Placed(w, v, g, m))
<1>1. M \in Nat /\ M \in 0 .. M /\ 0 \in 0 .. M
  OBVIOUS
<1>2. PICK f \in [0 .. M -> Int] : f[0] = 0 /\ Total(w) = f[M] /\ \A n \in 1 .. M : f[n] = f[n - 1] + w[n]
  BY TotalRounds, Zenon
<1> DEFINE T == {m \in 0 .. M : U(m) = f[m]}
<1>3. 0 \in T
  <2> DEFINE p == Placed(w, v, g, 0)
  <2>1. \A k \in 1 .. Len(v) : ~Found(w, g, 0, k)
    BY DEF Found
  <2>2. p \in Seq(Int) /\ \A k \in 1 .. Len(p) : p[k] = 0
    BY <2>1, PlacedIs
  <2> HIDE DEF p
  <2>3. Total(p) = 0
    BY <2>2, TotalZero
  <2> QED
    BY <1>1, <1>2, <2>3 DEF p
<1>4. ASSUME NEW n \in 1 .. M, n - 1 \in T PROVE n \in T
  <2>1. U(n) = U(n - 1) + w[n]
    BY PlacedOne
  <2> HIDE DEF U
  <2>2. n \in 0 .. M /\ U(n - 1) = f[n - 1] /\ f[n] = f[n - 1] + w[n]
    BY <1>1, <1>2, <1>4
  <2> QED
    BY <2>1, <2>2
<1> HIDE DEF T
<1>5. \A m \in 0 .. M : m \in T
  BY <1>1, <1>3, <1>4, InductionUpTo
<1>6. U(M) = f[M]
  BY <1>1, <1>5 DEF T
<1>7. Placed(w, v, g, M) = v
  <2> DEFINE p == Placed(w, v, g, M)
             N == Len(v)
  <2>1. p \in Seq(Int) /\ Len(p) = N /\ \A k \in 1 .. N : p[k] = IF Found(w, g, M, k) THEN v[k] ELSE 0
    BY PlacedIs
  <2>2. \A k \in 1 .. N : v[k] # 0 => Found(w, g, M, k)
    BY DEF Places
  <2> HIDE DEF p, M
  <2>3. \A k \in 1 .. N : p[k] = v[k]
    BY <2>1, <2>2
  <2>4. p = v
    BY <2>1, <2>3, SameSeq
  <2> QED
    BY <2>4 DEF p
<1> QED
  BY <1>2, <1>6, <1>7

-------------------------------------------------------------------------------
(* What a conversion closes.                                                 *)

\* The volumes that are closed are there.
Covers(reqs, sh, at) ==
  IF sh THEN /\ Volume(reqs, {"CLOSETODAY"}) <= at.td
             /\ Volume(reqs, {"CLOSE", "CLOSEYESTERDAY"}) <= at.yd
        ELSE /\ Volume(reqs, {"CLOSETODAY"}) = 0 /\ Volume(reqs, {"CLOSEYESTERDAY"}) = 0
             /\ Volume(reqs, {"CLOSE"}) <= at.pos

LEMMA CutLess ==
  ASSUME NEW x \in Int, NEW y \in Int, x > 0, y >= 0
  PROVE  Cut(Less(x, y)) \in Int /\ 0 <= Cut(Less(x, y)) /\ Cut(Less(x, y)) <= x /\ Cut(Less(x, y)) <= y
<1> DEFINE z == Less(x, y)
<1>1. z \in Int /\ z >= 0 /\ z <= y /\ z <= x
  BY DEF Less
<1> HIDE DEF z
<1>2. Cut(z) \in Int /\ 0 <= Cut(z) /\ Cut(z) <= z
  BY <1>1, CutBounds
<1> QED
  BY <1>1, <1>2 DEF z

LEMMA PartVolume ==
  ASSUME NEW req \in RequestType, NEW offset \in Traders, NEW volume \in Int, NEW O
  PROVE  /\ <<Part(req, offset, volume)>> \in Seq(RequestType)
         /\ Volume(<<Part(req, offset, volume)>>, O) = IF offset \in O THEN volume ELSE 0
<1> DEFINE r == Part(req, offset, volume)
<1>1. r \in RequestType /\ r.volume = volume
  BY PartTypes
<1>2. r.offset = offset
  BY DEF Part, RequestType
<1> HIDE DEF r
<1>3. <<r>> \in Seq(RequestType) /\ Volume(<<r>>, O) = IF offset \in O THEN volume ELSE 0
  BY <1>1, <1>2, VolumeParts
<1> QED
  BY <1>3 DEF r

\* What a request to close is converted to closes no more than is at hand.
LEMMA ConvertCovers ==
  ASSUME NEW h \in [Sides -> Volumes], NEW req \in RequestType, req.volume \in Nat, req.offset # "OPEN",
         NEW sh \in BOOLEAN, NEW lock, NEW net, lock \/ net \/ sh,
         NEW at, at = Available(h[Opposite(req.direction)]),
         at.td >= 0, at.yd >= 0, at.pos = at.td + at.yd, sh => at.td \in Lots
  PROVE  Covers(Convert(h, req, sh, lock, net), sh, at)
<1> DEFINE v == h[Opposite(req.direction)]
           n == req.volume
           P(offset, volume) == <<Part(req, offset, volume)>>
           E == <<>>
<1>1. n \in Int /\ n >= 0 /\ v \in Volumes
  BY Targets DEF RequestType
<1>2. at.pos \in Int /\ at.td \in Int /\ at.yd \in Int
  BY <1>1, AtHand
<1> HIDE DEF n, v
<1>3. {"OPEN", "CLOSE", "CLOSETODAY", "CLOSEYESTERDAY"} = Traders
  BY DEF Traders, Offsets
<1>4. \A O : \A offset \in Traders, volume \in Int :
        P(offset, volume) \in Seq(RequestType) /\ Volume(P(offset, volume), O) = IF offset \in O THEN volume ELSE 0
  BY PartVolume
<1>5. \A O : E \in Seq(RequestType) /\ Volume(E, O) = 0
  BY VolumeParts
<1>6. \A O : \A a, b \in Seq(RequestType) :
        a \o b \in Seq(RequestType) /\ Volume(a \o b, O) = Volume(a, O) + Volume(b, O)
  <2>1. \A a, b \in Seq(RequestType) : a \o b \in Seq(RequestType)
    OBVIOUS
  <2>2. \A O : \A a, b \in Seq(RequestType) : Volume(a \o b, O) = Volume(a, O) + Volume(b, O)
    BY VolumeParts
  <2> QED
    BY <2>1, <2>2, Zenon
<1> HIDE DEF P, E
<1>7. ASSUME sh PROVE Covers(ConvertShfe(h, req), sh, at)
  <2> DEFINE td == Cut(at.td)
             reqs == ConvertShfe(h, req)
             first == IF td > 0 THEN P("CLOSETODAY", td) ELSE E
             rest == P("CLOSEYESTERDAY", n - td)
             V(O) == (IF td > 0 /\ "CLOSETODAY" \in O THEN td ELSE 0)
                       + (IF "CLOSEYESTERDAY" \in O THEN n - td ELSE 0)
  <2>1. td = at.td /\ Cut(at.pos) <= at.pos /\ Cut(at.pos) \in Int
    BY <1>2, <1>7, CutLots, CutBounds
  <2>2. reqs = IF n > Cut(at.pos) THEN E
               ELSE IF n <= td THEN P("CLOSETODAY", n)
               ELSE first \o rest
    BY Zenon DEF ConvertShfe, v, n, P, E
  <2> HIDE DEF td, reqs
  <2>3. td \in Int /\ n - td \in Int
    BY <1>1, <1>2, <2>1
  <2>4. ASSUME NEW O PROVE Volume(first \o rest, O) = V(O)
    <3>1. first \in Seq(RequestType) /\ Volume(first, O) = IF td > 0 /\ "CLOSETODAY" \in O THEN td ELSE 0
      BY <1>3, <1>4, <1>5, <2>3
    <3>2. rest \in Seq(RequestType) /\ Volume(rest, O) = IF "CLOSEYESTERDAY" \in O THEN n - td ELSE 0
      BY <1>3, <1>4, <2>3
    <3> HIDE DEF first, rest
    <3> QED
      BY <1>6, <3>1, <3>2
  <2> HIDE DEF first, rest
  <2>5. CASE n > Cut(at.pos)
    <3>1. reqs = E
      BY <2>2, <2>5
    <3> QED
      BY <1>2, <1>5, <1>7, <3>1 DEF Covers, reqs
  <2>6. CASE ~(n > Cut(at.pos)) /\ n <= td
    <3>1. reqs = P("CLOSETODAY", n)
      BY <2>2, <2>6
    <3>2. Volume(reqs, {"CLOSETODAY"}) = n /\ Volume(reqs, {"CLOSE", "CLOSEYESTERDAY"}) = 0
      BY <1>1, <1>3, <1>4, <3>1
    <3> QED
      BY <1>1, <1>2, <1>7, <2>1, <2>6, <3>2 DEF Covers, reqs
  <2>7. CASE ~(n > Cut(at.pos)) /\ ~(n <= td)
    <3>1. reqs = first \o rest
      BY <2>2, <2>7
    <3>2. Volume(reqs, {"CLOSETODAY"}) = V({"CLOSETODAY"})
      BY <2>4, <3>1
    <3>3. Volume(reqs, {"CLOSE", "CLOSEYESTERDAY"}) = V({"CLOSE", "CLOSEYESTERDAY"})
      BY <2>4, <3>1
    <3>4. V({"CLOSETODAY"}) <= at.td /\ V({"CLOSE", "CLOSEYESTERDAY"}) = n - td
      BY <1>1, <1>2, <2>1
    <3>5. n - td <= at.yd
      BY <1>1, <1>2, <2>1, <2>7
    <3> HIDE DEF V
    <3> QED
      BY <1>7, <3>2, <3>3, <3>4, <3>5 DEF Covers, reqs
  <2> QED
    BY <2>5, <2>6, <2>7
<1>8. Covers(ConvertLock(h, req, sh), sh, at)
  <2> DEFINE more == IF n > at.yd THEN n - at.yd ELSE 0
             open == Cut(more)
             yd == Cut(Less(n, at.yd))
             offset == IF sh THEN "CLOSEYESTERDAY" ELSE "CLOSE"
             reqs == ConvertLock(h, req, sh)
             first == IF at.yd > 0 THEN P(offset, yd) ELSE E
             rest == IF open > 0 THEN P("OPEN", open) ELSE E
             V(O) == IF at.yd > 0 /\ offset \in O THEN yd ELSE 0
  <2>1. reqs = IF v.td # 0 /\ ~sh THEN P("OPEN", n) ELSE first \o rest
    BY Zenon DEF ConvertLock, v, n, P, E
  <2>2. open \in Int
    <3>1. more \in Int
      BY <1>1, <1>2
    <3> HIDE DEF more
    <3> QED
      BY <3>1, CutBounds
  <2>3. yd \in Int /\ (at.yd > 0 => 0 <= yd /\ yd <= at.yd)
    <3>1. at.yd > 0 => Less(n, at.yd) = Less(at.yd, n)
      BY <1>1, <1>2 DEF Less
    <3>2. Less(n, at.yd) \in Int
      BY <1>1, <1>2 DEF Less
    <3> QED
      BY <1>1, <1>2, <3>1, <3>2, CutLess, CutBounds
  <2>4. offset \in Traders
    BY <1>3
  <2> HIDE DEF reqs, open, yd
  <2>5. ASSUME NEW O, "OPEN" \notin O PROVE Volume(first \o rest, O) = V(O)
    <3>1. first \in Seq(RequestType) /\ Volume(first, O) = V(O)
      BY <1>4, <1>5, <2>3, <2>4
    <3>2. rest \in Seq(RequestType) /\ Volume(rest, O) = 0
      BY <1>3, <1>4, <1>5, <2>2, <2>5
    <3>3. V(O) \in Int
      BY <2>3
    <3> HIDE DEF first, rest, V
    <3>4. Volume(first \o rest, O) = Volume(first, O) + Volume(rest, O)
      BY <1>6, <3>1, <3>2
    <3> QED
      BY <3>1, <3>2, <3>3, <3>4
  <2> HIDE DEF first, rest
  <2>6. CASE v.td # 0 /\ ~sh
    <3>1. reqs = P("OPEN", n)
      BY <2>1, <2>6
    <3>2. \A O : "OPEN" \notin O => Volume(reqs, O) = 0
      BY <1>1, <1>3, <1>4, <3>1
    <3> QED
      BY <1>2, <2>6, <3>2 DEF Covers, reqs
  <2>7. CASE ~(v.td # 0 /\ ~sh)
    <3>1. reqs = first \o rest
      BY <2>1, <2>7
    <3>2. \A O : "OPEN" \notin O => Volume(reqs, O) = V(O)
      BY <2>5, <3>1
    <3>3. CASE sh
      <4>1. V({"CLOSETODAY"}) = 0 /\ V({"CLOSE", "CLOSEYESTERDAY"}) <= at.yd
        BY <1>2, <2>3, <3>3
      <4> HIDE DEF V
      <4>2. Volume(reqs, {"CLOSETODAY"}) = 0 /\ Volume(reqs, {"CLOSE", "CLOSEYESTERDAY"}) <= at.yd
        BY <3>2, <4>1
      <4> QED
        BY <1>2, <3>3, <4>2 DEF Covers, reqs
    <3>4. CASE ~sh
      <4>1. V({"CLOSETODAY"}) = 0 /\ V({"CLOSEYESTERDAY"}) = 0 /\ V({"CLOSE"}) <= at.yd /\ V({"CLOSE"}) \in Int
        BY <1>2, <2>3, <3>4
      <4> HIDE DEF V
      <4>2. /\ Volume(reqs, {"CLOSETODAY"}) = 0 /\ Volume(reqs, {"CLOSEYESTERDAY"}) = 0
            /\ Volume(reqs, {"CLOSE"}) <= at.yd /\ Volume(reqs, {"CLOSE"}) \in Int
        BY <3>2, <4>1
      <4>3. Volume(reqs, {"CLOSE"}) <= at.pos
        BY <1>2, <4>2
      <4> QED
        BY <3>4, <4>2, <4>3 DEF Covers, reqs
    <3> QED
      BY <3>3, <3>4
  <2> QED
    BY <2>6, <2>7
<1>9. Covers(ConvertNet(h, req, sh), sh, at)
  <2> DEFINE td == IF sh /\ at.td > 0 THEN Cut(Less(at.td, n)) ELSE 0
             yd == IF sh /\ at.yd > 0 /\ n > td THEN Cut(Less(at.yd, n - td)) ELSE 0
             pos == IF ~sh /\ at.pos > 0 THEN Cut(Less(at.pos, n)) ELSE 0
             left == n - td - yd - pos
             a == IF sh /\ at.td > 0 THEN P("CLOSETODAY", td) ELSE E
             b == IF sh /\ at.yd > 0 /\ n > td THEN P("CLOSEYESTERDAY", yd) ELSE E
             c == IF ~sh /\ at.pos > 0 THEN P("CLOSE", pos) ELSE E
             d == IF left > 0 THEN P("OPEN", left) ELSE E
             reqs == ConvertNet(h, req, sh)
             T(O) == IF "CLOSETODAY" \in O THEN td ELSE 0
             Y(O) == IF "CLOSEYESTERDAY" \in O THEN yd ELSE 0
             C(O) == IF "CLOSE" \in O THEN pos ELSE 0
  <2>1. reqs = ((a \o b) \o c) \o d
    BY Zenon DEF ConvertNet, v, n, P, E
  <2>2. td \in Int /\ td <= n /\ td <= at.td /\ (~sh => td = 0)
    BY <1>1, <1>2, CutLess
  <2>3. \A O : a \in Seq(RequestType) /\ Volume(a, O) = T(O)
    BY <1>3, <1>4, <1>5, <2>2
  <2> HIDE DEF td, a
  <2>4. n - td \in Int /\ n - td >= 0
    BY <1>1, <2>2
  <2>5. yd \in Int /\ yd <= at.yd /\ (~sh => yd = 0)
    BY <1>2, <2>4, CutLess
  <2>6. \A O : b \in Seq(RequestType) /\ Volume(b, O) = Y(O)
    BY <1>3, <1>4, <1>5, <2>5
  <2> HIDE DEF yd, b
  <2>7. pos \in Int /\ pos <= at.pos /\ (sh => pos = 0)
    BY <1>1, <1>2, CutLess
  <2>8. \A O : c \in Seq(RequestType) /\ Volume(c, O) = C(O)
    BY <1>3, <1>4, <1>5, <2>7
  <2> HIDE DEF pos, c
  <2>9. left \in Int
    BY <1>1, <2>2, <2>5, <2>7
  <2> HIDE DEF left
  <2>10. \A O : d \in Seq(RequestType) /\ ("OPEN" \notin O => Volume(d, O) = 0)
    BY <1>3, <1>4, <1>5, <2>9
  <2> HIDE DEF d, reqs
  <2>11. ASSUME NEW O, "OPEN" \notin O PROVE Volume(reqs, O) = T(O) + Y(O) + C(O)
    <3>1. T(O) \in Int /\ Y(O) \in Int /\ C(O) \in Int
      BY <2>2, <2>5, <2>7
    <3> HIDE DEF T, Y, C
    <3>2. a \o b \in Seq(RequestType) /\ Volume(a \o b, O) = T(O) + Y(O)
      BY <1>6, <2>3, <2>6
    <3>3. (a \o b) \o c \in Seq(RequestType) /\ Volume((a \o b) \o c, O) = T(O) + Y(O) + C(O)
      <4> DEFINE x == a \o b
      <4>1. c \in Seq(RequestType) /\ Volume(c, O) = C(O)
        BY <2>8
      <4>2. x \in Seq(RequestType) /\ Volume(x, O) = T(O) + Y(O)
        BY <3>2
      <4> HIDE DEF x
      <4>3. x \o c \in Seq(RequestType) /\ Volume(x \o c, O) = Volume(x, O) + Volume(c, O)
        BY <1>6, <4>1, <4>2
      <4>4. x \o c \in Seq(RequestType) /\ Volume(x \o c, O) = T(O) + Y(O) + C(O)
        BY <4>1, <4>2, <4>3, Zenon
      <4> QED
        BY <4>4 DEF x
    <3>4. d \in Seq(RequestType) /\ Volume(d, O) = 0
      BY <2>10, <2>11
    <3>5. Volume(reqs, O) = T(O) + Y(O) + C(O) + 0
      BY <1>6, <2>1, <3>3, <3>4
    <3> QED
      BY <3>1, <3>5
  <2>12. Volume(reqs, {"CLOSETODAY"}) = td
    <3>1. T({"CLOSETODAY"}) = td /\ Y({"CLOSETODAY"}) = 0 /\ C({"CLOSETODAY"}) = 0
      OBVIOUS
    <3> HIDE DEF T, Y, C
    <3> QED
      BY <2>2, <2>11, <3>1
  <2>13. Volume(reqs, {"CLOSEYESTERDAY"}) = yd
    <3>1. T({"CLOSEYESTERDAY"}) = 0 /\ Y({"CLOSEYESTERDAY"}) = yd /\ C({"CLOSEYESTERDAY"}) = 0
      OBVIOUS
    <3> HIDE DEF T, Y, C
    <3> QED
      BY <2>5, <2>11, <3>1
  <2>14. Volume(reqs, {"CLOSE"}) = pos
    <3>1. T({"CLOSE"}) = 0 /\ Y({"CLOSE"}) = 0 /\ C({"CLOSE"}) = pos
      OBVIOUS
    <3> HIDE DEF T, Y, C
    <3> QED
      BY <2>7, <2>11, <3>1
  <2>15. Volume(reqs, {"CLOSE", "CLOSEYESTERDAY"}) = yd + pos
    <3> DEFINE O == {"CLOSE", "CLOSEYESTERDAY"}
    <3>1. T(O) = 0 /\ Y(O) = yd /\ C(O) = pos /\ "OPEN" \notin O
      OBVIOUS
    <3> HIDE DEF T, Y, C, O
    <3>2. Volume(reqs, O) = yd + pos
      BY <2>5, <2>7, <2>11, <3>1
    <3> QED
      BY <3>2 DEF O
  <2>16. sh => yd + pos <= at.yd
    BY <2>5, <2>7
  <2>17. Covers(reqs, sh, at)
    BY <2>2, <2>5, <2>7, <2>12, <2>13, <2>14, <2>15, <2>16 DEF Covers
  <2> QED
    BY <2>17 DEF reqs
<1> QED
  BY <1>7, <1>8, <1>9, Zenon DEF Convert

-------------------------------------------------------------------------------
(* The specification's types.                                                *)

Statuses == {"SUBMITTING", "NOTTRADED", "PARTTRADED", "ALLTRADED", "REJECTED", "CANCELLED"}
VenueOrder ==
  [id : Nat, direction : Sides, offset : Traders, volume : Int, traded : Int, status : Statuses]
OrderEvents ==
  [t : {"order"}, id : Nat, direction : Sides, offset : Traders, volume : Int, traded : Int, status : Statuses]
TradeEvents == [t : {"trade"}, direction : Sides, offset : Traders, volume : Int, n : Nat]
Events == OrderEvents \cup TradeEvents
Positions == [side : Sides, td : Int, yd : Int, n : Nat]
Entries == [offset : Traders, volume : Int, td : Int, yd : Int]

OmsTypes ==
  /\ shfe \in BOOLEAN
  /\ holding \in [Sides -> Volumes]
  /\ active_orders \in SUBSET OrderType /\ IsFiniteSet(active_orders)
  /\ reports \in Seq(Events)
  /\ pushes \in Seq(Positions)
  /\ venue \in Seq(VenueOrder)
  /\ account \in [Sides -> Balance]
  /\ statement \in [Sides -> Seq(Entries)] /\ told \in [Sides -> Seq(Nat)]

LEMMA EventTypes ==
  /\ \A o \in VenueOrder \cup OrderType, st \in Statuses : OrderEvent(o, st) \in OrderEvents
  /\ \A direction \in Sides, offset \in Traders, volume \in Int, n \in Nat :
       TradeEvent(direction, offset, volume, n) \in TradeEvents
  /\ \A o \in OrderType : Submitted(o) \in VenueOrder
  /\ \A e \in OrderEvents : OrderOf(e) \in OrderType
  /\ \A a \in [Sides -> Balance], s \in Sides, n \in Nat : Position(s, a, n) \in Positions
  /\ \A offset \in Traders, volume \in Int, a \in Balance : Entry(offset, volume, a) \in Entries
<1>1. \A o \in VenueOrder \cup OrderType, st \in Statuses : OrderEvent(o, st) \in OrderEvents
  BY DEF OrderEvent, VenueOrder, OrderType, OrderEvents
<1>2. \A direction \in Sides, offset \in Traders, volume \in Int, n \in Nat :
        TradeEvent(direction, offset, volume, n) \in TradeEvents
  BY DEF TradeEvent, TradeEvents
<1>3. \A o \in OrderType : Submitted(o) \in VenueOrder
  BY DEF Submitted, VenueOrder, OrderType, Statuses
<1>4. \A e \in OrderEvents : OrderOf(e) \in OrderType
  BY DEF OrderOf, OrderType, OrderEvents
<1>5. \A a \in [Sides -> Balance], s \in Sides, n \in Nat : Position(s, a, n) \in Positions
  BY DEF Position, Positions, Balance
<1>6. \A offset \in Traders, volume \in Int, a \in Balance : Entry(offset, volume, a) \in Entries
  BY DEF Entry, Entries, Balance
<1> QED
  BY <1>1, <1>2, <1>3, <1>4, <1>5, <1>6

\* The venue changes the status of an order, or what of it is traded.
LEMMA VenueTypes ==
  ASSUME NEW q \in Seq(VenueOrder), NEW id \in DOMAIN q, NEW st \in Statuses, NEW n \in Int
  PROVE  /\ [q EXCEPT ![id].status = st] \in Seq(VenueOrder)
         /\ [q EXCEPT ![id].traded = n, ![id].status = st] \in Seq(VenueOrder)
<1>1. q[id] \in VenueOrder /\ DOMAIN q = 1 .. Len(q) /\ Len(q) \in Nat
  OBVIOUS
<1>2. \A o \in VenueOrder : [q EXCEPT ![id] = o] \in Seq(VenueOrder)
  OBVIOUS
<1>3. \A o \in VenueOrder : [o EXCEPT !.status = st] \in VenueOrder /\ [o EXCEPT !.traded = n] \in VenueOrder
  BY DEF VenueOrder
<1>4. [q EXCEPT ![id].status = st] = [q EXCEPT ![id] = [q[id] EXCEPT !.status = st]]
  OBVIOUS
<1> DEFINE x == [q EXCEPT ![id].traded = n]
<1>5. x = [q EXCEPT ![id] = [q[id] EXCEPT !.traded = n]]
  OBVIOUS
<1>6. [q EXCEPT ![id].traded = n, ![id].status = st] = [x EXCEPT ![id].status = st]
  BY Zenon
<1>7. [x EXCEPT ![id].status = st] = [x EXCEPT ![id] = [x[id] EXCEPT !.status = st]]
  OBVIOUS
<1>8. x \in Seq(VenueOrder)
  BY <1>1, <1>2, <1>3, <1>5, Zenon
<1>9. x[id] \in VenueOrder
  BY <1>1, <1>3, <1>5
<1>10. DOMAIN x = DOMAIN q
  OBVIOUS
<1> HIDE DEF x
<1>11. \A o \in VenueOrder : [x EXCEPT ![id] = o] \in Seq(VenueOrder)
  BY <1>8, <1>10
<1> QED
  BY <1>1, <1>2, <1>3, <1>4, <1>6, <1>7, <1>9, <1>11, Zenon

LEMMA OmsTypesInit == Init => OmsTypes
<1> SUFFICES ASSUME Init PROVE OmsTypes
  OBVIOUS
<1>1. account \in [Sides -> Balance]
  BY OmsAssumption DEF Init, Balance
<1>2. holding \in [Sides -> Volumes]
  BY DEF Init, Empty, Volumes
<1>3. pushes \in Seq(Positions)
  <2>1. Position("LONG", account, 1) \in Positions /\ Position("SHORT", account, 1) \in Positions
    BY <1>1, EventTypes DEF Sides
  <2> QED
    BY <2>1 DEF Init
<1>4. statement \in [Sides -> Seq(Entries)]
  <2>1. \A s \in Sides : account[s] \in Balance /\ account[s].td + account[s].yd \in Int
    BY <1>1 DEF Balance
  <2>2. \A s \in Sides : Entry("OPEN", account[s].td + account[s].yd, account[s]) \in Entries
    BY <2>1, EventTypes DEF Traders, Offsets
  <2> QED
    BY <2>2 DEF Init
<1> QED
  BY <1>1, <1>2, <1>3, <1>4, FS_EmptySet DEF Init, OmsTypes

\* An order that is frozen: a finite set of active orders stays one.
LEMMA ActiveTypes ==
  ASSUME OmsTypes, NEW e \in OrderEvents
  PROVE  Updated(active_orders, e) \in SUBSET OrderType /\ IsFiniteSet(Updated(active_orders, e))
<1>1. OrderOf(e) \in OrderType
  BY EventTypes
<1> DEFINE rest == {o \in active_orders : o.id # e.id}
<1>2. rest \in SUBSET active_orders /\ IsFiniteSet(rest) /\ IsFiniteSet(rest \cup {OrderOf(e)})
  BY FS_Subset, FS_AddElement DEF OmsTypes
<1>3. Updated(active_orders, e) \in {rest, rest \cup {OrderOf(e)}}
  BY DEF Updated
<1> QED
  BY <1>1, <1>2, <1>3 DEF OmsTypes

LEMMA RequestsTypes == \A req \in Requests : req \in RequestType /\ req.volume \in Nat
<1> SUFFICES ASSUME NEW req \in Requests PROVE req \in RequestType /\ req.volume \in Nat
  OBVIOUS
<1>1. /\ req = [direction |-> req.direction, offset |-> req.offset, volume |-> req.volume]
      /\ req.direction \in Directions /\ req.offset \in {"OPEN", "CLOSE"} /\ req.volume \in Requested
  BY DEF Requests
<1>2. req.direction \in Sides /\ req.volume \in Int /\ req.volume \in Nat
  BY <1>1, OmsAssumption
<1>3. req.offset \in Traders
  BY <1>1 DEF Traders, Offsets
<1> QED
  BY <1>1, <1>2, <1>3 DEF RequestType

\* The orders of a request: what the converter makes of it.
LEMMA SentTypes ==
  ASSUME OmsTypes, NEW req \in Requests, NEW mode \in Modes, SendOrder(req, mode)
  PROVE  /\ holding' \in [Sides -> Volumes]
         /\ \A s \in Sides : /\ holding'[s].td = holding[s].td /\ holding'[s].yd = holding[s].yd
                             /\ holding'[s].pos = holding[s].pos
         /\ active_orders' \in SUBSET OrderType /\ IsFiniteSet(active_orders')
         /\ venue' \in Seq(VenueOrder)
         /\ \E more \in Seq(OrderEvents) : reports' = reports \o more
<1> DEFINE reqs == Convert(holding, req, shfe, mode[1], mode[2])
           new == [k \in DOMAIN reqs |-> Order(Len(venue) + k, reqs[k])]
           sent == [k \in DOMAIN new |-> Submitted(new[k])]
           more == [k \in DOMAIN new |-> OrderEvent(new[k], "SUBMITTING")]
<1>1. reqs \in Seq(RequestType)
  <2>1. req \in RequestType
    BY RequestsTypes
  <2> QED
    BY <2>1, ConvertTypes DEF OmsTypes
<1>2. /\ venue' = venue \o sent /\ reports' = reports \o more
      /\ active_orders' = active_orders \cup Range(new)
      /\ holding' \in CalculateFrozen(holding, active_orders')
  BY DEF SendOrder
<1> HIDE DEF reqs
<1>3. new \in Seq(OrderType)
  <2>1. Len(venue) \in Nat /\ DOMAIN reqs = 1 .. Len(reqs) /\ Len(reqs) \in Nat
    BY <1>1 DEF OmsTypes
  <2>2. \A k \in DOMAIN reqs : Order(Len(venue) + k, reqs[k]) \in OrderType
    <3> SUFFICES ASSUME NEW k \in DOMAIN reqs PROVE Order(Len(venue) + k, reqs[k]) \in OrderType
      OBVIOUS
    <3>1. reqs[k] \in RequestType /\ Len(venue) + k \in Nat
      BY <1>1, <2>1
    <3> QED
      BY <3>1 DEF Order, OrderType, RequestType
  <2> QED
    BY <2>1, <2>2
<1> HIDE DEF new
<1>4. /\ DOMAIN new = 1 .. Len(new) /\ Len(new) \in Nat
      /\ \A k \in DOMAIN new : new[k] \in OrderType
  BY <1>3
<1>5. sent \in Seq(VenueOrder)
  BY <1>4, EventTypes
<1>6. more \in Seq(OrderEvents)
  BY <1>4, EventTypes DEF Statuses
<1>7. Range(new) \in SUBSET OrderType /\ IsFiniteSet(Range(new))
  <2>1. new \in Seq(Range(new))
    BY <1>3, <1>4 DEF Range
  <2>2. \A x \in Range(new) : \E k \in 1 .. Len(new) : new[k] = x
    BY <1>4, Zenon DEF Range
  <2> QED
    BY <1>4, <2>1, <2>2 DEF IsFiniteSet, Range
<1>8. active_orders' \in SUBSET OrderType /\ IsFiniteSet(active_orders')
  BY <1>2, <1>7, FS_Union DEF OmsTypes
<1>9. /\ holding' \in [Sides -> Volumes]
      /\ \A s \in Sides : /\ holding'[s].td = holding[s].td /\ holding'[s].yd = holding[s].yd
                          /\ holding'[s].pos = holding[s].pos
  BY <1>2, <1>8, CalculateFrozenTypes DEF OmsTypes
<1> HIDE DEF sent, more
<1>10. venue' \in Seq(VenueOrder)
  BY <1>2, <1>5 DEF OmsTypes
<1> QED
  BY <1>2, <1>6, <1>8, <1>9, <1>10

\* The next event is of an order or of a trade, and what follows are events.
LEMMA NextEvent ==
  ASSUME OmsTypes, reports # <<>>
  PROVE  /\ Tail(reports) \in Seq(Events)
         /\ Head(reports) \in Events
         /\ Head(reports).t = "order" => Head(reports) \in OrderEvents
         /\ Head(reports).t = "trade" => Head(reports) \in TradeEvents
<1>1. Head(reports) \in Events /\ Tail(reports) \in Seq(Events)
  BY DEF OmsTypes
<1>2. \A e \in Events : (e.t = "order" => e \in OrderEvents) /\ (e.t = "trade" => e \in TradeEvents)
  BY DEF Events, OrderEvents, TradeEvents
<1> QED
  BY <1>1, <1>2

\* An order event changes what is frozen.
LEMMA OrderTypes ==
  ASSUME OmsTypes, ProcessOrderEvent
  PROVE  /\ OmsTypes'
         /\ \A s \in Sides : /\ holding'[s].td = holding[s].td /\ holding'[s].yd = holding[s].yd
                             /\ holding'[s].pos = holding[s].pos
<1>1. Head(reports) \in OrderEvents /\ reports' \in Seq(Events)
  BY NextEvent DEF ProcessOrderEvent
<1>2. active_orders' \in SUBSET OrderType /\ IsFiniteSet(active_orders')
  BY <1>1, ActiveTypes DEF ProcessOrderEvent
<1>3. /\ holding' \in [Sides -> Volumes]
      /\ \A s \in Sides : /\ holding'[s].td = holding[s].td /\ holding'[s].yd = holding[s].yd
                          /\ holding'[s].pos = holding[s].pos
  BY <1>2, CalculateFrozenTypes DEF ProcessOrderEvent, OmsTypes
<1> QED
  BY <1>1, <1>2, <1>3 DEF ProcessOrderEvent, OmsTypes, venueVars

\* A trade event changes the side that it opens or closes.
LEMMA TradeTypes ==
  ASSUME OmsTypes, ProcessTradeEvent
  PROVE  /\ OmsTypes'
         /\ \A s \in Sides : /\ holding'[s].td = Taken(holding[s], Head(reports), s, shfe).td
                             /\ holding'[s].yd = Taken(holding[s], Head(reports), s, shfe).yd
                             /\ holding'[s].pos = holding'[s].td + holding'[s].yd
<1> DEFINE e == Head(reports)
<1>1. e \in TradeEvents /\ reports' \in Seq(Events)
  BY NextEvent DEF ProcessTradeEvent
<1>2. /\ holding' = UpdateTrade(holding, e, shfe)
      /\ told' = [told EXCEPT ![Side(e)] = Append(@, e.n)]
  BY DEF ProcessTradeEvent
<1> HIDE DEF e
<1>3. e.direction \in Sides /\ e.offset \in Traders /\ e.volume \in Int /\ e.n \in Nat
  BY <1>1 DEF TradeEvents
<1>4. /\ holding' \in [Sides -> Volumes]
      /\ \A s \in Sides : /\ holding'[s].td = Taken(holding[s], e, s, shfe).td
                          /\ holding'[s].yd = Taken(holding[s], e, s, shfe).yd
                          /\ holding'[s].pos = holding'[s].td + holding'[s].yd
  <2>1. holding \in [Sides -> Volumes] /\ shfe \in BOOLEAN
    BY DEF OmsTypes
  <2> QED
    <3> DEFINE g == UpdateTrade(holding, e, shfe)
    <3>1. /\ g \in [Sides -> Volumes]
          /\ \A s \in Sides : /\ g[s].td = Taken(holding[s], e, s, shfe).td
                              /\ g[s].yd = Taken(holding[s], e, s, shfe).yd
                              /\ g[s].pos = g[s].td + g[s].yd
      BY <1>3, <2>1, UpdateTradeTypes
    <3>2. holding' = g
      BY <1>2
    <3> HIDE DEF g
    <3> QED
      BY <3>1, <3>2
<1>5. told' \in [Sides -> Seq(Nat)]
  <2>1. Side(e) \in Sides
    BY <1>3, Targets DEF Side
  <2>2. Append(told[Side(e)], e.n) \in Seq(Nat)
    BY <1>3, <2>1 DEF OmsTypes
  <2> QED
    BY <1>2, <2>1, <2>2 DEF OmsTypes
<1>6. OmsTypes'
  BY <1>1, <1>4, <1>5 DEF ProcessTradeEvent, OmsTypes, venueVars
<1> QED
  BY <1>4, <1>6 DEF e

\* A position event replaces the volumes of its side, if the contract is known.
LEMMA PositionTypes ==
  ASSUME OmsTypes, ProcessPositionEvent
  PROVE  /\ OmsTypes'
         /\ Head(pushes) \in Positions
         /\ \A s \in Sides :
              IF contracts /\ s = Head(pushes).side
              THEN /\ holding'[s].td = Head(pushes).td /\ holding'[s].yd = Head(pushes).yd
                   /\ holding'[s].pos = holding'[s].td + holding'[s].yd
              ELSE holding'[s] = holding[s]
<1> DEFINE e == Head(pushes)
           v == holding[e.side]
           w == [pos |-> e.td + e.yd, yd |-> e.yd, td |-> e.td, pos_frozen |-> v.pos_frozen,
                 yd_frozen |-> v.yd_frozen, td_frozen |-> v.td_frozen]
<1>1. e \in Positions /\ pushes' \in Seq(Positions)
  BY DEF OmsTypes, ProcessPositionEvent
<1>2. holding' = IF contracts THEN UpdatePosition(holding, e) ELSE holding
  BY DEF ProcessPositionEvent
<1> HIDE DEF e
<1>3. e.side \in Sides /\ e.td \in Int /\ e.yd \in Int /\ e.td + e.yd \in Int
  BY <1>1 DEF Positions
<1>4. v \in Volumes
  BY <1>3 DEF OmsTypes
<1>5. UpdatePosition(holding, e) = [holding EXCEPT ![e.side] = w]
  <2> DEFINE f == [holding EXCEPT ![e.side].pos = e.td + e.yd]
             g == [f EXCEPT ![e.side].yd = e.yd]
             x == [v EXCEPT !.pos = e.td + e.yd]
             y == [pos |-> e.td + e.yd, yd |-> v.yd, td |-> v.td, pos_frozen |-> v.pos_frozen,
                   yd_frozen |-> v.yd_frozen, td_frozen |-> v.td_frozen]
  <2>1. UpdatePosition(holding, e) = [g EXCEPT ![e.side].td = e.td]
    BY Zenon DEF UpdatePosition
  <2>2. f = [holding EXCEPT ![e.side] = y] /\ f[e.side] = y
    <3>1. x = y
      BY <1>4, Shapes
    <3>2. f = [holding EXCEPT ![e.side] = x]
      OBVIOUS
    <3> HIDE DEF x, y, f
    <3> QED
      BY <1>3, <3>1, <3>2 DEF OmsTypes
  <2> DEFINE z == [pos |-> e.td + e.yd, yd |-> e.yd, td |-> v.td, pos_frozen |-> v.pos_frozen,
                   yd_frozen |-> v.yd_frozen, td_frozen |-> v.td_frozen]
  <2>3. [y EXCEPT !.yd = e.yd] = z /\ [z EXCEPT !.td = e.td] = w
    OBVIOUS
  <2> HIDE DEF x, y, z, w, v, f
  <2>4. g = [holding EXCEPT ![e.side] = z] /\ g[e.side] = z
    BY <1>3, <2>2, <2>3 DEF OmsTypes
  <2> HIDE DEF g
  <2> QED
    BY <1>3, <2>1, <2>3, <2>4 DEF OmsTypes
<1>6. w \in Volumes /\ w.td = e.td /\ w.yd = e.yd /\ w.pos = w.td + w.yd
  BY <1>3, <1>4 DEF Volumes
<1> HIDE DEF v, w
<1>7. /\ holding' \in [Sides -> Volumes]
      /\ \A s \in Sides : IF contracts /\ s = e.side
                          THEN /\ holding'[s].td = e.td /\ holding'[s].yd = e.yd
                               /\ holding'[s].pos = holding'[s].td + holding'[s].yd
                          ELSE holding'[s] = holding[s]
  BY <1>2, <1>3, <1>5, <1>6 DEF OmsTypes
<1>8. told' \in [Sides -> Seq(Nat)]
  <2>1. e.n \in Nat /\ told' \in {told, [told EXCEPT ![e.side] = [k \in 1 .. e.n |-> k]]}
    BY <1>1 DEF ProcessPositionEvent, Positions, e
  <2>2. [k \in 1 .. e.n |-> k] \in Seq(Nat)
    BY <2>1
  <2> QED
    BY <1>3, <2>1, <2>2 DEF OmsTypes
<1>9. OmsTypes'
  BY <1>1, <1>7, <1>8 DEF ProcessPositionEvent, OmsTypes, venueVars
<1> QED
  BY <1>1, <1>7, <1>9 DEF e

\* The venue closes what the converter assumes that it closes.
LEMMA MovedIsTraded ==
  ASSUME OmsTypes, NEW a \in Balance, NEW offset \in Traders, NEW volume \in Int
  PROVE  Moved(a, offset, volume) = Traded(a, offset, shfe, volume)
<1>1. a = [td |-> a.td, yd |-> a.yd] /\ a.td \in Int /\ a.yd \in Int /\ shfe \in BOOLEAN
  BY Shapes DEF Balance, OmsTypes
<1>2. /\ ByPart.CLOSETODAY = {"CLOSETODAY"}
      /\ ByPart.CLOSEYESTERDAY = IF shfe THEN {"CLOSE", "CLOSEYESTERDAY"} ELSE {"CLOSEYESTERDAY"}
  BY DEF ByPart
<1>3. CASE offset \in {"OPEN", "CLOSETODAY", "CLOSEYESTERDAY"}
  BY <1>1, <1>2, <1>3 DEF Moved, Traded, Spent
<1>4. CASE offset = "CLOSE" /\ shfe
  BY <1>1, <1>2, <1>4 DEF Moved, Traded, Spent
<1>5. CASE offset = "CLOSE" /\ ~shfe
  <2>1. Moved(a, offset, volume) =
          [td |-> a.td - Less(volume, a.td), yd |-> a.yd - (volume - Less(volume, a.td))]
    BY <1>2, <1>5 DEF Moved
  <2>2. CASE a.td >= volume
    <3>1. Less(volume, a.td) = volume
      BY <1>1, <2>2 DEF Less
    <3>2. a.yd - (volume - volume) = a.yd
      BY <1>1
    <3>3. Traded(a, offset, shfe, volume) = [a EXCEPT !.td = @ - volume]
      BY <1>5, <2>2 DEF Traded, Spent
    <3>4. [a EXCEPT !.td = @ - volume] = [td |-> a.td - volume, yd |-> a.yd]
      BY <1>1
    <3> QED
      BY <2>1, <3>1, <3>2, <3>3, <3>4, Zenon
  <2>3. CASE ~(a.td >= volume)
    <3>1. Less(volume, a.td) = a.td
      BY <1>1, <2>3 DEF Less
    <3>2. a.yd - (volume - a.td) = a.yd + a.td - volume /\ a.td - a.td = 0
      BY <1>1
    <3>3. Traded(a, offset, shfe, volume) = [a EXCEPT !.td = 0, !.yd = @ + a.td - volume]
      BY <1>5, <2>3 DEF Traded, Spent
    <3>4. [a EXCEPT !.td = 0, !.yd = @ + a.td - volume] = [td |-> 0, yd |-> a.yd + a.td - volume]
      BY SetBoth, Zenon
    <3> QED
      BY <2>1, <3>1, <3>2, <3>3, <3>4, Zenon
  <2> QED
    BY <2>2, <2>3
<1> QED
  BY <1>3, <1>4, <1>5 DEF Traders, Offsets

\* An answer and a cancellation are reported, and change no position.
LEMMA AnswerTypes ==
  ASSUME OmsTypes, NEW id \in DOMAIN venue, VenueAnswers(id) \/ VenueCancels(id)
  PROVE  /\ OmsTypes'
         /\ \E more \in Seq(OrderEvents) : reports' = reports \o more
         /\ UNCHANGED <<account, statement>>
<1>1. PICK st \in Statuses :
        /\ venue' = [venue EXCEPT ![id].status = st]
        /\ Reported(id, st, <<>>)
  BY Zenon DEF VenueAnswers, VenueCancels, Statuses
<1>2. UNCHANGED <<account, statement>>
  BY Zenon DEF VenueAnswers, VenueCancels
<1>3. venue' \in Seq(VenueOrder) /\ venue'[id] \in VenueOrder
  <2>1. venue' \in Seq(VenueOrder)
    <3>1. 0 \in Int /\ venue \in Seq(VenueOrder)
      BY DEF OmsTypes
    <3> QED
      BY <1>1, <3>1, VenueTypes, Zenon
  <2>2. DOMAIN venue' = DOMAIN venue
    BY <1>1
  <2> QED
    BY <2>1, <2>2
<1>4. OrderEvent(venue'[id], st) \in OrderEvents
  BY <1>3, EventTypes
<1>5. <<OrderEvent(venue'[id], st)>> \in Seq(OrderEvents) /\ reports' = reports \o <<OrderEvent(venue'[id], st)>>
  <2>1. reports' = reports \o <<OrderEvent(venue'[id], st)>> \o <<>>
    BY <1>1 DEF Reported
  <2>2. reports \o <<OrderEvent(venue'[id], st)>> \in Seq(Events)
    BY <1>4 DEF OmsTypes, Events
  <2>3. \A q \in Seq(Events) : q \o <<>> = q
    OBVIOUS
  <2> QED
    BY <1>4, <2>1, <2>2, <2>3
<1>6. reports' \in Seq(Events)
  BY <1>4, <1>5 DEF OmsTypes, Events
<1>7. OmsTypes'
  BY <1>1, <1>2, <1>3, <1>6 DEF Reported, OmsTypes, omsVars
<1> QED
  BY <1>2, <1>5, <1>7

\* A fill moves a position, and a trade event tells of it.
LEMMA FillTypes ==
  ASSUME OmsTypes, NEW id \in DOMAIN venue, VenueFills(id)
  PROVE  /\ OmsTypes'
         /\ \E r \in OrderEvents, e \in TradeEvents :
              /\ reports' = reports \o <<r>> \o <<e>>
              /\ \A s \in Sides : account'[s] = Taken(account[s], e, s, shfe)
              /\ statement' = [statement EXCEPT ![Side(e)] = Append(@, Entry(e.offset, e.volume, account'[Side(e)]))]
              /\ e.n = Len(statement[Side(e)]) + 1
<1> DEFINE o == venue[id]
           s == Target(o.direction, o.offset)
<1>1. o \in VenueOrder
  BY DEF OmsTypes
<1>2. Left(id) \in Int /\ o.direction \in Sides /\ o.offset \in Traders /\ o.traded \in Int
  BY <1>1 DEF Left, VenueOrder
<1>3. PICK volume \in Int, st \in Statuses :
        /\ venue' = [venue EXCEPT ![id].traded = @ + volume, ![id].status = st]
        /\ account' = [account EXCEPT ![s] = Moved(@, o.offset, volume)]
        /\ statement' = [statement EXCEPT ![s] = Append(@, Entry(o.offset, volume, account'[s]))]
        /\ Reported(id, st, <<TradeEvent(o.direction, o.offset, volume, Len(statement'[s]))>>)
  <2>1. Pieces \cup {Left(id)} \subseteq Int
    <3>1. Pieces \subseteq Int
      BY OmsAssumption
    <3>2. Left(id) \in Int
      BY <1>2
    <3> QED
      BY <3>1, <3>2, Zenon
  <2>2. "ALLTRADED" \in Statuses /\ "PARTTRADED" \in Statuses
    BY DEF Statuses
  <2> QED
    BY <2>1, <2>2, Zenon DEF VenueFills
<1> DEFINE r == OrderEvent(venue'[id], st)
           n == Len(statement'[s])
           e == TradeEvent(o.direction, o.offset, volume, n)
<1>4. venue' \in Seq(VenueOrder) /\ venue'[id] \in VenueOrder
  <2>1. venue' = [venue EXCEPT ![id].traded = o.traded + volume, ![id].status = st] /\ o.traded + volume \in Int
    BY <1>2, <1>3
  <2> HIDE DEF o
  <2>2. venue' \in Seq(VenueOrder)
    BY <2>1, VenueTypes DEF OmsTypes
  <2>3. DOMAIN venue' = DOMAIN venue
    BY <2>1
  <2> QED
    BY <2>2, <2>3
<1>5. r \in OrderEvents
  BY <1>4, EventTypes
<1>6. reports' = reports \o <<r>> \o <<e>>
  BY <1>3 DEF Reported
<1>7. e.direction = o.direction /\ e.offset = o.offset /\ e.volume = volume /\ e.n = n
  BY DEF TradeEvent
<1>8. Side(e) = s
  BY <1>7 DEF Side
<1> HIDE DEF o, r, e
<1>9. s \in Sides /\ account[s] \in Balance /\ statement[s] \in Seq(Entries)
  BY <1>2, Targets DEF OmsTypes
<1>10. Moved(account[s], o.offset, volume) = Traded(account[s], o.offset, shfe, volume)
  BY <1>2, <1>9, MovedIsTraded
<1>11. Traded(account[s], o.offset, shfe, volume) \in Balance
  <2> DEFINE a == account[s]
             v == [pos |-> 0, yd |-> a.yd, td |-> a.td, pos_frozen |-> 0, yd_frozen |-> 0, td_frozen |-> 0]
  <2>1. v \in Volumes /\ a.td = v.td /\ a.yd = v.yd /\ a \in Balance /\ shfe \in BOOLEAN
    BY <1>9 DEF Volumes, Balance, OmsTypes
  <2> HIDE DEF a, v
  <2>2. Traded(a, o.offset, shfe, volume) \in Balance
    BY <1>2, <2>1, TradedTypes
  <2> QED
    BY <2>2 DEF a
<1> HIDE DEF s
<1>12. /\ account' \in [Sides -> Balance]
       /\ \A x \in Sides : account'[x] = IF x = s THEN Traded(account[x], o.offset, shfe, volume) ELSE account[x]
  BY <1>3, <1>9, <1>10, <1>11 DEF OmsTypes
<1>13. \A x \in Sides : account'[x] = Taken(account[x], e, x, shfe)
  BY <1>7, <1>8, <1>12, Zenon DEF Taken, Side
<1> DEFINE y == Entry(o.offset, volume, account'[s])
<1>14. y \in Entries
  BY <1>2, <1>9, <1>12, EventTypes
<1> HIDE DEF y
<1>15. Append(statement[s], y) \in Seq(Entries) /\ Len(Append(statement[s], y)) = Len(statement[s]) + 1
       /\ Len(statement[s]) + 1 \in Nat
  BY <1>9, <1>14
<1>16. statement' = [statement EXCEPT ![s] = Append(statement[s], y)]
  BY <1>3 DEF y
<1>17. statement' \in [Sides -> Seq(Entries)] /\ statement'[s] = Append(statement[s], y)
  BY <1>9, <1>15, <1>16 DEF OmsTypes
<1>18. n = Len(statement[s]) + 1 /\ n \in Nat
  BY <1>15, <1>17
<1> HIDE DEF n
<1>19. e \in TradeEvents
  BY <1>2, <1>18, EventTypes DEF e
<1>20. reports' \in Seq(Events)
  BY <1>5, <1>6, <1>19 DEF OmsTypes, Events
<1>21. OmsTypes'
  BY <1>3, <1>4, <1>12, <1>17, <1>20 DEF Reported, OmsTypes, omsVars
<1>22. /\ statement' = [statement EXCEPT ![Side(e)] = Append(@, Entry(e.offset, e.volume, account'[Side(e)]))]
       /\ e.n = Len(statement[Side(e)]) + 1
  BY <1>7, <1>8, <1>16, <1>18, Zenon DEF y
<1> QED
  BY <1>5, <1>6, <1>13, <1>19, <1>21, <1>22, Zenon

\* A trade is reported again.
LEMMA RepeatTypes ==
  ASSUME OmsTypes, NEW s \in Sides, NEW n \in 2 .. Len(statement[s]), VenueRepeats(s, n)
  PROVE  /\ OmsTypes'
         /\ \E e \in TradeEvents : /\ reports' = Append(reports, e) /\ Side(e) = s /\ e.n = n
                                   /\ e.offset = statement[s][n].offset /\ e.volume = statement[s][n].volume
<1> DEFINE x == statement[s][n]
           direction == IF x.offset = "OPEN" THEN s ELSE Opposite(s)
           e == TradeEvent(direction, x.offset, x.volume, n)
<1>1. x \in Entries /\ n \in Nat
  BY DEF OmsTypes
<1>2. x.offset \in Traders /\ x.volume \in Int
  BY <1>1 DEF Entries
<1>3. reports' = Append(reports, e)
  BY DEF VenueRepeats
<1> HIDE DEF x
<1>4. direction \in Sides /\ Target(direction, x.offset) = s
  BY DEF Sides, Opposite, Target
<1> HIDE DEF direction
<1>5. e \in TradeEvents
  BY <1>1, <1>2, <1>4, EventTypes
<1>6. Side(e) = s /\ e.n = n /\ e.offset = x.offset /\ e.volume = x.volume
  BY <1>4 DEF TradeEvent, Side
<1> HIDE DEF e
<1>7. reports' \in Seq(Events)
  BY <1>3, <1>5 DEF OmsTypes, Events
<1>8. OmsTypes'
  BY <1>7 DEF VenueRepeats, OmsTypes, omsVars, venueVars
<1> QED
  BY <1>3, <1>5, <1>6, <1>8 DEF x

LEMMA OmsTypesStep == OmsTypes /\ [Next]_vars => OmsTypes'
<1> SUFFICES ASSUME OmsTypes, [Next]_vars PROVE OmsTypes'
  OBVIOUS
<1>1. CASE ProcessContractEvent
  BY <1>1 DEF ProcessContractEvent, OmsTypes, venueVars
<1>2. CASE ProcessOrderEvent
  BY <1>2, OrderTypes
<1>3. CASE ProcessTradeEvent
  BY <1>3, TradeTypes
<1>4. CASE ProcessPositionEvent
  BY <1>4, PositionTypes
<1>5. ASSUME NEW req \in Requests, NEW mode \in Modes, SendOrder(req, mode) PROVE OmsTypes'
  <2>1. PICK more \in Seq(OrderEvents) : reports' = reports \o more
    BY <1>5, SentTypes
  <2>2. reports' \in Seq(Events)
    <3>1. more \in Seq(Events)
      BY DEF Events
    <3> QED
      BY <2>1, <3>1 DEF OmsTypes
  <2> QED
    BY <1>5, <2>2, SentTypes DEF SendOrder, OmsTypes
<1>6. ASSUME NEW id \in DOMAIN venue, VenueAnswers(id) \/ VenueFills(id) \/ VenueCancels(id) PROVE OmsTypes'
  BY <1>6, AnswerTypes, FillTypes
<1>7. ASSUME NEW s \in Sides, VenuePushes(s) PROVE OmsTypes'
  <2>1. Len(statement[s]) \in Nat
    BY DEF OmsTypes
  <2>2. Position(s, account, Len(statement[s])) \in Positions
    BY <2>1, EventTypes DEF OmsTypes
  <2> QED
    BY <1>7, <2>2 DEF VenuePushes, OmsTypes, omsVars, venueVars
<1>8. CASE UNCHANGED vars
  BY <1>8 DEF vars, OmsTypes, venueVars
<1> QED
  BY <1>1, <1>2, <1>3, <1>4, <1>5, <1>6, <1>7, <1>8, RepeatTypes, Zenon DEF Next

\* The converter, its orders and the events in flight have their types, whatever
\* is requested, held and filled.
THEOREM OmsTypeCorrect == Spec => []OmsTypes
<1>1. Init => OmsTypes
  BY OmsTypesInit
<1>2. OmsTypes /\ [Next]_vars => OmsTypes'
  BY OmsTypesStep
<1> QED
  BY <1>1, <1>2, PTL DEF Spec
-------------------------------------------------------------------------------
(* The holding follows the venue.  A side's statement leads from the position *)
(* of the start, trade after trade, to what the venue has; the trades and the  *)
(* positions in flight are of it, and what is held is what the trades that     *)
(* were told add up to.                                                        *)

At(x) == [td |-> x.td, yd |-> x.yd]
Upto(n) == [k \in 1 .. n |-> k]
Worths(w, q) == [k \in DOMAIN w |-> Worth(q[w[k]])]

\* Each entry is what its trade makes of the one before.
Stated(q, a, sh) ==
  /\ Len(q) > 0 /\ Worth(q[1]) = q[1].td + q[1].yd
  /\ At(q[Len(q)]) = a
  /\ \A n \in 2 .. Len(q) : At(q[n]) = Traded(At(q[n - 1]), q[n].offset, sh, q[n].volume)

TradeStated(e, q) == e.n \in 2 .. Len(q) /\ q[e.n].offset = e.offset /\ q[e.n].volume = e.volume
PushStated(e, q) == e.n \in 1 .. Len(q) /\ q[e.n].td = e.td /\ q[e.n].yd = e.yd

\* The holding of a side, told of the trades w.
Follows(v, w, q) ==
  /\ w \in Seq(1 .. Len(q))
  /\ v.td + v.yd = Total(Worths(w, q))
  /\ \A n \in 1 .. Len(q) : w = Upto(n) => v.td = q[n].td /\ v.yd = q[n].yd

StatementsLead == \A s \in Sides : Stated(statement[s], account[s], shfe)
TradesStated == \A i \in 1 .. Len(reports) : reports[i].t = "trade" => TradeStated(reports[i], statement[Side(reports[i])])
PushesStated == \A i \in 1 .. Len(pushes) : PushStated(pushes[i], statement[pushes[i].side])
HoldingTold == \A s \in Sides : Follows(holding[s], told[s], statement[s])
Tracked == StatementsLead /\ TradesStated /\ PushesStated /\ HoldingTold

\* A statement grows at its end.
Grows(q, r) == Len(q) <= Len(r) /\ \A n \in 1 .. Len(q) : r[n] = q[n]

LEMMA WorthTypes == \A x \in Entries : Worth(x) \in Int
BY DEF Worth, Entries

\* The trades that were told, as numbers.
LEMMA WorthsTypes ==
  ASSUME NEW q \in Seq(Entries), NEW w \in Seq(1 .. Len(q))
  PROVE  Worths(w, q) \in Seq(Int) /\ Len(Worths(w, q)) = Len(w)
<1>1. DOMAIN w = 1 .. Len(w) /\ Len(w) \in Nat /\ \A k \in 1 .. Len(w) : w[k] \in 1 .. Len(q)
  OBVIOUS
<1>2. \A k \in 1 .. Len(w) : q[w[k]] \in Entries
  BY <1>1
<1>3. \A k \in DOMAIN w : Worth(q[w[k]]) \in Int
  BY <1>1, <1>2, WorthTypes, Zenon
<1> QED
  BY <1>1, <1>3 DEF Worths

LEMMA OneMore ==
  ASSUME NEW a \in Seq(Int), NEW r \in Int
  PROVE  /\ a \o <<r>> \in Seq(Int) /\ Len(a \o <<r>>) = Len(a) + 1 /\ (a \o <<r>>)[Len(a) + 1] = r
         /\ \A k \in 1 .. Len(a) : (a \o <<r>>)[k] = a[k]
OBVIOUS

\* One more trade is told.
LEMMA WorthsMore ==
  ASSUME NEW q \in Seq(Entries), NEW w \in Seq(1 .. Len(q)), NEW n \in 1 .. Len(q)
  PROVE  /\ Append(w, n) \in Seq(1 .. Len(q))
         /\ Total(Worths(Append(w, n), q)) = Total(Worths(w, q)) + Worth(q[n])
         /\ Total(Worths(w, q)) \in Int
<1> DEFINE a == Worths(w, q)
           r == Worth(q[n])
           z == Append(w, n)
           b == Worths(z, q)
<1>1. a \in Seq(Int) /\ Len(a) = Len(w) /\ Len(w) \in Nat
  BY WorthsTypes
<1>2. r \in Int
  <2>1. q[n] \in Entries
    OBVIOUS
  <2> QED
    BY <2>1, WorthTypes
<1>3. /\ z \in Seq(1 .. Len(q)) /\ Len(z) = Len(w) + 1 /\ z[Len(w) + 1] = n
      /\ \A k \in 1 .. Len(w) : z[k] = w[k]
      /\ DOMAIN z = 1 .. Len(w) + 1 /\ DOMAIN w = 1 .. Len(w)
  OBVIOUS
<1> HIDE DEF z
<1>4. b \in Seq(Int) /\ Len(b) = Len(w) + 1
  BY <1>3, WorthsTypes
<1>5. \A k \in 1 .. Len(w) : a[k] = Worth(q[w[k]])
  BY <1>3, Zenon DEF Worths
<1>6. \A k \in 1 .. Len(w) + 1 : b[k] = Worth(q[z[k]])
  BY <1>3, Zenon DEF Worths
<1>7. b[Len(w) + 1] = r /\ \A k \in 1 .. Len(w) : b[k] = a[k]
  <2>1. Len(w) + 1 \in 1 .. Len(w) + 1 /\ \A k \in 1 .. Len(w) : k \in 1 .. Len(w) + 1
    BY <1>1
  <2> HIDE DEF a, b
  <2> QED
    BY <1>3, <1>5, <1>6, <2>1, Zenon
<1> HIDE DEF a, b, r
<1>8. b = a \o <<r>>
  <2> DEFINE c == a \o <<r>>
             N == Len(w) + 1
  <2>1. /\ c \in Seq(Int) /\ Len(c) = Len(a) + 1 /\ c[Len(a) + 1] = r
        /\ \A k \in 1 .. Len(a) : c[k] = a[k]
    BY <1>1, <1>2, OneMore
  <2>2. c \in Seq(Int) /\ Len(c) = N /\ \A k \in 1 .. Len(w) : c[k] = a[k]
    BY <1>1, <2>1
  <2>3. c[N] = r
    BY <1>1, <2>1
  <2>4. Len(b) = N /\ b[N] = r
    BY <1>4, <1>7
  <2>5. \A k \in 1 .. N : k = N \/ k \in 1 .. Len(w)
    BY <1>1
  <2> HIDE DEF c, N
  <2>6. \A k \in 1 .. N : b[k] = c[k]
    BY <1>7, <2>2, <2>3, <2>4, <2>5, Zenon
  <2>7. b = c
    BY <1>4, <2>2, <2>4, <2>6, SameSeq
  <2> QED
    BY <2>7 DEF c
<1>9. Total(a \o <<r>>) = Total(a) + Total(<<r>>) /\ Total(<<r>>) = r /\ Total(a) \in Int
  <2>1. <<r>> \in Seq(Int)
    BY <1>2
  <2> QED
    BY <1>1, <1>2, <2>1, TotalParts
<1> QED
  BY <1>3, <1>8, <1>9 DEF a, b, r, z

\* What a trade adds to a side, it adds to the volumes of today and of yesterday.
LEMMA TradedWorth ==
  ASSUME NEW v \in Volumes \cup Balance, NEW offset \in Traders, NEW sh \in BOOLEAN, NEW volume \in Int
  PROVE  /\ Traded(v, offset, sh, volume).td \in Int /\ Traded(v, offset, sh, volume).yd \in Int
         /\ Traded(v, offset, sh, volume).td + Traded(v, offset, sh, volume).yd =
              (v.td + v.yd) + (IF offset = "OPEN" THEN volume ELSE -volume)
<1>1. v.td \in Int /\ v.yd \in Int /\ {"td", "yd"} \subseteq DOMAIN v
  BY DEF Volumes, Balance
<1>2. CASE offset = "OPEN"
  <2>1. Traded(v, offset, sh, volume) = [v EXCEPT !.td = @ + volume]
    BY <1>2 DEF Traded
  <2> QED
    BY <1>1, <1>2, <2>1
<1>3. CASE offset # "OPEN" /\ (offset = "CLOSETODAY" \/ (offset = "CLOSE" /\ ~sh /\ v.td >= volume))
  <2>1. Traded(v, offset, sh, volume) = [v EXCEPT !.td = @ - volume]
    BY <1>3 DEF Traded, Spent
  <2> QED
    BY <1>1, <1>3, <2>1
<1>4. CASE offset = "CLOSEYESTERDAY" \/ (offset = "CLOSE" /\ sh)
  <2>1. Traded(v, offset, sh, volume) = [v EXCEPT !.yd = @ - volume]
    BY <1>4 DEF Traded, Spent
  <2> QED
    BY <1>1, <1>4, <2>1
<1>5. CASE offset = "CLOSE" /\ ~sh /\ ~(v.td >= volume)
  <2>1. Traded(v, offset, sh, volume) = [v EXCEPT !.td = 0, !.yd = @ + v.td - volume]
    BY <1>5 DEF Traded, Spent
  <2>2. Traded(v, offset, sh, volume).td = 0 /\ Traded(v, offset, sh, volume).yd = v.yd + v.td - volume
    BY <1>1, <2>1
  <2> QED
    BY <1>1, <1>5, <2>2
<1> QED
  BY <1>2, <1>3, <1>4, <1>5 DEF Traders, Offsets

\* What the venue has after n trades is what they add up to.
LEMMA StatementSums ==
  ASSUME NEW q \in Seq(Entries), NEW a, NEW sh \in BOOLEAN, Stated(q, a, sh), NEW n \in 1 .. Len(q)
  PROVE  /\ Upto(n) \in Seq(1 .. Len(q))
         /\ Total(Worths(Upto(n), q)) = q[n].td + q[n].yd
<1> DEFINE N == Len(q)
           Adds(k) == Total(Worths(Upto(k), q)) = q[k].td + q[k].yd
           T == {k \in 0 .. N : k = 0 \/ Adds(k)}
<1>1. N \in Nat /\ \A k \in 1 .. N : q[k] \in Entries /\ q[k].td \in Int /\ q[k].yd \in Int
  <2>1. N \in Nat /\ \A k \in 1 .. N : q[k] \in Entries
    OBVIOUS
  <2>2. \A x \in Entries : x.td \in Int /\ x.yd \in Int
    BY DEF Entries
  <2> QED
    BY <2>1, <2>2
<1>2. \A k \in 0 .. N : Upto(k) \in Seq(1 .. N)
  BY <1>1 DEF Upto
<1>3. Upto(0) = <<>>
  BY DEF Upto
<1>4. ASSUME NEW k \in 1 .. N
      PROVE  Total(Worths(Upto(k), q)) = Total(Worths(Upto(k - 1), q)) + Worth(q[k])
  <2>1. k - 1 \in 0 .. N
    BY <1>1
  <2>2. Upto(k) = Append(Upto(k - 1), k)
    BY DEF Upto
  <2> QED
    BY <1>2, <2>1, <2>2, WorthsMore
<1>5. ASSUME NEW k \in 1 .. N, k - 1 \in T PROVE k \in T
  <2>1. CASE k = 1
    <3>1. Worths(Upto(0), q) = <<>>
      BY <1>3 DEF Worths
    <3>2. Total(Worths(Upto(0), q)) = 0
      BY <3>1, TotalParts
    <3>3. Worth(q[1]) = q[1].td + q[1].yd /\ Worth(q[1]) \in Int
      BY <1>1, <2>1, WorthTypes DEF Stated
    <3>4. Adds(1)
      BY <1>4, <2>1, <3>2, <3>3
    <3> QED
      BY <2>1, <3>4
  <2>2. CASE k # 1
    <3>1. k \in 2 .. N /\ k - 1 \in 1 .. N /\ k - 1 # 0
      BY <1>1, <2>2
    <3>2. Adds(k - 1)
      BY <1>5, <3>1
    <3>3. At(q[k]) = Traded(At(q[k - 1]), q[k].offset, sh, q[k].volume)
      BY <3>1 DEF Stated
    <3> DEFINE x == At(q[k - 1])
    <3>4. x \in Balance /\ x.td = q[k - 1].td /\ x.yd = q[k - 1].yd /\ q[k].offset \in Traders /\ q[k].volume \in Int
      BY <1>1, <3>1 DEF At, Balance, Entries
    <3> DEFINE o == q[k].offset
               m == q[k].volume
               y == Traded(x, o, sh, m)
    <3> HIDE DEF x
    <3>5. At(q[k]).td + At(q[k]).yd = (x.td + x.yd) + Worth(q[k])
      <4>1. Worth(q[k]) = IF o = "OPEN" THEN m ELSE -m
        BY DEF Worth
      <4>2. At(q[k]) = y
        BY <3>3 DEF x
      <4>3. x \in Volumes \cup Balance /\ o \in Traders /\ m \in Int
        BY <3>4
      <4> HIDE DEF o, m
      <4>4. y.td + y.yd = (x.td + x.yd) + (IF o = "OPEN" THEN m ELSE -m)
        BY <4>3, TradedWorth
      <4> HIDE DEF y
      <4> QED
        BY <4>1, <4>2, <4>4, Zenon
    <3>6. q[k].td + q[k].yd = (q[k - 1].td + q[k - 1].yd) + Worth(q[k])
      BY <3>4, <3>5 DEF At
    <3> DEFINE A == Total(Worths(Upto(k), q))
               B == Total(Worths(Upto(k - 1), q))
               R == Worth(q[k])
    <3>7. A = B + R
      BY <1>4
    <3>8. B = q[k - 1].td + q[k - 1].yd
      BY <3>2
    <3> HIDE DEF A, B, R
    <3>9. A = q[k].td + q[k].yd
      <4>1. q[k].td + q[k].yd = (q[k - 1].td + q[k - 1].yd) + R
        BY <3>6 DEF R
      <4> QED
        BY <3>7, <3>8, <4>1, Zenon
    <3>10. Adds(k)
      BY <3>9 DEF A
    <3> HIDE DEF Adds
    <3> QED
      BY <3>10
  <2> QED
    BY <2>1, <2>2
<1>6. \A k \in 0 .. N : k \in T
  <2>1. 0 \in T
    BY <1>1
  <2> HIDE DEF T
  <2> QED
    BY <1>1, <1>5, <2>1, InductionUpTo
<1>7. n \in 0 .. N /\ n # 0
  OBVIOUS
<1>8. Adds(n)
  BY <1>6, <1>7
<1> QED
  BY <1>2, <1>7, <1>8

\* Nothing is told before the first position, and the first position is the start's.
LEMMA FollowsNothing ==
  ASSUME NEW v, NEW q \in Seq(Entries), v.td = 0, v.yd = 0
  PROVE  Follows(v, <<>>, q)
<1>1. Worths(<<>>, q) = <<>>
  BY DEF Worths
<1>2. Total(Worths(<<>>, q)) = 0
  BY <1>1, TotalParts
<1>3. \A n \in 1 .. Len(q) : Len(Upto(n)) # 0 /\ Len(<<>>) = 0
  BY DEF Upto
<1> QED
  BY <1>2, <1>3 DEF Follows

\* A trade of the statement is told.
LEMMA FollowsTrade ==
  ASSUME NEW q \in Seq(Entries), NEW a, NEW sh \in BOOLEAN, Stated(q, a, sh), NEW v \in Volumes,
         NEW w, Follows(v, w, q), NEW n \in 2 .. Len(q), NEW y,
         y.td = Traded(v, q[n].offset, sh, q[n].volume).td,
         y.yd = Traded(v, q[n].offset, sh, q[n].volume).yd
  PROVE  Follows(y, Append(w, n), q)
<1>1. w \in Seq(1 .. Len(q)) /\ n \in 1 .. Len(q) /\ Len(q) \in Nat /\ n - 1 \in 1 .. Len(q) /\ q[n] \in Entries
      /\ q[n - 1] \in Entries
  BY DEF Follows
<1>2. q[n].offset \in Traders /\ q[n].volume \in Int
  BY <1>1 DEF Entries
<1>3. y.td + y.yd = (v.td + v.yd) + Worth(q[n])
  BY <1>2, TradedWorth DEF Worth
<1>4. Append(w, n) \in Seq(1 .. Len(q)) /\ Total(Worths(Append(w, n), q)) = Total(Worths(w, q)) + Worth(q[n])
  BY <1>1, WorthsMore
<1>5. y.td + y.yd = Total(Worths(Append(w, n), q))
  BY <1>3, <1>4 DEF Follows
<1>6. ASSUME NEW m \in 1 .. Len(q), Append(w, n) = Upto(m) PROVE y.td = q[m].td /\ y.yd = q[m].yd
  <2>1. /\ Len(Append(w, n)) = Len(w) + 1 /\ Append(w, n)[Len(w) + 1] = n /\ Len(w) \in Nat
        /\ \A k \in 1 .. Len(w) : Append(w, n)[k] = w[k]
    BY <1>1
  <2>2. Len(Upto(m)) = m /\ \A k \in 1 .. m : Upto(m)[k] = k
    BY DEF Upto
  <2>3. m = n /\ Len(w) = n - 1
    BY <1>6, <2>1, <2>2
  <2>4. \A k \in 1 .. n - 1 : w[k] = k
    BY <1>6, <2>1, <2>2, <2>3
  <2>5. w = Upto(n - 1)
    BY <1>1, <2>3, <2>4 DEF Upto
  <2>6. v.td = q[n - 1].td /\ v.yd = q[n - 1].yd
    BY <1>1, <2>5 DEF Follows
  <2> DEFINE x == At(q[n - 1])
  <2>7. x \in Balance /\ x.td = v.td /\ x.yd = v.yd
    BY <1>1, <2>6 DEF At, Balance, Entries
  <2>8. At(q[n]) = Traded(x, q[n].offset, sh, q[n].volume)
    BY DEF Stated
  <2> HIDE DEF x
  <2>9. y.td = At(q[n]).td /\ y.yd = At(q[n]).yd
    BY <1>2, <2>7, <2>8, TradedTypes
  <2> QED
    BY <2>3, <2>9 DEF At
<1> QED
  BY <1>4, <1>5, <1>6 DEF Follows

\* A position of the statement is told.
LEMMA FollowsPush ==
  ASSUME NEW q \in Seq(Entries), NEW a, NEW sh \in BOOLEAN, Stated(q, a, sh), NEW n \in 1 .. Len(q),
         NEW y, y.td = q[n].td, y.yd = q[n].yd
  PROVE  Follows(y, Upto(n), q)
<1>1. Upto(n) \in Seq(1 .. Len(q)) /\ Total(Worths(Upto(n), q)) = q[n].td + q[n].yd
  BY StatementSums
<1>2. \A m \in 1 .. Len(q) : Upto(n) = Upto(m) => m = n
  <2>1. \A m \in 1 .. Len(q) : Len(Upto(m)) = m
    BY DEF Upto
  <2> QED
    BY <2>1
<1> QED
  BY <1>1, <1>2 DEF Follows

\* A trade that is not told changes nothing.
LEMMA FollowsGrown ==
  ASSUME NEW q \in Seq(Entries), NEW r \in Seq(Entries), Grows(q, r), NEW v, NEW w, Follows(v, w, q)
  PROVE  Follows(v, w, r)
<1>1. w \in Seq(1 .. Len(q)) /\ Len(q) \in Nat /\ Len(r) \in Nat /\ Len(q) <= Len(r)
  BY DEF Follows, Grows
<1>2. w \in Seq(1 .. Len(r)) /\ \A k \in DOMAIN w : w[k] \in 1 .. Len(q)
  BY <1>1
<1>3. Worths(w, r) = Worths(w, q)
  BY <1>2 DEF Grows, Worths
<1>4. ASSUME NEW n \in 1 .. Len(r), w = Upto(n) PROVE n \in 1 .. Len(q)
  <2>1. n \in DOMAIN w /\ w[n] = n
    BY <1>4 DEF Upto
  <2> QED
    BY <1>2, <2>1
<1> QED
  BY <1>2, <1>3, <1>4 DEF Follows, Grows

LEMMA TrackedInit == Init => Tracked
<1> SUFFICES ASSUME Init PROVE Tracked
  OBVIOUS
<1>1. OmsTypes
  BY OmsTypesInit
<1>2. \A s \in Sides : /\ account[s] \in Balance /\ account[s] = [td |-> account[s].td, yd |-> account[s].yd]
                       /\ account[s].td + account[s].yd \in Int
  BY <1>1, Shapes DEF OmsTypes, Balance
<1>3. ASSUME NEW s \in Sides
      PROVE  /\ statement[s] \in Seq(Entries) /\ Len(statement[s]) = 1
             /\ statement[s][1].td = account[s].td /\ statement[s][1].yd = account[s].yd
             /\ Worth(statement[s][1]) = account[s].td + account[s].yd
  <2> DEFINE x == Entry("OPEN", account[s].td + account[s].yd, account[s])
  <2>1. statement[s] = <<x>>
    BY DEF Init
  <2>2. x.offset = "OPEN" /\ x.volume = account[s].td + account[s].yd /\ x.td = account[s].td /\ x.yd = account[s].yd
    BY DEF Entry
  <2> HIDE DEF x
  <2>3. Worth(x) = account[s].td + account[s].yd
    BY <2>2, Zenon DEF Worth
  <2>4. statement[s] \in Seq(Entries)
    BY <1>1 DEF OmsTypes
  <2>5. Len(statement[s]) = 1 /\ statement[s][1] = x
    BY <2>1
  <2> QED
    BY <2>2, <2>3, <2>4, <2>5, Zenon
<1>4. StatementsLead
  <2> SUFFICES ASSUME NEW s \in Sides PROVE Stated(statement[s], account[s], shfe)
    BY DEF StatementsLead
  <2>1. At(statement[s][1]) = account[s]
    BY <1>2, <1>3 DEF At
  <2> QED
    BY <1>3, <2>1 DEF Stated
<1>5. TradesStated
  BY DEF Init, TradesStated
<1>6. PushesStated
  <2>1. pushes = <<Position("LONG", account, 1), Position("SHORT", account, 1)>>
    BY DEF Init
  <2>2. \A i \in 1 .. Len(pushes) : pushes[i] = Position("LONG", account, 1) \/ pushes[i] = Position("SHORT", account, 1)
    BY <2>1
  <2>3. \A s \in Sides : PushStated(Position(s, account, 1), statement[s]) /\ Position(s, account, 1).side = s
    BY <1>3 DEF PushStated, Position
  <2>4. "LONG" \in Sides /\ "SHORT" \in Sides
    BY DEF Sides
  <2> QED
    BY <2>2, <2>3, <2>4, Zenon DEF PushesStated
<1>7. HoldingTold
  <2> SUFFICES ASSUME NEW s \in Sides PROVE Follows(holding[s], told[s], statement[s])
    BY DEF HoldingTold
  <2>1. holding[s].td = 0 /\ holding[s].yd = 0 /\ told[s] = <<>>
    BY DEF Init, Empty
  <2> QED
    BY <1>3, <2>1, FollowsNothing
<1> QED
  BY <1>4, <1>5, <1>6, <1>7 DEF Tracked

\* What of this only moves with the volumes, the statements and the events of trades.
LEMMA TrackedSame ==
  ASSUME OmsTypes, Tracked, UNCHANGED <<shfe, account, statement, told>>,
         \A s \in Sides : holding'[s].td = holding[s].td /\ holding'[s].yd = holding[s].yd
  PROVE  StatementsLead' /\ HoldingTold'
<1>1. StatementsLead'
  BY DEF Tracked, StatementsLead
<1>2. ASSUME NEW s \in Sides PROVE Follows(holding[s], told[s], statement[s])'
  <2>1. Follows(holding[s], told[s], statement[s])
    BY DEF Tracked, HoldingTold
  <2> QED
    BY <2>1 DEF Follows
<1> QED
  BY <1>1, <1>2 DEF HoldingTold

\* Events that are handled or added leave the others as they were.
LEMMA TailStated ==
  ASSUME OmsTypes, TradesStated, reports # <<>>, reports' = Tail(reports), statement' = statement
  PROVE  TradesStated'
<1>1. \A i \in 1 .. Len(reports') : i + 1 \in 1 .. Len(reports) /\ reports'[i] = reports[i + 1]
  BY DEF OmsTypes
<1> QED
  BY <1>1, Zenon DEF TradesStated

LEMMA AddedStated ==
  ASSUME OmsTypes, TradesStated, NEW more \in Seq(Events), reports' = reports \o more, statement' = statement,
         \A i \in 1 .. Len(more) : more[i].t = "trade" => TradeStated(more[i], statement[Side(more[i])])
  PROVE  TradesStated'
<1>1. \A i \in 1 .. Len(reports') : \/ i \in 1 .. Len(reports) /\ reports'[i] = reports[i]
                                    \/ i - Len(reports) \in 1 .. Len(more) /\ reports'[i] = more[i - Len(reports)]
  BY DEF OmsTypes
<1> QED
  BY <1>1, Zenon DEF TradesStated

LEMMA OrderTracked == ASSUME OmsTypes, Tracked, ProcessOrderEvent PROVE Tracked'
<1>1. \A s \in Sides : holding'[s].td = holding[s].td /\ holding'[s].yd = holding[s].yd
  BY OrderTypes
<1>2. /\ reports # <<>> /\ reports' = Tail(reports)
      /\ UNCHANGED <<shfe, account, statement, told, pushes>>
  BY DEF ProcessOrderEvent, venueVars
<1>3. StatementsLead' /\ HoldingTold'
  BY <1>1, <1>2, TrackedSame
<1>4. TradesStated'
  BY <1>2, TailStated DEF Tracked
<1> QED
  BY <1>2, <1>3, <1>4 DEF Tracked, PushesStated

LEMMA TradeTracked == ASSUME OmsTypes, Tracked, ProcessTradeEvent PROVE Tracked'
<1> DEFINE e == Head(reports)
           x == Side(e)
<1>1. /\ reports # <<>> /\ reports' = Tail(reports) /\ UNCHANGED <<shfe, pushes, account, statement>>
      /\ e.t = "trade" /\ told' = [told EXCEPT ![x] = Append(@, e.n)]
  BY DEF ProcessTradeEvent, venueVars
<1>2. \A s \in Sides : /\ holding'[s].td = Taken(holding[s], e, s, shfe).td
                       /\ holding'[s].yd = Taken(holding[s], e, s, shfe).yd
  BY TradeTypes
<1>3. e = reports[1] /\ 1 \in 1 .. Len(reports)
  BY <1>1 DEF OmsTypes
<1>4. TradeStated(e, statement[x])
  BY <1>1, <1>3 DEF Tracked, TradesStated
<1>5. TradesStated'
  BY <1>1, TailStated DEF Tracked
<1> HIDE DEF e
<1>6. ASSUME NEW s \in Sides PROVE Follows(holding'[s], told'[s], statement[s])
  <2>1. /\ Follows(holding[s], told[s], statement[s]) /\ Stated(statement[s], account[s], shfe)
        /\ statement[s] \in Seq(Entries) /\ holding[s] \in Volumes /\ shfe \in BOOLEAN
    BY DEF Tracked, HoldingTold, StatementsLead, OmsTypes
  <2>2. CASE s = x
    <3>1. told'[s] = Append(told[s], e.n)
      BY <1>1, <2>2 DEF OmsTypes
    <3>2. /\ holding'[s].td = Traded(holding[s], e.offset, shfe, e.volume).td
          /\ holding'[s].yd = Traded(holding[s], e.offset, shfe, e.volume).yd
      BY <1>2, <2>2 DEF Taken, Side
    <3> DEFINE q == statement[s]
               n == e.n
               v == holding[s]
               y == holding'[s]
    <3>3. n \in 2 .. Len(q) /\ q[n].offset = e.offset /\ q[n].volume = e.volume
      BY <1>4, <2>2 DEF TradeStated
    <3>4. /\ y.td = Traded(v, q[n].offset, shfe, q[n].volume).td
          /\ y.yd = Traded(v, q[n].offset, shfe, q[n].volume).yd
      BY <3>2, <3>3
    <3>5. q \in Seq(Entries) /\ v \in Volumes /\ Stated(q, account[s], shfe) /\ Follows(v, told[s], q)
      BY <2>1
    <3> HIDE DEF q, n, v, y
    <3>6. Follows(y, Append(told[s], n), q)
      BY <2>1, <3>3, <3>4, <3>5, FollowsTrade
    <3> QED
      BY <3>1, <3>6 DEF q, n, y
  <2>3. CASE s # x
    <3>1. told'[s] = told[s]
      BY <1>1, <2>3 DEF OmsTypes
    <3>2. holding'[s].td = holding[s].td /\ holding'[s].yd = holding[s].yd
      BY <1>2, <2>3 DEF Taken, Side
    <3> QED
      BY <2>1, <3>1, <3>2 DEF Follows
  <2> QED
    BY <2>2, <2>3
<1>7. HoldingTold'
  BY <1>1, <1>6 DEF HoldingTold
<1>8. StatementsLead'
  BY <1>1 DEF Tracked, StatementsLead
<1> QED
  BY <1>1, <1>5, <1>7, <1>8 DEF Tracked, PushesStated

LEMMA PositionTracked == ASSUME OmsTypes, Tracked, ProcessPositionEvent PROVE Tracked'
<1> DEFINE e == Head(pushes)
<1>1. /\ pushes # <<>> /\ pushes' = Tail(pushes)
      /\ UNCHANGED <<shfe, reports, account, statement>>
      /\ told' = IF contracts THEN [told EXCEPT ![e.side] = [k \in 1 .. e.n |-> k]] ELSE told
  BY DEF ProcessPositionEvent, venueVars
<1>2. \A s \in Sides :
        IF contracts /\ s = e.side THEN holding'[s].td = e.td /\ holding'[s].yd = e.yd
        ELSE holding'[s] = holding[s]
  BY PositionTypes
<1>3. /\ e = pushes[1] /\ 1 \in 1 .. Len(pushes)
      /\ \A i \in 1 .. Len(pushes') : i + 1 \in 1 .. Len(pushes) /\ pushes'[i] = pushes[i + 1]
  BY <1>1 DEF OmsTypes
<1>4. PushesStated'
  BY <1>1, <1>3, Zenon DEF Tracked, PushesStated
<1>5. PushStated(e, statement[e.side])
  BY <1>3 DEF Tracked, PushesStated
<1> HIDE DEF e
<1>6. ASSUME NEW s \in Sides PROVE Follows(holding'[s], told'[s], statement[s])
  <2>1. /\ Follows(holding[s], told[s], statement[s]) /\ Stated(statement[s], account[s], shfe)
        /\ statement[s] \in Seq(Entries) /\ shfe \in BOOLEAN
    BY DEF Tracked, HoldingTold, StatementsLead, OmsTypes
  <2>2. CASE contracts /\ s = e.side
    <3>1. told'[s] = Upto(e.n)
      BY <1>1, <2>2 DEF OmsTypes, Upto
    <3> DEFINE q == statement[s]
               n == e.n
               y == holding'[s]
    <3>2. n \in 1 .. Len(q) /\ y.td = q[n].td /\ y.yd = q[n].yd
      BY <1>2, <1>5, <2>2 DEF PushStated
    <3>3. q \in Seq(Entries) /\ Stated(q, account[s], shfe)
      BY <2>1
    <3> HIDE DEF q, n, y
    <3>4. Follows(y, Upto(n), q)
      BY <2>1, <3>2, <3>3, FollowsPush
    <3> QED
      BY <3>1, <3>4 DEF q, n, y
  <2>3. CASE ~(contracts /\ s = e.side)
    <3>1. told'[s] = told[s] /\ holding'[s] = holding[s]
      BY <1>1, <1>2, <2>3 DEF OmsTypes
    <3> QED
      BY <2>1, <3>1
  <2> QED
    BY <2>2, <2>3
<1>7. HoldingTold'
  BY <1>1, <1>6 DEF HoldingTold
<1>8. StatementsLead' /\ TradesStated'
  BY <1>1 DEF Tracked, StatementsLead, TradesStated
<1> QED
  BY <1>4, <1>7, <1>8 DEF Tracked

LEMMA FillTracked == ASSUME OmsTypes, Tracked, NEW id \in DOMAIN venue, VenueFills(id) PROVE Tracked'
<1>1. PICK r \in OrderEvents, e \in TradeEvents :
        /\ reports' = reports \o <<r>> \o <<e>>
        /\ \A s \in Sides : account'[s] = Taken(account[s], e, s, shfe)
        /\ statement' = [statement EXCEPT ![Side(e)] = Append(@, Entry(e.offset, e.volume, account'[Side(e)]))]
        /\ e.n = Len(statement[Side(e)]) + 1
  BY FillTypes
<1>2. OmsTypes' /\ UNCHANGED <<shfe, holding, pushes, told>>
  BY FillTypes DEF VenueFills, Reported
<1> DEFINE x == Side(e)
           q == statement[x]
           y == Entry(e.offset, e.volume, account'[x])
<1>3. e.direction \in Sides /\ e.offset \in Traders /\ e.volume \in Int /\ e.t = "trade" /\ r.t = "order"
  BY DEF TradeEvents, OrderEvents
<1>4. x \in Sides /\ account'[x] \in Balance /\ account[x] \in Balance /\ q \in Seq(Entries)
  BY <1>2, <1>3, Targets DEF Side, OmsTypes
<1>5. y \in Entries /\ y.offset = e.offset /\ y.volume = e.volume /\ y.td = account'[x].td /\ y.yd = account'[x].yd
  <2>1. y \in Entries
    BY <1>3, <1>4, EventTypes
  <2> QED
    BY <2>1 DEF Entry
<1>6. At(y) = account'[x]
  BY <1>4, <1>5, Shapes DEF At
<1>7. account'[x] = Traded(account[x], e.offset, shfe, e.volume)
  BY <1>1, <1>4 DEF Taken, Side
<1> HIDE DEF y
<1>8. \A s \in Sides : statement'[s] = IF s = x THEN Append(q, y) ELSE statement[s]
  BY <1>1, <1>4 DEF y, OmsTypes
<1>9. /\ Append(q, y) \in Seq(Entries) /\ Len(Append(q, y)) = Len(q) + 1 /\ Append(q, y)[Len(q) + 1] = y
      /\ Len(q) \in Nat /\ \A n \in 1 .. Len(q) : Append(q, y)[n] = q[n]
  BY <1>4, <1>5
<1>10. \A s \in Sides : account'[s] = IF s = x THEN account'[x] ELSE account[s]
  BY <1>1 DEF Taken, Side
<1>11. e.n = Len(q) + 1
  BY <1>1
<1>12. \A s \in Sides : statement[s] \in Seq(Entries) /\ statement'[s] \in Seq(Entries) /\ Grows(statement[s], statement'[s])
  <2>1. \A s \in Sides : statement[s] \in Seq(Entries) /\ Len(statement[s]) \in Nat
    BY DEF OmsTypes
  <2>2. Grows(q, Append(q, y))
    BY <1>9 DEF Grows
  <2>3. \A s \in Sides : Grows(statement[s], statement[s])
    BY <2>1 DEF Grows
  <2> HIDE DEF q
  <2> QED
    BY <1>2, <1>8, <2>1, <2>2, <2>3, Zenon DEF OmsTypes, q
<1> HIDE DEF x
<1>13. HoldingTold'
  <2> SUFFICES ASSUME NEW s \in Sides PROVE Follows(holding[s], told[s], statement'[s])
    BY <1>2 DEF HoldingTold
  <2>1. Follows(holding[s], told[s], statement[s])
    BY DEF Tracked, HoldingTold
  <2> QED
    BY <1>12, <2>1, FollowsGrown
<1>14. StatementsLead'
  <2> SUFFICES ASSUME NEW s \in Sides PROVE Stated(statement'[s], account'[s], shfe)
    BY <1>2 DEF StatementsLead
  <2>1. Stated(statement[s], account[s], shfe)
    BY DEF Tracked, StatementsLead
  <2>2. CASE s # x
    <3>1. statement'[s] = statement[s] /\ account'[s] = account[s]
      BY <1>8, <1>10, <2>2
    <3> QED
      BY <2>1, <3>1
  <2>3. CASE s = x
    <3> DEFINE p == Append(q, y)
               N == Len(q)
    <3>1. statement'[s] = p /\ Stated(q, account[x], shfe)
      BY <1>8, <2>1, <2>3
    <3>2. N > 0 /\ Worth(q[1]) = q[1].td + q[1].yd /\ At(q[N]) = account[x]
      BY <3>1 DEF Stated
    <3>3. /\ N \in Nat /\ Len(p) = N + 1 /\ p[N + 1] = y
          /\ \A n \in 1 .. N : p[n] = q[n]
      BY <1>9
    <3>4. \A n \in 2 .. N : At(q[n]) = Traded(At(q[n - 1]), q[n].offset, shfe, q[n].volume)
      BY <3>1 DEF Stated
    <3>5. At(y) = Traded(At(q[N]), y.offset, shfe, y.volume)
      BY <1>5, <1>6, <1>7, <3>2
    <3> HIDE DEF p, N, q
    <3>6. ASSUME NEW n \in 2 .. N + 1 PROVE At(p[n]) = Traded(At(p[n - 1]), p[n].offset, shfe, p[n].volume)
      <4>1. CASE n = N + 1
        <5>1. n - 1 = N /\ p[n - 1] = q[N] /\ p[n] = y
          BY <3>2, <3>3, <4>1
        <5> QED
          BY <3>5, <5>1, Zenon
      <4>2. CASE n # N + 1
        <5>1. n \in 2 .. N /\ p[n] = q[n] /\ p[n - 1] = q[n - 1]
          BY <3>3, <4>2
        <5> QED
          BY <3>4, <5>1, Zenon
      <4> QED
        BY <4>1, <4>2
    <3>7. Len(p) > 0 /\ p[1] = q[1] /\ p[Len(p)] = y
      BY <3>2, <3>3
    <3>8. Stated(p, account'[x], shfe)
      BY <1>6, <3>2, <3>3, <3>6, <3>7 DEF Stated
    <3> QED
      BY <2>3, <3>1, <3>8
  <2> QED
    BY <2>2, <2>3
<1>15. ASSUME NEW s \in Sides, NEW z, TradeStated(z, statement[s]) \/ PushStated(z, statement[s])
       PROVE  /\ TradeStated(z, statement[s]) => TradeStated(z, statement'[s])
              /\ PushStated(z, statement[s]) => PushStated(z, statement'[s])
  <2> DEFINE a == statement[s]
             b == statement'[s]
  <2>1. Len(a) \in Nat /\ Len(b) \in Nat /\ Grows(a, b)
    BY <1>12
  <2> HIDE DEF a, b
  <2>2. TradeStated(z, a) => TradeStated(z, b)
    BY <2>1 DEF TradeStated, Grows
  <2>3. PushStated(z, a) => PushStated(z, b)
    BY <2>1 DEF PushStated, Grows
  <2> QED
    BY <2>2, <2>3 DEF a, b
<1>16. PushesStated'
  <2>1. ASSUME NEW i \in 1 .. Len(pushes) PROVE PushStated(pushes[i], statement'[pushes[i].side])
    <3>1. pushes[i].side \in Sides
      <4>1. pushes[i] \in Positions
        BY DEF OmsTypes
      <4> QED
        BY <4>1 DEF Positions
    <3>2. PushStated(pushes[i], statement[pushes[i].side])
      BY DEF Tracked, PushesStated
    <3> QED
      BY <1>15, <3>1, <3>2
  <2> QED
    BY <1>2, <2>1 DEF PushesStated
<1>17. TradesStated'
  <2>1. ASSUME NEW i \in 1 .. Len(reports'), reports'[i].t = "trade"
        PROVE  TradeStated(reports'[i], statement'[Side(reports'[i])])
    <3>1. \/ i \in 1 .. Len(reports) /\ reports'[i] = reports[i]
          \/ reports'[i] = r
          \/ reports'[i] = e
      <4>1. <<r>> \in Seq(Events) /\ <<e>> \in Seq(Events) /\ reports \in Seq(Events)
        BY DEF Events, OmsTypes
      <4> QED
        BY <1>1, <4>1
    <3>2. CASE i \in 1 .. Len(reports) /\ reports'[i] = reports[i]
      <4>1. reports[i] \in TradeEvents
        <5>1. reports[i] \in Events
          BY <3>2 DEF OmsTypes
        <5> QED
          BY <2>1, <3>2, <5>1 DEF Events, OrderEvents
      <4>2. Side(reports[i]) \in Sides
        BY <4>1, Targets DEF Side, TradeEvents
      <4>3. TradeStated(reports[i], statement[Side(reports[i])])
        BY <2>1, <3>2 DEF Tracked, TradesStated
      <4> QED
        BY <1>15, <3>2, <4>2, <4>3
    <3>3. CASE reports'[i] = e
      <4>1. statement'[x] = Append(q, y)
        BY <1>4, <1>8
      <4>2. q # <<>> /\ Len(q) > 0
        BY <1>4 DEF Tracked, StatementsLead, Stated
      <4> DEFINE p == Append(q, y)
      <4>3. e.n \in 2 .. Len(p) /\ p[e.n] = y
        BY <1>9, <1>11, <4>2
      <4> HIDE DEF p
      <4>4. TradeStated(e, p)
        BY <1>5, <4>3 DEF TradeStated
      <4> QED
        BY <3>3, <4>1, <4>4 DEF p, x
    <3> QED
      BY <1>3, <2>1, <3>1, <3>2, <3>3
  <2> QED
    BY <2>1 DEF TradesStated
<1> QED
  BY <1>13, <1>14, <1>16, <1>17 DEF Tracked

LEMMA PushTracked == ASSUME OmsTypes, Tracked, NEW x \in Sides, VenuePushes(x) PROVE Tracked'
<1> DEFINE q == statement[x]
           e == Position(x, account, Len(q))
<1>1. pushes' = Append(pushes, e) /\ UNCHANGED <<shfe, holding, reports, account, statement, told>>
  BY DEF VenuePushes, venueVars
<1>2. Len(q) > 0 /\ At(q[Len(q)]) = account[x] /\ q \in Seq(Entries)
  BY DEF Tracked, StatementsLead, Stated, OmsTypes
<1>3. PushStated(e, q) /\ e.side = x
  <2>1. Len(q) \in 1 .. Len(q)
    BY <1>2
  <2>2. q[Len(q)].td = account[x].td /\ q[Len(q)].yd = account[x].yd
    <3>1. At(q[Len(q)]).td = account[x].td /\ At(q[Len(q)]).yd = account[x].yd
      BY <1>2
    <3> QED
      BY <3>1 DEF At
  <2>3. e.n = Len(q) /\ e.td = account[x].td /\ e.yd = account[x].yd /\ e.side = x
    BY DEF Position
  <2> HIDE DEF e, q
  <2> QED
    BY <2>1, <2>2, <2>3 DEF PushStated
<1> HIDE DEF e
<1>4. \A i \in 1 .. Len(pushes') : (i \in 1 .. Len(pushes) /\ pushes'[i] = pushes[i]) \/ pushes'[i] = e
  BY <1>1 DEF OmsTypes
<1>5. PushesStated'
  <2> SUFFICES ASSUME NEW i \in 1 .. Len(pushes') PROVE PushStated(pushes'[i], statement[pushes'[i].side])
    BY <1>1 DEF PushesStated
  <2>1. CASE i \in 1 .. Len(pushes) /\ pushes'[i] = pushes[i]
    BY <2>1, Zenon DEF Tracked, PushesStated
  <2>2. CASE pushes'[i] = e
    BY <1>3, <2>2, Zenon
  <2> QED
    BY <1>4, <2>1, <2>2
<1>6. StatementsLead' /\ TradesStated' /\ HoldingTold'
  BY <1>1 DEF Tracked, StatementsLead, TradesStated, HoldingTold
<1> QED
  BY <1>5, <1>6 DEF Tracked

\* Events are added that are no trades, or trades of the statement.
LEMMA AddedTracked ==
  ASSUME OmsTypes, Tracked, NEW more \in Seq(Events), reports' = reports \o more,
         \A i \in 1 .. Len(more) : more[i].t = "trade" => TradeStated(more[i], statement[Side(more[i])]),
         UNCHANGED <<shfe, account, statement, told, pushes>>,
         \A s \in Sides : holding'[s].td = holding[s].td /\ holding'[s].yd = holding[s].yd
  PROVE  Tracked'
<1>1. StatementsLead' /\ HoldingTold'
  BY TrackedSame
<1>2. TradesStated'
  BY AddedStated DEF Tracked
<1> QED
  BY <1>1, <1>2 DEF Tracked, PushesStated

LEMMA RepeatTracked ==
  ASSUME OmsTypes, Tracked, NEW s \in Sides, NEW n \in 2 .. Len(statement[s]), VenueRepeats(s, n)
  PROVE  Tracked'
<1>1. PICK e \in TradeEvents : /\ reports' = Append(reports, e) /\ Side(e) = s /\ e.n = n
                               /\ e.offset = statement[s][n].offset /\ e.volume = statement[s][n].volume
  BY RepeatTypes
<1>2. TradeStated(e, statement[Side(e)])
  BY <1>1 DEF TradeStated
<1>3. <<e>> \in Seq(Events) /\ reports' = reports \o <<e>>
  BY <1>1 DEF Events, OmsTypes
<1>4. \A i \in 1 .. Len(<<e>>) : TradeStated(<<e>>[i], statement[Side(<<e>>[i])])
  BY <1>2
<1>5. UNCHANGED <<shfe, holding, account, statement, told, pushes>>
  BY DEF VenueRepeats, venueVars
<1> QED
  BY <1>3, <1>4, <1>5, AddedTracked

LEMMA TrackedStep == OmsTypes /\ Tracked /\ [Next]_vars => Tracked'
<1> SUFFICES ASSUME OmsTypes, Tracked, [Next]_vars PROVE Tracked'
  OBVIOUS
<1> DEFINE Same == UNCHANGED <<shfe, account, statement, told, pushes>>
<1>1. ASSUME Same, NEW more \in Seq(OrderEvents), reports' = reports \o more,
             \A s \in Sides : holding'[s].td = holding[s].td /\ holding'[s].yd = holding[s].yd
      PROVE  Tracked'
  <2>1. \A i \in 1 .. Len(more) : more[i] \in OrderEvents
    OBVIOUS
  <2>2. \A i \in 1 .. Len(more) : more[i].t # "trade"
    BY <2>1 DEF OrderEvents
  <2>3. more \in Seq(Events)
    BY DEF Events
  <2> QED
    BY <1>1, <2>2, <2>3, AddedTracked
<1>2. <<>> \in Seq(OrderEvents) /\ reports \o <<>> = reports
  BY DEF OmsTypes
<1>3. CASE ProcessContractEvent
  <2>1. Same /\ UNCHANGED <<reports, holding>>
    BY <1>3 DEF ProcessContractEvent, venueVars
  <2> QED
    BY <1>1, <1>2, <2>1
<1>4. ASSUME NEW req \in Requests, NEW mode \in Modes, SendOrder(req, mode) PROVE Tracked'
  <2>1. PICK more \in Seq(OrderEvents) : reports' = reports \o more
    BY <1>4, SentTypes
  <2>2. Same /\ \A s \in Sides : holding'[s].td = holding[s].td /\ holding'[s].yd = holding[s].yd
    BY <1>4, SentTypes DEF SendOrder
  <2> QED
    BY <1>1, <2>1, <2>2
<1>5. ASSUME NEW id \in DOMAIN venue, VenueAnswers(id) \/ VenueCancels(id) PROVE Tracked'
  <2>1. PICK more \in Seq(OrderEvents) : reports' = reports \o more
    BY <1>5, AnswerTypes
  <2>2. Same /\ UNCHANGED holding
    BY <1>5, AnswerTypes DEF VenueAnswers, VenueCancels, Reported
  <2> QED
    BY <1>1, <2>1, <2>2
<1>6. CASE UNCHANGED vars
  <2>1. Same /\ UNCHANGED <<reports, holding>>
    BY <1>6 DEF vars, venueVars
  <2> QED
    BY <1>1, <1>2, <2>1
<1> QED
  BY <1>3, <1>4, <1>5, <1>6, OrderTracked, TradeTracked, PositionTracked, FillTracked, PushTracked, RepeatTracked,
     Zenon DEF Next

\* What is held is the sum of what was told, and the venue's if that is straight.
LEMMA TrackedHolds == OmsTypes /\ Tracked => HoldingTracksVenue
<1> SUFFICES ASSUME OmsTypes, Tracked, NEW s \in Sides
             PROVE  /\ holding[s].td + holding[s].yd =
                         Total([k \in DOMAIN told[s] |-> Worth(statement[s][told[s][k]])])
                    /\ Straight(s) => holding[s].td = account[s].td /\ holding[s].yd = account[s].yd
  BY DEF HoldingTracksVenue
<1> DEFINE q == statement[s]
<1>1. /\ Follows(holding[s], told[s], q) /\ Len(q) \in 1 .. Len(q) /\ At(q[Len(q)]) = account[s]
  <2>1. Stated(q, account[s], shfe) /\ q \in Seq(Entries) /\ Follows(holding[s], told[s], q)
    BY DEF Tracked, HoldingTold, StatementsLead, OmsTypes
  <2> QED
    BY <2>1 DEF Stated
<1>2. holding[s].td + holding[s].yd = Total([k \in DOMAIN told[s] |-> Worth(q[told[s][k]])])
  BY <1>1 DEF Follows, Worths
<1>3. ASSUME Straight(s) PROVE holding[s].td = account[s].td /\ holding[s].yd = account[s].yd
  <2>1. told[s] = Upto(Len(q))
    BY <1>3 DEF Straight, Upto
  <2>2. holding[s].td = q[Len(q)].td /\ holding[s].yd = q[Len(q)].yd
    BY <1>1, <2>1 DEF Follows
  <2>3. At(q[Len(q)]).td = account[s].td /\ At(q[Len(q)]).yd = account[s].yd
    BY <1>1
  <2> QED
    BY <2>2, <2>3 DEF At
<1> QED
  BY <1>2, <1>3

\* What the converter works with is the sum of what it was told, and when it was
\* told of each trade once its volumes of today and yesterday are the venue's, for
\* any number of orders, trades, positions and repetitions in any order.
THEOREM HoldingFollows == Spec => []HoldingTracksVenue
<1>1. Init => OmsTypes /\ Tracked
  BY OmsTypesInit, TrackedInit
<1>2. OmsTypes /\ Tracked /\ [Next]_vars => (OmsTypes /\ Tracked)'
  BY OmsTypesStep, TrackedStep
<1>3. OmsTypes /\ Tracked => HoldingTracksVenue
  BY TrackedHolds
<1> QED
  BY <1>1, <1>2, <1>3, PTL DEF Spec

\* What a request to trade is converted to adds up to the request, whatever the
\* holding was told before: more is asked for only when more is frozen than there
\* is, and less only if the request is refused, or if a lock cuts it twice.
THEOREM ConversionAdds == Spec => []ConversionAddsUp
<1>1. OmsTypes => ConversionAddsUp
  <2> SUFFICES ASSUME OmsTypes, NEW req \in Requests, NEW m \in Modes
               PROVE  LET reqs == Convert(holding, req, shfe, m[1], m[2])
                          at == Available(holding[Opposite(req.direction)])
                      IN  /\ Asked(reqs) > req.volume => at.td < 0 \/ at.yd < 0
                          /\ Asked(reqs) < req.volume =>
                               reqs = <<>> \/ (m[1] /\ req.volume < Asked(reqs) + 2 * Whole)
    BY DEF ConversionAddsUp
  <2>1. req \in RequestType /\ req.volume \in Nat
    BY RequestsTypes
  <2> QED
    BY <2>1, ConvertAddsUp DEF OmsTypes
<1> QED
  BY <1>1, OmsTypeCorrect, PTL
-------------------------------------------------------------------------------
(* What the converter is told of the orders.                                 *)

Tells(e, id) == e.t = "order" /\ e.id = id
Silent(q, id) == \A i \in 1 .. Len(q) : ~Tells(q[i], id)
IsLast(q, i) == \A j \in 1 .. Len(q) : j > i => ~Tells(q[j], q[i].id)

Alike(o, p) == o.direction = p.direction /\ o.offset = p.offset
Says(e, v) == e.id \in 1 .. Len(v) /\ Alike(e, v[e.id])
IsSo(e, v) == OrderOf(e) = OrderOf(v[e.id]) /\ e.status = v[e.id].status

\* The last event of an order says what the venue has; an active order that no
\* event is on its way of is the venue's, and the venue's orders are active.
Numbered(v) == \A k \in 1 .. Len(v) : v[k].id = k
EventsSay(q, v) == \A i \in 1 .. Len(q) : q[i].t = "order" => Says(q[i], v) /\ (IsLast(q, i) => IsSo(q[i], v))
ActiveSay(a, q, v) ==
  \A o \in a : Says(o, v) /\ (Silent(q, o.id) => o = OrderOf(v[o.id]) /\ v[o.id].status \in Active)
KnownSay(a, q, v) == \A k \in 1 .. Len(v) : Silent(q, k) /\ v[k].status \in Active => OrderOf(v[k]) \in a
Heard(a, q, v) == Numbered(v) /\ EventsSay(q, v) /\ ActiveSay(a, q, v) /\ KnownSay(a, q, v)

LEMMA TailSays ==
  ASSUME NEW q \in Seq(Events), q # <<>>
  PROVE  /\ \A id : Silent(q, id) <=> Silent(Tail(q), id) /\ ~Tells(Head(q), id)
         /\ \A i \in 1 .. Len(Tail(q)) :
              i + 1 \in 1 .. Len(q) /\ Tail(q)[i] = q[i + 1] /\ (IsLast(Tail(q), i) => IsLast(q, i + 1))
         /\ 1 \in 1 .. Len(q) /\ Head(q) = q[1]
         /\ Silent(Tail(q), Head(q).id) => IsLast(q, 1)
<1> DEFINE p == Tail(q)
           N == Len(q)
<1>1. /\ N \in Nat /\ N > 0 /\ Len(p) = N - 1 /\ Head(q) = q[1] /\ \A i \in 1 .. N - 1 : p[i] = q[i + 1]
  OBVIOUS
<1> HIDE DEF p, N
<1>2. /\ \A i \in 1 .. N : i = 1 \/ (i - 1 \in 1 .. N - 1 /\ q[i] = p[i - 1] /\ i > 1)
      /\ \A i \in 1 .. N - 1 : i + 1 \in 1 .. N
      /\ 1 \in 1 .. N
  <2>1. \A i \in 1 .. N : i = 1 \/ (i - 1 \in 1 .. N - 1 /\ (i - 1) + 1 = i /\ i > 1)
    BY <1>1
  <2>2. \A i \in 1 .. N : i = 1 \/ (i - 1 \in 1 .. N - 1 /\ q[i] = p[i - 1] /\ i > 1)
    BY <1>1, <2>1
  <2> QED
    BY <1>1, <2>2
<1>3. \A id : Silent(q, id) <=> Silent(p, id) /\ ~Tells(Head(q), id)
  BY <1>1, <1>2 DEF Silent, N
<1>4. ASSUME NEW i \in 1 .. Len(p)
      PROVE  i + 1 \in 1 .. N /\ p[i] = q[i + 1] /\ (IsLast(p, i) => IsLast(q, i + 1))
  <2>1. i + 1 \in 1 .. N /\ p[i] = q[i + 1]
    BY <1>1, <1>2
  <2>2. \A j \in 1 .. N : j > i + 1 => j - 1 \in 1 .. Len(p) /\ j - 1 > i /\ q[j] = p[j - 1]
    BY <1>1, <1>2
  <2> QED
    BY <2>1, <2>2 DEF IsLast, N
<1>5. Silent(p, Head(q).id) => IsLast(q, 1)
  <2>1. \A j \in 1 .. N : j > 1 => j - 1 \in 1 .. Len(p) /\ q[j] = p[j - 1]
    BY <1>1, <1>2
  <2> QED
    BY <1>1, <2>1 DEF IsLast, Silent, N
<1> QED
  BY <1>1, <1>2, <1>3, <1>4, <1>5 DEF p, N

\* The events p are q and more.
Joined(p, q, more) ==
  /\ \A id : Silent(p, id) => Silent(q, id) /\ Silent(more, id)
  /\ \A i \in 1 .. Len(p) :
       \/ /\ i \in 1 .. Len(q) /\ p[i] = q[i]
          /\ IsLast(p, i) => IsLast(q, i) /\ Silent(more, q[i].id)
       \/ \E j \in 1 .. Len(more) : p[i] = more[j] /\ (IsLast(p, i) => IsLast(more, j))

LEMMA MoreSays ==
  ASSUME NEW q \in Seq(Events), NEW more \in Seq(Events), NEW p, p = q \o more
  PROVE  Joined(p, q, more)
<1> DEFINE M == Len(q)
           N == Len(more)
<1>1. /\ M \in Nat /\ N \in Nat /\ Len(p) = M + N
      /\ \A i \in 1 .. M : p[i] = q[i]
      /\ \A j \in 1 .. N : p[M + j] = more[j]
  OBVIOUS
<1> HIDE DEF M, N
<1>2. /\ \A i \in 1 .. M : i \in 1 .. M + N
      /\ \A j \in 1 .. N : M + j \in 1 .. M + N /\ (\A i \in 1 .. M : M + j > i)
      /\ \A j, k \in 1 .. N : k > j => M + k > M + j
      /\ \A i \in 1 .. M + N : i \in 1 .. M \/ \E j \in 1 .. N : i = M + j
  <2>1. \A i \in 1 .. M + N : i \in 1 .. M \/ (i - M \in 1 .. N /\ i = M + (i - M))
    BY <1>1
  <2>2. /\ \A i \in 1 .. M : i \in 1 .. M + N
        /\ \A j \in 1 .. N : M + j \in 1 .. M + N /\ (\A i \in 1 .. M : M + j > i)
        /\ \A j, k \in 1 .. N : k > j => M + k > M + j
    BY <1>1
  <2> QED
    BY <2>1, <2>2, Zenon
<1>3. \A id : Silent(p, id) => Silent(q, id) /\ Silent(more, id)
  <2> SUFFICES ASSUME NEW id, Silent(p, id) PROVE Silent(q, id) /\ Silent(more, id)
    OBVIOUS
  <2>1. \A i \in 1 .. M + N : ~Tells(p[i], id)
    BY <1>1 DEF Silent
  <2>2. Silent(q, id)
    BY <1>1, <1>2, <2>1 DEF Silent, M
  <2>3. Silent(more, id)
    BY <1>1, <1>2, <2>1 DEF Silent, N
  <2> QED
    BY <2>2, <2>3
<1>4. ASSUME NEW i \in 1 .. M PROVE IsLast(p, i) => IsLast(q, i) /\ Silent(more, q[i].id)
  <2> SUFFICES ASSUME IsLast(p, i) PROVE IsLast(q, i) /\ Silent(more, q[i].id)
    OBVIOUS
  <2>1. \A j \in 1 .. M + N : j > i => ~Tells(p[j], q[i].id)
    BY <1>1 DEF IsLast
  <2>2. IsLast(q, i)
    BY <1>1, <1>2, <2>1 DEF IsLast, M
  <2>3. Silent(more, q[i].id)
    BY <1>1, <1>2, <2>1 DEF Silent, N
  <2> QED
    BY <2>2, <2>3
<1>5. ASSUME NEW j \in 1 .. N PROVE IsLast(p, M + j) => IsLast(more, j)
  <2> SUFFICES ASSUME IsLast(p, M + j) PROVE IsLast(more, j)
    OBVIOUS
  <2>1. \A k \in 1 .. M + N : k > M + j => ~Tells(p[k], more[j].id)
    BY <1>1 DEF IsLast
  <2>2. \A k \in 1 .. N : k > j => ~Tells(more[k], more[j].id)
    BY <1>1, <1>2, <2>1
  <2> QED
    BY <2>2 DEF IsLast, N
<1>6. ASSUME NEW i \in 1 .. Len(p)
      PROVE  \/ /\ i \in 1 .. M /\ p[i] = q[i]
                /\ IsLast(p, i) => IsLast(q, i) /\ Silent(more, q[i].id)
             \/ \E j \in 1 .. N : p[i] = more[j] /\ (IsLast(p, i) => IsLast(more, j))
  <2>1. CASE i \in 1 .. M
    BY <1>1, <1>4, <2>1
  <2>2. CASE \E j \in 1 .. N : i = M + j
    <3>1. PICK j \in 1 .. N : i = M + j
      BY <2>2
    <3>2. p[i] = more[j] /\ (IsLast(p, i) => IsLast(more, j))
      BY <1>1, <1>5, <3>1, Zenon
    <3> QED
      BY <3>2
  <2> QED
    BY <1>1, <1>2, <2>1, <2>2
<1> QED
  BY <1>3, <1>6 DEF M, N, Joined

\* Orders that are added or change are told of by more events.
LEMMA HeardMore ==
  ASSUME NEW a, NEW b, NEW q \in Seq(Events), NEW more \in Seq(Events),
         NEW v \in Seq(VenueOrder), NEW w \in Seq(VenueOrder),
         Heard(a, q, v), Numbered(w), Len(w) >= Len(v),
         \A k \in 1 .. Len(v) : Alike(v[k], w[k]) /\ (Silent(more, k) => w[k] = v[k]),
         \A k \in 1 .. Len(w) : Silent(more, k) => k \in 1 .. Len(v),
         EventsSay(more, w),
         a \subseteq b, \A o \in b : o \in a \/ (Says(o, w) /\ ~Silent(more, o.id))
  PROVE  Heard(b, q \o more, w)
<1> DEFINE p == q \o more
<1>1. /\ \A id : Silent(p, id) => Silent(q, id) /\ Silent(more, id)
      /\ \A i \in 1 .. Len(p) :
           \/ /\ i \in 1 .. Len(q) /\ p[i] = q[i]
              /\ IsLast(p, i) => IsLast(q, i) /\ Silent(more, q[i].id)
           \/ \E j \in 1 .. Len(more) : p[i] = more[j] /\ (IsLast(p, i) => IsLast(more, j))
  <2>1. Joined(p, q, more)
    BY MoreSays
  <2> QED
    BY <2>1 DEF Joined
<1> HIDE DEF p
<1>2. \A k \in 1 .. Len(v) : k \in 1 .. Len(w)
  OBVIOUS
<1>3. \A e : Says(e, v) => Says(e, w)
  BY <1>2 DEF Says, Alike
<1>4. EventsSay(p, w)
  <2> SUFFICES ASSUME NEW i \in 1 .. Len(p), p[i].t = "order"
               PROVE  Says(p[i], w) /\ (IsLast(p, i) => IsSo(p[i], w))
    BY DEF EventsSay
  <2>1. CASE /\ i \in 1 .. Len(q) /\ p[i] = q[i]
             /\ IsLast(p, i) => IsLast(q, i) /\ Silent(more, q[i].id)
    <3>1. Says(q[i], v) /\ (IsLast(q, i) => IsSo(q[i], v))
      BY <2>1 DEF Heard, EventsSay
    <3>2. q[i].id \in 1 .. Len(v)
      BY <3>1 DEF Says
    <3>3. Silent(more, q[i].id) => w[q[i].id] = v[q[i].id]
      BY <3>2
    <3> QED
      BY <1>3, <2>1, <3>1, <3>3 DEF IsSo
  <2>2. CASE \E j \in 1 .. Len(more) : p[i] = more[j] /\ (IsLast(p, i) => IsLast(more, j))
    <3>1. PICK j \in 1 .. Len(more) : p[i] = more[j] /\ (IsLast(p, i) => IsLast(more, j))
      BY <2>2
    <3> QED
      BY <3>1 DEF EventsSay
  <2> QED
    BY <1>1, <2>1, <2>2
<1>5. ActiveSay(b, p, w)
  <2> SUFFICES ASSUME NEW o \in b
               PROVE  Says(o, w) /\ (Silent(p, o.id) => o = OrderOf(w[o.id]) /\ w[o.id].status \in Active)
    BY DEF ActiveSay
  <2>1. CASE o \in a
    <3>1. Says(o, v) /\ (Silent(q, o.id) => o = OrderOf(v[o.id]) /\ v[o.id].status \in Active)
      BY <2>1 DEF Heard, ActiveSay
    <3>2. o.id \in 1 .. Len(v)
      BY <3>1 DEF Says
    <3>3. Silent(more, o.id) => w[o.id] = v[o.id]
      BY <3>2
    <3> QED
      BY <1>1, <1>3, <3>1, <3>3
  <2>2. CASE Says(o, w) /\ ~Silent(more, o.id)
    BY <1>1, <2>2
  <2> QED
    BY <2>1, <2>2
<1>6. KnownSay(b, p, w)
  <2> SUFFICES ASSUME NEW k \in 1 .. Len(w), Silent(p, k), w[k].status \in Active
               PROVE  OrderOf(w[k]) \in b
    BY DEF KnownSay
  <2>1. Silent(q, k) /\ Silent(more, k)
    BY <1>1
  <2>2. k \in 1 .. Len(v) /\ w[k] = v[k]
    BY <2>1
  <2> QED
    BY <2>1, <2>2 DEF Heard, KnownSay
<1> QED
  BY <1>4, <1>5, <1>6 DEF Heard, p

\* The front of the events is processed.
LEMMA HeardFront ==
  ASSUME NEW a, NEW q \in Seq(Events), NEW v \in Seq(VenueOrder), Heard(a, q, v), q # <<>>
  PROVE  /\ Head(q).t = "order" => Heard(Updated(a, Head(q)), Tail(q), v)
         /\ Head(q).t = "trade" => Heard(a, Tail(q), v)
<1> DEFINE p == Tail(q)
           e == Head(q)
<1>1. /\ \A id : Silent(q, id) <=> Silent(p, id) /\ ~Tells(e, id)
      /\ \A i \in 1 .. Len(p) :
           i + 1 \in 1 .. Len(q) /\ p[i] = q[i + 1] /\ (IsLast(p, i) => IsLast(q, i + 1))
      /\ 1 \in 1 .. Len(q) /\ e = q[1]
      /\ Silent(p, e.id) => IsLast(q, 1)
  BY TailSays
<1> HIDE DEF p, e
<1>2. EventsSay(p, v)
  <2> SUFFICES ASSUME NEW i \in 1 .. Len(p), p[i].t = "order"
               PROVE  Says(p[i], v) /\ (IsLast(p, i) => IsSo(p[i], v))
    BY DEF EventsSay
  <2>1. i + 1 \in 1 .. Len(q) /\ p[i] = q[i + 1] /\ (IsLast(p, i) => IsLast(q, i + 1))
    BY <1>1
  <2>2. Says(q[i + 1], v) /\ (IsLast(q, i + 1) => IsSo(q[i + 1], v))
    <3> DEFINE j == i + 1
    <3>1. j \in 1 .. Len(q) /\ q[j].t = "order"
      BY <2>1
    <3> HIDE DEF j
    <3>2. Says(q[j], v) /\ (IsLast(q, j) => IsSo(q[j], v))
      BY <3>1 DEF Heard, EventsSay
    <3> QED
      BY <3>2 DEF j
  <2> QED
    BY <2>1, <2>2
<1>3. ASSUME e.t = "order" PROVE Heard(Updated(a, e), p, v)
  <2>1. /\ Says(e, v) /\ (Silent(p, e.id) => OrderOf(e) = OrderOf(v[e.id]) /\ e.status = v[e.id].status)
        /\ \A id : id # e.id /\ Silent(p, id) => Silent(q, id)
    <3>1. \A id : Tells(e, id) <=> id = e.id
      BY <1>3 DEF Tells
    <3>2. Says(e, v) /\ (IsLast(q, 1) => IsSo(e, v))
      BY <1>1, <1>3 DEF Heard, EventsSay
    <3> QED
      BY <1>1, <3>1, <3>2 DEF IsSo
  <2>2. OrderOf(e).id = e.id /\ OrderOf(e).direction = e.direction /\ OrderOf(e).offset = e.offset
    BY DEF OrderOf
  <2>3. ActiveSay(Updated(a, e), p, v)
    <3> SUFFICES ASSUME NEW o \in Updated(a, e)
                 PROVE  Says(o, v) /\ (Silent(p, o.id) => o = OrderOf(v[o.id]) /\ v[o.id].status \in Active)
      BY DEF ActiveSay
    <3>1. CASE o \in a /\ o.id # e.id
      BY <2>1, <3>1 DEF Heard, ActiveSay
    <3>2. CASE o = OrderOf(e) /\ e.status \in Active
      <4>1. o.id = e.id /\ Says(o, v)
        BY <2>1, <2>2, <3>2 DEF Says, Alike
      <4> QED
        BY <2>1, <3>2, <4>1
    <3> QED
      BY <3>1, <3>2 DEF Updated
  <2>4. KnownSay(Updated(a, e), p, v)
    <3> SUFFICES ASSUME NEW k \in 1 .. Len(v), Silent(p, k), v[k].status \in Active
                 PROVE  OrderOf(v[k]) \in Updated(a, e)
      BY DEF KnownSay
    <3>1. CASE k = e.id
      <4>1. OrderOf(e) = OrderOf(v[k]) /\ e.status \in Active
        BY <2>1, <3>1
      <4> QED
        BY <4>1 DEF Updated
    <3>2. CASE k # e.id
      <4>1. OrderOf(v[k]) \in a
        BY <2>1, <3>2 DEF Heard, KnownSay
      <4>2. OrderOf(v[k]).id = k
        BY DEF OrderOf, Heard, Numbered
      <4> QED
        BY <3>2, <4>1, <4>2 DEF Updated
    <3> QED
      BY <3>1, <3>2
  <2> QED
    BY <1>2, <2>3, <2>4 DEF Heard
<1>4. ASSUME e.t = "trade" PROVE Heard(a, p, v)
  <2>1. \A id : Silent(p, id) => Silent(q, id)
    BY <1>1, <1>4 DEF Tells
  <2> QED
    BY <1>2, <2>1 DEF Heard, ActiveSay, KnownSay
<1> QED
  BY <1>3, <1>4 DEF p, e
-------------------------------------------------------------------------------
(* What the venue's orders will close.                                       *)

Resting == {"NOTTRADED", "PARTTRADED"}
Closing(o, s, O) == o.status \in Resting /\ o.offset \in O /\ Opposite(o.direction) = s
Due(o, s, O) == IF Closing(o, s, O) THEN o.volume - o.traded ELSE 0
Dues(v, s, O) == [k \in DOMAIN v |-> Due(v[k], s, O)]
Owed(v, s, O) == Total(Dues(v, s, O))

\* What an order is while it is open at the venue.
Sound(o, sh) ==
  /\ o.offset \in Uses(sh)
  /\ o.status = "SUBMITTING" => o.traded = 0
  /\ o.status \in Resting => 0 <= o.traded /\ o.traded < o.volume
  /\ sh => o.volume \in Lots /\ o.traded \in Lots

LEMMA CommittedIs == \A s, O : Committed(s, O) = Owed(venue, s, O)
BY DEF Committed, Owed, Dues, Due, Closing, Resting, Left

LEMMA DueTypes ==
  ASSUME NEW o \in VenueOrder, NEW s, NEW O
  PROVE  /\ Due(o, s, O) \in Int
         /\ \A sh : Sound(o, sh) => Due(o, s, O) >= 0
<1>1. o.volume \in Int /\ o.traded \in Int
  BY DEF VenueOrder
<1> QED
  BY <1>1 DEF Due, Closing, Sound

LEMMA DuesAre ==
  ASSUME NEW v \in Seq(VenueOrder), NEW s, NEW O
  PROVE  /\ Dues(v, s, O) \in Seq(Int) /\ Len(Dues(v, s, O)) = Len(v)
         /\ \A k \in 1 .. Len(v) : Dues(v, s, O)[k] = Due(v[k], s, O)
<1> DEFINE N == Len(v)
<1>1. N \in Nat /\ DOMAIN v = 1 .. N /\ \A k \in 1 .. N : v[k] \in VenueOrder
  OBVIOUS
<1> HIDE DEF N
<1>2. \A k \in 1 .. N : Due(v[k], s, O) \in Int
  BY <1>1, DueTypes
<1>3. Dues(v, s, O) = [k \in 1 .. N |-> Due(v[k], s, O)]
  BY <1>1 DEF Dues
<1> QED
  BY <1>1, <1>2, <1>3 DEF N

LEMMA OwedChange ==
  ASSUME NEW v \in Seq(VenueOrder), NEW x \in 1 .. Len(v), NEW y \in VenueOrder, NEW s, NEW O
  PROVE  /\ Owed(v, s, O) \in Int
         /\ Owed([v EXCEPT ![x] = y], s, O) = Owed(v, s, O) - Due(v[x], s, O) + Due(y, s, O)
<1> DEFINE w == [v EXCEPT ![x] = y]
           d == Dues(v, s, O)
           c == Dues(w, s, O)
           m == Due(y, s, O)
           e == [d EXCEPT ![x] = m]
           N == Len(v)
<1>1. w \in Seq(VenueOrder) /\ Len(w) = N /\ \A k \in 1 .. N : w[k] = IF k = x THEN y ELSE v[k]
  BY ChangeIs
<1>2. d \in Seq(Int) /\ Len(d) = N /\ \A k \in 1 .. N : d[k] = Due(v[k], s, O)
  BY DuesAre
<1> HIDE DEF w
<1>3. c \in Seq(Int) /\ Len(c) = N /\ \A k \in 1 .. N : c[k] = Due(w[k], s, O)
  <2>1. c \in Seq(Int) /\ Len(c) = Len(w) /\ \A k \in 1 .. Len(w) : c[k] = Due(w[k], s, O)
    BY <1>1, DuesAre
  <2> QED
    BY <1>1, <2>1
<1>4. m \in Int
  BY DueTypes
<1> HIDE DEF d, c, m, N
<1>5. x \in 1 .. Len(d) /\ x \in 1 .. N
  BY <1>2 DEF N
<1>6. e \in Seq(Int) /\ Len(e) = N /\ \A k \in 1 .. N : e[k] = IF k = x THEN m ELSE d[k]
  <2>1. e \in Seq(Int) /\ Len(e) = Len(d) /\ \A k \in 1 .. Len(d) : e[k] = IF k = x THEN m ELSE d[k]
    BY <1>2, <1>4, <1>5, ChangeIs
  <2> QED
    BY <1>2, <2>1
<1>7. Total(e) = Total(d) - d[x] + m /\ Total(d) \in Int
  BY <1>2, <1>4, <1>5, TotalChange, TotalParts
<1> HIDE DEF e
<1>8. \A k \in 1 .. N : c[k] = e[k]
  BY <1>1, <1>2, <1>3, <1>6, Zenon DEF m
<1>9. c = e
  BY <1>3, <1>6, <1>8, SameSeq
<1>10. d[x] = Due(v[x], s, O)
  BY <1>2, <1>5
<1>11. Total(c) = Total(d) - Due(v[x], s, O) + m
  BY <1>7, <1>9, <1>10
<1> QED
  BY <1>7, <1>11 DEF Owed, w, d, c, m

\* Orders the venue has not answered.
Unanswered(r) == \A k \in 1 .. Len(r) : r[k].status = "SUBMITTING"

LEMMA OwedMore ==
  ASSUME NEW v \in Seq(VenueOrder), NEW r \in Seq(VenueOrder), Unanswered(r), NEW s, NEW O
  PROVE  Owed(v \o r, s, O) = Owed(v, s, O)
<1> DEFINE w == v \o r
           d == Dues(v, s, O)
           z == Dues(r, s, O)
           c == Dues(w, s, O)
           M == Len(v)
           N == Len(r)
<1>1. /\ M \in Nat /\ N \in Nat /\ w \in Seq(VenueOrder) /\ Len(w) = M + N
      /\ \A k \in 1 .. M : w[k] = v[k]
      /\ \A k \in 1 .. N : w[M + k] = r[k]
  OBVIOUS
<1>2. d \in Seq(Int) /\ Len(d) = M /\ \A k \in 1 .. M : d[k] = Due(v[k], s, O)
  BY DuesAre
<1>3. z \in Seq(Int) /\ Len(z) = N /\ \A k \in 1 .. N : z[k] = Due(r[k], s, O)
  BY DuesAre
<1>4. \A k \in 1 .. N : Due(r[k], s, O) = 0
  BY DEF Unanswered, Due, Closing, Resting
<1> HIDE DEF w, d, z, N
<1>5. c \in Seq(Int) /\ Len(c) = M + N /\ \A k \in 1 .. M + N : c[k] = Due(w[k], s, O)
  <2>1. w \in Seq(VenueOrder)
    BY <1>1
  <2>2. c \in Seq(Int) /\ Len(c) = Len(w) /\ \A k \in 1 .. Len(w) : c[k] = Due(w[k], s, O)
    BY <2>1, DuesAre
  <2> QED
    BY <1>1, <2>2
<1> HIDE DEF c, M
<1>6. \A k \in 1 .. M : c[k] = d[k]
  <2>1. \A k \in 1 .. M : k \in 1 .. M + N
    BY <1>1
  <2> QED
    BY <1>1, <1>2, <1>5, <2>1
<1>7. \A k \in 1 .. N : c[M + k] = z[k]
  <2>1. \A k \in 1 .. N : M + k \in 1 .. M + N
    BY <1>1
  <2> QED
    BY <1>1, <1>3, <1>5, <2>1
<1>8. c = d \o z
  <2>1. /\ c \in Seq(Int) /\ d \in Seq(Int) /\ z \in Seq(Int) /\ Len(c) = Len(d) + Len(z)
        /\ \A k \in 1 .. Len(d) : c[k] = d[k]
        /\ \A k \in 1 .. Len(z) : c[Len(d) + k] = z[k]
    BY <1>2, <1>3, <1>5, <1>6, <1>7
  <2> QED
    BY <2>1, SameConcat
<1>9. Total(c) = Total(d) + Total(z) /\ Total(d) \in Int
  BY <1>2, <1>3, <1>8, TotalParts
<1>10. Total(z) = 0
  BY <1>3, <1>4, TotalZero
<1>11. Total(c) = Total(d)
  BY <1>9, <1>10
<1> QED
  BY <1>11 DEF Owed, c, d, w

LEMMA OwedBounds ==
  ASSUME NEW v \in Seq(VenueOrder), NEW sh, \A k \in 1 .. Len(v) : Sound(v[k], sh), NEW s, NEW O
  PROVE  Owed(v, s, O) \in Nat /\ \A x \in 1 .. Len(v) : Due(v[x], s, O) <= Owed(v, s, O)
<1> DEFINE d == Dues(v, s, O)
           N == Len(v)
<1>1. d \in Seq(Int) /\ Len(d) = N /\ \A k \in 1 .. N : d[k] = Due(v[k], s, O)
  BY DuesAre
<1>2. \A k \in 1 .. N : Due(v[k], s, O) >= 0
  <2> SUFFICES ASSUME NEW k \in 1 .. N PROVE Due(v[k], s, O) >= 0
    OBVIOUS
  <2>1. v[k] \in VenueOrder
    OBVIOUS
  <2> QED
    BY <2>1, DueTypes
<1> HIDE DEF d, N
<1>3. d \in Seq(Nat)
  BY <1>1, <1>2
<1>4. Total(d) \in Nat /\ \A x \in 1 .. N : d[x] <= Total(d)
  BY <1>1, <1>3, TotalBounds
<1> QED
  BY <1>1, <1>4 DEF Owed, d, N

LEMMA OwedNone ==
  ASSUME NEW v \in Seq(VenueOrder), NEW sh, \A k \in 1 .. Len(v) : Sound(v[k], sh), NEW s,
         NEW O, O \cap Uses(sh) = {}
  PROVE  Owed(v, s, O) = 0
<1> DEFINE d == Dues(v, s, O)
           N == Len(v)
<1>1. d \in Seq(Int) /\ Len(d) = N /\ \A k \in 1 .. N : d[k] = Due(v[k], s, O)
  BY DuesAre
<1>2. \A k \in 1 .. N : Due(v[k], s, O) = 0
  BY DEF Due, Closing, Sound
<1> HIDE DEF d, N
<1>3. Total(d) = 0
  BY <1>1, <1>2, TotalZero
<1> QED
  BY <1>3 DEF Owed, d
-------------------------------------------------------------------------------
(* The venue's positions cover what its orders will close.                   *)

Kept(v, a, sh, s) ==
  IF sh THEN /\ Owed(v, s, {"CLOSETODAY"}) <= a.td /\ a.td \in Lots
             /\ Owed(v, s, {"CLOSE", "CLOSEYESTERDAY"}) <= a.yd
        ELSE /\ 0 <= a.td /\ 0 <= a.yd
             /\ Owed(v, s, {"CLOSE"}) <= a.td + a.yd

\* There is room for more requests.
Room(v, a, sh, s, reqs) ==
  IF sh THEN /\ Volume(reqs, {"CLOSETODAY"}) <= a.td - Owed(v, s, {"CLOSETODAY"})
             /\ Volume(reqs, {"CLOSE", "CLOSEYESTERDAY"}) <= a.yd - Owed(v, s, {"CLOSE", "CLOSEYESTERDAY"})
        ELSE /\ Volume(reqs, {"CLOSETODAY"}) <= a.td - Owed(v, s, {"CLOSETODAY"})
             /\ Volume(reqs, {"CLOSEYESTERDAY"}) <= a.yd - Owed(v, s, {"CLOSEYESTERDAY"})
             /\ Volume(reqs, {"CLOSETODAY"}) + Volume(reqs, {"CLOSEYESTERDAY"}) + Volume(reqs, {"CLOSE"})
                  <= (a.td - Owed(v, s, {"CLOSETODAY"})) + (a.yd - Owed(v, s, {"CLOSEYESTERDAY"}))
                       - Owed(v, s, {"CLOSE"})

LEMMA AcceptsIs ==
  ASSUME OmsTypes, NEW s \in Sides, NEW reqs, \A O : Volume(reqs, O) \in Int
  PROVE  Accepts(s, reqs) <=> Room(venue, account[s], shfe, s, reqs)
<1> DEFINE T == {"CLOSETODAY"}
           Y == {"CLOSEYESTERDAY"}
           B == {"CLOSE", "CLOSEYESTERDAY"}
           C == {"CLOSE"}
           a == account[s]
<1>1. a.td \in Int /\ a.yd \in Int /\ shfe \in BOOLEAN /\ \A O : Committed(s, O) \in Int
  <2>1. \A O : Committed(s, O) \in Int
    <3> SUFFICES ASSUME NEW O PROVE Committed(s, O) \in Int
      OBVIOUS
    <3>1. Dues(venue, s, O) \in Seq(Int)
      BY DuesAre DEF OmsTypes
    <3> QED
      BY <3>1, CommittedIs, TotalParts DEF Owed
  <2> QED
    BY <2>1 DEF OmsTypes, Balance
<1>2. \A O : Owed(venue, s, O) = Committed(s, O)
  BY CommittedIs
<1>3. CASE shfe
  <2>1. ByPart.CLOSETODAY = T /\ ByPart.CLOSEYESTERDAY = B
    BY <1>3 DEF ByPart
  <2> HIDE DEF T, Y, B, C, a
  <2>2. Accepts(s, reqs) <=> Closable(s, Volume(reqs, T), Volume(reqs, B), 0)
    BY <1>3, <2>1 DEF Accepts
  <2>3. \A td, yd : Closable(s, td, yd, 0) <=>
          /\ td <= a.td - Committed(s, T) /\ yd <= a.yd - Committed(s, B)
          /\ td + yd + 0 <= (a.td - Committed(s, T)) + (a.yd - Committed(s, B)) - 0
    BY <1>3, <2>1 DEF Closable, a
  <2>4. Room(venue, a, shfe, s, reqs) <=>
          Volume(reqs, T) <= a.td - Owed(venue, s, T) /\ Volume(reqs, B) <= a.yd - Owed(venue, s, B)
    BY <1>3 DEF Room, T, B
  <2>5. Volume(reqs, T) \in Int /\ Volume(reqs, B) \in Int /\ Committed(s, T) \in Int /\ Committed(s, B) \in Int
    BY <1>1
  <2>6. Accepts(s, reqs) <=> Room(venue, a, shfe, s, reqs)
    BY <1>1, <1>2, <2>2, <2>3, <2>4, <2>5
  <2> QED
    BY <2>6 DEF a
<1>4. CASE ~shfe
  <2>1. ByPart.CLOSETODAY = T /\ ByPart.CLOSEYESTERDAY = Y
    BY <1>4 DEF ByPart
  <2> HIDE DEF T, Y, B, C, a
  <2>2. Accepts(s, reqs) <=> Closable(s, Volume(reqs, T), Volume(reqs, Y), Volume(reqs, C))
    BY <1>4, <2>1 DEF Accepts, C
  <2>3. \A td, yd, any : Closable(s, td, yd, any) <=>
          /\ td <= a.td - Committed(s, T) /\ yd <= a.yd - Committed(s, Y)
          /\ td + yd + any <= (a.td - Committed(s, T)) + (a.yd - Committed(s, Y)) - Committed(s, C)
    BY <1>4, <2>1 DEF Closable, a, C
  <2>4. Room(venue, a, shfe, s, reqs) <=>
          /\ Volume(reqs, T) <= a.td - Owed(venue, s, T) /\ Volume(reqs, Y) <= a.yd - Owed(venue, s, Y)
          /\ Volume(reqs, T) + Volume(reqs, Y) + Volume(reqs, C)
               <= (a.td - Owed(venue, s, T)) + (a.yd - Owed(venue, s, Y)) - Owed(venue, s, C)
    BY <1>4 DEF Room, T, Y, C
  <2>6. Accepts(s, reqs) <=> Room(venue, a, shfe, s, reqs)
    BY <1>2, <2>2, <2>3, <2>4
  <2> QED
    BY <2>6 DEF a
<1> QED
  BY <1>1, <1>3, <1>4

\* An order of which so much is traded.
With(o, traded, status) ==
  [id |-> o.id, direction |-> o.direction, offset |-> o.offset, volume |-> o.volume, traded |-> traded,
   status |-> status]

SetTraded(o, n) == [o EXCEPT !.traded = n]
SetStatus(o, st) == [o EXCEPT !.status = st]

LEMMA WithTypes ==
  ASSUME NEW o \in VenueOrder, NEW n \in Int, NEW st \in Statuses
  PROVE  /\ With(o, n, st) \in VenueOrder
         /\ With(o, n, st) = SetStatus(SetTraded(o, n), st)
         /\ With(o, o.traded, st) = SetStatus(o, st)
<1> DEFINE R(x, y) == [id |-> o.id, direction |-> o.direction, offset |-> o.offset, volume |-> o.volume,
                       traded |-> x, status |-> y]
<1>1. o = R(o.traded, o.status)
  BY DEF VenueOrder
<1>2. \A x \in Int, y \in Statuses : R(x, y) \in VenueOrder
  BY DEF VenueOrder
<1>3. SetTraded(R(o.traded, o.status), n) = R(n, o.status)
  BY DEF SetTraded
<1>4. SetStatus(R(n, o.status), st) = R(n, st)
  BY DEF SetStatus
<1>5. SetStatus(R(o.traded, o.status), st) = R(o.traded, st)
  BY DEF SetStatus
<1>6. \A x, y : With(o, x, y) = R(x, y)
  BY DEF With
<1> HIDE DEF R
<1> QED
  BY <1>1, <1>2, <1>3, <1>4, <1>5, <1>6, Zenon

Filled(q, id, n, st) == [q EXCEPT ![id].traded = n, ![id].status = st]

Marked(q, id, st) == [q EXCEPT ![id].status = st]

LEMMA StatusIs ==
  ASSUME NEW q \in Seq(VenueOrder), NEW id \in 1 .. Len(q), NEW st \in Statuses
  PROVE  Marked(q, id, st) = [q EXCEPT ![id] = With(q[id], q[id].traded, st)]
<1>1. q[id] \in VenueOrder /\ 0 \in Int
  OBVIOUS
<1>2. Marked(q, id, st) = [q EXCEPT ![id] = SetStatus(q[id], st)]
  BY DEF SetStatus, Marked
<1>3. With(q[id], q[id].traded, st) = SetStatus(q[id], st)
  BY <1>1, WithTypes
<1> QED
  BY <1>2, <1>3, Zenon

LEMMA FilledIs ==
  ASSUME NEW q \in Seq(VenueOrder), NEW id \in 1 .. Len(q), NEW n \in Int, NEW st \in Statuses
  PROVE  Filled(q, id, n, st) = [q EXCEPT ![id] = With(q[id], n, st)]
<1> DEFINE o == q[id]
           u == SetTraded(o, n)
           x == [q EXCEPT ![id].traded = n]
<1>1. o \in VenueOrder
  OBVIOUS
<1>3. x = [q EXCEPT ![id] = u]
  BY DEF SetTraded
<1>4. Filled(q, id, n, st) = [x EXCEPT ![id].status = st]
  BY Zenon DEF Filled
<1>5. [x EXCEPT ![id].status = st] = [x EXCEPT ![id] = SetStatus(x[id], st)]
  BY DEF SetStatus
<1> HIDE DEF o, u, x
<1>6. x[id] = u
  BY <1>3
<1>7. \A z : [x EXCEPT ![id] = z] = [q EXCEPT ![id] = z]
  BY <1>3
<1>8. With(o, n, st) = SetStatus(SetTraded(o, n), st)
  BY <1>1, WithTypes
<1>9. Filled(q, id, n, st) = [q EXCEPT ![id] = With(o, n, st)]
  BY <1>4, <1>5, <1>6, <1>7, <1>8, Zenon DEF u
<1> QED
  BY <1>9 DEF o

LEMMA VolumeOne ==
  ASSUME NEW o \in VenueOrder, NEW O
  PROVE  Volume(<<o>>, O) = IF o.offset \in O THEN o.volume ELSE 0
<1> DEFINE n == IF o.offset \in O THEN o.volume ELSE 0
           w == [k \in DOMAIN <<o>> |-> IF <<o>>[k].offset \in O THEN <<o>>[k].volume ELSE 0]
<1>1. w = <<n>>
  OBVIOUS
<1>2. n \in Int
  BY DEF VenueOrder
<1>3. Volume(<<o>>, O) = Total(w)
  BY DEF Volume
<1> HIDE DEF n, w
<1>4. Total(<<n>>) = n
  BY <1>2, TotalParts
<1> QED
  BY <1>1, <1>3, <1>4 DEF n

\* An order that closes no more than before.
LEMMA KeptLess ==
  ASSUME NEW v \in Seq(VenueOrder), NEW x \in 1 .. Len(v), NEW y \in VenueOrder, NEW a \in Balance,
         NEW sh \in BOOLEAN, NEW s, Kept(v, a, sh, s), \A O : Due(y, s, O) <= Due(v[x], s, O)
  PROVE  Kept([v EXCEPT ![x] = y], a, sh, s)
<1> DEFINE w == [v EXCEPT ![x] = y]
<1>1. a.td \in Int /\ a.yd \in Int /\ v[x] \in VenueOrder
  BY DEF Balance
<1>2. ASSUME NEW O PROVE Owed(w, s, O) <= Owed(v, s, O) /\ Owed(w, s, O) \in Int /\ Owed(v, s, O) \in Int
  <2>1. Owed(v, s, O) \in Int /\ Owed(w, s, O) = Owed(v, s, O) - Due(v[x], s, O) + Due(y, s, O)
    BY OwedChange
  <2>2. Due(v[x], s, O) \in Int /\ Due(y, s, O) \in Int
    BY <1>1, DueTypes
  <2> HIDE DEF w
  <2> QED
    BY <2>1, <2>2
<1> HIDE DEF w
<1>3. /\ Owed(w, s, {"CLOSETODAY"}) <= Owed(v, s, {"CLOSETODAY"})
      /\ Owed(w, s, {"CLOSETODAY"}) \in Int /\ Owed(v, s, {"CLOSETODAY"}) \in Int
  BY <1>2
<1>4. /\ Owed(w, s, {"CLOSE", "CLOSEYESTERDAY"}) <= Owed(v, s, {"CLOSE", "CLOSEYESTERDAY"})
      /\ Owed(w, s, {"CLOSE", "CLOSEYESTERDAY"}) \in Int /\ Owed(v, s, {"CLOSE", "CLOSEYESTERDAY"}) \in Int
  BY <1>2
<1>5. /\ Owed(w, s, {"CLOSE"}) <= Owed(v, s, {"CLOSE"})
      /\ Owed(w, s, {"CLOSE"}) \in Int /\ Owed(v, s, {"CLOSE"}) \in Int
  BY <1>2
<1>6. Kept(v, a, sh, s)
  OBVIOUS
<1>7. ASSUME sh PROVE Kept(w, a, sh, s)
  <2>1. /\ Owed(v, s, {"CLOSETODAY"}) <= a.td /\ a.td \in Lots
        /\ Owed(v, s, {"CLOSE", "CLOSEYESTERDAY"}) <= a.yd
    BY <1>6, <1>7 DEF Kept
  <2>2. Owed(w, s, {"CLOSETODAY"}) <= a.td
    BY <1>1, <1>3, <2>1
  <2>3. Owed(w, s, {"CLOSE", "CLOSEYESTERDAY"}) <= a.yd
    BY <1>1, <1>4, <2>1
  <2> QED
    BY <1>7, <2>1, <2>2, <2>3, Zenon DEF Kept
<1>8. ASSUME ~sh PROVE Kept(w, a, sh, s)
  <2>1. 0 <= a.td /\ 0 <= a.yd /\ Owed(v, s, {"CLOSE"}) <= a.td + a.yd
    BY <1>6, <1>8 DEF Kept
  <2>2. Owed(w, s, {"CLOSE"}) <= a.td + a.yd
    BY <1>1, <1>5, <2>1
  <2> QED
    BY <1>8, <2>1, <2>2, Zenon DEF Kept
<1> QED
  BY <1>7, <1>8 DEF w

\* An order that the venue takes has its volume to close.
LEMMA KeptMore ==
  ASSUME NEW v \in Seq(VenueOrder), NEW x \in 1 .. Len(v), NEW a \in Balance, NEW sh \in BOOLEAN, NEW s,
         \A k \in 1 .. Len(v) : Sound(v[k], sh), Kept(v, a, sh, s), v[x].status = "SUBMITTING",
         Opposite(v[x].direction) = s => v[x].offset = "OPEN" \/ Room(v, a, sh, s, <<v[x]>>)
  PROVE  Kept([v EXCEPT ![x] = With(v[x], v[x].traded, "NOTTRADED")], a, sh, s)
<1> DEFINE o == v[x]
           y == With(o, o.traded, "NOTTRADED")
           w == [v EXCEPT ![x] = y]
           n == o.volume
           T == {"CLOSETODAY"}
           Y == {"CLOSEYESTERDAY"}
           B == {"CLOSE", "CLOSEYESTERDAY"}
           C == {"CLOSE"}
<1>1. /\ a.td \in Int /\ a.yd \in Int /\ o \in VenueOrder /\ o.traded \in Int /\ n \in Int
      /\ o.traded = 0 /\ o.offset \in Uses(sh)
  <2>1. o \in VenueOrder /\ Sound(o, sh)
    OBVIOUS
  <2> QED
    BY <2>1 DEF Balance, VenueOrder, Sound
<1>2. y \in VenueOrder
  BY <1>1, WithTypes DEF Statuses
<1>3. ASSUME NEW O
      PROVE  Owed(v, s, O) \in Int
               /\ Owed(w, s, O) = Owed(v, s, O) + IF o.offset \in O /\ Opposite(o.direction) = s THEN n ELSE 0
  <2>1. Owed(v, s, O) \in Int /\ Owed(w, s, O) = Owed(v, s, O) - Due(o, s, O) + Due(y, s, O)
    BY <1>2, OwedChange
  <2>2. Due(o, s, O) = 0
    BY DEF Due, Closing, Resting
  <2>3. Due(y, s, O) = IF o.offset \in O /\ Opposite(o.direction) = s THEN n ELSE 0
    BY <1>1 DEF Due, Closing, Resting, With
  <2> HIDE DEF o, w, y, n
  <2> QED
    BY <1>1, <2>1, <2>2, <2>3
<1>4. \A O : Volume(<<o>>, O) = IF o.offset \in O THEN n ELSE 0
  BY <1>1, VolumeOne
<1>5. ~sh => Owed(v, s, T) = 0 /\ Owed(v, s, Y) = 0
  <2> SUFFICES ASSUME ~sh PROVE Owed(v, s, T) = 0 /\ Owed(v, s, Y) = 0
    OBVIOUS
  <2>1. T \cap Uses(sh) = {} /\ Y \cap Uses(sh) = {}
    BY DEF Uses
  <2> HIDE DEF T, Y
  <2> QED
    BY <2>1, OwedNone
<1>6. CASE Opposite(o.direction) # s \/ o.offset = "OPEN"
  <2>1. Owed(w, s, T) = Owed(v, s, T) /\ Owed(w, s, B) = Owed(v, s, B) /\ Owed(w, s, C) = Owed(v, s, C)
    <3>1. "OPEN" \notin T /\ "OPEN" \notin B /\ "OPEN" \notin C
      OBVIOUS
    <3> HIDE DEF o, w, y, n, T, B, C
    <3> QED
      BY <1>3, <1>6, <3>1
  <2> QED
    BY <2>1 DEF Kept
<1>7. CASE Opposite(o.direction) = s /\ o.offset # "OPEN"
  <2>1. Room(v, a, sh, s, <<o>>)
    BY <1>7
  <2>2. CASE sh
    <3>1. o.offset = "CLOSETODAY" \/ o.offset = "CLOSEYESTERDAY"
      BY <1>1, <1>7, <2>2 DEF Uses
    <3>2. Volume(<<o>>, T) <= a.td - Owed(v, s, T) /\ Volume(<<o>>, B) <= a.yd - Owed(v, s, B)
      BY <2>1, <2>2 DEF Room
    <3>3. Volume(<<o>>, T) = (IF o.offset = "CLOSETODAY" THEN n ELSE 0)
            /\ Volume(<<o>>, B) = (IF o.offset = "CLOSEYESTERDAY" THEN n ELSE 0)
      BY <1>4, <3>1
    <3>4. Owed(w, s, T) = Owed(v, s, T) + (IF o.offset = "CLOSETODAY" THEN n ELSE 0)
            /\ Owed(w, s, B) = Owed(v, s, B) + (IF o.offset = "CLOSEYESTERDAY" THEN n ELSE 0)
            /\ Owed(v, s, T) \in Int /\ Owed(v, s, B) \in Int
      <4>1. /\ "CLOSETODAY" \in T /\ "CLOSEYESTERDAY" \notin T
            /\ "CLOSETODAY" \notin B /\ "CLOSEYESTERDAY" \in B
        OBVIOUS
      <4> HIDE DEF o, w, y, n, T, B, C
      <4> QED
        BY <1>3, <1>7, <3>1, <4>1
    <3>5. a.td \in Lots
      BY <2>2 DEF Kept
    <3> HIDE DEF o, w, y, n
    <3>6. Owed(w, s, T) <= a.td /\ Owed(w, s, B) <= a.yd
      BY <1>1, <3>2, <3>3, <3>4
    <3>7. Kept(w, a, sh, s)
      BY <2>2, <3>5, <3>6 DEF Kept
    <3> QED
      BY <3>7 DEF w, y, o
  <2>3. CASE ~sh
    <3>1. o.offset = "CLOSE"
      BY <1>1, <1>7, <2>3 DEF Uses
    <3>2. Volume(<<o>>, T) + Volume(<<o>>, Y) + Volume(<<o>>, C)
            <= (a.td - Owed(v, s, T)) + (a.yd - Owed(v, s, Y)) - Owed(v, s, C)
      BY <2>1, <2>3 DEF Room
    <3>3. Volume(<<o>>, T) = 0 /\ Volume(<<o>>, Y) = 0 /\ Volume(<<o>>, C) = n
      BY <1>4, <3>1
    <3>4. Owed(w, s, C) = Owed(v, s, C) + n /\ Owed(v, s, C) \in Int
      <4>1. "CLOSE" \in C
        OBVIOUS
      <4> HIDE DEF o, w, y, n, C
      <4> QED
        BY <1>3, <1>7, <3>1, <4>1
    <3>5. 0 <= a.td /\ 0 <= a.yd
      BY <2>3 DEF Kept
    <3> HIDE DEF o, w, y, n
    <3>6. Owed(w, s, C) <= a.td + a.yd
      BY <1>1, <1>5, <2>3, <3>2, <3>3, <3>4
    <3>7. Kept(w, a, sh, s)
      BY <2>3, <3>5, <3>6 DEF Kept
    <3> QED
      BY <3>7 DEF w, y, o
  <2> QED
    BY <2>2, <2>3
<1> QED
  BY <1>6, <1>7

\* A close takes what it is of from the two parts, and leaves none short.
LEMMA CloseSpends ==
  ASSUME NEW a \in Balance, NEW n \in Int, 0 < n, 0 <= a.td, 0 <= a.yd, n <= a.td + a.yd
  PROVE  LET b == Traded(a, "CLOSE", FALSE, n)
         IN  b.td + b.yd = a.td + a.yd - n /\ 0 <= b.td /\ 0 <= b.yd
<1> DEFINE b == Traded(a, "CLOSE", FALSE, n)
<1>1. a.td \in Int /\ a.yd \in Int
  BY DEF Balance
<1>2. a.td >= n => b.td = a.td - n /\ b.yd = a.yd
  <2> SUFFICES ASSUME a.td >= n PROVE b.td = a.td - n /\ b.yd = a.yd
    OBVIOUS
  <2>1. b = [a EXCEPT !.td = @ - n]
    BY DEF Traded, Spent
  <2> QED
    BY <2>1 DEF Balance
<1>3. ~(a.td >= n) => b.td = 0 /\ b.yd = a.yd + a.td - n
  <2> SUFFICES ASSUME ~(a.td >= n) PROVE b.td = 0 /\ b.yd = a.yd + a.td - n
    OBVIOUS
  <2>1. b = [a EXCEPT !.td = 0, !.yd = @ + a.td - n]
    BY DEF Traded, Spent
  <2>2. [a EXCEPT !.td = 0, !.yd = @ + a.td - n] = [td |-> 0, yd |-> a.yd + a.td - n]
    BY SetBoth, Zenon
  <2> QED
    BY <2>1, <2>2
<1> HIDE DEF b
<1>4. b.td + b.yd = a.td + a.yd - n /\ 0 <= b.td /\ 0 <= b.yd
  BY <1>1, <1>2, <1>3
<1> QED
  BY <1>4 DEF b

\* A fill of n shares of order x: what it leaves of the orders v and of the balance a of side s.
FillOf(v, x, a, sh, s, n, st, b, u) ==
  /\ v \in Seq(VenueOrder) /\ x \in 1 .. Len(v) /\ a \in Balance /\ sh \in BOOLEAN /\ s \in Sides
  /\ Kept(v, a, sh, s) /\ \A k \in 1 .. Len(v) : Sound(v[k], sh)
  /\ v[x].status \in Resting
  /\ n \in Int /\ 0 < n /\ n <= v[x].volume - v[x].traded /\ (sh => n \in Lots)
  /\ st = IF n = v[x].volume - v[x].traded THEN "ALLTRADED" ELSE "PARTTRADED"
  /\ b = IF s = Target(v[x].direction, v[x].offset) THEN Traded(a, v[x].offset, sh, n) ELSE a
  /\ u = [v EXCEPT ![x] = With(v[x], v[x].traded + n, st)]

\* What is traded is neither to be closed nor there any more.
LEMMA KeptTraded ==
  ASSUME NEW v, NEW x, NEW a, NEW sh, NEW s, NEW n, NEW st, NEW b, NEW u, FillOf(v, x, a, sh, s, n, st, b, u)
  PROVE  Kept(u, b, sh, s)
<1>h. /\ v \in Seq(VenueOrder) /\ x \in 1 .. Len(v) /\ a \in Balance /\ sh \in BOOLEAN /\ s \in Sides
      /\ Kept(v, a, sh, s) /\ v[x].status \in Resting
      /\ n <= v[x].volume - v[x].traded /\ (sh => n \in Lots)
  BY DEF FillOf
<1>n. n \in Int /\ 0 < n
  BY DEF FillOf
<1>0. /\ \A k \in 1 .. Len(v) : Sound(v[k], sh)
      /\ st = IF n = v[x].volume - v[x].traded THEN "ALLTRADED" ELSE "PARTTRADED"
      /\ b = IF s = Target(v[x].direction, v[x].offset) THEN Traded(a, v[x].offset, sh, n) ELSE a
      /\ u = [v EXCEPT ![x] = With(v[x], v[x].traded + n, st)]
  BY DEF FillOf
<1> USE <1>h, <1>n
<1> DEFINE o == v[x]
           y == With(o, o.traded + n, st)
           T == {"CLOSETODAY"}
           B == {"CLOSE", "CLOSEYESTERDAY"}
           C == {"CLOSE"}
<1>1. /\ a.td \in Int /\ a.yd \in Int /\ o \in VenueOrder
      /\ o.traded \in Int /\ o.volume \in Int /\ o.offset \in Uses(sh) /\ o.direction \in Sides
  <2>1. o \in VenueOrder /\ Sound(o, sh)
    BY <1>0
  <2> QED
    BY <2>1 DEF Balance, VenueOrder, Sound
<1>2. y \in VenueOrder
  <2>1. o.traded + n \in Int /\ st \in Statuses
    BY <1>1, <1>0 DEF Statuses
  <2> HIDE DEF o
  <2> QED
    BY <1>1, <2>1, WithTypes
<1>3. ASSUME NEW O
      PROVE  Owed(v, s, O) \in Int
               /\ Owed(u, s, O) = Owed(v, s, O) - IF o.offset \in O /\ Opposite(o.direction) = s THEN n ELSE 0
  <2>1. Owed(v, s, O) \in Int /\ Owed(u, s, O) = Owed(v, s, O) - Due(o, s, O) + Due(y, s, O)
    <3>1. u = [v EXCEPT ![x] = y]
      BY <1>0
    <3> HIDE DEF y
    <3>2. /\ Owed(v, s, O) \in Int
          /\ Owed([v EXCEPT ![x] = y], s, O) = Owed(v, s, O) - Due(v[x], s, O) + Due(y, s, O)
      BY <1>2, OwedChange
    <3> QED
      BY <3>1, <3>2
  <2>2. Due(o, s, O) = IF o.offset \in O /\ Opposite(o.direction) = s THEN o.volume - o.traded ELSE 0
    BY DEF Due, Closing
  <2>3. Due(y, s, O) = IF o.offset \in O /\ Opposite(o.direction) = s THEN o.volume - o.traded - n ELSE 0
    BY <1>1, <1>0 DEF Due, Closing, Resting, With
  <2> HIDE DEF o, y
  <2> QED
    BY <1>1, <2>1, <2>2, <2>3
<1>4. Owed(v, s, T) \in Int /\ Owed(v, s, B) \in Int /\ Owed(v, s, C) \in Int
  BY <1>3
<1>5. CASE Opposite(o.direction) # s \/ o.offset = "OPEN"
  <2>1. Owed(u, s, T) = Owed(v, s, T) /\ Owed(u, s, B) = Owed(v, s, B) /\ Owed(u, s, C) = Owed(v, s, C)
    <3>1. "OPEN" \notin T /\ "OPEN" \notin B /\ "OPEN" \notin C
      OBVIOUS
    <3> HIDE DEF o, y, T, B, C
    <3> QED
      BY <1>3, <1>4, <1>5, <3>1
  <2>2. CASE b = a
    BY <2>1, <2>2 DEF Kept
  <2>3. CASE b # a
    <3>1. o.offset = "OPEN"
      BY <1>5, <1>0, <2>3 DEF Target
    <3>2. b = [a EXCEPT !.td = @ + n]
      BY <1>0, <2>3, <3>1 DEF Traded
    <3>3. b.td = a.td + n /\ b.yd = a.yd
      BY <3>2 DEF Balance
    <3>4. sh => (a.td \in Lots => b.td \in Lots)
      BY <3>3, LotsClosed
    <3> HIDE DEF o, y, T, B, C
    <3>5. IF sh THEN Owed(v, s, T) <= a.td /\ a.td \in Lots /\ Owed(v, s, B) <= a.yd
          ELSE 0 <= a.td /\ 0 <= a.yd /\ Owed(v, s, C) <= a.td + a.yd
      BY DEF Kept, T, B, C
    <3>6. IF sh THEN Owed(u, s, T) <= b.td /\ b.td \in Lots /\ Owed(u, s, B) <= b.yd
          ELSE 0 <= b.td /\ 0 <= b.yd /\ Owed(u, s, C) <= b.td + b.yd
      <4>1. CASE sh
        <5>1. b.td \in Lots
          BY <3>4, <3>5, <4>1
        <5>2. Owed(u, s, T) <= a.td + n
          BY <1>1, <1>4, <2>1, <3>5, <4>1
        <5> QED
          BY <2>1, <3>3, <3>5, <4>1, <5>1, <5>2
      <4>2. CASE ~sh
        <5>1. 0 <= a.td /\ 0 <= a.yd /\ Owed(v, s, C) <= a.td + a.yd
          BY <3>5, <4>2
        <5> HIDE <1>h
        <5>2. 0 <= a.td + n /\ Owed(v, s, C) <= a.td + n + a.yd
          BY <1>1, <1>4, <5>1
        <5> QED
          BY <2>1, <3>3, <4>2, <5>1, <5>2
      <4> QED
        BY <4>1, <4>2
    <3>7. Kept(u, b, sh, s)
      BY <3>6 DEF Kept, T, B, C
    <3> QED
      BY <3>7
  <2> QED
    BY <2>2, <2>3
<1>6. CASE Opposite(o.direction) = s /\ o.offset # "OPEN"
  <2>1. b = Traded(a, o.offset, sh, n)
    BY <1>6, <1>0 DEF Target
  <2>2. CASE sh
    <3>1. o.offset = "CLOSETODAY" \/ o.offset = "CLOSEYESTERDAY"
      BY <1>1, <1>6, <2>2 DEF Uses
    <3>2. /\ Owed(u, s, T) = Owed(v, s, T) - (IF o.offset = "CLOSETODAY" THEN n ELSE 0)
          /\ Owed(u, s, B) = Owed(v, s, B) - (IF o.offset = "CLOSEYESTERDAY" THEN n ELSE 0)
      <4>1. /\ "CLOSETODAY" \in T /\ "CLOSEYESTERDAY" \notin T
            /\ "CLOSETODAY" \notin B /\ "CLOSEYESTERDAY" \in B
        OBVIOUS
      <4> HIDE DEF o, y, T, B, C
      <4> QED
        BY <1>3, <1>6, <3>1, <4>1
    <3>3. /\ b.td = a.td - (IF o.offset = "CLOSETODAY" THEN n ELSE 0)
          /\ b.yd = a.yd - (IF o.offset = "CLOSEYESTERDAY" THEN n ELSE 0)
      <4>1. CASE o.offset = "CLOSETODAY"
        <5>1. b = [a EXCEPT !.td = @ - n]
          BY <2>1, <4>1 DEF Traded, Spent
        <5>2. b.td = a.td - n /\ b.yd = a.yd
          BY <5>1 DEF Balance
        <5> QED
          BY <1>1, <4>1, <5>2
      <4>2. CASE o.offset = "CLOSEYESTERDAY"
        <5>1. b = [a EXCEPT !.yd = @ - n]
          BY <2>1, <4>2 DEF Traded, Spent
        <5>2. b.td = a.td /\ b.yd = a.yd - n
          BY <5>1 DEF Balance
        <5> QED
          BY <1>1, <4>2, <5>2
      <4> QED
        BY <3>1, <4>1, <4>2
    <3>4. Owed(v, s, T) <= a.td /\ a.td \in Lots /\ Owed(v, s, B) <= a.yd
      BY <2>2 DEF Kept
    <3>5. b.td \in Lots
      <4>1. a.td \in Lots /\ n \in Lots /\ a.td - n \in Lots /\ a.td - 0 = a.td
        BY <1>1, <2>2, <3>4, LotsClosed
      <4> HIDE DEF o
      <4> QED
        BY <3>3, <4>1
    <3> HIDE DEF o, y, T, B, C
    <3>6. Owed(u, s, T) <= b.td /\ Owed(u, s, B) <= b.yd
      <4>1. CASE o.offset = "CLOSETODAY"
        <5>1. Owed(u, s, T) = Owed(v, s, T) - n /\ Owed(u, s, B) = Owed(v, s, B) - 0
          BY <3>2, <4>1
        <5>2. b.td = a.td - n /\ b.yd = a.yd - 0
          BY <3>3, <4>1
        <5> QED
          BY <1>1, <1>4, <3>4, <5>1, <5>2
      <4>2. CASE o.offset = "CLOSEYESTERDAY"
        <5>1. Owed(u, s, T) = Owed(v, s, T) - 0 /\ Owed(u, s, B) = Owed(v, s, B) - n
          BY <3>2, <4>2
        <5>2. b.td = a.td - 0 /\ b.yd = a.yd - n
          BY <3>3, <4>2
        <5> QED
          BY <1>1, <1>4, <3>4, <5>1, <5>2
      <4> QED
        BY <3>1, <4>1, <4>2
    <3>7. Kept(u, b, sh, s)
      BY <2>2, <3>5, <3>6 DEF Kept, T, B, C
    <3> QED
      BY <3>7
  <2>3. CASE ~sh
    <3>1. o.offset = "CLOSE"
      BY <1>1, <1>6, <2>3 DEF Uses
    <3>2. Owed(u, s, C) = Owed(v, s, C) - n
      <4>1. "CLOSE" \in C
        OBVIOUS
      <4> HIDE DEF o, y, T, B, C
      <4> QED
        BY <1>3, <1>6, <3>1, <4>1
    <3>3. n <= Owed(v, s, C)
      <4>1. Due(o, s, C) <= Owed(v, s, C)
        BY <1>0, OwedBounds
      <4>2. Due(o, s, C) = o.volume - o.traded
        BY <1>6, <3>1 DEF Due, Closing
      <4> HIDE DEF C
      <4> QED
        BY <1>1, <1>4, <4>1, <4>2
    <3>4. 0 <= a.td /\ 0 <= a.yd /\ Owed(v, s, C) <= a.td + a.yd
      BY <2>3 DEF Kept
    <3>5. b.td + b.yd = a.td + a.yd - n /\ 0 <= b.td /\ 0 <= b.yd
      <4>1. n <= a.td + a.yd
        <5> HIDE DEF o, C
        <5> QED
          BY <1>1, <1>4, <3>3, <3>4
      <4>2. b = Traded(a, "CLOSE", FALSE, n)
        BY <2>1, <2>3, <3>1
      <4> HIDE DEF o, C
      <4> QED
        BY <3>4, <4>1, <4>2, CloseSpends
    <3> HIDE DEF o, y, T, B, C
    <3>6. Owed(u, s, C) <= b.td + b.yd
      BY <1>1, <1>4, <3>2, <3>4, <3>5
    <3>7. Kept(u, b, sh, s)
      BY <2>3, <3>5, <3>6 DEF Kept, C
    <3> QED
      BY <3>7
  <2> QED
    BY <2>2, <2>3
<1> QED
  BY <1>5, <1>6
-------------------------------------------------------------------------------
(* The venue's steps.                                                        *)

OrdersHeard == Heard(active_orders, reports, venue)
OrdersSound == \A k \in 1 .. Len(venue) : Sound(venue[k], shfe)
OrdersKept == \A s \in Sides : Kept(venue, account[s], shfe, s)

\* An order becomes y, which an event says, with more events after it.
Becomes(id, y, more) ==
  /\ venue' = [venue EXCEPT ![id] = y]
  /\ reports' = reports \o (<<OrderEvent(y, y.status)>> \o more)
  /\ UNCHANGED <<shfe, holding, active_orders>>

LEMMA JoinedTwice == \A p, q, z \in Seq(Events) : (p \o q) \o z = p \o (q \o z)
<1> SUFFICES ASSUME NEW p \in Seq(Events), NEW q \in Seq(Events), NEW z \in Seq(Events)
             PROVE  (p \o q) \o z = p \o (q \o z)
  OBVIOUS
<1> QED
  BY ConcatAssociative

LEMMA ReportIs ==
  ASSUME OmsTypes, NEW id \in DOMAIN venue, NEW n \in Int, NEW st \in Statuses,
         venue' = [venue EXCEPT ![id] = With(venue[id], n, st)],
         NEW more \in Seq(TradeEvents), Reported(id, st, more)
  PROVE  Becomes(id, With(venue[id], n, st), more)
<1> DEFINE y == With(venue[id], n, st)
           r == OrderEvent(y, y.status)
<1>1. venue \in Seq(VenueOrder) /\ venue[id] \in VenueOrder /\ reports \in Seq(Events)
  BY DEF OmsTypes
<1>2. y \in VenueOrder /\ y.status = st /\ venue'[id] = y
  <2>1. y \in VenueOrder
    BY <1>1, WithTypes
  <2>2. y.status = st
    BY DEF With
  <2> HIDE DEF y
  <2> QED
    BY <2>1, <2>2 DEF y
<1>3. r \in OrderEvents
  <2>1. y.status \in Statuses
    BY <1>2
  <2> HIDE DEF y
  <2> QED
    BY <1>2, <2>1, EventTypes
<1>4. reports' = reports \o <<r>> \o more /\ UNCHANGED <<shfe, holding, active_orders>>
  BY <1>2, Zenon DEF Reported
<1>5. <<r>> \in Seq(Events) /\ more \in Seq(Events)
  BY <1>3 DEF Events
<1> HIDE DEF r, y
<1>6. (reports \o <<r>>) \o more = reports \o (<<r>> \o more)
  <2> DEFINE a == reports
             b == <<r>>
             u == a \o b
             c == b \o more
  <2>1. a \in Seq(Events) /\ b \in Seq(Events)
    BY <1>1, <1>5
  <2> HIDE DEF a, b
  <2>2. more \in Seq(Events)
    BY <1>5
  <2>3. (a \o b) \o more = a \o (b \o more)
    BY <2>1, <2>2, JoinedTwice, Zenon
  <2> QED
    BY <2>3 DEF a, b
<1>7. Becomes(id, y, more)
  BY <1>4, <1>6 DEF Becomes, r, y
<1> QED
  BY <1>7 DEF y

LEMMA AnswerIs ==
  ASSUME OmsTypes, NEW id \in DOMAIN venue, VenueAnswers(id)
  PROVE  /\ venue[id].status = "SUBMITTING" /\ UNCHANGED account
         /\ \E st \in {"NOTTRADED", "REJECTED"} :
              /\ Becomes(id, With(venue[id], venue[id].traded, st), <<>>)
              /\ st = "NOTTRADED" =>
                   /\ venue[id].volume > 0
                   /\ venue[id].offset = "OPEN" \/ Accepts(Opposite(venue[id].direction), <<venue[id]>>)
<1> DEFINE o == venue[id]
<1>1. /\ venue \in Seq(VenueOrder) /\ id \in 1 .. Len(venue) /\ o.traded \in Int
      /\ <<>> \in Seq(TradeEvents)
  <2>1. o \in VenueOrder /\ id \in 1 .. Len(venue)
    BY DEF OmsTypes
  <2> QED
    BY <2>1 DEF OmsTypes, VenueOrder
<1>2. o.status = "SUBMITTING" /\ UNCHANGED account
  BY DEF VenueAnswers
<1>3. PICK st \in {"NOTTRADED", "REJECTED"} :
        /\ venue' = [venue EXCEPT ![id].status = st]
        /\ Reported(id, st, <<>>)
        /\ st = "NOTTRADED" => o.volume > 0 /\ (o.offset = "OPEN" \/ Accepts(Opposite(o.direction), <<o>>))
  <2> DEFINE ok == o.volume > 0 /\ (o.offset = "OPEN" \/ Accepts(Opposite(o.direction), <<o>>))
  <2>1. venue' = [venue EXCEPT ![id].status = IF ok THEN "NOTTRADED" ELSE "REJECTED"]
          /\ Reported(id, IF ok THEN "NOTTRADED" ELSE "REJECTED", <<>>)
    BY Zenon DEF VenueAnswers
  <2> HIDE DEF ok
  <2>2. CASE ok
    BY <2>1, <2>2, Zenon DEF ok
  <2>3. CASE ~ok
    BY <2>1, <2>3, Zenon
  <2> QED
    BY <2>2, <2>3
<1>4. st \in Statuses
  BY DEF Statuses
<1>5. venue' = [venue EXCEPT ![id] = With(venue[id], venue[id].traded, st)]
  <2>1. venue' = Marked(venue, id, st)
    BY <1>3 DEF Marked
  <2>2. Marked(venue, id, st) = [venue EXCEPT ![id] = With(venue[id], venue[id].traded, st)]
    BY <1>1, <1>4, StatusIs
  <2> QED
    BY <2>1, <2>2
<1>6. Becomes(id, With(venue[id], venue[id].traded, st), <<>>)
  BY <1>1, <1>3, <1>4, <1>5, ReportIs
<1> QED
  BY <1>2, <1>3, <1>6

LEMMA CancelIs ==
  ASSUME OmsTypes, NEW id \in DOMAIN venue, VenueCancels(id)
  PROVE  /\ venue[id].status \in Resting /\ UNCHANGED account
         /\ Becomes(id, With(venue[id], venue[id].traded, "CANCELLED"), <<>>)
<1>1. /\ venue \in Seq(VenueOrder) /\ id \in 1 .. Len(venue) /\ venue[id].traded \in Int
      /\ <<>> \in Seq(TradeEvents) /\ "CANCELLED" \in Statuses
  <2>1. venue[id] \in VenueOrder /\ id \in 1 .. Len(venue)
    BY DEF OmsTypes
  <2> QED
    BY <2>1 DEF OmsTypes, VenueOrder, Statuses
<1>2. /\ venue[id].status \in Resting /\ UNCHANGED account
      /\ venue' = [venue EXCEPT ![id].status = "CANCELLED"]
      /\ Reported(id, "CANCELLED", <<>>)
  BY DEF VenueCancels, Resting
<1>3. venue' = [venue EXCEPT ![id] = With(venue[id], venue[id].traded, "CANCELLED")]
  <2>1. venue' = Marked(venue, id, "CANCELLED")
    BY <1>2 DEF Marked
  <2>2. Marked(venue, id, "CANCELLED") = [venue EXCEPT ![id] = With(venue[id], venue[id].traded, "CANCELLED")]
    BY <1>1, StatusIs
  <2> QED
    BY <2>1, <2>2
<1> QED
  BY <1>1, <1>2, <1>3, ReportIs

LEMMA FillIs ==
  ASSUME OmsTypes, OrdersSound, NEW id \in DOMAIN venue, VenueFills(id)
  PROVE  \E n \in Int, st \in Statuses, e \in TradeEvents :
           /\ venue[id].status \in Resting
           /\ 0 < n /\ n <= venue[id].volume - venue[id].traded /\ (shfe => n \in Lots)
           /\ st = IF n = venue[id].volume - venue[id].traded THEN "ALLTRADED" ELSE "PARTTRADED"
           /\ Becomes(id, With(venue[id], venue[id].traded + n, st), <<e>>)
           /\ \A s \in Sides :
                account'[s] = IF s = Target(venue[id].direction, venue[id].offset)
                              THEN Traded(account[s], venue[id].offset, shfe, n) ELSE account[s]
<1> DEFINE o == venue[id]
<1>1. /\ venue \in Seq(VenueOrder) /\ id \in 1 .. Len(venue) /\ o \in VenueOrder /\ o.traded \in Int
      /\ o.volume \in Int /\ o.direction \in Sides /\ o.offset \in Traders
      /\ account \in [Sides -> Balance]
  <2>1. o \in VenueOrder /\ id \in 1 .. Len(venue)
    BY DEF OmsTypes
  <2> QED
    BY <2>1 DEF OmsTypes, VenueOrder
<1>2. o.status \in Resting
  BY DEF VenueFills, Resting
<1>3. Left(id) = o.volume - o.traded /\ Left(id) > 0
  <2>1. Sound(o, shfe)
    BY <1>1 DEF OrdersSound
  <2> QED
    BY <1>1, <1>2, <2>1 DEF Left, Sound
<1>4. PICK n \in {v \in Pieces \cup {Left(id)} : v <= Left(id) /\ Tradable(v)} :
        /\ venue' = [venue EXCEPT ![id].traded = @ + n,
                                  ![id].status = IF n = Left(id) THEN "ALLTRADED" ELSE "PARTTRADED"]
        /\ account' = [account EXCEPT ![Target(o.direction, o.offset)] = Moved(@, o.offset, n)]
        /\ Reported(id, IF n = Left(id) THEN "ALLTRADED" ELSE "PARTTRADED",
                    <<TradeEvent(o.direction, o.offset, n, Len(statement'[Target(o.direction, o.offset)]))>>)
  BY Zenon DEF VenueFills
<1> DEFINE st == IF n = Left(id) THEN "ALLTRADED" ELSE "PARTTRADED"
           e == TradeEvent(o.direction, o.offset, n, Len(statement'[Target(o.direction, o.offset)]))
<1>5. n \in Int /\ 0 < n /\ n <= o.volume - o.traded /\ (shfe => n \in Lots) /\ o.traded + n \in Int
  BY <1>1, <1>3, OmsAssumption DEF Tradable, Lots
<1>6. st \in Statuses
  BY DEF Statuses
<1>7. venue' = [venue EXCEPT ![id].traded = o.traded + n, ![id].status = st]
  BY <1>4
<1>8. e \in TradeEvents /\ <<e>> \in Seq(TradeEvents)
  <2>1. Target(o.direction, o.offset) \in Sides /\ OmsTypes'
    BY <1>1, Targets, FillTypes
  <2>2. Len(statement'[Target(o.direction, o.offset)]) \in Nat
    BY <2>1 DEF OmsTypes
  <2>3. e \in TradeEvents
    BY <1>1, <1>5, <2>2, EventTypes
  <2> QED
    BY <2>3
<1>9. Reported(id, st, <<e>>)
  BY <1>4
<1> HIDE DEF e
<1>10. st = IF n = o.volume - o.traded THEN "ALLTRADED" ELSE "PARTTRADED"
  BY <1>3
<1> HIDE DEF st
<1>11. venue' = [venue EXCEPT ![id] = With(o, o.traded + n, st)]
  <2> DEFINE m == o.traded + n
  <2>1. m \in Int /\ venue' = Filled(venue, id, m, st)
    BY <1>5, <1>7 DEF Filled
  <2> HIDE DEF m
  <2>2. Filled(venue, id, m, st) = [venue EXCEPT ![id] = With(venue[id], m, st)]
    BY <1>1, <1>6, <2>1, FilledIs
  <2> QED
    BY <2>1, <2>2 DEF m
<1>12. Becomes(id, With(o, o.traded + n, st), <<e>>)
  BY <1>5, <1>6, <1>8, <1>9, <1>11, ReportIs
<1>13. ASSUME NEW s \in Sides
       PROVE  account'[s] = IF s = Target(o.direction, o.offset) THEN Traded(account[s], o.offset, shfe, n)
                            ELSE account[s]
  <2>1. account'[s] = IF s = Target(o.direction, o.offset) THEN Moved(account[s], o.offset, n) ELSE account[s]
    BY <1>1, <1>4
  <2>2. Moved(account[s], o.offset, n) = Traded(account[s], o.offset, shfe, n)
    <3>1. account[s] \in Balance
      BY <1>1
    <3> QED
      BY <1>1, <1>5, <3>1, MovedIsTraded
  <2> QED
    BY <2>1, <2>2
<1> QED
  BY <1>2, <1>5, <1>6, <1>8, <1>10, <1>12, <1>13

LEMMA BecomesHeard ==
  ASSUME OmsTypes, OrdersHeard, NEW id \in DOMAIN venue, NEW n \in Int, NEW st \in Statuses,
         NEW more \in Seq(TradeEvents), Becomes(id, With(venue[id], n, st), more)
  PROVE  OrdersHeard'
<1> DEFINE o == venue[id]
           y == With(o, n, st)
           r == OrderEvent(y, y.status)
           all == <<r>> \o more
           w == [venue EXCEPT ![id] = y]
           N == Len(venue)
<1>1. /\ venue \in Seq(VenueOrder) /\ id \in 1 .. N /\ o \in VenueOrder /\ reports \in Seq(Events)
      /\ o.id = id
  BY DEF OmsTypes, OrdersHeard, Heard, Numbered
<1>2. y \in VenueOrder /\ y.id = id /\ y.direction = o.direction /\ y.offset = o.offset
  <2>1. y \in VenueOrder
    BY <1>1, WithTypes
  <2> QED
    BY <1>1, <2>1 DEF With
<1>3. venue' = w /\ reports' = reports \o all /\ active_orders' = active_orders
  BY DEF Becomes
<1>4. w \in Seq(VenueOrder) /\ Len(w) = N /\ \A k \in 1 .. N : w[k] = IF k = id THEN y ELSE venue[k]
  BY <1>1, <1>2, ChangeIs
<1> HIDE DEF o, y, w
<1>5. r.t = "order" /\ r.id = id /\ r.direction = y.direction /\ r.offset = y.offset /\ r.status = y.status
      /\ OrderOf(r) = OrderOf(y)
  BY <1>2 DEF OrderEvent, OrderOf
<1>6. r \in OrderEvents
  <2>1. y.status \in Statuses
    BY <1>2 DEF VenueOrder
  <2> QED
    BY <1>2, <2>1, EventTypes
<1> HIDE DEF r
<1>7. /\ all \in Seq(Events) /\ Len(all) \in Nat /\ 1 \in 1 .. Len(all) /\ all[1] = r
      /\ \A i \in 1 .. Len(all) : i = 1 \/ all[i].t = "trade"
  <2>1. more \in Seq(Events) /\ <<r>> \in Seq(Events) /\ Len(more) \in Nat
    BY <1>6 DEF Events
  <2>2. \A i \in 1 .. Len(more) : more[i].t = "trade"
    <3>1. \A i \in 1 .. Len(more) : more[i] \in TradeEvents
      OBVIOUS
    <3> QED
      BY <3>1 DEF TradeEvents
  <2>3. /\ all \in Seq(Events) /\ Len(all) = 1 + Len(more) /\ all[1] = r
        /\ \A i \in 2 .. 1 + Len(more) : all[i] = more[i - 1]
    BY <2>1
  <2> HIDE DEF all
  <2>4. ASSUME NEW i \in 1 .. Len(all) PROVE i = 1 \/ all[i].t = "trade"
    <3>1. i = 1 \/ (i \in 2 .. 1 + Len(more) /\ i - 1 \in 1 .. Len(more))
      BY <2>1, <2>3
    <3> QED
      BY <2>2, <2>3, <3>1
  <2>5. Len(all) \in Nat /\ 1 \in 1 .. Len(all)
    BY <2>1, <2>3
  <2> QED
    BY <2>3, <2>4, <2>5, Zenon
<1> HIDE DEF all
<1>8. \A k : Silent(all, k) => k # id
  BY <1>5, <1>7 DEF Silent, Tells
<1>9. EventsSay(all, w)
  <2> SUFFICES ASSUME NEW i \in 1 .. Len(all), all[i].t = "order"
               PROVE  Says(all[i], w) /\ (IsLast(all, i) => IsSo(all[i], w))
    BY DEF EventsSay
  <2>1. all[i] = r
    BY <1>7
  <2>2. Says(r, w) /\ IsSo(r, w)
    BY <1>1, <1>4, <1>5 DEF Says, IsSo, Alike
  <2> QED
    BY <2>1, <2>2
<1>10. Numbered(w)
  BY <1>2, <1>4 DEF Numbered, OrdersHeard, Heard
<1>11. \A k \in 1 .. N : Alike(venue[k], w[k]) /\ (Silent(all, k) => w[k] = venue[k])
  BY <1>2, <1>4, <1>8 DEF Alike, o
<1>12. Heard(active_orders, reports \o all, w)
  <2>1. /\ Heard(active_orders, reports, venue) /\ Len(w) >= Len(venue)
        /\ \A k \in 1 .. Len(w) : Silent(all, k) => k \in 1 .. Len(venue)
        /\ \A k \in 1 .. Len(venue) : Alike(venue[k], w[k]) /\ (Silent(all, k) => w[k] = venue[k])
    BY <1>1, <1>4, <1>11 DEF OrdersHeard
  <2> QED
    BY <1>1, <1>4, <1>7, <1>9, <1>10, <2>1, HeardMore
<1> QED
  BY <1>3, <1>12 DEF OrdersHeard

LEMMA BecomesSound ==
  ASSUME OmsTypes, OrdersSound, NEW id \in DOMAIN venue, NEW y \in VenueOrder, NEW more,
         Becomes(id, y, more), Sound(y, shfe)
  PROVE  OrdersSound'
<1>1. venue \in Seq(VenueOrder) /\ id \in 1 .. Len(venue)
  BY DEF OmsTypes
<1>2. venue' = [venue EXCEPT ![id] = y] /\ shfe' = shfe
  BY DEF Becomes
<1>3. Len(venue') = Len(venue) /\ \A k \in 1 .. Len(venue) : venue'[k] = IF k = id THEN y ELSE venue[k]
  BY <1>1, <1>2, ChangeIs
<1> QED
  BY <1>2, <1>3 DEF OrdersSound

\* The orders are heard of and sound, and the positions cover them.
OrdersCovered == OrdersHeard /\ OrdersSound /\ OrdersKept

LEMMA OrderIs ==
  ASSUME OmsTypes, NEW id \in DOMAIN venue
  PROVE  /\ venue \in Seq(VenueOrder) /\ id \in 1 .. Len(venue) /\ venue[id] \in VenueOrder
         /\ venue[id].traded \in Int /\ venue[id].volume \in Int /\ venue[id].direction \in Sides
         /\ venue[id].offset \in Traders
         /\ account \in [Sides -> Balance] /\ shfe \in BOOLEAN
<1>1. venue \in Seq(VenueOrder) /\ id \in 1 .. Len(venue) /\ venue[id] \in VenueOrder
  BY DEF OmsTypes
<1> QED
  BY <1>1 DEF OmsTypes, VenueOrder

LEMMA AnswerCovered == ASSUME OmsTypes, OrdersCovered, NEW id \in DOMAIN venue, VenueAnswers(id) PROVE OrdersCovered'
<1> DEFINE o == venue[id]
<1>1. /\ venue \in Seq(VenueOrder) /\ id \in 1 .. Len(venue) /\ o \in VenueOrder
      /\ o.traded \in Int /\ o.volume \in Int /\ o.direction \in Sides
      /\ account \in [Sides -> Balance] /\ shfe \in BOOLEAN /\ Sound(o, shfe)
  BY OrderIs DEF OrdersCovered, OrdersSound
<1>2. o.status = "SUBMITTING" /\ account' = account /\ o.traded = 0
  BY <1>1, AnswerIs DEF Sound
<1>3. PICK st \in {"NOTTRADED", "REJECTED"} :
        /\ Becomes(id, With(o, o.traded, st), <<>>)
        /\ st = "NOTTRADED" => o.volume > 0 /\ (o.offset = "OPEN" \/ Accepts(Opposite(o.direction), <<o>>))
  BY AnswerIs
<1> DEFINE y == With(o, o.traded, st)
<1>4. y \in VenueOrder /\ st \in Statuses /\ <<>> \in Seq(TradeEvents)
  <2>1. st \in Statuses /\ <<>> \in Seq(TradeEvents)
    BY DEF Statuses
  <2> HIDE DEF o
  <2> QED
    BY <1>1, <2>1, WithTypes
<1>5. OrdersHeard'
  BY <1>1, <1>3, <1>4, BecomesHeard DEF OrdersCovered
<1>6. OrdersSound'
  <2>1. Sound(y, shfe)
    BY <1>1, <1>2, <1>3 DEF Sound, With, Resting
  <2> HIDE DEF y
  <2> QED
    BY <1>3, <1>4, <2>1, BecomesSound DEF OrdersCovered, y
<1>7. venue' = [venue EXCEPT ![id] = y] /\ shfe' = shfe
  BY <1>3 DEF Becomes
<1>8. ASSUME NEW s \in Sides PROVE Kept(venue', account'[s], shfe', s)
  <2>1. Kept(venue, account[s], shfe, s) /\ account[s] \in Balance
    BY <1>1 DEF OrdersCovered, OrdersKept
  <2>2. Kept([venue EXCEPT ![id] = y], account[s], shfe, s)
    <3>1. CASE st = "NOTTRADED"
      <4>1. Opposite(o.direction) = s => o.offset = "OPEN" \/ Room(venue, account[s], shfe, s, <<o>>)
        <5>1. \A O : Volume(<<o>>, O) \in Int
          <6>1. \A O : Volume(<<o>>, O) = IF o.offset \in O THEN o.volume ELSE 0
            BY <1>1, VolumeOne
          <6> HIDE DEF o
          <6> QED
            BY <1>1, <6>1
        <5> HIDE DEF o
        <5> QED
          BY <1>3, <3>1, <5>1, AcceptsIs
      <4>2. \A k \in 1 .. Len(venue) : Sound(venue[k], shfe)
        BY DEF OrdersCovered, OrdersSound
      <4> QED
        BY <1>1, <1>2, <2>1, <3>1, <4>1, <4>2, KeptMore
    <3>2. CASE st = "REJECTED"
      <4>1. \A O : Due(y, s, O) <= Due(o, s, O)
        BY <1>2, <3>2 DEF Due, Closing, Resting, With
      <4> HIDE DEF y
      <4> QED
        BY <1>1, <1>4, <2>1, <4>1, KeptLess
    <3> QED
      BY <3>1, <3>2
  <2> HIDE DEF y
  <2> QED
    BY <1>2, <1>7, <2>2
<1> QED
  BY <1>5, <1>6, <1>8 DEF OrdersCovered, OrdersKept

LEMMA CancelCovered == ASSUME OmsTypes, OrdersCovered, NEW id \in DOMAIN venue, VenueCancels(id) PROVE OrdersCovered'
<1> DEFINE o == venue[id]
           y == With(o, o.traded, "CANCELLED")
<1>1. /\ venue \in Seq(VenueOrder) /\ id \in 1 .. Len(venue) /\ o \in VenueOrder
      /\ o.traded \in Int /\ o.volume \in Int /\ o.direction \in Sides
      /\ account \in [Sides -> Balance] /\ shfe \in BOOLEAN /\ Sound(o, shfe)
  BY OrderIs DEF OrdersCovered, OrdersSound
<1>2. o.status \in Resting /\ account' = account /\ Becomes(id, y, <<>>)
  BY CancelIs
<1>3. y \in VenueOrder /\ "CANCELLED" \in Statuses /\ <<>> \in Seq(TradeEvents)
  <2>1. "CANCELLED" \in Statuses /\ <<>> \in Seq(TradeEvents)
    BY DEF Statuses
  <2> HIDE DEF o
  <2> QED
    BY <1>1, <2>1, WithTypes
<1>4. OrdersHeard'
  BY <1>1, <1>2, <1>3, BecomesHeard DEF OrdersCovered
<1>5. OrdersSound'
  <2>1. Sound(y, shfe)
    BY <1>1 DEF Sound, With, Resting
  <2> HIDE DEF y
  <2> QED
    BY <1>2, <1>3, <2>1, BecomesSound DEF OrdersCovered
<1>6. venue' = [venue EXCEPT ![id] = y] /\ shfe' = shfe
  BY <1>2 DEF Becomes
<1>7. ASSUME NEW s \in Sides PROVE Kept(venue', account'[s], shfe', s)
  <2>1. Kept(venue, account[s], shfe, s) /\ account[s] \in Balance
    BY <1>1 DEF OrdersCovered, OrdersKept
  <2>2. \A O : Due(y, s, O) <= Due(o, s, O)
    <3>1. \A O : Due(y, s, O) = 0
      BY DEF Due, Closing, Resting, With
    <3>2. \A O : Due(o, s, O) >= 0 /\ Due(o, s, O) \in Int
      BY <1>1, DueTypes
    <3> HIDE DEF y, o
    <3> QED
      BY <3>1, <3>2
  <2> HIDE DEF y
  <2>3. Kept([venue EXCEPT ![id] = y], account[s], shfe, s)
    BY <1>1, <1>3, <2>1, <2>2, KeptLess
  <2> QED
    BY <1>2, <1>6, <2>3
<1> QED
  BY <1>4, <1>5, <1>7 DEF OrdersCovered, OrdersKept

LEMMA FillCovered == ASSUME OmsTypes, OrdersCovered, NEW id \in DOMAIN venue, VenueFills(id) PROVE OrdersCovered'
<1> DEFINE o == venue[id]
<1>1. /\ venue \in Seq(VenueOrder) /\ id \in 1 .. Len(venue) /\ o \in VenueOrder
      /\ o.traded \in Int /\ o.volume \in Int /\ o.direction \in Sides
      /\ account \in [Sides -> Balance] /\ shfe \in BOOLEAN /\ Sound(o, shfe)
  BY OrderIs DEF OrdersCovered, OrdersSound
<1>2. PICK n \in Int, st \in Statuses, e \in TradeEvents :
        /\ o.status \in Resting
        /\ 0 < n /\ n <= o.volume - o.traded /\ (shfe => n \in Lots)
        /\ st = IF n = o.volume - o.traded THEN "ALLTRADED" ELSE "PARTTRADED"
        /\ Becomes(id, With(o, o.traded + n, st), <<e>>)
        /\ \A s \in Sides :
             account'[s] = IF s = Target(o.direction, o.offset) THEN Traded(account[s], o.offset, shfe, n)
                           ELSE account[s]
  <2>1. OrdersSound
    BY DEF OrdersCovered
  <2> QED
    BY <2>1, FillIs
<1> DEFINE y == With(o, o.traded + n, st)
<1>3. y \in VenueOrder /\ <<e>> \in Seq(TradeEvents) /\ o.traded + n \in Int
  <2>1. o.traded + n \in Int
    BY <1>1
  <2>2. y \in VenueOrder
    <3> HIDE DEF o
    <3> QED
      BY <1>1, <2>1, WithTypes
  <2> HIDE DEF y
  <2> QED
    BY <2>1, <2>2
<1>4. OrdersHeard'
  <2> DEFINE m == o.traded + n
             more == <<e>>
  <2>1. m \in Int /\ more \in Seq(TradeEvents) /\ Becomes(id, With(o, m, st), more)
    BY <1>2, <1>3
  <2> HIDE DEF m, more
  <2> QED
    BY <2>1, BecomesHeard DEF OrdersCovered
<1>5. OrdersSound'
  <2>1. Sound(y, shfe)
    <3>1. shfe => o.traded + n \in Lots
      BY <1>1, <1>2, LotsClosed DEF Sound
    <3>2. /\ y.offset = o.offset /\ y.volume = o.volume /\ y.traded = o.traded + n /\ y.status = st
      BY DEF With
    <3>3. st # "SUBMITTING" /\ (st \in Resting => o.traded + n < o.volume)
      BY <1>1, <1>2 DEF Resting
    <3>4. 0 <= o.traded
      BY <1>1, <1>2 DEF Sound
    <3>5. 0 <= o.traded + n
      BY <1>1, <1>2, <3>4
    <3> HIDE DEF y
    <3> QED
      BY <1>1, <3>1, <3>2, <3>3, <3>5, Zenon DEF Sound
  <2> DEFINE more == <<e>>
  <2>2. Becomes(id, y, more)
    BY <1>2
  <2> HIDE DEF y, more
  <2> QED
    BY <1>3, <2>1, <2>2, BecomesSound DEF OrdersCovered
<1>6. venue' = [venue EXCEPT ![id] = y] /\ shfe' = shfe
  BY <1>2 DEF Becomes
<1>7. ASSUME NEW s \in Sides PROVE Kept(venue', account'[s], shfe', s)
  <2>1. Kept(venue, account[s], shfe, s) /\ account[s] \in Balance
    BY <1>1 DEF OrdersCovered, OrdersKept
  <2>2. \A k \in 1 .. Len(venue) : Sound(venue[k], shfe)
    BY DEF OrdersCovered, OrdersSound
  <2> DEFINE b == IF s = Target(o.direction, o.offset) THEN Traded(account[s], o.offset, shfe, n) ELSE account[s]
  <2>3. account'[s] = b
    BY <1>2
  <2>4. FillOf(venue, id, account[s], shfe, s, n, st, b, venue')
    BY <1>1, <1>2, <1>6, <2>1, <2>2 DEF FillOf
  <2>5. Kept(venue', b, shfe, s)
    BY <2>4, KeptTraded
  <2> HIDE DEF b
  <2> QED
    BY <1>6, <2>3, <2>5
<1> QED
  BY <1>4, <1>5, <1>7 DEF OrdersCovered, OrdersKept

\* What a request sends: orders of the parts, each with its event.
Sends(reqs, new, sent, more) ==
  /\ Len(new) = Len(reqs) /\ Len(sent) = Len(reqs) /\ Len(more) = Len(reqs)
  /\ \A k \in 1 .. Len(reqs) : /\ new[k] = Order(Len(venue) + k, reqs[k])
                               /\ sent[k] = Submitted(new[k])
                               /\ more[k] = OrderEvent(new[k], "SUBMITTING")

LEMMA SentIs ==
  ASSUME OmsTypes, NEW req \in Requests, NEW mode \in Modes, SendOrder(req, mode)
  PROVE  \E reqs \in Seq(Fit(req.direction, shfe)), new \in Seq(OrderType), sent \in Seq(VenueOrder),
            more \in Seq(OrderEvents) :
           /\ Sends(reqs, new, sent, more)
           /\ venue' = venue \o sent /\ reports' = reports \o more
           /\ active_orders' = active_orders \cup Range(new)
           /\ UNCHANGED <<shfe, account>>
<1> DEFINE reqs == Convert(holding, req, shfe, mode[1], mode[2])
           new == [k \in DOMAIN reqs |-> Order(Len(venue) + k, reqs[k])]
           sent == [k \in DOMAIN new |-> Submitted(new[k])]
           more == [k \in DOMAIN new |-> OrderEvent(new[k], "SUBMITTING")]
<1>1. reqs \in Seq(Fit(req.direction, shfe))
  <2>1. req \in RequestType /\ req.offset \in {"OPEN", "CLOSE"} /\ Tradable(req.volume) /\ req.volume \in Int
    <3>1. req.offset \in {"OPEN", "CLOSE"} /\ Tradable(req.volume)
      BY DEF Requests
    <3> QED
      BY <3>1, RequestsTypes
  <2>2. shfe => req.volume \in Lots
    BY <2>1 DEF Tradable, Lots
  <2>3. holding \in [Sides -> Volumes] /\ shfe \in BOOLEAN
    BY DEF OmsTypes
  <2> QED
    BY <2>1, <2>2, <2>3, ConvertFits
<1>2. /\ venue' = venue \o sent /\ reports' = reports \o more
      /\ active_orders' = active_orders \cup Range(new)
      /\ UNCHANGED <<shfe, account>>
  BY DEF SendOrder
<1> HIDE DEF reqs
<1>3. /\ Len(venue) \in Nat /\ DOMAIN reqs = 1 .. Len(reqs) /\ Len(reqs) \in Nat
      /\ \A k \in 1 .. Len(reqs) : reqs[k] \in RequestType /\ Len(venue) + k \in Nat
  <2>1. \A k \in 1 .. Len(reqs) : reqs[k] \in Fit(req.direction, shfe)
    BY <1>1
  <2> QED
    BY <1>1, <2>1 DEF OmsTypes, Fit
<1>4. \A k \in 1 .. Len(reqs) : Order(Len(venue) + k, reqs[k]) \in OrderType
  BY <1>3 DEF Order, OrderType, RequestType
<1>5. /\ new \in Seq(OrderType) /\ Len(new) = Len(reqs)
      /\ \A k \in 1 .. Len(reqs) : new[k] = Order(Len(venue) + k, reqs[k])
  BY <1>3, <1>4
<1> HIDE DEF new
<1>6. DOMAIN new = 1 .. Len(reqs) /\ \A k \in 1 .. Len(reqs) : new[k] \in OrderType
  BY <1>5
<1>7. /\ sent \in Seq(VenueOrder) /\ Len(sent) = Len(reqs)
      /\ \A k \in 1 .. Len(reqs) : sent[k] = Submitted(new[k])
  <2>1. \A k \in 1 .. Len(reqs) : Submitted(new[k]) \in VenueOrder
    BY <1>6, EventTypes
  <2> QED
    BY <1>3, <1>6, <2>1
<1>8. /\ more \in Seq(OrderEvents) /\ Len(more) = Len(reqs)
      /\ \A k \in 1 .. Len(reqs) : more[k] = OrderEvent(new[k], "SUBMITTING")
  <2>1. \A k \in 1 .. Len(reqs) : OrderEvent(new[k], "SUBMITTING") \in OrderEvents
    BY <1>6, EventTypes DEF Statuses
  <2> QED
    BY <1>3, <1>6, <2>1
<1> HIDE DEF sent, more
<1>9. Sends(reqs, new, sent, more)
  BY <1>5, <1>7, <1>8 DEF Sends
<1> QED
  BY <1>1, <1>2, <1>5, <1>7, <1>8, <1>9

LEMMA SendCovered ==
  ASSUME OmsTypes, OrdersCovered, NEW req \in Requests, NEW mode \in Modes, SendOrder(req, mode)
  PROVE  OrdersCovered'
<1>1. PICK reqs \in Seq(Fit(req.direction, shfe)), new \in Seq(OrderType), sent \in Seq(VenueOrder),
           more \in Seq(OrderEvents) :
        /\ Sends(reqs, new, sent, more)
        /\ venue' = venue \o sent /\ reports' = reports \o more
        /\ active_orders' = active_orders \cup Range(new)
        /\ UNCHANGED <<shfe, account>>
  BY SentIs
<1> DEFINE N == Len(venue)
           M == Len(reqs)
           w == venue \o sent
<1>2. /\ venue \in Seq(VenueOrder) /\ reports \in Seq(Events) /\ account \in [Sides -> Balance]
      /\ shfe \in BOOLEAN /\ N \in Nat /\ M \in Nat
  BY DEF OmsTypes
<1>3. /\ Len(new) = M /\ Len(sent) = M /\ Len(more) = M
      /\ \A k \in 1 .. M : /\ reqs[k] \in Fit(req.direction, shfe)
                           /\ new[k] = Order(N + k, reqs[k])
                           /\ sent[k] = Submitted(new[k])
                           /\ more[k] = OrderEvent(new[k], "SUBMITTING")
  <2>1. \A k \in 1 .. M : reqs[k] \in Fit(req.direction, shfe)
    OBVIOUS
  <2> QED
    BY <1>1, <2>1 DEF Sends
<1>4. /\ w \in Seq(VenueOrder) /\ Len(w) = N + M
      /\ \A k \in 1 .. N : w[k] = venue[k]
      /\ \A k \in 1 .. M : w[N + k] = sent[k]
  <2>1. /\ w \in Seq(VenueOrder) /\ Len(w) = Len(venue) + Len(sent)
        /\ \A k \in 1 .. Len(venue) : w[k] = venue[k]
        /\ \A k \in 1 .. Len(sent) : w[Len(venue) + k] = sent[k]
    BY <1>2
  <2>2. Len(sent) = M
    BY <1>3
  <2> HIDE DEF w, M
  <2> QED
    BY <2>1, <2>2
<1> HIDE DEF w, N, M
<1>5. \A k \in 1 .. N + M : k \in 1 .. N \/ \E j \in 1 .. M : k = N + j
  <2>1. \A k \in 1 .. N + M : k \in 1 .. N \/ (k - N \in 1 .. M /\ k = N + (k - N))
    BY <1>2
  <2> QED
    BY <2>1, Zenon
<1>6. \A k \in 1 .. M : /\ N + k \in 1 .. N + M
                        /\ new[k].id = N + k /\ new[k].direction = sent[k].direction /\ new[k].offset = sent[k].offset
                        /\ sent[k].id = N + k /\ sent[k].status = "SUBMITTING"
                        /\ more[k].t = "order" /\ more[k].id = N + k
                        /\ Alike(more[k], sent[k])
                        /\ OrderOf(more[k]) = OrderOf(sent[k]) /\ more[k].status = sent[k].status
                        /\ Sound(sent[k], shfe)
  <2> SUFFICES ASSUME NEW k \in 1 .. M
               PROVE  /\ N + k \in 1 .. N + M
                      /\ new[k].id = N + k /\ new[k].direction = sent[k].direction /\ new[k].offset = sent[k].offset
                      /\ sent[k].id = N + k /\ sent[k].status = "SUBMITTING"
                      /\ more[k].t = "order" /\ more[k].id = N + k
                      /\ Alike(more[k], sent[k])
                      /\ OrderOf(more[k]) = OrderOf(sent[k]) /\ more[k].status = sent[k].status
                      /\ Sound(sent[k], shfe)
    OBVIOUS
  <2>1. N + k \in 1 .. N + M
    BY <1>2
  <2> DEFINE o == new[k]
             p == sent[k]
             e == more[k]
             r == reqs[k]
             id == N + k
  <2>2. o = Order(id, r) /\ p = Submitted(o) /\ e = OrderEvent(o, "SUBMITTING") /\ r \in Fit(req.direction, shfe)
    BY <1>3
  <2> HIDE DEF o, p, e, r, id
  <2>3. /\ o.id = id /\ o.direction = r.direction /\ o.offset = r.offset /\ o.volume = r.volume /\ o.traded = 0
    BY <2>2 DEF Order
  <2>4. /\ p.id = id /\ p.direction = o.direction /\ p.offset = o.offset /\ p.volume = r.volume /\ p.traded = 0
        /\ p.status = "SUBMITTING"
    BY <2>2, <2>3 DEF Submitted
  <2>5. /\ e.t = "order" /\ e.id = id /\ e.direction = o.direction /\ e.offset = o.offset /\ e.volume = r.volume
        /\ e.traded = 0 /\ e.status = "SUBMITTING"
    BY <2>2, <2>3 DEF OrderEvent
  <2>6. OrderOf(e) = OrderOf(p) /\ Alike(e, p)
    BY <2>4, <2>5 DEF OrderOf, Alike
  <2>7. Sound(p, shfe)
    BY <2>2, <2>3, <2>4, LotsClosed DEF Sound, Fit, Resting
  <2> QED
    BY <2>1, <2>3, <2>4, <2>5, <2>6, <2>7 DEF o, p, e, id
<1>7. \A k : Silent(more, k) => \A j \in 1 .. M : k # N + j
  BY <1>3, <1>6 DEF Silent, Tells
<1>8. more \in Seq(Events)
  BY DEF Events
<1>9. Heard(active_orders, reports, venue)
  BY DEF OrdersCovered, OrdersHeard
<1>10. Numbered(w)
  <2>1. \A k \in 1 .. N + M : w[k].id = k
    <3>1. \A k \in 1 .. N : w[k].id = k
      BY <1>4, <1>9 DEF Heard, Numbered, N
    <3>2. \A j \in 1 .. M : w[N + j].id = N + j
      BY <1>4, <1>6
    <3> QED
      BY <1>5, <3>1, <3>2, Zenon
  <2> QED
    BY <1>4, <2>1 DEF Numbered
<1>11. \A k \in 1 .. Len(venue) : Alike(venue[k], w[k]) /\ (Silent(more, k) => w[k] = venue[k])
  BY <1>4 DEF Alike, N
<1>12. \A k \in 1 .. Len(w) : Silent(more, k) => k \in 1 .. Len(venue)
  BY <1>4, <1>5, <1>7 DEF N
<1>13. \A j \in 1 .. M : Says(more[j], w) /\ IsSo(more[j], w)
  <2> SUFFICES ASSUME NEW j \in 1 .. M PROVE Says(more[j], w) /\ IsSo(more[j], w)
    OBVIOUS
  <2> DEFINE id == N + j
             e == more[j]
             p == sent[j]
  <2>1. /\ id \in 1 .. Len(w) /\ e.id = id /\ w[id] = p /\ Alike(e, p) /\ OrderOf(e) = OrderOf(p)
        /\ e.status = p.status
    BY <1>4, <1>6
  <2> HIDE DEF id, e, p
  <2>2. Says(e, w) /\ IsSo(e, w)
    BY <2>1 DEF Says, IsSo
  <2> QED
    BY <2>2 DEF e
<1>14. EventsSay(more, w)
  BY <1>3, <1>13 DEF EventsSay
<1> DEFINE b == active_orders \cup Range(new)
<1>15. active_orders \subseteq b /\ \A o \in b : o \in active_orders \/ (Says(o, w) /\ ~Silent(more, o.id))
  <2> SUFFICES ASSUME NEW o \in Range(new) PROVE Says(o, w) /\ ~Silent(more, o.id)
    OBVIOUS
  <2>1. PICK j \in 1 .. M : o = new[j]
    <3>1. DOMAIN new = 1 .. M
      BY <1>3
    <3> QED
      BY <3>1, Zenon DEF Range
  <2> DEFINE id == N + j
             e == more[j]
             p == sent[j]
  <2>2. /\ o.id = id /\ o.direction = p.direction /\ o.offset = p.offset
        /\ id \in 1 .. Len(w) /\ w[id] = p /\ j \in 1 .. Len(more)
    BY <1>3, <1>4, <1>6, <2>1
  <2>3. ~Silent(more, id)
    BY <1>7
  <2> HIDE DEF id, e, p
  <2> QED
    BY <2>2, <2>3 DEF Says, Alike
<1> HIDE DEF b
<1>16. Heard(b, reports \o more, w)
  <2>1. Len(w) >= Len(venue)
    BY <1>2, <1>4 DEF N
  <2> QED
    BY <1>2, <1>4, <1>8, <1>9, <1>10, <1>11, <1>12, <1>14, <1>15, <2>1, HeardMore
<1>17. OrdersHeard'
  BY <1>1, <1>16 DEF OrdersHeard, w, b
<1>18. OrdersSound'
  <2>1. \A k \in 1 .. N : Sound(w[k], shfe)
    BY <1>4 DEF OrdersCovered, OrdersSound, N
  <2>2. \A j \in 1 .. M : Sound(w[N + j], shfe)
    BY <1>4, <1>6
  <2>3. \A k \in 1 .. N + M : Sound(w[k], shfe)
    BY <1>5, <2>1, <2>2, Zenon
  <2>4. venue' = w /\ shfe' = shfe
    BY <1>1 DEF w
  <2> QED
    BY <1>4, <2>3, <2>4 DEF OrdersSound
<1>19. ASSUME NEW s \in Sides PROVE Kept(venue', account'[s], shfe', s)
  <2>1. Unanswered(sent)
    BY <1>3, <1>6 DEF Unanswered
  <2>2. ASSUME NEW O PROVE Owed(venue \o sent, s, O) = Owed(venue, s, O)
    <3>1. venue \in Seq(VenueOrder) /\ sent \in Seq(VenueOrder)
      BY <1>2
    <3> QED
      BY <2>1, <3>1, OwedMore
  <2>3. \A O : Owed(w, s, O) = Owed(venue, s, O)
    BY <2>2 DEF w
  <2>4. Kept(venue, account[s], shfe, s)
    BY DEF OrdersCovered, OrdersKept
  <2>5. Kept(w, account[s], shfe, s)
    BY <2>3, <2>4 DEF Kept
  <2> QED
    BY <1>1, <2>5 DEF w
<1> QED
  BY <1>17, <1>18, <1>19 DEF OrdersCovered, OrdersKept

LEMMA OrdersCoveredInit == Init => OrdersCovered
<1> SUFFICES ASSUME Init PROVE OrdersCovered
  OBVIOUS
<1>1. venue = <<>> /\ reports = <<>> /\ active_orders = {} /\ venue \in Seq(VenueOrder) /\ Len(venue) = 0
  BY DEF Init
<1>2. OrdersHeard
  BY <1>1 DEF OrdersHeard, Heard, Numbered, EventsSay, ActiveSay, KnownSay
<1>3. OrdersSound
  BY <1>1 DEF OrdersSound
<1>4. ASSUME NEW s \in Sides PROVE Kept(venue, account[s], shfe, s)
  <2>1. /\ account[s].td \in Nat /\ account[s].yd \in Nat /\ shfe \in BOOLEAN
        /\ Tradable(account[s].td)
    <3>1. account \in Held /\ Tradable(account[s].td) /\ shfe \in BOOLEAN
      BY DEF Init
    <3>2. account \in [Sides -> [td : Nat, yd : Nat]]
      BY <3>1, OmsAssumption
    <3> QED
      BY <3>1, <3>2
  <2>2. \A O : Owed(venue, s, O) = 0
    <3> SUFFICES ASSUME NEW O PROVE Owed(venue, s, O) = 0
      OBVIOUS
    <3> DEFINE d == Dues(venue, s, O)
    <3>1. d \in Seq(Int) /\ Len(d) = 0
      BY <1>1, DuesAre
    <3> HIDE DEF d
    <3>2. \A k \in 1 .. Len(d) : d[k] = 0
      BY <3>1
    <3>3. Total(d) = 0
      BY <3>1, <3>2, TotalZero
    <3> QED
      BY <3>3 DEF Owed, d
  <2>3. shfe => account[s].td \in Lots
    BY <2>1 DEF Tradable, Lots
  <2> QED
    BY <2>1, <2>2, <2>3 DEF Kept
<1> QED
  BY <1>2, <1>3, <1>4 DEF OrdersCovered, OrdersKept

\* An event of an order or of a trade is pushed from the front.
LEMMA EventCovered ==
  ASSUME OmsTypes, OrdersCovered, ProcessOrderEvent \/ ProcessTradeEvent
  PROVE  OrdersCovered'
<1>1. UNCHANGED <<shfe, venue, account>>
  BY DEF ProcessOrderEvent, ProcessTradeEvent, venueVars
<1>2. OrdersSound' /\ OrdersKept'
  BY <1>1 DEF OrdersCovered, OrdersSound, OrdersKept
<1>3. reports \in Seq(Events) /\ venue \in Seq(VenueOrder) /\ Heard(active_orders, reports, venue) /\ reports # <<>>
  BY DEF OmsTypes, OrdersCovered, OrdersHeard, ProcessOrderEvent, ProcessTradeEvent
<1>4. CASE ProcessOrderEvent
  <2>1. /\ reports' = Tail(reports) /\ Head(reports).t = "order"
        /\ active_orders' = Updated(active_orders, Head(reports))
    BY <1>4 DEF ProcessOrderEvent
  <2>2. Heard(Updated(active_orders, Head(reports)), Tail(reports), venue)
    BY <1>3, <2>1, HeardFront
  <2> QED
    BY <1>1, <1>2, <2>1, <2>2 DEF OrdersCovered, OrdersHeard
<1>5. CASE ProcessTradeEvent
  <2>1. reports' = Tail(reports) /\ Head(reports).t = "trade" /\ active_orders' = active_orders
    BY <1>5 DEF ProcessTradeEvent
  <2>2. Heard(active_orders, Tail(reports), venue)
    BY <1>3, <2>1, HeardFront
  <2> QED
    BY <1>1, <1>2, <2>1, <2>2 DEF OrdersCovered, OrdersHeard
<1> QED
  BY <1>4, <1>5

\* A trade that is reported again says nothing of the orders.
LEMMA RepeatCovered ==
  ASSUME OmsTypes, OrdersCovered, NEW s \in Sides, NEW n \in 2 .. Len(statement[s]), VenueRepeats(s, n)
  PROVE  OrdersCovered'
<1>1. PICK e \in TradeEvents : reports' = Append(reports, e)
  BY RepeatTypes
<1>2. UNCHANGED <<shfe, active_orders, venue, account>>
  BY DEF VenueRepeats, venueVars
<1> DEFINE more == <<e>>
<1>3. /\ more \in Seq(Events) /\ reports' = reports \o more /\ reports \in Seq(Events)
      /\ \A i \in 1 .. Len(more) : more[i].t = "trade"
  <2>1. e \in Events /\ e.t = "trade"
    BY DEF Events, TradeEvents
  <2>2. reports \in Seq(Events)
    BY DEF OmsTypes
  <2>3. Append(reports, e) = reports \o <<e>>
    BY <2>2
  <2>4. more \in Seq(Events) /\ \A i \in 1 .. Len(more) : more[i] = e
    BY <2>1
  <2> HIDE DEF more
  <2>5. \A i \in 1 .. Len(more) : more[i].t = "trade"
    BY <2>1, <2>4
  <2> QED
    BY <1>1, <2>2, <2>3, <2>4, <2>5 DEF more
<1> HIDE DEF more
<1>4. /\ venue \in Seq(VenueOrder) /\ Len(venue) \in Nat
      /\ Heard(active_orders, reports, venue) /\ Numbered(venue)
  BY DEF OmsTypes, OrdersCovered, OrdersHeard, Heard
<1>5. EventsSay(more, venue)
  BY <1>3 DEF EventsSay
<1>6. \A k \in 1 .. Len(venue) : Alike(venue[k], venue[k])
  BY DEF Alike
<1>7. Heard(active_orders, reports \o more, venue)
  BY <1>3, <1>4, <1>5, <1>6, HeardMore
<1> QED
  BY <1>2, <1>3, <1>7 DEF OrdersCovered, OrdersHeard, OrdersSound, OrdersKept

LEMMA OrdersCoveredStep == OmsTypes /\ OrdersCovered /\ [Next]_vars => OrdersCovered'
<1> SUFFICES ASSUME OmsTypes, OrdersCovered, [Next]_vars PROVE OrdersCovered'
  OBVIOUS
<1>1. ASSUME UNCHANGED <<shfe, active_orders, reports, venue, account>> PROVE OrdersCovered'
  BY <1>1 DEF OrdersCovered, OrdersHeard, OrdersSound, OrdersKept
<1>2. CASE ProcessContractEvent
  BY <1>1, <1>2 DEF ProcessContractEvent, venueVars
<1>3. CASE ProcessPositionEvent
  BY <1>1, <1>3 DEF ProcessPositionEvent, venueVars
<1>4. ASSUME NEW s \in Sides, VenuePushes(s) PROVE OrdersCovered'
  BY <1>1, <1>4 DEF VenuePushes, venueVars
<1>5. CASE UNCHANGED vars
  BY <1>1, <1>5 DEF vars, venueVars
<1> QED
  BY <1>2, <1>3, <1>4, <1>5, EventCovered, SendCovered, AnswerCovered, FillCovered, CancelCovered,
     RepeatCovered, Zenon DEF Next

\* What a side counts is what it has of today and of yesterday.
Summing == \A s \in Sides : holding[s].pos = holding[s].td + holding[s].yd

LEMMA SummingInit == Init => Summing
BY DEF Init, Empty, Summing

LEMMA SummingStep == OmsTypes /\ Summing /\ [Next]_vars => Summing'
<1> SUFFICES ASSUME OmsTypes, Summing, [Next]_vars PROVE Summing'
  OBVIOUS
<1>1. ASSUME \A s \in Sides : /\ holding'[s].td = holding[s].td /\ holding'[s].yd = holding[s].yd
                              /\ holding'[s].pos = holding[s].pos
      PROVE  Summing'
  BY <1>1 DEF Summing
<1>2. CASE ProcessOrderEvent
  BY <1>1, <1>2, OrderTypes
<1>3. ASSUME NEW req \in Requests, NEW mode \in Modes, SendOrder(req, mode) PROVE Summing'
  BY <1>1, <1>3, SentTypes
<1>4. CASE ProcessTradeEvent
  BY <1>4, TradeTypes DEF Summing
<1>5. CASE ProcessPositionEvent
  <2> DEFINE e == Head(pushes)
  <2>1. \A s \in Sides : IF contracts /\ s = e.side THEN holding'[s].pos = holding'[s].td + holding'[s].yd
                         ELSE holding'[s] = holding[s]
    BY <1>5, PositionTypes
  <2> HIDE DEF e
  <2> QED
    BY <2>1 DEF Summing
<1>6. ASSUME UNCHANGED holding PROVE Summing'
  BY <1>6 DEF Summing
<1>7. ASSUME NEW id \in DOMAIN venue, VenueAnswers(id) \/ VenueFills(id) \/ VenueCancels(id) PROVE Summing'
  BY <1>6, <1>7 DEF VenueAnswers, VenueFills, VenueCancels, Reported
<1>8. CASE ProcessContractEvent \/ UNCHANGED vars
           \/ \E s \in Sides : VenuePushes(s) \/ \E n \in 2 .. Len(statement[s]) : VenueRepeats(s, n)
  BY <1>6, <1>8 DEF ProcessContractEvent, vars, VenuePushes, VenueRepeats
<1> QED
  BY <1>2, <1>3, <1>4, <1>5, <1>7, <1>8, Zenon DEF Next
-------------------------------------------------------------------------------
(* What calculate_frozen finds.                                              *)

\* What an order freezes of a side, if it has such an offset.
Amount(o, s, O) == IF o.offset \in O /\ Opposite(o.direction) = s THEN o.volume - o.traded ELSE 0
Amounts(q, s, O) == [i \in DOMAIN q |-> Amount(q[i], s, O)]

LEMMA FreezeIs ==
  ASSUME NEW h \in [Sides -> Volumes], NEW f \in [Sides -> Balance], NEW o \in OrderType, NEW s \in Sides,
         NEW g, g = Freeze(h, f, o), NEW n, n = o.volume - o.traded
  PROVE  /\ Opposite(o.direction) # s \/ o.offset = "OPEN" => g[s] = f[s]
         /\ Opposite(o.direction) = s =>
              /\ o.offset = "CLOSETODAY" => g[s].td = f[s].td + n /\ g[s].yd = f[s].yd
              /\ o.offset = "CLOSEYESTERDAY" => g[s].td = f[s].td /\ g[s].yd = f[s].yd + n
              /\ o.offset = "CLOSE" =>
                   IF f[s].td + n <= h[s].td THEN g[s].td = f[s].td + n /\ g[s].yd = f[s].yd
                   ELSE g[s].td = h[s].td /\ g[s].yd = f[s].yd + f[s].td + n - h[s].td
<1> DEFINE x == Opposite(o.direction)
           td == f[x].td + n
           a == [f[x] EXCEPT !.td = td]
           b == [f[x] EXCEPT !.yd = f[x].yd + n]
           c == [td |-> h[x].td, yd |-> f[x].yd + td - h[x].td]
<1>1. x \in Sides /\ f[x] \in Balance /\ h[x].td \in Int /\ n \in Int /\ td \in Int
  <2>1. x \in Sides /\ f[x] \in Balance /\ h[x] \in Volumes /\ n \in Int
    BY Targets DEF OrderType
  <2> QED
    BY <2>1 DEF Volumes, Balance
<1>2. g = IF o.offset = "CLOSETODAY" \/ (o.offset = "CLOSE" /\ td <= h[x].td) THEN [f EXCEPT ![x] = a]
          ELSE IF o.offset = "CLOSEYESTERDAY" THEN [f EXCEPT ![x] = b]
          ELSE IF o.offset = "CLOSE" THEN [f EXCEPT ![x] = c]
          ELSE f
  BY DEF Freeze
<1>3. /\ a.td = td /\ a.yd = f[x].yd
      /\ b.td = f[x].td /\ b.yd = f[x].yd + n
      /\ c.td = h[x].td /\ c.yd = f[x].yd + f[x].td + n - h[x].td
  BY <1>1 DEF Balance
<1> HIDE DEF a, b, c, x
<1>4. /\ x # s => g[s] = f[s]
      /\ o.offset = "OPEN" => g[s] = f[s]
      /\ x = s => /\ o.offset = "CLOSETODAY" => g[s] = a
                  /\ o.offset = "CLOSEYESTERDAY" => g[s] = b
                  /\ o.offset = "CLOSE" => IF td <= h[s].td THEN g[s] = a ELSE g[s] = c
  BY <1>1, <1>2
<1> QED
  BY <1>3, <1>4 DEF x

\* What one more order adds to what is frozen: at SHFE to the part that it names.
AddsParts(g, f, o, s) ==
  /\ g[s].td = f[s].td + Amount(o, s, {"CLOSETODAY"})
  /\ g[s].yd = f[s].yd + Amount(o, s, {"CLOSE", "CLOSEYESTERDAY"})

LEMMA FreezeParts ==
  ASSUME NEW h \in [Sides -> Volumes], NEW f \in [Sides -> Balance], NEW o \in OrderType, NEW s \in Sides,
         Opposite(o.direction) = s => o.offset \in Uses(TRUE)
  PROVE  AddsParts(Freeze(h, f, o), f, o, s)
<1> DEFINE n == o.volume - o.traded
           x == Opposite(o.direction)
           a == Amount(o, s, {"CLOSETODAY"})
           b == Amount(o, s, {"CLOSE", "CLOSEYESTERDAY"})
           g == Freeze(h, f, o)
<1>1. f[s].td \in Int /\ f[s].yd \in Int /\ n \in Int
  <2>1. f[s] \in Balance
    OBVIOUS
  <2> QED
    BY <2>1 DEF Balance, OrderType
<1>2. /\ x # s \/ o.offset = "OPEN" => g[s] = f[s]
      /\ x = s => /\ o.offset = "CLOSETODAY" => g[s].td = f[s].td + n /\ g[s].yd = f[s].yd
                  /\ o.offset = "CLOSEYESTERDAY" => g[s].td = f[s].td /\ g[s].yd = f[s].yd + n
  BY FreezeIs
<1>3. /\ a = IF o.offset = "CLOSETODAY" /\ x = s THEN n ELSE 0
      /\ b = IF o.offset \in {"CLOSE", "CLOSEYESTERDAY"} /\ x = s THEN n ELSE 0
  BY DEF Amount
<1>4. x = s => o.offset \in {"OPEN", "CLOSETODAY", "CLOSEYESTERDAY"}
  BY DEF Uses
<1> HIDE DEF n, x, a, b, g
<1>5. g[s].td = f[s].td + a /\ g[s].yd = f[s].yd + b
  <2>1. CASE x # s
    BY <1>1, <1>2, <1>3, <2>1
  <2>2. CASE x = s /\ o.offset = "OPEN"
    BY <1>1, <1>2, <1>3, <2>2
  <2>3. CASE x = s /\ o.offset = "CLOSETODAY"
    BY <1>1, <1>2, <1>3, <2>3
  <2>4. CASE x = s /\ o.offset = "CLOSEYESTERDAY"
    BY <1>1, <1>2, <1>3, <2>4
  <2> QED
    BY <1>4, <2>1, <2>2, <2>3, <2>4
<1> QED
  BY <1>5 DEF AddsParts, a, b, g

\* Elsewhere orders freeze a volume t: today's first, then yesterday's.
Shares(f, t, h, s) == t \in Nat /\ f[s].td = Less(t, h[s].td) /\ f[s].yd = t - Less(t, h[s].td)

LEMMA FreezeShared ==
  ASSUME NEW h \in [Sides -> Volumes], NEW f \in [Sides -> Balance], NEW o \in OrderType, NEW s \in Sides,
         Opposite(o.direction) = s => o.offset \in Uses(FALSE) /\ (o.offset = "OPEN" \/ o.volume - o.traded >= 0),
         h[s].td >= 0, NEW t \in Nat, Shares(f, t, h, s)
  PROVE  Shares(Freeze(h, f, o), t + Amount(o, s, {"CLOSE"}), h, s)
<1> DEFINE n == o.volume - o.traded
           x == Opposite(o.direction)
           c == Amount(o, s, {"CLOSE"})
           g == Freeze(h, f, o)
           ft == f[s].td
           fy == f[s].yd
           ht == h[s].td
<1>1. ft \in Int /\ fy \in Int /\ ht \in Int /\ n \in Int
  <2>1. f[s] \in Balance /\ h[s] \in Volumes
    OBVIOUS
  <2> QED
    BY <2>1 DEF Volumes, Balance, OrderType
<1>2. /\ x # s \/ o.offset = "OPEN" => g[s] = f[s]
      /\ x = s /\ o.offset = "CLOSE" => IF ft + n <= ht THEN g[s].td = ft + n /\ g[s].yd = fy
                                         ELSE g[s].td = ht /\ g[s].yd = fy + ft + n - ht
  BY FreezeIs
<1>3. c = IF o.offset = "CLOSE" /\ x = s THEN n ELSE 0
  BY DEF Amount
<1>4. /\ x = s => o.offset \in {"OPEN", "CLOSE"} /\ (o.offset = "OPEN" \/ n >= 0)
      /\ ft = Less(t, ht) /\ fy = t - Less(t, ht) /\ ht >= 0
  BY DEF Uses, Shares
<1>5. CASE x # s \/ o.offset = "OPEN"
  <2>1. c = 0 /\ g[s] = f[s]
    BY <1>2, <1>3, <1>5
  <2>2. t + c = t
    BY <2>1
  <2> HIDE DEF c, g
  <2> QED
    BY <2>1, <2>2 DEF Shares, c, g
<1>6. CASE x = s /\ o.offset = "CLOSE"
  <2> HIDE DEF n, x, c, g, ft, fy, ht
  <2>1. c = n /\ n >= 0
    BY <1>3, <1>4, <1>6
  <2>2. t + c \in Nat /\ g[s].td = Less(t + c, ht) /\ g[s].yd = (t + c) - Less(t + c, ht)
    BY <1>1, <1>2, <1>4, <1>6, <2>1 DEF Less
  <2> QED
    BY <2>2 DEF Shares, c, g, ht
<1> QED
  BY <1>4, <1>5, <1>6

LEMMA AmountsAre ==
  ASSUME NEW q \in Seq(OrderType), NEW s, NEW O
  PROVE  /\ Amounts(q, s, O) \in Seq(Int) /\ Len(Amounts(q, s, O)) = Len(q)
         /\ \A i \in 1 .. Len(q) : Amounts(q, s, O)[i] = Amount(q[i], s, O)
<1> DEFINE N == Len(q)
<1>1. N \in Nat /\ DOMAIN q = 1 .. N /\ \A i \in 1 .. N : q[i] \in OrderType
  OBVIOUS
<1> HIDE DEF N
<1>2. \A i \in 1 .. N : Amount(q[i], s, O) \in Int
  BY <1>1 DEF Amount, OrderType
<1>3. Amounts(q, s, O) = [i \in 1 .. N |-> Amount(q[i], s, O)]
  BY <1>1 DEF Amounts
<1> QED
  BY <1>1, <1>2, <1>3 DEF N

\* The sums of what the active orders close; a CLOSE takes from today's first.
LEMMA FrozenSums ==
  ASSUME NEW h \in [Sides -> Volumes], NEW q \in Seq(OrderType), NEW s \in Sides, NEW sh \in BOOLEAN,
         \A i \in 1 .. Len(q) : Opposite(q[i].direction) = s =>
           q[i].offset \in Uses(sh) /\ (q[i].offset = "OPEN" \/ q[i].volume - q[i].traded >= 0)
  PROVE  /\ sh => /\ Frozen(h, q)[s].td = Total(Amounts(q, s, {"CLOSETODAY"}))
                  /\ Frozen(h, q)[s].yd = Total(Amounts(q, s, {"CLOSE", "CLOSEYESTERDAY"}))
         /\ ~sh /\ h[s].td >= 0 =>
              LET t == Total(Amounts(q, s, {"CLOSE"}))
              IN t \in Nat /\ Frozen(h, q)[s].td = Less(t, h[s].td) /\ Frozen(h, q)[s].yd = t - Less(t, h[s].td)
<1> DEFINE N == Len(q)
           A == {"CLOSETODAY"}
           B == {"CLOSE", "CLOSEYESTERDAY"}
           C == {"CLOSE"}
           Sum(O) == Total(Amounts(q, s, O))
           F == Frozen(h, q)
<1>1. N \in Nat /\ \A i \in 1 .. N : /\ i \in 0 .. N /\ i - 1 \in 0 .. N
                                     /\ q[i] \in OrderType
                                     /\ Opposite(q[i].direction) = s =>
                                          q[i].offset \in Uses(sh) /\ (q[i].offset = "OPEN" \/ q[i].volume - q[i].traded >= 0)
  OBVIOUS
<1>2. PICK f \in [0 .. N -> [Sides -> Balance]] :
        f[0] = Thawed /\ F = f[N] /\ \A n \in 1 .. N : f[n] = Freeze(h, f[n - 1], q[n])
  BY FrozenRounds
<1>3. \A O : \E w \in [0 .. N -> Int] : /\ w[0] = 0 /\ Sum(O) = w[N]
                                       /\ \A n \in 1 .. N : w[n] = w[n - 1] + Amount(q[n], s, O)
  <2> SUFFICES ASSUME NEW O
               PROVE  \E w \in [0 .. N -> Int] : /\ w[0] = 0 /\ Sum(O) = w[N]
                                                /\ \A n \in 1 .. N : w[n] = w[n - 1] + Amount(q[n], s, O)
    OBVIOUS
  <2> DEFINE d == Amounts(q, s, O)
  <2>1. d \in Seq(Int) /\ Len(d) = N /\ \A i \in 1 .. N : d[i] = Amount(q[i], s, O)
    BY AmountsAre
  <2> HIDE DEF d
  <2>2. PICK w \in [0 .. Len(d) -> Int] : /\ w[0] = 0 /\ Total(d) = w[Len(d)]
                                         /\ \A n \in 1 .. Len(d) : w[n] = w[n - 1] + d[n]
    BY <2>1, TotalRounds
  <2> QED
    BY <2>1, <2>2 DEF d
<1> HIDE DEF N, F, Sum
<1>4. \A n \in 0 .. N : f[n] \in [Sides -> Balance]
  BY <1>2
<1>5. f[0][s].td = 0 /\ f[0][s].yd = 0
  BY <1>2 DEF Thawed
<1>6. ASSUME sh PROVE F[s].td = Sum(A) /\ F[s].yd = Sum(B)
  <2>1. PICK w \in [0 .. N -> Int] :
          w[0] = 0 /\ Sum(A) = w[N] /\ \A n \in 1 .. N : w[n] = w[n - 1] + Amount(q[n], s, A)
    BY <1>3
  <2>2. PICK z \in [0 .. N -> Int] :
          z[0] = 0 /\ Sum(B) = z[N] /\ \A n \in 1 .. N : z[n] = z[n - 1] + Amount(q[n], s, B)
    BY <1>3
  <2> DEFINE T == {n \in 0 .. N : f[n][s].td = w[n] /\ f[n][s].yd = z[n]}
  <2>3. 0 \in T
    BY <1>1, <1>5, <2>1, <2>2
  <2>4. ASSUME NEW n \in 1 .. N, n - 1 \in T PROVE n \in T
    <3>1. f[n - 1] \in [Sides -> Balance] /\ q[n] \in OrderType /\ f[n] = Freeze(h, f[n - 1], q[n])
      BY <1>1, <1>2, <1>4
    <3>2. /\ f[n][s].td = f[n - 1][s].td + Amount(q[n], s, {"CLOSETODAY"})
          /\ f[n][s].yd = f[n - 1][s].yd + Amount(q[n], s, {"CLOSE", "CLOSEYESTERDAY"})
      <4> DEFINE e == f[n - 1]
                 g == f[n]
                 o == q[n]
      <4>1. /\ e \in [Sides -> Balance] /\ o \in OrderType /\ g = Freeze(h, e, o)
            /\ Opposite(o.direction) = s => o.offset \in Uses(TRUE)
        BY <1>1, <1>6, <3>1 DEF Uses
      <4> HIDE DEF e, g, o
      <4>2. AddsParts(g, e, o, s)
        BY <4>1, FreezeParts
      <4> QED
        BY <4>2 DEF AddsParts, e, g, o
    <3>3. f[n - 1][s].td = w[n - 1] /\ f[n - 1][s].yd = z[n - 1]
      BY <2>4
    <3>4. f[n][s].td = w[n] /\ f[n][s].yd = z[n]
      BY <2>1, <2>2, <3>2, <3>3
    <3> QED
      BY <1>1, <3>4
  <2> HIDE DEF T
  <2>5. \A n \in 0 .. N : n \in T
    BY <1>1, <2>3, <2>4, InductionUpTo
  <2>6. N \in T
    BY <1>1, <2>5
  <2> QED
    BY <1>2, <2>1, <2>2, <2>6 DEF T
<1>7. ASSUME ~sh, h[s].td >= 0
      PROVE  Sum(C) \in Nat /\ F[s].td = Less(Sum(C), h[s].td) /\ F[s].yd = Sum(C) - Less(Sum(C), h[s].td)
  <2>1. PICK w \in [0 .. N -> Int] :
          w[0] = 0 /\ Sum(C) = w[N] /\ \A n \in 1 .. N : w[n] = w[n - 1] + Amount(q[n], s, C)
    BY <1>3
  <2> DEFINE So(n) == w[n] \in Nat /\ f[n][s].td = Less(w[n], h[s].td) /\ f[n][s].yd = w[n] - Less(w[n], h[s].td)
             T == {n \in 0 .. N : So(n)}
  <2>2. 0 \in T
    <3>1. h[s] \in Volumes
      OBVIOUS
    <3>2. h[s].td \in Int
      BY <3>1 DEF Volumes
    <3>3. So(0)
      BY <1>5, <1>7, <2>1, <3>2 DEF Less
    <3> QED
      BY <1>1, <3>3
  <2>3. ASSUME NEW n \in 1 .. N, n - 1 \in T PROVE n \in T
    <3>1. f[n - 1] \in [Sides -> Balance] /\ q[n] \in OrderType /\ f[n] = Freeze(h, f[n - 1], q[n])
      BY <1>1, <1>2, <1>4
    <3>2. So(n - 1)
      BY <2>3
    <3> DEFINE t == w[n - 1]
               e == f[n - 1]
               g == f[n]
               o == q[n]
    <3>3. /\ t \in Nat /\ e \in [Sides -> Balance] /\ o \in OrderType /\ g = Freeze(h, e, o)
          /\ Shares(e, t, h, s)
          /\ Opposite(o.direction) = s => o.offset \in Uses(FALSE) /\ (o.offset = "OPEN" \/ o.volume - o.traded >= 0)
      BY <1>1, <1>7, <3>1, <3>2 DEF Uses, Shares
    <3>4. w[n] = t + Amount(o, s, {"CLOSE"})
      BY <2>1
    <3> HIDE DEF t, e, g, o
    <3>5. Shares(g, t + Amount(o, s, {"CLOSE"}), h, s)
      BY <1>7, <3>3, FreezeShared
    <3>6. Shares(g, w[n], h, s)
      BY <3>4, <3>5
    <3>7. So(n)
      BY <3>6 DEF Shares, g
    <3> QED
      BY <1>1, <3>7
  <2> HIDE DEF T
  <2>4. \A n \in 0 .. N : n \in T
    BY <1>1, <2>2, <2>3, InductionUpTo
  <2>5. N \in T
    BY <1>1, <2>4
  <2> QED
    BY <1>2, <2>1, <2>5 DEF T
<1> QED
  BY <1>6, <1>7 DEF F, Sum
-------------------------------------------------------------------------------
(* What is frozen is what the venue's orders will close.                     *)

\* The orders in the order of the loop.
LEMMA SeqsAre ==
  ASSUME NEW os \in SUBSET OrderType, IsFiniteSet(os), NEW q \in SetToSeqs(os)
  PROVE  /\ q \in Seq(OrderType)
         /\ \A i \in 1 .. Len(q) : q[i] \in os
         /\ \A i, j \in 1 .. Len(q) : q[i] = q[j] => i = j
         /\ \A o \in os : \E i \in 1 .. Len(q) : q[i] = o
<1> DEFINE N == Cardinality(os)
           D == 1 .. N
<1>1. N \in Nat
  BY FS_CardinalityType
<1>2. q \in [D -> os] /\ \A i, j \in D : i # j => q[i] # q[j]
  BY DEF SetToSeqs
<1> HIDE DEF N
<1>3. q \in Injection(D, os)
  BY <1>2 DEF Injection, IsInjective
<1>4. Cardinality(D) = N
  BY <1>1, FS_Interval
<1>5. q \in Surjection(D, os)
  <2>1. Cardinality(D) = Cardinality(os)
    BY <1>4 DEF N
  <2> HIDE DEF D
  <2> QED
    BY <1>3, <2>1, FS_Injection
<1>6. \A o \in os : \E i \in D : q[i] = o
  BY <1>5 DEF Surjection
<1>7. q \in Seq(OrderType) /\ Len(q) = N
  BY <1>1, <1>2
<1> QED
  BY <1>2, <1>6, <1>7

\* No event of a side is on its way: none of its orders is spoken of ...
LEMMA NothingSaid ==
  ASSUME OmsTypes, OrdersCovered, NEW s \in Sides, ~About(s), NEW o, Says(o, venue),
         o.offset # "OPEN", Opposite(o.direction) = s
  PROVE  Silent(reports, o.id)
<1> SUFFICES ASSUME NEW i \in 1 .. Len(reports), Tells(reports[i], o.id) PROVE FALSE
  BY DEF Silent
<1>1. reports[i].t = "order" /\ reports[i].id = o.id
  BY DEF Tells
<1>2. Says(reports[i], venue)
  BY <1>1 DEF OrdersCovered, OrdersHeard, Heard, EventsSay
<1>3. reports[i].offset = o.offset /\ reports[i].direction = o.direction
  BY <1>1, <1>2 DEF Says, Alike
<1>4. reports[i] \in Range(reports)
  <2>1. i \in DOMAIN reports
    BY DEF OmsTypes
  <2> QED
    BY <2>1 DEF Range
<1> QED
  BY <1>1, <1>3, <1>4 DEF About

Settled(s) == ~About(s) /\ \A k \in DOMAIN venue : venue[k].status # "SUBMITTING"

\* The orders that the converter counts for a side are the venue's.
LEMMA FrozenOwed ==
  ASSUME OmsTypes, OrdersCovered, NEW s \in Sides, Settled(s), NEW q \in SetToSeqs(active_orders)
  PROVE  /\ q \in Seq(OrderType)
         /\ \A i \in 1 .. Len(q) : Opposite(q[i].direction) = s =>
              q[i].offset \in Uses(shfe) /\ (q[i].offset = "OPEN" \/ q[i].volume - q[i].traded >= 0)
         /\ \A O : "OPEN" \notin O => Total(Amounts(q, s, O)) = Owed(venue, s, O)
<1> DEFINE N == Len(q)
           M == Len(venue)
           Ours(o) == o.offset # "OPEN" /\ Opposite(o.direction) = s
<1>1. /\ q \in Seq(OrderType) /\ N \in Nat
      /\ \A i \in 1 .. N : q[i] \in active_orders
      /\ \A i, j \in 1 .. N : q[i] = q[j] => i = j
      /\ \A o \in active_orders : \E i \in 1 .. N : q[i] = o
  <2>1. active_orders \in SUBSET OrderType /\ IsFiniteSet(active_orders)
    BY DEF OmsTypes
  <2> QED
    BY <2>1, SeqsAre
<1>2. venue \in Seq(VenueOrder) /\ M \in Nat /\ DOMAIN venue = 1 .. M
  BY DEF OmsTypes
<1>3. /\ \A k \in 1 .. M : venue[k].id = k /\ Sound(venue[k], shfe) /\ venue[k].status # "SUBMITTING"
      /\ \A o \in active_orders :
           Says(o, venue) /\ (Silent(reports, o.id) => o = OrderOf(venue[o.id]) /\ venue[o.id].status \in Active)
      /\ \A k \in 1 .. M : Silent(reports, k) /\ venue[k].status \in Active => OrderOf(venue[k]) \in active_orders
  BY <1>2 DEF OrdersCovered, OrdersHeard, OrdersSound, Heard, Numbered, ActiveSay, KnownSay, Settled
<1>4. \A st \in Active : st # "SUBMITTING" => st \in Resting
  BY DEF Active, Resting
<1>5. ASSUME NEW i \in 1 .. N
      PROVE  /\ q[i].id \in 1 .. M /\ q[i].offset \in Uses(shfe)
             /\ Ours(q[i]) => q[i] = OrderOf(venue[q[i].id]) /\ venue[q[i].id].status \in Resting
  <2> DEFINE o == q[i]
  <2>1. o \in active_orders
    BY <1>1
  <2>2. /\ Says(o, venue)
        /\ Silent(reports, o.id) => o = OrderOf(venue[o.id]) /\ venue[o.id].status \in Active
    BY <1>3, <2>1
  <2> HIDE DEF o
  <2>3. o.id \in 1 .. M /\ o.offset = venue[o.id].offset
    BY <2>2 DEF Says, Alike
  <2>4. o.offset \in Uses(shfe)
    BY <1>3, <2>3 DEF Sound
  <2>5. Ours(o) => Silent(reports, o.id)
    BY <2>2, NothingSaid DEF Settled
  <2>6. Ours(o) => o = OrderOf(venue[o.id]) /\ venue[o.id].status \in Resting
    BY <1>3, <1>4, <2>2, <2>3, <2>5
  <2> QED
    BY <2>3, <2>4, <2>6 DEF o
<1>6. \A k \in 1 .. M : /\ OrderOf(venue[k]).id = k /\ OrderOf(venue[k]).offset = venue[k].offset
                        /\ OrderOf(venue[k]).direction = venue[k].direction
                        /\ OrderOf(venue[k]).volume = venue[k].volume /\ OrderOf(venue[k]).traded = venue[k].traded
                        /\ venue[k].volume \in Int /\ venue[k].traded \in Int
  <2> SUFFICES ASSUME NEW k \in 1 .. M
               PROVE  /\ OrderOf(venue[k]).id = k /\ OrderOf(venue[k]).offset = venue[k].offset
                      /\ OrderOf(venue[k]).direction = venue[k].direction
                      /\ OrderOf(venue[k]).volume = venue[k].volume /\ OrderOf(venue[k]).traded = venue[k].traded
                      /\ venue[k].volume \in Int /\ venue[k].traded \in Int
    OBVIOUS
  <2>1. venue[k] \in VenueOrder /\ venue[k].id = k
    BY <1>2, <1>3
  <2> QED
    BY <2>1 DEF OrderOf, VenueOrder
<1>7. ASSUME NEW k \in 1 .. M, Ours(venue[k]), venue[k].status \in Resting
      PROVE  \E i \in 1 .. N : q[i] = OrderOf(venue[k])
  <2>1. venue[k].status \in Active
    BY <1>7 DEF Active, Resting
  <2>2. Silent(reports, k)
    <3> DEFINE o == venue[k]
    <3>1. Says(o, venue) /\ o.id = k
      BY <1>3 DEF Says, Alike
    <3> HIDE DEF o
    <3>2. Ours(o)
      BY <1>7 DEF o
    <3> QED
      BY <3>1, <3>2, NothingSaid DEF Settled
  <2> QED
    BY <1>1, <1>3, <2>1, <2>2
<1> HIDE DEF N, M
<1>8. ASSUME NEW i \in 1 .. N, Opposite(q[i].direction) = s
      PROVE  q[i].offset \in Uses(shfe) /\ (q[i].offset = "OPEN" \/ q[i].volume - q[i].traded >= 0)
  <2>1. q[i].id \in 1 .. M /\ q[i].offset \in Uses(shfe)
    BY <1>5
  <2>2. CASE q[i].offset = "OPEN"
    BY <2>1, <2>2
  <2>3. CASE q[i].offset # "OPEN"
    <3> DEFINE k == q[i].id
               o == venue[k]
    <3>1. q[i] = OrderOf(o) /\ o.status \in Resting
      BY <1>5, <1>8, <2>3
    <3>2. Sound(o, shfe) /\ q[i].volume = o.volume /\ q[i].traded = o.traded /\ o.volume \in Int /\ o.traded \in Int
      <4>1. k \in 1 .. M
        BY <2>1
      <4> HIDE DEF k
      <4> QED
        BY <1>3, <1>6, <3>1, <4>1
    <3> HIDE DEF k, o
    <3>3. o.volume - o.traded >= 0
      BY <3>1, <3>2 DEF Sound
    <3> QED
      BY <2>1, <3>2, <3>3
  <2> QED
    BY <2>2, <2>3
<1>9. ASSUME NEW O, "OPEN" \notin O PROVE Total(Amounts(q, s, O)) = Owed(venue, s, O)
  <2> DEFINE w == Amounts(q, s, O)
             v == Dues(venue, s, O)
             g == [i \in 1 .. N |-> q[i].id]
  <2>1. w \in Seq(Int) /\ Len(w) = N /\ \A i \in 1 .. N : w[i] = Amount(q[i], s, O)
    BY <1>1, AmountsAre DEF N
  <2>2. v \in Seq(Int) /\ Len(v) = M /\ \A k \in 1 .. M : v[k] = Due(venue[k], s, O)
    BY <1>2, DuesAre DEF M
  <2> HIDE DEF w, v
  <2>3. \A i \in 1 .. N : g[i] = q[i].id
    OBVIOUS
  <2> HIDE DEF g
  <2>4. ASSUME NEW i \in 1 .. N, w[i] # 0
        PROVE  g[i] \in 1 .. M /\ v[g[i]] = w[i] /\ q[i] = OrderOf(venue[g[i]])
    <3> DEFINE k == q[i].id
               o == venue[k]
    <3>1. Ours(q[i]) /\ w[i] = q[i].volume - q[i].traded /\ q[i].offset \in O
      BY <2>1, <2>4, <1>9 DEF Amount
    <3>2. k \in 1 .. M /\ q[i] = OrderOf(o) /\ o.status \in Resting
      BY <1>5, <3>1
    <3>3. g[i] = k
      BY <2>3
    <3>4. v[k] = Due(o, s, O)
      BY <2>2, <3>2
    <3>5. q[i].offset = o.offset /\ q[i].direction = o.direction /\ q[i].volume = o.volume /\ q[i].traded = o.traded
      <4>1. k \in 1 .. M
        BY <3>2
      <4>2. q[i] = OrderOf(venue[k])
        BY <3>2
      <4> HIDE DEF k
      <4> QED
        BY <1>6, <4>1, <4>2
    <3> HIDE DEF k, o
    <3>6. Due(o, s, O) = w[i]
      BY <3>1, <3>2, <3>5 DEF Due, Closing
    <3> QED
      BY <3>2, <3>3, <3>4, <3>6 DEF o
  <2>5. ASSUME NEW i \in 1 .. N, NEW j \in 1 .. N, w[i] # 0, w[j] # 0, g[i] = g[j] PROVE i = j
    <3>1. q[i] = OrderOf(venue[g[i]]) /\ q[j] = OrderOf(venue[g[j]])
      BY <2>4, <2>5
    <3>2. q[i] = q[j]
      BY <2>5, <3>1
    <3> QED
      BY <1>1, <3>2 DEF N
  <2>6. ASSUME NEW k \in 1 .. M, v[k] # 0 PROVE Found(w, g, N, k)
    <3>1. v[k] = Due(venue[k], s, O)
      BY <2>2
    <3>2. /\ Ours(venue[k]) /\ venue[k].status \in Resting /\ venue[k].offset \in O
          /\ v[k] = venue[k].volume - venue[k].traded
      BY <1>9, <2>6, <3>1 DEF Due, Closing
    <3>3. PICK i \in 1 .. N : q[i] = OrderOf(venue[k])
      BY <1>7, <3>2
    <3>4. /\ q[i].id = k /\ q[i].offset = venue[k].offset /\ q[i].direction = venue[k].direction
          /\ q[i].volume = venue[k].volume /\ q[i].traded = venue[k].traded
      BY <1>6, <3>3
    <3>5. Amount(q[i], s, O) = v[k]
      BY <3>2, <3>4 DEF Amount
    <3>6. w[i] # 0 /\ g[i] = k
      BY <2>1, <2>3, <2>6, <3>4, <3>5
    <3> QED
      BY <3>6 DEF Found
  <2>7. Places(w, v, g)
    <3>1. \A i \in 1 .. N : w[i] # 0 => g[i] \in 1 .. M /\ v[g[i]] = w[i]
      BY <2>4
    <3>2. \A i, j \in 1 .. N : w[i] # 0 /\ w[j] # 0 /\ g[i] = g[j] => i = j
      BY <2>5
    <3>3. \A k \in 1 .. M : v[k] # 0 => Found(w, g, N, k)
      BY <2>6
    <3> QED
      BY <2>1, <2>2, <3>1, <3>2, <3>3 DEF Places
  <2>8. Total(w) = Total(v)
    BY <2>1, <2>2, <2>7, TotalSame
  <2> QED
    BY <2>8 DEF w, v, Owed
<1> QED
  BY <1>1, <1>8, <1>9 DEF N

\* Room for what is converted: what is at hand is what is not owed.
LEMMA RoomLeft ==
  ASSUME NEW v, NEW a \in Balance, NEW sh \in BOOLEAN, NEW s, NEW reqs, NEW at, Covers(reqs, sh, at),
         \A O : Owed(v, s, O) \in Int, \A O : Volume(reqs, O) \in Int,
         IF sh THEN /\ at.td = a.td - Owed(v, s, {"CLOSETODAY"})
                    /\ at.yd = a.yd - Owed(v, s, {"CLOSE", "CLOSEYESTERDAY"})
         ELSE /\ Owed(v, s, {"CLOSETODAY"}) = 0 /\ Owed(v, s, {"CLOSEYESTERDAY"}) = 0
              /\ at.pos = a.td + a.yd - Owed(v, s, {"CLOSE"})
              /\ 0 <= a.td /\ 0 <= a.yd
  PROVE  Room(v, a, sh, s, reqs)
<1>1. a.td \in Int /\ a.yd \in Int
  BY DEF Balance
<1> DEFINE ot == Owed(v, s, {"CLOSETODAY"})
           oy == Owed(v, s, {"CLOSEYESTERDAY"})
           oc == Owed(v, s, {"CLOSE"})
           ob == Owed(v, s, {"CLOSE", "CLOSEYESTERDAY"})
           vt == Volume(reqs, {"CLOSETODAY"})
           vy == Volume(reqs, {"CLOSEYESTERDAY"})
           vc == Volume(reqs, {"CLOSE"})
           vb == Volume(reqs, {"CLOSE", "CLOSEYESTERDAY"})
<1>2. {ot, oy, oc, ob, vt, vy, vc, vb} \subseteq Int
  OBVIOUS
<1>3. CASE sh
  <2>1. vt <= at.td /\ vb <= at.yd /\ at.td = a.td - ot /\ at.yd = a.yd - ob
    BY <1>3 DEF Covers
  <2>2. vt <= a.td - ot /\ vb <= a.yd - ob
    BY <2>1
  <2> QED
    BY <1>3, <2>2 DEF Room
<1>4. CASE ~sh
  <2>1. /\ vt = 0 /\ vy = 0 /\ vc <= at.pos /\ ot = 0 /\ oy = 0 /\ at.pos = a.td + a.yd - oc
        /\ 0 <= a.td /\ 0 <= a.yd
    BY <1>4 DEF Covers
  <2> HIDE DEF ot, oy, oc, ob, vt, vy, vc, vb
  <2>2. vt <= a.td - ot /\ vy <= a.yd - oy /\ vt + vy + vc <= (a.td - ot) + (a.yd - oy) - oc
    BY <1>1, <1>2, <2>1
  <2> QED
    BY <1>4, <2>2 DEF Room, ot, oy, oc, vt, vy, vc
<1> QED
  BY <1>3, <1>4

\* What the converter takes to be at hand is what the venue's orders leave.
LEMMA AtHandIs ==
  ASSUME OmsTypes, OrdersCovered, Tracked, Summing, FrozenCurrent, NEW s \in Sides, Straight(s), Settled(s),
         NEW at, at = Available(holding[s])
  PROVE  /\ at.td \in Int /\ at.yd \in Int /\ at.td >= 0 /\ at.yd >= 0 /\ at.pos = at.td + at.yd
         /\ shfe => /\ at.td \in Lots
                    /\ at.td = account[s].td - Owed(venue, s, {"CLOSETODAY"})
                    /\ at.yd = account[s].yd - Owed(venue, s, {"CLOSE", "CLOSEYESTERDAY"})
         /\ ~shfe => /\ at.pos = account[s].td + account[s].yd - Owed(venue, s, {"CLOSE"})
                     /\ 0 <= account[s].td /\ 0 <= account[s].yd
<1> DEFINE td == holding[s].td
           yd == holding[s].yd
           T == {"CLOSETODAY"}
           B == {"CLOSE", "CLOSEYESTERDAY"}
           C == {"CLOSE"}
<1>1. /\ td \in Int /\ yd \in Int /\ holding[s].pos = td + yd /\ s \in Sides
      /\ account[s].td = td /\ account[s].yd = yd
      /\ shfe \in BOOLEAN /\ holding \in [Sides -> Volumes] /\ venue \in Seq(VenueOrder)
  <2>1. holding[s].td = account[s].td /\ holding[s].yd = account[s].yd
    BY TrackedHolds DEF HoldingTracksVenue
  <2>2. holding[s] \in Volumes
    BY DEF OmsTypes
  <2> QED
    BY <2>1, <2>2 DEF OmsTypes, Summing, Volumes
<1>2. PICK q \in SetToSeqs(active_orders) :
        \A x \in Sides : /\ holding[x].td_frozen = Less(Frozen(holding, q)[x].td, holding[x].td)
                         /\ holding[x].yd_frozen = Less(Frozen(holding, q)[x].yd, holding[x].yd)
                         /\ holding[x].pos_frozen = holding[x].td_frozen + holding[x].yd_frozen
  <2>1. active_orders \in SUBSET OrderType /\ IsFiniteSet(active_orders)
    BY DEF OmsTypes
  <2> DEFINE h == holding
  <2>2. h \in CalculateFrozen(holding, active_orders)
    BY DEF FrozenCurrent
  <2> QED
    BY <1>1, <2>1, <2>2, CalculateFrozenTypes
<1> DEFINE ft == Frozen(holding, q)[s].td
           fy == Frozen(holding, q)[s].yd
<1>3. /\ at.td = td - Less(ft, td) /\ at.yd = yd - Less(fy, yd)
      /\ at.pos = (td + yd) - (Less(ft, td) + Less(fy, yd))
  BY <1>1, <1>2 DEF Available
<1>4. /\ q \in Seq(OrderType)
      /\ \A i \in 1 .. Len(q) : Opposite(q[i].direction) = s =>
           q[i].offset \in Uses(shfe) /\ (q[i].offset = "OPEN" \/ q[i].volume - q[i].traded >= 0)
      /\ \A O : "OPEN" \notin O => Total(Amounts(q, s, O)) = Owed(venue, s, O)
  BY FrozenOwed
<1>5. Frozen(holding, q) \in [Sides -> Balance]
  BY <1>1, <1>4, FrozenTypes
<1>6. ft \in Int /\ fy \in Int
  <2>1. Frozen(holding, q)[s] \in Balance
    BY <1>1, <1>5
  <2> QED
    BY <2>1 DEF Balance
<1>7. /\ shfe => ft = Owed(venue, s, T) /\ fy = Owed(venue, s, B)
      /\ ~shfe /\ td >= 0 => /\ Owed(venue, s, C) \in Nat
                            /\ ft = Less(Owed(venue, s, C), td)
                            /\ fy = Owed(venue, s, C) - Less(Owed(venue, s, C), td)
  <2>1. /\ shfe => /\ Frozen(holding, q)[s].td = Total(Amounts(q, s, {"CLOSETODAY"}))
                   /\ Frozen(holding, q)[s].yd = Total(Amounts(q, s, {"CLOSE", "CLOSEYESTERDAY"}))
        /\ ~shfe /\ holding[s].td >= 0 =>
             LET t == Total(Amounts(q, s, {"CLOSE"}))
             IN t \in Nat /\ Frozen(holding, q)[s].td = Less(t, holding[s].td)
                          /\ Frozen(holding, q)[s].yd = t - Less(t, holding[s].td)
    BY <1>1, <1>4, FrozenSums
  <2>2. /\ Total(Amounts(q, s, {"CLOSETODAY"})) = Owed(venue, s, T)
        /\ Total(Amounts(q, s, {"CLOSE", "CLOSEYESTERDAY"})) = Owed(venue, s, B)
        /\ Total(Amounts(q, s, {"CLOSE"})) = Owed(venue, s, C)
    BY <1>4
  <2> QED
    BY <2>1, <2>2
<1>8. Kept(venue, account[s], shfe, s)
  BY <1>1 DEF OrdersCovered, OrdersKept
<1> HIDE DEF td, yd, ft, fy
<1>9. CASE shfe
  <2>1. Owed(venue, s, T) <= td /\ td \in Lots /\ Owed(venue, s, B) <= yd
    BY <1>1, <1>8, <1>9 DEF Kept, T, B
  <2>2. ft <= td /\ fy <= yd /\ ft = Owed(venue, s, T) /\ fy = Owed(venue, s, B)
    BY <1>7, <1>9, <2>1
  <2>3. Less(ft, td) = ft /\ Less(fy, yd) = fy
    BY <1>1, <1>6, <2>2 DEF Less
  <2>4. at.td = td - ft /\ at.yd = yd - fy /\ at.pos = (td + yd) - (ft + fy)
    BY <1>3, <2>3
  <2>5. ft \in Lots
    <3>1. \A k \in 1 .. Len(venue) : Due(venue[k], s, T) \in Lots
      <4> SUFFICES ASSUME NEW k \in 1 .. Len(venue) PROVE Due(venue[k], s, T) \in Lots
        OBVIOUS
      <4>1. Sound(venue[k], shfe)
        BY DEF OrdersCovered, OrdersSound
      <4>2. venue[k].volume \in Lots /\ venue[k].traded \in Lots
        BY <1>9, <4>1 DEF Sound
      <4> QED
        BY <4>2, LotsClosed DEF Due
    <3> DEFINE d == Dues(venue, s, T)
    <3>2. d \in Seq(Int) /\ Len(d) = Len(venue) /\ \A k \in 1 .. Len(venue) : d[k] = Due(venue[k], s, T)
      BY <1>1, DuesAre
    <3> HIDE DEF d, T
    <3>3. d \in Seq(Lots)
      <4>1. \A k \in 1 .. Len(d) : d[k] \in Lots
        BY <3>1, <3>2
      <4> QED
        BY <3>2, <4>1
    <3>4. Total(d) \in Lots
      <4>1. Lots \in SUBSET Int
        BY DEF Lots
      <4> QED
        BY <3>3, <4>1, LotsClosed, TotalIn
    <3> QED
      BY <2>2, <3>4 DEF Owed, d
  <2>6. td - ft \in Lots
    BY <2>1, <2>5, LotsClosed
  <2> HIDE DEF T, B, C
  <2>t. td \in Int /\ yd \in Int
    BY <1>1
  <2>r. at.td = td - ft /\ at.td \in Int /\ at.td >= 0
    BY <1>6, <2>t, <2>2, <2>4
  <2>y. at.yd = yd - fy /\ at.yd \in Int /\ at.yd >= 0
    BY <1>6, <2>t, <2>2, <2>4
  <2>p. at.pos = (td - ft) + (yd - fy)
    BY <1>6, <2>t, <2>4
  <2>7. at.td >= 0 /\ at.yd >= 0 /\ at.pos = at.td + at.yd /\ at.td \in Int /\ at.yd \in Int
    BY <2>r, <2>y, <2>p
  <2> QED
    BY <1>1, <1>9, <2>2, <2>4, <2>6, <2>7 DEF T, B
<1>10. CASE ~shfe
  <2> DEFINE oc == Owed(venue, s, C)
  <2>1. 0 <= td /\ 0 <= yd /\ oc <= td + yd
    BY <1>1, <1>8, <1>10 DEF Kept, C
  <2>2. oc \in Nat /\ ft = Less(oc, td) /\ fy = oc - Less(oc, td)
    BY <1>7, <1>10, <2>1
  <2> HIDE DEF oc
  <2>3. Less(ft, td) = ft /\ Less(fy, yd) = fy /\ ft <= td /\ fy <= yd /\ ft + fy = oc
    BY <1>1, <2>1, <2>2 DEF Less
  <2>4. at.td = td - ft /\ at.yd = yd - fy /\ at.pos = (td + yd) - (ft + fy)
    BY <1>3, <2>3
  <2>5. at.td >= 0 /\ at.yd >= 0 /\ at.pos = at.td + at.yd /\ at.td \in Int /\ at.yd \in Int
    BY <1>1, <1>6, <2>3, <2>4
  <2>6. at.pos = td + yd - oc
    BY <1>1, <1>6, <2>3, <2>4
  <2> QED
    BY <1>1, <1>10, <2>1, <2>5, <2>6 DEF oc
<1> QED
  BY <1>1, <1>9, <1>10

\* What is at hand is what the venue's orders leave of its position, and a
\* conversion asks for no more than is at hand.
LEMMA CoveredHolds == OmsTypes /\ OrdersCovered /\ Tracked /\ Summing => ClosesCovered
<1> SUFFICES ASSUME OmsTypes, OrdersCovered, Tracked, Summing,
                    NEW s \in Sides, Straight(s),
                    FrozenCurrent, ~About(s), \A k \in DOMAIN venue : venue[k].status # "SUBMITTING",
                    NEW req \in {r \in Requests : Opposite(r.direction) = s /\ r.offset = "CLOSE"},
                    NEW m \in Modes, m # <<FALSE, FALSE>> \/ shfe
             PROVE  Accepts(s, Convert(holding, req, shfe, m[1], m[2]))
  BY DEF ClosesCovered
<1> DEFINE reqs == Convert(holding, req, shfe, m[1], m[2])
           at == Available(holding[s])
<1>1. /\ req \in RequestType /\ req.volume \in Nat /\ req.offset # "OPEN" /\ Opposite(req.direction) = s
      /\ s \in Sides /\ shfe \in BOOLEAN /\ holding \in [Sides -> Volumes] /\ venue \in Seq(VenueOrder)
      /\ account[s] \in Balance
  BY RequestsTypes DEF OmsTypes
<1>2. m[1] \/ m[2] \/ shfe
  <2>1. m = <<TRUE, FALSE>> \/ m = <<FALSE, TRUE>> \/ m = <<FALSE, FALSE>>
    BY DEF Modes
  <2>2. <<TRUE, FALSE>>[1] = TRUE /\ <<FALSE, TRUE>>[2] = TRUE
    OBVIOUS
  <2>3. m = <<TRUE, FALSE>> => m[1] = TRUE
    BY <2>2
  <2>4. m = <<FALSE, TRUE>> => m[2] = TRUE
    BY <2>2
  <2>5. m = <<FALSE, FALSE>> => shfe
    OBVIOUS
  <2> QED
    BY <2>1, <2>3, <2>4, <2>5, Zenon
<1>3. Settled(s)
  BY DEF Settled
<1>4. /\ at.td \in Int /\ at.yd \in Int /\ at.td >= 0 /\ at.yd >= 0 /\ at.pos = at.td + at.yd
      /\ shfe => /\ at.td \in Lots
                 /\ at.td = account[s].td - Owed(venue, s, {"CLOSETODAY"})
                 /\ at.yd = account[s].yd - Owed(venue, s, {"CLOSE", "CLOSEYESTERDAY"})
      /\ ~shfe => /\ at.pos = account[s].td + account[s].yd - Owed(venue, s, {"CLOSE"})
                  /\ 0 <= account[s].td /\ 0 <= account[s].yd
  BY <1>3, AtHandIs
<1>5. at = Available(holding[Opposite(req.direction)])
  BY <1>1
<1> HIDE DEF at
<1>6. Covers(reqs, shfe, at)
  BY <1>1, <1>2, <1>4, <1>5, ConvertCovers
<1>7. reqs \in Seq(RequestType)
  BY <1>1, ConvertTypes
<1> HIDE DEF reqs
<1>8. \A O : Volume(reqs, O) \in Int
  BY <1>7, VolumeParts
<1>9. \A O : Owed(venue, s, O) \in Nat
  <2>1. \A k \in 1 .. Len(venue) : Sound(venue[k], shfe)
    BY DEF OrdersCovered, OrdersSound
  <2> QED
    BY <1>1, <2>1, OwedBounds
<1>10. ~shfe => Owed(venue, s, {"CLOSETODAY"}) = 0 /\ Owed(venue, s, {"CLOSEYESTERDAY"}) = 0
  <2> SUFFICES ASSUME ~shfe PROVE Owed(venue, s, {"CLOSETODAY"}) = 0 /\ Owed(venue, s, {"CLOSEYESTERDAY"}) = 0
    OBVIOUS
  <2>1. \A k \in 1 .. Len(venue) : Sound(venue[k], shfe)
    BY DEF OrdersCovered, OrdersSound
  <2>2. {"CLOSETODAY"} \cap Uses(shfe) = {} /\ {"CLOSEYESTERDAY"} \cap Uses(shfe) = {}
    BY DEF Uses
  <2> QED
    BY <1>1, <2>1, <2>2, OwedNone
<1>11. Room(venue, account[s], shfe, s, reqs)
  <2> DEFINE a == account[s]
  <2>1. a \in Balance /\ \A O : Owed(venue, s, O) \in Int
    BY <1>1, <1>9
  <2>2. IF shfe THEN /\ at.td = a.td - Owed(venue, s, {"CLOSETODAY"})
                     /\ at.yd = a.yd - Owed(venue, s, {"CLOSE", "CLOSEYESTERDAY"})
        ELSE /\ Owed(venue, s, {"CLOSETODAY"}) = 0 /\ Owed(venue, s, {"CLOSEYESTERDAY"}) = 0
             /\ at.pos = a.td + a.yd - Owed(venue, s, {"CLOSE"})
             /\ 0 <= a.td /\ 0 <= a.yd
    BY <1>4, <1>10
  <2> HIDE DEF a
  <2>3. Room(venue, a, shfe, s, reqs)
    BY <1>1, <1>6, <1>8, <2>1, <2>2, RoomLeft
  <2> QED
    BY <2>3 DEF a
<1>12. Accepts(s, reqs)
  BY <1>1, <1>8, <1>11, AcceptsIs
<1> QED
  BY <1>12 DEF reqs

\* What a request is converted to adds up, whatever the converter was told; and when
\* the frozen volumes are current, the converter was told of each trade of the side
\* once, nothing about the side is under way and no request waits at the venue, a
\* request to close is converted to requests that the venue can fill beside the
\* orders it has, for any volumes, number of orders, partial fills and pushes and at
\* an exchange of either kind.
THEOREM ConversionIsSound == Spec => []ConversionSound
<1> DEFINE IInv == OmsTypes /\ Tracked /\ OrdersCovered /\ Summing
<1>1. Init => IInv
  BY OmsTypesInit, TrackedInit, OrdersCoveredInit, SummingInit
<1>2. IInv /\ [Next]_vars => IInv'
  BY OmsTypesStep, TrackedStep, OrdersCoveredStep, SummingStep
<1>3. IInv => ClosesCovered
  BY CoveredHolds
<1>4. ClosesCovered /\ ConversionAddsUp => ConversionSound
  BY DEF ConversionSound
<1> HIDE DEF IInv
<1> QED
  BY <1>1, <1>2, <1>3, <1>4, ConversionAdds, PTL DEF Spec
================================================================================
