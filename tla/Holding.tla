-------------------------------- MODULE Holding --------------------------------
(***************************************************************************)
(* PositionHolding of core/engine/converter.cpp: what it knows of one        *)
(* contract's two positions, how events change it, and how a request to      *)
(* close is split into requests of today's and yesterday's volume.  Volumes  *)
(* are floats that some places cut to int: they are counted here in parts    *)
(* of a lot, Whole of them.  Pure operators; module Oms drives them.         *)
(***************************************************************************)
EXTENDS Integers, Sequences, FiniteSets, SequencesExt

CONSTANT Whole      \* parts of volume in a lot

ASSUME HoldingAssumption == Whole \in Nat \ {0}

Sides == {"LONG", "SHORT"}
Offsets == {"NONE", "OPEN", "CLOSE", "CLOSETODAY", "CLOSEYESTERDAY"}

\* The side that an order of this direction closes.
Opposite(direction) == IF direction = "LONG" THEN "SHORT" ELSE "LONG"
Target(direction, offset) == IF offset = "OPEN" THEN direction ELSE Opposite(direction)

\* The float members, for a side.
Volumes == [pos : Int, yd : Int, td : Int, pos_frozen : Int, yd_frozen : Int, td_frozen : Int]

Empty == [s \in Sides |->
            [pos |-> 0, yd |-> 0, td |-> 0, pos_frozen |-> 0, yd_frozen |-> 0, td_frozen |-> 0]]

Less(a, b) == IF a < b THEN a ELSE b

\* A float that is assigned to an int.
Cut(v) == IF v >= 0 THEN v - (v % Whole) ELSE -((-v) - ((-v) % Whole))
-------------------------------------------------------------------------------
(* Events.                                                                   *)

\* update_position: the frozen volumes stay as they are.
UpdatePosition(h, p) ==
  [h EXCEPT ![p.side].pos = p.td + p.yd, ![p.side].yd = p.yd, ![p.side].td = p.td]

\* sum_pos_frozen: nothing is frozen that is not there.
SumPosFrozen(h) ==
  [s \in Sides |->
     LET td == Less(h[s].td_frozen, h[s].td)
         yd == Less(h[s].yd_frozen, h[s].yd)
     IN [h[s] EXCEPT !.td_frozen = td, !.yd_frozen = yd, !.pos_frozen = td + yd]]

\* Mutant of Spent: what closes more than today's volume is not taken from yesterday's.
SpentToday(v, offset, shfe, volume) ==
  IF offset = "CLOSEYESTERDAY" \/ (offset = "CLOSE" /\ shfe) THEN [v EXCEPT !.yd = @ - volume]
  ELSE [v EXCEPT !.td = @ - volume]

\* A trade that closes takes its volume from the part that its offset names;
\* CLOSE means yesterday's at SHFE and INE, elsewhere today's and then yesterday's.
Spent(v, offset, shfe, volume) ==
  IF offset = "CLOSETODAY" \/ (offset = "CLOSE" /\ ~shfe /\ v.td >= volume) THEN [v EXCEPT !.td = @ - volume]
  ELSE IF offset = "CLOSEYESTERDAY" \/ (offset = "CLOSE" /\ shfe) THEN [v EXCEPT !.yd = @ - volume]
  ELSE IF offset = "CLOSE" THEN [v EXCEPT !.td = 0, !.yd = @ + v.td - volume]
  ELSE v

Traded(v, offset, shfe, volume) ==
  IF offset = "OPEN" THEN [v EXCEPT !.td = @ + volume] ELSE Spent(v, offset, shfe, volume)

\* update_trade: what active orders freeze is not counted again, only capped.
UpdateTrade(h, t, shfe) ==
  LET side == Target(t.direction, t.offset)
      moved == [h EXCEPT ![side] = Traded(@, t.offset, shfe, t.volume)]
  IN SumPosFrozen([s \in Sides |-> [moved[s] EXCEPT !.pos = moved[s].td + moved[s].yd]])

\* One active order of calculate_frozen's loop, which has frozen f so far; a CLOSE
\* freezes today's volume first, whatever the exchange.
Freeze(h, f, o) ==
  LET s == Opposite(o.direction)
      left == o.volume - o.traded
      td == f[s].td + left
  IN IF o.offset = "CLOSETODAY" \/ (o.offset = "CLOSE" /\ td <= h[s].td) THEN [f EXCEPT ![s].td = td]
     ELSE IF o.offset = "CLOSEYESTERDAY" THEN [f EXCEPT ![s].yd = @ + left]
     ELSE IF o.offset = "CLOSE" THEN [f EXCEPT ![s] = [td |-> h[s].td, yd |-> @.yd + td - h[s].td]]
     ELSE f

Thawed == [s \in Sides |-> [td |-> 0, yd |-> 0]]
Frozen(h, q) ==
  LET frozen[n \in 0 .. Len(q)] == IF n = 0 THEN Thawed ELSE Freeze(h, frozen[n - 1], q[n])
  IN frozen[Len(q)]

\* calculate_frozen over the active orders, in the order of an unordered map:
\* the outcomes of all of them, since the caps make the order matter.
CalculateFrozen(h, orders) ==
  {LET f == Frozen(h, q)
   IN SumPosFrozen([s \in Sides |-> [h[s] EXCEPT !.td_frozen = f[s].td, !.yd_frozen = f[s].yd]])
     : q \in SetToSeqs(orders)}
-------------------------------------------------------------------------------
(* Requests.  A request to trade is converted into a sequence of requests     *)
(* that differ from it in offset and volume.                                  *)

Part(req, offset, volume) == [req EXCEPT !.offset = offset, !.volume = volume]

\* The sum of a sequence of numbers, and the volume of the requests with such offsets.
Total(w) ==
  LET total[n \in 0 .. Len(w)] == IF n = 0 THEN 0 ELSE total[n - 1] + w[n]
  IN total[Len(w)]
Volume(reqs, offsets) == Total([k \in DOMAIN reqs |-> IF reqs[k].offset \in offsets THEN reqs[k].volume ELSE 0])
Asked(reqs) == Volume(reqs, Offsets)

Available(v) == [pos |-> v.pos - v.pos_frozen, td |-> v.td - v.td_frozen, yd |-> v.yd - v.yd_frozen]

\* convert_order_request_shfe: the volumes at hand are cut to int.
ConvertShfe(h, req) ==
  LET at == Available(h[Opposite(req.direction)])
      td == Cut(at.td)
  IN IF req.offset = "OPEN" THEN <<req>>
     ELSE IF req.volume > Cut(at.pos) THEN <<>>
     ELSE IF req.volume <= td THEN <<Part(req, "CLOSETODAY", req.volume)>>
     ELSE (IF td > 0 THEN <<Part(req, "CLOSETODAY", td)>> ELSE <<>>)
          \o <<Part(req, "CLOSEYESTERDAY", req.volume - td)>>

\* convert_order_request_lock: yesterday's volume is closed and the rest is
\* opened on the other side, all of it if there is a volume of today's.
ConvertLock(h, req, shfe) ==
  LET v == h[Opposite(req.direction)]
      yd == Available(v).yd
      open == Cut(IF req.volume > yd THEN req.volume - yd ELSE 0)
  IN IF v.td # 0 /\ ~shfe THEN <<Part(req, "OPEN", req.volume)>>
     ELSE (IF yd > 0 THEN <<Part(req, IF shfe THEN "CLOSEYESTERDAY" ELSE "CLOSE", Cut(Less(req.volume, yd)))>>
           ELSE <<>>)
          \o (IF open > 0 THEN <<Part(req, "OPEN", open)>> ELSE <<>>)

\* Mutant of ConvertNet: what is frozen is closed once more.
ConvertNetAll(h, req, shfe) ==
  LET v == h[Opposite(req.direction)]
      pos == IF v.pos > 0 THEN Cut(Less(v.pos, req.volume)) ELSE 0
  IN (IF pos > 0 THEN <<Part(req, "CLOSE", pos)>> ELSE <<>>)
     \o (IF req.volume > pos THEN <<Part(req, "OPEN", req.volume - pos)>> ELSE <<>>)

\* convert_order_request_net: the volume at hand is closed, the rest opened.
ConvertNet(h, req, shfe) ==
  LET at == Available(h[Opposite(req.direction)])
      td == IF shfe /\ at.td > 0 THEN Cut(Less(at.td, req.volume)) ELSE 0
      yd == IF shfe /\ at.yd > 0 /\ req.volume > td THEN Cut(Less(at.yd, req.volume - td)) ELSE 0
      pos == IF ~shfe /\ at.pos > 0 THEN Cut(Less(at.pos, req.volume)) ELSE 0
      left == req.volume - td - yd - pos
  IN (IF shfe /\ at.td > 0 THEN <<Part(req, "CLOSETODAY", td)>> ELSE <<>>)
     \o (IF shfe /\ at.yd > 0 /\ req.volume > td THEN <<Part(req, "CLOSEYESTERDAY", yd)>> ELSE <<>>)
     \o (IF ~shfe /\ at.pos > 0 THEN <<Part(req, "CLOSE", pos)>> ELSE <<>>)
     \o (IF left > 0 THEN <<Part(req, "OPEN", left)>> ELSE <<>>)

\* OffsetConverter::convert_order_request, for a contract with two positions.
Convert(h, req, shfe, lock, net) ==
  IF lock THEN ConvertLock(h, req, shfe)
  ELSE IF net THEN ConvertNet(h, req, shfe)
  ELSE IF shfe THEN ConvertShfe(h, req)
  ELSE <<req>>
===============================================================================
