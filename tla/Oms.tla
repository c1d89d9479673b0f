---------------------------------- MODULE Oms ----------------------------------
(***************************************************************************)
(* OffsetConverter of core/engine/converter.cpp at work: the events of the  *)
(* OMS (core/engine/engine.cpp) change its PositionHolding, and requests    *)
(* are converted by it, sent, and frozen.  One contract that counts long    *)
(* and short positions apart.  The OMS itself never creates a converter     *)
(* (see process_contract_event), so this is the converter of an app that    *)
(* keeps one beside the OMS, in the order of calls of send_server_order.    *)
(* The venue is external; its two channels, of orders and trades and of     *)
(* positions, reach the bus in any order, and it may report a trade again,  *)
(* as the comment in CtaEngine::process_trade_event says that it does.      *)
(***************************************************************************)
EXTENDS Holding

CONSTANTS
  Directions,       \* the directions of the requests
  Requested,        \* the volumes of the requests
  Pieces,           \* the volumes of partial fills
  Held,             \* the positions at the start: td and yd of each side
  MaxOrders,        \* bound: orders sent
  MaxPushes,        \* bound: positions pushed, and trades reported again
  MaxQueue          \* bound: events of a channel in flight

ASSUME OmsAssumption ==
  /\ Directions \subseteq Sides
  /\ Requested \subseteq Nat \ {0} /\ Pieces \subseteq Nat \ {0}
  /\ Held \subseteq [Sides -> [td : Nat, yd : Nat]]
  /\ {MaxOrders, MaxPushes, MaxQueue} \subseteq Nat

Active == {"SUBMITTING", "NOTTRADED", "PARTTRADED"}

\* lock and net of send_order, the second one for what is not locked.
Modes == {<<TRUE, FALSE>>, <<FALSE, TRUE>>, <<FALSE, FALSE>>}

VARIABLES
  shfe,             \* the exchange is SHFE or INE
  contracts,        \* the OMS knows the contract
  orders,           \* orders of the OMS, by number
  trades,           \* trades of the OMS: their ids
  positions,        \* positions of the OMS: the last push of each side
  holding,          \* the contract's PositionHolding
  active_orders,    \* active_orders of the holding
  reports,          \* order and trade events in flight
  pushes,           \* position events in flight
  venue,            \* the venue's orders, in the order they were sent
  account,          \* the venue's positions
  statement,        \* the venue's trades of each side, with the position after each
  told,             \* their numbers, in the order in which the holding was told of them
  pushed            \* bound: positions pushed, and trades reported again

\* SHFE and INE trade whole lots.
Tradable(volume) == shfe => volume % Whole = 0
Requests == [direction : Directions, offset : {"OPEN", "CLOSE"}, volume : {v \in Requested : Tradable(v)}]

omsVars == <<contracts, orders, trades, positions>>
venueVars == <<venue, account, statement>>
vars == <<shfe, omsVars, holding, active_orders, reports, pushes, venueVars, told, pushed>>

\* A trade of a side, and the position after it; that of the start is opened by the
\* first of them.
Entry(offset, volume, a) == [offset |-> offset, volume |-> volume, td |-> a.td, yd |-> a.yd]

\* A position event of a side, after n of its trades.
Position(s, a, n) == [side |-> s, td |-> a[s].td, yd |-> a[s].yd, n |-> n]

Init ==
  /\ shfe \in BOOLEAN
  /\ contracts = FALSE
  /\ orders = <<>> /\ trades = {}
  /\ positions = [s \in {} |-> 0]
  /\ holding = Empty
  /\ active_orders = {}
  /\ reports = <<>>
  /\ account \in {h \in Held : \A s \in Sides : Tradable(h[s].td) /\ Tradable(h[s].yd)}
  /\ pushes = <<Position("LONG", account, 1), Position("SHORT", account, 1)>>
  /\ venue = <<>>
  /\ statement = [s \in Sides |-> <<Entry("OPEN", account[s].td + account[s].yd, account[s])>>]
  /\ told = [s \in Sides |-> <<>>]
  /\ pushed = 0
-------------------------------------------------------------------------------
(* The handlers of the OMS, each followed by the app's call of the converter,  *)
(* which returns at once while the contract is not known.  Only positions come  *)
(* as early as that: orders are sent, and traded, when it is known.             *)

\* process_contract_event.  It creates a converter for an exchange that has one
\* already, and so never does.
ProcessContractEvent ==
  /\ ~contracts
  /\ contracts' = TRUE
  /\ UNCHANGED <<shfe, orders, trades, positions, holding, active_orders, reports, pushes, venueVars, told, pushed>>

OrderOf(e) == [id |-> e.id, direction |-> e.direction, offset |-> e.offset, volume |-> e.volume, traded |-> e.traded]

\* update_order of the holding.
Updated(os, e) == {o \in os : o.id # e.id} \cup (IF e.status \in Active THEN {OrderOf(e)} ELSE {})

\* process_order_event and update_order.
ProcessOrderEvent ==
  /\ reports # <<>> /\ Head(reports).t = "order"
  /\ reports' = Tail(reports)
  /\ LET e == Head(reports) IN
       /\ orders' = IF e.id > Len(orders) THEN Append(orders, e.status) ELSE [orders EXCEPT ![e.id] = e.status]
       /\ active_orders' = Updated(active_orders, e)
       /\ holding' \in CalculateFrozen(holding, active_orders')
  /\ UNCHANGED <<shfe, contracts, trades, positions, pushes, venueVars, told, pushed>>

Side(e) == Target(e.direction, e.offset)
TradeId(e) == <<Side(e), e.n>>

\* process_trade_event and update_trade: a trade that is in trades is not left out.
ProcessTradeEvent ==
  /\ reports # <<>> /\ Head(reports).t = "trade"
  /\ reports' = Tail(reports)
  /\ LET e == Head(reports) IN
       /\ trades' = trades \cup {TradeId(e)}
       /\ holding' = UpdateTrade(holding, e, shfe)
       /\ told' = [told EXCEPT ![Side(e)] = Append(@, e.n)]
  /\ UNCHANGED <<shfe, contracts, orders, positions, active_orders, pushes, venueVars, pushed>>

\* process_position_event and update_position: the position stands for the trades
\* that it counts.
ProcessPositionEvent ==
  /\ pushes # <<>>
  /\ pushes' = Tail(pushes)
  /\ LET e == Head(pushes) IN
       /\ positions' = [s \in DOMAIN positions \cup {e.side} |->
                          IF s = e.side THEN <<e.td, e.yd>> ELSE positions[s]]
       /\ holding' = IF contracts THEN UpdatePosition(holding, e) ELSE holding
       /\ told' = IF contracts THEN [told EXCEPT ![e.side] = [k \in 1 .. e.n |-> k]] ELSE told
  /\ UNCHANGED <<shfe, contracts, orders, trades, active_orders, reports, venueVars, pushed>>
-------------------------------------------------------------------------------
Order(id, req) ==
  [id |-> id, direction |-> req.direction, offset |-> req.offset, volume |-> req.volume, traded |-> 0]
Submitted(o) ==
  [id |-> o.id, direction |-> o.direction, offset |-> o.offset, volume |-> o.volume, traded |-> o.traded,
   status |-> "SUBMITTING"]
OrderEvent(o, status) ==
  [t |-> "order", id |-> o.id, direction |-> o.direction, offset |-> o.offset, volume |-> o.volume,
   traded |-> o.traded, status |-> status]
TradeEvent(direction, offset, volume, n) ==
  [t |-> "trade", direction |-> direction, offset |-> offset, volume |-> volume, n |-> n]

\* send_server_order: what the converter makes of the request is sent, and frozen
\* at once by update_order_request; the adapter reports each order as SUBMITTING.
SendOrder(req, mode) ==
  LET reqs == Convert(holding, req, shfe, mode[1], mode[2])
      new == [k \in DOMAIN reqs |-> Order(Len(venue) + k, reqs[k])]
  IN /\ contracts
     /\ reqs # <<>> /\ Len(venue) + Len(reqs) <= MaxOrders
     /\ Len(reports) < MaxQueue
     /\ venue' = venue \o [k \in DOMAIN new |-> Submitted(new[k])]
     /\ reports' = reports \o [k \in DOMAIN new |-> OrderEvent(new[k], "SUBMITTING")]
     /\ active_orders' = active_orders \cup Range(new)
     /\ holding' \in CalculateFrozen(holding, active_orders')
     /\ UNCHANGED <<shfe, omsVars, pushes, account, statement, told, pushed>>
-------------------------------------------------------------------------------
(* The venue (external): it takes a CLOSE from the volumes in the order that  *)
(* the converter assumes.                                                     *)

Left(id) == venue[id].volume - venue[id].traded

\* What the active orders of a side will close: of today's, of yesterday's, of either.
Committed(s, offsets) ==
  LET Counts(o) == o.status \in {"NOTTRADED", "PARTTRADED"} /\ o.offset \in offsets /\ Opposite(o.direction) = s
  IN Total([k \in DOMAIN venue |-> IF Counts(venue[k]) THEN Left(k) ELSE 0])

ByPart == IF shfe THEN [CLOSETODAY |-> {"CLOSETODAY"}, CLOSEYESTERDAY |-> {"CLOSE", "CLOSEYESTERDAY"}]
          ELSE [CLOSETODAY |-> {"CLOSETODAY"}, CLOSEYESTERDAY |-> {"CLOSEYESTERDAY"}]

\* The venue can close these volumes of the side beyond what is committed.
Closable(s, td, yd, any) ==
  LET a == account[s]
      t == a.td - Committed(s, ByPart.CLOSETODAY)
      y == a.yd - Committed(s, ByPart.CLOSEYESTERDAY)
      c == IF shfe THEN 0 ELSE Committed(s, {"CLOSE"})
  IN td <= t /\ yd <= y /\ td + yd + any <= t + y - c

Accepts(s, reqs) ==
  Closable(s, Volume(reqs, ByPart.CLOSETODAY), Volume(reqs, ByPart.CLOSEYESTERDAY),
           IF shfe THEN 0 ELSE Volume(reqs, {"CLOSE"}))

Reported(id, status, more) ==
  /\ Len(reports) < MaxQueue
  /\ reports' = reports \o <<OrderEvent(venue'[id], status)>> \o more
  /\ UNCHANGED <<shfe, omsVars, holding, active_orders, pushes, told, pushed>>

VenueAnswers(id) ==
  /\ venue[id].status = "SUBMITTING"
  /\ LET ok == venue[id].volume > 0 /\ (venue[id].offset = "OPEN" \/ Accepts(Opposite(venue[id].direction), <<venue[id]>>))
         status == IF ok THEN "NOTTRADED" ELSE "REJECTED"
     IN /\ venue' = [venue EXCEPT ![id].status = status]
        /\ Reported(id, status, <<>>)
  /\ UNCHANGED <<account, statement>>

Moved(a, offset, volume) ==
  IF offset = "OPEN" THEN [a EXCEPT !.td = @ + volume]
  ELSE IF offset \in ByPart.CLOSETODAY THEN [a EXCEPT !.td = @ - volume]
  ELSE IF offset \in ByPart.CLOSEYESTERDAY THEN [a EXCEPT !.yd = @ - volume]
  ELSE [td |-> a.td - Less(volume, a.td), yd |-> a.yd - (volume - Less(volume, a.td))]

VenueFills(id) ==
  /\ venue[id].status \in {"NOTTRADED", "PARTTRADED"}
  /\ \E volume \in {v \in Pieces \cup {Left(id)} : v <= Left(id) /\ Tradable(v)} :
       LET o == venue[id]
           s == Target(o.direction, o.offset)
           status == IF volume = Left(id) THEN "ALLTRADED" ELSE "PARTTRADED"
       IN /\ venue' = [venue EXCEPT ![id].traded = @ + volume, ![id].status = status]
          /\ account' = [account EXCEPT ![s] = Moved(@, o.offset, volume)]
          /\ statement' = [statement EXCEPT ![s] = Append(@, Entry(o.offset, volume, account'[s]))]
          /\ Reported(id, status, <<TradeEvent(o.direction, o.offset, volume, Len(statement'[s]))>>)

VenueCancels(id) ==
  /\ venue[id].status \in {"NOTTRADED", "PARTTRADED"}
  /\ venue' = [venue EXCEPT ![id].status = "CANCELLED"]
  /\ Reported(id, "CANCELLED", <<>>)
  /\ UNCHANGED <<account, statement>>

VenuePushes(s) ==
  /\ pushed < MaxPushes /\ pushed' = pushed + 1
  /\ pushes' = Append(pushes, Position(s, account, Len(statement[s])))
  /\ UNCHANGED <<shfe, omsVars, holding, active_orders, reports, venueVars, told>>

\* A trade of the side is reported again, as it was the first time.
VenueRepeats(s, n) ==
  /\ pushed < MaxPushes /\ pushed' = pushed + 1
  /\ Len(reports) < MaxQueue
  /\ LET x == statement[s][n]
         direction == IF x.offset = "OPEN" THEN s ELSE Opposite(s)
     IN reports' = Append(reports, TradeEvent(direction, x.offset, x.volume, n))
  /\ UNCHANGED <<shfe, omsVars, holding, active_orders, pushes, venueVars, told>>
-------------------------------------------------------------------------------
Next ==
  \/ ProcessContractEvent \/ ProcessOrderEvent \/ ProcessTradeEvent \/ ProcessPositionEvent
  \/ \E req \in Requests, mode \in Modes : SendOrder(req, mode)
  \/ \E id \in DOMAIN venue : VenueAnswers(id) \/ VenueFills(id) \/ VenueCancels(id)
  \/ \E s \in Sides : VenuePushes(s) \/ \E n \in 2 .. Len(statement[s]) : VenueRepeats(s, n)

Spec == Init /\ [][Next]_vars
-------------------------------------------------------------------------------
(* Properties.                                                               *)

About(s) ==
  \E e \in Range(reports) : IF e.t = "trade" THEN Side(e) = s
                            ELSE e.offset # "OPEN" /\ Opposite(e.direction) = s

\* The volume that the trade adds to its side.
Worth(x) == IF x.offset = "OPEN" THEN x.volume ELSE -x.volume

\* The holding was told of each trade of the side once, in their order.
Straight(s) == told[s] = [n \in 1 .. Len(statement[s]) |-> n]

\* What is held of a side is the sum of what the holding was told of it, so it is
\* wrong by the trades that were reported again, and by those that a position
\* counted too early or left out.  When there are none of them and none on its
\* way, the volumes of today and yesterday are the venue's, whatever was closed
\* by which offset.
HoldingTracksVenue ==
  \A s \in Sides :
    /\ holding[s].td + holding[s].yd = Total([k \in DOMAIN told[s] |-> Worth(statement[s][told[s][k]])])
    /\ Straight(s) => holding[s].td = account[s].td /\ holding[s].yd = account[s].yd

\* The frozen volumes are those that calculate_frozen would find now.
FrozenCurrent == holding \in CalculateFrozen(holding, active_orders)

\* What a request to close is converted to can be closed at the venue beside the
\* orders that are active there, whatever their offsets, when nothing about the
\* side is under way and the holding was told of each trade once.
ClosesCovered ==
  \A s \in Sides :
    Straight(s) /\ FrozenCurrent /\ ~About(s) /\ (\A k \in DOMAIN venue : venue[k].status # "SUBMITTING") =>
      \A req \in {r \in Requests : Opposite(r.direction) = s /\ r.offset = "CLOSE"}, m \in Modes :
        m # <<FALSE, FALSE>> \/ shfe => Accepts(s, Convert(holding, req, shfe, m[1], m[2]))

\* A request is converted to requests of its volume, however often the holding
\* was told of trades and positions behind its back.  They ask for more only
\* while more is frozen than there is (a position overtook the orders), and for
\* less only if it is refused as a whole, or if a lock cuts parts of a lot twice.
ConversionAddsUp ==
  \A req \in Requests, m \in Modes :
    LET reqs == Convert(holding, req, shfe, m[1], m[2])
        at == Available(holding[Opposite(req.direction)])
    IN /\ Asked(reqs) > req.volume => at.td < 0 \/ at.yd < 0
       /\ Asked(reqs) < req.volume => reqs = <<>> \/ (m[1] /\ req.volume < Asked(reqs) + 2 * Whole)

\* What a request is converted to adds up, and the venue can close it.
ConversionSound == ConversionAddsUp /\ ClosesCovered
===============================================================================
