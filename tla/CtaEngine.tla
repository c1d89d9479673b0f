------------------------------ MODULE CtaEngine -------------------------------
(***************************************************************************)
(* The order path of the framework on the main loop: CtaEngine of           *)
(* app/cta_strategy/engine.cpp and OmsEngine of core/engine/engine.cpp fed  *)
(* by the event bus (module EventBus), the strategies they call back, and   *)
(* outside them an exchange adapter with its venue.  One contract, which    *)
(* does not support server stop orders.                                     *)
(*                                                                          *)
(* Everything here runs on one thread, but not atomically: an event is      *)
(* given to the two engines in an order the multimap of the emitter does    *)
(* not define, and every strategy callback may call back into the engine.   *)
(* stack holds the activations of the handler that runs, innermost first.   *)
(***************************************************************************)
EXTENDS Integers, Sequences, FiniteSets, FiniteSetsExt, SequencesExt

CONSTANTS
  Names,            \* strategy names
  Directions,       \* the directions strategies trade in
  Prices,           \* prices, integers
  None,             \* a null pointer, an absent order
  Volume,           \* lots of an order
  MaxGen,           \* bound: strategy objects created for a name
  MaxOrders,        \* bound: orders sent to the venue
  MaxStops,         \* bound: local stop orders
  MaxBus,           \* bound: events queued before the venue pauses
  MaxDups,          \* bound: trades pushed a second time
  MaxRestarts       \* bound: restarts of the process

ASSUME CtaAssumption ==
  /\ Directions \subseteq {"LONG", "SHORT"}
  /\ Prices \subseteq Int
  /\ None \notin Names
  /\ Volume \in Nat \ {0}
  /\ {MaxGen, MaxOrders, MaxStops, MaxBus, MaxDups, MaxRestarts} \subseteq Nat

\* Order ids "OKX.n" and stop ids "STOP.n": disjoint, in the order of the maps.
OrderIds == 1 .. MaxOrders
StopIds == MaxOrders + 1 .. MaxOrders + MaxStops

\* A strategy object: a name can be removed and added again.
Instances == Names \X (1 .. MaxGen)
NameOf(i) == i[1]

\* ACTIVE_STATUSES of core/engine/object.cpp, and the other states of an order.
Active == {"SUBMITTING", "NOTTRADED", "PARTTRADED"}
Status == Active \cup {"ALLTRADED", "CANCELLED", "REJECTED"}

\* None stands for what is absent: it is neither an object nor a state of an order.
ASSUME NoneAssumption == None \notin Instances \cup Status

VARIABLES
  strategies,       \* strategies: name -> object
  symbolStrategies, \* symbol_strategy_map of the contract, a list of objects
  inited, trading,  \* the objects with that flag
  pos,              \* pos of each object
  orderStrategy,    \* orderid_strategy_map
  strategyOrders,   \* strategy_orderid_map
  stopOrders,       \* stop_orders: id -> direction, price, strategy_name
  tradeids,         \* kt_tradeids
  oms,              \* orders of OmsEngine: id -> status
  activeOrders,     \* active_orders of OmsEngine
  settings,         \* names in the strategy setting file
  alive,            \* whether the process runs
  stack,            \* activations of the handler that runs, innermost first
  bus,              \* events put and not yet processed
  venue,            \* the venue's orders: status, lots traded, direction, sender
  cancelReq,        \* cancel requests sent to the venue
  unfound,          \* orders logged as "Failed to cancel the order"
  orderCount, stopCount, gens, dups, restarts,
  fired,            \* times a stop order became a server order
  withdrawn         \* stop orders cancelled

ctaVars == <<strategies, symbolStrategies, inited, trading, pos, tradeids, settings>>
orderVars == <<orderStrategy, strategyOrders>>
stopVars == <<stopOrders, stopCount, fired, withdrawn>>
omsVars == <<oms, activeOrders>>
venueVars == <<venue, cancelReq, unfound, orderCount, dups>>
procVars == <<alive, gens, restarts>>
vars == <<ctaVars, orderVars, stopVars, omsVars, venueVars, procVars, stack, bus>>

Idle == alive /\ stack = <<>>
Top(f) == alive /\ stack # <<>> /\ Head(stack).f = f
Frame == Head(stack)

Callback(i) == [f |-> "callback", s |-> i]
OrderEvent(o, st) == [t |-> "order", id |-> o, st |-> st]
TradeEvent(o, k) == [t |-> "trade", id |-> o, k |-> k]

TypeOK ==
  /\ strategies \in [Names -> Instances \cup {None}]
  /\ IsInjective(symbolStrategies) /\ Range(symbolStrategies) \subseteq Instances
  /\ inited \subseteq Instances /\ trading \subseteq inited
  /\ pos \in [Instances -> Int]
  /\ orderStrategy \in [OrderIds -> Instances \cup {None}]
  /\ strategyOrders \in [Names -> SUBSET (OrderIds \cup StopIds)]
  /\ DOMAIN stopOrders \subseteq StopIds
  /\ \A s \in DOMAIN stopOrders : stopOrders[s] \in [dir : Directions, price : Prices, name : Names]
  /\ tradeids \subseteq OrderIds \X (1 .. Volume)
  /\ oms \in [OrderIds -> Status \cup {None}]
  /\ activeOrders \subseteq OrderIds
  /\ settings \subseteq Names
  /\ \A e \in Range(bus) : e.id \in 1 .. orderCount
  /\ \A o \in OrderIds : venue[o].traded \in 0 .. Volume
  /\ cancelReq \cup unfound \subseteq 1 .. orderCount
  /\ withdrawn \subseteq StopIds

Init ==
  /\ strategies = [n \in Names |-> None]
  /\ symbolStrategies = <<>>
  /\ inited = {} /\ trading = {}
  /\ pos = [i \in Instances |-> 0]
  /\ orderStrategy = [o \in OrderIds |-> None]
  /\ strategyOrders = [n \in Names |-> {}]
  /\ stopOrders = <<>>
  /\ tradeids = {}
  /\ oms = [o \in OrderIds |-> None]
  /\ activeOrders = {}
  /\ settings = {}
  /\ alive = TRUE
  /\ stack = <<>> /\ bus = <<>>
  /\ venue = [o \in OrderIds |-> [st |-> None, traded |-> 0, dir |-> None, by |-> None]]
  /\ cancelReq = {} /\ unfound = {}
  /\ orderCount = 0 /\ stopCount = 0 /\ dups = 0 /\ restarts = 0
  /\ gens = [n \in Names |-> 0]
  /\ fired = [s \in StopIds |-> 0]
  /\ withdrawn = {}
-------------------------------------------------------------------------------
(* The life of a strategy, driven by tasks of the main loop.  Callbacks that *)
(* run while the strategy is not trading (on_init, on_start) have no effect  *)
(* on the engine: the template refuses every call.                           *)

\* The setting file is written with every change: what was added, what was removed.
UpdateStrategySetting(n) == settings' = settings \cup {n}
RemoveStrategySetting(n) == settings' = settings \ {n}

AddStrategy(n) ==
  /\ Idle
  /\ strategies[n] = None
  /\ gens[n] < MaxGen
  /\ LET i == <<n, gens[n] + 1>> IN
       /\ strategies' = [strategies EXCEPT ![n] = i]
       /\ symbolStrategies' = Append(symbolStrategies, i)
  /\ gens' = [gens EXCEPT ![n] = @ + 1]
  /\ UpdateStrategySetting(n)
  /\ UNCHANGED <<inited, trading, pos, tradeids, orderVars, stopVars, omsVars, venueVars,
                 alive, restarts, stack, bus>>

InitStrategy(n) ==
  /\ Idle
  /\ strategies[n] \notin inited \cup {None}
  /\ inited' = inited \cup {strategies[n]}
  /\ UNCHANGED <<strategies, symbolStrategies, trading, pos, tradeids, settings, orderVars,
                 stopVars, omsVars, venueVars, procVars, stack, bus>>

StartStrategy(n) ==
  /\ Idle
  /\ strategies[n] \in inited \ trading
  /\ trading' = trading \cup {strategies[n]}
  /\ UNCHANGED <<strategies, symbolStrategies, inited, pos, tradeids, settings, orderVars,
                 stopVars, omsVars, venueVars, procVars, stack, bus>>

\* stop_strategy: on_stop first, the strategy still trading ...
StopStrategy(n) ==
  /\ Idle
  /\ strategies[n] \in trading
  /\ stack' = <<Callback(strategies[n]), [f |-> "stopped", s |-> strategies[n]]>>
  /\ UNCHANGED <<ctaVars, orderVars, stopVars, omsVars, venueVars, procVars, bus>>

\* Mutant of Stopped: the orders of the strategy are not cancelled.
StoppedKeepsOrders ==
  /\ Top("stopped")
  /\ trading' = trading \ {Frame.s}
  /\ stack' = Tail(stack)
  /\ UNCHANGED <<strategies, symbolStrategies, inited, pos, tradeids, settings, orderVars,
                 stopVars, omsVars, venueVars, procVars, bus>>

\* ... then trading is cleared and a copy of its active ids is cancelled.
Stopped ==
  /\ Top("stopped")
  /\ trading' = trading \ {Frame.s}
  /\ stack' = <<[f |-> "cancelAll", todo |-> strategyOrders[NameOf(Frame.s)]]>> \o Tail(stack)
  /\ UNCHANGED <<strategies, symbolStrategies, inited, pos, tradeids, settings, orderVars,
                 stopVars, omsVars, venueVars, procVars, bus>>

\* remove_strategy forgets the active ids only; a finished order keeps mapping
\* to the object, which is not deleted.  The list holds an object once (TypeOK), so
\* list::remove takes its first occurrence.
RemoveStrategy(n) ==
  /\ Idle
  /\ strategies[n] \notin trading \cup {None}
  /\ RemoveStrategySetting(n)
  /\ symbolStrategies' = RemoveFirst(symbolStrategies, strategies[n])
  /\ orderStrategy' = [o \in OrderIds |-> IF o \in strategyOrders[n] THEN None ELSE orderStrategy[o]]
  /\ strategyOrders' = [strategyOrders EXCEPT ![n] = {}]
  /\ strategies' = [strategies EXCEPT ![n] = None]
  /\ UNCHANGED <<inited, trading, pos, tradeids, stopVars, omsVars, venueVars, procVars, stack, bus>>
-------------------------------------------------------------------------------
(* Sending and cancelling.                                                   *)

\* Events that reach the process; a dead process receives nothing.
Push(es) == bus' = IF alive THEN bus \o es ELSE bus

\* Mutant of SendServerOrder: only the ids of the strategy are recorded.
SendUnmapped(i, d, gone) ==
  LET o == orderCount + 1 IN
  /\ orderCount < MaxOrders
  /\ orderCount' = o
  /\ venue' = [venue EXCEPT ![o] = [st |-> "SUBMITTING", traded |-> 0, dir |-> d, by |-> i]]
  /\ bus' = Append(bus, OrderEvent(o, "SUBMITTING"))
  /\ strategyOrders' = [strategyOrders EXCEPT ![NameOf(i)] = (@ \cup {o}) \ gone]
  /\ UNCHANGED <<orderStrategy, cancelReq, unfound, dups>>

\* send_server_order, when the adapter takes the order: it puts the SUBMITTING
\* event and returns the id; the owner is recorded after that.  The request is
\* sent as it is: no offset converter exists to split it.  gone are the ids the
\* caller drops from the strategy's set.
SendServerOrder(i, d, gone) ==
  LET o == orderCount + 1 IN
  /\ orderCount < MaxOrders
  /\ orderCount' = o
  /\ venue' = [venue EXCEPT ![o] = [st |-> "SUBMITTING", traded |-> 0, dir |-> d, by |-> i]]
  /\ bus' = Append(bus, OrderEvent(o, "SUBMITTING"))
  /\ orderStrategy' = [orderStrategy EXCEPT ![o] = i]
  /\ strategyOrders' = [strategyOrders EXCEPT ![NameOf(i)] = (@ \cup {o}) \ gone]
  /\ UNCHANGED <<cancelReq, unfound, dups>>

\* cancel_server_order: an order the OMS has not seen is only logged.
CancelServerOrder(o) ==
  IF oms[o] = None
  THEN unfound' = unfound \cup {o} /\ UNCHANGED cancelReq
  ELSE cancelReq' = cancelReq \cup {o} /\ UNCHANGED unfound

\* cancel_local_stop_order: the object is found by the name in the stop order.
\* The code reads the erased entry afterwards, for what it reports only.
CancelLocalStopOrder(s, below) ==
  LET name == stopOrders[s].name IN
  /\ stopOrders' = [t \in DOMAIN stopOrders \ {s} |-> stopOrders[t]]
  /\ strategyOrders' = [strategyOrders EXCEPT ![name] = @ \ {s}]
  /\ withdrawn' = withdrawn \cup {s}
  /\ stack' = <<Callback(strategies[name])>> \o below
-------------------------------------------------------------------------------
(* What a strategy does inside a callback.  The template lets the calls       *)
(* through only while the strategy trades; each of these may be repeated.    *)

\* Mutant of MayCall: the template forgets to test trading.
MayCallAnytime(i) == Top("callback") /\ Frame.s = i

MayCall(i) == Top("callback") /\ Frame.s = i /\ i \in trading

\* buy, sell, short, cover: a limit order.
SendLimitOrder(i, d) ==
  /\ MayCall(i)
  /\ SendServerOrder(i, d, {})
  /\ UNCHANGED <<ctaVars, stopVars, omsVars, procVars, stack>>

\* The same with stop: a local stop order, reported by on_stop_order at once.
SendLocalStopOrder(i, d, p) ==
  LET s == MaxOrders + stopCount + 1 IN
  /\ MayCall(i)
  /\ stopCount < MaxStops
  /\ stopCount' = stopCount + 1
  /\ stopOrders' = [t \in DOMAIN stopOrders \cup {s} |->
                     IF t = s THEN [dir |-> d, price |-> p, name |-> NameOf(i)] ELSE stopOrders[t]]
  /\ strategyOrders' = [strategyOrders EXCEPT ![NameOf(i)] = @ \cup {s}]
  /\ stack' = <<Callback(i)>> \o stack
  /\ UNCHANGED <<ctaVars, orderStrategy, fired, withdrawn, omsVars, venueVars, procVars, bus>>

\* cancel_order of an id that this strategy was given.
CancelServer(i, o) ==
  /\ MayCall(i)
  /\ orderStrategy[o] = i
  /\ CancelServerOrder(o)
  /\ UNCHANGED <<ctaVars, orderVars, stopVars, omsVars, venue, orderCount, dups, procVars, stack, bus>>

CancelStop(i, s) ==
  /\ MayCall(i)
  /\ s \in DOMAIN stopOrders
  /\ stopOrders[s].name = NameOf(i)
  /\ CancelLocalStopOrder(s, stack)
  /\ UNCHANGED <<ctaVars, orderStrategy, stopCount, fired, omsVars, venueVars, procVars, bus>>

CancelAll(i) ==
  /\ MayCall(i)
  /\ strategyOrders[NameOf(i)] # {}
  /\ stack' = <<[f |-> "cancelAll", todo |-> strategyOrders[NameOf(i)]]>> \o stack
  /\ UNCHANGED <<ctaVars, orderVars, stopVars, omsVars, venueVars, procVars, bus>>

Return ==
  /\ Top("callback")
  /\ stack' = Tail(stack)
  /\ UNCHANGED <<ctaVars, orderVars, stopVars, omsVars, venueVars, procVars, bus>>

\* cancel_all walks its copy of the ids in order; on_stop_order runs in between.
CancelNext ==
  /\ Top("cancelAll")
  /\ LET todo == Frame.todo
         below == <<[Frame EXCEPT !.todo = @ \ {Min(todo)}]>> \o Tail(stack)
     IN \/ /\ todo = {}
           /\ stack' = Tail(stack)
           /\ UNCHANGED <<cancelReq, unfound, strategyOrders, stopOrders, withdrawn>>
        \/ /\ todo # {} /\ Min(todo) \in OrderIds
           /\ CancelServerOrder(Min(todo))
           /\ stack' = below
           /\ UNCHANGED <<strategyOrders, stopOrders, withdrawn>>
        \/ /\ todo # {} /\ Min(todo) \in DOMAIN stopOrders
           /\ CancelLocalStopOrder(Min(todo), below)
           /\ UNCHANGED <<cancelReq, unfound>>
        \/ /\ todo # {} /\ Min(todo) \in StopIds \ DOMAIN stopOrders
           /\ stack' = below
           /\ UNCHANGED <<cancelReq, unfound, strategyOrders, stopOrders, withdrawn>>
  /\ UNCHANGED <<ctaVars, orderStrategy, stopCount, fired, omsVars, venue, orderCount, dups, procVars, bus>>
-------------------------------------------------------------------------------
(* Ticks: check_stop_order walks the live map, then on_tick of each strategy *)
(* of the copied list that is initialised.                                   *)

\* A tick is put with any price at any time, so it need not wait in the bus.
ProcessTick(p) ==
  /\ Idle
  /\ symbolStrategies # <<>>
  /\ stack' = <<[f |-> "walk", price |-> p, last |-> 0, dangling |-> FALSE],
                [f |-> "ticks", todo |-> symbolStrategies]>>
  /\ UNCHANGED <<ctaVars, orderVars, stopVars, omsVars, venueVars, procVars, bus>>

OnTick ==
  /\ Top("ticks")
  /\ LET todo == Frame.todo IN
       stack' = IF todo = <<>> THEN Tail(stack)
                ELSE (IF Head(todo) \in inited THEN <<Callback(Head(todo))>> ELSE <<>>)
                     \o <<[Frame EXCEPT !.todo = Tail(@)]>> \o Tail(stack)
  /\ UNCHANGED <<ctaVars, orderVars, stopVars, omsVars, venueVars, procVars, bus>>

Walking == Top("walk") /\ ~Frame.dangling
Ahead == {s \in DOMAIN stopOrders : s > Frame.last}
Following == {s \in Ahead : \A t \in Ahead : s <= t}
Triggered(s) ==
  \/ stopOrders[s].dir = "LONG" /\ Frame.price >= stopOrders[s].price
  \/ stopOrders[s].dir = "SHORT" /\ Frame.price <= stopOrders[s].price

WalkEnd ==
  /\ Walking
  /\ Ahead = {}
  /\ stack' = Tail(stack)
  /\ UNCHANGED <<ctaVars, orderVars, stopVars, omsVars, venueVars, procVars, bus>>

\* Not triggered, or the adapter refused the order: the stop order stays.
WalkOn ==
  /\ Walking
  /\ \E s \in Following : stack' = <<[Frame EXCEPT !.last = s]>> \o Tail(stack)
  /\ UNCHANGED <<ctaVars, orderVars, stopVars, omsVars, venueVars, procVars, bus>>

\* Mutant of Erased: the stop order stays in the map.
ErasedNothing(s) == stopOrders

Erased(s) == [t \in DOMAIN stopOrders \ {s} |-> stopOrders[t]]

\* Triggered: a limit order replaces the stop order, whose entry is erased
\* while the range-for of the walk stands on it.
WalkTrigger ==
  /\ Walking
  /\ \E s \in Following :
       LET i == strategies[stopOrders[s].name] IN
       /\ Triggered(s)
       /\ i # None
       /\ SendServerOrder(i, stopOrders[s].dir, {s})
       /\ stopOrders' = Erased(s)
       /\ fired' = [fired EXCEPT ![s] = @ + 1]
       /\ stack' = <<Callback(i)>> \o <<[Frame EXCEPT !.last = s, !.dangling = TRUE]>> \o Tail(stack)
  /\ UNCHANGED <<ctaVars, stopCount, withdrawn, omsVars, procVars>>

\* The walk goes on from an erased node of the std::map, undefined behaviour:
\* the stale links lead to any later entry or to the end (or nowhere: Crash).
WalkDangling ==
  /\ Top("walk") /\ Frame.dangling
  /\ \E s \in {Frame.last} \cup StopIds :
       /\ s >= Frame.last
       /\ stack' = <<[Frame EXCEPT !.last = s, !.dangling = FALSE]>> \o Tail(stack)
  /\ UNCHANGED <<ctaVars, orderVars, stopVars, omsVars, venueVars, procVars, bus>>
-------------------------------------------------------------------------------
(* Order and trade events: _process gives the event to OmsEngine and to      *)
(* CtaEngine, in either order.                                               *)

Deliver ==
  /\ Idle
  /\ bus # <<>>
  /\ bus' = Tail(bus)
  /\ stack' = <<[f |-> "event", e |-> Head(bus), todo |-> {"oms", "cta"}]>>
  /\ UNCHANGED <<ctaVars, orderVars, stopVars, omsVars, venueVars, procVars>>

Handling(h, t) == Top("event") /\ h \in Frame.todo /\ Frame.e.t = t
After(h) == IF Frame.todo = {h} THEN Tail(stack)
            ELSE <<[Frame EXCEPT !.todo = @ \ {h}]>> \o Tail(stack)

OmsOrderEvent ==
  /\ Handling("oms", "order")
  /\ LET e == Frame.e IN
       /\ oms' = [oms EXCEPT ![e.id] = e.st]
       /\ activeOrders' = IF e.st \in Active THEN activeOrders \cup {e.id} ELSE activeOrders \ {e.id}
  /\ stack' = After("oms")
  /\ UNCHANGED <<ctaVars, orderVars, stopVars, venueVars, procVars, bus>>

\* OmsEngine only files the trade.
OmsTradeEvent ==
  /\ Handling("oms", "trade")
  /\ stack' = After("oms")
  /\ UNCHANGED <<ctaVars, orderVars, stopVars, omsVars, venueVars, procVars, bus>>

CtaOrderEvent ==
  /\ Handling("cta", "order")
  /\ LET e == Frame.e
         i == orderStrategy[e.id]
     IN IF i = None
        THEN stack' = After("cta") /\ UNCHANGED strategyOrders
        ELSE /\ strategyOrders' = IF e.st \in Active THEN strategyOrders
                                  ELSE [strategyOrders EXCEPT ![NameOf(i)] = @ \ {e.id}]
             /\ stack' = <<Callback(i)>> \o After("cta")
  /\ UNCHANGED <<ctaVars, orderStrategy, stopVars, omsVars, venueVars, procVars, bus>>

\* Mutant of Fresh: duplicate pushes are not filtered.
FreshAlways(id) == TRUE

Fresh(id) == id \notin tradeids

\* process_trade_event: duplicates are dropped, the position moves, on_trade;
\* sync_strategy_data, called at the end, has no statement left in its body.
CtaTradeEvent ==
  /\ Handling("cta", "trade")
  /\ LET e == Frame.e
         id == <<e.id, e.k>>
         i == orderStrategy[e.id]
     IN IF Fresh(id)
        THEN /\ tradeids' = tradeids \cup {id}
             /\ pos' = IF i = None THEN pos
                       ELSE [pos EXCEPT ![i] = IF venue[e.id].dir = "LONG" THEN @ + 1 ELSE @ - 1]
             /\ stack' = (IF i = None THEN <<>> ELSE <<Callback(i)>>) \o After("cta")
        ELSE stack' = After("cta") /\ UNCHANGED <<tradeids, pos>>
  /\ UNCHANGED <<strategies, symbolStrategies, inited, trading, settings, orderVars, stopVars,
                 omsVars, venueVars, procVars, bus>>
-------------------------------------------------------------------------------
(* The venue and the connection to it (external).  A fill is reported by the *)
(* order, then by the trade; a trade may be pushed again.                    *)

VenueMoves(o, st, lots, es) ==
  /\ Len(bus) < MaxBus
  /\ venue[o].st \in Active
  /\ venue' = [venue EXCEPT ![o].st = st, ![o].traded = @ + lots]
  /\ Push(<<OrderEvent(o, st)>> \o es)
  /\ UNCHANGED <<ctaVars, orderVars, stopVars, omsVars, cancelReq, unfound, orderCount, dups, procVars, stack>>

Accept(o) == venue[o].st = "SUBMITTING" /\ VenueMoves(o, "NOTTRADED", 0, <<>>)
Reject(o) == venue[o].st = "SUBMITTING" /\ VenueMoves(o, "REJECTED", 0, <<>>)
CancelDone(o) == o \in cancelReq /\ VenueMoves(o, "CANCELLED", 0, <<>>)
Fill(o) ==
  LET k == venue[o].traded + 1 IN
  VenueMoves(o, IF k = Volume THEN "ALLTRADED" ELSE "PARTTRADED", 1, <<TradeEvent(o, k)>>)

DuplicateTrade(o, k) ==
  /\ Len(bus) < MaxBus /\ dups < MaxDups /\ alive
  /\ k <= venue[o].traded
  /\ dups' = dups + 1
  /\ Push(<<TradeEvent(o, k)>>)
  /\ UNCHANGED <<ctaVars, orderVars, stopVars, omsVars, venue, cancelReq, unfound, orderCount, procVars, stack>>
-------------------------------------------------------------------------------
(* The process dies (killed, or by the undefined behaviour above) and starts *)
(* again: the setting file is loaded; the adapter reports the open orders in *)
(* the order of the answer to its query.                                     *)

Crash ==
  /\ alive
  /\ restarts < MaxRestarts
  /\ alive' = FALSE
  /\ stack' = <<>> /\ bus' = <<>>
  /\ UNCHANGED <<ctaVars, orderVars, stopVars, omsVars, venueVars, gens, restarts>>

OpenOrders == {o \in OrderIds : venue[o].st \in Active}
Loaded(n) == <<n, gens[n] + 1>>

Restart ==
  /\ ~alive
  /\ \A n \in settings : gens[n] < MaxGen
  /\ alive' = TRUE
  /\ restarts' = restarts + 1
  /\ gens' = [n \in Names |-> IF n \in settings THEN gens[n] + 1 ELSE gens[n]]
  /\ strategies' = [n \in Names |-> IF n \in settings THEN Loaded(n) ELSE None]
  /\ symbolStrategies' = SetToSeq({Loaded(n) : n \in settings})
  /\ inited' = {} /\ trading' = {} /\ tradeids' = {}
  /\ orderStrategy' = [o \in OrderIds |-> None]
  /\ strategyOrders' = [n \in Names |-> {}]
  /\ stopOrders' = <<>>
  /\ oms' = [o \in OrderIds |-> None]
  /\ activeOrders' = {}
  /\ \E q \in [1 .. Cardinality(OpenOrders) -> OpenOrders] :
       /\ IsInjective(q)
       /\ bus' = [k \in DOMAIN q |-> OrderEvent(q[k], venue[q[k]].st)]
  /\ UNCHANGED <<pos, settings, stopCount, fired, withdrawn, venueVars, stack>>
-------------------------------------------------------------------------------
Lifecycle ==
  \E n \in Names :
    \/ AddStrategy(n)
    \/ InitStrategy(n)
    \/ StartStrategy(n)
    \/ StopStrategy(n)
    \/ RemoveStrategy(n)

StrategyCalls ==
  \E i \in Instances :
    \/ \E d \in Directions : SendLimitOrder(i, d)
    \/ \E d \in Directions, p \in Prices : SendLocalStopOrder(i, d, p)
    \/ \E o \in OrderIds : CancelServer(i, o)
    \/ \E s \in StopIds : CancelStop(i, s)
    \/ CancelAll(i)

EngineStep ==
  \/ Stopped
  \/ Return
  \/ CancelNext
  \/ OnTick
  \/ WalkEnd
  \/ WalkOn
  \/ WalkTrigger
  \/ WalkDangling
  \/ OmsOrderEvent
  \/ OmsTradeEvent
  \/ CtaOrderEvent
  \/ CtaTradeEvent

VenueStep ==
  \E o \in OrderIds :
    \/ Accept(o)
    \/ Reject(o)
    \/ CancelDone(o)
    \/ Fill(o)
    \/ \E k \in 1 .. Volume : DuplicateTrade(o, k)

Next ==
  \/ Lifecycle
  \/ StrategyCalls
  \/ EngineStep
  \/ \E p \in Prices : ProcessTick(p)
  \/ Deliver
  \/ VenueStep
  \/ Crash
  \/ Restart

Spec == Init /\ [][Next]_vars
-------------------------------------------------------------------------------
(* Properties.                                                               *)

\* Nothing the venue reported is on its way to the engines.
Quiet == Idle /\ bus = <<>>

\* A stop order in the map always belongs to a strategy that is still
\* registered, so check_stop_order and cancel_local_stop_order never follow a
\* null pointer; between handlers that strategy trades, and its set of ids and
\* the map agree on the stop orders, so that stop_strategy reaches each of them.
StopOrdersOwned ==
  /\ \A s \in DOMAIN stopOrders : strategies[stopOrders[s].name] # None
  /\ Idle => \A n \in Names :
       LET own == {s \in DOMAIN stopOrders : stopOrders[s].name = n}
       IN /\ own # {} => strategies[n] \in trading
          /\ own = strategyOrders[n] \cap StopIds

\* A stop order is sent to the venue at most once, and never once cancelled,
\* although the walk resumes from an erased entry and callbacks add and cancel
\* stop orders while it is under way.
StopFiresOnce ==
  \A s \in StopIds :
    /\ fired[s] <= 1
    /\ fired[s] = 1 => s \notin withdrawn \cup DOMAIN stopOrders

\* The stop orders of the map are their strategies' own, and fire once.
StopOrdersSound == StopOrdersOwned /\ StopFiresOnce

\* No order reaches the venue for a strategy that is not trading, whether a
\* strategy or a stop order sends it.
OnlyTradingSend ==
  [][\A o \in OrderIds : venue[o].by = None /\ venue'[o].by # None => venue'[o].by \in trading]_vars

\* When the bus is drained, OmsEngine holds as active exactly the orders that
\* are active at the venue, and the venue's state of every order it knows: all
\* of them, but for those that were finished before a restart.
OmsTracksVenue ==
  Quiet =>
    /\ activeOrders = OpenOrders
    /\ \A o \in OrderIds : oms[o] = venue[o].st \/ (restarts > 0 /\ oms[o] = None)

\* When the bus is drained, the ids cancel_all works from are exactly the
\* registered strategy's orders that are active at the venue.
ActiveIdsTrackVenue ==
  Quiet => \A n \in Names :
    strategyOrders[n] \cap OrderIds = {o \in OpenOrders : venue[o].by = strategies[n]}

\* The lots that an object has traded at the venue, one pair for each.
Lots(i, d) ==
  {t \in OrderIds \X (1 .. Volume) :
     venue[t[1]].by = i /\ venue[t[1]].dir = d /\ t[2] <= venue[t[1]].traded}

NetLots(i) == Cardinality(Lots(i, "LONG")) - Cardinality(Lots(i, "SHORT"))

\* When the bus is drained, the pos of a registered strategy is what its orders
\* traded at the venue: finished orders still find their strategy, and a trade
\* that is pushed twice counts once.
PosTracksVenue ==
  Quiet => \A n \in Names :
    strategies[n] # None => pos[strategies[n]] = NetLots(strategies[n])

\* When the bus is drained the OMS, the ids of each strategy and its position are
\* what the venue has.
VenueAgreement == TypeOK /\ OmsTracksVenue /\ ActiveIdsTrackVenue /\ PosTracksVenue

\* Between handlers, every active id of a strategy that does not trade was
\* asked to be cancelled, or its cancellation was reported as failed.
StopReachesOrders ==
  Idle => \A n \in Names :
    strategies[n] \notin trading => strategyOrders[n] \cap OrderIds \subseteq cancelReq \cup unfound

\* "Cancel all orders of the strategy", says stop_strategy of what it does: no
\* active order of a stopped strategy goes without a cancel request.
StopCancelsAllOrders ==
  Idle => \A n \in Names :
    strategies[n] \notin trading => strategyOrders[n] \cap OrderIds \subseteq cancelReq
===============================================================================
