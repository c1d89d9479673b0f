--------------------------------- MODULE RBreak ---------------------------------
(***************************************************************************)
(* RBreakStrategy (app/strategies/r_break_strategy) with its bar generator,    *)
(* the bars it loads at its start and, as CtaEngine runs them, its stop       *)
(* orders: ticks make bars, each bar withdraws what is open and sets new stop  *)
(* orders from the levels of the day before.  Prices of levels are in          *)
(* thousandths; volumes in tenths of fixed_size.                             *)
(***************************************************************************)
EXTENDS BarGenerator, History

CONSTANTS
  Prices,           \* prices of ticks; 0 is a tick whose price is not known
  Size,             \* size of the ArrayManager
  MaxTicks,         \* bound: ticks
  MaxStarts         \* bound: starts of the strategy

ASSUME RBreakAssumption == Prices \subseteq Nat /\ {Size, MaxTicks, MaxStarts} \subseteq Nat

VARIABLES
  bar,              \* bar of the generator
  series,           \* what on_bar keeps: count, bars, the day and the levels
  trading,          \* trading of the strategy
  pos,              \* pos
  stops,            \* stop orders that wait in the engine
  orders,           \* orders at the venue
  index,            \* index of on_tick, 2 from then on
  heard,            \* prices of the ticks of this minute, the generator's or not
  heardMinute,
  late,             \* by direction, the volume filled after a cancel_all
  ticks, starts, sent

strategyVars == <<bar, series, trading, pos, stops, orders, index, heard, heardMinute, late, ticks, starts, sent>>
vars == <<historyVars, strategyVars>>

NoDay == [open |-> 0, high |-> 0, low |-> 0, close |-> 0]
NoLevels == [buy_setup |-> 0, sell_setup |-> 0, buy_enter |-> 0, sell_break |-> 0]

Init ==
  /\ HistoryInit
  /\ bar = NoBar
  /\ series = [count |-> 0, bars |-> <<>>, day |-> NoDay, levels |-> NoLevels, intra |-> [high |-> 0, low |-> 0]]
  /\ trading = FALSE /\ pos = 0 /\ stops = {} /\ orders = {} /\ index = 0
  /\ heard = <<>> /\ heardMinute = 0 /\ late = [d \in {"LONG", "SHORT"} |-> 0]
  /\ ticks = 0 /\ starts = 0 /\ sent = 0
-------------------------------------------------------------------------------
\* The levels that follow a day; on_bar also keeps sell_enter and buy_break, which
\* only an order reads that donchian, which returns nothing, never lets it send.
LevelsAfter(d) ==
  LET buy_setup == 1000 * d.low - 250 * (d.high - d.close)
      sell_setup == 1000 * d.high + 250 * (d.close - d.low)
  IN [buy_setup |-> buy_setup, sell_setup |-> sell_setup,
      buy_enter |-> 535 * (d.high + d.low) - 70 * d.high,
      sell_break |-> buy_setup - (sell_setup - buy_setup) \div 5]

DayOf(b) == [open |-> b.open, high |-> b.high, low |-> b.low, close |-> b.close]
Extended(d, b) == [d EXCEPT !.high = Max({@, b.high}), !.low = Min({@, b.low}), !.close = b.close]
NewDay(before, b) == before \div Day # b.minute \div Day

\* update_bar of the ArrayManager, which counts, and the part of on_bar that keeps
\* the series: two bars go by, then each is compared with the one before it.
OnBar(r, b) ==
  LET count == Min({r.count + 1, Size})
      before == Last(r.bars)
  IN IF count < Size THEN [r EXCEPT !.count = count]
     ELSE IF Len(r.bars) < 2 THEN [r EXCEPT !.count = count, !.bars = Append(@, b.minute)]
     ELSE [r EXCEPT !.bars = <<before, b.minute>>,
                    !.day = IF NewDay(before, b) THEN DayOf(b) ELSE Extended(@, b),
                    !.levels = IF NewDay(before, b) /\ r.day.open # 0 THEN LevelsAfter(r.day) ELSE @]

\* Whether this bar came as far as the orders of on_bar.
Ready(r) == Len(r.bars) = 2 /\ r.levels.sell_setup # 0

\* intra_trade_high and intra_trade_low: since the last bar of a flat position.
Intra(r, b) ==
  [high |-> IF pos = 0 THEN b.high ELSE IF pos > 0 THEN Max({r.intra.high, b.high}) ELSE r.intra.high,
   low |-> IF pos = 0 THEN b.low ELSE IF pos < 0 THEN Min({r.intra.low, b.low}) ELSE r.intra.low]

\* The stop orders of on_bar: flat, a short entry and a long reversal; otherwise the
\* exit of the position, which trails the price.
StopOrders(r) ==
  CASE pos = 0 /\ r.levels.buy_setup > 0 ->
         {[dir |-> "SHORT", volume |-> 10, price |-> Min({r.levels.sell_break, 1000 * r.day.low})],
          [dir |-> "LONG", volume |-> 30, price |-> r.levels.buy_enter]}
    [] pos = 0 /\ ~(r.levels.buy_setup > 0) -> {}
    [] pos > 0 -> {[dir |-> "SHORT", volume |-> pos, price |-> 996 * r.intra.high]}
    [] pos < 0 -> {[dir |-> "LONG", volume |-> -pos, price |-> 1004 * r.intra.low]}

\* An order, whether OmsEngine knows it, whether its cancel was asked for, and whether
\* a cancel_all was made while it was open.
Order(n, dir, volume) ==
  [n |-> n, dir |-> dir, volume |-> volume, known |-> FALSE, asked |-> FALSE, over |-> FALSE]

\* check_stop_order: a stop order is triggered by a tick at or beyond its price.
Triggered(s, price) == IF s.dir = "LONG" THEN 1000 * price >= s.price ELSE 1000 * price <= s.price

\* Mutant of Withdrawn: on_bar keeps the orders that the venue has.
WithdrawnStops(os) == os

\* cancel_all of on_bar and of stop_strategy: the cancel of each order that OmsEngine
\* knows is requested; of those that it does not know yet it only logs.
Withdrawn(os) == {[o EXCEPT !.over = TRUE, !.asked = @ \/ o.known] : o \in os}
-------------------------------------------------------------------------------
\* The stop orders of the strategy that a tick triggers, and the orders they become.
Fired(price) == {s \in stops : trading /\ Triggered(s, price)}
Fresh(fired) ==
  LET first == SetToSeq(fired) IN
  {Order(sent + i, first[i].dir, first[i].volume) : i \in 1 .. Cardinality(fired)}

\* on_tick, once in a process, buys a tenth of fixed_size.
Buys == trading /\ index = 1

\* process_tick_event: the stop orders that the tick triggers become orders, then
\* on_tick makes the bar of the tick.
Tick(t) ==
  LET fired == Fired(t.price)
      fresh == Fresh(fired)
      closed == Closed(bar, t)
      handed == closed # NoBar
      r == IF handed THEN OnBar(series, closed) ELSE series
      kept == IF handed /\ Ready(r) THEN [r EXCEPT !.intra = Intra(r, closed)] ELSE r
      n == sent + Cardinality(fired)
  IN /\ ~Busy /\ ticks < MaxTicks
     /\ ticks' = ticks + 1
     /\ bar' = UpdateTick(bar, t)
     /\ series' = kept
     /\ stops' = IF ~trading \/ ~handed THEN stops \ fired
                 ELSE IF Ready(r) THEN StopOrders(kept) ELSE {}
     /\ orders' = (IF handed /\ trading THEN Withdrawn(orders \cup fresh) ELSE orders \cup fresh)
                  \cup IF Buys THEN {Order(n + 1, "LONG", 1)} ELSE {}
     /\ sent' = IF Buys THEN n + 1 ELSE n
     /\ index' = Min({index + 1, 2})
     /\ heard' = IF t.price = 0 THEN heard ELSE IF t.minute = heardMinute THEN Append(heard, t.price) ELSE <<t.price>>
     /\ heardMinute' = IF t.price = 0 THEN heardMinute ELSE t.minute
     /\ UNCHANGED <<historyVars, trading, pos, late, starts>>

\* start_strategy, to the load_bar in on_start.
Start ==
  /\ ~trading /\ ~Busy /\ starts < MaxStarts
  /\ starts' = starts + 1
  /\ Ask
  /\ UNCHANGED <<now, bar, series, trading, pos, stops, orders, index, heard, heardMinute,
                 late, ticks, sent>>

\* The venue's bar of a minute in the past, of no interest but for its minute.
BarAt(m) == Bar(m, 2, 3, 2, 2 + (m % 2))

\* load_bar gives the bars to on_bar, one by one; on_bar does not trade yet.
LoadBar ==
  /\ Loading /\ history # <<>>
  /\ series' = OnBar(series, BarAt(Head(history)))
  /\ history' = Tail(history)
  /\ UNCHANGED <<now, query, broken, bar, trading, pos, stops, orders, index, heard, heardMinute,
                 late, ticks, starts, sent>>

\* The start ends: the strategy trades.
Loaded ==
  /\ Loading /\ history = <<>>
  /\ query' = Idle /\ broken' = FALSE
  /\ trading' = TRUE
  /\ UNCHANGED <<now, history, bar, series, pos, stops, orders, index, heard, heardMinute,
                 late, ticks, starts, sent>>

\* stop_strategy: what is open is withdrawn.
Stop ==
  /\ trading
  /\ trading' = FALSE
  /\ stops' = {} /\ orders' = Withdrawn(orders)
  /\ UNCHANGED <<historyVars, bar, series, pos, index, heard, heardMinute, late, ticks, starts, sent>>

\* process_order_event of OmsEngine, with the report that send_order made.
Known(o) ==
  /\ ~o.known /\ ~Busy
  /\ orders' = (orders \ {o}) \cup {[o EXCEPT !.known = TRUE]}
  /\ UNCHANGED <<historyVars, bar, series, trading, pos, stops, index, heard, heardMinute, late, ticks, starts, sent>>

\* The venue fills an order (at once: module CtaEngine has parts of it) or cancels it.
Fill(o) ==
  /\ ~Busy
  /\ orders' = orders \ {o}
  /\ pos' = IF o.dir = "LONG" THEN pos + o.volume ELSE pos - o.volume
  /\ late' = IF o.over THEN [late EXCEPT ![o.dir] = @ + o.volume] ELSE late
  /\ UNCHANGED <<historyVars, bar, series, trading, stops, index, heard, heardMinute, ticks, starts, sent>>

Cancelled(o) ==
  /\ o.asked /\ ~Busy
  /\ orders' = orders \ {o}
  /\ UNCHANGED <<historyVars, bar, series, trading, pos, stops, index, heard, heardMinute, late, ticks, starts, sent>>

Next ==
  \/ (OkxTurn \/ BinanceTurn \/ PageFails \/ Minute \/ Return) /\ UNCHANGED strategyVars
  \/ \E price \in Prices, minute \in {now, now - 1} : Tick([price |-> price, minute |-> minute])
  \/ Start \/ LoadBar \/ Loaded \/ Stop
  \/ \E o \in orders : Known(o) \/ Fill(o) \/ Cancelled(o)

Spec == Init /\ [][Next]_vars
-------------------------------------------------------------------------------
TypeOK ==
  /\ HistoryTypeOK
  /\ series.count \in 0 .. Size /\ Len(series.bars) <= 2
  /\ pos \in Int /\ index \in 0 .. 2
  /\ \A o \in orders : o.n \in 1 .. sent /\ o.volume > 0
  /\ \A s \in stops : s.volume > 0

\* The bar under way is that of the minute's ticks, first to last, without those
\* that have no price, whichever minute the next tick is of.
BarsFaithful ==
  bar # NoBar => bar = BarOf(heardMinute, heard)

\* Bars that were loaded are of consecutive minutes, each once.  If no page failed they
\* begin at the start, or with the listing, and end with the minute that ran or before.
HistoryWhole ==
  Done =>
    LET loaded == Returned IN
      /\ \A i \in 1 .. Len(loaded) - 1 : loaded[i + 1] = loaded[i] + 1
      /\ ~broken /\ loaded # <<>> =>
           /\ loaded[1] <= Max({query.start, query.listing})
           /\ Last(loaded) >= query.end - 1

\* The bars that the strategy sees, made or loaded, are those of the market.
BarsSound == TypeOK /\ BarsFaithful /\ HistoryWhole

\* A bar replaces what the one before it left open, although cancel_all only asks and
\* asks nothing for orders that are not known yet: the position is within one entry
\* and one reversal (and the example's tenth), and goes beyond them by no more than the
\* volume that was filled after a cancel_all was made.
PosBounded == pos \in -(10 + late["SHORT"]) .. 31 + late["LONG"]
===============================================================================
