------------------------------ MODULE BarGenerator ------------------------------
(***************************************************************************)
(* BarGenerator of core/engine/utility.cpp as functions of its state: bars of *)
(* a minute from ticks, and what each of them ought to be.  A time is a        *)
(* minute, prices are integers, volumes and open interests are left out.  The  *)
(* strategy here asks for no bars of a window, which are left out.           *)
(***************************************************************************)
EXTENDS Integers, Sequences, SequencesExt, FiniteSetsExt

NoBar == <<>>

Bar(m, o, h, l, c) == [minute |-> m, open |-> o, high |-> h, low |-> l, close |-> c]

\* Mutant of Joins: minutes are compared on the face of a clock of two.
JoinsWrapped(bar, tick) == bar # NoBar /\ bar.minute % 2 = tick.minute % 2

\* A tick belongs to the bar that is open when both are of the same minute.
Joins(bar, tick) == bar # NoBar /\ bar.minute = tick.minute

\* The bar that update_tick hands to on_bar before it opens another one.
Closed(bar, tick) ==
  IF tick.price = 0 \/ bar = NoBar \/ Joins(bar, tick) THEN NoBar ELSE bar

\* update_tick: a tick without a price is passed over.
UpdateTick(bar, tick) ==
  CASE tick.price = 0 -> bar
    [] tick.price # 0 /\ Joins(bar, tick) ->
         [bar EXCEPT !.high = Max({@, tick.price}), !.low = Min({@, tick.price}), !.close = tick.price,
                     !.minute = tick.minute]
    [] OTHER -> Bar(tick.minute, tick.price, tick.price, tick.price, tick.price)

\* What a bar ought to be: the prices of its ticks, first to last.
BarOf(m, prices) ==
  Bar(m, prices[1], Max(ToSet(prices)), Min(ToSet(prices)), Last(prices))
===============================================================================
