-------------------------------- MODULE History --------------------------------
(***************************************************************************)
(* query_history of the adapters (core/exchange): bars of a minute, a page at *)
(* a time, on the main thread, which waits for each page.  OKX pages from the *)
(* newest back, Binance from the oldest on.  A page may fail.  The venue      *)
(* (external) has a bar of each minute since it listed the contract, that of  *)
(* the minute that runs included; bars are named by their minutes.            *)
(***************************************************************************)
EXTENDS Integers, Sequences, FiniteSets, SequencesExt, FiniteSetsExt

CONSTANTS
  Limit,            \* limit: bars of a page
  Day,              \* minutes of a day
  LastMinute        \* bound: the minutes

ASSUME HistoryAssumption == {Limit, Day, LastMinute} \subseteq Nat \ {0} /\ 2 * Day <= LastMinute

VARIABLES
  now,              \* the minute that runs
  query,            \* the loop: whose it is, from when on the venue has bars, its cursor
  history,          \* the minutes of the bars received, and of those to be loaded
  broken            \* a page failed

historyVars == <<now, query, history, broken>>

Idle == [at |-> "none", exchange |-> "none", listing |-> 0, start |-> 0, end |-> 0, cursor |-> 0]
Of(exchange) == query.exchange = exchange
Querying == query.at = "page"
Done == query.at = "done"
Loading == query.at = "loading"
Busy == query.at # "none"

HistoryTypeOK ==
  /\ now \in 0 .. LastMinute
  /\ query.at \in {"none", "page", "done", "loading"} /\ query.exchange \in {"none", "OKX", "BINANCE"}
  /\ ToSet(history) \subseteq query.listing .. now

HistoryInit ==
  /\ now = 2 * Day
  /\ query = Idle /\ history = <<>> /\ broken = FALSE

\* load_bar of the strategy and of CtaEngine: the bars of the last day.  The end and
\* the start, a day before it, are within their minutes: the bar of the start's minute
\* is not after the start, at which OKX stops, and the first that Binance is asked for
\* is the next one.
FirstMinute(exchange) == IF exchange = "OKX" THEN now - Day ELSE now - Day + 1

Ask ==
  /\ \E exchange \in {"OKX", "BINANCE"}, listing \in {0, 2} :
       query' = [at |-> "page", exchange |-> exchange, listing |-> listing, start |-> FirstMinute(exchange),
                 end |-> now, cursor |-> IF exchange = "OKX" THEN now + 1 ELSE FirstMinute(exchange)]
  /\ history' = <<>> /\ broken' = FALSE

Ascending(first, last) == [i \in 1 .. last - first + 1 |-> first + i - 1]
Descending(first, last) == [i \in 1 .. last - first + 1 |-> last - i + 1]

\* The venue's answers: the newest bars before the cursor, from the last to the first,
\* and the oldest from the cursor on.
OkxPage ==
  LET newest == Min({now, query.cursor - 1})
  IN Descending(Max({query.listing, newest - Limit + 1}), newest)
BinancePage ==
  LET oldest == Max({query.listing, query.cursor})
  IN Ascending(oldest, Min({now, query.end, oldest + Limit - 1}))

\* query_history of OKX, one turn of its loop: until the oldest bar of a page is not
\* after the start, or a page is empty.
OkxTurn ==
  /\ Querying /\ Of("OKX")
  /\ history' = history \o OkxPage
  /\ query' = IF OkxPage = <<>> \/ Last(OkxPage) <= query.start THEN [query EXCEPT !.at = "done"]
              ELSE [query EXCEPT !.cursor = Last(OkxPage)]
  /\ UNCHANGED <<now, broken>>

\* query_history of Binance, one turn: until a page is not full.  The end is within
\* its minute, so that no bar's time is the end's or after it.
BinanceTurn ==
  /\ Querying /\ Of("BINANCE")
  /\ history' = history \o BinancePage
  /\ query' = IF Len(BinancePage) < Limit THEN [query EXCEPT !.at = "done"]
              ELSE [query EXCEPT !.cursor = Last(BinancePage) + 1]
  /\ UNCHANGED <<now, broken>>

\* A page fails or is not JSON: what was received so far is used.
PageFails ==
  /\ Querying
  /\ broken' = TRUE
  /\ query' = [query EXCEPT !.at = "done"]
  /\ UNCHANGED <<now, history>>

\* Time passes, also while the main thread waits for a page.
Minute ==
  /\ now < LastMinute
  /\ now' = now + 1
  /\ UNCHANGED <<query, history, broken>>

\* sort: the i-th of a sequence of numbers is that which fewer than i others precede
\* and at least i do not follow.
Sorted(q) ==
  [i \in 1 .. Len(q) |->
     CHOOSE x \in ToSet(q) : /\ Cardinality({k \in 1 .. Len(q) : q[k] < x}) < i
                             /\ Cardinality({k \in 1 .. Len(q) : q[k] <= x}) >= i]

\* What is returned: sorted, and by Binance without its last, whatever that is.
Returned ==
  IF Of("BINANCE") /\ history # <<>> THEN Front(Sorted(history)) ELSE Sorted(history)

\* The query ends; what it returns is loaded bar by bar.
Return ==
  /\ Done
  /\ history' = Returned
  /\ query' = [query EXCEPT !.at = "loading"]
  /\ UNCHANGED <<now, broken>>
===============================================================================
