-------------------------------- MODULE Adapters --------------------------------
(***************************************************************************)
(* An adapter from its connect on: its start with all that can fail in it, or *)
(* a start that succeeds together with its market data, its books or its       *)
(* settings, which share nothing but the start.                              *)
(***************************************************************************)
EXTENDS MarketData, AccountData

CONSTANT Parts     \* the parts that are checked, each on its own

ASSUME PartsAssumption == Parts \subseteq {"start", "market", "books", "settings"}

VARIABLE part

vars == <<startVars, marketVars, accountVars, part>>

\* What a part does not tell apart is fixed.
Init ==
  /\ StartInit /\ MarketInit /\ AccountInit /\ part \in Parts
  /\ part # "start" => listed = [p \in Products |-> 1] /\ keys
  /\ part \in {"market", "books"} => ~skewed
  /\ part # "books" => empty = {}
  /\ part \in {"start", "market"} => account = [x \in Settings |-> 1]

OfStart(A) == A /\ UNCHANGED <<marketVars, accountVars, part>>
OfMarket(A) == part = "market" /\ A /\ UNCHANGED <<accountVars, part>>
OfAccount(A) == A /\ UNCHANGED <<marketVars, part>>

Next ==
  \/ OfStart(StartStep)
  \/ OfAccount(OnStartUserStream)
  \/ part = "start" /\ OfStart(CallFails)
  \/ OfMarket(MarketStep)
  \/ part = "books" /\ OfAccount(BooksStep)
  \/ part = "settings" /\ OfAccount(SettingsStep)

\* A request is answered, the main loop handles what it is posted, and a client
\* connects again (module Link).  The venue answers and its network delivers.
Fairness ==
  /\ WF_vars(OfStart(StartStep /\ calls # {}))
  /\ WF_vars(OfAccount(OnStartUserStream))
  /\ WF_vars(OfMarket(Retry))
  /\ SF_vars(OfMarket(OnConnected))
  /\ WF_vars(OfMarket(VenueSubscribe))
  /\ WF_vars(OfMarket(BinanceOnPacket \/ OnTicker \/ OnDepth))

Spec == Init /\ [][Next]_vars /\ Fairness
-------------------------------------------------------------------------------
TypeOK == StartTypeOK /\ MarketTypeOK /\ AccountTypeOK

\* OKX begins to trade only with contracts of each of its products: its clients are
\* started, and the open orders queried, when each product has a contract, and misses
\* some of a product only if the handler of that product's answer threw at a row.
ContractsFirst ==
  Okx /\ line # "off" =>
    \A p \in Products : contracts[p] > 0 /\ (contracts[p] = listed[p] \/ p \in failed)

\* What the start keeps is of its type, and trading waits for the contracts.
StartSound == TypeOK /\ ContractsFirst

\* connect brings the adapter up, with all contracts, unless a request failed (none is
\* repeated) or OKX lists no contract of one of its products.
StartsUp ==
  connected ~> (Up \/ failed # {} \/ (Okx /\ \E p \in Products : listed[p] = 0))

\* A symbol that was subscribed is streamed again after every loss of the line,
\* but for Binance's early return for a symbol that has a tick.
StreamsFollow ==
  \A s \in Wanted :
    (s \in subscribed \ unsent /\ line = "up") ~> (s \in streams \/ line # "up")

\* When the line is quiet the tick that was last put on the bus has the venue's
\* price beside the venue's depth, although two channels bring them.
TickCurrent ==
  line = "up" /\ up = <<>> /\ down = <<>> =>
    \A s \in streams : ticks[s] = quotes[s] /\ published[s] = quotes[s]

\* When nothing is in flight the bus was told of the venue's books as they are, but
\* for positions in hedge mode, whose two rows have one key.  Binance has more
\* exceptions: a query that failed or was overtaken by a report, a change while no
\* stream was up that came after the query's answer, and a balance of zero.
BooksExplained ==
  user = "up" /\ news = <<>> /\ ~Asked("account") /\ ~Asked("position") =>
    \A x \in Books :
      \/ told[x] = books[x]
      \/ x = "position" /\ account["mode"] = Hedge
      \/ /\ ~Okx
         /\ \/ x \in failed \cup overtaken
            \/ books[x] \in silent[x]
            \/ x = "account" /\ books[x] \in empty

\* What the comments in query_account and query_position of Binance say: a query is not
\* required, since the stream brings the updates.  With the stream up and nothing on its
\* way the bus was told of the venue's books.
UpdatesSuffice ==
  ~Okx /\ user = "up" /\ news = <<>> /\ failed = {} /\ account["mode"] # Hedge
       /\ ~Asked("account") /\ ~Asked("position") =>
    told = books
===============================================================================
