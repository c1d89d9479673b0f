----------------------------- MODULE AdapterProofs -----------------------------
(***************************************************************************)
(* Safety of Adapters for every bound: OKX trades only with contracts of each *)
(* of its products, and misses some only if the answer that had them threw;   *)
(* published ticks have the venue's quotation, and books differ from the      *)
(* venue's only for the reasons that BooksExplained names.                    *)
(***************************************************************************)
EXTENDS Adapters, FiniteSetTheorems, TLAPS

\* What is ready has a contract, and all that the venue lists unless its answer threw
\* at a row; no client of OKX is started before all is ready.
Furnished(p) == contracts[p] > 0 /\ (contracts[p] = listed[p] \/ p \in failed)

\* A step of one of the account's parts, or the answer that starts its client.
AccountMoves == BooksStep \/ SettingsStep \/ OnStartUserStream

ContractsInv ==
  /\ listed \in [Products -> Nat] /\ contracts \in [Products -> Nat]
  /\ \A p \in Products : contracts[p] <= listed[p]
  /\ product_ready \subseteq Products
  /\ Okx => \A p \in product_ready : Furnished(p)
  /\ Okx /\ line # "off" => product_ready = Products
-------------------------------------------------------------------------------
\* A request asks for a mode or leverage that there is, and OKX asks for each of its
\* products' contracts once, for no account and no key; nothing is started before.
RequestsInv ==
  /\ \A c \in calls :
       /\ c.op \in Settings \/ (c.op = "time" /\ ~Okx) => c.n \in 1 .. 2
       /\ c.op \in Books => c.n \in 0 .. MaxTrades /\ c.arg \in {"ask", "answer"}
       /\ c.op = "contract" => c.arg \in Products \cup {"all"}
       /\ Okx /\ c.op = "contract" => c = Call("contract", c.arg, 0) /\ c.arg \in Products \ product_ready
       /\ Okx => c.op \notin Books \cup {"stream"}
  /\ ~connected => calls = {} /\ line = "off" /\ user = "off" /\ product_ready = {}
  /\ Okx /\ product_ready # Products => line = "off" /\ user = "off"

StartInv == StartTypeOK /\ RequestsInv

LEMMA ContractsInit == Init => ContractsInv
<1>1. \A n \in 0 .. MaxRows : n \in Nat /\ 0 <= n
  BY StartAssumption
<1> QED
  BY <1>1 DEF Init, StartInit, ContractsInv

\* The greater of two numbers.
LEMMA OfTwo ==
  ASSUME NEW m \in Nat, NEW n \in Nat
  PROVE  Max({m, n}) \in Nat /\ Max({m, n}) = IF m < n THEN n ELSE m
<1> DEFINE g == IF m < n THEN n ELSE m
<1>1. g \in {m, n} /\ \A y \in {m, n} : g >= y
  OBVIOUS
<1>2. \A x \in {m, n} : (\A y \in {m, n} : x >= y) => x = g
  OBVIOUS
<1>3. Max({m, n}) = g
  BY <1>1, <1>2 DEF Max
<1> QED
  BY <1>3

\* Rows of an answer are put: of each product there are as many as before or as many
\* as the answer brought, whichever is more.
LEMMA RowsEnter ==
  ASSUME ContractsInv, NEW rows \in [Products -> Nat], OnContract(rows),
         \A p \in Products : rows[p] <= listed[p]
  PROVE  /\ contracts' \in [Products -> Nat]
         /\ \A p \in Products : /\ contracts[p] <= contracts'[p] /\ contracts'[p] <= listed[p]
                                /\ rows[p] <= contracts'[p]
<1>1. contracts' = [p \in Products |-> Max({contracts[p], rows[p]})]
  BY DEF OnContract
<1>2. ASSUME NEW p \in Products
      PROVE  /\ contracts'[p] \in Nat /\ contracts[p] <= contracts'[p]
             /\ contracts'[p] <= listed[p] /\ rows[p] <= contracts'[p]
  <2>1. contracts[p] \in Nat /\ rows[p] \in Nat /\ listed[p] \in Nat /\ contracts[p] <= listed[p]
    BY DEF ContractsInv
  <2>2. contracts'[p] = Max({contracts[p], rows[p]})
    BY <1>1
  <2> QED
    BY <2>1, <2>2, OfTwo
<1> QED
  BY <1>1, <1>2

\* What an answer has of a product is all or nothing of what is listed.
LEMMA RowsAre ==
  ASSUME ContractsInv, NEW c
  PROVE  /\ Rows(c) \in [Products -> Nat]
         /\ \A p \in Products : Rows(c)[p] = listed[p] \/ Rows(c)[p] = 0
         /\ \A p \in Products : Rows(c)[p] <= listed[p]
         /\ \A p \in Products : Rows(c)[p] > 0 => c.op = "contract" /\ c.arg \in {p, "all"}
<1>1. \A p \in Products : listed[p] \in Nat
  BY DEF ContractsInv
<1> QED
  BY <1>1 DEF Rows

\* Products that rows make ready are furnished if a row misses only with a reason.
LEMMA ReadyFurnished ==
  ASSUME ContractsInv, Okx, NEW rows \in [Products -> Nat], OnContract(rows),
         \A p \in Products : rows[p] <= listed[p],
         \A p \in Products : rows[p] > 0 => rows[p] = listed[p] \/ p \in failed',
         listed' = listed, failed \subseteq failed',
         NEW p \in MadeReady(rows)
  PROVE  Furnished(p)'
<1>1. p \in Products
  BY DEF ContractsInv, MadeReady
<1>2. /\ contracts[p] \in Nat /\ contracts'[p] \in Nat /\ listed[p] \in Nat /\ rows[p] \in Nat
      /\ contracts[p] <= contracts'[p] /\ contracts'[p] <= listed[p] /\ rows[p] <= contracts'[p]
  BY <1>1, RowsEnter DEF ContractsInv
<1>3. CASE rows[p] > 0
  BY <1>1, <1>2, <1>3 DEF Furnished
<1>4. CASE ~(rows[p] > 0)
  <2>1. contracts[p] > 0 /\ (contracts[p] = listed[p] \/ p \in failed)
    BY <1>4 DEF MadeReady, ContractsInv, Furnished
  <2> QED
    BY <1>2, <2>1 DEF Furnished
<1> QED
  BY <1>3, <1>4

\* The start: a client is started by the answer that completes what is ready.
LEMMA ContractsStart == ContractsInv /\ StartInv /\ (StartStep \/ CallFails) => ContractsInv'
<1> SUFFICES ASSUME ContractsInv, StartInv, StartStep \/ CallFails PROVE ContractsInv'
  OBVIOUS
<1> USE DEF given, Okx
<1>1. CASE Connect
  BY <1>1 DEF Connect, OkxConnect, BinanceConnect, ContractsInv, Furnished
<1>2. CASE OkxQueryTime \/ BinanceQueryTime
  BY <1>2 DEF OkxQueryTime, BinanceQueryTime, ContractsInv, Furnished
<1>3. CASE OkxQueryContract
  <2>1. PICK c \in calls :
          /\ Okx
          /\ OnContract(Rows(c))
          /\ product_ready' = MadeReady(Rows(c))
          /\ product_ready' = Products \/ line' = line
    BY <1>3 DEF OkxQueryContract, Ready
  <2>2. adapter' = adapter /\ listed' = listed /\ failed' = failed
    BY <1>3 DEF OkxQueryContract
  <2>3. \A p \in product_ready' : Furnished(p)'
    BY <2>1, <2>2, RowsAre, ReadyFurnished
  <2>4. contracts' \in [Products -> Nat] /\ \A p \in Products : contracts'[p] <= listed[p]
    BY <2>1, RowsAre, RowsEnter
  <2>5. product_ready' \subseteq Products /\ product_ready \subseteq product_ready'
    BY <2>1 DEF MadeReady, ContractsInv
  <2> QED
    BY <2>1, <2>2, <2>3, <2>4, <2>5 DEF ContractsInv
<1>4. CASE BinanceQueryContract
  <2>1. PICK c \in calls : ~Okx /\ OnContract(Rows(c))
    BY <1>4 DEF BinanceQueryContract
  <2>2. contracts' \in [Products -> Nat] /\ \A p \in Products : contracts'[p] <= listed[p]
    BY <2>1, RowsAre, RowsEnter
  <2>3. adapter' = adapter /\ listed' = listed /\ product_ready' = product_ready
    BY <1>4 DEF BinanceQueryContract
  <2> QED
    BY <2>1, <2>2, <2>3 DEF ContractsInv
<1>5. CASE OnQueryOrder
  BY <1>5 DEF OnQueryOrder, ContractsInv, Furnished
<1>6. CASE CallFails
  <2>0. PICK c \in calls :
          /\ failed' = failed \cup {Name(c)}
          /\ \E rows \in Kept(c) :
               /\ OnContract(rows)
               /\ product_ready' = IF Okx THEN MadeReady(rows) ELSE product_ready
    BY <1>6 DEF CallFails
  <2>1. PICK rows \in Kept(c) :
          /\ OnContract(rows)
          /\ product_ready' = IF Okx THEN MadeReady(rows) ELSE product_ready
    BY <2>0
  <2>2. adapter' = adapter /\ listed' = listed /\ line' = line
    BY <1>6 DEF CallFails
  <2>3. rows \in [Products -> Nat]
    BY <2>1, StartAssumption DEF Kept
  <2>4. \A p \in Products : rows[p] <= listed[p] /\ (rows[p] > 0 => c.op = "contract" /\ c.arg \in {p, "all"})
    <3> SUFFICES ASSUME NEW p \in Products
                 PROVE  rows[p] <= listed[p] /\ (rows[p] > 0 => c.op = "contract" /\ c.arg \in {p, "all"})
      OBVIOUS
    <3>1. rows[p] <= Rows(c)[p] /\ rows[p] \in Nat /\ Rows(c)[p] \in Nat /\ listed[p] \in Nat
      BY <2>1, <2>3, RowsAre DEF Kept, ContractsInv
    <3> QED
      BY <3>1, RowsAre
  <2>5. contracts' \in [Products -> Nat] /\ \A p \in Products : contracts'[p] <= listed[p]
    BY <2>1, <2>3, <2>4, RowsEnter
  <2>6. product_ready' \subseteq Products
    BY <2>1 DEF MadeReady, ContractsInv
  <2>7. ASSUME Okx, NEW p \in product_ready' PROVE Furnished(p)'
    <3>1. p \in MadeReady(rows)
      BY <2>1, <2>7
    <3>2. ASSUME NEW q \in Products, rows[q] > 0 PROVE q \in failed'
      <4>1. c.op = "contract" /\ c.arg \in {q, "all"} /\ c.arg \in Products
        BY <2>4, <2>7, <3>2 DEF StartInv, RequestsInv
      <4>2. Name(c) = q
        BY <4>1 DEF Name, Products
      <4> QED
        BY <2>0, <4>2
    <3>3. failed \subseteq failed'
      BY <2>0
    <3> QED
      BY <2>1, <2>2, <2>3, <2>4, <2>7, <3>1, <3>2, <3>3, ReadyFurnished
  <2>8. Okx /\ line # "off" => product_ready' = Products
    BY <2>1, <2>6 DEF ContractsInv, MadeReady
  <2> QED
    BY <2>2, <2>5, <2>6, <2>7, <2>8 DEF ContractsInv
<1> QED
  BY <1>1, <1>2, <1>3, <1>4, <1>5, <1>6 DEF StartStep

\* The clients: only a line that was started moves.
LEMMA ContractsMarket == ContractsInv /\ MarketStep => ContractsInv'
<1> SUFFICES ASSUME ContractsInv, MarketStep PROVE ContractsInv'
  OBVIOUS
<1>1. UNCHANGED <<adapter, listed, contracts, product_ready, failed>>
  BY DEF MarketStep, Subscribe, OnConnected, Retry, OnDisconnected, BinanceOnPacket, OnTicker, OnDepth, Publish,
    VenueSubscribe, VenueQuotes, startVars, given
<1>2. line = "off" => line' = line
  BY DEF MarketStep, Subscribe, OnConnected, Retry, OnDisconnected, BinanceOnPacket, OnTicker, OnDepth, Publish,
    VenueSubscribe, VenueQuotes, startVars
<1> QED
  BY <1>1, <1>2 DEF ContractsInv, Okx, Furnished

LEMMA ContractsAccount == ContractsInv /\ AccountMoves => ContractsInv'
<1> SUFFICES ASSUME ContractsInv, AccountMoves PROVE ContractsInv'
  OBVIOUS
<1>1. UNCHANGED restVars /\ failed \subseteq failed'
  BY DEF AccountMoves, BooksStep, SettingsStep, SetSetting, RefuseLeverage, OnSetMode, OnSetLeverage, VenueAnswers,
    OnQueryBooks, QueryBooksFails, OnUserConnected, OnUserDisconnected, OnStartUserStream, OnReport, VenueChanges,
    startVars, restVars
<1> QED
  BY <1>1 DEF restVars, given, ContractsInv, Okx, Furnished
-------------------------------------------------------------------------------
LEMMA StartInvInit == Init => StartInv
<1>1. 0 \in 0 .. MaxRows /\ \A n \in 0 .. MaxRows : 0 <= n
  BY StartAssumption
<1> QED
  BY <1>1 DEF Init, StartInit, StartInv, StartTypeOK, RequestsInv, Products

\* The start: the last product's answer finds both clients off.
LEMMA StartKeeps ==
  ContractsInv /\ StartInv /\ (StartStep \/ CallFails) => StartInv'
<1> SUFFICES ASSUME ContractsInv, StartInv, StartStep \/ CallFails PROVE StartInv'
  OBVIOUS
<1>1. UNCHANGED given
  BY DEF StartStep, Connect, OkxQueryTime, BinanceQueryTime, OkxQueryContract, BinanceQueryContract, OnQueryOrder, CallFails
<1>2. /\ contracts' \in [Products -> 0 .. MaxRows] /\ product_ready' \subseteq Products
      /\ \A p \in Products : contracts'[p] <= listed'[p]
  <2>1. contracts' \in [Products -> Nat] /\ product_ready' \subseteq Products
        /\ \A p \in Products : contracts'[p] <= listed'[p]
    BY ContractsStart DEF ContractsInv
  <2>2. \A p \in Products : listed'[p] \in 0 .. MaxRows
    BY <1>1 DEF given, StartInv, StartTypeOK
  <2>3. \A m \in Nat, n \in 0 .. MaxRows : m <= n => m \in 0 .. MaxRows
    BY StartAssumption
  <2>4. \A p \in Products : contracts'[p] \in 0 .. MaxRows
    BY <2>1, <2>2, <2>3
  <2> QED
    BY <2>1, <2>4
<1>3. /\ failed' \subseteq Ops \cup Products \cup {"all"}
      /\ line' \in {"off", "down", "opening", "up"} /\ user' \in {"off", "down", "up"} /\ connected' \in BOOLEAN
  <2>1. CASE StartStep
    BY <2>1 DEF StartStep, Connect, OkxConnect, BinanceConnect, BinanceStartClients, OkxStartClients, StartLine, StartUser,
      OkxQueryTime, BinanceQueryTime, OkxQueryContract, BinanceQueryContract, OnQueryOrder, StartInv, StartTypeOK
  <2>2. CASE CallFails
    <3>1. PICK c \in calls : failed' = failed \cup {Name(c)}
      BY <2>2 DEF CallFails
    <3>2. Name(c) \in Ops \cup Products \cup {"all"}
      BY DEF Name, StartInv, StartTypeOK, RequestsInv
    <3> QED
      BY <2>2, <3>1, <3>2 DEF CallFails, StartInv, StartTypeOK
  <2> QED
    BY <2>1, <2>2
<1>4. ASSUME RequestsInv', \A c \in calls' : c.op \in Ops PROVE StartInv'
  BY <1>1, <1>2, <1>3, <1>4 DEF StartInv, StartTypeOK, given
<1> USE DEF StartInv, StartTypeOK, RequestsInv, given, Okx
<1>5. CASE Connect
  <2>1. PICK hedge_mode \in 1 .. 2 : IF Okx THEN OkxConnect(hedge_mode) ELSE BinanceConnect(hedge_mode)
    BY <1>5 DEF Connect
  <2>2. ~connected /\ connected' = TRUE /\ UNCHANGED product_ready
    BY <1>5 DEF Connect
  <2>3. CASE Okx
    <3>1. UNCHANGED <<line, user>> /\ calls' = OkxAsks(hedge_mode)
      BY <2>1, <2>3 DEF OkxConnect
    <3>2. ASSUME NEW c \in calls'
          PROVE  \/ c.op = "time"
                 \/ c.op = "mode" /\ c.n \in 1 .. 2
                 \/ c.op = "contract" /\ c.arg \in Products /\ c = Call("contract", c.arg, 0)
      BY <3>1 DEF OkxAsks, AskMode, Call
    <3> QED
      BY <1>1, <1>4, <2>2, <2>3, <3>1, <3>2 DEF Settings, Ops, Books
  <2>4. CASE ~Okx
    <3>1. calls' = {Call("time", "ask", hedge_mode)}
      BY <2>1, <2>4 DEF BinanceConnect, BinanceAsks
    <3> QED
      BY <1>1, <1>4, <2>1, <2>2, <2>4, <3>1 DEF Call, Settings, Ops, Books
  <2> QED
    BY <2>3, <2>4
<1>6. CASE OkxQueryTime
  BY <1>1, <1>4, <1>6 DEF OkxQueryTime
<1>7. CASE BinanceQueryTime
  <2>1. PICK c \in calls : /\ ~Okx /\ c.op = "time"
                           /\ calls' = (calls \ {c}) \cup {AskMode(c.n), Call("contract", "all", 0)}
    BY <1>7 DEF BinanceQueryTime
  <2>2. UNCHANGED <<connected, product_ready, line, user>>
    BY <1>7 DEF BinanceQueryTime
  <2>3. \A d \in calls' : \/ d \in calls
                          \/ d.op = "mode" /\ d.n \in 1 .. 2
                          \/ d.op = "contract" /\ d.arg = "all"
    BY <2>1 DEF AskMode, Call
  <2> QED
    BY <1>1, <1>4, <2>1, <2>2, <2>3 DEF Settings, Ops, Books
<1>8. CASE OkxQueryContract
  <2>1. PICK c \in calls :
          /\ Okx /\ c.op = "contract"
          /\ product_ready' = MadeReady(Rows(c))
          /\ IF product_ready' = Products
             THEN calls' = (calls \ {c}) \cup {Call("order", "ask", 0)}
             ELSE calls' = calls \ {c} /\ UNCHANGED <<line, user>>
          /\ connected' = connected
    BY <1>8 DEF OkxQueryContract, Ready
  <2>2. product_ready' \subseteq product_ready \cup {c.arg}
    <3>1. \A p \in Products : Rows(c)[p] > 0 => p = c.arg
      BY <2>1, RowsAre DEF Products
    <3> QED
      BY <2>1, <3>1 DEF MadeReady
  <2>3. \A d \in calls' : d.op = "order" \/ (d \in calls /\ d # c)
    BY <2>1 DEF Call
  <2>4. \A d \in calls' : d.op = "contract" => d.arg # c.arg
    BY <2>1, <2>3
  <2>5. connected
    BY <2>1
  <2> QED
    BY <1>1, <1>4, <2>1, <2>2, <2>3, <2>4, <2>5 DEF Settings, Ops, Books
<1>9. CASE BinanceQueryContract
  <2>1. PICK c \in calls : ~Okx /\ c.op = "contract"
    BY <1>9 DEF BinanceQueryContract
  <2>2. UNCHANGED <<connected, product_ready, line, user>>
    BY <1>9 DEF BinanceQueryContract
  <2>3. \A d \in calls' : \/ d \in calls
                          \/ d.op \in {"order", "stream"}
                          \/ d.op \in Books /\ d.n = 0 /\ d.arg = "ask"
    BY <1>9 DEF BinanceQueryContract, AskBooks, AskStream, Call, Books
  <2>4. 0 \in 0 .. MaxTrades
    BY AccountAssumption
  <2> QED
    BY <1>1, <1>4, <2>1, <2>2, <2>3, <2>4 DEF Settings, Ops, Books
<1>10. CASE OnQueryOrder
  BY <1>1, <1>4, <1>10 DEF OnQueryOrder
<1>11. CASE CallFails
  <2>0. PICK c \in calls :
          /\ calls' = calls \ {c}
          /\ \E rows \in Kept(c) : product_ready' = IF Okx THEN MadeReady(rows) ELSE product_ready
    BY <1>11 DEF CallFails
  <2>1. PICK rows \in Kept(c) :
          /\ calls' = calls \ {c}
          /\ product_ready' = IF Okx THEN MadeReady(rows) ELSE product_ready
    BY <2>0
  <2>2. UNCHANGED <<connected, line, user>>
    BY <1>11 DEF CallFails
  <2>3. ASSUME Okx, NEW p \in product_ready' \ product_ready
        PROVE  c.op = "contract" /\ c = Call("contract", p, 0)
    <3>1. p \in Products /\ rows[p] > 0
      BY <2>1, <2>3 DEF MadeReady
    <3>2. rows[p] \in Nat /\ Rows(c)[p] \in Nat /\ rows[p] <= Rows(c)[p]
      BY <3>1, RowsAre, StartAssumption DEF Kept
    <3>3. Rows(c)[p] > 0
      BY <3>1, <3>2
    <3>4. c.op = "contract" /\ c.arg \in {p, "all"}
      BY <3>1, <3>3, RowsAre
    <3> QED
      BY <2>3, <3>4 DEF Products
  <2>4. \A d \in calls' : Okx /\ d.op = "contract" => d.arg \notin product_ready'
    <3> SUFFICES ASSUME NEW d \in calls', Okx, d.op = "contract", d.arg \in product_ready' PROVE FALSE
      OBVIOUS
    <3>1. d \in calls /\ d # c /\ d.arg \notin product_ready /\ d = Call("contract", d.arg, 0)
      BY <2>1
    <3> QED
      BY <2>3, <3>1
  <2>5. Okx /\ product_ready' # Products => product_ready # Products
    BY <1>2, <2>1 DEF MadeReady
  <2>6. connected
    BY <2>1
  <2> QED
    BY <1>1, <1>4, <2>1, <2>2, <2>4, <2>5, <2>6
<1> QED
  BY <1>5, <1>6, <1>7, <1>8, <1>9, <1>10, <1>11 DEF StartStep

LEMMA StartMarket == StartInv /\ MarketStep => StartInv'
<1> SUFFICES ASSUME StartInv, MarketStep PROVE StartInv'
  OBVIOUS
<1>1. UNCHANGED <<given, connected, calls, contracts, product_ready, user, failed>>
  BY DEF MarketStep, Subscribe, OnConnected, Retry, OnDisconnected, BinanceOnPacket, OnTicker, OnDepth, Publish,
    VenueSubscribe, VenueQuotes, startVars
<1>2. line' = line \/ (line # "off" /\ line' \in {"down", "opening", "up"})
  BY DEF MarketStep, Subscribe, OnConnected, Retry, OnDisconnected, BinanceOnPacket, OnTicker, OnDepth, Publish,
    VenueSubscribe, VenueQuotes, startVars
<1> QED
  BY <1>1, <1>2 DEF StartInv, StartTypeOK, RequestsInv, Okx, given

\* The account: its requests are among those that are allowed, and its client is on.
LEMMA StartAccount ==
  StartInv /\ AccountTypeOK /\ AccountMoves => StartInv'
<1> SUFFICES ASSUME StartInv, AccountTypeOK, AccountMoves PROVE StartInv'
  OBVIOUS
<1> USE DEF StartInv, StartTypeOK, RequestsInv
<1>1. UNCHANGED <<adapter, keys, skewed, listed, connected, contracts, product_ready, line>>
  BY DEF AccountMoves, BooksStep, SettingsStep, SetSetting, RefuseLeverage, OnSetMode, OnSetLeverage, VenueAnswers,
    OnQueryBooks, QueryBooksFails, OnUserConnected, OnUserDisconnected, OnStartUserStream, OnReport, VenueChanges,
    startVars, restVars, given
<1>2. ASSUME calls' \subseteq calls, UNCHANGED <<user, failed>> PROVE StartInv'
  BY <1>1, <1>2 DEF Okx
<1>3. CASE RefuseLeverage \/ OnSetMode \/ OnSetLeverage \/ OnQueryBooks \/ OnReport \/ VenueChanges
  BY <1>2, <1>3 DEF RefuseLeverage, OnSetMode, OnSetLeverage, OnQueryBooks, OnReport, VenueChanges, startVars
<1>4. ASSUME NEW x \in Settings, NEW n \in 1 .. 2, SetSetting(x, n) PROVE StartInv'
  <2>1. connected /\ calls' = calls \cup {AskSetting(x, n)} /\ UNCHANGED <<user, failed>>
    BY <1>4 DEF SetSetting
  <2>2. AskSetting(x, n).op \in Settings /\ AskSetting(x, n).n = n
    BY <1>4 DEF AskSetting, AskMode, AskLeverage, Call, Settings
  <2> QED
    BY <1>1, <2>1, <2>2 DEF Okx, Settings, Books, Ops
<1>5. CASE VenueAnswers
  <2>1. PICK c \in calls : /\ c.op \in Books
                           /\ calls' = (calls \ {c}) \cup {Call(c.op, "answer", books[c.op])}
    BY <1>5 DEF VenueAnswers
  <2>2. UNCHANGED <<user, failed>>
    BY <1>5 DEF VenueAnswers
  <2>3. books[c.op] \in 0 .. MaxTrades
    BY <2>1 DEF AccountTypeOK
  <2> QED
    BY <1>1, <2>1, <2>2, <2>3 DEF Okx, Settings, Books, Ops, Call
<1>6. CASE QueryBooksFails
  <2>1. PICK c \in calls : c.op \in Books /\ calls' = calls \ {c} /\ failed' = failed \cup {c.op}
    BY <1>6 DEF QueryBooksFails
  <2> QED
    BY <1>1, <1>6, <2>1 DEF QueryBooksFails, Okx
<1>7. CASE OnUserConnected
  BY <1>1, <1>7 DEF OnUserConnected, Okx
<1>8. CASE OnUserDisconnected
  <2>1. user = "up" /\ user' = "down" /\ failed' = failed
        /\ calls' = IF Okx THEN calls ELSE calls \cup {Call("stream", "ask", 0)}
    BY <1>8 DEF OnUserDisconnected, AskStream
  <2> QED
    BY <1>1, <2>1 DEF Okx, Settings, Books, Ops, Call
<1>9. CASE OnStartUserStream
  <2>1. PICK c \in calls : c.op = "stream" /\ calls' = calls \ {c}
    BY <1>9 DEF OnStartUserStream
  <2>2. user' = "down" /\ failed' = failed /\ ~Okx /\ connected
    BY <1>9, <2>1 DEF OnStartUserStream, StartUser
  <2> QED
    BY <1>1, <2>1, <2>2 DEF Okx
<1> QED
  BY <1>3, <1>4, <1>5, <1>6, <1>7, <1>8, <1>9 DEF AccountMoves, BooksStep, SettingsStep
-------------------------------------------------------------------------------
\* Every number of the account's books and reports is of a change that there was.
AccountInv == AccountTypeOK /\ news \in Seq([Books -> 0 .. MaxTrades])

LEMMA AccountInvInit == Init => AccountInv
<1> SUFFICES ASSUME Init PROVE AccountInv
  OBVIOUS
<1>1. 0 \in 0 .. MaxTrades
  BY AccountAssumption
<1> QED
  BY <1>1 DEF Init, AccountInit, AccountInv, AccountTypeOK, NoBooks, Unset, Books, Settings

LEMMA AccountStart == StartInv /\ AccountInv /\ (StartStep \/ CallFails) /\ UNCHANGED accountVars => AccountInv'
<1> SUFFICES ASSUME StartInv, AccountInv, StartStep \/ CallFails, UNCHANGED accountVars PROVE AccountInv'
  OBVIOUS
<1>1. user' = user \/ user # "up"
  <2>1. CASE OkxQueryContract
    <3>1. PICK c \in calls : Okx /\ c.op = "contract"
      BY <2>1 DEF OkxQueryContract
    <3> QED
      BY <3>1 DEF StartInv, RequestsInv
  <2> QED
    BY <2>1 DEF StartStep, Connect, OkxConnect, BinanceConnect, BinanceStartClients, OkxQueryTime, BinanceQueryTime,
      BinanceQueryContract, OnQueryOrder, CallFails
<1>2. user' # "up" \/ user' = user
  BY <1>1 DEF StartStep, Connect, OkxConnect, BinanceConnect, BinanceStartClients, OkxQueryTime, BinanceQueryTime,
      OkxQueryContract, OkxStartClients, StartUser,
      BinanceQueryContract, OnQueryOrder, CallFails
<1> QED
  BY <1>1, <1>2 DEF AccountInv, AccountTypeOK, accountVars

LEMMA AccountMarket == AccountInv /\ MarketStep /\ UNCHANGED accountVars => AccountInv'
<1> SUFFICES ASSUME AccountInv, MarketStep, UNCHANGED accountVars PROVE AccountInv'
  OBVIOUS
<1>1. user' = user
  BY DEF MarketStep, Subscribe, OnConnected, Retry, OnDisconnected, BinanceOnPacket, OnTicker, OnDepth, Publish,
    VenueSubscribe, VenueQuotes, startVars
<1> QED
  BY <1>1 DEF AccountInv, AccountTypeOK, accountVars

LEMMA AccountStep == StartInv /\ AccountInv /\ AccountMoves => AccountInv'
<1> SUFFICES ASSUME StartInv, AccountInv, AccountMoves PROVE AccountInv'
  OBVIOUS
<1> USE DEF AccountInv, AccountTypeOK
<1>1. ASSUME NEW x \in Settings, NEW n \in 1 .. 2, SetSetting(x, n) PROVE AccountInv'
  <2>1. /\ copy' = [copy EXCEPT ![x] = n]
        /\ UNCHANGED <<user, account, told, books, news, overtaken, silent>>
    BY <1>1 DEF SetSetting
  <2> QED
    BY <1>1, <2>1
<1>2. CASE RefuseLeverage
  BY <1>2 DEF RefuseLeverage, startVars, accountVars
<1>3. CASE OnSetMode \/ OnSetLeverage
  <2>1. PICK c \in calls : c.op \in Settings /\ (Refused(c) \/ Taken(c))
    BY <1>3 DEF OnSetMode, OnSetLeverage, Settings
  <2>2. UNCHANGED <<user, copy, told, books, news, overtaken, silent>>
    BY <1>3 DEF OnSetMode, OnSetLeverage
  <2>3. c.n \in 1 .. 2
    BY <2>1 DEF StartInv, RequestsInv
  <2>4. account' \in [Settings -> 1 .. 2]
    BY <2>1, <2>3 DEF Refused, Taken
  <2> QED
    BY <2>2, <2>4
<1>4. CASE VenueAnswers
  <2>1. PICK c \in calls : c.op \in Books /\ silent' = [silent EXCEPT ![c.op] = @ \ {books[c.op]}]
    BY <1>4 DEF VenueAnswers
  <2> QED
    BY <1>4, <2>1 DEF VenueAnswers
<1>5. CASE OnQueryBooks
  <2>1. PICK c \in calls :
          /\ c.op \in Books /\ told' = [told EXCEPT ![c.op] = c.n]
          /\ overtaken' = IF c.n < told[c.op] THEN overtaken \cup {c.op} ELSE overtaken
    BY <1>5 DEF OnQueryBooks
  <2>2. c.n \in 0 .. MaxTrades
    BY <2>1 DEF StartInv, RequestsInv
  <2>3. UNCHANGED <<user, copy, account, books, news, silent>>
    BY <1>5 DEF OnQueryBooks
  <2>4. told' \in [Books -> 0 .. MaxTrades]
    BY <2>1, <2>2
  <2>5. overtaken' \subseteq Books
    BY <2>1
  <2> QED
    BY <2>3, <2>4, <2>5
<1>6. CASE QueryBooksFails
  BY <1>6 DEF QueryBooksFails, accountVars
<1>7. CASE OnUserConnected
  <2>1. <<books>> \in Seq([Books -> 0 .. MaxTrades])
    OBVIOUS
  <2> QED
    BY <1>7, <2>1 DEF OnUserConnected
<1>8. CASE OnUserDisconnected \/ OnStartUserStream
  <2>1. \A i \in DOMAIN news, x \in Books : news[i][x] \in 0 .. MaxTrades
    OBVIOUS
  <2>2. silent' = [x \in Books |-> silent[x] \cup {news[i][x] : i \in DOMAIN news}]
    BY <1>8 DEF OnUserDisconnected, OnStartUserStream, LoseReports
  <2>3. silent' \in [Books -> SUBSET (0 .. MaxTrades)]
    BY <2>1, <2>2
  <2>4. news' = <<>> /\ UNCHANGED <<copy, account, told, books, overtaken>>
    BY <1>8 DEF OnUserDisconnected, OnStartUserStream, LoseReports
  <2> QED
    BY <2>3, <2>4
<1>9. CASE OnReport
  <2>1. news # <<>> /\ news' = Tail(news)
        /\ told' = [x \in Books |-> IF x \in Reported(Head(news)) THEN Head(news)[x] ELSE told[x]]
        /\ overtaken' \subseteq overtaken
    BY <1>9 DEF OnReport
  <2>2. Head(news) \in [Books -> 0 .. MaxTrades] /\ Tail(news) \in Seq([Books -> 0 .. MaxTrades])
    BY <2>1
  <2>3. user = "up" /\ user' = user
    BY <1>9 DEF OnReport
  <2> QED
    BY <1>9, <2>1, <2>2, <2>3 DEF OnReport
<1>10. CASE VenueChanges
  <2>1. /\ books["account"] < MaxTrades /\ books' = [x \in Books |-> books["account"] + 1]
        /\ news' = IF user = "up" THEN Append(news, books') ELSE news
        /\ silent' = IF user = "up" THEN silent ELSE [x \in Books |-> silent[x] \cup {books'[x]}]
    BY <1>10 DEF VenueChanges
  <2>2. books["account"] + 1 \in 0 .. MaxTrades
    <3>1. books["account"] \in 0 .. MaxTrades
      BY DEF Books
    <3>2. MaxTrades \in Nat /\ books["account"] < MaxTrades
      BY <2>1, AccountAssumption
    <3> QED
      BY <3>1, <3>2
  <2>3. books' \in [Books -> 0 .. MaxTrades]
    <3> PICK n : n = books["account"] + 1
      OBVIOUS
    <3>1. n \in 0 .. MaxTrades /\ books' = [x \in Books |-> n]
      BY <2>1, <2>2
    <3> QED
      BY <3>1
  <2>4. news' \in Seq([Books -> 0 .. MaxTrades]) /\ silent' \in [Books -> SUBSET (0 .. MaxTrades)]
    BY <2>1, <2>3
  <2> QED
    BY <1>10, <2>1, <2>3, <2>4 DEF VenueChanges
<1> QED
  BY <1>1, <1>2, <1>3, <1>4, <1>5, <1>6, <1>7, <1>8, <1>9, <1>10 DEF AccountMoves, BooksStep, SettingsStep
-------------------------------------------------------------------------------
\* Symbols put in order to be sent are those symbols; one symbol is sent alone.
LEMMA SymbolsInOrder ==
  ASSUME NEW S, IsFiniteSet(S)
  PROVE  /\ SetToSeq(S) \in Seq(S)
         /\ \A x : S = {x} => SetToSeq(S) = <<x>>
<1>1. Cardinality(S) \in Nat /\ ExistsBijection(1 .. Cardinality(S), S)
  BY FS_CardinalityType
<1>2. \E f \in [1 .. Cardinality(S) -> S] : IsInjective(f)
  BY <1>1 DEF ExistsBijection, Bijection, Injection
<1>3. SetToSeq(S) \in [1 .. Cardinality(S) -> S]
  BY <1>2 DEF SetToSeq
<1>4. SetToSeq(S) \in Seq(S) /\ Len(SetToSeq(S)) = Cardinality(S)
  BY <1>1, <1>3
<1>5. ASSUME NEW x, S = {x} PROVE SetToSeq(S) = <<x>>
  <2>1. Cardinality(S) = 1
    BY <1>5, FS_Singleton
  <2>2. SetToSeq(S)[1] = x
    BY <1>3, <1>5, <2>1
  <2> QED
    BY <1>4, <2>1, <2>2
<1> QED
  BY <1>4, <1>5

\* Each message from the venue is of a symbol that was asked for, with a number that
\* was quoted.
Messages == [channel : Channels, s : Wanted, n : 0 .. MaxQuotes]

MarketTypes ==
  /\ MarketTypeOK
  /\ up \in Seq(Wanted) /\ \A k \in DOMAIN up : up[k] \in subscribed
  /\ down \in Seq(Messages) /\ \A k \in DOMAIN down : down[k].s \in subscribed
  /\ quotes \in [Wanted -> Tick]

LEMMA MarketTypesInit == Init => MarketTypes
<1> SUFFICES ASSUME Init PROVE MarketTypes
  OBVIOUS
<1>1. 1 \in 0 .. MaxQuotes
  BY MarketAssumption
<1>2. [channel \in Channels |-> 1] \in Tick
  BY <1>1 DEF Tick
<1> QED
  BY <1>2 DEF Init, MarketInit, MarketTypes, MarketTypeOK

LEMMA MarketTypesStart == StartInv /\ MarketTypes /\ (StartStep \/ CallFails) /\ UNCHANGED marketVars => MarketTypes'
<1> SUFFICES ASSUME StartInv, MarketTypes, StartStep \/ CallFails, UNCHANGED marketVars PROVE MarketTypes'
  OBVIOUS
<1>1. line' # "up" \/ line' = line
  BY DEF StartStep, Connect, OkxConnect, BinanceConnect, BinanceStartClients, OkxQueryTime, BinanceQueryTime,
      OkxQueryContract, OkxStartClients, StartLine,
      BinanceQueryContract, OnQueryOrder, CallFails
<1>2. line' = line \/ line = "off"
  <2>1. CASE OkxQueryContract
    <3>1. PICK c \in calls : Okx /\ c.op = "contract"
      BY <2>1 DEF OkxQueryContract
    <3> QED
      BY <3>1 DEF StartInv, RequestsInv
  <2>2. CASE Connect
    BY <2>2 DEF Connect, StartInv, RequestsInv
  <2> QED
    BY <2>1, <2>2 DEF StartStep, OkxQueryTime, BinanceQueryTime, BinanceQueryContract, OnQueryOrder,
      CallFails
<1> QED
  BY <1>1, <1>2 DEF MarketTypes, MarketTypeOK, marketVars

LEMMA MarketTypesAccount == MarketTypes /\ AccountMoves /\ UNCHANGED marketVars => MarketTypes'
<1> SUFFICES ASSUME MarketTypes, AccountMoves, UNCHANGED marketVars PROVE MarketTypes'
  OBVIOUS
<1>1. line' = line
  BY DEF AccountMoves, BooksStep, SettingsStep, SetSetting, RefuseLeverage, OnSetMode, OnSetLeverage, VenueAnswers,
    OnQueryBooks, QueryBooksFails, OnUserConnected, OnUserDisconnected, OnStartUserStream, OnReport, VenueChanges,
    startVars, restVars
<1> QED
  BY <1>1 DEF MarketTypes, MarketTypeOK, marketVars

\* Symbols are subscribed: those that are new start with a tick that nobody quoted.
LEMMA SubscribeTypes ==
  ASSUME MarketTypes, NEW ss \in SUBSET Wanted, SubscribeAll(ss), line' = line \/ line' = "up",
         UNCHANGED <<published, down, streams, quotes>>
  PROVE  MarketTypes'
<1>1. IsFiniteSet(Products)
  <2>1. Products = (({} \cup {"SWAP"}) \cup {"SPOT"}) \cup {"FUTURES"}
    BY DEF Products
  <2> QED
    BY <2>1, FS_EmptySet, FS_AddElement
<1>2. \A S \in SUBSET Wanted : IsFiniteSet(S)
  BY <1>1, FS_Subset, MarketAssumption
<1>3. NewTick \in Tick
  BY MarketAssumption DEF NewTick, Tick
<1>4. PICK S \in SUBSET ss :
        /\ subscribed' = subscribed \cup S
        /\ ticks' = [t \in DOMAIN ticks \cup S |-> IF t \in S THEN NewTick ELSE ticks[t]]
        /\ up' = Sent(S)
        /\ unsent' \subseteq unsent \cup S
        /\ Okx => S = ss
        /\ ~Okx => S = ss \ DOMAIN ticks
  BY DEF SubscribeAll, OkxSubscribe, BinanceSubscribe
<1>5. SetToSeq(S) \in Seq(S) /\ S \subseteq Wanted
  BY <1>2, SymbolsInOrder
<1>6. up' \in Seq(Wanted) /\ \A k \in DOMAIN up' : up'[k] \in subscribed'
  <2>1. CASE line' = "up"
    <3>1. up' = up \o SetToSeq(S)
      BY <1>4, <2>1 DEF Sent
    <3>2. \A k \in DOMAIN SetToSeq(S) : SetToSeq(S)[k] \in S
      BY <1>5
    <3>3. SetToSeq(S) \in Seq(Wanted)
      BY <1>5, <3>2
    <3> DEFINE q == SetToSeq(S)
    <3> HIDE DEF q
    <3>4. up' = up \o q /\ q \in Seq(Wanted) /\ \A k \in DOMAIN q : q[k] \in S
      BY <3>1, <3>2, <3>3 DEF q
    <3> QED
      BY <1>4, <3>4 DEF MarketTypes
  <2>2. CASE line' # "up"
    BY <1>4, <2>2 DEF Sent, MarketTypes
  <2> QED
    BY <2>1, <2>2
<1>7. line' # "up" => up' = <<>> /\ down' = <<>> /\ streams' = {}
  BY <1>4 DEF Sent, MarketTypes, MarketTypeOK
<1>8. \A s \in subscribed' : ticks'[s] \in Tick
  BY <1>3, <1>4 DEF MarketTypes, MarketTypeOK
<1> QED
  BY <1>4, <1>5, <1>6, <1>7, <1>8 DEF MarketTypes, MarketTypeOK

LEMMA PublishTypes ==
  ASSUME MarketTypes, down # <<>>, NEW channel \in Channels, Head(down).channel = channel,
         Publish(Head(down).s, [ticks[Head(down).s] EXCEPT ![channel] = Head(down).n])
  PROVE  MarketTypes'
<1>1. Head(down) \in Messages /\ Head(down).s \in subscribed /\ Head(down) = down[1]
  BY DEF MarketTypes
<1>2. [ticks[Head(down).s] EXCEPT ![channel] = Head(down).n] \in Tick
  BY <1>1 DEF MarketTypes, MarketTypeOK, Tick, Messages
<1>3. /\ down' = Tail(down)
      /\ ticks' = Set(ticks, Head(down).s, [ticks[Head(down).s] EXCEPT ![channel] = Head(down).n])
      /\ published' = Set(published, Head(down).s, [ticks[Head(down).s] EXCEPT ![channel] = Head(down).n])
      /\ UNCHANGED <<line, subscribed, up, streams, quotes, unsent>>
  BY DEF Publish, startVars
<1>4. down' \in Seq(Messages) /\ \A k \in DOMAIN down' : down'[k].s \in subscribed
  BY <1>3 DEF MarketTypes
<1>5. line # "up" => down' = <<>>
  BY DEF MarketTypes, MarketTypeOK
<1> QED
  BY <1>1, <1>2, <1>3, <1>4, <1>5 DEF MarketTypes, MarketTypeOK, Set

\* What one step of the line and its channels does to what is kept of them.
LEMMA MarketTypesStep == ContractsInv /\ StartInv /\ MarketTypes /\ MarketStep => MarketTypes'
<1> SUFFICES ASSUME ContractsInv, StartInv, MarketTypes, MarketStep PROVE MarketTypes'
  OBVIOUS
<1>1. ASSUME NEW s \in Wanted, Subscribe(s) PROVE MarketTypes'
  BY <1>1, SubscribeTypes DEF Subscribe
<1>2. CASE OnConnected
  <2>1. subscribed \in SUBSET Wanted
    BY DEF MarketTypes, MarketTypeOK
  <2> QED
    BY <1>2, <2>1, SubscribeTypes DEF OnConnected
<1>3. CASE Retry
  BY <1>3 DEF Retry, MarketTypes, MarketTypeOK, marketVars
<1>4. CASE OnDisconnected
  BY <1>4 DEF OnDisconnected, MarketTypes, MarketTypeOK
<1>5. CASE BinanceOnPacket
  BY <1>5, PublishTypes DEF BinanceOnPacket, Received
<1>6. CASE OnTicker
  BY <1>6, PublishTypes DEF OnTicker, Received, Channels
<1>7. CASE OnDepth
  BY <1>7, PublishTypes DEF OnDepth, Received, Channels
<1>8. CASE VenueSubscribe
  <2> DEFINE s == Head(up)
             push(channel) == [channel |-> channel, s |-> s, n |-> quotes[s][channel]]
  <2>1. PICK first \in Channels, second \in Channels : down' = down \o <<push(first), push(second)>>
    BY <1>8 DEF VenueSubscribe
  <2>2. s \in Wanted /\ s \in subscribed
    BY <1>8 DEF VenueSubscribe, MarketTypes
  <2>3. push(first) \in Messages /\ push(second) \in Messages
    BY <2>2 DEF MarketTypes, Tick, Messages
  <2>4. streams' = streams \cup {s} /\ up' = Tail(up) /\ line = "up"
        /\ UNCHANGED <<line, subscribed, ticks, published, quotes, unsent>>
    BY <1>8 DEF VenueSubscribe, startVars
  <2>5. push(first).s = s /\ push(second).s = s
    OBVIOUS
  <2> DEFINE a == push(first)
             b == push(second)
  <2>6. down' = down \o <<a, b>> /\ a \in Messages /\ b \in Messages /\ a.s \in subscribed /\ b.s \in subscribed
    BY <2>1, <2>2, <2>3, <2>5
  <2> HIDE DEF a, b
  <2>7. down' \in Seq(Messages) /\ \A k \in DOMAIN down' : down'[k].s \in subscribed
    BY <2>6 DEF MarketTypes
  <2>8. up' \in Seq(Wanted) /\ \A k \in DOMAIN up' : up'[k] \in subscribed
    BY <1>8, <2>4 DEF VenueSubscribe, MarketTypes
  <2> QED
    BY <2>2, <2>4, <2>7, <2>8 DEF MarketTypes, MarketTypeOK
<1>9. ASSUME NEW s \in Wanted, NEW channel \in Channels, VenueQuotes(s, channel) PROVE MarketTypes'
  <2> DEFINE m == [channel |-> channel, s |-> s, n |-> quotes[s][channel] + 1]
  <2>1. /\ quotes[s][channel] < MaxQuotes
        /\ quotes' = [quotes EXCEPT ![s][channel] = @ + 1]
        /\ down' = IF s \notin streams THEN down ELSE Append(down, m)
        /\ UNCHANGED <<line, subscribed, ticks, published, up, streams, unsent>>
    BY <1>9 DEF VenueQuotes, startVars
  <2>2. quotes[s] \in Tick /\ quotes[s][channel] \in 0 .. MaxQuotes
    BY <1>9 DEF MarketTypes, Tick
  <2>3. quotes[s][channel] + 1 \in 0 .. MaxQuotes
    BY <2>1, <2>2, MarketAssumption
  <2>4. quotes' = [quotes EXCEPT ![s] = [quotes[s] EXCEPT ![channel] = quotes[s][channel] + 1]]
    BY <2>1
  <2>5. quotes' \in [Wanted -> Tick]
    BY <1>9, <2>2, <2>3, <2>4 DEF MarketTypes, Tick
  <2>6. m \in Messages /\ m.s = s
    BY <2>3 DEF Messages
  <2> HIDE DEF m
  <2>7. line # "up" => down' = <<>>
    BY <2>1 DEF MarketTypes, MarketTypeOK
  <2>8. down' \in Seq(Messages) /\ \A k \in DOMAIN down' : down'[k].s \in subscribed
    BY <2>1, <2>6 DEF MarketTypes, MarketTypeOK
  <2> QED
    BY <2>1, <2>5, <2>7, <2>8 DEF MarketTypes, MarketTypeOK
<1> QED
  BY <1>1, <1>2, <1>3, <1>4, <1>5, <1>6, <1>7, <1>8, <1>9 DEF MarketStep

\* What the run's type invariant says, with the facts that make it inductive.
TypesInv == ContractsInv /\ StartInv /\ AccountInv /\ MarketTypes

LEMMA TypesInit == Init => TypesInv
BY ContractsInit, StartInvInit, AccountInvInit, MarketTypesInit DEF TypesInv

LEMMA TypesNext == TypesInv /\ [Next]_vars => TypesInv'
<1>1. TypesInv /\ UNCHANGED vars => TypesInv'
  <2> SUFFICES ASSUME TypesInv, UNCHANGED vars PROVE TypesInv'
    OBVIOUS
  <2> USE DEF TypesInv, vars, startVars, given, marketVars, accountVars
  <2>1. ContractsInv'
    BY DEF ContractsInv, Furnished, Okx
  <2>2. StartTypeOK'
    BY DEF StartInv, StartTypeOK
  <2>3. RequestsInv'
    BY DEF StartInv, RequestsInv, Okx
  <2>4. AccountInv'
    BY DEF AccountInv, AccountTypeOK
  <2>5. MarketTypes'
    BY DEF MarketTypes, MarketTypeOK
  <2> QED
    BY <2>1, <2>2, <2>3, <2>4, <2>5 DEF StartInv
<1>2. TypesInv /\ (StartStep \/ CallFails) /\ UNCHANGED <<marketVars, accountVars>> => TypesInv'
  BY ContractsStart, StartKeeps, AccountStart, MarketTypesStart DEF TypesInv
<1>3. TypesInv /\ MarketStep /\ UNCHANGED accountVars => TypesInv'
  BY ContractsMarket, StartMarket, AccountMarket, MarketTypesStep DEF TypesInv
<1>4. TypesInv /\ AccountMoves /\ UNCHANGED marketVars => TypesInv'
  BY ContractsAccount, StartAccount, AccountStep, MarketTypesAccount DEF TypesInv, AccountInv
<1> QED
  BY <1>1, <1>2, <1>3, <1>4 DEF Next, OfStart, OfMarket, OfAccount, AccountMoves

\* Whatever answers fail or come late, and at whichever row a handler throws, what the
\* adapter keeps is of its type (a client that is started was off, an answer's numbers
\* are those that were asked for), and OKX trades only with contracts of each of its
\* products, all of them unless the handler of that product's answer threw.
THEOREM StartIsSound == Spec => []StartSound
<1>1. TypesInv => StartSound
  BY DEF TypesInv, ContractsInv, Furnished, StartInv, AccountInv, MarketTypes, StartSound, TypeOK, ContractsFirst
<1> QED
  BY <1>1, TypesInit, TypesNext, PTL DEF Spec
-------------------------------------------------------------------------------
\* The two channels of a symbol are queues: the newest message of a channel, or its
\* half of the tick if there is none, is the venue's quotation, and the tick was put
\* on the bus when its last message was handled.  Until the answer to a request
\* nothing is said of its symbol.
Of(m, s, channel) == m.s = s /\ m.channel = channel
Newest(k) == \A j \in DOMAIN down : j > k => ~Of(down[j], down[k].s, down[k].channel)

HalfCurrent(s, channel) ==
  /\ \A k \in DOMAIN down : Of(down[k], s, channel) /\ Newest(k) => down[k].n = quotes[s][channel]
  /\ (\A k \in DOMAIN down : ~Of(down[k], s, channel)) => ticks[s][channel] = quotes[s][channel]

Current(s) ==
  /\ \A channel \in Channels : HalfCurrent(s, channel)
  /\ (\A k \in DOMAIN down : down[k].s # s) => s \in DOMAIN published /\ published[s] = ticks[s]

Awaited(s) == \E k \in DOMAIN up : up[k] = s

StreamsInv == \A s \in streams : Awaited(s) \/ Current(s)

LEMMA StreamsInvInit == Init => StreamsInv
BY DEF Init, MarketInit, StreamsInv

\* The handler of a message: its half of the tick is what the message has.
LEMMA PublishKeeps ==
  ASSUME MarketTypes, StreamsInv, line = "up", down # <<>>, NEW channel \in Channels, Head(down).channel = channel,
         Publish(Head(down).s, [ticks[Head(down).s] EXCEPT ![channel] = Head(down).n])
  PROVE  StreamsInv'
<1> DEFINE m == Head(down)
<1>1. m \in Messages /\ m.s \in subscribed /\ m = down[1] /\ m.channel = channel
  BY DEF MarketTypes
<1>2. /\ down' = Tail(down)
      /\ ticks' = Set(ticks, m.s, [ticks[m.s] EXCEPT ![channel] = m.n])
      /\ published' = Set(published, m.s, [ticks[m.s] EXCEPT ![channel] = m.n])
      /\ UNCHANGED <<line, subscribed, up, streams, quotes, unsent>>
  BY DEF Publish, startVars
<1> HIDE DEF m
<1>3. /\ Len(down) \in Nat /\ Len(down) > 0
      /\ DOMAIN down' = 1 .. Len(down) - 1 /\ DOMAIN down = 1 .. Len(down)
      /\ \A k \in DOMAIN down' : down'[k] = down[k + 1]
  BY <1>2 DEF MarketTypes
<1>4. m.s \in DOMAIN ticks /\ ticks[m.s] \in [Channels -> 0 .. MaxQuotes]
  BY <1>1 DEF MarketTypes, MarketTypeOK, Tick
<1>5. ASSUME NEW s \in streams, Current(s) PROVE Current(s)'
  <2>1. s \in DOMAIN ticks
    BY <1>5 DEF MarketTypes, MarketTypeOK
  <2>2. ASSUME NEW half \in Channels PROVE HalfCurrent(s, half)'
    <3>1. HalfCurrent(s, half)
      BY <1>5, <2>2 DEF Current
    <3>2. ASSUME NEW k \in DOMAIN down', Of(down'[k], s, half), Newest(k)' PROVE down'[k].n = quotes'[s][half]
      <4>1. k + 1 \in DOMAIN down /\ down[k + 1] = down'[k]
        BY <1>3, <3>2
      <4>2. ASSUME NEW j \in DOMAIN down, j > k + 1 PROVE ~Of(down[j], down[k + 1].s, down[k + 1].channel)
        <5>1. j - 1 \in DOMAIN down' /\ j - 1 > k /\ down'[j - 1] = down[j]
          BY <1>3, <3>2, <4>2
        <5> QED
          BY <3>2, <4>1, <5>1 DEF Newest
      <4> QED
        BY <1>2, <3>1, <3>2, <4>1, <4>2 DEF HalfCurrent, Newest
    <3>3. ASSUME \A k \in DOMAIN down' : ~Of(down'[k], s, half) PROVE ticks'[s][half] = quotes'[s][half]
      <4>1. ASSUME NEW j \in DOMAIN down, j # 1 PROVE ~Of(down[j], s, half)
        <5>1. j - 1 \in DOMAIN down' /\ down'[j - 1] = down[j]
          BY <1>3, <4>1
        <5> QED
          BY <3>3, <5>1
      <4>2. CASE Of(m, s, half)
        <5>1. 1 \in DOMAIN down /\ Newest(1) /\ m.n = quotes[s][half]
          BY <1>1, <1>3, <3>1, <4>1, <4>2 DEF HalfCurrent, Newest, Of
        <5>2. ticks'[s][half] = m.n
          BY <1>1, <1>2, <1>4, <4>2 DEF Of, Set
        <5> QED
          BY <1>2, <5>1, <5>2
      <4>3. CASE ~Of(m, s, half)
        <5>1. ticks[s][half] = quotes[s][half]
          BY <1>1, <1>3, <3>1, <4>1, <4>3 DEF HalfCurrent
        <5>2. ticks'[s][half] = ticks[s][half]
          BY <1>1, <1>2, <1>4, <2>1, <4>3 DEF Of, Set
        <5> QED
          BY <1>2, <5>1, <5>2
      <4> QED
        BY <4>2, <4>3
    <3> QED
      BY <3>2, <3>3 DEF HalfCurrent
  <2>3. ASSUME \A k \in DOMAIN down' : down'[k].s # s PROVE s \in DOMAIN published' /\ published'[s] = ticks'[s]
    <3>1. CASE m.s = s
      BY <1>2, <2>1, <3>1 DEF Set
    <3>2. CASE m.s # s
      <4>1. ASSUME NEW j \in DOMAIN down PROVE down[j].s # s
        <5>1. CASE j = 1
          BY <1>1, <3>2, <5>1
        <5>2. CASE j # 1
          <6>1. j - 1 \in DOMAIN down' /\ down'[j - 1] = down[j]
            BY <1>3, <4>1, <5>2
          <6> QED
            BY <2>3, <6>1
        <5> QED
          BY <5>1, <5>2
      <4>2. s \in DOMAIN published /\ published[s] = ticks[s]
        BY <1>5, <4>1 DEF Current
      <4> QED
        BY <1>2, <2>1, <3>2, <4>2 DEF Set
    <3> QED
      BY <3>1, <3>2
  <2> QED
    BY <2>2, <2>3 DEF Current
<1> QED
  BY <1>2, <1>5 DEF StreamsInv, Awaited

\* A subscription: on a line that streams, only OKX starts the tick of a streamed
\* symbol anew, and the request for it is on its way.
LEMMA SubscribeKeeps ==
  ASSUME MarketTypes, StreamsInv, NEW s \in Wanted, Subscribe(s)
  PROVE  StreamsInv'
<1> SUFFICES ASSUME NEW t \in streams PROVE (Awaited(t) \/ Current(t))'
  BY DEF StreamsInv, Subscribe
<1>1. line = "up" /\ line' = "up" /\ t \in DOMAIN ticks
  BY DEF MarketTypes, MarketTypeOK, Subscribe
<1>2. PICK S \in SUBSET {s} :
        /\ ticks' = [u \in DOMAIN ticks \cup S |-> IF u \in S THEN NewTick ELSE ticks[u]]
        /\ up' = up \o SetToSeq(S)
        /\ Okx => S = {s}
        /\ ~Okx => S = {s} \ DOMAIN ticks
  BY <1>1 DEF Subscribe, SubscribeAll, OkxSubscribe, BinanceSubscribe, Sent
<1>3. UNCHANGED <<published, down, streams, quotes>>
  BY DEF Subscribe
<1>4. S = {} \/ S = {s}
  OBVIOUS
<1>5. IsFiniteSet(S)
  <2>1. IsFiniteSet({}) /\ IsFiniteSet({s})
    BY FS_EmptySet, FS_Singleton
  <2> QED
    BY <1>4, <2>1
<1>6. SetToSeq(S) \in Seq(S) /\ (S = {s} => SetToSeq(S) = <<s>>)
  BY <1>5, SymbolsInOrder
<1>7. CASE t \in S
  <2>1. t = s /\ SetToSeq(S) = <<s>> /\ up \in Seq(Wanted)
    BY <1>4, <1>6, <1>7 DEF MarketTypes
  <2>2. up' = up \o <<t>>
    BY <1>2, <2>1
  <2>3. up'[Len(up) + 1] = t /\ Len(up) + 1 \in DOMAIN up'
    BY <2>1, <2>2
  <2> QED
    BY <2>3 DEF Awaited
<1>8. CASE t \notin S
  <2> DEFINE q == SetToSeq(S)
  <2>1. up' = up \o q /\ q \in Seq(S) /\ up \in Seq(Wanted)
    BY <1>2, <1>6 DEF MarketTypes
  <2> HIDE DEF q
  <2>2. Awaited(t) => Awaited(t)'
    BY <2>1 DEF Awaited
  <2>3. ticks'[t] = ticks[t]
    BY <1>1, <1>2, <1>8
  <2>4. Current(t) => Current(t)'
    BY <1>3, <2>3 DEF Current, HalfCurrent, Newest
  <2> QED
    BY <2>2, <2>4 DEF StreamsInv
<1> QED
  BY <1>7, <1>8

\* The venue answers a request with the latest of both channels.
LEMMA AnswerIsCurrent == ASSUME MarketTypes, StreamsInv, VenueSubscribe PROVE StreamsInv'
<1>0. PICK s \in Wanted : s = Head(up)
  BY DEF VenueSubscribe, MarketTypes
<1>1. PICK first \in Channels, second \in Channels :
        /\ first # second
        /\ down' = down \o <<[channel |-> first, s |-> s, n |-> quotes[s][first]],
                             [channel |-> second, s |-> s, n |-> quotes[s][second]]>>
  BY <1>0 DEF VenueSubscribe
<1>2. streams' = streams \cup {s} /\ up' = Tail(up) /\ up # <<>> /\ UNCHANGED <<ticks, published, quotes>>
  BY <1>0 DEF VenueSubscribe
<1> DEFINE a == [channel |-> first, s |-> s, n |-> quotes[s][first]]
           b == [channel |-> second, s |-> s, n |-> quotes[s][second]]
<1>3. /\ down' = down \o <<a, b>>
      /\ a.channel = first /\ a.s = s /\ a.n = quotes[s][first]
      /\ b.channel = second /\ b.s = s /\ b.n = quotes[s][second]
      /\ Channels = {first, second} /\ first # second
  BY <1>1 DEF Channels
<1> HIDE DEF a, b
<1>4. down \in Seq(Messages) /\ up \in Seq(Wanted) /\ s = up[1]
  BY <1>0, <1>2 DEF MarketTypes
<1>5. /\ Len(down) \in Nat
      /\ DOMAIN down = 1 .. Len(down) /\ DOMAIN down' = 1 .. Len(down) + 2
      /\ \A k \in DOMAIN down : down'[k] = down[k]
      /\ down'[Len(down) + 1] = a /\ down'[Len(down) + 2] = b
  BY <1>3, <1>4
<1>6. Current(s)'
  <2>1. ASSUME NEW half \in Channels PROVE HalfCurrent(s, half)'
    <3>1. \E k \in DOMAIN down' : Of(down'[k], s, half)
      <4>1. Len(down) + 1 \in DOMAIN down' /\ Len(down) + 2 \in DOMAIN down'
        BY <1>5
      <4> QED
        BY <1>3, <1>5, <2>1, <4>1 DEF Of
    <3>2. ASSUME NEW k \in DOMAIN down', Of(down'[k], s, half), Newest(k)' PROVE down'[k].n = quotes'[s][half]
      <4>1. CASE k = Len(down) + 1
        BY <1>2, <1>3, <1>5, <3>2, <4>1 DEF Of
      <4>2. CASE k = Len(down) + 2
        BY <1>2, <1>3, <1>5, <3>2, <4>2 DEF Of
      <4>3. CASE k \in DOMAIN down
        <5>1. ~Of(a, s, half) /\ ~Of(b, s, half)
          BY <1>5, <3>2, <4>3 DEF Newest, Of
        <5> QED
          BY <1>3, <5>1 DEF Of
      <4> QED
        BY <1>5, <3>2, <4>1, <4>2, <4>3
    <3> QED
      BY <3>1, <3>2 DEF HalfCurrent
  <2>2. \E k \in DOMAIN down' : down'[k].s = s
    <3>1. Len(down) + 1 \in DOMAIN down'
      BY <1>5
    <3>2. down'[Len(down) + 1].s = s
      BY <1>3, <1>5
    <3> QED
      BY <3>1, <3>2
  <2> QED
    BY <2>1, <2>2 DEF Current
<1>7. ASSUME NEW t \in streams, t # s PROVE (Awaited(t) \/ Current(t))'
  <2>1. CASE Awaited(t)
    <3>1. PICK k \in DOMAIN up : up[k] = t
      BY <2>1 DEF Awaited
    <3>2. k - 1 \in DOMAIN up' /\ up'[k - 1] = t
      BY <1>2, <1>4, <1>7, <3>1
    <3> QED
      BY <3>2 DEF Awaited
  <2>2. CASE Current(t)
    <3>1. ASSUME NEW half \in Channels PROVE HalfCurrent(t, half)'
      <4>1. \A k \in DOMAIN down' : Of(down'[k], t, half) => k \in DOMAIN down
        BY <1>3, <1>5, <1>7 DEF Of
      <4>2. \A k \in DOMAIN down : Newest(k)' => Newest(k)
        BY <1>5 DEF Newest
      <4> QED
        BY <1>2, <1>5, <2>2, <3>1, <4>1, <4>2 DEF HalfCurrent, Current
    <3>2. (\A k \in DOMAIN down' : down'[k].s # t) => (\A k \in DOMAIN down : down[k].s # t)
      BY <1>5
    <3> QED
      BY <1>2, <2>2, <3>1, <3>2 DEF Current
  <2> QED
    BY <1>7, <2>1, <2>2 DEF StreamsInv
<1> QED
  BY <1>2, <1>6, <1>7 DEF StreamsInv

\* A quotation of a symbol that is streamed is its channel's newest message.
LEMMA QuoteIsCurrent ==
  ASSUME MarketTypes, StreamsInv, NEW s \in Wanted, NEW channel \in Channels, VenueQuotes(s, channel)
  PROVE  StreamsInv'
<1> DEFINE m == [channel |-> channel, s |-> s, n |-> quotes[s][channel] + 1]
<1>1. /\ quotes' = [quotes EXCEPT ![s][channel] = @ + 1]
      /\ down' = IF s \notin streams THEN down ELSE Append(down, m)
      /\ UNCHANGED <<ticks, published, up, streams>>
  BY DEF VenueQuotes
<1>2. m.channel = channel /\ m.s = s /\ m.n = quotes[s][channel] + 1
  OBVIOUS
<1> HIDE DEF m
<1>3. /\ quotes'[s][channel] = quotes[s][channel] + 1
      /\ \A t \in Wanted, half \in Channels : t # s \/ half # channel => quotes'[t][half] = quotes[t][half]
  BY <1>1 DEF MarketTypes, Tick
<1>4. streams \subseteq Wanted
  BY DEF MarketTypes, MarketTypeOK
<1>5. ASSUME NEW t \in streams, Current(t) PROVE Current(t)'
  <2>1. CASE s \notin streams
    BY <1>1, <1>3, <1>4, <1>5, <2>1 DEF Current, HalfCurrent, Newest
  <2>2. CASE s \in streams
    <3>1. /\ Len(down) \in Nat
          /\ DOMAIN down = 1 .. Len(down) /\ DOMAIN down' = 1 .. Len(down) + 1
          /\ \A k \in DOMAIN down : down'[k] = down[k]
          /\ down'[Len(down) + 1] = m
      BY <1>1, <2>2 DEF MarketTypes
    <3>2. ASSUME NEW half \in Channels PROVE HalfCurrent(t, half)'
      <4>1. CASE t = s /\ half = channel
        <5>1. Len(down) + 1 \in DOMAIN down' /\ Of(down'[Len(down) + 1], t, half)
          BY <1>2, <3>1, <4>1 DEF Of
        <5>2. ASSUME NEW k \in DOMAIN down', Of(down'[k], t, half), Newest(k)' PROVE k = Len(down) + 1
          <6>1. CASE k < Len(down) + 1
            BY <3>1, <5>1, <5>2, <6>1 DEF Newest, Of
          <6> QED
            BY <3>1, <5>2, <6>1
        <5> QED
          BY <1>2, <1>3, <3>1, <4>1, <5>1, <5>2 DEF HalfCurrent
      <4>2. CASE ~(t = s /\ half = channel)
        <5>1. \A k \in DOMAIN down' : Of(down'[k], t, half) => k \in DOMAIN down
          BY <1>2, <3>1, <4>2 DEF Of
        <5>2. \A k \in DOMAIN down : Newest(k)' => Newest(k)
          BY <3>1 DEF Newest
        <5>3. quotes'[t][half] = quotes[t][half]
          BY <1>3, <1>4, <3>2, <4>2
        <5> QED
          BY <1>1, <1>5, <3>1, <3>2, <5>1, <5>2, <5>3 DEF HalfCurrent, Current
      <4> QED
        BY <4>1, <4>2
    <3>3. (\A k \in DOMAIN down' : down'[k].s # t) => (\A k \in DOMAIN down : down[k].s # t)
      BY <3>1
    <3> QED
      BY <1>1, <1>5, <3>2, <3>3 DEF Current
  <2> QED
    BY <2>1, <2>2
<1> QED
  BY <1>1, <1>5 DEF StreamsInv, Awaited

LEMMA StreamsMarket == MarketTypes /\ StreamsInv /\ MarketStep => StreamsInv'
<1> SUFFICES ASSUME MarketTypes, StreamsInv, MarketStep PROVE StreamsInv'
  OBVIOUS
<1>1. CASE OnConnected \/ OnDisconnected
  <2>1. streams' = {}
    BY <1>1 DEF OnConnected, OnDisconnected, MarketTypes, MarketTypeOK
  <2> QED
    BY <2>1 DEF StreamsInv
<1>2. CASE Retry
  BY <1>2 DEF Retry, marketVars, StreamsInv, Awaited, Current, HalfCurrent, Newest
<1>3. CASE BinanceOnPacket
  BY <1>3, PublishKeeps DEF BinanceOnPacket, Received
<1>4. CASE OnTicker
  BY <1>4, PublishKeeps DEF OnTicker, Received, Channels
<1>5. CASE OnDepth
  BY <1>5, PublishKeeps DEF OnDepth, Received, Channels
<1> QED
  BY <1>1, <1>2, <1>3, <1>4, <1>5, SubscribeKeeps, AnswerIsCurrent, QuoteIsCurrent DEF MarketStep

LEMMA StreamsNext == TypesInv /\ StreamsInv /\ [Next]_vars => StreamsInv'
<1>1. StreamsInv /\ UNCHANGED marketVars => StreamsInv'
  BY DEF marketVars, StreamsInv, Awaited, Current, HalfCurrent, Newest
<1> QED
  BY <1>1, StreamsMarket DEF TypesInv, Next, OfStart, OfMarket, OfAccount, vars

\* However quotations, requests, their answers, handlers and losses of the line
\* interleave, and although two channels fill a tick, the tick that the bus has last
\* of a streamed symbol is the venue's whole quotation once nothing is in flight.
THEOREM TicksAreCurrent == Spec => []TickCurrent
<1>1. TypesInv /\ StreamsInv => TickCurrent
  <2> SUFFICES ASSUME TypesInv, StreamsInv, line = "up", up = <<>>, down = <<>>, NEW s \in streams
               PROVE  ticks[s] = quotes[s] /\ published[s] = quotes[s]
    BY DEF TickCurrent
  <2>1. DOMAIN up = {} /\ DOMAIN down = {}
    OBVIOUS
  <2>2. Current(s)
    BY <2>1 DEF StreamsInv, Awaited
  <2>3. ticks[s] \in Tick /\ quotes[s] \in Tick
    BY DEF TypesInv, MarketTypes, MarketTypeOK
  <2>4. \A channel \in Channels : ticks[s][channel] = quotes[s][channel]
    BY <2>1, <2>2 DEF Current, HalfCurrent
  <2>5. ticks[s] = quotes[s]
    BY <2>3, <2>4 DEF Tick
  <2> QED
    BY <2>1, <2>2, <2>5 DEF Current
<1> QED
  BY <1>1, TypesInit, TypesNext, StreamsInvInit, StreamsNext, PTL DEF Spec
-------------------------------------------------------------------------------
\* Why the bus may not know a book of Binance: OKX reports every book again whenever
\* its client is up.
Explained(x) ==
  \/ told[x] = books[x]
  \/ x = "position" /\ account["mode"] = Hedge
  \/ x \in failed \cup overtaken
  \/ books[x] \in silent[x]
  \/ x = "account" /\ books[x] \in empty
  \/ \E c \in calls : c.op = x /\ c.arg = "answer" /\ c.n = books[x]

\* Nothing is told, reported or answered that is newer than the books, and the newest
\* report has them as they are.
BooksInv ==
  /\ books["position"] = books["account"]
  /\ \A x \in Books : told[x] <= books[x]
  /\ \A c \in calls : c.op \in Books => c.n <= books[c.op]
  /\ \A k \in DOMAIN news, x \in Books : news[k][x] <= books[x]
  /\ news # <<>> => news[Len(news)] = books
  /\ Okx /\ user = "up" /\ news = <<>> => told = books
  /\ ~Okx /\ news = <<>> => \A x \in Books : Explained(x)

LEMMA BooksInvInit == Init => BooksInv
<1> SUFFICES ASSUME Init PROVE BooksInv
  OBVIOUS
<1>1. told = books /\ \A x \in Books : books[x] = 0
  BY DEF Init, AccountInit, NoBooks
<1>2. news = <<>> /\ calls = {} /\ user = "off" /\ DOMAIN news = {}
  BY DEF Init, AccountInit, StartInit
<1> QED
  BY <1>1, <1>2 DEF BooksInv, Explained, Books

\* Requests that are no questions about the books, and failures, change nothing.
LEMMA OthersExplain ==
  ASSUME AccountInv, BooksInv, UNCHANGED <<adapter, account, told, books, news, overtaken, silent, empty>>,
         failed \subseteq failed',
         \A c \in calls : c.op \in Books => c \in calls',
         \A c \in calls' : c.op \in Books => c \in calls \/ c.n = 0,
         user' = "up" => user = "up"
  PROVE  BooksInv'
<1>1. \A x \in Books : books[x] \in Nat
  BY AccountAssumption DEF AccountInv, AccountTypeOK
<1>2. \A c \in calls' : c.op \in Books => c.n <= books[c.op]
  BY <1>1 DEF BooksInv
<1>3. ~Okx /\ news = <<>> => \A x \in Books : Explained(x)'
  BY DEF BooksInv, Explained
<1> QED
  BY <1>2, <1>3 DEF BooksInv, Okx

LEMMA BooksStart == StartInv /\ AccountInv /\ BooksInv /\ (StartStep \/ CallFails) /\ UNCHANGED accountVars => BooksInv'
<1> SUFFICES ASSUME StartInv, AccountInv, BooksInv, StartStep \/ CallFails, UNCHANGED accountVars PROVE BooksInv'
  OBVIOUS
<1>1. UNCHANGED <<adapter, account, told, books, news, overtaken, silent, empty>> /\ failed \subseteq failed'
  BY DEF accountVars, StartStep, Connect, OkxQueryTime, BinanceQueryTime, OkxQueryContract, BinanceQueryContract,
    OnQueryOrder, CallFails, given
<1>2. user' = "up" => user = "up"
  BY DEF StartStep, Connect, OkxConnect, BinanceConnect, BinanceStartClients, OkxQueryTime, BinanceQueryTime,
    OkxQueryContract, OkxStartClients, StartUser, BinanceQueryContract, OnQueryOrder, CallFails
<1> DEFINE Asks == /\ \A c \in calls : c.op \in Books => c \in calls'
                   /\ \A c \in calls' : c.op \in Books => c \in calls \/ c.n = 0
<1> USE DEF Books
<1>3. CASE Connect
  <2>1. PICK hedge_mode \in 1 .. 2 : calls' = OkxAsks(hedge_mode) \/ calls' = BinanceAsks(hedge_mode)
    BY <1>3 DEF Connect, OkxConnect, BinanceConnect
  <2>2. \A c \in calls' : c.op \notin Books
    BY <2>1 DEF OkxAsks, BinanceAsks, AskMode, Call
  <2>3. calls = {}
    BY <1>3 DEF Connect, StartInv, RequestsInv
  <2> QED
    BY <1>1, <1>2, <2>2, <2>3, OthersExplain
<1>4. CASE OkxQueryTime \/ OnQueryOrder \/ CallFails
  <2>1. Asks
    BY <1>4 DEF OkxQueryTime, OnQueryOrder, CallFails
  <2> QED
    BY <1>1, <1>2, <2>1, OthersExplain
<1>5. CASE BinanceQueryTime
  <2>1. PICK c \in calls : c.op = "time" /\ calls' = (calls \ {c}) \cup {AskMode(c.n), Call("contract", "all", 0)}
    BY <1>5 DEF BinanceQueryTime
  <2>2. Asks
    BY <2>1 DEF AskMode, Call
  <2> QED
    BY <1>1, <1>2, <2>2, OthersExplain
<1>6. CASE OkxQueryContract
  <2>1. PICK c \in calls : /\ c.op = "contract"
                           /\ calls' = calls \ {c} \/ calls' = (calls \ {c}) \cup {Call("order", "ask", 0)}
    BY <1>6 DEF OkxQueryContract
  <2>2. Asks
    BY <2>1 DEF Call
  <2> QED
    BY <1>1, <1>2, <2>2, OthersExplain
<1>7. CASE BinanceQueryContract
  <2>1. PICK c \in calls : /\ c.op = "contract" /\ calls \ {c} \subseteq calls'
                           /\ \A d \in calls' : d \in calls \/ d.n = 0
    BY <1>7 DEF BinanceQueryContract, AskBooks, AskStream, Call
  <2>2. Asks
    BY <2>1
  <2> QED
    BY <1>1, <1>2, <2>2, OthersExplain
<1> QED
  BY <1>1, <1>2, <1>3, <1>4, <1>5, <1>6, <1>7, OthersExplain DEF StartStep

\* An answer about a book: it is the newest, or a newer report was told before it.
LEMMA AnswerExplains == ASSUME StartInv, AccountInv, BooksInv, OnQueryBooks PROVE BooksInv'
<1>1. PICK c \in calls :
        /\ c.op \in Books /\ c.arg = "answer" /\ calls' = calls \ {c}
        /\ told' = [told EXCEPT ![c.op] = c.n]
        /\ overtaken' = IF c.n < told[c.op] THEN overtaken \cup {c.op} ELSE overtaken
  BY DEF OnQueryBooks
<1>2. UNCHANGED <<adapter, user, failed, account, books, news, silent, empty>>
  BY DEF OnQueryBooks, restVars, given
<1>3. ~Okx /\ c.n \in Nat /\ c.n <= books[c.op] /\ told[c.op] <= books[c.op]
  BY <1>1, AccountAssumption DEF StartInv, RequestsInv, BooksInv
<1>4. \A x \in Books : told[x] \in Nat /\ books[x] \in Nat
  BY AccountAssumption DEF AccountInv, AccountTypeOK
<1>5. /\ told'[c.op] = c.n
      /\ \A x \in Books : x # c.op => told'[x] = told[x]
  BY <1>1 DEF AccountInv, AccountTypeOK
<1>6. ASSUME news = <<>>, NEW x \in Books PROVE Explained(x)'
  <2>1. Explained(x)
    BY <1>3, <1>6 DEF BooksInv
  <2>2. CASE x # c.op
    BY <1>1, <1>2, <1>5, <2>1, <2>2 DEF Explained
  <2>3. CASE x = c.op /\ c.n = books[x]
    BY <1>2, <1>5, <2>3 DEF Explained
  <2>4. CASE x = c.op /\ c.n # books[x] /\ told[x] = books[x]
    <3>1. c.n < told[c.op]
      BY <1>3, <1>4, <2>4
    <3> QED
      BY <1>1, <2>4, <3>1 DEF Explained
  <2>5. CASE x = c.op /\ c.n # books[x] /\ told[x] # books[x]
    BY <1>1, <1>2, <2>1, <2>5 DEF Explained
  <2> QED
    BY <2>2, <2>3, <2>4, <2>5
<1> QED
  BY <1>1, <1>2, <1>3, <1>4, <1>5, <1>6 DEF BooksInv, Okx

\* A report: the newest one has the books as they are, and what is left out of it
\* has its reason.
LEMMA ReportExplains == ASSUME AccountInv, BooksInv, OnReport PROVE BooksInv'
<1> DEFINE report == Head(news)
<1>1. /\ news # <<>> /\ news' = Tail(news)
      /\ told' = [x \in Books |-> IF x \in Reported(report) THEN report[x] ELSE told[x]]
      /\ overtaken' = overtaken \ Reported(report)
      /\ UNCHANGED <<adapter, user, calls, failed, account, books, silent, empty>>
  BY DEF OnReport, restVars, given
<1>2. /\ Len(news) \in Nat /\ Len(news) > 0 /\ report = news[1] /\ report \in [Books -> 0 .. MaxTrades]
      /\ DOMAIN news = 1 .. Len(news) /\ DOMAIN news' = 1 .. Len(news) - 1 /\ Len(news') = Len(news) - 1
      /\ \A k \in DOMAIN news' : news'[k] = news[k + 1]
  BY <1>1 DEF AccountInv
<1> HIDE DEF report
<1>3. \A x \in Books : report[x] <= books[x] /\ told'[x] <= books[x]
  BY <1>1, <1>2 DEF BooksInv
<1>4. news' # <<>> => news'[Len(news')] = books
  <2>1. news' # <<>> => Len(news) > 1
    <3>1. news' \in Seq([Books -> 0 .. MaxTrades])
      BY <1>1 DEF AccountInv
    <3>2. news' # <<>> => Len(news') # 0
      BY <3>1
    <3>3. Len(news) \in Nat /\ Len(news) > 0 /\ Len(news') = Len(news) - 1
      BY <1>2
    <3>4. \A n \in Nat : n > 0 /\ n - 1 # 0 => n > 1
      OBVIOUS
    <3> QED
      BY <3>2, <3>3, <3>4, Zenon
  <2> QED
    BY <1>1, <1>2, <2>1 DEF BooksInv
<1>5. news' = <<>> => report = books
  <2>1. news' = <<>> => Len(news) = 1
    <3>1. news' = <<>> => Len(news') = 0
      OBVIOUS
    <3>2. Len(news) \in Nat /\ Len(news') = Len(news) - 1
      BY <1>2
    <3>3. \A n \in Nat : n - 1 = 0 => n = 1
      OBVIOUS
    <3> QED
      BY <3>1, <3>2, <3>3, Zenon
  <2> QED
    BY <1>1, <1>2, <2>1 DEF BooksInv
<1>6. ASSUME ~Okx, news' = <<>>, NEW x \in Books PROVE Explained(x)'
  <2>1. CASE x \in Reported(report)
    BY <1>1, <1>5, <1>6, <2>1 DEF Explained
  <2>2. CASE x \notin Reported(report)
    BY <1>1, <1>5, <1>6, <2>2 DEF Explained, Reported, BinanceReported, Books
  <2> QED
    BY <2>1, <2>2
<1>7. ASSUME Okx, news' = <<>> PROVE told' = books
  <2>1. Reported(report) = Books
    BY <1>2, <1>7 DEF Reported, OkxReported
  <2>2. \A x \in Books : told'[x] = books[x]
    BY <1>1, <1>5, <1>7, <2>1
  <2> QED
    BY <1>1, <2>2 DEF AccountInv, AccountTypeOK
<1>8. \A k \in DOMAIN news', x \in Books : news'[k][x] <= books[x]
  <2>1. \A k \in DOMAIN news, x \in Books : news[k][x] <= books[x]
    BY DEF BooksInv
  <2>2. \A k \in DOMAIN news' : k + 1 \in DOMAIN news
    BY <1>2
  <2>3. ASSUME NEW k \in DOMAIN news', NEW x \in Books PROVE news'[k][x] <= books[x]
    <3>1. k + 1 \in DOMAIN news /\ news'[k] = news[k + 1]
      BY <1>2, <2>2
    <3> QED
      BY <2>1, <3>1
  <2> QED
    BY <2>3
<1> QED
  BY <1>1, <1>3, <1>4, <1>6, <1>7, <1>8 DEF BooksInv, Okx

\* The books change: told by the newest report, or a silent change.
LEMMA ChangeExplains == ASSUME StartInv, AccountInv, BooksInv, VenueChanges PROVE BooksInv'
<1> DEFINE n == books["account"]
<1>1. /\ books' = [x \in Books |-> n + 1]
      /\ news' = IF user = "up" THEN Append(news, books') ELSE news
      /\ silent' = IF user = "up" THEN silent ELSE [x \in Books |-> silent[x] \cup {books'[x]}]
      /\ UNCHANGED <<adapter, user, calls, failed, account, told, overtaken, empty>>
  BY DEF VenueChanges, restVars, given
<1>2. n \in Nat /\ \A x \in Books : books[x] = n /\ books'[x] = n + 1 /\ told[x] \in Nat
  BY <1>1, AccountAssumption DEF AccountInv, AccountTypeOK, BooksInv, Books
<1> HIDE DEF n
<1>3. \A c \in calls : c.op \in Books => c.n <= books'[c.op]
  <2>1. \A c \in calls : c.op \in Books => c.n \in Nat /\ c.n <= books[c.op]
    BY AccountAssumption DEF BooksInv, StartInv, RequestsInv
  <2> QED
    BY <1>2, <2>1
<1>6. \A x \in Books : told'[x] <= books'[x]
  <2>1. \A x \in Books : told[x] <= n
    BY <1>2 DEF BooksInv
  <2> QED
    BY <1>1, <1>2, <2>1
<1>7. books'["position"] = books'["account"]
  BY <1>2 DEF Books
<1>4. CASE user = "up"
  <2>1. /\ news' = Append(news, books') /\ news' # <<>> /\ news'[Len(news')] = books'
        /\ \A k \in DOMAIN news' : (k \in DOMAIN news /\ news'[k] = news[k]) \/ news'[k] = books'
    BY <1>1, <1>4 DEF AccountInv
  <2>2. \A k \in DOMAIN news, x \in Books : news[k][x] <= n /\ news[k][x] \in Nat
    BY <1>2, AccountAssumption DEF BooksInv, AccountInv
  <2>3. \A k \in DOMAIN news', x \in Books : news'[k][x] <= books'[x]
    BY <1>2, <2>1, <2>2
  <2> QED
    BY <1>1, <1>3, <1>6, <1>7, <2>1, <2>3 DEF BooksInv
<1>5. CASE user # "up"
  <2>1. news' = <<>> /\ DOMAIN news' = {} /\ user' # "up" /\ \A x \in Books : books'[x] \in silent'[x]
    BY <1>1, <1>5 DEF AccountInv, AccountTypeOK
  <2>2. \A x \in Books : Explained(x)'
    BY <2>1 DEF Explained
  <2> QED
    BY <1>1, <1>3, <1>6, <1>7, <2>1, <2>2 DEF BooksInv
<1> QED
  BY <1>4, <1>5

LEMMA BooksAccount == StartInv /\ AccountInv /\ BooksInv /\ AccountMoves => BooksInv'
<1> SUFFICES ASSUME StartInv, AccountInv, BooksInv, AccountMoves PROVE BooksInv'
  OBVIOUS
<1> USE DEF Books, Settings
<1>1. ASSUME NEW x \in Settings, NEW n \in 1 .. 2, SetSetting(x, n) PROVE BooksInv'
  <2>1. AskSetting(x, n).op \notin Books
    BY <1>1 DEF AskSetting, AskMode, AskLeverage, Call
  <2> QED
    BY <1>1, <2>1, OthersExplain DEF SetSetting, restVars, given
<1>2. CASE RefuseLeverage
  BY <1>2, OthersExplain DEF RefuseLeverage, startVars, accountVars, given
<1>3. CASE OnSetMode \/ OnSetLeverage
  <2>1. PICK c \in calls :
          /\ c.op \in Settings /\ calls' = calls \ {c}
          /\ \/ account' = account
             \/ c.op = "leverage" /\ account' = [account EXCEPT ![c.op] = c.n]
             \/ /\ account' = [account EXCEPT ![c.op] = c.n]
                /\ books["position"] = 0 \/ c.n = account["mode"]
    BY <1>3 DEF OnSetMode, OnSetLeverage, Refused, Taken, AlreadySet
  <2>2. UNCHANGED <<adapter, user, failed, told, books, news, overtaken, silent, empty>>
    BY <1>3 DEF OnSetMode, OnSetLeverage, restVars, given
  <2>3. \A x \in Books : told[x] \in Nat /\ books[x] \in Nat
    BY AccountAssumption DEF AccountInv, AccountTypeOK
  <2>4. CASE books["position"] = 0
    <3>1. ASSUME NEW x \in Books PROVE told'[x] = books'[x]
      <4>1. told[x] <= books[x] /\ books[x] = 0
        BY <2>4 DEF BooksInv
      <4> QED
        BY <2>2, <2>3, <4>1
    <3> QED
      BY <2>1, <2>2, <3>1 DEF BooksInv, Explained, Okx
  <2>5. CASE books["position"] # 0
    <3>1. account'["mode"] = account["mode"]
      BY <2>1, <2>5 DEF AccountInv, AccountTypeOK
    <3>2. \A x \in Books : Explained(x) => Explained(x)'
      BY <2>1, <2>2, <3>1 DEF Explained
    <3> QED
      BY <2>1, <2>2, <3>2 DEF BooksInv, Okx
  <2> QED
    BY <2>4, <2>5
<1>4. CASE VenueAnswers
  <2>1. PICK c \in calls : /\ c.op \in Books
                           /\ calls' = (calls \ {c}) \cup {Call(c.op, "answer", books[c.op])}
                           /\ silent' = [silent EXCEPT ![c.op] = @ \ {books[c.op]}]
    BY <1>4 DEF VenueAnswers
  <2>2. UNCHANGED <<adapter, user, failed, account, told, books, news, overtaken, empty>>
    BY <1>4 DEF VenueAnswers, restVars, given
  <2>3. \A x \in Books : books[x] \in Nat
    BY AccountAssumption DEF AccountInv, AccountTypeOK
  <2> DEFINE answer == Call(c.op, "answer", books[c.op])
  <2>4. answer.op = c.op /\ answer.arg = "answer" /\ answer.n = books[c.op]
    BY DEF Call
  <2> HIDE DEF answer
  <2>5. answer \in calls' /\ \A d \in calls' : d = answer \/ d \in calls
    BY <2>1 DEF answer
  <2>6. ASSUME NEW x \in Books, Explained(x) PROVE Explained(x)'
    <3>1. CASE x = c.op
      BY <2>2, <2>4, <2>5, <3>1 DEF Explained
    <3>2. CASE x # c.op
      BY <2>1, <2>2, <2>6, <3>2 DEF Explained, AccountInv, AccountTypeOK
    <3> QED
      BY <3>1, <3>2
  <2>7. \A d \in calls' : d.op \in Books => d.n <= books[d.op]
    BY <2>1, <2>3, <2>4, <2>5 DEF BooksInv
  <2> QED
    BY <2>2, <2>6, <2>7 DEF BooksInv, Okx
<1>5. CASE QueryBooksFails
  <2>1. PICK c \in calls : c.op \in Books /\ calls' = calls \ {c} /\ failed' = failed \cup {c.op}
    BY <1>5 DEF QueryBooksFails
  <2>2. UNCHANGED <<adapter, user, account, told, books, news, overtaken, silent, empty>>
    BY <1>5 DEF QueryBooksFails, restVars, given, accountVars
  <2>3. \A x \in Books : Explained(x) => Explained(x)'
    BY <2>1, <2>2 DEF Explained
  <2> QED
    BY <2>1, <2>2, <2>3 DEF BooksInv, Okx
<1>6. CASE OnUserConnected
  <2>1. news' = <<>> \/ (Okx /\ news' = <<books>>)
    BY <1>6 DEF OnUserConnected
  <2>2. news = <<>> /\ (~Okx => news' = <<>>) /\ (Okx => news' = <<books>>)
    BY <1>6 DEF OnUserConnected, AccountInv, AccountTypeOK
  <2>3. UNCHANGED <<adapter, calls, failed, account, told, books, overtaken, silent, empty>>
    BY <1>6 DEF OnUserConnected, restVars, given
  <2>4. \A x \in Books : books[x] \in Nat
    BY AccountAssumption DEF AccountInv, AccountTypeOK
  <2>5. CASE Okx
    <3>1. news' = <<books>> /\ news' # <<>> /\ Len(news') = 1 /\ news'[1] = books /\ DOMAIN news' = {1}
      BY <2>2, <2>5
    <3>2. \A k \in DOMAIN news', x \in Books : news'[k][x] <= books[x]
      BY <2>4, <3>1
    <3> QED
      BY <2>3, <2>5, <3>1, <3>2 DEF BooksInv, Okx
  <2>6. CASE ~Okx
    <3>1. \A x \in Books : Explained(x)'
      BY <2>2, <2>3, <2>6 DEF BooksInv, Explained
    <3> QED
      BY <2>2, <2>3, <2>6, <3>1 DEF BooksInv, Okx
  <2> QED
    BY <2>5, <2>6
<1>7. CASE OnUserDisconnected \/ OnStartUserStream
  <2>1. /\ news' = <<>> /\ user' = "down"
        /\ silent' = [x \in Books |-> silent[x] \cup {news[i][x] : i \in DOMAIN news}]
        /\ UNCHANGED <<adapter, failed, account, told, books, overtaken, empty>>
    BY <1>7 DEF OnUserDisconnected, OnStartUserStream, LoseReports, StartUser, restVars, given
  <2>2. /\ \A c \in calls : c.op \in Books => c \in calls'
        /\ \A c \in calls' : c \in calls \/ c.op \notin Books
    BY <1>7 DEF OnUserDisconnected, OnStartUserStream, AskStream, Call
  <2>3. ASSUME ~Okx, NEW x \in Books PROVE Explained(x)'
    <3>1. CASE news = <<>>
      BY <2>1, <2>2, <2>3, <3>1 DEF BooksInv, Explained
    <3>2. CASE news # <<>>
      <4>1. Len(news) \in DOMAIN news /\ news[Len(news)] = books
        BY <3>2 DEF BooksInv, AccountInv
      <4>2. books'[x] \in silent'[x]
        BY <2>1, <2>3, <4>1
      <4> QED
        BY <4>2 DEF Explained
    <3> QED
      BY <3>1, <3>2
  <2>4. DOMAIN news' = {}
    BY <2>1
  <2> QED
    BY <2>1, <2>2, <2>3, <2>4 DEF BooksInv, Okx
<1> QED
  BY <1>1, <1>2, <1>3, <1>4, <1>5, <1>6, <1>7, AnswerExplains, ReportExplains, ChangeExplains DEF AccountMoves, BooksStep, SettingsStep

LEMMA BooksMarket == AccountInv /\ BooksInv /\ MarketStep /\ UNCHANGED accountVars => BooksInv'
<1> SUFFICES ASSUME AccountInv, BooksInv, MarketStep, UNCHANGED accountVars PROVE BooksInv'
  OBVIOUS
<1>1. UNCHANGED <<adapter, calls, failed, user>>
  BY DEF MarketStep, Subscribe, OnConnected, Retry, OnDisconnected, BinanceOnPacket, OnTicker, OnDepth, Publish,
    VenueSubscribe, VenueQuotes, startVars, given
<1> QED
  BY <1>1, OthersExplain DEF accountVars

LEMMA BooksNext == TypesInv /\ BooksInv /\ [Next]_vars => BooksInv'
<1>1. AccountInv /\ BooksInv /\ UNCHANGED vars => BooksInv'
  BY OthersExplain DEF vars, startVars, given, accountVars
<1> QED
  BY <1>1, BooksStart, BooksMarket, BooksAccount DEF TypesInv, Next, OfStart, OfMarket, OfAccount, AccountMoves

\* However queries, their answers, reports, changes and losses of the user client
\* interleave: when nothing is in flight, the bus was told of the venue's books as
\* they are, or there is one of the reasons that the code has.
THEOREM BooksAreExplained == Spec => []BooksExplained
<1>1. BooksInv => BooksExplained
  <2> SUFFICES ASSUME BooksInv, user = "up", news = <<>>, ~Asked("account"), ~Asked("position"), NEW x \in Books
               PROVE  \/ told[x] = books[x]
                      \/ x = "position" /\ account["mode"] = Hedge
                      \/ /\ ~Okx
                         /\ \/ x \in failed \cup overtaken
                            \/ books[x] \in silent[x]
                            \/ x = "account" /\ books[x] \in empty
    BY DEF BooksExplained
  <2> QED
    BY DEF BooksInv, Explained, Asked, Books
<1> QED
  BY <1>1, TypesInit, TypesNext, BooksInvInit, BooksNext, PTL DEF Spec
===============================================================================
