--------------------------------- MODULE Startup --------------------------------
(***************************************************************************)
(* How the adapters of OKX and Binance (core/exchange) come up: connect      *)
(* sends REST requests whose answers, in any order, send more, fill the maps *)
(* of contracts and start the websocket clients.  A request that fails is    *)
(* logged and not repeated.  MarketData and AccountData say what runs on the  *)
(* clients that are started here.  Contracts are counted: the rows of an      *)
(* answer come in one order, and what is kept of it is its first rows.        *)
(***************************************************************************)
EXTENDS Naturals, FiniteSets, FiniteSetsExt

CONSTANT MaxRows      \* bound: contracts that the venue lists of a product

ASSUME StartAssumption == MaxRows \in Nat \ {0}

Products == {"SWAP", "SPOT", "FUTURES"}
Settings == {"mode", "leverage"}

VARIABLES
  adapter,          \* "OKX" or "BINANCE"
  keys,             \* the setting has an api key and its secret
  skewed,           \* the local clock is off by more than the venue tolerates
  listed,           \* how many contracts of each product the venue lists
  connected,        \* connect was called
  calls,            \* REST requests whose answers were not handled
  contracts,        \* symbol_contract_map: how many of them are known
  product_ready,    \* product_ready of OKX
  line,             \* the client for market data, "off" before its start
  user,             \* the client for the account's reports: "off", "down" or "up"
  failed            \* requests that failed, or whose handler threw; those for contracts by product

given == <<adapter, keys, skewed, listed>>
startVars == <<given, connected, calls, contracts, product_ready, line, user, failed>>

\* A request and, with the numbers of module AccountData, what was asked or answered.
Call(op, arg, n) == [op |-> op, arg |-> arg, n |-> n]
Ops == {"time", "contract", "order", "account", "position", "stream"} \cup Settings

StartTypeOK ==
  /\ adapter \in {"OKX", "BINANCE"}
  /\ {keys, skewed, connected} \subseteq BOOLEAN
  /\ \A c \in calls : c.op \in Ops
  /\ listed \in [Products -> 0 .. MaxRows] /\ contracts \in [Products -> 0 .. MaxRows]
  /\ \A p \in Products : contracts[p] <= listed[p]
  /\ product_ready \subseteq Products
  /\ line \in {"off", "down", "opening", "up"}
  /\ user \in {"off", "down", "up"}
  /\ failed \subseteq Ops \cup Products \cup {"all"}

StartInit ==
  /\ adapter \in {"OKX", "BINANCE"}
  /\ keys \in BOOLEAN /\ skewed \in BOOLEAN
  /\ listed \in [Products -> 0 .. MaxRows]
  /\ connected = FALSE
  /\ calls = {} /\ contracts = [p \in Products |-> 0] /\ product_ready = {} /\ failed = {}
  /\ line = "off" /\ user = "off"

Okx == adapter = "OKX"

\* sign of either REST api: key and signature, with the local time; that of Binance is
\* corrected by the venue's, which on_query_time has seen.
OkxSigned == keys /\ ~skewed
BinanceSigned == keys

\* What the venue serves (external): without a proper signature public data only.
Served(c) ==
  \/ c.op \in {"time", "contract"}
  \/ IF Okx THEN OkxSigned ELSE BinanceSigned

\* Position modes are numbered: 1 is ONE_WAY, 2 is HEDGE.
AskMode(n) == Call("mode", "ask", n)
AskBooks == {Call("account", "ask", 0), Call("position", "ask", 0)}
AskStream == {Call("stream", "ask", 0)}

\* connect of the REST api: OKX asks for all at once ...
OkxAsks(hedge_mode) ==
  {Call("time", "ask", 0), AskMode(hedge_mode)} \cup {Call("contract", p, 0) : p \in Products}

\* ... and Binance for the time first, from which the rest follows.
BinanceAsks(hedge_mode) == {Call("time", "ask", hedge_mode)}

\* connect of the client for market data, and of the one for the account's reports.
StartLine == line' = "opening"
StartUser == user' = "down"

\* connect_ws_api of OKX starts both, that of Binance the one for market data (and
\* the one for orders, of which more in BinanceSession).
OkxStartClients == StartLine /\ StartUser
BinanceStartClients == StartLine /\ UNCHANGED user

\* connect of an exchange, with the setting hedge_mode.  Binance starts its clients at once.
OkxConnect(hedge_mode) == calls' = OkxAsks(hedge_mode) /\ UNCHANGED <<line, user>>
BinanceConnect(hedge_mode) == calls' = BinanceAsks(hedge_mode) /\ BinanceStartClients

Connect ==
  /\ ~connected
  /\ connected' = TRUE
  /\ \E hedge_mode \in 1 .. 2 : IF Okx THEN OkxConnect(hedge_mode) ELSE BinanceConnect(hedge_mode)
  /\ UNCHANGED <<given, contracts, product_ready, failed>>

\* on_query_time: OKX logs it ...
OkxQueryTime ==
  \E c \in calls :
    /\ Okx /\ c.op = "time"
    /\ calls' = calls \ {c}
    /\ UNCHANGED <<given, connected, contracts, product_ready, line, user, failed>>

\* Mutant of BinanceQueryTime: the chain ends here.
BinanceQueryTimeOnly ==
  \E c \in calls :
    /\ ~Okx /\ c.op = "time"
    /\ calls' = calls \ {c}
    /\ UNCHANGED <<given, connected, contracts, product_ready, line, user, failed>>

\* ... and Binance goes on from here.
BinanceQueryTime ==
  \E c \in calls :
    /\ ~Okx /\ c.op = "time"
    /\ calls' = (calls \ {c}) \cup {AskMode(c.n), Call("contract", "all", 0)}
    /\ UNCHANGED <<given, connected, contracts, product_ready, line, user, failed>>

\* Mutant of Ready: the first answer is enough.
ReadyAtOnce(ready) == ready # {}

Ready(ready) == ready = Products

\* The rows of an answer, by product; only one for contracts has any.
Rows(c) == [p \in Products |-> IF c.op = "contract" /\ c.arg \in {p, "all"} THEN listed[p] ELSE 0]

\* on_contract for these rows: those that are known already are put again.
OnContract(rows) == contracts' = [p \in Products |-> Max({contracts[p], rows[p]})]

\* Each row makes its product ready.
MadeReady(rows) == product_ready \cup {p \in Products : rows[p] > 0}

\* get_contract_by_symbol.
HasContract(symbol) == contracts[symbol] > 0

\* on_query_contract of OKX: contracts of one product, none if it has none.  Once
\* each product has sent one, the open orders are queried and both clients started.
OkxQueryContract ==
  \E c \in calls :
    /\ Okx /\ c.op = "contract"
    /\ OnContract(Rows(c))
    /\ product_ready' = MadeReady(Rows(c))
    /\ IF Ready(product_ready')
       THEN calls' = (calls \ {c}) \cup {Call("order", "ask", 0)} /\ OkxStartClients
       ELSE calls' = calls \ {c} /\ UNCHANGED <<line, user>>
    /\ UNCHANGED <<given, connected, failed>>

\* on_query_contract of Binance: all contracts, then what needs a key.
BinanceQueryContract ==
  \E c \in calls :
    /\ ~Okx /\ c.op = "contract"
    /\ OnContract(Rows(c))
    /\ calls' = (calls \ {c}) \cup
                IF keys THEN {Call("order", "ask", 0)} \cup AskBooks \cup AskStream ELSE {}
    /\ UNCHANGED <<given, connected, product_ready, line, user, failed>>

\* on_query_order; modules OkxSession and BinanceSession have what it reports.
OnQueryOrder ==
  \E c \in calls :
    /\ c.op = "order" /\ Served(c)
    /\ calls' = calls \ {c}
    /\ UNCHANGED <<given, connected, contracts, product_ready, line, user, failed>>

\* What a request that failed has left behind: nothing, or the rows of its answer before
\* the one at which the handler threw.
Kept(c) ==
  {rows \in [Products -> 0 .. MaxRows] :
     /\ \A p \in Products : rows[p] <= Rows(c)[p]
     /\ rows = Rows(c) => \A p \in Products : rows[p] = 0}

\* What a request is called by.
Name(c) == IF c.op = "contract" THEN c.arg ELSE c.op

\* on_failed or on_error: logged.  The handler for contracts may have thrown at one
\* of its rows, after those before it were kept and had made their product ready, and
\* before it looks what is ready.
CallFails ==
  \E c \in calls :
    /\ c.op \notin Settings \cup {"account", "position"}
    /\ calls' = calls \ {c}
    /\ failed' = failed \cup {Name(c)}
    /\ \E rows \in Kept(c) :
         /\ OnContract(rows)
         /\ product_ready' = IF Okx THEN MadeReady(rows) ELSE product_ready
    /\ UNCHANGED <<given, connected, line, user>>

StartStep ==
  \/ Connect \/ OkxQueryTime \/ BinanceQueryTime \/ OkxQueryContract \/ BinanceQueryContract
  \/ OnQueryOrder

Up == contracts = listed /\ line # "off" /\ (Okx \/ keys => user # "off")
===============================================================================
