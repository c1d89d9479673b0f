------------------------------ MODULE AccountData ------------------------------
(***************************************************************************)
(* What the adapters know of the account: its settings (the copies that      *)
(* CryptoExchange keeps and the requests that change the venue's) and the     *)
(* position in one contract and the balance that they put on the bus, from    *)
(* the REST answers of Binance and the reports of either user client.  The    *)
(* venue is external: its books are numbered in the order of their changes.   *)
(***************************************************************************)
EXTENDS Startup, Sequences

CONSTANTS
  MaxTrades,        \* bound: changes of the books at the venue
  MaxSets,          \* bound: settings asked for by the app
  MaxLosses         \* bound: losses of the user client's connection

ASSUME AccountAssumption == {MaxTrades, MaxSets, MaxLosses} \subseteq Nat

VARIABLES
  copy,             \* position_mode and leverage_config, 0 if not set
  account,          \* the venue's settings
  told,             \* what the bus was last told of the position and the balance
  books,            \* and what the venue has
  news,             \* reports in flight to the user client
  overtaken,        \* told by an answer that is older than a report handled before it
  silent,           \* by book, changes that no connection reported and no answer has had since
  empty,            \* changes that leave a balance of zero
  sets, losses

accountVars ==
  <<copy, account, told, books, news, overtaken, silent, empty, sets, losses>>
restVars ==
  <<given, connected, contracts, product_ready, line>>

Hedge == 2
Books == {"position", "account"}
NoBooks == [x \in Books |-> 0]

\* The copies before the app has set anything.
Unset == [x \in Settings |-> IF x = "mode" THEN 1 ELSE 0]

AccountTypeOK ==
  /\ copy \in [Settings -> 0 .. 2] /\ account \in [Settings -> 1 .. 2]
  /\ overtaken \subseteq Books
  /\ told \in [Books -> 0 .. MaxTrades] /\ books \in [Books -> 0 .. MaxTrades]
  /\ silent \in [Books -> SUBSET (0 .. MaxTrades)]
  /\ user # "up" => news = <<>>

AccountInit ==
  /\ copy = Unset
  /\ account \in [Settings -> 1 .. 2]
  /\ told = NoBooks /\ books = NoBooks
  /\ news = <<>> /\ overtaken = {} /\ silent = [x \in Books |-> {}]
  /\ empty \in SUBSET (1 .. MaxTrades)
  /\ sets = 0 /\ losses = 0

Asked(x) == \E c \in calls : c.op = x
-------------------------------------------------------------------------------
\* The requests of the REST api.
AskLeverage(n) == Call("leverage", "ask", n)
AskSetting(x, n) == IF x = "mode" THEN AskMode(n) ELSE AskLeverage(n)

\* set_position_mode and set_leverage of an adapter: the copy first, then the
\* request.  The same is not asked for twice at a time (an abstraction).
SetSetting(x, n) ==
  /\ sets < MaxSets /\ sets' = sets + 1
  /\ connected
  /\ AskSetting(x, n) \notin calls
  /\ copy' = [copy EXCEPT ![x] = n]
  /\ calls' = calls \cup {AskSetting(x, n)}
  /\ UNCHANGED <<restVars, user, failed, account, told, books, news, overtaken, silent, empty, losses>>

\* A leverage that is not positive is refused and nothing is asked.
RefuseLeverage ==
  /\ connected
  /\ UNCHANGED <<startVars, accountVars>>

\* A mode that the venue has already: Binance's error for it is told from the others.
AlreadySet(c) == c.op = "mode" /\ c.n = account["mode"]

\* The request was refused or has failed: the handlers only log.
Refused(c) == UNCHANGED account
Taken(c) == Served(c) /\ account' = [account EXCEPT ![c.op] = c.n]

\* on_set_position_mode: the venue changes the mode only while no position is open.
OnSetMode ==
  \E c \in calls :
    /\ c.op = "mode"
    /\ calls' = calls \ {c}
    /\ Refused(c) \/ (Taken(c) /\ (books["position"] = 0 \/ AlreadySet(c)))
    /\ UNCHANGED <<restVars, user, failed, copy, told, books, news, overtaken, silent, empty, sets, losses>>

\* on_set_leverage.
OnSetLeverage ==
  \E c \in calls :
    /\ c.op = "leverage"
    /\ calls' = calls \ {c}
    /\ Refused(c) \/ Taken(c)
    /\ UNCHANGED <<restVars, user, failed, copy, told, books, news, overtaken, silent, empty, sets, losses>>

\* The pool's worker has the venue's answer to query_account or query_position.
VenueAnswers ==
  \E c \in calls :
    /\ c.op \in Books /\ c.arg = "ask"
    /\ calls' = (calls \ {c}) \cup {Call(c.op, "answer", books[c.op])}
    /\ silent' = [silent EXCEPT ![c.op] = @ \ {books[c.op]}]
    /\ UNCHANGED <<restVars, user, failed, copy, account, told, books, news, overtaken, empty, sets, losses>>

\* on_query_account and on_query_position of Binance: every row is put on the bus.
OnQueryBooks ==
  \E c \in calls :
    /\ c.op \in Books /\ c.arg = "answer"
    /\ calls' = calls \ {c}
    /\ told' = [told EXCEPT ![c.op] = c.n]
    /\ overtaken' = IF c.n < told[c.op] THEN overtaken \cup {c.op} ELSE overtaken
    /\ UNCHANGED <<restVars, user, failed, copy, account, books, news, silent, empty, sets, losses>>

\* on_failed and on_error of these two: logged, and not asked again.
QueryBooksFails ==
  \E c \in calls :
    /\ c.op \in Books
    /\ calls' = calls \ {c}
    /\ failed' = failed \cup {c.op}
    /\ UNCHANGED <<restVars, user, accountVars>>
-------------------------------------------------------------------------------
\* The user client is connected: OKX logs in and subscribes its topics, and the
\* venue answers with all that it has; with the key of Binance nothing is sent.
OnUserConnected ==
  /\ user = "down"
  /\ user' = "up"
  /\ news' = IF Okx THEN <<books>> ELSE <<>>
  /\ UNCHANGED <<restVars, calls, failed, copy, account, told, books, overtaken, silent, empty, sets, losses>>

\* The reports in flight are lost with their connection.
LoseReports ==
  /\ news' = <<>>
  /\ silent' = [x \in Books |-> silent[x] \cup {news[i][x] : i \in DOMAIN news}]

\* on_disconnected of the user client; Binance asks for its key again.
OnUserDisconnected ==
  /\ user = "up" /\ losses < MaxLosses
  /\ losses' = losses + 1
  /\ user' = "down"
  /\ LoseReports
  /\ calls' = IF Okx THEN calls ELSE calls \cup AskStream
  /\ UNCHANGED <<restVars, failed, copy, account, told, books, overtaken, empty, sets>>

\* on_start_user_stream: the user client connects with the key, and a connection that
\* the client had is dropped with what was on its way over it.
OnStartUserStream ==
  \E c \in calls :
    /\ c.op = "stream" /\ Served(c)
    /\ calls' = calls \ {c}
    /\ StartUser
    /\ LoseReports
    /\ UNCHANGED <<restVars, failed, copy, account, told, books, overtaken, empty, sets, losses>>

\* Mutant of OkxReported: a balance of zero is left out.
OkxReportedUnlessEmpty(report) == {x \in Books : ~(x = "account" /\ report[x] \in empty)}

\* on_account and on_position of OKX put every row on the bus ...
OkxReported(report) == DOMAIN report

\* ... on_account of Binance leaves out a balance of zero, and each position of an
\* account in hedge mode.
BinanceReported(report) ==
  {x \in Books : IF x = "account" THEN report[x] \notin empty ELSE account["mode"] # Hedge}

Reported(report) == IF Okx THEN OkxReported(report) ELSE BinanceReported(report)

\* on_packet of either user client.
OnReport ==
  /\ news # <<>>
  /\ LET report == Head(news) IN
       /\ told' = [x \in Books |-> IF x \in Reported(report) THEN report[x] ELSE told[x]]
       /\ overtaken' = overtaken \ Reported(report)
  /\ news' = Tail(news)
  /\ UNCHANGED <<restVars, user, calls, failed, copy, account, books, silent, empty, sets, losses>>

\* The venue fills an order or settles: both books change (external).
VenueChanges ==
  /\ listed["SWAP"] > 0
  /\ books["account"] < MaxTrades
  /\ books' = [x \in Books |-> books["account"] + 1]
  /\ news' = IF user = "up" THEN Append(news, books') ELSE news
  /\ silent' = IF user = "up" THEN silent ELSE [x \in Books |-> silent[x] \cup {books'[x]}]
  /\ UNCHANGED <<restVars, user, calls, failed, copy, account, told, overtaken, empty, sets, losses>>
-------------------------------------------------------------------------------
SettingsStep ==
  \/ \E x \in Settings, n \in 1 .. 2 : SetSetting(x, n)
  \/ RefuseLeverage \/ OnSetMode \/ OnSetLeverage

BooksStep ==
  \/ OnSetMode
  \/ VenueAnswers \/ OnQueryBooks \/ QueryBooksFails
  \/ OnUserConnected \/ OnUserDisconnected \/ OnReport
  \/ VenueChanges
===============================================================================
