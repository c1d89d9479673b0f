------------------------------- MODULE MarketData -------------------------------
(***************************************************************************)
(* Market data of the adapters: OkxWebsocketPublicApi and BinanceMdApi, over *)
(* a client as module Link promises.  A tick has a price and a depth, which  *)
(* two channels update; either of them puts the whole tick on the bus.  The  *)
(* venue is external; prices and depths are numbered in the order of their   *)
(* quotation, and a number of 0 is one that nobody has quoted.               *)
(***************************************************************************)
EXTENDS Startup, Sequences, SequencesExt

CONSTANTS
  Wanted,           \* the products that the app subscribes
  MaxQuotes,        \* bound: quotations of a product
  MaxQueue,         \* bound: messages in flight in a direction
  MaxDrops          \* bound: losses of the line

ASSUME MarketAssumption == Wanted \subseteq Products /\ MaxQuotes \in Nat \ {0} /\ {MaxQueue, MaxDrops} \subseteq Nat

VARIABLES
  subscribed,       \* subscribed: the symbols asked for
  ticks,            \* ticks: symbol -> tick
  published,        \* the last tick put on the bus, by symbol
  up, down,         \* messages in flight, to the venue and from it
  streams,          \* what the venue streams on this connection
  quotes,           \* the venue's quotation of each product
  drops,
  unsent            \* symbols whose request to stream this connection lacks

marketVars == <<subscribed, ticks, published, up, down, streams, quotes, drops, unsent>>

Channels == {"tickers", "books5"}
Tick == [Channels -> 0 .. MaxQuotes]     \* the price and the depth
NewTick == [channel \in Channels |-> 0]

MarketTypeOK ==
  /\ subscribed \subseteq Wanted /\ DOMAIN ticks = subscribed
  /\ DOMAIN published \subseteq subscribed
  /\ \A s \in subscribed : ticks[s] \in Tick
  /\ streams \subseteq subscribed /\ unsent \subseteq subscribed
  /\ line # "up" => up = <<>> /\ down = <<>> /\ streams = {}

MarketInit ==
  /\ subscribed = {} /\ streams = {} /\ unsent = {}
  /\ ticks = [s \in {} |-> NewTick] /\ published = ticks
  /\ up = <<>> /\ down = <<>>
  /\ quotes = [s \in Wanted |-> [channel \in Channels |-> 1]]
  /\ drops = 0

Set(f, s, v) == [t \in DOMAIN f \cup {s} |-> IF t = s THEN v ELSE f[t]]

\* send_packet: on a line that is down the request is lost with a log.
Sent(ss) == IF line' = "up" THEN up \o SetToSeq(ss) ELSE up
-------------------------------------------------------------------------------
\* subscribe of OKX, for each of these symbols: the tick starts anew.
OkxSubscribe(ss) ==
  /\ subscribed' = subscribed \cup ss
  /\ ticks' = [t \in DOMAIN ticks \cup ss |-> IF t \in ss THEN NewTick ELSE ticks[t]]
  /\ up' = Sent(ss)
  /\ UNCHANGED unsent

\* subscribe of Binance: a symbol that has a tick is left alone, whether or not
\* its request has reached the venue.
BinanceSubscribe(ss) ==
  LET new == ss \ DOMAIN ticks IN
  /\ subscribed' = subscribed \cup new
  /\ ticks' = [t \in DOMAIN ticks \cup new |-> IF t \in new THEN NewTick ELSE ticks[t]]
  /\ up' = Sent(new)
  /\ unsent' = IF line' = "up" THEN unsent ELSE unsent \cup new

SubscribeAll(ss) == IF Okx THEN OkxSubscribe(ss) ELSE BinanceSubscribe(ss)

\* The app subscribes; an unknown symbol is only logged.
Subscribe(s) ==
  /\ HasContract(s)
  /\ Len(up) < MaxQueue
  /\ line' = line
  /\ SubscribeAll({s})
  /\ UNCHANGED <<given, connected, calls, contracts, product_ready, user, failed,
                 published, down, streams, quotes, drops>>

\* Mutant of OnConnected: what was subscribed is left to the app.
OnConnectedOnly ==
  /\ line = "opening"
  /\ line' = "up"
  /\ UNCHANGED <<given, connected, calls, contracts, product_ready, user, failed,
                 subscribed, ticks, up, unsent, published, down, streams, quotes, drops>>

\* on_connected, of either: each symbol is subscribed again.
OnConnected ==
  /\ line = "opening"
  /\ line' = "up"
  /\ SubscribeAll(subscribed)
  /\ UNCHANGED <<given, connected, calls, contracts, product_ready, user, failed,
                 published, down, streams, quotes, drops>>

Retry ==
  /\ \/ line = "down" /\ line' = "opening"
     \/ line = "opening" /\ line' = "down"
  /\ UNCHANGED <<given, connected, calls, contracts, product_ready, user, failed, marketVars>>

\* on_disconnected only logs; what is in flight is lost.
OnDisconnected ==
  /\ line = "up" /\ drops < MaxDrops
  /\ line' = "down"
  /\ drops' = drops + 1
  /\ up' = <<>> /\ down' = <<>> /\ streams' = {}
  /\ unsent' = IF Okx THEN {} ELSE subscribed
  /\ UNCHANGED <<given, connected, calls, contracts, product_ready, user, failed,
                 subscribed, ticks, published, quotes>>

Received(channel) == line = "up" /\ down # <<>> /\ Head(down).channel = channel

Publish(s, tick) ==
  /\ ticks' = Set(ticks, s, tick)
  /\ published' = Set(published, s, tick)
  /\ down' = Tail(down)
  /\ UNCHANGED <<startVars, subscribed, up, streams, quotes, drops, unsent>>

\* on_packet of Binance: "ticker" and "depth10", each into its half of the tick.
BinanceOnPacket ==
  \E channel \in Channels :
    /\ ~Okx /\ Received(channel)
    /\ LET m == Head(down) IN Publish(m.s, [ticks[m.s] EXCEPT ![channel] = m.n])

\* on_ticker of OKX.
OnTicker ==
  /\ Okx /\ Received("tickers")
  /\ LET m == Head(down) IN Publish(m.s, [ticks[m.s] EXCEPT !["tickers"] = m.n])

\* Mutant of OnDepth: the tick is made anew.
OnDepthAnew ==
  /\ Okx /\ Received("books5")
  /\ LET m == Head(down) IN Publish(m.s, [NewTick EXCEPT !["books5"] = m.n])

\* on_depth of OKX.  The price is the one that is there.
OnDepth ==
  /\ Okx /\ Received("books5")
  /\ LET m == Head(down) IN Publish(m.s, [ticks[m.s] EXCEPT !["books5"] = m.n])
-------------------------------------------------------------------------------
(* The venue (external).                                                     *)

\* A subscription is answered with both channels' latest, in either order.
VenueSubscribe ==
  /\ line = "up" /\ up # <<>>
  /\ Len(down) + 2 <= MaxQueue
  /\ LET s == Head(up)
         push(channel) == [channel |-> channel, s |-> s, n |-> quotes[s][channel]]
     IN /\ streams' = streams \cup {s}
        /\ \E first \in Channels : \E second \in Channels \ {first} :
             down' = down \o <<push(first), push(second)>>
  /\ up' = Tail(up)
  /\ UNCHANGED <<startVars, subscribed, ticks, published, quotes, drops, unsent>>

\* A price or a depth changes, and its channel streams it.
VenueQuotes(s, channel) ==
  /\ quotes[s][channel] < MaxQuotes
  /\ Len(down) < MaxQueue
  /\ quotes' = [quotes EXCEPT ![s][channel] = @ + 1]
  /\ down' = IF s \notin streams THEN down
             ELSE Append(down, [channel |-> channel, s |-> s, n |-> quotes[s][channel] + 1])
  /\ UNCHANGED <<startVars, subscribed, ticks, published, up, streams, drops, unsent>>
-------------------------------------------------------------------------------
MarketStep ==
  \/ \E s \in Wanted : Subscribe(s)
  \/ \E s \in Wanted, channel \in Channels : VenueQuotes(s, channel)
  \/ OnConnected \/ Retry \/ OnDisconnected
  \/ BinanceOnPacket \/ OnTicker \/ OnDepth
  \/ VenueSubscribe
===============================================================================
