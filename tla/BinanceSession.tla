----------------------------- MODULE BinanceSession ----------------------------
(***************************************************************************)
(* The Binance adapter (core/exchange/binance_linear_exchange.cpp): orders  *)
(* are requested over one websocket (the trade api) and reported over       *)
(* another (the user api), whose url holds a listen key that a REST request *)
(* gives.  A new key replaces the user api's client.  The query of the open *)
(* orders and the first request of a key are under way at the start.  The   *)
(* handlers run on the main loop, one at a time.  The venue is external;    *)
(* what is in flight when a line drops is lost.                             *)
(***************************************************************************)
EXTENDS OrderReports

CONSTANTS
  Orders,           \* orders, of this process or open from before
  Lots,             \* lots of an order
  MaxQueue,         \* bound: messages in flight in a direction
  MaxDrops          \* bound: losses of a line, and expired keys

ASSUME SessionAssumption ==
  /\ None \notin Orders
  /\ Lots \in Nat \ {0}
  /\ {MaxQueue, MaxDrops} \subseteq Nat

NothingOpen == [o \in {} |-> "none"]

VARIABLES
  tline, tstopped,  \* the client of the trade api
  uline, ustopped,  \* the client of the user api; "down" and stopped before the first
  asking,           \* requests of a listen key under way
  failed,           \* the last of them to be answered has failed
  valid,            \* the venue accepts the key in the user api's url
  undefined,        \* a client was destroyed under its connection
  up, answers,      \* messages of the trade api in flight
  reports,          \* messages of the user api in flight
  orders,           \* orders of the exchange, the status reported to the OMS
  traded,           \* lots passed to on_trade
  rest,             \* the query of the open orders
  venue,            \* the venue's orders
  missed,           \* lots whose trade was in a report that was lost
  stale,            \* orders whose latest report the adapter cannot receive
  drops

tradeVars == <<tline, tstopped, up, answers>>
keyVars == <<asking, failed, valid, undefined>>
userVars == <<uline, ustopped, reports>>
orderVars == <<orders, traded>>
venueVars == <<venue, missed, stale>>
vars == <<tradeVars, keyVars, userVars, orderVars, rest, venueVars, drops>>

\* A client that does not exist yet is a stopped one: it starts when a key comes.
Trade == INSTANCE Link WITH line <- tline, stopped <- tstopped
User == INSTANCE Link WITH line <- uline, stopped <- ustopped

TypeOK ==
  /\ {tline, uline} \subseteq Trade!Lines
  /\ {tstopped, ustopped, failed, valid, undefined} \subseteq BOOLEAN
  /\ asking \in 0 .. MaxDrops + 2
  /\ tline # "up" => up = <<>> /\ answers = <<>>
  /\ Range(up) \subseteq [op : {"order", "cancel"}, o : Orders]
  /\ Range(answers) \subseteq [op : {"order"}, o : Orders, error : BOOLEAN]
  /\ uline # "up" => reports = <<>>
  /\ orders \in [Orders -> Status \cup {None}]
  /\ rest.at \in {"asked", "answered", "done"} /\ DOMAIN rest.open \subseteq Orders
  /\ venue \in [Orders -> [state : VenueStates, lots : 0 .. Lots]]
  /\ traded \in [Orders -> 0 .. Lots] /\ missed \in [Orders -> 0 .. Lots]
  /\ stale \subseteq Orders

\* on_query_contract has begun the two requests; the trade api was started with
\* the adapter.
Init ==
  /\ Trade!Init
  /\ uline = "down" /\ ustopped = TRUE
  /\ asking = 1 /\ failed = FALSE /\ valid = FALSE /\ undefined = FALSE
  /\ up = <<>> /\ answers = <<>> /\ reports = <<>>
  /\ orders = [o \in Orders |-> None]
  /\ traded = [o \in Orders |-> 0] /\ missed = [o \in Orders |-> 0]
  /\ rest = [at |-> "asked", open |-> NothingOpen]
  /\ stale \in SUBSET Orders
  /\ venue = [o \in Orders |-> [state |-> IF o \in stale THEN "live" ELSE "none", lots |-> 0]]
  /\ drops = 0
-------------------------------------------------------------------------------
(* The two lines.                                                            *)

Retry ==
  /\ \/ (Trade!Attempt \/ Trade!Open \/ Trade!Fail) /\ UNCHANGED <<uline, ustopped>>
     \/ (User!Attempt \/ (valid /\ User!Open) \/ User!Fail) /\ UNCHANGED <<tline, tstopped>>
  /\ UNCHANGED <<up, answers, keyVars, reports, orderVars, rest, venueVars, drops>>

\* Requests and answers in flight are lost with the trade line.
LoseTrade ==
  /\ up' = <<>> /\ answers' = <<>>
  /\ stale' = stale \cup {o \in Orders : Mentions(o, up, {"order"}) \/ Mentions(o, answers, {"order"})}
  /\ UNCHANGED <<venue, missed>>

\* on_disconnected of the trade api only logs.
OnTradeDisconnected ==
  /\ drops < MaxDrops \/ tline = "closing"
  /\ Trade!Drop
  /\ drops' = IF tline = "up" THEN drops + 1 ELSE drops
  /\ LoseTrade
  /\ UNCHANGED <<keyVars, userVars, orderVars, rest>>

\* Reports in flight are lost with the user line.
LoseReports ==
  /\ reports' = <<>>
  /\ stale' = stale \cup {o \in Orders : Mentions(o, reports, {"orders"})}
  /\ missed' = [o \in Orders |-> missed[o] + LotsIn(o, reports)]
  /\ UNCHANGED venue

\* Mutant of OnUserDisconnected: only the old url is tried again.
OnUserDisconnectedSilent ==
  /\ drops < MaxDrops \/ uline = "closing"
  /\ User!Drop
  /\ drops' = IF uline = "up" THEN drops + 1 ELSE drops
  /\ LoseReports
  /\ UNCHANGED <<tradeVars, keyVars, orderVars, rest>>

\* on_disconnected of the user api asks for a new key, while a client that is
\* not stopped also tries its old url again.
OnUserDisconnected ==
  /\ drops < MaxDrops \/ uline = "closing"
  /\ User!Drop
  /\ drops' = IF uline = "up" THEN drops + 1 ELSE drops
  /\ asking' = asking + 1
  /\ failed' = FALSE
  /\ LoseReports
  /\ UNCHANGED <<tradeVars, valid, undefined, orderVars, rest>>

\* on_start_user_stream: the new url starts a new client.  The old client is
\* destroyed; the handlers of its connection run on freed memory, and so does
\* that of a reconnect wait that has just expired.
OnStartUserStream ==
  /\ asking > 0
  /\ asking' = asking - 1
  /\ uline' = "opening" /\ ustopped' = FALSE
  /\ undefined' \in IF uline # "down" THEN {TRUE} ELSE {FALSE, ~ustopped}
  /\ valid' = TRUE
  /\ failed' = FALSE
  /\ LoseReports
  /\ UNCHANGED <<tradeVars, orderVars, rest, drops>>

\* The request fails: on_failed only logs.
StartUserStreamFails ==
  /\ asking > 0
  /\ asking' = asking - 1
  /\ failed' = TRUE
  /\ UNCHANGED <<tradeVars, userVars, valid, undefined, orderVars, rest, venueVars, drops>>

\* on_listen_key_expired stops the client.
OnListenKeyExpired ==
  /\ uline = "up" /\ reports # <<>> /\ Head(reports).op = "listenKeyExpired"
  /\ User!Stop
  /\ LoseReports
  /\ UNCHANGED <<tradeVars, keyVars, orderVars, rest, drops>>

\* close stops the two clients.
Close ==
  /\ ~tstopped
  /\ Trade!Stop
  /\ User!Stop
  /\ up' = <<>> /\ answers' = <<>>
  /\ IF uline = "up" THEN reports' = <<>> ELSE UNCHANGED reports
  /\ stale' = stale \cup {o \in Orders : \/ Mentions(o, up, {"order"}) \/ Mentions(o, answers, {"order"})
                                         \/ Mentions(o, reports, {"orders"})}
  /\ missed' = [o \in Orders |-> missed[o] + LotsIn(o, reports)]
  /\ UNCHANGED <<keyVars, orderVars, rest, venue, drops>>
-------------------------------------------------------------------------------
(* What the engines ask of the adapter.                                      *)

\* send_packet: a line that is down is logged; one that is closing throws.
CanSend == Len(up) < MaxQueue /\ tline # "closing"

Sent(m) == IF tline = "up" THEN Append(up, m) ELSE up

\* send_order, with a new id: the order is recorded as SUBMITTING, and kept for
\* the answer, whether or not the request can be sent.
SendOrder(o) ==
  /\ orders[o] = None /\ venue[o].state = "none"
  /\ CanSend
  /\ orders' = [orders EXCEPT ![o] = "SUBMITTING"]
  /\ up' = Sent([op |-> "order", o |-> o])
  /\ stale' = IF tline = "up" THEN stale ELSE stale \cup {o}
  /\ UNCHANGED <<tline, tstopped, answers, keyVars, userVars, traded, rest, venue, missed, drops>>

\* cancel_order, by the client's id.
CancelOrder(o) ==
  /\ orders[o] # None
  /\ CanSend
  /\ up' = Sent([op |-> "cancel", o |-> o])
  /\ UNCHANGED <<tline, tstopped, answers, keyVars, userVars, orderVars, rest, venueVars, drops>>
-------------------------------------------------------------------------------
(* What the venue sends.                                                     *)

\* Mutant of Rejected: a refused order is logged and forgotten.
RejectedNothing(o) == orders

Rejected(o) == [orders EXCEPT ![o] = "REJECTED"]

\* Mutant of OnSendOrder: an order that is accepted is reported as alive.
OnSendOrderConfirms ==
  /\ tline = "up" /\ answers # <<>>
  /\ answers' = Tail(answers)
  /\ orders' = IF Head(answers).error THEN Rejected(Head(answers).o)
               ELSE [orders EXCEPT ![Head(answers).o] = "NOTTRADED"]
  /\ UNCHANGED <<tline, tstopped, up, keyVars, userVars, traded, rest, venueVars, drops>>

\* on_send_order: an error rejects the order that reqid_order_map has kept.
OnSendOrder ==
  /\ tline = "up" /\ answers # <<>>
  /\ answers' = Tail(answers)
  /\ orders' = IF Head(answers).error THEN Rejected(Head(answers).o) ELSE orders
  /\ UNCHANGED <<tline, tstopped, up, keyVars, userVars, traded, rest, venueVars, drops>>

\* on_order: the order, then its trade if there is a fill.
OnOrder ==
  /\ uline = "up" /\ reports # <<>> /\ Head(reports).op = "orders"
  /\ LET m == Head(reports) IN
       /\ orders' = [orders EXCEPT ![m.o] = StatusOf(m.state)]
       /\ traded' = [traded EXCEPT ![m.o] = @ + m.fill]
  /\ reports' = Tail(reports)
  /\ UNCHANGED <<tradeVars, keyVars, uline, ustopped, rest, venueVars, drops>>

\* on_query_order: every open order of the answer is reported, however old the
\* answer is; a trade is not.
OnQueryOrder ==
  /\ rest.at = "answered"
  /\ rest' = [at |-> "done", open |-> NothingOpen]
  /\ LET open == DOMAIN rest.open
         old == {o \in open : rest.open[o] # venue[o].state}
         last == {o \in Orders : ~Mentions(o, reports, {"orders"})}
     IN /\ orders' = [o \in Orders |-> IF o \in open THEN StatusOf(rest.open[o]) ELSE orders[o]]
        /\ stale' = (stale \ ((open \ old) \cap last)) \cup (old \cap last)
  /\ UNCHANGED <<tradeVars, keyVars, userVars, traded, venue, missed, drops>>

QueryFails ==
  /\ rest.at = "asked"
  /\ rest' = [rest EXCEPT !.at = "done"]
  /\ UNCHANGED <<tradeVars, keyVars, userVars, orderVars, venueVars, drops>>
-------------------------------------------------------------------------------
(* The venue (external).                                                     *)

\* An order changes; it is reported on the user line, if there is one.
Report(o, state, fill) ==
  /\ venue' = [venue EXCEPT ![o] = [state |-> state, lots |-> @.lots + fill]]
  /\ IF uline = "up" /\ valid
     THEN /\ Len(reports) < MaxQueue
          /\ reports' = Append(reports, [op |-> "orders", o |-> o, state |-> state, fill |-> fill])
          /\ stale' = stale \ {o}
          /\ UNCHANGED missed
     ELSE /\ stale' = stale \cup {o}
          /\ missed' = [missed EXCEPT ![o] = @ + fill]
          /\ UNCHANGED reports

Reads(op) == tline = "up" /\ up # <<>> /\ Head(up).op = op /\ Len(answers) < MaxQueue /\ up' = Tail(up)

VenueOrder ==
  /\ Reads("order")
  /\ LET o == Head(up).o IN
     \/ /\ answers' = Append(answers, [op |-> "order", o |-> o, error |-> FALSE])
        /\ Report(o, "live", 0)
     \/ /\ answers' = Append(answers, [op |-> "order", o |-> o, error |-> TRUE])
        /\ venue' = [venue EXCEPT ![o].state = "rejected"]
        /\ UNCHANGED <<reports, missed, stale>>
  /\ UNCHANGED <<tline, tstopped, keyVars, uline, ustopped, orderVars, rest, drops>>

\* The answer to a cancel request has a handler that only logs.
VenueCancel ==
  /\ Reads("cancel")
  /\ LET o == Head(up).o IN
     IF venue[o].state \in Open THEN Report(o, "canceled", 0) ELSE UNCHANGED <<reports, venueVars>>
  /\ UNCHANGED <<tline, tstopped, answers, keyVars, uline, ustopped, orderVars, rest, drops>>

\* Fills, and cancels by hand or by the venue.
VenueMoves(o) ==
  /\ venue[o].state \in Open
  /\ \/ Report(o, IF venue[o].lots + 1 = Lots THEN "filled" ELSE "partially_filled", 1)
     \/ Report(o, "canceled", 0)
  /\ UNCHANGED <<tradeVars, keyVars, uline, ustopped, orderVars, rest, drops>>

VenueQuery ==
  /\ rest.at = "asked"
  /\ rest' = [at |-> "answered",
              open |-> [o \in {o \in Orders : venue[o].state \in Open} |-> venue[o].state]]
  /\ UNCHANGED <<tradeVars, keyVars, userVars, orderVars, venueVars, drops>>

\* The key expires; a stream that is up is told so.
KeyExpires ==
  /\ valid
  /\ drops < MaxDrops /\ drops' = drops + 1
  /\ valid' = FALSE
  /\ reports' = IF uline = "up" THEN Append(reports, [op |-> "listenKeyExpired", o |-> None, fill |-> 0])
                ELSE reports
  /\ UNCHANGED <<tradeVars, asking, failed, undefined, uline, ustopped, orderVars, rest, venueVars>>
-------------------------------------------------------------------------------
Handler == OnOrder \/ OnListenKeyExpired
Answer == OnStartUserStream \/ StartUserStreamFails

\* What the process does once it is undefined is not followed.
Next ==
  /\ ~undefined
  /\ \/ Retry \/ OnTradeDisconnected \/ OnUserDisconnected \/ Close
     \/ \E o \in Orders : SendOrder(o) \/ CancelOrder(o) \/ VenueMoves(o)
     \/ Handler \/ OnSendOrder \/ OnQueryOrder \/ QueryFails \/ Answer
     \/ VenueOrder \/ VenueCancel \/ VenueQuery \/ KeyExpires

Spec == Init /\ [][Next]_vars

\* Handlers run, requests are answered or fail, a closing handshake ends.
Fairness ==
  /\ WF_vars(~undefined /\ Handler)
  /\ WF_vars(~undefined /\ Answer)
  /\ WF_vars(~undefined /\ uline = "closing" /\ OnUserDisconnected)

FairSpec == Spec /\ Fairness
-------------------------------------------------------------------------------
(* Properties.                                                               *)

\* The OMS can be wrong about an order for these reasons only: a message about
\* it is in flight on one of the two lines; its request, its refusal or its
\* latest report was lost with a line, or fell while the stream was down; or
\* an answer to the query overwrote a newer report.
DriftExplained ==
  \A o \in Orders :
    \/ Mentions(o, up, {"order"}) \/ Mentions(o, answers, {"order"}) \/ Mentions(o, reports, {"orders"})
    \/ o \in stale
    \/ Agree(orders[o], venue[o].state)

\* Each lot the venue fills is passed to on_trade once, or is in flight, or was
\* in a report that was lost.
LotsAccounted ==
  \A o \in Orders : traded[o] + LotsIn(o, reports) + missed[o] = venue[o].lots

\* What the engines know of an order, its status and its lots, is wrong for the
\* reasons above only.
PictureExplained == TypeOK /\ DriftExplained /\ LotsAccounted

\* A finished order stays finished, although answers and reports come over two
\* lines, unless the answer to the query of the open orders arrives behind
\* newer reports.
FinishedStays ==
  [][\A o \in Orders : orders[o] \in Finished /\ orders'[o] \notin Finished
                      => rest.at = "answered" /\ rest'.at = "done"]_vars

\* When the key of a running stream expires the adapter gets a new one, however
\* the line drops or other requests are answered meanwhile, unless the request
\* fails (which ends the stream for good) or a client is destroyed under its
\* connection.
FreshKey ==
  uline \in {"up", "closing"} /\ ~valid ~> valid \/ failed \/ undefined
===============================================================================
