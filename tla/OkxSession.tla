------------------------------ MODULE OkxSession -------------------------------
(***************************************************************************)
(* The private session of the OKX adapter (core/exchange/okx_exchange.cpp): *)
(* login and subscription over a websocket (module Link), orders and their  *)
(* reports, and the query of the open orders by REST that is under way when *)
(* the session starts.  The handlers run on the main loop, one at a time.   *)
(* The venue is external; what is in flight when the line drops is lost.    *)
(***************************************************************************)
EXTENDS OrderReports

CONSTANTS
  Own,              \* orders of this process or an earlier one, with a client order id
  Manual,           \* orders placed by hand, without one
  Lots,             \* lots of an order
  MaxQueue,         \* bound: messages in flight in a direction
  MaxDrops          \* bound: losses of the line

Orders == Own \cup Manual

ASSUME SessionAssumption ==
  /\ None \notin Orders
  /\ Own \cap Manual = {}
  /\ Lots \in Nat \ {0}
  /\ {MaxQueue, MaxDrops} \subseteq Nat

VARIABLES
  line, stopped,    \* the websocket client
  logged,           \* the venue has logged this connection in
  subscribed,       \* the venue pushes order reports on this connection
  refused,          \* the venue has refused the login of this connection
  up, down,         \* messages in flight, to the venue and from it
  orders,           \* orders of the exchange, the status reported to the OMS
  local_orderids,   \* client order ids the adapter has seen in a report
  rest,             \* the query of the open orders
  traded,           \* lots passed to on_trade
  venue,            \* the venue's orders
  missed,           \* lots whose trade was in a report that was lost
  stale,            \* orders whose latest report the adapter cannot receive
  drops

linkVars == <<line, stopped, logged, subscribed, refused, drops>>
adapterVars == <<orders, local_orderids, traded>>
ghostVars == <<missed, stale>>
vars == <<linkVars, up, down, adapterVars, rest, venue, ghostVars>>

Link == INSTANCE Link

\* The data of a message to or from the venue.
Messages ==
  [op : {"login", "subscribe"}] \cup [op : {"order"}, o : Own]
  \cup [op : {"cancel-order"}, o : Orders, by : {"clOrdId", "ordId"}]
Pushes ==
  [op : {"login"}, ok : BOOLEAN] \cup [op : {"order"}, o : Own, code : {"accepted", "refused", "failed"}]
  \cup [op : {"orders"}, o : Orders, state : VenueStates, fill : 0 .. 1]

TypeOK ==
  /\ line \in Link!Lines
  /\ {stopped, logged, subscribed, refused} \subseteq BOOLEAN
  /\ subscribed => logged
  /\ logged \/ refused => line = "up"
  /\ line # "up" => up = <<>> /\ down = <<>>
  /\ Range(up) \subseteq Messages
  /\ Range(down) \subseteq Pushes
  /\ orders \in [Orders -> Status \cup {None}]
  /\ local_orderids \subseteq Own
  /\ rest.at \in {"asked", "answered", "done"} /\ DOMAIN rest.open \subseteq Orders
  /\ venue \in [Orders -> [state : VenueStates, lots : 0 .. Lots]]
  /\ traded \in [Orders -> 0 .. Lots] /\ missed \in [Orders -> 0 .. Lots]
  /\ stale \subseteq Orders

NothingOpen == [o \in {} |-> "none"]

\* on_query_contract has queried the open orders and connected; some orders are
\* open already.
Init ==
  /\ Link!Init
  /\ logged = FALSE /\ subscribed = FALSE /\ refused = FALSE
  /\ up = <<>> /\ down = <<>>
  /\ orders = [o \in Orders |-> None]
  /\ local_orderids = {}
  /\ rest = [at |-> "asked", open |-> NothingOpen]
  /\ stale \in SUBSET Orders
  /\ venue = [o \in Orders |-> [state |-> IF o \in stale THEN "live" ELSE "none", lots |-> 0]]
  /\ traded = [o \in Orders |-> 0] /\ missed = [o \in Orders |-> 0]
  /\ drops = 0
-------------------------------------------------------------------------------
(* The line.                                                                 *)

\* Mutant of OnConnected: the channels are subscribed without a login.
OnConnectedSubscribes ==
  /\ Link!Open
  /\ up' = <<[op |-> "subscribe"]>>
  /\ UNCHANGED <<logged, subscribed, refused, drops, down, adapterVars, rest, venue, ghostVars>>

\* on_connected: login.
OnConnected ==
  /\ Link!Open
  /\ up' = <<[op |-> "login"]>>
  /\ UNCHANGED <<logged, subscribed, refused, drops, down, adapterVars, rest, venue, ghostVars>>

Retry ==
  /\ Link!Attempt \/ Link!Fail
  /\ UNCHANGED <<logged, subscribed, refused, drops, up, down, adapterVars, rest, venue, ghostVars>>

About(o, q) == Mentions(o, q, {"order", "orders"})

\* Requests and reports in flight are lost with the connection.
Lose ==
  /\ logged' = FALSE /\ subscribed' = FALSE /\ refused' = FALSE
  /\ up' = <<>> /\ down' = <<>>
  /\ stale' = stale \cup {o \in Orders : About(o, up) \/ About(o, down)}
  /\ missed' = [o \in Orders |-> missed[o] + LotsIn(o, down)]
  /\ UNCHANGED <<adapterVars, rest, venue>>

\* The peer's close frame follows all it sent; on_disconnected only logs.
OnDisconnected ==
  /\ drops < MaxDrops \/ line = "closing"
  /\ \/ Link!Closing /\ down = <<>> /\ drops' = drops + 1
     \/ Link!Drop /\ drops' = IF line = "up" THEN drops + 1 ELSE drops
  /\ Lose

\* close stops the websocket client.
Close ==
  /\ ~stopped
  /\ Link!Stop
  /\ IF line = "up" THEN Lose ELSE UNCHANGED <<logged, subscribed, refused, up, down, adapterVars, rest, venue, ghostVars>>
  /\ UNCHANGED drops
-------------------------------------------------------------------------------
(* What the engines ask of the adapter.                                      *)

\* send_packet: a line that is down is logged; one that is closing throws.
CanSend == Len(up) < MaxQueue /\ line # "closing"

Sent(m) == IF line = "up" THEN Append(up, m) ELSE up

\* send_order, with a new id: the order is recorded as SUBMITTING whether or not
\* the request could be sent.
SendOrder(o) ==
  /\ o \in Own /\ orders[o] = None /\ venue[o].state = "none"
  /\ CanSend
  /\ up' = Sent([op |-> "order", o |-> o])
  /\ orders' = [orders EXCEPT ![o] = "SUBMITTING"]
  /\ stale' = IF line = "up" THEN stale ELSE stale \cup {o}
  /\ UNCHANGED <<linkVars, down, local_orderids, traded, rest, venue, missed>>

\* cancel_order of an order that the OMS has.
CancelOrder(o) ==
  /\ orders[o] # None
  /\ CanSend
  /\ up' = Sent([op |-> "cancel-order", o |-> o, by |-> IF o \in local_orderids THEN "clOrdId" ELSE "ordId"])
  /\ UNCHANGED <<linkVars, down, adapterVars, rest, venue, ghostVars>>
-------------------------------------------------------------------------------
(* What the venue sends (on_packet finds the handler by the name).           *)

Received(op) == line = "up" /\ down # <<>> /\ Head(down).op = op
Message == Head(down)

\* on_login; a failed login is only logged.
OnLogin ==
  /\ Received("login")
  /\ down' = Tail(down)
  /\ up' = IF Message.ok THEN Append(up, [op |-> "subscribe"]) ELSE up
  /\ UNCHANGED <<linkVars, adapterVars, rest, venue, ghostVars>>

\* parse_order_data takes note of the client order id.
Seen(os) == local_orderids \cup (os \ Manual)

\* Mutant of OnOrder: a finished order's last trade is not reported.
OnOrderEnds ==
  /\ Received("orders")
  /\ down' = Tail(down)
  /\ orders' = [orders EXCEPT ![Message.o] = StatusOf(Message.state)]
  /\ local_orderids' = Seen({Message.o})
  /\ traded' = IF Message.state = "filled" THEN traded ELSE [traded EXCEPT ![Message.o] = @ + Message.fill]
  /\ UNCHANGED <<linkVars, up, rest, venue, ghostVars>>

\* on_order: the order, then its trade if there is a fill.
OnOrder ==
  /\ Received("orders")
  /\ down' = Tail(down)
  /\ orders' = [orders EXCEPT ![Message.o] = StatusOf(Message.state)]
  /\ local_orderids' = Seen({Message.o})
  /\ traded' = [traded EXCEPT ![Message.o] = @ + Message.fill]
  /\ UNCHANGED <<linkVars, up, rest, venue, ghostVars>>

\* Mutant of Answered: an accepted order is reported as NOTTRADED.
AnsweredAlive(o, code) ==
  CASE code = "refused" -> "REJECTED" [] code = "accepted" -> "NOTTRADED" [] OTHER -> orders[o]

\* on_send_order: only the refusal of the order itself is reported.  When the
\* request fails as a whole, reqid_order_map, which nothing fills, is asked.
Answered(o, code) == IF code = "refused" THEN "REJECTED" ELSE orders[o]

OnSendOrder ==
  /\ Received("order")
  /\ down' = Tail(down)
  /\ orders' = [orders EXCEPT ![Message.o] = Answered(Message.o, Message.code)]
  /\ UNCHANGED <<linkVars, up, local_orderids, traded, rest, venue, ghostVars>>

\* on_query_order: every open order of the answer is reported, however old the
\* answer is; a trade is not.
OnQueryOrder ==
  /\ rest.at = "answered"
  /\ rest' = [at |-> "done", open |-> NothingOpen]
  /\ LET open == DOMAIN rest.open IN
       /\ orders' = [o \in Orders |-> IF o \in open THEN StatusOf(rest.open[o]) ELSE orders[o]]
       /\ local_orderids' = Seen(open)
       /\ stale' = {o \in stale : o \notin open \/ rest.open[o] # venue[o].state}
                   \cup {o \in open : rest.open[o] # venue[o].state /\ ~Mentions(o, down, {"orders"})}
  /\ UNCHANGED <<linkVars, up, down, traded, venue, missed>>

\* The request fails: on_failed only logs.
QueryFails ==
  /\ rest.at = "asked"
  /\ rest' = [rest EXCEPT !.at = "done"]
  /\ UNCHANGED <<linkVars, up, down, adapterVars, venue, ghostVars>>
-------------------------------------------------------------------------------
(* The venue (external).                                                     *)

\* A report may overtake an answer that is still in flight.
After(q, push) ==
  {Append(q, push)}
  \cup (IF q # <<>> /\ Last(q).op = "order" THEN {Front(q) \o <<push, Last(q)>>} ELSE {})

\* An order changes; it is reported if the session is subscribed.
Report(o, state, fill, answers) ==
  /\ Len(down) < MaxQueue
  /\ venue' = [venue EXCEPT ![o] = [state |-> state, lots |-> @.lots + fill]]
  /\ IF subscribed
     THEN /\ down' \in After(down \o answers, [op |-> "orders", o |-> o, state |-> state, fill |-> fill])
          /\ stale' = stale \ {o}
          /\ UNCHANGED missed
     ELSE /\ down' = down \o answers
          /\ stale' = stale \cup {o}
          /\ missed' = [missed EXCEPT ![o] = @ + fill]

Reads(op) == line = "up" /\ up # <<>> /\ Head(up).op = op /\ Len(down) < MaxQueue /\ up' = Tail(up)

VenueLogin ==
  /\ Reads("login")
  /\ \E ok \in BOOLEAN :
       /\ logged' = ok /\ refused' = ~ok
       /\ down' = Append(down, [op |-> "login", ok |-> ok])
  /\ UNCHANGED <<line, stopped, subscribed, drops, adapterVars, rest, venue, ghostVars>>

\* The confirmation has no handler.
VenueSubscribe ==
  /\ Reads("subscribe")
  /\ subscribed' = logged
  /\ UNCHANGED <<line, stopped, logged, refused, drops, down, adapterVars, rest, venue, ghostVars>>

VenueOrder ==
  /\ Reads("order")
  /\ LET o == Head(up).o
         answer(code) == <<[op |-> "order", o |-> o, code |-> code]>>
         rejected == [venue EXCEPT ![o].state = "rejected"]
     IN \/ logged /\ Report(o, "live", 0, answer("accepted"))
        \/ /\ logged
           /\ venue' = rejected
           /\ down' = down \o answer("refused")
           /\ UNCHANGED ghostVars
        \/ /\ venue' = rejected
           /\ down' = down \o answer("failed")
           /\ stale' = stale \cup {o} /\ UNCHANGED missed
  /\ UNCHANGED <<linkVars, adapterVars, rest>>

\* The answer to a cancel request has a handler that only logs.
VenueCancel ==
  /\ Reads("cancel-order")
  /\ LET m == Head(up) IN
     IF logged /\ venue[m.o].state \in Open /\ (m.by = "ordId" <=> m.o \in Manual)
     THEN Report(m.o, "canceled", 0, <<>>)
     ELSE UNCHANGED <<down, venue, ghostVars>>
  /\ UNCHANGED <<linkVars, adapterVars, rest>>

\* Fills, cancels by hand or by the venue, and orders placed by hand.
VenueMoves(o) ==
  /\ \/ /\ venue[o].state \in Open
        /\ \/ Report(o, IF venue[o].lots + 1 = Lots THEN "filled" ELSE "partially_filled", 1, <<>>)
           \/ Report(o, "canceled", 0, <<>>)
     \/ /\ o \in Manual /\ venue[o].state = "none"
        /\ Report(o, "live", 0, <<>>)
  /\ UNCHANGED <<linkVars, up, adapterVars, rest>>

\* The open orders as they are when the venue answers the query.
VenueQuery ==
  /\ rest.at = "asked"
  /\ rest' = [at |-> "answered",
              open |-> [o \in {o \in Orders : venue[o].state \in Open} |-> venue[o].state]]
  /\ UNCHANGED <<linkVars, up, down, adapterVars, venue, ghostVars>>
-------------------------------------------------------------------------------
Handler == OnLogin \/ OnOrder \/ OnSendOrder
VenueReads == VenueLogin \/ VenueSubscribe \/ VenueOrder \/ VenueCancel

Next ==
  \/ OnConnected \/ Retry \/ OnDisconnected \/ Close
  \/ \E o \in Orders : SendOrder(o) \/ CancelOrder(o) \/ VenueMoves(o)
  \/ Handler
  \/ OnQueryOrder \/ QueryFails
  \/ VenueReads \/ VenueQuery

Spec == Init /\ [][Next]_vars

\* The client attempts as Link promises, handlers run, the venue reads what it
\* was sent.  Nobody need send an order, and a login may always be refused.
Fairness ==
  /\ WF_vars(Retry \/ OnConnected)
  /\ WF_vars(line = "closing" /\ OnDisconnected)
  /\ WF_vars(Handler)
  /\ WF_vars(VenueReads)

FairSpec == Spec /\ Fairness
-------------------------------------------------------------------------------
(* Properties.                                                               *)

\* The OMS can be wrong about an order for these reasons only: a message about
\* it is still in flight; its request or its latest report was lost with the
\* line, or fell before the subscription, or was never sent; its request failed
\* as a whole; or an answer to the query overwrote a newer report.
DriftExplained ==
  \A o \in Orders : About(o, up) \/ About(o, down) \/ o \in stale \/ Agree(orders[o], venue[o].state)

\* Each lot the venue fills is passed to on_trade once, or is in flight, or was
\* in a report that was lost: the query of the open orders repeats none.
LotsAccounted ==
  \A o \in Orders : traded[o] + LotsIn(o, down) + missed[o] = venue[o].lots

\* What the engines assume of order events: a finished order stays finished,
\* whatever is lost or late, unless the answer to the query of the open orders
\* arrives behind newer reports.
FinishedStays ==
  [][\A o \in Orders : orders[o] \in Finished /\ orders'[o] \notin Finished
                      => rest.at = "answered" /\ rest'.at = "done"]_vars

\* A cancel request that the venue cannot place (an order with a client id is
\* asked for by the venue's id, or the reverse) is sent only for an order that
\* no report has mentioned yet.
ReportedIdsKnown ==
  \A o \in Orders :
    orders[o] \in {"NOTTRADED", "PARTTRADED", "ALLTRADED", "CANCELLED"}
      => (o \in local_orderids <=> o \notin Manual)

\* What the engines know of an order, its status, its lots and its id, is wrong
\* for the reasons above only.
PictureExplained == TypeOK /\ DriftExplained /\ LotsAccounted /\ ReportedIdsKnown

\* After every reconnect that the venue lets in the session is subscribed again.
Resubscribed == line = "up" ~> subscribed \/ refused \/ line # "up"
===============================================================================
