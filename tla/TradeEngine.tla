------------------------------ MODULE TradeEngine ------------------------------
(***************************************************************************)
(* TradeEngine of core/engine/engine.cpp as examples/trader/main.cpp uses it: *)
(* it builds the engines, which register their handlers with the emitter,     *)
(* takes exchanges and the CTA app, passes orders on to an exchange by its     *)
(* name, and is destroyed when the main loop has ended.  The email engine is   *)
(* that of module NotifyWorker, with its threads.                            *)
(***************************************************************************)
EXTENDS NotifyWorker

CONSTANTS
  MaxOrders,        \* bound: orders sent
  MaxReports        \* bound: reports of orders

ASSUME EngineAssumption == {MaxOrders, MaxReports} \subseteq Nat

\* The exchanges an app may name; main adds the first.
ExchangeNames == {"OKX", "BINANCE"}

\* The engines in the order of their names, in which the destructor closes them.
EngineNames == <<"CtaStrategy", "email", "log", "notice", "oms">>

\* The events that each class of engine registers for: LogEngine, which attaches its
\* listeners first, OmsEngine, and CtaEngine.
LogTypes == {"log"}
OmsTypes == {"tick", "order", "trade", "position", "account", "contract", "quote"}
CtaTypes == {"tick", "order", "trade"}

VARIABLES
  phase,            \* where main is, or "terminated"
  exchanges,        \* exchanges
  engines,          \* engines, those not yet destroyed
  handlers,         \* _handlers: event type and the class whose method it is
  connected,        \* exchanges whose connect went through
  classes,          \* strategy classes were loaded: "some", "none", or "unknown" before init_engine
  open,             \* orders that work at a venue: number and exchange
  orderCount,
  reports,          \* order events put on the bus
  reportCount,
  seen,             \* the order events each engine has handled
  early             \* those that were processed before the app registered

engineVars == <<phase, exchanges, engines, handlers, connected, classes, open, orderCount, reports, reportCount, seen, early>>
allVars == <<vars, engineVars>>

EngineInit ==
  /\ Init
  /\ phase = "construct"
  /\ exchanges = {} /\ engines = {} /\ handlers = {} /\ connected = {}
  /\ classes = "unknown"
  /\ open = {} /\ orderCount = 0 /\ reports = <<>> /\ reportCount = 0
  /\ seen = [e \in {"oms", "CtaStrategy"} |-> {}] /\ early = {}
-------------------------------------------------------------------------------
\* Mutant of Registers: a type has one handler, as in a map that is not a multimap.
RegistersOnce(hs, type, class) == \E h \in hs : h.type = type

\* Register: what a handler is known by is its class, among those of the event's type.
Registers(hs, type, class) == [type |-> type, class |-> class] \in hs

Registered(hs, types, class) ==
  hs \cup {[type |-> type, class |-> class] : type \in {t \in types : ~Registers(hs, t, class)}}

\* Whether init_engine of the app has run.
Initialized == classes # "unknown"

\* The constructor: init_engines.
Construct ==
  /\ phase = "construct"
  /\ phase' = "setup"
  /\ engines' = {"log", "oms", "email", "notice"}
  /\ handlers' = Registered(Registered(handlers, LogTypes, "log"), OmsTypes, "oms")
  /\ UNCHANGED <<vars, exchanges, connected, classes, open, orderCount, reports, reportCount, seen, early>>

\* connect, with a setting, without one, or with one that makes it throw.
Connects(names) == connected' \in SUBSET names

\* main: the handler for the app's log, an exchange and the app; connect.
Setup ==
  /\ phase = "setup"
  /\ phase' = "loop"
  /\ handlers' = Registered(handlers, {"cta_log"}, "log")
  /\ exchanges' = {"OKX"}
  /\ engines' = engines \cup {"CtaStrategy"}
  /\ Connects({"OKX"})
  /\ UNCHANGED <<vars, classes, open, orderCount, reports, reportCount, seen, early>>

\* load_strategy_class: the libraries in a folder, whatever is there, that load and have
\* both symbols.
LoadClasses == classes' \in {"none", "some"}

\* After ten seconds: init_engine of the app, with or without strategy classes.
InitApp ==
  /\ phase = "loop" /\ mpc = "idle"
  /\ ~Initialized
  /\ handlers' = Registered(handlers, CtaTypes, "CtaStrategy")
  /\ LoadClasses
  /\ UNCHANGED <<vars, phase, exchanges, engines, connected, open, orderCount, reports, reportCount, seen, early>>

\* get_exchange: an exchange that was not added, or is destroyed, is only logged.
Reaches(name) == name \in exchanges

\* send_order; an order reaches the venue of an exchange that is connected.
SendOrder(name) ==
  /\ phase = "loop" /\ mpc = "idle" /\ orderCount < MaxOrders
  /\ orderCount' = orderCount + 1
  /\ open' = IF Reaches(name) /\ name \in connected
             THEN open \cup {[n |-> orderCount, exchange |-> name]} ELSE open
  /\ UNCHANGED <<vars, phase, exchanges, engines, handlers, connected, classes, reports, reportCount, seen, early>>

\* What remains open when these orders are cancelled by their exchanges' names.
AfterCancel(os) == open \ {o \in os : Reaches(o.exchange)}

CancelOrder(o) ==
  /\ phase = "loop" /\ mpc = "idle"
  /\ open' = AfterCancel({o})
  /\ UNCHANGED <<vars, phase, exchanges, engines, handlers, connected, classes, orderCount, reports, reportCount, seen, early>>

\* A report of an order, put on the bus by an exchange.
Report ==
  /\ phase = "loop" /\ connected # {} /\ reportCount < MaxReports
  /\ reportCount' = reportCount + 1
  /\ reports' = Append(reports, reportCount')
  /\ UNCHANGED <<vars, phase, exchanges, engines, handlers, connected, classes, open, orderCount, seen, early>>

\* _process: each handler of the event's type is called.
ProcessReport ==
  /\ phase = "loop" /\ mpc = "idle" /\ reports # <<>>
  /\ LET called == {h.class : h \in {g \in handlers : g.type = "order"}} IN
       /\ seen' = [e \in DOMAIN seen |-> IF e \in called THEN seen[e] \cup {Head(reports)} ELSE seen[e]]
       /\ early' = IF Initialized THEN early ELSE early \cup {Head(reports)}
  /\ reports' = Tail(reports)
  /\ UNCHANGED <<vars, phase, exchanges, engines, handlers, connected, classes, open, orderCount, reportCount>>
-------------------------------------------------------------------------------
\* The main loop ends, and main deletes the trade engine.
EndLoop ==
  /\ phase = "loop" /\ mpc = "idle"
  /\ phase' = "exchanges"
  /\ UNCHANGED <<vars, exchanges, engines, handlers, connected, classes, open, orderCount, reports, reportCount, seen, early>>

\* ~TradeEngine: the exchanges are closed and deleted ...
DestroyExchanges ==
  /\ phase = "exchanges"
  /\ exchanges' = {} /\ connected' = {}
  /\ phase' = "engines"
  /\ UNCHANGED <<vars, engines, handlers, classes, open, orderCount, reports, reportCount, seen, early>>

\* ... and then the engines, in the order of their names.
NextEngine(e) ==
  /\ phase = "engines" /\ mpc = "idle"
  /\ \E i \in DOMAIN EngineNames :
       /\ EngineNames[i] = e /\ e \in engines
       /\ \A j \in 1 .. i - 1 : EngineNames[j] \notin engines


\* close of CtaEngine stops each strategy, which cancels its orders; its destructor
\* then casts a pair where it means its second and throws, if a class was loaded.
DestroyApp ==
  /\ NextEngine("CtaStrategy")
  /\ open' = AfterCancel(open)
  /\ engines' = engines \ {"CtaStrategy"}
  /\ phase' = IF classes = "some" THEN "terminated" ELSE phase
  /\ UNCHANGED <<vars, exchanges, handlers, connected, classes, orderCount, reports, reportCount, seen, early>>

\* close of the email engine joins its worker, if there is one.
CloseEmail ==
  /\ NextEngine("email") /\ active
  /\ Close
  /\ UNCHANGED engineVars

Destroy(e) ==
  /\ NextEngine(e) /\ e # "CtaStrategy" /\ (e = "email" => wpc \in {"none", "exited"})
  /\ engines' = engines \ {e}
  /\ UNCHANGED <<vars, phase, exchanges, handlers, connected, classes, open, orderCount, reports, reportCount, seen, early>>

\* main deletes the emitter, whose thread nobody has stopped: std::terminate.
DestroyEmitter ==
  /\ phase = "engines" /\ engines = {}
  /\ phase' = "terminated"
  /\ UNCHANGED <<vars, exchanges, engines, handlers, connected, classes, open, orderCount, reports, reportCount, seen, early>>

Shutdown ==
  \/ DestroyExchanges \/ DestroyApp \/ CloseEmail \/ DestroyEmitter
  \/ \E i \in DOMAIN EngineNames : Destroy(EngineNames[i])

Main ==
  \/ Construct \/ Setup \/ InitApp
  \/ \E name \in ExchangeNames : SendOrder(name)
  \/ \E o \in open : CancelOrder(o)
  \/ Report \/ ProcessReport
  \/ EndLoop \/ Shutdown

\* An email is sent by what runs in the main loop.
Sending == Send /\ phase = "loop"

EngineNext ==
  \/ ~Down /\ phase # "terminated" /\ Main
  \/ /\ phase # "terminated"
     /\ \/ ~Down /\ (Sending \/ StartThread \/ Activate \/ Push \/ Signal \/ Join)
        \/ WorkerStep
     /\ UNCHANGED engineVars

Running(A) == phase # "terminated" /\ A /\ UNCHANGED engineVars

EngineFairness ==
  /\ WF_allVars(~Down /\ phase # "terminated" /\ Shutdown)
  /\ WF_allVars(Running(~Down /\ (StartThread \/ Activate \/ Signal \/ Join)))
  /\ SF_allVars(Running(~Down /\ Push))
  /\ SF_allVars(Running(RunLock))
  /\ WF_allVars(Running(RunTest \/ RunWait \/ RunCheck \/ Deliver \/ DeliverThrows \/ Pop))

EngineSpec == EngineInit /\ [][EngineNext]_allVars /\ EngineFairness
-------------------------------------------------------------------------------
\* Every order event that was processed has reached the order management, and the
\* strategies but for those that came before the app was initialised.
ReportsReach ==
  \A n \in 1 .. reportCount :
    Contains(reports, n) \/ (n \in seen["oms"] /\ n \in seen["CtaStrategy"] \cup early)


\* Each message that was sent is delivered, unless the process ends first or the
\* worker ended before it delivered any: it ran before start had set _active.
EmailDelivered ==
  \A m \in 1 .. MaxMessages :
    sent >= m ~> Len(done) >= m \/ Down \/ phase = "terminated" \/ (wpc = "exited" /\ done = <<>>)

\* What the comment in stop_strategy says: it cancels all orders.  Closing the CTA
\* engine stops every strategy, so no order works any more once it is destroyed.
ShutdownCancels ==
  phase \in {"engines", "terminated"} /\ "CtaStrategy" \notin engines => open = {}
===============================================================================
