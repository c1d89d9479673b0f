--------------------------- MODULE TradeEngineProofs ---------------------------
(***************************************************************************)
(* Safety of NotifyWorker and of TradeEngine.  For every number of messages: *)
(* the worker's types, and that messages are delivered once, in the order in *)
(* which they were sent.  For every number of orders, reports and emails: the *)
(* steps of TradeEngine are steps of the email engine or leave it alone, and  *)
(* reports reach the engines that registered for them.                        *)
(***************************************************************************)
EXTENDS TradeEngine, SequenceTheorems, TLAPS
-------------------------------------------------------------------------------
(* The worker: module NotifyWorker.                                          *)

\* Messages that have left the queue.
Popped == Len(done) - (IF wpc = "pop" THEN 1 ELSE 0)

\* Messages that were queued.
Queued == sent - (IF mpc \in {"start", "activate", "push"} THEN 1 ELSE 0)

\* What was delivered, and what waits: the queue is the block of numbers that
\* follows the popped ones.
Block ==
  /\ \A k \in 1 .. Len(done) : done[k] = k
  /\ \A k \in 1 .. Len(queue) : queue[k] = Popped + k
  /\ Popped + Len(queue) = Queued
  /\ Popped >= 0

\* The inductive invariant.  The worker delivers, and pops, what it saw in the
\* queue: the main loop only appends.  There is no worker to lock before the thread
\* is started, which happens only where _active is not set.
IInv ==
  /\ TypeOK
  /\ Block
  /\ wpc \in {"deliver", "pop"} => queue # <<>>
  /\ mpc \in {"start", "activate", "push"} => sent >= 1
  /\ mpc = "start" => ~active
  /\ ~active /\ mpc # "activate" => wpc = "none"

LEMMA InitInv == Init => IInv
<1> SUFFICES ASSUME Init PROVE IInv
  OBVIOUS
<1> USE NotifyAssumption
<1>1. queue \in Seq(1 .. MaxMessages) /\ done \in Seq(1 .. MaxMessages) /\ Len(queue) = 0 /\ Len(done) = 0
  BY EmptySeq DEF Init
<1>2. TypeOK
  <2>1. sent \in 0 .. MaxMessages
    BY DEF Init
  <2> QED
    BY <1>1, <2>1 DEF Init, TypeOK, WorkerStates, MainStates
<1>3. Block
  <2>1. Popped = 0 /\ Queued = 0
    <3>1. wpc # "pop" /\ mpc \notin {"start", "activate", "push"} /\ sent = 0
      BY DEF Init
    <3>2. Popped = Len(done) - 0
      BY <3>1 DEF Popped
    <3>3. Queued = 0 - 0
      BY <3>1 DEF Queued
    <3> QED
      BY <1>1, <3>2, <3>3
  <2> QED
    BY <1>1, <2>1 DEF Block
<1> QED
  BY <1>2, <1>3 DEF Init, IInv

\* The main loop: a call takes the next number, and appends it behind the block.
LEMMA MainInv == IInv /\ MainStep => IInv'
<1> SUFFICES ASSUME IInv, MainStep PROVE IInv'
  OBVIOUS
<1> USE NotifyAssumption
<1>1. CASE Send
  <2>1. TypeOK'
    BY <1>1 DEF IInv, TypeOK, Send, MainStates
  <2>2. Queued' = Queued /\ Popped' = Popped
    BY <1>1 DEF IInv, TypeOK, Send, Queued, Popped
  <2> QED
    BY <1>1, <2>1, <2>2 DEF IInv, TypeOK, Block, Send
<1>2. CASE StartThread
  <2>1. TypeOK'
    BY <1>2 DEF IInv, TypeOK, StartThread, MainStates, WorkerStates
  <2> QED
    BY <1>2, <2>1 DEF IInv, TypeOK, Block, StartThread, Queued, Popped
<1>3. CASE Activate
  BY <1>3 DEF IInv, TypeOK, Block, Activate, Queued, Popped, MainStates
<1>4. CASE Push
  <2>1. queue \in Seq(1 .. MaxMessages) /\ sent \in 1 .. MaxMessages
    BY <1>4 DEF IInv, TypeOK, Push
  <2>2. /\ queue' \in Seq(1 .. MaxMessages)
        /\ Len(queue') = Len(queue) + 1
        /\ \A k \in 1 .. Len(queue) : queue'[k] = queue[k]
        /\ queue'[Len(queue) + 1] = sent
    BY <1>4, <2>1, AppendProperties DEF Push
  <2>3. Popped' = Popped /\ Queued = sent - 1 /\ Queued' = sent
    BY <1>4, <2>1 DEF Push, Popped, Queued
  <2>4. Len(queue) \in Nat /\ Popped \in Int
    <3>1. Len(queue) \in Nat /\ Len(done) \in Nat
      BY <2>1, LenProperties DEF IInv, TypeOK
    <3> QED
      BY <3>1 DEF Popped
  <2>5. Block'
    <3>1. done' = done /\ Popped + Len(queue) = sent - 1 /\ Popped >= 0
      BY <1>4, <2>3 DEF IInv, Block, Push
    <3>2. ASSUME NEW k \in 1 .. Len(queue') PROVE queue'[k] = Popped + k
      <4>1. CASE k = Len(queue) + 1
        BY <2>1, <2>2, <2>4, <3>1, <4>1
      <4>2. CASE k \in 1 .. Len(queue)
        BY <2>2, <4>2 DEF IInv, Block
      <4> QED
        BY <2>2, <2>4, <4>1, <4>2
    <3>3. Popped + Len(queue') = sent
      BY <2>1, <2>2, <2>4, <3>1
    <3> QED
      BY <2>3, <3>1, <3>2, <3>3 DEF IInv, Block
  <2>6. TypeOK'
    BY <1>4, <2>2 DEF IInv, TypeOK, Push, MainStates
  <2> QED
    BY <1>4, <2>2, <2>4, <2>5, <2>6 DEF IInv, Push
<1>5. CASE Signal
  BY <1>5 DEF IInv, TypeOK, Block, Signal, Queued, Popped, MainStates
<1>6. CASE Close
  BY <1>6 DEF IInv, TypeOK, Block, Close, Queued, Popped, MainStates
<1>7. CASE Join
  BY <1>7 DEF IInv, TypeOK, Block, Join, Queued, Popped, MainStates, WorkerStates
<1> QED
  BY <1>1, <1>2, <1>3, <1>4, <1>5, <1>6, <1>7 DEF MainStep

\* The worker: it delivers the first of the block, then pops it.
LEMMA WorkerInv == IInv /\ WorkerStep => IInv'
<1> SUFFICES ASSUME IInv, WorkerStep PROVE IInv'
  OBVIOUS
<1> USE NotifyAssumption
<1>1. CASE RunLock
  BY <1>1 DEF IInv, TypeOK, Block, RunLock, mainVars, Queued, Popped, WorkerStates
<1>2. CASE RunTest
  BY <1>2 DEF IInv, TypeOK, Block, RunTest, mainVars, Queued, Popped, WorkerStates
<1>3. CASE RunWait
  BY <1>3 DEF IInv, TypeOK, Block, RunWait, mainVars, Queued, Popped, WorkerStates
<1>4. CASE RunCheck
  BY <1>4 DEF IInv, TypeOK, Block, RunCheck, mainVars, Queued, Popped, WorkerStates
<1>5. CASE Deliver
  <2>1. /\ queue \in Seq(1 .. MaxMessages) /\ queue # <<>>
        /\ done \in Seq(1 .. MaxMessages)
        /\ wpc = "deliver"
    BY <1>5 DEF IInv, TypeOK, Deliver
  <2>2. Len(queue) \in Nat \ {0} /\ Len(done) \in Nat /\ Head(queue) = queue[1] /\ Head(queue) \in 1 .. MaxMessages
    BY <2>1, HeadTailProperties, EmptySeq
  <2>3. Head(queue) = Len(done) + 1
    BY <2>1, <2>2 DEF IInv, Block, Popped
  <2>4. /\ done' \in Seq(1 .. MaxMessages)
        /\ Len(done') = Len(done) + 1
        /\ \A k \in 1 .. Len(done) : done'[k] = done[k]
        /\ done'[Len(done) + 1] = Head(queue)
    BY <1>5, <2>1, <2>2, AppendProperties DEF Deliver
  <2>5. Popped' = Popped /\ Queued' = Queued /\ queue' = queue
    BY <1>5, <2>1, <2>2, <2>4 DEF Deliver, Popped, Queued, mainVars
  <2>6. Block'
    BY <2>2, <2>3, <2>4, <2>5 DEF IInv, Block
  <2>7. TypeOK'
    BY <1>5, <2>4 DEF IInv, TypeOK, Deliver, mainVars, WorkerStates
  <2> QED
    BY <1>5, <2>1, <2>6, <2>7 DEF IInv, Deliver, mainVars
<1>6. CASE DeliverThrows
  BY <1>6 DEF IInv, TypeOK, Block, DeliverThrows, mainVars, Queued, Popped, WorkerStates
<1>7. CASE Pop
  <2>1. /\ queue \in Seq(1 .. MaxMessages) /\ queue # <<>>
        /\ wpc = "pop" /\ wpc' = "lock" /\ Len(done) \in Nat
    BY <1>7 DEF IInv, TypeOK, Pop
  <2>2. /\ queue' \in Seq(1 .. MaxMessages)
        /\ Len(queue) \in Nat \ {0}
        /\ Len(queue') = Len(queue) - 1
        /\ \A k \in 1 .. Len(queue') : queue'[k] = queue[k + 1]
    BY <1>7, <2>1, HeadTailProperties, EmptySeq DEF Pop
  <2>3. Popped' = Popped + 1 /\ Popped \in Int /\ Queued' = Queued /\ done' = done
    BY <1>7, <2>1 DEF Pop, Popped, Queued, mainVars
  <2>4. Block'
    BY <2>2, <2>3 DEF IInv, Block
  <2>5. TypeOK'
    BY <1>7, <2>2 DEF IInv, TypeOK, Pop, mainVars, WorkerStates
  <2> QED
    BY <1>7, <2>1, <2>4, <2>5 DEF IInv, Pop, mainVars
<1> QED
  BY <1>1, <1>2, <1>3, <1>4, <1>5, <1>6, <1>7 DEF WorkerStep

\* Every step keeps the invariant.
LEMMA NextInv == IInv /\ [Next]_vars => IInv'
<1>1. IInv /\ UNCHANGED vars => IInv'
  BY DEF IInv, TypeOK, Block, Queued, Popped, vars
<1> QED
  BY <1>1, MainInv, WorkerInv DEF Next

\* The invariant holds in every state of the two engines.
THEOREM Invariance == Spec => []IInv
<1> QED
  BY InitInv, NextInv, PTL DEF Spec

\* The variables keep their types, and m_CS has one owner: the worker exactly
\* while run holds it, the main loop exactly between the push and the signal.
THEOREM WorkerTypes == Spec => []TypeOK
<1>1. IInv => TypeOK
  BY DEF IInv
<1> QED
  BY <1>1, Invariance, PTL

\* The block bounds what was sent: each number is delivered, queued or on its way.
LEMMA OrderFromBlock == IInv => DeliveredInOrder
<1> SUFFICES ASSUME IInv, NEW m \in 1 .. sent, m > Len(done),
                    ~(m = sent /\ mpc \in {"start", "activate", "push"})
             PROVE  Contains(queue, m)
  BY DEF IInv, Block, DeliveredInOrder
<1>1. Len(queue) \in Nat /\ Len(done) \in Nat /\ sent \in Nat
  BY NotifyAssumption DEF IInv, TypeOK
<1>2. Popped \in Nat /\ Popped <= Len(done) /\ m <= Popped + Len(queue)
  BY <1>1 DEF IInv, Block, Popped, Queued
<1>3. m - Popped \in 1 .. Len(queue) /\ queue[m - Popped] = m
  BY <1>1, <1>2 DEF IInv, Block
<1> QED
  BY <1>3 DEF Contains

\* However many messages are sent, they are delivered once and in order, and
\* none is lost between send_email and the delivery.
THEOREM InOrder == Spec => []DeliveredInOrder
<1> QED
  BY OrderFromBlock, Invariance, PTL
-------------------------------------------------------------------------------
(* The trade engine.                                                         *)

Phases == {"construct", "setup", "loop", "exchanges", "engines", "terminated"}

OmsHandler == [type |-> "order", class |-> "oms"]
CtaHandler == [type |-> "order", class |-> "CtaStrategy"]

\* Who has registered for order events: the order management from the constructor
\* on, the strategies once the app is initialised.
HandlersInv ==
  /\ phase \in Phases
  /\ phase # "construct" => OmsHandler \in handlers
  /\ Initialized => CtaHandler \in handlers

\* A report waits on the bus or was handled by those who had registered.
ReportsInv ==
  /\ reportCount \in Nat
  /\ reports \in Seq(Nat)
  /\ DOMAIN seen = {"oms", "CtaStrategy"}
  /\ ReportsReach

EInv == HandlersInv /\ ReportsInv
-------------------------------------------------------------------------------
\* Registering keeps what is registered, and has an entry for each of the types.
LEMMA RegisteredHas ==
  ASSUME NEW hs, NEW types, NEW class
  PROVE  /\ hs \subseteq Registered(hs, types, class)
         /\ \A type \in types : [type |-> type, class |-> class] \in Registered(hs, types, class)
BY DEF Registered, Registers

\* A step of the trade engine is a step of the email engine or leaves it alone.
LEMMA EmailStep == [EngineNext]_allVars => [Next]_vars
<1> SUFFICES ASSUME [EngineNext]_allVars PROVE [Next]_vars
  OBVIOUS
<1>1. CASE UNCHANGED allVars
  BY <1>1 DEF allVars
<1>2. CASE ~Down /\ phase # "terminated" /\ Main
  <2>1. CASE CloseEmail
    BY <1>2, <2>1 DEF CloseEmail, Next, MainStep
  <2>2. CASE Main /\ ~CloseEmail
    BY <2>2 DEF Main, Shutdown, Construct, Setup, InitApp, SendOrder, CancelOrder, Report, ProcessReport,
      EndLoop, DestroyExchanges, DestroyApp, Destroy, DestroyEmitter
  <2> QED
    BY <1>2, <2>1, <2>2
<1>3. CASE ~Down /\ (Sending \/ StartThread \/ Activate \/ Push \/ Signal \/ Join)
  BY <1>3 DEF Sending, Next, MainStep
<1>4. CASE WorkerStep
  BY <1>4 DEF Next
<1> QED
  BY <1>1, <1>2, <1>3, <1>4 DEF EngineNext

\* The email engine keeps its invariant inside the trade engine.
THEOREM EmailInvariance == EngineSpec => []IInv
<1>1. EngineInit => IInv
  BY InitInv DEF EngineInit
<1>2. IInv /\ [EngineNext]_allVars => IInv'
  BY EmailStep, NextInv
<1> QED
  BY <1>1, <1>2, PTL DEF EngineSpec

\* Emails are delivered once and in order whatever the trade engine does beside
\* them, its shutdown included.
THEOREM EmailsInOrder == EngineSpec => []DeliveredInOrder
<1> QED
  BY EmailInvariance, OrderFromBlock, PTL
-------------------------------------------------------------------------------
LEMMA EngineInitInv == EngineInit => EInv
<1> SUFFICES ASSUME EngineInit PROVE EInv
  OBVIOUS
<1>1. HandlersInv
  BY DEF EngineInit, HandlersInv, Phases, Initialized
<1>2. reports \in Seq(Nat)
  BY EmptySeq DEF EngineInit
<1>3. ReportsReach
  BY DEF EngineInit, ReportsReach
<1> QED
  BY <1>1, <1>2, <1>3 DEF EngineInit, EInv, ReportsInv

\* What neither touches the bus nor the handlers keeps what was reported.
LEMMA ReportsUnchanged ==
  ReportsInv /\ UNCHANGED <<reports, reportCount, seen, early>> => ReportsInv'
BY DEF ReportsInv, ReportsReach

\* A report is appended: those before it still wait, or were handled.
LEMMA ReportKeeps == EInv /\ Report => ReportsInv'
<1> SUFFICES ASSUME EInv, Report PROVE ReportsInv'
  OBVIOUS
<1>1. reportCount \in Nat /\ reports \in Seq(Nat) /\ reportCount' = reportCount + 1
  BY DEF EInv, ReportsInv, Report
<1>2. /\ reports' \in Seq(Nat)
      /\ Len(reports) \in Nat
      /\ Len(reports') = Len(reports) + 1
      /\ \A i \in 1 .. Len(reports) : reports'[i] = reports[i]
      /\ reports'[Len(reports) + 1] = reportCount + 1
  BY <1>1, AppendProperties, LenProperties DEF Report
<1>3. ASSUME NEW n \in 1 .. reportCount'
      PROVE  Contains(reports', n) \/ (n \in seen["oms"] /\ n \in seen["CtaStrategy"] \cup early)
  <2>1. CASE n = reportCount + 1
    BY <1>2, <2>1 DEF Contains
  <2>2. CASE n \in 1 .. reportCount
    <3>1. Contains(reports, n) => Contains(reports', n)
      BY <1>2 DEF Contains
    <3> QED
      BY <2>2, <3>1 DEF EInv, ReportsInv, ReportsReach
  <2> QED
    BY <1>1, <1>3, <2>1, <2>2
<1>4. seen' = seen /\ early' = early
  BY DEF Report
<1> QED
  BY <1>1, <1>2, <1>3, <1>4 DEF EInv, ReportsInv, ReportsReach

\* The first report is handled: by the order management, which has registered, and
\* by the strategies or as one that came too early for them.
LEMMA ProcessKeeps == EInv /\ ProcessReport => ReportsInv'
<1> SUFFICES ASSUME EInv, ProcessReport PROVE ReportsInv'
  OBVIOUS
<1> DEFINE called == {h.class : h \in {g \in handlers : g.type = "order"}}
<1>1. /\ reports \in Seq(Nat) /\ reports # <<>> /\ reports' = Tail(reports)
      /\ reportCount' = reportCount /\ reportCount \in Nat
      /\ DOMAIN seen = {"oms", "CtaStrategy"}
  BY DEF EInv, ReportsInv, ProcessReport
<1>2. /\ reports' \in Seq(Nat)
      /\ Len(reports) \in Nat \ {0} /\ Len(reports') = Len(reports) - 1
      /\ Head(reports) = reports[1]
      /\ \A i \in 1 .. Len(reports') : reports'[i] = reports[i + 1]
  BY <1>1, HeadTailProperties, EmptySeq
<1>3. "oms" \in called
  <2>1. OmsHandler \in {g \in handlers : g.type = "order"} /\ OmsHandler.class = "oms"
    BY DEF EInv, HandlersInv, ProcessReport, OmsHandler
  <2> QED
    BY <2>1
<1>4. Initialized => "CtaStrategy" \in called
  <2> SUFFICES ASSUME Initialized PROVE "CtaStrategy" \in called
    OBVIOUS
  <2>1. CtaHandler \in {g \in handlers : g.type = "order"} /\ CtaHandler.class = "CtaStrategy"
    BY DEF EInv, HandlersInv, CtaHandler
  <2> QED
    BY <2>1
<1>5. /\ seen' = [e \in DOMAIN seen |-> IF e \in called THEN seen[e] \cup {Head(reports)} ELSE seen[e]]
      /\ early' = IF Initialized THEN early ELSE early \cup {Head(reports)}
  BY DEF ProcessReport
<1> HIDE DEF called
<1>6. /\ DOMAIN seen' = {"oms", "CtaStrategy"}
      /\ seen'["oms"] = seen["oms"] \cup {Head(reports)}
      /\ Head(reports) \in seen'["CtaStrategy"] \cup early'
      /\ seen["CtaStrategy"] \cup early \subseteq seen'["CtaStrategy"] \cup early'
  BY <1>1, <1>3, <1>4, <1>5
<1>7. ASSUME NEW n \in 1 .. reportCount
      PROVE  Contains(reports', n) \/ (n \in seen'["oms"] /\ n \in seen'["CtaStrategy"] \cup early')
  <2>1. CASE n = Head(reports)
    BY <1>6, <2>1
  <2>2. CASE n # Head(reports) /\ Contains(reports, n)
    <3>1. PICK i \in 1 .. Len(reports) : reports[i] = n
      BY <2>2 DEF Contains
    <3>2. i # 1 /\ i - 1 \in 1 .. Len(reports') /\ reports'[i - 1] = n
      BY <1>2, <2>2, <3>1
    <3> QED
      BY <3>2 DEF Contains
  <2>3. CASE n \in seen["oms"] /\ n \in seen["CtaStrategy"] \cup early
    BY <1>6, <2>3
  <2> QED
    BY <2>1, <2>2, <2>3 DEF EInv, ReportsInv, ReportsReach
<1> QED
  BY <1>1, <1>2, <1>6, <1>7 DEF ReportsInv, ReportsReach

\* Every step keeps the invariant.
LEMMA EngineNextInv == EInv /\ [EngineNext]_allVars => EInv'
<1> SUFFICES ASSUME EInv, [EngineNext]_allVars PROVE EInv'
  OBVIOUS
<1> USE DEF EInv, HandlersInv, Initialized
<1>1. CASE UNCHANGED engineVars
  BY <1>1, ReportsUnchanged DEF engineVars
<1>2. CASE Construct
  <2>1. OmsHandler \in handlers'
    BY <1>2, RegisteredHas DEF Construct, OmsTypes, OmsHandler
  <2>2. handlers \subseteq handlers'
    <3> DEFINE mid == Registered(handlers, LogTypes, "log")
    <3>1. handlers \subseteq mid
      BY RegisteredHas
    <3>2. handlers' = Registered(mid, OmsTypes, "oms")
      BY <1>2 DEF Construct
    <3> HIDE DEF mid
    <3> QED
      BY <3>1, <3>2, RegisteredHas
  <2>3. ReportsInv'
    BY <1>2, ReportsUnchanged DEF Construct
  <2> QED
    BY <1>2, <2>1, <2>2, <2>3 DEF Construct, Phases
<1>3. CASE Setup
  <2>1. handlers \subseteq handlers'
    BY <1>3, RegisteredHas DEF Setup
  <2>2. ReportsInv'
    BY <1>3, ReportsUnchanged DEF Setup
  <2> QED
    BY <1>3, <2>1, <2>2 DEF Setup, Phases
<1>4. CASE InitApp
  <2>1. handlers \subseteq handlers' /\ CtaHandler \in handlers'
    BY <1>4, RegisteredHas DEF InitApp, CtaTypes, CtaHandler
  <2>2. ReportsInv'
    BY <1>4, ReportsUnchanged DEF InitApp
  <2> QED
    BY <1>4, <2>1, <2>2 DEF InitApp, Phases
<1>5. ASSUME NEW name, SendOrder(name) PROVE EInv'
  BY <1>5, ReportsUnchanged DEF SendOrder
<1>6. ASSUME NEW o, CancelOrder(o) PROVE EInv'
  BY <1>6, ReportsUnchanged DEF CancelOrder
<1>7. CASE Report
  BY <1>7, ReportKeeps DEF Report
<1>8. CASE ProcessReport
  BY <1>8, ProcessKeeps DEF ProcessReport
<1>9. CASE EndLoop
  BY <1>9, ReportsUnchanged DEF EndLoop, Phases
<1>10. CASE DestroyExchanges
  BY <1>10, ReportsUnchanged DEF DestroyExchanges, Phases
<1>11. CASE DestroyApp
  BY <1>11, ReportsUnchanged DEF DestroyApp, NextEngine, Phases
<1>12. ASSUME NEW e, Destroy(e) PROVE EInv'
  BY <1>12, ReportsUnchanged DEF Destroy
<1>13. CASE DestroyEmitter
  BY <1>13, ReportsUnchanged DEF DestroyEmitter, Phases
<1>14. CASE CloseEmail
  BY <1>1, <1>14 DEF CloseEmail
<1> QED
  BY <1>1, <1>2, <1>3, <1>4, <1>5, <1>6, <1>7, <1>8, <1>9, <1>10, <1>11, <1>12, <1>13, <1>14
     DEF EngineNext, Main, Shutdown, allVars, engineVars

\* The invariant holds in every state.
LEMMA EngineInvariance == EngineSpec => []EInv
<1> QED
  BY EngineInitInv, EngineNextInv, PTL DEF EngineSpec

\* However many reports there are, each that was processed has reached the order
\* management, and the strategies but for those that came before init_engine.
THEOREM ReportsDelivered == EngineSpec => []ReportsReach
<1>1. EInv => ReportsReach
  BY DEF EInv, ReportsInv
<1> QED
  BY <1>1, EngineInvariance, PTL
===============================================================================
