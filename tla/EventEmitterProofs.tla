-------------------------- MODULE EventEmitterProofs --------------------------
(***************************************************************************)
(* Safety of EventEmitter for every set of producers, every set of events   *)
(* and every bound: the invariants that TLC checks on the instance of       *)
(* MCThreads, and that every step of the emitter is a step of EventBus.     *)
(***************************************************************************)
EXTENDS EventEmitter, SequenceTheorems, TLAPS

\* The inductive invariant.  The stop protocol is what keeps the dispatcher
\* between its test of the queue and its pop on the safe side: _active falls
\* only under a running thread, and rises only when there is none.
StopProtocol ==
  /\ active => dpc \notin {"none", "exited"}
  /\ active => mpc \notin {"stopping", "join"}
  /\ ~active /\ mpc \notin {"stopping", "join"} => dpc = "none"
  /\ mpc \in {"stopping", "join"} => dpc # "none"

IInv ==
  /\ TypeOK
  /\ lock = Dispatcher <=> dpc \in Holding
  /\ StopProtocol
  /\ dpc = "check" => ~active \/ queue # <<>>
  /\ NonEmptyOnPop
  /\ NoLostWakeup
  /\ dpc # "post" => hand = <<>>
  /\ TimerChain

-------------------------------------------------------------------------------
(* The bus seen through the three places an event can be in.                 *)

\* Putting at the back of the deque puts at the back of the bus.
LEMMA AppendBack ==
  ASSUME NEW S, NEW s \in Seq(S), NEW q \in Seq(S), NEW e \in S
  PROVE  s \o Append(q, e) = Append(s \o q, e)
<1>1. /\ Append(q, e) = q \o <<e>>
      /\ s \o q \in Seq(S)
      /\ <<e>> \in Seq(S)
  BY AppendIsConcat, ConcatProperties
<1>2. Append(s \o q, e) = (s \o q) \o <<e>>
  BY <1>1, AppendIsConcat
<1>3. (s \o q) \o <<e>> = s \o (q \o <<e>>)
  BY <1>1, ConcatAssociative
<1> QED BY <1>1, <1>2, <1>3

\* Running the first task of the strand takes the head of the bus.
LEMMA TakeFront ==
  ASSUME NEW S, NEW s \in Seq(S), NEW q \in Seq(S), s # <<>>
  PROVE  /\ s \o q # <<>>
         /\ Tail(s) \o q = Tail(s \o q)
<1>1. /\ Tail(s) \in Seq(S)
      /\ Len(Tail(s)) = Len(s) - 1
      /\ \A i \in 1 .. Len(Tail(s)) : Tail(s)[i] = s[i + 1]
      /\ Len(s) \in Nat \ {0}
      /\ Len(q) \in Nat
  BY HeadTailProperties, EmptySeq, LenProperties
<1>2. /\ s \o q \in Seq(S)
      /\ Len(s \o q) = Len(s) + Len(q)
      /\ \A i \in 1 .. Len(s) + Len(q) : (s \o q)[i] = IF i <= Len(s) THEN s[i] ELSE q[i - Len(s)]
  BY ConcatProperties
<1>3. s \o q # <<>>
  BY <1>1, <1>2, EmptySeq
<1>4. /\ Tail(s \o q) \in Seq(S)
      /\ Len(Tail(s \o q)) = Len(s) + Len(q) - 1
      /\ \A i \in 1 .. Len(s) + Len(q) - 1 : Tail(s \o q)[i] = (s \o q)[i + 1]
  BY <1>2, <1>3, HeadTailProperties
<1>5. /\ Tail(s) \o q \in Seq(S)
      /\ Len(Tail(s) \o q) = Len(s) - 1 + Len(q)
      /\ \A i \in 1 .. Len(s) - 1 + Len(q) :
           (Tail(s) \o q)[i] = IF i <= Len(s) - 1 THEN Tail(s)[i] ELSE q[i - (Len(s) - 1)]
  BY <1>1, ConcatProperties
<1>6. \A i \in 1 .. Len(s) + Len(q) - 1 : Tail(s \o q)[i] = (Tail(s) \o q)[i]
  BY <1>1, <1>2, <1>4, <1>5
<1>7. Len(Tail(s \o q)) = Len(Tail(s) \o q)
  BY <1>1, <1>4, <1>5
<1>8. \A i \in 1 .. Len(Tail(s \o q)) : Tail(s \o q)[i] = (Tail(s) \o q)[i]
  BY <1>4, <1>6
<1>9. Tail(s \o q) = Tail(s) \o q
  BY <1>4, <1>5, <1>7, <1>8, SeqEqual
<1> QED BY <1>3, <1>9

\* Moving the head of the deque into the hand of _run changes nothing.
LEMMA PopToHand ==
  ASSUME NEW S, NEW s \in Seq(S), NEW q \in Seq(S), q # <<>>
  PROVE  (s \o <<Head(q)>>) \o Tail(q) = s \o q
<1>1. /\ Head(q) \in S
      /\ Tail(q) \in Seq(S)
      /\ Len(Tail(q)) = Len(q) - 1
      /\ \A i \in 1 .. Len(Tail(q)) : Tail(q)[i] = q[i + 1]
      /\ Len(q) \in Nat \ {0}
      /\ Head(q) = q[1]
  BY HeadTailProperties, EmptySeq
<1> DEFINE h == <<Head(q)>>
<1>2. h \in Seq(S) /\ Len(h) = 1 /\ h[1] = q[1]
  BY <1>1
<1> HIDE DEF h
<1>3. /\ h \o Tail(q) \in Seq(S)
      /\ Len(h \o Tail(q)) = Len(q)
      /\ \A i \in 1 .. Len(q) : (h \o Tail(q))[i] = IF i <= 1 THEN h[i] ELSE Tail(q)[i - 1]
  <2>1. /\ h \o Tail(q) \in Seq(S)
        /\ Len(h \o Tail(q)) = Len(h) + Len(Tail(q))
        /\ \A i \in 1 .. Len(h) + Len(Tail(q)) :
             (h \o Tail(q))[i] = IF i <= Len(h) THEN h[i] ELSE Tail(q)[i - Len(h)]
    BY <1>1, <1>2, ConcatProperties
  <2>2. Len(h) + Len(Tail(q)) = Len(q)
    BY <1>1, <1>2
  <2> QED BY <1>2, <2>1, <2>2
<1>4. ASSUME NEW i \in 1 .. Len(q)
      PROVE  (h \o Tail(q))[i] = q[i]
  <2>1. CASE i = 1 BY <2>1, <1>2, <1>3
  <2>2. CASE i > 1 BY <2>2, <1>1, <1>3
  <2>3. i = 1 \/ i > 1 BY <1>1
  <2> QED BY <2>1, <2>2, <2>3
<1>5. h \o Tail(q) = q
  <2>1. \A i \in 1 .. Len(h \o Tail(q)) : (h \o Tail(q))[i] = q[i]
    BY <1>3, <1>4
  <2> QED BY <1>3, <2>1, SeqEqual
<1>6. (s \o h) \o Tail(q) = s \o (h \o Tail(q))
  <2>1. Tail(q) \in Seq(S) /\ h \in Seq(S)
    BY <1>1, <1>2
  <2> QED
    BY <2>1, ConcatAssociative
<1> QED BY <1>5, <1>6 DEF h
-------------------------------------------------------------------------------
(* The invariant.                                                            *)

LEMMA InitInv == Init => IInv
<1> SUFFICES ASSUME Init PROVE IInv
  OBVIOUS
<1>1. TypeOK
  <2>1. <<>> \in Seq(Events)
    BY EmptySeq
  <2>2. queue \in Seq(Events) /\ hand \in Seq(Events) /\ strand \in Seq(Events)
    BY <2>1 DEF Init
  <2>3. starts \in 0 .. MaxStarts /\ ready \in Nat /\ waits \in {0, 1}
    BY EmitterAssumption DEF Init
  <2>4. lock \in Producers \cup {Dispatcher, NoThread}
    BY DEF Init
  <2>5. active \in BOOLEAN /\ flag \in BOOLEAN /\ loop \in BOOLEAN
    BY DEF Init
  <2>6. dpc \in DispatcherStates /\ mpc \in MainStates
    BY DEF Init, DispatcherStates, MainStates
  <2> QED BY <2>2, <2>3, <2>4, <2>5, <2>6 DEF TypeOK
<1>2. lock = Dispatcher <=> dpc \in Holding
  BY EmitterAssumption DEF Init, Holding
<1>3. StopProtocol /\ NonEmptyOnPop /\ NoLostWakeup /\ TimerChain
  BY DEF Init, StopProtocol, NonEmptyOnPop, NoLostWakeup, TimerChain, InHandler
<1>4. dpc # "check" /\ hand = <<>>
  BY DEF Init
<1> QED BY <1>1, <1>2, <1>3, <1>4 DEF IInv

\* The steps that append to the deque.
LEMMA PutInv ==
  ASSUME IInv, NEW t \in Producers, NEW e \in Events,
         PutPush(t, e) \/ PutSet(t) \/ TickPut
  PROVE  IInv'
<1> USE EmitterAssumption DEF Holding, DispatcherStates, MainStates
<1>1. CASE PutPush(t, e)
  BY <1>1, AppendProperties DEF PutPush, IInv, TypeOK, StopProtocol, NonEmptyOnPop, NoLostWakeup,
     TimerChain, InHandler, threadVars, timerVars
<1>2. CASE PutSet(t)
  BY <1>2 DEF PutSet, IInv, TypeOK, StopProtocol, NonEmptyOnPop, NoLostWakeup,
     TimerChain, InHandler, threadVars, timerVars, dataVars
<1>3. CASE TickPut
  BY <1>3, AppendProperties DEF TickPut, IInv, TypeOK, StopProtocol, NonEmptyOnPop, NoLostWakeup,
     TimerChain, InHandler, threadVars, timerVars
<1> QED BY <1>1, <1>2, <1>3

\* The steps of _run.
LEMMA DispatcherInv ==
  ASSUME IInv, DispatcherStep
  PROVE  IInv'
<1> USE EmitterAssumption DEF Holding, DispatcherStates, MainStates, IInv, TypeOK, StopProtocol,
      NonEmptyOnPop, NoLostWakeup, TimerChain, InHandler, threadVars, timerVars, dataVars
<1>1. CASE RunLock
  BY <1>1 DEF RunLock
<1>2. CASE RunTest
  BY <1>2 DEF RunTest
<1>3. CASE RunWait
  BY <1>3 DEF RunWait
<1>4. CASE RunCheck
  BY <1>4 DEF RunCheck
<1>5. CASE RunPop
  <2>1. /\ Head(queue) \in Events
        /\ Tail(queue) \in Seq(Events)
    BY <1>5, HeadTailProperties DEF RunPop
  <2>2. <<Head(queue)>> \in Seq(Events)
    BY <2>1
  <2> QED BY <1>5, <2>1, <2>2 DEF RunPop
<1>6. CASE RunPost
  BY <1>6, ConcatProperties, EmptySeq DEF RunPost
<1> QED BY <1>1, <1>2, <1>3, <1>4, <1>5, <1>6 DEF DispatcherStep

\* The steps of the main thread, and the passing of time.
LEMMA MainInv ==
  ASSUME IInv, MainStep \/ TimerExpire
  PROVE  IInv'
<1> USE EmitterAssumption DEF Holding, DispatcherStates, MainStates, IInv, TypeOK, StopProtocol,
      NonEmptyOnPop, NoLostWakeup, TimerChain, InHandler, threadVars, timerVars, dataVars, MainIdle, RunTimer
<1>1. CASE Process
  BY <1>1, HeadTailProperties DEF Process
<1>2. CASE TimerExpire
  BY <1>2 DEF TimerExpire
<1>3. CASE TimerFire
  BY <1>3 DEF TimerFire
<1>4. CASE TickPut
  BY <1>4, PutInv
<1>5. CASE Rearm
  BY <1>5 DEF Rearm
<1>6. CASE LoopExit
  BY <1>6 DEF LoopExit
<1>7. CASE Start
  BY <1>7 DEF Start
<1>8. CASE StopFlag
  BY <1>8 DEF StopFlag
<1>9. CASE StopSet
  BY <1>9 DEF StopSet
<1>10. CASE StopJoin
  BY <1>10 DEF StopJoin
<1> QED BY <1>1, <1>2, <1>3, <1>4, <1>5, <1>6, <1>7, <1>8, <1>9, <1>10 DEF MainStep

LEMMA NextInv == IInv /\ [Next]_vars => IInv'
<1> SUFFICES ASSUME IInv, [Next]_vars PROVE IInv'
  OBVIOUS
<1>1. CASE \E t \in Producers, e \in Events : PutPush(t, e)
  BY <1>1, PutInv
<1>2. CASE \E t \in Producers : PutSet(t)
  BY <1>2, PutInv, EmitterAssumption
<1>3. CASE DispatcherStep
  BY <1>3, DispatcherInv
<1>4. CASE MainStep \/ TimerExpire
  BY <1>4, MainInv
<1>5. CASE UNCHANGED vars
  BY <1>5 DEF vars, IInv, TypeOK, StopProtocol, NonEmptyOnPop, NoLostWakeup, TimerChain, InHandler, Holding
<1> QED BY <1>1, <1>2, <1>3, <1>4, <1>5 DEF Next

THEOREM Invariance == Spec => []IInv
<1>1. Init => IInv
  BY InitInv
<1>2. IInv /\ [Next]_vars => IInv'
  BY NextInv
<1> QED BY <1>1, <1>2, PTL DEF Spec

\* The emitter's variables keep their types; at most one wait is pending on the
\* timer however start, stop and the timer handler overlap.
THEOREM TypeCorrect == Spec => []TypeOK
<1>1. IInv => TypeOK
  BY DEF IInv
<1> QED BY <1>1, Invariance, PTL

\* The assertion of _run holds in every interleaving of puts, start and stop.
THEOREM AssertionHolds == Spec => []NonEmptyOnPop
<1>1. IInv => NonEmptyOnPop
  BY DEF IInv
<1> QED BY <1>1, Invariance, PTL

\* The unlocked window before Wait loses no wakeup.
THEOREM WakeupKept == Spec => []NoLostWakeup
<1>1. IInv => NoLostWakeup
  BY DEF IInv
<1> QED BY <1>1, Invariance, PTL

\* What the dispatcher hands over with the queue, the event and its flags: what it
\* pops is there, and it never sleeps on what it should see, in one statement.
THEOREM HandOffKept == Spec => []HandOff
<1>1. IInv => HandOff
  BY DEF IInv, HandOff
<1> QED BY <1>1, Invariance, PTL

\* A started emitter has a live timer chain, and never more than its starts.
THEOREM TimerChainKept == Spec => []TimerChain
<1>1. IInv => TimerChain
  BY DEF IInv
<1> QED BY <1>1, Invariance, PTL
-------------------------------------------------------------------------------
(* The refinement: each step puts, handles, switches or stutters.            *)

LEMMA PendingType == TypeOK => pending \in Seq(Events) /\ strand \o hand \in Seq(Events)
  BY ConcatProperties DEF TypeOK, pending

\* What each kind of step does to the bus.
LEMMA PutStep ==
  ASSUME TypeOK, NEW e \in Events, queue' = Append(queue, e), UNCHANGED <<strand, hand>>
  PROVE  pending' = Append(pending, e)
<1>1. strand \o hand \in Seq(Events) /\ queue \in Seq(Events)
  BY PendingType DEF TypeOK
<1>2. (strand \o hand) \o Append(queue, e) = Append((strand \o hand) \o queue, e)
  BY <1>1, AppendBack
<1> QED BY <1>2 DEF pending

LEMMA ProcessStep ==
  ASSUME TypeOK, Process
  PROVE  pending # <<>> /\ pending' = Tail(pending)
<1>1. /\ strand \in Seq(Events) /\ hand \in Seq(Events) /\ queue \in Seq(Events)
      /\ strand # <<>> /\ strand' = Tail(strand) /\ hand' = hand /\ queue' = queue
  BY DEF TypeOK, Process
<1>2. /\ strand \o hand # <<>>
      /\ Tail(strand) \o hand = Tail(strand \o hand)
  BY <1>1, TakeFront
<1>3. strand \o hand \in Seq(Events)
  BY PendingType
<1>4. /\ (strand \o hand) \o queue # <<>>
      /\ Tail(strand \o hand) \o queue = Tail((strand \o hand) \o queue)
  BY <1>1, <1>2, <1>3, TakeFront
<1> QED BY <1>1, <1>2, <1>4 DEF pending

LEMMA PopStep ==
  ASSUME IInv, RunPop
  PROVE  pending' = pending
<1>1. /\ strand \in Seq(Events) /\ queue \in Seq(Events) /\ queue # <<>> /\ hand = <<>>
      /\ hand' = <<Head(queue)>> /\ queue' = Tail(queue) /\ strand' = strand
  BY DEF IInv, TypeOK, RunPop
<1>2. (strand \o <<Head(queue)>>) \o Tail(queue) = strand \o queue
  BY <1>1, PopToHand
<1>3. strand \o <<>> = strand
  BY <1>1, ConcatEmptySeq
<1> QED BY <1>1, <1>2, <1>3 DEF pending

LEMMA PostStep ==
  ASSUME TypeOK, RunPost
  PROVE  pending' = pending
<1>1. strand' = strand \o hand /\ hand' = <<>> /\ queue' = queue
  BY DEF RunPost
<1>2. (strand \o hand) \o <<>> = strand \o hand
  BY PendingType, ConcatEmptySeq
<1> QED BY <1>1, <1>2 DEF pending

\* The actions that move no event.
OtherStep ==
  \/ \E t \in Producers : PutSet(t)
  \/ RunLock \/ RunTest \/ RunWait \/ RunCheck
  \/ TimerExpire \/ TimerFire \/ Rearm \/ LoopExit \/ Start \/ StopFlag \/ StopSet \/ StopJoin

LEMMA StillStep ==
  ASSUME OtherStep \/ UNCHANGED vars
  PROVE  pending' = pending
<1>1. UNCHANGED dataVars
  BY DEF OtherStep, PutSet, RunLock, RunTest, RunWait, RunCheck, TimerExpire, TimerFire, Rearm,
     LoopExit, Start, StopFlag, StopSet, StopJoin, vars, dataVars
<1> QED BY <1>1 DEF pending, dataVars

LEMMA NextRefines ==
  ASSUME IInv, [Next]_vars
  PROVE  [Bus!Next]_(Bus!vars)
<1> DEFINE on == active /\ loop
<1>0. TypeOK /\ TimerEvent \in Events
  BY EmitterAssumption DEF IInv
<1>1. CASE \E t \in Producers, e \in Events : PutPush(t, e)
  <2>1. PICK t \in Producers, e \in Events : PutPush(t, e)
    BY <1>1
  <2>2. pending' = Append(pending, e)
    BY <2>1, <1>0, PutStep DEF PutPush
  <2>3. on' = on
    BY <2>1 DEF PutPush, threadVars
  <2> QED BY <2>2, <2>3 DEF Bus!Next, Bus!Put
<1>2. CASE TickPut
  <2>1. pending' = Append(pending, TimerEvent)
    BY <1>2, <1>0, PutStep DEF TickPut
  <2>2. on' = on
    BY <1>2 DEF TickPut
  <2> QED BY <1>0, <2>1, <2>2 DEF Bus!Next, Bus!Put
<1>3. CASE Process
  <2>1. on' = on
    BY <1>3 DEF Process, threadVars
  <2> QED BY <1>3, <1>0, <2>1, ProcessStep DEF Bus!Next, Bus!Handle
<1>4. CASE RunPop \/ RunPost
  <2>1. on' = on
    BY <1>4 DEF RunPop, RunPost, threadVars
  <2> QED BY <1>4, <1>0, <2>1, PopStep, PostStep DEF Bus!vars
<1>5. CASE OtherStep \/ UNCHANGED vars
  <2>1. pending' = pending
    BY <1>5, StillStep
  <2>2. CASE on' = on
    BY <2>1, <2>2 DEF Bus!vars
  <2>3. CASE on' # on
    BY <2>1, <2>3 DEF Bus!Next, Bus!Switch
  <2> QED BY <2>2, <2>3
<1> QED BY <1>1, <1>2, <1>3, <1>4, <1>5 DEF Next, DispatcherStep, MainStep, OtherStep

\* Every behaviour of the emitter is a behaviour of the FIFO bus: no event is
\* lost, repeated or reordered between put and the handlers.
THEOREM Refinement == Spec => ImplementsBus
<1>1. Init => Bus!Init
  <2>1. <<>> \in Seq(Events)
    BY EmptySeq
  <2>2. <<>> \o <<>> = <<>>
    BY <2>1, ConcatEmptySeq
  <2> QED BY <2>2 DEF Init, Bus!Init, pending
<1>2. IInv /\ [Next]_vars => [Bus!Next]_(Bus!vars)
  BY NextRefines
<1> QED BY <1>1, <1>2, Invariance, PTL DEF Spec, ImplementsBus, Bus!Safety
===============================================================================
