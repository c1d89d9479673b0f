----------------------------- MODULE EventEmitter -----------------------------
(***************************************************************************)
(* EventEmitterImpl of core/event/event.cpp: producers append to a deque    *)
(* under m_CS and set the binary event m_QueueNonempty; a dispatcher thread *)
(* (_run) waits for it, pops one event at a time and posts it to the strand *)
(* of the main loop, which runs the handlers (_process); a steady timer of  *)
(* the main loop puts EVENT_TIMER.  start and stop are called by the main   *)
(* thread and write _active without the lock, so every read of it by the    *)
(* dispatcher is a step of its own.                                         *)
(***************************************************************************)
EXTENDS Naturals, Sequences

CONSTANTS
  Main,             \* the thread that runs the main loop, start and stop
  Producers,        \* the threads that call put, the main thread among them
  Dispatcher,       \* the thread that runs _run
  NoThread,         \* m_CS is free
  Events,           \* the events
  TimerEvent,       \* EVENT_TIMER
  MaxPending,       \* bound: events under way before a producer pauses
  MaxStarts         \* bound: calls of start

ASSUME EmitterAssumption ==
  /\ Main \in Producers
  /\ Dispatcher \notin Producers
  /\ NoThread \notin Producers \cup {Dispatcher}
  /\ TimerEvent \in Events
  /\ MaxPending \in Nat
  /\ MaxStarts \in Nat

VARIABLES
  active,           \* _active
  queue,            \* _queue
  flag,             \* m_QueueNonempty.m_ShouldContinue
  lock,             \* the owner of m_CS
  dpc,              \* where _run is, "none" when there is no thread to join
  hand,             \* the local event of _run, as a sequence of at most one
  strand,           \* the tasks posted to the main loop and not yet run
  loop,             \* whether io_service.run has not returned
  mpc,              \* where the main thread is in stop or in the timer handler
  waits,            \* async_wait operations of _timer that are pending
  ready,            \* expired waits whose handler the main loop has to run
  starts            \* calls of start so far

threadVars == <<active, loop, mpc, starts>>
timerVars == <<waits, ready>>
dataVars == <<queue, hand, strand>>
vars == <<active, queue, flag, lock, dpc, hand, strand, loop, mpc, waits, ready, starts>>

\* Every event put and not yet handled, oldest first.
pending == (strand \o hand) \o queue

DispatcherStates == {"none", "lock", "test", "wait", "check", "pop", "post", "exited"}
MainStates == {"idle", "tick", "rearm", "stopping", "join"}

\* The states of _run in which it owns m_CS.
Holding == {"test", "check", "pop"}

TypeOK ==
  /\ active \in BOOLEAN
  /\ queue \in Seq(Events)
  /\ flag \in BOOLEAN
  /\ lock \in Producers \cup {Dispatcher, NoThread}
  /\ dpc \in DispatcherStates
  /\ hand \in Seq(Events)
  /\ strand \in Seq(Events)
  /\ loop \in BOOLEAN
  /\ mpc \in MainStates
  /\ waits \in {0, 1}
  /\ ready \in Nat
  /\ starts \in 0 .. MaxStarts

Init ==
  /\ active = FALSE
  /\ queue = <<>>
  /\ flag = FALSE
  /\ lock = NoThread
  /\ dpc = "none"
  /\ hand = <<>>
  /\ strand = <<>>
  /\ loop = TRUE
  /\ mpc = "idle"
  /\ waits = 0
  /\ ready = 0
  /\ starts = 0
-------------------------------------------------------------------------------
(* put: push_back, then Set, both inside the critical section.  Set uses a   *)
(* mutex of its own, so the dispatcher can enter or leave Wait in between.   *)

PutPush(t, e) ==
  /\ lock = NoThread
  /\ t = Main => mpc = "idle"
  /\ Len(pending) < MaxPending
  /\ queue' = Append(queue, e)
  /\ lock' = t
  /\ UNCHANGED <<threadVars, timerVars, flag, dpc, hand, strand>>

\* Mutant of PutSet: put forgets to wake the dispatcher.
PutSetWithoutWake(t) ==
  /\ lock = t
  /\ lock' = NoThread
  /\ UNCHANGED <<threadVars, timerVars, dataVars, flag, dpc>>

PutSet(t) ==
  /\ lock = t
  /\ flag' = TRUE
  /\ lock' = NoThread
  /\ UNCHANGED <<threadVars, timerVars, dataVars, dpc>>
-------------------------------------------------------------------------------
(* _run, the dispatcher thread.                                              *)

RunLock ==
  /\ dpc = "lock"
  /\ lock = NoThread
  /\ lock' = Dispatcher
  /\ dpc' = "test"
  /\ UNCHANGED <<threadVars, timerVars, dataVars, flag>>

\* while (_active && _queue.size() == 0) { unlock; ... }
RunTest ==
  /\ dpc = "test"
  /\ IF active /\ queue = <<>>
     THEN dpc' = "wait" /\ lock' = NoThread
     ELSE dpc' = "check" /\ UNCHANGED lock
  /\ UNCHANGED <<threadVars, timerVars, dataVars, flag>>

\* m_QueueNonempty.Wait() returns and the critical section is entered again.
RunWait ==
  /\ dpc = "wait"
  /\ flag
  /\ flag' = FALSE
  /\ dpc' = "lock"
  /\ UNCHANGED <<threadVars, timerVars, dataVars, lock>>

\* Mutant of RunCheck: the early return tests what the loop condition tested.
RunCheckQueue ==
  /\ dpc = "check"
  /\ IF active \/ queue = <<>>
     THEN dpc' = "pop" /\ UNCHANGED lock
     ELSE dpc' = "exited" /\ lock' = NoThread
  /\ UNCHANGED <<threadVars, timerVars, dataVars, flag>>

\* if (!_active) return;
RunCheck ==
  /\ dpc = "check"
  /\ IF active
     THEN dpc' = "pop" /\ UNCHANGED lock
     ELSE dpc' = "exited" /\ lock' = NoThread
  /\ UNCHANGED <<threadVars, timerVars, dataVars, flag>>

\* Mutant of RunPop: the newest event is taken from the back of the deque.
RunPopBack ==
  /\ dpc = "pop"
  /\ queue # <<>>
  /\ hand' = <<queue[Len(queue)]>>
  /\ queue' = SubSeq(queue, 1, Len(queue) - 1)
  /\ lock' = NoThread
  /\ dpc' = "post"
  /\ UNCHANGED <<threadVars, timerVars, strand, flag>>

\* The code asserts here that the queue is not empty.
RunPop ==
  /\ dpc = "pop"
  /\ queue # <<>>
  /\ hand' = <<Head(queue)>>
  /\ queue' = Tail(queue)
  /\ lock' = NoThread
  /\ dpc' = "post"
  /\ UNCHANGED <<threadVars, timerVars, strand, flag>>

\* InvokeToQueue: the task goes to the back of the strand.
RunPost ==
  /\ dpc = "post"
  /\ strand' = strand \o hand
  /\ hand' = <<>>
  /\ dpc' = "lock"
  /\ UNCHANGED <<threadVars, timerVars, queue, flag, lock>>
-------------------------------------------------------------------------------
(* The main loop: one completion handler at a time, while the loop runs.     *)

MainIdle == mpc = "idle" /\ lock # Main

\* _process: every handler of the event runs inside one task of the strand.
Process ==
  /\ MainIdle
  /\ loop
  /\ strand # <<>>
  /\ strand' = Tail(strand)
  /\ UNCHANGED <<threadVars, timerVars, queue, hand, flag, lock, dpc>>

TimerExpire ==
  /\ loop
  /\ waits > 0
  /\ waits' = waits - 1
  /\ ready' = ready + 1
  /\ UNCHANGED <<threadVars, dataVars, flag, lock, dpc>>

\* Mutant of RunTimer: the timer is armed by start only, not by its handler.
RunTimerOnce(on) ==
  /\ waits' = IF on /\ mpc # "rearm" THEN 1 ELSE waits
  /\ UNCHANGED ready

\* expires_after cancels the wait that is pending; async_wait adds one.
\* An expired wait whose handler is already queued is not cancelled.
RunTimer(on) ==
  /\ waits' = IF on THEN 1 ELSE waits
  /\ UNCHANGED ready

\* The handler of the timer, called without an error: put(EVENT_TIMER) even
\* after a stop, then _run_timer.
TimerFire ==
  /\ MainIdle
  /\ loop
  /\ ready > 0
  /\ Len(pending) <= MaxPending
  /\ ready' = ready - 1
  /\ mpc' = "tick"
  /\ UNCHANGED <<active, loop, starts, dataVars, waits, flag, lock, dpc>>

TickPut ==
  /\ mpc = "tick"
  /\ lock = NoThread
  /\ queue' = Append(queue, TimerEvent)
  /\ lock' = Main
  /\ mpc' = "rearm"
  /\ UNCHANGED <<active, loop, starts, timerVars, hand, strand, flag, dpc>>

Rearm ==
  /\ mpc = "rearm"
  /\ lock # Main
  /\ RunTimer(active)
  /\ mpc' = "idle"
  /\ UNCHANGED <<active, loop, starts, dataVars, flag, lock, dpc>>

\* exit_main_event_loop, or a handler that throws, ends io_service.run.
LoopExit ==
  /\ MainIdle
  /\ loop
  /\ loop' = FALSE
  /\ UNCHANGED <<active, mpc, starts, timerVars, dataVars, flag, lock, dpc>>
-------------------------------------------------------------------------------
(* start and stop.                                                           *)

Start ==
  /\ MainIdle
  /\ dpc = "none"
  /\ starts < MaxStarts
  /\ starts' = starts + 1
  /\ active' = TRUE
  /\ dpc' = "lock"
  /\ RunTimer(TRUE)
  /\ UNCHANGED <<loop, mpc, dataVars, flag, lock>>

StopFlag ==
  /\ MainIdle
  /\ dpc # "none"
  /\ active' = FALSE
  /\ mpc' = "stopping"
  /\ UNCHANGED <<loop, starts, timerVars, dataVars, flag, lock, dpc>>

\* Mutant of StopSet: stop clears _active and joins without waking _run.
StopWithoutSet ==
  /\ mpc = "stopping"
  /\ mpc' = "join"
  /\ UNCHANGED <<active, loop, starts, timerVars, dataVars, flag, lock, dpc>>

StopSet ==
  /\ mpc = "stopping"
  /\ flag' = TRUE
  /\ mpc' = "join"
  /\ UNCHANGED <<active, loop, starts, timerVars, dataVars, lock, dpc>>

StopJoin ==
  /\ mpc = "join"
  /\ dpc = "exited"
  /\ dpc' = "none"
  /\ mpc' = "idle"
  /\ UNCHANGED <<active, loop, starts, timerVars, dataVars, flag, lock>>
-------------------------------------------------------------------------------
DispatcherStep ==
  \/ RunLock
  \/ RunTest
  \/ RunWait
  \/ RunCheck
  \/ RunPop
  \/ RunPost

MainStep ==
  \/ Process
  \/ TimerFire
  \/ TickPut
  \/ Rearm
  \/ LoopExit
  \/ Start
  \/ StopFlag
  \/ StopSet
  \/ StopJoin

Next ==
  \/ \E t \in Producers, e \in Events : PutPush(t, e)
  \/ \E t \in Producers : PutSet(t)
  \/ DispatcherStep
  \/ TimerExpire
  \/ MainStep

\* The threads are scheduled fairly and the mutex of m_CS does not starve the
\* dispatcher or the timer handler (a producer leaves it after one step and
\* contends again only for a new event); asio runs the queued handlers of a
\* running loop in order, so none of the three kinds starves; time passes.
\* Nobody is obliged to put, to start, to stop or to exit the loop.
Fairness ==
  /\ \A t \in Producers : WF_vars(PutSet(t))
  /\ SF_vars(RunLock)
  /\ WF_vars(RunTest \/ RunWait \/ RunCheck \/ RunPop \/ RunPost)
  /\ SF_vars(Process)
  /\ WF_vars(TimerExpire)
  /\ SF_vars(TimerFire)
  /\ SF_vars(TickPut)
  /\ WF_vars(Rearm)
  /\ WF_vars(StopSet)
  /\ WF_vars(StopJoin)

Spec == Init /\ [][Next]_vars

FairSpec == Spec /\ Fairness
-------------------------------------------------------------------------------
(* Properties.                                                               *)

\* ASSERT(!_queue.empty()) of _run never fails, although stop and start write
\* _active between the test of the loop, the early return and the pop.
NonEmptyOnPop == dpc = "pop" => queue # <<>>

\* While the dispatcher sleeps unsignalled, nothing is queued unless a put is
\* about to signal, and no stop has happened unless it is about to signal:
\* the window between the unlock and Wait in _run loses no wakeup.
NoLostWakeup ==
  dpc = "wait" /\ ~flag =>
    /\ queue = <<>> \/ lock \in Producers
    /\ active \/ mpc = "stopping"

\* No event is popped that is not there, and none is left behind asleep.
HandOff == TypeOK /\ NonEmptyOnPop /\ NoLostWakeup

\* An active emitter always has a timer wait, an expired one to handle or the
\* handler running, and restarts that overlap an expired wait never leave more
\* of these than there were starts.
InHandler == IF mpc \in {"tick", "rearm"} THEN 1 ELSE 0
TimerChain ==
  /\ active => waits + ready + InHandler > 0
  /\ waits + ready + InHandler <= starts

\* stop always returns: the dispatcher thread it joins ends.
StopReturns == mpc = "stopping" ~> mpc = "idle"

\* The deque, the local event of _run and the strand together are one FIFO bus
\* that neither loses, repeats nor reorders an event.
Bus == INSTANCE EventBus WITH serving <- active /\ loop
ImplementsBus == Bus!Safety

\* An event that was put is handled unless the emitter is stopped or the main
\* loop ends.
BusDrains == Bus!Progress
===============================================================================
