----------------------------- MODULE NotifyWorker -----------------------------
(***************************************************************************)
(* EmailEngine and NoticelEngine of core/engine/engine.cpp, which share one *)
(* design: the first message starts a worker thread, messages wait in a     *)
(* queue under m_CS with the binary event m_QueueNonempty, and the worker   *)
(* delivers the front message (for a notice, an HTTP request) while it owns *)
(* m_CS.  _active is a plain bool that start writes after it has spawned    *)
(* the thread, and that nothing clears.                                     *)
(***************************************************************************)
EXTENDS Naturals, Sequences, SequencesExt

CONSTANT MaxMessages        \* bound: messages sent

ASSUME NotifyAssumption == MaxMessages \in Nat

VARIABLES
  active,           \* _active
  queue,            \* _queue, messages numbered in the order of the calls
  flag,             \* m_QueueNonempty.m_ShouldContinue
  lock,             \* the owner of m_CS: "main", "worker" or "none"
  wpc,              \* where run is
  mpc,              \* where the main loop is in send_email, start or close
  sent,             \* messages for which send_email was called
  done              \* the messages delivered, in that order

vars == <<active, queue, flag, lock, wpc, mpc, sent, done>>
mainVars == <<active, mpc, sent>>

WorkerStates == {"none", "lock", "test", "wait", "check", "deliver", "pop", "failed", "aborted", "exited"}
MainStates == {"idle", "start", "activate", "push", "set", "join"}

TypeOK ==
  /\ active \in BOOLEAN /\ flag \in BOOLEAN
  /\ queue \in Seq(1 .. MaxMessages)
  /\ lock \in {"main", "worker", "none"}
  /\ lock = "worker" <=> wpc \in {"test", "check", "deliver", "pop", "failed", "aborted"}
  /\ lock = "main" <=> mpc = "set"
  /\ wpc \in WorkerStates /\ mpc \in MainStates
  /\ sent \in 0 .. MaxMessages
  /\ done \in Seq(1 .. MaxMessages)

Init ==
  /\ active = FALSE
  /\ queue = <<>>
  /\ flag = FALSE
  /\ lock = "none"
  /\ wpc = "none"
  /\ mpc = "idle"
  /\ sent = 0
  /\ done = <<>>
-------------------------------------------------------------------------------
(* The main loop: send_email (send_notice), start and close.                 *)

\* if (!_active) start();
Send ==
  /\ mpc = "idle"
  /\ sent < MaxMessages
  /\ sent' = sent + 1
  /\ mpc' = IF active THEN "push" ELSE "start"
  /\ UNCHANGED <<active, queue, flag, lock, wpc, done>>

\* start: the thread first ...
StartThread ==
  /\ mpc = "start"
  /\ wpc' = "lock"
  /\ mpc' = "activate"
  /\ UNCHANGED <<active, queue, flag, lock, sent, done>>

\* ... then _active.
Activate ==
  /\ mpc = "activate"
  /\ active' = TRUE
  /\ mpc' = "push"
  /\ UNCHANGED <<queue, flag, lock, wpc, sent, done>>

Push ==
  /\ mpc = "push"
  /\ lock = "none"
  /\ lock' = "main"
  /\ queue' = Append(queue, sent)
  /\ mpc' = "set"
  /\ UNCHANGED <<active, flag, wpc, sent, done>>

\* Mutant of Signal: the message is queued without waking the worker.
SignalNobody ==
  /\ mpc = "set"
  /\ lock' = "none"
  /\ mpc' = "idle"
  /\ UNCHANGED <<active, queue, flag, wpc, sent, done>>

Signal ==
  /\ mpc = "set"
  /\ flag' = TRUE
  /\ lock' = "none"
  /\ mpc' = "idle"
  /\ UNCHANGED <<active, queue, wpc, sent, done>>

\* close leaves _active as it is; it joins a thread that has not been joined.
Close ==
  /\ mpc = "idle"
  /\ active
  /\ flag' = TRUE
  /\ mpc' = IF wpc = "none" THEN "idle" ELSE "join"
  /\ UNCHANGED <<active, queue, lock, wpc, sent, done>>

Join ==
  /\ mpc = "join"
  /\ wpc = "exited"
  /\ wpc' = "none"
  /\ mpc' = "idle"
  /\ UNCHANGED <<active, queue, flag, lock, sent, done>>
-------------------------------------------------------------------------------
(* run, the worker thread.                                                   *)

RunLock ==
  /\ wpc = "lock"
  /\ lock = "none"
  /\ lock' = "worker"
  /\ wpc' = "test"
  /\ UNCHANGED <<mainVars, queue, flag, done>>

\* Mutant of RunTest: the worker waits inside the critical section.
RunTestLocked ==
  /\ wpc = "test"
  /\ wpc' = IF active /\ queue = <<>> THEN "wait" ELSE "check"
  /\ UNCHANGED <<mainVars, queue, flag, lock, done>>

\* while (_active && _queue.size() == 0) { unlock; ... }
RunTest ==
  /\ wpc = "test"
  /\ IF active /\ queue = <<>>
     THEN wpc' = "wait" /\ lock' = "none"
     ELSE wpc' = "check" /\ UNCHANGED lock
  /\ UNCHANGED <<mainVars, queue, flag, done>>

RunWait ==
  /\ wpc = "wait"
  /\ flag
  /\ flag' = FALSE
  /\ wpc' = "lock"
  /\ UNCHANGED <<mainVars, queue, lock, done>>

\* if (!_active) return; then ASSERT(!_queue.empty()).
RunCheck ==
  /\ wpc = "check"
  /\ wpc' = IF ~active THEN "exited" ELSE IF queue = <<>> THEN "failed" ELSE "deliver"
  /\ lock' = IF active THEN lock ELSE "none"
  /\ UNCHANGED <<mainVars, queue, flag, done>>

\* The front message is delivered under the lock, whatever the outcome.
Deliver ==
  /\ wpc = "deliver"
  /\ done' = Append(done, Head(queue))
  /\ wpc' = "pop"
  /\ UNCHANGED <<mainVars, queue, flag, lock>>

\* A notice only: a 2xx answer that is not JSON throws out of the thread, which
\* terminates the process.
DeliverThrows ==
  /\ wpc = "deliver"
  /\ wpc' = "aborted"
  /\ UNCHANGED <<mainVars, queue, flag, lock, done>>

\* Mutant of Pop: a message is popped for each one that waits.
PopAll ==
  /\ wpc = "pop"
  /\ queue' = <<>>
  /\ lock' = "none"
  /\ wpc' = "lock"
  /\ UNCHANGED <<mainVars, flag, done>>

Pop ==
  /\ wpc = "pop"
  /\ queue' = Tail(queue)
  /\ lock' = "none"
  /\ wpc' = "lock"
  /\ UNCHANGED <<mainVars, flag, done>>
-------------------------------------------------------------------------------
\* The process has failed an assertion or was terminated.
Down == wpc \in {"failed", "aborted"}

MainStep == ~Down /\ (Send \/ StartThread \/ Activate \/ Push \/ Signal \/ Close \/ Join)
WorkerStep == RunLock \/ RunTest \/ RunWait \/ RunCheck \/ Deliver \/ DeliverThrows \/ Pop

Next == MainStep \/ WorkerStep

\* Both threads are scheduled, and each is granted a mutex it keeps asking for;
\* nobody is obliged to send or to close.
Fairness ==
  /\ WF_vars(~Down /\ (StartThread \/ Activate \/ Signal \/ Join))
  /\ SF_vars(~Down /\ Push)
  /\ SF_vars(RunLock)
  /\ WF_vars(RunTest \/ RunWait \/ RunCheck \/ Deliver \/ DeliverThrows \/ Pop)

Spec == Init /\ [][Next]_vars /\ Fairness
-------------------------------------------------------------------------------
(* Properties.                                                               *)

\* The messages delivered are the first ones sent, each once and in order, and
\* what is not delivered is still queued, or being queued by send_email.
DeliveredInOrder ==
  /\ \A k \in 1 .. Len(done) : done[k] = k
  /\ \A m \in 1 .. sent :
       m > Len(done) => Contains(queue, m) \/ (m = sent /\ mpc \in {"start", "activate", "push"})

\* A call of send_email returns: the worker leaves the lock between messages,
\* however many there are.
SendReturns == mpc \in {"start", "push"} ~> mpc = "idle" \/ Down
===============================================================================
