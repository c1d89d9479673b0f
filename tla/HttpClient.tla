------------------------------- MODULE HttpClient -------------------------------
(***************************************************************************)
(* The HTTP side of core/api: RestClient and HttpClient/Sender, the worker   *)
(* pool of OSSupport/ThreadPool.h, and the tasks that bring each answer to   *)
(* the main loop (EventLoop.cpp), where the handlers of the request run.     *)
(* Requests are sent and cancelled on the main thread, before the loop runs  *)
(* or from one of its tasks, so that the table of handlers is touched by     *)
(* that thread alone; workers race over the pool's queue, and with the end   *)
(* of the process.                                                           *)
(***************************************************************************)
EXTENDS Naturals, Sequences, FiniteSets, SequencesExt

CONSTANTS
  Workers,          \* the pool's threads: hardware_concurrency of them
  MaxRequests       \* bound: requests sent

ASSUME HttpAssumption == MaxRequests \in Nat /\ IsFiniteSet(Workers) /\ Workers # {}

VARIABLES
  parserMap,        \* _parserMap: the requests whose handlers are kept
  tasks,            \* tasks of the pool
  workers,          \* where each worker is, and with which request
  stop,             \* stop of the pool
  answers,          \* answers that were posted to the main loop
  main,             \* where the main thread is: "init", "loop", "left", "join" or "exited"
  sender,           \* the Sender is there
  touched,          \* a worker has read a deleted Sender
  sent,             \* requests sent, numbered
  cancelled,        \* requests that were cancelled
  dropped,          \* requests whose task has thrown on its worker
  calls             \* the handlers called for each request, in that order

httpVars == <<parserMap, tasks, workers, stop, answers, main, sender, touched, sent, cancelled, dropped, calls>>

Requests == 1 .. MaxRequests
NoRequest == 0
Handlers == {"callback", "on_failed", "on_error"}

Worker(state, id) == [state |-> state, id |-> id]
Free == Worker("free", NoRequest)
Waiting == Worker("waiting", NoRequest)
Exited == Worker("exited", NoRequest)

HttpTypeOK ==
  /\ parserMap \subseteq Requests
  /\ tasks \in Seq(Requests)
  /\ workers \in [Workers -> [state : {"free", "waiting", "taken", "sent", "exited"}, id : Requests \cup {NoRequest}]]
  /\ stop \in BOOLEAN /\ sender \in BOOLEAN /\ touched \in BOOLEAN
  /\ answers \in Seq([id : Requests, ok : BOOLEAN])
  /\ main \in {"init", "loop", "left", "join", "exited"}
  /\ sent \in 0 .. MaxRequests
  /\ cancelled \subseteq Requests /\ dropped \subseteq Requests
  /\ calls \in [Requests -> Seq(Handlers)]

HttpInit ==
  /\ parserMap = {} /\ tasks = <<>> /\ answers = <<>>
  /\ workers = [w \in Workers |-> Free]
  /\ stop = FALSE /\ sender = TRUE /\ touched = FALSE
  /\ main = "init"
  /\ sent = 0
  /\ cancelled = {} /\ dropped = {}
  /\ calls = [r \in Requests |-> <<>>]
-------------------------------------------------------------------------------
(* The main thread, between the tasks of the loop or inside one.             *)

\* notify_one: one worker that waits, if any, looks at the queue again.
NotifyOne ==
  \/ \E w \in Workers : workers[w] = Waiting /\ workers' = [workers EXCEPT ![w] = Free]
  \/ (\A w \in Workers : workers[w] # Waiting) /\ UNCHANGED workers

\* Mutant of RestRequest: the pool is not notified.
RestRequestQuietly ==
  /\ main \in {"init", "loop"} /\ sent < MaxRequests
  /\ sent' = sent + 1
  /\ parserMap' = parserMap \cup {sent + 1}
  /\ tasks' = Append(tasks, sent + 1)
  /\ UNCHANGED <<workers, stop, answers, main, sender, touched, cancelled, dropped, calls>>

\* RestClient::request: storeRequest, then enqueue.
RestRequest ==
  /\ main \in {"init", "loop"} /\ sent < MaxRequests
  /\ sent' = sent + 1
  /\ parserMap' = parserMap \cup {sent + 1}
  /\ tasks' = Append(tasks, sent + 1)
  /\ NotifyOne
  /\ UNCHANGED <<stop, answers, main, sender, touched, cancelled, dropped, calls>>

\* Mutant of Cancel: the handlers are kept.
CancelLater(r) ==
  /\ main \in {"init", "loop"} /\ r \in 1 .. sent \ cancelled /\ calls[r] = <<>>
  /\ cancelled' = cancelled \cup {r}
  /\ UNCHANGED <<parserMap, tasks, workers, stop, answers, main, sender, touched, sent, dropped, calls>>

\* Sender::cancel: the request is still made.
Cancel(r) ==
  /\ main \in {"init", "loop"} /\ r \in 1 .. sent \ cancelled /\ calls[r] = <<>>
  /\ cancelled' = cancelled \cup {r}
  /\ parserMap' = parserMap \ {r}
  /\ UNCHANGED <<tasks, workers, stop, answers, main, sender, touched, sent, dropped, calls>>

RunMainLoop ==
  /\ main = "init"
  /\ main' = "loop"
  /\ UNCHANGED <<parserMap, tasks, workers, stop, answers, sender, touched, sent, cancelled, dropped, calls>>

\* The end of a list of calls and whether the last one has thrown; what throws is
\* followed by on_error, by that of the request or by that of the client.
Raise == {[calls |-> <<"on_error">>, thrown |-> t] : t \in BOOLEAN}
Then(first, rest) == [calls |-> first \o rest.calls, thrown |-> rest.thrown]

\* RestClient catches what its callback (or the parser before it) throws, and calls
\* on_error; the Sender catches what that throws, and calls it again.
OnDone ==
  {[calls |-> <<"callback">>, thrown |-> FALSE]}
    \cup {Then(c, e) : c \in {<<>>, <<"callback">>}, e \in {x \in Raise : ~x.thrown}}
    \cup {Then(c \o <<"on_error">>, e) : c \in {<<>>, <<"callback">>}, e \in Raise}

OnFailed == {[calls |-> <<"on_failed">>, thrown |-> FALSE]} \cup {Then(<<"on_failed">>, e) : e \in Raise}

\* The task of an answer.  What on_error throws ends run_main_event_loop.
RunTask ==
  /\ main = "loop" /\ answers # <<>>
  /\ answers' = Tail(answers)
  /\ LET r == Head(answers).id IN
       /\ parserMap' = parserMap \ {r}
       /\ \E o \in IF r \notin parserMap THEN {[calls |-> <<>>, thrown |-> FALSE]}
                   ELSE IF Head(answers).ok THEN OnDone ELSE OnFailed :
            /\ calls' = [calls EXCEPT ![r] = @ \o o.calls]
            /\ main' = IF o.thrown THEN "left" ELSE "loop"
  /\ UNCHANGED <<tasks, workers, stop, sender, touched, sent, cancelled, dropped>>

\* exit_main_event_loop.
ExitMainLoop ==
  /\ main = "loop"
  /\ main' = "left"
  /\ UNCHANGED <<parserMap, tasks, workers, stop, answers, sender, touched, sent, cancelled, dropped, calls>>

\* ~RestClient, when the trade engine deletes its exchanges.
DeleteClient ==
  /\ main = "left" /\ sender
  /\ sender' = FALSE
  /\ parserMap' = {}
  /\ UNCHANGED <<tasks, workers, stop, answers, main, touched, sent, cancelled, dropped, calls>>

\* Mutant of StopPool: the pool is stopped without waking its workers.
StopPoolQuietly ==
  /\ main = "left" /\ ~sender
  /\ stop' = TRUE
  /\ main' = "join"
  /\ UNCHANGED <<parserMap, tasks, workers, answers, sender, touched, sent, cancelled, dropped, calls>>

\* ~ThreadPool, at the end of the process: notify_all and join.
StopPool ==
  /\ main = "left" /\ ~sender
  /\ stop' = TRUE
  /\ main' = "join"
  /\ workers' = [w \in Workers |-> IF workers[w] = Waiting THEN Free ELSE workers[w]]
  /\ UNCHANGED <<parserMap, tasks, answers, sender, touched, sent, cancelled, dropped, calls>>

JoinPool ==
  /\ main = "join" /\ \A w \in Workers : workers[w] = Exited
  /\ main' = "exited"
  /\ UNCHANGED <<parserMap, tasks, workers, stop, answers, sender, touched, sent, cancelled, dropped, calls>>
-------------------------------------------------------------------------------
(* A worker of the pool.                                                     *)

\* Under queue_mutex: take a task, wait for one, or end once the pool is stopped
\* and its queue is empty.
Take(w) ==
  /\ workers[w] = Free
  /\ IF tasks # <<>> THEN
       /\ workers' = [workers EXCEPT ![w] = Worker("taken", Head(tasks))]
       /\ tasks' = Tail(tasks)
     ELSE
       /\ workers' = [workers EXCEPT ![w] = IF stop THEN Exited ELSE Waiting]
       /\ UNCHANGED tasks
  /\ UNCHANGED <<parserMap, stop, answers, main, sender, touched, sent, cancelled, dropped, calls>>

\* The task begins with the Sender's address and proxy.
ReadSender(w) ==
  /\ workers[w].state = "taken"
  /\ workers' = [workers EXCEPT ![w].state = "sent"]
  /\ touched' = (touched \/ ~sender)
  /\ UNCHANGED <<parserMap, tasks, stop, answers, main, sender, sent, cancelled, dropped, calls>>

\* _http_request returns with an answer, or after httplib's own timeouts, and the
\* result is posted to the main loop, whether that runs or not.
Answer(w) ==
  /\ workers[w].state = "sent"
  /\ \E ok \in BOOLEAN : answers' = Append(answers, [id |-> workers[w].id, ok |-> ok])
  /\ workers' = [workers EXCEPT ![w] = Free]
  /\ UNCHANGED <<parserMap, tasks, stop, main, sender, touched, sent, cancelled, dropped, calls>>

\* The task throws instead: its packaged_task keeps the exception in a future that
\* nobody reads, and no answer is posted.
Drop(w) ==
  /\ workers[w].state = "sent"
  /\ workers' = [workers EXCEPT ![w] = Free]
  /\ dropped' = dropped \cup {workers[w].id}
  /\ UNCHANGED <<parserMap, tasks, stop, answers, main, sender, touched, sent, cancelled, calls>>
-------------------------------------------------------------------------------
WorkerStep(w) == Take(w) \/ ReadSender(w) \/ Answer(w) \/ Drop(w)

HttpMainStep ==
  \/ RestRequest \/ (\E r \in Requests : Cancel(r))
  \/ RunMainLoop \/ RunTask \/ ExitMainLoop
  \/ DeleteClient \/ StopPool \/ JoinPool

HttpNext == HttpMainStep \/ \E w \in Workers : WorkerStep(w)

\* The threads are scheduled and every HTTP request ends, by its timeouts at the
\* latest; the process enters its loop, and cleans up once it has left it.
HttpFairness ==
  /\ \A w \in Workers : WF_httpVars(WorkerStep(w))
  /\ WF_httpVars(RunMainLoop) /\ WF_httpVars(RunTask)
  /\ WF_httpVars(DeleteClient) /\ WF_httpVars(StopPool) /\ WF_httpVars(JoinPool)

HttpSpec == HttpInit /\ [][HttpNext]_httpVars /\ HttpFairness
-------------------------------------------------------------------------------
(* Properties.                                                               *)

InFlight ==
  (Range(tasks) \cup {workers[w].id : w \in Workers} \cup {e.id : e \in Range(answers)}) \ {NoRequest}

\* While the client is there, the table has the handlers of exactly the requests
\* that are on their way in the pool, at a worker or in the main loop, or whose
\* task threw on its worker, and are not cancelled: a request that is over leaves
\* nothing behind, whichever of its handlers threw, and none loses its handlers
\* before its answer.  Only a request without an answer leaves its handlers.
TableMatchesFlight == sender => parserMap = (InFlight \cup dropped) \ cancelled

\* A request is answered once: its callback and on_failed exclude each other and
\* run at most once, on_error at most twice (when the first call of it throws),
\* and no handler runs for a request that is still on its way, was cancelled or
\* has no answer.
AnsweredOnce ==
  \A r \in Requests :
    /\ Cardinality({k \in DOMAIN calls[r] : calls[r][k] # "on_error"}) <= 1
    /\ Cardinality({k \in DOMAIN calls[r] : calls[r][k] = "on_error"}) <= 2
    /\ calls[r] # <<>> => r \notin InFlight \cup cancelled \cup dropped

\* Every request is accounted for, by its handlers in the table until they ran,
\* and by what they ran afterwards.
Accounted == HttpTypeOK /\ TableMatchesFlight /\ AnsweredOnce

\* Every request is answered, unless its task throws on the worker, it is cancelled
\* or the loop is left.
Answered ==
  \A r \in Requests :
    r <= sent ~> (calls[r] # <<>> \/ r \in cancelled \cup dropped \/ main \notin {"init", "loop"})

\* The end of the process waits for the workers, which finish what is queued, and
\* it does not wait for ever.
PoolEnds == stop ~> (main = "exited" /\ tasks = <<>>)
===============================================================================
