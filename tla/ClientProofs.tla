----------------------------- MODULE ClientProofs -----------------------------
(***************************************************************************)
(* Proofs about the two clients of core/api.  WebsocketClient: its types,    *)
(* that there is one line, that m_hdl follows it, and that the client        *)
(* implements Link.  HttpClient, for every number of workers and requests:   *)
(* each request is in one place, its handlers wait in the table until then,  *)
(* and they run once.                                                        *)
(***************************************************************************)
EXTENDS WebsocketClient, HttpClient, SequenceTheorems, FiniteSetTheorems, TLAPS

\* The inductive invariant: the three checked invariants need one another.  A
\* timer is armed where a connection ends, and only OneLine says that it was
\* not armed before.
IInv == ClientTypeOK /\ OneLine /\ HandleFollows

LEMMA InitInv == ClientInit => IInv
<1> SUFFICES ASSUME ClientInit PROVE IInv
  OBVIOUS
<1> USE ClientAssumption
<1>1. PICK c \in Conns : conn = [d \in Conns |-> IF d = c THEN "connecting" ELSE "free"]
  BY DEF ClientInit
<1>2. Live = {c}
  BY <1>1 DEF Live
<1>3. ClientTypeOK
  BY <1>1 DEF ClientInit, ClientTypeOK, ConnStates, Waits
<1>4. OneLine
  BY <1>2 DEF ClientInit, OneLine, Alive
<1>5. HandleFollows
  BY <1>1 DEF ClientInit, HandleFollows
<1> QED
  BY <1>3, <1>4, <1>5 DEF IInv

\* Arming, expiring and taking keep the shape of a timer's waits.
LEMMA TimerShape ==
  ASSUME NEW t \in Waits
  PROVE  /\ Armed(t) \in Waits /\ Armed(t).pending /\ Armed(t).ready = t.ready
         /\ Expired(t) \in Waits /\ ~Expired(t).pending /\ Expired(t).ready = t.ready + 1
         /\ t.ready > 0 => Taken(t) \in Waits
         /\ Taken(t).pending = t.pending /\ Taken(t).ready = t.ready - 1
<1> DEFINE a == Armed(t) e == Expired(t) k == Taken(t)
<1>1. a \in Waits /\ a.pending /\ a.ready = t.ready
  BY DEF Waits, Armed
<1>2. e \in Waits /\ ~e.pending /\ e.ready = t.ready + 1
  BY DEF Waits, Expired
<1>3. k.pending = t.pending /\ k.ready = t.ready - 1 /\ (t.ready > 0 => k \in Waits)
  BY DEF Waits, Taken
<1> QED
  BY <1>1, <1>2, <1>3

\* A connection ends: the line goes to the reconnect timer, unless stopped.
LEMMA ReleaseInv ==
  ASSUME IInv, NEW c \in Conns, conn[c] # "free", Release(c), HandleReconnect,
         UNCHANGED <<stopped, ping, pinged>>
  PROVE  IInv'
<1> USE ClientAssumption
<1>1. reconnect \in Waits /\ ~reconnect.pending /\ reconnect.ready = 0
  BY DEF IInv, ClientTypeOK, OneLine, Alive, Live, Waits
<1>2. /\ reconnect' \in Waits
      /\ reconnect'.ready = 0
      /\ ~stopped => reconnect'.pending
      /\ stopped => ~reconnect'.pending
  BY <1>1, TimerShape DEF HandleReconnect
<1>3. /\ \A d \in Conns : d # c => conn'[d] = "free"
      /\ conn'[c] = "free"
  BY DEF IInv, ClientTypeOK, OneLine, Live, Release
<1>4. Live' = {}
  BY <1>3 DEF Live
<1>5. hdl' = None
  BY DEF IInv, ClientTypeOK, OneLine, Live, Release
<1>6. ClientTypeOK'
  <2>1. conn' \in [Conns -> ConnStates]
    BY DEF IInv, ClientTypeOK, Release, ConnStates
  <2> QED
    BY <1>2, <1>5, <2>1 DEF IInv, ClientTypeOK
<1>7. OneLine'
  BY <1>2, <1>4 DEF IInv, OneLine, Alive
<1>8. HandleFollows'
  BY <1>3, <1>5 DEF HandleFollows
<1> QED
  BY <1>6, <1>7, <1>8 DEF IInv

\* Every step keeps the invariant.
LEMMA NextInv == IInv /\ [ClientNext]_clientVars => IInv'
<1> SUFFICES ASSUME IInv, [ClientNext]_clientVars PROVE IInv'
  OBVIOUS
<1> USE ClientAssumption
<1>1. ASSUME NEW c \in Conns, OnOpen(c) PROVE IInv'
  <2>1. ping' \in Waits
    BY <1>1, TimerShape DEF OnOpen, StartPing, IInv, ClientTypeOK
  <2>2. Live' = Live
    BY <1>1 DEF OnOpen, Live, IInv, ClientTypeOK
  <2>3. \A d \in Conns : d # c => conn'[d] = "free"
    BY <1>1 DEF OnOpen, IInv, ClientTypeOK, OneLine, Live
  <2>4. conn'[c] = "open" /\ hdl' = c /\ conn' \in [Conns -> ConnStates]
    BY <1>1 DEF OnOpen, IInv, ClientTypeOK, ConnStates
  <2>5. HandleFollows'
    BY <2>3, <2>4 DEF HandleFollows
  <2>6. ClientTypeOK'
    BY <1>1, <2>1, <2>4 DEF OnOpen, IInv, ClientTypeOK
  <2>7. OneLine'
    BY <1>1, <2>2 DEF OnOpen, IInv, OneLine, Alive
  <2> QED
    BY <2>5, <2>6, <2>7 DEF IInv
<1>2. ASSUME NEW c \in Conns, OnFail(c) PROVE IInv'
  <2>1. conn[c] # "free"
    BY <1>2 DEF OnFail
  <2> QED
    BY <1>2, <2>1, ReleaseInv DEF OnFail
<1>3. ASSUME NEW c \in Conns, OnClose(c) PROVE IInv'
  <2>1. conn[c] # "free"
    BY <1>3 DEF OnClose
  <2> QED
    BY <1>3, <2>1, ReleaseInv DEF OnClose
<1>4. ASSUME NEW c \in Conns, conn[c] = "open", conn' = [conn EXCEPT ![c] = "closing"],
             stopped' \in BOOLEAN, stopped => stopped',
             UNCHANGED <<hdl, reconnect, ping, pinged>>
      PROVE  IInv'
  <2>1. Live' = Live
    BY <1>4 DEF Live, IInv, ClientTypeOK
  <2>2. ClientTypeOK'
    BY <1>4 DEF IInv, ClientTypeOK, ConnStates
  <2>3. OneLine'
    BY <1>4, <2>1 DEF IInv, OneLine, Alive
  <2>4. HandleFollows'
    BY <1>4 DEF IInv, ClientTypeOK, HandleFollows
  <2> QED
    BY <2>2, <2>3, <2>4 DEF IInv
<1>5. ASSUME NEW c \in Conns, PeerCloses(c) PROVE IInv'
  BY <1>4, <1>5 DEF PeerCloses, IInv, ClientTypeOK
<1>6. CASE Stop
  <2>1. CASE hdl # None /\ conn[hdl] = "open"
    <3>1. hdl \in Conns
      BY <2>1 DEF IInv, ClientTypeOK
    <3> QED
      BY <1>4, <1>6, <2>1, <3>1 DEF Stop
  <2>2. CASE ~(hdl # None /\ conn[hdl] = "open")
    BY <1>6, <2>2 DEF Stop, IInv, ClientTypeOK, OneLine, HandleFollows, Live, Alive
  <2> QED
    BY <2>1, <2>2
<1>7. CASE ReconnectExpire
  <2>1. reconnect \in Waits /\ reconnect.pending /\ reconnect.ready = 0 /\ Live = {}
    BY <1>7 DEF ReconnectExpire, IInv, ClientTypeOK, OneLine, Alive, Waits
  <2>2. reconnect' \in Waits /\ ~reconnect'.pending /\ reconnect'.ready = 1
    BY <1>7, <2>1, TimerShape DEF ReconnectExpire
  <2>3. ClientTypeOK' /\ HandleFollows' /\ Live' = {}
    BY <1>7, <2>1, <2>2 DEF ReconnectExpire, IInv, ClientTypeOK, HandleFollows, Live
  <2>4. OneLine'
    BY <2>2, <2>3 DEF OneLine, Alive
  <2> QED
    BY <2>3, <2>4 DEF IInv
<1>8. CASE ReconnectFire
  <2>1. reconnect \in Waits /\ ~reconnect.pending /\ reconnect.ready = 1 /\ Live = {}
    BY <1>8 DEF ReconnectFire, IInv, ClientTypeOK, OneLine, Alive, Waits
  <2>2. reconnect' \in Waits /\ ~reconnect'.pending /\ reconnect'.ready = 0
    BY <1>8, <2>1, TimerShape DEF ReconnectFire
  <2>3. hdl = None
    BY <2>1 DEF IInv, ClientTypeOK, Live
  <2>4. CASE stopped
    BY <1>8, <2>1, <2>2, <2>3, <2>4
    DEF ReconnectFire, Connect, IInv, ClientTypeOK, OneLine, HandleFollows, Live, Alive
  <2>5. CASE ~stopped
    <3>1. PICK c \in Conns : conn' = [conn EXCEPT ![c] = "connecting"]
      BY <1>8, <2>5 DEF ReconnectFire, Connect
    <3>2. /\ conn'[c] = "connecting"
          /\ \A d \in Conns : d # c => conn'[d] = "free"
          /\ conn' \in [Conns -> ConnStates]
      BY <2>1, <3>1 DEF Live, IInv, ClientTypeOK, ConnStates
    <3>3. Live' = {c}
      BY <3>2 DEF Live
    <3>4. ClientTypeOK' /\ HandleFollows'
      BY <1>8, <2>2, <2>3, <3>2 DEF ReconnectFire, IInv, ClientTypeOK, HandleFollows
    <3>5. OneLine'
      BY <2>2, <3>3 DEF OneLine, Alive
    <3> QED
      BY <3>4, <3>5 DEF IInv
  <2> QED
    BY <2>4, <2>5
<1>9. ASSUME ping' \in Waits, pinged' \in BOOLEAN, UNCHANGED <<conn, hdl, stopped, reconnect>>
      PROVE  IInv'
  BY <1>9 DEF IInv, ClientTypeOK, OneLine, HandleFollows, Live, Alive
<1>10. CASE PingExpire
  BY <1>9, <1>10, TimerShape DEF PingExpire, IInv, ClientTypeOK
<1>11. CASE PingFire
  <2>1. ping' \in Waits
    BY <1>11, TimerShape DEF PingFire, StartPing, IInv, ClientTypeOK
  <2>2. pinged' \in BOOLEAN
    BY <1>11 DEF PingFire, IInv, ClientTypeOK
  <2> QED
    BY <1>9, <1>11, <2>1, <2>2 DEF PingFire
<1>12. CASE UNCHANGED clientVars
  BY <1>12 DEF clientVars, IInv, ClientTypeOK, OneLine, HandleFollows, Live, Alive
<1> QED
  BY <1>1, <1>2, <1>3, <1>5, <1>6, <1>7, <1>8, <1>10, <1>11, <1>12 DEF ClientNext

THEOREM Invariance == ClientSpec => []IInv
  BY InitInv, NextInv, PTL DEF ClientSpec

\* The client's variables keep their types and m_hdl never dangles.
THEOREM ClientTypes == ClientSpec => []ClientTypeOK
<1>1. IInv => ClientTypeOK
  BY DEF IInv
<1> QED
  BY <1>1, Invariance, PTL

\* close, failure, timer and stop never start two connections or two waits, and
\* never leave a client that is not stopped without one.
THEOREM OneLineKept == ClientSpec => []OneLine
<1>1. IInv => OneLine
  BY DEF IInv
<1> QED
  BY <1>1, Invariance, PTL

\* The handle that send uses is that of the connection that is open.
THEOREM HandleKept == ClientSpec => []HandleFollows
<1>1. IInv => HandleFollows
  BY DEF IInv
<1> QED
  BY <1>1, Invariance, PTL

\* The line of a client: types, one connection or wait at a time, and the handle.
THEOREM LineSoundKept == ClientSpec => []LineSound
<1>1. IInv => LineSound
  BY DEF IInv, LineSound
<1> QED
  BY <1>1, Invariance, PTL

-------------------------------------------------------------------------------
(* The refinement.                                                           *)

\* What the adapter sees is the state of the one connection there is.
LEMMA LineIs ==
  ASSUME IInv
  PROVE  /\ \A c \in Conns : conn[c] = "open" => LineOf = "up"
         /\ \A c \in Conns : conn[c] = "closing" => LineOf = "closing"
         /\ \A c \in Conns : conn[c] = "connecting" => LineOf = "opening"
         /\ (\A c \in Conns : conn[c] = "free") <=> LineOf = "down"
         /\ LineOf = "up" => \E c \in Conns : conn[c] = "open"
  BY DEF IInv, ClientTypeOK, OneLine, Live, LineOf, ConnStates

\* Each step of the client is a step of Link or leaves the line alone.
LEMMA StepRefines == IInv /\ IInv' /\ [ClientNext]_clientVars => [AbstractLink!Next]_(AbstractLink!vars)
<1> SUFFICES ASSUME IInv, IInv', [ClientNext]_clientVars
             PROVE  AbstractLink!Next \/ (UNCHANGED <<LineOf, stopped>>)
  BY DEF AbstractLink!vars
<1> USE DEF AbstractLink!Next, AbstractLink!Move
<1>0. /\ \A c \in Conns : conn'[c] = "open" => LineOf' = "up"
      /\ \A c \in Conns : conn'[c] = "closing" => LineOf' = "closing"
      /\ \A c \in Conns : conn'[c] = "connecting" => LineOf' = "opening"
      /\ (\A c \in Conns : conn'[c] = "free") <=> LineOf' = "down"
  BY DEF IInv, ClientTypeOK, OneLine, Live, LineOf, ConnStates
<1>1. ASSUME NEW c \in Conns, OnOpen(c) PROVE AbstractLink!Open
  <2>1. conn'[c] = "open"
    BY <1>1 DEF OnOpen, IInv, ClientTypeOK
  <2> QED
    BY <1>0, <1>1, <2>1, LineIs DEF OnOpen, AbstractLink!Open
<1>2. ASSUME NEW c \in Conns, Release(c), conn[c] # "free" PROVE LineOf' = "down"
  <2>1. \A d \in Conns : conn'[d] = "free"
    BY <1>2 DEF Release, IInv, ClientTypeOK, OneLine, Live
  <2> QED
    BY <1>0, <2>1
<1>3. ASSUME NEW c \in Conns, OnFail(c) PROVE AbstractLink!Fail
  <2>1. LineOf = "opening" /\ LineOf' = "down"
    BY <1>2, <1>3, LineIs DEF OnFail
  <2> QED
    BY <1>3, <2>1 DEF OnFail, AbstractLink!Fail
<1>4. ASSUME NEW c \in Conns, OnClose(c) PROVE AbstractLink!Drop
  <2>1. LineOf \in {"up", "closing"} /\ LineOf' = "down"
    BY <1>2, <1>4, LineIs DEF OnClose
  <2> QED
    BY <1>4, <2>1 DEF OnClose, AbstractLink!Drop
<1>5. ASSUME NEW c \in Conns, conn[c] = "open", conn' = [conn EXCEPT ![c] = "closing"]
      PROVE  LineOf = "up" /\ LineOf' = "closing"
  <2>1. conn'[c] = "closing"
    BY <1>5 DEF IInv, ClientTypeOK
  <2> QED
    BY <1>0, <1>5, <2>1, LineIs
<1>6. ASSUME NEW c \in Conns, PeerCloses(c) PROVE AbstractLink!Closing
  BY <1>5, <1>6 DEF PeerCloses, AbstractLink!Closing
<1>7. CASE Stop
  <2>1. CASE hdl # None /\ conn[hdl] = "open"
    <3>1. hdl \in Conns
      BY <2>1 DEF IInv, ClientTypeOK
    <3> QED
      BY <1>5, <1>7, <2>1, <3>1 DEF Stop, AbstractLink!Stop
  <2>2. CASE ~(hdl # None /\ conn[hdl] = "open")
    <3>1. \A c \in Conns : conn[c] # "open"
      BY <2>2, ClientAssumption DEF IInv, HandleFollows
    <3>2. LineOf # "up" /\ LineOf' = LineOf
      BY <1>7, <2>2, <3>1, LineIs DEF Stop, LineOf
    <3> QED
      BY <1>7, <3>2 DEF Stop, AbstractLink!Stop
  <2> QED
    BY <2>1, <2>2
<1>8. ASSUME UNCHANGED <<conn, stopped>> PROVE UNCHANGED <<LineOf, stopped>>
  BY <1>8 DEF LineOf
<1>9. CASE ReconnectFire
  <2>1. CASE stopped
    BY <1>8, <1>9, <2>1 DEF ReconnectFire, Connect
  <2>2. CASE ~stopped
    <3>1. PICK c \in Conns : conn' = [conn EXCEPT ![c] = "connecting"]
      BY <1>9, <2>2 DEF ReconnectFire, Connect
    <3>2. conn'[c] = "connecting"
      BY <3>1 DEF IInv, ClientTypeOK
    <3>3. \A d \in Conns : conn[d] = "free"
      BY <1>9 DEF ReconnectFire, IInv, ClientTypeOK, OneLine, Live, Alive, Waits
    <3> QED
      BY <1>0, <1>9, <2>2, <3>2, <3>3, LineIs DEF ReconnectFire, AbstractLink!Attempt
  <2> QED
    BY <2>1, <2>2
<1>10. CASE ReconnectExpire \/ PingExpire \/ PingFire \/ UNCHANGED clientVars
  BY <1>8, <1>10 DEF ReconnectExpire, PingExpire, PingFire, clientVars
<1> QED
  BY <1>1, <1>3, <1>4, <1>6, <1>7, <1>9, <1>10 DEF ClientNext

\* Every behaviour of the client is one of Link: what an adapter relies on, one
\* line at a time and no attempt after stop, holds for any number of objects.
THEOREM Refinement == ClientSpec => ImplementsLink
<1>1. ClientInit => AbstractLink!Init
  <2> SUFFICES ASSUME ClientInit PROVE AbstractLink!Init
    OBVIOUS
  <2>1. PICK c \in Conns : conn = [d \in Conns |-> IF d = c THEN "connecting" ELSE "free"]
    BY DEF ClientInit
  <2>2. conn[c] = "connecting"
    BY <2>1
  <2> QED
    BY <2>2, InitInv, LineIs DEF ClientInit, AbstractLink!Init
<1> QED
  BY <1>1, Invariance, StepRefines, PTL DEF ClientSpec, ImplementsLink, AbstractLink!Safety
-------------------------------------------------------------------------------
(* HttpClient.                                                               *)

Results == [id : Requests, ok : BOOLEAN]

\* A request is on its way in the pool's queue, at a worker or in the main loop.
Flying(ts, ws, lp) ==
  {r \in Requests : \/ \E i \in 1 .. Len(ts) : ts[i] = r
                    \/ \E w \in Workers : ws[w].id = r
                    \/ \E j \in 1 .. Len(lp) : lp[j].id = r}

\* It is in one of these places, and there once; only what was sent is anywhere.
OnePlace ==
  /\ \A i, j \in 1 .. Len(tasks) : tasks[i] = tasks[j] => i = j
  /\ \A i, j \in 1 .. Len(answers) : answers[i].id = answers[j].id => i = j
  /\ \A v, w \in Workers : workers[v].id = workers[w].id /\ workers[v].id # NoRequest => v = w
  /\ \A i \in 1 .. Len(tasks), w \in Workers : tasks[i] # workers[w].id
  /\ \A i \in 1 .. Len(tasks), j \in 1 .. Len(answers) : tasks[i] # answers[j].id
  /\ \A w \in Workers, j \in 1 .. Len(answers) : workers[w].id # answers[j].id
  /\ \A i \in 1 .. Len(tasks) : tasks[i] <= sent
  /\ \A w \in Workers : workers[w].id <= sent
  /\ \A j \in 1 .. Len(answers) : answers[j].id <= sent

\* A worker has a request exactly while it works on it.
Working == \A w \in Workers : workers[w].id = NoRequest <=> workers[w].state \notin {"taken", "sent"}

\* The handlers that one request calls: after the first only on_error, and three of
\* them only after the callback.
Shape(c) ==
  /\ c \in Seq(Handlers) /\ Len(c) <= 3
  /\ \A k \in 2 .. Len(c) : c[k] = "on_error"
  /\ Len(c) = 3 => c[1] # "on_error"

\* What has called a handler is over: it was sent, and is nowhere any more.
Over ==
  \A r \in Requests :
    /\ Shape(calls[r])
    /\ calls[r] # <<>> => r <= sent /\ r \notin Flying(tasks, workers, answers) \cup cancelled

\* The client goes after the loop.
ClientInv == ~sender => main \notin {"init", "loop"}

\* What was dropped is nowhere any more, and has called nothing.
Dropped ==
  /\ dropped \subseteq 1 .. sent
  /\ \A r \in dropped : r \notin Flying(tasks, workers, answers) /\ calls[r] = <<>>

Table == sender => parserMap = (Flying(tasks, workers, answers) \cup dropped) \ cancelled

HInv ==
  /\ HttpTypeOK /\ cancelled \subseteq 1 .. sent
  /\ OnePlace /\ Working /\ Over /\ Dropped /\ ClientInv /\ Table
-------------------------------------------------------------------------------
LEMMA FlightIs == HttpTypeOK => InFlight = Flying(tasks, workers, answers)
<1> SUFFICES ASSUME HttpTypeOK PROVE InFlight = Flying(tasks, workers, answers)
  OBVIOUS
<1>1. /\ tasks \in Seq(Requests) /\ answers \in Seq(Results)
      /\ DOMAIN tasks = 1 .. Len(tasks) /\ DOMAIN answers = 1 .. Len(answers)
  BY LenProperties DEF HttpTypeOK, Results
<1>2. \A i \in 1 .. Len(tasks) : tasks[i] \in Requests
  BY <1>1, ElementOfSeq
<1>3. \A j \in 1 .. Len(answers) : answers[j] \in Results
  BY <1>1, ElementOfSeq
<1>4. \A w \in Workers : workers[w].id \in Requests \cup {NoRequest}
  BY DEF HttpTypeOK
<1>5. NoRequest \notin Requests
  BY HttpAssumption DEF NoRequest, Requests
<1>6. Range(tasks) = {tasks[i] : i \in 1 .. Len(tasks)} /\ Range(answers) = {answers[j] : j \in 1 .. Len(answers)}
  BY <1>1 DEF Range
<1> QED
  BY <1>2, <1>3, <1>4, <1>5, <1>6 DEF InFlight, Flying, Results

\* Where a request may be, there is one that was sent.
LEMMA Ids ==
  HInv => /\ sent \in Nat /\ Len(tasks) \in Nat /\ Len(answers) \in Nat
          /\ \A i \in 1 .. Len(tasks) : tasks[i] \in Requests /\ tasks[i] \in 1 .. sent
          /\ \A w \in Workers : workers[w].id \in 0 .. sent
          /\ \A j \in 1 .. Len(answers) : answers[j].id \in Requests /\ answers[j].id \in 1 .. sent
<1> SUFFICES ASSUME HInv
             PROVE  /\ sent \in Nat /\ Len(tasks) \in Nat /\ Len(answers) \in Nat
                    /\ \A i \in 1 .. Len(tasks) : tasks[i] \in Requests /\ tasks[i] \in 1 .. sent
                    /\ \A w \in Workers : workers[w].id \in 0 .. sent
                    /\ \A j \in 1 .. Len(answers) : answers[j].id \in Requests /\ answers[j].id \in 1 .. sent
  OBVIOUS
<1>1. tasks \in Seq(Requests) /\ answers \in Seq(Results) /\ sent \in Nat
  BY HttpAssumption DEF HInv, HttpTypeOK, Results
<1>2. Len(tasks) \in Nat /\ Len(answers) \in Nat
  BY <1>1, LenProperties
<1>3. \A i \in 1 .. Len(tasks) : tasks[i] \in Requests
  BY <1>1, ElementOfSeq
<1>4. \A j \in 1 .. Len(answers) : answers[j] \in Results
  BY <1>1, ElementOfSeq
<1>5. \A w \in Workers : workers[w].id \in Requests \cup {NoRequest}
  BY DEF HInv, HttpTypeOK
<1>6. \A x \in Requests : x \in Nat /\ x >= 1
  BY HttpAssumption DEF Requests
<1>7. \A j \in 1 .. Len(answers) : answers[j].id \in Requests /\ answers[j].id <= sent
  BY <1>4 DEF Results, HInv, OnePlace
<1>8. \A i \in 1 .. Len(tasks) : tasks[i] <= sent
  BY DEF HInv, OnePlace
<1>9. ASSUME NEW w \in Workers PROVE workers[w].id \in 0 .. sent
  <2>1. workers[w].id \in Nat
    BY <1>5, <1>6 DEF NoRequest
  <2>2. workers[w].id <= sent
    BY DEF HInv, OnePlace
  <2> QED
    BY <1>1, <2>1, <2>2
<1>10. ASSUME NEW i \in 1 .. Len(tasks) PROVE tasks[i] \in Requests /\ tasks[i] \in 1 .. sent
  BY <1>1, <1>3, <1>6, <1>8
<1>11. ASSUME NEW j \in 1 .. Len(answers) PROVE answers[j].id \in Requests /\ answers[j].id \in 1 .. sent
  BY <1>1, <1>6, <1>7
<1> QED
  BY <1>1, <1>2, <1>9, <1>10, <1>11

\* What a request may call has the shape, whatever throws.
LEMMA OutcomeShape ==
  ASSUME NEW o \in OnDone \cup OnFailed
  PROVE  Shape(o.calls) /\ o.calls # <<>> /\ o.thrown \in BOOLEAN
<1> DEFINE E == <<"on_error">>
<1> DEFINE C == <<"callback">>
<1> DEFINE F == <<"on_failed">>
<1>1. /\ <<>> \in Seq(Handlers) /\ E \in Seq(Handlers) /\ C \in Seq(Handlers) /\ F \in Seq(Handlers)
      /\ Len(<<>>) = 0 /\ Len(E) = 1 /\ Len(C) = 1 /\ Len(F) = 1
      /\ E[1] = "on_error" /\ C[1] = "callback" /\ F[1] = "on_failed"
  BY EmptySeq DEF Handlers
<1>2. \A s, t \in Seq(Handlers) :
        /\ s \o t \in Seq(Handlers) /\ Len(s \o t) = Len(s) + Len(t) /\ Len(s) \in Nat
        /\ \A i \in 1 .. Len(s) + Len(t) : (s \o t)[i] = IF i <= Len(s) THEN s[i] ELSE t[i - Len(s)]
  BY ConcatProperties, LenProperties
<1>3. \A x \in Raise : x.calls = E /\ x.thrown \in BOOLEAN
  BY DEF Raise
<1>4. CASE o = [calls |-> C, thrown |-> FALSE]
  BY <1>1, <1>4 DEF Shape
<1>5. CASE o \in {Then(c, e) : c \in {<<>>, C}, e \in {x \in Raise : ~x.thrown}}
  <2>1. PICK c \in {<<>>, C}, e \in Raise : o = Then(c, e)
    BY <1>5
  <2>2. o.calls = c \o E /\ o.thrown = e.thrown
    BY <1>3, <2>1 DEF Then
  <2> HIDE DEF E, C, F
  <2>9. c = <<>> \/ c = C
    BY <2>1
  <2>10. c \in Seq(Handlers) /\ Len(c) \in 0 .. 1
    <3>1. CASE c = <<>>
      BY <1>1, <3>1
    <3>2. CASE c = C
      BY <1>1, <3>2
    <3> QED
      BY <2>9, <3>1, <3>2
  <2>11. /\ c \o E \in Seq(Handlers) /\ Len(c \o E) = Len(c) + 1
        /\ \A i \in 1 .. Len(c) + 1 : (c \o E)[i] = IF i <= Len(c) THEN c[i] ELSE E[i - Len(c)]
    BY <1>1, <1>2, <2>10
  <2>3. /\ c \o E \in Seq(Handlers) /\ Len(c \o E) = Len(c) + 1
        /\ (c \o E)[Len(c) + 1] = "on_error" /\ Len(c) \in 0 .. 1
    <3>1. (c \o E)[Len(c) + 1] = E[1]
      BY <2>10, <2>11
    <3> QED
      BY <1>1, <2>10, <2>11, <3>1
  <2>4. c \o E # <<>>
    BY <1>1, <2>3
  <2> QED
    BY <1>3, <2>1, <2>2, <2>3, <2>4 DEF Shape
<1>6. CASE o \in {Then(c \o E, e) : c \in {<<>>, C}, e \in Raise}
  <2>1. PICK c \in {<<>>, C}, e \in Raise : o = Then(c \o E, e)
    BY <1>6
  <2>2. o.calls = (c \o E) \o E /\ o.thrown = e.thrown
    BY <1>3, <2>1 DEF Then
  <2> HIDE DEF E, C, F
  <2>9. c = <<>> \/ c = C
    BY <2>1
  <2>10. c \in Seq(Handlers) /\ Len(c) \in 0 .. 1 /\ (Len(c) = 1 => c[1] = "callback")
    <3>1. CASE c = <<>>
      BY <1>1, <3>1
    <3>2. CASE c = C
      BY <1>1, <3>2
    <3> QED
      BY <2>9, <3>1, <3>2
  <2>11. /\ c \o E \in Seq(Handlers) /\ Len(c \o E) = Len(c) + 1
        /\ \A i \in 1 .. Len(c) + 1 : (c \o E)[i] = IF i <= Len(c) THEN c[i] ELSE E[i - Len(c)]
    BY <1>1, <1>2, <2>10
  <2>3. /\ c \o E \in Seq(Handlers) /\ Len(c \o E) = Len(c) + 1
        /\ (c \o E)[Len(c) + 1] = "on_error" /\ Len(c) \in 0 .. 1
        /\ Len(c) = 1 => (c \o E)[1] = "callback"
    <3>1. (c \o E)[Len(c) + 1] = E[1]
      BY <2>10, <2>11
    <3>2. Len(c) = 1 => (c \o E)[1] = c[1]
      BY <2>10, <2>11
    <3> QED
      BY <1>1, <2>10, <2>11, <3>1, <3>2
  <2> DEFINE d == (c \o E) \o E
  <2>4. /\ d \in Seq(Handlers) /\ Len(d) = Len(c) + 2
        /\ d[Len(c) + 1] = "on_error" /\ d[Len(c) + 2] = "on_error"
        /\ Len(c) = 1 => d[1] = "callback"
    BY <1>1, <1>2, <2>3
  <2> HIDE DEF d
  <2>5. d # <<>>
    BY <1>1, <2>3, <2>4
  <2>6. Shape(d)
    BY <2>3, <2>4 DEF Shape
  <2> QED
    BY <1>3, <2>1, <2>2, <2>5, <2>6 DEF d
<1>7. CASE o = [calls |-> F, thrown |-> FALSE]
  BY <1>1, <1>7 DEF Shape
<1>8. CASE o \in {Then(F, e) : e \in Raise}
  <2>1. PICK e \in Raise : o = Then(F, e)
    BY <1>8
  <2>2. o.calls = F \o E /\ o.thrown = e.thrown
    BY <1>3, <2>1 DEF Then
  <2> HIDE DEF E, F
  <2>3. F \o E \in Seq(Handlers) /\ Len(F \o E) = 2 /\ (F \o E)[2] = "on_error"
    BY <1>1, <1>2
  <2>4. F \o E # <<>>
    BY <1>1, <2>3
  <2> QED
    BY <1>3, <2>1, <2>2, <2>3, <2>4 DEF Shape
<1> QED
  BY <1>4, <1>5, <1>6, <1>7, <1>8 DEF OnDone, OnFailed

\* What has the shape calls one handler that is not on_error at most, and on_error
\* twice at most.
LEMMA ShapeCounts ==
  ASSUME NEW c, Shape(c)
  PROVE  /\ Cardinality({k \in DOMAIN c : c[k] # "on_error"}) <= 1
         /\ Cardinality({k \in DOMAIN c : c[k] = "on_error"}) <= 2
<1>1. Len(c) \in 0 .. 3 /\ DOMAIN c = 1 .. Len(c)
  <2>1. c \in Seq(Handlers) /\ Len(c) <= 3
    BY DEF Shape
  <2>2. Len(c) \in Nat /\ DOMAIN c = 1 .. Len(c)
    BY <2>1, LenProperties
  <2> QED
    BY <2>1, <2>2
<1>2. /\ IsFiniteSet({1}) /\ Cardinality({1}) = 1
      /\ IsFiniteSet({1} \cup {2}) /\ Cardinality({1} \cup {2}) = 2
      /\ IsFiniteSet({2} \cup {3}) /\ Cardinality({2} \cup {3}) = 2
  <2>1. \A x : IsFiniteSet({x}) /\ Cardinality({x}) = 1
    BY FS_Singleton
  <2>2. \A x, y : x # y => IsFiniteSet({x} \cup {y}) /\ Cardinality({x} \cup {y}) = 2
    <3> SUFFICES ASSUME NEW x, NEW y, x # y
                 PROVE  IsFiniteSet({x} \cup {y}) /\ Cardinality({x} \cup {y}) = 2
      OBVIOUS
    <3>1. IsFiniteSet({x}) /\ Cardinality({x}) = 1
      BY <2>1
    <3>2. IsFiniteSet({x} \cup {y}) /\ Cardinality({x} \cup {y}) = Cardinality({x}) + 1
      <4>1. y \notin {x}
        OBVIOUS
      <4> QED
        BY <3>1, <4>1, FS_AddElement
    <3> QED
      BY <3>1, <3>2
  <2>3. IsFiniteSet({1}) /\ Cardinality({1}) = 1
    BY <2>1
  <2>4. IsFiniteSet({1} \cup {2}) /\ Cardinality({1} \cup {2}) = 2
    <3>1. 1 # 2
      OBVIOUS
    <3> QED
      BY <2>2, <3>1
  <2>5. IsFiniteSet({2} \cup {3}) /\ Cardinality({2} \cup {3}) = 2
    <3>1. 2 # 3
      OBVIOUS
    <3> QED
      BY <2>2, <3>1
  <2> QED
    BY <2>3, <2>4, <2>5
<1>3. Cardinality({k \in DOMAIN c : c[k] # "on_error"}) <= 1
  <2>1. {k \in DOMAIN c : c[k] # "on_error"} \subseteq {1}
    BY <1>1 DEF Shape
  <2> QED
    BY <1>2, <2>1, FS_Subset
<1>4. Cardinality({k \in DOMAIN c : c[k] = "on_error"}) <= 2
  <2>1. CASE Len(c) = 3
    <3>1. {k \in DOMAIN c : c[k] = "on_error"} \subseteq {2} \cup {3}
      BY <1>1, <2>1 DEF Shape
    <3> QED
      BY <1>2, <3>1, FS_Subset
  <2>2. CASE Len(c) # 3
    <3>1. {k \in DOMAIN c : c[k] = "on_error"} \subseteq {1} \cup {2}
      BY <1>1, <2>2
    <3> QED
      BY <1>2, <3>1, FS_Subset
  <2> QED
    BY <2>1, <2>2
<1> QED
  BY <1>3, <1>4
-------------------------------------------------------------------------------
LEMMA HttpInvInit == HttpInit => HInv
<1> SUFFICES ASSUME HttpInit PROVE HInv
  OBVIOUS
<1> USE HttpAssumption DEF HttpInit, Free, Worker, NoRequest, Requests
<1>1. /\ tasks \in Seq(Requests) /\ answers \in Seq(Results) /\ <<>> \in Seq(Handlers)
      /\ Len(tasks) = 0 /\ Len(answers) = 0 /\ Len(<<>>) = 0
  BY EmptySeq
<1>2. \A w \in Workers : workers[w].id = 0 /\ workers[w].state = "free"
  OBVIOUS
<1>3. HttpTypeOK
  <2>1. calls \in [Requests -> Seq(Handlers)]
    BY <1>1
  <2>2. workers \in [Workers -> [state : {"free", "waiting", "taken", "sent", "exited"}, id : Requests \cup {NoRequest}]]
    OBVIOUS
  <2>3. answers \in Seq([id : Requests, ok : BOOLEAN])
    BY <1>1 DEF Results
  <2>4. sent \in 0 .. MaxRequests /\ parserMap \subseteq Requests /\ cancelled \subseteq Requests /\ dropped \subseteq Requests
    OBVIOUS
  <2>5. stop \in BOOLEAN /\ sender \in BOOLEAN /\ touched \in BOOLEAN
    OBVIOUS
  <2> QED
    BY <1>1, <2>1, <2>2, <2>3, <2>4, <2>5 DEF HttpTypeOK
<1>4. \A r \in Requests : calls[r] = <<>> /\ Shape(calls[r])
  BY <1>1 DEF Shape
<1>5. Flying(tasks, workers, answers) = {}
  BY <1>1, <1>2 DEF Flying
<1> QED
  BY <1>1, <1>2, <1>3, <1>4, <1>5 DEF HInv, OnePlace, Working, Over, Dropped, ClientInv, Table

\* Waking a worker moves no request.
LEMMA WakeKeeps ==
  ASSUME HttpTypeOK, Working,
         NotifyOne \/ workers' = [w \in Workers |-> IF workers[w] = Waiting THEN Free ELSE workers[w]]
  PROVE  /\ workers' \in [Workers -> [state : {"free", "waiting", "taken", "sent", "exited"}, id : Requests \cup {NoRequest}]]
         /\ \A w \in Workers : workers'[w].id = workers[w].id
         /\ Working'
<1> DEFINE T == [state : {"free", "waiting", "taken", "sent", "exited"}, id : Requests \cup {NoRequest}]
<1>1. /\ workers \in [Workers -> T]
      /\ Free \in T /\ Free.id = NoRequest /\ Free.state = "free"
      /\ Waiting.id = NoRequest /\ Waiting.state = "waiting"
  BY DEF HttpTypeOK, Free, Waiting, Worker
<1>2. workers' = workers \/ (\E w \in Workers : workers[w] = Waiting /\ workers' = [workers EXCEPT ![w] = Free])
        \/ workers' = [w \in Workers |-> IF workers[w] = Waiting THEN Free ELSE workers[w]]
  BY DEF NotifyOne
<1> HIDE DEF T
<1>3. /\ workers' \in [Workers -> T]
      /\ \A w \in Workers : workers'[w] = workers[w] \/ (workers[w] = Waiting /\ workers'[w] = Free)
  BY <1>1, <1>2
<1> QED
  BY <1>1, <1>3 DEF T, Working

\* A request is sent: it is nowhere yet, and enters the queue and the table.
LEMMA SendKeeps == HInv /\ RestRequest => HInv'
<1> SUFFICES ASSUME HInv, RestRequest PROVE HInv'
  OBVIOUS
<1> USE HttpAssumption DEF Requests
<1>1. /\ tasks \in Seq(Requests) /\ Len(tasks) \in Nat /\ sent \in Nat /\ sent + 1 \in Requests
      /\ Len(answers) \in Nat
  BY LenProperties DEF HInv, HttpTypeOK, RestRequest
<1>2. /\ tasks' \in Seq(Requests) /\ Len(tasks') = Len(tasks) + 1
      /\ \A i \in 1 .. Len(tasks) : tasks'[i] = tasks[i]
      /\ tasks'[Len(tasks) + 1] = sent + 1
  BY <1>1, AppendProperties DEF RestRequest
<1>3. /\ workers' \in [Workers -> [state : {"free", "waiting", "taken", "sent", "exited"}, id : Requests \cup {NoRequest}]]
      /\ \A w \in Workers : workers'[w].id = workers[w].id
      /\ Working'
  BY WakeKeeps DEF HInv, RestRequest
<1>4. /\ sent' = sent + 1 /\ answers' = answers /\ parserMap' = parserMap \cup {sent + 1}
      /\ UNCHANGED <<stop, main, sender, touched, cancelled, dropped, calls>>
  BY DEF RestRequest
<1>5. HttpTypeOK'
  BY <1>1, <1>2, <1>3, <1>4 DEF HInv, HttpTypeOK
<1>6. OnePlace'
  <2>1. /\ \A i \in 1 .. Len(tasks) : tasks[i] \in 1 .. sent
        /\ \A w \in Workers : workers[w].id \in 0 .. sent
        /\ \A j \in 1 .. Len(answers) : answers[j].id \in 1 .. sent
    BY Ids
  <2>2. \A i, j \in 1 .. Len(tasks) : tasks[i] = tasks[j] => i = j
    BY DEF HInv, OnePlace
  <2>3. \A i \in 1 .. Len(tasks') : i \in 1 .. Len(tasks) \/ i = Len(tasks) + 1
    BY <1>1, <1>2
  <2>4. \A i \in 1 .. Len(tasks') : \/ i \in 1 .. Len(tasks) /\ tasks'[i] = tasks[i] /\ tasks'[i] # sent + 1
                                    \/ i = Len(tasks) + 1 /\ tasks'[i] = sent + 1
    <3>1. \A n \in 1 .. sent : n # sent + 1
      BY <1>1
    <3>2. ASSUME NEW i \in 1 .. Len(tasks) PROVE tasks'[i] = tasks[i] /\ tasks'[i] # sent + 1
      BY <1>2, <2>1, <3>1
    <3> QED
      BY <1>2, <2>3, <3>2
  <2>5. \A i, j \in 1 .. Len(tasks') : tasks'[i] = tasks'[j] => i = j
    BY <2>2, <2>4
  <2>6. ASSUME NEW i \in 1 .. Len(tasks'), NEW w \in Workers PROVE tasks'[i] # workers'[w].id
    <3>1. workers'[w].id = workers[w].id /\ workers[w].id # sent + 1
      BY <1>1, <1>3, <2>1
    <3> QED
      BY <2>4, <3>1 DEF HInv, OnePlace
  <2>8. ASSUME NEW i \in 1 .. Len(tasks'), NEW j \in 1 .. Len(answers) PROVE tasks'[i] # answers'[j].id
    <3>1. answers'[j].id = answers[j].id /\ answers[j].id # sent + 1
      BY <1>1, <1>4, <2>1
    <3> QED
      BY <2>4, <3>1 DEF HInv, OnePlace
  <2>9. /\ \A i \in 1 .. Len(tasks') : tasks'[i] <= sent'
        /\ \A w \in Workers : workers'[w].id <= sent'
        /\ \A j \in 1 .. Len(answers') : answers'[j].id <= sent'
    <3>1. \A x \in 0 .. sent : x <= sent'
      BY <1>1, <1>4
    <3>2. \A w \in Workers : workers'[w].id \in 0 .. sent
      BY <1>3, <2>1
    <3>3. \A j \in 1 .. Len(answers') : answers'[j].id \in 0 .. sent
      BY <1>1, <1>4, <2>1
    <3>4. ASSUME NEW i \in 1 .. Len(tasks') PROVE tasks'[i] \in 0 .. sent \/ tasks'[i] = sent'
      <4>1. CASE i \in 1 .. Len(tasks) /\ tasks'[i] = tasks[i]
        <5>1. tasks[i] \in 1 .. sent
          BY <2>1, <4>1
        <5> QED
          BY <4>1, <5>1
      <4>2. CASE tasks'[i] = sent + 1
        BY <1>4, <4>2
      <4> QED
        BY <2>4, <4>1, <4>2
    <3>5. sent' <= sent'
      BY <1>1, <1>4
    <3> QED
      BY <3>1, <3>2, <3>3, <3>4, <3>5
  <2> QED
    BY <1>3, <1>4, <2>5, <2>6, <2>8, <2>9 DEF HInv, OnePlace
<1>7. Flying(tasks', workers', answers') = Flying(tasks, workers, answers) \cup {sent + 1}
  <2>1. Len(tasks) + 1 \in 1 .. Len(tasks') /\ \A i \in 1 .. Len(tasks) : i \in 1 .. Len(tasks')
    BY <1>1, <1>2
  <2>2. \A i \in 1 .. Len(tasks') : i \in 1 .. Len(tasks) \/ i = Len(tasks) + 1
    BY <1>1, <1>2
  <2>3. \A y : (\E i \in 1 .. Len(tasks') : tasks'[i] = y) <=> y = sent + 1 \/ (\E i \in 1 .. Len(tasks) : tasks[i] = y)
    BY <1>2, <2>1, <2>2
  <2> QED
    BY <1>1, <1>3, <1>4, <2>3 DEF Flying
<1>8. sent + 1 \notin cancelled
  BY <1>1 DEF HInv
<1>9. Over'
  <2>1. \A r \in Requests : calls[r] # <<>> => r <= sent /\ r # sent + 1
    BY <1>1 DEF HInv, Over
  <2> QED
    BY <1>1, <1>4, <1>7, <2>1 DEF HInv, Over, Shape
<1>10. Dropped'
  <2>1. \A r \in dropped : r \in 1 .. sent /\ r # sent + 1 /\ r \in 1 .. sent + 1
    BY <1>1 DEF HInv, Dropped
  <2> QED
    BY <1>4, <1>7, <2>1 DEF HInv, Dropped
<1>11. Table'
  BY <1>4, <1>7, <1>8 DEF HInv, Table
<1> QED
  BY <1>1, <1>3, <1>4, <1>5, <1>6, <1>9, <1>10, <1>11 DEF HInv, ClientInv

LEMMA CancelKeeps == ASSUME HInv, NEW r \in Requests, Cancel(r) PROVE HInv'
<1>1. r \in 1 .. sent /\ calls[r] = <<>> /\ cancelled' = cancelled \cup {r} /\ parserMap' = parserMap \ {r}
  BY HttpAssumption DEF Cancel, HInv, HttpTypeOK
<1>2. UNCHANGED <<tasks, workers, stop, answers, main, sender, touched, sent, dropped, calls>>
  BY DEF Cancel
<1>3. HttpTypeOK'
  BY <1>1, <1>2 DEF HInv, HttpTypeOK
<1>4. Over'
  BY <1>1, <1>2 DEF HInv, Over
<1>5. Table'
  BY <1>1, <1>2 DEF HInv, Table
<1>6. Dropped'
  BY <1>2 DEF HInv, Dropped
<1> QED
  BY <1>1, <1>2, <1>3, <1>4, <1>5, <1>6 DEF HInv, OnePlace, Working, ClientInv

\* An answer is handled: its request is nowhere any more, and has called what the
\* outcome says, or nothing if it was cancelled.
LEMMA TaskKeeps == HInv /\ RunTask => HInv'
<1> SUFFICES ASSUME HInv, RunTask PROVE HInv'
  OBVIOUS
<1> USE HttpAssumption DEF Requests
<1> DEFINE r == Head(answers).id
<1> DEFINE fly == Flying(tasks, workers, answers)
<1>1. /\ answers \in Seq(Results) /\ answers # <<>> /\ main = "loop" /\ sender
      /\ answers' = Tail(answers) /\ parserMap' = parserMap \ {r}
      /\ UNCHANGED <<tasks, workers, stop, sender, touched, sent, cancelled, dropped>>
  BY DEF HInv, HttpTypeOK, ClientInv, RunTask, Results
<1>2. /\ Tail(answers) \in Seq(Results) /\ Len(answers) \in Nat \ {0} /\ Len(Tail(answers)) = Len(answers) - 1
      /\ Head(answers) = answers[1] /\ Head(answers) \in Results
      /\ \A i \in 1 .. Len(Tail(answers)) : Tail(answers)[i] = answers[i + 1]
  BY <1>1, HeadTailProperties, EmptySeq
<1>3. r \in Requests /\ r <= sent /\ r \in fly
  BY <1>1, <1>2 DEF Results, HInv, OnePlace, Flying
<1>4. Flying(tasks', workers', answers') = fly \ {r}
  <2>1. \A j \in 1 .. Len(answers) : j = 1 \/ (j - 1 \in 1 .. Len(Tail(answers)) /\ Tail(answers)[j - 1] = answers[j])
    BY <1>2
  <2>2. \A j \in 1 .. Len(Tail(answers)) : j + 1 \in 2 .. Len(answers) /\ Tail(answers)[j].id # r
    BY <1>2 DEF HInv, OnePlace
  <2>3. /\ \A i \in 1 .. Len(tasks) : tasks[i] # r
        /\ \A w \in Workers : workers[w].id # r
    BY <1>2 DEF HInv, OnePlace
  <2>4. ASSUME NEW x \in Requests
        PROVE  (\E j \in 1 .. Len(Tail(answers)) : Tail(answers)[j].id = x)
                  <=> x # r /\ (\E j \in 1 .. Len(answers) : answers[j].id = x)
    <3>1. ASSUME NEW j \in 1 .. Len(Tail(answers)), Tail(answers)[j].id = x
          PROVE  x # r /\ \E k \in 1 .. Len(answers) : answers[k].id = x
      <4>1. j + 1 \in 1 .. Len(answers) /\ answers[j + 1].id = x
        BY <1>2, <3>1
      <4> QED
        BY <2>2, <3>1, <4>1
    <3>2. ASSUME x # r, NEW j \in 1 .. Len(answers), answers[j].id = x
          PROVE  \E k \in 1 .. Len(Tail(answers)) : Tail(answers)[k].id = x
      BY <1>2, <2>1, <3>2
    <3> QED
      BY <3>1, <3>2
  <2>5. \A x \in Requests : (\E j \in 1 .. Len(answers') : answers'[j].id = x)
                              <=> x # r /\ (\E j \in 1 .. Len(answers) : answers[j].id = x)
    BY <1>1, <2>4
  <2>6. tasks' = tasks /\ workers' = workers
    BY <1>1
  <2> HIDE DEF r
  <2> QED
    BY <2>3, <2>5, <2>6 DEF Flying
<1>5. PICK o \in IF r \notin parserMap THEN {[calls |-> <<>>, thrown |-> FALSE]}
                 ELSE IF Head(answers).ok THEN OnDone ELSE OnFailed :
        /\ calls' = [calls EXCEPT ![r] = @ \o o.calls]
        /\ main' = IF o.thrown THEN "left" ELSE "loop"
  BY DEF RunTask
<1>6. calls \in [Requests -> Seq(Handlers)] /\ calls[r] = <<>> /\ \A x \in Requests : Shape(calls[x])
  BY <1>3 DEF HInv, HttpTypeOK, Over
<1>7. Shape(o.calls) /\ (r \in cancelled => o.calls = <<>>)
  <2>1. CASE r \in parserMap
    <3>1. o \in OnDone \cup OnFailed /\ r \notin cancelled
      BY <1>1, <1>5, <2>1 DEF HInv, Table
    <3> QED
      BY <3>1, OutcomeShape
  <2>2. CASE r \notin parserMap
    <3>1. o.calls = calls[r]
      BY <1>5, <1>6, <2>2
    <3> QED
      BY <1>3, <1>6, <3>1
  <2> QED
    BY <2>1, <2>2
<1> HIDE DEF r, fly
<1>8. calls' = [calls EXCEPT ![r] = o.calls]
  <2>1. <<>> \o o.calls = o.calls
    BY <1>7, ConcatEmptySeq DEF Shape
  <2>2. calls' = [calls EXCEPT ![r] = <<>> \o o.calls]
    BY <1>3, <1>5, <1>6
  <2> QED
    BY <2>1, <2>2
<1>9. HttpTypeOK'
  <2>1. calls' \in [Requests -> Seq(Handlers)]
    BY <1>3, <1>6, <1>7, <1>8 DEF Shape
  <2>2. main' \in {"init", "loop", "left", "join", "exited"}
    BY <1>5
  <2> QED
    BY <1>1, <1>2, <2>1, <2>2 DEF HInv, HttpTypeOK, Results
<1>10. OnePlace'
  <2>1. \A j \in 1 .. Len(Tail(answers)) : j + 1 \in 1 .. Len(answers) /\ Tail(answers)[j] = answers[j + 1]
    BY <1>2
  <2>2. /\ \A i, j \in 1 .. Len(answers') : answers'[i].id = answers'[j].id => i = j
        /\ \A j \in 1 .. Len(answers') : answers'[j].id <= sent
    BY <1>1, <1>2, <2>1 DEF HInv, OnePlace
  <2> QED
    BY <1>1, <1>2, <2>1, <2>2 DEF HInv, OnePlace
<1>11. Over'
  <2> SUFFICES ASSUME NEW x \in Requests
               PROVE  /\ Shape(calls'[x])
                      /\ calls'[x] # <<>> => x <= sent' /\ x \notin Flying(tasks', workers', answers') \cup cancelled'
    BY DEF Over, Shape
  <2>1. CASE x = r
    BY <1>1, <1>3, <1>4, <1>6, <1>7, <1>8, <2>1
  <2>2. CASE x # r
    <3>1. calls'[x] = calls[x]
      BY <1>6, <1>8, <2>2
    <3>2. calls[x] # <<>> => x <= sent /\ x \notin fly \cup cancelled
      BY DEF HInv, Over, fly
    <3> QED
      BY <1>1, <1>4, <1>6, <3>1, <3>2
  <2> QED
    BY <2>1, <2>2
<1>12. \A x \in dropped : x \in Requests /\ x # r /\ x \notin fly /\ calls[x] = <<>>
  BY <1>3 DEF HInv, HttpTypeOK, Dropped, fly
<1>13. Dropped'
  <2>1. \A x \in dropped : calls'[x] = <<>>
    BY <1>6, <1>8, <1>12
  <2> QED
    BY <1>1, <1>4, <1>12, <2>1 DEF HInv, Dropped
<1>14. Table'
  BY <1>1, <1>4, <1>12 DEF HInv, Table, fly
<1> QED
  BY <1>1, <1>9, <1>10, <1>11, <1>13, <1>14 DEF HInv, Working, ClientInv

\* The rest of the main thread moves no request.
LEMMA MainRestKeeps ==
  HInv /\ (RunMainLoop \/ ExitMainLoop \/ DeleteClient \/ StopPool \/ JoinPool) => HInv'
<1> SUFFICES ASSUME HInv, RunMainLoop \/ ExitMainLoop \/ DeleteClient \/ StopPool \/ JoinPool PROVE HInv'
  OBVIOUS
<1> USE DEF HInv
<1>0. ASSUME UNCHANGED <<tasks, workers, answers, sent, cancelled, dropped, calls>>
      PROVE  OnePlace' /\ Working' /\ Over' /\ Dropped' /\ (cancelled \subseteq 1 .. sent)'
  <2>1. Flying(tasks', workers', answers') = Flying(tasks, workers, answers)
    BY <1>0 DEF Flying
  <2>2. OnePlace' /\ Working'
    BY <1>0 DEF OnePlace, Working
  <2> QED
    BY <1>0, <2>1, <2>2 DEF Over, Dropped
<1>1. CASE RunMainLoop
  <2>1. UNCHANGED <<parserMap, tasks, workers, stop, answers, sender, touched, sent, cancelled, dropped, calls>>
    BY <1>1 DEF RunMainLoop
  <2>2. HttpTypeOK' /\ ClientInv'
    BY <1>1 DEF RunMainLoop, HttpTypeOK, ClientInv
  <2>3. Table'
    BY <2>1 DEF Table, Flying
  <2> QED
    BY <1>0, <2>1, <2>2, <2>3
<1>2. CASE ExitMainLoop
  <2>1. UNCHANGED <<parserMap, tasks, workers, stop, answers, sender, touched, sent, cancelled, dropped, calls>>
    BY <1>2 DEF ExitMainLoop
  <2>2. HttpTypeOK' /\ ClientInv'
    BY <1>2 DEF ExitMainLoop, HttpTypeOK, ClientInv
  <2>3. Table'
    BY <2>1 DEF Table, Flying
  <2> QED
    BY <1>0, <2>1, <2>2, <2>3
<1>3. CASE DeleteClient
  <2>1. UNCHANGED <<tasks, workers, stop, answers, main, touched, sent, cancelled, dropped, calls>>
    BY <1>3 DEF DeleteClient
  <2>2. HttpTypeOK' /\ ClientInv' /\ Table'
    BY <1>3 DEF DeleteClient, HttpTypeOK, ClientInv, Table
  <2> QED
    BY <1>0, <2>1, <2>2
<1>4. CASE StopPool
  <2>1. /\ workers' \in [Workers -> [state : {"free", "waiting", "taken", "sent", "exited"}, id : Requests \cup {NoRequest}]]
        /\ \A w \in Workers : workers'[w].id = workers[w].id
        /\ Working'
    BY <1>4, WakeKeeps DEF StopPool
  <2>2. Flying(tasks', workers', answers') = Flying(tasks, workers, answers)
    BY <1>4, <2>1 DEF StopPool, Flying
  <2>3. HttpTypeOK'
    BY <1>4, <2>1 DEF StopPool, HttpTypeOK
  <2>4. OnePlace'
    BY <1>4, <2>1 DEF StopPool, OnePlace
  <2> QED
    BY <1>4, <2>1, <2>2, <2>3, <2>4 DEF StopPool, Over, Dropped, ClientInv, Table
<1>5. CASE JoinPool
  <2>1. UNCHANGED <<parserMap, tasks, workers, stop, answers, sender, touched, sent, cancelled, dropped, calls>>
    BY <1>5 DEF JoinPool
  <2>2. HttpTypeOK' /\ ClientInv'
    BY <1>5 DEF JoinPool, HttpTypeOK, ClientInv
  <2>3. Table'
    BY <2>1 DEF Table, Flying
  <2> QED
    BY <1>0, <2>1, <2>2, <2>3
<1> QED
  BY <1>1, <1>2, <1>3, <1>4, <1>5
-------------------------------------------------------------------------------
\* A worker takes the first request of the queue, waits or ends.
LEMMA TakeKeeps == ASSUME HInv, NEW w \in Workers, Take(w) PROVE HInv'
<1> USE HttpAssumption DEF Requests, NoRequest
<1> DEFINE States == {"free", "waiting", "taken", "sent", "exited"}
<1>1. /\ workers \in [Workers -> [state : States, id : Requests \cup {NoRequest}]]
      /\ workers[w] = Free /\ workers[w].id = 0 /\ tasks \in Seq(Requests)
      /\ UNCHANGED <<parserMap, stop, answers, main, sender, touched, sent, cancelled, dropped, calls>>
  BY DEF HInv, HttpTypeOK, Take, Free, Worker
<1>2. CASE tasks = <<>>
  <2>1. PICK x \in {Exited, Waiting} : workers' = [workers EXCEPT ![w] = x] /\ tasks' = tasks
    BY <1>2 DEF Take
  <2>2. x \in [state : States, id : Requests \cup {NoRequest}] /\ x.id = 0 /\ x.state \notin {"taken", "sent"}
    BY DEF Exited, Waiting, Worker
  <2>3. \A v \in Workers : workers'[v].id = workers[v].id
    BY <1>1, <2>1, <2>2
  <2>4. Flying(tasks', workers', answers') = Flying(tasks, workers, answers)
    BY <1>1, <2>1, <2>3 DEF Flying
  <2>5. HttpTypeOK'
    BY <1>1, <2>1, <2>2 DEF HInv, HttpTypeOK
  <2>6. OnePlace'
    BY <1>1, <2>1, <2>3 DEF HInv, OnePlace
  <2>7. Working'
    BY <1>1, <2>1, <2>2 DEF HInv, Working
  <2> QED
    BY <1>1, <2>4, <2>5, <2>6, <2>7 DEF HInv, Over, Dropped, ClientInv, Table
<1>3. CASE tasks # <<>>
  <2> DEFINE x == Worker("taken", Head(tasks))
  <2>1. /\ Tail(tasks) \in Seq(Requests) /\ Len(tasks) \in Nat \ {0} /\ Len(Tail(tasks)) = Len(tasks) - 1
        /\ Head(tasks) = tasks[1] /\ Head(tasks) \in Requests
        /\ \A i \in 1 .. Len(Tail(tasks)) : Tail(tasks)[i] = tasks[i + 1]
    BY <1>1, <1>3, HeadTailProperties, EmptySeq
  <2>2. x \in [state : States, id : Requests \cup {NoRequest}] /\ x.id = tasks[1] /\ x.state = "taken"
    BY <2>1 DEF Worker
  <2>3. workers' = [workers EXCEPT ![w] = x] /\ tasks' = Tail(tasks)
    BY <1>3 DEF Take
  <2> HIDE DEF x
  <2>4. /\ workers'[w] = x
        /\ \A v \in Workers \ {w} : workers'[v] = workers[v]
    BY <1>1, <2>3
  <2>5. \A i \in 1 .. Len(tasks) : i = 1 \/ (i - 1 \in 1 .. Len(tasks') /\ tasks'[i - 1] = tasks[i])
    BY <2>1, <2>3
  <2>6. \A i \in 1 .. Len(tasks') : i + 1 \in 2 .. Len(tasks) /\ tasks'[i] = tasks[i + 1]
    BY <2>1, <2>3
  <2>7. Flying(tasks', workers', answers') = Flying(tasks, workers, answers)
    <3> SUFFICES ASSUME NEW y \in Requests
                 PROVE  (\E i \in 1 .. Len(tasks') : tasks'[i] = y) \/ (\E v \in Workers : workers'[v].id = y)
                    <=> (\E i \in 1 .. Len(tasks) : tasks[i] = y) \/ (\E v \in Workers : workers[v].id = y)
      BY <1>1 DEF Flying
    <3>1. CASE y = tasks[1]
      <4>1. workers'[w].id = y /\ 1 \in 1 .. Len(tasks)
        BY <2>1, <2>2, <2>4, <3>1
      <4> QED
        BY <3>1, <4>1
    <3>2. CASE y # tasks[1]
      <4>1. (\E i \in 1 .. Len(tasks') : tasks'[i] = y) <=> (\E i \in 1 .. Len(tasks) : tasks[i] = y)
        BY <2>5, <2>6, <3>2
      <4>2. workers'[w].id # y /\ workers[w].id # y
        BY <1>1, <2>2, <2>4, <3>2
      <4>3. (\E v \in Workers : workers'[v].id = y) <=> (\E v \in Workers : workers[v].id = y)
        BY <2>4, <4>2
      <4> QED
        BY <4>1, <4>3
    <3> QED
      BY <3>1, <3>2
  <2>8. HttpTypeOK'
    BY <1>1, <2>1, <2>2, <2>3 DEF HInv, HttpTypeOK
  <2>9. OnePlace'
    <3>1. \A i, j \in 1 .. Len(tasks') : tasks'[i] = tasks'[j] => i = j
      BY <2>1, <2>6 DEF HInv, OnePlace
    <3>2. \A i \in 1 .. Len(tasks') : tasks'[i] # tasks[1]
      BY <2>1, <2>6 DEF HInv, OnePlace
    <3>3. \A v \in Workers : workers[v].id # tasks[1]
      BY <2>1 DEF HInv, OnePlace
    <3>4. \A j \in 1 .. Len(answers) : answers[j].id # tasks[1]
      BY <2>1 DEF HInv, OnePlace
    <3>5. \A u, v \in Workers : workers'[u].id = workers'[v].id /\ workers'[u].id # NoRequest => u = v
      <4>1. \A u, v \in Workers : workers[u].id = workers[v].id /\ workers[u].id # NoRequest => u = v
        BY DEF HInv, OnePlace
      <4> QED
        BY <2>2, <2>4, <3>3, <4>1
    <3>6. \A i \in 1 .. Len(tasks'), v \in Workers : tasks'[i] # workers'[v].id
      <4>1. \A i \in 1 .. Len(tasks), v \in Workers : tasks[i] # workers[v].id
        BY DEF HInv, OnePlace
      <4>2. \A i \in 1 .. Len(tasks'), v \in Workers : tasks'[i] # workers[v].id
        BY <2>6, <4>1
      <4> QED
        BY <2>2, <2>4, <3>2, <4>2
    <3>7. \A v \in Workers, j \in 1 .. Len(answers) : workers'[v].id # answers[j].id
      <4>1. \A v \in Workers, j \in 1 .. Len(answers) : workers[v].id # answers[j].id
        BY DEF HInv, OnePlace
      <4> QED
        BY <2>2, <2>4, <3>4, <4>1
    <3>8. /\ \A i \in 1 .. Len(tasks') : tasks'[i] <= sent
          /\ \A v \in Workers : workers'[v].id <= sent
      <4>1. /\ \A i \in 1 .. Len(tasks) : tasks[i] <= sent
            /\ \A v \in Workers : workers[v].id <= sent
        BY DEF HInv, OnePlace
      <4>2. \A i \in 1 .. Len(tasks') : tasks'[i] <= sent
        BY <2>6, <4>1
      <4>3. x.id <= sent
        BY <2>1, <2>2, <4>1
      <4> QED
        BY <2>4, <4>1, <4>2, <4>3
    <3>9. \A i \in 1 .. Len(tasks'), j \in 1 .. Len(answers) : tasks'[i] # answers[j].id
      <4>1. \A i \in 1 .. Len(tasks), j \in 1 .. Len(answers) : tasks[i] # answers[j].id
        BY DEF HInv, OnePlace
      <4> QED
        BY <2>6, <4>1
    <3> QED
      BY <1>1, <3>1, <3>5, <3>6, <3>7, <3>8, <3>9 DEF HInv, OnePlace
  <2>10. Working'
    BY <2>1, <2>2, <2>4 DEF HInv, Working
  <2> QED
    BY <1>1, <2>7, <2>8, <2>9, <2>10 DEF HInv, Over, Dropped, ClientInv, Table
<1> QED
  BY <1>2, <1>3

LEMMA ReadKeeps == ASSUME HInv, NEW w \in Workers, ReadSender(w) PROVE HInv'
<1>1. /\ workers[w].state = "taken" /\ workers' = [workers EXCEPT ![w].state = "sent"]
      /\ UNCHANGED <<parserMap, tasks, stop, answers, main, sender, sent, cancelled, dropped, calls>>
  BY DEF ReadSender
<1>2. \A v \in Workers : workers'[v].id = workers[v].id
  BY <1>1 DEF HInv, HttpTypeOK
<1>3. Flying(tasks', workers', answers') = Flying(tasks, workers, answers)
  BY <1>1, <1>2 DEF Flying
<1>4. HttpTypeOK'
  BY <1>1 DEF HInv, HttpTypeOK, ReadSender
<1>5. OnePlace'
  BY <1>1, <1>2 DEF HInv, OnePlace
<1>6. Working'
  BY <1>1 DEF HInv, HttpTypeOK, Working
<1> QED
  BY <1>1, <1>3, <1>4, <1>5, <1>6 DEF HInv, Over, Dropped, ClientInv, Table

\* A result moves from a worker to the main loop.
LEMMA AnswerMoves == ASSUME HInv, NEW w \in Workers, Answer(w) PROVE HInv'
<1> USE HttpAssumption DEF Requests, NoRequest
<1> DEFINE id == workers[w].id
<1>1. PICK ok \in BOOLEAN : answers' = Append(answers, [id |-> id, ok |-> ok])
  BY DEF Answer
<1>2. /\ workers[w].state = "sent" /\ workers' = [workers EXCEPT ![w] = Free]
      /\ UNCHANGED <<parserMap, tasks, stop, main, sender, touched, sent, cancelled, dropped, calls>>
      /\ id \in Requests /\ answers \in Seq(Results)
  BY DEF Answer, HInv, HttpTypeOK, Working, Results
<1>3. /\ answers' \in Seq(Results) /\ Len(answers) \in Nat /\ Len(answers') = Len(answers) + 1
      /\ \A j \in 1 .. Len(answers) : answers'[j] = answers[j]
      /\ answers'[Len(answers) + 1].id = id
  <2>1. [id |-> id, ok |-> ok] \in Results
    BY <1>2 DEF Results
  <2> QED
    BY <1>1, <1>2, <2>1, AppendProperties, LenProperties
<1> HIDE DEF id
<1>4. /\ workers'[w].id = 0 /\ workers'[w].state = "free"
      /\ \A v \in Workers \ {w} : workers'[v] = workers[v]
  BY <1>2 DEF HInv, HttpTypeOK, Free, Worker
<1>5. \A j \in 1 .. Len(answers') : j \in 1 .. Len(answers) \/ j = Len(answers) + 1
  BY <1>3
<1>6. Flying(tasks', workers', answers') = Flying(tasks, workers, answers)
  <2> SUFFICES ASSUME NEW y \in Requests
               PROVE  (\E v \in Workers : workers'[v].id = y) \/ (\E j \in 1 .. Len(answers') : answers'[j].id = y)
                  <=> (\E v \in Workers : workers[v].id = y) \/ (\E j \in 1 .. Len(answers) : answers[j].id = y)
    BY <1>2 DEF Flying
  <2>1. CASE y = id
    <3>1. Len(answers) + 1 \in 1 .. Len(answers')
      BY <1>3
    <3> QED
      BY <1>3, <2>1, <3>1 DEF id
  <2>2. CASE y # id
    <3>1. (\E j \in 1 .. Len(answers') : answers'[j].id = y) <=> (\E j \in 1 .. Len(answers) : answers[j].id = y)
      BY <1>3, <1>5, <2>2
    <3>2. workers'[w].id # y /\ workers[w].id # y
      BY <1>4, <2>2 DEF id
    <3>3. (\E v \in Workers : workers'[v].id = y) <=> (\E v \in Workers : workers[v].id = y)
      BY <1>4, <3>2
    <3> QED
      BY <3>1, <3>3
  <2> QED
    BY <2>1, <2>2
<1>7. HttpTypeOK'
  BY <1>2, <1>3 DEF HInv, HttpTypeOK, Results, Free, Worker
<1>8. OnePlace'
  <2>1. /\ \A j \in 1 .. Len(answers) : answers[j].id # id
        /\ \A i \in 1 .. Len(tasks) : tasks[i] # id
        /\ \A v \in Workers \ {w} : workers[v].id # id
        /\ id <= sent
    BY <1>2 DEF HInv, OnePlace, id
  <2>2. \A i, j \in 1 .. Len(answers') : answers'[i].id = answers'[j].id => i = j
    BY <1>3, <1>5, <2>1 DEF HInv, OnePlace
  <2>3. \A u, v \in Workers : workers'[u].id = workers'[v].id /\ workers'[u].id # NoRequest => u = v
    BY <1>4 DEF HInv, OnePlace
  <2>4. \A i \in 1 .. Len(tasks) : tasks[i] \in Requests
    BY ElementOfSeq DEF HInv, HttpTypeOK
  <2>5. \A i \in 1 .. Len(tasks), v \in Workers : tasks[i] # workers'[v].id
    BY <1>4, <2>4 DEF HInv, OnePlace
  <2>6. \A i \in 1 .. Len(tasks), j \in 1 .. Len(answers') : tasks[i] # answers'[j].id
    BY <1>3, <1>5, <2>1 DEF HInv, OnePlace
  <2>7. \A j \in 1 .. Len(answers') : answers'[j].id \in Requests /\ answers'[j].id <= sent
    <3>1. \A j \in 1 .. Len(answers) : answers[j].id \in Requests
      BY Ids
    <3> QED
      BY <1>2, <1>3, <1>5, <2>1, <3>1 DEF HInv, OnePlace
  <2>8. \A v \in Workers, j \in 1 .. Len(answers') : workers'[v].id # answers'[j].id
    BY <1>3, <1>4, <1>5, <2>1, <2>7 DEF HInv, OnePlace
  <2>9. \A v \in Workers : workers'[v].id <= sent
    <3>1. 0 <= sent
      BY Ids
    <3> QED
      BY <1>4, <3>1 DEF HInv, OnePlace
  <2> QED
    <3>1. /\ \A i, j \in 1 .. Len(tasks) : tasks[i] = tasks[j] => i = j
          /\ \A i \in 1 .. Len(tasks) : tasks[i] <= sent
      BY DEF HInv, OnePlace
    <3>2. tasks' = tasks /\ sent' = sent
      BY <1>2
    <3> QED
      BY <2>2, <2>3, <2>5, <2>6, <2>7, <2>8, <2>9, <3>1, <3>2 DEF OnePlace
<1>9. Working'
  BY <1>4 DEF HInv, Working
<1> QED
  BY <1>2, <1>6, <1>7, <1>8, <1>9 DEF HInv, Over, Dropped, ClientInv, Table

\* A task that throws leaves its request nowhere.
LEMMA DropKeeps == ASSUME HInv, NEW w \in Workers, Drop(w) PROVE HInv'
<1> USE HttpAssumption DEF Requests, NoRequest
<1> DEFINE id == workers[w].id
           fly == Flying(tasks, workers, answers)
<1>1. /\ workers[w].state = "sent" /\ workers' = [workers EXCEPT ![w] = Free]
      /\ dropped' = dropped \cup {id}
      /\ UNCHANGED <<parserMap, tasks, stop, answers, main, sender, touched, sent, cancelled, calls>>
      /\ id \in Requests
  BY DEF Drop, HInv, HttpTypeOK, Working
<1>2. /\ workers'[w].id = 0 /\ workers'[w].state = "free"
      /\ \A v \in Workers \ {w} : workers'[v] = workers[v]
  BY <1>1 DEF HInv, HttpTypeOK, Free, Worker
<1>3. /\ \A j \in 1 .. Len(answers) : answers[j].id # id
      /\ \A i \in 1 .. Len(tasks) : tasks[i] # id
      /\ \A v \in Workers \ {w} : workers[v].id # id
      /\ id <= sent /\ id \in fly
  BY <1>1 DEF HInv, OnePlace, Flying
<1>4. calls[id] = <<>>
  BY <1>1, <1>3 DEF HInv, Over
<1>5. id \in 1 .. sent
  BY <1>1, <1>3, Ids
<1>6. id # 0
  BY <1>1
<1> HIDE DEF id
<1>7. Flying(tasks', workers', answers') = fly \ {id}
  <2>1. \A y \in Requests : (\E v \in Workers : workers'[v].id = y) <=> y # id /\ (\E v \in Workers : workers[v].id = y)
    <3>1. \A y \in Requests : y # 0
      OBVIOUS
    <3>2. workers[w].id = id
      BY DEF id
    <3> QED
      BY <1>2, <1>3, <3>1, <3>2
  <2> QED
    BY <1>1, <1>3, <2>1 DEF Flying
<1> HIDE DEF fly
<1>8. HttpTypeOK'
  BY <1>1 DEF HInv, HttpTypeOK, Free, Worker
<1>9. OnePlace'
  <2>1. \A u, v \in Workers : workers'[u].id = workers'[v].id /\ workers'[u].id # NoRequest => u = v
    BY <1>2 DEF HInv, OnePlace
  <2>2. \A v \in Workers : workers'[v].id = workers[v].id \/ workers'[v].id = 0
    BY <1>2
  <2>3. /\ \A i \in 1 .. Len(tasks) : tasks[i] # 0
        /\ \A j \in 1 .. Len(answers) : answers[j].id # 0
        /\ 0 <= sent
    BY Ids
  <2> QED
    BY <1>1, <2>1, <2>2, <2>3 DEF HInv, OnePlace
<1>10. Working'
  BY <1>2 DEF HInv, Working
<1>11. Over'
  BY <1>1, <1>7 DEF HInv, Over, Shape, fly
<1>12. Dropped'
  BY <1>1, <1>4, <1>5, <1>7 DEF HInv, Dropped, fly
<1>13. Table'
  BY <1>1, <1>3, <1>7 DEF HInv, Table, fly
<1> QED
  BY <1>1, <1>8, <1>9, <1>10, <1>11, <1>12, <1>13 DEF HInv, ClientInv

LEMMA HttpInvNext == HInv /\ [HttpNext]_httpVars => HInv'
<1>1. HInv /\ UNCHANGED httpVars => HInv'
  BY DEF HInv, HttpTypeOK, OnePlace, Working, Over, Dropped, ClientInv, Table, httpVars
<1> QED
  BY <1>1, SendKeeps, CancelKeeps, TaskKeeps, MainRestKeeps, TakeKeeps, ReadKeeps, AnswerMoves, DropKeeps
     DEF HttpNext, HttpMainStep, WorkerStep

\* However many workers race and requests are made and cancelled, and whichever of
\* their handlers or of their tasks throw, the table has the handlers of what is on
\* its way or has no answer, and no request is answered twice, early, or after it
\* was cancelled.
THEOREM RequestsAccounted == HttpSpec => []Accounted
<1>1. HInv => Accounted
  <2> SUFFICES ASSUME HInv PROVE Accounted
    OBVIOUS
  <2>1. InFlight = Flying(tasks, workers, answers)
    BY FlightIs DEF HInv
  <2>2. TableMatchesFlight
    BY <2>1 DEF HInv, Table, TableMatchesFlight
  <2>3. AnsweredOnce
    BY <2>1, ShapeCounts DEF HInv, Over, Dropped, AnsweredOnce
  <2> QED
    BY <2>2, <2>3 DEF Accounted, HInv
<1> QED
  BY <1>1, HttpInvInit, HttpInvNext, PTL DEF HttpSpec
===============================================================================
