------------------------------- MODULE MCThreads -------------------------------
(***************************************************************************)
(* The three parts of the library that hand work between threads and timers *)
(* and share no state: the emitter, the websocket client and the HTTP       *)
(* client.  A behaviour of MCSpec is one of one of them, the other two       *)
(* being at rest, so that one run explores all three, each by itself.        *)
(***************************************************************************)
EXTENDS EventEmitter, WebsocketClient, HttpClient

CONSTANTS mainThread, other, dispatcher, noThread, e1, e2, timer, c1, c2, c3, w1, w2

MCProducers == {mainThread, other}
MCEvents == {e1, e2, timer}
MCConns == {c1, c2, c3}
MCWorkers == {w1, w2}

VARIABLE part       \* which of the three the behaviour is of

MCVars == <<part, vars, clientVars, httpVars>>

\* At rest no fair action is enabled: an emitter that was not started and a pool
\* that is gone rest from the beginning, a client once it was stopped and its
\* first attempt has failed.
HttpRests ==
  /\ parserMap = {} /\ tasks = <<>> /\ answers = <<>>
  /\ workers = [w \in Workers |-> Exited]
  /\ stop = TRUE /\ sender = FALSE /\ touched = FALSE
  /\ main = "exited"
  /\ sent = 0 /\ cancelled = {} /\ dropped = {}
  /\ calls = [r \in Requests |-> <<>>]

ClientToRest == (~stopped /\ Stop) \/ (stopped /\ OnFail(c1))

MCInit ==
  /\ Init /\ ClientInit
  /\ \/ part = "websocket" /\ HttpRests
     \/ part = "emitter" /\ conn[c1] # "free" /\ HttpRests
     \/ part = "http" /\ conn[c1] # "free" /\ HttpInit

MCNext ==
  \/ part = "websocket" /\ ClientNext /\ UNCHANGED <<part, vars, httpVars>>
  \/ part # "websocket" /\ ClientToRest /\ UNCHANGED <<part, vars, httpVars>>
  \/ part = "emitter" /\ Live = {} /\ Next /\ UNCHANGED <<part, clientVars, httpVars>>
  \/ part = "http" /\ Live = {} /\ HttpNext /\ UNCHANGED <<part, vars, clientVars>>

MCSpec == MCInit /\ [][MCNext]_MCVars /\ Fairness /\ ClientFairness /\ HttpFairness
================================================================================
