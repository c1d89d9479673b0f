---------------------------- MODULE WebsocketClient ----------------------------
(***************************************************************************)
(* WebsocketClientImpl of core/api/WebsocketClient.cpp from its start on:   *)
(* connection objects, the reconnect timer, the ping chain and stop.  All   *)
(* of it runs on the main loop, one completion handler at a time; what is   *)
(* concurrent is asio: a wait that is pending can be cancelled, one that    *)
(* has expired and whose handler is queued cannot.                          *)
(***************************************************************************)
EXTENDS Naturals

CONSTANTS
  Conns,            \* the connection objects that may be alive at a time
  None,             \* the expired weak pointer
  MaxReady          \* bound: expired waits of a timer that are not yet handled

ASSUME ClientAssumption ==
  /\ None \notin Conns
  /\ MaxReady \in Nat \ {0}

VARIABLES
  conn,             \* state of each connection object
  hdl,              \* m_hdl
  stopped,          \* m_stopped
  reconnect,        \* the waits of m_reconnect_timer
  ping,             \* the waits of m_ping_timer, the replaced timers' among them
  pinged            \* whether the connection that opened last has been pinged

clientVars == <<conn, hdl, stopped, reconnect, ping, pinged>>

ConnStates == {"free", "connecting", "open", "closing"}
Waits == [pending : BOOLEAN, ready : Nat]

\* expires_after, or a new timer in place of the old one: the wait that was
\* pending is cancelled, its handler returns on the error.
Armed(t) == [t EXCEPT !.pending = TRUE]
Expired(t) == [pending |-> FALSE, ready |-> t.ready + 1]
Taken(t) == [t EXCEPT !.ready = @ - 1]
Alive(t) == t.pending \/ t.ready > 0

ClientTypeOK ==
  /\ conn \in [Conns -> ConnStates]
  /\ hdl \in {c \in Conns : conn[c] # "free"} \cup {None}
  /\ stopped \in BOOLEAN
  /\ reconnect \in Waits
  /\ ping \in Waits
  /\ pinged \in BOOLEAN

\* connect, by start: get_connection and m_client.connect.
ClientInit ==
  /\ \E c \in Conns : conn = [d \in Conns |-> IF d = c THEN "connecting" ELSE "free"]
  /\ hdl = None
  /\ stopped = FALSE
  /\ reconnect = [pending |-> FALSE, ready |-> 0]
  /\ ping = [pending |-> FALSE, ready |-> 0]
  /\ pinged = FALSE
-------------------------------------------------------------------------------
(* What the handlers have in common.                                         *)

\* Mutant of Connect: it does not test m_stopped.
ConnectAlways ==
  \E c \in Conns : conn[c] = "free" /\ conn' = [conn EXCEPT ![c] = "connecting"]

\* connect, with a URI that get_connection can parse, as those of the adapters are.
Connect ==
  IF stopped THEN UNCHANGED conn
  ELSE \E c \in Conns : conn[c] = "free" /\ conn' = [conn EXCEPT ![c] = "connecting"]

\* Mutant of HandleReconnect: only a connection that was open is replaced.
HandleReconnectOpen == reconnect' = IF stopped \/ hdl = None THEN reconnect ELSE Armed(reconnect)

\* handle_reconnect, which on_fail reaches without a test of m_stopped.
HandleReconnect == reconnect' = IF stopped THEN reconnect ELSE Armed(reconnect)

\* Mutant of StartPing: it does not test m_stopped.
StartPingAlways(t) == Armed(t)

\* start_ping, from the waits t.
StartPing(t) == IF stopped THEN t ELSE Armed(t)

\* The connection object is destroyed after its last handler.
Release(c) ==
  /\ conn' = [conn EXCEPT ![c] = "free"]
  /\ hdl' = IF hdl = c THEN None ELSE hdl
-------------------------------------------------------------------------------
\* Mutant of OnOpen: the connection is not pinged.
OnOpenSilent(c) ==
  /\ conn[c] = "connecting"
  /\ conn' = [conn EXCEPT ![c] = "open"]
  /\ hdl' = c
  /\ pinged' = FALSE
  /\ UNCHANGED <<stopped, reconnect, ping>>

\* on_open; m_stopped is tested for the ping only.
OnOpen(c) ==
  /\ conn[c] = "connecting"
  /\ conn' = [conn EXCEPT ![c] = "open"]
  /\ hdl' = c
  /\ ping' = StartPing(ping)
  /\ pinged' = FALSE
  /\ UNCHANGED <<stopped, reconnect>>

\* on_fail: refused, or the handshake timed out.
OnFail(c) ==
  /\ conn[c] = "connecting"
  /\ Release(c)
  /\ HandleReconnect
  /\ UNCHANGED <<stopped, ping, pinged>>

\* The peer's close frame is answered; sending throws from now on.
PeerCloses(c) ==
  /\ conn[c] = "open"
  /\ conn' = [conn EXCEPT ![c] = "closing"]
  /\ UNCHANGED <<hdl, stopped, reconnect, ping, pinged>>

\* on_close: the network failed, or the closing handshake ended or timed out.
\* It tests m_stopped, as handle_reconnect does after it.
OnClose(c) ==
  /\ conn[c] \in {"open", "closing"}
  /\ Release(c)
  /\ HandleReconnect
  /\ UNCHANGED <<stopped, ping, pinged>>

ReconnectExpire ==
  /\ reconnect.pending /\ reconnect.ready < MaxReady
  /\ reconnect' = Expired(reconnect)
  /\ UNCHANGED <<conn, hdl, stopped, ping, pinged>>

\* Mutant of ReconnectFire: the timer is periodic.
ReconnectFireAgain ==
  /\ reconnect.ready > 0
  /\ reconnect' = Armed(Taken(reconnect))
  /\ Connect
  /\ UNCHANGED <<hdl, stopped, ping, pinged>>

\* The handler of the reconnect timer.
ReconnectFire ==
  /\ reconnect.ready > 0
  /\ reconnect' = Taken(reconnect)
  /\ Connect
  /\ UNCHANGED <<hdl, stopped, ping, pinged>>

PingExpire ==
  /\ ping.pending /\ ping.ready < MaxReady
  /\ ping' = Expired(ping)
  /\ UNCHANGED <<conn, hdl, stopped, reconnect, pinged>>

\* The handler of the ping timer: it pings whatever is open, and rearms.
PingFire ==
  /\ ping.ready > 0
  /\ ping' = StartPing(Taken(ping))
  /\ pinged' = (pinged \/ (hdl # None /\ conn[hdl] = "open"))
  /\ UNCHANGED <<conn, hdl, stopped, reconnect>>

\* stop: the timers and an attempt under way are left alone.
Stop ==
  /\ stopped' = TRUE
  /\ conn' = IF hdl # None /\ conn[hdl] = "open" THEN [conn EXCEPT ![hdl] = "closing"] ELSE conn
  /\ UNCHANGED <<hdl, reconnect, ping, pinged>>

ClientNext ==
  \/ \E c \in Conns : OnOpen(c) \/ OnFail(c) \/ PeerCloses(c) \/ OnClose(c)
  \/ ReconnectExpire
  \/ ReconnectFire
  \/ PingExpire
  \/ PingFire
  \/ Stop

ClientSpec == ClientInit /\ [][ClientNext]_clientVars

\* Timers expire and asio runs the handlers that are ready; websocketpp bounds
\* an attempt and a closing handshake by timers of its own.  Nobody need close
\* an open connection or stop the client.
ClientFairness ==
  /\ WF_clientVars(\E c \in Conns : OnOpen(c) \/ OnFail(c))
  /\ WF_clientVars(\E c \in Conns : conn[c] = "closing" /\ OnClose(c))
  /\ WF_clientVars(ReconnectExpire) /\ WF_clientVars(ReconnectFire)
  /\ WF_clientVars(PingExpire) /\ WF_clientVars(PingFire)

FairClientSpec == ClientSpec /\ ClientFairness
-------------------------------------------------------------------------------
(* Properties.                                                               *)

Live == {c \in Conns : conn[c] # "free"}

\* There is one line of life: a connection or an attempt, or else one wait of
\* the reconnect timer, never two of them, although close, failure, timer and
\* stop each start or end one.  A client that is not stopped has it.
OneLine ==
  /\ \A c, d \in Live : c = d
  /\ Alive(reconnect) => Live = {}
  /\ ~(reconnect.pending /\ reconnect.ready > 0) /\ reconnect.ready <= 1
  /\ ~stopped => Live # {} \/ Alive(reconnect)

\* m_hdl leads to the connection that can send whenever there is one: a send
\* is logged as "Connection not open" only when no connection is open.
HandleFollows ==
  \A c \in Conns : conn[c] \in {"open", "closing"} <=> hdl = c

\* An open connection is pinged if it stays open and the client is not
\* stopped, however the waits of earlier connections expire into it.
OpenIsPinged ==
  (\E c \in Conns : conn[c] = "open") /\ ~pinged
    ~> pinged \/ stopped \/ (\A c \in Conns : conn[c] # "open")

\* One line of life, and the handle that send uses is that line's.
LineSound == ClientTypeOK /\ OneLine /\ HandleFollows

\* After stop both timer chains die out for good.
StopSettles == stopped ~> [](~Alive(reconnect) /\ ~Alive(ping))

\* The line that the adapter sees.
LineOf ==
  IF \E c \in Conns : conn[c] = "open" THEN "up"
  ELSE IF \E c \in Conns : conn[c] = "closing" THEN "closing"
  ELSE IF \E c \in Conns : conn[c] = "connecting" THEN "opening"
  ELSE "down"

AbstractLink == INSTANCE Link WITH line <- LineOf

\* The client is a Link: one line at a time, and no attempt begun after stop.
ImplementsLink == AbstractLink!Safety

\* Until it is stopped every lost or refused connection is followed by another
\* attempt, for ever.
LineReturns == AbstractLink!Progress
===============================================================================
