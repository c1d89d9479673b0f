--------------------------------- MODULE Link ----------------------------------
(***************************************************************************)
(* What a WebsocketClient promises to the adapter built on it, from its     *)
(* start on: there is at most one connection, or attempt at one, at a time; *)
(* while the client is not stopped the next attempt always comes; once it   *)
(* is stopped no attempt is begun.                                          *)
(***************************************************************************)
VARIABLES
  line,             \* "down", "opening", "up" or "closing"
  stopped           \* m_stopped

vars == <<line, stopped>>

Lines == {"down", "opening", "up", "closing"}

\* start connects at once.
Init == line = "opening" /\ stopped = FALSE

Move(from, to) == line = from /\ line' = to /\ UNCHANGED stopped

Attempt == ~stopped /\ Move("down", "opening")
Open == Move("opening", "up")
Fail == Move("opening", "down")
Closing == Move("up", "closing")
Drop == Move("up", "down") \/ Move("closing", "down")

\* stop closes the connection that is open; one that is opening it leaves alone.
Stop ==
  /\ stopped' = TRUE
  /\ line' = IF line = "up" THEN "closing" ELSE line

Next == Attempt \/ Open \/ Fail \/ Closing \/ Drop \/ Stop

\* Attempts are made, and they and a closing handshake come to an end.
Progress ==
  /\ WF_vars(Attempt)
  /\ WF_vars(Open \/ Fail)
  /\ WF_vars(line = "closing" /\ Drop)

Safety == Init /\ [][Next]_vars
Spec == Safety /\ Progress
===============================================================================
