------------------------------- MODULE EventBus -------------------------------
(***************************************************************************)
(* What the event emitter of core/event promises to the engines built on    *)
(* it: events are handled in the order in which they were put, none is lost *)
(* or repeated, and while the emitter serves (it is started and the main    *)
(* loop runs) an event that was put is eventually handled.                  *)
(***************************************************************************)
EXTENDS Sequences

CONSTANT Events     \* the events that can be put

VARIABLES
  pending,          \* the events put and not yet handled, oldest first
  serving           \* whether the emitter is obliged to make progress

vars == <<pending, serving>>

Init == pending = <<>> /\ serving \in BOOLEAN

Put(e) ==
  /\ pending' = Append(pending, e)
  /\ UNCHANGED serving

Handle ==
  /\ pending # <<>>
  /\ pending' = Tail(pending)
  /\ UNCHANGED serving

\* Starting or stopping the emitter loses nothing of what is pending.
Switch ==
  /\ serving' = ~serving
  /\ UNCHANGED pending

Next ==
  \/ \E e \in Events : Put(e)
  \/ Handle
  \/ Switch

Safety == Init /\ [][Next]_vars

\* An event is handled if the emitter serves for long enough.
Progress == WF_vars(serving /\ Handle)

Spec == Safety /\ Progress
===============================================================================
