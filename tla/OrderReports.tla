----------------------------- MODULE OrderReports ------------------------------
(***************************************************************************)
(* What the sessions of both adapters say about orders: the venue's states, *)
(* their translation for the OMS, and what messages in flight mention.      *)
(***************************************************************************)
EXTENDS Naturals, Sequences, FiniteSets, SequencesExt

CONSTANT None       \* the status of an order that the adapter does not know

Open == {"live", "partially_filled"}
VenueStates == Open \cup {"none", "filled", "canceled", "rejected"}

\* STATUS_BINANCE2KT; STATUS_OKX2KT is the same, without rejected orders, which
\* OKX does not report.
StatusOf(state) ==
  CASE state = "live" -> "NOTTRADED"
    [] state = "partially_filled" -> "PARTTRADED"
    [] state = "filled" -> "ALLTRADED"
    [] state = "canceled" -> "CANCELLED"
    [] state = "rejected" -> "REJECTED"

Finished == {"ALLTRADED", "CANCELLED", "REJECTED"}
Status == Finished \cup {"SUBMITTING", "NOTTRADED", "PARTTRADED"}

ASSUME NoneAssumption == None \notin Status

\* The OMS has been told the venue's state of an order, or knows nothing of one
\* that is not open.
Agree(status, state) ==
  \/ state # "none" /\ status = StatusOf(state)
  \/ state \notin Open /\ status = None

Mentions(o, q, ops) == \E m \in Range(q) : m.op \in ops /\ m.o = o

\* A report is of a fill of one lot, or of none.
Fills(o, m) == m.op = "orders" /\ m.o = o /\ m.fill = 1
LotsIn(o, q) == Cardinality({k \in DOMAIN q : Fills(o, q[k])})
===============================================================================
