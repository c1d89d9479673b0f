----------------------------- MODULE MCCtaEngine ------------------------------
(***************************************************************************)
(* Model values for CtaEngine.  The run over the life of strategies explores  *)
(* two instances in one state graph: one strategy with two orders, which the   *)
(* venue does not answer, and two stop orders at two prices; and two           *)
(* strategies, one of which comes again after it was removed or lost with the  *)
(* process, with an order and a stop order.                                  *)
(***************************************************************************)
EXTENDS CtaEngine

CONSTANTS s1, s2

OneName == {s1}
TwoNames == {s1, s2}
MCPrices == {1, 2}
OnePrice == {1}
LongOnly == {"LONG"}
BothWays == {"LONG", "SHORT"}

OneLife ==
  /\ alive /\ restarts = 0 /\ gens[s1] <= 1 /\ gens[s2] = 0
  /\ \A o \in OrderIds : venue[o].st \in {None, "SUBMITTING"}
TwoLives ==
  /\ orderCount <= 1 /\ stopCount <= 1 /\ gens[s2] <= 1 /\ \A s \in DOMAIN stopOrders : stopOrders[s].price = 1
OneOrMany == OneLife \/ TwoLives
===============================================================================
