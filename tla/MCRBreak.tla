-------------------------------- MODULE MCRBreak --------------------------------
(***************************************************************************)
(* A strategy that is started once, within days of two minutes.                *)
(***************************************************************************)
EXTENDS RBreak

MCPrices == {0, 1, 3}
===============================================================================
