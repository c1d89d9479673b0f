--------------------------------- MODULE MCOms ---------------------------------
(* Model values for Oms: a short position of a lot of today's and one of        *)
(* yesterday's, which requests and fills take whole and in parts.              *)
EXTENDS Oms

MCHeld == {[LONG |-> [td |-> 0, yd |-> 0], SHORT |-> [td |-> 2, yd |-> 2]]}
================================================================================
