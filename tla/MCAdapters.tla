------------------------------- MODULE MCAdapters -------------------------------
(***************************************************************************)
(* An adapter of either venue: one contract's market data over a line that is *)
(* lost once, or the account with two changes and two settings.               *)
(***************************************************************************)
EXTENDS Adapters

MCWanted == {"SWAP"}
MCParts == {"start", "market", "books", "settings"}
MCBooks == {"books"}
===============================================================================
