----------------------------- MODULE MCPrioQueue -----------------------------
(* Instances of PrioQueue for TLC. *)
EXTENDS PrioQueue, TLC
=============================================================================
