-------------------------- MODULE MCContentionSim --------------------------
(***************************************************************************)
(* Two domains, each simulated by its own thread or both by one; the first   *)
(* core's misses go from domain 1 to domain 2, the second's the other way.   *)
(***************************************************************************)
EXTENDS ContentionSim

MCOwners == {1 :> 1 @@ 2 :> 2, 1 :> 1 @@ 2 :> 1}
MCCore == 1 :> 1 @@ 2 :> 1 @@ 3 :> 2
MCSrcDom == 1 :> 1 @@ 2 :> 1 @@ 3 :> 2
MCDstDom == 1 :> 2 @@ 2 :> 2 @@ 3 :> 1
=============================================================================
