---------------------------- MODULE MCCoherence ----------------------------
(* A hierarchy for TLC: two L1s with an L2 of one line each, under one L3  *)
(* of two lines.                                                           *)
EXTENDS Coherence

LineSymmetry == Permutations(Lines)

PrivateL2s == [c \in {1, 2, 3, 4, 5} |-> [l \in Lines |->
                  CASE c \in {1, 2} -> c + 2 [] c \in {3, 4} -> 5 [] OTHER -> Mem]]
PrivateL2sWays == [c \in {1, 2, 3, 4, 5} |-> IF c = 5 THEN 2 ELSE 1]
=============================================================================
