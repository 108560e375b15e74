------------------------- MODULE MCRamulatorMemCtrl -------------------------
(***************************************************************************)
(* Two instances of RamulatorMemCtrl, explored in one run: accesses to       *)
(* several addresses in one bound phase, and to one address in two.          *)
(***************************************************************************)
EXTENDS RamulatorMemCtrl, TLC

VARIABLE instance

mcVars == <<vars, instance>>

TwoPhases == INSTANCE RamulatorMemCtrl WITH Addrs <- {1}, AccessPhases <- 2,
                                            MaxPhases <- 2

MCInit == \/ instance = "addresses" /\ Init
          \/ instance = "phases" /\ TwoPhases!Init

MCNext == /\ \/ instance = "addresses" /\ Next
             \/ instance = "phases" /\ TwoPhases!Next
          /\ UNCHANGED instance

MCSpec == MCInit /\ [][MCNext]_mcVars

(* NoAcc names some core, but no action reads the record of an event that is *)
(* free or done, so permuting the cores keeps behaviours.                    *)
CoreSymmetry == Permutations(Cores)
=============================================================================
