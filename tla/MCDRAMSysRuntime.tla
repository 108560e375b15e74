-------------------------- MODULE MCDRAMSysRuntime --------------------------
(***************************************************************************)
(* Two placements of the controllers, explored in one run: every controller  *)
(* in a domain and on a thread of its own, and all in one domain, as in the  *)
(* configurations of the experiments.                                        *)
(***************************************************************************)
EXTENDS DRAMSysRuntime, TLC

CONSTANTS k1, k2, k3, d1, d2, d3, w1, w2, w3

DomainPerCtrl == (k1 :> d1) @@ (k2 :> d2) @@ (k3 :> d3)
ThreadPerDomain == (d1 :> w1) @@ (d2 :> w2) @@ (d3 :> w3)

VARIABLE placement

mcVars == <<vars, placement>>

One == INSTANCE DRAMSysRuntime WITH Domain <- [k \in {k1, k2, k3} |-> d1]

MCInit == Init /\ placement \in {"threads", "one domain"}

StepOf(k) == \/ placement = "threads" /\ Step(k) /\ UNCHANGED placement
             \/ placement = "one domain" /\ One!Step(k) /\ UNCHANGED placement

MCNext == \E k \in Ctrls : StepOf(k)

(* A weave thread never stops inside a tick and always takes its next event. *)
MCSpec == MCInit /\ [][MCNext]_mcVars /\ \A k \in Ctrls : WF_mcVars(StepOf(k))
-----------------------------------------------------------------------------
(* A tick that is begun returns, unless a panic has stopped the simulator: no    *)
(* controller spins for ever on a DRAM tick that nobody finishes.  With all      *)
(* controllers in one domain the panic for a call of a future cycle is never     *)
(* reached: every controller gets to the last cycle.                            *)
EveryTickEnds ==
    /\ TickReturns
    /\ placement = "one domain" ~> \A k \in Ctrls : cycle[k] = MaxCycle
=============================================================================
