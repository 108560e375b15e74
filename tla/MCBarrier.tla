------------------------------ MODULE MCBarrier ------------------------------
(***************************************************************************)
(* All the cores of an instance, or only some of them: what must happen in   *)
(* the end is checked where not all are in use.                              *)
(***************************************************************************)
EXTENDS Barrier

CONSTANT Few

VARIABLE used       \* cores that threads run on

mcVars == <<vars, used>>

StepOf(A) == A /\ UNCHANGED used

MCInit == Init /\ used \in {Cids, Few}
MCNext == \E t \in used : StepOf(Step(t))

MCSpec == MCInit /\ [][MCNext]_mcVars

(* A woken thread resumes.  A running one gets to the end of its phase and,   *)
(* its simulated cycles being used up by whatever it does while it runs, does *)
(* not leave and rejoin within one phase for ever.                            *)
MCFairSpec ==
    /\ MCSpec
    /\ \A t \in Few : /\ WF_mcVars(StepOf(used = Few /\ resume(t)))
                      /\ SF_mcVars(StepOf(used = Few /\ sync(t)))

(* A core that waits gets its turn, or is taken out of the barrier, or an     *)
(* assertion of join has stopped the simulator.                               *)
WaitingRuns == \A t \in Few :
    used = Few /\ bar.state[t] = "WAITING" ~> bar.state[t] # "WAITING" \/ failed
=============================================================================
