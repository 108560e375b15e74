------------------------------ MODULE DDRClock ------------------------------
(***************************************************************************)
(* The DDR controller is called in system cycles and reasons in memory      *)
(* cycles.  matchingMemToSysCycle is to give a system cycle that is          *)
(* translated back to the same memory cycle.                                *)
(***************************************************************************)
EXTENDS Integers

CONSTANTS sysFreq, memFreq

(* The constructor panics unless memFreq < sysFreq / 2. *)
ASSUME FreqAssumption ==
    /\ sysFreq \in Nat \ {0} /\ memFreq \in Nat \ {0}
    /\ 2 * memFreq < sysFreq

sysToMemCycle(sysCycle) == (sysCycle * memFreq) \div sysFreq + 1

matchingMemToSysCycle(memCycle) == (((2 * memCycle - 1) * sysFreq) \div memFreq) \div 2

(* When the scheduling event for a memory cycle is queued, by a handler that runs at  *)
(* sysCycle.                                                                        *)
enqSysCycle(memCycle, sysCycle) ==
    IF matchingMemToSysCycle(memCycle) >= sysCycle THEN matchingMemToSysCycle(memCycle)
    ELSE sysCycle
=============================================================================
