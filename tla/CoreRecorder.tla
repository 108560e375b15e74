---------------------------- MODULE CoreRecorder ----------------------------
(***************************************************************************)
(* The recorder of an in-order (Timing) core.  Its graph is one chain of    *)
(* core events and the memory events between them; a core event reports the *)
(* cycle it was recorded for and the one it started in, and cSimEnd moves    *)
(* the clock by the difference.  PUTs hang off the chain and are left out.    *)
(***************************************************************************)
EXTENDS Integers, Sequences, FiniteSetsExt

CONSTANTS
    PhaseLength,
    SharedThread,   \* does the weave thread of the core's domain run other domains too?
    Advances,       \* cycles the core may run between two accesses
    Estimates,      \* bound-phase latencies of the memory controller
    Latencies,      \* weave-phase latencies of the memory controller, at least 1
    MaxAccesses, MaxJoins, MaxPhases \* bounds

VARIABLES
    phase, globPhase,
    curCycle,       \* the core's clock
    state, gap,
    waits,          \* is the core held in the barrier loop for another phase?
    chain,          \* events recorded and not simulated; the last is prevRespEvent
    ready,          \* the cycle in which the first of them may start
    prevRespCycle,
    sim,            \* lastEventSimulatedOrigStartCycle, lastEventSimulatedStartCycle
    lastUnhalted, accesses, joins,
    failed          \* an assertion has stopped the simulator

vars == <<phase, globPhase, curCycle, state, gap, waits, chain, ready, prevRespCycle, sim,
          lastUnhalted, accesses, joins, failed>>

PhaseEnd == globPhase + PhaseLength

Init ==
    /\ phase = "bound" /\ globPhase = 0 /\ curCycle = 0
    /\ state = "HALTED" /\ gap = 0 /\ waits = FALSE
    /\ chain = <<>> /\ ready = 0 /\ prevRespCycle = 0
    /\ sim = [orig |-> 0, start |-> 0]
    /\ lastUnhalted = 0 /\ accesses = 0 /\ joins = 0 /\ failed = FALSE

(* A TimingCoreEvent recorded for cycle c, with the delay to the event after it. *)
CoreEvent(c, delay) == [kind |-> "core", orig |-> c - gap, min |-> c, delay |-> delay]
MemEvent(c) == [kind |-> "mem", orig |-> 0, min |-> c, delay |-> 0]
-----------------------------------------------------------------------------
(* TimingCore::join and leave *)
Join ==
    /\ ~failed /\ phase = "bound" /\ state # "RUNNING" /\ joins < MaxJoins
    /\ joins' = joins + 1
    /\ state' = "RUNNING" /\ waits' = FALSE
    /\ IF state = "HALTED"
       THEN /\ failed' = (chain # <<>> \/ lastUnhalted > globPhase)
            /\ gap' = 0
            /\ chain' = <<[kind |-> "core", orig |-> globPhase, min |-> globPhase, delay |-> 0]>>
            /\ ready' = globPhase /\ prevRespCycle' = globPhase /\ curCycle' = globPhase
       ELSE /\ failed' = (curCycle < globPhase)
            /\ UNCHANGED <<gap, chain, ready, prevRespCycle, curCycle>>
    /\ UNCHANGED <<phase, globPhase, sim, lastUnhalted, accesses>>

Leave ==
    /\ ~failed /\ phase = "bound" /\ state = "RUNNING"
    /\ state' = "DRAINING" /\ waits' = FALSE
    /\ chain' = chain \o <<CoreEvent(prevRespCycle, curCycle - prevRespCycle),
                           CoreEvent(curCycle, 0)>>
    /\ prevRespCycle' = curCycle
    /\ UNCHANGED <<phase, globPhase, curCycle, gap, ready, sim, lastUnhalted, accesses,
                   joins, failed>>

(* The memory controller's record says that the response came a cycle after the *)
(* request: the estimate is charged to the core, and added after the record.    *)
Recorded(est) == 1

(* An access of the core, and recordAccess.  The phase end is tested only at the *)
(* end of a basic block: until then the core's accesses go on past it.          *)
Access(adv, est) ==
    /\ ~failed /\ phase = "bound" /\ state = "RUNNING"
    /\ ~waits /\ accesses < MaxAccesses
    /\ accesses' = accesses + 1
    /\ LET start == curCycle + adv
       IN /\ failed' = (start < prevRespCycle)
          /\ chain' = chain \o <<CoreEvent(prevRespCycle, start - prevRespCycle),
                                 MemEvent(start)>>
          /\ prevRespCycle' = start + Recorded(est)
          /\ curCycle' = start + 1 + est
    /\ UNCHANGED <<phase, globPhase, state, gap, waits, ready, sim, lastUnhalted, joins>>

(* Without another access, the core runs past the end of the phase. *)
Run(adv) ==
    /\ ~failed /\ phase = "bound" /\ state = "RUNNING"
    /\ curCycle <= PhaseEnd /\ adv > 0
    /\ curCycle' = PhaseEnd + adv
    /\ UNCHANGED <<phase, globPhase, state, gap, waits, chain, ready, prevRespCycle, sim,
                   lastUnhalted, accesses, joins, failed>>
-----------------------------------------------------------------------------
(* cSimStart: the chain of a running core is continued to curCycle, and by an   *)
(* event that starts there.                                                    *)
CoverDelay ==
    IF prevRespCycle < curCycle THEN <<CoreEvent(prevRespCycle, curCycle - prevRespCycle)>>
    ELSE <<>>
Taper == CoverDelay \o <<CoreEvent(curCycle, 0)>>

StartWeave ==
    /\ ~failed /\ phase = "bound" /\ globPhase < MaxPhases * PhaseLength
    /\ state = "RUNNING" => curCycle > PhaseEnd
    /\ phase' = "weave"
    /\ IF state = "RUNNING"
       THEN /\ chain' = chain \o Taper
            /\ prevRespCycle' = Max({prevRespCycle, curCycle})
            /\ UNCHANGED curCycle
       ELSE /\ curCycle' = IF state = "DRAINING" THEN Max({curCycle, PhaseEnd}) ELSE curCycle
            /\ UNCHANGED <<chain, prevRespCycle>>
    /\ UNCHANGED <<globPhase, state, gap, waits, ready, sim, lastUnhalted, accesses, joins,
                   failed>>

(* A thread with one domain stops at the limit, one with several after it. *)
InPhase(c) == IF SharedThread THEN c <= PhaseEnd ELSE c < PhaseEnd

StartCycle == Max({ready, chain[1].min})
Runnable == chain # <<>> /\ InPhase(StartCycle)

(* The first event runs; a memory event takes lat cycles.  reportEventSimulated *)
(* asserts that only a draining core comes to the end of its chain.             *)
Simulate(lat) ==
    /\ ~failed /\ phase = "weave" /\ Runnable
    /\ chain[1].kind = "core" => lat = Min(Latencies)
    /\ chain' = Tail(chain)
    /\ ready' = StartCycle + (IF chain[1].kind = "core" THEN chain[1].delay ELSE lat)
    /\ sim' = IF chain[1].kind = "core"
              THEN [orig |-> chain[1].orig, start |-> StartCycle] ELSE sim
    /\ failed' = (Len(chain) = 1 /\ state # "DRAINING")
    /\ UNCHANGED <<phase, globPhase, curCycle, state, gap, waits, prevRespCycle, lastUnhalted,
                   accesses, joins>>

(* cSimEnd: the panic on Cycle1 > Cycle2 is the property NoNegativeSkew. *)
Cycle1 == sim.orig + gap
Cycle2 == sim.start
Skew == IF state = "HALTED" THEN 0 ELSE Cycle2 - Cycle1

(* The loop around the barrier: a core beyond the end of the next phase too does *)
(* not get out of it.                                                            *)
StaysInBarrier(cycle) == state = "RUNNING" /\ cycle > PhaseEnd + PhaseLength

EndWeave ==
    /\ ~failed /\ phase = "weave" /\ ~Runnable
    /\ phase' = "bound" /\ globPhase' = PhaseEnd
    /\ curCycle' = curCycle + Skew
    /\ waits' = StaysInBarrier(curCycle')
    /\ gap' = gap + Skew
    /\ prevRespCycle' = prevRespCycle + Skew
    /\ IF state # "HALTED" /\ chain = <<>>
       THEN state' = "HALTED" /\ lastUnhalted' = sim.start
       ELSE UNCHANGED <<state, lastUnhalted>>
    /\ UNCHANGED <<chain, ready, sim, accesses, joins, failed>>

Next ==
    \/ Join \/ Leave
    \/ \E adv \in Advances, est \in Estimates : Access(adv, est)
    \/ \E adv \in Advances : Run(adv)
    \/ StartWeave
    \/ \E lat \in Latencies : Simulate(lat)
    \/ EndWeave

Spec == Init /\ [][Next]_vars
-----------------------------------------------------------------------------
(* The recorder's states and clocks: no skew subtraction of cSimEnd takes a *)
(* clock below zero.                                                        *)
TypeOK ==
    /\ state \in {"HALTED", "RUNNING", "DRAINING"} /\ phase \in {"bound", "weave"}
    /\ {curCycle, globPhase, gap, ready, prevRespCycle, lastUnhalted} \subseteq Nat
    /\ \A i \in 1..Len(chain) : {chain[i].orig, chain[i].min, chain[i].delay} \subseteq Nat

(* When the phase has been simulated. *)
Simulated == phase = "weave" /\ ~Runnable /\ state # "HALTED"

(* cSimEnd's panic and assertions: on the clock of today, the last core event      *)
(* simulated did not start before the cycle it was recorded for, nor after the     *)
(* core's own clock.  It may have been recorded phases ago with a smaller gap, so   *)
(* this needs every weave latency to be at least the recorded one: a record that   *)
(* held the estimate would break it.                                              *)
NoNegativeSkew == Simulated => Cycle1 <= Cycle2 /\ Cycle2 <= curCycle

(* The assertions of notifyJoin, recordAccess and reportEventSimulated; the last:  *)
(* the event at the end of a running core's chain is not simulated in its phase,   *)
(* not even by a thread that goes on to the limit itself.                         *)
NoAssertFails == ~failed
=============================================================================
