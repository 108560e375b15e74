--------------------------- MODULE OOOCoreRecorder ---------------------------
(***************************************************************************)
(* The recorder of an out-of-order core: in the bound phase it records a    *)
(* graph of issue, dispatch and response events, the weave phase simulates  *)
(* what starts before the end of the phase, and cSimEnd moves the core's    *)
(* clock by the skew that contention added.  The graph outlives the phase   *)
(* it was recorded in, while the skew changes with every phase: times that  *)
(* have to stay comparable are kept on the zll clock, cycle - gapCycles.    *)
(*                                                                         *)
(* An access goes straight to a weave memory controller.  Its DelayEvents   *)
(* are delays on the edges of the graph, and the memory's own event is part  *)
(* of the edge from dispatch to response.  PUTs and prefetches hang off the  *)
(* graph without a response and are left out.                               *)
(***************************************************************************)
EXTENDS Integers, FiniteSetsExt, TLC

CONSTANTS
    PhaseLength,
    SharedThread,   \* does the weave thread of the core's domain run other domains too?
    Advances,       \* cycles the core may run between two accesses
    Dispatches,     \* cycles between issue and dispatch
    Estimates,      \* bound-phase latencies of the memory controller
    Latencies,      \* weave-phase latencies of the memory controller, at least 1
    MaxAccesses, MaxJoins, MaxPhases \* bounds

VARIABLES
    phase,          \* "bound" or "weave"
    globPhase,      \* globPhaseCycles
    curCycle,       \* the core's clock
    state,          \* HALTED, RUNNING or DRAINING
    gap,            \* gapCycles
    waits,          \* is the core held in the barrier loop for another phase?
    ev,             \* events recorded and not simulated, by id
    curId,
    last,           \* lastEvProduced, 0 for none
    future,         \* futureResponses: zll cycle, id, and whether ev is still set
    sim,            \* lastEvSimulatedZllStartCycle, lastEvSimulatedStartCycle
    lastUnhalted, accesses, joins,
    failed          \* an assertion has stopped the simulator

vars == <<phase, globPhase, curCycle, state, gap, waits, ev, curId, last, future, sim,
          lastUnhalted, accesses, joins, failed>>

PhaseEnd == globPhase + PhaseLength
Zll(c) == c - gap

Init ==
    /\ phase = "bound" /\ globPhase = 0 /\ curCycle = 0
    /\ state = "HALTED" /\ gap = 0 /\ waits = FALSE
    /\ ev = <<>> /\ curId = 1 /\ last = 0 /\ future = {}
    /\ sim = [zll |-> 0, start |-> 0]
    /\ lastUnhalted = 0 /\ accesses = 0 /\ joins = 0 /\ failed = FALSE

(* An event starts preDelay after the last of its parents, and not before min. *)
Event(kind, zll, min, pre, parents) ==
    [kind |-> kind, zll |-> zll, min |-> min, pre |-> pre, cycle |-> 0, parents |-> parents]
Edge(id, delay) == [id |-> id, delay |-> delay]
-----------------------------------------------------------------------------
(* addIssueEvent: the event follows the responses that come before it, and the *)
(* previous issue event by at least the time between them without contention.  *)
Due(z) == {fr \in future : fr.zll < z}
Linked(z) == {fr \in Due(z) : fr.live}
PreDelay(z) == IF Linked(z) = {} THEN 0 ELSE z - Max({fr.zll : fr \in Linked(z)})

NoIssueDelay(z) == 0
IssueDelay(z) == z - ev[last].zll - PreDelay(z)

Issue(c) ==
    LET z == Zll(c)
    IN Event("issue", z, c, PreDelay(z),
             {Edge(last, IssueDelay(z))} \cup {Edge(fr.id, 0) : fr \in Linked(z)})

IssueAsserts(c) ==
    last # 0 /\ Zll(c) >= ev[last].zll /\ \A fr \in Linked(Zll(c)) : fr.zll >= ev[last].zll

addIssueEvent(c) ==
    IF ~IssueAsserts(c) THEN failed' = TRUE /\ UNCHANGED <<ev, curId, last, future>>
    ELSE /\ ev' = (curId :> Issue(c)) @@ ev
         /\ last' = curId /\ curId' = curId + 1
         /\ future' = future \ Due(Zll(c))
         /\ UNCHANGED failed
-----------------------------------------------------------------------------
(* OOOCore::join.  The core's clock is never moved back. *)
Join ==
    /\ ~failed /\ phase = "bound" /\ state # "RUNNING" /\ joins < MaxJoins
    /\ joins' = joins + 1
    /\ state' = "RUNNING" /\ waits' = FALSE
    /\ IF state = "HALTED"
       THEN /\ failed' = (last # 0 \/ lastUnhalted > globPhase)
            /\ gap' = 0
            /\ ev' = (curId :> Event("issue", globPhase, globPhase, 0, {})) @@ ev
            /\ last' = curId /\ curId' = curId + 1
            /\ curCycle' = Max({curCycle, globPhase})
            /\ UNCHANGED future
       ELSE IF curCycle < globPhase
       THEN failed' = TRUE /\ UNCHANGED <<curCycle, gap, ev, last, curId, future>>
       ELSE addIssueEvent(curCycle) /\ UNCHANGED <<curCycle, gap>>
    /\ UNCHANGED <<phase, globPhase, sim, lastUnhalted, accesses>>

Leave ==
    /\ ~failed /\ phase = "bound" /\ state = "RUNNING"
    /\ state' = "DRAINING" /\ waits' = FALSE
    /\ addIssueEvent(curCycle)
    /\ UNCHANGED <<phase, globPhase, curCycle, gap, sim, lastUnhalted, accesses, joins>>

(* The memory controller's record says that the response came a cycle after the *)
(* request: the estimate is charged to the core, and added after the record.    *)
Recorded(est) == 1

(* A load or store of the core: record() with the cycles of its issue, dispatch *)
(* and response.  The phase end is tested only at the end of a basic block: until *)
(* then the core's accesses go on past it.                                       *)
Access(adv, disp, est) ==
    /\ ~failed /\ phase = "bound" /\ state = "RUNNING"
    /\ ~waits /\ accesses < MaxAccesses
    /\ accesses' = accesses + 1
    /\ curCycle' = curCycle + adv
    /\ LET c == curCycle + adv
           d == c + disp
           resp == d + 1 + est
           left == future \ Due(Zll(c))
           edges == {Edge(curId, disp)}
                        \cup {Edge(fr.id, Zll(d) - fr.zll) : fr \in {f \in left : f.zll < Zll(d) /\ f.live}}
       IN IF ~IssueAsserts(c)
          THEN failed' = TRUE /\ UNCHANGED <<ev, curId, last, future>>
          ELSE /\ ev' = (curId :> Issue(c))
                        @@ (curId + 1 :> Event("dispatch", Zll(d), d, 0, edges))
                        @@ (curId + 2 :> Event("resp", Zll(resp), resp, 0,
                                               {Edge(curId + 1, 1 + est - Recorded(est))}))
                        @@ ev
               /\ last' = curId /\ curId' = curId + 3
               /\ future' = left \cup {[zll |-> Zll(resp), id |-> curId + 2, live |-> TRUE]}
               /\ UNCHANGED failed
    /\ UNCHANGED <<phase, globPhase, state, gap, waits, sim, lastUnhalted, joins>>

(* Without another access, the core runs past the end of the phase. *)
Run(adv) ==
    /\ ~failed /\ phase = "bound" /\ state = "RUNNING"
    /\ curCycle <= PhaseEnd /\ adv > 0
    /\ curCycle' = PhaseEnd + adv
    /\ UNCHANGED <<phase, globPhase, state, gap, waits, ev, curId, last, future, sim,
                   lastUnhalted, accesses, joins, failed>>
-----------------------------------------------------------------------------
(* cSimStart.  A running core is past the end of the phase; its graph gets an   *)
(* event there, for the next phase to continue from.  A draining core gets none.*)
DrainedResponses == {}
Taper == PhaseEnd

StartWeave ==
    /\ ~failed /\ phase = "bound" /\ globPhase < MaxPhases * PhaseLength
    /\ state = "RUNNING" => curCycle > PhaseEnd
    /\ phase' = "weave"
    /\ curCycle' = IF state = "DRAINING" THEN Max({curCycle, PhaseEnd}) ELSE curCycle
    /\ IF state = "RUNNING" /\ ev[last].zll > Zll(curCycle)
       THEN failed' = TRUE /\ UNCHANGED <<ev, curId, last, future>>
       ELSE IF state = "RUNNING" /\ ev[last].zll < Zll(PhaseEnd)
       THEN addIssueEvent(Taper)
       ELSE /\ future' = IF state = "DRAINING" THEN DrainedResponses ELSE future
            /\ UNCHANGED <<ev, curId, last, failed>>
    /\ UNCHANGED <<globPhase, state, gap, waits, sim, lastUnhalted, accesses, joins>>

(* A thread with one domain stops at the limit, one with several after it. *)
InPhase(c) == IF SharedThread THEN c <= PhaseEnd ELSE c < PhaseEnd

Start(i) == Max({ev[i].min, ev[i].cycle + ev[i].pre})
Runnable == {i \in DOMAIN ev : ev[i].parents = {} /\ InPhase(Start(i))}

(* The events that wait for i have seen it finish at cycle s; a dispatched access *)
(* spends lat cycles in the memory controller.                                   *)
AfterParent(e, i, s, lat) ==
    LET edges == {p \in e.parents : p.id = i}
    IN IF edges = {} THEN e
       ELSE [e EXCEPT !.parents = @ \ edges,
                      !.cycle = Max({@} \cup {s + p.delay + lat : p \in edges})]

Simulate(i, lat) ==
    /\ ~failed /\ phase = "weave" /\ i \in Runnable
    /\ \A j \in Runnable : Start(i) <= Start(j)
    /\ ev[i].kind # "dispatch" => lat = Min(Latencies)
    /\ LET d == IF ev[i].kind = "dispatch" THEN lat ELSE 0
       IN ev' = [j \in DOMAIN ev \ {i} |-> AfterParent(ev[j], i, Start(i), d)]
    /\ IF ev[i].kind = "issue"
       THEN /\ sim' = [zll |-> ev[i].zll, start |-> Start(i)]
            /\ last' = IF last = i THEN 0 ELSE last
       ELSE UNCHANGED <<sim, last>>
    /\ UNCHANGED <<phase, globPhase, curCycle, state, gap, waits, curId, future,
                   lastUnhalted, accesses, joins, failed>>

(* cSimEnd: the panic on Cycle1 > Cycle2 is the property NoNegativeSkew. *)
Cycle1 == sim.zll + gap
Cycle2 == sim.start
Skew == IF state = "HALTED" THEN 0 ELSE Cycle2 - Cycle1

KeepsPointers(fr) == fr.live
StillLive(fr) == fr.live /\ fr.id \in DOMAIN ev

(* The loop around the barrier: a core beyond the end of the next phase too does *)
(* not get out of it.                                                            *)
StaysInBarrier(cycle) == state = "RUNNING" /\ cycle > PhaseEnd + PhaseLength

EndWeave ==
    /\ ~failed /\ phase = "weave" /\ Runnable = {}
    /\ phase' = "bound" /\ globPhase' = PhaseEnd
    /\ curCycle' = curCycle + Skew
    /\ waits' = StaysInBarrier(curCycle')
    /\ gap' = gap + Skew
    /\ IF state = "HALTED" THEN UNCHANGED <<state, future, lastUnhalted, failed>>
       ELSE /\ future' = {[fr EXCEPT !.live = StillLive(fr)] : fr \in future}
            /\ state' = IF last = 0 THEN "HALTED" ELSE state
            /\ lastUnhalted' = IF last = 0 THEN sim.start ELSE lastUnhalted
            /\ failed' = (last = 0 /\ (state # "DRAINING" \/ future # {}))
    /\ UNCHANGED <<ev, curId, last, sim, accesses, joins>>

Next ==
    \/ Join \/ Leave
    \/ \E adv \in Advances, disp \in Dispatches, est \in Estimates : Access(adv, disp, est)
    \/ \E adv \in Advances : Run(adv)
    \/ StartWeave
    \/ \E i \in DOMAIN ev, lat \in Latencies : Simulate(i, lat)
    \/ EndWeave

Spec == Init /\ [][Next]_vars
-----------------------------------------------------------------------------
(* The recorder's states and clocks, and the delays on the edges of the    *)
(* recorded graph, are never below zero: none of their subtractions wraps. *)
TypeOK ==
    /\ state \in {"HALTED", "RUNNING", "DRAINING"} /\ phase \in {"bound", "weave"}
    /\ {curCycle, globPhase, gap, lastUnhalted, sim.zll, sim.start} \subseteq Nat
    /\ \A i \in DOMAIN ev : ev[i].kind \in {"issue", "dispatch", "resp"}
                            /\ {ev[i].zll, ev[i].pre} \subseteq Nat
                            /\ \A p \in ev[i].parents : p.delay \in Nat

(* When the phase has been simulated. *)
Simulated == phase = "weave" /\ Runnable = {} /\ state # "HALTED"

(* cSimEnd's panic and assertions: on the clock of today, the last issue event    *)
(* simulated did not start before the cycle it was recorded for, nor after the    *)
(* core's own clock, though it may be phases old and the gap has grown since.     *)
NoNegativeSkew == Simulated => Cycle1 <= Cycle2 /\ Cycle2 <= curCycle

(* The assertions of addIssueEvent, notifyJoin and of a core that halts. *)
NoAssertFails == ~failed

(* The graph of a running core always has an event to continue from: the one at   *)
(* the end of the phase is not simulated in it.                                  *)
RunningIsTapered == state = "RUNNING" => last # 0

(* A response event the recorder still points to has not been simulated (and      *)
(* freed) when the bound phase adds children to it.                              *)
ResponsesFresh == phase = "bound" => \A fr \in future : fr.live => fr.id \in DOMAIN ev
=============================================================================
