--------------------------- MODULE WeaveController ---------------------------
(***************************************************************************)
(* What the Ramulator2, DRAMsim3 and DRAMSys memory controllers have in     *)
(* common: access() in the bound phase, the weave phase that starts the     *)
(* recorded events and ticks the controller, and the list of requests the   *)
(* DRAM model refused.  The three controllers differ in how a completion    *)
(* finds its event; each has a module that extends this one.                *)
(*                                                                         *)
(* The controller's TickEvent runs in every cycle of its domain from cycle  *)
(* 0 on, so curCycle is also the cycle of its next tick.                    *)
(***************************************************************************)
EXTENDS DramClock, FiniteSets, SequencesExt

CONSTANTS
    Events,         \* access events, 1..n in the order they are allocated
    Cores,
    Addrs,          \* line addresses, ordered as the keys of a multimap
    InitialLatency, \* what an estimator says before its first sample
    MaxTries,       \* sends attempted per tick by pushInFlights (8 in the code)
    PhaseLength,
    AccessPhases,   \* bound: phases in which cores still issue accesses
    MaxPhases       \* bound: phases simulated

ASSUME WeaveAssumption ==
    /\ Events \subseteq Nat \ {0} /\ IsFiniteSet(Events)
    /\ Addrs \subseteq Nat
    /\ {InitialLatency, MaxTries, PhaseLength, AccessPhases, MaxPhases} \subseteq Nat \ {0}

VARIABLES
    clk,            \* curCycle, dramCycle, cpuPs, dramPs
    phase,          \* "bound": cores run; "weave": the domain's events run
    phaseNum,
    isBoundPhase,   \* an access has been seen since the last enqueue
    st,             \* state of each access event
    acc,            \* what the event carries
    notQueued,      \* notQueuedRequests
    est             \* per core, a MaxStrategy estimator

weaveVars == <<clk, phase, phaseNum, isBoundPhase, st, acc, notQueued, est>>

limit == phaseNum * PhaseLength
NoAcc == [core |-> 0, addr |-> 0, isWrite |-> FALSE,
          sCycle |-> 0, issueCycle |-> 0, boundLatency |-> 0]

WeaveTypeOK ==
    /\ clk \in Clocks
    /\ phase \in {"bound", "weave"} /\ phaseNum \in 0..MaxPhases
    /\ isBoundPhase \in BOOLEAN
    /\ st \in [Events -> {"FREE", "QUEUED", "HELD", "DONE"}]
    /\ acc \in [Events -> [core : Cores \cup {0}, addr : Addrs \cup {0}, isWrite : BOOLEAN,
                           sCycle : Nat, issueCycle : Nat, boundLatency : Nat]]
    /\ notQueued \in Seq(Events)
    /\ est \in [Cores -> [max_prev_weave_lat : Nat, max_lat : Nat]]

WeaveInit ==
    /\ clk = ClockInit
    /\ phase = "bound" /\ phaseNum = 0
    /\ isBoundPhase = FALSE
    /\ st = [e \in Events |-> "FREE"]
    /\ acc = [e \in Events |-> NoAcc]
    /\ notQueued = << >>
    /\ est = [c \in Cores |-> [max_prev_weave_lat |-> 0, max_lat |-> 0]]

(* MaxStrategy of bound_mem_latency.h *)
EstReset(x) == [max_prev_weave_lat |-> x.max_lat, max_lat |-> 0]
EstLatency(x) == IF x.max_prev_weave_lat = 0 THEN InitialLatency ELSE x.max_prev_weave_lat
EstUpdate(x, lat) == IF x.max_lat < lat THEN [x EXCEPT !.max_lat = lat] ELSE x

(* setMinStartCycle(req.cycle - 1) *)
StartCycle(cycle) == cycle - 1

(* access(): the first one after a weave phase that enqueued something      *)
(* resets every core's estimator; a PUTS is discarded, any other request    *)
(* records an event that the weave phase starts at cycle - 1.               *)
RecordAccess(c, a, type, cycle) ==
    LET new == IF isBoundPhase THEN est ELSE [k \in Cores |-> EstReset(est[k])]
    IN /\ phase = "bound" /\ phaseNum < AccessPhases
       /\ est' = new
       /\ isBoundPhase' = TRUE
       /\ \/ type = "PUTS" /\ UNCHANGED <<st, acc>>
          \/ \E e \in Events :
                /\ type # "PUTS"
                /\ st[e] = "FREE" /\ \A f \in Events : f < e => st[f] # "FREE"
                /\ st' = [st EXCEPT ![e] = "QUEUED"]
                /\ acc' = [acc EXCEPT ![e] =
                      [core |-> c, addr |-> a, isWrite |-> type = "PUTX", sCycle |-> StartCycle(cycle),
                       issueCycle |-> 0, boundLatency |-> EstLatency(new[c])]]
       /\ UNCHANGED <<clk, phase, phaseNum, notQueued>>

(* The bound phase's barrier, and the end of the weave phase it starts.     *)
StartWeave ==
    /\ phase = "bound" /\ phaseNum < MaxPhases
    /\ phase' = "weave" /\ phaseNum' = phaseNum + 1
    /\ UNCHANGED <<clk, isBoundPhase, st, acc, notQueued, est>>

EndWeave ==
    /\ phase = "weave"
    /\ clk.curCycle >= limit
    /\ \A e \in Events : st[e] = "QUEUED" => acc[e].sCycle >= limit
    /\ phase' = "bound"
    /\ UNCHANGED <<clk, phaseNum, isBoundPhase, st, acc, notQueued, est>>

(* The domain runs events in cycle order: event e may start, or the tick of *)
(* cycle curCycle may run, before or after the others of the same cycle.    *)
MayStart(e) ==
    /\ phase = "weave" /\ st[e] = "QUEUED"
    /\ acc[e].sCycle < limit /\ acc[e].sCycle <= clk.curCycle
    /\ \A f \in Events : st[f] = "QUEUED" => acc[e].sCycle <= acc[f].sCycle
MayTick ==
    /\ phase = "weave" /\ clk.curCycle < limit
    /\ \A e \in Events : st[e] = "QUEUED" => acc[e].sCycle >= clk.curCycle

Parked == ToSet(notQueued)
Without(s, S) == SelectSeq(s, LAMBDA e : e \notin S)
Issued(S) == [e \in Events |-> IF e \in S THEN [acc[e] EXCEPT !.issueCycle = clk.curCycle] ELSE acc[e]]
(* The started events, at the head of the list or behind others that have   *)
(* not started, that one pushInFlights offers to the DRAM model.            *)
FirstStarted ==
    LET started == SelectSeq(notQueued, LAMBDA e : acc[e].sCycle <= clk.curCycle)
    IN {started[i] : i \in 1..Len(started) \cap 1..MaxTries}

(* lat = curCycle + 1 - sCycle for an event completed in cycle now, and the *)
(* estimators after the reads among done are completed.                     *)
Lat(e, now) == now + 1 - acc[e].sCycle
EstAfter(done, now) ==
    [c \in Cores |->
       LET lats == {Lat(e, now) : e \in {f \in done : acc[f].core = c /\ ~acc[f].isWrite}}
       IN IF lats = {} THEN est[c] ELSE EstUpdate(est[c], Max(lats))]

(* A completed event's record is freed. *)
Freed(r, done) == [e \in Events |-> IF e \in done THEN NoAcc ELSE r[e]]
Complete(done) == [e \in Events |-> IF e \in done THEN "DONE" ELSE st[e]]
=============================================================================
