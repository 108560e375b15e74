-------------------------- MODULE RamulatorMemCtrl --------------------------
(***************************************************************************)
(* One memory controller of the multi-channel memory interface, in its     *)
(* Ramulator form (ramulator_mem_ctrl.cpp), between the cores' bound phase  *)
(* and the cycle-accurate DRAM model that the weave phase ticks.            *)
(*                                                                         *)
(* Bound phase: cores call access(), which estimates a latency and records  *)
(* a timing event.  Weave phase: the event starts (enqueue), is sent to the *)
(* DRAM model or parked in notQueuedRequests, is held, and is completed by  *)
(* the callback the model makes from inside tick().                         *)
(***************************************************************************)
EXTENDS DramClock, FiniteSets

CONSTANTS
    Events,         \* access events, 1..n in the order they are allocated
    Cores,          \* source ids
    Addrs,          \* line addresses; ordered, as the keys of the multimap
    InitialLatency, \* sys.mem.latency, what an estimator says at first
    QueueMax,       \* depth of the DRAM model's queues
    MaxTries,       \* sends attempted per tick by pushInFlights (8 in the code)
    PhaseLength,    \* cycles per bound-weave phase
    AccessPhases,   \* bound: phases in which cores still issue accesses
    MaxPhases,      \* bound: phases simulated (sim.maxPhases)
    MaxSkew,        \* bound: how late an event's parents may start it
    MaxStall        \* bound: DRAM cycles in a row without a completion

ASSUME CtrlAssumption ==
    /\ Events \subseteq Nat \ {0}
    /\ IsFiniteSet(Events)
    /\ Cores # {}
    /\ Addrs # {} /\ Addrs \subseteq Nat
    /\ InitialLatency \in Nat
    /\ QueueMax \in Nat \ {0}
    /\ MaxTries \in Nat \ {0}
    /\ PhaseLength \in Nat \ {0}
    /\ AccessPhases \in Nat
    /\ MaxPhases \in Nat
    /\ MaxSkew \in Nat
    /\ MaxStall \in Nat

VARIABLES
    tickCycle,      \* cycle at which the domain runs the next TickEvent
    clk,            \* curCycle, dramCycle, cpuPs, dramPs
    phase,          \* "bound": cores run; "weave": the domain's events run
    phaseNum,       \* phases started
    isBoundPhase,   \* an access has been seen since the last enqueue
    st,             \* TimingEvent state of each access event
    acc,            \* what the event carries
    notQueued,      \* notQueuedRequests, a vector ordered by acc.order
    inflight,       \* values of inflightRequests, a multimap keyed by address
    backend,        \* requests the DRAM model has accepted and not called back
    stall,          \* DRAM cycles since the model last completed a request
    est             \* per core, the MaxStrategy estimator

vars == <<tickCycle, clk, phase, phaseNum, isBoundPhase, st, acc, notQueued, inflight,
          backend, stall, est>>

EventStates == {"FREE", "QUEUED", "HELD", "DONE"}
AccRecords == [core : Cores, addr : Addrs, isWrite : BOOLEAN, sCycle : Nat,
               order : Nat, issueCycle : Nat, boundLatency : Nat,
               phaseNum : Nat]

(* An event that is not allocated yet, or freed after done(). *)
NoAcc == [core |-> CHOOSE c \in Cores : TRUE, addr |-> CHOOSE a \in Addrs : TRUE,
          isWrite |-> FALSE, sCycle |-> 0, order |-> 0, issueCycle |-> 0,
          boundLatency |-> 0, phaseNum |-> 0]

(* A ramulator::Request is a copy of what the callback will search with; id *)
(* only tells apart the equal requests of two events.                       *)
Requests == [id : Events, addr : Addrs, core : Cores, isWrite : BOOLEAN]

EstStates == [max_prev_weave_lat : Nat, max_lat : Nat]

limit == phaseNum * PhaseLength

-----------------------------------------------------------------------------
(* MaxStrategy, the estimator with the most state *)

EstReset(x) == [max_prev_weave_lat |-> x.max_lat, max_lat |-> 0]

EstLatency(x) == IF x.max_prev_weave_lat = 0 THEN InitialLatency
                                             ELSE x.max_prev_weave_lat

EstUpdate(x, lat) == IF x.max_lat < lat THEN [x EXCEPT !.max_lat = lat] ELSE x

-----------------------------------------------------------------------------
(* The DRAM model.  A channel refuses a request only when its queue for the *)
(* request's type is full; requests that have left the queue but have not   *)
(* been called back may or may not be among the accepted ones, so at        *)
(* QueueMax the model may do either.                                        *)

MayRefuse(S, w) == Cardinality({q \in S : q.isWrite = w}) >= QueueMax

(* The accepted requests S that one tick of the model may complete: each    *)
(* channel calls back when the head of its pending queue departs, so any    *)
(* set of them, and no set at all for at most MaxStall ticks in a row.      *)
Completions(S) ==
    {cb \in SUBSET S : cb = {} => S = {} \/ stall < MaxStall}

-----------------------------------------------------------------------------
Init ==
    /\ tickCycle = 0
    /\ clk = ClockInit
    /\ phase = "bound"
    /\ phaseNum = 0
    /\ isBoundPhase = FALSE
    /\ st = [e \in Events |-> "FREE"]
    /\ acc = [e \in Events |-> NoAcc]
    /\ notQueued = {}
    /\ inflight = {}
    /\ backend = {}
    /\ stall = 0
    /\ est = [c \in Cores |-> [max_prev_weave_lat |-> 0, max_lat |-> 0]]

(* The estimators after the test of isBoundPhase at the top of access(). *)
MutEstAtAccess == [c \in Cores |-> EstReset(est[c])]
EstAtAccess == IF isBoundPhase THEN est ELSE [c \in Cores |-> EstReset(est[c])]

(* Ramulator::access.  The first access of a bound phase that follows an    *)
(* enqueue resets every core's estimator.  PUTS is discarded; any other     *)
(* request records an event that the weave phase starts at cycle - 1 or,    *)
(* when its parents are late, up to MaxSkew cycles after that.              *)
access(c, a, type, cycle) ==
    /\ phase = "bound"
    /\ phaseNum < AccessPhases
    /\ est' = EstAtAccess
    /\ \/ /\ type = "PUTS"
          /\ UNCHANGED <<st, acc>>
       \/ /\ type # "PUTS"
          /\ \E e \in Events, skew \in 0..MaxSkew :
                /\ st[e] = "FREE"
                /\ \A f \in Events : f < e => st[f] # "FREE"
                /\ st' = [st EXCEPT ![e] = "QUEUED"]
                /\ acc' = [acc EXCEPT ![e] =
                     [core |-> c, addr |-> a, isWrite |-> type = "PUTX",
                      sCycle |-> cycle - 1 + skew, order |-> 0, issueCycle |-> 0,
                      boundLatency |-> EstLatency(EstAtAccess[c]),
                      phaseNum |-> phaseNum]]
    /\ isBoundPhase' = TRUE
    /\ UNCHANGED <<tickCycle, clk, phase, phaseNum, notQueued, inflight,
                   backend, stall>>

(* Accesses of a phase carry cycles of that phase. *)
Access == \E c \in Cores, a \in Addrs, type \in {"GETS", "GETX", "PUTS", "PUTX"},
             cycle \in limit + 1 .. limit + PhaseLength : access(c, a, type, cycle)

(* The barrier closes the bound phase and ContentionSim runs the weave. *)
StartWeave ==
    /\ phase = "bound"
    /\ phaseNum < MaxPhases
    /\ phase' = "weave"
    /\ phaseNum' = phaseNum + 1
    /\ UNCHANGED <<tickCycle, clk, isBoundPhase, st, acc, notQueued, inflight,
                   backend, stall, est>>

(* The weave phase ends when the domain has no event below the limit. *)
EndWeave ==
    /\ phase = "weave"
    /\ tickCycle >= limit
    /\ \A e \in Events : st[e] = "QUEUED" => acc[e].sCycle >= limit
    /\ phase' = "bound"
    /\ UNCHANGED <<tickCycle, clk, phaseNum, isBoundPhase, st, acc, notQueued,
                   inflight, backend, stall, est>>

MutGetRequestFromAccEvent(e) ==     \* every request sent as a read
    [id |-> e, addr |-> acc[e].addr, core |-> acc[e].core, isWrite |-> FALSE]
getRequestFromAccEvent(e) ==
    [id |-> e, addr |-> acc[e].addr, core |-> acc[e].core,
     isWrite |-> acc[e].isWrite]

RequestsOf(S) == {getRequestFromAccEvent(e) : e \in S}

(* The cycle stamped on a request the model accepts. *)
IssueCycle == clk.curCycle

(* The order number an event gets when it is enqueued. *)
NextOrder == Cardinality({f \in Events : st[f] \in {"HELD", "DONE"}}) + 1

(* RamulatorAccEvent::simulate and Ramulator::enqueue.  The domain runs      *)
(* events in cycle order: every event and every tick of an earlier cycle     *)
(* comes first, those of the same cycle in any order.                        *)
enqueue(e) ==
    /\ phase = "weave"
    /\ st[e] = "QUEUED"
    /\ acc[e].sCycle < limit
    /\ acc[e].sCycle <= tickCycle
    /\ \A f \in Events : st[f] = "QUEUED" => acc[e].sCycle <= acc[f].sCycle
    /\ isBoundPhase' = FALSE
    /\ \/ /\ MayRefuse(backend, acc[e].isWrite)
          /\ notQueued' = notQueued \cup {e}
          /\ acc' = [acc EXCEPT ![e].order = NextOrder]
          /\ UNCHANGED <<inflight, backend>>
       \/ /\ backend' = backend \cup {getRequestFromAccEvent(e)}
          /\ inflight' = inflight \cup {e}
          /\ acc' = [acc EXCEPT ![e].order = NextOrder,
                                ![e].issueCycle = IssueCycle]
          /\ UNCHANGED notQueued
    /\ st' = [st EXCEPT ![e] = "HELD"]
    /\ UNCHANGED <<tickCycle, clk, phase, phaseNum, stall, est>>

-----------------------------------------------------------------------------
(* The parked events that this tick's pushInFlights offers to the model:    *)
(* the first MaxTries in vector order that have started.                    *)
MutTried ==     \* the try counted before the limit is tested
    {e \in notQueued : Cardinality({f \in notQueued : acc[f].order < acc[e].order})
                         < MaxTries - 1}
Tried ==
    LET eligible == {e \in notQueued : acc[e].sCycle <= clk.curCycle}
    IN  {e \in eligible :
           Cardinality({f \in eligible : acc[f].order < acc[e].order}) < MaxTries}

(* A set of the tried events that the model may accept: a refused one finds *)
(* the queue of its type full.                                              *)
PushInFlights(sent) ==
    /\ sent \subseteq Tried
    /\ \A e \in Tried \ sent : MayRefuse(backend \cup RequestsOf(sent), acc[e].isWrite)

MutStillParked(sent) == notQueued     \* sent without being erased
StillParked(sent) == notQueued \ sent

(* Ramulator::onReadComplete (and onWriteComplete, which calls it): the     *)
(* in-flight event that the callback for request q completes.  The search   *)
(* of the address's range compares core and type; when it finds none the    *)
(* iterator is left at the end of the range, the first event of the next    *)
(* address, because only the end of the whole map is tested for.  With no   *)
(* event there either the code panics: a tick that makes such a callback    *)
(* has no successor here (CallbackFindsItsEvent: there is no such tick).    *)
Matches(q, S) == {e \in S : /\ acc[e].addr = q.addr
                            /\ acc[e].core = q.core
                            /\ acc[e].isWrite = q.isWrite}

NextRange(q, S) ==
    {e \in S : /\ acc[e].addr > q.addr
               /\ \A f \in S : acc[f].addr > q.addr => acc[e].addr <= acc[f].addr}

Completed(q, S) == IF Matches(q, S) # {} THEN Matches(q, S) ELSE NextRange(q, S)

(* The latency a completion reports, with curCycle already advanced. *)
Lat(e, now) == now + 1 - acc[e].sCycle

(* The estimators after the reads among done completed in cycle now. *)
EstAfter(done, now) ==
    [c \in Cores |->
       LET lats == {Lat(e, now) : e \in {f \in done : /\ acc[f].core = c
                                                   /\ ~acc[f].isWrite}}
       IN  IF lats = {} THEN est[c]
           ELSE EstUpdate(est[c], CHOOSE l \in lats : \A m \in lats : m <= l)]

(* The event records after a tick: the events sent get their issueCycle     *)
(* before curCycle advances, the completed ones are freed by done().        *)
AccAfterTick(sent, done) ==
    [e \in Events |-> IF e \in done THEN NoAcc
                      ELSE IF e \in sent
                           THEN [acc[e] EXCEPT !.issueCycle = IssueCycle]
                           ELSE acc[e]]

(* Ramulator::tick, run once per CPU cycle by the TickEvent of the domain:  *)
(* pushInFlights, the clocks and, when the DRAM is due, one tick of the     *)
(* model with the callbacks it makes.  The domain's events of earlier       *)
(* cycles have run.                                                         *)
TickStart(sent) ==
    /\ phase = "weave"
    /\ tickCycle < limit
    /\ \A e \in Events : st[e] = "QUEUED" => acc[e].sCycle >= tickCycle
    /\ PushInFlights(sent)
    /\ notQueued' = StillParked(sent)
    /\ clk' = ClockAdvance(clk)
    /\ tickCycle' = tickCycle + 1
    /\ UNCHANGED <<phase, phaseNum, isBoundPhase>>

(* A CPU cycle in which the DRAM is not due. *)
TickCpuOnly(sent) ==
    /\ TickStart(sent)
    /\ ~DramTickDue(clk)
    /\ inflight' = inflight \cup sent
    /\ backend' = backend \cup RequestsOf(sent)
    /\ acc' = AccAfterTick(sent, {})
    /\ UNCHANGED <<st, est, stall>>

(* A CPU cycle in which the DRAM model completes the requests cb; pick says *)
(* which in-flight event each callback finds, a different one for each.     *)
TickDram(sent, cb, pick) ==
    LET flying == inflight \cup sent
        done   == {pick[q] : q \in cb}
        now    == clk.curCycle + 1
    IN  /\ TickStart(sent)
        /\ DramTickDue(clk)
        /\ \A q \in cb : pick[q] \in Completed(q, flying)
        /\ \A q, r \in cb : q # r => pick[q] # pick[r]
        /\ st' = [e \in Events |-> IF e \in done THEN "DONE" ELSE st[e]]
        /\ est' = EstAfter(done, now)
        /\ acc' = AccAfterTick(sent, done)
        /\ inflight' = flying \ done
        /\ backend' = (backend \cup RequestsOf(sent)) \ cb
        /\ stall' = IF cb = {} /\ backend \cup RequestsOf(sent) # {}
                    THEN stall + 1 ELSE 0

Tick ==
    \E sent \in SUBSET Tried :
       \/ TickCpuOnly(sent)
       \/ \E cb \in Completions(backend \cup RequestsOf(sent)) :
             \E pick \in [cb -> inflight \cup sent] : TickDram(sent, cb, pick)

Next ==
    \/ Access
    \/ StartWeave
    \/ EndWeave
    \/ \E e \in Events : enqueue(e)
    \/ Tick

Spec == Init /\ [][Next]_vars

(* The weave phase is driven to its end by the contention threads, and the  *)
(* scheduler starts one after every bound phase.                            *)
Fairness ==
    /\ WF_vars(StartWeave)
    /\ WF_vars(EndWeave)
    /\ WF_vars(Tick)
    /\ \A e \in Events : WF_vars(enqueue(e))

FairSpec == Spec /\ Fairness

-----------------------------------------------------------------------------
(* The controller's clock, queues and the records of its accesses hold what *)
(* their types say.                                                         *)
TypeOK ==
    /\ tickCycle \in Nat
    /\ clk \in Clocks
    /\ phase \in {"bound", "weave"}
    /\ phaseNum \in Nat
    /\ isBoundPhase \in BOOLEAN
    /\ st \in [Events -> EventStates]
    /\ acc \in [Events -> AccRecords]
    /\ notQueued \in SUBSET Events
    /\ inflight \in SUBSET Events
    /\ backend \in SUBSET Requests
    /\ stall \in Nat
    /\ est \in [Cores -> EstStates]

(* Through every reset of the accumulators, ticks of the DRAM model and of  *)
(* the CPU side stay within one DRAM cycle of each other (Ramulator::tick). *)
ClocksInStep == InStep(clk)

(* A held access is in exactly one place, parked or in flight: pushInFlights *)
(* and the callbacks neither lose an event nor leave one behind to be        *)
(* completed again.                                                          *)
HeldIsSomewhereOnce ==
    /\ notQueued \cup inflight = {e \in Events : st[e] = "HELD"}
    /\ notQueued \cap inflight = {}

(* Equal in all that a callback can tell requests and events apart by. *)
SameKind(q, r) == q.addr = r.addr /\ q.core = r.core /\ q.isWrite = r.isWrite

(* inflightRequests agrees with the DRAM model: for every address, core and  *)
(* type there are as many events in flight as requests the model will call   *)
(* back for.                                                                 *)
InflightMatchesBackend ==
    /\ \A q \in backend :
          Cardinality({e \in inflight : SameKind(q, acc[e])})
             = Cardinality({r \in backend : SameKind(q, r)})
    /\ Cardinality(inflight) = Cardinality(backend)

(* The end of the range is never mistaken for a match and the panic of       *)
(* onReadComplete is never reached: whatever request the model calls back    *)
(* for, its address, core and type find an event.                            *)
CallbackFindsItsEvent ==
    \A q \in backend : \E e \in inflight : SameKind(q, acc[e])

(* The controller's cycle count is the domain's, so that a held access has   *)
(* started, and was issued, in a cycle the controller has reached: lat and   *)
(* service_lat, computed unsigned as curCycle + 1 less sCycle or issueCycle,  *)
(* never wrap, service_lat is at most lat, absErr is never divided by zero    *)
(* and done() never schedules a child in a cycle the domain has passed.       *)
LatencyNeverWraps ==
    /\ clk.curCycle = tickCycle
    /\ \A e \in Events : st[e] = "HELD" => acc[e].sCycle <= clk.curCycle
    /\ \A e \in inflight : /\ acc[e].sCycle <= acc[e].issueCycle
                           /\ acc[e].issueCycle <= clk.curCycle

(* What the callbacks of the DRAM model act on is exact: the controller's     *)
(* state has its types, inflightRequests agrees with the model, and each      *)
(* callback finds its own event.                                              *)
CallbacksExact == TypeOK /\ InflightMatchesBackend /\ CallbackFindsItsEvent

(* All accesses of a core in one bound phase are charged the same latency:   *)
(* the reset happens before the first of them and no sample arrives between. *)
OneEstimatePerPhase ==
    \A e, f \in Events :
        /\ st[e] \in {"QUEUED", "HELD"}
        /\ st[f] \in {"QUEUED", "HELD"}
        /\ acc[e].core = acc[f].core
        /\ acc[e].phaseNum = acc[f].phaseNum
        => acc[e].boundLatency = acc[f].boundLatency

=============================================================================
