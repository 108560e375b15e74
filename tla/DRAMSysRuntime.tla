--------------------------- MODULE DRAMSysRuntime ---------------------------
(***************************************************************************)
(* dramsys_runtime.cpp: the cycle barrier that lets several DRAMSysMemory   *)
(* controllers share one SystemC backend.  Each controller reports every    *)
(* CPU cycle with onControllerTick; the last to arrive moves the shared     *)
(* clocks and, when a DRAM cycle is due, becomes the leader that advances   *)
(* the backend and calls finishDramTick.                                    *)
(*                                                                         *)
(* The controllers are driven by the weave threads.  The ticks of one       *)
(* domain run in cycle order, and a thread runs the events of its domains   *)
(* one at a time.  Nothing but this barrier orders the ticks of different   *)
(* domains: the threads run freely, and a thread puts a domain that stalls  *)
(* on a crossing aside and goes on with its others.                         *)
(*                                                                         *)
(* What DRAMSysMemory::tick does before it calls the runtime                *)
(* (pushInFlights, drainCompletions, its own curCycle_) concerns only that  *)
(* controller's queues, which the runtime never sees, and is left out.      *)
(***************************************************************************)
EXTENDS DramClock, FiniteSets

CONSTANTS
    Ctrls,          \* controller ids
    Domains,        \* weave domains
    Domain,         \* the domain of each controller
    Threads,        \* weave threads
    Thread,         \* the thread that simulates each domain
    NoCtrl,         \* kInvalidCtrlId
    MaxCycle        \* bound: CPU cycles simulated

ASSUME RuntimeAssumption ==
    /\ Ctrls # {} /\ IsFiniteSet(Ctrls)
    /\ NoCtrl \notin Ctrls
    /\ Domain \in [Ctrls -> Domains]
    /\ Thread \in [Domains -> Threads]
    /\ MaxCycle \in Nat

VARIABLES
    clk,            \* currentCpuCycle_, currentDramCycle_, cpuPs_, dramPs_
    cpuEpoch,
    cpuReadyEpoch,
    cpuReadyCount,
    dramTickPending,
    dramTickLeader,
    pc,             \* where each controller is in DRAMSysMemory::tick
    cycle,          \* cycle of each controller's next or current TickEvent
    backendCycles,  \* times the SystemC kernel was advanced by tCK
    rejected        \* panic: a call for a future cycle

vars == <<clk, cpuEpoch, cpuReadyEpoch, cpuReadyCount, dramTickPending,
          dramTickLeader, pc, cycle, backendCycles, rejected>>

runtimeVars == <<clk, cpuEpoch, cpuReadyEpoch, cpuReadyCount, dramTickPending,
                 dramTickLeader>>

(* DRAMSysRuntime::reset, as called by the first controller registered. *)
Init ==
    /\ clk = ClockInit
    /\ cpuEpoch = 1
    /\ cpuReadyEpoch = [k \in Ctrls |-> 0]
    /\ cpuReadyCount = 0
    /\ dramTickPending = FALSE
    /\ dramTickLeader = NoCtrl
    /\ pc = [k \in Ctrls |-> "idle"]
    /\ cycle = [k \in Ctrls |-> 0]
    /\ backendCycles = 0
    /\ rejected = FALSE

(* The thread of k takes k's TickEvent off its domain's queue: it is not     *)
(* inside another controller's tick, and the domain has no earlier one left. *)
StartTick(k) ==
    /\ ~rejected
    /\ pc[k] = "idle"
    /\ cycle[k] < MaxCycle
    /\ \A j \in Ctrls :
          /\ Thread[Domain[j]] = Thread[Domain[k]] => pc[j] = "idle"
          /\ Domain[j] = Domain[k] => cycle[k] <= cycle[j]
    /\ pc' = [pc EXCEPT ![k] = "called"]
    /\ UNCHANGED <<runtimeVars, cycle, backendCycles, rejected>>

(* DRAMSysMemory::tick returns 1: the TickEvent is requeued a cycle later. *)
Return(k) ==
    /\ pc' = [pc EXCEPT ![k] = "idle"]
    /\ cycle' = [cycle EXCEPT ![k] = @ + 1]

(* The last controller to arrive moves the shared time under stateLock_.    *)
(* The DRAM side of the clock follows in finishDramTick.                    *)
ClocksMet(c) ==
    LET met == c.cpuPs = c.dramPs
    IN  [curCycle |-> c.curCycle, dramCycle |-> c.dramCycle,
         cpuPs    |-> IF met THEN 0 ELSE c.cpuPs,
         dramPs   |-> IF met THEN 0 ELSE c.dramPs]

CpuCycleDone ==
    [curCycle |-> clk.curCycle + 1,     dramCycle |-> clk.dramCycle,
     cpuPs    |-> clk.cpuPs + CpuPsPerClk, dramPs |-> clk.dramPs]

(* The arrival being counted completes the barrier. *)
MutLastArrivalEarly == cpuReadyCount + 2 >= Cardinality(Ctrls)
LastArrival == cpuReadyCount + 1 = Cardinality(Ctrls)

EveryoneReady(k) ==
    /\ IF DramTickDue(clk)
       THEN /\ clk' = CpuCycleDone
            /\ dramTickPending' = TRUE
            /\ dramTickLeader' = k
            /\ pc' = [pc EXCEPT ![k] = "leader"]
            /\ UNCHANGED cycle
       ELSE /\ clk' = ClocksMet(CpuCycleDone)
            /\ Return(k)
            /\ UNCHANGED <<dramTickPending, dramTickLeader>>
    /\ cpuEpoch' = cpuEpoch + 1
    /\ cpuReadyCount' = 0

(* k spins while a leader is still committing the previous DRAM tick. *)
MustWait(k) == cycle[k] = clk.curCycle /\ dramTickPending

(* The same controller has already reported this cycle. *)
AlreadyReady(k) == cpuReadyEpoch[k] = cpuEpoch

(* The critical section of DRAMSysRuntime::onControllerTick(k, cycle[k]).   *)
onControllerTick(k) ==
    /\ ~rejected
    /\ pc[k] = "called"
    /\ ~MustWait(k)
    /\ IF cycle[k] > clk.curCycle
       THEN /\ rejected' = TRUE
            /\ UNCHANGED <<runtimeVars, pc, cycle>>
       ELSE /\ UNCHANGED rejected
            /\ IF cycle[k] < clk.curCycle \/ AlreadyReady(k)
               THEN Return(k) /\ UNCHANGED runtimeVars
               ELSE /\ cpuReadyEpoch' = [cpuReadyEpoch EXCEPT ![k] = cpuEpoch]
                    /\ IF LastArrival
                       THEN EveryoneReady(k)
                       ELSE /\ cpuReadyCount' = cpuReadyCount + 1
                            /\ Return(k)
                            /\ UNCHANGED <<clk, cpuEpoch, dramTickPending,
                                           dramTickLeader>>
    /\ UNCHANGED backendCycles

(* DRAMSysMemory::advanceSystemOneCycle, by the leader, outside stateLock_. *)
advanceSystemOneCycle(k) ==
    /\ pc[k] = "leader"
    /\ backendCycles' = backendCycles + 1
    /\ pc' = [pc EXCEPT ![k] = "advanced"]
    /\ UNCHANGED <<runtimeVars, cycle, rejected>>

(* DRAMSysRuntime::finishDramTick. *)
MutDramCycleDone == ClocksMet([clk EXCEPT !.dramPs = @ + DramPsPerClk])
DramCycleDone ==
    ClocksMet([curCycle |-> clk.curCycle, dramCycle |-> clk.dramCycle + 1,
               cpuPs    |-> clk.cpuPs,       dramPs |-> clk.dramPs + DramPsPerClk])

MutLeaderDone == UNCHANGED <<dramTickPending, dramTickLeader>>
LeaderDone == dramTickPending' = FALSE /\ dramTickLeader' = NoCtrl

finishDramTick(k) ==
    /\ pc[k] = "advanced"
    /\ dramTickPending
    /\ dramTickLeader = k
    /\ clk' = DramCycleDone
    /\ LeaderDone
    /\ Return(k)
    /\ UNCHANGED <<cpuEpoch, cpuReadyEpoch, cpuReadyCount, backendCycles,
                   rejected>>

Step(k) == \/ StartTick(k)
           \/ onControllerTick(k)
           \/ advanceSystemOneCycle(k)
           \/ finishDramTick(k)

Next == \E k \in Ctrls : Step(k)

Spec == Init /\ [][Next]_vars

(* A weave thread never stops inside a tick and always takes its next event. *)
FairSpec == Spec /\ \A k \in Ctrls : WF_vars(Step(k))

-----------------------------------------------------------------------------
(* The shared clocks and epochs are naturals and the leader is a controller *)
(* or nobody.                                                               *)
TypeOK ==
    /\ clk \in Clocks
    /\ cpuEpoch \in Nat
    /\ cpuReadyEpoch \in [Ctrls -> Nat]
    /\ cpuReadyCount \in Nat
    /\ dramTickPending \in BOOLEAN
    /\ dramTickLeader \in Ctrls \cup {NoCtrl}
    /\ pc \in [Ctrls -> {"idle", "called", "leader", "advanced"}]
    /\ cycle \in [Ctrls -> Nat]
    /\ backendCycles \in Nat
    /\ rejected \in BOOLEAN

Leading == {k \in Ctrls : pc[k] \in {"leader", "advanced"}}

(* There is a leader exactly while a DRAM tick is pending, it is the one the  *)
(* runtime has recorded, and there is never a second: finishDramTick's panics *)
(* are unreachable and no other controller advances the backend.             *)
OneLeader == Leading = IF dramTickPending THEN {dramTickLeader} ELSE {}

(* The backend clock advances exactly once per DRAM cycle: what the runtime  *)
(* counts and what SystemC was told differ only inside the leader's tick.    *)
BackendOncePerDramCycle ==
    backendCycles = clk.dramCycle
                      + (IF \E k \in Ctrls : pc[k] = "advanced" THEN 1 ELSE 0)

(* The shared clocks stay in step although the CPU side is moved by the last *)
(* arrival and the DRAM side later, by finishDramTick: with the pending DRAM *)
(* cycle counted, the DRAM is ahead by less than a cycle of its own.         *)
SharedClocksInStep ==
    LET pending == IF dramTickPending THEN DramPsPerClk ELSE 0
        lead    == DramLead(clk) + pending
    IN  /\ 0 <= lead /\ lead < DramPsPerClk
        /\ lead = clk.dramPs + pending - clk.cpuPs

(* Reports made by k: one for every tick it has got through the barrier of. *)
Reports(k) == IF pc[k] \in {"leader", "advanced"} THEN cycle[k] + 1 ELSE cycle[k]

(* Nobody misses a cycle: shared time never passes a cycle that some         *)
(* controller has not reported, no controller is two reports ahead of it, and *)
(* the barrier's counter is the number of those that are one ahead.          *)
NobodyLeftBehind ==
    /\ \A k \in Ctrls : Reports(k) \in {clk.curCycle, clk.curCycle + 1}
    /\ \A k \in Ctrls : (cpuReadyEpoch[k] = cpuEpoch) <=> (Reports(k) = clk.curCycle + 1)
    /\ cpuReadyCount = Cardinality({k \in Ctrls : cpuReadyEpoch[k] = cpuEpoch})

(* Nobody spins forever behind a leader, nor stays inside a tick for any     *)
(* other reason, unless a panic has ended the simulation.                    *)
TickReturns == \A k \in Ctrls : pc[k] # "idle" ~> (pc[k] = "idle" \/ rejected)
=============================================================================
