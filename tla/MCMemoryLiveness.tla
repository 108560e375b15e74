-------------------------- MODULE MCMemoryLiveness --------------------------
(***************************************************************************)
(* What must happen in the end at the memory side, in five small systems     *)
(* explored in one run: a Ramulator controller, a DRAMSys controller, a DDR  *)
(* controller, a timing cache, and an estimator of the latency that the      *)
(* bound phase charges.                                                      *)
(***************************************************************************)
EXTENDS BoundMemLatency

CONSTANT core

VARIABLES
    system,
    tickCycle, backend,                                     \* Ramulator
    nextReqTag, inProgress, device, completions,            \* DRAMSys
    now, c, nextSchedCycle, refreshes, arrived,             \* DDR
    cycle, queued, pending, active, lastAcc, lastFree, miss, done, used, clash, \* cache
    clk, phase, phaseNum, isBoundPhase, st, acc, notQueued, est, inflight, stall

ramulatorVars == <<tickCycle, backend>>
dramsysVars == <<nextReqTag, inProgress, device, completions>>
ctrlVars == <<clk, phase, phaseNum, isBoundPhase, st, acc, notQueued, est, inflight, stall>>
ddrVars == <<now, c, nextSchedCycle, refreshes, arrived>>
cacheVars == <<cycle, queued, pending, active, lastAcc, lastFree, miss, done, used, clash>>
mcVars == <<vars, system, ramulatorVars, dramsysVars, ctrlVars, ddrVars, cacheVars>>

(* Queues of one, and two accesses, in one phase or in two. *)
Ramulator == INSTANCE RamulatorMemCtrl WITH
    Events <- 1..2, Cores <- {core}, Addrs <- {1}, InitialLatency <- 1, QueueMax <- 1,
    MaxTries <- 1, CpuPsPerClk <- 2, DramPsPerClk <- 3, PhaseLength <- 2,
    AccessPhases <- 2, MaxPhases <- 7, MaxSkew <- 0, MaxStall <- 1

(* One slot, and two accesses. *)
DRAMSys == INSTANCE DRAMSysMemCtrl WITH
    Events <- 1..2, Cores <- {core}, Addrs <- {1}, InitialLatency <- 1,
    MaxTries <- 2, CpuPsPerClk <- 2, DramPsPerClk <- 3, PhaseLength <- 2,
    AccessPhases <- 1, MaxPhases <- 8, MaxStall <- 1

(* One bank, queues of two that overflow, and a refresh. *)
DDR == INSTANCE DDRMemory WITH
    sysFreq <- 7, memFreq <- 3, Banks <- {core}, Rows <- {1, 2}, QueueDepth <- 2,
    RowHitLimit <- 1, ClosedPage <- FALSE, WindowSize <- 2, tBL <- 1, tCL <- 2, tRCD <- 2,
    tRTP <- 1, tRP <- 2, tRRD <- 1, tRAS <- 4, tFAW <- 6, tWTR <- 1, tWR <- 2, tRFC <- 5,
    tREFI <- 20, MaxReqs <- 4, Gaps <- {0}, MaxRefreshes <- 1

(* Three requests for one MSHR. *)
Cache == INSTANCE TimingCache WITH
    now <- cycle, Reqs <- 1..3, NumMSHRs <- 1, AccLat <- 1, Delays <- {0, 2},
    ReplAccs <- {0, 2}, Gaps <- {0, 2}

NoSamples ==
    /\ strategy = "max" /\ sum = 0 /\ count = 0 /\ max = 0 /\ out = 0
    /\ runs = {} /\ last = {} /\ least = Initial /\ most = Initial
NoRamulator == tickCycle = 0 /\ backend = {}
NoDRAMSys == nextReqTag = 1 /\ inProgress = {} /\ device = {} /\ completions = << >>
NoController ==
    /\ clk = 0 /\ phase = "bound" /\ phaseNum = 0 /\ isBoundPhase = FALSE
    /\ st = << >> /\ acc = << >> /\ notQueued = {} /\ est = {} /\ inflight = {} /\ stall = 0

MCInit ==
    /\ DDR!Init /\ Cache!Init
    /\ \/ system = "Ramulator" /\ Ramulator!Init /\ NoDRAMSys /\ NoSamples
       \/ system = "DRAMSys" /\ DRAMSys!Init /\ NoRamulator /\ NoSamples
       \/ system = "estimator" /\ Init /\ NoRamulator /\ NoDRAMSys /\ NoController
       \/ system \in {"DDR", "cache"} /\ NoRamulator /\ NoDRAMSys /\ NoController /\ NoSamples

InRamulator(A) == system = "Ramulator" /\ A
                  /\ UNCHANGED <<dramsysVars, vars, system, ddrVars, cacheVars>>
InDRAMSys(A) == system = "DRAMSys" /\ A
                /\ UNCHANGED <<ramulatorVars, vars, system, ddrVars, cacheVars>>
InEstimator(A) == system = "estimator" /\ A
                  /\ UNCHANGED <<ramulatorVars, dramsysVars, ctrlVars, system, ddrVars, cacheVars>>
InDDR(A) == system = "DDR" /\ A
            /\ UNCHANGED <<ramulatorVars, dramsysVars, ctrlVars, vars, system, cacheVars>>
InCache(A) == system = "cache" /\ A
              /\ UNCHANGED <<ramulatorVars, dramsysVars, ctrlVars, vars, system, ddrVars>>

MCNext == \/ InRamulator(Ramulator!Next)
          \/ InDRAMSys(DRAMSys!Next)
          \/ InEstimator(Next)
          \/ InDDR(DDR!Next)
          \/ InCache(Cache!Next)

(* The fairness of the five specifications, each in its own system. *)
MCSpec ==
    /\ MCInit /\ [][MCNext]_mcVars
    /\ WF_mcVars(InRamulator(Ramulator!StartWeave))
    /\ WF_mcVars(InRamulator(Ramulator!EndWeave))
    /\ WF_mcVars(InRamulator(Ramulator!Tick))
    /\ \A e \in 1..2 : WF_mcVars(InRamulator(Ramulator!enqueue(e)))
    /\ WF_mcVars(InDRAMSys(DRAMSys!Next))
    /\ WF_mcVars(InEstimator(reset))
    /\ WF_mcVars(InDDR(DDR!refresh))
    /\ []<>~DDR!TickDue \/ []<><<InDDR(DDR!tick)>>_mcVars
    /\ WF_mcVars(InCache(Cache!Step))
-----------------------------------------------------------------------------
Held(e) == e \in DOMAIN st /\ st[e] = "HELD"

(* Nothing waits for ever.  An access that a controller has held is completed:   *)
(* by Ramulator, however often a full queue sends it back to notQueuedRequests; *)
(* by DRAMSys, though all senders compete for one slot and a refused one goes    *)
(* on under a new tag.  The DDR controller serves the requests in its overflow   *)
(* queue, and deferred writes once reads stop.  In the timing cache misses do    *)
(* not wait for MSHRs for ever, nor writebacks for the port.                    *)
AllServed == /\ \A e \in 1..2 : Held(e) ~> ~Held(e)
             /\ DDR!AllServed
             /\ Cache!AllServed

(* The latency charged in the bound phase is never outside what has been observed *)
(* (or configured), and comes to a steady latency, to within what the windowed    *)
(* average rounds away.                                                          *)
EstimatesSound == [](system = "estimator" => TypeOK /\ EstimateInRange) /\ Converges
=============================================================================
