--------------------------- MODULE MCWeaveModels ---------------------------
(***************************************************************************)
(* Four models that do not interact, explored in one run:                    *)
(* the DDR controller, a timing cache and the two core recorders.  A          *)
(* behaviour is about the one chosen at its start; the variables of the       *)
(* others keep their first values.                                           *)
(***************************************************************************)
EXTENDS DDRMemory

CONSTANTS b0, b1, b2, b3

VARIABLES
    part,
    cycle, events, pending, active, lastAcc, lastFree, miss, done, used, clash,
    phase, globPhase, curCycle, state, gap, waits, sim, lastUnhalted, accesses, joins, failed,
    ev, curId, last, future,
    chain, ready, prevRespCycle

cacheVars == <<cycle, events, pending, active, lastAcc, lastFree, miss, done, used, clash>>
coreVars == <<phase, globPhase, curCycle, state, gap, waits, sim, lastUnhalted, accesses, joins, failed>>
oooVars == <<ev, curId, last, future>>
chainVars == <<chain, ready, prevRespCycle>>
mcVars == <<part, vars, cacheVars, coreVars, oooVars, chainVars>>

(* The DDR controller with one bank and open rows is the extended module: row   *)
(* hits, overflow and refreshes.  Three banks with closed rows compete for the   *)
(* window of activations.                                                      *)
MCOneBank == {b0}
Banks3 == INSTANCE DDRMemory WITH
    Banks <- {b1, b2, b3}, Rows <- {1}, QueueDepth <- 2, ClosedPage <- TRUE,
    MaxReqs <- 4, Gaps <- {0, 5}, MaxRefreshes <- 1

(* More requests than MSHRs. *)
Cache == INSTANCE TimingCache WITH
    now <- cycle, queued <- events,
    Reqs <- 1..4, NumMSHRs <- 2, AccLat <- 1, Delays <- {2}, ReplAccs <- {0, 2},
    Gaps <- {0, 2}

(* One core, a few accesses over a few short phases.  The out-of-order core makes *)
(* three accesses and does not come back, or two and rejoins.                     *)
OOO == INSTANCE OOOCoreRecorder WITH
    PhaseLength <- 4, SharedThread <- FALSE, Advances <- {0, 2}, Dispatches <- {1},
    Estimates <- {0, 8}, Latencies <- {1, 4}, MaxAccesses <- 3, MaxJoins <- 1, MaxPhases <- 4
OOORejoin == INSTANCE OOOCoreRecorder WITH
    PhaseLength <- 4, SharedThread <- FALSE, Advances <- {0, 2}, Dispatches <- {1},
    Estimates <- {0, 8}, Latencies <- {1, 4}, MaxAccesses <- 2, MaxJoins <- 2, MaxPhases <- 4
InOrder == INSTANCE CoreRecorder WITH
    PhaseLength <- 4, SharedThread <- TRUE, Advances <- {0, 2},
    Estimates <- {0, 8}, Latencies <- {1, 5}, MaxAccesses <- 3, MaxJoins <- 2, MaxPhases <- 5

NoChain == chain = <<>> /\ ready = 0 /\ prevRespCycle = 0
NoGraph == ev = <<>> /\ curId = 1 /\ last = 0 /\ future = {}

MCInit ==
    /\ part \in {"DDR", "DDR banks", "cache", "OOO", "OOO rejoin", "in-order"}
    /\ IF part = "DDR banks" THEN Banks3!Init ELSE Init
    /\ Cache!Init
    /\ IF part = "in-order" THEN InOrder!Init /\ NoGraph ELSE OOO!Init /\ NoChain

MCNext ==
    \/ /\ \/ part = "DDR" /\ Next
          \/ part = "DDR banks" /\ Banks3!Next
       /\ UNCHANGED <<part, cacheVars, coreVars, oooVars, chainVars>>
    \/ /\ part = "cache" /\ Cache!Next
       /\ UNCHANGED <<part, vars, coreVars, oooVars, chainVars>>
    \/ /\ \/ part = "OOO" /\ OOO!Next
          \/ part = "OOO rejoin" /\ OOORejoin!Next
       /\ UNCHANGED <<part, vars, cacheVars, chainVars>>
    \/ /\ part = "in-order" /\ InOrder!Next
       /\ UNCHANGED <<part, vars, cacheVars, oooVars>>

MCSpec == MCInit /\ [][MCNext]_mcVars
-----------------------------------------------------------------------------
(* A timing cache's resources are exact: activeMisses counts the misses between  *)
(* start and writeback, however often each was held or requeued; nothing waits   *)
(* in pendingQueue while an MSHR is free; and the port serves one lookup per     *)
(* cycle, though low-priority lookups are granted after the fact.              *)
CacheResourcesExact == /\ Cache!TypeOK /\ Cache!MSHRsExact
                       /\ Cache!HeldOnlyIfFull /\ Cache!PortServesOne

(* The skew that cSimEnd computes, of either recorder, is not negative, though   *)
(* the events it comes from may be phases old, nor does it take the core's       *)
(* clock past its last simulated event.                                        *)
NoNegativeSkew == /\ part \in {"OOO", "OOO rejoin"} => OOO!NoNegativeSkew
                  /\ part = "in-order" => InOrder!NoNegativeSkew

(* What a recorder keeps between phases is alive: a response event in            *)
(* futureResponses has not been simulated and freed, a running core's graph has  *)
(* an issue event to continue from, and the assertions of both recorders on      *)
(* their events, joins and halts hold.                                         *)
GraphAlive ==
    /\ part \in {"OOO", "OOO rejoin"} =>
        OOO!TypeOK /\ OOO!ResponsesFresh /\ OOO!RunningIsTapered /\ OOO!NoAssertFails
    /\ part = "in-order" => InOrder!TypeOK /\ InOrder!NoAssertFails
=============================================================================
