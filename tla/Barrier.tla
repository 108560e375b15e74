------------------------------- MODULE Barrier -------------------------------
(***************************************************************************)
(* barrier.h: the barrier that divides the bound phase among the simulated  *)
(* cores.  A core takes part while a thread runs on it; at most             *)
(* parallelThreads cores run at a time, and the phase ends when all have    *)
(* had their turn.                                                          *)
(*                                                                         *)
(* join, leave and sync are called with the scheduler's lock held, so each  *)
(* is one step up to its unlock; the futex wait after the unlock is a step   *)
(* of its own.  Positions in the run list count from 1, so the code's       *)
(* curThreadIdx > lastIdx reads curThreadIdx >= lastIdx here.               *)
(***************************************************************************)
EXTENDS SequencesExt

CONSTANTS
    Cids,               \* simulated cores
    parallelThreads,
    CleanupPeriod,      \* phases between cleanups of the run list (32)
    Mortal              \* cores whose process may be killed inside the barrier

ASSUME BarrierAssumption ==
    /\ IsFiniteSet(Cids)
    /\ parallelThreads \in Nat \ {0}
    /\ CleanupPeriod \in Nat \ {0, 1}
    /\ Mortal \subseteq Cids

VARIABLES
    bar,        \* the Barrier object
    where,      \* "away" from the barrier, "running", or "blocked" in a futex wait
    ran,        \* cores that have had a turn in this phase since they last joined
    idx,        \* is a core's lastIdx "set", "unset" since it came from OFFLINE, or
                \* "stale": the core was taken out before a wakeup set it
    failed      \* an assertion of join has stopped the simulator

vars == <<bar, where, ran, idx, failed>>

States == {"OFFLINE", "WAITING", "RUNNING", "LEFT"}
Positions == 1..Cardinality(Cids)

InState(b, s) == {t \in Cids : b.state[t] = s}
PosOf(list, t) == CHOOSE i \in DOMAIN list : list[i] = t

Init ==
    /\ bar = [state          |-> [t \in Cids |-> "OFFLINE"],
              futexWord      |-> [t \in Cids |-> 0],
              lastIdx        |-> [t \in Cids |-> 1],
              runList        |-> <<>>,
              curThreadIdx   |-> 0,
              runningThreads |-> 0,
              leftThreads    |-> 0,
              phaseCount     |-> 0]     \* kept modulo CleanupPeriod
    /\ where = [t \in Cids |-> "away"]
    /\ ran = {} /\ idx = [t \in Cids |-> "set"]
    /\ failed = FALSE

-----------------------------------------------------------------------------
(* checkRunList: cores are woken in list order while there is room. *)
Room(b) == parallelThreads - b.runningThreads

WaitingAt(b) == {i \in b.curThreadIdx + 1 .. Len(b.runList) :
                    b.state[b.runList[i]] = "WAITING"}

Woken(b) == {i \in WaitingAt(b) :
                Cardinality({j \in WaitingAt(b) : j < i}) < Room(b)}

checkRunList(b) ==
    LET cores == {b.runList[i] : i \in Woken(b)}
    IN  [b EXCEPT
           !.state = [t \in Cids |-> IF t \in cores THEN "RUNNING" ELSE @[t]],
           !.futexWord = [t \in Cids |-> IF t \in cores THEN 0 ELSE @[t]],
           !.lastIdx = [t \in Cids |-> IF t \in cores THEN PosOf(b.runList, t)
                                                      ELSE @[t]],
           !.curThreadIdx =
              IF Room(b) <= 0 THEN @
              ELSE IF Cardinality(Woken(b)) = Room(b) THEN Max(Woken(b))
              ELSE Len(b.runList),
           !.runningThreads = @ + Cardinality(cores)]

(* The cleanup of checkEndPhase: cores that left go offline; each gap is     *)
(* filled with the last core that stays.                                     *)
Cleaned(b) ==
    LET stay  == {i \in DOMAIN b.runList : b.state[b.runList[i]] # "LEFT"}
        size  == Cardinality(stay)
        gaps  == (1..size) \ stay
        tail  == {i \in stay : i > size}
        from(g) == CHOOSE i \in tail :
                      Cardinality({j \in tail : j > i}) = Cardinality({h \in gaps : h < g})
        list  == [i \in 1..size |-> IF i \in gaps THEN b.runList[from(i)]
                                                  ELSE b.runList[i]]
    IN  [b EXCEPT
           !.state = [t \in Cids |-> IF @[t] = "LEFT" THEN "OFFLINE" ELSE @[t]],
           !.lastIdx = [t \in Cids |->
                          IF b.state[t] = "LEFT" THEN 1
                          ELSE IF \E i \in gaps : list[i] = t THEN PosOf(list, t)
                          ELSE @[t]],
           !.runList = list,
           !.leftThreads = 0]

(* The shuffle of checkEndPhase, when not all cores can run at once.  It     *)
(* records the new position of every core it moves; only one that starts and *)
(* ends first in the list is not touched.                                    *)
Shuffled(b) ==
    IF parallelThreads >= Len(b.runList) THEN {b}
    ELSE {[b EXCEPT
             !.runList = list,
             !.lastIdx = [t \in Cids |->
                 IF /\ t \in ToSet(list)
                    /\ PosOf(list, t) # 1 \/ PosOf(b.runList, t) # 1
                 THEN PosOf(list, t) ELSE @[t]]] : list \in SetToSeqs(ToSet(b.runList))}

PhaseOver(b) ==
    /\ b.curThreadIdx = Len(b.runList)
    /\ b.runningThreads = 0
    /\ b.leftThreads # Len(b.runList)

NewPhase(b) == [b EXCEPT !.curThreadIdx = 0,
                         !.phaseCount = (@ + 1) % CleanupPeriod]

checkEndPhase(b) ==
    IF ~PhaseOver(b) THEN {b}
    ELSE Shuffled(IF b.phaseCount = 0 THEN Cleaned(NewPhase(b)) ELSE NewPhase(b))

MutTryWakeNext(b) == checkEndPhase(checkRunList(b))
tryWakeNext(b) == {checkRunList(c) : c \in checkEndPhase(checkRunList(b))}

(* The rest of a call: wake who can be woken, keep the record of turns. *)
Finish(b, before, new) ==
    /\ bar' \in tryWakeNext(b)
    /\ LET woken == {t \in Cids : b.state[t] # "RUNNING" /\ bar'.state[t] = "RUNNING"}
       IN  /\ ran' = (IF bar'.phaseCount = bar.phaseCount THEN before ELSE {}) \cup woken
           /\ idx' = [t \in Cids |-> IF t \in woken THEN "set" ELSE new[t]]
    /\ UNCHANGED failed

-----------------------------------------------------------------------------
(* Same-phase rejoin: a core the phase has passed by already takes the place *)
(* of the last one passed, so that it is the next to be looked at.           *)
MutRescheduled(b, t) == b
MutSwapped(b, t) ==     \* the other core's new position not recorded
    LET n == b.curThreadIdx
    IN  [b EXCEPT !.curThreadIdx = @ - 1,
                  !.runList = [@ EXCEPT ![b.lastIdx[t]] = b.runList[n], ![n] = t],
                  !.lastIdx = [@ EXCEPT ![t] = n]]
Rescheduled(b, t) ==
    LET i == b.lastIdx[t]
        n == b.curThreadIdx
        other == b.runList[n]
    IN  [b EXCEPT !.curThreadIdx = @ - 1,
                  !.runList = [@ EXCEPT ![i] = other, ![n] = t],
                  !.lastIdx = [@ EXCEPT ![other] = i, ![t] = n]]

PassedBy(b, t) == b.curThreadIdx >= b.lastIdx[t]

Wait(b, t) == [b EXCEPT !.state[t] = "WAITING", !.futexWord[t] = 1]

(* Barrier::join.  A core that comes from OFFLINE has no valid lastIdx: the  *)
(* field is not initialised, or is left from an earlier stay in the list.    *)
join(t) ==
    /\ ~failed
    /\ where[t] = "away"
    /\ \/ /\ bar.state[t] = "OFFLINE"
          /\ \E i \in Positions :
                Finish(Wait([bar EXCEPT !.runList = Append(@, t), !.lastIdx[t] = i], t),
                       ran, [idx EXCEPT ![t] = "unset"])
          /\ where' = [where EXCEPT ![t] = "blocked"]
       \/ /\ bar.state[t] = "LEFT"
          /\ PassedBy(bar, t)
          /\ bar.runList[bar.lastIdx[t]] # t
          /\ failed' = TRUE
          /\ UNCHANGED <<bar, where, ran, idx>>
       \/ /\ bar.state[t] = "LEFT"
          /\ PassedBy(bar, t) => bar.runList[bar.lastIdx[t]] = t
          /\ LET b == [bar EXCEPT !.leftThreads = @ - 1]
             IN  Finish(Wait(IF PassedBy(b, t) THEN Rescheduled(b, t) ELSE b, t), ran, idx)
          /\ where' = [where EXCEPT ![t] = "blocked"]

(* The thread comes back from the futex wait of join or sync. *)
resume(t) ==
    /\ where[t] = "blocked"
    /\ bar.futexWord[t] = 0
    /\ where' = [where EXCEPT ![t] = "running"]
    /\ UNCHANGED <<bar, ran, idx, failed>>

(* Barrier::leave of a core whose barrier state is RUNNING. *)
LeaveRunning(t) ==
    /\ bar.state[t] = "RUNNING"
    /\ Finish([bar EXCEPT !.state[t] = "LEFT", !.leftThreads = @ + 1,
                          !.runningThreads = @ - 1], ran \ {t}, idx)
    /\ where' = [where EXCEPT ![t] = "away"]

leave(t) == ~failed /\ where[t] = "running" /\ LeaveRunning(t)

(* Scheduler::processCleanup: the process was killed with its thread inside  *)
(* the barrier, and the watchdog makes the core leave in its place.          *)
LeaveWaiting(b, t) == [b EXCEPT !.state[t] = "LEFT", !.leftThreads = @ + 1]

cleanup(t) ==
    /\ ~failed
    /\ t \in Mortal
    /\ where[t] = "blocked"
    /\ \/ LeaveRunning(t)
       \/ /\ bar.state[t] = "WAITING"
          /\ bar' = LeaveWaiting(bar, t)
          /\ where' = [where EXCEPT ![t] = "away"]
          /\ ran' = ran \ {t}
          /\ idx' = [idx EXCEPT ![t] = IF @ = "unset" THEN "stale" ELSE @]
          /\ UNCHANGED failed

(* Barrier::sync, at the end of the core's turn. *)
MutSyncing(t) == [bar EXCEPT !.state[t] = "WAITING", !.runningThreads = @ - 1]
Syncing(t) == Wait([bar EXCEPT !.runningThreads = @ - 1], t)

sync(t) ==
    /\ ~failed
    /\ where[t] = "running"
    /\ Finish(Syncing(t), ran, idx)
    /\ where' = [where EXCEPT ![t] = "blocked"]

Step(t) == join(t) \/ resume(t) \/ leave(t) \/ cleanup(t) \/ sync(t)

Next == \E t \in Cids : Step(t)

Spec == Init /\ [][Next]_vars

-----------------------------------------------------------------------------
(* The barrier's list, its index into it and its counters stay in range: no *)
(* more threads run than may run in parallel.                               *)
TypeOK ==
    /\ bar.state \in [Cids -> States]
    /\ bar.futexWord \in [Cids -> {0, 1}]
    /\ bar.lastIdx \in [Cids -> Positions]
    /\ bar.runList \in Seq(Cids)
    /\ bar.curThreadIdx \in 0..Len(bar.runList)
    /\ bar.runningThreads \in 0..parallelThreads
    /\ bar.leftThreads \in Nat
    /\ bar.phaseCount \in 0..CleanupPeriod-1
    /\ where \in [Cids -> {"away", "blocked", "running"}]
    /\ ran \subseteq Cids /\ idx \in [Cids -> {"set", "unset", "stale"}]
    /\ failed \in BOOLEAN

(* Through swaps, cleanups, shuffles and the counters kept beside them, the  *)
(* run list holds each core that is not offline exactly once, and the        *)
(* counters that decide the end of a phase count what they say.              *)
RunListExact ==
    /\ IsInjective(bar.runList)
    /\ ToSet(bar.runList) = Cids \ InState(bar, "OFFLINE")
    /\ bar.runningThreads = Cardinality(InState(bar, "RUNNING"))
    /\ bar.leftThreads = Cardinality(InState(bar, "LEFT"))

(* The panic "Wakeup race in barrier?" is unreachable: a core that may be    *)
(* woken has its futex word set, and one that was woken has it cleared       *)
(* before its thread looks at it, so no wakeup is lost.                      *)
NoWakeupLost ==
    \A t \in Cids :
        /\ bar.state[t] = "WAITING" => bar.futexWord[t] = 1 /\ where[t] = "blocked"
        /\ bar.state[t] = "RUNNING" => bar.futexWord[t] = 0 /\ where[t] # "away"

(* No phase ends before every waiting core has had its turn in it, and no    *)
(* core has a second turn in a phase unless it left and joined again.        *)
TurnsAreFair ==
    [][/\ bar'.phaseCount # bar.phaseCount =>
             \A t \in Cids : bar.state[t] = "WAITING" => t \in ran \/ idx[t] = "stale"
       /\ \A t \in Cids : (/\ bar.state[t] = "WAITING"
                           /\ bar'.state[t] = "RUNNING"
                           /\ bar'.phaseCount = bar.phaseCount) => t \notin ran]_vars

(* lastIdx leads a core that left, and that the phase has passed by, to its   *)
(* own place in the run list, through the swaps, shuffles and cleanups since  *)
(* it was recorded, once the core has been woken there.                       *)
LastIdxLeadsHome ==
    \A t \in InState(bar, "LEFT") :
        idx[t] = "set" /\ PassedBy(bar, t) => bar.runList[bar.lastIdx[t]] = t

(* The run list and what is cached about it are exact. *)
PlacesExact == TypeOK /\ RunListExact /\ LastIdxLeadsHome

(* "assert(tid == runList[lastIdx])": lastIdx leads a core that rejoins to    *)
(* its own place in the run list.                                            *)
RejoinFindsItself == ~failed
=============================================================================
