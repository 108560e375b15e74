--------------------------- MODULE BoundMemLatency ---------------------------
(***************************************************************************)
(* The estimators of the memory latency that the bound phase charges.  The  *)
(* weave phase feeds an estimator the latencies of the reads; between       *)
(* phases reset() may publish a new estimate.  Doubles are exact fractions  *)
(* here: where a value to be rounded lies half way, a double may fall on    *)
(* either side.                                                             *)
(***************************************************************************)
EXTENDS Integers, FiniteSetsExt

CONSTANTS
    Strategies,         \* of {"lst", "max", "avg", "wavg"}
    Initial,            \* initial_latency
    Latencies, Counts,  \* bound: a phase's reads come in runs of Counts equal latencies
    MaxRuns             \* bound: such runs in a phase

ASSUME BoundMemLatencyAssumption ==
    /\ Strategies \subseteq {"lst", "max", "avg", "wavg"}
    /\ Latencies \cup Counts \cup {Initial, MaxRuns} \subseteq Nat \ {0}

VARIABLES
    strategy,
    sum, count, max,    \* of the phase's samples
    out,                \* what getMemLatency returns instead of Initial; 0 if nothing yet
    runs,               \* this phase's runs of samples, as <<latency, count>>
    last,               \* the traffic of the phase before
    least, most         \* of all samples so far

vars == <<strategy, sum, count, max, out, runs, last, least, most>>

Init ==
    /\ strategy \in Strategies
    /\ sum = 0 /\ count = 0 /\ max = 0 /\ out = 0
    /\ runs = {} /\ last = {} /\ least = Initial /\ most = Initial

getMemLatency == IF out # 0 THEN out ELSE Initial

updateModel(lat, n) ==
    /\ Cardinality(runs) < MaxRuns /\ \A r \in runs : r[1] # lat
    /\ sum' = sum + n * lat
    /\ count' = count + n
    /\ max' = Max({max, lat})
    /\ out' = IF strategy = "lst" THEN lat ELSE out
    /\ runs' = runs \cup {<<lat, n>>}
    /\ least' = Min({least, lat}) /\ most' = Max({most, lat})
    /\ UNCHANGED <<strategy, last>>
-----------------------------------------------------------------------------
(* uint32_t(n / d + 0.5) *)
Truncated(n, d) == {n \div d}
Rounded(n, d) ==
    LET up == (2 * n + d) \div (2 * d)
    IN IF (2 * n + d) % (2 * d) = 0 THEN {up - 1, up} ELSE {up}

(* The weight of a phase of n samples, as a fraction: n / EffectiveWindow, at least *)
(* MinPhaseWeight and at most 1.                                                    *)
Weight(n) == IF n < 3 THEN <<1, 20>> ELSE <<Min({n, 50}), 50>>

(* One phase moves the published bound by at most MaxRiseRatio or MaxDropRatio.     *)
Clamped(x, base, d) ==
    LET lower == Max({5 * d, 4 * d * base})
        upper == Max({lower + 5 * d, 6 * d * base})
    IN Min({Max({x, lower}), upper})

(* All in units of 1 / (5 * d). *)
Blended ==
    LET w == Weight(count)
        d == w[2] * count
        moved == 5 * (d * out + w[1] * (sum - count * out))
    IN IF out = 0 THEN Rounded(sum, count)
       ELSE {Max({x, 1}) : x \in Rounded(Clamped(moved, out, d), 5 * d)}

Published ==
    CASE strategy = "max" -> {max}
      [] strategy = "avg" /\ count # 0 -> {sum \div count}
      [] strategy = "wavg" /\ count # 0 -> Blended
      [] OTHER -> {out}

SumAfterReset == 0

reset ==
    /\ out' \in Published
    /\ sum' = SumAfterReset /\ count' = 0 /\ max' = 0
    /\ runs' = {} /\ last' = runs
    /\ UNCHANGED <<strategy, least, most>>

Next == reset \/ \E lat \in Latencies, n \in Counts : updateModel(lat, n)

Spec == Init /\ [][Next]_vars

(* Phases go on. *)
FairSpec == Spec /\ WF_vars(reset)
-----------------------------------------------------------------------------
(* The counters are naturals, and the sum of a phase holds no latency that *)
(* its count does not: reset clears both (a sum left over would enter the  *)
(* next average).                                                          *)
TypeOK ==
    /\ {sum, count, max, out} \subseteq Nat
    /\ (sum = 0) <=> (count = 0)

(* The latency charged is never outside what has been observed (or configured): a  *)
(* blend, its limits and its rounding stay inside, and no sample is counted in two  *)
(* phases.                                                                         *)
EstimateInRange == getMemLatency \in least .. most

(* How far the windowed average may stay from a steady latency: a step of less than *)
(* half a cycle is rounded away.                                                   *)
Slack(n) == IF strategy # "wavg" THEN 0 ELSE IF n < 3 THEN 10 ELSE 25 \div n

(* If every phase from some point on sees the same latency the same number of times, *)
(* the estimate comes to it and stays, to within the slack.                        *)
Converges ==
    \A lat \in Latencies, n \in Counts :
        <>[](runs \subseteq {<<lat, n>>} /\ last = {<<lat, n>>}) =>
            <>[](getMemLatency \in lat - Slack(n) .. lat + Slack(n))
=============================================================================
