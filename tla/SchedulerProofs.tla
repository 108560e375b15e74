-------------------------- MODULE SchedulerProofs --------------------------
(***************************************************************************)
(* The scheduler keeps its threads, cores, queues and promises in agreement  *)
(* with each other and with the barrier, loses no thread and leaves no core  *)
(* idle that a queued thread wants; and its matching of futex wakes with     *)
(* waits keeps its two counters exact.  All of it for any threads, cores,    *)
(* masks, quantum and sleeps.                                                *)
(*                                                                         *)
(* The scheduler's calls pass a value of s through several operations, and  *)
(* between them a core may belong to nobody.  So the invariant is stated of *)
(* a value and of the cores in transit (Sound), and one lemma per operation  *)
(* says what it does to it; the lemmas of the calls compose them.  What a   *)
(* call may do to the threads that do not make it is Drifts, and where a    *)
(* thread's own calls have brought it is PlaceOf.                            *)
(***************************************************************************)
EXTENDS Scheduler, FutexMatching, FiniteSetTheorems, SequenceTheorems, WellFoundedInduction, TLAPS

(* The share of one waker is a finite set of its size. *)
LEMMA OneShare ==
    ASSUME NEW k, NEW n \in Nat
    PROVE  IsFiniteSet({k} \X (1 .. n)) /\ Cardinality({k} \X (1 .. n)) = n
  <1> DEFINE g == [i \in 1 .. n |-> <<k, i>>]
  <1>1. IsFiniteSet(1 .. n) /\ Cardinality(1 .. n) = n
    BY FS_Interval
  <1>2. g \in Bijection(1 .. n, {k} \X (1 .. n))
    <2>1. g \in [1 .. n -> {k} \X (1 .. n)]
      OBVIOUS
    <2>2. \A i, j \in 1 .. n : g[i] = g[j] => i = j
      OBVIOUS
    <2>3. \A y \in {k} \X (1 .. n) : \E i \in 1 .. n : g[i] = y
      <3>1. TAKE y \in {k} \X (1 .. n)
      <3>2. y[2] \in 1 .. n /\ y = <<k, y[2]>>
        BY <3>1
      <3> QED
        BY <3>2
    <2> HIDE DEF g
    <2> QED
      BY <2>1, <2>2, <2>3, Zenon DEF Bijection, Injection, Surjection, IsInjective
  <1> QED
    BY <1>1, <1>2, FS_Bijection DEF ExistsBijection

(* Changing the share of one waker changes the total by the difference. *)
LEMMA TotalChanges ==
    ASSUME NEW f \in [Wakers -> Nat], NEW k \in Wakers, NEW n \in Nat,
           IsFiniteSet(Shares(f))
    PROVE  /\ IsFiniteSet(Shares([f EXCEPT ![k] = n]))
           /\ Total(f) \in Nat /\ f[k] <= Total(f)
           /\ Total([f EXCEPT ![k] = n]) = Total(f) - f[k] + n
  <1> DEFINE g == [f EXCEPT ![k] = n]
             rest == UNION {{j} \X (1 .. f[j]) : j \in Wakers \ {k}}
             old == {k} \X (1 .. f[k])
             new == {k} \X (1 .. n)
  <1>1. Shares(f) = rest \cup old /\ Shares(g) = rest \cup new
    BY Zenon DEF Shares
  <1>2. rest \cap old = {} /\ rest \cap new = {}
    OBVIOUS
  <1>3. /\ IsFiniteSet(old) /\ Cardinality(old) = f[k]
        /\ IsFiniteSet(new) /\ Cardinality(new) = n
    BY OneShare
  <1>4. IsFiniteSet(rest)
    BY <1>1, FS_Subset
  <1> HIDE DEF rest, old, new, g
  <1>5. /\ IsFiniteSet(rest \cup new)
        /\ Cardinality(rest \cup old) = Cardinality(rest) + f[k]
        /\ Cardinality(rest \cup new) = Cardinality(rest) + n
        /\ Cardinality(rest) \in Nat
    <2>1. f[k] \in Nat /\ Cardinality(rest) \in Nat
      BY <1>4, FS_CardinalityType
    <2>2. /\ IsFiniteSet(rest \cup new)
          /\ Cardinality(rest \cup old) = Cardinality(rest) + f[k] - Cardinality(rest \cap old)
          /\ Cardinality(rest \cup new) = Cardinality(rest) + n - Cardinality(rest \cap new)
      BY <1>3, <1>4, FS_Union
    <2>3. Cardinality(rest \cap old) = 0 /\ Cardinality(rest \cap new) = 0
      BY <1>2, FS_EmptySet, Zenon
    <2> QED
      BY <2>1, <2>2, <2>3
  <1>6. /\ Total(f) = Cardinality(rest \cup old)
        /\ Total(g) = Cardinality(rest \cup new) /\ IsFiniteSet(Shares(g))
    BY <1>1, <1>5, Zenon DEF Total
  <1>7. f[k] \in Nat
    OBVIOUS
  <1>8. Total(f) \in Nat /\ f[k] <= Total(f) /\ Total(g) = Total(f) - f[k] + n
    BY <1>5, <1>6, <1>7
  <1> QED
    BY <1>6, <1>8, Zenon DEF g

(* Larger shares have a larger total. *)
LEMMA TotalMonotone ==
    ASSUME NEW f \in [Wakers -> Nat], NEW g \in [Wakers -> Nat],
           \A k \in Wakers : f[k] <= g[k], IsFiniteSet(Shares(g))
    PROVE  IsFiniteSet(Shares(f)) /\ Total(f) \in Nat /\ Total(f) <= Total(g)
  <1>1. Shares(f) \subseteq Shares(g)
    BY DEF Shares
  <1> QED
    BY <1>1, FS_Subset, FS_CardinalityType DEF Total
-----------------------------------------------------------------------------
WakerRecords == [pc : {"app", "start", "end", "match", "sleep", "lock"},
                 maxWakes : Nat, wokenUp : Nat]

Allowances == [k \in Wakers |-> Allowance(k)]

FutexTypes ==
    /\ maxAllowed \in Nat /\ unmatched \in Nat /\ failed \in BOOLEAN /\ gaveUp \in BOOLEAN
    /\ waker \in [Wakers -> WakerRecords]
    /\ waiter \in [Waiters -> {"app", "wait", "woken", "joining"}]

(* A wake that has not returned has woken nobody yet, none wakes more than it asked *)
(* for, and a waker in simulated code accounts for nothing.                        *)
WakesBounded ==
    \A k \in Wakers : /\ waker[k].pc \in {"app", "start"} => waker[k].wokenUp = 0
                      /\ waker[k].wokenUp <= waker[k].maxWakes

(* The inductive invariant: only finitely many threads are accounted for at a time. *)
FutexIInv ==
    /\ FutexTypes /\ WakesBounded
    /\ IsFiniteSet(Shares(Allowances)) /\ AllowanceExact
    /\ WakesBalance /\ NoFutexAssertFails

(* What the wakes in progress woke is part of what they are allowed. *)
LEMMA WokeWithinAllowance ==
    ASSUME FutexIInv
    PROVE  /\ Woke \in [Wakers -> Nat] /\ Allowances \in [Wakers -> Nat]
           /\ IsFiniteSet(Shares(Woke)) /\ Total(Woke) \in Nat
           /\ Total(Woke) <= maxAllowed /\ maxAllowed = Total(Allowances)
           /\ \A k \in Wakers : Woke[k] <= Allowances[k]
  <1>1. \A k \in Wakers : /\ waker[k].wokenUp \in Nat /\ waker[k].maxWakes \in Nat
                          /\ waker[k].wokenUp <= waker[k].maxWakes
    BY DEF FutexIInv, FutexTypes, WakerRecords, WakesBounded
  <1>2. /\ Woke \in [Wakers -> Nat] /\ Allowances \in [Wakers -> Nat]
        /\ \A k \in Wakers : Woke[k] <= Allowances[k]
    BY <1>1 DEF Woke, Allowances, Allowance
  <1>3. IsFiniteSet(Shares(Allowances)) /\ maxAllowed = Total(Allowances)
    BY Zenon DEF FutexIInv, AllowanceExact, Allowances
  <1> QED
    BY <1>2, <1>3, TotalMonotone

(* Threads in flight are finitely many, as all waiters are. *)
LEMMA InFlightFinite ==
    IsFiniteSet(InFlight) /\ Cardinality(InFlight) \in Nat
  BY FutexAssumption, FS_Subset, FS_CardinalityType DEF InFlight

(* The initial state. *)
LEMMA FutexInitIInv ==
    ASSUME FutexInit
    PROVE  FutexIInv
  <1>1. FutexTypes /\ WakesBounded
    <2>1. Idle \in WakerRecords /\ Idle.wokenUp = 0 /\ Idle.maxWakes = 0
      BY DEF Idle, WakerRecords
    <2>2. /\ waker \in [Wakers -> WakerRecords] /\ \A k \in Wakers : waker[k] = Idle
          /\ waiter \in [Waiters -> {"app", "wait", "woken", "joining"}]
      BY <2>1 DEF FutexInit
    <2>3. FutexTypes
      BY <2>2 DEF FutexInit, FutexTypes
    <2>4. WakesBounded
      <3>1. \A k \in Wakers : waker[k].wokenUp = 0 /\ waker[k].maxWakes = 0
        BY <2>1, <2>2, Zenon
      <3> QED
        BY <3>1 DEF WakesBounded
    <2> QED
      BY <2>3, <2>4
  <1>2. Shares(Allowances) = {} /\ Shares(Woke) = {} /\ InFlight = {}
    BY DEF FutexInit, Idle, Shares, Allowances, Allowance, Woke, InFlight
  <1>3. /\ IsFiniteSet(Shares(Allowances)) /\ Total(Allowances) = 0
        /\ Total(Woke) = 0 /\ Cardinality(InFlight) = 0
    BY <1>2, FS_EmptySet, Zenon DEF Total
  <1> QED
    BY <1>1, <1>3 DEF FutexInit, FutexIInv, AllowanceExact, Allowances, WakesBalance, NoFutexAssertFails

(* How an action that changes one waker, the counters and the threads in flight *)
(* keeps both sums.                                                            *)
LEMMA WakerChanges ==
    ASSUME FutexIInv, NEW k \in Wakers, NEW x \in WakerRecords,
           waker' = [waker EXCEPT ![k] = x],
           NEW a \in Nat,
           a = IF x.pc \in {"start", "end"} THEN x.maxWakes ELSE x.wokenUp
    PROVE  /\ waker' \in [Wakers -> WakerRecords]
           /\ IsFiniteSet(Shares(Allowances'))
           /\ Total(Allowances') = maxAllowed - Allowance(k) + a
           /\ Total(Woke') = Total(Woke) - waker[k].wokenUp + x.wokenUp
           /\ Total(Woke) \in Nat /\ waker[k].wokenUp <= Total(Woke)
           /\ Allowance(k) \in Nat /\ Allowance(k) <= maxAllowed
  <1>1. waker \in [Wakers -> WakerRecords] /\ x.wokenUp \in Nat
    BY DEF FutexIInv, FutexTypes, WakerRecords
  <1>2. /\ Allowances' = [Allowances EXCEPT ![k] = a] /\ Allowances[k] = Allowance(k)
        /\ Woke' = [Woke EXCEPT ![k] = x.wokenUp] /\ Woke[k] = waker[k].wokenUp
    BY <1>1 DEF Allowances, Allowance, Woke
  <1>3. /\ Woke \in [Wakers -> Nat] /\ Allowances \in [Wakers -> Nat]
        /\ IsFiniteSet(Shares(Woke)) /\ maxAllowed = Total(Allowances)
        /\ IsFiniteSet(Shares(Allowances))
    BY WokeWithinAllowance, Zenon DEF FutexIInv
  <1>4. waker' \in [Wakers -> WakerRecords]
    BY <1>1
  <1>5. /\ IsFiniteSet(Shares([Allowances EXCEPT ![k] = a]))
        /\ Allowances[k] <= Total(Allowances)
        /\ Total([Allowances EXCEPT ![k] = a]) = Total(Allowances) - Allowances[k] + a
    BY <1>3, TotalChanges
  <1>6. /\ Total(Woke) \in Nat /\ Woke[k] <= Total(Woke)
        /\ Total([Woke EXCEPT ![k] = x.wokenUp]) = Total(Woke) - Woke[k] + x.wokenUp
    BY <1>1, <1>3, TotalChanges
  <1>7. Allowances[k] \in Nat
    BY <1>3
  <1> QED
    BY <1>2, <1>3, <1>4, <1>5, <1>6, <1>7, Zenon

(* The invariant after a step of waker k, from what the step does to the two sums. *)
LEMMA WakerStep ==
    ASSUME FutexIInv, NEW k \in Wakers, NEW x \in WakerRecords,
           waker' = [waker EXCEPT ![k] = x],
           x.pc \in {"app", "start"} => x.wokenUp = 0, x.wokenUp <= x.maxWakes,
           NEW a \in Nat,
           a = IF x.pc \in {"start", "end"} THEN x.maxWakes ELSE x.wokenUp,
           waiter' \in [Waiters -> {"app", "wait", "woken", "joining"}],
           failed' \in BOOLEAN, gaveUp' \in BOOLEAN, unmatched' \in Nat,
           maxAllowed' = maxAllowed - Allowance(k) + a,
           ~gaveUp' => ~gaveUp /\ ~failed',
           ~gaveUp' => Cardinality(InFlight') + unmatched'
                         = (Cardinality(InFlight) + unmatched) - waker[k].wokenUp + x.wokenUp
    PROVE  FutexIInv'
  <1>1. /\ waker' \in [Wakers -> WakerRecords]
        /\ IsFiniteSet(Shares(Allowances'))
        /\ Total(Allowances') = maxAllowed'
        /\ Total(Woke') = Total(Woke) - waker[k].wokenUp + x.wokenUp
        /\ Allowance(k) \in Nat /\ Allowance(k) <= maxAllowed
    BY WakerChanges, Zenon
  <1>2. waker \in [Wakers -> WakerRecords] /\ maxAllowed \in Nat /\ unmatched \in Nat
    BY Zenon DEF FutexIInv, FutexTypes
  <1>3. maxAllowed' \in Nat
    BY <1>1, <1>2
  <1>4. FutexTypes'
    BY <1>1, <1>3, Zenon DEF FutexTypes
  <1>5. WakesBounded'
    <2>1. ASSUME NEW j \in Wakers
          PROVE  /\ waker'[j].pc \in {"app", "start"} => waker'[j].wokenUp = 0
                 /\ waker'[j].wokenUp <= waker'[j].maxWakes
      <3>1. CASE j = k
        <4>1. waker'[j] = x
          BY <1>2, <3>1
        <4> QED
          BY <4>1
      <3>2. CASE j # k
        <4>1. waker'[j] = waker[j]
          BY <1>2, <3>2
        <4> QED
          BY <4>1, Zenon DEF FutexIInv, WakesBounded
      <3> QED
        BY <3>1, <3>2
    <2> QED
      BY <2>1, Zenon DEF WakesBounded
  <1>6. AllowanceExact'
    BY <1>1, Zenon DEF AllowanceExact, Allowances
  <1>7. WakesBalance'
    <2>1. SUFFICES ASSUME ~gaveUp'
                   PROVE  Cardinality(InFlight') + unmatched' = Total(Woke')
      BY Zenon DEF WakesBalance
    <2>2. Cardinality(InFlight) + unmatched = Total(Woke)
      BY <2>1, Zenon DEF FutexIInv, WakesBalance
    <2>3. Cardinality(InFlight') + unmatched'
            = (Cardinality(InFlight) + unmatched) - waker[k].wokenUp + x.wokenUp
      BY <2>1
    <2> QED
      BY <1>1, <2>2, <2>3, Zenon
  <1>8. NoFutexAssertFails'
    BY Zenon DEF NoFutexAssertFails
  <1> QED
    BY <1>1, <1>4, <1>5, <1>6, <1>7, <1>8, Zenon DEF FutexIInv

(* A waker that goes on keeps its numbers. *)
LEMMA WakerGoesTo ==
    ASSUME NEW r \in WakerRecords,
           NEW l \in {"app", "start", "end", "match", "sleep", "lock"}
    PROVE  /\ [r EXCEPT !.pc = l] \in WakerRecords
           /\ [r EXCEPT !.pc = l].pc = l
           /\ [r EXCEPT !.pc = l].maxWakes = r.maxWakes
           /\ [r EXCEPT !.pc = l].wokenUp = r.wokenUp
  BY DEF WakerRecords

(* What the invariant says of one waker, by where it is. *)
LEMMA WakerFacts ==
    ASSUME FutexIInv, NEW k \in Wakers
    PROVE  /\ waker[k] \in WakerRecords
           /\ waker[k].wokenUp \in Nat /\ waker[k].maxWakes \in Nat
           /\ waker[k].wokenUp <= waker[k].maxWakes
           /\ waker[k].pc \in {"app", "start"} => waker[k].wokenUp = 0
           /\ Allowance(k) \in Nat
           /\ maxAllowed \in Nat /\ unmatched \in Nat
           /\ failed \in BOOLEAN /\ gaveUp \in BOOLEAN
           /\ waiter \in [Waiters -> {"app", "wait", "woken", "joining"}]
           /\ ~gaveUp => ~failed
           /\ Cardinality(InFlight) \in Nat
  <1>1. /\ waker[k] \in WakerRecords
        /\ maxAllowed \in Nat /\ unmatched \in Nat
        /\ failed \in BOOLEAN /\ gaveUp \in BOOLEAN
        /\ waiter \in [Waiters -> {"app", "wait", "woken", "joining"}]
        /\ ~gaveUp => ~failed
        /\ waker[k].wokenUp <= waker[k].maxWakes
        /\ waker[k].pc \in {"app", "start"} => waker[k].wokenUp = 0
    BY DEF FutexIInv, FutexTypes, WakesBounded, NoFutexAssertFails
  <1>2. waker[k].wokenUp \in Nat /\ waker[k].maxWakes \in Nat
    BY <1>1 DEF WakerRecords
  <1>3. Allowance(k) \in Nat
    BY <1>2 DEF Allowance
  <1> QED
    BY <1>1, <1>2, <1>3, InFlightFinite, Zenon
-----------------------------------------------------------------------------
(* A wake starts: its allowance is added. *)
LEMMA WakeStartIInv ==
    ASSUME FutexIInv, NEW k \in Wakers, NEW n \in MaxWakes, WakeStart(k, n)
    PROVE  FutexIInv'
  <1> DEFINE r == waker[k]
             x == [pc |-> "start", maxWakes |-> n, wokenUp |-> 0]
             a == n
  <1>1. /\ r \in WakerRecords /\ r.wokenUp \in Nat /\ r.maxWakes \in Nat
        /\ r.wokenUp <= r.maxWakes /\ (r.pc \in {"app", "start"} => r.wokenUp = 0)
        /\ Allowance(k) \in Nat /\ maxAllowed \in Nat /\ unmatched \in Nat
        /\ failed \in BOOLEAN /\ gaveUp \in BOOLEAN /\ (~gaveUp => ~failed)
        /\ waiter \in [Waiters -> {"app", "wait", "woken", "joining"}]
        /\ Cardinality(InFlight) \in Nat
    BY WakerFacts, Zenon
  <1>2. n \in Nat /\ r.pc = "app"
    BY FutexAssumption DEF WakeStart
  <1>3. /\ x \in WakerRecords /\ waker' = [waker EXCEPT ![k] = x]
        /\ x.pc = "start" /\ x.maxWakes = n /\ x.wokenUp = 0
    BY <1>2 DEF WakeStart, WakerRecords
  <1>4. Allowance(k) = 0 /\ r.wokenUp = 0
    BY <1>1, <1>2 DEF Allowance
  <1>5. /\ maxAllowed' = maxAllowed - Allowance(k) + a
        /\ unmatched' = unmatched /\ InFlight' = InFlight
        /\ waiter' = waiter /\ failed' = failed /\ gaveUp' = gaveUp
    BY <1>1, <1>2, <1>4 DEF WakeStart, InFlight
  <1>6. /\ a \in Nat /\ a = (IF x.pc \in {"start", "end"} THEN x.maxWakes ELSE x.wokenUp)
        /\ (x.pc \in {"app", "start"} => x.wokenUp = 0) /\ x.wokenUp <= x.maxWakes
    BY <1>2, <1>3
  <1>7. Cardinality(InFlight') + unmatched'
          = (Cardinality(InFlight) + unmatched) - r.wokenUp + x.wokenUp
    BY <1>1, <1>3, <1>4, <1>5
  <1> HIDE DEF x, a
  <1> QED
    BY <1>1, <1>3, <1>5, <1>6, <1>7, WakerStep, Zenon


(* The unused part of the allowance goes back; the assertions hold. *)
LEMMA WakeJoinIInv ==
    ASSUME FutexIInv, NEW k \in Wakers, WakeJoin(k)
    PROVE  FutexIInv'
  <1> DEFINE r == waker[k]
             x == [r EXCEPT !.pc = "match"]
             a == r.wokenUp
  <1>1. /\ r \in WakerRecords /\ r.wokenUp \in Nat /\ r.maxWakes \in Nat
        /\ r.wokenUp <= r.maxWakes /\ (r.pc \in {"app", "start"} => r.wokenUp = 0)
        /\ Allowance(k) \in Nat /\ maxAllowed \in Nat /\ unmatched \in Nat
        /\ failed \in BOOLEAN /\ gaveUp \in BOOLEAN /\ (~gaveUp => ~failed)
        /\ waiter \in [Waiters -> {"app", "wait", "woken", "joining"}]
        /\ Cardinality(InFlight) \in Nat
    BY WakerFacts, Zenon
  <1>2. r.pc = "end" /\ Allowance(k) = r.maxWakes
    BY DEF WakeJoin, Allowance
  <1>3. /\ x \in WakerRecords /\ waker' = [waker EXCEPT ![k] = x]
        /\ x.pc = "match" /\ x.maxWakes = r.maxWakes /\ x.wokenUp = r.wokenUp
    <2>1. waker' = [waker EXCEPT ![k] = x]
      BY DEF WakeJoin
    <2> QED
      BY <1>1, <2>1, WakerGoesTo
  <1>4. /\ maxAllowed' = maxAllowed - Allowance(k) + a
        /\ unmatched' = unmatched /\ InFlight' = InFlight
        /\ waiter' = waiter /\ gaveUp' = gaveUp /\ failed' \in BOOLEAN
    BY <1>1, <1>2 DEF WakeJoin, Adjusted, InFlight
  <1>5. /\ a \in Nat /\ a = (IF x.pc \in {"start", "end"} THEN x.maxWakes ELSE x.wokenUp)
        /\ (x.pc \in {"app", "start"} => x.wokenUp = 0) /\ x.wokenUp <= x.maxWakes
    BY <1>1, <1>3
  <1> HIDE DEF x
  <1>6. /\ Total(Allowances') = maxAllowed' /\ Total(Woke') = Total(Woke)
        /\ Total(Woke) \in Nat /\ Allowance(k) <= maxAllowed
        /\ IsFiniteSet(Shares(Allowances')) /\ waker' \in [Wakers -> WakerRecords]
    <2>1. /\ Total(Allowances') = maxAllowed - Allowance(k) + a
          /\ Total(Woke') = Total(Woke) - r.wokenUp + x.wokenUp
          /\ Total(Woke) \in Nat /\ Allowance(k) <= maxAllowed
          /\ IsFiniteSet(Shares(Allowances')) /\ waker' \in [Wakers -> WakerRecords]
      BY <1>3, <1>5, WakerChanges, Zenon
    <2> QED
      BY <1>1, <1>3, <1>4, <2>1
  <1>7. ~gaveUp => ~failed'
    <2>1. SUFFICES ASSUME ~gaveUp PROVE ~failed'
      OBVIOUS
    <2>2. Cardinality(InFlight) + unmatched = Total(Woke)
      BY <2>1, Zenon DEF FutexIInv, WakesBalance
    <2>3. Total(Woke') <= Total(Allowances')
      <3>1. Woke' \in [Wakers -> Nat] /\ Allowances' \in [Wakers -> Nat]
        BY <1>6 DEF Woke, Allowances, Allowance, WakerRecords
      <3>2. \A j \in Wakers : Woke'[j] <= Allowances'[j]
        <4>1. ASSUME NEW j \in Wakers PROVE Woke'[j] <= Allowances'[j]
          <5>1. waker'[j].wokenUp \in Nat /\ waker'[j].wokenUp <= waker'[j].maxWakes
            <6>1. CASE j = k
              <7>1. waker'[j] = x
                BY <1>3, <6>1 DEF FutexIInv, FutexTypes
              <7> QED
                BY <1>1, <1>3, <7>1
            <6>2. CASE j # k
              <7>1. waker'[j] = waker[j]
                BY <1>3, <6>2 DEF FutexIInv, FutexTypes
              <7> QED
                BY <7>1, WakerFacts, Zenon
            <6> QED
              BY <6>1, <6>2
          <5> QED
            BY <5>1 DEF Woke, Allowances, Allowance
        <4> QED
          BY <4>1
      <3> QED
        BY <1>6, <3>1, <3>2, TotalMonotone
    <2>4. unmatched <= maxAllowed'
      BY <1>1, <1>4, <1>6, <2>2, <2>3
    <2>5. ~(r.maxWakes > maxAllowed) /\ ~(r.wokenUp > r.maxWakes) /\ ~(unmatched > maxAllowed')
      BY <1>1, <1>2, <1>4, <1>6, <2>4
    <2> QED
      BY <2>5, Zenon DEF WakeJoin
  <1>8. Cardinality(InFlight') + unmatched'
          = (Cardinality(InFlight) + unmatched) - r.wokenUp + x.wokenUp
    BY <1>1, <1>3, <1>4
  <1>9. ~gaveUp' => ~gaveUp /\ ~failed'
    BY <1>4, <1>7
  <1> HIDE DEF a, r
  <1> QED
    BY <1>1, <1>3, <1>4, <1>5, <1>8, <1>9, WakerStep, Zenon DEF r

(* The kernel ends the waits of W: these threads are in flight now. *)
LEMMA KernelWakeIInv ==
    ASSUME FutexIInv, NEW k \in Wakers, NEW W \in SUBSET Waiters, KernelWake(k, W)
    PROVE  FutexIInv'
  <1> DEFINE r == waker[k]
             x == [r EXCEPT !.pc = "end", !.wokenUp = Cardinality(W)]
             a == r.maxWakes
  <1>1. /\ r \in WakerRecords /\ r.wokenUp \in Nat /\ r.maxWakes \in Nat
        /\ r.wokenUp <= r.maxWakes /\ (r.pc \in {"app", "start"} => r.wokenUp = 0)
        /\ Allowance(k) \in Nat /\ maxAllowed \in Nat /\ unmatched \in Nat
        /\ failed \in BOOLEAN /\ gaveUp \in BOOLEAN /\ (~gaveUp => ~failed)
        /\ waiter \in [Waiters -> {"app", "wait", "woken", "joining"}]
        /\ Cardinality(InFlight) \in Nat
    BY WakerFacts, Zenon
  <1>2. /\ r.pc = "start" /\ r.wokenUp = 0 /\ Allowance(k) = r.maxWakes
        /\ IsFiniteSet(W) /\ Cardinality(W) \in Nat /\ Cardinality(W) <= r.maxWakes
    <2>1. IsFiniteSet(W) /\ Cardinality(W) \in Nat
      BY FutexAssumption, FS_Subset, FS_CardinalityType
    <2> QED
      BY <1>1, <2>1 DEF KernelWake, Allowance
  <1>3. /\ x \in WakerRecords /\ waker' = [waker EXCEPT ![k] = x]
        /\ x.pc = "end" /\ x.maxWakes = r.maxWakes /\ x.wokenUp = Cardinality(W)
    <2>1. waker' = [waker EXCEPT ![k] = x]
      BY DEF KernelWake
    <2> QED
      BY <1>1, <1>2, <2>1 DEF WakerRecords
  <1>4. /\ a \in Nat /\ a = (IF x.pc \in {"start", "end"} THEN x.maxWakes ELSE x.wokenUp)
        /\ (x.pc \in {"app", "start"} => x.wokenUp = 0) /\ x.wokenUp <= x.maxWakes
    BY <1>1, <1>2, <1>3
  <1>5. /\ maxAllowed' = maxAllowed - Allowance(k) + a
        /\ unmatched' = unmatched /\ gaveUp' = gaveUp /\ failed' = failed
        /\ waiter' \in [Waiters -> {"app", "wait", "woken", "joining"}]
    BY <1>1, <1>2 DEF KernelWake
  <1>6. InFlight' = InFlight \cup W /\ InFlight \cap W = {}
    BY DEF KernelWake, InFlight
  <1>7. Cardinality(InFlight') = Cardinality(InFlight) + Cardinality(W)
    <2>1. Cardinality(InFlight \cup W)
            = Cardinality(InFlight) + Cardinality(W) - Cardinality(InFlight \cap W)
      BY <1>2, InFlightFinite, FS_Union
    <2>2. Cardinality(InFlight \cap W) = 0
      BY <1>6, FS_EmptySet, Zenon
    <2> QED
      BY <1>1, <1>2, <1>6, <2>1, <2>2
  <1>8. Cardinality(InFlight') + unmatched'
          = (Cardinality(InFlight) + unmatched) - r.wokenUp + x.wokenUp
    BY <1>1, <1>2, <1>3, <1>5, <1>7
  <1>9. ~gaveUp' => ~gaveUp /\ ~failed'
    BY <1>1, <1>5
  <1> HIDE DEF x, a
  <1> QED
    BY <1>1, <1>3, <1>4, <1>5, <1>8, <1>9, WakerStep, Zenon


(* The waker has seen enough joins: it takes the lock. *)
LEMMA SeesEnoughIInv ==
    ASSUME FutexIInv, NEW k \in Wakers, SeesEnough(k)
    PROVE  FutexIInv'
  <1> DEFINE r == waker[k]
             x == [r EXCEPT !.pc = "lock"]
             a == r.wokenUp
  <1>1. /\ r \in WakerRecords /\ r.wokenUp \in Nat /\ r.maxWakes \in Nat
        /\ r.wokenUp <= r.maxWakes /\ (r.pc \in {"app", "start"} => r.wokenUp = 0)
        /\ Allowance(k) \in Nat /\ maxAllowed \in Nat /\ unmatched \in Nat
        /\ failed \in BOOLEAN /\ gaveUp \in BOOLEAN /\ (~gaveUp => ~failed)
        /\ waiter \in [Waiters -> {"app", "wait", "woken", "joining"}]
        /\ Cardinality(InFlight) \in Nat
    BY WakerFacts, Zenon
  <1>2. r.pc = "match" /\ Allowance(k) = r.wokenUp
    BY DEF SeesEnough, Allowance
  <1>3. /\ x \in WakerRecords /\ waker' = [waker EXCEPT ![k] = x]
        /\ x.pc = "lock" /\ x.maxWakes = r.maxWakes /\ x.wokenUp = r.wokenUp
    <2>1. waker' = [waker EXCEPT ![k] = x]
      BY DEF SeesEnough
    <2> QED
      BY <1>1, <2>1, WakerGoesTo
  <1>4. /\ a \in Nat /\ a = (IF x.pc \in {"start", "end"} THEN x.maxWakes ELSE x.wokenUp)
        /\ (x.pc \in {"app", "start"} => x.wokenUp = 0) /\ x.wokenUp <= x.maxWakes
    BY <1>1, <1>2, <1>3
  <1>5. /\ maxAllowed' = maxAllowed - Allowance(k) + a /\ InFlight' = InFlight
        /\ unmatched' = unmatched /\ gaveUp' = gaveUp /\ failed' = failed /\ waiter' = waiter
    BY <1>1, <1>2 DEF SeesEnough, InFlight
  <1>6. Cardinality(InFlight') + unmatched'
          = (Cardinality(InFlight) + unmatched) - r.wokenUp + x.wokenUp
    BY <1>1, <1>3, <1>5
  <1> HIDE DEF x, a
  <1> QED
    BY <1>1, <1>3, <1>4, <1>5, <1>6, WakerStep, Zenon


(* The waker goes to sleep, or wakes up to look again. *)
LEMMA BackoffIInv ==
    ASSUME FutexIInv, NEW k \in Wakers, NEW l \in {"sleep", "match"},
           waker[k].pc \in {"match", "sleep", "lock"}, waker' = [waker EXCEPT ![k].pc = l],
           UNCHANGED <<maxAllowed, unmatched, waiter, failed, gaveUp>>
    PROVE  FutexIInv'
  <1> DEFINE r == waker[k]
             x == [r EXCEPT !.pc = l]
             a == r.wokenUp
  <1>1. /\ r \in WakerRecords /\ r.wokenUp \in Nat /\ r.maxWakes \in Nat
        /\ r.wokenUp <= r.maxWakes /\ (r.pc \in {"app", "start"} => r.wokenUp = 0)
        /\ Allowance(k) \in Nat /\ maxAllowed \in Nat /\ unmatched \in Nat
        /\ failed \in BOOLEAN /\ gaveUp \in BOOLEAN /\ (~gaveUp => ~failed)
        /\ waiter \in [Waiters -> {"app", "wait", "woken", "joining"}]
        /\ Cardinality(InFlight) \in Nat
    BY WakerFacts, Zenon
  <1>2. Allowance(k) = r.wokenUp
    BY DEF Allowance
  <1>3. /\ x \in WakerRecords /\ waker' = [waker EXCEPT ![k] = x]
        /\ x.pc \in {"sleep", "match"} /\ x.maxWakes = r.maxWakes /\ x.wokenUp = r.wokenUp
    <2>1. waker' = [waker EXCEPT ![k] = x]
      OBVIOUS
    <2>2. l \in {"app", "start", "end", "match", "sleep", "lock"}
      OBVIOUS
    <2>3. r \in WakerRecords
      BY <1>1
    <2>4. /\ x \in WakerRecords /\ x.pc = l /\ x.maxWakes = r.maxWakes /\ x.wokenUp = r.wokenUp
      BY <2>2, <2>3, WakerGoesTo
    <2> QED
      BY <2>1, <2>4
  <1>4. /\ a \in Nat /\ a = (IF x.pc \in {"start", "end"} THEN x.maxWakes ELSE x.wokenUp)
        /\ (x.pc \in {"app", "start"} => x.wokenUp = 0) /\ x.wokenUp <= x.maxWakes
    BY <1>1, <1>2, <1>3
  <1>5. /\ maxAllowed' = maxAllowed - Allowance(k) + a /\ InFlight' = InFlight
        /\ unmatched' = unmatched /\ gaveUp' = gaveUp /\ failed' = failed /\ waiter' = waiter
    BY <1>1, <1>2 DEF InFlight
  <1>6. Cardinality(InFlight') + unmatched'
          = (Cardinality(InFlight) + unmatched) - r.wokenUp + x.wokenUp
    BY <1>1, <1>3, <1>5
  <1>7. /\ waiter' \in [Waiters -> {"app", "wait", "woken", "joining"}]
        /\ failed' \in BOOLEAN /\ gaveUp' \in BOOLEAN /\ unmatched' \in Nat
        /\ ~gaveUp' => ~gaveUp /\ ~failed'
    BY <1>1, <1>5
  <1> HIDE DEF x, a
  <1> QED
    BY <1>3, <1>4, <1>5, <1>6, <1>7, WakerStep

(* The threads the wake woke are matched, or there are not enough any more. *)
LEMMA MatchIInv ==
    ASSUME FutexIInv, NEW k \in Wakers, Match(k)
    PROVE  FutexIInv'
  <1> DEFINE r == waker[k]
             x == Idle
             a == 0
  <1>1. /\ r \in WakerRecords /\ r.wokenUp \in Nat /\ r.maxWakes \in Nat
        /\ r.wokenUp <= r.maxWakes /\ (r.pc \in {"app", "start"} => r.wokenUp = 0)
        /\ Allowance(k) \in Nat /\ maxAllowed \in Nat /\ unmatched \in Nat
        /\ failed \in BOOLEAN /\ gaveUp \in BOOLEAN /\ (~gaveUp => ~failed)
        /\ waiter \in [Waiters -> {"app", "wait", "woken", "joining"}]
        /\ Cardinality(InFlight) \in Nat
    BY WakerFacts, Zenon
  <1>2. r.pc = "lock" /\ Allowance(k) = r.wokenUp
    BY DEF Match, Allowance
  <1>3. CASE ~Recheck(k)
    <2>1. /\ waker' = [waker EXCEPT ![k].pc = "match"]
          /\ UNCHANGED <<maxAllowed, unmatched, waiter, failed, gaveUp>>
      BY <1>3 DEF Match
    <2> QED
      BY <1>2, <2>1, BackoffIInv
  <1>4. CASE Recheck(k)
    <2>1. /\ x \in WakerRecords /\ waker' = [waker EXCEPT ![k] = x]
          /\ x.pc = "app" /\ x.maxWakes = 0 /\ x.wokenUp = 0
      BY <1>4 DEF Match, Idle, WakerRecords
    <2>2. r.wokenUp <= unmatched /\ unmatched' = unmatched - r.wokenUp
      BY <1>4 DEF Match, Recheck, Enough, Matched
    <2>3. /\ maxAllowed' = maxAllowed - Allowance(k) + a /\ InFlight' = InFlight
          /\ unmatched' \in Nat /\ gaveUp' = gaveUp /\ failed' = failed /\ waiter' = waiter
      BY <1>1, <1>2, <1>4, <2>2 DEF Match, InFlight
    <2>4. Cardinality(InFlight') + unmatched'
            = (Cardinality(InFlight) + unmatched) - r.wokenUp + x.wokenUp
      BY <1>1, <2>1, <2>2, <2>3
    <2>5. /\ a \in Nat /\ a = (IF x.pc \in {"start", "end"} THEN x.maxWakes ELSE x.wokenUp)
          /\ (x.pc \in {"app", "start"} => x.wokenUp = 0) /\ x.wokenUp <= x.maxWakes
      BY <2>1
    <2> HIDE DEF x, a
    <2> QED
      BY <1>1, <2>1, <2>3, <2>4, <2>5, WakerStep, Zenon
  <1> QED
    BY <1>3, <1>4


(* A waker that gives up takes its allowance back; the balance is given up with it. *)
LEMMA GiveUpIInv ==
    ASSUME FutexIInv, NEW k \in Wakers, GiveUp(k)
    PROVE  FutexIInv'
  <1> DEFINE r == waker[k]
             x == Idle
             a == 0
  <1>1. /\ r \in WakerRecords /\ r.wokenUp \in Nat /\ r.maxWakes \in Nat
        /\ r.wokenUp <= r.maxWakes /\ (r.pc \in {"app", "start"} => r.wokenUp = 0)
        /\ Allowance(k) \in Nat /\ maxAllowed \in Nat /\ unmatched \in Nat
        /\ failed \in BOOLEAN /\ gaveUp \in BOOLEAN /\ (~gaveUp => ~failed)
        /\ waiter \in [Waiters -> {"app", "wait", "woken", "joining"}]
        /\ Cardinality(InFlight) \in Nat
    BY WakerFacts, Zenon
  <1>2. Allowance(k) = r.wokenUp
    BY DEF GiveUp, Allowance
  <1>3. /\ x \in WakerRecords /\ waker' = [waker EXCEPT ![k] = x]
        /\ x.pc = "app" /\ x.maxWakes = 0 /\ x.wokenUp = 0
    BY DEF GiveUp, Idle, WakerRecords
  <1>4. /\ a \in Nat /\ a = (IF x.pc \in {"start", "end"} THEN x.maxWakes ELSE x.wokenUp)
        /\ (x.pc \in {"app", "start"} => x.wokenUp = 0) /\ x.wokenUp <= x.maxWakes
    BY <1>1, <1>2, <1>3
  <1>5. /\ maxAllowed' = maxAllowed - Allowance(k) + a
        /\ unmatched' \in Nat /\ gaveUp' = TRUE /\ failed' = failed /\ waiter' = waiter
    BY <1>1, <1>2 DEF GiveUp
  <1>6. gaveUp' \in BOOLEAN /\ ~(~gaveUp')
    BY <1>5
  <1> HIDE DEF x, a
  <1> QED
    BY <1>1, <1>3, <1>4, <1>5, <1>6, WakerStep, Zenon

(* A step of a waiter leaves the wakers alone: the sums are the same. *)
LEMMA WaiterStep ==
    ASSUME FutexIInv, UNCHANGED <<maxAllowed, waker, failed, gaveUp>>,
           waiter' \in [Waiters -> {"app", "wait", "woken", "joining"}], unmatched' \in Nat,
           ~gaveUp => Cardinality(InFlight') + unmatched' = Cardinality(InFlight) + unmatched
    PROVE  FutexIInv'
  <1>1. Allowances' = Allowances /\ Woke' = Woke
    BY DEF Allowances, Allowance, Woke
  <1>2. FutexTypes' /\ WakesBounded'
    BY DEF FutexIInv, FutexTypes, WakesBounded
  <1>3. IsFiniteSet(Shares(Allowances')) /\ AllowanceExact'
    <2>1. /\ IsFiniteSet(Shares(Allowances)) /\ maxAllowed = Total(Allowances)
          /\ maxAllowed' = maxAllowed
      BY Zenon DEF FutexIInv, AllowanceExact, Allowances
    <2>2. IsFiniteSet(Shares(Allowances')) /\ maxAllowed' = Total(Allowances')
      BY <1>1, <2>1, Zenon
    <2> QED
      BY <2>2, Zenon DEF AllowanceExact, Allowances
  <1>4. WakesBalance'
    <2>1. SUFFICES ASSUME ~gaveUp PROVE Cardinality(InFlight') + unmatched' = Total(Woke')
      BY Zenon DEF WakesBalance
    <2>2. Cardinality(InFlight) + unmatched = Total(Woke)
      BY <2>1, Zenon DEF FutexIInv, WakesBalance
    <2>3. Cardinality(InFlight') + unmatched' = Cardinality(InFlight) + unmatched
      BY <2>1
    <2> QED
      BY <1>1, <2>2, <2>3, Zenon
  <1>5. NoFutexAssertFails'
    BY DEF FutexIInv, NoFutexAssertFails
  <1> QED
    BY <1>2, <1>3, <1>4, <1>5, Zenon DEF FutexIInv

(* A wait starts, or a woken thread is on its way: as many are in flight as before. *)
LEMMA FutexWaitIInv ==
    ASSUME FutexIInv, NEW w \in Waiters, FutexWait(w) \/ WaitWoken(w)
    PROVE  FutexIInv'
  <1>1. /\ waiter \in [Waiters -> {"app", "wait", "woken", "joining"}] /\ unmatched \in Nat
    BY Zenon DEF FutexIInv, FutexTypes
  <1>2. InFlight' = InFlight
    BY <1>1 DEF FutexWait, WaitWoken, InFlight
  <1>3. /\ UNCHANGED <<maxAllowed, waker, failed, gaveUp>> /\ unmatched' = unmatched
        /\ waiter' \in [Waiters -> {"app", "wait", "woken", "joining"}]
    BY <1>1 DEF FutexWait, WaitWoken
  <1> QED
    BY <1>1, <1>2, <1>3, WaiterStep

(* A join in a balanced state is within the allowance, and is counted. *)
LEMMA WaitJoinIInv ==
    ASSUME FutexIInv, NEW w \in Waiters, WaitJoin(w)
    PROVE  FutexIInv'
  <1>1. /\ waiter \in [Waiters -> {"app", "wait", "woken", "joining"}]
        /\ unmatched \in Nat /\ maxAllowed \in Nat
    BY Zenon DEF FutexIInv, FutexTypes
  <1>2. w \in InFlight /\ InFlight' = InFlight \ {w}
    BY <1>1 DEF WaitJoin, InFlight
  <1>3. Cardinality(InFlight') = Cardinality(InFlight) - 1 /\ Cardinality(InFlight') \in Nat
    <2>1. IsFiniteSet(InFlight \ {w}) /\ Cardinality(InFlight \ {w}) = Cardinality(InFlight) - 1
      BY <1>2, InFlightFinite, FS_RemoveElement
    <2> QED
      BY <1>2, <2>1, FS_CardinalityType
  <1>4. /\ UNCHANGED <<maxAllowed, waker, failed, gaveUp>> /\ unmatched' \in Nat
        /\ waiter' \in [Waiters -> {"app", "wait", "woken", "joining"}]
    BY <1>1 DEF WaitJoin, Counted
  <1>5. ASSUME ~gaveUp
        PROVE  Cardinality(InFlight') + unmatched' = Cardinality(InFlight) + unmatched
    <2>1. Cardinality(InFlight) + unmatched = Total(Woke)
      BY <1>5, Zenon DEF FutexIInv, WakesBalance
    <2>2. Total(Woke) \in Nat /\ Total(Woke) <= maxAllowed
      BY WokeWithinAllowance, Zenon
    <2>3. Cardinality(InFlight) \in Nat
      BY InFlightFinite
    <2>4. unmatched < maxAllowed
      BY <1>1, <1>3, <2>1, <2>2, <2>3
    <2>5. unmatched' = unmatched + 1
      BY <1>1, <2>4 DEF WaitJoin, Counted
    <2> QED
      BY <1>1, <1>3, <2>3, <2>5
  <1> QED
    BY <1>4, <1>5, WaiterStep

(* Every step keeps the invariant. *)
LEMMA FutexNextIInv ==
    ASSUME FutexIInv, [FutexNext]_futexVars
    PROVE  FutexIInv'
  <1>1. CASE UNCHANGED futexVars
    <2>1. UNCHANGED <<maxAllowed, unmatched, waker, waiter, failed, gaveUp>>
      BY <1>1 DEF futexVars
    <2>2. InFlight' = InFlight
      BY <2>1 DEF InFlight
    <2> QED
      BY <2>1, <2>2, WaiterStep DEF FutexIInv, FutexTypes
  <1>2. ASSUME NEW k \in Wakers, NEW n \in MaxWakes, WakeStart(k, n)
        PROVE  FutexIInv'
    BY <1>2, WakeStartIInv
  <1>3. ASSUME NEW k \in Wakers, NEW W \in SUBSET Waiters, KernelWake(k, W)
        PROVE  FutexIInv'
    BY <1>3, KernelWakeIInv
  <1>4. ASSUME NEW k \in Wakers, Backoff(k)
        PROVE  FutexIInv'
    BY <1>4, BackoffIInv DEF Backoff
  <1>5. ASSUME NEW k \in Wakers, WakeJoin(k) \/ SeesEnough(k) \/ Match(k) \/ GiveUp(k)
        PROVE  FutexIInv'
    BY <1>5, WakeJoinIInv, SeesEnoughIInv, MatchIInv, GiveUpIInv
  <1>6. ASSUME NEW w \in Waiters, FutexWait(w) \/ WaitWoken(w) \/ WaitJoin(w)
        PROVE  FutexIInv'
    BY <1>6, FutexWaitIInv, WaitJoinIInv
  <1> QED
    BY <1>1, <1>2, <1>3, <1>4, <1>5, <1>6, Zenon DEF FutexNext

(* The two counters of the futex matching are exact in every reachable state:       *)
(* maxAllowedFutexWakeups is what the wakes in progress account for, and until a      *)
(* waker gives up the threads in flight and the joins not yet matched are those the   *)
(* wakes wait for, so that the assertions of futexWakeJoin hold.                     *)
THEOREM FutexExact == FutexSpec => []FutexCountersExact
  <1>1. FutexInit => FutexIInv
    BY FutexInitIInv
  <1>2. FutexIInv /\ [FutexNext]_futexVars => FutexIInv'
    BY FutexNextIInv
  <1>3. FutexIInv => FutexCountersExact
    BY DEF FutexIInv, FutexCountersExact, FutexTypeOK, FutexTypes, WakerRecords
  <1> QED
    BY <1>1, <1>2, <1>3, PTL DEF FutexSpec
-----------------------------------------------------------------------------
(* A nonempty set of natural numbers has a least element. *)
LEMMA NatMin ==
    ASSUME NEW I \in SUBSET Nat, I # {}
    PROVE  \E m \in I : \A k \in I : m <= k
  <1>1. PICK R : /\ IsWellFoundedOn(R, Nat)
                 /\ \A x, y \in Nat : y < x => <<y, x>> \in R
    <2>1. IsWellFoundedOn(OpToRel(<, Nat), Nat)
      BY NatLessThanWellFounded
    <2>2. \A x, y \in Nat : y < x => <<y, x>> \in OpToRel(<, Nat)
      BY DEF OpToRel
    <2> QED
      BY <2>1, <2>2, Zenon
  <1>2. \E x \in I : \A y \in I : ~ (<<y, x>> \in R)
    BY <1>1, WFMin, Zenon
  <1>3. PICK m \in I : \A y \in I : ~ (<<y, m>> \in R)
    BY <1>2
  <1>4. \A y \in I : ~ (y < m)
    BY <1>1, <1>3
  <1> QED
    BY <1>4

(* Min is the least element. *)
LEMMA MinIsLeast ==
    ASSUME NEW I \in SUBSET Nat, I # {}
    PROVE  Min(I) \in I /\ \A k \in I : Min(I) <= k
  <1>1. PICK m \in I : \A k \in I : m <= k
    BY NatMin
  <1> QED
    BY <1>1 DEF Min

(* A list of elements of A, each at most once. *)
IsList(q, A) == q \in Seq(A) /\ IsInjective(q)

(* What comes later in r came later in q. *)
Thins(r, q) ==
    \A i, j \in DOMAIN r : i < j =>
        \E k, l \in DOMAIN q : k < l /\ r[i] = q[k] /\ r[j] = q[l]

(* A part of a sequence: the k elements behind the first d. *)
LEMMA Part ==
    ASSUME NEW A, NEW q \in Seq(A), NEW d \in Nat, NEW k \in Nat, d + k <= Len(q),
           NEW m, NEW n, m = d + 1, n = d + k, NEW r, r = SubSeq(q, m, n)
    PROVE  r \in Seq(A) /\ Len(r) = k /\ \A i \in 1 .. k : r[i] = q[d + i]
  <1>1. m \in Int /\ n \in Int /\ \A i \in m .. n : q[i] \in A
    OBVIOUS
  <1>2. n - m + 1 = k /\ \A i \in 1 .. k : m + i - 1 = d + i
    OBVIOUS
  <1>3. /\ SubSeq(q, m, n) \in Seq(A)
        /\ Len(SubSeq(q, m, n)) = IF m <= n THEN n - m + 1 ELSE 0
        /\ \A i \in 1 .. n - m + 1 : SubSeq(q, m, n)[i] = q[m + i - 1]
    BY <1>1, SubSeqProperties
  <1>4. Len(SubSeq(q, m, n)) = k
    BY <1>2, <1>3
  <1>5. \A i \in 1 .. k : SubSeq(q, m, n)[i] = q[d + i]
    BY <1>2, <1>3
  <1> QED
    BY <1>3, <1>4, <1>5

(* A sequence of m elements before one of n. *)
LEMMA Joining ==
    ASSUME NEW A, NEW a \in Seq(A), NEW b \in Seq(A), NEW m \in Nat, NEW n \in Nat,
           Len(a) = m, Len(b) = n, NEW k, k = m + n,
           NEW r, r = a \o b
    PROVE  /\ r \in Seq(A) /\ Len(r) = k
           /\ \A i \in 1 .. k : r[i] = IF i <= m THEN a[i] ELSE b[i - m]
  BY ConcatProperties

(* FirstIn finds an element of the set if there is one. *)
LEMMA FirstInFinds ==
    ASSUME NEW A, NEW q \in Seq(A), NEW D, None \notin A
    PROVE  /\ FirstIn(q, D) # None => FirstIn(q, D) \in ToSet(q) \cap D
           /\ FirstIn(q, D) = None => ToSet(q) \cap D = {}
  <1> DEFINE I == {i \in DOMAIN q : q[i] \in D}
  <1>1. DOMAIN q = 1 .. Len(q) /\ Len(q) \in Nat /\ \A i \in DOMAIN q : q[i] \in A
    OBVIOUS
  <1>2. I \in SUBSET Nat
    BY <1>1
  <1>3. FirstIn(q, D) = IF I = {} THEN None ELSE q[Min(I)]
    BY DEF FirstIn
  <1>4. CASE I = {}
    BY <1>3, <1>4 DEF ToSet
  <1>5. CASE I # {}
    <2>1. Min(I) \in I
      BY <1>2, <1>5, MinIsLeast
    <2> HIDE DEF I
    <2>2. FirstIn(q, D) = q[Min(I)]
      BY <1>3, <1>5
    <2>3. Min(I) \in DOMAIN q /\ q[Min(I)] \in D
      BY <2>1 DEF I
    <2> QED
      BY <1>1, <2>2, <2>3 DEF ToSet
  <1> QED
    BY <1>4, <1>5

(* Appending a new element. *)
LEMMA AppendList ==
    ASSUME NEW A, NEW q, IsList(q, A), NEW e \in A, e \notin ToSet(q)
    PROVE  IsList(Append(q, e), A) /\ ToSet(Append(q, e)) = ToSet(q) \cup {e}
  <1> DEFINE r == Append(q, e)
  <1>1. q \in Seq(A) /\ Len(q) \in Nat /\ DOMAIN q = 1 .. Len(q)
    BY DEF IsList
  <1>2. /\ r \in Seq(A) /\ DOMAIN r = 1 .. Len(q) + 1
        /\ \A i \in 1 .. Len(q) : r[i] = q[i]
        /\ r[Len(q) + 1] = e
    BY <1>1, AppendProperties
  <1> HIDE DEF r
  <1>3. \A i \in 1 .. Len(q) + 1 : i \in 1 .. Len(q) \/ i = Len(q) + 1
    BY <1>1
  <1>4. \A i \in 1 .. Len(q) : q[i] # e
    BY <1>1 DEF ToSet
  <1>5. IsInjective(r)
    BY <1>1, <1>2, <1>3, <1>4 DEF IsList, IsInjective
  <1>6. ToSet(r) = ToSet(q) \cup {e}
    BY <1>1, <1>2, <1>3 DEF ToSet
  <1> QED
    BY <1>2, <1>5, <1>6 DEF IsList, r

(* Deleting one element. *)
LEMMA RemoveList ==
    ASSUME NEW A, NEW q, IsList(q, A), NEW e
    PROVE  /\ IsList(RemoveFirst(q, e), A) /\ ToSet(RemoveFirst(q, e)) = ToSet(q) \ {e}
           /\ Thins(RemoveFirst(q, e), q)
  <1> DEFINE I == {i \in 1 .. Len(q) : q[i] = e}
             n == Min(I)
             r == RemoveFirst(q, e)
  <1>1. q \in Seq(A) /\ Len(q) \in Nat /\ DOMAIN q = 1 .. Len(q)
    BY DEF IsList
  <1>2. CASE I = {}
    <2>1. r = q /\ e \notin ToSet(q)
      BY <1>1, <1>2 DEF RemoveFirst, ToSet
    <2>2. Thins(q, q)
      BY DEF Thins
    <2> QED
      BY <2>1, <2>2
  <1>3. CASE I # {}
    <2>1. n \in I
      <3>1. I \in SUBSET Nat
        BY <1>1
      <3> QED
        BY <1>3, <3>1, MinIsLeast
    <2>2. n \in 1 .. Len(q) /\ q[n] = e
      BY <2>1
    <2>3. SelectInSeq(q, LAMBDA v : v = e) = n
      BY <1>3 DEF SelectInSeq
    <2>4. r = SubSeq(q, 1, n - 1) \o SubSeq(q, n + 1, Len(q))
      BY <1>3, <2>3 DEF RemoveFirst, RemoveAt
    <2> HIDE DEF I, n, r
    <2> DEFINE a == SubSeq(q, 1, n - 1)
               b == SubSeq(q, n + 1, Len(q))
    <2>5. /\ a \in Seq(A) /\ Len(a) = n - 1 /\ \A i \in 1 .. n - 1 : a[i] = q[i]
          /\ b \in Seq(A) /\ Len(b) = Len(q) - n /\ \A i \in 1 .. Len(q) - n : b[i] = q[n + i]
      <3>1. a \in Seq(A) /\ Len(a) = n - 1 /\ \A i \in 1 .. n - 1 : a[i] = q[i]
        <4>1. 0 \in Nat /\ n - 1 \in Nat /\ 1 = 0 + 1 /\ n - 1 = 0 + (n - 1) /\ 0 + (n - 1) <= Len(q)
              /\ \A i \in 1 .. n - 1 : 0 + i = i
          BY <1>1, <2>2
        <4>2. /\ a \in Seq(A) /\ Len(a) = n - 1
              /\ \A i \in 1 .. n - 1 : a[i] = q[0 + i]
          BY <1>1, <4>1, Part
        <4> QED
          BY <4>1, <4>2
      <3>2. b \in Seq(A) /\ Len(b) = Len(q) - n /\ \A i \in 1 .. Len(q) - n : b[i] = q[n + i]
        <4>1. n \in Nat /\ Len(q) - n \in Nat /\ n + (Len(q) - n) = Len(q)
              /\ n + (Len(q) - n) <= Len(q)
          BY <1>1, <2>2
        <4> DEFINE k == Len(q) - n
                   m == n + 1
        <4>2. k \in Nat /\ Len(q) = n + k /\ n + k <= Len(q) /\ m = n + 1
          BY <4>1
        <4>3. b = SubSeq(q, m, Len(q))
          OBVIOUS
        <4> HIDE DEF k, m, b
        <4>4. b \in Seq(A) /\ Len(b) = k /\ \A i \in 1 .. k : b[i] = q[n + i]
          BY <1>1, <4>1, <4>2, <4>3, Part
        <4> QED
          BY <4>4 DEF k
      <3> QED
        BY <3>1, <3>2
    <2> HIDE DEF a, b
    <2>6. /\ r \in Seq(A) /\ DOMAIN r = 1 .. Len(q) - 1
          /\ \A i \in 1 .. Len(q) - 1 : r[i] = IF i < n THEN q[i] ELSE q[i + 1]
      <3>1. n - 1 \in Nat /\ Len(q) - n \in Nat /\ Len(q) - 1 = (n - 1) + (Len(q) - n)
        BY <1>1, <2>2
      <3>2. r = a \o b
        BY <2>4 DEF a, b
      <3>3. /\ r \in Seq(A) /\ Len(r) = Len(q) - 1
            /\ \A i \in 1 .. Len(q) - 1 : r[i] = IF i <= n - 1 THEN a[i] ELSE b[i - (n - 1)]
        <4> DEFINE k == n - 1
                   l == Len(q) - n
                   m == Len(q) - 1
        <4>1. k \in Nat /\ l \in Nat /\ m = k + l /\ Len(a) = k /\ Len(b) = l
              /\ a \in Seq(A) /\ b \in Seq(A)
          BY <2>5, <3>1
        <4> HIDE DEF k, l, m
        <4>2. /\ a \o b \in Seq(A) /\ Len(a \o b) = Len(a) + Len(b)
              /\ \A i \in 1 .. Len(a) + Len(b) : (a \o b)[i] = IF i <= Len(a) THEN a[i] ELSE b[i - Len(a)]
          BY <4>1, ConcatProperties
        <4>3. r \in Seq(A) /\ Len(r) = m /\ \A i \in 1 .. m : r[i] = IF i <= k THEN a[i] ELSE b[i - k]
          BY <3>2, <4>1, <4>2, Zenon
        <4> QED
          BY <4>3 DEF k, m
      <3>4. \A i \in 1 .. Len(q) - 1 : ~ (i < n) =>
               i - (n - 1) \in 1 .. Len(q) - n /\ n + (i - (n - 1)) = i + 1
        BY <1>1, <2>2
      <3>5. ASSUME NEW i \in 1 .. Len(q) - 1
            PROVE  r[i] = IF i < n THEN q[i] ELSE q[i + 1]
        <4>1. CASE i < n
          BY <1>1, <2>2, <2>5, <3>3, <4>1
        <4>2. CASE ~ (i < n)
          BY <1>1, <2>2, <2>5, <3>3, <3>4, <4>2
        <4> QED
          BY <4>1, <4>2
      <3> QED
        BY <3>3, <3>5
    <2> DEFINE p(i) == IF i < n THEN i ELSE i + 1
    <2>7. \A i \in DOMAIN r : p(i) \in DOMAIN q /\ p(i) # n /\ r[i] = q[p(i)]
      BY <1>1, <2>2, <2>6
    <2>8. \A i, j \in DOMAIN r : i < j => p(i) < p(j)
      BY <1>1, <2>2, <2>6
    <2>9. \A k \in DOMAIN q \ {n} : \E i \in DOMAIN r : p(i) = k
      <3>1. TAKE k \in DOMAIN q \ {n}
      <3>2. CASE k < n
        BY <1>1, <2>2, <2>6, <3>2
      <3>3. CASE k > n
        <4>1. k - 1 \in DOMAIN r /\ p(k - 1) = k
          BY <1>1, <2>2, <2>6, <3>3
        <4> QED
          BY <4>1
      <3> QED
        BY <1>1, <2>2, <3>2, <3>3
    <2>10. \A i, j \in DOMAIN r : i # j => i < j \/ j < i
      BY <1>1, <2>6
    <2>11. \A i \in DOMAIN q : i # n => q[i] # e
      BY <1>1, <2>2 DEF IsList, IsInjective
    <2> HIDE DEF p
    <2>12. Thins(r, q)
      BY <2>7, <2>8 DEF Thins
    <2>13. IsInjective(r)
      <3>1. \A i, j \in DOMAIN r : i # j => p(i) # p(j)
        <4>1. TAKE i, j \in DOMAIN r
        <4>2. p(i) \in Nat /\ p(j) \in Nat
          BY <1>1, <2>7
        <4> QED
          BY <2>8, <2>10, <4>2
      <3> QED
        BY <2>7, <3>1 DEF IsList, IsInjective
    <2>14. ToSet(r) = ToSet(q) \ {e}
      <3>1. \A v \in ToSet(r) : v \in ToSet(q) /\ v # e
        BY <2>7, <2>11 DEF ToSet
      <3>2. \A v \in ToSet(q) : v # e => v \in ToSet(r)
        BY <2>2, <2>7, <2>9 DEF ToSet
      <3> QED
        BY <2>2, <3>1, <3>2
    <2> QED
      BY <2>6, <2>12, <2>13, <2>14 DEF IsList, r
  <1> QED
    BY <1>2, <1>3

(* List r is list q with e put in at place n. *)
Inserted(r, q, n, e) ==
    /\ DOMAIN r = 1 .. Len(q) + 1
    /\ \A i \in 1 .. Len(q) + 1 : r[i] = IF i < n THEN q[i] ELSE IF i = n THEN e ELSE q[i - 1]

(* Inserting a new element. *)
LEMMA InsertList ==
    ASSUME NEW A, NEW q, IsList(q, A), NEW e \in A, e \notin ToSet(q), NEW n \in 1 .. Len(q) + 1
    PROVE  /\ IsList(InsertAt(q, n, e), A) /\ ToSet(InsertAt(q, n, e)) = ToSet(q) \cup {e}
           /\ Inserted(InsertAt(q, n, e), q, n, e)
  <1> DEFINE r == InsertAt(q, n, e)
             a == SubSeq(q, 1, n - 1)
             b == SubSeq(q, n, Len(q))
  <1>1. q \in Seq(A) /\ Len(q) \in Nat /\ DOMAIN q = 1 .. Len(q)
    BY DEF IsList
  <1>2. a \in Seq(A) /\ Len(a) = n - 1 /\ \A i \in 1 .. n - 1 : a[i] = q[i]
    <2>1. 0 \in Nat /\ n - 1 \in Nat /\ 1 = 0 + 1 /\ n - 1 = 0 + (n - 1) /\ 0 + (n - 1) <= Len(q)
          /\ \A i \in 1 .. n - 1 : 0 + i = i
      BY <1>1
    <2>2. /\ a \in Seq(A) /\ Len(a) = n - 1
          /\ \A i \in 1 .. n - 1 : a[i] = q[0 + i]
      BY <1>1, <2>1, Part
    <2> QED
      BY <2>1, <2>2
  <1>3. /\ b \in Seq(A) /\ Len(b) = (Len(q) - n) + 1
        /\ \A i \in 1 .. (Len(q) - n) + 1 : b[i] = q[(n - 1) + i]
    <2>1. n - 1 \in Nat /\ (Len(q) - n) + 1 \in Nat /\ (n - 1) + 1 = n
          /\ (n - 1) + ((Len(q) - n) + 1) = Len(q)
      BY <1>1
    <2> QED
      BY <1>1, <2>1, Part
  <1>4. r = (a \o <<e>>) \o b
    BY DEF InsertAt
  <1> HIDE DEF r, a, b
  <1>5. n - 1 \in Nat /\ (Len(q) - n) + 1 \in Nat /\ (n - 1) + 1 = n
        /\ Len(q) + 1 = n + ((Len(q) - n) + 1) /\ n \in Nat
        /\ <<e>> \in Seq(A) /\ Len(<<e>>) = 1
    BY <1>1
  <1>6. /\ a \o <<e>> \in Seq(A) /\ Len(a \o <<e>>) = n
        /\ \A i \in 1 .. n : (a \o <<e>>)[i] = IF i <= n - 1 THEN a[i] ELSE <<e>>[i - (n - 1)]
    BY <1>2, <1>5, Joining
  <1>7. /\ r \in Seq(A) /\ Len(r) = Len(q) + 1
        /\ \A i \in 1 .. Len(q) + 1 : r[i] = IF i <= n THEN (a \o <<e>>)[i] ELSE b[i - n]
    <2> DEFINE p == a \o <<e>>
               l == (Len(q) - n) + 1
               m == Len(q) + 1
    <2>1. /\ l \in Nat /\ m = n + l /\ Len(p) = n /\ Len(b) = l /\ p \in Seq(A)
          /\ b \in Seq(A) /\ n \in Nat
      BY <1>3, <1>5, <1>6
    <2>2. r = p \o b
      BY <1>4
    <2> HIDE DEF p, l, m
    <2>3. r \in Seq(A) /\ Len(r) = m /\ \A i \in 1 .. m : r[i] = IF i <= n THEN p[i] ELSE b[i - n]
      BY <2>1, <2>2, Joining
    <2> QED
      BY <2>3 DEF p, m
  <1>8. ASSUME NEW i \in 1 .. Len(q) + 1
        PROVE  r[i] = IF i < n THEN q[i] ELSE IF i = n THEN e ELSE q[i - 1]
    <2>1. CASE i < n
      <3>1. i \in 1 .. n - 1 /\ i \in 1 .. n /\ i <= n /\ i <= n - 1
        BY <1>1, <2>1
      <3>2. r[i] = (a \o <<e>>)[i]
        BY <1>7, <3>1
      <3>3. (a \o <<e>>)[i] = a[i] /\ a[i] = q[i]
        BY <1>2, <1>6, <3>1
      <3> QED
        BY <2>1, <3>2, <3>3
    <2>2. CASE i = n
      <3>1. i - (n - 1) = 1
        BY <2>2
      <3> QED
        BY <1>1, <1>6, <1>7, <2>2, <3>1
    <2>3. CASE i > n
      <3>1. i - n \in 1 .. (Len(q) - n) + 1 /\ (n - 1) + (i - n) = i - 1
        BY <1>1, <2>3
      <3> QED
        BY <1>1, <1>3, <1>7, <2>3, <3>1
    <2> QED
      BY <1>1, <2>1, <2>2, <2>3
  <1>9. DOMAIN r = 1 .. Len(q) + 1
    BY <1>7
  <1>10. \A i \in DOMAIN q : q[i] # e
    BY DEF ToSet
  <1>11. IsInjective(r)
    <2> SUFFICES ASSUME NEW i \in DOMAIN r, NEW j \in DOMAIN r, i < j
                 PROVE  r[i] # r[j]
      BY <1>1, <1>9 DEF IsInjective
    <2>1. CASE j <= n
      <3>1. r[i] = q[i] /\ i \in DOMAIN q
        BY <1>1, <1>8, <1>9, <2>1
      <3>2. r[j] = e \/ (r[j] = q[j] /\ j \in DOMAIN q)
        BY <1>1, <1>8, <1>9, <2>1
      <3> QED
        BY <1>10, <3>1, <3>2 DEF IsList, IsInjective
    <2>2. CASE j > n
      <3>1. r[j] = q[j - 1] /\ j - 1 \in DOMAIN q
        BY <1>1, <1>8, <1>9, <2>2
      <3>2. r[i] = e \/ (\E k \in DOMAIN q : k < j - 1 /\ r[i] = q[k])
        <4>1. CASE i < n
          BY <1>1, <1>8, <1>9, <2>2, <4>1
        <4>2. CASE i > n
          <5>1. i - 1 \in DOMAIN q /\ i - 1 < j - 1
            BY <1>1, <1>9, <4>2
          <5> QED
            BY <1>8, <1>9, <4>2, <5>1
        <4> QED
          BY <1>1, <1>8, <1>9, <4>1, <4>2
      <3> QED
        BY <1>10, <3>1, <3>2 DEF IsList, IsInjective
    <2> QED
      BY <1>1, <1>9, <2>1, <2>2
  <1>12. ToSet(r) = ToSet(q) \cup {e}
    <2>1. \A v \in ToSet(r) : v \in ToSet(q) \cup {e}
      <3>1. ASSUME NEW i \in DOMAIN r
            PROVE  r[i] = e \/ r[i] \in ToSet(q)
        <4>1. CASE i < n
          BY <1>1, <1>8, <1>9, <4>1 DEF ToSet
        <4>2. CASE i > n
          <5>1. i - 1 \in DOMAIN q
            BY <1>1, <1>9, <4>2
          <5> QED
            BY <1>8, <1>9, <4>2, <5>1 DEF ToSet
        <4> QED
          BY <1>1, <1>8, <1>9, <4>1, <4>2
      <3> QED
        BY <3>1 DEF ToSet
    <2>2. \A v \in ToSet(q) : v \in ToSet(r)
      <3>1. \A k \in DOMAIN q : IF k < n THEN k \in DOMAIN r /\ r[k] = q[k]
                                         ELSE k + 1 \in DOMAIN r /\ r[k + 1] = q[k]
        BY <1>1, <1>8, <1>9
      <3> QED
        BY <3>1 DEF ToSet
    <2>3. n \in DOMAIN r /\ r[n] = e
      BY <1>1, <1>8, <1>9
    <2> QED
      BY <2>1, <2>2, <2>3 DEF ToSet
  <1> QED
    BY <1>7, <1>8, <1>9, <1>11, <1>12 DEF IsList, Inserted, r

(* What is left of a list behind its first n elements. *)
LEMMA TailList ==
    ASSUME NEW A, NEW q, IsList(q, A), NEW n \in 0 .. Len(q)
    PROVE  LET r == SubSeq(q, n + 1, Len(q))
           IN  IsList(r, A) /\ ToSet(r) = ToSet(q) \ {q[i] : i \in 1 .. n} /\ Thins(r, q)
  <1> DEFINE r == SubSeq(q, n + 1, Len(q))
  <1>1. q \in Seq(A) /\ Len(q) \in Nat /\ DOMAIN q = 1 .. Len(q)
    BY DEF IsList
  <1>2. n \in Nat /\ Len(q) - n \in Nat /\ n + (Len(q) - n) = Len(q) /\ n + (Len(q) - n) <= Len(q)
    BY <1>1
  <1>3. /\ r \in Seq(A) /\ Len(r) = Len(q) - n
        /\ \A i \in 1 .. Len(q) - n : r[i] = q[n + i]
    <2> DEFINE k == Len(q) - n
               m == n + 1
    <2>1. k \in Nat /\ Len(q) = n + k /\ n + k <= Len(q) /\ m = n + 1 /\ n \in Nat
      BY <1>2
    <2>2. r = SubSeq(q, m, Len(q))
      OBVIOUS
    <2> HIDE DEF k, m, r
    <2>3. r \in Seq(A) /\ Len(r) = k /\ \A i \in 1 .. k : r[i] = q[n + i]
      BY <1>1, <2>1, <2>2, Part
    <2> QED
      BY <2>3 DEF k
  <1> HIDE DEF r
  <1>4. DOMAIN r = 1 .. Len(q) - n /\ \A i \in 1 .. Len(q) - n : r[i] = q[n + i]
    BY <1>2, <1>3
  <1>5. \A i \in DOMAIN r : n + i \in DOMAIN q /\ n + i > n /\ r[i] = q[n + i]
    BY <1>1, <1>4
  <1>6. \A i, j \in DOMAIN r : i < j => n + i < n + j
    BY <1>1, <1>4
  <1>7. \A k \in DOMAIN q : k > n => k - n \in DOMAIN r /\ r[k - n] = q[k]
    <2>1. \A k \in DOMAIN q : k > n => k - n \in DOMAIN r /\ n + (k - n) = k
      BY <1>1, <1>4
    <2> QED
      BY <1>5, <2>1
  <1>8. Thins(r, q)
    BY <1>5, <1>6 DEF Thins
  <1>9. IsInjective(r)
    <2>1. \A i, j \in DOMAIN r : n + i = n + j => i = j
      BY <1>1, <1>4
    <2> QED
      BY <1>5, <2>1 DEF IsList, IsInjective
  <1>10. ToSet(r) = ToSet(q) \ {q[i] : i \in 1 .. n}
    <2>1. \A i \in DOMAIN r, j \in 1 .. n : r[i] # q[j]
      <3>1. \A i \in DOMAIN r, j \in 1 .. n : n + i # j /\ j \in DOMAIN q
        BY <1>1, <1>4
      <3> QED
        BY <1>5, <3>1 DEF IsList, IsInjective
    <2>2. \A v \in ToSet(r) : v \in ToSet(q) /\ v \notin {q[i] : i \in 1 .. n}
      BY <1>5, <2>1 DEF ToSet
    <2>3. \A k \in DOMAIN q : k > n \/ k \in 1 .. n
      BY <1>1
    <2>4. \A v \in ToSet(q) : v \notin {q[i] : i \in 1 .. n} => v \in ToSet(r)
      BY <1>7, <2>3 DEF ToSet
    <2> QED
      BY <2>2, <2>4
  <1> QED
    BY <1>3, <1>8, <1>9, <1>10 DEF IsList, r

(* The elements of a list at the places of I, in their order. *)
LEMMA PickedList ==
    ASSUME NEW A, NEW q, IsList(q, A), NEW I \in SUBSET DOMAIN q, NEW f \in InOrder(I)
    PROVE  LET r == [i \in DOMAIN f |-> q[f[i]]]
           IN  IsList(r, A) /\ ToSet(r) = {q[i] : i \in I}
  <1> DEFINE r == [i \in DOMAIN f |-> q[f[i]]]
             k == Cardinality(I)
  <1>1. q \in Seq(A) /\ Len(q) \in Nat /\ DOMAIN q = 1 .. Len(q)
    BY DEF IsList
  <1>2. IsFiniteSet(I) /\ k \in Nat
    <2>1. IsFiniteSet(1 .. Len(q))
      BY <1>1, FS_Interval
    <2> QED
      BY <1>1, <2>1, FS_Subset, FS_CardinalityType
  <1> HIDE DEF k
  <1>3. f \in [1 .. k -> I] /\ \A i, j \in 1 .. k : i < j => f[i] < f[j]
    BY DEF InOrder, k
  <1>4. \A i, j \in 1 .. k : f[i] = f[j] => i = j
    <2>1. TAKE i, j \in 1 .. k
    <2>2. f[i] \in Nat /\ f[j] \in Nat
      BY <1>1, <1>3
    <2>3. i < j \/ i = j \/ j < i
      BY <1>2
    <2> QED
      BY <1>3, <2>2, <2>3
  <1>5. \A y \in I : \E i \in 1 .. k : f[i] = y
    <2>1. IsFiniteSet(1 .. k) /\ Cardinality(1 .. k) = k
      BY <1>2, FS_Interval
    <2>2. f \in Injection(1 .. k, I)
      BY <1>3, <1>4 DEF Injection, IsInjective
    <2>3. f \in Surjection(1 .. k, I)
      BY <1>2, <2>1, <2>2, FS_Injection DEF k
    <2> QED
      BY <2>3 DEF Surjection
  <1>6. DOMAIN r = 1 .. k /\ \A i \in 1 .. k : f[i] \in DOMAIN q /\ r[i] = q[f[i]]
    BY <1>3
  <1> HIDE DEF r
  <1>7. r \in Seq(A)
    <2>1. r = [i \in 1 .. k |-> q[f[i]]]
      BY <1>3 DEF r
    <2>2. \A i \in 1 .. k : q[f[i]] \in A
      BY <1>1, <1>6
    <2> QED
      BY <1>2, <2>1, <2>2
  <1>8. IsInjective(r)
    BY <1>4, <1>6 DEF IsInjective, IsList
  <1>9. ToSet(r) = {q[i] : i \in I}
    BY <1>3, <1>5, <1>6 DEF ToSet
  <1> QED
    BY <1>7, <1>8, <1>9 DEF IsList, r

(* The list of a finite set. *)
LEMMA ListOfSet ==
    ASSUME NEW A, IsFiniteSet(A)
    PROVE  IsList(SetToSeq(A), A) /\ ToSet(SetToSeq(A)) = A
  <1> DEFINE k == Cardinality(A)
             r == SetToSeq(A)
  <1>1. k \in Nat /\ \E f : f \in Bijection(1 .. k, A)
    BY FS_CardinalityType, Zenon DEF ExistsBijection
  <1>2. \E f \in [1 .. k -> A] : IsInjective(f)
    BY <1>1, Zenon DEF Bijection, Injection
  <1>3. r \in [1 .. k -> A] /\ IsInjective(r)
    BY <1>2, Zenon DEF SetToSeq
  <1> HIDE DEF r
  <1>4. IsFiniteSet(1 .. k) /\ Cardinality(1 .. k) = k
    BY <1>1, FS_Interval
  <1>5. r \in Surjection(1 .. k, A)
    <2>1. r \in Injection(1 .. k, A)
      BY <1>3 DEF Injection
    <2> QED
      BY <1>4, <2>1, FS_Injection
  <1>6. \A y \in A : \E i \in 1 .. k : r[i] = y
    BY <1>5 DEF Surjection
  <1> HIDE DEF k
  <1>7. r \in Seq(A)
    BY <1>1, <1>3
  <1> QED
    BY <1>3, <1>6, <1>7 DEF IsList, ToSet, r

(* The states of a thread, the fields of ThreadInfo, and what a value of s may be. *)
States == {"NEW", "STARTED", "RUNNING", "OUT", "BLOCKED", "SLEEPING", "QUEUED"}

ThreadInfos == [state : States, cid : Cores, handoffThread : Threads \cup {None},
                futexWord : 0 .. 1, markedForSleep : BOOLEAN, left : Nat]

SchedRecords == [th : [Threads -> ThreadInfos], curThread : [Cores -> Threads \cup {None}],
                 freeList : Seq(Cores), runQueue : Seq(Threads), outQueue : Seq(Threads),
                 sleepQueue : Seq(Threads), fakeLeaves : Seq(Threads),
                 bar : [Cores -> {"off", "run", "wait"}], quantum : Nat,
                 failed : {None, "wakeup", "leave", "join", "finish", "schedTick", "callback"}]

(* A value of s has its type, and no list names anything twice. *)
Typed(z) == /\ z \in SchedRecords
            /\ IsInjective(z.freeList) /\ IsInjective(z.runQueue) /\ IsInjective(z.outQueue)
            /\ IsInjective(z.sleepQueue) /\ IsInjective(z.fakeLeaves)

(* Who has a core, and which core has a thread that runs. *)
HasCore(z, t) == z.th[t].state \in {"RUNNING", "OUT"}
Runs(z, c) == z.curThread[c] # None /\ z.th[z.curThread[c]].state = "RUNNING"

(* CoresExact and the first half of BarrierAgrees, of a value of s; X are the cores *)
(* in transit, taken from their thread and neither given to another nor freed.     *)
CoresOf(z, X) ==
    /\ \A c \in Cores, t \in Threads : z.curThread[c] = t <=> HasCore(z, t) /\ z.th[t].cid = c
    /\ ToSet(z.freeList) = {c \in Cores \ X : z.curThread[c] = None}
    /\ \A c \in Cores \ X : z.bar[c] # "off" <=> Runs(z, c)
    /\ \A c \in X : z.curThread[c] = None

(* The out and sleep queues are exact; who is queued or pretends to leave is in the state for it. *)
QueuesOf(z) ==
    /\ ToSet(z.outQueue) = {t \in Threads : z.th[t].state = "OUT"}
    /\ ToSet(z.sleepQueue) = Sleepers(z)
    /\ \A t \in ToSet(z.runQueue) : z.th[t].state = "QUEUED"
    /\ \A t \in ToSet(z.fakeLeaves) : z.th[t].state = "RUNNING"

(* Who waits for a core or sleeps has its futex word set; a sleeper, and one who is *)
(* about to be one, has time left.                                                 *)
WordsOf(z) ==
    \A t \in Threads :
        LET x == z.th[t]
        IN  /\ t \in ToSet(z.runQueue) => x.futexWord = 1
            /\ x.handoffThread # None => z.th[x.handoffThread].futexWord = 1
            /\ x.state = "SLEEPING" => x.left > 0 /\ x.futexWord = 1
            /\ x.markedForSleep => x.state = "RUNNING" /\ x.left > 0 /\ x.futexWord = 1

(* The sleep queue is ordered by what is left of each sleep. *)
SleepersInOrder(z) ==
    \A i, j \in DOMAIN z.sleepQueue :
        i < j => z.th[z.sleepQueue[i]].left <= z.th[z.sleepQueue[j]].left

(* A thread that is promised a core, by one other, is no longer in the run queue. *)
PromisesOf(z) ==
    \A u \in Threads :
        LET t == z.th[u].handoffThread
        IN  t # None => /\ z.th[t].state = "QUEUED" /\ t \notin ToSet(z.runQueue)
                        /\ \A v \in Threads : z.th[v].handoffThread = t => v = u

(* Every core a queued thread may run on has a thread that runs. *)
WorkOf(z, X) == \A t \in ToSet(z.runQueue) : \A c \in Mask[t] \ X : Runs(z, c)

(* A value of s is well formed, but for the cores X in transit. *)
Sound(z, X) == /\ Typed(z) /\ CoresOf(z, X) /\ QueuesOf(z) /\ WordsOf(z) /\ SleepersInOrder(z)
               /\ PromisesOf(z) /\ WorkOf(z, X)

(* As long as no process is killed: the promises are kept by threads of P, which are *)
(* in the barrier's wait, and no queued thread is forgotten, but for those of Y, in  *)
(* transit.                                                                        *)
Remembers(z, P, Y) ==
    /\ \A u \in Threads :
          LET x == z.th[u]
          IN  x.handoffThread # None =>
                 /\ u \in P /\ x.state = "RUNNING" /\ z.bar[x.cid] = "run"
                 /\ x.cid \in Mask[x.handoffThread]
    /\ \A t \in Threads : z.th[t].state = "QUEUED" =>
          t \in Y \/ t \in ToSet(z.runQueue) \/ \E u \in Threads : z.th[u].handoffThread = t
    /\ \A c \in Cores : z.bar[c] = "wait" => z.curThread[c] \in P

(* What calls of others may do to a thread. *)
Drifts(z, y, u) ==
    LET a == z.th[u]
        b == y.th[u]
    IN  /\ \/ b.state = a.state
           \/ a.state \in {"SLEEPING", "OUT"} /\ b.state = "BLOCKED"
           \/ a.state = "QUEUED" /\ b.state = "RUNNING"
        /\ a.state = "QUEUED" /\ a.futexWord = 1 => b.state = "RUNNING" \/ b.futexWord = 1
        /\ b.markedForSleep = a.markedForSleep
        /\ u \in ToSet(y.fakeLeaves) <=> u \in ToSet(z.fakeLeaves)

(* The threads that are not in T have only drifted. *)
Undisturbed(z, y, T) == \A u \in Threads \ T : Drifts(z, y, u)

(* y differs from z in no thread but t. *)
OthersSame(z, y, t) == \A u \in Threads \ {t} : y.th[u] = z.th[u]

(* The five lists of a value of s, and their types. *)
ListsTyped(z) ==
    /\ IsList(z.freeList, Cores) /\ ToSet(z.freeList) \subseteq Cores
    /\ IsList(z.runQueue, Threads) /\ ToSet(z.runQueue) \subseteq Threads
    /\ IsList(z.outQueue, Threads) /\ ToSet(z.outQueue) \subseteq Threads
    /\ IsList(z.sleepQueue, Threads) /\ ToSet(z.sleepQueue) \subseteq Threads
    /\ IsList(z.fakeLeaves, Threads) /\ ToSet(z.fakeLeaves) \subseteq Threads

(* What the parts of a sound value are. *)
LEMMA SoundTypes ==
    ASSUME NEW z, NEW X, Sound(z, X)
    PROVE  /\ z \in SchedRecords /\ None \notin Threads \cup Cores
           /\ ListsTyped(z) /\ \A u \in Threads : z.th[u] \in ThreadInfos /\ Mask[u] \subseteq Cores
           /\ \A d \in Cores : z.curThread[d] \in Threads \cup {None}
  <1>1. z \in SchedRecords /\ None \notin Threads \cup Cores
    BY SchedulerAssumption DEF Sound, Typed
  <1>2. \A A : \A q \in Seq(A) : ToSet(q) \subseteq A
    BY DEF ToSet
  <1>3. ListsTyped(z)
    BY <1>1, <1>2 DEF Sound, Typed, SchedRecords, ListsTyped, IsList
  <1>4. \A u \in Threads : z.th[u] \in ThreadInfos /\ Mask[u] \subseteq Cores
    BY <1>1, SchedulerAssumption DEF SchedRecords
  <1>5. \A d \in Cores : z.curThread[d] \in Threads \cup {None}
    BY <1>1 DEF SchedRecords
  <1> QED
    BY <1>1, <1>3, <1>4, <1>5

(* A core in transit is given to a thread that has none. *)
LEMMA ScheduleSound ==
    ASSUME NEW z, NEW t \in Threads, NEW c \in Cores, Sound(z, {c}),
           z.th[t].state \in {"BLOCKED", "STARTED", "QUEUED"}, t \notin ToSet(z.runQueue),
           \A u \in Threads : z.th[u].handoffThread # t, z.bar[c] # "off"
    PROVE  /\ Sound(schedule(z, t, c), {}) /\ schedule(z, t, c).failed = z.failed
           /\ Undisturbed(z, schedule(z, t, c), {t}) /\ OthersSame(z, schedule(z, t, c), t)
           /\ schedule(z, t, c).th[t] = [z.th[t] EXCEPT !.state = "RUNNING", !.cid = c]
           /\ schedule(z, t, c).runQueue = z.runQueue
           /\ \A P, Y : None \notin P /\ Remembers(z, P, Y) => Remembers(schedule(z, t, c), P, Y \ {t})
  <1> DEFINE y == schedule(z, t, c)
  <1>1. /\ z \in SchedRecords /\ None \notin Threads \cup Cores
        /\ ListsTyped(z) /\ \A u \in Threads : z.th[u] \in ThreadInfos /\ Mask[u] \subseteq Cores
        /\ \A d \in Cores : z.curThread[d] \in Threads \cup {None}
    BY SoundTypes
  <1>2. /\ y.th = [z.th EXCEPT ![t] = [z.th[t] EXCEPT !.state = "RUNNING", !.cid = c]]
        /\ y.curThread = [z.curThread EXCEPT ![c] = t]
        /\ y.freeList = z.freeList /\ y.runQueue = z.runQueue /\ y.outQueue = z.outQueue
        /\ y.sleepQueue = z.sleepQueue /\ y.fakeLeaves = z.fakeLeaves /\ y.bar = z.bar
        /\ y.quantum = z.quantum /\ y.failed = z.failed
    BY <1>1 DEF schedule, SchedRecords
  <1>3. y \in SchedRecords
    <2>1. [z.th[t] EXCEPT !.state = "RUNNING", !.cid = c] \in ThreadInfos
      BY <1>1 DEF ThreadInfos, States
    <2>2. y.th \in [Threads -> ThreadInfos]
      BY <1>1, <1>2, <2>1 DEF SchedRecords
    <2>3. y.curThread \in [Cores -> Threads \cup {None}]
      BY <1>1, <1>2 DEF SchedRecords
    <2> QED
      BY <1>1, <2>2, <2>3 DEF schedule, SchedRecords
  <1> HIDE DEF y
  <1>4. /\ \A u \in Threads : u # t => y.th[u] = z.th[u]
        /\ y.th[t].state = "RUNNING" /\ y.th[t].cid = c
        /\ y.th[t].handoffThread = z.th[t].handoffThread /\ y.th[t].futexWord = z.th[t].futexWord
        /\ y.th[t].markedForSleep = z.th[t].markedForSleep /\ y.th[t].left = z.th[t].left
    BY <1>1, <1>2 DEF SchedRecords, ThreadInfos
  <1>5. y.curThread[c] = t /\ \A d \in Cores : d # c => y.curThread[d] = z.curThread[d]
    BY <1>1, <1>2 DEF SchedRecords, ThreadInfos
  <1>6. /\ ~ HasCore(z, t) /\ z.th[t].state # "SLEEPING" /\ ~ z.th[t].markedForSleep
        /\ z.curThread[c] = None /\ \A d \in Cores : z.curThread[d] # t
    BY <1>1 DEF Sound, CoresOf, HasCore, WordsOf, QueuesOf, PromisesOf
  <1>7. \A d \in Cores : Runs(y, d) <=> d = c \/ Runs(z, d)
    BY <1>1, <1>4, <1>5, <1>6 DEF Runs
  <1>8. CoresOf(y, {})
    <2>1. \A d \in Cores, u \in Threads : y.curThread[d] = u <=> HasCore(y, u) /\ y.th[u].cid = d
      BY <1>1, <1>4, <1>5, <1>6 DEF Sound, CoresOf, HasCore
    <2>2. ToSet(y.freeList) = {d \in Cores : y.curThread[d] = None}
      BY <1>1, <1>2, <1>5, <1>6 DEF Sound, CoresOf
    <2>3. \A d \in Cores : y.bar[d] # "off" <=> Runs(y, d)
      BY <1>2, <1>5, <1>6, <1>7 DEF Sound, CoresOf
    <2> QED
      BY <2>1, <2>2, <2>3 DEF CoresOf
  <1>9. QueuesOf(y)
    BY <1>1, <1>2, <1>4, <1>5, <1>6 DEF Sound, QueuesOf, HasCore, Sleepers
  <1>10. WordsOf(y)
    BY <1>2, <1>4, <1>5, <1>6 DEF Sound, WordsOf
  <1>11. SleepersInOrder(y)
    <2>1. \A u \in Threads : y.th[u].left = z.th[u].left
      BY <1>4
    <2>2. \A i \in DOMAIN z.sleepQueue : z.sleepQueue[i] \in Threads
      BY <1>1 DEF SchedRecords
    <2> QED
      BY <1>2, <2>1, <2>2 DEF Sound, SleepersInOrder
  <1>12. PromisesOf(y)
    BY <1>1, <1>2, <1>4, <1>5, <1>6 DEF Sound, PromisesOf, QueuesOf
  <1>13. WorkOf(y, {})
    BY <1>1, <1>2, <1>5, <1>6, <1>7 DEF Sound, WorkOf, ListsTyped
  <1>14. Typed(y)
    BY <1>1, <1>2, <1>3 DEF Sound, Typed, IsList, ListsTyped
  <1>15. Undisturbed(z, y, {t}) /\ OthersSame(z, y, t)
    BY <1>1, <1>2, <1>4, <1>5, <1>6, SMTT(20) DEF Undisturbed, Drifts, OthersSame
  <1>16. ASSUME NEW P, NEW Y, None \notin P /\ Remembers(z, P, Y)
         PROVE  Remembers(y, P, Y \ {t})
    BY <1>1, <1>2, <1>4, <1>5, <1>6, <1>16, SMTT(20) DEF Remembers, HasCore
  <1>17. y.th[t] = [z.th[t] EXCEPT !.state = "RUNNING", !.cid = c]
    BY <1>1, <1>2 DEF SchedRecords
  <1> QED
    BY <1>2, <1>8, <1>9, <1>10, <1>11, <1>12, <1>13, <1>14, <1>15, <1>16, <1>17, <1>4, <1>5, <1>6 DEF Sound, y

(* A thread that holds its core has its futex word cleared. *)
LEMMA WakeupSound ==
    ASSUME NEW z, NEW X, NEW t \in Threads, Sound(z, X), z.th[t].futexWord = 1,
           z.th[t].state = "RUNNING", ~ z.th[t].markedForSleep
    PROVE  /\ Sound(wakeup(z, t), X) /\ wakeup(z, t).failed = z.failed
           /\ Undisturbed(z, wakeup(z, t), {t}) /\ OthersSame(z, wakeup(z, t), t)
           /\ wakeup(z, t).th[t] = [z.th[t] EXCEPT !.futexWord = 0]
           /\ wakeup(z, t).runQueue = z.runQueue
           /\ \A P, Y : None \notin P /\ Remembers(z, P, Y) => Remembers(wakeup(z, t), P, Y)
  <1> DEFINE y == wakeup(z, t)
  <1>1. /\ z \in SchedRecords /\ None \notin Threads \cup Cores
        /\ ListsTyped(z) /\ \A u \in Threads : z.th[u] \in ThreadInfos /\ Mask[u] \subseteq Cores
        /\ \A d \in Cores : z.curThread[d] \in Threads \cup {None}
    BY SoundTypes
  <1>2. /\ y.th = [z.th EXCEPT ![t] = [z.th[t] EXCEPT !.futexWord = 0]]
        /\ y.curThread = z.curThread /\ y.freeList = z.freeList /\ y.runQueue = z.runQueue
        /\ y.outQueue = z.outQueue /\ y.sleepQueue = z.sleepQueue /\ y.fakeLeaves = z.fakeLeaves
        /\ y.bar = z.bar /\ y.quantum = z.quantum /\ y.failed = z.failed
    BY <1>1 DEF wakeup, SchedRecords
  <1>3. y \in SchedRecords
    <2>1. [z.th[t] EXCEPT !.futexWord = 0] \in ThreadInfos
      BY <1>1 DEF ThreadInfos, States
    <2>2. y.th \in [Threads -> ThreadInfos]
      BY <1>1, <1>2, <2>1 DEF SchedRecords
    <2> QED
      BY <1>1, <2>2 DEF wakeup, SchedRecords
  <1> HIDE DEF y
  <1>4. /\ \A u \in Threads : u # t => y.th[u] = z.th[u]
        /\ y.th[t].state = "RUNNING" /\ y.th[t].cid = z.th[t].cid
        /\ y.th[t].handoffThread = z.th[t].handoffThread /\ y.th[t].futexWord = 0
        /\ y.th[t].markedForSleep = z.th[t].markedForSleep /\ y.th[t].left = z.th[t].left
    BY <1>1, <1>2 DEF SchedRecords, ThreadInfos
  <1>5. y.curThread = z.curThread
    BY <1>1, <1>2 DEF SchedRecords, ThreadInfos
  <1>6. /\ z.th[t].state = "RUNNING" /\ ~ z.th[t].markedForSleep /\ t \notin ToSet(z.runQueue)
        /\ \A u \in Threads : z.th[u].handoffThread # t
    BY <1>1 DEF Sound, CoresOf, HasCore, WordsOf, QueuesOf, PromisesOf
  <1>7. \A d \in Cores : Runs(y, d) <=> Runs(z, d)
    BY <1>1, <1>4, <1>5, <1>6 DEF Runs
  <1>8. CoresOf(y, X)
    <2>1. \A d \in Cores, u \in Threads : y.curThread[d] = u <=> HasCore(y, u) /\ y.th[u].cid = d
      BY <1>1, <1>4, <1>5, <1>6 DEF Sound, CoresOf, HasCore
    <2>2. ToSet(y.freeList) = {d \in Cores \ X : y.curThread[d] = None}
      BY <1>1, <1>2, <1>5, <1>6 DEF Sound, CoresOf
    <2>3. \A d \in Cores \ X : y.bar[d] # "off" <=> Runs(y, d)
      BY <1>2, <1>5, <1>6, <1>7 DEF Sound, CoresOf
    <2>4. \A d \in X : y.curThread[d] = None
      BY <1>5, <1>6 DEF Sound, CoresOf
    <2> QED
      BY <2>1, <2>2, <2>3, <2>4 DEF CoresOf
  <1>9. QueuesOf(y)
    BY <1>1, <1>2, <1>4, <1>5, <1>6 DEF Sound, QueuesOf, HasCore, Sleepers
  <1>10. WordsOf(y)
    BY <1>2, <1>4, <1>5, <1>6 DEF Sound, WordsOf
  <1>11. SleepersInOrder(y)
    <2>1. \A u \in Threads : y.th[u].left = z.th[u].left
      BY <1>4
    <2>2. \A i \in DOMAIN z.sleepQueue : z.sleepQueue[i] \in Threads
      BY <1>1 DEF SchedRecords
    <2> QED
      BY <1>2, <2>1, <2>2 DEF Sound, SleepersInOrder
  <1>12. PromisesOf(y)
    BY <1>1, <1>2, <1>4, <1>5, <1>6 DEF Sound, PromisesOf, QueuesOf
  <1>13. WorkOf(y, X)
    BY <1>1, <1>2, <1>5, <1>6, <1>7 DEF Sound, WorkOf, ListsTyped
  <1>14. Typed(y)
    BY <1>1, <1>2, <1>3 DEF Sound, Typed, IsList, ListsTyped
  <1>15. Undisturbed(z, y, {t}) /\ OthersSame(z, y, t)
    BY <1>1, <1>2, <1>4, <1>5, <1>6, SMTT(20) DEF Undisturbed, Drifts, OthersSame
  <1>16. ASSUME NEW P, NEW Y, None \notin P /\ Remembers(z, P, Y)
         PROVE  Remembers(y, P, Y)
    BY <1>1, <1>2, <1>4, <1>5, <1>6, <1>16, SMTT(20) DEF Remembers, HasCore
  <1>17. y.th[t] = [z.th[t] EXCEPT !.futexWord = 0]
    BY <1>1, <1>2 DEF SchedRecords
  <1> QED
    BY <1>2, <1>8, <1>9, <1>10, <1>11, <1>12, <1>13, <1>14, <1>15, <1>16, <1>17, <1>4, <1>5, <1>6 DEF Sound, y

(* A thread is taken from the run queue. *)
LEMMA UnqueueSound ==
    ASSUME NEW z, NEW X, NEW t \in Threads, Sound(z, X)
    PROVE  LET y == [z EXCEPT !.runQueue = RemoveFirst(@, t)]
           IN  /\ Sound(y, X) /\ y.failed = z.failed
               /\ Undisturbed(z, y, {}) /\ OthersSame(z, y, t)
               /\ y.th = z.th /\ y.bar = z.bar
               /\ ToSet(y.runQueue) = ToSet(z.runQueue) \ {t}
               /\ \A P, Y : None \notin P /\ Remembers(z, P, Y) => Remembers(y, P, Y \cup {t})
  <1> DEFINE y == [z EXCEPT !.runQueue = RemoveFirst(@, t)]
  <1>1. /\ z \in SchedRecords /\ None \notin Threads \cup Cores
        /\ ListsTyped(z) /\ \A u \in Threads : z.th[u] \in ThreadInfos /\ Mask[u] \subseteq Cores
        /\ \A d \in Cores : z.curThread[d] \in Threads \cup {None}
    BY SoundTypes
  <1>2. /\ y.runQueue = RemoveFirst(z.runQueue, t)
        /\ y.th = z.th /\ y.curThread = z.curThread /\ y.freeList = z.freeList
        /\ y.outQueue = z.outQueue /\ y.sleepQueue = z.sleepQueue /\ y.fakeLeaves = z.fakeLeaves
        /\ y.bar = z.bar /\ y.quantum = z.quantum /\ y.failed = z.failed
    BY <1>1 DEF SchedRecords
  <1>3. y \in SchedRecords
    <2>3. y.runQueue \in Seq(Threads)
      BY <1>1, <1>2, RemoveList DEF SchedRecords, ListsTyped, IsList
    <2> QED
      BY <1>1, <2>3 DEF SchedRecords
  <1> HIDE DEF y
  <1>4. /\ \A u \in Threads : u # t => y.th[u] = z.th[u]
        /\ y.th[t] = z.th[t]
    BY <1>1, <1>2 DEF SchedRecords, ThreadInfos
  <1>5. y.curThread = z.curThread
    BY <1>1, <1>2 DEF SchedRecords, ThreadInfos
  <1>6. /\ IsList(y.runQueue, Threads) /\ ToSet(y.runQueue) = ToSet(z.runQueue) \ {t}
    BY <1>1, <1>2, RemoveList DEF ListsTyped
  <1>7. \A d \in Cores : Runs(y, d) <=> Runs(z, d)
    BY <1>1, <1>4, <1>5, <1>6 DEF Runs
  <1>8. CoresOf(y, X)
    <2>1. \A d \in Cores, u \in Threads : y.curThread[d] = u <=> HasCore(y, u) /\ y.th[u].cid = d
      BY <1>1, <1>4, <1>5, <1>6 DEF Sound, CoresOf, HasCore
    <2>2. ToSet(y.freeList) = {d \in Cores \ X : y.curThread[d] = None}
      BY <1>1, <1>2, <1>5, <1>6 DEF Sound, CoresOf
    <2>3. \A d \in Cores \ X : y.bar[d] # "off" <=> Runs(y, d)
      BY <1>2, <1>5, <1>6, <1>7 DEF Sound, CoresOf
    <2>4. \A d \in X : y.curThread[d] = None
      BY <1>5, <1>6 DEF Sound, CoresOf
    <2> QED
      BY <2>1, <2>2, <2>3, <2>4 DEF CoresOf
  <1>9. QueuesOf(y)
    BY <1>1, <1>2, <1>4, <1>5, <1>6 DEF Sound, QueuesOf, HasCore, Sleepers
  <1>10. WordsOf(y)
    BY <1>2, <1>4, <1>5, <1>6 DEF Sound, WordsOf
  <1>11. SleepersInOrder(y)
    <2>1. \A u \in Threads : y.th[u].left = z.th[u].left
      BY <1>4
    <2>2. \A i \in DOMAIN z.sleepQueue : z.sleepQueue[i] \in Threads
      BY <1>1 DEF SchedRecords
    <2> QED
      BY <1>2, <2>1, <2>2 DEF Sound, SleepersInOrder
  <1>12. PromisesOf(y)
    BY <1>1, <1>2, <1>4, <1>5, <1>6 DEF Sound, PromisesOf, QueuesOf
  <1>13. WorkOf(y, X)
    BY <1>1, <1>2, <1>5, <1>6, <1>7 DEF Sound, WorkOf, ListsTyped
  <1>14. Typed(y)
    BY <1>1, <1>2, <1>3, RemoveList DEF Sound, Typed, IsList, ListsTyped
  <1>15. Undisturbed(z, y, {}) /\ OthersSame(z, y, t)
    BY <1>1, <1>2, <1>4, <1>5, <1>6, SMTT(20) DEF Undisturbed, Drifts, OthersSame
  <1>16. ASSUME NEW P, NEW Y, None \notin P /\ Remembers(z, P, Y)
         PROVE  Remembers(y, P, Y \cup {t})
    BY <1>1, <1>2, <1>4, <1>5, <1>6, <1>16, SMTT(20) DEF Remembers, HasCore
  <1> QED
    BY <1>2, <1>8, <1>9, <1>10, <1>11, <1>12, <1>13, <1>14, <1>15, <1>16, <1>4, <1>5, <1>6 DEF Sound, y

(* A thread forgets whom it was to hand its core over to. *)
LEMMA ForgetSound ==
    ASSUME NEW z, NEW X, NEW t \in Threads, Sound(z, X)
    PROVE  LET y == [z EXCEPT !.th[t].handoffThread = None]
           IN  /\ Sound(y, X) /\ y.failed = z.failed
               /\ Undisturbed(z, y, {}) /\ OthersSame(z, y, t)
               /\ y.th[t] = [z.th[t] EXCEPT !.handoffThread = None]
               /\ y.runQueue = z.runQueue /\ y.bar = z.bar /\ y.fakeLeaves = z.fakeLeaves
               /\ \A P, Y : None \notin P /\ Remembers(z, P, Y) => Remembers(y, P, Y \cup {z.th[t].handoffThread})
  <1> DEFINE y == [z EXCEPT !.th[t].handoffThread = None]
  <1>1. /\ z \in SchedRecords /\ None \notin Threads \cup Cores
        /\ ListsTyped(z) /\ \A u \in Threads : z.th[u] \in ThreadInfos /\ Mask[u] \subseteq Cores
        /\ \A d \in Cores : z.curThread[d] \in Threads \cup {None}
    BY SoundTypes
  <1>2. /\ y.th = [z.th EXCEPT ![t] = [z.th[t] EXCEPT !.handoffThread = None]]
        /\ y.curThread = z.curThread /\ y.freeList = z.freeList /\ y.runQueue = z.runQueue
        /\ y.outQueue = z.outQueue /\ y.sleepQueue = z.sleepQueue /\ y.fakeLeaves = z.fakeLeaves
        /\ y.bar = z.bar /\ y.quantum = z.quantum /\ y.failed = z.failed
    BY <1>1 DEF SchedRecords
  <1>3. y \in SchedRecords
    <2>1. [z.th[t] EXCEPT !.handoffThread = None] \in ThreadInfos
      BY <1>1 DEF ThreadInfos, States
    <2>2. y.th \in [Threads -> ThreadInfos]
      BY <1>1, <1>2, <2>1 DEF SchedRecords
    <2> QED
      BY <1>1, <2>2 DEF SchedRecords
  <1> HIDE DEF y
  <1>4. /\ \A u \in Threads : u # t => y.th[u] = z.th[u]
        /\ y.th[t].state = z.th[t].state /\ y.th[t].cid = z.th[t].cid
        /\ y.th[t].handoffThread = None /\ y.th[t].futexWord = z.th[t].futexWord
        /\ y.th[t].markedForSleep = z.th[t].markedForSleep /\ y.th[t].left = z.th[t].left
    BY <1>1, <1>2 DEF SchedRecords, ThreadInfos
  <1>5. y.curThread = z.curThread
    BY <1>1, <1>2 DEF SchedRecords, ThreadInfos
  <1>6. /\ \A u \in Threads : z.th[u].state = "QUEUED" /\ z.th[t].handoffThread # u =>
              \A v \in Threads : z.th[v].handoffThread = u => y.th[v].handoffThread = u
    BY <1>1, <1>4 DEF Sound, CoresOf, HasCore, WordsOf, QueuesOf, PromisesOf
  <1>7. \A d \in Cores : Runs(y, d) <=> Runs(z, d)
    BY <1>1, <1>4, <1>5, <1>6 DEF Runs
  <1>8. CoresOf(y, X)
    <2>1. \A d \in Cores, u \in Threads : y.curThread[d] = u <=> HasCore(y, u) /\ y.th[u].cid = d
      BY <1>1, <1>4, <1>5, <1>6 DEF Sound, CoresOf, HasCore
    <2>2. ToSet(y.freeList) = {d \in Cores \ X : y.curThread[d] = None}
      BY <1>1, <1>2, <1>5, <1>6 DEF Sound, CoresOf
    <2>3. \A d \in Cores \ X : y.bar[d] # "off" <=> Runs(y, d)
      BY <1>2, <1>5, <1>6, <1>7 DEF Sound, CoresOf
    <2>4. \A d \in X : y.curThread[d] = None
      BY <1>5, <1>6 DEF Sound, CoresOf
    <2> QED
      BY <2>1, <2>2, <2>3, <2>4 DEF CoresOf
  <1>9. QueuesOf(y)
    BY <1>1, <1>2, <1>4, <1>5, <1>6 DEF Sound, QueuesOf, HasCore, Sleepers
  <1>10. WordsOf(y)
    BY <1>2, <1>4, <1>5, <1>6 DEF Sound, WordsOf
  <1>11. SleepersInOrder(y)
    <2>1. \A u \in Threads : y.th[u].left = z.th[u].left
      BY <1>4
    <2>2. \A i \in DOMAIN z.sleepQueue : z.sleepQueue[i] \in Threads
      BY <1>1 DEF SchedRecords
    <2> QED
      BY <1>2, <2>1, <2>2 DEF Sound, SleepersInOrder
  <1>12. PromisesOf(y)
    BY <1>1, <1>2, <1>4, <1>5, <1>6 DEF Sound, PromisesOf, QueuesOf
  <1>13. WorkOf(y, X)
    BY <1>1, <1>2, <1>5, <1>6, <1>7 DEF Sound, WorkOf, ListsTyped
  <1>14. Typed(y)
    BY <1>1, <1>2, <1>3 DEF Sound, Typed, IsList, ListsTyped
  <1>15. Undisturbed(z, y, {}) /\ OthersSame(z, y, t)
    BY <1>1, <1>2, <1>4, <1>5, <1>6, SMTT(20) DEF Undisturbed, Drifts, OthersSame
  <1>16. ASSUME NEW P, NEW Y, None \notin P /\ Remembers(z, P, Y)
         PROVE  Remembers(y, P, Y \cup {z.th[t].handoffThread})
    BY <1>1, <1>2, <1>4, <1>5, <1>6, <1>16, SMTT(20) DEF Remembers, HasCore
  <1>17. y.th[t] = [z.th[t] EXCEPT !.handoffThread = None]
    BY <1>1, <1>2, SMTT(20) DEF SchedRecords
  <1> QED
    BY <1>2, <1>8, <1>9, <1>10, <1>11, <1>12, <1>13, <1>14, <1>15, <1>16, <1>17, <1>4, <1>5, <1>6 DEF Sound, y

(* A running thread gives up its core. *)
LEMMA DescheduleSound ==
    ASSUME NEW z, NEW t \in Threads, Sound(z, {}), NEW target \in {"BLOCKED", "QUEUED"},
           z.th[t].state = "RUNNING", ~ z.th[t].markedForSleep, t \notin ToSet(z.fakeLeaves)
    PROVE  /\ Sound(deschedule(z, t, target), {z.th[t].cid}) /\ deschedule(z, t, target).failed = z.failed
           /\ Undisturbed(z, deschedule(z, t, target), {t}) /\ OthersSame(z, deschedule(z, t, target), t)
           /\ deschedule(z, t, target).th[t] = [z.th[t] EXCEPT !.state = target]
           /\ deschedule(z, t, target).runQueue = z.runQueue /\ deschedule(z, t, target).bar = z.bar
           /\ \A P, Y : None \notin P /\ z.th[t].handoffThread = None /\ z.bar[z.th[t].cid] # "wait"
              /\ Remembers(z, P, Y) => Remembers(deschedule(z, t, target), P, Y \cup {t})
  <1> DEFINE y == deschedule(z, t, target)
  <1>1. /\ z \in SchedRecords /\ None \notin Threads \cup Cores
        /\ ListsTyped(z) /\ \A u \in Threads : z.th[u] \in ThreadInfos /\ Mask[u] \subseteq Cores
        /\ \A d \in Cores : z.curThread[d] \in Threads \cup {None}
    BY SoundTypes
  <1>2. /\ y.th = [z.th EXCEPT ![t] = [z.th[t] EXCEPT !.state = target]]
        /\ y.curThread = [z.curThread EXCEPT ![z.th[t].cid] = None]
        /\ y.freeList = z.freeList /\ y.runQueue = z.runQueue /\ y.outQueue = z.outQueue
        /\ y.sleepQueue = z.sleepQueue /\ y.fakeLeaves = z.fakeLeaves /\ y.bar = z.bar
        /\ y.quantum = z.quantum /\ y.failed = z.failed
    BY <1>1 DEF deschedule, SchedRecords
  <1>3. y \in SchedRecords
    <2>1. [z.th[t] EXCEPT !.state = target] \in ThreadInfos
      BY <1>1 DEF ThreadInfos, States
    <2>2. y.th \in [Threads -> ThreadInfos]
      BY <1>1, <1>2, <2>1 DEF SchedRecords
    <2>3. y.curThread \in [Cores -> Threads \cup {None}]
      BY <1>1, <1>2 DEF SchedRecords
    <2> QED
      BY <1>1, <2>2, <2>3 DEF deschedule, SchedRecords
  <1> HIDE DEF y
  <1>4. /\ \A u \in Threads : u # t => y.th[u] = z.th[u]
        /\ y.th[t].state = target /\ y.th[t].cid = z.th[t].cid
        /\ y.th[t].handoffThread = z.th[t].handoffThread /\ y.th[t].futexWord = z.th[t].futexWord
        /\ y.th[t].markedForSleep = z.th[t].markedForSleep /\ y.th[t].left = z.th[t].left
    BY <1>1, <1>2 DEF SchedRecords, ThreadInfos
  <1>5. /\ y.curThread[z.th[t].cid] = None
        /\ \A d \in Cores : d # z.th[t].cid => y.curThread[d] = z.curThread[d]
    BY <1>1, <1>2 DEF SchedRecords, ThreadInfos
  <1>6. /\ HasCore(z, t) /\ z.th[t].state = "RUNNING" /\ ~ z.th[t].markedForSleep
        /\ t \notin ToSet(z.runQueue) /\ z.th[t].cid \in Cores /\ z.curThread[z.th[t].cid] = t
        /\ t \notin ToSet(z.fakeLeaves) /\ t \notin ToSet(z.outQueue) /\ t \notin ToSet(z.sleepQueue)
        /\ \A d \in Cores : d # z.th[t].cid => z.curThread[d] # t
        /\ \A u \in Threads : z.th[u].handoffThread # t
    BY <1>1 DEF Sound, CoresOf, HasCore, WordsOf, QueuesOf, PromisesOf, ThreadInfos, Sleepers
  <1>7. \A d \in Cores : Runs(y, d) <=> d # z.th[t].cid /\ Runs(z, d)
    BY <1>1, <1>4, <1>5, <1>6 DEF Runs
  <1>8. CoresOf(y, {z.th[t].cid})
    <2>1. \A d \in Cores, u \in Threads : y.curThread[d] = u <=> HasCore(y, u) /\ y.th[u].cid = d
      BY <1>1, <1>4, <1>5, <1>6 DEF Sound, CoresOf, HasCore
    <2>2. ToSet(y.freeList) = {d \in Cores \ {z.th[t].cid} : y.curThread[d] = None}
      BY <1>1, <1>2, <1>5, <1>6 DEF Sound, CoresOf
    <2>3. \A d \in Cores \ {z.th[t].cid} : y.bar[d] # "off" <=> Runs(y, d)
      BY <1>2, <1>5, <1>6, <1>7 DEF Sound, CoresOf
    <2>4. \A d \in {z.th[t].cid} : y.curThread[d] = None
      BY <1>5, <1>6 DEF Sound, CoresOf
    <2> QED
      BY <2>1, <2>2, <2>3, <2>4 DEF CoresOf
  <1>9. QueuesOf(y)
    BY <1>1, <1>2, <1>4, <1>5, <1>6 DEF Sound, QueuesOf, HasCore, Sleepers
  <1>10. WordsOf(y)
    BY <1>2, <1>4, <1>5, <1>6 DEF Sound, WordsOf
  <1>11. SleepersInOrder(y)
    <2>1. \A u \in Threads : y.th[u].left = z.th[u].left
      BY <1>4
    <2>2. \A i \in DOMAIN z.sleepQueue : z.sleepQueue[i] \in Threads
      BY <1>1 DEF SchedRecords
    <2> QED
      BY <1>2, <2>1, <2>2 DEF Sound, SleepersInOrder
  <1>12. PromisesOf(y)
    BY <1>1, <1>2, <1>4, <1>5, <1>6 DEF Sound, PromisesOf, QueuesOf
  <1>13. WorkOf(y, {z.th[t].cid})
    BY <1>1, <1>2, <1>5, <1>6, <1>7 DEF Sound, WorkOf, ListsTyped
  <1>14. Typed(y)
    BY <1>1, <1>2, <1>3 DEF Sound, Typed, IsList, ListsTyped
  <1>15. Undisturbed(z, y, {t}) /\ OthersSame(z, y, t)
    BY <1>1, <1>2, <1>4, <1>5, <1>6, SMTT(20) DEF Undisturbed, Drifts, OthersSame
  <1>16. ASSUME NEW P, NEW Y, None \notin P /\ z.th[t].handoffThread = None /\ z.bar[z.th[t].cid] # "wait"
              /\ Remembers(z, P, Y)
         PROVE  Remembers(y, P, Y \cup {t})
    BY <1>1, <1>2, <1>4, <1>5, <1>6, <1>16, SMTT(20) DEF Remembers, HasCore
  <1>17. y.th[t] = [z.th[t] EXCEPT !.state = target]
    BY <1>1, <1>2 DEF SchedRecords
  <1> QED
    BY <1>2, <1>8, <1>9, <1>10, <1>11, <1>12, <1>13, <1>14, <1>15, <1>16, <1>17, <1>4, <1>5, <1>6 DEF Sound, y

(* A thread that is out of its core gives it up. *)
LEMMA OutEndSound ==
    ASSUME NEW z, NEW t \in Threads, Sound(z, {}), NEW target \in {"BLOCKED", "NEW"},
           z.th[t].state = "OUT"
    PROVE  LET y == deschedule([z EXCEPT !.outQueue = RemoveFirst(@, t)], t, target)
           IN  /\ Sound(y, {z.th[t].cid}) /\ y.failed = z.failed
               /\ Undisturbed(z, y, {t}) /\ OthersSame(z, y, t)
               /\ y.th[t] = [z.th[t] EXCEPT !.state = target]
               /\ y.runQueue = z.runQueue /\ y.bar = z.bar
               /\ \A P, Y : None \notin P /\ Remembers(z, P, Y) => Remembers(y, P, Y)
  <1> DEFINE y == deschedule([z EXCEPT !.outQueue = RemoveFirst(@, t)], t, target)
  <1>1. /\ z \in SchedRecords /\ None \notin Threads \cup Cores
        /\ ListsTyped(z) /\ \A u \in Threads : z.th[u] \in ThreadInfos /\ Mask[u] \subseteq Cores
        /\ \A d \in Cores : z.curThread[d] \in Threads \cup {None}
    BY SoundTypes
  <1>2. /\ y.th = [z.th EXCEPT ![t] = [z.th[t] EXCEPT !.state = target]]
        /\ y.curThread = [z.curThread EXCEPT ![z.th[t].cid] = None]
        /\ y.outQueue = RemoveFirst(z.outQueue, t)
        /\ y.freeList = z.freeList /\ y.runQueue = z.runQueue /\ y.sleepQueue = z.sleepQueue
        /\ y.fakeLeaves = z.fakeLeaves /\ y.bar = z.bar /\ y.quantum = z.quantum
        /\ y.failed = z.failed
    BY <1>1 DEF deschedule, SchedRecords
  <1>3. y \in SchedRecords
    <2>1. [z.th[t] EXCEPT !.state = target] \in ThreadInfos
      BY <1>1 DEF ThreadInfos, States
    <2>2. y.th \in [Threads -> ThreadInfos]
      <3>1. z.th \in [Threads -> ThreadInfos]
        BY <1>1 DEF SchedRecords
      <3>2. y.th = [z.th EXCEPT ![t] = [z.th[t] EXCEPT !.state = target]]
        BY <1>2
      <3> HIDE DEF y
      <3> QED
        BY <2>1, <3>1, <3>2
    <2>3. y.curThread \in [Cores -> Threads \cup {None}]
      BY <1>1, <1>2 DEF SchedRecords
    <2>4. y.outQueue \in Seq(Threads)
      BY <1>1, <1>2, RemoveList DEF SchedRecords, ListsTyped, IsList
    <2> QED
      BY <1>1, <2>2, <2>3, <2>4 DEF deschedule, SchedRecords
  <1> HIDE DEF y
  <1>4. /\ \A u \in Threads : u # t => y.th[u] = z.th[u]
        /\ y.th[t].state = target /\ y.th[t].cid = z.th[t].cid
        /\ y.th[t].handoffThread = z.th[t].handoffThread /\ y.th[t].futexWord = z.th[t].futexWord
        /\ y.th[t].markedForSleep = z.th[t].markedForSleep /\ y.th[t].left = z.th[t].left
    BY <1>1, <1>2 DEF SchedRecords, ThreadInfos
  <1>5. /\ y.curThread[z.th[t].cid] = None
        /\ \A d \in Cores : d # z.th[t].cid => y.curThread[d] = z.curThread[d]
    BY <1>1, <1>2 DEF SchedRecords, ThreadInfos
  <1>6. /\ HasCore(z, t) /\ z.th[t].state = "OUT" /\ ~ z.th[t].markedForSleep
        /\ t \notin ToSet(z.runQueue) /\ z.th[t].cid \in Cores /\ z.curThread[z.th[t].cid] = t
        /\ t \notin ToSet(z.fakeLeaves) /\ t \notin ToSet(z.sleepQueue)
        /\ z.bar[z.th[t].cid] = "off"
        /\ ToSet(y.outQueue) = ToSet(z.outQueue) \ {t}
        /\ \A u \in Threads : z.th[u].handoffThread # t
    BY <1>1, <1>2, RemoveList DEF Sound, CoresOf, HasCore, Runs, WordsOf, QueuesOf, PromisesOf, ThreadInfos, Sleepers, ListsTyped
  <1>7. \A d \in Cores : Runs(y, d) <=> d # z.th[t].cid /\ Runs(z, d)
    BY <1>1, <1>4, <1>5, <1>6 DEF Runs
  <1>8. CoresOf(y, {z.th[t].cid})
    <2>1. \A d \in Cores, u \in Threads : y.curThread[d] = u <=> HasCore(y, u) /\ y.th[u].cid = d
      BY <1>1, <1>4, <1>5, <1>6 DEF Sound, CoresOf, HasCore
    <2>2. ToSet(y.freeList) = {d \in Cores \ {z.th[t].cid} : y.curThread[d] = None}
      BY <1>1, <1>2, <1>5, <1>6 DEF Sound, CoresOf
    <2>3. \A d \in Cores \ {z.th[t].cid} : y.bar[d] # "off" <=> Runs(y, d)
      BY <1>2, <1>5, <1>6, <1>7 DEF Sound, CoresOf
    <2>4. \A d \in {z.th[t].cid} : y.curThread[d] = None
      BY <1>5, <1>6 DEF Sound, CoresOf
    <2> QED
      BY <2>1, <2>2, <2>3, <2>4 DEF CoresOf
  <1>9. QueuesOf(y)
    BY <1>1, <1>2, <1>4, <1>5, <1>6 DEF Sound, QueuesOf, HasCore, Sleepers
  <1>10. WordsOf(y)
    BY <1>2, <1>4, <1>5, <1>6 DEF Sound, WordsOf
  <1>11. SleepersInOrder(y)
    <2>1. \A u \in Threads : y.th[u].left = z.th[u].left
      BY <1>4
    <2>2. \A i \in DOMAIN z.sleepQueue : z.sleepQueue[i] \in Threads
      BY <1>1 DEF SchedRecords
    <2> QED
      BY <1>2, <2>1, <2>2 DEF Sound, SleepersInOrder
  <1>12. PromisesOf(y)
    BY <1>1, <1>2, <1>4, <1>5, <1>6 DEF Sound, PromisesOf, QueuesOf
  <1>13. WorkOf(y, {z.th[t].cid})
    BY <1>1, <1>2, <1>5, <1>6, <1>7 DEF Sound, WorkOf, ListsTyped
  <1>14. Typed(y)
    BY <1>1, <1>2, <1>3, RemoveList DEF Sound, Typed, IsList, ListsTyped
  <1>15. Undisturbed(z, y, {t}) /\ OthersSame(z, y, t)
    BY <1>1, <1>2, <1>4, <1>5, <1>6, SMTT(20) DEF Undisturbed, Drifts, OthersSame
  <1>16. ASSUME NEW P, NEW Y, None \notin P /\ Remembers(z, P, Y)
         PROVE  Remembers(y, P, Y)
    BY <1>1, <1>2, <1>4, <1>5, <1>6, <1>16, SMTT(20) DEF Remembers, HasCore
  <1>17. y.th[t] = [z.th[t] EXCEPT !.state = target]
    BY <1>1, <1>2 DEF SchedRecords
  <1> QED
    BY <1>2, <1>8, <1>9, <1>10, <1>11, <1>12, <1>13, <1>14, <1>15, <1>16, <1>17, <1>4, <1>5, <1>6 DEF Sound, y

(* The core in transit is marked in the barrier. *)
LEMMA SetBarSound ==
    ASSUME NEW z, NEW c \in Cores, Sound(z, {c}), NEW b \in {"off", "run"}
    PROVE  LET y == [z EXCEPT !.bar[c] = b]
           IN  /\ Sound(y, {c}) /\ y.failed = z.failed /\ Undisturbed(z, y, {})
               /\ y.th = z.th /\ y.bar[c] = b /\ y.runQueue = z.runQueue
               /\ \A P, Y : Remembers(z, P, Y) => Remembers(y, P, Y)
  <1> DEFINE y == [z EXCEPT !.bar[c] = b]
  <1>1. z \in SchedRecords /\ None \notin Threads
    BY SoundTypes
  <1>2. /\ y \in SchedRecords /\ y.bar = [z.bar EXCEPT ![c] = b]
        /\ y.th = z.th /\ y.curThread = z.curThread /\ y.freeList = z.freeList
        /\ y.runQueue = z.runQueue /\ y.outQueue = z.outQueue /\ y.sleepQueue = z.sleepQueue
        /\ y.fakeLeaves = z.fakeLeaves /\ y.failed = z.failed
    BY <1>1 DEF SchedRecords
  <1> HIDE DEF y
  <1>3. y.bar[c] = b /\ \A d \in Cores : d # c => y.bar[d] = z.bar[d]
    BY <1>1, <1>2 DEF SchedRecords
  <1>4. CoresOf(y, {c})
    BY <1>2, <1>3 DEF Sound, CoresOf, HasCore, Runs
  <1>5. QueuesOf(y) /\ WordsOf(y) /\ SleepersInOrder(y) /\ PromisesOf(y) /\ WorkOf(y, {c}) /\ Typed(y)
    BY <1>2 DEF Sound, Typed, QueuesOf, Sleepers, WordsOf, SleepersInOrder, PromisesOf, WorkOf, Runs
  <1>6. Undisturbed(z, y, {})
    BY <1>2 DEF Undisturbed, Drifts
  <1>7. ASSUME NEW P, NEW Y, Remembers(z, P, Y)
        PROVE  Remembers(y, P, Y)
    <2>1. \A u \in Threads : z.th[u].state = "RUNNING" => z.th[u].cid # c
      BY <1>1 DEF Sound, CoresOf, HasCore
    <2> QED
      BY <1>1, <1>2, <1>3, <1>7, <2>1 DEF Remembers, SchedRecords, ThreadInfos
  <1> QED
    BY <1>2, <1>3, <1>4, <1>5, <1>6, <1>7 DEF Sound, y

(* A free core is taken. *)
LEMMA TakeFreeSound ==
    ASSUME NEW z, NEW c \in Cores, Sound(z, {}), z.curThread[c] = None
    PROVE  LET y == [z EXCEPT !.freeList = RemoveFirst(@, c)]
           IN  /\ Sound(y, {c}) /\ y.failed = z.failed /\ Undisturbed(z, y, {})
               /\ y.th = z.th /\ y.runQueue = z.runQueue
               /\ \A P, Y : Remembers(z, P, Y) => Remembers(y, P, Y)
  <1> DEFINE y == [z EXCEPT !.freeList = RemoveFirst(@, c)]
  <1>1. z \in SchedRecords /\ None \notin Threads /\ IsList(z.freeList, Cores)
    BY SoundTypes DEF ListsTyped
  <1>2. /\ IsList(RemoveFirst(z.freeList, c), Cores)
        /\ ToSet(RemoveFirst(z.freeList, c)) = ToSet(z.freeList) \ {c}
    BY <1>1, RemoveList
  <1>3. /\ y \in SchedRecords /\ y.freeList = RemoveFirst(z.freeList, c)
        /\ y.th = z.th /\ y.curThread = z.curThread /\ y.bar = z.bar
        /\ y.runQueue = z.runQueue /\ y.outQueue = z.outQueue /\ y.sleepQueue = z.sleepQueue
        /\ y.fakeLeaves = z.fakeLeaves /\ y.failed = z.failed
    BY <1>1, <1>2 DEF SchedRecords, IsList
  <1> HIDE DEF y
  <1>4. CoresOf(y, {c})
    BY <1>2, <1>3 DEF Sound, CoresOf, HasCore, Runs
  <1>5. QueuesOf(y) /\ WordsOf(y) /\ SleepersInOrder(y) /\ PromisesOf(y) /\ WorkOf(y, {c})
    BY <1>3 DEF Sound, QueuesOf, Sleepers, WordsOf, SleepersInOrder, PromisesOf, WorkOf, Runs
  <1>6. Typed(y)
    BY <1>2, <1>3 DEF Sound, Typed, IsList
  <1>7. Undisturbed(z, y, {})
    BY <1>3 DEF Undisturbed, Drifts
  <1>8. ASSUME NEW P, NEW Y, Remembers(z, P, Y)
        PROVE  Remembers(y, P, Y)
    BY <1>3, <1>8 DEF Remembers
  <1> QED
    BY <1>3, <1>4, <1>5, <1>6, <1>7, <1>8 DEF Sound, y

(* A core in transit becomes free: no thread that may run on it is queued. *)
LEMMA FreeSound ==
    ASSUME NEW z, NEW c \in Cores, Sound(z, {c}), z.bar[c] = "off",
           \A u \in ToSet(z.runQueue) : c \notin Mask[u]
    PROVE  LET y == [z EXCEPT !.freeList = Append(@, c)]
           IN  /\ Sound(y, {}) /\ y.failed = z.failed /\ Undisturbed(z, y, {})
               /\ y.th = z.th /\ y.runQueue = z.runQueue
               /\ \A P, Y : Remembers(z, P, Y) => Remembers(y, P, Y)
  <1> DEFINE y == [z EXCEPT !.freeList = Append(@, c)]
  <1>1. /\ z \in SchedRecords /\ None \notin Threads /\ IsList(z.freeList, Cores)
        /\ c \notin ToSet(z.freeList) /\ z.curThread[c] = None
    BY SoundTypes DEF ListsTyped, Sound, CoresOf
  <1>2. /\ IsList(Append(z.freeList, c), Cores)
        /\ ToSet(Append(z.freeList, c)) = ToSet(z.freeList) \cup {c}
    BY <1>1, AppendList
  <1>3. /\ y \in SchedRecords /\ y.freeList = Append(z.freeList, c)
        /\ y.th = z.th /\ y.curThread = z.curThread /\ y.bar = z.bar
        /\ y.runQueue = z.runQueue /\ y.outQueue = z.outQueue /\ y.sleepQueue = z.sleepQueue
        /\ y.fakeLeaves = z.fakeLeaves /\ y.failed = z.failed
    BY <1>1, <1>2 DEF SchedRecords, IsList
  <1> HIDE DEF y
  <1>4. CoresOf(y, {})
    BY <1>1, <1>2, <1>3 DEF Sound, CoresOf, HasCore, Runs
  <1>5. QueuesOf(y) /\ WordsOf(y) /\ SleepersInOrder(y) /\ PromisesOf(y) /\ WorkOf(y, {})
    BY <1>3 DEF Sound, QueuesOf, Sleepers, WordsOf, SleepersInOrder, PromisesOf, WorkOf, Runs
  <1>6. Typed(y)
    BY <1>2, <1>3 DEF Sound, Typed, IsList
  <1>7. Undisturbed(z, y, {})
    BY <1>3 DEF Undisturbed, Drifts
  <1>8. ASSUME NEW P, NEW Y, Remembers(z, P, Y)
        PROVE  Remembers(y, P, Y)
    BY <1>3, <1>8 DEF Remembers
  <1> QED
    BY <1>3, <1>4, <1>5, <1>6, <1>7, <1>8 DEF Sound, y

(* A thread that found no core waits for one. *)
LEMMA WaitSound ==
    ASSUME NEW z, NEW t \in Threads, Sound(z, {}),
           z.th[t].state \in {"BLOCKED", "STARTED", "QUEUED"}, t \notin ToSet(z.runQueue),
           \A u \in Threads : z.th[u].handoffThread # t, \A c \in Mask[t] : Runs(z, c)
    PROVE  /\ Sound(Wait(z, t), {}) /\ Wait(z, t).failed = z.failed
           /\ Undisturbed(z, Wait(z, t), {t}) /\ OthersSame(z, Wait(z, t), t)
           /\ \A P, Y : None \notin P /\ Remembers(z, P, Y) => Remembers(Wait(z, t), P, Y \ {t})
  <1> DEFINE y == Wait(z, t)
  <1>1. /\ z \in SchedRecords /\ None \notin Threads \cup Cores
        /\ ListsTyped(z) /\ \A u \in Threads : z.th[u] \in ThreadInfos /\ Mask[u] \subseteq Cores
        /\ \A d \in Cores : z.curThread[d] \in Threads \cup {None}
    BY SoundTypes
  <1>2. /\ y.th = [z.th EXCEPT ![t] = [z.th[t] EXCEPT !.state = "QUEUED", !.futexWord = 1]]
        /\ y.runQueue = Append(z.runQueue, t)
        /\ y.curThread = z.curThread /\ y.freeList = z.freeList /\ y.outQueue = z.outQueue
        /\ y.sleepQueue = z.sleepQueue /\ y.fakeLeaves = z.fakeLeaves /\ y.bar = z.bar
        /\ y.quantum = z.quantum /\ y.failed = z.failed
    BY <1>1 DEF Wait, SchedRecords
  <1>3. y \in SchedRecords
    <2>0. 1 \in 0 .. 1 /\ "QUEUED" \in States
      BY DEF States
    <2>1. [z.th[t] EXCEPT !.state = "QUEUED", !.futexWord = 1] \in ThreadInfos
      BY <1>1, <2>0 DEF ThreadInfos, States
    <2>2. y.th \in [Threads -> ThreadInfos]
      BY <1>1, <1>2, <2>1 DEF SchedRecords
    <2>3. y.runQueue \in Seq(Threads)
      BY <1>1, <1>2, AppendList DEF SchedRecords, ListsTyped, IsList
    <2> QED
      BY <1>1, <2>2, <2>3 DEF Wait, SchedRecords
  <1> HIDE DEF y
  <1>4. /\ \A u \in Threads : u # t => y.th[u] = z.th[u]
        /\ y.th[t].state = "QUEUED" /\ y.th[t].cid = z.th[t].cid
        /\ y.th[t].handoffThread = z.th[t].handoffThread /\ y.th[t].futexWord = 1
        /\ y.th[t].markedForSleep = z.th[t].markedForSleep /\ y.th[t].left = z.th[t].left
    BY <1>1, <1>2 DEF SchedRecords, ThreadInfos
  <1>5. y.curThread = z.curThread
    BY <1>1, <1>2 DEF SchedRecords, ThreadInfos
  <1>6. /\ ~ HasCore(z, t) /\ z.th[t].state # "SLEEPING" /\ ~ z.th[t].markedForSleep
        /\ \A d \in Cores : z.curThread[d] # t
        /\ IsList(y.runQueue, Threads) /\ ToSet(y.runQueue) = ToSet(z.runQueue) \cup {t}
    BY <1>1, <1>2, AppendList DEF Sound, CoresOf, HasCore, WordsOf, ListsTyped
  <1>7. \A d \in Cores : Runs(y, d) <=> Runs(z, d)
    BY <1>1, <1>4, <1>5, <1>6 DEF Runs
  <1>8. CoresOf(y, {})
    <2>1. \A d \in Cores, u \in Threads : y.curThread[d] = u <=> HasCore(y, u) /\ y.th[u].cid = d
      BY <1>1, <1>4, <1>5, <1>6 DEF Sound, CoresOf, HasCore
    <2>2. ToSet(y.freeList) = {d \in Cores : y.curThread[d] = None}
      BY <1>1, <1>2, <1>5, <1>6 DEF Sound, CoresOf
    <2>3. \A d \in Cores : y.bar[d] # "off" <=> Runs(y, d)
      BY <1>2, <1>5, <1>6, <1>7 DEF Sound, CoresOf
    <2> QED
      BY <2>1, <2>2, <2>3 DEF CoresOf
  <1>9. QueuesOf(y)
    BY <1>1, <1>2, <1>4, <1>5, <1>6 DEF Sound, QueuesOf, HasCore, Sleepers
  <1>10. WordsOf(y)
    BY <1>2, <1>4, <1>5, <1>6 DEF Sound, WordsOf
  <1>11. SleepersInOrder(y)
    <2>1. \A u \in Threads : y.th[u].left = z.th[u].left
      BY <1>4
    <2>2. \A i \in DOMAIN z.sleepQueue : z.sleepQueue[i] \in Threads
      BY <1>1 DEF SchedRecords
    <2> QED
      BY <1>2, <2>1, <2>2 DEF Sound, SleepersInOrder
  <1>12. PromisesOf(y)
    BY <1>1, <1>2, <1>4, <1>5, <1>6 DEF Sound, PromisesOf, QueuesOf
  <1>13. WorkOf(y, {})
    BY <1>1, <1>2, <1>5, <1>6, <1>7 DEF Sound, WorkOf, ListsTyped
  <1>14. Typed(y)
    BY <1>1, <1>2, <1>3, AppendList DEF Sound, Typed, IsList, ListsTyped
  <1>15. Undisturbed(z, y, {t}) /\ OthersSame(z, y, t)
    BY <1>1, <1>2, <1>4, <1>5, <1>6, SMTT(20) DEF Undisturbed, Drifts, OthersSame
  <1>16. ASSUME NEW P, NEW Y, None \notin P /\ Remembers(z, P, Y)
         PROVE  Remembers(y, P, Y \ {t})
    BY <1>1, <1>2, <1>4, <1>5, <1>6, <1>16, SMTT(20) DEF Remembers, HasCore
  <1>17. y.th[t] = [z.th[t] EXCEPT !.state = "QUEUED", !.futexWord = 1]
    BY <1>1, <1>2 DEF SchedRecords
  <1> QED
    BY <1>2, <1>8, <1>9, <1>10, <1>11, <1>12, <1>13, <1>14, <1>15, <1>16, <1>17, <1>4, <1>5, <1>6 DEF Sound, y

(* A thread leaves its core, which it may come back to. *)
LEMMA GoOutSound ==
    ASSUME NEW z, NEW t \in Threads, Sound(z, {}), NEW c, c = z.th[t].cid,
           z.th[t].state = "RUNNING", ~ z.th[t].markedForSleep, t \notin ToSet(z.fakeLeaves),
           \A u \in ToSet(z.runQueue) : c \notin Mask[u]
    PROVE  LET y == [z EXCEPT !.th[t].state = "OUT", !.bar[c] = "off", !.outQueue = Append(@, t)]
           IN  /\ Sound(y, {}) /\ y.failed = z.failed
               /\ Undisturbed(z, y, {t}) /\ OthersSame(z, y, t)
               /\ \A P, Y : None \notin P /\ z.th[t].handoffThread = None /\ Remembers(z, P, Y) => Remembers(y, P, Y)
  <1> DEFINE y == [z EXCEPT !.th[t].state = "OUT", !.bar[c] = "off", !.outQueue = Append(@, t)]
  <1>0. t \notin ToSet(z.outQueue)
    BY DEF Sound, QueuesOf
  <1>1. /\ z \in SchedRecords /\ None \notin Threads \cup Cores
        /\ ListsTyped(z) /\ \A u \in Threads : z.th[u] \in ThreadInfos /\ Mask[u] \subseteq Cores
        /\ \A d \in Cores : z.curThread[d] \in Threads \cup {None}
    BY SoundTypes
  <1>2. /\ y.th = [z.th EXCEPT ![t] = [z.th[t] EXCEPT !.state = "OUT"]]
        /\ y.bar = [z.bar EXCEPT ![c] = "off"]
        /\ y.outQueue = Append(z.outQueue, t)
        /\ y.curThread = z.curThread /\ y.freeList = z.freeList /\ y.runQueue = z.runQueue
        /\ y.sleepQueue = z.sleepQueue /\ y.fakeLeaves = z.fakeLeaves /\ y.quantum = z.quantum
        /\ y.failed = z.failed
    BY <1>1 DEF SchedRecords
  <1>3. y \in SchedRecords
    <2>1. [z.th[t] EXCEPT !.state = "OUT"] \in ThreadInfos
      BY <1>1 DEF ThreadInfos, States
    <2>2. y.th \in [Threads -> ThreadInfos]
      BY <1>1, <1>2, <2>1 DEF SchedRecords
    <2>3. y.bar \in [Cores -> {"off", "run", "wait"}]
      BY <1>1, <1>2 DEF SchedRecords
    <2>4. y.outQueue \in Seq(Threads)
      BY <1>1, <1>2, <1>0, AppendList DEF SchedRecords, ListsTyped, IsList
    <2> QED
      BY <1>1, <2>2, <2>3, <2>4 DEF SchedRecords
  <1> HIDE DEF y
  <1>4. /\ \A u \in Threads : u # t => y.th[u] = z.th[u]
        /\ y.th[t].state = "OUT" /\ y.th[t].cid = z.th[t].cid
        /\ y.th[t].handoffThread = z.th[t].handoffThread /\ y.th[t].futexWord = z.th[t].futexWord
        /\ y.th[t].markedForSleep = z.th[t].markedForSleep /\ y.th[t].left = z.th[t].left
    BY <1>1, <1>2 DEF SchedRecords, ThreadInfos
  <1>5. y.curThread = z.curThread
    BY <1>1, <1>2 DEF SchedRecords, ThreadInfos
  <1>6. /\ HasCore(z, t) /\ z.th[t].state = "RUNNING" /\ ~ z.th[t].markedForSleep
        /\ t \notin ToSet(z.runQueue) /\ c \in Cores /\ z.curThread[c] = t
        /\ t \notin ToSet(z.fakeLeaves) /\ t \notin ToSet(z.sleepQueue)
        /\ y.bar[c] = "off" /\ (\A d \in Cores : d # c => y.bar[d] = z.bar[d] /\ z.curThread[d] # t)
        /\ \A u \in Threads : u # t /\ z.th[u].state = "RUNNING" => z.th[u].cid # c
        /\ IsList(y.outQueue, Threads) /\ ToSet(y.outQueue) = ToSet(z.outQueue) \cup {t}
        /\ \A u \in Threads : z.th[u].handoffThread # t
    <2>1. HasCore(z, t) /\ z.th[t].state = "RUNNING" /\ ~ z.th[t].markedForSleep
      BY <1>1 DEF Sound, CoresOf, HasCore, WordsOf, ThreadInfos
    <2>2. t \notin ToSet(z.runQueue) /\ c \in Cores /\ z.curThread[c] = t
      BY <1>1 DEF Sound, CoresOf, HasCore, QueuesOf, ThreadInfos
    <2>3. t \notin ToSet(z.fakeLeaves) /\ t \notin ToSet(z.sleepQueue)
      BY <1>1 DEF Sound, QueuesOf, Sleepers
    <2>4. y.bar[c] = "off" /\ (\A d \in Cores : d # c => y.bar[d] = z.bar[d] /\ z.curThread[d] # t)
      BY <1>1, <1>2 DEF Sound, CoresOf, HasCore, SchedRecords, ThreadInfos
    <2>5. \A u \in Threads : u # t /\ z.th[u].state = "RUNNING" => z.th[u].cid # c
      BY <1>1, <2>2 DEF Sound, CoresOf, HasCore
    <2>6. IsList(y.outQueue, Threads) /\ ToSet(y.outQueue) = ToSet(z.outQueue) \cup {t}
      BY <1>0, <1>1, <1>2, AppendList DEF ListsTyped
    <2>7. \A u \in Threads : z.th[u].handoffThread # t
      BY <1>1 DEF Sound, PromisesOf
    <2> QED
      BY <2>1, <2>2, <2>3, <2>4, <2>5, <2>6, <2>7
  <1>7. \A d \in Cores : Runs(y, d) <=> d # c /\ Runs(z, d)
    BY <1>1, <1>4, <1>5, <1>6 DEF Runs
  <1>8. CoresOf(y, {})
    <2>1. \A d \in Cores, u \in Threads : y.curThread[d] = u <=> HasCore(y, u) /\ y.th[u].cid = d
      BY <1>1, <1>4, <1>5, <1>6 DEF Sound, CoresOf, HasCore
    <2>2. ToSet(y.freeList) = {d \in Cores : y.curThread[d] = None}
      BY <1>1, <1>2, <1>5, <1>6 DEF Sound, CoresOf
    <2>3. \A d \in Cores : y.bar[d] # "off" <=> Runs(y, d)
      BY <1>2, <1>5, <1>6, <1>7 DEF Sound, CoresOf
    <2> QED
      BY <2>1, <2>2, <2>3 DEF CoresOf
  <1>9. QueuesOf(y)
    BY <1>1, <1>2, <1>4, <1>5, <1>6 DEF Sound, QueuesOf, HasCore, Sleepers
  <1>10. WordsOf(y)
    BY <1>2, <1>4, <1>5, <1>6 DEF Sound, WordsOf
  <1>11. SleepersInOrder(y)
    <2>1. \A u \in Threads : y.th[u].left = z.th[u].left
      BY <1>4
    <2>2. \A i \in DOMAIN z.sleepQueue : z.sleepQueue[i] \in Threads
      BY <1>1 DEF SchedRecords
    <2> QED
      BY <1>2, <2>1, <2>2 DEF Sound, SleepersInOrder
  <1>12. PromisesOf(y)
    BY <1>1, <1>2, <1>4, <1>5, <1>6 DEF Sound, PromisesOf, QueuesOf
  <1>13. WorkOf(y, {})
    BY <1>1, <1>2, <1>5, <1>6, <1>7 DEF Sound, WorkOf, ListsTyped
  <1>14. Typed(y)
    BY <1>1, <1>2, <1>3, <1>0, AppendList DEF Sound, Typed, IsList, ListsTyped
  <1>15. Undisturbed(z, y, {t}) /\ OthersSame(z, y, t)
    BY <1>1, <1>2, <1>4, <1>5, <1>6, SMTT(20) DEF Undisturbed, Drifts, OthersSame
  <1>16. ASSUME NEW P, NEW Y, None \notin P /\ z.th[t].handoffThread = None /\ Remembers(z, P, Y)
         PROVE  Remembers(y, P, Y)
    BY <1>1, <1>2, <1>4, <1>5, <1>6, <1>16, SMTT(20) DEF Remembers, HasCore
  <1>17. y.th[t] = [z.th[t] EXCEPT !.state = "OUT"]
    BY <1>1, <1>2 DEF SchedRecords
  <1> QED
    BY <1>2, <1>8, <1>9, <1>10, <1>11, <1>12, <1>13, <1>14, <1>15, <1>16, <1>17, <1>4, <1>5, <1>6 DEF Sound, y

(* A thread comes back to the core it is out of. *)
LEMMA ComeBackSound ==
    ASSUME NEW z, NEW t \in Threads, Sound(z, {}), NEW c, c = z.th[t].cid, z.th[t].state = "OUT"
    PROVE  LET y == [z EXCEPT !.th[t].state = "RUNNING", !.outQueue = RemoveFirst(@, t), !.bar[c] = "run"]
           IN  /\ Sound(y, {}) /\ y.failed = z.failed
               /\ Undisturbed(z, y, {t}) /\ OthersSame(z, y, t)
               /\ \A P, Y : None \notin P /\ Remembers(z, P, Y) => Remembers(y, P, Y)
  <1> DEFINE y == [z EXCEPT !.th[t].state = "RUNNING", !.outQueue = RemoveFirst(@, t), !.bar[c] = "run"]
  <1>1. /\ z \in SchedRecords /\ None \notin Threads \cup Cores
        /\ ListsTyped(z) /\ \A u \in Threads : z.th[u] \in ThreadInfos /\ Mask[u] \subseteq Cores
        /\ \A d \in Cores : z.curThread[d] \in Threads \cup {None}
    BY SoundTypes
  <1>2. /\ y.th = [z.th EXCEPT ![t] = [z.th[t] EXCEPT !.state = "RUNNING"]]
        /\ y.bar = [z.bar EXCEPT ![c] = "run"]
        /\ y.outQueue = RemoveFirst(z.outQueue, t)
        /\ y.curThread = z.curThread /\ y.freeList = z.freeList /\ y.runQueue = z.runQueue
        /\ y.sleepQueue = z.sleepQueue /\ y.fakeLeaves = z.fakeLeaves /\ y.quantum = z.quantum
        /\ y.failed = z.failed
    BY <1>1 DEF SchedRecords
  <1>3. y \in SchedRecords
    <2>1. [z.th[t] EXCEPT !.state = "RUNNING"] \in ThreadInfos
      BY <1>1 DEF ThreadInfos, States
    <2>2. y.th \in [Threads -> ThreadInfos]
      BY <1>1, <1>2, <2>1 DEF SchedRecords
    <2>3. y.bar \in [Cores -> {"off", "run", "wait"}]
      BY <1>1, <1>2 DEF SchedRecords
    <2>4. y.outQueue \in Seq(Threads)
      BY <1>1, <1>2, RemoveList DEF SchedRecords, ListsTyped, IsList
    <2> QED
      BY <1>1, <2>2, <2>3, <2>4 DEF SchedRecords
  <1> HIDE DEF y
  <1>4. /\ \A u \in Threads : u # t => y.th[u] = z.th[u]
        /\ y.th[t].state = "RUNNING" /\ y.th[t].cid = z.th[t].cid
        /\ y.th[t].handoffThread = z.th[t].handoffThread /\ y.th[t].futexWord = z.th[t].futexWord
        /\ y.th[t].markedForSleep = z.th[t].markedForSleep /\ y.th[t].left = z.th[t].left
    BY <1>1, <1>2 DEF SchedRecords, ThreadInfos
  <1>5. y.curThread = z.curThread
    BY <1>1, <1>2 DEF SchedRecords, ThreadInfos
  <1>6. /\ HasCore(z, t) /\ z.th[t].state = "OUT" /\ ~ z.th[t].markedForSleep
        /\ t \notin ToSet(z.runQueue) /\ c \in Cores /\ z.curThread[c] = t
        /\ t \notin ToSet(z.fakeLeaves) /\ t \notin ToSet(z.sleepQueue)
        /\ y.bar[c] = "run" /\ \A d \in Cores : d # c => y.bar[d] = z.bar[d] /\ z.curThread[d] # t
        /\ IsList(y.outQueue, Threads) /\ ToSet(y.outQueue) = ToSet(z.outQueue) \ {t}
        /\ \A u \in Threads : z.th[u].handoffThread # t
    <2>1. HasCore(z, t) /\ z.th[t].state = "OUT" /\ ~ z.th[t].markedForSleep
      BY <1>1 DEF Sound, CoresOf, HasCore, WordsOf, ThreadInfos
    <2>2. t \notin ToSet(z.runQueue) /\ c \in Cores /\ z.curThread[c] = t
      BY <1>1 DEF Sound, CoresOf, HasCore, QueuesOf, ThreadInfos
    <2>3. t \notin ToSet(z.fakeLeaves) /\ t \notin ToSet(z.sleepQueue)
      BY <1>1 DEF Sound, QueuesOf, Sleepers
    <2>4. y.bar[c] = "run" /\ \A d \in Cores : d # c => y.bar[d] = z.bar[d] /\ z.curThread[d] # t
      BY <1>1, <1>2 DEF Sound, CoresOf, HasCore, SchedRecords, ThreadInfos
    <2>5. IsList(y.outQueue, Threads) /\ ToSet(y.outQueue) = ToSet(z.outQueue) \ {t}
      BY <1>1, <1>2, RemoveList DEF ListsTyped
    <2>6. \A u \in Threads : z.th[u].handoffThread # t
      BY <1>1 DEF Sound, PromisesOf
    <2> QED
      BY <2>1, <2>2, <2>3, <2>4, <2>5, <2>6
  <1>7. \A d \in Cores : Runs(y, d) <=> d = c \/ Runs(z, d)
    BY <1>1, <1>4, <1>5, <1>6 DEF Runs
  <1>8. CoresOf(y, {})
    <2>1. \A d \in Cores, u \in Threads : y.curThread[d] = u <=> HasCore(y, u) /\ y.th[u].cid = d
      BY <1>1, <1>4, <1>5, <1>6 DEF Sound, CoresOf, HasCore
    <2>2. ToSet(y.freeList) = {d \in Cores : y.curThread[d] = None}
      BY <1>1, <1>2, <1>5, <1>6 DEF Sound, CoresOf
    <2>3. \A d \in Cores : y.bar[d] # "off" <=> Runs(y, d)
      BY <1>2, <1>5, <1>6, <1>7 DEF Sound, CoresOf
    <2> QED
      BY <2>1, <2>2, <2>3 DEF CoresOf
  <1>9. QueuesOf(y)
    BY <1>1, <1>2, <1>4, <1>5, <1>6 DEF Sound, QueuesOf, HasCore, Sleepers
  <1>10. WordsOf(y)
    BY <1>2, <1>4, <1>5, <1>6 DEF Sound, WordsOf
  <1>11. SleepersInOrder(y)
    <2>1. \A u \in Threads : y.th[u].left = z.th[u].left
      BY <1>4
    <2>2. \A i \in DOMAIN z.sleepQueue : z.sleepQueue[i] \in Threads
      BY <1>1 DEF SchedRecords
    <2> QED
      BY <1>2, <2>1, <2>2 DEF Sound, SleepersInOrder
  <1>12. PromisesOf(y)
    BY <1>1, <1>2, <1>4, <1>5, <1>6 DEF Sound, PromisesOf, QueuesOf
  <1>13. WorkOf(y, {})
    BY <1>1, <1>2, <1>5, <1>6, <1>7 DEF Sound, WorkOf, ListsTyped
  <1>14. Typed(y)
    BY <1>1, <1>2, <1>3, RemoveList DEF Sound, Typed, IsList, ListsTyped
  <1>15. Undisturbed(z, y, {t}) /\ OthersSame(z, y, t)
    BY <1>1, <1>2, <1>4, <1>5, <1>6, SMTT(20) DEF Undisturbed, Drifts, OthersSame
  <1>16. ASSUME NEW P, NEW Y, None \notin P /\ Remembers(z, P, Y)
         PROVE  Remembers(y, P, Y)
    BY <1>1, <1>2, <1>4, <1>5, <1>6, <1>16, SMTT(20) DEF Remembers, HasCore
  <1>17. y.th[t] = [z.th[t] EXCEPT !.state = "RUNNING"]
    BY <1>1, <1>2, SMTT(20) DEF SchedRecords
  <1> QED
    BY <1>2, <1>8, <1>9, <1>10, <1>11, <1>12, <1>13, <1>14, <1>15, <1>16, <1>17, <1>4, <1>5, <1>6 DEF Sound, y

(* The sleep of a thread ends before its time. *)
LEMMA EarlyEndSound ==
    ASSUME NEW z, NEW t \in Threads, Sound(z, {}), z.th[t].state = "SLEEPING"
    PROVE  LET y == [z EXCEPT !.th[t].state = "BLOCKED", !.th[t].left = 0, !.sleepQueue = RemoveFirst(@, t)]
           IN  /\ Sound(y, {}) /\ y.failed = z.failed
               /\ Undisturbed(z, y, {t}) /\ OthersSame(z, y, t)
               /\ \A P, Y : None \notin P /\ Remembers(z, P, Y) => Remembers(y, P, Y)
  <1> DEFINE y == [z EXCEPT !.th[t].state = "BLOCKED", !.th[t].left = 0, !.sleepQueue = RemoveFirst(@, t)]
  <1>1. /\ z \in SchedRecords /\ None \notin Threads \cup Cores
        /\ ListsTyped(z) /\ \A u \in Threads : z.th[u] \in ThreadInfos /\ Mask[u] \subseteq Cores
        /\ \A d \in Cores : z.curThread[d] \in Threads \cup {None}
    BY SoundTypes
  <1>2. /\ y.th = [z.th EXCEPT ![t] = [z.th[t] EXCEPT !.state = "BLOCKED", !.left = 0]]
        /\ y.sleepQueue = RemoveFirst(z.sleepQueue, t)
        /\ y.curThread = z.curThread /\ y.freeList = z.freeList /\ y.runQueue = z.runQueue
        /\ y.outQueue = z.outQueue /\ y.fakeLeaves = z.fakeLeaves /\ y.bar = z.bar
        /\ y.quantum = z.quantum /\ y.failed = z.failed
    BY <1>1 DEF SchedRecords
  <1>3. y \in SchedRecords
    <2>1. [z.th[t] EXCEPT !.state = "BLOCKED", !.left = 0] \in ThreadInfos
      BY <1>1 DEF ThreadInfos, States
    <2>2. y.th \in [Threads -> ThreadInfos]
      BY <1>1, <1>2, <2>1 DEF SchedRecords
    <2>3. y.sleepQueue \in Seq(Threads)
      BY <1>1, <1>2, RemoveList DEF SchedRecords, ListsTyped, IsList
    <2> QED
      BY <1>1, <2>2, <2>3 DEF SchedRecords
  <1> HIDE DEF y
  <1>4. /\ \A u \in Threads : u # t => y.th[u] = z.th[u]
        /\ y.th[t].state = "BLOCKED" /\ y.th[t].cid = z.th[t].cid
        /\ y.th[t].handoffThread = z.th[t].handoffThread /\ y.th[t].futexWord = z.th[t].futexWord
        /\ y.th[t].markedForSleep = z.th[t].markedForSleep /\ y.th[t].left = 0
    BY <1>1, <1>2 DEF SchedRecords, ThreadInfos
  <1>5. y.curThread = z.curThread
    BY <1>1, <1>2 DEF SchedRecords, ThreadInfos
  <1>6. /\ ~ HasCore(z, t) /\ z.th[t].state = "SLEEPING" /\ ~ z.th[t].markedForSleep
        /\ (\A d \in Cores : z.curThread[d] # t) /\ t \notin ToSet(z.runQueue)
        /\ IsList(y.sleepQueue, Threads) /\ ToSet(y.sleepQueue) = ToSet(z.sleepQueue) \ {t}
           /\ Thins(y.sleepQueue, z.sleepQueue)
        /\ \A u \in Threads : z.th[u].handoffThread # t
    <2>1. ~ HasCore(z, t) /\ z.th[t].state = "SLEEPING" /\ ~ z.th[t].markedForSleep
      BY <1>1 DEF Sound, HasCore, WordsOf
    <2>2. (\A d \in Cores : z.curThread[d] # t) /\ t \notin ToSet(z.runQueue)
      BY <1>1 DEF Sound, CoresOf, HasCore, QueuesOf
    <2>3. IsList(y.sleepQueue, Threads) /\ ToSet(y.sleepQueue) = ToSet(z.sleepQueue) \ {t}
           /\ Thins(y.sleepQueue, z.sleepQueue)
      BY <1>1, <1>2, RemoveList DEF ListsTyped
    <2>4. \A u \in Threads : z.th[u].handoffThread # t
      BY <1>1 DEF Sound, PromisesOf
    <2> QED
      BY <2>1, <2>2, <2>3, <2>4
  <1>7. \A d \in Cores : Runs(y, d) <=> Runs(z, d)
    BY <1>1, <1>4, <1>5, <1>6 DEF Runs
  <1>8. CoresOf(y, {})
    <2>1. \A d \in Cores, u \in Threads : y.curThread[d] = u <=> HasCore(y, u) /\ y.th[u].cid = d
      BY <1>1, <1>4, <1>5, <1>6 DEF Sound, CoresOf, HasCore
    <2>2. ToSet(y.freeList) = {d \in Cores : y.curThread[d] = None}
      BY <1>1, <1>2, <1>5, <1>6 DEF Sound, CoresOf
    <2>3. \A d \in Cores : y.bar[d] # "off" <=> Runs(y, d)
      BY <1>2, <1>5, <1>6, <1>7 DEF Sound, CoresOf
    <2> QED
      BY <2>1, <2>2, <2>3 DEF CoresOf
  <1>9. QueuesOf(y)
    BY <1>1, <1>2, <1>4, <1>5, <1>6 DEF Sound, QueuesOf, HasCore, Sleepers
  <1>10. WordsOf(y)
    BY <1>2, <1>4, <1>5, <1>6 DEF Sound, WordsOf
  <1>11. SleepersInOrder(y)
    <2>1. \A i \in DOMAIN y.sleepQueue : y.sleepQueue[i] \in Threads /\ y.sleepQueue[i] # t
      <3>1. \A i \in DOMAIN y.sleepQueue : y.sleepQueue[i] \in ToSet(y.sleepQueue)
        BY DEF ToSet
      <3> QED
        BY <1>1, <1>6, <3>1 DEF ListsTyped
    <2>2. \A i \in DOMAIN y.sleepQueue : y.th[y.sleepQueue[i]].left = z.th[y.sleepQueue[i]].left
      BY <1>4, <2>1
    <2> QED
      BY <1>6, <2>2 DEF Sound, SleepersInOrder, Thins
  <1>12. PromisesOf(y)
    BY <1>1, <1>2, <1>4, <1>5, <1>6 DEF Sound, PromisesOf, QueuesOf
  <1>13. WorkOf(y, {})
    BY <1>1, <1>2, <1>5, <1>6, <1>7 DEF Sound, WorkOf, ListsTyped
  <1>14. Typed(y)
    BY <1>1, <1>2, <1>3, RemoveList DEF Sound, Typed, IsList, ListsTyped
  <1>15. Undisturbed(z, y, {t}) /\ OthersSame(z, y, t)
    BY <1>1, <1>2, <1>4, <1>5, <1>6, SMTT(20) DEF Undisturbed, Drifts, OthersSame
  <1>16. ASSUME NEW P, NEW Y, None \notin P /\ Remembers(z, P, Y)
         PROVE  Remembers(y, P, Y)
    BY <1>1, <1>2, <1>4, <1>5, <1>6, <1>16, SMTT(20) DEF Remembers, HasCore
  <1>17. y.th[t] = [z.th[t] EXCEPT !.state = "BLOCKED", !.left = 0]
    BY <1>1, <1>2 DEF SchedRecords
  <1> QED
    BY <1>2, <1>8, <1>9, <1>10, <1>11, <1>12, <1>13, <1>14, <1>15, <1>16, <1>17, <1>4, <1>5, <1>6 DEF Sound, y

(* Place p is behind those of m numbers that are no greater than n, before all others. *)
Splits(p, m, l, n) ==
    /\ p \in 1 .. m + 1
    /\ \A i \in 1 .. m : i < p => l[i] <= n
    /\ \A i \in 1 .. m : ~ (i < p) => l[i] > n

(* The place of n among m numbers in order. *)
LEMMA PlaceInOrder ==
    ASSUME NEW m \in Nat, NEW l \in [1 .. m -> Nat], NEW n \in Nat,
           \A i, j \in 1 .. m : i < j => l[i] <= l[j],
           NEW place, place = IF {i \in 1 .. m : l[i] > n} = {} THEN m + 1
                              ELSE Min({i \in 1 .. m : l[i] > n})
    PROVE  Splits(place, m, l, n)
  <1> DEFINE later == {i \in 1 .. m : l[i] > n}
             p == IF later = {} THEN m + 1 ELSE Min(later)
  <1>1. ASSUME later = {}
        PROVE  /\ p \in 1 .. m + 1
               /\ \A i \in 1 .. m : i < p => l[i] <= n
               /\ \A i \in 1 .. m : ~ (i < p) => l[i] > n
    <2>1. p = m + 1
      BY <1>1
    <2>2. \A i \in 1 .. m : l[i] <= n
      <3>1. \A i \in 1 .. m : i \notin later
        BY <1>1
      <3> QED
        BY <3>1
    <2> HIDE DEF p
    <2>3. p \in 1 .. m + 1 /\ \A i \in 1 .. m : i < p
      BY <2>1
    <2> QED
      BY <2>2, <2>3
  <1>2. ASSUME later # {}
        PROVE  /\ p \in 1 .. m + 1
               /\ \A i \in 1 .. m : i < p => l[i] <= n
               /\ \A i \in 1 .. m : ~ (i < p) => l[i] > n
    <2>1. later \in SUBSET Nat
      OBVIOUS
    <2>2. p = Min(later)
      BY <1>2
    <2>3. \A i \in 1 .. m : i \in later <=> l[i] > n
      OBVIOUS
    <2>4. later \subseteq 1 .. m
      OBVIOUS
    <2> HIDE DEF p, later
    <2>5. p \in later /\ \A k \in later : p <= k
      BY <1>2, <2>1, <2>2, MinIsLeast
    <2>6. p \in 1 .. m /\ l[p] > n
      BY <2>3, <2>4, <2>5
    <2>7. \A i \in 1 .. m : i < p => ~ (l[i] > n)
      BY <2>3, <2>5, <2>6
    <2>8. \A i \in 1 .. m : i < p => l[i] <= n
      BY <2>7
    <2>9. ASSUME NEW i \in 1 .. m, ~ (i < p)
          PROVE  l[i] > n
      <3>1. i = p \/ p < i
        BY <2>6, <2>9
      <3>2. l[p] <= l[i]
        BY <2>6, <3>1
      <3> QED
        BY <2>6, <3>2
    <2>10. p \in 1 .. m + 1
      BY <2>6
    <2> QED
      BY <2>8, <2>9, <2>10
  <1>4. place = p
    OBVIOUS
  <1> HIDE DEF p, later
  <1>3. /\ p \in 1 .. m + 1
        /\ \A i \in 1 .. m : i < p => l[i] <= n
        /\ \A i \in 1 .. m : ~ (i < p) => l[i] > n
    BY <1>1, <1>2
  <1> QED
    BY <1>3, <1>4, Zenon DEF Splits

(* What deschedule changes. *)
Descheduled(z, x, t, target) ==
    /\ x \in SchedRecords
    /\ x.curThread = [z.curThread EXCEPT ![z.th[t].cid] = None]
    /\ x.freeList = z.freeList /\ x.runQueue = z.runQueue /\ x.outQueue = z.outQueue
    /\ x.sleepQueue = z.sleepQueue /\ x.fakeLeaves = z.fakeLeaves /\ x.bar = z.bar
    /\ x.quantum = z.quantum /\ x.failed = z.failed
    /\ x.th[t].state = target /\ x.th[t].cid = z.th[t].cid
    /\ x.th[t].handoffThread = z.th[t].handoffThread
    /\ x.th[t].futexWord = z.th[t].futexWord
    /\ x.th[t].markedForSleep = z.th[t].markedForSleep /\ x.th[t].left = z.th[t].left
    /\ \A u \in Threads : u # t => x.th[u] = z.th[u]

(* What deschedule changes. *)
LEMMA DescheduleFields ==
    ASSUME NEW z \in SchedRecords, NEW t \in Threads, NEW target \in States,
           NEW x, x = deschedule(z, t, target)
    PROVE  Descheduled(z, x, t, target)
  <1>1. /\ x.th = [z.th EXCEPT ![t] = [z.th[t] EXCEPT !.state = target]]
        /\ x.curThread = [z.curThread EXCEPT ![z.th[t].cid] = None]
        /\ x.freeList = z.freeList /\ x.runQueue = z.runQueue /\ x.outQueue = z.outQueue
        /\ x.sleepQueue = z.sleepQueue /\ x.fakeLeaves = z.fakeLeaves /\ x.bar = z.bar
        /\ x.quantum = z.quantum /\ x.failed = z.failed
    BY DEF deschedule, SchedRecords
  <1>2. x \in SchedRecords
    <2>0. z.th[t] \in ThreadInfos
      BY DEF SchedRecords
    <2>1. [z.th[t] EXCEPT !.state = target] \in ThreadInfos
      BY <2>0 DEF ThreadInfos
    <2>2. x.th \in [Threads -> ThreadInfos]
      BY <1>1, <2>1 DEF SchedRecords
    <2>3. x.curThread \in [Cores -> Threads \cup {None}]
      BY <1>1 DEF SchedRecords
    <2> QED
      BY <2>2, <2>3 DEF deschedule, SchedRecords
  <1>3. /\ x.th[t].state = target /\ x.th[t].cid = z.th[t].cid
        /\ x.th[t].handoffThread = z.th[t].handoffThread
        /\ x.th[t].futexWord = z.th[t].futexWord
        /\ x.th[t].markedForSleep = z.th[t].markedForSleep /\ x.th[t].left = z.th[t].left
        /\ \A u \in Threads : u # t => x.th[u] = z.th[u]
    BY <1>1 DEF SchedRecords, ThreadInfos
  <1> QED
    BY <1>1, <1>2, <1>3 DEF Descheduled

(* What PutToSleep changes but for the place it chooses. *)
Unmarked(x, y, t, q) ==
    /\ y \in SchedRecords /\ y.curThread = x.curThread
    /\ y.freeList = x.freeList /\ y.runQueue = x.runQueue /\ y.outQueue = x.outQueue
    /\ y.sleepQueue = q /\ y.fakeLeaves = x.fakeLeaves /\ y.bar = x.bar
    /\ y.quantum = x.quantum /\ y.failed = x.failed
    /\ y.th[t].state = x.th[t].state /\ y.th[t].cid = x.th[t].cid
    /\ y.th[t].handoffThread = x.th[t].handoffThread
    /\ y.th[t].futexWord = x.th[t].futexWord
    /\ ~ y.th[t].markedForSleep /\ y.th[t].left = x.th[t].left
    /\ \A u \in Threads : u # t => y.th[u] = x.th[u]

(* What PutToSleep changes but for the place it chooses. *)
LEMMA UnmarkFields ==
    ASSUME NEW x \in SchedRecords, NEW t \in Threads, NEW q \in Seq(Threads),
           NEW y, y = [x EXCEPT !.sleepQueue = q, !.th[t].markedForSleep = FALSE]
    PROVE  Unmarked(x, y, t, q)
  <1>1. /\ y.th = [x.th EXCEPT ![t] = [x.th[t] EXCEPT !.markedForSleep = FALSE]]
        /\ y.curThread = x.curThread
        /\ y.freeList = x.freeList /\ y.runQueue = x.runQueue /\ y.outQueue = x.outQueue
        /\ y.sleepQueue = q /\ y.fakeLeaves = x.fakeLeaves /\ y.bar = x.bar
        /\ y.quantum = x.quantum /\ y.failed = x.failed
    BY DEF SchedRecords
  <1>2. y \in SchedRecords
    <2>0. x.th[t] \in ThreadInfos
      BY DEF SchedRecords
    <2>1. [x.th[t] EXCEPT !.markedForSleep = FALSE] \in ThreadInfos
      BY <2>0 DEF ThreadInfos
    <2>2. y.th \in [Threads -> ThreadInfos]
      BY <1>1, <2>1 DEF SchedRecords
    <2> QED
      BY <2>2 DEF SchedRecords
  <1>3. /\ y.th[t].state = x.th[t].state /\ y.th[t].cid = x.th[t].cid
        /\ y.th[t].handoffThread = x.th[t].handoffThread
        /\ y.th[t].futexWord = x.th[t].futexWord
        /\ ~ y.th[t].markedForSleep /\ y.th[t].left = x.th[t].left
        /\ \A u \in Threads : u # t => y.th[u] = x.th[u]
    BY <1>1 DEF SchedRecords, ThreadInfos
  <1> QED
    BY <1>1, <1>2, <1>3 DEF Unmarked

(* Thread t has been put into the sleep queue at p, its place by wakeup phase. *)
SleepsAt(z, y, t, p) ==
    /\ y \in SchedRecords
    /\ y.curThread = [z.curThread EXCEPT ![z.th[t].cid] = None]
    /\ y.sleepQueue = InsertAt(z.sleepQueue, p, t)
    /\ y.freeList = z.freeList /\ y.runQueue = z.runQueue /\ y.outQueue = z.outQueue
    /\ y.fakeLeaves = z.fakeLeaves /\ y.bar = z.bar /\ y.quantum = z.quantum
    /\ y.failed = z.failed
    /\ \A u \in Threads : u # t => y.th[u] = z.th[u]
    /\ y.th[t].state = "SLEEPING" /\ y.th[t].cid = z.th[t].cid
    /\ y.th[t].handoffThread = z.th[t].handoffThread /\ y.th[t].futexWord = z.th[t].futexWord
    /\ ~ y.th[t].markedForSleep /\ y.th[t].left = z.th[t].left
    /\ p \in 1 .. Len(z.sleepQueue) + 1
    /\ \A k \in DOMAIN z.sleepQueue : k < p => z.th[z.sleepQueue[k]].left <= z.th[t].left
    /\ \A k \in DOMAIN z.sleepQueue : ~ (k < p) => z.th[z.sleepQueue[k]].left > z.th[t].left

(* A thread that falls asleep is put at its place. *)
LEMMA AsleepAtPlace ==
    ASSUME NEW z, NEW t \in Threads, Sound(z, {}), z.th[t].state = "RUNNING"
    PROVE  \E p : SleepsAt(z, PutToSleep(deschedule(z, t, "SLEEPING"), t), t, p)
  <1> DEFINE y == PutToSleep(deschedule(z, t, "SLEEPING"), t)
             x == deschedule(z, t, "SLEEPING")
             q == z.sleepQueue
             later == {i \in DOMAIN q : z.th[q[i]].left > z.th[t].left}
             p == IF later = {} THEN Len(q) + 1 ELSE Min(later)
  <1>1. z \in SchedRecords
    BY SoundTypes
  <1>2. /\ z.th[t].left \in Nat
        /\ IsList(q, Threads) /\ Len(q) \in Nat /\ DOMAIN q = 1 .. Len(q)
        /\ \A i \in DOMAIN q : q[i] \in Threads /\ z.th[q[i]].left \in Nat
    BY <1>1, SoundTypes DEF ThreadInfos, ListsTyped, IsList
  <1>3. Descheduled(z, x, t, "SLEEPING")
    <2>1. "SLEEPING" \in States
      BY DEF States
    <2>2. \A w : w = deschedule(z, t, "SLEEPING") => Descheduled(z, w, t, "SLEEPING")
      BY <1>1, <2>1, DescheduleFields, Zenon
    <2> QED
      BY <2>2, Zenon
  <1>4. y = [x EXCEPT !.sleepQueue = InsertAt(q, p, t), !.th[t].markedForSleep = FALSE]
    <2>1. x.sleepQueue = q /\ x.th[t].left = z.th[t].left
          /\ \A i \in DOMAIN q : x.th[q[i]].left = z.th[q[i]].left
      BY <1>2, <1>3 DEF Descheduled
    <2>2. {i \in DOMAIN x.sleepQueue : x.th[x.sleepQueue[i]].left > x.th[t].left} = later
      BY <2>1
    <2> HIDE DEF x, later, q
    <2>3. y = LET l == later
                  i == IF l = {} THEN Len(q) + 1 ELSE Min(l)
              IN  [x EXCEPT !.sleepQueue = InsertAt(@, i, t), !.th[t].markedForSleep = FALSE]
      BY <2>1, <2>2, Zenon DEF PutToSleep, x
    <2> QED
      BY <2>1, <2>3
  <1> HIDE DEF x, y
  <1>5. /\ p \in 1 .. Len(q) + 1
        /\ \A k \in DOMAIN q : k < p => z.th[q[k]].left <= z.th[t].left
        /\ \A k \in DOMAIN q : ~ (k < p) => z.th[q[k]].left > z.th[t].left
    <2> DEFINE m == Len(q)
               n == z.th[t].left
               l == [i \in 1 .. m |-> z.th[q[i]].left]
    <2>1. \A i \in 1 .. m : l[i] = z.th[q[i]].left
      OBVIOUS
    <2>2. m \in Nat /\ n \in Nat /\ DOMAIN q = 1 .. m
      BY <1>2
    <2>3. l \in [1 .. m -> Nat]
      BY <1>2
    <2>4. \A i, j \in 1 .. m : i < j => l[i] <= l[j]
      BY <2>1, <2>2 DEF Sound, SleepersInOrder
    <2>5. later = {i \in 1 .. m : l[i] > n}
      BY <2>1, <2>2
    <2>6. p = IF {i \in 1 .. m : l[i] > n} = {} THEN m + 1 ELSE Min({i \in 1 .. m : l[i] > n})
      BY <2>5
    <2> HIDE DEF q, m, n, l, later, p
    <2>7. Splits(p, m, l, n)
      BY <2>2, <2>3, <2>4, <2>6, PlaceInOrder, Zenon
    <2> QED
      BY <2>1, <2>2, <2>7 DEF Splits, m, n
  <1> HIDE DEF p, later
  <1>6. t \notin ToSet(q)
    BY DEF Sound, QueuesOf, Sleepers
  <1>7. IsList(InsertAt(q, p, t), Threads)
    BY <1>2, <1>5, <1>6, InsertList
  <1> HIDE DEF q
  <1>8. Unmarked(x, y, t, InsertAt(q, p, t))
    <2>1. x \in SchedRecords /\ InsertAt(q, p, t) \in Seq(Threads)
      BY <1>3, <1>7 DEF Descheduled, IsList
    <2>2. \A w : w = [x EXCEPT !.sleepQueue = InsertAt(q, p, t), !.th[t].markedForSleep = FALSE]
                 => Unmarked(x, w, t, InsertAt(q, p, t))
      BY <2>1, UnmarkFields, Zenon
    <2> QED
      BY <1>4, <2>2, Zenon
  <1>9. SleepsAt(z, y, t, p)
    BY <1>3, <1>5, <1>8 DEF Descheduled, Unmarked, SleepsAt, q
  <1> QED
    BY <1>9, Zenon DEF y

(* A thread marked for sleep leaves its core and is queued by its wakeup phase. *)
LEMMA FallAsleepSound ==
    ASSUME NEW z, NEW t \in Threads, Sound(z, {}), z.th[t].state = "RUNNING",
           z.th[t].markedForSleep, t \notin ToSet(z.fakeLeaves)
    PROVE  LET y == PutToSleep(deschedule(z, t, "SLEEPING"), t)
           IN  /\ Sound(y, {z.th[t].cid}) /\ y.failed = z.failed
               /\ Undisturbed(z, y, {t}) /\ OthersSame(z, y, t)
               /\ y.th[t].state = "SLEEPING"
               /\ y.runQueue = z.runQueue /\ y.bar = z.bar
               /\ \A P, Y : None \notin P /\ z.th[t].handoffThread = None /\ z.bar[z.th[t].cid] # "wait"
                  /\ Remembers(z, P, Y) => Remembers(y, P, Y)
  <1> DEFINE y == PutToSleep(deschedule(z, t, "SLEEPING"), t)
             q == z.sleepQueue
  <1>1. /\ z \in SchedRecords /\ None \notin Threads \cup Cores
        /\ ListsTyped(z) /\ \A u \in Threads : z.th[u] \in ThreadInfos /\ Mask[u] \subseteq Cores
        /\ \A d \in Cores : z.curThread[d] \in Threads \cup {None}
    BY SoundTypes
  <1>b. \E p : SleepsAt(z, y, t, p)
    BY AsleepAtPlace, Zenon
  <1> HIDE DEF y
  <1>c. PICK p : SleepsAt(z, y, t, p)
    BY <1>b
  <1>2. /\ y \in SchedRecords
        /\ y.curThread = [z.curThread EXCEPT ![z.th[t].cid] = None]
        /\ y.sleepQueue = InsertAt(z.sleepQueue, p, t)
        /\ y.freeList = z.freeList /\ y.runQueue = z.runQueue /\ y.outQueue = z.outQueue
        /\ y.fakeLeaves = z.fakeLeaves /\ y.bar = z.bar /\ y.quantum = z.quantum
        /\ y.failed = z.failed
        /\ \A u \in Threads : u # t => y.th[u] = z.th[u]
        /\ y.th[t].state = "SLEEPING" /\ y.th[t].cid = z.th[t].cid
        /\ y.th[t].handoffThread = z.th[t].handoffThread /\ y.th[t].futexWord = z.th[t].futexWord
        /\ ~ y.th[t].markedForSleep /\ y.th[t].left = z.th[t].left
    BY <1>c DEF SleepsAt
  <1>0. /\ p \in 1 .. Len(q) + 1
        /\ \A k \in DOMAIN q : k < p => z.th[q[k]].left <= z.th[t].left
        /\ \A k \in DOMAIN q : ~ (k < p) => z.th[q[k]].left > z.th[t].left
    BY <1>c DEF SleepsAt
  <1>f. t \notin ToSet(z.sleepQueue) /\ p \in 1 .. Len(z.sleepQueue) + 1
    BY <1>0 DEF Sound, QueuesOf, Sleepers
  <1> HIDE DEF q
  <1>3. /\ y.runQueue = z.runQueue /\ y.outQueue = z.outQueue
        /\ y.fakeLeaves = z.fakeLeaves /\ y.bar = z.bar
        /\ \A u \in Threads : u # t => y.th[u] = z.th[u]
        /\ y.th[t].state = "SLEEPING" /\ y.th[t].cid = z.th[t].cid
        /\ y.th[t].handoffThread = z.th[t].handoffThread /\ y.th[t].futexWord = z.th[t].futexWord
        /\ ~ y.th[t].markedForSleep /\ y.th[t].left = z.th[t].left
    BY <1>2
  <1>4. /\ \A u \in Threads : z.th[u].handoffThread \in Threads \cup {None}
        /\ ToSet(z.outQueue) \subseteq Threads /\ ToSet(z.sleepQueue) \subseteq Threads
        /\ ToSet(z.runQueue) \subseteq Threads /\ ToSet(z.fakeLeaves) \subseteq Threads
    BY <1>1 DEF ThreadInfos, ListsTyped
  <1>5. /\ y.curThread[z.th[t].cid] = None
        /\ \A d \in Cores : d # z.th[t].cid => y.curThread[d] = z.curThread[d]
    BY <1>1, <1>2 DEF SchedRecords, ThreadInfos
  <1>6. /\ HasCore(z, t) /\ z.th[t].state = "RUNNING" /\ z.th[t].markedForSleep
        /\ z.th[t].left > 0 /\ z.th[t].left \in Nat /\ z.th[t].futexWord = 1 /\ z.th[t].cid \in Cores
        /\ z.curThread[z.th[t].cid] = t /\ (\A d \in Cores : d # z.th[t].cid => z.curThread[d] # t)
        /\ t \notin ToSet(z.runQueue) /\ t \notin ToSet(z.fakeLeaves) /\ t \notin ToSet(z.outQueue)
        /\ IsList(y.sleepQueue, Threads) /\ ToSet(y.sleepQueue) = ToSet(z.sleepQueue) \cup {t}
        /\ \A u \in Threads : z.th[u].handoffThread # t
    <2>1. HasCore(z, t) /\ z.th[t].state = "RUNNING" /\ z.th[t].markedForSleep
      BY <1>1 DEF HasCore
    <2>2. z.th[t].left > 0 /\ z.th[t].left \in Nat /\ z.th[t].futexWord = 1 /\ z.th[t].cid \in Cores
      BY <1>1 DEF Sound, WordsOf, ThreadInfos
    <2>3. z.curThread[z.th[t].cid] = t /\ (\A d \in Cores : d # z.th[t].cid => z.curThread[d] # t)
      BY <1>1 DEF Sound, CoresOf, HasCore, ThreadInfos
    <2>4. t \notin ToSet(z.runQueue) /\ t \notin ToSet(z.fakeLeaves) /\ t \notin ToSet(z.outQueue)
      BY <1>1 DEF Sound, QueuesOf
    <2>5. IsList(y.sleepQueue, Threads) /\ ToSet(y.sleepQueue) = ToSet(z.sleepQueue) \cup {t}
      BY <1>f, <1>1, <1>2, InsertList DEF ListsTyped
    <2>6. \A u \in Threads : z.th[u].handoffThread # t
      BY <1>1 DEF Sound, PromisesOf
    <2> QED
      BY <2>1, <2>2, <2>3, <2>4, <2>5, <2>6
  <1>7. \A d \in Cores : Runs(y, d) <=> d # z.th[t].cid /\ Runs(z, d)
    BY <1>1, <1>2, <1>5, <1>6 DEF Runs
  <1>8. CoresOf(y, {z.th[t].cid})
    <2>1. \A d \in Cores, u \in Threads : y.curThread[d] = u <=> HasCore(y, u) /\ y.th[u].cid = d
      BY <1>1, <1>2, <1>5, <1>6 DEF Sound, CoresOf, HasCore
    <2>2. ToSet(y.freeList) = {d \in Cores \ {z.th[t].cid} : y.curThread[d] = None}
      BY <1>1, <1>2, <1>5, <1>6 DEF Sound, CoresOf
    <2>3. \A d \in Cores \ {z.th[t].cid} : y.bar[d] # "off" <=> Runs(y, d)
      BY <1>2, <1>5, <1>6, <1>7 DEF Sound, CoresOf
    <2>4. \A d \in {z.th[t].cid} : y.curThread[d] = None
      BY <1>5, <1>6 DEF Sound, CoresOf
    <2> QED
      BY <2>1, <2>2, <2>3, <2>4 DEF CoresOf
  <1>9. QueuesOf(y)
    BY <1>3, <1>4, <1>6 DEF Sound, QueuesOf, HasCore, Sleepers
  <1>10. WordsOf(y)
    BY <1>3, <1>4, <1>6 DEF Sound, WordsOf
  <1>11. SleepersInOrder(y)
    <2> DEFINE r == y.sleepQueue
               l(u) == z.th[u].left
    <2>1. /\ DOMAIN q = 1 .. Len(q) /\ Len(q) \in Nat /\ DOMAIN r = 1 .. Len(q) + 1
          /\ \A i \in 1 .. Len(q) + 1 : r[i] = IF i < p THEN q[i] ELSE IF i = p THEN t ELSE q[i - 1]
          /\ \A i \in DOMAIN q : q[i] \in Threads
      <3>1. IsList(q, Threads) /\ t \notin ToSet(q) /\ p \in 1 .. Len(q) + 1
        BY <1>1, <1>f DEF ListsTyped, q
      <3>2. Inserted(InsertAt(q, p, t), q, p, t)
        BY <3>1, InsertList, Zenon
      <3>3. r = InsertAt(q, p, t)
        BY <1>2 DEF q
      <3>4. DOMAIN q = 1 .. Len(q) /\ Len(q) \in Nat /\ \A i \in DOMAIN q : q[i] \in Threads
        BY <3>1 DEF IsList
      <3> HIDE DEF r
      <3> QED
        BY <3>2, <3>3, <3>4 DEF Inserted
    <2>2. l(t) \in Nat /\ \A i \in DOMAIN q : l(q[i]) \in Nat
      BY <1>1, <2>1 DEF ThreadInfos
    <2>3. \A i, j \in DOMAIN q : i < j => l(q[i]) <= l(q[j])
      BY DEF Sound, SleepersInOrder, q
    <2>4. \A u \in Threads : y.th[u].left = l(u)
      BY <1>2
    <2>5. /\ p \in 1 .. Len(q) + 1
          /\ \A k \in DOMAIN q : k < p => l(q[k]) <= l(t)
          /\ \A k \in DOMAIN q : ~ (k < p) => l(q[k]) > l(t)
      BY <1>0
    <2> HIDE DEF r, l
    <2>6. ASSUME NEW i \in DOMAIN r, NEW j \in DOMAIN r, i < j
          PROVE  l(r[i]) <= l(r[j]) /\ r[i] \in Threads /\ r[j] \in Threads
      <3>1. CASE j < p
        <4>1. i \in DOMAIN q /\ j \in DOMAIN q /\ r[i] = q[i] /\ r[j] = q[j]
          BY <2>1, <2>5, <2>6, <3>1
        <4> QED
          BY <2>1, <2>3, <2>6, <4>1
      <3>2. CASE j = p
        <4>1. i \in DOMAIN q /\ i < p /\ r[i] = q[i] /\ r[j] = t
          BY <2>1, <2>5, <2>6, <3>2
        <4> QED
          BY <2>1, <2>2, <2>5, <4>1
      <3>3. CASE j > p /\ i < p
        <4>1. i \in DOMAIN q /\ j - 1 \in DOMAIN q /\ i < j - 1 /\ r[i] = q[i] /\ r[j] = q[j - 1]
          BY <2>1, <2>5, <2>6, <3>3
        <4> QED
          BY <2>1, <2>3, <4>1
      <3>4. CASE j > p /\ i = p
        <4>1. j - 1 \in DOMAIN q /\ ~ (j - 1 < p) /\ r[i] = t /\ r[j] = q[j - 1]
          BY <2>1, <2>5, <2>6, <3>4
        <4> QED
          BY <2>1, <2>2, <2>5, <4>1
      <3>5. CASE j > p /\ i > p
        <4>1. i - 1 \in DOMAIN q /\ j - 1 \in DOMAIN q /\ i - 1 < j - 1
              /\ r[i] = q[i - 1] /\ r[j] = q[j - 1]
          BY <2>1, <2>5, <2>6, <3>5
        <4> QED
          BY <2>1, <2>3, <4>1
      <3> QED
        BY <2>1, <2>5, <3>1, <3>2, <3>3, <3>4, <3>5
    <2>7. \A i, j \in DOMAIN r : i < j => y.th[r[i]].left <= y.th[r[j]].left
      BY <2>4, <2>6
    <2> QED
      BY <2>7 DEF SleepersInOrder, r
  <1>12. PromisesOf(y)
    BY <1>3, <1>4, <1>6 DEF Sound, PromisesOf, QueuesOf
  <1>13. WorkOf(y, {z.th[t].cid})
    BY <1>1, <1>3, <1>5, <1>6, <1>7 DEF Sound, WorkOf, ListsTyped
  <1>14. Typed(y)
    BY <1>1, <1>2, <1>f, InsertList DEF Sound, Typed, IsList, ListsTyped
  <1>15. Undisturbed(z, y, {t}) /\ OthersSame(z, y, t)
    BY <1>1, <1>3, <1>5, <1>6 DEF Undisturbed, Drifts, OthersSame
  <1>16. ASSUME NEW P, NEW Y, None \notin P /\ z.th[t].handoffThread = None /\ z.bar[z.th[t].cid] # "wait"
              /\ Remembers(z, P, Y)
         PROVE  Remembers(y, P, Y)
    BY <1>1, <1>3, <1>5, <1>6, <1>16 DEF Remembers, HasCore
  <1> QED
    BY <1>2, <1>8, <1>9, <1>10, <1>11, <1>12, <1>13, <1>14, <1>15, <1>16 DEF Sound, y

(* What the end of a phase does to the thread u, one of those in up being woken up. *)
Rests(z, y, up, u) ==
    LET a == z.th[u]
        b == y.th[u]
    IN  /\ b.cid = a.cid /\ b.handoffThread = a.handoffThread /\ b.markedForSleep = a.markedForSleep
        /\ u \in up => b.state = "BLOCKED"
        /\ u \notin up => b.state = a.state /\ b.futexWord = a.futexWord
        /\ u \in Sleepers(z) \ up => b.left = a.left - 1
        /\ u \notin Sleepers(z) => b.left = a.left

(* The sleepers at the front of their queue are those with one phase left. *)
LEMMA DueSleepers ==
    ASSUME NEW z, Sound(z, {}), NEW n \in DueFront(z),
           NEW up, up = {z.sleepQueue[i] : i \in 1 .. n}
    PROVE  /\ n \in 0 .. Len(z.sleepQueue) /\ up \subseteq Sleepers(z)
           /\ \A u \in up : z.th[u].left = 1 /\ z.th[u].futexWord = 1
           /\ \A u \in Sleepers(z) \ up : z.th[u].left > 1
  <1> DEFINE q == z.sleepQueue
  <1>1. /\ IsList(q, Threads) /\ DOMAIN q = 1 .. Len(q) /\ Len(q) \in Nat
        /\ \A u \in Threads : z.th[u].left \in Nat
        /\ \A i \in DOMAIN q : q[i] \in Threads
    BY SoundTypes DEF ListsTyped, IsList, ThreadInfos
  <1>2. /\ ToSet(q) = Sleepers(z)
        /\ \A u \in Sleepers(z) : z.th[u].left > 0 /\ z.th[u].futexWord = 1 /\ u \in Threads
        /\ \A i, j \in DOMAIN q : i < j => z.th[q[i]].left <= z.th[q[j]].left
    BY DEF Sound, QueuesOf, Sleepers, WordsOf, SleepersInOrder
  <1>3. /\ n \in 0 .. Len(q)
        /\ \A i \in 1 .. n : z.th[q[i]].left <= 1
        /\ n < Len(q) => z.th[q[n + 1]].left > 1
    BY DEF DueFront
  <1> HIDE DEF q
  <1>4. up = {q[i] : i \in 1 .. n}
    BY DEF q
  <1>5. \A i \in 1 .. n : i \in DOMAIN q
    BY <1>1, <1>3
  <1>6. \A i \in DOMAIN q : q[i] \in ToSet(q)
    BY DEF ToSet
  <1>7. ASSUME NEW u \in up
        PROVE  u \in Sleepers(z) /\ z.th[u].left = 1 /\ z.th[u].futexWord = 1
    <2>1. PICK i \in 1 .. n : u = q[i]
      BY <1>4
    <2>2. u \in Sleepers(z)
      BY <1>2, <1>5, <1>6, <2>1
    <2>3. z.th[u].left <= 1 /\ z.th[u].left > 0 /\ z.th[u].left \in Nat
      BY <1>1, <1>2, <1>3, <2>1, <2>2
    <2> QED
      BY <1>2, <2>2, <2>3
  <1>8. ASSUME NEW u \in Sleepers(z) \ up
        PROVE  z.th[u].left > 1
    <2>1. PICK j \in DOMAIN q : u = q[j]
      BY <1>2 DEF ToSet
    <2>2. j \notin 1 .. n
      BY <1>4, <2>1
    <2>3. n < Len(q) /\ n + 1 \in DOMAIN q /\ (j = n + 1 \/ n + 1 < j)
      BY <1>1, <1>3, <2>2
    <2>4. z.th[q[n + 1]].left > 1 /\ z.th[q[n + 1]].left \in Nat /\ z.th[q[j]].left \in Nat
      BY <1>1, <1>3, <2>3
    <2>5. z.th[q[n + 1]].left <= z.th[q[j]].left
      BY <1>1, <1>2, <2>3, <2>4
    <2> QED
      BY <2>1, <2>4, <2>5
  <1> QED
    BY <1>3, <1>7, <1>8 DEF q

(* A phase has ended, in which those of up have been woken up. *)
PhaseEnded(z, y, up) ==
    /\ y \in SchedRecords /\ y.curThread = z.curThread /\ y.freeList = z.freeList
    /\ y.runQueue = z.runQueue /\ y.outQueue = z.outQueue /\ y.fakeLeaves = z.fakeLeaves
    /\ y.bar = z.bar /\ y.failed = z.failed
    /\ IsList(y.sleepQueue, Threads) /\ ToSet(y.sleepQueue) = ToSet(z.sleepQueue) \ up
    /\ Thins(y.sleepQueue, z.sleepQueue)
    /\ \A u \in Threads : Rests(z, y, up, u)

(* What the end of a phase changes. *)
LEMMA PhaseOverFields ==
    ASSUME NEW z, Sound(z, {}), NEW n \in DueFront(z), NEW y, y = PhaseOver(z, n)
    PROVE  PhaseEnded(z, y, {z.sleepQueue[i] : i \in 1 .. n})
  <1> DEFINE up == {z.sleepQueue[i] : i \in 1 .. n}
             r == SubSeq(z.sleepQueue, n + 1, Len(z.sleepQueue))
             g(t) == IF t \in up
                     THEN [z.th[t] EXCEPT !.state = "BLOCKED", !.left = 0, !.futexWord = 0]
                     ELSE IF t \in Sleepers(z) THEN [z.th[t] EXCEPT !.left = z.th[t].left - 1]
                     ELSE z.th[t]
  <1>1. /\ z \in SchedRecords /\ IsList(z.sleepQueue, Threads)
        /\ \A u \in Threads : z.th[u] \in ThreadInfos
    BY SoundTypes DEF ListsTyped
  <1>2. /\ n \in 0 .. Len(z.sleepQueue) /\ up \subseteq Sleepers(z)
        /\ \A u \in up : z.th[u].left = 1 /\ z.th[u].futexWord = 1
        /\ \A u \in Sleepers(z) \ up : z.th[u].left > 1
    BY DueSleepers
  <1> HIDE DEF up
  <1>3. IsList(r, Threads) /\ ToSet(r) = ToSet(z.sleepQueue) \ up /\ Thins(r, z.sleepQueue)
    BY <1>1, <1>2, TailList DEF up
  <1>4. /\ y.th = [t \in Threads |-> g(t)] /\ y.sleepQueue = r
        /\ y.quantum = (z.quantum + 1) % schedQuantum
        /\ y.curThread = z.curThread /\ y.freeList = z.freeList
        /\ y.runQueue = z.runQueue /\ y.outQueue = z.outQueue /\ y.fakeLeaves = z.fakeLeaves
        /\ y.bar = z.bar /\ y.failed = z.failed
        /\ y = [z EXCEPT !.th = [t \in Threads |-> g(t)], !.sleepQueue = r,
                         !.quantum = (@ + 1) % schedQuantum]
    <2>1. ~ \E t \in up : z.th[t].left # 1 \/ z.th[t].futexWord # 1
      BY <1>2
    <2>3. PhaseOver(z, n) = IF \E t \in up : z.th[t].left # 1 \/ z.th[t].futexWord # 1
            THEN Fail(z, "callback")
            ELSE [z EXCEPT !.th = [t \in Threads |-> g(t)],
                           !.sleepQueue = SubSeq(@, n + 1, Len(@)),
                           !.quantum = (@ + 1) % schedQuantum]
      BY Zenon DEF PhaseOver, up
    <2>4. y = [z EXCEPT !.th = [t \in Threads |-> g(t)],
                        !.sleepQueue = SubSeq(@, n + 1, Len(@)),
                        !.quantum = (@ + 1) % schedQuantum]
      BY <2>1, <2>3, Zenon
    <2> HIDE DEF g
    <2>2. y = [z EXCEPT !.th = [t \in Threads |-> g(t)], !.sleepQueue = r,
                        !.quantum = (@ + 1) % schedQuantum]
      BY <1>1, <2>4 DEF SchedRecords
    <2> HIDE DEF r, g
    <2> QED
      BY <1>1, <2>2 DEF SchedRecords
  <1>5. \A t \in Threads : g(t) \in ThreadInfos /\ y.th[t] = g(t)
    <2>1. ASSUME NEW t \in Threads
          PROVE  g(t) \in ThreadInfos
      <3>1. z.th[t] \in ThreadInfos
        BY <1>1
      <3>2. CASE t \in up
        <4>1. 0 \in 0 .. 1 /\ 0 \in Nat /\ "BLOCKED" \in States
          BY DEF States
        <4>2. g(t) = [z.th[t] EXCEPT !.state = "BLOCKED", !.left = 0, !.futexWord = 0]
          BY <3>2
        <4> HIDE DEF g
        <4> QED
          BY <3>1, <4>1, <4>2 DEF ThreadInfos
      <3>3. CASE t \notin up /\ t \in Sleepers(z)
        <4>1. z.th[t].left \in Nat /\ z.th[t].left > 1
          BY <1>2, <3>1, <3>3 DEF ThreadInfos
        <4>2. z.th[t].left - 1 \in Nat
          BY <4>1
        <4>3. g(t) = [z.th[t] EXCEPT !.left = z.th[t].left - 1]
          BY <3>1, <3>3 DEF ThreadInfos
        <4> QED
          BY <3>1, <4>2, <4>3 DEF ThreadInfos
      <3>4. CASE t \notin up /\ t \notin Sleepers(z)
        BY <3>1, <3>4
      <3> QED
        BY <3>2, <3>3, <3>4
    <2> HIDE DEF g
    <2> QED
      BY <1>4, <2>1
  <1>6. \A u \in Threads : Rests(z, y, up, u)
    <2>1. ASSUME NEW u \in Threads
          PROVE  Rests(z, y, up, u)
      <3>1. z.th[u] \in ThreadInfos /\ y.th[u] = g(u)
        BY <1>1, <1>5
      <3>2. CASE u \in up
        <4>1. u \in Sleepers(z) /\ y.th[u] = [z.th[u] EXCEPT !.state = "BLOCKED", !.left = 0, !.futexWord = 0]
          BY <1>2, <3>1, <3>2
        <4> QED
          BY <3>1, <3>2, <4>1 DEF ThreadInfos, Rests
      <3>3. CASE u \notin up /\ u \in Sleepers(z)
        <4>1. y.th[u] = [z.th[u] EXCEPT !.left = z.th[u].left - 1]
          BY <3>1, <3>3 DEF ThreadInfos
        <4> QED
          BY <3>1, <3>3, <4>1 DEF ThreadInfos, Rests
      <3>4. CASE u \notin up /\ u \notin Sleepers(z)
        BY <3>1, <3>4, SMTT(20) DEF Rests
      <3> QED
        BY <3>2, <3>3, <3>4, SMTT(20)
    <2> QED
      BY <2>1
  <1>7. y \in SchedRecords
    <2>1. y.th \in [Threads -> ThreadInfos]
      BY <1>4, <1>5
    <2>2. y.quantum \in Nat
      <3>1. z.quantum \in Nat /\ schedQuantum \in Nat \ {0}
        BY <1>1, SchedulerAssumption DEF SchedRecords
      <3> QED
        BY <1>4, <3>1
    <2>3. y.sleepQueue \in Seq(Threads)
      BY <1>3, <1>4 DEF IsList
    <2> HIDE DEF r, g
    <2> QED
      BY <1>1, <1>4, <2>1, <2>2, <2>3 DEF SchedRecords
  <1> HIDE DEF r, g, up
  <1> QED
    BY <1>3, <1>4, <1>6, <1>7, Zenon DEF PhaseEnded, up

(* What stays when a phase ends or a tick takes place: the run queue may only lose *)
(* threads that are handed a core.                                               *)
LEMMA PhaseOverSound ==
    ASSUME NEW z, Sound(z, {}), NEW n \in DueFront(z), NEW y, y = PhaseOver(z, n)
    PROVE  /\ Sound(y, {}) /\ y.failed = z.failed /\ Undisturbed(z, y, {})
           /\ y.runQueue = z.runQueue /\ y.bar = z.bar /\ y.curThread = z.curThread
           /\ \A u \in Threads : y.th[u].handoffThread = z.th[u].handoffThread
           /\ \A P, Y : Remembers(z, P, Y) => Remembers(y, P, Y)
  <1> DEFINE up == {z.sleepQueue[i] : i \in 1 .. n}
  <1>1. /\ z \in SchedRecords /\ None \notin Threads \cup Cores /\ ListsTyped(z)
        /\ \A u \in Threads : z.th[u].handoffThread \in Threads \cup {None}
        /\ \A d \in Cores : z.curThread[d] \in Threads \cup {None}
        /\ \A u \in Threads : z.th[u].left \in Nat
    BY SoundTypes DEF ThreadInfos
  <1>2. /\ y \in SchedRecords /\ y.curThread = z.curThread /\ y.freeList = z.freeList
        /\ y.runQueue = z.runQueue /\ y.outQueue = z.outQueue /\ y.fakeLeaves = z.fakeLeaves
        /\ y.bar = z.bar /\ y.failed = z.failed
        /\ IsList(y.sleepQueue, Threads) /\ ToSet(y.sleepQueue) = ToSet(z.sleepQueue) \ up
        /\ Thins(y.sleepQueue, z.sleepQueue)
        /\ \A u \in Threads : Rests(z, y, up, u)
    <2>1. PhaseEnded(z, y, up)
      BY PhaseOverFields, Zenon
    <2> QED
      BY <2>1 DEF PhaseEnded
  <1>3. /\ up \subseteq Sleepers(z) /\ \A u \in Sleepers(z) \ up : z.th[u].left > 1
    BY DueSleepers
  <1> HIDE DEF up
  <1>4. \A u \in Threads :
           /\ y.th[u].cid = z.th[u].cid /\ y.th[u].handoffThread = z.th[u].handoffThread
           /\ y.th[u].markedForSleep = z.th[u].markedForSleep
           /\ u \in up => z.th[u].state = "SLEEPING" /\ y.th[u].state = "BLOCKED"
           /\ u \notin up => y.th[u].state = z.th[u].state /\ y.th[u].futexWord = z.th[u].futexWord
           /\ u \notin up /\ z.th[u].state = "SLEEPING" => y.th[u].left = z.th[u].left - 1 /\ z.th[u].left > 1
           /\ z.th[u].state # "SLEEPING" => y.th[u].left = z.th[u].left
    BY <1>2, <1>3 DEF Rests, Sleepers
  <1>5. \A d \in Cores : Runs(y, d) <=> Runs(z, d)
    BY <1>1, <1>2, <1>4 DEF Runs
  <1>6. CoresOf(y, {})
    <2>1. \A d \in Cores, u \in Threads : y.curThread[d] = u <=> HasCore(y, u) /\ y.th[u].cid = d
      BY <1>2, <1>4 DEF Sound, CoresOf, HasCore
    <2> QED
      BY <1>2, <1>5, <2>1 DEF Sound, CoresOf
  <1>7. QueuesOf(y)
    <2>1. ToSet(y.outQueue) = {t \in Threads : y.th[t].state = "OUT"}
      BY <1>2, <1>4 DEF Sound, QueuesOf
    <2>2. ToSet(y.sleepQueue) = Sleepers(y)
      BY <1>2, <1>4 DEF Sound, QueuesOf, Sleepers
    <2>3. \A t \in ToSet(y.runQueue) : y.th[t].state = "QUEUED"
      BY <1>1, <1>2, <1>4 DEF Sound, QueuesOf, ListsTyped
    <2>4. \A t \in ToSet(y.fakeLeaves) : y.th[t].state = "RUNNING"
      BY <1>1, <1>2, <1>4 DEF Sound, QueuesOf, ListsTyped
    <2> QED
      BY <2>1, <2>2, <2>3, <2>4 DEF QueuesOf
  <1>8. WordsOf(y)
    <2>1. ASSUME NEW t \in Threads
          PROVE  /\ t \in ToSet(y.runQueue) => y.th[t].futexWord = 1
                 /\ y.th[t].handoffThread # None => y.th[y.th[t].handoffThread].futexWord = 1
                 /\ y.th[t].state = "SLEEPING" => y.th[t].left > 0 /\ y.th[t].futexWord = 1
                 /\ y.th[t].markedForSleep => y.th[t].state = "RUNNING" /\ y.th[t].left > 0 /\ y.th[t].futexWord = 1
      <3>1. /\ t \in ToSet(z.runQueue) => z.th[t].futexWord = 1 /\ z.th[t].state = "QUEUED"
            /\ z.th[t].handoffThread # None => /\ z.th[z.th[t].handoffThread].futexWord = 1
                                               /\ z.th[z.th[t].handoffThread].state = "QUEUED"
            /\ z.th[t].state = "SLEEPING" => z.th[t].left > 0 /\ z.th[t].futexWord = 1
            /\ z.th[t].markedForSleep => z.th[t].state = "RUNNING" /\ z.th[t].left > 0 /\ z.th[t].futexWord = 1
        BY DEF Sound, WordsOf, QueuesOf, PromisesOf
      <3>2. t \in ToSet(y.runQueue) => y.th[t].futexWord = 1
        BY <1>2, <1>4, <3>1
      <3>3. y.th[t].handoffThread # None => y.th[y.th[t].handoffThread].futexWord = 1
        BY <1>1, <1>4, <3>1
      <3>4. y.th[t].state = "SLEEPING" => y.th[t].left > 0 /\ y.th[t].futexWord = 1
        BY <1>1, <1>4, <3>1
      <3>5. y.th[t].markedForSleep => y.th[t].state = "RUNNING" /\ y.th[t].left > 0 /\ y.th[t].futexWord = 1
        BY <1>4, <3>1
      <3> QED
        BY <3>2, <3>3, <3>4, <3>5
    <2> QED
      BY <2>1 DEF WordsOf
  <1>9. SleepersInOrder(y)
    <2>1. \A i \in DOMAIN y.sleepQueue : y.sleepQueue[i] \in ToSet(z.sleepQueue) \ up
      <3>1. \A i \in DOMAIN y.sleepQueue : y.sleepQueue[i] \in ToSet(y.sleepQueue)
        BY DEF ToSet
      <3> QED
        BY <1>2, <3>1
    <2>2. \A i \in DOMAIN y.sleepQueue : LET u == y.sleepQueue[i]
                                         IN  y.th[u].left = z.th[u].left - 1 /\ z.th[u].left \in Nat
      BY <1>1, <1>4, <2>1 DEF Sound, QueuesOf, Sleepers
    <2>3. \A i, j \in DOMAIN y.sleepQueue :
            i < j => z.th[y.sleepQueue[i]].left <= z.th[y.sleepQueue[j]].left
      BY <1>2 DEF Sound, SleepersInOrder, Thins
    <2>4. ASSUME NEW i \in DOMAIN y.sleepQueue, NEW j \in DOMAIN y.sleepQueue, i < j
          PROVE  y.th[y.sleepQueue[i]].left <= y.th[y.sleepQueue[j]].left
      BY <2>2, <2>3, <2>4
    <2> QED
      BY <2>4 DEF SleepersInOrder
  <1>10. PromisesOf(y)
    BY <1>1, <1>2, <1>4 DEF Sound, PromisesOf
  <1>11. WorkOf(y, {})
    <2>1. \A u \in ToSet(z.runQueue) : Mask[u] \subseteq Cores
      BY <1>1, SchedulerAssumption DEF ListsTyped
    <2> QED
      BY <1>2, <1>5, <2>1 DEF Sound, WorkOf
  <1>12. Typed(y)
    BY <1>2 DEF Sound, Typed, IsList
  <1>13. Undisturbed(z, y, {})
    BY <1>2, <1>4, SMTT(20) DEF Undisturbed, Drifts
  <1>14. ASSUME NEW P, NEW Y, Remembers(z, P, Y)
         PROVE  Remembers(y, P, Y)
    BY <1>1, <1>2, <1>4, <1>14 DEF Remembers
  <1> QED
    BY <1>2, <1>4, <1>6, <1>7, <1>8, <1>9, <1>10, <1>11, <1>12, <1>13, <1>14 DEF Sound

(* In the matching m, thread u is to hand its core over to the i-th of the run queue. *)
Gives(z, m, u, i) == i \in DOMAIN m /\ m[i] # None /\ z.curThread[m[i]] = u

(* A matching gives each of the queued threads a core of its own that it may run on, *)
(* held by a thread that runs.                                                     *)
LEMMA MatchingIsExact ==
    ASSUME NEW z, Sound(z, {}), NEW m \in Matches(z)
    PROVE  /\ DOMAIN m = DOMAIN z.runQueue
           /\ \A i \in DOMAIN m : m[i] # None =>
                 m[i] \in Mask[z.runQueue[i]] /\ Runs(z, m[i]) /\ z.curThread[m[i]] \in Threads
           /\ \A u \in Threads : \A i, j : Gives(z, m, u, i) /\ Gives(z, m, u, j) => i = j
           /\ \A u, v \in Threads : \A i : Gives(z, m, u, i) /\ Gives(z, m, v, i) => u = v
  <1> DEFINE q == z.runQueue
             Left(i) == Mask[q[i]] \ {m[j] : j \in 1 .. i - 1}
  <1>1. /\ IsList(q, Threads) /\ DOMAIN q = 1 .. Len(q) /\ Len(q) \in Nat
        /\ \A i \in DOMAIN q : q[i] \in Threads /\ q[i] \in ToSet(q)
        /\ \A d \in Cores : z.curThread[d] \in Threads \cup {None}
        /\ None \notin Threads \cup Cores /\ \A u \in Threads : Mask[u] \subseteq Cores
    BY SoundTypes DEF ListsTyped, IsList, ToSet
  <1>2. /\ m \in [DOMAIN q -> Cores \cup {None}]
        /\ \A i \in DOMAIN q : IF Left(i) = {} THEN m[i] = None ELSE m[i] \in Left(i)
    BY Zenon DEF Matches
  <1>3. \A i \in DOMAIN q : m[i] # None => m[i] \in Left(i)
    BY <1>2
  <1>4. \A i \in DOMAIN q : m[i] # None => m[i] \in Mask[q[i]] /\ m[i] \in Cores
    BY <1>1, <1>3
  <1>5. \A i, j \in DOMAIN q : m[i] # None /\ m[i] = m[j] => i = j
    <2>1. ASSUME NEW i \in DOMAIN q, NEW j \in DOMAIN q, m[i] # None, m[i] = m[j], j < i
          PROVE  FALSE
      <3>1. j \in 1 .. i - 1
        BY <1>1, <2>1
      <3>2. m[j] \in {m[k] : k \in 1 .. i - 1}
        BY <3>1
      <3> QED
        BY <1>3, <2>1, <3>2
    <2>2. ASSUME NEW i \in DOMAIN q, NEW j \in DOMAIN q, m[i] # None, m[i] = m[j]
          PROVE  i = j
      <3>1. ~ (j < i) /\ ~ (i < j)
        BY <2>1, <2>2
      <3> QED
        BY <1>1, <3>1
    <2> QED
      BY <2>2
  <1>6. \A i \in DOMAIN q : m[i] # None => Runs(z, m[i]) /\ z.curThread[m[i]] \in Threads
    <2>1. \A t \in ToSet(q) : \A c \in Mask[t] : Runs(z, c)
      BY DEF Sound, WorkOf
    <2> QED
      BY <1>1, <1>4, <2>1 DEF Runs
  <1>7. \A c, d \in Cores : z.curThread[c] # None /\ z.curThread[c] = z.curThread[d] => c = d
    BY <1>1 DEF Sound, CoresOf
  <1>8. DOMAIN m = DOMAIN q
    BY <1>2
  <1> HIDE DEF Left, q
  <1>9. ASSUME NEW u \in Threads, NEW i, NEW j, Gives(z, m, u, i), Gives(z, m, u, j)
        PROVE  i = j
    <2>1. /\ i \in DOMAIN q /\ j \in DOMAIN q /\ m[i] # None /\ m[j] # None
          /\ z.curThread[m[i]] = u /\ z.curThread[m[j]] = u
      BY <1>8, <1>9 DEF Gives
    <2>2. m[i] = m[j]
      BY <1>1, <1>4, <1>7, <2>1
    <2> QED
      BY <1>5, <2>1, <2>2
  <1>10. \A u, v \in Threads : \A i : Gives(z, m, u, i) /\ Gives(z, m, v, i) => u = v
    BY DEF Gives
  <1> QED
    BY <1>4, <1>6, <1>8, <1>9, <1>10 DEF q

(* Those handed a core leave the run queue, and their threads know it. *)
Ticked(z, y, m) ==
    /\ y \in SchedRecords /\ y.curThread = z.curThread /\ y.freeList = z.freeList
    /\ y.outQueue = z.outQueue /\ y.sleepQueue = z.sleepQueue /\ y.fakeLeaves = z.fakeLeaves
    /\ y.bar = z.bar /\ y.failed = z.failed
    /\ IsList(y.runQueue, Threads)
    /\ ToSet(y.runQueue) = {z.runQueue[i] : i \in Unmatched(m)}
    /\ \A u \in Threads :
          /\ y.th[u].state = z.th[u].state /\ y.th[u].cid = z.th[u].cid
          /\ y.th[u].futexWord = z.th[u].futexWord /\ y.th[u].left = z.th[u].left
          /\ y.th[u].markedForSleep = z.th[u].markedForSleep
          /\ \A i : Gives(z, m, u, i) => y.th[u].handoffThread = z.runQueue[i]
          /\ (\A i : ~ Gives(z, m, u, i)) => y.th[u].handoffThread = z.th[u].handoffThread

(* What schedTick changes; its assertion does not fail. *)
LEMMA TickFields ==
    ASSUME NEW z, Sound(z, {}), NEW y \in schedTick(z)
    PROVE  \E m \in Matches(z) : Ticked(z, y, m)
  <1> DEFINE g(m) == [u \in Threads |->
                 IF \E i \in DOMAIN m : m[i] # None /\ z.curThread[m[i]] = u
                 THEN [z.th[u] EXCEPT !.handoffThread =
                          z.runQueue[CHOOSE i \in DOMAIN m : m[i] # None /\ z.curThread[m[i]] = u]]
                 ELSE z.th[u]]
             r(f) == [i \in DOMAIN f |-> z.runQueue[f[i]]]
             N(m) == IF \E i \in DOMAIN m : m[i] # None /\ z.curThread[m[i]] = None
                     THEN {Fail(z, "schedTick")}
                     ELSE {[z EXCEPT !.th = g(m), !.runQueue = r(f)] : f \in InOrder(Unmatched(m))}
  <1>1. /\ z \in SchedRecords /\ IsList(z.runQueue, Threads) /\ None \notin Threads \cup Cores
        /\ \A u \in Threads : z.th[u] \in ThreadInfos
    BY SoundTypes DEF ListsTyped
  <1>2. PICK m \in Matches(z) : y \in N(m)
    <2>1. schedTick(z) = UNION {N(m) : m \in Matches(z)}
      BY Zenon DEF schedTick
    <2> HIDE DEF N
    <2> QED
      BY <2>1
  <1>3. /\ DOMAIN m = DOMAIN z.runQueue
        /\ \A i \in DOMAIN m : m[i] # None => z.curThread[m[i]] \in Threads
        /\ \A u \in Threads : \A i, j : Gives(z, m, u, i) /\ Gives(z, m, u, j) => i = j
    BY MatchingIsExact
  <1>4. PICK f \in InOrder(Unmatched(m)) : y = [z EXCEPT !.th = g(m), !.runQueue = r(f)]
    <2>1. ~ \E i \in DOMAIN m : m[i] # None /\ z.curThread[m[i]] = None
      BY <1>1, <1>3
    <2> HIDE DEF g, r
    <2> QED
      BY <1>2, <2>1
  <1>5. IsList(r(f), Threads) /\ ToSet(r(f)) = {z.runQueue[i] : i \in Unmatched(m)}
    <2>1. Unmatched(m) \in SUBSET DOMAIN z.runQueue
      BY <1>3 DEF Unmatched
    <2> QED
      BY <1>1, <2>1, PickedList
  <1>6. ASSUME NEW u \in Threads
        PROVE  /\ g(m)[u] \in ThreadInfos
               /\ \A i : Gives(z, m, u, i) => g(m)[u] = [z.th[u] EXCEPT !.handoffThread = z.runQueue[i]]
               /\ (\A i : ~ Gives(z, m, u, i)) => g(m)[u] = z.th[u]
    <2> DEFINE k == CHOOSE i \in DOMAIN m : m[i] # None /\ z.curThread[m[i]] = u
    <2>1. ASSUME NEW i, Gives(z, m, u, i)
          PROVE  /\ g(m)[u] = [z.th[u] EXCEPT !.handoffThread = z.runQueue[i]]
                 /\ z.runQueue[i] \in Threads
      <3>1. \E j \in DOMAIN m : m[j] # None /\ z.curThread[m[j]] = u
        BY <2>1 DEF Gives
      <3>2. k \in DOMAIN m /\ m[k] # None /\ z.curThread[m[k]] = u
        BY <3>1
      <3>3. g(m)[u] = [z.th[u] EXCEPT !.handoffThread = z.runQueue[k]]
        BY <3>1
      <3> HIDE DEF k, g
      <3>4. k = i
        BY <1>3, <2>1, <3>2 DEF Gives
      <3>5. i \in DOMAIN z.runQueue
        BY <1>3, <2>1 DEF Gives
      <3> QED
        BY <1>1, <3>3, <3>4, <3>5 DEF IsList
    <2>2. ASSUME \A i : ~ Gives(z, m, u, i)
          PROVE  g(m)[u] = z.th[u]
      <3>1. ~ \E j \in DOMAIN m : m[j] # None /\ z.curThread[m[j]] = u
        BY <2>2 DEF Gives
      <3> QED
        BY <3>1
    <2> HIDE DEF g, k
    <2>3. g(m)[u] \in ThreadInfos
      <3>1. z.th[u] \in ThreadInfos
        BY <1>1
      <3>2. CASE \A i : ~ Gives(z, m, u, i)
        BY <2>2, <3>1, <3>2
      <3>3. ASSUME NEW i, Gives(z, m, u, i)
            PROVE  g(m)[u] \in ThreadInfos
        BY <2>1, <3>1, <3>3 DEF ThreadInfos
      <3> QED
        BY <3>2, <3>3
    <2> QED
      BY <2>1, <2>2, <2>3
  <1> HIDE DEF r
  <1>7. DOMAIN g(m) = Threads
    OBVIOUS
  <1>a. g(m) = [u \in Threads |-> g(m)[u]]
    OBVIOUS
  <1> HIDE DEF g, N
  <1>8. /\ y.th = g(m) /\ y.runQueue = r(f) /\ y.quantum = z.quantum
        /\ y.curThread = z.curThread /\ y.freeList = z.freeList
        /\ y.outQueue = z.outQueue /\ y.sleepQueue = z.sleepQueue /\ y.fakeLeaves = z.fakeLeaves
        /\ y.bar = z.bar /\ y.failed = z.failed
    BY <1>1, <1>4 DEF SchedRecords
  <1>9. y \in SchedRecords
    <2>1. g(m) \in [Threads -> ThreadInfos]
      BY <1>6, <1>7, <1>a
    <2>2. r(f) \in Seq(Threads)
      BY <1>5 DEF IsList
    <2> QED
      BY <1>1, <1>4, <2>1, <2>2 DEF SchedRecords
  <1>10. ASSUME NEW u \in Threads
         PROVE  /\ y.th[u].state = z.th[u].state /\ y.th[u].cid = z.th[u].cid
                /\ y.th[u].futexWord = z.th[u].futexWord /\ y.th[u].left = z.th[u].left
                /\ y.th[u].markedForSleep = z.th[u].markedForSleep
                /\ \A i : Gives(z, m, u, i) => y.th[u].handoffThread = z.runQueue[i]
                /\ (\A i : ~ Gives(z, m, u, i)) => y.th[u].handoffThread = z.th[u].handoffThread
    <2>1. z.th[u] \in ThreadInfos /\ y.th[u] = g(m)[u]
      BY <1>1, <1>8
    <2>2. ASSUME \A i : ~ Gives(z, m, u, i)
          PROVE  y.th[u] = z.th[u]
      BY <1>6, <2>1, <2>2
    <2>3. ASSUME NEW i, Gives(z, m, u, i)
          PROVE  /\ y.th[u].state = z.th[u].state /\ y.th[u].cid = z.th[u].cid
                 /\ y.th[u].futexWord = z.th[u].futexWord /\ y.th[u].left = z.th[u].left
                 /\ y.th[u].markedForSleep = z.th[u].markedForSleep
                 /\ y.th[u].handoffThread = z.runQueue[i]
      <3>1. y.th[u] = [z.th[u] EXCEPT !.handoffThread = z.runQueue[i]]
        BY <1>6, <2>1, <2>3
      <3> QED
        BY <2>1, <3>1 DEF ThreadInfos
    <2> QED
      BY <2>2, <2>3
  <1>11. Ticked(z, y, m)
    BY <1>5, <1>8, <1>9, <1>10 DEF Ticked
  <1> QED
    BY <1>11

(* A tick keeps everything well formed: no thread is lost between the run queue and *)
(* the threads that will hand their core over.                                    *)
LEMMA TickSound ==
    ASSUME NEW z, Sound(z, {}), NEW y \in schedTick(z)
    PROVE  /\ Sound(y, {}) /\ y.failed = z.failed /\ Undisturbed(z, y, {})
           /\ y.bar = z.bar /\ y.curThread = z.curThread
           /\ \A u \in Threads :
                 /\ y.th[u].state = z.th[u].state /\ y.th[u].cid = z.th[u].cid
                 /\ y.th[u].handoffThread # None =>
                       \/ y.th[u].handoffThread = z.th[u].handoffThread
                       \/ z.th[u].state = "RUNNING" /\ z.th[u].cid \in Mask[y.th[u].handoffThread]
           /\ \A t \in ToSet(z.runQueue) :
                 t \in ToSet(y.runQueue) \/ \E u \in Threads : y.th[u].handoffThread = t
  <1> DEFINE q == z.runQueue
  <1>1. /\ z \in SchedRecords /\ None \notin Threads \cup Cores /\ ListsTyped(z)
        /\ \A u \in Threads : z.th[u].handoffThread \in Threads \cup {None}
        /\ \A d \in Cores : z.curThread[d] \in Threads \cup {None}
        /\ IsList(q, Threads) /\ ToSet(q) \subseteq Threads
    BY SoundTypes DEF ThreadInfos, ListsTyped
  <1>2. PICK m \in Matches(z) : Ticked(z, y, m)
    BY TickFields
  <1>3. /\ DOMAIN m = DOMAIN q
        /\ \A i \in DOMAIN m : m[i] # None =>
              m[i] \in Mask[q[i]] /\ Runs(z, m[i]) /\ z.curThread[m[i]] \in Threads
        /\ \A u \in Threads : \A i, j : Gives(z, m, u, i) /\ Gives(z, m, u, j) => i = j
        /\ \A u, v \in Threads : \A i : Gives(z, m, u, i) /\ Gives(z, m, v, i) => u = v
    BY MatchingIsExact
  <1>4. /\ y \in SchedRecords /\ y.curThread = z.curThread /\ y.freeList = z.freeList
        /\ y.outQueue = z.outQueue /\ y.sleepQueue = z.sleepQueue /\ y.fakeLeaves = z.fakeLeaves
        /\ y.bar = z.bar /\ y.failed = z.failed
        /\ IsList(y.runQueue, Threads)
        /\ ToSet(y.runQueue) = {q[i] : i \in Unmatched(m)}
    BY <1>2 DEF Ticked
  <1>5. \A u \in Threads :
          /\ y.th[u].state = z.th[u].state /\ y.th[u].cid = z.th[u].cid
          /\ y.th[u].futexWord = z.th[u].futexWord /\ y.th[u].left = z.th[u].left
          /\ y.th[u].markedForSleep = z.th[u].markedForSleep
    BY <1>2 DEF Ticked
  <1>6. \A u \in Threads :
          /\ \A i : Gives(z, m, u, i) => y.th[u].handoffThread = q[i]
          /\ (\A i : ~ Gives(z, m, u, i)) => y.th[u].handoffThread = z.th[u].handoffThread
    BY <1>2 DEF Ticked
  <1> HIDE DEF q
  <1>7. /\ \A i \in DOMAIN q : q[i] \in Threads /\ q[i] \in ToSet(q)
        /\ \A i, j \in DOMAIN q : q[i] = q[j] => i = j
        /\ \A t \in ToSet(q) : \E i \in DOMAIN q : t = q[i]
    BY <1>1 DEF IsList, ToSet, IsInjective
  <1>8. /\ ToSet(y.runQueue) \subseteq ToSet(q)
        /\ \A i \in DOMAIN q : m[i] # None => q[i] \notin ToSet(y.runQueue)
        /\ \A i \in DOMAIN q : m[i] = None => q[i] \in ToSet(y.runQueue)
    BY <1>3, <1>4, <1>7 DEF Unmatched
  <1>9. \A u \in Threads : \A i : Gives(z, m, u, i) => i \in DOMAIN q /\ m[i] # None /\ z.curThread[m[i]] = u
    BY <1>3 DEF Gives
  <1>10. \A d \in Cores : Runs(y, d) <=> Runs(z, d)
    BY <1>1, <1>4, <1>5 DEF Runs
  <1>11. CoresOf(y, {})
    <2>1. \A d \in Cores, u \in Threads : y.curThread[d] = u <=> HasCore(y, u) /\ y.th[u].cid = d
      BY <1>4, <1>5 DEF Sound, CoresOf, HasCore
    <2> QED
      BY <1>4, <1>10, <2>1 DEF Sound, CoresOf
  <1>12. QueuesOf(y)
    <2>1. \A t \in ToSet(y.runQueue) : y.th[t].state = "QUEUED"
      BY <1>1, <1>5, <1>8 DEF Sound, QueuesOf, q
    <2>2. \A t \in ToSet(y.fakeLeaves) : y.th[t].state = "RUNNING"
      BY <1>1, <1>4, <1>5 DEF Sound, QueuesOf, ListsTyped
    <2>3. /\ ToSet(y.outQueue) = {t \in Threads : y.th[t].state = "OUT"}
          /\ ToSet(y.sleepQueue) = Sleepers(y)
      BY <1>4, <1>5 DEF Sound, QueuesOf, Sleepers
    <2> QED
      BY <2>1, <2>2, <2>3 DEF QueuesOf
  <1>13. \A t \in ToSet(q) : z.th[t].state = "QUEUED" /\ z.th[t].futexWord = 1
    BY <1>1 DEF Sound, QueuesOf, WordsOf, q
  <1>14. \A u \in Threads : z.th[u].handoffThread # None =>
            /\ z.th[z.th[u].handoffThread].state = "QUEUED" /\ z.th[u].handoffThread \notin ToSet(q)
            /\ z.th[z.th[u].handoffThread].futexWord = 1
            /\ \A v \in Threads : z.th[v].handoffThread = z.th[u].handoffThread => v = u
    BY DEF Sound, PromisesOf, WordsOf, q
  <1>15. ASSUME NEW u \in Threads, y.th[u].handoffThread # None
         PROVE  /\ y.th[u].handoffThread \in Threads
                /\ y.th[y.th[u].handoffThread].state = "QUEUED"
                /\ y.th[y.th[u].handoffThread].futexWord = 1
                /\ y.th[u].handoffThread \notin ToSet(y.runQueue)
                /\ \A v \in Threads : y.th[v].handoffThread = y.th[u].handoffThread => v = u
    <2> DEFINE t == y.th[u].handoffThread
    <2>1. ASSUME NEW i, Gives(z, m, u, i)
          PROVE  t = q[i] /\ t \in ToSet(q) /\ t \notin ToSet(y.runQueue)
      BY <1>6, <1>7, <1>8, <1>9, <2>1
    <2>2. ASSUME \A i : ~ Gives(z, m, u, i)
          PROVE  t = z.th[u].handoffThread /\ t \notin ToSet(q) /\ t \notin ToSet(y.runQueue)
      BY <1>6, <1>8, <1>14, <1>15, <2>2
    <2>3. t \in Threads /\ z.th[t].state = "QUEUED" /\ z.th[t].futexWord = 1
      BY <1>1, <1>13, <1>14, <1>15, <2>1, <2>2
    <2>4. ASSUME NEW v \in Threads, y.th[v].handoffThread = t
          PROVE  v = u
      <3>1. ASSUME NEW j, Gives(z, m, v, j)
            PROVE  v = u
        <4>1. t = q[j] /\ j \in DOMAIN q /\ t \in ToSet(q)
          BY <1>6, <1>7, <1>9, <2>4, <3>1
        <4>2. PICK i : Gives(z, m, u, i)
          BY <2>2, <4>1
        <4>3. i = j
          BY <1>7, <1>9, <2>1, <4>1, <4>2
        <4> QED
          BY <1>3, <3>1, <4>2, <4>3
      <3>2. ASSUME \A j : ~ Gives(z, m, v, j)
            PROVE  v = u
        <4>1. t = z.th[v].handoffThread /\ t \notin ToSet(q)
          BY <1>6, <1>14, <1>15, <2>4, <3>2
        <4>2. \A i : ~ Gives(z, m, u, i)
          BY <2>1, <4>1
        <4>3. z.th[u].handoffThread = z.th[v].handoffThread /\ z.th[v].handoffThread # None
          BY <1>15, <2>2, <4>1, <4>2
        <4> QED
          BY <1>14, <4>3
      <3> QED
        BY <3>1, <3>2
    <2>5. t \notin ToSet(y.runQueue)
      BY <2>1, <2>2
    <2> QED
      BY <1>5, <2>3, <2>4, <2>5
  <1>16. WordsOf(y)
    <2>1. ASSUME NEW t \in Threads
          PROVE  /\ t \in ToSet(y.runQueue) => y.th[t].futexWord = 1
                 /\ y.th[t].state = "SLEEPING" => y.th[t].left > 0 /\ y.th[t].futexWord = 1
                 /\ y.th[t].markedForSleep => y.th[t].state = "RUNNING" /\ y.th[t].left > 0 /\ y.th[t].futexWord = 1
      BY <1>5, <1>8, <1>13 DEF Sound, WordsOf
    <2> QED
      BY <1>15, <2>1 DEF WordsOf
  <1>17. SleepersInOrder(y)
    <2>1. \A i \in DOMAIN z.sleepQueue : z.sleepQueue[i] \in Threads
      BY <1>1 DEF ListsTyped, IsList
    <2> QED
      BY <1>4, <1>5, <2>1 DEF Sound, SleepersInOrder
  <1>18. PromisesOf(y)
    BY <1>15 DEF PromisesOf
  <1>19. WorkOf(y, {})
    <2>1. \A u \in ToSet(q) : Mask[u] \subseteq Cores
      BY <1>1, SchedulerAssumption
    <2> QED
      BY <1>8, <1>10, <2>1 DEF Sound, WorkOf, q
  <1>20. Typed(y)
    BY <1>4 DEF Sound, Typed, IsList
  <1>21. Undisturbed(z, y, {})
    BY <1>4, <1>5 DEF Undisturbed, Drifts
  <1>22. ASSUME NEW u \in Threads, y.th[u].handoffThread # None
         PROVE  \/ y.th[u].handoffThread = z.th[u].handoffThread
                \/ z.th[u].state = "RUNNING" /\ z.th[u].cid \in Mask[y.th[u].handoffThread]
    <2>1. ASSUME NEW i, Gives(z, m, u, i)
          PROVE  z.th[u].state = "RUNNING" /\ z.th[u].cid \in Mask[y.th[u].handoffThread]
      <3>1. /\ m[i] \in Mask[q[i]] /\ Runs(z, m[i]) /\ z.curThread[m[i]] = u
            /\ y.th[u].handoffThread = q[i] /\ m[i] \in Cores
        BY <1>3, <1>6, <1>7, <1>9, <2>1, SchedulerAssumption
      <3>2. z.th[u].state = "RUNNING" /\ z.th[u].cid = m[i]
        BY <3>1 DEF Runs, Sound, CoresOf
      <3> QED
        BY <3>1, <3>2
    <2> QED
      BY <1>6, <2>1
  <1>23. ASSUME NEW t \in ToSet(q)
         PROVE  t \in ToSet(y.runQueue) \/ \E u \in Threads : y.th[u].handoffThread = t
    <2>1. PICK i \in DOMAIN q : t = q[i]
      BY <1>7
    <2>2. ASSUME m[i] # None
          PROVE  z.curThread[m[i]] \in Threads /\ Gives(z, m, z.curThread[m[i]], i)
      BY <1>3, <2>2 DEF Gives
    <2> QED
      BY <1>6, <1>8, <2>1, <2>2
  <1> QED
    BY <1>4, <1>5, <1>11, <1>12, <1>16, <1>17, <1>18, <1>19, <1>20, <1>21, <1>22, <1>23 DEF Sound, q

(* What others do to a thread, one after the other. *)
LEMMA DriftOn ==
    ASSUME NEW x, NEW y, NEW z, NEW A, Undisturbed(x, y, A), Undisturbed(y, z, {})
    PROVE  Undisturbed(x, z, A)
  BY DEF Undisturbed, Drifts

(* The end of a phase keeps everything well formed. *)
LEMMA CallbackSound ==
    ASSUME NEW z, Sound(z, {}), NEW y \in callback(z)
    PROVE  /\ Sound(y, {}) /\ y.failed = z.failed /\ Undisturbed(z, y, {})
           /\ y.bar = z.bar /\ y.curThread = z.curThread
           /\ \A u \in Threads : y.th[u].handoffThread # None =>
                 \/ y.th[u].handoffThread = z.th[u].handoffThread
                 \/ z.th[u].state = "RUNNING" /\ z.th[u].cid \in Mask[y.th[u].handoffThread]
           /\ \A P, Y : Remembers(z, P, Y) => \A t \in Threads : y.th[t].state = "QUEUED" =>
                 \/ t \in Y \/ t \in ToSet(y.runQueue)
                 \/ \E u \in Threads : y.th[u].handoffThread = t \/ z.th[u].handoffThread = t
           /\ z.runQueue = << >> => \A P, Y : Remembers(z, P, Y) => Remembers(y, P, Y)
  <1>1. PICK n \in DueFront(z) : LET x == PhaseOver(z, n)
                                 IN  y = x \/ (x.runQueue # << >> /\ y \in schedTick(x))
    <2> DEFINE N(n) == LET x == PhaseOver(z, n)
                       IN IF x.failed # z.failed \/ x.runQueue = << >> \/ x.quantum # 0 THEN {x}
                          ELSE schedTick(x)
    <2>1. callback(z) = UNION {N(n) : n \in DueFront(z)}
      BY Zenon DEF callback
    <2>2. PICK n \in DueFront(z) : y \in N(n)
      <3> HIDE DEF N
      <3> QED
        BY <2>1
    <2> QED
      BY <2>2
  <1> DEFINE x == PhaseOver(z, n)
  <1>2. y = x \/ (x.runQueue # << >> /\ y \in schedTick(x))
    BY <1>1
  <1> HIDE DEF x
  <1>3. /\ Sound(x, {}) /\ x.failed = z.failed /\ Undisturbed(z, x, {})
        /\ x.runQueue = z.runQueue /\ x.bar = z.bar /\ x.curThread = z.curThread
        /\ \A u \in Threads : x.th[u].handoffThread = z.th[u].handoffThread
        /\ \A P, Y : Remembers(z, P, Y) => Remembers(x, P, Y)
    BY PhaseOverSound DEF x
  <1>4. CASE y = x
    <2>1. ASSUME NEW P, NEW Y, Remembers(z, P, Y), NEW t \in Threads, y.th[t].state = "QUEUED"
          PROVE  \/ t \in Y \/ t \in ToSet(y.runQueue)
                 \/ \E u \in Threads : y.th[u].handoffThread = t \/ z.th[u].handoffThread = t
      <3>1. Remembers(y, P, Y)
        BY <1>3, <1>4, <2>1
      <3> QED
        BY <2>1, <3>1 DEF Remembers
    <2> QED
      BY <1>3, <1>4, <2>1
  <1>5. CASE x.runQueue # << >> /\ y \in schedTick(x)
    <2>1. /\ Sound(y, {}) /\ y.failed = x.failed /\ Undisturbed(x, y, {})
          /\ y.bar = x.bar /\ y.curThread = x.curThread
          /\ \A u \in Threads :
                /\ y.th[u].state = x.th[u].state /\ y.th[u].cid = x.th[u].cid
                /\ y.th[u].handoffThread # None =>
                      \/ y.th[u].handoffThread = x.th[u].handoffThread
                      \/ x.th[u].state = "RUNNING" /\ x.th[u].cid \in Mask[y.th[u].handoffThread]
          /\ \A t \in ToSet(x.runQueue) :
                t \in ToSet(y.runQueue) \/ \E u \in Threads : y.th[u].handoffThread = t
      BY <1>3, <1>5, TickSound
    <2>2. Undisturbed(z, y, {})
      BY <1>3, <2>1, DriftOn
    <2>3. ASSUME NEW u \in Threads, x.th[u].state = "RUNNING"
          PROVE  z.th[u].state = "RUNNING" /\ z.th[u].cid = x.th[u].cid
      <3>1. \A c \in Cores : x.curThread[c] = u <=> HasCore(x, u) /\ x.th[u].cid = c
        BY <1>3 DEF Sound, CoresOf
      <3>2. \A c \in Cores : z.curThread[c] = u <=> HasCore(z, u) /\ z.th[u].cid = c
        BY DEF Sound, CoresOf
      <3>3. x.th[u].cid \in Cores /\ HasCore(x, u) /\ None \notin Threads
        BY <1>3, <2>3, SoundTypes DEF ThreadInfos, HasCore
      <3>4. HasCore(z, u) /\ z.th[u].cid = x.th[u].cid
        BY <1>3, <3>1, <3>2, <3>3
      <3>5. z.bar[z.th[u].cid] # "off"
        BY <1>3, <2>3, <3>1, <3>3, <3>4 DEF Sound, CoresOf, Runs
      <3> QED
        BY <3>2, <3>3, <3>4, <3>5 DEF Sound, CoresOf, Runs
    <2>4. ASSUME NEW P, NEW Y, Remembers(z, P, Y), NEW t \in Threads, y.th[t].state = "QUEUED"
          PROVE  \/ t \in Y \/ t \in ToSet(y.runQueue)
                 \/ \E u \in Threads : y.th[u].handoffThread = t \/ z.th[u].handoffThread = t
      <3>1. Remembers(x, P, Y) /\ x.th[t].state = "QUEUED"
        BY <1>3, <2>1, <2>4
      <3>2. t \in Y \/ t \in ToSet(x.runQueue) \/ \E u \in Threads : x.th[u].handoffThread = t
        BY <3>1 DEF Remembers
      <3> QED
        BY <1>3, <2>1, <3>2
    <2> QED
      BY <1>3, <1>5, <2>1, <2>2, <2>3, <2>4
  <1> QED
    BY <1>2, <1>4, <1>5

(* The end of the phase in the barrier: those that wait, the threads of P, go on, and *)
(* some of them will hand their core over.                                         *)
LEMMA EndPhaseSound ==
    ASSUME NEW z, Sound(z, {}), NEW y \in EndPhase(z)
    PROVE  /\ Sound(y, {}) /\ y.failed = z.failed /\ Undisturbed(z, y, {})
           /\ \A P, Y : None \notin P /\ Remembers(z, P, Y) => Remembers(y, P, Y)
  <1>1. CASE (\E c \in Cores : z.bar[c] = "run") \/ (\A c \in Cores : z.bar[c] = "off")
    <2>1. y = z
      BY <1>1 DEF EndPhase
    <2> QED
      BY <2>1 DEF Undisturbed, Drifts
  <1>2. CASE ~ ((\E c \in Cores : z.bar[c] = "run") \/ (\A c \in Cores : z.bar[c] = "off"))
    <2>1. PICK x \in callback(z) :
             y = [x EXCEPT !.bar = [c \in Cores |-> IF x.bar[c] = "wait" THEN "run" ELSE x.bar[c]]]
      <3>1. EndPhase(z) = {[x EXCEPT !.bar = [c \in Cores |-> IF x.bar[c] = "wait" THEN "run" ELSE x.bar[c]]] :
                            x \in callback(z)}
        BY <1>2, Zenon DEF EndPhase
      <3> QED
        BY <3>1
    <2>2. /\ Sound(x, {}) /\ x.failed = z.failed /\ Undisturbed(z, x, {})
          /\ x.bar = z.bar /\ x.curThread = z.curThread
          /\ \A u \in Threads : x.th[u].handoffThread # None =>
                 \/ x.th[u].handoffThread = z.th[u].handoffThread
                 \/ z.th[u].state = "RUNNING" /\ z.th[u].cid \in Mask[x.th[u].handoffThread]
          /\ \A P, Y : Remembers(z, P, Y) => \A t \in Threads : x.th[t].state = "QUEUED" =>
                 \/ t \in Y \/ t \in ToSet(x.runQueue)
                 \/ \E u \in Threads : x.th[u].handoffThread = t \/ z.th[u].handoffThread = t
      BY CallbackSound
    <2>3. /\ x \in SchedRecords /\ None \notin Threads \cup Cores
          /\ \A u \in Threads : x.th[u].cid \in Cores /\ z.th[u].cid \in Cores
          /\ z \in SchedRecords
      BY <2>2, SoundTypes DEF ThreadInfos
    <2> DEFINE b == [c \in Cores |-> IF x.bar[c] = "wait" THEN "run" ELSE x.bar[c]]
    <2>4. b \in [Cores -> {"off", "run", "wait"}]
          /\ \A c \in Cores : b[c] = IF x.bar[c] = "wait" THEN "run" ELSE x.bar[c]
      BY <2>3 DEF SchedRecords
    <2>5. y = [x EXCEPT !.bar = b]
      BY <2>1
    <2> HIDE DEF b
    <2>6. /\ y \in SchedRecords /\ y.bar = b
          /\ y.th = x.th /\ y.curThread = x.curThread /\ y.freeList = x.freeList
          /\ y.runQueue = x.runQueue /\ y.outQueue = x.outQueue /\ y.sleepQueue = x.sleepQueue
          /\ y.fakeLeaves = x.fakeLeaves /\ y.failed = x.failed
      BY <2>3, <2>4, <2>5 DEF SchedRecords
    <2>7. \A c \in Cores : /\ x.bar[c] \in {"off", "wait"}
                           /\ y.bar[c] = IF x.bar[c] = "wait" THEN "run" ELSE "off"
      BY <1>2, <2>2, <2>3, <2>4, <2>6 DEF SchedRecords
    <2>8. CoresOf(y, {})
      BY <2>2, <2>6, <2>7, SMTT(20) DEF Sound, CoresOf, HasCore, Runs
    <2>9. QueuesOf(y) /\ WordsOf(y) /\ SleepersInOrder(y) /\ PromisesOf(y) /\ WorkOf(y, {}) /\ Typed(y)
      BY <2>2, <2>6 DEF Sound, Typed, QueuesOf, Sleepers, WordsOf, SleepersInOrder, PromisesOf, WorkOf, Runs
    <2>10. Undisturbed(z, y, {})
      BY <2>2, <2>6 DEF Undisturbed, Drifts
    <2>11. ASSUME NEW P, NEW Y, Remembers(z, P, Y), None \notin P
           PROVE  Remembers(y, P, Y)
      <3>1. \A u \in Threads : z.th[u].handoffThread = None
        BY <2>2, <2>3, <2>7, <2>11 DEF Remembers
      <3>2. \A c \in Cores : z.bar[c] = "wait" => z.curThread[c] \in P
        BY <2>11 DEF Remembers
      <3>3. \A t \in Threads : y.th[t].state = "QUEUED" =>
              t \in Y \/ t \in ToSet(y.runQueue) \/ \E u \in Threads : y.th[u].handoffThread = t
        BY <2>2, <2>3, <2>6, <2>11, <3>1
      <3>4. ASSUME NEW u \in Threads, y.th[u].handoffThread # None
            PROVE  /\ u \in P /\ y.th[u].state = "RUNNING" /\ y.bar[y.th[u].cid] = "run"
                   /\ y.th[u].cid \in Mask[y.th[u].handoffThread]
        <4>1. z.th[u].state = "RUNNING" /\ z.th[u].cid \in Mask[y.th[u].handoffThread]
          BY <2>2, <2>6, <3>1, <3>4
        <4>2. z.curThread[z.th[u].cid] = u /\ z.bar[z.th[u].cid] # "off"
          BY <2>3, <4>1 DEF Sound, CoresOf, HasCore, Runs
        <4>3. z.bar[z.th[u].cid] = "wait" /\ y.bar[z.th[u].cid] = "run"
          BY <2>2, <2>3, <2>7, <4>2
        <4>4. u \in P
          BY <2>3, <3>2, <4>2, <4>3
        <4>5. y.curThread[z.th[u].cid] = u
          BY <2>2, <2>6, <4>2
        <4>6. HasCore(y, u) /\ y.th[u].cid = z.th[u].cid
          BY <2>3, <2>8, <4>5 DEF CoresOf
        <4>7. Runs(y, z.th[u].cid)
          BY <2>3, <2>8, <4>3 DEF CoresOf
        <4> QED
          BY <4>1, <4>3, <4>4, <4>5, <4>6, <4>7 DEF Runs
      <3>5. \A c \in Cores : y.bar[c] # "wait"
        BY <2>7
      <3> QED
        BY <3>3, <3>4, <3>5 DEF Remembers
    <2> QED
      BY <2>2, <2>6, <2>8, <2>9, <2>10, <2>11 DEF Sound
  <1> QED
    BY <1>1, <1>2

(* A failed assertion changes nothing else. *)
LEMMA FailSound ==
    ASSUME NEW z, Sound(z, {}), NEW a \in {"leave", "join", "finish"}
    PROVE  /\ Sound(Fail(z, a), {}) /\ Fail(z, a).failed = a /\ Fail(z, a).th = z.th
           /\ \A P, Y : Remembers(z, P, Y) => Remembers(Fail(z, a), P, Y)
  <1> DEFINE y == Fail(z, a)
  <1>1. z \in SchedRecords
    BY SoundTypes
  <1>2. /\ y \in SchedRecords /\ y.th = z.th /\ y.curThread = z.curThread /\ y.freeList = z.freeList
        /\ y.runQueue = z.runQueue /\ y.outQueue = z.outQueue /\ y.sleepQueue = z.sleepQueue
        /\ y.fakeLeaves = z.fakeLeaves /\ y.bar = z.bar /\ y.failed = a
    BY <1>1 DEF SchedRecords, Fail
  <1> HIDE DEF y
  <1>3. CoresOf(y, {}) /\ QueuesOf(y) /\ Typed(y)
    BY <1>2 DEF Sound, Typed, CoresOf, HasCore, Runs, QueuesOf, Sleepers
  <1>4. WordsOf(y) /\ SleepersInOrder(y) /\ PromisesOf(y) /\ WorkOf(y, {})
    BY <1>2 DEF Sound, WordsOf, SleepersInOrder, PromisesOf, WorkOf, Runs
  <1>5. \A P, Y : Remembers(z, P, Y) => Remembers(y, P, Y)
    BY <1>2 DEF Remembers
  <1> QED
    BY <1>2, <1>3, <1>4, <1>5 DEF Sound, y

(* The list of pretended leaves plays no part in who has which core. *)
LEMMA FakeLeavesSound ==
    ASSUME NEW z, NEW t \in Threads, Sound(z, {}), NEW q, IsList(q, Threads),
           ToSet(q) \ {t} = ToSet(z.fakeLeaves) \ {t},
           t \in ToSet(q) => z.th[t].state = "RUNNING",
           NEW y, y = [z EXCEPT !.fakeLeaves = q]
    PROVE  /\ Sound(y, {}) /\ y.failed = z.failed /\ y.th = z.th /\ y.bar = z.bar
           /\ y.curThread = z.curThread
           /\ y.fakeLeaves = q /\ Undisturbed(z, y, {t})
           /\ \A P, Y : Remembers(z, P, Y) => Remembers(y, P, Y)
  <1>1. z \in SchedRecords /\ ListsTyped(z)
    BY SoundTypes
  <1>2. /\ y \in SchedRecords /\ y.th = z.th /\ y.curThread = z.curThread /\ y.freeList = z.freeList
        /\ y.runQueue = z.runQueue /\ y.outQueue = z.outQueue /\ y.sleepQueue = z.sleepQueue
        /\ y.fakeLeaves = q /\ y.bar = z.bar /\ y.failed = z.failed
    BY <1>1 DEF SchedRecords, IsList
  <1>3. CoresOf(y, {}) /\ Typed(y)
    BY <1>2 DEF Sound, Typed, CoresOf, HasCore, Runs, IsList
  <1>4. QueuesOf(y)
    <2>1. \A u \in ToSet(q) : u # t => u \in ToSet(z.fakeLeaves)
      OBVIOUS
    <2> QED
      BY <1>2, <2>1 DEF Sound, QueuesOf, Sleepers
  <1>5. WordsOf(y) /\ SleepersInOrder(y) /\ PromisesOf(y) /\ WorkOf(y, {})
    BY <1>2 DEF Sound, WordsOf, SleepersInOrder, PromisesOf, WorkOf, Runs
  <1>6. Undisturbed(z, y, {t})
    BY <1>2 DEF Undisturbed, Drifts
  <1>7. \A P, Y : Remembers(z, P, Y) => Remembers(y, P, Y)
    BY <1>2 DEF Remembers
  <1> QED
    BY <1>2, <1>3, <1>4, <1>5, <1>6, <1>7 DEF Sound

(* A pretended leave is over, or has not been. *)
LEMMA UnfakeSound ==
    ASSUME NEW z, NEW t \in Threads, Sound(z, {})
    PROVE  LET y == finishFakeLeave(z, t)
           IN  /\ Sound(y, {}) /\ y.failed = z.failed /\ y.th = z.th /\ y.bar = z.bar
               /\ y.curThread = z.curThread
               /\ t \notin ToSet(y.fakeLeaves) /\ Undisturbed(z, y, {t})
               /\ \A P, Y : Remembers(z, P, Y) => Remembers(y, P, Y)
  <1> DEFINE q == RemoveFirst(z.fakeLeaves, t)
  <1>1. IsList(z.fakeLeaves, Threads)
    BY SoundTypes DEF ListsTyped
  <1>2. IsList(q, Threads) /\ ToSet(q) = ToSet(z.fakeLeaves) \ {t}
    BY <1>1, RemoveList
  <1> HIDE DEF q
  <1>3. ToSet(q) \ {t} = ToSet(z.fakeLeaves) \ {t} /\ t \notin ToSet(q)
    BY <1>2
  <1>4. finishFakeLeave(z, t) = [z EXCEPT !.fakeLeaves = q]
    BY DEF finishFakeLeave, q
  <1> QED
    BY <1>2, <1>3, <1>4, FakeLeavesSound

(* A thread pretends to leave. *)
LEMMA FakeSound ==
    ASSUME NEW z, NEW t \in Threads, Sound(z, {}), z.th[t].state = "RUNNING",
           t \notin ToSet(z.fakeLeaves)
    PROVE  LET y == [z EXCEPT !.fakeLeaves = Append(@, t)]
           IN  /\ Sound(y, {}) /\ y.failed = z.failed /\ y.th = z.th
               /\ t \in ToSet(y.fakeLeaves) /\ Undisturbed(z, y, {t})
               /\ \A P, Y : Remembers(z, P, Y) => Remembers(y, P, Y)
  <1> DEFINE q == Append(z.fakeLeaves, t)
  <1>1. IsList(z.fakeLeaves, Threads)
    BY SoundTypes DEF ListsTyped
  <1>2. IsList(q, Threads) /\ ToSet(q) = ToSet(z.fakeLeaves) \cup {t}
    BY <1>1, AppendList
  <1> HIDE DEF q
  <1>3. ToSet(q) \ {t} = ToSet(z.fakeLeaves) \ {t} /\ t \in ToSet(q)
    BY <1>2
  <1> DEFINE y == [z EXCEPT !.fakeLeaves = Append(@, t)]
  <1>4. y = [z EXCEPT !.fakeLeaves = q]
    BY DEF q
  <1> HIDE DEF y
  <1>5. /\ Sound(y, {}) /\ y.failed = z.failed /\ y.th = z.th
        /\ y.fakeLeaves = q /\ Undisturbed(z, y, {t})
        /\ \A P, Y : Remembers(z, P, Y) => Remembers(y, P, Y)
    BY <1>2, <1>3, <1>4, FakeLeavesSound
  <1>6. t \in ToSet(y.fakeLeaves)
    <2>1. y.fakeLeaves = q
      BY <1>5, Zenon
    <2> QED
      BY <1>3, <2>1
  <1> QED
    BY <1>5, <1>6 DEF y

(* A thread is about to sleep. *)
LEMMA MarkSound ==
    ASSUME NEW z, NEW t \in Threads, Sound(z, {}), NEW n \in Sleeps, z.th[t].state = "RUNNING"
    PROVE  LET y == [z EXCEPT !.th[t].markedForSleep = TRUE, !.th[t].left = n, !.th[t].futexWord = 1]
           IN  /\ Sound(y, {}) /\ y.failed = z.failed
               /\ Undisturbed(z, y, {t}) /\ y.fakeLeaves = z.fakeLeaves
               /\ y.th[t].state = "RUNNING"
               /\ \A P, Y : None \notin P /\ Remembers(z, P, Y) => Remembers(y, P, Y)
  <1> DEFINE y == [z EXCEPT !.th[t].markedForSleep = TRUE, !.th[t].left = n, !.th[t].futexWord = 1]
  <1>1. /\ z \in SchedRecords /\ None \notin Threads \cup Cores
        /\ ListsTyped(z) /\ \A u \in Threads : z.th[u] \in ThreadInfos /\ Mask[u] \subseteq Cores
        /\ \A d \in Cores : z.curThread[d] \in Threads \cup {None}
    BY SoundTypes
  <1>0. n \in Nat /\ n > 0
    BY SchedulerAssumption
  <1>2. /\ y.th = [z.th EXCEPT ![t] = [z.th[t] EXCEPT !.markedForSleep = TRUE, !.left = n, !.futexWord = 1]]
        /\ y.runQueue = z.runQueue
        /\ y.curThread = z.curThread /\ y.freeList = z.freeList /\ y.outQueue = z.outQueue
        /\ y.sleepQueue = z.sleepQueue /\ y.fakeLeaves = z.fakeLeaves /\ y.bar = z.bar
        /\ y.quantum = z.quantum /\ y.failed = z.failed
    BY <1>1 DEF SchedRecords
  <1>3. y \in SchedRecords
    <2>0. 1 \in 0 .. 1
      OBVIOUS
    <2>1. [z.th[t] EXCEPT !.markedForSleep = TRUE, !.left = n, !.futexWord = 1] \in ThreadInfos
      BY <1>0, <1>1, <2>0 DEF ThreadInfos
    <2>2. y.th \in [Threads -> ThreadInfos]
      BY <1>1, <1>2, <2>1 DEF SchedRecords
    <2> QED
      BY <1>1, <2>2 DEF SchedRecords
  <1> HIDE DEF y
  <1>4. /\ \A u \in Threads : u # t => y.th[u] = z.th[u]
        /\ y.th[t].state = "RUNNING" /\ y.th[t].cid = z.th[t].cid
        /\ y.th[t].handoffThread = z.th[t].handoffThread /\ y.th[t].futexWord = 1
        /\ y.th[t].markedForSleep /\ y.th[t].left = n
    BY <1>1, <1>2 DEF SchedRecords, ThreadInfos
  <1>5. t \notin ToSet(z.runQueue) /\ t \notin ToSet(z.sleepQueue)
    BY DEF Sound, QueuesOf, Sleepers
  <1>6. \A u \in Threads : y.th[u].state = z.th[u].state /\ y.th[u].cid = z.th[u].cid
                          /\ y.th[u].handoffThread = z.th[u].handoffThread
    BY <1>4
  <1>7. \A d \in Cores : Runs(y, d) <=> Runs(z, d)
    BY <1>1, <1>2, <1>6 DEF Runs
  <1>8. CoresOf(y, {})
    BY <1>2, <1>6, <1>7 DEF Sound, CoresOf, HasCore
  <1>9. QueuesOf(y)
    BY <1>1, <1>2, <1>6 DEF Sound, QueuesOf, Sleepers, ListsTyped
  <1>10. WordsOf(y)
    <2>1. \A u \in Threads : z.th[u].futexWord = 1 => y.th[u].futexWord = 1
      BY <1>4
    <2>2. \A u \in Threads : u # t => y.th[u].left = z.th[u].left /\ y.th[u].markedForSleep = z.th[u].markedForSleep
      BY <1>4
    <2>3. \A u \in Threads : z.th[u].handoffThread \in Threads \cup {None}
      BY <1>1 DEF ThreadInfos
    <2> QED
      BY <1>0, <1>2, <1>4, <1>5, <1>6, <2>1, <2>2, <2>3 DEF Sound, WordsOf
  <1>11. SleepersInOrder(y)
    <2>1. \A i \in DOMAIN z.sleepQueue : z.sleepQueue[i] \in Threads /\ z.sleepQueue[i] # t
      BY <1>1, <1>5 DEF SchedRecords, ToSet
    <2> QED
      BY <1>2, <1>4, <2>1 DEF Sound, SleepersInOrder
  <1>12. PromisesOf(y) /\ WorkOf(y, {})
    <2>1. \A u \in Threads : z.th[u].handoffThread \in Threads \cup {None}
      BY <1>1 DEF ThreadInfos
    <2>2. PromisesOf(y)
      BY <1>2, <1>6, <2>1 DEF Sound, PromisesOf
    <2>3. WorkOf(y, {})
      BY <1>1, <1>2, <1>7 DEF Sound, WorkOf, ListsTyped
    <2> QED
      BY <2>2, <2>3
  <1>13. Typed(y)
    BY <1>2, <1>3 DEF Sound, Typed
  <1>14. Undisturbed(z, y, {t})
    BY <1>2, <1>4, SMTT(20) DEF Undisturbed, Drifts
  <1>15. ASSUME NEW P, NEW Y, None \notin P /\ Remembers(z, P, Y)
         PROVE  Remembers(y, P, Y)
    BY <1>2, <1>6, <1>15 DEF Remembers
  <1> QED
    BY <1>2, <1>4, <1>8, <1>9, <1>10, <1>11, <1>12, <1>13, <1>14, <1>15 DEF Sound, y

(* A thread that holds no core and is nobody's to wake starts, or ends. *)
LEMMA IdleSound ==
    ASSUME NEW z, NEW t \in Threads, Sound(z, {}), NEW b \in {"NEW", "STARTED"},
           z.th[t].state \in {"NEW", "STARTED", "BLOCKED", "QUEUED"}, t \notin ToSet(z.runQueue),
           \A u \in Threads : z.th[u].handoffThread # t
    PROVE  LET y == [z EXCEPT !.th[t].state = b]
           IN  /\ Sound(y, {}) /\ y.failed = z.failed
               /\ Undisturbed(z, y, {t}) /\ y.th[t].state = b
               /\ \A P, Y : None \notin P /\ Remembers(z, P, Y) => Remembers(y, P, Y \ {t})
  <1> DEFINE y == [z EXCEPT !.th[t].state = b]
  <1>1. /\ z \in SchedRecords /\ None \notin Threads \cup Cores
        /\ ListsTyped(z) /\ \A u \in Threads : z.th[u] \in ThreadInfos /\ Mask[u] \subseteq Cores
        /\ \A d \in Cores : z.curThread[d] \in Threads \cup {None}
    BY SoundTypes
  <1>2. /\ y.th = [z.th EXCEPT ![t] = [z.th[t] EXCEPT !.state = b]]
        /\ y.runQueue = z.runQueue
        /\ y.curThread = z.curThread /\ y.freeList = z.freeList /\ y.outQueue = z.outQueue
        /\ y.sleepQueue = z.sleepQueue /\ y.fakeLeaves = z.fakeLeaves /\ y.bar = z.bar
        /\ y.quantum = z.quantum /\ y.failed = z.failed
    BY <1>1 DEF SchedRecords
  <1>3. y \in SchedRecords
    <2>1. [z.th[t] EXCEPT !.state = b] \in ThreadInfos
      BY <1>1 DEF ThreadInfos, States
    <2>2. y.th \in [Threads -> ThreadInfos]
      BY <1>1, <1>2, <2>1 DEF SchedRecords
    <2> QED
      BY <1>1, <2>2 DEF SchedRecords
  <1> HIDE DEF y
  <1>4. /\ \A u \in Threads : u # t => y.th[u] = z.th[u]
        /\ y.th[t].state = b /\ y.th[t].cid = z.th[t].cid
        /\ y.th[t].handoffThread = z.th[t].handoffThread /\ y.th[t].futexWord = z.th[t].futexWord
        /\ y.th[t].markedForSleep = z.th[t].markedForSleep /\ y.th[t].left = z.th[t].left
    BY <1>1, <1>2 DEF SchedRecords, ThreadInfos
  <1>6. /\ ~ HasCore(z, t) /\ z.th[t].state # "SLEEPING" /\ ~ z.th[t].markedForSleep
        /\ \A d \in Cores : z.curThread[d] # t
        /\ b \notin {"RUNNING", "OUT", "SLEEPING", "QUEUED"}
    BY <1>1 DEF Sound, CoresOf, HasCore, WordsOf
  <1>7. \A d \in Cores : Runs(y, d) <=> Runs(z, d)
    BY <1>1, <1>2, <1>4, <1>6 DEF Runs
  <1>8. CoresOf(y, {})
    <2>1. \A u \in Threads : (HasCore(y, u) <=> HasCore(z, u)) /\ y.th[u].cid = z.th[u].cid
      BY <1>4, <1>6 DEF HasCore
    <2> QED
      BY <1>2, <1>7, <2>1 DEF Sound, CoresOf
  <1>9. QueuesOf(y)
    BY <1>1, <1>2, <1>4, <1>6 DEF Sound, QueuesOf, HasCore, Sleepers
  <1>10. WordsOf(y)
    <2>3. \A u \in Threads : z.th[u].handoffThread \in Threads \cup {None}
      BY <1>1 DEF ThreadInfos
    <2> QED
      BY <1>2, <1>4, <1>6, <2>3 DEF Sound, WordsOf
  <1>11. SleepersInOrder(y)
    <2>1. \A u \in Threads : y.th[u].left = z.th[u].left
      BY <1>4
    <2>2. \A i \in DOMAIN z.sleepQueue : z.sleepQueue[i] \in Threads
      BY <1>1 DEF SchedRecords
    <2> QED
      BY <1>2, <2>1, <2>2 DEF Sound, SleepersInOrder
  <1>12. PromisesOf(y)
    <2>3. \A u \in Threads : z.th[u].handoffThread \in Threads \cup {None}
      BY <1>1 DEF ThreadInfos
    <2> QED
      BY <1>2, <1>4, <2>3 DEF Sound, PromisesOf
  <1>13. WorkOf(y, {})
    BY <1>1, <1>2, <1>7 DEF Sound, WorkOf, ListsTyped
  <1>14. Typed(y)
    BY <1>2, <1>3 DEF Sound, Typed
  <1>15. Undisturbed(z, y, {t})
    BY <1>2, <1>4, SMTT(20) DEF Undisturbed, Drifts
  <1>16. ASSUME NEW P, NEW Y, None \notin P /\ Remembers(z, P, Y)
         PROVE  Remembers(y, P, Y \ {t})
    BY <1>1, <1>2, <1>4, <1>6, <1>16 DEF Remembers, HasCore
  <1> QED
    BY <1>2, <1>4, <1>8, <1>9, <1>10, <1>11, <1>12, <1>13, <1>14, <1>15, <1>16 DEF Sound, y

(* A running thread waits for the end of the phase. *)
LEMMA WaitsForPhase ==
    ASSUME NEW z, NEW t \in Threads, Sound(z, {}), z.th[t].state = "RUNNING"
    PROVE  LET y == [z EXCEPT !.bar[z.th[t].cid] = "wait"]
           IN  /\ Sound(y, {}) /\ y.failed = z.failed /\ y.th = z.th /\ Undisturbed(z, y, {})
               /\ \A P, Y : t \notin P /\ Remembers(z, P, Y) => Remembers(y, P \cup {t}, Y)
  <1> DEFINE c == z.th[t].cid
             y == [z EXCEPT !.bar[c] = "wait"]
  <1>1. /\ z \in SchedRecords /\ None \notin Threads /\ c \in Cores
        /\ \A u \in Threads : z.th[u] \in ThreadInfos /\ z.th[u].cid \in Cores
    BY SoundTypes DEF ThreadInfos
  <1>2. z.curThread[c] = t /\ Runs(z, c)
    BY <1>1 DEF Sound, CoresOf, HasCore, Runs
  <1> HIDE DEF c
  <1>3. /\ y \in SchedRecords /\ y.bar = [z.bar EXCEPT ![c] = "wait"]
        /\ y.th = z.th /\ y.curThread = z.curThread /\ y.freeList = z.freeList
        /\ y.runQueue = z.runQueue /\ y.outQueue = z.outQueue /\ y.sleepQueue = z.sleepQueue
        /\ y.fakeLeaves = z.fakeLeaves /\ y.failed = z.failed
    BY <1>1 DEF SchedRecords
  <1> HIDE DEF y
  <1>4. y.bar[c] = "wait" /\ \A d \in Cores : d # c => y.bar[d] = z.bar[d]
    BY <1>1, <1>3 DEF SchedRecords
  <1>5. CoresOf(y, {})
    BY <1>2, <1>3, <1>4, SMTT(20) DEF Sound, CoresOf, HasCore, Runs
  <1>6. QueuesOf(y) /\ WordsOf(y) /\ SleepersInOrder(y) /\ PromisesOf(y) /\ WorkOf(y, {}) /\ Typed(y)
    BY <1>3 DEF Sound, Typed, QueuesOf, Sleepers, WordsOf, SleepersInOrder, PromisesOf, WorkOf, Runs
  <1>7. Undisturbed(z, y, {})
    BY <1>3 DEF Undisturbed, Drifts
  <1>8. ASSUME NEW P, NEW Y, t \notin P, Remembers(z, P, Y)
        PROVE  Remembers(y, P \cup {t}, Y)
    <2>1. \A u \in Threads : z.th[u].state = "RUNNING" /\ u # t => z.th[u].cid # c
      BY <1>1, <1>2 DEF Sound, CoresOf, HasCore
    <2>2. ASSUME NEW u \in Threads, y.th[u].handoffThread # None
          PROVE  /\ u \in P \cup {t} /\ y.th[u].state = "RUNNING" /\ y.bar[y.th[u].cid] = "run"
                 /\ y.th[u].cid \in Mask[y.th[u].handoffThread]
      BY <1>1, <1>3, <1>4, <1>8, <2>1, <2>2 DEF Remembers
    <2>3. \A u \in Threads : y.th[u].state = "QUEUED" =>
            u \in Y \/ u \in ToSet(y.runQueue) \/ \E v \in Threads : y.th[v].handoffThread = u
      BY <1>3, <1>8 DEF Remembers
    <2>4. \A d \in Cores : y.bar[d] = "wait" => y.curThread[d] \in P \cup {t}
      BY <1>2, <1>3, <1>4, <1>8 DEF Remembers
    <2> QED
      BY <2>2, <2>3, <2>4 DEF Remembers
  <1> QED
    BY <1>3, <1>5, <1>6, <1>7, <1>8 DEF Sound, y, c

(* A thread comes back from the barrier's wait. *)
LEMMA NoLongerWaits ==
    ASSUME NEW z, NEW t \in Threads, Sound(z, {}), z.th[t].handoffThread = None,
           z.bar[z.th[t].cid] # "wait", NEW P, NEW Y, None \notin P, Remembers(z, P, Y)
    PROVE  Remembers(z, P \ {t}, Y)
  <1>1. \A c \in Cores : z.curThread[c] = t => z.th[t].cid = c
    BY DEF Sound, CoresOf
  <1> QED
    BY <1>1 DEF Remembers

(* A core in transit is handed over to a queued thread. *)
LEMMA HandOverSound ==
    ASSUME NEW z, NEW t \in Threads, NEW c \in Cores, Sound(z, {c}),
           z.th[t].state = "QUEUED", z.th[t].futexWord = 1,
           \A u \in Threads : z.th[u].handoffThread # t, z.bar[c] # "off",
           NEW y, y = HandOver(z, t, c)
    PROVE  /\ Sound(y, {}) /\ y.failed = z.failed /\ Undisturbed(z, y, {}) /\ OthersSame(z, y, t)
           /\ ToSet(y.runQueue) = ToSet(z.runQueue) \ {t} /\ y.fakeLeaves = z.fakeLeaves
           /\ y.th[t].handoffThread = z.th[t].handoffThread
           /\ \A P, Y : None \notin P /\ Remembers(z, P, Y) => Remembers(y, P, Y \ {t})
  <1> DEFINE q == [z EXCEPT !.runQueue = RemoveFirst(@, t)]
             x == schedule(q, t, c)
  <1>1. /\ Sound(q, {c}) /\ q.failed = z.failed
        /\ Undisturbed(z, q, {}) /\ OthersSame(z, q, t)
        /\ q.th = z.th /\ q.bar = z.bar
        /\ ToSet(q.runQueue) = ToSet(z.runQueue) \ {t}
        /\ \A P, Y : None \notin P /\ Remembers(z, P, Y) => Remembers(q, P, Y \cup {t})
    BY UnqueueSound, Zenon
  <1>2. z \in SchedRecords /\ q.fakeLeaves = z.fakeLeaves /\ t \notin ToSet(q.runQueue)
    <2>1. z \in SchedRecords
      BY SoundTypes
    <2>2. q.fakeLeaves = z.fakeLeaves
      BY <2>1 DEF SchedRecords
    <2> HIDE DEF q
    <2> QED
      BY <1>1, <2>1, <2>2
  <1> HIDE DEF q
  <1>3. q \in SchedRecords /\ t \notin ToSet(z.fakeLeaves) /\ ~ z.th[t].markedForSleep
        /\ z.th[t] \in ThreadInfos
    BY <1>1, SoundTypes DEF Sound, QueuesOf, WordsOf
  <1>4. /\ Sound(x, {}) /\ x.failed = q.failed /\ Undisturbed(q, x, {t}) /\ OthersSame(q, x, t)
        /\ x.th[t] = [q.th[t] EXCEPT !.state = "RUNNING", !.cid = c]
        /\ x.runQueue = q.runQueue
        /\ \A P, Y : None \notin P /\ Remembers(q, P, Y) => Remembers(x, P, Y \ {t})
    <2>1. /\ q.th[t].state \in {"BLOCKED", "STARTED", "QUEUED"} /\ t \notin ToSet(q.runQueue)
          /\ (\A u \in Threads : q.th[u].handoffThread # t) /\ q.bar[c] # "off"
      BY <1>1, <1>2
    <2>2. Sound(q, {c})
      BY <1>1
    <2>3. /\ Sound(schedule(q, t, c), {}) /\ schedule(q, t, c).failed = q.failed
          /\ Undisturbed(q, schedule(q, t, c), {t}) /\ OthersSame(q, schedule(q, t, c), t)
          /\ schedule(q, t, c).th[t] = [q.th[t] EXCEPT !.state = "RUNNING", !.cid = c]
          /\ schedule(q, t, c).runQueue = q.runQueue
          /\ \A P, Y : None \notin P /\ Remembers(q, P, Y) => Remembers(schedule(q, t, c), P, Y \ {t})
      BY <2>1, <2>2, ScheduleSound, Zenon
    <2> QED
      BY <2>3
  <1>5. x.fakeLeaves = z.fakeLeaves
    BY <1>2, <1>3 DEF schedule, SchedRecords
  <1>6. y = wakeup(x, t)
    BY DEF HandOver, x, q
  <1> HIDE DEF x
  <1>7. /\ x.th[t].state = "RUNNING" /\ x.th[t].futexWord = 1 /\ ~ x.th[t].markedForSleep
        /\ x.th[t].markedForSleep = z.th[t].markedForSleep
        /\ x.th[t].handoffThread = z.th[t].handoffThread
    BY <1>1, <1>3, <1>4 DEF ThreadInfos
  <1>8. /\ Sound(y, {}) /\ y.failed = x.failed /\ Undisturbed(x, y, {t}) /\ OthersSame(x, y, t)
        /\ y.th[t] = [x.th[t] EXCEPT !.futexWord = 0]
        /\ y.runQueue = x.runQueue
        /\ \A P, Y : None \notin P /\ Remembers(x, P, Y) => Remembers(y, P, Y)
    <2>1. Sound(x, {}) /\ x.th[t].futexWord = 1 /\ x.th[t].state = "RUNNING" /\ ~ x.th[t].markedForSleep
      BY <1>4, <1>7
    <2>2. /\ Sound(wakeup(x, t), {}) /\ wakeup(x, t).failed = x.failed
          /\ Undisturbed(x, wakeup(x, t), {t}) /\ OthersSame(x, wakeup(x, t), t)
          /\ wakeup(x, t).th[t] = [x.th[t] EXCEPT !.futexWord = 0]
          /\ wakeup(x, t).runQueue = x.runQueue
          /\ \A P, Y : None \notin P /\ Remembers(x, P, Y) => Remembers(wakeup(x, t), P, Y)
      BY <2>1, WakeupSound, Zenon
    <2> QED
      BY <1>6, <2>2
  <1>9. y.fakeLeaves = z.fakeLeaves
    <2>1. x \in SchedRecords
      BY <1>4, SoundTypes
    <2> QED
      BY <1>5, <1>6, <1>7, <2>1 DEF wakeup, SchedRecords
  <1>10. OthersSame(z, y, t)
    BY <1>1, <1>4, <1>8 DEF OthersSame
  <1>11. /\ y.th[t].state = "RUNNING" /\ y.th[t].markedForSleep = z.th[t].markedForSleep
         /\ y.th[t].handoffThread = z.th[t].handoffThread
    <2>1. x.th[t] \in ThreadInfos
      BY <1>4, SoundTypes
    <2> QED
      BY <1>7, <1>8, <2>1 DEF ThreadInfos
  <1>12. Undisturbed(z, y, {})
    <2>1. ASSUME NEW u \in Threads, u # t
          PROVE  Drifts(z, y, u)
      BY <1>9, <1>10, <2>1 DEF Drifts, OthersSame
    <2>2. Drifts(z, y, t)
      BY <1>3, <1>9, <1>11 DEF Drifts
    <2> QED
      BY <2>1, <2>2 DEF Undisturbed
  <1>13. ASSUME NEW P, NEW Y, None \notin P /\ Remembers(z, P, Y)
         PROVE  Remembers(y, P, Y \ {t})
    <2>1. Remembers(y, P, (Y \cup {t}) \ {t})
      BY <1>1, <1>4, <1>8, <1>13
    <2>2. (Y \cup {t}) \ {t} = Y \ {t}
      OBVIOUS
    <2> QED
      BY <2>1, <2>2
  <1> QED
    BY <1>1, <1>4, <1>8, <1>9, <1>10, <1>11, <1>12, <1>13

(* schedThread finds a core that is free or whose thread is OUT; if it finds none, *)
(* all the cores the thread may run on run.                                       *)
LEMMA SchedThreadFinds ==
    ASSUME NEW z, NEW t \in Threads, Sound(z, {}), NEW c, c = SchedThread(z, t)
    PROVE  /\ c # None => /\ c \in Mask[t] /\ c \in Cores
                          /\ z.curThread[c] # None =>
                                z.curThread[c] \in Threads /\ z.th[z.curThread[c]].state = "OUT"
           /\ c = None => \A d \in Mask[t] : Runs(z, d)
  <1> DEFINE last == z.th[t].cid
             free == FirstIn(z.freeList, Mask[t])
             D == {o \in Threads : z.th[o].cid \in Mask[t]}
             out == FirstIn(z.outQueue, D)
  <1>1. c = IF z.curThread[last] = None /\ last \in Mask[t] THEN last
            ELSE IF free # None THEN free
            ELSE IF out # None THEN z.th[out].cid ELSE None
    BY Zenon DEF SchedThread
  <1>2. /\ z \in SchedRecords /\ None \notin Threads /\ None \notin Cores
        /\ \A u \in Threads : z.th[u] \in ThreadInfos /\ Mask[u] \subseteq Cores
        /\ \A d \in Cores : z.curThread[d] \in Threads \cup {None}
    BY SoundTypes
  <1>3. last \in Cores /\ z.freeList \in Seq(Cores) /\ z.outQueue \in Seq(Threads)
    BY <1>2 DEF ThreadInfos, SchedRecords
  <1>4. /\ free # None => free \in ToSet(z.freeList) \cap Mask[t]
        /\ free = None => ToSet(z.freeList) \cap Mask[t] = {}
    BY <1>2, <1>3, FirstInFinds
  <1>5. /\ out # None => out \in ToSet(z.outQueue) \cap D
        /\ out = None => ToSet(z.outQueue) \cap D = {}
    BY <1>2, <1>3, FirstInFinds
  <1>6. /\ ToSet(z.freeList) = {d \in Cores : z.curThread[d] = None}
        /\ ToSet(z.outQueue) = {u \in Threads : z.th[u].state = "OUT"}
        /\ \A d \in Cores, u \in Threads : z.curThread[d] = u <=> HasCore(z, u) /\ z.th[u].cid = d
    BY DEF Sound, CoresOf, QueuesOf
  <1> HIDE DEF last, free, out
  <1>7. free # None => free \in Cores /\ free \in Mask[t] /\ z.curThread[free] = None
    BY <1>4, <1>6
  <1>8. out # None => /\ out \in Threads /\ z.th[out].state = "OUT" /\ z.th[out].cid \in Mask[t]
                      /\ z.th[out].cid \in Cores /\ z.curThread[z.th[out].cid] = out
    BY <1>2, <1>5, <1>6, SMTT(20) DEF HasCore
  <1>9. ASSUME c # None
        PROVE  /\ c \in Mask[t] /\ c \in Cores
               /\ z.curThread[c] # None =>
                    z.curThread[c] \in Threads /\ z.th[z.curThread[c]].state = "OUT"
    BY <1>1, <1>3, <1>7, <1>8, <1>9
  <1>10. ASSUME c = None, NEW d \in Mask[t]
         PROVE  Runs(z, d)
    <2>1. free = None /\ out = None /\ d \in Cores
      BY <1>1, <1>2, <1>3, <1>7, <1>8, <1>10
    <2>2. z.curThread[d] \in Threads
      BY <1>2, <1>4, <1>6, <2>1
    <2>3. z.th[z.curThread[d]].state # "OUT"
      BY <1>5, <1>6, <2>1, <2>2
    <2> QED
      BY <1>2, <1>6, <2>1, <2>2, <2>3 DEF Runs, HasCore
  <1> QED
    BY <1>9, <1>10

(* y differs from z in that c has been taken from whom it belonged to: not from t. *)
Taken(z, y, t, c) ==
    /\ Sound(y, {c}) /\ y.failed = z.failed /\ Undisturbed(z, y, {})
    /\ y.th[t] = z.th[t] /\ y.runQueue = z.runQueue /\ y.fakeLeaves = z.fakeLeaves
    /\ \A u \in Threads : y.th[u].handoffThread = z.th[u].handoffThread
    /\ \A P, Y : None \notin P /\ Remembers(z, P, Y) => Remembers(y, P, Y)

(* A core that schedThread found is taken from the free list. *)
LEMMA FreeIsTaken ==
    ASSUME NEW z, NEW t \in Threads, Sound(z, {}), NEW c \in Cores, z.curThread[c] = None
    PROVE  Taken(z, [z EXCEPT !.freeList = RemoveFirst(@, c)], t, c)
  <1> DEFINE x == [z EXCEPT !.freeList = RemoveFirst(@, c)]
  <1>1. z \in SchedRecords
    BY SoundTypes
  <1>2. /\ Sound(x, {c}) /\ x.failed = z.failed /\ Undisturbed(z, x, {})
        /\ x.th = z.th /\ x.runQueue = z.runQueue
        /\ \A P, Y : Remembers(z, P, Y) => Remembers(x, P, Y)
    BY TakeFreeSound
  <1>3. x.fakeLeaves = z.fakeLeaves
    BY <1>1 DEF SchedRecords
  <1> HIDE DEF x
  <1>4. Taken(z, x, t, c)
    BY <1>2, <1>3 DEF Taken
  <1> QED
    BY <1>4 DEF x

(* A core that schedThread found is stolen from a thread that is OUT. *)
LEMMA OutIsTaken ==
    ASSUME NEW z, NEW t \in Threads, Sound(z, {}), NEW o \in Threads \ {t}, z.th[o].state = "OUT"
    PROVE  Taken(z, deschedule([z EXCEPT !.outQueue = RemoveFirst(@, o)], o, "BLOCKED"), t, z.th[o].cid)
  <1> DEFINE x == deschedule([z EXCEPT !.outQueue = RemoveFirst(@, o)], o, "BLOCKED")
  <1>1. z \in SchedRecords /\ \A u \in Threads : z.th[u] \in ThreadInfos
    BY SoundTypes
  <1>2. "BLOCKED" \in {"BLOCKED", "NEW"}
    OBVIOUS
  <1>3. /\ Sound(x, {z.th[o].cid}) /\ x.failed = z.failed
        /\ Undisturbed(z, x, {o}) /\ OthersSame(z, x, o)
        /\ x.th[o] = [z.th[o] EXCEPT !.state = "BLOCKED"]
        /\ x.runQueue = z.runQueue /\ x.bar = z.bar
        /\ \A P, Y : None \notin P /\ Remembers(z, P, Y) => Remembers(x, P, Y)
    BY <1>2, OutEndSound
  <1>4. x.fakeLeaves = z.fakeLeaves
    BY <1>1 DEF deschedule, SchedRecords
  <1> HIDE DEF x
  <1>5. /\ x.th[o].state = "BLOCKED" /\ x.th[o].markedForSleep = z.th[o].markedForSleep
        /\ x.th[o].handoffThread = z.th[o].handoffThread
    BY <1>1, <1>3 DEF ThreadInfos
  <1>6. Drifts(z, x, o)
    BY <1>4, <1>5 DEF Drifts
  <1>7. Undisturbed(z, x, {})
    BY <1>3, <1>6 DEF Undisturbed
  <1>8. x.th[t] = z.th[t] /\ \A u \in Threads : x.th[u].handoffThread = z.th[u].handoffThread
    BY <1>3, <1>5 DEF OthersSame
  <1>9. Taken(z, x, t, z.th[o].cid)
    BY <1>3, <1>4, <1>7, <1>8 DEF Taken
  <1> QED
    BY <1>9 DEF x

(* A thread that wants a core, and is nobody's to wake, gets one or waits for one. *)
Wants(z, t) == /\ z.th[t].state \in {"BLOCKED", "STARTED", "QUEUED"} /\ t \notin ToSet(z.runQueue)
               /\ \A u \in Threads : z.th[u].handoffThread # t

(* t has got a core. *)
Got(z, y, t) ==
    /\ Sound(y, {}) /\ y.failed = z.failed /\ Undisturbed(z, y, {t})
    /\ y.th[t].state = "RUNNING" /\ y.th[t].markedForSleep = z.th[t].markedForSleep
    /\ y.fakeLeaves = z.fakeLeaves
    /\ \A P, Y : None \notin P /\ Remembers(z, P, Y) => Remembers(y, P, Y \ {t})

(* The core that was taken joins the barrier and is given to the thread. *)
LEMMA TakenIsGot ==
    ASSUME NEW z, NEW t \in Threads, Sound(z, {}), Wants(z, t), NEW c \in Cores,
           NEW x, Taken(z, x, t, c)
    PROVE  Got(z, schedule([x EXCEPT !.bar[c] = "run"], t, c), t)
  <1> DEFINE y2 == [x EXCEPT !.bar[c] = "run"]
             y == schedule(y2, t, c)
  <1>1. Sound(x, {c}) /\ x \in SchedRecords
    BY SoundTypes DEF Taken
  <1>2. /\ Sound(y2, {c}) /\ y2.failed = x.failed /\ Undisturbed(x, y2, {})
        /\ y2.th = x.th /\ y2.bar[c] = "run" /\ y2.runQueue = x.runQueue
        /\ \A P, Y : Remembers(x, P, Y) => Remembers(y2, P, Y)
    <2>1. "run" \in {"off", "run"}
      OBVIOUS
    <2> QED
      BY <1>1, <2>1, SetBarSound
  <1>3. y2.fakeLeaves = z.fakeLeaves
    <2>1. y2.fakeLeaves = x.fakeLeaves
      BY <1>1 DEF SchedRecords
    <2> HIDE DEF y2
    <2> QED
      BY <2>1 DEF Taken
  <1> HIDE DEF y2
  <1>4. /\ y2.th[t].state \in {"BLOCKED", "STARTED", "QUEUED"} /\ t \notin ToSet(y2.runQueue)
        /\ (\A u \in Threads : y2.th[u].handoffThread # t) /\ y2.bar[c] # "off" /\ Sound(y2, {c})
    BY <1>2 DEF Wants, Taken
  <1>5. /\ Sound(y, {}) /\ y.failed = y2.failed /\ Undisturbed(y2, y, {t})
        /\ OthersSame(y2, y, t)
        /\ y.th[t] = [y2.th[t] EXCEPT !.state = "RUNNING", !.cid = c]
        /\ y.runQueue = y2.runQueue
        /\ \A P, Y : None \notin P /\ Remembers(y2, P, Y) => Remembers(y, P, Y \ {t})
    <2>1. Sound(y2, {c})
      BY <1>4
    <2>2. /\ y2.th[t].state \in {"BLOCKED", "STARTED", "QUEUED"} /\ t \notin ToSet(y2.runQueue)
          /\ (\A u \in Threads : y2.th[u].handoffThread # t) /\ y2.bar[c] # "off"
      BY <1>4
    <2>3. /\ Sound(schedule(y2, t, c), {}) /\ schedule(y2, t, c).failed = y2.failed
          /\ Undisturbed(y2, schedule(y2, t, c), {t}) /\ OthersSame(y2, schedule(y2, t, c), t)
          /\ schedule(y2, t, c).th[t] = [y2.th[t] EXCEPT !.state = "RUNNING", !.cid = c]
          /\ schedule(y2, t, c).runQueue = y2.runQueue
          /\ \A P, Y : None \notin P /\ Remembers(y2, P, Y) => Remembers(schedule(y2, t, c), P, Y \ {t})
      BY <2>1, <2>2, ScheduleSound, Zenon
    <2> QED
      BY <2>3
  <1>6. y2 \in SchedRecords /\ z.th[t] \in ThreadInfos
    BY <1>4, SoundTypes
  <1>7. y.fakeLeaves = z.fakeLeaves
    BY <1>3, <1>6 DEF schedule, SchedRecords
  <1> HIDE DEF y
  <1>8. y.th[t].state = "RUNNING" /\ y.th[t].markedForSleep = z.th[t].markedForSleep
    BY <1>2, <1>5, <1>6 DEF ThreadInfos, Taken
  <1>9. Undisturbed(z, y, {t})
    <2>1. Undisturbed(z, y2, {})
      BY <1>2, DriftOn DEF Taken
    <2> QED
      BY <2>1, <1>5 DEF Undisturbed, Drifts
  <1>10. \A P, Y : None \notin P /\ Remembers(z, P, Y) => Remembers(y, P, Y \ {t})
    BY <1>2, <1>5 DEF Taken
  <1>11. Got(z, y, t)
    BY <1>2, <1>5, <1>7, <1>8, <1>9, <1>10 DEF Got, Taken
  <1> QED
    BY <1>11 DEF y, y2

(* A thread that comes back on a free core, or on that of a thread that is out, has it. *)
LEMMA TakeCoreSound ==
    ASSUME NEW z, NEW t \in Threads, Sound(z, {}), Wants(z, t),
           NEW c \in Cores, z.curThread[c] # None =>
              z.curThread[c] \in Threads /\ z.th[z.curThread[c]].state = "OUT"
    PROVE  Got(z, TakeCore(z, t, c), t)
  <1> DEFINE o == z.curThread[c]
             free == [z EXCEPT !.freeList = RemoveFirst(@, c)]
             out == deschedule([z EXCEPT !.outQueue = RemoveFirst(@, o)], o, "BLOCKED")
             G(x) == schedule([x EXCEPT !.bar[c] = "run"], t, c)
  <1>1. TakeCore(z, t, c) = G(IF o = None THEN free ELSE out)
    BY Zenon DEF TakeCore
  <1>2. CASE o = None
    <2>1. Taken(z, free, t, c)
      BY <1>2, FreeIsTaken, Zenon
    <2> HIDE DEF free
    <2>2. Got(z, G(free), t)
      BY <2>1, TakenIsGot, Zenon
    <2> HIDE DEF G, out
    <2> QED
      BY <1>1, <1>2, <2>2
  <1>3. CASE o # None
    <2>1. o \in Threads \ {t} /\ z.th[o].state = "OUT" /\ z.th[o].cid = c
      BY <1>3, SoundTypes DEF Wants, Sound, CoresOf
    <2> HIDE DEF o
    <2>2. Taken(z, out, t, z.th[o].cid)
      BY <2>1, OutIsTaken, Zenon
    <2> HIDE DEF out
    <2>3. Taken(z, out, t, c)
      BY <2>1, <2>2
    <2>4. Got(z, G(out), t)
      BY <2>3, TakenIsGot, Zenon
    <2> HIDE DEF G, free
    <2> QED
      BY <1>1, <1>3, <2>4
  <1> QED
    BY <1>2, <1>3

(* t is in simulated code, or waits for a core. *)
Back(z, y, t) ==
    /\ Sound(y, {}) /\ y.failed = z.failed /\ Undisturbed(z, y, {t})
    /\ y.th[t].state = "RUNNING" \/ (y.th[t].state = "QUEUED" /\ y.th[t].futexWord = 1)
    /\ ~ y.th[t].markedForSleep /\ t \notin ToSet(y.fakeLeaves)

(* A thread that wants a core gets one, or waits for one. *)
Scheduled(z, t) == LET c == SchedThread(z, t)
                   IN  IF c # None THEN TakeCore(z, t, c) ELSE Wait(z, t)

(* A thread that comes back gets the core schedThread found, or waits in the run queue. *)
LEMMA GetsOrWaits ==
    ASSUME NEW z, NEW t \in Threads, Sound(z, {}), Wants(z, t), t \notin ToSet(z.fakeLeaves)
    PROVE  /\ Back(z, Scheduled(z, t), t)
           /\ \A P, Y : None \notin P /\ Remembers(z, P, Y) => Remembers(Scheduled(z, t), P, Y \ {t})
  <1> DEFINE c == SchedThread(z, t)
  <1>1. z \in SchedRecords /\ ~ z.th[t].markedForSleep /\ z.th[t] \in ThreadInfos
    BY SoundTypes DEF Sound, WordsOf, Wants
  <1>2. CASE c # None
    <2>1. Scheduled(z, t) = TakeCore(z, t, c)
      BY <1>2 DEF Scheduled
    <2>2. /\ c \in Cores
          /\ z.curThread[c] # None => z.curThread[c] \in Threads /\ z.th[z.curThread[c]].state = "OUT"
      BY <1>2, SchedThreadFinds
    <2> HIDE DEF c
    <2>3. Got(z, TakeCore(z, t, c), t)
      BY <2>2, TakeCoreSound
    <2>4. Back(z, TakeCore(z, t, c), t)
      BY <1>1, <2>3 DEF Got, Back
    <2>5. \A P, Y : None \notin P /\ Remembers(z, P, Y) => Remembers(TakeCore(z, t, c), P, Y \ {t})
      BY <2>3 DEF Got
    <2> QED
      BY <2>1, <2>4, <2>5
  <1>3. CASE c = None
    <2>1. Scheduled(z, t) = Wait(z, t)
      BY <1>3 DEF Scheduled
    <2>5. \A d \in Mask[t] : Runs(z, d)
      BY <1>3, SchedThreadFinds
    <2>2. /\ Sound(Wait(z, t), {}) /\ Wait(z, t).failed = z.failed
          /\ Undisturbed(z, Wait(z, t), {t}) /\ OthersSame(z, Wait(z, t), t)
          /\ \A P, Y : None \notin P /\ Remembers(z, P, Y) => Remembers(Wait(z, t), P, Y \ {t})
      BY <2>5, WaitSound, Zenon DEF Wants
    <2>3. /\ Wait(z, t).th[t].state = "QUEUED" /\ Wait(z, t).th[t].futexWord = 1
          /\ ~ Wait(z, t).th[t].markedForSleep /\ Wait(z, t).fakeLeaves = z.fakeLeaves
      <3>1. Wait(z, t).th[t] = [z.th[t] EXCEPT !.state = "QUEUED", !.futexWord = 1]
        BY <1>1 DEF Wait, SchedRecords
      <3>2. Wait(z, t).fakeLeaves = z.fakeLeaves
        BY <1>1 DEF Wait, SchedRecords
      <3> QED
        BY <1>1, <3>1, <3>2 DEF ThreadInfos
    <2>4. Back(z, Wait(z, t), t)
      BY <2>2, <2>3 DEF Back
    <2> QED
      BY <2>1, <2>2, <2>4
  <1> QED
    BY <1>2, <1>3

(* t has left its core c, which is in transit. *)
LeftCore(z, x, t, c) ==
    /\ Sound(x, {c}) /\ x.failed = z.failed /\ Undisturbed(z, x, {t})
    /\ x.th[t].state \in {"SLEEPING", "BLOCKED"}
    /\ ~ z.th[t].markedForSleep => x.th[t].state = "BLOCKED"
    /\ x.runQueue = z.runQueue /\ x.bar[c] # "off"
    /\ \A P : None \notin P /\ t \notin P /\ Remembers(z, P, {}) => Remembers(x, P, {t})

(* t has left. *)
Left(z, y, t) ==
    /\ Sound(y, {}) /\ y.failed = z.failed /\ Undisturbed(z, y, {t})
    /\ y.th[t].state \in {"SLEEPING", "BLOCKED", "OUT"}
    /\ ~ z.th[t].markedForSleep => y.th[t].state # "SLEEPING"
    /\ \A P : None \notin P /\ t \notin P /\ Remembers(z, P, {}) => Remembers(y, P, {})

(* Who is not in the barrier's wait has nobody to hand its core over to. *)
LEMMA NoPromise ==
    ASSUME NEW z, NEW t \in Threads, Sound(z, {}), z.th[t].state = "RUNNING",
           NEW P, NEW Y, t \notin P, Remembers(z, P, Y)
    PROVE  z.th[t].handoffThread = None /\ z.bar[z.th[t].cid] = "run"
  <1>1. z.th[t].cid \in Cores /\ z \in SchedRecords /\ None \notin Threads
    BY SoundTypes DEF ThreadInfos
  <1>2. z.curThread[z.th[t].cid] = t
    BY <1>1 DEF Sound, CoresOf, HasCore
  <1>3. z.bar[z.th[t].cid] # "off" /\ z.bar[z.th[t].cid] \in {"off", "run", "wait"}
    BY <1>1, <1>2 DEF Sound, CoresOf, Runs, SchedRecords
  <1> QED
    BY <1>1, <1>2, <1>3 DEF Remembers

(* A thread that is neither queued nor promised a core is not forgotten. *)
LEMMA NotQueued ==
    ASSUME NEW z, NEW P, NEW Y, NEW t, z.th[t].state # "QUEUED"
    PROVE  Remembers(z, P, Y) <=> Remembers(z, P, Y \cup {t})
  BY DEF Remembers

(* A thread that leaves its core, to sleep or not, leaves the core in transit. *)
LEMMA LeavesCore ==
    ASSUME NEW z, NEW t \in Threads, Sound(z, {}), z.th[t].state = "RUNNING", t \notin ToSet(z.fakeLeaves)
    PROVE  /\ z.th[t].markedForSleep =>
                 LeftCore(z, PutToSleep(deschedule(z, t, "SLEEPING"), t), t, z.th[t].cid)
           /\ ~ z.th[t].markedForSleep =>
                 LeftCore(z, deschedule(z, t, "BLOCKED"), t, z.th[t].cid)
  <1>1. /\ z \in SchedRecords /\ None \notin Threads /\ z.th[t].cid \in Cores /\ z.th[t] \in ThreadInfos
    BY SoundTypes DEF ThreadInfos
  <1>2. z.bar[z.th[t].cid] # "off"
    BY <1>1 DEF Sound, CoresOf, HasCore, Runs
  <1>3. \A P : t \notin P /\ Remembers(z, P, {}) =>
          z.th[t].handoffThread = None /\ z.bar[z.th[t].cid] # "wait"
    BY NoPromise
  <1>4. ASSUME z.th[t].markedForSleep
        PROVE  LeftCore(z, PutToSleep(deschedule(z, t, "SLEEPING"), t), t, z.th[t].cid)
    <2> DEFINE x == PutToSleep(deschedule(z, t, "SLEEPING"), t)
    <2>1. /\ Sound(x, {z.th[t].cid}) /\ x.failed = z.failed
          /\ Undisturbed(z, x, {t}) /\ OthersSame(z, x, t)
          /\ x.th[t].state = "SLEEPING"
          /\ x.runQueue = z.runQueue /\ x.bar = z.bar
          /\ \A P, Y : None \notin P /\ z.th[t].handoffThread = None /\ z.bar[z.th[t].cid] # "wait"
             /\ Remembers(z, P, Y) => Remembers(x, P, Y)
      BY <1>4, FallAsleepSound
    <2> HIDE DEF x
    <2>2. \A P, Y : Remembers(x, P, Y) => Remembers(x, P, Y \cup {t})
      BY <2>1, NotQueued
    <2>3. \A P : None \notin P /\ t \notin P /\ Remembers(z, P, {}) => Remembers(x, P, {} \cup {t})
      BY <1>3, <2>1, <2>2
    <2>4. LeftCore(z, x, t, z.th[t].cid)
      BY <1>2, <1>4, <2>1, <2>3 DEF LeftCore
    <2> QED
      BY <2>4 DEF x
  <1>5. ASSUME ~ z.th[t].markedForSleep
        PROVE  LeftCore(z, deschedule(z, t, "BLOCKED"), t, z.th[t].cid)
    <2> DEFINE x == deschedule(z, t, "BLOCKED")
    <2>0. "BLOCKED" \in {"BLOCKED", "QUEUED"}
      OBVIOUS
    <2>1. /\ Sound(x, {z.th[t].cid}) /\ x.failed = z.failed
          /\ Undisturbed(z, x, {t}) /\ OthersSame(z, x, t)
          /\ x.th[t] = [z.th[t] EXCEPT !.state = "BLOCKED"]
          /\ x.runQueue = z.runQueue /\ x.bar = z.bar
          /\ \A P, Y : None \notin P /\ z.th[t].handoffThread = None /\ z.bar[z.th[t].cid] # "wait"
             /\ Remembers(z, P, Y) => Remembers(x, P, Y \cup {t})
      BY <1>5, <2>0, DescheduleSound, Zenon
    <2> HIDE DEF x
    <2>2. x.th[t].state = "BLOCKED"
      BY <1>1, <2>1 DEF ThreadInfos
    <2>3. \A P : None \notin P /\ t \notin P /\ Remembers(z, P, {}) => Remembers(x, P, {} \cup {t})
      BY <1>3, <2>1
    <2>4. LeftCore(z, x, t, z.th[t].cid)
      BY <1>2, <2>1, <2>2, <2>3 DEF LeftCore
    <2> QED
      BY <2>4 DEF x
  <1> QED
    BY <1>4, <1>5

(* The thread that schedContext finds is queued for the core. *)
LEMMA SchedContextFinds ==
    ASSUME NEW z, NEW X, Sound(z, X), NEW c \in Cores
    PROVE  /\ SchedContext(z, c) # None => /\ SchedContext(z, c) \in Threads
                                           /\ SchedContext(z, c) \in ToSet(z.runQueue)
           /\ SchedContext(z, c) = None => \A u \in ToSet(z.runQueue) : c \notin Mask[u]
  <1> DEFINE D == {t \in Threads : c \in Mask[t]}
             in == FirstIn(z.runQueue, D)
  <1>1. z.runQueue \in Seq(Threads) /\ None \notin Threads /\ ToSet(z.runQueue) \subseteq Threads
    BY SoundTypes DEF ListsTyped, IsList
  <1>2. /\ in # None => in \in ToSet(z.runQueue) \cap D
        /\ in = None => ToSet(z.runQueue) \cap D = {}
    BY <1>1, FirstInFinds
  <1>3. SchedContext(z, c) = in
    BY DEF SchedContext
  <1> HIDE DEF in
  <1>4. in # None => in \in Threads /\ in \in ToSet(z.runQueue)
    BY <1>1, <1>2
  <1>5. in = None => \A u \in ToSet(z.runQueue) : c \notin Mask[u]
    BY <1>1, <1>2
  <1> QED
    BY <1>3, <1>4, <1>5, Zenon

(* The core goes to a thread of the run queue. *)
LEMMA LeavesToOther ==
    ASSUME NEW z, NEW t \in Threads, NEW c \in Cores, NEW x, LeftCore(z, x, t, c),
           NEW in \in Threads, in \in ToSet(x.runQueue)
    PROVE  Left(z, HandOver(x, in, c), t)
  <1> DEFINE y == HandOver(x, in, c)
  <1>1. Sound(x, {c}) /\ x.bar[c] # "off"
    BY DEF LeftCore
  <1>2. /\ x.th[in].state = "QUEUED" /\ x.th[in].futexWord = 1
        /\ \A u \in Threads : x.th[u].handoffThread # in
    <2>1. QueuesOf(x) /\ WordsOf(x) /\ PromisesOf(x) /\ None \notin Threads
      BY <1>1, SoundTypes DEF Sound
    <2> QED
      BY <2>1 DEF QueuesOf, WordsOf, PromisesOf
  <1>3. in # t
    BY <1>2 DEF LeftCore
  <1>4. y = HandOver(x, in, c)
    OBVIOUS
  <1> HIDE DEF y
  <1>5. /\ Sound(y, {}) /\ y.failed = x.failed /\ Undisturbed(x, y, {}) /\ OthersSame(x, y, in)
        /\ ToSet(y.runQueue) = ToSet(x.runQueue) \ {in} /\ y.fakeLeaves = x.fakeLeaves
        /\ y.th[in].handoffThread = x.th[in].handoffThread
        /\ \A P, Y : None \notin P /\ Remembers(x, P, Y) => Remembers(y, P, Y \ {in})
    BY <1>1, <1>2, <1>4, HandOverSound
  <1>6. Undisturbed(z, y, {t})
    BY <1>5, DriftOn DEF LeftCore
  <1>7. y.th[t] = x.th[t]
    BY <1>3, <1>5 DEF OthersSame
  <1>8. ASSUME NEW P, None \notin P, t \notin P, Remembers(z, P, {})
        PROVE  Remembers(y, P, {})
    <2>1. Remembers(y, P, {t} \ {in})
      BY <1>5, <1>8 DEF LeftCore
    <2>2. {t} \ {in} = {} \cup {t}
      BY <1>3
    <2>3. Remembers(y, P, {} \cup {t})
      BY <2>1, <2>2
    <2> QED
      BY <2>3, <1>7, NotQueued DEF LeftCore
  <1>9. Left(z, y, t)
    BY <1>5, <1>6, <1>7, <1>8 DEF Left, LeftCore
  <1> QED
    BY <1>9 DEF y

(* The core becomes free and leaves the barrier. *)
LEMMA LeavesFree ==
    ASSUME NEW z, NEW t \in Threads, NEW c \in Cores, NEW x, LeftCore(z, x, t, c),
           \A u \in ToSet(x.runQueue) : c \notin Mask[u],
           NEW y \in EndPhase([x EXCEPT !.bar[c] = "off", !.freeList = Append(@, c)])
    PROVE  Left(z, y, t)
  <1> DEFINE x1 == [x EXCEPT !.bar[c] = "off"]
             x2 == [x1 EXCEPT !.freeList = Append(@, c)]
  <1>1. Sound(x, {c}) /\ x \in SchedRecords
    BY SoundTypes DEF LeftCore
  <1>2. /\ Sound(x1, {c}) /\ x1.failed = x.failed /\ Undisturbed(x, x1, {})
        /\ x1.th = x.th /\ x1.bar[c] = "off" /\ x1.runQueue = x.runQueue
        /\ \A P, Y : Remembers(x, P, Y) => Remembers(x1, P, Y)
    <2>1. "off" \in {"off", "run"}
      OBVIOUS
    <2> QED
      BY <1>1, <2>1, SetBarSound
  <1>3. x2 = [x EXCEPT !.bar[c] = "off", !.freeList = Append(@, c)]
    BY <1>1 DEF SchedRecords
  <1>4. y \in EndPhase(x2)
    <2> HIDE DEF x2
    <2> QED
      BY <1>3
  <1> HIDE DEF x1
  <1>5. /\ Sound(x2, {}) /\ x2.failed = x1.failed /\ Undisturbed(x1, x2, {})
        /\ x2.th = x1.th /\ x2.runQueue = x1.runQueue
        /\ \A P, Y : Remembers(x1, P, Y) => Remembers(x2, P, Y)
    BY <1>2, FreeSound
  <1> HIDE DEF x2
  <1>6. /\ Sound(y, {}) /\ y.failed = x2.failed /\ Undisturbed(x2, y, {})
        /\ \A P, Y : None \notin P /\ Remembers(x2, P, Y) => Remembers(y, P, Y)
    BY <1>4, <1>5, EndPhaseSound
  <1>7. Undisturbed(z, y, {t})
    <2>1. Undisturbed(z, x1, {t})
      BY <1>2, DriftOn DEF LeftCore
    <2>2. Undisturbed(z, x2, {t})
      BY <2>1, <1>5, DriftOn
    <2> QED
      BY <2>2, <1>6, DriftOn
  <1>8. /\ y.th[t].state \in {"SLEEPING", "BLOCKED"}
        /\ ~ z.th[t].markedForSleep => y.th[t].state = "BLOCKED"
    <2>1. x2.th[t].state \in {"SLEEPING", "BLOCKED"} /\ (~ z.th[t].markedForSleep => x2.th[t].state = "BLOCKED")
      BY <1>2, <1>5 DEF LeftCore
    <2>2. Drifts(x2, y, t)
      BY <1>6 DEF Undisturbed
    <2> QED
      BY <2>1, <2>2 DEF Drifts
  <1>9. ASSUME NEW P, None \notin P, t \notin P, Remembers(z, P, {})
        PROVE  Remembers(y, P, {})
    <2>1. Remembers(x, P, {t})
      BY <1>9 DEF LeftCore
    <2>2. Remembers(y, P, {} \cup {t})
      BY <2>1, <1>2, <1>5, <1>6, <1>9
    <2> QED
      BY <2>2, <1>8, NotQueued
  <1> QED
    BY <1>2, <1>5, <1>6, <1>7, <1>8, <1>9 DEF Left, LeftCore

(* The thread goes out with its core. *)
LEMMA GoesOut ==
    ASSUME NEW z, NEW t \in Threads, Sound(z, {}), z.th[t].state = "RUNNING", t \notin ToSet(z.fakeLeaves),
           ~ z.th[t].markedForSleep, \A u \in ToSet(z.runQueue) : z.th[t].cid \notin Mask[u],
           NEW y \in EndPhase([z EXCEPT !.th[t].state = "OUT", !.bar[z.th[t].cid] = "off",
                                        !.outQueue = Append(@, t)])
    PROVE  Left(z, y, t)
  <1> DEFINE c == z.th[t].cid
             x == [z EXCEPT !.th[t].state = "OUT", !.bar[c] = "off", !.outQueue = Append(@, t)]
  <1>1. /\ Sound(x, {}) /\ x.failed = z.failed
        /\ Undisturbed(z, x, {t}) /\ OthersSame(z, x, t)
        /\ \A P, Y : None \notin P /\ z.th[t].handoffThread = None /\ Remembers(z, P, Y) => Remembers(x, P, Y)
    BY GoOutSound
  <1>2. x.th[t].state = "OUT"
    <2>1. z \in SchedRecords /\ z.th[t] \in ThreadInfos
      BY SoundTypes
    <2> QED
      BY <2>1 DEF SchedRecords, ThreadInfos
  <1>3. y \in EndPhase(x)
    OBVIOUS
  <1> HIDE DEF x
  <1>4. /\ Sound(y, {}) /\ y.failed = x.failed /\ Undisturbed(x, y, {})
        /\ \A P, Y : None \notin P /\ Remembers(x, P, Y) => Remembers(y, P, Y)
    BY <1>1, <1>3, EndPhaseSound
  <1>5. Undisturbed(z, y, {t})
    BY <1>1, <1>4, DriftOn
  <1>6. y.th[t].state \in {"OUT", "BLOCKED"}
    BY <1>2, <1>4, SMTT(20) DEF Undisturbed, Drifts
  <1>7. ASSUME NEW P, None \notin P, t \notin P, Remembers(z, P, {})
        PROVE  Remembers(y, P, {})
    BY <1>1, <1>4, <1>7, NoPromise
  <1> QED
    BY <1>1, <1>4, <1>5, <1>6, <1>7 DEF Left

(* A running thread leaves. *)
LEMMA LeaveSound ==
    ASSUME NEW z, NEW t \in Threads, Sound(z, {}), z.th[t].state = "RUNNING",
           t \notin ToSet(z.fakeLeaves), NEW y \in leave(z, t, z.th[t].cid)
    PROVE  Left(z, y, t)
  <1> DEFINE c == z.th[t].cid
             in == SchedContext(z, c)
             a == PutToSleep(deschedule(z, t, "SLEEPING"), t)
             b == deschedule(z, t, "BLOCKED")
  <1>1. c \in Cores /\ z.curThread[c] = t
    <2>1. c \in Cores
      BY SoundTypes DEF ThreadInfos
    <2> QED
      BY <2>1 DEF Sound, CoresOf, HasCore
  <1>2. leave(z, t, c) =
           IF z.th[t].markedForSleep
           THEN IF in # None THEN {HandOver(a, in, c)}
                ELSE EndPhase([a EXCEPT !.bar[c] = "off", !.freeList = Append(@, c)])
           ELSE IF in # None THEN {HandOver(b, in, c)}
           ELSE EndPhase([z EXCEPT !.th[t].state = "OUT", !.bar[c] = "off", !.outQueue = Append(@, t)])
    BY <1>1, Zenon DEF leave
  <1>3. /\ z.th[t].markedForSleep => LeftCore(z, a, t, c)
        /\ ~ z.th[t].markedForSleep => LeftCore(z, b, t, c)
    BY LeavesCore
  <1>4. /\ in # None => in \in Threads /\ in \in ToSet(z.runQueue)
        /\ in = None => \A u \in ToSet(z.runQueue) : c \notin Mask[u]
    BY <1>1, SchedContextFinds
  <1>5. y \in leave(z, t, c)
    OBVIOUS
  <1> HIDE DEF a, b, in
  <1>6. CASE z.th[t].markedForSleep /\ in # None
    <2>1. y = HandOver(a, in, c)
      BY <1>2, <1>5, <1>6
    <2>2. LeftCore(z, a, t, c) /\ in \in Threads /\ in \in ToSet(a.runQueue)
      BY <1>3, <1>4, <1>6 DEF LeftCore
    <2>3. Left(z, HandOver(a, in, c), t)
      BY <1>1, <2>2, LeavesToOther
    <2> QED
      BY <2>1, <2>3
  <1>7. CASE z.th[t].markedForSleep /\ in = None
    <2>1. y \in EndPhase([a EXCEPT !.bar[c] = "off", !.freeList = Append(@, c)])
      BY <1>2, <1>5, <1>7, Zenon
    <2>2. LeftCore(z, a, t, c) /\ \A u \in ToSet(a.runQueue) : c \notin Mask[u]
      BY <1>3, <1>4, <1>7 DEF LeftCore
    <2> HIDE DEF c
    <2> QED
      BY <1>1, <2>1, <2>2, LeavesFree, Zenon
  <1>8. CASE ~ z.th[t].markedForSleep /\ in # None
    <2>1. y = HandOver(b, in, c)
      BY <1>2, <1>5, <1>8
    <2>2. LeftCore(z, b, t, c) /\ in \in Threads /\ in \in ToSet(b.runQueue)
      BY <1>3, <1>4, <1>8 DEF LeftCore
    <2>3. Left(z, HandOver(b, in, c), t)
      BY <1>1, <2>2, LeavesToOther
    <2> QED
      BY <2>1, <2>3
  <1>9. CASE ~ z.th[t].markedForSleep /\ in = None
    <2>1. y \in EndPhase([z EXCEPT !.th[t].state = "OUT", !.bar[z.th[t].cid] = "off",
                                   !.outQueue = Append(@, t)])
      BY <1>2, <1>5, <1>9, Zenon
    <2>2. \A u \in ToSet(z.runQueue) : z.th[t].cid \notin Mask[u]
      BY <1>4, <1>9
    <2> QED
      BY <1>9, <2>1, <2>2, GoesOut, Zenon
  <1> QED
    BY <1>6, <1>7, <1>8, <1>9

(* A sleep that ends early, if there is one. *)
LEMMA SleepEndsEarly ==
    ASSUME NEW z, NEW t \in Threads, Sound(z, {})
    PROVE  LET y == EarlyEnd(z, t)
           IN  /\ Sound(y, {}) /\ y.failed = z.failed /\ Undisturbed(z, y, {})
               /\ y.th[t].state # "SLEEPING"
               /\ z.th[t].state # "SLEEPING" => y.th[t].state = z.th[t].state
               /\ z.th[t].state = "SLEEPING" => y.th[t].state = "BLOCKED"
               /\ \A P, Y : None \notin P /\ Remembers(z, P, Y) => Remembers(y, P, Y)
  <1> DEFINE x == [z EXCEPT !.th[t].state = "BLOCKED", !.th[t].left = 0, !.sleepQueue = RemoveFirst(@, t)]
  <1>1. EarlyEnd(z, t) = IF z.th[t].state # "SLEEPING" THEN z ELSE x
    BY DEF EarlyEnd
  <1>2. CASE z.th[t].state # "SLEEPING"
    <2>1. EarlyEnd(z, t) = z
      BY <1>1, <1>2
    <2>2. Undisturbed(z, z, {})
      BY DEF Undisturbed, Drifts
    <2> QED
      BY <1>2, <2>1, <2>2
  <1>3. CASE z.th[t].state = "SLEEPING"
    <2>1. /\ Sound(x, {}) /\ x.failed = z.failed
          /\ Undisturbed(z, x, {t}) /\ OthersSame(z, x, t)
          /\ \A P, Y : None \notin P /\ Remembers(z, P, Y) => Remembers(x, P, Y)
      BY <1>3, EarlyEndSound
    <2>2. /\ x.th[t].state = "BLOCKED" /\ x.th[t].markedForSleep = z.th[t].markedForSleep
          /\ x.fakeLeaves = z.fakeLeaves
      <3>1. z \in SchedRecords /\ z.th[t] \in ThreadInfos
        BY SoundTypes
      <3> QED
        BY <3>1 DEF SchedRecords, ThreadInfos
    <2>3. EarlyEnd(z, t) = x
      BY <1>1, <1>3
    <2> HIDE DEF x
    <2>4. Drifts(z, x, t)
      BY <1>3, <2>2 DEF Drifts
    <2>5. Undisturbed(z, x, {})
      BY <2>1, <2>4 DEF Undisturbed
    <2> QED
      BY <1>3, <2>1, <2>2, <2>3, <2>5
  <1> QED
    BY <1>2, <1>3

(* Who holds no core and is not queued is nobody's to wake. *)
LEMMA NotToWake ==
    ASSUME NEW z, NEW t \in Threads, Sound(z, {}), z.th[t].state # "QUEUED"
    PROVE  t \notin ToSet(z.runQueue) /\ \A u \in Threads : z.th[u].handoffThread # t
  <1>1. None \notin Threads
    BY SoundTypes
  <1> QED
    BY <1>1 DEF Sound, QueuesOf, PromisesOf

(* join of a thread that has left. *)
LEMMA JoinedSound ==
    ASSUME NEW z, NEW t \in Threads, Sound(z, {}), ~ InFakeLeave(z, t), ~ z.th[t].markedForSleep,
           z.th[t].state \in {"OUT", "BLOCKED", "STARTED"}
    PROVE  /\ Back(z, Joined(z, t), t)
           /\ \A P : None \notin P /\ Remembers(z, P, {}) => Remembers(Joined(z, t), P, {})
  <1> DEFINE d == z.th[t].cid
             out == [z EXCEPT !.th[t].state = "RUNNING", !.outQueue = RemoveFirst(@, t), !.bar[d] = "run"]
             in == Scheduled(z, t)
  <1>1. Joined(z, t) = IF z.th[t].state = "OUT" THEN out ELSE in
    BY Zenon DEF Joined, Scheduled
  <1>2. t \notin ToSet(z.fakeLeaves)
    BY DEF InFakeLeave
  <1>3. CASE z.th[t].state = "OUT"
    <2>1. /\ Sound(out, {}) /\ out.failed = z.failed
          /\ Undisturbed(z, out, {t}) /\ OthersSame(z, out, t)
          /\ \A P, Y : None \notin P /\ Remembers(z, P, Y) => Remembers(out, P, Y)
      BY <1>3, ComeBackSound
    <2>2. /\ out.th[t].state = "RUNNING" /\ out.th[t].markedForSleep = z.th[t].markedForSleep
          /\ out.fakeLeaves = z.fakeLeaves
      <3>1. z \in SchedRecords /\ z.th[t] \in ThreadInfos
        BY SoundTypes
      <3> QED
        BY <3>1 DEF SchedRecords, ThreadInfos
    <2> HIDE DEF out, in
    <2>3. Joined(z, t) = out
      BY <1>1, <1>3
    <2>4. Back(z, out, t)
      BY <1>2, <2>1, <2>2 DEF Back
    <2> QED
      BY <2>1, <2>3, <2>4, SMTT(20)
  <1>4. CASE z.th[t].state # "OUT"
    <2>1. Wants(z, t)
      BY <1>4, NotToWake DEF Wants
    <2>2. /\ Back(z, in, t)
          /\ \A P, Y : None \notin P /\ Remembers(z, P, Y) => Remembers(in, P, Y \ {t})
      BY <1>2, <2>1, GetsOrWaits
    <2> HIDE DEF in, out
    <2>3. Joined(z, t) = in
      BY <1>1, <1>4
    <2>7. {} \ {t} = {}
      OBVIOUS
    <2> QED
      BY <2>2, <2>3, <2>7
  <1> QED
    BY <1>3, <1>4

(* The core of a thread that comes back from the barrier's wait goes to the thread it *)
(* was promised to.                                                                *)
LEMMA HandoffSound ==
    ASSUME NEW z, NEW t \in Threads, Sound(z, {}), z.th[t].state = "RUNNING",
           ~ z.th[t].markedForSleep, t \notin ToSet(z.fakeLeaves), z.th[t].handoffThread # None
    PROVE  /\ Back(z, Handoff(z, t), t)
           /\ \A P : None \notin P /\ z.bar[z.th[t].cid] = "run" /\ Remembers(z, P, {})
                  => Remembers(Handoff(z, t), P \ {t}, {})
  <1> DEFINE c == z.th[t].cid
             dst == z.th[t].handoffThread
             x1 == [z EXCEPT !.th[t].handoffThread = None]
             x2 == deschedule(x1, t, "QUEUED")
             x3 == HandOver(x2, dst, c)
  <1>1. Handoff(z, t) = Scheduled(x3, t)
    BY Zenon DEF Handoff, Scheduled
  <1>2. /\ z \in SchedRecords /\ None \notin Threads /\ c \in Cores /\ z.th[t] \in ThreadInfos
        /\ dst \in Threads
    BY SoundTypes DEF ThreadInfos
  <1>3. /\ z.curThread[c] = t /\ z.bar[c] # "off"
    BY <1>2 DEF Sound, CoresOf, HasCore, Runs
  <1>4. /\ z.th[dst].state = "QUEUED" /\ z.th[dst].futexWord = 1 /\ dst \notin ToSet(z.runQueue)
        /\ \A v \in Threads : z.th[v].handoffThread = dst => v = t
    BY DEF Sound, PromisesOf, WordsOf
  <1>5. t \notin ToSet(z.runQueue) /\ \A u \in Threads : z.th[u].handoffThread # t
    BY NotToWake
  <1>6. /\ Sound(x1, {}) /\ x1.failed = z.failed
        /\ Undisturbed(z, x1, {}) /\ OthersSame(z, x1, t)
        /\ x1.th[t] = [z.th[t] EXCEPT !.handoffThread = None]
        /\ x1.runQueue = z.runQueue /\ x1.bar = z.bar /\ x1.fakeLeaves = z.fakeLeaves
        /\ \A P, Y : None \notin P /\ Remembers(z, P, Y) => Remembers(x1, P, Y \cup {z.th[t].handoffThread})
    BY ForgetSound
  <1> HIDE DEF x1
  <1>7. /\ x1.th[t].state = "RUNNING" /\ x1.th[t].cid = c /\ x1.th[t].handoffThread = None
        /\ ~ x1.th[t].markedForSleep
    BY <1>2, <1>6 DEF ThreadInfos
  <1>8. /\ Sound(x2, {c}) /\ x2.failed = x1.failed
        /\ Undisturbed(x1, x2, {t}) /\ OthersSame(x1, x2, t)
        /\ x2.th[t] = [x1.th[t] EXCEPT !.state = "QUEUED"]
        /\ x2.runQueue = x1.runQueue /\ x2.bar = x1.bar
        /\ \A P, Y : None \notin P /\ x1.bar[c] # "wait" /\ Remembers(x1, P, Y) => Remembers(x2, P, Y \cup {t})
    <2>1. "QUEUED" \in {"BLOCKED", "QUEUED"} /\ Sound(x1, {}) /\ t \notin ToSet(x1.fakeLeaves)
      BY <1>6
    <2>2. /\ Sound(x2, {x1.th[t].cid}) /\ x2.failed = x1.failed
          /\ Undisturbed(x1, x2, {t}) /\ OthersSame(x1, x2, t)
          /\ x2.th[t] = [x1.th[t] EXCEPT !.state = "QUEUED"]
          /\ x2.runQueue = x1.runQueue /\ x2.bar = x1.bar
          /\ \A P, Y : None \notin P /\ x1.th[t].handoffThread = None /\ x1.bar[x1.th[t].cid] # "wait"
             /\ Remembers(x1, P, Y) => Remembers(x2, P, Y \cup {t})
      BY <1>7, <2>1, DescheduleSound, Zenon
    <2> HIDE DEF x2, c
    <2> QED
      BY <1>7, <2>2
  <1>9. x2.fakeLeaves = z.fakeLeaves /\ x1 \in SchedRecords /\ x1.th[t] \in ThreadInfos
    <2>1. x1 \in SchedRecords /\ x1.th[t] \in ThreadInfos
      BY <1>6, SoundTypes
    <2> QED
      BY <1>6, <2>1 DEF deschedule, SchedRecords
  <1> HIDE DEF x2
  <1>10. dst # t
    BY <1>4
  <1>11. /\ x2.th[t].state = "QUEUED" /\ x2.th[t].handoffThread = None
         /\ \A u \in Threads : u # t => x2.th[u] = z.th[u]
    BY <1>6, <1>7, <1>8, <1>9, SMTT(20) DEF ThreadInfos, OthersSame
  <1>12. /\ Sound(x2, {c}) /\ x2.th[dst].state = "QUEUED" /\ x2.th[dst].futexWord = 1
         /\ (\A u \in Threads : x2.th[u].handoffThread # dst) /\ x2.bar[c] # "off"
    <2>1. \A u \in Threads : x2.th[u].handoffThread # dst
      <3>1. ASSUME NEW u \in Threads, u # t
            PROVE  x2.th[u].handoffThread # dst
        BY <1>4, <1>11, <3>1
      <3> QED
        BY <1>2, <1>11, <3>1
    <2> QED
      BY <1>2, <1>3, <1>4, <1>6, <1>8, <1>10, <1>11, <2>1
  <1>13. /\ Sound(x3, {}) /\ x3.failed = x2.failed /\ Undisturbed(x2, x3, {}) /\ OthersSame(x2, x3, dst)
         /\ ToSet(x3.runQueue) = ToSet(x2.runQueue) \ {dst} /\ x3.fakeLeaves = x2.fakeLeaves
         /\ x3.th[dst].handoffThread = x2.th[dst].handoffThread
         /\ \A P, Y : None \notin P /\ Remembers(x2, P, Y) => Remembers(x3, P, Y \ {dst})
    <2>1. x3 = HandOver(x2, dst, c)
      OBVIOUS
    <2> HIDE DEF x3, dst, c
    <2> QED
      BY <1>2, <1>12, <2>1, HandOverSound
  <1> HIDE DEF x3, c, dst
  <1>14. Wants(x3, t) /\ t \notin ToSet(x3.fakeLeaves)
    <2>1. x3.th[t].state = "QUEUED" /\ x3.th[t].handoffThread = None
      BY <1>10, <1>11, <1>13 DEF OthersSame
    <2>2. t \notin ToSet(x3.runQueue)
      BY <1>5, <1>6, <1>8, <1>13
    <2>3. \A u \in Threads : x3.th[u].handoffThread # t
      <3>1. \A u \in Threads : u # dst => x3.th[u] = x2.th[u]
        BY <1>13 DEF OthersSame
      <3>2. \A u \in Threads : u # t => x2.th[u].handoffThread # t
        BY <1>5, <1>11
      <3> QED
        BY <1>2, <1>10, <1>13, <2>1, <3>1, <3>2
    <2> QED
      BY <1>8, <1>9, <1>13, <2>1, <2>2, <2>3 DEF Wants
  <1> DEFINE y == Scheduled(x3, t)
  <1>15. /\ Back(x3, y, t)
         /\ \A P, Y : None \notin P /\ Remembers(x3, P, Y) => Remembers(y, P, Y \ {t})
    BY <1>13, <1>14, GetsOrWaits
  <1> HIDE DEF y
  <1>16. Undisturbed(z, y, {t})
    <2>1. Undisturbed(z, x3, {t})
      <3>1. Undisturbed(z, x2, {t})
        BY <1>6, <1>8 DEF Undisturbed, Drifts
      <3> QED
        BY <3>1, <1>13, DriftOn
    <2> QED
      BY <2>1, <1>15 DEF Back, Undisturbed, Drifts
  <1>17. Back(z, y, t)
    BY <1>6, <1>8, <1>13, <1>15, <1>16 DEF Back
  <1>18. ASSUME NEW P, None \notin P, z.bar[c] = "run", Remembers(z, P, {})
         PROVE  Remembers(y, P \ {t}, {})
    <2>1. Remembers(x1, P, {} \cup {dst})
      BY <1>6, <1>18 DEF dst
    <2>2. x1.bar[x1.th[t].cid] # "wait"
      BY <1>6, <1>7, <1>18
    <2>3. Remembers(x1, P \ {t}, {} \cup {dst}) /\ None \notin P \ {t}
      BY <1>6, <1>7, <1>18, <2>1, <2>2, NoLongerWaits
    <2>4. Remembers(x2, P \ {t}, ({} \cup {dst}) \cup {t})
      BY <1>7, <1>8, <2>2, <2>3
    <2>5. Remembers(y, P \ {t}, ((({} \cup {dst}) \cup {t}) \ {dst}) \ {t})
      BY <1>13, <1>15, <2>3, <2>4
    <2>6. ((({} \cup {dst}) \cup {t}) \ {dst}) \ {t} = {}
      OBVIOUS
    <2> QED
      BY <2>5, <2>6
  <1> QED
    BY <1>1, <1>17, <1>18 DEF y, c

(* t is over. *)
Ended(z, y, t) ==
    /\ Sound(y, {}) /\ y.failed = z.failed /\ Undisturbed(z, y, {t}) /\ y.th[t].state = "NEW"
    /\ \A P : None \notin P /\ t \notin P /\ Remembers(z, P, {}) => Remembers(y, P, {})

(* The first thing finish does. *)
Forgotten(z, x, t) ==
    /\ Sound(x, {}) /\ x.failed = z.failed /\ Undisturbed(z, x, {})
    /\ \A u \in Threads : x.th[u].state = z.th[u].state /\ x.th[u].cid = z.th[u].cid
    /\ x.runQueue = z.runQueue /\ x.bar = z.bar
    /\ \A P : None \notin P /\ t \notin P /\ Remembers(z, P, {}) => Remembers(x, P, {})

(* A thread that ends forgets the promise it has made. *)
LEMMA Forgets ==
    ASSUME NEW z, NEW t \in Threads, Sound(z, {})
    PROVE  Forgotten(z, [z EXCEPT !.th[t].handoffThread = None], t)
  <1> DEFINE x == [z EXCEPT !.th[t].handoffThread = None]
  <1>1. /\ Sound(x, {}) /\ x.failed = z.failed
        /\ Undisturbed(z, x, {}) /\ OthersSame(z, x, t)
        /\ x.th[t] = [z.th[t] EXCEPT !.handoffThread = None]
        /\ x.runQueue = z.runQueue /\ x.bar = z.bar /\ x.fakeLeaves = z.fakeLeaves
        /\ \A P, Y : None \notin P /\ Remembers(z, P, Y) => Remembers(x, P, Y \cup {z.th[t].handoffThread})
    BY ForgetSound
  <1> HIDE DEF x
  <1>2. z.th[t] \in ThreadInfos /\ None \notin Threads
    BY SoundTypes
  <1>3. \A u \in Threads : x.th[u].state = z.th[u].state /\ x.th[u].cid = z.th[u].cid
    BY <1>1, <1>2 DEF ThreadInfos, OthersSame
  <1>4. ASSUME NEW P, None \notin P, t \notin P, Remembers(z, P, {})
        PROVE  Remembers(x, P, {})
    <2>1. z.th[t].handoffThread = None
      BY <1>4 DEF Remembers
    <2>2. Remembers(x, P, {} \cup {None})
      BY <1>1, <1>4, <2>1
    <2> QED
      BY <1>2, <2>2 DEF Remembers
  <1>5. Forgotten(z, x, t)
    BY <1>1, <1>3, <1>4 DEF Forgotten
  <1> QED
    BY <1>5 DEF x

(* A thread that waits for a core ends. *)
LEMMA QueuedEnds ==
    ASSUME NEW z, NEW t \in Threads, NEW x, Forgotten(z, x, t), z.th[t].state = "QUEUED",
           t \in ToSet(z.runQueue)
    PROVE  Ended(z, [x EXCEPT !.th[t].state = "NEW", !.runQueue = RemoveFirst(@, t)], t)
  <1> DEFINE q == [x EXCEPT !.runQueue = RemoveFirst(@, t)]
             y == [q EXCEPT !.th[t].state = "NEW"]
  <1>1. Sound(x, {}) /\ x \in SchedRecords /\ None \notin Threads
    BY SoundTypes DEF Forgotten
  <1>2. [x EXCEPT !.th[t].state = "NEW", !.runQueue = RemoveFirst(@, t)] = y
    BY <1>1 DEF SchedRecords
  <1>3. /\ Sound(q, {}) /\ q.failed = x.failed /\ Undisturbed(x, q, {}) /\ OthersSame(x, q, t)
        /\ q.th = x.th /\ q.bar = x.bar
        /\ ToSet(q.runQueue) = ToSet(x.runQueue) \ {t}
        /\ \A P, Y : None \notin P /\ Remembers(x, P, Y) => Remembers(q, P, Y \cup {t})
    BY <1>1, UnqueueSound
  <1> HIDE DEF q
  <1>4. \A u \in Threads : x.th[u].handoffThread # t
    BY <1>1 DEF Sound, PromisesOf, Forgotten
  <1>5. /\ Sound(q, {}) /\ q.th[t].state \in {"NEW", "STARTED", "BLOCKED", "QUEUED"}
        /\ t \notin ToSet(q.runQueue) /\ \A u \in Threads : q.th[u].handoffThread # t
    BY <1>3, <1>4 DEF Forgotten
  <1>6. /\ Sound(y, {}) /\ y.failed = q.failed
        /\ Undisturbed(q, y, {t}) /\ y.th[t].state = "NEW"
        /\ \A P, Y : None \notin P /\ Remembers(q, P, Y) => Remembers(y, P, Y \ {t})
    <2>1. "NEW" \in {"NEW", "STARTED"}
      OBVIOUS
    <2> QED
      BY <1>5, <2>1, IdleSound
  <1> HIDE DEF y
  <1>7. Undisturbed(z, y, {t})
    <2>1. Undisturbed(z, q, {})
      BY <1>3, DriftOn DEF Forgotten
    <2> QED
      BY <1>6, <2>1 DEF Undisturbed, Drifts
  <1>8. ASSUME NEW P, None \notin P, t \notin P, Remembers(z, P, {})
        PROVE  Remembers(y, P, {})
    <2>1. Remembers(y, P, ({} \cup {t}) \ {t})
      BY <1>3, <1>6, <1>8 DEF Forgotten
    <2>2. ({} \cup {t}) \ {t} = {}
      OBVIOUS
    <2> QED
      BY <2>1, <2>2
  <1>9. Ended(z, y, t)
    BY <1>3, <1>6, <1>7, <1>8 DEF Ended, Forgotten
  <1> QED
    BY <1>2, <1>9, Zenon

(* A thread that is OUT ends: its core becomes free. *)
LEMMA OutEnds ==
    ASSUME NEW z, NEW t \in Threads, NEW x, Forgotten(z, x, t), z.th[t].state = "OUT"
    PROVE  Ended(z, [deschedule([x EXCEPT !.outQueue = RemoveFirst(@, t)], t, "NEW")
                        EXCEPT !.freeList = Append(@, z.th[t].cid)], t)
  <1> DEFINE c == z.th[t].cid
             x1 == deschedule([x EXCEPT !.outQueue = RemoveFirst(@, t)], t, "NEW")
             y == [x1 EXCEPT !.freeList = Append(@, c)]
  <1>1. /\ Sound(x, {}) /\ x \in SchedRecords /\ None \notin Threads
        /\ x.th[t] \in ThreadInfos /\ x.th[t].state = "OUT" /\ x.th[t].cid = c /\ c \in Cores
        /\ ListsTyped(x) /\ \A u \in Threads : Mask[u] \subseteq Cores
    BY SoundTypes DEF Forgotten, ThreadInfos
  <1>2. /\ Sound(x1, {x.th[t].cid}) /\ x1.failed = x.failed
        /\ Undisturbed(x, x1, {t}) /\ OthersSame(x, x1, t)
        /\ x1.th[t] = [x.th[t] EXCEPT !.state = "NEW"]
        /\ x1.runQueue = x.runQueue /\ x1.bar = x.bar
        /\ \A P, Y : None \notin P /\ Remembers(x, P, Y) => Remembers(x1, P, Y)
    <2>1. "NEW" \in {"BLOCKED", "NEW"}
      OBVIOUS
    <2> QED
      BY <1>1, <2>1, OutEndSound
  <1> HIDE DEF x1
  <1>3. x.curThread[c] = t
    BY <1>1 DEF Sound, CoresOf, HasCore
  <1>4. ~ Runs(x, c)
    BY <1>1, <1>3 DEF Runs
  <1>5. x.bar[c] = "off" /\ \A u \in ToSet(x.runQueue) : c \notin Mask[u]
    BY <1>1, <1>4 DEF Sound, CoresOf, WorkOf
  <1>6. Sound(x1, {c}) /\ x1.bar[c] = "off" /\ \A u \in ToSet(x1.runQueue) : c \notin Mask[u]
    BY <1>1, <1>2, <1>5
  <1> HIDE DEF c
  <1>7. /\ Sound(y, {}) /\ y.failed = x1.failed /\ Undisturbed(x1, y, {})
        /\ y.th = x1.th /\ y.runQueue = x1.runQueue
        /\ \A P, Y : Remembers(x1, P, Y) => Remembers(y, P, Y)
    BY <1>1, <1>6, FreeSound
  <1> HIDE DEF y
  <1>8. Undisturbed(z, y, {t})
    <2>1. Undisturbed(z, x1, {t})
      BY <1>2 DEF Forgotten, Undisturbed, Drifts
    <2> QED
      BY <1>7, <2>1, DriftOn
  <1>9. y.th[t].state = "NEW"
    BY <1>1, <1>2, <1>7 DEF ThreadInfos
  <1>10. Ended(z, y, t)
    BY <1>2, <1>7, <1>8, <1>9 DEF Ended, Forgotten
  <1> QED
    BY <1>10 DEF y, x1, c

(* A thread that holds no core ends. *)
LEMMA IdleEnds ==
    ASSUME NEW z, NEW t \in Threads, NEW x, Forgotten(z, x, t), z.th[t].state \in {"STARTED", "BLOCKED"}
    PROVE  Ended(z, [x EXCEPT !.th[t].state = "NEW"], t)
  <1> DEFINE y == [x EXCEPT !.th[t].state = "NEW"]
  <1>1. Sound(x, {}) /\ x.th[t].state \in {"STARTED", "BLOCKED"}
    BY DEF Forgotten
  <1>2. t \notin ToSet(x.runQueue) /\ \A u \in Threads : x.th[u].handoffThread # t
    BY <1>1, NotToWake
  <1>3. /\ Sound(y, {}) /\ y.failed = x.failed
        /\ Undisturbed(x, y, {t}) /\ y.th[t].state = "NEW"
        /\ \A P, Y : None \notin P /\ Remembers(x, P, Y) => Remembers(y, P, Y \ {t})
    <2>1. "NEW" \in {"NEW", "STARTED"} /\ x.th[t].state \in {"NEW", "STARTED", "BLOCKED", "QUEUED"}
      BY <1>1
    <2> QED
      BY <1>1, <1>2, <2>1, IdleSound
  <1> HIDE DEF y
  <1>4. Undisturbed(z, y, {t})
    BY <1>3 DEF Forgotten, Undisturbed, Drifts
  <1>5. \A P : None \notin P /\ t \notin P /\ Remembers(z, P, {}) => Remembers(y, P, {} \ {t})
    BY <1>3 DEF Forgotten
  <1>6. {} \ {t} = {}
    OBVIOUS
  <1>7. Ended(z, y, t)
    BY <1>3, <1>4, <1>5, <1>6 DEF Ended, Forgotten
  <1> QED
    BY <1>7 DEF y

(* finish of a thread that does not run, or the failure of its assertion. *)
LEMMA FinishedSound ==
    ASSUME NEW z, NEW t \in Threads, Sound(z, {})
    PROVE  \/ Ended(z, Finished(z, t), t)
           \/ Finished(z, t) = Fail(z, "finish") /\ z.th[t].state \notin {"OUT", "STARTED", "BLOCKED"}
  <1> DEFINE x == [z EXCEPT !.th[t].handoffThread = None]
  <1>1. Forgotten(z, x, t)
    BY Forgets
  <1>2. CASE z.th[t].state = "QUEUED" /\ t \in ToSet(z.runQueue)
    <2>1. Finished(z, t) = [x EXCEPT !.th[t].state = "NEW", !.runQueue = RemoveFirst(@, t)]
      BY <1>2, Zenon DEF Finished
    <2> HIDE DEF x
    <2>2. Ended(z, [x EXCEPT !.th[t].state = "NEW", !.runQueue = RemoveFirst(@, t)], t)
      BY <1>1, <1>2, QueuedEnds, Zenon
    <2> QED
      BY <2>1, <2>2, Zenon
  <1>3. CASE z.th[t].state = "OUT"
    <2>1. Finished(z, t) = [deschedule([x EXCEPT !.outQueue = RemoveFirst(@, t)], t, "NEW")
                              EXCEPT !.freeList = Append(@, z.th[t].cid)]
      BY <1>3 DEF Finished
    <2> HIDE DEF x
    <2>2. Ended(z, [deschedule([x EXCEPT !.outQueue = RemoveFirst(@, t)], t, "NEW")
                        EXCEPT !.freeList = Append(@, z.th[t].cid)], t)
      BY <1>1, <1>3, OutEnds, Zenon
    <2> QED
      BY <2>1, <2>2, Zenon
  <1>4. CASE z.th[t].state \in {"STARTED", "BLOCKED"}
    <2>1. Finished(z, t) = [x EXCEPT !.th[t].state = "NEW"]
      BY <1>4 DEF Finished
    <2> HIDE DEF x
    <2>2. Ended(z, [x EXCEPT !.th[t].state = "NEW"], t)
      BY <1>1, <1>4, IdleEnds, Zenon
    <2> QED
      BY <2>1, <2>2, Zenon
  <1>5. CASE /\ ~ (z.th[t].state = "QUEUED" /\ t \in ToSet(z.runQueue))
             /\ z.th[t].state # "OUT" /\ z.th[t].state \notin {"STARTED", "BLOCKED"}
    <2>1. Finished(z, t) = Fail(z, "finish")
      BY <1>5 DEF Finished
    <2> QED
      BY <1>5, <2>1
  <1> QED
    BY <1>2, <1>3, <1>4, <1>5

(* Where a thread's calls have brought it, and what the scheduler knows of it: l is   *)
(* where the thread is, w whose fake leave the watchdog is ending, st whether it has   *)
(* ended any and dd the threads that have been killed.                             *)
PlaceOf(z, t, l, w, st, dd) ==
    LET x == z.th[t]
        faked == t \in ToSet(z.fakeLeaves)
    IN  /\ l \in {"app", "marked", "inBar"} => x.state = "RUNNING"
        /\ l = "waitCtx" => x.state = "RUNNING" \/ (x.state = "QUEUED" /\ x.futexWord = 1)
        /\ l = "new" => x.state = "NEW"
        /\ faked => l \in {"syscall", "joining"}
        /\ x.markedForSleep => l = "marked" \/ (l = "finishLeave" /\ dd # {})
        /\ w = t => /\ l \in {"syscall", "joining", "finishLeave", "finishEnd", "gone"} /\ ~ faked
                    /\ l \in {"syscall", "joining"} => x.state = "RUNNING"
        /\ ~ st => /\ l = "syscall" => faked \/ x.state \in {"OUT", "BLOCKED", "SLEEPING"}
                   /\ l = "joining" => faked \/ x.state \in {"OUT", "BLOCKED", "SLEEPING", "STARTED"}
                   /\ l = "finishLeave" => x.state = "RUNNING"
                   /\ l = "finishEnd" /\ dd = {} => x.state \in {"OUT", "BLOCKED"}

(* The threads in the barrier's wait, and the places a thread can be at. *)
InBar == {t \in Threads : pc[t] = "inBar"}

Pcs == {"new", "joining", "app", "marked", "inBar", "waitCtx", "syscall",
        "finishLeave", "finishEnd", "gone"}

(* The types of the variables around s. *)
Around == /\ pc \in [Threads -> Pcs] /\ dead \subseteq Threads /\ stalled \in BOOLEAN
          /\ wd \in (Threads \X Cores) \cup {NoLeave} /\ (wd # NoLeave => stalled)

(* Every thread's place suits what the scheduler knows of it, until an assertion fails. *)
Places == s.failed = None => \A t \in Threads : PlaceOf(s, t, pc[t], wd[1], stalled, dead)

(* No thread is forgotten as long as no process is killed. *)
Recalls == dead = {} => Remembers(s, InBar, {})

(* The inductive invariant. *)
SchedInv == Around /\ Sound(s, {}) /\ Places /\ Recalls /\ NoAssertFails

(* What others do to a thread leaves it where it is. *)
LEMMA DriftKeepsPlace ==
    ASSUME NEW z, NEW y, NEW u, Drifts(z, y, u), NEW l, NEW w, NEW v, NEW a \in BOOLEAN, NEW b \in BOOLEAN,
           NEW D, NEW E, PlaceOf(z, u, l, w, a, D), v = u => w = u, a => b, D \subseteq E
    PROVE  PlaceOf(y, u, l, v, b, E)
  <1> DEFINE p == z.th[u]
             q == y.th[u]
             fp == u \in ToSet(z.fakeLeaves)
             fq == u \in ToSet(y.fakeLeaves)
  <1>1. /\ \/ q.state = p.state
           \/ p.state \in {"SLEEPING", "OUT"} /\ q.state = "BLOCKED"
           \/ p.state = "QUEUED" /\ q.state = "RUNNING"
        /\ p.state = "QUEUED" /\ p.futexWord = 1 => q.state = "RUNNING" \/ q.futexWord = 1
        /\ q.markedForSleep = p.markedForSleep /\ (fq <=> fp)
    BY DEF Drifts
  <1>2. /\ l \in {"app", "marked", "inBar"} => p.state = "RUNNING"
        /\ l = "waitCtx" => p.state = "RUNNING" \/ (p.state = "QUEUED" /\ p.futexWord = 1)
        /\ l = "new" => p.state = "NEW"
        /\ fp => l \in {"syscall", "joining"}
        /\ p.markedForSleep => l = "marked" \/ (l = "finishLeave" /\ D # {})
        /\ w = u => /\ l \in {"syscall", "joining", "finishLeave", "finishEnd", "gone"} /\ ~ fp
                    /\ l \in {"syscall", "joining"} => p.state = "RUNNING"
        /\ ~ a => /\ l = "syscall" => fp \/ p.state \in {"OUT", "BLOCKED", "SLEEPING"}
                  /\ l = "joining" => fp \/ p.state \in {"OUT", "BLOCKED", "SLEEPING", "STARTED"}
                  /\ l = "finishLeave" => p.state = "RUNNING"
                  /\ l = "finishEnd" /\ D = {} => p.state \in {"OUT", "BLOCKED"}
    BY DEF PlaceOf
  <1>3. D # {} => E # {}
    OBVIOUS
  <1> HIDE DEF p, q, fp, fq
  <1>4. /\ l \in {"app", "marked", "inBar"} => q.state = "RUNNING"
        /\ l = "waitCtx" => q.state = "RUNNING" \/ (q.state = "QUEUED" /\ q.futexWord = 1)
        /\ l = "new" => q.state = "NEW"
        /\ fq => l \in {"syscall", "joining"}
        /\ q.markedForSleep => l = "marked" \/ (l = "finishLeave" /\ E # {})
        /\ v = u => /\ l \in {"syscall", "joining", "finishLeave", "finishEnd", "gone"} /\ ~ fq
                    /\ l \in {"syscall", "joining"} => q.state = "RUNNING"
    BY <1>1, <1>2, <1>3
  <1>5. ~ b => /\ l = "syscall" => fq \/ q.state \in {"OUT", "BLOCKED", "SLEEPING"}
               /\ l = "joining" => fq \/ q.state \in {"OUT", "BLOCKED", "SLEEPING", "STARTED"}
               /\ l = "finishLeave" => q.state = "RUNNING"
               /\ l = "finishEnd" /\ E = {} => q.state \in {"OUT", "BLOCKED"}
    BY <1>1, <1>2, <1>3
  <1> QED
    BY <1>4, <1>5 DEF PlaceOf, p, q, fp, fq

(* A step that keeps s well formed, moves one thread to a place that suits it and   *)
(* does to the others what they bear, keeps the invariant.                         *)
LEMMA StepKeeps ==
    ASSUME SchedInv, Up, NEW t \in Threads, Around', Sound(s', {}),
           \A u \in Threads \ {t} : pc'[u] = pc[u] /\ (wd'[1] = u => wd[1] = u),
           stalled => stalled', dead \subseteq dead',
           s'.failed = None => Undisturbed(s, s', {t}) /\ PlaceOf(s', t, pc'[t], wd'[1], stalled', dead'),
           Recalls', NoAssertFails'
    PROVE  SchedInv'
  <1>1. ASSUME s'.failed = None
        PROVE  \A u \in Threads : PlaceOf(s', u, pc'[u], wd'[1], stalled', dead')
    <2>1. ASSUME NEW u \in Threads, u # t
          PROVE  PlaceOf(s', u, pc'[u], wd'[1], stalled', dead')
      <3>1. PlaceOf(s, u, pc[u], wd[1], stalled, dead)
        BY <2>1 DEF SchedInv, Places, Up
      <3>2. Drifts(s, s', u)
        BY <1>1, <2>1 DEF Undisturbed
      <3>3. pc'[u] = pc[u] /\ (wd'[1] = u => wd[1] = u)
        BY <2>1
      <3>4. stalled \in BOOLEAN /\ stalled' \in BOOLEAN
        BY DEF SchedInv, Around
      <3>5. PlaceOf(s', u, pc[u], wd'[1], stalled', dead')
        BY <3>1, <3>2, <3>3, <3>4, DriftKeepsPlace
      <3> QED
        BY <3>3, <3>5
    <2> QED
      BY <1>1, <2>1
  <1>2. Places'
    BY <1>1 DEF Places
  <1> QED
    BY <1>2 DEF SchedInv

(* A step of t from a place to another that leaves the watchdog and the dead alone. *)
LEMMA GotoKeeps ==
    ASSUME SchedInv, Up, NEW t \in Threads, NEW l \in Pcs, Goto(t, l), UNCHANGED <<dead, wd, stalled>>
    PROVE  /\ Around' /\ pc'[t] = l /\ None \notin InBar
           /\ \A u \in Threads \ {t} : pc'[u] = pc[u] /\ (wd'[1] = u => wd[1] = u)
           /\ stalled => stalled'
           /\ dead \subseteq dead'
           /\ InBar' = IF l = "inBar" THEN InBar \cup {t} ELSE InBar \ {t}
  <1>1. pc \in [Threads -> Pcs] /\ None \notin Threads
    BY SchedulerAssumption DEF SchedInv, Around
  <1>2. pc' \in [Threads -> Pcs] /\ pc'[t] = l /\ \A u \in Threads \ {t} : pc'[u] = pc[u]
    BY <1>1 DEF Goto
  <1>3. Around'
    BY <1>2 DEF SchedInv, Around
  <1>4. InBar' = IF l = "inBar" THEN InBar \cup {t} ELSE InBar \ {t}
    BY <1>2 DEF InBar
  <1> QED
    BY <1>1, <1>2, <1>3, <1>4 DEF InBar

(* The same, of a thread that is not in the barrier's wait: what it remembers. *)
LEMMA MoveKeeps ==
    ASSUME SchedInv, Up, NEW t \in Threads, NEW l \in Pcs \ {"inBar"}, Goto(t, l),
           UNCHANGED <<dead, wd, stalled>>,
           Sound(s', {}), Undisturbed(s, s', {t}), s'.failed = s.failed,
           PlaceOf(s', t, l, wd[1], stalled, dead),
           pc[t] # "inBar" \/ dead # {},
           dead = {} => \A P : None \notin P /\ t \notin P /\ Remembers(s, P, {}) => Remembers(s', P, {})
    PROVE  SchedInv'
  <1>1. /\ Around' /\ pc'[t] = l /\ None \notin InBar
        /\ \A u \in Threads \ {t} : pc'[u] = pc[u] /\ (wd'[1] = u => wd[1] = u)
        /\ (stalled => stalled') /\ dead \subseteq dead'
        /\ InBar' = InBar \ {t}
    BY GotoKeeps
  <1>2. Recalls'
    <2>1. ASSUME dead = {}
          PROVE  Remembers(s', InBar', {})
      <3>1. InBar' = InBar /\ t \notin InBar
        BY <1>1, <2>1 DEF InBar
      <3>2. Remembers(s, InBar, {})
        BY <2>1 DEF SchedInv, Recalls
      <3>3. Remembers(s', InBar, {})
        BY <1>1, <2>1, <3>1, <3>2
      <3> QED
        BY <3>1, <3>3
    <2> QED
      BY <2>1 DEF Recalls
  <1>3. NoAssertFails'
    BY DEF SchedInv, NoAssertFails
  <1>4. PlaceOf(s', t, pc'[t], wd'[1], stalled', dead')
    BY <1>1
  <1> QED
    BY <1>1, <1>2, <1>3, <1>4, StepKeeps

(* The same, of a step whose assertion fails. *)
LEMMA FailKeeps ==
    ASSUME SchedInv, Up, NEW t \in Threads, NEW l \in Pcs \ {"inBar"}, Goto(t, l),
           UNCHANGED <<dead, wd, stalled>>,
           Sound(s', {}), s'.failed # None, stalled \/ dead # {},
           pc[t] # "inBar" \/ dead # {},
           dead = {} => \A P : None \notin P /\ Remembers(s, P, {}) => Remembers(s', P, {})
    PROVE  SchedInv'
  <1>1. /\ Around' /\ pc'[t] = l /\ None \notin InBar
        /\ \A u \in Threads \ {t} : pc'[u] = pc[u] /\ (wd'[1] = u => wd[1] = u)
        /\ (stalled => stalled') /\ dead \subseteq dead'
        /\ InBar' = InBar \ {t}
    BY GotoKeeps
  <1>2. Recalls'
    <2>1. ASSUME dead = {}
          PROVE  Remembers(s', InBar', {})
      <3>1. InBar' = InBar
        BY <1>1, <2>1 DEF InBar
      <3>2. Remembers(s, InBar, {})
        BY <2>1 DEF SchedInv, Recalls
      <3>3. Remembers(s', InBar, {})
        BY <1>1, <2>1, <3>1, <3>2
      <3> QED
        BY <3>1, <3>3
    <2> QED
      BY <2>1 DEF Recalls
  <1>3. NoAssertFails'
    BY DEF NoAssertFails
  <1> QED
    BY <1>1, <1>2, <1>3, StepKeeps

(* What others do to a thread, and then a step of another. *)
LEMMA DriftFirst ==
    ASSUME NEW x, NEW y, NEW z, NEW A, Undisturbed(x, y, {}), Undisturbed(y, z, A)
    PROVE  Undisturbed(x, z, A)
  BY DEF Undisturbed, Drifts

(* Where a thread is. *)
LEMMA Here ==
    ASSUME SchedInv, Up, NEW t \in Threads
    PROVE  /\ Sound(s, {}) /\ PlaceOf(s, t, pc[t], wd[1], stalled, dead)
           /\ stalled \in BOOLEAN /\ dead \subseteq Threads /\ s.failed = None
  BY DEF SchedInv, Places, Around, Up

(* A thread that neither runs nor is about to sleep pretends nothing. *)
LEMMA NeitherFakedNorMarked ==
    ASSUME NEW z, NEW t \in Threads, Sound(z, {}), z.th[t].state # "RUNNING"
    PROVE  t \notin ToSet(z.fakeLeaves) /\ ~ z.th[t].markedForSleep
  BY DEF Sound, QueuesOf, WordsOf

(* The last place of a thread that drifted. *)
LEMMA StillHere ==
    ASSUME SchedInv, Up, NEW t \in Threads, NEW z, Undisturbed(s, z, {})
    PROVE  PlaceOf(z, t, pc[t], wd[1], stalled, dead)
  <1>1. PlaceOf(s, t, pc[t], wd[1], stalled, dead) /\ stalled \in BOOLEAN
    BY Here
  <1>2. Drifts(s, z, t)
    BY DEF Undisturbed
  <1> QED
    BY <1>1, <1>2, DriftKeepsPlace

(* start keeps the invariant. *)
LEMMA startKeeps ==
    ASSUME SchedInv, NEW t \in Threads, start(t)
    PROVE  SchedInv'
  <1>1. Up /\ pc[t] = "new" /\ Goto(t, "joining") /\ UNCHANGED <<dead, wd, stalled>>
    BY DEF start
  <1>2. Sound(s, {}) /\ s.th[t].state = "NEW" /\ wd[1] # t
    BY <1>1, Here DEF PlaceOf
  <1>3. t \notin ToSet(s.runQueue) /\ \A u \in Threads : s.th[u].handoffThread # t
    BY <1>2, NotToWake
  <1> DEFINE y == [s EXCEPT !.th[t].state = "STARTED"]
  <1>4. /\ Sound(y, {}) /\ y.failed = s.failed
        /\ Undisturbed(s, y, {t}) /\ y.th[t].state = "STARTED"
        /\ \A P, Y : None \notin P /\ Remembers(s, P, Y) => Remembers(y, P, Y \ {t})
    <2>1. "STARTED" \in {"NEW", "STARTED"} /\ s.th[t].state \in {"NEW", "STARTED", "BLOCKED", "QUEUED"}
      BY <1>2
    <2> QED
      BY <1>2, <1>3, <2>1, IdleSound
  <1>5. s' = y
    BY DEF start
  <1> HIDE DEF y
  <1>6. \A P : None \notin P /\ Remembers(s, P, {}) => Remembers(s', P, {} \ {t})
    BY <1>4, <1>5
  <1>7. t \notin ToSet(s'.fakeLeaves) /\ ~ s'.th[t].markedForSleep
    BY <1>4, <1>5, NeitherFakedNorMarked
  <1>8. PlaceOf(s', t, "joining", wd[1], stalled, dead)
    BY <1>2, <1>4, <1>5, <1>7 DEF PlaceOf
  <1>9. "joining" \in Pcs \ {"inBar"} /\ {} \ {t} = {}
    BY DEF Pcs
  <1> QED
    BY <1>1, <1>4, <1>5, <1>6, <1>8, <1>9, MoveKeeps

(* Where join and the return from sync lead to. *)
BackAt(y, t) == IF y.th[t].state = "QUEUED" THEN "waitCtx" ELSE "app"

(* A thread that comes back, by join or from the barrier's wait. *)
LEMMA BackInPlace ==
    ASSUME NEW z, NEW y, NEW t \in Threads, Back(z, y, t), NEW w, w # t, NEW st, NEW D
    PROVE  PlaceOf(y, t, BackAt(y, t), w, st, D) /\ BackAt(y, t) \in Pcs \ {"inBar"}
  <1>1. BackAt(y, t) \in Pcs \ {"inBar"}
    BY DEF Pcs, BackAt
  <1>2. PlaceOf(y, t, BackAt(y, t), w, st, D)
    BY DEF PlaceOf, Back, BackAt
  <1> QED
    BY <1>1, <1>2

(* join keeps it: from a fake leave, from OUT, on a core it finds, or into the run queue. *)
LEMMA joinKeeps ==
    ASSUME SchedInv, NEW t \in Threads, join(t)
    PROVE  SchedInv'
  <1> DEFINE z == EarlyEnd(s, t)
             l == BackAt(s', t)
  <1>1. /\ Up /\ pc[t] = "joining" /\ Goto(t, l) /\ UNCHANGED <<dead, wd, stalled>>
        /\ s' = Joined(z, t)
    BY DEF join, Alive, BackAt
  <1>2. Sound(s, {})
    BY <1>1, Here
  <1>3. /\ Sound(z, {}) /\ z.failed = s.failed /\ Undisturbed(s, z, {})
        /\ z.th[t].state # "SLEEPING"
        /\ \A P, Y : None \notin P /\ Remembers(s, P, Y) => Remembers(z, P, Y)
    BY <1>2, SleepEndsEarly
  <1> HIDE DEF z
  <1>4. PlaceOf(z, t, "joining", wd[1], stalled, dead)
    BY <1>1, <1>3, StillHere
  <1>5. l \in Pcs \ {"inBar"} /\ pc[t] # "inBar"
    BY <1>1 DEF Pcs, BackAt
  <1>6. CASE InFakeLeave(z, t)
    <2> DEFINE y == finishFakeLeave(z, t)
    <2>1. s' = y
      BY <1>1, <1>6 DEF Joined
    <2>2. /\ Sound(y, {}) /\ y.failed = z.failed /\ y.th = z.th /\ y.bar = z.bar
          /\ y.curThread = z.curThread
          /\ t \notin ToSet(y.fakeLeaves) /\ Undisturbed(z, y, {t})
          /\ \A P, Y : Remembers(z, P, Y) => Remembers(y, P, Y)
      BY <1>3, UnfakeSound
    <2> HIDE DEF y
    <2>3. z.th[t].state = "RUNNING" /\ ~ z.th[t].markedForSleep /\ wd[1] # t
      BY <1>3, <1>4, <1>6 DEF PlaceOf, InFakeLeave, Sound, QueuesOf
    <2>4. Undisturbed(s, s', {t})
      BY <1>3, <2>1, <2>2, DriftFirst
    <2>5. PlaceOf(s', t, l, wd[1], stalled, dead)
      BY <2>1, <2>2, <2>3 DEF PlaceOf, BackAt
    <2>6. \A P : None \notin P /\ Remembers(s, P, {}) => Remembers(s', P, {})
      BY <1>3, <2>1, <2>2
    <2>7. Sound(s', {}) /\ s'.failed = s.failed
      BY <1>3, <2>1, <2>2
    <2> HIDE DEF l
    <2> QED
      BY <1>1, <1>5, <2>4, <2>5, <2>6, <2>7, MoveKeeps
  <1>7. CASE ~ InFakeLeave(z, t) /\ ~ z.th[t].markedForSleep /\ z.th[t].state \in {"OUT", "BLOCKED", "STARTED"}
    <2>1. /\ Back(z, s', t)
          /\ \A P : None \notin P /\ Remembers(z, P, {}) => Remembers(s', P, {})
      BY <1>1, <1>3, <1>7, JoinedSound
    <2>2. wd[1] # t
      BY <1>4, <1>7 DEF PlaceOf
    <2>3. PlaceOf(s', t, l, wd[1], stalled, dead)
      BY <2>1, <2>2, BackInPlace, Zenon
    <2>4. Undisturbed(s, s', {t}) /\ Sound(s', {}) /\ s'.failed = s.failed
      BY <1>3, <2>1, DriftFirst DEF Back
    <2>5. \A P : None \notin P /\ Remembers(s, P, {}) => Remembers(s', P, {})
      BY <1>3, <2>1
    <2> HIDE DEF l
    <2> QED
      BY <1>1, <1>5, <2>3, <2>4, <2>5, MoveKeeps
  <1>8. CASE ~ InFakeLeave(z, t) /\ (z.th[t].markedForSleep \/ z.th[t].state \notin {"OUT", "BLOCKED", "STARTED"})
    <2>1. s' = Fail(z, "join")
      BY <1>1, <1>8, Zenon DEF Joined
    <2>2. "join" \in {"leave", "join", "finish"} /\ "join" # None
      BY DEF None
    <2>3. /\ Sound(Fail(z, "join"), {}) /\ Fail(z, "join").failed = "join" /\ Fail(z, "join").th = z.th
          /\ \A P, Y : Remembers(z, P, Y) => Remembers(Fail(z, "join"), P, Y)
      BY <1>3, <2>2, FailSound
    <2>4. stalled
      BY <1>3, <1>4, <1>8 DEF PlaceOf, InFakeLeave
    <2>5. \A P : None \notin P /\ Remembers(s, P, {}) => Remembers(s', P, {})
      BY <1>3, <2>1, <2>3
    <2>6. Sound(s', {}) /\ s'.failed # None
      BY <2>1, <2>2, <2>3
    <2> HIDE DEF l
    <2> QED
      BY <1>1, <1>5, <2>4, <2>5, <2>6, FailKeeps
  <1> QED
    BY <1>6, <1>7, <1>8

(* The return from waitForContext keeps it. *)
LEMMA WokenKeeps ==
    ASSUME SchedInv, NEW t \in Threads, Woken(t)
    PROVE  SchedInv'
  <1>1. /\ Up /\ pc[t] = "waitCtx" /\ s.th[t].futexWord = 0 /\ Goto(t, "app")
        /\ s' = s /\ UNCHANGED <<dead, wd, stalled>>
    BY DEF Woken, Alive
  <1>2. PlaceOf(s, t, "waitCtx", wd[1], stalled, dead) /\ Sound(s, {})
    BY <1>1, Here
  <1>3. PlaceOf(s', t, "app", wd[1], stalled, dead)
    BY <1>1, <1>2 DEF PlaceOf
  <1>4. "app" \in Pcs \ {"inBar"}
    BY DEF Pcs
  <1>5. Undisturbed(s, s', {t}) /\ Sound(s', {})
    BY <1>1, <1>2 DEF Undisturbed, Drifts
  <1> QED
    BY <1>1, <1>3, <1>4, <1>5, MoveKeeps

(* sync keeps it, also when it ends the phase: callback and schedTick are part of the step. *)
LEMMA syncKeeps ==
    ASSUME SchedInv, NEW t \in Threads, sync(t)
    PROVE  SchedInv'
  <1> DEFINE x == [s EXCEPT !.bar[s.th[t].cid] = "wait"]
  <1>1. /\ Up /\ pc[t] = "app" /\ Goto(t, "inBar") /\ UNCHANGED <<dead, wd, stalled>>
        /\ s' \in EndPhase(x)
    BY DEF sync, Alive
  <1>2. PlaceOf(s, t, "app", wd[1], stalled, dead) /\ Sound(s, {})
    BY <1>1, Here
  <1>3. s.th[t].state = "RUNNING" /\ ~ s.th[t].markedForSleep /\ t \notin ToSet(s.fakeLeaves) /\ wd[1] # t
    BY <1>2 DEF PlaceOf
  <1>4. /\ Sound(x, {}) /\ x.failed = s.failed /\ x.th = s.th /\ Undisturbed(s, x, {})
        /\ \A P, Y : t \notin P /\ Remembers(s, P, Y) => Remembers(x, P \cup {t}, Y)
    BY <1>2, <1>3, WaitsForPhase
  <1> HIDE DEF x
  <1>5. /\ Sound(s', {}) /\ s'.failed = x.failed /\ Undisturbed(x, s', {})
        /\ \A P, Y : None \notin P /\ Remembers(x, P, Y) => Remembers(s', P, Y)
    BY <1>1, <1>4, EndPhaseSound
  <1>6. Undisturbed(s, s', {})
    BY <1>4, <1>5, DriftFirst
  <1>7. PlaceOf(s', t, "inBar", wd[1], stalled, dead)
    <2>1. Drifts(s, s', t)
      BY <1>6 DEF Undisturbed
    <2> QED
      BY <1>3, <2>1 DEF Drifts, PlaceOf
  <1>8. /\ Around' /\ pc'[t] = "inBar" /\ None \notin InBar
        /\ \A u \in Threads \ {t} : pc'[u] = pc[u] /\ (wd'[1] = u => wd[1] = u)
        /\ (stalled => stalled') /\ dead \subseteq dead'
        /\ InBar' = InBar \cup {t}
    <2>1. "inBar" \in Pcs
      BY DEF Pcs
    <2> QED
      BY <1>1, <2>1, GotoKeeps
  <1>9. Recalls'
    <2>1. ASSUME dead = {}
          PROVE  Remembers(s', InBar', {})
      <3>1. t \notin InBar /\ None \notin InBar \cup {t}
        BY <1>1, <1>8, SchedulerAssumption DEF InBar
      <3>2. Remembers(s, InBar, {})
        BY <2>1 DEF SchedInv, Recalls
      <3> QED
        BY <1>4, <1>5, <1>8, <3>1, <3>2
    <2> QED
      BY <1>1, <2>1 DEF Recalls
  <1>10. NoAssertFails'
    BY <1>1, <1>4, <1>5 DEF SchedInv, NoAssertFails
  <1>11. Undisturbed(s, s', {t}) /\ PlaceOf(s', t, pc'[t], wd'[1], stalled', dead')
    BY <1>1, <1>6, <1>7, <1>8 DEF Undisturbed
  <1> QED
    BY <1>1, <1>5, <1>8, <1>9, <1>10, <1>11, StepKeeps

(* The return from sync keeps it, also when the core is handed over. *)
LEMMA SyncReturnsKeeps ==
    ASSUME SchedInv, NEW t \in Threads, SyncReturns(t)
    PROVE  SchedInv'
  <1> DEFINE l == BackAt(s', t)
  <1>1. /\ Up /\ pc[t] = "inBar" /\ s.bar[s.th[t].cid] = "run" /\ Goto(t, l)
        /\ UNCHANGED <<dead, wd, stalled>>
        /\ s' = IF s.th[t].handoffThread = None THEN s ELSE Handoff(s, t)
    BY DEF SyncReturns, Alive, BackAt
  <1>2. PlaceOf(s, t, "inBar", wd[1], stalled, dead) /\ Sound(s, {})
    BY <1>1, Here
  <1>3. s.th[t].state = "RUNNING" /\ ~ s.th[t].markedForSleep /\ t \notin ToSet(s.fakeLeaves) /\ wd[1] # t
    BY <1>2 DEF PlaceOf
  <1>4. /\ Back(s, s', t)
        /\ \A P : None \notin P /\ Remembers(s, P, {}) => Remembers(s', P \ {t}, {})
    <2>1. CASE s.th[t].handoffThread = None
      <3>1. s' = s
        BY <1>1, <2>1
      <3>2. Back(s, s, t)
        BY <1>2, <1>3 DEF Back, Undisturbed, Drifts
      <3>3. s.bar[s.th[t].cid] # "wait"
        BY <1>1
      <3>4. \A P : None \notin P /\ Remembers(s, P, {}) => Remembers(s, P \ {t}, {})
        BY <1>2, <2>1, <3>3, NoLongerWaits
      <3> QED
        BY <3>1, <3>2, <3>4
    <2>2. CASE s.th[t].handoffThread # None
      <3>1. s' = Handoff(s, t)
        BY <1>1, <2>2
      <3>2. /\ Back(s, Handoff(s, t), t)
            /\ \A P : None \notin P /\ s.bar[s.th[t].cid] = "run" /\ Remembers(s, P, {})
                   => Remembers(Handoff(s, t), P \ {t}, {})
        BY <1>2, <1>3, <2>2, HandoffSound
      <3> QED
        BY <1>1, <3>1, <3>2
    <2> QED
      BY <2>1, <2>2
  <1>5. PlaceOf(s', t, l, wd[1], stalled, dead) /\ l \in Pcs \ {"inBar"}
    <2>1. Back(s, s', t) /\ wd[1] # t
      BY <1>3, <1>4
    <2> QED
      BY <2>1, BackInPlace, Zenon
  <1> HIDE DEF l
  <1>6. /\ Around' /\ pc'[t] = l /\ None \notin InBar
        /\ \A u \in Threads \ {t} : pc'[u] = pc[u] /\ (wd'[1] = u => wd[1] = u)
        /\ (stalled => stalled') /\ dead \subseteq dead'
        /\ InBar' = InBar \ {t}
    BY <1>1, <1>5, GotoKeeps
  <1>7. Recalls'
    BY <1>1, <1>4, <1>6 DEF SchedInv, Recalls
  <1>8. NoAssertFails'
    BY <1>1, <1>4 DEF SchedInv, NoAssertFails, Back
  <1>9. Undisturbed(s, s', {t}) /\ Sound(s', {}) /\ PlaceOf(s', t, pc'[t], wd'[1], stalled', dead')
    BY <1>1, <1>4, <1>5, <1>6 DEF Back
  <1> QED
    BY <1>1, <1>6, <1>7, <1>8, <1>9, StepKeeps

(* A thread in its code runs, is in no fake leave and is left alone by the watchdog. *)
LEMMA InItsCode ==
    ASSUME NEW z, NEW t, NEW w, NEW st, NEW D, PlaceOf(z, t, "app", w, st, D)
    PROVE  z.th[t].state = "RUNNING" /\ t \notin ToSet(z.fakeLeaves) /\ w # t
  BY DEF PlaceOf

(* markForSleep keeps it. *)
LEMMA markForSleepKeeps ==
    ASSUME SchedInv, NEW t \in Threads, NEW n \in Sleeps, markForSleep(t, n)
    PROVE  SchedInv'
  <1> DEFINE y == [s EXCEPT !.th[t].markedForSleep = TRUE, !.th[t].left = n, !.th[t].futexWord = 1]
  <1>1. /\ Up /\ pc[t] = "app" /\ Goto(t, "marked") /\ UNCHANGED <<dead, wd, stalled>> /\ s' = y
    BY DEF markForSleep, Alive
  <1>2. PlaceOf(s, t, "app", wd[1], stalled, dead) /\ Sound(s, {})
    BY <1>1, Here
  <1>3. s.th[t].state = "RUNNING" /\ t \notin ToSet(s.fakeLeaves) /\ wd[1] # t
    BY <1>2, InItsCode, Zenon
  <1>4. /\ Sound(y, {}) /\ y.failed = s.failed
        /\ Undisturbed(s, y, {t}) /\ y.fakeLeaves = s.fakeLeaves
        /\ y.th[t].state = "RUNNING"
        /\ \A P, Y : None \notin P /\ Remembers(s, P, Y) => Remembers(y, P, Y)
    BY <1>2, <1>3, MarkSound
  <1> HIDE DEF y
  <1>5. PlaceOf(s', t, "marked", wd[1], stalled, dead)
    BY <1>1, <1>3, <1>4 DEF PlaceOf
  <1>6. "marked" \in Pcs \ {"inBar"}
    BY DEF Pcs
  <1> QED
    BY <1>1, <1>4, <1>5, <1>6, MoveKeeps

(* A thread that leaves, or is made to, does, unless it does not run. *)
LEMMA LeavesOrFails ==
    ASSUME NEW z, NEW t \in Threads, Sound(z, {}), NEW c \in Cores, t \notin ToSet(z.fakeLeaves),
           NEW y \in leave(z, t, c)
    PROVE  \/ Left(z, y, t)
           \/ y = Fail(z, "leave") /\ (z.th[t].state # "RUNNING" \/ z.th[t].cid # c)
  <1>1. CASE z.curThread[c] # t \/ z.th[t].state # "RUNNING"
    <2>1. y = Fail(z, "leave")
      <3>1. leave(z, t, c) = {Fail(z, "leave")}
        BY <1>1, Zenon DEF leave
      <3> QED
        BY <3>1
    <2>2. z.th[t].state # "RUNNING" \/ z.th[t].cid # c
      BY <1>1 DEF Sound, CoresOf, HasCore
    <2> QED
      BY <2>1, <2>2
  <1>2. CASE z.curThread[c] = t /\ z.th[t].state = "RUNNING"
    <2>1. c = z.th[t].cid
      BY <1>2 DEF Sound, CoresOf
    <2>2. y \in leave(z, t, z.th[t].cid)
      BY <2>1
    <2> QED
      BY <1>2, <2>2, LeaveSound
  <1> QED
    BY <1>1, <1>2

(* A failed assertion of leave, join or finish changes nothing else. *)
LEMMA FailsAtLeave ==
    ASSUME NEW z, Sound(z, {}), NEW a \in {"leave", "join", "finish"}, NEW y, y = Fail(z, a)
    PROVE  /\ Sound(y, {}) /\ y.failed # None
           /\ \A P, Y : Remembers(z, P, Y) => Remembers(y, P, Y)
  <1>1. /\ Sound(Fail(z, a), {}) /\ Fail(z, a).failed = a /\ Fail(z, a).th = z.th
        /\ \A P, Y : Remembers(z, P, Y) => Remembers(Fail(z, a), P, Y)
    BY FailSound
  <1>2. a # None
    BY DEF None
  <1> QED
    BY <1>1, <1>2

(* syscallLeave keeps it, whether the leave is real or fake. *)
LEMMA syscallLeaveKeeps ==
    ASSUME SchedInv, NEW t \in Threads, NEW b \in RealLeaves, syscallLeave(t, b)
    PROVE  SchedInv'
  <1> DEFINE y == [s EXCEPT !.fakeLeaves = Append(@, t)]
             c == s.th[t].cid
  <1>1. /\ Up /\ pc[t] \in {"app", "marked"} /\ Goto(t, "syscall") /\ UNCHANGED <<dead, wd, stalled>>
        /\ s' \in IF s.th[t].markedForSleep \/ b THEN leave(s, t, c) ELSE {y}
    BY DEF syscallLeave, Alive
  <1>2. PlaceOf(s, t, pc[t], wd[1], stalled, dead) /\ Sound(s, {})
    BY <1>1, Here
  <1>3. s.th[t].state = "RUNNING" /\ t \notin ToSet(s.fakeLeaves) /\ wd[1] # t
    BY <1>1, <1>2 DEF PlaceOf
  <1>4. "syscall" \in Pcs \ {"inBar"} /\ pc[t] # "inBar" /\ c \in Cores
    BY <1>1, <1>2, SoundTypes DEF Pcs, ThreadInfos
  <1>5. CASE s.th[t].markedForSleep \/ b
    <2>1. s' \in leave(s, t, c)
      BY <1>1, <1>5
    <2>2. Left(s, s', t)
      BY <1>2, <1>3, <1>4, <2>1, LeavesOrFails
    <2> HIDE DEF c
    <2>3. t \notin ToSet(s'.fakeLeaves) /\ ~ s'.th[t].markedForSleep
      BY <2>2, NeitherFakedNorMarked DEF Left
    <2>4. PlaceOf(s', t, "syscall", wd[1], stalled, dead)
      BY <1>3, <2>2, <2>3 DEF PlaceOf, Left
    <2> QED
      BY <1>1, <1>4, <2>2, <2>4, MoveKeeps DEF Left
  <1>6. CASE ~ (s.th[t].markedForSleep \/ b)
    <2>1. s' = y
      BY <1>1, <1>6
    <2>2. /\ Sound(y, {}) /\ y.failed = s.failed /\ y.th = s.th
          /\ t \in ToSet(y.fakeLeaves) /\ Undisturbed(s, y, {t})
          /\ \A P, Y : Remembers(s, P, Y) => Remembers(y, P, Y)
      BY <1>2, <1>3, FakeSound
    <2> HIDE DEF y, c
    <2>3. PlaceOf(s', t, "syscall", wd[1], stalled, dead)
      BY <1>3, <1>6, <2>1, <2>2 DEF PlaceOf
    <2> QED
      BY <1>1, <1>4, <2>1, <2>2, <2>3, MoveKeeps
  <1> QED
    BY <1>5, <1>6

(* The return of a system call keeps it. *)
LEMMA SyscallReturnsKeeps ==
    ASSUME SchedInv, NEW t \in Threads, SyscallReturns(t)
    PROVE  SchedInv'
  <1>1. /\ Up /\ pc[t] = "syscall" /\ Goto(t, "joining") /\ s' = s /\ UNCHANGED <<dead, wd, stalled>>
    BY DEF SyscallReturns, Alive
  <1>2. PlaceOf(s, t, "syscall", wd[1], stalled, dead) /\ Sound(s, {})
    BY <1>1, Here
  <1>3. PlaceOf(s', t, "joining", wd[1], stalled, dead)
    BY <1>1, <1>2 DEF PlaceOf
  <1>4. "joining" \in Pcs \ {"inBar"}
    BY DEF Pcs
  <1>5. Undisturbed(s, s', {t}) /\ Sound(s', {})
    BY <1>1, <1>2 DEF Undisturbed, Drifts
  <1> QED
    BY <1>1, <1>3, <1>4, <1>5, MoveKeeps

(* notifySleepEnd keeps it. *)
LEMMA notifySleepEndKeeps ==
    ASSUME SchedInv, NEW t \in Threads, notifySleepEnd(t)
    PROVE  SchedInv'
  <1> DEFINE y == EarlyEnd(s, t)
  <1>1. /\ Up /\ pc[t] = "syscall" /\ s.th[t].state = "SLEEPING" /\ Goto(t, "joining") /\ s' = y
        /\ UNCHANGED <<dead, wd, stalled>>
    BY DEF notifySleepEnd, Alive
  <1>2. PlaceOf(s, t, "syscall", wd[1], stalled, dead) /\ Sound(s, {})
    BY <1>1, Here
  <1>3. /\ Sound(y, {}) /\ y.failed = s.failed /\ Undisturbed(s, y, {})
        /\ y.th[t].state # "SLEEPING"
        /\ s.th[t].state # "SLEEPING" => y.th[t].state = s.th[t].state
        /\ s.th[t].state = "SLEEPING" => y.th[t].state = "BLOCKED"
        /\ \A P, Y : None \notin P /\ Remembers(s, P, Y) => Remembers(y, P, Y)
    BY <1>2, SleepEndsEarly
  <1> HIDE DEF y
  <1>4. s'.th[t].state = "BLOCKED" /\ Sound(s', {})
    BY <1>1, <1>3
  <1>5. t \notin ToSet(s'.fakeLeaves) /\ ~ s'.th[t].markedForSleep /\ wd[1] # t
    BY <1>1, <1>2, <1>4, NeitherFakedNorMarked DEF PlaceOf
  <1>6. PlaceOf(s', t, "joining", wd[1], stalled, dead)
    BY <1>4, <1>5 DEF PlaceOf
  <1>7. "joining" \in Pcs \ {"inBar"}
    BY DEF Pcs
  <1>8. Undisturbed(s, s', {t})
    BY <1>1, <1>3 DEF Undisturbed
  <1> QED
    BY <1>1, <1>3, <1>4, <1>6, <1>7, <1>8, MoveKeeps

(* The first step of finish, of a thread that calls it or whose process was killed. *)
LEMMA FinishStartKeeps ==
    ASSUME SchedInv, Up, NEW t \in Threads, NEW z, Sound(z, {}), z.failed = s.failed, Undisturbed(s, z, {}),
           \A P : None \notin P /\ Remembers(s, P, {}) => Remembers(z, P, {}),
           z.th[t].state # "SLEEPING", pc[t] \in {"syscall"} \/ t \in dead,
           pc[t] \notin {"finishLeave", "finishEnd", "gone"}, FinishStart(z, t),
           UNCHANGED <<dead, wd, stalled>>
    PROVE  SchedInv'
  <1>1. PlaceOf(z, t, pc[t], wd[1], stalled, dead)
    BY StillHere
  <1>2. pc[t] # "inBar" \/ dead # {}
    OBVIOUS
  <1>3. CASE InFakeLeave(z, t) \/ z.th[t].state = "RUNNING"
    <2> DEFINE y == finishFakeLeave(z, t)
    <2>1. s' = y /\ Goto(t, "finishLeave")
      BY <1>3 DEF FinishStart
    <2>2. /\ Sound(y, {}) /\ y.failed = z.failed /\ y.th = z.th /\ y.bar = z.bar
          /\ y.curThread = z.curThread
          /\ t \notin ToSet(y.fakeLeaves) /\ Undisturbed(z, y, {t})
          /\ \A P, Y : Remembers(z, P, Y) => Remembers(y, P, Y)
      BY UnfakeSound
    <2> HIDE DEF y
    <2>3. z.th[t].state = "RUNNING"
      BY <1>3 DEF InFakeLeave, Sound, QueuesOf
    <2>4. z.th[t].markedForSleep => dead # {}
      BY <1>1 DEF PlaceOf
    <2>5. PlaceOf(s', t, "finishLeave", wd[1], stalled, dead)
      BY <2>1, <2>2, <2>3, <2>4 DEF PlaceOf
    <2>6. Undisturbed(s, s', {t}) /\ Sound(s', {}) /\ s'.failed = s.failed
      BY <2>1, <2>2, DriftFirst
    <2>7. "finishLeave" \in Pcs \ {"inBar"}
      BY DEF Pcs
    <2>8. \A P : None \notin P /\ Remembers(s, P, {}) => Remembers(s', P, {})
      BY <2>1, <2>2
    <2> QED
      BY <1>2, <2>1, <2>5, <2>6, <2>7, <2>8, MoveKeeps
  <1>4. CASE ~ (InFakeLeave(z, t) \/ z.th[t].state = "RUNNING")
    <2>1. s' = Finished(z, t) /\ Goto(t, "gone")
      BY <1>4 DEF FinishStart
    <2>2. "gone" \in Pcs \ {"inBar"}
      BY DEF Pcs
    <2>3. \/ Ended(z, s', t)
          \/ s' = Fail(z, "finish") /\ z.th[t].state \notin {"OUT", "STARTED", "BLOCKED"}
      BY <2>1, FinishedSound
    <2>4. CASE Ended(z, s', t)
      <3>1. Undisturbed(s, s', {t}) /\ Sound(s', {}) /\ s'.failed = s.failed
        BY <2>4, DriftFirst DEF Ended
      <3>2. t \notin ToSet(s'.fakeLeaves) /\ ~ s'.th[t].markedForSleep
        BY <2>4, NeitherFakedNorMarked DEF Ended
      <3>3. PlaceOf(s', t, "gone", wd[1], stalled, dead)
        BY <3>2 DEF PlaceOf
      <3>4. \A P : None \notin P /\ t \notin P /\ Remembers(s, P, {}) => Remembers(s', P, {})
        BY <2>4 DEF Ended
      <3> QED
        BY <1>2, <2>1, <2>2, <3>1, <3>3, <3>4, MoveKeeps
    <2>5. CASE s' = Fail(z, "finish") /\ z.th[t].state \notin {"OUT", "STARTED", "BLOCKED"}
      <3>1. "finish" \in {"leave", "join", "finish"}
        OBVIOUS
      <3>2. /\ Sound(s', {}) /\ s'.failed # None
            /\ \A P, Y : Remembers(z, P, Y) => Remembers(s', P, Y)
        BY <2>5, <3>1, FailsAtLeave
      <3>3. stalled \/ dead # {}
        BY <1>1, <1>4, <2>5 DEF PlaceOf, InFakeLeave
      <3>4. \A P : None \notin P /\ Remembers(s, P, {}) => Remembers(s', P, {})
        BY <3>2
      <3> QED
        BY <1>2, <2>1, <2>2, <3>2, <3>3, <3>4, FailKeeps
    <2> QED
      BY <2>3, <2>4, <2>5
  <1> QED
    BY <1>3, <1>4

(* finish keeps it. *)
LEMMA finishKeeps ==
    ASSUME SchedInv, NEW t \in Threads, finish(t)
    PROVE  SchedInv'
  <1>1. /\ Up /\ pc[t] = "syscall" /\ s.th[t].state # "SLEEPING" /\ FinishStart(s, t)
        /\ UNCHANGED <<dead, wd, stalled>>
    BY DEF finish, Alive
  <1>2. Sound(s, {}) /\ Undisturbed(s, s, {})
    BY <1>1, Here DEF Undisturbed, Drifts
  <1> QED
    BY <1>1, <1>2, FinishStartKeeps

(* processCleanup, of a killed thread wherever it was, keeps it. *)
LEMMA processCleanupKeeps ==
    ASSUME SchedInv, NEW t \in Threads, processCleanup(t)
    PROVE  SchedInv'
  <1> DEFINE z == EarlyEnd(s, t)
  <1>1. /\ Up /\ t \in dead /\ pc[t] \notin {"finishLeave", "finishEnd", "gone"} /\ FinishStart(z, t)
        /\ UNCHANGED <<dead, wd, stalled>>
    BY DEF processCleanup
  <1>2. Sound(s, {})
    BY <1>1, Here
  <1>3. /\ Sound(z, {}) /\ z.failed = s.failed /\ Undisturbed(s, z, {})
        /\ z.th[t].state # "SLEEPING"
        /\ s.th[t].state # "SLEEPING" => z.th[t].state = s.th[t].state
        /\ s.th[t].state = "SLEEPING" => z.th[t].state = "BLOCKED"
        /\ \A P, Y : None \notin P /\ Remembers(s, P, Y) => Remembers(z, P, Y)
    BY <1>2, SleepEndsEarly
  <1> HIDE DEF z
  <1> QED
    BY <1>1, <1>3, FinishStartKeeps

(* The leave within finish keeps it, whatever happened since the lock was released. *)
LEMMA FinishLeavesKeeps ==
    ASSUME SchedInv, NEW t \in Threads, FinishLeaves(t)
    PROVE  SchedInv'
  <1>1. /\ Up /\ pc[t] = "finishLeave" /\ Goto(t, "finishEnd") /\ UNCHANGED <<dead, wd, stalled>>
        /\ s' \in leave(s, t, s.th[t].cid)
    BY DEF FinishLeaves
  <1>2. PlaceOf(s, t, "finishLeave", wd[1], stalled, dead) /\ Sound(s, {})
    BY <1>1, Here
  <1>3. t \notin ToSet(s.fakeLeaves) /\ s.th[t].cid \in Cores
    BY <1>2, SoundTypes DEF PlaceOf, ThreadInfos
  <1>4. "finishEnd" \in Pcs \ {"inBar"}
    BY DEF Pcs
  <1>5. Left(s, s', t) \/ (s' = Fail(s, "leave") /\ s.th[t].state # "RUNNING")
    BY <1>1, <1>2, <1>3, LeavesOrFails
  <1>6. CASE Left(s, s', t)
    <2>1. t \notin ToSet(s'.fakeLeaves) /\ ~ s'.th[t].markedForSleep
      BY <1>6, NeitherFakedNorMarked DEF Left
    <2>2. PlaceOf(s', t, "finishEnd", wd[1], stalled, dead)
      BY <1>2, <1>6, <2>1 DEF PlaceOf, Left
    <2> QED
      BY <1>1, <1>4, <1>6, <2>2, MoveKeeps DEF Left
  <1>7. CASE s' = Fail(s, "leave") /\ s.th[t].state # "RUNNING"
    <2>1. "leave" \in {"leave", "join", "finish"}
      OBVIOUS
    <2>2. /\ Sound(s', {}) /\ s'.failed # None
          /\ \A P, Y : Remembers(s, P, Y) => Remembers(s', P, Y)
      BY <1>2, <1>7, <2>1, FailsAtLeave
    <2>3. stalled
      BY <1>2, <1>7 DEF PlaceOf
    <2> QED
      BY <1>1, <1>4, <2>2, <2>3, FailKeeps
  <1> QED
    BY <1>5, <1>6, <1>7

(* The end of finish keeps it. *)
LEMMA FinishEndsKeeps ==
    ASSUME SchedInv, NEW t \in Threads, FinishEnds(t)
    PROVE  SchedInv'
  <1>1. /\ Up /\ pc[t] = "finishEnd" /\ Goto(t, "gone") /\ UNCHANGED <<dead, wd, stalled>>
        /\ s' = Finished(s, t)
    BY DEF FinishEnds
  <1>2. PlaceOf(s, t, "finishEnd", wd[1], stalled, dead) /\ Sound(s, {})
    BY <1>1, Here
  <1>4. "gone" \in Pcs \ {"inBar"}
    BY DEF Pcs
  <1>5. \/ Ended(s, s', t)
        \/ s' = Fail(s, "finish") /\ s.th[t].state \notin {"OUT", "STARTED", "BLOCKED"}
    BY <1>1, <1>2, FinishedSound
  <1>6. CASE Ended(s, s', t)
    <2>1. t \notin ToSet(s'.fakeLeaves) /\ ~ s'.th[t].markedForSleep
      BY <1>6, NeitherFakedNorMarked DEF Ended
    <2>2. PlaceOf(s', t, "gone", wd[1], stalled, dead)
      BY <2>1 DEF PlaceOf
    <2> QED
      BY <1>1, <1>4, <1>6, <2>2, MoveKeeps DEF Ended
  <1>7. CASE s' = Fail(s, "finish") /\ s.th[t].state \notin {"OUT", "STARTED", "BLOCKED"}
    <2>1. "finish" \in {"leave", "join", "finish"}
      OBVIOUS
    <2>2. /\ Sound(s', {}) /\ s'.failed # None
          /\ \A P, Y : Remembers(s, P, Y) => Remembers(s', P, Y)
      BY <1>2, <1>7, <2>1, FailsAtLeave
    <2>3. stalled \/ dead # {}
      BY <1>2, <1>7 DEF PlaceOf
    <2> QED
      BY <1>1, <1>4, <2>2, <2>3, FailKeeps
  <1> QED
    BY <1>5, <1>6, <1>7

(* The kill of a process keeps the invariant. *)
LEMMA KillKeeps ==
    ASSUME SchedInv, NEW t \in Threads, Kill(t)
    PROVE  SchedInv'
  <1>1. /\ Up /\ dead' = dead \cup {t} /\ s' = s /\ pc' = pc /\ wd' = wd /\ stalled' = stalled
    BY DEF Kill, Alive
  <1>2. /\ Sound(s, {}) /\ PlaceOf(s, t, pc[t], wd[1], stalled, dead)
        /\ stalled \in BOOLEAN /\ dead \subseteq Threads
    BY <1>1, Here
  <1>3. Undisturbed(s, s', {}) /\ Sound(s', {})
    BY <1>1, <1>2 DEF Undisturbed, Drifts
  <1>4. Drifts(s, s', t) /\ dead \subseteq dead'
    BY <1>1, <1>3 DEF Undisturbed
  <1>5. PlaceOf(s', t, pc[t], wd[1], stalled, dead')
    BY <1>2, <1>4, DriftKeepsPlace
  <1>6. PlaceOf(s', t, pc'[t], wd'[1], stalled', dead')
    BY <1>1, <1>5
  <1>7. Around'
    <2>1. dead' \subseteq Threads
      BY <1>1, <1>2
    <2> QED
      BY <1>1, <2>1 DEF SchedInv, Around
  <1>8. Recalls' /\ NoAssertFails'
    BY <1>1 DEF Recalls, NoAssertFails
  <1>9. Undisturbed(s, s', {t})
    BY <1>3 DEF Undisturbed
  <1>10. \A u \in Threads \ {t} : pc'[u] = pc[u] /\ (wd'[1] = u => wd[1] = u)
    BY <1>1
  <1>11. stalled => stalled'
    BY <1>1
  <1> QED
    BY <1>1, <1>3, <1>4, <1>6, <1>7, <1>8, <1>9, <1>10, <1>11, StepKeeps

(* The watchdog's step on a thread, which goes nowhere. *)
LEMMA WatchKeeps ==
    ASSUME SchedInv, Up, NEW t \in Threads, UNCHANGED <<pc, dead>>,
           stalled' \in BOOLEAN, stalled => stalled',
           wd' \in (Threads \X Cores) \cup {NoLeave}, wd' # NoLeave => stalled',
           wd'[1] \in {wd[1], t, None}, Sound(s', {}),
           s'.failed = None => Undisturbed(s, s', {t}) /\ PlaceOf(s', t, pc[t], wd'[1], stalled', dead),
           dead = {} => Remembers(s', InBar, {}), NoAssertFails'
    PROVE  SchedInv'
  <1>1. Around' /\ dead \subseteq dead' /\ InBar' = InBar
    BY DEF SchedInv, Around, InBar
  <1>2. \A u \in Threads \ {t} : pc'[u] = pc[u] /\ (wd'[1] = u => wd[1] = u)
    BY SchedulerAssumption
  <1>3. s'.failed = None => Undisturbed(s, s', {t}) /\ PlaceOf(s', t, pc'[t], wd'[1], stalled', dead')
    OBVIOUS
  <1>4. Recalls'
    BY <1>1 DEF Recalls
  <1> QED
    BY <1>1, <1>2, <1>3, <1>4, StepKeeps

(* The watchdog's choice of a fake leave to end keeps it. *)
LEMMA WatchdogFakeLeaveKeeps ==
    ASSUME SchedInv, WatchdogFakeLeave
    PROVE  SchedInv'
  <1> DEFINE t == Head(s.fakeLeaves)
             y == finishFakeLeave(s, t)
  <1>1. /\ Up /\ wd = NoLeave /\ s.fakeLeaves # << >> /\ s' = y
        /\ wd' = <<t, s.th[t].cid>> /\ stalled' = TRUE /\ UNCHANGED <<pc, dead>>
    BY DEF WatchdogFakeLeave
  <1>2. Sound(s, {}) /\ s.failed = None
    BY <1>1 DEF SchedInv, Up
  <1>3. t \in Threads /\ t \in ToSet(s.fakeLeaves)
    <2>1. s.fakeLeaves \in Seq(Threads)
      BY <1>2, SoundTypes DEF ListsTyped, IsList
    <2>2. 1 \in DOMAIN s.fakeLeaves /\ t = s.fakeLeaves[1]
      BY <1>1, <2>1
    <2> QED
      BY <2>1, <2>2 DEF ToSet
  <1>4. PlaceOf(s, t, pc[t], wd[1], stalled, dead) /\ s.th[t].cid \in Cores
    BY <1>1, <1>2, <1>3, Here, SoundTypes DEF ThreadInfos
  <1>5. s.th[t].state = "RUNNING" /\ pc[t] \in {"syscall", "joining"}
    BY <1>2, <1>3, <1>4 DEF PlaceOf, Sound, QueuesOf
  <1>6. s.th[t].markedForSleep => dead # {} /\ FALSE
    BY <1>4, <1>5 DEF PlaceOf
  <1> HIDE DEF t
  <1>7. /\ Sound(y, {}) /\ y.failed = s.failed /\ y.th = s.th /\ y.bar = s.bar
        /\ y.curThread = s.curThread
        /\ t \notin ToSet(y.fakeLeaves) /\ Undisturbed(s, y, {t})
        /\ \A P, Y : Remembers(s, P, Y) => Remembers(y, P, Y)
    BY <1>2, <1>3, UnfakeSound
  <1> HIDE DEF y
  <1>8. PlaceOf(s', t, pc[t], wd'[1], stalled', dead)
    BY <1>1, <1>5, <1>6, <1>7 DEF PlaceOf
  <1>9. wd' \in (Threads \X Cores) \cup {NoLeave} /\ wd'[1] \in {wd[1], t, None}
    BY <1>1, <1>3, <1>4
  <1>10. dead = {} => Remembers(s', InBar, {})
    BY <1>1, <1>7 DEF SchedInv, Recalls
  <1>11. NoAssertFails'
    BY <1>1, <1>2, <1>7 DEF NoAssertFails
  <1>12. stalled' \in BOOLEAN /\ (stalled => stalled') /\ (wd' # NoLeave => stalled')
    BY <1>1
  <1>13. Sound(s', {}) /\ Undisturbed(s, s', {t})
    BY <1>1, <1>7
  <1> QED
    BY <1>1, <1>3, <1>8, <1>9, <1>10, <1>11, <1>12, <1>13, WatchKeeps

(* The leave the watchdog makes for a thread keeps it, also if the thread is back by then. *)
LEMMA WatchdogLeaveKeeps ==
    ASSUME SchedInv, WatchdogLeave
    PROVE  SchedInv'
  <1> DEFINE t == wd[1]
             c == wd[2]
  <1>1. /\ Up /\ wd # NoLeave /\ s' \in leave(s, t, c) /\ wd' = NoLeave
        /\ UNCHANGED <<pc, dead, stalled>>
    BY DEF WatchdogLeave
  <1>2. t \in Threads /\ c \in Cores /\ stalled /\ stalled' \in BOOLEAN
    BY <1>1 DEF SchedInv, Around
  <1>3. Sound(s, {}) /\ PlaceOf(s, t, pc[t], wd[1], stalled, dead)
    BY <1>1, <1>2, Here
  <1>4. /\ pc[t] \in {"syscall", "joining", "finishLeave", "finishEnd", "gone"}
        /\ t \notin ToSet(s.fakeLeaves)
    BY <1>3 DEF PlaceOf
  <1>5. wd'[1] = None /\ wd'[1] # t
    BY <1>1, <1>2, SchedulerAssumption DEF NoLeave
  <1>6. t \notin InBar /\ None \notin InBar
    BY <1>4, SchedulerAssumption DEF InBar
  <1>7. dead = {} => Remembers(s, InBar, {})
    BY DEF SchedInv, Recalls
  <1> HIDE DEF t, c
  <1>8. \/ Left(s, s', t)
        \/ s' = Fail(s, "leave") /\ (s.th[t].state # "RUNNING" \/ s.th[t].cid # c)
    BY <1>1, <1>2, <1>3, <1>4, LeavesOrFails
  <1>9. CASE Left(s, s', t)
    <2>1. t \notin ToSet(s'.fakeLeaves) /\ ~ s'.th[t].markedForSleep
      BY <1>2, <1>9, NeitherFakedNorMarked DEF Left
    <2>2. PlaceOf(s', t, pc[t], wd'[1], stalled', dead)
      BY <1>1, <1>2, <1>4, <1>5, <2>1 DEF PlaceOf
    <2>3. dead = {} => Remembers(s', InBar, {})
      BY <1>6, <1>7, <1>9 DEF Left
    <2>4. NoAssertFails'
      BY <1>1, <1>2 DEF NoAssertFails
    <2> QED
      BY <1>1, <1>2, <1>5, <1>9, <2>2, <2>3, <2>4, WatchKeeps DEF Left
  <1>10. CASE s' = Fail(s, "leave")
    <2>1. "leave" \in {"leave", "join", "finish"}
      OBVIOUS
    <2>2. /\ Sound(s', {}) /\ s'.failed # None
          /\ \A P, Y : Remembers(s, P, Y) => Remembers(s', P, Y)
      BY <1>3, <1>10, <2>1, FailsAtLeave
    <2>3. dead = {} => Remembers(s', InBar, {})
      BY <1>7, <2>2
    <2>4. NoAssertFails'
      BY <1>1, <1>2 DEF NoAssertFails
    <2> QED
      BY <1>1, <1>2, <1>5, <2>2, <2>3, <2>4, WatchKeeps
  <1> QED
    BY <1>8, <1>9, <1>10

(* When all who hold a core are out of it, nobody runs. *)
LEMMA NobodyRuns ==
    ASSUME NEW z, Sound(z, {}), AllOut(z), NEW c \in Cores
    PROVE  ~ Runs(z, c)
  <1> DEFINE H == {d \in Cores : z.curThread[d] # None}
             q == z.outQueue
             n == Len(q)
             O == {d \in Cores : z.curThread[d] # None /\ z.th[z.curThread[d]].state = "OUT"}
             core(i) == z.th[q[i]].cid
             g == [i \in 1 .. n |-> core(i)]
  <1>1. /\ IsList(q, Threads) /\ None \notin Threads \cup Cores
        /\ \A u \in Threads : z.th[u].cid \in Cores
        /\ \A d \in Cores : z.curThread[d] \in Threads \cup {None}
    BY SoundTypes DEF ListsTyped, ThreadInfos
  <1>2. ToSet(q) = {u \in Threads : z.th[u].state = "OUT"}
    BY DEF Sound, QueuesOf
  <1>3. \A d \in Cores, u \in Threads : z.curThread[d] = u <=> HasCore(z, u) /\ z.th[u].cid = d
    BY DEF Sound, CoresOf
  <1>4. n \in Nat /\ DOMAIN q = 1 .. n
    BY <1>1 DEF IsList
  <1>5. \A i \in 1 .. n : q[i] \in Threads /\ z.th[q[i]].state = "OUT"
    <2>1. \A i \in 1 .. n : q[i] \in ToSet(q)
      BY <1>4 DEF ToSet
    <2> QED
      BY <1>2, <2>1
  <1>6. \A i, j \in 1 .. n : q[i] = q[j] => i = j
    BY <1>1, <1>4 DEF IsList, IsInjective
  <1>7. \A i \in 1 .. n : core(i) \in Cores /\ z.curThread[core(i)] = q[i]
    <2>1. \A u \in Threads : z.th[u].state = "OUT" => z.curThread[z.th[u].cid] = u
      BY <1>1, <1>3, SMTT(20) DEF HasCore
    <2> QED
      BY <1>1, <1>5, <2>1
  <1>8. \A i \in 1 .. n : core(i) \in O
    BY <1>1, <1>5, <1>7
  <1>9. \A d \in O : \E i \in 1 .. n : core(i) = d
    <2>1. TAKE d \in O
    <2> DEFINE u == z.curThread[d]
    <2>2. u \in Threads /\ z.th[u].state = "OUT" /\ z.th[u].cid = d
      BY <1>1, <1>3, <2>1
    <2>3. PICK i \in 1 .. n : q[i] = u
      BY <1>2, <1>4, <2>2 DEF ToSet
    <2> QED
      BY <2>2, <2>3
  <1>10. \A i, j \in 1 .. n : core(i) = core(j) => i = j
    BY <1>6, <1>7
  <1> HIDE DEF core, O, H, n
  <1>11. g \in [1 .. n -> O] /\ \A i \in 1 .. n : g[i] = core(i)
    BY <1>8
  <1> HIDE DEF g
  <1>12. g \in Bijection(1 .. n, O)
    <2>1. \A i, j \in 1 .. n : g[i] = g[j] => i = j
      BY <1>10, <1>11
    <2>2. \A d \in O : \E i \in 1 .. n : g[i] = d
      BY <1>9, <1>11
    <2> QED
      BY <1>11, <2>1, <2>2, Zenon DEF Bijection, Injection, Surjection, IsInjective
  <1>13. Cardinality(O) = n
    <2>1. IsFiniteSet(1 .. n) /\ Cardinality(1 .. n) = n
      <3>1. 1 \in Int /\ n \in Int /\ (IF 1 > n THEN 0 ELSE n - 1 + 1) = n
        BY <1>4
      <3> QED
        BY <3>1, FS_Interval
    <2> QED
      BY <1>12, <2>1, FS_Bijection DEF ExistsBijection
  <1>14. O \subseteq H /\ IsFiniteSet(H) /\ Cardinality(H) = n
    <2>1. IsFiniteSet(H)
      BY SchedulerAssumption, FS_Subset DEF H
    <2> QED
      BY <2>1 DEF O, H, AllOut, n
  <1>15. O = H
    BY <1>13, <1>14, FS_Subset
  <1> QED
    BY <1>15 DEF O, H, Runs

(* The watchdog's own end of a phase keeps it. *)
LEMMA WatchdogTickKeeps ==
    ASSUME SchedInv, WatchdogTick
    PROVE  SchedInv'
  <1>1. /\ Up /\ AllOut(s) /\ s.sleepQueue # << >> /\ s' \in callback(s)
        /\ UNCHANGED <<pc, dead, wd, stalled>>
    BY DEF WatchdogTick
  <1>2. Sound(s, {}) /\ s.failed = None
    BY <1>1 DEF SchedInv, Up
  <1>3. \E t \in Threads : TRUE
    <2>1. s.sleepQueue \in Seq(Threads)
      BY <1>2, SoundTypes DEF ListsTyped, IsList
    <2>2. s.sleepQueue[1] \in Threads
      BY <1>1, <2>1
    <2> QED
      BY <2>2
  <1>4. s.runQueue = << >>
    <2>1. ASSUME s.runQueue # << >>
          PROVE  FALSE
      <3>1. s.runQueue \in Seq(Threads)
        BY <1>2, SoundTypes DEF ListsTyped, IsList
      <3>2. s.runQueue[1] \in Threads /\ s.runQueue[1] \in ToSet(s.runQueue)
        BY <2>1, <3>1 DEF ToSet
      <3>3. PICK c \in Mask[s.runQueue[1]] : c \in Cores
        BY <3>2, SchedulerAssumption
      <3>4. Runs(s, c)
        BY <1>2, <3>2, <3>3 DEF Sound, WorkOf
      <3> QED
        BY <1>1, <1>2, <3>3, <3>4, NobodyRuns
    <2> QED
      BY <2>1
  <1>5. /\ Sound(s', {}) /\ s'.failed = s.failed /\ Undisturbed(s, s', {})
        /\ s.runQueue = << >> => \A P, Y : Remembers(s, P, Y) => Remembers(s', P, Y)
    BY <1>1, <1>2, CallbackSound
  <1>6. PICK t \in Threads : TRUE
    BY <1>3
  <1>7. PlaceOf(s', t, pc[t], wd'[1], stalled', dead)
    BY <1>1, <1>5, StillHere
  <1>8. Undisturbed(s, s', {t})
    BY <1>5 DEF Undisturbed
  <1>9. dead = {} => Remembers(s', InBar, {})
    BY <1>4, <1>5 DEF SchedInv, Recalls
  <1>10. NoAssertFails'
    BY <1>2, <1>5 DEF NoAssertFails
  <1>11. /\ stalled' \in BOOLEAN /\ wd' \in (Threads \X Cores) \cup {NoLeave}
         /\ (wd' # NoLeave => stalled') /\ wd'[1] \in {wd[1], t, None}
    BY <1>1 DEF SchedInv, Around
  <1> QED
    BY <1>1, <1>5, <1>7, <1>8, <1>9, <1>10, <1>11, WatchKeeps

(* At the start all cores are free and no thread exists for the scheduler. *)
LEMMA InitKeeps == Init => SchedInv
  <1> SUFFICES ASSUME Init PROVE SchedInv
    OBVIOUS
  <1> DEFINE c0 == CHOOSE c \in Cores : TRUE
  <1>1. /\ None \notin Threads \cup Cores /\ IsFiniteSet(Cores) /\ c0 \in Cores
        /\ \A t \in Threads : Mask[t] \subseteq Cores
    BY SchedulerAssumption
  <1>2. IsList(SetToSeq(Cores), Cores) /\ ToSet(SetToSeq(Cores)) = Cores
    BY <1>1, ListOfSet
  <1> HIDE DEF c0
  <1>3. /\ s.th = [t \in Threads |->
              [state |-> "NEW", cid |-> c0, handoffThread |-> None,
               futexWord |-> 0, markedForSleep |-> FALSE, left |-> 0]]
        /\ s.curThread = [c \in Cores |-> None] /\ s.freeList = SetToSeq(Cores)
        /\ s.runQueue = << >> /\ s.outQueue = << >> /\ s.sleepQueue = << >> /\ s.fakeLeaves = << >>
        /\ s.bar = [c \in Cores |-> "off"] /\ s.quantum = 0 /\ s.failed = None
    BY DEF Init, c0
  <1>4. \A t \in Threads : /\ s.th[t].state = "NEW" /\ s.th[t].handoffThread = None
                           /\ s.th[t].futexWord = 0 /\ ~ s.th[t].markedForSleep
    BY <1>3
  <1>5. \A c \in Cores : s.curThread[c] = None /\ s.bar[c] = "off"
    BY <1>3
  <1>6. ToSet(s.runQueue) = {} /\ ToSet(s.outQueue) = {} /\ ToSet(s.sleepQueue) = {}
        /\ ToSet(s.fakeLeaves) = {}
    BY <1>3 DEF ToSet
  <1>7. s \in SchedRecords
    <2>1. [state |-> "NEW", cid |-> c0, handoffThread |-> None, futexWord |-> 0,
           markedForSleep |-> FALSE, left |-> 0] \in ThreadInfos
      BY <1>1 DEF ThreadInfos, States
    <2>2. s.th \in [Threads -> ThreadInfos]
      BY <1>3, <2>1
    <2>3. s.curThread \in [Cores -> Threads \cup {None}] /\ s.bar \in [Cores -> {"off", "run", "wait"}]
      BY <1>3
    <2>4. /\ s.freeList \in Seq(Cores) /\ s.runQueue \in Seq(Threads) /\ s.outQueue \in Seq(Threads)
          /\ s.sleepQueue \in Seq(Threads) /\ s.fakeLeaves \in Seq(Threads)
      BY <1>2, <1>3 DEF IsList
    <2>5. s.quantum \in Nat
          /\ s.failed \in {None, "wakeup", "leave", "join", "finish", "schedTick", "callback"}
      BY <1>3
    <2>6. s = [th |-> s.th, curThread |-> s.curThread, freeList |-> s.freeList,
               runQueue |-> s.runQueue, outQueue |-> s.outQueue, sleepQueue |-> s.sleepQueue,
               fakeLeaves |-> s.fakeLeaves, bar |-> s.bar, quantum |-> s.quantum,
               failed |-> s.failed]
      BY DEF Init
    <2> QED
      BY <2>2, <2>3, <2>4, <2>5, <2>6 DEF SchedRecords
  <1>8. Typed(s)
    <2>1. /\ IsInjective(s.runQueue) /\ IsInjective(s.outQueue) /\ IsInjective(s.sleepQueue)
          /\ IsInjective(s.fakeLeaves)
      BY <1>3 DEF IsInjective
    <2>2. IsInjective(s.freeList)
      BY <1>2, <1>3 DEF IsList
    <2> QED
      BY <1>7, <2>1, <2>2 DEF Typed
  <1>9. CoresOf(s, {})
    <2>1. \A c \in Cores, t \in Threads : s.curThread[c] = t <=> HasCore(s, t) /\ s.th[t].cid = c
      BY <1>1, <1>4, <1>5 DEF HasCore
    <2>2. ToSet(s.freeList) = {c \in Cores : s.curThread[c] = None}
      BY <1>2, <1>3, <1>5
    <2> QED
      BY <1>5, <2>1, <2>2 DEF CoresOf, Runs
  <1>10. QueuesOf(s)
    BY <1>4, <1>6 DEF QueuesOf, Sleepers
  <1>11. WordsOf(s) /\ PromisesOf(s) /\ WorkOf(s, {})
    BY <1>4, <1>6 DEF WordsOf, PromisesOf, WorkOf
  <1>12. SleepersInOrder(s)
    BY <1>3 DEF SleepersInOrder
  <1>13. Sound(s, {})
    BY <1>8, <1>9, <1>10, <1>11, <1>12 DEF Sound
  <1>14. pc = [t \in Threads |-> "new"] /\ dead = {} /\ wd = NoLeave /\ stalled = FALSE
    BY DEF Init
  <1>15. Around
    BY <1>14 DEF Around, Pcs
  <1>16. Places
    <2>1. \A t \in Threads : wd[1] # t
      BY <1>1, <1>14 DEF NoLeave
    <2> QED
      BY <1>4, <1>6, <1>14, <2>1 DEF Places, PlaceOf
  <1>17. Recalls
    BY <1>4, <1>5 DEF Recalls, Remembers
  <1>18. NoAssertFails
    BY <1>3 DEF NoAssertFails
  <1> QED
    BY <1>13, <1>15, <1>16, <1>17, <1>18 DEF SchedInv

(* Every call of a thread, and every step of its process, keeps the invariant. *)
LEMMA StepOfThreadKeeps ==
    ASSUME SchedInv, NEW t \in Threads, Step(t)
    PROVE  SchedInv'
  <1>1. CASE start(t)
    BY <1>1, startKeeps
  <1>2. CASE join(t)
    BY <1>2, joinKeeps
  <1>3. CASE Woken(t)
    BY <1>3, WokenKeeps
  <1>4. CASE sync(t)
    BY <1>4, syncKeeps
  <1>5. CASE SyncReturns(t)
    BY <1>5, SyncReturnsKeeps
  <1>6. CASE \E n \in Sleeps : markForSleep(t, n)
    BY <1>6, markForSleepKeeps
  <1>7. CASE \E b \in RealLeaves : syscallLeave(t, b)
    BY <1>7, syscallLeaveKeeps
  <1>8. CASE SyscallReturns(t)
    BY <1>8, SyscallReturnsKeeps
  <1>9. CASE notifySleepEnd(t)
    BY <1>9, notifySleepEndKeeps
  <1>10. CASE finish(t)
    BY <1>10, finishKeeps
  <1>11. CASE FinishLeaves(t)
    BY <1>11, FinishLeavesKeeps
  <1>12. CASE FinishEnds(t)
    BY <1>12, FinishEndsKeeps
  <1>13. CASE Kill(t)
    BY <1>13, KillKeeps
  <1>14. CASE processCleanup(t)
    BY <1>14, processCleanupKeeps
  <1> QED
    BY <1>1, <1>2, <1>3, <1>4, <1>5, <1>6, <1>7, <1>8, <1>9, <1>10, <1>11, <1>12, <1>13, <1>14 DEF Step

(* The scheduler's invariant: every call, phase end and step of the watchdog keeps *)
(* the threads, cores, queues, promises and the barrier in agreement.            *)
THEOREM SchedulerInvariant == Spec => []SchedInv
  <1>1. Init => SchedInv
    BY InitKeeps
  <1>2. SchedInv /\ [Next]_vars => SchedInv'
    <2> SUFFICES ASSUME SchedInv, [Next]_vars PROVE SchedInv'
      OBVIOUS
    <2>1. CASE UNCHANGED vars
      <3>1. s' = s /\ pc' = pc /\ dead' = dead /\ wd' = wd /\ stalled' = stalled
        BY <2>1 DEF vars
      <3>2. InBar' = InBar
        BY <3>1 DEF InBar
      <3>3. Around' /\ Places'
        BY <3>1 DEF SchedInv, Around, Places
      <3>4. Recalls' /\ NoAssertFails' /\ Sound(s', {})
        BY <3>1, <3>2 DEF SchedInv, Recalls, NoAssertFails
      <3> QED
        BY <3>3, <3>4 DEF SchedInv
    <2>2. CASE \E t \in Threads : Step(t)
      BY <2>2, StepOfThreadKeeps
    <2>3. CASE WatchdogFakeLeave
      BY <2>3, WatchdogFakeLeaveKeeps
    <2>4. CASE WatchdogLeave
      BY <2>4, WatchdogLeaveKeeps
    <2>5. CASE WatchdogTick
      BY <2>5, WatchdogTickKeeps
    <2> QED
      BY <2>1, <2>2, <2>3, <2>4, <2>5 DEF Next
  <1> QED
    BY <1>1, <1>2, PTL DEF Spec

(* The invariant implies the type invariant. *)
LEMMA InvariantTypes == SchedInv => TypeOK
  <1> SUFFICES ASSUME SchedInv PROVE TypeOK
    OBVIOUS
  <1>1. Sound(s, {}) /\ Around
    BY DEF SchedInv
  <1>2. /\ s \in SchedRecords /\ ListsTyped(s) /\ \A t \in Threads : s.th[t] \in ThreadInfos
    BY <1>1, SoundTypes
  <1>3. \A t \in Threads :
            LET x == s.th[t]
            IN  /\ x.state \in {"NEW", "STARTED", "RUNNING", "OUT", "BLOCKED", "SLEEPING", "QUEUED"}
                /\ x.cid \in Cores /\ x.handoffThread \in Threads \cup {None}
                /\ x.futexWord \in 0 .. 1 /\ x.left \in Nat
                /\ x.state = "SLEEPING" => x.left > 0
    BY <1>1, <1>2 DEF Sound, WordsOf, ThreadInfos, States
  <1>4. s.curThread \in [Cores -> Threads \cup {None}] /\ s.bar \in [Cores -> {"off", "run", "wait"}]
    BY <1>2 DEF SchedRecords
  <1>5. \A q \in {s.runQueue, s.outQueue, s.sleepQueue, s.fakeLeaves} :
            IsInjective(q) /\ ToSet(q) \subseteq Threads
    BY <1>2 DEF ListsTyped, IsList
  <1> QED
    BY <1>1, <1>3, <1>4, <1>5 DEF TypeOK, Around

(* A thread in simulated code runs, on a core that has not ended its phase. *)
LEMMA InvariantBarrier == SchedInv => BarrierAgrees
  <1> SUFFICES ASSUME SchedInv PROVE BarrierAgrees
    OBVIOUS
  <1>1. Sound(s, {})
    BY DEF SchedInv
  <1>2. \A c \in Cores : s.bar[c] # "off" <=>
            s.curThread[c] # None /\ s.th[s.curThread[c]].state = "RUNNING"
    BY <1>1 DEF Sound, CoresOf, Runs
  <1>3. ASSUME dead = {}, s.failed = None, NEW t \in Threads, pc[t] \in {"app", "marked"}
        PROVE  s.th[t].state = "RUNNING" /\ s.bar[s.th[t].cid] = "run"
    <2>1. s.th[t].state = "RUNNING"
      BY <1>3 DEF SchedInv, Places, PlaceOf
    <2>2. t \notin InBar /\ Remembers(s, InBar, {})
      BY <1>3 DEF SchedInv, InBar, Recalls
    <2> QED
      BY <1>1, <2>1, <2>2, NoPromise
  <1> QED
    BY <1>2, <1>3 DEF BarrierAgrees

(* A core belongs to one thread or is free, once. *)
LEMMA InvariantCores == SchedInv => CoresExact
  <1> SUFFICES ASSUME SchedInv PROVE CoresExact
    OBVIOUS
  <1>1. Sound(s, {})
    BY DEF SchedInv
  <1>2. \A c \in Cores, t \in Threads :
            s.curThread[c] = t <=> s.th[t].state \in {"RUNNING", "OUT"} /\ s.th[t].cid = c
    BY <1>1 DEF Sound, CoresOf, HasCore
  <1>3. IsInjective(s.freeList) /\ ToSet(s.freeList) = {c \in Cores : s.curThread[c] = None}
    BY <1>1 DEF Sound, CoresOf, Typed
  <1> QED
    BY <1>1, <1>2, <1>3 DEF CoresExact, Sound, QueuesOf

(* Threads, cores, queues and barrier agree, and no assertion of the scheduler fails *)
(* before a process is killed or the watchdog ends a fake leave.                  *)
THEOREM SchedulerAgrees == Spec => []CoresAgree
  <1>1. SchedInv => CoresAgree
    BY InvariantTypes, InvariantBarrier, InvariantCores DEF CoresAgree, SchedInv
  <1> QED
    BY <1>1, SchedulerInvariant, PTL

(* A thread that waits for a core is in the run queue or promised one by exactly one *)
(* running thread (schedTick, handoffThread): it is neither forgotten nor woken twice. *)
THEOREM NobodyForgotten == Spec => []NoThreadLost
  <1>1. SchedInv => NoThreadLost
    <2> SUFFICES ASSUME SchedInv, dead = {}, NEW t \in Threads
                 PROVE  /\ s.th[t].state = "QUEUED" =>
                              /\ t \in ToSet(s.runQueue) <=> Promises(t) = {}
                              /\ Cardinality(Promises(t)) <= 1
                              /\ \A u \in Promises(t) : s.th[u].state = "RUNNING" /\ s.th[u].cid \in Mask[t]
                        /\ s.th[t].state # "QUEUED" => Promises(t) = {}
      BY DEF NoThreadLost
    <2>1. Sound(s, {}) /\ Remembers(s, InBar, {}) /\ None \notin Threads
      BY SchedulerAssumption DEF SchedInv, Recalls
    <2>2. ASSUME NEW u \in Promises(t)
          PROVE  /\ s.th[t].state = "QUEUED" /\ t \notin ToSet(s.runQueue) /\ Promises(t) = {u}
                 /\ s.th[u].state = "RUNNING" /\ s.th[u].cid \in Mask[t]
      <3>1. u \in Threads /\ s.th[u].handoffThread = t /\ t # None
        BY <2>1, <2>2 DEF Promises
      <3>2. /\ s.th[t].state = "QUEUED" /\ t \notin ToSet(s.runQueue)
            /\ \A v \in Threads : s.th[v].handoffThread = t => v = u
        BY <2>1, <3>1 DEF Sound, PromisesOf
      <3>3. s.th[u].state = "RUNNING" /\ s.th[u].cid \in Mask[t]
        BY <2>1, <3>1 DEF Remembers
      <3> QED
        BY <3>1, <3>2, <3>3 DEF Promises
    <2>3. s.th[t].state = "QUEUED" => t \in ToSet(s.runQueue) \/ Promises(t) # {}
      BY <2>1 DEF Remembers, Promises
    <2>4. Cardinality(Promises(t)) <= 1
      <3>1. CASE Promises(t) = {}
        <4>1. Cardinality(Promises(t)) = 0
          BY <3>1, FS_EmptySet
        <4> QED
          BY <4>1
      <3>2. CASE Promises(t) # {}
        <4>1. PICK u \in Promises(t) : Promises(t) = {u}
          BY <2>2, <3>2
        <4>2. Cardinality({u}) = 1
          BY FS_Singleton
        <4> QED
          BY <4>1, <4>2
      <3> QED
        BY <3>1, <3>2
    <2> QED
      BY <2>2, <2>3, <2>4
  <1> QED
    BY <1>1, SchedulerInvariant, PTL

(* No thread waits for a core that is free or that a thread out of it holds: what  *)
(* schedTick asserts.                                                             *)
THEOREM NoIdleCoreWanted == Spec => []WorkConserving
  <1>1. SchedInv => WorkConserving
    BY DEF SchedInv, Sound, WorkOf, Runs, WorkConserving
  <1> QED
    BY <1>1, SchedulerInvariant, PTL
=============================================================================
