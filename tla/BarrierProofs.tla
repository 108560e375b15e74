---------------------------- MODULE BarrierProofs ----------------------------
(***************************************************************************)
(* Barrier for every number of cores, every limit on the cores that run in   *)
(* parallel and every cleanup period: the run list and what is cached about  *)
(* it stay exact, no wakeup is lost and every core has its turn.             *)
(***************************************************************************)
EXTENDS Barrier, FiniteSetTheorems, SequenceTheorems, WellFoundedInduction, TLAPS

-----------------------------------------------------------------------------
(* Counting *)

(* In a finite set whose members are ordered, D[i] being the ones before i,  *)
(* the number of members before one tells it apart, and every number below   *)
(* the size of the set is taken.                                             *)
LEMMA Ranks ==
    ASSUME NEW T, IsFiniteSet(T), NEW D \in [T -> SUBSET T],
           \A i \in T : i \notin D[i],
           \A i, k \in T : i # k => \/ i \in D[k] /\ D[i] \subseteq D[k]
                                    \/ k \in D[i] /\ D[k] \subseteq D[i]
    PROVE  /\ \A i \in T : Cardinality(D[i]) \in 0..Cardinality(T)-1
           /\ \A i, k \in T : i \in D[k] => Cardinality(D[i]) < Cardinality(D[k])
           /\ \A i, k \in T : Cardinality(D[i]) = Cardinality(D[k]) => i = k
           /\ \A r \in 0..Cardinality(T)-1 : \E i \in T : Cardinality(D[i]) = r
  <1> DEFINE n == Cardinality(T)
             f == [i \in T |-> Cardinality(D[i])]
  <1>1. n \in Nat /\ \A i \in T : IsFiniteSet(D[i]) /\ Cardinality(D[i]) \in Nat
    BY FS_CardinalityType, FS_Subset
  <1>2. ASSUME NEW i \in T, NEW k \in T, i \in D[k]
        PROVE  Cardinality(D[i]) < Cardinality(D[k])
    <2>1. D[i] \subseteq D[k] \ {i}
      BY <1>2
    <2>2. IsFiniteSet(D[k] \ {i}) /\ Cardinality(D[k] \ {i}) = Cardinality(D[k]) - 1
      BY <1>1, <1>2, FS_RemoveElement
    <2>3. Cardinality(D[i]) <= Cardinality(D[k] \ {i})
      BY <2>1, <2>2, FS_Subset
    <2> QED
      BY <1>1, <2>2, <2>3
  <1>3. ASSUME NEW i \in T, NEW k \in T, Cardinality(D[i]) = Cardinality(D[k])
        PROVE  i = k
    BY <1>1, <1>2, <1>3
  <1>4. ASSUME NEW i \in T PROVE Cardinality(D[i]) \in 0..n-1
    <2>1. D[i] \subseteq T \ {i}
      OBVIOUS
    <2>2. IsFiniteSet(T \ {i}) /\ Cardinality(T \ {i}) = n - 1
      BY FS_RemoveElement
    <2>3. Cardinality(D[i]) <= Cardinality(T \ {i})
      BY <2>1, <2>2, FS_Subset
    <2> QED
      BY <1>1, <2>2, <2>3
  <1>5. f \in Injection(T, 0..n-1)
    BY <1>3, <1>4 DEF Injection, IsInjective
  <1>6. IsFiniteSet(0..n-1) /\ Cardinality(0..n-1) = n
    BY <1>1, FS_Interval
  <1>7. f \in Surjection(T, 0..n-1)
    <2> HIDE DEF f
    <2> QED
      BY <1>5, <1>6, FS_Injection
  <1>8. \A r \in 0..n-1 : \E i \in T : f[i] = r
    <2> HIDE DEF f
    <2> QED
      BY <1>7 DEF Surjection
  <1> QED
    BY <1>2, <1>3, <1>4, <1>8

(* The image of a finite set under a function that is one to one on it is    *)
(* finite and as large.                                                      *)
LEMMA ImageSize ==
    ASSUME NEW S, IsFiniteSet(S), NEW f, \A x, y \in S : f[x] = f[y] => x = y
    PROVE  /\ IsFiniteSet({f[x] : x \in S})
           /\ Cardinality({f[x] : x \in S}) = Cardinality(S)
  <1> DEFINE T == {f[x] : x \in S}
             g == [x \in S |-> f[x]]
  <1>1. g \in Injection(S, T)
    BY DEF Injection, IsInjective
  <1>2. g \in Surjection(S, T)
    BY DEF Surjection
  <1>3. ExistsBijection(S, T)
    BY <1>1, <1>2 DEF ExistsBijection, Bijection
  <1> HIDE DEF T
  <1>4. IsFiniteSet(T) /\ Cardinality(T) = Cardinality(S)
    BY <1>3, FS_Bijection
  <1> QED
    BY <1>4 DEF T

(* There are m numbers from 1 to m. *)
LEMMA UpTo ==
    ASSUME NEW m \in Nat
    PROVE  IsFiniteSet(1..m) /\ Cardinality(1..m) = m
  BY FS_Interval

(* A set of numbers among 1..n has a greatest member, and Max is it. *)
LEMMA MaxIsGreatest ==
    ASSUME NEW n \in Nat, NEW S \in SUBSET (1..n), S # {}
    PROVE  Max(S) \in S /\ \A k \in S : k <= Max(S)
  <1> DEFINE U == {n - i : i \in S}
  <1>1. U \in SUBSET Nat /\ U # {}
    <2>1. \A i \in S : n - i \in Nat
      OBVIOUS
    <2> QED
      BY <2>1
  <1>2. PICK R : /\ IsWellFoundedOn(R, Nat)
                 /\ \A x, y \in Nat : y < x => <<y, x>> \in R
    <2>1. IsWellFoundedOn(OpToRel(<, Nat), Nat)
      BY NatLessThanWellFounded, Zenon
    <2>2. \A x, y \in Nat : y < x => <<y, x>> \in OpToRel(<, Nat)
      BY DEF OpToRel
    <2> QED
      BY <2>1, <2>2, Zenon
  <1>3. PICK u \in U : \A y \in U : ~ (<<y, u>> \in R)
    <2> HIDE DEF U
    <2> QED
      BY <1>1, <1>2, WFMin, Zenon
  <1>4. \A y \in U : ~ (y < u)
    BY <1>1, <1>2, <1>3
  <1>5. PICK m \in S : u = n - m
    BY <1>3
  <1>6. \A k \in S : k <= m
    BY <1>4, <1>5
  <1> QED
    BY <1>6 DEF Max

-----------------------------------------------------------------------------
(* The inductive invariant, as a statement about a value b of the barrier,   *)
(* the cores r that have had their turn and what is known (x) of lastIdx: it *)
(* also holds between the steps of tryWakeNext.                              *)

Bars == [state : [Cids -> States], futexWord : [Cids -> {0, 1}],
         lastIdx : [Cids -> Positions], runList : Seq(Cids),
         curThreadIdx : Nat, runningThreads : Nat, leftThreads : Nat,
         phaseCount : 0..CleanupPeriod-1]

IdxMarks == [Cids -> {"set", "unset", "stale"}]

(* The list holds the members of T, each once. *)
Listed(l, T) ==
    /\ l \in Seq(Cids)
    /\ \A i, j \in 1..Len(l) : l[i] = l[j] => i = j
    /\ \A t : t \in T <=> \E i \in 1..Len(l) : l[i] = t

Online(b) == {t \in Cids : b.state[t] # "OFFLINE"}

(* The counters are exact and a futex word says whether its core may run. *)
Counters(b) ==
    /\ b.runningThreads = Cardinality(InState(b, "RUNNING"))
    /\ b.runningThreads <= parallelThreads
    /\ b.leftThreads = Cardinality(InState(b, "LEFT"))
    /\ \A t \in Cids : /\ b.state[t] = "WAITING" => b.futexWord[t] = 1
                       /\ b.state[t] = "RUNNING" => b.futexWord[t] = 0

(* The part of the list that the phase has passed holds the cores that have  *)
(* had their turn, the rest those that have not.                             *)
Turns(b, r, x) ==
    /\ \A i \in 1..Len(b.runList) :
          LET t == b.runList[i]
          IN  /\ b.state[t] = "WAITING" /\ i > b.curThreadIdx => t \notin r
              /\ b.state[t] = "WAITING" /\ i <= b.curThreadIdx
                   => t \in r \/ x[t] = "stale"
              /\ b.state[t] = "RUNNING" => i <= b.curThreadIdx /\ t \in r
    /\ \A t \in Cids : b.state[t] \in {"LEFT", "OFFLINE"} => t \notin r

(* lastIdx is the place of a core once it has been set, as it is while the   *)
(* core runs.                                                                *)
Homes(b, x) ==
    /\ \A t \in Online(b) : x[t] = "set"
          => b.lastIdx[t] \in 1..Len(b.runList) /\ b.runList[b.lastIdx[t]] = t
    /\ \A t \in InState(b, "LEFT") : x[t] # "unset"
    /\ \A t \in InState(b, "RUNNING") : x[t] = "set"

Sound(b, r, x) ==
    /\ b \in Bars /\ x \in IdxMarks
    /\ b.curThreadIdx <= Len(b.runList)
    /\ Listed(b.runList, Online(b))
    /\ Counters(b)
    /\ Turns(b, r, x)
    /\ Homes(b, x)

(* Where a thread is follows the state of its core. *)
Whereabouts ==
    \A t \in Cids :
       /\ where[t] = "away" => bar.state[t] \in {"OFFLINE", "LEFT"}
       /\ where[t] = "blocked" => bar.state[t] \in {"WAITING", "RUNNING"}
       /\ where[t] = "running" => bar.state[t] = "RUNNING"

IInv ==
    /\ Sound(bar, ran, idx) /\ Whereabouts
    /\ where \in [Cids -> {"away", "blocked", "running"}]
    /\ ran \subseteq Cids /\ failed \in BOOLEAN

-----------------------------------------------------------------------------
(* Lists *)

(* A list without repetition is no longer than there are cores. *)
LEMMA ListedLen ==
    ASSUME NEW l, NEW T, Listed(l, T)
    PROVE  /\ Len(l) \in Nat /\ DOMAIN l = 1..Len(l)
           /\ \A i \in 1..Len(l) : l[i] \in Cids /\ l[i] \in T /\ i \in Positions
           /\ T \subseteq Cids /\ IsFiniteSet(T) /\ Cardinality(T) = Len(l)
  <1>1. Len(l) \in Nat /\ DOMAIN l = 1..Len(l) /\ \A i \in 1..Len(l) : l[i] \in Cids
    BY LenProperties, ElementOfSeq DEF Listed
  <1>2. T = {l[i] : i \in 1..Len(l)}
    BY DEF Listed
  <1>3. IsFiniteSet(1..Len(l)) /\ Cardinality(1..Len(l)) = Len(l)
    BY <1>1, FS_Interval
  <1>4. IsFiniteSet(T) /\ Cardinality(T) = Len(l)
    BY <1>2, <1>3, ImageSize DEF Listed
  <1>5. T \in SUBSET Cids
    BY <1>1, <1>2
  <1>6. Len(l) <= Cardinality(Cids) /\ Cardinality(Cids) \in Nat
    BY <1>4, <1>5, FS_Subset, FS_CardinalityType, BarrierAssumption
  <1>7. \A i \in 1..Len(l) : l[i] \in T /\ i \in Positions
    BY <1>1, <1>2, <1>6 DEF Positions
  <1> QED
    BY <1>1, <1>4, <1>5, <1>7

(* PosOf is the place of a core that is in the list. *)
LEMMA PosOfIs ==
    ASSUME NEW l, NEW T, Listed(l, T), NEW t \in T
    PROVE  /\ PosOf(l, t) \in 1..Len(l) /\ PosOf(l, t) \in Positions
           /\ l[PosOf(l, t)] = t
           /\ \A i \in 1..Len(l) : l[i] = t => PosOf(l, t) = i
  <1>1. DOMAIN l = 1..Len(l) /\ \A i \in 1..Len(l) : i \in Positions
    BY ListedLen
  <1>2. \E i \in DOMAIN l : l[i] = t
    BY <1>1 DEF Listed
  <1>3. PosOf(l, t) \in DOMAIN l /\ l[PosOf(l, t)] = t
    BY <1>2 DEF PosOf
  <1> QED
    BY <1>1, <1>3 DEF Listed

(* The cores in a state are finitely many. *)
LEMMA InStateFinite ==
    ASSUME NEW b, NEW s
    PROVE  /\ IsFiniteSet(InState(b, s)) /\ Cardinality(InState(b, s)) \in Nat
           /\ InState(b, s) \subseteq Cids
  <1>1. InState(b, s) \in SUBSET Cids
    BY DEF InState
  <1> QED
    BY <1>1, FS_Subset, FS_CardinalityType, BarrierAssumption

-----------------------------------------------------------------------------
(* checkRunList *)

(* The waiting cores beyond the current position are woken in list order,    *)
(* and as many as there is room for.                                         *)
LEMMA WokenIs ==
    ASSUME NEW b \in Bars, b.runningThreads <= parallelThreads,
           Len(b.runList) \in Nat
    PROVE  /\ Room(b) \in Nat
           /\ Woken(b) \subseteq WaitingAt(b) /\ WaitingAt(b) \subseteq 1..Len(b.runList)
           /\ IsFiniteSet(Woken(b)) /\ Cardinality(Woken(b)) <= Room(b)
           /\ \A i \in WaitingAt(b), k \in Woken(b) : i < k => i \in Woken(b)
           /\ Cardinality(Woken(b)) # Room(b) => Woken(b) = WaitingAt(b)
  <1> DEFINE W == WaitingAt(b)
             K == Woken(b)
             m == Room(b)
             D == [i \in W |-> {j \in W : j < i}]
  <1>1. m \in Nat
    BY BarrierAssumption DEF Room, Bars
  <1>2. W \subseteq 1..Len(b.runList) /\ IsFiniteSet(W)
    <2>1. W \in SUBSET (1..Len(b.runList))
      BY DEF WaitingAt, Bars
    <2>2. IsFiniteSet(1..Len(b.runList))
      BY FS_Interval
    <2> QED
      BY <2>1, <2>2, FS_Subset
  <1>3. K = {i \in W : Cardinality(D[i]) < m}
    BY DEF Woken
  <1>4. W \subseteq Nat
    BY <1>2
  <1> HIDE DEF W, K, m
  <1>5. /\ \A i \in W : Cardinality(D[i]) \in 0..Cardinality(W)-1
        /\ \A i, k \in W : i \in D[k] => Cardinality(D[i]) < Cardinality(D[k])
        /\ \A i, k \in W : Cardinality(D[i]) = Cardinality(D[k]) => i = k
        /\ \A r \in 0..Cardinality(W)-1 : \E i \in W : Cardinality(D[i]) = r
    <2>1. D \in [W -> SUBSET W] /\ \A i \in W : i \notin D[i]
      BY <1>4
    <2>2. \A i, k \in W : i # k => \/ i \in D[k] /\ D[i] \subseteq D[k]
                                   \/ k \in D[i] /\ D[k] \subseteq D[i]
      <3>1. ASSUME NEW i \in W, NEW k \in W, i < k
            PROVE  i \in D[k] /\ D[i] \subseteq D[k]
        <4>1. D[i] = {j \in W : j < i} /\ D[k] = {j \in W : j < k}
          OBVIOUS
        <4>2. \A j \in W : j < i => j < k
          BY <1>4, <3>1
        <4> HIDE DEF D
        <4> QED
          BY <3>1, <4>1, <4>2
      <3>2. \A i, k \in W : i # k => i < k \/ k < i
        BY <1>4
      <3> QED
        BY <3>1, <3>2
    <2> HIDE DEF D
    <2> QED
      BY <1>2, <2>1, <2>2, Ranks
  <1>6. Cardinality(W) \in Nat
    BY <1>2, FS_CardinalityType
  <1> DEFINE f == [i \in K |-> Cardinality(D[i])]
  <1>7. K \subseteq W /\ IsFiniteSet(K) /\ Cardinality(K) \in Nat
    <2>1. K \in SUBSET W
      BY <1>3
    <2> QED
      BY <1>2, <2>1, FS_Subset, FS_CardinalityType
  <1>8. \A i \in W, k \in K : i < k => i \in K
    <2> SUFFICES ASSUME NEW i \in W, NEW k \in K, i < k PROVE i \in K
      OBVIOUS
    <2>1. i \in D[k]
      BY <1>7
    <2>2. Cardinality(D[i]) < Cardinality(D[k]) /\ Cardinality(D[k]) < m
      BY <1>3, <1>5, <1>7, <2>1
    <2>3. Cardinality(D[i]) \in Nat /\ Cardinality(D[k]) \in Nat
      BY <1>5, <1>7
    <2> HIDE DEF D
    <2> QED
      BY <1>1, <1>3, <2>2, <2>3
  <1> HIDE DEF D
  <1>9. f \in Injection(K, 0..m-1)
    <2>1. \A i \in K : f[i] \in 0..m-1
      BY <1>1, <1>3, <1>5, <1>7
    <2>2. \A i, k \in K : f[i] = f[k] => i = k
      BY <1>5, <1>7
    <2> QED
      BY <2>1, <2>2 DEF Injection, IsInjective
  <1>10. IsFiniteSet(0..m-1) /\ Cardinality(0..m-1) = m
    <2>1. 0 \in Int /\ m - 1 \in Int
      BY <1>1
    <2>2. /\ IsFiniteSet(0..m-1)
          /\ Cardinality(0..m-1) = IF 0 > m-1 THEN 0 ELSE (m-1)-0+1
      BY <2>1, FS_Interval
    <2> QED
      BY <1>1, <2>2
  <1>11. Cardinality(K) <= m
    <2> HIDE DEF f
    <2> QED
      BY <1>9, <1>10, FS_Injection
  <1>12. ASSUME Cardinality(K) # m PROVE K = W
    <2> SUFFICES ASSUME NEW i \in W, i \notin K PROVE FALSE
      BY <1>7
    <2>1. m <= Cardinality(D[i]) /\ Cardinality(D[i]) \in 0..Cardinality(W)-1
      BY <1>1, <1>3, <1>5
    <2>2. \A r \in 0..m-1 : \E k \in K : f[k] = r
      <3> SUFFICES ASSUME NEW r \in 0..m-1 PROVE \E k \in K : f[k] = r
        OBVIOUS
      <3>1. r \in 0..Cardinality(W)-1
        BY <1>1, <1>6, <2>1
      <3>2. PICK k \in W : Cardinality(D[k]) = r
        BY <1>5, <3>1
      <3>3. k \in K
        BY <1>1, <1>3, <3>2
      <3> QED
        BY <3>2, <3>3
    <2>3. f \in Surjection(K, 0..m-1)
      BY <1>9, <2>2 DEF Surjection, Injection
    <2>4. Cardinality(K) = m
      <3> HIDE DEF f
      <3> QED
        BY <1>9, <1>10, <2>3, FS_Injection
    <2> QED
      BY <1>12, <2>4
  <1> QED
    BY <1>1, <1>2, <1>7, <1>8, <1>11, <1>12 DEF W, K, m

(* The marks after the cores of w have been woken. *)
Marked(x, w) == [t \in Cids |-> IF t \in w THEN "set" ELSE x[t]]

(* The cores that one call of tryWakeNext, or a part of it, has woken. *)
Started(b, c) == {t \in Cids : b.state[t] # "RUNNING" /\ c.state[t] = "RUNNING"}

(* checkRunList wakes cores that wait for their turn, and no other.          *)
LEMMA CheckRunList ==
    ASSUME NEW b, NEW r, NEW x, Sound(b, r, x), NEW c, c = checkRunList(b)
    PROVE  LET w == Started(b, c)
           IN  /\ Sound(c, r \cup w, Marked(x, w))
               /\ c.phaseCount = b.phaseCount
               /\ \A t \in w : b.state[t] = "WAITING" /\ t \notin r
               /\ \A t \in Cids \ w : c.state[t] = b.state[t]
  <1> DEFINE l == b.runList
             n == Len(l)
             K == Woken(b)
             w == {l[i] : i \in K}
  <1>1. /\ b \in Bars /\ x \in IdxMarks /\ Listed(l, Online(b)) /\ Counters(b)
        /\ b.curThreadIdx \in Nat /\ b.curThreadIdx <= n
    BY DEF Sound, Bars
  <1>2. /\ n \in Nat /\ DOMAIN l = 1..n
        /\ \A i \in 1..n : l[i] \in Cids /\ l[i] \in Online(b) /\ i \in Positions
    BY <1>1, ListedLen
  <1>3. /\ Room(b) \in Nat
        /\ K \subseteq WaitingAt(b) /\ WaitingAt(b) \subseteq 1..n
        /\ IsFiniteSet(K) /\ Cardinality(K) <= Room(b)
        /\ \A i \in WaitingAt(b), k \in K : i < k => i \in K
        /\ Cardinality(K) # Room(b) => K = WaitingAt(b)
    BY <1>1, <1>2, WokenIs DEF Counters
  <1>4. \A i \in 1..n : i \in WaitingAt(b) <=> i > b.curThreadIdx /\ b.state[l[i]] = "WAITING"
    BY <1>1, <1>2 DEF WaitingAt
  <1>5. /\ c.state = [t \in Cids |-> IF t \in w THEN "RUNNING" ELSE b.state[t]]
        /\ c.futexWord = [t \in Cids |-> IF t \in w THEN 0 ELSE b.futexWord[t]]
        /\ c.lastIdx = [t \in Cids |-> IF t \in w THEN PosOf(l, t) ELSE b.lastIdx[t]]
        /\ c.curThreadIdx = IF Room(b) <= 0 THEN b.curThreadIdx
                            ELSE IF Cardinality(K) = Room(b) THEN Max(K) ELSE n
        /\ c.runningThreads = b.runningThreads + Cardinality(w)
        /\ c.runList = l /\ c.leftThreads = b.leftThreads /\ c.phaseCount = b.phaseCount
        /\ c = [state |-> c.state, futexWord |-> c.futexWord, lastIdx |-> c.lastIdx,
                runList |-> c.runList, curThreadIdx |-> c.curThreadIdx,
                runningThreads |-> c.runningThreads, leftThreads |-> c.leftThreads,
                phaseCount |-> c.phaseCount]
    BY <1>1 DEF checkRunList, Bars
  <1> HIDE DEF K, n, l
  <1>6. \A i \in K : i \in 1..n /\ i > b.curThreadIdx /\ b.state[l[i]] = "WAITING"
    BY <1>3, <1>4
  <1>7. w \in SUBSET Cids /\ \A t \in w : b.state[t] = "WAITING" /\ t \in Online(b)
    BY <1>2, <1>6
  <1>8. Started(b, c) = w
    BY <1>5, <1>7 DEF Started
  <1>9. IsFiniteSet(w) /\ Cardinality(w) = Cardinality(K)
    BY <1>1, <1>3, <1>6, ImageSize DEF Listed, l, n
  <1>10. \A i \in 1..n : l[i] \in w <=> i \in K
    BY <1>1, <1>6 DEF Listed, l, n
  <1>11. /\ c.curThreadIdx \in Nat /\ c.curThreadIdx <= n
         /\ b.curThreadIdx <= c.curThreadIdx
         /\ \A i \in K : i <= c.curThreadIdx
         /\ \A i \in WaitingAt(b) : i <= c.curThreadIdx => i \in K
    <2>1. CASE Room(b) <= 0
      <3>1. Cardinality(K) = 0
        BY <1>3, <2>1, FS_CardinalityType
      <3>2. K = {}
        BY <1>3, <3>1, FS_EmptySet
      <3> QED
        BY <1>1, <1>3, <1>4, <1>5, <2>1, <3>2 DEF n
    <2>2. CASE ~(Room(b) <= 0) /\ Cardinality(K) = Room(b)
      <3>1. K # {}
        BY <1>3, <2>2, FS_EmptySet
      <3>2. K \in SUBSET (1..n)
        BY <1>3
      <3>3. Max(K) \in K /\ \A k \in K : k <= Max(K)
        BY <1>2, <3>1, <3>2, MaxIsGreatest DEF n
      <3>4. c.curThreadIdx = Max(K)
        BY <1>5, <2>2
      <3>5. b.curThreadIdx < Max(K) /\ Max(K) \in 1..n
        BY <1>1, <1>6, <3>2, <3>3
      <3>6. \A i \in WaitingAt(b) : i <= Max(K) => i \in K
        <4>1. \A i \in WaitingAt(b) : i \in Nat
          BY <1>3
        <4> QED
          BY <1>3, <3>3, <3>5, <4>1
      <3> QED
        BY <1>1, <1>2, <3>3, <3>4, <3>5, <3>6 DEF n
    <2>3. CASE ~(Room(b) <= 0) /\ Cardinality(K) # Room(b)
      <3>1. c.curThreadIdx = n /\ K = WaitingAt(b)
        BY <1>3, <1>5, <2>3
      <3> QED
        BY <1>1, <1>2, <1>6, <3>1 DEF n
    <2> QED
      BY <2>1, <2>2, <2>3
  <1>12. Cardinality(w) \in Nat /\ b.runningThreads + Cardinality(w) <= parallelThreads
    <2>1. Cardinality(w) \in Nat
      BY <1>9, FS_CardinalityType
    <2> QED
      BY <1>1, <1>3, <1>9, <2>1, BarrierAssumption DEF Room, Bars
  <1> HIDE DEF w
  <1>13. c \in Bars
    <2>1. c.state \in [Cids -> States]
      BY <1>1, <1>5 DEF Bars, States
    <2>2. c.futexWord \in [Cids -> {0, 1}]
      BY <1>1, <1>5 DEF Bars
    <2>3. \A t \in w : PosOf(l, t) \in Positions
      BY <1>1, <1>7, PosOfIs
    <2>4. c.lastIdx \in [Cids -> Positions]
      BY <1>1, <1>5, <2>3 DEF Bars
    <2>5. c.runningThreads \in Nat
      BY <1>1, <1>5, <1>12 DEF Bars
    <2>6. c.runList \in Seq(Cids) /\ c.leftThreads \in Nat /\ c.phaseCount \in 0..CleanupPeriod-1
      BY <1>1, <1>5 DEF Bars, l
    <2> QED
      BY <1>5, <1>11, <2>1, <2>2, <2>4, <2>5, <2>6 DEF Bars
  <1>14. Online(c) = Online(b)
    BY <1>5, <1>7 DEF Online
  <1>15. Counters(c)
    <2>1. InState(c, "RUNNING") = InState(b, "RUNNING") \cup w
      BY <1>5, <1>7 DEF InState
    <2>2. InState(b, "RUNNING") \cap w = {}
      BY <1>7 DEF InState
    <2>3. InState(c, "LEFT") = InState(b, "LEFT")
      BY <1>5, <1>7 DEF InState
    <2> DEFINE R == InState(b, "RUNNING")
    <2>4. IsFiniteSet(R) /\ Cardinality(R) \in Nat
      BY InStateFinite
    <2>5. Cardinality(R \cup w) = Cardinality(R) + Cardinality(w)
      <3>1. Cardinality(R \cup w) = Cardinality(R) + Cardinality(w) - Cardinality(R \cap w)
        BY <1>9, <2>4, FS_Union
      <3>2. Cardinality(R \cap w) = 0
        BY <2>2, FS_EmptySet
      <3> QED
        BY <1>12, <2>4, <3>1, <3>2
    <2>6. c.runningThreads = Cardinality(InState(c, "RUNNING"))
      BY <1>1, <1>5, <2>1, <2>5 DEF Counters
    <2>7. \A t \in Cids : /\ c.state[t] = "WAITING" => c.futexWord[t] = 1
                          /\ c.state[t] = "RUNNING" => c.futexWord[t] = 0
      BY <1>1, <1>5 DEF Counters
    <2>8. c.leftThreads = Cardinality(InState(c, "LEFT"))
      BY <1>1, <1>5, <2>3 DEF Counters
    <2> QED
      BY <1>5, <1>12, <2>6, <2>7, <2>8 DEF Counters
  <1>16. \A t \in w : t \notin r
    <2>1. \A i \in K : l[i] \notin r
      BY <1>6 DEF Sound, Turns, l, n
    <2> QED
      BY <2>1 DEF w
  <1>17. Turns(c, r \cup w, Marked(x, w))
    <2> DEFINE y == Marked(x, w)
    <2>1. ASSUME NEW i \in 1..n, NEW t, t = l[i]
          PROVE  /\ c.state[t] = "WAITING" /\ i > c.curThreadIdx => t \notin r \cup w
                 /\ c.state[t] = "WAITING" /\ i <= c.curThreadIdx
                      => t \in r \cup w \/ y[t] = "stale"
                 /\ c.state[t] = "RUNNING" => i <= c.curThreadIdx /\ t \in r \cup w
      <3>1. /\ b.state[t] = "WAITING" /\ i > b.curThreadIdx => t \notin r
            /\ b.state[t] = "WAITING" /\ i <= b.curThreadIdx => t \in r \/ x[t] = "stale"
            /\ b.state[t] = "RUNNING" => i <= b.curThreadIdx /\ t \in r
        BY <2>1 DEF Sound, Turns, l, n
      <3>2. t \in Cids /\ i \in Nat
        BY <1>2, <2>1
      <3>3. CASE t \in w
        <4>1. c.state[t] = "RUNNING" /\ i <= c.curThreadIdx
          BY <1>5, <1>10, <1>11, <2>1, <3>2, <3>3
        <4> QED
          BY <3>3, <4>1
      <3>4. CASE t \notin w
        <4>1. c.state[t] = b.state[t] /\ y[t] = x[t]
          BY <1>5, <3>2, <3>4 DEF Marked
        <4>2. c.state[t] = "WAITING" /\ i <= c.curThreadIdx => i <= b.curThreadIdx
          <5>1. SUFFICES ASSUME b.state[l[i]] = "WAITING", i <= c.curThreadIdx,
                                i > b.curThreadIdx
                         PROVE  FALSE
            BY <1>1, <2>1, <3>2, <4>1
          <5>2. i \in K
            BY <1>4, <1>11, <5>1
          <5> QED
            BY <1>10, <2>1, <3>4, <5>2
        <4> QED
          BY <1>1, <1>11, <3>1, <3>2, <3>4, <4>1, <4>2
      <3> QED
        BY <3>3, <3>4
    <2>2. \A t \in Cids : c.state[t] \in {"LEFT", "OFFLINE"} => t \notin r \cup w
      BY <1>5 DEF Sound, Turns
    <2> QED
      BY <1>5, <2>1, <2>2 DEF Turns, n
  <1>18. Homes(c, Marked(x, w))
    <2>1. ASSUME NEW t \in Online(c), Marked(x, w)[t] = "set"
          PROVE  c.lastIdx[t] \in 1..Len(c.runList) /\ c.runList[c.lastIdx[t]] = t
      <3>1. t \in Cids /\ t \in Online(b)
        BY <1>14 DEF Online
      <3>2. CASE t \in w
        BY <1>1, <1>5, <3>1, <3>2, PosOfIs
      <3>3. CASE t \notin w
        <4>1. /\ c.state[t] = b.state[t] /\ Marked(x, w)[t] = x[t]
              /\ c.lastIdx[t] = b.lastIdx[t]
          BY <1>5, <3>1, <3>3 DEF Marked
        <4> QED
          BY <1>5, <2>1, <3>1, <4>1 DEF Sound, Homes, l
      <3> QED
        BY <3>2, <3>3
    <2>2. \A t \in InState(c, "LEFT") : Marked(x, w)[t] # "unset"
      BY <1>5 DEF Sound, Homes, Marked, InState
    <2>3. \A t \in InState(c, "RUNNING") : Marked(x, w)[t] = "set"
      BY <1>5 DEF Sound, Homes, Marked, InState
    <2> QED
      BY <2>1, <2>2, <2>3 DEF Homes
  <1>19. Marked(x, w) \in IdxMarks
    BY <1>1 DEF Marked, IdxMarks
  <1>20. Sound(c, r \cup w, Marked(x, w))
    BY <1>1, <1>5, <1>11, <1>13, <1>14, <1>15, <1>17, <1>18, <1>19 DEF Sound, n
  <1> QED
    BY <1>5, <1>7, <1>8, <1>16, <1>20

-----------------------------------------------------------------------------
(* checkEndPhase *)

(* No core has started in the phase yet. *)
Fresh(b) == b.curThreadIdx = 0 /\ InState(b, "RUNNING") = {}

(* At the start of a phase nobody has had a turn and nobody is passed by. *)
LEMMA FreshTurns ==
    ASSUME NEW b \in Bars, Listed(b.runList, Online(b)), Fresh(b), NEW x
    PROVE  Turns(b, {}, x)
  <1>1. \A i \in 1..Len(b.runList) : b.runList[i] \in Cids /\ i > 0 /\ ~(i <= 0)
    BY ListedLen
  <1>2. \A t \in Cids : b.state[t] # "RUNNING"
    BY DEF Fresh, InState
  <1> QED
    BY <1>1, <1>2 DEF Turns, Fresh

(* The number of a phase differs from that of the one before. *)
LEMMA NextPhaseCount ==
    ASSUME NEW p \in 0..CleanupPeriod-1
    PROVE  (p + 1) % CleanupPeriod \in 0..CleanupPeriod-1 \ {p}
  <1>1. CleanupPeriod \in Nat /\ CleanupPeriod >= 2
    BY BarrierAssumption
  <1>2. CASE p + 1 = CleanupPeriod
    <2>1. (p + 1) % CleanupPeriod = 0
      BY <1>1, <1>2, Z3
    <2> QED
      BY <1>1, <1>2, <2>1
  <1>3. CASE p + 1 < CleanupPeriod
    <2>1. (p + 1) % CleanupPeriod = p + 1
      BY <1>1, <1>3, Z3
    <2> QED
      BY <1>1, <1>3, <2>1
  <1> QED
    BY <1>1, <1>2, <1>3

(* When a phase is over every waiting core has had its turn, and the next    *)
(* one starts from the head of the list.                                     *)
LEMMA NewPhaseSound ==
    ASSUME NEW b, NEW r, NEW x, Sound(b, r, x), PhaseOver(b), NEW c, c = NewPhase(b)
    PROVE  /\ Sound(c, {}, x) /\ Fresh(c)
           /\ c.phaseCount # b.phaseCount
           /\ c.state = b.state
           /\ \A t \in Cids : /\ b.state[t] = "WAITING" => t \in r \/ x[t] = "stale"
                              /\ b.state[t] # "RUNNING"
  <1>1. /\ b \in Bars /\ x \in IdxMarks /\ Listed(b.runList, Online(b)) /\ Counters(b)
        /\ Turns(b, r, x) /\ Homes(b, x)
    BY DEF Sound
  <1>2. /\ c.curThreadIdx = 0 /\ c.phaseCount = (b.phaseCount + 1) % CleanupPeriod
        /\ c.state = b.state /\ c.futexWord = b.futexWord /\ c.lastIdx = b.lastIdx
        /\ c.runList = b.runList /\ c.runningThreads = b.runningThreads
        /\ c.leftThreads = b.leftThreads
        /\ c = [state |-> c.state, futexWord |-> c.futexWord, lastIdx |-> c.lastIdx,
                runList |-> c.runList, curThreadIdx |-> c.curThreadIdx,
                runningThreads |-> c.runningThreads, leftThreads |-> c.leftThreads,
                phaseCount |-> c.phaseCount]
    BY <1>1 DEF NewPhase, Bars
  <1>3. c.phaseCount \in 0..CleanupPeriod-1 /\ c.phaseCount # b.phaseCount
    BY <1>1, <1>2, NextPhaseCount DEF Bars
  <1>4. c \in Bars
    BY <1>1, <1>2, <1>3 DEF Bars
  <1>5. InState(b, "RUNNING") = {}
    BY <1>1, InStateFinite, FS_EmptySet DEF PhaseOver, Counters
  <1>6. Fresh(c)
    BY <1>2, <1>5 DEF Fresh, InState
  <1>7. Online(c) = Online(b)
    BY <1>2 DEF Online
  <1>8. Counters(c) /\ Homes(c, x)
    BY <1>1, <1>2, <1>7 DEF Counters, Homes, InState
  <1>9. Turns(c, {}, x)
    BY <1>1, <1>2, <1>4, <1>6, <1>7, FreshTurns
  <1>10. Len(c.runList) \in Nat
    BY <1>1, <1>2, ListedLen
  <1>11. Sound(c, {}, x)
    BY <1>1, <1>2, <1>4, <1>7, <1>8, <1>9, <1>10 DEF Sound
  <1>12. ASSUME NEW t \in Cids, b.state[t] = "WAITING" PROVE t \in r \/ x[t] = "stale"
    <2>1. t \in Online(b)
      BY <1>12 DEF Online
    <2>2. PICK i \in 1..Len(b.runList) : b.runList[i] = t
      BY <1>1, <2>1 DEF Listed
    <2>3. i <= b.curThreadIdx
      BY <1>1, ListedLen DEF PhaseOver
    <2> QED
      BY <1>1, <1>12, <2>2, <2>3 DEF Turns
  <1> QED
    BY <1>2, <1>3, <1>5, <1>6, <1>11, <1>12 DEF InState

(* The cleanup of a list of length n of which the places stay remain: the    *)
(* gaps below the new size are filled from the tail above it, the first gap  *)
(* from the last place, and src[i] is the old place of the core now at i.    *)
Filler(tail, gaps, g) ==
    CHOOSE j \in tail :
        Cardinality({k \in tail : k > j}) = Cardinality({h \in gaps : h < g})

Packed(n, stay, size, gaps, tail, src) ==
    /\ stay \in SUBSET (1..n) /\ size = Cardinality(stay)
    /\ gaps \in SUBSET (1..size) /\ \A i \in 1..size : i \in gaps <=> i \notin stay
    /\ tail \in SUBSET stay /\ \A i \in stay : i \in tail <=> i > size
    /\ src = [i \in 1..size |-> src[i]]
    /\ \A i \in (1..size) \ gaps : src[i] = i
    /\ \A i \in gaps : src[i] = Filler(tail, gaps, i)

(* Every place that stays is the source of exactly one of the new places. *)
LEMMA Packing ==
    ASSUME NEW n \in Nat, NEW stay, NEW size, NEW gaps, NEW tail, NEW src,
           Packed(n, stay, size, gaps, tail, src)
    PROVE  /\ size \in Nat
           /\ \A i \in 1..size : src[i] \in stay
           /\ \A i, j \in 1..size : src[i] = src[j] => i = j
           /\ \A j \in stay : \E i \in 1..size : src[i] = j
  <1> USE DEF Packed
  <1>a. IsFiniteSet(1..n)
    BY UpTo
  <1>b. IsFiniteSet(stay)
    BY <1>a, FS_Subset
  <1>1. size \in Nat
    BY <1>b, FS_CardinalityType
  <1>2. IsFiniteSet(1..size) /\ Cardinality(1..size) = size
    BY <1>1, UpTo
  <1>c. \A i \in stay : i \in Nat /\ i >= 1
    OBVIOUS
  <1> DEFINE low == {i \in stay : ~(i > size)}
  <1>3. low \in SUBSET stay /\ low \in SUBSET (1..size)
    BY <1>1, <1>c
  <1>d. tail = stay \ low
    OBVIOUS
  <1>e. gaps = (1..size) \ low
    <2>1. \A i \in 1..size : ~(i > size)
      BY <1>1
    <2>2. \A i \in 1..size : i \in low <=> i \in stay
      BY <2>1
    <2> HIDE DEF low
    <2> QED
      BY <2>2
  <1> HIDE DEF low
  <1>4. Cardinality(tail) = size - Cardinality(low) /\ IsFiniteSet(tail)
    <2>1. stay \cap low = low
      BY <1>3
    <2>2. /\ IsFiniteSet(stay \ low)
          /\ Cardinality(stay \ low) = Cardinality(stay) - Cardinality(stay \cap low)
      BY <1>b, FS_Difference
    <2> QED
      BY <1>d, <2>1, <2>2
  <1>5. Cardinality(gaps) = size - Cardinality(low) /\ IsFiniteSet(gaps)
    <2>1. (1..size) \cap low = low
      BY <1>3
    <2>2. /\ IsFiniteSet((1..size) \ low)
          /\ Cardinality((1..size) \ low) = Cardinality(1..size) - Cardinality((1..size) \cap low)
      BY <1>2, FS_Difference
    <2> QED
      BY <1>2, <1>e, <2>1, <2>2
  <1> DEFINE A == [j \in tail |-> {k \in tail : k > j}]
             G == [i \in gaps |-> {h \in gaps : h < i}]
  <1>6. tail \subseteq Nat /\ gaps \subseteq Nat
    BY <1>1, <1>c
  <1>7. \A q \in 0..Cardinality(tail)-1 : \E j \in tail : Cardinality(A[j]) = q
    <2>1. A \in [tail -> SUBSET tail] /\ \A j \in tail : j \notin A[j]
      BY <1>6
    <2>2. \A i, k \in tail : i # k => \/ i \in A[k] /\ A[i] \subseteq A[k]
                                      \/ k \in A[i] /\ A[k] \subseteq A[i]
      <3>1. ASSUME NEW i \in tail, NEW k \in tail, i > k
            PROVE  i \in A[k] /\ A[i] \subseteq A[k]
        <4>1. A[i] = {j \in tail : j > i} /\ A[k] = {j \in tail : j > k}
          OBVIOUS
        <4>2. \A j \in tail : j > i => j > k
          BY <1>6, <3>1
        <4> HIDE DEF A
        <4> QED
          BY <3>1, <4>1, <4>2
      <3>2. \A i, k \in tail : i # k => i > k \/ k > i
        BY <1>6
      <3> QED
        BY <3>1, <3>2
    <2> HIDE DEF A
    <2> QED
      BY <1>4, <2>1, <2>2, Ranks
  <1>8. /\ \A i \in gaps : Cardinality(G[i]) \in 0..Cardinality(gaps)-1
        /\ \A i, k \in gaps : Cardinality(G[i]) = Cardinality(G[k]) => i = k
    <2>1. G \in [gaps -> SUBSET gaps] /\ \A j \in gaps : j \notin G[j]
      BY <1>6
    <2>2. \A i, k \in gaps : i # k => \/ i \in G[k] /\ G[i] \subseteq G[k]
                                      \/ k \in G[i] /\ G[k] \subseteq G[i]
      <3>1. ASSUME NEW i \in gaps, NEW k \in gaps, i < k
            PROVE  i \in G[k] /\ G[i] \subseteq G[k]
        <4>1. G[i] = {j \in gaps : j < i} /\ G[k] = {j \in gaps : j < k}
          OBVIOUS
        <4>2. \A j \in gaps : j < i => j < k
          BY <1>6, <3>1
        <4> HIDE DEF G
        <4> QED
          BY <3>1, <4>1, <4>2
      <3>2. \A i, k \in gaps : i # k => i < k \/ k < i
        BY <1>6
      <3> QED
        BY <3>1, <3>2
    <2> HIDE DEF G
    <2> QED
      BY <1>5, <2>1, <2>2, Ranks
  <1>9. \A i \in gaps : src[i] \in tail /\ Cardinality(A[src[i]]) = Cardinality(G[i])
    <2> SUFFICES ASSUME NEW i \in gaps
                 PROVE  src[i] \in tail /\ Cardinality(A[src[i]]) = Cardinality(G[i])
      OBVIOUS
    <2>1. Cardinality(G[i]) \in 0..Cardinality(tail)-1
      BY <1>4, <1>5, <1>8
    <2>2. \E j \in tail : Cardinality(A[j]) = Cardinality(G[i])
      BY <1>7, <2>1
    <2> DEFINE Q(j) == Cardinality({k \in tail : k > j}) = Cardinality({h \in gaps : h < i})
    <2>3. src[i] = CHOOSE j \in tail : Q(j)
      BY DEF Filler
    <2>4. \E j \in tail : Q(j)
      BY <2>2
    <2>5. src[i] \in tail /\ Q(src[i])
      <3> HIDE DEF Q
      <3> QED
        BY <2>3, <2>4, Zenon
    <2> QED
      BY <2>5
  <1>10. \A i \in (1..size) \ gaps : src[i] = i /\ i \in stay
    OBVIOUS
  <1> HIDE DEF A, G
  <1>11. \A i \in 1..size : src[i] \in stay
    BY <1>9, <1>10
  <1>12. ASSUME NEW i \in 1..size, NEW j \in 1..size, src[i] = src[j] PROVE i = j
    <2>1. \A k \in gaps : src[k] > size /\ src[k] \in Nat
      BY <1>6, <1>9
    <2>2. \A k \in (1..size) \ gaps : ~(src[k] > size)
      BY <1>1, <1>10
    <2>3. CASE i \in gaps /\ j \in gaps
      BY <1>8, <1>9, <1>12, <2>3
    <2>4. CASE i \notin gaps /\ j \notin gaps
      BY <1>10, <1>12, <2>4
    <2> QED
      BY <1>12, <2>1, <2>2, <2>3, <2>4
  <1>13. src \in Injection(1..size, stay)
    <2>1. src \in [1..size -> stay]
      BY <1>11
    <2> QED
      BY <1>12, <2>1 DEF Injection, IsInjective
  <1>14. src \in Surjection(1..size, stay)
    <2>1. Cardinality(1..size) = Cardinality(stay)
      BY <1>2
    <2> QED
      BY <1>2, <1>b, <1>13, <2>1, FS_Injection
  <1> QED
    BY <1>1, <1>11, <1>12, <1>14 DEF Surjection

(* After a cleanup the list holds the cores that stay, and a core that was   *)
(* not moved, or was moved and had its place recorded, still finds itself.   *)
LEMMA CleanedSound ==
    ASSUME NEW b, NEW x, Sound(b, {}, x), Fresh(b), NEW c, c = Cleaned(b)
    PROVE  /\ Sound(c, {}, x) /\ Fresh(c)
           /\ c.phaseCount = b.phaseCount
           /\ \A t \in Cids :
                 c.state[t] = IF b.state[t] = "LEFT" THEN "OFFLINE" ELSE b.state[t]
  <1> DEFINE l == b.runList
             n == Len(l)
             stay == {i \in DOMAIN l : b.state[l[i]] # "LEFT"}
             size == Cardinality(stay)
             gaps == (1..size) \ stay
             tail == {i \in stay : i > size}
             from(g) == CHOOSE i \in tail : Cardinality({j \in tail : j > i})
                                              = Cardinality({h \in gaps : h < g})
             list == [i \in 1..size |-> IF i \in gaps THEN l[from(i)] ELSE l[i]]
             src == [i \in 1..size |-> IF i \in gaps THEN from(i) ELSE i]
             states == [t \in Cids |-> IF b.state[t] = "LEFT" THEN "OFFLINE" ELSE b.state[t]]
             places == [t \in Cids |->
                          IF b.state[t] = "LEFT" THEN 1
                          ELSE IF \E i \in gaps : list[i] = t THEN PosOf(list, t)
                          ELSE b.lastIdx[t]]
  <1>1. /\ b \in Bars /\ x \in IdxMarks /\ Listed(l, Online(b)) /\ Counters(b)
        /\ Homes(b, x)
    BY DEF Sound
  <1>2. /\ n \in Nat /\ DOMAIN l = 1..n
        /\ \A i \in 1..n : l[i] \in Cids /\ l[i] \in Online(b)
    BY <1>1, ListedLen
  <1>a. c = [b EXCEPT !.state = states, !.lastIdx = places, !.runList = list,
                      !.leftThreads = 0]
    BY <1>1, Zenon DEF Cleaned, Bars
  <1>4. /\ \A i \in (1..size) \ gaps : src[i] = i
        /\ \A i \in gaps : src[i] = from(i)
        /\ src = [i \in 1..size |-> src[i]]
        /\ \A i \in 1..size : list[i] = l[src[i]]
        /\ list = [i \in 1..size |-> list[i]]
    <2>1. \A i \in gaps : i \in 1..size
      OBVIOUS
    <2> HIDE DEF size, l, from, gaps
    <2> QED
      BY <2>1
  <1>5. /\ stay \in SUBSET (1..n) /\ tail \in SUBSET stay /\ gaps \in SUBSET (1..size)
        /\ \A i \in 1..size : i \in gaps <=> i \notin stay
        /\ \A i \in stay : i \in tail <=> i > size
        /\ \A i \in 1..n : i \in stay <=> b.state[l[i]] # "LEFT"
    BY <1>2
  <1>6. \A i \in gaps : src[i] = Filler(tail, gaps, i)
    BY <1>4, Zenon DEF Filler
  <1>7. Packed(n, stay, size, gaps, tail, src)
    <2>1. size = Cardinality(stay)
      OBVIOUS
    <2> HIDE DEF n, stay, size, gaps, tail, src
    <2> QED
      BY <1>4, <1>5, <1>6, <2>1 DEF Packed
  <1> HIDE DEF l, n, stay, size, gaps, tail, from, list, src, states, places
  <1>3. /\ c.state = states /\ c.lastIdx = places /\ c.runList = list /\ c.leftThreads = 0
        /\ c.futexWord = b.futexWord /\ c.curThreadIdx = b.curThreadIdx
        /\ c.runningThreads = b.runningThreads /\ c.phaseCount = b.phaseCount
        /\ c = [state |-> c.state, futexWord |-> c.futexWord, lastIdx |-> c.lastIdx,
                runList |-> c.runList, curThreadIdx |-> c.curThreadIdx,
                runningThreads |-> c.runningThreads, leftThreads |-> c.leftThreads,
                phaseCount |-> c.phaseCount]
    BY <1>1, <1>a DEF Bars
  <1>8. /\ size \in Nat
        /\ \A i \in 1..size : src[i] \in stay
        /\ \A i, j \in 1..size : src[i] = src[j] => i = j
        /\ \A j \in stay : \E i \in 1..size : src[i] = j
    BY <1>2, <1>7, Packing
  <1>9. list \in Seq(Cids) /\ Len(list) = size
    <2>1. \A i \in 1..size : list[i] \in Cids
      BY <1>2, <1>4, <1>5, <1>8
    <2> QED
      BY <1>4, <1>8, <2>1
  <1>10. \A t \in Cids : t \in Online(c) <=> t \in Online(b) /\ b.state[t] # "LEFT"
    BY <1>3 DEF Online, states
  <1>11. Listed(list, Online(c))
    <2>1. \A i, j \in 1..size : list[i] = list[j] => i = j
      BY <1>1, <1>4, <1>5, <1>8 DEF Listed, l, n
    <2>2. \A i \in 1..size : list[i] \in Online(c)
      BY <1>2, <1>4, <1>5, <1>8, <1>10
    <2>3. ASSUME NEW t \in Online(c) PROVE \E i \in 1..size : list[i] = t
      <3>1. t \in Online(b) /\ b.state[t] # "LEFT"
        BY <1>10 DEF Online
      <3>2. PICK j \in 1..n : l[j] = t
        BY <1>1, <3>1 DEF Listed, n
      <3>3. PICK i \in 1..size : src[i] = j
        BY <1>5, <1>8, <3>1, <3>2
      <3> QED
        BY <1>4, <3>2, <3>3
    <2> QED
      BY <1>9, <2>1, <2>2, <2>3 DEF Listed
  <1>12. \A t \in Online(c) : PosOf(list, t) \in 1..size /\ PosOf(list, t) \in Positions
                              /\ list[PosOf(list, t)] = t
    BY <1>9, <1>11, PosOfIs
  <1>13. c \in Bars
    <2>1. c.state \in [Cids -> States]
      BY <1>1, <1>3 DEF Bars, States, states
    <2>2. \A t \in Cids : 1 \in Positions
      <3>1. \A t \in Cids : b.lastIdx[t] \in Positions
        BY <1>1 DEF Bars
      <3>2. Cardinality(Cids) \in Nat
        BY BarrierAssumption, FS_CardinalityType
      <3> QED
        BY <3>1, <3>2 DEF Positions
    <2>3. \A i \in gaps : list[i] \in Online(c)
      BY <1>5, <1>9, <1>11 DEF Listed
    <2>4. c.lastIdx \in [Cids -> Positions]
      <3>1. \A t \in Cids : b.lastIdx[t] \in Positions
        BY <1>1 DEF Bars
      <3>2. \A t \in Cids : (\E i \in gaps : list[i] = t) => PosOf(list, t) \in Positions
        BY <1>12, <2>3
      <3> QED
        BY <1>3, <2>2, <3>1, <3>2 DEF places
    <2> QED
      BY <1>1, <1>3, <1>9, <2>1, <2>4 DEF Bars
  <1>14. /\ InState(c, "RUNNING") = {} /\ InState(b, "RUNNING") = {}
         /\ InState(c, "LEFT") = {}
    BY <1>3 DEF InState, Fresh, states
  <1>15. Counters(c)
    <2>1. Cardinality({}) = 0
      BY FS_EmptySet
    <2>2. c.runningThreads = Cardinality(InState(c, "RUNNING"))
      BY <1>1, <1>3, <1>14 DEF Counters
    <2>3. c.leftThreads = Cardinality(InState(c, "LEFT"))
      BY <1>3, <1>14, <2>1
    <2> QED
      BY <1>1, <1>3, <2>2, <2>3 DEF Counters, states
  <1>16. Fresh(c)
    BY <1>3, <1>14 DEF Fresh
  <1>17. Turns(c, {}, x)
    BY <1>3, <1>11, <1>13, <1>16, FreshTurns
  <1>18. Homes(c, x)
    <2>1. ASSUME NEW t \in Online(c), x[t] = "set"
          PROVE  c.lastIdx[t] \in 1..size /\ list[c.lastIdx[t]] = t
      <3>1. t \in Cids /\ t \in Online(b) /\ b.state[t] # "LEFT" /\ c.state[t] = b.state[t]
        BY <1>3, <1>10 DEF Online, states
      <3>2. CASE \E i \in gaps : list[i] = t
        BY <1>3, <1>12, <3>1, <3>2 DEF places
      <3>3. CASE ~\E i \in gaps : list[i] = t
        <4>1. c.lastIdx[t] = b.lastIdx[t]
          BY <1>3, <3>1, <3>3 DEF places
        <4>2. b.lastIdx[t] \in 1..n /\ l[b.lastIdx[t]] = t
          BY <1>1, <2>1, <3>1 DEF Homes, l, n
        <4>3. PICK i \in 1..size : list[i] = t
          BY <1>9, <1>11 DEF Listed
        <4>4. src[i] = i /\ l[i] = t /\ i \in 1..n
          BY <1>4, <1>5, <1>8, <3>3, <4>3
        <4>5. b.lastIdx[t] = i
          BY <1>1, <4>2, <4>4 DEF Listed, l, n
        <4> QED
          BY <4>1, <4>3, <4>5
      <3> QED
        BY <3>2, <3>3
    <2> QED
      BY <1>3, <1>9, <1>14, <2>1 DEF Homes
  <1>19. c.curThreadIdx <= Len(c.runList)
    BY <1>3, <1>8, <1>9 DEF Fresh
  <1>20. Sound(c, {}, x)
    BY <1>1, <1>3, <1>11, <1>13, <1>15, <1>17, <1>18, <1>19 DEF Sound
  <1> QED
    BY <1>3, <1>16, <1>20 DEF states

(* A shuffle keeps the cores of the list, and records the new place of every *)
(* core but one that was first and is first again.                           *)
LEMMA ShuffledSound ==
    ASSUME NEW b, NEW x, Sound(b, {}, x), Fresh(b), NEW c \in Shuffled(b)
    PROVE  /\ Sound(c, {}, x) /\ Fresh(c)
           /\ c.phaseCount = b.phaseCount /\ c.state = b.state
  <1>1. CASE parallelThreads >= Len(b.runList)
    BY <1>1, Zenon DEF Shuffled
  <1>2. CASE ~(parallelThreads >= Len(b.runList))
    <2> DEFINE l == b.runList
               n == Len(l)
               T == Online(b)
    <2>1. /\ b \in Bars /\ x \in IdxMarks /\ Listed(l, T) /\ Counters(b) /\ Homes(b, x)
      BY DEF Sound
    <2>2. /\ n \in Nat /\ DOMAIN l = 1..n /\ \A i \in 1..n : l[i] \in T
          /\ T \subseteq Cids /\ IsFiniteSet(T) /\ Cardinality(T) = n
      BY <2>1, ListedLen
    <2>3. ToSet(l) = T
      BY <2>1, <2>2 DEF ToSet, Listed
    <2>4. PICK list \in SetToSeqs(T) :
            c = [b EXCEPT
                   !.runList = list,
                   !.lastIdx = [t \in Cids |->
                      IF /\ t \in ToSet(list)
                         /\ PosOf(list, t) # 1 \/ PosOf(l, t) # 1
                      THEN PosOf(list, t) ELSE b.lastIdx[t]]]
      BY <1>2, <2>1, <2>3, ZenonT(60) DEF Shuffled, Bars
    <2> DEFINE places == [t \in Cids |-> IF /\ t \in ToSet(list)
                                            /\ PosOf(list, t) # 1 \/ PosOf(l, t) # 1
                                         THEN PosOf(list, t) ELSE b.lastIdx[t]]
    <2>5. c = [b EXCEPT !.runList = list, !.lastIdx = places]
      BY <2>4
    <2>6. list \in [1..n -> T] /\ \A i, j \in 1..n : list[i] = list[j] => i = j
      BY <2>2 DEF SetToSeqs
    <2> HIDE DEF l, n, T, places
    <2>7. /\ c.runList = list /\ c.lastIdx = places /\ c.state = b.state
          /\ c.futexWord = b.futexWord /\ c.curThreadIdx = b.curThreadIdx
          /\ c.runningThreads = b.runningThreads /\ c.leftThreads = b.leftThreads
          /\ c.phaseCount = b.phaseCount
          /\ c = [state |-> c.state, futexWord |-> c.futexWord, lastIdx |-> c.lastIdx,
                  runList |-> c.runList, curThreadIdx |-> c.curThreadIdx,
                  runningThreads |-> c.runningThreads, leftThreads |-> c.leftThreads,
                  phaseCount |-> c.phaseCount]
      BY <2>1, <2>5 DEF Bars
    <2>8. list \in Seq(Cids) /\ Len(list) = n /\ DOMAIN list = 1..n
      BY <2>2, <2>6
    <2>9. \A t \in T : \E i \in 1..n : list[i] = t
      <3>1. list \in Injection(1..n, T)
        BY <2>6 DEF Injection, IsInjective
      <3>2. IsFiniteSet(1..n) /\ Cardinality(1..n) = Cardinality(T)
        BY <2>2, UpTo
      <3>3. list \in Surjection(1..n, T)
        BY <2>2, <3>1, <3>2, FS_Injection
      <3> QED
        BY <3>3 DEF Surjection
    <2>10. Listed(list, T)
      BY <2>6, <2>8, <2>9 DEF Listed
    <2>11. Online(c) = T
      BY <2>7 DEF Online, T
    <2>12. \A t \in T : /\ PosOf(list, t) \in 1..n /\ PosOf(list, t) \in Positions
                        /\ list[PosOf(list, t)] = t
      BY <2>8, <2>10, PosOfIs
    <2>13. ToSet(list) = T
      BY <2>8, <2>9, <2>6 DEF ToSet
    <2>14. c \in Bars
      <3>1. \A t \in Cids : b.lastIdx[t] \in Positions
        BY <2>1 DEF Bars
      <3>2. c.lastIdx \in [Cids -> Positions]
        BY <2>7, <2>12, <2>13, <3>1 DEF places
      <3> QED
        BY <2>1, <2>7, <2>8, <3>2 DEF Bars
    <2>15. Counters(c)
      BY <2>1, <2>7 DEF Counters, InState
    <2>16. Fresh(c)
      BY <2>7 DEF Fresh, InState
    <2>17. Turns(c, {}, x)
      BY <2>7, <2>10, <2>11, <2>14, <2>16, FreshTurns
    <2>18. Homes(c, x)
      <3>1. ASSUME NEW t \in T, x[t] = "set"
            PROVE  c.lastIdx[t] \in 1..n /\ list[c.lastIdx[t]] = t
        <4>1. t \in Cids
          BY <2>2
        <4>2. CASE PosOf(list, t) # 1 \/ PosOf(l, t) # 1
          BY <2>7, <2>12, <2>13, <4>1, <4>2 DEF places
        <4>3. CASE PosOf(list, t) = 1 /\ PosOf(l, t) = 1
          <5>1. c.lastIdx[t] = b.lastIdx[t]
            BY <2>7, <4>1, <4>3 DEF places
          <5>2. b.lastIdx[t] \in 1..n /\ l[b.lastIdx[t]] = t
            BY <2>1, <2>7, <3>1 DEF Homes, l, n, T
          <5>3. b.lastIdx[t] = 1
            BY <2>1, <4>3, <5>2, PosOfIs DEF n
          <5> QED
            BY <2>12, <4>3, <5>1, <5>3
        <4> QED
          BY <4>2, <4>3
      <3>2. /\ \A t \in InState(c, "LEFT") : x[t] # "unset"
            /\ \A t \in InState(c, "RUNNING") : x[t] = "set"
        BY <2>1, <2>7 DEF Homes, InState
      <3> QED
        BY <2>7, <2>8, <2>11, <3>1, <3>2 DEF Homes
    <2>19. Sound(c, {}, x)
      BY <2>1, <2>2, <2>7, <2>8, <2>10, <2>11, <2>14, <2>15, <2>16, <2>17, <2>18
      DEF Sound, Fresh
    <2> QED
      BY <2>7, <2>16, <2>19
  <1> QED
    BY <1>1, <1>2

-----------------------------------------------------------------------------
(* tryWakeNext, the end of every operation *)

(* The state of a core changes only when it is woken or cleaned up. *)
Moves(b, c) ==
    \A t \in Cids : \/ c.state[t] = b.state[t]
                    \/ b.state[t] = "WAITING" /\ c.state[t] = "RUNNING"
                    \/ b.state[t] = "LEFT" /\ c.state[t] = "OFFLINE"

(* No core is woken twice in a phase, and a phase ends only when every       *)
(* waiting core has had its turn.                                            *)
LEMMA TryWakeNext ==
    ASSUME NEW b, NEW r, NEW x, Sound(b, r, x), NEW d \in tryWakeNext(b)
    PROVE  LET w == Started(b, d)
           IN  /\ Sound(d, (IF d.phaseCount = b.phaseCount THEN r ELSE {}) \cup w, Marked(x, w))
               /\ Moves(b, d)
               /\ d.phaseCount = b.phaseCount => \A t \in w : t \notin r
               /\ d.phaseCount # b.phaseCount =>
                     \A t \in Cids : b.state[t] = "WAITING" => t \in r \/ x[t] = "stale"
  <1> DEFINE c == checkRunList(b)
             w1 == Started(b, c)
             w == Started(b, d)
  <1>1. PICK e \in checkEndPhase(c) : d = checkRunList(e)
    BY DEF tryWakeNext
  <1>2. /\ Sound(c, r \cup w1, Marked(x, w1)) /\ c.phaseCount = b.phaseCount
        /\ \A t \in w1 : b.state[t] = "WAITING" /\ t \notin r
        /\ \A t \in Cids \ w1 : c.state[t] = b.state[t]
    BY CheckRunList
  <1>3. /\ w1 \subseteq Cids /\ w \subseteq Cids
        /\ \A t \in Cids : t \in w1 <=> b.state[t] # "RUNNING" /\ c.state[t] = "RUNNING"
        /\ \A t \in Cids : t \in w <=> b.state[t] # "RUNNING" /\ d.state[t] = "RUNNING"
    BY DEF Started
  <1>4. x \in IdxMarks
    BY DEF Sound
  <1>5. CASE ~PhaseOver(c)
    <2> DEFINE w2 == Started(c, d)
    <2>1. e = c
      BY <1>1, <1>5 DEF checkEndPhase
    <2>2. /\ Sound(d, (r \cup w1) \cup w2, Marked(Marked(x, w1), w2))
          /\ d.phaseCount = c.phaseCount
          /\ \A t \in w2 : c.state[t] = "WAITING" /\ t \notin r \cup w1
          /\ \A t \in Cids \ w2 : d.state[t] = c.state[t]
      <3> HIDE DEF c, w1
      <3> QED
        BY <1>1, <1>2, <2>1, CheckRunList
    <2>3. w2 \subseteq Cids /\ \A t \in Cids : t \in w2 <=> c.state[t] # "RUNNING" /\ d.state[t] = "RUNNING"
      BY DEF Started
    <2> HIDE DEF c, w, w1, w2
    <2>4. w = w1 \cup w2
      BY <1>2, <1>3, <2>2, <2>3
    <2>5. Marked(Marked(x, w1), w2) = Marked(x, w)
      BY <2>4 DEF Marked
    <2>6. (r \cup w1) \cup w2 = r \cup w
      BY <2>4
    <2>7. Sound(d, r \cup w, Marked(x, w))
      BY <2>2, <2>5, <2>6
    <2>8. Moves(b, d)
      BY <1>2, <1>3, <2>2, <2>3 DEF Moves
    <2>9. \A t \in w : t \notin r
      BY <1>2, <2>2, <2>4
    <2> QED
      BY <1>2, <2>2, <2>7, <2>8, <2>9 DEF w
  <1>6. CASE PhaseOver(c)
    <2> DEFINE p == NewPhase(c)
               q == IF c.phaseCount = 0 THEN Cleaned(p) ELSE p
               w2 == Started(e, d)
    <2>1. e \in Shuffled(q)
      BY <1>1, <1>6 DEF checkEndPhase
    <2> HIDE DEF c, w1, w
    <2>2. /\ Sound(p, {}, Marked(x, w1)) /\ Fresh(p) /\ p.phaseCount # c.phaseCount
          /\ p.state = c.state
          /\ \A t \in Cids :
                /\ c.state[t] = "WAITING" => t \in r \cup w1 \/ Marked(x, w1)[t] = "stale"
                /\ c.state[t] # "RUNNING"
      BY <1>2, <1>6, NewPhaseSound
    <2>3. w1 = {}
      BY <1>3, <2>2
    <2>4. Marked(x, w1) = x /\ r \cup w1 = r
      BY <1>4, <2>3 DEF Marked, IdxMarks
    <2> HIDE DEF p
    <2>5. /\ Sound(q, {}, x) /\ Fresh(q) /\ q.phaseCount = p.phaseCount
          /\ \A t \in Cids : \/ q.state[t] = p.state[t]
                             \/ p.state[t] = "LEFT" /\ q.state[t] = "OFFLINE"
      <3>1. Sound(p, {}, x) /\ Fresh(p)
        BY <2>2, <2>4
      <3>2. q = Cleaned(p) \/ q = p
        OBVIOUS
      <3> HIDE DEF q
      <3>3. CASE q = Cleaned(p)
        <4>1. /\ Sound(q, {}, x) /\ Fresh(q) /\ q.phaseCount = p.phaseCount
              /\ \A t \in Cids :
                    q.state[t] = IF p.state[t] = "LEFT" THEN "OFFLINE" ELSE p.state[t]
          BY <3>1, <3>3, CleanedSound
        <4> QED
          BY <4>1
      <3>4. CASE q = p
        BY <3>1, <3>4
      <3> QED
        BY <3>2, <3>3, <3>4
    <2> HIDE DEF q
    <2>6. /\ Sound(e, {}, x) /\ Fresh(e) /\ e.phaseCount = q.phaseCount /\ e.state = q.state
      BY <2>1, <2>5, ShuffledSound
    <2>7. /\ Sound(d, {} \cup w2, Marked(x, w2))
          /\ d.phaseCount = e.phaseCount
          /\ \A t \in w2 : e.state[t] = "WAITING"
          /\ \A t \in Cids \ w2 : d.state[t] = e.state[t]
      BY <1>1, <2>6, CheckRunList
    <2>8. w2 \subseteq Cids /\ \A t \in Cids : t \in w2 <=> e.state[t] # "RUNNING" /\ d.state[t] = "RUNNING"
      BY DEF Started
    <2> HIDE DEF w2
    <2>9. \A t \in Cids : b.state[t] # "RUNNING" /\ c.state[t] = b.state[t]
      BY <1>2, <2>2, <2>3
    <2>10. \A t \in Cids : e.state[t] # "RUNNING"
      BY <2>6 DEF Fresh, InState
    <2>11. w2 = w
      BY <1>3, <2>8, <2>9, <2>10
    <2>12. Sound(d, {} \cup w, Marked(x, w))
      BY <2>7, <2>11
    <2>13. Moves(b, d)
      BY <2>2, <2>5, <2>6, <2>7, <2>9, <2>8 DEF Moves
    <2>14. d.phaseCount # b.phaseCount
      BY <1>2, <2>2, <2>5, <2>6, <2>7
    <2>15. \A t \in Cids : b.state[t] = "WAITING" => t \in r \/ x[t] = "stale"
      BY <2>2, <2>4, <2>9
    <2> QED
      BY <2>12, <2>13, <2>14, <2>15 DEF w
  <1> QED
    BY <1>5, <1>6

(* What Finish adds to an operation that has left the barrier as b. *)
LEMMA FinishSound ==
    ASSUME NEW b, NEW r, NEW x, r \subseteq Cids, Sound(b, r, x),
           b.phaseCount = bar.phaseCount, Finish(b, r, x)
    PROVE  /\ Sound(bar', ran', idx') /\ ran' \subseteq Cids /\ failed' = failed
           /\ Moves(b, bar')
           /\ bar'.phaseCount # bar.phaseCount =>
                 \A t \in Cids : b.state[t] = "WAITING" => t \in r \/ x[t] = "stale"
           /\ bar'.phaseCount = bar.phaseCount =>
                 \A t \in Cids : b.state[t] = "WAITING" /\ bar'.state[t] = "RUNNING"
                                   => t \notin r
  <1> DEFINE w == Started(b, bar')
  <1>1. /\ bar' \in tryWakeNext(b) /\ failed' = failed
        /\ ran' = (IF bar'.phaseCount = b.phaseCount THEN r ELSE {}) \cup w
        /\ idx' = Marked(x, w)
    BY DEF Finish, Started, Marked
  <1>2. /\ Sound(bar', (IF bar'.phaseCount = b.phaseCount THEN r ELSE {}) \cup w, Marked(x, w))
        /\ Moves(b, bar')
        /\ bar'.phaseCount = b.phaseCount => \A t \in w : t \notin r
        /\ bar'.phaseCount # b.phaseCount =>
              \A t \in Cids : b.state[t] = "WAITING" => t \in r \/ x[t] = "stale"
    BY <1>1, TryWakeNext
  <1>3. Sound(bar', ran', idx')
    BY <1>1, <1>2
  <1>4. ran' \subseteq Cids
    BY <1>1 DEF Started
  <1>5. ASSUME bar'.phaseCount = bar.phaseCount, NEW t \in Cids,
               b.state[t] = "WAITING", bar'.state[t] = "RUNNING"
        PROVE  t \notin r
    <2>1. t \in w
      BY <1>5 DEF Started
    <2> QED
      BY <1>2, <1>5, <2>1
  <1> QED
    BY <1>1, <1>2, <1>3, <1>4, <1>5

-----------------------------------------------------------------------------
(* The operations *)

(* The counts of the cores in each state, when a core changes state. *)
LEMMA MoveCounts ==
    ASSUME NEW b \in Bars, NEW t \in Cids, NEW s \in States, NEW c,
           c.state = [b.state EXCEPT ![t] = s], NEW u, u = b.state[t], u # s
    PROVE  /\ Cardinality(InState(c, s)) = Cardinality(InState(b, s)) + 1
           /\ Cardinality(InState(c, u)) = Cardinality(InState(b, u)) - 1
           /\ \A q : q # s /\ q # u => InState(c, q) = InState(b, q)
  <1>1. b.state \in [Cids -> States]
    BY DEF Bars
  <1>2. \A k \in Cids : c.state[k] = IF k = t THEN s ELSE b.state[k]
    BY <1>1
  <1>3. InState(c, s) = InState(b, s) \cup {t} /\ t \notin InState(b, s)
    BY <1>2 DEF InState
  <1>4. InState(c, u) = InState(b, u) \ {t} /\ t \in InState(b, u)
    BY <1>2 DEF InState
  <1>5. \A q : q # s /\ q # u => InState(c, q) = InState(b, q)
    BY <1>2 DEF InState
  <1>6. Cardinality(InState(c, s)) = Cardinality(InState(b, s)) + 1
    BY <1>3, InStateFinite, FS_AddElement
  <1>7. Cardinality(InState(c, u)) = Cardinality(InState(b, u)) - 1
    <2>1. IsFiniteSet(InState(b, u))
      BY InStateFinite
    <2>2. Cardinality(InState(b, u) \ {t}) = Cardinality(InState(b, u)) - 1
      BY <1>4, <2>1, FS_RemoveElement
    <2> QED
      BY <1>4, <2>2
  <1> QED
    BY <1>5, <1>6, <1>7

(* The core t of the list changes its state to s, the record of turns       *)
(* becomes q and what is known of lastIdx y: what the new state asks of them. *)
Changes(b, r, x, t, s, c, q, y) ==
    /\ t \in Online(b) /\ s \in {"WAITING", "LEFT"}
    /\ c \in Bars /\ c.state = [b.state EXCEPT ![t] = s] /\ Counters(c)
    /\ c.runList = b.runList /\ c.curThreadIdx = b.curThreadIdx /\ c.lastIdx = b.lastIdx
    /\ y \in IdxMarks
    /\ \A k \in Cids \ {t} : (k \in q <=> k \in r) /\ y[k] = x[k]
    /\ y[t] = "set" => x[t] = "set"
    /\ s = "LEFT" => t \notin q /\ y[t] # "unset"
    /\ s = "WAITING" =>
          \A i \in 1..Len(b.runList) : b.runList[i] = t =>
             /\ i > b.curThreadIdx => t \notin q
             /\ i <= b.curThreadIdx => t \in q \/ y[t] = "stale"

(* A core that changes state in this way leaves the barrier sound. *)
LEMMA ChangeState ==
    ASSUME NEW b, NEW r, NEW x, Sound(b, r, x), NEW t, NEW s, NEW c, NEW q, NEW y,
           Changes(b, r, x, t, s, c, q, y)
    PROVE  Sound(c, q, y)
  <1> USE DEF Changes
  <1>1. /\ b \in Bars /\ x \in IdxMarks /\ Listed(b.runList, Online(b))
        /\ b.curThreadIdx <= Len(b.runList) /\ Turns(b, r, x) /\ Homes(b, x)
    BY DEF Sound
  <1>2. t \in Cids /\ b.state[t] # "OFFLINE"
    BY DEF Online
  <1>3. /\ c.state[t] = s
        /\ \A k \in Cids \ {t} : c.state[k] = b.state[k]
    BY <1>1, <1>2 DEF Bars
  <1>4. Online(c) = Online(b)
    BY <1>2, <1>3 DEF Online
  <1>5. \A i \in 1..Len(b.runList) : b.runList[i] \in Cids
    BY <1>1, ListedLen
  <1>6. Turns(c, q, y)
    <2>1. ASSUME NEW i \in 1..Len(b.runList), NEW k, k = b.runList[i]
          PROVE  /\ c.state[k] = "WAITING" /\ i > b.curThreadIdx => k \notin q
                 /\ c.state[k] = "WAITING" /\ i <= b.curThreadIdx
                      => k \in q \/ y[k] = "stale"
                 /\ c.state[k] = "RUNNING" => i <= b.curThreadIdx /\ k \in q
      <3>1. CASE k = t
        BY <1>3, <2>1, <3>1
      <3>2. CASE k # t
        <4>1. /\ b.state[k] = "WAITING" /\ i > b.curThreadIdx => k \notin r
              /\ b.state[k] = "WAITING" /\ i <= b.curThreadIdx
                   => k \in r \/ x[k] = "stale"
              /\ b.state[k] = "RUNNING" => i <= b.curThreadIdx /\ k \in r
          BY <1>1, <2>1 DEF Turns
        <4>2. k \in Cids \ {t}
          BY <1>5, <2>1, <3>2
        <4> QED
          BY <1>3, <4>1, <4>2
      <3> QED
        BY <3>1, <3>2
    <2>2. \A k \in Cids : c.state[k] \in {"LEFT", "OFFLINE"} => k \notin q
      BY <1>1, <1>3 DEF Turns
    <2> QED
      BY <2>1, <2>2 DEF Turns
  <1>7. Homes(c, y)
    <2>1. \A k \in Online(c) : y[k] = "set"
             => c.lastIdx[k] \in 1..Len(c.runList) /\ c.runList[c.lastIdx[k]] = k
      BY <1>1, <1>4 DEF Homes, Online
    <2>2. \A k \in InState(c, "LEFT") : y[k] # "unset"
      BY <1>1, <1>3 DEF Homes, InState
    <2>3. \A k \in InState(c, "RUNNING") : y[k] = "set"
      BY <1>1, <1>3 DEF Homes, InState
    <2> QED
      BY <2>1, <2>2, <2>3 DEF Homes
  <1> QED
    BY <1>1, <1>4, <1>6, <1>7 DEF Sound

(* The swap of a core that left and was passed by: it comes to stand just    *)
(* beyond the current position, and both cores' places are recorded.         *)
LEMMA RescheduledSound ==
    ASSUME NEW b, NEW r, NEW x, Sound(b, r, x), NEW t \in Cids, b.state[t] = "LEFT",
           PassedBy(b, t), b.runList[b.lastIdx[t]] = t, NEW c, c = Rescheduled(b, t)
    PROVE  /\ Sound(c, r, x) /\ c.state = b.state
           /\ \A i \in 1..Len(c.runList) : c.runList[i] = t => i > c.curThreadIdx
  <1> DEFINE l == b.runList
             i == b.lastIdx[t]
             n == b.curThreadIdx
             other == l[n]
             list == [l EXCEPT ![i] = other, ![n] = t]
             places == [b.lastIdx EXCEPT ![other] = i, ![t] = n]
  <1>1. /\ b \in Bars /\ x \in IdxMarks /\ Listed(l, Online(b)) /\ Counters(b)
        /\ n <= Len(l) /\ Turns(b, r, x) /\ Homes(b, x)
    BY DEF Sound
  <1>2. /\ Len(l) \in Nat /\ DOMAIN l = 1..Len(l)
        /\ \A k \in 1..Len(l) : l[k] \in Cids /\ l[k] \in Online(b) /\ k \in Positions
        /\ l \in Seq(Cids)
    BY <1>1, ListedLen, ZenonT(60) DEF Listed
  <1>3. n \in 1..Len(l) /\ i \in 1..Len(l) /\ i <= n /\ other \in Cids
    <2>1. Cardinality(Cids) \in Nat
      BY BarrierAssumption, FS_CardinalityType
    <2>2. i \in Positions /\ n \in Nat
      BY <1>1 DEF Bars
    <2>3. i <= n
      BY DEF PassedBy
    <2>4. n \in 1..Len(l) /\ i \in 1..Len(l)
      BY <1>1, <1>2, <2>1, <2>2, <2>3 DEF Positions
    <2> QED
      BY <1>2, <2>3, <2>4
  <1>4. /\ c = [b EXCEPT !.curThreadIdx = n - 1, !.runList = list, !.lastIdx = places]
    BY <1>1 DEF Rescheduled, Bars
  <1>5. /\ list \in Seq(Cids) /\ Len(list) = Len(l) /\ list[n] = t
        /\ i # n => list[i] = other
        /\ \A k \in 1..Len(l) : k # i /\ k # n => list[k] = l[k]
    BY <1>2, <1>3
  <1>6. /\ places \in [Cids -> Positions] /\ places[t] = n
        /\ other # t => places[other] = i
        /\ \A k \in Cids : k # t /\ k # other => places[k] = b.lastIdx[k]
    BY <1>1, <1>2, <1>3 DEF Bars
  <1>7. l[i] = t /\ l[n] = other
    OBVIOUS
  <1> HIDE DEF l, i, n, other, list, places
  <1>8. /\ c.runList = list /\ c.lastIdx = places /\ c.state = b.state
        /\ c.futexWord = b.futexWord /\ c.curThreadIdx = n - 1
        /\ c.runningThreads = b.runningThreads /\ c.leftThreads = b.leftThreads
        /\ c.phaseCount = b.phaseCount
        /\ c = [state |-> c.state, futexWord |-> c.futexWord, lastIdx |-> c.lastIdx,
                runList |-> c.runList, curThreadIdx |-> c.curThreadIdx,
                runningThreads |-> c.runningThreads, leftThreads |-> c.leftThreads,
                phaseCount |-> c.phaseCount]
    BY <1>1, <1>4 DEF Bars
  <1>9. n - 1 \in Nat /\ n - 1 <= Len(list)
    BY <1>2, <1>3, <1>5
  <1>10. c \in Bars
    BY <1>1, <1>5, <1>6, <1>8, <1>9 DEF Bars
  <1>11. Online(c) = Online(b) /\ Counters(c)
    BY <1>1, <1>8 DEF Online, Counters, InState
  <1>12. \A k, m \in 1..Len(l) : l[k] = l[m] => k = m
    BY <1>1 DEF Listed
  <1>13. Listed(list, Online(b))
    <2>1. \A k, m \in 1..Len(l) : list[k] = list[m] => k = m
      BY <1>3, <1>5, <1>7, <1>12
    <2>2. \A k \in Online(b) : \E m \in 1..Len(l) : list[m] = k
      <3> SUFFICES ASSUME NEW k \in Online(b) PROVE \E m \in 1..Len(l) : list[m] = k
        OBVIOUS
      <3>1. PICK m \in 1..Len(l) : l[m] = k
        BY <1>1 DEF Listed
      <3> QED
        BY <1>3, <1>5, <1>7, <3>1
    <2>3. \A m \in 1..Len(l) : list[m] \in Online(b)
      BY <1>2, <1>3, <1>5, <1>7
    <2> QED
      BY <1>5, <2>1, <2>2, <2>3 DEF Listed
  <1>14. Turns(c, r, x)
    <2>1. \A k \in 1..Len(l) :
             /\ b.state[l[k]] = "WAITING" /\ k > n => l[k] \notin r
             /\ b.state[l[k]] = "WAITING" /\ k <= n => l[k] \in r \/ x[l[k]] = "stale"
             /\ b.state[l[k]] = "RUNNING" => k <= n /\ l[k] \in r
      BY <1>1 DEF Turns, l, n
    <2>2. ASSUME NEW k \in 1..Len(l), NEW u, u = list[k]
          PROVE  /\ b.state[u] = "WAITING" /\ k > n - 1 => u \notin r
                 /\ b.state[u] = "WAITING" /\ k <= n - 1 => u \in r \/ x[u] = "stale"
                 /\ b.state[u] = "RUNNING" => k <= n - 1 /\ u \in r
      <3>1. CASE k = n
        BY <1>5, <2>2, <3>1
      <3>2. CASE k # n /\ k = i
        <4>1. u = l[n] /\ k <= n - 1 /\ ~(k > n - 1)
          BY <1>2, <1>3, <1>5, <1>7, <2>2, <3>2
        <4>2. /\ b.state[l[n]] = "WAITING" => l[n] \in r \/ x[l[n]] = "stale"
              /\ b.state[l[n]] = "RUNNING" => l[n] \in r
          BY <1>2, <1>3, <2>1
        <4> QED
          BY <4>1, <4>2
      <3>3. CASE k # n /\ k # i
        <4>1. u = l[k]
          BY <1>5, <2>2, <3>3
        <4>2. (k > n - 1 <=> k > n) /\ (k <= n - 1 <=> k <= n)
          BY <1>2, <1>3, <3>3
        <4> QED
          BY <2>1, <4>1, <4>2
      <3> QED
        BY <3>1, <3>2, <3>3
    <2>3. \A k \in Cids : b.state[k] \in {"LEFT", "OFFLINE"} => k \notin r
      BY <1>1 DEF Turns
    <2> QED
      BY <1>5, <1>8, <2>2, <2>3 DEF Turns
  <1>15. Homes(c, x)
    <2>1. ASSUME NEW k \in Online(b), x[k] = "set"
          PROVE  places[k] \in 1..Len(l) /\ list[places[k]] = k
      <3>1. k \in Cids /\ b.lastIdx[k] \in 1..Len(l) /\ l[b.lastIdx[k]] = k
        BY <1>1, <2>1 DEF Homes, Online, l
      <3>2. CASE k = t
        BY <1>3, <1>5, <1>6, <3>2
      <3>3. CASE k # t /\ k = other
        BY <1>3, <1>5, <1>6, <1>7, <3>3
      <3>4. CASE k # t /\ k # other
        <4>1. places[k] = b.lastIdx[k] /\ b.lastIdx[k] # i /\ b.lastIdx[k] # n
          BY <1>6, <1>7, <3>1, <3>4
        <4> QED
          BY <1>5, <3>1, <4>1
      <3> QED
        BY <3>2, <3>3, <3>4
    <2>2. /\ \A k \in InState(c, "LEFT") : x[k] # "unset"
          /\ \A k \in InState(c, "RUNNING") : x[k] = "set"
      BY <1>1, <1>8 DEF Homes, InState
    <2> QED
      BY <1>5, <1>8, <1>11, <2>1, <2>2 DEF Homes
  <1>16. Sound(c, r, x)
    BY <1>1, <1>8, <1>9, <1>10, <1>11, <1>13, <1>14, <1>15 DEF Sound
  <1>17. ASSUME NEW k \in 1..Len(c.runList), c.runList[k] = t PROVE k > c.curThreadIdx
    <2>1. k \in 1..Len(l) /\ list[k] = list[n]
      BY <1>5, <1>8, <1>17
    <2>2. k = n
      BY <1>3, <1>5, <1>13, <2>1 DEF Listed
    <2> QED
      BY <1>3, <1>8, <2>2
  <1> QED
    BY <1>8, <1>16, <1>17

(* What TurnsAreFair asks of a step. *)
FairStep ==
    /\ bar'.phaseCount # bar.phaseCount =>
          \A t \in Cids : bar.state[t] = "WAITING" => t \in ran \/ idx[t] = "stale"
    /\ \A t \in Cids : (/\ bar.state[t] = "WAITING"
                        /\ bar'.state[t] = "RUNNING"
                        /\ bar'.phaseCount = bar.phaseCount) => t \notin ran

(* An operation of the core t that leaves the barrier sound before it wakes  *)
(* others keeps the invariant and is fair.                                   *)
LEMMA Finished ==
    ASSUME IInv, NEW t \in Cids, NEW b, NEW r, NEW x, r \subseteq Cids,
           Sound(b, r, x), b.phaseCount = bar.phaseCount, Finish(b, r, x),
           \A k \in Cids \ {t} : /\ b.state[k] = bar.state[k]
                                 /\ k \in r <=> k \in ran
                                 /\ x[k] = idx[k],
           bar.state[t] # "WAITING",
           NEW p \in {"away", "blocked"}, where' = [where EXCEPT ![t] = p],
           p = "away" => b.state[t] = "LEFT",
           p = "blocked" => b.state[t] = "WAITING"
    PROVE  IInv' /\ FairStep
  <1>1. /\ Sound(bar', ran', idx') /\ ran' \subseteq Cids /\ failed' = failed
        /\ Moves(b, bar')
        /\ bar'.phaseCount # bar.phaseCount =>
              \A k \in Cids : b.state[k] = "WAITING" => k \in r \/ x[k] = "stale"
        /\ bar'.phaseCount = bar.phaseCount =>
              \A k \in Cids : b.state[k] = "WAITING" /\ bar'.state[k] = "RUNNING"
                                => k \notin r
    BY FinishSound
  <1>2. where \in [Cids -> {"away", "blocked", "running"}] /\ failed \in BOOLEAN
    BY DEF IInv
  <1>3. /\ where' \in [Cids -> {"away", "blocked", "running"}] /\ where'[t] = p
        /\ \A k \in Cids \ {t} : where'[k] = where[k]
    BY <1>2
  <1>4. Whereabouts'
    <2>1. ASSUME NEW k \in Cids
          PROVE  /\ where'[k] = "away" => bar'.state[k] \in {"OFFLINE", "LEFT"}
                 /\ where'[k] = "blocked" => bar'.state[k] \in {"WAITING", "RUNNING"}
                 /\ where'[k] = "running" => bar'.state[k] = "RUNNING"
      <3>1. \/ bar'.state[k] = b.state[k]
            \/ b.state[k] = "WAITING" /\ bar'.state[k] = "RUNNING"
            \/ b.state[k] = "LEFT" /\ bar'.state[k] = "OFFLINE"
        BY <1>1 DEF Moves
      <3>2. CASE k = t
        BY <1>3, <3>1, <3>2
      <3>3. CASE k # t
        <4>1. b.state[k] = bar.state[k] /\ where'[k] = where[k]
          BY <1>3, <3>3
        <4>2. /\ where[k] = "away" => bar.state[k] \in {"OFFLINE", "LEFT"}
              /\ where[k] = "blocked" => bar.state[k] \in {"WAITING", "RUNNING"}
              /\ where[k] = "running" => bar.state[k] = "RUNNING"
          BY DEF IInv, Whereabouts
        <4> QED
          BY <3>1, <4>1, <4>2
      <3> QED
        BY <3>2, <3>3
    <2> QED
      BY <2>1 DEF Whereabouts
  <1>5. FairStep
    <2>1. \A k \in Cids : bar.state[k] = "WAITING" =>
             k # t /\ b.state[k] = "WAITING" /\ (k \in r <=> k \in ran) /\ x[k] = idx[k]
      OBVIOUS
    <2> QED
      BY <1>1, <2>1 DEF FairStep
  <1> QED
    BY <1>1, <1>2, <1>3, <1>4, <1>5 DEF IInv

(* The fields of the barrier after Wait. *)
LEMMA WaitIs ==
    ASSUME NEW b \in Bars, NEW t \in Cids, NEW c, c = Wait(b, t)
    PROVE  /\ c \in Bars
           /\ c.state = [b.state EXCEPT ![t] = "WAITING"]
           /\ c.futexWord = [b.futexWord EXCEPT ![t] = 1]
           /\ c.lastIdx = b.lastIdx /\ c.runList = b.runList
           /\ c.curThreadIdx = b.curThreadIdx /\ c.runningThreads = b.runningThreads
           /\ c.leftThreads = b.leftThreads /\ c.phaseCount = b.phaseCount
  BY DEF Wait, Bars, States

(* The barrier once a core that was offline has been appended to the list. *)
Appended(g, t, i) == Wait([g EXCEPT !.runList = Append(@, t), !.lastIdx[t] = i], t)

(* The fields of the barrier after that. *)
LEMMA AppendedIs ==
    ASSUME NEW g \in Bars, NEW t \in Cids, NEW i \in Positions, NEW b,
           b = Appended(g, t, i)
    PROVE  /\ b \in Bars
           /\ b.state = [g.state EXCEPT ![t] = "WAITING"]
           /\ b.futexWord = [g.futexWord EXCEPT ![t] = 1]
           /\ b.lastIdx = [g.lastIdx EXCEPT ![t] = i] /\ b.runList = Append(g.runList, t)
           /\ b.curThreadIdx = g.curThreadIdx /\ b.runningThreads = g.runningThreads
           /\ b.leftThreads = g.leftThreads /\ b.phaseCount = g.phaseCount
  <1>1. Append(g.runList, t) \in Seq(Cids)
    BY DEF Bars
  <1> QED
    BY <1>1 DEF Appended, Wait, Bars, States

(* join of a core that is offline: it is appended to the list. *)
LEMMA JoinOffline ==
    ASSUME IInv, NEW t \in Cids, bar.state[t] = "OFFLINE", NEW i \in Positions,
           NEW b, b = Appended(bar, t, i)
    PROVE  /\ Sound(b, ran, [idx EXCEPT ![t] = "unset"])
           /\ b.phaseCount = bar.phaseCount
           /\ b.state = [bar.state EXCEPT ![t] = "WAITING"]
  <1> DEFINE l == bar.runList
             n == Len(l)
             list == Append(l, t)
             y == [idx EXCEPT ![t] = "unset"]
  <1>1. /\ bar \in Bars /\ idx \in IdxMarks /\ Listed(l, Online(bar)) /\ Counters(bar)
        /\ bar.curThreadIdx <= n /\ Turns(bar, ran, idx) /\ Homes(bar, idx)
    BY DEF IInv, Sound
  <1>2. /\ n \in Nat /\ DOMAIN l = 1..n /\ l \in Seq(Cids)
        /\ \A k \in 1..n : l[k] \in Cids /\ l[k] \in Online(bar)
    BY <1>1, ListedLen DEF Listed
  <1>3. /\ list \in Seq(Cids) /\ Len(list) = n + 1 /\ list[n+1] = t
        /\ \A k \in 1..n : list[k] = l[k]
    BY <1>2
  <1>6. /\ b \in Bars
        /\ b.state = [bar.state EXCEPT ![t] = "WAITING"]
        /\ b.futexWord = [bar.futexWord EXCEPT ![t] = 1]
        /\ b.lastIdx = [bar.lastIdx EXCEPT ![t] = i] /\ b.runList = list
        /\ b.curThreadIdx = bar.curThreadIdx /\ b.runningThreads = bar.runningThreads
        /\ b.leftThreads = bar.leftThreads /\ b.phaseCount = bar.phaseCount
    BY <1>1, AppendedIs
  <1> HIDE DEF list, l, n
  <1>7. /\ b.state[t] = "WAITING" /\ b.futexWord[t] = 1
        /\ \A k \in Cids \ {t} : /\ b.state[k] = bar.state[k] /\ b.lastIdx[k] = bar.lastIdx[k]
                                 /\ b.futexWord[k] = bar.futexWord[k]
    BY <1>1, <1>6 DEF Bars
  <1>8. y \in IdxMarks /\ y[t] = "unset" /\ \A k \in Cids \ {t} : y[k] = idx[k]
    BY <1>1 DEF IdxMarks
  <1> HIDE DEF y
  <1>9. /\ t \notin Online(bar) /\ Online(b) = Online(bar) \cup {t}
        /\ InState(b, "RUNNING") = InState(bar, "RUNNING")
        /\ InState(b, "LEFT") = InState(bar, "LEFT")
    BY <1>7 DEF Online, InState
  <1>10. Counters(b)
    BY <1>1, <1>6, <1>7, <1>9 DEF Counters
  <1>11. Listed(list, Online(b))
    <2>1. \A k, j \in 1..n : l[k] = l[j] => k = j
      BY <1>1 DEF Listed, n
    <2>2. \A k, j \in 1..n+1 : list[k] = list[j] => k = j
      <3>1. \A k \in 1..n : list[k] # t
        BY <1>2, <1>3, <1>9
      <3>2. \A k \in 1..n+1 : k \in 1..n \/ k = n + 1
        BY <1>2
      <3> QED
        BY <1>3, <2>1, <3>1, <3>2
    <2>3. \A k \in Online(b) : \E j \in 1..n+1 : list[j] = k
      <3>1. n + 1 \in 1..n+1 /\ \A j \in 1..n : j \in 1..n+1
        BY <1>2
      <3>2. \A k \in Online(bar) : \E j \in 1..n : l[j] = k
        BY <1>1 DEF Listed, n
      <3> QED
        BY <1>3, <1>9, <3>1, <3>2
    <2>4. \A j \in 1..n+1 : list[j] \in Online(b)
      <3>1. \A k \in 1..n+1 : k \in 1..n \/ k = n + 1
        BY <1>2
      <3> QED
        BY <1>2, <1>3, <1>9, <3>1
    <2> QED
      BY <1>3, <2>2, <2>3, <2>4 DEF Listed
  <1>12. Turns(b, ran, y)
    <2>1. ASSUME NEW k \in 1..n+1, NEW u, u = list[k]
          PROVE  /\ b.state[u] = "WAITING" /\ k > bar.curThreadIdx => u \notin ran
                 /\ b.state[u] = "WAITING" /\ k <= bar.curThreadIdx
                      => u \in ran \/ y[u] = "stale"
                 /\ b.state[u] = "RUNNING" => k <= bar.curThreadIdx /\ u \in ran
      <3>1. CASE k = n + 1
        <4>1. u = t /\ ~(k <= bar.curThreadIdx)
          BY <1>1, <1>2, <1>3, <2>1, <3>1 DEF Bars
        <4>2. t \notin ran
          BY <1>1 DEF Turns
        <4> QED
          BY <1>7, <4>1, <4>2
      <3>2. CASE k # n + 1
        <4>1. k \in 1..n /\ u = l[k]
          BY <1>2, <1>3, <2>1, <3>2
        <4>2. u \in Cids \ {t}
          BY <1>2, <1>9, <4>1
        <4>3. /\ bar.state[u] = "WAITING" /\ k > bar.curThreadIdx => u \notin ran
              /\ bar.state[u] = "WAITING" /\ k <= bar.curThreadIdx
                   => u \in ran \/ idx[u] = "stale"
              /\ bar.state[u] = "RUNNING" => k <= bar.curThreadIdx /\ u \in ran
          BY <1>1, <4>1 DEF Turns, l, n
        <4> QED
          BY <1>7, <1>8, <4>2, <4>3
      <3> QED
        BY <3>1, <3>2
    <2>2. \A k \in Cids : b.state[k] \in {"LEFT", "OFFLINE"} => k \notin ran
      BY <1>1, <1>7 DEF Turns
    <2> QED
      BY <1>3, <1>6, <2>1, <2>2 DEF Turns
  <1>13. Homes(b, y)
    <2>1. ASSUME NEW k \in Online(b), y[k] = "set"
          PROVE  b.lastIdx[k] \in 1..n+1 /\ list[b.lastIdx[k]] = k
      <3>1. k \in Online(bar) /\ k \in Cids \ {t} /\ idx[k] = "set"
        BY <1>8, <1>9, <2>1 DEF Online
      <3>2. bar.lastIdx[k] \in 1..n /\ l[bar.lastIdx[k]] = k
        BY <1>1, <3>1 DEF Homes, l, n
      <3> QED
        BY <1>2, <1>3, <1>7, <3>1, <3>2
    <2>2. /\ \A k \in InState(b, "LEFT") : y[k] # "unset"
          /\ \A k \in InState(b, "RUNNING") : y[k] = "set"
      BY <1>1, <1>7, <1>8 DEF Homes, InState
    <2> QED
      BY <1>3, <1>6, <2>1, <2>2 DEF Homes
  <1>14. b.curThreadIdx <= Len(b.runList)
    BY <1>1, <1>2, <1>3, <1>6 DEF Bars
  <1>15. Sound(b, ran, y)
    BY <1>6, <1>8, <1>10, <1>11, <1>12, <1>13, <1>14 DEF Sound
  <1> QED
    BY <1>6, <1>15 DEF y

(* The barrier once a core that had left has joined again. *)
Rejoined(g, t) ==
    LET b == [g EXCEPT !.leftThreads = @ - 1]
    IN  Wait(IF PassedBy(b, t) THEN Rescheduled(b, t) ELSE b, t)

(* Its fields, from those of the barrier after the swap if there is one. *)
LEMMA RejoinedIs ==
    ASSUME NEW g \in Bars, NEW t \in Cids, g.leftThreads # 0, NEW m \in Bars,
           m = IF PassedBy(g, t) THEN Rescheduled(g, t) ELSE g,
           NEW c, c = Rejoined(g, t)
    PROVE  /\ c \in Bars
           /\ c.state = [m.state EXCEPT ![t] = "WAITING"]
           /\ c.futexWord = [m.futexWord EXCEPT ![t] = 1]
           /\ c.lastIdx = m.lastIdx /\ c.runList = m.runList
           /\ c.curThreadIdx = m.curThreadIdx /\ c.runningThreads = m.runningThreads
           /\ c.leftThreads = m.leftThreads - 1 /\ c.phaseCount = m.phaseCount
           /\ m.phaseCount = g.phaseCount
  <1> DEFINE b == [g EXCEPT !.leftThreads = @ - 1]
             k == IF PassedBy(b, t) THEN Rescheduled(b, t) ELSE b
  <1>1. PassedBy(b, t) <=> PassedBy(g, t)
    BY DEF PassedBy, Bars
  <1>2. /\ k.state = m.state /\ k.futexWord = m.futexWord /\ k.lastIdx = m.lastIdx
        /\ k.runList = m.runList /\ k.curThreadIdx = m.curThreadIdx
        /\ k.runningThreads = m.runningThreads /\ k.leftThreads = m.leftThreads - 1
        /\ k.phaseCount = m.phaseCount /\ m.phaseCount = g.phaseCount
        /\ m.leftThreads = g.leftThreads
        /\ k = [state |-> k.state, futexWord |-> k.futexWord, lastIdx |-> k.lastIdx,
                runList |-> k.runList, curThreadIdx |-> k.curThreadIdx,
                runningThreads |-> k.runningThreads, leftThreads |-> k.leftThreads,
                phaseCount |-> k.phaseCount]
    <2>1. CASE PassedBy(g, t)
      <3>1. m = Rescheduled(g, t) /\ k = Rescheduled(b, t)
        BY <1>1, <2>1
      <3> HIDE DEF k
      <3> QED
        BY <3>1 DEF Rescheduled, Bars
    <2>2. CASE ~PassedBy(g, t)
      <3>1. m = g /\ k = b
        BY <1>1, <2>2
      <3> HIDE DEF k
      <3> QED
        BY <3>1 DEF Bars
    <2> QED
      BY <2>1, <2>2
  <1>3. c = Wait(k, t)
    BY DEF Rejoined
  <1>4. m.leftThreads - 1 \in Nat
    BY <1>2 DEF Bars
  <1> HIDE DEF k
  <1>5. k \in Bars
    BY <1>2, <1>4 DEF Bars
  <1>6. /\ c \in Bars
        /\ c.state = [k.state EXCEPT ![t] = "WAITING"]
        /\ c.futexWord = [k.futexWord EXCEPT ![t] = 1]
        /\ c.lastIdx = k.lastIdx /\ c.runList = k.runList
        /\ c.curThreadIdx = k.curThreadIdx /\ c.runningThreads = k.runningThreads
        /\ c.leftThreads = k.leftThreads /\ c.phaseCount = k.phaseCount
    <2> HIDE DEF Rejoined
    <2> QED
      BY <1>3, <1>5, WaitIs
  <1> QED
    BY <1>2, <1>6

(* join of a core that left: it waits, and has its turn in this phase again. *)
LEMMA JoinLeft ==
    ASSUME IInv, NEW t \in Cids, bar.state[t] = "LEFT",
           PassedBy(bar, t) => bar.runList[bar.lastIdx[t]] = t,
           NEW c, c = Rejoined(bar, t)
    PROVE  /\ Sound(c, ran, idx)
           /\ c.phaseCount = bar.phaseCount
           /\ c.state = [bar.state EXCEPT ![t] = "WAITING"]
  <1> DEFINE m == IF PassedBy(bar, t) THEN Rescheduled(bar, t) ELSE bar
  <1>1. /\ Sound(bar, ran, idx) /\ bar \in Bars /\ idx \in IdxMarks
        /\ Turns(bar, ran, idx) /\ Homes(bar, idx) /\ Counters(bar)
        /\ Listed(bar.runList, Online(bar))
    BY DEF IInv, Sound
  <1>2. /\ Sound(m, ran, idx) /\ m.state = bar.state
        /\ \A i \in 1..Len(m.runList) : m.runList[i] = t =>
              i > m.curThreadIdx \/ idx[t] = "stale"
    <2>1. CASE PassedBy(bar, t)
      <3>1. m = Rescheduled(bar, t)
        BY <2>1
      <3> HIDE DEF m
      <3> QED
        BY <1>1, <2>1, <3>1, RescheduledSound
    <2>2. CASE ~PassedBy(bar, t)
      <3>1. m = bar
        BY <2>2
      <3> HIDE DEF m
      <3>2. idx[t] \in {"set", "stale"} /\ t \in Online(bar)
        BY <1>1 DEF Homes, InState, IdxMarks, Online
      <3>3. ASSUME NEW i \in 1..Len(bar.runList), bar.runList[i] = t, idx[t] = "set"
            PROVE  i > bar.curThreadIdx
        <4>1. bar.lastIdx[t] \in 1..Len(bar.runList) /\ bar.runList[bar.lastIdx[t]] = t
          BY <1>1, <3>2, <3>3 DEF Homes
        <4>2. bar.lastIdx[t] = i
          BY <1>1, <3>3, <4>1 DEF Listed
        <4> QED
          BY <1>1, <2>2, <4>2 DEF PassedBy, Bars
      <3> QED
        BY <1>1, <3>1, <3>2, <3>3
    <2> QED
      BY <2>1, <2>2
  <1>3. m \in Bars /\ Counters(m) /\ m.curThreadIdx <= Len(m.runList) /\ Len(m.runList) \in Nat
    <2> HIDE DEF m
    <2> QED
      BY <1>2, ListedLen DEF Sound
  <1>4. t \in InState(bar, "LEFT") /\ bar.leftThreads # 0
    <2>1. t \in InState(bar, "LEFT")
      BY DEF InState
    <2>2. bar.leftThreads = Cardinality(InState(bar, "LEFT"))
      BY <1>1 DEF Counters
    <2> QED
      BY <2>1, <2>2, InStateFinite, FS_EmptySet
  <1>5. /\ c \in Bars
        /\ c.state = [m.state EXCEPT ![t] = "WAITING"]
        /\ c.futexWord = [m.futexWord EXCEPT ![t] = 1]
        /\ c.lastIdx = m.lastIdx /\ c.runList = m.runList
        /\ c.curThreadIdx = m.curThreadIdx /\ c.runningThreads = m.runningThreads
        /\ c.leftThreads = m.leftThreads - 1 /\ c.phaseCount = m.phaseCount
        /\ m.phaseCount = bar.phaseCount
    <2>1. m = IF PassedBy(bar, t) THEN Rescheduled(bar, t) ELSE bar
      OBVIOUS
    <2> HIDE DEF m
    <2> QED
      BY <1>1, <1>3, <1>4, <2>1, RejoinedIs
  <1> HIDE DEF m
  <1>6. m.state[t] = "LEFT" /\ t \in Online(m)
    BY <1>2 DEF Online
  <1>7. Counters(c)
    <2>1. /\ Cardinality(InState(c, "LEFT")) = Cardinality(InState(m, "LEFT")) - 1
          /\ InState(c, "RUNNING") = InState(m, "RUNNING")
      <3>1. "WAITING" \in States /\ "LEFT" = m.state[t] /\ "LEFT" # "WAITING"
        BY <1>6 DEF States
      <3>2. /\ Cardinality(InState(c, "LEFT")) = Cardinality(InState(m, "LEFT")) - 1
            /\ \A q : q # "WAITING" /\ q # "LEFT" => InState(c, q) = InState(m, q)
        BY <1>3, <1>5, <3>1, MoveCounts
      <3> QED
        BY <3>2
    <2>2. \A k \in Cids : /\ c.state[k] = "WAITING" => c.futexWord[k] = 1
                          /\ c.state[k] = "RUNNING" => c.futexWord[k] = 0
      BY <1>3, <1>5 DEF Counters, Bars
    <2> QED
      BY <1>3, <1>5, <2>1, <2>2 DEF Counters
  <1>8. t \notin ran
    BY <1>1 DEF Turns
  <1>9. \A i \in 1..Len(m.runList) : m.runList[i] = t =>
           /\ i > m.curThreadIdx => t \notin ran
           /\ i <= m.curThreadIdx => t \in ran \/ idx[t] = "stale"
    BY <1>2, <1>3, <1>8 DEF Bars
  <1>10. Changes(m, ran, idx, t, "WAITING", c, ran, idx)
    BY <1>1, <1>5, <1>6, <1>7, <1>9 DEF Changes
  <1>11. Sound(c, ran, idx)
    BY <1>2, <1>10, ChangeState
  <1> QED
    BY <1>2, <1>5, <1>11

(* The barrier after the part of leave, and of sync, before others are woken. *)
Left(g, t) == [g EXCEPT !.state[t] = "LEFT", !.leftThreads = @ + 1, !.runningThreads = @ - 1]
Synced(g, t) == Wait([g EXCEPT !.runningThreads = @ - 1], t)

(* Their fields, and those after LeaveWaiting. *)
LEMMA LeftIs ==
    ASSUME NEW g \in Bars, NEW t \in Cids, g.runningThreads # 0
    PROVE  /\ Left(g, t) \in Bars
           /\ Left(g, t).state = [g.state EXCEPT ![t] = "LEFT"]
           /\ Left(g, t).futexWord = g.futexWord
           /\ Left(g, t).lastIdx = g.lastIdx /\ Left(g, t).runList = g.runList
           /\ Left(g, t).curThreadIdx = g.curThreadIdx
           /\ Left(g, t).runningThreads = g.runningThreads - 1
           /\ Left(g, t).leftThreads = g.leftThreads + 1
           /\ Left(g, t).phaseCount = g.phaseCount
  <1>1. g.runningThreads - 1 \in Nat /\ g.leftThreads + 1 \in Nat
    BY DEF Bars
  <1> QED
    BY <1>1 DEF Left, Bars, States

(* What sync makes of the barrier before it looks for the next core to wake. *)
LEMMA SyncedIs ==
    ASSUME NEW g \in Bars, NEW t \in Cids, g.runningThreads # 0
    PROVE  /\ Synced(g, t) \in Bars
           /\ Synced(g, t).state = [g.state EXCEPT ![t] = "WAITING"]
           /\ Synced(g, t).futexWord = [g.futexWord EXCEPT ![t] = 1]
           /\ Synced(g, t).lastIdx = g.lastIdx /\ Synced(g, t).runList = g.runList
           /\ Synced(g, t).curThreadIdx = g.curThreadIdx
           /\ Synced(g, t).runningThreads = g.runningThreads - 1
           /\ Synced(g, t).leftThreads = g.leftThreads
           /\ Synced(g, t).phaseCount = g.phaseCount
  <1>1. g.runningThreads - 1 \in Nat
    BY DEF Bars
  <1> QED
    BY <1>1 DEF Synced, Wait, Bars, States

(* What leave makes of a barrier where the core waits. *)
LEMMA LeaveWaitingIs ==
    ASSUME NEW g \in Bars, NEW t \in Cids
    PROVE  /\ LeaveWaiting(g, t) \in Bars
           /\ LeaveWaiting(g, t).state = [g.state EXCEPT ![t] = "LEFT"]
           /\ LeaveWaiting(g, t).futexWord = g.futexWord
           /\ LeaveWaiting(g, t).lastIdx = g.lastIdx /\ LeaveWaiting(g, t).runList = g.runList
           /\ LeaveWaiting(g, t).curThreadIdx = g.curThreadIdx
           /\ LeaveWaiting(g, t).runningThreads = g.runningThreads
           /\ LeaveWaiting(g, t).leftThreads = g.leftThreads + 1
           /\ LeaveWaiting(g, t).phaseCount = g.phaseCount
  <1>1. g.leftThreads + 1 \in Nat
    BY DEF Bars
  <1> QED
    BY <1>1 DEF LeaveWaiting, Bars, States

(* A core that runs is counted as running. *)
LEMMA RunningCounted ==
    ASSUME NEW b, Counters(b), NEW t \in Cids, b.state[t] = "RUNNING"
    PROVE  b.runningThreads # 0
  <1>1. t \in InState(b, "RUNNING")
    BY DEF InState
  <1> QED
    BY <1>1, InStateFinite, FS_EmptySet DEF Counters

(* leave: the core no longer counts as running, and has had no turn. *)
LEMMA LeaveSound ==
    ASSUME NEW b, NEW r, NEW x, Sound(b, r, x), NEW t \in Cids, b.state[t] = "RUNNING"
    PROVE  Sound(Left(b, t), r \ {t}, x)
  <1> DEFINE c == Left(b, t)
  <1>1. b \in Bars /\ x \in IdxMarks /\ Counters(b) /\ Homes(b, x) /\ b.runningThreads # 0
    BY RunningCounted DEF Sound
  <1>2. /\ c \in Bars /\ c.state = [b.state EXCEPT ![t] = "LEFT"] /\ c.futexWord = b.futexWord
        /\ c.lastIdx = b.lastIdx /\ c.runList = b.runList /\ c.curThreadIdx = b.curThreadIdx
        /\ c.runningThreads = b.runningThreads - 1 /\ c.leftThreads = b.leftThreads + 1
    BY <1>1, LeftIs
  <1> HIDE DEF c
  <1>3. /\ Cardinality(InState(c, "LEFT")) = Cardinality(InState(b, "LEFT")) + 1
        /\ Cardinality(InState(c, "RUNNING")) = Cardinality(InState(b, "RUNNING")) - 1
    <2>1. "LEFT" \in States /\ "RUNNING" = b.state[t] /\ "RUNNING" # "LEFT"
      BY DEF States
    <2> QED
      BY <1>1, <1>2, <2>1, MoveCounts
  <1>4. Counters(c)
    <2>1. \A k \in Cids : /\ c.state[k] = "WAITING" => c.futexWord[k] = 1
                          /\ c.state[k] = "RUNNING" => c.futexWord[k] = 0
      BY <1>1, <1>2 DEF Counters, Bars
    <2>2. c.runningThreads <= parallelThreads
      BY <1>1, <1>2, BarrierAssumption DEF Counters, Bars
    <2> QED
      BY <1>1, <1>2, <1>3, <2>1, <2>2 DEF Counters
  <1>5. x[t] = "set" /\ t \in Online(b)
    BY <1>1 DEF Homes, InState, Online
  <1>6. Changes(b, r, x, t, "LEFT", c, r \ {t}, x)
    BY <1>1, <1>2, <1>4, <1>5 DEF Changes
  <1> QED
    BY <1>6, ChangeState DEF c

(* sync: the core has had its turn. *)
LEMMA SyncSound ==
    ASSUME NEW b, NEW r, NEW x, Sound(b, r, x), NEW t \in Cids, b.state[t] = "RUNNING"
    PROVE  Sound(Synced(b, t), r, x)
  <1> DEFINE c == Synced(b, t)
  <1>1. /\ b \in Bars /\ x \in IdxMarks /\ Counters(b) /\ Turns(b, r, x)
        /\ b.runningThreads # 0 /\ Listed(b.runList, Online(b))
    BY RunningCounted DEF Sound
  <1>2. /\ c \in Bars /\ c.state = [b.state EXCEPT ![t] = "WAITING"]
        /\ c.futexWord = [b.futexWord EXCEPT ![t] = 1]
        /\ c.lastIdx = b.lastIdx /\ c.runList = b.runList /\ c.curThreadIdx = b.curThreadIdx
        /\ c.runningThreads = b.runningThreads - 1 /\ c.leftThreads = b.leftThreads
    BY <1>1, SyncedIs
  <1> HIDE DEF c
  <1>3. /\ InState(c, "LEFT") = InState(b, "LEFT")
        /\ Cardinality(InState(c, "RUNNING")) = Cardinality(InState(b, "RUNNING")) - 1
    <2>1. "WAITING" \in States /\ "RUNNING" = b.state[t] /\ "RUNNING" # "WAITING"
      BY DEF States
    <2>2. /\ Cardinality(InState(c, "RUNNING")) = Cardinality(InState(b, "RUNNING")) - 1
          /\ \A q : q # "WAITING" /\ q # "RUNNING" => InState(c, q) = InState(b, q)
      BY <1>1, <1>2, <2>1, MoveCounts
    <2> QED
      BY <2>2
  <1>4. Counters(c)
    <2>1. \A k \in Cids : /\ c.state[k] = "WAITING" => c.futexWord[k] = 1
                          /\ c.state[k] = "RUNNING" => c.futexWord[k] = 0
      BY <1>1, <1>2 DEF Counters, Bars
    <2>2. c.runningThreads <= parallelThreads
      BY <1>1, <1>2, BarrierAssumption DEF Counters, Bars
    <2> QED
      BY <1>1, <1>2, <1>3, <2>1, <2>2 DEF Counters
  <1>5. \A i \in 1..Len(b.runList) : b.runList[i] = t => i <= b.curThreadIdx /\ t \in r
    BY <1>1 DEF Turns
  <1>6. t \in Online(b) /\ \A i \in 1..Len(b.runList) : b.runList[i] = t =>
           /\ i > b.curThreadIdx => t \notin r
           /\ i <= b.curThreadIdx => t \in r \/ x[t] = "stale"
    <2>1. \A i \in 1..Len(b.runList) : i \in Nat
      BY <1>1, ListedLen
    <2> QED
      BY <1>1, <1>5, <2>1 DEF Online, Bars
  <1>7. Changes(b, r, x, t, "WAITING", c, r, x)
    BY <1>1, <1>2, <1>4, <1>6 DEF Changes
  <1> QED
    BY <1>7, ChangeState DEF c

(* cleanup of a core that waits: its lastIdx may be stale. *)
LEMMA LeaveWaitingSound ==
    ASSUME NEW b, NEW r, NEW x, Sound(b, r, x), NEW t \in Cids, b.state[t] = "WAITING",
           NEW y \in IdxMarks, y[t] # "unset", y[t] = "set" => x[t] = "set",
           \A k \in Cids \ {t} : y[k] = x[k]
    PROVE  Sound(LeaveWaiting(b, t), r \ {t}, y)
  <1> DEFINE c == LeaveWaiting(b, t)
  <1>1. b \in Bars /\ x \in IdxMarks /\ Counters(b)
    BY DEF Sound
  <1>2. /\ c \in Bars /\ c.state = [b.state EXCEPT ![t] = "LEFT"] /\ c.futexWord = b.futexWord
        /\ c.lastIdx = b.lastIdx /\ c.runList = b.runList /\ c.curThreadIdx = b.curThreadIdx
        /\ c.runningThreads = b.runningThreads /\ c.leftThreads = b.leftThreads + 1
    BY <1>1, LeaveWaitingIs
  <1> HIDE DEF c
  <1>3. /\ Cardinality(InState(c, "LEFT")) = Cardinality(InState(b, "LEFT")) + 1
        /\ InState(c, "RUNNING") = InState(b, "RUNNING")
    <2>1. "LEFT" \in States /\ "WAITING" = b.state[t] /\ "WAITING" # "LEFT"
      BY DEF States
    <2>2. /\ Cardinality(InState(c, "LEFT")) = Cardinality(InState(b, "LEFT")) + 1
          /\ \A q : q # "LEFT" /\ q # "WAITING" => InState(c, q) = InState(b, q)
      BY <1>1, <1>2, <2>1, MoveCounts
    <2> QED
      BY <2>2
  <1>4. Counters(c)
    <2>1. \A k \in Cids : /\ c.state[k] = "WAITING" => c.futexWord[k] = 1
                          /\ c.state[k] = "RUNNING" => c.futexWord[k] = 0
      BY <1>1, <1>2 DEF Counters, Bars
    <2> QED
      BY <1>1, <1>2, <1>3, <2>1 DEF Counters
  <1>5. t \in Online(b)
    BY DEF Online
  <1>6. Changes(b, r, x, t, "LEFT", c, r \ {t}, y)
    BY <1>1, <1>2, <1>4, <1>5 DEF Changes
  <1> QED
    BY <1>6, ChangeState DEF c

-----------------------------------------------------------------------------
(* The steps *)

(* Every operation keeps the invariant and is fair, whichever cores it       *)
(* wakes.                                                                    *)
LEMMA JoinStep ==
    ASSUME IInv, NEW t \in Cids, join(t)
    PROVE  IInv' /\ FairStep
  <1>1. Sound(bar, ran, idx) /\ ran \subseteq Cids /\ bar \in Bars /\ idx \in IdxMarks
    BY DEF IInv, Sound
  <1>2. ASSUME NEW i \in Positions, bar.state[t] = "OFFLINE",
               Finish(Appended(bar, t, i), ran, [idx EXCEPT ![t] = "unset"]),
               where' = [where EXCEPT ![t] = "blocked"]
        PROVE  IInv' /\ FairStep
    <2> DEFINE b == Appended(bar, t, i)
               y == [idx EXCEPT ![t] = "unset"]
    <2>1. /\ Sound(b, ran, y) /\ b.phaseCount = bar.phaseCount
          /\ b.state = [bar.state EXCEPT ![t] = "WAITING"]
      BY <1>2, JoinOffline
    <2>2. Finish(b, ran, y)
      BY <1>2
    <2>3. \A k \in Cids \ {t} : y[k] = idx[k]
      BY <1>1 DEF IdxMarks
    <2> HIDE DEF b, y
    <2>4. b.state[t] = "WAITING" /\ \A k \in Cids \ {t} : b.state[k] = bar.state[k]
      BY <1>1, <2>1 DEF Bars
    <2>5. bar.state[t] # "WAITING"
      BY <1>2
    <2> QED
      BY <1>1, <1>2, <2>1, <2>2, <2>3, <2>4, <2>5, Finished
  <1>3. ASSUME failed' = TRUE, UNCHANGED <<bar, where, ran, idx>>
        PROVE  IInv' /\ FairStep
    BY <1>3 DEF IInv, Whereabouts, FairStep
  <1>4. ASSUME bar.state[t] = "LEFT",
               PassedBy(bar, t) => bar.runList[bar.lastIdx[t]] = t,
               Finish(Rejoined(bar, t), ran, idx),
               where' = [where EXCEPT ![t] = "blocked"]
        PROVE  IInv' /\ FairStep
    <2> DEFINE b == Rejoined(bar, t)
    <2>1. /\ Sound(b, ran, idx) /\ b.phaseCount = bar.phaseCount
          /\ b.state = [bar.state EXCEPT ![t] = "WAITING"]
      BY <1>4, JoinLeft
    <2>2. Finish(b, ran, idx)
      BY <1>4
    <2> HIDE DEF b
    <2>3. b.state[t] = "WAITING" /\ \A k \in Cids \ {t} : b.state[k] = bar.state[k]
      BY <1>1, <2>1 DEF Bars
    <2>4. bar.state[t] # "WAITING"
      BY <1>4
    <2> QED
      BY <1>1, <1>4, <2>1, <2>2, <2>3, <2>4, Finished
  <1>5. \/ /\ bar.state[t] = "OFFLINE"
           /\ \E i \in Positions :
                 Finish(Appended(bar, t, i), ran, [idx EXCEPT ![t] = "unset"])
           /\ where' = [where EXCEPT ![t] = "blocked"]
        \/ failed' = TRUE /\ UNCHANGED <<bar, where, ran, idx>>
        \/ /\ bar.state[t] = "LEFT"
           /\ PassedBy(bar, t) => bar.runList[bar.lastIdx[t]] = t
           /\ Finish(Rejoined(bar, t), ran, idx)
           /\ where' = [where EXCEPT ![t] = "blocked"]
    BY Zenon DEF join, Appended, Rejoined
  <1> QED
    BY <1>2, <1>3, <1>4, <1>5

(* leave of a running core keeps the invariant and gives no second turn. *)
LEMMA LeaveStep ==
    ASSUME IInv, NEW t \in Cids, LeaveRunning(t)
    PROVE  IInv' /\ FairStep
  <1>1. Sound(bar, ran, idx) /\ ran \subseteq Cids /\ bar \in Bars
    BY DEF IInv, Sound
  <1>2. /\ bar.state[t] = "RUNNING" /\ Finish(Left(bar, t), ran \ {t}, idx)
        /\ where' = [where EXCEPT ![t] = "away"]
    BY DEF LeaveRunning, Left
  <1> DEFINE b == Left(bar, t)
  <1>3. Sound(b, ran \ {t}, idx)
    BY <1>1, <1>2, LeaveSound
  <1>4. b.state = [bar.state EXCEPT ![t] = "LEFT"] /\ b.phaseCount = bar.phaseCount
    <2>1. bar.runningThreads # 0
      BY <1>1, <1>2, RunningCounted DEF Sound
    <2> QED
      BY <1>1, <2>1, LeftIs
  <1> HIDE DEF b
  <1>5. b.state[t] = "LEFT" /\ \A k \in Cids \ {t} : b.state[k] = bar.state[k]
    BY <1>1, <1>4 DEF Bars
  <1>6. /\ ran \ {t} \subseteq Cids /\ bar.state[t] # "WAITING"
        /\ \A k \in Cids \ {t} : k \in ran \ {t} <=> k \in ran
    BY <1>1, <1>2
  <1>7. Finish(b, ran \ {t}, idx)
    BY <1>2 DEF b
  <1> QED
    BY <1>2, <1>3, <1>4, <1>5, <1>6, <1>7, Finished

(* So does sync. *)
LEMMA SyncStep ==
    ASSUME IInv, NEW t \in Cids, sync(t)
    PROVE  IInv' /\ FairStep
  <1>1. Sound(bar, ran, idx) /\ ran \subseteq Cids /\ bar \in Bars
    BY DEF IInv, Sound
  <1>2. /\ Finish(Synced(bar, t), ran, idx)
        /\ where' = [where EXCEPT ![t] = "blocked"]
    BY DEF sync, Syncing, Synced
  <1>3. bar.state[t] = "RUNNING"
    BY DEF sync, IInv, Whereabouts
  <1> DEFINE b == Synced(bar, t)
  <1>4. Sound(b, ran, idx)
    BY <1>1, <1>3, SyncSound
  <1>5. b.state = [bar.state EXCEPT ![t] = "WAITING"] /\ b.phaseCount = bar.phaseCount
    <2>1. bar.runningThreads # 0
      BY <1>1, <1>3, RunningCounted DEF Sound
    <2> QED
      BY <1>1, <2>1, SyncedIs
  <1> HIDE DEF b
  <1>6. b.state[t] = "WAITING" /\ \A k \in Cids \ {t} : b.state[k] = bar.state[k]
    BY <1>1, <1>5 DEF Bars
  <1>7. bar.state[t] # "WAITING"
    BY <1>3
  <1>8. Finish(b, ran, idx)
    BY <1>2 DEF b
  <1> QED
    BY <1>1, <1>2, <1>4, <1>5, <1>6, <1>7, <1>8, Finished

(* So does processCleanup, which takes a killed process's cores out. *)
LEMMA CleanupStep ==
    ASSUME IInv, NEW t \in Cids, cleanup(t)
    PROVE  IInv' /\ FairStep
  <1>1. CASE LeaveRunning(t)
    BY <1>1, LeaveStep
  <1>2. CASE /\ bar.state[t] = "WAITING" /\ bar' = LeaveWaiting(bar, t)
             /\ where' = [where EXCEPT ![t] = "away"] /\ ran' = ran \ {t}
             /\ idx' = [idx EXCEPT ![t] = IF @ = "unset" THEN "stale" ELSE @]
             /\ UNCHANGED failed
    <2>1. /\ Sound(bar, ran, idx) /\ ran \subseteq Cids /\ bar \in Bars /\ failed \in BOOLEAN
          /\ where \in [Cids -> {"away", "blocked", "running"}] /\ Whereabouts
      BY DEF IInv, Sound
    <2>2. Sound(bar', ran', idx')
      <3>1. idx \in IdxMarks
        BY <2>1 DEF Sound
      <3>2. /\ idx' \in IdxMarks /\ idx'[t] # "unset" /\ (idx'[t] = "set" => idx[t] = "set")
            /\ \A k \in Cids \ {t} : idx'[k] = idx[k]
        BY <1>2, <3>1 DEF IdxMarks
      <3>3. Sound(LeaveWaiting(bar, t), ran \ {t}, idx')
        BY <1>2, <2>1, <3>2, LeaveWaitingSound, ZenonT(60)
      <3> QED
        BY <1>2, <3>3
    <2>3. /\ bar'.state = [bar.state EXCEPT ![t] = "LEFT"]
          /\ bar'.phaseCount = bar.phaseCount
      BY <1>2, <2>1, LeaveWaitingIs
    <2>4. bar'.state[t] = "LEFT" /\ \A k \in Cids \ {t} : bar'.state[k] = bar.state[k]
      BY <2>1, <2>3 DEF Bars
    <2>5. /\ where' \in [Cids -> {"away", "blocked", "running"}] /\ where'[t] = "away"
          /\ \A k \in Cids \ {t} : where'[k] = where[k]
      BY <1>2, <2>1
    <2>6. Whereabouts'
      BY <2>1, <2>4, <2>5 DEF Whereabouts
    <2>7. FairStep
      BY <2>3, <2>4 DEF FairStep
    <2> QED
      BY <1>2, <2>1, <2>2, <2>5, <2>6, <2>7 DEF IInv
  <1> QED
    BY <1>1, <1>2 DEF cleanup

(* So does the return of a woken thread from its futex wait. *)
LEMMA ResumeStep ==
    ASSUME IInv, NEW t \in Cids, resume(t)
    PROVE  IInv' /\ FairStep
  <1>1. /\ Sound(bar, ran, idx) /\ Counters(bar) /\ Whereabouts /\ bar \in Bars
        /\ where \in [Cids -> {"away", "blocked", "running"}]
    BY DEF IInv, Sound
  <1>2. bar.state[t] = "RUNNING"
    BY <1>1 DEF resume, Whereabouts, Counters
  <1>3. /\ where' \in [Cids -> {"away", "blocked", "running"}] /\ where'[t] = "running"
        /\ \A k \in Cids \ {t} : where'[k] = where[k]
    BY <1>1 DEF resume
  <1>4. UNCHANGED <<bar, ran, idx, failed>>
    BY DEF resume
  <1>5. Whereabouts'
    BY <1>1, <1>2, <1>3, <1>4 DEF Whereabouts
  <1>6. FairStep
    BY <1>4 DEF FairStep
  <1> QED
    BY <1>3, <1>4, <1>5, <1>6 DEF IInv

(* One step of any core, or none. *)
LEMMA NextSound ==
    ASSUME IInv, [Next]_vars
    PROVE  IInv' /\ (UNCHANGED vars \/ FairStep)
  <1>1. CASE UNCHANGED vars
    BY <1>1 DEF vars, IInv, Whereabouts
  <1>2. CASE Next
    <2>1. PICK t \in Cids : Step(t)
      BY <1>2 DEF Next
    <2> QED
      BY <2>1, JoinStep, LeaveStep, SyncStep, CleanupStep, ResumeStep DEF Step, leave
  <1> QED
    BY <1>1, <1>2

-----------------------------------------------------------------------------
(* The results *)

(* The empty barrier satisfies the invariant. *)
LEMMA InitSound == Init => IInv
  <1> SUFFICES ASSUME Init PROVE IInv
    OBVIOUS
  <1>1. /\ bar.state = [t \in Cids |-> "OFFLINE"] /\ bar.futexWord = [t \in Cids |-> 0]
        /\ bar.lastIdx = [t \in Cids |-> 1] /\ bar.runList = <<>> /\ bar.curThreadIdx = 0
        /\ bar.runningThreads = 0 /\ bar.leftThreads = 0 /\ bar.phaseCount = 0
        /\ bar = [state |-> bar.state, futexWord |-> bar.futexWord, lastIdx |-> bar.lastIdx,
                  runList |-> bar.runList, curThreadIdx |-> bar.curThreadIdx,
                  runningThreads |-> bar.runningThreads, leftThreads |-> bar.leftThreads,
                  phaseCount |-> bar.phaseCount]
        /\ where = [t \in Cids |-> "away"] /\ ran = {} /\ idx = [t \in Cids |-> "set"]
        /\ failed = FALSE
    BY DEF Init
  <1>2. bar \in Bars
    <2>1. Cardinality(Cids) \in Nat /\ \A t \in Cids : Cardinality(Cids) # 0
      BY BarrierAssumption, FS_CardinalityType, FS_EmptySet
    <2>2. bar.lastIdx \in [Cids -> Positions]
      BY <1>1, <2>1 DEF Positions
    <2>3. 0 \in 0..CleanupPeriod-1
      BY BarrierAssumption
    <2>4. <<>> \in Seq(Cids)
      OBVIOUS
    <2>5. bar.state \in [Cids -> States] /\ bar.futexWord \in [Cids -> {0, 1}]
      BY <1>1 DEF States
    <2>6. /\ bar.runList \in Seq(Cids) /\ bar.curThreadIdx \in Nat /\ bar.runningThreads \in Nat
          /\ bar.leftThreads \in Nat /\ bar.phaseCount \in 0..CleanupPeriod-1
      BY <1>1, <2>3, <2>4
    <2> QED
      BY <1>1, <2>2, <2>5, <2>6 DEF Bars
  <1>3. /\ Online(bar) = {} /\ InState(bar, "RUNNING") = {} /\ InState(bar, "LEFT") = {}
    BY <1>1 DEF Online, InState
  <1>4. Listed(bar.runList, Online(bar)) /\ Len(bar.runList) = 0
    BY <1>1, <1>3 DEF Listed
  <1>5. Counters(bar)
    <2>1. Cardinality({}) = 0
      BY FS_EmptySet
    <2>2. 0 <= parallelThreads
      BY BarrierAssumption
    <2>3. \A t \in Cids : bar.state[t] = "OFFLINE"
      BY <1>1
    <2> QED
      BY <1>1, <1>3, <2>1, <2>2, <2>3 DEF Counters
  <1>6. Turns(bar, ran, idx)
    BY <1>1, <1>4 DEF Turns
  <1>7. Homes(bar, idx)
    BY <1>3 DEF Homes
  <1>8. idx \in IdxMarks
    BY <1>1 DEF IdxMarks
  <1>9. Whereabouts
    BY <1>1 DEF Whereabouts
  <1> QED
    <2>1. Sound(bar, ran, idx)
      <3>1. bar.curThreadIdx <= Len(bar.runList)
        BY <1>1, <1>4
      <3> QED
        BY <1>2, <1>4, <1>5, <1>6, <1>7, <1>8, <3>1 DEF Sound
    <2>2. where \in [Cids -> {"away", "blocked", "running"}] /\ ran \subseteq Cids /\ failed \in BOOLEAN
      BY <1>1
    <2> QED
      BY <1>9, <2>1, <2>2 DEF IInv

(* The barrier is sound in every reachable state. *)
LEMMA InvHolds == Spec => []IInv
  <1>1. IInv /\ [Next]_vars => IInv'
    BY NextSound
  <1> QED
    BY <1>1, InitSound, PTL DEF Spec

(* No wakeup is lost, whatever the number of cores and the order in which    *)
(* they join, leave, synchronise and are killed: a core in WAITING has its   *)
(* futex word set and its thread blocked, and a core in RUNNING has it       *)
(* cleared, so that the panic of checkRunList is unreachable.                *)
THEOREM NoWakeupIsLost == Spec => []NoWakeupLost
  <1>1. IInv => NoWakeupLost
    <2> SUFFICES ASSUME IInv, NEW t \in Cids
                 PROVE  /\ bar.state[t] = "WAITING" => bar.futexWord[t] = 1 /\ where[t] = "blocked"
                        /\ bar.state[t] = "RUNNING" => bar.futexWord[t] = 0 /\ where[t] # "away"
      BY DEF NoWakeupLost
    <2>1. Counters(bar) /\ Whereabouts /\ where[t] \in {"away", "blocked", "running"}
      BY DEF IInv, Sound
    <2> QED
      BY <2>1 DEF Counters, Whereabouts
  <1> QED
    BY <1>1, InvHolds, PTL

(* The run list holds each core that is not offline once, the counters that  *)
(* decide the end of a phase are exact, and lastIdx leads a core that left   *)
(* to its own place, through every swap, cleanup and shuffle of the list.    *)
THEOREM PlacesAreExact == Spec => []PlacesExact
  <1>1. IInv => PlacesExact
    <2> SUFFICES ASSUME IInv PROVE PlacesExact
      OBVIOUS
    <2>1. /\ bar \in Bars /\ idx \in IdxMarks /\ Listed(bar.runList, Online(bar))
          /\ bar.curThreadIdx <= Len(bar.runList) /\ Counters(bar) /\ Homes(bar, idx)
      BY DEF IInv, Sound
    <2>2. Len(bar.runList) \in Nat /\ DOMAIN bar.runList = 1..Len(bar.runList)
      BY <2>1, ListedLen
    <2>3. TypeOK
      <3>1. bar.runningThreads \in 0..parallelThreads /\ bar.curThreadIdx \in 0..Len(bar.runList)
        BY <2>1, <2>2, BarrierAssumption DEF Bars, Counters
      <3> QED
        BY <2>1, <3>1 DEF TypeOK, Bars, IInv, IdxMarks
    <2>4. RunListExact
      <3>1. IsInjective(bar.runList)
        BY <2>1, <2>2 DEF IsInjective, Listed
      <3>2. ToSet(bar.runList) = Online(bar)
        BY <2>1, <2>2 DEF ToSet, Listed
      <3>3. Online(bar) = Cids \ InState(bar, "OFFLINE")
        BY DEF Online, InState
      <3> QED
        BY <2>1, <3>1, <3>2, <3>3 DEF RunListExact, Counters
    <2>5. LastIdxLeadsHome
      BY <2>1 DEF LastIdxLeadsHome, Homes, Online, InState
    <2> QED
      BY <2>3, <2>4, <2>5 DEF PlacesExact
  <1> QED
    BY <1>1, InvHolds, PTL

(* No phase ends before every waiting core has had its turn in it, and no    *)
(* core has a second turn in a phase unless it left and joined again.        *)
THEOREM EveryTurnIsFair == Spec => TurnsAreFair
  <1>1. IInv /\ [Next]_vars => [FairStep]_vars
    BY NextSound
  <1>2. IInv /\ [Next]_vars => IInv'
    BY NextSound
  <1>3. Spec => [][FairStep]_vars
    BY <1>1, <1>2, InitSound, PTL DEF Spec
  <1> QED
    BY <1>3, PTL DEF TurnsAreFair, FairStep

=============================================================================
