-------------------------- MODULE DDRMemoryProofs --------------------------
(***************************************************************************)
(* The DDR controller, for all queue depths, timings, banks and frequencies  *)
(* that the constructor accepts.  First what ddr_mem.h says of                *)
(* matchingMemToSysCycle, "you can prove this with inequalities"; then, from   *)
(* one inductive invariant, that the scheduling event exists exactly while    *)
(* there is work and runs in its memory cycle, and that a request is passed   *)
(* by no more row hits than the limit allows; and that the ACTs of the rank   *)
(* keep to tFAW.                                                            *)
(***************************************************************************)
EXTENDS DDRMemory, FiniteSetTheorems, SequenceTheorems, WellFoundedInduction, TLAPS

(* The quotient of a \div b: what the provers need of integer division. *)
LEMMA Quotient ==
    ASSUME NEW a \in Int, NEW b \in Nat \ {0}
    PROVE  /\ a \div b \in Int
           /\ b * (a \div b) <= a
           /\ a < b * (a \div b) + b
  BY Z3

(* An integer between b * q and b * q + b has quotient q. *)
LEMMA QuotientUnique ==
    ASSUME NEW a \in Int, NEW b \in Nat \ {0}, NEW q \in Int,
           b * q <= a, a < b * q + b
    PROVE  a \div b = q
  BY Z3

(* Multiplying by a positive number keeps an inequality. *)
LEMMA Scale ==
    ASSUME NEW a \in Int, NEW b \in Int, NEW k \in Nat, a <= b
    PROVE  a * k <= b * k
  BY Z3

(* A memory cycle m is translated to the middle of its system cycles, so that         *)
(* rounding down twice leaves it within the cycle.                                    *)
THEOREM MatchingCycle ==
    ASSUME NEW m \in Nat \ {0}
    PROVE  /\ matchingMemToSysCycle(m) \in Nat
           /\ sysToMemCycle(matchingMemToSysCycle(m)) = m
  <1> DEFINE a == (2 * m - 1) * sysFreq
             q == a \div memFreq
             x == q \div 2
  <1>1. sysFreq \in Nat \ {0} /\ memFreq \in Nat \ {0} /\ 2 * memFreq < sysFreq
    BY FreqAssumption
  <1>2. m * sysFreq \in Int /\ a = 2 * (m * sysFreq) - sysFreq /\ a \in Int
    BY <1>1
  <1>3. q \in Int /\ memFreq * q <= a /\ a < memFreq * q + memFreq
    BY <1>1, <1>2, Quotient
  <1>4. x \in Int /\ 2 * x <= q /\ q < 2 * x + 2
    BY <1>3, Quotient
  <1> HIDE DEF a, q, x
  <1>5. x * memFreq \in Int /\ memFreq * q \in Int /\ memFreq * q = q * memFreq
    BY <1>1, <1>3, <1>4
  <1>6. 2 * (x * memFreq) <= a
    <2>1. (2 * x) * memFreq <= q * memFreq
      BY <1>1, <1>3, <1>4, Scale
    <2>2. (2 * x) * memFreq = 2 * (x * memFreq)
      BY <1>1, <1>4
    <2> QED
      BY <1>2, <1>3, <1>5, <2>1, <2>2
  <1>7. a < 2 * (x * memFreq) + 2 * memFreq
    <2>1. q * memFreq <= (2 * x + 1) * memFreq
      BY <1>1, <1>3, <1>4, Scale
    <2>2. (2 * x + 1) * memFreq = 2 * (x * memFreq) + memFreq
      BY <1>1, <1>4
    <2> QED
      BY <1>1, <1>2, <1>3, <1>5, <2>1, <2>2
  <1>8. sysFreq * (m - 1) = m * sysFreq - sysFreq
    BY <1>1
  <1>9. /\ sysFreq * (m - 1) <= x * memFreq
        /\ x * memFreq < sysFreq * (m - 1) + sysFreq
    BY <1>1, <1>2, <1>5, <1>6, <1>7, <1>8
  <1>10. (x * memFreq) \div sysFreq = m - 1
    <2>1. m - 1 \in Int
      OBVIOUS
    <2> QED
      BY <1>1, <1>5, <1>9, <2>1, QuotientUnique
  <1>11. x >= 0
    <2>1. x * memFreq >= 0
      <3>1. m * sysFreq >= sysFreq
        BY <1>1
      <3> QED
        BY <1>1, <1>2, <1>5, <1>8, <1>9, <3>1
    <2>2. CASE x <= -1
      <3>1. x * memFreq <= (-1) * memFreq
        BY <1>1, <1>4, <2>2, Scale
      <3> QED
        BY <1>1, <1>5, <2>1, <3>1
    <2> QED
      BY <1>4, <2>2
  <1> QED
    BY <1>4, <1>10, <1>11 DEF matchingMemToSysCycle, sysToMemCycle, a, q, x

(* Later system cycles are not in earlier memory cycles. *)
LEMMA SysToMemMonotone ==
    ASSUME NEW s \in Nat, NEW t \in Nat, s <= t
    PROVE  /\ sysToMemCycle(s) \in Int /\ sysToMemCycle(t) \in Int
           /\ sysToMemCycle(s) <= sysToMemCycle(t)
  <1> DEFINE p == (s * memFreq) \div sysFreq
             r == (t * memFreq) \div sysFreq
  <1>1. sysFreq \in Nat \ {0} /\ memFreq \in Nat \ {0}
    BY FreqAssumption
  <1>2. s * memFreq \in Int /\ t * memFreq \in Int /\ s * memFreq <= t * memFreq
    BY <1>1, Scale
  <1>3. /\ p \in Int /\ sysFreq * p <= s * memFreq
        /\ r \in Int /\ t * memFreq < sysFreq * r + sysFreq
    BY <1>1, <1>2, Quotient
  <1> HIDE DEF p, r
  <1>4. p <= r
    <2>1. SUFFICES ASSUME r + 1 <= p PROVE FALSE
      BY <1>3
    <2>2. (r + 1) * sysFreq <= p * sysFreq
      BY <1>1, <1>3, <2>1, Scale
    <2>3. /\ (r + 1) * sysFreq = sysFreq * r + sysFreq /\ p * sysFreq = sysFreq * p
          /\ sysFreq * r \in Int /\ sysFreq * p \in Int
      BY <1>1, <1>3
    <2> QED
      BY <1>1, <1>2, <1>3, <2>2, <2>3
  <1> QED
    BY <1>3, <1>4 DEF sysToMemCycle, p, r

(* What tick() asserts: the scheduling event, queued by a handler at sysCycle for a    *)
(* memory cycle that has not passed, runs in exactly that memory cycle, even if its    *)
(* own middle has passed.                                                             *)
THEOREM TickHitsItsCycle ==
    ASSUME NEW sysCycle \in Nat, NEW m \in Nat \ {0}, sysToMemCycle(sysCycle) <= m
    PROVE  sysToMemCycle(enqSysCycle(m, sysCycle)) = m
  <1> DEFINE x == matchingMemToSysCycle(m)
  <1>1. x \in Nat /\ sysToMemCycle(x) = m
    BY MatchingCycle
  <1>2. CASE x >= sysCycle
    BY <1>1, <1>2 DEF enqSysCycle
  <1>3. CASE x < sysCycle
    <2>1. sysToMemCycle(sysCycle) \in Int /\ m <= sysToMemCycle(sysCycle)
      BY <1>1, <1>3, SysToMemMonotone
    <2>2. enqSysCycle(m, sysCycle) = sysCycle
      BY <1>1, <1>3 DEF enqSysCycle
    <2> QED
      BY <2>1, <2>2
  <1> QED
    BY <1>1, <1>2, <1>3
-----------------------------------------------------------------------------
(* A nonempty set of natural numbers has a least element. *)
LEMMA NatMin ==
    ASSUME NEW I \in SUBSET Nat, I # {}
    PROVE  \E m \in I : \A k \in I : m <= k
  <1>1. PICK R : /\ IsWellFoundedOn(R, Nat)
                 /\ \A x, y \in Nat : y < x => <<y, x>> \in R
    <2>1. IsWellFoundedOn(OpToRel(<, Nat), Nat)
      BY NatLessThanWellFounded
    <2>2. \A x, y \in Nat : y < x => <<y, x>> \in OpToRel(<, Nat)
      BY DEF OpToRel
    <2> QED
      BY <2>1, <2>2, Zenon
  <1>2. \E x \in I : \A y \in I : ~ (<<y, x>> \in R)
    BY <1>1, WFMin, Zenon
  <1>3. PICK m \in I : \A y \in I : ~ (<<y, m>> \in R)
    BY <1>2
  <1>4. \A y \in I : ~ (y < m)
    BY <1>1, <1>3
  <1> QED
    BY <1>4

(* A list of elements of A, each at most once. *)
IsList(q, A) == q \in Seq(A) /\ IsInjective(q)

(* A part of a sequence: the k elements behind the first d. *)
LEMMA Part ==
    ASSUME NEW A, NEW q \in Seq(A), NEW d \in Nat, NEW k \in Nat, d + k <= Len(q),
           NEW m, NEW n, m = d + 1, n = d + k, NEW r, r = SubSeq(q, m, n)
    PROVE  r \in Seq(A) /\ Len(r) = k /\ \A i \in 1 .. k : r[i] = q[d + i]
  <1>1. m \in Int /\ n \in Int /\ \A i \in m .. n : q[i] \in A
    OBVIOUS
  <1>2. n - m + 1 = k /\ \A i \in 1 .. k : m + i - 1 = d + i
    OBVIOUS
  <1>3. /\ SubSeq(q, m, n) \in Seq(A)
        /\ Len(SubSeq(q, m, n)) = IF m <= n THEN n - m + 1 ELSE 0
        /\ \A i \in 1 .. n - m + 1 : SubSeq(q, m, n)[i] = q[m + i - 1]
    BY <1>1, SubSeqProperties
  <1>4. Len(SubSeq(q, m, n)) = k
    BY <1>2, <1>3
  <1>5. \A i \in 1 .. k : SubSeq(q, m, n)[i] = q[d + i]
    BY <1>2, <1>3
  <1> QED
    BY <1>3, <1>4, <1>5

(* A sequence of m elements before one of n. *)
LEMMA Joining ==
    ASSUME NEW A, NEW a \in Seq(A), NEW b \in Seq(A), NEW m \in Nat, NEW n \in Nat,
           Len(a) = m, Len(b) = n, NEW k, k = m + n,
           NEW r, r = a \o b
    PROVE  /\ r \in Seq(A) /\ Len(r) = k
           /\ \A i \in 1 .. k : r[i] = IF i <= m THEN a[i] ELSE b[i - m]
  BY ConcatProperties

(* Appending a new element. *)
LEMMA AppendList ==
    ASSUME NEW A, NEW q, IsList(q, A), NEW e \in A, e \notin ToSet(q)
    PROVE  IsList(Append(q, e), A) /\ ToSet(Append(q, e)) = ToSet(q) \cup {e}
  <1> DEFINE r == Append(q, e)
  <1>1. q \in Seq(A) /\ Len(q) \in Nat /\ DOMAIN q = 1 .. Len(q)
    BY DEF IsList
  <1>2. /\ r \in Seq(A) /\ DOMAIN r = 1 .. Len(q) + 1
        /\ \A i \in 1 .. Len(q) : r[i] = q[i]
        /\ r[Len(q) + 1] = e
    BY <1>1, AppendProperties
  <1> HIDE DEF r
  <1>3. \A i \in 1 .. Len(q) + 1 : i \in 1 .. Len(q) \/ i = Len(q) + 1
    BY <1>1
  <1>4. \A i \in 1 .. Len(q) : q[i] # e
    BY <1>1 DEF ToSet
  <1>5. IsInjective(r)
    BY <1>1, <1>2, <1>3, <1>4 DEF IsList, IsInjective
  <1>6. ToSet(r) = ToSet(q) \cup {e}
    BY <1>1, <1>2, <1>3 DEF ToSet
  <1> QED
    BY <1>2, <1>5, <1>6 DEF IsList, r

(* List r is list q with e put in at place n. *)
Inserted(r, q, n, e) ==
    /\ DOMAIN r = 1 .. Len(q) + 1
    /\ \A i \in 1 .. Len(q) + 1 : r[i] = IF i < n THEN q[i] ELSE IF i = n THEN e ELSE q[i - 1]

(* Where an insertion puts the elements. *)
LEMMA InsertPlaces ==
    ASSUME NEW A, NEW q \in Seq(A), NEW e \in A, NEW n \in 1 .. Len(q) + 1
    PROVE  InsertAt(q, n, e) \in Seq(A) /\ Inserted(InsertAt(q, n, e), q, n, e)
  <1> DEFINE r == InsertAt(q, n, e)
             a == SubSeq(q, 1, n - 1)
             b == SubSeq(q, n, Len(q))
  <1>1. q \in Seq(A) /\ Len(q) \in Nat /\ DOMAIN q = 1 .. Len(q)
    OBVIOUS
  <1>2. a \in Seq(A) /\ Len(a) = n - 1 /\ \A i \in 1 .. n - 1 : a[i] = q[i]
    <2>1. 0 \in Nat /\ n - 1 \in Nat /\ 1 = 0 + 1 /\ n - 1 = 0 + (n - 1) /\ 0 + (n - 1) <= Len(q)
          /\ \A i \in 1 .. n - 1 : 0 + i = i
      BY <1>1
    <2>2. /\ a \in Seq(A) /\ Len(a) = n - 1
          /\ \A i \in 1 .. n - 1 : a[i] = q[0 + i]
      BY <1>1, <2>1, Part
    <2> QED
      BY <2>1, <2>2
  <1>3. /\ b \in Seq(A) /\ Len(b) = (Len(q) - n) + 1
        /\ \A i \in 1 .. (Len(q) - n) + 1 : b[i] = q[(n - 1) + i]
    <2>1. n - 1 \in Nat /\ (Len(q) - n) + 1 \in Nat /\ (n - 1) + 1 = n
          /\ (n - 1) + ((Len(q) - n) + 1) = Len(q)
      BY <1>1
    <2> QED
      BY <1>1, <2>1, Part
  <1>4. r = (a \o <<e>>) \o b
    BY DEF InsertAt
  <1> HIDE DEF r, a, b
  <1>5. n - 1 \in Nat /\ (Len(q) - n) + 1 \in Nat /\ (n - 1) + 1 = n
        /\ Len(q) + 1 = n + ((Len(q) - n) + 1) /\ n \in Nat
        /\ <<e>> \in Seq(A) /\ Len(<<e>>) = 1
    BY <1>1
  <1>6. /\ a \o <<e>> \in Seq(A) /\ Len(a \o <<e>>) = n
        /\ \A i \in 1 .. n : (a \o <<e>>)[i] = IF i <= n - 1 THEN a[i] ELSE <<e>>[i - (n - 1)]
    BY <1>2, <1>5, Joining
  <1>7. /\ r \in Seq(A) /\ Len(r) = Len(q) + 1
        /\ \A i \in 1 .. Len(q) + 1 : r[i] = IF i <= n THEN (a \o <<e>>)[i] ELSE b[i - n]
    <2> DEFINE p == a \o <<e>>
               l == (Len(q) - n) + 1
               m == Len(q) + 1
    <2>1. /\ l \in Nat /\ m = n + l /\ Len(p) = n /\ Len(b) = l /\ p \in Seq(A)
          /\ b \in Seq(A) /\ n \in Nat
      BY <1>3, <1>5, <1>6
    <2>2. r = p \o b
      BY <1>4
    <2> HIDE DEF p, l, m
    <2>3. r \in Seq(A) /\ Len(r) = m /\ \A i \in 1 .. m : r[i] = IF i <= n THEN p[i] ELSE b[i - n]
      BY <2>1, <2>2, ConcatProperties
    <2> QED
      BY <2>3 DEF p, m
  <1>8. ASSUME NEW i \in 1 .. Len(q) + 1
        PROVE  r[i] = IF i < n THEN q[i] ELSE IF i = n THEN e ELSE q[i - 1]
    <2>1. CASE i < n
      <3>1. i \in 1 .. n - 1 /\ i \in 1 .. n /\ i <= n /\ i <= n - 1
        BY <1>1, <2>1
      <3>2. r[i] = (a \o <<e>>)[i]
        BY <1>7, <3>1
      <3>3. (a \o <<e>>)[i] = a[i] /\ a[i] = q[i]
        BY <1>2, <1>6, <3>1
      <3> QED
        BY <2>1, <3>2, <3>3
    <2>2. CASE i = n
      <3>1. i - (n - 1) = 1
        BY <2>2
      <3> QED
        BY <1>1, <1>6, <1>7, <2>2, <3>1
    <2>3. CASE i > n
      <3>1. i - n \in 1 .. (Len(q) - n) + 1 /\ (n - 1) + (i - n) = i - 1
        BY <1>1, <2>3
      <3> QED
        BY <1>1, <1>3, <1>7, <2>3, <3>1
    <2> QED
      BY <1>1, <2>1, <2>2, <2>3
  <1>9. DOMAIN r = 1 .. Len(q) + 1
    BY <1>7
  <1> QED
    BY <1>7, <1>8, <1>9 DEF Inserted, r

(* Inserting a new element. *)
LEMMA InsertList ==
    ASSUME NEW A, NEW q, IsList(q, A), NEW e \in A, e \notin ToSet(q), NEW n \in 1 .. Len(q) + 1
    PROVE  /\ IsList(InsertAt(q, n, e), A) /\ ToSet(InsertAt(q, n, e)) = ToSet(q) \cup {e}
           /\ Inserted(InsertAt(q, n, e), q, n, e)
  <1> DEFINE r == InsertAt(q, n, e)
  <1>1. q \in Seq(A) /\ Len(q) \in Nat /\ DOMAIN q = 1 .. Len(q)
    BY DEF IsList
  <1>2. r \in Seq(A) /\ Inserted(r, q, n, e)
    BY <1>1, InsertPlaces
  <1> HIDE DEF r
  <1>3. \A i \in 1 .. Len(q) + 1 : r[i] = IF i < n THEN q[i] ELSE IF i = n THEN e ELSE q[i - 1]
    BY <1>2 DEF Inserted
  <1>4. DOMAIN r = 1 .. Len(q) + 1
    BY <1>2 DEF Inserted
  <1>5. \A i \in DOMAIN q : q[i] # e
    BY DEF ToSet
  <1>6. IsInjective(r)
    <2> SUFFICES ASSUME NEW i \in DOMAIN r, NEW j \in DOMAIN r, i < j
                 PROVE  r[i] # r[j]
      BY <1>1, <1>4 DEF IsInjective
    <2>1. CASE j <= n
      <3>1. r[i] = q[i] /\ i \in DOMAIN q
        BY <1>1, <1>3, <1>4, <2>1
      <3>2. r[j] = e \/ (r[j] = q[j] /\ j \in DOMAIN q)
        BY <1>1, <1>3, <1>4, <2>1
      <3> QED
        BY <1>5, <3>1, <3>2 DEF IsList, IsInjective
    <2>2. CASE j > n
      <3>1. r[j] = q[j - 1] /\ j - 1 \in DOMAIN q
        BY <1>1, <1>3, <1>4, <2>2
      <3>2. r[i] = e \/ (\E k \in DOMAIN q : k < j - 1 /\ r[i] = q[k])
        <4>1. CASE i < n
          BY <1>1, <1>3, <1>4, <2>2, <4>1
        <4>2. CASE i > n
          <5>1. i - 1 \in DOMAIN q /\ i - 1 < j - 1
            BY <1>1, <1>4, <4>2
          <5> QED
            BY <1>3, <1>4, <4>2, <5>1
        <4> QED
          BY <1>1, <1>3, <1>4, <4>1, <4>2
      <3> QED
        BY <1>5, <3>1, <3>2 DEF IsList, IsInjective
    <2> QED
      BY <1>1, <1>4, <2>1, <2>2
  <1>7. ToSet(r) = ToSet(q) \cup {e}
    <2>1. \A v \in ToSet(r) : v \in ToSet(q) \cup {e}
      <3>1. ASSUME NEW i \in DOMAIN r
            PROVE  r[i] = e \/ r[i] \in ToSet(q)
        <4>1. CASE i < n
          BY <1>1, <1>3, <1>4, <4>1 DEF ToSet
        <4>2. CASE i > n
          <5>1. i - 1 \in DOMAIN q
            BY <1>1, <1>4, <4>2
          <5> QED
            BY <1>3, <1>4, <4>2, <5>1 DEF ToSet
        <4> QED
          BY <1>1, <1>3, <1>4, <4>1, <4>2
      <3> QED
        BY <3>1 DEF ToSet
    <2>2. \A v \in ToSet(q) : v \in ToSet(r)
      <3>1. \A k \in DOMAIN q : IF k < n THEN k \in DOMAIN r /\ r[k] = q[k]
                                         ELSE k + 1 \in DOMAIN r /\ r[k + 1] = q[k]
        BY <1>1, <1>3, <1>4
      <3> QED
        BY <3>1 DEF ToSet
    <2>3. n \in DOMAIN r /\ r[n] = e
      BY <1>1, <1>3, <1>4
    <2> QED
      BY <2>1, <2>2, <2>3 DEF ToSet
  <1> QED
    BY <1>2, <1>6, <1>7 DEF IsList, r
-----------------------------------------------------------------------------
(* Removing the element at place n of a list. *)
LEMMA RemoveAtList ==
    ASSUME NEW A, NEW q, IsList(q, A), NEW n \in DOMAIN q
    PROVE  /\ IsList(RemoveAt(q, n), A) /\ ToSet(RemoveAt(q, n)) = ToSet(q) \ {q[n]}
           /\ Len(RemoveAt(q, n)) = Len(q) - 1
  <1> DEFINE r == RemoveAt(q, n)
             a == SubSeq(q, 1, n - 1)
             b == SubSeq(q, n + 1, Len(q))
             k == n - 1
             l == Len(q) - n
             m == Len(q) - 1
             n1 == n + 1
  <1>1. q \in Seq(A) /\ Len(q) \in Nat /\ DOMAIN q = 1 .. Len(q) /\ n \in 1 .. Len(q)
    BY DEF IsList
  <1>2. /\ 0 \in Nat /\ k \in Nat /\ 1 = 0 + 1 /\ k = 0 + k /\ 0 + k <= Len(q)
        /\ \A i \in 1 .. k : 0 + i = i
    BY <1>1
  <1>3. n \in Nat /\ l \in Nat /\ n + l = Len(q) /\ n + l <= Len(q) /\ n1 = n + 1 /\ Len(q) = n + l
        /\ m = k + l /\ m \in Nat
    BY <1>1
  <1>4. a = SubSeq(q, 1, k) /\ b = SubSeq(q, n1, Len(q)) /\ r = a \o b
    BY DEF RemoveAt
  <1> HIDE DEF a, b, k, l, m, n1, r
  <1>5. a \in Seq(A) /\ Len(a) = k /\ \A i \in 1 .. k : a[i] = q[i]
    <2>1. /\ a \in Seq(A) /\ Len(a) = k
          /\ \A i \in 1 .. k : a[i] = q[0 + i]
      BY <1>1, <1>2, <1>4, Part
    <2> QED
      BY <1>2, <2>1
  <1>6. b \in Seq(A) /\ Len(b) = l /\ \A i \in 1 .. l : b[i] = q[n + i]
    <2>1. n \in Nat /\ l \in Nat /\ n + l <= Len(q) /\ n1 = n + 1 /\ Len(q) = n + l /\ q \in Seq(A)
      BY <1>1, <1>3
    <2>2. b = SubSeq(q, n1, Len(q))
      BY <1>4
    <2>3. n1 \in Int /\ Len(q) \in Int /\ \A i \in n1 .. Len(q) : q[i] \in A
      BY <2>1
    <2>4. /\ b \in Seq(A) /\ Len(b) = IF n1 <= Len(q) THEN Len(q) - n1 + 1 ELSE 0
          /\ \A i \in 1 .. Len(q) - n1 + 1 : b[i] = q[n1 + i - 1]
      BY <2>2, <2>3, SubSeqProperties
    <2>5. Len(q) - n1 + 1 = l /\ \A i \in 1 .. l : n1 + i - 1 = n + i
      <3>1. \A x, y \in Nat : (x + y) - (x + 1) + 1 = y
        OBVIOUS
      <3>2. \A i \in 1 .. l : n1 + i - 1 = n + i
        BY <2>1
      <3>3. (n + l) - (n + 1) + 1 = l
        BY <2>1, <3>1
      <3> QED
        BY <2>1, <3>2, <3>3
    <2>6. Len(b) = l
      BY <2>1, <2>4
    <2>7. \A i \in 1 .. l : b[i] = q[n + i]
      BY <2>4, <2>5
    <2> QED
      BY <2>4, <2>6, <2>7
  <1>7. r \in Seq(A) /\ Len(r) = m /\ \A i \in 1 .. m : r[i] = IF i <= k THEN a[i] ELSE b[i - k]
    <2>1. /\ a \o b \in Seq(A) /\ Len(a \o b) = Len(a) + Len(b)
          /\ \A i \in 1 .. Len(a) + Len(b) :
                (a \o b)[i] = IF i <= Len(a) THEN a[i] ELSE b[i - Len(a)]
      BY <1>5, <1>6, ConcatProperties
    <2>2. Len(a) = k /\ Len(b) = l /\ m = k + l /\ r = a \o b
      BY <1>3, <1>4, <1>5, <1>6
    <2> QED
      BY <2>1, <2>2, Zenon
  <1>8. \A i \in 1 .. m : r[i] = IF i < n THEN q[i] ELSE q[i + 1]
    <2> TAKE i \in 1 .. m
    <2>1. CASE i < n
      BY <1>1, <1>5, <1>7, <2>1 DEF k, m
    <2>2. CASE ~ (i < n)
      <3>1. i - k \in 1 .. l /\ n + (i - k) = i + 1 /\ ~ (i <= k)
        BY <1>1, <2>2 DEF k, l, m
      <3>2. r[i] = b[i - k] /\ b[i - k] = q[n + (i - k)]
        BY <1>6, <1>7, <3>1
      <3> QED
        BY <2>2, <3>1, <3>2
    <2> QED
      BY <2>1, <2>2
  <1>9. DOMAIN r = 1 .. m
    BY <1>7
  <1>10. \A i, j \in DOMAIN q : q[i] = q[j] => i = j
    BY DEF IsList, IsInjective
  <1>11. IsInjective(r)
    <2>1. ASSUME NEW i \in 1 .. m, NEW j \in 1 .. m, r[i] = r[j] PROVE i = j
      <3>1. i + 1 \in DOMAIN q /\ j + 1 \in DOMAIN q /\ i \in DOMAIN q /\ j \in DOMAIN q
        BY <1>1 DEF m
      <3> QED
        BY <1>1, <1>8, <1>10, <2>1, <3>1
    <2> QED
      BY <1>9, <2>1 DEF IsInjective
  <1>12. ToSet(r) = ToSet(q) \ {q[n]}
    <2>1. \A v \in ToSet(r) : v \in ToSet(q) \ {q[n]}
      <3>1. ASSUME NEW i \in 1 .. m PROVE r[i] \in ToSet(q) \ {q[n]}
        <4>1. i + 1 \in DOMAIN q /\ i \in DOMAIN q /\ i + 1 # i
          BY <1>1 DEF m
        <4>2. \/ r[i] = q[i] /\ i < n
              \/ r[i] = q[i + 1] /\ ~ (i < n)
          BY <1>8
        <4> QED
          BY <1>1, <1>10, <4>1, <4>2 DEF ToSet
      <3> QED
        BY <1>9, <3>1 DEF ToSet
    <2>2. \A i \in DOMAIN q : i # n => q[i] \in ToSet(r)
      <3> SUFFICES ASSUME NEW i \in DOMAIN q, i # n PROVE \E j \in 1 .. m : r[j] = q[i]
        BY <1>9 DEF ToSet
      <3>1. CASE i < n
        <4>1. i \in 1 .. m
          BY <1>1, <3>1 DEF m
        <4> QED
          BY <1>8, <3>1, <4>1
      <3>2. CASE i > n
        <4>1. i - 1 \in 1 .. m /\ ~ (i - 1 < n) /\ (i - 1) + 1 = i
          BY <1>1, <3>2 DEF m
        <4> QED
          BY <1>8, <4>1
      <3> QED
        BY <1>1, <3>1, <3>2
    <2> QED
      BY <2>1, <2>2 DEF ToSet
  <1> QED
    BY <1>7, <1>11, <1>12 DEF IsList, m, r

(* Removing the head of a list. *)
LEMMA TailList ==
    ASSUME NEW A, NEW q, IsList(q, A), q # <<>>
    PROVE  /\ IsList(Tail(q), A) /\ ToSet(Tail(q)) = ToSet(q) \ {Head(q)}
           /\ Len(Tail(q)) = Len(q) - 1
           /\ \A i \in 1 .. Len(q) - 1 : Tail(q)[i] = q[i + 1]
           /\ Head(q) = q[1] /\ 1 \in DOMAIN q
  <1> DEFINE r == Tail(q)
  <1>1. /\ q \in Seq(A) /\ Len(q) \in Nat /\ DOMAIN q = 1 .. Len(q) /\ Len(q) >= 1
        /\ 1 \in DOMAIN q /\ Head(q) = q[1]
    BY DEF IsList
  <1>2. r \in Seq(A) /\ Len(r) = Len(q) - 1 /\ \A i \in 1 .. Len(q) - 1 : r[i] = q[i + 1]
    BY <1>1
  <1> HIDE DEF r
  <1>3. DOMAIN r = 1 .. Len(q) - 1 /\ \A i \in DOMAIN r : i + 1 \in DOMAIN q /\ r[i] = q[i + 1]
    BY <1>1, <1>2
  <1>4. \A i, j \in DOMAIN q : q[i] = q[j] => i = j
    BY DEF IsList, IsInjective
  <1>5. IsInjective(r)
    BY <1>3, <1>4 DEF IsInjective
  <1>6. \A i \in DOMAIN r : r[i] \in ToSet(q) \ {Head(q)}
    BY <1>1, <1>3, <1>4 DEF ToSet
  <1>7. \A i \in DOMAIN q : i # 1 => i - 1 \in DOMAIN r /\ r[i - 1] = q[i]
    BY <1>1, <1>2, <1>3
  <1>8. ToSet(r) = ToSet(q) \ {Head(q)}
    BY <1>1, <1>6, <1>7 DEF ToSet
  <1> QED
    BY <1>1, <1>2, <1>5, <1>8 DEF IsList, r
-----------------------------------------------------------------------------
(* MinOf is the least element. *)
LEMMA MinOfLeast ==
    ASSUME NEW S \in SUBSET Nat, S # {}
    PROVE  MinOf(S) \in S /\ \A k \in S : MinOf(S) <= k
  <1>1. PICK m \in S : \A k \in S : m <= k
    BY NatMin
  <1> QED
    BY <1>1 DEF MinOf

(* MaxOf is the greatest element of a bounded set. *)
LEMMA MaxOfGreatest ==
    ASSUME NEW S \in SUBSET Nat, S # {}, NEW n \in Nat, \A k \in S : k <= n
    PROVE  MaxOf(S) \in S /\ \A k \in S : k <= MaxOf(S)
  <1> DEFINE D == {n - k : k \in S}
  <1>1. D \in SUBSET Nat /\ D # {}
    <2>1. \A k \in S : n - k \in Nat
      OBVIOUS
    <2>2. \A d \in D : d \in Nat
      BY <2>1
    <2> QED
      BY <2>2
  <1>2. PICK d \in D : \A e \in D : d <= e
    BY <1>1, NatMin
  <1>3. PICK m \in S : d = n - m
    BY <1>2
  <1>4. \A k \in S : k <= m
    <2> TAKE k \in S
    <2>1. d <= n - k
      BY <1>2
    <2> QED
      BY <1>3, <2>1
  <1> QED
    BY <1>4 DEF MaxOf

(* A finite set of numbers has a bound: a smallest one without would have one after *)
(* all, that of the rest or the element put back.                                  *)
LEMMA FiniteIsBounded ==
    ASSUME NEW S \in SUBSET Nat, IsFiniteSet(S)
    PROVE  \E n \in Nat : \A k \in S : k <= n
  <1> DEFINE Bounded(T) == \E n \in Nat : \A k \in T : k <= n
             D == {d \in Nat : \E T \in SUBSET Nat :
                        IsFiniteSet(T) /\ Cardinality(T) = d /\ ~ Bounded(T)}
  <1>1. SUFFICES ASSUME ~ Bounded(S) PROVE FALSE
    OBVIOUS
  <1>2. Cardinality(S) \in D
    BY <1>1, FS_CardinalityType
  <1>3. PICK d \in D : \A e \in D : d <= e
    <2>1. D \in SUBSET Nat /\ D # {}
      BY <1>2
    <2> HIDE DEF D
    <2> QED
      BY <2>1, NatMin
  <1>4. PICK T \in SUBSET Nat : IsFiniteSet(T) /\ Cardinality(T) = d /\ ~ Bounded(T)
    BY <1>3
  <1>5. PICK x \in T : TRUE
    BY <1>4
  <1> DEFINE U == T \ {x}
  <1>6. IsFiniteSet(U) /\ Cardinality(U) = d - 1 /\ U \in SUBSET Nat
    BY <1>4, FS_RemoveElement
  <1>7. d \in Nat /\ d - 1 \in Nat
    <2>1. Cardinality(U) \in Nat /\ d \in Nat
      BY <1>3, <1>6, FS_CardinalityType
    <2> QED
      BY <1>6, <2>1
  <1>8. Bounded(U)
    <2>1. d - 1 \notin D
      BY <1>3, <1>7
    <2> QED
      BY <1>6, <1>7, <2>1
  <1>9. PICK n \in Nat : \A k \in U : k <= n
    BY <1>8
  <1>10. x \in Nat /\ n + x \in Nat /\ \A k \in T : k <= n + x
    <2>1. x \in Nat /\ n + x \in Nat
      BY <1>4, <1>5
    <2>2. \A k \in T : k \in U \/ k = x
      OBVIOUS
    <2> HIDE DEF U
    <2> QED
      BY <1>4, <1>9, <2>1, <2>2
  <1> QED
    BY <1>4, <1>10

(* MaxOf of the terms of a formula. *)
LEMMA MaxOf2 ==
    ASSUME NEW a \in Nat, NEW b \in Nat
    PROVE  MaxOf({a, b}) \in Nat /\ a <= MaxOf({a, b}) /\ b <= MaxOf({a, b})
  <1>1. {a, b} \in SUBSET Nat /\ a + b \in Nat /\ \A k \in {a, b} : k <= a + b
    OBVIOUS
  <1> QED
    BY <1>1, MaxOfGreatest
(* The latest of three cycles. *)
LEMMA MaxOf3 ==
    ASSUME NEW a \in Nat, NEW b \in Nat, NEW d \in Nat
    PROVE  MaxOf({a, b, d}) \in Nat
  <1>1. /\ {a, b, d} \in SUBSET Nat /\ a + b + d \in Nat
        /\ \A k \in {a, b, d} : k <= a + b + d
    OBVIOUS
  <1> QED
    BY <1>1, MaxOfGreatest
(* The latest of four cycles. *)
LEMMA MaxOf4 ==
    ASSUME NEW a \in Nat, NEW b \in Nat, NEW d \in Nat, NEW e \in Nat
    PROVE  MaxOf({a, b, d, e}) \in Nat /\ e <= MaxOf({a, b, d, e})
  <1>1. /\ {a, b, d, e} \in SUBSET Nat /\ a + b + d + e \in Nat
        /\ \A k \in {a, b, d, e} : k <= a + b + d + e
    OBVIOUS
  <1> QED
    BY <1>1, MaxOfGreatest
-----------------------------------------------------------------------------
(* The row hits that may still be put before place k of a list of l requests, of    *)
(* which rw gives the rows and sq the places in their sequences: a row whose last    *)
(* request is before place k may be continued up to the limit.  They account for     *)
(* what the requests in front can still let pass.                                   *)
Slots(rw, sq, l, k) ==
    {x \in Rows \X (1 .. RowHitLimit) :
        \E i \in 1 .. k - 1 : rw[i] = x[1] /\ sq[i] < x[2] /\ \A j \in i + 1 .. l : rw[j] # x[1]}

(* At most RowHitLimit for each request in front. *)
LEMMA SlotsBound ==
    ASSUME NEW l \in Nat, NEW k \in 1 .. l + 1, NEW rw \in [1 .. l -> Rows], NEW sq
    PROVE  /\ IsFiniteSet(Slots(rw, sq, l, k)) /\ Cardinality(Slots(rw, sq, l, k)) \in Nat
           /\ Cardinality(Slots(rw, sq, l, k)) <= RowHitLimit * (k - 1)
  <1> DEFINE R == {rw[i] : i \in 1 .. k - 1}
             f == [i \in 1 .. k - 1 |-> rw[i]]
             H == 1 .. RowHitLimit
  <1>1. RowHitLimit \in Nat /\ k - 1 \in Nat
    BY DDRAssumption
  <1>2. IsFiniteSet(1 .. k - 1) /\ Cardinality(1 .. k - 1) = k - 1
    BY <1>1, FS_Interval
  <1>3. IsFiniteSet(H) /\ Cardinality(H) = RowHitLimit
    BY <1>1, FS_Interval
  <1>4. f \in Surjection(1 .. k - 1, R)
    BY DEF Surjection
  <1>5. IsFiniteSet(R) /\ Cardinality(R) <= k - 1
    BY <1>2, <1>4, FS_Surjection
  <1>6. Cardinality(R) \in Nat
    BY <1>5, FS_CardinalityType
  <1> HIDE DEF R, H
  <1>7. IsFiniteSet(R \X H) /\ Cardinality(R \X H) = Cardinality(R) * RowHitLimit
    BY <1>3, <1>5, FS_Product
  <1>8. Cardinality(R) * RowHitLimit <= RowHitLimit * (k - 1)
    <2>1. Cardinality(R) * RowHitLimit <= (k - 1) * RowHitLimit
      BY <1>1, <1>5, <1>6, Scale
    <2>2. (k - 1) * RowHitLimit = RowHitLimit * (k - 1)
      BY <1>1
    <2> QED
      BY <2>1, <2>2
  <1>9. Slots(rw, sq, l, k) \in SUBSET (R \X H)
    BY DEF Slots, R, H
  <1>10. /\ IsFiniteSet(Slots(rw, sq, l, k))
         /\ Cardinality(Slots(rw, sq, l, k)) <= Cardinality(R \X H)
    BY <1>7, <1>9, FS_Subset
  <1>11. Cardinality(Slots(rw, sq, l, k)) \in Nat
    BY <1>10, FS_CardinalityType
  <1>12. Cardinality(R) * RowHitLimit \in Nat /\ RowHitLimit * (k - 1) \in Nat
    BY <1>1, <1>6
  <1> QED
    BY <1>7, <1>8, <1>10, <1>11, <1>12

(* Fewer slots. *)
LEMMA SlotsSubset ==
    ASSUME NEW S, NEW T, IsFiniteSet(S), T \subseteq S
    PROVE  /\ IsFiniteSet(T) /\ Cardinality(T) \in Nat /\ Cardinality(S) \in Nat
           /\ Cardinality(T) <= Cardinality(S)
  BY FS_Subset, FS_CardinalityType

(* rv is rw with v put in at place p. *)
PutIn(rv, rw, l, p, v) ==
    \A i \in 1 .. l + 1 : rv[i] = IF i < p THEN rw[i] ELSE IF i = p THEN v ELSE rw[i - 1]

(* The place after j, if j is not before p. *)
LEMMA NextPlace ==
    ASSUME NEW l \in Nat, NEW p \in Nat, NEW i \in Nat, NEW j \in i + 1 .. l, ~ (j < p)
    PROVE  /\ j + 1 \in i + 1 .. l + 1 /\ j + 1 \in 1 .. l + 1
           /\ ~ (j + 1 < p) /\ j + 1 # p /\ (j + 1) - 1 = j
  OBVIOUS

(* A request put in behind place k leaves it no more slots. *)
LEMMA PutBehind ==
    ASSUME NEW l \in Nat, NEW k \in 1 .. l, NEW p \in 1 .. l + 1, k < p,
           NEW rw, NEW sq, NEW rv, NEW sv, NEW v, NEW u,
           PutIn(rv, rw, l, p, v), PutIn(sv, sq, l, p, u)
    PROVE  Slots(rv, sv, l + 1, k) \subseteq Slots(rw, sq, l, k)
  <1> SUFFICES ASSUME NEW x \in Slots(rv, sv, l + 1, k) PROVE x \in Slots(rw, sq, l, k)
    OBVIOUS
  <1>1. PICK i \in 1 .. k - 1 :
            rv[i] = x[1] /\ sv[i] < x[2] /\ \A j \in i + 1 .. l + 1 : rv[j] # x[1]
    BY DEF Slots
  <1>2. i \in 1 .. l + 1 /\ i < p
    OBVIOUS
  <1>3. rw[i] = x[1] /\ sq[i] < x[2]
    BY <1>1, <1>2 DEF PutIn
  <1>4. \A j \in i + 1 .. l : rw[j] # x[1]
    <2> TAKE j \in i + 1 .. l
    <2>1. CASE j < p
      <3>1. j \in i + 1 .. l + 1 /\ j \in 1 .. l + 1
        OBVIOUS
      <3>2. rv[j] = rw[j]
        BY <2>1, <3>1 DEF PutIn
      <3> QED
        BY <1>1, <3>1, <3>2
    <2>2. CASE ~ (j < p)
      <3>1. j + 1 \in i + 1 .. l + 1 /\ j + 1 \in 1 .. l + 1 /\ ~ (j + 1 < p) /\ j + 1 # p
            /\ (j + 1) - 1 = j
        BY <2>2
      <3>2. rv[j + 1] = rw[j]
        BY <3>1 DEF PutIn
      <3> QED
        BY <1>1, <3>1, <3>2
    <2> QED
      BY <2>1, <2>2
  <1> QED
    BY <1>3, <1>4 DEF Slots

(* A row hit put in before place k, behind the last request of its row, takes a slot. *)
LEMMA PutBefore ==
    ASSUME NEW l \in Nat, NEW k \in 1 .. l, NEW p \in 2 .. k,
           NEW rw \in [1 .. l -> Rows], NEW sq \in [1 .. l -> Nat], NEW rv, NEW sv,
           PutIn(rv, rw, l, p, rw[p - 1]), PutIn(sv, sq, l, p, sq[p - 1] + 1),
           sq[p - 1] < RowHitLimit, \A j \in p .. l : rw[j] # rw[p - 1]
    PROVE  Cardinality(Slots(rv, sv, l + 1, k + 1)) + 1 <= Cardinality(Slots(rw, sq, l, k))
  <1> DEFINE v == rw[p - 1]
             u == sq[p - 1]
             y == <<v, u + 1>>
             S == Slots(rw, sq, l, k)
             T == Slots(rv, sv, l + 1, k + 1)
  <1>1. /\ RowHitLimit \in Nat /\ v \in Rows /\ u \in Nat /\ u + 1 \in 1 .. RowHitLimit
        /\ p - 1 \in 1 .. k - 1 /\ (p - 1) + 1 = p
    <2>1. p - 1 \in 1 .. k - 1 /\ (p - 1) + 1 = p /\ p - 1 \in 1 .. l
      OBVIOUS
    <2>2. v \in Rows /\ u \in Nat
      BY <2>1
    <2>3. RowHitLimit \in Nat
      BY DDRAssumption
    <2> HIDE DEF u
    <2>4. u < RowHitLimit
      BY DEF u
    <2> QED
      BY <2>1, <2>2, <2>3, <2>4
  <1>2. y \in S
    <2>1. y \in Rows \X (1 .. RowHitLimit) /\ y[1] = v /\ y[2] = u + 1
      BY <1>1
    <2>2. u < y[2]
      BY <1>1, <2>1
    <2> QED
      BY <1>1, <2>1, <2>2 DEF Slots
  <1>3. ASSUME NEW x \in T PROVE x \in S \ {y}
    <2>1. x \in Rows \X (1 .. RowHitLimit) /\ x[2] \in Nat
      BY <1>1 DEF Slots
    <2>2. PICK i \in 1 .. k :
              rv[i] = x[1] /\ sv[i] < x[2] /\ \A j \in i + 1 .. l + 1 : rv[j] # x[1]
      BY DEF Slots
    <2>3. \A j \in 1 .. l + 1 : rv[j] = IF j < p THEN rw[j] ELSE IF j = p THEN v ELSE rw[j - 1]
      BY DEF PutIn
    <2>4. \A j \in 1 .. l + 1 : sv[j] = IF j < p THEN sq[j] ELSE IF j = p THEN u + 1 ELSE sq[j - 1]
      BY DEF PutIn
    <2>5. rv[p] = v /\ sv[p] = u + 1
      BY <2>3, <2>4
    <2> HIDE DEF v, u
    <2>6. CASE i < p
      <3>1. p \in i + 1 .. l + 1
        BY <2>6
      <3>2. x[1] # v
        BY <2>2, <2>5, <3>1
      <3>3. rw[i] = x[1] /\ sq[i] < x[2] /\ i \in 1 .. k - 1
        BY <2>2, <2>3, <2>4, <2>6
      <3>4. \A j \in i + 1 .. l : rw[j] # x[1]
        <4> TAKE j \in i + 1 .. l
        <4>1. CASE j < p
          <5>1. j \in i + 1 .. l + 1 /\ j \in 1 .. l + 1
            OBVIOUS
          <5> QED
            BY <2>2, <2>3, <4>1, <5>1
        <4>2. CASE ~ (j < p)
          <5>1. j + 1 \in i + 1 .. l + 1 /\ j + 1 \in 1 .. l + 1 /\ ~ (j + 1 < p) /\ j + 1 # p
                /\ (j + 1) - 1 = j
            <6>1. p \in Nat /\ i \in Nat
              OBVIOUS
            <6> QED
              BY <4>2, <6>1, NextPlace
          <5>2. rv[j + 1] = rw[j]
            BY <2>3, <5>1
          <5> QED
            BY <2>2, <5>1, <5>2
        <4> QED
          BY <4>1, <4>2
      <3> QED
        BY <2>1, <3>2, <3>3, <3>4 DEF Slots
    <2>7. CASE i = p
      <3>1. x[1] = v /\ u + 1 < x[2] /\ u < x[2]
        BY <1>1, <2>1, <2>2, <2>5, <2>7
      <3>2. x # y
        BY <1>1, <2>1, <3>1
      <3> QED
        BY <1>1, <2>1, <3>1, <3>2 DEF Slots, u, v
    <2>8. CASE i > p
      <3>1. i - 1 \in 1 .. k - 1 /\ i - 1 \in p .. l /\ i \in 1 .. l + 1
        BY <2>8
      <3>2. rw[i - 1] = x[1] /\ sq[i - 1] < x[2]
        BY <2>2, <2>3, <2>4, <2>8, <3>1
      <3>3. x[1] # v
        BY <3>1, <3>2 DEF v
      <3>4. \A j \in (i - 1) + 1 .. l : rw[j] # x[1]
        <4> TAKE j \in (i - 1) + 1 .. l
        <4>1. j + 1 \in i + 1 .. l + 1 /\ j + 1 \in 1 .. l + 1 /\ ~ (j + 1 < p) /\ j + 1 # p
              /\ (j + 1) - 1 = j
          <5>1. p \in Nat /\ i \in Nat /\ (i - 1) + 1 = i
            OBVIOUS
          <5>2. j \in i .. l
            BY <5>1
          <5>3. ~ (j + 1 < p) /\ j + 1 # p
            BY <2>8, <5>1, <5>2
          <5>4. l \in Nat /\ 1 <= i /\ j \in Nat /\ i <= j /\ j <= l
            BY <5>1, <5>2
          <5>5. j + 1 \in Nat /\ i + 1 <= j + 1 /\ 1 <= j + 1 /\ j + 1 <= l + 1 /\ (j + 1) - 1 = j
            BY <5>1, <5>4
          <5> QED
            BY <5>1, <5>3, <5>4, <5>5
        <4>2. rv[j + 1] = rw[j]
          BY <2>3, <4>1
        <4> QED
          BY <2>2, <4>1, <4>2
      <3> QED
        BY <2>1, <3>1, <3>2, <3>3, <3>4 DEF Slots
    <2> QED
      BY <2>6, <2>7, <2>8
  <1>4. IsFiniteSet(S) /\ Cardinality(S) \in Nat
    BY SlotsBound
  <1> HIDE DEF S, T, y
  <1>5. IsFiniteSet(S \ {y}) /\ Cardinality(S \ {y}) = Cardinality(S) - 1
    BY <1>2, <1>4, FS_RemoveElement
  <1>6. Cardinality(T) \in Nat /\ Cardinality(T) <= Cardinality(S) - 1
    BY <1>3, <1>5, SlotsSubset
  <1> QED
    BY <1>4, <1>6 DEF S, T

(* Serving the first request leaves the others no more slots. *)
LEMMA SlotsOfTail ==
    ASSUME NEW l \in Nat, NEW k \in 1 .. l, NEW rw, NEW sq, NEW rv, NEW sv,
           \A i \in 1 .. l : rv[i] = rw[i + 1] /\ sv[i] = sq[i + 1]
    PROVE  Slots(rv, sv, l, k) \subseteq Slots(rw, sq, l + 1, k + 1)
  <1> SUFFICES ASSUME NEW x \in Slots(rv, sv, l, k) PROVE x \in Slots(rw, sq, l + 1, k + 1)
    OBVIOUS
  <1>1. PICK i \in 1 .. k - 1 :
            rv[i] = x[1] /\ sv[i] < x[2] /\ \A j \in i + 1 .. l : rv[j] # x[1]
    BY DEF Slots
  <1>2. i + 1 \in 1 .. (k + 1) - 1 /\ rw[i + 1] = x[1] /\ sq[i + 1] < x[2]
    BY <1>1
  <1>3. \A j \in (i + 1) + 1 .. l + 1 : rw[j] # x[1]
    <2> TAKE j \in (i + 1) + 1 .. l + 1
    <2>1. j - 1 \in i + 1 .. l /\ j - 1 \in 1 .. l /\ (j - 1) + 1 = j
      OBVIOUS
    <2> QED
      BY <1>1, <2>1
  <1> QED
    BY <1>2, <1>3 DEF Slots
-----------------------------------------------------------------------------
(* Types of the controller's parts. *)
Requests == [bank : Banks, row : Rows, write : BOOLEAN, arrival : Nat,
             seq : 0 .. RowHitLimit, ahead : Nat, passed : Nat]
BankStates == [open : BOOLEAN, openRow : Rows \cup {0}, minPreCycle : Nat,
               lastActCycle : Nat, lastCmdCycle : Nat, curRowHits : 0 .. RowHitLimit]
Windows == {w \in Seq(Nat) : Len(w) = WindowSize}

TypesOK(s) ==
    /\ s \in [req : [DOMAIN s.req -> Requests], rd : Seq(Nat), wr : Seq(Nat),
              overflow : Seq(Nat), list : [Banks \X BOOLEAN -> Seq(Nat)],
              bank : [Banks -> BankStates], window : Windows, minRespCycle : Nat,
              lastCmdWasWrite : BOOLEAN, acts : Seq(Nat)]
    /\ DOMAIN s.req \subseteq Nat
    /\ s.minRespCycle >= tCL + tBL + 1

Queued(s, w) == IF w THEN s.wr ELSE s.rd

(* The queues hold requests of their kind, each once and within their depth, and no  *)
(* request is in a queue and in the overflow queue.                                 *)
QueuesOK(s) ==
    \A w \in BOOLEAN :
        /\ IsList(Queued(s, w), Nat) /\ Len(Queued(s, w)) <= QueueDepth
        /\ \A n \in ToSet(Queued(s, w)) :
            n \in DOMAIN s.req /\ s.req[n].write = w /\ n \notin ToSet(s.overflow)

(* Nobody has passed a request in the overflow queue. *)
OverflowOK(s) ==
    /\ IsList(s.overflow, Nat)
    /\ \A n \in ToSet(s.overflow) : n \in DOMAIN s.req /\ s.req[n].passed = 0

(* The list of a bank holds the queued requests for it. *)
ListsOK(s) ==
    \A b \in Banks, w \in BOOLEAN :
        /\ IsList(s.list[<<b, w>>], Nat)
        /\ ToSet(s.list[<<b, w>>]) = {n \in ToSet(Queued(s, w)) : s.req[n].bank = b}

(* What may still pass the request at place k of list q, with what already has, is   *)
(* within the limit for what was ahead of it.                                       *)
RowsOf(s, q) == [i \in DOMAIN q |-> s.req[q[i]].row]
SeqsOf(s, q) == [i \in DOMAIN q |-> s.req[q[i]].seq]
Left(s, q, k) == Cardinality(Slots(RowsOf(s, q), SeqsOf(s, q), Len(q), k))
BypassOK(s) ==
    /\ \A n \in DOMAIN s.req : s.req[n].passed <= RowHitLimit * s.req[n].ahead
    /\ \A b \in Banks, w \in BOOLEAN : \A k \in DOMAIN s.list[<<b, w>>] :
        LET r == s.req[s.list[<<b, w>>][k]]
        IN Left(s, s.list[<<b, w>>], k) + r.passed <= RowHitLimit * r.ahead

CtrlInv(s) == TypesOK(s) /\ QueuesOK(s) /\ OverflowOK(s) /\ ListsOK(s) /\ BypassOK(s)

(* The inductive invariant. *)
IInv ==
    /\ now \in Nat \ {0} /\ refreshes \in Nat /\ arrived \in Nat
    /\ nextSchedCycle = Never \/ (nextSchedCycle \in Nat /\ now <= nextSchedCycle)
    /\ DOMAIN c.req \subseteq 1 .. arrived
    /\ CtrlInv(c) /\ SchedulerAwake
-----------------------------------------------------------------------------
(* The requests in a bank's list. *)
LEMMA InList ==
    ASSUME NEW s, CtrlInv(s), NEW b \in Banks, NEW w \in BOOLEAN, NEW k \in DOMAIN s.list[<<b, w>>]
    PROVE  LET q == s.list[<<b, w>>]
           IN /\ q \in Seq(Nat) /\ DOMAIN q = 1 .. Len(q) /\ Len(q) \in Nat
              /\ q[k] \in ToSet(Queued(s, w)) /\ q[k] \in DOMAIN s.req
              /\ s.req[q[k]] \in Requests /\ s.req[q[k]].bank = b /\ s.req[q[k]].write = w
  <1> DEFINE q == s.list[<<b, w>>]
  <1>1. q \in Seq(Nat) /\ ToSet(q) = {n \in ToSet(Queued(s, w)) : s.req[n].bank = b}
    BY DEF CtrlInv, ListsOK, IsList
  <1>2. q[k] \in ToSet(q)
    BY DEF ToSet
  <1>3. q[k] \in ToSet(Queued(s, w)) /\ s.req[q[k]].bank = b
    BY <1>1, <1>2
  <1>4. q[k] \in DOMAIN s.req /\ s.req[q[k]].write = w
    BY <1>3 DEF CtrlInv, QueuesOK
  <1>5. s.req \in [DOMAIN s.req -> Requests]
    BY DEF CtrlInv, TypesOK
  <1> QED
    BY <1>1, <1>3, <1>4, <1>5

(* A request is put at the end of its list, or behind the last one of its row, with  *)
(* the next number of the sequence.                                                *)
LEMMA PlaceFacts ==
    ASSUME NEW s, CtrlInv(s), NEW r \in Requests
    PROVE  LET q == List(s, r)
               p == Place(s, r)
           IN /\ p.at \in 1 .. Len(q) + 1 /\ p.seq \in 0 .. RowHitLimit
              /\ \/ p.at = Len(q) + 1
                 \/ /\ p.at - 1 \in DOMAIN q /\ s.req[q[p.at - 1]].row = r.row
                    /\ s.req[q[p.at - 1]].seq < RowHitLimit
                    /\ p.seq = s.req[q[p.at - 1]].seq + 1
                    /\ \A j \in p.at .. Len(q) : s.req[q[j]].row # r.row
  <1> DEFINE q == List(s, r)
             p == Place(s, r)
             b == s.bank[r.bank]
             same == {i \in DOMAIN q : s.req[q[i]].row = r.row}
             last == s.req[q[MaxOf(same)]]
  <1>1. r.bank \in Banks /\ r.write \in BOOLEAN /\ q = s.list[<<r.bank, r.write>>]
    BY DEF Requests, List
  <1>2. q \in Seq(Nat) /\ DOMAIN q = 1 .. Len(q) /\ Len(q) \in Nat
    BY <1>1 DEF CtrlInv, ListsOK, IsList
  <1>3. RowHitLimit \in Nat
    BY DDRAssumption
  <1>4. b.curRowHits \in 0 .. RowHitLimit
    BY <1>1 DEF CtrlInv, TypesOK, BankStates
  <1>5. p = IF same # {} /\ last.seq < RowHitLimit
            THEN [at |-> MaxOf(same) + 1, seq |-> last.seq + 1]
            ELSE [at |-> Len(q) + 1,
                  seq |-> IF q = <<>> /\ b.open /\ b.openRow = r.row /\ b.curRowHits < RowHitLimit
                          THEN b.curRowHits + 1 ELSE 0]
    BY DEF Place
  <1>6. CASE same # {} /\ last.seq < RowHitLimit
    <2>1. MaxOf(same) \in same /\ \A k \in same : k <= MaxOf(same)
      <3>1. same \in SUBSET Nat /\ \A k \in same : k <= Len(q)
        BY <1>2
      <3> HIDE DEF same
      <3> QED
        BY <1>2, <1>6, <3>1, MaxOfGreatest
    <2> DEFINE m == MaxOf(same)
    <2> HIDE DEF same, q, p
    <2>2. m \in 1 .. Len(q) /\ s.req[q[m]].row = r.row
      BY <1>2, <2>1 DEF same
    <2>3. \A j \in m + 1 .. Len(q) : s.req[q[j]].row # r.row
      <3> SUFFICES ASSUME NEW j \in m + 1 .. Len(q), s.req[q[j]].row = r.row PROVE FALSE
        OBVIOUS
      <3>1. j \in 1 .. Len(q) /\ m < j /\ m \in Nat /\ j \in Nat
        BY <1>2, <2>2
      <3>2. j \in same
        BY <1>2, <3>1 DEF same
      <3>3. j <= m
        BY <2>1, <3>2 DEF m
      <3> QED
        BY <3>1, <3>3
    <2>4. s.req[q[m]].seq \in 0 .. RowHitLimit
      <3>1. m \in DOMAIN s.list[<<r.bank, r.write>>]
        BY <1>1, <1>2, <2>2
      <3>2. s.req[s.list[<<r.bank, r.write>>][m]] \in Requests
        BY <1>1, <3>1, InList
      <3> QED
        BY <1>1, <3>2 DEF Requests
    <2>5. p.at = m + 1 /\ p.seq = s.req[q[m]].seq + 1 /\ s.req[q[m]].seq < RowHitLimit
      BY <1>5, <1>6
    <2> HIDE DEF m
    <2>6. (m + 1) - 1 = m /\ m + 1 \in 1 .. Len(q) + 1
      BY <1>2, <2>2
    <2>7. p.seq \in 0 .. RowHitLimit
      BY <1>3, <2>4, <2>5
    <2> QED
      BY <1>2, <2>2, <2>3, <2>5, <2>6, <2>7 DEF q, p
  <1>7. CASE ~ (same # {} /\ last.seq < RowHitLimit)
    <2> HIDE DEF same, last, q, p, b
    <2>1. /\ p.at = Len(q) + 1
          /\ \/ p.seq = 0
             \/ p.seq = b.curRowHits + 1 /\ b.curRowHits < RowHitLimit
      BY <1>5, <1>7
    <2>2. p.at \in 1 .. Len(q) + 1 /\ p.seq \in 0 .. RowHitLimit
      BY <1>2, <1>3, <1>4, <2>1
    <2> QED
      BY <2>1, <2>2 DEF q, p
  <1> QED
    BY <1>6, <1>7

(* What is left to a request is a number, within the limit for those in front. *)
LEMMA LeftBound ==
    ASSUME NEW s, NEW q \in Seq(Nat), NEW k \in DOMAIN q,
           \A i \in DOMAIN q : s.req[q[i]] \in Requests
    PROVE  /\ RowsOf(s, q) \in [1 .. Len(q) -> Rows] /\ SeqsOf(s, q) \in [1 .. Len(q) -> Nat]
           /\ IsFiniteSet(Slots(RowsOf(s, q), SeqsOf(s, q), Len(q), k))
           /\ Left(s, q, k) \in Nat /\ Left(s, q, k) <= RowHitLimit * (k - 1)
  <1>1. Len(q) \in Nat /\ DOMAIN q = 1 .. Len(q) /\ k \in 1 .. Len(q) + 1
    OBVIOUS
  <1>2. RowHitLimit \in Nat
    BY DDRAssumption
  <1>3. \A i \in DOMAIN q : s.req[q[i]].row \in Rows /\ s.req[q[i]].seq \in Nat
    BY <1>2 DEF Requests
  <1>4. RowsOf(s, q) \in [1 .. Len(q) -> Rows] /\ SeqsOf(s, q) \in [1 .. Len(q) -> Nat]
    BY <1>1, <1>3 DEF RowsOf, SeqsOf
  <1> QED
    BY <1>1, <1>4, SlotsBound DEF Left

(* Requests that keep their rows and places leave each other what they did. *)
LEMMA LeftSame ==
    ASSUME NEW s, NEW d, NEW q, NEW k,
           \A i \in DOMAIN q : d.req[q[i]].row = s.req[q[i]].row /\ d.req[q[i]].seq = s.req[q[i]].seq
    PROVE  Left(d, q, k) = Left(s, q, k)
  <1>1. RowsOf(d, q) = RowsOf(s, q)
    BY DEF RowsOf
  <1>2. SeqsOf(d, q) = SeqsOf(s, q)
    BY DEF SeqsOf
  <1> QED
    BY <1>1, <1>2 DEF Left

(* The parts of the controller that queue() changes: n is put at p.at of its list and   *)
(* passes those behind.                                                              *)
Enqueued(d, s, n, cycle) ==
    LET r == s.req[n]
        q == List(s, r)
        p == Place(s, r)
        behind == {q[i] : i \in p.at .. Len(q)}
    IN /\ DOMAIN d.req = DOMAIN s.req
       /\ d.req[n] = [r EXCEPT !.seq = p.seq, !.arrival = cycle, !.ahead = p.at - 1]
       /\ \A m \in DOMAIN s.req \ {n} :
            d.req[m] = IF m \in behind THEN [s.req[m] EXCEPT !.passed = @ + 1] ELSE s.req[m]
       /\ \A b \in Banks, w \in BOOLEAN :
            /\ d.list[<<b, w>>] = IF b = r.bank /\ w = r.write THEN InsertAt(q, p.at, n)
                                  ELSE s.list[<<b, w>>]
            /\ Queued(d, w) = IF w = r.write THEN Append(Queued(s, w), n) ELSE Queued(s, w)
       /\ d.overflow = s.overflow /\ d.bank = s.bank /\ d.window = s.window
       /\ d.minRespCycle = s.minRespCycle

(* What is known of a request that is about to be queued, and of the room for it. *)
MayEnter(s, n) ==
    /\ CtrlInv(s) /\ ~ Full(s)
    /\ n \in DOMAIN s.req /\ s.req[n].passed = 0 /\ n \notin ToSet(s.overflow)
    /\ \A w \in BOOLEAN : n \notin ToSet(Queued(s, w))

(* What queue() changes, and that the controller stays well typed. *)
LEMMA QueueDoes ==
    ASSUME NEW s, NEW n, MayEnter(s, n), NEW cycle \in Nat
    PROVE  /\ TypesOK(queue(s, n, cycle)) /\ Enqueued(queue(s, n, cycle), s, n, cycle)
           /\ List(s, s.req[n]) = s.list[<<s.req[n].bank, s.req[n].write>>]
           /\ s.req[n] \in Requests
  <1> DEFINE d == queue(s, n, cycle)
             r == s.req[n]
             q == List(s, r)
             p == Place(s, r)
             behind == {q[i] : i \in p.at .. Len(q)}
             f == [m \in DOMAIN s.req |->
                        IF m = n THEN [r EXCEPT !.seq = p.seq, !.arrival = cycle, !.ahead = p.at - 1]
                        ELSE IF m \in behind THEN [s.req[m] EXCEPT !.passed = @ + 1]
                        ELSE s.req[m]]
             x == <<r.bank, r.write>>
  <1>1. TypesOK(s) /\ CtrlInv(s) /\ n \in DOMAIN s.req
    BY DEF MayEnter, CtrlInv
  <1>2. r \in Requests /\ r.bank \in Banks /\ r.write \in BOOLEAN /\ x \in Banks \X BOOLEAN
    BY <1>1 DEF TypesOK, Requests
  <1>3. q = s.list[x] /\ q \in Seq(Nat) /\ Len(q) \in Nat
    BY <1>1, <1>2 DEF TypesOK, List
  <1>4. p.at \in 1 .. Len(q) + 1 /\ p.seq \in 0 .. RowHitLimit
    BY <1>1, <1>2, PlaceFacts
  <1>5. p.at - 1 \in Nat
    BY <1>3, <1>4
  <1>6. n \in Nat
    BY <1>1 DEF TypesOK
  <1>7. d = [s EXCEPT !.req = f, !.list[x] = InsertAt(q, p.at, n),
                      !.rd = IF r.write THEN @ ELSE Append(@, n),
                      !.wr = IF r.write THEN Append(@, n) ELSE @]
    BY DEF queue
  <1>8. InsertAt(q, p.at, n) \in Seq(Nat)
    <2>1. IsList(q, Nat)
      BY <1>1, <1>2, <1>3 DEF CtrlInv, ListsOK
    <2>2. n \notin ToSet(q)
      BY <1>1, <1>2, <1>3 DEF MayEnter, CtrlInv, ListsOK
    <2> QED
      BY <1>4, <1>6, <2>1, <2>2, InsertList DEF IsList
  <1>9. f \in [DOMAIN s.req -> Requests]
    <2>1. ASSUME NEW m \in DOMAIN s.req PROVE s.req[m] \in Requests
      BY <1>1 DEF TypesOK
    <2>2. [r EXCEPT !.seq = p.seq, !.arrival = cycle, !.ahead = p.at - 1] \in Requests
      BY <1>2, <1>4, <1>5 DEF Requests
    <2>3. ASSUME NEW m \in DOMAIN s.req PROVE [s.req[m] EXCEPT !.passed = @ + 1] \in Requests
      BY <2>1 DEF Requests
    <2> HIDE DEF p, behind, r
    <2> QED
      BY <2>1, <2>2, <2>3
  <1> HIDE DEF d, f, q, p, x
  <1>10. /\ d.req = f /\ d.list = [s.list EXCEPT ![x] = InsertAt(q, p.at, n)]
         /\ d.rd = (IF r.write THEN s.rd ELSE Append(s.rd, n))
         /\ d.wr = (IF r.write THEN Append(s.wr, n) ELSE s.wr)
         /\ d.overflow = s.overflow /\ d.bank = s.bank /\ d.window = s.window
         /\ d.minRespCycle = s.minRespCycle /\ d.lastCmdWasWrite = s.lastCmdWasWrite
         /\ d.acts = s.acts
    BY <1>1, <1>7 DEF TypesOK
  <1>11. DOMAIN d.req = DOMAIN s.req
    BY <1>10 DEF f
  <1>12. TypesOK(d)
    <2>1. s.rd \in Seq(Nat) /\ s.wr \in Seq(Nat)
      BY <1>1 DEF TypesOK
    <2>2. Append(s.rd, n) \in Seq(Nat) /\ Append(s.wr, n) \in Seq(Nat)
      BY <1>6, <2>1
    <2>3. d.rd \in Seq(Nat) /\ d.wr \in Seq(Nat)
      BY <1>10, <2>1, <2>2
    <2>4. d.list \in [Banks \X BOOLEAN -> Seq(Nat)]
      BY <1>1, <1>8, <1>10 DEF TypesOK
    <2>5. d.req \in [DOMAIN d.req -> Requests]
      BY <1>9, <1>10, <1>11
    <2>6. /\ DOMAIN d.req \subseteq Nat /\ d.minRespCycle >= tCL + tBL + 1
          /\ d.overflow \in Seq(Nat) /\ d.bank \in [Banks -> BankStates] /\ d.window \in Windows
          /\ d.minRespCycle \in Nat /\ d.lastCmdWasWrite \in BOOLEAN /\ d.acts \in Seq(Nat)
      BY <1>1, <1>10, <1>11 DEF TypesOK
    <2>7. d = [req |-> d.req, rd |-> d.rd, wr |-> d.wr, overflow |-> d.overflow,
               list |-> d.list, bank |-> d.bank, window |-> d.window,
               minRespCycle |-> d.minRespCycle, lastCmdWasWrite |-> d.lastCmdWasWrite,
               acts |-> d.acts]
      BY <1>1, <1>7 DEF TypesOK
    <2> QED
      BY <2>3, <2>4, <2>5, <2>6, <2>7 DEF TypesOK
  <1>13. Enqueued(d, s, n, cycle)
    <2>1. /\ d.req[n] = [r EXCEPT !.seq = p.seq, !.arrival = cycle, !.ahead = p.at - 1]
          /\ \A m \in DOMAIN s.req \ {n} :
               d.req[m] = IF m \in behind THEN [s.req[m] EXCEPT !.passed = @ + 1] ELSE s.req[m]
      BY <1>1, <1>10 DEF f
    <2>2. ASSUME NEW b \in Banks, NEW w \in BOOLEAN
          PROVE  /\ d.list[<<b, w>>] = IF b = r.bank /\ w = r.write THEN InsertAt(q, p.at, n)
                                       ELSE s.list[<<b, w>>]
                 /\ Queued(d, w) = IF w = r.write THEN Append(Queued(s, w), n) ELSE Queued(s, w)
      <3>1. s.list \in [Banks \X BOOLEAN -> Seq(Nat)] /\ <<b, w>> \in Banks \X BOOLEAN
        BY <1>1 DEF TypesOK
      <3>2. <<b, w>> = x <=> b = r.bank /\ w = r.write
        BY DEF x
      <3>3. d.list[<<b, w>>] = IF <<b, w>> = x THEN InsertAt(q, p.at, n) ELSE s.list[<<b, w>>]
        BY <1>10, <3>1
      <3>4. Queued(d, w) = IF w = r.write THEN Append(Queued(s, w), n) ELSE Queued(s, w)
        <4>1. CASE w
          BY <1>2, <1>10, <4>1 DEF Queued
        <4>2. CASE ~ w
          BY <1>2, <1>10, <4>2 DEF Queued
        <4> QED
          BY <4>1, <4>2
      <3> QED
        BY <3>2, <3>3, <3>4
    <2> QED
      BY <1>10, <1>11, <2>1, <2>2 DEF Enqueued, q, p
  <1> QED
    BY <1>2, <1>3, <1>12, <1>13 DEF d, q, x

(* What queue() does to one request. *)
LEMMA EnqueuedRequest ==
    ASSUME NEW s, NEW n, NEW cycle, NEW d, Enqueued(d, s, n, cycle),
           NEW m \in DOMAIN s.req, s.req[m] \in Requests
    PROVE  LET r == s.req[n]
               q == List(s, r)
               p == Place(s, r)
               behind == {q[i] : i \in p.at .. Len(q)}
           IN /\ d.req[m].bank = s.req[m].bank /\ d.req[m].write = s.req[m].write
              /\ d.req[m].row = s.req[m].row
              /\ m = n => /\ d.req[m].seq = p.seq /\ d.req[m].ahead = p.at - 1
                          /\ d.req[m].passed = s.req[m].passed
              /\ m # n => /\ d.req[m].seq = s.req[m].seq /\ d.req[m].ahead = s.req[m].ahead
                          /\ d.req[m].passed = IF m \in behind THEN s.req[m].passed + 1
                                              ELSE s.req[m].passed
  <1> DEFINE r == s.req[n]
             q == List(s, r)
             p == Place(s, r)
             behind == {q[i] : i \in p.at .. Len(q)}
             a == p.seq
             e == p.at - 1
  <1>1. /\ d.req[n] = [r EXCEPT !.seq = a, !.arrival = cycle, !.ahead = e]
        /\ m # n => d.req[m] = IF m \in behind THEN [s.req[m] EXCEPT !.passed = @ + 1]
                              ELSE s.req[m]
    BY DEF Enqueued
  <1> HIDE DEF a, e, behind
  <1>2. CASE m = n
    <2>1. d.req[m] = [s.req[m] EXCEPT !.seq = a, !.arrival = cycle, !.ahead = e]
      BY <1>1, <1>2
    <2> HIDE DEF r, p, q
    <2>2. /\ d.req[m].bank = s.req[m].bank /\ d.req[m].write = s.req[m].write
          /\ d.req[m].row = s.req[m].row /\ d.req[m].seq = a /\ d.req[m].ahead = e
          /\ d.req[m].passed = s.req[m].passed
      BY <2>1 DEF Requests
    <2> QED
      BY <1>2, <2>2 DEF a, e, p, r, q
  <1>3. CASE m # n /\ m \in behind
    <2>1. d.req[m] = [s.req[m] EXCEPT !.passed = @ + 1]
      BY <1>1, <1>3
    <2> HIDE DEF r, p, q
    <2>2. /\ d.req[m].bank = s.req[m].bank /\ d.req[m].write = s.req[m].write
          /\ d.req[m].row = s.req[m].row /\ d.req[m].seq = s.req[m].seq
          /\ d.req[m].ahead = s.req[m].ahead /\ d.req[m].passed = s.req[m].passed + 1
      BY <2>1 DEF Requests
    <2> QED
      BY <1>3, <2>2 DEF behind, p, r, q
  <1>4. CASE m # n /\ m \notin behind
    BY <1>1, <1>4 DEF behind
  <1> QED
    BY <1>2, <1>3, <1>4

(* A queued request leaves the queues and the lists well formed. *)
LEMMA QueueKeepsLists ==
    ASSUME NEW s, NEW n, MayEnter(s, n), NEW cycle \in Nat, NEW d, d = queue(s, n, cycle)
    PROVE  /\ QueuesOK(d) /\ OverflowOK(d) /\ ListsOK(d)
           /\ ~ Empty(d)
           /\ n \in ToSet(Queued(d, s.req[n].write))
  <1> DEFINE r == s.req[n]
             q == List(s, r)
             p == Place(s, r)
  <1>1. /\ Enqueued(d, s, n, cycle) /\ r \in Requests /\ CtrlInv(s) /\ TypesOK(d)
        /\ q = s.list[<<r.bank, r.write>>] /\ n \in DOMAIN s.req
    BY QueueDoes DEF MayEnter
  <1>2. r.bank \in Banks /\ r.write \in BOOLEAN /\ n \in Nat
    BY <1>1 DEF Requests, CtrlInv, TypesOK
  <1>3. ASSUME NEW m \in DOMAIN s.req
        PROVE  /\ m \in DOMAIN d.req /\ d.req[m].bank = s.req[m].bank
               /\ d.req[m].write = s.req[m].write
    <2>1. s.req[m] \in Requests
      BY <1>1 DEF CtrlInv, TypesOK
    <2>2. m \in DOMAIN d.req
      BY <1>1 DEF Enqueued
    <2> QED
      BY <1>1, <2>1, <2>2, EnqueuedRequest
  <1>4. ASSUME NEW w \in BOOLEAN
        PROVE  /\ IsList(Queued(s, w), Nat) /\ Len(Queued(s, w)) < QueueDepth
               /\ n \notin ToSet(Queued(s, w))
               /\ \A m \in ToSet(Queued(s, w)) :
                    m \in DOMAIN s.req /\ s.req[m].write = w /\ m \notin ToSet(s.overflow)
    <2>1. /\ IsList(Queued(s, w), Nat) /\ Len(Queued(s, w)) <= QueueDepth
          /\ \A m \in ToSet(Queued(s, w)) :
                    m \in DOMAIN s.req /\ s.req[m].write = w /\ m \notin ToSet(s.overflow)
      BY <1>1 DEF CtrlInv, QueuesOK
    <2>2. Len(Queued(s, w)) # QueueDepth
      BY DEF MayEnter, Full, Queued
    <2>3. Len(Queued(s, w)) \in Nat /\ QueueDepth \in Nat
      BY <2>1, DDRAssumption DEF IsList
    <2> QED
      BY <2>1, <2>2, <2>3 DEF MayEnter
  <1>5. ASSUME NEW w \in BOOLEAN
        PROVE  /\ IsList(Queued(d, w), Nat) /\ Len(Queued(d, w)) <= QueueDepth
               /\ ToSet(Queued(d, w)) = IF w = r.write THEN ToSet(Queued(s, w)) \cup {n}
                                        ELSE ToSet(Queued(s, w))
    <2>1. CASE w = r.write
      <3>1. Queued(d, w) = Append(Queued(s, w), n)
        BY <1>1, <1>2, <2>1 DEF Enqueued
      <3>2. IsList(Queued(d, w), Nat) /\ ToSet(Queued(d, w)) = ToSet(Queued(s, w)) \cup {n}
        BY <1>2, <1>4, <3>1, AppendList
      <3>3. Len(Queued(d, w)) = Len(Queued(s, w)) + 1 /\ Len(Queued(s, w)) \in Nat
        BY <1>4, <3>1 DEF IsList
      <3>4. Len(Queued(d, w)) <= QueueDepth
        <4>1. Len(Queued(s, w)) < QueueDepth /\ QueueDepth \in Nat
          BY <1>4, DDRAssumption
        <4> QED
          BY <3>3, <4>1
      <3> QED
        BY <2>1, <3>2, <3>4
    <2>2. CASE w # r.write
      <3>1. Queued(d, w) = Queued(s, w)
        BY <1>1, <1>2, <2>2 DEF Enqueued
      <3>2. Len(Queued(s, w)) \in Nat /\ QueueDepth \in Nat
        BY <1>4, DDRAssumption DEF IsList
      <3> QED
        BY <1>4, <2>2, <3>1, <3>2
    <2> QED
      BY <2>1, <2>2
  <1>6. d.overflow = s.overflow /\ n \notin ToSet(s.overflow)
    BY <1>1 DEF Enqueued, MayEnter
  <1>7. QueuesOK(d)
    <2>1. ASSUME NEW w \in BOOLEAN, NEW m \in ToSet(Queued(d, w))
          PROVE  m \in DOMAIN d.req /\ d.req[m].write = w /\ m \notin ToSet(d.overflow)
      <3>1. CASE m = n
        <4>1. w = r.write
          BY <1>4, <1>5, <3>1
        <4> QED
          BY <1>1, <1>3, <1>6, <3>1, <4>1
      <3>2. CASE m # n
        <4>1. m \in ToSet(Queued(s, w))
          BY <1>5, <3>2
        <4> QED
          BY <1>3, <1>4, <1>6, <4>1
      <3> QED
        BY <3>1, <3>2
    <2> QED
      BY <1>5, <2>1 DEF QueuesOK
  <1>8. OverflowOK(d)
    <2>1. IsList(d.overflow, Nat)
      BY <1>1, <1>6 DEF CtrlInv, OverflowOK
    <2>2. ASSUME NEW m \in ToSet(d.overflow) PROVE m \in DOMAIN d.req /\ d.req[m].passed = 0
      <3>1. m \in DOMAIN s.req /\ s.req[m].passed = 0 /\ m # n
        BY <1>1, <1>6 DEF CtrlInv, OverflowOK
      <3>2. m \notin {q[i] : i \in p.at .. Len(q)}
        <4> SUFFICES ASSUME NEW i \in p.at .. Len(q) PROVE q[i] # m
          OBVIOUS
        <4>1. q \in Seq(Nat) /\ Len(q) \in Nat /\ DOMAIN q = 1 .. Len(q) /\ p.at \in 1 .. Len(q) + 1
          <5>1. q \in Seq(Nat) /\ Len(q) \in Nat /\ DOMAIN q = 1 .. Len(q)
            BY <1>1, <1>2 DEF CtrlInv, ListsOK, IsList
          <5> QED
            BY <1>1, <5>1, PlaceFacts
        <4>2. i \in DOMAIN q
          BY <4>1
        <4>3. q[i] \in ToSet(Queued(s, r.write))
          BY <1>1, <1>2, <4>2, InList
        <4> QED
          BY <1>2, <1>4, <1>6, <4>3
      <3>3. d.req[m] = s.req[m]
        BY <1>1, <3>1, <3>2 DEF Enqueued
      <3> QED
        BY <1>3, <3>1, <3>3
    <2> QED
      BY <2>1, <2>2 DEF OverflowOK
  <1>9. ListsOK(d)
    <2> SUFFICES ASSUME NEW b \in Banks, NEW w \in BOOLEAN
                 PROVE  /\ IsList(d.list[<<b, w>>], Nat)
                        /\ ToSet(d.list[<<b, w>>]) = {m \in ToSet(Queued(d, w)) : d.req[m].bank = b}
      BY DEF ListsOK
    <2>1. /\ IsList(s.list[<<b, w>>], Nat)
          /\ ToSet(s.list[<<b, w>>]) = {m \in ToSet(Queued(s, w)) : s.req[m].bank = b}
      BY <1>1 DEF CtrlInv, ListsOK
    <2>2. \A m \in ToSet(Queued(s, w)) : d.req[m].bank = s.req[m].bank
      BY <1>3, <1>4
    <2>3. CASE b = r.bank /\ w = r.write
      <3>1. d.list[<<b, w>>] = InsertAt(q, p.at, n) /\ q = s.list[<<b, w>>]
        BY <1>1, <2>3 DEF Enqueued
      <3>2. n \notin ToSet(q) /\ IsList(q, Nat)
        BY <1>4, <2>1, <3>1
      <3>3. p.at \in 1 .. Len(q) + 1
        BY <1>1, PlaceFacts
      <3>4. IsList(d.list[<<b, w>>], Nat) /\ ToSet(d.list[<<b, w>>]) = ToSet(q) \cup {n}
        BY <1>2, <3>1, <3>2, <3>3, InsertList
      <3>5. d.req[n].bank = b
        BY <1>1, <1>3, <2>3
      <3>6. ToSet(Queued(d, w)) = ToSet(Queued(s, w)) \cup {n}
        BY <1>5, <2>3
      <3> QED
        BY <2>1, <2>2, <3>1, <3>4, <3>5, <3>6
    <2>4. CASE b = r.bank /\ w # r.write
      <3>1. d.list[<<b, w>>] = s.list[<<b, w>>] /\ ToSet(Queued(d, w)) = ToSet(Queued(s, w))
        BY <1>1, <1>5, <2>4 DEF Enqueued
      <3> QED
        BY <2>1, <2>2, <3>1
    <2>5. CASE b # r.bank
      <3>1. d.list[<<b, w>>] = s.list[<<b, w>>]
        BY <1>1, <2>5 DEF Enqueued
      <3>2. d.req[n].bank # b
        BY <1>1, <1>3, <2>5
      <3>3. {m \in ToSet(Queued(d, w)) : d.req[m].bank = b} = {m \in ToSet(Queued(s, w)) : d.req[m].bank = b}
        BY <1>5, <3>2
      <3> QED
        BY <2>1, <2>2, <3>1, <3>3
    <2> QED
      BY <2>3, <2>4, <2>5
  <1>10. n \in ToSet(Queued(d, r.write))
    BY <1>2, <1>5
  <1>11. ~ Empty(d)
    <2>1. Queued(d, r.write) # <<>>
      BY <1>10 DEF ToSet
    <2> QED
      BY <2>1 DEF Empty, Queued
  <1> QED
    BY <1>7, <1>8, <1>9, <1>10, <1>11

(* The request at place k of a list it has been put in at place p: those before it are *)
(* as they were, it may let pass what those in front leave it, and those behind it     *)
(* have given it one of the row hits they could let pass.                              *)
LEMMA QueueKeepsBypass ==
    ASSUME NEW s, NEW n, MayEnter(s, n), NEW cycle \in Nat, NEW d, d = queue(s, n, cycle)
    PROVE  BypassOK(d)
  <1> DEFINE r == s.req[n]
             q == List(s, r)
             p == Place(s, r).at
             L == InsertAt(q, p, n)
             behind == {q[i] : i \in p .. Len(q)}
  <1>1. /\ Enqueued(d, s, n, cycle) /\ r \in Requests /\ CtrlInv(s) /\ TypesOK(d)
        /\ q = s.list[<<r.bank, r.write>>] /\ n \in DOMAIN s.req /\ DOMAIN d.req = DOMAIN s.req
        /\ r.passed = 0
    <2>1. /\ Enqueued(d, s, n, cycle) /\ r \in Requests /\ CtrlInv(s) /\ TypesOK(d)
          /\ q = s.list[<<r.bank, r.write>>] /\ n \in DOMAIN s.req /\ r.passed = 0
      BY QueueDoes DEF MayEnter
    <2>2. DOMAIN d.req = DOMAIN s.req
      BY <2>1 DEF Enqueued
    <2> QED
      BY <2>1, <2>2
  <1>2. r.bank \in Banks /\ r.write \in BOOLEAN /\ n \in Nat
    BY <1>1 DEF Requests, CtrlInv, TypesOK
  <1>3. RowHitLimit \in Nat
    BY DDRAssumption
  <1>4. ASSUME NEW m \in DOMAIN s.req PROVE s.req[m] \in Requests
    BY <1>1 DEF CtrlInv, TypesOK
  <1>5. /\ q \in Seq(Nat) /\ Len(q) \in Nat /\ DOMAIN q = 1 .. Len(q) /\ p \in 1 .. Len(q) + 1
        /\ IsList(q, Nat)
    <2>1. IsList(q, Nat)
      BY <1>1, <1>2 DEF CtrlInv, ListsOK
    <2>2. p \in 1 .. Len(q) + 1
      BY <1>1, PlaceFacts
    <2> QED
      BY <2>1, <2>2 DEF IsList
  <1>6. ASSUME NEW i \in DOMAIN q
        PROVE  /\ q[i] \in DOMAIN s.req /\ s.req[q[i]] \in Requests /\ q[i] # n
               /\ s.req[q[i]].bank = r.bank /\ s.req[q[i]].write = r.write
    <2>1. /\ q[i] \in ToSet(Queued(s, r.write)) /\ q[i] \in DOMAIN s.req
          /\ s.req[q[i]] \in Requests /\ s.req[q[i]].bank = r.bank
          /\ s.req[q[i]].write = r.write
      <3> HIDE DEF q, r
      <3>1. i \in DOMAIN s.list[<<r.bank, r.write>>]
        BY <1>1
      <3> QED
        BY <1>1, <1>2, <3>1, InList
    <2> QED
      BY <1>2, <2>1 DEF MayEnter
  <1>7. n \notin ToSet(q)
    BY <1>6 DEF ToSet
  <1>8. /\ d.req[n].seq = Place(s, r).seq /\ d.req[n].ahead = p - 1 /\ d.req[n].passed = 0
        /\ d.req[n].row = r.row
    BY <1>1, EnqueuedRequest
  <1>9. ASSUME NEW m \in DOMAIN s.req, m # n
        PROVE  /\ d.req[m].row = s.req[m].row /\ d.req[m].seq = s.req[m].seq
               /\ d.req[m].ahead = s.req[m].ahead
               /\ d.req[m].passed = IF m \in behind THEN s.req[m].passed + 1 ELSE s.req[m].passed
    BY <1>1, <1>4, <1>9, EnqueuedRequest
  <1> HIDE DEF r, q, p, L, behind
  <1>10. ASSUME NEW k \in DOMAIN q
         PROVE  /\ Left(s, q, k) + s.req[q[k]].passed <= RowHitLimit * s.req[q[k]].ahead
                /\ Left(s, q, k) \in Nat /\ s.req[q[k]].passed \in Nat
                /\ RowHitLimit * s.req[q[k]].ahead \in Nat
    <2>1. Left(s, q, k) + s.req[q[k]].passed <= RowHitLimit * s.req[q[k]].ahead
      BY <1>1, <1>2 DEF CtrlInv, BypassOK
    <2>2. s.req[q[k]].passed \in Nat /\ s.req[q[k]].ahead \in Nat
      BY <1>6 DEF Requests
    <2>3. Left(s, q, k) \in Nat
      BY <1>5, <1>6, LeftBound
    <2>4. RowHitLimit * s.req[q[k]].ahead \in Nat
      BY <1>3, <2>2
    <2> QED
      BY <2>1, <2>2, <2>3, <2>4
  <1>11. /\ IsList(L, Nat) /\ DOMAIN L = 1 .. Len(q) + 1 /\ Len(L) = Len(q) + 1
         /\ \A i \in 1 .. Len(q) + 1 :
                L[i] = IF i < p THEN q[i] ELSE IF i = p THEN n ELSE q[i - 1]
    <2>1. IsList(L, Nat) /\ Inserted(L, q, p, n)
      BY <1>2, <1>5, <1>7, InsertList DEF L
    <2>2. Len(q) + 1 \in Nat /\ L \in Seq(Nat)
      BY <1>5, <2>1 DEF IsList
    <2>3. Len(L) = Len(q) + 1
      BY <2>1, <2>2 DEF Inserted
    <2> QED
      BY <2>1, <2>3 DEF Inserted
  <1> DEFINE rw == RowsOf(s, q)
             sq == SeqsOf(s, q)
             rv == RowsOf(d, L)
             sv == SeqsOf(d, L)
  <1>12. ASSUME NEW i \in 1 .. Len(q) + 1
         PROVE  /\ rv[i] = IF i < p THEN rw[i] ELSE IF i = p THEN r.row ELSE rw[i - 1]
                /\ sv[i] = IF i < p THEN sq[i] ELSE IF i = p THEN Place(s, r).seq ELSE sq[i - 1]
    <2>1. rv[i] = d.req[L[i]].row /\ sv[i] = d.req[L[i]].seq
      BY <1>11 DEF RowsOf, SeqsOf
    <2>2. CASE i < p
      <3>1. i \in DOMAIN q /\ L[i] = q[i]
        BY <1>5, <1>11, <2>2
      <3>2. d.req[q[i]].row = s.req[q[i]].row /\ d.req[q[i]].seq = s.req[q[i]].seq
        BY <1>6, <1>9, <3>1
      <3> QED
        BY <2>1, <2>2, <3>1, <3>2 DEF RowsOf, SeqsOf
    <2>3. CASE i = p
      BY <1>8, <1>11, <2>1, <2>3
    <2>4. CASE i > p
      <3>1. i - 1 \in DOMAIN q /\ L[i] = q[i - 1]
        BY <1>5, <1>11, <2>4
      <3>2. d.req[q[i - 1]].row = s.req[q[i - 1]].row /\ d.req[q[i - 1]].seq = s.req[q[i - 1]].seq
        BY <1>6, <1>9, <3>1
      <3>3. ~ (i < p) /\ i # p
        BY <1>5, <2>4
      <3> QED
        BY <2>1, <3>1, <3>2, <3>3 DEF RowsOf, SeqsOf
    <2> QED
      BY <1>5, <2>2, <2>3, <2>4
  <1>13. PutIn(rv, rw, Len(q), p, r.row) /\ PutIn(sv, sq, Len(q), p, Place(s, r).seq)
    BY <1>12 DEF PutIn
  <1>14. /\ rw \in [1 .. Len(q) -> Rows] /\ sq \in [1 .. Len(q) -> Nat]
         /\ \A k \in DOMAIN q : IsFiniteSet(Slots(rw, sq, Len(q), k))
    <2>1. \A i \in DOMAIN q : s.req[q[i]].row \in Rows /\ s.req[q[i]].seq \in Nat
      BY <1>3, <1>6 DEF Requests
    <2>2. rw \in [1 .. Len(q) -> Rows] /\ sq \in [1 .. Len(q) -> Nat]
      BY <1>5, <2>1 DEF RowsOf, SeqsOf
    <2>3. \A k \in DOMAIN q : IsFiniteSet(Slots(rw, sq, Len(q), k))
      BY <1>5, <1>6, LeftBound
    <2> QED
      BY <2>2, <2>3
  <1>15. rv \in [1 .. Len(q) + 1 -> Rows]
    <2>1. r.row \in Rows
      BY <1>1 DEF Requests
    <2>2. ASSUME NEW i \in 1 .. Len(q) + 1 PROVE rv[i] \in Rows
      <3>1. CASE i < p
        <4>1. i \in 1 .. Len(q)
          BY <1>5, <3>1
        <4> QED
          BY <1>12, <1>14, <3>1, <4>1
      <3>2. CASE i = p
        BY <1>12, <2>1, <3>2
      <3>3. CASE i > p
        <4>1. i - 1 \in 1 .. Len(q) /\ ~ (i < p) /\ i # p
          BY <1>5, <3>3
        <4> QED
          BY <1>12, <1>14, <4>1
      <3> QED
        BY <1>5, <3>1, <3>2, <3>3
    <2>3. rv = [i \in 1 .. Len(q) + 1 |-> rv[i]]
      BY <1>11 DEF RowsOf
    <2> HIDE DEF rv
    <2> QED
      BY <2>2, <2>3
  <1> HIDE DEF rw, sq, rv, sv
  <1>16. \A k : Left(d, L, k) = Cardinality(Slots(rv, sv, Len(q) + 1, k))
    BY <1>11 DEF Left, rv, sv
  <1>17. \A k : Left(s, q, k) = Cardinality(Slots(rw, sq, Len(q), k))
    BY DEF Left, rw, sq
  <1>18. ASSUME NEW k \in p .. Len(q)
         PROVE  Left(d, L, k + 1) + s.req[q[k]].passed + 1 <= RowHitLimit * s.req[q[k]].ahead
    <2>1. /\ p - 1 \in DOMAIN q /\ s.req[q[p - 1]].row = r.row
          /\ s.req[q[p - 1]].seq < RowHitLimit
          /\ Place(s, r).seq = s.req[q[p - 1]].seq + 1
          /\ \A j \in p .. Len(q) : s.req[q[j]].row # r.row
      <3>1. p # Len(q) + 1
        BY <1>5
      <3>2. LET z == Place(s, r)
            IN  \/ z.at = Len(List(s, r)) + 1
                \/ /\ z.at - 1 \in DOMAIN List(s, r)
                   /\ s.req[List(s, r)[z.at - 1]].row = r.row
                   /\ s.req[List(s, r)[z.at - 1]].seq < RowHitLimit
                   /\ z.seq = s.req[List(s, r)[z.at - 1]].seq + 1
                   /\ \A j \in z.at .. Len(List(s, r)) : s.req[List(s, r)[j]].row # r.row
        BY <1>1, PlaceFacts
      <3> QED
        BY <3>1, <3>2 DEF p, q
    <2>2. /\ rw[p - 1] = r.row /\ sq[p - 1] < RowHitLimit /\ Place(s, r).seq = sq[p - 1] + 1
          /\ \A j \in p .. Len(q) : rw[j] # rw[p - 1]
      <3>1. rw[p - 1] = r.row /\ sq[p - 1] < RowHitLimit /\ Place(s, r).seq = sq[p - 1] + 1
        BY <2>1 DEF rw, sq, RowsOf, SeqsOf
      <3>2. \A j \in p .. Len(q) : j \in DOMAIN q
        BY <1>5
      <3> QED
        BY <2>1, <3>1, <3>2 DEF rw, RowsOf
    <2>3. k \in 1 .. Len(q) /\ p \in 2 .. k /\ Len(q) \in Nat /\ k \in DOMAIN q
      BY <1>5, <2>1
    <2>4. PutIn(rv, rw, Len(q), p, rw[p - 1]) /\ PutIn(sv, sq, Len(q), p, sq[p - 1] + 1)
      BY <1>13, <2>2
    <2>5. Cardinality(Slots(rv, sv, Len(q) + 1, k + 1)) + 1 <= Cardinality(Slots(rw, sq, Len(q), k))
      BY <1>14, <2>2, <2>3, <2>4, PutBefore
    <2>6. Left(d, L, k + 1) + 1 <= Left(s, q, k)
      BY <1>16, <1>17, <2>5
    <2>7. Left(d, L, k + 1) \in Nat
      <3>1. k + 1 \in 1 .. (Len(q) + 1) + 1 /\ Len(q) + 1 \in Nat
        BY <2>3
      <3> QED
        BY <1>15, <1>16, <3>1, SlotsBound, SMTT(30)
    <2> QED
      BY <1>10, <2>3, <2>6, <2>7, SMTT(30)
  <1>19. ASSUME NEW k \in 1 .. p - 1
         PROVE  Left(d, L, k) + s.req[q[k]].passed <= RowHitLimit * s.req[q[k]].ahead
    <2>1. k \in 1 .. Len(q) /\ k \in DOMAIN q /\ k < p
      BY <1>5
    <2>2. Slots(rv, sv, Len(q) + 1, k) \subseteq Slots(rw, sq, Len(q), k)
      BY <1>5, <1>13, <2>1, PutBehind
    <2>3. Left(d, L, k) <= Left(s, q, k) /\ Left(d, L, k) \in Nat
      BY <1>14, <1>16, <1>17, <2>1, <2>2, SlotsSubset
    <2> QED
      BY <1>10, <2>1, <2>3
  <1>20. Left(d, L, p) <= RowHitLimit * (p - 1) /\ Left(d, L, p) \in Nat
    <2>1. p \in 1 .. (Len(q) + 1) + 1 /\ Len(q) + 1 \in Nat
      BY <1>5
    <2> QED
      BY <1>15, <1>16, <2>1, SlotsBound
  <1>21. ASSUME NEW k \in DOMAIN L
         PROVE  Left(d, L, k) + d.req[L[k]].passed <= RowHitLimit * d.req[L[k]].ahead
    <2>1. CASE k < p
      <3>1. k \in 1 .. p - 1 /\ k \in DOMAIN q /\ L[k] = q[k]
        BY <1>5, <1>11, <2>1
      <3>2. q[k] \notin behind
        <4> SUFFICES ASSUME NEW i \in p .. Len(q) PROVE q[i] # q[k]
          BY DEF behind
        <4>1. i \in DOMAIN q /\ i # k
          BY <1>5, <2>1, <3>1
        <4> QED
          BY <1>5, <3>1, <4>1 DEF IsList, IsInjective
      <3>3. d.req[q[k]].passed = s.req[q[k]].passed /\ d.req[q[k]].ahead = s.req[q[k]].ahead
        BY <1>6, <1>9, <3>1, <3>2
      <3> QED
        BY <1>19, <3>1, <3>3
    <2>2. CASE k = p
      <3>1. L[k] = n
        BY <1>11, <2>2
      <3>2. Left(d, L, k) + 0 <= RowHitLimit * (p - 1)
        BY <1>20, <2>2
      <3> QED
        BY <1>8, <3>1, <3>2
    <2>3. CASE k > p
      <3>1. k - 1 \in p .. Len(q) /\ k - 1 \in DOMAIN q /\ L[k] = q[k - 1] /\ (k - 1) + 1 = k
        BY <1>5, <1>11, <2>3
      <3>2. q[k - 1] \in behind
        BY <3>1 DEF behind
      <3>3. /\ d.req[q[k - 1]].passed = s.req[q[k - 1]].passed + 1
            /\ d.req[q[k - 1]].ahead = s.req[q[k - 1]].ahead
        BY <1>6, <1>9, <3>1, <3>2
      <3>4. Left(d, L, k) + s.req[q[k - 1]].passed + 1 <= RowHitLimit * s.req[q[k - 1]].ahead
        BY <1>18, <3>1
      <3>5. Left(d, L, k) \in Nat /\ s.req[q[k - 1]].passed \in Nat
        <4>1. k \in 1 .. (Len(q) + 1) + 1 /\ Len(q) + 1 \in Nat
          BY <1>5, <1>11
        <4>2. Left(d, L, k) \in Nat
          BY <1>15, <1>16, <4>1, SlotsBound
        <4> QED
          BY <1>10, <3>1, <4>2
      <3> QED
        BY <3>1, <3>3, <3>4, <3>5
    <2> QED
      BY <1>5, <1>11, <2>1, <2>2, <2>3
  <1>22. ASSUME NEW m \in DOMAIN d.req
         PROVE  d.req[m].passed <= RowHitLimit * d.req[m].ahead
    <2>1. CASE m = n
      <3>1. RowHitLimit * (p - 1) >= 0
        BY <1>20, <1>3, <1>5
      <3> QED
        BY <1>8, <2>1, <3>1
    <2>2. CASE m # n /\ m \in behind
      <3>1. PICK k \in p .. Len(q) : m = q[k]
        BY <2>2 DEF behind
      <3>2. Left(d, L, k + 1) \in Nat /\ s.req[m].passed \in Nat /\ k \in DOMAIN q
        <4>1. k + 1 \in 1 .. (Len(q) + 1) + 1 /\ Len(q) + 1 \in Nat /\ k \in DOMAIN q
          BY <1>5
        <4> QED
          BY <1>10, <1>15, <1>16, <3>1, <4>1, SlotsBound, SMTT(30)
      <3>3. RowHitLimit * s.req[m].ahead \in Nat
        BY <1>10, <3>1, <3>2, SMTT(30)
      <3>4. s.req[m].passed + 1 <= RowHitLimit * s.req[m].ahead
        BY <1>18, <3>1, <3>2, <3>3
      <3> QED
        BY <1>1, <1>9, <2>2, <3>4
    <2>3. CASE m # n /\ m \notin behind
      <3>1. m \in DOMAIN s.req /\ s.req[m].passed <= RowHitLimit * s.req[m].ahead
        BY <1>1 DEF CtrlInv, BypassOK
      <3> QED
        BY <1>9, <2>3, <3>1
    <2> QED
      BY <2>1, <2>2, <2>3
  <1>23. ASSUME NEW b \in Banks, NEW w \in BOOLEAN, NEW k \in DOMAIN d.list[<<b, w>>]
         PROVE  LET z == d.req[d.list[<<b, w>>][k]]
                IN  Left(d, d.list[<<b, w>>], k) + z.passed <= RowHitLimit * z.ahead
    <2>1. CASE b = r.bank /\ w = r.write
      <3>1. d.list[<<b, w>>] = L
        BY <1>1, <2>1 DEF Enqueued, L, q, p, r
      <3> QED
        BY <1>21, <3>1
    <2>2. CASE ~ (b = r.bank /\ w = r.write)
      <3> DEFINE t == s.list[<<b, w>>]
      <3>1. d.list[<<b, w>>] = t
        BY <1>1, <2>2 DEF Enqueued, r
      <3>2. ASSUME NEW i \in DOMAIN t
            PROVE  /\ t[i] \in DOMAIN s.req /\ t[i] # n /\ t[i] \notin behind
        <4>1. /\ t[i] \in ToSet(Queued(s, w)) /\ t[i] \in DOMAIN s.req
              /\ s.req[t[i]].bank = b /\ s.req[t[i]].write = w
          BY <1>1, InList
        <4>2. t[i] # n
          BY <4>1 DEF MayEnter
        <4>3. t[i] \notin behind
          <5> SUFFICES ASSUME NEW j \in p .. Len(q) PROVE q[j] # t[i]
            BY DEF behind
          <5>1. j \in DOMAIN q
            BY <1>5
          <5> QED
            BY <1>6, <2>2, <4>1, <5>1
        <4> QED
          BY <4>1, <4>2, <4>3
      <3>3. Left(s, t, k) + s.req[t[k]].passed <= RowHitLimit * s.req[t[k]].ahead
        BY <1>1, <3>1 DEF CtrlInv, BypassOK
      <3> HIDE DEF t
      <3>4. Left(d, t, k) = Left(s, t, k)
        BY <1>9, <3>2, LeftSame
      <3>5. d.req[t[k]].passed = s.req[t[k]].passed /\ d.req[t[k]].ahead = s.req[t[k]].ahead
        BY <1>9, <3>1, <3>2
      <3> QED
        BY <3>1, <3>3, <3>4, <3>5
    <2> QED
      BY <2>1, <2>2
  <1> QED
    BY <1>22, <1>23 DEF BypassOK

(* queue() keeps what is known of the controller. *)
LEMMA QueueKeeps ==
    ASSUME NEW s, NEW n, MayEnter(s, n), NEW cycle \in Nat
    PROVE  /\ CtrlInv(queue(s, n, cycle)) /\ ~ Empty(queue(s, n, cycle))
           /\ DOMAIN queue(s, n, cycle).req = DOMAIN s.req
           /\ queue(s, n, cycle).overflow = s.overflow
           /\ queue(s, n, cycle).minRespCycle = s.minRespCycle
  <1> DEFINE d == queue(s, n, cycle)
  <1>1. TypesOK(d) /\ Enqueued(d, s, n, cycle)
    BY QueueDoes
  <1>2. QueuesOK(d) /\ OverflowOK(d) /\ ListsOK(d) /\ ~ Empty(d)
    BY QueueKeepsLists
  <1>3. BypassOK(d)
    BY QueueKeepsBypass
  <1>4. DOMAIN d.req = DOMAIN s.req /\ d.overflow = s.overflow /\ d.minRespCycle = s.minRespCycle
    BY <1>1 DEF Enqueued
  <1> QED
    BY <1>1, <1>2, <1>3, <1>4 DEF CtrlInv
-----------------------------------------------------------------------------
(* The timings are numbers. *)
LEMMA TimingTypes ==
    /\ {QueueDepth, WindowSize, tBL, tCL, tRCD, tRTP, tRP, tRRD, tRAS, tFAW, tWTR, tWR,
        tRFC, tREFI} \subseteq Nat \ {0}
    /\ QueueDepth \in Nat \ {0} /\ WindowSize \in Nat \ {0, 1} /\ tBL \in Nat \ {0}
    /\ tCL \in Nat \ {0} /\ tRCD \in Nat \ {0} /\ tRTP \in Nat \ {0} /\ tRP \in Nat \ {0}
    /\ tRRD \in Nat \ {0} /\ tRAS \in Nat \ {0} /\ tFAW \in Nat \ {0} /\ tWTR \in Nat \ {0}
    /\ tWR \in Nat \ {0} /\ tRFC \in Nat \ {0} /\ tREFI \in Nat \ {0} /\ tRFC >= tRP
    /\ RowHitLimit \in Nat
  BY DDRAssumption

(* The cycles computed for a request are numbers. *)
LEMMA CycleTypes ==
    ASSUME NEW s, TypesOK(s), NEW r \in Requests
    PROVE  /\ PreCycle(s, r) \in Nat /\ ActCycle(s, r) \in Nat /\ findMinCmdCycle(s, r) \in Nat
           /\ Head(s.window) + tFAW <= ActCycle(s, r)
  <1> DEFINE b == s.bank[r.bank]
  <1>1. b \in BankStates /\ r.arrival \in Nat /\ s.window \in Windows
    BY DEF TypesOK, Requests
  <1>2. b.minPreCycle \in Nat /\ b.lastActCycle \in Nat /\ b.lastCmdCycle \in Nat
    BY <1>1 DEF BankStates
  <1>3. PreCycle(s, r) \in Nat
    <2>1. MaxOf({r.arrival, b.minPreCycle}) \in Nat
      BY <1>1, <1>2, MaxOf2
    <2> QED
      BY <1>2, <2>1 DEF PreCycle
  <1>4. Head(s.window) \in Nat
    <2>1. s.window \in Seq(Nat) /\ Len(s.window) > 0
      BY <1>1, TimingTypes DEF Windows
    <2> QED
      BY <2>1
  <1>5. ActCycle(s, r) \in Nat /\ Head(s.window) + tFAW <= ActCycle(s, r)
    <2>1. PreCycle(s, r) + tRP \in Nat /\ b.lastActCycle + tRRD \in Nat /\ Head(s.window) + tFAW \in Nat
      BY <1>2, <1>3, <1>4, TimingTypes
    <2> QED
      BY <1>1, <2>1, MaxOf4 DEF ActCycle
  <1>6. findMinCmdCycle(s, r) \in Nat
    <2>1. b.lastCmdCycle + 1 \in Nat /\ ActCycle(s, r) + tRCD \in Nat
      BY <1>2, <1>5, TimingTypes
    <2>2. MaxOf({r.arrival, b.lastCmdCycle + 1}) \in Nat
      BY <1>1, <2>1, MaxOf2
    <2> QED
      BY <2>1, <2>2 DEF findMinCmdCycle
  <1> QED
    BY <1>3, <1>5, <1>6

(* The window of activations keeps its size. *)
LEMMA WindowKept ==
    ASSUME NEW w \in Windows, NEW cycle \in Nat
    PROVE  addActivation(w, cycle) \in Windows
  <1> DEFINE rest == Tail(w)
             notAfter == {i \in DOMAIN rest : rest[i] <= cycle}
             l == Len(rest)
  <1>1. /\ w \in Seq(Nat) /\ Len(w) = WindowSize /\ rest \in Seq(Nat) /\ l = WindowSize - 1
        /\ l \in Nat /\ l >= 1 /\ DOMAIN rest = 1 .. l
    BY TimingTypes DEF Windows
  <1>2. addActivation(w, cycle) = IF notAfter = {} THEN <<Last(rest)>> \o Front(rest) \o <<cycle>>
                                  ELSE InsertAt(rest, MaxOf(notAfter) + 1, cycle)
    BY DEF addActivation
  <1>3. CASE notAfter = {}
    <2>1. Last(rest) \in Nat /\ Front(rest) \in Seq(Nat) /\ Len(Front(rest)) = l - 1
      <3>1. Front(rest) = SubSeq(rest, 1, l - 1) /\ Last(rest) = rest[l]
        BY DEF Front, Last
      <3>2. 1 \in Int /\ l - 1 \in Int /\ \A i \in 1 .. l - 1 : rest[i] \in Nat
        BY <1>1
      <3>3. rest[l] \in Nat
        BY <1>1
      <3> HIDE DEF rest, l
      <3>4. /\ SubSeq(rest, 1, l - 1) \in Seq(Nat)
            /\ Len(SubSeq(rest, 1, l - 1)) = IF 1 <= l - 1 THEN (l - 1) - 1 + 1 ELSE 0
        BY <3>2, SubSeqProperties
      <3> QED
        BY <1>1, <3>1, <3>3, <3>4
    <2> HIDE DEF rest
    <2> DEFINE a == <<Last(rest)>>
               e == <<cycle>>
               f == Front(rest)
    <2>2. a \in Seq(Nat) /\ Len(a) = 1 /\ e \in Seq(Nat) /\ Len(e) = 1 /\ f \in Seq(Nat) /\ Len(f) = l - 1
      BY <2>1
    <2> HIDE DEF a, e, f, l
    <2>3. a \o f \in Seq(Nat) /\ Len(a \o f) = Len(a) + Len(f)
      BY <2>2, ConcatProperties
    <2>4. (a \o f) \o e \in Seq(Nat) /\ Len((a \o f) \o e) = Len(a \o f) + Len(e)
      BY <2>2, <2>3, ConcatProperties
    <2>5. (1 + (l - 1)) + 1 = WindowSize
      BY <1>1, TimingTypes
    <2>6. addActivation(w, cycle) = (a \o f) \o e
      BY <1>2, <1>3 DEF a, e, f
    <2> QED
      BY <2>2, <2>3, <2>4, <2>5, <2>6 DEF Windows
  <1>4. CASE notAfter # {}
    <2>1. MaxOf(notAfter) \in 1 .. l
      <3>1. notAfter \in SUBSET Nat /\ \A k \in notAfter : k <= l
        BY <1>1
      <3>2. \A k \in notAfter : k \in 1 .. l
        BY <1>1
      <3> HIDE DEF notAfter
      <3> QED
        BY <1>1, <1>4, <3>1, <3>2, MaxOfGreatest
    <2> DEFINE m == MaxOf(notAfter)
               a == SubSeq(rest, 1, m)
               e == <<cycle>>
               f == SubSeq(rest, m + 1, l)
    <2> HIDE DEF notAfter, rest
    <2>2. a \in Seq(Nat) /\ Len(a) = m
      <3>1. 1 \in Int /\ m \in Int /\ \A i \in 1 .. m : rest[i] \in Nat
        BY <1>1, <2>1
      <3> HIDE DEF m, l
      <3>2. a \in Seq(Nat) /\ Len(a) = IF 1 <= m THEN m - 1 + 1 ELSE 0
        BY <3>1, SubSeqProperties
      <3> QED
        BY <2>1, <3>1, <3>2 DEF m
    <2>3. f \in Seq(Nat) /\ Len(f) = l - m
      <3>1. m + 1 \in Int /\ l \in Int /\ \A i \in m + 1 .. l : rest[i] \in Nat
        BY <1>1, <2>1
      <3> HIDE DEF m, l
      <3>2. f \in Seq(Nat) /\ Len(f) = IF m + 1 <= l THEN l - (m + 1) + 1 ELSE 0
        BY <3>1, SubSeqProperties
      <3> QED
        BY <2>1, <3>1, <3>2 DEF m
    <2>4. addActivation(w, cycle) = (a \o e) \o f
      <3>1. (m + 1) - 1 = m
        BY <2>1
      <3> QED
        BY <1>2, <1>4, <3>1 DEF InsertAt
    <2>5. e \in Seq(Nat) /\ Len(e) = 1
      OBVIOUS
    <2> HIDE DEF m, a, e, f, l
    <2>6. a \o e \in Seq(Nat) /\ Len(a \o e) = Len(a) + Len(e)
      BY <2>2, <2>5, ConcatProperties
    <2>7. (a \o e) \o f \in Seq(Nat) /\ Len((a \o e) \o f) = Len(a \o e) + Len(f)
      BY <2>3, <2>6, ConcatProperties
    <2>8. (m + 1) + (l - m) = WindowSize
      BY <1>1, <2>1, TimingTypes DEF m
    <2> QED
      BY <2>2, <2>3, <2>4, <2>5, <2>6, <2>7, <2>8 DEF Windows
  <1> QED
    BY <1>3, <1>4
-----------------------------------------------------------------------------
(* The candidates are the requests of one queue. *)
LEMMA CandidateFacts ==
    ASSUME NEW s, CtrlInv(s)
    PROVE  /\ \E w \in BOOLEAN : Candidates(s) = Queued(s, w)
           /\ IsList(Candidates(s), Nat) /\ DOMAIN Candidates(s) = 1 .. Len(Candidates(s))
           /\ ~ Empty(s) => Candidates(s) # <<>>
           /\ \A i \in DOMAIN Candidates(s) :
                LET n == Candidates(s)[i]
                    r == s.req[n]
                IN /\ n \in Nat /\ n \in DOMAIN s.req /\ r \in Requests
                   /\ Candidates(s) = Queued(s, r.write) /\ n \in ToSet(Queued(s, r.write))
                   /\ List(s, r) = s.list[<<r.bank, r.write>>] /\ n \in ToSet(List(s, r))
                   /\ IsList(List(s, r), Nat) /\ n \notin ToSet(s.overflow)
  <1> DEFINE C == Candidates(s)
  <1>1. \E w \in BOOLEAN : C = Queued(s, w)
    <2>1. Queued(s, TRUE) = s.wr /\ Queued(s, FALSE) = s.rd
      BY DEF Queued
    <2> QED
      BY <2>1 DEF Candidates
  <1>2. PICK w \in BOOLEAN : C = Queued(s, w)
    BY <1>1
  <1>3. IsList(C, Nat) /\ DOMAIN C = 1 .. Len(C)
    BY <1>2 DEF CtrlInv, QueuesOK, IsList
  <1>4. ~ Empty(s) => C # <<>>
    <2>1. PrioWrites(s) => s.wr # <<>>
      <3> SUFFICES ASSUME PrioWrites(s), s.wr = <<>> PROVE FALSE
        OBVIOUS
      <3>1. Len(s.wr) = 0 /\ QueueDepth \in Nat /\ 3 * QueueDepth \in Nat
        BY TimingTypes
      <3>2. (3 * QueueDepth) \div 4 >= 0 /\ (3 * QueueDepth) \div 4 \in Int
        BY <3>1, Z3
      <3>3. QueueDepth \div 4 >= 0 /\ QueueDepth \div 4 \in Int
        BY <3>1, Z3
      <3> QED
        BY <3>1, <3>2, <3>3 DEF PrioWrites
    <2> QED
      BY <2>1 DEF Candidates, Empty
  <1>5. ASSUME NEW i \in DOMAIN C
        PROVE  LET n == C[i]
                   r == s.req[n]
               IN /\ n \in Nat /\ n \in DOMAIN s.req /\ r \in Requests
                  /\ C = Queued(s, r.write) /\ n \in ToSet(Queued(s, r.write))
                  /\ List(s, r) = s.list[<<r.bank, r.write>>] /\ n \in ToSet(List(s, r))
                  /\ IsList(List(s, r), Nat) /\ n \notin ToSet(s.overflow)
    <2> DEFINE n == C[i]
               r == s.req[n]
    <2>1. n \in ToSet(Queued(s, w))
      BY <1>2 DEF ToSet
    <2>2. n \in DOMAIN s.req /\ r.write = w /\ n \notin ToSet(s.overflow)
      BY <2>1 DEF CtrlInv, QueuesOK
    <2>3. r \in Requests /\ n \in Nat
      BY <2>2 DEF CtrlInv, TypesOK
    <2>4. r.bank \in Banks /\ r.write \in BOOLEAN
      BY <2>3 DEF Requests
    <2>5. List(s, r) = s.list[<<r.bank, r.write>>]
      BY DEF List
    <2>6. /\ IsList(s.list[<<r.bank, r.write>>], Nat)
          /\ ToSet(s.list[<<r.bank, r.write>>]) = {m \in ToSet(Queued(s, r.write)) : s.req[m].bank = r.bank}
      BY <2>4 DEF CtrlInv, ListsOK
    <2>7. n \in ToSet(s.list[<<r.bank, r.write>>])
      BY <2>1, <2>2, <2>6
    <2> QED
      BY <1>2, <2>1, <2>2, <2>3, <2>5, <2>6, <2>7
  <1> QED
    BY <1>1, <1>3, <1>4, <1>5

(* The parts of the controller that issuing the i-th candidate changes. *)
Issued(d, s, i, cur) ==
    LET n == Candidates(s)[i]
        r == s.req[n]
    IN /\ DOMAIN d.req = DOMAIN s.req \ {n}
       /\ \A m \in DOMAIN s.req \ {n} : d.req[m] = s.req[m]
       /\ \A b \in Banks, w \in BOOLEAN :
            /\ d.list[<<b, w>>] = IF b = r.bank /\ w = r.write THEN Tail(List(s, r))
                                  ELSE s.list[<<b, w>>]
            /\ Queued(d, w) = IF w = r.write THEN RemoveAt(Queued(s, w), i) ELSE Queued(s, w)
       /\ d.overflow = s.overflow
       /\ d.minRespCycle - tCL \in Nat /\ cur <= d.minRespCycle - tCL

(* The cycle of a column access. *)
LEMMA CommandCycle ==
    ASSUME NEW cur \in Nat, NEW m \in Nat, NEW e \in Nat, NEW f \in Nat, NEW P, NEW Q
    PROVE  LET cmd == MaxOf({cur, m} \cup (IF P THEN {e} ELSE {}) \cup (IF Q THEN {} ELSE {f}))
           IN cmd \in Nat /\ cur <= cmd /\ m <= cmd
  <1> DEFINE S == {cur, m} \cup (IF P THEN {e} ELSE {}) \cup (IF Q THEN {} ELSE {f})
  <1>1. S \in SUBSET Nat /\ cur \in S /\ m \in S /\ S \subseteq {cur, m, e, f}
    OBVIOUS
  <1>2. cur + m + e + f \in Nat /\ \A k \in {cur, m, e, f} : k <= cur + m + e + f
    OBVIOUS
  <1> HIDE DEF S
  <1>3. \A k \in S : k <= cur + m + e + f
    BY <1>1, <1>2
  <1>4. MaxOf(S) \in S /\ \A k \in S : k <= MaxOf(S)
    BY <1>1, <1>2, <1>3, MaxOfGreatest
  <1>5. MaxOf(S) \in Nat /\ cur <= MaxOf(S) /\ m <= MaxOf(S)
    BY <1>1, <1>4
  <1> QED
    BY <1>5 DEF S

(* What issuing a command changes, and that the controller stays well typed. *)
LEMMA IssueDoes ==
    ASSUME NEW s, CtrlInv(s), NEW i \in DOMAIN Candidates(s), IsFirst(s, Candidates(s)[i]),
           NEW cur \in Nat
    PROVE  TypesOK(Issue(s, i, cur)) /\ Issued(Issue(s, i, cur), s, i, cur)
  <1> DEFINE d == Issue(s, i, cur)
             n == Candidates(s)[i]
             r == s.req[n]
             b == s.bank[r.bank]
             q == List(s, r)
             hit == RowHit(s, r)
             act == IF hit THEN b.lastActCycle ELSE ActCycle(s, r)
             cmd == MaxOf({cur, s.minRespCycle - tCL}
                     \cup (IF s.lastCmdWasWrite /\ ~r.write THEN {s.minRespCycle + tWTR} ELSE {})
                     \cup (IF hit THEN {} ELSE {act + tRCD}))
             resp == cmd + tCL + tBL
             pre == IF ~hit /\ b.open THEN PreCycle(s, r) + tRAS ELSE b.minPreCycle
             more == Len(q) > 1 /\ s.req[q[2]].seq # 0
             mpc == MaxOf({pre, act + tRAS, IF r.write THEN resp + tWR ELSE cmd + tRTP})
             nb == [open |-> ~ClosedPage \/ more, openRow |-> r.row, minPreCycle |-> mpc,
                    lastActCycle |-> act, lastCmdCycle |-> cmd, curRowHits |-> r.seq]
             nw == IF hit THEN s.window ELSE addActivation(s.window, act)
             na == IF hit THEN s.acts ELSE Append(s.acts, act)
             x == <<r.bank, r.write>>
             f == [m \in DOMAIN s.req \ {n} |-> s.req[m]]
  <1>1. /\ TypesOK(s) /\ n \in Nat /\ n \in DOMAIN s.req /\ r \in Requests
        /\ Candidates(s) = Queued(s, r.write)
        /\ q = s.list[x] /\ n \in ToSet(q) /\ IsList(q, Nat)
    BY CandidateFacts DEF CtrlInv
  <1>2. /\ r.bank \in Banks /\ r.write \in BOOLEAN /\ r.row \in Rows /\ r.seq \in 0 .. RowHitLimit
        /\ x \in Banks \X BOOLEAN /\ b \in BankStates
    BY <1>1 DEF Requests, TypesOK
  <1>3. b.lastActCycle \in Nat /\ b.minPreCycle \in Nat
    BY <1>2 DEF BankStates
  <1>4. PreCycle(s, r) \in Nat /\ ActCycle(s, r) \in Nat
    BY <1>1, CycleTypes
  <1>5. act \in Nat
    BY <1>3, <1>4
  <1>6. s.minRespCycle \in Nat /\ s.minRespCycle >= tCL + tBL + 1
    BY <1>1 DEF TypesOK
  <1> HIDE DEF act, hit
  <1>7. cmd \in Nat /\ cur <= cmd /\ s.minRespCycle - tCL <= cmd
    <2>1. s.minRespCycle - tCL \in Nat /\ s.minRespCycle + tWTR \in Nat /\ act + tRCD \in Nat
      BY <1>5, <1>6, TimingTypes
    <2> HIDE DEF r
    <2> QED
      BY <2>1, CommandCycle
  <1> HIDE DEF cmd
  <1>8. /\ resp \in Nat /\ resp >= tCL + tBL + 1 /\ resp - tCL \in Nat /\ cur <= resp - tCL
        /\ resp + tWR \in Nat /\ cmd + tRTP \in Nat
    BY <1>6, <1>7, TimingTypes
  <1>9. pre \in Nat /\ act + tRAS \in Nat
    BY <1>3, <1>4, <1>5, TimingTypes
  <1> HIDE DEF resp, pre, b, more
  <1>10. mpc \in Nat
    <2>1. (IF r.write THEN resp + tWR ELSE cmd + tRTP) \in Nat
      BY <1>8
    <2> HIDE DEF r
    <2> QED
      BY <1>9, <2>1, MaxOf3
  <1> HIDE DEF mpc
  <1>11. nb \in BankStates
    <2>1. (~ClosedPage \/ more) \in BOOLEAN
      OBVIOUS
    <2> QED
      BY <1>2, <1>5, <1>7, <1>10, <2>1 DEF BankStates
  <1>12. nw \in Windows /\ na \in Seq(Nat)
    <2>1. s.window \in Windows /\ s.acts \in Seq(Nat)
      BY <1>1 DEF TypesOK
    <2>2. addActivation(s.window, act) \in Windows
      BY <1>5, <2>1, WindowKept
    <2>3. Append(s.acts, act) \in Seq(Nat)
      BY <1>5, <2>1
    <2> QED
      BY <2>1, <2>2, <2>3
  <1>13. d = [s EXCEPT !.bank[r.bank] = nb, !.window = nw, !.acts = na, !.minRespCycle = resp,
                       !.lastCmdWasWrite = r.write,
                       !.rd = IF r.write THEN @ ELSE RemoveAt(@, i),
                       !.wr = IF r.write THEN RemoveAt(@, i) ELSE @,
                       !.list[x] = Tail(@), !.req = f]
    BY DEF Issue, act, hit, cmd, resp, pre, b, more, mpc
  <1> HIDE DEF d, nb, nw, na, f, x
  <1>14. /\ d.req = f /\ d.list = [s.list EXCEPT ![x] = Tail(q)]
         /\ d.rd = (IF r.write THEN s.rd ELSE RemoveAt(s.rd, i))
         /\ d.wr = (IF r.write THEN RemoveAt(s.wr, i) ELSE s.wr)
         /\ d.overflow = s.overflow /\ d.bank = [s.bank EXCEPT ![r.bank] = nb]
         /\ d.window = nw /\ d.acts = na /\ d.minRespCycle = resp /\ d.lastCmdWasWrite = r.write
    <2> HIDE DEF r, q
    <2> QED
      BY <1>1, <1>13 DEF TypesOK
  <1>15. DOMAIN d.req = DOMAIN s.req \ {n} /\ \A m \in DOMAIN s.req \ {n} : d.req[m] = s.req[m]
    BY <1>14 DEF f
  <1>16. q # <<>> /\ Tail(q) \in Seq(Nat)
    <2>1. q # <<>>
      BY <1>1 DEF ToSet
    <2> QED
      BY <1>1, <2>1, TailList DEF IsList
  <1>17. ASSUME NEW w \in BOOLEAN
         PROVE  Queued(d, w) = IF w = r.write THEN RemoveAt(Queued(s, w), i) ELSE Queued(s, w)
    <2>1. CASE w
      BY <1>2, <1>14, <2>1 DEF Queued
    <2>2. CASE ~ w
      BY <1>2, <1>14, <2>2 DEF Queued
    <2> QED
      BY <2>1, <2>2
  <1>18. d.rd \in Seq(Nat) /\ d.wr \in Seq(Nat)
    <2>1. ASSUME NEW w \in BOOLEAN PROVE Queued(d, w) \in Seq(Nat)
      <3>1. IsList(Queued(s, w), Nat)
        BY DEF CtrlInv, QueuesOK
      <3>2. CASE w = r.write
        <4>1. i \in DOMAIN Queued(s, w)
          BY <1>1, <3>2
        <4> QED
          BY <1>17, <3>1, <3>2, <4>1, RemoveAtList DEF IsList
      <3>3. CASE w # r.write
        BY <1>17, <3>1, <3>3 DEF IsList
      <3> QED
        BY <3>2, <3>3
    <2> QED
      BY <2>1 DEF Queued
  <1>19. TypesOK(d)
    <2>1. d.list \in [Banks \X BOOLEAN -> Seq(Nat)]
      BY <1>1, <1>14, <1>16 DEF TypesOK
    <2>2. d.req \in [DOMAIN d.req -> Requests]
      <3>1. \A m \in DOMAIN s.req : s.req[m] \in Requests
        BY <1>1 DEF TypesOK
      <3> QED
        BY <1>14, <1>15, <3>1 DEF f
    <2>3. d.bank \in [Banks -> BankStates]
      BY <1>1, <1>11, <1>14 DEF TypesOK
    <2>4. /\ DOMAIN d.req \subseteq Nat /\ d.minRespCycle >= tCL + tBL + 1
          /\ d.overflow \in Seq(Nat) /\ d.window \in Windows
          /\ d.minRespCycle \in Nat /\ d.lastCmdWasWrite \in BOOLEAN /\ d.acts \in Seq(Nat)
      <3>1. DOMAIN s.req \subseteq Nat /\ s.overflow \in Seq(Nat)
        BY <1>1 DEF TypesOK
      <3> QED
        BY <1>2, <1>8, <1>12, <1>14, <1>15, <3>1
    <2>5. d = [req |-> d.req, rd |-> d.rd, wr |-> d.wr, overflow |-> d.overflow,
               list |-> d.list, bank |-> d.bank, window |-> d.window,
               minRespCycle |-> d.minRespCycle, lastCmdWasWrite |-> d.lastCmdWasWrite,
               acts |-> d.acts]
      <3> HIDE DEF r
      <3> QED
        BY <1>1, <1>13 DEF TypesOK
    <2> QED
      BY <1>18, <2>1, <2>2, <2>3, <2>4, <2>5 DEF TypesOK
  <1>20. ASSUME NEW bb \in Banks, NEW w \in BOOLEAN
         PROVE  d.list[<<bb, w>>] = IF bb = r.bank /\ w = r.write THEN Tail(q) ELSE s.list[<<bb, w>>]
    <2>1. s.list \in [Banks \X BOOLEAN -> Seq(Nat)] /\ <<bb, w>> \in Banks \X BOOLEAN
      BY <1>1 DEF TypesOK
    <2>2. <<bb, w>> = x <=> bb = r.bank /\ w = r.write
      BY DEF x
    <2>3. d.list[<<bb, w>>] = IF <<bb, w>> = x THEN Tail(q) ELSE s.list[<<bb, w>>]
      BY <1>14, <2>1
    <2> QED
      BY <2>2, <2>3
  <1>21. d.minRespCycle - tCL \in Nat /\ cur <= d.minRespCycle - tCL /\ d.overflow = s.overflow
    BY <1>8, <1>14
  <1>22. Issued(d, s, i, cur)
    BY <1>15, <1>17, <1>20, <1>21 DEF Issued
  <1> QED
    BY <1>19, <1>22 DEF d

(* Issuing a request takes it out of its queue and off its list, and leaves the others  *)
(* no more slots.                                                                     *)
LEMMA IssueKeeps ==
    ASSUME NEW s, CtrlInv(s), NEW i \in DOMAIN Candidates(s), IsFirst(s, Candidates(s)[i]),
           NEW cur \in Nat, NEW d, d = Issue(s, i, cur)
    PROVE  CtrlInv(d)
  <1> DEFINE n == Candidates(s)[i]
             r == s.req[n]
             q == List(s, r)
  <1>1. TypesOK(d) /\ Issued(d, s, i, cur)
    BY IssueDoes
  <1>2. /\ n \in Nat /\ n \in DOMAIN s.req /\ r \in Requests
        /\ Candidates(s) = Queued(s, r.write) /\ n \in ToSet(Queued(s, r.write))
        /\ q = s.list[<<r.bank, r.write>>] /\ n \in ToSet(q) /\ IsList(q, Nat)
        /\ n \notin ToSet(s.overflow) /\ i \in DOMAIN Queued(s, r.write)
        /\ n = Queued(s, r.write)[i] /\ Head(q) = n
    BY CandidateFacts DEF IsFirst
  <1>3. /\ r.bank \in Banks /\ r.write \in BOOLEAN
        /\ \A m \in DOMAIN s.req : s.req[m] \in Requests
    BY <1>2 DEF Requests, CtrlInv, TypesOK
  <1>4. /\ DOMAIN d.req = DOMAIN s.req \ {n} /\ \A m \in DOMAIN d.req : d.req[m] = s.req[m]
        /\ d.overflow = s.overflow
    BY <1>1 DEF Issued
  <1>5. ASSUME NEW w \in BOOLEAN
        PROVE  /\ IsList(Queued(s, w), Nat) /\ Len(Queued(s, w)) <= QueueDepth
               /\ \A m \in ToSet(Queued(s, w)) :
                    m \in DOMAIN s.req /\ s.req[m].write = w /\ m \notin ToSet(s.overflow)
    BY DEF CtrlInv, QueuesOK
  <1> HIDE DEF n, q
  <1>6. ASSUME NEW w \in BOOLEAN
        PROVE  /\ IsList(Queued(d, w), Nat) /\ Len(Queued(d, w)) <= QueueDepth
               /\ ToSet(Queued(d, w)) = ToSet(Queued(s, w)) \ {n}
    <2>1. CASE w = r.write
      <3>1. Queued(d, w) = RemoveAt(Queued(s, w), i)
        BY <1>1, <1>3, <2>1 DEF Issued, n
      <3>2. i \in DOMAIN Queued(s, w) /\ n = Queued(s, w)[i]
        BY <1>2, <2>1
      <3>3. /\ IsList(Queued(d, w), Nat) /\ ToSet(Queued(d, w)) = ToSet(Queued(s, w)) \ {n}
            /\ Len(Queued(d, w)) = Len(Queued(s, w)) - 1
        BY <1>5, <3>1, <3>2, RemoveAtList
      <3>4. Len(Queued(d, w)) <= QueueDepth
        BY <1>5, <3>3, TimingTypes DEF IsList
      <3> QED
        BY <3>3, <3>4
    <2>2. CASE w # r.write
      <3>1. Queued(d, w) = Queued(s, w)
        BY <1>1, <1>3, <2>2 DEF Issued, n
      <3>2. n \notin ToSet(Queued(s, w))
        BY <1>5, <2>2
      <3> QED
        BY <1>5, <3>1, <3>2
    <2> QED
      BY <2>1, <2>2
  <1>7. QueuesOK(d)
    <2>1. ASSUME NEW w \in BOOLEAN, NEW m \in ToSet(Queued(d, w))
          PROVE  m \in DOMAIN d.req /\ d.req[m].write = w /\ m \notin ToSet(d.overflow)
      BY <1>4, <1>5, <1>6
    <2> QED
      BY <1>6, <2>1 DEF QueuesOK
  <1>8. OverflowOK(d)
    <2>1. IsList(s.overflow, Nat) /\ \A m \in ToSet(s.overflow) : m \in DOMAIN s.req /\ s.req[m].passed = 0
      BY SMTT(30) DEF CtrlInv, OverflowOK
    <2> QED
      BY <1>2, <1>4, <2>1 DEF OverflowOK
  <1>9. /\ IsList(Tail(q), Nat) /\ ToSet(Tail(q)) = ToSet(q) \ {n}
        /\ Len(Tail(q)) = Len(q) - 1
        /\ \A k \in 1 .. Len(q) - 1 : Tail(q)[k] = q[k + 1]
    <2>1. q # <<>>
      BY <1>2 DEF ToSet
    <2> QED
      BY <1>2, <2>1, TailList
  <1>10. ASSUME NEW b \in Banks, NEW w \in BOOLEAN
         PROVE  /\ IsList(s.list[<<b, w>>], Nat)
                /\ ToSet(s.list[<<b, w>>]) = {m \in ToSet(Queued(s, w)) : s.req[m].bank = b}
    BY DEF CtrlInv, ListsOK
  <1>11. ASSUME NEW b \in Banks, NEW w \in BOOLEAN
         PROVE  d.list[<<b, w>>] = IF b = r.bank /\ w = r.write THEN Tail(q) ELSE s.list[<<b, w>>]
    BY <1>1 DEF Issued, n, q
  <1>12. ListsOK(d)
    <2> SUFFICES ASSUME NEW b \in Banks, NEW w \in BOOLEAN
                 PROVE  /\ IsList(d.list[<<b, w>>], Nat)
                        /\ ToSet(d.list[<<b, w>>]) = {m \in ToSet(Queued(d, w)) : d.req[m].bank = b}
      BY DEF ListsOK
    <2>1. \A m \in ToSet(Queued(d, w)) : m \in ToSet(Queued(s, w)) /\ d.req[m].bank = s.req[m].bank
      BY <1>4, <1>5, <1>6
    <2>2. {m \in ToSet(Queued(d, w)) : d.req[m].bank = b}
            = {m \in ToSet(Queued(s, w)) : s.req[m].bank = b} \ {n}
      BY <1>6, <2>1
    <2>3. CASE b = r.bank /\ w = r.write
      <3>1. d.list[<<b, w>>] = Tail(q) /\ q = s.list[<<b, w>>]
        BY <1>2, <1>11, <2>3
      <3> QED
        BY <1>9, <1>10, <2>2, <3>1
    <2>4. CASE ~ (b = r.bank /\ w = r.write)
      <3>1. d.list[<<b, w>>] = s.list[<<b, w>>]
        BY <1>11, <2>4
      <3>2. n \notin {m \in ToSet(Queued(s, w)) : s.req[m].bank = b}
        BY <1>5, <2>4
      <3> QED
        BY <1>10, <2>2, <3>1, <3>2
    <2> QED
      BY <2>3, <2>4
  <1>13. ASSUME NEW m \in DOMAIN d.req PROVE d.req[m].passed <= RowHitLimit * d.req[m].ahead
    BY <1>4 DEF CtrlInv, BypassOK
  <1>14. ASSUME NEW b \in Banks, NEW w \in BOOLEAN, NEW k \in DOMAIN d.list[<<b, w>>]
         PROVE  LET z == d.req[d.list[<<b, w>>][k]]
                IN  Left(d, d.list[<<b, w>>], k) + z.passed <= RowHitLimit * z.ahead
    <2> DEFINE t == s.list[<<b, w>>]
               u == d.list[<<b, w>>]
    <2>1. ASSUME NEW j \in DOMAIN u PROVE u[j] \in DOMAIN d.req /\ d.req[u[j]] = s.req[u[j]]
      <3>1. u[j] \in ToSet(u)
        BY DEF ToSet
      <3>2. u[j] \in ToSet(Queued(d, w))
        BY <1>12, <3>1 DEF ListsOK
      <3>3. u[j] \in DOMAIN d.req
        BY <1>7, <3>2 DEF QueuesOK
      <3> QED
        BY <1>4, <3>3
    <2>2. Left(d, u, k) = Left(s, u, k)
      <3> HIDE DEF u
      <3> QED
        BY <2>1, LeftSame
    <2>3. ASSUME NEW j \in DOMAIN t
          PROVE  Left(s, t, j) + s.req[t[j]].passed <= RowHitLimit * s.req[t[j]].ahead
      BY DEF CtrlInv, BypassOK
    <2>4. CASE b = r.bank /\ w = r.write
      <3>1. u = Tail(q) /\ q = t
        BY <1>2, <1>11, <2>4
      <3> HIDE DEF t, u
      <3> DEFINE l == Len(u)
      <3>2. /\ l \in Nat /\ Len(q) = l + 1 /\ DOMAIN u = 1 .. l /\ DOMAIN q = 1 .. l + 1
            /\ q \in Seq(Nat) /\ \A j \in 1 .. l : u[j] = q[j + 1]
        <4>1. /\ u \in Seq(Nat) /\ q \in Seq(Nat) /\ Len(u) = Len(q) - 1
              /\ \A j \in 1 .. Len(q) - 1 : u[j] = q[j + 1]
          BY <1>2, <1>9, <3>1 DEF IsList
        <4> QED
          BY <4>1, SMTT(30)
      <3>3. \A j \in 1 .. l : /\ RowsOf(s, u)[j] = RowsOf(s, q)[j + 1]
                              /\ SeqsOf(s, u)[j] = SeqsOf(s, q)[j + 1]
        BY <3>2 DEF RowsOf, SeqsOf
      <3>4. k \in 1 .. l /\ k + 1 \in DOMAIN q
        <4>1. k \in DOMAIN u
          BY DEF u
        <4> HIDE DEF l
        <4> QED
          BY <3>2, <4>1
      <3>5. Slots(RowsOf(s, u), SeqsOf(s, u), l, k) \subseteq Slots(RowsOf(s, q), SeqsOf(s, q), l + 1, k + 1)
        BY <3>2, <3>3, <3>4, SlotsOfTail
      <3>6. \A j \in DOMAIN q : s.req[q[j]] \in Requests
        <4> SUFFICES ASSUME NEW j \in DOMAIN q PROVE s.req[q[j]] \in Requests
          OBVIOUS
        <4>1. j \in DOMAIN s.list[<<b, w>>] /\ q[j] = s.list[<<b, w>>][j]
          BY <3>1 DEF t
        <4>2. s.req[s.list[<<b, w>>][j]] \in Requests
          BY <4>1, InList
        <4> QED
          BY <4>1, <4>2
      <3>7. IsFiniteSet(Slots(RowsOf(s, q), SeqsOf(s, q), l + 1, k + 1))
        BY <3>2, <3>4, <3>6, LeftBound
      <3>8. Left(s, u, k) <= Left(s, q, k + 1) /\ Left(s, u, k) \in Nat /\ Left(s, q, k + 1) \in Nat
        BY <3>2, <3>5, <3>7, SlotsSubset DEF Left
      <3>9. s.req[u[k]].passed \in Nat /\ s.req[u[k]].ahead \in Nat /\ u[k] = q[k + 1]
        BY <3>2, <3>4, <3>6 DEF Requests
      <3>10. RowHitLimit * s.req[u[k]].ahead \in Nat
        BY <3>9, TimingTypes
      <3>11. Left(s, q, k + 1) + s.req[u[k]].passed <= RowHitLimit * s.req[u[k]].ahead
        BY <2>3, <3>1, <3>4, <3>9
      <3>12. Left(d, u, k) + s.req[u[k]].passed <= RowHitLimit * s.req[u[k]].ahead
        BY <2>2, <3>8, <3>9, <3>10, <3>11
      <3> QED
        BY <2>1, <3>12 DEF u
    <2>5. CASE ~ (b = r.bank /\ w = r.write)
      <3>1. u = t
        BY <1>11, <2>5
      <3> QED
        BY <2>1, <2>2, <2>3, <3>1
    <2> QED
      BY <2>4, <2>5
  <1>15. BypassOK(d)
    BY <1>13, <1>14 DEF BypassOK
  <1> QED
    BY <1>1, <1>7, <1>8, <1>12, <1>15 DEF CtrlInv
-----------------------------------------------------------------------------
(* d has the queues, lists and requests of s, and perhaps new requests. *)
Extends(d, s) ==
    /\ d.rd = s.rd /\ d.wr = s.wr /\ d.list = s.list /\ DOMAIN s.req \subseteq DOMAIN d.req
    /\ \A m \in DOMAIN s.req : d.req[m] = s.req[m]
    /\ \A m \in DOMAIN d.req \ DOMAIN s.req : d.req[m].passed = 0 /\ d.req[m].ahead = 0

(* The invariant is about queues, lists and requests, and new requests satisfy it. *)
LEMMA ExtendsKeeps ==
    ASSUME NEW s, NEW d, CtrlInv(s), Extends(d, s), TypesOK(d), OverflowOK(d),
           \A w \in BOOLEAN : \A m \in ToSet(Queued(s, w)) : m \notin ToSet(d.overflow)
    PROVE  CtrlInv(d)
  <1>1. ASSUME NEW w \in BOOLEAN PROVE Queued(d, w) = Queued(s, w)
    BY DEF Extends, Queued
  <1>2. ASSUME NEW w \in BOOLEAN, NEW m \in ToSet(Queued(s, w))
        PROVE  m \in DOMAIN s.req /\ m \in DOMAIN d.req /\ d.req[m] = s.req[m] /\ s.req[m].write = w
    BY DEF Extends, CtrlInv, QueuesOK
  <1>3. QueuesOK(d)
    <2>1. ASSUME NEW w \in BOOLEAN
          PROVE  IsList(Queued(s, w), Nat) /\ Len(Queued(s, w)) <= QueueDepth
      BY DEF CtrlInv, QueuesOK
    <2> QED
      BY <1>1, <1>2, <2>1 DEF QueuesOK
  <1>4. ListsOK(d)
    <2> SUFFICES ASSUME NEW b \in Banks, NEW w \in BOOLEAN
                 PROVE  /\ IsList(d.list[<<b, w>>], Nat)
                        /\ ToSet(d.list[<<b, w>>]) = {m \in ToSet(Queued(d, w)) : d.req[m].bank = b}
      BY DEF ListsOK
    <2>1. /\ IsList(s.list[<<b, w>>], Nat)
          /\ ToSet(s.list[<<b, w>>]) = {m \in ToSet(Queued(s, w)) : s.req[m].bank = b}
      BY DEF CtrlInv, ListsOK
    <2>2. d.list = s.list
      BY DEF Extends
    <2> QED
      BY <1>1, <1>2, <2>1, <2>2
  <1>5. ASSUME NEW m \in DOMAIN d.req PROVE d.req[m].passed <= RowHitLimit * d.req[m].ahead
    <2>1. CASE m \in DOMAIN s.req
      BY <2>1 DEF Extends, CtrlInv, BypassOK
    <2>2. CASE m \notin DOMAIN s.req
      <3>1. d.req[m].passed = 0 /\ d.req[m].ahead = 0
        BY <2>2 DEF Extends
      <3> QED
        BY <3>1, TimingTypes
    <2> QED
      BY <2>1, <2>2
  <1>6. ASSUME NEW b \in Banks, NEW w \in BOOLEAN, NEW k \in DOMAIN d.list[<<b, w>>]
        PROVE  LET z == d.req[d.list[<<b, w>>][k]]
               IN  Left(d, d.list[<<b, w>>], k) + z.passed <= RowHitLimit * z.ahead
    <2> DEFINE t == s.list[<<b, w>>]
    <2>1. d.list[<<b, w>>] = t
      BY DEF Extends
    <2>2. ASSUME NEW j \in DOMAIN t PROVE d.req[t[j]] = s.req[t[j]]
      <3>1. t[j] \in DOMAIN s.req
        BY InList
      <3> QED
        BY <3>1 DEF Extends
    <2>3. Left(s, t, k) + s.req[t[k]].passed <= RowHitLimit * s.req[t[k]].ahead
      BY <2>1 DEF CtrlInv, BypassOK
    <2>4. Left(d, t, k) = Left(s, t, k)
      <3> HIDE DEF t
      <3> QED
        BY <2>2, LeftSame
    <2> HIDE DEF t
    <2> QED
      BY <2>1, <2>2, <2>3, <2>4
  <1>7. BypassOK(d)
    BY <1>5, <1>6 DEF BypassOK
  <1> QED
    BY <1>3, <1>4, <1>7 DEF CtrlInv
-----------------------------------------------------------------------------
(* trySchedule asks to be called again exactly while there is work, and not earlier. *)
LEMMA TryScheduleKeeps ==
    ASSUME NEW s, CtrlInv(s), NEW cur \in Nat, NEW t, t = trySchedule(s, cur)
    PROVE  /\ CtrlInv(t.s) /\ t.s.overflow = s.overflow /\ DOMAIN t.s.req \subseteq DOMAIN s.req
           /\ t.next = Never <=> Empty(t.s)
           /\ t.next # Never => t.next \in Nat /\ cur <= t.next
  <1> DEFINE q == Candidates(s)
             first == {i \in DOMAIN q : IsFirst(s, q[i])}
             minCmd(i) == findMinCmdCycle(s, s.req[q[i]])
             ready == {i \in first : minCmd(i) <= cur}
             d == Issue(s, MinOf(ready), cur)
  <1>1. t = CASE Empty(s) -> [s |-> s, next |-> Never]
             [] ~Empty(s) /\ cur + tCL < s.minRespCycle -> [s |-> s, next |-> s.minRespCycle - tCL]
             [] ~Empty(s) /\ cur + tCL >= s.minRespCycle /\ ready = {} ->
                    [s |-> s, next |-> MinOf({minCmd(i) : i \in first})]
             [] OTHER -> [s |-> d, next |-> IF Empty(d) THEN Never ELSE d.minRespCycle - tCL]
    BY DEF trySchedule
  <1>2. \A k \in Nat : k # Never
    BY DEF Never
  <1>3. s.minRespCycle \in Nat /\ tCL \in Nat
    BY TimingTypes DEF CtrlInv, TypesOK
  <1>4. /\ DOMAIN q = 1 .. Len(q) /\ Len(q) \in Nat
        /\ \A i \in DOMAIN q : q[i] \in DOMAIN s.req /\ s.req[q[i]] \in Requests
    <2>1. IsList(Candidates(s), Nat)
      BY CandidateFacts
    <2>2. DOMAIN q = 1 .. Len(q) /\ Len(q) \in Nat
      BY <2>1 DEF IsList
    <2>3. ASSUME NEW i \in DOMAIN q PROVE q[i] \in DOMAIN s.req /\ s.req[q[i]] \in Requests
      BY CandidateFacts
    <2> QED
      BY <2>2, <2>3
  <1>5. ASSUME NEW i \in DOMAIN q PROVE minCmd(i) \in Nat
    BY <1>4, CycleTypes DEF CtrlInv
  <1> HIDE DEF minCmd, ready, d
  <1>6. CASE Empty(s)
    <2>1. t = [s |-> s, next |-> Never]
      BY <1>1, <1>6
    <2> QED
      BY <1>6, <2>1
  <1>7. CASE ~ Empty(s) /\ cur + tCL < s.minRespCycle
    <2>1. t = [s |-> s, next |-> s.minRespCycle - tCL]
      <3>1. ~ (cur + tCL >= s.minRespCycle)
        BY <1>3, <1>7
      <3> QED
        BY <1>1, <1>7, <3>1
    <2>2. s.minRespCycle - tCL \in Nat /\ cur <= s.minRespCycle - tCL
      BY <1>3, <1>7
    <2> QED
      BY <1>2, <1>7, <2>1, <2>2
  <1>8. CASE ~ Empty(s) /\ cur + tCL >= s.minRespCycle /\ ready = {}
    <2> DEFINE D == {minCmd(i) : i \in first}
    <2>1. t = [s |-> s, next |-> MinOf(D)]
      <3>1. ~ (cur + tCL < s.minRespCycle)
        BY <1>3, <1>8
      <3> QED
        BY <1>1, <1>8, <3>1
    <2>2. PICK i \in DOMAIN q : TRUE
      <3>1. q # <<>> /\ q \in Seq(Nat)
        BY <1>8, CandidateFacts DEF IsList
      <3>2. 1 \in DOMAIN q
        BY <3>1
      <3> QED
        BY <3>2
    <2>3. first # {}
      <3> DEFINE r == s.req[q[i]]
                 l == List(s, r)
                 m == Head(l)
      <3>1. /\ q = Queued(s, r.write) /\ l = s.list[<<r.bank, r.write>>] /\ q[i] \in ToSet(l)
            /\ IsList(l, Nat) /\ r \in Requests
        BY CandidateFacts
      <3>2. r.bank \in Banks /\ r.write \in BOOLEAN
        BY <3>1 DEF Requests
      <3>3. 1 \in DOMAIN l /\ m = l[1]
        <4>1. l # <<>>
          BY <3>1 DEF ToSet
        <4> QED
          BY <3>1, <4>1 DEF IsList
      <3>4. /\ m \in ToSet(Queued(s, r.write)) /\ s.req[m].bank = r.bank /\ s.req[m].write = r.write
        <4>1. 1 \in DOMAIN s.list[<<r.bank, r.write>>] /\ m = s.list[<<r.bank, r.write>>][1]
          BY <3>1, <3>3
        <4> HIDE DEF m, r, l
        <4> QED
          BY <3>2, <4>1, InList
      <3>5. IsFirst(s, m)
        <4>1. List(s, s.req[m]) = l
          BY <3>1, <3>4, SMTT(30) DEF List
        <4> QED
          BY <4>1, SMTT(30) DEF IsFirst
      <3>6. PICK j \in DOMAIN q : q[j] = m
        BY <3>1, <3>4 DEF ToSet
      <3>7. j \in first
        BY <3>5, <3>6
      <3> QED
        BY <3>7
    <2>4. MinOf(D) \in Nat /\ cur <= MinOf(D)
      <3>1. D \in SUBSET Nat /\ D # {}
        BY <1>5, <2>3
      <3>2. \A i1 \in first : ~ (minCmd(i1) <= cur)
        BY <1>8 DEF ready
      <3>3. \A k \in D : cur <= k
        BY <1>5, <3>2
      <3> HIDE DEF D
      <3> QED
        BY <3>1, <3>3, MinOfLeast
    <2> QED
      BY <1>2, <1>8, <2>1, <2>4
  <1>9. CASE ~ Empty(s) /\ cur + tCL >= s.minRespCycle /\ ready # {}
    <2>1. t = [s |-> d, next |-> IF Empty(d) THEN Never ELSE d.minRespCycle - tCL]
      <3>1. ~ (cur + tCL < s.minRespCycle)
        BY <1>3, <1>9
      <3> QED
        BY <1>1, <1>9, <3>1
    <2>2. MinOf(ready) \in DOMAIN q /\ IsFirst(s, q[MinOf(ready)])
      <3>1. ready \in SUBSET Nat
        BY <1>4 DEF ready
      <3>2. MinOf(ready) \in ready
        BY <1>9, <3>1, MinOfLeast
      <3> QED
        BY <3>2 DEF ready
    <2>3. CtrlInv(d) /\ Issued(d, s, MinOf(ready), cur)
      BY <2>2, IssueKeeps, IssueDoes DEF d
    <2>4. /\ d.overflow = s.overflow /\ DOMAIN d.req \subseteq DOMAIN s.req
          /\ d.minRespCycle - tCL \in Nat /\ cur <= d.minRespCycle - tCL
      BY <2>3 DEF Issued
    <2> QED
      BY <1>2, <2>1, <2>3, <2>4
  <1>10. cur + tCL < s.minRespCycle \/ cur + tCL >= s.minRespCycle
    BY <1>3
  <1> QED
    BY <1>6, <1>7, <1>8, <1>9, <1>10

(* In an idle controller a request enters as the first of its list. *)
LEMMA QueueFirst ==
    ASSUME NEW s, NEW n, MayEnter(s, n), Empty(s), NEW cycle \in Nat
    PROVE  IsFirst(queue(s, n, cycle), n)
  <1> DEFINE r == s.req[n]
             q == s.list[<<r.bank, r.write>>]
             d == queue(s, n, cycle)
  <1>1. /\ Enqueued(d, s, n, cycle) /\ List(s, r) = q /\ r \in Requests
    BY QueueDoes
  <1>2. r.bank \in Banks /\ r.write \in BOOLEAN
    BY <1>1 DEF Requests
  <1>3. q = <<>>
    <2>1. /\ IsList(q, Nat)
          /\ ToSet(q) = {m \in ToSet(Queued(s, r.write)) : s.req[m].bank = r.bank}
      BY <1>2 DEF MayEnter, CtrlInv, ListsOK
    <2>2. ToSet(Queued(s, r.write)) = {}
      BY DEF Empty, Queued, ToSet
    <2>3. DOMAIN q = {}
      <3> SUFFICES ASSUME NEW i \in DOMAIN q PROVE FALSE
        OBVIOUS
      <3>1. q[i] \in ToSet(q)
        BY DEF ToSet
      <3> QED
        BY <2>1, <2>2, <3>1
    <2> HIDE DEF q
    <2> QED
      BY <2>1, <2>3 DEF IsList
  <1>4. /\ n \in DOMAIN s.req /\ d.req[n].bank = r.bank /\ d.req[n].write = r.write
    <2>1. n \in DOMAIN s.req
      BY DEF MayEnter
    <2> QED
      BY <1>1, <2>1, EnqueuedRequest
  <1>5. Head(d.list[<<r.bank, r.write>>]) = n
    <2>1. Place(s, r).at = 1
      <3>1. Place(s, r).at \in 1 .. Len(q) + 1
        BY <1>1, PlaceFacts DEF MayEnter
      <3> QED
        BY <1>3, <3>1
    <2>2. d.list[<<r.bank, r.write>>] = InsertAt(List(s, r), Place(s, r).at, n)
      BY <1>1, <1>2 DEF Enqueued
    <2>3. n \in Nat /\ n \notin ToSet(q) /\ IsList(q, Nat) /\ 1 \in 1 .. Len(q) + 1
      <3>1. n \in Nat
        BY DEF MayEnter, CtrlInv, TypesOK
      <3>2. IsList(q, Nat)
        BY <1>2 DEF MayEnter, CtrlInv, ListsOK
      <3> QED
        BY <1>3, <3>1, <3>2 DEF ToSet
    <2>4. IsList(InsertAt(q, 1, n), Nat) /\ Inserted(InsertAt(q, 1, n), q, 1, n)
      <3> HIDE DEF q
      <3> QED
        BY <2>3, InsertList
    <2>5. InsertAt(q, 1, n) \in Seq(Nat) /\ 1 \in DOMAIN InsertAt(q, 1, n)
      <3> HIDE DEF q
      <3> QED
        BY <2>3, <2>4 DEF IsList, Inserted
    <2>6. InsertAt(q, 1, n)[1] = n
      <3> HIDE DEF q
      <3> QED
        BY <2>3, <2>4 DEF Inserted
    <2>7. Head(InsertAt(q, 1, n)) = InsertAt(q, 1, n)[1]
      <3> HIDE DEF q
      <3> QED
        BY <2>5
    <2> QED
      BY <1>1, <2>1, <2>2, <2>6, <2>7
  <1> QED
    BY <1>4, <1>5 DEF IsFirst, List

(* The scheduling event is never queued before the handler that queues it. *)
LEMMA StartTypes ==
    ASSUME NEW s, TypesOK(s), NEW cycle \in Nat
    PROVE  EarliestStart(s, cycle) \in Nat /\ cycle <= EarliestStart(s, cycle)
  <1>1. s.minRespCycle \in Nat /\ s.minRespCycle >= tCL + tBL + 1 /\ tCL \in Nat /\ tBL \in Nat
    BY TimingTypes DEF TypesOK
  <1>2. s.minRespCycle - tCL - tBL \in Nat
    BY <1>1
  <1> QED
    BY <1>2, MaxOf2 DEF EarliestStart

(* The oldest request of the overflow queue may enter once there is room. *)
LEMMA OverflowEnters ==
    ASSUME NEW s, CtrlInv(s), Refills(s),
           NEW d, d = [s EXCEPT !.overflow = Tail(@)], NEW n, n = Head(s.overflow)
    PROVE  /\ MayEnter(d, n) /\ d.req = s.req
           /\ Empty(d) <=> Empty(s)
  <1>1. /\ d.rd = s.rd /\ d.wr = s.wr /\ d.list = s.list /\ d.req = s.req
        /\ d.overflow = Tail(s.overflow) /\ d.minRespCycle = s.minRespCycle
    BY DEF CtrlInv, TypesOK
  <1>2. IsList(s.overflow, Nat) /\ s.overflow # <<>>
    BY DEF CtrlInv, OverflowOK, Refills
  <1>3. /\ IsList(d.overflow, Nat) /\ ToSet(d.overflow) = ToSet(s.overflow) \ {n}
        /\ n = s.overflow[1] /\ 1 \in DOMAIN s.overflow
    BY <1>1, <1>2, TailList
  <1>4. n \in ToSet(s.overflow)
    BY <1>3 DEF ToSet
  <1>5. n \in DOMAIN s.req /\ s.req[n].passed = 0
    BY <1>4 DEF CtrlInv, OverflowOK
  <1>6. TypesOK(d)
    <2>1. d.overflow \in Seq(Nat)
      BY <1>3 DEF IsList
    <2> QED
      BY <1>1, <2>1 DEF CtrlInv, TypesOK
  <1>7. OverflowOK(d)
    BY <1>1, <1>3 DEF CtrlInv, OverflowOK
  <1>8. Extends(d, s)
    BY <1>1 DEF Extends
  <1>9. ASSUME NEW w \in BOOLEAN PROVE \A m \in ToSet(Queued(s, w)) : m \notin ToSet(s.overflow)
    BY DEF CtrlInv, QueuesOK
  <1>10. CtrlInv(d)
    BY <1>3, <1>6, <1>7, <1>8, <1>9, ExtendsKeeps
  <1>11. ASSUME NEW w \in BOOLEAN PROVE n \notin ToSet(Queued(d, w))
    BY <1>1, <1>4, <1>9 DEF Queued
  <1>12. ~ Full(d) /\ (Empty(d) <=> Empty(s))
    BY <1>1 DEF Full, Refills, Empty
  <1> QED
    BY <1>1, <1>3, <1>5, <1>10, <1>11, <1>12 DEF MayEnter

(* An idle controller has room. *)
LEMMA IdleHasRoom ==
    ASSUME NEW s, Empty(s)
    PROVE  ~ Full(s)
  <1>1. Len(<<>>) = 0
    OBVIOUS
  <1>2. QueueDepth # 0
    BY TimingTypes
  <1> QED
    BY <1>1, <1>2 DEF Empty, Full

(* After a tick the event is queued again, and not earlier, exactly while there is work; *)
(* and nothing is left in the overflow queue of an idle controller.                     *)
LEMMA TickedKeeps ==
    ASSUME CtrlInv(c), NEW cur \in Nat, NEW u, u = Ticked(cur)
    PROVE  /\ CtrlInv(u.s) /\ DOMAIN u.s.req \subseteq DOMAIN c.req
           /\ u.next = Never <=> Empty(u.s)
           /\ u.next # Never => u.next \in Nat /\ cur <= u.next
           /\ Empty(u.s) => u.s.overflow = <<>>
  <1> DEFINE t == trySchedule(c, cur)
             n == Head(t.s.overflow)
             e == [t.s EXCEPT !.overflow = Tail(@)]
             d == queue(e, n, cur)
             start == EarliestStart(d, cur)
  <1>1. /\ CtrlInv(t.s) /\ DOMAIN t.s.req \subseteq DOMAIN c.req
        /\ t.next = Never <=> Empty(t.s)
        /\ t.next # Never => t.next \in Nat /\ cur <= t.next
    BY TryScheduleKeeps
  <1>2. CASE ~ Refills(t.s)
    <2>1. u = t
      BY <1>2 DEF Ticked
    <2>2. Empty(t.s) => t.s.overflow = <<>>
      BY <1>2, IdleHasRoom DEF Refills
    <2> QED
      BY <1>1, <2>1, <2>2
  <1>3. CASE Refills(t.s)
    <2> DEFINE next == IF IsFirst(d, n) /\ Later(t.next, start) THEN start ELSE t.next
    <2>1. u = [s |-> d, next |-> next]
      BY <1>3 DEF Ticked
    <2>2. MayEnter(e, n) /\ e.req = t.s.req /\ (Empty(e) <=> Empty(t.s))
      <3> HIDE DEF t
      <3> QED
        BY <1>1, <1>3, OverflowEnters
    <2>3. CtrlInv(d) /\ ~ Empty(d) /\ DOMAIN d.req = DOMAIN t.s.req
      <3>1. MayEnter(e, n) /\ e.req = t.s.req
        BY <2>2
      <3> HIDE DEF e, n
      <3>2. CtrlInv(d) /\ ~ Empty(d) /\ DOMAIN d.req = DOMAIN e.req
        BY <3>1, QueueKeeps
      <3> QED
        BY <3>1, <3>2
    <2>4. start \in Nat /\ cur <= start
      BY <2>3, StartTypes DEF CtrlInv
    <2>5. next \in Nat /\ cur <= next
      <3>1. t.next = Never => IsFirst(d, n)
        BY <1>1, <2>2, QueueFirst
      <3> QED
        BY <1>1, <2>4, <3>1 DEF Later
    <2>6. next # Never
      BY <2>5 DEF Never
    <2>7. u.s = d /\ u.next = next
      <3> HIDE DEF d, next
      <3> QED
        BY <2>1
    <2> HIDE DEF d, next, t
    <2> QED
      BY <1>1, <2>3, <2>5, <2>6, <2>7
  <1> QED
    BY <1>2, <1>3
-----------------------------------------------------------------------------
(* A new request leaves the controller's invariant as it is until it is queued. *)
Arrived(d, s, n) ==
    /\ Extends(d, s) /\ DOMAIN d.req = DOMAIN s.req \cup {n} /\ n \notin DOMAIN s.req
    /\ TypesOK(d) /\ d.req[n].passed = 0
    /\ d.overflow = s.overflow /\ d.minRespCycle = s.minRespCycle

(* An arrived request may be queued if there is room. *)
LEMMA ArrivedIsOK ==
    ASSUME NEW s, NEW d, NEW n, CtrlInv(s), Arrived(d, s, n)
    PROVE  /\ CtrlInv(d) /\ (Empty(d) <=> Empty(s)) /\ (Full(d) <=> Full(s))
           /\ ~ Full(s) => MayEnter(d, n)
           /\ n \notin ToSet(s.overflow)
           /\ \A w \in BOOLEAN : n \notin ToSet(Queued(s, w))
  <1>1. d.rd = s.rd /\ d.wr = s.wr
    BY DEF Arrived, Extends
  <1>2. n \notin ToSet(s.overflow)
    BY DEF Arrived, CtrlInv, OverflowOK
  <1>3. \A w \in BOOLEAN : \A m \in ToSet(Queued(s, w)) : m \in DOMAIN s.req /\ m \notin ToSet(s.overflow)
    BY DEF CtrlInv, QueuesOK
  <1>4. \A w \in BOOLEAN : n \notin ToSet(Queued(s, w))
    BY <1>3 DEF Arrived
  <1>5. OverflowOK(d)
    <2>1. ASSUME NEW m \in ToSet(d.overflow) PROVE m \in DOMAIN d.req /\ d.req[m].passed = 0
      BY DEF Arrived, Extends, CtrlInv, OverflowOK
    <2> QED
      BY <2>1 DEF Arrived, CtrlInv, OverflowOK
  <1>6. CtrlInv(d)
    BY <1>3, <1>5, ExtendsKeeps DEF Arrived
  <1>7. (Empty(d) <=> Empty(s)) /\ (Full(d) <=> Full(s))
    BY <1>1 DEF Empty, Full
  <1>8. \A w \in BOOLEAN : Queued(d, w) = Queued(s, w)
    BY <1>1 DEF Queued
  <1>9. ~ Full(s) => MayEnter(d, n)
    BY <1>2, <1>4, <1>6, <1>7, <1>8 DEF MayEnter, Arrived
  <1> QED
    BY <1>2, <1>4, <1>6, <1>7, <1>9

(* A request that does not find room waits behind the others in the overflow queue. *)
LEMMA OverflowKeeps ==
    ASSUME NEW s, NEW d, NEW n, CtrlInv(s), Arrived(d, s, n),
           NEW e, e = [d EXCEPT !.overflow = Append(@, n)]
    PROVE  CtrlInv(e) /\ (Empty(e) <=> Empty(s)) /\ DOMAIN e.req = DOMAIN d.req
  <1>1. /\ CtrlInv(d) /\ (Empty(d) <=> Empty(s)) /\ n \notin ToSet(s.overflow)
        /\ \A w \in BOOLEAN : n \notin ToSet(Queued(s, w))
    BY ArrivedIsOK
  <1>2. /\ e.rd = d.rd /\ e.wr = d.wr /\ e.list = d.list /\ e.req = d.req
        /\ e.overflow = Append(s.overflow, n)
    BY DEF Arrived, TypesOK
  <1>3. n \in Nat /\ n \in DOMAIN d.req
    BY DEF Arrived, TypesOK
  <1>4. /\ IsList(e.overflow, Nat) /\ ToSet(e.overflow) = ToSet(s.overflow) \cup {n}
    <2>1. IsList(s.overflow, Nat)
      BY DEF CtrlInv, OverflowOK
    <2> QED
      <3>1. /\ IsList(Append(s.overflow, n), Nat)
            /\ ToSet(Append(s.overflow, n)) = ToSet(s.overflow) \cup {n}
        BY <1>1, <1>3, <2>1, AppendList
      <3> QED
        BY <1>2, <3>1
  <1>5. TypesOK(e)
    <2>1. e.overflow \in Seq(Nat)
      BY <1>4 DEF IsList
    <2> QED
      BY <1>2, <2>1 DEF Arrived, TypesOK
  <1>6. d.overflow = s.overflow /\ d.req[n].passed = 0
    BY DEF Arrived
  <1>7. OverflowOK(e)
    <2>1. ASSUME NEW m \in ToSet(e.overflow) PROVE m \in DOMAIN e.req /\ e.req[m].passed = 0
      BY <1>1, <1>2, <1>3, <1>4, <1>6 DEF CtrlInv, OverflowOK
    <2> QED
      BY <1>4, <2>1 DEF OverflowOK
  <1>8. Extends(e, d)
    BY <1>2 DEF Extends
  <1>9. \A w \in BOOLEAN : Queued(d, w) = Queued(s, w)
    BY DEF Queued, Arrived, Extends
  <1>10. \A w \in BOOLEAN : \A m \in ToSet(Queued(d, w)) : m \notin ToSet(e.overflow)
    BY <1>1, <1>4, <1>6, <1>9 DEF CtrlInv, QueuesOK
  <1>11. CtrlInv(e)
    BY <1>1, <1>5, <1>7, <1>8, <1>10, ExtendsKeeps
  <1> QED
    BY <1>1, <1>2, <1>11 DEF Empty
-----------------------------------------------------------------------------
(* A request that arrives has not passed anybody, and nobody has passed it. *)
LEMMA NewRequest ==
    ASSUME NEW s, CtrlInv(s), NEW n \in Nat, n \notin DOMAIN s.req,
           NEW r \in Requests, r.passed = 0, r.ahead = 0,
           NEW d, d = [s EXCEPT !.req = [m \in DOMAIN s.req \cup {n} |->
                                            IF m = n THEN r ELSE s.req[m]]]
    PROVE  Arrived(d, s, n)
  <1> DEFINE f == [m \in DOMAIN s.req \cup {n} |-> IF m = n THEN r ELSE s.req[m]]
  <1>1. s.req \in [DOMAIN s.req -> Requests] /\ DOMAIN s.req \subseteq Nat
    BY DEF CtrlInv, TypesOK
  <1>2. /\ DOMAIN f = DOMAIN s.req \cup {n} /\ f[n] = r
        /\ \A m \in DOMAIN s.req : f[m] = s.req[m]
    OBVIOUS
  <1>3. f \in [DOMAIN f -> Requests]
    BY <1>1
  <1>4. d = [s EXCEPT !.req = f]
    OBVIOUS
  <1> HIDE DEF f
  <1>5. /\ d.rd = s.rd /\ d.wr = s.wr /\ d.list = s.list /\ d.req = f
        /\ d.overflow = s.overflow /\ d.minRespCycle = s.minRespCycle
    BY <1>4 DEF CtrlInv, TypesOK
  <1>6. TypesOK(d)
    <2>1. DOMAIN d.req \subseteq Nat
      BY <1>1, <1>2, <1>5
    <2> QED
      BY <1>3, <1>4, <1>5, <2>1 DEF CtrlInv, TypesOK
  <1> QED
    BY <1>2, <1>5, <1>6 DEF Arrived, Extends

(* The scheduling event is queued for a cycle that has not passed. *)
LEMMA SchedTypes ==
    ASSUME NEW s, TypesOK(s), NEW n \in DOMAIN s.req, NEW cycle \in Nat,
           nextSchedCycle = Never \/ (nextSchedCycle \in Nat /\ cycle <= nextSchedCycle),
           nextSchedCycle = Never => IsFirst(s, n)
    PROVE  /\ SchedAfterEnqueue(s, n, cycle) \in Nat
           /\ cycle <= SchedAfterEnqueue(s, n, cycle)
  <1> DEFINE start == EarliestStart(s, cycle)
             min == MaxOf({start, findMinCmdCycle(s, s.req[n])})
  <1>1. start \in Nat /\ cycle <= start
    BY StartTypes
  <1>2. findMinCmdCycle(s, s.req[n]) \in Nat
    <2>1. s.req[n] \in Requests
      BY DEF TypesOK
    <2> QED
      BY <2>1, CycleTypes
  <1>3. min \in Nat /\ cycle <= min
    <2>1. min \in Nat /\ start <= min
      <3> HIDE DEF start
      <3> QED
        BY <1>1, <1>2, MaxOf2
    <2> HIDE DEF min, start
    <2> QED
      BY <1>1, <2>1
  <1>4. SchedAfterEnqueue(s, n, cycle) =
            IF IsFirst(s, n) /\ Later(nextSchedCycle, start) /\ Later(nextSchedCycle, min)
            THEN min ELSE nextSchedCycle
    BY DEF SchedAfterEnqueue
  <1> HIDE DEF start, min
  <1>5. CASE nextSchedCycle = Never
    BY <1>3, <1>4, <1>5 DEF Later
  <1>6. CASE nextSchedCycle # Never
    BY <1>3, <1>4, <1>6
  <1> QED
    BY <1>5, <1>6

(* The values of a function on a finite set are finitely many. *)
LEMMA FiniteValues ==
    ASSUME NEW S, IsFiniteSet(S), NEW f
    PROVE  IsFiniteSet({f[x] : x \in S})
  <1> DEFINE T == {f[x] : x \in S}
             g == [x \in S |-> f[x]]
  <1>1. g \in Surjection(S, T)
    BY DEF Surjection
  <1> QED
    BY <1>1, FS_Surjection

(* A refresh is due at a cycle. *)
LEMMA RefreshType ==
    ASSUME refreshes \in Nat
    PROVE  RefreshCycle \in Nat
  <1>1. tREFI \in Nat
    BY TimingTypes
  <1> QED
    BY <1>1, Z3 DEF RefreshCycle

(* A refresh starts when all banks are ready for it. *)
LEMMA RefreshStart ==
    ASSUME CtrlInv(c), refreshes \in Nat
    PROVE  LET start == MaxOf({RefreshCycle} \cup {c.bank[b].minPreCycle : b \in Banks}
                                             \cup {c.bank[b].lastCmdCycle : b \in Banks})
           IN start \in Nat
  <1> DEFINE f == [b \in Banks |-> c.bank[b].minPreCycle]
             g == [b \in Banks |-> c.bank[b].lastCmdCycle]
             P == {c.bank[b].minPreCycle : b \in Banks}
             Q == {c.bank[b].lastCmdCycle : b \in Banks}
             S == {RefreshCycle} \cup P \cup Q
  <1>1. IsFiniteSet(Banks)
    BY DDRAssumption
  <1>2. P = {f[b] : b \in Banks} /\ Q = {g[b] : b \in Banks}
    OBVIOUS
  <1>3. IsFiniteSet(P) /\ IsFiniteSet(Q)
    <2> HIDE DEF f, g, P, Q
    <2> QED
      BY <1>1, <1>2, FiniteValues
  <1>4. RefreshCycle \in Nat
    BY RefreshType
  <1>5. P \subseteq Nat /\ Q \subseteq Nat
    <2>1. c.bank \in [Banks -> BankStates]
      BY DEF CtrlInv, TypesOK
    <2> QED
      BY <2>1 DEF BankStates
  <1> HIDE DEF P, Q
  <1>6. IsFiniteSet(S)
    BY <1>3, FS_Union, FS_Singleton
  <1>7. S \in SUBSET Nat /\ S # {}
    BY <1>4, <1>5
  <1> HIDE DEF S
  <1>8. PICK n \in Nat : \A k \in S : k <= n
    BY <1>6, <1>7, FiniteIsBounded
  <1>9. MaxOf(S) \in Nat
    BY <1>7, <1>8, MaxOfGreatest
  <1> QED
    BY <1>9 DEF S, P, Q
-----------------------------------------------------------------------------
(* What is to be shown of the state after a step. *)
LEMMA InvOfNext ==
    ASSUME now' \in Nat \ {0}, refreshes' \in Nat, arrived' \in Nat,
           nextSchedCycle' = Never \/ (nextSchedCycle' \in Nat /\ now' <= nextSchedCycle'),
           DOMAIN c'.req \subseteq 1 .. arrived', CtrlInv(c'), SchedulerAwake'
    PROVE  IInv'
  <1>1. CtrlInv(c)'
    BY DEF CtrlInv, TypesOK, QueuesOK, OverflowOK, ListsOK, BypassOK, Queued, Left, RowsOf, SeqsOf
  <1> QED
    BY <1>1 DEF IInv

(* The initial controller has nothing to do. *)
LEMMA InitOK ==
    ASSUME Init
    PROVE  IInv
  <1>1. /\ now = 1 /\ nextSchedCycle = Never /\ refreshes = 0 /\ arrived = 0
        /\ DOMAIN c.req = {} /\ c.rd = <<>> /\ c.wr = <<>> /\ c.overflow = <<>>
        /\ \A b \in Banks, w \in BOOLEAN : c.list[<<b, w>>] = <<>>
    BY DEF Init
  <1>2. IsList(<<>>, Nat) /\ ToSet(<<>>) = {} /\ DOMAIN <<>> = {} /\ Len(<<>>) = 0
    <2>1. DOMAIN <<>> = {} /\ Len(<<>>) = 0 /\ <<>> \in Seq(Nat)
      OBVIOUS
    <2> QED
      BY <2>1 DEF IsList, IsInjective, ToSet
  <1>3. TypesOK(c)
    <2>1. /\ tCL + tBL + 1 \in Nat /\ WindowSize \in Nat /\ RowHitLimit \in Nat
      BY TimingTypes
    <2>2. [i \in 1 .. WindowSize |-> 0] \in Windows
      BY <2>1 DEF Windows
    <2>3. [open |-> FALSE, openRow |-> 0, minPreCycle |-> 0,
           lastActCycle |-> 0, lastCmdCycle |-> 0, curRowHits |-> 0] \in BankStates
      BY <2>1 DEF BankStates
    <2>4. c.req \in [DOMAIN c.req -> Requests] /\ DOMAIN c.req \subseteq Nat
      <3>1. c.req = <<>>
        BY DEF Init
      <3>2. <<>> = [i \in {} |-> 0]
        OBVIOUS
      <3> QED
        BY <1>1, <3>1, <3>2
    <2> QED
      BY <2>1, <2>2, <2>3, <2>4 DEF Init, TypesOK
  <1>4. \A w \in BOOLEAN : Queued(c, w) = <<>>
    BY <1>1 DEF Queued
  <1>5. QueuesOK(c)
    BY <1>2, <1>4, TimingTypes DEF QueuesOK
  <1>6. OverflowOK(c)
    BY <1>1, <1>2 DEF OverflowOK
  <1>7. ListsOK(c)
    BY <1>1, <1>2, <1>4 DEF ListsOK
  <1>8. BypassOK(c)
    BY <1>1, <1>2 DEF BypassOK
  <1>9. SchedulerAwake
    BY <1>1 DEF SchedulerAwake, Empty
  <1>10. now \in Nat \ {0} /\ refreshes \in Nat /\ arrived \in Nat /\ DOMAIN c.req \subseteq 1 .. arrived
    BY <1>1
  <1> QED
    BY <1>1, <1>3, <1>5, <1>6, <1>7, <1>8, <1>9, <1>10 DEF IInv, CtrlInv

(* A request that arrives wakes the scheduling event. *)
LEMMA EnqueueKeeps ==
    ASSUME IInv, NEW b \in Banks, NEW row \in Rows, NEW write \in BOOLEAN,
           NEW cycle \in Nat, enqueue(b, row, write, cycle)
    PROVE  IInv'
  <1> DEFINE n == arrived + 1
             r == [bank |-> b, row |-> row, write |-> write,
                   arrival |-> cycle, seq |-> 0, ahead |-> 0, passed |-> 0]
             s == [c EXCEPT !.req = [m \in DOMAIN c.req \cup {n} |->
                                        IF m = n THEN r ELSE c.req[m]]]
             e == [s EXCEPT !.overflow = Append(@, n)]
             d == queue(s, n, cycle)
  <1>1. /\ Before(cycle) /\ now' = cycle /\ arrived' = n /\ refreshes' = refreshes
        /\ IF Full(c) THEN c' = e /\ nextSchedCycle' = nextSchedCycle
           ELSE c' = d /\ nextSchedCycle' = SchedAfterEnqueue(d, n, cycle)
    BY DEF enqueue
  <1>2. n \in Nat /\ n \notin DOMAIN c.req /\ DOMAIN c.req \subseteq 1 .. n
    BY DEF IInv
  <1>3. r \in Requests /\ r.passed = 0 /\ r.ahead = 0
    BY TimingTypes DEF Requests
  <1>4. CtrlInv(c)
    BY DEF IInv
  <1>5. Arrived(s, c, n)
    <2> HIDE DEF n, r
    <2> QED
      BY <1>2, <1>3, <1>4, NewRequest
  <1>6. /\ now' \in Nat \ {0} /\ refreshes' \in Nat /\ arrived' \in Nat
        /\ nextSchedCycle = Never \/ (nextSchedCycle \in Nat /\ cycle <= nextSchedCycle)
    BY <1>1, <1>2 DEF IInv, Before
  <1>7. DOMAIN s.req \subseteq 1 .. n
    <2>1. DOMAIN s.req = DOMAIN c.req \cup {n} /\ n \in 1 .. n
      BY <1>2, <1>5 DEF Arrived, IInv
    <2> QED
      BY <1>2, <2>1
  <1> HIDE DEF s, n, r
  <1>8. CASE Full(c)
    <2>1. CtrlInv(e) /\ (Empty(e) <=> Empty(c)) /\ DOMAIN e.req = DOMAIN s.req
      BY <1>4, <1>5, OverflowKeeps
    <2>2. c' = e /\ nextSchedCycle' = nextSchedCycle
      BY <1>1, <1>8
    <2>3. ~ Empty(c)
      BY <1>8, IdleHasRoom
    <2>4. CtrlInv(c')
      BY <2>1, <2>2
    <2>5. ~ Empty(c')
      BY <2>1, <2>2, <2>3
    <2>6. SchedulerAwake'
      BY <2>2, <2>3, <2>5 DEF SchedulerAwake, Empty, IInv
    <2> HIDE DEF e
    <2> QED
      BY <1>1, <1>6, <1>7, <2>1, <2>2, <2>4, <2>6, InvOfNext
  <1>9. CASE ~ Full(c)
    <2>1. MayEnter(s, n) /\ (Empty(s) <=> Empty(c))
      BY <1>4, <1>5, <1>9, ArrivedIsOK
    <2>2. CtrlInv(d) /\ ~ Empty(d) /\ DOMAIN d.req = DOMAIN s.req
      BY <2>1, QueueKeeps
    <2>3. c' = d /\ nextSchedCycle' = SchedAfterEnqueue(d, n, cycle)
      BY <1>1, <1>9
    <2>4. nextSchedCycle = Never => IsFirst(d, n)
      BY <2>1, QueueFirst DEF IInv, SchedulerAwake
    <2>5. n \in DOMAIN d.req
      BY <1>5, <2>2 DEF Arrived
    <2>6. nextSchedCycle' \in Nat /\ cycle <= nextSchedCycle'
      <3> HIDE DEF d
      <3> QED
        BY <1>6, <2>2, <2>3, <2>4, <2>5, SchedTypes DEF CtrlInv
    <2>7. nextSchedCycle' # Never
      BY <2>6 DEF Never
    <2>8. CtrlInv(c')
      BY <2>2, <2>3
    <2>9. SchedulerAwake'
      <3> HIDE DEF d
      <3> QED
        BY <2>2, <2>3, <2>7 DEF SchedulerAwake, Empty
    <2> HIDE DEF d
    <2> QED
      BY <1>1, <1>6, <1>7, <2>2, <2>3, <2>6, <2>8, <2>9, InvOfNext
  <1> QED
    BY <1>8, <1>9

(* The event runs in the cycle it was queued for, and is queued again if need be. *)
LEMMA TickKeeps ==
    ASSUME IInv, tick
    PROVE  IInv'
  <1> DEFINE u == Ticked(TickCycle)
  <1>1. /\ nextSchedCycle # Never /\ now' = TickCycle /\ c' = u.s /\ nextSchedCycle' = u.next
        /\ refreshes' = refreshes /\ arrived' = arrived
    BY DEF tick, TickDue
  <1>2. nextSchedCycle \in Nat \ {0}
    BY <1>1 DEF IInv
  <1>3. TickCycle \in Nat \ {0}
    BY <1>2, MatchingCycle DEF TickCycle
  <1>4. CtrlInv(c)
    BY DEF IInv
  <1>5. /\ CtrlInv(u.s) /\ DOMAIN u.s.req \subseteq DOMAIN c.req
        /\ u.next = Never <=> Empty(u.s)
        /\ u.next # Never => u.next \in Nat /\ TickCycle <= u.next
        /\ Empty(u.s) => u.s.overflow = <<>>
    BY <1>3, <1>4, TickedKeeps
  <1> HIDE DEF u
  <1>6. CtrlInv(c')
    BY <1>1, <1>5
  <1>7. SchedulerAwake'
    BY <1>1, <1>5 DEF SchedulerAwake, Empty
  <1>8. DOMAIN c'.req \subseteq 1 .. arrived'
    BY <1>1, <1>5 DEF IInv
  <1>9. nextSchedCycle' = Never \/ (nextSchedCycle' \in Nat /\ now' <= nextSchedCycle')
    BY <1>1, <1>5
  <1>10. now' \in Nat \ {0} /\ refreshes' \in Nat /\ arrived' \in Nat
    BY <1>1, <1>3 DEF IInv
  <1> QED
    BY <1>6, <1>7, <1>8, <1>9, <1>10, InvOfNext

(* A refresh closes the rows and leaves the requests alone. *)
LEMMA RefreshKeeps ==
    ASSUME IInv, refresh
    PROVE  IInv'
  <1> DEFINE start == MaxOf({RefreshCycle} \cup {c.bank[b].minPreCycle : b \in Banks}
                                           \cup {c.bank[b].lastCmdCycle : b \in Banks})
             f == [b \in Banks |-> [c.bank[b] EXCEPT !.open = FALSE,
                                                     !.minPreCycle = start + tRFC - tRP]]
  <1>1. /\ Before(RefreshCycle) /\ now' = RefreshCycle /\ refreshes' = refreshes + 1
        /\ c' = [c EXCEPT !.bank = f] /\ nextSchedCycle' = nextSchedCycle /\ arrived' = arrived
    BY DEF refresh
  <1>2. CtrlInv(c) /\ refreshes \in Nat
    BY DEF IInv
  <1>3. start + tRFC - tRP \in Nat
    <2>1. start \in Nat
      BY <1>2, RefreshStart
    <2> HIDE DEF start
    <2> QED
      BY <2>1, TimingTypes
  <1>4. c.bank \in [Banks -> BankStates]
    BY <1>2 DEF CtrlInv, TypesOK
  <1> HIDE DEF start
  <1>5. f \in [Banks -> BankStates]
    BY <1>3, <1>4 DEF BankStates
  <1> HIDE DEF f
  <1>6. /\ c'.rd = c.rd /\ c'.wr = c.wr /\ c'.list = c.list /\ c'.req = c.req
        /\ c'.overflow = c.overflow
    BY <1>1, <1>2 DEF CtrlInv, TypesOK
  <1>7. TypesOK(c')
    BY <1>1, <1>2, <1>5 DEF CtrlInv, TypesOK
  <1>8. Extends(c', c) /\ OverflowOK(c')
    BY <1>2, <1>6 DEF Extends, OverflowOK, CtrlInv
  <1>9. \A w \in BOOLEAN : \A m \in ToSet(Queued(c, w)) : m \notin ToSet(c'.overflow)
    BY <1>2, <1>6 DEF CtrlInv, QueuesOK
  <1>10. CtrlInv(c')
    BY <1>2, <1>7, <1>8, <1>9, ExtendsKeeps
  <1>11. SchedulerAwake'
    BY <1>1, <1>6 DEF SchedulerAwake, Empty, IInv
  <1>12. now' \in Nat \ {0} /\ refreshes' \in Nat /\ arrived' \in Nat
         /\ (nextSchedCycle' = Never \/ (nextSchedCycle' \in Nat /\ now' <= nextSchedCycle'))
    <2>1. RefreshCycle \in Nat /\ refreshes + 1 \in Nat
      BY <1>2, RefreshType
    <2> QED
      BY <1>1, <2>1 DEF IInv, Before
  <1>13. DOMAIN c'.req \subseteq 1 .. arrived'
    BY <1>1, <1>6 DEF IInv
  <1> QED
    BY <1>10, <1>11, <1>12, <1>13, InvOfNext
-----------------------------------------------------------------------------
(* IInv is inductive, for all timings, depths and limits, and all banks. *)
THEOREM MemoryInvariant == Spec => []IInv
  <1>1. Init => IInv
    BY InitOK
  <1>2. IInv /\ [Next]_vars => IInv'
    <2> SUFFICES ASSUME IInv, [Next]_vars PROVE IInv'
      OBVIOUS
    <2>1. ASSUME NEW b \in Banks, NEW row \in Rows, NEW write \in BOOLEAN, NEW gap \in Gaps,
                 enqueue(b, row, write, now + gap)
          PROVE  IInv'
      <3>1. now + gap \in Nat
        BY DDRAssumption DEF IInv
      <3> QED
        BY <2>1, <3>1, EnqueueKeeps
    <2>2. CASE tick
      BY <2>2, TickKeeps
    <2>3. CASE refresh
      BY <2>3, RefreshKeeps
    <2>4. CASE UNCHANGED vars
      <3>1. /\ now' = now /\ c' = c /\ nextSchedCycle' = nextSchedCycle
            /\ refreshes' = refreshes /\ arrived' = arrived
        BY <2>4 DEF vars
      <3>2. SchedulerAwake'
        BY <3>1 DEF IInv, SchedulerAwake, Empty
      <3> QED
        BY <3>1, <3>2, InvOfNext DEF IInv
    <2> QED
      BY <2>1, <2>2, <2>3, <2>4 DEF Next
  <1> QED
    BY <1>1, <1>2, PTL DEF Spec

(* SchedulerOnTime: the scheduling event exists exactly while there is a request, the  *)
(* queues keep their depth and a row-hit sequence its limit, and the event runs in the *)
(* memory cycle it was queued for.                                                    *)
THEOREM SchedulerNeverLate == Spec => []SchedulerOnTime
  <1>1. IInv => SchedulerOnTime
    <2> SUFFICES ASSUME IInv PROVE SchedulerOnTime
      OBVIOUS
    <2>1. Len(c.rd) <= QueueDepth /\ Len(c.wr) <= QueueDepth
      <3>1. Queued(c, FALSE) = c.rd /\ Queued(c, TRUE) = c.wr
        BY DEF Queued
      <3>2. FALSE \in BOOLEAN /\ TRUE \in BOOLEAN
        OBVIOUS
      <3> QED
        BY <3>1, <3>2 DEF IInv, CtrlInv, QueuesOK
    <2>2. ASSUME NEW n \in DOMAIN c.req PROVE c.req[n].seq <= RowHitLimit
      <3>1. c.req[n] \in Requests
        BY DEF IInv, CtrlInv, TypesOK
      <3> QED
        BY <3>1, TimingTypes DEF Requests
    <2>3. TypeOK
      BY <2>1, <2>2 DEF TypeOK, IInv
    <2>4. TicksOnTime
      <3> SUFFICES ASSUME TickDue PROVE TickCycle = nextSchedCycle
        BY DEF TicksOnTime
      <3>1. nextSchedCycle \in Nat \ {0}
        BY DEF TickDue, IInv
      <3> QED
        BY <3>1, MatchingCycle DEF TickCycle
    <2> QED
      BY <2>3, <2>4 DEF SchedulerOnTime, IInv
  <1> QED
    BY <1>1, MemoryInvariant, PTL

(* BoundedBypass: first-ready order lets at most RowHitLimit younger requests pass a   *)
(* request for each one that was ahead of it when it was queued.                      *)
THEOREM BypassBounded == Spec => []BoundedBypass
  <1>1. IInv => BoundedBypass
    BY DEF IInv, CtrlInv, BypassOK, BoundedBypass
  <1> QED
    BY <1>1, MemoryInvariant, PTL
-----------------------------------------------------------------------------
(* ACTs form chains: each takes the place in the window of one at least tFAW older.   *)

(* Window v has the entries of w but the oldest, wherever they have moved to, and the  *)
(* new cycle.                                                                        *)
Moved(v, w, cycle, p) ==
    /\ p \in [1 .. WindowSize -> 1 .. WindowSize] /\ IsInjective(p) /\ v[p[1]] = cycle
    /\ \A k \in 2 .. WindowSize : v[p[k]] = w[k]

(* What addActivation does to the entries, in order or not. *)
LEMMA WindowMoves ==
    ASSUME NEW w \in Windows, NEW cycle \in Nat
    PROVE  \E p : Moved(addActivation(w, cycle), w, cycle, p)
  <1> DEFINE rest == Tail(w)
             notAfter == {i \in DOMAIN rest : rest[i] <= cycle}
             l == Len(rest)
  <1>1. /\ w \in Seq(Nat) /\ Len(w) = WindowSize /\ rest \in Seq(Nat) /\ l = WindowSize - 1
        /\ l \in Nat /\ l >= 1 /\ DOMAIN rest = 1 .. l
        /\ \A i \in 1 .. l : rest[i] = w[i + 1]
    BY TimingTypes DEF Windows
  <1>2. addActivation(w, cycle) = IF notAfter = {} THEN <<Last(rest)>> \o Front(rest) \o <<cycle>>
                                  ELSE InsertAt(rest, MaxOf(notAfter) + 1, cycle)
    BY DEF addActivation
  <1>3. WindowSize \in Nat \ {0, 1}
    BY TimingTypes
  <1> DEFINE e == <<cycle>>
  <1>4. e \in Seq(Nat) /\ Len(e) = 1 /\ e[1] = cycle
    OBVIOUS
  <1>5. CASE notAfter = {}
    <2> DEFINE a == <<Last(rest)>>
               f == Front(rest)
               v == (a \o f) \o e
    <2>1. a \in Seq(Nat) /\ Len(a) = 1 /\ a[1] = w[WindowSize]
      <3>1. Last(rest) = rest[l] /\ l \in 1 .. l /\ l + 1 = WindowSize
        BY <1>1 DEF Last
      <3>2. Last(rest) = w[WindowSize]
        BY <1>1, <3>1
      <3>3. w[WindowSize] \in Nat
        BY <1>1, <1>3
      <3> QED
        BY <3>2, <3>3
    <2>2. f \in Seq(Nat) /\ Len(f) = l - 1 /\ \A i \in 1 .. l - 1 : f[i] = w[i + 1]
      <3>1. f = SubSeq(rest, 0 + 1, 0 + (l - 1))
        BY <1>1 DEF Front
      <3>2. l - 1 \in Nat /\ 0 + (l - 1) <= l
        BY <1>1
      <3> HIDE DEF f, rest, l
      <3>3. /\ f \in Seq(Nat) /\ Len(f) = l - 1 /\ \A i \in 1 .. l - 1 : f[i] = rest[0 + i]
        BY <1>1, <3>1, <3>2, Part, SMTT(30) DEF l
      <3>4. ASSUME NEW i \in 1 .. l - 1 PROVE f[i] = w[i + 1]
        <4>1. i \in 1 .. l /\ 0 + i = i
          BY <1>1
        <4> QED
          BY <1>1, <3>3, <4>1
      <3> QED
        BY <3>3, <3>4
    <2> HIDE DEF a, f, e, rest, l
    <2>3. /\ a \o f \in Seq(Nat) /\ Len(a \o f) = l
          /\ \A i \in 1 .. l : (a \o f)[i] = IF i <= 1 THEN a[i] ELSE f[i - 1]
      <3> DEFINE k == l - 1
                 g == a \o f
                 n == 1
      <3>1. k \in Nat /\ l = n + k /\ n \in Nat /\ Len(a) = n /\ Len(f) = k
        BY <1>1, <2>1, <2>2
      <3> HIDE DEF k, g, n
      <3>2. g \in Seq(Nat) /\ Len(g) = l /\ \A i \in 1 .. l : g[i] = IF i <= n THEN a[i] ELSE f[i - n]
        BY <2>1, <2>2, <3>1, Joining DEF g
      <3> QED
        BY <3>2 DEF g, n
    <2>4. /\ v \in Seq(Nat) /\ Len(v) = WindowSize
          /\ \A i \in 1 .. WindowSize : v[i] = IF i <= l THEN (a \o f)[i] ELSE e[i - l]
      <3> DEFINE g == a \o f
                 n == 1
      <3>1. WindowSize = l + n /\ n \in Nat /\ Len(e) = n
        BY <1>1, <1>3, <1>4
      <3>2. g \in Seq(Nat) /\ Len(g) = l /\ v = g \o e
        BY <2>3
      <3> HIDE DEF g, v, n
      <3> QED
        BY <1>1, <1>4, <3>1, <3>2, Joining, SMTT(30) DEF g
    <2>5. addActivation(w, cycle) = v
      BY <1>2, <1>5 DEF a, f, e
    <2> DEFINE p == [k \in 1 .. WindowSize |->
                        IF k = 1 THEN WindowSize ELSE IF k = WindowSize THEN 1 ELSE k]
    <2>6. p \in [1 .. WindowSize -> 1 .. WindowSize] /\ IsInjective(p)
      BY <1>3 DEF IsInjective
    <2>7. v[WindowSize] = cycle
      <3>1. WindowSize - l = 1 /\ ~ (WindowSize <= l) /\ WindowSize \in 1 .. WindowSize
        BY <1>1, <1>3
      <3> HIDE DEF v
      <3> QED
        BY <1>4, <2>4, <3>1
    <2>8. v[1] = w[WindowSize]
      <3>1. 1 <= l /\ 1 \in 1 .. WindowSize /\ 1 \in 1 .. l
        BY <1>1, <1>3
      <3>2. v[1] = (a \o f)[1] /\ (a \o f)[1] = a[1]
        <4> HIDE DEF v
        <4> QED
          BY <2>3, <2>4, <3>1
      <3> QED
        BY <2>1, <3>2
    <2>9. ASSUME NEW k \in 2 .. WindowSize, k # WindowSize PROVE v[k] = w[k]
      <3>1. k <= l /\ k \in 1 .. WindowSize /\ k \in 1 .. l /\ ~ (k <= 1) /\ k - 1 \in 1 .. l - 1
            /\ (k - 1) + 1 = k
        BY <1>1, <1>3, <2>9
      <3>2. v[k] = (a \o f)[k] /\ (a \o f)[k] = f[k - 1]
        <4> HIDE DEF v
        <4> QED
          BY <2>3, <2>4, <3>1
      <3>3. f[k - 1] = w[(k - 1) + 1]
        BY <2>2, <3>1
      <3> QED
        BY <3>1, <3>2, <3>3
    <2>10. /\ p[1] = WindowSize
           /\ \A k \in 2 .. WindowSize : p[k] = IF k = WindowSize THEN 1 ELSE k
      BY <1>3
    <2> HIDE DEF v, p
    <2>11. Moved(v, w, cycle, p)
      BY <2>6, <2>7, <2>8, <2>9, <2>10 DEF Moved
    <2> QED
      BY <2>5, <2>11
  <1>6. CASE notAfter # {}
    <2> DEFINE m == MaxOf(notAfter)
               v == InsertAt(rest, m + 1, cycle)
    <2>1. m \in 1 .. l
      <3>1. notAfter \in SUBSET Nat /\ \A k \in notAfter : k <= l
        BY <1>1
      <3>2. \A k \in notAfter : k \in 1 .. l
        BY <1>1
      <3> HIDE DEF notAfter
      <3> QED
        BY <1>1, <1>6, <3>1, <3>2, MaxOfGreatest
    <2>2. addActivation(w, cycle) = v
      BY <1>2, <1>6
    <2> HIDE DEF m
    <2>3. Inserted(v, rest, m + 1, cycle)
      <3>1. m + 1 \in 1 .. Len(rest) + 1 /\ rest \in Seq(Nat)
        BY <1>1, <2>1
      <3> HIDE DEF rest
      <3> QED
        BY <3>1, InsertPlaces
    <2> HIDE DEF v, rest, l
    <2>4. \A i \in 1 .. WindowSize :
            v[i] = IF i < m + 1 THEN rest[i] ELSE IF i = m + 1 THEN cycle ELSE rest[i - 1]
      <3>1. l + 1 = WindowSize
        BY <1>1, <1>3
      <3> QED
        BY <2>3, <3>1 DEF Inserted, l
    <2> DEFINE p == [k \in 1 .. WindowSize |->
                        IF k = 1 THEN m + 1 ELSE IF k <= m + 1 THEN k - 1 ELSE k]
    <2>5. p \in [1 .. WindowSize -> 1 .. WindowSize] /\ IsInjective(p)
      BY <1>1, <1>3, <2>1 DEF IsInjective
    <2>6. v[m + 1] = cycle
      <3>1. m + 1 \in 1 .. WindowSize /\ ~ (m + 1 < m + 1)
        BY <1>1, <1>3, <2>1
      <3> QED
        BY <2>4, <3>1
    <2>7. ASSUME NEW k \in 2 .. WindowSize, k <= m + 1 PROVE v[k - 1] = w[k]
      <3>1. k - 1 \in 1 .. WindowSize /\ k - 1 < m + 1 /\ k - 1 \in 1 .. l /\ (k - 1) + 1 = k
        BY <1>1, <1>3, <2>1, <2>7
      <3> QED
        BY <1>1, <2>4, <3>1
    <2>8. ASSUME NEW k \in 2 .. WindowSize, ~ (k <= m + 1) PROVE v[k] = w[k]
      <3>1. /\ k \in 1 .. WindowSize /\ ~ (k < m + 1) /\ k # m + 1
            /\ k - 1 \in 1 .. l /\ (k - 1) + 1 = k
        BY <1>1, <1>3, <2>1, <2>8
      <3> QED
        BY <1>1, <2>4, <3>1
    <2>9. /\ p[1] = m + 1
           /\ \A k \in 2 .. WindowSize : p[k] = IF k <= m + 1 THEN k - 1 ELSE k
      BY <1>3
    <2> HIDE DEF p
    <2>10. Moved(v, w, cycle, p)
      BY <2>5, <2>6, <2>7, <2>8, <2>9 DEF Moved
    <2> QED
      BY <2>2, <2>10
  <1> QED
    BY <1>5, <1>6

(* h gives each ACT the place in window w of the last one of its chain; two ACTs of a  *)
(* chain are tFAW apart.                                                             *)
Chained(acts, w, h) ==
    /\ h \in [DOMAIN acts -> 1 .. WindowSize]
    /\ \A i \in DOMAIN acts : acts[i] <= w[h[i]]
    /\ \A i, j \in DOMAIN acts : i < j /\ h[i] = h[j] => acts[i] + tFAW <= acts[j]

(* An ACT that keeps away from the oldest entry lengthens the chain that it ends. *)
LEMMA ChainGrows ==
    ASSUME NEW acts \in Seq(Nat), NEW w \in Windows, NEW h, Chained(acts, w, h),
           NEW act \in Nat, Head(w) + tFAW <= act
    PROVE  \E g : Chained(Append(acts, act), addActivation(w, act), g)
  <1> DEFINE v == addActivation(w, act)
             n == Len(acts)
             b == Append(acts, act)
  <1>1. PICK p : Moved(v, w, act, p)
    BY WindowMoves
  <1>2. /\ n \in Nat /\ DOMAIN acts = 1 .. n /\ DOMAIN b = 1 .. n + 1 /\ b[n + 1] = act
        /\ \A i \in 1 .. n : b[i] = acts[i] /\ acts[i] \in Nat
    OBVIOUS
  <1>3. /\ Head(w) = w[1] /\ w \in Seq(Nat) /\ DOMAIN w = 1 .. WindowSize
        /\ WindowSize \in Nat \ {0, 1} /\ tFAW \in Nat
    BY TimingTypes DEF Windows
  <1>4. \A k \in 1 .. WindowSize : w[k] \in Nat
    BY <1>3
  <1> DEFINE g == [i \in 1 .. n + 1 |-> IF i = n + 1 THEN p[1] ELSE p[h[i]]]
  <1> HIDE DEF v, n, b
  <1>5. 1 \in 1 .. WindowSize /\ \A k \in 1 .. WindowSize : k # 1 => k \in 2 .. WindowSize
    BY <1>3
  <1>6. ASSUME NEW i \in 1 .. n
        PROVE  /\ i \in 1 .. n + 1 /\ i # n + 1 /\ i \in DOMAIN acts /\ h[i] \in 1 .. WindowSize
               /\ g[i] = p[h[i]] /\ acts[i] <= w[h[i]]
    <2>1. i \in 1 .. n + 1 /\ i # n + 1
      BY <1>2
    <2> QED
      BY <1>2, <2>1 DEF Chained
  <1>7. n + 1 \in 1 .. n + 1 /\ g[n + 1] = p[1]
    BY <1>2
  <1>8. g \in [DOMAIN b -> 1 .. WindowSize]
    <2>1. ASSUME NEW i \in 1 .. n + 1 PROVE (IF i = n + 1 THEN p[1] ELSE p[h[i]]) \in 1 .. WindowSize
      <3>1. p \in [1 .. WindowSize -> 1 .. WindowSize]
        BY <1>1 DEF Moved
      <3>2. CASE i = n + 1
        BY <1>5, <3>1, <3>2
      <3>3. CASE i # n + 1
        <4>1. i \in 1 .. n
          BY <1>2, <3>3
        <4> QED
          BY <1>6, <3>1, <3>3, <4>1
      <3> QED
        BY <3>2, <3>3
    <2> QED
      BY <1>2, <2>1
  <1> HIDE DEF g
  <1>9. ASSUME NEW i \in DOMAIN b PROVE b[i] <= v[g[i]]
    <2>1. CASE i = n + 1
      BY <1>1, <1>2, <1>7, <2>1 DEF Moved
    <2>2. CASE i # n + 1
      <3>1. i \in 1 .. n
        BY <1>2, <2>2
      <3>2. CASE h[i] = 1
        <4>1. acts[i] <= w[1] /\ v[g[i]] = act /\ b[i] = acts[i] /\ acts[i] \in Nat
          BY <1>1, <1>2, <1>6, <3>1, <3>2 DEF Moved
        <4>2. w[1] \in Nat /\ w[1] + tFAW <= act
          BY <1>3, <1>4, <1>5
        <4> QED
          BY <1>3, <4>1, <4>2
      <3>3. CASE h[i] # 1
        <4>1. h[i] \in 2 .. WindowSize
          BY <1>5, <1>6, <3>1, <3>3
        <4>2. v[g[i]] = w[h[i]]
          BY <1>1, <1>6, <3>1, <4>1 DEF Moved
        <4> QED
          BY <1>2, <1>6, <3>1, <4>2
      <3> QED
        BY <3>2, <3>3
    <2> QED
      BY <2>1, <2>2
  <1>10. ASSUME NEW i \in DOMAIN b, NEW j \in DOMAIN b, i < j, g[i] = g[j]
         PROVE  b[i] + tFAW <= b[j]
    <2>1. i \in 1 .. n
      BY <1>2, <1>10
    <2>2. CASE j = n + 1
      <3>1. p[h[i]] = p[1]
        BY <1>6, <1>7, <1>10, <2>1, <2>2
      <3>2. h[i] = 1
        <4>1. DOMAIN p = 1 .. WindowSize /\ IsInjective(p)
          BY <1>1 DEF Moved
        <4> QED
          BY <1>5, <1>6, <2>1, <3>1, <4>1 DEF IsInjective
      <3>3. acts[i] <= w[1] /\ acts[i] \in Nat /\ b[i] = acts[i] /\ b[j] = act
        BY <1>2, <1>6, <2>1, <2>2, <3>2
      <3>4. w[1] \in Nat /\ w[1] + tFAW <= act
        BY <1>3, <1>4, <1>5
      <3> QED
        BY <1>3, <3>3, <3>4
    <2>3. CASE j # n + 1
      <3>1. j \in 1 .. n
        BY <1>2, <2>3
      <3>2. p[h[i]] = p[h[j]]
        BY <1>6, <1>10, <2>1, <3>1
      <3>3. h[i] = h[j]
        <4>1. DOMAIN p = 1 .. WindowSize /\ IsInjective(p)
          BY <1>1 DEF Moved
        <4> QED
          BY <1>6, <2>1, <3>1, <3>2, <4>1 DEF IsInjective
      <3>4. acts[i] + tFAW <= acts[j]
        BY <1>6, <1>10, <2>1, <3>1, <3>3 DEF Chained
      <3> QED
        BY <1>2, <2>1, <3>1, <3>4
    <2> QED
      BY <2>2, <2>3
  <1>11. Chained(b, v, g)
    BY <1>8, <1>9, <1>10 DEF Chained
  <1> QED
    BY <1>11 DEF b, v
-----------------------------------------------------------------------------
(* The chains of a controller's ACTs end in its window. *)
ActsOK(s) == \E h : Chained(s.acts, s.window, h)

(* Only ACTs move the window. *)
LEMMA WindowSame ==
    ASSUME NEW s, NEW d, ActsOK(s), d.window = s.window, d.acts = s.acts
    PROVE  ActsOK(d)
  BY DEF ActsOK

(* queue() starts no ACT. *)
LEMMA QueueChains ==
    ASSUME NEW s, NEW n, TypesOK(s), ActsOK(s), NEW cycle
    PROVE  ActsOK(queue(s, n, cycle))
  <1> DEFINE d == queue(s, n, cycle)
             r == s.req[n]
             q == List(s, r)
             p == Place(s, r)
             behind == {q[i] : i \in p.at .. Len(q)}
             f == [m \in DOMAIN s.req |->
                        IF m = n THEN [r EXCEPT !.seq = p.seq, !.arrival = cycle, !.ahead = p.at - 1]
                        ELSE IF m \in behind THEN [s.req[m] EXCEPT !.passed = @ + 1]
                        ELSE s.req[m]]
             x == <<r.bank, r.write>>
  <1>1. d = [s EXCEPT !.req = f, !.list[x] = InsertAt(q, p.at, n),
                      !.rd = IF r.write THEN @ ELSE Append(@, n),
                      !.wr = IF r.write THEN Append(@, n) ELSE @]
    BY DEF queue
  <1> HIDE DEF d, f, x, p, q, r
  <1>2. d.window = s.window /\ d.acts = s.acts
    BY <1>1 DEF TypesOK
  <1>3. ActsOK(d)
    BY <1>2, WindowSame
  <1> QED
    BY <1>3 DEF d

(* An ACT that is issued ends a chain. *)
LEMMA IssueChains ==
    ASSUME NEW s, CtrlInv(s), ActsOK(s), NEW i \in DOMAIN Candidates(s), NEW cur \in Nat
    PROVE  ActsOK(Issue(s, i, cur))
  <1> DEFINE d == Issue(s, i, cur)
             n == Candidates(s)[i]
             r == s.req[n]
             b == s.bank[r.bank]
             q == List(s, r)
             hit == RowHit(s, r)
             act == IF hit THEN b.lastActCycle ELSE ActCycle(s, r)
             cmd == MaxOf({cur, s.minRespCycle - tCL}
                     \cup (IF s.lastCmdWasWrite /\ ~r.write THEN {s.minRespCycle + tWTR} ELSE {})
                     \cup (IF hit THEN {} ELSE {act + tRCD}))
             resp == cmd + tCL + tBL
             pre == IF ~hit /\ b.open THEN PreCycle(s, r) + tRAS ELSE b.minPreCycle
             more == Len(q) > 1 /\ s.req[q[2]].seq # 0
             mpc == MaxOf({pre, act + tRAS, IF r.write THEN resp + tWR ELSE cmd + tRTP})
             nb == [open |-> ~ClosedPage \/ more, openRow |-> r.row, minPreCycle |-> mpc,
                    lastActCycle |-> act, lastCmdCycle |-> cmd, curRowHits |-> r.seq]
             nw == IF hit THEN s.window ELSE addActivation(s.window, act)
             na == IF hit THEN s.acts ELSE Append(s.acts, act)
             x == <<r.bank, r.write>>
             f == [m \in DOMAIN s.req \ {n} |-> s.req[m]]
  <1>1. TypesOK(s) /\ r \in Requests
    BY CandidateFacts DEF CtrlInv
  <1>2. ActCycle(s, r) \in Nat /\ Head(s.window) + tFAW <= ActCycle(s, r)
    BY <1>1, CycleTypes
  <1>3. d = [s EXCEPT !.bank[r.bank] = nb, !.window = nw, !.acts = na, !.minRespCycle = resp,
                      !.lastCmdWasWrite = r.write,
                      !.rd = IF r.write THEN @ ELSE RemoveAt(@, i),
                      !.wr = IF r.write THEN RemoveAt(@, i) ELSE @,
                      !.list[x] = Tail(@), !.req = f]
    BY DEF Issue
  <1>4. act = IF hit THEN b.lastActCycle ELSE ActCycle(s, r)
    OBVIOUS
  <1> HIDE DEF d, nb, nw, na, f, x, resp, act
  <1>5. d.window = nw /\ d.acts = na
    <2> HIDE DEF r
    <2> QED
      BY <1>1, <1>3 DEF TypesOK
  <1> HIDE DEF hit, r
  <1>6. CASE hit
    <2>1. d.window = s.window /\ d.acts = s.acts
      BY <1>5, <1>6 DEF nw, na
    <2> QED
      BY <2>1, WindowSame DEF d
  <1>7. CASE ~ hit
    <2>1. d.window = addActivation(s.window, ActCycle(s, r)) /\ d.acts = Append(s.acts, ActCycle(s, r))
      BY <1>4, <1>5, <1>7 DEF nw, na
    <2>2. s.acts \in Seq(Nat) /\ s.window \in Windows
      BY <1>1 DEF TypesOK
    <2>3. PICK h : Chained(s.acts, s.window, h)
      BY DEF ActsOK
    <2>4. \E g : Chained(Append(s.acts, ActCycle(s, r)), addActivation(s.window, ActCycle(s, r)), g)
      BY <1>2, <2>2, <2>3, ChainGrows
    <2>5. ActsOK(d)
      BY <2>1, <2>4 DEF ActsOK
    <2> QED
      BY <2>5 DEF d
  <1> QED
    BY <1>6, <1>7

(* trySchedule issues one command or none. *)
LEMMA TryScheduleChains ==
    ASSUME NEW s, CtrlInv(s), ActsOK(s), NEW cur \in Nat
    PROVE  ActsOK(trySchedule(s, cur).s)
  <1> DEFINE t == trySchedule(s, cur)
             q == Candidates(s)
             first == {i \in DOMAIN q : IsFirst(s, q[i])}
             minCmd(i) == findMinCmdCycle(s, s.req[q[i]])
             ready == {i \in first : minCmd(i) <= cur}
             d == Issue(s, MinOf(ready), cur)
             next == MinOf({minCmd(i) : i \in first})
  <1>1. t = CASE Empty(s) -> [s |-> s, next |-> Never]
             [] ~Empty(s) /\ cur + tCL < s.minRespCycle -> [s |-> s, next |-> s.minRespCycle - tCL]
             [] ~Empty(s) /\ cur + tCL >= s.minRespCycle /\ ready = {} -> [s |-> s, next |-> next]
             [] OTHER -> [s |-> d, next |-> IF Empty(d) THEN Never ELSE d.minRespCycle - tCL]
    BY DEF trySchedule
  <1>2. s.minRespCycle \in Nat /\ tCL \in Nat
    BY TimingTypes DEF CtrlInv, TypesOK
  <1>3. cur + tCL < s.minRespCycle \/ cur + tCL >= s.minRespCycle
    BY <1>2
  <1>4. DOMAIN q \in SUBSET Nat
    BY CandidateFacts
  <1> HIDE DEF t, minCmd, next
  <1>5. CASE ready = {}
    <2> HIDE DEF d, ready
    <2>1. CASE Empty(s)
      BY <1>1, <2>1 DEF t
    <2>2. CASE ~ Empty(s) /\ cur + tCL < s.minRespCycle
      <3>1. ~ (cur + tCL >= s.minRespCycle)
        BY <1>2, <2>2
      <3>2. t = [s |-> s, next |-> s.minRespCycle - tCL]
        BY <1>1, <2>2, <3>1
      <3> QED
        BY <3>2 DEF t
    <2>3. CASE ~ Empty(s) /\ cur + tCL >= s.minRespCycle
      <3>1. ~ (cur + tCL < s.minRespCycle)
        BY <1>2, <2>3
      <3>2. t = [s |-> s, next |-> next]
        BY <1>1, <1>5, <2>3, <3>1
      <3> QED
        BY <3>2 DEF t
    <2> QED
      BY <1>3, <2>1, <2>2, <2>3
  <1>6. CASE ready # {}
    <2>1. ActsOK(d)
      <3>1. ready \in SUBSET Nat
        BY <1>4
      <3> HIDE DEF ready
      <3>2. MinOf(ready) \in ready
        BY <1>6, <3>1, MinOfLeast
      <3>3. MinOf(ready) \in DOMAIN q
        BY <3>2 DEF ready
      <3> QED
        BY <3>3, IssueChains
    <2> HIDE DEF d, ready
    <2>2. t.s = s \/ t.s = d
      <3>1. CASE Empty(s)
        BY <1>1, <3>1
      <3>2. CASE ~ Empty(s) /\ cur + tCL < s.minRespCycle
        <4>1. ~ (cur + tCL >= s.minRespCycle)
          BY <1>2, <3>2
        <4>2. t = [s |-> s, next |-> s.minRespCycle - tCL]
          BY <1>1, <3>2, <4>1
        <4> QED
          BY <4>2
      <3>3. CASE ~ Empty(s) /\ cur + tCL >= s.minRespCycle
        <4>1. ~ (cur + tCL < s.minRespCycle)
          BY <1>2, <3>3
        <4>2. t = [s |-> d, next |-> IF Empty(d) THEN Never ELSE d.minRespCycle - tCL]
          BY <1>1, <1>6, <3>3, <4>1
        <4> QED
          BY <4>2
      <3> QED
        BY <1>3, <3>1, <3>2, <3>3
    <2> QED
      BY <2>1, <2>2 DEF t
  <1> QED
    BY <1>5, <1>6

(* A tick issues one command or none, and may queue a request. *)
LEMMA TickChains ==
    ASSUME CtrlInv(c), ActsOK(c), NEW cur \in Nat
    PROVE  ActsOK(Ticked(cur).s)
  <1> DEFINE t == trySchedule(c, cur)
             n == Head(t.s.overflow)
             e == [t.s EXCEPT !.overflow = Tail(@)]
             d == queue(e, n, cur)
             next == IF IsFirst(d, n) /\ Later(t.next, EarliestStart(d, cur))
                     THEN EarliestStart(d, cur) ELSE t.next
  <1>1. CtrlInv(t.s) /\ ActsOK(t.s)
    BY TryScheduleKeeps, TryScheduleChains
  <1>2. Ticked(cur) = IF Refills(t.s) THEN [s |-> d, next |-> next] ELSE t
    BY DEF Ticked
  <1>3. ASSUME Refills(t.s) PROVE ActsOK(d)
    <2>1. MayEnter(e, n)
      <3> HIDE DEF t
      <3> QED
        BY <1>1, <1>3, OverflowEnters
    <2>2. e.window = t.s.window /\ e.acts = t.s.acts
      <3> HIDE DEF t
      <3> QED
        BY <1>1 DEF CtrlInv, TypesOK
    <2>3. ActsOK(e) /\ TypesOK(e)
      BY <1>1, <2>1, <2>2, WindowSame DEF MayEnter, CtrlInv
    <2> QED
      BY <2>3, QueueChains
  <1> HIDE DEF d, next, t
  <1> QED
    BY <1>1, <1>2, <1>3

(* Requests that arrive start no ACT. *)
LEMMA EnqueueChains ==
    ASSUME IInv, ActsOK(c), NEW b \in Banks, NEW row \in Rows, NEW write \in BOOLEAN,
           NEW cycle \in Nat, enqueue(b, row, write, cycle)
    PROVE  ActsOK(c')
  <1> DEFINE n == arrived + 1
             r == [bank |-> b, row |-> row, write |-> write,
                   arrival |-> cycle, seq |-> 0, ahead |-> 0, passed |-> 0]
             s == [c EXCEPT !.req = [m \in DOMAIN c.req \cup {n} |->
                                        IF m = n THEN r ELSE c.req[m]]]
             e == [s EXCEPT !.overflow = Append(@, n)]
             d == queue(s, n, cycle)
  <1>1. IF Full(c) THEN c' = e ELSE c' = d
    BY DEF enqueue
  <1>2. n \in Nat /\ n \notin DOMAIN c.req /\ CtrlInv(c)
    BY DEF IInv
  <1>3. r \in Requests /\ r.passed = 0 /\ r.ahead = 0
    BY TimingTypes DEF Requests
  <1>4. TypesOK(s)
    <2> HIDE DEF n, r
    <2> QED
      BY <1>2, <1>3, NewRequest DEF Arrived
  <1>5. ActsOK(s)
    <2> HIDE DEF n, r
    <2>1. s.window = c.window /\ s.acts = c.acts
      BY <1>2 DEF CtrlInv, TypesOK
    <2> QED
      BY <2>1, WindowSame
  <1> HIDE DEF s, n, r
  <1>6. ActsOK(d)
    BY <1>4, <1>5, QueueChains
  <1>7. ActsOK(e)
    <2>1. e.window = s.window /\ e.acts = s.acts
      BY <1>4 DEF TypesOK
    <2> QED
      BY <1>5, <2>1, WindowSame
  <1> HIDE DEF d, e
  <1> QED
    BY <1>1, <1>6, <1>7

(* Of more ACTs than the window has entries, two are of one chain, so that the latest  *)
(* of them is at least tFAW after the earliest.                                      *)
LEMMA ChainsSpace ==
    ASSUME NEW acts \in Seq(Nat), NEW w, NEW h, Chained(acts, w, h),
           NEW S \in kSubset(WindowSize + 1, DOMAIN acts)
    PROVE  MaxOf({acts[i] : i \in S}) - MinOf({acts[i] : i \in S}) >= tFAW
  <1> DEFINE V == {acts[i] : i \in S}
             g == [i \in S |-> h[i]]
  <1>1. WindowSize \in Nat /\ tFAW \in Nat
    BY TimingTypes
  <1>2. S \in SUBSET DOMAIN acts /\ Cardinality(S) = WindowSize + 1
    BY DEF kSubset
  <1>3. DOMAIN acts = 1 .. Len(acts) /\ Len(acts) \in Nat
    OBVIOUS
  <1>4. IsFiniteSet(S)
    <2>1. IsFiniteSet(1 .. Len(acts))
      BY <1>3, FS_Interval
    <2> QED
      BY <1>2, <1>3, <2>1, FS_Subset
  <1>5. IsFiniteSet(1 .. WindowSize) /\ Cardinality(1 .. WindowSize) < Cardinality(S)
    <2>1. /\ IsFiniteSet(1 .. WindowSize)
          /\ Cardinality(1 .. WindowSize) = IF 1 > WindowSize THEN 0 ELSE WindowSize - 1 + 1
      BY <1>1, FS_Interval
    <2> QED
      BY <1>1, <1>2, <2>1
  <1>6. g \in [S -> 1 .. WindowSize]
    BY <1>2 DEF Chained
  <1>7. PICK i \in S, j \in S : i # j /\ g[i] = g[j]
    <2> HIDE DEF g
    <2> QED
      BY <1>4, <1>5, <1>6, FS_PigeonHole
  <1>8. i \in Nat /\ j \in Nat /\ i \in DOMAIN acts /\ j \in DOMAIN acts /\ h[i] = h[j]
    BY <1>2, <1>3, <1>7
  <1>9. acts[i] + tFAW <= acts[j] \/ acts[j] + tFAW <= acts[i]
    <2>1. i < j \/ j < i
      BY <1>7, <1>8
    <2> QED
      BY <1>8, <2>1 DEF Chained
  <1>10. V \in SUBSET Nat /\ acts[i] \in V /\ acts[j] \in V
    BY <1>2, <1>7
  <1>11. IsFiniteSet(V)
    BY <1>4, FiniteValues
  <1> HIDE DEF V
  <1>12. PICK k \in Nat : \A v \in V : v <= k
    BY <1>10, <1>11, FiniteIsBounded
  <1>13. V # {}
    BY <1>10
  <1>14. MaxOf(V) \in V /\ acts[i] <= MaxOf(V) /\ acts[j] <= MaxOf(V)
    BY <1>10, <1>12, <1>13, MaxOfGreatest
  <1>15. MinOf(V) \in V /\ MinOf(V) <= acts[i] /\ MinOf(V) <= acts[j]
    BY <1>10, <1>13, MinOfLeast
  <1>16. acts[i] \in Nat /\ acts[j] \in Nat /\ MaxOf(V) \in Nat /\ MinOf(V) \in Nat
    BY <1>10, <1>14, <1>15
  <1>17. MaxOf(V) - MinOf(V) >= tFAW
    BY <1>1, <1>9, <1>14, <1>15, <1>16
  <1> QED
    BY <1>17 DEF V

(* ActsSpaced: the rank never sees more than WindowSize ACTs in tFAW cycles, in        *)
(* whatever order addActivation leaves the window and in whatever order the ACTs are   *)
(* recorded: each is issued tFAW after the entry that it replaces.                    *)
THEOREM ActsNeverBunch == Spec => []ActsSpaced
  <1>1. Init => ActsOK(c)
    <2> SUFFICES ASSUME Init PROVE ActsOK(c)
      OBVIOUS
    <2>1. c.acts = <<>> /\ DOMAIN <<>> = {}
      BY DEF Init
    <2>2. Chained(c.acts, c.window, <<>>)
      <3>1. <<>> \in [{} -> 1 .. WindowSize]
        OBVIOUS
      <3> QED
        BY <2>1, <3>1 DEF Chained
    <2> QED
      BY <2>2 DEF ActsOK
  <1>2. IInv /\ ActsOK(c) /\ [Next]_vars => ActsOK(c')
    <2> SUFFICES ASSUME IInv, ActsOK(c), [Next]_vars PROVE ActsOK(c')
      OBVIOUS
    <2>1. ASSUME NEW b \in Banks, NEW row \in Rows, NEW write \in BOOLEAN, NEW gap \in Gaps,
                 enqueue(b, row, write, now + gap)
          PROVE  ActsOK(c')
      <3>1. now + gap \in Nat
        BY DDRAssumption DEF IInv
      <3> QED
        BY <2>1, <3>1, EnqueueChains
    <2>2. CASE tick
      <3>1. nextSchedCycle \in Nat \ {0}
        BY <2>2 DEF tick, TickDue, IInv
      <3>2. TickCycle \in Nat
        BY <3>1, MatchingCycle DEF TickCycle
      <3>3. c' = Ticked(TickCycle).s
        BY <2>2 DEF tick
      <3> QED
        BY <3>2, <3>3, TickChains DEF IInv
    <2>3. CASE refresh
      <3> DEFINE start == MaxOf({RefreshCycle} \cup {c.bank[b].minPreCycle : b \in Banks}
                                               \cup {c.bank[b].lastCmdCycle : b \in Banks})
                 f == [b \in Banks |-> [c.bank[b] EXCEPT !.open = FALSE,
                                                         !.minPreCycle = start + tRFC - tRP]]
      <3>1. c' = [c EXCEPT !.bank = f]
        BY <2>3 DEF refresh
      <3> HIDE DEF f
      <3>2. c'.window = c.window /\ c'.acts = c.acts
        BY <3>1 DEF IInv, CtrlInv, TypesOK
      <3> QED
        BY <3>2, WindowSame
    <2>4. CASE UNCHANGED vars
      BY <2>4 DEF vars
    <2> QED
      BY <2>1, <2>2, <2>3, <2>4 DEF Next
  <1>3. ActsOK(c') => ActsOK(c)'
    BY DEF ActsOK, Chained
  <1>4. IInv /\ ActsOK(c) => ActsSpaced
    <2> SUFFICES ASSUME IInv, ActsOK(c),
                        NEW S \in kSubset(WindowSize + 1, DOMAIN c.acts)
                 PROVE  MaxOf({c.acts[i] : i \in S}) - MinOf({c.acts[i] : i \in S}) >= tFAW
      BY DEF ActsSpaced
    <2>1. PICK h : Chained(c.acts, c.window, h)
      BY DEF ActsOK
    <2>2. c.acts \in Seq(Nat)
      BY DEF IInv, CtrlInv, TypesOK
    <2> QED
      BY <2>1, <2>2, ChainsSpace
  <1> QED
    BY <1>1, <1>2, <1>3, <1>4, MemoryInvariant, PTL DEF Spec
=============================================================================
