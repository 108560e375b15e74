--------------------------- MODULE PrioQueueProofs ---------------------------
(***************************************************************************)
(* PrioQueue for every number of blocks and cycles per block: what the      *)
(* queue navigates by is exact, and the ring with its far map implements    *)
(* one queue ordered by cycle.                                              *)
(***************************************************************************)
EXTENDS PrioQueue, FiniteSetTheorems, WellFoundedInduction, TLAPS

-----------------------------------------------------------------------------
(* Division, and least elements *)

(* What the provers need of quotient and remainder. *)
LEMMA DivMod ==
    ASSUME NEW a \in Nat, NEW b \in Nat \ {0}
    PROVE  /\ a \div b \in Nat
           /\ a % b \in 0..b-1
           /\ a = (a \div b) * b + (a % b)
  <1>1. a \div b \in Nat
    BY Z3
  <1>2. a % b \in 0..b-1
    BY Z3
  <1>3. a % b = a - b * (a \div b)
    BY Z3
  <1> DEFINE q == a \div b
             r == a % b
  <1>4. a = q * b + r
    <2>1. q \in Nat /\ r \in 0..b-1 /\ r = a - b * q
      BY <1>1, <1>2, <1>3
    <2> HIDE DEF q, r
    <2> QED
      BY <2>1
  <1> QED
    BY <1>1, <1>2, <1>4

(* A number written as q * b + r has quotient q and remainder r. *)
LEMMA DivModUnique ==
    ASSUME NEW b \in Nat \ {0}, NEW q \in Nat, NEW r \in 0..b-1
    PROVE  /\ q * b + r \in Nat
           /\ (q * b + r) \div b = q
           /\ (q * b + r) % b = r
  BY Z3

(* Of b numbers in a row no two have the same remainder. *)
LEMMA ModInWindow ==
    ASSUME NEW b \in Nat \ {0}, NEW n \in Nat, NEW x \in n..n+b-1, NEW y \in n..n+b-1,
           x % b = y % b
    PROVE  x = y
  <1>1. x \in Nat /\ y \in Nat
    OBVIOUS
  <1>2. /\ x \div b \in Nat /\ y \div b \in Nat /\ x % b \in 0..b-1
        /\ x = (x \div b) * b + (x % b)
        /\ y = (y \div b) * b + (y % b)
    BY <1>1, DivMod
  <1> DEFINE p == x \div b
             q == y \div b
             r == x % b
  <1>3. p \in Nat /\ q \in Nat /\ r \in 0..b-1 /\ x = p * b + r /\ y = q * b + r
    BY <1>2
  <1> HIDE DEF p, q, r
  <1>4. p * b \in Nat /\ q * b \in Nat
    BY <1>3
  <1>5. p = q
    <2>1. ASSUME p + 1 <= q PROVE FALSE
      <3>1. p * b + b <= q * b
        BY <1>3, <2>1, Z3
      <3> QED
        BY <1>3, <1>4, <3>1
    <2>2. ASSUME q + 1 <= p PROVE FALSE
      <3>1. q * b + b <= p * b
        BY <1>3, <2>2, Z3
      <3> QED
        BY <1>3, <1>4, <3>1
    <2> QED
      BY <1>3, <2>1, <2>2
  <1> QED
    BY <1>3, <1>5

(* A full turn leaves the remainder. *)
LEMMA ModTurn ==
    ASSUME NEW b \in Nat \ {0}, NEW x \in Nat
    PROVE  (x + b) % b = x % b
  <1>1. x \div b \in Nat /\ x % b \in 0..b-1 /\ x = (x \div b) * b + (x % b)
    BY DivMod
  <1> DEFINE q == x \div b
             r == x % b
  <1>2. x + b = (q + 1) * b + r
    <2> HIDE DEF q, r
    <2> QED
      BY <1>1, Z3 DEF q, r
  <1>3. q + 1 \in Nat /\ r \in 0..b-1
    BY <1>1
  <1>4. ((q + 1) * b + r) % b = r
    <2> HIDE DEF q, r
    <2> QED
      BY <1>3, DivModUnique
  <1> QED
    BY <1>2, <1>4

(* A later cycle is not in an earlier block. *)
LEMMA DivMonotone ==
    ASSUME NEW b \in Nat \ {0}, NEW x \in Nat, NEW n \in Nat
    PROVE  /\ n * b <= x => n <= x \div b
           /\ x < n * b => x \div b < n
           /\ n <= x \div b => n * b <= x
           /\ x \div b < n => x < n * b
  <1> DEFINE q == x \div b
  <1>1. q \in Nat /\ q * b <= x /\ x < q * b + b /\ q * b \in Nat /\ n * b \in Nat
    BY DivMod, Z3
  <1> HIDE DEF q
  <1>2. ASSUME n <= q PROVE n * b <= q * b
    BY <1>1, <1>2, Z3
  <1>3. ASSUME q + 1 <= n PROVE q * b + b <= n * b
    BY <1>1, <1>3, Z3
  <1>4. n <= q \/ q + 1 <= n
    BY <1>1
  <1> QED
    BY <1>1, <1>2, <1>3, <1>4 DEF q

(* A nonempty set of natural numbers has a least element, and Min is it. *)
LEMMA MinIsLeast ==
    ASSUME NEW S \in SUBSET Nat, S # {}
    PROVE  Min(S) \in S /\ \A k \in S : Min(S) <= k
  <1>1. PICK R : /\ IsWellFoundedOn(R, Nat)
                 /\ \A x, y \in Nat : y < x => <<y, x>> \in R
    <2>1. IsWellFoundedOn(OpToRel(<, Nat), Nat)
      BY NatLessThanWellFounded
    <2>2. \A x, y \in Nat : y < x => <<y, x>> \in OpToRel(<, Nat)
      BY DEF OpToRel
    <2> QED
      BY <2>1, <2>2, Zenon
  <1>2. PICK m \in S : \A y \in S : ~ (<<y, m>> \in R)
    BY <1>1, WFMin, Zenon
  <1>3. \A y \in S : ~ (y < m)
    BY <1>1, <1>2
  <1>4. m \in S /\ \A y \in S : m <= y
    BY <1>3
  <1> QED
    BY <1>4 DEF Min

(* A least element of a set of numbers is its Min. *)
LEMMA LeastIsMin ==
    ASSUME NEW S \in SUBSET Nat, NEW m \in S, \A k \in S : m <= k
    PROVE  Min(S) = m
  <1>1. Min(S) \in S /\ \A k \in S : Min(S) <= k
    BY MinIsLeast
  <1>2. Min(S) \in Nat /\ m \in Nat /\ Min(S) <= m /\ m <= Min(S)
    BY <1>1
  <1> QED
    BY <1>2

-----------------------------------------------------------------------------
(* What the ring holds *)

(* Near, of a ring a whose current block is b. *)
Rings == [0..B-1 -> [0..W-1 -> SUBSET Objs]]
RingOf(a, b) == UNION {{[cycle |-> (b + n) * W + pos, obj |-> o] :
                          o \in a[(b + n) % B][pos]} :
                        n \in 0..B-1, pos \in 0..W-1}

(* From block b on the ring covers cycle c: c's block is one of the next B. *)
Covered(b, c) == b <= c \div W /\ c \div W < b + B

(* The events stored where cycle c belongs. *)
At(a, c) == a[(c \div W) % B][c % W]

(* Half a turn is at least one block, and two halves are at most a turn. *)
LEMMA HalfTurn == half \in Nat \ {0} /\ half + half <= B
  BY QueueAssumption DEF half

(* Every cycle has a place in the ring. *)
LEMMA Place ==
    ASSUME NEW c \in Nat
    PROVE  /\ c \div W \in Nat
           /\ (c \div W) % B \in 0..B-1
           /\ c % W \in 0..W-1
           /\ c = (c \div W) * W + (c % W)
  <1>1. W \in Nat \ {0} /\ B \in Nat \ {0}
    BY QueueAssumption
  <1>2. c \div W \in Nat /\ c % W \in 0..W-1 /\ c = (c \div W) * W + (c % W)
    BY <1>1, DivMod
  <1> QED
    BY <1>1, <1>2, DivMod

(* Two cycles that the ring covers and stores in the same place are equal. *)
LEMMA OnePlaceOneCycle ==
    ASSUME NEW n \in Nat, NEW c \in Nat, NEW d \in Nat,
           n <= c \div W, c \div W < n + B, n <= d \div W, d \div W < n + B,
           (c \div W) % B = (d \div W) % B, c % W = d % W
    PROVE  c = d
  <1>1. B \in Nat \ {0}
    BY QueueAssumption
  <1>2. c \div W \in n..n+B-1 /\ d \div W \in n..n+B-1
    BY <1>1, Place
  <1>3. c \div W = d \div W
    BY <1>1, <1>2, ModInWindow
  <1> QED
    BY <1>3, Place

(* The entries of the ring are those of the cycles it covers, each where its *)
(* cycle belongs.                                                            *)
LEMMA RingOfIs ==
    ASSUME NEW a \in Rings, NEW b \in Nat, NEW e
    PROVE  e \in RingOf(a, b)
              <=> e \in Entries /\ Covered(b, e.cycle) /\ e.obj \in At(a, e.cycle)
  <1>1. W \in Nat \ {0} /\ B \in Nat \ {0}
    BY QueueAssumption
  <1>2. ASSUME e \in RingOf(a, b)
        PROVE  e \in Entries /\ Covered(b, e.cycle) /\ e.obj \in At(a, e.cycle)
    <2>1. PICK n \in 0..B-1, pos \in 0..W-1 :
             \E o \in a[(b + n) % B][pos] :
                e = [cycle |-> (b + n) * W + pos, obj |-> o]
      BY <1>2 DEF RingOf
    <2>2. PICK o \in a[(b + n) % B][pos] :
             e = [cycle |-> (b + n) * W + pos, obj |-> o]
      BY <2>1
    <2>3. b + n \in Nat
      OBVIOUS
    <2> DEFINE c == (b + n) * W + pos
    <2>4. c \in Nat /\ c \div W = b + n /\ c % W = pos
      BY <1>1, <2>3, DivModUnique
    <2>5. (b + n) % B \in 0..B-1
      BY <1>1, <2>3, DivMod
    <2>6. o \in Objs
      BY <2>5 DEF Rings
    <2>7. e = [cycle |-> c, obj |-> o] /\ e.cycle = c /\ e.obj = o
      BY <2>2
    <2> HIDE DEF c
    <2>8. e \in Entries
      BY <2>4, <2>6, <2>7 DEF Entries
    <2>9. Covered(b, e.cycle)
      BY <1>1, <2>4, <2>7 DEF Covered
    <2>10. e.obj \in At(a, e.cycle)
      BY <2>4, <2>7 DEF At
    <2> QED
      BY <2>8, <2>9, <2>10
  <1>3. ASSUME e \in Entries, Covered(b, e.cycle), e.obj \in At(a, e.cycle)
        PROVE  e \in RingOf(a, b)
    <2> DEFINE c == e.cycle
               k == c \div W - b
               p == c % W
    <2>1. c \in Nat
      BY <1>3 DEF Entries
    <2>2. c \div W \in Nat /\ p \in 0..W-1 /\ c = (c \div W) * W + p
      BY <2>1, Place
    <2>3. k \in 0..B-1 /\ b + k = c \div W
      BY <1>1, <1>3, <2>2 DEF Covered
    <2>4. e = [cycle |-> (b + k) * W + p, obj |-> e.obj]
      BY <1>3, <2>2, <2>3 DEF Entries
    <2>5. e.obj \in a[(b + k) % B][p]
      BY <1>3, <2>3 DEF At
    <2> DEFINE slot == {[cycle |-> (b + k) * W + p, obj |-> o] :
                          o \in a[(b + k) % B][p]}
               slots == {{[cycle |-> (b + n) * W + pos, obj |-> o] :
                            o \in a[(b + n) % B][pos]} :
                          n \in 0..B-1, pos \in 0..W-1}
    <2>6. k \in 0..B-1 /\ p \in 0..W-1 /\ e \in slot
      BY <2>2, <2>3, <2>4, <2>5
    <2> HIDE DEF k, p
    <2>7. slot \in slots
      BY <2>6
    <2>8. RingOf(a, b) = UNION slots
      BY DEF RingOf
    <2> HIDE DEF slot, slots
    <2> QED
      BY <2>6, <2>7, <2>8
  <1> QED
    BY <1>2, <1>3

(* Near is what the ring holds now. *)
LEMMA NearIsRing == Near = RingOf(array, curBlock)
  BY DEF Near, RingOf

(* Putting entries in the ring adds each to the place of its cycle. *)
LEMMA ArrayWithIs ==
    ASSUME TypeOK, NEW E \in SUBSET Entries
    PROVE  /\ ArrayWith(E) \in [0..B-1 -> [0..W-1 -> SUBSET Objs]]
           /\ OccWith(E) \in [0..B-1 -> SUBSET (0..W-1)]
           /\ \A i \in 0..B-1, pos \in 0..W-1 :
                /\ \A o : o \in ArrayWith(E)[i][pos] <=>
                     \/ o \in array[i][pos]
                     \/ \E f \in E : /\ (f.cycle \div W) % B = i
                                     /\ f.cycle % W = pos
                                     /\ o = f.obj
                /\ pos \in OccWith(E)[i] <=>
                     \/ pos \in occ[i]
                     \/ \E f \in E : (f.cycle \div W) % B = i /\ f.cycle % W = pos
  <1>1. \A f \in E : f.cycle \in Nat /\ f.obj \in Objs /\ f.cycle % W \in 0..W-1
    BY Place DEF Entries
  <1>2. ArrayWith(E) \in [0..B-1 -> [0..W-1 -> SUBSET Objs]]
    BY <1>1 DEF ArrayWith, TypeOK
  <1>3. OccWith(E) \in [0..B-1 -> SUBSET (0..W-1)]
    BY <1>1 DEF OccWith, TypeOK
  <1>4. ASSUME NEW i \in 0..B-1, NEW pos \in 0..W-1, NEW o
        PROVE  o \in ArrayWith(E)[i][pos] <=>
                     \/ o \in array[i][pos]
                     \/ \E f \in E : /\ (f.cycle \div W) % B = i
                                     /\ f.cycle % W = pos
                                     /\ o = f.obj
    BY <1>4 DEF ArrayWith
  <1>5. ASSUME NEW i \in 0..B-1, NEW pos \in 0..W-1
        PROVE  pos \in OccWith(E)[i] <=>
                     \/ pos \in occ[i]
                     \/ \E f \in E : (f.cycle \div W) % B = i /\ f.cycle % W = pos
    BY <1>5 DEF OccWith
  <1> QED
    BY <1>2, <1>3, <1>4, <1>5

-----------------------------------------------------------------------------
(* What the steps do to the contents *)

(* Entries put in the ring, at most after curBlock has left an empty block,  *)
(* are added to its contents; nothing else comes or goes.                    *)
LEMMA RingWith ==
    ASSUME TypeOK, NEW E \in SUBSET Entries, NEW b \in Nat,
           \A f \in E : Covered(b, f.cycle),
           \/ b = curBlock
           \/ b = curBlock + 1 /\ \A pos \in 0..W-1 : array[curBlock % B][pos] = {}
    PROVE  RingOf(ArrayWith(E), b) = Near \cup E
  <1>1. B \in Nat \ {0} /\ curBlock \in Nat /\ array \in Rings /\ ArrayWith(E) \in Rings
    BY QueueAssumption, ArrayWithIs DEF TypeOK, Rings
  <1>2. ASSUME NEW x \in Entries
        PROVE  x \in RingOf(ArrayWith(E), b) <=> x \in Near \/ x \in E
    <2> DEFINE c == x.cycle
    <2>1. /\ c \in Nat /\ c \div W \in Nat
          /\ (c \div W) % B \in 0..B-1 /\ c % W \in 0..W-1
      BY Place DEF Entries
    <2>2. x \in Near <=> Covered(curBlock, c) /\ x.obj \in At(array, c)
      BY <1>1, NearIsRing, RingOfIs
    <2>3. x \in RingOf(ArrayWith(E), b) <=> Covered(b, c) /\ x.obj \in At(ArrayWith(E), c)
      BY <1>1, RingOfIs
    <2>4. x.obj \in At(ArrayWith(E), c)
            <=> \/ x.obj \in At(array, c)
                \/ \E f \in E : /\ (f.cycle \div W) % B = (c \div W) % B
                                /\ f.cycle % W = c % W
                                /\ x.obj = f.obj
      BY <2>1, ArrayWithIs DEF At
    <2>5. ASSUME NEW f \in E, (f.cycle \div W) % B = (c \div W) % B,
                 f.cycle % W = c % W, x.obj = f.obj, Covered(b, c)
          PROVE  x \in E
      <3>1. f \in Entries /\ f.cycle \in Nat
        BY DEF Entries
      <3>2. f.cycle = c
        BY <2>1, <2>5, <3>1, OnePlaceOneCycle DEF Covered
      <3> QED
        BY <2>5, <3>1, <3>2 DEF Entries
    <2>6. x.obj \in At(array, c) => (Covered(b, c) <=> Covered(curBlock, c))
      <3> SUFFICES ASSUME b = curBlock + 1, x.obj \in At(array, c),
                          \A pos \in 0..W-1 : array[curBlock % B][pos] = {}
                   PROVE  Covered(b, c) <=> Covered(curBlock, c)
        OBVIOUS
      <3>1. c \div W # curBlock
        BY <2>1 DEF At
      <3>2. c \div W # curBlock + B
        BY <1>1, <2>1, ModTurn DEF At
      <3> QED
        BY <1>1, <2>1, <3>1, <3>2 DEF Covered
    <2> HIDE DEF c
    <2>7. x \in E => Covered(b, c)
      BY DEF c
    <2>8. x \in E => x.obj \in At(ArrayWith(E), c)
      BY <2>4 DEF c
    <2> QED
      BY <2>2, <2>3, <2>4, <2>5, <2>6, <2>7, <2>8
  <1>3. \A x : x \in RingOf(ArrayWith(E), b) => x \in Entries
    BY <1>1, RingOfIs
  <1>4. \A x : x \in Near => x \in Entries
    BY <1>1, NearIsRing, RingOfIs
  <1> QED
    BY <1>2, <1>3, <1>4

(* takeFirst takes one entry, that of the first position of the current      *)
(* block.                                                                    *)
LEMMA RingWithout ==
    ASSUME TypeOK, NEW pos \in 0..W-1, NEW o \in array[curBlock % B][pos],
           NEW a, a = [array EXCEPT ![curBlock % B][pos] = array[curBlock % B][pos] \ {o}]
    PROVE  /\ a \in Rings
           /\ [cycle |-> curBlock * W + pos, obj |-> o] \in Near
           /\ RingOf(a, curBlock) = Near \ {[cycle |-> curBlock * W + pos, obj |-> o]}
  <1>1. /\ W \in Nat \ {0} /\ B \in Nat \ {0} /\ curBlock \in Nat /\ array \in Rings
        /\ curBlock % B \in 0..B-1
    BY QueueAssumption, DivMod DEF TypeOK, Rings
  <1>2. a \in Rings
    BY <1>1 DEF Rings
  <1> DEFINE d == curBlock * W + pos
             e == [cycle |-> d, obj |-> o]
  <1>3. d \in Nat /\ d \div W = curBlock /\ d % W = pos
    BY <1>1, DivModUnique
  <1>4. e \in Entries /\ e.cycle = d /\ e.obj = o
    BY <1>1, <1>3 DEF Entries, Rings
  <1> HIDE DEF d, e
  <1>5. Covered(curBlock, d)
    BY <1>1, <1>3 DEF Covered
  <1>6. e \in Near
    <2>1. o \in At(array, d)
      BY <1>3 DEF At
    <2> QED
      BY <1>1, <1>4, <1>5, <2>1, NearIsRing, RingOfIs
  <1>7. ASSUME NEW x \in Entries
        PROVE  x \in RingOf(a, curBlock) <=> x \in Near /\ x # e
    <2> DEFINE c == x.cycle
    <2>1. /\ c \in Nat /\ c \div W \in Nat
          /\ (c \div W) % B \in 0..B-1 /\ c % W \in 0..W-1
      BY Place DEF Entries
    <2>2. x \in Near <=> Covered(curBlock, c) /\ x.obj \in At(array, c)
      BY <1>1, NearIsRing, RingOfIs
    <2>3. x \in RingOf(a, curBlock) <=> Covered(curBlock, c) /\ x.obj \in At(a, c)
      BY <1>1, <1>2, RingOfIs
    <2>4. CASE (c \div W) % B = curBlock % B /\ c % W = pos
      <3>1. At(a, c) = At(array, c) \ {o}
        BY <1>1, <2>1, <2>4 DEF At, Rings
      <3>2. Covered(curBlock, c) => c = d
        BY <1>1, <1>3, <1>5, <2>1, <2>4, OnePlaceOneCycle DEF Covered
      <3>3. c = d => (x = e <=> x.obj = o)
        BY <1>4 DEF Entries
      <3> QED
        BY <2>2, <2>3, <3>1, <3>2, <3>3
    <2>5. CASE ~((c \div W) % B = curBlock % B /\ c % W = pos)
      <3>1. At(a, c) = At(array, c)
        BY <1>1, <2>1, <2>5 DEF At, Rings
      <3>2. x # e
        BY <1>3, <1>4, <2>5
      <3> QED
        BY <2>2, <2>3, <3>1, <3>2
    <2> QED
      BY <2>4, <2>5
  <1>8. \A x : x \in RingOf(a, curBlock) => x \in Entries
    BY <1>1, <1>2, RingOfIs
  <1>9. \A x : x \in Near => x \in Entries
    BY <1>1, NearIsRing, RingOfIs
  <1>10. RingOf(a, curBlock) = Near \ {e}
    BY <1>7, <1>8, <1>9
  <1> QED
    BY <1>2, <1>6, <1>10 DEF e, d

-----------------------------------------------------------------------------
(* The inductive invariant.  Far elements are ahead by a turn of the block   *)
(* where the last move took place, which is what makes a move bring in only  *)
(* entries that the ring covers; and the block that an enqueue starts from   *)
(* is not after the domain's cycle, or an event for that cycle would be put  *)
(* where the ring has already been.                                          *)
Bits == \A i \in 0..B-1, pos \in 0..W-1 : pos \in occ[i] <=> array[i][pos] # {}
Counted == IsFiniteSet(Contents) /\ elems = Cardinality(Contents)
FarAhead ==
    \E m \in Nat : /\ m % half = 0 /\ m <= curBlock /\ curBlock < m + half
                   /\ \A f \in feMap : m + B <= f.cycle \div W
InTime == ~dequeuing => curBlock * W <= curCycle

IInv == TypeOK /\ Bits /\ Counted /\ FarAhead /\ InTime

(* An empty queue satisfies it. *)
LEMMA InitIInv == Init => IInv /\ Contents = {}
  <1> SUFFICES ASSUME Init PROVE IInv /\ Contents = {}
    OBVIOUS
  <1>1. W \in Nat \ {0} /\ B \in Nat \ {0}
    BY QueueAssumption
  <1>2. TypeOK
    BY DEF Init, TypeOK
  <1>3. Bits
    BY DEF Init, Bits
  <1>4. Near = {}
    <2>1. \A c \in Nat : At(array, c) = {}
      BY Place DEF Init, At
    <2>2. \A x : x \notin Near
      BY <1>2, <2>1, NearIsRing, RingOfIs DEF TypeOK, Rings, Entries
    <2> QED
      BY <2>2
  <1>5. Contents = {}
    BY <1>4 DEF Init, Contents
  <1>6. Counted
    BY <1>5, FS_EmptySet DEF Init, Counted
  <1>7. FarAhead
    <2>1. 0 % half = 0
      BY HalfTurn
    <2> QED
      BY <2>1, HalfTurn DEF Init, FarAhead
  <1>8. InTime
    BY <1>1 DEF Init, InTime
  <1> QED
    BY <1>2, <1>3, <1>5, <1>6, <1>7, <1>8 DEF IInv

(* A step that fills the ring with entries keeps its bits exact. *)
LEMMA BitsWith ==
    ASSUME TypeOK, Bits, NEW E \in SUBSET Entries,
           array' = ArrayWith(E), occ' = OccWith(E)
    PROVE  Bits'
  <1> SUFFICES ASSUME NEW i \in 0..B-1, NEW pos \in 0..W-1
               PROVE  pos \in occ'[i] <=> array'[i][pos] # {}
    BY DEF Bits
  <1>1. pos \in occ[i] <=> array[i][pos] # {}
    BY DEF Bits
  <1>2. pos \in occ'[i] <=>
          pos \in occ[i] \/ \E f \in E : (f.cycle \div W) % B = i /\ f.cycle % W = pos
    BY ArrayWithIs
  <1>3. \A o : o \in array'[i][pos] <=>
           \/ o \in array[i][pos]
           \/ \E f \in E : (f.cycle \div W) % B = i /\ f.cycle % W = pos /\ o = f.obj
    BY ArrayWithIs
  <1> QED
    BY <1>1, <1>2, <1>3

(* enqueue adds its entry to the contents and preserves the invariant. *)
LEMMA EnqueueStep ==
    ASSUME IInv, NEW o \in Objs, NEW c \in 0..MaxCycle, enqueue(o, c)
    PROVE  IInv' /\ Contents' = Contents \cup {[cycle |-> c, obj |-> o]}
  <1> DEFINE e == [cycle |-> c, obj |-> o]
  <1>1. /\ c \in Nat /\ W \in Nat \ {0} /\ B \in Nat \ {0} /\ curBlock \in Nat
        /\ curCycle \in Nat /\ curBlock * W \in Nat /\ c \div W \in Nat
    <2>1. c \in Nat /\ W \in Nat \ {0} /\ B \in Nat \ {0} /\ curBlock \in Nat /\ curCycle \in Nat
      BY QueueAssumption DEF IInv, TypeOK
    <2> QED
      BY <2>1, Place
  <1>2. e \in Entries /\ e.cycle = c /\ e.obj = o
    BY <1>1 DEF Entries
  <1>3. e \notin Contents
    BY <1>2 DEF enqueue
  <1>4. curBlock <= c \div W
    BY <1>1, DivMonotone DEF enqueue, IInv, InTime
  <1>5. /\ UNCHANGED <<curBlock, dequeuing, curCycle>>
        /\ elems' = elems + 1
    BY DEF enqueue
  <1> HIDE DEF e
  <1>6. ASSUME InRing(c), array' = ArrayWith({e}), occ' = OccWith({e}), feMap' = feMap
        PROVE  TypeOK' /\ Bits' /\ FarAhead' /\ Contents' = Contents \cup {e}
    <2>1. {e} \in SUBSET Entries
      BY <1>2
    <2>2. TypeOK'
      BY <1>5, <1>6, <2>1, ArrayWithIs DEF IInv, TypeOK
    <2>3. Bits'
      BY <1>6, <2>1, BitsWith DEF IInv
    <2>4. \A f \in {e} : Covered(curBlock, f.cycle)
      BY <1>2, <1>4, <1>6 DEF Covered, InRing
    <2>5. RingOf(ArrayWith({e}), curBlock) = Near \cup {e}
      BY <1>1, <2>1, <2>4, RingWith DEF IInv
    <2>6. Near' = RingOf(array', curBlock')
      BY DEF Near, RingOf
    <2>7. Contents' = Contents \cup {e}
      BY <1>5, <1>6, <2>5, <2>6 DEF Contents
    <2>8. FarAhead'
      BY <1>5, <1>6 DEF IInv, FarAhead
    <2> QED
      BY <2>2, <2>3, <2>7, <2>8
  <1>7. ASSUME ~InRing(c), feMap' = feMap \cup {e}, UNCHANGED <<array, occ>>
        PROVE  TypeOK' /\ Bits' /\ FarAhead' /\ Contents' = Contents \cup {e}
    <2>1. TypeOK'
      BY <1>2, <1>5, <1>7 DEF IInv, TypeOK
    <2>2. Bits'
      BY <1>7 DEF IInv, Bits
    <2>3. Near' = Near
      BY <1>5, <1>7 DEF Near
    <2>4. Contents' = Contents \cup {e}
      BY <1>7, <2>3 DEF Contents
    <2>5. curBlock + B <= c \div W
      BY <1>1, <1>7 DEF InRing
    <2>6. FarAhead'
      <3>1. PICK m \in Nat : /\ m % half = 0 /\ m <= curBlock /\ curBlock < m + half
                             /\ \A f \in feMap : m + B <= f.cycle \div W
        BY DEF IInv, FarAhead
      <3>2. \A f \in feMap' : m + B <= f.cycle \div W
        BY <1>1, <1>2, <1>7, <2>5, <3>1
      <3> QED
        BY <1>5, <3>1, <3>2 DEF FarAhead
    <2> QED
      BY <2>1, <2>2, <2>4, <2>6
  <1>8. TypeOK' /\ Bits' /\ FarAhead' /\ Contents' = Contents \cup {e}
    BY <1>6, <1>7 DEF enqueue, e
  <1>9. Counted'
    <2>1. IsFiniteSet(Contents) /\ elems = Cardinality(Contents)
      BY DEF IInv, Counted
    <2>2. /\ IsFiniteSet(Contents \cup {e})
          /\ Cardinality(Contents \cup {e}) = Cardinality(Contents) + 1
      BY <1>3, <2>1, FS_AddElement
    <2> QED
      BY <1>5, <1>8, <2>1, <2>2 DEF Counted
  <1>10. InTime'
    BY <1>5 DEF IInv, InTime
  <1> QED
    BY <1>8, <1>9, <1>10 DEF IInv, e

(* A turn of dequeue's loop moves far elements into the ring and changes     *)
(* nothing of the contents.                                                  *)
LEMMA NextBlockStep ==
    ASSUME IInv, nextBlock
    PROVE  IInv' /\ Contents' = Contents
  <1> DEFINE b == curBlock + 1
             M == Moved(b)
  <1>1. /\ W \in Nat \ {0} /\ B \in Nat \ {0} /\ curBlock \in Nat /\ b \in Nat
        /\ b + B \in Nat /\ curBlock % B \in 0..B-1
    BY QueueAssumption, DivMod DEF IInv, TypeOK
  <1>2. \A f \in feMap : f \in Entries /\ f.cycle \in Nat /\ f.cycle \div W \in Nat
    BY Place DEF IInv, TypeOK, Entries
  <1>3. M \in SUBSET feMap /\ M \in SUBSET Entries
    BY <1>2 DEF Moved
  <1>4. /\ dequeuing /\ occ[curBlock % B] = {}
        /\ curBlock' = b /\ array' = ArrayWith(M) /\ occ' = OccWith(M)
        /\ feMap' = feMap \ M
        /\ UNCHANGED <<elems, dequeuing, curCycle>>
    BY DEF nextBlock
  <1>5. PICK m \in Nat : /\ m % half = 0 /\ m <= curBlock /\ curBlock < m + half
                         /\ \A f \in feMap : m + B <= f.cycle \div W
    BY DEF IInv, FarAhead
  <1>6. \A f \in M : Covered(b, f.cycle)
    <2> SUFFICES ASSUME NEW f \in M PROVE Covered(b, f.cycle)
      OBVIOUS
    <2>1. f \in feMap /\ f.cycle < (b + B) * W
      BY DEF Moved
    <2>2. f.cycle \div W < b + B
      BY <1>1, <1>2, <2>1, DivMonotone
    <2>3. b <= f.cycle \div W
      BY <1>1, <1>2, <1>5, <2>1, HalfTurn
    <2> QED
      BY <2>2, <2>3 DEF Covered
  <1>7. \A pos \in 0..W-1 : array[curBlock % B][pos] = {}
    BY <1>1, <1>4 DEF IInv, Bits
  <1>8. FarAhead'
    <2>1. CASE b % half = 0
      <3>1. \A f \in feMap' : b + B <= f.cycle \div W
        <4> SUFFICES ASSUME NEW f \in feMap' PROVE b + B <= f.cycle \div W
          OBVIOUS
        <4>1. f \in feMap /\ ~(f.cycle < (b + B) * W)
          BY <1>4, <2>1 DEF Moved
        <4> QED
          BY <1>1, <1>2, <4>1, DivMonotone
      <3> QED
        BY <1>1, <1>4, <2>1, <3>1, HalfTurn DEF FarAhead
    <2>2. CASE b % half # 0
      <3>1. (m + half) % half = 0
        BY <1>5, HalfTurn, ModTurn
      <3>2. b # m + half
        BY <2>2, <3>1
      <3>3. m <= b /\ b < m + half
        BY <1>1, <1>5, <3>2, HalfTurn
      <3> QED
        BY <1>4, <1>5, <3>3 DEF FarAhead
    <2> QED
      BY <2>1, <2>2
  <1> HIDE DEF b, M
  <1>9. TypeOK'
    BY <1>1, <1>3, <1>4, ArrayWithIs DEF IInv, TypeOK
  <1>10. Bits'
    BY <1>3, <1>4, BitsWith DEF IInv
  <1>11. Contents' = Contents
    <2>1. b = curBlock + 1
      BY DEF b
    <2>2. RingOf(ArrayWith(M), b) = Near \cup M
      BY <1>1, <1>3, <1>6, <1>7, <2>1, RingWith DEF IInv
    <2>3. Near' = RingOf(array', curBlock')
      BY DEF Near, RingOf
    <2> QED
      BY <1>3, <1>4, <2>2, <2>3 DEF Contents
  <1>12. Counted'
    BY <1>4, <1>11 DEF IInv, Counted
  <1>13. InTime'
    BY <1>4 DEF InTime
  <1> QED
    BY <1>8, <1>9, <1>10, <1>11, <1>12, <1>13 DEF IInv

(* takeFirst removes an entry of the least cycle and preserves the           *)
(* invariant.                                                                *)
LEMMA TakeFirstStep ==
    ASSUME IInv, NEW o \in Objs, takeFirst(o)
    PROVE  /\ IInv'
           /\ \E e \in Contents : /\ \A f \in Contents : e.cycle <= f.cycle
                                  /\ Contents' = Contents \ {e}
                                  /\ curCycle' = e.cycle
  <1> DEFINE i == curBlock % B
             pos == FirstPos(i)
             rest == array[i][pos] \ {o}
             e == [cycle |-> curBlock * W + pos, obj |-> o]
  <1>1. W \in Nat \ {0} /\ B \in Nat \ {0} /\ curBlock \in Nat /\ i \in 0..B-1
    BY QueueAssumption, DivMod DEF IInv, TypeOK
  <1>2. /\ occ[i] # {} /\ o \in array[i][pos]
        /\ array' = [array EXCEPT ![i][pos] = rest]
        /\ occ' = OccWithout(i, pos, rest)
        /\ elems' = elems - 1
        /\ curCycle' = curBlock * W + pos
        /\ UNCHANGED <<feMap, curBlock>>
    BY DEF takeFirst
  <1>3. pos \in 0..W-1 /\ pos \in occ[i] /\ \A k \in occ[i] : pos <= k
    <2>1. occ[i] \in SUBSET (0..W-1)
      BY <1>1 DEF IInv, TypeOK
    <2> QED
      BY <1>2, <2>1, MinIsLeast DEF FirstPos
  <1>4. curBlock * W + pos \in Nat /\ dequeuing' = FALSE
    BY <1>1, <1>3 DEF takeFirst
  <1> HIDE DEF pos
  <1>5. /\ array' \in Rings /\ e \in Near
        /\ RingOf(array', curBlock) = Near \ {e}
    BY <1>2, <1>3, RingWithout DEF IInv
  <1>6. Bits'
    <2> SUFFICES ASSUME NEW j \in 0..B-1, NEW k \in 0..W-1
                 PROVE  k \in occ'[j] <=> array'[j][k] # {}
      BY DEF Bits
    <2>1. k \in occ[j] <=> array[j][k] # {}
      BY DEF IInv, Bits
    <2>2. array \in Rings /\ occ \in [0..B-1 -> SUBSET (0..W-1)]
      BY DEF IInv, TypeOK, Rings
    <2>3. CASE j = i /\ k = pos
      <3>1. array'[j][k] = rest
        BY <1>1, <1>2, <1>3, <2>2, <2>3 DEF Rings
      <3>2. occ'[j] = IF rest = {} THEN occ[j] \ {pos} ELSE occ[j]
        BY <1>1, <1>2, <2>2, <2>3 DEF OccWithout
      <3> QED
        BY <1>3, <2>3, <3>1, <3>2
    <2>4. CASE ~(j = i /\ k = pos)
      <3>1. array'[j][k] = array[j][k]
        BY <1>1, <1>2, <1>3, <2>2, <2>4 DEF Rings
      <3>2. k \in occ'[j] <=> k \in occ[j]
        BY <1>1, <1>2, <2>2, <2>4 DEF OccWithout
      <3> QED
        BY <2>1, <3>1, <3>2
    <2> QED
      BY <2>3, <2>4
  <1>7. \A f \in feMap : f.cycle \in Nat /\ f.cycle \div W \in Nat /\ curBlock < f.cycle \div W
    <2>1. \A f \in feMap : f.cycle \in Nat /\ f.cycle \div W \in Nat
      BY Place DEF IInv, TypeOK, Entries
    <2> QED
      BY <1>1, <2>1, HalfTurn DEF IInv, FarAhead
  <1>8. (curBlock * W + pos) \div W = curBlock /\ (curBlock * W + pos) % W = pos
    BY <1>1, <1>3, DivModUnique
  <1>9. e.cycle = curBlock * W + pos
    OBVIOUS
  <1>10. \A f \in feMap : f # e
    BY <1>1, <1>7, <1>8, <1>9
  <1>11. Contents' = Contents \ {e}
    <2>1. Near' = RingOf(array', curBlock')
      BY DEF Near, RingOf
    <2> HIDE DEF e
    <2> QED
      BY <1>2, <1>5, <1>10, <2>1 DEF Contents
  <1>12. \A f \in Contents : e.cycle <= f.cycle
    <2> SUFFICES ASSUME NEW f \in Contents PROVE e.cycle <= f.cycle
      OBVIOUS
    <2>1. CASE f \in feMap
      <3>1. curBlock + 1 <= f.cycle \div W
        BY <1>1, <1>7, <2>1
      <3>2. (curBlock + 1) * W <= f.cycle
        <4>1. curBlock + 1 \in Nat /\ f.cycle \in Nat /\ W \in Nat \ {0}
          BY <1>1, <1>7, <2>1
        <4> QED
          BY <3>1, <4>1, DivMonotone, ZenonT(60)
      <3>3. (curBlock + 1) * W = curBlock * W + W /\ curBlock * W \in Nat
        BY <1>1
      <3> QED
        BY <1>1, <1>3, <1>7, <1>9, <2>1, <3>2, <3>3
    <2>2. CASE f \in Near
      <3>1. f \in Entries /\ Covered(curBlock, f.cycle) /\ f.obj \in At(array, f.cycle)
        BY <1>1, <2>2, NearIsRing, RingOfIs DEF IInv, TypeOK, Rings
      <3>2. /\ f.cycle \in Nat /\ f.cycle \div W \in Nat /\ f.cycle % W \in 0..W-1
            /\ f.cycle = (f.cycle \div W) * W + (f.cycle % W)
        BY <3>1, Place DEF Entries
      <3>3. CASE f.cycle \div W = curBlock
        <4>1. f.cycle % W \in occ[i]
          BY <1>1, <3>1, <3>2, <3>3 DEF IInv, Bits, At
        <4>2. pos <= f.cycle % W
          BY <1>3, <4>1
        <4>3. f.cycle = curBlock * W + (f.cycle % W) /\ curBlock * W \in Nat
          BY <1>1, <3>2, <3>3
        <4> QED
          BY <1>3, <1>9, <3>2, <4>2, <4>3
      <3>4. CASE f.cycle \div W # curBlock
        <4>1. curBlock + 1 <= f.cycle \div W
          BY <1>1, <3>1, <3>2, <3>4 DEF Covered
        <4>2. (curBlock + 1) * W <= f.cycle
          <5>1. curBlock + 1 \in Nat /\ f.cycle \in Nat
            BY <1>1, <3>2
          <5> QED
            BY <1>1, <4>1, <5>1, DivMonotone
        <4>3. (curBlock + 1) * W = curBlock * W + W /\ curBlock * W \in Nat
          BY <1>1
        <4> QED
          BY <1>1, <1>3, <1>9, <3>2, <4>2, <4>3
      <3> QED
        BY <3>3, <3>4
    <2> QED
      BY <2>1, <2>2 DEF Contents
  <1>13. e \in Contents
    BY <1>5 DEF Contents
  <1>14. Counted'
    <2>1. IsFiniteSet(Contents) /\ elems = Cardinality(Contents)
      BY DEF IInv, Counted
    <2> HIDE DEF e
    <2>2. /\ IsFiniteSet(Contents \ {e})
          /\ Cardinality(Contents \ {e}) = Cardinality(Contents) - 1
      BY <1>13, <2>1, FS_RemoveElement
    <2> QED
      BY <1>2, <1>11, <2>1, <2>2 DEF Counted
  <1>15. TypeOK'
    <2>1. elems' \in Nat
      BY <1>14, FS_CardinalityType DEF Counted
    <2>2. occ' \in [0..B-1 -> SUBSET (0..W-1)]
      BY <1>1, <1>2 DEF IInv, TypeOK, OccWithout
    <2> QED
      BY <1>2, <1>4, <1>5, <2>1, <2>2 DEF IInv, TypeOK, Rings
  <1>16. FarAhead'
    BY <1>2 DEF IInv, FarAhead
  <1>17. InTime'
    <2>1. curBlock * W \in Nat
      BY <1>1
    <2> QED
      BY <1>2, <1>3, <2>1 DEF InTime
  <1>18. IInv'
    BY <1>6, <1>14, <1>15, <1>16, <1>17 DEF IInv
  <1>19. curCycle' = e.cycle
    BY <1>2, <1>9
  <1> HIDE DEF e
  <1> QED
    BY <1>11, <1>12, <1>13, <1>18, <1>19

(* Every step preserves the invariant and is a step of the abstract queue,   *)
(* or none.                                                                  *)
LEMMA NextStep ==
    ASSUME IInv, [Next]_vars
    PROVE  IInv' /\ [Abstract!Next]_<<Contents, curCycle>>
  <1>1. ASSUME NEW o \in Objs, NEW c \in 0..MaxCycle, enqueue(o, c)
        PROVE  IInv' /\ [Abstract!Next]_<<Contents, curCycle>>
    <2>1. IInv' /\ Contents' = Contents \cup {[cycle |-> c, obj |-> o]}
      BY <1>1, EnqueueStep
    <2>2. Abstract!Enqueue(o, c)
      BY <1>1, <2>1 DEF enqueue, Abstract!Enqueue
    <2> QED
      BY <2>1, <2>2 DEF Abstract!Next
  <1>2. CASE dequeue
    <2>1. UNCHANGED <<array, occ, feMap, curBlock, elems, curCycle>> /\ dequeuing' = TRUE
      BY <1>2 DEF dequeue
    <2>2. Contents' = Contents
      BY <2>1 DEF Contents, Near
    <2>3. IInv'
      BY <2>1, <2>2 DEF IInv, TypeOK, Bits, Counted, FarAhead, InTime
    <2> QED
      BY <2>1, <2>2, <2>3
  <1>3. CASE nextBlock
    <2>1. IInv' /\ Contents' = Contents
      BY <1>3, NextBlockStep
    <2>2. curCycle' = curCycle
      BY <1>3 DEF nextBlock
    <2> QED
      BY <2>1, <2>2
  <1>4. ASSUME NEW o \in Objs, takeFirst(o)
        PROVE  IInv' /\ [Abstract!Next]_<<Contents, curCycle>>
    <2>1. IInv'
      BY <1>4, TakeFirstStep
    <2>2. PICK e \in Contents : /\ \A f \in Contents : e.cycle <= f.cycle
                                /\ Contents' = Contents \ {e}
                                /\ curCycle' = e.cycle
      BY <1>4, TakeFirstStep
    <2>3. Abstract!Dequeue(e)
      BY <2>2 DEF Abstract!Dequeue
    <2> QED
      BY <2>1, <2>2, <2>3 DEF Abstract!Next
  <1>5. CASE UNCHANGED vars
    <2>1. Contents' = Contents /\ curCycle' = curCycle
      BY <1>5 DEF vars, Contents, Near
    <2>2. IInv'
      BY <1>5, <2>1 DEF vars, IInv, TypeOK, Bits, Counted, FarAhead, InTime
    <2> QED
      BY <2>1, <2>2
  <1> QED
    BY <1>1, <1>2, <1>3, <1>4, <1>5 DEF Next

(* A calendar of B blocks with its far map, whatever its size and whenever   *)
(* events are queued and taken, behaves as one queue ordered by cycle: each  *)
(* event comes out once, at the cycle it was queued for, none before an      *)
(* earlier one.                                                              *)
THEOREM QueueRefines == Spec => ImplementsEventQueue
  <1>1. Init => IInv /\ Abstract!Init
    BY InitIInv DEF Init, Abstract!Init
  <1>2. IInv /\ [Next]_vars => IInv' /\ [Abstract!Next]_<<Contents, curCycle>>
    BY NextStep
  <1> QED
    BY <1>1, <1>2, PTL DEF Spec, ImplementsEventQueue, Abstract!Spec

-----------------------------------------------------------------------------
(* firstCycle *)

(* The first populated of all the ring's blocks has the ring's least cycle. *)
LEMMA CycleAtIsLeast ==
    ASSUME IInv, NEW n \in Populated(0..B-1), \A k \in Populated(0..B-1) : n <= k
    PROVE  /\ CycleAt(n) \in Nat
           /\ \E e \in Near : e.cycle = CycleAt(n)
           /\ \A e \in Near : CycleAt(n) <= e.cycle
  <1> DEFINE b == curBlock + n
             i == b % B
             pos == FirstPos(i)
  <1>1. /\ W \in Nat \ {0} /\ B \in Nat \ {0} /\ curBlock \in Nat
        /\ n \in 0..B-1 /\ b \in Nat
    BY QueueAssumption DEF IInv, TypeOK, Populated
  <1>2. i \in 0..B-1 /\ occ[i] # {} /\ occ[i] \in SUBSET (0..W-1)
    BY <1>1, DivMod DEF IInv, TypeOK, Populated
  <1>3. pos \in 0..W-1 /\ pos \in occ[i] /\ \A k \in occ[i] : pos <= k
    BY <1>2, MinIsLeast DEF FirstPos
  <1> HIDE DEF pos
  <1>4. CycleAt(n) = b * W + pos
    BY DEF CycleAt, pos
  <1>5. b * W + pos \in Nat /\ (b * W + pos) \div W = b /\ (b * W + pos) % W = pos
    BY <1>1, <1>3, DivModUnique
  <1>6. \E e \in Near : e.cycle = CycleAt(n)
    <2>1. PICK o : o \in array[i][pos]
      BY <1>2, <1>3 DEF IInv, Bits
    <2> DEFINE e == [cycle |-> b * W + pos, obj |-> o]
    <2>2. e \in Entries
      BY <1>2, <1>3, <1>5, <2>1 DEF Entries, IInv, TypeOK
    <2>3. Covered(curBlock, b * W + pos)
      <3>1. curBlock <= b /\ b < curBlock + B
        BY <1>1
      <3> HIDE DEF b
      <3> QED
        BY <1>5, <3>1 DEF Covered
    <2>4. o \in At(array, b * W + pos)
      BY <1>5, <2>1 DEF At
    <2>5. e.cycle = b * W + pos /\ e.obj = o
      OBVIOUS
    <2> HIDE DEF e
    <2>6. e \in Near
      BY <1>1, <2>2, <2>3, <2>4, <2>5, NearIsRing, RingOfIs DEF IInv, TypeOK, Rings
    <2> QED
      BY <1>4, <2>5, <2>6
  <1>7. ASSUME NEW e \in Near PROVE CycleAt(n) <= e.cycle
    <2> DEFINE c == e.cycle
               q == c \div W
    <2>1. e \in Entries /\ Covered(curBlock, c) /\ e.obj \in At(array, c)
      BY <1>1, NearIsRing, RingOfIs DEF IInv, TypeOK, Rings
    <2>2. /\ c \in Nat /\ q \in Nat /\ q % B \in 0..B-1 /\ c % W \in 0..W-1
          /\ c = q * W + (c % W)
      BY <2>1, Place DEF Entries
    <2>3. c % W \in occ[q % B]
      BY <2>1, <2>2 DEF IInv, Bits, At
    <2>4. q - curBlock \in Populated(0..B-1)
      <3>1. q \in Nat /\ curBlock <= q /\ q < curBlock + B
        BY <2>1, <2>2 DEF Covered
      <3> HIDE DEF q
      <3>2. q - curBlock \in 0..B-1 /\ curBlock + (q - curBlock) = q
        BY <1>1, <3>1
      <3> QED
        BY <2>3, <3>2 DEF Populated
    <2>5. b <= q
      BY <1>1, <2>2, <2>4
    <2>6. CASE q = b
      <3>1. pos <= c % W
        BY <1>3, <2>3, <2>6
      <3>2. c = b * W + (c % W) /\ b * W \in Nat
        BY <1>1, <2>2, <2>6
      <3> QED
        BY <1>3, <1>4, <2>2, <3>1, <3>2
    <2>7. CASE q # b
      <3>1. b + 1 <= q /\ b + 1 \in Nat
        <4>1. b \in Nat /\ q \in Nat
          BY <1>1, <2>2
        <4> HIDE DEF b, q
        <4> QED
          BY <2>5, <2>7, <4>1
      <3>2. (b + 1) * W <= c
        BY <1>1, <2>2, <3>1, DivMonotone
      <3> HIDE DEF b
      <3>3. (b + 1) * W = b * W + W /\ b * W \in Nat
        BY <1>1
      <3> QED
        BY <1>1, <1>3, <1>4, <2>2, <3>2, <3>3
    <2> QED
      BY <2>6, <2>7
  <1> QED
    BY <1>4, <1>5, <1>6, <1>7

(* A far element is more than half a turn ahead of the current block. *)
LEMMA FarIsAhead == IInv => FarIsBeyondHalf
  <1> SUFFICES ASSUME IInv, NEW f \in feMap PROVE f.cycle \div W > curBlock + half
    BY DEF FarIsBeyondHalf
  <1>1. f.cycle \div W \in Nat /\ curBlock \in Nat /\ B \in Nat
    BY QueueAssumption, Place DEF IInv, TypeOK, Entries
  <1> QED
    BY <1>1, HalfTurn DEF IInv, FarAhead

(* firstCycle is the least cycle of the contents. *)
LEMMA FirstCycleExact == IInv => FirstCycleIsLeast
  <1> SUFFICES ASSUME IInv, Contents # {}
               PROVE  firstCycle = Min({e.cycle : e \in Contents})
    BY DEF FirstCycleIsLeast
  <1> DEFINE All == {e.cycle : e \in Contents}
  <1>1. /\ W \in Nat \ {0} /\ B \in Nat \ {0} /\ curBlock \in Nat
        /\ half \in Nat \ {0} /\ half + half <= B
    BY QueueAssumption, HalfTurn DEF IInv, TypeOK
  <1>2. \A e \in Contents : e \in Entries
    BY <1>1, NearIsRing, RingOfIs DEF IInv, TypeOK, Rings, Contents
  <1>3. All \in SUBSET Nat /\ All # {}
    BY <1>2 DEF Entries
  <1>4. FarCycles \in SUBSET Nat /\ FarCycles \in SUBSET All
    BY <1>2 DEF FarCycles, Contents, Entries
  <1>5. \A e \in Contents : e \in Near \/ e.cycle \in FarCycles
    BY DEF Contents, FarCycles
  <1>6. Populated(0..B-1) \in SUBSET Nat
    BY DEF Populated
  <1>7. CASE Populated(0..half-1) # {}
    <2> DEFINE n == Min(Populated(0..half-1))
    <2>1. n \in Populated(0..half-1) /\ \A k \in Populated(0..half-1) : n <= k
      <3>1. Populated(0..half-1) \in SUBSET Nat
        BY DEF Populated
      <3> QED
        BY <1>7, <3>1, MinIsLeast
    <2> HIDE DEF n
    <2>2. n \in 0..half-1
      BY <2>1 DEF Populated
    <2>3. n \in Populated(0..B-1) /\ \A k \in Populated(0..B-1) : n <= k
      <3>1. n \in Populated(0..B-1)
        BY <1>1, <2>1, <2>2 DEF Populated
      <3>2. \A k \in Populated(0..B-1) : k \in Nat /\ (k < half => k \in Populated(0..half-1))
        BY <1>1 DEF Populated
      <3> QED
        BY <1>1, <2>1, <2>2, <3>1, <3>2
    <2>4. /\ CycleAt(n) \in Nat
          /\ \E e \in Near : e.cycle = CycleAt(n)
          /\ \A e \in Near : CycleAt(n) <= e.cycle
      BY <2>3, CycleAtIsLeast
    <2>5. PICK e \in Near : e.cycle = CycleAt(n)
      BY <2>4
    <2>6. \A c \in FarCycles : CycleAt(n) <= c
      <3> SUFFICES ASSUME NEW f \in feMap PROVE CycleAt(n) <= f.cycle
        BY DEF FarCycles
      <3>1. f.cycle \in Nat /\ f.cycle \div W \in Nat
        BY Place DEF IInv, TypeOK, Entries
      <3>2. curBlock + half <= f.cycle \div W /\ curBlock + half \in Nat
        BY <1>1, <3>1, FarIsAhead DEF FarIsBeyondHalf
      <3>3. (curBlock + half) * W <= f.cycle
        BY <1>1, <3>1, <3>2, DivMonotone
      <3>4. CycleAt(n) < (curBlock + half) * W
        <4> DEFINE i == (curBlock + n) % B
                   pos == FirstPos(i)
        <4>1. pos \in 0..W-1
          <5>1. curBlock + n \in Nat /\ i \in 0..B-1
            BY <1>1, <2>2, DivMod
          <5>2. occ[i] # {} /\ occ[i] \in SUBSET (0..W-1)
            BY <2>3, <5>1 DEF Populated, IInv, TypeOK
          <5> QED
            BY <5>2, MinIsLeast DEF FirstPos
        <4> HIDE DEF pos
        <4> DEFINE k == curBlock + n
        <4>2. k \in Nat /\ k + 1 <= curBlock + half
          BY <1>1, <2>2
        <4>3. CycleAt(n) = k * W + pos
          BY DEF CycleAt, pos
        <4> HIDE DEF k
        <4>4. (k * W + pos) \div W = k /\ k * W + pos \in Nat
          BY <1>1, <4>1, <4>2, DivModUnique
        <4>5. (k * W + pos) \div W < curBlock + half
          BY <1>1, <4>2, <4>4
        <4> QED
          BY <1>1, <3>2, <4>3, <4>4, <4>5, DivMonotone
      <3>5. (curBlock + half) * W \in Nat
        BY <1>1, <3>2
      <3> QED
        BY <2>4, <3>1, <3>3, <3>4, <3>5
    <2>7. CycleAt(n) \in All /\ \A c \in All : CycleAt(n) <= c
      BY <1>5, <2>4, <2>5, <2>6 DEF Contents
    <2>8. Min(All) = CycleAt(n)
      BY <1>3, <2>7, LeastIsMin
    <2> QED
      BY <1>7, <2>8 DEF firstCycle, n
  <1>8. CASE Populated(0..half-1) = {} /\ Populated(half..B-1) # {}
    <2> DEFINE n == Min(Populated(half..B-1))
               S == {CycleAt(n)} \cup FarCycles
    <2>1. n \in Populated(half..B-1) /\ \A k \in Populated(half..B-1) : n <= k
      <3>1. Populated(half..B-1) \in SUBSET Nat
        BY <1>1 DEF Populated
      <3> QED
        BY <1>8, <3>1, MinIsLeast
    <2> HIDE DEF n
    <2>2. n \in Populated(0..B-1) /\ \A k \in Populated(0..B-1) : n <= k
      <3>1. n \in Populated(0..B-1)
        BY <1>1, <2>1 DEF Populated
      <3>2. \A k \in Populated(0..B-1) : k \in Populated(half..B-1)
        BY <1>1, <1>8 DEF Populated
      <3> QED
        BY <2>1, <3>1, <3>2
    <2>3. /\ CycleAt(n) \in Nat
          /\ \E e \in Near : e.cycle = CycleAt(n)
          /\ \A e \in Near : CycleAt(n) <= e.cycle
      BY <2>2, CycleAtIsLeast
    <2>4. S \in SUBSET Nat /\ S # {} /\ S \subseteq All
      BY <1>4, <2>3 DEF Contents
    <2>5. Min(S) \in S /\ \A k \in S : Min(S) <= k
      BY <2>4, MinIsLeast
    <2> DEFINE m == Min(S)
    <2>6. m \in Nat /\ m \in All /\ m <= CycleAt(n) /\ \A c \in FarCycles : m <= c
      BY <2>4, <2>5
    <2> HIDE DEF m
    <2>7. \A c \in All : m <= c
      <3> SUFFICES ASSUME NEW e \in Contents PROVE m <= e.cycle
        OBVIOUS
      <3>1. e.cycle \in Nat
        BY <1>2 DEF Entries
      <3> QED
        BY <1>5, <2>3, <2>6, <3>1
    <2>8. Min(All) = m
      BY <1>3, <2>6, <2>7, LeastIsMin
    <2> QED
      BY <1>8, <2>8 DEF firstCycle, n, m
  <1>9. CASE Populated(0..half-1) = {} /\ Populated(half..B-1) = {}
    <2>1. Near = {}
      <3> SUFFICES ASSUME NEW e \in Near PROVE FALSE
        OBVIOUS
      <3> DEFINE q == e.cycle \div W
      <3>1. e \in Entries /\ Covered(curBlock, e.cycle) /\ e.obj \in At(array, e.cycle)
        BY <1>1, NearIsRing, RingOfIs DEF IInv, TypeOK, Rings
      <3>2. q \in Nat /\ q % B \in 0..B-1 /\ e.cycle % W \in 0..W-1
        BY <3>1, Place DEF Entries
      <3>3. occ[q % B] # {}
        BY <3>1, <3>2 DEF IInv, Bits, At
      <3>4. q - curBlock \in 0..B-1 /\ curBlock + (q - curBlock) = q
        BY <1>1, <3>1, <3>2 DEF Covered
      <3> QED
        BY <1>1, <1>9, <3>3, <3>4 DEF Populated
    <2>2. All = FarCycles
      BY <2>1 DEF Contents, FarCycles
    <2> QED
      BY <1>9, <2>2 DEF firstCycle
  <1> QED
    BY <1>7, <1>8, <1>9

(* The bits, the counter, the place of the far elements and the cycle that   *)
(* firstCycle reports are exact for every number of blocks and cycles per    *)
(* block, between any two turns of dequeue's loop.                           *)
THEOREM NavigationIsExact == Spec => []NavigationExact
  <1>1. Init => IInv
    BY InitIInv
  <1>2. IInv /\ [Next]_vars => IInv'
    BY NextStep
  <1>3. IInv => NavigationExact
    BY FarIsAhead, FirstCycleExact
       DEF IInv, NavigationExact, Accounted, Bits, Counted
  <1> QED
    BY <1>1, <1>2, <1>3, PTL DEF Spec

=============================================================================
