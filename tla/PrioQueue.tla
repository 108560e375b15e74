------------------------------ MODULE PrioQueue ------------------------------
(***************************************************************************)
(* prio_queue.h: the calendar queue that holds a domain's timing events.    *)
(* A ring of B blocks of W cycles each covers the near future; what lies    *)
(* beyond waits in feMap and is moved into the ring every half turn.        *)
(*                                                                         *)
(* The order of the events of one cycle (a LIFO list in the code) is left   *)
(* open: no user of the queue relies on it.  The queue is used by one       *)
(* thread at a time, so a dequeue, split here at the iterations of its      *)
(* loop, is not interrupted by an enqueue.                                  *)
(***************************************************************************)
EXTENDS FiniteSetsExt

CONSTANTS
    Objs,       \* events
    B,          \* blocks in the ring (1024 in the code)
    W,          \* cycles per block (64 in the code)
    MaxCycle    \* bound: the latest cycle an event is queued for

ASSUME QueueAssumption ==
    /\ IsFiniteSet(Objs)
    /\ B \in Nat /\ B >= 2
    /\ W \in Nat \ {0}
    /\ MaxCycle \in Nat

VARIABLES
    array,      \* blocks[i].array[pos], a set of events
    occ,        \* blocks[i].occ, the set of populated positions
    feMap,      \* far elements with their cycles
    curBlock,
    elems,
    dequeuing,  \* a call of dequeue is in its loop
    curCycle    \* DomainData::curCycle: the cycle of the last event dequeued

vars == <<array, occ, feMap, curBlock, elems, dequeuing, curCycle>>

Entries == [cycle : Nat, obj : Objs]
half == B \div 2

Init ==
    /\ array = [i \in 0..B-1 |-> [pos \in 0..W-1 |-> {}]]
    /\ occ = [i \in 0..B-1 |-> {}]
    /\ feMap = {}
    /\ curBlock = 0
    /\ elems = 0
    /\ dequeuing = FALSE
    /\ curCycle = 0

(* The entries of the ring; block i of it stands for the one absolute block *)
(* of the next B that is i modulo B.                                        *)
Near == UNION {{[cycle |-> (curBlock + n) * W + pos, obj |-> o] :
                   o \in array[(curBlock + n) % B][pos]} :
                 n \in 0..B-1, pos \in 0..W-1}

Contents == Near \cup feMap

(* PQBlock::enqueue, for each of the entries E. *)
ArrayWith(E) ==
    [i \in 0..B-1 |-> [pos \in 0..W-1 |->
       array[i][pos] \cup {e.obj : e \in {f \in E : /\ (f.cycle \div W) % B = i
                                                    /\ f.cycle % W = pos}}]]
OccWith(E) ==
    [i \in 0..B-1 |->
       occ[i] \cup {e.cycle % W : e \in {f \in E : (f.cycle \div W) % B = i}}]

(* The ring covers cycle c. *)
MutInRing(c) == c \div W <= curBlock + B
InRing(c) == c \div W < curBlock + B

(* PrioQueue::enqueue.  ContentionSim queues an event that is not queued     *)
(* already, and asserts that it is not for a cycle that has passed.          *)
enqueue(o, c) ==
    LET e == [cycle |-> c, obj |-> o]
    IN  /\ ~dequeuing
        /\ c >= curCycle
        /\ \A f \in Contents : f.obj # o
        /\ IF InRing(c)
           THEN /\ array' = ArrayWith({e})
                /\ occ' = OccWith({e})
                /\ UNCHANGED feMap
           ELSE /\ feMap' = feMap \cup {e}
                /\ UNCHANGED <<array, occ>>
        /\ elems' = elems + 1
        /\ UNCHANGED <<curBlock, dequeuing, curCycle>>

dequeue ==
    /\ ~dequeuing
    /\ elems > 0
    /\ dequeuing' = TRUE
    /\ UNCHANGED <<array, occ, feMap, curBlock, elems, curCycle>>

(* The far elements that the step of curBlock to b brings into the ring. *)
Moved(b) == IF b % half = 0 THEN {f \in feMap : f.cycle < (b + B) * W} ELSE {}

(* One iteration of dequeue's loop: the current block is empty.  Bounded by  *)
(* the last block in use, which a dequeue with an event to find never leaves. *)
nextBlock ==
    /\ dequeuing
    /\ occ[curBlock % B] = {}
    /\ curBlock <= MaxCycle \div W
    /\ curBlock' = curBlock + 1
    /\ array' = ArrayWith(Moved(curBlock'))
    /\ occ' = OccWith(Moved(curBlock'))
    /\ feMap' = feMap \ Moved(curBlock')
    /\ UNCHANGED <<elems, dequeuing, curCycle>>

(* The position of the block that PQBlock::dequeue takes an event from. *)
FirstPos(i) == Min(occ[i])

(* PQBlock::dequeue clears the position's bit with the last of its events. *)
MutOccWithout(i, pos, rest) == [occ EXCEPT ![i] = @ \ {pos}]
OccWithout(i, pos, rest) ==
    [occ EXCEPT ![i] = IF rest = {} THEN @ \ {pos} ELSE @]

(* The end of dequeue: the first event of the first populated block. *)
takeFirst(o) ==
    LET i    == curBlock % B
        pos  == FirstPos(i)
        rest == array[i][pos] \ {o}
    IN  /\ dequeuing
        /\ occ[i] # {}
        /\ o \in array[i][pos]
        /\ array' = [array EXCEPT ![i][pos] = rest]
        /\ occ' = OccWithout(i, pos, rest)
        /\ elems' = elems - 1
        /\ curCycle' = curBlock * W + pos
        /\ dequeuing' = FALSE
        /\ UNCHANGED <<feMap, curBlock>>

(* PrioQueue::firstCycle. *)
Populated(S) == {n \in S : occ[(curBlock + n) % B] # {}}
CycleAt(n) == (curBlock + n) * W + FirstPos((curBlock + n) % B)
FarCycles == {f.cycle : f \in feMap}

MutFirstCycle ==        \* the ring searched before the far elements
    IF Populated(0..B-1) # {} THEN CycleAt(Min(Populated(0..B-1))) ELSE Min(FarCycles)
firstCycle ==
    IF Populated(0..half-1) # {}
    THEN CycleAt(Min(Populated(0..half-1)))
    ELSE IF Populated(half..B-1) # {}
         THEN Min({CycleAt(Min(Populated(half..B-1)))} \cup FarCycles)
         ELSE Min(FarCycles)

Next ==
    \/ \E o \in Objs, c \in 0..MaxCycle : enqueue(o, c)
    \/ dequeue
    \/ nextBlock
    \/ \E o \in Objs : takeFirst(o)

Spec == Init /\ [][Next]_vars

(* A dequeue that has begun is carried on by its thread. *)
FairSpec == Spec /\ WF_vars(nextBlock) /\ \A o \in Objs : WF_vars(takeFirst(o))

-----------------------------------------------------------------------------
(* The ring, its occupancy bits, the far map and the clock hold what their *)
(* types say.                                                              *)
TypeOK ==
    /\ array \in [0..B-1 -> [0..W-1 -> SUBSET Objs]]
    /\ occ \in [0..B-1 -> SUBSET (0..W-1)]
    /\ feMap \in SUBSET Entries
    /\ curBlock \in Nat
    /\ elems \in Nat
    /\ dequeuing \in BOOLEAN
    /\ curCycle \in Nat

(* The bits and the counter that the queue navigates by agree with what it   *)
(* holds: a populated position has its bit, an empty one has not, and size() *)
(* counts the ring and the far elements together.                            *)
Accounted ==
    /\ \A i \in 0..B-1, pos \in 0..W-1 : pos \in occ[i] <=> array[i][pos] # {}
    /\ elems = Cardinality(Contents)

(* Whatever the position of curBlock between two moves, a far element lies   *)
(* more than half a turn ahead: firstCycle may ignore feMap in the first     *)
(* half of the ring and the asserts of dequeue's move hold.                  *)
FarIsBeyondHalf == \A f \in feMap : f.cycle \div W > curBlock + half

(* firstCycle, which decides whether a phase is over and what cycle the      *)
(* domain shows to the others, is the cycle that dequeue will return.        *)
FirstCycleIsLeast ==
    Contents # {} => firstCycle = Min({e.cycle : e \in Contents})

(* What the queue navigates by agrees with what it holds: bits and counter, the   *)
(* place of far elements, and the cycle firstCycle reports to the domain.        *)
NavigationExact == TypeOK /\ Accounted /\ FarIsBeyondHalf /\ FirstCycleIsLeast

(* The ring and the far map together behave as one queue ordered by cycle. *)
Abstract == INSTANCE EventQueue WITH pending <- Contents, Cycles <- 0..MaxCycle

(* Every step of the queue is a step of the abstract one, or none. *)
ImplementsEventQueue == Abstract!Spec

(* dequeue's loop reaches a populated block. *)
DequeueEnds == dequeuing ~> ~dequeuing
=============================================================================
