----------------------------- MODULE EventQueue -----------------------------
(***************************************************************************)
(* What a domain of the contention simulator needs of its event queue: the  *)
(* events come out in cycle order, each once and with the cycle it was put   *)
(* in for.  This is the promise; PrioQueue implements it.                    *)
(***************************************************************************)
EXTENDS Naturals

CONSTANTS Objs, Cycles

VARIABLES
    pending,        \* the queued events, with their cycles
    curCycle        \* the cycle the domain has reached

Entries == [cycle : Cycles, obj : Objs]

Init == pending = {} /\ curCycle = 0

(* Events are never queued in the past and never twice at a time. *)
Enqueue(o, c) ==
    /\ c >= curCycle
    /\ \A e \in pending : e.obj # o
    /\ pending' = pending \cup {[cycle |-> c, obj |-> o]}
    /\ UNCHANGED curCycle

(* An event of the least cycle leaves, and time moves there. *)
Dequeue(e) ==
    /\ e \in pending
    /\ \A f \in pending : e.cycle <= f.cycle
    /\ pending' = pending \ {e}
    /\ curCycle' = e.cycle

Next == \/ \E o \in Objs, c \in Cycles : Enqueue(o, c)
        \/ \E e \in pending : Dequeue(e)

Spec == Init /\ [][Next]_<<pending, curCycle>>
=============================================================================
