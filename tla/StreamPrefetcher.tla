-------------------------- MODULE StreamPrefetcher --------------------------
(***************************************************************************)
(* The stream prefetcher between two cache levels.  An entry follows the    *)
(* reads to one page: a stride, a confidence counter, and how far it has    *)
(* prefetched.  Positions and strides are machine words, and the depth of   *)
(* the prefetches is an unsigned division.                                  *)
(*                                                                         *)
(* invalidate() takes no lock, so its write of the entry's valid bits races *)
(* with the accesses.  Which entry is the oldest is left open.              *)
(***************************************************************************)
EXTENDS Integers, FiniteSetsExt, TLC

CONSTANTS
    Entries, Pages,
    Lines,              \* kLinesPerEntry, less than half of Word
    Word,               \* one more than the largest unsigned word, 2^32 in the code
    Warm,               \* 500 in the code
    Cycles,             \* bound: cycles of the requests
    Lats,               \* bound: latencies of the level above
    ReqPos,             \* bound: lines that are read
    InvPos              \* bound: lines that invalidations come for

None == "none"

VARIABLES
    tag,                \* the page of each entry
    array,              \* the entries
    inv                 \* an invalidation between its read and its write of the valid bits

vars == <<tag, array, inv>>

(* An entry as alloc() leaves it.  valid gives, for the lines whose bit is set, the  *)
(* cycle of their prefetch.                                                         *)
Blank(pos, cycle) ==
    [stride |-> 1, conf |-> 1, lastPos |-> pos, lastLastPos |-> 0, lastPrefetchPos |-> 0,
     valid |-> <<>>, lastCycle |-> cycle]

Init ==
    /\ tag = [i \in Entries |-> None]
    /\ array = [i \in Entries |-> Blank(0, 0)]
    /\ inv = {}
-----------------------------------------------------------------------------
(* uint32_t and int32_t of an integer *)
Unsigned(x) == x % Word
Signed(x) == LET u == Unsigned(x) IN IF u < Word \div 2 THEN u ELSE u - Word

Distance(x) == Max({x, -x})

AbsoluteDepth(e, stride) == Distance(e.lastPrefetchPos - e.lastPos) \div Distance(stride)
fetchDepth(e, stride) ==
    Signed(Unsigned(e.lastPrefetchPos - e.lastPos) \div Unsigned(stride))

(* Go on from the last prefetch, or from here if that has been overtaken. *)
NextPrefetch(e, pos, stride) ==
    Unsigned((IF fetchDepth(e, stride) < 1 THEN pos ELSE e.lastPrefetchPos) + stride)

Pred(e) == e.conf >= 2
Without(valid, pos) == [p \in DOMAIN valid \ {pos} |-> valid[p]]

(* 1. A prefetched line that is now demanded is no longer prefetched.  Nothing looks  *)
(* at the cycle of its response before this, so its latency is drawn here.            *)
AfterHit(e, pos, resp, pfLat) ==
    IF pos \in DOMAIN e.valid
    THEN [e EXCEPT !.valid = Without(@, pos),
                   !.lastCycle = Max({@, resp, e.valid[pos] + pfLat})]
    ELSE e

(* 2. The predictors. *)
SwitchesStride(e, pos) ==
    /\ pos # e.lastPos
    /\ pos - e.lastPos = e.lastPos - e.lastLastPos
Restarted(e, pos) == pos

Trained(e, pos) ==
    IF pos - e.lastPos = e.stride
    THEN [e EXCEPT !.conf = Min({@ + 1, 3})]
    ELSE LET less == [e EXCEPT !.conf = Max({@ - 1, 0}), !.lastPrefetchPos = Restarted(e, pos)]
         IN IF ~Pred(less) /\ SwitchesStride(e, pos)
            THEN [less EXCEPT !.conf = 1, !.stride = pos - e.lastPos] ELSE less

(* 3. At most one prefetch, of the same page. *)
Prefetch(e, pos, cycle) ==
    LET p == NextPrefetch(e, pos, e.stride)
    IN IF /\ pos - e.lastPos = e.stride /\ Pred(e)
          /\ p < Lines /\ p \notin DOMAIN e.valid
       THEN [e EXCEPT !.lastPrefetchPos = p,
                      !.valid = (p :> cycle) @@ @]
       ELSE e

AccessHit(i, pos, cycle, lat, pfLat) ==
    LET e == Trained(AfterHit(array[i], pos, cycle + lat, pfLat), pos)
        f == Prefetch(e, pos, cycle)
    IN /\ array' = [array EXCEPT ![i] = [f EXCEPT !.lastLastPos = e.lastPos, !.lastPos = pos]]
       /\ UNCHANGED <<tag, inv>>

(* A miss takes an entry whose prefetches are not still to come, if there is one. *)
AccessMiss(page, pos, cycle) ==
    /\ \A i \in Entries : tag[i] # page
    /\ \/ \E i \in Entries :
            /\ array[i].lastCycle <= cycle + Warm
            /\ tag' = [tag EXCEPT ![i] = page]
            /\ array' = [array EXCEPT ![i] = Blank(pos, cycle)]
       \/ /\ \A i \in Entries : array[i].lastCycle > cycle + Warm
          /\ UNCHANGED <<tag, array>>
    /\ UNCHANGED inv

(* INV or INVX of a line: the valid bits are one word, read and written back while *)
(* an access may change them.  An access between may also overwrite the write.     *)
InvalidateRead(i, pos) ==
    /\ inv = {} /\ pos \in DOMAIN array[i].valid
    /\ inv' = {[entry |-> i, valid |-> Without(array[i].valid, pos)]}
    /\ UNCHANGED <<tag, array>>
InvalidateWrite(w) ==
    /\ inv' = {}
    /\ \/ array' = [array EXCEPT ![w.entry].valid =
                        [p \in DOMAIN w.valid |-> (@ @@ w.valid)[p]]]
       \/ UNCHANGED array
    /\ UNCHANGED tag

Next ==
    \/ \E page \in Pages, pos \in ReqPos, cycle \in Cycles :
        \/ AccessMiss(page, pos, cycle)
        \/ \E i \in Entries, lat, pfLat \in Lats :
            tag[i] = page /\ AccessHit(i, pos, cycle, lat, pfLat)
    \/ \E i \in Entries, pos \in InvPos : InvalidateRead(i, pos)
    \/ \E w \in inv : InvalidateWrite(w)

Spec == Init /\ [][Next]_vars
-----------------------------------------------------------------------------
(* The stride is never zero: fetchDepth divides by it. *)
TypeOK ==
    /\ tag \in [Entries -> Pages \cup {None}]
    /\ \A i \in Entries : array[i].stride # 0 /\ array[i].conf \in 0 .. 3

(* What a step prefetches of entry i's page: a line whose bit an access sets. *)
Prefetched(i) == IF tag'[i] = tag[i] /\ inv' = inv
                 THEN DOMAIN array'[i].valid \ DOMAIN array[i].valid ELSE {}

(* The stream has gone past its last prefetch, and the unsigned division makes    *)
(* that a huge depth.                                                           *)
Overtaken(e) == e.stride >= 2 /\ e.lastPos > e.lastPrefetchPos

(* A prefetch is for the next line of the stream, whatever its stride and however   *)
(* accesses, changes of stride and invalidations have followed each other.  The     *)
(* exception is an ascending stream of stride two or more that has overtaken its    *)
(* prefetches: those are for lines a whole number of strides behind it, and it stays *)
(* so, for as long as the stride lasts.                                            *)
NextLineOrBehind == [][
    \A i \in Entries : \A p \in Prefetched(i) :
        LET ahead == p - array'[i].lastPos
            stride == array[i].stride
        IN  IF Overtaken(array[i])
            THEN ahead < 0 /\ ahead % stride = 0 /\ Overtaken(array'[i])
            ELSE ahead = stride
    ]_vars
=============================================================================
