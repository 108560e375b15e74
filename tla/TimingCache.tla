----------------------------- MODULE TimingCache -----------------------------
(***************************************************************************)
(* The weave-phase model of a cache: its MSHRs, the queue of what waits for  *)
(* one, and its port.  Lookups of hits and misses have priority; the        *)
(* writeback that ends a miss, and the lookups of a replacement, take the    *)
(* slot of the previous cycle if it was free, or try again a cycle later.    *)
(*                                                                         *)
(* The events of one domain run in the order of their cycles.  What a miss   *)
(* does below this cache is a number of cycles.                             *)
(***************************************************************************)
EXTENDS Integers, FiniteSetsExt, TLC

CONSTANTS
    Reqs,           \* requests, numbered as the bound phase records them
    NumMSHRs,       \* at least 1
    AccLat,         \* of this cache, at least 1
    Delays,         \* cycles a miss spends below this cache
    ReplAccs,       \* lookups of a replacement
    Gaps            \* bound: how far ahead of the weave a request may be recorded

VARIABLES
    now,            \* the domain's cycle
    queued,         \* the cycle of each queued event; an event is <<kind, request>>
    pending,        \* pendingQueue: events held until an MSHR is free
    active,         \* activeMisses
    lastAcc, lastFree,
    miss,           \* per miss in progress: replacement lookups left, cycle of its response
    done,           \* requests that have finished
    used, clash     \* slots of the port taken of late; was one taken twice?

vars == <<now, queued, pending, active, lastAcc, lastFree, miss, done, used, clash>>

Init ==
    /\ now = 1 /\ queued = <<>> /\ pending = {}
    /\ active = 0 /\ lastAcc = 0 /\ lastFree = 0
    /\ miss = <<>> /\ done = {} /\ used = {} /\ clash = FALSE

Drop(f, S) == [x \in DOMAIN f \ S |-> f[x]]

(* The domain runs an event of the earliest cycle. *)
Run(e) ==
    /\ e \in DOMAIN queued /\ \A f \in DOMAIN queued : queued[e] <= queued[f]
    /\ now' = queued[e]

(* The port serves one lookup per cycle. *)
Serve(slot, c) ==
    /\ clash' = (clash \/ slot \in used)
    /\ used' = {s \in used \cup {slot} : s >= c - 1}
PortIdle == UNCHANGED <<lastAcc, lastFree, used, clash>>

LookupCycle(c) == Max({c, lastAcc + 1})
highPrioAccess(c) ==
    /\ lastFree' = IF lastAcc < c - 1 THEN c - 1 ELSE lastFree
    /\ lastAcc' = LookupCycle(c)
    /\ Serve(LookupCycle(c), c)

SlotFree(c) == lastAcc < c - 1 \/ lastFree = c - 1
lowPrioAccess(c) ==
    /\ lastFree' = 0
    /\ lastAcc' = Max({c - 1, lastAcc})
    /\ Serve(c - 1, c)
-----------------------------------------------------------------------------
(* A request that the bound phase records. *)
Recorded(r) == r \in done \/ r \in DOMAIN miss \/
               \E k \in {"hit", "miss"} : <<k, r>> \in DOMAIN queued \cup pending
Record(r, kind, gap) ==
    /\ r = Cardinality({q \in Reqs : Recorded(q)}) + 1
    /\ queued' = (<<kind, r>> :> now + gap) @@ queued
    /\ UNCHANGED <<now, pending, active, lastAcc, lastFree, miss, done, used, clash>>

HasMSHR == active < NumMSHRs

Hold(e) ==
    /\ ~HasMSHR /\ Run(e)
    /\ queued' = Drop(queued, {e})
    /\ pending' = pending \cup {e}
    /\ UNCHANGED <<active, miss, done>> /\ PortIdle

Hit(r) ==
    LET e == <<"hit", r>>
    IN /\ HasMSHR /\ Run(e)
       /\ highPrioAccess(queued[e])
       /\ queued' = Drop(queued, {e})
       /\ done' = done \cup {r}
       /\ UNCHANGED <<pending, active, miss>>

(* The writeback follows the response, and the replacement if there is one. *)
MissStart(r, delay, accs) ==
    LET e == <<"miss", r>>
        t == LookupCycle(queued[e]) + AccLat
    IN /\ HasMSHR /\ Run(e)
       /\ highPrioAccess(queued[e])
       /\ active' = active + 1
       /\ miss' = (r :> [left |-> accs, resp |-> t + delay]) @@ miss
       /\ queued' = (IF accs = 0 THEN <<"wb", r>> :> t + delay ELSE <<"repl", r>> :> t)
                   @@ Drop(queued, {e})
       /\ UNCHANGED <<pending, done>>

ReplAccess(r) ==
    LET e == <<"repl", r>>
        c == queued[e]
    IN /\ Run(e)
       /\ IF SlotFree(c)
          THEN /\ lowPrioAccess(c)
               /\ miss' = [miss EXCEPT ![r].left = @ - 1]
               /\ queued' = IF miss[r].left > 1 THEN [queued EXCEPT ![e] = c + 1]
                           ELSE (<<"wb", r>> :> Max({c, miss[r].resp})) @@ Drop(queued, {e})
          ELSE queued' = [queued EXCEPT ![e] = c + 1] /\ PortIdle /\ UNCHANGED miss
       /\ UNCHANGED <<pending, active, done>>

(* The end of a miss frees its MSHR, and everything that waited for one is tried *)
(* again in the next cycle.                                                     *)
WakesOne == IF pending = {} THEN {} ELSE {CHOOSE e \in pending : TRUE}
Woken == pending
Requeued == Woken
Freed == active - 1

MissWriteback(r) ==
    LET e == <<"wb", r>>
        c == queued[e]
    IN /\ Run(e)
       /\ IF SlotFree(c)
          THEN /\ lowPrioAccess(c)
               /\ active' = Freed
               /\ queued' = [f \in Requeued |-> c + 1] @@ Drop(queued, {e})
               /\ pending' = pending \ Woken
               /\ miss' = Drop(miss, {r})
               /\ done' = done \cup {r}
          ELSE /\ queued' = [queued EXCEPT ![e] = c + 1]
               /\ PortIdle /\ UNCHANGED <<active, pending, miss, done>>

Step ==
    \E r \in Reqs :
        \/ Hold(<<"hit", r>>) \/ Hold(<<"miss", r>>) \/ Hit(r)
        \/ \E delay \in Delays, accs \in ReplAccs : MissStart(r, delay, accs)
        \/ ReplAccess(r) \/ MissWriteback(r)

Next ==
    \/ \E r \in Reqs, kind \in {"hit", "miss"}, gap \in Gaps : Record(r, kind, gap)
    \/ Step

Spec == Init /\ [][Next]_vars

(* The weave thread goes on while its domain has events. *)
FairSpec == Spec /\ WF_vars(Step)
-----------------------------------------------------------------------------
(* No event is queued behind the clock and no more misses are active than *)
(* there are MSHRs.                                                       *)
TypeOK ==
    /\ {now, active, lastAcc, lastFree} \subseteq Nat
    /\ \A e \in DOMAIN queued : queued[e] >= now
    /\ active <= NumMSHRs

(* activeMisses counts the misses between start and writeback, however often each  *)
(* was held or requeued: no MSHR leaks and none is freed twice.                    *)
MSHRsExact == active = Cardinality(DOMAIN miss)

(* Nothing is held while an MSHR is free: only the end of a miss looks at the      *)
(* queue, and a miss it has woken may be held again.                              *)
HeldOnlyIfFull == pending # {} => active = NumMSHRs

(* The port serves one lookup per cycle, though low-priority lookups are granted   *)
(* after the fact, from two registers.                                            *)
PortServesOne == ~clash

(* Every recorded request finishes: misses do not wait for MSHRs for ever, nor     *)
(* writebacks for the port.                                                       *)
AllServed == \A r \in Reqs, k \in {"hit", "miss"} : <<k, r>> \in DOMAIN queued ~> r \in done
=============================================================================
