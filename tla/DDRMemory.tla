------------------------------ MODULE DDRMemory ------------------------------
(***************************************************************************)
(* The weave phase of the DDR memory controller: two request queues and an  *)
(* overflow queue, a list per bank in first-ready order, and a scheduling   *)
(* event that issues one column access per tick.  The ACT that the access   *)
(* needs is placed in the past, at the first cycle it could have been       *)
(* issued.  All cycles are memory cycles (see DDRClock).                    *)
(*                                                                         *)
(* One rank.  Column, burst and data are left out.                         *)
(***************************************************************************)
EXTENDS DDRClock, SequencesExt

CONSTANTS
    Banks, Rows,
    QueueDepth, RowHitLimit, ClosedPage,
    WindowSize,         \* ACTs in a tFAW window, 4 in the code
    tBL, tCL, tRCD, tRTP, tRP, tRRD, tRAS, tFAW, tWTR, tWR, tRFC, tREFI,
    MaxReqs, Gaps,      \* bound: requests, and the cycles between two of them
    MaxRefreshes        \* bound

ASSUME DDRAssumption ==
    /\ {QueueDepth, WindowSize, tBL, tCL, tRCD, tRTP, tRP, tRRD, tRAS, tFAW, tWTR, tWR,
        tRFC, tREFI} \subseteq Nat \ {0}
    /\ WindowSize > 1 /\ tRFC >= tRP
    /\ Gaps \cup {RowHitLimit, MaxReqs, MaxRefreshes} \subseteq Nat
    /\ IsFiniteSet(Banks)
    /\ ClosedPage \in BOOLEAN

VARIABLES
    now,
    c,                  \* the controller, a record
    nextSchedCycle,     \* of the scheduling event; Never if none is queued
    refreshes,          \* refreshes done
    arrived             \* requests so far, numbered as they arrive

vars == <<now, c, nextSchedCycle, refreshes, arrived>>

(* -1ul, later than every cycle. *)
Never == -1
Later(schedCycle, cycle) == schedCycle = Never \/ schedCycle > cycle

MaxOf(S) == CHOOSE x \in S : \A y \in S : y <= x
MinOf(S) == CHOOSE x \in S : \A y \in S : x <= y

Init ==
    /\ now = 1 /\ nextSchedCycle = Never /\ refreshes = 0 /\ arrived = 0
    /\ c = [req |-> <<>>,           \* the requests not yet served
            rd |-> <<>>, wr |-> <<>>, overflow |-> <<>>,
            \* the reads and the writes of each bank, in the order they will be served
            list |-> [x \in Banks \X BOOLEAN |-> <<>>],
            bank |-> [b \in Banks |->
                        [open |-> FALSE, openRow |-> 0, minPreCycle |-> 0,
                         lastActCycle |-> 0, lastCmdCycle |-> 0, curRowHits |-> 0]],
            window |-> [i \in 1 .. WindowSize |-> 0],   \* ActWindow, oldest entry first
            minRespCycle |-> tCL + tBL + 1, lastCmdWasWrite |-> FALSE,
            acts |-> <<>>]          \* the cycles of all ACTs
-----------------------------------------------------------------------------
(* ActWindow::addActivation: the oldest entry goes, and the new one is put in order. *)
(* If it is older than all that remain, the loop stops one step too late: it goes to  *)
(* the end, and the newest becomes the oldest.                                       *)
addActivation(w, cycle) ==
    LET rest == Tail(w)
        notAfter == {i \in DOMAIN rest : rest[i] <= cycle}
    IN IF notAfter = {} THEN <<Last(rest)>> \o Front(rest) \o <<cycle>>
       ELSE InsertAt(rest, MaxOf(notAfter) + 1, cycle)

Full(s) == Len(s.rd) = QueueDepth \/ Len(s.wr) = QueueDepth
Empty(s) == s.rd = <<>> /\ s.wr = <<>>
List(s, r) == s.list[<<r.bank, r.write>>]
IsFirst(s, n) == Head(List(s, s.req[n])) = n

(* Where queue() puts a request: first-ready order, up to RowHitLimit in a row. *)
PlaceUncounted(s, r) ==
    LET q == List(s, r)
        same == {i \in DOMAIN q : s.req[q[i]].row = r.row}
    IN [at |-> IF same # {} THEN MaxOf(same) + 1 ELSE Len(q) + 1, seq |-> 0]
Place(s, r) ==
    LET q == List(s, r)
        b == s.bank[r.bank]
        same == {i \in DOMAIN q : s.req[q[i]].row = r.row}
        last == s.req[q[MaxOf(same)]]
    IN IF same # {} /\ last.seq < RowHitLimit
       THEN [at |-> MaxOf(same) + 1, seq |-> last.seq + 1]
       ELSE [at |-> Len(q) + 1,
             seq |-> IF /\ q = <<>> /\ b.open /\ b.openRow = r.row
                        /\ b.curRowHits < RowHitLimit
                     THEN b.curRowHits + 1 ELSE 0]

queue(s, n, cycle) ==
    LET r == s.req[n]
        q == List(s, r)
        p == Place(s, r)
        behind == {q[i] : i \in p.at .. Len(q)}
    IN [s EXCEPT
            !.req = [m \in DOMAIN s.req |->
                        IF m = n THEN [r EXCEPT !.seq = p.seq, !.arrival = cycle,
                                                !.ahead = p.at - 1]
                        ELSE IF m \in behind THEN [s.req[m] EXCEPT !.passed = @ + 1]
                        ELSE s.req[m]],
            !.list[<<r.bank, r.write>>] = InsertAt(q, p.at, n),
            !.rd = IF r.write THEN @ ELSE Append(@, n),
            !.wr = IF r.write THEN Append(@, n) ELSE @]

RowHit(s, r) == s.bank[r.bank].open /\ s.bank[r.bank].openRow = r.row
PreCycle(s, r) ==
    LET b == s.bank[r.bank]
    IN IF b.open THEN MaxOf({r.arrival, b.minPreCycle}) ELSE b.minPreCycle
ActIgnoresWindow(s, r) ==
    MaxOf({r.arrival, PreCycle(s, r) + tRP, s.bank[r.bank].lastActCycle + tRRD})
ActCycle(s, r) ==
    MaxOf({r.arrival, PreCycle(s, r) + tRP, s.bank[r.bank].lastActCycle + tRRD,
           Head(s.window) + tFAW})

findMinCmdCycle(s, r) ==
    IF RowHit(s, r) THEN MaxOf({r.arrival, s.bank[r.bank].lastCmdCycle + 1})
    ELSE ActCycle(s, r) + tRCD
-----------------------------------------------------------------------------
(* Writes go first once their queue is three quarters full, down to a quarter. *)
PrioWrites(s) ==
    \/ Len(s.wr) > (3 * QueueDepth) \div 4
    \/ s.lastCmdWasWrite /\ Len(s.wr) > QueueDepth \div 4

Candidates(s) == IF s.rd = <<>> \/ PrioWrites(s) THEN s.wr ELSE s.rd

(* The second half of trySchedule: issue the column access of the i-th candidate. *)
Issue(s, i, cur) ==
    LET n == Candidates(s)[i]
        r == s.req[n]
        b == s.bank[r.bank]
        q == List(s, r)
        hit == RowHit(s, r)
        act == IF hit THEN b.lastActCycle ELSE ActCycle(s, r)
        cmd == MaxOf({cur, s.minRespCycle - tCL}
                     \cup (IF s.lastCmdWasWrite /\ ~r.write THEN {s.minRespCycle + tWTR} ELSE {})
                     \cup (IF hit THEN {} ELSE {act + tRCD}))
        resp == cmd + tCL + tBL
        pre == IF ~hit /\ b.open THEN PreCycle(s, r) + tRAS ELSE b.minPreCycle
        more == Len(q) > 1 /\ s.req[q[2]].seq # 0
    IN [s EXCEPT
            !.bank[r.bank] =
                [open |-> ~ClosedPage \/ more, openRow |-> r.row,
                 minPreCycle |-> MaxOf({pre, act + tRAS,
                                        IF r.write THEN resp + tWR ELSE cmd + tRTP}),
                 lastActCycle |-> act, lastCmdCycle |-> cmd, curRowHits |-> r.seq],
            !.window = IF hit THEN @ ELSE addActivation(@, act),
            !.acts = IF hit THEN @ ELSE Append(@, act),
            !.minRespCycle = resp, !.lastCmdWasWrite = r.write,
            !.rd = IF r.write THEN @ ELSE RemoveAt(@, i),
            !.wr = IF r.write THEN RemoveAt(@, i) ELSE @,
            !.list[<<r.bank, r.write>>] = Tail(@),
            !.req = [m \in DOMAIN s.req \ {n} |-> s.req[m]]]

trySchedule(s, cur) ==
    LET q == Candidates(s)
        first == {i \in DOMAIN q : IsFirst(s, q[i])}
        minCmd(i) == findMinCmdCycle(s, s.req[q[i]])
        ready == {i \in first : minCmd(i) <= cur}
        d == Issue(s, MinOf(ready), cur)
    IN CASE Empty(s) -> [s |-> s, next |-> Never]
         [] ~Empty(s) /\ cur + tCL < s.minRespCycle -> [s |-> s, next |-> s.minRespCycle - tCL]
         [] ~Empty(s) /\ cur + tCL >= s.minRespCycle /\ ready = {} ->
                [s |-> s, next |-> MinOf({minCmd(i) : i \in first})]
         [] OTHER -> [s |-> d, next |-> IF Empty(d) THEN Never ELSE d.minRespCycle - tCL]
-----------------------------------------------------------------------------
(* The weave runs the domain's events in the order of their cycles. *)
RefreshCycle == 1 + refreshes * tREFI
Before(cycle) ==
    /\ now <= cycle /\ (nextSchedCycle = Never \/ cycle <= nextSchedCycle)
    /\ refreshes < MaxRefreshes => cycle <= RefreshCycle

EarliestStart(s, cycle) == MaxOf({cycle, s.minRespCycle - tCL - tBL})

(* The scheduling event is moved forward if the new request can go earlier. *)
SchedOnlyMoved(s, n, cycle) ==
    IF IsFirst(s, n) /\ nextSchedCycle # Never
    THEN MinOf({nextSchedCycle, MaxOf({cycle, findMinCmdCycle(s, s.req[n])})})
    ELSE nextSchedCycle
SchedAfterEnqueue(s, n, cycle) ==
    LET start == EarliestStart(s, cycle)
        min == MaxOf({start, findMinCmdCycle(s, s.req[n])})
    IN IF IsFirst(s, n) /\ Later(nextSchedCycle, start) /\ Later(nextSchedCycle, min)
       THEN min ELSE nextSchedCycle

enqueue(b, row, write, cycle) ==
    LET n == arrived + 1
        r == [bank |-> b, row |-> row, write |-> write,
              arrival |-> cycle, seq |-> 0, ahead |-> 0, passed |-> 0]
        s == [c EXCEPT !.req = [m \in DOMAIN c.req \cup {n} |-> IF m = n THEN r ELSE c.req[m]]]
    IN /\ n <= MaxReqs /\ Before(cycle)
       /\ now' = cycle /\ arrived' = n
       /\ IF Full(c) THEN /\ c' = [s EXCEPT !.overflow = Append(@, n)]
                          /\ UNCHANGED nextSchedCycle
          ELSE LET d == queue(s, n, cycle)
               IN c' = d /\ nextSchedCycle' = SchedAfterEnqueue(d, n, cycle)
       /\ UNCHANGED refreshes

Refills(s) == ~Full(s) /\ s.overflow # <<>>

(* trySchedule, and one request from the overflow queue if there is room. *)
Ticked(cur) ==
    LET t == trySchedule(c, cur)
        n == Head(t.s.overflow)
        d == queue([t.s EXCEPT !.overflow = Tail(@)], n, cur)
        start == EarliestStart(d, cur)
    IN IF Refills(t.s)
       THEN [s |-> d, next |-> IF IsFirst(d, n) /\ Later(t.next, start) THEN start ELSE t.next]
       ELSE t

TickDue == nextSchedCycle # Never /\ Before(nextSchedCycle)
TickCycle == sysToMemCycle(matchingMemToSysCycle(nextSchedCycle))
tick ==
    /\ TickDue
    /\ now' = TickCycle
    /\ LET t == Ticked(TickCycle) IN c' = t.s /\ nextSchedCycle' = t.next
    /\ UNCHANGED <<refreshes, arrived>>

refresh ==
    LET start == MaxOf({RefreshCycle} \cup {c.bank[b].minPreCycle : b \in Banks}
                                      \cup {c.bank[b].lastCmdCycle : b \in Banks})
    IN /\ refreshes < MaxRefreshes /\ Before(RefreshCycle)
       /\ now' = RefreshCycle /\ refreshes' = refreshes + 1
       /\ c' = [c EXCEPT !.bank = [b \in Banks |-> [c.bank[b] EXCEPT
                    !.open = FALSE, !.minPreCycle = start + tRFC - tRP]]]
       /\ UNCHANGED <<nextSchedCycle, arrived>>

Next ==
    \/ \E b \in Banks, row \in Rows, write \in BOOLEAN, gap \in Gaps :
        enqueue(b, row, write, now + gap)
    \/ tick \/ refresh

Spec == Init /\ [][Next]_vars

(* The weave thread runs every event.  For tick this is weak fairness with its       *)
(* enabling condition written out, which TLC can evaluate.                          *)
FairSpec ==
    /\ Spec /\ WF_vars(refresh)
    /\ []<>~TickDue \/ []<><<tick>>_vars
-----------------------------------------------------------------------------
(* The scheduling event is never behind the clock, the request queues never *)
(* exceed their depth, and no row-hit sequence exceeds its limit.           *)
TypeOK ==
    /\ now \in Nat /\ nextSchedCycle \in Nat \cup {Never}
    /\ nextSchedCycle # Never => now <= nextSchedCycle
    /\ Len(c.rd) <= QueueDepth /\ Len(c.wr) <= QueueDepth
    /\ \A n \in DOMAIN c.req : c.req[n].seq <= RowHitLimit

(* As long as there is a request, in a queue or in the overflow queue, the          *)
(* scheduling event is queued; and only then.                                       *)
SchedulerAwake ==
    /\ Empty(c) => c.overflow = <<>>
    /\ nextSchedCycle = Never <=> Empty(c)

(* The event runs in the memory cycle it was queued for, the assertion of tick().   *)
TicksOnTime == TickDue => TickCycle = nextSchedCycle

(* In the list of its bank, a request is passed by at most RowHitLimit younger ones  *)
(* for each one that was ahead of it.                                               *)
BoundedBypass == \A n \in DOMAIN c.req : c.req[n].passed <= RowHitLimit * c.req[n].ahead

(* No more than WindowSize ACTs of the rank fall into any tFAW cycles, although they  *)
(* are not recorded in order.                                                        *)
ActsSpaced ==
    \A S \in kSubset(WindowSize + 1, DOMAIN c.acts) :
        MaxOf({c.acts[i] : i \in S}) - MinOf({c.acts[i] : i \in S}) >= tFAW

(* Every request is served in the end, the deferred writes too once reads stop.      *)
AllServed == \A n \in 1 .. MaxReqs : n \in DOMAIN c.req ~> n \notin DOMAIN c.req

(* The scheduling event exists exactly while there is work, within queues that    *)
(* keep their depth, and runs in the memory cycle it was queued for.             *)
SchedulerOnTime == TypeOK /\ SchedulerAwake /\ TicksOnTime
=============================================================================
