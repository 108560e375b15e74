--------------------------- MODULE ContentionSim ---------------------------
(***************************************************************************)
(* The weave phase: events in several domains, simulated by one thread per  *)
(* group of domains, with crossings between domains that are ordered only   *)
(* by what one thread reads of another's clock.                             *)
(*                                                                         *)
(* A transaction t is the chain a cache miss leaves behind: P (the core's    *)
(* event, in its domain), the crossing X, C (the access, in the memory's       *)
(* domain) and, for a GET, the crossing Y back and the response R.  A core's *)
(* next transaction hangs from its last response.  The event queues are     *)
(* those of EventQueue: an event of the least cycle leaves first.           *)
(*                                                                         *)
(* A crossing's doneCycle and called are written in this order and read in  *)
(* the opposite one, on a TSO machine: markSrcEventDone is one step here.   *)
(***************************************************************************)
EXTENDS Naturals, Sequences, SequencesExt

CONSTANTS
    Domains, Threads,
    Owners,                 \* the set-ups: functions domain -> the thread that simulates it
    Txs,                    \* the transactions, 1..n
    Core, SrcDom, DstDom,   \* of a transaction
    Types, Gaps, PreDelays, PostDelays, Waits,\* what a transaction chooses from
    BoundLat,               \* the latency the bound phase assumed
    PhaseLength,
    MaxPhases, MaxRecords    \* bounds: phases, and transactions recorded in one of them

(* A core has one domain (its L1 caches'), so its transactions have one source. *)
ASSUME ContentionAssumption ==
    /\ IsFiniteSet(Domains) /\ Owners \subseteq [Domains -> Threads]
    /\ PhaseLength \in Nat \ {0} /\ MaxPhases \in Nat /\ MaxRecords \in Nat /\ BoundLat \in Nat
    /\ Gaps \cup PreDelays \cup PostDelays \cup Waits \subseteq Nat
    /\ SrcDom \in [Txs -> Domains] /\ DstDom \in [Txs -> Domains]
    /\ \A t \in Txs : SrcDom[t] # DstDom[t]
    /\ \A t, u \in Txs : Core[t] = Core[u] => SrcDom[t] = SrcDom[u]

VARIABLES
    owner,          \* the set-up of this execution
    ev,             \* the events
    dom,            \* per domain: curCycle, prio and queuePrio
    th,             \* per thread: where it is, and its two kinds of queues of domains
    limit, lastLimit,
    lock,           \* [wake, wait]: the futexes of the phase handshake, TRUE when free
    threadsDone,
    rec,            \* per core: its last response, that one's bound cycle, its slack
    lastCrossing    \* per <<core, source, destination>>: the last request crossing

vars == <<owner, ev, dom, th, limit, lastLimit, lock, threadsDone, rec, lastCrossing>>

Events == Txs \X {"P", "X", "C", "Y", "R"}
NoEvent == <<0, "-">>
IsCrossing(e) == e[2] \in {"X", "Y"}
Cores == {Core[t] : t \in Txs}
Domain(e) == IF e[2] \in {"X", "C"} THEN DstDom[e[1]] ELSE SrcDom[e[1]]
Source(x) == IF x[2] = "X" THEN SrcDom[x[1]] ELSE DstDom[x[1]]
Owned(i) == {d \in Domains : owner[d] = i}
SimThreads == {owner[d] : d \in Domains}

(* The crossing that takes e's place among its parent's children: the parent's *)
(* end marks it (CrossingSrcEvent).                                             *)
MarkedBy(e) == CASE e[2] = "P" -> <<e[1], "X">>
                 [] e[2] = "C" -> <<e[1], "Y">>
                 [] OTHER -> NoEvent

Fresh == [state |-> "free", cycle |-> 0, at |-> 0, parents |-> 0, minStart |-> 0,
          pre |-> 0, post |-> 0, kids |-> {},
          called |-> FALSE, doneCycle |-> 0, entry |-> 0, rel |-> 0]

Idle == [pc |-> "idle", te |-> NoEvent, rd |-> 0, fast |-> TRUE,
         domPq |-> {}, stalled |-> << >>, next |-> << >>]

Queued(d) == {e \in Events : ev[e].state = "queued" /\ Domain(e) = d}
FirstCycle(d) == Min({ev[e].at : e \in Queued(d)})
Greater(a, b) == IF a > b THEN a ELSE b
-----------------------------------------------------------------------------
Init ==
    /\ owner \in Owners
    /\ ev = [e \in Events |-> Fresh]
    /\ dom = [d \in Domains |-> [curCycle |-> 0, prio |-> 0, queuePrio |-> 0]]
    /\ th = [i \in Threads |-> Idle]
    /\ limit = 0 /\ lastLimit = 0
    /\ lock = [wake |-> {}, wait |-> FALSE]
    /\ threadsDone = 0
    /\ rec = [c \in Cores |-> [tail |-> NoEvent, resp |-> 0, slack |-> 0]]
    /\ lastCrossing = [k \in {<<Core[t], SrcDom[t], DstDom[t]>> : t \in Txs} |->
                          [cycle |-> 0, ev |-> NoEvent]]

InCSim == limit > lastLimit

(* May a request crossing at cycle c be put behind the last one of its kind?   *)
(* Only while that one cannot have been simulated yet.                         *)
ChainsEarly(k, c) == /\ lastCrossing[k].ev # NoEvent
                     /\ lastCrossing[k].cycle >= dom[k[2]].curCycle
                     /\ lastCrossing[k].cycle <= c
Chains(k, c) == /\ lastCrossing[k].cycle > dom[k[2]].curCycle
                /\ lastCrossing[k].cycle <= c

(* Delay stealing: a crossing's slack before it is its parent's post-delay, at *)
(* least one cycle.                                                            *)
NoPreSlack(post) == post
PreSlack(post) == IF post = 0 THEN 1 ELSE post

PostSlack(x) == IF x[2] = "X" THEN ev[<<x[1], "C">>].pre ELSE 0
Slack(x) == PreSlack(ev[IF x[2] = "X" THEN <<x[1], "P">> ELSE <<x[1], "C">>].post)
                + PostSlack(x)

(* A crossing may start its parent's post-delay after its parent. *)
CrossingStart(parentStart, postDelay) == parentStart + PreSlack(postDelay)

(* What MaxRecords bounds. *)
RecordedThisPhase ==
    {u \in Txs : ev[<<u, "P">>].state # "free" /\ ev[<<u, "P">>].minStart >= lastLimit}

(* recordAccess and produceCrossings: the events of t, linked, with X enqueued *)
(* or chained behind the last request crossing, and Y a child of P.            *)
Record(t, type, gap, pre, post) ==
    LET c == Core[t]
        k == <<c, SrcDom[t], DstDom[t]>>
        m == Greater(lastLimit, rec[c].resp)
        tailOpen == rec[c].tail # NoEvent /\ ev[rec[c].tail].state # "done"
        xc == Greater(lastLimit, CrossingStart(m, gap))
        my == CrossingStart(m + gap, post)
        chained == Chains(k, xc)
        Ev(st, n, ms, pr, po, ks) ==
            [Fresh EXCEPT !.state = st, !.parents = n, !.minStart = ms, !.pre = pr,
                          !.post = po, !.kids = ks, !.at = ms, !.entry = ms]
        put == type = "PUT"
    IN  /\ ~InCSim
        /\ m < lastLimit + PhaseLength /\ Cardinality(RecordedThisPhase) < MaxRecords
        /\ \A u \in Txs : u < t => ev[<<u, "P">>].state # "free"
        /\ ev[<<t, "P">>].state = "free"
        /\ ev' = [e \in Events |->
              CASE e = <<t, "P">> -> Ev(IF tailOpen THEN "none" ELSE "queued",
                                        IF tailOpen THEN 1 ELSE 0, m, 0, gap,
                                        IF put THEN {} ELSE {<<t, "Y">>})
                [] e = <<t, "X">> -> Ev(IF chained THEN "none" ELSE "queued",
                                        IF chained THEN 1 ELSE 0, xc, 0, 0, {<<t, "C">>})
                [] e = <<t, "C">> -> Ev("none", 1, m + gap, pre, post, {})
                [] e = <<t, "Y">> /\ ~put -> Ev("none", 1, my, 0, 0, {<<t, "R">>})
                [] e = <<t, "R">> /\ ~put -> Ev("none", 1, m + gap + BoundLat, 0, 0, {})
                [] OTHER ->
                    IF tailOpen /\ e = rec[c].tail
                    THEN [ev[e] EXCEPT !.kids = @ \cup {<<t, "P">>}]
                    ELSE IF chained /\ e = lastCrossing[k].ev
                    THEN [ev[e] EXCEPT !.kids = @ \cup {<<t, "X">>}]
                    ELSE ev[e]]
        /\ lastCrossing' = [lastCrossing EXCEPT ![k] = [cycle |-> xc, ev |-> <<t, "X">>]]
        /\ rec' = IF put THEN rec
                  ELSE [rec EXCEPT ![c].tail = <<t, "R">>,
                                   ![c].resp = m + gap + BoundLat]
        /\ UNCHANGED <<owner, dom, th, limit, lastLimit, lock, threadsDone>>

(* simulatePhase: up to the wait, and from it. *)
StartPhase ==
    /\ ~InCSim
    /\ lastLimit < MaxPhases * PhaseLength
    /\ limit' = lastLimit + PhaseLength
    /\ lock' = [lock EXCEPT !.wake = SimThreads]
    /\ UNCHANGED <<owner, ev, dom, th, lastLimit, threadsDone, rec, lastCrossing>>

EndPhase ==
    /\ lock.wait
    /\ lock' = [lock EXCEPT !.wait = FALSE]
    /\ lastLimit' = limit
    /\ UNCHANGED <<owner, ev, dom, th, limit, threadsDone, rec, lastCrossing>>
-----------------------------------------------------------------------------
(* simThreadLoop *)
Wake(i) ==
    /\ th[i].pc = "idle" /\ i \in lock.wake
    /\ lock' = [lock EXCEPT !.wake = @ \ {i}]
    /\ th' = [th EXCEPT ![i] = [Idle EXCEPT !.pc = "loop", !.domPq = Owned(i)]]
    /\ UNCHANGED <<owner, ev, dom, limit, lastLimit, threadsDone, rec, lastCrossing>>

LastThread == threadsDone + 1 = Cardinality(SimThreads)
DoneCount == IF LastThread THEN 0 ELSE threadsDone + 1
ThreadDone(i) ==
    /\ th[i].pc = "done"
    /\ th' = [th EXCEPT ![i] = Idle]
    /\ threadsDone' = DoneCount
    /\ lock' = IF LastThread THEN [lock EXCEPT !.wait = TRUE] ELSE lock
    /\ UNCHANGED <<owner, ev, dom, limit, lastLimit, rec, lastCrossing>>

(* A thread with one domain stops before the limit, one with several after it. *)
Alone(i) == Cardinality(Owned(i)) = 1
PhaseOverEarly(i, d) == Queued(d) # {} => FirstCycle(d) + 1 >= limit
PhaseOver(i, d) ==
    Queued(d) # {} => IF Alone(i) THEN FirstCycle(d) >= limit ELSE FirstCycle(d) > limit

(* The domain the thread takes next: one of the least queuePrio, else the one  *)
(* stalled last.                                                               *)
Candidates(i) ==
    IF th[i].domPq # {}
    THEN {d \in th[i].domPq : \A f \in th[i].domPq : dom[d].queuePrio <= dom[f].queuePrio}
    ELSE {Last(th[i].stalled)}

(* Taking d from the queues of domains; a domain put back goes into domPq, or  *)
(* by its prio among the stalled ones.  When none is left of those, the domains *)
(* stalled again take their turn.                                              *)
Taken(r, d) == [r EXCEPT !.domPq = @ \ {d},
                         !.stalled = IF r.domPq # {} THEN @ ELSE Front(@),
                         !.fast = r.domPq # {}]
PutBack(r, d) ==
    IF dom[d].prio = 0 THEN [r EXCEPT !.domPq = @ \cup {d}]
    ELSE IF r.fast THEN [r EXCEPT !.stalled = Append(@, d)]
    ELSE [r EXCEPT !.next = Append(@, d)]
Swapped(r) == IF r.stalled = << >> /\ (r.domPq = {} \/ ~r.fast)
              THEN [r EXCEPT !.stalled = r.next, !.next = << >>] ELSE r
Exhausted(r) == r.domPq = {} /\ r.stalled = << >> /\ r.next = << >>

(* A domain with nothing left in this phase: its clock goes to the limit. *)
FinishDomain(i, d) ==
    /\ th[i].pc = "loop"
    /\ d \in Candidates(i)
    /\ PhaseOver(i, d)
    /\ dom' = [dom EXCEPT ![d].curCycle = limit]
    /\ LET r == Taken(th[i], d)
       IN  th' = [th EXCEPT ![i] = IF Exhausted(r) THEN [Idle EXCEPT !.pc = "done"]
                                   ELSE Swapped(r)]
    /\ UNCHANGED <<owner, ev, limit, lastLimit, lock, threadsDone, rec, lastCrossing>>

(* The dequeue, and the clock set to the event's cycle. *)
Dequeue(i, d, e) ==
    /\ th[i].pc = "loop"
    /\ d \in Candidates(i)
    /\ ~PhaseOver(i, d)
    /\ e \in Queued(d) /\ ev[e].at = FirstCycle(d)
    /\ dom' = [dom EXCEPT ![d].curCycle = ev[e].at]
    /\ ev' = [ev EXCEPT ![e].state = "running"]
    /\ th' = [th EXCEPT ![i] = [Taken(@, d) EXCEPT !.pc = "run", !.te = e]]
    /\ UNCHANGED <<owner, limit, lastLimit, lock, threadsDone, rec, lastCrossing>>

(* CrossingEvent::parentDone and TimingEvent::parentDone. *)
ParentDone(e, f, start) ==
    LET c == IF IsCrossing(e) THEN Greater(start, f.minStart) ELSE start
        cyc == Greater(f.cycle, c)
    IN  [f EXCEPT !.cycle = cyc,
                  !.doneCycle = IF f.called THEN Greater(@, c) ELSE @,
                  !.parents = @ - 1,
                  !.state = IF f.parents = 1 THEN "queued" ELSE @,
                  !.at = IF f.parents = 1 THEN cyc + f.pre ELSE @,
                  !.entry = IF f.parents = 1 THEN cyc + f.pre ELSE @]

(* done(c): the event's children learn of it, and so does its crossing. *)
Done(e, c) ==
    [k \in Events |->
        IF k = e THEN [ev[e] EXCEPT !.state = "done", !.at = c]
        ELSE IF k \in ev[e].kids THEN ParentDone(k, ev[k], c + ev[e].post)
        ELSE IF k = MarkedBy(e) /\ ev[k].state # "free"
        THEN [ev[k] EXCEPT !.called = TRUE, !.doneCycle = c + ev[e].post]
        ELSE ev[k]]

Requeue(e, c) == [ev EXCEPT ![e].state = "queued", ![e].at = c]
RunsEarly(i, e) == th[i].fast /\ ev[e].at < ev[e].minStart

(* run() and the simulate of the events that are no crossings.  Only run()     *)
(* looks at minStartCycle: a stalled domain's events are simulated directly.   *)
RunEvent(i, w) ==
    LET e == th[i].te
        now == ev[e].at
    IN  /\ th[i].pc = "run" /\ ~IsCrossing(e)
        /\ w \in (IF e[2] = "C" /\ ~RunsEarly(i, e) THEN Waits ELSE {0})
        /\ ev' = IF RunsEarly(i, e) THEN Requeue(e, ev[e].minStart) ELSE Done(e, now + w)
        /\ rec' = IF e[2] = "P" /\ ~RunsEarly(i, e)
                  THEN [rec EXCEPT ![Core[e[1]]].slack = now - ev[e].minStart] ELSE rec
        /\ th' = [th EXCEPT ![i].pc = "after"]
        /\ UNCHANGED <<owner, dom, limit, lastLimit, lock, threadsDone, lastCrossing>>

DoneCycle(x) == Greater(ev[x].at, ev[x].doneCycle)

(* CrossingEvent::simulate when called is seen. *)
CrossingDone(i) ==
    LET x == th[i].te
    IN  /\ ev' = Done(x, DoneCycle(x))
        /\ dom' = [dom EXCEPT ![Domain(x)].prio = 0]
        /\ th' = [th EXCEPT ![i].pc = "after"]

(* The first test of called, the read of the source's clock and of the core's  *)
(* slack, and the second test.                                                 *)
TestCalled(i) ==
    LET x == th[i].te
    IN  /\ th[i].pc = "run" /\ IsCrossing(x)
        /\ IF ev[x].called THEN CrossingDone(i)
           ELSE th' = [th EXCEPT ![i].pc = "read"] /\ UNCHANGED <<ev, dom>>
        /\ UNCHANGED <<owner, limit, lastLimit, lock, threadsDone, rec, lastCrossing>>

ReadCycles(x, rel) == Max({dom[Source(x)].curCycle + Slack(x), rel, ev[x].at})
ReadSource(i) ==
    LET x == th[i].te
        rel == ev[x].minStart + rec[Core[x[1]]].slack + PostSlack(x)
    IN  /\ th[i].pc = "read"
        /\ th' = [th EXCEPT ![i].pc = "recheck", ![i].rd = ReadCycles(x, rel)]
        /\ ev' = [ev EXCEPT ![x].rel = Greater(@, rel)]
        /\ UNCHANGED <<owner, dom, limit, lastLimit, lock, threadsDone, rec, lastCrossing>>

CalledBefore(x) == FALSE
CalledNow(x) == ev[x].called

Recheck(i) ==
    LET x == th[i].te
    IN  /\ th[i].pc = "recheck"
        /\ IF CalledNow(x) THEN CrossingDone(i)
           ELSE /\ ev' = [ev EXCEPT ![x].state = "queued", ![x].at = th[i].rd]
                /\ dom' = [dom EXCEPT ![Domain(x)].prio = IF th[i].rd = ev[x].at THEN 1 ELSE 2]
                /\ th' = [th EXCEPT ![i].pc = "after"]
        /\ UNCHANGED <<owner, limit, lastLimit, lock, threadsDone, rec, lastCrossing>>

(* After the event: the clock goes to the next one, and the domain back into   *)
(* the thread's queues.                                                        *)
NextCycle(d) == IF Queued(d) # {} THEN FirstCycle(d) ELSE limit
After(i) ==
    LET d == Domain(th[i].te)
    IN  /\ th[i].pc = "after"
        /\ dom' = [dom EXCEPT ![d].curCycle = NextCycle(d),
                              ![d].queuePrio = IF Alone(i) THEN 0 ELSE NextCycle(d)]
        /\ th' = [th EXCEPT ![i] =
              LET r == [@ EXCEPT !.pc = "loop", !.te = NoEvent, !.rd = 0]
              IN  IF Alone(i) THEN [r EXCEPT !.domPq = {d}] ELSE Swapped(PutBack(r, d))]
        /\ UNCHANGED <<owner, ev, limit, lastLimit, lock, threadsDone, rec, lastCrossing>>
-----------------------------------------------------------------------------
(* The last phase is over and the program ends (finish sets terminate; no     *)
(* thread is woken again).                                                     *)
Terminated == ~InCSim /\ lastLimit = MaxPhases * PhaseLength /\ UNCHANGED vars

Step(i) == \/ Wake(i) \/ ThreadDone(i)
           \/ \E d \in Domains : \/ FinishDomain(i, d)
                                  \/ \E e \in Events : Dequeue(i, d, e)
           \/ \E w \in Waits \cup {0} : RunEvent(i, w)
           \/ TestCalled(i) \/ ReadSource(i) \/ Recheck(i) \/ After(i)

Next == \/ \E t \in Txs, type \in Types, gap \in Gaps, pre \in PreDelays, post \in PostDelays :
              Record(t, type, gap, pre, post)
        \/ StartPhase \/ EndPhase
        \/ \E i \in Threads : Step(i)
        \/ Terminated

Spec == Init /\ [][Next]_vars

(* The simulation threads keep running, and so does the thread that waits for  *)
(* them.                                                                       *)
FairSpec == Spec /\ WF_vars(EndPhase) /\ \A i \in Threads : WF_vars(Step(i))
-----------------------------------------------------------------------------
(* The states of events, domains, threads and the simulator's locks; a phase *)
(* is at most one phase length long and threadsDone counts threads.          *)
TypeOK ==
    /\ \A e \in Events : /\ ev[e].state \in {"free", "none", "queued", "running", "done"}
                          /\ ev[e].parents \in 0 .. 2 /\ ev[e].kids \subseteq Events
                          /\ {ev[e].at, ev[e].cycle, ev[e].doneCycle} \subseteq Nat
    /\ \A d \in Domains : dom[d].curCycle \in Nat /\ dom[d].prio \in 0 .. 2
    /\ \A i \in Threads : th[i].pc \in {"idle", "loop", "run", "read", "recheck", "after", "done"}
    /\ lock.wake \subseteq Threads /\ lock.wait \in BOOLEAN
    /\ limit - lastLimit \in {0, PhaseLength} /\ threadsDone \in 0 .. Cardinality(SimThreads)

(* No domain has an event behind its clock: what the assertions of enqueue     *)
(* ("goes back in time", "before last limit") and of the two loops ask for,    *)
(* whichever thread's clock a crossing was requeued by.  Between two phases     *)
(* every clock stands at the limit, so the next phase starts from there.       *)
NothingInThePast ==
    /\ \A d \in Domains : \A e \in Queued(d) : ev[e].at >= dom[d].curCycle
    /\ ~InCSim => \A d \in Domains : dom[d].curCycle = lastLimit

(* No event of a thread with one domain runs before the cycle the bound phase    *)
(* gave it, though the weave phase may be faster than the bound phase assumed   *)
(* (run() requeues such an event).  The loop for stalled domains calls simulate *)
(* itself: with several domains to a thread this does not hold.                 *)
MinStartRespected ==
    \A e \in Events : /\ e[2] \in {"P", "R"} /\ ev[e].state = "done"
                      /\ Alone(owner[Domain(e)])
                      => ev[e].at >= ev[e].minStart

(* No event is early: none is queued behind its domain's clock and, if its thread *)
(* has one domain, none runs before its minimum start cycle.                     *)
NoEventEarly == TypeOK /\ NothingInThePast /\ MinStartRespected

(* A crossing lets nothing through before its source event is done, nor at an   *)
(* earlier cycle, whichever of the two threads is ahead.                        *)
CrossingNotEarly ==
    \A t \in Txs : \A x \in {<<t, "X">>, <<t, "Y">>} :
        LET src == ev[IF x[2] = "X" THEN <<t, "P">> ELSE <<t, "C">>]
        IN  ev[x].state = "done" =>
                /\ src.state = "done"
                /\ ev[x].at >= src.at + src.post

(* And it holds nothing back for longer than the slacks it was given, past the  *)
(* cycle in which its source ended: what is read of the other thread's clock is  *)
(* never newer than the mark it missed ("have to check again, AFTER reading the  *)
(* cycles! Otherwise, we have a race").                                        *)
CrossingNotLate ==
    \A t \in Txs : \A x \in {<<t, "X">>, <<t, "Y">>} :
        LET src == ev[IF x[2] = "X" THEN <<t, "P">> ELSE <<t, "C">>]
        IN  ev[x].state = "done" =>
                ev[x].at <= Max({ev[x].doneCycle - src.post + Slack(x), ev[x].entry, ev[x].rel})

(* A crossing is neither early nor late. *)
CrossingOnTime == CrossingNotEarly /\ CrossingNotLate

(* The crossing that lastCrossing names is alive whenever a new one may be      *)
(* chained to it: addChild's assertion, and no use of a freed event.            *)
ChainTargetAlive ==
    ~InCSim => \A k \in DOMAIN lastCrossing :
        Chains(k, lastCrossing[k].cycle) => ev[lastCrossing[k].ev].state \in {"none", "queued"}

(* Two domains that wait for each other leapfrog: every weave phase ends. *)
PhaseEnds == InCSim ~> ~InCSim
=============================================================================
