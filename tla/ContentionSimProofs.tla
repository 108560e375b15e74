------------------------- MODULE ContentionSimProofs -------------------------
(***************************************************************************)
(* ContentionSim for any number of domains, threads, cores and transactions, *)
(* every assignment of domains to threads and every latency: no event is    *)
(* behind its domain's clock, no crossing is early or late, and a request    *)
(* crossing is chained only to one that has not been simulated.              *)
(***************************************************************************)
EXTENDS ContentionSim, FiniteSetTheorems, SequenceTheorems, WellFoundedInduction, TLAPS

-----------------------------------------------------------------------------
(* The inductive invariant *)

Tags == {"P", "X", "C", "Y", "R"}
Keys == {<<Core[t], SrcDom[t], DstDom[t]>> : t \in Txs}
Key(e) == <<Core[e[1]], SrcDom[e[1]], DstDom[e[1]]>>
Busy == {"run", "read", "recheck"}

Records ==
    [state : {"free", "none", "queued", "running", "done"}, cycle : Nat, at : Nat,
     parents : {0, 1}, minStart : Nat, pre : Nat, post : Nat, kids : SUBSET Events,
     called : BOOLEAN, doneCycle : Nat, entry : Nat, rel : Nat]
ThreadRecords ==
    [pc : {"idle", "loop", "run", "read", "recheck", "after", "done"},
     te : Events \cup {NoEvent}, rd : Nat, fast : BOOLEAN,
     domPq : SUBSET Domains, stalled : Seq(Domains), next : Seq(Domains)]

WellTyped ==
    /\ owner \in [Domains -> Threads]
    /\ ev \in [Events -> Records]
    /\ dom \in [Domains -> [curCycle : Nat, prio : 0..2, queuePrio : Nat]]
    /\ th \in [Threads -> ThreadRecords]
    /\ lastLimit \in Nat /\ limit \in {lastLimit, lastLimit + PhaseLength}
    /\ lock \in [wake : SUBSET Threads, wait : BOOLEAN]
    /\ threadsDone \in Nat
    /\ rec \in [Cores -> [tail : Events \cup {NoEvent}, resp : Nat, slack : Int]]
    /\ lastCrossing \in [Keys -> [cycle : Nat, ev : Events \cup {NoEvent}]]

(* The event whose end a crossing waits for. *)
Origin(x) == IF x[2] = "X" THEN <<x[1], "P">> ELSE <<x[1], "C">>

(* The events of a transaction are allocated together. *)
Allocated ==
    \A e \in Events : ev[e].state # "free" =>
        ev[<<e[1], "P">>].state # "free" /\ ev[<<e[1], "C">>].state # "free"

(* Children are in their parent's domain and have no other parent; they wait *)
(* until it is done, and nothing else does.                                  *)
Kin ==
    /\ \A e \in Events : \A k \in ev[e].kids :
          /\ ev[e].state # "free" /\ ev[k].state # "free"
          /\ Domain(k) = Domain(e) /\ k # MarkedBy(e)
          /\ ev[e].state # "done" => ev[k].state = "none"
    /\ \A e, f \in Events : \A k \in ev[e].kids : k \in ev[f].kids => e = f
    /\ \A k \in Events : ev[k].state = "none" =>
          \E e \in Events : k \in ev[e].kids /\ ev[e].state # "done"
    /\ \A k \in Events : ev[k].parents = IF ev[k].state = "none" THEN 1 ELSE 0

(* A crossing is called exactly when its source is done, and no crossing is   *)
(* done before it is called.                                                 *)
Marks ==
    \A x \in Events : IsCrossing(x) /\ ev[x].state # "free" =>
        /\ ev[x].called <=> ev[Origin(x)].state = "done"
        /\ ev[x].called => ev[x].doneCycle >= ev[Origin(x)].at + ev[Origin(x)].post
        /\ ev[x].state = "done" => ev[x].called /\ ev[x].at >= ev[x].doneCycle

(* What the recorders remember of earlier transactions is allocated. *)
Links ==
    /\ \A c \in Cores : rec[c].tail # NoEvent =>
          /\ rec[c].tail[2] = "R" /\ Core[rec[c].tail[1]] = c
          /\ ev[rec[c].tail].state # "free"
    /\ \A k \in Keys :
          IF lastCrossing[k].ev = NoEvent THEN lastCrossing[k].cycle = 0
          ELSE /\ lastCrossing[k].ev[2] = "X" /\ Key(lastCrossing[k].ev) = k
               /\ ev[lastCrossing[k].ev].state # "free"
               /\ ev[lastCrossing[k].ev].minStart = lastCrossing[k].cycle

(* Clocks and minimum start cycles. *)
Times ==
    /\ \A e \in Events :
          /\ ev[e].state = "queued" => ev[e].at >= dom[Domain(e)].curCycle
          /\ ev[e].state = "running" => ev[e].at = dom[Domain(e)].curCycle
    /\ \A x \in Events : IsCrossing(x) =>
          /\ ev[x].state \in {"queued", "running"} => ev[x].at >= ev[x].minStart
          /\ ev[x].state \in {"running", "done"} => ev[x].minStart <= limit
    /\ MinStartRespected

(* The domains in a thread's queues.  A thread works on its own domains; the  *)
(* event it runs is running, and no other one of its domains is.             *)
Queues(r) == r.domPq \cup ToSet(r.stalled) \cup ToSet(r.next)
Working(i, r) ==
    /\ Queues(r) \subseteq Owned(i)
    /\ r.pc \in Busy \cup {"after"} => r.te \in Events /\ owner[Domain(r.te)] = i
    /\ r.pc \in Busy => ev[r.te].state = "running"
    /\ r.pc \in {"read", "recheck"} => IsCrossing(r.te)
    /\ r.pc = "recheck" => r.rd >= ev[r.te].at
    /\ r.pc = "loop" => r.domPq # {} \/ r.stalled # << >>
    /\ Alone(i) => r.stalled = << >> /\ r.next = << >> /\ (r.pc = "run" => r.fast)
Places ==
    /\ \A i \in Threads : Working(i, th[i])
    /\ \A e \in Events : ev[e].state = "running" =>
          th[owner[Domain(e)]].pc \in Busy /\ th[owner[Domain(e)]].te = e

(* The domains a thread still has to bring to the limit, and the threads that *)
(* have brought all of theirs there.                                         *)
Held(r) == Queues(r) \cup {d \in Domains : r.pc \in Busy \cup {"after"} /\ d = Domain(r.te)}
Finished == {i \in SimThreads : th[i].pc = "idle" /\ i \notin lock.wake}
Phases ==
    /\ lock.wake \subseteq SimThreads
    /\ \A i \in Threads : i \in lock.wake \/ i \notin SimThreads => th[i].pc = "idle"
    /\ \A d \in Domains : owner[d] \in lock.wake \/ d \in Held(th[owner[d]])
                            \/ dom[d].curCycle = limit
    /\ \A i \in Threads : th[i].pc \in {"idle", "done"} => Held(th[i]) = {}
    /\ threadsDone = IF InCSim /\ ~lock.wait THEN Cardinality(Finished) ELSE 0
    /\ lock.wait => InCSim
    /\ ~InCSim \/ lock.wait => Finished = SimThreads

(* Events of which none can end before cycle v: those that wait do so for     *)
(* another one of the set.                                                   *)
Cover(S, y, v) ==
    /\ y \in S
    /\ \A e \in S :
          /\ ev[e].state # "free"
          /\ ev[e].state \in {"queued", "running"} => ev[e].at >= v
          /\ ev[e].state = "none" =>
                \E p \in S : e \in ev[p].kids /\ ev[p].state # "done"

(* What a crossing's slacks leave it beyond its source's post-delay. *)
Margin(x) == Slack(x) - ev[Origin(x)].post

(* The cycle a crossing is queued for is explained by its parent, by the      *)
(* core's slack, by its mark or, before that, by a cycle that its source      *)
(* cannot end before.                                                        *)
Pending(x, a) == \E v \in Nat, S \in SUBSET Events :
                     a <= v + Slack(x) /\ Cover(S, Origin(x), v)
Bounded(x, a) ==
    \/ a <= ev[x].entry \/ a <= ev[x].rel
    \/ ev[x].called /\ a <= ev[x].doneCycle + Margin(x)
    \/ ~ev[x].called /\ Pending(x, a)
Late ==
    /\ \A x \in Events : IsCrossing(x) =>
          /\ ev[x].state \in {"queued", "running"} => Bounded(x, ev[x].at)
          /\ ev[x].state = "done" => \/ ev[x].at <= ev[x].entry
                                     \/ ev[x].at <= ev[x].rel
                                     \/ ev[x].at <= ev[x].doneCycle + Margin(x)
    /\ \A i \in Threads, x \in Events, a \in Nat :
          th[i].pc = "recheck" /\ th[i].te = x /\ th[i].rd = a => ev[x].called \/ Bounded(x, a)

Graph == Allocated /\ Kin /\ Marks
IInv == WellTyped /\ Graph /\ Links /\ Times /\ Places /\ Phases /\ Late
-----------------------------------------------------------------------------
(* Events and numbers *)

(* Events are pairs of a transaction and a kind. *)
LEMMA Pairs ==
    /\ \A t \in Txs, g \in Tags : <<t, g>> \in Events
    /\ \A e \in Events : e[1] \in Txs /\ e[2] \in Tags /\ e = <<e[1], e[2]>>
    /\ NoEvent \notin Events
  BY DEF Events, Tags, NoEvent

(* The domain of an event is a domain. *)
LEMMA DomainType == \A e \in Events : Domain(e) \in Domains
  BY Pairs, ContentionAssumption DEF Domain

(* Where a crossing comes from, and which event marks it. *)
LEMMA Crossings ==
    /\ \A x \in Events : IsCrossing(x) =>
          /\ Origin(x) \in Events /\ ~IsCrossing(Origin(x)) /\ MarkedBy(Origin(x)) = x
          /\ Domain(Origin(x)) = Source(x) /\ Source(x) \in Domains
          /\ Origin(x)[1] = x[1] /\ (Origin(x)[2] = "P" \/ Origin(x)[2] = "C")
          /\ Origin(x) = <<x[1], "P">> \/ Origin(x) = <<x[1], "C">>
    /\ \A e \in Events : MarkedBy(e) \in Events => /\ IsCrossing(MarkedBy(e))
                                                    /\ Origin(MarkedBy(e)) = e
  <1>1. \A x \in Events : IsCrossing(x) =>
          /\ Origin(x) \in Events /\ ~IsCrossing(Origin(x)) /\ MarkedBy(Origin(x)) = x
          /\ Domain(Origin(x)) = Source(x) /\ Source(x) \in Domains
          /\ Origin(x)[1] = x[1] /\ (Origin(x)[2] = "P" \/ Origin(x)[2] = "C")
          /\ Origin(x) = <<x[1], "P">> \/ Origin(x) = <<x[1], "C">>
    <2> SUFFICES ASSUME NEW x \in Events, IsCrossing(x)
                 PROVE  /\ Origin(x) \in Events /\ ~IsCrossing(Origin(x))
                        /\ MarkedBy(Origin(x)) = x
                        /\ Domain(Origin(x)) = Source(x) /\ Source(x) \in Domains
                        /\ Origin(x)[1] = x[1]
                        /\ Origin(x)[2] = "P" \/ Origin(x)[2] = "C"
                        /\ Origin(x) = <<x[1], "P">> \/ Origin(x) = <<x[1], "C">>
      OBVIOUS
    <2>1. PICK t \in Txs, g \in Tags : x = <<t, g>>
      BY Pairs
    <2>2. SrcDom[t] \in Domains /\ DstDom[t] \in Domains
      BY ContentionAssumption
    <2>3. CASE g = "X"
      <3>1. Origin(x) = <<t, "P">>
        BY <2>1, <2>3 DEF Origin
      <3> QED
        BY <2>1, <2>2, <2>3, <3>1 DEF Source, Domain, MarkedBy, IsCrossing, Events
    <2>4. CASE g = "Y"
      <3>1. Origin(x) = <<t, "C">>
        BY <2>1, <2>4 DEF Origin
      <3> QED
        BY <2>1, <2>2, <2>4, <3>1 DEF Source, Domain, MarkedBy, IsCrossing, Events
    <2> QED
      BY <2>1, <2>3, <2>4 DEF IsCrossing
  <1>2. ASSUME NEW e \in Events, MarkedBy(e) \in Events
        PROVE  IsCrossing(MarkedBy(e)) /\ Origin(MarkedBy(e)) = e
    <2>1. PICK t \in Txs, g \in Tags : e = <<t, g>>
      BY Pairs
    <2>2. CASE g = "P"
      BY <2>1, <2>2 DEF MarkedBy, IsCrossing, Origin
    <2>3. CASE g = "C"
      BY <2>1, <2>3 DEF MarkedBy, IsCrossing, Origin
    <2>4. CASE g \notin {"P", "C"}
      BY <1>2, <2>1, <2>4, Pairs DEF MarkedBy
    <2> QED
      BY <2>2, <2>3, <2>4
  <1> QED
    BY <1>1, <1>2

(* The greater one of two numbers. *)
LEMMA GreaterFacts ==
    \A a, b \in Int : /\ Greater(a, b) \in {a, b} /\ Greater(a, b) >= a /\ Greater(a, b) >= b
  BY DEF Greater

(* The greatest of three numbers. *)
LEMMA MaxOfThree ==
    ASSUME NEW a \in Int, NEW b \in Int, NEW c \in Int
    PROVE  /\ Max({a, b, c}) \in {a, b, c}
           /\ Max({a, b, c}) >= a /\ Max({a, b, c}) >= b /\ Max({a, b, c}) >= c
  <1> DEFINE S == {a, b, c}
  <1>1. \E m \in S : \A y \in S : m >= y
    OBVIOUS
  <1>2. Max(S) \in S /\ \A y \in S : Max(S) >= y
    <2> HIDE DEF S
    <2> QED
      BY <1>1 DEF Max
  <1> QED
    BY <1>2

(* The least element of a set of natural numbers. *)
LEMMA MinFacts ==
    ASSUME NEW S \in SUBSET Nat, S # {}
    PROVE  Min(S) \in S /\ \A y \in S : Min(S) <= y
  <1>1. PICK R : /\ IsWellFoundedOn(R, Nat)
                 /\ \A x, y \in Nat : y < x => <<y, x>> \in R
    <2>1. IsWellFoundedOn(OpToRel(<, Nat), Nat)
      BY NatLessThanWellFounded, Zenon
    <2>2. \A x, y \in Nat : y < x => <<y, x>> \in OpToRel(<, Nat)
      BY DEF OpToRel
    <2> QED
      BY <2>1, <2>2, Zenon
  <1>2. \E x \in S : \A y \in S : ~ (<<y, x>> \in R)
    BY <1>1, WFMin, Zenon
  <1>3. \E m \in S : \A y \in S : m <= y
    <2>1. PICK m \in S : \A y \in S : ~ (<<y, m>> \in R)
      BY <1>2
    <2>2. \A y \in S : ~ (y < m)
      BY <1>1, <2>1
    <2> QED
      BY <2>2
  <1> QED
    BY <1>3 DEF Min

(* The types of the parts of an event, of a domain's clock and of a thread. *)
LEMMA EventType ==
    ASSUME WellTyped
    PROVE  \A e \in Events :
             /\ ev[e].state \in {"free", "none", "queued", "running", "done"}
             /\ ev[e].cycle \in Nat /\ ev[e].at \in Nat /\ ev[e].parents \in {0, 1}
             /\ ev[e].minStart \in Nat /\ ev[e].pre \in Nat /\ ev[e].post \in Nat
             /\ ev[e].kids \in SUBSET Events /\ ev[e].called \in BOOLEAN
             /\ ev[e].doneCycle \in Nat /\ ev[e].entry \in Nat /\ ev[e].rel \in Nat
             /\ ev[e] \in Records
  <1>1. \A e \in Events : ev[e] \in Records
    BY DEF WellTyped
  <1> QED
    BY <1>1 DEF Records

(* Clocks and limits are numbers, and every domain has a simulation thread. *)
LEMMA ClockType ==
    ASSUME WellTyped
    PROVE  /\ \A d \in Domains : dom[d].curCycle \in Nat /\ dom[d].prio \in 0..2
           /\ limit \in Nat /\ lastLimit \in Nat /\ lastLimit <= limit
           /\ \A d \in Domains : owner[d] \in Threads /\ owner[d] \in SimThreads
  <1>1. \A d \in Domains : dom[d] \in [curCycle : Nat, prio : 0..2, queuePrio : Nat]
    BY DEF WellTyped
  <1>2. limit \in Nat /\ lastLimit \in Nat /\ lastLimit <= limit
    BY ContentionAssumption DEF WellTyped
  <1>3. \A d \in Domains : owner[d] \in Threads /\ owner[d] \in SimThreads
    BY DEF WellTyped, SimThreads
  <1> QED
    BY <1>1, <1>2, <1>3

(* The parts of a thread are of their types. *)
LEMMA ThreadType ==
    ASSUME WellTyped
    PROVE  \A i \in Threads :
             /\ th[i].pc \in {"idle", "loop", "run", "read", "recheck", "after", "done"}
             /\ th[i].te \in Events \cup {NoEvent} /\ th[i].rd \in Nat
             /\ th[i].fast \in BOOLEAN /\ th[i].domPq \in SUBSET Domains
             /\ th[i].stalled \in Seq(Domains) /\ th[i].next \in Seq(Domains)
             /\ th[i] \in ThreadRecords
  <1>1. \A i \in Threads : th[i] \in ThreadRecords
    BY DEF WellTyped
  <1> QED
    BY <1>1 DEF ThreadRecords

(* The first cycle of a domain's queue is that of one of its events. *)
LEMMA FirstCycleFacts ==
    ASSUME WellTyped, NEW d \in Domains, Queued(d) # {}
    PROVE  /\ FirstCycle(d) \in Nat
           /\ \A e \in Queued(d) : FirstCycle(d) <= ev[e].at
           /\ \E e \in Queued(d) : FirstCycle(d) = ev[e].at
  <1> DEFINE S == {ev[e].at : e \in Queued(d)}
  <1>1. S \in SUBSET Nat /\ S # {}
    BY EventType DEF Queued
  <1>2. FirstCycle(d) \in S /\ \A y \in S : FirstCycle(d) <= y
    <2> HIDE DEF S
    <2>1. Min(S) \in S /\ \A y \in S : Min(S) <= y
      BY <1>1, MinFacts
    <2>2. FirstCycle(d) = Min(S)
      BY DEF FirstCycle, S
    <2> QED
      BY <2>1, <2>2
  <1> QED
    BY <1>1, <1>2

-----------------------------------------------------------------------------
(* What the steps do to the events *)

(* What no step changes of an allocated event, or only extends. *)
Kept(e) ==
    /\ ev'[e].pre = ev[e].pre /\ ev'[e].post = ev[e].post
    /\ ev'[e].minStart = ev[e].minStart /\ ev[e].kids \subseteq ev'[e].kids

(* Nothing is taken back: an event starts to wait only when it is allocated,  *)
(* is queued by the end of its parent and not before that one's cycle, moves  *)
(* only forward, and when it ends, its children wait no longer and its        *)
(* crossing is called.                                                       *)
Progress ==
    \A e \in Events : ev[e].state # "free" =>
        /\ ev'[e].state # "free" /\ Kept(e)
        /\ ev'[e].state = "none" => ev[e].state = "none"
        /\ ev[e].state = "done" => /\ ev'[e].state = "done" /\ ev'[e].at = ev[e].at
                                   /\ ev'[e].doneCycle = ev[e].doneCycle
        /\ ev[e].state # "none" => /\ ev'[e].at >= ev[e].at /\ ev'[e].entry = ev[e].entry
                                   /\ ev'[e].rel >= ev[e].rel
        /\ ev[e].state = "none" /\ ev'[e].state # "none" =>
              /\ ev'[e].state = "queued" /\ ev'[e].at = ev'[e].entry
              /\ IsCrossing(e) => ev'[e].at >= ev[e].minStart
              /\ \E p \in Events : /\ e \in ev[p].kids /\ ev[p].state = "running"
                                   /\ ev'[e].at >= ev[p].at
        /\ ev[e].state # "done" /\ ev'[e].state = "done" =>
              /\ ev[e].state = "running"
              /\ \A k \in ev[e].kids : ev'[k].state # "none"
        /\ ev[e].called => ev'[e].called /\ ev'[e].doneCycle >= ev[e].doneCycle
        /\ IsCrossing(e) /\ ~ev[e].called /\ ev'[e].called =>
              /\ ev[Origin(e)].state = "running"
              /\ ev'[e].doneCycle >= ev[Origin(e)].at + ev[Origin(e)].post

(* parentDone of an event with one parent left. *)
LEMMA ParentDoneIs ==
    ASSUME NEW f \in Records, f.parents = 1, NEW k, NEW start \in Nat, NEW g,
           g = ParentDone(k, f, start)
    PROVE  /\ g \in Records
           /\ g.state = "queued" /\ g.parents = 0 /\ g.at = g.entry /\ g.at >= start
           /\ IsCrossing(k) => g.at >= f.minStart
           /\ g.called = f.called /\ (f.called => g.doneCycle >= f.doneCycle)
           /\ g.pre = f.pre /\ g.post = f.post /\ g.minStart = f.minStart /\ g.kids = f.kids
           /\ g.rel = f.rel
  <1> DEFINE c == IF IsCrossing(k) THEN Greater(start, f.minStart) ELSE start
             cyc == Greater(f.cycle, c)
             dc == IF f.called THEN Greater(f.doneCycle, c) ELSE f.doneCycle
  <1>1. f.minStart \in Nat /\ f.cycle \in Nat /\ f.pre \in Nat /\ f.doneCycle \in Nat
    BY DEF Records
  <1>2. c \in Nat /\ c >= start /\ (IsCrossing(k) => c >= f.minStart)
    BY <1>1, GreaterFacts
  <1> HIDE DEF c
  <1>3. cyc \in Nat /\ cyc >= c
    BY <1>1, <1>2, GreaterFacts
  <1>4. dc \in Nat /\ (f.called => dc >= f.doneCycle)
    BY <1>1, <1>2, GreaterFacts
  <1>5. g = [f EXCEPT !.cycle = cyc, !.doneCycle = dc, !.parents = 0, !.state = "queued",
                      !.at = cyc + f.pre, !.entry = cyc + f.pre]
    BY DEF ParentDone, c
  <1> HIDE DEF cyc, dc
  <1>6. cyc + f.pre \in Nat /\ cyc + f.pre >= start
        /\ (IsCrossing(k) => cyc + f.pre >= f.minStart)
    BY <1>1, <1>2, <1>3
  <1>7. /\ g.state = "queued" /\ g.parents = 0
        /\ g.at = cyc + f.pre /\ g.entry = cyc + f.pre
        /\ g.called = f.called /\ g.doneCycle = dc
        /\ g.pre = f.pre /\ g.post = f.post /\ g.minStart = f.minStart /\ g.kids = f.kids
        /\ g.rel = f.rel
    BY <1>5 DEF Records
  <1> DEFINE n == cyc + f.pre
  <1>8. n \in Nat
    BY <1>6
  <1>9. g = [f EXCEPT !.cycle = cyc, !.doneCycle = dc, !.parents = 0, !.state = "queued",
                      !.at = n, !.entry = n]
    BY <1>5
  <1> HIDE DEF n
  <1>10. g \in Records
    <2> DEFINE g1 == [f EXCEPT !.cycle = cyc, !.doneCycle = dc]
               g2 == [g1 EXCEPT !.parents = 0, !.state = "queued"]
    <2>1. g1 \in Records
      BY <1>3, <1>4 DEF Records
    <2>2. g2 \in Records
      <3> HIDE DEF g1
      <3> QED
        BY <2>1 DEF Records
    <2>3. [g2 EXCEPT !.at = n, !.entry = n] \in Records
      <3> HIDE DEF g2
      <3> QED
        BY <1>8, <2>2 DEF Records
    <2>4. g = [g2 EXCEPT !.at = n, !.entry = n]
      BY <1>9 DEF Records
    <2> QED
      BY <2>3, <2>4
  <1> QED
    BY <1>4, <1>6, <1>7, <1>10

(* done(c), event by event: the event itself, its children, its crossing and   *)
(* all others.                                                               *)
Same(k) ==
    /\ ev'[k].kids = ev[k].kids /\ ev'[k].parents = ev[k].parents
    /\ ev'[k].pre = ev[k].pre /\ ev'[k].post = ev[k].post
    /\ ev'[k].minStart = ev[k].minStart
    /\ ev'[k].entry = ev[k].entry /\ ev'[k].rel = ev[k].rel
Marked(e, k) == k = MarkedBy(e) /\ ev[k].state # "free"
DoneShape(e, c) ==
    /\ ev' \in [Events -> Records]
    /\ ev'[e].state = "done" /\ ev'[e].at = c /\ Same(e)
    /\ ev'[e].called = ev[e].called /\ ev'[e].doneCycle = ev[e].doneCycle
    /\ \A k \in ev[e].kids :
          /\ k \in Events /\ k # e
          /\ ev[k].state = "none" /\ ev'[k].state = "queued" /\ ev'[k].parents = 0
          /\ ev'[k].at = ev'[k].entry /\ ev'[k].at >= c + ev[e].post
          /\ IsCrossing(k) => ev'[k].at >= ev[k].minStart
          /\ ev'[k].called = ev[k].called
          /\ ev[k].called => ev'[k].doneCycle >= ev[k].doneCycle
          /\ ev'[k].pre = ev[k].pre /\ ev'[k].post = ev[k].post
          /\ ev'[k].minStart = ev[k].minStart /\ ev'[k].kids = ev[k].kids
          /\ ev'[k].rel = ev[k].rel
    /\ \A k \in Events : Marked(e, k) =>
          /\ k # e /\ k \notin ev[e].kids
          /\ ev'[k].state = ev[k].state /\ ev'[k].at = ev[k].at /\ Same(k)
          /\ ev'[k].called = TRUE /\ ev'[k].doneCycle = c + ev[e].post
    /\ \A k \in Events :
          k # e /\ k \notin ev[e].kids /\ ~Marked(e, k) => ev'[k] = ev[k]

(* done(c) has the effects that DoneShape lists. *)
LEMMA DoneIs ==
    ASSUME WellTyped, Graph, NEW e \in Events, NEW c \in Nat,
           ev[e].state = "running", ev' = Done(e, c)
    PROVE  DoneShape(e, c)
  <1>1. ev \in [Events -> Records] /\ c + ev[e].post \in Nat
    BY EventType DEF WellTyped
  <1>2. \A k \in ev[e].kids :
           /\ k \in Events /\ k # e /\ ev[k].state = "none" /\ ev[k].parents = 1
           /\ k # MarkedBy(e)
    BY EventType DEF Graph, Kin
  <1>3. MarkedBy(e) # e
    BY Crossings
  <1>4. \A k \in Events :
           ev'[k] = IF k = e THEN [ev[e] EXCEPT !.state = "done", !.at = c]
                    ELSE IF k \in ev[e].kids THEN ParentDone(k, ev[k], c + ev[e].post)
                    ELSE IF k = MarkedBy(e) /\ ev[k].state # "free"
                    THEN [ev[k] EXCEPT !.called = TRUE, !.doneCycle = c + ev[e].post]
                    ELSE ev[k]
    BY Zenon DEF Done
  <1>5. /\ ev'[e] \in Records /\ ev'[e].state = "done" /\ ev'[e].at = c /\ Same(e)
        /\ ev'[e].called = ev[e].called /\ ev'[e].doneCycle = ev[e].doneCycle
    BY <1>1, <1>4, ZenonT(60) DEF Records, Same
  <1>6. ASSUME NEW k \in ev[e].kids
        PROVE  /\ k \in Events /\ k # e
               /\ ev[k].state = "none" /\ ev'[k].state = "queued" /\ ev'[k].parents = 0
               /\ ev'[k].at = ev'[k].entry /\ ev'[k].at >= c + ev[e].post
               /\ IsCrossing(k) => ev'[k].at >= ev[k].minStart
               /\ ev'[k].called = ev[k].called
               /\ ev[k].called => ev'[k].doneCycle >= ev[k].doneCycle
               /\ ev'[k].pre = ev[k].pre /\ ev'[k].post = ev[k].post
               /\ ev'[k].minStart = ev[k].minStart /\ ev'[k].kids = ev[k].kids
               /\ ev'[k].rel = ev[k].rel
               /\ ev'[k] \in Records
    <2>1. ev'[k] = ParentDone(k, ev[k], c + ev[e].post) /\ ev[k] \in Records
          /\ ev[k].parents = 1
      BY <1>1, <1>2, <1>4, Zenon
    <2> QED
      BY <1>1, <1>2, <2>1, ParentDoneIs
  <1>7. ASSUME NEW k \in Events, Marked(e, k)
        PROVE  /\ k # e /\ k \notin ev[e].kids
               /\ ev'[k].state = ev[k].state /\ ev'[k].at = ev[k].at /\ Same(k)
               /\ ev'[k].called = TRUE /\ ev'[k].doneCycle = c + ev[e].post
               /\ ev'[k] \in Records
    <2>1. k # e /\ k \notin ev[e].kids
      BY <1>2, <1>3, <1>7 DEF Marked
    <2>2. ev'[k] = [ev[k] EXCEPT !.called = TRUE, !.doneCycle = c + ev[e].post]
      BY <1>4, <1>7, <2>1, Zenon DEF Marked
    <2> QED
      BY <1>1, <2>1, <2>2 DEF Records, Same
  <1>8. \A k \in Events :
           k # e /\ k \notin ev[e].kids /\ ~Marked(e, k) => ev'[k] = ev[k]
    BY <1>4, Zenon DEF Marked
  <1>9. ASSUME NEW k \in Events PROVE ev'[k] \in Records
    <2>1. CASE k = e
      BY <1>5, <2>1
    <2>2. CASE k \in ev[e].kids
      BY <1>6, <2>2
    <2>3. CASE Marked(e, k)
      BY <1>7, <2>3
    <2>4. CASE k # e /\ k \notin ev[e].kids /\ ~Marked(e, k)
      <3>1. ev'[k] = ev[k] /\ ev[k] \in Records
        BY <1>1, <1>8, <2>4
      <3> QED
        BY <3>1, Zenon
    <2> QED
      BY <2>1, <2>2, <2>3, <2>4
  <1>10. ev' \in [Events -> Records]
    <2>1. DOMAIN ev' = Events /\ ev' = [k \in Events |-> ev'[k]]
      BY Zenon DEF Done
    <2> QED
      BY <1>9, <2>1
  <1> QED
    BY <1>5, <1>6, <1>7, <1>8, <1>10 DEF DoneShape

(* done(c) is a step forward. *)
LEMMA DoneProgress ==
    ASSUME WellTyped, Graph, NEW e \in Events, NEW c \in Nat, c >= ev[e].at,
           ev[e].state = "running", ev' = Done(e, c)
    PROVE  Progress
  <1>0. DoneShape(e, c)
    BY DoneIs
  <1>1. /\ ev \in [Events -> Records] /\ ev[e].at \in Nat /\ ev[e].post \in Nat
        /\ \A k \in Events : ev[k].entry \in Nat /\ ev[k].rel \in Nat /\ ev[k].at \in Nat
                             /\ ev[k].doneCycle \in Nat
    BY EventType DEF WellTyped
  <1>2. /\ ev'[e].state = "done" /\ ev'[e].at = c /\ Same(e)
        /\ ev'[e].called = ev[e].called /\ ev'[e].doneCycle = ev[e].doneCycle
    BY <1>0 DEF DoneShape
  <1>3. \A k \in ev[e].kids :
           /\ k \in Events /\ k # e
           /\ ev[k].state = "none" /\ ev'[k].state = "queued"
           /\ ev'[k].at = ev'[k].entry /\ ev'[k].at >= c + ev[e].post
           /\ IsCrossing(k) => ev'[k].at >= ev[k].minStart
           /\ ev'[k].called = ev[k].called
           /\ ev[k].called => ev'[k].doneCycle >= ev[k].doneCycle
           /\ ev'[k].pre = ev[k].pre /\ ev'[k].post = ev[k].post
           /\ ev'[k].minStart = ev[k].minStart /\ ev'[k].kids = ev[k].kids
           /\ ev'[k].rel = ev[k].rel /\ ev'[k].at \in Nat
    <2>1. \A k \in Events : ev'[k].at \in Nat
      BY <1>0 DEF DoneShape, Records
    <2> QED
      BY <1>0, <2>1 DEF DoneShape
  <1>4. \A k \in Events : Marked(e, k) =>
           /\ k # e /\ k \notin ev[e].kids
           /\ ev'[k].state = ev[k].state /\ ev'[k].at = ev[k].at /\ Same(k)
           /\ ev'[k].called = TRUE /\ ev'[k].doneCycle = c + ev[e].post
    BY <1>0 DEF DoneShape
  <1>5. \A k \in Events : k # e /\ k \notin ev[e].kids /\ ~Marked(e, k) => ev'[k] = ev[k]
    BY <1>0 DEF DoneShape
  <1>6. \A k \in Events : Marked(e, k) => IsCrossing(k) /\ Origin(k) = e
    BY Crossings DEF Marked
  <1>7. \A x \in Events : IsCrossing(x) /\ ev[x].state = "done" => ev[x].called
    BY DEF Graph, Marks
  <1>8. \A x \in Events : IsCrossing(x) /\ ev[x].state # "free" =>
           (ev[x].called <=> ev[Origin(x)].state = "done")
    BY DEF Graph, Marks
  <1> SUFFICES ASSUME NEW k \in Events, ev[k].state # "free"
               PROVE  /\ ev'[k].state # "free" /\ Kept(k)
                      /\ ev'[k].state = "none" => ev[k].state = "none"
                      /\ ev[k].state = "done" =>
                            /\ ev'[k].state = "done" /\ ev'[k].at = ev[k].at
                            /\ ev'[k].doneCycle = ev[k].doneCycle
                      /\ ev[k].state # "none" =>
                            /\ ev'[k].at >= ev[k].at /\ ev'[k].entry = ev[k].entry
                            /\ ev'[k].rel >= ev[k].rel
                      /\ ev[k].state = "none" /\ ev'[k].state # "none" =>
                            /\ ev'[k].state = "queued" /\ ev'[k].at = ev'[k].entry
                            /\ IsCrossing(k) => ev'[k].at >= ev[k].minStart
                            /\ \E p \in Events : /\ k \in ev[p].kids
                                                 /\ ev[p].state = "running"
                                                 /\ ev'[k].at >= ev[p].at
                      /\ ev[k].state # "done" /\ ev'[k].state = "done" =>
                            /\ ev[k].state = "running"
                            /\ \A j \in ev[k].kids : ev'[j].state # "none"
                      /\ ev[k].called =>
                            ev'[k].called /\ ev'[k].doneCycle >= ev[k].doneCycle
                      /\ IsCrossing(k) /\ ~ev[k].called /\ ev'[k].called =>
                            /\ ev[Origin(k)].state = "running"
                            /\ ev'[k].doneCycle >= ev[Origin(k)].at + ev[Origin(k)].post
    BY DEF Progress
  <1>9. CASE k = e
    <2>1. \A j \in ev[e].kids : ev'[j].state # "none"
      BY <1>3
    <2> QED
      BY <1>1, <1>2, <1>9, <2>1 DEF Kept, Same
  <1>10. CASE k \in ev[e].kids
    BY <1>1, <1>3, <1>10 DEF Kept
  <1>11. CASE Marked(e, k)
    <2>2. IsCrossing(k) /\ Origin(k) = e
      BY <1>6, <1>11
    <2>3. ~ev[k].called /\ ev[k].state # "done"
      BY <1>7, <1>8, <2>2
    <2> QED
      BY <1>1, <1>4, <1>11, <2>2, <2>3 DEF Kept, Same
  <1>12. CASE k # e /\ k \notin ev[e].kids /\ ~Marked(e, k)
    <2>1. ev'[k] = ev[k]
      BY <1>5, <1>12
    <2> QED
      BY <1>1, <2>1 DEF Kept
  <1> QED
    BY <1>9, <1>10, <1>11, <1>12

(* done(c) leaves parents, children and marks in order. *)
LEMMA DoneGraph ==
    ASSUME WellTyped, Graph, NEW e \in Events, NEW c \in Nat, c >= ev[e].at,
           ev[e].state = "running", IsCrossing(e) => ev[e].called /\ c >= ev[e].doneCycle,
           ev' = Done(e, c)
    PROVE  Graph'
  <1>0. DoneShape(e, c)
    BY DoneIs
  <1>1. ev \in [Events -> Records] /\ ev[e].post \in Nat
        /\ \A k \in Events : ev[k].kids \subseteq Events
    BY EventType DEF WellTyped
  <1>2. /\ ev'[e].state = "done" /\ ev'[e].at = c /\ ev'[e].kids = ev[e].kids
        /\ ev'[e].parents = ev[e].parents /\ ev'[e].post = ev[e].post
        /\ ev'[e].called = ev[e].called /\ ev'[e].doneCycle = ev[e].doneCycle
    BY <1>0 DEF DoneShape, Same
  <1>3. \A k \in ev[e].kids :
           /\ k \in Events /\ k # e
           /\ ev[k].state = "none" /\ ev'[k].state = "queued" /\ ev'[k].parents = 0
           /\ ev'[k].called = ev[k].called
           /\ ev[k].called => ev'[k].doneCycle >= ev[k].doneCycle
           /\ ev'[k].post = ev[k].post /\ ev'[k].kids = ev[k].kids
    BY <1>0 DEF DoneShape
  <1>4. \A k \in Events : Marked(e, k) =>
           /\ k # e /\ k \notin ev[e].kids
           /\ ev'[k].state = ev[k].state /\ ev'[k].at = ev[k].at
           /\ ev'[k].kids = ev[k].kids /\ ev'[k].parents = ev[k].parents
           /\ ev'[k].post = ev[k].post
           /\ ev'[k].called = TRUE /\ ev'[k].doneCycle = c + ev[e].post
    BY <1>0 DEF DoneShape, Same
  <1>5. \A k \in Events : k # e /\ k \notin ev[e].kids /\ ~Marked(e, k) => ev'[k] = ev[k]
    BY <1>0 DEF DoneShape
  <1>6. \A k \in Events : /\ ev'[k].kids = ev[k].kids
                          /\ k \notin ev[e].kids => ev'[k].parents = ev[k].parents
                          /\ k # e /\ k \notin ev[e].kids => ev'[k].state = ev[k].state
    BY <1>2, <1>3, <1>4, <1>5
  <1>7. Kin
    BY DEF Graph
  <1>8. Allocated'
    <2>1. \A k \in Events : ev'[k].state = "free" <=> ev[k].state = "free"
      BY <1>2, <1>3, <1>6
    <2>2. \A k \in Events : <<k[1], "P">> \in Events /\ <<k[1], "C">> \in Events
      BY Pairs DEF Tags
    <2> QED
      BY <2>1, <2>2 DEF Graph, Allocated
  <1>9. Kin'
    <2>1. ASSUME NEW f \in Events, NEW k \in ev'[f].kids
          PROVE  /\ ev'[f].state # "free" /\ ev'[k].state # "free"
                 /\ Domain(k) = Domain(f) /\ k # MarkedBy(f)
                 /\ ev'[f].state # "done" => ev'[k].state = "none"
      <3>1. /\ k \in ev[f].kids /\ k \in Events /\ ev[f].state # "free" /\ ev[k].state # "free"
            /\ Domain(k) = Domain(f) /\ k # MarkedBy(f)
            /\ ev[f].state # "done" => ev[k].state = "none"
        BY <1>1, <1>6, <1>7 DEF Kin
      <3>2. ev'[f].state # "free" /\ ev'[k].state # "free"
        BY <1>2, <1>3, <1>6, <3>1
      <3>3. ev'[f].state # "done" => ev'[k].state = "none"
        <4> SUFFICES ASSUME ev'[f].state # "done" PROVE ev'[k].state = "none"
          OBVIOUS
        <4>1. f # e /\ ev[f].state # "done"
          BY <1>2, <1>3, <1>6
        <4>2. k \notin ev[e].kids /\ k # e
          BY <1>7, <3>1, <4>1 DEF Kin
        <4> QED
          BY <1>6, <3>1, <4>1, <4>2
      <3> QED
        BY <3>1, <3>2, <3>3
    <2>2. \A f, g \in Events : \A k \in ev'[f].kids : k \in ev'[g].kids => f = g
      BY <1>6, <1>7 DEF Kin
    <2>3. ASSUME NEW k \in Events, ev'[k].state = "none"
          PROVE  \E f \in Events : k \in ev'[f].kids /\ ev'[f].state # "done"
      <3>1. ev[k].state = "none" /\ k \notin ev[e].kids
        BY <1>2, <1>3, <1>6, <2>3
      <3>2. PICK f \in Events : k \in ev[f].kids /\ ev[f].state # "done"
        BY <1>7, <3>1 DEF Kin
      <3>3. f # e /\ ev'[f].state # "done" /\ k \in ev'[f].kids
        BY <1>3, <1>6, <3>1, <3>2
      <3> QED
        BY <3>3
    <2>4. \A k \in Events : ev'[k].parents = IF ev'[k].state = "none" THEN 1 ELSE 0
      BY <1>2, <1>3, <1>6, <1>7 DEF Kin
    <2> QED
      BY <2>1, <2>2, <2>3, <2>4 DEF Kin
  <1>10. Marks'
    <2> SUFFICES ASSUME NEW x \in Events, IsCrossing(x), ev'[x].state # "free"
                 PROVE  /\ ev'[x].called <=> ev'[Origin(x)].state = "done"
                        /\ ev'[x].called =>
                              ev'[x].doneCycle >= ev'[Origin(x)].at + ev'[Origin(x)].post
                        /\ ev'[x].state = "done" =>
                              ev'[x].called /\ ev'[x].at >= ev'[x].doneCycle
      BY DEF Marks, IsCrossing, Origin
    <2> DEFINE y == Origin(x)
    <2>1. ev[x].state # "free"
      BY <1>2, <1>3, <1>6
    <2>2. /\ ev[x].called <=> ev[y].state = "done"
          /\ ev[x].called => ev[x].doneCycle >= ev[y].at + ev[y].post
          /\ ev[x].state = "done" => ev[x].called /\ ev[x].at >= ev[x].doneCycle
      BY <2>1 DEF Graph, Marks
    <2>3. y \in Events /\ ~IsCrossing(y) /\ MarkedBy(y) = x
      BY Crossings
    <2>4. /\ ev[x].at \in Nat /\ ev[x].doneCycle \in Nat /\ ev[y].at \in Nat /\ ev[y].post \in Nat
          /\ ev'[x].doneCycle \in Nat
      <3>1. ev' \in [Events -> Records]
        BY <1>0 DEF DoneShape
      <3>2. ev'[x] \in Records
        BY <3>1
      <3> QED
        BY <2>3, <3>2, EventType DEF Records
    <2>5. CASE y = e
      <3>1. Marked(e, x) /\ x # e
        BY <2>1, <2>3, <2>5 DEF Marked
      <3>2. ~ev[x].called /\ ev[x].state # "done"
        BY <2>2, <2>5
      <3> QED
        BY <1>2, <1>4, <2>4, <2>5, <3>1, <3>2
    <2>6. CASE y # e
      <3>1. ~Marked(e, x)
        BY <2>6, Crossings DEF Marked
      <3>2. ev'[y].state = "done" <=> ev[y].state = "done"
        BY <1>3, <1>6, <2>3, <2>6
      <3>3. ev[y].state = "done" => ev'[y] = ev[y]
        <4> SUFFICES ASSUME ev[y].state = "done" PROVE ev'[y] = ev[y]
          OBVIOUS
        <4>1. y \notin ev[e].kids /\ ~Marked(e, y)
          BY <1>3, <2>3, Crossings DEF Marked
        <4> QED
          BY <1>5, <2>3, <2>6, <4>1
      <3>4. ev'[x].called = ev[x].called /\ (ev[x].called => ev'[x].doneCycle >= ev[x].doneCycle)
        BY <1>2, <1>3, <1>5, <2>4, <3>1
      <3>5. ev'[x].called =>
               ev'[x].doneCycle >= ev'[Origin(x)].at + ev'[Origin(x)].post
        BY <2>2, <2>4, <3>3, <3>4
      <3>6. ev'[x].state = "done" => ev'[x].called /\ ev'[x].at >= ev'[x].doneCycle
        BY <1>2, <1>3, <1>5, <2>2, <3>1
      <3> QED
        BY <2>2, <3>2, <3>4, <3>5, <3>6
    <2> QED
      BY <2>5, <2>6
  <1> QED
    BY <1>8, <1>9, <1>10 DEF Graph

(* A step that only takes one event out of its queue, or puts it back there.  *)
MoveShape(e) ==
    /\ ev' \in [Events -> Records]
    /\ ev[e].state \in {"queued", "running"} /\ ev'[e].state \in {"queued", "running"}
    /\ ev'[e].at >= ev[e].at /\ ev'[e].rel >= ev[e].rel /\ ev'[e].entry = ev[e].entry
    /\ ev'[e].kids = ev[e].kids /\ ev'[e].parents = ev[e].parents
    /\ ev'[e].pre = ev[e].pre /\ ev'[e].post = ev[e].post
    /\ ev'[e].minStart = ev[e].minStart
    /\ ev'[e].called = ev[e].called /\ ev'[e].doneCycle = ev[e].doneCycle
    /\ \A k \in Events : k # e => ev'[k] = ev[k]

(* Changing the state and the cycle of a queued or running event is such a step. *)
LEMMA MoveIs ==
    ASSUME WellTyped, NEW e \in Events, NEW st \in {"queued", "running"}, NEW a \in Nat,
           ev[e].state \in {"queued", "running"}, a >= ev[e].at,
           ev' = [ev EXCEPT ![e].state = st, ![e].at = a]
    PROVE  MoveShape(e) /\ ev'[e].state = st /\ ev'[e].at = a /\ ev'[e].rel = ev[e].rel
  <1>1. ev \in [Events -> Records] /\ ev[e] \in Records /\ ev[e].rel \in Nat
    BY EventType DEF WellTyped
  <1>2. ev'[e] = [ev[e] EXCEPT !.state = st, !.at = a] /\ \A k \in Events : k # e => ev'[k] = ev[k]
    BY <1>1
  <1>3. /\ ev'[e] \in Records /\ ev'[e].state = st /\ ev'[e].at = a /\ Same(e)
        /\ ev'[e].called = ev[e].called /\ ev'[e].doneCycle = ev[e].doneCycle
    BY <1>1, <1>2 DEF Records, Same
  <1>4. ev' \in [Events -> Records]
    BY <1>1, <1>2, <1>3
  <1> QED
    BY <1>1, <1>2, <1>3, <1>4 DEF MoveShape, Same

(* Such a step is a step forward. *)
LEMMA MoveProgress ==
    ASSUME WellTyped, NEW e \in Events, MoveShape(e)
    PROVE  Progress
  <1>1. \A k \in Events : ev[k].entry \in Nat /\ ev[k].rel \in Nat /\ ev[k].at \in Nat
                          /\ ev[k].doneCycle \in Nat
    BY EventType
  <1> SUFFICES ASSUME NEW k \in Events, ev[k].state # "free"
               PROVE  /\ ev'[k].state # "free" /\ Kept(k)
                      /\ ev'[k].state = "none" => ev[k].state = "none"
                      /\ ev[k].state = "done" =>
                            /\ ev'[k].state = "done" /\ ev'[k].at = ev[k].at
                            /\ ev'[k].doneCycle = ev[k].doneCycle
                      /\ ev[k].state # "none" =>
                            /\ ev'[k].at >= ev[k].at /\ ev'[k].entry = ev[k].entry
                            /\ ev'[k].rel >= ev[k].rel
                      /\ ev[k].state = "none" => ev'[k].state = "none"
                      /\ ev'[k].state = "done" => ev[k].state = "done"
                      /\ ev'[k].called = ev[k].called /\ ev'[k].doneCycle >= ev[k].doneCycle
    BY Zenon DEF Progress
  <1>2. CASE k = e
    BY <1>1, <1>2 DEF MoveShape, Kept
  <1>3. CASE k # e
    BY <1>1, <1>3 DEF MoveShape, Kept
  <1> QED
    BY <1>2, <1>3

(* Such a step leaves parents, children and marks alone. *)
LEMMA MoveGraph ==
    ASSUME WellTyped, Graph, NEW e \in Events, MoveShape(e)
    PROVE  Graph'
  <1>1. \A k \in Events :
           /\ ev'[k].kids = ev[k].kids /\ ev'[k].parents = ev[k].parents
           /\ ev'[k].post = ev[k].post
           /\ ev'[k].called = ev[k].called /\ ev'[k].doneCycle = ev[k].doneCycle
           /\ ev[k].state = "done" => ev'[k].at = ev[k].at
           /\ ev'[k].state = "done" <=> ev[k].state = "done"
           /\ ev'[k].state = "none" <=> ev[k].state = "none"
           /\ ev'[k].state = "free" <=> ev[k].state = "free"
    BY DEF MoveShape
  <1>2. \A k \in Events : /\ <<k[1], "P">> \in Events /\ <<k[1], "C">> \in Events
                          /\ ev[k].kids \subseteq Events
    BY Pairs, EventType DEF Tags
  <1>3. Allocated'
    BY <1>1, <1>2 DEF Graph, Allocated
  <1>4. Kin'
    <2>1. ASSUME NEW f \in Events, NEW k \in ev'[f].kids
          PROVE  /\ ev'[f].state # "free" /\ ev'[k].state # "free"
                 /\ Domain(k) = Domain(f) /\ k # MarkedBy(f)
                 /\ ev'[f].state # "done" => ev'[k].state = "none"
      <3>1. k \in ev[f].kids /\ k \in Events
        BY <1>1, <1>2
      <3>2. /\ ev[f].state # "free" /\ ev[k].state # "free"
            /\ Domain(k) = Domain(f) /\ k # MarkedBy(f)
            /\ ev[f].state # "done" => ev[k].state = "none"
        BY <3>1 DEF Graph, Kin
      <3> QED
        BY <1>1, <3>1, <3>2
    <2>2. \A f, g \in Events : \A k \in ev'[f].kids : k \in ev'[g].kids => f = g
      BY <1>1, <1>2 DEF Graph, Kin
    <2>3. \A k \in Events : ev'[k].state = "none" =>
             \E f \in Events : k \in ev'[f].kids /\ ev'[f].state # "done"
      BY <1>1 DEF Graph, Kin
    <2>4. \A k \in Events : ev'[k].parents = IF ev'[k].state = "none" THEN 1 ELSE 0
      BY <1>1 DEF Graph, Kin
    <2> QED
      BY <2>1, <2>2, <2>3, <2>4 DEF Kin
  <1>5. Marks'
    <2>1. \A x \in Events : IsCrossing(x) => Origin(x) \in Events
      BY Crossings
    <2> SUFFICES ASSUME NEW x \in Events, IsCrossing(x), ev'[x].state # "free"
                 PROVE  /\ ev'[x].called <=> ev'[Origin(x)].state = "done"
                        /\ ev'[x].called =>
                              ev'[x].doneCycle >= ev'[Origin(x)].at + ev'[Origin(x)].post
                        /\ ev'[x].state = "done" =>
                              ev'[x].called /\ ev'[x].at >= ev'[x].doneCycle
      BY DEF Marks, IsCrossing, Origin
    <2>2. /\ ev[x].called <=> ev[Origin(x)].state = "done"
          /\ ev[x].called => ev[x].doneCycle >= ev[Origin(x)].at + ev[Origin(x)].post
          /\ ev[x].state = "done" => ev[x].called /\ ev[x].at >= ev[x].doneCycle
      BY <1>1 DEF Graph, Marks
    <2> QED
      BY <1>1, <2>1, <2>2
  <1> QED
    BY <1>3, <1>4, <1>5 DEF Graph

(* Cover(S, y, v) as time goes on: what kept y from ending before v still      *)
(* does.                                                                     *)
LEMMA CoverStays ==
    ASSUME WellTyped, Graph, Progress, ev' \in [Events -> Records],
           NEW S \in SUBSET Events, NEW y, NEW v \in Nat, Cover(S, y, v)
    PROVE  Cover(S, y, v)'
  <1>1. \A e \in Events : ev[e].at \in Nat /\ ev'[e].at \in Nat
    BY EventType DEF Records
  <1>2. y \in S
    BY DEF Cover
  <1> SUFFICES ASSUME NEW e \in S
               PROVE  /\ ev'[e].state # "free"
                      /\ ev'[e].state \in {"queued", "running"} => ev'[e].at >= v
                      /\ ev'[e].state = "none" =>
                            \E p \in S : e \in ev'[p].kids /\ ev'[p].state # "done"
    BY <1>2 DEF Cover
  <1>3. /\ ev[e].state # "free"
        /\ ev[e].state \in {"queued", "running"} => ev[e].at >= v
        /\ ev[e].state = "none" => \E p \in S : e \in ev[p].kids /\ ev[p].state # "done"
    BY DEF Cover
  <1>4. ev'[e].state # "free"
    BY <1>3 DEF Progress
  <1>5. ASSUME ev'[e].state \in {"queued", "running"} PROVE ev'[e].at >= v
    <2>1. CASE ev[e].state = "none"
      <3>1. PICK p \in Events : /\ e \in ev[p].kids /\ ev[p].state = "running"
                                /\ ev'[e].at >= ev[p].at
        BY <1>3, <1>5, <2>1 DEF Progress
      <3>2. PICK q \in S : e \in ev[q].kids
        BY <1>3, <2>1
      <3>3. p = q
        BY <3>1, <3>2 DEF Graph, Kin
      <3>4. ev[p].at >= v
        BY <3>1, <3>3 DEF Cover
      <3> QED
        BY <1>1, <3>1, <3>4
    <2>2. CASE ev[e].state \in {"queued", "running"}
      <3>1. ev'[e].at >= ev[e].at
        BY <1>3, <2>2 DEF Progress
      <3> QED
        BY <1>1, <1>3, <2>2, <3>1
    <2>3. ev[e].state # "done"
      BY <1>3, <1>5 DEF Progress
    <2> QED
      BY <1>3, <2>1, <2>2, <2>3, EventType
  <1>6. ASSUME ev'[e].state = "none"
        PROVE  \E p \in S : e \in ev'[p].kids /\ ev'[p].state # "done"
    <2>1. ev[e].state = "none"
      BY <1>3, <1>6 DEF Progress
    <2>2. PICK p \in S : e \in ev[p].kids /\ ev[p].state # "done"
      BY <1>3, <2>1
    <2>3. ev[p].state # "free"
      BY DEF Cover
    <2>4. ev'[p].state # "done" /\ e \in ev'[p].kids
      BY <1>6, <2>2, <2>3 DEF Progress, Kept
    <2> QED
      BY <2>4
  <1> QED
    BY <1>4, <1>5, <1>6

(* The slacks of a crossing are fixed once it is allocated, and they make up    *)
(* for its parent's post-delay.                                              *)
LEMMA SlackStays ==
    ASSUME WellTyped, Graph, NEW x \in Events, IsCrossing(x), ev[x].state # "free"
    PROVE  /\ ev[Origin(x)].state # "free"
           /\ PostSlack(x) \in Nat /\ Slack(x) \in Nat
           /\ Margin(x) \in Nat /\ Slack(x) = ev[Origin(x)].post + Margin(x)
           /\ Progress => Margin(x)' = Margin(x) /\ Slack(x)' = Slack(x)
  <1> DEFINE p == <<x[1], "P">>
             c == <<x[1], "C">>
  <1>1. /\ p \in Events /\ c \in Events /\ ev[p].state # "free" /\ ev[c].state # "free"
        /\ Origin(x) = IF x[2] = "X" THEN p ELSE c
    BY Pairs DEF Tags, Graph, Allocated, Origin
  <1>2. /\ ev[c].pre \in Nat /\ ev[p].post \in Nat /\ ev[c].post \in Nat
    BY <1>1, EventType
  <1> HIDE DEF p, c
  <1>3. /\ PostSlack(x) = IF x[2] = "X" THEN ev[c].pre ELSE 0
        /\ Slack(x) = PreSlack(ev[IF x[2] = "X" THEN p ELSE c].post) + PostSlack(x)
        /\ PostSlack(x)' = IF x[2] = "X" THEN ev'[c].pre ELSE 0
        /\ Slack(x)' = PreSlack(ev'[IF x[2] = "X" THEN p ELSE c].post) + PostSlack(x)'
    BY DEF PostSlack, Slack, p, c
  <1>4. PostSlack(x) \in Nat
    BY <1>2, <1>3
  <1>5. \A n \in Nat : PreSlack(n) \in Nat /\ PreSlack(n) >= n
    BY DEF PreSlack
  <1>6. Slack(x) = PreSlack(ev[Origin(x)].post) + PostSlack(x) /\ ev[Origin(x)].post \in Nat
    BY <1>1, <1>2, <1>3
  <1>7. /\ Slack(x) \in Nat /\ Slack(x) >= ev[Origin(x)].post
        /\ Margin(x) \in Nat /\ Slack(x) = ev[Origin(x)].post + Margin(x)
    BY <1>4, <1>5, <1>6 DEF Margin
  <1>8. ASSUME Progress PROVE Margin(x)' = Margin(x) /\ Slack(x)' = Slack(x)
    <2>1. ev'[c].pre = ev[c].pre /\ ev'[c].post = ev[c].post /\ ev'[p].post = ev[p].post
      BY <1>1, <1>8 DEF Progress, Kept
    <2>2. Slack(x)' = Slack(x)
      BY <1>3, <2>1
    <2>3. Margin(x)' = Slack(x)' - ev'[Origin(x)].post
      BY DEF Margin, Origin
    <2> QED
      BY <1>1, <2>1, <2>2, <2>3 DEF Margin
  <1> QED
    BY <1>1, <1>4, <1>7, <1>8

(* What explains a crossing's cycle goes on explaining it: when its source     *)
(* ends, the mark takes the place of the cycle it could not end before.        *)
LEMMA BoundedStays ==
    ASSUME WellTyped, Graph, Progress, ev' \in [Events -> Records],
           NEW x \in Events, IsCrossing(x), ev[x].state \notin {"free", "none"},
           NEW a \in Nat, Bounded(x, a)
    PROVE  Bounded(x, a)'
  <1>1. /\ ev[x].entry \in Nat /\ ev[x].rel \in Nat /\ ev[x].doneCycle \in Nat
        /\ ev'[x].entry \in Nat /\ ev'[x].rel \in Nat /\ ev'[x].doneCycle \in Nat
        /\ ev'[x].called \in BOOLEAN
    BY EventType DEF Records
  <1>2. /\ ev'[x].entry = ev[x].entry /\ ev'[x].rel >= ev[x].rel
        /\ ev[x].called => ev'[x].called /\ ev'[x].doneCycle >= ev[x].doneCycle
        /\ ~ev[x].called /\ ev'[x].called =>
              /\ ev[Origin(x)].state = "running"
              /\ ev'[x].doneCycle >= ev[Origin(x)].at + ev[Origin(x)].post
    BY DEF Progress
  <1>3. /\ Margin(x) \in Nat /\ Slack(x) = ev[Origin(x)].post + Margin(x)
        /\ Margin(x)' = Margin(x) /\ Slack(x)' = Slack(x)
    BY SlackStays
  <1>4. CASE a <= ev[x].entry \/ a <= ev[x].rel
    BY <1>1, <1>2, <1>4 DEF Bounded
  <1>5. CASE ev[x].called /\ a <= ev[x].doneCycle + Margin(x)
    BY <1>1, <1>2, <1>3, <1>5 DEF Bounded
  <1>6. CASE ~ev[x].called /\ Pending(x, a)
    <2>1. PICK v \in Nat, S \in SUBSET Events : a <= v + Slack(x) /\ Cover(S, Origin(x), v)
      BY <1>6 DEF Pending
    <2>2. CASE ~ev'[x].called
      <3>1. Cover(S, Origin(x), v)'
        BY <2>1, CoverStays
      <3>2. Pending(x, a)'
        BY <1>3, <2>1, <3>1 DEF Pending, Origin
      <3> QED
        BY <2>2, <3>2 DEF Bounded
    <2>3. CASE ev'[x].called
      <3>1. ev[Origin(x)].state = "running" /\ Origin(x) \in S
        BY <1>2, <1>6, <2>1, <2>3 DEF Cover
      <3>2. ev[Origin(x)].at >= v
        BY <2>1, <3>1 DEF Cover
      <3>3. Origin(x) \in Events
        BY Crossings
      <3>4. ev[Origin(x)].at \in Nat /\ ev[Origin(x)].post \in Nat
        BY <3>3, EventType
      <3>5. ev'[x].doneCycle >= ev[Origin(x)].at + ev[Origin(x)].post
        BY <1>2, <1>6, <2>3
      <3>6. a <= ev'[x].doneCycle + Margin(x)'
        BY <1>1, <1>3, <2>1, <3>2, <3>4, <3>5
      <3> QED
        BY <2>3, <3>6 DEF Bounded
    <2> QED
      BY <1>1, <2>2, <2>3
  <1> QED
    BY <1>4, <1>5, <1>6 DEF Bounded

(* Outside of a weave phase every thread sleeps and every clock is at the      *)
(* limit.                                                                    *)
LEMMA AtRest ==
    ASSUME WellTyped, Phases, ~InCSim
    PROVE  /\ limit = lastLimit /\ lock.wake = {} /\ lock.wait = FALSE /\ threadsDone = 0
           /\ \A i \in Threads : th[i].pc = "idle"
           /\ \A d \in Domains : dom[d].curCycle = lastLimit
  <1>1. limit = lastLimit
    BY ContentionAssumption DEF WellTyped, InCSim
  <1>2. Finished = SimThreads /\ lock.wake \subseteq SimThreads
    BY DEF Phases
  <1>3. lock.wake = {}
    BY <1>2 DEF Finished
  <1>4. \A i \in Threads : th[i].pc = "idle"
    BY <1>2 DEF Finished, Phases
  <1>5. \A d \in Domains : dom[d].curCycle = lastLimit
    BY <1>1, <1>3, <1>4, ClockType DEF Phases
  <1>6. lock.wait = FALSE /\ threadsDone = 0
    <2>1. lock.wait \in BOOLEAN
      BY DEF WellTyped
    <2> QED
      BY <2>1 DEF Phases
  <1> QED
    BY <1>1, <1>3, <1>4, <1>5, <1>6

(* Every event but the kids of two earlier ones and the events of t is left    *)
(* alone; a is the event P waits for, b the one X waits for, if there is one.  *)
RecordShape(t, a, b) ==
    /\ ev' \in [Events -> Records]
    /\ a # NoEvent => /\ a \in Events /\ a[1] # t /\ a[2] = "R" /\ Domain(a) = SrcDom[t]
                      /\ ev[a].state \notin {"free", "done"}
    /\ b # NoEvent => /\ b \in Events /\ b[1] # t /\ b[2] = "X" /\ Domain(b) = DstDom[t]
                      /\ ev[b].state \notin {"free", "done"}
    /\ \A e \in Events : e[1] # t =>
          /\ ev'[e].state = ev[e].state /\ ev'[e].at = ev[e].at
          /\ ev'[e].parents = ev[e].parents /\ ev'[e].minStart = ev[e].minStart
          /\ ev'[e].pre = ev[e].pre /\ ev'[e].post = ev[e].post
          /\ ev'[e].called = ev[e].called /\ ev'[e].doneCycle = ev[e].doneCycle
          /\ ev'[e].entry = ev[e].entry /\ ev'[e].rel = ev[e].rel
          /\ ev'[e].kids = ev[e].kids \cup (IF e = a THEN {<<t, "P">>} ELSE {})
                                      \cup (IF e = b THEN {<<t, "X">>} ELSE {})
    /\ \A e \in Events : e[1] = t =>
          /\ ev[e].state = "free" /\ ev'[e].state \in {"free", "none", "queued"}
          /\ ev'[e].parents = IF ev'[e].state = "none" THEN 1 ELSE 0
          /\ ev'[e].state # "free" =>
                /\ ev'[e].called = FALSE /\ ev'[e].at = ev'[e].entry
                /\ ev'[e].at = ev'[e].minStart
          /\ ev'[e].state = "queued" => ev'[e].at >= lastLimit /\ e[2] \in {"P", "X"}
    /\ ev'[<<t, "P">>].state = IF a = NoEvent THEN "queued" ELSE "none"
    /\ ev'[<<t, "X">>].state = IF b = NoEvent THEN "queued" ELSE "none"
    /\ ev'[<<t, "C">>].state = "none"
    /\ ev'[<<t, "Y">>].state = ev'[<<t, "R">>].state
    /\ ev'[<<t, "P">>].kids = IF ev'[<<t, "Y">>].state = "free" THEN {} ELSE {<<t, "Y">>}
    /\ ev'[<<t, "X">>].kids = {<<t, "C">>}
    /\ ev'[<<t, "C">>].kids = {} /\ ev'[<<t, "R">>].kids = {}
    /\ ev'[<<t, "Y">>].kids = IF ev'[<<t, "Y">>].state = "free" THEN {} ELSE {<<t, "R">>}

(* An event that is allocated. *)
IsNew(g, st, n, ms, ks) ==
    /\ g \in Records /\ g.state = st /\ g.parents = n /\ g.minStart = ms
    /\ g.kids = ks /\ g.at = ms /\ g.entry = ms /\ g.called = FALSE
NewRecord(st, n, ms, pr, po, ks) ==
    [state |-> st, cycle |-> 0, at |-> ms, parents |-> n, minStart |-> ms,
     pre |-> pr, post |-> po, kids |-> ks,
     called |-> FALSE, doneCycle |-> 0, entry |-> ms, rel |-> 0]

(* The record of a new event, field by field. *)
LEMMA NewRecordIs ==
    ASSUME NEW st \in {"none", "queued"}, NEW n \in {0, 1}, NEW ms \in Nat,
           NEW pr \in Nat, NEW po \in Nat, NEW ks \in SUBSET Events
    PROVE  IsNew(NewRecord(st, n, ms, pr, po, ks), st, n, ms, ks)
  <1> DEFINE g == NewRecord(st, n, ms, pr, po, ks)
  <1>1. /\ g.state = st /\ g.parents = n /\ g.minStart = ms
        /\ g.kids = ks /\ g.at = ms /\ g.entry = ms /\ g.called = FALSE
    BY DEF NewRecord
  <1>2. g \in Records
    <2>1. /\ st \in {"free", "none", "queued", "running", "done"} /\ 0 \in Nat
          /\ FALSE \in BOOLEAN
      OBVIOUS
    <2> QED
      BY <2>1 DEF Records, NewRecord
  <1> QED
    BY <1>1, <1>2 DEF IsNew

(* An allocated event is Fresh but for what the recorder sets. *)
LEMMA NewEvent ==
    ASSUME NEW g, NEW st \in {"none", "queued"}, NEW n \in {0, 1}, NEW ms \in Nat,
           NEW pr \in Nat, NEW po \in Nat, NEW ks \in SUBSET Events,
           g = [Fresh EXCEPT !.state = st, !.parents = n, !.minStart = ms, !.pre = pr,
                             !.post = po, !.kids = ks, !.at = ms, !.entry = ms]
    PROVE  IsNew(g, st, n, ms, ks)
  <1>1. g = NewRecord(st, n, ms, pr, po, ks)
    BY DEF Fresh, NewRecord
  <1>2. IsNew(NewRecord(st, n, ms, pr, po, ks), st, n, ms, ks)
    BY NewRecordIs
  <1> QED
    BY <1>1, <1>2, Zenon

(* Record has the effects that RecordShape lists: the response that P waits for *)
(* is not done, and the crossing that X is chained to has not been simulated. *)
LEMMA RecordIs ==
    ASSUME WellTyped, Graph, Links, Times, Phases,
           NEW t \in Txs, NEW type \in Types, NEW gap \in Gaps, NEW pre \in PreDelays,
           NEW post \in PostDelays, Record(t, type, gap, pre, post)
    PROVE  /\ \E a, b \in Events \cup {NoEvent} : RecordShape(t, a, b)
           /\ ~InCSim
           /\ rec' = rec \/ /\ ev'[<<t, "R">>].state # "free"
                            /\ \E n \in Nat :
                                 rec' = [rec EXCEPT ![Core[t]].tail = <<t, "R">>,
                                                    ![Core[t]].resp = n]
           /\ lastCrossing' = [lastCrossing EXCEPT ![Key(<<t, "X">>)] =
                                 [cycle |-> ev'[<<t, "X">>].minStart, ev |-> <<t, "X">>]]
           /\ UNCHANGED <<owner, dom, th, limit, lastLimit, lock, threadsDone>>
  <1> DEFINE c == Core[t]
             k == <<c, SrcDom[t], DstDom[t]>>
             m == Greater(lastLimit, rec[c].resp)
             tailOpen == rec[c].tail # NoEvent /\ ev[rec[c].tail].state # "done"
             xc == Greater(lastLimit, CrossingStart(m, gap))
             my == CrossingStart(m + gap, post)
             chained == Chains(k, xc)
             Ev(st, n, ms, pr, po, ks) ==
                 [Fresh EXCEPT !.state = st, !.parents = n, !.minStart = ms, !.pre = pr,
                               !.post = po, !.kids = ks, !.at = ms, !.entry = ms]
             put == type = "PUT"
             P == <<t, "P">>
             X == <<t, "X">>
             C == <<t, "C">>
             Y == <<t, "Y">>
             R == <<t, "R">>
             tail == rec[c].tail
             last == lastCrossing[k].ev
             a == IF tailOpen THEN tail ELSE NoEvent
             b == IF chained THEN last ELSE NoEvent
  <1>1. /\ ~InCSim
        /\ ev[P].state = "free"
        /\ ev' = [e \in Events |->
              CASE e = P -> Ev(IF tailOpen THEN "none" ELSE "queued",
                               IF tailOpen THEN 1 ELSE 0, m, 0, gap, IF put THEN {} ELSE {Y})
                [] e = X -> Ev(IF chained THEN "none" ELSE "queued",
                               IF chained THEN 1 ELSE 0, xc, 0, 0, {C})
                [] e = C -> Ev("none", 1, m + gap, pre, post, {})
                [] e = Y /\ ~put -> Ev("none", 1, my, 0, 0, {R})
                [] e = R /\ ~put -> Ev("none", 1, m + gap + BoundLat, 0, 0, {})
                [] OTHER ->
                    IF tailOpen /\ e = tail
                    THEN [ev[e] EXCEPT !.kids = @ \cup {P}]
                    ELSE IF chained /\ e = last
                    THEN [ev[e] EXCEPT !.kids = @ \cup {X}]
                    ELSE ev[e]]
        /\ lastCrossing' = [lastCrossing EXCEPT ![k] = [cycle |-> xc, ev |-> X]]
        /\ rec' = IF put THEN rec
                  ELSE [rec EXCEPT ![c].tail = R, ![c].resp = m + gap + BoundLat]
        /\ UNCHANGED <<owner, dom, th, limit, lastLimit, lock, threadsDone>>
    BY Zenon DEF Record
  <1>2. /\ gap \in Nat /\ pre \in Nat /\ post \in Nat /\ BoundLat \in Nat
        /\ SrcDom[t] \in Domains /\ DstDom[t] \in Domains
    BY ContentionAssumption
  <1>3. c \in Cores /\ k \in Keys
    BY DEF Cores, Keys
  <1>4. /\ rec[c] \in [tail : Events \cup {NoEvent}, resp : Nat, slack : Int]
        /\ lastCrossing[k] \in [cycle : Nat, ev : Events \cup {NoEvent}]
    BY <1>3 DEF WellTyped
  <1>5. /\ m \in Nat /\ m >= lastLimit /\ xc \in Nat /\ xc >= lastLimit
        /\ my \in Nat
    <2>1. lastLimit \in Nat /\ rec[c].resp \in Nat
      BY <1>4, ClockType
    <2>2. m \in Nat /\ m >= lastLimit
      BY <2>1, GreaterFacts
    <2>3. CrossingStart(m, gap) \in Nat /\ my \in Nat
      BY <1>2, <2>2 DEF PreSlack, CrossingStart
    <2>4. xc \in Nat /\ xc >= lastLimit
      BY <2>1, <2>3, GreaterFacts
    <2> QED
      BY <2>2, <2>3, <2>4
  <1>6. \A e \in Events : e[1] = t => ev[e].state = "free"
    BY <1>1 DEF Graph, Allocated
  <1>7. a # NoEvent => /\ a \in Events /\ a[1] # t /\ a[2] = "R" /\ Domain(a) = SrcDom[t]
                       /\ ev[a].state \notin {"free", "done"}
    <2> SUFFICES ASSUME a # NoEvent
                 PROVE  /\ a \in Events /\ a[1] # t /\ a[2] = "R" /\ Domain(a) = SrcDom[t]
                        /\ ev[a].state \notin {"free", "done"}
      OBVIOUS
    <2>1. /\ a = tail /\ tail \in Events /\ tail[2] = "R" /\ Core[tail[1]] = c
          /\ ev[tail].state \notin {"free", "done"}
      BY <1>3, <1>4 DEF Links
    <2>2. tail[1] \in Txs /\ tail[1] # t
      BY <1>6, <2>1, Pairs
    <2>3. Domain(tail) = SrcDom[tail[1]]
      BY <2>1 DEF Domain
    <2> QED
      BY <2>1, <2>2, <2>3, ContentionAssumption
  <1>8. b # NoEvent => /\ b \in Events /\ b[1] # t /\ b[2] = "X" /\ Domain(b) = DstDom[t]
                       /\ ev[b].state \notin {"free", "done"}
    <2> SUFFICES ASSUME b # NoEvent
                 PROVE  /\ b \in Events /\ b[1] # t /\ b[2] = "X" /\ Domain(b) = DstDom[t]
                        /\ ev[b].state \notin {"free", "done"}
      OBVIOUS
    <2>1. /\ b = last /\ last \in Events /\ last # NoEvent /\ chained
      BY <1>4
    <2>2. /\ last[2] = "X" /\ Key(last) = k /\ ev[last].state # "free"
          /\ ev[last].minStart = lastCrossing[k].cycle
      BY <1>3, <2>1 DEF Links
    <2>3. lastCrossing[k].cycle > dom[SrcDom[t]].curCycle
      BY <2>1 DEF Chains
    <2>4. dom[SrcDom[t]].curCycle = limit /\ limit \in Nat
      BY <1>1, <1>2, AtRest, ClockType
    <2>5. lastCrossing[k].cycle \in Nat
      BY <1>4
    <2>6. ev[last].state # "done"
      BY <2>1, <2>2, <2>3, <2>4, <2>5 DEF Times, IsCrossing
    <2>7. Domain(last) = DstDom[last[1]] /\ DstDom[last[1]] = DstDom[t]
      BY <2>2 DEF Domain, Key
    <2> QED
      BY <1>6, <2>1, <2>2, <2>6, <2>7
  <1>9. /\ P \in Events /\ X \in Events /\ C \in Events /\ Y \in Events /\ R \in Events
        /\ P # X /\ P # C /\ P # Y /\ P # R /\ X # C /\ X # Y /\ X # R /\ C # Y /\ C # R
        /\ Y # R
        /\ \A e \in Events : e[1] = t => e \in {P, X, C, Y, R}
        /\ P[1] = t /\ X[1] = t /\ C[1] = t /\ Y[1] = t /\ R[1] = t
        /\ P[2] = "P" /\ X[2] = "X"
    BY Pairs DEF Tags
  <1>10. chained => b # NoEvent
    <2>1. ASSUME chained, last = NoEvent PROVE FALSE
      <3>1. lastCrossing[k].cycle = 0
        BY <1>3, <2>1 DEF Links
      <3>2. dom[SrcDom[t]].curCycle \in Nat /\ lastCrossing[k].cycle > dom[SrcDom[t]].curCycle
        BY <1>2, <2>1, ClockType DEF Chains
      <3> QED
        BY <3>1, <3>2
    <2> QED
      BY <2>1
  <1>11. /\ (IF tailOpen THEN "none" ELSE "queued") \in {"none", "queued"}
         /\ (IF tailOpen THEN 1 ELSE 0) \in {0, 1}
         /\ (IF chained THEN "none" ELSE "queued") \in {"none", "queued"}
         /\ (IF chained THEN 1 ELSE 0) \in {0, 1}
         /\ (IF put THEN {} ELSE {Y}) \in SUBSET Events /\ {C} \in SUBSET Events
         /\ {R} \in SUBSET Events /\ {} \in SUBSET Events
         /\ m + gap \in Nat /\ m + gap + BoundLat \in Nat
    BY <1>2, <1>5, <1>9
  <1>12. /\ tailOpen => a = tail
         /\ ~tailOpen => a = NoEvent
         /\ chained => b = last
         /\ ~chained => b = NoEvent
         /\ tailOpen => tail # NoEvent
         /\ xc = xc
    OBVIOUS
  <1>13. \A e \in Events : e \notin {P, X, C, Y, R} \/ (put /\ e \in {Y, R}) =>
            ev'[e] = IF tailOpen /\ e = tail
                     THEN [ev[e] EXCEPT !.kids = @ \cup {P}]
                     ELSE IF chained /\ e = last
                     THEN [ev[e] EXCEPT !.kids = @ \cup {X}]
                     ELSE ev[e]
    <2> HIDE DEF Ev, m, my, xc, tailOpen, chained, put, P, X, C, Y, R, tail, last, a, b
    <2> QED
      BY <1>1, <1>9
  <1>14. /\ ev'[P] = Ev(IF tailOpen THEN "none" ELSE "queued",
                        IF tailOpen THEN 1 ELSE 0, m, 0, gap, IF put THEN {} ELSE {Y})
         /\ ev'[X] = Ev(IF chained THEN "none" ELSE "queued",
                        IF chained THEN 1 ELSE 0, xc, 0, 0, {C})
         /\ ev'[C] = Ev("none", 1, m + gap, pre, post, {})
         /\ ~put => ev'[Y] = Ev("none", 1, my, 0, 0, {R})
         /\ ~put => ev'[R] = Ev("none", 1, m + gap + BoundLat, 0, 0, {})
    <2> HIDE DEF Ev, m, my, xc, tailOpen, chained, put, P, X, C, Y, R, tail, last, a, b
    <2> QED
      BY <1>1, <1>9
  <1>15. ASSUME NEW g, NEW st \in {"none", "queued"}, NEW n \in {0, 1}, NEW ms \in Nat,
                NEW pr \in Nat, NEW po \in Nat, NEW ks \in SUBSET Events,
                g = Ev(st, n, ms, pr, po, ks)
         PROVE  IsNew(g, st, n, ms, ks)
    BY <1>15, NewEvent, Zenon
  <1>16. /\ IsNew(ev'[P], IF tailOpen THEN "none" ELSE "queued",
                   IF tailOpen THEN 1 ELSE 0, m, IF put THEN {} ELSE {Y})
         /\ IsNew(ev'[X], IF chained THEN "none" ELSE "queued",
                   IF chained THEN 1 ELSE 0, xc, {C})
         /\ IsNew(ev'[C], "none", 1, m + gap, {})
         /\ ~put => IsNew(ev'[Y], "none", 1, my, {R})
         /\ ~put => IsNew(ev'[R], "none", 1, m + gap + BoundLat, {})
    <2> HIDE DEF Ev, m, my, xc, tailOpen, chained, put, P, X, C, Y, R, tail, last, a, b
    <2> QED
      BY <1>2, <1>5, <1>11, <1>14, <1>15
  <1>17. ASSUME NEW e \in Events, e \notin {P, X, C, Y, R} \/ (put /\ e \in {Y, R})
         PROVE  /\ ev'[e] \in Records
                /\ ev'[e].state = ev[e].state /\ ev'[e].at = ev[e].at
                /\ ev'[e].parents = ev[e].parents /\ ev'[e].minStart = ev[e].minStart
                /\ ev'[e].pre = ev[e].pre /\ ev'[e].post = ev[e].post
                /\ ev'[e].called = ev[e].called /\ ev'[e].doneCycle = ev[e].doneCycle
                /\ ev'[e].entry = ev[e].entry /\ ev'[e].rel = ev[e].rel
                /\ ev'[e].kids = ev[e].kids \cup (IF e = a THEN {P} ELSE {})
                                            \cup (IF e = b THEN {X} ELSE {})
    <2>1. ev[e] \in Records /\ ev[e].kids \subseteq Events
      BY EventType
    <2>2. a = NoEvent \/ b = NoEvent \/ a # b
      BY <1>7, <1>8
    <2>3. e # NoEvent
      BY Pairs
    <2> HIDE DEF Ev, m, my, xc, tailOpen, chained, put, P, X, C, Y, R, tail, last, a, b
    <2>4. CASE tailOpen /\ e = tail
      <3>1. ev'[e] = [ev[e] EXCEPT !.kids = ev[e].kids \cup {P}] /\ e = a /\ e # b
        BY <1>12, <1>13, <1>17, <2>2, <2>3, <2>4
      <3>2. ev[e].kids \cup {P} \in SUBSET Events
        BY <1>9, <2>1
      <3>3. ev[e].kids \cup {P} = ev[e].kids \cup (IF e = a THEN {P} ELSE {})
                                             \cup (IF e = b THEN {X} ELSE {})
        BY <3>1
      <3> DEFINE n == ev[e].kids \cup {P}
      <3>4. ev'[e] = [ev[e] EXCEPT !.kids = n] /\ n \in SUBSET Events
        BY <3>1, <3>2
      <3> HIDE DEF n
      <3>5. /\ ev'[e] \in Records
            /\ ev'[e].state = ev[e].state /\ ev'[e].at = ev[e].at
            /\ ev'[e].parents = ev[e].parents /\ ev'[e].minStart = ev[e].minStart
            /\ ev'[e].pre = ev[e].pre /\ ev'[e].post = ev[e].post
            /\ ev'[e].called = ev[e].called /\ ev'[e].doneCycle = ev[e].doneCycle
            /\ ev'[e].entry = ev[e].entry /\ ev'[e].rel = ev[e].rel
            /\ ev'[e].kids = n
        BY <2>1, <3>4 DEF Records
      <3> QED
        BY <3>3, <3>5 DEF n
    <2>5. CASE ~(tailOpen /\ e = tail) /\ chained /\ e = last
      <3>1. ev'[e] = [ev[e] EXCEPT !.kids = ev[e].kids \cup {X}] /\ e = b /\ e # a
        BY <1>12, <1>13, <1>17, <2>3, <2>5
      <3>2. ev[e].kids \cup {X} \in SUBSET Events
        BY <1>9, <2>1
      <3>3. ev[e].kids \cup {X} = ev[e].kids \cup (IF e = a THEN {P} ELSE {})
                                             \cup (IF e = b THEN {X} ELSE {})
        BY <3>1
      <3> DEFINE n == ev[e].kids \cup {X}
      <3>4. ev'[e] = [ev[e] EXCEPT !.kids = n] /\ n \in SUBSET Events
        BY <3>1, <3>2
      <3> HIDE DEF n
      <3>5. /\ ev'[e] \in Records
            /\ ev'[e].state = ev[e].state /\ ev'[e].at = ev[e].at
            /\ ev'[e].parents = ev[e].parents /\ ev'[e].minStart = ev[e].minStart
            /\ ev'[e].pre = ev[e].pre /\ ev'[e].post = ev[e].post
            /\ ev'[e].called = ev[e].called /\ ev'[e].doneCycle = ev[e].doneCycle
            /\ ev'[e].entry = ev[e].entry /\ ev'[e].rel = ev[e].rel
            /\ ev'[e].kids = n
        BY <2>1, <3>4 DEF Records
      <3> QED
        BY <3>3, <3>5 DEF n
    <2>6. CASE ~(tailOpen /\ e = tail) /\ ~(chained /\ e = last)
      <3>1. ev'[e] = ev[e]
        BY <1>13, <1>17, <2>6, Zenon
      <3>2. e # a /\ e # b
        BY <1>12, <2>3, <2>6
      <3> QED
        BY <2>1, <3>1, <3>2
    <2> QED
      BY <2>4, <2>5, <2>6
  <1> HIDE DEF Ev, m, my, xc, tailOpen, chained, put, tail, last, a, b
  <1>18. ev' \in [Events -> Records]
    <2>1. ev' = [e \in Events |-> ev'[e]]
      BY <1>1
    <2>2. ASSUME NEW e \in Events PROVE ev'[e] \in Records
      <3> HIDE DEF P, X, C, Y, R
      <3>1. CASE e \in {P, X, C} \/ (~put /\ e \in {Y, R})
        BY <1>16, <3>1 DEF IsNew
      <3>2. CASE e \notin {P, X, C, Y, R} \/ (put /\ e \in {Y, R})
        BY <1>17, <3>2
      <3> QED
        BY <3>1, <3>2
    <2> QED
      BY <2>1, <2>2
  <1>19. /\ put => ev'[Y].state = "free" /\ ev'[R].state = "free"
         /\ put => ev'[Y].kids = {} /\ ev'[R].kids = {}
         /\ put => ev'[Y].parents = 0 /\ ev'[R].parents = 0
         /\ ~put => ev'[Y].state = "none" /\ ev'[R].state = "none"
         /\ ~put => ev'[Y].kids = {R} /\ ev'[R].kids = {}
    <2>1. ASSUME NEW e \in {Y, R}, put
          PROVE  ev'[e].state = "free" /\ ev'[e].kids = {} /\ ev'[e].parents = 0
      <3>1. e \in Events /\ e # NoEvent /\ e[1] = t /\ ev[e].state = "free"
        BY <1>6, <1>9, Pairs
      <3>2. e # a /\ e # b
        BY <1>7, <1>8, <3>1
      <3>3. ev[e].kids = {} /\ ev[e].parents = 0
        BY <3>1 DEF Graph, Kin
      <3> QED
        BY <1>17, <2>1, <3>1, <3>2, <3>3
    <2> QED
      BY <1>16, <2>1 DEF IsNew
  <1>20. ASSUME NEW e \in Events, e[1] = t
         PROVE  /\ ev[e].state = "free" /\ ev'[e].state \in {"free", "none", "queued"}
                /\ ev'[e].parents = IF ev'[e].state = "none" THEN 1 ELSE 0
                /\ ev'[e].state # "free" =>
                      /\ ev'[e].called = FALSE /\ ev'[e].at = ev'[e].entry
                      /\ ev'[e].at = ev'[e].minStart
                /\ ev'[e].state = "queued" => ev'[e].at >= lastLimit /\ e[2] \in {"P", "X"}
    <2>1. ev[e].state = "free"
      BY <1>6, <1>20
    <2>2. CASE e = P
      BY <1>5, <1>9, <1>16, <2>1, <2>2 DEF IsNew
    <2>3. CASE e = X
      BY <1>5, <1>9, <1>16, <2>1, <2>3 DEF IsNew
    <2>4. CASE e = C
      BY <1>16, <2>1, <2>4 DEF IsNew
    <2>5. CASE e \in {Y, R} /\ put
      BY <1>19, <2>1, <2>5
    <2>6. CASE e \in {Y, R} /\ ~put
      BY <1>16, <2>1, <2>6 DEF IsNew
    <2> QED
      BY <1>9, <1>20, <2>2, <2>3, <2>4, <2>5, <2>6
  <1>21. /\ ev'[P].state = IF a = NoEvent THEN "queued" ELSE "none"
         /\ ev'[X].state = IF b = NoEvent THEN "queued" ELSE "none"
         /\ ev'[C].state = "none"
         /\ ev'[Y].state = ev'[R].state
         /\ ev'[P].kids = IF ev'[Y].state = "free" THEN {} ELSE {Y}
         /\ ev'[X].kids = {C}
         /\ ev'[C].kids = {} /\ ev'[R].kids = {}
         /\ ev'[Y].kids = IF ev'[Y].state = "free" THEN {} ELSE {R}
    BY <1>10, <1>12, <1>16, <1>19 DEF IsNew
  <1>22. \A e \in Events : e[1] # t =>
          /\ ev'[e].state = ev[e].state /\ ev'[e].at = ev[e].at
          /\ ev'[e].parents = ev[e].parents /\ ev'[e].minStart = ev[e].minStart
          /\ ev'[e].pre = ev[e].pre /\ ev'[e].post = ev[e].post
          /\ ev'[e].called = ev[e].called /\ ev'[e].doneCycle = ev[e].doneCycle
          /\ ev'[e].entry = ev[e].entry /\ ev'[e].rel = ev[e].rel
          /\ ev'[e].kids = ev[e].kids \cup (IF e = a THEN {P} ELSE {})
                                      \cup (IF e = b THEN {X} ELSE {})
    <2> HIDE DEF P, X, C, Y, R
    <2> QED
      BY <1>9, <1>17
  <1>23. RecordShape(t, a, b)
    BY <1>7, <1>8, <1>18, <1>20, <1>21, <1>22 DEF RecordShape
  <1>24. a \in Events \cup {NoEvent} /\ b \in Events \cup {NoEvent}
    BY <1>7, <1>8
  <1>25. rec' = rec \/ /\ ev'[R].state # "free"
                       /\ \E n \in Nat :
                             rec' = [rec EXCEPT ![Core[t]].tail = R, ![Core[t]].resp = n]
    <2>1. CASE put
      BY <1>1, <2>1
    <2>2. CASE ~put
      <3>1. rec' = [rec EXCEPT ![Core[t]].tail = R, ![Core[t]].resp = m + gap + BoundLat]
        BY <1>1, <2>2
      <3>2. m + gap + BoundLat \in Nat /\ ev'[R].state # "free"
        BY <1>11, <1>19, <2>2
      <3> QED
        BY <3>1, <3>2
    <2> QED
      BY <2>1, <2>2
  <1>26. lastCrossing' = [lastCrossing EXCEPT ![Key(X)] = [cycle |-> ev'[X].minStart, ev |-> X]]
    <2>1. Key(X) = k /\ ev'[X].minStart = xc
      BY <1>9, <1>16 DEF Key, IsNew
    <2> QED
      BY <1>1, <2>1
  <1>27. \E aa, bb \in Events \cup {NoEvent} : RecordShape(t, aa, bb)
    BY <1>23, <1>24
  <1> QED
    BY <1>1, <1>25, <1>26, <1>27

(* Recording is a step forward for the events there are. *)
LEMMA RecordProgress ==
    ASSUME WellTyped, NEW t \in Txs, NEW a, NEW b, RecordShape(t, a, b)
    PROVE  Progress
  <1>1. \A k \in Events : ev[k].entry \in Nat /\ ev[k].rel \in Nat /\ ev[k].at \in Nat
                          /\ ev[k].doneCycle \in Nat
    BY EventType
  <1>2. \A e \in Events : ev[e].state # "free" =>
          /\ ev'[e].state = ev[e].state /\ ev'[e].at = ev[e].at
          /\ ev'[e].minStart = ev[e].minStart
          /\ ev'[e].pre = ev[e].pre /\ ev'[e].post = ev[e].post
          /\ ev'[e].called = ev[e].called /\ ev'[e].doneCycle = ev[e].doneCycle
          /\ ev'[e].entry = ev[e].entry /\ ev'[e].rel = ev[e].rel
          /\ ev[e].kids \subseteq ev'[e].kids
    BY DEF RecordShape
  <1> SUFFICES ASSUME NEW k \in Events, ev[k].state # "free"
               PROVE  /\ ev'[k].state # "free" /\ Kept(k)
                      /\ ev'[k].state = "none" => ev[k].state = "none"
                      /\ ev[k].state = "done" =>
                            /\ ev'[k].state = "done" /\ ev'[k].at = ev[k].at
                            /\ ev'[k].doneCycle = ev[k].doneCycle
                      /\ ev[k].state # "none" =>
                            /\ ev'[k].at >= ev[k].at /\ ev'[k].entry = ev[k].entry
                            /\ ev'[k].rel >= ev[k].rel
                      /\ ev[k].state = "none" => ev'[k].state = "none"
                      /\ ev'[k].state = "done" => ev[k].state = "done"
                      /\ ev'[k].called = ev[k].called /\ ev'[k].doneCycle >= ev[k].doneCycle
    BY Zenon DEF Progress
  <1> QED
    BY <1>1, <1>2 DEF Kept

(* The new events are linked to each other and to at most two earlier ones. *)
LEMMA RecordGraph ==
    ASSUME WellTyped, Graph, NEW t \in Txs, NEW a \in Events \cup {NoEvent},
           NEW b \in Events \cup {NoEvent}, RecordShape(t, a, b)
    PROVE  Graph'
  <1> DEFINE P == <<t, "P">>
             X == <<t, "X">>
             C == <<t, "C">>
             Y == <<t, "Y">>
             R == <<t, "R">>
  <1>1. /\ P \in Events /\ X \in Events /\ C \in Events /\ Y \in Events /\ R \in Events
        /\ P # X /\ P # C /\ P # Y /\ P # R /\ X # C /\ X # Y /\ X # R /\ C # Y /\ C # R
        /\ Y # R
        /\ \A e \in Events : e[1] = t => e \in {P, X, C, Y, R}
        /\ P[1] = t /\ X[1] = t /\ C[1] = t /\ Y[1] = t /\ R[1] = t
        /\ NoEvent \notin Events
    BY Pairs DEF Tags
  <1>2. /\ Domain(P) = SrcDom[t] /\ Domain(Y) = SrcDom[t] /\ Domain(R) = SrcDom[t]
        /\ Domain(X) = DstDom[t] /\ Domain(C) = DstDom[t]
        /\ MarkedBy(P) = X /\ MarkedBy(X) = NoEvent /\ MarkedBy(Y) = NoEvent
    BY DEF Domain, MarkedBy
  <1>3. \A e \in Events : e[1] # t =>
           /\ ev'[e].state = ev[e].state /\ ev'[e].at = ev[e].at
           /\ ev'[e].parents = ev[e].parents /\ ev'[e].post = ev[e].post
           /\ ev'[e].called = ev[e].called /\ ev'[e].doneCycle = ev[e].doneCycle
           /\ ev'[e].kids = ev[e].kids \cup (IF e = a THEN {P} ELSE {})
                                       \cup (IF e = b THEN {X} ELSE {})
    BY DEF RecordShape
  <1>4. \A e \in Events : e[1] = t =>
           /\ ev[e].state = "free" /\ ev'[e].state \in {"free", "none", "queued"}
           /\ ev'[e].parents = IF ev'[e].state = "none" THEN 1 ELSE 0
           /\ ev'[e].state # "free" => ev'[e].called = FALSE
    BY DEF RecordShape
  <1>5. /\ a # NoEvent => /\ a \in Events /\ a[1] # t /\ a[2] = "R" /\ Domain(a) = SrcDom[t]
                          /\ ev[a].state \notin {"free", "done"}
        /\ b # NoEvent => /\ b \in Events /\ b[1] # t /\ b[2] = "X" /\ Domain(b) = DstDom[t]
                          /\ ev[b].state \notin {"free", "done"}
        /\ ev'[P].state = IF a = NoEvent THEN "queued" ELSE "none"
        /\ ev'[X].state = IF b = NoEvent THEN "queued" ELSE "none"
        /\ ev'[C].state = "none"
        /\ ev'[Y].state = ev'[R].state
        /\ ev'[P].kids = IF ev'[Y].state = "free" THEN {} ELSE {Y}
        /\ ev'[X].kids = {C} /\ ev'[C].kids = {} /\ ev'[R].kids = {}
        /\ ev'[Y].kids = IF ev'[Y].state = "free" THEN {} ELSE {R}
    BY DEF RecordShape
  <1>6. MarkedBy(a) # P /\ MarkedBy(b) # X
    <2>1. ASSUME MarkedBy(a) = P PROVE FALSE
      <3>1. a # NoEvent
        BY <1>1, <2>1 DEF MarkedBy, NoEvent
      <3> QED
        BY <1>1, <1>5, <2>1, <3>1 DEF MarkedBy
    <2>2. ASSUME MarkedBy(b) = X PROVE FALSE
      <3>1. b # NoEvent
        BY <1>1, <2>2 DEF MarkedBy, NoEvent
      <3> QED
        BY <1>1, <1>5, <2>2, <3>1 DEF MarkedBy
    <2> QED
      BY <2>1, <2>2
  <1>7. Kin /\ \A e \in Events : ev[e].kids \subseteq Events
    BY EventType DEF Graph
  <1>8. Allocated'
    <2>1. ASSUME NEW e \in Events, ev'[e].state # "free"
          PROVE  ev'[<<e[1], "P">>].state # "free" /\ ev'[<<e[1], "C">>].state # "free"
      <3>1. CASE e[1] = t
        BY <1>5, <3>1
      <3>2. CASE e[1] # t
        <4>1. /\ <<e[1], "P">> \in Events /\ <<e[1], "C">> \in Events
              /\ <<e[1], "P">>[1] # t /\ <<e[1], "C">>[1] # t
          BY <3>2, Pairs DEF Tags
        <4>2. ev[e].state # "free"
          BY <1>3, <2>1, <3>2
        <4>3. ev[<<e[1], "P">>].state # "free" /\ ev[<<e[1], "C">>].state # "free"
          BY <4>2 DEF Graph, Allocated
        <4> QED
          BY <1>3, <4>1, <4>3
      <3> QED
        BY <3>1, <3>2
    <2> QED
      BY <2>1 DEF Allocated
  <1>12. ev'[Y].state # "free" => ev'[Y].state = "none"
    <2>1. Y[2] = "Y" /\ (ev'[Y].state = "queued" => Y[2] \in {"P", "X"})
      BY <1>1 DEF RecordShape
    <2> QED
      BY <1>1, <1>4, <2>1
  <1> HIDE DEF P, X, C, Y, R
  (* Which of the parents an event has. *)
  <1>9. ASSUME NEW f \in Events, NEW k \in ev'[f].kids
        PROVE  \/ /\ k \in ev[f].kids /\ k \in Events /\ f[1] # t /\ k[1] # t
               \/ k = P /\ f = a /\ a # NoEvent
               \/ k = X /\ f = b /\ b # NoEvent
               \/ k = Y /\ f = P /\ ev'[Y].state # "free"
               \/ k = C /\ f = X
               \/ k = R /\ f = Y /\ ev'[Y].state # "free"
    <2>1. CASE f[1] = t
      BY <1>1, <1>5, <1>9, <2>1
    <2>2. CASE f[1] # t
      <3>1. k \in ev[f].kids => k \in Events /\ k[1] # t
        BY <1>4, <1>7 DEF Kin
      <3>2. k \in ev[f].kids \/ (k = P /\ f = a) \/ (k = X /\ f = b)
        BY <1>3, <1>9, <2>2
      <3> QED
        BY <1>1, <2>2, <3>1, <3>2
    <2> QED
      BY <2>1, <2>2
  <1>10. Kin'
    <2>1. ASSUME NEW f \in Events, NEW k \in ev'[f].kids
          PROVE  /\ ev'[f].state # "free" /\ ev'[k].state # "free"
                 /\ Domain(k) = Domain(f) /\ k # MarkedBy(f)
                 /\ ev'[f].state # "done" => ev'[k].state = "none"
      <3>1. CASE k \in ev[f].kids /\ k \in Events /\ f[1] # t /\ k[1] # t
        <4>1. /\ ev[f].state # "free" /\ ev[k].state # "free"
              /\ Domain(k) = Domain(f) /\ k # MarkedBy(f)
              /\ ev[f].state # "done" => ev[k].state = "none"
          BY <1>7, <3>1 DEF Kin
        <4> QED
          BY <1>3, <3>1, <4>1
      <3>2. CASE k = P /\ f = a /\ a # NoEvent
        BY <1>2, <1>3, <1>5, <1>6, <3>2
      <3>3. CASE k = X /\ f = b /\ b # NoEvent
        BY <1>2, <1>3, <1>5, <1>6, <3>3
      <3>4. CASE k = Y /\ f = P /\ ev'[Y].state # "free"
        BY <1>1, <1>2, <1>5, <1>12, <3>4
      <3>5. CASE k = C /\ f = X
        BY <1>1, <1>2, <1>5, <3>5
      <3>6. CASE k = R /\ f = Y /\ ev'[Y].state # "free"
        BY <1>1, <1>2, <1>5, <1>12, <3>6
      <3> QED
        BY <1>9, <3>1, <3>2, <3>3, <3>4, <3>5, <3>6
    <2>2. ASSUME NEW f \in Events, NEW g \in Events, NEW k \in ev'[f].kids, k \in ev'[g].kids
          PROVE  f = g
      <3>1. CASE k \in ev[f].kids /\ k \in ev[g].kids
        BY <1>7, <3>1 DEF Kin
      <3>2. CASE k \notin ev[f].kids \/ k \notin ev[g].kids
        BY <1>1, <1>9, <2>2, <3>2
      <3> QED
        BY <3>1, <3>2
    <2>3. ASSUME NEW k \in Events, ev'[k].state = "none"
          PROVE  \E f \in Events : k \in ev'[f].kids /\ ev'[f].state # "done"
      <3>1. CASE k[1] # t
        <4>1. PICK f \in Events : k \in ev[f].kids /\ ev[f].state # "done"
          BY <1>3, <1>7, <2>3, <3>1 DEF Kin
        <4>2. f[1] # t
          BY <1>4, <1>7, <4>1 DEF Kin
        <4>3. k \in ev'[f].kids /\ ev'[f].state # "done"
          BY <1>3, <4>1, <4>2
        <4> QED
          BY <4>3
      <3>2. CASE k = P
        <4>1. a # NoEvent /\ P \in ev'[a].kids /\ ev'[a].state # "done"
          BY <1>3, <1>5, <2>3, <3>2
        <4> QED
          BY <1>5, <3>2, <4>1
      <3>3. CASE k = X
        <4>1. b # NoEvent /\ X \in ev'[b].kids /\ ev'[b].state # "done"
          BY <1>3, <1>5, <2>3, <3>3
        <4> QED
          BY <1>5, <3>3, <4>1
      <3>4. CASE k = C
        BY <1>1, <1>4, <1>5, <3>4
      <3>5. CASE k = Y
        BY <1>1, <1>4, <1>5, <2>3, <3>5
      <3>6. CASE k = R
        BY <1>1, <1>4, <1>5, <2>3, <3>6
      <3> QED
        BY <1>1, <3>1, <3>2, <3>3, <3>4, <3>5, <3>6
    <2>4. \A k \in Events : ev'[k].parents = IF ev'[k].state = "none" THEN 1 ELSE 0
      BY <1>3, <1>4, <1>7 DEF Kin
    <2> QED
      BY <2>1, <2>2, <2>3, <2>4 DEF Kin
  <1>11. Marks'
    <2> SUFFICES ASSUME NEW x \in Events, IsCrossing(x), ev'[x].state # "free"
                 PROVE  /\ ev'[x].called <=> ev'[Origin(x)].state = "done"
                        /\ ev'[x].called =>
                              ev'[x].doneCycle >= ev'[Origin(x)].at + ev'[Origin(x)].post
                        /\ ev'[x].state = "done" =>
                              ev'[x].called /\ ev'[x].at >= ev'[x].doneCycle
      BY DEF Marks, IsCrossing, Origin
    <2>1. Origin(x) \in Events /\ Origin(x)[1] = x[1]
      BY Crossings
    <2>2. CASE x[1] = t
      BY <1>4, <2>1, <2>2
    <2>3. CASE x[1] # t
      <3>1. ev[x].state # "free"
        BY <1>3, <2>3
      <3>2. /\ ev[x].called <=> ev[Origin(x)].state = "done"
            /\ ev[x].called => ev[x].doneCycle >= ev[Origin(x)].at + ev[Origin(x)].post
            /\ ev[x].state = "done" => ev[x].called /\ ev[x].at >= ev[x].doneCycle
        BY <3>1 DEF Graph, Marks
      <3> QED
        BY <1>3, <2>1, <2>3, <3>2
    <2> QED
      BY <2>2, <2>3
  <1> QED
    BY <1>8, <1>10, <1>11 DEF Graph

-----------------------------------------------------------------------------
(* What the parts of the invariant need of a step *)

(* Who owns what does not change. *)
LEMMA SameOwner ==
    ASSUME owner' = owner
    PROVE  /\ \A i : Owned(i)' = Owned(i) /\ Alone(i)' = Alone(i)
           /\ SimThreads' = SimThreads
  BY DEF Owned, Alone, SimThreads

(* Links, for the steps that record nothing. *)
LEMMA LinksStay ==
    ASSUME WellTyped, Links, Progress, lastCrossing' = lastCrossing,
           \A c \in Cores : rec'[c].tail = rec[c].tail
    PROVE  Links'
  <1>1. \A c \in Cores : rec[c].tail \in Events \cup {NoEvent}
    BY DEF WellTyped
  <1>2. \A k \in Keys : lastCrossing[k].ev \in Events \cup {NoEvent}
    BY DEF WellTyped
  <1>3. \A e \in Events : ev[e].state # "free" =>
           ev'[e].state # "free" /\ ev'[e].minStart = ev[e].minStart
    BY DEF Progress, Kept
  <1>4. ASSUME NEW c \in Cores, rec'[c].tail # NoEvent
        PROVE  /\ rec'[c].tail[2] = "R" /\ Core[rec'[c].tail[1]] = c
               /\ ev'[rec'[c].tail].state # "free"
    <2>1. /\ rec[c].tail[2] = "R" /\ Core[rec[c].tail[1]] = c /\ ev[rec[c].tail].state # "free"
          /\ rec[c].tail \in Events
      BY <1>1, <1>4 DEF Links
    <2> QED
      BY <1>3, <2>1
  <1>5. ASSUME NEW k \in Keys
        PROVE  IF lastCrossing[k].ev = NoEvent THEN lastCrossing[k].cycle = 0
               ELSE /\ lastCrossing[k].ev[2] = "X" /\ Key(lastCrossing[k].ev) = k
                    /\ ev'[lastCrossing[k].ev].state # "free"
                    /\ ev'[lastCrossing[k].ev].minStart = lastCrossing[k].cycle
    BY <1>2, <1>3 DEF Links
  <1> QED
    BY <1>4, <1>5 DEF Links, Key

(* Times, for the steps that move no clock. *)
LEMMA TimesStay ==
    ASSUME WellTyped, Graph, Times, Progress, ev' \in [Events -> Records], owner' = owner,
           \A d \in Domains : dom'[d].curCycle = dom[d].curCycle,
           limit' = limit,
           \A e \in Events : ev[e].state = "free" =>
              /\ ev'[e].state \in {"free", "none", "queued"}
              /\ ev'[e].state = "queued" => /\ ev'[e].at >= dom[Domain(e)].curCycle
                                            /\ ev'[e].at >= ev'[e].minStart,
           \A e \in Events : ev'[e].state = "running" =>
              ev[e].state = "running" /\ ev'[e].at = ev[e].at,
           \A e \in Events : /\ e[2] \in {"P", "R"} /\ ev[e].state # "done"
                             /\ ev'[e].state = "done" /\ Alone(owner[Domain(e)])
                             => ev'[e].at >= ev[e].minStart
    PROVE  Times'
  <1>1. \A e \in Events : /\ ev[e].at \in Nat /\ ev'[e].at \in Nat /\ ev[e].minStart \in Nat
                          /\ dom[Domain(e)].curCycle \in Nat
    BY EventType, ClockType, DomainType DEF Records
  <1>2. \A e \in Events :
           /\ ev[e].state = "queued" => ev[e].at >= dom[Domain(e)].curCycle
           /\ ev[e].state = "running" => ev[e].at = dom[Domain(e)].curCycle
    BY DEF Times
  <1>3. ASSUME NEW e \in Events
        PROVE  /\ ev'[e].state = "queued" => ev'[e].at >= dom'[Domain(e)].curCycle
               /\ ev'[e].state = "running" => ev'[e].at = dom'[Domain(e)].curCycle
    <2>1. dom'[Domain(e)].curCycle = dom[Domain(e)].curCycle
      BY DomainType
    <2>2. ASSUME ev'[e].state = "queued" PROVE ev'[e].at >= dom[Domain(e)].curCycle
      <3>1. CASE ev[e].state = "free"
        BY <2>2, <3>1
      <3>2. CASE ev[e].state = "none"
        <4>1. PICK p \in Events : /\ e \in ev[p].kids /\ ev[p].state = "running"
                                  /\ ev'[e].at >= ev[p].at
          BY <2>2, <3>2 DEF Progress
        <4>2. Domain(e) = Domain(p)
          BY <4>1 DEF Graph, Kin
        <4> QED
          BY <1>1, <1>2, <4>1, <4>2
      <3>3. CASE ev[e].state \in {"queued", "running"}
        <4>1. ev'[e].at >= ev[e].at
          BY <3>3 DEF Progress
        <4> QED
          BY <1>1, <1>2, <3>3, <4>1
      <3>4. ev[e].state # "done"
        BY <2>2 DEF Progress
      <3> QED
        BY <3>1, <3>2, <3>3, <3>4, EventType
    <2> QED
      BY <1>2, <2>1, <2>2
  <1>4. ASSUME NEW x \in Events, IsCrossing(x)
        PROVE  /\ ev'[x].state \in {"queued", "running"} => ev'[x].at >= ev'[x].minStart
               /\ ev'[x].state \in {"running", "done"} => ev'[x].minStart <= limit
    <2>1. CASE ev[x].state = "free"
      BY <1>4, <2>1
    <2>2. CASE ev[x].state # "free"
      <3>1. ev'[x].minStart = ev[x].minStart
        BY <2>2 DEF Progress, Kept
      <3>2. /\ ev[x].state \in {"queued", "running"} => ev[x].at >= ev[x].minStart
            /\ ev[x].state \in {"running", "done"} => ev[x].minStart <= limit
        BY <1>4 DEF Times
      <3>3. ASSUME ev'[x].state \in {"queued", "running"} PROVE ev'[x].at >= ev[x].minStart
        <4>1. CASE ev[x].state = "none"
          BY <1>4, <2>2, <3>3, <4>1 DEF Progress
        <4>2. CASE ev[x].state \in {"queued", "running"}
          <5>1. ev'[x].at >= ev[x].at
            BY <2>2, <4>2 DEF Progress
          <5> QED
            BY <1>1, <3>2, <4>2, <5>1
        <4>3. ev[x].state # "done"
          BY <2>2, <3>3 DEF Progress
        <4> QED
          BY <2>2, <4>1, <4>2, <4>3, EventType
      <3>4. ASSUME ev'[x].state \in {"running", "done"} PROVE ev[x].minStart <= limit
        <4>1. ev[x].state \in {"running", "done"}
          BY <2>2, <3>4 DEF Progress
        <4> QED
          BY <3>2, <4>1
      <3> QED
        BY <3>1, <3>3, <3>4
    <2> QED
      BY <2>1, <2>2
  <1>5. MinStartRespected'
    <2>1. ASSUME NEW e \in Events, e[2] \in {"P", "R"}, ev'[e].state = "done",
                 Alone(owner[Domain(e)])
          PROVE  ev'[e].at >= ev'[e].minStart
      <3>1. ev[e].state # "free"
        BY <2>1
      <3>2. ev'[e].minStart = ev[e].minStart
        BY <3>1 DEF Progress, Kept
      <3>3. CASE ev[e].state = "done"
        <4>1. ev'[e].at = ev[e].at
          BY <3>3 DEF Progress
        <4> QED
          BY <2>1, <3>2, <3>3, <4>1 DEF Times, MinStartRespected
      <3>4. CASE ev[e].state # "done"
        BY <2>1, <3>2, <3>4
      <3> QED
        BY <3>3, <3>4
    <2>2. \A e \in Events : Alone(owner[Domain(e)])' = Alone(owner[Domain(e)])
      BY DEF Alone, Owned, Domain
    <2> QED
      BY <2>1, <2>2 DEF MinStartRespected
  <1> QED
    BY <1>3, <1>4, <1>5 DEF Times, Domain, IsCrossing

(* Places, when thread i takes a step. *)
LEMMA PlacesStep ==
    ASSUME WellTyped, Places, NEW i \in Threads, NEW r, th' = [th EXCEPT ![i] = r],
           owner' = owner,
           \A e \in Events : owner[Domain(e)] # i =>
              /\ ev'[e].state = "running" <=> ev[e].state = "running"
              /\ ev[e].state = "running" => ev'[e].at = ev[e].at,
           Working(i, r)',
           \A e \in Events : owner[Domain(e)] = i /\ ev'[e].state = "running" =>
              r.pc \in Busy /\ r.te = e
    PROVE  Places'
  <1>1. th \in [Threads -> ThreadRecords] /\ th'[i] = r
        /\ \A k \in Threads : k # i => th'[k] = th[k]
    BY DEF WellTyped
  <1>2. ASSUME NEW k \in Threads, k # i PROVE Working(k, th[k])'
    <2>1. Working(k, th[k]) /\ th'[k] = th[k]
      BY <1>1, <1>2 DEF Places
    <2>2. /\ Owned(k)' = Owned(k) /\ Alone(k)' = Alone(k)
          /\ \A e \in Events : Domain(e)' = Domain(e)
      BY SameOwner DEF Domain
    <2>3. th[k].pc \in Busy => /\ ev'[th[k].te].state = "running"
                               /\ ev'[th[k].te].at = ev[th[k].te].at
      BY <1>2, <2>1 DEF Working
    <2> QED
      BY <2>1, <2>2, <2>3 DEF Working, IsCrossing, Busy
  <1>3. Working(i, th[i])'
    BY <1>1 DEF Working
  <1>4. ASSUME NEW e \in Events, ev'[e].state = "running"
        PROVE  th'[owner[Domain(e)]].pc \in Busy /\ th'[owner[Domain(e)]].te = e
    <2>1. owner[Domain(e)] \in Threads
      BY ClockType, DomainType
    <2>2. CASE owner[Domain(e)] = i
      BY <1>1, <1>4, <2>2
    <2>3. CASE owner[Domain(e)] # i
      BY <1>1, <1>4, <2>1, <2>3 DEF Places
    <2> QED
      BY <2>2, <2>3
  <1> QED
    BY <1>2, <1>3, <1>4 DEF Places, Domain

(* Phases, when thread i takes a step between its wakeup and its end. *)
LEMMA PhasesStep ==
    ASSUME WellTyped, Phases, NEW i \in Threads, NEW r, th' = [th EXCEPT ![i] = r],
           th[i].pc # "idle", r.pc # "idle",
           UNCHANGED <<owner, limit, lastLimit, lock, threadsDone>>,
           \A d \in Domains : owner[d] # i => dom'[d].curCycle = dom[d].curCycle,
           \A d \in Domains : owner[d] = i =>
              \/ d \in Held(r) \/ dom'[d].curCycle = limit
              \/ d \notin Held(th[i]) /\ dom'[d].curCycle = dom[d].curCycle,
           r.pc = "done" => Held(r) = {}
    PROVE  Phases'
  <1>1. th \in [Threads -> ThreadRecords] /\ th'[i] = r
        /\ \A k \in Threads : k # i => th'[k] = th[k]
    BY DEF WellTyped
  <1>2. i \in SimThreads /\ i \notin lock.wake
    BY DEF Phases
  <1>3. /\ SimThreads' = SimThreads /\ SimThreads \subseteq Threads /\ InCSim' = InCSim
        /\ \A q : Held(q)' = Held(q)
    BY ClockType DEF SimThreads, InCSim, Held, Domain, WellTyped
  <1>4. Finished' = Finished
    BY <1>1, <1>3 DEF Finished
  <1>5. ASSUME NEW d \in Domains
        PROVE  \/ owner[d] \in lock.wake \/ d \in Held(th'[owner[d]])
               \/ dom'[d].curCycle = limit
    <2>1. owner[d] \in Threads
      BY ClockType
    <2>2. owner[d] \in lock.wake \/ d \in Held(th[owner[d]]) \/ dom[d].curCycle = limit
      BY DEF Phases
    <2>3. CASE owner[d] = i
      BY <1>1, <1>2, <2>2, <2>3
    <2>4. CASE owner[d] # i
      BY <1>1, <2>1, <2>2, <2>4
    <2> QED
      BY <2>3, <2>4
  <1>6. \A k \in Threads : th'[k].pc \in {"idle", "done"} => Held(th'[k]) = {}
    BY <1>1 DEF Phases
  <1>7. \A k \in Threads : k \in lock.wake \/ k \notin SimThreads => th'[k].pc = "idle"
    BY <1>1, <1>2 DEF Phases
  <1>8. \A k : Held(th[k])' = Held(th'[k])
    BY DEF Held, Domain
  <1> QED
    BY <1>3, <1>4, <1>5, <1>6, <1>7, <1>8 DEF Phases

(* Late: for each crossing a step must leave its cycle alone or explain it.   *)
LEMMA LateStep ==
    ASSUME WellTyped, Graph, Places, Late, Progress, ev' \in [Events -> Records],
           \A x \in Events :
              /\ IsCrossing(x) /\ ev[x].state # "none"
              /\ ev'[x].state \in {"queued", "running"}
              => \/ ev[x].state \in {"queued", "running"} /\ ev'[x].at = ev[x].at
                 \/ ev'[x].at = ev'[x].entry
                 \/ \E a \in Nat : a = ev'[x].at /\ Bounded(x, a)',
           \A x \in Events :
              IsCrossing(x) /\ ev[x].state # "done" /\ ev'[x].state = "done" =>
                 \/ ev'[x].at <= ev'[x].entry
                 \/ ev'[x].at <= ev'[x].rel
                 \/ ev'[x].at <= ev'[x].doneCycle + Margin(x)',
           \A i \in Threads : th'[i].pc = "recheck" =>
              \/ th'[i] = th[i]
              \/ ev'[th'[i].te].called
              \/ \E x \in Events, a \in Nat :
                    x = th'[i].te /\ a = th'[i].rd /\ Bounded(x, a)'
    PROVE  Late'
  <1>1. \A e \in Events : /\ ev[e].at \in Nat /\ ev'[e].at \in Nat /\ ev'[e].entry \in Nat
                          /\ ev[e].rel \in Nat /\ ev'[e].rel \in Nat
                          /\ ev[e].called \in BOOLEAN /\ ev'[e].called \in BOOLEAN
    BY EventType DEF Records
  <1>2. ASSUME NEW x \in Events, NEW a \in Nat, a = ev'[x].at, Bounded(x, a)'
        PROVE  Bounded(x, ev[x].at)'
    BY <1>2 DEF Bounded, Pending, Cover, Slack, PostSlack, Margin, Origin
  <1>3. ASSUME NEW x \in Events, IsCrossing(x), ev'[x].state \in {"queued", "running"}
        PROVE  Bounded(x, ev[x].at)'
    <2>1. CASE ev'[x].at = ev'[x].entry
      BY <1>1, <2>1 DEF Bounded
    <2>2. CASE ev[x].state = "none"
      <3>1. ev'[x].at = ev'[x].entry
        BY <1>3, <2>2 DEF Progress
      <3> QED
        BY <2>1, <3>1
    <2>3. CASE ev[x].state \in {"queued", "running"} /\ ev'[x].at = ev[x].at
      <3>1. PICK a \in Nat : a = ev[x].at
        BY <1>1
      <3>2. Bounded(x, ev[x].at)
        BY <1>3, <2>3 DEF Late
      <3>3. Bounded(x, a)
        BY <3>1, <3>2
      <3>4. Bounded(x, a)'
        BY <1>3, <2>3, <3>3, BoundedStays
      <3> QED
        BY <1>2, <2>3, <3>1, <3>4
    <2>4. CASE \E a \in Nat : a = ev'[x].at /\ Bounded(x, a)'
      BY <1>2, <2>4
    <2> QED
      BY <1>3, <2>1, <2>2, <2>3, <2>4
  <1>4. ASSUME NEW x \in Events, IsCrossing(x), ev'[x].state = "done"
        PROVE  \/ ev'[x].at <= ev'[x].entry
               \/ ev'[x].at <= ev'[x].rel
               \/ ev'[x].at <= ev'[x].doneCycle + Margin(x)'
    <2>1. CASE ev[x].state # "done"
      BY <1>4, <2>1
    <2>2. CASE ev[x].state = "done"
      <3>1. /\ ev'[x].at = ev[x].at /\ ev'[x].doneCycle = ev[x].doneCycle
            /\ ev'[x].entry = ev[x].entry /\ ev'[x].rel >= ev[x].rel
        BY <2>2 DEF Progress
      <3>2. Margin(x)' = Margin(x)
        BY <1>4, <2>2, SlackStays
      <3>3. \/ ev[x].at <= ev[x].entry
            \/ ev[x].at <= ev[x].rel
            \/ ev[x].at <= ev[x].doneCycle + Margin(x)
        BY <1>4, <2>2 DEF Late
      <3> QED
        BY <1>1, <3>1, <3>2, <3>3
    <2> QED
      BY <2>1, <2>2
  <1>5. ASSUME NEW i \in Threads, NEW x \in Events, NEW a \in Nat, th'[i].pc = "recheck",
               th'[i].te = x, th'[i].rd = a
        PROVE  ev'[x].called \/ Bounded(x, a)'
    <2>1. CASE th'[i] = th[i]
      <3>1. ev[x].state = "running" /\ IsCrossing(x)
        BY <1>5, <2>1 DEF Places, Working, Busy
      <3>2. ev[x].called \/ Bounded(x, a)
        BY <1>5, <2>1 DEF Late
      <3>3. ev[x].called => ev'[x].called
        BY <3>1 DEF Progress
      <3>4. Bounded(x, a) => Bounded(x, a)'
        BY <3>1, BoundedStays
      <3> QED
        BY <3>2, <3>3, <3>4
    <2>2. CASE \E y \in Events, b \in Nat :
                    y = th'[i].te /\ b = th'[i].rd /\ Bounded(y, b)'
      BY <1>5, <2>2
    <2> QED
      BY <1>5, <2>1, <2>2
  <1> QED
    BY <1>3, <1>4, <1>5 DEF Late, IsCrossing

-----------------------------------------------------------------------------
(* A thread's queues of domains *)

(* The members of a sequence that grows or shrinks at its end. *)
LEMMA AppendEnds ==
    \A s \in Seq(Domains), d \in Domains : \A q : q = Append(s, d) =>
        q \in Seq(Domains) /\ q # << >> /\ ToSet(q) = ToSet(s) \cup {d}
  <1> SUFFICES ASSUME NEW s \in Seq(Domains), NEW d \in Domains, NEW q, q = Append(s, d)
               PROVE  q \in Seq(Domains) /\ q # << >> /\ ToSet(q) = ToSet(s) \cup {d}
    BY Zenon
  <1>1. /\ q \in Seq(Domains) /\ Len(q) = Len(s) + 1 /\ q[Len(s) + 1] = d
        /\ \A j \in 1..Len(s) : q[j] = s[j]
    BY AppendProperties
  <1>2. DOMAIN q = 1..(Len(s) + 1) /\ DOMAIN s = 1..Len(s) /\ Len(s) \in Nat
    BY <1>1
  <1>3. q # << >>
    BY <1>1, <1>2
  <1>4. ToSet(q) = ToSet(s) \cup {d}
    BY <1>1, <1>2 DEF ToSet
  <1> QED
    BY <1>1, <1>3, <1>4

(* The last member of a sequence is one of its members. *)
LEMMA Ends ==
    ASSUME NEW T, NEW s \in Seq(T)
    PROVE  /\ s # << >> => /\ Front(s) \in Seq(T) /\ Last(s) \in T
                           /\ ToSet(s) = ToSet(Front(s)) \cup {Last(s)}
           /\ << >> \in Seq(T) /\ ToSet(<< >>) = {}
           /\ ToSet(s) \subseteq T
  <1>2. ASSUME s # << >>
        PROVE  /\ Front(s) \in Seq(T) /\ Last(s) \in T
               /\ ToSet(s) = ToSet(Front(s)) \cup {Last(s)}
    <2>1. Len(s) \in Nat /\ Len(s) > 0
      BY <1>2, EmptySeq, LenProperties
    <2> DEFINE n == Len(s)
               f == Front(s)
    <2>2. /\ f \in Seq(T) /\ Len(f) = n - 1 /\ \A j \in 1..n-1 : f[j] = s[j]
      <3>1. n - 1 \in Int /\ 1 \in Int /\ \A j \in 1..n-1 : s[j] \in T
        BY <2>1
      <3>2. f = SubSeq(s, 1, n - 1)
        BY DEF Front
      <3> HIDE DEF n, f
      <3>3. /\ f \in Seq(T) /\ Len(f) = IF 1 <= n - 1 THEN (n - 1) - 1 + 1 ELSE 0
            /\ \A j \in 1..((n - 1) - 1 + 1) : f[j] = s[1 + j - 1]
        BY <3>1, <3>2, SubSeqProperties
      <3>4. n \in Nat /\ n > 0
        BY <2>1 DEF n
      <3> QED
        BY <3>3, <3>4
    <2>3. Last(s) = s[n] /\ s[n] \in T
      BY <2>1 DEF Last
    <2> HIDE DEF n, f
    <2>4. DOMAIN s = 1..n /\ DOMAIN f = 1..n-1
      BY <2>1, <2>2 DEF n
    <2>5. ToSet(s) = ToSet(f) \cup {s[n]}
      BY <2>1, <2>2, <2>4 DEF ToSet, n
    <2> QED
      BY <2>2, <2>3, <2>5 DEF f
  <1>3. << >> \in Seq(T) /\ ToSet(<< >>) = {}
    BY DEF ToSet
  <1>4. ToSet(s) \subseteq T
    BY DEF ToSet
  <1> QED
    BY <1>2, <1>3, <1>4

(* The domain that a thread takes is one of its queues'. *)
IsNext(r, d) == IF r.domPq # {} THEN d \in r.domPq
                ELSE r.stalled # << >> /\ d = Last(r.stalled)

(* Taking a domain removes nothing else from the queues, and it may still be in *)
(* one of the others.                                                        *)
LEMMA TakenIs ==
    ASSUME NEW r \in ThreadRecords, NEW d \in Domains, IsNext(r, d), NEW q, q = Taken(r, d)
    PROVE  /\ q \in ThreadRecords /\ q.pc = r.pc /\ q.te = r.te /\ q.rd = r.rd
           /\ q.fast = (r.domPq # {}) /\ q.next = r.next
           /\ r.domPq # {} => q.stalled = r.stalled
           /\ d \in Queues(r) /\ Queues(r) = Queues(q) \cup {d}
  <1>1. r.domPq \in SUBSET Domains /\ r.stalled \in Seq(Domains) /\ r.next \in Seq(Domains)
    BY DEF ThreadRecords
  <1> DEFINE p == r.domPq \ {d}
             s == IF r.domPq # {} THEN r.stalled ELSE Front(r.stalled)
             b == r.domPq # {}
  <1>2. p \in SUBSET Domains /\ s \in Seq(Domains) /\ b \in BOOLEAN
    BY <1>1, Ends DEF IsNext
  <1>3. /\ d \in r.domPq \cup ToSet(r.stalled)
        /\ r.domPq \cup ToSet(r.stalled) = p \cup ToSet(s) \cup {d}
    <2>1. CASE r.domPq # {}
      BY <2>1 DEF IsNext
    <2>2. CASE r.domPq = {}
      <3>1. ToSet(r.stalled) = ToSet(Front(r.stalled)) \cup {d}
        BY <1>1, <2>2, Ends DEF IsNext
      <3> QED
        BY <2>2, <3>1
    <2> QED
      BY <2>1, <2>2
  <1>4. q = [r EXCEPT !.domPq = p, !.stalled = s, !.fast = b]
    BY DEF Taken
  <1>5. r.domPq # {} => s = r.stalled
    OBVIOUS
  <1>6. b = (r.domPq # {})
    OBVIOUS
  <1> HIDE DEF p, s, b
  <1>7. /\ q \in ThreadRecords /\ q.pc = r.pc /\ q.te = r.te /\ q.rd = r.rd
        /\ q.fast = b /\ q.next = r.next /\ q.domPq = p /\ q.stalled = s
    BY <1>2, <1>4 DEF ThreadRecords
  <1> QED
    BY <1>3, <1>5, <1>6, <1>7 DEF Queues

(* Putting a domain back adds it to one of the queues, never to none. *)
LEMMA PutBackIs ==
    ASSUME NEW r \in ThreadRecords, NEW d \in Domains, NEW q, q = PutBack(r, d)
    PROVE  /\ q \in ThreadRecords /\ q.pc = r.pc /\ q.te = r.te /\ q.rd = r.rd
           /\ q.fast = r.fast /\ Queues(q) = Queues(r) \cup {d}
           /\ q.domPq # {} \/ q.stalled # << >> \/ (q.next # << >> /\ ~q.fast)
  <1>1. r.domPq \in SUBSET Domains /\ r.stalled \in Seq(Domains) /\ r.next \in Seq(Domains)
        /\ r.fast \in BOOLEAN
    BY DEF ThreadRecords
  <1> DEFINE p == r.domPq \cup {d}
             s == Append(r.stalled, d)
             n == Append(r.next, d)
  <1>2. /\ p \in SUBSET Domains /\ s \in Seq(Domains) /\ n \in Seq(Domains)
        /\ p # {} /\ s # << >> /\ n # << >>
        /\ ToSet(s) = ToSet(r.stalled) \cup {d} /\ ToSet(n) = ToSet(r.next) \cup {d}
        /\ p = r.domPq \cup {d}
    <2>2. /\ s \in Seq(Domains) /\ s # << >> /\ ToSet(s) = ToSet(r.stalled) \cup {d}
      BY <1>1, AppendEnds, Zenon
    <2>3. /\ n \in Seq(Domains) /\ n # << >> /\ ToSet(n) = ToSet(r.next) \cup {d}
      BY <1>1, AppendEnds, Zenon
    <2>4. p \in SUBSET Domains /\ p # {} /\ p = r.domPq \cup {d}
      BY <1>1
    <2> QED
      BY <2>2, <2>3, <2>4, Zenon
  <1>3. \/ q = [r EXCEPT !.domPq = p]
        \/ q = [r EXCEPT !.stalled = s]
        \/ q = [r EXCEPT !.next = n] /\ ~r.fast
    BY <1>1 DEF PutBack
  <1> HIDE DEF p, s, n
  <1>4. CASE q = [r EXCEPT !.domPq = p]
    <2>1. /\ q \in ThreadRecords /\ q.pc = r.pc /\ q.te = r.te /\ q.rd = r.rd
          /\ q.fast = r.fast /\ q.domPq = p /\ q.stalled = r.stalled /\ q.next = r.next
      BY <1>2, <1>4 DEF ThreadRecords
    <2> QED
      BY <1>2, <2>1 DEF Queues
  <1>5. CASE q = [r EXCEPT !.stalled = s]
    <2>1. /\ q \in ThreadRecords /\ q.pc = r.pc /\ q.te = r.te /\ q.rd = r.rd
          /\ q.fast = r.fast /\ q.domPq = r.domPq /\ q.stalled = s /\ q.next = r.next
      BY <1>2, <1>5 DEF ThreadRecords
    <2> QED
      BY <1>2, <2>1 DEF Queues
  <1>6. CASE q = [r EXCEPT !.next = n] /\ ~r.fast
    <2>1. /\ q \in ThreadRecords /\ q.pc = r.pc /\ q.te = r.te /\ q.rd = r.rd
          /\ q.fast = r.fast /\ q.domPq = r.domPq /\ q.stalled = r.stalled /\ q.next = n
      BY <1>2, <1>6 DEF ThreadRecords
    <2> QED
      BY <1>2, <1>6, <2>1 DEF Queues
  <1> QED
    BY <1>3, <1>4, <1>5, <1>6

(* The swap loses no domain. *)
LEMMA SwappedIs ==
    ASSUME NEW r \in ThreadRecords, NEW q, q = Swapped(r)
    PROVE  /\ q \in ThreadRecords /\ q.pc = r.pc /\ q.te = r.te /\ q.rd = r.rd
           /\ q.fast = r.fast /\ Queues(q) = Queues(r) /\ q.domPq = r.domPq
           /\ \/ q = r
              \/ r.stalled = << >> /\ q.stalled = r.next /\ q.next = << >>
           /\ r.stalled = << >> /\ (r.domPq = {} \/ ~r.fast) => q.stalled = r.next
  <1>1. r.stalled \in Seq(Domains) /\ r.next \in Seq(Domains) /\ << >> \in Seq(Domains)
        /\ ToSet(<< >>) = {}
    BY Ends DEF ThreadRecords
  <1>2. CASE r.stalled = << >> /\ (r.domPq = {} \/ ~r.fast)
    <2> DEFINE s == r.next
    <2>1. q = [r EXCEPT !.stalled = s, !.next = << >>]
      BY <1>2 DEF Swapped
    <2>2. /\ q \in ThreadRecords /\ q.pc = r.pc /\ q.te = r.te /\ q.rd = r.rd
          /\ q.fast = r.fast /\ q.domPq = r.domPq /\ q.stalled = r.next /\ q.next = << >>
      BY <1>1, <2>1 DEF ThreadRecords
    <2>3. Queues(q) = Queues(r)
      BY <1>1, <1>2, <2>2 DEF Queues
    <2> QED
      BY <1>2, <2>2, <2>3
  <1>3. CASE ~(r.stalled = << >> /\ (r.domPq = {} \/ ~r.fast))
    BY <1>3 DEF Swapped
  <1> QED
    BY <1>2, <1>3

(* A thread that has just the domains Q in its queues. *)
Awake(st, Q) == [Idle EXCEPT !.pc = st, !.domPq = Q]

(* An idle thread holds no domain, one that wakes up holds those it is given. *)
LEMMA IdleIs ==
    /\ Idle \in ThreadRecords /\ Idle.pc = "idle" /\ Queues(Idle) = {} /\ Held(Idle) = {}
    /\ \A Q \in SUBSET Domains, st \in {"loop", "done"} :
          /\ Awake(st, Q) \in ThreadRecords /\ Awake(st, Q).pc = st /\ Awake(st, Q).domPq = Q
          /\ Awake(st, Q).stalled = << >> /\ Awake(st, Q).next = << >>
          /\ Queues(Awake(st, Q)) = Q /\ Held(Awake(st, Q)) = Q
    /\ [Idle EXCEPT !.pc = "done"] = Awake("done", {})
  <1>1. << >> \in Seq(Domains) /\ ToSet(<< >>) = {}
    BY DEF ToSet
  <1>2. /\ Idle \in ThreadRecords /\ Idle.pc = "idle" /\ Idle.domPq = {}
        /\ Idle.stalled = << >> /\ Idle.next = << >>
    BY <1>1 DEF Idle, ThreadRecords
  <1>3. Queues(Idle) = {} /\ Held(Idle) = {}
    BY <1>1, <1>2 DEF Queues, Held, Busy
  <1>4. ASSUME NEW Q \in SUBSET Domains, NEW st \in {"loop", "done"}, NEW r, r = Awake(st, Q)
        PROVE  /\ r \in ThreadRecords /\ r.pc = st /\ r.domPq = Q
               /\ r.stalled = << >> /\ r.next = << >> /\ Queues(r) = Q /\ Held(r) = Q
    <2>1. /\ r \in ThreadRecords /\ r.pc = st /\ r.domPq = Q
          /\ r.stalled = << >> /\ r.next = << >>
      BY <1>2, <1>4 DEF ThreadRecords, Awake
    <2>2. Queues(r) = Q /\ Held(r) = Q
      BY <1>1, <2>1 DEF Queues, Held, Busy
    <2> QED
      BY <2>1, <2>2
  <1>5. [Idle EXCEPT !.pc = "done"] = Awake("done", {})
    BY <1>2 DEF ThreadRecords, Awake
  <1> QED
    BY <1>2, <1>3, <1>4, <1>5

-----------------------------------------------------------------------------
(* The actions preserve the invariant *)

(* A step that leaves the events alone. *)
LEMMA SameEvents ==
    ASSUME WellTyped, Graph, ev' = ev
    PROVE  /\ ev' \in [Events -> Records] /\ Progress /\ Graph'
           /\ \A e \in Events : ev'[e] = ev[e]
  <1>1. ev' \in [Events -> Records] /\ \A e \in Events : ev'[e] = ev[e]
    BY DEF WellTyped
  <1>2. Progress
    <2>1. \A e \in Events :
            /\ ev[e].at \in Nat /\ ev[e].rel \in Nat /\ ev[e].doneCycle \in Nat
      BY EventType
    <2> QED
      BY <2>1, <1>1 DEF Progress, Kept
  <1>3. Allocated'
    BY DEF Graph, Allocated
  <1>4. Kin'
    BY DEF Graph, Kin
  <1>5. Marks'
    BY DEF Graph, Marks
  <1> QED
    BY <1>1, <1>2, <1>3, <1>4, <1>5 DEF Graph

(* At first no event is allocated, every thread sleeps and every clock is zero. *)
LEMMA InitIInv == Init => IInv
  <1> SUFFICES ASSUME Init
               PROVE  IInv
    OBVIOUS
  <1>1. Fresh \in Records
    BY DEF Fresh, Records
  <1>2. /\ \A e \in Events : ev[e] = Fresh /\ ev[e].state = "free" /\ ev[e].kids = {}
        /\ \A d \in Domains : dom[d].curCycle = 0
        /\ \A i \in Threads : th[i] = Idle
        /\ limit = 0 /\ lastLimit = 0 /\ ~InCSim
        /\ \A e \in Events : ev[e].parents = 0
    BY DEF Init, Fresh, InCSim
  <1>3. WellTyped
    <2>1. ev \in [Events -> Records] /\ th \in [Threads -> ThreadRecords]
      BY <1>1, IdleIs DEF Init
    <2>2. dom \in [Domains -> [curCycle : Nat, prio : 0..2, queuePrio : Nat]]
      BY DEF Init
    <2>3. /\ owner \in [Domains -> Threads]
          /\ lastLimit \in Nat /\ limit \in {lastLimit, lastLimit + PhaseLength}
          /\ lock \in [wake : SUBSET Threads, wait : BOOLEAN] /\ threadsDone \in Nat
      BY ContentionAssumption DEF Init
    <2>4. rec \in [Cores -> [tail : Events \cup {NoEvent}, resp : Nat, slack : Int]]
      BY DEF Init
    <2>5. lastCrossing \in [Keys -> [cycle : Nat, ev : Events \cup {NoEvent}]]
      BY DEF Init, Keys
    <2> QED
      BY <2>1, <2>2, <2>3, <2>4, <2>5 DEF WellTyped
  <1>4. Graph
    BY <1>2 DEF Graph, Allocated, Kin, Marks
  <1>5. Links
    BY DEF Init, Links, Keys
  <1>6. Times
    <2>1. MinStartRespected
      BY <1>2 DEF MinStartRespected
    <2> QED
      BY <1>2, <2>1 DEF Times
  <1>7. Places
    <2>1. \A i \in Threads : Working(i, th[i])
      <3>1. /\ Idle.pc = "idle" /\ Queues(Idle) = {}
            /\ Idle.stalled = << >> /\ Idle.next = << >>
        BY IdleIs DEF Idle
      <3> QED
        BY <1>2, <3>1 DEF Working, Busy
    <2> QED
      BY <1>2, <2>1 DEF Places
  <1>8. Phases
    <2>1. lock.wake = {} /\ lock.wait = FALSE /\ threadsDone = 0
      BY DEF Init
    <2>2. \A i \in Threads : th[i].pc = "idle" /\ Held(th[i]) = {}
      BY <1>2, IdleIs
    <2>3. Finished = SimThreads
      BY <1>3, <2>1, <2>2, ClockType DEF Finished, SimThreads
    <2> QED
      BY <1>2, <2>1, <2>2, <2>3 DEF Phases
  <1>9. Late
    BY <1>2, IdleIs DEF Late
  <1> QED
    BY <1>3, <1>4, <1>5, <1>6, <1>7, <1>8, <1>9 DEF IInv

(* Places and Phases, when no thread takes a step. *)
LEMMA PlacesStay ==
    ASSUME WellTyped, Places, th' = th, owner' = owner,
           \A e \in Events : /\ ev'[e].state = "running" <=> ev[e].state = "running"
                             /\ ev[e].state = "running" => ev'[e].at = ev[e].at
    PROVE  Places'
  <1>1. ASSUME NEW i \in Threads
        PROVE  Working(i, th[i])'
    <2>1. Working(i, th[i])
      BY DEF Places
    <2>2. Owned(i)' = Owned(i) /\ Alone(i)' = Alone(i)
      BY SameOwner
    <2>3. /\ Queues(th[i])' = Queues(th[i]) /\ th'[i] = th[i]
      BY DEF Queues
    <2>4. /\ Queues(th[i])' \subseteq Owned(i)'
          /\ th'[i].pc \in Busy \cup {"after"} =>
                th'[i].te \in Events /\ owner'[Domain(th'[i].te)] = i
          /\ th'[i].pc \in Busy => ev'[th'[i].te].state = "running"
          /\ th'[i].pc \in {"read", "recheck"} => IsCrossing(th'[i].te)
          /\ th'[i].pc = "recheck" => th'[i].rd >= ev'[th'[i].te].at
          /\ th'[i].pc = "loop" => th'[i].domPq # {} \/ th'[i].stalled # << >>
          /\ Alone(i)' => /\ th'[i].stalled = << >> /\ th'[i].next = << >>
                          /\ th'[i].pc = "run" => th'[i].fast
      BY <2>1, <2>2, <2>3 DEF Working, Busy
    <2> QED
      BY <2>4 DEF Working
  <1>2. ASSUME NEW e \in Events, ev'[e].state = "running"
        PROVE  th'[owner'[Domain(e)]].pc \in Busy /\ th'[owner'[Domain(e)]].te = e
    BY <1>2 DEF Places
  <1> QED
    BY <1>1, <1>2 DEF Places

(* Phases depends on no event. *)
LEMMA PhasesStay ==
    ASSUME WellTyped, Phases, UNCHANGED <<owner, th, limit, lastLimit, lock, threadsDone>>,
           \A d \in Domains : dom'[d].curCycle = dom[d].curCycle
    PROVE  Phases'
  <1>1. /\ SimThreads' = SimThreads /\ Finished' = Finished /\ InCSim' = InCSim
    BY DEF SimThreads, Finished, InCSim
  <1>2. \A i : Held(th[i])' = Held(th[i])
    BY DEF Held, Queues
  <1> QED
    BY <1>1, <1>2 DEF Phases

(* recordAccess: the new events start at the limit or later, where all clocks  *)
(* stand, and the recorders' pointers are to events of the new transaction.    *)
LEMMA RecordStep ==
    ASSUME IInv, NEW t \in Txs, NEW type \in Types, NEW gap \in Gaps, NEW pre \in PreDelays,
           NEW post \in PostDelays, Record(t, type, gap, pre, post)
    PROVE  IInv'
  <1>1. WellTyped /\ Graph /\ Links /\ Times /\ Places /\ Phases /\ Late
    BY DEF IInv
  <1>2. /\ \E a, b \in Events \cup {NoEvent} : RecordShape(t, a, b)
        /\ ~InCSim
        /\ rec' = rec \/ /\ ev'[<<t, "R">>].state # "free"
                         /\ \E n \in Nat :
                              rec' = [rec EXCEPT ![Core[t]].tail = <<t, "R">>,
                                                 ![Core[t]].resp = n]
        /\ lastCrossing' = [lastCrossing EXCEPT ![Key(<<t, "X">>)] =
                              [cycle |-> ev'[<<t, "X">>].minStart, ev |-> <<t, "X">>]]
        /\ UNCHANGED <<owner, dom, th, limit, lastLimit, lock, threadsDone>>
    BY <1>1, RecordIs, Zenon
  <1>3. PICK a \in Events \cup {NoEvent}, b \in Events \cup {NoEvent} : RecordShape(t, a, b)
    BY <1>2
  <1>4. Progress
    BY <1>1, <1>3, RecordProgress, Zenon
  <1>5. Graph'
    BY <1>1, <1>3, RecordGraph, Zenon
  <1>6. ev' \in [Events -> Records]
    BY <1>3 DEF RecordShape
  <1>7. /\ \A e \in Events : e[1] # t =>
              ev'[e].state = ev[e].state /\ ev'[e].at = ev[e].at
        /\ \A e \in Events : e[1] = t =>
              /\ ev[e].state = "free" /\ ev'[e].state \in {"free", "none", "queued"}
              /\ ev'[e].state # "free" =>
                    ev'[e].at = ev'[e].entry /\ ev'[e].at = ev'[e].minStart
              /\ ev'[e].state = "queued" => ev'[e].at >= lastLimit
        /\ ev'[<<t, "X">>].state # "free"
    BY <1>3 DEF RecordShape
  <1>8. <<t, "X">> \in Events /\ <<t, "R">> \in Events
    BY Pairs DEF Tags
  <1>9. Core[t] \in Cores /\ Key(<<t, "X">>) \in Keys
    BY DEF Cores, Keys, Key
  <1>10. ev'[<<t, "X">>] \in Records /\ ev'[<<t, "X">>].minStart \in Nat
    <2>1. ev'[<<t, "X">>] \in Records
      BY <1>6, <1>8
    <2> QED
      BY <2>1 DEF Records
  <1>11. WellTyped'
    <2>1. rec' \in [Cores -> [tail : Events \cup {NoEvent}, resp : Nat, slack : Int]]
      <3>1. rec \in [Cores -> [tail : Events \cup {NoEvent}, resp : Nat, slack : Int]]
        BY <1>1 DEF WellTyped
      <3>2. CASE rec' = rec
        BY <3>1, <3>2
      <3>3. CASE \E n \in Nat : rec' = [rec EXCEPT ![Core[t]].tail = <<t, "R">>,
                                                   ![Core[t]].resp = n]
        <4>1. PICK n \in Nat, y \in Events : rec' = [rec EXCEPT ![Core[t]].tail = y,
                                                                ![Core[t]].resp = n]
          BY <1>8, <3>3
        <4> QED
          BY <1>9, <3>1, <4>1
      <3> QED
        BY <1>2, <3>2, <3>3
    <2>2. lastCrossing' \in [Keys -> [cycle : Nat, ev : Events \cup {NoEvent}]]
      <3>1. lastCrossing \in [Keys -> [cycle : Nat, ev : Events \cup {NoEvent}]]
        BY <1>1 DEF WellTyped
      <3>2. PICK n \in Nat, y \in Events, k \in Keys :
                   lastCrossing' = [lastCrossing EXCEPT ![k] = [cycle |-> n, ev |-> y]]
        BY <1>2, <1>8, <1>9, <1>10
      <3> QED
        BY <3>1, <3>2
    <2> QED
      BY <1>1, <1>2, <1>6, <2>1, <2>2 DEF WellTyped
  <1>12. Links'
    <2>1. \A e \in Events : ev[e].state # "free" =>
             ev'[e].state # "free" /\ ev'[e].minStart = ev[e].minStart
      BY <1>4 DEF Progress, Kept
    <2>2. ASSUME NEW c \in Cores, rec'[c].tail # NoEvent
          PROVE  /\ rec'[c].tail[2] = "R" /\ Core[rec'[c].tail[1]] = c
                 /\ ev'[rec'[c].tail].state # "free"
      <3>0. rec \in [Cores -> [tail : Events \cup {NoEvent}, resp : Nat, slack : Int]]
        BY <1>1 DEF WellTyped
      <3>1. CASE rec'[c].tail = rec[c].tail
        <4>1. /\ rec[c].tail[2] = "R" /\ Core[rec[c].tail[1]] = c
              /\ ev[rec[c].tail].state # "free" /\ rec[c].tail \in Events
          BY <1>1, <2>2, <3>0, <3>1 DEF Links
        <4> QED
          BY <2>1, <3>1, <4>1
      <3>2. CASE rec'[c].tail # rec[c].tail
        <4>1. ev'[<<t, "R">>].state # "free" /\ c = Core[t] /\ rec'[c].tail = <<t, "R">>
          BY <1>2, <1>9, <3>0, <3>2
        <4> QED
          BY <4>1
      <3> QED
        BY <3>1, <3>2
    <2>3. ASSUME NEW k \in Keys
          PROVE  IF lastCrossing'[k].ev = NoEvent THEN lastCrossing'[k].cycle = 0
                 ELSE /\ lastCrossing'[k].ev[2] = "X" /\ Key(lastCrossing'[k].ev) = k
                      /\ ev'[lastCrossing'[k].ev].state # "free"
                      /\ ev'[lastCrossing'[k].ev].minStart = lastCrossing'[k].cycle
      <3>0. lastCrossing \in [Keys -> [cycle : Nat, ev : Events \cup {NoEvent}]]
        BY <1>1 DEF WellTyped
      <3>1. CASE k = Key(<<t, "X">>)
        <4>1. lastCrossing'[k] = [cycle |-> ev'[<<t, "X">>].minStart, ev |-> <<t, "X">>]
          BY <1>2, <3>0, <3>1
        <4> QED
          BY <1>7, <1>8, <3>1, <4>1, Pairs
      <3>2. CASE k # Key(<<t, "X">>)
        <4>1. lastCrossing'[k] = lastCrossing[k] /\ lastCrossing[k].ev \in Events \cup {NoEvent}
          BY <1>2, <3>0, <3>2
        <4>2. IF lastCrossing[k].ev = NoEvent THEN lastCrossing[k].cycle = 0
              ELSE /\ lastCrossing[k].ev[2] = "X" /\ Key(lastCrossing[k].ev) = k
                   /\ ev[lastCrossing[k].ev].state # "free"
                   /\ ev[lastCrossing[k].ev].minStart = lastCrossing[k].cycle
          BY <1>1 DEF Links
        <4> QED
          BY <2>1, <4>1, <4>2
      <3> QED
        BY <3>1, <3>2
    <2> QED
      BY <2>2, <2>3 DEF Links, Key
  <1>13. Times'
    <2>1. \A d \in Domains : dom[d].curCycle = lastLimit /\ dom'[d].curCycle = dom[d].curCycle
      BY <1>1, <1>2, AtRest
    <2>2. \A e \in Events : Domain(e) \in Domains
      BY DomainType
    <2>3. \A e \in Events : ev[e].state = "free" =>
               /\ ev'[e].state \in {"free", "none", "queued"}
               /\ ev'[e].state = "queued" => /\ ev'[e].at >= dom[Domain(e)].curCycle
                                             /\ ev'[e].at >= ev'[e].minStart
      <3>1. ASSUME NEW e \in Events, ev[e].state = "free"
            PROVE  /\ ev'[e].state \in {"free", "none", "queued"}
                   /\ ev'[e].state = "queued" => /\ ev'[e].at >= dom[Domain(e)].curCycle
                                                 /\ ev'[e].at >= ev'[e].minStart
        <4>1. ev'[e].at \in Nat
          BY <1>6 DEF Records
        <4>2. CASE e[1] = t
          BY <1>7, <2>1, <2>2, <4>1, <4>2
        <4>3. CASE e[1] # t
          BY <1>7, <3>1, <4>3
        <4> QED
          BY <4>2, <4>3
      <3> QED
        BY <3>1
    <2>4. \A e \in Events : ev'[e].state = "running" =>
             ev[e].state = "running" /\ ev'[e].at = ev[e].at
      BY <1>7
    <2>5. \A e \in Events : ev'[e].state = "done" => ev[e].state = "done"
      BY <1>7
    <2> QED
      BY <1>1, <1>2, <1>4, <1>6, <2>1, <2>3, <2>4, <2>5, TimesStay
  <1>14. Places'
    <2>1. \A e \in Events : /\ ev'[e].state = "running" <=> ev[e].state = "running"
                            /\ ev[e].state = "running" => ev'[e].at = ev[e].at
      BY <1>7
    <2> QED
      BY <1>1, <1>2, <2>1, PlacesStay
  <1>15. Phases'
    BY <1>1, <1>2, PhasesStay
  <1>16. Late'
    <2>1. \A x \in Events :
               /\ IsCrossing(x) /\ ev[x].state # "none"
               /\ ev'[x].state \in {"queued", "running"}
               => \/ ev[x].state \in {"queued", "running"} /\ ev'[x].at = ev[x].at
                  \/ ev'[x].at = ev'[x].entry
      BY <1>7
    <2>2. \A x \in Events :
               IsCrossing(x) /\ ev[x].state # "done" /\ ev'[x].state = "done" => FALSE
      BY <1>7
    <2>3. \A i \in Threads : th'[i] = th[i]
      BY <1>2
    <2> QED
      BY <1>1, <1>4, <1>6, <2>1, <2>2, <2>3, LateStep
  <1> QED
    BY <1>5, <1>11, <1>12, <1>13, <1>14, <1>15, <1>16 DEF IInv

(* A step that only passes control between threads: no event, clock or pointer *)
(* moves.                                                                    *)
LEMMA ControlStep ==
    ASSUME IInv, UNCHANGED <<owner, ev, dom, rec, lastCrossing>>,
           limit' \in Nat, limit' >= limit,
           \A i \in Threads : th'[i] = th[i] \/ th'[i].pc # "recheck"
    PROVE  Graph' /\ Links' /\ Times' /\ Late'
  <1>1. WellTyped /\ Graph /\ Links /\ Times /\ Places /\ Phases /\ Late
    BY DEF IInv
  <1>2. /\ ev' \in [Events -> Records] /\ Progress /\ Graph'
        /\ \A e \in Events : ev'[e] = ev[e]
    BY <1>1, SameEvents
  <1>3. Links'
    BY <1>1, <1>2, LinksStay
  <1>4. Times'
    <2>1. /\ \A e \in Events :
              /\ ev'[e].state = "queued" => ev'[e].at >= dom'[Domain(e)].curCycle
              /\ ev'[e].state = "running" => ev'[e].at = dom'[Domain(e)].curCycle
          /\ \A x \in Events : IsCrossing(x) =>
              (ev'[x].state \in {"queued", "running"} => ev'[x].at >= ev'[x].minStart)
      BY <1>1, <1>2 DEF Times
    <2>2. \A x \in Events : IsCrossing(x) =>
              (ev'[x].state \in {"running", "done"} => ev'[x].minStart <= limit')
      <3>1. \A x \in Events : IsCrossing(x) =>
              (ev[x].state \in {"running", "done"} => ev[x].minStart <= limit)
        BY <1>1 DEF Times
      <3>2. \A x \in Events : ev[x].minStart \in Nat
        BY <1>1, EventType
      <3>3. limit \in Nat
        BY <1>1, ClockType
      <3> QED
        BY <1>2, <3>1, <3>2, <3>3
    <2>3. MinStartRespected'
      <3>1. MinStartRespected
        BY <1>1 DEF Times
      <3>2. \A i : Alone(i)' = Alone(i)
        BY SameOwner
      <3> QED
        BY <1>2, <3>1, <3>2 DEF MinStartRespected
    <2> QED
      BY <2>1, <2>2, <2>3 DEF Times
  <1>5. Late'
    <2>1. \A x \in Events :
               /\ IsCrossing(x) /\ ev[x].state # "none"
               /\ ev'[x].state \in {"queued", "running"}
               => ev[x].state \in {"queued", "running"} /\ ev'[x].at = ev[x].at
      BY <1>2
    <2>2. \A x \in Events :
               IsCrossing(x) /\ ev[x].state # "done" /\ ev'[x].state = "done" => FALSE
      BY <1>2
    <2> QED
      BY <1>1, <1>2, <2>1, <2>2, LateStep
  <1> QED
    BY <1>2, <1>3, <1>4, <1>5

(* simulatePhase wakes all simulation threads. *)
LEMMA StartPhaseStep == IInv /\ StartPhase => IInv'
  <1> SUFFICES ASSUME IInv, StartPhase
               PROVE  IInv'
    OBVIOUS
  <1>1. WellTyped /\ Places /\ Phases
    BY DEF IInv
  <1>2. /\ ~InCSim /\ limit' = lastLimit + PhaseLength /\ lock' = [lock EXCEPT !.wake = SimThreads]
        /\ UNCHANGED <<owner, ev, dom, th, lastLimit, threadsDone, rec, lastCrossing>>
    BY DEF StartPhase
  <1>3. /\ limit = lastLimit /\ lock.wake = {} /\ lock.wait = FALSE /\ threadsDone = 0
        /\ \A i \in Threads : th[i].pc = "idle"
    BY <1>1, <1>2, AtRest
  <1>4. lastLimit \in Nat /\ PhaseLength \in Nat \ {0} /\ limit' \in Nat /\ limit' >= limit
    BY <1>1, <1>2, <1>3, ClockType, ContentionAssumption
  <1>5. Graph' /\ Links' /\ Times' /\ Late'
    BY <1>2, <1>4, ControlStep
  <1>6. SimThreads' = SimThreads /\ SimThreads \subseteq Threads
    BY <1>1, <1>2, ClockType DEF SimThreads
  <1>7. lock' \in [wake : SUBSET Threads, wait : BOOLEAN]
        /\ lock'.wake = SimThreads /\ lock'.wait = FALSE
    <2>1. lock \in [wake : SUBSET Threads, wait : BOOLEAN]
      BY <1>1 DEF WellTyped
    <2> QED
      BY <1>2, <1>3, <1>6, <2>1
  <1>8. WellTyped'
    BY <1>1, <1>2, <1>4, <1>7 DEF WellTyped
  <1>9. Places'
    BY <1>1, <1>2, PlacesStay
  <1>10. Phases'
    <2>1. InCSim'
      BY <1>2, <1>4 DEF InCSim
    <2>2. Finished' = {} /\ Cardinality({}) = 0
      BY <1>6, <1>7, FS_EmptySet DEF Finished
    <2>3. \A i \in Threads : Held(th[i])' = {}
      <3>1. \A i \in Threads : Held(th[i]) = {}
        BY <1>1, <1>3 DEF Phases
      <3> QED
        BY <1>2, <3>1 DEF Held, Queues
    <2>4. \A d \in Domains : owner[d] \in SimThreads
      BY <1>1, ClockType
    <2> QED
      BY <1>2, <1>3, <1>6, <1>7, <2>1, <2>2, <2>3, <2>4 DEF Phases
  <1> QED
    BY <1>5, <1>8, <1>9, <1>10 DEF IInv

(* The last thread of the phase let the caller of simulatePhase go on. *)
LEMMA EndPhaseStep == IInv /\ EndPhase => IInv'
  <1> SUFFICES ASSUME IInv, EndPhase
               PROVE  IInv'
    OBVIOUS
  <1>1. WellTyped /\ Places /\ Phases
    BY DEF IInv
  <1>2. /\ lock.wait /\ lastLimit' = limit /\ lock' = [lock EXCEPT !.wait = FALSE]
        /\ UNCHANGED <<owner, ev, dom, th, limit, threadsDone, rec, lastCrossing>>
    BY DEF EndPhase
  <1>3. limit \in Nat
    BY <1>1, ClockType
  <1>4. Graph' /\ Links' /\ Times' /\ Late'
    BY <1>2, <1>3, ControlStep
  <1>5. lock' \in [wake : SUBSET Threads, wait : BOOLEAN]
        /\ lock'.wake = lock.wake /\ lock'.wait = FALSE
    <2>1. lock \in [wake : SUBSET Threads, wait : BOOLEAN]
      BY <1>1 DEF WellTyped
    <2> QED
      BY <1>2, <2>1
  <1>6. WellTyped'
    BY <1>1, <1>2, <1>3, <1>5 DEF WellTyped
  <1>7. Places'
    BY <1>1, <1>2, PlacesStay
  <1>8. Phases'
    <2>1. ~InCSim'
      BY <1>2, <1>3 DEF InCSim
    <2>2. SimThreads' = SimThreads /\ Finished' = Finished
      BY <1>2, <1>5 DEF Finished, SimThreads
    <2>3. \A i : Held(th[i])' = Held(th[i])
      BY <1>2 DEF Held, Queues
    <2>4. threadsDone = 0 /\ Finished = SimThreads
      BY <1>1, <1>2 DEF Phases
    <2>5. /\ lock.wake \subseteq SimThreads
          /\ \A i \in Threads : i \in lock.wake \/ i \notin SimThreads => th[i].pc = "idle"
          /\ \A d \in Domains : owner[d] \in lock.wake \/ d \in Held(th[owner[d]])
                                  \/ dom[d].curCycle = limit
          /\ \A i \in Threads : th[i].pc \in {"idle", "done"} => Held(th[i]) = {}
      BY <1>1 DEF Phases
    <2> QED
      BY <1>2, <1>5, <2>1, <2>2, <2>3, <2>4, <2>5 DEF Phases
  <1> QED
    BY <1>4, <1>6, <1>7, <1>8 DEF IInv

(* Thread i and only it takes a step. *)
LEMMA OneThread ==
    ASSUME WellTyped, NEW i \in Threads, NEW r \in ThreadRecords, th' = [th EXCEPT ![i] = r]
    PROVE  /\ th' \in [Threads -> ThreadRecords] /\ th'[i] = r
           /\ \A j \in Threads : j # i => th'[j] = th[j]
  BY DEF WellTyped

(* A simulation thread starts the phase with all its domains. *)
LEMMA WakeStep == ASSUME IInv, NEW i \in Threads, Wake(i) PROVE IInv'
  <1>1. WellTyped /\ Places /\ Phases
    BY DEF IInv
  <1>0. PICK r : r = Awake("loop", Owned(i))
    OBVIOUS
  <1>2. /\ th[i].pc = "idle" /\ i \in lock.wake
        /\ lock' = [lock EXCEPT !.wake = @ \ {i}] /\ th' = [th EXCEPT ![i] = r]
        /\ UNCHANGED <<owner, ev, dom, limit, lastLimit, threadsDone, rec, lastCrossing>>
    BY <1>0 DEF Wake, Awake
  <1>3. /\ r \in ThreadRecords /\ r.pc = "loop" /\ r.domPq = Owned(i)
        /\ r.stalled = << >> /\ r.next = << >> /\ Queues(r) = Owned(i) /\ Held(r) = Owned(i)
    <2>1. Owned(i) \in SUBSET Domains
      BY DEF Owned
    <2> QED
      BY <1>0, <2>1, IdleIs
  <1>4. /\ th' \in [Threads -> ThreadRecords] /\ th'[i] = r
        /\ \A j \in Threads : j # i => th'[j] = th[j]
    BY <1>1, <1>2, <1>3, OneThread
  <1>5. limit \in Nat
    BY <1>1, ClockType
  <1>6. Graph' /\ Links' /\ Times' /\ Late'
    BY <1>2, <1>3, <1>4, <1>5, ControlStep
  <1>7. lock' \in [wake : SUBSET Threads, wait : BOOLEAN]
        /\ lock'.wake = lock.wake \ {i} /\ lock'.wait = lock.wait
    <2>1. lock \in [wake : SUBSET Threads, wait : BOOLEAN]
      BY <1>1 DEF WellTyped
    <2> QED
      BY <1>2, <2>1
  <1>8. WellTyped'
    BY <1>1, <1>2, <1>4, <1>7 DEF WellTyped
  <1>9. i \in SimThreads /\ Owned(i) # {}
    BY <1>1, <1>2 DEF Phases, SimThreads, Owned
  <1>10. SimThreads' = SimThreads /\ Owned(i)' = Owned(i)
    BY <1>2, SameOwner
  <1>11. Places'
    <2>1. Working(i, r)'
      <3>1. Queues(r)' = Queues(r)
        BY DEF Queues
      <3> QED
        BY <1>3, <1>9, <1>10, <3>1 DEF Working, Busy
    <2>2. \A e \in Events : owner[Domain(e)] = i => ev[e].state # "running"
      BY <1>1, <1>2 DEF Places, Busy
    <2> QED
      BY <1>1, <1>2, <2>1, <2>2, PlacesStep
  <1>12. Phases'
    <2>1. InCSim /\ ~lock.wait
      BY <1>1, <1>2, <1>9 DEF Phases, Finished
    <2>2. Finished' = Finished
      BY <1>2, <1>3, <1>4, <1>7, <1>9, <1>10, <1>1, ClockType DEF Finished, SimThreads
    <2>3. \A j \in Threads : Held(th[j])' = IF j = i THEN Owned(i) ELSE Held(th[j])
      <3>1. \A q : Held(q)' = Held(q)
        BY DEF Held, Queues
      <3>2. ASSUME NEW j \in Threads
            PROVE  Held(th[j])' = Held(th'[j])
        BY DEF Held, Queues
      <3> QED
        BY <1>3, <1>4, <3>2
    <2>4. \A d \in Domains : owner[d] = i <=> d \in Owned(i)
      BY DEF Owned
    <2>5. /\ lock.wake \subseteq SimThreads
          /\ \A j \in Threads : j \in lock.wake \/ j \notin SimThreads => th[j].pc = "idle"
          /\ \A d \in Domains : owner[d] \in lock.wake \/ d \in Held(th[owner[d]])
                                  \/ dom[d].curCycle = limit
          /\ \A j \in Threads : th[j].pc \in {"idle", "done"} => Held(th[j]) = {}
          /\ threadsDone = Cardinality(Finished)
      BY <1>1, <2>1 DEF Phases
    <2>6. lock'.wake \subseteq SimThreads'
      BY <1>7, <1>10, <2>5
    <2>7. \A j \in Threads : j \in lock'.wake \/ j \notin SimThreads' => th'[j].pc = "idle"
      BY <1>4, <1>7, <1>9, <1>10, <2>5
    <2>8. \A d \in Domains : owner'[d] \in lock'.wake \/ d \in Held(th[owner[d]])'
                                  \/ dom'[d].curCycle = limit'
      <3>1. \A d \in Domains : owner[d] \in Threads
        BY <1>1, ClockType
      <3>2. \A d \in Domains : Held(th[owner[d]])' =
                IF owner[d] = i THEN Owned(i) ELSE Held(th[owner[d]])
        BY <1>2, <2>3, <3>1
      <3> QED
        BY <1>2, <1>7, <2>4, <2>5, <3>2
    <2>9. \A j \in Threads : th'[j].pc \in {"idle", "done"} => Held(th[j])' = {}
      BY <1>3, <1>4, <2>3, <2>5
    <2>10. InCSim'
      BY <1>2, <2>1 DEF InCSim
    <2> QED
      BY <1>2, <1>7, <2>1, <2>2, <2>5, <2>6, <2>7, <2>8, <2>9, <2>10 DEF Phases
  <1> QED
    BY <1>6, <1>8, <1>11, <1>12 DEF IInv

(* The domains are finitely many, and so are the simulation threads. *)
LEMMA SimThreadsFinite == IsFiniteSet(SimThreads)
  <1>1. IsFiniteSet(Domains)
    BY ContentionAssumption
  <1> DEFINE f == [d \in Domains |-> owner[d]]
  <1>2. f \in Surjection(Domains, SimThreads)
    BY DEF Surjection, SimThreads
  <1> QED
    BY <1>1, <1>2, FS_Surjection

(* A thread counts itself; the last one resets the count and lets simulatePhase *)
(* return.                                                                   *)
LEMMA ThreadDoneStep == ASSUME IInv, NEW i \in Threads, ThreadDone(i) PROVE IInv'
  <1>1. WellTyped /\ Places /\ Phases
    BY DEF IInv
  <1>2. /\ th[i].pc = "done" /\ th' = [th EXCEPT ![i] = Idle] /\ threadsDone' = DoneCount
        /\ lock' = IF LastThread THEN [lock EXCEPT !.wait = TRUE] ELSE lock
        /\ UNCHANGED <<owner, ev, dom, limit, lastLimit, rec, lastCrossing>>
    BY DEF ThreadDone
  <1>3. Idle \in ThreadRecords /\ Idle.pc = "idle" /\ Queues(Idle) = {} /\ Held(Idle) = {}
        /\ Idle.stalled = << >> /\ Idle.next = << >>
    BY IdleIs DEF Idle
  <1>4. /\ th' \in [Threads -> ThreadRecords] /\ th'[i] = Idle
        /\ \A j \in Threads : j # i => th'[j] = th[j]
    BY <1>1, <1>2, <1>3, OneThread
  <1>5. limit \in Nat
    BY <1>1, ClockType
  <1>6. Graph' /\ Links' /\ Times' /\ Late'
    BY <1>2, <1>3, <1>4, <1>5, ControlStep
  <1>7. lock' \in [wake : SUBSET Threads, wait : BOOLEAN]
        /\ lock'.wake = lock.wake /\ lock'.wait = (lock.wait \/ LastThread)
    <2>1. lock \in [wake : SUBSET Threads, wait : BOOLEAN]
      BY <1>1 DEF WellTyped
    <2>2. CASE LastThread
      BY <1>2, <2>1, <2>2
    <2>3. CASE ~LastThread
      BY <1>2, <2>1, <2>3
    <2> QED
      BY <2>2, <2>3
  <1>8. threadsDone' \in Nat
    BY <1>1, <1>2 DEF WellTyped, DoneCount
  <1>9. WellTyped'
    BY <1>1, <1>2, <1>4, <1>7, <1>8 DEF WellTyped
  <1>10. /\ lock.wake \subseteq SimThreads
         /\ \A j \in Threads : j \in lock.wake \/ j \notin SimThreads => th[j].pc = "idle"
         /\ \A d \in Domains : owner[d] \in lock.wake \/ d \in Held(th[owner[d]])
                                 \/ dom[d].curCycle = limit
         /\ \A j \in Threads : th[j].pc \in {"idle", "done"} => Held(th[j]) = {}
    BY <1>1 DEF Phases
  <1>11. i \in SimThreads /\ i \notin lock.wake /\ i \notin Finished
    BY <1>2, <1>10 DEF Finished
  <1>12. InCSim /\ ~lock.wait /\ threadsDone = Cardinality(Finished)
    BY <1>1, <1>11 DEF Phases
  <1>13. SimThreads' = SimThreads /\ Finished' = Finished \cup {i}
    <2>1. SimThreads' = SimThreads /\ SimThreads \subseteq Threads
      BY <1>1, <1>2, ClockType DEF SimThreads
    <2>2. \A j \in SimThreads : j \in Finished' <=> j \in Finished \/ j = i
      BY <1>3, <1>4, <1>7, <1>11, <2>1 DEF Finished
    <2>3. Finished' \subseteq SimThreads /\ Finished \subseteq SimThreads
      BY <2>1 DEF Finished
    <2> QED
      BY <1>11, <2>1, <2>2, <2>3
  <1>14. /\ IsFiniteSet(SimThreads) /\ IsFiniteSet(Finished) /\ Finished \subseteq SimThreads
         /\ Cardinality(Finished) \in Nat
         /\ Cardinality(Finished \cup {i}) = Cardinality(Finished) + 1
    <2>1. Finished \subseteq SimThreads
      BY DEF Finished
    <2>2. IsFiniteSet(SimThreads)
      BY SimThreadsFinite
    <2>3. IsFiniteSet(Finished)
      BY <2>1, <2>2, FS_Subset
    <2> QED
      BY <1>11, <2>1, <2>2, <2>3, FS_AddElement, FS_CardinalityType
  <1>15. LastThread => Finished' = SimThreads
    <2>1. ASSUME LastThread
          PROVE  Finished \cup {i} = SimThreads
      <3>1. Finished \cup {i} \subseteq SimThreads
        BY <1>11, <1>14
      <3>2. Cardinality(Finished \cup {i}) = Cardinality(SimThreads)
        BY <1>12, <1>14, <2>1 DEF LastThread
      <3> QED
        BY <1>14, <3>1, <3>2, FS_Subset
    <2> QED
      BY <1>13, <2>1
  <1>16. Places'
    <2>1. Working(i, Idle)'
      <3>1. Queues(Idle)' = Queues(Idle)
        BY DEF Queues
      <3> QED
        BY <1>3, <3>1 DEF Working, Busy
    <2>2. \A e \in Events : owner[Domain(e)] = i => ev[e].state # "running"
      BY <1>1, <1>2 DEF Places, Busy
    <2> QED
      BY <1>1, <1>2, <2>1, <2>2, PlacesStep
  <1>17. Phases'
    <2>1. \A j \in Threads : Held(th[j])' = Held(th[j])
      <3>1. ASSUME NEW j \in Threads
            PROVE  Held(th[j])' = Held(th'[j])
        BY DEF Held, Queues
      <3>2. Held(th[i]) = {}
        BY <1>2, <1>10
      <3> QED
        BY <1>3, <1>4, <3>1, <3>2
    <2>2. lock'.wake \subseteq SimThreads'
      BY <1>7, <1>10, <1>13
    <2>3. \A j \in Threads : j \in lock'.wake \/ j \notin SimThreads' => th'[j].pc = "idle"
      BY <1>3, <1>4, <1>7, <1>10, <1>13
    <2>4. \A d \in Domains : owner'[d] \in lock'.wake \/ d \in Held(th[owner[d]])'
                               \/ dom'[d].curCycle = limit'
      <3>1. \A d \in Domains : owner[d] \in Threads
        BY <1>1, ClockType
      <3>2. \A d \in Domains : Held(th[owner[d]])' = Held(th[owner[d]])
        BY <1>2, <2>1, <3>1
      <3> QED
        BY <1>2, <1>7, <1>10, <3>2
    <2>5. \A j \in Threads : th'[j].pc \in {"idle", "done"} => Held(th[j])' = {}
      <3>1. Held(th[i]) = {}
        BY <1>2, <1>10
      <3> QED
        BY <1>4, <1>10, <2>1, <3>1
    <2>6. InCSim'
      BY <1>2, <1>12 DEF InCSim
    <2>7. threadsDone' = IF InCSim' /\ ~lock'.wait THEN Cardinality(Finished') ELSE 0
      <3>1. CASE LastThread
        BY <1>2, <1>7, <3>1 DEF DoneCount
      <3>2. CASE ~LastThread
        BY <1>2, <1>7, <1>12, <1>13, <1>14, <2>6, <3>2 DEF DoneCount
      <3> QED
        BY <3>1, <3>2
    <2>8. lock'.wait => Finished' = SimThreads'
      BY <1>7, <1>12, <1>13, <1>15
    <2> QED
      BY <2>2, <2>3, <2>4, <2>5, <2>6, <2>7, <2>8 DEF Phases
  <1> QED
    BY <1>6, <1>9, <1>16, <1>17 DEF IInv

(* A step that leaves events and pointers alone. *)
LEMMA EventsAlone ==
    ASSUME IInv, UNCHANGED <<ev, rec, lastCrossing>>,
           \A i \in Threads : th'[i] = th[i] \/ th'[i].pc # "recheck"
    PROVE  Graph' /\ Links' /\ Late'
  <1>1. WellTyped /\ Graph /\ Links /\ Places /\ Late
    BY DEF IInv
  <1>2. /\ ev' \in [Events -> Records] /\ Progress /\ Graph'
        /\ \A e \in Events : ev'[e] = ev[e]
    BY <1>1, SameEvents
  <1>3. Links'
    BY <1>1, <1>2, LinksStay
  <1>4. Late'
    <2>1. \A x \in Events :
               /\ IsCrossing(x) /\ ev[x].state # "none"
               /\ ev'[x].state \in {"queued", "running"}
               => ev[x].state \in {"queued", "running"} /\ ev'[x].at = ev[x].at
      BY <1>2
    <2>2. \A x \in Events :
               IsCrossing(x) /\ ev[x].state # "done" /\ ev'[x].state = "done" => FALSE
      BY <1>2
    <2> QED
      BY <1>1, <1>2, <2>1, <2>2, LateStep
  <1> QED
    BY <1>2, <1>3, <1>4

(* The clock of a domain that runs no event moves, but not past its queue. *)
LEMMA ClockMoves ==
    ASSUME WellTyped, Times, NEW d \in Domains, UNCHANGED <<owner, ev, limit>>,
           \A f \in Domains : f # d => dom'[f].curCycle = dom[f].curCycle,
           \A e \in Queued(d) : ev[e].at >= dom'[d].curCycle,
           \A e \in Events : Domain(e) = d => ev[e].state # "running"
    PROVE  Times'
  <1>1. ASSUME NEW e \in Events
        PROVE  /\ ev'[e].state = "queued" => ev'[e].at >= dom'[Domain(e)].curCycle
               /\ ev'[e].state = "running" => ev'[e].at = dom'[Domain(e)].curCycle
    <2>1. /\ ev[e].state = "queued" => ev[e].at >= dom[Domain(e)].curCycle
          /\ ev[e].state = "running" => ev[e].at = dom[Domain(e)].curCycle
      BY DEF Times
    <2>2. Domain(e) \in Domains
      BY DomainType
    <2>3. Domain(e) = d /\ ev[e].state = "queued" => ev[e].at >= dom'[d].curCycle
      BY DEF Queued
    <2> QED
      BY <2>1, <2>2, <2>3
  <1>2. MinStartRespected'
    <2>1. \A i : Alone(i)' = Alone(i)
      BY SameOwner
    <2> QED
      BY <2>1 DEF Times, MinStartRespected
  <1> QED
    BY <1>1, <1>2 DEF Times

(* What a thread knows of the domain it takes. *)
LEMMA CandidateIs ==
    ASSUME WellTyped, Places, NEW i \in Threads, NEW d \in Domains,
           th[i].pc = "loop", d \in Candidates(i)
    PROVE  /\ IsNext(th[i], d) /\ owner[d] = i /\ Held(th[i]) = Queues(th[i])
           /\ Queues(th[i]) \subseteq Owned(i)
           /\ \A e \in Events : Domain(e) = d => ev[e].state # "running"
           /\ \A e \in Events : owner[Domain(e)] = i => ev[e].state # "running"
           /\ Alone(i) => th[i].domPq # {} /\ th[i].stalled = << >> /\ th[i].next = << >>
  <1>1. Working(i, th[i])
    BY DEF Places
  <1>2. IsNext(th[i], d)
    BY <1>1 DEF Candidates, IsNext, Working
  <1>3. d \in Queues(th[i])
    BY <1>2, ThreadType, TakenIs
  <1>4. owner[d] = i
    BY <1>1, <1>3 DEF Working, Owned
  <1>5. Held(th[i]) = Queues(th[i])
    BY DEF Held, Busy
  <1>6. \A e \in Events : owner[Domain(e)] = i => ev[e].state # "running"
    BY DEF Places, Busy
  <1> QED
    BY <1>1, <1>2, <1>4, <1>5, <1>6 DEF Working

(* The clocks' type after one of them moves. *)
LEMMA ClockSet ==
    ASSUME WellTyped, NEW d \in Domains, NEW c \in Nat,
           dom' = [dom EXCEPT ![d].curCycle = c]
    PROVE  /\ dom' \in [Domains -> [curCycle : Nat, prio : 0..2, queuePrio : Nat]]
           /\ dom'[d].curCycle = c
           /\ \A f \in Domains : f # d => dom'[f] = dom[f]
  <1> DEFINE P == 0..2
             T == [curCycle : Nat, prio : P, queuePrio : Nat]
  <1>1. dom \in [Domains -> T]
    BY DEF WellTyped
  <1> HIDE DEF P
  <1>2. dom' \in [Domains -> T] /\ dom'[d].curCycle = c
        /\ \A f \in Domains : f # d => dom'[f] = dom[f]
    BY <1>1
  <1> QED
    BY <1>2 DEF P

(* What the thread does next when the domain it took is finished. *)
LEMMA FinishedIs ==
    ASSUME NEW q \in ThreadRecords, q.pc = "loop",
           NEW r, r = IF Exhausted(q) THEN [Idle EXCEPT !.pc = "done"] ELSE Swapped(q)
    PROVE  /\ r \in ThreadRecords /\ r.pc \in {"loop", "done"} /\ Queues(r) = Queues(q)
           /\ r.pc = "done" => Queues(r) = {}
           /\ r.pc = "loop" => r.domPq # {} \/ r.stalled # << >>
           /\ q.stalled = << >> /\ q.next = << >> => r.stalled = << >> /\ r.next = << >>
           /\ Held(r) = Queues(r)
  <1>1. << >> \in Seq(Domains) /\ ToSet(<< >>) = {}
    BY DEF ToSet
  <1>2. CASE Exhausted(q)
    <2>1. /\ r \in ThreadRecords /\ r.pc = "done" /\ r.stalled = << >> /\ r.next = << >>
          /\ Queues(r) = {} /\ Held(r) = {}
      <3>1. r = Awake("done", {})
        BY <1>2, IdleIs
      <3>2. {} \in SUBSET Domains /\ "done" \in {"loop", "done"}
        OBVIOUS
      <3>3. /\ Awake("done", {}) \in ThreadRecords /\ Awake("done", {}).pc = "done"
            /\ Awake("done", {}).stalled = << >> /\ Awake("done", {}).next = << >>
            /\ Queues(Awake("done", {})) = {} /\ Held(Awake("done", {})) = {}
        BY <3>2, IdleIs, Zenon
      <3> QED
        BY <3>1, <3>3, Zenon
    <2>2. Queues(q) = {}
      BY <1>1, <1>2 DEF Exhausted, Queues
    <2> QED
      BY <2>1, <2>2
  <1>3. CASE ~Exhausted(q)
    <2>1. r = Swapped(q)
      BY <1>3
    <2>2. /\ r \in ThreadRecords /\ r.pc = q.pc /\ Queues(r) = Queues(q) /\ r.domPq = q.domPq
          /\ \/ r = q
             \/ q.stalled = << >> /\ r.stalled = q.next /\ r.next = << >>
          /\ q.stalled = << >> /\ (q.domPq = {} \/ ~q.fast) => r.stalled = q.next
      BY <2>1, SwappedIs, Zenon
    <2>3. Held(r) = Queues(r)
      BY <2>2 DEF Held, Busy
    <2> QED
      BY <1>3, <2>2, <2>3 DEF Exhausted
  <1> QED
    BY <1>2, <1>3

(* A domain whose first event is after the limit has its clock set to it. *)
LEMMA FinishDomainStep ==
    ASSUME IInv, NEW i \in Threads, NEW d \in Domains, FinishDomain(i, d) PROVE IInv'
  <1>1. WellTyped /\ Times /\ Places /\ Phases
    BY DEF IInv
  <1>2. PICK q, r : /\ q = Taken(th[i], d)
                    /\ r = IF Exhausted(q) THEN [Idle EXCEPT !.pc = "done"] ELSE Swapped(q)
    OBVIOUS
  <1>3. /\ th[i].pc = "loop" /\ d \in Candidates(i) /\ PhaseOver(i, d)
        /\ dom' = [dom EXCEPT ![d].curCycle = limit] /\ th' = [th EXCEPT ![i] = r]
        /\ UNCHANGED <<owner, ev, limit, lastLimit, lock, threadsDone, rec, lastCrossing>>
    BY <1>2 DEF FinishDomain
  <1>4. /\ IsNext(th[i], d) /\ owner[d] = i /\ Held(th[i]) = Queues(th[i])
        /\ Queues(th[i]) \subseteq Owned(i)
        /\ \A e \in Events : Domain(e) = d => ev[e].state # "running"
        /\ \A e \in Events : owner[Domain(e)] = i => ev[e].state # "running"
        /\ Alone(i) => th[i].domPq # {} /\ th[i].stalled = << >> /\ th[i].next = << >>
    BY <1>1, <1>3, CandidateIs
  <1>5. /\ q \in ThreadRecords /\ q.pc = "loop" /\ q.next = th[i].next
        /\ th[i].domPq # {} => q.stalled = th[i].stalled
        /\ Queues(th[i]) = Queues(q) \cup {d}
    BY <1>1, <1>2, <1>3, <1>4, ThreadType, TakenIs
  <1>6. /\ r \in ThreadRecords /\ r.pc \in {"loop", "done"} /\ Queues(r) = Queues(q)
        /\ r.pc = "done" => Queues(r) = {}
        /\ r.pc = "loop" => r.domPq # {} \/ r.stalled # << >>
        /\ q.stalled = << >> /\ q.next = << >> => r.stalled = << >> /\ r.next = << >>
        /\ Held(r) = Queues(r)
    BY <1>2, <1>5, FinishedIs
  <1>7. /\ th' \in [Threads -> ThreadRecords] /\ th'[i] = r
        /\ \A j \in Threads : j # i => th'[j] = th[j]
    BY <1>1, <1>3, <1>6, OneThread
  <1>8. limit \in Nat
    BY <1>1, ClockType
  <1>9. /\ dom' \in [Domains -> [curCycle : Nat, prio : 0..2, queuePrio : Nat]]
        /\ dom'[d].curCycle = limit
        /\ \A f \in Domains : f # d => dom'[f] = dom[f]
    BY <1>1, <1>3, <1>8, ClockSet
  <1>10. Graph' /\ Links' /\ Late'
    BY <1>3, <1>6, <1>7, EventsAlone
  <1>11. WellTyped'
    BY <1>1, <1>3, <1>7, <1>9 DEF WellTyped
  <1>12. Times'
    <2>1. \A e \in Queued(d) : ev[e].at >= limit
      <3>1. ASSUME NEW e \in Queued(d)
            PROVE  ev[e].at >= limit
        <4>1. FirstCycle(d) \in Nat /\ FirstCycle(d) <= ev[e].at /\ ev[e].at \in Nat
          BY <1>1, <3>1, FirstCycleFacts, EventType DEF Queued
        <4>2. FirstCycle(d) >= limit
          BY <1>3, <1>8, <3>1, <4>1 DEF PhaseOver
        <4> QED
          BY <1>8, <4>1, <4>2
      <3> QED
        BY <3>1
    <2> QED
      BY <1>1, <1>3, <1>4, <1>9, <2>1, ClockMoves
  <1>13. Places'
    <2>1. Working(i, r)'
      <3>1. Queues(r)' = Queues(r) /\ Owned(i)' = Owned(i) /\ Alone(i)' = Alone(i)
        BY <1>3, SameOwner DEF Queues
      <3> QED
        BY <1>4, <1>5, <1>6, <3>1 DEF Working, Busy
    <2> QED
      BY <1>1, <1>3, <1>4, <2>1, PlacesStep
  <1>14. Phases'
    <2>1. \A f \in Domains : owner[f] = i =>
               \/ f \in Held(r) \/ dom'[f].curCycle = limit
               \/ f \notin Held(th[i]) /\ dom'[f].curCycle = dom[f].curCycle
      BY <1>4, <1>5, <1>6, <1>9
    <2>2. \A f \in Domains : owner[f] # i => dom'[f].curCycle = dom[f].curCycle
      BY <1>4, <1>9
    <2>3. r.pc = "done" => Held(r) = {}
      BY <1>6
    <2>4. th[i].pc # "idle" /\ r.pc # "idle"
      BY <1>3, <1>6
    <2> QED
      BY <1>1, <1>3, <2>1, <2>2, <2>3, <2>4, PhasesStep
  <1> QED
    BY <1>10, <1>11, <1>12, <1>13, <1>14 DEF IInv

(* The event of the least cycle leaves its queue, and the domain's clock is set *)
(* to its cycle.                                                             *)
LEMMA DequeueStep ==
    ASSUME IInv, NEW i \in Threads, NEW d \in Domains, NEW e \in Events, Dequeue(i, d, e)
    PROVE  IInv'
  <1>1. WellTyped /\ Graph /\ Links /\ Times /\ Places /\ Phases /\ Late
    BY DEF IInv
  <1>2. PICK q, r, a : /\ q = Taken(th[i], d) /\ r = [q EXCEPT !.pc = "run", !.te = e]
                       /\ a = ev[e].at
    BY Zenon
  <1>3. /\ th[i].pc = "loop" /\ d \in Candidates(i) /\ ~PhaseOver(i, d)
        /\ e \in Queued(d) /\ a = FirstCycle(d)
        /\ dom' = [dom EXCEPT ![d].curCycle = a] /\ th' = [th EXCEPT ![i] = r]
        /\ ev' = [ev EXCEPT ![e].state = "running"]
        /\ UNCHANGED <<owner, limit, lastLimit, lock, threadsDone, rec, lastCrossing>>
    BY <1>2 DEF Dequeue
  <1>4. /\ IsNext(th[i], d) /\ owner[d] = i /\ Held(th[i]) = Queues(th[i])
        /\ Queues(th[i]) \subseteq Owned(i)
        /\ \A f \in Events : Domain(f) = d => ev[f].state # "running"
        /\ \A f \in Events : owner[Domain(f)] = i => ev[f].state # "running"
        /\ Alone(i) => th[i].domPq # {} /\ th[i].stalled = << >> /\ th[i].next = << >>
    BY <1>1, <1>3, CandidateIs
  <1>5. /\ q \in ThreadRecords /\ q.next = th[i].next
        /\ q.fast = (th[i].domPq # {})
        /\ th[i].domPq # {} => q.stalled = th[i].stalled
        /\ d \in Queues(th[i]) /\ Queues(th[i]) = Queues(q) \cup {d}
    BY <1>1, <1>2, <1>3, <1>4, ThreadType, TakenIs
  <1>6. /\ Domain(e) = d /\ ev[e].state = "queued" /\ a \in Nat /\ ev[e].minStart \in Nat
        /\ limit \in Nat
    BY <1>1, <1>2, <1>3, EventType, ClockType DEF Queued
  <1>7. /\ r \in ThreadRecords /\ r.pc = "run" /\ r.te = e /\ r.fast = q.fast
        /\ r.domPq = q.domPq /\ r.stalled = q.stalled /\ r.next = q.next
    BY <1>2, <1>5 DEF ThreadRecords
  <1>8. Queues(r) = Queues(q) /\ Held(r) = Queues(th[i])
    BY <1>5, <1>6, <1>7 DEF Queues, Held, Busy
  <1>9. /\ th' \in [Threads -> ThreadRecords] /\ th'[i] = r
        /\ \A j \in Threads : j # i => th'[j] = th[j]
    BY <1>1, <1>3, <1>7, OneThread
  <1>10. /\ dom' \in [Domains -> [curCycle : Nat, prio : 0..2, queuePrio : Nat]]
         /\ dom'[d].curCycle = a
         /\ \A f \in Domains : f # d => dom'[f] = dom[f]
    BY <1>1, <1>3, <1>6, ClockSet
  <1>11. MoveShape(e) /\ ev'[e].state = "running" /\ ev'[e].at = a
    <2>1. ev' = [ev EXCEPT ![e].state = "running", ![e].at = a]
      <3>1. ev \in [Events -> Records]
        BY <1>1 DEF WellTyped
      <3> QED
        BY <1>2, <1>3, <3>1 DEF Records
    <2>2. a >= ev[e].at
      BY <1>2, <1>6
    <2> QED
      BY <1>1, <1>6, <2>1, <2>2, MoveIs
  <1>12. /\ ev' \in [Events -> Records] /\ \A f \in Events : f # e => ev'[f] = ev[f]
         /\ ev'[e].minStart = ev[e].minStart
    BY <1>11 DEF MoveShape
  <1>13. Progress
    BY <1>1, <1>11, MoveProgress
  <1>14. Graph'
    BY <1>1, <1>11, MoveGraph
  <1>15. Links'
    BY <1>1, <1>3, <1>13, LinksStay
  <1>16. WellTyped'
    BY <1>1, <1>3, <1>9, <1>10, <1>12 DEF WellTyped
  <1>17. Times'
    <2>1. \A f \in Events : Domain(f) \in Domains
      BY DomainType
    <2>2. \A f \in Events :
              /\ ev[f].state = "queued" => ev[f].at >= dom[Domain(f)].curCycle
              /\ ev[f].state = "running" => ev[f].at = dom[Domain(f)].curCycle
      BY <1>1 DEF Times
    <2>3. \A f \in Queued(d) : ev[f].at >= a
      BY <1>1, <1>3, FirstCycleFacts, EventType DEF Queued
    <2>4. ASSUME NEW f \in Events
          PROVE  /\ ev'[f].state = "queued" => ev'[f].at >= dom'[Domain(f)].curCycle
                 /\ ev'[f].state = "running" => ev'[f].at = dom'[Domain(f)].curCycle
      <3>1. CASE f = e
        BY <1>6, <1>10, <1>11, <3>1
      <3>2. CASE f # e /\ Domain(f) = d
        BY <1>4, <1>10, <1>12, <2>3, <3>2 DEF Queued
      <3>3. CASE Domain(f) # d
        BY <1>6, <1>10, <1>12, <2>1, <2>2, <3>3
      <3> QED
        BY <3>1, <3>2, <3>3
    <2>5. a <= limit
      <3>1. Queued(d) # {} /\ FirstCycle(d) \in Nat
        BY <1>1, <1>3, FirstCycleFacts
      <3> QED
        BY <1>3, <1>6, <3>1 DEF PhaseOver
    <2>6. \A x \in Events : IsCrossing(x) =>
              /\ ev'[x].state \in {"queued", "running"} => ev'[x].at >= ev'[x].minStart
              /\ ev'[x].state \in {"running", "done"} => ev'[x].minStart <= limit'
      <3>1. \A x \in Events : IsCrossing(x) =>
              /\ ev[x].state \in {"queued", "running"} => ev[x].at >= ev[x].minStart
              /\ ev[x].state \in {"running", "done"} => ev[x].minStart <= limit
        BY <1>1 DEF Times
      <3> QED
        BY <1>2, <1>3, <1>6, <1>11, <1>12, <2>5, <3>1
    <2>7. MinStartRespected'
      <3>1. \A j : Alone(j)' = Alone(j)
        BY <1>3, SameOwner
      <3>2. MinStartRespected
        BY <1>1 DEF Times
      <3> QED
        BY <1>3, <1>11, <1>12, <3>1, <3>2 DEF MinStartRespected
    <2> QED
      BY <2>4, <2>6, <2>7 DEF Times
  <1>18. Places'
    <2>1. Working(i, r)'
      <3>1. Queues(r)' = Queues(r) /\ Owned(i)' = Owned(i) /\ Alone(i)' = Alone(i)
        BY <1>3, SameOwner DEF Queues
      <3> QED
        BY <1>3, <1>4, <1>5, <1>6, <1>7, <1>8, <1>11, <3>1 DEF Working, Busy
    <2>2. \A f \in Events : owner[Domain(f)] # i =>
               /\ ev'[f].state = "running" <=> ev[f].state = "running"
               /\ ev[f].state = "running" => ev'[f].at = ev[f].at
      BY <1>4, <1>6, <1>12
    <2>3. \A f \in Events : owner[Domain(f)] = i /\ ev'[f].state = "running" =>
               r.pc \in Busy /\ r.te = f
      BY <1>4, <1>7, <1>12 DEF Busy
    <2>4. WellTyped /\ Places /\ th' = [th EXCEPT ![i] = r] /\ owner' = owner
      BY <1>1, <1>3
    <2> QED
      BY <2>1, <2>2, <2>3, <2>4, PlacesStep, ZenonT(60)
  <1>19. Phases'
    <2>1. \A f \in Domains : owner[f] = i =>
               \/ f \in Held(r) \/ dom'[f].curCycle = limit
               \/ f \notin Held(th[i]) /\ dom'[f].curCycle = dom[f].curCycle
      BY <1>4, <1>5, <1>8, <1>10
    <2>2. \A f \in Domains : owner[f] # i => dom'[f].curCycle = dom[f].curCycle
      BY <1>4, <1>10
    <2>3. th[i].pc # "idle" /\ r.pc # "idle" /\ r.pc # "done"
      BY <1>3, <1>7
    <2> QED
      BY <1>1, <1>3, <2>1, <2>2, <2>3, PhasesStep
  <1>20. Late'
    <2>1. \A x \in Events :
               /\ IsCrossing(x) /\ ev[x].state # "none"
               /\ ev'[x].state \in {"queued", "running"}
               => ev[x].state \in {"queued", "running"} /\ ev'[x].at = ev[x].at
      BY <1>2, <1>6, <1>11, <1>12
    <2>2. \A x \in Events :
               IsCrossing(x) /\ ev[x].state # "done" /\ ev'[x].state = "done" => FALSE
      BY <1>11, <1>12
    <2>3. \A j \in Threads : th'[j].pc = "recheck" => th'[j] = th[j]
      BY <1>7, <1>9
    <2> QED
      BY <1>1, <1>12, <1>13, <2>1, <2>2, <2>3, LateStep
  <1> QED
    BY <1>14, <1>15, <1>16, <1>17, <1>18, <1>19, <1>20 DEF IInv

(* What a thread knows of the event it runs. *)
LEMMA RunningIs ==
    ASSUME WellTyped, Times, Places, NEW i \in Threads, th[i].pc \in Busy
    PROVE  /\ th[i].te \in Events /\ owner[Domain(th[i].te)] = i
           /\ Domain(th[i].te) \in Domains
           /\ ev[th[i].te].state = "running"
           /\ ev[th[i].te].at = dom[Domain(th[i].te)].curCycle
           /\ \A f \in Events : owner[Domain(f)] = i /\ ev[f].state = "running" => f = th[i].te
           /\ th[i].pc = "recheck" => th[i].rd >= ev[th[i].te].at
           /\ th[i].pc \in {"read", "recheck"} => IsCrossing(th[i].te)
           /\ th[i].pc = "run" /\ Alone(i) => th[i].fast
  <1>1. Working(i, th[i])
    BY DEF Places
  <1>2. /\ th[i].te \in Events /\ owner[Domain(th[i].te)] = i
        /\ ev[th[i].te].state = "running"
        /\ th[i].pc = "recheck" => th[i].rd >= ev[th[i].te].at
        /\ th[i].pc \in {"read", "recheck"} => IsCrossing(th[i].te)
        /\ th[i].pc = "run" /\ Alone(i) => th[i].fast
    BY <1>1 DEF Working
  <1>3. \A f \in Events : owner[Domain(f)] = i /\ ev[f].state = "running" => f = th[i].te
    BY DEF Places
  <1>4. ev[th[i].te].at = dom[Domain(th[i].te)].curCycle
    BY <1>2 DEF Times
  <1> QED
    BY <1>2, <1>3, <1>4, DomainType

(* The thread that has run its event. *)
LEMMA AfterIs ==
    ASSUME WellTyped, NEW i \in Threads, th' = [th EXCEPT ![i].pc = "after"]
    PROVE  \E r \in ThreadRecords :
              /\ r.pc = "after" /\ r.te = th[i].te /\ r.fast = th[i].fast
              /\ r.domPq = th[i].domPq /\ r.stalled = th[i].stalled /\ r.next = th[i].next
              /\ th' = [th EXCEPT ![i] = r]
  <1>1. PICK r : r = [th[i] EXCEPT !.pc = "after"]
    OBVIOUS
  <1>2. th[i] \in ThreadRecords
    BY ThreadType
  <1>3. /\ r \in ThreadRecords /\ r.pc = "after" /\ r.te = th[i].te /\ r.fast = th[i].fast
        /\ r.domPq = th[i].domPq /\ r.stalled = th[i].stalled /\ r.next = th[i].next
    BY <1>1, <1>2 DEF ThreadRecords
  <1>4. th' = [th EXCEPT ![i] = r]
    BY <1>1
  <1> QED
    BY <1>3, <1>4

(* No event but e starts or stops to run. *)
OthersKeep(e) ==
    /\ ev'[e].state # "running"
    /\ \A f \in Events : f # e =>
          /\ ev'[f].state = "running" <=> ev[f].state = "running"
          /\ ev[f].state = "running" => ev'[f].at = ev[f].at

(* The thread's event is over: it is done, or queued again. *)
LEMMA AfterRun ==
    ASSUME WellTyped, Times, Places, Phases, NEW i \in Threads, th[i].pc \in Busy,
           NEW r \in ThreadRecords, r.pc = "after", r.te = th[i].te, r.fast = th[i].fast,
           r.domPq = th[i].domPq, r.stalled = th[i].stalled, r.next = th[i].next,
           th' = [th EXCEPT ![i] = r],
           UNCHANGED <<owner, limit, lastLimit, lock, threadsDone>>,
           \A d \in Domains : dom'[d].curCycle = dom[d].curCycle,
           OthersKeep(th[i].te)
    PROVE  /\ th' \in [Threads -> ThreadRecords] /\ Places' /\ Phases'
           /\ \A j \in Threads : th'[j] = th[j] \/ th'[j].pc # "recheck"
  <1>5. /\ th' \in [Threads -> ThreadRecords] /\ th'[i] = r
        /\ \A j \in Threads : j # i => th'[j] = th[j]
    BY OneThread
  <1>6. Queues(r) = Queues(th[i]) /\ Held(r) = Held(th[i])
    BY DEF Queues, Held
  <1>7. /\ th[i].te \in Events /\ owner[Domain(th[i].te)] = i
        /\ \A f \in Events : owner[Domain(f)] = i /\ ev[f].state = "running" => f = th[i].te
    BY RunningIs
  <1>8. Places'
    <2>1. Working(i, r)'
      <3>1. Queues(r)' = Queues(r) /\ Owned(i)' = Owned(i) /\ Alone(i)' = Alone(i)
        BY SameOwner DEF Queues
      <3>2. Working(i, th[i])
        BY DEF Places
      <3> QED
        BY <1>6, <1>7, <3>1, <3>2 DEF Working, Busy
    <2>2. \A f \in Events : owner[Domain(f)] # i =>
               /\ ev'[f].state = "running" <=> ev[f].state = "running"
               /\ ev[f].state = "running" => ev'[f].at = ev[f].at
      BY <1>7 DEF OthersKeep
    <2>3. \A f \in Events : owner[Domain(f)] = i /\ ev'[f].state = "running" =>
               r.pc \in Busy /\ r.te = f
      BY <1>7 DEF OthersKeep
    <2>4. WellTyped /\ Places /\ i \in Threads /\ owner' = owner /\ th' = [th EXCEPT ![i] = r]
      OBVIOUS
    <2> QED
      BY ONLY <2>1, <2>2, <2>3, <2>4, PlacesStep
  <1>9. Phases'
    <2>1. \A f \in Domains : owner[f] = i =>
               \/ f \in Held(r) \/ dom'[f].curCycle = limit
               \/ f \notin Held(th[i]) /\ dom'[f].curCycle = dom[f].curCycle
      BY <1>6
    <2>2. \A f \in Domains : owner[f] # i => dom'[f].curCycle = dom[f].curCycle
      OBVIOUS
    <2>3. th[i].pc # "idle" /\ r.pc # "idle" /\ r.pc # "done"
      BY DEF Busy
    <2> QED
      BY <2>1, <2>2, <2>3, PhasesStep
  <1> QED
    BY <1>5, <1>8, <1>9

(* done(c) touches no other event that is queued, running or done. *)
LEMMA DoneOthers ==
    ASSUME Graph, NEW e \in Events, NEW c, DoneShape(e, c)
    PROVE  /\ \A f \in Events : f # e =>
                \/ ev'[f].state = ev[f].state /\ ev'[f].at = ev[f].at
                \/ ev[f].state = "none" /\ ev'[f].state = "queued"
           /\ \A f \in Events : ev[f].state = "free" /\ f # e => ev'[f] = ev[f]
  <1>1. ASSUME NEW f \in Events, f # e
        PROVE  /\ \/ ev'[f].state = ev[f].state /\ ev'[f].at = ev[f].at
                  \/ ev[f].state = "none" /\ ev'[f].state = "queued"
               /\ ev[f].state = "free" => ev'[f] = ev[f]
    <2>1. CASE f \in ev[e].kids
      BY <2>1 DEF DoneShape
    <2>2. CASE Marked(e, f)
      BY <2>2 DEF DoneShape, Marked
    <2>3. CASE f \notin ev[e].kids /\ ~Marked(e, f)
      BY <1>1, <2>3 DEF DoneShape
    <2> QED
      BY <2>1, <2>2, <2>3
  <1> QED
    BY <1>1

(* An event ends. *)
LEMMA EventEnds ==
    ASSUME IInv, NEW i \in Threads, NEW e \in Events, NEW c \in Nat,
           th[i].pc \in Busy, th[i].te = e, ev' = Done(e, c), c >= ev[e].at,
           IsCrossing(e) => ev[e].called /\ c = DoneCycle(e),
           e[2] \in {"P", "R"} /\ Alone(i) => c >= ev[e].minStart,
           th' = [th EXCEPT ![i].pc = "after"],
           UNCHANGED <<owner, limit, lastLimit, lock, threadsDone, lastCrossing>>,
           \A d \in Domains : dom'[d].curCycle = dom[d].curCycle,
           \A k \in Cores : rec'[k].tail = rec[k].tail
    PROVE  /\ ev' \in [Events -> Records] /\ th' \in [Threads -> ThreadRecords]
           /\ Graph' /\ Links' /\ Times' /\ Places' /\ Phases' /\ Late'
  <1>1. WellTyped /\ Graph /\ Links /\ Times /\ Places /\ Phases /\ Late
    BY DEF IInv
  <1>2. /\ owner[Domain(e)] = i /\ Domain(e) \in Domains /\ ev[e].state = "running"
    BY <1>1, RunningIs
  <1>3. /\ ev[e].at \in Nat /\ ev[e].doneCycle \in Nat /\ ev[e].entry \in Nat
        /\ ev[e].rel \in Nat /\ ev[e].minStart \in Nat
    BY <1>1, EventType
  <1>4. IsCrossing(e) => c >= ev[e].doneCycle /\ (c = ev[e].at \/ c = ev[e].doneCycle)
    BY <1>3, GreaterFacts DEF DoneCycle
  <1>5. DoneShape(e, c)
    BY <1>1, <1>2, DoneIs
  <1>6. Progress
    BY <1>1, <1>2, DoneProgress
  <1>7. Graph'
    BY <1>1, <1>2, <1>4, DoneGraph
  <1>8. ev' \in [Events -> Records] /\ ev'[e].state = "done" /\ ev'[e].at = c
    BY <1>5 DEF DoneShape
  <1>9. /\ \A f \in Events : f # e =>
             \/ ev'[f].state = ev[f].state /\ ev'[f].at = ev[f].at
             \/ ev[f].state = "none" /\ ev'[f].state = "queued"
        /\ \A f \in Events : ev[f].state = "free" /\ f # e => ev'[f] = ev[f]
    BY <1>1, <1>5, DoneOthers
  <1>10. Links'
    BY <1>1, <1>6, LinksStay
  <1>11. Times'
    <2>1. \A f \in Events : ev[f].state = "free" => ev'[f].state = "free"
      BY <1>2, <1>9
    <2>2. \A f \in Events : ev'[f].state = "running" =>
             ev[f].state = "running" /\ ev'[f].at = ev[f].at
      BY <1>8, <1>9
    <2>3. \A f \in Events : /\ f[2] \in {"P", "R"} /\ ev[f].state # "done"
                            /\ ev'[f].state = "done" /\ Alone(owner[Domain(f)])
                            => ev'[f].at >= ev[f].minStart
      BY <1>2, <1>8, <1>9
    <2> QED
      BY <1>1, <1>6, <1>8, <2>1, <2>2, <2>3, TimesStay
  <1>12. /\ th' \in [Threads -> ThreadRecords] /\ Places' /\ Phases'
         /\ \A j \in Threads : th'[j] = th[j] \/ th'[j].pc # "recheck"
    <2>1. OthersKeep(th[i].te)
      BY <1>8, <1>9 DEF OthersKeep
    <2>2. PICK r \in ThreadRecords :
             /\ r.pc = "after" /\ r.te = th[i].te /\ r.fast = th[i].fast
             /\ r.domPq = th[i].domPq /\ r.stalled = th[i].stalled /\ r.next = th[i].next
             /\ th' = [th EXCEPT ![i] = r]
      BY <1>1, AfterIs
    <2> QED
      BY <1>1, <2>1, <2>2, AfterRun
  <1>13. Late'
    <2>1. \A x \in Events :
               /\ IsCrossing(x) /\ ev[x].state # "none"
               /\ ev'[x].state \in {"queued", "running"}
               => ev[x].state \in {"queued", "running"} /\ ev'[x].at = ev[x].at
      BY <1>8, <1>9
    <2>2. \A x \in Events :
               IsCrossing(x) /\ ev[x].state # "done" /\ ev'[x].state = "done" =>
                  \/ ev'[x].at <= ev'[x].entry
                  \/ ev'[x].at <= ev'[x].rel
                  \/ ev'[x].at <= ev'[x].doneCycle + Margin(x)'
      <3>1. ASSUME IsCrossing(e)
            PROVE  \/ c <= ev'[e].entry \/ c <= ev'[e].rel
                   \/ c <= ev'[e].doneCycle + Margin(e)'
        <4>1. /\ ev'[e].entry = ev[e].entry /\ ev'[e].rel = ev[e].rel
              /\ ev'[e].doneCycle = ev[e].doneCycle
          BY <1>5 DEF DoneShape, Same
        <4>2. Margin(e) \in Nat /\ Margin(e)' = Margin(e)
          BY <1>1, <1>2, <1>6, <3>1, SlackStays
        <4>3. Bounded(e, ev[e].at)
          BY <1>1, <1>2, <3>1 DEF Late
        <4>4. \/ ev[e].at <= ev[e].entry \/ ev[e].at <= ev[e].rel
              \/ ev[e].at <= ev[e].doneCycle + Margin(e)
          BY <3>1, <4>3 DEF Bounded
        <4> QED
          BY <1>3, <1>4, <3>1, <4>1, <4>2, <4>4
      <3>2. \A x \in Events : ev[x].state # "done" /\ ev'[x].state = "done" => x = e
        BY <1>9
      <3> QED
        BY <1>8, <3>1, <3>2
    <2> QED
      BY <1>1, <1>6, <1>8, <1>12, <2>1, <2>2, LateStep
  <1> QED
    BY <1>7, <1>8, <1>10, <1>11, <1>12, <1>13

(* An event is put back into its queue, at a later cycle or the same one. *)
LEMMA EventRequeued ==
    ASSUME IInv, NEW i \in Threads, NEW e \in Events, th[i].pc \in Busy, th[i].te = e,
           MoveShape(e), ev'[e].state = "queued",
           IsCrossing(e) => \E a \in Nat : a = ev'[e].at /\ Bounded(e, a)',
           th' = [th EXCEPT ![i].pc = "after"],
           UNCHANGED <<owner, limit, lastLimit, lock, threadsDone, lastCrossing>>,
           \A d \in Domains : dom'[d].curCycle = dom[d].curCycle,
           \A k \in Cores : rec'[k].tail = rec[k].tail
    PROVE  /\ ev' \in [Events -> Records] /\ th' \in [Threads -> ThreadRecords]
           /\ Graph' /\ Links' /\ Times' /\ Places' /\ Phases' /\ Late'
  <1>1. WellTyped /\ Graph /\ Links /\ Times /\ Places /\ Phases /\ Late
    BY DEF IInv
  <1>2. ev[e].state = "running"
    BY <1>1, RunningIs
  <1>3. ev' \in [Events -> Records] /\ \A f \in Events : f # e => ev'[f] = ev[f]
    BY DEF MoveShape
  <1>4. Progress
    BY <1>1, MoveProgress
  <1>5. Graph'
    BY <1>1, MoveGraph
  <1>6. Links'
    BY <1>1, <1>4, LinksStay
  <1>7. Times'
    <2>1. \A f \in Events : ev[f].state = "free" => ev'[f].state = "free"
      BY <1>2, <1>3
    <2>2. \A f \in Events : ev'[f].state = "running" =>
             ev[f].state = "running" /\ ev'[f].at = ev[f].at
      BY <1>3
    <2>3. \A f \in Events : ev[f].state # "done" => ev'[f].state # "done"
      BY <1>3
    <2> QED
      BY <1>1, <1>3, <1>4, <2>1, <2>2, <2>3, TimesStay
  <1>8. /\ th' \in [Threads -> ThreadRecords] /\ Places' /\ Phases'
        /\ \A j \in Threads : th'[j] = th[j] \/ th'[j].pc # "recheck"
    <2>1. OthersKeep(th[i].te)
      BY <1>3 DEF OthersKeep
    <2>2. PICK r \in ThreadRecords :
             /\ r.pc = "after" /\ r.te = th[i].te /\ r.fast = th[i].fast
             /\ r.domPq = th[i].domPq /\ r.stalled = th[i].stalled /\ r.next = th[i].next
             /\ th' = [th EXCEPT ![i] = r]
      BY <1>1, AfterIs
    <2> QED
      BY <1>1, <2>1, <2>2, AfterRun
  <1>9. Late'
    <2>1. \A x \in Events :
               /\ IsCrossing(x) /\ ev[x].state # "none"
               /\ ev'[x].state \in {"queued", "running"}
               => \/ ev[x].state \in {"queued", "running"} /\ ev'[x].at = ev[x].at
                  \/ \E a \in Nat : a = ev'[x].at /\ Bounded(x, a)'
      BY <1>3
    <2>2. \A x \in Events :
               IsCrossing(x) /\ ev[x].state # "done" /\ ev'[x].state = "done" => FALSE
      BY <1>3
    <2> QED
      BY <1>1, <1>3, <1>4, <1>8, <2>1, <2>2, LateStep
  <1> QED
    BY <1>3, <1>5, <1>6, <1>7, <1>8, <1>9

(* run(): an event before its minimum start cycle is queued again, any other one *)
(* ends.                                                                     *)
LEMMA RunEventStep ==
    ASSUME IInv, NEW i \in Threads, NEW w \in Waits \cup {0}, RunEvent(i, w)
    PROVE  IInv'
  <1>1. WellTyped /\ Times /\ Places
    BY DEF IInv
  <1>2. PICK e, a, m : e = th[i].te /\ a = ev[e].at /\ m = ev[e].minStart
    OBVIOUS
  <1>3. /\ th[i].pc = "run" /\ ~IsCrossing(e) /\ th' = [th EXCEPT ![i].pc = "after"]
        /\ IF RunsEarly(i, e) THEN ev' = [ev EXCEPT ![e].state = "queued", ![e].at = m]
           ELSE ev' = Done(e, a + w)
        /\ rec' = rec \/ rec' = [rec EXCEPT ![Core[e[1]]].slack = a - m]
        /\ UNCHANGED <<owner, dom, limit, lastLimit, lock, threadsDone, lastCrossing>>
    BY <1>2, ZenonT(60) DEF RunEvent, Requeue
  <1>4. /\ e \in Events /\ owner[Domain(e)] = i /\ ev[e].state = "running"
        /\ Alone(i) => th[i].fast
        /\ th[i].pc \in Busy
    BY <1>1, <1>2, <1>3, RunningIs DEF Busy
  <1>5. a \in Nat /\ m \in Nat /\ a + w \in Nat /\ a + w >= a
    BY <1>1, <1>2, <1>4, EventType, ContentionAssumption
  <1>6. /\ rec' \in [Cores -> [tail : Events \cup {NoEvent}, resp : Nat, slack : Int]]
        /\ \A k \in Cores : rec'[k].tail = rec[k].tail
    <2>1. rec \in [Cores -> [tail : Events \cup {NoEvent}, resp : Nat, slack : Int]]
      BY <1>1 DEF WellTyped
    <2>2. CASE rec' = rec
      BY <2>1, <2>2
    <2>3. CASE rec' = [rec EXCEPT ![Core[e[1]]].slack = a - m]
      <3>1. PICK c \in Cores, n \in Int : rec' = [rec EXCEPT ![c].slack = n]
        <4>1. Core[e[1]] \in Cores
          BY <1>4, Pairs DEF Cores
        <4>2. a - m \in Int
          BY <1>5
        <4> QED
          BY <2>3, <4>1, <4>2, Zenon
      <3> QED
        BY <2>1, <3>1
    <2> QED
      BY <1>3, <2>2, <2>3
  <1>7. /\ ev' \in [Events -> Records] /\ th' \in [Threads -> ThreadRecords]
        /\ Graph' /\ Links' /\ Times' /\ Places' /\ Phases' /\ Late'
    <2>1. CASE RunsEarly(i, e)
      <3>1. m >= a
        BY <1>2, <1>5, <2>1 DEF RunsEarly
      <3>2. MoveShape(e) /\ ev'[e].state = "queued"
        BY <1>1, <1>2, <1>3, <1>4, <1>5, <2>1, <3>1, MoveIs
      <3>3. UNCHANGED <<owner, limit, lastLimit, lock, threadsDone, lastCrossing>>
            /\ \A d \in Domains : dom'[d].curCycle = dom[d].curCycle
        BY <1>3
      <3> QED
        BY <1>2, <1>3, <1>4, <1>6, <3>2, <3>3, EventRequeued
    <2>2. CASE ~RunsEarly(i, e)
      <3>1. PICK c \in Nat : c = a + w
        BY <1>5
      <3>2. ev' = Done(e, c) /\ c >= ev[e].at
        BY <1>2, <1>3, <1>5, <2>2, <3>1
      <3>3. Alone(i) => c >= ev[e].minStart
        BY <1>2, <1>4, <1>5, <2>2, <3>1 DEF RunsEarly
      <3>4. UNCHANGED <<owner, limit, lastLimit, lock, threadsDone, lastCrossing>>
            /\ \A d \in Domains : dom'[d].curCycle = dom[d].curCycle
        BY <1>3
      <3> QED
        BY <1>2, <1>3, <1>4, <1>6, <3>2, <3>3, <3>4, EventEnds
    <2> QED
      BY <2>1, <2>2
  <1>8. WellTyped'
    BY <1>1, <1>3, <1>6, <1>7 DEF WellTyped
  <1> QED
    BY <1>7, <1>8 DEF IInv

(* A domain's priority changes. *)
LEMMA PrioSet ==
    ASSUME WellTyped, NEW d \in Domains, NEW p \in 0..2, dom' = [dom EXCEPT ![d].prio = p]
    PROVE  /\ dom' \in [Domains -> [curCycle : Nat, prio : 0..2, queuePrio : Nat]]
           /\ \A f \in Domains : dom'[f].curCycle = dom[f].curCycle
  <1> DEFINE P == 0..2
             T == [curCycle : Nat, prio : P, queuePrio : Nat]
  <1>1. dom \in [Domains -> T] /\ p \in P
    BY DEF WellTyped
  <1> HIDE DEF P
  <1>2. dom' \in [Domains -> T] /\ \A f \in Domains : dom'[f].curCycle = dom[f].curCycle
    BY <1>1
  <1> QED
    BY <1>2 DEF P

(* A crossing whose mark is seen ends. *)
LEMMA CrossingDoneStep ==
    ASSUME IInv, NEW i \in Threads, th[i].pc \in Busy, IsCrossing(th[i].te),
           ev[th[i].te].called, CrossingDone(i),
           UNCHANGED <<owner, limit, lastLimit, lock, threadsDone, rec, lastCrossing>>
    PROVE  IInv'
  <1>1. WellTyped /\ Times /\ Places
    BY DEF IInv
  <1>2. PICK e, c : e = th[i].te /\ c = DoneCycle(e)
    OBVIOUS
  <1>3. /\ ev' = Done(e, c) /\ dom' = [dom EXCEPT ![Domain(e)].prio = 0]
        /\ th' = [th EXCEPT ![i].pc = "after"]
    BY <1>2 DEF CrossingDone
  <1>4. e \in Events /\ Domain(e) \in Domains
    BY <1>1, <1>2, RunningIs
  <1>5. c \in Nat /\ c >= ev[e].at
    <2>1. ev[e].at \in Nat /\ ev[e].doneCycle \in Nat
      BY <1>1, <1>4, EventType
    <2> QED
      BY <1>2, <2>1, GreaterFacts DEF DoneCycle
  <1>6. /\ dom' \in [Domains -> [curCycle : Nat, prio : 0..2, queuePrio : Nat]]
        /\ \A d \in Domains : dom'[d].curCycle = dom[d].curCycle
    <2>1. 0 \in 0..2
      OBVIOUS
    <2> QED
      BY <1>1, <1>3, <1>4, <2>1, PrioSet
  <1>7. ~(e[2] \in {"P", "R"})
    BY <1>2 DEF IsCrossing
  <1>8. /\ ev' \in [Events -> Records] /\ th' \in [Threads -> ThreadRecords]
        /\ Graph' /\ Links' /\ Times' /\ Places' /\ Phases' /\ Late'
    <2>1. \A k \in Cores : rec'[k].tail = rec[k].tail
      OBVIOUS
    <2>2. UNCHANGED <<owner, limit, lastLimit, lock, threadsDone, lastCrossing>>
      OBVIOUS
    <2>3. ev[e].called /\ th[i].pc \in Busy /\ th[i].te = e
      BY <1>2
    <2> QED
      BY <1>2, <1>3, <1>4, <1>5, <1>6, <1>7, <2>1, <2>2, <2>3, EventEnds
  <1>9. WellTyped'
    BY <1>1, <1>6, <1>8 DEF WellTyped
  <1> QED
    BY <1>8, <1>9 DEF IInv

(* A thread goes on with its crossing. *)
LEMMA StaysBusy ==
    ASSUME WellTyped, Places, Phases, NEW i \in Threads, th[i].pc \in Busy,
           NEW r \in ThreadRecords, r.pc \in {"read", "recheck"}, r.te = th[i].te,
           r.domPq = th[i].domPq, r.stalled = th[i].stalled, r.next = th[i].next,
           th' = [th EXCEPT ![i] = r], IsCrossing(r.te),
           UNCHANGED <<owner, dom, limit, lastLimit, lock, threadsDone>>,
           \A f \in Events : ev'[f].state = ev[f].state /\ ev'[f].at = ev[f].at,
           r.pc = "recheck" => r.rd >= ev[r.te].at
    PROVE  Places' /\ Phases'
  <1>1. Queues(r) = Queues(th[i]) /\ Held(r) = Held(th[i])
    BY DEF Queues, Held, Busy
  <1>2. Working(i, th[i])
    BY DEF Places
  <1>3. Working(i, r)'
    <2>1. Queues(r)' = Queues(r) /\ Owned(i)' = Owned(i) /\ Alone(i)' = Alone(i)
      BY SameOwner DEF Queues
    <2> QED
      BY <1>1, <1>2, <2>1 DEF Working, Busy
  <1>4. Places'
    <2>1. \A f \in Events : owner[Domain(f)] # i =>
               /\ ev'[f].state = "running" <=> ev[f].state = "running"
               /\ ev[f].state = "running" => ev'[f].at = ev[f].at
      OBVIOUS
    <2>2. \A f \in Events : owner[Domain(f)] = i /\ ev'[f].state = "running" =>
               r.pc \in Busy /\ r.te = f
      BY DEF Places, Busy
    <2>3. WellTyped /\ Places /\ i \in Threads /\ owner' = owner /\ th' = [th EXCEPT ![i] = r]
      OBVIOUS
    <2> QED
      BY ONLY <1>3, <2>1, <2>2, <2>3, PlacesStep
  <1>5. Phases'
    <2>1. \A f \in Domains : owner[f] = i =>
               \/ f \in Held(r) \/ dom'[f].curCycle = limit
               \/ f \notin Held(th[i]) /\ dom'[f].curCycle = dom[f].curCycle
      BY <1>1
    <2>2. \A f \in Domains : owner[f] # i => dom'[f].curCycle = dom[f].curCycle
      OBVIOUS
    <2>3. th[i].pc # "idle" /\ r.pc # "idle" /\ r.pc # "done"
      BY DEF Busy
    <2>4. /\ WellTyped /\ Phases /\ i \in Threads /\ th' = [th EXCEPT ![i] = r]
          /\ UNCHANGED <<owner, limit, lastLimit, lock, threadsDone>>
      OBVIOUS
    <2> QED
      BY ONLY <2>1, <2>2, <2>3, <2>4, PhasesStep
  <1> QED
    BY <1>4, <1>5

(* The first test of called: the crossing ends, or the thread goes on to read the *)
(* source's clock.                                                           *)
LEMMA TestCalledStep == ASSUME IInv, NEW i \in Threads, TestCalled(i) PROVE IInv'
  <1>1. WellTyped /\ Times /\ Places /\ Phases
    BY DEF IInv
  <1>2. PICK x : x = th[i].te
    OBVIOUS
  <1>3. /\ th[i].pc = "run" /\ IsCrossing(x)
        /\ IF ev[x].called THEN CrossingDone(i)
           ELSE th' = [th EXCEPT ![i].pc = "read"] /\ UNCHANGED <<ev, dom>>
        /\ UNCHANGED <<owner, limit, lastLimit, lock, threadsDone, rec, lastCrossing>>
    BY <1>2 DEF TestCalled
  <1>4. th[i].pc \in Busy
    BY <1>3 DEF Busy
  <1>5. CASE ev[x].called
    BY <1>2, <1>3, <1>4, <1>5, CrossingDoneStep
  <1>6. CASE ~ev[x].called
    <2>1. PICK r : r = [th[i] EXCEPT !.pc = "read"]
      OBVIOUS
    <2>2. th' = [th EXCEPT ![i] = r] /\ UNCHANGED <<ev, dom>>
      BY <1>3, <1>6, <2>1
    <2>3. /\ r \in ThreadRecords /\ r.pc = "read" /\ r.te = x
          /\ r.domPq = th[i].domPq /\ r.stalled = th[i].stalled /\ r.next = th[i].next
      <3>1. th[i] \in ThreadRecords
        BY <1>1, ThreadType
      <3> QED
        BY <1>2, <2>1, <3>1 DEF ThreadRecords
    <2>4. /\ th' \in [Threads -> ThreadRecords] /\ th'[i] = r
          /\ \A j \in Threads : j # i => th'[j] = th[j]
      BY <1>1, <2>2, <2>3, OneThread
    <2>5. limit \in Nat
      BY <1>1, ClockType
    <2>6. Graph' /\ Links' /\ Times' /\ Late'
      BY <1>3, <2>2, <2>3, <2>4, <2>5, ControlStep
    <2>7. Places' /\ Phases'
      <3>1. UNCHANGED <<owner, dom, limit, lastLimit, lock, threadsDone>>
            /\ \A f \in Events : ev'[f].state = ev[f].state /\ ev'[f].at = ev[f].at
        BY <1>3, <2>2
      <3>2. /\ r.pc \in {"read", "recheck"} /\ r.te = th[i].te /\ IsCrossing(r.te)
            /\ r.pc = "recheck" => r.rd >= ev[r.te].at
        BY <1>2, <1>3, <2>3
      <3> QED
        BY <1>1, <1>4, <2>2, <2>3, <3>1, <3>2, StaysBusy
    <2>8. WellTyped'
      BY <1>1, <1>3, <2>2, <2>4 DEF WellTyped
    <2> QED
      BY <2>6, <2>7, <2>8 DEF IInv
  <1> QED
    BY <1>5, <1>6

(* Nothing of the source's domain can end before the cycle its clock shows. *)
LEMMA SourceCovers ==
    ASSUME WellTyped, Graph, Times, NEW x \in Events, IsCrossing(x), ~ev[x].called,
           ev[x].state # "free"
    PROVE  \E S \in SUBSET Events : Cover(S, Origin(x), dom[Source(x)].curCycle)
  <1> DEFINE S == {f \in Events : /\ ev[f].state \notin {"free", "done"}
                                  /\ Domain(f) = Source(x)}
             v == dom[Source(x)].curCycle
  <1>1. Origin(x) \in S
    <2>1. /\ Origin(x) \in Events /\ Domain(Origin(x)) = Source(x)
          /\ Origin(x) = <<x[1], "P">> \/ Origin(x) = <<x[1], "C">>
      BY Crossings
    <2>2. ev[Origin(x)].state # "free"
      BY <2>1 DEF Graph, Allocated
    <2>3. ev[Origin(x)].state # "done"
      BY DEF Graph, Marks
    <2> QED
      BY <2>1, <2>2, <2>3
  <1>2. ASSUME NEW e \in S
        PROVE  /\ ev[e].state # "free"
               /\ ev[e].state \in {"queued", "running"} => ev[e].at >= v
               /\ ev[e].state = "none" =>
                     \E p \in S : e \in ev[p].kids /\ ev[p].state # "done"
    <2>1. /\ ev[e].state = "queued" => ev[e].at >= dom[Domain(e)].curCycle
          /\ ev[e].state = "running" => ev[e].at = dom[Domain(e)].curCycle
      BY DEF Times
    <2>2. dom[Domain(e)].curCycle = v /\ v \in Nat /\ ev[e].at \in Nat
      BY DomainType, ClockType, EventType
    <2>3. ASSUME ev[e].state = "none"
          PROVE  \E p \in S : e \in ev[p].kids /\ ev[p].state # "done"
      <3>1. PICK p \in Events : e \in ev[p].kids /\ ev[p].state # "done"
        BY <2>3 DEF Graph, Kin
      <3>2. ev[p].state # "free" /\ Domain(p) = Domain(e)
        BY <3>1 DEF Graph, Kin
      <3> QED
        BY <3>1, <3>2
    <2> QED
      BY <2>1, <2>2, <2>3
  <1>3. S \in SUBSET Events
    OBVIOUS
  <1>4. Cover(S, Origin(x), v)
    <2> HIDE DEF S, v
    <2> QED
      BY <1>1, <1>2 DEF Cover
  <1> QED
    BY <1>3, <1>4

(* What is read of the source's clock cannot be ahead of a mark that the second *)
(* test does not see.                                                        *)
LEMMA ReadSourceStep == ASSUME IInv, NEW i \in Threads, ReadSource(i) PROVE IInv'
  <1>1. WellTyped /\ Graph /\ Links /\ Times /\ Places /\ Phases /\ Late
    BY DEF IInv
  <1>2. PICK x, rel, a, b :
          /\ x = th[i].te
          /\ rel = ev[x].minStart + rec[Core[x[1]]].slack + PostSlack(x)
          /\ a = ReadCycles(x, rel) /\ b = Greater(ev[x].rel, rel)
    OBVIOUS
  <1>3. /\ th[i].pc = "read" /\ th' = [th EXCEPT ![i].pc = "recheck", ![i].rd = a]
        /\ ev' = [ev EXCEPT ![x].rel = b]
        /\ UNCHANGED <<owner, dom, limit, lastLimit, lock, threadsDone, rec, lastCrossing>>
    BY <1>2, ZenonT(60) DEF ReadSource
  <1>4. /\ x \in Events /\ IsCrossing(x) /\ ev[x].state = "running" /\ th[i].pc \in Busy
    BY <1>1, <1>2, <1>3, RunningIs, Zenon DEF Busy
  <1>5. /\ ev[x].at \in Nat /\ ev[x].rel \in Nat /\ ev[x].minStart \in Nat
        /\ ev[x].called \in BOOLEAN
    BY <1>1, <1>4, EventType
  <1>6. PostSlack(x) \in Nat /\ Slack(x) \in Nat
    BY <1>1, <1>4, SlackStays
  <1>7. Source(x) \in Domains /\ dom[Source(x)].curCycle \in Nat
    BY <1>1, <1>4, Crossings, ClockType
  <1>8. rel \in Int
    <2>1. rec \in [Cores -> [tail : Events \cup {NoEvent}, resp : Nat, slack : Int]]
      BY <1>1 DEF WellTyped
    <2>2. Core[x[1]] \in Cores
      BY <1>4, Pairs DEF Cores
    <2>3. rec[Core[x[1]]].slack \in Int
      BY <2>1, <2>2
    <2>4. \A k, m, n \in Int : k + m + n \in Int
      OBVIOUS
    <2>5. rel = ev[x].minStart + rec[Core[x[1]]].slack + PostSlack(x)
      BY <1>2
    <2>6. ev[x].minStart \in Int /\ PostSlack(x) \in Int
      BY <1>5, <1>6
    <2> QED
      BY ONLY <2>3, <2>4, <2>5, <2>6
  <1>9. b \in Nat /\ b >= ev[x].rel /\ b >= rel
    <2>1. b = Greater(ev[x].rel, rel)
      BY <1>2, Zenon
    <2>2. ev[x].rel \in Int
      BY <1>5
    <2>3. b \in {ev[x].rel, rel} /\ b >= ev[x].rel /\ b >= rel
      BY <1>8, <2>1, <2>2, GreaterFacts
    <2> QED
      BY <1>5, <1>8, <2>3
  <1>10. /\ a \in {dom[Source(x)].curCycle + Slack(x), rel, ev[x].at}
         /\ a >= ev[x].at /\ a \in Nat
    <2>1. dom[Source(x)].curCycle + Slack(x) \in Int /\ ev[x].at \in Int
      BY <1>5, <1>6, <1>7
    <2>2. a = Max({dom[Source(x)].curCycle + Slack(x), rel, ev[x].at})
      BY <1>2 DEF ReadCycles
    <2>3. /\ a \in {dom[Source(x)].curCycle + Slack(x), rel, ev[x].at}
          /\ a >= ev[x].at
      BY <1>8, <2>1, <2>2, MaxOfThree
    <2> QED
      BY <1>5, <1>8, <2>1, <2>3
  <1>11. /\ MoveShape(x) /\ ev'[x].rel = b /\ ev'[x].at = ev[x].at
         /\ ev'[x].state = ev[x].state /\ ev'[x].called = ev[x].called
    <2>1. ev \in [Events -> Records] /\ ev[x] \in Records
      BY <1>1, <1>4 DEF WellTyped
    <2>2. /\ ev'[x].state = ev[x].state /\ ev'[x].at = ev[x].at /\ ev'[x].rel = b
          /\ ev'[x].entry = ev[x].entry /\ ev'[x].kids = ev[x].kids
          /\ ev'[x].parents = ev[x].parents /\ ev'[x].pre = ev[x].pre
          /\ ev'[x].post = ev[x].post /\ ev'[x].minStart = ev[x].minStart
          /\ ev'[x].called = ev[x].called /\ ev'[x].doneCycle = ev[x].doneCycle
          /\ ev'[x] \in Records
      <3>1. ev'[x] = [ev[x] EXCEPT !.rel = b]
        BY <1>3, <1>4, <2>1
      <3> QED
        BY <1>9, <2>1, <3>1 DEF Records
    <2>3. ev' \in [Events -> Records] /\ \A k \in Events : k # x => ev'[k] = ev[k]
      <3>1. DOMAIN ev' = Events /\ ev' = [k \in Events |-> ev'[k]]
        BY <1>3, <2>1
      <3>2. \A k \in Events : k # x => ev'[k] = ev[k]
        BY <1>3, <2>1
      <3>3. \A k \in Events : ev'[k] \in Records
        BY <2>1, <2>2, <3>2
      <3> QED
        BY <3>1, <3>2, <3>3, Zenon
    <2> QED
      BY <1>4, <1>5, <1>9, <2>2, <2>3 DEF MoveShape
  <1>12. ev' \in [Events -> Records] /\ \A k \in Events : k # x => ev'[k] = ev[k]
    BY <1>11 DEF MoveShape
  <1>13. /\ \A f \in Events : ev'[f].state = ev[f].state /\ ev'[f].at = ev[f].at
    BY <1>11, <1>12
  <1>14. Progress
    BY <1>1, <1>4, <1>11, MoveProgress
  <1>15. Graph'
    BY <1>1, <1>4, <1>11, MoveGraph
  <1>16. Links'
    BY <1>1, <1>3, <1>14, LinksStay
  <1>17. Times'
    <2>1. /\ owner' = owner /\ limit' = limit
          /\ \A d \in Domains : dom'[d].curCycle = dom[d].curCycle
      BY <1>3
    <2> QED
      BY <1>1, <1>12, <1>13, <1>14, <2>1, TimesStay
  <1>18. PICK r : r = [th[i] EXCEPT !.pc = "recheck", !.rd = a]
    OBVIOUS
  <1>19. th' = [th EXCEPT ![i] = r]
    BY <1>3, <1>18, Zenon
  <1>20. /\ r \in ThreadRecords /\ r.pc = "recheck" /\ r.te = x /\ r.rd = a
         /\ r.domPq = th[i].domPq /\ r.stalled = th[i].stalled /\ r.next = th[i].next
    <2>1. th[i] \in ThreadRecords
      BY <1>1, ThreadType
    <2> QED
      BY <1>2, <1>10, <1>18, <2>1, Zenon DEF ThreadRecords
  <1>21. /\ th' \in [Threads -> ThreadRecords] /\ th'[i] = r
         /\ \A j \in Threads : j # i => th'[j] = th[j]
    BY <1>1, <1>19, <1>20, OneThread
  <1>22. Places' /\ Phases'
    <2>1. UNCHANGED <<owner, dom, limit, lastLimit, lock, threadsDone>>
      BY <1>3
    <2>2. /\ r.pc \in {"read", "recheck"} /\ r.te = th[i].te /\ IsCrossing(r.te)
          /\ r.pc = "recheck" => r.rd >= ev[r.te].at
      BY <1>2, <1>4, <1>10, <1>20, Zenon
    <2> QED
      BY <1>1, <1>4, <1>13, <1>19, <1>20, <2>1, <2>2, StaysBusy, Zenon
  <1>23. Late'
    <2>1. ev'[x].called \/ Bounded(x, a)'
      <3>1. CASE ev[x].called
        BY <1>11, <3>1
      <3>2. CASE a = ev[x].at
        <4>1. Bounded(x, a)
          BY <1>1, <1>4, <3>2 DEF Late
        <4> QED
          BY <1>1, <1>4, <1>10, <1>12, <1>14, <4>1, BoundedStays
      <3>3. CASE a = rel
        BY <1>9, <1>8, <1>11, <3>3 DEF Bounded
      <3>4. CASE ~ev[x].called /\ a = dom[Source(x)].curCycle + Slack(x)
        <4>1. PICK S \in SUBSET Events : Cover(S, Origin(x), dom[Source(x)].curCycle)
          BY <1>1, <1>4, <3>4, SourceCovers
        <4>2. PICK v \in Nat : v = dom[Source(x)].curCycle
          BY <1>7
        <4>3. Cover(S, Origin(x), v) /\ a <= v + Slack(x)
          BY <1>6, <3>4, <4>1, <4>2
        <4>4. Bounded(x, a)
          BY <3>4, <4>3 DEF Bounded, Pending
        <4> QED
          BY <1>1, <1>4, <1>10, <1>12, <1>14, <4>4, BoundedStays
      <3> QED
        BY <1>10, <3>1, <3>2, <3>3, <3>4
    <2>2. \A y \in Events :
               /\ IsCrossing(y) /\ ev[y].state # "none"
               /\ ev'[y].state \in {"queued", "running"}
               => ev[y].state \in {"queued", "running"} /\ ev'[y].at = ev[y].at
      BY <1>13
    <2>3. \A y \in Events :
               IsCrossing(y) /\ ev[y].state # "done" /\ ev'[y].state = "done" => FALSE
      BY <1>13
    <2>4. \A j \in Threads : th'[j].pc = "recheck" =>
               \/ th'[j] = th[j]
               \/ ev'[th'[j].te].called
               \/ \E y \in Events, c \in Nat :
                     y = th'[j].te /\ c = th'[j].rd /\ Bounded(y, c)'
      BY <1>4, <1>10, <1>20, <1>21, <2>1
    <2> QED
      BY <1>1, <1>12, <1>14, <2>2, <2>3, <2>4, LateStep
  <1>24. WellTyped'
    BY <1>1, <1>3, <1>12, <1>21 DEF WellTyped
  <1> QED
    BY <1>15, <1>16, <1>17, <1>22, <1>23, <1>24 DEF IInv

(* The second test: the crossing ends, or it is queued again for the cycle that *)
(* was read before it.                                                       *)
LEMMA RecheckStep == ASSUME IInv, NEW i \in Threads, Recheck(i) PROVE IInv'
  <1>1. WellTyped /\ Graph /\ Times /\ Places /\ Late
    BY DEF IInv
  <1>2. PICK x, a, p : /\ x = th[i].te /\ a = th[i].rd
                       /\ p = IF th[i].rd = ev[x].at THEN 1 ELSE 2
    OBVIOUS
  <1>3. /\ th[i].pc = "recheck"
        /\ IF ev[x].called THEN CrossingDone(i)
           ELSE /\ ev' = [ev EXCEPT ![x].state = "queued", ![x].at = a]
                /\ dom' = [dom EXCEPT ![Domain(x)].prio = p]
                /\ th' = [th EXCEPT ![i].pc = "after"]
        /\ UNCHANGED <<owner, limit, lastLimit, lock, threadsDone, rec, lastCrossing>>
    BY <1>2 DEF Recheck, CalledNow
  <1>4. /\ x \in Events /\ IsCrossing(x) /\ ev[x].state = "running" /\ th[i].pc \in Busy
        /\ a >= ev[x].at /\ Domain(x) \in Domains
    BY <1>1, <1>2, <1>3, RunningIs DEF Busy
  <1>5. CASE ev[x].called
    BY <1>2, <1>3, <1>4, <1>5, CrossingDoneStep
  <1>6. CASE ~ev[x].called
    <2>1. a \in Nat
      BY <1>1, <1>2, ThreadType
    <2>2. MoveShape(x) /\ ev'[x].state = "queued" /\ ev'[x].at = a
      BY <1>1, <1>3, <1>4, <1>6, <2>1, MoveIs
    <2>3. ev' \in [Events -> Records] /\ Progress
      <3>1. ev' \in [Events -> Records]
        BY <2>2 DEF MoveShape
      <3> QED
        BY <1>1, <1>4, <2>2, <3>1, MoveProgress
    <2>4. Bounded(x, a)'
      <3>1. Bounded(x, a)
        BY <1>1, <1>2, <1>3, <1>4, <1>6, <2>1 DEF Late
      <3> QED
        BY <1>1, <1>4, <2>1, <2>3, <3>1, BoundedStays
    <2>5. /\ dom' \in [Domains -> [curCycle : Nat, prio : 0..2, queuePrio : Nat]]
          /\ \A d \in Domains : dom'[d].curCycle = dom[d].curCycle
      <3>1. p \in 0..2
        BY <1>2
      <3> QED
        BY <1>1, <1>3, <1>4, <1>6, <3>1, PrioSet
    <2>6. /\ th' \in [Threads -> ThreadRecords]
          /\ Graph' /\ Links' /\ Times' /\ Places' /\ Phases' /\ Late'
      <3>1. th' = [th EXCEPT ![i].pc = "after"] /\ th[i].te = x
        BY <1>2, <1>3, <1>6
      <3>2. \E c \in Nat : c = ev'[x].at /\ Bounded(x, c)'
        BY <2>1, <2>2, <2>4
      <3>3. /\ UNCHANGED <<owner, limit, lastLimit, lock, threadsDone, lastCrossing>>
            /\ \A k \in Cores : rec'[k].tail = rec[k].tail
        BY <1>3
      <3> QED
        BY <1>4, <2>2, <2>5, <3>1, <3>2, <3>3, EventRequeued
    <2>7. WellTyped'
      BY <1>1, <1>3, <2>3, <2>5, <2>6 DEF WellTyped
    <2> QED
      BY <2>6, <2>7 DEF IInv
  <1> QED
    BY <1>5, <1>6

(* The clock goes to the next event, or to the limit. *)
LEMMA NextCycleFacts ==
    ASSUME WellTyped, NEW d \in Domains
    PROVE  NextCycle(d) \in Nat /\ \A e \in Queued(d) : ev[e].at >= NextCycle(d)
  <1>1. CASE Queued(d) # {}
    <2>1. NextCycle(d) = FirstCycle(d)
      BY <1>1 DEF NextCycle
    <2>2. FirstCycle(d) \in Nat /\ \A e \in Queued(d) : FirstCycle(d) <= ev[e].at
      BY <1>1, FirstCycleFacts
    <2>3. \A e \in Queued(d) : ev[e].at \in Nat
      BY EventType DEF Queued
    <2> QED
      BY <2>1, <2>2, <2>3
  <1>2. CASE Queued(d) = {}
    BY <1>2, ClockType DEF NextCycle
  <1> QED
    BY <1>1, <1>2

(* The thread, back from its event. *)
AfterEvent(z) == [z EXCEPT !.pc = "loop", !.te = NoEvent, !.rd = 0]

(* It holds the event's domain again, and has a domain to take next. *)
LEMMA BackInLoop ==
    ASSUME NEW z \in ThreadRecords, NEW d \in Domains, NEW r,
           r = Swapped(PutBack(AfterEvent(z), d))
    PROVE  /\ r \in ThreadRecords /\ r.pc = "loop" /\ Queues(r) = Queues(z) \cup {d}
           /\ r.domPq # {} \/ r.stalled # << >>
  <1>1. PICK y : y = AfterEvent(z)
    OBVIOUS
  <1>2. /\ y \in ThreadRecords /\ y.pc = "loop" /\ y.domPq = z.domPq
        /\ y.stalled = z.stalled /\ y.next = z.next
    BY <1>1 DEF ThreadRecords, AfterEvent
  <1>3. Queues(y) = Queues(z)
    BY <1>2 DEF Queues
  <1>4. PICK q : q = PutBack(y, d)
    OBVIOUS
  <1>5. /\ q \in ThreadRecords /\ q.pc = y.pc /\ Queues(q) = Queues(y) \cup {d}
        /\ q.domPq # {} \/ q.stalled # << >> \/ (q.next # << >> /\ ~q.fast)
    BY <1>2, <1>4, PutBackIs, ZenonT(60)
  <1>6. r = Swapped(q)
    BY <1>1, <1>4
  <1>7. /\ r \in ThreadRecords /\ r.pc = q.pc /\ Queues(r) = Queues(q) /\ r.domPq = q.domPq
        /\ r = q \/ q.stalled = << >>
        /\ q.stalled = << >> /\ (q.domPq = {} \/ ~q.fast) => r.stalled = q.next
    BY <1>5, <1>6, SwappedIs, Zenon
  <1> QED
    BY <1>2, <1>3, <1>5, <1>7

(* A thread with one domain, back from its event. *)
LEMMA AloneInLoop ==
    ASSUME NEW z \in ThreadRecords, NEW d \in Domains, z.stalled = << >>, z.next = << >>,
           NEW r, r = [AfterEvent(z) EXCEPT !.domPq = {d}]
    PROVE  /\ r \in ThreadRecords /\ r.pc = "loop" /\ Queues(r) = {d} /\ r.domPq # {}
           /\ r.stalled = << >> /\ r.next = << >>
  <1>1. PICK y : y = AfterEvent(z)
    OBVIOUS
  <1>2. /\ y \in ThreadRecords /\ y.pc = "loop" /\ y.stalled = << >> /\ y.next = << >>
    BY <1>1 DEF ThreadRecords, AfterEvent
  <1>3. PICK Q \in SUBSET Domains : Q = {d}
    OBVIOUS
  <1>4. /\ r \in ThreadRecords /\ r.pc = "loop" /\ r.domPq = {d}
        /\ r.stalled = << >> /\ r.next = << >>
    <2>1. r = [y EXCEPT !.domPq = Q]
      BY <1>1, <1>3
    <2>2. r \in ThreadRecords
      BY ONLY <1>2, <2>1 DEF ThreadRecords
    <2>3. r.pc = y.pc /\ r.domPq = Q /\ r.stalled = y.stalled /\ r.next = y.next
      BY ONLY <1>2, <2>1 DEF ThreadRecords
    <2> QED
      BY <1>2, <1>3, <2>2, <2>3, Zenon
  <1>5. ToSet(<< >>) = {}
    BY DEF ToSet
  <1> QED
    BY <1>4, <1>5 DEF Queues

(* After an event the clock goes to the next one and the domain back into the  *)
(* thread's queues.                                                          *)
LEMMA AfterStep == ASSUME IInv, NEW i \in Threads, After(i) PROVE IInv'
  <1>1. WellTyped /\ Times /\ Places /\ Phases
    BY DEF IInv
  <1>2. PICK d, c, u, r :
          /\ d = Domain(th[i].te) /\ c = NextCycle(d)
          /\ u = IF Alone(i) THEN 0 ELSE c
          /\ r = IF Alone(i) THEN [AfterEvent(th[i]) EXCEPT !.domPq = {d}]
                 ELSE Swapped(PutBack(AfterEvent(th[i]), d))
    OBVIOUS
  <1>3. /\ th[i].pc = "after"
        /\ dom' = [dom EXCEPT ![d].curCycle = c, ![d].queuePrio = u]
        /\ th' = [th EXCEPT ![i] = r]
        /\ UNCHANGED <<owner, ev, limit, lastLimit, lock, threadsDone, rec, lastCrossing>>
    BY <1>2, Zenon DEF After, AfterEvent
  <1>4. /\ Working(i, th[i]) /\ th[i].te \in Events /\ owner[d] = i /\ d \in Domains
        /\ Queues(th[i]) \subseteq Owned(i) /\ th[i] \in ThreadRecords
        /\ Alone(i) => th[i].stalled = << >> /\ th[i].next = << >>
        /\ d \in Owned(i)
    <2>1. Working(i, th[i])
      BY <1>1 DEF Places
    <2>2. /\ th[i].te \in Events /\ owner[d] = i
          /\ Queues(th[i]) \subseteq Owned(i)
          /\ Alone(i) => th[i].stalled = << >> /\ th[i].next = << >>
      BY <1>2, <1>3, <2>1 DEF Working
    <2>3. d \in Domains /\ th[i] \in ThreadRecords
      BY <1>1, <1>2, <2>2, DomainType, ThreadType
    <2> QED
      BY <2>1, <2>2, <2>3 DEF Owned
  <1>5. c \in Nat /\ u \in Nat /\ \A e \in Queued(d) : ev[e].at >= c
    <2>1. c \in Nat /\ \A e \in Queued(d) : ev[e].at >= c
      BY <1>1, <1>2, <1>4, NextCycleFacts
    <2> QED
      BY <1>2, <2>1
  <1>6. /\ dom' \in [Domains -> [curCycle : Nat, prio : 0..2, queuePrio : Nat]]
        /\ dom'[d].curCycle = c
        /\ \A f \in Domains : f # d => dom'[f] = dom[f]
    <2> DEFINE P == 0..2
               T == [curCycle : Nat, prio : P, queuePrio : Nat]
    <2>1. dom \in [Domains -> T]
      BY <1>1 DEF WellTyped
    <2> HIDE DEF P
    <2>2. dom' \in [Domains -> T] /\ dom'[d].curCycle = c
          /\ \A f \in Domains : f # d => dom'[f] = dom[f]
      BY <1>3, <1>4, <1>5, <2>1
    <2> QED
      BY <2>2 DEF P
  <1>7. Alone(i) => Owned(i) = {d}
    <2>1. ASSUME Alone(i)
          PROVE  Owned(i) = {d}
      <3>1. IsFiniteSet(Owned(i))
        <4>1. Owned(i) \in SUBSET Domains
          BY DEF Owned
        <4> QED
          BY <4>1, FS_Subset, ContentionAssumption
      <3>2. Cardinality(Owned(i)) = 1
        BY <2>1 DEF Alone
      <3>3. PICK f : Owned(i) = {f}
        BY <3>1, <3>2, FS_Singleton
      <3> QED
        BY <1>4, <3>3
    <2> QED
      BY <2>1
  <1>8. /\ r \in ThreadRecords /\ r.pc = "loop" /\ Queues(r) = Queues(th[i]) \cup {d}
        /\ r.domPq # {} \/ r.stalled # << >>
        /\ Alone(i) => r.stalled = << >> /\ r.next = << >>
    <2>1. CASE Alone(i)
      <3>1. r = [AfterEvent(th[i]) EXCEPT !.domPq = {d}]
        BY <1>2, <2>1, Zenon
      <3>2. /\ r \in ThreadRecords /\ r.pc = "loop" /\ Queues(r) = {d} /\ r.domPq # {}
            /\ r.stalled = << >> /\ r.next = << >>
        BY <1>4, <2>1, <3>1, AloneInLoop, Zenon
      <3>3. Queues(th[i]) \subseteq {d}
        BY <1>4, <1>7, <2>1
      <3> QED
        BY <3>2, <3>3
    <2>2. CASE ~Alone(i)
      <3>1. r = Swapped(PutBack(AfterEvent(th[i]), d))
        BY <1>2, <2>2, Zenon
      <3>2. /\ r \in ThreadRecords /\ r.pc = "loop" /\ Queues(r) = Queues(th[i]) \cup {d}
            /\ r.domPq # {} \/ r.stalled # << >>
        BY <1>4, <3>1, BackInLoop, ZenonT(60)
      <3> QED
        BY <2>2, <3>2
    <2> QED
      BY <2>1, <2>2
  <1>9. /\ th' \in [Threads -> ThreadRecords] /\ th'[i] = r
        /\ \A j \in Threads : j # i => th'[j] = th[j]
    BY <1>1, <1>3, <1>8, OneThread
  <1>10. Graph' /\ Links' /\ Late'
    BY <1>3, <1>8, <1>9, EventsAlone
  <1>11. WellTyped'
    BY <1>1, <1>3, <1>6, <1>9 DEF WellTyped
  <1>12. \A e \in Events : owner[Domain(e)] = i => ev[e].state # "running"
    BY <1>1, <1>3 DEF Places, Busy
  <1>13. Times'
    <2>1. \A e \in Events : Domain(e) = d => ev[e].state # "running"
      BY <1>4, <1>12
    <2> QED
      BY <1>1, <1>3, <1>4, <1>5, <1>6, <2>1, ClockMoves
  <1>14. Places'
    <2>1. Working(i, r)'
      <3>1. Queues(r)' = Queues(r) /\ Owned(i)' = Owned(i) /\ Alone(i)' = Alone(i)
        BY <1>3, SameOwner DEF Queues
      <3> QED
        BY <1>4, <1>8, <3>1 DEF Working, Busy
    <2>2. \A f \in Events : owner[Domain(f)] # i =>
               /\ ev'[f].state = "running" <=> ev[f].state = "running"
               /\ ev[f].state = "running" => ev'[f].at = ev[f].at
      BY <1>3
    <2>3. \A f \in Events : owner[Domain(f)] = i /\ ev'[f].state = "running" =>
               r.pc \in Busy /\ r.te = f
      BY <1>3, <1>12
    <2>4. WellTyped /\ Places /\ i \in Threads /\ owner' = owner /\ th' = [th EXCEPT ![i] = r]
      BY <1>1, <1>3
    <2> QED
      BY ONLY <2>1, <2>2, <2>3, <2>4, PlacesStep
  <1>15. Phases'
    <2>1. Held(r) = Queues(th[i]) \cup {d} /\ Held(th[i]) = Queues(th[i]) \cup {d}
      BY <1>2, <1>3, <1>4, <1>8 DEF Held, Busy
    <2>2. \A f \in Domains : owner[f] = i =>
               \/ f \in Held(r) \/ dom'[f].curCycle = limit
               \/ f \notin Held(th[i]) /\ dom'[f].curCycle = dom[f].curCycle
      BY <1>6, <2>1
    <2>3. \A f \in Domains : owner[f] # i => dom'[f].curCycle = dom[f].curCycle
      BY <1>4, <1>6
    <2>4. th[i].pc # "idle" /\ r.pc # "idle" /\ r.pc # "done"
      BY <1>3, <1>8
    <2>5. /\ WellTyped /\ Phases /\ i \in Threads /\ th' = [th EXCEPT ![i] = r]
          /\ UNCHANGED <<owner, limit, lastLimit, lock, threadsDone>>
      BY <1>1, <1>3
    <2> QED
      BY ONLY <2>2, <2>3, <2>4, <2>5, PhasesStep
  <1> QED
    BY <1>10, <1>11, <1>13, <1>14, <1>15 DEF IInv

-----------------------------------------------------------------------------
(* The theorems *)

(* Every step preserves the invariant. *)
LEMMA NextIInv == IInv /\ [Next]_vars => IInv'
  <1> SUFFICES ASSUME IInv, [Next]_vars
               PROVE  IInv'
    OBVIOUS
  <1>1. ASSUME UNCHANGED vars
        PROVE  IInv'
    <2>1. WellTyped /\ Graph /\ Places /\ Phases
      BY DEF IInv
    <2>2. UNCHANGED <<owner, ev, dom, th, limit, lastLimit, lock, threadsDone, rec, lastCrossing>>
      BY <1>1 DEF vars
    <2>3. Graph' /\ Links' /\ Times' /\ Late'
      <3>1. limit' \in Nat /\ limit' >= limit
        BY <2>1, <2>2, ClockType
      <3> QED
        BY <2>2, <3>1, ControlStep
    <2>4. Places'
      BY <2>1, <2>2, PlacesStay
    <2>5. Phases'
      BY <2>1, <2>2, PhasesStay
    <2>6. WellTyped'
      BY <2>1, <2>2 DEF WellTyped
    <2> QED
      BY <2>3, <2>4, <2>5, <2>6 DEF IInv
  <1>2. CASE \E t \in Txs, type \in Types, gap \in Gaps, pre \in PreDelays, post \in PostDelays :
                Record(t, type, gap, pre, post)
    BY <1>2, RecordStep
  <1>3. CASE StartPhase
    BY <1>3, StartPhaseStep
  <1>4. CASE EndPhase
    BY <1>4, EndPhaseStep
  <1>5. ASSUME NEW i \in Threads, Step(i)
        PROVE  IInv'
    <2>1. CASE Wake(i)
      BY <2>1, WakeStep
    <2>2. CASE ThreadDone(i)
      BY <2>2, ThreadDoneStep
    <2>3. CASE \E d \in Domains : FinishDomain(i, d)
      BY <2>3, FinishDomainStep
    <2>4. CASE \E d \in Domains, e \in Events : Dequeue(i, d, e)
      BY <2>4, DequeueStep
    <2>5. CASE \E w \in Waits \cup {0} : RunEvent(i, w)
      BY <2>5, RunEventStep
    <2>6. CASE TestCalled(i)
      BY <2>6, TestCalledStep
    <2>7. CASE ReadSource(i)
      BY <2>7, ReadSourceStep
    <2>8. CASE Recheck(i)
      BY <2>8, RecheckStep
    <2>9. CASE After(i)
      BY <2>9, AfterStep
    <2> QED
      BY <1>5, <2>1, <2>2, <2>3, <2>4, <2>5, <2>6, <2>7, <2>8, <2>9 DEF Step
  <1>6. CASE Terminated
    BY <1>1, <1>6 DEF Terminated
  <1> QED
    BY <1>1, <1>2, <1>3, <1>4, <1>5, <1>6 DEF Next

(* The invariant holds in every state of the specification. *)
LEMMA Invariance == Spec => []IInv
  BY InitIInv, NextIInv, PTL DEF Spec

(* No event is queued behind its domain's clock ("goes back in time", "before   *)
(* last limit"), between phases every clock is at the limit, and a thread with  *)
(* one domain runs no event before its minimum start cycle.                  *)
THEOREM NoEventIsEarly == Spec => []NoEventEarly
  <1>1. ASSUME IInv
        PROVE  NoEventEarly
    <2>1. WellTyped /\ Times /\ Phases
      BY <1>1 DEF IInv
    <2>2. TypeOK
      <3>1. \A e \in Events :
               /\ ev[e].state \in {"free", "none", "queued", "running", "done"}
               /\ ev[e].parents \in 0 .. 2 /\ ev[e].kids \subseteq Events
               /\ {ev[e].at, ev[e].cycle, ev[e].doneCycle} \subseteq Nat
        BY <2>1, EventType
      <3>2. \A d \in Domains : dom[d].curCycle \in Nat /\ dom[d].prio \in 0 .. 2
        BY <2>1, ClockType
      <3>3. \A i \in Threads :
               th[i].pc \in {"idle", "loop", "run", "read", "recheck", "after", "done"}
        BY <2>1, ThreadType
      <3>4. lock.wake \subseteq Threads /\ lock.wait \in BOOLEAN
        BY <2>1 DEF WellTyped
      <3>5. limit - lastLimit \in {0, PhaseLength}
        BY <2>1, ContentionAssumption DEF WellTyped
      <3>6. threadsDone \in 0 .. Cardinality(SimThreads)
        <4>1. Finished \subseteq SimThreads
          BY DEF Finished
        <4>2. /\ Cardinality(Finished) \in Nat /\ Cardinality(SimThreads) \in Nat
              /\ Cardinality(Finished) <= Cardinality(SimThreads)
          BY <4>1, SimThreadsFinite, FS_Subset, FS_CardinalityType
        <4>3. threadsDone = Cardinality(Finished) \/ threadsDone = 0
          BY <2>1 DEF Phases
        <4> QED
          BY <4>2, <4>3
      <3> QED
        BY <3>1, <3>2, <3>3, <3>4, <3>5, <3>6 DEF TypeOK
    <2>3. NothingInThePast
      <3>1. \A d \in Domains : \A e \in Queued(d) : ev[e].at >= dom[d].curCycle
        BY <2>1 DEF Times, Queued
      <3>2. ~InCSim => \A d \in Domains : dom[d].curCycle = lastLimit
        BY <2>1, AtRest
      <3> QED
        BY <3>1, <3>2 DEF NothingInThePast
    <2>4. MinStartRespected
      BY <2>1 DEF Times
    <2> QED
      BY <2>2, <2>3, <2>4 DEF NoEventEarly
  <1> QED
    BY Invariance, <1>1, PTL

(* A crossing lets nothing through before its source event is done, nor at an   *)
(* earlier cycle, and holds nothing back for longer than its slacks: the second *)
(* test of called after the read of the other thread's clock sees every mark    *)
(* that the clock is newer than.                                             *)
THEOREM CrossingsAreOnTime == Spec => []CrossingOnTime
  <1>1. ASSUME IInv
        PROVE  CrossingOnTime
    <2>1. WellTyped /\ Graph /\ Late
      BY <1>1 DEF IInv
    <2>2. ASSUME NEW t \in Txs, NEW x \in {<<t, "X">>, <<t, "Y">>}, ev[x].state = "done"
          PROVE  LET src == ev[IF x[2] = "X" THEN <<t, "P">> ELSE <<t, "C">>]
                 IN  src.state = "done" /\ ev[x].at >= src.at + src.post
      <3>1. /\ x \in Events /\ IsCrossing(x)
            /\ Origin(x) = IF x[2] = "X" THEN <<t, "P">> ELSE <<t, "C">>
        BY Pairs, ZenonT(60) DEF Tags, IsCrossing, Origin
      <3>2. /\ ev[x].called /\ ev[x].at >= ev[x].doneCycle
            /\ ev[Origin(x)].state = "done"
            /\ ev[x].doneCycle >= ev[Origin(x)].at + ev[Origin(x)].post
        BY <2>1, <2>2, <3>1 DEF Graph, Marks
      <3>3. /\ ev[x].at \in Nat /\ ev[x].doneCycle \in Nat
            /\ ev[Origin(x)].at \in Nat /\ ev[Origin(x)].post \in Nat
        BY <2>1, <3>1, Crossings, EventType
      <3>4. ev[x].at >= ev[Origin(x)].at + ev[Origin(x)].post
        BY <3>2, <3>3
      <3> QED
        BY <3>1, <3>2, <3>4
    <2>3. CrossingNotEarly
      BY <2>2 DEF CrossingNotEarly
    <2>4. ASSUME NEW t \in Txs, NEW x \in {<<t, "X">>, <<t, "Y">>}, ev[x].state = "done"
          PROVE  LET src == ev[IF x[2] = "X" THEN <<t, "P">> ELSE <<t, "C">>]
                 IN  ev[x].at <= Max({ev[x].doneCycle - src.post + Slack(x),
                                      ev[x].entry, ev[x].rel})
      <3>1. /\ x \in Events /\ IsCrossing(x)
            /\ Origin(x) = IF x[2] = "X" THEN <<t, "P">> ELSE <<t, "C">>
        BY Pairs, ZenonT(60) DEF Tags, IsCrossing, Origin
      <3>2. \/ ev[x].at <= ev[x].entry \/ ev[x].at <= ev[x].rel
            \/ ev[x].at <= ev[x].doneCycle + Margin(x)
        BY <2>1, <2>4, <3>1 DEF Late
      <3>3. /\ ev[x].at \in Nat /\ ev[x].entry \in Nat /\ ev[x].rel \in Nat
            /\ ev[x].doneCycle \in Nat /\ ev[Origin(x)].post \in Nat
            /\ Margin(x) \in Nat /\ Slack(x) = ev[Origin(x)].post + Margin(x)
        BY <2>1, <2>4, <3>1, Crossings, EventType, SlackStays
      <3>4. PICK a \in Int, b \in Int, c \in Int :
               /\ a = ev[x].doneCycle - ev[Origin(x)].post + Slack(x)
               /\ b = ev[x].entry /\ c = ev[x].rel
        BY <3>3
      <3>5. a = ev[x].doneCycle + Margin(x)
        BY <3>3, <3>4
      <3>6. /\ Max({a, b, c}) \in Int
            /\ Max({a, b, c}) >= a /\ Max({a, b, c}) >= b /\ Max({a, b, c}) >= c
        BY MaxOfThree
      <3>7. ev[x].at <= Max({a, b, c})
        BY <3>2, <3>3, <3>4, <3>5, <3>6
      <3> QED
        BY <3>1, <3>4, <3>7
    <2>5. CrossingNotLate
      BY <2>4 DEF CrossingNotLate
    <2> QED
      BY <2>3, <2>5 DEF CrossingOnTime
  <1> QED
    BY Invariance, <1>1, PTL

(* The crossing that lastCrossing names, when a new request crossing is chained *)
(* to it, has not been simulated (addChild's assertion): its minimum start    *)
(* cycle lies beyond the limit, and no crossing runs before that cycle.      *)
THEOREM ChainTargetIsAlive == Spec => []ChainTargetAlive
  <1>1. ASSUME IInv
        PROVE  ChainTargetAlive
    <2>1. WellTyped /\ Links /\ Times /\ Phases
      BY <1>1 DEF IInv
    <2>2. ASSUME ~InCSim, NEW k \in DOMAIN lastCrossing, Chains(k, lastCrossing[k].cycle)
          PROVE  ev[lastCrossing[k].ev].state \in {"none", "queued"}
      <3>1. /\ lastCrossing \in [Keys -> [cycle : Nat, ev : Events \cup {NoEvent}]]
            /\ k \in Keys
        BY <2>1 DEF WellTyped
      <3>2. PICK y, n : y = lastCrossing[k].ev /\ n = lastCrossing[k].cycle
        OBVIOUS
      <3>3. n \in Nat /\ y \in Events \cup {NoEvent}
        BY <3>1, <3>2
      <3>4. k[2] \in Domains
        BY <3>1, ContentionAssumption DEF Keys
      <3>5. dom[k[2]].curCycle = lastLimit /\ limit = lastLimit /\ limit \in Nat
        BY <2>1, <2>2, <3>4, AtRest, ClockType
      <3>6. n > limit
        BY <2>2, <3>2, <3>5 DEF Chains
      <3>7. y # NoEvent
        BY <2>1, <3>1, <3>2, <3>3, <3>5, <3>6 DEF Links
      <3>8. y \in Events /\ y[2] = "X" /\ ev[y].state # "free" /\ ev[y].minStart = n
        BY <2>1, <3>1, <3>2, <3>3, <3>7 DEF Links
      <3>9. ev[y].state \in {"running", "done"} => ev[y].minStart <= limit
        BY <2>1, <3>8 DEF Times, IsCrossing
      <3>10. ev[y].state \in {"free", "none", "queued", "running", "done"}
        BY <2>1, <3>8, EventType
      <3> QED
        BY <3>2, <3>3, <3>5, <3>6, <3>8, <3>9, <3>10
    <2> QED
      BY <2>2 DEF ChainTargetAlive
  <1> QED
    BY Invariance, <1>1, PTL

=============================================================================
