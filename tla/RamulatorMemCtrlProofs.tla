----------------------- MODULE RamulatorMemCtrlProofs -----------------------
(***************************************************************************)
(* RamulatorMemCtrl for every number of events, cores and addresses, every  *)
(* queue depth, retry limit and phase length and every pair of clock        *)
(* periods: an access is never lost or completed twice, every callback finds *)
(* its event, the clocks stay in step, no latency wraps and one phase is     *)
(* charged one estimate.                                                     *)
(***************************************************************************)
EXTENDS RamulatorMemCtrl, FiniteSetTheorems,
        WellFoundedInduction, TLAPS

(* Counting one more tick adds one more period. *)
LEMMA PeriodPlusOne ==
    ASSUME NEW p \in Nat, NEW n \in Nat
    PROVE  p * (n + 1) = p * n + p /\ p * n \in Int
  OBVIOUS

(* The initial clock is in step. *)
LEMMA ClockInitInStep ==
    ClockInit \in Clocks /\ InStep(ClockInit)
  <1>1. DramPsPerClk * 0 = 0 /\ CpuPsPerClk * 0 = 0
    BY PeriodAssumption
  <1> QED
    BY <1>1, PeriodAssumption DEF ClockInit, Clocks, InStep, DramLead

(* A CPU cycle is counted, whether or not it ticks the DRAM. *)
LEMMA ClockAdvanceCounts ==
    ASSUME NEW c \in Clocks
    PROVE  /\ ClockAdvance(c) \in Clocks
           /\ ClockAdvance(c).curCycle = c.curCycle + 1
  BY PeriodAssumption DEF ClockAdvance, DramTickDue, Clocks

(* A CPU cycle keeps the two sides in step: the tick that becomes due adds   *)
(* one DRAM period to a lead that had become negative by less than one, and  *)
(* the reset on a tie leaves the difference of the accumulators alone.       *)
LEMMA ClockAdvanceInStep ==
    ASSUME NEW c \in Clocks, InStep(c)
    PROVE  InStep(ClockAdvance(c))
  <1> DEFINE n == ClockAdvance(c)
             due == DramTickDue(c)
  <1>1. /\ c.curCycle \in Nat /\ c.dramCycle \in Nat
        /\ c.cpuPs \in Nat /\ c.dramPs \in Nat
    BY DEF Clocks
  <1>2. CpuPsPerClk * n.curCycle = CpuPsPerClk * c.curCycle + CpuPsPerClk
    <2>1. n.curCycle = c.curCycle + 1
      BY DEF ClockAdvance
    <2> QED
      BY <1>1, <2>1, PeriodPlusOne, PeriodAssumption
  <1>3. DramPsPerClk * n.dramCycle
          = DramPsPerClk * c.dramCycle + (IF due THEN DramPsPerClk ELSE 0)
    <2>1. n.dramCycle = IF due THEN c.dramCycle + 1 ELSE c.dramCycle
      BY DEF ClockAdvance
    <2>2. DramPsPerClk * (c.dramCycle + 1) = DramPsPerClk * c.dramCycle + DramPsPerClk
      BY <1>1, PeriodPlusOne, PeriodAssumption
    <2>3. DramPsPerClk * c.dramCycle \in Int
      BY <1>1, PeriodPlusOne, PeriodAssumption
    <2> QED
      BY <2>1, <2>2, <2>3, PeriodAssumption
  <1>4. n.dramPs - n.cpuPs
          = c.dramPs - c.cpuPs - CpuPsPerClk + (IF due THEN DramPsPerClk ELSE 0)
    BY <1>1, PeriodAssumption DEF ClockAdvance
  <1>5. due <=> c.dramPs - c.cpuPs < CpuPsPerClk
    BY <1>1, PeriodAssumption DEF DramTickDue
  <1>6. /\ CpuPsPerClk * c.curCycle \in Int
        /\ DramPsPerClk * c.dramCycle \in Int
    BY <1>1, PeriodPlusOne, PeriodAssumption
  <1> QED
    BY <1>1, <1>2, <1>3, <1>4, <1>5, <1>6, PeriodAssumption DEF InStep, DramLead
-----------------------------------------------------------------------------
(* The inductive invariant.  The three properties need each other: the place *)
(* of a completed event (HeldIsSomewhereOnce) says it had started, the       *)
(* clocks say that what has started has a positive latency                   *)
(* (LatencyNeverWraps), and only then is an estimator's sample a number.     *)
IInv ==
    /\ TypeOK
    /\ ClocksInStep
    /\ HeldIsSomewhereOnce
    /\ LatencyNeverWraps

(* A nonempty set of natural numbers has a least element. *)
LEMMA NatMin ==
    ASSUME NEW S \in SUBSET Nat, S # {}
    PROVE  \E m \in S : \A k \in S : m <= k
  <1>1. PICK R : /\ IsWellFoundedOn(R, Nat)
                 /\ \A x, y \in Nat : y < x => <<y, x>> \in R
    <2>1. IsWellFoundedOn(OpToRel(<, Nat), Nat)
      BY NatLessThanWellFounded
    <2>2. \A x, y \in Nat : y < x => <<y, x>> \in OpToRel(<, Nat)
      BY DEF OpToRel
    <2> QED
      BY <2>1, <2>2, Zenon
  <1>2. \E x \in S : \A y \in S : ~ (<<y, x>> \in R)
    BY <1>1, WFMin, Zenon
  <1>3. PICK m \in S : \A y \in S : ~ (<<y, m>> \in R)
    BY <1>2
  <1>4. \A y \in S : ~ (y < m)
    BY <1>1, <1>3
  <1> QED
    BY <1>4

(* The record of an access not made is a record. *)
LEMMA NoAccType == NoAcc \in AccRecords
  BY CtrlAssumption DEF NoAcc, AccRecords

(* limit is a cycle number. *)
LEMMA LimitType ==
    ASSUME TypeOK
    PROVE  limit \in Nat
  BY CtrlAssumption DEF TypeOK, limit

(* The order given to the next access is a natural. *)
LEMMA NextOrderType == NextOrder \in Nat
  <1> DEFINE S == {f \in Events : st[f] \in {"HELD", "DONE"}}
  <1>1. IsFiniteSet(S)
    BY CtrlAssumption, FS_Subset
  <1>2. Cardinality(S) \in Nat
    BY <1>1, FS_CardinalityType
  <1> QED
    BY <1>2 DEF NextOrder

(* The events a tick offers to the model are parked. *)
LEMMA TriedParked ==
    ASSUME NEW sent, PushInFlights(sent)
    PROVE  sent \subseteq notQueued
  BY DEF PushInFlights, Tried

(* A callback completes an event that is in flight. *)
LEMMA CompletedInFlight ==
    ASSUME NEW q, NEW S
    PROVE  Completed(q, S) \subseteq S
  BY DEF Completed, Matches, NextRange

(* The requests made from events are well formed. *)
LEMMA RequestsOfType ==
    ASSUME TypeOK, NEW S \in SUBSET Events
    PROVE  RequestsOf(S) \subseteq Requests
  BY DEF RequestsOf, getRequestFromAccEvent, TypeOK, AccRecords, Requests

(* The samples that completions add to the estimators are numbers. *)
LEMMA EstAfterType ==
    ASSUME TypeOK, NEW done \in SUBSET Events, NEW now \in Nat,
           \A e \in done : acc[e].sCycle <= now
    PROVE  EstAfter(done, now) \in [Cores -> EstStates]
  <1> SUFFICES ASSUME NEW c \in Cores
               PROVE  EstAfter(done, now)[c] \in EstStates
    BY DEF EstAfter
  <1> DEFINE reads == {f \in done : acc[f].core = c /\ ~acc[f].isWrite}
             lats  == {Lat(e, now) : e \in reads}
             IsMax(l) == l \in lats /\ \A m \in lats : m <= l
  <1>1. EstAfter(done, now)[c]
          = IF lats = {} THEN est[c]
            ELSE EstUpdate(est[c], CHOOSE l \in lats : \A m \in lats : m <= l)
    BY DEF EstAfter
  <1>2. est[c] \in EstStates
    BY DEF TypeOK
  <1>3. CASE lats = {}
    BY <1>1, <1>2, <1>3
  <1>4. CASE lats # {}
    <2> DEFINE starts == {acc[e].sCycle : e \in reads}
    <2>1. \A e \in reads : acc[e].sCycle \in Nat /\ acc[e].sCycle <= now
      BY DEF TypeOK, AccRecords
    <2>2. PICK e0 \in reads : \A e \in reads : acc[e0].sCycle <= acc[e].sCycle
      <3>1. starts \in SUBSET Nat /\ starts # {}
        BY <1>4, <2>1
      <3>2. PICK m \in starts : \A k \in starts : m <= k
        BY <3>1, NatMin
      <3> QED
        BY <3>2
    <2>3. Lat(e0, now) \in lats /\ \A m \in lats : m <= Lat(e0, now)
      BY <2>1, <2>2 DEF Lat
    <2>4. (CHOOSE l \in lats : \A m \in lats : m <= l) \in lats
      BY <2>3
    <2>5. lats \subseteq Nat
      BY <2>1 DEF Lat
    <2>6. \A l \in Nat : EstUpdate(est[c], l) \in EstStates
      BY <1>2 DEF EstUpdate, EstStates
    <2> QED
      BY <1>1, <1>4, <2>4, <2>5, <2>6
  <1> QED
    BY <1>3, <1>4

-----------------------------------------------------------------------------
(* The inductive invariant holds of the state the constructor leaves. *)
LEMMA InitIInv == Init => IInv
  <1> SUFFICES ASSUME Init PROVE IInv
    OBVIOUS
  <1>1. TypeOK
    BY ClockInitInStep, NoAccType DEF Init, TypeOK, EventStates, EstStates
  <1>2. ClocksInStep
    BY ClockInitInStep DEF Init, ClocksInStep
  <1>3. HeldIsSomewhereOnce
    BY DEF Init, HeldIsSomewhereOnce
  <1>4. LatencyNeverWraps
    BY DEF Init, LatencyNeverWraps, ClockInit
  <1> QED
    BY <1>1, <1>2, <1>3, <1>4 DEF IInv

(* access, which records an event in the bound phase, preserves it. *)
LEMMA AccessIInv ==
    ASSUME IInv, NEW c \in Cores, NEW a \in Addrs,
           NEW type \in {"GETS", "GETX", "PUTS", "PUTX"},
           NEW cycle \in limit + 1 .. limit + PhaseLength,
           access(c, a, type, cycle)
    PROVE  IInv'
  <1> USE DEF IInv
  <1>1. EstAtAccess \in [Cores -> EstStates]
    BY DEF TypeOK, EstAtAccess, EstReset, EstStates
  <1>2. CASE type = "PUTS" /\ UNCHANGED <<st, acc>>
    <2>1. TypeOK'
      BY <1>1, <1>2 DEF access, TypeOK
    <2>2. ClocksInStep' /\ HeldIsSomewhereOnce' /\ LatencyNeverWraps'
      BY <1>2 DEF access, ClocksInStep, HeldIsSomewhereOnce, LatencyNeverWraps
    <2> QED
      BY <2>1, <2>2
  <1>3. ASSUME NEW e \in Events, NEW skew \in 0..MaxSkew, st[e] = "FREE",
               st' = [st EXCEPT ![e] = "QUEUED"],
               acc' = [acc EXCEPT ![e] =
                     [core |-> c, addr |-> a, isWrite |-> type = "PUTX",
                      sCycle |-> cycle - 1 + skew, order |-> 0, issueCycle |-> 0,
                      boundLatency |-> EstLatency(EstAtAccess[c]),
                      phaseNum |-> phaseNum]]
        PROVE  IInv'
    <2>1. cycle - 1 + skew \in Nat
      BY LimitType, CtrlAssumption
    <2>2. EstLatency(EstAtAccess[c]) \in Nat
      BY <1>1, CtrlAssumption DEF EstLatency, EstStates
    <2>3. acc' \in [Events -> AccRecords]
      BY <1>3, <2>1, <2>2 DEF TypeOK, AccRecords
    <2>4. st' \in [Events -> EventStates]
      BY <1>3 DEF TypeOK, EventStates
    <2>5. TypeOK'
      BY <1>1, <2>3, <2>4 DEF access, TypeOK
    <2>6. \A f \in Events : (st'[f] = "HELD") <=> (st[f] = "HELD")
      BY <1>3 DEF TypeOK
    <2>7. HeldIsSomewhereOnce'
      BY <2>6 DEF access, HeldIsSomewhereOnce
    <2>8. \A f \in Events : st[f] = "HELD" => acc'[f] = acc[f]
      BY <1>3 DEF TypeOK
    <2>9. LatencyNeverWraps'
      BY <2>6, <2>8 DEF access, LatencyNeverWraps, HeldIsSomewhereOnce, TypeOK
    <2>10. ClocksInStep'
      BY DEF access, ClocksInStep
    <2> QED
      BY <2>5, <2>7, <2>9, <2>10
  <1> QED
    BY <1>2, <1>3 DEF access

(* The phase changes preserve it. *)
LEMMA PhaseIInv ==
    ASSUME IInv, StartWeave \/ EndWeave
    PROVE  IInv'
  BY DEF IInv, StartWeave, EndWeave, TypeOK, ClocksInStep, HeldIsSomewhereOnce,
         LatencyNeverWraps

(* enqueue, which offers an event to the model and parks it if refused, *)
(* preserves it.                                                        *)
LEMMA EnqueueIInv ==
    ASSUME IInv, NEW e \in Events, enqueue(e)
    PROVE  IInv'
  <1> USE DEF IInv
  <1>1. clk.curCycle \in Nat
    BY DEF TypeOK, Clocks
  <1>2. acc' \in [Events -> AccRecords]
    BY <1>1, NextOrderType DEF enqueue, IssueCycle, TypeOK, AccRecords
  <1>3. st' \in [Events -> EventStates]
    BY DEF enqueue, TypeOK, EventStates
  <1>4. TypeOK'
    <2>1. getRequestFromAccEvent(e) \in Requests
      BY DEF getRequestFromAccEvent, TypeOK, AccRecords, Requests
    <2> QED
      BY <1>2, <1>3, <2>1 DEF enqueue, TypeOK
  <1>5. \A f \in Events : (st'[f] = "HELD") <=> (st[f] = "HELD" \/ f = e)
    BY DEF enqueue, TypeOK
  <1>6. e \notin notQueued \cup inflight
    BY DEF enqueue, HeldIsSomewhereOnce
  <1>7. HeldIsSomewhereOnce'
    BY <1>5, <1>6 DEF enqueue, HeldIsSomewhereOnce
  <1>8. \A f \in Events : /\ acc'[f].sCycle = acc[f].sCycle
                          /\ f # e => acc'[f] = acc[f]
    BY DEF enqueue, TypeOK, AccRecords
  <1>9. LatencyNeverWraps'
    <2>1. acc[e].sCycle <= clk.curCycle
      BY DEF enqueue, LatencyNeverWraps
    <2>2. \A f \in Events : st'[f] = "HELD" => acc'[f].sCycle <= clk.curCycle
      BY <1>5, <1>8, <2>1 DEF LatencyNeverWraps
    <2>3. \A f \in inflight' : /\ acc'[f].sCycle <= acc'[f].issueCycle
                              /\ acc'[f].issueCycle <= clk.curCycle
      <3> SUFFICES ASSUME NEW f \in inflight'
                   PROVE  /\ acc'[f].sCycle <= acc'[f].issueCycle
                          /\ acc'[f].issueCycle <= clk.curCycle
        OBVIOUS
      <3>1. CASE f # e
        BY <3>1, <1>8 DEF enqueue, LatencyNeverWraps, TypeOK
      <3>2. CASE f = e
        <4>1. acc'[e].issueCycle = clk.curCycle
          BY <3>2, <1>6 DEF enqueue, IssueCycle, TypeOK, AccRecords
        <4> QED
          BY <3>2, <4>1, <2>1, <1>1, <1>8
      <3> QED
        BY <3>1, <3>2
    <2> QED
      BY <2>2, <2>3 DEF enqueue, LatencyNeverWraps
  <1>10. ClocksInStep'
    BY DEF enqueue, ClocksInStep
  <1> QED
    BY <1>4, <1>7, <1>9, <1>10

(* What both kinds of tick have in common: sent moves from the parked events *)
(* to the ones in flight and done leaves them.                               *)
LEMMA TickIInv ==
    ASSUME IInv, NEW sent, NEW done,
           TickStart(sent),
           done \subseteq inflight \cup sent,
           st' = [e \in Events |-> IF e \in done THEN "DONE" ELSE st[e]],
           acc' = AccAfterTick(sent, done),
           inflight' = (inflight \cup sent) \ done,
           backend' \subseteq backend \cup RequestsOf(sent),
           stall' \in Nat,
           est' \in [Cores -> EstStates]
    PROVE  IInv'
  <1> USE DEF IInv
  <1>1. sent \subseteq notQueued
    BY TriedParked DEF TickStart
  <1>2. notQueued \subseteq Events /\ inflight \subseteq Events
    BY DEF TypeOK
  <1>3. /\ clk' \in Clocks
        /\ clk'.curCycle = clk.curCycle + 1
        /\ clk.curCycle \in Nat
    BY ClockAdvanceCounts DEF TickStart, TypeOK, Clocks
  <1>4. acc' \in [Events -> AccRecords]
    BY <1>3, NoAccType DEF AccAfterTick, IssueCycle, TypeOK, AccRecords
  <1>5. TypeOK'
    <2>1. RequestsOf(sent) \subseteq Requests
      BY <1>1, <1>2, RequestsOfType
    <2>2. st' \in [Events -> EventStates]
      BY DEF TypeOK, EventStates
    <2> QED
      BY <1>1, <1>2, <1>3, <1>4, <2>1, <2>2 DEF TickStart, StillParked, TypeOK
  <1>6. ClocksInStep'
    BY ClockAdvanceInStep DEF TickStart, ClocksInStep, TypeOK
  <1>7. \A f \in Events : (st'[f] = "HELD") <=> (st[f] = "HELD" /\ f \notin done)
    OBVIOUS
  <1>8. HeldIsSomewhereOnce'
    BY <1>1, <1>2, <1>7 DEF TickStart, StillParked, HeldIsSomewhereOnce
  <1>9. \A f \in Events \ done :
          /\ acc'[f].sCycle = acc[f].sCycle
          /\ acc'[f].issueCycle = IF f \in sent THEN clk.curCycle
                                  ELSE acc[f].issueCycle
    BY DEF AccAfterTick, IssueCycle, TypeOK, AccRecords
  <1>10. \A f \in Events : acc[f].sCycle \in Nat /\ acc[f].issueCycle \in Nat
    BY DEF TypeOK, AccRecords
  <1>11. \A f \in Events : st'[f] = "HELD" => acc'[f].sCycle <= clk'.curCycle
    BY <1>3, <1>7, <1>9, <1>10 DEF LatencyNeverWraps
  <1>12. \A f \in inflight' : /\ acc'[f].sCycle <= acc'[f].issueCycle
                             /\ acc'[f].issueCycle <= clk'.curCycle
    <2> SUFFICES ASSUME NEW f \in inflight'
                 PROVE  /\ acc'[f].sCycle <= acc'[f].issueCycle
                        /\ acc'[f].issueCycle <= clk'.curCycle
      OBVIOUS
    <2>1. f \in Events \ done
      BY <1>1, <1>2
    <2>2. CASE f \in sent
      <3>1. st[f] = "HELD"
        BY <1>1, <2>2 DEF HeldIsSomewhereOnce
      <3> QED
        BY <1>3, <1>9, <1>10, <2>1, <2>2, <3>1 DEF LatencyNeverWraps
    <2>3. CASE f \notin sent
      BY <1>3, <1>9, <1>10, <2>1, <2>3 DEF LatencyNeverWraps
    <2> QED
      BY <2>2, <2>3
  <1>13. LatencyNeverWraps'
    <2>1. clk'.curCycle = tickCycle'
      BY <1>3 DEF TickStart, LatencyNeverWraps
    <2> QED
      BY <2>1, <1>11, <1>12 DEF LatencyNeverWraps
  <1> QED
    BY <1>5, <1>6, <1>8, <1>13

(* A tick in which the DRAM clock does not advance preserves it. *)
LEMMA TickCpuOnlyIInv ==
    ASSUME IInv, NEW sent, TickCpuOnly(sent)
    PROVE  IInv'
  <1>1. st' = [e \in Events |-> IF e \in {} THEN "DONE" ELSE st[e]]
    BY DEF TickCpuOnly, IInv, TypeOK
  <1>2. /\ TickStart(sent)
        /\ acc' = AccAfterTick(sent, {})
        /\ inflight' = (inflight \cup sent) \ {}
        /\ backend' \subseteq backend \cup RequestsOf(sent)
        /\ stall' \in Nat
        /\ est' \in [Cores -> EstStates]
    BY DEF TickCpuOnly, IInv, TypeOK
  <1> QED
    BY <1>1, <1>2, TickIInv

(* A tick in which it does, with the callbacks the model makes, preserves it. *)
LEMMA TickDramIInv ==
    ASSUME IInv, NEW sent, NEW cb, NEW pick, TickDram(sent, cb, pick)
    PROVE  IInv'
  <1> DEFINE done == {pick[q] : q \in cb}
             now  == clk.curCycle + 1
  <1>1. /\ TickStart(sent)
        /\ \A q \in cb : pick[q] \in Completed(q, inflight \cup sent)
        /\ st' = [e \in Events |-> IF e \in done THEN "DONE" ELSE st[e]]
        /\ est' = EstAfter(done, now)
        /\ acc' = AccAfterTick(sent, done)
        /\ inflight' = (inflight \cup sent) \ done
        /\ backend' = (backend \cup RequestsOf(sent)) \ cb
        /\ stall' \in {0, stall + 1}
    BY DEF TickDram
  <1>2. done \subseteq inflight \cup sent
    BY <1>1, CompletedInFlight
  <1>3. sent \subseteq notQueued
    BY <1>1, TriedParked DEF TickStart
  <1>4. clk.curCycle \in Nat /\ now \in Nat
    BY DEF IInv, TypeOK, Clocks
  <1>5. \A e \in done : e \in Events /\ acc[e].sCycle <= now
    <2>1. \A e \in done : e \in Events /\ st[e] = "HELD"
      BY <1>2, <1>3 DEF IInv, HeldIsSomewhereOnce, TypeOK
    <2>2. \A e \in Events : acc[e].sCycle \in Nat
      BY DEF IInv, TypeOK, AccRecords
    <2> QED
      BY <1>4, <2>1, <2>2 DEF IInv, LatencyNeverWraps
  <1>6. est' \in [Cores -> EstStates]
    BY <1>1, <1>4, <1>5, EstAfterType DEF IInv
  <1>7. stall' \in Nat
    BY <1>1 DEF IInv, TypeOK
  <1> HIDE DEF done, now
  <1> QED
    BY <1>1, <1>2, <1>6, <1>7, TickIInv

(* Every step of the controller preserves it. *)
LEMMA NextIInv == IInv /\ [Next]_vars => IInv'
  <1> SUFFICES ASSUME IInv, [Next]_vars PROVE IInv'
    OBVIOUS
  <1>1. CASE Access
    BY <1>1, AccessIInv DEF Access
  <1>2. CASE StartWeave \/ EndWeave
    BY <1>2, PhaseIInv
  <1>3. CASE \E e \in Events : enqueue(e)
    BY <1>3, EnqueueIInv
  <1>4. CASE Tick
    BY <1>4, TickCpuOnlyIInv, TickDramIInv DEF Tick
  <1>5. CASE UNCHANGED vars
    BY <1>5 DEF vars, IInv, TypeOK, ClocksInStep, HeldIsSomewhereOnce,
               LatencyNeverWraps
  <1> QED
    BY <1>1, <1>2, <1>3, <1>4, <1>5 DEF Next

(* The inductive invariant holds in every reachable state. *)
THEOREM Invariance == Spec => []IInv
  BY InitIInv, NextIInv, PTL DEF Spec

(* Ramulator's state is well typed; in particular no estimator ever receives *)
(* a sample that is not a natural number.                                    *)
THEOREM TypeCorrect == Spec => []TypeOK
  <1>1. IInv => TypeOK
    BY DEF IInv
  <1> QED
    BY Invariance, <1>1, PTL

(* Ramulator::tick keeps the DRAM model within one DRAM cycle of the CPU.   *)
THEOREM ClocksStayInStep == Spec => []ClocksInStep
  <1>1. IInv => ClocksInStep
    BY DEF IInv
  <1> QED
    BY Invariance, <1>1, PTL

(* enqueue, pushInFlights and the callbacks together neither lose an access *)
(* nor keep one in two places.                                              *)
THEOREM NoAccessLost == Spec => []HeldIsSomewhereOnce
  <1>1. IInv => HeldIsSomewhereOnce
    BY DEF IInv
  <1> QED
    BY Invariance, <1>1, PTL

(* The unsigned latencies of onReadComplete never wrap. *)
THEOREM LatenciesAreSound == Spec => []LatencyNeverWraps
  <1>1. IInv => LatencyNeverWraps
    BY DEF IInv
  <1> QED
    BY Invariance, <1>1, PTL

-----------------------------------------------------------------------------
(* inflightRequests and the DRAM model, kind by kind.  What makes it        *)
(* inductive: a request in the model belongs to an event that has left the  *)
(* vector, so sending a parked event always adds a new request.             *)

Kinds == [addr : Addrs, core : Cores, isWrite : BOOLEAN]

EventsOfKind(k, S) == {e \in S : SameKind(k, acc[e])}
RequestsOfKind(k, S) == {r \in S : SameKind(k, r)}

(* The events of S and the requests of T are equally many, kind by kind. *)
KindsAgree(S, T) ==
    /\ IsFiniteSet(T)
    /\ Cardinality(S) = Cardinality(T)
    /\ \A k \in Kinds : Cardinality(EventsOfKind(k, S))
                          = Cardinality(RequestsOfKind(k, T))

Balanced ==
    /\ KindsAgree(inflight, backend)
    /\ \A q \in backend : q.id \notin notQueued /\ st[q.id] \in {"HELD", "DONE"}

(* The sizes of disjoint finite sets add up. *)
LEMMA DisjointUnionSize ==
    ASSUME NEW A, NEW C, IsFiniteSet(A), IsFiniteSet(C), A \cap C = {}
    PROVE  /\ IsFiniteSet(A \cup C)
           /\ Cardinality(A \cup C) = Cardinality(A) + Cardinality(C)
  <1>1. Cardinality(A) \in Nat /\ Cardinality(C) \in Nat
    BY FS_CardinalityType
  <1>2. /\ IsFiniteSet(A \cup C)
        /\ Cardinality(A \cup C)
             = Cardinality(A) + Cardinality(C) - Cardinality(A \cap C)
    BY FS_Union
  <1>3. Cardinality(A \cap C) = 0
    BY FS_EmptySet
  <1> QED
    BY <1>1, <1>2, <1>3

(* Removing a subset takes its size away. *)
LEMMA SubsetRemovedSize ==
    ASSUME NEW A, NEW C \in SUBSET A, IsFiniteSet(A)
    PROVE  /\ IsFiniteSet(A \ C)
           /\ Cardinality(A \ C) = Cardinality(A) - Cardinality(C)
  <1>1. A \cap C = C
    OBVIOUS
  <1> QED
    BY <1>1, FS_Difference

(* The image of a finite set under a function that is one to one on it is   *)
(* finite and as large.                                                     *)
LEMMA ImageSize ==
    ASSUME NEW S, IsFiniteSet(S), NEW f, \A x, y \in S : x # y => f[x] # f[y]
    PROVE  /\ IsFiniteSet({f[x] : x \in S})
           /\ Cardinality({f[x] : x \in S}) = Cardinality(S)
  <1> DEFINE T == {f[x] : x \in S}
             g == [x \in S |-> f[x]]
  <1>1. g \in Injection(S, T)
    BY DEF Injection, IsInjective
  <1>2. g \in Surjection(S, T)
    BY DEF Surjection
  <1>3. ExistsBijection(S, T)
    BY <1>1, <1>2 DEF ExistsBijection, Bijection
  <1> HIDE DEF T
  <1>4. IsFiniteSet(T) /\ Cardinality(T) = Cardinality(S)
    BY <1>3, FS_Bijection
  <1> QED
    BY <1>4 DEF T

(* Different events make different requests. *)
LEMMA RequestsOfSize ==
    ASSUME NEW S \in SUBSET Events
    PROVE  /\ IsFiniteSet(S) /\ IsFiniteSet(RequestsOf(S))
           /\ Cardinality(RequestsOf(S)) = Cardinality(S)
  <1> DEFINE f == [e \in S |-> getRequestFromAccEvent(e)]
  <1>1. IsFiniteSet(S)
    BY CtrlAssumption, FS_Subset
  <1>2. \A x, y \in S : x # y => f[x] # f[y]
    BY DEF getRequestFromAccEvent
  <1>3. RequestsOf(S) = {f[x] : x \in S}
    BY DEF RequestsOf
  <1> HIDE DEF f
  <1> QED
    BY <1>1, <1>2, <1>3, ImageSize

(* A request is of the kind of the event that made it. *)
LEMMA RequestsOfItsKind ==
    ASSUME NEW k, NEW S
    PROVE  RequestsOfKind(k, RequestsOf(S)) = RequestsOf(EventsOfKind(k, S))
  BY DEF RequestsOfKind, RequestsOf, EventsOfKind, SameKind,
         getRequestFromAccEvent

(* Sending parked events to the model keeps the kinds balanced. *)
LEMMA SendBalanced ==
    ASSUME IInv, Balanced, NEW sent \in SUBSET Events, sent \cap inflight = {},
           \A q \in backend : q.id \notin sent
    PROVE  KindsAgree(inflight \cup sent, backend \cup RequestsOf(sent))
  <1> USE DEF KindsAgree
  <1> DEFINE flying == inflight \cup sent
             sentTo == backend \cup RequestsOf(sent)
  <1>1. inflight \in SUBSET Events /\ IsFiniteSet(inflight) /\ IsFiniteSet(backend)
    BY CtrlAssumption, FS_Subset DEF IInv, TypeOK, Balanced
  <1>2. backend \cap RequestsOf(sent) = {}
    BY DEF RequestsOf, getRequestFromAccEvent
  <1>3. /\ IsFiniteSet(sent) /\ IsFiniteSet(RequestsOf(sent))
        /\ Cardinality(RequestsOf(sent)) = Cardinality(sent)
    BY RequestsOfSize
  <1>4. /\ IsFiniteSet(flying) /\ IsFiniteSet(sentTo)
        /\ Cardinality(flying) = Cardinality(sentTo)
    <2>1. Cardinality(inflight) = Cardinality(backend)
      BY DEF Balanced
    <2>2. /\ IsFiniteSet(flying)
          /\ Cardinality(flying) = Cardinality(inflight) + Cardinality(sent)
      BY <1>1, <1>3, DisjointUnionSize
    <2>3. /\ IsFiniteSet(sentTo)
          /\ Cardinality(sentTo) = Cardinality(backend) + Cardinality(RequestsOf(sent))
      BY <1>1, <1>2, <1>3, DisjointUnionSize
    <2> QED
      BY <1>3, <2>1, <2>2, <2>3
  <1>5. ASSUME NEW k \in Kinds
        PROVE  Cardinality(EventsOfKind(k, flying))
                 = Cardinality(RequestsOfKind(k, sentTo))
    <2> DEFINE A == EventsOfKind(k, inflight)
               B == RequestsOfKind(k, backend)
               C == EventsOfKind(k, sent)
               D == RequestsOf(C)
    <2>1. A \in SUBSET inflight /\ B \in SUBSET backend /\ C \in SUBSET sent
      BY DEF EventsOfKind, RequestsOfKind
    <2>2. D \in SUBSET RequestsOf(sent)
      BY <2>1 DEF RequestsOf
    <2>3. IsFiniteSet(A) /\ IsFiniteSet(B)
      BY <1>1, <2>1, FS_Subset
    <2>4. IsFiniteSet(C) /\ IsFiniteSet(D) /\ Cardinality(C) = Cardinality(D)
      BY <2>1, RequestsOfSize
    <2>5. Cardinality(A) = Cardinality(B)
      BY DEF Balanced
    <2>6. A \cap C = {} /\ B \cap D = {}
      BY <1>2, <2>1, <2>2
    <2>7. EventsOfKind(k, flying) = A \cup C
      BY DEF EventsOfKind
    <2>8. RequestsOfKind(k, sentTo) = B \cup D
      <3>1. RequestsOfKind(k, RequestsOf(sent)) = D
        BY RequestsOfItsKind
      <3> QED
        BY <3>1 DEF RequestsOfKind
    <2> HIDE DEF A, B, C, D
    <2>9. Cardinality(A \cup C) = Cardinality(B \cup D)
      <3>1. Cardinality(A \cup C) = Cardinality(A) + Cardinality(C)
        BY <2>3, <2>4, <2>6, DisjointUnionSize
      <3>2. Cardinality(B \cup D) = Cardinality(B) + Cardinality(D)
        BY <2>3, <2>4, <2>6, DisjointUnionSize
      <3> QED
        BY <3>1, <3>2, <2>4, <2>5
    <2> QED
      BY <2>7, <2>8, <2>9
  <1> QED
    BY <1>4, <1>5

(* Each callback the model makes takes one event of its own kind, so the    *)
(* kinds stay balanced when the completed requests and their events leave.  *)
LEMMA CallbacksBalanced ==
    ASSUME NEW flying \in SUBSET Events, NEW sentTo \in SUBSET Requests,
           KindsAgree(flying, sentTo),
           NEW cb \in SUBSET sentTo, NEW pick,
           \A q \in cb : pick[q] \in Completed(q, flying),
           \A q, r \in cb : q # r => pick[q] # pick[r]
    PROVE  KindsAgree(flying \ {pick[q] : q \in cb}, sentTo \ cb)
  <1> USE DEF KindsAgree
  <1> DEFINE done == {pick[q] : q \in cb}
  <1>1. IsFiniteSet(flying) /\ IsFiniteSet(cb)
    BY CtrlAssumption, FS_Subset
  <1>2. \A q \in cb : pick[q] \in flying /\ SameKind(q, acc[pick[q]])
    <2> SUFFICES ASSUME NEW q \in cb
                 PROVE  pick[q] \in flying /\ SameKind(q, acc[pick[q]])
      OBVIOUS
    <2> DEFINE k == [addr |-> q.addr, core |-> q.core, isWrite |-> q.isWrite]
               B == RequestsOfKind(k, sentTo)
               A == EventsOfKind(k, flying)
    <2>1. k \in Kinds
      BY DEF Kinds, Requests
    <2>2. q \in B
      BY DEF RequestsOfKind, SameKind
    <2>3. IsFiniteSet(A) /\ IsFiniteSet(B)
      <3>1. A \in SUBSET flying /\ B \in SUBSET sentTo
        BY DEF EventsOfKind, RequestsOfKind
      <3> QED
        BY <1>1, <3>1, FS_Subset
    <2>4. Cardinality(A) = Cardinality(B)
      BY <2>1
    <2>5. A # {}
      <3> HIDE DEF A, B
      <3>1. Cardinality(B) # 0
        BY <2>2, <2>3, FS_EmptySet
      <3> QED
        BY <2>3, <2>4, <3>1, FS_EmptySet
    <2>6. A = Matches(q, flying)
      BY DEF EventsOfKind, Matches, SameKind
    <2>7. pick[q] \in Matches(q, flying)
      BY <2>5, <2>6 DEF Completed
    <2> QED
      BY <2>7 DEF Matches, SameKind
  <1>3. done \in SUBSET flying
    BY <1>2
  <1>4. IsFiniteSet(done) /\ Cardinality(done) = Cardinality(cb)
    BY <1>1, ImageSize
  <1>5. IsFiniteSet(sentTo \ cb) /\ Cardinality(flying \ done) = Cardinality(sentTo \ cb)
    <2> HIDE DEF done
    <2>1. Cardinality(flying \ done) = Cardinality(flying) - Cardinality(done)
      BY <1>1, <1>3, SubsetRemovedSize
    <2>2. /\ IsFiniteSet(sentTo \ cb)
          /\ Cardinality(sentTo \ cb) = Cardinality(sentTo) - Cardinality(cb)
      BY SubsetRemovedSize
    <2> QED
      BY <1>4, <2>1, <2>2
  <1>6. ASSUME NEW k \in Kinds
        PROVE  Cardinality(EventsOfKind(k, flying \ done))
                 = Cardinality(RequestsOfKind(k, sentTo \ cb))
    <2> DEFINE A == EventsOfKind(k, flying)
               B == RequestsOfKind(k, sentTo)
               D == RequestsOfKind(k, cb)
               C == {pick[q] : q \in D}
    <2>1. A \in SUBSET flying /\ B \in SUBSET sentTo /\ D \in SUBSET cb /\ D \in SUBSET B
      BY DEF EventsOfKind, RequestsOfKind
    <2>2. IsFiniteSet(A) /\ IsFiniteSet(B) /\ IsFiniteSet(D)
      BY <1>1, <2>1, FS_Subset
    <2>3. Cardinality(A) = Cardinality(B)
      OBVIOUS
    <2>4. Cardinality(C) = Cardinality(D)
      BY <2>1, <2>2, ImageSize
    <2>5. C \in SUBSET A
      BY <1>2 DEF EventsOfKind, RequestsOfKind, SameKind
    <2>6. EventsOfKind(k, flying \ done) = A \ C
      BY <1>2 DEF EventsOfKind, RequestsOfKind, SameKind
    <2>7. RequestsOfKind(k, sentTo \ cb) = B \ D
      BY DEF RequestsOfKind
    <2> HIDE DEF A, B, C, D
    <2>8. Cardinality(A \ C) = Cardinality(A) - Cardinality(C)
      BY <2>2, <2>5, SubsetRemovedSize
    <2>9. Cardinality(B \ D) = Cardinality(B) - Cardinality(D)
      BY <2>1, <2>2, SubsetRemovedSize
    <2> QED
      BY <2>3, <2>4, <2>6, <2>7, <2>8, <2>9
  <1> QED
    BY <1>5, <1>6

(* What is left to show of a step once the sizes are known: it keeps the    *)
(* kinds of the events in flight.                                           *)
LEMMA BalancedNext ==
    ASSUME KindsAgree(inflight', backend'),
           \A e \in inflight' : SameKind(acc[e], acc'[e]),
           \A q \in backend' : q.id \notin notQueued' /\ st'[q.id] \in {"HELD", "DONE"}
    PROVE  Balanced'
  <1>1. \A k \in Kinds : EventsOfKind(k, inflight)' = EventsOfKind(k, inflight')
    BY DEF EventsOfKind, SameKind
  <1>2. \A k \in Kinds : RequestsOfKind(k, backend)' = RequestsOfKind(k, backend')
    BY DEF RequestsOfKind, SameKind
  <1> QED
    BY <1>1, <1>2 DEF Balanced, KindsAgree

(* access does not touch what is in flight. *)
LEMMA AccessBalanced ==
    ASSUME IInv, Balanced, NEW c \in Cores, NEW a \in Addrs, NEW type, NEW cycle,
           access(c, a, type, cycle)
    PROVE  Balanced'
  <1>1. inflight' = inflight /\ backend' = backend /\ notQueued' = notQueued
    BY DEF access
  <1>2. \A e \in Events : st[e] # "FREE" => st'[e] = st[e] /\ acc'[e] = acc[e]
    BY DEF access, IInv, TypeOK
  <1>3. \A e \in inflight : SameKind(acc[e], acc'[e])
    BY <1>2 DEF IInv, TypeOK, HeldIsSomewhereOnce, SameKind
  <1>4. \A q \in backend : q.id \in Events /\ st'[q.id] \in {"HELD", "DONE"}
    BY <1>2 DEF IInv, TypeOK, Requests, Balanced
  <1> QED
    BY <1>1, <1>3, <1>4, BalancedNext DEF Balanced

(* enqueue sends a request for an event the model has not seen. *)
LEMMA EnqueueBalanced ==
    ASSUME IInv, Balanced, NEW e \in Events, enqueue(e)
    PROVE  Balanced'
  <1>1. st[e] = "QUEUED" /\ e \notin inflight /\ e \notin notQueued
    BY DEF enqueue, IInv, HeldIsSomewhereOnce
  <1>2. \A q \in backend : q.id \in Events \ {e}
    BY <1>1 DEF Balanced, IInv, TypeOK, Requests
  <1>3. \A f \in Events : SameKind(acc[f], acc'[f])
    BY DEF enqueue, IInv, TypeOK, AccRecords, SameKind
  <1>4. \A f \in Events : st'[f] = IF f = e THEN "HELD" ELSE st[f]
    BY DEF enqueue, IInv, TypeOK
  <1>5. inflight \subseteq Events
    BY DEF IInv, TypeOK
  <1>6. CASE UNCHANGED <<inflight, backend>> /\ notQueued' = notQueued \cup {e}
    <2>1. \A q \in backend' : q.id \notin notQueued' /\ st'[q.id] \in {"HELD", "DONE"}
      BY <1>2, <1>4, <1>6 DEF Balanced
    <2>2. \A f \in inflight' : SameKind(acc[f], acc'[f])
      BY <1>3, <1>5, <1>6
    <2> QED
      BY <1>6, <2>1, <2>2, BalancedNext DEF Balanced
  <1>7. CASE /\ backend' = backend \cup {getRequestFromAccEvent(e)}
             /\ inflight' = inflight \cup {e}
             /\ UNCHANGED notQueued
    <2>1. RequestsOf({e}) = {getRequestFromAccEvent(e)}
      BY DEF RequestsOf
    <2>2. {e} \cap inflight = {} /\ \A q \in backend : q.id \notin {e}
      BY <1>1, <1>2
    <2>3. KindsAgree(inflight', backend')
      BY <1>7, <2>1, <2>2, SendBalanced
    <2>4. \A q \in backend' : q.id \notin notQueued' /\ st'[q.id] \in {"HELD", "DONE"}
      BY <1>1, <1>2, <1>4, <1>7 DEF Balanced, getRequestFromAccEvent
    <2>5. \A f \in inflight' : SameKind(acc[f], acc'[f])
      BY <1>3, <1>5, <1>7
    <2> QED
      BY <2>3, <2>4, <2>5, BalancedNext
  <1> QED
    BY <1>6, <1>7 DEF enqueue

(* A tick sends parked events and completes the requests cb. *)
LEMMA TickBalanced ==
    ASSUME IInv, Balanced, NEW sent, TickStart(sent),
           NEW cb \in SUBSET (backend \cup RequestsOf(sent)), NEW pick,
           \A q \in cb : pick[q] \in Completed(q, inflight \cup sent),
           \A q, r \in cb : q # r => pick[q] # pick[r],
           NEW done, done = {pick[q] : q \in cb},
           st' = [e \in Events |-> IF e \in done THEN "DONE" ELSE st[e]],
           acc' = AccAfterTick(sent, done),
           inflight' = (inflight \cup sent) \ done,
           backend' = (backend \cup RequestsOf(sent)) \ cb
    PROVE  Balanced'
  <1> DEFINE flying == inflight \cup sent
             sentTo == backend \cup RequestsOf(sent)
  <1>1. sent \subseteq notQueued /\ notQueued' = notQueued \ sent
    BY TriedParked DEF TickStart, StillParked
  <1>2. sent \in SUBSET Events /\ flying \in SUBSET Events
    BY <1>1 DEF IInv, TypeOK
  <1>3. sent \cap inflight = {} /\ \A q \in backend : q.id \notin sent
    BY <1>1 DEF IInv, HeldIsSomewhereOnce, Balanced
  <1>4. KindsAgree(flying, sentTo)
    BY <1>2, <1>3, SendBalanced
  <1>5. sentTo \in SUBSET Requests
    BY <1>2, RequestsOfType DEF IInv, TypeOK
  <1>6. KindsAgree(inflight', backend')
    <2> HIDE DEF flying, sentTo
    <2>1. cb \in SUBSET sentTo /\ \A q \in cb : pick[q] \in Completed(q, flying)
      BY DEF flying, sentTo
    <2>2. KindsAgree(flying \ {pick[q] : q \in cb}, sentTo \ cb)
      BY <1>2, <1>4, <1>5, <2>1, CallbacksBalanced
    <2> QED
      BY <2>2 DEF flying, sentTo
  <1>7. \A f \in inflight' : SameKind(acc[f], acc'[f])
    BY <1>2 DEF AccAfterTick, IInv, TypeOK, AccRecords, SameKind
  <1>8. \A q \in sentTo : /\ q.id \in Events
                          /\ q.id \notin notQueued \ sent
                          /\ st[q.id] \in {"HELD", "DONE"}
    <2>1. \A q \in backend : q.id \in Events
      BY DEF IInv, TypeOK, Requests
    <2>2. \A q \in RequestsOf(sent) : q.id \in sent
      BY DEF RequestsOf, getRequestFromAccEvent
    <2>3. \A e \in sent : st[e] = "HELD"
      BY <1>1 DEF IInv, HeldIsSomewhereOnce
    <2> QED
      BY <1>2, <2>1, <2>2, <2>3 DEF Balanced
  <1>9. \A q \in backend' : q.id \notin notQueued' /\ st'[q.id] \in {"HELD", "DONE"}
    BY <1>1, <1>8
  <1> QED
    BY <1>6, <1>7, <1>9, BalancedNext

(* Every step of the controller keeps the kinds balanced. *)
LEMMA NextBalanced == IInv /\ Balanced /\ [Next]_vars => Balanced'
  <1> SUFFICES ASSUME IInv, Balanced, [Next]_vars PROVE Balanced'
    OBVIOUS
  <1>1. CASE Access
    BY <1>1, AccessBalanced DEF Access
  <1>2. CASE StartWeave \/ EndWeave
    BY <1>2 DEF StartWeave, EndWeave, Balanced, KindsAgree, EventsOfKind, RequestsOfKind
  <1>3. CASE \E e \in Events : enqueue(e)
    BY <1>3, EnqueueBalanced
  <1>4. ASSUME NEW sent, TickCpuOnly(sent)
        PROVE  Balanced'
    <2> DEFINE pick == [q \in {} |-> 0]
    <2>1. {} = {pick[q] : q \in {}}
      OBVIOUS
    <2>2. st' = [e \in Events |-> IF e \in {} THEN "DONE" ELSE st[e]]
      BY <1>4 DEF TickCpuOnly, IInv, TypeOK
    <2>3. /\ TickStart(sent)
          /\ acc' = AccAfterTick(sent, {})
          /\ inflight' = (inflight \cup sent) \ {}
          /\ backend' = (backend \cup RequestsOf(sent)) \ {}
      BY <1>4 DEF TickCpuOnly
    <2> HIDE DEF pick
    <2> QED
      BY <2>1, <2>2, <2>3, TickBalanced
  <1>5. ASSUME NEW sent, NEW cb \in SUBSET (backend \cup RequestsOf(sent)), NEW pick,
               TickDram(sent, cb, pick)
        PROVE  Balanced'
    <2> DEFINE done == {pick[q] : q \in cb}
    <2>1. /\ TickStart(sent)
          /\ \A q \in cb : pick[q] \in Completed(q, inflight \cup sent)
          /\ \A q, r \in cb : q # r => pick[q] # pick[r]
          /\ st' = [e \in Events |-> IF e \in done THEN "DONE" ELSE st[e]]
          /\ acc' = AccAfterTick(sent, done)
          /\ inflight' = (inflight \cup sent) \ done
          /\ backend' = (backend \cup RequestsOf(sent)) \ cb
      BY <1>5 DEF TickDram
    <2>2. done = {pick[q] : q \in cb}
      OBVIOUS
    <2> HIDE DEF done
    <2> QED
      BY <2>1, <2>2, TickBalanced
  <1>6. CASE UNCHANGED vars
    BY <1>6 DEF vars, Balanced, KindsAgree, EventsOfKind, RequestsOfKind
  <1> QED
    BY <1>1, <1>2, <1>3, <1>4, <1>5, <1>6 DEF Next, Tick, Completions

(* A balanced controller answers every callback with an event of its kind. *)
LEMMA BalancedImplies == IInv /\ Balanced => CallbacksExact
  <1> SUFFICES ASSUME IInv, Balanced PROVE CallbacksExact
    OBVIOUS
  <1> USE DEF KindsAgree
  <1>1. ASSUME NEW q \in backend
        PROVE  LET A == {e \in inflight : SameKind(q, acc[e])}
                   B == {r \in backend : SameKind(q, r)}
               IN  Cardinality(A) = Cardinality(B) /\ A # {}
    <2> DEFINE k == [addr |-> q.addr, core |-> q.core, isWrite |-> q.isWrite]
               A == {e \in inflight : SameKind(q, acc[e])}
               B == {r \in backend : SameKind(q, r)}
    <2>1. k \in Kinds
      BY DEF Kinds, Requests, IInv, TypeOK
    <2>2. A = EventsOfKind(k, inflight) /\ B = RequestsOfKind(k, backend)
      BY DEF EventsOfKind, RequestsOfKind, SameKind
    <2>3. q \in B
      BY DEF SameKind
    <2>4. IsFiniteSet(A) /\ IsFiniteSet(B)
      <3>1. A \in SUBSET Events /\ B \in SUBSET backend
        BY DEF IInv, TypeOK
      <3> QED
        BY <3>1, CtrlAssumption, FS_Subset DEF Balanced
    <2>5. Cardinality(A) = Cardinality(B)
      BY <2>1, <2>2 DEF Balanced
    <2> HIDE DEF A, B
    <2>6. Cardinality(B) # 0
      BY <2>3, <2>4, FS_EmptySet
    <2>7. A # {}
      BY <2>4, <2>5, <2>6, FS_EmptySet
    <2> QED
      BY <2>5, <2>7 DEF A, B
  <1>2. InflightMatchesBackend
    BY <1>1 DEF InflightMatchesBackend, Balanced
  <1>3. CallbackFindsItsEvent
    BY <1>1 DEF CallbackFindsItsEvent
  <1> QED
    BY <1>2, <1>3 DEF CallbacksExact, IInv

(* inflightRequests and the DRAM model agree on every address, core and     *)
(* type, so every callback of onReadComplete and onWriteComplete finds an    *)
(* event of its own: the end of an address's range is never taken for one    *)
(* and the panic is never reached.                                          *)
THEOREM CallbacksAreExact == Spec => []CallbacksExact
  <1>1. Init => Balanced
    BY FS_EmptySet DEF Init, Balanced, KindsAgree, EventsOfKind, RequestsOfKind
  <1>2. (IInv /\ Balanced) /\ [Next]_vars => (IInv /\ Balanced)'
    BY NextIInv, NextBalanced
  <1>3. Init => IInv
    BY InitIInv
  <1> QED
    BY <1>1, <1>2, <1>3, BalancedImplies, PTL DEF Spec

-----------------------------------------------------------------------------
(* One estimate per core and bound phase.  An event keeps the number of the  *)
(* phase it was recorded in; while that phase still runs, the latency it was *)
(* charged is what its core's estimator says now.                            *)

Charged(e) == st[e] \in {"QUEUED", "HELD"}

EstimateStands ==
    \A e \in Events : Charged(e) =>
       /\ acc[e].phaseNum <= phaseNum
       /\ phase = "weave" => acc[e].phaseNum < phaseNum
       /\ acc[e].phaseNum = phaseNum =>
             /\ isBoundPhase
             /\ acc[e].boundLatency = EstLatency(est[acc[e].core])

(* What a step of the weave phase has to keep: it charges no new event,      *)
(* changes no charge, and all charges are of earlier phases.                 *)
LEMMA WeaveKeepsEstimates ==
    ASSUME IInv, EstimateStands, OneEstimatePerPhase,
           phase = "weave", phase' = phase, phaseNum' = phaseNum,
           \A e \in Events : Charged(e)' =>
              /\ Charged(e)
              /\ acc'[e].core = acc[e].core
              /\ acc'[e].phaseNum = acc[e].phaseNum
              /\ acc'[e].boundLatency = acc[e].boundLatency
    PROVE  EstimateStands' /\ OneEstimatePerPhase'
  <1>1. phaseNum \in Nat /\ \A e \in Events : acc[e].phaseNum \in Nat
    BY DEF IInv, TypeOK, AccRecords
  <1>2. EstimateStands'
    BY <1>1 DEF EstimateStands
  <1>3. OneEstimatePerPhase'
    BY DEF OneEstimatePerPhase, Charged
  <1> QED
    BY <1>2, <1>3

(* access charges what the estimators say after its reset, which happens     *)
(* only when no event of this phase has been charged yet.                    *)
LEMMA AccessKeepsEstimates ==
    ASSUME IInv, EstimateStands, OneEstimatePerPhase,
           NEW c \in Cores, NEW a \in Addrs, NEW type, NEW cycle,
           access(c, a, type, cycle)
    PROVE  EstimateStands' /\ OneEstimatePerPhase'
  <1>1. phaseNum \in Nat /\ \A e \in Events : acc[e].phaseNum \in Nat
    BY DEF IInv, TypeOK, AccRecords
  <1>2. /\ phase = "bound" /\ phase' = "bound" /\ phaseNum' = phaseNum
        /\ est' = EstAtAccess /\ isBoundPhase'
    BY DEF access
  <1>3. \A e \in Events : Charged(e) /\ acc[e].phaseNum = phaseNum
                            => acc[e].boundLatency = EstLatency(est'[acc[e].core])
    BY <1>2 DEF EstimateStands, EstAtAccess
  <1>4. CASE UNCHANGED <<st, acc>>
    <2>1. \A e \in Events : Charged(e)' = Charged(e)
      BY <1>4 DEF Charged
    <2>2. EstimateStands'
      BY <1>1, <1>2, <1>3, <1>4, <2>1 DEF EstimateStands
    <2>3. OneEstimatePerPhase'
      BY <1>4 DEF OneEstimatePerPhase
    <2> QED
      BY <2>2, <2>3
  <1>5. ASSUME NEW e \in Events, NEW skew \in 0..MaxSkew, st[e] = "FREE",
               st' = [st EXCEPT ![e] = "QUEUED"],
               acc' = [acc EXCEPT ![e] =
                     [core |-> c, addr |-> a, isWrite |-> type = "PUTX",
                      sCycle |-> cycle - 1 + skew, order |-> 0, issueCycle |-> 0,
                      boundLatency |-> EstLatency(EstAtAccess[c]),
                      phaseNum |-> phaseNum]]
        PROVE  EstimateStands' /\ OneEstimatePerPhase'
    <2>1. /\ acc'[e].core = c /\ acc'[e].phaseNum = phaseNum
          /\ acc'[e].boundLatency = EstLatency(est'[c])
      BY <1>2, <1>5 DEF IInv, TypeOK
    <2>2. \A f \in Events : f # e => acc'[f] = acc[f] /\ Charged(f)' = Charged(f)
      BY <1>5 DEF IInv, TypeOK, Charged
    <2>3. EstimateStands'
      BY <1>1, <1>2, <1>3, <2>1, <2>2 DEF EstimateStands
    <2>4. ASSUME NEW f \in Events, NEW g \in Events, Charged(f)', Charged(g)',
                 acc'[f].core = acc'[g].core,
                 acc'[f].phaseNum = acc'[g].phaseNum
          PROVE  acc'[f].boundLatency = acc'[g].boundLatency
      <3>1. CASE f # e /\ g # e
        BY <2>2, <2>4, <3>1 DEF OneEstimatePerPhase, Charged
      <3>2. CASE f = e \/ g = e
        BY <1>2, <2>1, <2>3, <2>4, <3>2 DEF EstimateStands
      <3> QED
        BY <3>1, <3>2
    <2>5. OneEstimatePerPhase'
      BY <2>4 DEF OneEstimatePerPhase, Charged
    <2> QED
      BY <2>3, <2>5
  <1> QED
    BY <1>4, <1>5 DEF access

(* Every step keeps one estimate per core and phase. *)
LEMMA NextKeepsEstimates ==
    ASSUME IInv, EstimateStands, OneEstimatePerPhase, [Next]_vars
    PROVE  EstimateStands' /\ OneEstimatePerPhase'
  <1>1. CASE Access
    BY <1>1, AccessKeepsEstimates DEF Access
  <1>2. CASE StartWeave \/ EndWeave
    <2>1. /\ UNCHANGED <<st, acc, est, isBoundPhase>>
          /\ \/ phaseNum' = phaseNum + 1
             \/ phaseNum' = phaseNum /\ phase = "weave"
      BY <1>2 DEF StartWeave, EndWeave
    <2>2. phaseNum \in Nat /\ \A e \in Events : acc[e].phaseNum \in Nat
      BY DEF IInv, TypeOK, AccRecords
    <2>3. \A e \in Events : Charged(e)' => acc[e].phaseNum < phaseNum'
      BY <2>1, <2>2 DEF EstimateStands, Charged
    <2>4. EstimateStands'
      BY <2>1, <2>2, <2>3 DEF EstimateStands
    <2>5. OneEstimatePerPhase'
      BY <2>1 DEF OneEstimatePerPhase
    <2> QED
      BY <2>4, <2>5
  <1>3. ASSUME NEW e \in Events, enqueue(e)
        PROVE  EstimateStands' /\ OneEstimatePerPhase'
    <2>1. phase = "weave" /\ phase' = phase /\ phaseNum' = phaseNum
      BY <1>3 DEF enqueue
    <2>2. \A f \in Events : /\ Charged(f)' => Charged(f)
                            /\ acc'[f].core = acc[f].core
                            /\ acc'[f].phaseNum = acc[f].phaseNum
                            /\ acc'[f].boundLatency = acc[f].boundLatency
      BY <1>3 DEF enqueue, Charged, IInv, TypeOK, AccRecords
    <2> QED
      BY <2>1, <2>2, WeaveKeepsEstimates
  <1>4. ASSUME NEW sent, NEW done, TickStart(sent), acc' = AccAfterTick(sent, done),
               st' = [e \in Events |-> IF e \in done THEN "DONE" ELSE st[e]]
        PROVE  EstimateStands' /\ OneEstimatePerPhase'
    <2>1. phase = "weave" /\ phase' = phase /\ phaseNum' = phaseNum
      BY <1>4 DEF TickStart
    <2>2. \A f \in Events : Charged(f)' => /\ Charged(f)
                                           /\ acc'[f].core = acc[f].core
                                           /\ acc'[f].phaseNum = acc[f].phaseNum
                                           /\ acc'[f].boundLatency = acc[f].boundLatency
      BY <1>4 DEF AccAfterTick, Charged, IInv, TypeOK, AccRecords
    <2> QED
      BY <2>1, <2>2, WeaveKeepsEstimates
  <1>5. CASE Tick
    <2>1. ASSUME NEW sent, TickCpuOnly(sent)
          PROVE  EstimateStands' /\ OneEstimatePerPhase'
      <3>1. st' = [e \in Events |-> IF e \in {} THEN "DONE" ELSE st[e]]
        BY <2>1 DEF TickCpuOnly, IInv, TypeOK
      <3> QED
        BY <1>4, <2>1, <3>1 DEF TickCpuOnly
    <2>2. ASSUME NEW sent, NEW cb, NEW pick, TickDram(sent, cb, pick)
          PROVE  EstimateStands' /\ OneEstimatePerPhase'
      BY <1>4, <2>2 DEF TickDram
    <2> QED
      BY <1>5, <2>1, <2>2 DEF Tick
  <1>6. CASE UNCHANGED vars
    BY <1>6 DEF vars, EstimateStands, OneEstimatePerPhase, Charged
  <1> QED
    BY <1>1, <1>2, <1>3, <1>5, <1>6 DEF Next

(* However accesses, resets and completions interleave, all the accesses of *)
(* a core in one bound phase are charged the same latency.                  *)
THEOREM EstimatesAgree == Spec => []OneEstimatePerPhase
  <1> DEFINE Inv == IInv /\ EstimateStands /\ OneEstimatePerPhase
  <1>1. Init => Inv
    BY InitIInv DEF Init, EstimateStands, OneEstimatePerPhase, Charged
  <1>2. Inv /\ [Next]_vars => Inv'
    BY NextIInv, NextKeepsEstimates
  <1>3. Inv => OneEstimatePerPhase
    OBVIOUS
  <1> QED
    BY <1>1, <1>2, <1>3, PTL DEF Spec

=============================================================================
