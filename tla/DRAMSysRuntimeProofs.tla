------------------------ MODULE DRAMSysRuntimeProofs ------------------------
(***************************************************************************)
(* The DRAMSys barrier, for any number of controllers spread in any way     *)
(* over the weave threads and for any pair of clock periods.                *)
(***************************************************************************)
EXTENDS DRAMSysRuntime, FiniteSetTheorems, TLAPS

(* Counting one more tick adds one more period. *)
LEMMA PeriodPlusOne ==
    ASSUME NEW p \in Nat, NEW n \in Nat
    PROVE  p * (n + 1) = p * n + p /\ p * n \in Int
  OBVIOUS

(* The initial clock is in step. *)
LEMMA ClockInitInStep ==
    ClockInit \in Clocks /\ InStep(ClockInit)
  <1>1. DramPsPerClk * 0 = 0 /\ CpuPsPerClk * 0 = 0
    BY PeriodAssumption
  <1> QED
    BY <1>1, PeriodAssumption DEF ClockInit, Clocks, InStep, DramLead

(* A CPU cycle is counted, whether or not it ticks the DRAM. *)
LEMMA ClockAdvanceCounts ==
    ASSUME NEW c \in Clocks
    PROVE  /\ ClockAdvance(c) \in Clocks
           /\ ClockAdvance(c).curCycle = c.curCycle + 1
  BY PeriodAssumption DEF ClockAdvance, DramTickDue, Clocks

(* A CPU cycle keeps the two sides in step: the tick that becomes due adds   *)
(* one DRAM period to a lead that had become negative by less than one, and  *)
(* the reset on a tie leaves the difference of the accumulators alone.       *)
LEMMA ClockAdvanceInStep ==
    ASSUME NEW c \in Clocks, InStep(c)
    PROVE  InStep(ClockAdvance(c))
  <1> DEFINE n == ClockAdvance(c)
             due == DramTickDue(c)
  <1>1. /\ c.curCycle \in Nat /\ c.dramCycle \in Nat
        /\ c.cpuPs \in Nat /\ c.dramPs \in Nat
    BY DEF Clocks
  <1>2. CpuPsPerClk * n.curCycle = CpuPsPerClk * c.curCycle + CpuPsPerClk
    <2>1. n.curCycle = c.curCycle + 1
      BY DEF ClockAdvance
    <2> QED
      BY <1>1, <2>1, PeriodPlusOne, PeriodAssumption
  <1>3. DramPsPerClk * n.dramCycle
          = DramPsPerClk * c.dramCycle + (IF due THEN DramPsPerClk ELSE 0)
    <2>1. n.dramCycle = IF due THEN c.dramCycle + 1 ELSE c.dramCycle
      BY DEF ClockAdvance
    <2>2. DramPsPerClk * (c.dramCycle + 1) = DramPsPerClk * c.dramCycle + DramPsPerClk
      BY <1>1, PeriodPlusOne, PeriodAssumption
    <2>3. DramPsPerClk * c.dramCycle \in Int
      BY <1>1, PeriodPlusOne, PeriodAssumption
    <2> QED
      BY <2>1, <2>2, <2>3, PeriodAssumption
  <1>4. n.dramPs - n.cpuPs
          = c.dramPs - c.cpuPs - CpuPsPerClk + (IF due THEN DramPsPerClk ELSE 0)
    BY <1>1, PeriodAssumption DEF ClockAdvance
  <1>5. due <=> c.dramPs - c.cpuPs < CpuPsPerClk
    BY <1>1, PeriodAssumption DEF DramTickDue
  <1>6. /\ CpuPsPerClk * c.curCycle \in Int
        /\ DramPsPerClk * c.dramCycle \in Int
    BY <1>1, PeriodPlusOne, PeriodAssumption
  <1> QED
    BY <1>1, <1>2, <1>3, <1>4, <1>5, <1>6, PeriodAssumption DEF InStep, DramLead
-----------------------------------------------------------------------------
(* A controller is never marked ready for an epoch that has not begun. *)
EpochsBegun == \A k \in Ctrls : cpuReadyEpoch[k] <= cpuEpoch

IInv == /\ TypeOK
        /\ OneLeader
        /\ BackendOncePerDramCycle
        /\ SharedClocksInStep
        /\ NobodyLeftBehind
        /\ EpochsBegun

Ready == {k \in Ctrls : cpuReadyEpoch[k] = cpuEpoch}

(* Counting one more ready controller. *)
LEMMA OneMoreReady ==
    ASSUME TypeOK, NEW k \in Ctrls, k \notin Ready,
           cpuReadyCount = Cardinality(Ready)
    PROVE  /\ Cardinality(Ready \cup {k}) = cpuReadyCount + 1
           /\ LastArrival => Ready \cup {k} = Ctrls
  <1>1. IsFiniteSet(Ctrls) /\ Ready \subseteq Ctrls
    BY RuntimeAssumption DEF Ready
  <1>2. IsFiniteSet(Ready)
    BY <1>1, FS_Subset
  <1>3. Cardinality(Ready \cup {k}) = Cardinality(Ready) + 1
    BY <1>2, FS_AddElement
  <1>4. ASSUME LastArrival PROVE Ready \cup {k} = Ctrls
    <2>1. Ready \cup {k} \subseteq Ctrls
      BY <1>1
    <2>2. Cardinality(Ready \cup {k}) = Cardinality(Ctrls)
      BY <1>3, <1>4 DEF LastArrival
    <2> QED
      BY <1>1, <2>1, <2>2, FS_Subset
  <1> QED
    BY <1>3, <1>4

(* A controller that calls for the current cycle has not reported it, and   *)
(* one that calls at all is not behind.                                     *)
LEMMA CallerIsNext ==
    ASSUME TypeOK, NobodyLeftBehind, NEW k \in Ctrls, pc[k] = "called"
    PROVE  /\ cycle[k] >= clk.curCycle
           /\ cycle[k] = clk.curCycle => k \notin Ready
  <1>1. Reports(k) = cycle[k]
    BY DEF Reports
  <1>2. clk.curCycle \in Nat /\ cycle[k] \in Nat
    BY DEF TypeOK, Clocks
  <1> QED
    BY <1>1, <1>2 DEF NobodyLeftBehind, Ready

(* With every controller idle, nobody ready and both clocks at zero, the     *)
(* invariant holds.                                                          *)
LEMMA InitIInv == Init => IInv
  <1> SUFFICES ASSUME Init PROVE IInv
    OBVIOUS
  <1>1. TypeOK
    BY ClockInitInStep DEF Init, TypeOK
  <1>2. OneLeader
    BY DEF Init, OneLeader, Leading
  <1>3. BackendOncePerDramCycle
    BY DEF Init, BackendOncePerDramCycle, ClockInit
  <1>4. SharedClocksInStep
    BY ClockInitInStep, PeriodAssumption DEF Init, SharedClocksInStep, InStep, ClockInit,
       DramLead
  <1>5. NobodyLeftBehind
    <2>1. {k \in Ctrls : cpuReadyEpoch[k] = cpuEpoch} = {}
      BY DEF Init
    <2> QED
      BY <2>1, FS_EmptySet DEF Init, NobodyLeftBehind, Reports, ClockInit
  <1>6. EpochsBegun
    BY DEF Init, EpochsBegun
  <1> QED
    BY <1>1, <1>2, <1>3, <1>4, <1>5, <1>6 DEF IInv

(* Starting a tick touches nothing but the controller's own position. *)
LEMMA StartTickIInv ==
    ASSUME IInv, NEW k \in Ctrls, StartTick(k)
    PROVE  IInv'
  <1> USE DEF IInv, StartTick, runtimeVars
  <1>1. TypeOK'
    BY DEF TypeOK
  <1>2. OneLeader'
    BY DEF TypeOK, OneLeader, Leading
  <1>3. BackendOncePerDramCycle'
    BY DEF TypeOK, BackendOncePerDramCycle
  <1>4. SharedClocksInStep'
    BY DEF SharedClocksInStep, DramLead
  <1>5. \A j \in Ctrls : Reports(j)' = Reports(j)
    BY DEF TypeOK, Reports
  <1>6. NobodyLeftBehind'
    BY <1>5 DEF NobodyLeftBehind
  <1>7. EpochsBegun'
    BY DEF EpochsBegun
  <1> QED
    BY <1>1, <1>2, <1>3, <1>4, <1>6, <1>7

(* An arrival that does not complete the barrier. *)
LEMMA ArrivalIInv ==
    ASSUME IInv, NEW k \in Ctrls, onControllerTick(k),
           cycle[k] = clk.curCycle, ~LastArrival
    PROVE  IInv'
  <1> USE DEF IInv
  <1>0. /\ pc[k] = "called" /\ k \notin Ready /\ ~AlreadyReady(k)
        /\ clk.curCycle \in Nat /\ cycle[k] \in Nat /\ cpuEpoch \in Nat
    BY CallerIsNext DEF onControllerTick, AlreadyReady, Ready, TypeOK, Clocks
  <1>1. /\ cpuReadyEpoch' = [cpuReadyEpoch EXCEPT ![k] = cpuEpoch]
        /\ cpuReadyCount' = cpuReadyCount + 1
        /\ Return(k)
        /\ UNCHANGED <<clk, cpuEpoch, dramTickPending, dramTickLeader,
                       backendCycles, rejected>>
    BY <1>0 DEF onControllerTick
  <1>2. TypeOK'
    BY <1>0, <1>1 DEF TypeOK, Return
  <1>3. OneLeader'
    BY <1>0, <1>1 DEF TypeOK, OneLeader, Leading, Return
  <1>4. BackendOncePerDramCycle'
    BY <1>0, <1>1 DEF TypeOK, BackendOncePerDramCycle, Return
  <1>5. SharedClocksInStep'
    BY <1>1 DEF SharedClocksInStep, DramLead
  <1>6. NobodyLeftBehind'
    <2>1. Reports(k)' = clk.curCycle + 1
      BY <1>0, <1>1 DEF TypeOK, Reports, Return
    <2>2. \A j \in Ctrls \ {k} : Reports(j)' = Reports(j)
      BY <1>1 DEF TypeOK, Reports, Return
    <2>3. Ready' = Ready \cup {k}
      BY <1>1 DEF Ready, TypeOK
    <2>4. cpuReadyCount' = Cardinality(Ready')
      BY <1>0, <1>1, <2>3, OneMoreReady DEF NobodyLeftBehind, Ready
    <2> QED
      BY <1>0, <1>1, <2>1, <2>2, <2>3, <2>4 DEF NobodyLeftBehind, Ready
  <1>7. EpochsBegun'
    BY <1>0, <1>1 DEF EpochsBegun, TypeOK
  <1> QED
    BY <1>2, <1>3, <1>4, <1>5, <1>6, <1>7

(* The clocks after the CPU side has moved: the difference of the            *)
(* accumulators and the lead both drop by one CPU period.                    *)
LEMMA CpuCycleDoneLead ==
    ASSUME clk \in Clocks
    PROVE  /\ CpuCycleDone \in Clocks
           /\ DramLead(CpuCycleDone) = DramLead(clk) - CpuPsPerClk
           /\ DramLead(clk) \in Int
           /\ CpuCycleDone.curCycle = clk.curCycle + 1
           /\ CpuCycleDone.dramCycle = clk.dramCycle
           /\ CpuCycleDone.cpuPs = clk.cpuPs + CpuPsPerClk
           /\ CpuCycleDone.dramPs = clk.dramPs
  <1>1. /\ clk.curCycle \in Nat /\ clk.dramCycle \in Nat
        /\ clk.cpuPs \in Nat /\ clk.dramPs \in Nat
    BY DEF Clocks
  <1>2. /\ CpuCycleDone \in Clocks
        /\ CpuCycleDone.curCycle = clk.curCycle + 1
        /\ CpuCycleDone.dramCycle = clk.dramCycle
        /\ CpuCycleDone.cpuPs = clk.cpuPs + CpuPsPerClk
        /\ CpuCycleDone.dramPs = clk.dramPs
    BY PeriodAssumption DEF CpuCycleDone, Clocks
  <1>3. /\ CpuPsPerClk * (clk.curCycle + 1) = CpuPsPerClk * clk.curCycle + CpuPsPerClk
        /\ CpuPsPerClk * clk.curCycle \in Int
        /\ DramPsPerClk * clk.dramCycle \in Int
    BY <1>1, PeriodPlusOne, PeriodAssumption
  <1> QED
    BY <1>2, <1>3, PeriodAssumption DEF DramLead

(* Clearing both accumulators when they meet changes neither the counts nor  *)
(* the difference of the accumulators.                                       *)
LEMMA ClocksMetSame ==
    ASSUME NEW c \in Clocks
    PROVE  /\ ClocksMet(c) \in Clocks
           /\ ClocksMet(c).curCycle = c.curCycle
           /\ ClocksMet(c).dramCycle = c.dramCycle
           /\ ClocksMet(c).dramPs - ClocksMet(c).cpuPs = c.dramPs - c.cpuPs
           /\ DramLead(ClocksMet(c)) = DramLead(c)
  BY DEF ClocksMet, Clocks, DramLead

(* The arrival that completes the barrier, with or without a DRAM tick due. *)
LEMMA LastArrivalIInv ==
    ASSUME IInv, NEW k \in Ctrls, onControllerTick(k),
           cycle[k] = clk.curCycle, LastArrival
    PROVE  IInv'
  <1> USE DEF IInv
  <1>0. /\ pc[k] = "called" /\ k \notin Ready /\ ~AlreadyReady(k)
        /\ clk.curCycle \in Nat /\ cycle[k] \in Nat /\ cpuEpoch \in Nat
        /\ clk.dramPs \in Nat /\ clk.cpuPs \in Nat
        /\ clk \in Clocks
    BY CallerIsNext DEF onControllerTick, AlreadyReady, Ready, TypeOK, Clocks
  <1>1. /\ cpuReadyEpoch' = [cpuReadyEpoch EXCEPT ![k] = cpuEpoch]
        /\ EveryoneReady(k)
        /\ UNCHANGED <<backendCycles, rejected>>
    BY <1>0 DEF onControllerTick
  <1>2. dramTickPending = FALSE /\ Leading = {}
    BY <1>0 DEF onControllerTick, MustWait, TypeOK, OneLeader
  <1>3. \A j \in Ctrls \ {k} : Reports(j) = clk.curCycle + 1
    <2>1. Ready \cup {k} = Ctrls
      BY <1>0, OneMoreReady DEF NobodyLeftBehind, Ready
    <2> QED
      BY <2>1 DEF NobodyLeftBehind, Ready
  <1>4. /\ clk' \in Clocks
        /\ clk'.curCycle = clk.curCycle + 1
        /\ clk'.dramCycle = clk.dramCycle
        /\ clk'.dramPs - clk'.cpuPs = clk.dramPs - clk.cpuPs - CpuPsPerClk
        /\ DramLead(clk') = DramLead(clk) - CpuPsPerClk
    <2>1. /\ CpuCycleDone \in Clocks
          /\ CpuCycleDone.dramPs - CpuCycleDone.cpuPs
               = clk.dramPs - clk.cpuPs - CpuPsPerClk
      BY <1>0, CpuCycleDoneLead, PeriodAssumption
    <2>2. clk' = CpuCycleDone \/ clk' = ClocksMet(CpuCycleDone)
      BY <1>1 DEF EveryoneReady
    <2> QED
      BY <1>0, <2>1, <2>2, CpuCycleDoneLead, ClocksMetSame
  <1>5. TypeOK'
    <2>1. dramTickPending' \in BOOLEAN /\ dramTickLeader' \in Ctrls \cup {NoCtrl}
      BY <1>1 DEF TypeOK, EveryoneReady
    <2>2. /\ pc' \in [Ctrls -> {"idle", "called", "leader", "advanced"}]
          /\ cycle' \in [Ctrls -> Nat]
      BY <1>1 DEF TypeOK, EveryoneReady, Return
    <2>3. /\ cpuEpoch' \in Nat /\ cpuReadyCount' \in Nat
          /\ cpuReadyEpoch' \in [Ctrls -> Nat]
      BY <1>0, <1>1 DEF TypeOK, EveryoneReady
    <2> QED
      BY <1>1, <1>4, <2>1, <2>2, <2>3 DEF TypeOK
  <1>6. OneLeader'
    BY <1>0, <1>1, <1>2 DEF TypeOK, OneLeader, Leading, EveryoneReady, Return
  <1>7. BackendOncePerDramCycle'
    <2>1. \A j \in Ctrls : pc[j] # "advanced" /\ pc'[j] # "advanced"
      BY <1>0, <1>1, <1>2 DEF TypeOK, Leading, EveryoneReady, Return
    <2> QED
      BY <1>1, <1>4, <2>1 DEF BackendOncePerDramCycle
  <1>8. SharedClocksInStep'
    <2>1. DramTickDue(clk) <=> clk.dramPs - clk.cpuPs < CpuPsPerClk
      BY <1>0, PeriodAssumption DEF DramTickDue
    <2>2. /\ DramTickDue(clk) => dramTickPending' = TRUE
          /\ ~DramTickDue(clk) => dramTickPending' = FALSE
      BY <1>1, <1>2 DEF EveryoneReady
    <2>3. /\ DramLead(clk) \in Int
          /\ 0 <= DramLead(clk) /\ DramLead(clk) < DramPsPerClk
          /\ DramLead(clk) = clk.dramPs - clk.cpuPs
      BY <1>0, <1>2, CpuCycleDoneLead, PeriodAssumption DEF SharedClocksInStep
    <2>4. clk'.dramPs \in Nat /\ clk'.cpuPs \in Nat
      BY <1>4 DEF Clocks
    <2>5. DramLead(clk)' = DramLead(clk')
      BY DEF DramLead
    <2>6. CASE DramTickDue(clk)
      BY <1>0, <1>4, <2>1, <2>2, <2>3, <2>4, <2>5, <2>6, PeriodAssumption
         DEF SharedClocksInStep
    <2>7. CASE ~DramTickDue(clk)
      BY <1>0, <1>4, <2>1, <2>2, <2>3, <2>4, <2>5, <2>7, PeriodAssumption
         DEF SharedClocksInStep
    <2> QED
      BY <2>6, <2>7
  <1>9. cpuEpoch' = cpuEpoch + 1 /\ cpuReadyCount' = 0
    BY <1>1 DEF EveryoneReady
  <1>10. EpochsBegun' /\ Ready' = {}
    <2>1. \A j \in Ctrls : cpuReadyEpoch'[j] <= cpuEpoch /\ cpuReadyEpoch'[j] \in Nat
      BY <1>0, <1>1 DEF EpochsBegun, TypeOK
    <2> QED
      BY <1>0, <1>9, <2>1 DEF EpochsBegun, Ready
  <1>11. NobodyLeftBehind'
    <2>1. Reports(k)' = clk.curCycle + 1
      BY <1>0, <1>1 DEF TypeOK, Reports, EveryoneReady, Return
    <2>2. \A j \in Ctrls \ {k} : Reports(j)' = Reports(j)
      BY <1>1 DEF TypeOK, Reports, EveryoneReady, Return
    <2>3. \A j \in Ctrls : Reports(j)' = clk.curCycle + 1
      BY <1>3, <2>1, <2>2
    <2>4. \A j \in Ctrls : cpuReadyEpoch'[j] # cpuEpoch'
      BY <1>10 DEF Ready
    <2>5. cpuReadyCount' = Cardinality({j \in Ctrls : cpuReadyEpoch'[j] = cpuEpoch'})
      BY <1>9, <1>10, FS_EmptySet DEF Ready
    <2> QED
      BY <1>0, <1>4, <2>3, <2>4, <2>5 DEF NobodyLeftBehind
  <1> QED
    BY <1>5, <1>6, <1>7, <1>8, <1>10, <1>11

(* A call for a later cycle ends the simulation and changes nothing else;    *)
(* a call for an earlier one does not happen.                                *)
LEMMA OnControllerTickIInv ==
    ASSUME IInv, NEW k \in Ctrls, onControllerTick(k)
    PROVE  IInv'
  <1> USE DEF IInv
  <1>1. clk.curCycle \in Nat /\ cycle[k] \in Nat /\ cycle[k] >= clk.curCycle
    BY CallerIsNext DEF onControllerTick, TypeOK, Clocks
  <1>2. CASE cycle[k] > clk.curCycle
    <2>1. UNCHANGED <<clk, cpuEpoch, cpuReadyEpoch, cpuReadyCount, dramTickPending,
                      dramTickLeader, pc, cycle, backendCycles>>
          /\ rejected' = TRUE
      BY <1>2 DEF onControllerTick, runtimeVars
    <2> QED
      BY <2>1 DEF TypeOK, OneLeader, Leading, BackendOncePerDramCycle,
         SharedClocksInStep, DramLead, NobodyLeftBehind, Reports, EpochsBegun
  <1>3. CASE cycle[k] = clk.curCycle
    BY <1>3, ArrivalIInv, LastArrivalIInv
  <1> QED
    BY <1>1, <1>2, <1>3

(* The leader advances the backend. *)
LEMMA AdvanceIInv ==
    ASSUME IInv, NEW k \in Ctrls, advanceSystemOneCycle(k)
    PROVE  IInv'
  <1> USE DEF IInv, advanceSystemOneCycle, runtimeVars
  <1>1. Leading = {k}
    BY DEF OneLeader, Leading
  <1>2. TypeOK'
    BY DEF TypeOK
  <1>3. Leading' = Leading
    BY DEF TypeOK, Leading
  <1>4. OneLeader'
    BY <1>3 DEF OneLeader
  <1>5. BackendOncePerDramCycle'
    <2>1. ~ \E j \in Ctrls : pc[j] = "advanced"
      BY <1>1 DEF Leading
    <2>2. \E j \in Ctrls : pc'[j] = "advanced"
      BY DEF TypeOK
    <2>3. clk.dramCycle \in Nat
      BY DEF TypeOK, Clocks
    <2> QED
      BY <2>1, <2>2, <2>3 DEF BackendOncePerDramCycle
  <1>6. SharedClocksInStep'
    BY DEF SharedClocksInStep, DramLead
  <1>7. \A j \in Ctrls : Reports(j)' = Reports(j)
    BY DEF TypeOK, Reports
  <1>8. NobodyLeftBehind' /\ EpochsBegun'
    BY <1>7 DEF NobodyLeftBehind, EpochsBegun
  <1> QED
    BY <1>2, <1>4, <1>5, <1>6, <1>8

(* The leader commits the DRAM tick. *)
LEMMA FinishIInv ==
    ASSUME IInv, NEW k \in Ctrls, finishDramTick(k)
    PROVE  IInv'
  <1> USE DEF IInv
  <1>1. Leading = {k} /\ dramTickPending = TRUE
    BY DEF OneLeader, Leading, finishDramTick, TypeOK
  <1>2. clk \in Clocks /\ clk.dramCycle \in Nat /\ clk.dramPs \in Nat
        /\ clk.cpuPs \in Nat /\ clk.curCycle \in Nat
    BY DEF TypeOK, Clocks
  <1> DEFINE c == [curCycle |-> clk.curCycle, dramCycle |-> clk.dramCycle + 1,
                   cpuPs    |-> clk.cpuPs,
                   dramPs   |-> clk.dramPs + DramPsPerClk]
  <1>3. /\ c \in Clocks /\ c.curCycle = clk.curCycle /\ c.cpuPs = clk.cpuPs
        /\ c.dramCycle = clk.dramCycle + 1 /\ c.dramPs = clk.dramPs + DramPsPerClk
    BY <1>2, PeriodAssumption DEF Clocks
  <1>4. /\ DramLead(c) = DramLead(clk) + DramPsPerClk
        /\ DramLead(clk) \in Int
    <2>1. /\ DramPsPerClk * (clk.dramCycle + 1)
               = DramPsPerClk * clk.dramCycle + DramPsPerClk
          /\ DramPsPerClk * clk.dramCycle \in Int
          /\ CpuPsPerClk * clk.curCycle \in Int
      BY <1>2, PeriodPlusOne, PeriodAssumption
    <2> QED
      BY <1>3, <2>1, PeriodAssumption DEF DramLead
  <1>5. clk' = ClocksMet(c)
    BY DEF finishDramTick, DramCycleDone
  <1>6. /\ clk' \in Clocks /\ clk'.curCycle = clk.curCycle
        /\ clk'.dramCycle = clk.dramCycle + 1
        /\ clk'.dramPs - clk'.cpuPs = clk.dramPs + DramPsPerClk - clk.cpuPs
        /\ DramLead(clk') = DramLead(clk) + DramPsPerClk
    <2> HIDE DEF c
    <2>1. /\ ClocksMet(c) \in Clocks
          /\ ClocksMet(c).curCycle = c.curCycle
          /\ ClocksMet(c).dramCycle = c.dramCycle
          /\ ClocksMet(c).dramPs - ClocksMet(c).cpuPs = c.dramPs - c.cpuPs
          /\ DramLead(ClocksMet(c)) = DramLead(c)
      BY <1>3, ClocksMetSame
    <2> QED
      BY <1>2, <1>3, <1>4, <1>5, <2>1, PeriodAssumption
  <1>7. TypeOK'
    <2>1. dramTickPending' \in BOOLEAN /\ dramTickLeader' \in Ctrls \cup {NoCtrl}
      BY DEF finishDramTick, LeaderDone
    <2>2. /\ pc' \in [Ctrls -> {"idle", "called", "leader", "advanced"}]
          /\ cycle' \in [Ctrls -> Nat]
      BY DEF TypeOK, finishDramTick, Return
    <2> QED
      BY <1>6, <2>1, <2>2 DEF TypeOK, finishDramTick
  <1>8. Leading' = {}
    BY <1>1 DEF TypeOK, finishDramTick, Return, Leading
  <1>9. OneLeader'
    BY <1>8 DEF OneLeader, finishDramTick, LeaderDone
  <1>10. BackendOncePerDramCycle'
    <2>1. ~ \E j \in Ctrls : pc'[j] = "advanced"
      BY <1>8 DEF Leading
    <2>2. \E j \in Ctrls : pc[j] = "advanced"
      BY DEF finishDramTick
    <2>3. backendCycles' = backendCycles
      BY DEF finishDramTick
    <2> QED
      BY <1>2, <1>6, <2>1, <2>2, <2>3 DEF BackendOncePerDramCycle
  <1>11. SharedClocksInStep'
    <2>1. dramTickPending' = FALSE
      BY DEF finishDramTick, LeaderDone
    <2>2. clk'.dramPs \in Nat /\ clk'.cpuPs \in Nat
      BY <1>6 DEF Clocks
    <2>3. DramLead(clk)' = DramLead(clk')
      BY DEF DramLead
    <2> QED
      BY <1>1, <1>2, <1>4, <1>6, <2>1, <2>2, <2>3, PeriodAssumption
         DEF SharedClocksInStep
  <1>12. \A j \in Ctrls : Reports(j)' = Reports(j)
    BY DEF TypeOK, Reports, finishDramTick, Return
  <1>13. NobodyLeftBehind' /\ EpochsBegun'
    BY <1>6, <1>12 DEF NobodyLeftBehind, EpochsBegun, finishDramTick
  <1> QED
    BY <1>7, <1>9, <1>10, <1>11, <1>13

(* Every step of every controller keeps the invariant. *)
LEMMA NextIInv == IInv /\ [Next]_vars => IInv'
  <1> SUFFICES ASSUME IInv, [Next]_vars PROVE IInv'
    OBVIOUS
  <1>1. ASSUME NEW k \in Ctrls, Step(k) PROVE IInv'
    BY <1>1, StartTickIInv, OnControllerTickIInv, AdvanceIInv, FinishIInv DEF Step
  <1>2. CASE UNCHANGED vars
    BY <1>2 DEF vars, IInv, TypeOK, OneLeader, Leading, BackendOncePerDramCycle,
       SharedClocksInStep, DramLead, NobodyLeftBehind, Reports, EpochsBegun
  <1> QED
    BY <1>1, <1>2 DEF Next

(* The inductive invariant holds in every behaviour. *)
THEOREM Invariance == Spec => []IInv
  BY InitIInv, NextIInv, PTL DEF Spec

(* The runtime's state always has the types of its fields. *)
THEOREM TypeCorrect == Spec => []TypeOK
  <1>1. IInv => TypeOK
    BY DEF IInv
  <1> QED
    BY <1>1, Invariance, PTL

(* At most one controller leads, and it is the recorded one: both panics of   *)
(* finishDramTick are unreachable.                                            *)
THEOREM AtMostOneLeader == Spec => []OneLeader
  <1>1. IInv => OneLeader
    BY DEF IInv
  <1> QED
    BY <1>1, Invariance, PTL

(* The SystemC backend is advanced exactly once per DRAM cycle. *)
THEOREM BackendAdvancedOnce == Spec => []BackendOncePerDramCycle
  <1>1. IInv => BackendOncePerDramCycle
    BY DEF IInv
  <1> QED
    BY <1>1, Invariance, PTL

(* The shared clocks never drift apart. *)
THEOREM SharedClocksStayInStep == Spec => []SharedClocksInStep
  <1>1. IInv => SharedClocksInStep
    BY DEF IInv
  <1> QED
    BY <1>1, Invariance, PTL

(* No controller's cycle is passed over and the ready count is exact. *)
THEOREM NobodyMissesACycle == Spec => []NobodyLeftBehind
  <1>1. IInv => NobodyLeftBehind
    BY DEF IInv
  <1> QED
    BY <1>1, Invariance, PTL
=============================================================================
