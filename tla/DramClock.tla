------------------------------ MODULE DramClock ------------------------------
(***************************************************************************)
(* The two-clock synchroniser that every memory interface of the simulator *)
(* contains: Ramulator::tick, Ramulator2::tick, DRAMsim3Memory::tick and    *)
(* DRAMSysRuntime::onControllerTick add one CPU period per CPU cycle, tick  *)
(* the DRAM model when the CPU's time has passed the DRAM's, and clear both *)
(* accumulators when they meet.                                            *)
(*                                                                         *)
(* A clock is a record: curCycle and dramCycle count the ticks of the two   *)
(* sides, cpuPs and dramPs are the picosecond accumulators.                 *)
(***************************************************************************)
EXTENDS Integers

CONSTANTS
    CpuPsPerClk,    \* picoseconds per CPU cycle
    DramPsPerClk    \* picoseconds per DRAM cycle

\* The constructors assert that the CPU is the faster of the two; DRAMSysRuntime
\* also takes equal periods.
ASSUME PeriodAssumption ==
    /\ CpuPsPerClk \in Nat \ {0}
    /\ DramPsPerClk \in Nat
    /\ CpuPsPerClk <= DramPsPerClk

Clocks == [curCycle : Nat, dramCycle : Nat, cpuPs : Nat, dramPs : Nat]

ClockInit == [curCycle |-> 0, dramCycle |-> 0, cpuPs |-> 0, dramPs |-> 0]

(* The DRAM model is ticked in the CPU cycle that c is about to take. *)
MutDramTickDue(c) == c.cpuPs + CpuPsPerClk >= c.dramPs
DramTickDue(c) == c.cpuPs + CpuPsPerClk > c.dramPs

(* One CPU cycle: the accumulators of both sides and the reset on a tie. *)
MutClockAdvance(c) ==     \* curCycle counted only when the DRAM is ticked
    IF DramTickDue(c)
    THEN [c EXCEPT !.curCycle = @ + 1, !.dramCycle = @ + 1,
                   !.cpuPs = @ + CpuPsPerClk, !.dramPs = @ + DramPsPerClk]
    ELSE [c EXCEPT !.cpuPs = @ + CpuPsPerClk]
ClockAdvance(c) ==
    LET due  == DramTickDue(c)
        cpu  == c.cpuPs + CpuPsPerClk
        dram == IF due THEN c.dramPs + DramPsPerClk ELSE c.dramPs
    IN  [curCycle  |-> c.curCycle + 1,
         dramCycle |-> IF due THEN c.dramCycle + 1 ELSE c.dramCycle,
         cpuPs     |-> IF cpu = dram THEN 0 ELSE cpu,
         dramPs    |-> IF cpu = dram THEN 0 ELSE dram]

(* How far the DRAM's simulated time is ahead of the CPU's. *)
DramLead(c) == DramPsPerClk * c.dramCycle - CpuPsPerClk * c.curCycle

(* The two sides never drift: the DRAM has been ticked exactly as often as *)
(* the elapsed CPU time asks for, up to the DRAM cycle in progress, and the *)
(* accumulators hold the lead whatever resets they went through.           *)
InStep(c) ==
    /\ 0 <= DramLead(c)
    /\ DramLead(c) < DramPsPerClk
    /\ DramLead(c) = c.dramPs - c.cpuPs
=============================================================================
