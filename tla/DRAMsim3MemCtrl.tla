--------------------------- MODULE DRAMsim3MemCtrl ---------------------------
(***************************************************************************)
(* The memory controller over DRAMsim3 (dramsim3_mem_ctrl.cpp).  The model  *)
(* calls back with nothing but the address, for reads and for writes, and   *)
(* the controller completes the oldest event in flight for that address.    *)
(***************************************************************************)
EXTENDS WeaveController

VARIABLES inflight,   \* inflightRequests in order of insertion
          backend     \* transactions DRAMsim3 has not called back for

vars == <<weaveVars, inflight, backend>>

Transactions == [id : Events, addr : Addrs, isWrite : BOOLEAN]
InFlight == ToSet(inflight)

(* A held event is in one place and once: parked or in flight, never        *)
(* both, never neither, whatever the model accepts, refuses and completes.  *)
HeldIsSomewhereOnce ==
    /\ Parked \cup InFlight = {e \in Events : st[e] = "HELD"}
    /\ Parked \cap InFlight = {}
    /\ Cardinality(Parked) = Len(notQueued) /\ Cardinality(InFlight) = Len(inflight)

(* The start cycle of an access, one before its own, is a cycle; what is in   *)
(* flight, here and in the model, has been recorded.                          *)
TypeOK == WeaveTypeOK /\ inflight \in Seq(Events) /\ backend \in SUBSET Transactions

Init == WeaveInit /\ inflight = << >> /\ backend = {}

Transaction(e) == [id |-> e, addr |-> acc[e].addr, isWrite |-> acc[e].isWrite]

Access == \E c \in Cores, a \in Addrs, type \in {"GETS", "GETX", "PUTS", "PUTX"},
             cycle \in limit + 1 .. limit + PhaseLength :
             RecordAccess(c, a, type, cycle) /\ UNCHANGED <<inflight, backend>>

(* enqueue: WillAcceptTransaction says whether the queues have room. *)
EnqueueForgets(e, accepts) == notQueued
ParkedAfterEnqueue(e, accepts) == IF accepts THEN notQueued ELSE Append(notQueued, e)
enqueue(e, accepts) ==
    /\ MayStart(e)
    /\ isBoundPhase' = FALSE
    /\ notQueued' = ParkedAfterEnqueue(e, accepts)
    /\ inflight' = IF accepts THEN Append(inflight, e) ELSE inflight
    /\ backend' = IF accepts THEN backend \cup {Transaction(e)} ELSE backend
    /\ acc' = IF accepts THEN Issued({e}) ELSE acc
    /\ st' = [st EXCEPT ![e] = "HELD"]
    /\ UNCHANGED <<clk, phase, phaseNum, est>>

(* pushInFlights counts a try for each event it looks at, started or not. *)
Tried == {notQueued[i] : i \in {j \in 1..Len(notQueued) :
             j <= MaxTries /\ acc[notQueued[j]].sCycle <= clk.curCycle}}

(* onReadComplete(addr), also the write callback: find() yields the first   *)
(* in-flight event of the address.                                          *)
Find(s, a) == SelectInSeq(s, LAMBDA e : acc[e].addr = a)

(* Completing the callbacks of the transactions cb one after the other.     *)
(* A callback that finds nothing is an assertion failure: it has no         *)
(* successor here (AddressesBalance: it does not happen).                   *)
Erase(s, i) == RemoveAt(s, i)
AfterCallback(q, s) == Erase(s, Find(s, q.addr))
Callbacks(flying, cb) ==
    FoldSet(LAMBDA q, s : AfterCallback(q, s), flying, cb)

(* tick: the parked requests are offered, the clocks advance and, when it   *)
(* is due, DRAMsim3 takes a cycle and calls back for transactions it had    *)
(* before: one accepted now completes a cycle later at the earliest.        *)
Tick(sent, cb) ==
    LET flying == inflight \o SelectSeq(notQueued, LAMBDA e : e \in sent)
        left == Callbacks(flying, cb)
        done == ToSet(flying) \ ToSet(left)
    IN /\ MayTick
       /\ sent \subseteq Tried
       /\ cb # {} => DramTickDue(clk)
       /\ notQueued' = Without(notQueued, sent)
       /\ clk' = ClockAdvance(clk)
       /\ inflight' = left
       /\ backend' = (backend \ cb) \cup {Transaction(e) : e \in sent}
       /\ st' = Complete(done)
       /\ est' = EstAfter(done, clk.curCycle + 1)
       /\ acc' = Freed(Issued(sent), done)
       /\ UNCHANGED <<phase, phaseNum, isBoundPhase>>

Next ==
    \/ Access
    \/ (StartWeave \/ EndWeave) /\ UNCHANGED <<inflight, backend>>
    \/ \E e \in Events, accepts \in BOOLEAN : enqueue(e, accepts)
    \/ \E sent \in SUBSET Tried, cb \in SUBSET backend : Tick(sent, cb)

Spec == Init /\ [][Next]_vars

----------------------------------------------------------------------------
(* Though completions are matched by address alone, no callback is without  *)
(* an event and no event is left behind: for every address there are as     *)
(* many events in flight as callbacks to come.                              *)
AddressesBalance ==
    \A a \in Addrs : Cardinality({e \in InFlight : acc[e].addr = a})
                        = Cardinality({q \in backend : q.addr = a})

=============================================================================
