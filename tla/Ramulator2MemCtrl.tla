-------------------------- MODULE Ramulator2MemCtrl --------------------------
(***************************************************************************)
(* The memory controller over Ramulator 2 (ramulator2_mem_ctrl.cpp).  The   *)
(* model never calls back for a write, so a write is completed as soon as   *)
(* it is accepted and only reads are tracked; a read's callback carries its *)
(* address and source.                                                      *)
(***************************************************************************)
EXTENDS WeaveController

VARIABLES inflight,   \* inflightRequests: reads the model will call back for
          backend     \* the requests of those reads

vars == <<weaveVars, inflight, backend>>

Requests == [id : Events, addr : Addrs, core : Cores]

(* The start cycle of an access, one before its own, is a cycle; what is in   *)
(* flight, here and in the model, has been recorded.                          *)
TypeOK == WeaveTypeOK /\ inflight \in SUBSET Events /\ backend \in SUBSET Requests

Init == WeaveInit /\ inflight = {} /\ backend = {}

Access == \E c \in Cores, a \in Addrs, type \in {"GETS", "GETX", "PUTS", "PUTX"},
             cycle \in limit + 1 .. limit + PhaseLength :
             RecordAccess(c, a, type, cycle) /\ UNCHANGED <<inflight, backend>>

getRequestFromAccEvent(e) == [id |-> e, addr |-> acc[e].addr, core |-> acc[e].core]

(* What becomes of the accepted events S: reads are tracked, writes are     *)
(* released and done at once.                                               *)
Tracked(S) == {e \in S : ~acc[e].isWrite}

enqueue(e, accepts) ==
    LET sent == IF accepts THEN {e} ELSE {}
        done == sent \ Tracked(sent)
    IN /\ MayStart(e)
       /\ isBoundPhase' = FALSE
       /\ notQueued' = IF accepts THEN notQueued ELSE Append(notQueued, e)
       /\ inflight' = inflight \cup Tracked(sent)
       /\ backend' = backend \cup {getRequestFromAccEvent(r) : r \in {x \in sent : ~acc[x].isWrite}}
       /\ acc' = Freed(Issued(sent), done)
       /\ st' = [Complete(done) EXCEPT ![e] = IF e \in done THEN "DONE" ELSE "HELD"]
       /\ UNCHANGED <<clk, phase, phaseNum, est>>

(* onReadComplete: the event a read's callback completes, of the address    *)
(* and the source or, when there is none, the first of the next address,    *)
(* since only the end of the whole map is tested for.                       *)
Matches(q, S) == {e \in S : acc[e].addr = q.addr /\ acc[e].core = q.core}
NextRange(q, S) ==
    {e \in S : acc[e].addr > q.addr /\ \A f \in S : acc[f].addr > q.addr => acc[e].addr <= acc[f].addr}
Completed(q, S) == IF Matches(q, S) # {} THEN Matches(q, S) ELSE NextRange(q, S)

(* tick: pushInFlights sends some of the parked events and, when it is due, *)
(* the model takes a cycle and calls back for the reads cb; pick says which *)
(* in-flight event each callback finds.                                     *)
Erased(sent) == Without(notQueued, sent)
Tick(sent, cb, pick) ==
    LET flying == inflight \cup Tracked(sent)
        written == sent \ Tracked(sent)
        read == {pick[q] : q \in cb}
        now == clk.curCycle + 1
    IN /\ MayTick
       /\ sent \subseteq FirstStarted
       /\ cb # {} => DramTickDue(clk)
       /\ \A q \in cb : pick[q] \in Completed(q, inflight)
       /\ \A q, r \in cb : q # r => pick[q] # pick[r]
       /\ notQueued' = Erased(sent)
       /\ clk' = ClockAdvance(clk)
       /\ inflight' = flying \ read
       /\ backend' = (backend \ cb) \cup {getRequestFromAccEvent(e) : e \in {x \in sent : ~acc[x].isWrite}}
       /\ st' = Complete(written \cup read)
       /\ est' = EstAfter(read, now)
       /\ acc' = Freed(Issued(sent), written \cup read)
       /\ UNCHANGED <<phase, phaseNum, isBoundPhase>>

Next ==
    \/ Access
    \/ (StartWeave \/ EndWeave) /\ UNCHANGED <<inflight, backend>>
    \/ \E e \in Events, accepts \in BOOLEAN : enqueue(e, accepts)
    \/ \E sent \in SUBSET FirstStarted, cb \in SUBSET backend :
          \E pick \in [cb -> inflight] : Tick(sent, cb, pick)

Spec == Init /\ [][Next]_vars

----------------------------------------------------------------------------
(* A held event is parked or in flight, never both and never neither: a     *)
(* write completed on acceptance has left both lists.                       *)
HeldIsSomewhereOnce ==
    /\ Parked \cup inflight = {e \in Events : st[e] = "HELD"}
    /\ Parked \cap inflight = {}
    /\ Cardinality(Parked) = Len(notQueued)

(* The end of the address's range, which the code does not test for, is     *)
(* never reached: each address and source has as many reads in flight as    *)
(* callbacks to come, so every callback finds an event of its own and no    *)
(* write waits for a callback that is never made.                           *)
CallbackFindsItsEvent ==
    /\ \A q \in backend :
          Cardinality({e \in inflight : acc[e].addr = q.addr /\ acc[e].core = q.core})
             = Cardinality({r \in backend : r.addr = q.addr /\ r.core = q.core})
    /\ Cardinality(inflight) = Cardinality(backend)
=============================================================================
