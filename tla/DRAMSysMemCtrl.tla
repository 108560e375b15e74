--------------------------- MODULE DRAMSysMemCtrl ---------------------------
(***************************************************************************)
(* The memory controller over DRAMSys (dramsys_mem_ctrl.cpp) and the        *)
(* SystemC wrapper it owns (dramsys_wrapper.cpp).  Each attempt to send a   *)
(* request takes a new tag; the wrapper has one slot, taken until DRAMSys   *)
(* answers END_REQ, and a queue of completions, drained by the next tick    *)
(* and matched by tag.  One controller: the runtime that several share is   *)
(* DRAMSysRuntime.                                                          *)
(***************************************************************************)
EXTENDS WeaveController

CONSTANTS MaxStall    \* bound: DRAM cycles in a row in which DRAMSys does nothing

VARIABLES nextReqTag,
          inflight,     \* inflightRequests: pairs of tag and event
          inProgress,   \* requestInProgress: no request, or the one in the slot
          device,       \* requests past END_REQ
          completions,  \* completionQueue
          stall

devVars == <<nextReqTag, inflight, inProgress, device, completions, stall>>
vars == <<weaveVars, devVars>>

(* A request is its tag and, to tell what was asked for, its event. *)
Requests == [tag : Nat, id : Events]
InFlight == {p.id : p \in inflight}

(* Events, tags and payloads are where they can be, and at most one request *)
(* waits for the end of the model's back-pressure.                          *)
TypeOK ==
    /\ WeaveTypeOK
    /\ nextReqTag \in Nat \ {0}
    /\ inflight \subseteq Requests /\ device \subseteq Requests
    /\ inProgress \subseteq Requests /\ Cardinality(inProgress) <= 1
    /\ completions \in Seq(Requests)
    /\ stall \in 0..MaxStall

Init ==
    /\ WeaveInit
    /\ nextReqTag = 1 /\ inflight = {} /\ inProgress = {} /\ device = {}
    /\ completions = << >> /\ stall = 0

Access == \E c \in Cores, a \in Addrs, type \in {"GETS", "PUTS", "PUTX"},
             cycle \in limit + 1 .. limit + PhaseLength :
             RecordAccess(c, a, type, cycle) /\ UNCHANGED devVars

----------------------------------------------------------------------------
(* The attempts of one call to send the events es, each with a tag that is  *)
(* used up (nextReqTag++) even when the attempt is refused.                 *)
Attempts(es) == [i \in 1..Len(es) |-> [tag |-> nextReqTag + i - 1, id |-> es[i]]]

(* DRAMSysWrapper::trySend of the attempts rs in order.  All are refused    *)
(* while the slot is taken.  Otherwise DRAMSys answers the first k at once  *)
(* (TLM_COMPLETED, the slot is free again), the next one takes the slot     *)
(* until END_REQ, and the rest are refused.                                 *)
TrySend(rs, k) ==
    IF inProgress # {} THEN [atOnce |-> << >>, slot |-> inProgress]
    ELSE [atOnce |-> SubSeq(rs, 1, k), slot |-> {rs[i] : i \in {k + 1} \cap DOMAIN rs}]
Accepted(rs, r) == ToSet(rs) \cap (ToSet(r.atOnce) \cup r.slot)

enqueue(e, k) ==
    LET rs == Attempts(<<e>>)
        r == TrySend(rs, k)
        ok == Accepted(rs, r)
    IN /\ MayStart(e)
       /\ isBoundPhase' = FALSE
       /\ nextReqTag' = nextReqTag + Len(rs)
       /\ inProgress' = r.slot
       /\ completions' = completions \o r.atOnce
       /\ inflight' = inflight \cup ok
       /\ notQueued' = IF ok = {} THEN Append(notQueued, e) ELSE notQueued
       /\ acc' = IF ok = {} THEN acc ELSE Issued({e})
       /\ st' = [st EXCEPT ![e] = "HELD"]
       /\ UNCHANGED <<clk, phase, phaseNum, est, device, stall>>

----------------------------------------------------------------------------
(* drainCompletions: every completion in queue q ends the event its tag is  *)
(* mapped to; a tag that is not in the map is a panic (TagsMatch: there is  *)
(* none).                                                                   *)
Drained(q, map) == {p.id : p \in {m \in map : \E r \in ToSet(q) : r.tag = m.tag}}
KeepsEntry(q, map) == map
MapAfterDrain(q, map) == {m \in map : \A r \in ToSet(q) : r.tag # m.tag}

(* sc_start for one DRAM cycle: DRAMSys may end the request in the slot     *)
(* (END_REQ, which frees the slot) and may respond to requests it has       *)
(* (BEGIN_RESP, peqCallback and completeTransaction), also to the one still *)
(* in the slot; it does not stay idle for ever.                             *)
SlotAfter(slot, ends, resp) == IF ends THEN {} ELSE slot \ resp
advanceOneCycle(slot) ==
    \E ends \in (IF slot = {} THEN {FALSE} ELSE BOOLEAN), resp \in SUBSET (slot \cup device) :
       /\ (~ends /\ resp = {} /\ slot \cup device # {}) => stall < MaxStall
       /\ inProgress' = SlotAfter(slot, ends, resp)
       /\ device' = (IF ends THEN device \cup slot ELSE device) \ resp
       /\ completions' = SetToSeq(resp)
       /\ stall' = IF ends \/ resp # {} \/ slot \cup device = {} THEN 0 ELSE stall + 1

(* tick: the parked requests are offered, the completions drained and, when *)
(* the runtime makes this controller the leader, SystemC advances by one    *)
(* DRAM cycle, whose completions wait for the next tick.                    *)
Tick(k) ==
    LET rs == Attempts(SelectSeq(notQueued, LAMBDA e : e \in FirstStarted))
        r == TrySend(rs, k)
        ok == Accepted(rs, r)
        sent == {p.id : p \in ok}
        q == completions \o r.atOnce
        done == Drained(q, inflight \cup ok)
    IN /\ MayTick
       /\ k <= Len(rs)
       /\ nextReqTag' = nextReqTag + Len(rs)
       /\ notQueued' = Without(notQueued, sent)
       /\ inflight' = MapAfterDrain(q, inflight \cup ok)
       /\ st' = Complete(done)
       /\ est' = EstAfter(done, clk.curCycle)
       /\ acc' = Freed(Issued(sent), done)
       /\ clk' = ClockAdvance(clk)
       /\ IF DramTickDue(clk) THEN advanceOneCycle(r.slot)
          ELSE /\ inProgress' = r.slot
               /\ completions' = << >>
               /\ UNCHANGED <<device, stall>>
       /\ UNCHANGED <<phase, phaseNum, isBoundPhase>>

Next ==
    \/ Access
    \/ (StartWeave \/ EndWeave) /\ UNCHANGED devVars
    \/ \E e \in Events, k \in 0..1 : enqueue(e, k)
    \/ \E k \in 0..MaxTries : Tick(k)

Spec == Init /\ [][Next]_vars

(* The scheduler starts a weave phase after every bound phase and the       *)
(* contention threads drive it to its end.                                  *)
FairSpec == Spec /\ WF_vars(Next)

----------------------------------------------------------------------------
(* However often requests are refused and retried under new tags, the map   *)
(* has exactly one entry for each request the wrapper has, under the tag    *)
(* that will come back and for the event it was sent for: no completion is  *)
(* unknown, none is charged to another access.                              *)
TagsMatch ==
    /\ inflight = inProgress \cup device \cup ToSet(completions)
    /\ \A p, q \in inflight : p # q => p.tag # q.tag /\ p.id # q.id
    /\ Cardinality(device) + Cardinality(inProgress) + Len(completions) = Cardinality(inflight)

(* A held event is parked or in flight, never both and never neither.       *)
HeldIsSomewhereOnce ==
    /\ Parked \cup InFlight = {e \in Events : st[e] = "HELD"}
    /\ Parked \cap InFlight = {}
    /\ Cardinality(Parked) = Len(notQueued)

=============================================================================
