--------------------------- MODULE FutexMatching ---------------------------
(***************************************************************************)
(* The scheduler's matching of futex wakes with the waits they end: a thread *)
(* that woke others joins only after they have, so that the simulated order  *)
(* is the real one.  Two counters under schedLock are all it keeps:          *)
(* maxAllowedFutexWakeups, what the wakes in progress may still wake, and    *)
(* unmatchedFutexWakeups, the woken threads that joined.  The futex itself   *)
(* is the kernel's: a wake ends the waits of up to maxWakes threads.  Wakes  *)
(* from outside the simulation, and syscalls that return an error, are left  *)
(* out.                                                                      *)
(***************************************************************************)
EXTENDS Naturals, FiniteSets

CONSTANTS
    Wakers, Waiters,
    MaxWakes,       \* what a wake may ask for
    Timeouts        \* may a woken thread take more than two seconds to join?

ASSUME FutexAssumption ==
    IsFiniteSet(Waiters) /\ MaxWakes \subseteq Nat /\ Timeouts \in BOOLEAN

VARIABLES
    maxAllowed, unmatched,
    waker,          \* [pc, maxWakes, wokenUp] of each waker
    waiter,         \* "app", "wait" (in the kernel), "woken", "joining"
    failed,         \* an assertion of futexWakeJoin has stopped the simulator
    gaveUp          \* history: a waker has given up

futexVars == <<maxAllowed, unmatched, waker, waiter, failed, gaveUp>>

Idle == [pc |-> "app", maxWakes |-> 0, wokenUp |-> 0]

FutexInit ==
    /\ maxAllowed = 0 /\ unmatched = 0
    /\ waker = [k \in Wakers |-> Idle]
    /\ waiter = [w \in Waiters |-> "app"]
    /\ failed = FALSE /\ gaveUp = FALSE
-----------------------------------------------------------------------------
(* notifyFutexWakeStart *)
WakeStart(k, n) ==
    /\ ~failed /\ waker[k].pc = "app"
    /\ maxAllowed' = maxAllowed + n
    /\ waker' = [waker EXCEPT ![k] = [pc |-> "start", maxWakes |-> n, wokenUp |-> 0]]
    /\ UNCHANGED <<unmatched, waiter, failed, gaveUp>>

(* The syscall: the kernel ends some waits, and returns how many. *)
KernelWake(k, W) ==
    /\ ~failed /\ waker[k].pc = "start"
    /\ \A w \in W : waiter[w] = "wait"
    /\ Cardinality(W) <= waker[k].maxWakes
    /\ Cardinality(W) < waker[k].maxWakes => \A w \in Waiters \ W : waiter[w] # "wait"
    /\ waiter' = [w \in Waiters |-> IF w \in W THEN "woken" ELSE waiter[w]]
    /\ waker' = [waker EXCEPT ![k].pc = "end", ![k].wokenUp = Cardinality(W)]
    /\ UNCHANGED <<maxAllowed, unmatched, failed, gaveUp>>

(* futexWakeJoin: the part of the allowance that was not used goes back; the   *)
(* rest is matched when as many threads have joined.                           *)
UnusedKept(k) == maxAllowed
Adjusted(k) == maxAllowed - (waker[k].maxWakes - waker[k].wokenUp)

WakeJoin(k) ==
    /\ ~failed /\ waker[k].pc = "end"
    /\ maxAllowed' = Adjusted(k)
    /\ failed' = \/ waker[k].maxWakes > maxAllowed
                 \/ waker[k].wokenUp > waker[k].maxWakes
                 \/ unmatched > maxAllowed'
    /\ waker' = [waker EXCEPT ![k].pc = "match"]
    /\ UNCHANGED <<unmatched, waiter, gaveUp>>

Enough(k) == waker[k].wokenUp <= unmatched

(* The first test is made without the lock, the second with it. *)
SeesEnough(k) ==
    /\ ~failed /\ waker[k].pc = "match" /\ Enough(k)
    /\ waker' = [waker EXCEPT ![k].pc = "lock"]
    /\ UNCHANGED <<maxAllowed, unmatched, waiter, failed, gaveUp>>

Matched(k) == unmatched - waker[k].wokenUp

Recheck(k) == Enough(k)
Match(k) ==
    /\ ~failed /\ waker[k].pc = "lock"
    /\ IF Recheck(k)
       THEN /\ unmatched' = Matched(k)
            /\ maxAllowed' = maxAllowed - waker[k].wokenUp
            /\ waker' = [waker EXCEPT ![k] = Idle]
       ELSE /\ waker' = [waker EXCEPT ![k].pc = "match"]
            /\ UNCHANGED <<unmatched, maxAllowed>>
    /\ UNCHANGED <<waiter, failed, gaveUp>>

(* Otherwise the waker sleeps.  A few seconds later it gives up, without another *)
(* look at the counters, and forgets every thread that has joined.              *)
Backoff(k) ==
    /\ ~failed
    /\ \/ waker[k].pc = "match" /\ ~Enough(k) /\ waker' = [waker EXCEPT ![k].pc = "sleep"]
       \/ waker[k].pc = "sleep" /\ waker' = [waker EXCEPT ![k].pc = "match"]
    /\ UNCHANGED <<maxAllowed, unmatched, waiter, failed, gaveUp>>

GiveUp(k) ==
    /\ ~failed /\ Timeouts /\ waker[k].pc = "sleep"
    /\ unmatched' = 0
    /\ maxAllowed' = maxAllowed - waker[k].wokenUp
    /\ waker' = [waker EXCEPT ![k] = Idle]
    /\ gaveUp' = TRUE
    /\ UNCHANGED <<waiter, failed>>
-----------------------------------------------------------------------------
(* A simulated thread waits on the futex; once woken it notifies the scheduler *)
(* (notifyFutexWaitWoken) and joins (futexWaitJoin).                           *)
FutexWait(w) ==
    /\ ~failed /\ waiter[w] = "app"
    /\ waiter' = [waiter EXCEPT ![w] = "wait"]
    /\ UNCHANGED <<maxAllowed, unmatched, waker, failed, gaveUp>>

WaitWoken(w) ==
    /\ ~failed /\ waiter[w] = "woken"
    /\ waiter' = [waiter EXCEPT ![w] = "joining"]
    /\ UNCHANGED <<maxAllowed, unmatched, waker, failed, gaveUp>>

(* A join beyond the allowance is taken for an external wake, and not counted. *)
Counted == IF unmatched >= maxAllowed THEN unmatched ELSE unmatched + 1

WaitJoin(w) ==
    /\ ~failed /\ waiter[w] = "joining"
    /\ unmatched' = Counted
    /\ waiter' = [waiter EXCEPT ![w] = "app"]
    /\ UNCHANGED <<maxAllowed, waker, failed, gaveUp>>

FutexNext ==
    \/ \E k \in Wakers : \/ \E n \in MaxWakes : WakeStart(k, n)
                         \/ \E W \in SUBSET Waiters : KernelWake(k, W)
                         \/ WakeJoin(k) \/ SeesEnough(k) \/ Match(k)
                         \/ Backoff(k) \/ GiveUp(k)
    \/ \E w \in Waiters : FutexWait(w) \/ WaitWoken(w) \/ WaitJoin(w)

FutexSpec == FutexInit /\ [][FutexNext]_futexVars

(* Threads that are running go on: all steps but the two that start a syscall. *)
FutexFairSpec ==
    /\ FutexSpec
    /\ \A k \in Wakers : WF_futexVars(WakeJoin(k)) /\ WF_futexVars(Match(k))
                         /\ WF_futexVars(SeesEnough(k) \/ Backoff(k))
                         /\ WF_futexVars(\E W \in SUBSET Waiters : KernelWake(k, W))
    /\ \A w \in Waiters : WF_futexVars(WaitWoken(w)) /\ WF_futexVars(WaitJoin(w))
-----------------------------------------------------------------------------
(* The counters stay naturals: neither subtraction wraps below zero. *)
FutexTypeOK ==
    /\ maxAllowed \in Nat /\ unmatched \in Nat /\ failed \in BOOLEAN
    /\ \A k \in Wakers : waker[k].pc \in {"app", "start", "end", "match", "sleep", "lock"}

(* The sum of f over the wakers: the size of the disjoint union of f[k] things each. *)
Shares(f) == UNION {{k} \X (1 .. f[k]) : k \in Wakers}
Total(f) == Cardinality(Shares(f))

(* What a wake in progress still counts for in maxAllowedFutexWakeups. *)
Allowance(k) == IF waker[k].pc \in {"start", "end"} THEN waker[k].maxWakes
                ELSE waker[k].wokenUp

(* The allowance is exactly that of the wakes in progress: it does not leak, and *)
(* its subtractions do not wrap, whether the waits are matched or given up.      *)
AllowanceExact == maxAllowed = Total([k \in Wakers |-> Allowance(k)])

(* Threads woken that have not joined, and what each wake in progress woke. *)
InFlight == {w \in Waiters : waiter[w] \in {"woken", "joining"}}
Woke == [k \in Wakers |-> waker[k].wokenUp]

(* Threads that were woken and have not joined, or joined and are not matched,   *)
(* are those the wakes in progress wait for, until one gives up.                *)
WakesBalance == ~gaveUp => Cardinality(InFlight) + unmatched = Total(Woke)

(* futexWakeJoin's assertions: no wake woke more threads than it asked for, and no *)
(* more threads have joined than the wakes in progress account for.  Once a waker *)
(* has given up, the thread it no longer waits for is counted for another one's.  *)
NoFutexAssertFails == ~gaveUp => ~failed

(* A thread that woke others gets to join, without giving up, once no more wakes  *)
(* are started: those in progress take each other's threads (the recheck under    *)
(* the lock), but none is left short.  While wakes go on, one may be starved.     *)
WakerJoins ==
    <>[][\A k \in Wakers, n \in MaxWakes : ~WakeStart(k, n)]_futexVars
        => \A k \in Wakers : waker[k].pc = "end" ~> waker[k].pc = "app"

(* The two counters of the matching are exact: neither wraps or leaks, and until a  *)
(* waker gives up they balance, as the assertion of futexWakeJoin says.            *)
FutexCountersExact == FutexTypeOK /\ AllowanceExact /\ WakesBalance /\ NoFutexAssertFails
=============================================================================
