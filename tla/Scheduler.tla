----------------------------- MODULE Scheduler -----------------------------
(***************************************************************************)
(* scheduler.h: which simulated thread runs on which simulated core.  Every *)
(* call holds schedLock from its start to the point where it waits, so it   *)
(* is one step; a call that releases the lock on its way (finish, the        *)
(* watchdog) is two.  The barrier is Barrier with room for all cores: a core *)
(* is out of it, running, or waiting for the end of the phase.              *)
(*                                                                         *)
(* Phases are counted as the code uses them: how many are left of a sleep   *)
(* (wakeupPhase - curPhase) and of the quantum.                             *)
(***************************************************************************)
EXTENDS SequencesExt

CONSTANTS
    Threads, Cores,
    Mask,           \* thread -> the cores it may run on
    schedQuantum,   \* in phases
    Sleeps,         \* the lengths of sleeps, in phases
    RealLeaves,     \* of a syscall that is no sleep: may leave() be called at once?
    Stalls,         \* the watchdog may find a phase stalled by fake leaves
    Mortal          \* threads whose process may be killed

None == "none"
NoLeave == <<None, None>>

ASSUME SchedulerAssumption ==
    /\ IsFiniteSet(Cores) /\ Cores # {} /\ None \notin Threads \cup Cores
    /\ Mask \in [Threads -> SUBSET Cores] /\ \A t \in Threads : Mask[t] # {}
    /\ schedQuantum \in Nat \ {0} /\ Sleeps \subseteq Nat \ {0}
    /\ RealLeaves \subseteq BOOLEAN /\ Stalls \in BOOLEAN /\ Mortal \subseteq Threads

VARIABLES
    s,          \* the Scheduler object and the barrier
    pc,         \* where each thread is
    dead,       \* threads of a killed process, not yet cleaned up
    wd,         \* the watchdog's leave() in progress: <<thread, core>>
    stalled     \* history: the watchdog has made a fake leave a real one

vars == <<s, pc, dead, wd, stalled>>

Init ==
    /\ s = [th |-> [t \in Threads |->
                [state |-> "NEW", cid |-> CHOOSE c \in Cores : TRUE, handoffThread |-> None,
                 futexWord |-> 0, markedForSleep |-> FALSE, left |-> 0]],
            curThread |-> [c \in Cores |-> None],
            freeList |-> SetToSeq(Cores), runQueue |-> << >>, outQueue |-> << >>,
            sleepQueue |-> << >>, fakeLeaves |-> << >>,
            bar |-> [c \in Cores |-> "off"], quantum |-> 0, failed |-> None]
    /\ pc = [t \in Threads |-> "new"]
    /\ dead = {} /\ wd = NoLeave /\ stalled = FALSE
-----------------------------------------------------------------------------
(* The assertion named a has failed: the simulator stops. *)
Fail(z, a) == [z EXCEPT !.failed = a]

(* The first element of q that is in S. *)
FirstIn(q, S) == LET I == {i \in DOMAIN q : q[i] \in S}
                 IN  IF I = {} THEN None ELSE q[Min(I)]

schedule(z, t, c) == [z EXCEPT !.th[t].state = "RUNNING", !.th[t].cid = c,
                               !.curThread[c] = t]
deschedule(z, t, target) == [z EXCEPT !.th[t].state = target,
                                      !.curThread[z.th[t].cid] = None]
wakeup(z, t) == IF z.th[t].futexWord # 1 THEN Fail(z, "wakeup")
                ELSE [z EXCEPT !.th[t].futexWord = 0]
Wait(z, t) == [z EXCEPT !.th[t].state = "QUEUED", !.th[t].futexWord = 1,
                        !.runQueue = Append(@, t)]

(* schedThread: the thread's last core, a free one, or that of a thread that is *)
(* OUT, which is then BLOCKED.                                                  *)
SchedThreadNoSteal(z, t) ==
    LET last == z.th[t].cid
    IN  IF z.curThread[last] = None /\ last \in Mask[t] THEN last
        ELSE FirstIn(z.freeList, Mask[t])
SchedThread(z, t) ==
    LET last == z.th[t].cid
        free == FirstIn(z.freeList, Mask[t])
        out == FirstIn(z.outQueue, {o \in Threads : z.th[o].cid \in Mask[t]})
    IN  IF z.curThread[last] = None /\ last \in Mask[t] THEN last
        ELSE IF free # None THEN free
        ELSE IF out # None THEN z.th[out].cid ELSE None
TakeWithoutJoin(z, t, c) ==
    LET o == z.curThread[c]
        y == IF o = None THEN [z EXCEPT !.freeList = RemoveFirst(@, c)]
             ELSE deschedule([z EXCEPT !.outQueue = RemoveFirst(@, o)], o, "BLOCKED")
    IN  schedule(y, t, c)
TakeCore(z, t, c) ==
    LET o == z.curThread[c]
        y == IF o = None THEN [z EXCEPT !.freeList = RemoveFirst(@, c)]
             ELSE deschedule([z EXCEPT !.outQueue = RemoveFirst(@, o)], o, "BLOCKED")
    IN  schedule([y EXCEPT !.bar[c] = "run"], t, c)

(* schedContext *)
SchedContext(z, c) == FirstIn(z.runQueue, {t \in Threads : c \in Mask[t]})
HandOver(z, t, c) ==        \* c goes to t without leaving the barrier
    wakeup(schedule([z EXCEPT !.runQueue = RemoveFirst(@, t)], t, c), t)

(* schedTick: each queued thread, in turn, gets a core that is left and that it *)
(* may run on, the first of a random order; who runs there will hand it over.  *)
(* The threads without one stay queued, in their order.                        *)
Matches(z) ==
    LET q == z.runQueue
        Left(m, i) == Mask[q[i]] \ {m[j] : j \in 1 .. i - 1}
    IN  {m \in [DOMAIN q -> Cores \cup {None}] :
            \A i \in DOMAIN q : IF Left(m, i) = {} THEN m[i] = None ELSE m[i] \in Left(m, i)}
Unmatched(m) == {i \in DOMAIN m : m[i] = None}
InOrder(I) == {f \in [1 .. Cardinality(I) -> I] : \A i, j \in DOMAIN f : i < j => f[i] < f[j]}

TickKeepsQueued(z) ==
    {[z EXCEPT !.th = [u \in Threads |->
        IF \E i \in DOMAIN m : m[i] # None /\ z.curThread[m[i]] = u
        THEN [z.th[u] EXCEPT !.handoffThread =
                 z.runQueue[CHOOSE i \in DOMAIN m : m[i] # None /\ z.curThread[m[i]] = u]]
        ELSE z.th[u]]] : m \in Matches(z)}
schedTick(z) ==
    UNION {IF \E i \in DOMAIN m : m[i] # None /\ z.curThread[m[i]] = None
           THEN {Fail(z, "schedTick")}
           ELSE {[z EXCEPT !.th = [u \in Threads |->
                     IF \E i \in DOMAIN m : m[i] # None /\ z.curThread[m[i]] = u
                     THEN [z.th[u] EXCEPT !.handoffThread =
                              z.runQueue[CHOOSE i \in DOMAIN m :
                                             m[i] # None /\ z.curThread[m[i]] = u]]
                     ELSE z.th[u]],
                           !.runQueue = [i \in DOMAIN f |-> z.runQueue[f[i]]]] :
                     f \in InOrder(Unmatched(m))} :
           m \in Matches(z)}

(* callback: the end of a phase.  The sleepers at the front of their queue whose   *)
(* time is over, wakeupPhase = curPhase, are woken up.                            *)
Sleepers(z) == {t \in Threads : z.th[t].state = "SLEEPING"}
DueFront(z) == {n \in 0 .. Len(z.sleepQueue) :
                  /\ \A i \in 1 .. n : z.th[z.sleepQueue[i]].left <= 1
                  /\ n < Len(z.sleepQueue) => z.th[z.sleepQueue[n + 1]].left > 1}
PhaseOver(z, n) ==
    LET up == {z.sleepQueue[i] : i \in 1 .. n}
    IN  IF \E t \in up : z.th[t].left # 1 \/ z.th[t].futexWord # 1
        THEN Fail(z, "callback")
        ELSE [z EXCEPT !.th = [t \in Threads |->
                  IF t \in up THEN [z.th[t] EXCEPT !.state = "BLOCKED", !.left = 0, !.futexWord = 0]
                  ELSE IF t \in Sleepers(z) THEN [z.th[t] EXCEPT !.left = @ - 1]
                  ELSE z.th[t]],
                       !.sleepQueue = SubSeq(@, n + 1, Len(@)),
                       !.quantum = (@ + 1) % schedQuantum]
callback(z) ==
    UNION {LET y == PhaseOver(z, n)
           IN  IF y.failed # z.failed \/ y.runQueue = << >> \/ y.quantum # 0 THEN {y}
               ELSE schedTick(y) :
           n \in DueFront(z)}

(* checkEndPhase of the barrier. *)
EndPhase(z) ==
    IF (\E c \in Cores : z.bar[c] = "run") \/ (\A c \in Cores : z.bar[c] = "off") THEN {z}
    ELSE {[y EXCEPT !.bar = [c \in Cores |-> IF y.bar[c] = "wait" THEN "run" ELSE y.bar[c]]] :
              y \in callback(z)}

(* The sleep queue is ordered by wakeup phase, first come first among equals. *)
PutToSleep(z, t) ==
    LET later == {i \in DOMAIN z.sleepQueue : z.th[z.sleepQueue[i]].left > z.th[t].left}
        i == IF later = {} THEN Len(z.sleepQueue) + 1 ELSE Min(later)
    IN  [z EXCEPT !.sleepQueue = InsertAt(@, i, t), !.th[t].markedForSleep = FALSE]

leave(z, t, c) ==
    LET in == SchedContext(z, c)
    IN  IF z.curThread[c] # t \/ z.th[t].state # "RUNNING" THEN {Fail(z, "leave")}
        ELSE IF z.th[t].markedForSleep
        THEN LET y == PutToSleep(deschedule(z, t, "SLEEPING"), t)
             IN  IF in # None THEN {HandOver(y, in, c)}
                 ELSE EndPhase([y EXCEPT !.bar[c] = "off", !.freeList = Append(@, c)])
        ELSE IF in # None THEN {HandOver(deschedule(z, t, "BLOCKED"), in, c)}
        ELSE EndPhase([z EXCEPT !.th[t].state = "OUT", !.bar[c] = "off",
                                !.outQueue = Append(@, t)])

InFakeLeave(z, t) == t \in ToSet(z.fakeLeaves)
finishFakeLeave(z, t) == [z EXCEPT !.fakeLeaves = RemoveFirst(@, t)]

Goto(t, l) == pc' = [pc EXCEPT ![t] = l]
Up == s.failed = None
Alive(t) == Up /\ t \notin dead
-----------------------------------------------------------------------------
start(t) ==
    /\ pc[t] = "new" /\ Up
    /\ s' = [s EXCEPT !.th[t].state = "STARTED"]
    /\ Goto(t, "joining")
    /\ UNCHANGED <<dead, wd, stalled>>

(* join *)
EarlyEnd(z, t) == IF z.th[t].state # "SLEEPING" THEN z
                  ELSE [z EXCEPT !.th[t].state = "BLOCKED", !.th[t].left = 0,
                                 !.sleepQueue = RemoveFirst(@, t)]
Joined(z, t) ==
    LET x == z.th[t]
        c == SchedThread(z, t)
    IN  IF InFakeLeave(z, t) THEN finishFakeLeave(z, t)
        ELSE IF x.markedForSleep \/ x.state \notin {"OUT", "BLOCKED", "STARTED"}
        THEN Fail(z, "join")
        ELSE IF x.state = "OUT"
        THEN [z EXCEPT !.th[t].state = "RUNNING", !.outQueue = RemoveFirst(@, t),
                       !.bar[x.cid] = "run"]
        ELSE IF c # None THEN TakeCore(z, t, c) ELSE Wait(z, t)
join(t) ==
    /\ pc[t] = "joining" /\ Alive(t)
    /\ s' = Joined(EarlyEnd(s, t), t)
    /\ Goto(t, IF s'.th[t].state = "QUEUED" THEN "waitCtx" ELSE "app")
    /\ UNCHANGED <<dead, wd, stalled>>

(* The thread comes back from waitForContext. *)
Woken(t) ==
    /\ pc[t] = "waitCtx" /\ Alive(t) /\ s.th[t].futexWord = 0
    /\ Goto(t, "app")
    /\ UNCHANGED <<s, dead, wd, stalled>>

(* sync, up to the barrier's wait, and from it. *)
sync(t) ==
    /\ pc[t] = "app" /\ Alive(t)
    /\ s' \in EndPhase([s EXCEPT !.bar[s.th[t].cid] = "wait"])
    /\ Goto(t, "inBar")
    /\ UNCHANGED <<dead, wd, stalled>>

Handoff(z, t) ==
    LET dst == z.th[t].handoffThread
        y == HandOver(deschedule([z EXCEPT !.th[t].handoffThread = None], t, "QUEUED"),
                      dst, z.th[t].cid)
        c == SchedThread(y, t)
    IN  IF c # None THEN TakeCore(y, t, c) ELSE Wait(y, t)
SyncReturns(t) ==
    /\ pc[t] = "inBar" /\ Alive(t) /\ s.bar[s.th[t].cid] = "run"
    /\ s' = IF s.th[t].handoffThread = None THEN s ELSE Handoff(s, t)
    /\ Goto(t, IF s'.th[t].state = "QUEUED" THEN "waitCtx" ELSE "app")
    /\ UNCHANGED <<dead, wd, stalled>>

markForSleep(t, n) ==
    /\ pc[t] = "app" /\ Alive(t)
    /\ s' = [s EXCEPT !.th[t].markedForSleep = TRUE, !.th[t].left = n, !.th[t].futexWord = 1]
    /\ Goto(t, "marked")
    /\ UNCHANGED <<dead, wd, stalled>>

(* syscallLeave: a sleep or a blacklisted call leaves, any other one pretends. *)
syscallLeave(t, blacklisted) ==
    /\ pc[t] \in {"app", "marked"} /\ Alive(t)
    /\ s' \in (IF s.th[t].markedForSleep \/ blacklisted THEN leave(s, t, s.th[t].cid)
               ELSE {[s EXCEPT !.fakeLeaves = Append(@, t)]})
    /\ Goto(t, "syscall")
    /\ UNCHANGED <<dead, wd, stalled>>

(* The syscall returns; a sleep may end early, and says so. *)
SyscallReturns(t) ==
    /\ pc[t] = "syscall" /\ Alive(t)
    /\ Goto(t, "joining")
    /\ UNCHANGED <<s, dead, wd, stalled>>

notifySleepEnd(t) ==
    /\ pc[t] = "syscall" /\ Alive(t) /\ s.th[t].state = "SLEEPING"
    /\ s' = EarlyEnd(s, t)
    /\ Goto(t, "joining")
    /\ UNCHANGED <<dead, wd, stalled>>

(* finish: a thread that is still running leaves first, with the lock released *)
(* in between.                                                                 *)
Finished(z, t) ==
    LET x == z.th[t]
        y == [z EXCEPT !.th[t].handoffThread = None]
    IN  CASE x.state = "QUEUED" /\ t \in ToSet(z.runQueue) ->
                [y EXCEPT !.th[t].state = "NEW", !.runQueue = RemoveFirst(@, t)]
          [] x.state = "OUT" ->
                [deschedule([y EXCEPT !.outQueue = RemoveFirst(@, t)], t, "NEW")
                    EXCEPT !.freeList = Append(@, x.cid)]
          [] x.state \in {"STARTED", "BLOCKED"} -> [y EXCEPT !.th[t].state = "NEW"]
          [] OTHER -> Fail(z, "finish")
FinishStart(z, t) ==
    IF InFakeLeave(z, t) \/ z.th[t].state = "RUNNING"
    THEN s' = finishFakeLeave(z, t) /\ Goto(t, "finishLeave")
    ELSE s' = Finished(z, t) /\ Goto(t, "gone")

finish(t) ==
    /\ pc[t] = "syscall" /\ Alive(t) /\ s.th[t].state # "SLEEPING"
    /\ FinishStart(s, t)
    /\ UNCHANGED <<dead, wd, stalled>>

FinishLeaves(t) ==
    /\ pc[t] = "finishLeave" /\ Up
    /\ s' \in leave(s, t, s.th[t].cid)
    /\ Goto(t, "finishEnd")
    /\ UNCHANGED <<dead, wd, stalled>>

FinishEnds(t) ==
    /\ pc[t] = "finishEnd" /\ Up
    /\ s' = Finished(s, t)
    /\ Goto(t, "gone")
    /\ UNCHANGED <<dead, wd, stalled>>
-----------------------------------------------------------------------------
(* The process is killed; some time later the watchdog finishes its threads. *)
Kill(t) ==
    /\ t \in Mortal /\ Alive(t)
    /\ pc[t] \notin {"new", "finishLeave", "finishEnd", "gone"}
    /\ dead' = dead \cup {t}
    /\ UNCHANGED <<s, pc, wd, stalled>>

processCleanup(t) ==
    /\ Up /\ t \in dead /\ pc[t] \notin {"finishLeave", "finishEnd", "gone"}
    /\ FinishStart(EarlyEnd(s, t), t)
    /\ UNCHANGED <<dead, wd, stalled>>

(* The watchdog: a phase stalled by fake leaves, whose first is made a real one *)
(* with the lock released in between; and time driven forward when all threads  *)
(* that hold a core are out of it and some sleep.                               *)
WatchdogFakeLeave ==
    /\ Up /\ Stalls /\ wd = NoLeave /\ s.fakeLeaves # << >>
    /\ LET t == Head(s.fakeLeaves)
       IN  /\ s' = finishFakeLeave(s, t)
           /\ wd' = <<t, s.th[t].cid>>
    /\ stalled' = TRUE
    /\ UNCHANGED <<pc, dead>>

WatchdogLeave ==
    /\ Up /\ wd # NoLeave
    /\ s' \in leave(s, wd[1], wd[2])
    /\ wd' = NoLeave
    /\ UNCHANGED <<pc, dead, stalled>>

NoneScheduled(z) == \A c \in Cores : z.curThread[c] = None
AllOut(z) == Cardinality({c \in Cores : z.curThread[c] # None}) = Len(z.outQueue)
WatchdogTick ==
    /\ Up /\ wd = NoLeave /\ AllOut(s) /\ s.sleepQueue # << >>
    /\ s' \in callback(s)
    /\ UNCHANGED <<pc, dead, wd, stalled>>
-----------------------------------------------------------------------------
Step(t) == \/ start(t) \/ join(t) \/ Woken(t) \/ sync(t) \/ SyncReturns(t)
           \/ \E n \in Sleeps : markForSleep(t, n)
           \/ \E b \in RealLeaves : syscallLeave(t, b)
           \/ SyscallReturns(t) \/ notifySleepEnd(t)
           \/ finish(t) \/ FinishLeaves(t) \/ FinishEnds(t)
           \/ Kill(t) \/ processCleanup(t)

Next == \/ \E t \in Threads : Step(t)
        \/ WatchdogFakeLeave \/ WatchdogLeave \/ WatchdogTick

Spec == Init /\ [][Next]_vars

(* Simulated code that runs again and again uses up its phase, be it between     *)
(* syscalls; waits end when they may; the watchdog keeps watching.  Nothing     *)
(* makes a syscall return.                                                      *)
FairSpec ==
    /\ Spec
    /\ \A t \in Threads : /\ WF_vars(join(t))
                           /\ WF_vars(Woken(t))
                           /\ SF_vars(sync(t))
                           /\ WF_vars(SyncReturns(t))
                           /\ WF_vars(syscallLeave(t, TRUE))
                           /\ WF_vars((FinishLeaves(t) \/ FinishEnds(t)))
    /\ WF_vars(WatchdogTick)
-----------------------------------------------------------------------------
(* States of threads, cores and queues; a thread that sleeps has time left to *)
(* sleep (callback wakes those whose time is over).                           *)
TypeOK ==
    /\ \A t \in Threads :
          LET x == s.th[t]
          IN  /\ x.state \in {"NEW", "STARTED", "RUNNING", "OUT", "BLOCKED", "SLEEPING", "QUEUED"}
              /\ x.cid \in Cores /\ x.handoffThread \in Threads \cup {None}
              /\ x.futexWord \in 0 .. 1 /\ x.left \in Nat
              /\ x.state = "SLEEPING" => x.left > 0
    /\ s.curThread \in [Cores -> Threads \cup {None}]
    /\ s.bar \in [Cores -> {"off", "run", "wait"}]
    /\ \A q \in {s.runQueue, s.outQueue, s.sleepQueue, s.fakeLeaves} :
          IsInjective(q) /\ ToSet(q) \subseteq Threads
    /\ wd \in (Threads \X Cores) \cup {NoLeave}

(* A core belongs to one thread, which is running on it or out of it, or is in  *)
(* the free list, once: whatever steals, hand-offs, sleeps and finishes have    *)
(* been between.                                                                *)
CoresExact ==
    /\ \A c \in Cores, t \in Threads :
          s.curThread[c] = t <=> s.th[t].state \in {"RUNNING", "OUT"} /\ s.th[t].cid = c
    /\ IsInjective(s.freeList)
    /\ ToSet(s.freeList) = {c \in Cores : s.curThread[c] = None}
    /\ ToSet(s.outQueue) = {t \in Threads : s.th[t].state = "OUT"}
    /\ ToSet(s.sleepQueue) = Sleepers(s)

(* The threads that will hand their core over to t. *)
Promises(t) == {u \in Threads : s.th[u].handoffThread = t}

(* A thread that wants a core is in the run queue, or is promised one by exactly *)
(* one thread that runs: it cannot be forgotten, nor woken twice, as long as no  *)
(* process is killed (finish forgets the promise of a thread it ends).          *)
NoThreadLost ==
    dead = {} => \A t \in Threads :
        /\ s.th[t].state = "QUEUED" =>
              /\ t \in ToSet(s.runQueue) <=> Promises(t) = {}
              /\ Cardinality(Promises(t)) <= 1
              /\ \A u \in Promises(t) : s.th[u].state = "RUNNING" /\ s.th[u].cid \in Mask[t]
        /\ s.th[t].state # "QUEUED" => Promises(t) = {}

(* No thread is queued for a core that is free or held by a thread that is out:  *)
(* what schedTick relies on ("we will never match anything in the freeList").   *)
WorkConserving ==
    \A t \in ToSet(s.runQueue) : \A c \in Mask[t] :
        s.curThread[c] # None /\ s.th[s.curThread[c]].state = "RUNNING"

(* The barrier counts the cores that run, killed threads' cores too.  A thread in *)
(* simulated code is never on a core that has ended its phase, unless a thread     *)
(* killed in the barrier's wait left it that core.                               *)
BarrierAgrees ==
    /\ \A c \in Cores : s.bar[c] # "off" <=>
          s.curThread[c] # None /\ s.th[s.curThread[c]].state = "RUNNING"
    /\ dead = {} /\ s.failed = None =>
          \A t \in Threads : pc[t] \in {"app", "marked"} =>
              s.th[t].state = "RUNNING" /\ s.bar[s.th[t].cid] = "run"

(* None of the assertions of join, leave, finish, schedTick and wakeup fails,    *)
(* until a process is killed or the watchdog ends a fake leave: its leave(), with  *)
(* the lock released before it, may find the thread back from its system call.   *)
NoAssertFails == dead = {} /\ ~stalled => s.failed = None

(* Who waits for a core gets one. *)
QueuedRuns == \A t \in Threads : s.th[t].state = "QUEUED" ~> s.th[t].state # "QUEUED"

(* Who sleeps wakes up, also when nobody runs. *)
SleepEnds == \A t \in Threads : s.th[t].state = "SLEEPING" ~> s.th[t].state # "SLEEPING"

(* Threads, cores, queues and barrier stay well formed and tell the same story,    *)
(* and none of the assertions about it fails.                                    *)
CoresAgree == TypeOK /\ CoresExact /\ BarrierAgrees /\ NoAssertFails
=============================================================================
