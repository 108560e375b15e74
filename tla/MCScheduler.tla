---------------------------- MODULE MCScheduler ----------------------------
(***************************************************************************)
(* The scheduler with three threads on two cores, the first thread bound to  *)
(* the first core; and, on its own, the matching of futex wakes.  Which of    *)
(* the two a behaviour is about is chosen at its start; the other one stays    *)
(* in its initial state.                                                     *)
(***************************************************************************)
EXTENDS Scheduler, FutexMatching

CONSTANTS t1, t2, t3, c1, c2

VARIABLE part

MCThreads == {t1, t2, t3}
MCCores == {c1, c2}
MCMask == t1 :> {c1} @@ t2 :> {c1, c2} @@ t3 :> {c1, c2}

mcVars == <<part, vars, futexVars>>

MCInit == part \in {"scheduler", "futex"} /\ Init /\ FutexInit
MCNext == \/ part = "scheduler" /\ Next /\ UNCHANGED <<part, futexVars>>
          \/ part = "futex" /\ FutexNext /\ UNCHANGED <<part, vars>>

MCSpec == MCInit /\ [][MCNext]_mcVars

(* The fairness of FairSpec and of FutexFairSpec: a part that was not chosen has    *)
(* no step to take.                                                            *)
S(A) == part = "scheduler" /\ A /\ UNCHANGED <<part, futexVars>>
T(A) == part = "futex" /\ A /\ UNCHANGED <<part, vars>>
MCFairSpec ==
    /\ MCSpec
    /\ \A t \in Threads : /\ WF_mcVars(S(join(t)))
                           /\ WF_mcVars(S(Woken(t)))
                           /\ SF_mcVars(S(sync(t)))
                           /\ WF_mcVars(S(SyncReturns(t)))
                           /\ WF_mcVars(S(syscallLeave(t, TRUE)))
                           /\ WF_mcVars(S((FinishLeaves(t) \/ FinishEnds(t))))
    /\ WF_mcVars(S(WatchdogTick))
    /\ \A k \in Wakers : /\ WF_mcVars(T(WakeJoin(k)))
                          /\ WF_mcVars(T(Match(k)))
                          /\ WF_mcVars(T(SeesEnough(k) \/ Backoff(k)))
                          /\ WF_mcVars(T(\E W \in SUBSET Waiters : KernelWake(k, W)))
    /\ \A w \in Waiters : WF_mcVars(T(WaitWoken(w))) /\ WF_mcVars(T(WaitJoin(w)))

(* Whoever waits goes on: a queued thread gets a core, a sleeper wakes up also    *)
(* when nobody runs, and a thread that woke others gets to join once no more      *)
(* wakes are started.                                                            *)
WaitersGoOn == QueuedRuns /\ SleepEnds /\ WakerJoins
=============================================================================
