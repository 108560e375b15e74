# A TLA+ verification project for the ZSim memory interface

This directory holds TLA+ models of the simulator in `simulator-source/zsim-bsc/src`
(paths below are relative to it), the TLC configurations that check them on small
instances, and TLAPS proofs of the properties that matter most. `PROJECT.json` is the
machine-readable index: components, runs, mutants, the map from definitions to source
lines, hazards, findings, theorems.

Every definition is translated from the code; comments in the modules name the function.
Names follow the source (`onReadComplete`, `cpuReadyEpoch`, `checkEndPhase`, `lastIdx`).

## 1. The system

The program is a fork of zsim, a Pin-based simulator of multicore systems, whose
contribution is a multi-channel memory interface to cycle-accurate DRAM models
(Ramulator, Ramulator2, DRAMsim3, DRAMSys). It simulates in *phases*. In the **bound**
part of a phase the application's threads run, each on a simulated core, and charge
themselves estimated latencies. In the **weave** part, event-driven threads replay the
recorded accesses against the detailed memory models.

| Component | State | Operations | Interacts with |
|---|---|---|---|
| Phase barrier (`barrier.h`) | per core OFFLINE/WAITING/RUNNING/LEFT, futex word, `lastIdx`; run list, counters | `join`, `leave`, `sync` | called by the scheduler under its lock; wakes threads through futexes |
| Scheduler (`scheduler.{h,cpp}`) | threads, contexts, run/out/sleep queues, fake leaves, futex-wake counters | `start`, `finish`, `join`, `leave`, `sync`, `processCleanup`, watchdog | Pin callbacks, barrier, contention simulator |
| Core recorders | per-core state across the phases, gap cycles | `recordAccess`, `cSimStart`, `cSimEnd`, `addGap` | cores, events |
| Contention simulator (`contention_sim.*`) | domains, each with an event queue and a current cycle; sim threads; limits | `simulatePhase`, `enqueue*`, `simulatePhaseThread` | everything that records events |
| Event queue (`prio_queue.h`) | ring of blocks with occupancy bits, far-element map, current block | `enqueue`, `dequeue`, `firstCycle` | one per domain |
| Timing events and crossings (`timing_event.*`) | event state, parents, minimum start cycle; for a crossing `called`, `doneCycle` | `run`, `done`, `hold`/`release`, `markSrcEventDone` | domains of different threads |
| Memory controllers (`ramulator*`, `dramsim3*`, `dramsys*_mem_ctrl.cpp`) | in-flight map, parked requests, two clocks, estimators | `access` (bound), `enqueue`, `tick`, callbacks (weave) | caches above, a DRAM model below |
| DRAMSys runtime (`dramsys_runtime.*`) | shared clocks, epoch barrier, pending DRAM tick and leader | `reset`, `onControllerTick`, `finishDramTick` | all DRAMSys controllers, SystemC kernel |
| Bound estimators (`bound_mem_latency.h`) | per strategy, the latencies seen | `getMemLatency`, `updateModel`, `reset` | controllers |
| Caches and coherence (`cache*`, `coherence_ctrls*`) | MESI state, sharers, locks | `access`, `invalidate` | each other, hand over hand |
| Filter cache (`filter_cache.h`) | one line per set, read without a lock | `load`, `store`, `replace`, `invalidate` | the core above, the L1 below |
| Timing caches (`timing_cache.*`) | MSHRs, pending queue, port | hit, miss-start, writeback and replacement events | domains, caches |
| Prefetcher (`prefetcher.*`) | streams per page | `access`, `invalidate` | two cache levels |
| DDR controller (`ddr_mem.*`) | request and overflow queues, banks, activation window, scheduling event | `enqueue`, `tick`, `refresh` | domains |
| Network | load windows | – | caches |
| Cores, decoder, Pin glue, set-up, statistics | – | – | – |

### What makes each one correct, and what is hard about it

* **Memory controller.** Each access that reaches the weave phase is given to the DRAM
  model once and completed once, by the callback for its own request, with a latency
  that makes sense. Hard: the model's queues fill and accesses are parked; callbacks
  come in any order from inside a tick; equal addresses are in flight more than once;
  two accumulators relate two clocks for billions of cycles.
* **DRAMSys runtime.** Several controllers share one clock and one SystemC kernel: one
  leader, one advance per DRAM cycle, nobody left behind. Hard: the leader works outside
  the lock while others already see the next cycle, and controllers may be driven by
  different threads.
* **Event queue.** Events come out in cycle order. Hard: a ring that wraps, a far map
  that is emptied only every half turn, and a `firstCycle` that must agree with the
  `dequeue` that follows it.
* **Barrier.** Every core gets one turn per phase, at most `parallelThreads` at once, and
  no wakeup is lost. Hard: leaving and rejoining in mid-phase, compaction and shuffling
  of the list that cached positions point into, processes killed inside the barrier.
* **Contention simulator and crossings.** No event runs in its domain's past. Hard:
  domains advance in different threads and look at each other's cycles without locks.
* **Coherence.** One writer or many readers. Hard: invalidations cross upgrades and
  evictions, locks are taken up and down one tree, and filter hits take none.
* **Recorders.** A core's clock with contention is never behind the one without. Hard:
  cores leave and rejoin while their last events are still in the weave phase.
* **Timing cache, DDR controller, prefetcher.** Nothing waits for a resource that is free,
  nothing is passed over for ever, and cycles and positions keep their meaning when they
  are divided, wrapped or truncated.
* **Scheduler.** Every runnable thread gets a core and every sleeper is woken. Hard:
  system calls, fake leaves, the futex-wake heuristics and their time-out.

The list of hazards, each at the line where it bites, is in `PROJECT.json`.

## 2. The modules and how they correspond to the code

| Module | Models |
|---|---|
| `DramClock` | the `cpuPs`/`dramPs` synchroniser that all four memory interfaces contain |
| `RamulatorMemCtrl` | `ramulator_mem_ctrl.cpp`, between the bound phase and the DRAM model |
| `WeaveController` | what the other three weave controllers share: `access`, events, ticks, parked requests |
| `DRAMsim3MemCtrl`, `Ramulator2MemCtrl`, `DRAMSysMemCtrl` | the three controllers (and `dramsys_wrapper.cpp`), each extending `WeaveController` |
| `DRAMSysRuntime` | `dramsys_runtime.cpp` and the part of `DRAMSysMemory::tick` that calls it |
| `BoundMemLatency` | `bound_mem_latency.h`: the estimators of the bound phase |
| `EventQueue` | abstract specification: what a domain needs of its event queue |
| `PrioQueue` | `prio_queue.h`; implements `EventQueue` |
| `ContentionSim` | `contention_sim.cpp` and `timing_event.*`: threads, domains, phases, crossings |
| `Barrier` | `barrier.h`, with `Scheduler::processCleanup` as the killer of processes |
| `Scheduler` | `scheduler.{h,cpp}`: threads on cores, above the barrier |
| `FutexMatching` | the part of `scheduler.cpp` that matches futex wakes with waits |
| `Coherence` | `coherence_ctrls.*`, `cache.cpp`, `filter_cache.h`: MESI in a tree of caches |
| `TimingCache` | `timing_cache.cpp`: MSHRs and port of a bank |
| `CoreRecorder`, `OOOCoreRecorder` | `core_recorder.cpp`, `ooo_core_recorder.cpp` |
| `StreamPrefetcher` | `prefetcher.*` |
| `DDRClock`, `DDRMemory` | `ddr_mem.*`: cycle translation; queues, banks, scheduling |
| `MC…` | instances for TLC |
| `…Proofs` | lemmas, theorems and proofs |

`RamulatorMemCtrl`, `WeaveController` and `DRAMSysRuntime` extend `DramClock`; `DDRMemory`
extends `DDRClock`. Models of parts that do not interact, or several instances of one
model, share an MC module: a variable chosen in the initial state says which one a
behaviour is about, the variables of the others keep their first values, and fairness is
asked only of the chosen one.

### RamulatorMemCtrl

State: `clk` (the four clock fields), `isBoundPhase`, `notQueued` (`notQueuedRequests`; a
set of events whose `order` field gives the vector's order), `inflight`
(`inflightRequests`), `est` (the estimators, one per core), `st` and `acc` (state and
fields of each `RamulatorAccEvent`). `backend` holds the requests the DRAM model has
accepted. `phase`, `phaseNum` and `tickCycle` are the domain's side of the bound-weave
alternation.

* `access` is `Ramulator::access`, estimator reset included. Requests of a phase carry
  cycles of that phase; the event starts then, or up to `MaxSkew` later when its parents
  are late.
* `enqueue` is `RamulatorAccEvent::simulate` and `Ramulator::enqueue`. Its guard is the
  domain's order: no queued event or tick of an earlier cycle is left.
* `Tick` is all of `Ramulator::tick`: `pushInFlights` (at most `MaxTries` offers, in
  vector order), the clocks and, when due, one tick of the DRAM model with all the
  callbacks it makes. A set `sent` of the tried events is accepted; a refused one must
  find its queue full. A callback picks any in-flight event that `onReadComplete`'s
  search can stop at, *including* the first of the next address when the search falls off
  its range: the code tests only for the end of the map.
* The DRAM model is third-party. What is assumed of it is visible in `Controller.h`: a
  request is refused only when the queue of its type is full, an accepted request is
  called back once. The properties do not depend on when.
* `StartWeave` and `EndWeave` stand for `ContentionSim::simulatePhase` and the loop of
  `simulatePhaseThread` for a domain.

Left out: profiling counters and the per-core tracker (nothing reads them back), MESI
state returned to the caller, processes other than the first (their `tick` returns at
once).

### WeaveController and its three controllers

The state common to the three is that of `RamulatorMemCtrl`, with the parked requests a
sequence. What differs is how a completion finds its event, and that is what each module
adds.

* `DRAMsim3MemCtrl`: a callback carries an address, and the first in-flight event of the
  address is completed, read or write (`onWriteComplete` calls `onReadComplete`).
* `Ramulator2MemCtrl`: writes are done when accepted; a read is searched for by address and
  core, and the search may run past its range as in Ramulator.
* `DRAMSysMemCtrl`: every attempt to send takes a new tag; the wrapper has one slot until
  `END_REQ`, and responses come in any order, also to a request still in the slot, into a
  queue that is drained once per tick. The meeting of several controllers is
  `DRAMSysRuntime`.

### DRAMSysRuntime

One action per critical section: `onControllerTick` (with the spin as a guard: the call
takes effect when it no longer has to wait), `advanceSystemOneCycle` by the leader outside
the lock, `finishDramTick`. `StartTick` is the weave thread taking a controller's
`TickEvent`: the ticks of one domain come in cycle order and a thread is inside one tick at a
time, but domains are not ordered with each other inside a phase (threads run freely, and a
thread puts a domain that stalls on a crossing aside and runs its others). `rejected` records the
panic for a future cycle, after which nobody starts or reports a tick.

### PrioQueue and EventQueue

`dequeue` is split at the iterations of its loop (`dequeue`, `nextBlock`, `takeFirst`), so
that invariants are checked at every position of `curBlock`. A slot is a set: the LIFO
order inside one cycle is not promised to anyone. `curCycle` is the domain's cycle, which
`ContentionSim::enqueue` compares against. The ring's size `B` and the block's width `W`
are parameters.

### Barrier

`join`, `leave` and `sync` run under the scheduler's lock and are one step each, with all
that `tryWakeNext` does (`checkRunList`, `checkEndPhase`, `checkRunList`). Returning from
the futex wait is a step of its own (`resume`). The scheduler's callback at the end of a
phase runs the weave and does not touch the barrier. The random shuffle is a choice of any
permutation. `lastIdx` of a core that joins from OFFLINE is any position: the code does
not set it. `phaseCount` is kept modulo the cleanup period, here `CleanupPeriod` for 32.
`ran` and `where` are history and location of the threads, `idx` says whether a core's `lastIdx` has
been set since it came from OFFLINE; they are not fields of the code.

### ContentionSim

A transaction is the chain of events a miss leaves: the core's event, a crossing to the
memory's domain, the access, and for a read the crossing back and the response.
A thread's step is one event, but `CrossingEvent::simulate` is cut where the code reads
another thread's data: the `called` flag, the source domain's cycle, the flag again. A
thread of several domains follows the loop with the stalled-domain queue. Which thread has
which domain is the set-up variable `owner`. `done` of the source (`markSrcEventDone`) is
one step: its two writes are seen in order on the machines Pin runs on. Event allocation
and records with more than two crossings are left out.

### Scheduler and FutexMatching

Every call holds `schedLock` until it returns or waits and is one step; `finish` and the
watchdog, which release the lock on their way, are two. The barrier is the abstraction of
`Barrier` with room for all cores. Sleeps and quanta count the phases left. A system call
is on the blacklist or not, by choice; `stalled` is history (the watchdog has turned a fake
leave into a real one). `waitUntilQueued` is left out: a woken thread may
return at any later time, which allows more.

`FutexMatching` has the two counters and the wakers' loop with the unlocked look, the
locked second look, and giving up (when `Timeouts`). The kernel wakes any waiting threads,
up to the number asked for. Wakes from outside and failing system calls are left out.
`gaveUp` is history.

### Coherence

A thread is a stack of calls, an access climbing the tree or an invalidation descending
it; a step lasts from one lock acquisition to the next. `CheckForMESIRace` is evaluated
after the parent's lock is taken, as in the code. The filter cache hits without a lock.
Any line of a full cache may be the victim. `dirty` is history: which cache holds data the
memory does not have. Left out: non-inclusive caches, forwarding invalidates, NOEXCL and
prefetch flags, `PUTX_KEEPEXCL` and process masks.

### TimingCache, recorders, estimators, prefetcher, DDR controller

* `TimingCache`: one action per event type; what a miss does below is a delay. `used` and
  `clash` are history of the port.
* `CoreRecorder`, `OOOCoreRecorder`: one core, its recorded chain or graph of events, joins
  and leaves in the bound phase, `cSimStart`, the simulation of the recorded events with any
  latencies, `cSimEnd`. The phase's end is tested once per basic block, so accesses go on past
  it; a core that is beyond the next phase too stays in the barrier (`waits`). Writebacks and
  prefetches recorded beside a miss are left out.
* `BoundMemLatency`: the last-seen, maximum, average and windowed-average strategies.
  Doubles are exact fractions; a value half way between two integers may be rounded either
  way. The fixed strategy is a constant; the moving average keeps an unbounded double.
* `StreamPrefetcher`: one entry with machine words of 256 values for 2^32; `invalidate`
  takes no lock and is two steps. Which entry is replaced is left open.
* `DDRMemory`: one rank, writes deferred. `DDRClock` has the two translations between CPU
  and memory cycles. Address mapping, statistics and the free list of requests are left
  out.

## 3. What the runs check

| Run | Instance | Shows |
|---|---|---|
| `RamulatorMemCtrl` | 3 accesses, 2 cores, queues of 1, 1 try per tick, periods 2:3, phases of 2 cycles; 2 addresses in one phase, or 1 address in two (1.7 million states) | nothing lost, duplicated or mismatched; clocks in step; latencies do not wrap; one estimate per core and phase |
| `WeaveControllers` | each of the three controllers, 3 accesses; 2 addresses for DRAMsim3, 2 cores and 2 addresses for Ramulator2, 2 phases of accesses for DRAMSys; a prefetcher with two pages of 4 lines, or one of 9 or 13 (2.2 million) | an access is in one place; tags and address maps agree with the model; Ramulator2's search never leaves its range; a prefetch is for the stream's next line, or behind an ascending stream of stride two or more that has overtaken its prefetches |
| `MemoryLiveness` | Ramulator and DRAMSys with 2 accesses, DDR with 4 requests and queues of 2, a cache with 3 requests and 1 MSHR, each estimator with latencies 3 and 80; fair | parked, overflowing, deferred and held requests are served; estimates stay in range and converge |
| `DRAMSysRuntime` | 3 controllers in three domains on three threads, up to the panic for a future cycle, or in one domain as in all the experiments; fair | one advance per DRAM cycle, barrier exact, every tick ends; in one domain nobody is rejected and all finish |
| `PrioQueue` | 3 events, ring of 4 blocks of 2 cycles, cycles up to 19, fair | bookkeeping, far map, `firstCycle`, refinement of `EventQueue`, `dequeue` ends |
| `Barrier` | 4 cores, or 3 of them with fairness, 2 at a time, one may be killed | list and counters exact, no wakeup lost, fair turns, `lastIdx` right while its core has had a turn; a waiting core runs or is taken out |
| `BarrierKillRejoin` | 3 cores, 2 at a time, all may be killed | **violation**: see the finding below |
| `Coherence` | 2 cores, private L2s of one line, shared L3 of two, 2 lines (1 million) | one writer, filters backed, directory exact, dirty data kept, no assertion fails, no order of locks blocks |
| `ContentionSim` | 3 transactions, at most 2 recorded in a phase, 2 domains on one thread or on two, crossings both ways, 2 phases; fair (314,000) | crossings neither early nor late, nothing in the past or before its minimum start, no dead target, phases end |
| `Scheduler` | 3 threads (one bound to a core) on 2 cores, sleeps of 1 and 2, quantum 2, stalls and a kill; 2 wakers and 3 waiters that may give up (1.7 million) | cores, queues and barrier agree, no thread is lost, no core idles while a thread queues; futex counters exact |
| `SchedulerLiveness` | the same with quantum 1 and no faults, fair | a queued thread runs, a sleeper wakes, a waker joins |
| `WeaveModels` | DDR with one bank (5 requests, refreshes) and with three; a cache with 4 requests and 2 MSHRs; both recorders over 4 or 5 phases (4 million) | scheduling event on time, row hits limited, activations spaced; MSHRs and port exact; skew never negative, no recorded graph points to a freed event |

A property of a run is often a conjunction of named parts, each with its own comment:
`Coherent` of `SingleWriter` and `DirectoryExact`, `NoEventEarly` of `NothingInThePast` and
`MinStartRespected`, and so on. The type invariant of a module is one of the parts (for
`DRAMSysRuntime`, as for `OneLeader` and `SharedClocksInStep`, it is proved and not run).

**Parts that are conditional**, because the code does not keep them without the condition:
`MinStartRespected` is required of threads with one domain; `BarrierAgrees` and the
scheduler's `NoAssertFails` (in `CoresAgree`) stop at a stall that the watchdog has turned into
a leave or at a kill inside the barrier; `WakesBalance` and `NoAssertFails` of the futex
counters (in `FutexCountersExact`) end when a waker gives up; the out-of-order recorder
is run on a thread with one domain. DRAMsim3 has one core, and `CompletionsMatch` counts by
address: which core's access of an address a callback completes is not told apart. What
happens outside the conditions is listed under "Other observations"; the hazards whose
failing case lies there say so in `PROJECT.json`.

**Bounds and why they are enough.** *Ramulator:* with depth-one queues a second request of
a type is refused at once, so parking, retry and the eight-try limit (one here) all occur
with three accesses, and one address with two cores, or two addresses with one, gives the
searches of `onReadComplete` equal addresses, foreign cores and a next range to fall into.
Periods 2:3 tick the DRAM in some cycles and not in others and make the accumulators meet
every six picoseconds. The other controllers are bounded the same way. *Runtime:* eight
cycles are more than two full patterns of the periods; three controllers give a last, a
first and one in between. *PrioQueue:* 20 cycles are ten blocks, two and a half turns of the
ring, five moves from the far map. *Barrier:* with four cores and two places there are always
waiting cores, leavers before and after the current position, and a cleanup every second
phase. *Coherence:* one line per private cache makes every second access an eviction, and
two lines in the shared level make it invalidate into both. *ContentionSim:* opposite
crossings make two domains wait for each other; a second transaction of one core makes a
chained crossing; events cross the phase's end. With no bound-phase gap the crossing back
may start one cycle before the limit, before the access has ended, so that with two threads
both kinds of crossing are polled before they are called. Two of the three transactions are
recorded in one phase at most (`MaxRecords`). *Scheduler:* more threads than cores, one of
them bound. *WeaveControllers:* a stream of stride two gets two strides ahead of its last
prefetch from a page of seven lines on. Two pages are run with four lines, all of them
read and invalidated; for streams of stride two a page of nine lines and for stride three
one of thirteen, of which six are read and two invalidated (`ReqPos`, `InvPos`), let the
prefetches fall three strides behind. *WeaveModels:* more requests than queue entries and
than MSHRs; more banks than activations in a window; an out-of-order core that makes three
accesses, or two and rejoins. Each bound is a named constant (`AccessPhases`, `MaxPhases`,
`MaxSkew`, `MaxStall`, `MaxCycle`, `MaxReqs`, `MaxRefreshes`, `MaxAccesses`, `MaxJoins`,
`MaxRecords`, `ReqPos`, `InvPos`).

**Symmetry** is used for cores and lines, in safety runs only.

**Deadlock** is checked in `PrioQueue`, `Coherence` and `ContentionSim` (where the last
phase's end may stutter). The other runs end at their last phase, cycle or request, or
where a failed assertion stops the simulator; `NobodyStuck`, `SchedulerOnTime`, `WaitingRuns`
and the other liveness properties say there that nothing stops earlier.

**Fairness.** Weave threads never stop in the middle of a phase and take event after event,
hence weak fairness of `Tick`, `enqueue`, `EndWeave`, of every controller's and every
simulation thread's `Step`, of the DDR tick and refresh and of the cache's events; the
scheduler starts a weave after each bound phase (`StartWeave`). `MaxStall` says that a
DRAM model does not keep accepted requests for ever. `reset` of an estimator happens in each
phase with an access. In `PrioQueue` the thread inside `dequeue` goes on. In `Barrier` and
`Scheduler` a woken thread resumes, and a running one gets to the end of its phase, because
what it does while running uses up the phase's cycles (strong fairness of `sync`); `leave`,
`markForSleep`, kills and ends of threads are never forced, but a thread that has begun to
leave or finish goes on, and the watchdog runs. System calls that wait for other threads need
not return. In `FutexMatching` every thread inside the matching goes on; a new wake or wait is
never forced.

**Mutants.** Each property of a passing run has a mutant in `PROJECT.json`: a changed form
of a mapped definition (a dropped reset, a swapped order, an off-by-one) under which TLC
finds the property violated.

### Finding

`BarrierKillRejoin`: `join` from OFFLINE puts the core on the run list without setting
`lastIdx`; only a wakeup sets it. A core whose process is killed while it still waits for
its *first* turn is taken out from WAITING by the watchdog (`processCleanup`). When the core
is next given a thread and rejoins from LEFT in the phase, `join` reads that `lastIdx` and
`assert(tid == runList[lastIdx])` can fail. It needs more runnable cores than
`parallelThreads`. A stale `lastIdx` can also make the core miss its turn in the phase.

### Other observations

Met while modelling, with counterexamples of TLC when the condition named above is dropped;
no run keeps them.

* `dramsim3_mem_ctrl.cpp:285`: a write's acknowledgement may complete an older read of the
  same line and feed its latency so far to the estimator, against the comment at 309-310.
* `contention_sim.cpp:401`: the loop for stalled domains calls `simulate` without the test of
  the minimum start cycle that `run` makes (`timing_event.h:167`); an event may be simulated
  early and `cSimEnd` panics about a negative skew.
* `scheduler.cpp:158`: the watchdog finishes a fake leave and releases the lock before
  `leave`; a thread that returns in between finds itself RUNNING and fails the assertion
  of `join` (`scheduler.h:313`).
* `scheduler.h:249`: a thread killed in the barrier with a hand-off assigned by `schedTick`
  leaves without making it; the comment at 268 says that this does not happen. Its core, which
  has arrived at the barrier already, may be given to a queued thread that then runs in a
  phase the core has ended.
* `scheduler.cpp:361`: after a waker gave up, its woken thread is counted for another wake,
  and the assertion at 346 can fail. A futex call that returns an error keeps its allowance.
* `contention_sim.cpp:371` against 303: a thread with several domains simulates the events of
  the limit cycle in this phase, one with a single domain in the next. The taper event of the
  out-of-order recorder is one of them, so that a RUNNING core may be without one
  (`ooo_core_recorder.cpp:366` says it cannot).
* `prefetcher.cpp:228`: an unsigned difference divided by the stride is a huge depth when the
  prefetches are behind; an ascending stream with a stride of two or more that overtakes its
  prefetches goes on prefetching behind itself.
  `prefetcher.h:75` truncates a start cycle to 32 bits.
* `ddr_mem.h:69`: an activation older than the whole window is stored as the newest; the
  window is out of order, though activations stay spaced in the run.
* All four weave controllers push the timing record before they add the estimate to the
  request's cycle (`ramulator_mem_ctrl.cpp:176`, `ramulator2_mem_ctrl.cpp:138`,
  `dramsim3_mem_ctrl.cpp:218`, `dramsys_mem_ctrl.cpp:169`), so the recorders get a response
  cycle without it. The recorders' models keep this.
* `bound_mem_latency.h`: with few reads in a phase the rounding keeps the windowed average up
  to 10 cycles from a steady latency for ever (`Slack` in `Converges`); the comment at 135
  names a limit of 35%, the constant is 0.20.

## 4. What is proved

TLAPS checks these for every value of the constants that satisfies the `ASSUME`s
(`PeriodAssumption`: CPU period positive and at most the DRAM period, as the constructors
demand; `CtrlAssumption`, `RuntimeAssumption`, `QueueAssumption`, `BarrierAssumption`: sets
finite or non-empty, bounds natural, at least two blocks in the event queue's ring;
`ContentionAssumption`: latencies natural, a crossing leads to another domain, and a core has
one domain, the one `init.cpp:834` gives it; `TreeAssumption`: finitely many caches, each with at
least one way, whose parents have children; `OneTreeAssumption`: no cache is above itself, and
one last level is above all, which `init.cpp:604-635` checks before it builds the hierarchy).

* **`RamulatorMemCtrlProofs`**: `TypeCorrect`, `ClocksStayInStep`, `NoAccessLost`,
  `LatenciesAreSound`, from one inductive invariant. `LatencyNeverWraps` is not inductive
  alone: that a held event has started needs the controller's cycle to be the domain's
  (`clk.curCycle = tickCycle`), and that only held events are parked or in flight
  (`HeldIsSomewhereOnce`) is needed to know which records a tick touches.
  `CallbacksAreExact` adds `Balanced`: for each address, core and type as many requests are in
  flight as the DRAM model holds, which has to survive that one tick sends several and calls
  back several. The clock itself is two lemmas: a CPU cycle counts one
  (`ClockAdvanceCounts`) and keeps `InStep` (`ClockAdvanceInStep`): a tick becomes due
  exactly when the DRAM's lead would become negative, and by less than one period; the
  reset leaves the difference of the accumulators alone. `EstimatesAgree` adds `EstimateStands`: while a bound phase lasts, the
  estimate is the one its accesses were charged.
* **`DRAMSysRuntimeProofs`**: `TypeCorrect`, `AtMostOneLeader`, `BackendAdvancedOnce`,
  `SharedClocksStayInStep`, `NobodyMissesACycle`, for any set of controllers in any domains and threads.
  The invariant adds `EpochsBegun` (no controller has reported a future epoch), without
  which a new epoch could find a controller marked ready. The central step is the last
  arrival: with the counter exact, the count reaching the number of controllers means that
  *all* have reported, so shared time may advance; a cardinality lemma (`OneMoreReady`)
  carries the counter.
* **`DDRMemoryProofs`**: `SchedulerNeverLate`, `BypassBounded`, `ActsNeverBunch`, for any timings, depths, limits
  and arrivals, and any finite set of banks (`DDRAssumption`: all positive, at least two
  activations in a window, and `tRFC >= tRP`, which `refresh` asserts). The inductive invariant
  (`IInv`) is stated of a value of the controller (`CtrlInv`), because a tick is a command, then a
  request from the overflow queue. It says that the queues are injective lists of requests of
  their kind and a bank's list holds exactly the queued requests for it; so an idle controller
  has empty lists, a request that finds it idle is the first of its list (`QueueFirst`), and wakes
  the event. `BoundedBypass` is not inductive: how many may still pass a request depends on
  the sequences begun ahead of it. `Slots` is the set of places in them that are left: for each
  row ahead, the numbers from that of its last request up to the limit. Places left and requests
  that have passed are together within the bound (`BypassOK`): a request that passes takes
  one (`PutBefore`), one that is put behind, or leaves, gives none (`PutBehind`,
  `SlotsOfTail`). `ActsSpaced` does not need the window in order, which `addActivation` does
  not keep when an activation is older than all that remain. Each activation takes the
  place of the oldest entry, as the controller sees it, and is at least `tFAW` after it. So the
  activations form `WindowSize` chains, one per place, with steps of at least `tFAW`
  (`Chained`): moving the entries only moves the ends of the chains (`WindowMoves`), the new
  activation lengthens one (`ChainGrows`), and of `WindowSize + 1` activations two are of one
  chain (`ChainsSpace`). The clock is `MatchingCycle`: the CPU cycle that
  `matchingMemToSysCycle` computes for a memory cycle lies in that memory cycle, for all
  frequencies with `sysFreq` more than twice `memFreq` (`FreqAssumption`); `TickHitsItsCycle`: so a
  tick queued for a memory cycle runs in it. The argument is about the two truncating divisions:
  the added half cycle is enough to pass the beginning of the memory cycle and not enough to
  reach its end.
* **`PrioQueueProofs`**: `QueueRefines`, the refinement of `EventQueue`, and
  `NavigationIsExact`. The refinement maps ring and far map together to one set of events
  with their cycles; the difficult part is that `dequeue` and `firstCycle` trust the bit masks
  and look at the far map only every half turn of the ring. The invariant says that
  masks and counter are exact, that far elements are a full turn ahead of the block where
  the last move took place (`FarAhead`; `FarIsBeyondHalf`, what the run checks, follows and
  is not inductive itself), and that outside of a dequeue the current block is not after
  the domain's cycle (`InTime`), or an event could be put where the ring has been.
* **`BarrierProofs`**: `NoWakeupIsLost`, `PlacesAreExact`, `EveryTurnIsFair`. The inductive
  invariant (`Sound`) is stated over a *value* of the barrier, because one operation of the code
  is many changes of it: `tryWakeNext` may start a phase, compact and shuffle the list, wake a
  core and start again, and the facts have to hold in between. Its parts: the list
  holds the online cores once; counters and futex words are exact; the part of the list
  before `curThreadIdx` has had its turn in this phase and the rest has not; a core's
  `lastIdx` is its place once it has been woken. They need each other: who is woken is read from
  the list, how long to go on from the counters, and that nobody has two turns from the
  place of the core in the list. A lemma on ranks (`Ranks`) takes the place of an induction
  over the compaction loop: a core's new place is the number of online cores before it.
* **`ContentionSimProofs`**: `NoEventIsEarly`, `CrossingsAreOnTime`, `ChainTargetIsAlive`, for
  any number of domains, simulation threads, cores and transactions, any assignment of
  domains to threads and any latencies. The invariant has seven parts. `Graph`: a waiting event
  has exactly one parent, which is not done and in the same domain, and a crossing is called
  exactly when its source is done. `Links`, `Times`: what the recorders remember is allocated;
  queued events are not behind their clock, and no crossing has run that starts beyond the limit.
  `Places`, `Phases`: each domain is in one of its thread's queues, or being worked on, or at
  the limit, and the count of threads that are done is exact; that all clocks stand at the
  limit between phases follows. `Late` is about the unsynchronised reads: the cycle a
  crossing is requeued for is explained by a set of events of the source's domain
  (`Cover`), one of which is its source, that wait for each other and cannot end before
  the clock that was read. The set is a witness that the later steps carry along: when the
  source does end, its end is not before that clock, so the mark takes over the explanation.
  A crossing requeued by the first test alone would have no such witness.
* **`CoherenceProofs`**: `CachesAreCoherent`, `FiltersAreBacked`, `WrittenDataIsKept`,
  `NoAssertionFails`, for any tree of caches, with any banks, ways, lines and number of threads.
  One inductive invariant carries all four. `StackShape` says which call may have made which.
  `Locks` and `Exclusion` say what a call holds, and that no two calls hold the same lock; a
  call that waits for its parent holds only the top lock. `FramesKnow` is the core: what each call
  in flight knows of its own cache, of the copy its child has of the line (weaker before it has
  the locks, when an invalidation may still come first: exactly the cases `CheckForMESIRace`
  tells apart), and of the directory entry that an invalidation on its way will change. `Copies`
  is inclusion, ownership and the directory, with the one exception the code makes: a child
  whose store is being granted has been taken out of its own entry. `WrittenKept` and
  `FilterKnows` are the data and the filters. They need each other: an invalidation finds its
  line because the directory lists it, the directory is right because nobody else holds
  that cache, and a call that does not hold its cache knows little enough to survive the
  change. The proof has one lemma for each action, and in each a step for the calls it
  changes and one for all others (`OthersKnow`, `OthersOfInvalidate`). That there is one
  writer is then an argument about the tree (`OneWriter`): where the paths of two L1s to memory
  meet, the owner's side is the only child with the line.

* **`SchedulerProofs`**: `SchedulerAgrees`, `NobodyForgotten`, `NoIdleCoreWanted`, for any
  threads, finite set of cores, masks, quantum and sleeps, with kills and the watchdog
  (`SchedulerAssumption`: there is a core, and every thread has one in its mask). A call
  is one step in which a value of the scheduler goes through several operations, and in
  between a core may belong to nobody, so `Sound(z, X)` is stated of a value `z` and the
  cores `X` in transit: types and injective lists; a core's thread, its state and the barrier
  agree; the queues hold who they should; a queued thread's and a sleeper's futex word is set;
  the sleep queue is in order; a promised thread is promised once and not queued; and no
  core a queued thread may use is idle. That last part is what `schedTick` asserts, and
  what needs the others: a core is only given up after the run queue was searched for it. A
  lemma for each operation (`schedule`, `deschedule`, `RemoveFirst`, `PhaseOver`, `schedTick`, ...)
  says what it does to `Sound`, and the lemmas of the calls compose them. `Remembers` is kept
  until a process is killed: promises are made by threads in the barrier's wait, which is why
  the hand-over finds both where it left them. `Drifts` is what a call may do to the threads
  that do not make it, and `PlaceOf` what is known of a thread from where its own calls have
  brought it; it survives drifting, which is how one lemma (`StepKeeps`) serves all actions. With the
  lock released in `finish` and by the watchdog, `PlaceOf` says what still holds when they
  take it again: only after a stall or a kill can an assertion find anything else.
  `FutexExact`: the counters of the futex matching, for any finite set of waiters, any wakers
  and sizes of wakes (`FutexAssumption`). The invariant (`FutexIInv`) adds that a wake in progress
  has woken no more than it asked for, and that what is woken and unmatched is within the
  allowance. The allowance is a sum over the wakers; it is stated as the size of a disjoint
  union (`Total`), so that a step of one waker changes it by that waker's share (`TotalChanges`).

**Only model-checked**: all liveness properties, and `NobodyStuck` of `Coherence`, which is
about `ENABLED` (both out of the prover's reach); and the modules without a `…Proofs` module:
the weave controllers, the prefetcher and the models of `MCWeaveModels` but `DDRMemory`.

## 5. Not modelled

The cores and the decoder (sequential timing arithmetic), replacement and partitioning
policies (sequential, under the cache's lock; `Coherence` allows any victim), the network
(planned; its M/D/1 formula is floating point), statistics and traces (never read back), Pin
glue, configuration and shared-memory allocation, the inherited analytical memory models
(floating-point load curves) and older copies of the controllers, the vendored DRAM
simulators (third party, seen only through the controllers' interface), benchmarks,
experiments and scripts, among them an older copy of the simulator. What is left out of a
module that exists is said in section 2.

## 6. Plan

The modules of section 2 are written and checked. Next, in this order:

1. Proofs: `CacheResourcesExact` for `TimingCache`, the controllers of
   `MCWeaveControllers`.
2. Writebacks beside a miss in the recorders.
3. Routing in the mesh network.

## 7. Running the checks

    tlc -workers 2 -config RamulatorMemCtrl.cfg MCRamulatorMemCtrl
    tlapm RamulatorMemCtrlProofs.tla

Each run's module and configuration are listed in `PROJECT.json`; the longest takes a few
minutes, each proof module one or two, `CoherenceProofs`,
`SchedulerProofs` and `DDRMemoryProofs` five to ten.
