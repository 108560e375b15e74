------------------------- MODULE MCWeaveControllers -------------------------
(***************************************************************************)
(* The memory type of a configuration decides which controller a simulation  *)
(* has.  The three that extend WeaveController, explored in one run: they    *)
(* share its variables and differ in what stands for the DRAM model.  And,    *)
(* as one more choice, the stream prefetcher, which shares nothing with them. *)
(***************************************************************************)
EXTENDS DRAMSysMemCtrl

CONSTANTS c1, c2, pageA, pageB

VARIABLES type, backend, tag, array, inv

prefetcherVars == <<tag, array, inv>>
mcVars == <<vars, type, backend, prefetcherVars>>

(* Two addresses, so that a search may run into the next one's range. *)
DRAMsim3 == INSTANCE DRAMsim3MemCtrl WITH Addrs <- {1, 2}, MaxTries <- 1,
                                          AccessPhases <- 1, MaxPhases <- 2

(* Ramulator2 tells cores apart as well. *)
Ramulator2 == INSTANCE Ramulator2MemCtrl WITH Cores <- {c1, c2}, Addrs <- {1, 2},
                                              MaxTries <- 1,
                                              AccessPhases <- 1, MaxPhases <- 2

(* One entry: for two short pages; and for a longer one, some lines of which are   *)
(* read and two invalidated: enough for streams of stride two and of stride three  *)
(* to overtake their prefetches by up to three strides.                            *)
Pages2 == INSTANCE StreamPrefetcher WITH
    Entries <- {1}, Pages <- {pageA, pageB}, Lines <- 4, Word <- 256, Warm <- 5,
    Cycles <- {1}, Lats <- {1, 9}, ReqPos <- 0 .. 3, InvPos <- 0 .. 3
ByTwo == INSTANCE StreamPrefetcher WITH
    Entries <- {1}, Pages <- {pageA}, Lines <- 9, Word <- 256, Warm <- 5,
    Cycles <- {1}, Lats <- {1}, ReqPos <- {0, 1, 2, 4, 6, 8}, InvPos <- {2, 6}
ByThree == INSTANCE StreamPrefetcher WITH
    Entries <- {1}, Pages <- {pageA}, Lines <- 13, Word <- 256, Warm <- 5,
    Cycles <- {1}, Lats <- {1}, ReqPos <- {0, 1, 3, 6, 9, 12}, InvPos <- {3, 9}

CoreSymmetry == Permutations({c1, c2})

slotVars == <<nextReqTag, inProgress, device, completions, stall>>
NoSlot == nextReqTag = 1 /\ inProgress = {} /\ device = {}
          /\ completions = << >> /\ stall = 0

MCInit ==
    /\ \/ type \in {"DRAMSys", "two pages", "by two", "by three"} /\ Init /\ backend = {}
       \/ type = "DRAMsim3" /\ DRAMsim3!Init /\ NoSlot
       \/ type = "Ramulator2" /\ Ramulator2!Init /\ NoSlot
    /\ Pages2!Init

MCNext ==
    /\ \/ /\ \/ type = "DRAMSys" /\ Next /\ UNCHANGED backend
             \/ type = "DRAMsim3" /\ DRAMsim3!Next /\ UNCHANGED slotVars
             \/ type = "Ramulator2" /\ Ramulator2!Next /\ UNCHANGED slotVars
          /\ UNCHANGED prefetcherVars
       \/ /\ \/ type = "two pages" /\ Pages2!Next
             \/ type = "by two" /\ ByTwo!Next
             \/ type = "by three" /\ ByThree!Next
          /\ UNCHANGED <<vars, backend>>
    /\ UNCHANGED type

MCSpec == MCInit /\ [][MCNext]_mcVars
-----------------------------------------------------------------------------
(* In each controller an access that has been held is parked or in flight,   *)
(* once, whatever its DRAM model accepts, refuses and completes, and the     *)
(* state has its types.                                                      *)
HeldOnce ==
    CASE type = "DRAMSys" -> TypeOK /\ HeldIsSomewhereOnce
      [] type = "DRAMsim3" -> DRAMsim3!TypeOK /\ DRAMsim3!HeldIsSomewhereOnce
      [] type = "Ramulator2" -> Ramulator2!TypeOK /\ Ramulator2!HeldIsSomewhereOnce
      [] OTHER -> TRUE

(* A completion finds what it looks for.  DRAMSys: the in-flight map has the   *)
(* tag of every request the wrapper has, and no other, however often requests *)
(* were refused and sent under new tags.  DRAMsim3: completions are matched by *)
(* address alone, and still none is without an event and no event is left     *)
(* behind.  Ramulator2: a callback finds a read of its own address and core, so *)
(* that the end of the range, which is not tested for, is never reached.      *)
CompletionsMatch ==
    CASE type = "DRAMSys" -> TagsMatch
      [] type = "DRAMsim3" -> DRAMsim3!AddressesBalance
      [] type = "Ramulator2" -> Ramulator2!CallbackFindsItsEvent
      [] OTHER -> TRUE

(* A prefetch is for the next line of the stream.  The exception: an ascending     *)
(* stream of stride two or more that has overtaken its prefetches prefetches lines *)
(* behind it, whole strides away, and goes on doing so.  And the stride, which     *)
(* fetchDepth divides by, is never zero.                                          *)
PrefetchesAhead == []Pages2!TypeOK /\ Pages2!NextLineOrBehind
=============================================================================
