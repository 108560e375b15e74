------------------------------ MODULE Coherence ------------------------------
(***************************************************************************)
(* The MESI coherence protocol of the cache hierarchy (cache.cpp,          *)
(* coherence_ctrls.h/.cpp, filter_cache.h): a tree of inclusive caches     *)
(* whose leaves are the cores' L1s.  An access climbs the tree inside the  *)
(* thread of the core that made it, an invalidation goes down it inside    *)
(* the thread that caused it, so a thread is a stack of calls.  A cache    *)
(* has two locks (bcc and tcc) and an L1 a filter lock; a step lasts from  *)
(* one lock acquisition to the next.  A cache about to call its parent is  *)
(* unlocked and so open to invalidations: the race the code resolves in    *)
(* CheckForMESIRace.  Caches are numbers: children are invalidated in      *)
(* index order.                                                            *)
(***************************************************************************)
EXTENDS Naturals, FiniteSets, SequencesExt

CONSTANTS L1s,          \* terminal caches, one for each core's thread
          Inner,        \* caches with children
          Parent,       \* the parent of a cache for a line (banks), or Mem
          Ways,         \* how many lines a cache holds (one set)
          Lines,
          Mem, Core,    \* above the last level, below the first one
          NoLine,
          MaxAccesses   \* accesses a core makes in a phase

Caches == L1s \cup Inner

ASSUME TreeAssumption ==
    /\ L1s \subseteq Nat /\ Inner \subseteq Nat /\ L1s \cap Inner = {}
    /\ Parent \in [Caches -> [Lines -> Inner \cup {Mem}]]
    /\ Ways \in [Caches -> Nat \ {0}]
    /\ {Mem, Core} \cap Caches = {} /\ NoLine \notin Lines
    /\ MaxAccesses \in Nat \ {0}
    /\ IsFiniteSet(L1s) /\ IsFiniteSet(Inner)

(* What init.cpp checks before it builds the caches: no cache is above     *)
(* itself, and one last level (for a line, one bank of it) is above all.   *)
ASSUME OneTreeAssumption ==
    \A l \in Lines :
        /\ \A C \in SUBSET Caches : C # {} => \E c \in C : Parent[c][l] \notin C
        /\ LET Used == L1s \cup {Parent[k][l] : k \in Caches}
           IN  \A c, d \in Caches \cap Used : Parent[c][l] = Mem /\ Parent[d][l] = Mem => c = d

VARIABLES state,      \* MESIBottomCC::array, by cache and line
          tags,       \* the lines a cache's array holds, valid or not
          dir,        \* MESITopCC::array: sharers and the exclusive flag
          bcc, tcc,   \* the caches whose bottom / top lock is taken
          filter,     \* an L1's FilterEntry: line it may read / write unlocked
          filterLock,
          stack,      \* the calls of each core's thread, innermost last
          left,       \* accesses a core still makes in this phase
          dirty,      \* lines written since memory last got their data
          ok          \* no assertion or panic of the code has fired

vars == <<state, tags, dir, bcc, tcc, filter, filterLock, stack, left, dirty, ok>>

MESI == {"I", "S", "E", "M"}
NoEntry == [sharers |-> {}, exclusive |-> FALSE]
Frames == [op : {"access", "inval"}, c : Caches, l : Lines,
           type : {"GETS", "GETX", "PUTS", "PUTX", "INV", "INVX"},
           child : Caches \cup {Core}, initial : MESI,
           pc : {"start", "bcc", "evict", "insert", "access", "top", "grant", "end",
                 "fill", "inval"},
           victim : Lines \cup {NoLine}, wb : BOOLEAN]

(* One type invariant for the hierarchy: a cache never holds more lines    *)
(* than it has ways, and a directory names only the cache's own children.  *)
TypeOK ==
    /\ state \in [Caches -> [Lines -> MESI]]
    /\ tags \in [Caches -> SUBSET Lines]
    /\ \A c \in Caches : Cardinality(tags[c]) <= Ways[c]
    /\ \A c \in Inner, l \in Lines :
          dir[c][l] \in [sharers : SUBSET {k \in Caches : Parent[k][l] = c},
                         exclusive : BOOLEAN]
    /\ bcc \subseteq Caches /\ tcc \subseteq Inner /\ filterLock \subseteq L1s
    /\ filter \in [L1s -> [rd : Lines \cup {NoLine}, wr : Lines \cup {NoLine}]]
    /\ \A t \in L1s : \A i \in DOMAIN stack[t] : stack[t][i] \in Frames
    /\ left \in [L1s -> 0..MaxAccesses]
    /\ dirty \subseteq Lines /\ ok \in BOOLEAN

Init ==
    /\ state = [c \in Caches |-> [l \in Lines |-> "I"]]
    /\ tags = [c \in Caches |-> {}]
    /\ dir = [c \in Inner |-> [l \in Lines |-> NoEntry]]
    /\ bcc = {} /\ tcc = {} /\ filterLock = {}
    /\ filter = [t \in L1s |-> [rd |-> NoLine, wr |-> NoLine]]
    /\ stack = [t \in L1s |-> << >>]
    /\ left = [t \in L1s |-> MaxAccesses]
    /\ dirty = {} /\ ok = TRUE

----------------------------------------------------------------------------
(* Calls.  Frame makes the frame of a call; At(t, pc) is the guard "thread *)
(* t's innermost call is at pc"; Goto replaces that frame.                 *)
Frame(op, c, l, type, child, initial) ==
    [op |-> op, c |-> c, l |-> l, type |-> type, child |-> child, initial |-> initial,
     pc |-> "start", victim |-> NoLine, wb |-> FALSE]

Busy(t) == stack[t] # << >>
At(t, pc) == Busy(t) /\ Last(stack[t]).pc = pc
Goto(t, f) == stack' = [stack EXCEPT ![t] = Append(Front(@), f)]
Expect(P) == ok' = (ok /\ P)

IsExclusive(e) == Cardinality(e.sharers) = 1 /\ e.exclusive

(* What a memory controller answers: MemObject::access of the last level.  *)
MemState(type) == CASE type = "GETS" -> "E" [] type = "GETX" -> "M" [] OTHER -> "I"

(* parents[getParentId(line)]->access(req) from frame f, which resumes at  *)
(* pc; s is the bottom array when the call is made.  A parent cache first  *)
(* unlocks the caller (childLock); memory answers at once.                 *)
CallParent(t, f, s, l, type, pc) ==
    LET p == Parent[f.c][l]
        g == [f EXCEPT !.pc = pc]
    IN IF p = Mem
       THEN /\ state' = [s EXCEPT ![f.c][l] = MemState(type)]
            /\ dirty' = IF type = "PUTX" THEN dirty \ {l} ELSE dirty
            /\ Goto(t, g)
            /\ UNCHANGED bcc
       ELSE /\ state' = s
            /\ bcc' = bcc \ {f.c}
            /\ stack' = [stack EXCEPT ![t] =
                  Append(Append(Front(@), g), Frame("access", p, l, type, f.c, s[f.c][l]))]
            /\ UNCHANGED dirty

(* CheckForMESIRace: what becomes of a request whose child was invalidated *)
(* after the request was made: the type to go on with, whether to skip it, *)
(* and whether the race is one the code expects.                           *)
RaceRetriesPut(type, now, initial) ==
    [type |-> IF type = "PUTX" /\ now = "S" THEN "PUTS" ELSE type, skip |-> FALSE, legal |-> TRUE]
CheckForMESIRace(type, now, initial) ==
    CASE now = initial -> [type |-> type, skip |-> FALSE, legal |-> TRUE]
      [] now # initial /\ type \in {"PUTS", "PUTX"} ->
            [type |-> IF now = "I" THEN type ELSE "PUTS", skip |-> now = "I",
             legal |-> now \in {"I", "S"}]
      [] now # initial /\ type = "GETX" ->
            [type |-> type, skip |-> FALSE, legal |-> initial = "S" /\ now = "I"]
      [] OTHER -> [type |-> type, skip |-> FALSE, legal |-> FALSE]

----------------------------------------------------------------------------
(* A load or store that hits in the filter array takes no lock.            *)
FilterHit(t) ==
    /\ ~Busy(t) /\ left[t] > 0
    /\ \/ filter[t].rd # NoLine /\ UNCHANGED dirty
       \/ filter[t].wr # NoLine /\ dirty' = dirty \cup {filter[t].wr}
    /\ left' = [left EXCEPT ![t] = @ - 1]
    /\ UNCHANGED <<state, tags, dir, bcc, tcc, filter, filterLock, stack, ok>>

(* FilterCache::replace: takes the filter lock, and the L1's startAccess   *)
(* gives it back before it takes the L1's.                                 *)
Replace(t) ==
    /\ ~Busy(t) /\ left[t] > 0
    /\ t \notin filterLock
    /\ \E l \in Lines, type \in {"GETS", "GETX"} :
          /\ l # (IF type = "GETS" THEN filter[t].rd ELSE filter[t].wr)
          /\ stack' = [stack EXCEPT ![t] = <<Frame("access", t, l, type, Core, "I")>>]
    /\ left' = [left EXCEPT ![t] = @ - 1]
    /\ UNCHANGED <<state, tags, dir, bcc, tcc, filter, filterLock, dirty, ok>>

(* startAccess of a cache with children: tcc first ...                     *)
LockTcc(t) ==
    LET f == Last(stack[t])
    IN /\ At(t, "start") /\ f.op = "access" /\ f.c \in Inner
       /\ f.c \notin tcc
       /\ tcc' = tcc \cup {f.c}
       /\ Goto(t, [f EXCEPT !.pc = "bcc"])
       /\ UNCHANGED <<state, tags, dir, bcc, filter, filterLock, left, dirty, ok>>

(* ... then bcc, and now no one can touch the child's state: races are     *)
(* resolved, the line is looked up, and a victim is chosen on a miss (any  *)
(* line: replacement is not modelled).                                     *)
LockBcc(t) ==
    LET f == Last(stack[t])
        r == IF f.child = Core THEN [type |-> f.type, skip |-> FALSE, legal |-> TRUE]
             ELSE CheckForMESIRace(f.type, state[f.child][f.l], f.initial)
        hit == f.l \in tags[f.c]
        victims == IF Cardinality(tags[f.c]) < Ways[f.c] THEN {NoLine} ELSE tags[f.c]
    IN /\ At(t, "bcc") \/ (At(t, "start") /\ f.op = "access" /\ f.c \in L1s)
       /\ f.c \notin bcc
       /\ bcc' = bcc \cup {f.c}
       /\ Expect(r.legal /\ (r.skip \/ hit \/ r.type \in {"GETS", "GETX"}))
       /\ IF r.skip THEN Goto(t, [f EXCEPT !.pc = "end", !.type = r.type])
          ELSE IF hit THEN Goto(t, [f EXCEPT !.pc = "access", !.type = r.type])
          ELSE \E v \in victims :
                  Goto(t, [f EXCEPT !.pc = "evict", !.type = r.type, !.victim = v])
       /\ UNCHANGED <<state, tags, dir, tcc, filter, filterLock, left, dirty>>

----------------------------------------------------------------------------
(* MESITopCC::sendInvalidates, for an eviction, a grant or an invalidation *)
(* from above: the line, the kind, and the children still to be reached.   *)
(* A downgrade goes down only where a child is exclusive.                  *)
InvLine(f) == IF f.pc = "evict" THEN f.victim ELSE f.l
InvType(f) == CASE f.pc = "inval" -> f.type
                [] f.pc = "grant" /\ f.type = "GETS" -> "INVX"
                [] OTHER -> "INV"
Targets(f) ==
    IF f.c \in L1s \/ InvLine(f) = NoLine THEN {}
    ELSE LET e == dir[f.c][InvLine(f)]
         IN IF InvType(f) = "INVX" /\ ~IsExclusive(e) THEN {} ELSE e.sharers

SendInvalidate(t) ==
    LET f == Last(stack[t])
    IN /\ At(t, "evict") \/ At(t, "grant") \/ At(t, "inval")
       /\ Targets(f) # {}
       /\ stack' = [stack EXCEPT ![t] =
             Append(@, Frame("inval", Min(Targets(f)), InvLine(f), InvType(f), Core, "I"))]
       /\ UNCHANGED <<state, tags, dir, bcc, tcc, filter, filterLock, left, dirty, ok>>

(* startInv takes only the bottom lock: an access of this cache that waits *)
(* for its parent holds tcc and does not see the invalidation.             *)
InvTakesBoth(c) == c \notin bcc \cup tcc
InvLockFree(c) == c \notin bcc
StartInv(t) ==
    LET f == Last(stack[t])
    IN /\ At(t, "start") /\ f.op = "inval"
       /\ InvLockFree(f.c)
       /\ bcc' = bcc \cup {f.c}
       /\ Goto(t, [f EXCEPT !.pc = "inval"])
       /\ UNCHANGED <<state, tags, dir, tcc, filter, filterLock, left, dirty, ok>>

(* What the filter array of an L1 keeps when line l is invalidated.        *)
FilterAfterInv(e, l) == IF e.rd = l THEN [rd |-> NoLine, wr |-> NoLine] ELSE e

(* futex_lock(&filterLock) in FilterCache::invalidate.                     *)
FilterNotLocked(c) == TRUE
FilterFree(c) == c \notin filterLock

(* What the parent's directory entry is after child k was invalidated or   *)
(* downgraded.                                                             *)
DirAfterInv(e, k, type) ==
    IF type = "INV" THEN [e EXCEPT !.sharers = @ \ {k}] ELSE [e EXCEPT !.exclusive = FALSE]

(* finishInvalidate, once the children are done: MESIBottomCC::processInval *)
(* sets the state and pulls the writeback flag up, the lock is given back  *)
(* and the parent's directory entry is updated.  An L1 also drops the line *)
(* from its filter array, under the filter lock.                           *)
FinishInvalidate(t) ==
    LET f == Last(stack[t])
        was == state[f.c][f.l]
        g == stack[t][Len(stack[t]) - 1]
    IN /\ At(t, "inval") /\ Targets(f) = {}
       /\ FilterFree(f.c)
       /\ Expect(f.l \in tags[f.c] /\ was # "I" /\ (f.type = "INVX" => was \in {"E", "M"}))
       /\ state' = [state EXCEPT ![f.c][f.l] = IF f.type = "INV" THEN "I" ELSE "S"]
       /\ filter' = IF f.c \in L1s THEN [filter EXCEPT ![f.c] = FilterAfterInv(@, f.l)] ELSE filter
       /\ dir' = [dir EXCEPT ![g.c][f.l] = DirAfterInv(@, f.c, f.type)]
       /\ bcc' = bcc \ {f.c}
       /\ stack' = [stack EXCEPT ![t] =
             Append(Front(Front(@)), [g EXCEPT !.wb = @ \/ f.wb \/ was = "M"])]
       /\ UNCHANGED <<tags, tcc, filterLock, left, dirty>>

----------------------------------------------------------------------------
(* processEviction, the children's copies gone: a child's dirty copy makes *)
(* this one dirty, and a valid line is put to the parent.                  *)
Evict(t) ==
    LET f == Last(stack[t])
        v == f.victim
        s == IF f.wb THEN [state EXCEPT ![f.c][v] = "M"] ELSE state
        g == [f EXCEPT !.wb = FALSE]
    IN /\ At(t, "evict") /\ Targets(f) = {}
       /\ Expect(f.wb => state[f.c][v] \in {"M", "E"})
       /\ IF v = NoLine \/ s[f.c][v] = "I"
          THEN Goto(t, [g EXCEPT !.pc = "insert"]) /\ UNCHANGED <<state, bcc, dirty>>
          ELSE CallParent(t, g, s, v, IF s[f.c][v] = "M" THEN "PUTX" ELSE "PUTS", "insert")
       /\ UNCHANGED <<tags, dir, tcc, filter, filterLock, left>>

(* The end of bottom processEviction, and CacheArray::postinsert: the new  *)
(* line takes over the victim's slot, with whatever exclusive flag its     *)
(* directory entry was left with.                                          *)
TagsAfterInsert(held, v, l) == (held \ {v}) \cup {l}
Insert(t) ==
    LET f == Last(stack[t])
        v == f.victim
    IN /\ At(t, "insert")
       /\ Expect(v # NoLine => state[f.c][v] = "I")
       /\ tags' = [tags EXCEPT ![f.c] = TagsAfterInsert(@, v, f.l)]
       /\ dir' = IF f.c \in L1s \/ v = NoLine THEN dir
                 ELSE [dir EXCEPT ![f.c][f.l] = dir[f.c][v], ![f.c][v] = NoEntry]
       /\ Goto(t, [f EXCEPT !.pc = "access", !.victim = NoLine])
       /\ UNCHANGED <<state, bcc, tcc, filter, filterLock, left, dirty>>

(* MESIBottomCC::processAccess: a miss or an upgrade goes to the parent; a *)
(* dirty put, or a store to an exclusive line, makes the line modified.    *)
BottomAccess(t) ==
    LET f == Last(stack[t])
        was == state[f.c][f.l]
        miss == \/ f.type = "GETS" /\ was = "I"
                \/ f.type = "GETX" /\ was \in {"I", "S"}
    IN /\ At(t, "access")
       /\ Expect(/\ f.type = "PUTS" => was # "I"
                 /\ f.type = "PUTX" => was \in {"M", "E"})
       /\ IF miss
          THEN CallParent(t, f, state, f.l, f.type, "top")
          ELSE /\ state' = IF f.type \in {"GETX", "PUTX"} THEN [state EXCEPT ![f.c][f.l] = "M"] ELSE state
               /\ Goto(t, [f EXCEPT !.pc = "top"])
               /\ UNCHANGED <<bcc, dirty>>
       /\ UNCHANGED <<tags, dir, tcc, filter, filterLock, left>>

(* The access has its line in a good state with respect to the levels      *)
(* above.  An L1 is done.  MESITopCC::processAccess starts: a put leaves   *)
(* the directory, a load of a line no child has gets it exclusive, any     *)
(* other get goes on to invalidate or downgrade the other children.        *)
GrantsWithoutOwning(e, s) == e.sharers = {}
GrantsExclusive(e, s) == e.sharers = {} /\ s \in {"E", "M"}
TopAccess(t) ==
    LET f == Last(stack[t])
        s == state[f.c][f.l]
        e == dir[f.c][f.l]
    IN /\ At(t, "top")
       /\ \/ /\ f.c \in L1s
             /\ Expect(s # "I" /\ (f.type = "GETX" => s = "M"))
             /\ dirty' = IF f.type = "GETX" THEN dirty \cup {f.l} ELSE dirty
             /\ Goto(t, [f EXCEPT !.pc = "end"])
             /\ UNCHANGED <<state, dir>>
          \/ /\ f.c \in Inner /\ f.type \in {"PUTS", "PUTX"}
             /\ Expect(f.child \in e.sharers /\ (f.type = "PUTX" => IsExclusive(e)))
             /\ dir' = [dir EXCEPT ![f.c][f.l].sharers = @ \ {f.child}]
             /\ state' = [state EXCEPT ![f.child][f.l] = "I"]
             /\ Goto(t, [f EXCEPT !.pc = "end"])
             /\ UNCHANGED dirty
          \/ /\ f.c \in Inner /\ f.type = "GETS" /\ GrantsExclusive(e, s)
             /\ dir' = [dir EXCEPT ![f.c][f.l] = [sharers |-> {f.child}, exclusive |-> TRUE]]
             /\ state' = [state EXCEPT ![f.child][f.l] = "E"]
             /\ Goto(t, [f EXCEPT !.pc = "end"])
             /\ UNCHANGED <<dirty, ok>>
          \/ /\ f.c \in Inner /\ f.type = "GETS" /\ ~GrantsExclusive(e, s)
             /\ Expect(s # "I" /\ f.child \notin e.sharers)
             /\ Goto(t, [f EXCEPT !.pc = "grant"])
             /\ UNCHANGED <<dir, state, dirty>>
          \/ /\ f.c \in Inner /\ f.type = "GETX"
             /\ Expect(s = "M" /\ (f.child \in e.sharers => ~IsExclusive(e)))
             /\ dir' = [dir EXCEPT ![f.c][f.l].sharers = @ \ {f.child}]
             /\ Goto(t, [f EXCEPT !.pc = "grant"])
             /\ UNCHANGED <<state, dirty>>
       /\ UNCHANGED <<tags, bcc, tcc, filter, filterLock, left>>

(* The rest of MESITopCC::processAccess for a get, the other copies gone   *)
(* or downgraded, and processWritebackOnAccess when one was dirty.         *)
KeepClean(s, c, l) == s
WritebackOnAccess(s, c, l) == [s EXCEPT ![c][l] = "M"]
Grant(t) ==
    LET f == Last(stack[t])
        e == dir[f.c][f.l]
        x == f.type = "GETX"
        s == IF f.wb THEN WritebackOnAccess(state, f.c, f.l) ELSE state
    IN /\ At(t, "grant") /\ Targets(f) = {}
       /\ Expect(/\ x => e.sharers = {}
                 /\ ~x => ~IsExclusive(e)
                 /\ f.wb => state[f.c][f.l] \in {"M", "E"})
       /\ dir' = [dir EXCEPT ![f.c][f.l] =
                     [sharers |-> e.sharers \cup {f.child}, exclusive |-> x]]
       /\ state' = [s EXCEPT ![f.child][f.l] = IF x THEN "M" ELSE "S"]
       /\ Goto(t, [f EXCEPT !.pc = "end"])
       /\ UNCHANGED <<tags, bcc, tcc, filter, filterLock, left, dirty>>

(* endAccess relocks the child before it unlocks this cache; the child of  *)
(* an L1 is the filter array.                                              *)
EndAccess(t) ==
    LET f == Last(stack[t])
    IN /\ At(t, "end")
       /\ \/ /\ f.child = Core /\ t \notin filterLock
             /\ filterLock' = filterLock \cup {t}
             /\ bcc' = bcc \ {f.c}
             /\ Goto(t, [f EXCEPT !.pc = "fill"])
          \/ /\ f.child # Core /\ f.child \notin bcc
             /\ bcc' = (bcc \ {f.c}) \cup {f.child}
             /\ stack' = [stack EXCEPT ![t] = Front(@)]
             /\ UNCHANGED filterLock
       /\ tcc' = tcc \ {f.c}
       /\ UNCHANGED <<state, tags, dir, filter, left, dirty, ok>>

(* The end of FilterCache::replace.                                        *)
Fill(t) ==
    LET f == Last(stack[t])
    IN /\ At(t, "fill")
       /\ filter' = [filter EXCEPT ![t] =
             [rd |-> f.l, wr |-> IF f.type = "GETX" THEN f.l ELSE NoLine]]
       /\ filterLock' = filterLock \ {t}
       /\ stack' = [stack EXCEPT ![t] = << >>]
       /\ UNCHANGED <<state, tags, dir, bcc, tcc, left, dirty, ok>>

(* FilterCache::contextSwitch, when the core loses its thread.             *)
ContextSwitch(t) ==
    /\ ~Busy(t) /\ t \notin filterLock
    /\ filter' = [filter EXCEPT ![t] = [rd |-> NoLine, wr |-> NoLine]]
    /\ UNCHANGED <<state, tags, dir, bcc, tcc, filterLock, stack, left, dirty, ok>>

(* Every core has come to the end of its bound phase.                      *)
NewPhase ==
    /\ \A t \in L1s : ~Busy(t) /\ left[t] = 0
    /\ left' = [t \in L1s |-> MaxAccesses]
    /\ UNCHANGED <<state, tags, dir, bcc, tcc, filter, filterLock, stack, dirty, ok>>

Step(t) ==
    \/ FilterHit(t) \/ Replace(t) \/ ContextSwitch(t)
    \/ LockTcc(t) \/ LockBcc(t) \/ Evict(t) \/ Insert(t)
    \/ BottomAccess(t) \/ TopAccess(t) \/ Grant(t) \/ EndAccess(t) \/ Fill(t)
    \/ SendInvalidate(t) \/ StartInv(t) \/ FinishInvalidate(t)

Next == NewPhase \/ \E t \in L1s : Step(t)

Spec == Init /\ [][Next]_vars

----------------------------------------------------------------------------
(* Single writer, many readers: when one core's L1 may write a line, or    *)
(* has it exclusively, no other core's L1 has it at all, in every state of *)
(* every access in flight.                                                 *)
SingleWriter ==
    \A a, b \in L1s, l \in Lines :
        a # b /\ state[a][l] \in {"E", "M"} => state[b][l] = "I"

(* The lock-free filter array never gives a core what its L1 no longer     *)
(* has: while the core's thread is not inside an access, a line it may     *)
(* read without lock is valid in the L1 and a line it may write is         *)
(* modified there, though invalidations arrive at any moment.              *)
FilterBacked ==
    \A t \in L1s : ~Busy(t) =>
        /\ filter[t].rd # NoLine => state[t][filter[t].rd] # "I"
        /\ filter[t].wr # NoLine => state[t][filter[t].wr] = "M"

(* Inclusion and an exact directory: in a cache no thread has locked, the  *)
(* sharers of a line are the children that have it, all of them below a    *)
(* valid copy, and a child that owns the line is recorded as its owner.    *)
DirectoryExact ==
    \A c \in Inner \ bcc : \A l \in Lines :
        LET kids == {k \in Caches : Parent[k][l] = c /\ state[k][l] # "I"}
        IN /\ dir[c][l].sharers = kids
           /\ kids # {} => l \in tags[c] /\ state[c][l] # "I"
           /\ \A k \in kids : state[k][l] \in {"E", "M"} =>
                 IsExclusive(dir[c][l]) /\ state[c][l] \in {"E", "M"}

(* Written data is never dropped: from the store until memory gets a PUTX, *)
(* some cache has the line modified, or an invalidation under way carries  *)
(* its writeback flag.                                                     *)
DirtyKept ==
    \A l \in dirty :
        \/ \E c \in Caches : state[c][l] = "M"
        \/ \E t \in L1s : \E i \in DOMAIN stack[t] :
              stack[t][i].wb /\ InvLine(stack[t][i]) = l

(* No assertion and no panic of the coherence controllers fires: each race *)
(* of an access with an invalidation is one CheckForMESIRace expects, no   *)
(* put finds its line gone, and no invalidation finds a cache without the  *)
(* line.                                                                   *)
NoAssertFails == ok

(* Climbing with the child unlocked and descending with only bottom locks  *)
(* keeps the threads from waiting on each other: while some thread is      *)
(* inside an access, one of them can go on.                                *)
NobodyStuck ==
    (\E t \in L1s : Busy(t)) => \E t \in L1s : Busy(t) /\ ENABLED Step(t)

(* The caches tell the same story about every line: one writer or many readers,   *)
(* and an exact directory over them, whatever evictions leave in the tags.       *)
Coherent == TypeOK /\ SingleWriter /\ DirectoryExact
=============================================================================
