-------------------------- MODULE CoherenceProofs --------------------------
(***************************************************************************)
(* Coherence for any tree of caches, any number of ways, any number of     *)
(* lines and banks: one writer or many readers, filters that are backed,   *)
(* written data that is kept, and no failing assertion.                    *)
(***************************************************************************)
EXTENDS Coherence, FiniteSetTheorems, SequenceTheorems, WellFoundedInduction, TLAPS

-----------------------------------------------------------------------------
(* The inductive invariant *)

Gets == {"GETS", "GETX"}
Puts == {"PUTS", "PUTX"}
Owned == {"E", "M"}

Types ==
    /\ state \in [Caches -> [Lines -> MESI]]
    /\ tags \in [Caches -> SUBSET Lines]
    /\ \A c \in Caches : IsFiniteSet(tags[c]) /\ Cardinality(tags[c]) <= Ways[c]
    /\ dir \in [Inner -> [Lines -> [sharers : SUBSET Caches, exclusive : BOOLEAN]]]
    /\ bcc \subseteq Caches /\ tcc \subseteq Inner /\ filterLock \subseteq L1s
    /\ filter \in [L1s -> [rd : Lines \cup {NoLine}, wr : Lines \cup {NoLine}]]
    /\ stack \in [L1s -> Seq(Frames)]
    /\ left \in [L1s -> 0..MaxAccesses]
    /\ dirty \subseteq Lines

(* A call is well formed by itself ... *)
AccessShape(f) ==
    /\ f.type \in Gets \cup Puts /\ f.pc # "inval"
    /\ f.c \in L1s <=> f.child = Core
    /\ f.c \in L1s => f.type \in Gets /\ f.pc \notin {"bcc", "grant"}
    /\ f.c \in Inner => f.pc # "fill"
    /\ f.pc \in {"evict", "insert", "grant"} => f.type \in Gets
FrameShape(f) ==
    /\ f.op = "access" => AccessShape(f)
    /\ f.op = "inval" => f.type \in {"INV", "INVX"} /\ f.pc \in {"start", "inval"}
    /\ f.pc \in {"start", "bcc", "insert", "access", "top"} => ~f.wb

(* ... and fits the call that made it: a parent is asked to take a victim  *)
(* or for the line itself, a child is told to invalidate.                  *)
AsksParent(g, f) ==
    /\ f.op = "access" /\ g.op = "access"
    /\ f.child = g.c /\ f.c \in Inner /\ f.c = Parent[g.c][f.l]
    /\ \/ g.pc = "insert" /\ f.l = g.victim /\ f.type \in Puts
       \/ g.pc = "top" /\ f.l = g.l /\ f.type = g.type /\ f.type \in Gets
TellsChild(g, f) ==
    /\ f.op = "inval" /\ g.pc \in {"evict", "grant", "inval"}
    /\ f.l = InvLine(g) /\ f.type = InvType(g)
    /\ g.c \in Inner /\ Parent[f.c][f.l] = g.c
Calls(g, f) == AsksParent(g, f) \/ TellsChild(g, f)

StackShape ==
    \A t \in L1s :
        /\ Busy(t) => stack[t][1].op = "access" /\ stack[t][1].c = t
        /\ \A i \in 1..Len(stack[t]) : FrameShape(stack[t][i])
        /\ \A i \in 2..Len(stack[t]) : Calls(stack[t][i - 1], stack[t][i])

(* The locks a call holds: a cache that waits for its parent has given its *)
(* bottom lock back.                                                       *)
Holds(f, last) ==
    \/ f.pc \in {"evict", "access", "grant", "end", "inval"}
    \/ f.pc \in {"insert", "top"} /\ last
Entered(f) == f.op = "access" /\ f.pc # "start"

Locks ==
    \A t \in L1s : \A i \in 1..Len(stack[t]) :
        LET f == stack[t][i]
        IN  /\ Holds(f, i = Len(stack[t])) => f.c \in bcc
            /\ Entered(f) /\ f.c \in Inner => f.c \in tcc
            /\ f.pc = "fill" => t \in filterLock

(* Two calls do not hold the same lock. *)
Exclusion ==
    \A t, u \in L1s : \A i \in 1..Len(stack[t]), j \in 1..Len(stack[u]) :
        LET f == stack[t][i]
            g == stack[u][j]
        IN  f.c = g.c /\ (\/ Holds(f, i = Len(stack[t])) /\ Holds(g, j = Len(stack[u]))
                          \/ Entered(f) /\ Entered(g))
            => t = u /\ i = j

Kids(c, l) == {k \in Caches : Parent[k][l] = c /\ state[k][l] # "I"}

(* A cache's state for a get of this type to be answered. *)
Granted(type, s) == IF type = "GETX" THEN s = "M" ELSE s # "I"

(* What a call knows of its own cache. *)
KnowsOwn(f, last) ==
    /\ f.pc \in {"evict", "insert"} =>
          /\ f.l \notin tags[f.c]
          /\ f.victim = NoLine => Cardinality(tags[f.c]) < Ways[f.c]
          /\ f.victim # NoLine => f.victim \in tags[f.c]
    /\ f.pc = "insert" /\ f.victim # NoLine =>
          /\ Kids(f.c, f.victim) = {}
          /\ last => state[f.c][f.victim] = "I"
    /\ f.pc \in {"access", "top", "grant"} => f.l \in tags[f.c]
    /\ f.pc = "top" /\ last /\ f.type \in Gets => Granted(f.type, state[f.c][f.l])
    /\ f.pc = "top" /\ last /\ f.type = "PUTX" => state[f.c][f.l] = "M"
    /\ f.pc = "grant" =>
          Granted(f.type, state[f.c][f.l]) /\ f.child \notin dir[f.c][f.l].sharers
    /\ f.pc \in {"end", "fill"} /\ f.child = Core => Granted(f.type, state[f.c][f.l])
    /\ f.pc \in {"evict", "grant", "inval"} /\ f.wb =>
          InvLine(f) # NoLine /\ state[f.c][InvLine(f)] \in Owned

(* What an access knows of the copy of the child it comes from, now: in a   *)
(* call that has not got the locks yet, invalidations may have come first.  *)
KnowsChild(f, now) ==
    /\ f.pc \in {"start", "bcc"} =>
          /\ f.type = "GETS" => now = "I" /\ f.initial = "I"
          /\ f.type = "GETX" => f.initial \in {"I", "S"} /\ now \in {f.initial, "I"}
          /\ f.type = "PUTS" => f.initial \in {"E", "S"} /\ now \in {f.initial, "S", "I"}
          /\ f.type = "PUTX" => f.initial = "M" /\ now \in {"M", "S", "I"}
    /\ f.pc = "end" => IF f.type \in Gets THEN Granted(f.type, now) ELSE now = "I"
    /\ f.pc \in {"evict", "insert", "access", "top", "grant"} =>
          /\ f.type = "GETS" => now = "I"
          /\ f.type = "GETX" => now \in {"I", "S"}
          /\ f.type = "PUTS" => now \in {"E", "S"}
          /\ f.type = "PUTX" => now = "M"

(* An invalidation is on its way to a cache that the directory lists. *)
KnowsEntry(f) ==
    LET e == dir[Parent[f.c][f.l]][f.l]
    IN  f.c \in e.sharers /\ (f.type = "INVX" => e.exclusive)

Knows(f, last) ==
    /\ KnowsOwn(f, last)
    /\ f.op = "access" /\ f.child # Core => KnowsChild(f, state[f.child][f.l])
    /\ f.op = "inval" => KnowsEntry(f)

FramesKnow ==
    \A t \in L1s : \A i \in 1..Len(stack[t]) : \A f \in Frames, last \in BOOLEAN :
        f = stack[t][i] /\ (last <=> i = Len(stack[t])) => Knows(f, last)

(* Child k, still with a shared copy, is about to get line l modified. *)
IsUpgrade(f, k, c, l) ==
    f.pc = "grant" /\ f.type = "GETX" /\ f.c = c /\ f.l = l /\ f.child = k
Upgrades(k, c, l) ==
    \E t \in L1s : \E i \in 1..Len(stack[t]) : IsUpgrade(stack[t][i], k, c, l)

(* Copies are in the tags, included in the copy above, which is exclusive   *)
(* when they are, and listed in its directory.                              *)
Tagged == \A c \in Caches, l \in Lines : state[c][l] # "I" => l \in tags[c]
Included ==
    \A k \in Caches, l \in Lines :
        state[k][l] # "I" /\ Parent[k][l] # Mem => state[Parent[k][l]][l] # "I"
Exclusive ==
    \A k \in Caches, l \in Lines :
        state[k][l] \in Owned /\ Parent[k][l] # Mem =>
            Kids(Parent[k][l], l) = {k} /\ state[Parent[k][l]][l] \in Owned
Listed ==
    \A k \in Caches, l \in Lines :
        state[k][l] # "I" /\ Parent[k][l] # Mem =>
            LET e == dir[Parent[k][l]][l]
            IN  /\ k \in e.sharers \/ Upgrades(k, Parent[k][l], l)
                /\ state[k][l] \in Owned <=> e.exclusive
SharersHave == \A c \in Inner, l \in Lines : dir[c][l].sharers \subseteq Kids(c, l)

Copies == Tagged /\ Included /\ Exclusive /\ Listed /\ SharersHave

(* Written data is in a modified copy, or in an invalidation's hands. *)
Carries(f, l) == f.pc \in {"evict", "grant", "inval"} /\ f.wb /\ InvLine(f) = l
WrittenKept ==
    \A l \in dirty :
        \/ \E c \in Caches : state[c][l] = "M"
        \/ \E t \in L1s : \E i \in 1..Len(stack[t]) : Carries(stack[t][i], l)

FilterKnows ==
    \A t \in L1s :
        /\ filter[t].wr \in {filter[t].rd, NoLine}
        /\ ~Busy(t) =>
             /\ filter[t].rd # NoLine => state[t][filter[t].rd] # "I"
             /\ filter[t].wr # NoLine => state[t][filter[t].wr] = "M"

IInv ==
    /\ Types /\ StackShape /\ Locks /\ Exclusion
    /\ FramesKnow /\ Copies /\ WrittenKept /\ FilterKnows /\ ok = TRUE

-----------------------------------------------------------------------------
(* Stacks of calls *)

Depth(t) == Len(stack[t])
Top(t) == stack[t][Len(stack[t])]

(* What a step does to the calls of thread t: change the innermost one,    *)
(* change it and add one, drop it, drop it and change the one below.       *)
OnlyOf(t) ==
    /\ stack' \in [L1s -> Seq(Frames)]
    /\ \A u \in L1s : u # t => stack'[u] = stack[u]
Replaced(t, h) ==
    /\ OnlyOf(t)
    /\ Len(stack'[t]) = Depth(t)
    /\ stack'[t][Depth(t)] = h
    /\ \A i \in 1..(Depth(t) - 1) : stack'[t][i] = stack[t][i]
Pushed(t, g, h) ==
    /\ OnlyOf(t)
    /\ Len(stack'[t]) = Depth(t) + 1
    /\ stack'[t][Depth(t) + 1] = h
    /\ stack'[t][Depth(t)] = g
    /\ \A i \in 1..(Depth(t) - 1) : stack'[t][i] = stack[t][i]
Popped(t) ==
    /\ OnlyOf(t)
    /\ Len(stack'[t]) = Depth(t) - 1
    /\ \A i \in 1..(Depth(t) - 1) : stack'[t][i] = stack[t][i]
PoppedTo(t, g) ==
    /\ OnlyOf(t)
    /\ Len(stack'[t]) = Depth(t) - 1
    /\ stack'[t][Depth(t) - 1] = g
    /\ \A i \in 1..(Depth(t) - 2) : stack'[t][i] = stack[t][i]

(* A busy thread has an innermost call. *)
LEMMA TopIs ==
    ASSUME Types, NEW t \in L1s, Busy(t)
    PROVE  /\ Depth(t) \in Nat \ {0} /\ Last(stack[t]) = Top(t)
           /\ Top(t) \in Frames
           /\ \A u \in L1s : Depth(u) \in Nat /\ \A i \in 1..Depth(u) : stack[u][i] \in Frames
  <1>1. stack \in [L1s -> Seq(Frames)]
    BY DEF Types
  <1>2. \A u \in L1s : Depth(u) \in Nat /\ \A i \in 1..Depth(u) : stack[u][i] \in Frames
    BY <1>1, ElementOfSeq, LenProperties DEF Depth
  <1>3. Depth(t) # 0
    BY <1>1, EmptySeq DEF Busy, Depth
  <1>4. Depth(t) \in 1..Depth(t)
    BY <1>2, <1>3
  <1>5. Last(stack[t]) = Top(t) /\ Top(t) = stack[t][Depth(t)]
    BY DEF Top, Last, Depth
  <1> QED
    BY <1>2, <1>3, <1>4, <1>5

(* Popping the innermost element, and replacing it. *)
LEMMA FrontIs ==
    ASSUME NEW S, NEW s \in Seq(S), s # << >>
    PROVE  /\ Front(s) \in Seq(S) /\ Len(Front(s)) = Len(s) - 1
           /\ \A i \in 1..(Len(s) - 1) : Front(s)[i] = s[i]
  <1> DEFINE n == Len(s) - 1
  <1>1. n \in Int /\ n >= 0 /\ \A i \in 1..(n + 1) : s[i] \in S
    BY EmptySeq, LenProperties, ElementOfSeq
  <1>2. /\ SubSeq(s, 1, n) \in Seq(S)
        /\ Len(SubSeq(s, 1, n)) = IF 1 <= n THEN n - 1 + 1 ELSE 0
        /\ \A i \in 1..(n - 1 + 1) : SubSeq(s, 1, n)[i] = s[1 + i - 1]
    <2> HIDE DEF n
    <2>1. \A i \in 1..n : s[i] \in S
      BY <1>1
    <2> QED
      BY <1>1, <2>1, SubSeqProperties
  <1>3. Front(s) = SubSeq(s, 1, n)
    BY DEF Front
  <1> HIDE DEF n
  <1>4. Front(s) \in Seq(S) /\ Len(Front(s)) = n /\ \A i \in 1..n : Front(s)[i] = s[i]
    BY <1>1, <1>2, <1>3
  <1> QED
    BY <1>4 DEF n

(* How the model changes a stack: Goto replaces the innermost call, ...    *)
LEMMA TopReplaced ==
    ASSUME Types, NEW t \in L1s, Busy(t), NEW h \in Frames,
           stack' = [stack EXCEPT ![t] = Append(Front(@), h)]
    PROVE  Replaced(t, h)
  <1>1. stack \in [L1s -> Seq(Frames)] /\ stack[t] # << >> /\ Depth(t) \in Nat \ {0}
    BY TopIs DEF Types, Busy
  <1> DEFINE s == Front(stack[t])
             r == Append(s, h)
  <1>2. /\ s \in Seq(Frames) /\ Len(s) = Depth(t) - 1
        /\ \A i \in 1..(Depth(t) - 1) : s[i] = stack[t][i]
    BY <1>1, FrontIs DEF Depth
  <1>3. /\ r \in Seq(Frames) /\ Len(r) = Len(s) + 1 /\ r[Len(s) + 1] = h
        /\ \A i \in 1..Len(s) : r[i] = s[i]
    BY <1>2, AppendProperties
  <1>4. stack'[t] = r /\ stack' \in [L1s -> Seq(Frames)]
        /\ \A u \in L1s : u # t => stack'[u] = stack[u]
    BY <1>1, <1>3
  <1> HIDE DEF s, r
  <1>5. Len(r) = Depth(t) /\ r[Depth(t)] = h /\ \A i \in 1..(Depth(t) - 1) : r[i] = stack[t][i]
    BY <1>1, <1>2, <1>3
  <1> QED
    BY <1>4, <1>5 DEF Replaced, OnlyOf

(* ... CallParent replaces it by a call that waits, and one it made, ...   *)
LEMMA TopPushed ==
    ASSUME Types, NEW t \in L1s, Busy(t), NEW g \in Frames, NEW h \in Frames,
           stack' = [stack EXCEPT ![t] = Append(Append(Front(@), g), h)]
    PROVE  Pushed(t, g, h)
  <1>1. stack \in [L1s -> Seq(Frames)] /\ stack[t] # << >> /\ Depth(t) \in Nat \ {0}
    BY TopIs DEF Types, Busy
  <1> DEFINE s == Front(stack[t])
             r == Append(s, g)
             q == Append(r, h)
  <1>2. /\ s \in Seq(Frames) /\ Len(s) = Depth(t) - 1
        /\ \A i \in 1..(Depth(t) - 1) : s[i] = stack[t][i]
    BY <1>1, FrontIs DEF Depth
  <1>3. /\ r \in Seq(Frames) /\ Len(r) = Len(s) + 1 /\ r[Len(s) + 1] = g
        /\ \A i \in 1..Len(s) : r[i] = s[i]
    BY <1>2, AppendProperties
  <1>4. /\ q \in Seq(Frames) /\ Len(q) = Len(r) + 1 /\ q[Len(r) + 1] = h
        /\ \A i \in 1..Len(r) : q[i] = r[i]
    BY <1>3, AppendProperties
  <1>5. stack'[t] = q /\ stack' \in [L1s -> Seq(Frames)]
        /\ \A u \in L1s : u # t => stack'[u] = stack[u]
    BY <1>1, <1>4
  <1> HIDE DEF s, r, q
  <1>6. Len(q) = Depth(t) + 1 /\ q[Depth(t) + 1] = h /\ q[Depth(t)] = g
    BY <1>1, <1>2, <1>3, <1>4
  <1>7. \A i \in 1..(Depth(t) - 1) : q[i] = stack[t][i]
    BY <1>1, <1>2, <1>3, <1>4
  <1> QED
    BY <1>5, <1>6, <1>7 DEF Pushed, OnlyOf

(* ... SendInvalidate only adds the one it makes, ...                      *)
LEMMA TopAdded ==
    ASSUME Types, NEW t \in L1s, Busy(t), NEW h \in Frames,
           stack' = [stack EXCEPT ![t] = Append(@, h)]
    PROVE  Pushed(t, Top(t), h)
  <1>1. stack \in [L1s -> Seq(Frames)] /\ Depth(t) \in Nat \ {0}
    BY TopIs DEF Types
  <1> DEFINE q == Append(stack[t], h)
  <1>2. /\ q \in Seq(Frames) /\ Len(q) = Depth(t) + 1 /\ q[Depth(t) + 1] = h
        /\ \A i \in 1..Depth(t) : q[i] = stack[t][i]
    BY <1>1, AppendProperties DEF Depth
  <1>3. stack'[t] = q /\ stack' \in [L1s -> Seq(Frames)]
        /\ \A u \in L1s : u # t => stack'[u] = stack[u]
    BY <1>1, <1>2
  <1> HIDE DEF q
  <1> QED
    BY <1>1, <1>2, <1>3 DEF Pushed, OnlyOf, Top, Depth

(* ... EndAccess drops the innermost call, ...                             *)
LEMMA TopPopped ==
    ASSUME Types, NEW t \in L1s, Busy(t), stack' = [stack EXCEPT ![t] = Front(@)]
    PROVE  Popped(t)
  <1>1. stack \in [L1s -> Seq(Frames)] /\ stack[t] # << >> /\ Depth(t) \in Nat \ {0}
    BY TopIs DEF Types, Busy
  <1> DEFINE s == Front(stack[t])
  <1>2. /\ s \in Seq(Frames) /\ Len(s) = Depth(t) - 1
        /\ \A i \in 1..(Depth(t) - 1) : s[i] = stack[t][i]
    BY <1>1, FrontIs DEF Depth
  <1>3. stack'[t] = s /\ stack' \in [L1s -> Seq(Frames)]
        /\ \A u \in L1s : u # t => stack'[u] = stack[u]
    BY <1>1, <1>2
  <1> HIDE DEF s
  <1> QED
    BY <1>1, <1>2, <1>3 DEF Popped, OnlyOf

(* ... and FinishInvalidate also replaces the one below it.                *)
LEMMA TopPoppedTo ==
    ASSUME Types, NEW t \in L1s, Busy(t), Depth(t) > 1, NEW g \in Frames,
           stack' = [stack EXCEPT ![t] = Append(Front(Front(@)), g)]
    PROVE  PoppedTo(t, g)
  <1>1. stack \in [L1s -> Seq(Frames)] /\ stack[t] # << >> /\ Depth(t) \in Nat \ {0}
    BY TopIs DEF Types, Busy
  <1> DEFINE s == Front(stack[t])
             r == Front(s)
             q == Append(r, g)
  <1>2. /\ s \in Seq(Frames) /\ Len(s) = Depth(t) - 1
        /\ \A i \in 1..(Depth(t) - 1) : s[i] = stack[t][i]
    BY <1>1, FrontIs DEF Depth
  <1>3. s # << >>
    BY <1>1, <1>2, EmptySeq
  <1>4. /\ r \in Seq(Frames) /\ Len(r) = Len(s) - 1
        /\ \A i \in 1..(Len(s) - 1) : r[i] = s[i]
    BY <1>2, <1>3, FrontIs
  <1>5. /\ q \in Seq(Frames) /\ Len(q) = Len(r) + 1 /\ q[Len(r) + 1] = g
        /\ \A i \in 1..Len(r) : q[i] = r[i]
    BY <1>4, AppendProperties
  <1>6. stack'[t] = q /\ stack' \in [L1s -> Seq(Frames)]
        /\ \A u \in L1s : u # t => stack'[u] = stack[u]
    BY <1>1, <1>5
  <1> HIDE DEF s, r, q
  <1>7. Len(q) = Depth(t) - 1 /\ q[Depth(t) - 1] = g
        /\ \A i \in 1..(Depth(t) - 2) : q[i] = stack[t][i]
    BY <1>1, <1>2, <1>4, <1>5
  <1> QED
    BY <1>1, <1>6, <1>7 DEF PoppedTo, OnlyOf

-----------------------------------------------------------------------------
(* The shape of the stacks is kept *)

(* The calls of thread t up to the m-th stay. *)
Keeps(t, m) ==
    /\ OnlyOf(t)
    /\ m \in 0..Depth(t) /\ Len(stack'[t]) \in Nat /\ Len(stack'[t]) >= m
    /\ \A i \in 1..m : stack'[t][i] = stack[t][i]

(* In each of these the calls below stay as they are.                      *)
LEMMA StepKeeps ==
    ASSUME Types, NEW t \in L1s, Busy(t), NEW g, NEW h
    PROVE  /\ Replaced(t, h) => Keeps(t, Depth(t) - 1)
           /\ Pushed(t, g, h) => Keeps(t, Depth(t) - 1)
           /\ Popped(t) => Keeps(t, Depth(t) - 1)
           /\ Depth(t) > 1 /\ PoppedTo(t, g) => Keeps(t, Depth(t) - 2)
  <1>1. Depth(t) \in Nat \ {0}
    BY TopIs
  <1>2. Depth(t) - 1 \in 0..Depth(t) /\ (Depth(t) > 1 => Depth(t) - 2 \in 0..Depth(t))
    BY <1>1
  <1> QED
    BY <1>1, <1>2 DEF Replaced, Pushed, Popped, PoppedTo, Keeps

(* Only the calls that a step changes have to be looked at. *)
LEMMA ShapeStep ==
    ASSUME Types, StackShape, NEW t \in L1s, NEW m, Keeps(t, m),
           \A i \in (m + 1)..Len(stack'[t]) :
               /\ FrameShape(stack'[t][i])
               /\ i = 1 => stack'[t][i].op = "access" /\ stack'[t][i].c = t
               /\ i > 1 => Calls(stack'[t][i - 1], stack'[t][i])
    PROVE  StackShape'
  <1> DEFINE d == Len(stack'[t])
             s == stack'[t]
  <1>1. /\ m \in Nat /\ d \in Nat /\ m <= Depth(t) /\ m <= d
        /\ \A i \in 1..m : s[i] = stack[t][i]
        /\ \A u \in L1s : u # t => stack'[u] = stack[u]
        /\ Depth(t) \in Nat
    BY LenProperties DEF Keeps, OnlyOf, Types, Depth
  <1>2. /\ m > 0 => stack[t][1].op = "access" /\ stack[t][1].c = t
        /\ \A i \in 1..m : FrameShape(stack[t][i])
        /\ \A i \in 2..m : Calls(stack[t][i - 1], stack[t][i])
    <2>1. m > 0 => Busy(t)
      BY <1>1, EmptySeq DEF Busy, Depth
    <2>2. /\ \A i \in 1..m : i \in 1..Depth(t)
          /\ \A i \in 2..m : i \in 2..Depth(t)
      BY <1>1
    <2> QED
      BY <2>1, <2>2 DEF StackShape, Depth
  <1>3. \A i \in (m + 1)..d :
               /\ FrameShape(s[i])
               /\ i = 1 => s[i].op = "access" /\ s[i].c = t
               /\ i > 1 => Calls(s[i - 1], s[i])
    OBVIOUS
  <1>4. d > 0 => s[1].op = "access" /\ s[1].c = t
    <2> HIDE DEF d, s
    <2>1. CASE m > 0
      BY <2>1, <1>1, <1>2
    <2>2. CASE m = 0
      BY <2>2, <1>1, <1>3
    <2> QED
      BY <2>1, <2>2, <1>1
  <1>5. \A i \in 1..d : FrameShape(s[i])
    <2> HIDE DEF d, s
    <2> SUFFICES ASSUME NEW i \in 1..d PROVE FrameShape(s[i])
      OBVIOUS
    <2>1. i \in 1..m \/ i \in (m + 1)..d
      BY <1>1
    <2> QED
      BY <2>1, <1>1, <1>2, <1>3
  <1>6. \A i \in 2..d : Calls(s[i - 1], s[i])
    <2> HIDE DEF d, s
    <2> SUFFICES ASSUME NEW i \in 2..d PROVE Calls(s[i - 1], s[i])
      OBVIOUS
    <2>1. (i \in 2..m /\ i \in 1..m /\ i - 1 \in 1..m) \/ (i \in (m + 1)..d /\ i > 1)
      BY <1>1
    <2> QED
      BY <2>1, <1>1, <1>2, <1>3
  <1> SUFFICES ASSUME NEW u \in L1s
               PROVE  /\ stack'[u] # << >> => stack'[u][1].op = "access" /\ stack'[u][1].c = u
                      /\ \A i \in 1..Len(stack'[u]) : FrameShape(stack'[u][i])
                      /\ \A i \in 2..Len(stack'[u]) : Calls(stack'[u][i - 1], stack'[u][i])
    BY DEF StackShape, Busy
  <1>7. stack'[t] # << >> => d > 0
    <2>1. stack'[t] \in Seq(Frames)
      BY DEF Keeps, OnlyOf
    <2> QED
      BY <2>1, <1>1, EmptySeq
  <1> HIDE DEF d
  <1>8. CASE u = t
    BY <1>4, <1>5, <1>6, <1>7, <1>8 DEF d
  <1>9. CASE u # t
    BY <1>1, <1>9 DEF StackShape, Busy
  <1> QED
    BY <1>8, <1>9

(* The innermost call of a thread, and the one that made it. *)
LEMMA TopShape ==
    ASSUME Types, StackShape, NEW t \in L1s, Busy(t)
    PROVE  /\ Depth(t) \in Nat \ {0} /\ Top(t) = stack[t][Depth(t)]
           /\ Top(t) \in Frames /\ FrameShape(Top(t))
           /\ Depth(t) = 1 => Top(t).op = "access" /\ Top(t).c = t
           /\ Depth(t) > 1 =>
                 /\ Depth(t) - 1 \in 1..Depth(t)
                 /\ stack[t][Depth(t) - 1] \in Frames
                 /\ FrameShape(stack[t][Depth(t) - 1])
                 /\ Calls(stack[t][Depth(t) - 1], Top(t))
  <1>1. /\ Depth(t) \in Nat \ {0} /\ Top(t) = stack[t][Depth(t)] /\ Top(t) \in Frames
        /\ \A i \in 1..Depth(t) : stack[t][i] \in Frames
    BY TopIs DEF Top, Depth
  <1>2. /\ stack[t][1].op = "access" /\ stack[t][1].c = t
        /\ \A i \in 1..Depth(t) : FrameShape(stack[t][i])
        /\ \A i \in 2..Depth(t) : Calls(stack[t][i - 1], stack[t][i])
    BY DEF StackShape, Depth
  <1>3. Depth(t) \in 1..Depth(t) /\ (Depth(t) > 1 => Depth(t) \in 2..Depth(t) /\ Depth(t) - 1 \in 1..Depth(t))
    BY <1>1
  <1> QED
    BY <1>1, <1>2, <1>3

(* Only its own thread enters an L1, with its outermost call. *)
LEMMA EntersOwnL1 ==
    ASSUME Types, StackShape, NEW t \in L1s, NEW i \in 1..Depth(t),
           stack[t][i].op = "access", stack[t][i].c \in L1s
    PROVE  i = 1 /\ stack[t][i].c = t
  <1>1. Busy(t) /\ Depth(t) \in Nat
    BY LenProperties, EmptySeq DEF Busy, Depth, Types
  <1>2. CASE i = 1
    BY <1>1, <1>2 DEF StackShape
  <1>3. CASE i # 1
    <2>1. i \in 2..Depth(t)
      BY <1>1, <1>3
    <2>2. Calls(stack[t][i - 1], stack[t][i])
      BY <2>1 DEF StackShape, Depth
    <2>3. stack[t][i].c \in Inner
      BY <2>2 DEF Calls, AsksParent, TellsChild
    <2> QED
      BY <2>3, TreeAssumption
  <1> QED
    BY <1>2, <1>3

-----------------------------------------------------------------------------
(* The locks are kept *)

(* A step after which only call k of thread t may hold or have entered     *)
(* what it did not before, and no other call did.                          *)
LEMMA ExclusionStep ==
    ASSUME Exclusion, NEW t \in L1s, NEW k, OnlyOf(t),
           \A u \in L1s : \A i \in 1..Len(stack'[u]) : u # t \/ i # k =>
               \/ ~Holds(stack'[u][i], i = Len(stack'[u])) /\ ~Entered(stack'[u][i])
               \/ /\ i \in 1..Depth(u) /\ stack[u][i].c = stack'[u][i].c
                  /\ Holds(stack'[u][i], i = Len(stack'[u])) => Holds(stack[u][i], i = Depth(u))
                  /\ Entered(stack'[u][i]) => Entered(stack[u][i]),
           \A u \in L1s : \A i \in 1..Depth(u) :
               (u # t \/ i # k) /\ k \in 1..Len(stack'[t])
               /\ stack[u][i].c = stack'[t][k].c /\ i \in 1..Len(stack'[u]) =>
               /\ ~(Holds(stack[u][i], i = Depth(u)) /\ Holds(stack'[t][k], k = Len(stack'[t])))
               /\ ~(Entered(stack[u][i]) /\ Entered(stack'[t][k]))
    PROVE  Exclusion'
  <1> DEFINE H(u, i) == Holds(stack'[u][i], i = Len(stack'[u]))
             N(u, i) == Entered(stack'[u][i])
             Hold(u, i) == Holds(stack[u][i], i = Depth(u))
             In(u, i) == Entered(stack[u][i])
             C(u, i) == stack[u][i].c
             D(u, i) == stack'[u][i].c
  <1>1. \A u \in L1s : \A i \in 1..Len(stack'[u]) : u # t \/ i # k =>
            \/ ~H(u, i) /\ ~N(u, i)
            \/ /\ i \in 1..Depth(u) /\ C(u, i) = D(u, i)
               /\ H(u, i) => Hold(u, i)
               /\ N(u, i) => In(u, i)
    BY DEF Depth
  <1>2. \A u \in L1s : \A i \in 1..Depth(u) :
               (u # t \/ i # k) /\ k \in 1..Len(stack'[t])
               /\ C(u, i) = D(t, k) /\ i \in 1..Len(stack'[u]) =>
               ~(Hold(u, i) /\ H(t, k)) /\ ~(In(u, i) /\ N(t, k))
    BY DEF Depth
  <1>3. \A u, v \in L1s : \A i \in 1..Depth(u), j \in 1..Depth(v) :
            C(u, i) = C(v, j) /\ ((Hold(u, i) /\ Hold(v, j)) \/ (In(u, i) /\ In(v, j)))
            => u = v /\ i = j
    BY DEF Exclusion, Depth
  <1> HIDE DEF H, N, Hold, In, C, D
  <1>4. \A u, v \in L1s : \A i \in 1..Len(stack'[u]), j \in 1..Len(stack'[v]) :
            D(u, i) = D(v, j) /\ ((H(u, i) /\ H(v, j)) \/ (N(u, i) /\ N(v, j)))
            => u = v /\ i = j
    <2> SUFFICES ASSUME NEW u \in L1s, NEW v \in L1s,
                        NEW i \in 1..Len(stack'[u]), NEW j \in 1..Len(stack'[v]),
                        D(u, i) = D(v, j), (H(u, i) /\ H(v, j)) \/ (N(u, i) /\ N(v, j))
                 PROVE  u = v /\ i = j
      OBVIOUS
    <2>1. CASE (u # t \/ i # k) /\ (v # t \/ j # k)
      BY <2>1, <1>1, <1>3
    <2>2. CASE u = t /\ i = k /\ (v # t \/ j # k)
      BY <2>2, <1>1, <1>2
    <2>3. CASE v = t /\ j = k /\ (u # t \/ i # k)
      BY <2>3, <1>1, <1>2
    <2>4. CASE u = t /\ i = k /\ v = t /\ j = k
      BY <2>4
    <2> QED
      BY <2>1, <2>2, <2>3, <2>4
  <1> QED
    BY <1>4 DEF Exclusion, H, N, D

(* A call that takes or gives locks as it goes on.                         *)
LEMMA LocksReplaced ==
    ASSUME Types, StackShape, Locks, Exclusion, NEW t \in L1s, Busy(t),
           NEW h, Replaced(t, h), h.c = Top(t).c, h.op = Top(t).op,
           Holds(h, TRUE) => h.c \in bcc' /\ (Holds(Top(t), TRUE) \/ h.c \notin bcc),
           Entered(h) /\ h.c \in Inner => h.c \in tcc' /\ (Entered(Top(t)) \/ h.c \notin tcc),
           h.pc = "fill" => t \in filterLock',
           \A c \in bcc : c \in bcc' \/ (c = h.c /\ Holds(Top(t), TRUE)),
           \A c \in tcc : c \in tcc' \/ (c = h.c /\ Entered(Top(t))),
           \A u \in filterLock : u \in filterLock' \/ u = t
    PROVE  Locks' /\ Exclusion'
  <1> DEFINE n == Depth(t)
             f == Top(t)
  <1>1. /\ n \in Nat \ {0} /\ n \in 1..n /\ f = stack[t][n] /\ f \in Frames
        /\ \A u \in L1s : Depth(u) \in Nat
        /\ Len(stack'[t]) = n /\ stack'[t][n] = h
        /\ \A i \in 1..(n - 1) : stack'[t][i] = stack[t][i]
        /\ \A u \in L1s : u # t => stack'[u] = stack[u]
    BY TopIs, TopShape DEF Replaced, OnlyOf
  <1>2. \A u \in L1s : \A i \in 1..Depth(u) :
            LET e == stack[u][i]
            IN  /\ Holds(e, i = Depth(u)) => e.c \in bcc
                /\ Entered(e) /\ e.c \in Inner => e.c \in tcc
                /\ e.pc = "fill" => u \in filterLock
    BY DEF Locks, Depth
  <1>3. \A u \in L1s : \A i \in 1..Depth(u) :
            stack[u][i].c = f.c /\ (\/ Holds(stack[u][i], i = Depth(u)) /\ Holds(f, TRUE)
                                    \/ Entered(stack[u][i]) /\ Entered(f))
            => u = t /\ i = n
    <2>1. \A u \in L1s : \A i \in 1..Depth(u) :
            stack[u][i].c = stack[t][n].c
            /\ (\/ Holds(stack[u][i], i = Depth(u)) /\ Holds(stack[t][n], n = Depth(t))
                \/ Entered(stack[u][i]) /\ Entered(stack[t][n]))
            => u = t /\ i = n
      BY <1>1 DEF Exclusion, Depth
    <2> QED
      BY <2>1, <1>1
  <1>4. \A u \in L1s : \A i \in 1..Depth(u) :
            Entered(stack[u][i]) /\ stack[u][i].c = f.c /\ f.c \in L1s /\ Entered(h) => u = t /\ i = n
    <2> SUFFICES ASSUME NEW u \in L1s, NEW i \in 1..Depth(u),
                        Entered(stack[u][i]), stack[u][i].c = f.c, f.c \in L1s, Entered(h)
                 PROVE  u = t /\ i = n
      OBVIOUS
    <2>1. i = 1 /\ f.c = u
      BY EntersOwnL1 DEF Entered
    <2>2. n = 1 /\ f.c = t
      BY <1>1, EntersOwnL1, ZenonT(60) DEF Entered
    <2> QED
      BY <2>1, <2>2
  <1>5. f.c \in L1s \cup Inner
    BY <1>1 DEF Frames, Caches
  <1> HIDE DEF n, f
  <1>6. \A u \in L1s : \A i \in 1..Len(stack'[u]) : u # t \/ i # n =>
            i \in 1..Depth(u) /\ stack'[u][i] = stack[u][i] /\ (i = Len(stack'[u]) <=> i = Depth(u))
    BY <1>1 DEF n, Depth
  <1>7. Exclusion'
    <2>1. \A u \in L1s : \A i \in 1..Len(stack'[u]) : u # t \/ i # n =>
               \/ ~Holds(stack'[u][i], i = Len(stack'[u])) /\ ~Entered(stack'[u][i])
               \/ /\ i \in 1..Depth(u) /\ stack[u][i].c = stack'[u][i].c
                  /\ Holds(stack'[u][i], i = Len(stack'[u])) => Holds(stack[u][i], i = Depth(u))
                  /\ Entered(stack'[u][i]) => Entered(stack[u][i])
      BY <1>6 DEF Holds
    <2>2. \A u \in L1s : \A i \in 1..Depth(u) :
               (u # t \/ i # n) /\ n \in 1..Len(stack'[t])
               /\ stack[u][i].c = stack'[t][n].c /\ i \in 1..Len(stack'[u]) =>
               /\ ~(Holds(stack[u][i], i = Depth(u)) /\ Holds(stack'[t][n], n = Len(stack'[t])))
               /\ ~(Entered(stack[u][i]) /\ Entered(stack'[t][n]))
      <3> SUFFICES ASSUME NEW u \in L1s, NEW i \in 1..Depth(u), u # t \/ i # n,
                          stack[u][i].c = h.c
                   PROVE  /\ ~(Holds(stack[u][i], i = Depth(u)) /\ Holds(h, TRUE))
                          /\ ~(Entered(stack[u][i]) /\ Entered(h))
        BY <1>1, Zenon DEF n
      <3>1. ~(Holds(stack[u][i], i = Depth(u)) /\ Holds(h, TRUE))
        BY <1>2, <1>3 DEF f
      <3>2. ~(Entered(stack[u][i]) /\ Entered(h))
        BY <1>2, <1>3, <1>4, <1>5 DEF f
      <3> QED
        BY <3>1, <3>2
    <2> QED
      BY <2>1, <2>2, ExclusionStep DEF Replaced
  <1>8. Locks'
    <2> SUFFICES ASSUME NEW u \in L1s, NEW i \in 1..Len(stack'[u])
                 PROVE  /\ Holds(stack'[u][i], i = Len(stack'[u])) => stack'[u][i].c \in bcc'
                        /\ Entered(stack'[u][i]) /\ stack'[u][i].c \in Inner => stack'[u][i].c \in tcc'
                        /\ stack'[u][i].pc = "fill" => u \in filterLock'
      BY DEF Locks
    <2>1. CASE u = t /\ i = n
      BY <2>1, <1>1 DEF n
    <2>2. CASE u # t \/ i # n
      <3>1. /\ i \in 1..Depth(u) /\ stack'[u][i] = stack[u][i]
            /\ i = Len(stack'[u]) <=> i = Depth(u)
        BY <2>2, <1>6
      <3>2. Holds(stack'[u][i], i = Len(stack'[u])) => stack'[u][i].c \in bcc'
        BY <3>1, <2>2, <1>2, <1>3 DEF Holds, f
      <3>3. Entered(stack'[u][i]) /\ stack'[u][i].c \in Inner => stack'[u][i].c \in tcc'
        BY <3>1, <2>2, <1>2, <1>3 DEF f
      <3>4. stack'[u][i].pc = "fill" => u \in filterLock'
        <4>1. CASE u # t
          BY <4>1, <3>1, <1>2
        <4>2. CASE u = t
          <5> SUFFICES ASSUME stack[u][i].pc = "fill" PROVE FALSE
            BY <3>1
          <5>1. /\ i \in 1..n /\ i # n
            BY <2>2, <4>2, <3>1 DEF n
          <5>2. i + 1 \in 2..n /\ (i + 1) - 1 = i
            BY <5>1, <1>1
          <5>3. Calls(stack[t][(i + 1) - 1], stack[t][i + 1])
            BY <5>2 DEF StackShape, n, Depth
          <5> QED
            BY <5>2, <5>3, <4>2 DEF Calls, AsksParent, TellsChild
        <4> QED
          BY <4>1, <4>2
      <3> QED
        BY <3>2, <3>3, <3>4
    <2> QED
      BY <2>1, <2>2
  <1> QED
    BY <1>7, <1>8

(* What Locks and Exclusion say of the innermost call. *)
LEMMA TopLocks ==
    ASSUME Types, StackShape, Locks, Exclusion, NEW t \in L1s, Busy(t)
    PROVE  /\ \A u \in L1s : \A i \in 1..Depth(u) :
                 LET e == stack[u][i]
                 IN  /\ Holds(e, i = Depth(u)) => e.c \in bcc
                     /\ Entered(e) /\ e.c \in Inner => e.c \in tcc
                     /\ e.pc = "fill" => u \in filterLock
           /\ \A u \in L1s : \A i \in 1..Depth(u) : \A j \in 1..Depth(t) :
                 stack[u][i].c = stack[t][j].c
                 /\ (\/ Holds(stack[u][i], i = Depth(u)) /\ Holds(stack[t][j], j = Depth(t))
                     \/ Entered(stack[u][i]) /\ Entered(stack[t][j]))
                 => u = t /\ i = j
           /\ \A u \in L1s : \A i \in 1..(Depth(u) - 1) : stack[u][i].pc # "fill"
  <1>1. \A u \in L1s : \A i \in 1..(Depth(u) - 1) : stack[u][i].pc # "fill"
    <2> SUFFICES ASSUME NEW u \in L1s, NEW i \in 1..(Depth(u) - 1) PROVE stack[u][i].pc # "fill"
      OBVIOUS
    <2>1. Depth(u) \in Nat
      BY TopIs
    <2>2. i + 1 \in 2..Depth(u) /\ (i + 1) - 1 = i
      BY <2>1
    <2>3. Calls(stack[u][(i + 1) - 1], stack[u][i + 1])
      BY <2>2 DEF StackShape, Depth
    <2> QED
      BY <2>2, <2>3 DEF Calls, AsksParent, TellsChild
  <1> QED
    BY <1>1 DEF Locks, Exclusion, Depth

(* A call that gives its bottom lock back to call its parent, or keeps it  *)
(* to call a child.                                                        *)
LEMMA LocksPushed ==
    ASSUME Types, StackShape, Locks, Exclusion, NEW t \in L1s, Busy(t),
           NEW g, NEW h, Pushed(t, g, h), g.c = Top(t).c, h.pc = "start",
           g.pc # "fill", Holds(g, FALSE) => Holds(Top(t), TRUE),
           Entered(g) => Entered(Top(t)),
           \A c \in bcc : c \in bcc' \/ (c = g.c /\ Holds(Top(t), TRUE) /\ ~Holds(g, FALSE)),
           tcc' = tcc, filterLock' = filterLock
    PROVE  Locks' /\ Exclusion'
  <1> DEFINE n == Depth(t)
             f == Top(t)
  <1>1. /\ n \in Nat \ {0} /\ n \in 1..n /\ f = stack[t][n] /\ f \in Frames
        /\ \A u \in L1s : Depth(u) \in Nat
        /\ Len(stack'[t]) = n + 1 /\ stack'[t][n + 1] = h /\ stack'[t][n] = g
        /\ \A i \in 1..(n - 1) : stack'[t][i] = stack[t][i]
        /\ \A u \in L1s : u # t => stack'[u] = stack[u]
    BY TopIs, TopShape DEF Pushed, OnlyOf
  <1>2. \A u \in L1s : \A i \in 1..Depth(u) :
            LET e == stack[u][i]
            IN  /\ Holds(e, i = Depth(u)) => e.c \in bcc
                /\ Entered(e) /\ e.c \in Inner => e.c \in tcc
                /\ e.pc = "fill" => u \in filterLock
    BY TopLocks
  <1>3. \A u \in L1s : \A i \in 1..Depth(u) :
            stack[u][i].c = f.c /\ (\/ Holds(stack[u][i], i = Depth(u)) /\ Holds(f, TRUE)
                                    \/ Entered(stack[u][i]) /\ Entered(f))
            => u = t /\ i = n
    <2>1. \A u \in L1s : \A i \in 1..Depth(u) :
            stack[u][i].c = stack[t][n].c
            /\ (\/ Holds(stack[u][i], i = Depth(u)) /\ Holds(stack[t][n], n = Depth(t))
                \/ Entered(stack[u][i]) /\ Entered(stack[t][n]))
            => u = t /\ i = n
      BY <1>1, TopLocks
    <2> QED
      BY <2>1, <1>1
  <1> HIDE DEF n, f
  <1>5. \A u \in L1s : \A i \in 1..Len(stack'[u]) : (u # t \/ i # n) /\ ~(u = t /\ i = n + 1) =>
            i \in 1..Depth(u) /\ stack'[u][i] = stack[u][i] /\ (i = Len(stack'[u]) => i = Depth(u))
    BY <1>1 DEF n, Depth
  <1>6. ~Holds(h, TRUE) /\ ~Entered(h)
    BY DEF Holds, Entered
  <1>7. Exclusion'
    <2>1. \A u \in L1s : \A i \in 1..Len(stack'[u]) : u # t \/ i # n =>
               \/ ~Holds(stack'[u][i], i = Len(stack'[u])) /\ ~Entered(stack'[u][i])
               \/ /\ i \in 1..Depth(u) /\ stack[u][i].c = stack'[u][i].c
                  /\ Holds(stack'[u][i], i = Len(stack'[u])) => Holds(stack[u][i], i = Depth(u))
                  /\ Entered(stack'[u][i]) => Entered(stack[u][i])
      BY <1>1, <1>5, <1>6 DEF Holds
    <2>2. \A u \in L1s : \A i \in 1..Depth(u) :
               (u # t \/ i # n) /\ n \in 1..Len(stack'[t])
               /\ stack[u][i].c = stack'[t][n].c /\ i \in 1..Len(stack'[u]) =>
               /\ ~(Holds(stack[u][i], i = Depth(u)) /\ Holds(stack'[t][n], n = Len(stack'[t])))
               /\ ~(Entered(stack[u][i]) /\ Entered(stack'[t][n]))
      <3>0. (n = Len(stack'[t])) = FALSE
        BY <1>1
      <3> SUFFICES ASSUME NEW u \in L1s, NEW i \in 1..Depth(u), u # t \/ i # n,
                          stack[u][i].c = g.c
                   PROVE  /\ ~(Holds(stack[u][i], i = Depth(u)) /\ Holds(g, FALSE))
                          /\ ~(Entered(stack[u][i]) /\ Entered(g))
        BY <1>1, <3>0
      <3> QED
        BY <1>3 DEF f
    <2> QED
      BY <2>1, <2>2, ExclusionStep DEF Pushed
  <1>8. Locks'
    <2> SUFFICES ASSUME NEW u \in L1s, NEW i \in 1..Len(stack'[u])
                 PROVE  /\ Holds(stack'[u][i], i = Len(stack'[u])) => stack'[u][i].c \in bcc'
                        /\ Entered(stack'[u][i]) /\ stack'[u][i].c \in Inner => stack'[u][i].c \in tcc'
                        /\ stack'[u][i].pc = "fill" => u \in filterLock'
      BY DEF Locks
    <2>1. CASE u = t /\ i = n
      <3>1. (i = Len(stack'[u])) = FALSE /\ stack'[u][i] = g
        BY <2>1, <1>1
      <3>2. /\ Holds(f, TRUE) => f.c \in bcc
            /\ Entered(f) /\ f.c \in Inner => f.c \in tcc
        BY <1>1, <1>2 DEF n
      <3> QED
        BY <3>1, <3>2 DEF f
    <2>2. CASE u = t /\ i = n + 1
      BY <2>2, <1>1, <1>6
    <2>3. CASE (u # t \/ i # n) /\ ~(u = t /\ i = n + 1)
      <3>1. /\ i \in 1..Depth(u) /\ stack'[u][i] = stack[u][i]
            /\ i = Len(stack'[u]) => i = Depth(u)
        BY <2>3, <1>5
      <3>2. Holds(stack'[u][i], i = Len(stack'[u])) => stack'[u][i].c \in bcc'
        BY <3>1, <2>3, <1>2, <1>3 DEF Holds, f
      <3>3. Entered(stack'[u][i]) /\ stack'[u][i].c \in Inner => stack'[u][i].c \in tcc'
        BY <3>1, <1>2
      <3>4. stack'[u][i].pc = "fill" => u \in filterLock'
        BY <3>1, <1>2
      <3> QED
        BY <3>2, <3>3, <3>4
    <2> QED
      BY <2>1, <2>2, <2>3
  <1> QED
    BY <1>7, <1>8

(* The innermost call ends, and the one that made it goes on as e. *)
LEMMA LocksDropped ==
    ASSUME Types, StackShape, Locks, Exclusion, NEW t \in L1s, Busy(t), Depth(t) > 1,
           NEW e, Keeps(t, Depth(t) - 2), Len(stack'[t]) = Depth(t) - 1,
           stack'[t][Depth(t) - 1] = e, e.c = stack[t][Depth(t) - 1].c, e.pc # "fill",
           Holds(e, TRUE) => /\ e.c \in bcc'
                             /\ Holds(stack[t][Depth(t) - 1], FALSE) \/ e.c \notin bcc,
           Entered(e) => Entered(stack[t][Depth(t) - 1]),
           \A c \in bcc : c \in bcc' \/ (c = Top(t).c /\ Holds(Top(t), TRUE)),
           \A c \in tcc : c \in tcc' \/ (c = Top(t).c /\ Entered(Top(t))),
           filterLock' = filterLock
    PROVE  Locks' /\ Exclusion'
  <1> DEFINE n == Depth(t)
             k == Depth(t) - 1
             f == Top(t)
             g == stack[t][Depth(t) - 1]
  <1>1. /\ n \in Nat \ {0} /\ n \in 1..n /\ f = stack[t][n] /\ f \in Frames
        /\ \A u \in L1s : Depth(u) \in Nat
        /\ k \in 1..n /\ k + 1 = n /\ g = stack[t][k]
        /\ Len(stack'[t]) = k /\ stack'[t][k] = e
        /\ \A i \in 1..(k - 1) : stack'[t][i] = stack[t][i]
        /\ \A u \in L1s : u # t => stack'[u] = stack[u]
    BY TopIs, TopShape DEF Keeps, OnlyOf
  <1>2. \A u \in L1s : \A i \in 1..Depth(u) :
            LET b == stack[u][i]
            IN  /\ Holds(b, i = Depth(u)) => b.c \in bcc
                /\ Entered(b) /\ b.c \in Inner => b.c \in tcc
                /\ b.pc = "fill" => u \in filterLock
    BY TopLocks
  <1>3. \A u \in L1s : \A i \in 1..Depth(u) :
            /\ stack[u][i].c = f.c /\ (\/ Holds(stack[u][i], i = Depth(u)) /\ Holds(f, TRUE)
                                       \/ Entered(stack[u][i]) /\ Entered(f))
               => u = t /\ i = n
            /\ stack[u][i].c = g.c /\ (\/ Holds(stack[u][i], i = Depth(u)) /\ Holds(g, FALSE)
                                       \/ Entered(stack[u][i]) /\ Entered(g))
               => u = t /\ i = k
    <2>1. \A u \in L1s : \A i \in 1..Depth(u) : \A j \in 1..Depth(t) :
            stack[u][i].c = stack[t][j].c
            /\ (\/ Holds(stack[u][i], i = Depth(u)) /\ Holds(stack[t][j], j = Depth(t))
                \/ Entered(stack[u][i]) /\ Entered(stack[t][j]))
            => u = t /\ i = j
      BY TopLocks
    <2>2. (n = Depth(t)) = TRUE /\ (k = Depth(t)) = FALSE
      BY <1>1
    <2> HIDE DEF n, k, f, g
    <2>3. n \in 1..Depth(t) /\ k \in 1..Depth(t)
      BY <1>1 DEF n
    <2>4. \A u \in L1s : \A i \in 1..Depth(u) :
            stack[u][i].c = stack[t][n].c
            /\ (\/ Holds(stack[u][i], i = Depth(u)) /\ Holds(stack[t][n], TRUE)
                \/ Entered(stack[u][i]) /\ Entered(stack[t][n]))
            => u = t /\ i = n
      BY <2>1, <2>2, <2>3, ZenonT(60)
    <2>5. \A u \in L1s : \A i \in 1..Depth(u) :
            stack[u][i].c = stack[t][k].c
            /\ (\/ Holds(stack[u][i], i = Depth(u)) /\ Holds(stack[t][k], FALSE)
                \/ Entered(stack[u][i]) /\ Entered(stack[t][k]))
            => u = t /\ i = k
      BY <2>1, <2>2, <2>3, ZenonT(60)
    <2>6. f = stack[t][n] /\ g = stack[t][k]
      BY <1>1
    <2> QED
      BY <2>4, <2>5, <2>6
  <1> HIDE DEF n, k, f, g
  <1>5. \A u \in L1s : \A i \in 1..Len(stack'[u]) : u # t \/ i # k =>
            /\ i \in 1..Depth(u) /\ stack'[u][i] = stack[u][i]
            /\ i = Len(stack'[u]) => i = Depth(u)
            /\ u # t \/ i # n
    BY <1>1 DEF n, Depth
  <1>6. (k = Len(stack'[t])) = TRUE /\ e.c = g.c
    BY <1>1 DEF g
  <1>7. Exclusion'
    <2>1. \A u \in L1s : \A i \in 1..Len(stack'[u]) : u # t \/ i # k =>
               \/ ~Holds(stack'[u][i], i = Len(stack'[u])) /\ ~Entered(stack'[u][i])
               \/ /\ i \in 1..Depth(u) /\ stack[u][i].c = stack'[u][i].c
                  /\ Holds(stack'[u][i], i = Len(stack'[u])) => Holds(stack[u][i], i = Depth(u))
                  /\ Entered(stack'[u][i]) => Entered(stack[u][i])
      BY <1>5 DEF Holds
    <2>2. \A u \in L1s : \A i \in 1..Depth(u) :
               (u # t \/ i # k) /\ k \in 1..Len(stack'[t])
               /\ stack[u][i].c = stack'[t][k].c /\ i \in 1..Len(stack'[u]) =>
               /\ ~(Holds(stack[u][i], i = Depth(u)) /\ Holds(stack'[t][k], k = Len(stack'[t])))
               /\ ~(Entered(stack[u][i]) /\ Entered(stack'[t][k]))
      <3> SUFFICES ASSUME NEW u \in L1s, NEW i \in 1..Depth(u), u # t \/ i # k,
                          stack[u][i].c = g.c
                   PROVE  /\ ~(Holds(stack[u][i], i = Depth(u)) /\ Holds(e, TRUE))
                          /\ ~(Entered(stack[u][i]) /\ Entered(e))
        <4>1. /\ stack'[t][k] = e /\ stack'[t][k].c = g.c
              /\ Holds(stack'[t][k], k = Len(stack'[t])) <=> Holds(e, TRUE)
              /\ Entered(stack'[t][k]) <=> Entered(e)
          BY <1>1, <1>6 DEF Holds, Entered
        <4> QED
          BY <4>1, Zenon
      <3> QED
        BY <1>2, <1>3, <1>6, ZenonT(60) DEF g, k
    <2>3. OnlyOf(t)
      BY DEF Keeps
    <2> QED
      BY <2>1, <2>2, <2>3, ExclusionStep
  <1>8. Locks'
    <2> SUFFICES ASSUME NEW u \in L1s, NEW i \in 1..Len(stack'[u])
                 PROVE  /\ Holds(stack'[u][i], i = Len(stack'[u])) => stack'[u][i].c \in bcc'
                        /\ Entered(stack'[u][i]) /\ stack'[u][i].c \in Inner => stack'[u][i].c \in tcc'
                        /\ stack'[u][i].pc = "fill" => u \in filterLock'
      BY DEF Locks
    <2>1. CASE u = t /\ i = k
      <3>1. (i = Len(stack'[u])) = TRUE /\ stack'[u][i] = e
        BY <2>1, <1>1
      <3>2. Entered(g) /\ g.c \in Inner => g.c \in tcc'
        <4>1. Entered(g) /\ g.c \in Inner => g.c \in tcc
          BY <1>1, <1>2 DEF n
        <4>2. ~(Entered(g) /\ Entered(f) /\ g.c = f.c)
          <5>1. n \in 1..Depth(t) /\ n # k /\ f = stack[t][n]
            BY <1>1 DEF n
          <5> QED
            BY <5>1, <1>3
        <4> QED
          BY <4>1, <4>2 DEF f
      <3> QED
        BY <3>1, <3>2, <1>6 DEF g, k
    <2>2. CASE u # t \/ i # k
      <3>1. /\ i \in 1..Depth(u) /\ stack'[u][i] = stack[u][i]
            /\ i = Len(stack'[u]) => i = Depth(u)
            /\ u # t \/ i # n
        BY <2>2, <1>5
      <3>2. Holds(stack'[u][i], i = Len(stack'[u])) => stack'[u][i].c \in bcc'
        BY <3>1, <2>2, <1>2, <1>3 DEF Holds, f
      <3>3. Entered(stack'[u][i]) /\ stack'[u][i].c \in Inner => stack'[u][i].c \in tcc'
        BY <3>1, <1>2, <1>3 DEF f
      <3>4. stack'[u][i].pc = "fill" => u \in filterLock'
        BY <3>1, <1>2
      <3> QED
        BY <3>2, <3>3, <3>4
    <2> QED
      BY <2>1, <2>2
  <1> QED
    BY <1>7, <1>8

(* The stack of an L1 becomes empty, or gets its first call, which has no  *)
(* lock yet.                                                               *)
LEMMA LocksOuter ==
    ASSUME Types, Locks, Exclusion, NEW t \in L1s, OnlyOf(t), bcc' = bcc, tcc' = tcc,
           \A u \in filterLock : u \in filterLock' \/ u = t,
           \/ stack'[t] = << >>
           \/ Len(stack'[t]) = 1 /\ stack'[t][1].pc = "start"
    PROVE  Locks' /\ Exclusion'
  <1>1. /\ \A i \in 1..Len(stack'[t]) :
              /\ i = 1 /\ stack'[t][1].pc = "start"
              /\ \A b \in BOOLEAN : ~Holds(stack'[t][1], b)
              /\ ~Entered(stack'[t][1])
        /\ \A u \in L1s : u # t => stack'[u] = stack[u]
    <2>1. \A i \in 1..Len(stack'[t]) : i = 1 /\ stack'[t][1].pc = "start"
      <3>1. CASE stack'[t] = << >>
        <4>1. Len(stack'[t]) = 0
          BY <3>1
        <4> QED
          BY <4>1
      <3>2. CASE Len(stack'[t]) = 1 /\ stack'[t][1].pc = "start"
        BY <3>2
      <3> QED
        BY <3>1, <3>2
    <2> QED
      BY <2>1 DEF OnlyOf, Holds, Entered
  <1>2. Locks'
    <2> SUFFICES ASSUME NEW u \in L1s, NEW i \in 1..Len(stack'[u])
                 PROVE  /\ Holds(stack'[u][i], i = Len(stack'[u])) => stack'[u][i].c \in bcc'
                        /\ Entered(stack'[u][i]) /\ stack'[u][i].c \in Inner => stack'[u][i].c \in tcc'
                        /\ stack'[u][i].pc = "fill" => u \in filterLock'
      BY DEF Locks
    <2>1. CASE u = t
      BY <2>1, <1>1
    <2>2. CASE u # t
      BY <2>2, <1>1 DEF Locks
    <2> QED
      BY <2>1, <2>2
  <1>3. Exclusion'
    <2>1. \A u \in L1s : \A i \in 1..Len(stack'[u]) : u # t \/ i # 1 =>
               \/ ~Holds(stack'[u][i], i = Len(stack'[u])) /\ ~Entered(stack'[u][i])
               \/ /\ i \in 1..Depth(u) /\ stack[u][i].c = stack'[u][i].c
                  /\ Holds(stack'[u][i], i = Len(stack'[u])) => Holds(stack[u][i], i = Depth(u))
                  /\ Entered(stack'[u][i]) => Entered(stack[u][i])
      BY <1>1 DEF Depth
    <2>2. \A u \in L1s : \A i \in 1..Depth(u) :
               (u # t \/ i # 1) /\ 1 \in 1..Len(stack'[t])
               /\ stack[u][i].c = stack'[t][1].c /\ i \in 1..Len(stack'[u]) =>
               /\ ~(Holds(stack[u][i], i = Depth(u)) /\ Holds(stack'[t][1], 1 = Len(stack'[t])))
               /\ ~(Entered(stack[u][i]) /\ Entered(stack'[t][1]))
      BY <1>1
    <2> QED
      BY <2>1, <2>2, ExclusionStep
  <1> QED
    BY <1>2, <1>3

-----------------------------------------------------------------------------
(* What the calls know is kept *)

(* The calls that stay, and those that are new or innermost now. *)
LEMMA KnowStep ==
    ASSUME Types, NEW t \in L1s, NEW m, Keeps(t, m),
           \A u \in L1s : \A i \in 1..Depth(u) : \A f \in Frames, b \in BOOLEAN :
               /\ f = stack[u][i] /\ (b <=> u # t /\ i = Depth(u))
               /\ u # t \/ (i <= m /\ i # Len(stack'[t]))
               => Knows(f, b)',
           \A i \in 1..Len(stack'[t]) : \A f \in Frames, b \in BOOLEAN :
               /\ f = stack'[t][i] /\ (b <=> i = Len(stack'[t]))
               /\ i > m \/ i = Len(stack'[t])
               => Knows(f, b)'
    PROVE  FramesKnow'
  <1>1. /\ stack' \in [L1s -> Seq(Frames)] /\ m \in Nat /\ m <= Depth(t) /\ Depth(t) \in Nat
        /\ Len(stack'[t]) \in Nat
        /\ \A i \in 1..m : stack'[t][i] = stack[t][i]
        /\ \A u \in L1s : u # t => stack'[u] = stack[u]
    BY LenProperties DEF Keeps, OnlyOf, Types, Depth
  <1>2. \A u \in L1s : \A i \in 1..Len(stack'[u]) : stack'[u][i] \in Frames
    BY <1>1, ElementOfSeq
  <1>3. \A u \in L1s : \A i \in 1..Len(stack'[u]) : \A f \in Frames, b \in BOOLEAN :
            f = stack'[u][i] /\ (b <=> i = Len(stack'[u])) => Knows(f, b)'
    <2> SUFFICES ASSUME NEW u \in L1s, NEW i \in 1..Len(stack'[u]), NEW f \in Frames, NEW b \in BOOLEAN,
                        f = stack'[u][i], b <=> i = Len(stack'[u])
                 PROVE  Knows(f, b)'
      OBVIOUS
    <2>1. CASE u # t
      <3>1. i \in 1..Depth(u) /\ f = stack[u][i] /\ (b <=> u # t /\ i = Depth(u))
        BY <2>1, <1>1 DEF Depth
      <3> QED
        BY <3>1, <2>1
    <2>2. CASE u = t /\ (i > m \/ i = Len(stack'[t]))
      BY <2>2
    <2>3. CASE u = t /\ ~(i > m \/ i = Len(stack'[t]))
      <3>1. i \in 1..Depth(u) /\ f = stack[u][i] /\ ~b /\ i <= m
        BY <2>3, <1>1
      <3> QED
        BY <3>1, <2>3
    <2> QED
      BY <2>1, <2>2, <2>3
  <1> QED
    BY <1>3 DEF FramesKnow

-----------------------------------------------------------------------------
(* Who else may be at a cache *)

(* A call and the one that made it. *)
LEMMA Caller ==
    ASSUME Types, StackShape, NEW u \in L1s, NEW i \in 1..Depth(u)
    PROVE  LET e == stack[u][i]
               b == stack[u][i - 1]
           IN  /\ e \in Frames /\ FrameShape(e)
               /\ e.op = "access" /\ e.child # Core =>
                     /\ i - 1 \in 1..Depth(u) /\ b \in Frames /\ FrameShape(b) /\ AsksParent(b, e)
                     /\ Entered(b) /\ b.c = e.child /\ e.c = Parent[e.child][e.l] /\ e.c \in Inner
               /\ e.op = "inval" =>
                     /\ i - 1 \in 1..Depth(u) /\ b \in Frames /\ FrameShape(b) /\ TellsChild(b, e)
                     /\ Holds(b, FALSE) /\ b.c = Parent[e.c][e.l] /\ b.c \in Inner
               /\ e.op \in {"access", "inval"}
  <1> DEFINE e == stack[u][i]
             b == stack[u][i - 1]
  <1>1. /\ Depth(u) \in Nat /\ \A j \in 1..Depth(u) : stack[u][j] \in Frames
        /\ Busy(u)
    BY LenProperties, ElementOfSeq, EmptySeq DEF Types, Depth, Busy
  <1>2. /\ stack[u][1].op = "access" /\ stack[u][1].c = u
        /\ \A j \in 1..Depth(u) : FrameShape(stack[u][j])
        /\ \A j \in 2..Depth(u) : Calls(stack[u][j - 1], stack[u][j])
    BY <1>1 DEF StackShape, Depth
  <1>3. e \in Frames /\ FrameShape(e) /\ e.op \in {"access", "inval"}
    BY <1>1, <1>2 DEF Frames
  <1>4. e.op = "inval" \/ e.child # Core => i > 1
    <2> SUFFICES ASSUME i = 1, e.op = "inval" \/ e.child # Core PROVE FALSE
      BY <1>1
    <2>1. e.op = "access" /\ e.c = u /\ e.child = Core
      BY <1>2, <1>3 DEF FrameShape, AccessShape
    <2> QED
      BY <2>1
  <1>5. i > 1 => i - 1 \in 1..Depth(u) /\ b \in Frames /\ FrameShape(b) /\ Calls(b, e)
    BY <1>1, <1>2
  <1> HIDE DEF e, b
  <1>6. e.op = "access" /\ e.child # Core =>
            /\ i - 1 \in 1..Depth(u) /\ b \in Frames /\ FrameShape(b) /\ AsksParent(b, e)
            /\ Entered(b) /\ b.c = e.child /\ e.c = Parent[e.child][e.l] /\ e.c \in Inner
    BY <1>4, <1>5 DEF Calls, AsksParent, TellsChild, Entered
  <1>7. e.op = "inval" =>
            /\ i - 1 \in 1..Depth(u) /\ b \in Frames /\ FrameShape(b) /\ TellsChild(b, e)
            /\ Holds(b, FALSE) /\ b.c = Parent[e.c][e.l] /\ b.c \in Inner
    BY <1>4, <1>5 DEF Calls, AsksParent, TellsChild, Holds
  <1> QED
    BY <1>3, <1>6, <1>7 DEF e, b

(* While the innermost call of t holds its cache: where the others are. *)
LEMMA Alone ==
    ASSUME Types, StackShape, Locks, Exclusion, NEW t \in L1s, Busy(t), Holds(Top(t), TRUE),
           NEW u \in L1s, NEW i \in 1..Depth(u), u # t \/ i # Depth(t)
    PROVE  LET e == stack[u][i]
               f == Top(t)
           IN  /\ e.c = f.c => ~Holds(e, u # t /\ i = Depth(u)) /\ (f.op = "access" => e.pc = "start")
               /\ f.op = "access" /\ e.op = "access" => e.child # f.c
               /\ e.op = "inval" => Parent[e.c][e.l] # f.c
               /\ f.op = "access" /\ f.child # Core =>
                     /\ e.op = "access" => e.child # f.child
                     /\ e.c = f.child /\ Entered(e) => u = t /\ i = Depth(t) - 1
  <1> DEFINE e == stack[u][i]
             f == Top(t)
             n == Depth(t)
  <1>1. /\ n \in Nat \ {0} /\ n \in 1..n /\ f = stack[t][n] /\ f \in Frames /\ FrameShape(f)
        /\ Depth(u) \in Nat /\ Depth(t) = n
    BY TopIs, TopShape
  <1>2. \A v \in L1s : \A j \in 1..Depth(v) : \A k \in 1..Depth(t) :
            stack[v][j].c = stack[t][k].c
            /\ (\/ Holds(stack[v][j], j = Depth(v)) /\ Holds(stack[t][k], k = Depth(t))
                \/ Entered(stack[v][j]) /\ Entered(stack[t][k]))
            => v = t /\ j = k
    BY TopLocks
  <1>3. \A v \in L1s : \A j \in 1..Depth(v) : stack[v][j].c = f.c =>
            /\ Holds(stack[v][j], FALSE) \/ Holds(stack[v][j], j = Depth(v)) => v = t /\ j = n
            /\ Entered(stack[v][j]) /\ Entered(f) => v = t /\ j = n
    BY <1>1, <1>2 DEF Holds
  <1>4. f.op = "access" => Entered(f)
    BY DEF Entered, Holds
  <1> DEFINE b == stack[u][i - 1]
  <1>5. /\ e \in Frames /\ FrameShape(e) /\ e.op \in {"access", "inval"}
        /\ e.op = "access" /\ e.child # Core =>
              i - 1 \in 1..Depth(u) /\ Entered(b) /\ b.c = e.child
        /\ e.op = "inval" =>
              i - 1 \in 1..Depth(u) /\ Holds(b, FALSE) /\ b.c = Parent[e.c][e.l]
    BY Caller
  <1>6. f.op = "access" /\ f.child # Core =>
            n - 1 \in 1..Depth(t) /\ Entered(stack[t][n - 1]) /\ stack[t][n - 1].c = f.child
    <2> HIDE DEF n, f
    <2>1. n \in 1..Depth(t) /\ f = stack[t][n]
      BY <1>1
    <2> QED
      BY <2>1, Caller
  <1>7. u # t \/ i # n
    OBVIOUS
  <1> HIDE DEF e, f, n, b
  <1>8. e.c = f.c => ~Holds(e, u # t /\ i = Depth(u))
    <2>1. (u # t /\ i = Depth(u)) => (i = Depth(u))
      OBVIOUS
    <2>2. Holds(e, u # t /\ i = Depth(u)) => Holds(e, FALSE) \/ Holds(e, i = Depth(u))
      BY <2>1 DEF Holds
    <2> QED
      BY <1>3, <1>7, <2>2 DEF e
  <1>9. e.c = f.c /\ f.op = "access" => e.pc = "start"
    <2>1. e.op = "access" => e.pc = "start" \/ Entered(e)
      BY DEF Entered
    <2>2. e.op = "inval" => e.pc = "start" \/ Holds(e, FALSE)
      BY <1>5 DEF FrameShape, Holds
    <2> QED
      BY <1>3, <1>4, <1>5, <1>7, <2>1, <2>2 DEF e
  <1>10. f.op = "access" /\ e.op = "access" => e.child # f.c
    <2> SUFFICES ASSUME f.op = "access", e.op = "access", e.child = f.c PROVE FALSE
      OBVIOUS
    <2>1. f.c # Core
      BY <1>1, TreeAssumption DEF Frames
    <2>2. u = t /\ i - 1 = n
      BY <1>3, <1>4, <1>5, <2>1 DEF b
    <2> QED
      BY <1>1, <2>2
  <1>11. e.op = "inval" => Parent[e.c][e.l] # f.c
    <2> SUFFICES ASSUME e.op = "inval", Parent[e.c][e.l] = f.c PROVE FALSE
      OBVIOUS
    <2>1. u = t /\ i - 1 = n
      BY <1>3, <1>5 DEF b
    <2> QED
      BY <1>1, <2>1
  <1>12. ASSUME f.op = "access", f.child # Core
         PROVE  /\ e.op = "access" => e.child # f.child
                /\ e.c = f.child /\ Entered(e) => u = t /\ i = n - 1
    <2>1. \A v \in L1s : \A j \in 1..Depth(v) :
              stack[v][j].c = f.child /\ Entered(stack[v][j]) => v = t /\ j = n - 1
      BY <1>2, <1>6, <1>12
    <2>2. e.op = "access" => e.child # f.child
      <3> SUFFICES ASSUME e.op = "access", e.child = f.child PROVE FALSE
        OBVIOUS
      <3>1. u = t /\ i - 1 = n - 1
        BY <2>1, <1>5, <1>12 DEF b
      <3> QED
        BY <3>1, <1>1, <1>7
    <2> QED
      BY <2>1, <2>2 DEF e
  <1> QED
    BY <1>8, <1>9, <1>10, <1>11, <1>12 DEF e, f, n

(* While the innermost call of t is an invalidation, the call that sent it *)
(* holds the parent.                                                       *)
LEMMA AloneAbove ==
    ASSUME Types, StackShape, Locks, Exclusion, NEW t \in L1s, Busy(t), Top(t).op = "inval",
           NEW u \in L1s, NEW i \in 1..Depth(u), u # t \/ i \notin {Depth(t), Depth(t) - 1}
    PROVE  LET e == stack[u][i]
               p == Parent[Top(t).c][Top(t).l]
           IN  /\ e.c = p => ~Holds(e, u # t /\ i = Depth(u))
               /\ e.op = "inval" => Parent[e.c][e.l] # p
  <1> DEFINE e == stack[u][i]
             f == Top(t)
             n == Depth(t)
             p == Parent[f.c][f.l]
             b == stack[u][i - 1]
  <1>1. /\ n \in Nat \ {0} /\ n \in 1..n /\ f = stack[t][n] /\ Depth(u) \in Nat /\ Depth(t) = n
    BY TopIs, TopShape
  <1>2. \A v \in L1s : \A j \in 1..Depth(v) : \A k \in 1..Depth(t) :
            stack[v][j].c = stack[t][k].c
            /\ (\/ Holds(stack[v][j], j = Depth(v)) /\ Holds(stack[t][k], k = Depth(t))
                \/ Entered(stack[v][j]) /\ Entered(stack[t][k]))
            => v = t /\ j = k
    BY TopLocks
  <1>3. n - 1 \in 1..Depth(t) /\ Holds(stack[t][n - 1], FALSE) /\ stack[t][n - 1].c = p
    BY <1>1, Caller, ZenonT(60)
  <1>4. /\ e.op = "inval" =>
              i - 1 \in 1..Depth(u) /\ Holds(b, FALSE) /\ b.c = Parent[e.c][e.l]
    BY Caller
  <1>5. u # t \/ i \notin {n, n - 1}
    OBVIOUS
  <1>6. \A v \in L1s : \A j \in 1..Depth(v) : stack[v][j].c = p =>
            (Holds(stack[v][j], FALSE) \/ Holds(stack[v][j], j = Depth(v)) => v = t /\ j = n - 1)
    <2> HIDE DEF n, p
    <2> QED
      BY <1>2, <1>3 DEF Holds
  <1> HIDE DEF e, f, n, p, b
  <1>7. e.c = p => ~Holds(e, u # t /\ i = Depth(u))
    <2>2. Holds(e, u # t /\ i = Depth(u)) => Holds(e, FALSE) \/ Holds(e, i = Depth(u))
      BY DEF Holds
    <2> QED
      BY <1>5, <1>6, <2>2 DEF e
  <1>8. e.op = "inval" => Parent[e.c][e.l] # p
    <2> SUFFICES ASSUME e.op = "inval", Parent[e.c][e.l] = p PROVE FALSE
      OBVIOUS
    <2>1. u = t /\ i - 1 = n - 1
      BY <1>4, <1>6 DEF b
    <2> QED
      BY <1>1, <1>5, <2>1
  <1> QED
    BY <1>7, <1>8 DEF e, f, p

-----------------------------------------------------------------------------
(* What the other calls know is kept *)

(* What the assumptions on the tree say, in the form the proofs use.       *)
LEMMA TreeFacts ==
    /\ \A c \in Caches, l \in Lines : Parent[c][l] \in Inner \cup {Mem} /\ Parent[c][l] # c
    /\ Mem \notin Caches /\ Core \notin Caches /\ NoLine \notin Lines
    /\ Caches = L1s \cup Inner /\ L1s \cap Inner = {} /\ IsFiniteSet(Caches)
    /\ \A c \in Caches : Ways[c] \in Nat \ {0}
    /\ Inner \subseteq Caches /\ L1s \subseteq Caches /\ Caches \subseteq Nat
  <1>1. \A c \in Caches, l \in Lines : Parent[c][l] \in Inner \cup {Mem}
    BY TreeAssumption
  <1>2. \A c \in Caches, l \in Lines : Parent[c][l] # c
    <2> SUFFICES ASSUME NEW c \in Caches, NEW l \in Lines, Parent[c][l] = c PROVE FALSE
      OBVIOUS
    <2>1. {c} \in SUBSET Caches /\ {c} # {}
      OBVIOUS
    <2>2. \E d \in {c} : Parent[d][l] \notin {c}
      BY <2>1, OneTreeAssumption
    <2> QED
      BY <2>2
  <1>3. IsFiniteSet(Caches)
    BY TreeAssumption, FS_Union DEF Caches
  <1> QED
    BY <1>1, <1>2, <1>3, TreeAssumption DEF Caches

(* The types of the copies, tags and directory entries, one by one.        *)
LEMMA StateType ==
    ASSUME Types
    PROVE  /\ \A c \in Caches, l \in Lines : state[c][l] \in MESI
           /\ \A c \in Caches : tags[c] \in SUBSET Lines /\ IsFiniteSet(tags[c])
           /\ \A c \in Inner, l \in Lines :
                 /\ dir[c][l] \in [sharers : SUBSET Caches, exclusive : BOOLEAN]
                 /\ dir[c][l].sharers \in SUBSET Caches /\ dir[c][l].exclusive \in BOOLEAN
  BY DEF Types

(* Nothing but the stacks and locks changes. *)
LEMMA SameCopies ==
    ASSUME state' = state, tags' = tags, dir' = dir
    PROVE  /\ \A f \in Frames, b \in BOOLEAN : Knows(f, b) => Knows(f, b)'
           /\ \A c, l : Kids(c, l)' = Kids(c, l)
  <1>1. \A c, l : Kids(c, l)' = Kids(c, l)
    BY DEF Kids
  <1>2. \A f \in Frames, b \in BOOLEAN : KnowsOwn(f, b) => KnowsOwn(f, b)'
    BY <1>1 DEF KnowsOwn
  <1>3. \A f \in Frames : KnowsEntry(f) => KnowsEntry(f)'
    BY DEF KnowsEntry
  <1> QED
    BY <1>1, <1>2, <1>3 DEF Knows, KnowsChild

(* A call that does not wait knows nothing of a cache it has not entered. *)
LEMMA StartKnows ==
    ASSUME NEW e, NEW b, e.pc = "start"
    PROVE  KnowsOwn(e, b) /\ KnowsOwn(e, b)'
  BY DEF KnowsOwn

(* An access that holds its cache changes that cache, and the copy that its *)
(* child has of its line, unseen by all other calls.                       *)
LEMMA OthersKnow ==
    ASSUME Types, StackShape, Locks, Exclusion, FramesKnow,
           NEW t \in L1s, Busy(t), Holds(Top(t), TRUE), Top(t).op = "access",
           \A c \in Caches, l \in Lines :
               c # Top(t).c /\ (c # Top(t).child \/ l # Top(t).l) => state'[c][l] = state[c][l],
           \A l \in Lines : Parent[Top(t).c][l] # Mem =>
               (state'[Top(t).c][l] = "I" <=> state[Top(t).c][l] = "I"),
           \A c \in Caches : c # Top(t).c => tags'[c] = tags[c],
           \A c \in Inner, l \in Lines : c # Top(t).c => dir'[c][l] = dir[c][l],
           NEW u \in L1s, NEW i \in 1..Depth(u), u # t \/ i # Depth(t),
           NEW e \in Frames, e = stack[u][i], NEW b \in BOOLEAN, b <=> u # t /\ i = Depth(u)
    PROVE  Knows(e, b)'
  <1> DEFINE f == Top(t)
             n == Depth(t)
  <1>1. /\ n \in Nat \ {0} /\ n \in 1..n /\ f = stack[t][n] /\ f \in Frames /\ FrameShape(f)
    BY TopIs, TopShape
  <1>2. /\ e.c = f.c => e.pc = "start"
        /\ e.op = "access" => e.child # f.c
        /\ e.op = "inval" => Parent[e.c][e.l] # f.c
        /\ f.child # Core =>
              /\ e.op = "access" => e.child # f.child
              /\ e.c = f.child /\ Entered(e) => u = t /\ i = n - 1
    <2> DEFINE a == stack[u][i]
    <2>1. /\ a.c = f.c => ~Holds(a, u # t /\ i = Depth(u)) /\ (f.op = "access" => a.pc = "start")
          /\ f.op = "access" /\ a.op = "access" => a.child # f.c
          /\ a.op = "inval" => Parent[a.c][a.l] # f.c
          /\ f.op = "access" /\ f.child # Core =>
                /\ a.op = "access" => a.child # f.child
                /\ a.c = f.child /\ Entered(a) => u = t /\ i = n - 1
      BY Alone, Zenon
    <2>2. a = e /\ f.op = "access"
      OBVIOUS
    <2> HIDE DEF a, f, n
    <2> QED
      BY <2>1, <2>2
  <1>3. /\ FrameShape(e) /\ e.op \in {"access", "inval"}
        /\ e.op = "inval" => Parent[e.c][e.l] \in Inner
    BY Caller
  <1>4. f.child # Core =>
          /\ f.c = Parent[f.child][f.l] /\ f.c \in Inner
          /\ u = t /\ i = n - 1 => AsksParent(e, f)
    <2>1. n \in 1..Depth(t) /\ f = stack[t][n] /\ f.op = "access" /\ e = stack[u][i]
      BY <1>1
    <2> HIDE DEF n, f
    <2>2. f.child # Core =>
              /\ AsksParent(stack[t][n - 1], f) /\ f.c = Parent[f.child][f.l] /\ f.c \in Inner
      BY <2>1, Caller
    <2> QED
      BY <2>1, <2>2
  <1>5. Knows(e, b)
    <2>1. \A last \in BOOLEAN : (last <=> i = Depth(u)) => Knows(e, last)
      BY DEF FramesKnow, Depth
    <2>2. b <=> i = Depth(u)
      OBVIOUS
    <2> QED
      BY <2>1, <2>2
  <1>6. e.c \in Caches /\ e.l \in Lines /\ e.child \in Caches \cup {Core} /\ e.victim \in Lines \cup {NoLine}
        /\ f.c \in Caches /\ f.l \in Lines /\ f.child \in Caches \cup {Core}
    BY <1>1 DEF Frames
  <1>7. f.child # Core => f.child \in Caches /\ f.child # f.c
    BY <1>4, <1>6, TreeFacts
  <1> HIDE DEF f, n
  <1>8. \A c \in Caches, l \in Lines :
            c # f.c /\ (c # f.child \/ l # f.l) => state'[c][l] = state[c][l]
    BY DEF f
  <1>9. \A c \in Caches, l \in Lines : c # f.c /\ c # Mem => Kids(c, l)' = Kids(c, l)
    <2> SUFFICES ASSUME NEW c \in Caches, NEW l \in Lines, c # f.c, c # Mem,
                        NEW k \in Caches, Parent[k][l] = c
                 PROVE  state'[k][l] = "I" <=> state[k][l] = "I"
      BY DEF Kids
    <2>1. CASE k = f.c
      BY <2>1 DEF f
    <2>2. CASE k = f.child /\ l = f.l
      BY <2>2, <1>4, <1>6, TreeFacts
    <2>3. CASE k # f.c /\ ~(k = f.child /\ l = f.l)
      BY <2>3, <1>8
    <2> QED
      BY <2>1, <2>2, <2>3
  <1>10. KnowsOwn(e, b)'
    <2>1. CASE e.pc = "start"
      BY <2>1, StartKnows
    <2>2. CASE e.pc # "start"
      <3>1. e.c # f.c /\ e.c # Mem
        BY <1>2, <1>6, <2>2, TreeFacts
      <3>2. tags'[e.c] = tags[e.c] /\ \A l \in Lines : Kids(e.c, l)' = Kids(e.c, l)
        BY <1>6, <1>9, <3>1 DEF f
      <3>3. e.op = "access" /\ e.pc = "grant" => dir'[e.c][e.l] = dir[e.c][e.l]
        <4>1. e.op = "access" /\ e.pc = "grant" => e.c \in Inner
          BY <1>3, <1>6 DEF FrameShape, AccessShape, Caches
        <4> QED
          BY <4>1, <1>6, <3>1 DEF f
      <3>4. e.pc = "grant" => e.op = "access"
        BY <1>3 DEF FrameShape
      <3>5. KnowsOwn(e, b)
        BY <1>5, SMTT(40) DEF Knows
      <3>6. CASE e.c # f.child
        <4>1. \A l \in Lines : state'[e.c][l] = state[e.c][l]
          BY <1>6, <1>8, <3>1, <3>6
        <4>2. InvLine(e) \in Lines \cup {NoLine}
          BY <1>6 DEF InvLine
        <4> QED
          BY <1>6, <3>2, <3>3, <3>4, <3>5, <4>1, <4>2 DEF KnowsOwn
      <3>7. CASE e.c = f.child
        <4>1. f.child # Core
          BY <1>6, <3>7, TreeFacts
        <4>2. \A l \in Lines : l # f.l => state'[e.c][l] = state[e.c][l]
          BY <1>6, <1>8, <3>1, SMTT(40)
        <4>3. CASE e.op = "access"
          <5>1. u = t /\ i = n - 1 /\ AsksParent(e, f)
            BY <1>2, <1>4, <2>2, <3>7, <4>1, <4>3 DEF Entered
          <5>2. e.pc \in {"insert", "top"} /\ ~b
            BY <1>1, <5>1 DEF AsksParent
          <5> QED
            BY <1>6, <3>2, <3>5, <5>2 DEF KnowsOwn
        <4>4. CASE e.op = "inval"
          <5>1. e.pc = "inval" /\ e.l # f.l
            BY <1>2, <1>3, <1>4, <2>2, <3>7, <4>1, <4>4 DEF FrameShape
          <5>2. InvLine(e) = e.l
            BY <5>1, SMTT(40) DEF InvLine
          <5> QED
            BY <1>6, <3>5, <4>2, <5>1, <5>2 DEF KnowsOwn
        <4> QED
          BY <1>3, <4>3, <4>4
      <3> QED
        BY <3>6, <3>7
    <2> QED
      BY <2>1, <2>2
  <1>11. e.op = "access" /\ e.child # Core => KnowsChild(e, state[e.child][e.l])'
    <2> SUFFICES ASSUME e.op = "access", e.child # Core PROVE KnowsChild(e, state[e.child][e.l])'
      OBVIOUS
    <2>1. e.child # f.c /\ e.child # f.child /\ e.child \in Caches
      BY <1>2, <1>6
    <2>2. state'[e.child][e.l] = state[e.child][e.l]
      BY <1>6, <1>8, <2>1
    <2>3. KnowsChild(e, state[e.child][e.l])
      BY <1>5, SMTT(40) DEF Knows
    <2> QED
      BY <2>2, <2>3 DEF KnowsChild
  <1>12. e.op = "inval" => KnowsEntry(e)'
    <2> SUFFICES ASSUME e.op = "inval" PROVE KnowsEntry(e)'
      OBVIOUS
    <2>1. dir'[Parent[e.c][e.l]][e.l] = dir[Parent[e.c][e.l]][e.l]
      BY <1>2, <1>3, <1>6 DEF f
    <2>2. KnowsEntry(e)
      BY <1>5 DEF Knows
    <2> QED
      BY <2>1, <2>2, Zenon DEF KnowsEntry
  <1> QED
    BY <1>10, <1>11, <1>12 DEF Knows

-----------------------------------------------------------------------------
(* Steps of the innermost call, put together *)

(* Every call but the innermost one of thread t knows afterwards what it   *)
(* knew before.                                                            *)
OthersKnown(t) ==
    \A u \in L1s : \A i \in 1..Depth(u) : \A e \in Frames, b \in BOOLEAN :
        /\ e = stack[u][i] /\ (b <=> u # t /\ i = Depth(u))
        /\ u # t \/ i # Depth(t)
        => Knows(e, b)'

(* A step that touches no copy, tag or directory.                          *)
LEMMA OthersUntouched ==
    ASSUME Types, FramesKnow, NEW t \in L1s, state' = state, tags' = tags, dir' = dir
    PROVE  OthersKnown(t)
  <1> SUFFICES ASSUME NEW u \in L1s, NEW i \in 1..Depth(u), NEW e \in Frames, NEW b \in BOOLEAN,
                      e = stack[u][i], b <=> u # t /\ i = Depth(u), u # t \/ i # Depth(t)
               PROVE  Knows(e, b)'
    BY DEF OthersKnown
  <1>1. b <=> i = Depth(u)
    OBVIOUS
  <1>2. Knows(e, b)
    BY <1>1 DEF FramesKnow, Depth
  <1> QED
    BY <1>2, SameCopies

(* Access f changes its cache, and there no more than its own copies, and   *)
(* its child's copy of the line.                                           *)
ChangesOnlyAt(f) ==
    /\ \A c \in Caches, l \in Lines :
          c # f.c /\ (c # f.child \/ l # f.l) => state'[c][l] = state[c][l]
    /\ \A l \in Lines : Parent[f.c][l] # Mem => (state'[f.c][l] = "I" <=> state[f.c][l] = "I")
    /\ \A c \in Caches : c # f.c => tags'[c] = tags[c]
    /\ \A c \in Inner, l \in Lines : c # f.c => dir'[c][l] = dir[c][l]

(* A step of an access that holds its cache.                               *)
LEMMA OthersOfAccess ==
    ASSUME Types, StackShape, Locks, Exclusion, FramesKnow,
           NEW t \in L1s, Busy(t), NEW f, f = Top(t), Holds(f, TRUE), f.op = "access",
           ChangesOnlyAt(f)
    PROVE  OthersKnown(t)
  <1> SUFFICES ASSUME NEW u \in L1s, NEW i \in 1..Depth(u), NEW e \in Frames, NEW b \in BOOLEAN,
                      e = stack[u][i], b <=> u # t /\ i = Depth(u), u # t \/ i # Depth(t)
               PROVE  Knows(e, b)'
    BY DEF OthersKnown
  <1> QED
    BY OthersKnow DEF ChangesOnlyAt

(* The innermost call goes on as h. *)
LEMMA StepReplaced ==
    ASSUME Types, StackShape, Locks, Exclusion, FramesKnow, NEW t \in L1s, Busy(t),
           NEW f \in Frames, f = Top(t), NEW h \in Frames,
           stack' = [stack EXCEPT ![t] = Append(Front(@), h)],
           FrameShape(h), h.c = f.c, h.op = f.op, \A x \in Frames : Calls(x, f) => Calls(x, h),
           Holds(h, TRUE) => h.c \in bcc' /\ (Holds(f, TRUE) \/ h.c \notin bcc),
           Entered(h) /\ h.c \in Inner => h.c \in tcc' /\ (Entered(f) \/ h.c \notin tcc),
           h.pc = "fill" => t \in filterLock',
           \A c \in bcc : c \in bcc' \/ (c = h.c /\ Holds(f, TRUE)),
           \A c \in tcc : c \in tcc' \/ (c = h.c /\ Entered(f)),
           \A u \in filterLock : u \in filterLock' \/ u = t,
           OthersKnown(t), Knows(h, TRUE)'
    PROVE  /\ StackShape' /\ Locks' /\ Exclusion' /\ FramesKnow'
           /\ Replaced(t, h) /\ Keeps(t, Depth(t) - 1)
  <1>1. Replaced(t, h) /\ Keeps(t, Depth(t) - 1)
    BY TopReplaced, StepKeeps
  <1>2. /\ Depth(t) \in Nat \ {0} /\ Top(t) = stack[t][Depth(t)]
        /\ Depth(t) = 1 => Top(t).op = "access" /\ Top(t).c = t
        /\ Depth(t) > 1 =>
              /\ stack[t][Depth(t) - 1] \in Frames
              /\ Calls(stack[t][Depth(t) - 1], Top(t))
    BY TopShape
  <1>3. /\ Len(stack'[t]) = Depth(t) /\ stack'[t][Depth(t)] = h
        /\ \A i \in 1..(Depth(t) - 1) : stack'[t][i] = stack[t][i]
    BY <1>1 DEF Replaced
  <1>4. StackShape'
    <2>1. \A i \in ((Depth(t) - 1) + 1)..Len(stack'[t]) : i = Depth(t)
      BY <1>2, <1>3
    <2>2. Depth(t) > 1 => Calls(stack'[t][Depth(t) - 1], stack'[t][Depth(t)])
      BY <1>2, <1>3
    <2>3. \A i \in ((Depth(t) - 1) + 1)..Len(stack'[t]) :
               /\ FrameShape(stack'[t][i])
               /\ i = 1 => stack'[t][i].op = "access" /\ stack'[t][i].c = t
               /\ i > 1 => Calls(stack'[t][i - 1], stack'[t][i])
      BY <2>1, <2>2, <1>2, <1>3
    <2> QED
      BY <2>3, <1>1, ShapeStep
  <1>5. Locks' /\ Exclusion'
    BY <1>1, LocksReplaced
  <1>6. FramesKnow'
    <2> DEFINE m == Depth(t) - 1
    <2>1. \A u \in L1s : \A i \in 1..Depth(u) : \A e \in Frames, b \in BOOLEAN :
               /\ e = stack[u][i] /\ (b <=> u # t /\ i = Depth(u))
               /\ u # t \/ (i <= m /\ i # Len(stack'[t]))
               => Knows(e, b)'
      <3>1. \A i : i <= m /\ i # Len(stack'[t]) => i # Depth(t)
        BY <1>3
      <3> QED
        BY <3>1 DEF OthersKnown
    <2>2. \A i \in 1..Len(stack'[t]) : \A e \in Frames, b \in BOOLEAN :
               /\ e = stack'[t][i] /\ (b <=> i = Len(stack'[t]))
               /\ i > m \/ i = Len(stack'[t])
               => Knows(e, b)'
      <3> SUFFICES ASSUME NEW i \in 1..Len(stack'[t]), NEW e \in Frames, NEW b \in BOOLEAN,
                          e = stack'[t][i], b <=> i = Len(stack'[t]), i > m \/ i = Len(stack'[t])
                   PROVE  Knows(e, b)'
        OBVIOUS
      <3>1. i = Depth(t) /\ e = h /\ b = TRUE
        BY <1>2, <1>3
      <3> QED
        BY <3>1
    <2> QED
      BY <2>1, <2>2, <1>1, KnowStep
  <1> QED
    BY <1>1, <1>4, <1>5, <1>6

(* The innermost call, at a cache it holds, goes on as h and keeps it. *)
LEMMA StepHolding ==
    ASSUME Types, StackShape, Locks, Exclusion, FramesKnow, NEW t \in L1s, Busy(t),
           NEW f \in Frames, f = Top(t), f.op = "access", Holds(f, TRUE), NEW h \in Frames,
           stack' = [stack EXCEPT ![t] = Append(Front(@), h)],
           FrameShape(h), h.c = f.c, h.op = f.op, h.l = f.l, h.type = f.type, h.child = f.child,
           h.pc # "fill", bcc' = bcc, tcc' = tcc, filterLock' = filterLock,
           OthersKnown(t), Knows(h, TRUE)'
    PROVE  /\ StackShape' /\ Locks' /\ Exclusion' /\ FramesKnow'
           /\ Replaced(t, h) /\ Keeps(t, Depth(t) - 1)
  <1>1. Entered(f) /\ f.c \in bcc /\ (f.c \in Inner => f.c \in tcc)
    <2>1. Entered(f)
      BY DEF Entered, Holds
    <2>2. Depth(t) \in 1..Depth(t) /\ f = stack[t][Depth(t)]
      BY TopShape
    <2>3. f.c \in bcc /\ (f.c \in Inner => f.c \in tcc)
      <3>1. LET e == stack[t][Depth(t)]
            IN  /\ Holds(e, Depth(t) = Depth(t)) => e.c \in bcc
                /\ Entered(e) /\ e.c \in Inner => e.c \in tcc
        BY <2>2, TopLocks
      <3> QED
        BY <2>1, <2>2, <3>1 DEF Holds
    <2> QED
      BY <2>1, <2>3
  <1>2. \A x \in Frames : Calls(x, f) => Calls(x, h)
    BY DEF Calls, AsksParent, TellsChild
  <1> QED
    BY <1>1, <1>2, StepReplaced

(* The innermost call waits as g for the one it makes, h. *)
LEMMA StepPushed ==
    ASSUME Types, StackShape, Locks, Exclusion, FramesKnow, NEW t \in L1s, Busy(t),
           NEW f \in Frames, f = Top(t), NEW g \in Frames, NEW h \in Frames, Pushed(t, g, h),
           FrameShape(g), FrameShape(h), Calls(g, h), h.pc = "start",
           g.c = f.c, g.op = f.op, g.l = f.l, g.type = f.type, g.child = f.child,
           g.pc # "fill", Holds(f, TRUE), Entered(g) => Entered(f),
           \A c \in bcc : c \in bcc' \/ (c = g.c /\ ~Holds(g, FALSE)),
           tcc' = tcc, filterLock' = filterLock,
           OthersKnown(t), Knows(g, FALSE)', Knows(h, TRUE)'
    PROVE  StackShape' /\ Locks' /\ Exclusion' /\ FramesKnow' /\ Keeps(t, Depth(t) - 1)
  <1>1. Keeps(t, Depth(t) - 1)
    BY StepKeeps
  <1>2. /\ Depth(t) \in Nat \ {0} /\ Top(t) = stack[t][Depth(t)]
        /\ Depth(t) = 1 => Top(t).op = "access" /\ Top(t).c = t
        /\ Depth(t) > 1 =>
              /\ stack[t][Depth(t) - 1] \in Frames
              /\ Calls(stack[t][Depth(t) - 1], Top(t))
    BY TopShape
  <1>3. /\ Len(stack'[t]) = Depth(t) + 1 /\ stack'[t][Depth(t)] = g /\ stack'[t][Depth(t) + 1] = h
        /\ \A i \in 1..(Depth(t) - 1) : stack'[t][i] = stack[t][i]
    BY DEF Pushed
  <1>4. StackShape'
    <2>1. \A x \in Frames : Calls(x, f) => Calls(x, g)
      BY DEF Calls, AsksParent, TellsChild
    <2>2. \A i \in ((Depth(t) - 1) + 1)..Len(stack'[t]) : i = Depth(t) \/ i = Depth(t) + 1
      BY <1>2, <1>3
    <2>3. Depth(t) > 1 => Calls(stack'[t][Depth(t) - 1], stack'[t][Depth(t)])
      BY <2>1, <1>2, <1>3
    <2>4. Calls(stack'[t][(Depth(t) + 1) - 1], stack'[t][Depth(t) + 1])
      BY <1>2, <1>3
    <2>5. \A i \in ((Depth(t) - 1) + 1)..Len(stack'[t]) :
               /\ FrameShape(stack'[t][i])
               /\ i = 1 => stack'[t][i].op = "access" /\ stack'[t][i].c = t
               /\ i > 1 => Calls(stack'[t][i - 1], stack'[t][i])
      <3> SUFFICES ASSUME NEW i \in ((Depth(t) - 1) + 1)..Len(stack'[t])
                   PROVE  /\ FrameShape(stack'[t][i])
                          /\ i = 1 => stack'[t][i].op = "access" /\ stack'[t][i].c = t
                          /\ i > 1 => Calls(stack'[t][i - 1], stack'[t][i])
        OBVIOUS
      <3>1. CASE i = Depth(t)
        BY <3>1, <2>3, <1>2, <1>3
      <3>2. CASE i = Depth(t) + 1
        BY <3>2, <2>4, <1>2, <1>3
      <3> QED
        BY <3>1, <3>2, <2>2
    <2> QED
      BY <2>5, <1>1, ShapeStep
  <1>5. Locks' /\ Exclusion'
    <2>1. Holds(g, FALSE) => Holds(Top(t), TRUE)
      OBVIOUS
    <2> QED
      BY <2>1, LocksPushed
  <1>6. FramesKnow'
    <2> DEFINE m == Depth(t) - 1
    <2>1. \A u \in L1s : \A i \in 1..Depth(u) : \A e \in Frames, b \in BOOLEAN :
               /\ e = stack[u][i] /\ (b <=> u # t /\ i = Depth(u))
               /\ u # t \/ (i <= m /\ i # Len(stack'[t]))
               => Knows(e, b)'
      <3>1. \A i : i <= m => i # Depth(t)
        BY <1>2
      <3> QED
        BY <3>1 DEF OthersKnown
    <2>2. \A i \in 1..Len(stack'[t]) : \A e \in Frames, b \in BOOLEAN :
               /\ e = stack'[t][i] /\ (b <=> i = Len(stack'[t]))
               /\ i > m \/ i = Len(stack'[t])
               => Knows(e, b)'
      <3> SUFFICES ASSUME NEW i \in 1..Len(stack'[t]), NEW e \in Frames, NEW b \in BOOLEAN,
                          e = stack'[t][i], b <=> i = Len(stack'[t]), i > m \/ i = Len(stack'[t])
                   PROVE  Knows(e, b)'
        OBVIOUS
      <3>1. (i = Depth(t) /\ e = g /\ b = FALSE) \/ (i = Depth(t) + 1 /\ e = h /\ b = TRUE)
        BY <1>2, <1>3, SMTT(40)
      <3> QED
        BY <3>1
    <2> QED
      BY <2>1, <2>2, <1>1, KnowStep
  <1> QED
    BY <1>1, <1>4, <1>5, <1>6

(* The innermost call returns to the one that made it, which goes on as e. *)
LEMMA StepDropped ==
    ASSUME Types, StackShape, Locks, Exclusion, FramesKnow, NEW t \in L1s, Busy(t), Depth(t) > 1,
           NEW f \in Frames, f = Top(t), NEW g \in Frames, g = stack[t][Depth(t) - 1],
           NEW e \in Frames, PoppedTo(t, e),
           FrameShape(e), e.c = g.c, e.op = g.op, e.l = g.l, e.type = g.type, e.child = g.child,
           e.pc = g.pc, e.pc # "fill",
           Holds(e, TRUE) => e.c \in bcc' /\ (Holds(g, FALSE) \/ e.c \notin bcc),
           \A c \in bcc : c \in bcc' \/ (c = f.c /\ Holds(f, TRUE)),
           \A c \in tcc : c \in tcc' \/ (c = f.c /\ Entered(f)),
           filterLock' = filterLock, Knows(e, TRUE)',
           \A u \in L1s : \A i \in 1..Depth(u) : \A x \in Frames, b \in BOOLEAN :
               /\ x = stack[u][i] /\ (b <=> u # t /\ i = Depth(u))
               /\ u # t \/ i \notin {Depth(t), Depth(t) - 1}
               => Knows(x, b)'
    PROVE  StackShape' /\ Locks' /\ Exclusion' /\ FramesKnow' /\ Keeps(t, Depth(t) - 2)
  <1>1. Keeps(t, Depth(t) - 2)
    BY StepKeeps
  <1>2. /\ Depth(t) \in Nat \ {0} /\ Depth(t) - 1 \in 1..Depth(t)
    BY TopShape
  <1>3. /\ Len(stack'[t]) = Depth(t) - 1 /\ stack'[t][Depth(t) - 1] = e
        /\ \A i \in 1..(Depth(t) - 2) : stack'[t][i] = stack[t][i]
    BY DEF PoppedTo
  <1>4. StackShape'
    <2>1. \A x \in Frames : Calls(x, g) => Calls(x, e)
      BY DEF Calls, AsksParent, TellsChild
    <2> DEFINE k == Depth(t) - 1
    <2>2. k \in Nat \ {0} /\ k \in 1..Depth(t) /\ Depth(t) - 2 = k - 1 /\ k - 1 + 1 = k
      BY <1>2
    <2> HIDE DEF k
    <2>3. /\ k = 1 => g.op = "access" /\ g.c = t
          /\ k > 1 => stack[t][k - 1] \in Frames /\ Calls(stack[t][k - 1], g)
      <3>1. k > 1 => k \in 2..Len(stack[t]) /\ k - 1 \in 1..Depth(t)
        BY <2>2 DEF Depth
      <3>2. g = stack[t][k]
        BY DEF k
      <3>3. \A i \in 1..Depth(t) : stack[t][i] \in Frames
        BY TopIs
      <3> QED
        BY <3>1, <3>2, <3>3 DEF StackShape
    <2>4. /\ Len(stack'[t]) = k /\ stack'[t][k] = e
          /\ \A i \in 1..(k - 1) : stack'[t][i] = stack[t][i]
      BY <1>3, <2>2 DEF k
    <2>5. k > 1 => Calls(stack'[t][k - 1], stack'[t][k])
      BY <2>1, <2>2, <2>3, <2>4
    <2>6. \A i \in ((Depth(t) - 2) + 1)..Len(stack'[t]) :
               /\ FrameShape(stack'[t][i])
               /\ i = 1 => stack'[t][i].op = "access" /\ stack'[t][i].c = t
               /\ i > 1 => Calls(stack'[t][i - 1], stack'[t][i])
      <3>1. \A i \in ((Depth(t) - 2) + 1)..Len(stack'[t]) : i = k
        BY <2>2, <2>4
      <3> QED
        BY <3>1, <2>3, <2>4, <2>5
    <2> QED
      BY <2>6, <1>1, ShapeStep
  <1>5. Locks' /\ Exclusion'
    <2>1. Entered(e) => Entered(stack[t][Depth(t) - 1])
      BY DEF Entered
    <2> QED
      BY <2>1, <1>1, <1>3, LocksDropped
  <1>6. FramesKnow'
    <2> DEFINE m == Depth(t) - 2
    <2>1. \A u \in L1s : \A i \in 1..Depth(u) : \A x \in Frames, b \in BOOLEAN :
               /\ x = stack[u][i] /\ (b <=> u # t /\ i = Depth(u))
               /\ u # t \/ (i <= m /\ i # Len(stack'[t]))
               => Knows(x, b)'
      <3>1. \A i : i <= m => i \notin {Depth(t), Depth(t) - 1}
        BY <1>2
      <3> QED
        BY <3>1
    <2>2. \A i \in 1..Len(stack'[t]) : \A x \in Frames, b \in BOOLEAN :
               /\ x = stack'[t][i] /\ (b <=> i = Len(stack'[t]))
               /\ i > m \/ i = Len(stack'[t])
               => Knows(x, b)'
      <3> SUFFICES ASSUME NEW i \in 1..Len(stack'[t]), NEW x \in Frames, NEW b \in BOOLEAN,
                          x = stack'[t][i], b <=> i = Len(stack'[t]), i > m \/ i = Len(stack'[t])
                   PROVE  Knows(x, b)'
        OBVIOUS
      <3>1. i = Depth(t) - 1 /\ x = e /\ b = TRUE
        BY <1>2, <1>3
      <3> QED
        BY <3>1
    <2> QED
      BY <2>1, <2>2, <1>1, KnowStep
  <1> QED
    BY <1>1, <1>4, <1>5, <1>6
-----------------------------------------------------------------------------
(* Copies, written data and filters: what a step has to leave alone *)

(* A grant under way stays under way unless a call above the m-th changes. *)
LEMMA GrantsStay ==
    ASSUME Types, NEW t \in L1s, NEW m, Keeps(t, m),
           NEW k, NEW c, NEW l, Upgrades(k, c, l),
           \A i \in (m + 1)..Depth(t) : IsUpgrade(stack[t][i], k, c, l) =>
               i \in 1..Len(stack'[t]) /\ IsUpgrade(stack'[t][i], k, c, l)
    PROVE  Upgrades(k, c, l)'
  <1>0. PICK u \in L1s : \E i \in 1..Len(stack[u]) : IsUpgrade(stack[u][i], k, c, l)
    BY DEF Upgrades
  <1>1. PICK i \in 1..Len(stack[u]) : IsUpgrade(stack[u][i], k, c, l)
    BY <1>0
  <1>2. /\ m \in Nat /\ m <= Depth(t) /\ Len(stack'[t]) \in Nat /\ Len(stack'[t]) >= m
        /\ \A j \in 1..m : stack'[t][j] = stack[t][j]
        /\ \A v \in L1s : v # t => stack'[v] = stack[v]
        /\ Depth(t) \in Nat
    BY LenProperties DEF Keeps, OnlyOf, Types, Depth
  <1>3. i \in 1..Len(stack'[u]) /\ IsUpgrade(stack'[u][i], k, c, l)
    <2>1. CASE u # t
      BY <2>1, <1>1, <1>2
    <2>2. CASE u = t /\ i <= m
      BY <2>2, <1>1, <1>2
    <2>3. CASE u = t /\ i > m
      <3>1. i \in (m + 1)..Depth(t)
        BY <2>3, <1>1, <1>2 DEF Depth
      <3> QED
        BY <3>1, <2>3, <1>1
    <2> QED
      BY <2>1, <2>2, <2>3, <1>2
  <1> QED
    BY <1>3 DEF Upgrades, IsUpgrade

(* All grants under way stay when only a call that is not one changes. *)
LEMMA AllGrantsStay ==
    ASSUME Types, NEW t \in L1s, Busy(t), Keeps(t, Depth(t) - 1), Top(t).pc # "grant"
    PROVE  \A k, c, l : Upgrades(k, c, l) => Upgrades(k, c, l)'
  <1> SUFFICES ASSUME NEW k, NEW c, NEW l, Upgrades(k, c, l) PROVE Upgrades(k, c, l)'
    OBVIOUS
  <1>1. Depth(t) \in Nat \ {0} /\ Top(t) = stack[t][Depth(t)]
    BY TopIs DEF Top, Depth
  <1>2. \A i \in ((Depth(t) - 1) + 1)..Depth(t) : i = Depth(t)
    BY <1>1
  <1>3. \A i \in ((Depth(t) - 1) + 1)..Depth(t) : ~IsUpgrade(stack[t][i], k, c, l)
    BY <1>1, <1>2 DEF IsUpgrade
  <1> QED
    BY <1>3, GrantsStay

(* Copies that become neither valid nor invalid, nor owned nor shared. *)
LEMMA CopiesStay ==
    ASSUME Copies, tags' = tags, dir' = dir,
           \A c \in Caches, l \in Lines :
               /\ state'[c][l] = "I" <=> state[c][l] = "I"
               /\ state'[c][l] \in Owned <=> state[c][l] \in Owned,
           \A k, c, l : Upgrades(k, c, l) => Upgrades(k, c, l)'
    PROVE  Copies' /\ \A c, l : l \in Lines => Kids(c, l)' = Kids(c, l)
  <1>1. \A c, l : l \in Lines => Kids(c, l)' = Kids(c, l)
    BY DEF Kids
  <1>2. \A k \in Caches, l \in Lines : Parent[k][l] # Mem => Parent[k][l] \in Inner /\ Parent[k][l] \in Caches
    BY TreeAssumption DEF Caches
  <1>3. Tagged'
    BY DEF Copies, Tagged
  <1>4. Included'
    BY <1>2 DEF Copies, Included
  <1>5. Exclusive'
    BY <1>1, <1>2 DEF Copies, Exclusive
  <1>6. Listed'
    BY <1>2 DEF Copies, Listed
  <1>7. SharersHave'
    BY <1>1 DEF Copies, SharersHave
  <1> QED
    BY <1>1, <1>3, <1>4, <1>5, <1>6, <1>7 DEF Copies

(* Where the written data of a line is. *)
Written(l) ==
    \/ \E c \in Caches : state[c][l] = "M"
    \/ \E t \in L1s : \E i \in 1..Len(stack[t]) : Carries(stack[t][i], l)

(* The written data of a line is still somewhere when it is after the step *)
(* where it was, in a copy or a call that changes.                         *)
LEMMA WrittenStays ==
    ASSUME Types, NEW t \in L1s, NEW m, Keeps(t, m), NEW l, Written(l),
           \A c \in Caches : state[c][l] = "M" => Written(l)',
           \A i \in (m + 1)..Depth(t) : Carries(stack[t][i], l) => Written(l)'
    PROVE  Written(l)'
  <1>1. CASE \E c \in Caches : state[c][l] = "M"
    BY <1>1
  <1>2. CASE \E u \in L1s : \E i \in 1..Len(stack[u]) : Carries(stack[u][i], l)
    <2>0. PICK u \in L1s : \E i \in 1..Len(stack[u]) : Carries(stack[u][i], l)
      BY <1>2
    <2>1. PICK i \in 1..Len(stack[u]) : Carries(stack[u][i], l)
      BY <2>0
    <2>2. /\ m \in Nat /\ m <= Depth(t) /\ Len(stack'[t]) \in Nat /\ Len(stack'[t]) >= m
          /\ \A j \in 1..m : stack'[t][j] = stack[t][j]
          /\ \A v \in L1s : v # t => stack'[v] = stack[v]
          /\ Depth(t) \in Nat
      BY LenProperties DEF Keeps, OnlyOf, Types, Depth
    <2>3. CASE u # t \/ i <= m
      <3>1. i \in 1..Len(stack'[u]) /\ stack'[u][i] = stack[u][i]
        BY <2>1, <2>2, <2>3
      <3> QED
        BY <3>1, <2>1 DEF Written, Carries, InvLine
    <2>4. CASE u = t /\ i > m
      <3>1. i \in (m + 1)..Depth(t)
        BY <2>4, <2>1, <2>2 DEF Depth
      <3> QED
        BY <3>1, <2>1, <2>4
    <2> QED
      BY <2>2, <2>3, <2>4
  <1> QED
    BY <1>1, <1>2 DEF Written

(* When only the innermost call of t changes, and it carries nothing or    *)
(* leaves its line modified.                                               *)
LEMMA WrittenStep ==
    ASSUME Types, WrittenKept, NEW t \in L1s, Busy(t), Keeps(t, Depth(t) - 1),
           NEW f, f = Top(t),
           \A l \in dirty' : l \in dirty \/ \E c \in Caches : state'[c][l] = "M",
           \A c \in Caches : \A l \in dirty' : state[c][l] = "M" => Written(l)',
           \A l \in dirty' : Carries(f, l) => Written(l)'
    PROVE  WrittenKept'
  <1> SUFFICES ASSUME NEW l \in dirty' PROVE Written(l)'
    BY DEF WrittenKept, Written
  <1>1. CASE l \notin dirty
    BY <1>1 DEF Written
  <1>2. CASE l \in dirty
    <2>1. Written(l)
      BY <1>2 DEF WrittenKept, Written
    <2>2. Depth(t) \in Nat \ {0} /\ Top(t) = stack[t][Depth(t)]
      BY TopIs DEF Top, Depth
    <2>3. \A i \in ((Depth(t) - 1) + 1)..Depth(t) : i = Depth(t)
      BY <2>2
    <2>4. \A i \in ((Depth(t) - 1) + 1)..Depth(t) : Carries(stack[t][i], l) => Written(l)'
      BY <2>2, <2>3
    <2> QED
      BY <2>1, <2>4, WrittenStays
  <1> QED
    BY <1>1, <1>2

(* The filter of a core whose thread is outside all accesses is backed as  *)
(* long as only busy threads change its L1.                                *)
LEMMA FilterStays ==
    ASSUME Types, FilterKnows, filter' = filter, NEW t \in L1s, OnlyOf(t),
           \A u \in L1s : u # t => state'[u] = state[u],
           stack'[t] # << >> \/ (stack' = stack /\ state'[t] = state[t])
    PROVE  FilterKnows'
  <1> SUFFICES ASSUME NEW u \in L1s
               PROVE  /\ filter[u].wr \in {filter[u].rd, NoLine}
                      /\ stack'[u] = << >> =>
                             /\ filter[u].rd # NoLine => state'[u][filter[u].rd] # "I"
                             /\ filter[u].wr # NoLine => state'[u][filter[u].wr] = "M"
    BY DEF FilterKnows, Busy
  <1>1. stack'[u] = << >> => stack[u] = << >> /\ state'[u] = state[u]
    BY DEF OnlyOf
  <1> QED
    BY <1>1 DEF FilterKnows, Busy

-----------------------------------------------------------------------------
(* The innermost call: what is known of it *)

(* The innermost call is well formed, and knows what calls know.           *)
LEMMA TopKnows ==
    ASSUME Types, StackShape, FramesKnow, NEW t \in L1s, Busy(t), NEW f, f = Last(stack[t])
    PROVE  /\ f = Top(t) /\ f \in Frames /\ FrameShape(f) /\ Knows(f, TRUE)
           /\ f.c \in Caches /\ f.l \in Lines /\ f.child \in Caches \cup {Core}
           /\ f.victim \in Lines \cup {NoLine} /\ f.wb \in BOOLEAN /\ f.initial \in MESI
           /\ f.op \in {"access", "inval"}
           /\ f.op = "access" /\ f.c \in L1s => f.c = t /\ Depth(t) = 1
           /\ Depth(t) = 1 => f.op = "access" /\ f.c = t /\ f.c \in L1s /\ f.child = Core
  <1>1. /\ f = Top(t) /\ Depth(t) \in Nat \ {0} /\ f = stack[t][Depth(t)] /\ f \in Frames /\ FrameShape(f)
        /\ Depth(t) = 1 => f.op = "access" /\ f.c = t
    BY TopIs, TopShape
  <1>2. Knows(f, TRUE)
    <2>1. Depth(t) \in 1..Len(stack[t]) /\ (TRUE <=> Depth(t) = Len(stack[t]))
      BY <1>1 DEF Depth
    <2> QED
      BY <1>1, <2>1 DEF FramesKnow
  <1>3. f.op = "access" /\ f.c \in L1s => f.c = t /\ Depth(t) = 1
    BY <1>1, EntersOwnL1
  <1>4. Depth(t) = 1 => f.child = Core /\ f.c \in L1s
    BY <1>1, SMTT(40) DEF FrameShape, AccessShape
  <1> QED
    BY <1>1, <1>2, <1>3, <1>4 DEF Frames

(* An access made by a child of the cache. *)
LEMMA ChildKnows ==
    ASSUME Types, StackShape, FramesKnow, NEW t \in L1s, Busy(t), NEW f, f = Last(stack[t]),
           f.op = "access", f.child # Core
    PROVE  \E g \in Frames :
              /\ Depth(t) > 1 /\ Depth(t) - 1 \in 1..Depth(t) /\ g = stack[t][Depth(t) - 1]
              /\ FrameShape(g) /\ AsksParent(g, f) /\ Entered(g) /\ Knows(g, FALSE)
              /\ f.child \in Caches /\ Parent[f.child][f.l] = f.c /\ f.c \in Inner /\ f.c # Mem
              /\ f.c \notin L1s /\ f.child # f.c /\ (f.child \in L1s => f.child = t)
              /\ g.c = f.child /\ g.op = "access" /\ KnowsChild(f, state[f.child][f.l])
  <1> DEFINE n == Depth(t)
             g == stack[t][n - 1]
  <1>1. f = Top(t) /\ n \in Nat \ {0} /\ f = stack[t][n] /\ f \in Frames /\ n \in 1..n /\ n \in 1..Depth(t)
    BY TopIs, TopShape
  <1>2. /\ n - 1 \in 1..Depth(t) /\ g \in Frames /\ FrameShape(g) /\ AsksParent(g, f)
        /\ Entered(g) /\ g.c = f.child /\ f.c = Parent[f.child][f.l] /\ f.c \in Inner
    <2>1. n \in 1..Depth(t) /\ stack[t][n] = f
      BY <1>1
    <2> HIDE DEF n
    <2> QED
      BY <2>1, Caller, ZenonT(60)
  <1>3. f.child \in Caches /\ f.c # Mem /\ f.c \notin L1s /\ f.child # f.c
    BY <1>1, <1>2, TreeFacts DEF Frames
  <1>4. Knows(g, FALSE)
    <2>1. n - 1 \in 1..Len(stack[t]) /\ (FALSE <=> n - 1 = Len(stack[t]))
      BY <1>1, <1>2 DEF Depth
    <2> HIDE DEF n
    <2> QED
      BY <1>2, <2>1 DEF FramesKnow
  <1>5. g.op = "access"
    BY <1>2 DEF Entered
  <1>6. f.child \in L1s => f.child = t
    <2>1. n - 1 \in 1..Depth(t) /\ g = stack[t][n - 1]
      BY <1>2
    <2> HIDE DEF n
    <2> QED
      BY <2>1, <1>2, <1>5, EntersOwnL1
  <1>7. KnowsChild(f, state[f.child][f.l])
    <2>1. Knows(f, TRUE)
      BY TopKnows
    <2> QED
      BY <2>1 DEF Knows
  <1>8. n > 1
    BY <1>1, <1>2
  <1> HIDE DEF n, g
  <1> QED
    BY <1>2, <1>3, <1>4, <1>5, <1>6, <1>7, <1>8 DEF n, g

(* An invalidation sent by the parent of the cache. *)
LEMMA SenderKnows ==
    ASSUME Types, StackShape, FramesKnow, NEW t \in L1s, Busy(t), NEW f, f = Last(stack[t]),
           f.op = "inval"
    PROVE  \E g \in Frames :
              /\ Depth(t) > 1 /\ Depth(t) - 1 \in 1..Depth(t) /\ g = stack[t][Depth(t) - 1]
              /\ FrameShape(g) /\ TellsChild(g, f) /\ Holds(g, FALSE) /\ Knows(g, FALSE)
              /\ g.c = Parent[f.c][f.l] /\ g.c \in Inner /\ g.c # Mem /\ g.c # f.c
              /\ KnowsEntry(f)
  <1> DEFINE n == Depth(t)
             g == stack[t][n - 1]
  <1>1. f = Top(t) /\ n \in Nat \ {0} /\ f = stack[t][n] /\ f \in Frames /\ n \in 1..n /\ n \in 1..Depth(t)
    BY TopIs, TopShape
  <1>2. /\ n - 1 \in 1..Depth(t) /\ g \in Frames /\ FrameShape(g) /\ TellsChild(g, f)
        /\ Holds(g, FALSE) /\ g.c = Parent[f.c][f.l] /\ g.c \in Inner
    <2>1. n \in 1..Depth(t) /\ stack[t][n] = f
      BY <1>1
    <2> HIDE DEF n
    <2> QED
      BY <2>1, Caller
  <1>3. g.c # Mem /\ g.c # f.c
    <2>1. f.c \in Caches /\ f.l \in Lines
      BY <1>1 DEF Frames
    <2> HIDE DEF n, g
    <2> QED
      BY <2>1, <1>2, TreeFacts, ZenonT(60)
  <1>4. Knows(g, FALSE)
    <2>1. n - 1 \in 1..Len(stack[t]) /\ (FALSE <=> n - 1 = Len(stack[t]))
      BY <1>1, <1>2 DEF Depth
    <2> HIDE DEF n
    <2> QED
      BY <1>2, <2>1 DEF FramesKnow
  <1>5. KnowsEntry(f)
    <2>1. Knows(f, TRUE)
      BY TopKnows
    <2> QED
      BY <2>1 DEF Knows
  <1>6. n > 1
    BY <1>1, <1>2
  <1> HIDE DEF n, g
  <1> QED
    BY <1>2, <1>3, <1>4, <1>5, <1>6 DEF n, g

(* Only the call that holds a cache can be granting there. *)
LEMMA OwnGrant ==
    ASSUME Types, StackShape, Exclusion, NEW t \in L1s, Busy(t), NEW f, f = Top(t), Holds(f, TRUE),
           NEW k, NEW l, Upgrades(k, f.c, l)
    PROVE  f.pc = "grant" /\ f.type = "GETX" /\ f.l = l /\ f.child = k
  <1>0. PICK u \in L1s : \E i \in 1..Len(stack[u]) : IsUpgrade(stack[u][i], k, f.c, l)
    BY DEF Upgrades
  <1>1. PICK i \in 1..Len(stack[u]) : IsUpgrade(stack[u][i], k, f.c, l)
    BY <1>0
  <1>2. Depth(t) \in 1..Len(stack[t]) /\ f = stack[t][Depth(t)] /\ (Depth(t) = Len(stack[t])) = TRUE
    BY TopShape DEF Depth
  <1>3. Holds(stack[u][i], i = Len(stack[u]))
    BY <1>1 DEF IsUpgrade, Holds
  <1>4. u = t /\ i = Depth(t)
    <2> DEFINE n == Depth(t)
    <2>1. Holds(stack[t][n], n = Len(stack[t])) /\ n \in 1..Len(stack[t]) /\ stack[t][n] = f
      BY <1>2
    <2> HIDE DEF n
    <2>2. stack[u][i].c = stack[t][n].c
      BY <1>1, <2>1 DEF IsUpgrade
    <2>3. u = t /\ i = n
      BY <1>3, <2>1, <2>2 DEF Exclusion
    <2> QED
      BY <2>3 DEF n
  <1> QED
    BY <1>1, <1>2, <1>4 DEF IsUpgrade

(* The valid children of a cache are in its directory, or about to be. *)
LEMMA KidsListed ==
    ASSUME Types, Copies, NEW c, NEW l \in Lines, NEW k \in Kids(c, l)
    PROVE  /\ k \in Caches /\ Parent[k][l] = c /\ state[k][l] # "I"
           /\ c # Mem =>
                 /\ c \in Inner /\ state[c][l] # "I" /\ l \in tags[c]
                 /\ k \in dir[c][l].sharers \/ Upgrades(k, c, l)
                 /\ state[k][l] \in Owned <=> dir[c][l].exclusive
                 /\ state[k][l] \in Owned => Kids(c, l) = {k} /\ state[c][l] \in Owned
  <1>1. k \in Caches /\ Parent[k][l] = c /\ state[k][l] # "I"
    BY DEF Kids
  <1>2. c # Mem => c \in Inner /\ c \in Caches
    BY <1>1, TreeFacts
  <1> QED
    BY <1>1, <1>2 DEF Copies, Tagged, Included, Exclusive, Listed
-----------------------------------------------------------------------------
(* Each step keeps the invariant: outside the caches *)

(* The threads and the caches do nothing. *)
LEMMA NothingMoves ==
    ASSUME IInv, UNCHANGED <<state, tags, dir, bcc, tcc, filterLock, stack, ok>>
    PROVE  StackShape' /\ Locks' /\ Exclusion' /\ FramesKnow' /\ Copies' /\ ok' = TRUE
  <1>1. StackShape' /\ Locks' /\ Exclusion' /\ ok' = TRUE
    BY DEF IInv, StackShape, Locks, Exclusion, Busy
  <1>2. FramesKnow'
    <2> SUFFICES ASSUME NEW t \in L1s, NEW i \in 1..Len(stack'[t]), NEW f \in Frames, NEW b \in BOOLEAN,
                        f = stack'[t][i], b <=> i = Len(stack'[t])
                 PROVE  Knows(f, b)'
      BY DEF FramesKnow
    <2>1. Knows(f, b)
      BY DEF IInv, FramesKnow
    <2> QED
      BY <2>1, SameCopies
  <1>3. Copies'
    <2>1. \A k, c, l : Upgrades(k, c, l) => Upgrades(k, c, l)'
      BY DEF Upgrades, IsUpgrade
    <2> QED
      BY <2>1, CopiesStay DEF IInv
  <1> QED
    BY <1>1, <1>2, <1>3

(* Stores to lines that are modified somewhere keep the written data.      *)
LEMMA WrittenSame ==
    ASSUME WrittenKept, state' = state, stack' = stack,
           \A l \in dirty' : l \in dirty \/ \E c \in Caches : state[c][l] = "M"
    PROVE  WrittenKept'
  BY DEF WrittenKept, Carries, InvLine

(* A hit in the filter array writes a line that the L1 has modified.       *)
LEMMA FilterHitStep ==
    ASSUME IInv, NEW t \in L1s, FilterHit(t)
    PROVE  IInv'
  <1>1. /\ ~Busy(t) /\ left[t] > 0 /\ left' = [left EXCEPT ![t] = @ - 1]
        /\ UNCHANGED <<state, tags, dir, bcc, tcc, filter, filterLock, stack, ok>>
        /\ dirty' = dirty \/ (filter[t].wr # NoLine /\ dirty' = dirty \cup {filter[t].wr})
    BY DEF FilterHit
  <1>2. filter[t].wr # NoLine => filter[t].wr \in Lines /\ t \in Caches /\ state[t][filter[t].wr] = "M"
    BY <1>1 DEF IInv, FilterKnows, Types, Caches
  <1>3. Types'
    <2>1. left' \in [L1s -> 0..MaxAccesses]
      BY <1>1, TreeAssumption DEF IInv, Types
    <2> QED
      BY <1>1, <1>2, <2>1 DEF IInv, Types
  <1>4. WrittenKept'
    BY <1>1, <1>2, WrittenSame DEF IInv
  <1>5. FilterKnows'
    BY <1>1 DEF IInv, FilterKnows, Busy
  <1> QED
    BY <1>1, <1>3, <1>4, <1>5, NothingMoves DEF IInv

(* A core that loses its thread empties its filter array.                  *)
LEMMA ContextSwitchStep ==
    ASSUME IInv, NEW t \in L1s, ContextSwitch(t)
    PROVE  IInv'
  <1>1. /\ filter' = [filter EXCEPT ![t] = [rd |-> NoLine, wr |-> NoLine]]
        /\ UNCHANGED <<state, tags, dir, bcc, tcc, filterLock, stack, left, dirty, ok>>
    BY DEF ContextSwitch
  <1>2. Types'
    BY <1>1 DEF IInv, Types
  <1>3. FilterKnows'
    <2> SUFFICES ASSUME NEW u \in L1s
                 PROVE  /\ filter'[u].wr \in {filter'[u].rd, NoLine}
                        /\ stack[u] = << >> =>
                               /\ filter'[u].rd # NoLine => state[u][filter'[u].rd] # "I"
                               /\ filter'[u].wr # NoLine => state[u][filter'[u].wr] = "M"
      BY <1>1 DEF FilterKnows, Busy
    <2>1. CASE u = t
      BY <2>1, <1>1 DEF IInv, Types
    <2>2. CASE u # t
      BY <2>2, <1>1 DEF IInv, Types, FilterKnows, Busy
    <2> QED
      BY <2>1, <2>2
  <1>4. WrittenKept'
    BY <1>1, WrittenSame DEF IInv
  <1> QED
    BY <1>1, <1>2, <1>3, <1>4, NothingMoves DEF IInv

(* The next bound phase starts.                                            *)
LEMMA NewPhaseStep ==
    ASSUME IInv, NewPhase
    PROVE  IInv'
  <1>1. /\ left' = [t \in L1s |-> MaxAccesses]
        /\ UNCHANGED <<state, tags, dir, bcc, tcc, filter, filterLock, stack, dirty, ok>>
    BY DEF NewPhase
  <1>2. Types'
    BY <1>1, TreeAssumption DEF IInv, Types
  <1>3. FilterKnows'
    BY <1>1 DEF IInv, FilterKnows, Busy
  <1>4. WrittenKept'
    BY <1>1, WrittenSame DEF IInv
  <1> QED
    BY <1>1, <1>2, <1>3, <1>4, NothingMoves DEF IInv

(* The outermost call of a thread comes, not entered yet, or goes. *)
LEMMA OuterMoves ==
    ASSUME IInv, NEW t \in L1s, OnlyOf(t), UNCHANGED <<state, tags, dir, bcc, tcc, dirty>>,
           Depth(t) = 0 \/ (Depth(t) = 1 /\ Top(t).pc = "fill"),
           \A u \in filterLock : u \in filterLock' \/ u = t,
           \/ stack'[t] = << >>
           \/ /\ Len(stack'[t]) = 1 /\ stack'[t][1].pc = "start" /\ stack'[t][1].child = Core
              /\ stack'[t][1] \in Frames /\ FrameShape(stack'[t][1])
              /\ stack'[t][1].op = "access" /\ stack'[t][1].c = t
    PROVE  StackShape' /\ Locks' /\ Exclusion' /\ FramesKnow' /\ Copies' /\ WrittenKept'
  <1> USE DEF IInv
  <1>1. /\ Len(stack'[t]) \in {0, 1} /\ \A u \in L1s : u # t => stack'[u] = stack[u]
        /\ \A u \in L1s : Depth(u) \in Nat
    BY LenProperties, EmptySeq DEF OnlyOf, Types, Depth
  <1>1a. \A i \in 1..Len(stack'[t]) : i = 1 /\ stack'[t] # << >>
    <2> DEFINE d == Len(stack'[t])
    <2>1. d \in {0, 1} /\ (stack'[t] = << >> => d = 0)
      BY <1>1
    <2> HIDE DEF d
    <2>2. \A i \in 1..d : i = 1 /\ d # 0
      BY <2>1, SMTT(20)
    <2> QED
      BY <2>1, <2>2 DEF d
  <1>2. Keeps(t, 0)
    BY <1>1 DEF Keeps
  <1>3. StackShape'
    <2>1. \A i \in (0 + 1)..Len(stack'[t]) :
               /\ FrameShape(stack'[t][i])
               /\ i = 1 => stack'[t][i].op = "access" /\ stack'[t][i].c = t
               /\ i > 1 => Calls(stack'[t][i - 1], stack'[t][i])
      <3> SUFFICES ASSUME NEW i \in 1..Len(stack'[t])
                   PROVE  i = 1 /\ FrameShape(stack'[t][1]) /\ stack'[t][1].op = "access" /\ stack'[t][1].c = t
        OBVIOUS
      <3>1. i = 1 /\ stack'[t] # << >>
        BY <1>1a
      <3> QED
        BY <3>1
    <2> QED
      BY <2>1, <1>2, ShapeStep
  <1>4. Locks' /\ Exclusion'
    BY LocksOuter
  <1>5. FramesKnow'
    <2>1. \A u \in L1s : \A i \in 1..Depth(u) : \A f \in Frames, b \in BOOLEAN :
               /\ f = stack[u][i] /\ (b <=> u # t /\ i = Depth(u))
               /\ u # t \/ (i <= 0 /\ i # Len(stack'[t]))
               => Knows(f, b)'
      <3> SUFFICES ASSUME NEW u \in L1s, NEW i \in 1..Depth(u), NEW f \in Frames, NEW b \in BOOLEAN,
                          f = stack[u][i], b <=> u # t /\ i = Depth(u), u # t
                   PROVE  Knows(f, b)'
        OBVIOUS
      <3>1. Knows(f, b)
        BY DEF FramesKnow, Depth
      <3> QED
        BY <3>1, SameCopies
    <2>2. \A i \in 1..Len(stack'[t]) : \A f \in Frames, b \in BOOLEAN :
               /\ f = stack'[t][i] /\ (b <=> i = Len(stack'[t]))
               /\ i > 0 \/ i = Len(stack'[t])
               => Knows(f, b)'
      <3> SUFFICES ASSUME NEW i \in 1..Len(stack'[t]), NEW f \in Frames, NEW b \in BOOLEAN,
                          f = stack'[t][i]
                   PROVE  Knows(f, b)'
        OBVIOUS
      <3>1. i = 1 /\ stack'[t] # << >>
        BY <1>1, EmptySeq
      <3>2. f.pc = "start" /\ f.child = Core /\ f.op = "access"
        BY <3>1
      <3> QED
        BY <3>2, StartKnows DEF Knows
    <2> QED
      BY <2>1, <2>2, <1>2, KnowStep
  <1>6. \A i \in (0 + 1)..Depth(t) : stack[t][i].pc = "fill"
    BY <1>1 DEF Top, Depth
  <1>7. Copies'
    <2>1. \A k, c, l : Upgrades(k, c, l) => Upgrades(k, c, l)'
      BY <1>2, <1>6, GrantsStay DEF IsUpgrade
    <2> QED
      BY <2>1, CopiesStay
  <1>8. WrittenKept'
    <2> SUFFICES ASSUME NEW l \in dirty PROVE Written(l)'
      BY DEF WrittenKept, Written
    <2>1. Written(l)
      BY DEF WrittenKept, Written
    <2>2. \A i \in (0 + 1)..Depth(t) : Carries(stack[t][i], l) => Written(l)'
      BY <1>6 DEF Carries
    <2>3. \A c \in Caches : state[c][l] = "M" => Written(l)'
      BY DEF Written
    <2> QED
      BY <2>1, <2>2, <2>3, <1>2, WrittenStays
  <1> QED
    BY <1>3, <1>4, <1>5, <1>7, <1>8

(* A miss in the filter array starts an access of the L1.                  *)
LEMMA ReplaceStep ==
    ASSUME IInv, NEW t \in L1s, Replace(t)
    PROVE  IInv'
  <1>1. /\ ~Busy(t) /\ left[t] > 0 /\ left' = [left EXCEPT ![t] = @ - 1]
        /\ UNCHANGED <<state, tags, dir, bcc, tcc, filter, filterLock, dirty, ok>>
    BY DEF Replace
  <1>2. PICK l \in Lines, type \in {"GETS", "GETX"} :
            stack' = [stack EXCEPT ![t] = <<Frame("access", t, l, type, Core, "I")>>]
    BY DEF Replace
  <1> DEFINE h == Frame("access", t, l, type, Core, "I")
  <1>3. /\ h \in Frames /\ h.pc = "start" /\ h.child = Core /\ h.op = "access" /\ h.c = t
        /\ h.type = type /\ h.wb = FALSE
    BY DEF Frames, Frame, MESI, Caches
  <1>4. FrameShape(h)
    <2>1. t \in L1s /\ t \notin Inner
      BY TreeFacts
    <2> HIDE DEF h
    <2> QED
      BY <1>3, <2>1 DEF FrameShape, AccessShape, Gets, Puts
  <1> HIDE DEF h
  <1>5. stack'[t] = <<h>> /\ OnlyOf(t)
    BY <1>2, <1>3 DEF IInv, Types, OnlyOf, h
  <1>6. Len(stack'[t]) = 1 /\ stack'[t][1] = h
    BY <1>5
  <1>7. Depth(t) = 0
    BY <1>1 DEF Busy, Depth
  <1>8. StackShape' /\ Locks' /\ Exclusion' /\ FramesKnow' /\ Copies' /\ WrittenKept'
    BY <1>1, <1>3, <1>4, <1>5, <1>6, <1>7, OuterMoves
  <1>9. Types'
    <2>1. left' \in [L1s -> 0..MaxAccesses]
      BY <1>1, TreeAssumption DEF IInv, Types
    <2>2. stack' \in [L1s -> Seq(Frames)]
      BY <1>5 DEF OnlyOf
    <2> QED
      BY <1>1, <2>1, <2>2 DEF IInv, Types
  <1>10. FilterKnows'
    <2>1. stack'[t] # << >>
      BY <1>5
    <2> QED
      BY <1>1, <1>5, <2>1, FilterStays DEF IInv
  <1> QED
    BY <1>1, <1>8, <1>9, <1>10 DEF IInv

(* The access is over, and the filter array gets a line that the L1 still  *)
(* has.                                                                    *)
LEMMA FillStep ==
    ASSUME IInv, NEW t \in L1s, Fill(t)
    PROVE  IInv'
  <1>1. PICK f : f = Last(stack[t])
    OBVIOUS
  <1>2. /\ Busy(t) /\ f.pc = "fill"
        /\ filter' = [filter EXCEPT ![t] =
               [rd |-> f.l, wr |-> IF f.type = "GETX" THEN f.l ELSE NoLine]]
        /\ filterLock' = filterLock \ {t}
        /\ stack' = [stack EXCEPT ![t] = << >>]
        /\ UNCHANGED <<state, tags, dir, bcc, tcc, left, dirty, ok>>
    BY <1>1 DEF Fill, At
  <1>3. /\ f = Top(t) /\ FrameShape(f) /\ Knows(f, TRUE) /\ f.l \in Lines /\ f.c \in Caches /\ f.child \in Caches \cup {Core}
        /\ f.op \in {"access", "inval"}
        /\ f.op = "access" /\ f.c \in L1s => f.c = t /\ Depth(t) = 1
    BY <1>1, <1>2, TopKnows DEF IInv
  <1>4. f.op = "access" /\ f.c \in L1s /\ f.child = Core
    BY <1>2, <1>3 DEF FrameShape, AccessShape, Caches
  <1>5. Granted(f.type, state[t][f.l])
    BY <1>2, <1>3, <1>4 DEF Knows, KnowsOwn
  <1>6. stack'[t] = << >> /\ OnlyOf(t)
    <2>1. << >> \in Seq(Frames)
      BY EmptySeq
    <2> QED
      BY <1>2, <2>1 DEF IInv, Types, OnlyOf
  <1>7. StackShape' /\ Locks' /\ Exclusion' /\ FramesKnow' /\ Copies' /\ WrittenKept'
    BY <1>2, <1>3, <1>4, <1>6, OuterMoves
  <1>8. Types'
    <2>1. stack' \in [L1s -> Seq(Frames)]
      BY <1>6 DEF OnlyOf
    <2> QED
      BY <1>2, <1>3, <2>1 DEF IInv, Types
  <1>9. FilterKnows'
    <2> SUFFICES ASSUME NEW u \in L1s
                 PROVE  /\ filter'[u].wr \in {filter'[u].rd, NoLine}
                        /\ stack'[u] = << >> =>
                               /\ filter'[u].rd # NoLine => state[u][filter'[u].rd] # "I"
                               /\ filter'[u].wr # NoLine => state[u][filter'[u].wr] = "M"
      BY <1>2 DEF FilterKnows, Busy
    <2>1. CASE u = t
      BY <2>1, <1>2, <1>5 DEF IInv, Types, Granted
    <2>2. CASE u # t
      BY <2>2, <1>2 DEF IInv, Types, FilterKnows, Busy
    <2> QED
      BY <2>1, <2>2
  <1> QED
    BY <1>2, <1>7, <1>8, <1>9 DEF IInv
-----------------------------------------------------------------------------
(* Each step keeps the invariant: locks *)

(* A step of a call that neither grants nor carries written data, and that *)
(* touches no copy.                                                        *)
LEMMA QuietStep ==
    ASSUME IInv, NEW t \in L1s, Busy(t), Keeps(t, Depth(t) - 1), stack'[t] # << >>,
           UNCHANGED <<state, tags, dir, filter, dirty>>,
           Top(t).pc \notin {"evict", "grant", "inval"}
    PROVE  Copies' /\ WrittenKept' /\ FilterKnows'
  <1>1. \A k, c, l : Upgrades(k, c, l) => Upgrades(k, c, l)'
    BY AllGrantsStay DEF IInv
  <1>2. Copies'
    BY <1>1, CopiesStay DEF IInv
  <1>3. WrittenKept'
    <2> DEFINE f == Top(t)
    <2>1. \A l \in dirty' : ~Carries(f, l)
      BY DEF Carries
    <2>2. \A c \in Caches : \A l \in dirty' : state[c][l] = "M" => Written(l)'
      BY DEF Written
    <2> HIDE DEF f
    <2> QED
      BY <2>1, <2>2, WrittenStep DEF IInv, f
  <1>4. FilterKnows'
    BY FilterStays DEF IInv, Keeps
  <1> QED
    BY <1>2, <1>3, <1>4

(* A thread is still inside its access when its innermost call goes on, or *)
(* makes one.                                                              *)
LEMMA StillBusy ==
    ASSUME Types, NEW t \in L1s, Busy(t), NEW h, Replaced(t, h) \/ \E g : Pushed(t, g, h)
    PROVE  stack'[t] # << >> /\ stack' \in [L1s -> Seq(Frames)]
  <1>1. stack' \in [L1s -> Seq(Frames)] /\ Len(stack'[t]) \in {Depth(t), Depth(t) + 1}
    BY DEF Replaced, Pushed, OnlyOf
  <1>2. Len(stack'[t]) # 0
    <2>1. Depth(t) \in Nat \ {0}
      BY TopIs
    <2> QED
      BY <1>1, <2>1
  <1>3. stack'[t] = << >> => Len(stack'[t]) = 0
    OBVIOUS
  <1> QED
    BY <1>1, <1>2, <1>3

(* An access takes the top lock.                                           *)
LEMMA LockTccStep ==
    ASSUME IInv, NEW t \in L1s, LockTcc(t)
    PROVE  IInv'
  <1>1. PICK f : f = Last(stack[t])
    OBVIOUS
  <1> DEFINE h == [f EXCEPT !.pc = "bcc"]
  <1>2. /\ Busy(t) /\ f.pc = "start" /\ f.op = "access" /\ f.c \in Inner /\ f.c \notin tcc
        /\ tcc' = tcc \cup {f.c}
        /\ stack' = [stack EXCEPT ![t] = Append(Front(@), h)]
        /\ UNCHANGED <<state, tags, dir, bcc, filter, filterLock, left, dirty, ok>>
    BY <1>1 DEF LockTcc, At, Goto
  <1>3. /\ f = Top(t) /\ f \in Frames /\ FrameShape(f) /\ Knows(f, TRUE) /\ f.c \in Caches
    BY <1>1, <1>2, TopKnows DEF IInv
  <1>4. /\ h \in Frames /\ h.pc = "bcc" /\ h.op = "access" /\ h.c = f.c /\ h.l = f.l /\ h.child = f.child
        /\ h.type = f.type /\ h.wb = f.wb /\ h.initial = f.initial /\ h.victim = f.victim
    BY <1>2, <1>3 DEF Frames
  <1> HIDE DEF h
  <1>5. FrameShape(h)
    BY <1>2, <1>3, <1>4, TreeFacts DEF FrameShape, AccessShape
  <1>6. Knows(h, TRUE)'
    <2>1. Knows(h, TRUE)
      BY <1>2, <1>3, <1>4, TreeFacts DEF Knows, KnowsOwn, KnowsChild, KnowsEntry, FrameShape, AccessShape
    <2> QED
      BY <2>1, <1>2, <1>4, SameCopies
  <1>7. OthersKnown(t)
    BY <1>2, OthersUntouched DEF IInv
  <1>8. \A x \in Frames : Calls(x, f) => Calls(x, h)
    BY <1>2, <1>4 DEF Calls, AsksParent, TellsChild
  <1>9. /\ StackShape' /\ Locks' /\ Exclusion' /\ FramesKnow'
        /\ Replaced(t, h) /\ Keeps(t, Depth(t) - 1)
    <2>1. /\ ~Holds(h, TRUE) /\ Entered(h) /\ ~Holds(f, TRUE)
      BY <1>2, <1>4 DEF Holds, Entered
    <2> QED
      BY <1>2, <1>3, <1>4, <1>5, <1>6, <1>7, <1>8, <2>1, StepReplaced DEF IInv
  <1>10. stack'[t] # << >> /\ stack' \in [L1s -> Seq(Frames)]
    BY <1>2, <1>9, StillBusy DEF IInv
  <1>11. Types'
    BY <1>2, <1>10 DEF IInv, Types
  <1>12. Copies' /\ WrittenKept' /\ FilterKnows'
    BY <1>2, <1>3, <1>9, <1>10, QuietStep
  <1> QED
    BY <1>2, <1>9, <1>11, <1>12 DEF IInv

(* An invalidation takes the bottom lock.                                  *)
LEMMA StartInvStep ==
    ASSUME IInv, NEW t \in L1s, StartInv(t)
    PROVE  IInv'
  <1>1. PICK f : f = Last(stack[t])
    OBVIOUS
  <1> DEFINE h == [f EXCEPT !.pc = "inval"]
  <1>2. /\ Busy(t) /\ f.pc = "start" /\ f.op = "inval" /\ f.c \notin bcc
        /\ bcc' = bcc \cup {f.c}
        /\ stack' = [stack EXCEPT ![t] = Append(Front(@), h)]
        /\ UNCHANGED <<state, tags, dir, tcc, filter, filterLock, left, dirty, ok>>
    BY <1>1 DEF StartInv, At, Goto, InvLockFree
  <1>3. /\ f = Top(t) /\ f \in Frames /\ FrameShape(f) /\ Knows(f, TRUE) /\ f.c \in Caches
    BY <1>1, <1>2, TopKnows DEF IInv
  <1>4. /\ h \in Frames /\ h.pc = "inval" /\ h.op = "inval" /\ h.c = f.c /\ h.l = f.l /\ h.child = f.child
        /\ h.type = f.type /\ h.wb = f.wb /\ h.initial = f.initial /\ h.victim = f.victim
    BY <1>2, <1>3 DEF Frames
  <1> HIDE DEF h
  <1>5. FrameShape(h) /\ f.wb = FALSE
    BY <1>2, <1>3, <1>4 DEF FrameShape, Frames
  <1>6. Knows(h, TRUE)'
    <2>1. KnowsOwn(h, TRUE)
      BY <1>4, <1>5 DEF KnowsOwn
    <2>2. KnowsEntry(h)
      BY <1>2, <1>3, <1>4 DEF Knows, KnowsEntry
    <2>3. Knows(h, TRUE)
      BY <1>4, <2>1, <2>2 DEF Knows
    <2> QED
      BY <2>3, <1>2, <1>4, SameCopies
  <1>7. OthersKnown(t)
    BY <1>2, OthersUntouched DEF IInv
  <1>8. \A x \in Frames : Calls(x, f) => Calls(x, h)
    BY <1>2, <1>4 DEF Calls, AsksParent, TellsChild
  <1>9. /\ StackShape' /\ Locks' /\ Exclusion' /\ FramesKnow'
        /\ Replaced(t, h) /\ Keeps(t, Depth(t) - 1)
    <2>1. /\ ~Entered(h) /\ ~Holds(f, TRUE)
      BY <1>2, <1>4 DEF Holds, Entered
    <2> QED
      BY <1>2, <1>3, <1>4, <1>5, <1>6, <1>7, <1>8, <2>1, StepReplaced DEF IInv
  <1>10. stack'[t] # << >> /\ stack' \in [L1s -> Seq(Frames)]
    BY <1>2, <1>9, StillBusy DEF IInv
  <1>11. Types'
    BY <1>2, <1>3, <1>10 DEF IInv, Types
  <1>12. Copies' /\ WrittenKept' /\ FilterKnows'
    BY <1>2, <1>3, <1>9, <1>10, QuietStep
  <1> QED
    BY <1>2, <1>9, <1>11, <1>12 DEF IInv

(* What the race check makes of a request, given what its call knows of    *)
(* the child.                                                              *)
LEMMA RacesAreLegal ==
    ASSUME NEW f \in Frames, NEW now \in MESI, f.pc \in {"start", "bcc"}, f.type \in Gets \cup Puts,
           KnowsChild(f, now), NEW r, r = CheckForMESIRace(f.type, now, f.initial)
    PROVE  /\ r.legal /\ r.skip \in BOOLEAN /\ r.type \in Gets \cup Puts
           /\ f.type \in Gets => r.type = f.type
           /\ f.type \in Puts => r.type \in Puts
           /\ r.skip => f.type \in Puts /\ now = "I"
           /\ ~r.skip => /\ r.type = "GETS" => now = "I"
                         /\ r.type = "GETX" => now \in {"I", "S"}
                         /\ r.type = "PUTS" => now \in {"E", "S"}
                         /\ r.type = "PUTX" => now = "M"
  <1>1. CASE f.type = "GETS"
    BY <1>1 DEF KnowsChild, CheckForMESIRace, Gets, Puts
  <1>2. CASE f.type = "GETX"
    BY <1>2 DEF KnowsChild, CheckForMESIRace, Gets, Puts
  <1>3. CASE f.type = "PUTS"
    BY <1>3 DEF KnowsChild, CheckForMESIRace, Gets, Puts
  <1>4. CASE f.type = "PUTX"
    BY <1>4 DEF KnowsChild, CheckForMESIRace, Gets, Puts
  <1> QED
    BY <1>1, <1>2, <1>3, <1>4 DEF Gets, Puts

(* An access takes the bottom lock: from here on it knows its child's      *)
(* copy, for a race with an invalidation has been seen.                    *)
LEMMA LockBccStep ==
    ASSUME IInv, NEW t \in L1s, LockBcc(t)
    PROVE  IInv'
  <1>1. PICK f : f = Last(stack[t])
    OBVIOUS
  <1>2. PICK r : r = IF f.child = Core THEN [type |-> f.type, skip |-> FALSE, legal |-> TRUE]
                     ELSE CheckForMESIRace(f.type, state[f.child][f.l], f.initial)
    BY Zenon
  <1>3. /\ Busy(t) /\ (f.pc = "bcc" \/ (f.pc = "start" /\ f.op = "access" /\ f.c \in L1s))
        /\ f.c \notin bcc /\ bcc' = bcc \cup {f.c}
        /\ ok' = (ok /\ r.legal /\ (r.skip \/ f.l \in tags[f.c] \/ r.type \in {"GETS", "GETX"}))
        /\ UNCHANGED <<state, tags, dir, tcc, filter, filterLock, left, dirty>>
    BY <1>1, <1>2, ZenonT(60) DEF LockBcc, At, Expect
  <1>4. \/ r.skip /\ Goto(t, [f EXCEPT !.pc = "end", !.type = r.type])
        \/ ~r.skip /\ f.l \in tags[f.c] /\ Goto(t, [f EXCEPT !.pc = "access", !.type = r.type])
        \/ /\ ~r.skip /\ f.l \notin tags[f.c]
           /\ \E v \in (IF Cardinality(tags[f.c]) < Ways[f.c] THEN {NoLine} ELSE tags[f.c]) :
                  Goto(t, [f EXCEPT !.pc = "evict", !.type = r.type, !.victim = v])
    BY <1>1, <1>2, Zenon DEF LockBcc
  <1>5. /\ f = Top(t) /\ f \in Frames /\ FrameShape(f) /\ Knows(f, TRUE) /\ f.c \in Caches
        /\ f.l \in Lines /\ f.child \in Caches \cup {Core} /\ f.op \in {"access", "inval"}
        /\ f.victim \in Lines \cup {NoLine}
    BY <1>1, <1>3, TopKnows DEF IInv
  <1>6. f.op = "access" /\ AccessShape(f) /\ f.wb = FALSE
    BY <1>3, <1>5 DEF FrameShape, Frames
  <1>7. f.child # Core =>
            /\ KnowsChild(f, state[f.child][f.l]) /\ state[f.child][f.l] \in MESI
            /\ f.child \in Caches /\ Parent[f.child][f.l] = f.c /\ f.c \in Inner /\ f.c # Mem
    BY <1>1, <1>3, <1>5, <1>6, ChildKnows, StateType DEF IInv
  <1>8. /\ r.legal /\ r.skip \in BOOLEAN /\ r.type \in Gets \cup Puts
        /\ f.type \in Gets => r.type = f.type
        /\ f.type \in Puts => r.type \in Puts
        /\ r.skip => f.type \in Puts /\ f.child # Core /\ state[f.child][f.l] = "I"
        /\ ~r.skip /\ f.child # Core =>
              LET now == state[f.child][f.l]
              IN  /\ r.type = "GETS" => now = "I"
                  /\ r.type = "GETX" => now \in {"I", "S"}
                  /\ r.type = "PUTS" => now \in {"E", "S"}
                  /\ r.type = "PUTX" => now = "M"
    <2>1. CASE f.child = Core
      BY <2>1, <1>2, <1>5, <1>6, TreeFacts DEF AccessShape, Gets, Puts, Caches
    <2>2. CASE f.child # Core
      <3>1. PICK now : now = state[f.child][f.l]
        BY Zenon
      <3>2. /\ f \in Frames /\ now \in MESI /\ KnowsChild(f, now)
            /\ r = CheckForMESIRace(f.type, now, f.initial)
        BY <1>2, <1>5, <1>7, <2>2, <3>1, Zenon
      <3>3. f.pc \in {"start", "bcc"} /\ f.type \in Gets \cup Puts
        BY <1>3, <1>6 DEF AccessShape
      <3>4. /\ r.legal /\ r.skip \in BOOLEAN /\ r.type \in Gets \cup Puts
            /\ f.type \in Gets => r.type = f.type
            /\ f.type \in Puts => r.type \in Puts
            /\ r.skip => f.type \in Puts /\ now = "I"
            /\ ~r.skip => /\ r.type = "GETS" => now = "I"
                          /\ r.type = "GETX" => now \in {"I", "S"}
                          /\ r.type = "PUTS" => now \in {"E", "S"}
                          /\ r.type = "PUTX" => now = "M"
        BY <3>2, <3>3, RacesAreLegal
      <3> QED
        BY <2>2, <3>1, <3>4, Zenon
    <2> QED
      BY <2>1, <2>2, Zenon
  <1>9. r.skip \/ f.l \in tags[f.c] \/ r.type \in Gets
    <2> SUFFICES ASSUME ~r.skip, r.type \in Puts PROVE f.l \in tags[f.c]
      BY <1>8
    <2>1. f.child # Core
      BY <1>5, <1>6, <1>8, TreeFacts DEF AccessShape, Gets, Puts, Caches
    <2>2. state[f.child][f.l] # "I"
      BY <2>1, <1>8 DEF Puts
    <2> QED
      BY <2>1, <2>2, <1>5, <1>7 DEF IInv, Copies, Included, Tagged
  <1>10. ok' = TRUE
    BY <1>3, <1>8, <1>9 DEF IInv, Gets
  <1>11. PICK h \in Frames :
            /\ stack' = [stack EXCEPT ![t] = Append(Front(@), h)]
            /\ h.op = f.op /\ h.c = f.c /\ h.l = f.l /\ h.child = f.child /\ h.type = r.type /\ h.wb = FALSE
            /\ \/ h.pc = "end" /\ r.skip
               \/ h.pc = "access" /\ ~r.skip /\ f.l \in tags[f.c]
               \/ /\ h.pc = "evict" /\ ~r.skip /\ f.l \notin tags[f.c]
                  /\ h.victim = NoLine => Cardinality(tags[f.c]) < Ways[f.c]
                  /\ h.victim # NoLine => h.victim \in tags[f.c]
    <2>1. CASE r.skip /\ Goto(t, [f EXCEPT !.pc = "end", !.type = r.type])
      <3> DEFINE h == [f EXCEPT !.pc = "end", !.type = r.type]
      <3>1. /\ h \in Frames /\ h.op = f.op /\ h.c = f.c /\ h.l = f.l /\ h.child = f.child
            /\ h.type = r.type /\ h.wb = FALSE /\ h.pc = "end"
        BY <1>5, <1>6, <1>8, ZenonT(60) DEF Frames, Gets, Puts
      <3>2. stack' = [stack EXCEPT ![t] = Append(Front(@), h)]
        BY <2>1 DEF Goto
      <3> HIDE DEF h
      <3> QED
        BY <2>1, <3>1, <3>2
    <2>2. CASE ~r.skip /\ f.l \in tags[f.c] /\ Goto(t, [f EXCEPT !.pc = "access", !.type = r.type])
      <3> DEFINE h == [f EXCEPT !.pc = "access", !.type = r.type]
      <3>1. /\ h \in Frames /\ h.op = f.op /\ h.c = f.c /\ h.l = f.l /\ h.child = f.child
            /\ h.type = r.type /\ h.wb = FALSE /\ h.pc = "access"
        BY <1>5, <1>6, <1>8, ZenonT(60) DEF Frames, Gets, Puts
      <3>2. stack' = [stack EXCEPT ![t] = Append(Front(@), h)]
        BY <2>2 DEF Goto
      <3> HIDE DEF h
      <3> QED
        BY <2>2, <3>1, <3>2
    <2>3. CASE /\ ~r.skip /\ f.l \notin tags[f.c]
               /\ \E v \in (IF Cardinality(tags[f.c]) < Ways[f.c] THEN {NoLine} ELSE tags[f.c]) :
                      Goto(t, [f EXCEPT !.pc = "evict", !.type = r.type, !.victim = v])
      <3>1. PICK v \in (IF Cardinality(tags[f.c]) < Ways[f.c] THEN {NoLine} ELSE tags[f.c]) :
                Goto(t, [f EXCEPT !.pc = "evict", !.type = r.type, !.victim = v])
        BY <2>3, Zenon
      <3> DEFINE h == [f EXCEPT !.pc = "evict", !.type = r.type, !.victim = v]
      <3>2. v \in Lines \cup {NoLine} /\ (v = NoLine => Cardinality(tags[f.c]) < Ways[f.c])
            /\ (v # NoLine => v \in tags[f.c])
        <4>1. tags[f.c] \subseteq Lines /\ NoLine \notin Lines
          BY <1>5, TreeFacts, StateType DEF IInv
        <4>2. CASE Cardinality(tags[f.c]) < Ways[f.c]
          BY <4>1, <4>2
        <4>3. CASE ~(Cardinality(tags[f.c]) < Ways[f.c])
          BY <4>1, <4>3
        <4> QED
          BY <4>2, <4>3
      <3>3. /\ h \in Frames /\ h.op = f.op /\ h.c = f.c /\ h.l = f.l /\ h.child = f.child
            /\ h.type = r.type /\ h.wb = FALSE /\ h.pc = "evict" /\ h.victim = v
        BY <1>5, <1>6, <1>8, <3>2, ZenonT(60) DEF Frames, Gets, Puts
      <3>4. stack' = [stack EXCEPT ![t] = Append(Front(@), h)]
        BY <3>1 DEF Goto
      <3> HIDE DEF h
      <3> QED
        BY <2>3, <3>2, <3>3, <3>4
    <2> QED
      BY <1>4, <2>1, <2>2, <2>3, Zenon
  <1>12. FrameShape(h)
    <2>1. h.pc = "evict" => h.type \in Gets
      BY <1>9, <1>11
    <2>2. h.c \in L1s => h.type \in Gets
      BY <1>6, <1>8, <1>11 DEF AccessShape
    <2> QED
      BY <2>1, <2>2, <1>6, <1>8, <1>11 DEF FrameShape, AccessShape
  <1>13. \A x \in Frames : Calls(x, f) => Calls(x, h)
    <2> SUFFICES ASSUME NEW x \in Frames, AsksParent(x, f) PROVE AsksParent(x, h)
      BY <1>6 DEF Calls, TellsChild
    <2> QED
      BY <1>6, <1>8, <1>11 DEF AsksParent, AccessShape
  <1>14. Knows(h, TRUE)
    <2>1. KnowsOwn(h, TRUE)
      <3>1. h.pc = "end" => h.child # Core
        BY <1>8, <1>11
      <3> QED
        BY <1>11, <3>1 DEF KnowsOwn
    <2>2. h.child # Core => KnowsChild(h, state[h.child][h.l])
      <3>1. h.pc = "end" => h.type \in Puts /\ h.type \notin Gets /\ state[h.child][h.l] = "I"
        BY <1>8, <1>11 DEF Gets, Puts
      <3> QED
        BY <1>8, <1>11, <3>1 DEF KnowsChild
    <2> QED
      BY <2>1, <2>2, <1>6, <1>11 DEF Knows
  <1>15. Knows(h, TRUE)'
    BY <1>3, <1>14, SameCopies
  <1>16. OthersKnown(t)
    BY <1>3, OthersUntouched DEF IInv
  <1>17. /\ StackShape' /\ Locks' /\ Exclusion' /\ FramesKnow'
         /\ Replaced(t, h) /\ Keeps(t, Depth(t) - 1)
    <2>1. /\ ~Holds(f, TRUE) /\ (h.c \in Inner => Entered(f) /\ f.c \in tcc) /\ h.pc # "fill"
      <3>1. ~Holds(f, TRUE)
        BY <1>3 DEF Holds
      <3>2. h.c \in Inner => Entered(f)
        BY <1>3, <1>6, <1>11, TreeFacts DEF Entered
      <3>3. Entered(f) /\ f.c \in Inner => f.c \in tcc
        <4>1. Depth(t) \in 1..Len(stack[t]) /\ f = stack[t][Depth(t)]
          BY <1>3, <1>5, TopShape DEF IInv, Depth
        <4> QED
          BY <4>1 DEF IInv, Locks
      <3> QED
        BY <3>1, <3>2, <3>3, <1>11
    <2> QED
      BY <1>3, <1>5, <1>11, <1>12, <1>13, <1>15, <1>16, <2>1, StepReplaced DEF IInv
  <1>18. stack'[t] # << >> /\ stack' \in [L1s -> Seq(Frames)]
    BY <1>3, <1>17, StillBusy DEF IInv
  <1>19. Types'
    BY <1>3, <1>5, <1>18 DEF IInv, Types
  <1>20. Copies' /\ WrittenKept' /\ FilterKnows'
    BY <1>3, <1>5, <1>17, <1>18, QuietStep
  <1> QED
    BY <1>10, <1>17, <1>19, <1>20 DEF IInv
-----------------------------------------------------------------------------
(* Each step keeps the invariant: calls sent down and accesses that return *)

(* The least element of a set of numbers is one of them.                   *)
LEMMA MinIsMember ==
    ASSUME NEW S \in SUBSET Nat, S # {}
    PROVE  Min(S) \in S
  <1>1. PICK R : /\ IsWellFoundedOn(R, Nat)
                 /\ \A x, y \in Nat : y < x => <<y, x>> \in R
    <2>1. IsWellFoundedOn(OpToRel(<, Nat), Nat)
      BY NatLessThanWellFounded, Zenon
    <2>2. \A x, y \in Nat : y < x => <<y, x>> \in OpToRel(<, Nat)
      BY DEF OpToRel
    <2> QED
      BY <2>1, <2>2, Zenon
  <1>2. \E x \in S : \A y \in S : ~ (<<y, x>> \in R)
    BY <1>1, WFMin, Zenon
  <1>3. PICK m \in S : \A y \in S : ~ (<<y, m>> \in R)
    BY <1>2
  <1>4. \A y \in S : ~ (y < m)
    BY <1>1, <1>3
  <1>5. \A y \in S : m <= y
    BY <1>4
  <1> QED
    BY <1>5 DEF Min

(* The children an eviction, a grant or an invalidation still has to reach. *)
LEMMA TargetsAre ==
    ASSUME Types, NEW f \in Frames, f.pc \in {"evict", "grant", "inval"}, FrameShape(f)
    PROVE  /\ InvLine(f) \in Lines \cup {NoLine} /\ InvType(f) \in {"INV", "INVX"}
           /\ Targets(f) # {} =>
                 /\ f.c \in Inner /\ InvLine(f) \in Lines
                 /\ Targets(f) = dir[f.c][InvLine(f)].sharers
                 /\ InvType(f) = "INVX" => dir[f.c][InvLine(f)].exclusive
           /\ Targets(f) = {} /\ f.c \in Inner /\ InvLine(f) # NoLine =>
                 \/ dir[f.c][InvLine(f)].sharers = {}
                 \/ InvType(f) = "INVX" /\ ~IsExclusive(dir[f.c][InvLine(f)])
  <1>1. f.l \in Lines /\ f.victim \in Lines \cup {NoLine} /\ f.c \in Caches
    BY DEF Frames
  <1>2. f.pc = "inval" => f.type \in {"INV", "INVX"}
    BY DEF FrameShape, AccessShape, Frames
  <1>3. InvLine(f) \in Lines \cup {NoLine}
    BY <1>1 DEF InvLine
  <1>4. InvType(f) \in {"INV", "INVX"}
    BY <1>2 DEF InvType
  <1>5. f.c \in L1s \/ f.c \in Inner
    BY <1>1 DEF Caches
  <1>6. f.c \in Inner => f.c \notin L1s
    BY TreeFacts
  <1> QED
    BY <1>3, <1>4, <1>5, <1>6 DEF Targets, IsExclusive

(* A child that the directory lists is told to invalidate.                 *)
LEMMA SendInvalidateStep ==
    ASSUME IInv, NEW t \in L1s, SendInvalidate(t)
    PROVE  IInv'
  <1>1. PICK f : f = Last(stack[t])
    OBVIOUS
  <1>1a. PICK k : k = Min(Targets(f))
    OBVIOUS
  <1>1b. PICK l : l = InvLine(f)
    OBVIOUS
  <1>1c. PICK y : y = InvType(f)
    OBVIOUS
  <1> DEFINE h == Frame("inval", k, l, y, Core, "I")
  <1>2. /\ Busy(t) /\ f.pc \in {"evict", "grant", "inval"} /\ Targets(f) # {}
        /\ stack' = [stack EXCEPT ![t] = Append(@, h)]
        /\ UNCHANGED <<state, tags, dir, bcc, tcc, filter, filterLock, left, dirty, ok>>
    BY <1>1, <1>1a, <1>1b, <1>1c DEF SendInvalidate, At
  <1>3. /\ f = Top(t) /\ f \in Frames /\ FrameShape(f) /\ Knows(f, TRUE) /\ f.c \in Caches
        /\ f.op \in {"access", "inval"}
    BY <1>1, <1>2, TopKnows DEF IInv
  <1>4. /\ f.c \in Inner /\ l \in Lines /\ y \in {"INV", "INVX"} /\ Targets(f) = dir[f.c][l].sharers
        /\ y = "INVX" => dir[f.c][l].exclusive
    BY <1>1b, <1>1c, <1>2, <1>3, TargetsAre DEF IInv
  <1>5. k \in Targets(f)
    <2>1. dir[f.c][l].sharers \in SUBSET Caches /\ Caches \subseteq Nat
      BY <1>4, StateType, TreeFacts DEF IInv
    <2>2. Targets(f) \in SUBSET Nat
      BY <1>4, <2>1
    <2> QED
      BY <1>1a, <1>2, <2>2, MinIsMember
  <1>6. k \in Caches /\ Parent[k][l] = f.c
    BY <1>4, <1>5 DEF IInv, Copies, SharersHave, Kids
  <1>7. /\ h \in Frames /\ h.op = "inval" /\ h.c = k /\ h.l = l /\ h.type = y /\ h.pc = "start"
        /\ h.wb = FALSE /\ h.child = Core
    BY <1>4, <1>6 DEF Frame, Frames, MESI
  <1> HIDE DEF h
  <1>8. FrameShape(h)
    BY <1>4, <1>7 DEF FrameShape
  <1>9. Calls(f, h)
    BY <1>1b, <1>1c, <1>2, <1>4, <1>6, <1>7 DEF Calls, TellsChild
  <1>10. Knows(h, TRUE)'
    <2>1. Knows(h, TRUE)
      <3>1. KnowsOwn(h, TRUE)
        BY <1>7, StartKnows
      <3>2. KnowsEntry(h)
        BY <1>4, <1>5, <1>6, <1>7 DEF KnowsEntry
      <3> QED
        BY <1>7, <3>1, <3>2 DEF Knows
    <2> QED
      BY <2>1, <1>2, <1>7, SameCopies
  <1>11. Knows(f, FALSE)'
    <2>1. Knows(f, FALSE)
      BY <1>2, <1>3 DEF Knows, KnowsOwn
    <2> QED
      BY <2>1, <1>2, <1>3, SameCopies
  <1>12. Pushed(t, f, h)
    BY <1>2, <1>3, <1>7, TopAdded DEF IInv
  <1>13. StackShape' /\ Locks' /\ Exclusion' /\ FramesKnow' /\ Keeps(t, Depth(t) - 1)
    <2>1. OthersKnown(t)
      BY <1>2, OthersUntouched DEF IInv
    <2>2. Holds(f, TRUE) /\ f.pc # "fill" /\ (Entered(f) => Entered(f))
      BY <1>2 DEF Holds
    <2>3. /\ tcc' = tcc /\ filterLock' = filterLock
          /\ \A c \in bcc : c \in bcc' \/ (c = f.c /\ ~Holds(f, FALSE))
      BY <1>2
    <2>4. Types /\ StackShape /\ Locks /\ Exclusion /\ FramesKnow /\ Busy(t)
      BY <1>2 DEF IInv
    <2> QED
      BY <1>3, <1>7, <1>8, <1>9, <1>10, <1>11, <1>12, <2>1, <2>2, <2>3, <2>4, StepPushed
  <1>14. stack'[t] # << >> /\ stack' \in [L1s -> Seq(Frames)]
    BY <1>2, <1>12, StillBusy DEF IInv
  <1>15. Types'
    BY <1>2, <1>14 DEF IInv, Types
  <1>16. /\ \A i \in ((Depth(t) - 1) + 1)..Depth(t) : i \in 1..Len(stack'[t]) /\ stack'[t][i] = stack[t][i]
         /\ Depth(t) \in 1..Len(stack'[t]) /\ stack'[t][Depth(t)] = f
    BY <1>2, <1>3, <1>12, TopIs DEF IInv, Pushed, Top, Depth
  <1>17. Copies'
    <2>1. \A j, c, m : Upgrades(j, c, m) => Upgrades(j, c, m)'
      BY <1>13, <1>16, GrantsStay DEF IInv
    <2> QED
      BY <1>2, <2>1, CopiesStay DEF IInv
  <1>18. WrittenKept'
    <2>1. \A m : Carries(f, m) => Written(m)'
      BY <1>16 DEF Written, Carries, InvLine
    <2>2. \A c \in Caches : \A m \in dirty' : state[c][m] = "M" => Written(m)'
      BY <1>2 DEF Written
    <2> QED
      BY <1>2, <1>3, <1>13, <2>1, <2>2, WrittenStep DEF IInv
  <1>19. FilterKnows'
    BY <1>2, <1>13, <1>14, FilterStays DEF IInv, Keeps
  <1> QED
    BY <1>2, <1>13, <1>15, <1>17, <1>18, <1>19 DEF IInv

(* An access gives its locks back, and its caller, or the filter, goes on  *)
(* with the line.                                                          *)
LEMMA EndAccessStep ==
    ASSUME IInv, NEW t \in L1s, EndAccess(t)
    PROVE  IInv'
  <1>1. PICK f : f = Last(stack[t])
    OBVIOUS
  <1>2. /\ Busy(t) /\ f.pc = "end"
        /\ tcc' = tcc \ {f.c}
        /\ UNCHANGED <<state, tags, dir, filter, left, dirty, ok>>
    BY <1>1 DEF EndAccess, At
  <1>3. /\ f = Top(t) /\ f \in Frames /\ FrameShape(f) /\ Knows(f, TRUE) /\ f.c \in Caches
        /\ f.op \in {"access", "inval"} /\ f.child \in Caches \cup {Core}
        /\ f.op = "access" /\ f.c \in L1s => f.c = t /\ Depth(t) = 1
        /\ Depth(t) = 1 => f.child = Core
    BY <1>1, <1>2, TopKnows DEF IInv
  <1>4. f.op = "access" /\ AccessShape(f) /\ Holds(f, TRUE) /\ Entered(f)
    BY <1>2, <1>3 DEF FrameShape, Holds, Entered
  <1>5. OthersKnown(t)
    BY <1>2, OthersUntouched DEF IInv
  <1>6. CASE f.child = Core
    <2> DEFINE h == [f EXCEPT !.pc = "fill"]
    <2>1. /\ t \notin filterLock /\ filterLock' = filterLock \cup {t} /\ bcc' = bcc \ {f.c}
          /\ stack' = [stack EXCEPT ![t] = Append(Front(@), h)]
      BY <1>1, <1>6 DEF EndAccess, Goto
    <2>2. /\ h \in Frames /\ h.pc = "fill" /\ h.op = "access" /\ h.c = f.c /\ h.l = f.l /\ h.child = f.child
          /\ h.type = f.type /\ h.wb = f.wb
      BY <1>3, <1>4 DEF Frames
    <2> HIDE DEF h
    <2>3. f.c \in L1s /\ f.c \notin Inner
      BY <1>3, <1>4, <1>6, TreeFacts DEF AccessShape
    <2>4. FrameShape(h)
      BY <1>2, <1>4, <2>2, <2>3 DEF FrameShape, AccessShape
    <2>5. Knows(h, TRUE)'
      <3>1. Knows(h, TRUE)
        BY <1>2, <1>3, <1>4, <1>6, <2>2 DEF Knows, KnowsOwn
      <3> QED
        BY <3>1, <1>2, <2>2, SameCopies
    <2>6. \A x \in Frames : Calls(x, f) => Calls(x, h)
      BY <1>4, <2>2 DEF Calls, AsksParent, TellsChild
    <2>7. /\ StackShape' /\ Locks' /\ Exclusion' /\ FramesKnow'
          /\ Replaced(t, h) /\ Keeps(t, Depth(t) - 1)
      <3>1. ~Holds(h, TRUE)
        BY <2>2 DEF Holds
      <3> QED
        BY <1>2, <1>3, <1>4, <1>5, <2>1, <2>2, <2>3, <2>4, <2>5, <2>6, <3>1, StepReplaced DEF IInv
    <2>8. stack'[t] # << >> /\ stack' \in [L1s -> Seq(Frames)]
      BY <1>2, <2>7, StillBusy DEF IInv
    <2>9. Types'
      BY <1>2, <2>1, <2>8 DEF IInv, Types
    <2>10. Copies' /\ WrittenKept' /\ FilterKnows'
      BY <1>2, <1>3, <2>7, <2>8, QuietStep
    <2> QED
      BY <1>2, <2>7, <2>9, <2>10 DEF IInv
  <1>7. CASE f.child # Core
    <2>1. /\ f.child \notin bcc /\ bcc' = (bcc \ {f.c}) \cup {f.child}
          /\ stack' = [stack EXCEPT ![t] = Front(@)] /\ filterLock' = filterLock
      BY <1>1, <1>7 DEF EndAccess
    <2>2. PICK g \in Frames :
              /\ Depth(t) > 1 /\ Depth(t) - 1 \in 1..Depth(t) /\ g = stack[t][Depth(t) - 1]
              /\ FrameShape(g) /\ AsksParent(g, f) /\ Entered(g) /\ Knows(g, FALSE)
              /\ f.child \in Caches /\ g.c = f.child /\ g.op = "access" /\ f.child # f.c
              /\ KnowsChild(f, state[f.child][f.l])
      BY <1>1, <1>2, <1>4, <1>7, ChildKnows, ZenonT(60) DEF IInv
    <2>3. Popped(t)
      BY <1>2, <2>1, TopPopped DEF IInv
    <2>4. Depth(t) \in Nat \ {0}
      BY <1>2, TopIs DEF IInv
    <2>5. PoppedTo(t, g)
      <3>1. Depth(t) - 1 \in 1..(Depth(t) - 1) /\ \A i \in 1..(Depth(t) - 2) : i \in 1..(Depth(t) - 1)
        BY <2>2, <2>4
      <3> QED
        BY <2>2, <2>3, <3>1 DEF Popped, PoppedTo
    <2>6. Knows(g, TRUE)
      <3>1. KnowsOwn(g, TRUE)
        <4>1. CASE g.pc = "insert"
          <5>1. f.l = g.victim /\ state[g.c][g.victim] = "I"
            BY <1>2, <2>2, <4>1 DEF AsksParent, KnowsChild, Gets, Puts
          <5> QED
            BY <2>2, <4>1, <5>1 DEF Knows, KnowsOwn
        <4>2. CASE g.pc = "top"
          <5>1. g.type \in Gets /\ Granted(g.type, state[g.c][g.l]) /\ g.type # "PUTX"
            BY <1>2, <2>2, <4>2 DEF AsksParent, KnowsChild, Gets, Puts
          <5> QED
            BY <2>2, <4>2, <5>1 DEF Knows, KnowsOwn
        <4> QED
          BY <2>2, <4>1, <4>2 DEF AsksParent
      <3> QED
        BY <2>2, <3>1 DEF Knows
    <2>7. Knows(g, TRUE)'
      BY <1>2, <2>2, <2>6, SameCopies
    <2>8. \A u \in L1s : \A i \in 1..Depth(u) : \A x \in Frames, b \in BOOLEAN :
               /\ x = stack[u][i] /\ (b <=> u # t /\ i = Depth(u))
               /\ u # t \/ i \notin {Depth(t), Depth(t) - 1}
               => Knows(x, b)'
      BY <1>5 DEF OthersKnown
    <2>9. StackShape' /\ Locks' /\ Exclusion' /\ FramesKnow' /\ Keeps(t, Depth(t) - 2)
      <3>1. g.pc # "fill" /\ g.pc # "grant"
        BY <2>2 DEF AsksParent
      <3>2. \A c \in bcc : c \in bcc' \/ (c = f.c /\ Holds(f, TRUE))
        BY <1>4, <2>1
      <3>3. \A c \in tcc : c \in tcc' \/ (c = f.c /\ Entered(f))
        BY <1>2, <1>4
      <3> QED
        BY <1>2, <1>3, <2>1, <2>2, <2>5, <2>7, <2>8, <3>1, <3>2, <3>3, StepDropped DEF IInv
    <2>10. stack'[t] # << >> /\ stack' \in [L1s -> Seq(Frames)]
      <3>1. Len(stack'[t]) # 0
        BY <2>2, <2>3, <2>4 DEF Popped
      <3>2. stack'[t] = << >> => Len(stack'[t]) = 0
        OBVIOUS
      <3> QED
        BY <2>3, <3>1, <3>2 DEF Popped, OnlyOf
    <2>11. Types'
      BY <1>2, <1>3, <2>1, <2>2, <2>10 DEF IInv, Types
    <2>12. Keeps(t, Depth(t) - 1)
      BY <1>2, <2>3, StepKeeps DEF IInv
    <2>13. Copies' /\ WrittenKept' /\ FilterKnows'
      BY <1>2, <1>3, <2>10, <2>12, QuietStep
    <2> QED
      BY <1>2, <2>9, <2>11, <2>13 DEF IInv
  <1> QED
    BY <1>6, <1>7
-----------------------------------------------------------------------------
(* Each step keeps the invariant: a line makes room for another *)

(* A function of two arguments changed at one place. *)
LEMMA OneCell ==
    ASSUME NEW A, NEW B, NEW E, NEW F \in [A -> [B -> E]], NEW a \in A, NEW b \in B, NEW x \in E,
           NEW G, G = [F EXCEPT ![a][b] = x]
    PROVE  /\ G \in [A -> [B -> E]] /\ G[a][b] = x
           /\ \A c \in A, d \in B : c # a \/ d # b => G[c][d] = F[c][d]
           /\ \A c \in A : c # a => G[c] = F[c]
  OBVIOUS

(* The new line takes over the slot of a victim that no child has any      *)
(* more.                                                                   *)
LEMMA InsertStep ==
    ASSUME IInv, NEW t \in L1s, Insert(t)
    PROVE  IInv'
  <1>1. PICK f : f = Last(stack[t])
    OBVIOUS
  <1>2. PICK v : v = f.victim
    OBVIOUS
  <1> DEFINE h == [f EXCEPT !.pc = "access", !.victim = NoLine]
  <1>3. /\ Busy(t) /\ f.pc = "insert"
        /\ ok' = (ok /\ (v # NoLine => state[f.c][v] = "I"))
        /\ tags' = [tags EXCEPT ![f.c] = (@ \ {v}) \cup {f.l}]
        /\ dir' = IF f.c \in L1s \/ v = NoLine THEN dir
                  ELSE [dir EXCEPT ![f.c][f.l] = dir[f.c][v], ![f.c][v] = NoEntry]
        /\ stack' = [stack EXCEPT ![t] = Append(Front(@), h)]
        /\ UNCHANGED <<state, bcc, tcc, filter, filterLock, left, dirty>>
    BY <1>1, <1>2 DEF Insert, At, Goto, Expect, TagsAfterInsert
  <1>4. /\ f = Top(t) /\ f \in Frames /\ FrameShape(f) /\ Knows(f, TRUE) /\ f.c \in Caches /\ f.l \in Lines
        /\ f.op \in {"access", "inval"} /\ f.child \in Caches \cup {Core} /\ v \in Lines \cup {NoLine}
    BY <1>1, <1>2, <1>3, TopKnows DEF IInv
  <1>5. /\ f.op = "access" /\ AccessShape(f) /\ f.type \in Gets /\ f.wb = FALSE /\ Holds(f, TRUE)
        /\ (f.c \in L1s \/ f.c \in Inner) /\ (f.c \in Inner => f.c \notin L1s)
    BY <1>3, <1>4, TreeFacts DEF FrameShape, AccessShape, Holds, Frames, Caches
  <1>6. /\ f.l \notin tags[f.c]
        /\ v = NoLine => Cardinality(tags[f.c]) < Ways[f.c]
        /\ v # NoLine => v \in tags[f.c] /\ Kids(f.c, v) = {} /\ state[f.c][v] = "I" /\ v \in Lines /\ v # f.l
    BY <1>2, <1>3, <1>4 DEF Knows, KnowsOwn
  <1>7. /\ h \in Frames /\ h.pc = "access" /\ h.op = f.op /\ h.c = f.c /\ h.l = f.l /\ h.child = f.child
        /\ h.type = f.type /\ h.wb = FALSE /\ h.victim = NoLine
    BY <1>4, <1>5 DEF Frames
  <1> HIDE DEF h
  <1>8. FrameShape(h)
    BY <1>3, <1>5, <1>7 DEF FrameShape, AccessShape
  <1>9a. ASSUME f.c \in Inner, v # NoLine
         PROVE  /\ dir' \in [Inner -> [Lines -> [sharers : SUBSET Caches, exclusive : BOOLEAN]]]
                /\ \A c \in Inner, l \in Lines : c # f.c \/ (l # f.l /\ l # v) => dir'[c][l] = dir[c][l]
                /\ dir'[f.c][f.l] = dir[f.c][v] /\ dir'[f.c][v] = NoEntry
    <2> DEFINE Entries == [sharers : SUBSET Caches, exclusive : BOOLEAN]
               D == [dir EXCEPT ![f.c][f.l] = dir[f.c][v]]
               DD == [D EXCEPT ![f.c][v] = NoEntry]
    <2>1. dir \in [Inner -> [Lines -> Entries]] /\ NoEntry \in Entries
      BY DEF IInv, Types, NoEntry
    <2>2. dir' = DD
      BY <1>3, <1>5, <1>9a
    <2>3. dir[f.c][v] \in Entries
      BY <2>1, <1>6, <1>9a
    <2> HIDE DEF Entries
    <2>4. /\ D \in [Inner -> [Lines -> Entries]] /\ D[f.c][f.l] = dir[f.c][v]
          /\ \A c \in Inner, l \in Lines : c # f.c \/ l # f.l => D[c][l] = dir[c][l]
      BY <2>1, <2>3, <1>4, <1>9a, OneCell
    <2> HIDE DEF D
    <2>5. /\ DD \in [Inner -> [Lines -> Entries]] /\ DD[f.c][v] = NoEntry
          /\ \A c \in Inner, l \in Lines : c # f.c \/ l # v => DD[c][l] = D[c][l]
      BY <2>1, <2>4, <1>6, <1>9a, OneCell
    <2> HIDE DEF DD
    <2>6. \A c \in Inner, l \in Lines : c # f.c \/ (l # f.l /\ l # v) => dir'[c][l] = dir[c][l]
      BY <2>2, <2>4, <2>5
    <2>7. dir'[f.c][f.l] = dir[f.c][v]
      BY <2>2, <2>4, <2>5, <1>4, <1>6, <1>9a
    <2> QED
      BY <2>2, <2>5, <2>6, <2>7 DEF Entries
  <1>9. /\ tags'[f.c] = (tags[f.c] \ {v}) \cup {f.l} /\ \A c \in Caches : c # f.c => tags'[c] = tags[c]
        /\ \A c \in Inner, l \in Lines : c # f.c \/ (l # f.l /\ l # v) => dir'[c][l] = dir[c][l]
        /\ f.c \in Inner /\ v # NoLine => dir'[f.c][f.l] = dir[f.c][v] /\ dir'[f.c][v] = NoEntry
        /\ f.c \in L1s \/ v = NoLine => dir' = dir
    <2>1. tags \in [Caches -> SUBSET Lines]
      BY DEF IInv, Types
    <2>2. tags'[f.c] = (tags[f.c] \ {v}) \cup {f.l} /\ \A c \in Caches : c # f.c => tags'[c] = tags[c]
      BY <1>3, <1>4, <2>1
    <2>3. CASE f.c \in L1s \/ v = NoLine
      BY <2>2, <2>3, <1>3, <1>5
    <2>4. CASE f.c \in Inner /\ v # NoLine
      BY <2>2, <2>4, <1>5, <1>9a
    <2> QED
      BY <2>3, <2>4, <1>5
  <1>10. OthersKnown(t)
    <2>1. ChangesOnlyAt(f)
      BY <1>3, <1>9 DEF ChangesOnlyAt
    <2> QED
      BY <1>3, <1>4, <1>5, <2>1, OthersOfAccess DEF IInv
  <1>11. Knows(h, TRUE)'
    <2>1. KnowsOwn(h, TRUE)'
      BY <1>7, <1>9 DEF KnowsOwn
    <2>2. h.child # Core => KnowsChild(h, state[h.child][h.l])'
      BY <1>3, <1>4, <1>5, <1>7 DEF Knows, KnowsChild
    <2> QED
      BY <1>5, <1>7, <2>1, <2>2 DEF Knows
  <1>12. /\ StackShape' /\ Locks' /\ Exclusion' /\ FramesKnow'
         /\ Replaced(t, h) /\ Keeps(t, Depth(t) - 1)
    BY <1>3, <1>4, <1>5, <1>7, <1>8, <1>10, <1>11, StepHolding DEF IInv
  <1>13. stack'[t] # << >> /\ stack' \in [L1s -> Seq(Frames)]
    BY <1>3, <1>12, StillBusy DEF IInv
  <1>14. Types'
    <2>1. tags' \in [Caches -> SUBSET Lines]
      BY <1>3, <1>4 DEF IInv, Types
    <2>2. IsFiniteSet(tags'[f.c]) /\ Cardinality(tags'[f.c]) <= Ways[f.c]
      <3>1. /\ IsFiniteSet(tags[f.c]) /\ Cardinality(tags[f.c]) <= Ways[f.c] /\ Ways[f.c] \in Nat
            /\ Cardinality(tags[f.c]) \in Nat
        BY <1>4, TreeFacts, FS_CardinalityType DEF IInv, Types
      <3> DEFINE T == tags[f.c] \ {v}
      <3>2. IsFiniteSet(T) /\ Cardinality(T) = IF v \in tags[f.c] THEN Cardinality(tags[f.c]) - 1
                                                                 ELSE Cardinality(tags[f.c])
        BY <3>1, FS_RemoveElement
      <3>3. Cardinality(T) < Ways[f.c] /\ f.l \notin T /\ Cardinality(T) \in Nat
        BY <1>6, <3>1, <3>2, FS_CardinalityType
      <3> HIDE DEF T
      <3>4. IsFiniteSet(T \cup {f.l}) /\ Cardinality(T \cup {f.l}) = Cardinality(T) + 1
        BY <3>2, <3>3, FS_AddElement
      <3>5. tags'[f.c] = T \cup {f.l}
        BY <1>9 DEF T
      <3> QED
        BY <3>1, <3>3, <3>4, <3>5
    <2>3. \A c \in Caches : IsFiniteSet(tags'[c]) /\ Cardinality(tags'[c]) <= Ways[c]
      BY <2>2, <1>9 DEF IInv, Types
    <2>4. dir' \in [Inner -> [Lines -> [sharers : SUBSET Caches, exclusive : BOOLEAN]]]
      <3>1. CASE f.c \in L1s \/ v = NoLine
        BY <3>1, <1>9 DEF IInv, Types
      <3>2. CASE f.c \in Inner /\ v # NoLine
        BY <3>2, <1>9a
      <3> QED
        BY <3>1, <3>2, <1>5
    <2> QED
      BY <1>3, <1>13, <2>1, <2>3, <2>4 DEF IInv, Types
  <1>15. Copies'
    <2>1. \A k, c, l : Upgrades(k, c, l) => Upgrades(k, c, l)'
      BY <1>3, <1>4, <1>12, AllGrantsStay DEF IInv
    <2>2. \A c, l : Kids(c, l)' = Kids(c, l)
      BY <1>3 DEF Kids
    <2>3. Tagged'
      <3> SUFFICES ASSUME NEW c \in Caches, NEW l \in Lines, state[c][l] # "I" PROVE l \in tags'[c]
        BY <1>3 DEF Tagged
      <3>1. l \in tags[c] /\ (c = f.c => l # v)
        BY <1>6, TreeFacts DEF IInv, Copies, Tagged
      <3> QED
        BY <3>1, <1>9
    <2>4. Included' /\ Exclusive'
      BY <1>3, <2>2 DEF IInv, Copies, Included, Exclusive
    <2>5. Listed'
      <3> SUFFICES ASSUME NEW k \in Caches, NEW l \in Lines, state[k][l] # "I", Parent[k][l] # Mem
                   PROVE  LET e == dir'[Parent[k][l]][l]
                          IN  /\ k \in e.sharers \/ Upgrades(k, Parent[k][l], l)'
                              /\ state[k][l] \in Owned <=> e.exclusive
        BY <1>3 DEF Listed
      <3>1. k \in Kids(Parent[k][l], l) /\ Parent[k][l] \in Inner
        BY TreeFacts DEF Kids
      <3>2. /\ k \in dir[Parent[k][l]][l].sharers \/ Upgrades(k, Parent[k][l], l)
            /\ state[k][l] \in Owned <=> dir[Parent[k][l]][l].exclusive
            /\ l \in tags[Parent[k][l]]
        BY <3>1, KidsListed DEF IInv
      <3>3. Parent[k][l] = f.c => l # f.l /\ l # v
        BY <3>1, <3>2, <1>6, TreeFacts
      <3> QED
        BY <3>1, <3>2, <3>3, <2>1, <1>9
    <2>6. SharersHave'
      <3> SUFFICES ASSUME NEW c \in Inner, NEW l \in Lines PROVE dir'[c][l].sharers \subseteq Kids(c, l)
        BY <2>2 DEF SharersHave
      <3>1. CASE c # f.c \/ (l # f.l /\ l # v) \/ v = NoLine
        BY <3>1, <1>9 DEF IInv, Copies, SharersHave
      <3>2. CASE c = f.c /\ (l = f.l \/ l = v) /\ v # NoLine
        BY <3>2, <1>6, <1>9 DEF IInv, Copies, SharersHave, NoEntry
      <3> QED
        BY <3>1, <3>2
    <2> QED
      BY <2>3, <2>4, <2>5, <2>6 DEF Copies
  <1>16. WrittenKept'
    BY <1>3, <1>4, <1>12, WrittenStep DEF IInv, Carries, Written
  <1>17. FilterKnows'
    BY <1>3, <1>12, <1>13, FilterStays DEF IInv, Keeps
  <1> QED
    BY <1>3, <1>6, <1>12, <1>14, <1>15, <1>16, <1>17 DEF IInv

(* The children of a cache that has invalidated its line there are gone.   *)
LEMMA NoKidsLeft ==
    ASSUME IInv, NEW t \in L1s, Busy(t), NEW f, f = Last(stack[t]),
           f.pc \in {"evict", "grant", "inval"}, Targets(f) = {}, InvType(f) = "INV",
           InvLine(f) # NoLine
    PROVE  /\ f.c \in Inner => dir[f.c][InvLine(f)].sharers = {}
           /\ \A k \in Kids(f.c, InvLine(f)) : f.pc = "grant" /\ f.type = "GETX" /\ k = f.child
  <1>1. /\ f = Top(t) /\ f \in Frames /\ FrameShape(f) /\ f.c \in Caches
    BY TopKnows DEF IInv
  <1>2. /\ InvLine(f) \in Lines
        /\ f.c \in Inner => dir[f.c][InvLine(f)].sharers = {}
    BY <1>1, TargetsAre DEF IInv
  <1>3. Holds(f, TRUE)
    BY DEF Holds
  <1>4. ASSUME NEW k \in Kids(f.c, InvLine(f))
        PROVE  f.pc = "grant" /\ f.type = "GETX" /\ k = f.child
    <2>1. f.c \in Inner /\ (k \in dir[f.c][InvLine(f)].sharers \/ Upgrades(k, f.c, InvLine(f)))
      BY <1>1, <1>2, KidsListed, TreeFacts DEF IInv
    <2>2. Upgrades(k, f.c, InvLine(f))
      BY <2>1, <1>2
    <2> QED
      BY <2>2, <1>1, <1>3, OwnGrant DEF IInv
  <1> QED
    BY <1>2, <1>4

(* A change of the copy below memory. *)
LEMMA CopiesOfRoot ==
    ASSUME Types, Copies, tags' = tags, dir' = dir,
           NEW c \in Caches, NEW l \in Lines, Parent[c][l] = Mem,
           \A d \in Caches, m \in Lines : d # c \/ m # l => state'[d][m] = state[d][m],
           state'[c][l] # "I" => l \in tags[c],
           Kids(c, l) = {} \/ state'[c][l] \in Owned,
           \A k, d, m : Upgrades(k, d, m) => Upgrades(k, d, m)'
    PROVE  Copies'
  <1>1. \A d \in Inner, m \in Lines : Kids(d, m)' = Kids(d, m)
    <2> SUFFICES ASSUME NEW d \in Inner, NEW m \in Lines, NEW k \in Caches, Parent[k][m] = d
                 PROVE  state'[k][m] = state[k][m]
      BY DEF Kids
    <2>1. d # Mem
      BY TreeFacts
    <2> QED
      BY <2>1
  <1>2. \A k \in Caches, m \in Lines : Parent[k][m] # Mem =>
            /\ Parent[k][m] \in Inner /\ Parent[k][m] \in Caches /\ state'[k][m] = state[k][m]
    BY TreeFacts
  <1>3. \A k \in Caches, m \in Lines : Parent[k][m] = c /\ m = l /\ state[k][m] # "I" => state'[c][l] \in Owned
    BY DEF Kids
  <1>4. Tagged'
    BY DEF Copies, Tagged
  <1>5. Included'
    <2> SUFFICES ASSUME NEW k \in Caches, NEW m \in Lines, state'[k][m] # "I", Parent[k][m] # Mem
                 PROVE  state'[Parent[k][m]][m] # "I"
      BY DEF Included
    <2>1. state[k][m] # "I" /\ state[Parent[k][m]][m] # "I" /\ Parent[k][m] \in Caches
      BY <1>2 DEF Copies, Included
    <2>2. CASE Parent[k][m] = c /\ m = l
      BY <2>1, <2>2, <1>3 DEF Owned
    <2>3. CASE Parent[k][m] # c \/ m # l
      BY <2>1, <2>3
    <2> QED
      BY <2>2, <2>3
  <1>6. Exclusive'
    <2> SUFFICES ASSUME NEW k \in Caches, NEW m \in Lines, state'[k][m] \in Owned, Parent[k][m] # Mem
                 PROVE  Kids(Parent[k][m], m)' = {k} /\ state'[Parent[k][m]][m] \in Owned
      BY DEF Exclusive
    <2>1. /\ state[k][m] \in Owned /\ state[k][m] # "I" /\ Parent[k][m] \in Caches
          /\ Kids(Parent[k][m], m)' = {k} /\ state[Parent[k][m]][m] \in Owned
      <3>1. state[k][m] \in Owned /\ state[k][m] # "I" /\ Parent[k][m] \in Inner /\ Parent[k][m] \in Caches
        BY <1>2 DEF Owned
      <3>2. Kids(Parent[k][m], m) = {k} /\ state[Parent[k][m]][m] \in Owned
        BY <3>1 DEF Copies, Exclusive
      <3>3. Kids(Parent[k][m], m)' = Kids(Parent[k][m], m)
        BY <3>1, <1>1
      <3> QED
        BY <3>1, <3>2, <3>3
    <2>2. CASE Parent[k][m] = c /\ m = l
      BY <2>1, <2>2, <1>3
    <2>3. CASE Parent[k][m] # c \/ m # l
      BY <2>1, <2>3
    <2> QED
      BY <2>1, <2>2, <2>3
  <1>7. Listed'
    BY <1>2 DEF Copies, Listed
  <1>8. SharersHave'
    BY <1>1 DEF Copies, SharersHave
  <1> QED
    BY <1>4, <1>5, <1>6, <1>7, <1>8 DEF Copies
-----------------------------------------------------------------------------
(* Each step keeps the invariant: calls to the parent *)

(* A victim, its children's copies gone, is put to the parent.             *)
LEMMA EvictStep ==
    ASSUME IInv, NEW t \in L1s, Evict(t)
    PROVE  IInv'
  <1>1. PICK f : f = Last(stack[t])
    OBVIOUS
  <1>2. PICK v : v = f.victim
    OBVIOUS
  <1>3. PICK s : s = IF f.wb THEN [state EXCEPT ![f.c][v] = "M"] ELSE state
    OBVIOUS
  <1>4. PICK type : type = IF s[f.c][v] = "M" THEN "PUTX" ELSE "PUTS"
    OBVIOUS
  <1> DEFINE g == [f EXCEPT !.wb = FALSE]
             h == [g EXCEPT !.pc = "insert"]
             Stays == v = NoLine \/ s[f.c][v] = "I"
  <1>5. /\ Busy(t) /\ f.pc = "evict" /\ Targets(f) = {}
        /\ ok' = (ok /\ (f.wb => state[f.c][v] \in {"M", "E"}))
        /\ UNCHANGED <<tags, dir, tcc, filter, filterLock, left>>
        /\ Stays => /\ stack' = [stack EXCEPT ![t] = Append(Front(@), h)]
                    /\ UNCHANGED <<state, bcc, dirty>>
        /\ ~Stays => CallParent(t, g, s, v, type, "insert")
    BY <1>1, <1>2, <1>3, <1>4 DEF Evict, At, Goto, Expect
  <1>6. /\ f = Top(t) /\ f \in Frames /\ FrameShape(f) /\ Knows(f, TRUE) /\ f.c \in Caches /\ f.l \in Lines
        /\ f.op \in {"access", "inval"} /\ f.child \in Caches \cup {Core} /\ v \in Lines \cup {NoLine}
        /\ f.op = "access" /\ f.c \in L1s => f.c = t
        /\ f.wb \in BOOLEAN
    BY <1>1, <1>2, <1>5, TopKnows DEF IInv
  <1>7. /\ f.op = "access" /\ AccessShape(f) /\ f.type \in Gets /\ Holds(f, TRUE) /\ f.c \in bcc
        /\ Depth(t) \in Nat \ {0}
    <2>1. f.op = "access" /\ AccessShape(f) /\ f.type \in Gets /\ Holds(f, TRUE)
      BY <1>5, <1>6 DEF FrameShape, AccessShape, Holds
    <2>2. Depth(t) \in 1..Depth(t) /\ f = stack[t][Depth(t)] /\ Depth(t) \in Nat \ {0}
      BY <1>5, <1>6, TopShape DEF IInv
    <2>3. Holds(f, Depth(t) = Depth(t)) => f.c \in bcc
      BY <1>5, <2>2, TopLocks DEF IInv
    <2> QED
      BY <2>1, <2>2, <2>3 DEF Holds
  <1>8. /\ f.l \notin tags[f.c]
        /\ v = NoLine => Cardinality(tags[f.c]) < Ways[f.c]
        /\ v # NoLine => v \in tags[f.c] /\ v \in Lines
        /\ f.wb => v # NoLine /\ v \in Lines /\ state[f.c][v] \in Owned
    BY <1>2, <1>5, <1>6 DEF Knows, KnowsOwn, InvLine
  <1>9. v # NoLine => Kids(f.c, v) = {}
    <2>1. InvType(f) = "INV" /\ InvLine(f) = v
      BY <1>2, <1>5 DEF InvType, InvLine
    <2> QED
      BY <1>1, <1>5, <2>1, NoKidsLeft
  <1>10. /\ s \in [Caches -> [Lines -> MESI]]
         /\ \A c \in Caches, l \in Lines : c # f.c \/ l # v => s[c][l] = state[c][l]
         /\ \A c \in Caches : c # f.c => s[c] = state[c]
         /\ f.wb => s[f.c][v] = "M"
         /\ ~f.wb => s = state
    <2>1. state \in [Caches -> [Lines -> MESI]]
      BY DEF IInv, Types
    <2>2. CASE f.wb = TRUE
      <3>1. s = [state EXCEPT ![f.c][v] = "M"] /\ "M" \in MESI
        BY <1>3, <2>2 DEF MESI
      <3> QED
        BY <2>1, <2>2, <3>1, <1>6, <1>8, OneCell
    <2>3. CASE f.wb = FALSE
      BY <2>1, <2>3, <1>3
    <2> QED
      BY <2>2, <2>3, <1>6
  <1>11. /\ \A c \in Caches, l \in Lines :
               /\ s[c][l] = "I" <=> state[c][l] = "I"
               /\ s[c][l] \in Owned <=> state[c][l] \in Owned
               /\ state[c][l] = "M" => s[c][l] = "M"
    <2>1. CASE f.wb = TRUE
      BY <2>1, <1>8, <1>10 DEF Owned
    <2>2. CASE f.wb = FALSE
      BY <2>2, <1>10
    <2> QED
      BY <2>1, <2>2, <1>6
  <1>12. ok' = TRUE
    BY <1>5, <1>8 DEF IInv, Owned
  <1>13. /\ h \in Frames /\ h.pc = "insert" /\ h.op = f.op /\ h.c = f.c /\ h.l = f.l /\ h.child = f.child
         /\ h.type = f.type /\ h.wb = FALSE /\ h.victim = v
         /\ [g EXCEPT !.pc = "insert"] = h /\ g.c = f.c
    BY <1>2, <1>6 DEF Frames
  <1> HIDE DEF g, h
  <1>14. FrameShape(h)
    BY <1>5, <1>7, <1>13 DEF FrameShape, AccessShape
  <1>15. f.child # Core => KnowsChild(f, state[f.child][f.l]) /\ f.child \in Caches /\ f.child # f.c
    BY <1>1, <1>5, <1>6, <1>7, ChildKnows, ZenonT(60) DEF IInv
  <1>16. ASSUME \A c \in Caches, l \in Lines : c # f.c \/ l # v => state'[c][l] = state[c][l],
                Kids(f.c, v)' = Kids(f.c, v), NEW b \in BOOLEAN,
                b /\ v # NoLine => state'[f.c][v] = "I"
         PROVE  Knows(h, b)'
    <2>1. KnowsOwn(h, b)'
      BY <1>5, <1>8, <1>9, <1>13, <1>16 DEF KnowsOwn
    <2>2. h.child # Core => KnowsChild(h, state[h.child][h.l])'
      <3>1. h.child # Core => state'[h.child][h.l] = state[h.child][h.l]
        BY <1>6, <1>13, <1>15, <1>16
      <3> QED
        BY <3>1, <1>5, <1>13, <1>15 DEF KnowsChild
    <2> QED
      BY <1>7, <1>13, <2>1, <2>2 DEF Knows
  <1>17. CASE Stays
    <2>1. ~f.wb /\ state' = state
      BY <1>5, <1>8, <1>10, <1>17
    <2>2. stack' = [stack EXCEPT ![t] = Append(Front(@), h)] /\ UNCHANGED <<bcc, dirty>>
      BY <1>5, <1>17
    <2>3. OthersKnown(t)
      BY <1>5, <2>1, OthersUntouched DEF IInv
    <2>4. Knows(h, TRUE)'
      <3>1. Kids(f.c, v)' = Kids(f.c, v)
        BY <2>1 DEF Kids
      <3>2. v # NoLine => state'[f.c][v] = "I"
        BY <1>10, <1>17, <2>1
      <3>3. \A c \in Caches, l \in Lines : c # f.c \/ l # v => state'[c][l] = state[c][l]
        BY <2>1
      <3>4. TRUE /\ v # NoLine => state'[f.c][v] = "I"
        BY <3>2
      <3> QED
        BY <1>16, <3>1, <3>3, <3>4
    <2>5. /\ StackShape' /\ Locks' /\ Exclusion' /\ FramesKnow'
          /\ Replaced(t, h) /\ Keeps(t, Depth(t) - 1)
      BY <1>5, <1>6, <1>7, <1>13, <1>14, <2>2, <2>3, <2>4, StepHolding DEF IInv
    <2>6. stack'[t] # << >> /\ stack' \in [L1s -> Seq(Frames)]
      BY <1>5, <2>5, StillBusy DEF IInv
    <2>7. Types'
      BY <1>5, <2>1, <2>2, <2>6 DEF IInv, Types
    <2>8. Copies'
      <3>1. \A k, c, l : Upgrades(k, c, l) => Upgrades(k, c, l)'
        BY <1>5, <1>6, <2>5, AllGrantsStay DEF IInv
      <3> QED
        BY <1>5, <2>1, <3>1, CopiesStay DEF IInv
    <2>9. WrittenKept'
      BY <1>5, <1>6, <2>1, <2>2, <2>5, WrittenStep DEF IInv, Carries, Written
    <2>10. FilterKnows'
      BY <1>5, <2>1, <2>5, <2>6, FilterStays DEF IInv, Keeps
    <2> QED
      BY <1>12, <2>5, <2>7, <2>8, <2>9, <2>10 DEF IInv
  <1>18. CASE ~Stays /\ Parent[f.c][v] = Mem
    <2>1. /\ v # NoLine /\ v \in Lines /\ type \in Puts
          /\ state' = [s EXCEPT ![f.c][v] = "I"]
          /\ dirty' = IF type = "PUTX" THEN dirty \ {v} ELSE dirty
          /\ stack' = [stack EXCEPT ![t] = Append(Front(@), h)]
          /\ bcc' = bcc
      <3>1. v # NoLine /\ v \in Lines /\ type \in Puts
        BY <1>4, <1>6, <1>18 DEF Puts
      <3>2. MemState(type) = "I"
        BY <3>1 DEF MemState, Puts
      <3> QED
        BY <3>1, <3>2, <1>5, <1>13, <1>18 DEF CallParent, Goto
    <2>2. /\ state' \in [Caches -> [Lines -> MESI]] /\ state'[f.c][v] = "I"
          /\ \A c \in Caches, l \in Lines : c # f.c \/ l # v => state'[c][l] = state[c][l]
          /\ \A c \in Caches : c # f.c => state'[c] = state[c]
      <3>1. "I" \in MESI
        BY DEF MESI
      <3>2. /\ state' \in [Caches -> [Lines -> MESI]] /\ state'[f.c][v] = "I"
            /\ \A c \in Caches, l \in Lines : c # f.c \/ l # v => state'[c][l] = s[c][l]
            /\ \A c \in Caches : c # f.c => state'[c] = s[c]
        BY <1>6, <1>10, <2>1, <3>1, OneCell
      <3> QED
        BY <3>2, <1>10
    <2>3. OthersKnown(t)
      <3>1. ChangesOnlyAt(f)
        BY <1>5, <1>18, <2>1, <2>2 DEF ChangesOnlyAt
      <3> QED
        BY <1>5, <1>6, <1>7, <3>1, OthersOfAccess DEF IInv
    <2>4. Knows(h, TRUE)'
      <3>1. Kids(f.c, v)' = Kids(f.c, v)
        <4>1. \A k \in Caches : Parent[k][v] = f.c => k # f.c
          BY <1>6, <2>1, TreeFacts
        <4>2. \A k \in Caches : Parent[k][v] = f.c => state'[k][v] = state[k][v]
          BY <4>1, <2>1, <2>2
        <4> QED
          BY <4>2 DEF Kids
      <3>2. TRUE /\ v # NoLine => state'[f.c][v] = "I"
        BY <2>2
      <3>3. \A c \in Caches, l \in Lines : c # f.c \/ l # v => state'[c][l] = state[c][l]
        BY <2>2
      <3> QED
        BY <1>16, <3>1, <3>2, <3>3
    <2>5. /\ StackShape' /\ Locks' /\ Exclusion' /\ FramesKnow'
          /\ Replaced(t, h) /\ Keeps(t, Depth(t) - 1)
      BY <1>5, <1>6, <1>7, <1>13, <1>14, <2>1, <2>3, <2>4, StepHolding DEF IInv
    <2>6. stack'[t] # << >> /\ stack' \in [L1s -> Seq(Frames)]
      BY <1>5, <2>5, StillBusy DEF IInv
    <2>7. Types'
      <3>1. dirty' \subseteq Lines
        BY <2>1 DEF IInv, Types
      <3> QED
        BY <1>5, <2>1, <2>2, <2>6, <3>1 DEF IInv, Types
    <2>8. Copies'
      <3>1. \A k, c, l : Upgrades(k, c, l) => Upgrades(k, c, l)'
        BY <1>5, <1>6, <2>5, AllGrantsStay DEF IInv
      <3> QED
        <4>1. Types /\ Copies /\ tags' = tags /\ dir' = dir
          BY <1>5 DEF IInv
        <4>2. /\ state'[f.c][v] # "I" => v \in tags[f.c]
              /\ Kids(f.c, v) = {} \/ state'[f.c][v] \in Owned
          BY <1>9, <2>1, <2>2
        <4>3. /\ \A d \in Caches, m \in Lines : d # f.c \/ m # v => state'[d][m] = state[d][m]
              /\ f.c \in Caches /\ v \in Lines /\ Parent[f.c][v] = Mem
          BY <1>6, <1>18, <2>1, <2>2
        <4> QED
          BY <3>1, <4>1, <4>2, <4>3, CopiesOfRoot
    <2>9. WrittenKept'
      <3>1. \A l \in dirty' : l \in dirty /\ l \in Lines /\ ~(l = v /\ s[f.c][v] = "M")
        BY <1>4, <2>1 DEF IInv, Types
      <3>2. \A c \in Caches : \A l \in dirty' : state[c][l] = "M" => Written(l)'
        <4> SUFFICES ASSUME NEW c \in Caches, NEW l \in dirty', state[c][l] = "M" PROVE state'[c][l] = "M"
          BY DEF Written
        <4>1. ~(c = f.c /\ l = v)
          BY <3>1, <1>6, <1>11
        <4> QED
          BY <4>1, <3>1, <2>2
      <3>3. \A l \in dirty' : ~Carries(f, l)
        BY <3>1, <1>2, <1>5, <1>10 DEF Carries, InvLine
      <3> QED
        BY <1>5, <1>6, <2>5, <3>1, <3>2, <3>3, WrittenStep DEF IInv
    <2>10. FilterKnows'
      <3>1. \A u \in L1s : u # t => state'[u] = state[u]
        BY <1>6, <1>7, <2>2, TreeFacts
      <3> QED
        BY <1>5, <2>5, <2>6, <3>1, FilterStays DEF IInv, Keeps
    <2> QED
      BY <1>12, <2>5, <2>7, <2>8, <2>9, <2>10 DEF IInv
  <1>19. CASE ~Stays /\ Parent[f.c][v] # Mem
    <2>1. PICK p : p = Parent[f.c][v]
      OBVIOUS
    <2> DEFINE q == Frame("access", p, v, type, f.c, s[f.c][v])
    <2>2. /\ v # NoLine /\ v \in Lines /\ type \in Puts
          /\ state' = s /\ bcc' = bcc \ {f.c} /\ dirty' = dirty
          /\ stack' = [stack EXCEPT ![t] = Append(Append(Front(@), h), q)]
      <3>1. v # NoLine /\ v \in Lines /\ type \in Puts
        BY <1>4, <1>6, <1>19 DEF Puts
      <3> QED
        BY <2>1, <3>1, <1>5, <1>13, <1>19 DEF CallParent
    <2>3. p \in Inner /\ p \in Caches /\ p \notin L1s
      BY <1>6, <1>19, <2>1, <2>2, TreeFacts
    <2>4. /\ q \in Frames /\ q.op = "access" /\ q.c = p /\ q.l = v /\ q.type = type /\ q.child = f.c
          /\ q.initial = s[f.c][v] /\ q.pc = "start" /\ q.wb = FALSE
      <3>1. s[f.c][v] \in MESI
        BY <1>6, <1>10, <2>2
      <3> QED
        BY <1>6, <2>2, <2>3, <3>1 DEF Frame, Frames, Puts
    <2> HIDE DEF q
    <2>5. FrameShape(q)
      <3>1. f.c # Core /\ q.type \in Puts /\ q.type \in Gets \cup Puts
        BY <1>6, <2>2, <2>4, TreeFacts
      <3> QED
        BY <3>1, <2>3, <2>4 DEF FrameShape, AccessShape
    <2>6. Calls(h, q)
      BY <1>7, <1>13, <2>1, <2>2, <2>3, <2>4 DEF Calls, AsksParent
    <2>7. Knows(q, TRUE)'
      <3>1. KnowsOwn(q, TRUE)'
        BY <2>4, StartKnows
      <3>2. KnowsChild(q, state[q.child][q.l])'
        <4>1. s[f.c][v] \in MESI /\ s[f.c][v] # "I" /\ state'[q.child][q.l] = s[f.c][v]
          BY <1>6, <1>10, <1>19, <2>2, <2>4
        <4> QED
          BY <1>4, <2>2, <2>4, <4>1 DEF KnowsChild, MESI, Gets, Puts
      <3> QED
        BY <2>4, <3>1, <3>2 DEF Knows
    <2>8. \A c, l : l \in Lines => Kids(c, l)' = Kids(c, l)
      BY <1>11, <2>2 DEF Kids
    <2>9. OthersKnown(t)
      <3>1. ChangesOnlyAt(f)
        BY <1>5, <1>6, <1>10, <1>11, <2>2 DEF ChangesOnlyAt
      <3> QED
        BY <1>5, <1>6, <1>7, <3>1, OthersOfAccess DEF IInv
    <2>10. Knows(h, FALSE)'
      <3>1. Kids(f.c, v)' = Kids(f.c, v)
        BY <2>2, <2>8
      <3>2. FALSE /\ v # NoLine => state'[f.c][v] = "I"
        OBVIOUS
      <3>3. \A c \in Caches, l \in Lines : c # f.c \/ l # v => state'[c][l] = state[c][l]
        BY <1>10, <2>2
      <3> QED
        BY <1>16, <3>1, <3>2, <3>3
    <2>11. Pushed(t, h, q)
      BY <1>5, <1>13, <2>2, <2>4, TopPushed DEF IInv
    <2>12. StackShape' /\ Locks' /\ Exclusion' /\ FramesKnow' /\ Keeps(t, Depth(t) - 1)
      <3>1. /\ h.pc # "fill" /\ ~Holds(h, FALSE) /\ Entered(f)
            /\ \A c \in bcc : c \in bcc' \/ (c = h.c /\ ~Holds(h, FALSE))
        BY <1>5, <1>7, <1>13, <2>2 DEF Holds, Entered
      <3>2. Types /\ StackShape /\ Locks /\ Exclusion /\ FramesKnow /\ Busy(t) /\ tcc' = tcc /\ filterLock' = filterLock
        BY <1>5 DEF IInv
      <3> QED
        BY <1>6, <1>7, <1>13, <1>14, <2>4, <2>5, <2>6, <2>7, <2>9, <2>10, <2>11, <3>1, <3>2, StepPushed
    <2>13. stack'[t] # << >> /\ stack' \in [L1s -> Seq(Frames)]
      BY <1>5, <2>11, StillBusy DEF IInv
    <2>14. Types'
      BY <1>5, <1>10, <2>2, <2>13 DEF IInv, Types
    <2>15. Copies'
      <3>1. \A k, c, l : Upgrades(k, c, l) => Upgrades(k, c, l)'
        BY <1>5, <1>6, <2>12, AllGrantsStay DEF IInv
      <3> QED
        BY <1>5, <1>11, <2>2, <3>1, CopiesStay DEF IInv
    <2>16. WrittenKept'
      <3>1. \A c \in Caches : \A l \in dirty' : state[c][l] = "M" => Written(l)'
        BY <1>11, <2>2 DEF Written, IInv, Types
      <3>2. \A l \in dirty' : Carries(f, l) => Written(l)'
        BY <1>2, <1>5, <1>6, <1>10, <2>2 DEF Carries, InvLine, Written
      <3>3. \A l \in dirty' : l \in dirty
        BY <2>2
      <3> QED
        BY <1>5, <1>6, <2>12, <3>1, <3>2, <3>3, WrittenStep DEF IInv
    <2>17. FilterKnows'
      <3>1. \A u \in L1s : u # t => state'[u] = state[u]
        BY <1>6, <1>7, <1>10, <2>2, TreeFacts
      <3> QED
        BY <1>5, <2>12, <2>13, <3>1, FilterStays DEF IInv, Keeps
    <2> QED
      BY <1>12, <2>12, <2>14, <2>15, <2>16, <2>17 DEF IInv
  <1> QED
    BY <1>17, <1>18, <1>19
-----------------------------------------------------------------------------
(* A cache asks the level above for its line. *)
LEMMA BottomAccessStep ==
    ASSUME IInv, NEW t \in L1s, BottomAccess(t)
    PROVE  IInv'
  <1>1. PICK f : f = Last(stack[t])
    OBVIOUS
  <1>2. PICK was : was = state[f.c][f.l]
    OBVIOUS
  <1> DEFINE h == [f EXCEPT !.pc = "top"]
             Miss == (f.type = "GETS" /\ was = "I") \/ (f.type = "GETX" /\ was \in {"I", "S"})
  <1>3. /\ Busy(t) /\ f.pc = "access"
        /\ ok' = (ok /\ (f.type = "PUTS" => was # "I") /\ (f.type = "PUTX" => was \in {"M", "E"}))
        /\ UNCHANGED <<tags, dir, tcc, filter, filterLock, left>>
        /\ Miss => CallParent(t, f, state, f.l, f.type, "top")
        /\ ~Miss => /\ state' = IF f.type \in {"GETX", "PUTX"} THEN [state EXCEPT ![f.c][f.l] = "M"] ELSE state
                    /\ stack' = [stack EXCEPT ![t] = Append(Front(@), h)]
                    /\ UNCHANGED <<bcc, dirty>>
    BY <1>1, <1>2 DEF BottomAccess, At, Goto, Expect
  <1>4. /\ f = Top(t) /\ f \in Frames /\ FrameShape(f) /\ Knows(f, TRUE) /\ f.c \in Caches /\ f.l \in Lines
        /\ f.op \in {"access", "inval"} /\ f.child \in Caches \cup {Core} /\ f.wb \in BOOLEAN
        /\ f.op = "access" /\ f.c \in L1s => f.c = t
    BY <1>1, <1>3, TopKnows DEF IInv
  <1>5. /\ f.op = "access" /\ AccessShape(f) /\ f.type \in Gets \cup Puts /\ Holds(f, TRUE) /\ f.wb = FALSE
        /\ Depth(t) \in Nat \ {0}
    <2>1. f.op = "access" /\ AccessShape(f) /\ f.type \in Gets \cup Puts /\ Holds(f, TRUE) /\ f.wb = FALSE
      BY <1>3, <1>4 DEF FrameShape, AccessShape, Holds
    <2> QED
      BY <2>1, <1>3, TopShape DEF IInv
  <1>6. f.l \in tags[f.c] /\ was \in MESI
    BY <1>2, <1>3, <1>4, StateType DEF Knows, KnowsOwn, IInv
  <1>7. f.child # Core => /\ f.child \in Caches /\ f.child # f.c /\ Parent[f.child][f.l] = f.c /\ f.c # Mem
                          /\ KnowsChild(f, state[f.child][f.l])
    BY <1>1, <1>3, <1>5, ChildKnows, ZenonT(60) DEF IInv
  <1>8. /\ f.type = "PUTS" => was # "I"
        /\ f.type = "PUTX" => was \in Owned
    <2>1. f.type \in Puts => f.child # Core /\ f.type \notin Gets
      BY <1>4, <1>5, TreeFacts DEF AccessShape, Gets, Puts
    <2>2. f.type = "PUTS" => state[f.child][f.l] # "I"
      BY <2>1, <1>3, <1>7 DEF KnowsChild, Puts
    <2>3. f.type = "PUTX" => state[f.child][f.l] \in Owned
      BY <2>1, <1>3, <1>7 DEF KnowsChild, Puts, Owned
    <2>4. f.type = "PUTS" => was # "I"
      BY <2>1, <2>2, <1>2, <1>4, <1>7 DEF IInv, Copies, Included, Puts
    <2>5. f.type = "PUTX" => was \in Owned
      BY <2>1, <2>3, <1>2, <1>4, <1>7 DEF IInv, Copies, Exclusive, Puts
    <2> QED
      BY <2>4, <2>5
  <1>9. ok' = TRUE
    BY <1>3, <1>8 DEF IInv, Owned
  <1>10. /\ h \in Frames /\ h.pc = "top" /\ h.op = f.op /\ h.c = f.c /\ h.l = f.l /\ h.child = f.child
         /\ h.type = f.type /\ h.wb = FALSE
    BY <1>4, <1>5 DEF Frames
  <1>11. FrameShape(h)
    BY <1>3, <1>5, <1>10 DEF FrameShape, AccessShape
  <1>12. CASE Miss /\ Parent[f.c][f.l] = Mem
    <2>1. /\ f.type \in Gets /\ f.type \notin Puts
          /\ f.type = "GETS" => was = "I"
          /\ f.type = "GETX" => was \in {"I", "S"}
      BY <1>5, <1>12 DEF Gets, Puts
    <2>2. PICK z : z = MemState(f.type)
      OBVIOUS
    <2>3. z \in MESI /\ z \in Owned /\ Granted(f.type, z)
      BY <2>1, <2>2 DEF MemState, Gets, MESI, Owned, Granted
    <2>4. /\ state' = [state EXCEPT ![f.c][f.l] = z]
          /\ UNCHANGED <<dirty, bcc>>
          /\ stack' = [stack EXCEPT ![t] = Append(Front(@), h)]
      BY <1>3, <1>12, <2>1, <2>2 DEF CallParent, Goto, Puts
    <2> HIDE DEF h
    <2>5. /\ state' \in [Caches -> [Lines -> MESI]] /\ state'[f.c][f.l] = z
          /\ \A c \in Caches, l \in Lines : c # f.c \/ l # f.l => state'[c][l] = state[c][l]
          /\ \A c \in Caches : c # f.c => state'[c] = state[c]
      <3>1. state \in [Caches -> [Lines -> MESI]]
        BY DEF IInv, Types
      <3> QED
        BY <1>4, <2>3, <2>4, <3>1, OneCell
    <2>6. OthersKnown(t)
      <3>1. ChangesOnlyAt(f)
        BY <1>3, <1>4, <1>12, <2>5 DEF ChangesOnlyAt
      <3> QED
        BY <1>3, <1>4, <1>5, <3>1, OthersOfAccess DEF IInv
    <2>7. Knows(h, TRUE)'
      <3>1. KnowsOwn(h, TRUE)'
        BY <1>3, <1>6, <1>10, <2>1, <2>3, <2>5 DEF KnowsOwn, Puts
      <3>2. h.child # Core => KnowsChild(h, state[h.child][h.l])'
        <4>1. h.child # Core => state'[h.child][h.l] = state[h.child][h.l]
          BY <1>4, <1>7, <1>10, <2>5
        <4> QED
          BY <4>1, <1>3, <1>7, <1>10 DEF KnowsChild
      <3> QED
        BY <1>5, <1>10, <3>1, <3>2 DEF Knows
    <2>8. /\ StackShape' /\ Locks' /\ Exclusion' /\ FramesKnow'
          /\ Replaced(t, h) /\ Keeps(t, Depth(t) - 1)
      BY <1>3, <1>4, <1>5, <1>10, <1>11, <2>4, <2>6, <2>7, StepHolding DEF IInv
    <2>9. stack'[t] # << >> /\ stack' \in [L1s -> Seq(Frames)]
      BY <1>3, <2>8, StillBusy DEF IInv
    <2>10. Types'
      BY <1>3, <2>4, <2>5, <2>9 DEF IInv, Types
    <2>11. Copies'
      <3>1. \A k, c, l : Upgrades(k, c, l) => Upgrades(k, c, l)'
        BY <1>3, <1>4, <2>8, AllGrantsStay DEF IInv
      <3>2. Types /\ Copies /\ tags' = tags /\ dir' = dir
        BY <1>3 DEF IInv
      <3>3. /\ state'[f.c][f.l] # "I" => f.l \in tags[f.c]
            /\ Kids(f.c, f.l) = {} \/ state'[f.c][f.l] \in Owned
        BY <1>6, <2>3, <2>5
      <3>4. /\ \A d \in Caches, m \in Lines : d # f.c \/ m # f.l => state'[d][m] = state[d][m]
            /\ f.c \in Caches /\ f.l \in Lines /\ Parent[f.c][f.l] = Mem
        BY <1>4, <1>12, <2>5
      <3> QED
        BY <3>1, <3>2, <3>3, <3>4, CopiesOfRoot
    <2>12. WrittenKept'
      <3>1. \A c \in Caches : \A l \in dirty' : state[c][l] = "M" => Written(l)'
        <4> SUFFICES ASSUME NEW c \in Caches, NEW l \in dirty', state[c][l] = "M" PROVE state'[c][l] = "M"
          BY DEF Written
        <4>1. l \in Lines
          BY <2>4 DEF IInv, Types
        <4>2. ~(c = f.c /\ l = f.l)
          BY <1>2, <1>5, <2>1 DEF Gets, Puts
        <4> QED
          BY <4>1, <4>2, <2>5
      <3>2. \A l \in dirty' : ~Carries(f, l)
        BY <1>5 DEF Carries
      <3>3. \A l \in dirty' : l \in dirty
        BY <2>4
      <3> QED
        BY <1>3, <1>4, <2>8, <3>1, <3>2, <3>3, WrittenStep DEF IInv
    <2>13. FilterKnows'
      <3>1. \A u \in L1s : u # t => state'[u] = state[u]
        BY <1>4, <1>5, <2>5, TreeFacts
      <3> QED
        BY <1>3, <2>8, <2>9, <3>1, FilterStays DEF IInv, Keeps
    <2> QED
      BY <1>9, <2>8, <2>10, <2>11, <2>12, <2>13 DEF IInv
  <1>13. CASE Miss /\ Parent[f.c][f.l] # Mem
    <2>1. PICK p : p = Parent[f.c][f.l]
      OBVIOUS
    <2> DEFINE q == Frame("access", p, f.l, f.type, f.c, was)
    <2>2. /\ f.type \in Gets
          /\ f.type = "GETS" => was = "I"
          /\ f.type = "GETX" => was \in {"I", "S"}
          /\ UNCHANGED <<state, dirty>> /\ bcc' = bcc \ {f.c}
          /\ stack' = [stack EXCEPT ![t] = Append(Append(Front(@), h), q)]
      BY <1>2, <1>3, <1>13, <2>1 DEF CallParent, Gets
    <2>3. p \in Inner /\ p \in Caches /\ p \notin L1s
      BY <1>4, <1>13, <2>1, TreeFacts
    <2>4. /\ q \in Frames /\ q.op = "access" /\ q.c = p /\ q.l = f.l /\ q.type = f.type /\ q.child = f.c
          /\ q.initial = was /\ q.pc = "start" /\ q.wb = FALSE
      BY <1>4, <1>6, <2>2, <2>3 DEF Frame, Frames, Gets
    <2> HIDE DEF q, h
    <2>5. FrameShape(q)
      <3>1. f.c # Core /\ q.type \in Gets \cup Puts
        BY <1>4, <2>2, <2>4, TreeFacts
      <3> QED
        BY <3>1, <2>3, <2>4 DEF FrameShape, AccessShape
    <2>6. Calls(h, q)
      BY <1>5, <1>10, <2>1, <2>2, <2>3, <2>4 DEF Calls, AsksParent
    <2>7. Knows(q, TRUE)'
      <3>1. KnowsOwn(q, TRUE)'
        BY <2>4, StartKnows
      <3>2. KnowsChild(q, state[q.child][q.l])'
        BY <1>2, <2>2, <2>4 DEF KnowsChild, Gets, Puts
      <3> QED
        BY <2>4, <3>1, <3>2 DEF Knows
    <2>8. OthersKnown(t)
      BY <1>3, <2>2, OthersUntouched DEF IInv
    <2>9. Knows(h, FALSE)'
      <3>1. KnowsOwn(h, FALSE)'
        BY <1>3, <1>6, <1>10 DEF KnowsOwn
      <3>2. h.child # Core => KnowsChild(h, state[h.child][h.l])'
        BY <1>3, <1>7, <1>10, <2>2 DEF KnowsChild
      <3> QED
        BY <1>5, <1>10, <3>1, <3>2 DEF Knows
    <2>10. Pushed(t, h, q)
      BY <1>3, <1>10, <2>2, <2>4, TopPushed DEF IInv
    <2>11. StackShape' /\ Locks' /\ Exclusion' /\ FramesKnow' /\ Keeps(t, Depth(t) - 1)
      <3>1. /\ h.pc # "fill" /\ ~Holds(h, FALSE) /\ Entered(f)
            /\ \A c \in bcc : c \in bcc' \/ (c = h.c /\ ~Holds(h, FALSE))
        BY <1>3, <1>5, <1>10, <2>2 DEF Holds, Entered
      <3>2. Types /\ StackShape /\ Locks /\ Exclusion /\ FramesKnow /\ Busy(t) /\ tcc' = tcc /\ filterLock' = filterLock
        BY <1>3 DEF IInv
      <3> QED
        BY <1>4, <1>5, <1>10, <1>11, <2>4, <2>5, <2>6, <2>7, <2>8, <2>9, <2>10, <3>1, <3>2, StepPushed
    <2>12. stack'[t] # << >> /\ stack' \in [L1s -> Seq(Frames)]
      BY <1>3, <2>10, StillBusy DEF IInv
    <2>13. Types'
      BY <1>3, <2>2, <2>12 DEF IInv, Types
    <2>14. Copies' /\ WrittenKept' /\ FilterKnows'
      BY <1>3, <1>4, <2>2, <2>11, <2>12, QuietStep
    <2> QED
      BY <1>9, <2>11, <2>13, <2>14 DEF IInv
  <1>14. CASE ~Miss
    <2>1. /\ f.type = "GETS" => was # "I"
          /\ f.type = "GETX" => was \in Owned
      BY <1>6, <1>14 DEF MESI, Owned
    <2>2. /\ stack' = [stack EXCEPT ![t] = Append(Front(@), h)]
          /\ UNCHANGED <<bcc, dirty>>
          /\ state' = IF f.type \in {"GETX", "PUTX"} THEN [state EXCEPT ![f.c][f.l] = "M"] ELSE state
      BY <1>3, <1>14
    <2> HIDE DEF h
    <2>3. /\ state' \in [Caches -> [Lines -> MESI]]
          /\ \A c \in Caches, l \in Lines : c # f.c \/ l # f.l => state'[c][l] = state[c][l]
          /\ \A c \in Caches : c # f.c => state'[c] = state[c]
          /\ f.type \in {"GETX", "PUTX"} => state'[f.c][f.l] = "M"
          /\ f.type \notin {"GETX", "PUTX"} => state' = state
      <3>1. state \in [Caches -> [Lines -> MESI]] /\ "M" \in MESI
        BY DEF IInv, Types, MESI
      <3>2. CASE f.type \in {"GETX", "PUTX"}
        <4>1. state' = [state EXCEPT ![f.c][f.l] = "M"]
          BY <2>2, <3>2
        <4> QED
          BY <1>4, <3>1, <3>2, <4>1, OneCell
      <3>3. CASE f.type \notin {"GETX", "PUTX"}
        BY <2>2, <3>1, <3>3
      <3> QED
        BY <3>2, <3>3
    <2>4. \A c \in Caches, l \in Lines :
              /\ state'[c][l] = "I" <=> state[c][l] = "I"
              /\ state'[c][l] \in Owned <=> state[c][l] \in Owned
              /\ state[c][l] = "M" => state'[c][l] = "M"
      <3> SUFFICES ASSUME NEW c \in Caches, NEW l \in Lines
                   PROVE  /\ state'[c][l] = "I" <=> state[c][l] = "I"
                          /\ state'[c][l] \in Owned <=> state[c][l] \in Owned
                          /\ state[c][l] = "M" => state'[c][l] = "M"
        OBVIOUS
      <3>1. CASE f.type \in {"GETX", "PUTX"}
        <4>1. was \in Owned
          BY <3>1, <2>1, <1>8
        <4> QED
          BY <3>1, <4>1, <1>2, <2>3 DEF Owned
      <3>2. CASE f.type \notin {"GETX", "PUTX"}
        BY <3>2, <2>3
      <3> QED
        BY <3>1, <3>2
    <2>5. OthersKnown(t)
      <3>1. ChangesOnlyAt(f)
        BY <1>3, <1>4, <2>3, <2>4 DEF ChangesOnlyAt
      <3> QED
        BY <1>3, <1>4, <1>5, <3>1, OthersOfAccess DEF IInv
    <2>6. Knows(h, TRUE)'
      <3>1. /\ f.type \in Gets => Granted(f.type, state'[f.c][f.l])
            /\ f.type = "PUTX" => state'[f.c][f.l] = "M"
        BY <1>2, <2>1, <2>3 DEF Granted, Gets
      <3>2. KnowsOwn(h, TRUE)'
        BY <1>3, <1>6, <1>10, <3>1 DEF KnowsOwn
      <3>3. h.child # Core => KnowsChild(h, state[h.child][h.l])'
        <4>1. h.child # Core => state'[h.child][h.l] = state[h.child][h.l]
          BY <1>4, <1>7, <1>10, <2>3
        <4> QED
          BY <4>1, <1>3, <1>7, <1>10 DEF KnowsChild
      <3> QED
        BY <1>5, <1>10, <3>2, <3>3 DEF Knows
    <2>7. /\ StackShape' /\ Locks' /\ Exclusion' /\ FramesKnow'
          /\ Replaced(t, h) /\ Keeps(t, Depth(t) - 1)
      BY <1>3, <1>4, <1>5, <1>10, <1>11, <2>2, <2>5, <2>6, StepHolding DEF IInv
    <2>8. stack'[t] # << >> /\ stack' \in [L1s -> Seq(Frames)]
      BY <1>3, <2>7, StillBusy DEF IInv
    <2>9. Types'
      BY <1>3, <2>2, <2>3, <2>8 DEF IInv, Types
    <2>10. Copies'
      <3>1. \A k, c, l : Upgrades(k, c, l) => Upgrades(k, c, l)'
        BY <1>3, <1>4, <2>7, AllGrantsStay DEF IInv
      <3>2. \A c \in Caches, l \in Lines :
              /\ state'[c][l] = "I" <=> state[c][l] = "I"
              /\ state'[c][l] \in Owned <=> state[c][l] \in Owned
        BY <2>4
      <3> QED
        BY <1>3, <3>1, <3>2, CopiesStay DEF IInv
    <2>11. WrittenKept'
      <3>1. \A c \in Caches : \A l \in dirty' : state[c][l] = "M" => Written(l)'
        BY <2>2, <2>4 DEF Written, IInv, Types
      <3>2. \A l \in dirty' : ~Carries(f, l)
        BY <1>5 DEF Carries
      <3>3. \A l \in dirty' : l \in dirty
        BY <2>2
      <3> QED
        BY <1>3, <1>4, <2>7, <3>1, <3>2, <3>3, WrittenStep DEF IInv
    <2>12. FilterKnows'
      <3>1. \A u \in L1s : u # t => state'[u] = state[u]
        BY <1>4, <1>5, <2>3, TreeFacts
      <3> QED
        BY <1>3, <2>7, <2>8, <3>1, FilterStays DEF IInv, Keeps
    <2> QED
      BY <1>9, <2>7, <2>9, <2>10, <2>11, <2>12 DEF IInv
  <1> QED
    BY <1>12, <1>13, <1>14
-----------------------------------------------------------------------------
(* Each step keeps the invariant: what a cache gives to its child *)

(* Child k's copy of line l, and the entry of cache c that lists it, change *)
(* together.                                                               *)
ChangesBelow(c, l, k) ==
    /\ \A d \in Caches, m \in Lines : d # k \/ m # l =>
          /\ state'[d][m] = "I" <=> state[d][m] = "I"
          /\ state'[d][m] \in Owned <=> state[d][m] \in Owned
    /\ \A d \in Inner, m \in Lines : d # c \/ m # l => dir'[d][m] = dir[d][m]
    /\ state'[k][l] # "I" => l \in tags[k] /\ state[c][l] # "I"
    /\ state'[k][l] \in Owned => Kids(c, l) \subseteq {k} /\ state[c][l] \in Owned
    /\ \A j \in Kids(c, l) : j # k => state[j][l] \notin Owned
    /\ \A j \in Kids(k, l) : state'[k][l] # "I" /\ (state[j][l] \in Owned => state'[k][l] \in Owned)
    /\ \A j \in dir'[c][l].sharers : IF j = k THEN state'[k][l] # "I" ELSE j \in Kids(c, l)
    /\ \A j \in Kids(c, l) : j # k =>
          (j \in dir'[c][l].sharers \/ Upgrades(j, c, l)') /\ ~dir'[c][l].exclusive
    /\ state'[k][l] # "I" =>
          k \in dir'[c][l].sharers /\ (state'[k][l] \in Owned <=> dir'[c][l].exclusive)
    /\ \A j, d, m : (d # c \/ m # l) /\ Upgrades(j, d, m) => Upgrades(j, d, m)'

(* Such a change keeps the copies coherent.                                *)
LEMMA CopiesOfChild ==
    ASSUME Types, Copies, tags' = tags,
           NEW c \in Inner, NEW l \in Lines, NEW k \in Caches, Parent[k][l] = c,
           ChangesBelow(c, l, k)
    PROVE  Copies'
  <1>0. ChangesBelow(c, l, k)
    OBVIOUS
  <1> USE <1>0 DEF ChangesBelow
  <1>1. /\ c # Mem /\ c \in Caches /\ c # k /\ Parent[c][l] # c
        /\ \A d \in Caches, m \in Lines : /\ Parent[d][m] # d
                                          /\ Parent[d][m] # Mem => Parent[d][m] \in Inner /\ Parent[d][m] \in Caches
    BY TreeFacts
  <1>2. \A d, m : m \in Lines /\ (d # c \/ m # l) => Kids(d, m)' = Kids(d, m)
    BY DEF Kids
  <1>3. \A j : j \in Kids(c, l)' <=> IF j = k THEN state'[k][l] # "I" ELSE j \in Kids(c, l)
    BY DEF Kids
  <1>4. /\ state'[c][l] = "I" <=> state[c][l] = "I"
        /\ state'[c][l] \in Owned <=> state[c][l] \in Owned
    BY <1>1
  <1>5. Tagged'
    BY DEF Copies, Tagged
  <1>6. Included'
    <2> SUFFICES ASSUME NEW j \in Caches, NEW m \in Lines, state'[j][m] # "I", Parent[j][m] # Mem
                 PROVE  state'[Parent[j][m]][m] # "I"
      BY DEF Included
    <2>1. CASE j = k /\ m = l
      BY <2>1, <1>4
    <2>2. CASE j # k \/ m # l
      <3>1. state[j][m] # "I" /\ state[Parent[j][m]][m] # "I"
        BY <2>2 DEF Copies, Included
      <3>2. CASE Parent[j][m] = k /\ m = l
        <4>1. j \in Kids(k, l)
          BY <3>1, <3>2 DEF Kids
        <4> QED
          BY <3>2, <4>1 DEF Owned
      <3>3. CASE Parent[j][m] # k \/ m # l
        BY <1>1, <3>1, <3>3
      <3> QED
        BY <3>2, <3>3
    <2> QED
      BY <2>1, <2>2
  <1>7. Exclusive'
    <2> SUFFICES ASSUME NEW j \in Caches, NEW m \in Lines, state'[j][m] \in Owned, Parent[j][m] # Mem
                 PROVE  Kids(Parent[j][m], m)' = {j} /\ state'[Parent[j][m]][m] \in Owned
      BY DEF Exclusive
    <2>1. CASE j = k /\ m = l
      <3>1. \A i : i \in Kids(c, l)' <=> i = k
        BY <2>1, <1>3 DEF Owned
      <3> QED
        BY <2>1, <3>1, <1>4
    <2>2. CASE j # k \/ m # l
      <3>1. /\ state[j][m] \in Owned /\ state[j][m] # "I"
            /\ Kids(Parent[j][m], m) = {j} /\ state[Parent[j][m]][m] \in Owned
        BY <2>2 DEF Copies, Exclusive, Owned
      <3>2. ~(Parent[j][m] = c /\ m = l)
        <4> SUFFICES ASSUME Parent[j][m] = c, m = l PROVE FALSE
          OBVIOUS
        <4>1. j \in Kids(c, l) /\ j # k
          BY <3>1, <2>2
        <4> QED
          BY <4>1, <3>1
      <3>3. Kids(Parent[j][m], m)' = {j}
        BY <3>1, <3>2, <1>2
      <3>4. state'[Parent[j][m]][m] \in Owned
        <4>1. CASE Parent[j][m] = k /\ m = l
          <5>1. j \in Kids(k, l)
            BY <3>1, <4>1 DEF Kids
          <5> QED
            BY <4>1, <5>1
        <4>2. CASE Parent[j][m] # k \/ m # l
          BY <1>1, <3>1, <4>2
        <4> QED
          BY <4>1, <4>2
      <3> QED
        BY <3>3, <3>4
    <2> QED
      BY <2>1, <2>2
  <1>8. Listed'
    <2> SUFFICES ASSUME NEW j \in Caches, NEW m \in Lines, state'[j][m] # "I", Parent[j][m] # Mem
                 PROVE  LET e == dir'[Parent[j][m]][m]
                        IN  /\ j \in e.sharers \/ Upgrades(j, Parent[j][m], m)'
                            /\ state'[j][m] \in Owned <=> e.exclusive
      BY DEF Listed
    <2>1. CASE j = k /\ m = l
      BY <2>1
    <2>2. CASE j # k /\ m = l /\ Parent[j][m] = c
      <3>1. j \in Kids(c, l)
        BY <2>2 DEF Kids
      <3> QED
        BY <2>2, <3>1
    <2>3. CASE m # l \/ Parent[j][m] # c
      <3>1. /\ state[j][m] # "I" /\ (state'[j][m] \in Owned <=> state[j][m] \in Owned)
            /\ dir'[Parent[j][m]][m] = dir[Parent[j][m]][m]
        BY <2>3, <1>1
      <3>2. /\ j \in dir[Parent[j][m]][m].sharers \/ Upgrades(j, Parent[j][m], m)
            /\ state[j][m] \in Owned <=> dir[Parent[j][m]][m].exclusive
        BY <3>1 DEF Copies, Listed
      <3>3. Upgrades(j, Parent[j][m], m) => Upgrades(j, Parent[j][m], m)'
        BY <2>3
      <3> QED
        BY <3>1, <3>2, <3>3
    <2> QED
      BY <2>1, <2>2, <2>3
  <1>9. SharersHave'
    <2> SUFFICES ASSUME NEW d \in Inner, NEW m \in Lines, NEW j \in dir'[d][m].sharers
                 PROVE  j \in Kids(d, m)'
      BY DEF SharersHave
    <2>1. CASE d = c /\ m = l
      BY <2>1, <1>3
    <2>2. CASE d # c \/ m # l
      <3>1. j \in Kids(d, m)
        BY <2>2 DEF Copies, SharersHave
      <3> QED
        BY <2>2, <3>1, <1>2
    <2> QED
      BY <2>1, <2>2
  <1> QED
    BY <1>5, <1>6, <1>7, <1>8, <1>9 DEF Copies

(* A cache about to answer a get or a put. *)
LEMMA AnswerKnows ==
    ASSUME IInv, NEW t \in L1s, Busy(t), NEW f, f = Last(stack[t]), f.pc \in {"top", "grant"}
    PROVE  /\ f = Top(t) /\ f \in Frames /\ FrameShape(f) /\ Knows(f, TRUE)
           /\ f.op = "access" /\ AccessShape(f) /\ f.type \in Gets \cup Puts /\ Holds(f, TRUE)
           /\ f.c \in Caches /\ f.l \in Lines /\ f.l \in tags[f.c] /\ f.wb \in BOOLEAN
           /\ f.pc = "top" => f.wb = FALSE
           /\ f.pc = "grant" => f.type \in Gets
           /\ f.type \in Gets => Granted(f.type, state[f.c][f.l])
           /\ f.type = "PUTX" => state[f.c][f.l] = "M"
           /\ f.c \in L1s => f.pc = "top" /\ f.c = t /\ f.child = Core /\ f.type \in Gets
           /\ f.c \in Inner => f.child # Core
           /\ Depth(t) \in Nat \ {0}
  <1>1. /\ f = Top(t) /\ f \in Frames /\ FrameShape(f) /\ Knows(f, TRUE) /\ f.c \in Caches /\ f.l \in Lines
        /\ f.op \in {"access", "inval"} /\ f.child \in Caches \cup {Core} /\ f.wb \in BOOLEAN
        /\ f.op = "access" /\ f.c \in L1s => f.c = t
    BY TopKnows DEF IInv
  <1>2. /\ f.op = "access" /\ AccessShape(f) /\ f.type \in Gets \cup Puts /\ Holds(f, TRUE)
        /\ f.pc = "top" => f.wb = FALSE
    BY <1>1 DEF FrameShape, AccessShape, Holds
  <1>3. /\ f.l \in tags[f.c]
        /\ f.type \in Gets => Granted(f.type, state[f.c][f.l])
        /\ f.pc = "top" /\ f.type = "PUTX" => state[f.c][f.l] = "M"
    BY <1>1 DEF Knows, KnowsOwn
  <1>4. f.pc = "grant" => f.type \in Gets /\ f.type # "PUTX"
    BY <1>2 DEF AccessShape, Gets
  <1>5. f.c \in L1s => f.pc = "top" /\ f.child = Core /\ f.type \in Gets
    BY <1>2 DEF AccessShape
  <1>6. f.c \in Inner => f.child # Core
    BY <1>2, TreeFacts DEF AccessShape
  <1>7. Depth(t) \in Nat \ {0}
    BY TopShape DEF IInv
  <1> QED
    BY <1>1, <1>2, <1>3, <1>4, <1>5, <1>6, <1>7

(* The child that is to be answered: a get's caller has made room for the  *)
(* line, and a put's has no children with it.                              *)
LEMMA AnswerChild ==
    ASSUME IInv, NEW t \in L1s, Busy(t), NEW f, f = Last(stack[t]), f.pc \in {"top", "grant"},
           f.c \in Inner
    PROVE  /\ f.child \in Caches /\ f.child # f.c /\ Parent[f.child][f.l] = f.c
           /\ f.c # Mem /\ f.c \notin L1s /\ (f.child \in L1s => f.child = t)
           /\ KnowsChild(f, state[f.child][f.l])
           /\ f.type \in Gets => f.l \in tags[f.child]
           /\ f.type \in Puts => Kids(f.child, f.l) = {}
  <1>1. f.op = "access" /\ f.child # Core /\ f.l # NoLine
    <2>1. f.op = "access" /\ f.child # Core /\ f.l \in Lines
      BY AnswerKnows
    <2> QED
      BY <2>1, TreeFacts
  <1>2. PICK g \in Frames :
            /\ AsksParent(g, f) /\ Knows(g, FALSE)
            /\ f.child \in Caches /\ Parent[f.child][f.l] = f.c /\ f.c # Mem
            /\ f.c \notin L1s /\ f.child # f.c /\ (f.child \in L1s => f.child = t)
            /\ g.c = f.child /\ KnowsChild(f, state[f.child][f.l])
    BY <1>1, ChildKnows DEF IInv
  <1>3. f.type \in Gets => f.l \in tags[f.child]
    BY <1>2 DEF AsksParent, Knows, KnowsOwn, Gets, Puts
  <1>4. f.type \in Puts => Kids(f.child, f.l) = {}
    BY <1>1, <1>2 DEF AsksParent, Knows, KnowsOwn, Gets, Puts
  <1> QED
    BY <1>2, <1>3, <1>4

(* The directory entry of the line is exact, but for a store being granted. *)
LEMMA AnswerEntry ==
    ASSUME IInv, NEW t \in L1s, Busy(t), NEW f, f = Last(stack[t]), f.pc \in {"top", "grant"},
           f.c \in Inner
    PROVE  /\ dir[f.c][f.l].sharers \subseteq Kids(f.c, f.l)
           /\ \A k \in Kids(f.c, f.l) :
                 k \in dir[f.c][f.l].sharers \/ (f.pc = "grant" /\ f.type = "GETX" /\ k = f.child)
  <1>1. f = Top(t) /\ f.l \in Lines /\ Holds(f, TRUE) /\ f.c # Mem
    <2>1. f = Top(t) /\ f.l \in Lines /\ Holds(f, TRUE)
      BY AnswerKnows
    <2> QED
      BY <2>1, TreeFacts
  <1>2. dir[f.c][f.l].sharers \subseteq Kids(f.c, f.l)
    BY <1>1 DEF IInv, Copies, SharersHave
  <1>3. ASSUME NEW k \in Kids(f.c, f.l), k \notin dir[f.c][f.l].sharers
        PROVE  f.pc = "grant" /\ f.type = "GETX" /\ k = f.child
    <2>1. Upgrades(k, f.c, f.l)
      BY <1>1, <1>3, KidsListed DEF IInv
    <2> QED
      BY <1>1, <2>1, OwnGrant DEF IInv
  <1> QED
    BY <1>2, <1>3
(* A cache answers, or starts to: all but the copies and the written data. *)
LEMMA AnswerMoves ==
    ASSUME IInv, NEW t \in L1s, Busy(t), NEW f, f = Last(stack[t]), f.pc \in {"top", "grant"},
           NEW h \in Frames, h.pc \in {"grant", "end"}, h.op = f.op, h.c = f.c, h.l = f.l,
           h.type = f.type, h.child = f.child, h.pc = "grant" => f.c \in Inner /\ f.type \in Gets,
           stack' = [stack EXCEPT ![t] = Append(Front(@), h)],
           UNCHANGED <<tags, bcc, tcc, filter, filterLock, left>>,
           state' \in [Caches -> [Lines -> MESI]],
           dir' \in [Inner -> [Lines -> [sharers : SUBSET Caches, exclusive : BOOLEAN]]],
           dirty' \subseteq Lines, ChangesOnlyAt(f), Knows(h, TRUE)'
    PROVE  /\ Types' /\ StackShape' /\ Locks' /\ Exclusion' /\ FramesKnow' /\ FilterKnows'
           /\ Replaced(t, h) /\ Keeps(t, Depth(t) - 1)
  <1>1. /\ f = Top(t) /\ f \in Frames /\ FrameShape(f)
        /\ f.op = "access" /\ AccessShape(f) /\ Holds(f, TRUE)
        /\ f.c \in L1s => f.c = t /\ f.child = Core
        /\ f.c \in Inner => f.c \notin L1s /\ (f.child \in L1s => f.child = t)
        /\ f.c \in Caches /\ (f.c \in L1s \/ f.c \in Inner)
    <2>1. /\ f = Top(t) /\ f \in Frames /\ FrameShape(f)
          /\ f.op = "access" /\ AccessShape(f) /\ Holds(f, TRUE)
          /\ f.c \in L1s => f.c = t /\ f.child = Core
          /\ f.c \in Caches /\ (f.c \in L1s \/ f.c \in Inner)
      BY AnswerKnows DEF Caches
    <2>2. f.c \in Inner => f.c \notin L1s /\ (f.child \in L1s => f.child = t)
      BY AnswerChild
    <2> QED
      BY <2>1, <2>2
  <1>2. FrameShape(h)
    BY <1>1, TreeFacts DEF FrameShape, AccessShape
  <1>3. OthersKnown(t)
    BY <1>1, OthersOfAccess DEF IInv
  <1>4. /\ StackShape' /\ Locks' /\ Exclusion' /\ FramesKnow'
        /\ Replaced(t, h) /\ Keeps(t, Depth(t) - 1)
    BY <1>1, <1>2, <1>3, StepHolding DEF IInv
  <1>5. stack'[t] # << >> /\ stack' \in [L1s -> Seq(Frames)]
    BY <1>4, StillBusy DEF IInv
  <1>6. Types'
    BY <1>5 DEF IInv, Types
  <1>7. FilterKnows'
    <2>1. ASSUME NEW u \in L1s, u # t PROVE state'[u] = state[u]
      <3>1. u \in Caches /\ u # f.c /\ u # f.child
        BY <1>1, <2>1, TreeFacts
      <3>2. \A l \in Lines : state'[u][l] = state[u][l]
        BY <3>1 DEF ChangesOnlyAt
      <3> QED
        BY <3>1, <3>2 DEF IInv, Types
    <2> QED
      BY <1>4, <1>5, <2>1, FilterStays DEF IInv, Keeps
  <1> QED
    BY <1>4, <1>6, <1>7

(* The L1 has its line: the load or store is done. *)
LEMMA TopOfL1 ==
    ASSUME IInv, NEW t \in L1s, TopAccess(t), NEW f, f = Last(stack[t]), f.c \in L1s
    PROVE  IInv'
  <1>1. PICK h : h = [f EXCEPT !.pc = "end"]
    BY Zenon
  <1>a. /\ Busy(t) /\ f.pc = "top"
        /\ ok' = (ok /\ state[f.c][f.l] # "I" /\ (f.type = "GETX" => state[f.c][f.l] = "M"))
        /\ dirty' = IF f.type = "GETX" THEN dirty \cup {f.l} ELSE dirty
        /\ stack' = [stack EXCEPT ![t] = Append(Front(@), h)]
        /\ UNCHANGED <<state, dir, tags, bcc, tcc, filter, filterLock, left>>
    BY <1>1, TreeFacts, Zenon DEF TopAccess, At, Goto, Expect
  <1>2. /\ f = Top(t) /\ f \in Frames /\ f.op = "access" /\ f.type \in Gets /\ f.wb = FALSE
        /\ f.c \in Caches /\ f.l \in Lines /\ f.child = Core
        /\ Granted(f.type, state[f.c][f.l])
    BY <1>a, AnswerKnows, ZenonT(60)
  <1>3. /\ h \in Frames /\ h.pc = "end" /\ h.op = f.op /\ h.c = f.c /\ h.l = f.l /\ h.child = f.child
        /\ h.type = f.type
    BY <1>1, <1>2 DEF Frames
  <1>4. ok' = TRUE
    BY <1>a, <1>2 DEF IInv, Granted
  <1>5. Knows(h, TRUE)'
    BY <1>a, <1>2, <1>3 DEF Knows, KnowsOwn
  <1>6. ChangesOnlyAt(f)
    BY <1>a DEF ChangesOnlyAt
  <1>7. stack' = [stack EXCEPT ![t] = Append(Front(@), h)] /\ dirty' \subseteq Lines
    BY <1>a, <1>2 DEF IInv, Types
  <1>8. /\ state' \in [Caches -> [Lines -> MESI]]
        /\ dir' \in [Inner -> [Lines -> [sharers : SUBSET Caches, exclusive : BOOLEAN]]]
    BY <1>a DEF IInv, Types
  <1>9. /\ Types' /\ StackShape' /\ Locks' /\ Exclusion' /\ FramesKnow' /\ FilterKnows'
        /\ Replaced(t, h) /\ Keeps(t, Depth(t) - 1)
    BY <1>3, <1>5, <1>6, <1>7, <1>8, <1>a, AnswerMoves
  <1>10. Copies'
    <2>1. \A k, c, l : Upgrades(k, c, l) => Upgrades(k, c, l)'
      BY <1>a, <1>2, <1>9, AllGrantsStay DEF IInv
    <2> QED
      BY <1>a, <2>1, CopiesStay DEF IInv
  <1>11. WrittenKept'
    <2>1. \A l \in dirty' : l \in dirty \/ \E c \in Caches : state'[c][l] = "M"
      BY <1>a, <1>2 DEF Granted
    <2>2. \A c \in Caches : \A l \in dirty' : state[c][l] = "M" => Written(l)'
      BY <1>a DEF Written
    <2>3. \A l \in dirty' : ~Carries(f, l)
      BY <1>a DEF Carries
    <2> QED
      BY <1>a, <1>2, <1>9, <2>1, <2>2, <2>3, WrittenStep DEF IInv
  <1> QED
    BY <1>4, <1>9, <1>10, <1>11 DEF IInv

(* A child puts its line: its copy goes, and so does its place in the      *)
(* directory; written data was made this cache's own.                      *)
LEMMA TopOfPut ==
    ASSUME IInv, NEW t \in L1s, TopAccess(t), NEW f, f = Last(stack[t]), f.c \in Inner, f.type \in Puts
    PROVE  IInv'
  <1>1. PICK h : h = [f EXCEPT !.pc = "end"]
    BY Zenon
  <1>a. /\ Busy(t) /\ f.pc = "top"
        /\ ok' = (ok /\ f.child \in dir[f.c][f.l].sharers /\ (f.type = "PUTX" => IsExclusive(dir[f.c][f.l])))
        /\ dir' = [dir EXCEPT ![f.c][f.l].sharers = @ \ {f.child}]
        /\ state' = [state EXCEPT ![f.child][f.l] = "I"]
        /\ stack' = [stack EXCEPT ![t] = Append(Front(@), h)]
        /\ UNCHANGED <<dirty, tags, bcc, tcc, filter, filterLock, left>>
    BY <1>1, TreeFacts, Zenon DEF TopAccess, At, Goto, Expect, Puts
  <1>2. PICK e : e = dir[f.c][f.l]
    OBVIOUS
  <1>3. /\ f = Top(t) /\ f \in Frames /\ f.op = "access" /\ f.wb = FALSE
        /\ f.c \in Caches /\ f.l \in Lines
        /\ f.type = "PUTX" => state[f.c][f.l] = "M"
        /\ f.child \in Caches /\ f.child # f.c /\ Parent[f.child][f.l] = f.c /\ f.c # Mem
        /\ KnowsChild(f, state[f.child][f.l])
        /\ Kids(f.child, f.l) = {}
        /\ e.sharers \subseteq Kids(f.c, f.l)
        /\ \A k \in Kids(f.c, f.l) : k \in e.sharers
    <2>1. f.pc # "grant" /\ f.pc \in {"top", "grant"} /\ f.pc = "top" /\ Busy(t)
      BY <1>a
    <2>2. /\ f = Top(t) /\ f \in Frames /\ f.op = "access" /\ f.wb = FALSE
          /\ f.c \in Caches /\ f.l \in Lines
          /\ f.type = "PUTX" => state[f.c][f.l] = "M"
      BY <2>1, AnswerKnows
    <2>3. /\ f.child \in Caches /\ f.child # f.c /\ Parent[f.child][f.l] = f.c /\ f.c # Mem
          /\ KnowsChild(f, state[f.child][f.l])
          /\ Kids(f.child, f.l) = {}
      BY <2>1, AnswerChild
    <2>4. /\ dir[f.c][f.l].sharers \subseteq Kids(f.c, f.l)
          /\ \A k \in Kids(f.c, f.l) : k \in dir[f.c][f.l].sharers
      BY <2>1, AnswerEntry
    <2> QED
      BY <1>2, <2>2, <2>3, <2>4, ZenonT(60)
  <1>4. /\ h \in Frames /\ h.pc = "end" /\ h.op = f.op /\ h.c = f.c /\ h.l = f.l /\ h.child = f.child
        /\ h.type = f.type
    BY <1>1, <1>3 DEF Frames
  <1>5. /\ f.type \notin Gets
        /\ f.type = "PUTS" => state[f.child][f.l] \in {"E", "S"}
        /\ f.type = "PUTX" => state[f.child][f.l] = "M"
        /\ state[f.child][f.l] # "I"
        /\ f.child \in Kids(f.c, f.l) /\ f.child \in e.sharers
    <2>1. /\ f.type \notin Gets
          /\ f.type = "PUTS" => state[f.child][f.l] \in {"E", "S"}
          /\ f.type = "PUTX" => state[f.child][f.l] = "M"
          /\ state[f.child][f.l] # "I"
      BY <1>a, <1>3 DEF KnowsChild, Puts, Gets
    <2>2. f.child \in Kids(f.c, f.l)
      BY <1>3, <2>1 DEF Kids
    <2> QED
      BY <1>3, <2>1, <2>2
  <1>6. /\ \A j \in Kids(f.c, f.l) : j # f.child => state[j][f.l] \notin Owned /\ ~e.exclusive
        /\ f.type = "PUTX" => IsExclusive(e)
    <2>1. \A j \in Kids(f.c, f.l) :
              /\ state[j][f.l] \in Owned <=> e.exclusive
              /\ state[j][f.l] \in Owned => Kids(f.c, f.l) = {j}
      BY <1>2, <1>3, KidsListed DEF IInv
    <2>2. \A j \in Kids(f.c, f.l) : j # f.child => state[j][f.l] \notin Owned /\ ~e.exclusive
      BY <1>5, <2>1
    <2>3. f.type = "PUTX" => e.exclusive /\ e.sharers = {f.child}
      BY <1>3, <1>5, <2>1 DEF Owned
    <2>4. f.type = "PUTX" => IsExclusive(e)
      BY <2>3, FS_Singleton, Zenon DEF IsExclusive
    <2> QED
      BY <2>2, <2>4
  <1>7. ok' = TRUE
    BY <1>a, <1>2, <1>5, <1>6, Zenon DEF IInv
  <1>8. /\ state' \in [Caches -> [Lines -> MESI]] /\ state'[f.child][f.l] = "I"
        /\ \A c \in Caches, l \in Lines : c # f.child \/ l # f.l => state'[c][l] = state[c][l]
    <2>1. state \in [Caches -> [Lines -> MESI]] /\ "I" \in MESI
      BY DEF IInv, Types, MESI
    <2> QED
      BY <1>a, <1>3, <2>1, OneCell
  <1>9. /\ dir' \in [Inner -> [Lines -> [sharers : SUBSET Caches, exclusive : BOOLEAN]]]
        /\ dir'[f.c][f.l].sharers = e.sharers \ {f.child} /\ dir'[f.c][f.l].exclusive = e.exclusive
        /\ \A c \in Inner, l \in Lines : c # f.c \/ l # f.l => dir'[c][l] = dir[c][l]
    <2>1. PICK Entries : Entries = [sharers : SUBSET Caches, exclusive : BOOLEAN]
      OBVIOUS
    <2>2. PICK y : y = [dir[f.c][f.l] EXCEPT !.sharers = @ \ {f.child}]
      OBVIOUS
    <2>3. /\ y \in Entries /\ y.sharers = e.sharers \ {f.child} /\ y.exclusive = e.exclusive
          /\ dir \in [Inner -> [Lines -> Entries]]
      <3>1. y \in Entries /\ y.sharers = dir[f.c][f.l].sharers \ {f.child} /\ y.exclusive = dir[f.c][f.l].exclusive
        BY <1>3, <2>1, <2>2, StateType DEF IInv
      <3>2. dir \in [Inner -> [Lines -> Entries]]
        BY <2>1, SMTT(40) DEF IInv, Types
      <3> QED
        BY <1>2, <3>1, <3>2
    <2>4. dir' = [dir EXCEPT ![f.c][f.l] = y]
      BY <1>a, <2>2, Zenon
    <2>5. /\ dir' \in [Inner -> [Lines -> Entries]] /\ dir'[f.c][f.l] = y
          /\ \A c \in Inner, l \in Lines : c # f.c \/ l # f.l => dir'[c][l] = dir[c][l]
      BY <1>3, <2>3, <2>4, OneCell, SMTT(40)
    <2> QED
      BY <2>1, <2>3, <2>5
  <1>10. ChangesOnlyAt(f)
    <2>1. \A c \in Caches, l \in Lines : c # f.child \/ l # f.l => state'[c][l] = state[c][l]
      BY <1>8, Zenon
    <2>2. \A l \in Lines : state'[f.c][l] = state[f.c][l]
      BY <1>3, <2>1, Zenon
    <2>3. \A c \in Inner, l \in Lines : c # f.c => dir'[c][l] = dir[c][l]
      BY <1>9, Zenon
    <2>4. tags' = tags
      BY <1>a, Zenon
    <2> QED
      BY <2>1, <2>2, <2>3, <2>4, Zenon DEF ChangesOnlyAt
  <1>11. Knows(h, TRUE)'
    <2>1. h.child # Core
      BY <1>3, <1>4, TreeFacts
    <2>2. KnowsOwn(h, TRUE)'
      BY <1>4, <2>1 DEF KnowsOwn
    <2>3. KnowsChild(h, state[h.child][h.l])'
      BY <1>4, <1>5, <1>8 DEF KnowsChild
    <2> QED
      BY <1>3, <1>4, <2>2, <2>3 DEF Knows
  <1>12. stack' = [stack EXCEPT ![t] = Append(Front(@), h)] /\ dirty' \subseteq Lines
    BY <1>a, SMTT(40) DEF IInv, Types
  <1>13. /\ Types' /\ StackShape' /\ Locks' /\ Exclusion' /\ FramesKnow' /\ FilterKnows'
         /\ Replaced(t, h) /\ Keeps(t, Depth(t) - 1)
    BY <1>4, <1>8, <1>9, <1>10, <1>11, <1>12, <1>a, AnswerMoves, Zenon
  <1>14. Copies'
    <2>1. \A k, c, l : Upgrades(k, c, l) => Upgrades(k, c, l)'
      BY <1>a, <1>3, <1>13, AllGrantsStay, ZenonT(60) DEF IInv
    <2>2. Types /\ Copies /\ tags' = tags
      BY <1>a DEF IInv
    <2>3. state'[f.child][f.l] = "I" /\ state'[f.child][f.l] \notin Owned
      BY <1>8 DEF Owned
    <2>4. \A d \in Caches, m \in Lines : d # f.child \/ m # f.l =>
               /\ state'[d][m] = "I" <=> state[d][m] = "I"
               /\ state'[d][m] \in Owned <=> state[d][m] \in Owned
      BY <1>8
    <2>5. \A j \in dir'[f.c][f.l].sharers :
              IF j = f.child THEN state'[f.child][f.l] # "I" ELSE j \in Kids(f.c, f.l)
      BY <1>3, <1>9
    <2>6. \A j \in Kids(f.c, f.l) : j # f.child => j \in dir'[f.c][f.l].sharers /\ ~dir'[f.c][f.l].exclusive
      BY <1>3, <1>6, <1>9
    <2>7. \A j \in Kids(f.c, f.l) : j # f.child => state[j][f.l] \notin Owned
      BY <1>6
    <2>8. \A d \in Inner, m \in Lines : d # f.c \/ m # f.l => dir'[d][m] = dir[d][m]
      BY <1>9
    <2>9. /\ state'[f.child][f.l] # "I" => f.l \in tags[f.child] /\ state[f.c][f.l] # "I"
          /\ state'[f.child][f.l] \in Owned => Kids(f.c, f.l) \subseteq {f.child} /\ state[f.c][f.l] \in Owned
          /\ \A j \in Kids(f.child, f.l) :
                state'[f.child][f.l] # "I" /\ (state[j][f.l] \in Owned => state'[f.child][f.l] \in Owned)
          /\ state'[f.child][f.l] # "I" =>
                f.child \in dir'[f.c][f.l].sharers /\ (state'[f.child][f.l] \in Owned <=> dir'[f.c][f.l].exclusive)
      BY <1>3, <2>3
    <2>10. \A j, d, m : (d # f.c \/ m # f.l) /\ Upgrades(j, d, m) => Upgrades(j, d, m)'
      BY <2>1
    <2>11. f.c \in Inner /\ f.l \in Lines /\ f.child \in Caches /\ Parent[f.child][f.l] = f.c
      BY <1>3, SMTT(40)
    <2>12. ChangesBelow(f.c, f.l, f.child)
      BY <2>4, <2>5, <2>6, <2>7, <2>8, <2>9, <2>10 DEF ChangesBelow
    <2> QED
      BY <2>2, <2>11, <2>12, CopiesOfChild
  <1>15. WrittenKept'
    <2>1. \A c \in Caches : \A l \in dirty' : state[c][l] = "M" => Written(l)'
      <3> SUFFICES ASSUME NEW c \in Caches, NEW l \in dirty', state[c][l] = "M"
                   PROVE  \E d \in Caches : state'[d][l] = "M"
        BY <1>a DEF Written
      <3>1. l \in Lines
        BY <1>12
      <3>2. CASE c = f.child /\ l = f.l
        BY <3>2, <1>3, <1>5, <1>8 DEF Puts
      <3>3. CASE c # f.child \/ l # f.l
        BY <3>1, <3>3, <1>8, ZenonT(60)
      <3> QED
        BY <3>2, <3>3, ZenonT(60)
    <2>2. \A l \in dirty' : ~Carries(f, l)
      BY <1>a DEF Carries
    <2> QED
      BY <1>a, <1>3, <1>13, <2>1, <2>2, WrittenStep DEF IInv
  <1> QED
    BY <1>7, <1>13, <1>14, <1>15 DEF IInv
(* No child has the line this cache owns: the child that loads it gets it  *)
(* exclusive.                                                              *)
LEMMA TopOfExclusive ==
    ASSUME IInv, NEW t \in L1s, TopAccess(t), NEW f, f = Last(stack[t]), f.c \in Inner, f.type = "GETS",
           GrantsExclusive(dir[f.c][f.l], state[f.c][f.l])
    PROVE  IInv'
  <1>1. PICK h : h = [f EXCEPT !.pc = "end"]
    OBVIOUS
  <1>2. /\ Busy(t) /\ f.pc = "top" /\ ok' = ok
        /\ dir' = [dir EXCEPT ![f.c][f.l] = [sharers |-> {f.child}, exclusive |-> TRUE]]
        /\ state' = [state EXCEPT ![f.child][f.l] = "E"]
        /\ stack' = [stack EXCEPT ![t] = Append(Front(@), h)]
        /\ UNCHANGED <<dirty, tags, bcc, tcc, filter, filterLock, left>>
    BY <1>1, TreeFacts DEF TopAccess, At, Goto, Expect
  <1>3. /\ f = Top(t) /\ f \in Frames /\ f.op = "access" /\ f.wb = FALSE
        /\ f.c \in Caches /\ f.l \in Lines
        /\ f.child \in Caches /\ f.child # f.c /\ Parent[f.child][f.l] = f.c /\ f.c # Mem
        /\ KnowsChild(f, state[f.child][f.l]) /\ f.l \in tags[f.child]
        /\ \A k \in Kids(f.c, f.l) : k \in dir[f.c][f.l].sharers
    <2>1. f.pc # "grant" /\ f.pc \in {"top", "grant"} /\ f.pc = "top" /\ Busy(t) /\ f.type \in Gets
      BY <1>2 DEF Gets
    <2>2. /\ f = Top(t) /\ f \in Frames /\ f.op = "access" /\ f.wb = FALSE
          /\ f.c \in Caches /\ f.l \in Lines
      BY <2>1, AnswerKnows
    <2>3. f.child \in Caches /\ f.child # f.c /\ Parent[f.child][f.l] = f.c /\ f.c # Mem
      BY <2>1, AnswerChild
    <2>4. KnowsChild(f, state[f.child][f.l]) /\ f.l \in tags[f.child]
      BY <2>1, AnswerChild
    <2>5. \A k \in Kids(f.c, f.l) : k \in dir[f.c][f.l].sharers
      BY <2>1, AnswerEntry
    <2> QED
      BY <2>2, <2>3, <2>4, <2>5
  <1>4. /\ h \in Frames /\ h.pc = "end" /\ h.op = f.op /\ h.c = f.c /\ h.l = f.l /\ h.child = f.child
        /\ h.type = f.type
    BY <1>1, <1>3 DEF Frames
  <1>5. /\ state[f.child][f.l] = "I" /\ Kids(f.c, f.l) = {} /\ state[f.c][f.l] \in Owned
        /\ Kids(f.child, f.l) = {}
    <2>1. state[f.child][f.l] = "I"
      BY <1>2, <1>3 DEF KnowsChild
    <2>2. Kids(f.c, f.l) = {} /\ state[f.c][f.l] \in Owned
      BY <1>3 DEF GrantsExclusive, Owned
    <2>3. ASSUME NEW k \in Kids(f.child, f.l) PROVE FALSE
      <3>1. k \in Caches /\ Parent[k][f.l] = f.child /\ state[k][f.l] # "I"
        BY DEF Kids
      <3>2. Included /\ Parent[k][f.l] # Mem
        BY <3>1, <1>3, TreeFacts DEF IInv, Copies
      <3> QED
        BY <2>1, <3>1, <3>2, <1>3 DEF Included
    <2> QED
      BY <2>1, <2>2, <2>3
  <1>6. /\ state' \in [Caches -> [Lines -> MESI]] /\ state'[f.child][f.l] = "E"
        /\ \A c \in Caches, l \in Lines : c # f.child \/ l # f.l => state'[c][l] = state[c][l]
    <2>1. state \in [Caches -> [Lines -> MESI]] /\ "E" \in MESI
      BY DEF IInv, Types, MESI
    <2> QED
      BY <1>2, <1>3, <2>1, OneCell
  <1>7. /\ dir' \in [Inner -> [Lines -> [sharers : SUBSET Caches, exclusive : BOOLEAN]]]
        /\ dir'[f.c][f.l].sharers = {f.child} /\ dir'[f.c][f.l].exclusive = TRUE
        /\ \A c \in Inner, l \in Lines : c # f.c \/ l # f.l => dir'[c][l] = dir[c][l]
    <2>1. PICK Entries : Entries = [sharers : SUBSET Caches, exclusive : BOOLEAN]
      OBVIOUS
    <2>2. PICK y : y = [sharers |-> {f.child}, exclusive |-> TRUE]
      OBVIOUS
    <2>3. y \in Entries /\ dir \in [Inner -> [Lines -> Entries]]
      <3>1. y \in Entries
        BY <1>3, <2>1, <2>2
      <3>2. dir \in [Inner -> [Lines -> Entries]]
        BY <2>1 DEF IInv, Types
      <3> QED
        BY <3>1, <3>2
    <2>4. dir' = [dir EXCEPT ![f.c][f.l] = y]
      BY <1>2, <2>2
    <2>5. /\ dir' \in [Inner -> [Lines -> Entries]] /\ dir'[f.c][f.l] = y
          /\ \A c \in Inner, l \in Lines : c # f.c \/ l # f.l => dir'[c][l] = dir[c][l]
      BY <1>3, <2>3, <2>4, OneCell, SMTT(40)
    <2> QED
      BY <2>1, <2>2, <2>5
  <1>8. ChangesOnlyAt(f)
    BY <1>2, <1>3, <1>6, <1>7 DEF ChangesOnlyAt
  <1>9. Knows(h, TRUE)'
    <2>1. h.child # Core
      BY <1>3, <1>4, TreeFacts
    <2>2. KnowsOwn(h, TRUE)'
      BY <1>4, <2>1 DEF KnowsOwn
    <2>3. KnowsChild(h, state[h.child][h.l])'
      BY <1>4, <1>6 DEF KnowsChild, Granted, Gets
    <2> QED
      BY <1>3, <1>4, <2>2, <2>3 DEF Knows
  <1>10. dirty' \subseteq Lines
    BY <1>2, SMTT(40) DEF IInv, Types
  <1>11. /\ Types' /\ StackShape' /\ Locks' /\ Exclusion' /\ FramesKnow' /\ FilterKnows'
         /\ Replaced(t, h) /\ Keeps(t, Depth(t) - 1)
    BY <1>2, <1>4, <1>6, <1>7, <1>8, <1>9, <1>10, AnswerMoves, Zenon
  <1>12. Copies'
    <2>1. \A k, c, l : Upgrades(k, c, l) => Upgrades(k, c, l)'
      BY <1>2, <1>3, <1>11, AllGrantsStay DEF IInv
    <2>2. Types /\ Copies /\ tags' = tags
      BY <1>2 DEF IInv
    <2>3. state'[f.child][f.l] = "E" /\ state'[f.child][f.l] \in Owned
      BY <1>6 DEF Owned
    <2>4. \A d \in Caches, m \in Lines : d # f.child \/ m # f.l =>
               /\ state'[d][m] = "I" <=> state[d][m] = "I"
               /\ state'[d][m] \in Owned <=> state[d][m] \in Owned
      BY <1>6, SMTT(40)
    <2>5. \A j \in dir'[f.c][f.l].sharers :
              IF j = f.child THEN state'[f.child][f.l] # "I" ELSE j \in Kids(f.c, f.l)
      BY <1>7, <2>3
    <2>6. \A j \in Kids(f.c, f.l) : j # f.child => j \in dir'[f.c][f.l].sharers /\ ~dir'[f.c][f.l].exclusive
      BY <1>5
    <2>7. \A j \in Kids(f.c, f.l) : j # f.child => state[j][f.l] \notin Owned
      BY <1>5
    <2>8. \A d \in Inner, m \in Lines : d # f.c \/ m # f.l => dir'[d][m] = dir[d][m]
      BY <1>7
    <2>9. /\ state'[f.child][f.l] # "I" => f.l \in tags[f.child] /\ state[f.c][f.l] # "I"
          /\ state'[f.child][f.l] \in Owned => Kids(f.c, f.l) \subseteq {f.child} /\ state[f.c][f.l] \in Owned
          /\ \A j \in Kids(f.child, f.l) :
                state'[f.child][f.l] # "I" /\ (state[j][f.l] \in Owned => state'[f.child][f.l] \in Owned)
          /\ state'[f.child][f.l] # "I" =>
                f.child \in dir'[f.c][f.l].sharers /\ (state'[f.child][f.l] \in Owned <=> dir'[f.c][f.l].exclusive)
      BY <1>3, <1>5, <1>7, <2>3 DEF Owned
    <2>10. \A j, d, m : (d # f.c \/ m # f.l) /\ Upgrades(j, d, m) => Upgrades(j, d, m)'
      BY <2>1
    <2>11. f.c \in Inner /\ f.l \in Lines /\ f.child \in Caches /\ Parent[f.child][f.l] = f.c
      BY <1>3, SMTT(40)
    <2>12. ChangesBelow(f.c, f.l, f.child)
      BY <2>4, <2>5, <2>6, <2>7, <2>8, <2>9, <2>10, Zenon DEF ChangesBelow
    <2> QED
      BY <2>2, <2>11, <2>12, CopiesOfChild
  <1>13. WrittenKept'
    <2>1. \A c \in Caches : \A l \in dirty' : state[c][l] = "M" => Written(l)'
      <3> SUFFICES ASSUME NEW c \in Caches, NEW l \in dirty', state[c][l] = "M"
                   PROVE  state'[c][l] = "M"
        BY DEF Written
      <3>1. l \in Lines /\ (c # f.child \/ l # f.l)
        BY <1>5, <1>10
      <3> QED
        BY <3>1, <1>6
    <2>2. \A l \in dirty' : ~Carries(f, l)
      BY <1>2 DEF Carries
    <2> QED
      BY <1>2, <1>3, <1>11, <2>1, <2>2, WrittenStep DEF IInv
  <1> QED
    BY <1>2, <1>11, <1>12, <1>13 DEF IInv

(* A load of a line other children may have goes on to downgrade the owner. *)
LEMMA TopOfGets ==
    ASSUME IInv, NEW t \in L1s, TopAccess(t), NEW f, f = Last(stack[t]), f.c \in Inner, f.type = "GETS",
           ~GrantsExclusive(dir[f.c][f.l], state[f.c][f.l])
    PROVE  IInv'
  <1>1. PICK h : h = [f EXCEPT !.pc = "grant"]
    OBVIOUS
  <1>2. /\ Busy(t) /\ f.pc = "top"
        /\ ok' = (ok /\ state[f.c][f.l] # "I" /\ f.child \notin dir[f.c][f.l].sharers)
        /\ stack' = [stack EXCEPT ![t] = Append(Front(@), h)]
        /\ UNCHANGED <<state, dir, dirty, tags, bcc, tcc, filter, filterLock, left>>
    BY <1>1, TreeFacts DEF TopAccess, At, Goto, Expect
  <1>3. /\ f = Top(t) /\ f \in Frames /\ f.op = "access" /\ f.wb = FALSE /\ f.type \in Gets
        /\ f.c \in Caches /\ f.l \in Lines /\ f.l \in tags[f.c]
        /\ f.child \in Caches /\ KnowsChild(f, state[f.child][f.l])
        /\ dir[f.c][f.l].sharers \subseteq Kids(f.c, f.l)
        /\ Granted(f.type, state[f.c][f.l])
    <2>1. f.pc \in {"top", "grant"} /\ f.pc = "top" /\ Busy(t) /\ f.type \in Gets
      BY <1>2 DEF Gets
    <2>2. /\ f = Top(t) /\ f \in Frames /\ f.op = "access" /\ f.wb = FALSE
          /\ f.c \in Caches /\ f.l \in Lines /\ f.l \in tags[f.c] /\ Granted(f.type, state[f.c][f.l])
      BY <2>1, AnswerKnows
    <2>3. /\ f.child \in Caches /\ KnowsChild(f, state[f.child][f.l])
          /\ dir[f.c][f.l].sharers \subseteq Kids(f.c, f.l)
      BY <2>1, AnswerChild, AnswerEntry
    <2> QED
      BY <2>1, <2>2, <2>3
  <1>4. /\ h \in Frames /\ h.pc = "grant" /\ h.op = f.op /\ h.c = f.c /\ h.l = f.l /\ h.child = f.child
        /\ h.type = f.type /\ h.wb = FALSE
    BY <1>1, <1>3 DEF Frames
  <1>5. state[f.child][f.l] = "I" /\ f.child \notin dir[f.c][f.l].sharers
    <2>1. state[f.child][f.l] = "I"
      BY <1>2, <1>3 DEF KnowsChild
    <2> QED
      BY <2>1, <1>3 DEF Kids
  <1>6. ok' = TRUE
    BY <1>2, <1>3, <1>5 DEF IInv, Granted
  <1>7. Knows(h, TRUE)'
    <2>1. KnowsOwn(h, TRUE)'
      BY <1>2, <1>3, <1>4, <1>5 DEF KnowsOwn
    <2>2. KnowsChild(h, state[h.child][h.l])'
      BY <1>2, <1>4, <1>5 DEF KnowsChild
    <2> QED
      BY <1>3, <1>4, <2>1, <2>2 DEF Knows
  <1>8. ChangesOnlyAt(f)
    BY <1>2 DEF ChangesOnlyAt
  <1>9. /\ state' \in [Caches -> [Lines -> MESI]] /\ dirty' \subseteq Lines
        /\ dir' \in [Inner -> [Lines -> [sharers : SUBSET Caches, exclusive : BOOLEAN]]]
    BY <1>2, SMTT(40) DEF IInv, Types
  <1>10. /\ Types' /\ StackShape' /\ Locks' /\ Exclusion' /\ FramesKnow' /\ FilterKnows'
         /\ Replaced(t, h) /\ Keeps(t, Depth(t) - 1)
    BY <1>2, <1>3, <1>4, <1>7, <1>8, <1>9, AnswerMoves
  <1>11. stack'[t] # << >>
    BY <1>2, <1>10, StillBusy DEF IInv
  <1>12. Copies' /\ WrittenKept'
    BY <1>2, <1>3, <1>10, <1>11, QuietStep
  <1> QED
    BY <1>6, <1>10, <1>12 DEF IInv

(* A store of a child goes on to invalidate the others; it gives up its own *)
(* place in the directory, to get it back when it is granted the line.     *)
LEMMA TopOfGetx ==
    ASSUME IInv, NEW t \in L1s, TopAccess(t), NEW f, f = Last(stack[t]), f.c \in Inner, f.type = "GETX"
    PROVE  IInv'
  <1>1. PICK h : h = [f EXCEPT !.pc = "grant"]
    OBVIOUS
  <1>2. /\ Busy(t) /\ f.pc = "top"
        /\ ok' = (ok /\ state[f.c][f.l] = "M"
                     /\ (f.child \in dir[f.c][f.l].sharers => ~IsExclusive(dir[f.c][f.l])))
        /\ dir' = [dir EXCEPT ![f.c][f.l].sharers = @ \ {f.child}]
        /\ stack' = [stack EXCEPT ![t] = Append(Front(@), h)]
        /\ UNCHANGED <<state, dirty, tags, bcc, tcc, filter, filterLock, left>>
    BY <1>1, TreeFacts DEF TopAccess, At, Goto, Expect
  <1>3. /\ f = Top(t) /\ f \in Frames /\ f.op = "access" /\ f.wb = FALSE /\ f.type \in Gets
        /\ f.c \in Caches /\ f.l \in Lines /\ f.l \in tags[f.c] /\ f.c # Mem
        /\ f.child \in Caches /\ KnowsChild(f, state[f.child][f.l]) /\ Parent[f.child][f.l] = f.c
        /\ dir[f.c][f.l].sharers \subseteq Kids(f.c, f.l)
        /\ state[f.c][f.l] = "M" /\ Depth(t) \in Nat \ {0}
    <2>1. f.pc \in {"top", "grant"} /\ f.pc = "top" /\ Busy(t) /\ f.type \in Gets
      BY <1>2 DEF Gets
    <2>2. /\ f = Top(t) /\ f \in Frames /\ f.op = "access" /\ f.wb = FALSE /\ Depth(t) \in Nat \ {0}
          /\ f.c \in Caches /\ f.l \in Lines /\ f.l \in tags[f.c] /\ Granted(f.type, state[f.c][f.l])
      BY <2>1, AnswerKnows
    <2>3. f.child \in Caches /\ Parent[f.child][f.l] = f.c /\ f.c # Mem
      BY <2>1, AnswerChild
    <2>4. KnowsChild(f, state[f.child][f.l]) /\ dir[f.c][f.l].sharers \subseteq Kids(f.c, f.l)
      BY <2>1, AnswerChild, AnswerEntry
    <2>5. state[f.c][f.l] = "M"
      BY <2>2 DEF Granted
    <2> QED
      BY <2>1, <2>2, <2>3, <2>4, <2>5, Zenon
  <1>4. /\ h \in Frames /\ h.pc = "grant" /\ h.op = f.op /\ h.c = f.c /\ h.l = f.l /\ h.child = f.child
        /\ h.type = f.type /\ h.wb = FALSE
    BY <1>1, <1>3 DEF Frames
  <1>5. /\ state[f.child][f.l] \in {"I", "S"}
        /\ f.child \in dir[f.c][f.l].sharers => ~dir[f.c][f.l].exclusive
    <2>1. state[f.child][f.l] \in {"I", "S"}
      BY <1>2, <1>3 DEF KnowsChild
    <2>2. ASSUME f.child \in dir[f.c][f.l].sharers PROVE ~dir[f.c][f.l].exclusive
      <3>1. f.child \in Kids(f.c, f.l)
        BY <1>3, <2>2
      <3>2. state[f.child][f.l] \in Owned <=> dir[f.c][f.l].exclusive
        BY <1>3, <3>1, KidsListed, ZenonT(60) DEF IInv
      <3> QED
        BY <2>1, <3>2 DEF Owned
    <2> QED
      BY <2>1, <2>2
  <1>6. ok' = TRUE
    BY <1>2, <1>3, <1>5 DEF IInv, IsExclusive
  <1>7. /\ dir' \in [Inner -> [Lines -> [sharers : SUBSET Caches, exclusive : BOOLEAN]]]
        /\ dir'[f.c][f.l].sharers = dir[f.c][f.l].sharers \ {f.child}
        /\ dir'[f.c][f.l].exclusive = dir[f.c][f.l].exclusive
        /\ \A c \in Inner, l \in Lines : c # f.c \/ l # f.l => dir'[c][l] = dir[c][l]
    <2>1. PICK Entries : Entries = [sharers : SUBSET Caches, exclusive : BOOLEAN]
      OBVIOUS
    <2>2. PICK y : y = [dir[f.c][f.l] EXCEPT !.sharers = @ \ {f.child}]
      OBVIOUS
    <2>3. /\ y \in Entries /\ y.sharers = dir[f.c][f.l].sharers \ {f.child}
          /\ y.exclusive = dir[f.c][f.l].exclusive
      BY <1>3, <2>1, <2>2, StateType DEF IInv
    <2>4. dir \in [Inner -> [Lines -> Entries]]
      BY <2>1, SMTT(40) DEF IInv, Types
    <2>5. dir' = [dir EXCEPT ![f.c][f.l] = y]
      BY <1>2, <2>2, Zenon
    <2>6. /\ dir' \in [Inner -> [Lines -> Entries]] /\ dir'[f.c][f.l] = y
          /\ \A c \in Inner, l \in Lines : c # f.c \/ l # f.l => dir'[c][l] = dir[c][l]
      BY <1>3, <2>3, <2>4, <2>5, OneCell
    <2> QED
      BY <2>1, <2>3, <2>6
  <1>8. Knows(h, TRUE)'
    <2>1. /\ h.l \in tags'[h.c] /\ state'[h.c][h.l] = "M" /\ h.child \notin dir'[h.c][h.l].sharers
          /\ h.pc = "grant" /\ h.type = "GETX" /\ h.wb = FALSE
      <3>1. h.l \in tags'[h.c] /\ state'[h.c][h.l] = "M"
        BY <1>2, <1>3, <1>4, Zenon
      <3>2. h.child \notin dir'[h.c][h.l].sharers
        BY <1>4, <1>7
      <3> QED
        BY <1>4, <3>1, <3>2, Zenon
    <2>2. KnowsOwn(h, TRUE)'
      BY <2>1 DEF KnowsOwn, Granted
    <2>3. KnowsChild(h, state[h.child][h.l])'
      BY <1>2, <1>4, <1>5, ZenonT(60) DEF KnowsChild
    <2> QED
      BY <1>3, <1>4, <2>2, <2>3 DEF Knows
  <1>9. ChangesOnlyAt(f)
    BY <1>2, <1>7, Zenon DEF ChangesOnlyAt
  <1>10. state' \in [Caches -> [Lines -> MESI]] /\ dirty' \subseteq Lines
    BY <1>2, SMTT(40) DEF IInv, Types
  <1>11. /\ Types' /\ StackShape' /\ Locks' /\ Exclusion' /\ FramesKnow' /\ FilterKnows'
         /\ Replaced(t, h) /\ Keeps(t, Depth(t) - 1)
    BY <1>2, <1>3, <1>4, <1>7, <1>8, <1>9, <1>10, AnswerMoves, Zenon
  <1>12. \A k, c, l : Upgrades(k, c, l) => Upgrades(k, c, l)'
    BY <1>2, <1>3, <1>11, AllGrantsStay DEF IInv
  <1>13. Upgrades(f.child, f.c, f.l)'
    <2>1. Depth(t) \in 1..Len(stack'[t]) /\ stack'[t][Depth(t)] = h
      BY <1>3, <1>11 DEF Replaced
    <2>2. IsUpgrade(stack'[t][Depth(t)], f.child, f.c, f.l)
      BY <1>4, <2>1 DEF IsUpgrade
    <2> QED
      BY <2>1, <2>2 DEF Upgrades
  <1>14. Copies'
    <2>1. \A c, l : Kids(c, l)' = Kids(c, l)
      <3>1. state' = state
        BY <1>2, Zenon
      <3> QED
        BY <3>1 DEF Kids
    <2>2. Tagged' /\ Included' /\ Exclusive'
      BY <1>2, <2>1, Zenon DEF IInv, Copies, Tagged, Included, Exclusive
    <2>3. Listed'
      <3> SUFFICES ASSUME NEW k \in Caches, NEW l \in Lines, state[k][l] # "I", Parent[k][l] # Mem
                   PROVE  LET e == dir'[Parent[k][l]][l]
                          IN  /\ k \in e.sharers \/ Upgrades(k, Parent[k][l], l)'
                              /\ state[k][l] \in Owned <=> e.exclusive
        BY <1>2, Zenon DEF Listed
      <3>1. /\ k \in dir[Parent[k][l]][l].sharers \/ Upgrades(k, Parent[k][l], l)
            /\ state[k][l] \in Owned <=> dir[Parent[k][l]][l].exclusive
            /\ Parent[k][l] \in Inner
        BY TreeFacts, SMTT(40) DEF IInv, Copies, Listed
      <3>2. CASE Parent[k][l] = f.c /\ l = f.l
        BY <3>1, <3>2, <1>7, <1>12, <1>13, ZenonT(60)
      <3>3. CASE Parent[k][l] # f.c \/ l # f.l
        BY <3>1, <3>3, <1>7, <1>12, SMTT(40)
      <3> QED
        BY <3>2, <3>3, SMTT(40)
    <2>4. SharersHave'
      <3> SUFFICES ASSUME NEW c \in Inner, NEW l \in Lines PROVE dir'[c][l].sharers \subseteq Kids(c, l)
        BY <2>1 DEF SharersHave
      <3>1. dir[c][l].sharers \subseteq Kids(c, l)
        BY DEF IInv, Copies, SharersHave
      <3>2. dir'[c][l].sharers \subseteq dir[c][l].sharers
        <4>1. CASE c = f.c /\ l = f.l
          BY <1>7, <4>1, Zenon
        <4>2. CASE c # f.c \/ l # f.l
          BY <1>7, <4>2, Zenon
        <4> QED
          BY <4>1, <4>2
      <3> QED
        BY <3>1, <3>2
    <2> QED
      BY <2>2, <2>3, <2>4, ZenonT(60) DEF Copies
  <1>15. WrittenKept'
    BY <1>2, <1>3, <1>11, WrittenStep DEF IInv, Carries, Written
  <1> QED
    BY <1>6, <1>11, <1>14, <1>15 DEF IInv

(* The five ways in which a cache goes on once it has the line. *)
LEMMA TopAccessStep ==
    ASSUME IInv, NEW t \in L1s, TopAccess(t)
    PROVE  IInv'
  <1>1. PICK f : f = Last(stack[t])
    OBVIOUS
  <1>2. Busy(t) /\ f.pc \in {"top", "grant"}
    BY <1>1, Zenon DEF TopAccess, At
  <1>3. (f.c \in L1s \/ f.c \in Inner) /\ f.type \in Gets \cup Puts
    BY <1>1, <1>2, AnswerKnows DEF Caches
  <1>4. CASE f.c \in L1s
    BY <1>1, <1>4, TopOfL1
  <1>5. CASE f.c \in Inner /\ f.type \in Puts
    BY <1>1, <1>5, TopOfPut
  <1>6. CASE f.c \in Inner /\ f.type = "GETS"
    BY <1>1, <1>6, TopOfExclusive, TopOfGets
  <1>7. CASE f.c \in Inner /\ f.type = "GETX"
    BY <1>1, <1>7, TopOfGetx
  <1> QED
    BY <1>3, <1>4, <1>5, <1>6, <1>7, SMTT(40) DEF Gets
(* The other children have given up what they must: the child gets the line. *)
LEMMA GrantStep ==
    ASSUME IInv, NEW t \in L1s, Grant(t)
    PROVE  IInv'
  <1>1. PICK f : f = Last(stack[t])
    OBVIOUS
  <1>2. PICK e : e = dir[f.c][f.l]
    OBVIOUS
  <1>3. PICK s : s = IF f.wb THEN [state EXCEPT ![f.c][f.l] = "M"] ELSE state
    OBVIOUS
  <1>4. PICK h : h = [f EXCEPT !.pc = "end"]
    OBVIOUS
  <1>5. PICK z : z = IF f.type = "GETX" THEN "M" ELSE "S"
    OBVIOUS
  <1>6. PICK y : y = [sharers |-> e.sharers \cup {f.child}, exclusive |-> f.type = "GETX"]
    BY Zenon
  <1>7. /\ Busy(t) /\ f.pc = "grant" /\ Targets(f) = {}
        /\ ok' = (ok /\ (f.type = "GETX" => e.sharers = {}) /\ (f.type # "GETX" => ~IsExclusive(e))
                     /\ (f.wb => state[f.c][f.l] \in {"M", "E"}))
        /\ dir' = [dir EXCEPT ![f.c][f.l] = y]
        /\ state' = [s EXCEPT ![f.child][f.l] = z]
        /\ stack' = [stack EXCEPT ![t] = Append(Front(@), h)]
        /\ UNCHANGED <<tags, bcc, tcc, filter, filterLock, left, dirty>>
    BY <1>1, <1>2, <1>3, <1>4, <1>5, <1>6, Zenon DEF Grant, At, Goto, Expect, WritebackOnAccess
  <1>8. f.pc \in {"top", "grant"} /\ f.pc \in {"evict", "grant", "inval"} /\ Busy(t)
    BY <1>7
  <1>9. /\ f = Top(t) /\ f \in Frames /\ FrameShape(f) /\ Knows(f, TRUE) /\ f.op = "access"
        /\ f.c \in Caches /\ f.l \in Lines /\ f.wb \in BOOLEAN /\ f.type \in Gets
        /\ Granted(f.type, state[f.c][f.l]) /\ f.c \in Inner /\ Depth(t) \in Nat \ {0}
    <2>1. /\ f = Top(t) /\ f \in Frames /\ FrameShape(f) /\ Knows(f, TRUE) /\ f.op = "access"
          /\ f.c \in Caches /\ f.l \in Lines /\ f.wb \in BOOLEAN /\ Depth(t) \in Nat \ {0}
      BY <1>1, <1>8, AnswerKnows
    <2>2. f.type \in Gets /\ (f.type \in Gets => Granted(f.type, state[f.c][f.l]))
      BY <1>1, <1>7, <1>8, AnswerKnows
    <2>3. f.c \notin L1s
      BY <1>1, <1>7, <1>8, AnswerKnows
    <2> QED
      BY <2>1, <2>2, <2>3 DEF Caches
  <1>10. /\ f.child \in Caches /\ f.child # f.c /\ Parent[f.child][f.l] = f.c /\ f.c # Mem
         /\ KnowsChild(f, state[f.child][f.l]) /\ f.l \in tags[f.child]
    <2>1. f.child \in Caches /\ f.child # f.c /\ Parent[f.child][f.l] = f.c /\ f.c # Mem
      BY <1>1, <1>8, <1>9, AnswerChild, ZenonT(60)
    <2>2. KnowsChild(f, state[f.child][f.l]) /\ f.l \in tags[f.child]
      BY <1>1, <1>8, <1>9, AnswerChild
    <2> QED
      BY <2>1, <2>2
  <1>11. /\ e.sharers \subseteq Kids(f.c, f.l)
         /\ \A k \in Kids(f.c, f.l) : k \in e.sharers \/ (f.type = "GETX" /\ k = f.child)
    BY <1>1, <1>2, <1>8, <1>9, AnswerEntry
  <1>12. /\ f.type = "GETS" => state[f.child][f.l] = "I"
         /\ state[f.child][f.l] \in {"I", "S"}
    BY <1>7, <1>9, <1>10 DEF KnowsChild, Gets
  <1>13. InvLine(f) = f.l /\ f.l # NoLine /\ InvType(f) = IF f.type = "GETS" THEN "INVX" ELSE "INV"
    BY <1>7, <1>9, TreeFacts DEF InvLine, InvType
  <1>14. f.type = "GETX" => e.sharers = {} /\ Kids(f.c, f.l) \subseteq {f.child}
    <2>1. ASSUME f.type = "GETX" PROVE e.sharers = {} /\ Kids(f.c, f.l) \subseteq {f.child}
      <3>1. InvType(f) = "INV" /\ InvLine(f) # NoLine
        BY <1>13, <2>1
      <3>2. f.c \in Inner => dir[f.c][InvLine(f)].sharers = {}
        BY <1>1, <1>7, <1>8, <3>1, NoKidsLeft
      <3> QED
        BY <1>2, <1>9, <1>11, <1>13, <3>2
    <2> QED
      BY <2>1
  <1>15. f.type = "GETS" => ~IsExclusive(e)
    <2>1. ASSUME f.type = "GETS" PROVE ~IsExclusive(e)
      <3>1. InvType(f) = "INVX" /\ InvLine(f) = f.l /\ f.l # NoLine
        BY <1>13, <2>1
      <3>2. dir[f.c][f.l].sharers = {} \/ ~IsExclusive(dir[f.c][f.l])
        BY <1>7, <1>8, <1>9, <3>1, TargetsAre DEF IInv
      <3>3. CASE e.sharers = {}
        BY <3>3, FS_EmptySet DEF IsExclusive
      <3> QED
        BY <1>2, <3>2, <3>3
    <2> QED
      BY <2>1
  <1>16. \A j \in Kids(f.c, f.l) : j # f.child => state[j][f.l] \notin Owned
    <2> SUFFICES ASSUME NEW j \in Kids(f.c, f.l), j # f.child, state[j][f.l] \in Owned
                 PROVE  FALSE
      OBVIOUS
    <2>1. e.exclusive /\ Kids(f.c, f.l) = {j}
      BY <1>2, <1>9, <1>10, KidsListed DEF IInv
    <2>2. f.type = "GETS" /\ e.sharers = {j}
      BY <1>9, <1>11, <1>14, <2>1 DEF Gets
    <2>3. IsExclusive(e)
      BY <2>1, <2>2, FS_Singleton DEF IsExclusive
    <2> QED
      BY <1>15, <2>2, <2>3
  <1>17. f.wb => state[f.c][f.l] \in Owned
    BY <1>7, <1>9, <1>13 DEF Knows, KnowsOwn
  <1>18. ok' = TRUE
    BY <1>7, <1>9, <1>14, <1>15, <1>17 DEF IInv, Owned, Gets
  <1>19. /\ s \in [Caches -> [Lines -> MESI]]
         /\ \A c \in Caches, l \in Lines : c # f.c \/ l # f.l => s[c][l] = state[c][l]
         /\ f.wb => s[f.c][f.l] = "M"
         /\ ~f.wb => s = state
    <2>1. state \in [Caches -> [Lines -> MESI]]
      BY DEF IInv, Types
    <2>2. CASE f.wb = TRUE
      <3>1. s = [state EXCEPT ![f.c][f.l] = "M"] /\ "M" \in MESI
        BY <1>3, <2>2 DEF MESI
      <3> QED
        BY <2>1, <2>2, <3>1, <1>9, OneCell
    <2>3. CASE f.wb = FALSE
      BY <2>1, <2>3, <1>3
    <2> QED
      BY <2>2, <2>3, <1>9
  <1>20. /\ state' \in [Caches -> [Lines -> MESI]] /\ state'[f.child][f.l] = z
         /\ \A c \in Caches, l \in Lines : c # f.child \/ l # f.l => state'[c][l] = s[c][l]
    <2>1. z \in MESI
      BY <1>5 DEF MESI
    <2> QED
      BY <1>7, <1>9, <1>10, <1>19, <2>1, OneCell
  <1>21. /\ f.wb => state'[f.c][f.l] = "M"
         /\ \A c \in Caches, l \in Lines : c # f.c /\ (c # f.child \/ l # f.l) => state'[c][l] = state[c][l]
         /\ \A l \in Lines : l # f.l => state'[f.c][l] = state[f.c][l]
         /\ state'[f.c][f.l] = "I" <=> state[f.c][f.l] = "I"
         /\ state'[f.c][f.l] \in Owned <=> state[f.c][f.l] \in Owned
         /\ state[f.c][f.l] = "M" => state'[f.c][f.l] = "M"
    <2>1. /\ \A c \in Caches, l \in Lines : c # f.c /\ (c # f.child \/ l # f.l) => state'[c][l] = state[c][l]
          /\ \A l \in Lines : l # f.l => state'[f.c][l] = state[f.c][l]
      BY <1>9, <1>10, <1>19, <1>20
    <2>2. state'[f.c][f.l] = s[f.c][f.l]
      BY <1>9, <1>10, <1>20
    <2>3. CASE f.wb = TRUE
      BY <2>1, <2>2, <2>3, <1>17, <1>19 DEF Owned
    <2>4. CASE f.wb = FALSE
      BY <2>1, <2>2, <2>4, <1>19
    <2> QED
      BY <2>3, <2>4, <1>9
  <1>22. /\ dir' \in [Inner -> [Lines -> [sharers : SUBSET Caches, exclusive : BOOLEAN]]]
         /\ dir'[f.c][f.l].sharers = e.sharers \cup {f.child}
         /\ dir'[f.c][f.l].exclusive = (f.type = "GETX")
         /\ \A c \in Inner, l \in Lines : c # f.c \/ l # f.l => dir'[c][l] = dir[c][l]
    <2>1. PICK Entries : Entries = [sharers : SUBSET Caches, exclusive : BOOLEAN]
      OBVIOUS
    <2>2. y \in Entries /\ y.sharers = e.sharers \cup {f.child} /\ y.exclusive = (f.type = "GETX")
      <3>1. e.sharers \in SUBSET Caches
        BY <1>2, <1>9, StateType DEF IInv
      <3> QED
        BY <1>6, <1>10, <2>1, <3>1
    <2>3. dir \in [Inner -> [Lines -> Entries]]
      BY <2>1 DEF IInv, Types
    <2>4. /\ dir' \in [Inner -> [Lines -> Entries]] /\ dir'[f.c][f.l] = y
          /\ \A c \in Inner, l \in Lines : c # f.c \/ l # f.l => dir'[c][l] = dir[c][l]
      BY <1>7, <1>9, <2>2, <2>3, OneCell
    <2> QED
      BY <2>1, <2>2, <2>4
  <1>23. /\ h \in Frames /\ h.pc = "end" /\ h.op = f.op /\ h.c = f.c /\ h.l = f.l /\ h.child = f.child
         /\ h.type = f.type
    BY <1>4, <1>9 DEF Frames
  <1>24. ChangesOnlyAt(f)
    <2>1. \A l \in Lines : state'[f.c][l] = "I" <=> state[f.c][l] = "I"
      BY <1>21
    <2> QED
      BY <1>7, <1>21, <1>22, <2>1 DEF ChangesOnlyAt
  <1>25. Knows(h, TRUE)'
    <2>1. h.child # Core
      BY <1>10, <1>23, TreeFacts
    <2>2. KnowsOwn(h, TRUE)'
      BY <1>23, <2>1 DEF KnowsOwn
    <2>3. KnowsChild(h, state[h.child][h.l])'
      BY <1>5, <1>9, <1>20, <1>23 DEF KnowsChild, Granted, Gets
    <2> QED
      BY <1>9, <1>23, <2>2, <2>3 DEF Knows
  <1>26. dirty' \subseteq Lines
    BY <1>7, SMTT(40) DEF IInv, Types
  <1>27. /\ Types' /\ StackShape' /\ Locks' /\ Exclusion' /\ FramesKnow' /\ FilterKnows'
         /\ Replaced(t, h) /\ Keeps(t, Depth(t) - 1)
    BY <1>1, <1>7, <1>8, <1>20, <1>22, <1>23, <1>24, <1>25, <1>26, AnswerMoves, Zenon
  <1>28. Copies'
    <2>1. \A j, d, m : (d # f.c \/ m # f.l) /\ Upgrades(j, d, m) => Upgrades(j, d, m)'
      <3> SUFFICES ASSUME NEW j, NEW d, NEW m, d # f.c \/ m # f.l, Upgrades(j, d, m)
                   PROVE  Upgrades(j, d, m)'
        OBVIOUS
      <3>1. \A i \in (Depth(t) - 1 + 1)..Depth(t) : stack[t][i] = f
        BY <1>9 DEF Top, Depth
      <3>2. ~IsUpgrade(f, j, d, m)
        BY DEF IsUpgrade
      <3>3. \A i \in (Depth(t) - 1 + 1)..Depth(t) : IsUpgrade(stack[t][i], j, d, m) =>
                i \in 1..Len(stack'[t]) /\ IsUpgrade(stack'[t][i], j, d, m)
        BY <3>1, <3>2
      <3> QED
        BY <1>27, <3>3, GrantsStay DEF IInv
    <2>2. Types /\ Copies /\ tags' = tags
      BY <1>7 DEF IInv
    <2>3. \A d \in Caches, m \in Lines : d # f.child \/ m # f.l =>
               /\ state'[d][m] = "I" <=> state[d][m] = "I"
               /\ state'[d][m] \in Owned <=> state[d][m] \in Owned
      BY <1>21
    <2>4. \A j \in dir'[f.c][f.l].sharers :
              IF j = f.child THEN state'[f.child][f.l] # "I" ELSE j \in Kids(f.c, f.l)
      BY <1>5, <1>11, <1>20, <1>22
    <2>5. \A j \in Kids(f.c, f.l) : j # f.child => j \in dir'[f.c][f.l].sharers /\ ~dir'[f.c][f.l].exclusive
      BY <1>11, <1>14, <1>22
    <2>6. \A d \in Inner, m \in Lines : d # f.c \/ m # f.l => dir'[d][m] = dir[d][m]
      BY <1>22
    <2>7. \A j \in Kids(f.child, f.l) :
              state'[f.child][f.l] # "I" /\ (state[j][f.l] \in Owned => state'[f.child][f.l] \in Owned)
      <3>1. CASE state[f.child][f.l] = "I"
        <4>1. ASSUME NEW k \in Kids(f.child, f.l) PROVE FALSE
          <5>1. k \in Caches /\ Parent[k][f.l] = f.child /\ state[k][f.l] # "I"
            BY DEF Kids
          <5>2. Included /\ Parent[k][f.l] # Mem
            BY <5>1, <1>10, TreeFacts DEF IInv, Copies
          <5> QED
            BY <3>1, <5>1, <5>2, <1>9 DEF Included
        <4> QED
          BY <4>1
      <3>2. CASE state[f.child][f.l] # "I"
        BY <3>2, <1>5, <1>9, <1>12, <1>20 DEF Owned, Gets
      <3> QED
        BY <3>1, <3>2
    <2>8. /\ state'[f.child][f.l] # "I" => f.l \in tags[f.child] /\ state[f.c][f.l] # "I"
          /\ state'[f.child][f.l] \in Owned => Kids(f.c, f.l) \subseteq {f.child} /\ state[f.c][f.l] \in Owned
          /\ state'[f.child][f.l] # "I" =>
                f.child \in dir'[f.c][f.l].sharers /\ (state'[f.child][f.l] \in Owned <=> dir'[f.c][f.l].exclusive)
      BY <1>5, <1>9, <1>10, <1>14, <1>20, <1>22 DEF Owned, Gets, Granted
    <2>9. f.c \in Inner /\ f.l \in Lines /\ f.child \in Caches /\ Parent[f.child][f.l] = f.c
      BY <1>9, <1>10
    <2>10. ChangesBelow(f.c, f.l, f.child)
      BY <1>16, <2>1, <2>3, <2>4, <2>5, <2>6, <2>7, <2>8 DEF ChangesBelow
    <2> QED
      BY <2>2, <2>9, <2>10, CopiesOfChild
  <1>29. WrittenKept'
    <2>1. \A c \in Caches : \A l \in dirty' : state[c][l] = "M" => Written(l)'
      <3> SUFFICES ASSUME NEW c \in Caches, NEW l \in dirty', state[c][l] = "M"
                   PROVE  state'[c][l] = "M"
        BY DEF Written
      <3>1. l \in Lines /\ (c # f.child \/ l # f.l)
        BY <1>12, <1>26
      <3> QED
        BY <3>1, <1>21
    <2>2. \A l \in dirty' : Carries(f, l) => Written(l)'
      BY <1>9, <1>13, <1>21 DEF Carries, Written
    <2>3. \A l \in dirty' : l \in dirty
      BY <1>7
    <2> QED
      BY <1>7, <1>9, <1>27, <2>1, <2>2, <2>3, WrittenStep DEF IInv
  <1> QED
    BY <1>18, <1>27, <1>28, <1>29 DEF IInv

-----------------------------------------------------------------------------
(* Each step keeps the invariant: an invalidation is done *)

(* A call that waits for the access it made of its parent, for the line    *)
(* itself, gets it.                                                        *)
LEMMA WaitsForGets ==
    ASSUME Types, StackShape, NEW u \in L1s, NEW i \in 1..Depth(u), i # Depth(u),
           stack[u][i].pc = "top"
    PROVE  stack[u][i].type \in Gets
  <1>1. i + 1 \in 2..Depth(u) /\ (i + 1) - 1 = i
    BY LenProperties DEF Types, Depth
  <1>2. Calls(stack[u][(i + 1) - 1], stack[u][i + 1])
    BY <1>1 DEF StackShape, Depth
  <1>3. Calls(stack[u][i], stack[u][i + 1])
    BY <1>1, <1>2, SMTT(40)
  <1> QED
    BY <1>3 DEF Calls, AsksParent, TellsChild

(* An invalidation about to be done: the cache has the line, owns it if it *)
(* is to be downgraded, and its children have done their part.             *)
LEMMA InvalidateKnows ==
    ASSUME IInv, NEW t \in L1s, Busy(t), NEW f, f = Last(stack[t]), f.pc = "inval", Targets(f) = {}
    PROVE  /\ f = Top(t) /\ f \in Frames /\ f.op = "inval" /\ Holds(f, TRUE)
           /\ f.type \in {"INV", "INVX"} /\ f.c \in Caches /\ f.l \in Lines /\ InvLine(f) = f.l
           /\ Parent[f.c][f.l] \in Inner /\ f.wb \in BOOLEAN
           /\ f.c \in dir[Parent[f.c][f.l]][f.l].sharers
           /\ f.c \in Kids(Parent[f.c][f.l], f.l) /\ state[f.c][f.l] # "I" /\ f.l \in tags[f.c]
           /\ f.type = "INVX" => state[f.c][f.l] \in Owned
           /\ f.wb => state[f.c][f.l] \in Owned
           /\ state[Parent[f.c][f.l]][f.l] # "I"
           /\ state[f.c][f.l] \in Owned => state[Parent[f.c][f.l]][f.l] \in Owned
           /\ f.type = "INV" => Kids(f.c, f.l) = {}
           /\ \A j \in Kids(f.c, f.l) : state[j][f.l] \notin Owned
  <1>1. /\ f = Top(t) /\ f \in Frames /\ FrameShape(f) /\ Knows(f, TRUE) /\ f.c \in Caches /\ f.l \in Lines
        /\ f.op \in {"access", "inval"} /\ f.wb \in BOOLEAN
    BY TopKnows DEF IInv
  <1>2. f.op = "inval" /\ f.type \in {"INV", "INVX"} /\ Holds(f, TRUE)
    BY <1>1 DEF FrameShape, AccessShape, Holds
  <1>3. InvLine(f) = f.l /\ InvType(f) = f.type /\ f.l # NoLine
    BY <1>1, TreeFacts DEF InvLine, InvType
  <1>4. PICK p : p = Parent[f.c][f.l]
    OBVIOUS
  <1>5. p \in Inner /\ p # Mem /\ KnowsEntry(f)
    <2>1. \E g \in Frames : g.c = Parent[f.c][f.l] /\ g.c \in Inner /\ g.c # Mem /\ KnowsEntry(f)
      BY <1>2, SenderKnows DEF IInv
    <2> QED
      BY <1>4, <2>1
  <1>6. f.c \in dir[p][f.l].sharers /\ (f.type = "INVX" => dir[p][f.l].exclusive)
    BY <1>4, <1>5 DEF KnowsEntry
  <1>7. f.c \in Kids(p, f.l)
    BY <1>1, <1>5, <1>6 DEF IInv, Copies, SharersHave
  <1>8. /\ state[f.c][f.l] # "I" /\ state[p][f.l] # "I"
        /\ state[f.c][f.l] \in Owned <=> dir[p][f.l].exclusive
        /\ state[f.c][f.l] \in Owned => state[p][f.l] \in Owned
    BY <1>1, <1>5, <1>7, KidsListed DEF IInv
  <1>9. f.l \in tags[f.c]
    BY <1>1, <1>8 DEF IInv, Copies, Tagged
  <1>10. f.wb => state[f.c][f.l] \in Owned
    BY <1>1, <1>3 DEF Knows, KnowsOwn
  <1>11. f.type = "INV" => Kids(f.c, f.l) = {}
    <2>1. ASSUME f.type = "INV" PROVE Kids(f.c, f.l) = {}
      <3>1. f.pc \in {"evict", "grant", "inval"} /\ InvType(f) = "INV" /\ InvLine(f) # NoLine
        BY <1>3, <2>1
      <3>2. \A k \in Kids(f.c, InvLine(f)) : f.pc = "grant"
        BY <3>1, NoKidsLeft
      <3> QED
        BY <1>3, <3>2
    <2> QED
      BY <2>1
  <1>12. ASSUME NEW j \in Kids(f.c, f.l), state[j][f.l] \in Owned
         PROVE  FALSE
    <2>1. /\ f.c # Mem /\ f.c \in Inner
          /\ j \in dir[f.c][f.l].sharers \/ Upgrades(j, f.c, f.l)
          /\ dir[f.c][f.l].exclusive /\ Kids(f.c, f.l) = {j}
      <3>1. f.c # Mem
        BY <1>1, TreeFacts
      <3> QED
        BY <1>1, <1>12, <3>1, KidsListed DEF IInv
    <2>2. ~Upgrades(j, f.c, f.l)
      BY <1>1, <1>2, OwnGrant DEF IInv
    <2>3. dir[f.c][f.l].sharers = {j}
      BY <1>1, <2>1, <2>2 DEF IInv, Copies, SharersHave
    <2>4. IsExclusive(dir[f.c][f.l])
      BY <2>1, <2>3, FS_Singleton DEF IsExclusive
    <2>5. f.pc \in {"evict", "grant", "inval"}
      OBVIOUS
    <2>6. dir[f.c][f.l].sharers = {} \/ ~IsExclusive(dir[f.c][f.l])
      BY <1>1, <1>3, <2>1, <2>5, TargetsAre DEF IInv
    <2> QED
      BY <2>3, <2>4, <2>6
  <1>13. \A j \in Kids(f.c, f.l) : state[j][f.l] \notin Owned
    BY <1>12
  <1> QED
    BY <1>1, <1>2, <1>3, <1>4, <1>5, <1>6, <1>7, <1>8, <1>9, <1>10, <1>11, <1>13

(* What an invalidation does to its cache and to the directory above. *)
InvalidatesBy(f) ==
    LET p == Parent[f.c][f.l]
    IN  /\ tags' = tags
        /\ \A c \in Caches, m \in Lines : c # f.c \/ m # f.l => state'[c][m] = state[c][m]
        /\ state'[f.c][f.l] = IF f.type = "INV" THEN "I" ELSE "S"
        /\ \A c \in Inner, m \in Lines : c # p \/ m # f.l => dir'[c][m] = dir[c][m]
        /\ f.type = "INV" => /\ dir'[p][f.l].sharers = dir[p][f.l].sharers \ {f.c}
                             /\ dir'[p][f.l].exclusive = dir[p][f.l].exclusive
        /\ f.type = "INVX" => /\ dir'[p][f.l].sharers = dir[p][f.l].sharers
                              /\ dir'[p][f.l].exclusive = FALSE

(* The valid children of a cache become no more. *)
LEMMA KidsLeft ==
    ASSUME Types, NEW f, f.c \in Caches, f.l \in Lines, state[f.c][f.l] # "I", InvalidatesBy(f)
    PROVE  \A c, m : m \in Lines => Kids(c, m)' \subseteq Kids(c, m)
  BY DEF Kids, InvalidatesBy

(* The calls that neither invalidate the line here nor wait for that, know *)
(* what they knew: none of them holds the cache or its parent.             *)
LEMMA OthersOfInvalidate ==
    ASSUME IInv, NEW t \in L1s, Busy(t), NEW f, f = Last(stack[t]), f.pc = "inval", Targets(f) = {},
           FilterFree(f.c), InvalidatesBy(f),
           NEW u \in L1s, NEW i \in 1..Depth(u), u # t \/ i \notin {Depth(t), Depth(t) - 1},
           NEW x \in Frames, x = stack[u][i], NEW b \in BOOLEAN, b <=> u # t /\ i = Depth(u)
    PROVE  Knows(x, b)'
  <1>1. PICK p : p = Parent[f.c][f.l]
    OBVIOUS
  <1>2. /\ f = Top(t) /\ f.op = "inval" /\ Holds(f, TRUE) /\ f.type \in {"INV", "INVX"}
        /\ f.c \in Caches /\ f.l \in Lines /\ p \in Inner /\ p # f.c
        /\ state[f.c][f.l] # "I" /\ (f.type = "INVX" => state[f.c][f.l] \in Owned)
    <2>1. /\ f = Top(t) /\ f.op = "inval" /\ Holds(f, TRUE) /\ f.type \in {"INV", "INVX"}
          /\ f.c \in Caches /\ f.l \in Lines /\ Parent[f.c][f.l] \in Inner
          /\ state[f.c][f.l] # "I" /\ (f.type = "INVX" => state[f.c][f.l] \in Owned)
      BY InvalidateKnows
    <2>2. Parent[f.c][f.l] # f.c
      BY <2>1, TreeFacts
    <2> QED
      BY <1>1, <2>1, <2>2
  <1>3. Depth(t) \in Nat \ {0} /\ Depth(u) \in Nat /\ (b = FALSE => i # Depth(u) \/ u = t)
        /\ (u = t => i # Depth(u)) /\ (b <=> i = Depth(u))
    BY TopIs DEF IInv
  <1>4. Knows(x, b)
    BY <1>3 DEF IInv, FramesKnow, Depth
  <1>5. x.c = f.c => ~Holds(x, b)
    <2>1. u # t \/ i # Depth(t)
      OBVIOUS
    <2>2. Holds(Top(t), TRUE)
      BY <1>2
    <2>3. stack[u][i].c = Top(t).c => ~Holds(stack[u][i], u # t /\ i = Depth(u))
      BY <2>1, <2>2, Alone DEF IInv
    <2> QED
      BY <1>2, <2>3 DEF Holds
  <1>6. /\ x.c = p => ~Holds(x, b)
        /\ x.op = "inval" => Parent[x.c][x.l] # p
    BY <1>1, <1>2, AloneAbove DEF IInv
  <1>7. /\ FrameShape(x) /\ x.c \in Caches /\ x.op \in {"access", "inval"} /\ x.l \in Lines
        /\ x.op = "access" /\ x.child # Core => x.c = Parent[x.child][x.l] /\ x.c \in Inner /\ x.child \in Caches
        /\ x.op = "inval" => Parent[x.c][x.l] \in Inner
        /\ x.victim \in Lines \cup {NoLine}
    <2>1. /\ FrameShape(x) /\ x.op \in {"access", "inval"}
          /\ x.op = "access" /\ x.child # Core => x.c = Parent[x.child][x.l] /\ x.c \in Inner
          /\ x.op = "inval" => Parent[x.c][x.l] \in Inner
      BY Caller, Zenon DEF IInv
    <2>2. /\ x.c \in Caches /\ x.l \in Lines /\ x.child \in Caches \cup {Core}
          /\ x.victim \in Lines \cup {NoLine}
      BY DEF Frames
    <2> QED
      BY <2>1, <2>2
  <1>8. /\ tags' = tags
        /\ \A c \in Caches, m \in Lines : c # f.c \/ m # f.l => state'[c][m] = state[c][m]
        /\ state'[f.c][f.l] = IF f.type = "INV" THEN "I" ELSE "S"
        /\ \A c \in Inner, m \in Lines : c # p \/ m # f.l => dir'[c][m] = dir[c][m]
        /\ \A c, m : m \in Lines => Kids(c, m)' \subseteq Kids(c, m)
    <2>1. \A c, m : m \in Lines => Kids(c, m)' \subseteq Kids(c, m)
      BY <1>2, KidsLeft DEF IInv
    <2> QED
      BY <1>1, <2>1, ZenonT(60) DEF InvalidatesBy
  <1>9. CASE x.c = f.c
    <2>1. KnowsOwn(x, b)'
      <3>1. x.pc \notin {"evict", "access", "grant", "end", "inval"} /\ (x.pc \in {"insert", "top"} => b = FALSE)
        BY <1>5, <1>9 DEF Holds
      <3>2. ~(x.pc = "fill" /\ x.child = Core)
        <4> SUFFICES ASSUME x.pc = "fill", x.child = Core PROVE FALSE
          OBVIOUS
        <4>1. x.op = "access" /\ x.c \in L1s
          BY <1>7 DEF FrameShape, AccessShape
        <4>2. x.c = u
          BY <4>1, EntersOwnL1 DEF IInv
        <4>3. u \in filterLock
          BY TopLocks DEF IInv
        <4> QED
          BY <1>9, <4>2, <4>3 DEF FilterFree
      <3>3. KnowsOwn(x, b)
        BY <1>4 DEF Knows
      <3> QED
        BY <1>7, <1>8, <3>1, <3>2, <3>3 DEF KnowsOwn
    <2>2. ASSUME x.op = "access", x.child # Core
          PROVE  KnowsChild(x, state'[x.child][x.l])
      <3>1. x.child # f.c /\ KnowsChild(x, state[x.child][x.l])
        <4>1. Parent[x.child][x.l] # x.child
          BY <1>7, <2>2, TreeFacts
        <4> QED
          BY <1>4, <1>7, <1>9, <2>2, <4>1 DEF Knows
      <3>2. state'[x.child][x.l] = state[x.child][x.l]
        BY <1>7, <1>8, <2>2, <3>1
      <3> QED
        BY <3>1, <3>2
    <2>3. ASSUME x.op = "inval" PROVE KnowsEntry(x)'
      BY <1>4, <1>6, <1>7, <1>8, <2>3, ZenonT(60) DEF Knows, KnowsEntry
    <2> QED
      BY <2>1, <2>2, <2>3 DEF Knows
  <1>10. CASE x.c # f.c
    <2>1. KnowsOwn(x, b)'
      <3>1. KnowsOwn(x, b) /\ (x.c = p => x.pc # "grant")
        BY <1>4, <1>6 DEF Knows, Holds
      <3>2. \A m \in Lines : state'[x.c][m] = state[x.c][m]
        BY <1>7, <1>8, <1>10
      <3>3. x.pc = "grant" => x.c \in Inner
        BY <1>7 DEF FrameShape, AccessShape, Caches
      <3>4. x.pc = "grant" => dir'[x.c][x.l] = dir[x.c][x.l]
        BY <1>7, <1>8, <3>1, <3>3
      <3>5. InvLine(x) \in Lines \cup {NoLine}
        BY <1>7 DEF InvLine
      <3> QED
        BY <1>7, <1>8, <3>1, <3>2, <3>4, <3>5 DEF KnowsOwn
    <2>2. ASSUME x.op = "access", x.child # Core
          PROVE  KnowsChild(x, state'[x.child][x.l])
      <3>1. KnowsChild(x, state[x.child][x.l])
        BY <1>4, <2>2 DEF Knows
      <3>2. CASE x.child # f.c \/ x.l # f.l
        BY <1>7, <1>8, <2>2, <3>1, <3>2
      <3>3. CASE x.child = f.c /\ x.l = f.l
        <4>1. /\ x.pc \notin {"evict", "access", "grant", "end", "inval"}
              /\ x.pc \in {"insert", "top"} => b = FALSE
              /\ x.c \in Inner
          BY <1>1, <1>6, <1>7, <2>2, <3>3 DEF Holds
        <4>2. x.pc \in {"insert", "top"} => x.type \in Gets
          <5>1. x.pc = "insert" => x.type \in Gets
            BY <1>7, <2>2 DEF FrameShape, AccessShape
          <5>2. x.pc = "top" => x.type \in Gets
            BY <1>3, <4>1, WaitsForGets DEF IInv
          <5> QED
            BY <5>1, <5>2
        <4>3. x.type \in Gets \cup Puts
          BY <1>7, <2>2 DEF FrameShape, AccessShape
        <4>4. /\ f.type = "INV" => state'[x.child][x.l] = "I"
              /\ f.type = "INVX" => state'[x.child][x.l] = "S" /\ state[x.child][x.l] \in Owned
          BY <1>2, <1>8, <3>3
        <4>5. state[x.child][x.l] # "I"
          BY <1>2, <3>3, SMTT(40)
        <4>6. CASE f.type = "INV"
          BY <3>1, <4>1, <4>2, <4>3, <4>4, <4>5, <4>6, SMTT(40) DEF KnowsChild, Gets, Puts
        <4>7. CASE f.type = "INVX"
          BY <3>1, <4>1, <4>2, <4>3, <4>4, <4>5, <4>7 DEF KnowsChild, Gets, Puts, Owned
        <4> QED
          BY <1>2, <4>6, <4>7
      <3> QED
        BY <3>2, <3>3
    <2>3. ASSUME x.op = "inval" PROVE KnowsEntry(x)'
      BY <1>4, <1>6, <1>7, <1>8, <2>3 DEF Knows, KnowsEntry
    <2> QED
      BY <2>1, <2>2, <2>3 DEF Knows
  <1> QED
    BY <1>9, <1>10

(* The call that made the innermost one.                                   *)
Sender(t) == stack[t][Depth(t) - 1]
(* Call e is call g, but for the writeback flag, which says whether g or f *)
(* have written data, or the cache of f.                                   *)
TakesFlag(g, f, e) ==
    /\ e.c = g.c /\ e.op = g.op /\ e.l = g.l /\ e.type = g.type /\ e.child = g.child
    /\ e.pc = g.pc /\ e.victim = g.victim /\ e.initial = g.initial
    /\ e.wb = TRUE <=> g.wb = TRUE \/ f.wb = TRUE \/ state[f.c][f.l] = "M"

(* The call that sent the invalidation goes on, and takes over the         *)
(* writeback flag.                                                         *)
LEMMA SenderAfter ==
    ASSUME IInv, NEW t \in L1s, Busy(t), NEW f, f = Last(stack[t]), f.pc = "inval", Targets(f) = {},
           InvalidatesBy(f), NEW g, g = Sender(t),
           NEW e \in Frames, TakesFlag(g, f, e)
    PROVE  /\ FrameShape(e) /\ e.pc \in {"evict", "grant", "inval"}
           /\ InvLine(e) = f.l /\ InvLine(g) = f.l
           /\ Knows(e, TRUE)'
  <1>1. PICK p : p = Parent[f.c][f.l]
    OBVIOUS
  <1>2. /\ f = Top(t) /\ f.op = "inval" /\ f.type \in {"INV", "INVX"}
        /\ f.c \in Caches /\ f.l \in Lines /\ p \in Inner
        /\ f.c \in dir[p][f.l].sharers
        /\ f.wb => state[f.c][f.l] \in Owned
        /\ state[p][f.l] # "I" /\ (state[f.c][f.l] \in Owned => state[p][f.l] \in Owned)
    BY <1>1, InvalidateKnows
  <1>3. /\ Depth(t) > 1 /\ Depth(t) - 1 \in 1..Depth(t) /\ g \in Frames
        /\ FrameShape(g) /\ TellsChild(g, f) /\ Holds(g, FALSE) /\ Knows(g, FALSE)
        /\ g.c = p /\ p # f.c /\ p # Mem
    <2>1. PICK h \in Frames :
              /\ Depth(t) > 1 /\ Depth(t) - 1 \in 1..Depth(t) /\ h = stack[t][Depth(t) - 1]
              /\ FrameShape(h) /\ TellsChild(h, f) /\ Holds(h, FALSE) /\ Knows(h, FALSE)
              /\ h.c = Parent[f.c][f.l] /\ h.c \in Inner /\ h.c # Mem /\ h.c # f.c
      BY <1>2, SenderKnows DEF IInv
    <2>2. g = h
      BY <2>1 DEF Sender
    <2> QED
      BY <1>1, <2>1, <2>2
  <1>4. /\ e.c = g.c /\ e.op = g.op /\ e.l = g.l /\ e.type = g.type /\ e.child = g.child
        /\ e.pc = g.pc /\ e.victim = g.victim /\ e.initial = g.initial
        /\ e.wb = TRUE <=> g.wb = TRUE \/ f.wb = TRUE \/ state[f.c][f.l] = "M"
    BY DEF TakesFlag
  <1>5. e.pc \in {"evict", "grant", "inval"} /\ InvLine(g) = f.l /\ InvLine(e) = f.l
    BY <1>3, <1>4 DEF TellsChild, InvLine
  <1>6. FrameShape(e)
    BY <1>3, <1>4, <1>5, SMTT(40) DEF FrameShape, AccessShape
  <1>7. /\ tags' = tags /\ f.l \in tags[p]
        /\ \A c \in Caches, m \in Lines : c # f.c \/ m # f.l => state'[c][m] = state[c][m]
        /\ \A c \in Inner, m \in Lines : c # p \/ m # f.l => dir'[c][m] = dir[c][m]
        /\ dir'[p][f.l].sharers \subseteq dir[p][f.l].sharers
    <2>1. f.l \in tags[p]
      BY <1>2, TreeFacts DEF IInv, Copies, Tagged
    <2> QED
      BY <1>1, <1>2, <2>1, Zenon DEF InvalidatesBy
  <1>8. /\ p \in Caches /\ e.l \in Lines /\ e.victim \in Lines \cup {NoLine}
        /\ \A m \in Lines : state'[p][m] = state[p][m]
        /\ f.l # NoLine
    BY <1>2, <1>3, <1>7, TreeFacts DEF Frames
  <1>9. KnowsOwn(e, TRUE)'
    <2>1. KnowsOwn(g, FALSE)
      BY <1>3 DEF Knows
    <2>2. e.pc = "evict" => /\ e.l \notin tags[e.c]
                            /\ e.victim = NoLine => Cardinality(tags[e.c]) < Ways[e.c]
                            /\ e.victim # NoLine => e.victim \in tags[e.c]
      BY <1>4, <2>1 DEF KnowsOwn
    <2>3. e.pc = "grant" => /\ e.l \in tags[e.c] /\ Granted(e.type, state[e.c][e.l])
                            /\ e.child \notin dir[e.c][e.l].sharers
      BY <1>4, <2>1 DEF KnowsOwn
    <2>4. e.wb => state[e.c][InvLine(e)] \in Owned
      <3>1. g.wb => state[p][f.l] \in Owned
        BY <1>3, <1>4, <1>5, <2>1 DEF KnowsOwn
      <3>2. state[f.c][f.l] = "M" => state[p][f.l] \in Owned
        BY <1>2 DEF Owned
      <3> QED
        BY <1>2, <1>3, <1>4, <1>5, <3>1, <3>2
    <2>5. e.pc = "grant" => /\ Granted(e.type, state'[e.c][e.l])
                            /\ e.child \notin dir'[e.c][e.l].sharers
      BY <1>2, <1>3, <1>4, <1>7, <1>8, <2>3
    <2>6. e.wb => InvLine(e) # NoLine /\ state'[e.c][InvLine(e)] \in Owned
      BY <1>2, <1>3, <1>4, <1>5, <1>8, <2>4
    <2> QED
      BY <1>5, <1>7, <2>2, <2>3, <2>5, <2>6 DEF KnowsOwn, InvLine
  <1>10. ASSUME e.op = "access", e.child # Core
         PROVE  KnowsChild(e, state'[e.child][e.l])
    <2>1. KnowsChild(g, state[g.child][g.l]) /\ g.pc # "inval" /\ g.child \in Caches
      BY <1>3, <1>4, <1>10 DEF Knows, FrameShape, AccessShape, Frames
    <2>2. g.child # f.c \/ g.l # f.l
      <3>1. KnowsOwn(g, FALSE)
        BY <1>3 DEF Knows
      <3>2. g.pc = "evict" => g.l \notin tags[g.c]
        BY <3>1 DEF KnowsOwn
      <3>3. g.pc = "grant" => g.child \notin dir[g.c][g.l].sharers
        BY <3>1 DEF KnowsOwn
      <3> QED
        BY <1>2, <1>3, <1>4, <1>5, <1>7, <2>1, <3>2, <3>3
    <2>3. state'[e.child][e.l] = state[g.child][g.l]
      BY <1>4, <1>7, <1>8, <2>1, <2>2
    <2>4. KnowsChild(g, state'[e.child][e.l])
      BY <2>1, <2>3
    <2>5. \A now : KnowsChild(g, now) => KnowsChild(e, now)
      BY <1>4 DEF KnowsChild
    <2> QED
      BY <2>4, <2>5
  <1>11. ASSUME e.op = "inval" PROVE KnowsEntry(e)'
    <2>1. KnowsEntry(g) /\ Parent[g.c][g.l] \in Inner
      <3>1. KnowsEntry(g)
        BY <1>3, <1>4, <1>11 DEF Knows
      <3>2. Parent[g.c][g.l] \in Inner
        <4>1. g.op = "inval"
          BY <1>4, <1>11
        <4>2. stack[t][Depth(t) - 1].op = "inval" =>
                  Parent[stack[t][Depth(t) - 1].c][stack[t][Depth(t) - 1].l] \in Inner
          BY <1>3, Caller DEF IInv
        <4> QED
          BY <4>1, <4>2 DEF Sender
      <3> QED
        BY <3>1, <3>2
    <2>2. Parent[g.c][g.l] # p
      <3>1. g.c \in Caches /\ g.l \in Lines /\ g.c = p
        BY <1>3, <1>4, <1>8
      <3> QED
        BY <3>1, TreeFacts
    <2>3. g.l \in Lines /\ dir'[Parent[g.c][g.l]][g.l] = dir[Parent[g.c][g.l]][g.l]
      BY <1>4, <1>7, <1>8, <2>1, <2>2
    <2>4. KnowsEntry(g)'
      BY <2>1, <2>3 DEF KnowsEntry
    <2> QED
      BY <1>4, <2>4 DEF KnowsEntry
  <1>12. Knows(e, TRUE)'
    BY <1>9, <1>10, <1>11 DEF Knows
  <1> QED
    BY <1>1, <1>3, <1>4, <1>5, <1>6, <1>12

(* The copy and the directory entry that lists it, after an invalidation.  *)
LEMMA CopiesOfInvalidate ==
    ASSUME IInv, NEW t \in L1s, Busy(t), NEW f, f = Last(stack[t]), f.pc = "inval", Targets(f) = {},
           InvalidatesBy(f), \A k, c, l : Upgrades(k, c, l) => Upgrades(k, c, l)'
    PROVE  Copies'
  <1>1. PICK p : p = Parent[f.c][f.l]
    OBVIOUS
  <1>2. PICK k : k = f.c
    OBVIOUS
  <1>3. PICK l : l = f.l
    BY SMTT(40)
  <1>4. /\ f.type \in {"INV", "INVX"} /\ k \in Caches /\ l \in Lines /\ p \in Inner
        /\ k \in dir[p][l].sharers /\ k \in Kids(p, l) /\ l \in tags[k]
        /\ state[p][l] # "I"
        /\ f.type = "INV" => Kids(k, l) = {}
        /\ \A j \in Kids(k, l) : state[j][l] \notin Owned
    <2>1. /\ f.type \in {"INV", "INVX"} /\ f.c \in Caches /\ f.l \in Lines /\ Parent[f.c][f.l] \in Inner
          /\ f.c \in dir[Parent[f.c][f.l]][f.l].sharers
          /\ f.c \in Kids(Parent[f.c][f.l], f.l) /\ f.l \in tags[f.c]
          /\ state[Parent[f.c][f.l]][f.l] # "I"
          /\ f.type = "INV" => Kids(f.c, f.l) = {}
          /\ \A j \in Kids(f.c, f.l) : state[j][f.l] \notin Owned
      BY InvalidateKnows, Zenon
    <2> QED
      BY <1>1, <1>2, <1>3, <2>1, Zenon
  <1>5. /\ tags' = tags
        /\ \A c \in Caches, m \in Lines : c # k \/ m # l => state'[c][m] = state[c][m]
        /\ state'[k][l] = IF f.type = "INV" THEN "I" ELSE "S"
        /\ \A c \in Inner, m \in Lines : c # p \/ m # l => dir'[c][m] = dir[c][m]
        /\ f.type = "INV" => /\ dir'[p][l].sharers = dir[p][l].sharers \ {k}
                             /\ dir'[p][l].exclusive = dir[p][l].exclusive
        /\ f.type = "INVX" => /\ dir'[p][l].sharers = dir[p][l].sharers
                              /\ dir'[p][l].exclusive = FALSE
    BY <1>1, <1>2, <1>3, ZenonT(60) DEF InvalidatesBy
  <1>6. Types /\ Copies /\ p # Mem /\ dir[p][l].sharers \subseteq Kids(p, l)
    BY <1>4, TreeFacts DEF IInv, Copies, SharersHave
  <1>7. \A j \in Kids(p, l) : j # k =>
            /\ j \in dir[p][l].sharers \/ Upgrades(j, p, l)
            /\ state[j][l] \notin Owned /\ ~dir[p][l].exclusive
    <2> SUFFICES ASSUME NEW j \in Kids(p, l), j # k
                 PROVE  /\ j \in dir[p][l].sharers \/ Upgrades(j, p, l)
                        /\ state[j][l] \notin Owned /\ ~dir[p][l].exclusive
      OBVIOUS
    <2>1. /\ j \in dir[p][l].sharers \/ Upgrades(j, p, l)
          /\ state[j][l] \in Owned <=> dir[p][l].exclusive
          /\ state[j][l] \in Owned => Kids(p, l) = {j}
      BY <1>4, <1>6, KidsListed
    <2>2. state[j][l] \notin Owned
      BY <1>4, <2>1
    <2> QED
      BY <2>1, <2>2
  <1>8. /\ state'[k][l] \notin Owned
        /\ f.type = "INV" => state'[k][l] = "I"
        /\ f.type = "INVX" => state'[k][l] = "S" /\ state'[k][l] # "I"
    BY <1>4, <1>5 DEF Owned
  <1>9. \A d \in Caches, m \in Lines : d # k \/ m # l =>
            /\ state'[d][m] = "I" <=> state[d][m] = "I"
            /\ state'[d][m] \in Owned <=> state[d][m] \in Owned
    BY <1>5
  <1>10. /\ \A j \in Kids(k, l) : state'[k][l] # "I" /\ (state[j][l] \in Owned => state'[k][l] \in Owned)
         /\ \A j \in dir'[p][l].sharers : IF j = k THEN state'[k][l] # "I" ELSE j \in Kids(p, l)
         /\ state'[k][l] # "I" =>
               k \in dir'[p][l].sharers /\ (state'[k][l] \in Owned <=> dir'[p][l].exclusive)
    <2>1. CASE f.type = "INV"
      BY <2>1, <1>4, <1>5, <1>6, <1>8
    <2>2. CASE f.type = "INVX"
      BY <2>2, <1>4, <1>5, <1>6, <1>8
    <2> QED
      BY <1>4, <2>1, <2>2
  <1>11. \A j \in Kids(p, l) : j # k =>
             (j \in dir'[p][l].sharers \/ Upgrades(j, p, l)') /\ ~dir'[p][l].exclusive
    <2>1. \A j : Upgrades(j, p, l) => Upgrades(j, p, l)'
      OBVIOUS
    <2>2. \A j \in Kids(p, l) : j # k => ~dir'[p][l].exclusive
      BY <1>4, <1>5, <1>7
    <2>3. \A j : j \in dir[p][l].sharers /\ j # k => j \in dir'[p][l].sharers
      BY <1>4, <1>5
    <2> QED
      BY <1>7, <2>1, <2>2, <2>3
  <1>12. \A j, d, m : (d # p \/ m # l) /\ Upgrades(j, d, m) => Upgrades(j, d, m)'
    OBVIOUS
  <1>13. Parent[k][l] = p
    BY <1>1, <1>2, <1>3
  <1>14. ChangesBelow(p, l, k)
    BY <1>4, <1>5, <1>7, <1>8, <1>9, <1>10, <1>11, <1>12 DEF ChangesBelow
  <1> QED
    BY <1>4, <1>5, <1>6, <1>13, <1>14, CopiesOfChild

(* An L1 that loses a line drops it from its filter array.                 *)
LEMMA FilterOfInvalidate ==
    ASSUME Types, FilterKnows, NEW t \in L1s, OnlyOf(t), stack'[t] # << >>,
           NEW f, f.c \in Caches, InvalidatesBy(f),
           filter' = IF f.c \in L1s THEN [filter EXCEPT ![f.c] = FilterAfterInv(@, f.l)] ELSE filter
    PROVE  /\ FilterKnows'
           /\ filter' \in [L1s -> [rd : Lines \cup {NoLine}, wr : Lines \cup {NoLine}]]
  <1>1. PICK R : R = [rd : Lines \cup {NoLine}, wr : Lines \cup {NoLine}]
    OBVIOUS
  <1>2. filter \in [L1s -> R] /\ \A r \in R : FilterAfterInv(r, f.l) \in R
    BY <1>1 DEF Types, FilterAfterInv
  <1>3. /\ filter' \in [L1s -> R]
        /\ \A u \in L1s : filter'[u] = IF u = f.c THEN FilterAfterInv(filter[u], f.l) ELSE filter[u]
    <2>1. CASE f.c \in L1s
      BY <1>2, <2>1
    <2>2. CASE f.c \notin L1s
      BY <1>2, <2>2
    <2> QED
      BY <2>1, <2>2
  <1>4. FilterKnows'
    <2> SUFFICES ASSUME NEW u \in L1s
                 PROVE  /\ filter'[u].wr \in {filter'[u].rd, NoLine}
                        /\ stack'[u] = << >> =>
                             /\ filter'[u].rd # NoLine => state'[u][filter'[u].rd] # "I"
                             /\ filter'[u].wr # NoLine => state'[u][filter'[u].wr] = "M"
      BY DEF FilterKnows, Busy
    <2>1. /\ filter[u].wr \in {filter[u].rd, NoLine} /\ filter[u] \in R
          /\ filter[u].rd \in Lines \cup {NoLine}
          /\ stack'[u] = << >> =>
                /\ filter[u].rd # NoLine => state[u][filter[u].rd] # "I"
                /\ filter[u].wr # NoLine => state[u][filter[u].wr] = "M"
      <3>1. stack'[u] = << >> => ~Busy(u)
        BY DEF OnlyOf, Busy
      <3> QED
        BY <1>1, <1>2, <3>1 DEF FilterKnows
    <2>2. \A c \in Caches, m \in Lines : c # f.c \/ m # f.l => state'[c][m] = state[c][m]
      BY DEF InvalidatesBy
    <2>3. u \in Caches /\ NoLine \notin Lines
      BY TreeFacts
    <2>4. CASE u # f.c
      BY <1>3, <2>1, <2>2, <2>3, <2>4
    <2>5. CASE u = f.c /\ filter[u].rd = f.l
      <3>1. filter'[u] = [rd |-> NoLine, wr |-> NoLine]
        BY <1>3, <2>5 DEF FilterAfterInv
      <3> QED
        BY <3>1
    <2>6. CASE u = f.c /\ filter[u].rd # f.l
      <3>1. filter'[u] = filter[u]
        BY <1>3, <2>6 DEF FilterAfterInv
      <3> QED
        BY <2>1, <2>2, <2>3, <2>6, <3>1
    <2> QED
      BY <2>4, <2>5, <2>6
  <1> QED
    BY <1>1, <1>3, <1>4

(* An invalidation ends, and the call that sent it goes on.                *)
LEMMA FinishInvalidateStep ==
    ASSUME IInv, NEW t \in L1s, FinishInvalidate(t)
    PROVE  IInv'
  <1>1. PICK f : f = Last(stack[t])
    OBVIOUS
  <1>2. PICK g : g = stack[t][Depth(t) - 1]
    OBVIOUS
  <1>3. PICK w : w = (g.wb \/ f.wb \/ state[f.c][f.l] = "M")
    OBVIOUS
  <1>4. PICK e : e = [g EXCEPT !.wb = w]
    BY Zenon
  <1>5. PICK z : z = IF f.type = "INV" THEN "I" ELSE "S"
    OBVIOUS
  <1>6. PICK y : y = DirAfterInv(dir[g.c][f.l], f.c, f.type)
    OBVIOUS
  <1>7. /\ Busy(t) /\ f.pc = "inval" /\ Targets(f) = {} /\ FilterFree(f.c)
        /\ ok' = (ok /\ f.l \in tags[f.c] /\ state[f.c][f.l] # "I"
                     /\ (f.type = "INVX" => state[f.c][f.l] \in {"E", "M"}))
        /\ state' = [state EXCEPT ![f.c][f.l] = z]
        /\ filter' = IF f.c \in L1s THEN [filter EXCEPT ![f.c] = FilterAfterInv(@, f.l)] ELSE filter
        /\ dir' = [dir EXCEPT ![g.c][f.l] = y]
        /\ bcc' = bcc \ {f.c}
        /\ stack' = [stack EXCEPT ![t] = Append(Front(Front(@)), e)]
        /\ UNCHANGED <<tags, tcc, filterLock, left, dirty>>
    BY <1>1, <1>2, <1>3, <1>4, <1>5, <1>6, ZenonT(60) DEF FinishInvalidate, At, Expect, Depth
  <1>8. /\ f = Top(t) /\ f \in Frames /\ f.op = "inval" /\ Holds(f, TRUE)
        /\ f.type \in {"INV", "INVX"} /\ f.c \in Caches /\ f.l \in Lines /\ InvLine(f) = f.l
        /\ Parent[f.c][f.l] \in Inner /\ state[f.c][f.l] # "I" /\ f.l \in tags[f.c]
        /\ f.type = "INVX" => state[f.c][f.l] \in Owned
    BY <1>1, <1>7, InvalidateKnows, Zenon
  <1>9. /\ Depth(t) > 1 /\ g \in Frames /\ g.c = Parent[f.c][f.l] /\ g.c # f.c /\ Holds(g, FALSE)
        /\ g.wb \in BOOLEAN /\ f.wb \in BOOLEAN /\ g.c \in Inner
        /\ Depth(t) \in Nat \ {0} /\ Depth(t) - 1 \in 1..Depth(t)
    <2>1. \E h \in Frames :
              /\ Depth(t) > 1 /\ Depth(t) - 1 \in 1..Depth(t) /\ h = stack[t][Depth(t) - 1]
              /\ Holds(h, FALSE) /\ h.c = Parent[f.c][f.l] /\ h.c \in Inner /\ h.c # f.c
      BY <1>1, <1>7, <1>8, SenderKnows DEF IInv
    <2>2. Depth(t) \in Nat \ {0}
      BY <1>7, TopIs DEF IInv
    <2>3. g \in Frames => g.wb \in BOOLEAN
      BY DEF Frames
    <2>4. f.wb \in BOOLEAN
      BY <1>8 DEF Frames
    <2> QED
      BY <1>2, <2>1, <2>2, <2>3, <2>4
  <1>10. w \in BOOLEAN /\ (w <=> g.wb \/ f.wb \/ state[f.c][f.l] = "M")
    BY <1>3
  <1>11. e \in Frames
    BY <1>4, <1>9, <1>10 DEF Frames
  <1>12. ok' = TRUE
    BY <1>7, <1>8 DEF IInv, Owned
  <1>13. /\ state' \in [Caches -> [Lines -> MESI]] /\ state'[f.c][f.l] = z
         /\ \A c \in Caches, m \in Lines : c # f.c \/ m # f.l => state'[c][m] = state[c][m]
         /\ \A c \in Caches : c # f.c => state'[c] = state[c]
    <2>1. state \in [Caches -> [Lines -> MESI]] /\ z \in MESI
      BY <1>5 DEF IInv, Types, MESI
    <2> QED
      BY <1>7, <1>8, <2>1, OneCell
  <1>14. /\ dir' \in [Inner -> [Lines -> [sharers : SUBSET Caches, exclusive : BOOLEAN]]]
         /\ dir'[g.c][f.l] = y
         /\ \A c \in Inner, m \in Lines : c # g.c \/ m # f.l => dir'[c][m] = dir[c][m]
         /\ f.type = "INV" => /\ y.sharers = dir[g.c][f.l].sharers \ {f.c}
                              /\ y.exclusive = dir[g.c][f.l].exclusive
         /\ f.type = "INVX" => /\ y.sharers = dir[g.c][f.l].sharers
                               /\ y.exclusive = FALSE
    <2>1. PICK Entries : Entries = [sharers : SUBSET Caches, exclusive : BOOLEAN]
      OBVIOUS
    <2>2. PICK x : x = dir[g.c][f.l]
      OBVIOUS
    <2>3. x \in Entries /\ dir \in [Inner -> [Lines -> Entries]]
      BY <1>8, <1>9, <2>1, <2>2 DEF IInv, Types
    <2>4. /\ y \in Entries
          /\ f.type = "INV" => y.sharers = x.sharers \ {f.c} /\ y.exclusive = x.exclusive
          /\ f.type = "INVX" => y.sharers = x.sharers /\ y.exclusive = FALSE
      <3>1. CASE f.type = "INV"
        BY <1>6, <2>1, <2>2, <2>3, <3>1 DEF DirAfterInv
      <3>2. CASE f.type = "INVX"
        BY <1>6, <2>1, <2>2, <2>3, <3>2 DEF DirAfterInv
      <3> QED
        BY <1>8, <3>1, <3>2
    <2>5. /\ dir' \in [Inner -> [Lines -> Entries]] /\ dir'[g.c][f.l] = y
          /\ \A c \in Inner, m \in Lines : c # g.c \/ m # f.l => dir'[c][m] = dir[c][m]
      <3>1. dir' = [dir EXCEPT ![g.c][f.l] = y] /\ g.c \in Inner /\ f.l \in Lines
        BY <1>7, <1>8, <1>9
      <3>2. y \in Entries /\ dir \in [Inner -> [Lines -> Entries]]
        BY <2>3, <2>4, SMTT(40)
      <3> QED
        BY <3>1, <3>2, OneCell
    <2> QED
      BY <2>1, <2>2, <2>4, <2>5
  <1>15. InvalidatesBy(f)
    BY <1>5, <1>7, <1>9, <1>13, <1>14, Zenon DEF InvalidatesBy
  <1>16. /\ FrameShape(e) /\ e.c = g.c /\ e.op = g.op /\ e.l = g.l /\ e.type = g.type /\ e.child = g.child
         /\ e.pc = g.pc /\ e.pc \in {"evict", "grant", "inval"} /\ e.wb = w
         /\ InvLine(e) = f.l /\ InvLine(g) = f.l /\ Knows(e, TRUE)'
    <2>1. Busy(t) /\ f.pc = "inval" /\ Targets(f) = {}
      BY <1>7
    <2>2. /\ e.c = g.c /\ e.op = g.op /\ e.l = g.l /\ e.type = g.type /\ e.child = g.child
          /\ e.pc = g.pc /\ e.victim = g.victim /\ e.initial = g.initial /\ e.wb = w
      BY <1>4, <1>9 DEF Frames
    <2>3. TakesFlag(g, f, e)
      BY <1>9, <1>10, <2>2 DEF TakesFlag
    <2>4. g = Sender(t)
      BY <1>2 DEF Sender
    <2>5. /\ FrameShape(e) /\ e.pc \in {"evict", "grant", "inval"}
          /\ InvLine(e) = f.l /\ InvLine(g) = f.l /\ Knows(e, TRUE)'
      BY <1>1, <1>11, <1>15, <2>1, <2>3, <2>4, SenderAfter
    <2> QED
      BY <2>2, <2>5
  <1>17. \A u \in L1s : \A i \in 1..Depth(u) : \A x \in Frames, b \in BOOLEAN :
             /\ x = stack[u][i] /\ (b <=> u # t /\ i = Depth(u))
             /\ u # t \/ i \notin {Depth(t), Depth(t) - 1}
             => Knows(x, b)'
    BY <1>1, <1>7, <1>15, OthersOfInvalidate, SMTT(40)
  <1>18. PoppedTo(t, e)
    BY <1>7, <1>9, <1>11, TopPoppedTo DEF IInv
  <1>19. /\ StackShape' /\ Locks' /\ Exclusion' /\ FramesKnow' /\ Keeps(t, Depth(t) - 2)
    <2>1. Types /\ StackShape /\ Locks /\ Exclusion /\ FramesKnow
      BY DEF IInv
    <2>2. e.c \in bcc' /\ e.pc # "fill"
      <3>1. g.c \in bcc
        <4>1. Holds(stack[t][Depth(t) - 1], Depth(t) - 1 = Depth(t))
          BY <1>2, <1>9 DEF Holds
        <4>2. \A i \in 1..Depth(t) : Holds(stack[t][i], i = Depth(t)) => stack[t][i].c \in bcc
          BY <1>7, <2>1, TopLocks
        <4> QED
          BY <1>2, <1>9, <4>1, <4>2
      <3> QED
        BY <1>7, <1>9, <1>16, <3>1
    <2>3. /\ \A c \in bcc : c \in bcc' \/ (c = f.c /\ Holds(f, TRUE))
          /\ \A c \in tcc : c \in tcc' \/ (c = f.c /\ Entered(f))
          /\ filterLock' = filterLock
      BY <1>7, <1>8
    <2>4. /\ Busy(t) /\ Depth(t) > 1 /\ f \in Frames /\ f = Top(t) /\ g \in Frames
          /\ g = stack[t][Depth(t) - 1] /\ e \in Frames
      BY <1>2, <1>7, <1>8, <1>9, <1>11
    <2>5. /\ FrameShape(e) /\ e.c = g.c /\ e.op = g.op /\ e.l = g.l /\ e.type = g.type
          /\ e.child = g.child /\ e.pc = g.pc /\ Knows(e, TRUE)'
          /\ Holds(e, TRUE) => e.c \in bcc' /\ (Holds(g, FALSE) \/ e.c \notin bcc)
      BY <1>9, <1>16, <2>2
    <2> QED
      BY <1>17, <1>18, <2>1, <2>2, <2>3, <2>4, <2>5, StepDropped
  <1>20. /\ OnlyOf(t) /\ Len(stack'[t]) = Depth(t) - 1 /\ stack'[t][Depth(t) - 1] = e
         /\ stack'[t] # << >> /\ stack' \in [L1s -> Seq(Frames)] /\ Depth(t) - 1 \in 1..Len(stack'[t])
    <2>1. OnlyOf(t) /\ Len(stack'[t]) = Depth(t) - 1 /\ stack'[t][Depth(t) - 1] = e
      BY <1>18 DEF PoppedTo
    <2>2. stack'[t] = << >> => Len(stack'[t]) = 0
      OBVIOUS
    <2>3. Depth(t) - 1 # 0 /\ Depth(t) - 1 \in 1..(Depth(t) - 1)
      BY <1>9, SMTT(40)
    <2> QED
      BY <2>1, <2>2, <2>3 DEF OnlyOf
  <1>21. /\ FilterKnows'
         /\ filter' \in [L1s -> [rd : Lines \cup {NoLine}, wr : Lines \cup {NoLine}]]
    BY <1>7, <1>8, <1>15, <1>20, FilterOfInvalidate DEF IInv
  <1>22. Types'
    BY <1>7, <1>13, <1>14, <1>20, <1>21 DEF IInv, Types
  <1>23. \A i \in (Depth(t) - 2 + 1)..Depth(t) :
             \/ i = Depth(t) - 1 /\ stack[t][i] = g
             \/ i = Depth(t) /\ stack[t][i] = f
    <2>1. stack[t][Depth(t)] = f
      BY <1>8 DEF Top, Depth
    <2> QED
      BY <1>2, <1>9, <2>1
  <1>24. Copies'
    <2>1. \A k, c, l : Upgrades(k, c, l) => Upgrades(k, c, l)'
      <3> SUFFICES ASSUME NEW k, NEW c, NEW l, Upgrades(k, c, l)
                   PROVE  Upgrades(k, c, l)'
        OBVIOUS
      <3>1. ~IsUpgrade(f, k, c, l) /\ (IsUpgrade(g, k, c, l) => IsUpgrade(e, k, c, l))
        BY <1>7, <1>16 DEF IsUpgrade
      <3>2. \A i \in (Depth(t) - 2 + 1)..Depth(t) : IsUpgrade(stack[t][i], k, c, l) =>
                i \in 1..Len(stack'[t]) /\ IsUpgrade(stack'[t][i], k, c, l)
        BY <1>20, <1>23, <3>1
      <3> QED
        BY <1>19, <3>2, GrantsStay DEF IInv
    <2> QED
      BY <1>1, <1>7, <1>15, <2>1, CopiesOfInvalidate
  <1>25. WrittenKept'
    <2> SUFFICES ASSUME NEW l \in dirty' PROVE Written(l)'
      BY DEF WrittenKept, Written
    <2>1. Written(l) /\ l \in Lines
      BY <1>7 DEF IInv, Types, WrittenKept, Written
    <2>2. w = TRUE /\ l = f.l => Written(l)'
      <3> SUFFICES ASSUME w = TRUE, l = f.l PROVE Written(l)'
        OBVIOUS
      <3>1. Carries(e, l)
        BY <1>16 DEF Carries
      <3>2. Carries(stack'[t][Depth(t) - 1], l)
        BY <1>20, <3>1
      <3> QED
        BY <1>20, <3>2 DEF Written
    <2>3. \A c \in Caches : state[c][l] = "M" => Written(l)'
      <3> SUFFICES ASSUME NEW c \in Caches, state[c][l] = "M" PROVE Written(l)'
        OBVIOUS
      <3>1. CASE c = f.c /\ l = f.l
        BY <1>10, <2>2, <3>1
      <3>2. CASE c # f.c \/ l # f.l
        <4>1. state'[c][l] = "M"
          BY <1>13, <2>1, <3>2
        <4> QED
          BY <4>1 DEF Written
      <3> QED
        BY <3>1, <3>2
    <2>4. \A i \in (Depth(t) - 2 + 1)..Depth(t) : Carries(stack[t][i], l) => Written(l)'
      <3>1. Carries(g, l) \/ Carries(f, l) => w = TRUE /\ l = f.l
        BY <1>8, <1>10, <1>16 DEF Carries
      <3> QED
        BY <1>23, <2>2, <3>1
    <2> QED
      BY <1>19, <2>1, <2>3, <2>4, WrittenStays DEF IInv
  <1> QED
    BY <1>12, <1>19, <1>21, <1>22, <1>24, <1>25 DEF IInv

-----------------------------------------------------------------------------
(* The invariant holds *)

(* Nothing is cached and no call is made. *)
LEMMA InitHolds ==
    ASSUME Init
    PROVE  IInv
  <1>1. Types
    <2>1. \A c \in Caches : IsFiniteSet(tags[c]) /\ Cardinality(tags[c]) <= Ways[c]
      <3> SUFFICES ASSUME NEW c \in Caches
                   PROVE  IsFiniteSet(tags[c]) /\ Cardinality(tags[c]) <= Ways[c]
        OBVIOUS
      <3>1. tags[c] = {} /\ IsFiniteSet({}) /\ Cardinality({}) = 0
        BY FS_EmptySet DEF Init
      <3>2. Ways[c] \in Nat \ {0}
        BY TreeFacts
      <3> QED
        BY <3>1, <3>2
    <2>2. stack \in [L1s -> Seq(Frames)]
      <3>1. << >> \in Seq(Frames)
        BY EmptySeq
      <3> QED
        BY <3>1 DEF Init
    <2>3. dir \in [Inner -> [Lines -> [sharers : SUBSET Caches, exclusive : BOOLEAN]]]
      BY DEF Init, NoEntry
    <2>4. /\ state \in [Caches -> [Lines -> MESI]] /\ tags \in [Caches -> SUBSET Lines]
          /\ bcc \subseteq Caches /\ tcc \subseteq Inner /\ filterLock \subseteq L1s
          /\ filter \in [L1s -> [rd : Lines \cup {NoLine}, wr : Lines \cup {NoLine}]]
          /\ left \in [L1s -> 0..MaxAccesses] /\ dirty \subseteq Lines
      BY TreeAssumption DEF Init, MESI
    <2> QED
      BY <2>1, <2>2, <2>3, <2>4 DEF Types
  <1>2. \A t \in L1s : stack[t] = << >> /\ Len(stack[t]) = 0 /\ ~Busy(t)
    BY EmptySeq DEF Init, Busy
  <1>3. StackShape /\ Locks /\ Exclusion /\ FramesKnow
    BY <1>2 DEF StackShape, Locks, Exclusion, FramesKnow
  <1>4. \A c \in Caches, l \in Lines : state[c][l] = "I"
    BY DEF Init
  <1>5. Copies
    <2>1. Tagged /\ Included /\ Exclusive /\ Listed
      BY <1>4 DEF Tagged, Included, Exclusive, Listed, Owned
    <2>2. SharersHave
      BY DEF Init, NoEntry, SharersHave
    <2> QED
      BY <2>1, <2>2 DEF Copies
  <1>6. WrittenKept /\ ok = TRUE
    BY DEF Init, WrittenKept
  <1>7. FilterKnows
    BY DEF Init, FilterKnows
  <1> QED
    BY <1>1, <1>3, <1>5, <1>6, <1>7 DEF IInv

(* Every step keeps the invariant. *)
LEMMA NextKeeps ==
    ASSUME IInv, [Next]_vars
    PROVE  IInv'
  <1>1. ASSUME NEW t \in L1s, Step(t)
        PROVE  IInv'
    <2>1. CASE FilterHit(t)
      BY <2>1, FilterHitStep
    <2>2. CASE Replace(t)
      BY <2>2, ReplaceStep
    <2>3. CASE ContextSwitch(t)
      BY <2>3, ContextSwitchStep
    <2>4. CASE LockTcc(t)
      BY <2>4, LockTccStep
    <2>5. CASE LockBcc(t)
      BY <2>5, LockBccStep
    <2>6. CASE Evict(t)
      BY <2>6, EvictStep
    <2>7. CASE Insert(t)
      BY <2>7, InsertStep
    <2>8. CASE BottomAccess(t)
      BY <2>8, BottomAccessStep
    <2>9. CASE TopAccess(t)
      BY <2>9, TopAccessStep
    <2>10. CASE Grant(t)
      BY <2>10, GrantStep
    <2>11. CASE EndAccess(t)
      BY <2>11, EndAccessStep
    <2>12. CASE Fill(t)
      BY <2>12, FillStep
    <2>13. CASE SendInvalidate(t)
      BY <2>13, SendInvalidateStep
    <2>14. CASE StartInv(t)
      BY <2>14, StartInvStep
    <2>15. CASE FinishInvalidate(t)
      BY <2>15, FinishInvalidateStep
    <2> QED
      BY <1>1, <2>1, <2>2, <2>3, <2>4, <2>5, <2>6, <2>7, <2>8, <2>9, <2>10, <2>11, <2>12, <2>13,
         <2>14, <2>15 DEF Step
  <1>2. CASE NewPhase
    BY <1>2, NewPhaseStep
  <1>3. CASE UNCHANGED vars
    <2>1. /\ UNCHANGED <<state, tags, dir, bcc, tcc, filterLock, stack, ok>>
          /\ UNCHANGED <<filter, left, dirty>>
      BY <1>3 DEF vars
    <2>2. StackShape' /\ Locks' /\ Exclusion' /\ FramesKnow' /\ Copies' /\ ok' = TRUE
      BY <2>1, NothingMoves
    <2>3. Types'
      BY <2>1 DEF IInv, Types
    <2>4. WrittenKept'
      BY <2>1, WrittenSame DEF IInv
    <2>5. FilterKnows'
      BY <2>1 DEF IInv, FilterKnows, Busy
    <2> QED
      BY <2>2, <2>3, <2>4, <2>5 DEF IInv
  <1> QED
    BY <1>1, <1>2, <1>3 DEF Next

-----------------------------------------------------------------------------
(* What the invariant says of the whole tree *)

(* The caches from c up to the last level, for line l. *)
UpClosed(U, l) == \A c \in U : Parent[c][l] # Mem => Parent[c][l] \in U
Above(c, l) == {d \in Caches : \A U \in SUBSET Caches : c \in U /\ UpClosed(U, l) => d \in U}

(* They are c and the parents of others of them, up to the one root. *)
LEMMA AboveIs ==
    ASSUME NEW l \in Lines, NEW c \in L1s
    PROVE  /\ Above(c, l) \subseteq Caches /\ c \in Above(c, l) /\ UpClosed(Above(c, l), l)
           /\ \A d \in Above(c, l) : d = c \/ \E k \in Above(c, l) : Parent[k][l] = d
           /\ \A U \in SUBSET Caches : c \in U /\ UpClosed(U, l) => Above(c, l) \subseteq U
  <1>1. PICK A : A = Above(c, l)
    OBVIOUS
  <1>2. A \subseteq Caches /\ c \in A /\ c \in Caches
    BY <1>1, TreeFacts DEF Above
  <1>3. \A U \in SUBSET Caches : c \in U /\ UpClosed(U, l) => A \subseteq U
    BY <1>1 DEF Above
  <1>4. UpClosed(A, l)
    <2> SUFFICES ASSUME NEW d \in A, Parent[d][l] # Mem PROVE Parent[d][l] \in A
      BY DEF UpClosed
    <2>1. Parent[d][l] \in Caches
      BY <1>2, TreeFacts
    <2>2. ASSUME NEW U \in SUBSET Caches, c \in U, UpClosed(U, l) PROVE Parent[d][l] \in U
      BY <1>3, <2>2 DEF UpClosed
    <2> QED
      BY <1>1, <2>1, <2>2 DEF Above
  <1>5. ASSUME NEW d \in A, d # c, \A k \in A : Parent[k][l] # d
        PROVE  FALSE
    <2>1. A \ {d} \in SUBSET Caches /\ c \in A \ {d}
      BY <1>2, <1>5
    <2>2. UpClosed(A \ {d}, l)
      BY <1>4, <1>5 DEF UpClosed
    <2> QED
      BY <1>3, <2>1, <2>2
  <1>6. \A d \in A : d = c \/ \E k \in A : Parent[k][l] = d
    BY <1>5
  <1> QED
    BY <1>1, <1>2, <1>3, <1>4, <1>6

(* All the paths to memory end in the same cache. *)
LEMMA OneRoot ==
    ASSUME NEW l \in Lines, NEW a \in L1s, NEW b \in L1s,
           NEW c \in Above(a, l), Parent[c][l] = Mem
    PROVE  c \in Above(b, l)
  <1>1. PICK Used : Used = L1s \cup {Parent[k][l] : k \in Caches}
    OBVIOUS
  <1>2. ASSUME NEW e \in L1s, NEW d \in Above(e, l)
        PROVE  d \in Caches \cap Used
    <2>1. d \in Caches /\ (d = e \/ \E k \in Caches : Parent[k][l] = d)
      BY <1>2, AboveIs
    <2> QED
      BY <1>1, <2>1
  <1>3. PICK d \in Above(b, l) : Parent[d][l] \notin Above(b, l)
    <2>1. Above(b, l) \in SUBSET Caches /\ Above(b, l) # {}
      BY AboveIs
    <2> QED
      BY <2>1, OneTreeAssumption
  <1>4. Parent[d][l] = Mem
    BY <1>3, AboveIs DEF UpClosed
  <1>5. c \in Caches \cap Used /\ d \in Caches \cap Used
    BY <1>2
  <1>6. \A x, y \in Caches \cap Used : Parent[x][l] = Mem /\ Parent[y][l] = Mem => x = y
    BY <1>1, OneTreeAssumption
  <1>7. c = d
    BY <1>4, <1>5, <1>6
  <1> QED
    BY <1>3, <1>7

(* A copy is valid, or owned, all the way up. *)
LEMMA ValidAbove ==
    ASSUME Copies, NEW l \in Lines, NEW a \in L1s, NEW c \in Above(a, l)
    PROVE  /\ state[a][l] # "I" => state[c][l] # "I"
           /\ state[a][l] \in Owned => state[c][l] \in Owned
  <1>1. a \in Caches /\ \A U \in SUBSET Caches : a \in U /\ UpClosed(U, l) => c \in U
    BY AboveIs, TreeFacts
  <1>2. state[a][l] # "I" => state[c][l] # "I"
    <2>1. PICK U : U = {d \in Caches : state[d][l] # "I"}
      OBVIOUS
    <2>2. UpClosed(U, l)
      BY <2>1, TreeFacts DEF UpClosed, Copies, Included
    <2> QED
      BY <1>1, <2>1, <2>2
  <1>3. state[a][l] \in Owned => state[c][l] \in Owned
    <2>1. PICK U : U = {d \in Caches : state[d][l] \in Owned}
      OBVIOUS
    <2>2. UpClosed(U, l)
      BY <2>1, TreeFacts DEF UpClosed, Copies, Exclusive
    <2> QED
      BY <1>1, <2>1, <2>2
  <1> QED
    BY <1>2, <1>3

(* When one L1 owns a line, no other has it: where their paths to memory   *)
(* would meet, the owner's is the only child with the line.                *)
LEMMA OneWriter ==
    ASSUME Copies
    PROVE  SingleWriter
  <1> SUFFICES ASSUME NEW a \in L1s, NEW b \in L1s, NEW l \in Lines, a # b,
                      state[a][l] \in Owned, state[b][l] # "I"
               PROVE  FALSE
    BY DEF SingleWriter, Owned
  <1>1. PICK A : A = Above(a, l)
    OBVIOUS
  <1>2. PICK B : B = Above(b, l)
    OBVIOUS
  <1>3. /\ A \subseteq Caches /\ a \in A /\ UpClosed(A, l)
        /\ \A c \in A : state[c][l] \in Owned
    BY <1>1, AboveIs, ValidAbove
  <1>4. /\ B \subseteq Caches /\ UpClosed(B, l)
        /\ \A d \in B : d = b \/ \E k \in B : Parent[k][l] = d
        /\ \A c \in B : state[c][l] # "I"
    BY <1>2, AboveIs, ValidAbove
  <1>5. \A k \in Caches : Parent[k][l] \notin L1s
    BY TreeFacts, TreeAssumption
  <1>6. a \notin B
    BY <1>4, <1>5
  <1>7. PICK c \in A \ B : Parent[c][l] \notin A \ B
    <2>1. A \ B \in SUBSET Caches /\ A \ B # {}
      BY <1>3, <1>6
    <2> QED
      BY <2>1, OneTreeAssumption
  <1>8. Parent[c][l] # Mem
    BY <1>1, <1>2, <1>7, OneRoot
  <1>9. Parent[c][l] \in B /\ c \in Caches /\ Parent[c][l] \notin L1s
    BY <1>3, <1>5, <1>7, <1>8 DEF UpClosed
  <1>10. PICK k \in B : Parent[k][l] = Parent[c][l]
    BY <1>4, <1>9
  <1>11. Kids(Parent[c][l], l) = {c}
    BY <1>3, <1>7, <1>8, <1>9 DEF Copies, Exclusive
  <1>12. k \in Kids(Parent[c][l], l)
    BY <1>4, <1>10 DEF Kids
  <1> QED
    BY <1>7, <1>10, <1>11, <1>12

(* No store is being granted at a cache whose lock is free, so that its    *)
(* directory lists exactly the children that have the line.                *)
LEMMA ExactDirectory ==
    ASSUME IInv
    PROVE  DirectoryExact
  <1> SUFFICES ASSUME NEW c \in Inner \ bcc, NEW l \in Lines
               PROVE  /\ dir[c][l].sharers = Kids(c, l)
                      /\ Kids(c, l) # {} => l \in tags[c] /\ state[c][l] # "I"
                      /\ \A k \in Kids(c, l) : state[k][l] \in {"E", "M"} =>
                             IsExclusive(dir[c][l]) /\ state[c][l] \in {"E", "M"}
    BY DEF DirectoryExact, Kids
  <1>1. c # Mem /\ c \in Caches
    BY TreeFacts
  <1>2. \A k : ~Upgrades(k, c, l)
    <2> SUFFICES ASSUME NEW k, NEW t \in L1s, NEW i \in 1..Len(stack[t]),
                        IsUpgrade(stack[t][i], k, c, l)
                 PROVE  FALSE
      BY DEF Upgrades
    <2>1. stack[t][i].pc = "grant" /\ stack[t][i].c = c
      BY DEF IsUpgrade
    <2>2. Holds(stack[t][i], i = Len(stack[t])) => stack[t][i].c \in bcc
      BY DEF IInv, Locks
    <2> QED
      BY <2>1, <2>2 DEF Holds
  <1>3. \A k \in Kids(c, l) :
            /\ state[c][l] # "I" /\ l \in tags[c] /\ k \in dir[c][l].sharers
            /\ state[k][l] \in Owned <=> dir[c][l].exclusive
            /\ state[k][l] \in Owned => Kids(c, l) = {k} /\ state[c][l] \in Owned
    BY <1>1, <1>2, KidsListed DEF IInv
  <1>4. dir[c][l].sharers = Kids(c, l)
    BY <1>3 DEF IInv, Copies, SharersHave
  <1>5. ASSUME NEW k \in Kids(c, l), state[k][l] \in Owned
        PROVE  IsExclusive(dir[c][l]) /\ state[c][l] \in Owned
    <2>1. dir[c][l].sharers = {k} /\ dir[c][l].exclusive
      BY <1>3, <1>4, <1>5
    <2> QED
      BY <1>3, <1>5, <2>1, FS_Singleton DEF IsExclusive
  <1> QED
    BY <1>3, <1>4, <1>5 DEF Owned

(* The types of the state, and a directory that names only own children.   *)
LEMMA TypesHold ==
    ASSUME IInv
    PROVE  TypeOK
  <1>1. Types
    BY DEF IInv
  <1>2. \A c \in Inner, l \in Lines :
            dir[c][l] \in [sharers : SUBSET {k \in Caches : Parent[k][l] = c}, exclusive : BOOLEAN]
    <2> SUFFICES ASSUME NEW c \in Inner, NEW l \in Lines
                 PROVE  dir[c][l] \in [sharers : SUBSET {k \in Caches : Parent[k][l] = c},
                                       exclusive : BOOLEAN]
      OBVIOUS
    <2>1. dir[c][l] \in [sharers : SUBSET Caches, exclusive : BOOLEAN]
      BY <1>1, StateType
    <2>2. dir[c][l].sharers \subseteq {k \in Caches : Parent[k][l] = c}
      BY DEF IInv, Copies, SharersHave, Kids
    <2> QED
      BY <2>1, <2>2
  <1>3. \A t \in L1s : \A i \in DOMAIN stack[t] : stack[t][i] \in Frames
    BY <1>1, ElementOfSeq, LenProperties DEF Types
  <1>4. ok \in BOOLEAN
    BY DEF IInv
  <1> QED
    BY <1>1, <1>2, <1>3, <1>4 DEF Types, TypeOK

-----------------------------------------------------------------------------
(* The theorems *)

(* The invariant holds in every state of every behaviour. *)
LEMMA Invariant == Spec => []IInv
  <1>1. Init => IInv
    BY InitHolds
  <1>2. IInv /\ [Next]_vars => IInv'
    BY NextKeeps
  <1> QED
    BY <1>1, <1>2, PTL DEF Spec

(* For any tree of caches, in every state of every interleaving of         *)
(* accesses and invalidations: one writer or many readers, and directories *)
(* that are exact wherever no call is at work (MESIBottomCC::processAccess *)
(* and processInval, MESITopCC::processAccess and sendInvalidates).        *)
THEOREM CachesAreCoherent == Spec => []Coherent
  <1>1. IInv => Coherent
    <2>1. ASSUME IInv PROVE Coherent
      <3>1. Copies
        BY <2>1 DEF IInv
      <3> QED
        BY <2>1, <3>1, OneWriter, ExactDirectory, TypesHold DEF Coherent
    <2> QED
      BY <2>1
  <1> QED
    BY <1>1, Invariant, PTL

(* A core's lock-free filter never outlives its L1's copy: the filter lock *)
(* keeps an invalidation out between the access and the fill               *)
(* (FilterCache::replace and invalidate).                                  *)
THEOREM FiltersAreBacked == Spec => []FilterBacked
  <1>1. IInv => FilterBacked
    BY DEF IInv, FilterKnows, FilterBacked
  <1> QED
    BY <1>1, Invariant, PTL

(* Written data is never dropped: it is in a modified copy, or an          *)
(* invalidation's writeback flag carries it up (MESIBottomCC::processInval, *)
(* processEviction and processWritebackOnAccess).                          *)
THEOREM WrittenDataIsKept == Spec => []DirtyKept
  <1>1. IInv => DirtyKept
    <2>1. ASSUME IInv PROVE DirtyKept
      <3> SUFFICES ASSUME NEW l \in dirty
                   PROVE  \/ \E c \in Caches : state[c][l] = "M"
                          \/ \E t \in L1s : \E i \in DOMAIN stack[t] :
                                stack[t][i].wb /\ InvLine(stack[t][i]) = l
        BY DEF DirtyKept
      <3>1. \A t \in L1s : DOMAIN stack[t] = 1..Len(stack[t])
        BY <2>1, LenProperties DEF IInv, Types
      <3> QED
        BY <2>1, <3>1 DEF IInv, WrittenKept, Carries
    <2> QED
      BY <2>1
  <1> QED
    BY <1>1, Invariant, PTL

(* No assertion and no panic of the controllers fires: an access that      *)
(* lost its line to an invalidation on its way up is one that              *)
(* CheckForMESIRace expects.                                               *)
THEOREM NoAssertionFails == Spec => []NoAssertFails
  <1>1. IInv => NoAssertFails
    BY DEF IInv, NoAssertFails
  <1> QED
    BY <1>1, Invariant, PTL
=============================================================================
