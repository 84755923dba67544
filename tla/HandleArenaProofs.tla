-------------------------- MODULE HandleArenaProofs --------------------------
(***************************************************************************)
(* Proofs about HandleArena, for any number of values, cells, slots and    *)
(* frames: every slot, cell and engine reference owns exactly one count;   *)
(* the handles of open scopes stay good; what is closed leaves the arena   *)
(* as it was opened; and what a callback returns is owned until its caller *)
(* has it, if it is a local of the callback's own scope.                   *)
(***************************************************************************)
EXTENDS HandleArena, FiniteSetTheorems, TLAPS

-----------------------------------------------------------------------------
(* Counting.  One(x, v) is what one slot with x adds to the count of v.    *)
One(x, v) == IF x = v THEN 1 ELSE 0

LEMMA OneType == ASSUME NEW x, NEW v PROVE One(x, v) \in {0, 1}
  BY DEF One

(* Sets of positions are finite.                                           *)
LEMMA Positions ==
  ASSUME NEW n \in Nat, NEW T, T \subseteq 1 .. n
  PROVE  IsFiniteSet(T) /\ Cardinality(T) \in Nat
<1>1. IsFiniteSet(1 .. n)
  BY FS_Interval
<1>2. IsFiniteSet(T)
  BY <1>1, FS_Subset
<1> QED BY <1>2, FS_CardinalityType

(* Counts are natural numbers.                                             *)
LEMMA AboveType ==
  ASSUME NEW s, NEW n \in Nat, DOMAIN s = 1 .. n, NEW d, NEW v
  PROVE  Above(s, d, v) \in Nat
<1> DEFINE T == { k \in DOMAIN s : k > d /\ s[k] = v }
<1>1. T \subseteq 1 .. n
  OBVIOUS
<1>2. Cardinality(T) \in Nat
  <2> HIDE DEF T
  <2> QED BY <1>1, Positions
<1> QED BY <1>2 DEF Above

(* A new slot adds one to the count of its value.                          *)
LEMMA AboveAppend ==
  ASSUME NEW S, NEW s \in Seq(S), NEW x \in S, NEW v
  PROVE  Above(Append(s, x), 0, v) = Above(s, 0, v) + One(x, v)
<1> DEFINE old == { k \in DOMAIN s : k > 0 /\ s[k] = v }
           new == { k \in DOMAIN Append(s, x) : k > 0 /\ Append(s, x)[k] = v }
           n == Len(s)
<1>1. /\ n \in Nat /\ DOMAIN s = 1 .. n
      /\ DOMAIN Append(s, x) = 1 .. n + 1
      /\ Append(s, x)[n + 1] = x
      /\ \A k \in 1 .. n : Append(s, x)[k] = s[k]
  OBVIOUS
<1>2. IsFiniteSet(old) /\ Cardinality(old) \in Nat
  <2>1. old \subseteq 1 .. n
    BY <1>1
  <2> HIDE DEF old
  <2> QED BY <1>1, <2>1, Positions
<1>3. n + 1 \notin old
  BY <1>1
<1>4. new = IF x = v THEN old \cup {n + 1} ELSE old
  BY <1>1
<1>5. Cardinality(new) = Cardinality(old) + One(x, v)
  <2> HIDE DEF old, new
  <2>1. Cardinality(old \cup {n + 1}) = Cardinality(old) + 1
    BY <1>2, <1>3, FS_AddElement
  <2> QED BY <1>2, <1>4, <2>1 DEF One
<1> QED BY <1>5 DEF Above

(* Overwriting a slot moves one count.                                     *)
LEMMA AboveReplace ==
  ASSUME NEW S, NEW s \in Seq(S), NEW x \in S, NEW i \in DOMAIN s, NEW v
  PROVE  Above([s EXCEPT ![i] = x], 0, v)
           = Above(s, 0, v) - One(s[i], v) + One(x, v)
<1> DEFINE t == [s EXCEPT ![i] = x]
           old == { k \in DOMAIN s : k > 0 /\ s[k] = v }
           new == { k \in DOMAIN t : k > 0 /\ t[k] = v }
           rest == { k \in DOMAIN s : k > 0 /\ s[k] = v /\ k # i }
<1>1. /\ Len(s) \in Nat /\ DOMAIN s = 1 .. Len(s)
      /\ DOMAIN t = DOMAIN s
      /\ t[i] = x
      /\ \A k \in DOMAIN s : k # i => t[k] = s[k]
  OBVIOUS
<1>2. IsFiniteSet(old)
  <2>1. old \subseteq 1 .. Len(s)
    BY <1>1
  <2> HIDE DEF old
  <2> QED BY <1>1, <2>1, Positions
<1>3. IsFiniteSet(rest)
  <2>1. rest \in SUBSET old
    OBVIOUS
  <2> QED BY <1>2, <2>1, FS_Subset
<1>4. i \notin rest
  OBVIOUS
<1>5. old = IF s[i] = v THEN rest \cup {i} ELSE rest
  BY <1>1
<1>6. new = IF x = v THEN rest \cup {i} ELSE rest
  BY <1>1
<1>7. Cardinality(new) = Cardinality(old) - One(s[i], v) + One(x, v)
  <2> HIDE DEF t, old, new, rest
  <2>1. Cardinality(rest) \in Nat
    BY <1>3, FS_CardinalityType
  <2>2. Cardinality(rest \cup {i}) = Cardinality(rest) + 1
    BY <1>3, <1>4, FS_AddElement
  <2> QED BY <1>5, <1>6, <2>1, <2>2 DEF One
<1> QED BY <1>7 DEF Above

(* What is popped and what stays make up the whole.                        *)
LEMMA AboveSplit ==
  ASSUME NEW S, NEW s \in Seq(S), NEW d \in 0 .. Len(s), NEW v
  PROVE  Above(s, 0, v) = Above(SubSeq(s, 1, d), 0, v) + Above(s, d, v)
<1> DEFINE t == SubSeq(s, 1, d)
           all == { k \in DOMAIN s : k > 0 /\ s[k] = v }
           low == { k \in DOMAIN t : k > 0 /\ t[k] = v }
           high == { k \in DOMAIN s : k > d /\ s[k] = v }
<1>1. /\ Len(s) \in Nat /\ DOMAIN s = 1 .. Len(s)
      /\ DOMAIN t = 1 .. d
      /\ \A k \in 1 .. d : t[k] = s[k]
  OBVIOUS
<1>2. /\ IsFiniteSet(low) /\ Cardinality(low) \in Nat
      /\ IsFiniteSet(high) /\ Cardinality(high) \in Nat
  <2>1. low \subseteq 1 .. Len(s) /\ high \subseteq 1 .. Len(s)
    BY <1>1
  <2> HIDE DEF low, high
  <2> QED BY <1>1, <2>1, Positions
<1>3. all = low \cup high /\ low \cap high = {}
  BY <1>1
<1>4. Cardinality(all) = Cardinality(low) + Cardinality(high)
  <2> HIDE DEF t, all, low, high
  <2>1. Cardinality(low \cup high)
          = Cardinality(low) + Cardinality(high) - Cardinality(low \cap high)
    BY <1>2, FS_Union
  <2>2. Cardinality(low \cap high) = 0
    BY <1>3, FS_EmptySet
  <2> QED BY <1>2, <1>3, <2>1, <2>2
<1> QED BY <1>4 DEF Above

(* The same for the calls under way: a call adds its argument ...          *)
LEMMA ArgumentsAppend ==
  ASSUME NEW S, NEW s \in Seq(S), NEW f \in S, NEW v
  PROVE  /\ Arguments(s, v) \in Nat
         /\ Arguments(Append(s, f), v) = Arguments(s, v) + One(f.arg, v)
<1> DEFINE old == { k \in DOMAIN s : s[k].arg = v }
           new == { k \in DOMAIN Append(s, f) : Append(s, f)[k].arg = v }
           n == Len(s)
<1>1. /\ n \in Nat /\ DOMAIN s = 1 .. n
      /\ DOMAIN Append(s, f) = 1 .. n + 1
      /\ Append(s, f)[n + 1] = f
      /\ \A k \in 1 .. n : Append(s, f)[k] = s[k]
  OBVIOUS
<1>2. IsFiniteSet(old) /\ Cardinality(old) \in Nat
  <2>1. old \subseteq 1 .. n
    BY <1>1
  <2> HIDE DEF old
  <2> QED BY <1>1, <2>1, Positions
<1>3. n + 1 \notin old
  BY <1>1
<1>4. new = IF f.arg = v THEN old \cup {n + 1} ELSE old
  BY <1>1
<1>5. Cardinality(new) = Cardinality(old) + One(f.arg, v)
  <2> HIDE DEF old, new
  <2>1. Cardinality(old \cup {n + 1}) = Cardinality(old) + 1
    BY <1>2, <1>3, FS_AddElement
  <2> QED BY <1>2, <1>4, <2>1 DEF One
<1> QED BY <1>2, <1>5 DEF Arguments

LEMMA ArgumentsType ==
  ASSUME NEW s \in Seq(Frame), NEW v
  PROVE  Arguments(s, v) \in Nat
<1> DEFINE T == { k \in DOMAIN s : s[k].arg = v }
<1>1. Len(s) \in Nat /\ DOMAIN s = 1 .. Len(s)
  OBVIOUS
<1>2. T \subseteq 1 .. Len(s)
  BY <1>1
<1>3. Cardinality(T) \in Nat
  <2> HIDE DEF T
  <2> QED BY <1>1, <1>2, Positions
<1> QED BY <1>3 DEF Arguments

(* ... and its end takes it away.                                          *)
LEMMA ArgumentsFront ==
  ASSUME NEW S, NEW s \in Seq(S), s # <<>>, NEW v
  PROVE  Arguments(s, v)
           = Arguments(SubSeq(s, 1, Len(s) - 1), v) + One(s[Len(s)].arg, v)
<1> DEFINE t == SubSeq(s, 1, Len(s) - 1)
           f == s[Len(s)]
<1>1. t \in Seq(S) /\ f \in S /\ s = Append(t, f)
  OBVIOUS
<1> HIDE DEF t, f
<1>2. Arguments(s, v) = Arguments(t, v) + One(f.arg, v)
  BY <1>1, ArgumentsAppend
<1> QED BY <1>2 DEF t, f

(* Persistent cells: a reset one takes its value away, a new one adds it.  *)
LEMMA HoldingChanges ==
  ASSUME NEW p, DOMAIN p \subseteq Cells, NEW v
  PROVE  /\ Holding(p, v) \in Nat
         /\ \A c \in DOMAIN p :
              Holding([d \in DOMAIN p \ {c} |-> p[d]], v)
                = Holding(p, v) - One(p[c], v)
<1> DEFINE held == { c \in DOMAIN p : p[c] = v }
<1>1. IsFiniteSet(held) /\ Cardinality(held) \in Nat
  BY HandleArenaAssumption, FS_Subset, FS_CardinalityType
<1>2. ASSUME NEW c \in DOMAIN p
      PROVE  Holding([d \in DOMAIN p \ {c} |-> p[d]], v)
               = Holding(p, v) - One(p[c], v)
  <2> DEFINE q == [d \in DOMAIN p \ {c} |-> p[d]]
             new == { d \in DOMAIN q : q[d] = v }
  <2>1. new = held \ {c}
    OBVIOUS
  <2>2. c \in held <=> p[c] = v
    OBVIOUS
  <2>3. Cardinality(new) = Cardinality(held) - One(p[c], v)
    <3> HIDE DEF held, new
    <3>1. Cardinality(held \ {c}) = IF c \in held THEN Cardinality(held) - 1
                                    ELSE Cardinality(held)
      BY <1>1, FS_RemoveElement
    <3> QED BY <1>1, <2>1, <2>2, <3>1 DEF One
  <2> QED BY <2>3 DEF Holding
<1> QED BY <1>1, <1>2 DEF Holding

LEMMA HoldingAdds ==
  ASSUME NEW p, DOMAIN p \subseteq Cells, NEW c \in Cells, c \notin DOMAIN p,
         NEW x, NEW q, NEW v,
         q = [d \in DOMAIN p \cup {c} |-> IF d = c THEN x ELSE p[d]]
  PROVE  Holding(q, v) = Holding(p, v) + One(x, v)
<1> DEFINE held == { d \in DOMAIN p : p[d] = v }
           new == { d \in DOMAIN q : q[d] = v }
<1>1. IsFiniteSet(held) /\ Cardinality(held) \in Nat
  BY HandleArenaAssumption, FS_Subset, FS_CardinalityType
<1>2. new = IF x = v THEN held \cup {c} ELSE held
  OBVIOUS
<1>3. c \notin held
  OBVIOUS
<1>4. Cardinality(new) = Cardinality(held) + One(x, v)
  <2> HIDE DEF held, new
  <2>1. Cardinality(held \cup {c}) = Cardinality(held) + 1
    BY <1>1, <1>3, FS_AddElement
  <2> QED BY <1>1, <1>2, <2>1 DEF One
<1> QED BY <1>4 DEF Holding

(* JS_DupValue and JS_FreeValue move the count of one value by one.        *)
LEMMA DupFree ==
  ASSUME NEW c \in [Values -> Int], NEW x \in Contents
  PROVE  /\ Dup(c, x) \in [Values -> Int]
         /\ Free(c, x) \in [Values -> Int]
         /\ \A v \in Values : Dup(c, x)[v] = c[v] + One(x, v)
         /\ \A v \in Values : Free(c, x)[v] = c[v] - One(x, v)
  BY HandleArenaAssumption DEF Dup, Free, One, Contents

(* Nothing is counted in an empty arena, in no cell and in no call.        *)
LEMMA NothingCounted ==
  ASSUME NEW v
  PROVE  /\ Above(<<>>, 0, v) = 0
         /\ Holding([c \in {} |-> Undefined], v) = 0
         /\ Arguments(<<>>, v) = 0
  BY FS_EmptySet DEF Above, Holding, Arguments

(* Popping back takes away exactly what it frees.                          *)
LEMMA CutCounts ==
  ASSUME arena \in Seq(Contents), NEW d \in Nat
  PROVE  /\ Cut(d) \in Seq(Contents)
         /\ \A v : /\ Above(arena, d, v) \in Nat
                   /\ Above(Cut(d), 0, v)
                        = Above(arena, 0, v) - Above(arena, d, v)
<1>1. Len(arena) \in Nat /\ DOMAIN arena = 1 .. Len(arena)
  OBVIOUS
<1>2. \A v : Above(arena, d, v) \in Nat /\ Above(arena, 0, v) \in Nat
  BY <1>1, AboveType
<1>3. CASE d < Len(arena)
  <2>1. Cut(d) = SubSeq(arena, 1, d) /\ Cut(d) \in Seq(Contents)
    BY <1>1, <1>3 DEF Cut
  <2>2. \A v : Above(Cut(d), 0, v) \in Nat
    <3>1. Len(Cut(d)) \in Nat /\ DOMAIN Cut(d) = 1 .. Len(Cut(d))
      BY <2>1
    <3> QED BY <3>1, AboveType
  <2>3. d \in 0 .. Len(arena)
    BY <1>1, <1>3
  <2>4. \A v : Above(arena, 0, v) = Above(Cut(d), 0, v) + Above(arena, d, v)
    BY <2>1, <2>3, AboveSplit
  <2> QED BY <1>2, <2>1, <2>2, <2>4
<1>4. CASE ~ (d < Len(arena))
  <2>1. Cut(d) = arena
    BY <1>4 DEF Cut
  <2>2. \A v : { k \in DOMAIN arena : k > d /\ arena[k] = v } = {}
    BY <1>1, <1>4
  <2>3. \A v : Above(arena, d, v) = 0
    BY <2>2, FS_EmptySet DEF Above
  <2> QED BY <1>2, <2>1, <2>3
<1> QED BY <1>3, <1>4

-----------------------------------------------------------------------------
(* The inductive form of CountsExact.  ArgsHeld says why JavaScript cannot *)
(* drop what a call in progress still uses: the engine holds it.           *)
ArgsHeld == \A v \in Values : Arguments(frames, v) <= heap[v]

CountsInv ==
  /\ rc \in [Values -> Int]
  /\ heap \in [Values -> Int]
  /\ arena \in Seq(Contents)
  /\ DOMAIN cells \subseteq Cells
  /\ cells \in [DOMAIN cells -> Contents]
  /\ frames \in Seq(Frame)
  /\ leaked \in [Values -> Nat]
  /\ CountsExact
  /\ ArgsHeld

(* What every step may rely on.                                            *)
LEMMA CountsFacts ==
  ASSUME CountsInv
  PROVE  /\ \A v \in Values : /\ Above(arena, 0, v) \in Nat
                              /\ Holding(cells, v) \in Nat
                              /\ Arguments(frames, v) \in Nat
                              /\ heap[v] \in Nat
                              /\ rc[v] \in Nat
                              /\ leaked[v] \in Nat
         /\ Len(arena) \in Nat
         /\ \A l : Read(l) \in Contents
         /\ \A c \in DOMAIN cells : cells[c] \in Contents
         /\ Values \subseteq Contents
         /\ Undefined \in Contents
<1>1. Len(arena) \in Nat /\ DOMAIN arena = 1 .. Len(arena)
  BY DEF CountsInv
<1>2. \A v \in Values : Above(arena, 0, v) \in Nat
  BY <1>1, AboveType
<1>3. \A v \in Values : Holding(cells, v) \in Nat
  BY HoldingChanges DEF CountsInv
<1>4. \A v \in Values : Arguments(frames, v) \in Nat
  BY ArgumentsType DEF CountsInv
<1>5. \A v \in Values : heap[v] \in Nat
  BY <1>4 DEF CountsInv, ArgsHeld
<1>6. \A v \in Values : rc[v] \in Nat /\ leaked[v] \in Nat
  BY <1>2, <1>3, <1>5 DEF CountsInv, CountsExact
<1>7. \A l : Read(l) \in Contents
  BY DEF Read, CountsInv, Contents
<1> QED BY <1>1, <1>2, <1>3, <1>4, <1>5, <1>6, <1>7 DEF CountsInv, Contents

(* Interning: the slot owns the count that was taken for it.               *)
LEMMA InternCounts ==
  ASSUME CountsInv, NEW v \in Contents, Intern(v), rc' = Dup(rc, v),
         UNCHANGED <<heap, cells, frames, leaked>>
  PROVE  CountsInv'
<1>1. arena' = Append(arena, v) /\ arena' \in Seq(Contents)
  BY DEF Intern, CountsInv
<1>2. \A w \in Values : Above(arena', 0, w) = Above(arena, 0, w) + One(v, w)
  BY <1>1, AboveAppend DEF CountsInv
<1>3. /\ rc' \in [Values -> Int]
      /\ \A w \in Values : rc'[w] = rc[w] + One(v, w)
  BY DupFree DEF CountsInv
<1>4. CountsExact'
  <2>1. ASSUME NEW w \in Values
        PROVE  rc'[w] = heap'[w] + Above(arena', 0, w)
                      + Holding(cells', w) + leaked'[w]
    <3>1. /\ rc[w] = heap[w] + Above(arena, 0, w) + Holding(cells, w) + leaked[w]
          /\ leaked' = leaked /\ leaked[w] \in Nat
          /\ heap[w] \in Nat /\ Above(arena, 0, w) \in Nat
          /\ Holding(cells, w) \in Nat
          /\ One(v, w) \in {0, 1}
      BY CountsFacts, OneType DEF CountsInv, CountsExact
    <3>2. rc'[w] = rc[w] + One(v, w)
      BY <1>3
    <3>3. Above(arena', 0, w) = Above(arena, 0, w) + One(v, w)
      BY <1>2
    <3> QED BY <3>1, <3>2, <3>3
  <2> QED BY <2>1 DEF CountsExact
<1> QED BY <1>1, <1>3, <1>4 DEF CountsInv, ArgsHeld

(* A frame opened: the engine holds its argument, if it has one.           *)
LEMMA OpenCounts ==
  ASSUME CountsInv, NEW f \in Frame, Open(f),
         heap' = Dup(heap, f.arg)
  PROVE  frames' \in Seq(Frame) /\ ArgsHeld' /\ heap' \in [Values -> Int]
<1>1. frames' = Append(frames, f) /\ frames' \in Seq(Frame)
  BY DEF Open, CountsInv
<1>2. \A v \in Values : Arguments(frames', v) = Arguments(frames, v) + One(f.arg, v)
  BY <1>1, ArgumentsAppend DEF CountsInv
<1>3. f.arg \in Contents
  BY DEF Frame, ScopeFrame, CallFrame, Contents
<1>4. /\ heap' \in [Values -> Int]
      /\ \A v \in Values : heap'[v] = heap[v] + One(f.arg, v)
  BY <1>3, DupFree DEF CountsInv
<1>5. ArgsHeld'
  <2>1. ASSUME NEW v \in Values PROVE Arguments(frames', v) <= heap'[v]
    <3>1. /\ Arguments(frames, v) <= heap[v] /\ heap[v] \in Nat
          /\ Arguments(frames, v) \in Nat
          /\ One(f.arg, v) \in {0, 1}
      BY CountsFacts, OneType DEF CountsInv, ArgsHeld
    <3>2. /\ Arguments(frames', v) = Arguments(frames, v) + One(f.arg, v)
          /\ heap'[v] = heap[v] + One(f.arg, v)
      BY <1>2, <1>4
    <3> QED BY <3>1, <3>2
  <2> QED BY <2>1 DEF ArgsHeld
<1> QED BY <1>1, <1>4, <1>5

(* The innermost frame is a frame.                                         *)
LEMMA InnermostType ==
  ASSUME frames \in Seq(Frame), frames # <<>>
  PROVE  /\ Level \in Nat \ {0} /\ Level \in DOMAIN frames
         /\ Innermost \in Frame
         /\ Innermost.depth \in Nat /\ Innermost.arg \in Contents
         /\ Innermost.ret \in Contents /\ Innermost.slot \in Nat
<1>1. Level \in Nat \ {0} /\ Level \in DOMAIN frames /\ frames[Level] \in Frame
  BY DEF Level
<1>2. Innermost \in Frame
  BY <1>1 DEF Innermost
<1> QED BY <1>1, <1>2 DEF Frame, ScopeFrame, CallFrame, Contents

(* The arithmetic of a frame that closes.                                  *)
LEMMA Balance ==
  ASSUME NEW h \in Nat, NEW a \in Nat, NEW c \in Nat, NEW k \in Nat,
         NEW d \in Nat, NEW p \in {0, 1}, NEW l \in {0, 1}, NEW q \in {0, 1}
  PROVE  h + a + c + k + (p + l) - d - q = (h + p - q) + (a - d) + c + (k + l)
  OBVIOUS

(* A frame closed: its argument goes, and of the result `ret`, for which a *)
(* count was taken, the engine now holds a reference (`kept`) or nobody    *)
(* does (`lost`).                                                          *)
LEMMA CloseCounts ==
  ASSUME CountsInv, frames # <<>>, NEW ret \in Contents,
         NEW kept \in Contents, NEW lost \in Contents,
         \/ kept = ret /\ lost = Undefined
         \/ kept = Undefined /\ lost = ret,
         frames' = SubSeq(frames, 1, Level - 1),
         heap' = Free(Dup(heap, kept), Innermost.arg),
         rc' = Free(Popped(Dup(rc, ret), Innermost.depth), Innermost.arg),
         leaked' = Dup(leaked, lost),
         arena' = Cut(Innermost.depth),
         UNCHANGED cells
  PROVE  CountsInv'
<1> DEFINE f == Innermost
<1>0. /\ leaked' \in [Values -> Nat]
      /\ \A v \in Values : /\ leaked'[v] = leaked[v] + One(lost, v)
                           /\ One(ret, v) = One(kept, v) + One(lost, v)
  <2>1. leaked \in [Values -> Nat] /\ leaked \in [Values -> Int]
        /\ Undefined \notin Values
    BY HandleArenaAssumption DEF CountsInv
  <2>2. leaked' \in [Values -> Int]
        /\ \A v \in Values : leaked'[v] = leaked[v] + One(lost, v)
    BY <2>1, DupFree
  <2>3. \A v \in Values : One(lost, v) \in {0, 1}
    BY OneType
  <2>4. leaked' \in [Values -> Nat]
    BY <2>1, <2>2, <2>3
  <2>5. \A v \in Values : One(ret, v) = One(kept, v) + One(lost, v)
    BY <2>1 DEF One
  <2> QED BY <2>2, <2>4, <2>5
<1>1. Level = Len(frames) /\ Innermost = frames[Len(frames)]
  BY DEF Level, Innermost
<1>2. f.depth \in Nat /\ f.arg \in Contents
  BY InnermostType DEF CountsInv
<1>3. frames' \in Seq(Frame)
  BY <1>1 DEF CountsInv
<1>4. \A v \in Values : Arguments(frames, v) = Arguments(frames', v) + One(f.arg, v)
  BY <1>1, ArgumentsFront DEF CountsInv
<1>5. \A v \in Values : Arguments(frames', v) \in Nat
  BY <1>3, ArgumentsType
<1>6. /\ arena' \in Seq(Contents)
      /\ \A v \in Values :
           /\ Above(arena, f.depth, v) \in Nat
           /\ Above(arena', 0, v) = Above(arena, 0, v) - Above(arena, f.depth, v)
  BY <1>2, CutCounts DEF CountsInv
<1>7. /\ Dup(heap, kept) \in [Values -> Int]
      /\ \A v \in Values : Dup(heap, kept)[v] = heap[v] + One(kept, v)
      /\ Dup(rc, ret) \in [Values -> Int]
      /\ \A v \in Values : Dup(rc, ret)[v] = rc[v] + One(ret, v)
  BY DupFree DEF CountsInv
<1>8. /\ Popped(Dup(rc, ret), f.depth) \in [Values -> Int]
      /\ \A v \in Values : Popped(Dup(rc, ret), f.depth)[v]
                             = Dup(rc, ret)[v] - Above(arena, f.depth, v)
  BY <1>6, <1>7 DEF Popped
<1>9. /\ heap' \in [Values -> Int]
      /\ \A v \in Values : heap'[v] = heap[v] + One(kept, v) - One(f.arg, v)
  <2> DEFINE h == Dup(heap, kept)
  <2>1. h \in [Values -> Int] /\ heap' = Free(h, f.arg)
    BY <1>7
  <2> HIDE DEF h
  <2>2. /\ heap' \in [Values -> Int]
        /\ \A v \in Values : heap'[v] = h[v] - One(f.arg, v)
    BY <1>2, <2>1, DupFree
  <2>3. ASSUME NEW v \in Values
        PROVE  heap'[v] = heap[v] + One(kept, v) - One(f.arg, v)
    <3>1. h[v] = heap[v] + One(kept, v)
      BY <1>7 DEF h
    <3>2. heap'[v] = h[v] - One(f.arg, v)
      BY <2>2
    <3>3. /\ heap[v] \in Nat
          /\ One(kept, v) \in {0, 1} /\ One(f.arg, v) \in {0, 1}
      BY CountsFacts, OneType
    <3> HIDE DEF f
    <3> QED BY <3>1, <3>2, <3>3
  <2> QED BY <2>2, <2>3
<1>10. /\ rc' \in [Values -> Int]
       /\ \A v \in Values :
            rc'[v] = rc[v] + One(ret, v) - Above(arena, f.depth, v) - One(f.arg, v)
  <2> DEFINE p == Popped(Dup(rc, ret), f.depth)
  <2>1. p \in [Values -> Int] /\ rc' = Free(p, f.arg)
    BY <1>8
  <2> HIDE DEF p
  <2>2. /\ rc' \in [Values -> Int]
        /\ \A v \in Values : rc'[v] = p[v] - One(f.arg, v)
    BY <1>2, <2>1, DupFree
  <2>3. ASSUME NEW v \in Values
        PROVE  rc'[v] = rc[v] + One(ret, v) - Above(arena, f.depth, v)
                        - One(f.arg, v)
    <3>1. /\ p[v] = Dup(rc, ret)[v] - Above(arena, f.depth, v)
          /\ Dup(rc, ret)[v] = rc[v] + One(ret, v)
      BY <1>7, <1>8 DEF p
    <3>2. rc'[v] = p[v] - One(f.arg, v)
      BY <2>2
    <3>3. /\ rc[v] \in Nat /\ Above(arena, f.depth, v) \in Nat
          /\ One(ret, v) \in {0, 1} /\ One(f.arg, v) \in {0, 1}
      BY <1>6, CountsFacts, OneType
    <3> HIDE DEF f
    <3> QED BY <3>1, <3>2, <3>3
  <2> QED BY <2>2, <2>3
<1>11. CountsExact'
  <2>1. ASSUME NEW v \in Values
        PROVE  rc'[v] = heap'[v] + Above(arena', 0, v)
                      + Holding(cells', v) + leaked'[v]
    <3>1. /\ rc[v] = heap[v] + Above(arena, 0, v) + Holding(cells, v) + leaked[v]
          /\ leaked[v] \in Nat
          /\ heap[v] \in Nat /\ Above(arena, 0, v) \in Nat
          /\ Holding(cells, v) \in Nat
          /\ One(kept, v) \in {0, 1} /\ One(lost, v) \in {0, 1}
          /\ One(f.arg, v) \in {0, 1}
      BY CountsFacts, OneType DEF CountsInv, CountsExact
    <3>2. /\ rc'[v] = rc[v] + One(ret, v) - Above(arena, f.depth, v)
                        - One(f.arg, v)
          /\ heap'[v] = heap[v] + One(kept, v) - One(f.arg, v)
          /\ Above(arena, f.depth, v) \in Nat
          /\ Above(arena', 0, v) = Above(arena, 0, v) - Above(arena, f.depth, v)
          /\ leaked'[v] = leaked[v] + One(lost, v)
          /\ One(ret, v) = One(kept, v) + One(lost, v)
      BY <1>0, <1>6, <1>9, <1>10
    <3>3. Holding(cells', v) = Holding(cells, v)
      OBVIOUS
    <3> HIDE DEF f
    <3> DEFINE h == heap[v]
               a == Above(arena, 0, v)
               c == Holding(cells, v)
               k == leaked[v]
               d == Above(arena, f.depth, v)
               p == One(kept, v)
               l == One(lost, v)
               q == One(f.arg, v)
    <3>4. /\ h \in Nat /\ a \in Nat /\ c \in Nat /\ k \in Nat /\ d \in Nat
          /\ p \in {0, 1} /\ l \in {0, 1} /\ q \in {0, 1}
      BY <3>1, <3>2
    <3>5. rc'[v] = h + a + c + k + (p + l) - d - q
      BY <3>1, <3>2, Zenon
    <3>6. /\ heap'[v] = h + p - q /\ Above(arena', 0, v) = a - d
          /\ Holding(cells', v) = c /\ leaked'[v] = k + l
      BY <3>2, <3>3, Zenon
    <3> HIDE DEF h, a, c, k, d, p, l, q
    <3>7. h + a + c + k + (p + l) - d - q = (h + p - q) + (a - d) + c + (k + l)
      BY <3>4, Balance
    <3> QED BY <3>5, <3>6, <3>7, Zenon
  <2> QED BY <2>1 DEF CountsExact
<1>12. ArgsHeld'
  <2>1. ASSUME NEW v \in Values PROVE Arguments(frames', v) <= heap'[v]
    <3>1. /\ Arguments(frames, v) <= heap[v] /\ heap[v] \in Nat
          /\ Arguments(frames, v) = Arguments(frames', v) + One(f.arg, v)
          /\ heap'[v] = heap[v] + One(kept, v) - One(f.arg, v)
          /\ Arguments(frames', v) \in Nat
      BY <1>4, <1>5, <1>9, CountsFacts DEF CountsInv, ArgsHeld
    <3>2. One(kept, v) \in {0, 1} /\ One(f.arg, v) \in {0, 1}
      BY OneType
    <3> HIDE DEF f
    <3> QED BY <3>1, <3>2
  <2> QED BY <2>1 DEF ArgsHeld
<1> QED BY <1>0, <1>3, <1>6, <1>9, <1>10, <1>11, <1>12 DEF CountsInv

(* Taking or giving back a count, of the values or of the engine's.        *)
LEMMA Moves ==
  ASSUME CountsInv, NEW x \in Contents
  PROVE  /\ Dup(rc, x) \in [Values -> Int] /\ Free(rc, x) \in [Values -> Int]
         /\ Dup(heap, x) \in [Values -> Int] /\ Free(heap, x) \in [Values -> Int]
         /\ \A v \in Values : /\ Dup(rc, x)[v] = rc[v] + One(x, v)
                              /\ Free(rc, x)[v] = rc[v] - One(x, v)
                              /\ Dup(heap, x)[v] = heap[v] + One(x, v)
                              /\ Free(heap, x)[v] = heap[v] - One(x, v)
<1>1. rc \in [Values -> Int] /\ heap \in [Values -> Int]
  BY DEF CountsInv
<1>2. /\ Dup(rc, x) \in [Values -> Int] /\ Free(rc, x) \in [Values -> Int]
      /\ \A v \in Values : Dup(rc, x)[v] = rc[v] + One(x, v)
      /\ \A v \in Values : Free(rc, x)[v] = rc[v] - One(x, v)
  BY <1>1, DupFree
<1>3. /\ Dup(heap, x) \in [Values -> Int] /\ Free(heap, x) \in [Values -> Int]
      /\ \A v \in Values : Dup(heap, x)[v] = heap[v] + One(x, v)
      /\ \A v \in Values : Free(heap, x)[v] = heap[v] - One(x, v)
  BY <1>1, DupFree
<1> QED BY <1>2, <1>3

(* Setting the return slot of a callback leaves the arguments of the calls. *)
LEMMA ReturnSetKeeps ==
  ASSUME frames \in Seq(Frame), NEW k \in DOMAIN frames,
         frames[k].kind = "callback", NEW x \in Contents,
         frames' = [frames EXCEPT ![k].ret = x]
  PROVE  /\ frames' \in Seq(Frame)
         /\ \A v : Arguments(frames', v) = Arguments(frames, v)
<1>1. frames[k] \in CallFrame
  BY DEF Frame, ScopeFrame
<1>2. [frames[k] EXCEPT !.ret = x] \in CallFrame
  BY <1>1 DEF CallFrame
<1>3. frames' \in Seq(Frame)
  BY <1>2 DEF Frame
<1>4. DOMAIN frames' = DOMAIN frames
      /\ \A j \in DOMAIN frames : frames'[j].arg = frames[j].arg
  BY <1>1 DEF CallFrame
<1>5. \A v : { j \in DOMAIN frames' : frames'[j].arg = v }
              = { j \in DOMAIN frames : frames[j].arg = v }
  BY <1>4
<1> QED BY <1>3, <1>5 DEF Arguments

(* Every step keeps the counts exact.                                      *)
LEMMA CountsStep ==
  ASSUME CountsInv, Next
  PROVE  CountsInv'
<1> USE HandleArenaAssumption
<1>0. /\ rc \in [Values -> Int] /\ heap \in [Values -> Int]
      /\ arena \in Seq(Contents) /\ frames \in Seq(Frame)
      /\ DOMAIN cells \subseteq Cells /\ cells \in [DOMAIN cells -> Contents]
      /\ \A v \in Values :
           rc[v] = heap[v] + Above(arena, 0, v) + Holding(cells, v) + leaked[v]
      /\ \A v \in Values : Arguments(frames, v) <= heap[v]
      /\ leaked \in [Values -> Nat]
  BY DEF CountsInv, CountsExact, ArgsHeld
<1>1. ASSUME NEW v \in Values, InternFresh(v) PROVE CountsInv'
  <2>1. rc' = Dup(rc, v)
    BY <1>0, <1>1 DEF InternFresh, Dup
  <2> QED BY <1>1, <2>1, CountsFacts, InternCounts DEF InternFresh
<1>2. ASSUME NEW v \in Values, InternBorrowed(v) PROVE CountsInv'
  BY <1>2, CountsFacts, InternCounts DEF InternBorrowed
<1>3. ASSUME NEW v \in Contents, LocalNew(v) PROVE CountsInv'
  BY <1>3, InternCounts DEF LocalNew
<1>4. ASSUME NEW k \in DOMAIN frames, ReturnValueGet(k) PROVE CountsInv'
  <2>1. frames[k].ret \in Contents
    BY <1>0 DEF Frame, ScopeFrame, CallFrame, Contents
  <2> QED BY <1>4, <2>1, InternCounts DEF ReturnValueGet
<1>5. ASSUME NEW c \in Cells, NEW l \in locals, GlobalNew(c, l) PROVE CountsInv'
  <2> DEFINE x == Read(l)
  <2>1. x \in Contents
    BY CountsFacts
  <2>2. /\ cells' = [d \in DOMAIN cells \cup {c} |-> IF d = c THEN x ELSE cells[d]]
        /\ c \notin DOMAIN cells
        /\ rc' = Dup(rc, x)
        /\ UNCHANGED <<heap, arena, frames, leaked>>
    BY <1>5 DEF GlobalNew
  <2> HIDE DEF x
  <2>3. DOMAIN cells' \subseteq Cells /\ cells' \in [DOMAIN cells' -> Contents]
    BY <1>0, <2>1, <2>2
  <2>4. /\ rc' \in [Values -> Int]
        /\ \A v \in Values : rc'[v] = rc[v] + One(x, v)
    BY <2>1, <2>2, Moves
  <2>5. \A v \in Values : Holding(cells', v) = Holding(cells, v) + One(x, v)
    <3>1. DOMAIN cells \subseteq Cells /\ c \in Cells /\ c \notin DOMAIN cells
      BY <1>0, <2>2
    <3> QED BY <2>2, <3>1, HoldingAdds
  <2>6. ASSUME NEW v \in Values
        PROVE  rc'[v] = heap'[v] + Above(arena', 0, v)
                      + Holding(cells', v) + leaked'[v]
    <3>1. /\ heap[v] \in Nat /\ Above(arena, 0, v) \in Nat
          /\ Holding(cells, v) \in Nat /\ One(x, v) \in {0, 1}
      BY CountsFacts, OneType
    <3>2. /\ rc[v] = heap[v] + Above(arena, 0, v) + Holding(cells, v) + leaked[v]
          /\ leaked' = leaked /\ leaked[v] \in Nat
          /\ heap' = heap /\ arena' = arena
      BY <1>0, <2>2
    <3> QED BY <2>4, <2>5, <3>1, <3>2
  <2> QED BY <1>0, <2>2, <2>3, <2>4, <2>6 DEF CountsInv, CountsExact, ArgsHeld
<1>6. ASSUME NEW c \in Cells, GlobalReset(c) PROVE CountsInv'
  <2> DEFINE x == cells[c]
  <2>1. c \in DOMAIN cells /\ x \in Contents
    BY <1>6, CountsFacts DEF GlobalReset
  <2>2. /\ cells' = [d \in DOMAIN cells \ {c} |-> cells[d]]
        /\ rc' = Free(rc, x)
        /\ UNCHANGED <<heap, arena, frames, leaked>>
    BY <1>6 DEF GlobalReset
  <2>3. DOMAIN cells' \subseteq Cells /\ cells' \in [DOMAIN cells' -> Contents]
    BY <1>0, <2>2
  <2>4. \A v \in Values : Holding(cells', v) = Holding(cells, v) - One(x, v)
    BY <1>0, <2>1, <2>2, HoldingChanges
  <2> HIDE DEF x
  <2>5. /\ rc' \in [Values -> Int]
        /\ \A v \in Values : rc'[v] = rc[v] - One(x, v)
    BY <2>1, <2>2, Moves
  <2>6. ASSUME NEW v \in Values
        PROVE  rc'[v] = heap'[v] + Above(arena', 0, v)
                      + Holding(cells', v) + leaked'[v]
    <3>1. /\ heap[v] \in Nat /\ Above(arena, 0, v) \in Nat
          /\ Holding(cells, v) \in Nat /\ One(x, v) \in {0, 1}
      BY CountsFacts, OneType
    <3>2. /\ rc[v] = heap[v] + Above(arena, 0, v) + Holding(cells, v) + leaked[v]
          /\ leaked' = leaked /\ leaked[v] \in Nat
          /\ heap' = heap /\ arena' = arena
      BY <1>0, <2>2
    <3> QED BY <2>4, <2>5, <3>1, <3>2
  <2> QED BY <1>0, <2>2, <2>3, <2>5, <2>6 DEF CountsInv, CountsExact, ArgsHeld
<1>7. ASSUME NEW l \in locals, HeapStore(l) PROVE CountsInv'
  <2> DEFINE x == Read(l)
  <2>1. /\ x \in Values /\ x \in Contents
        /\ heap' = Dup(heap, x) /\ rc' = Dup(rc, x)
        /\ UNCHANGED <<arena, cells, frames, leaked>>
    BY <1>7 DEF HeapStore, Dup, Contents
  <2> HIDE DEF x
  <2>2. /\ rc' \in [Values -> Int] /\ heap' \in [Values -> Int]
        /\ \A v \in Values : /\ rc'[v] = rc[v] + One(x, v)
                             /\ heap'[v] = heap[v] + One(x, v)
    BY <2>1, Moves
  <2>3. ASSUME NEW v \in Values
        PROVE  /\ rc'[v] = heap'[v] + Above(arena', 0, v)
                         + Holding(cells', v) + leaked'[v]
               /\ Arguments(frames', v) <= heap'[v]
    <3>1. /\ heap[v] \in Nat /\ Above(arena, 0, v) \in Nat
          /\ Holding(cells, v) \in Nat /\ One(x, v) \in {0, 1}
          /\ Arguments(frames, v) \in Nat
      BY CountsFacts, OneType
    <3>2. /\ rc[v] = heap[v] + Above(arena, 0, v) + Holding(cells, v) + leaked[v]
          /\ leaked' = leaked /\ leaked[v] \in Nat
          /\ Arguments(frames, v) <= heap[v]
          /\ arena' = arena /\ cells' = cells /\ frames' = frames
      BY <1>0, <2>1
    <3>3. rc'[v] = rc[v] + One(x, v) /\ heap'[v] = heap[v] + One(x, v)
      BY <2>2
    <3> QED BY <3>1, <3>2, <3>3
  <2> QED BY <1>0, <2>1, <2>2, <2>3 DEF CountsInv, CountsExact, ArgsHeld
<1>8. ASSUME NEW x \in Values, HeapDrop(x) PROVE CountsInv'
  <2>1. /\ x \in Contents /\ heap[x] > Arguments(frames, x)
        /\ heap' = Free(heap, x) /\ rc' = Free(rc, x)
        /\ UNCHANGED <<arena, cells, frames, leaked>>
    BY <1>8 DEF HeapDrop, Free, Contents
  <2>2. /\ rc' \in [Values -> Int] /\ heap' \in [Values -> Int]
        /\ \A v \in Values : /\ rc'[v] = rc[v] - One(x, v)
                             /\ heap'[v] = heap[v] - One(x, v)
    BY <2>1, Moves
  <2>3. ASSUME NEW v \in Values
        PROVE  /\ rc'[v] = heap'[v] + Above(arena', 0, v)
                         + Holding(cells', v) + leaked'[v]
               /\ Arguments(frames', v) <= heap'[v]
    <3>1. /\ heap[v] \in Nat /\ Above(arena, 0, v) \in Nat
          /\ Holding(cells, v) \in Nat
          /\ Arguments(frames, v) \in Nat
      BY CountsFacts
    <3>2. /\ rc[v] = heap[v] + Above(arena, 0, v) + Holding(cells, v) + leaked[v]
          /\ leaked' = leaked /\ leaked[v] \in Nat
          /\ Arguments(frames, v) <= heap[v]
          /\ arena' = arena /\ cells' = cells /\ frames' = frames
      BY <1>0, <2>1
    <3>3. rc'[v] = rc[v] - One(x, v) /\ heap'[v] = heap[v] - One(x, v)
      BY <2>2
    <3>4. \/ One(x, v) = 0
          \/ (One(x, v) = 1 /\ heap[v] > Arguments(frames, v))
      BY <2>1 DEF One
    <3> QED BY <3>1, <3>2, <3>3, <3>4
  <2> QED BY <1>0, <2>1, <2>2, <2>3 DEF CountsInv, CountsExact, ArgsHeld
<1>9. ASSUME HandleScopeConstruct PROVE CountsInv'
  <2> DEFINE f == [kind |-> "scope", depth |-> Len(arena), slot |-> 0,
                   arg |-> Undefined, ret |-> Undefined]
  <2>1. f \in Frame /\ Open(f) /\ UNCHANGED <<rc, heap, arena, cells, leaked>>
    BY <1>9, CountsFacts DEF HandleScopeConstruct, Frame, ScopeFrame
  <2>2. heap' = Dup(heap, f.arg)
    BY <2>1 DEF Dup
  <2>3. frames' \in Seq(Frame) /\ ArgsHeld'
    BY <2>1, <2>2, OpenCounts
  <2> QED BY <1>0, <2>1, <2>3 DEF CountsInv, CountsExact
<1>10. ASSUME EscapableScopeConstruct PROVE CountsInv'
  <2> DEFINE f == [kind |-> "scope", depth |-> Len(arena) + 1,
                   slot |-> Len(arena) + 1,
                   arg |-> Undefined, ret |-> Undefined]
  <2>1. f \in Frame /\ Open(f) /\ UNCHANGED <<rc, heap, cells, leaked>>
    BY <1>10, CountsFacts DEF EscapableScopeConstruct, Frame, ScopeFrame
  <2>2. heap' = Dup(heap, f.arg)
    BY <2>1 DEF Dup
  <2>3. frames' \in Seq(Frame) /\ ArgsHeld'
    BY <2>1, <2>2, OpenCounts
  <2>4. arena' = Append(arena, Undefined) /\ arena' \in Seq(Contents)
    BY <1>0, <1>10, CountsFacts DEF EscapableScopeConstruct
  <2>5. ASSUME NEW v \in Values PROVE Above(arena', 0, v) = Above(arena, 0, v)
    <3>1. Above(arena', 0, v) = Above(arena, 0, v) + One(Undefined, v)
      BY <1>0, <2>4, CountsFacts, AboveAppend
    <3>2. One(Undefined, v) = 0 /\ Above(arena, 0, v) \in Nat
      BY CountsFacts DEF One
    <3> QED BY <3>1, <3>2
  <2> QED BY <1>0, <2>1, <2>3, <2>4, <2>5 DEF CountsInv, CountsExact
<1>11. ASSUME NEW l \in locals, Escape(l) PROVE CountsInv'
  <2> DEFINE x == Read(l)
             slot == Innermost.slot
             y == arena[slot]
  <2>1. x \in Contents /\ UNCHANGED <<heap, cells, leaked>>
    BY <1>11, CountsFacts DEF Escape
  <2>2. frames' = [frames EXCEPT ![Level].slot = 0] /\ Level \in DOMAIN frames
        /\ frames[Level].slot # 0
    BY <1>0, <1>11, InnermostType DEF Escape, Innermost
  <2>3. frames[Level] \in ScopeFrame
    BY <1>0, <2>2 DEF Frame, CallFrame
  <2>4. [frames[Level] EXCEPT !.slot = 0] \in ScopeFrame
    BY <2>3 DEF ScopeFrame
  <2>5. frames' \in Seq(Frame)
    BY <1>0, <2>2, <2>4 DEF Frame
  <2>6. \A v : Arguments(frames', v) = Arguments(frames, v)
    <3>1. DOMAIN frames' = DOMAIN frames
          /\ \A k \in DOMAIN frames : frames'[k].arg = frames[k].arg
      BY <2>2, <2>3 DEF ScopeFrame
    <3>2. \A v : { k \in DOMAIN frames' : frames'[k].arg = v }
                   = { k \in DOMAIN frames : frames[k].arg = v }
      BY <3>1
    <3> QED BY <3>2 DEF Arguments
  <2>7. CASE slot \in DOMAIN arena
    <3>1. /\ rc' = Free(Dup(rc, x), y)
          /\ arena' = [arena EXCEPT ![slot] = x]
      BY <1>11, <2>7 DEF Escape
    <3>2. y \in Contents /\ arena' \in Seq(Contents)
      BY <1>0, <2>1, <2>7, <3>1
    <3>3. \A v \in Values :
            Above(arena', 0, v) = Above(arena, 0, v) - One(y, v) + One(x, v)
      <4>1. arena \in Seq(Contents) /\ x \in Contents /\ slot \in DOMAIN arena
        BY <1>0, <2>1, <2>7
      <4>2. y = arena[slot]
        OBVIOUS
      <4> HIDE DEF x, slot, y
      <4>3. ASSUME NEW v \in Values
            PROVE  Above([arena EXCEPT ![slot] = x], 0, v)
                     = Above(arena, 0, v) - One(arena[slot], v) + One(x, v)
        BY <4>1, AboveReplace
      <4> QED BY <3>1, <4>2, <4>3, Zenon
    <3> HIDE DEF x, y, slot
    <3>4. /\ Dup(rc, x) \in [Values -> Int]
          /\ \A v \in Values : Dup(rc, x)[v] = rc[v] + One(x, v)
      BY <2>1, Moves
    <3>5. /\ rc' \in [Values -> Int]
          /\ \A v \in Values : rc'[v] = Dup(rc, x)[v] - One(y, v)
      BY <3>1, <3>2, <3>4, DupFree
    <3>6. ASSUME NEW v \in Values
          PROVE  rc'[v] = heap'[v] + Above(arena', 0, v)
                        + Holding(cells', v) + leaked'[v]
      <4>1. /\ heap[v] \in Nat /\ Above(arena, 0, v) \in Nat
            /\ Holding(cells, v) \in Nat
            /\ One(x, v) \in {0, 1} /\ One(y, v) \in {0, 1}
        BY CountsFacts, OneType
      <4>2. /\ rc[v] = heap[v] + Above(arena, 0, v) + Holding(cells, v) + leaked[v]
            /\ leaked' = leaked /\ leaked[v] \in Nat
            /\ heap' = heap /\ cells' = cells
        BY <1>0, <2>1
      <4>3. /\ rc'[v] = Dup(rc, x)[v] - One(y, v)
            /\ Dup(rc, x)[v] = rc[v] + One(x, v)
            /\ Above(arena', 0, v) = Above(arena, 0, v) - One(y, v) + One(x, v)
        BY <3>3, <3>4, <3>5
      <4> QED BY <4>1, <4>2, <4>3
    <3> QED BY <1>0, <2>1, <2>5, <2>6, <3>2, <3>5, <3>6
            DEF CountsInv, CountsExact, ArgsHeld
  <2>8. CASE slot \notin DOMAIN arena
    <3>1. UNCHANGED <<rc, arena>>
      BY <1>11, <2>8 DEF Escape
    <3> QED BY <1>0, <2>1, <2>5, <2>6, <3>1 DEF CountsInv, CountsExact, ArgsHeld
  <2> QED BY <2>7, <2>8
<1>12. ASSUME HandleScopeDestruct PROVE CountsInv'
  <2>1. Innermost.arg = Undefined
    BY <1>0, <1>12, InnermostType DEF HandleScopeDestruct, Frame, ScopeFrame,
                                      CallFrame
  <2>2. /\ frames # <<>>
        /\ rc' = Free(Popped(Dup(rc, Undefined), Innermost.depth), Innermost.arg)
        /\ heap' = Free(Dup(heap, Undefined), Innermost.arg)
        /\ leaked' = Dup(leaked, Undefined)
        /\ arena' = Cut(Innermost.depth)
        /\ frames' = SubSeq(frames, 1, Level - 1)
        /\ UNCHANGED cells
    BY <1>12, <2>1 DEF HandleScopeDestruct, Dup, Free
  <2> QED BY <2>2, CountsFacts, CloseCounts
<1>13. ASSUME NEW used \in BOOLEAN, CallbackReturn(used) PROVE CountsInv'
  <2> DEFINE ret == IF used THEN Innermost.ret ELSE Undefined
  <2>1. ret \in Contents
    BY <1>0, <1>13, InnermostType, CountsFacts DEF CallbackReturn
  <2>2. /\ frames # <<>>
        /\ rc' = Free(Popped(Dup(rc, ret), Innermost.depth), Innermost.arg)
        /\ heap' = Free(Dup(heap, ret), Innermost.arg)
        /\ arena' = Cut(Innermost.depth)
        /\ frames' = SubSeq(frames, 1, Level - 1)
        /\ leaked' = Dup(leaked, Undefined)
        /\ UNCHANGED cells
    BY <1>13 DEF CallbackReturn, Dup
  <2> HIDE DEF ret
  <2> QED BY <2>1, <2>2, CountsFacts, CloseCounts
<1>14. ASSUME NEW result \in Contents, NEW threw \in BOOLEAN,
              FastReturn(result, threw)
       PROVE  CountsInv'
  <2> DEFINE kept == IF threw THEN Undefined ELSE result
             lost == IF threw THEN result ELSE Undefined
  <2>1. /\ kept \in Contents /\ lost \in Contents
        /\ \/ kept = result /\ lost = Undefined
           \/ kept = Undefined /\ lost = result
    BY CountsFacts
  <2>2. /\ frames # <<>>
        /\ rc' = Free(Popped(Dup(rc, result), Innermost.depth), Innermost.arg)
        /\ heap' = Free(Dup(heap, kept), Innermost.arg)
        /\ leaked' = Dup(leaked, lost)
        /\ arena' = Cut(Innermost.depth)
        /\ frames' = SubSeq(frames, 1, Level - 1)
        /\ UNCHANGED cells
    BY <1>14 DEF FastReturn
  <2> HIDE DEF kept, lost
  <2> QED BY <2>1, <2>2, CloseCounts
<1>15. ASSUME NEW v \in Values, CallbackEnter(v) PROVE CountsInv'
  <2> DEFINE f == [kind |-> "callback", depth |-> Len(arena), slot |-> 0,
                   arg |-> v, ret |-> Undefined]
  <2>1. /\ f \in Frame /\ Open(f) /\ UNCHANGED <<arena, cells, leaked>>
        /\ f.arg = v /\ v \in Contents
        /\ heap' = Dup(heap, v) /\ rc' = Dup(rc, v)
    BY <1>15, CountsFacts DEF CallbackEnter, Frame, CallFrame, Contents, Dup
  <2> HIDE DEF f
  <2>2. frames' \in Seq(Frame) /\ ArgsHeld' /\ heap' \in [Values -> Int]
    BY <2>1, OpenCounts
  <2>3. /\ rc' \in [Values -> Int]
        /\ \A w \in Values : /\ rc'[w] = rc[w] + One(v, w)
                             /\ heap'[w] = heap[w] + One(v, w)
    BY <2>1, Moves
  <2>4. ASSUME NEW w \in Values
        PROVE  rc'[w] = heap'[w] + Above(arena', 0, w)
                      + Holding(cells', w) + leaked'[w]
    <3>1. /\ heap[w] \in Nat /\ Above(arena, 0, w) \in Nat
          /\ Holding(cells, w) \in Nat /\ One(v, w) \in {0, 1}
      BY CountsFacts, OneType
    <3>2. /\ rc[w] = heap[w] + Above(arena, 0, w) + Holding(cells, w) + leaked[w]
          /\ leaked' = leaked /\ leaked[w] \in Nat
          /\ arena' = arena /\ cells' = cells
      BY <1>0, <2>1
    <3>3. rc'[w] = rc[w] + One(v, w) /\ heap'[w] = heap[w] + One(v, w)
      BY <2>3
    <3> QED BY <3>1, <3>2, <3>3
  <2> QED BY <1>0, <2>1, <2>2, <2>3, <2>4 DEF CountsInv, CountsExact
<1>16. ASSUME NEW v \in Values, FastReceivers(v)
       PROVE  /\ arena' \in Seq(Contents)
              /\ \A w \in Values :
                   Above(arena', 0, w) = Above(arena, 0, w) + One(v, w)
  <2>1. /\ v \in Contents /\ Append(arena, v) \in Seq(Contents)
        /\ arena' = Append(Append(arena, v), Undefined)
        /\ arena' \in Seq(Contents)
    <3>1. arena' = arena \o <<v, Undefined>>
      BY <1>16 DEF FastReceivers
    <3>2. v \in Contents /\ Undefined \in Contents /\ arena \in Seq(Contents)
      BY <1>0, CountsFacts
    <3> QED BY <3>1, <3>2
  <2>2. ASSUME NEW w \in Values
        PROVE  Above(arena', 0, w) = Above(arena, 0, w) + One(v, w)
    <3>1. Above(arena', 0, w) = Above(Append(arena, v), 0, w) + One(Undefined, w)
      BY <2>1, CountsFacts, AboveAppend
    <3>2. Above(Append(arena, v), 0, w) = Above(arena, 0, w) + One(v, w)
      BY <1>0, <2>1, AboveAppend
    <3>3. One(Undefined, w) = 0
      BY DEF One
    <3>4. Above(arena, 0, w) \in Nat /\ One(v, w) \in {0, 1}
      BY CountsFacts, OneType
    <3> QED BY <3>1, <3>2, <3>3, <3>4
  <2> QED BY <2>1, <2>2
<1>17. ASSUME NEW v \in Values, FastEnter(v) PROVE CountsInv'
  <2> DEFINE f == [kind |-> "fast", depth |-> Len(arena), slot |-> 0,
                   arg |-> v, ret |-> Undefined]
  <2>1. /\ f \in Frame /\ Open(f) /\ UNCHANGED <<cells, leaked>> /\ FastReceivers(v)
        /\ f.arg = v /\ v \in Contents
        /\ heap' = Dup(heap, v) /\ rc' = Dup(Dup(rc, v), v)
    BY <1>17, CountsFacts DEF FastEnter, Frame, CallFrame, Contents, Dup
  <2> HIDE DEF f
  <2>2. frames' \in Seq(Frame) /\ ArgsHeld' /\ heap' \in [Values -> Int]
    BY <2>1, OpenCounts
  <2>3. /\ Dup(rc, v) \in [Values -> Int]
        /\ \A w \in Values : /\ Dup(rc, v)[w] = rc[w] + One(v, w)
                             /\ heap'[w] = heap[w] + One(v, w)
    BY <2>1, Moves
  <2>4. /\ rc' \in [Values -> Int]
        /\ \A w \in Values : rc'[w] = Dup(rc, v)[w] + One(v, w)
    BY <2>1, <2>3, DupFree
  <2>5. ASSUME NEW w \in Values
        PROVE  rc'[w] = heap'[w] + Above(arena', 0, w)
                      + Holding(cells', w) + leaked'[w]
    <3>1. /\ heap[w] \in Nat /\ Above(arena, 0, w) \in Nat
          /\ Holding(cells, w) \in Nat /\ One(v, w) \in {0, 1}
      BY CountsFacts, OneType
    <3>2. Above(arena', 0, w) = Above(arena, 0, w) + One(v, w)
      BY <1>16, <2>1
    <3>3. /\ rc[w] = heap[w] + Above(arena, 0, w) + Holding(cells, w) + leaked[w]
          /\ leaked' = leaked /\ leaked[w] \in Nat
          /\ cells' = cells
      BY <1>0, <2>1
    <3>4. /\ rc'[w] = Dup(rc, v)[w] + One(v, w)
          /\ Dup(rc, v)[w] = rc[w] + One(v, w)
          /\ heap'[w] = heap[w] + One(v, w)
      BY <2>3, <2>4
    <3> QED BY <3>1, <3>2, <3>3, <3>4
  <2> QED BY <1>0, <1>16, <2>1, <2>2, <2>4, <2>5 DEF CountsInv, CountsExact
<1>18. ASSUME NEW v \in Values, FastMismatch(v) PROVE CountsInv'
  <2>1. /\ FastReceivers(v) /\ v \in Contents /\ rc' = Dup(rc, v)
        /\ UNCHANGED <<heap, cells, frames, leaked>>
    BY <1>18, CountsFacts DEF FastMismatch
  <2>2. /\ rc' \in [Values -> Int]
        /\ \A w \in Values : rc'[w] = rc[w] + One(v, w)
    BY <2>1, Moves
  <2>3. ASSUME NEW w \in Values
        PROVE  rc'[w] = heap'[w] + Above(arena', 0, w)
                      + Holding(cells', w) + leaked'[w]
    <3>1. /\ heap[w] \in Nat /\ Above(arena, 0, w) \in Nat
          /\ Holding(cells, w) \in Nat /\ One(v, w) \in {0, 1}
      BY CountsFacts, OneType
    <3>2. Above(arena', 0, w) = Above(arena, 0, w) + One(v, w)
      BY <1>16, <2>1
    <3>3. /\ rc[w] = heap[w] + Above(arena, 0, w) + Holding(cells, w) + leaked[w]
          /\ leaked' = leaked /\ leaked[w] \in Nat
          /\ heap' = heap /\ cells' = cells
      BY <1>0, <2>1
    <3>4. rc'[w] = rc[w] + One(v, w)
      BY <2>2
    <3> QED BY <3>1, <3>2, <3>3, <3>4
  <2> QED BY <1>0, <1>16, <2>1, <2>2, <2>3 DEF CountsInv, CountsExact, ArgsHeld
<1>19. ASSUME NEW k \in DOMAIN frames, NEW l \in locals, ReturnValueSet(k, l)
       PROVE  CountsInv'
  <2>1. /\ frames' = [frames EXCEPT ![k].ret = Read(l)] /\ Read(l) \in Contents
        /\ frames[k].kind = "callback"
        /\ UNCHANGED <<rc, heap, arena, cells, leaked>>
    BY <1>19, CountsFacts DEF ReturnValueSet, IsRunning
  <2>2. frames' \in Seq(Frame) /\ \A w : Arguments(frames', w) = Arguments(frames, w)
    BY <1>0, <2>1, ReturnSetKeeps
  <2> QED BY <1>0, <2>1, <2>2 DEF CountsInv, CountsExact, ArgsHeld
<1>20. ASSUME Dispose PROVE CountsInv'
  <2>1. /\ rc' = [v \in Values |->
                    rc[v] - Above(arena, 0, v) - Holding(cells, v) - heap[v]]
        /\ heap' = [v \in Values |-> 0]
        /\ arena' = <<>> /\ cells' = [c \in {} |-> Undefined]
        /\ frames = <<>> /\ frames' = <<>>
        /\ leaked' = leaked
    BY <1>20 DEF Dispose
  <2>2. ASSUME NEW v \in Values PROVE rc'[v] = leaked[v]
    <3>1. /\ heap[v] \in Nat /\ Above(arena, 0, v) \in Nat
          /\ Holding(cells, v) \in Nat /\ leaked[v] \in Nat
      BY CountsFacts
    <3>2. rc'[v] = rc[v] - Above(arena, 0, v) - Holding(cells, v) - heap[v]
      BY <2>1
    <3> QED BY <1>0, <3>1, <3>2
  <2>3. \A v \in Values : /\ Above(arena', 0, v) = 0
                          /\ Holding(cells', v) = 0
                          /\ Arguments(frames', v) = 0
    BY <2>1, NothingCounted
  <2>4. rc' \in [Values -> Int] /\ heap' \in [Values -> Int]
    BY <1>0, <2>1, <2>2
  <2>5. CountsExact' /\ ArgsHeld'
    BY <1>0, <2>1, <2>2, <2>3 DEF CountsExact, ArgsHeld
  <2> QED BY <1>0, <2>1, <2>4, <2>5 DEF CountsInv
<1>21. ASSUME NEW k \in DOMAIN frames, NEW v \in Values,
              ReturnValueSetEmptyString(k, v)
       PROVE  CountsInv'
  <2>1. /\ frames' = [frames EXCEPT ![k].ret = v] /\ v \in Contents
        /\ frames[k].kind = "callback"
        /\ rc[v] = 0
        /\ rc' = [rc EXCEPT ![v] = 1] /\ leaked' = [leaked EXCEPT ![v] = 1]
        /\ UNCHANGED <<heap, arena, cells>>
    BY <1>21 DEF ReturnValueSetEmptyString, IsRunning, Contents
  <2>2. frames' \in Seq(Frame) /\ \A w : Arguments(frames', w) = Arguments(frames, w)
    BY <1>0, <2>1, ReturnSetKeeps
  <2>3. leaked' \in [Values -> Nat] /\ rc' \in [Values -> Int]
    BY <1>0, <2>1
  <2>4. ASSUME NEW w \in Values
        PROVE  rc'[w] = heap'[w] + Above(arena', 0, w)
                      + Holding(cells', w) + leaked'[w]
    <3>1. /\ heap[w] \in Nat /\ Above(arena, 0, w) \in Nat
          /\ Holding(cells, w) \in Nat /\ leaked[w] \in Nat
          /\ rc[w] = heap[w] + Above(arena, 0, w) + Holding(cells, w) + leaked[w]
      BY <1>0, CountsFacts
    <3>2. CASE w = v
      BY <1>0, <2>1, <3>1, <3>2
    <3>3. CASE w # v
      BY <1>0, <2>1, <3>1, <3>3
    <3> QED BY <3>2, <3>3
  <2> QED BY <1>0, <2>1, <2>2, <2>3, <2>4 DEF CountsInv, CountsExact, ArgsHeld
<1> QED
  BY <1>1, <1>2, <1>3, <1>4, <1>5, <1>6, <1>7, <1>8, <1>9, <1>10, <1>11, <1>12,
     <1>13, <1>14, <1>15, <1>17, <1>18, <1>19, <1>20, <1>21
  DEF Next

(* A new handle is a handle.                                               *)
LEMMA LocalsStep ==
  ASSUME CountsInv, locals \subseteq Local, Next
  PROVE  locals' \subseteq Local
<1>1. Level \in Nat /\ Len(arena) \in Nat /\ frames \in Seq(Frame)
  BY CountsFacts DEF CountsInv, Level
<1>2. \A v \in Contents : Intern(v) => locals' \subseteq Local
  <2>1. \A v \in Contents :
          [at |-> Len(arena) + 1, val |-> v, level |-> Level] \in Local
    BY <1>1 DEF Local
  <2> QED BY <2>1 DEF Intern
<1>3. \A n \in Nat : Usable(n) \subseteq Local
  BY DEF Usable
<1>4. frames # <<>> => /\ Level - 1 \in Nat /\ Innermost.slot \in Nat
                       /\ Innermost.arg \in Contents
                       /\ Innermost.ret \in Contents
  BY <1>1, InnermostType
<1>5. ASSUME NEW l \in locals, Escape(l) PROVE locals' \subseteq Local
  <2>1. /\ Innermost.slot \in Nat \ {0} /\ Level - 1 \in Nat
        /\ Read(l) \in Contents
    BY <1>4, <1>5, CountsFacts DEF Escape
  <2>2. /\ [at |-> Innermost.slot, val |-> Read(l), level |-> Level - 1] \in Local
        /\ [l EXCEPT !.level = Level - 1] \in Local
    BY <2>1 DEF Local
  <2> QED BY <1>5, <2>2 DEF Escape
<1>6. ASSUME NEW v \in Values, FastEnter(v) PROVE locals' \subseteq Local
  <2>1. v \in Contents /\ Undefined \in Contents
    BY DEF Contents
  <2>2. /\ [at |-> Len(arena) + 1, val |-> v, level |-> Level + 1] \in Local
        /\ [at |-> Len(arena) + 2, val |-> Undefined, level |-> Level + 1] \in Local
    BY <1>1, <2>1 DEF Local
  <2> QED BY <1>6, <2>2 DEF FastEnter
<1>7. ASSUME NEW v \in Values, InternFresh(v) \/ InternBorrowed(v)
      PROVE  locals' \subseteq Local
  BY <1>2, <1>7 DEF InternFresh, InternBorrowed, Contents
<1>8. ASSUME NEW v \in Contents, LocalNew(v) PROVE locals' \subseteq Local
  BY <1>2, <1>8 DEF LocalNew
<1>9. ASSUME NEW k \in DOMAIN frames, ReturnValueGet(k)
      PROVE  locals' \subseteq Local
  <2>1. frames[k].ret \in Contents
    BY <1>1 DEF Frame, ScopeFrame, CallFrame, Contents
  <2> QED BY <1>2, <1>9, <2>1 DEF ReturnValueGet
<1>10. ASSUME \/ HandleScopeDestruct
              \/ \E result \in Contents, threw \in BOOLEAN : FastReturn(result, threw)
              \/ \E used \in BOOLEAN : CallbackReturn(used)
       PROVE  locals' \subseteq Local
  BY <1>3, <1>4, <1>10 DEF HandleScopeDestruct, FastReturn, CallbackReturn
<1>11. ASSUME UNCHANGED locals \/ Dispose PROVE locals' \subseteq Local
  BY <1>11 DEF Dispose
<1> QED
  BY <1>5, <1>6, <1>7, <1>8, <1>9, <1>10, <1>11
  DEF Next, HeapDrop, CallbackEnter, FastMismatch, ReturnValueSetEmptyString,
      HeapStore, GlobalNew, ReturnValueSet, GlobalReset, HandleScopeConstruct,
      EscapableScopeConstruct

-----------------------------------------------------------------------------
(* The types and the counts, together: the counts need the types of the    *)
(* frames, and that every count is a natural number needs the counts.      *)
ArenaInv == CountsInv /\ locals \subseteq Local

LEMMA ArenaInvHolds == Spec => []ArenaInv
<1>1. Init => ArenaInv
  <2> SUFFICES ASSUME Init PROVE ArenaInv
    OBVIOUS
  <2>1. /\ rc = [v \in Values |-> 0] /\ heap = [v \in Values |-> 0]
        /\ arena = <<>> /\ cells = [c \in {} |-> Undefined]
        /\ frames = <<>> /\ locals = {}
        /\ leaked = [v \in Values |-> 0]
    BY DEF Init
  <2>2. \A v \in Values : /\ Above(arena, 0, v) = 0
                          /\ Holding(cells, v) = 0
                          /\ Arguments(frames, v) = 0
    BY <2>1, NothingCounted
  <2>3. CountsExact /\ ArgsHeld
    BY <2>1, <2>2 DEF CountsExact, ArgsHeld
  <2>4. rc \in [Values -> Int] /\ heap \in [Values -> Int]
    BY <2>1
  <2> QED BY <2>1, <2>3, <2>4 DEF ArenaInv, CountsInv
<1>2. ArenaInv /\ [Next]_arenaVars => ArenaInv'
  <2>1. ASSUME ArenaInv, Next PROVE ArenaInv'
    BY <2>1, CountsStep, LocalsStep DEF ArenaInv
  <2>2. ASSUME ArenaInv, UNCHANGED arenaVars PROVE ArenaInv'
    BY <2>2 DEF ArenaInv, CountsInv, CountsExact, ArgsHeld, arenaVars
  <2> QED BY <2>1, <2>2
<1> QED BY <1>1, <1>2, PTL DEF Spec

(* Each slot, persistent cell and engine reference owns one count of its   *)
(* value and nothing else does, however scopes, escapes, persistent        *)
(* handles, callbacks and fast calls interleave: what intern, intern_dup,  *)
(* the escape slot, dispatch and Dispose take is what they give back.  The *)
(* exceptions, the empty string of SetEmptyString and the new result of a  *)
(* fast call that threw, are what `leaked` counts.                         *)
THEOREM ExactCounts == Spec => []CountsExact
<1>1. ArenaInv => CountsExact
  BY DEF ArenaInv, CountsInv
<1> QED BY <1>1, ArenaInvHolds, PTL

(* No count goes below what is still owned, in particular never below      *)
(* zero, and the arena, the cells and the frames keep their shape.         *)
THEOREM TypeCorrect == Spec => []TypeOK
<1>1. ArenaInv => TypeOK
  <2> SUFFICES ASSUME ArenaInv PROVE TypeOK
    OBVIOUS
  <2>1. rc \in [Values -> Nat] /\ heap \in [Values -> Nat]
    BY CountsFacts DEF ArenaInv, CountsInv
  <2> QED BY <2>1 DEF ArenaInv, CountsInv, TypeOK
<1> QED BY <1>1, ArenaInvHolds, PTL

-----------------------------------------------------------------------------
(* The handles.  What open frames saved is nested: a frame saved no more   *)
(* than the arena has, nor more than a frame inside it; the slot an        *)
(* escapable scope has reserved lies above what the frames around it saved.*)
Nested ==
  /\ \A k \in DOMAIN frames : frames[k].depth <= Len(arena)
  /\ \A j, k \in DOMAIN frames : j < k => frames[j].depth <= frames[k].depth
  /\ \A k \in DOMAIN frames :
       frames[k].slot # 0 =>
         /\ frames[k].slot = frames[k].depth
         /\ \A j \in DOMAIN frames : j < k => frames[j].depth < frames[k].slot

(* A handle is above what its own frame saved and below what the frames    *)
(* inside it did, so that closing those leaves its slot; and no escape     *)
(* will write to its slot.                                                 *)
HandlesNested ==
  \A l \in locals :
    /\ l.level <= Level
    /\ l.at \in DOMAIN arena /\ arena[l.at] = l.val
    /\ l.level # 0 => frames[l.level].depth < l.at
    /\ \A k \in DOMAIN frames : /\ k > l.level => l.at <= frames[k].depth
                                /\ l.at # frames[k].slot

(* What a return slot borrows is in a slot that stays until the end of the *)
(* callback, or leaked.                                                    *)
ReturnHeld(k) ==
  \/ frames[k].ret = Undefined
  \/ leaked[frames[k].ret] > 0
  \/ \E p \in DOMAIN arena :
       /\ arena[p] = frames[k].ret
       /\ frames[k].depth < p
       /\ \A j \in DOMAIN frames :
            j > k => p <= frames[j].depth /\ p # frames[j].slot

ReturnsHeld == \A k \in DOMAIN frames : ReturnHeld(k)

HandlesInv == Nested /\ HandlesNested

(* The numbers in frames and handles.                                      *)
LEMMA Shapes ==
  ASSUME ArenaInv
  PROVE  /\ Level \in Nat /\ DOMAIN frames = 1 .. Level
         /\ Len(arena) \in Nat /\ DOMAIN arena = 1 .. Len(arena)
         /\ arena \in Seq(Contents)
         /\ \A k \in DOMAIN frames : /\ frames[k].depth \in Nat
                                     /\ frames[k].slot \in Nat
                                     /\ frames[k].ret \in Contents
         /\ \A l \in locals : /\ l.at \in Nat \ {0} /\ l.level \in Nat
                              /\ l.val \in Contents
         /\ frames # <<>> => /\ Level \in DOMAIN frames
                             /\ Innermost = frames[Level]
<1>1. frames \in Seq(Frame) /\ arena \in Seq(Contents) /\ locals \subseteq Local
  BY DEF ArenaInv, CountsInv
<1>2. /\ Level \in Nat /\ DOMAIN frames = 1 .. Level
      /\ \A k \in DOMAIN frames : frames[k] \in Frame
  BY <1>1 DEF Level
<1>3. \A k \in DOMAIN frames : /\ frames[k].depth \in Nat
                               /\ frames[k].slot \in Nat
                               /\ frames[k].ret \in Contents
  BY <1>2 DEF Frame, ScopeFrame, CallFrame, Contents
<1>4. \A l \in locals : l.at \in Nat \ {0} /\ l.level \in Nat /\ l.val \in Contents
  BY <1>1 DEF Local
<1>5. frames # <<>> => Level \in DOMAIN frames
  BY <1>1 DEF Level
<1> QED BY <1>1, <1>2, <1>3, <1>4, <1>5 DEF Innermost

(* The arena grows, frames and all other handles stay; the new handles are *)
(* of the innermost frame and in the new slots.                            *)
LEMMA GrowKeeps ==
  ASSUME ArenaInv, HandlesInv, NEW new, arena' \in Seq(Contents),
         Len(arena') >= Len(arena),
         \A p \in DOMAIN arena : arena'[p] = arena[p],
         UNCHANGED frames,
         locals' = locals \cup new,
         \A l \in new : /\ l.at \in Nat /\ l.at > Len(arena)
                        /\ l.at \in DOMAIN arena' /\ arena'[l.at] = l.val
                        /\ l.level = Level
  PROVE  HandlesInv'
<1>1. /\ Level \in Nat /\ DOMAIN frames = 1 .. Level
      /\ Len(arena) \in Nat /\ DOMAIN arena = 1 .. Len(arena)
      /\ Len(arena') \in Nat /\ DOMAIN arena' = 1 .. Len(arena')
      /\ \A k \in DOMAIN frames : frames[k].depth \in Nat /\ frames[k].slot \in Nat
      /\ Level' = Level
  BY Shapes DEF Level
<1>2. Nested'
  BY <1>1 DEF HandlesInv, Nested
<1>3. ASSUME NEW l \in locals
      PROVE  /\ l.at \in DOMAIN arena' /\ arena'[l.at] = l.val
             /\ l.level <= Level
             /\ l.level # 0 => frames[l.level].depth < l.at
             /\ \A k \in DOMAIN frames : /\ k > l.level => l.at <= frames[k].depth
                                         /\ l.at # frames[k].slot
  BY <1>1 DEF HandlesInv, HandlesNested
<1>4. ASSUME NEW l \in new
      PROVE  /\ l.level # 0 => frames[l.level].depth < l.at
             /\ \A k \in DOMAIN frames : /\ k > l.level => l.at <= frames[k].depth
                                         /\ l.at # frames[k].slot
  <2>1. \A k \in DOMAIN frames : frames[k].depth <= Len(arena)
    BY DEF HandlesInv, Nested
  <2>2. \A k \in DOMAIN frames : frames[k].slot <= Len(arena)
    BY <1>1, <2>1 DEF HandlesInv, Nested
  <2> QED BY <1>1, <1>4, <2>1, <2>2
<1>5. HandlesNested'
  BY <1>1, <1>3, <1>4 DEF HandlesNested
<1> QED BY <1>2, <1>5 DEF HandlesInv

(* A frame opens; the arena may grow, with the slot reserved for an escape *)
(* below what the frame saves, or with the handles of a fast call above it.*)
LEMMA OpenKeeps ==
  ASSUME ArenaInv, HandlesInv, NEW f, f.depth \in Nat, f.slot \in Nat,
         NEW new, arena' \in Seq(Contents),
         Len(arena') >= Len(arena), f.depth <= Len(arena'),
         \A p \in DOMAIN arena : arena'[p] = arena[p],
         f.depth >= Len(arena),
         f.slot # 0 => f.slot = f.depth /\ f.slot > Len(arena),
         frames' = Append(frames, f),
         locals' = locals \cup new,
         \A l \in new : /\ l.at \in Nat /\ l.at > f.depth
                        /\ l.at \in DOMAIN arena' /\ arena'[l.at] = l.val
                        /\ l.level = Level + 1
  PROVE  HandlesInv'
<1>1. /\ Level \in Nat /\ DOMAIN frames = 1 .. Level
      /\ Len(arena) \in Nat /\ DOMAIN arena = 1 .. Len(arena)
      /\ Len(arena') \in Nat /\ DOMAIN arena' = 1 .. Len(arena')
      /\ \A k \in DOMAIN frames : frames[k].depth \in Nat /\ frames[k].slot \in Nat
      /\ \A l \in locals : l.at \in Nat \ {0} /\ l.level \in Nat
  BY Shapes
<1>2. /\ Level' = Level + 1 /\ DOMAIN frames' = 1 .. Level + 1
      /\ \A k \in DOMAIN frames : frames'[k] = frames[k]
      /\ frames'[Level + 1] = f
  <2>1. frames \in Seq(Frame)
    BY DEF ArenaInv, CountsInv
  <2> QED BY <2>1 DEF Level
<1>3. \A k \in DOMAIN frames : frames[k].depth <= Len(arena) /\ frames[k].slot <= Len(arena)
  BY <1>1 DEF HandlesInv, Nested
<1>4. Nested'
  <2>1. \A k \in DOMAIN frames' : frames'[k].depth <= Len(arena')
    BY <1>1, <1>2, <1>3
  <2>2. ASSUME NEW j \in DOMAIN frames', NEW k \in DOMAIN frames', j < k
        PROVE  frames'[j].depth <= frames'[k].depth
    <3>1. j \in DOMAIN frames
      BY <1>1, <1>2, <2>2
    <3>2. CASE k \in DOMAIN frames
      BY <1>2, <2>2, <3>1, <3>2 DEF HandlesInv, Nested
    <3>3. CASE k = Level + 1
      BY <1>1, <1>2, <1>3, <3>1, <3>3
    <3> QED BY <1>1, <1>2, <3>2, <3>3
  <2>3. ASSUME NEW k \in DOMAIN frames', frames'[k].slot # 0
        PROVE  /\ frames'[k].slot = frames'[k].depth
               /\ \A j \in DOMAIN frames' : j < k => frames'[j].depth < frames'[k].slot
    <3>1. \A j \in DOMAIN frames' : j < k => j \in DOMAIN frames
      BY <1>1, <1>2
    <3>2. CASE k \in DOMAIN frames
      BY <1>2, <2>3, <3>1, <3>2 DEF HandlesInv, Nested
    <3>3. CASE k = Level + 1
      BY <1>1, <1>2, <1>3, <2>3, <3>1, <3>3
    <3> QED BY <1>1, <1>2, <3>2, <3>3
  <2> QED BY <2>1, <2>2, <2>3 DEF Nested
<1>5. ASSUME NEW l \in locals
      PROVE  /\ l.at \in DOMAIN arena' /\ arena'[l.at] = l.val
             /\ l.level <= Level + 1
             /\ l.level # 0 => frames'[l.level].depth < l.at
             /\ \A k \in DOMAIN frames' : /\ k > l.level => l.at <= frames'[k].depth
                                          /\ l.at # frames'[k].slot
  <2>1. /\ l.level <= Level
        /\ l.at \in DOMAIN arena /\ arena[l.at] = l.val
        /\ l.level # 0 => frames[l.level].depth < l.at
        /\ \A k \in DOMAIN frames : /\ k > l.level => l.at <= frames[k].depth
                                    /\ l.at # frames[k].slot
    BY DEF HandlesInv, HandlesNested
  <2>2. l.level # 0 => l.level \in DOMAIN frames
    BY <1>1, <2>1
  <2>3. l.at <= Len(arena)
    BY <1>1, <2>1
  <2>4. l.at <= f.depth /\ l.at # f.slot
    BY <1>1, <2>3
  <2>5. ASSUME NEW k \in DOMAIN frames'
        PROVE  (k > l.level => l.at <= frames'[k].depth) /\ l.at # frames'[k].slot
    <3>1. k \in DOMAIN frames \/ k = Level + 1
      BY <1>1, <1>2
    <3> QED BY <1>2, <2>1, <2>4, <3>1
  <2> QED BY <1>1, <1>2, <2>1, <2>2, <2>3, <2>5
<1>6. ASSUME NEW l \in new
      PROVE  /\ l.level # 0 => frames'[l.level].depth < l.at
             /\ \A k \in DOMAIN frames' : /\ k > l.level => l.at <= frames'[k].depth
                                          /\ l.at # frames'[k].slot
  <2>1. ASSUME NEW k \in DOMAIN frames' PROVE l.at # frames'[k].slot /\ ~ (k > l.level)
    <3>1. k \in DOMAIN frames \/ k = Level + 1
      BY <1>1, <1>2
    <3> QED BY <1>1, <1>2, <1>3, <1>6, <3>1
  <2> QED BY <1>2, <1>6, <2>1
<1>7. HandlesNested'
  BY <1>1, <1>2, <1>5, <1>6 DEF HandlesNested
<1> QED BY <1>4, <1>7 DEF HandlesInv

(* The innermost frame closes: its handles go, and the arena is cut back   *)
(* to what it saved.                                                       *)
LEMMA CloseKeeps ==
  ASSUME ArenaInv, HandlesInv, frames # <<>>,
         arena' = Cut(Innermost.depth),
         frames' = SubSeq(frames, 1, Level - 1),
         locals' = Usable(Level - 1)
  PROVE  HandlesInv' /\ Len(arena') = Innermost.depth
<1>1. /\ Level \in Nat /\ DOMAIN frames = 1 .. Level
      /\ Len(arena) \in Nat /\ DOMAIN arena = 1 .. Len(arena)
      /\ arena \in Seq(Contents)
      /\ \A k \in DOMAIN frames : frames[k].depth \in Nat /\ frames[k].slot \in Nat
      /\ \A l \in locals : l.at \in Nat \ {0} /\ l.level \in Nat
      /\ Level \in DOMAIN frames /\ Innermost = frames[Level]
  BY Shapes
<1>2. /\ Level' = Level - 1 /\ DOMAIN frames' = 1 .. Level - 1
      /\ \A k \in 1 .. Level - 1 : k \in DOMAIN frames /\ frames'[k] = frames[k]
  <2>1. frames \in Seq(Frame)
    BY DEF ArenaInv, CountsInv
  <2> QED BY <1>1, <2>1 DEF Level
<1> DEFINE d == Innermost.depth
<1>3. d \in Nat /\ d <= Len(arena) /\ d = frames[Level].depth
  BY <1>1 DEF HandlesInv, Nested
<1>4. /\ Len(arena') = d /\ DOMAIN arena' = 1 .. d
      /\ \A p \in 1 .. d : arena'[p] = arena[p]
  BY <1>1, <1>3 DEF Cut
<1> HIDE DEF d
<1>5. Nested'
  <2>1. \A k \in DOMAIN frames' : frames'[k].depth <= Len(arena')
    BY <1>1, <1>2, <1>3, <1>4 DEF HandlesInv, Nested
  <2> QED BY <1>2, <2>1 DEF HandlesInv, Nested
<1>6. HandlesNested'
  <2>1. ASSUME NEW l \in locals, l.level <= Level - 1
        PROVE  /\ l.at \in DOMAIN arena' /\ arena'[l.at] = l.val
               /\ l.level # 0 => frames'[l.level].depth < l.at
               /\ \A k \in DOMAIN frames' : /\ k > l.level => l.at <= frames'[k].depth
                                            /\ l.at # frames'[k].slot
    <3>1. /\ l.at \in DOMAIN arena /\ arena[l.at] = l.val
          /\ l.level # 0 => frames[l.level].depth < l.at
          /\ \A k \in DOMAIN frames : /\ k > l.level => l.at <= frames[k].depth
                                      /\ l.at # frames[k].slot
      BY DEF HandlesInv, HandlesNested
    <3>2. l.at <= d
      BY <1>1, <1>3, <2>1, <3>1
    <3>3. l.level # 0 => l.level \in 1 .. Level - 1
      BY <1>1, <2>1
    <3> QED BY <1>1, <1>2, <1>3, <1>4, <3>1, <3>2, <3>3
  <2>2. \A l \in locals' : l \in locals /\ l.level <= Level - 1
    BY DEF Usable
  <2> QED BY <1>2, <2>1, <2>2 DEF HandlesNested
<1> QED BY <1>4, <1>5, <1>6 DEF HandlesInv, d

(* An escape fills the reserved slot, to which no handle points yet.       *)
LEMMA EscapeKeeps ==
  ASSUME ArenaInv, HandlesInv, NEW l \in locals, Escape(l)
  PROVE  HandlesInv'
<1>1. /\ Level \in Nat /\ DOMAIN frames = 1 .. Level
      /\ Len(arena) \in Nat /\ DOMAIN arena = 1 .. Len(arena)
      /\ arena \in Seq(Contents)
      /\ \A k \in DOMAIN frames : frames[k].depth \in Nat /\ frames[k].slot \in Nat
      /\ \A m \in locals : m.at \in Nat \ {0} /\ m.level \in Nat
      /\ Level \in DOMAIN frames /\ Innermost = frames[Level]
  BY Shapes DEF Escape
<1> DEFINE s == Innermost.slot
           h == [at |-> s, val |-> Read(l), level |-> Level - 1]
<1>2. /\ s # 0 /\ s \in Nat /\ s = frames[Level].slot /\ s = frames[Level].depth
      /\ s <= Len(arena) /\ s \in DOMAIN arena
      /\ \A j \in DOMAIN frames : j < Level => frames[j].depth < s
  BY <1>1 DEF Escape, HandlesInv, Nested
<1>3. /\ arena' = [arena EXCEPT ![s] = Read(l)]
      /\ locals' = locals \cup {h}
      /\ frames' = [frames EXCEPT ![Level].slot = 0]
  BY <1>2 DEF Escape
<1>4. Read(l) \in Contents
  BY CountsFacts DEF ArenaInv
<1>5. /\ Len(arena') = Len(arena) /\ DOMAIN arena' = DOMAIN arena
      /\ arena'[s] = Read(l)
      /\ \A p \in DOMAIN arena : p # s => arena'[p] = arena[p]
  BY <1>1, <1>2, <1>3, <1>4
<1> HIDE DEF s
<1>6. /\ Level' = Level /\ DOMAIN frames' = DOMAIN frames
      /\ \A k \in DOMAIN frames : frames'[k].depth = frames[k].depth
      /\ \A k \in DOMAIN frames : k # Level => frames'[k].slot = frames[k].slot
      /\ frames'[Level].slot = 0
  <2>1. frames \in Seq(Frame)
    BY DEF ArenaInv, CountsInv
  <2>2. frames[Level] \in Frame
    BY <1>1, <2>1
  <2>3. \A g \in Frame : /\ [g EXCEPT !.slot = 0].depth = g.depth
                         /\ [g EXCEPT !.slot = 0].slot = 0
    BY DEF Frame, ScopeFrame, CallFrame
  <2>4. frames' = [frames EXCEPT ![Level] = [frames[Level] EXCEPT !.slot = 0]]
    BY <1>3
  <2>5. Len(frames') = Len(frames)
    BY <2>1, <2>4, <1>1
  <2> QED BY <1>1, <2>1, <2>2, <2>3, <2>4, <2>5 DEF Level
<1>7. Nested'
  <2>1. \A k \in DOMAIN frames' : frames'[k].slot # 0 => k # Level
    BY <1>6
  <2> QED BY <1>5, <1>6, <2>1 DEF HandlesInv, Nested
<1>8. ASSUME NEW m \in locals
      PROVE  /\ m.level <= Level
             /\ m.at \in DOMAIN arena' /\ arena'[m.at] = m.val
             /\ m.level # 0 => frames'[m.level].depth < m.at
             /\ \A k \in DOMAIN frames' : /\ k > m.level => m.at <= frames'[k].depth
                                          /\ m.at # frames'[k].slot
  <2>1. /\ m.level <= Level
        /\ m.at \in DOMAIN arena /\ arena[m.at] = m.val
        /\ m.level # 0 => frames[m.level].depth < m.at
        /\ \A k \in DOMAIN frames : /\ k > m.level => m.at <= frames[k].depth
                                    /\ m.at # frames[k].slot
    BY DEF HandlesInv, HandlesNested
  <2>2. m.at # s
    BY <1>1, <1>2, <2>1
  <2>3. m.level # 0 => m.level \in DOMAIN frames
    BY <1>1, <2>1
  <2>4. \A k \in DOMAIN frames' : m.at # frames'[k].slot
    BY <1>1, <1>6, <2>1
  <2> QED BY <1>5, <1>6, <2>1, <2>2, <2>3, <2>4
<1>9. /\ h.level <= Level
      /\ h.at \in DOMAIN arena' /\ arena'[h.at] = h.val
      /\ h.level # 0 => frames'[h.level].depth < h.at
      /\ \A k \in DOMAIN frames' : /\ k > h.level => h.at <= frames'[k].depth
                                   /\ h.at # frames'[k].slot
  <2>1. ASSUME NEW k \in DOMAIN frames'
        PROVE  (k > Level - 1 => s <= frames'[k].depth) /\ s # frames'[k].slot
    <3>1. CASE k = Level
      BY <1>1, <1>2, <1>6, <3>1
    <3>2. CASE k < Level
      <4>1. frames[k].depth < s /\ (frames[k].slot # 0 => frames[k].slot = frames[k].depth)
        BY <1>2, <1>6, <3>2 DEF HandlesInv, Nested
      <4> QED BY <1>1, <1>2, <1>6, <3>2, <4>1
    <3> QED BY <1>1, <1>6, <3>1, <3>2
  <2>2. Level - 1 # 0 => Level - 1 \in DOMAIN frames /\ Level - 1 < Level
    BY <1>1
  <2> QED BY <1>1, <1>2, <1>5, <1>6, <2>1, <2>2
<1> HIDE DEF h
<1>10. HandlesNested'
  BY <1>3, <1>6, <1>8, <1>9 DEF HandlesNested
<1> QED BY <1>7, <1>10 DEF HandlesInv

(* Storing in a return slot leaves what frames have saved.                 *)
LEMMA ReturnSetShape ==
  ASSUME frames \in Seq(Frame), NEW k \in DOMAIN frames,
         frames[k].kind = "callback", NEW x \in Contents,
         frames' = [frames EXCEPT ![k].ret = x]
  PROVE  /\ Level' = Level /\ DOMAIN frames' = DOMAIN frames
         /\ \A j \in DOMAIN frames : /\ frames'[j].depth = frames[j].depth
                                     /\ frames'[j].slot = frames[j].slot
         /\ frames'[k].ret = x
         /\ \A j \in DOMAIN frames : j # k => frames'[j].ret = frames[j].ret
<1>1. frames[k] \in CallFrame
  BY DEF Frame, ScopeFrame
<1>2. [frames[k] EXCEPT !.ret = x] \in CallFrame
      /\ [frames[k] EXCEPT !.ret = x].ret = x
      /\ [frames[k] EXCEPT !.ret = x].depth = frames[k].depth
      /\ [frames[k] EXCEPT !.ret = x].slot = frames[k].slot
  BY <1>1 DEF CallFrame
<1>3. frames' = [frames EXCEPT ![k] = [frames[k] EXCEPT !.ret = x]]
  OBVIOUS
<1>4. Len(frames') = Len(frames) /\ DOMAIN frames' = DOMAIN frames
  BY <1>2, <1>3 DEF Frame
<1> QED BY <1>2, <1>3, <1>4 DEF Level

(* The three ways in which the arena and the frames change, and all that   *)
(* the steps which leave them alone do to return slots and handles.        *)
GrowBy(new) ==
  /\ arena' \in Seq(Contents) /\ Len(arena') >= Len(arena)
  /\ \A p \in DOMAIN arena : arena'[p] = arena[p]
  /\ UNCHANGED <<frames, leaked>>
  /\ locals' = locals \cup new
  /\ \A l \in new : /\ l.at \in Nat /\ l.at > Len(arena)
                    /\ l.at \in DOMAIN arena' /\ arena'[l.at] = l.val
                    /\ l.level = Level

GrowStep == \E new : GrowBy(new)

OpenWith(f, new) ==
  /\ arena' \in Seq(Contents) /\ Len(arena') >= Len(arena)
  /\ \A p \in DOMAIN arena : arena'[p] = arena[p]
  /\ UNCHANGED leaked
  /\ f.depth \in Nat /\ f.slot \in Nat /\ f.ret = Undefined
  /\ f.depth <= Len(arena') /\ f.depth >= Len(arena)
  /\ f.slot # 0 => f.slot = f.depth /\ f.slot > Len(arena)
  /\ frames' = Append(frames, f)
  /\ locals' = locals \cup new
  /\ \A l \in new : /\ l.at \in Nat /\ l.at > f.depth
                    /\ l.at \in DOMAIN arena' /\ arena'[l.at] = l.val
                    /\ l.level = Level + 1

OpenStep == \E f, new : OpenWith(f, new)

CloseStep ==
  /\ frames # <<>>
  /\ arena' = Cut(Innermost.depth)
  /\ frames' = SubSeq(frames, 1, Level - 1)
  /\ locals' = Usable(Level - 1)
  /\ \A v \in Values : leaked[v] > 0 => leaked'[v] > 0

ReturnStep ==
  \E k \in DOMAIN frames :
    \/ \E l \in locals : ReturnValueSet(k, l)
    \/ \E v \in Values : ReturnValueSetEmptyString(k, v)

EscapeStep == \E l \in locals : Escape(l)

(* Every step is one of these, or Dispose.                                 *)
LEMMA StepKinds ==
  ASSUME ArenaInv, Next
  PROVE  GrowStep \/ OpenStep \/ CloseStep \/ ReturnStep \/ EscapeStep \/ Dispose
<1>0. /\ Level \in Nat /\ DOMAIN frames = 1 .. Level
      /\ Len(arena) \in Nat /\ DOMAIN arena = 1 .. Len(arena)
      /\ arena \in Seq(Contents)
      /\ \A k \in DOMAIN frames : frames[k].ret \in Contents
      /\ Undefined \in Contents /\ Values \subseteq Contents
  BY Shapes DEF Contents
<1>1. ASSUME NEW v \in Contents, Intern(v), UNCHANGED <<frames, leaked>>
      PROVE  GrowStep
  <2> DEFINE h == [at |-> Len(arena) + 1, val |-> v, level |-> Level]
  <2>1. /\ arena' = Append(arena, v)
        /\ locals' = locals \cup {h}
    BY <1>1 DEF Intern
  <2>2. /\ arena' \in Seq(Contents) /\ Len(arena') = Len(arena) + 1
        /\ DOMAIN arena' = 1 .. Len(arena) + 1
        /\ arena'[Len(arena) + 1] = v
        /\ \A p \in DOMAIN arena : arena'[p] = arena[p]
    BY <1>0, <2>1
  <2>3. /\ h.at \in Nat /\ h.at > Len(arena)
        /\ h.at \in DOMAIN arena' /\ arena'[h.at] = h.val
        /\ h.level = Level
    BY <1>0, <2>2
  <2> HIDE DEF h
  <2>4. GrowBy({h})
    BY <1>0, <1>1, <2>1, <2>2, <2>3 DEF GrowBy
  <2> QED BY <2>4 DEF GrowStep
<1>2. ASSUME UNCHANGED <<arena, frames, leaked, locals>> PROVE GrowStep
  <2>1. locals' = locals \cup {}
    BY <1>2
  <2>2. GrowBy({})
    BY <1>0, <1>2, <2>1 DEF GrowBy
  <2> QED BY <2>2 DEF GrowStep
<1>3. ASSUME NEW v \in Values, FastMismatch(v) PROVE GrowStep
  <2>1. arena' = arena \o <<v, Undefined>> /\ UNCHANGED <<frames, leaked, locals>>
    BY <1>3 DEF FastMismatch, FastReceivers
  <2>2. /\ arena' \in Seq(Contents) /\ Len(arena') = Len(arena) + 2
        /\ \A p \in DOMAIN arena : arena'[p] = arena[p]
    BY <1>0, <2>1
  <2>3. locals' = locals \cup {}
    BY <2>1
  <2>4. GrowBy({})
    BY <1>0, <2>1, <2>2, <2>3 DEF GrowBy
  <2> QED BY <2>4 DEF GrowStep
<1>4. ASSUME NEW f, f.depth = Len(arena), f.slot = 0, f.ret = Undefined, Open(f),
             UNCHANGED <<arena, locals, leaked>>
      PROVE  OpenStep
  <2>1. locals' = locals \cup {} /\ frames' = Append(frames, f)
    BY <1>4 DEF Open
  <2>2. OpenWith(f, {})
    BY <1>0, <1>4, <2>1 DEF OpenWith
  <2> QED BY <2>2 DEF OpenStep
<1>5. ASSUME HandleScopeConstruct \/ \E v \in Values : CallbackEnter(v) PROVE OpenStep
  <2>1. CASE HandleScopeConstruct
    BY <1>4, <2>1 DEF HandleScopeConstruct
  <2>2. ASSUME NEW v \in Values, CallbackEnter(v) PROVE OpenStep
    BY <1>4, <2>2 DEF CallbackEnter
  <2> QED BY <1>5, <2>1, <2>2
<1>6. ASSUME EscapableScopeConstruct PROVE OpenStep
  <2> DEFINE f == [kind |-> "scope", depth |-> Len(arena) + 1,
                   slot |-> Len(arena) + 1, arg |-> Undefined, ret |-> Undefined]
  <2>1. /\ arena' = Append(arena, Undefined) /\ frames' = Append(frames, f)
        /\ locals' = locals \cup {} /\ UNCHANGED leaked
    BY <1>6 DEF EscapableScopeConstruct, Open
  <2>2. /\ arena' \in Seq(Contents) /\ Len(arena') = Len(arena) + 1
        /\ \A p \in DOMAIN arena : arena'[p] = arena[p]
    BY <1>0, <2>1
  <2>3. /\ f.depth \in Nat /\ f.slot \in Nat /\ f.ret = Undefined
        /\ f.depth <= Len(arena') /\ f.depth >= Len(arena)
        /\ f.slot # 0 => f.slot = f.depth /\ f.slot > Len(arena)
    BY <1>0, <2>2
  <2> HIDE DEF f
  <2>4. OpenWith(f, {})
    BY <1>0, <2>1, <2>2, <2>3 DEF OpenWith
  <2> QED BY <2>4 DEF OpenStep
<1>7. ASSUME NEW v \in Values, FastEnter(v) PROVE OpenStep
  <2> DEFINE f == [kind |-> "fast", depth |-> Len(arena), slot |-> 0,
                   arg |-> v, ret |-> Undefined]
             g == [at |-> Len(arena) + 1, val |-> v, level |-> Level + 1]
             h == [at |-> Len(arena) + 2, val |-> Undefined, level |-> Level + 1]
  <2>1. /\ arena' = arena \o <<v, Undefined>> /\ frames' = Append(frames, f)
        /\ locals' = locals \cup {g, h} /\ UNCHANGED leaked
    BY <1>7 DEF FastEnter, FastReceivers, Open
  <2>2. /\ arena' \in Seq(Contents) /\ Len(arena') = Len(arena) + 2
        /\ DOMAIN arena' = 1 .. Len(arena) + 2
        /\ arena'[Len(arena) + 1] = v /\ arena'[Len(arena) + 2] = Undefined
        /\ \A p \in DOMAIN arena : arena'[p] = arena[p]
    BY <1>0, <2>1
  <2>3. /\ f.depth \in Nat /\ f.slot \in Nat /\ f.ret = Undefined
        /\ f.depth <= Len(arena') /\ f.depth >= Len(arena)
        /\ f.slot = 0 /\ f.depth = Len(arena)
    BY <1>0, <2>2
  <2>4. \A l \in {g, h} : /\ l.at \in Nat /\ l.at > f.depth
                          /\ l.at \in DOMAIN arena' /\ arena'[l.at] = l.val
                          /\ l.level = Level + 1
    BY <1>0, <2>2
  <2> HIDE DEF f, g, h
  <2>5. OpenWith(f, {g, h})
    BY <1>0, <2>1, <2>2, <2>3, <2>4 DEF OpenWith
  <2> QED BY <2>5 DEF OpenStep
<1>8. ASSUME \/ HandleScopeDestruct
             \/ \E result \in Contents, threw \in BOOLEAN : FastReturn(result, threw)
             \/ \E used \in BOOLEAN : CallbackReturn(used)
      PROVE  CloseStep
  <2>1. leaked \in [Values -> Nat] /\ leaked \in [Values -> Int]
    BY DEF ArenaInv, CountsInv
  <2>2. CASE HandleScopeDestruct \/ \E used \in BOOLEAN : CallbackReturn(used)
    BY <2>2 DEF HandleScopeDestruct, CallbackReturn, CloseStep
  <2>3. ASSUME NEW result \in Contents, NEW threw \in BOOLEAN,
               FastReturn(result, threw)
        PROVE  CloseStep
    <3>1. PICK lost \in Contents : leaked' = Dup(leaked, lost)
      BY <1>0, <2>3 DEF FastReturn
    <3>2. \A v \in Values : leaked'[v] = leaked[v] + One(lost, v)
      BY <2>1, <3>1, DupFree
    <3>3. \A v \in Values : leaked[v] > 0 => leaked'[v] > 0
      BY <2>1, <3>2, OneType
    <3> QED BY <2>3, <3>3 DEF FastReturn, CloseStep
  <2> QED BY <1>8, <2>2, <2>3
<1>9. ASSUME NEW k \in DOMAIN frames, ReturnValueGet(k) PROVE GrowStep
  BY <1>0, <1>1, <1>9 DEF ReturnValueGet
<1>10. ASSUME \/ \E v \in Values : InternFresh(v) \/ InternBorrowed(v)
              \/ \E v \in Contents : LocalNew(v)
       PROVE  GrowStep
  BY <1>0, <1>1, <1>10 DEF InternFresh, InternBorrowed, LocalNew
<1>11. ASSUME \/ \E v \in Values : HeapDrop(v)
              \/ \E l \in locals : HeapStore(l) \/ \E c \in Cells : GlobalNew(c, l)
              \/ \E c \in Cells : GlobalReset(c)
       PROVE  GrowStep
  BY <1>2, <1>11 DEF HeapDrop, HeapStore, GlobalNew, GlobalReset
<1> QED
  BY <1>3, <1>5, <1>6, <1>7, <1>8, <1>9, <1>10, <1>11
  DEF Next, ReturnStep, EscapeStep

(* Every step keeps frames and handles nested.                             *)
LEMMA HandlesStep ==
  ASSUME ArenaInv, HandlesInv, Next
  PROVE  HandlesInv'
<1>1. CASE GrowStep
  BY <1>1, GrowKeeps DEF GrowStep, GrowBy
<1>2. CASE OpenStep
  BY <1>2, OpenKeeps DEF OpenStep, OpenWith
<1>3. CASE CloseStep
  BY <1>3, CloseKeeps DEF CloseStep
<1>4. CASE EscapeStep
  BY <1>4, EscapeKeeps DEF EscapeStep
<1>5. CASE ReturnStep
  <2>1. PICK k \in DOMAIN frames, x \in Contents :
          /\ frames[k].kind = "callback"
          /\ frames' = [frames EXCEPT ![k].ret = x]
          /\ UNCHANGED <<arena, locals>>
    <3>1. \A l \in locals : Read(l) \in Contents
      BY CountsFacts DEF ArenaInv
    <3> QED BY <1>5, <3>1 DEF ReturnStep, ReturnValueSet, ReturnValueSetEmptyString,
               IsRunning, Contents
  <2>2. /\ Level' = Level /\ DOMAIN frames' = DOMAIN frames
        /\ \A j \in DOMAIN frames : /\ frames'[j].depth = frames[j].depth
                                    /\ frames'[j].slot = frames[j].slot
    BY <2>1, ReturnSetShape DEF ArenaInv, CountsInv
  <2>3. \A l \in locals : l.level \in DOMAIN frames \/ l.level = 0
    BY Shapes DEF HandlesInv, HandlesNested
  <2> QED BY <2>1, <2>2, <2>3 DEF HandlesInv, Nested, HandlesNested
<1>6. CASE Dispose
  BY <1>6 DEF Dispose, HandlesInv, Nested, HandlesNested
<1> QED BY <1>1, <1>2, <1>3, <1>4, <1>5, <1>6, StepKinds

LEMMA HandlesInvHolds == Spec => [](ArenaInv /\ HandlesInv)
<1>1. Init => HandlesInv
  BY DEF Init, HandlesInv, Nested, HandlesNested
<1>2. ArenaInv /\ HandlesInv /\ [Next]_arenaVars => HandlesInv'
  <2>1. ASSUME HandlesInv, UNCHANGED arenaVars PROVE HandlesInv'
    BY <2>1 DEF arenaVars, HandlesInv, Nested, HandlesNested, Level
  <2> QED BY <2>1, HandlesStep
<1> QED BY <1>1, <1>2, ArenaInvHolds, PTL DEF Spec

(* A slot that holds a value owns a count of it.                           *)
LEMMA SlotCounts ==
  ASSUME ArenaInv, NEW d \in Nat, NEW p \in DOMAIN arena, p > d, arena[p] \in Values
  PROVE  Above(arena, d, arena[p]) \in Nat \ {0}
<1> DEFINE T == { k \in DOMAIN arena : k > d /\ arena[k] = arena[p] }
<1>1. Len(arena) \in Nat /\ DOMAIN arena = 1 .. Len(arena)
  BY Shapes
<1>2. T \subseteq 1 .. Len(arena) /\ p \in T
  BY <1>1
<1>3. IsFiniteSet(T) /\ Cardinality(T) \in Nat
  <2> HIDE DEF T
  <2> QED BY <1>1, <1>2, Positions
<1>4. Cardinality(T) # 0
  <2> HIDE DEF T
  <2> QED BY <1>2, <1>3, FS_EmptySet
<1> QED BY <1>3, <1>4 DEF Above

(* A handle reads the value it was made for, which is alive, until the     *)
(* scope or callback it was made in closes, whatever is opened, escaped,   *)
(* called, reset and closed in between - SetEmptyString, early returns of  *)
(* fast calls and results of inner scopes included.                        *)
THEOREM HandlesStayValid == Spec => []LocalsValid
<1>1. ArenaInv /\ HandlesInv => LocalsValid
  <2> SUFFICES ASSUME ArenaInv, HandlesInv, NEW l \in locals
               PROVE  /\ l.at \in DOMAIN arena
                      /\ arena[l.at] = l.val
                      /\ l.val \in Values => rc[l.val] > 0
    BY DEF LocalsValid
  <2>1. l.at \in DOMAIN arena /\ arena[l.at] = l.val
    BY DEF HandlesInv, HandlesNested
  <2>2. ASSUME l.val \in Values PROVE rc[l.val] > 0
    <3>1. l.at > 0
      BY Shapes
    <3>2. Above(arena, 0, l.val) \in Nat \ {0}
      BY <2>1, <2>2, <3>1, SlotCounts
    <3>3. /\ rc[l.val] = heap[l.val] + Above(arena, 0, l.val)
                         + Holding(cells, l.val) + leaked[l.val]
          /\ heap[l.val] \in Nat /\ Holding(cells, l.val) \in Nat
          /\ leaked[l.val] \in Nat
      BY <2>2, CountsFacts DEF ArenaInv, CountsInv, CountsExact
    <3> QED BY <3>2, <3>3
  <2> QED BY <2>1, <2>2
<1> QED BY <1>1, HandlesInvHolds, PTL

(* Closing a scope, a callback or a fast call leaves the arena exactly as  *)
(* long as opening it found it: HandleScope::DESTRUCT and                  *)
(* restore_handle_depth never cut into the handles of those outside, nor   *)
(* leave slots behind.                                                     *)
THEOREM DepthRestored == Spec => ArenaRestored
<1>1. ArenaInv /\ HandlesInv /\ [Next]_arenaVars
        => [Len(frames') < Len(frames) => Len(arena') = Innermost.depth]_arenaVars
  <2> SUFFICES ASSUME ArenaInv, HandlesInv, Next, Len(frames') < Len(frames)
               PROVE  Len(arena') = Innermost.depth
    OBVIOUS
  <2>1. frames \in Seq(Frame) /\ Len(frames) \in Nat
    BY DEF ArenaInv, CountsInv
  <2>2. CASE GrowStep
    BY <2>1, <2>2 DEF GrowStep, GrowBy
  <2>3. CASE OpenStep
    <3>1. PICK f : frames' = Append(frames, f)
      BY <2>3 DEF OpenStep, OpenWith
    <3>2. Len(frames') = Len(frames) + 1
      BY <2>1, <3>1
    <3> QED BY <2>1, <3>2
  <2>4. CASE CloseStep
    BY <2>4, CloseKeeps DEF CloseStep
  <2>5. CASE EscapeStep
    <3>1. Level \in DOMAIN frames
      BY <2>5, Shapes DEF EscapeStep, Escape
    <3>2. PICK g : frames' = [frames EXCEPT ![Level] = g]
      BY <2>5 DEF EscapeStep, Escape
    <3>3. Len(frames') = Len(frames)
      BY <2>1, <3>2
    <3> QED BY <2>1, <3>3
  <2>6. CASE ReturnStep
    <3>1. PICK k \in DOMAIN frames : \E g : frames' = [frames EXCEPT ![k] = g]
      BY <2>6 DEF ReturnStep, ReturnValueSet, ReturnValueSetEmptyString
    <3>2. Len(frames') = Len(frames)
      BY <2>1, <3>1
    <3> QED BY <2>1, <3>2
  <2>7. CASE Dispose
    BY <2>1, <2>7 DEF Dispose
  <2> QED BY <2>2, <2>3, <2>4, <2>5, <2>6, <2>7, StepKinds
<1> QED BY <1>1, HandlesInvHolds, PTL DEF Spec, ArenaRestored

(* Every step keeps what return slots borrow where it is.  A callback that *)
(* returns a local of a scope inside it is left out: that slot goes first. *)
LEMMA ReturnsStep ==
  ASSUME "inner_return" \notin Uses, ArenaInv, HandlesInv, ReturnsHeld, Next
  PROVE  ReturnsHeld'
<1>0. /\ Level \in Nat /\ DOMAIN frames = 1 .. Level
      /\ Len(arena) \in Nat /\ DOMAIN arena = 1 .. Len(arena)
      /\ arena \in Seq(Contents) /\ frames \in Seq(Frame)
      /\ \A k \in DOMAIN frames : frames[k].depth \in Nat /\ frames[k].slot \in Nat
      /\ Undefined \notin Values /\ leaked \in [Values -> Nat]
  BY Shapes, HandleArenaAssumption DEF ArenaInv, CountsInv
<1>1. ASSUME UNCHANGED <<frames, leaked>>, DOMAIN arena \subseteq DOMAIN arena',
             \A p \in DOMAIN arena : arena'[p] = arena[p]
      PROVE  ReturnsHeld'
  BY <1>1 DEF ReturnsHeld, ReturnHeld
<1>2. CASE GrowStep
  <2>1. DOMAIN arena \subseteq DOMAIN arena'
    BY <1>0, <1>2 DEF GrowStep, GrowBy
  <2> QED BY <1>1, <1>2, <2>1 DEF GrowStep, GrowBy
<1>3. CASE OpenStep
  <2>1. PICK f, new : OpenWith(f, new)
    BY <1>3 DEF OpenStep
  <2>2. /\ DOMAIN frames' = 1 .. Level + 1
        /\ \A k \in DOMAIN frames : frames'[k] = frames[k]
        /\ frames'[Level + 1] = f
    BY <1>0, <2>1 DEF OpenWith, Level
  <2>3. /\ DOMAIN arena \subseteq DOMAIN arena'
        /\ \A p \in DOMAIN arena : arena'[p] = arena[p]
        /\ \A p \in DOMAIN arena : p <= f.depth /\ p # f.slot
    BY <1>0, <2>1 DEF OpenWith
  <2>4. f.ret = Undefined /\ leaked' = leaked
    BY <2>1 DEF OpenWith
  <2>5. ASSUME NEW k \in DOMAIN frames PROVE ReturnHeld(k)'
    <3>1. ReturnHeld(k)
      BY DEF ReturnsHeld
    <3>2. CASE frames[k].ret = Undefined \/ leaked[frames[k].ret] > 0
      BY <2>2, <2>4, <3>2 DEF ReturnHeld
    <3>3. ASSUME NEW p \in DOMAIN arena,
                 arena[p] = frames[k].ret, frames[k].depth < p,
                 \A j \in DOMAIN frames :
                   j > k => p <= frames[j].depth /\ p # frames[j].slot
          PROVE  ReturnHeld(k)'
      <4>1. \A j \in DOMAIN frames' :
              j > k => p <= frames'[j].depth /\ p # frames'[j].slot
        <5>1. \A j \in DOMAIN frames' : j \in DOMAIN frames \/ j = Level + 1
          BY <1>0, <2>2
        <5> QED BY <2>2, <2>3, <3>3, <5>1
      <4>2. p \in DOMAIN arena' /\ arena'[p] = frames'[k].ret /\ frames'[k].depth < p
        BY <2>2, <2>3, <3>3
      <4> QED BY <4>1, <4>2 DEF ReturnHeld
    <3> QED BY <3>1, <3>2, <3>3 DEF ReturnHeld
  <2>6. ASSUME NEW k, k = Level + 1 PROVE ReturnHeld(k)'
    BY <2>2, <2>4, <2>6 DEF ReturnHeld
  <2>7. \A k \in DOMAIN frames' : k \in DOMAIN frames \/ k = Level + 1
    BY <1>0, <2>2
  <2> QED BY <2>5, <2>6, <2>7 DEF ReturnsHeld
<1>4. CASE CloseStep
  <2>1. /\ DOMAIN frames' = 1 .. Level - 1
        /\ \A k \in 1 .. Level - 1 : k \in DOMAIN frames /\ frames'[k] = frames[k]
        /\ Level \in DOMAIN frames /\ Innermost = frames[Level]
    BY <1>0, <1>4, Shapes DEF CloseStep, Level
  <2>2. /\ frames[Level].depth <= Len(arena)
        /\ DOMAIN arena' = 1 .. frames[Level].depth
        /\ \A p \in 1 .. frames[Level].depth : arena'[p] = arena[p]
    BY <1>0, <1>4, <2>1 DEF CloseStep, Cut, HandlesInv, Nested
  <2>3. ASSUME NEW k \in 1 .. Level - 1 PROVE ReturnHeld(k)'
    <3>1. ReturnHeld(k) /\ k < Level /\ frames[k].ret \in Contents
      BY <1>0, <2>1, Shapes DEF ReturnsHeld
    <3>2. CASE frames[k].ret = Undefined \/ leaked[frames[k].ret] > 0
      <4>1. CASE frames[k].ret = Undefined
        BY <2>1, <4>1 DEF ReturnHeld
      <4>2. ASSUME frames[k].ret \in Values, leaked[frames[k].ret] > 0
            PROVE  ReturnHeld(k)'
        <5>1. leaked'[frames[k].ret] > 0
          BY <1>4, <4>2 DEF CloseStep
        <5> QED BY <2>1, <5>1 DEF ReturnHeld
      <4> QED BY <3>1, <3>2, <4>1, <4>2 DEF Contents
    <3>3. ASSUME NEW p \in DOMAIN arena,
                 arena[p] = frames[k].ret, frames[k].depth < p,
                 \A j \in DOMAIN frames :
                   j > k => p <= frames[j].depth /\ p # frames[j].slot
          PROVE  ReturnHeld(k)'
      <4>1. p \in DOMAIN arena' /\ arena'[p] = frames'[k].ret /\ frames'[k].depth < p
        BY <1>0, <2>1, <2>2, <3>1, <3>3
      <4> QED BY <2>1, <3>3, <4>1 DEF ReturnHeld
    <3> QED BY <3>1, <3>2, <3>3 DEF ReturnHeld
  <2> QED BY <2>1, <2>3 DEF ReturnsHeld
<1>5. CASE EscapeStep
  <2>1. PICK l \in locals : Escape(l)
    BY <1>5 DEF EscapeStep
  <2>2. Level \in DOMAIN frames /\ Innermost = frames[Level] /\ frames[Level].slot # 0
    BY <2>1, Shapes DEF Escape
  <2>3. frames[Level].ret = Undefined /\ frames[Level] \in ScopeFrame
    BY <1>0, <2>2 DEF Frame, CallFrame, ScopeFrame
  <2>4. /\ DOMAIN frames' = DOMAIN frames
        /\ \A k \in DOMAIN frames : k # Level => frames'[k] = frames[k]
        /\ frames'[Level].ret = Undefined
        /\ frames'[Level].depth = frames[Level].depth
        /\ frames'[Level].slot = 0
    <3>1. frames' = [frames EXCEPT ![Level] = [frames[Level] EXCEPT !.slot = 0]]
      BY <2>1 DEF Escape
    <3>2. /\ [frames[Level] EXCEPT !.slot = 0].ret = Undefined
          /\ [frames[Level] EXCEPT !.slot = 0].depth = frames[Level].depth
          /\ [frames[Level] EXCEPT !.slot = 0].slot = 0
      BY <2>3 DEF ScopeFrame
    <3> QED BY <1>0, <2>2, <3>1, <3>2
  <2>5. /\ DOMAIN arena' = DOMAIN arena /\ leaked' = leaked
        /\ \A p \in DOMAIN arena : p # frames[Level].slot => arena'[p] = arena[p]
    BY <1>0, <2>1, <2>2 DEF Escape
  <2>6. ASSUME NEW k \in DOMAIN frames, k # Level PROVE ReturnHeld(k)'
    <3>1. ReturnHeld(k) /\ k < Level
      BY <1>0, <2>6 DEF ReturnsHeld
    <3>2. CASE frames[k].ret = Undefined \/ leaked[frames[k].ret] > 0
      BY <2>4, <2>5, <2>6, <3>2 DEF ReturnHeld
    <3>3. ASSUME NEW p \in DOMAIN arena,
                 arena[p] = frames[k].ret, frames[k].depth < p,
                 \A j \in DOMAIN frames :
                   j > k => p <= frames[j].depth /\ p # frames[j].slot
          PROVE  ReturnHeld(k)'
      <4>1. p # frames[Level].slot /\ p <= frames[Level].depth /\ p # 0
        BY <1>0, <2>2, <3>1, <3>3
      <4>2. p \in DOMAIN arena' /\ arena'[p] = frames'[k].ret /\ frames'[k].depth < p
        BY <2>4, <2>5, <2>6, <3>3, <4>1
      <4>3. \A j \in DOMAIN frames' :
              j > k => p <= frames'[j].depth /\ p # frames'[j].slot
        <5>1. \A j \in DOMAIN frames : j # Level \/ j = Level
          OBVIOUS
        <5> QED BY <2>4, <3>3, <4>1, <5>1
      <4> QED BY <4>2, <4>3 DEF ReturnHeld
    <3> QED BY <3>1, <3>2, <3>3 DEF ReturnHeld
  <2>7. ASSUME NEW k, k = Level PROVE ReturnHeld(k)'
    BY <2>4, <2>7 DEF ReturnHeld
  <2> QED BY <2>4, <2>6, <2>7 DEF ReturnsHeld
<1>6. ASSUME NEW k \in DOMAIN frames, NEW x \in Contents,
             frames[k].kind = "callback",
             frames' = [frames EXCEPT ![k].ret = x], arena' = arena,
             \A w \in Values : leaked[w] > 0 => leaked'[w] > 0,
             \/ leaked'[x] > 0
             \/ \E p \in DOMAIN arena :
                  /\ arena[p] = x /\ frames[k].depth < p
                  /\ \A j \in DOMAIN frames :
                       j > k => p <= frames[j].depth /\ p # frames[j].slot
      PROVE  ReturnsHeld'
  <2>1. /\ DOMAIN frames' = DOMAIN frames
        /\ \A j \in DOMAIN frames : /\ frames'[j].depth = frames[j].depth
                                    /\ frames'[j].slot = frames[j].slot
        /\ frames'[k].ret = x
        /\ \A j \in DOMAIN frames : j # k => frames'[j].ret = frames[j].ret
    BY <1>0, <1>6, ReturnSetShape
  <2>2. ReturnHeld(k)'
    <3>1. CASE leaked'[x] > 0
      BY <2>1, <3>1 DEF ReturnHeld
    <3>2. ASSUME NEW p \in DOMAIN arena, arena[p] = x, frames[k].depth < p,
                 \A j \in DOMAIN frames :
                   j > k => p <= frames[j].depth /\ p # frames[j].slot
          PROVE  ReturnHeld(k)'
      <4>1. p \in DOMAIN arena' /\ arena'[p] = frames'[k].ret /\ frames'[k].depth < p
        BY <1>6, <2>1, <3>2
      <4>2. \A j \in DOMAIN frames' :
              j > k => p <= frames'[j].depth /\ p # frames'[j].slot
        BY <2>1, <3>2
      <4> QED BY <4>1, <4>2 DEF ReturnHeld
    <3> QED BY <1>6, <3>1, <3>2
  <2>3. ASSUME NEW j \in DOMAIN frames, j # k PROVE ReturnHeld(j)'
    <3>1. ReturnHeld(j) /\ frames[j].ret \in Contents
      BY Shapes DEF ReturnsHeld
    <3> QED BY <1>6, <2>1, <2>3, <3>1 DEF ReturnHeld, Contents
  <2> QED BY <2>1, <2>2, <2>3 DEF ReturnsHeld
<1>7. CASE ReturnStep
  <2>1. ASSUME NEW k \in DOMAIN frames, NEW l \in locals, ReturnValueSet(k, l)
        PROVE  ReturnsHeld'
    <3>1. l.level = k /\ k \in Nat \ {0} /\ frames[k].kind = "callback"
      BY <1>0, <2>1 DEF ReturnValueSet, IsRunning
    <3>2. /\ l.at \in DOMAIN arena /\ frames[k].depth < l.at
          /\ \A j \in DOMAIN frames : j > k => l.at <= frames[j].depth
          /\ \A j \in DOMAIN frames : l.at # frames[j].slot
      BY <3>1 DEF HandlesInv, HandlesNested
    <3>3. Read(l) = arena[l.at] /\ Read(l) \in Contents
      BY <1>0, <3>2 DEF Read
    <3> QED BY <1>6, <2>1, <3>1, <3>2, <3>3 DEF ReturnValueSet
  <2>2. ASSUME NEW k \in DOMAIN frames, NEW v \in Values, ReturnValueSetEmptyString(k, v)
        PROVE  ReturnsHeld'
    <3>1. /\ leaked' = [leaked EXCEPT ![v] = 1] /\ arena' = arena
          /\ frames' = [frames EXCEPT ![k].ret = v] /\ frames[k].kind = "callback"
      BY <2>2 DEF ReturnValueSetEmptyString, IsRunning
    <3>2. leaked'[v] > 0 /\ \A w \in Values : leaked[w] > 0 => leaked'[w] > 0
      BY <1>0, <3>1
    <3> QED BY <1>6, <3>1, <3>2 DEF Contents
  <2> QED BY <1>7, <2>1, <2>2 DEF ReturnStep
<1>8. CASE Dispose
  BY <1>8 DEF Dispose, ReturnsHeld
<1> QED BY <1>2, <1>3, <1>4, <1>5, <1>7, <1>8, StepKinds

(* The return slot of a callback takes no count, and needs none: as long   *)
(* as callbacks return locals of their own scope, the value in it is owned *)
(* by a slot that only the end of the callback frees, after dispatch has   *)
(* taken a count for the caller - unless it is an empty string, which      *)
(* SetEmptyString leaks.                                                   *)
THEOREM ReturnsOwned ==
  ASSUME "inner_return" \notin Uses
  PROVE  Spec => []ReturnValueOwned
<1>1. Init => ReturnsHeld
  BY DEF Init, ReturnsHeld
<1>2. ArenaInv /\ HandlesInv /\ ReturnsHeld /\ [Next]_arenaVars => ReturnsHeld'
  <2>1. ASSUME ReturnsHeld, UNCHANGED arenaVars PROVE ReturnsHeld'
    BY <2>1 DEF arenaVars, ReturnsHeld, ReturnHeld
  <2> QED BY <2>1, ReturnsStep
<1>3. ArenaInv /\ HandlesInv /\ ReturnsHeld => ReturnValueOwned
  <2> SUFFICES ASSUME ArenaInv, HandlesInv, ReturnsHeld, NEW k \in DOMAIN frames,
                      frames[k].ret \in Values
               PROVE  Above(arena, frames[k].depth, frames[k].ret)
                      + leaked[frames[k].ret] > 0
    BY DEF ReturnValueOwned
  <2> DEFINE ret == frames[k].ret
  <2>1. /\ leaked[ret] \in Nat /\ frames[k].depth \in Nat
        /\ Above(arena, frames[k].depth, ret) \in Nat
        /\ Undefined \notin Values
    <3>1. leaked[ret] \in Nat /\ frames[k].depth \in Nat
      BY Shapes DEF ArenaInv, CountsInv
    <3>2. Above(arena, frames[k].depth, ret) \in Nat
      BY Shapes, AboveType
    <3> QED BY <3>1, <3>2, HandleArenaAssumption
  <2>2. CASE leaked[ret] > 0
    BY <2>1, <2>2
  <2>3. ASSUME NEW p \in DOMAIN arena, arena[p] = ret, frames[k].depth < p
        PROVE  Above(arena, frames[k].depth, ret) > 0
    <3>1. p > frames[k].depth
      BY <2>1, <2>3, Shapes
    <3>2. Above(arena, frames[k].depth, arena[p]) \in Nat \ {0}
      BY <2>1, <2>3, <3>1, SlotCounts
    <3> QED BY <2>3, <3>2
  <2> QED BY <2>1, <2>2, <2>3 DEF ReturnsHeld, ReturnHeld
<1> QED BY <1>1, <1>2, <1>3, HandlesInvHolds, PTL DEF Spec
=============================================================================
