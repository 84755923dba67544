------------------------ MODULE BackingStoresProofs ------------------------
(***************************************************************************)
(* Proofs about BackingStores, for any number of threads, stores, buffers  *)
(* and addresses and without a bound on the references: counts are exact,  *)
(* nothing is used after it is gone, isolate state is touched by its own   *)
(* thread, every block has one owner and the registries are right.         *)
(*                                                                         *)
(* The invariant says, for each variable, what the others know of it: who  *)
(* counts (CountInv), what an alias, a buffer and a store with an isolate  *)
(* rely on (AliasInv, BufferInv, HomeInv), what every operation has        *)
(* established by its first step for its second one (FoundInv to TodoInv), *)
(* and who is registered and owns what (RegistryInv, BlockInv).            *)
(***************************************************************************)
EXTENDS BackingStores, FiniteSetTheorems, TLAPS

-----------------------------------------------------------------------------
(* Every variable keeps its shape.                                         *)
Shape ==
  /\ store \in [Stores -> Store \cup {None}]
  /\ buf \in [Bufs -> Buffer \cup {None}]
  /\ held \subseteq Bufs
  /\ allocated \subseteq Addrs
  /\ refs \in [Threads -> [Stores -> Nat]]
  /\ aliases \in [Addrs -> SUBSET Stores]
  /\ owners \in [Addrs -> Stores \cup {None}]
  /\ pending \in [Threads -> SUBSET Addrs]
  /\ iso \in [Threads -> {"alive", "disposing", "freeing", "disposed"}]
  /\ pc \in [Threads ->
       [op : {"idle", "found", "destroy", "forget", "detach", "dispose"},
        store : Stores \cup {None}, buf : Bufs \cup {None}]]
  /\ todo \in [Threads -> SUBSET Stores]

(* The users of a store are those that are counted.                        *)
CountInv ==
  \A s \in Stores :
    /\ IsFiniteSet(Users(s))
    /\ Cardinality(Users(s)) = IF Live(s) THEN store[s].count ELSE 0

(* b is a buffer of the isolate of t.                                      *)
BufOf(t, b) == b \in Bufs /\ buf[b] # None /\ buf[b].iso = t

(* An alias pins an attached buffer of the engine's, which has the bytes,  *)
(* and only the thread of that buffer has references to it.                *)
AliasInv ==
  \A s \in Stores :
    Live(s) =>
      /\ store[s].by = "alias" <=> store[s].pin # None
      /\ store[s].by = "alias" =>
           /\ store[s].iso = None
           /\ store[s].addr # None
           /\ buf[store[s].pin] # None
           /\ buf[store[s].pin].store = None
           /\ buf[store[s].pin].addr = store[s].addr
           /\ \A t \in Threads : t # buf[store[s].pin].iso => refs[t][s] = 0

(* A buffer with a store shows the bytes of the store, and the owner       *)
(* registry finds the store, or nothing, under the address of a buffer.    *)
BufferInv ==
  \A b \in Bufs :
    buf[b] # None =>
      /\ iso[buf[b].iso] # "disposed"
      /\ buf[b].store # None =>
           /\ Live(buf[b].store)
           /\ store[buf[b].store].by # "alias"
           /\ store[buf[b].store].addr = buf[b].addr
      /\ buf[b].addr # None => owners[buf[b].addr] = buf[b].store

(* A store that knows an isolate is used by a buffer there, or its thread  *)
(* is about to destroy it or to make it forget.                            *)
HomeInv ==
  \A s \in Stores :
    Live(s) /\ store[s].iso # None =>
      /\ iso[store[s].iso] # "disposed"
      /\ \/ \E b \in Bufs : BufOf(store[s].iso, b) /\ buf[b].store = s
         \/ /\ pc[store[s].iso].op \in {"forget", "destroy"}
            /\ pc[store[s].iso].store = s

(* What a thread in the middle of an operation relies on.                  *)
FoundInv ==
  \A t \in Threads :
    pc[t].op = "found" =>
      /\ BufOf(t, pc[t].buf) /\ iso[t] = "alive"
      /\ pc[t].store = buf[pc[t].buf].store
      /\ buf[pc[t].buf].addr # None

Forgets(h, s) == h \in Threads /\ pc[h].op = "forget" /\ pc[h].store = s

DestroyInv ==
  \A t \in Threads :
    pc[t].op = "destroy" =>
      /\ pc[t].store # None /\ Live(pc[t].store)
      /\ store[pc[t].store].count = 0
      /\ \/ store[pc[t].store].iso \in {None, t}
         \/ Forgets(store[pc[t].store].iso, pc[t].store)
      /\ store[pc[t].store].pin # None => BufOf(t, store[pc[t].store].pin)
      /\ \A u \in Threads :
           pc[u].op = "destroy" /\ pc[u].store = pc[t].store => u = t

ForgetInv == \A t \in Threads : pc[t].op = "forget" => pc[t].store # None

DetachInv ==
  \A t \in Threads :
    pc[t].op = "detach" =>
      /\ BufOf(t, pc[t].buf) /\ iso[t] = "alive"
      /\ buf[pc[t].buf].addr # None
      /\ \A s \in Stores : Live(s) /\ store[s].pin = pc[t].buf => s \in todo[t]

DisposeInv ==
  \A t \in Threads :
    /\ pc[t].op = "dispose" <=> iso[t] = "disposing"
    /\ iso[t] # "alive" =>
         \A s \in Stores :
           Live(s) /\ BufOf(t, store[s].pin)
             => iso[t] = "disposing" /\ s \in todo[t]

(* Operations that have nothing to do with a store, or with a buffer.      *)
PcInv ==
  \A t \in Threads :
    /\ pc[t].op \in {"idle", "detach", "dispose"} => pc[t].store = None
    /\ pc[t].op \in {"idle", "destroy", "forget", "dispose"} => pc[t].buf = None

(* Aliases on their way to a block of their own have been taken from the   *)
(* registry by the thread that owns the buffer they pin.                   *)
TodoInv ==
  \A t \in Threads : \A s \in todo[t] :
    /\ pc[t].op \in {"detach", "dispose"}
    /\ Live(s) /\ store[s].by = "alias"
    /\ BufOf(t, store[s].pin)
    /\ \A a \in Addrs : s \notin aliases[a]

(* The registries.                                                         *)
RegistryInv ==
  /\ \A a \in Addrs :
       /\ owners[a] # None => /\ Live(owners[a])
                              /\ store[owners[a]].addr = a
                              /\ store[owners[a]].by # "alias"
       /\ \A s \in aliases[a] : /\ Live(s)
                                /\ store[s].addr = a
                                /\ store[s].by = "alias"
  /\ \A s \in Stores :
       Live(s) /\ store[s].by = "alias"
         => \/ s \in aliases[store[s].addr]
            \/ \E t \in Threads : s \in todo[t]

(* The owners of a block, by kind.                                         *)
StoreOwners(a) ==
  { s \in Stores : Live(s) /\ store[s].addr = a /\ store[s].by # "alias" }

BufferOwners(a) ==
  { b \in Bufs : buf[b] # None /\ buf[b].addr = a /\ buf[b].store = None }

ListOwners(a) == { t \in Threads : a \in pending[t] }

AtMostOne(S) == \A x, y \in S : x = y

BlockInv ==
  \A a \in Addrs :
    /\ a \in allocated <=> \/ StoreOwners(a) # {} \/ BufferOwners(a) # {}
                           \/ ListOwners(a) # {}
    /\ AtMostOne(StoreOwners(a)) /\ AtMostOne(BufferOwners(a))
    /\ AtMostOne(ListOwners(a))
    /\ StoreOwners(a) = {} \/ BufferOwners(a) = {}
    /\ StoreOwners(a) = {} \/ ListOwners(a) = {}
    /\ BufferOwners(a) = {} \/ ListOwners(a) = {}

StoresInv ==
  /\ Shape /\ CountInv
  /\ AliasInv /\ BufferInv /\ HomeInv
  /\ FoundInv /\ DestroyInv /\ ForgetInv /\ DetachInv /\ DisposeInv /\ PcInv
  /\ TodoInv /\ RegistryInv /\ BlockInv


-----------------------------------------------------------------------------
(* Users of stores.                                                        *)
UsersOf(r, f, s) ==
  (UNION { { <<"ref", t, k>> : k \in 1 .. r[t][s] } : t \in Threads })
    \cup { <<"buffer", b, 0>> : b \in { b \in Bufs : f[b] # None /\ f[b].store = s } }

LEMMA UsersOfMembers ==
  ASSUME NEW r, NEW f, NEW s, NEW u
  PROVE  u \in UsersOf(r, f, s) <=>
           \/ \E t \in Threads : \E k \in 1 .. r[t][s] : u = <<"ref", t, k>>
           \/ \E b \in Bufs : f[b] # None /\ f[b].store = s
                              /\ u = <<"buffer", b, 0>>
<1> DEFINE P(t) == { <<"ref", t, k>> : k \in 1 .. r[t][s] }
           R == { P(t) : t \in Threads }
           D == { b \in Bufs : f[b] # None /\ f[b].store = s }
           B == { <<"buffer", b, 0>> : b \in D }
<1>1. \A t \in Threads : u \in P(t) <=> \E k \in 1 .. r[t][s] : u = <<"ref", t, k>>
  OBVIOUS
<1>2. u \in B <=> \E b \in Bufs : /\ f[b] # None /\ f[b].store = s
                                  /\ u = <<"buffer", b, 0>>
  OBVIOUS
<1>4. u \in UNION R <=> \E t \in Threads : u \in P(t)
  <2> HIDE DEF P
  <2> QED OBVIOUS
<1>5. u \in UNION R
        <=> \E t \in Threads : \E k \in 1 .. r[t][s] : u = <<"ref", t, k>>
  <2> HIDE DEF R
  <2> QED BY <1>1, <1>4
<1>6. u \in UsersOf(r, f, s) <=> u \in UNION R \/ u \in B
  BY Zenon DEF UsersOf
<1> HIDE DEF P, R, D, B
<1> QED BY <1>2, <1>5, <1>6

LEMMA UserMembers ==
  ASSUME NEW s \in Stores, NEW u
  PROVE  u \in Users(s) <=>
           \/ \E t \in Threads : \E k \in 1 .. refs[t][s] : u = <<"ref", t, k>>
           \/ \E b \in Bufs : buf[b] # None /\ buf[b].store = s
                              /\ u = <<"buffer", b, 0>>
<1>1. Users(s) = UsersOf(refs, buf, s)
  BY DEF Users, UsersOf
<1> QED BY <1>1, UsersOfMembers

LEMMA UserMembersNext ==
  ASSUME NEW s \in Stores, NEW u
  PROVE  u \in Users(s)' <=>
           \/ \E t \in Threads : \E k \in 1 .. refs'[t][s] : u = <<"ref", t, k>>
           \/ \E b \in Bufs : buf'[b] # None /\ buf'[b].store = s
                              /\ u = <<"buffer", b, 0>>
<1>1. Users(s)' = UsersOf(refs', buf', s)
  BY DEF Users, UsersOf
<1> QED BY <1>1, UsersOfMembers

(* Nothing about s changes.                                                *)
LEMMA UsersSame ==
  ASSUME NEW s \in Stores,
         \A t \in Threads : refs'[t][s] = refs[t][s],
         \A b \in Bufs : buf'[b] # None /\ buf'[b].store = s
                         <=> buf[b] # None /\ buf[b].store = s
  PROVE  Users(s)' = Users(s)
<1>1. ASSUME NEW u PROVE u \in Users(s)' <=> u \in Users(s)
  BY UserMembers, UserMembersNext
<1> QED BY <1>1

(* A thread gets one more reference to s.                                  *)
LEMMA UsersRefAdded ==
  ASSUME NEW s \in Stores, NEW t \in Threads,
         refs[t][s] \in Nat, refs'[t][s] = refs[t][s] + 1,
         \A v \in Threads \ {t} : refs'[v][s] = refs[v][s],
         buf' = buf
  PROVE  \E u : u \notin Users(s) /\ Users(s)' = Users(s) \cup {u}
<1> DEFINE u == <<"ref", t, refs[t][s] + 1>>
<1>1. u \notin Users(s)
  <2> SUFFICES ASSUME u \in Users(s) PROVE FALSE
    OBVIOUS
  <2>1. \/ \E v \in Threads : \E k \in 1 .. refs[v][s] : u = <<"ref", v, k>>
        \/ \E b \in Bufs : u = <<"buffer", b, 0>>
    <3> HIDE DEF u
    <3> QED BY UserMembers
  <2>2. PICK v \in Threads : \E k \in 1 .. refs[v][s] : u = <<"ref", v, k>>
    BY <2>1
  <2>3. PICK k \in 1 .. refs[v][s] : u = <<"ref", v, k>>
    BY <2>2
  <2>4. v = t /\ k = refs[t][s] + 1
    BY <2>3
  <2> QED BY <2>3, <2>4
<1>2. ASSUME NEW x PROVE x \in Users(s)' <=> x \in Users(s) \cup {u}
  <2>1. ASSUME x \in Users(s)' PROVE x \in Users(s) \cup {u}
    <3>1. CASE \E b \in Bufs : buf[b] # None /\ buf[b].store = s
                               /\ x = <<"buffer", b, 0>>
      BY <3>1, UserMembers
    <3>2. ASSUME NEW v \in Threads, NEW k \in 1 .. refs'[v][s], x = <<"ref", v, k>>
          PROVE  x \in Users(s) \cup {u}
      <4>1. CASE v # t
        BY <3>2, <4>1, UserMembers
      <4>2. CASE v = t /\ k = refs[t][s] + 1
        BY <3>2, <4>2
      <4>3. CASE v = t /\ k # refs[t][s] + 1
        <5>1. k \in 1 .. refs[v][s]
          BY <3>2, <4>3
        <5> QED BY <3>2, <5>1, UserMembers
      <4> QED BY <4>1, <4>2, <4>3
    <3> QED BY <2>1, <3>1, <3>2, UserMembersNext
  <2>2. ASSUME x \in Users(s) PROVE x \in Users(s)'
    <3>1. CASE \E b \in Bufs : buf[b] # None /\ buf[b].store = s
                               /\ x = <<"buffer", b, 0>>
      BY <3>1, UserMembersNext
    <3>2. ASSUME NEW v \in Threads, NEW k \in 1 .. refs[v][s], x = <<"ref", v, k>>
          PROVE  x \in Users(s)'
      <4>1. k \in 1 .. refs'[v][s]
        BY <3>2
      <4> QED BY <3>2, <4>1, UserMembersNext
    <3> QED BY <2>2, <3>1, <3>2, UserMembers
  <2>3. u \in Users(s)'
    <3>1. refs[t][s] + 1 \in 1 .. refs'[t][s]
      OBVIOUS
    <3> QED BY <3>1, UserMembersNext
  <2> QED BY <2>1, <2>2, <2>3
<1>3. Users(s)' = Users(s) \cup {u}
  BY <1>2
<1> QED BY <1>1, <1>3

(* A thread gives one of its references to s back.                         *)
LEMMA UsersRefRemoved ==
  ASSUME NEW s \in Stores, NEW t \in Threads,
         refs[t][s] \in Nat \ {0}, refs'[t][s] = refs[t][s] - 1,
         \A v \in Threads \ {t} : refs'[v][s] = refs[v][s],
         buf' = buf
  PROVE  \E u \in Users(s) : Users(s)' = Users(s) \ {u}
<1> DEFINE u == <<"ref", t, refs[t][s]>>
<1>1. u \in Users(s)
  <2>1. refs[t][s] \in 1 .. refs[t][s]
    OBVIOUS
  <2> QED BY <2>1, UserMembers
<1>2. ASSUME NEW x PROVE x \in Users(s)' <=> x \in Users(s) \ {u}
  <2>1. ASSUME x \in Users(s)' PROVE x \in Users(s) \ {u}
    <3>1. CASE \E b \in Bufs : buf[b] # None /\ buf[b].store = s
                               /\ x = <<"buffer", b, 0>>
      BY <3>1, UserMembers
    <3>2. ASSUME NEW v \in Threads, NEW k \in 1 .. refs'[v][s], x = <<"ref", v, k>>
          PROVE  x \in Users(s) \ {u}
      <4>1. k \in 1 .. refs[v][s]
        BY <3>2
      <4>2. x # u
        BY <3>2
      <4> QED BY <3>2, <4>1, <4>2, UserMembers
    <3> QED BY <2>1, <3>1, <3>2, UserMembersNext
  <2>2. ASSUME x \in Users(s), x # u PROVE x \in Users(s)'
    <3>1. CASE \E b \in Bufs : buf[b] # None /\ buf[b].store = s
                               /\ x = <<"buffer", b, 0>>
      BY <3>1, UserMembersNext
    <3>2. ASSUME NEW v \in Threads, NEW k \in 1 .. refs[v][s], x = <<"ref", v, k>>
          PROVE  x \in Users(s)'
      <4>1. CASE v # t
        BY <3>2, <4>1, UserMembersNext
      <4>2. CASE v = t
        <5>1. k # refs[t][s]
          BY <2>2, <3>2, <4>2
        <5>2. k \in 1 .. refs'[v][s]
          BY <3>2, <4>2, <5>1
        <5> QED BY <3>2, <5>2, UserMembersNext
      <4> QED BY <4>1, <4>2
    <3> QED BY <2>2, <3>1, <3>2, UserMembers
  <2> QED BY <2>1, <2>2
<1>3. Users(s)' = Users(s) \ {u}
  BY <1>2
<1> QED BY <1>1, <1>3

(* A buffer gets s, or lets it go.                                         *)
LEMMA UsersBufferAdded ==
  ASSUME NEW s \in Stores, NEW b \in Bufs, refs' = refs,
         ~ (buf[b] # None /\ buf[b].store = s),
         buf'[b] # None /\ buf'[b].store = s,
         \A x \in Bufs \ {b} : buf'[x] = buf[x]
  PROVE  \E u : u \notin Users(s) /\ Users(s)' = Users(s) \cup {u}
<1> DEFINE u == <<"buffer", b, 0>>
<1>1. u \notin Users(s)
  BY UserMembers
<1>2. ASSUME NEW x PROVE x \in Users(s)' <=> x \in Users(s) \cup {u}
  <2>1. x \in Users(s)' => x \in Users(s) \cup {u}
    BY UserMembers, UserMembersNext
  <2>2. x \in Users(s) => x \in Users(s)'
    BY UserMembers, UserMembersNext
  <2>3. u \in Users(s)'
    BY UserMembersNext
  <2> QED BY <2>1, <2>2, <2>3
<1>3. Users(s)' = Users(s) \cup {u}
  BY <1>2
<1> QED BY <1>1, <1>3

LEMMA UsersBufferRemoved ==
  ASSUME NEW s \in Stores, NEW b \in Bufs, refs' = refs,
         buf[b] # None /\ buf[b].store = s,
         ~ (buf'[b] # None /\ buf'[b].store = s),
         \A x \in Bufs \ {b} : buf'[x] = buf[x]
  PROVE  \E u \in Users(s) : Users(s)' = Users(s) \ {u}
<1> DEFINE u == <<"buffer", b, 0>>
<1>1. u \in Users(s)
  BY UserMembers
<1>2. ASSUME NEW x PROVE x \in Users(s)' <=> x \in Users(s) \ {u}
  <2>1. x \in Users(s)' => x \in Users(s) \ {u}
    BY UserMembers, UserMembersNext
  <2>2. x \in Users(s) \ {u} => x \in Users(s)'
    BY UserMembers, UserMembersNext
  <2> QED BY <2>1, <2>2
<1>3. Users(s)' = Users(s) \ {u}
  BY <1>2
<1> QED BY <1>1, <1>3

(* What the count says.                                                    *)
LEMMA UsersCounted ==
  ASSUME CountInv, Shape, NEW s \in Stores
  PROVE  /\ Cardinality(Users(s)) \in Nat
         /\ \A t \in Threads : refs[t][s] # 0 => Live(s) /\ store[s].count # 0
         /\ \A b \in Bufs : buf[b] # None /\ buf[b].store = s
                              => Live(s) /\ store[s].count # 0
<1>1. /\ IsFiniteSet(Users(s)) /\ Cardinality(Users(s)) \in Nat
      /\ Cardinality(Users(s)) = IF Live(s) THEN store[s].count ELSE 0
  BY FS_CardinalityType DEF CountInv
<1>2. Users(s) # {} => Live(s) /\ store[s].count # 0
  BY <1>1, FS_EmptySet
<1>3. ASSUME NEW t \in Threads, refs[t][s] # 0 PROVE Users(s) # {}
  <2>1. 1 \in 1 .. refs[t][s]
    BY <1>3 DEF Shape
  <2>2. <<"ref", t, 1>> \in Users(s)
    BY <2>1, UserMembers
  <2> QED BY <2>2
<1>4. ASSUME NEW b \in Bufs, buf[b] # None, buf[b].store = s PROVE Users(s) # {}
  <2>1. <<"buffer", b, 0>> \in Users(s)
    BY <1>4, UserMembers
  <2> QED BY <2>1
<1> QED BY <1>1, <1>2, <1>3, <1>4

(* The last user of a store has no other beside it.                        *)
LEMMA LastRef ==
  ASSUME CountInv, Shape, NEW s \in Stores, Live(s), store[s].count = 1,
         NEW t \in Threads, refs[t][s] # 0
  PROVE  /\ refs[t][s] = 1
         /\ \A u \in Threads \ {t} : refs[u][s] = 0
         /\ \A b \in Bufs : ~ (buf[b] # None /\ buf[b].store = s)
<1>1. IsFiniteSet(Users(s)) /\ Cardinality(Users(s)) = 1
  BY DEF CountInv
<1>2. \A x, y \in Users(s) : x = y
  BY <1>1, FS_Singleton
<1>3. \A v \in Threads : refs[v][s] \in Nat
  BY DEF Shape
<1>4. <<"ref", t, 1>> \in Users(s)
  <2>1. 1 \in 1 .. refs[t][s]
    BY <1>3
  <2> QED BY <2>1, UserMembers
<1>5. refs[t][s] = 1
  <2>1. <<"ref", t, refs[t][s]>> \in Users(s)
    <3>1. refs[t][s] \in 1 .. refs[t][s]
      BY <1>3
    <3> QED BY <3>1, UserMembers
  <2>2. <<"ref", t, refs[t][s]>> = <<"ref", t, 1>>
    BY <1>2, <1>4, <2>1
  <2> QED BY <2>2
<1>6. ASSUME NEW u \in Threads \ {t} PROVE refs[u][s] = 0
  <2> SUFFICES ASSUME refs[u][s] # 0 PROVE FALSE
    OBVIOUS
  <2>1. 1 \in 1 .. refs[u][s]
    BY <1>3
  <2>2. <<"ref", u, 1>> \in Users(s)
    BY <2>1, UserMembers
  <2>3. <<"ref", u, 1>> = <<"ref", t, 1>>
    BY <1>2, <1>4, <2>2
  <2> QED BY <2>3
<1>7. ASSUME NEW b \in Bufs, buf[b] # None, buf[b].store = s PROVE FALSE
  <2>1. <<"buffer", b, 0>> \in Users(s)
    BY <1>7, UserMembers
  <2>2. <<"buffer", b, 0>> = <<"ref", t, 1>>
    BY <1>2, <1>4, <2>1
  <2> QED BY <2>2
<1> QED BY <1>5, <1>6, <1>7

LEMMA LastBuffer ==
  ASSUME CountInv, Shape, NEW s \in Stores, Live(s), store[s].count = 1,
         NEW b \in Bufs, buf[b] # None, buf[b].store = s
  PROVE  /\ \A t \in Threads : refs[t][s] = 0
         /\ \A x \in Bufs : buf[x] # None /\ buf[x].store = s => x = b
<1>1. IsFiniteSet(Users(s)) /\ Cardinality(Users(s)) = 1
  BY DEF CountInv
<1>2. \A x, y \in Users(s) : x = y
  BY <1>1, FS_Singleton
<1>3. <<"buffer", b, 0>> \in Users(s)
  BY UserMembers
<1>4. \A t \in Threads : refs[t][s] # 0 => FALSE
  BY LastRef
<1>5. ASSUME NEW x \in Bufs, buf[x] # None, buf[x].store = s PROVE x = b
  <2>1. <<"buffer", x, 0>> \in Users(s)
    BY <1>5, UserMembers
  <2>2. <<"buffer", x, 0>> = <<"buffer", b, 0>>
    BY <1>2, <1>3, <2>1
  <2> QED BY <2>2
<1> QED BY <1>4, <1>5

(* The count follows: nothing is said of the stores other than s but that  *)
(* they and their users are the same.                                      *)
OthersCounted(s) ==
  \A x \in Stores \ {s} :
    /\ Users(x)' = Users(x)
    /\ Live(x)' <=> Live(x)
    /\ Live(x) => store'[x].count = store[x].count

LEMMA CountUp ==
  ASSUME CountInv, NEW s \in Stores, OthersCounted(s), Live(s)',
         IF Live(s) THEN store[s].count \in Nat /\ store'[s].count = store[s].count + 1
                    ELSE store'[s].count = 1,
         \E u : u \notin Users(s) /\ Users(s)' = Users(s) \cup {u}
  PROVE  CountInv'
<1>1. PICK u : u \notin Users(s) /\ Users(s)' = Users(s) \cup {u}
  OBVIOUS
<1>2. IsFiniteSet(Users(s))
  BY DEF CountInv
<1>3. /\ IsFiniteSet(Users(s) \cup {u})
      /\ Cardinality(Users(s) \cup {u}) = Cardinality(Users(s)) + 1
  BY <1>1, <1>2, FS_AddElement
<1>4. Cardinality(Users(s)) = IF Live(s) THEN store[s].count ELSE 0
  BY DEF CountInv
<1>5. store'[s].count = Cardinality(Users(s)) + 1
  BY <1>4
<1>6. IsFiniteSet(Users(s)') /\ Cardinality(Users(s)') = store'[s].count
  BY <1>1, <1>3, <1>5
<1> QED BY <1>6 DEF CountInv, OthersCounted, Live

LEMMA CountDown ==
  ASSUME CountInv, NEW s \in Stores, OthersCounted(s), Live(s), Live(s)',
         store[s].count \in Nat, store'[s].count = store[s].count - 1,
         \E u \in Users(s) : Users(s)' = Users(s) \ {u}
  PROVE  CountInv'
<1>1. PICK u \in Users(s) : Users(s)' = Users(s) \ {u}
  OBVIOUS
<1>2. IsFiniteSet(Users(s)) /\ Cardinality(Users(s)) = store[s].count
  BY DEF CountInv
<1>3. /\ IsFiniteSet(Users(s) \ {u})
      /\ Cardinality(Users(s) \ {u}) = Cardinality(Users(s)) - 1
  BY <1>1, <1>2, FS_RemoveElement
<1>4. IsFiniteSet(Users(s)') /\ Cardinality(Users(s)') = store'[s].count
  BY <1>1, <1>2, <1>3
<1> QED BY <1>4 DEF CountInv, OthersCounted, Live

LEMMA CountKept ==
  ASSUME CountInv, \A x \in Stores :
           /\ Users(x)' = Users(x)
           /\ (IF Live(x)' THEN store'[x].count ELSE 0)
                = IF Live(x) THEN store[x].count ELSE 0
  PROVE  CountInv'
  BY DEF CountInv, Live

LEMMA CountSame ==
  ASSUME CountInv, UNCHANGED <<store, buf, refs>>
  PROVE  CountInv'
<1>1. \A s \in Stores : Users(s)' = Users(s)
  BY UsersSame
<1> QED BY <1>1, CountKept DEF Live


-----------------------------------------------------------------------------
(* Steps.  All that a store is, but its count, stays.                      *)
StoresKept ==
  \A x \in Stores :
    /\ Live(x)' <=> Live(x)
    /\ Live(x) => /\ store'[x].addr = store[x].addr
                  /\ store'[x].by = store[x].by
                  /\ store'[x].iso = store[x].iso
                  /\ store'[x].pin = store[x].pin

(* The types of a live store and of a buffer.                              *)
LEMMA StoreFields ==
  ASSUME Shape, NEW s \in Stores, Live(s)
  PROVE  /\ store[s] \in Store
         /\ store[s].addr \in Addrs \cup {None}
         /\ store[s].count \in Nat
         /\ store[s].by \in {"allocator", "malloc", "owned", "alias"}
         /\ store[s].iso \in RustIsolates \cup {None}
         /\ store[s].pin \in Bufs \cup {None}
<1>1. store[s] \in Store
  BY DEF Shape, Live
<1> QED BY <1>1 DEF Store

LEMMA BufferFields ==
  ASSUME Shape, NEW b \in Bufs, buf[b] # None
  PROVE  /\ buf[b] \in Buffer
         /\ buf[b].iso \in Threads
         /\ buf[b].addr \in Addrs \cup {None}
         /\ buf[b].store \in Stores \cup {None}
<1>1. buf[b] \in Buffer
  BY DEF Shape
<1> QED BY <1>1 DEF Buffer

LEMMA NoneIsNothing ==
  /\ None \notin Threads /\ None \notin Stores /\ None \notin Bufs
  /\ None \notin Addrs /\ None \notin Store /\ None \notin Buffer
  /\ RustIsolates \subseteq Threads
  BY BackingStoresAssumption

(* A store is counted up or down.                                          *)
LEMMA Recounted ==
  ASSUME Shape, NEW s \in Stores, Live(s), NEW n \in Nat,
         store' = [store EXCEPT ![s].count = n]
  PROVE  /\ store' \in [Stores -> Store \cup {None}]
         /\ StoresKept
         /\ Live(s)' /\ store'[s].count = n
         /\ \A x \in Stores \ {s} : store'[x] = store[x]
<1>1. store[s] \in Store
  BY StoreFields
<1>2. store'[s] = [store[s] EXCEPT !.count = n]
  BY DEF Shape
<1>3. \A x \in Stores \ {s} : store'[x] = store[x]
  BY DEF Shape
<1>4. /\ [store[s] EXCEPT !.count = n] \in Store
      /\ [store[s] EXCEPT !.count = n].count = n
      /\ [store[s] EXCEPT !.count = n].addr = store[s].addr
      /\ [store[s] EXCEPT !.count = n].by = store[s].by
      /\ [store[s] EXCEPT !.count = n].iso = store[s].iso
      /\ [store[s] EXCEPT !.count = n].pin = store[s].pin
  BY <1>1 DEF Store
<1>5. store'[s] # None
  BY <1>2, <1>4, NoneIsNothing
<1>6. store' \in [Stores -> Store \cup {None}]
  BY <1>2, <1>4 DEF Shape
<1> QED BY <1>2, <1>3, <1>4, <1>5, <1>6 DEF StoresKept, Live

(* A box is filled.                                                        *)
LEMMA BoxFilled ==
  ASSUME Shape, NEW s \in Stores, NEW r \in Store,
         store' = [store EXCEPT ![s] = r]
  PROVE  /\ store' \in [Stores -> Store \cup {None}]
         /\ Live(s)' /\ store'[s] = r
         /\ \A x \in Stores \ {s} : store'[x] = store[x]
  BY NoneIsNothing DEF Shape, Live

(* A thread goes on to another step.                                       *)
LEMMA Entered ==
  ASSUME Shape, NEW t \in Threads, NEW r, Enter(t, r),
         r \in [op : {"idle", "found", "destroy", "forget", "detach", "dispose"},
                store : Stores \cup {None}, buf : Bufs \cup {None}]
  PROVE  /\ pc' \in [Threads ->
             [op : {"idle", "found", "destroy", "forget", "detach", "dispose"},
              store : Stores \cup {None}, buf : Bufs \cup {None}]]
         /\ pc'[t] = r
         /\ \A u \in Threads \ {t} : pc'[u] = pc[u]
  BY DEF Shape, Enter

LEMMA StepFields ==
  ASSUME NEW op \in {"idle", "found", "destroy", "forget", "detach", "dispose"},
         NEW s \in Stores \cup {None}, NEW b \in Bufs \cup {None}
  PROVE  /\ Step(op, s, b) \in
              [op : {"idle", "found", "destroy", "forget", "detach", "dispose"},
               store : Stores \cup {None}, buf : Bufs \cup {None}]
         /\ Step(op, s, b).op = op
         /\ Step(op, s, b).store = s
         /\ Step(op, s, b).buf = b
  BY DEF Step

LEMMA IdleFields ==
  /\ Idle \in [op : {"idle", "found", "destroy", "forget", "detach", "dispose"},
               store : Stores \cup {None}, buf : Bufs \cup {None}]
  /\ Idle.op = "idle" /\ Idle.store = None /\ Idle.buf = None
  BY DEF Idle, Step

(* Who has the same bytes has them from the same store.                    *)
LEMMA SharersAgree ==
  ASSUME Shape, BufferInv, BlockInv, NEW s \in Stores, Live(s),
         store[s].by # "alias", NEW b \in Bufs, buf[b] # None,
         buf[b].addr # None, buf[b].addr = store[s].addr
  PROVE  buf[b].store = s
<1> USE NoneIsNothing
<1> DEFINE a == buf[b].addr
<1>1. a \in Addrs /\ buf[b].store \in Stores \cup {None}
  BY BufferFields
<1>2. s \in StoreOwners(a)
  BY DEF StoreOwners
<1>3. CASE buf[b].store = None
  <2>1. b \in BufferOwners(a)
    BY <1>3 DEF BufferOwners
  <2> QED BY <1>1, <1>2, <2>1 DEF BlockInv
<1>4. CASE buf[b].store # None
  <2>1. buf[b].store \in StoreOwners(a)
    BY <1>1, <1>4 DEF StoreOwners, BufferInv
  <2> QED BY <1>1, <1>2, <2>1 DEF BlockInv, AtMostOne
<1> QED BY <1>3, <1>4


(* WrapInBuffer.                                                           *)
LEMMA WrapKeeps ==
  ASSUME StoresInv, Uses = {}, NEW t \in Threads, NEW s \in Stores,
         NEW b \in Bufs, WrapInBuffer(t, s, b)
  PROVE  StoresInv'
<1> DEFINE r == [iso |-> t, addr |-> store[s].addr, store |-> s]
<1> USE NoneIsNothing
<1>0. /\ Shape /\ CountInv
      /\ AliasInv /\ BufferInv /\ HomeInv
      /\ FoundInv /\ DestroyInv /\ ForgetInv /\ DetachInv /\ DisposeInv /\ PcInv
      /\ TodoInv /\ RegistryInv /\ BlockInv
  BY DEF StoresInv
<1>1. /\ iso[t] = "alive" /\ refs[t][s] # 0 /\ store[s].by # "alias"
      /\ buf[b] = None /\ pc[t].op = "idle"
      /\ store' = [store EXCEPT ![s].count = store[s].count + 1]
      /\ buf' = [buf EXCEPT ![b] = r]
      /\ held' = held \cup {b}
      /\ owners' = Put(owners, store[s].addr, s)
      /\ UNCHANGED <<refs, allocated, aliases, pending, iso, pc, todo>>
  BY <1>0, IdleFields DEF WrapInBuffer, Runs, isolates, Shape
<1>2. Live(s) /\ store[s].count \in Nat \ {0} /\ store[s].addr \in Addrs \cup {None}
  BY <1>0, <1>1, UsersCounted, StoreFields
<1>3. /\ store' \in [Stores -> Store \cup {None}]
      /\ StoresKept
      /\ Live(s)' /\ store'[s].count = store[s].count + 1
      /\ \A x \in Stores \ {s} : store'[x] = store[x]
  <2>1. store[s].count + 1 \in Nat
    BY <1>2
  <2> QED BY <1>0, <1>1, <1>2, <2>1, Recounted
<1>4. r \in Buffer /\ r # None /\ r.iso = t /\ r.addr = store[s].addr /\ r.store = s
  BY <1>2 DEF Buffer
<1> HIDE DEF r
<1>5. /\ buf' \in [Bufs -> Buffer \cup {None}]
      /\ buf'[b] = r
      /\ \A x \in Bufs \ {b} : buf'[x] = buf[x]
  BY <1>0, <1>1, <1>4 DEF Shape
<1>6. /\ owners' \in [Addrs -> Stores \cup {None}]
      /\ store[s].addr # None => owners'[store[s].addr] = s
      /\ \A a \in Addrs : a # store[s].addr => owners'[a] = owners[a]
  BY <1>0, <1>1, <1>2 DEF Shape, Put
<1>7. Shape'
  BY <1>0, <1>1, <1>3, <1>5, <1>6 DEF Shape
<1>8. CountInv'
  <2>1. OthersCounted(s)
    <3>1. \A x \in Stores \ {s} : Users(x)' = Users(x)
      BY <1>1, <1>4, <1>5, UsersSame
    <3> QED BY <1>3, <3>1 DEF OthersCounted, Live
  <2>2. \E u : u \notin Users(s) /\ Users(s)' = Users(s) \cup {u}
    BY <1>1, <1>4, <1>5, UsersBufferAdded
  <2> QED BY <1>0, <1>2, <1>3, <2>1, <2>2, CountUp
<1>9. AliasInv'
  BY <1>0, <1>1, <1>3, <1>5 DEF AliasInv, StoresKept, Live
<1>10. BufferInv'
  <2>1. ASSUME NEW x \in Bufs, buf[x] # None, buf[x].addr # None,
               buf[x].addr = store[s].addr
        PROVE  buf[x].store = s
    BY <1>0, <1>1, <1>2, <2>1, SharersAgree
  <2>2. \A x \in Bufs \ {b} : buf[x] # None =>
          /\ buf[x].addr \in Addrs \cup {None}
          /\ buf[x].store \in Stores \cup {None}
    BY <1>0, BufferFields
  <2> QED BY <1>0, <1>1, <1>2, <1>3, <1>4, <1>5, <1>6, <2>1, <2>2
          DEF BufferInv, StoresKept, Live, DisposeInv
<1>11. HomeInv'
  BY <1>0, <1>1, <1>3, <1>4, <1>5 DEF HomeInv, StoresKept, Live, BufOf
<1>12. FoundInv'
  BY <1>0, <1>1, <1>3, <1>4, <1>5 DEF FoundInv, BufOf
<1>13. DestroyInv'
  BY <1>0, <1>1, <1>2, <1>3, <1>4, <1>5
     DEF DestroyInv, Forgets, StoresKept, Live, BufOf, Shape
<1>14. ForgetInv'
  BY <1>0, <1>1, <1>2, <1>3, <1>4, <1>5 DEF ForgetInv, StoresKept, Live, Shape
<1>15. DetachInv'
  BY <1>0, <1>1, <1>2, <1>3, <1>4, <1>5 DEF DetachInv, StoresKept, Live, BufOf
<1>16. DisposeInv'
  BY <1>0, <1>1, <1>2, <1>3, <1>4, <1>5 DEF DisposeInv, StoresKept, Live, BufOf, AliasInv
<1>17. PcInv'
  BY <1>0, <1>1 DEF PcInv
<1>18. TodoInv'
  BY <1>0, <1>1, <1>2, <1>3, <1>4, <1>5 DEF TodoInv, StoresKept, Live, BufOf, Shape
<1>19. RegistryInv'
  BY <1>0, <1>1, <1>2, <1>3, <1>4, <1>5, <1>6 DEF RegistryInv, StoresKept, Live, Shape
<1>20. BlockInv'
  <2>1. \A a \in Addrs : StoreOwners(a)' = StoreOwners(a)
    BY <1>3 DEF StoreOwners, StoresKept
  <2>2. \A a \in Addrs : BufferOwners(a)' = BufferOwners(a)
    BY <1>1, <1>4, <1>5 DEF BufferOwners
  <2>3. \A a \in Addrs : ListOwners(a)' = ListOwners(a)
    BY <1>1 DEF ListOwners
  <2> QED BY <1>0, <1>1, <2>1, <2>2, <2>3 DEF BlockInv
<1> QED BY <1>7, <1>8, <1>9, <1>10, <1>11, <1>12, <1>13, <1>14, <1>15, <1>16,
        <1>17, <1>18, <1>19, <1>20 DEF StoresInv


(* DropHandle.                                                             *)
LEMMA DropHandleKeeps ==
  ASSUME StoresInv, NEW t \in Threads, NEW b \in Bufs, DropHandle(t, b)
  PROVE  StoresInv'
<1>1. /\ held' = held \ {b}
      /\ UNCHANGED <<store, buf, refs, allocated, aliases, owners, pending, iso,
                     pc, todo>>
  BY DEF DropHandle, registries, isolates
<1>2. Shape'
  BY <1>1 DEF StoresInv, Shape
<1>3. CountInv'
  BY <1>1 DEF StoresInv, CountInv, Users, Live
<1>4. /\ AliasInv' /\ BufferInv' /\ HomeInv'
      /\ FoundInv' /\ DestroyInv' /\ ForgetInv' /\ DetachInv' /\ DisposeInv'
      /\ PcInv' /\ TodoInv' /\ RegistryInv'
  BY <1>1 DEF StoresInv, AliasInv, BufferInv, HomeInv, FoundInv, DestroyInv, Forgets,
     ForgetInv, DetachInv, DisposeInv, PcInv, TodoInv, RegistryInv, Live, BufOf
<1>5. BlockInv'
  BY <1>1 DEF StoresInv, BlockInv, StoreOwners, BufferOwners, ListOwners, Live
<1> QED BY <1>2, <1>3, <1>4, <1>5 DEF StoresInv

(* LookupOwner.                                                            *)
LEMMA LookupKeeps ==
  ASSUME StoresInv, Uses = {}, NEW t \in Threads, NEW b \in Bufs,
         LookupOwner(t, b)
  PROVE  StoresInv'
<1> USE NoneIsNothing
<1> DEFINE r == Step("found", OwnerOf(buf[b].addr), b)
<1>0. /\ Shape /\ CountInv
      /\ AliasInv /\ BufferInv /\ HomeInv
      /\ FoundInv /\ DestroyInv /\ ForgetInv /\ DetachInv /\ DisposeInv /\ PcInv
      /\ TodoInv /\ RegistryInv /\ BlockInv
  BY DEF StoresInv
<1>1. /\ iso[t] = "alive" /\ pc[t] = Idle /\ pc[t].op = "idle"
      /\ buf[b] # None /\ buf[b].iso = t /\ buf[b].addr # None
      /\ Enter(t, r)
      /\ UNCHANGED <<store, buf, held, refs, allocated, aliases, owners, pending,
                     iso, todo>>
  BY IdleFields DEF LookupOwner, Runs, BufsOf, registries, isolates
<1>2. /\ buf[b].addr \in Addrs
      /\ OwnerOf(buf[b].addr) = buf[b].store
      /\ buf[b].store \in Stores \cup {None}
  BY <1>0, <1>1, BufferFields DEF OwnerOf, BufferInv
<1>3. /\ r \in [op : {"idle", "found", "destroy", "forget", "detach", "dispose"},
                store : Stores \cup {None}, buf : Bufs \cup {None}]
      /\ r.op = "found" /\ r.store = buf[b].store /\ r.buf = b
  BY <1>2, StepFields
<1> HIDE DEF r
<1>4. /\ pc' \in [Threads ->
           [op : {"idle", "found", "destroy", "forget", "detach", "dispose"},
            store : Stores \cup {None}, buf : Bufs \cup {None}]]
      /\ pc'[t] = r
      /\ \A u \in Threads \ {t} : pc'[u] = pc[u]
  BY <1>0, <1>1, <1>3, Entered
<1>5. Shape'
  BY <1>0, <1>1, <1>4 DEF Shape
<1>6. CountInv'
  BY <1>0, <1>1, CountSame
<1>7. AliasInv' /\ BufferInv' /\ RegistryInv'
  BY <1>0, <1>1 DEF AliasInv, BufferInv, RegistryInv, Live
<1>8. HomeInv'
  BY <1>0, <1>1, <1>3, <1>4, StoreFields DEF HomeInv, Live, BufOf
<1>9. FoundInv'
  BY <1>0, <1>1, <1>3, <1>4 DEF FoundInv, BufOf
<1>10. DestroyInv' /\ ForgetInv' /\ DetachInv'
  BY <1>0, <1>1, <1>3, <1>4 DEF DestroyInv, Forgets, ForgetInv, DetachInv, BufOf, Live
<1>11. DisposeInv' /\ PcInv' /\ TodoInv'
  BY <1>0, <1>1, <1>3, <1>4 DEF DisposeInv, PcInv, TodoInv, BufOf, Live
<1>12. BlockInv'
  BY <1>0, <1>1 DEF BlockInv, StoreOwners, BufferOwners, ListOwners, Live
<1> QED BY <1>5, <1>6, <1>7, <1>8, <1>9, <1>10, <1>11, <1>12 DEF StoresInv

(* The blocks that wait for their allocator go back to it.                 *)
LEMMA BlocksReleased ==
  ASSUME Shape, BlockInv, NEW t \in Threads,
         pending' = [pending EXCEPT ![t] = {}],
         allocated' = allocated \ pending[t],
         \A a \in Addrs : StoreOwners(a)' = StoreOwners(a)
                          /\ BufferOwners(a)' = BufferOwners(a)
  PROVE  BlockInv'
<1>1. /\ pending'[t] = {}
      /\ \A u \in Threads \ {t} : pending'[u] = pending[u]
  BY DEF Shape
<1>2. ASSUME NEW a \in Addrs
      PROVE  ListOwners(a)' = ListOwners(a) \ {t}
  BY <1>1 DEF ListOwners
<1>3. \A a \in Addrs : t \in ListOwners(a) <=> a \in pending[t]
  BY DEF ListOwners
<1> SUFFICES ASSUME NEW a \in Addrs
             PROVE
    /\ a \in allocated' <=> \/ StoreOwners(a)' # {} \/ BufferOwners(a)' # {}
                            \/ ListOwners(a)' # {}
    /\ AtMostOne(StoreOwners(a)') /\ AtMostOne(BufferOwners(a)')
    /\ AtMostOne(ListOwners(a)')
    /\ StoreOwners(a)' = {} \/ BufferOwners(a)' = {}
    /\ StoreOwners(a)' = {} \/ ListOwners(a)' = {}
    /\ BufferOwners(a)' = {} \/ ListOwners(a)' = {}
  BY DEF BlockInv
<1>4. /\ a \in allocated <=> \/ StoreOwners(a) # {} \/ BufferOwners(a) # {}
                             \/ ListOwners(a) # {}
      /\ AtMostOne(StoreOwners(a)) /\ AtMostOne(BufferOwners(a))
      /\ AtMostOne(ListOwners(a))
      /\ StoreOwners(a) = {} \/ BufferOwners(a) = {}
      /\ StoreOwners(a) = {} \/ ListOwners(a) = {}
      /\ BufferOwners(a) = {} \/ ListOwners(a) = {}
  BY DEF BlockInv
<1>5. CASE a \in pending[t]
  <2>1. ListOwners(a) = {t}
    BY <1>3, <1>4, <1>5 DEF AtMostOne
  <2> QED BY <1>2, <1>4, <1>5, <2>1 DEF AtMostOne
<1>6. CASE a \notin pending[t]
  <2>1. ListOwners(a)' = ListOwners(a)
    BY <1>2, <1>3, <1>6
  <2> QED BY <1>4, <1>6, <2>1
<1> QED BY <1>5, <1>6

(* LowMemory.                                                              *)
LEMMA LowMemoryKeeps ==
  ASSUME StoresInv, NEW t \in Threads, LowMemory(t)
  PROVE  StoresInv'
<1>0. /\ Shape /\ BlockInv
  BY DEF StoresInv
<1>1. /\ pending' = [pending EXCEPT ![t] = {}]
      /\ allocated' = allocated \ pending[t]
      /\ UNCHANGED <<store, buf, held, refs, aliases, owners, iso, pc, todo>>
  BY <1>0 DEF LowMemory, Released, registries, Shape
<1>2. Shape'
  BY <1>0, <1>1 DEF Shape
<1>3. CountInv'
  BY <1>1 DEF StoresInv, CountInv, Users, Live
<1>4. /\ AliasInv' /\ BufferInv' /\ HomeInv'
      /\ FoundInv' /\ DestroyInv' /\ ForgetInv' /\ DetachInv' /\ DisposeInv'
      /\ PcInv' /\ TodoInv' /\ RegistryInv'
  BY <1>1 DEF StoresInv, AliasInv, BufferInv, HomeInv, FoundInv, DestroyInv, Forgets,
     ForgetInv, DetachInv, DisposeInv, PcInv, TodoInv, RegistryInv, Live, BufOf
<1>5. BlockInv'
  BY <1>0, <1>1, BlocksReleased DEF StoreOwners, BufferOwners, Live
<1> QED BY <1>2, <1>3, <1>4, <1>5 DEF StoresInv

(* FreeRuntime.                                                            *)
LEMMA FreeRuntimeKeeps ==
  ASSUME StoresInv, NEW t \in Threads, FreeRuntime(t)
  PROVE  StoresInv'
<1> USE NoneIsNothing
<1>0. /\ Shape /\ CountInv
      /\ AliasInv /\ BufferInv /\ HomeInv
      /\ FoundInv /\ DestroyInv /\ ForgetInv /\ DetachInv /\ DisposeInv /\ PcInv
      /\ TodoInv /\ RegistryInv /\ BlockInv
  BY DEF StoresInv
<1>1. /\ pc[t].op = "dispose" /\ todo[t] = {}
      /\ iso' = [iso EXCEPT ![t] = "freeing"]
      /\ Enter(t, Idle)
      /\ UNCHANGED <<store, buf, held, refs, allocated, aliases, owners, pending,
                     todo>>
  BY DEF FreeRuntime, registries
<1>2. /\ pc' \in [Threads ->
           [op : {"idle", "found", "destroy", "forget", "detach", "dispose"},
            store : Stores \cup {None}, buf : Bufs \cup {None}]]
      /\ pc'[t] = Idle
      /\ \A u \in Threads \ {t} : pc'[u] = pc[u]
  BY <1>0, <1>1, IdleFields, Entered
<1>3. /\ iso' \in [Threads -> {"alive", "disposing", "freeing", "disposed"}]
      /\ iso'[t] = "freeing"
      /\ \A u \in Threads \ {t} : iso'[u] = iso[u]
  BY <1>0, <1>1 DEF Shape
<1>4. iso[t] = "disposing"
  BY <1>0, <1>1 DEF DisposeInv
<1>5. Shape'
  BY <1>0, <1>1, <1>2, <1>3 DEF Shape
<1>6. CountInv'
  BY <1>0, <1>1, CountSame
<1>7. AliasInv' /\ RegistryInv'
  BY <1>0, <1>1 DEF AliasInv, RegistryInv, Live
<1>8. BufferInv'
  BY <1>0, <1>1, <1>3, BufferFields DEF BufferInv, Live
<1>9. HomeInv'
  BY <1>0, <1>1, <1>2, <1>3, StoreFields DEF HomeInv, Live, BufOf
<1>10. FoundInv' /\ DestroyInv' /\ ForgetInv' /\ DetachInv'
  BY <1>0, <1>1, <1>2, <1>3, IdleFields
     DEF FoundInv, DestroyInv, Forgets, ForgetInv, DetachInv, BufOf, Live
<1>11. DisposeInv' /\ PcInv' /\ TodoInv'
  BY <1>0, <1>1, <1>2, <1>3, <1>4, IdleFields
     DEF DisposeInv, PcInv, TodoInv, BufOf, Live
<1>12. BlockInv'
  BY <1>0, <1>1 DEF BlockInv, StoreOwners, BufferOwners, ListOwners, Live
<1> QED BY <1>5, <1>6, <1>7, <1>8, <1>9, <1>10, <1>11, <1>12 DEF StoresInv

(* FinishDispose.                                                          *)
LEMMA FinishDisposeKeeps ==
  ASSUME StoresInv, NEW t \in Threads, FinishDispose(t)
  PROVE  StoresInv'
<1> USE NoneIsNothing
<1>0. /\ Shape /\ CountInv
      /\ AliasInv /\ BufferInv /\ HomeInv
      /\ FoundInv /\ DestroyInv /\ ForgetInv /\ DetachInv /\ DisposeInv /\ PcInv
      /\ TodoInv /\ RegistryInv /\ BlockInv
  BY DEF StoresInv
<1>1. /\ iso[t] = "freeing" /\ pc[t].op = "idle"
      /\ \A b \in Bufs : ~ BufOf(t, b)
      /\ iso' = [iso EXCEPT ![t] = "disposed"]
      /\ pending' = [pending EXCEPT ![t] = {}]
      /\ allocated' = allocated \ pending[t]
      /\ UNCHANGED <<store, buf, held, refs, aliases, owners, pc, todo>>
  BY IdleFields DEF FinishDispose, BufsOf, BufOf, registries
<1>2. /\ iso' \in [Threads -> {"alive", "disposing", "freeing", "disposed"}]
      /\ iso'[t] = "disposed"
      /\ \A u \in Threads \ {t} : iso'[u] = iso[u]
  BY <1>0, <1>1 DEF Shape
<1>3. Shape'
  <2>1. pending' \in [Threads -> SUBSET Addrs]
    <3>1. pending \in [Threads -> SUBSET Addrs] /\ {} \in SUBSET Addrs
      BY <1>0 DEF Shape
    <3> QED BY <1>1, <3>1
  <2>2. allocated' \subseteq Addrs
    BY <1>0, <1>1 DEF Shape
  <2>3. UNCHANGED <<store, buf, held, refs, aliases, owners, pc, todo>>
    BY <1>1
  <2> QED BY <1>0, <1>2, <2>1, <2>2, <2>3 DEF Shape
<1>4. CountInv'
  BY <1>0, <1>1, CountSame
<1>5. AliasInv' /\ RegistryInv'
  BY <1>0, <1>1 DEF AliasInv, RegistryInv, Live
<1>6. BufferInv'
  BY <1>0, <1>1, <1>2, BufferFields DEF BufferInv, Live, BufOf
<1>7. HomeInv'
  BY <1>0, <1>1, <1>2, StoreFields DEF HomeInv, Live, BufOf
<1>8. FoundInv' /\ DestroyInv' /\ ForgetInv' /\ DetachInv'
  BY <1>0, <1>1, <1>2
     DEF FoundInv, DestroyInv, Forgets, ForgetInv, DetachInv, BufOf, Live
<1>9. DisposeInv' /\ PcInv' /\ TodoInv'
  BY <1>0, <1>1, <1>2 DEF DisposeInv, PcInv, TodoInv, BufOf, Live
<1>10. BlockInv'
  BY <1>0, <1>1, BlocksReleased DEF StoreOwners, BufferOwners, Live
<1> QED BY <1>3, <1>4, <1>5, <1>6, <1>7, <1>8, <1>9, <1>10 DEF StoresInv


(* CountIn, of the store that was found.                                   *)
CountInOf(t, s) ==
  /\ pc[t].op = "found" /\ pc[t].store = s /\ Live(s)
  /\ store' = [store EXCEPT ![s].count = store[s].count + 1]
  /\ refs' = [refs EXCEPT ![t][s] = refs[t][s] + 1]
  /\ Enter(t, Idle)
  /\ UNCHANGED <<buf, held, allocated, aliases, owners, pending, iso, todo>>

LEMMA CountInOfKeeps ==
  ASSUME StoresInv, NEW t \in Threads, NEW s \in Stores, CountInOf(t, s)
  PROVE  StoresInv'
<1> USE NoneIsNothing
<1>0. /\ Shape /\ CountInv
      /\ AliasInv /\ BufferInv /\ HomeInv
      /\ FoundInv /\ DestroyInv /\ ForgetInv /\ DetachInv /\ DisposeInv /\ PcInv
      /\ TodoInv /\ RegistryInv /\ BlockInv
  BY DEF StoresInv
<1>1. /\ pc[t].op = "found" /\ Live(s)
      /\ store' = [store EXCEPT ![s].count = store[s].count + 1]
      /\ refs' = [refs EXCEPT ![t][s] = refs[t][s] + 1]
      /\ Enter(t, Idle)
      /\ UNCHANGED <<buf, held, allocated, aliases, owners, pending, iso, todo>>
  BY DEF CountInOf
<1>2. /\ BufOf(t, pc[t].buf) /\ iso[t] = "alive"
      /\ buf[pc[t].buf].store = s
  BY <1>0 DEF FoundInv, CountInOf
<1>3. store[s].by # "alias"
  BY <1>0, <1>1, <1>2 DEF BufferInv, BufOf
<1>4. store[s].count \in Nat \ {0}
  BY <1>0, <1>1, <1>2, UsersCounted, StoreFields DEF BufOf
<1>5. /\ store' \in [Stores -> Store \cup {None}]
      /\ StoresKept
      /\ Live(s)' /\ store'[s].count = store[s].count + 1
      /\ \A x \in Stores \ {s} : store'[x] = store[x]
  <2>1. store[s].count + 1 \in Nat
    BY <1>4
  <2> QED BY <1>0, <1>1, <2>1, Recounted
<1>6. /\ refs' \in [Threads -> [Stores -> Nat]]
      /\ refs[t][s] \in Nat /\ refs'[t][s] = refs[t][s] + 1
      /\ \A v \in Threads \ {t} : refs'[v] = refs[v]
      /\ \A v \in Threads : \A x \in Stores \ {s} : refs'[v][x] = refs[v][x]
  BY <1>0, <1>1 DEF Shape
<1>7. /\ pc' \in [Threads ->
           [op : {"idle", "found", "destroy", "forget", "detach", "dispose"},
            store : Stores \cup {None}, buf : Bufs \cup {None}]]
      /\ pc'[t] = Idle
      /\ \A u \in Threads \ {t} : pc'[u] = pc[u]
  BY <1>0, <1>1, IdleFields, Entered
<1>8. Shape'
  BY <1>0, <1>1, <1>5, <1>6, <1>7 DEF Shape
<1>9. CountInv'
  <2>1. OthersCounted(s)
    <3>1. \A x \in Stores \ {s} : Users(x)' = Users(x)
      BY <1>1, <1>6, UsersSame
    <3> QED BY <1>5, <3>1 DEF OthersCounted, Live
  <2>2. \E u : u \notin Users(s) /\ Users(s)' = Users(s) \cup {u}
    BY <1>1, <1>6, UsersRefAdded
  <2> QED BY <1>0, <1>1, <1>4, <1>5, <2>1, <2>2, CountUp
<1>10. AliasInv'
  BY <1>0, <1>1, <1>3, <1>5, <1>6 DEF AliasInv, StoresKept, Live
<1>11. BufferInv' /\ RegistryInv'
  BY <1>0, <1>1, <1>5, BufferFields DEF BufferInv, RegistryInv, StoresKept, Live, Shape
<1>12. HomeInv'
  BY <1>0, <1>1, <1>5, <1>7, StoreFields DEF HomeInv, StoresKept, Live, BufOf
<1>13. FoundInv' /\ DetachInv'
  BY <1>0, <1>1, <1>5, <1>7, IdleFields DEF FoundInv, DetachInv, StoresKept, Live, BufOf
<1>14. DestroyInv' /\ ForgetInv'
  <2>1. \A u \in Threads : pc[u].store \in Stores \cup {None}
    BY <1>0 DEF Shape
  <2>2. pc'[t].op = "idle"
    BY <1>7, IdleFields
  <2>3. \A u \in Threads : pc'[u].op \in {"destroy", "forget"} => pc'[u] = pc[u]
    BY <1>7, <2>2
  <2>4. DestroyInv'
    <3>1. \A h \in Threads : pc[h].op = "forget" => pc'[h] = pc[h]
      BY <1>1, <1>7
    <3> QED BY <1>0, <1>1, <1>4, <1>5, <2>1, <2>3, <3>1
            DEF DestroyInv, Forgets, StoresKept, Live, BufOf
  <2>5. ForgetInv'
    BY <1>0, <1>4, <1>5, <2>1, <2>3 DEF ForgetInv, StoresKept, Live
  <2> QED BY <2>4, <2>5
<1>15. DisposeInv' /\ PcInv' /\ TodoInv'
  <2>1. pc'[t].op = "idle" /\ pc'[t].store = None /\ pc'[t].buf = None
    BY <1>7, IdleFields
  <2>2. DisposeInv'
    BY <1>0, <1>1, <1>2, <1>5, <1>7, <2>1 DEF DisposeInv, StoresKept, Live, BufOf
  <2>3. PcInv'
    BY <1>0, <1>7, <2>1 DEF PcInv
  <2>4. todo[t] = {}
    BY <1>0, <1>1 DEF TodoInv
  <2>5. TodoInv'
    BY <1>0, <1>1, <1>5, <1>7, <2>4 DEF TodoInv, StoresKept, Live, BufOf, Shape
  <2> QED BY <2>2, <2>3, <2>5
<1>16. BlockInv'
  <2>1. \A a \in Addrs : StoreOwners(a)' = StoreOwners(a)
    BY <1>5 DEF StoreOwners, StoresKept
  <2> QED BY <1>0, <1>1, <2>1 DEF BlockInv, BufferOwners, ListOwners
<1> QED BY <1>8, <1>9, <1>10, <1>11, <1>12, <1>13, <1>14, <1>15, <1>16
        DEF StoresInv

LEMMA CountInKeeps ==
  ASSUME StoresInv, NEW t \in Threads, CountIn(t)
  PROVE  StoresInv'
<1>1. Shape
  BY DEF StoresInv
<1>2. pc[t].store \in Stores
  BY <1>1 DEF CountIn, Shape
<1>3. PICK s \in Stores : s = pc[t].store
  BY <1>2
<1>4. CountInOf(t, s)
  BY <1>1, <1>3 DEF CountIn, CountInOf, registries, isolates, Shape
<1> QED BY <1>4, CountInOfKeeps

(* CopyRef.                                                                *)
LEMMA CopyRefKeeps ==
  ASSUME StoresInv, NEW t \in Threads, NEW s \in Stores, CopyRef(t, s)
  PROVE  StoresInv'
<1> USE NoneIsNothing
<1>0. /\ Shape /\ CountInv
      /\ AliasInv /\ BufferInv /\ HomeInv
      /\ FoundInv /\ DestroyInv /\ ForgetInv /\ DetachInv /\ DisposeInv /\ PcInv
      /\ TodoInv /\ RegistryInv /\ BlockInv
  BY DEF StoresInv
<1>1. /\ refs[t][s] \in Nat \ {0}
      /\ store' = [store EXCEPT ![s].count = store[s].count + 1]
      /\ refs' = [refs EXCEPT ![t][s] = refs[t][s] + 1]
      /\ UNCHANGED <<buf, held, allocated, aliases, owners, pending, iso, pc, todo>>
  BY <1>0 DEF CopyRef, registries, isolates, Shape
<1>2. Live(s) /\ store[s].count \in Nat \ {0}
  BY <1>0, <1>1, UsersCounted, StoreFields
<1>5. /\ store' \in [Stores -> Store \cup {None}]
      /\ StoresKept
      /\ Live(s)' /\ store'[s].count = store[s].count + 1
      /\ \A x \in Stores \ {s} : store'[x] = store[x]
  <2>1. store[s].count + 1 \in Nat
    BY <1>2
  <2> QED BY <1>0, <1>1, <1>2, <2>1, Recounted
<1>6. /\ refs' \in [Threads -> [Stores -> Nat]]
      /\ refs'[t][s] = refs[t][s] + 1
      /\ \A v \in Threads \ {t} : refs'[v] = refs[v]
      /\ \A v \in Threads : \A x \in Stores \ {s} : refs'[v][x] = refs[v][x]
  BY <1>0, <1>1 DEF Shape
<1>8. Shape'
  BY <1>0, <1>1, <1>5, <1>6 DEF Shape
<1>9. CountInv'
  <2>1. OthersCounted(s)
    <3>1. \A x \in Stores \ {s} : Users(x)' = Users(x)
      BY <1>1, <1>6, UsersSame
    <3> QED BY <1>5, <3>1 DEF OthersCounted, Live
  <2>2. \E u : u \notin Users(s) /\ Users(s)' = Users(s) \cup {u}
    BY <1>1, <1>6, UsersRefAdded
  <2> QED BY <1>0, <1>2, <1>5, <2>1, <2>2, CountUp
<1>10. AliasInv'
  BY <1>0, <1>1, <1>5, <1>6 DEF AliasInv, StoresKept, Live
<1>11. BufferInv' /\ RegistryInv'
  BY <1>0, <1>1, <1>5, BufferFields DEF BufferInv, RegistryInv, StoresKept, Live, Shape
<1>12. HomeInv'
  BY <1>0, <1>1, <1>5, StoreFields DEF HomeInv, StoresKept, Live, BufOf
<1>13. FoundInv' /\ DetachInv'
  BY <1>0, <1>1, <1>5 DEF FoundInv, DetachInv, StoresKept, Live, BufOf
<1>14. DestroyInv' /\ ForgetInv'
  BY <1>0, <1>1, <1>2, <1>5
     DEF DestroyInv, Forgets, ForgetInv, StoresKept, Live, BufOf, Shape
<1>15. DisposeInv' /\ PcInv' /\ TodoInv'
  BY <1>0, <1>1, <1>5 DEF DisposeInv, PcInv, TodoInv, StoresKept, Live, BufOf, Shape
<1>16. BlockInv'
  <2>1. \A a \in Addrs : StoreOwners(a)' = StoreOwners(a)
    BY <1>5 DEF StoreOwners, StoresKept
  <2> QED BY <1>0, <1>1, <2>1 DEF BlockInv, BufferOwners, ListOwners
<1> QED BY <1>8, <1>9, <1>10, <1>11, <1>12, <1>13, <1>14, <1>15, <1>16
        DEF StoresInv

LEMMA TwoRefs ==
  ASSUME NEW r \in [Threads -> [Stores -> Nat]], NEW t \in Threads,
         NEW u \in Threads, t # u, NEW s \in Stores, NEW m \in Nat, NEW n \in Nat
  PROVE  [r EXCEPT ![t][s] = m, ![u][s] = n] \in [Threads -> [Stores -> Nat]]
<1>1. /\ [r[t] EXCEPT ![s] = m] \in [Stores -> Nat]
      /\ [r[u] EXCEPT ![s] = n] \in [Stores -> Nat]
  OBVIOUS
<1>2. [r EXCEPT ![t] = [r[t] EXCEPT ![s] = m]] \in [Threads -> [Stores -> Nat]]
  BY <1>1
<1>3. [[r EXCEPT ![t] = [r[t] EXCEPT ![s] = m]] EXCEPT ![u] = [r[u] EXCEPT ![s] = n]]
        \in [Threads -> [Stores -> Nat]]
  BY <1>1, <1>2
<1>4. [r EXCEPT ![t][s] = m, ![u][s] = n]
        = [[r EXCEPT ![t] = [r[t] EXCEPT ![s] = m]] EXCEPT ![u] = [r[u] EXCEPT ![s] = n]]
  OBVIOUS
<1> QED BY <1>3, <1>4

(* SendRef: one user of the store takes the place of another.              *)
LEMMA SendRefKeeps ==
  ASSUME StoresInv, Uses = {}, NEW t \in Threads, NEW u \in Threads,
         NEW s \in Stores, SendRef(t, u, s)
  PROVE  StoresInv'
<1> USE NoneIsNothing
<1>0. /\ Shape /\ CountInv
      /\ AliasInv /\ BufferInv /\ HomeInv
      /\ FoundInv /\ DestroyInv /\ ForgetInv /\ DetachInv /\ DisposeInv /\ PcInv
      /\ TodoInv /\ RegistryInv /\ BlockInv
  BY DEF StoresInv
<1>1. /\ t # u /\ refs[t][s] \in Nat \ {0} /\ refs[u][s] \in Nat
      /\ store[s].pin = None
      /\ refs' = [refs EXCEPT ![t][s] = refs[t][s] - 1, ![u][s] = refs[u][s] + 1]
      /\ UNCHANGED <<store, buf, held, allocated, aliases, owners, pending, iso,
                     pc, todo>>
  BY <1>0 DEF SendRef, registries, isolates, Shape
<1>2. Live(s)
  BY <1>0, <1>1, UsersCounted
<1>3. /\ refs' \in [Threads -> [Stores -> Nat]]
      /\ refs'[t][s] = refs[t][s] - 1
      /\ refs'[u][s] = refs[u][s] + 1
      /\ \A v \in Threads \ {t, u} : refs'[v] = refs[v]
      /\ \A v \in Threads : \A x \in Stores \ {s} : refs'[v][x] = refs[v][x]
  <2>1. refs[t][s] - 1 \in Nat /\ refs[u][s] + 1 \in Nat
    BY <1>1
  <2>2. /\ refs[t] \in [Stores -> Nat] /\ refs[u] \in [Stores -> Nat]
        /\ refs'[t] = [refs[t] EXCEPT ![s] = refs[t][s] - 1]
        /\ refs'[u] = [refs[u] EXCEPT ![s] = refs[u][s] + 1]
        /\ \A v \in Threads \ {t, u} : refs'[v] = refs[v]
    BY <1>0, <1>1 DEF Shape
  <2>3. refs' \in [Threads -> [Stores -> Nat]]
    <3>1. refs \in [Threads -> [Stores -> Nat]]
      BY <1>0 DEF Shape
    <3>2. ASSUME NEW m \in Nat, NEW n \in Nat,
                 refs' = [refs EXCEPT ![t][s] = m, ![u][s] = n]
          PROVE  refs' \in [Threads -> [Stores -> Nat]]
      <4>1. [refs EXCEPT ![t][s] = m, ![u][s] = n] \in [Threads -> [Stores -> Nat]]
        BY <1>1, <3>1, TwoRefs
      <4> QED BY <3>2, <4>1
    <3> QED BY <1>1, <2>1, <3>2
  <2>4. \A v \in Threads \ {t, u} : \A x \in Stores \ {s} : refs'[v][x] = refs[v][x]
    BY <2>2
  <2>5. /\ refs'[t][s] = refs[t][s] - 1 /\ refs'[u][s] = refs[u][s] + 1
        /\ \A x \in Stores \ {s} : /\ refs'[t][x] = refs[t][x]
                                 /\ refs'[u][x] = refs[u][x]
    BY <2>2
  <2> QED BY <2>2, <2>3, <2>4, <2>5
<1>4. Shape'
  BY <1>0, <1>1, <1>3 DEF Shape
<1>5. CountInv'
  <2>1. \A x \in Stores \ {s} : Users(x)' = Users(x)
    BY <1>1, <1>3, UsersSame
  <2> DEFINE p == <<"ref", t, refs[t][s]>>
             q == <<"ref", u, refs[u][s] + 1>>
  <2>2. p \in Users(s) /\ q \notin Users(s)
    <3>1. refs[t][s] \in 1 .. refs[t][s] /\ refs[u][s] + 1 \notin 1 .. refs[u][s]
      BY <1>1
    <3>2. p \in Users(s)
      BY <3>1, UserMembers
    <3>3. q \notin Users(s)
      BY <3>1, UserMembers
    <3> QED BY <3>2, <3>3
  <2>3. ASSUME NEW x PROVE x \in Users(s)' <=> x \in (Users(s) \ {p}) \cup {q}
    <3>1. ASSUME NEW b \in Bufs, x = <<"buffer", b, 0>>
          PROVE  x \in Users(s)' <=> x \in (Users(s) \ {p}) \cup {q}
      <4>1. x # p /\ x # q
        BY <3>1
      <4>2. x \in Users(s)' <=> x \in Users(s)
        BY <1>1, <3>1, UserMembers, UserMembersNext
      <4> QED BY <4>1, <4>2
    <3>2. ASSUME NEW v \in Threads, NEW k \in Nat \ {0}, x = <<"ref", v, k>>
          PROVE  x \in Users(s)' <=> x \in (Users(s) \ {p}) \cup {q}
      <4>1. x \in Users(s) <=> k \in 1 .. refs[v][s]
        BY <3>2, UserMembers
      <4>2. x \in Users(s)' <=> k \in 1 .. refs'[v][s]
        BY <3>2, UserMembersNext
      <4>3. CASE v = t
        <5> DEFINE n == refs[t][s]
        <5>1. k \in 1 .. refs'[t][s] <=> k \in 1 .. n /\ k # n
          <6>1. refs'[t][s] = n - 1 /\ n \in Nat \ {0} /\ k \in Nat \ {0}
            BY <1>1, <1>3
          <6> HIDE DEF n
          <6> QED BY <6>1
        <5>2. x # q /\ (x = p <=> k = refs[t][s])
          BY <1>1, <3>2, <4>3
        <5> QED BY <4>1, <4>2, <4>3, <5>1, <5>2
      <4>4. CASE v = u
        <5> DEFINE n == refs[u][s]
        <5>1. k \in 1 .. refs'[u][s] <=> k \in 1 .. n \/ k = n + 1
          <6>1. refs'[u][s] = n + 1 /\ n \in Nat /\ k \in Nat \ {0}
            BY <1>1, <1>3
          <6> HIDE DEF n
          <6> QED BY <6>1
        <5>2. x # p /\ (x = q <=> k = refs[u][s] + 1)
          BY <1>1, <3>2, <4>4
        <5> QED BY <4>1, <4>2, <4>4, <5>1, <5>2
      <4>5. CASE v \notin {t, u}
        BY <1>3, <3>2, <4>1, <4>2, <4>5
      <4> QED BY <4>3, <4>4, <4>5
    <3>3. \A v \in Threads : \A k \in 1 .. refs[v][s] : k \in Nat \ {0}
      OBVIOUS
    <3>4. \A v \in Threads : \A k \in 1 .. refs'[v][s] : k \in Nat \ {0}
      OBVIOUS
    <3>5. refs[u][s] + 1 \in Nat \ {0}
      BY <1>1
    <3>6. x \in Users(s)' \/ x \in (Users(s) \ {p}) \cup {q}
            => \/ \E b \in Bufs : x = <<"buffer", b, 0>>
               \/ \E v \in Threads : \E k \in Nat \ {0} : x = <<"ref", v, k>>
      BY <3>3, <3>4, <3>5, UserMembers, UserMembersNext
    <3> QED BY <3>1, <3>2, <3>6
  <2>4. Users(s)' = (Users(s) \ {p}) \cup {q}
    BY <2>3
  <2> HIDE DEF p, q
  <2>5. /\ IsFiniteSet(Users(s)') 
        /\ Cardinality(Users(s)') = Cardinality(Users(s))
    <3>1. IsFiniteSet(Users(s)) /\ Cardinality(Users(s)) \in Nat
      BY <1>0, FS_CardinalityType DEF CountInv
    <3>2. /\ IsFiniteSet(Users(s) \ {p})
          /\ Cardinality(Users(s) \ {p}) = Cardinality(Users(s)) - 1
      BY <2>2, <3>1, FS_RemoveElement
    <3>3. q \notin Users(s) \ {p}
      BY <2>2
    <3>4. /\ IsFiniteSet((Users(s) \ {p}) \cup {q})
          /\ Cardinality((Users(s) \ {p}) \cup {q}) = Cardinality(Users(s) \ {p}) + 1
      BY <3>2, <3>3, FS_AddElement
    <3> QED BY <2>4, <3>1, <3>2, <3>4
  <2> QED BY <1>0, <1>1, <2>1, <2>5 DEF CountInv, Live
<1>6. AliasInv'
  <2> SUFFICES ASSUME NEW x \in Stores, Live(x), store[x].by = "alias"
               PROVE  \A v \in Threads : v # buf[store[x].pin].iso => refs'[v][x] = 0
    BY <1>0, <1>1 DEF AliasInv, Live
  <2>1. x # s
    BY <1>0, <1>1, <1>2 DEF AliasInv
  <2> QED BY <1>0, <1>3, <2>1 DEF AliasInv
<1>7. /\ BufferInv' /\ HomeInv'
      /\ FoundInv' /\ DestroyInv' /\ ForgetInv' /\ DetachInv' /\ DisposeInv'
      /\ PcInv' /\ TodoInv' /\ RegistryInv'
  BY <1>0, <1>1 DEF BufferInv, HomeInv, FoundInv, DestroyInv, Forgets,
     ForgetInv, DetachInv, DisposeInv, PcInv, TodoInv, RegistryInv, Live, BufOf
<1>8. BlockInv'
  BY <1>0, <1>1 DEF BlockInv, StoreOwners, BufferOwners, ListOwners, Live
<1> QED BY <1>4, <1>5, <1>6, <1>7, <1>8 DEF StoresInv

-----------------------------------------------------------------------------
(* What is attached, registered or alive is in use.                        *)
LEMMA AttachedAllocated ==
  ASSUME Shape, BufferInv, BlockInv, NEW b \in Bufs, buf[b] # None,
         buf[b].addr # None
  PROVE  buf[b].addr \in allocated
<1> DEFINE a == buf[b].addr
<1>1. a \in Addrs /\ buf[b].store \in Stores \cup {None}
  BY BufferFields
<1>2. CASE buf[b].store = None
  <2>1. b \in BufferOwners(a)
    BY <1>2 DEF BufferOwners
  <2> QED BY <1>1, <2>1 DEF BlockInv
<1>3. CASE buf[b].store # None
  <2>1. buf[b].store \in StoreOwners(a)
    BY <1>1, <1>3 DEF StoreOwners, BufferInv
  <2> QED BY <1>1, <2>1 DEF BlockInv
<1> QED BY <1>2, <1>3

LEMMA LiveAllocated ==
  ASSUME Shape, AliasInv, BufferInv, BlockInv, NEW s \in Stores, Live(s),
         store[s].addr # None
  PROVE  store[s].addr \in allocated
<1> DEFINE a == store[s].addr
<1>1. a \in Addrs /\ store[s].pin \in Bufs \cup {None}
  BY StoreFields
<1>2. CASE store[s].by # "alias"
  <2>1. s \in StoreOwners(a)
    BY <1>2 DEF StoreOwners
  <2> QED BY <1>1, <2>1 DEF BlockInv
<1>3. CASE store[s].by = "alias"
  <2>1. /\ store[s].pin \in Bufs /\ buf[store[s].pin] # None
        /\ buf[store[s].pin].addr = a
    BY <1>1, <1>3, NoneIsNothing DEF AliasInv
  <2> QED BY <2>1, AttachedAllocated
<1> QED BY <1>2, <1>3

LEMMA FreshAddress ==
  ASSUME Shape, AliasInv, BufferInv, BlockInv, RegistryInv,
         NEW a \in Addrs, a \notin allocated
  PROVE  /\ owners[a] = None
         /\ \A b \in Bufs : buf[b] # None => buf[b].addr # a
         /\ \A s \in Stores : Live(s) => store[s].addr # a
         /\ StoreOwners(a) = {} /\ BufferOwners(a) = {} /\ ListOwners(a) = {}
<1>1. a # None
  BY NoneIsNothing
<1>2. \A b \in Bufs : buf[b] # None => buf[b].addr # a
  BY <1>1, AttachedAllocated
<1>3. \A s \in Stores : Live(s) => store[s].addr # a
  BY <1>1, LiveAllocated
<1>4. owners[a] \in Stores \cup {None}
  BY DEF Shape
<1>5. owners[a] = None
  BY <1>3, <1>4 DEF RegistryInv
<1> QED BY <1>2, <1>3, <1>5 DEF BlockInv

(* A block gets its first owner, of one kind.                              *)
LEMMA BlockTaken ==
  ASSUME BlockInv, NEW a \in Addrs, a \notin allocated,
         allocated' = allocated \cup {a},
         \A x \in Addrs \ {a} : /\ StoreOwners(x)' = StoreOwners(x)
                                /\ BufferOwners(x)' = BufferOwners(x),
         pending' = pending,
         NEW o,
         \/ StoreOwners(a)' = {o} /\ BufferOwners(a)' = {}
         \/ StoreOwners(a)' = {} /\ BufferOwners(a)' = {o}
  PROVE  BlockInv'
<1>1. \A x \in Addrs : ListOwners(x)' = ListOwners(x)
  BY DEF ListOwners
<1>2. ListOwners(a) = {}
  BY DEF BlockInv
<1>3. \A x \in Addrs \ {a} : x \in allocated' <=> x \in allocated
  OBVIOUS
<1>4. a \in allocated'
  OBVIOUS
<1> SUFFICES ASSUME NEW x \in Addrs
             PROVE
    /\ x \in allocated' <=> \/ StoreOwners(x)' # {} \/ BufferOwners(x)' # {}
                            \/ ListOwners(x)' # {}
    /\ AtMostOne(StoreOwners(x)') /\ AtMostOne(BufferOwners(x)')
    /\ AtMostOne(ListOwners(x)')
    /\ StoreOwners(x)' = {} \/ BufferOwners(x)' = {}
    /\ StoreOwners(x)' = {} \/ ListOwners(x)' = {}
    /\ BufferOwners(x)' = {} \/ ListOwners(x)' = {}
  BY DEF BlockInv
<1>5. CASE x = a
  BY <1>1, <1>2, <1>4, <1>5 DEF AtMostOne
<1>6. CASE x # a
  BY <1>1, <1>3, <1>6 DEF BlockInv
<1> QED BY <1>5, <1>6

(* NewEngineBuffer.                                                        *)
LEMMA NewEngineBufferKeeps ==
  ASSUME StoresInv, NEW t \in Threads, NEW b \in Bufs, NEW a \in Addrs,
         NewEngineBuffer(t, b, a)
  PROVE  StoresInv'
<1> USE NoneIsNothing
<1> DEFINE r == [iso |-> t, addr |-> a, store |-> None]
<1>0. /\ Shape /\ CountInv
      /\ AliasInv /\ BufferInv /\ HomeInv
      /\ FoundInv /\ DestroyInv /\ ForgetInv /\ DetachInv /\ DisposeInv /\ PcInv
      /\ TodoInv /\ RegistryInv /\ BlockInv
  BY DEF StoresInv
<1>1. /\ iso[t] = "alive" /\ buf[b] = None /\ a \notin allocated
      /\ buf' = [buf EXCEPT ![b] = r]
      /\ held' = held \cup {b}
      /\ allocated' = allocated \cup {a}
      /\ UNCHANGED <<store, refs, aliases, owners, pending, iso, pc, todo>>
  BY DEF NewEngineBuffer, Runs, registries, isolates
<1>2. r \in Buffer /\ r # None /\ r.iso = t /\ r.addr = a /\ r.store = None
  BY DEF Buffer
<1> HIDE DEF r
<1>3. /\ buf' \in [Bufs -> Buffer \cup {None}]
      /\ buf'[b] = r
      /\ \A x \in Bufs \ {b} : buf'[x] = buf[x]
  BY <1>0, <1>1, <1>2 DEF Shape
<1>4. /\ owners[a] = None
      /\ StoreOwners(a) = {} /\ BufferOwners(a) = {}
  BY <1>0, <1>1, FreshAddress
<1>5. \A s \in Stores : Live(s) => store[s].pin # b
  BY <1>0, <1>1 DEF AliasInv
<1>6. Shape'
  BY <1>0, <1>1, <1>3 DEF Shape
<1>7. CountInv'
  <2>1. \A s \in Stores : Users(s)' = Users(s)
    BY <1>1, <1>2, <1>3, UsersSame
  <2> QED BY <1>0, <1>1, <2>1, CountKept DEF Live
<1>8. AliasInv'
  BY <1>0, <1>1, <1>3, <1>5, StoreFields DEF AliasInv, Live
<1>9. BufferInv'
  BY <1>0, <1>1, <1>2, <1>3, <1>4, BufferFields DEF BufferInv, Live
<1>10. HomeInv'
  BY <1>0, <1>1, <1>3 DEF HomeInv, Live, BufOf
<1>11. FoundInv' /\ DetachInv'
  BY <1>0, <1>1, <1>3 DEF FoundInv, DetachInv, BufOf, Live
<1>12. DestroyInv' /\ ForgetInv'
  BY <1>0, <1>1, <1>3 DEF DestroyInv, Forgets, ForgetInv, BufOf, Live
<1>13. DisposeInv' /\ PcInv' /\ TodoInv'
  BY <1>0, <1>1, <1>3, <1>5 DEF DisposeInv, PcInv, TodoInv, BufOf, Live
<1>14. RegistryInv'
  BY <1>0, <1>1 DEF RegistryInv, Live
<1>15. BlockInv'
  <2>1. \A x \in Addrs : StoreOwners(x)' = StoreOwners(x)
    BY <1>1 DEF StoreOwners, Live
  <2>2. \A x \in Addrs \ {a} : BufferOwners(x)' = BufferOwners(x)
    BY <1>1, <1>2, <1>3 DEF BufferOwners
  <2>3. BufferOwners(a)' = {b}
    BY <1>1, <1>2, <1>3, <1>4 DEF BufferOwners
  <2> QED BY <1>0, <1>1, <1>4, <2>1, <2>2, <2>3, BlockTaken
<1> QED BY <1>6, <1>7, <1>8, <1>9, <1>10, <1>11, <1>12, <1>13, <1>14, <1>15
        DEF StoresInv

(* NewStore.                                                               *)
LEMMA NewStoreKeeps ==
  ASSUME StoresInv, NEW t \in Threads, NEW s \in Stores, NEW a \in Addrs,
         NEW by \in {"malloc", "owned"}, NewStore(t, s, a, by)
  PROVE  StoresInv'
<1> USE NoneIsNothing
<1> DEFINE r == [addr |-> a, count |-> 1, by |-> by, iso |-> None, pin |-> None]
<1>0. /\ Shape /\ CountInv
      /\ AliasInv /\ BufferInv /\ HomeInv
      /\ FoundInv /\ DestroyInv /\ ForgetInv /\ DetachInv /\ DisposeInv /\ PcInv
      /\ TodoInv /\ RegistryInv /\ BlockInv
  BY DEF StoresInv
<1>1. /\ ~ Live(s) /\ a \notin allocated
      /\ store' = [store EXCEPT ![s] = r]
      /\ refs' = [refs EXCEPT ![t][s] = 1]
      /\ allocated' = allocated \cup {a}
      /\ UNCHANGED <<buf, held, aliases, owners, pending, iso, pc, todo>>
  BY DEF NewStore, registries, isolates
<1>2. /\ r \in Store /\ r.addr = a /\ r.count = 1 /\ r.by # "alias"
      /\ r.iso = None /\ r.pin = None
  BY DEF Store
<1> HIDE DEF r
<1>3. /\ store' \in [Stores -> Store \cup {None}]
      /\ Live(s)' /\ store'[s] = r
      /\ \A x \in Stores \ {s} : store'[x] = store[x]
  BY <1>0, <1>1, <1>2, BoxFilled
<1>4. /\ refs' \in [Threads -> [Stores -> Nat]]
      /\ refs[t][s] = 0 /\ refs'[t][s] = 1
      /\ \A v \in Threads \ {t} : refs'[v] = refs[v]
      /\ \A v \in Threads : \A x \in Stores \ {s} : refs'[v][x] = refs[v][x]
  <2>1. refs[t][s] = 0
    BY <1>0, <1>1, UsersCounted
  <2> QED BY <1>0, <1>1, <2>1 DEF Shape
<1>5. \A x \in Bufs : buf[x] # None => buf[x].store # s
  BY <1>0, <1>1 DEF BufferInv
<1>6. StoreOwners(a) = {} /\ BufferOwners(a) = {}
  BY <1>0, <1>1, FreshAddress
<1>7. \A u \in Threads : pc[u].op # "forget" => pc[u].store # s
  <2> SUFFICES ASSUME NEW u \in Threads, pc[u].op # "forget" PROVE pc[u].store # s
    OBVIOUS
  <2>1. pc[u].op \in {"idle", "found", "destroy", "detach", "dispose"}
    BY <1>0 DEF Shape
  <2> QED BY <1>0, <1>1, <1>5, <2>1 DEF FoundInv, DestroyInv, PcInv, BufOf
<1>8. Shape'
  BY <1>0, <1>1, <1>3, <1>4 DEF Shape
<1>9. CountInv'
  <2>1. OthersCounted(s)
    <3>1. \A x \in Stores \ {s} : Users(x)' = Users(x)
      BY <1>1, <1>4, UsersSame
    <3> QED BY <1>3, <3>1 DEF OthersCounted, Live
  <2>2. \E u : u \notin Users(s) /\ Users(s)' = Users(s) \cup {u}
    BY <1>1, <1>4, UsersRefAdded
  <2> QED BY <1>0, <1>1, <1>2, <1>3, <2>1, <2>2, CountUp
<1>10. AliasInv'
  BY <1>0, <1>1, <1>2, <1>3, <1>4 DEF AliasInv, Live
<1>11. BufferInv'
  BY <1>0, <1>1, <1>3, <1>5, BufferFields DEF BufferInv, Live
<1>12. HomeInv'
  BY <1>0, <1>1, <1>2, <1>3 DEF HomeInv, Live, BufOf
<1>13. FoundInv' /\ DetachInv'
  BY <1>0, <1>1, <1>2, <1>3 DEF FoundInv, DetachInv, BufOf, Live
<1>14. DestroyInv' /\ ForgetInv'
  <2>1. \A u \in Threads : pc[u].store \in Stores \cup {None}
    BY <1>0 DEF Shape
  <2> QED BY <1>0, <1>1, <1>3, <1>7, <2>1
          DEF DestroyInv, Forgets, ForgetInv, BufOf, Live
<1>15. DisposeInv' /\ PcInv'
  BY <1>0, <1>1, <1>2, <1>3 DEF DisposeInv, PcInv, BufOf, Live
<1>16. TodoInv'
  BY <1>0, <1>1, <1>3 DEF TodoInv, BufOf, Live, Shape
<1>17. RegistryInv'
  BY <1>0, <1>1, <1>2, <1>3 DEF RegistryInv, Live, Shape
<1>18. BlockInv'
  <2>1. \A x \in Addrs : BufferOwners(x)' = BufferOwners(x)
    BY <1>1 DEF BufferOwners
  <2>2. \A x \in Addrs \ {a} : StoreOwners(x)' = StoreOwners(x)
    BY <1>1, <1>2, <1>3 DEF StoreOwners, Live
  <2>3. StoreOwners(a)' = {s}
    BY <1>1, <1>2, <1>3, <1>6 DEF StoreOwners, Live
  <2> QED BY <1>0, <1>1, <1>6, <2>1, <2>2, <2>3, BlockTaken
<1> QED BY <1>8, <1>9, <1>10, <1>11, <1>12, <1>13, <1>14, <1>15, <1>16, <1>17,
        <1>18 DEF StoresInv

(* NewBuffer.                                                              *)
LEMMA NewBufferKeeps ==
  ASSUME StoresInv, NEW t \in Threads, NEW b \in Bufs, NEW s \in Stores,
         NEW a \in Addrs \cup {None}, NewBuffer(t, b, s, a)
  PROVE  StoresInv'
<1> USE NoneIsNothing
<1> DEFINE blocks == IF CollectsFirst(t) THEN pending[t] ELSE {}
           by == IF t \in RustIsolates THEN "allocator" ELSE "malloc"
           q == [addr |-> a, count |-> 1, by |-> by, iso |-> HomeOf(t), pin |-> None]
           r == [iso |-> t, addr |-> a, store |-> s]
<1>0. /\ Shape /\ CountInv
      /\ AliasInv /\ BufferInv /\ HomeInv
      /\ FoundInv /\ DestroyInv /\ ForgetInv /\ DetachInv /\ DisposeInv /\ PcInv
      /\ TodoInv /\ RegistryInv /\ BlockInv
  BY DEF StoresInv
<1>1. /\ iso[t] = "alive" /\ buf[b] = None /\ ~ Live(s)
      /\ a # None => a \notin allocated
      /\ store' = [store EXCEPT ![s] = q]
      /\ buf' = [buf EXCEPT ![b] = r]
      /\ held' = held \cup {b}
      /\ allocated' = (allocated \ blocks) \cup ({a} \ {None})
      /\ owners' = Put(owners, a, s)
      /\ pending' = [pending EXCEPT ![t] = pending[t] \ blocks]
      /\ UNCHANGED <<refs, aliases, iso, pc, todo>>
  BY <1>0 DEF NewBuffer, Runs, Shape
<1>2. /\ q \in Store /\ q.addr = a /\ q.count = 1 /\ q.by # "alias"
      /\ q.iso \in {None, t} /\ q.pin = None
  BY DEF Store, HomeOf
<1>3. r \in Buffer /\ r # None /\ r.iso = t /\ r.addr = a /\ r.store = s
  BY DEF Buffer
<1>4. blocks = {} \/ blocks = pending[t]
  OBVIOUS
<1> HIDE DEF q, r, blocks
<1>5. /\ store' \in [Stores -> Store \cup {None}]
      /\ Live(s)' /\ store'[s] = q
      /\ \A x \in Stores \ {s} : store'[x] = store[x]
  BY <1>0, <1>1, <1>2, BoxFilled
<1>6. /\ buf' \in [Bufs -> Buffer \cup {None}]
      /\ buf'[b] = r
      /\ \A x \in Bufs \ {b} : buf'[x] = buf[x]
  BY <1>0, <1>1, <1>3 DEF Shape
<1>7. /\ owners' \in [Addrs -> Stores \cup {None}]
      /\ a # None => owners'[a] = s
      /\ \A x \in Addrs : x # a => owners'[x] = owners[x]
  BY <1>0, <1>1 DEF Shape, Put
<1>8. /\ pending' \in [Threads -> SUBSET Addrs]
      /\ pending'[t] = pending[t] \ blocks
      /\ \A u \in Threads \ {t} : pending'[u] = pending[u]
  <2>1. pending \in [Threads -> SUBSET Addrs] /\ pending[t] \ blocks \in SUBSET Addrs
    BY <1>0 DEF Shape
  <2> QED BY <1>1, <2>1
<1>9. ASSUME a # None
      PROVE  /\ a \in Addrs /\ owners[a] = None
             /\ \A x \in Bufs : buf[x] # None => buf[x].addr # a
             /\ \A x \in Stores : Live(x) => store[x].addr # a
             /\ StoreOwners(a) = {} /\ BufferOwners(a) = {} /\ ListOwners(a) = {}
  BY <1>0, <1>1, <1>9, FreshAddress
<1>10. /\ \A x \in Stores : Live(x) => store[x].pin # b
       /\ \A x \in Bufs : buf[x] # None => buf[x].store # s
  BY <1>0, <1>1 DEF AliasInv, BufferInv
<1>11. \A u \in Threads : /\ pc[u].op # "forget" => pc[u].store # s
                           /\ pc[u].buf # b
  <2> SUFFICES ASSUME NEW u \in Threads
               PROVE  (pc[u].op # "forget" => pc[u].store # s) /\ pc[u].buf # b
    OBVIOUS
  <2>1. pc[u].op \in {"idle", "found", "destroy", "forget", "detach", "dispose"}
    BY <1>0 DEF Shape
  <2>2. pc[u].op # "forget" => pc[u].store # s
    BY <1>0, <1>1, <1>10, <2>1 DEF FoundInv, DestroyInv, PcInv, BufOf
  <2>3. pc[u].buf # b
    BY <1>0, <1>1, <2>1 DEF FoundInv, DetachInv, PcInv, BufOf
  <2> QED BY <2>2, <2>3
<1>12. Shape'
  <2>1. allocated' \subseteq Addrs /\ held' \subseteq Bufs
    BY <1>0, <1>1 DEF Shape
  <2>2. UNCHANGED <<refs, aliases, iso, pc, todo>>
    BY <1>1
  <2> QED BY <1>0, <1>5, <1>6, <1>7, <1>8, <2>1, <2>2 DEF Shape
<1>13. CountInv'
  <2>1. OthersCounted(s)
    <3>1. \A x \in Stores \ {s} : Users(x)' = Users(x)
      BY <1>1, <1>3, <1>6, UsersSame
    <3> QED BY <1>5, <3>1 DEF OthersCounted, Live
  <2>2. \E u : u \notin Users(s) /\ Users(s)' = Users(s) \cup {u}
    BY <1>1, <1>3, <1>6, UsersBufferAdded
  <2> QED BY <1>0, <1>1, <1>2, <1>5, <2>1, <2>2, CountUp
<1>14. AliasInv'
  BY <1>0, <1>1, <1>2, <1>5, <1>6, <1>10, StoreFields DEF AliasInv, Live
<1>15. BufferInv'
  <2> SUFFICES ASSUME NEW x \in Bufs, buf'[x] # None
               PROVE
      /\ iso'[buf'[x].iso] # "disposed"
      /\ buf'[x].store # None =>
           /\ store'[buf'[x].store] # None
           /\ store'[buf'[x].store].by # "alias"
           /\ store'[buf'[x].store].addr = buf'[x].addr
      /\ buf'[x].addr # None => owners'[buf'[x].addr] = buf'[x].store
    BY DEF BufferInv, Live
  <2>1. CASE x = b
    BY <1>1, <1>2, <1>3, <1>5, <1>6, <1>7, <2>1 DEF Live
  <2>2. CASE x # b
    <3>1. buf'[x] = buf[x]
      BY <1>6, <2>2
    <3>2. buf[x].addr \in Addrs \cup {None} /\ buf[x].store \in Stores \cup {None}
      BY <1>0, <3>1, BufferFields
    <3>3. /\ iso[buf[x].iso] # "disposed"
          /\ buf[x].store # None =>
               /\ store[buf[x].store] # None
               /\ store[buf[x].store].by # "alias"
               /\ store[buf[x].store].addr = buf[x].addr
          /\ buf[x].addr # None => owners[buf[x].addr] = buf[x].store
      BY <1>0, <3>1 DEF BufferInv, Live
    <3>4. buf[x].store # s
      BY <1>10, <3>1
    <3>5. buf[x].addr # None => buf[x].addr # a
      BY <1>9, <3>1
    <3> QED BY <1>1, <1>5, <1>7, <3>1, <3>2, <3>3, <3>4, <3>5
  <2> QED BY <2>1, <2>2
<1>16. HomeInv'
  BY <1>0, <1>1, <1>2, <1>3, <1>5, <1>6 DEF HomeInv, Live, BufOf
<1>17. FoundInv' /\ DetachInv'
  BY <1>0, <1>1, <1>2, <1>5, <1>6, <1>11 DEF FoundInv, DetachInv, BufOf, Live
<1>18. DestroyInv' /\ ForgetInv'
  <2>1. \A u \in Threads : pc[u].store \in Stores \cup {None}
    BY <1>0 DEF Shape
  <2> QED BY <1>0, <1>1, <1>5, <1>6, <1>10, <1>11, <2>1
          DEF DestroyInv, Forgets, ForgetInv, BufOf, Live
<1>19. DisposeInv' /\ PcInv'
  BY <1>0, <1>1, <1>2, <1>5, <1>6, <1>10 DEF DisposeInv, PcInv, BufOf, Live
<1>20. TodoInv'
  BY <1>0, <1>1, <1>5, <1>6, <1>10 DEF TodoInv, BufOf, Live, Shape
<1>21. RegistryInv'
  BY <1>0, <1>1, <1>2, <1>5, <1>7, <1>9 DEF RegistryInv, Live, Shape
<1>22. BlockInv'
  <2>1. ASSUME NEW x \in Addrs
        PROVE  /\ x # a => /\ StoreOwners(x)' = StoreOwners(x)
                           /\ BufferOwners(x)' = BufferOwners(x)
               /\ ListOwners(x)' = IF x \in blocks THEN ListOwners(x) \ {t}
                                                   ELSE ListOwners(x)
    <3>1. ASSUME x # a
          PROVE  StoreOwners(x)' = StoreOwners(x) /\ BufferOwners(x)' = BufferOwners(x)
      BY <1>1, <1>2, <1>3, <1>5, <1>6, <3>1 DEF StoreOwners, BufferOwners, Live
    <3>2. ListOwners(x)' = IF x \in blocks THEN ListOwners(x) \ {t}
                                           ELSE ListOwners(x)
      BY <1>8 DEF ListOwners
    <3> QED BY <3>1, <3>2
  <2>2. ASSUME a # None
        PROVE  StoreOwners(a)' = {s} /\ BufferOwners(a)' = {}
    BY <1>1, <1>2, <1>3, <1>5, <1>6, <1>9, <2>2 DEF StoreOwners, BufferOwners, Live
  <2>3. \A x \in Addrs : t \in ListOwners(x) <=> x \in pending[t]
    BY DEF ListOwners
  <2> SUFFICES ASSUME NEW x \in Addrs
               PROVE
      /\ x \in allocated' <=> \/ StoreOwners(x)' # {} \/ BufferOwners(x)' # {}
                              \/ ListOwners(x)' # {}
      /\ AtMostOne(StoreOwners(x)') /\ AtMostOne(BufferOwners(x)')
      /\ AtMostOne(ListOwners(x)')
      /\ StoreOwners(x)' = {} \/ BufferOwners(x)' = {}
      /\ StoreOwners(x)' = {} \/ ListOwners(x)' = {}
      /\ BufferOwners(x)' = {} \/ ListOwners(x)' = {}
    BY DEF BlockInv
  <2>4. /\ x \in allocated <=> \/ StoreOwners(x) # {} \/ BufferOwners(x) # {}
                               \/ ListOwners(x) # {}
        /\ AtMostOne(StoreOwners(x)) /\ AtMostOne(BufferOwners(x))
        /\ AtMostOne(ListOwners(x))
        /\ StoreOwners(x) = {} \/ BufferOwners(x) = {}
        /\ StoreOwners(x) = {} \/ ListOwners(x) = {}
        /\ BufferOwners(x) = {} \/ ListOwners(x) = {}
    BY <1>0 DEF BlockInv
  <2>5. CASE x = a
    <3>1. a # None
      BY <2>5
    <3>2. x \in allocated'
      BY <1>1, <2>5, <3>1
    <3>3. ListOwners(x)' = {}
      BY <1>9, <2>1, <2>5, <3>1
    <3>4. StoreOwners(x)' = {s} /\ BufferOwners(x)' = {}
      BY <2>2, <2>5, <3>1
    <3> QED BY <3>2, <3>3, <3>4 DEF AtMostOne
  <2>6. CASE x # a /\ x \in blocks
    <3>1. ListOwners(x) = {t}
      BY <1>4, <2>3, <2>4, <2>6 DEF AtMostOne
    <3>2. ListOwners(x)' = {}
      BY <2>1, <2>6, <3>1
    <3>3. x \notin allocated'
      BY <1>1, <2>6
    <3> QED BY <2>1, <2>4, <2>6, <3>1, <3>2, <3>3 DEF AtMostOne
  <2>7. CASE x # a /\ x \notin blocks
    <3>1. ListOwners(x)' = ListOwners(x)
      BY <2>1, <2>7
    <3>2. x \in allocated' <=> x \in allocated
      BY <1>1, <2>7
    <3> QED BY <2>1, <2>4, <2>7, <3>1, <3>2
  <2> QED BY <2>5, <2>6, <2>7
<1> QED BY <1>12, <1>13, <1>14, <1>15, <1>16, <1>17, <1>18, <1>19, <1>20, <1>21,
        <1>22 DEF StoresInv

-----------------------------------------------------------------------------
(* The registries find what they found.                                    *)
LEMMA RegistryKept ==
  ASSUME Shape, RegistryInv, StoresKept, UNCHANGED <<aliases, owners, todo>>
  PROVE  RegistryInv'
<1>1. \A x \in Stores :
        /\ store'[x] # None <=> store[x] # None
        /\ store[x] # None => store'[x].addr = store[x].addr
                             /\ store'[x].by = store[x].by
  BY DEF StoresKept, Live
<1>2. /\ \A a \in Addrs : owners[a] \in Stores \cup {None}
      /\ \A a \in Addrs : \A s \in aliases[a] : s \in Stores
  BY DEF Shape
<1> QED BY <1>1, <1>2 DEF RegistryInv, Live

(* DropRef.                                                                *)
LEMMA DropRefKeeps ==
  ASSUME StoresInv, Uses = {}, NEW t \in Threads, NEW s \in Stores, DropRef(t, s)
  PROVE  StoresInv'
<1> USE NoneIsNothing
<1> DEFINE r == IF store[s].count = 1 THEN Step("destroy", s, None) ELSE Idle
<1>0. /\ Shape /\ CountInv
      /\ AliasInv /\ BufferInv /\ HomeInv
      /\ FoundInv /\ DestroyInv /\ ForgetInv /\ DetachInv /\ DisposeInv /\ PcInv
      /\ TodoInv /\ RegistryInv /\ BlockInv
  BY DEF StoresInv
<1>1. /\ pc[t].op = "idle" /\ pc[t].store = None
      /\ refs[t][s] \in Nat \ {0}
      /\ store' = [store EXCEPT ![s].count = store[s].count - 1]
      /\ refs' = [refs EXCEPT ![t][s] = refs[t][s] - 1]
      /\ Enter(t, r)
      /\ UNCHANGED <<buf, held, allocated, aliases, owners, pending, iso, todo>>
  BY <1>0, IdleFields DEF DropRef, registries, isolates, Shape
<1>3. Live(s) /\ store[s].count \in Nat \ {0}
  BY <1>0, <1>1, UsersCounted, StoreFields
<1>4. /\ r \in [op : {"idle", "found", "destroy", "forget", "detach", "dispose"},
                store : Stores \cup {None}, buf : Bufs \cup {None}]
      /\ r.buf = None
      /\ store[s].count = 1 => r.op = "destroy" /\ r.store = s
      /\ store[s].count # 1 => r.op = "idle" /\ r.store = None
  BY StepFields, IdleFields
<1> HIDE DEF r
<1>5. /\ store' \in [Stores -> Store \cup {None}]
      /\ StoresKept
      /\ Live(s)' /\ store'[s].count = store[s].count - 1
      /\ \A x \in Stores \ {s} : store'[x] = store[x]
  <2>1. store[s].count - 1 \in Nat
    BY <1>3
  <2> QED BY <1>0, <1>1, <1>3, <2>1, Recounted
<1>6. /\ refs' \in [Threads -> [Stores -> Nat]]
      /\ refs'[t][s] = refs[t][s] - 1
      /\ \A v \in Threads \ {t} : refs'[v] = refs[v]
      /\ \A v \in Threads : \A x \in Stores \ {s} : refs'[v][x] = refs[v][x]
  <2>1. refs \in [Threads -> [Stores -> Nat]]
    BY <1>0 DEF Shape
  <2>2. refs[t][s] - 1 \in Nat
    BY <1>1
  <2> QED BY <1>1, <2>1, <2>2
<1>7. /\ pc' \in [Threads ->
           [op : {"idle", "found", "destroy", "forget", "detach", "dispose"},
            store : Stores \cup {None}, buf : Bufs \cup {None}]]
      /\ pc'[t] = r
      /\ \A u \in Threads \ {t} : pc'[u] = pc[u]
  BY <1>0, <1>1, <1>4, Entered
<1>8. \A u \in Threads : pc[u].store \in Stores \cup {None}
  BY <1>0 DEF Shape
<1>9. store[s].count = 1
        => /\ store[s].iso = None \/ Forgets(store[s].iso, s)
           /\ store[s].pin # None => BufOf(t, store[s].pin)
  <2> SUFFICES ASSUME store[s].count = 1
               PROVE  /\ store[s].iso = None \/ Forgets(store[s].iso, s)
                      /\ store[s].pin # None => BufOf(t, store[s].pin)
    OBVIOUS
  <2>1. \A b \in Bufs : ~ (buf[b] # None /\ buf[b].store = s)
    BY <1>0, <1>1, <1>3, LastRef
  <2>2. store[s].iso \in Threads \cup {None} /\ store[s].pin \in Bufs \cup {None}
    BY <1>0, <1>3, StoreFields
  <2>3. store[s].iso = None \/ Forgets(store[s].iso, s)
    BY <1>0, <1>3, <2>1, <2>2 DEF HomeInv, DestroyInv, BufOf, Forgets
  <2>4. ASSUME store[s].pin # None PROVE BufOf(t, store[s].pin)
    BY <1>0, <1>1, <1>3, <2>2, <2>4 DEF AliasInv, BufOf
  <2> QED BY <2>3, <2>4
<1>10. Shape'
  <2>1. UNCHANGED <<buf, held, allocated, aliases, owners, pending, iso, todo>>
    BY <1>1
  <2> QED BY <1>0, <1>5, <1>6, <1>7, <2>1 DEF Shape
<1>11. CountInv'
  <2>1. OthersCounted(s)
    <3>1. \A x \in Stores \ {s} : Users(x)' = Users(x)
      BY <1>1, <1>6, UsersSame
    <3> QED BY <1>5, <3>1 DEF OthersCounted, Live
  <2>2. \E u \in Users(s) : Users(s)' = Users(s) \ {u}
    BY <1>1, <1>6, UsersRefRemoved
  <2> QED BY <1>0, <1>3, <1>5, <2>1, <2>2, CountDown
<1>12. AliasInv'
  BY <1>0, <1>1, <1>3, <1>5, <1>6 DEF AliasInv, StoresKept, Live
<1>13. BufferInv' /\ RegistryInv'
  <2>1. UNCHANGED <<buf, aliases, owners, iso, todo>>
    BY <1>1
  <2>2. BufferInv'
    BY <1>0, <1>5, <2>1, BufferFields DEF BufferInv, StoresKept
  <2>3. RegistryInv'
    BY <1>0, <1>5, <2>1, RegistryKept
  <2> QED BY <2>2, <2>3
<1>14. HomeInv'
  BY <1>0, <1>1, <1>5, <1>7, StoreFields DEF HomeInv, StoresKept, Live, BufOf
<1>15. FoundInv' /\ DetachInv' /\ PcInv'
  BY <1>0, <1>1, <1>4, <1>5, <1>7
     DEF FoundInv, DetachInv, PcInv, StoresKept, Live, BufOf
<1>16. DestroyInv'
  <2>a. \A h, x : Forgets(h, x) => Forgets(h, x)'
    BY <1>1, <1>7, IdleFields DEF Forgets
  <2>b. \A x \in Stores : store'[x] # None =>
          /\ store[x] # None
          /\ store'[x].iso = store[x].iso /\ store'[x].pin = store[x].pin
    BY <1>5 DEF StoresKept, Live
  <2>c. UNCHANGED buf /\ \A u \in Threads : pc'[u].store \in Stores \cup {None}
    BY <1>1, <1>7
  <2> SUFFICES ASSUME NEW v \in Threads, pc'[v].op = "destroy"
               PROVE
      /\ pc'[v].store # None /\ store'[pc'[v].store] # None
      /\ store'[pc'[v].store].count = 0
      /\ \/ store'[pc'[v].store].iso \in {None, v}
         \/ Forgets(store[pc'[v].store].iso, pc'[v].store)
      /\ store'[pc'[v].store].pin # None => BufOf(v, store[pc'[v].store].pin)
      /\ \A u \in Threads :
           pc'[u].op = "destroy" /\ pc'[u].store = pc'[v].store => u = v
    BY <2>a, <2>b, <2>c DEF DestroyInv, Live, BufOf, Forgets
  <2>1. \A u \in Threads : pc[u].op = "destroy" => pc[u].store # s
    BY <1>0, <1>3 DEF DestroyInv
  <2>2. CASE v = t
    <3>1. store[s].count = 1 /\ pc'[t].store = s
      BY <1>4, <1>7, <2>2
    <3> QED BY <1>3, <1>5, <1>7, <1>9, <2>1, <2>2, <3>1 DEF StoresKept, Live
  <2>3. CASE v # t
    <3>1. pc'[v] = pc[v] /\ pc[v].store # s
      BY <1>7, <2>1, <2>3
    <3>2. \A u \in Threads : pc'[u].op = "destroy" /\ pc'[u].store = pc[v].store
                               => u # t
      BY <1>4, <1>7, <3>1
    <3> QED BY <1>0, <1>5, <1>7, <1>8, <3>1, <3>2 DEF DestroyInv, Live
  <2> QED BY <2>2, <2>3
<1>17. ForgetInv'
  <2>1. \A u \in Threads : pc'[u].op = "forget" => pc'[u] = pc[u]
    BY <1>4, <1>7
  <2> QED BY <1>0, <2>1 DEF ForgetInv
<1>18. DisposeInv' /\ TodoInv'
  <2>1. DisposeInv'
    BY <1>0, <1>1, <1>4, <1>5, <1>7 DEF DisposeInv, StoresKept, Live, BufOf
  <2>2. todo[t] = {}
    BY <1>0, <1>1 DEF TodoInv
  <2>3. TodoInv'
    BY <1>0, <1>1, <1>5, <1>7, <2>2 DEF TodoInv, StoresKept, Live, BufOf, Shape
  <2> QED BY <2>1, <2>3
<1>19. BlockInv'
  <2>1. \A a \in Addrs : StoreOwners(a)' = StoreOwners(a)
    BY <1>5 DEF StoreOwners, StoresKept
  <2> QED BY <1>0, <1>1, <2>1 DEF BlockInv, BufferOwners, ListOwners
<1> QED BY <1>10, <1>11, <1>12, <1>13, <1>14, <1>15, <1>16, <1>17, <1>18, <1>19
        DEF StoresInv

(* ForgetIsolate, of the store that was given back.                        *)
ForgetIsolateOf(t, s) ==
  /\ pc[t].op = "forget" /\ pc[t].store = s
  /\ store' = [store EXCEPT ![s].iso = None]
  /\ Enter(t, Idle)
  /\ UNCHANGED <<buf, held, refs, allocated, aliases, owners, pending, iso, todo>>

LEMMA ForgetIsolateOfKeeps ==
  ASSUME StoresInv, NEW t \in Threads, NEW s \in Stores, Live(s),
         ForgetIsolateOf(t, s)
  PROVE  StoresInv'
<1> USE NoneIsNothing
<1>0. /\ Shape /\ CountInv
      /\ AliasInv /\ BufferInv /\ HomeInv
      /\ FoundInv /\ DestroyInv /\ ForgetInv /\ DetachInv /\ DisposeInv /\ PcInv
      /\ TodoInv /\ RegistryInv /\ BlockInv
  BY DEF StoresInv
<1>1. /\ store' = [store EXCEPT ![s].iso = None]
      /\ UNCHANGED <<buf, held, refs, allocated, aliases, owners, pending, iso, todo>>
  BY DEF ForgetIsolateOf
<1>2. Live(s)
  OBVIOUS
<1>3. /\ store' \in [Stores -> Store \cup {None}]
      /\ Live(s)' /\ store'[s].iso = None
      /\ store'[s].addr = store[s].addr /\ store'[s].count = store[s].count
      /\ store'[s].by = store[s].by /\ store'[s].pin = store[s].pin
      /\ \A x \in Stores \ {s} : store'[x] = store[x]
  <2>1. store[s] \in Store
    BY <1>0, <1>2, StoreFields
  <2>2. store'[s] = [store[s] EXCEPT !.iso = None]
    BY <1>0, <1>1 DEF Shape
  <2>3. \A x \in Stores \ {s} : store'[x] = store[x]
    BY <1>0, <1>1 DEF Shape
  <2>4. /\ [store[s] EXCEPT !.iso = None] \in Store
        /\ [store[s] EXCEPT !.iso = None].iso = None
        /\ [store[s] EXCEPT !.iso = None].addr = store[s].addr
        /\ [store[s] EXCEPT !.iso = None].count = store[s].count
        /\ [store[s] EXCEPT !.iso = None].by = store[s].by
        /\ [store[s] EXCEPT !.iso = None].pin = store[s].pin
    BY <2>1 DEF Store
  <2>5. store' \in [Stores -> Store \cup {None}]
    BY <1>0, <1>1, <2>2, <2>4 DEF Shape
  <2> QED BY <2>2, <2>3, <2>4, <2>5 DEF Live
<1>4. /\ \A x \in Stores : Live(x)' <=> Live(x)
      /\ \A x \in Stores : Live(x) => /\ store'[x].addr = store[x].addr
                                      /\ store'[x].count = store[x].count
                                      /\ store'[x].by = store[x].by
                                      /\ store'[x].pin = store[x].pin
                                      /\ store'[x].iso \in {None, store[x].iso}
  BY <1>2, <1>3 DEF Live
<1>5. /\ pc' \in [Threads ->
           [op : {"idle", "found", "destroy", "forget", "detach", "dispose"},
            store : Stores \cup {None}, buf : Bufs \cup {None}]]
      /\ pc'[t] = Idle
      /\ \A u \in Threads \ {t} : pc'[u] = pc[u]
  BY <1>0, IdleFields, Entered DEF ForgetIsolateOf
<1>6. /\ pc'[t].op = "idle" /\ pc'[t].store = None /\ pc'[t].buf = None
      /\ \A u \in Threads : pc[u].store \in Stores \cup {None}
      /\ \A u \in Threads : pc'[u].op # "idle" => pc'[u] = pc[u]
  BY <1>0, <1>5, IdleFields DEF Shape
<1>7. Shape'
  BY <1>0, <1>1, <1>3, <1>5 DEF Shape
<1>8. CountInv'
  <2>1. \A x \in Stores : Users(x)' = Users(x)
    BY <1>1, UsersSame
  <2> QED BY <1>0, <1>4, <2>1, CountKept
<1>9. AliasInv'
  BY <1>0, <1>1, <1>3, <1>4 DEF AliasInv, Live
<1>10. BufferInv' /\ RegistryInv'
  BY <1>0, <1>1, <1>4, BufferFields DEF BufferInv, RegistryInv, Shape
<1>11. HomeInv'
  <2>1. \A x \in Stores : Live(x) /\ store'[x].iso # None
                            => x # s /\ store'[x].iso = store[x].iso
    BY <1>3
  <2>2. pc[t].store = s
    BY DEF ForgetIsolateOf
  <2> QED BY <1>0, <1>1, <1>4, <1>5, <2>1, <2>2, StoreFields DEF HomeInv, BufOf
<1>12. FoundInv'
  BY <1>0, <1>1, <1>6 DEF FoundInv, BufOf
<1>13. DestroyInv'
  <2>1. \A v \in Threads : pc'[v].op = "destroy" => pc'[v] = pc[v]
    BY <1>6
  <2>2. ASSUME NEW v \in Threads, pc'[v].op = "destroy",
               store'[pc[v].store].iso \notin {None, v}
        PROVE  /\ store'[pc[v].store].iso \in Threads
               /\ pc'[store'[pc[v].store].iso].op = "forget"
               /\ pc'[store'[pc[v].store].iso].store = pc[v].store
    <3>1. /\ pc[v].op = "destroy" /\ pc[v].store \in Stores /\ Live(pc[v].store)
      BY <1>0, <1>6, <2>1, <2>2 DEF DestroyInv
    <3>2. pc[v].store # s /\ store'[pc[v].store] = store[pc[v].store]
      BY <1>3, <2>2, <3>1
    <3>3. Forgets(store[pc[v].store].iso, pc[v].store)
      BY <1>0, <2>2, <3>1, <3>2 DEF DestroyInv
    <3>4. store[pc[v].store].iso # t
      BY <3>2, <3>3 DEF Forgets, ForgetIsolateOf
    <3> QED BY <1>5, <3>2, <3>3, <3>4 DEF Forgets
  <2>3. \A v \in Threads : pc[v].op = "destroy" =>
          /\ pc[v].store \in Stores /\ store'[pc[v].store] # None
          /\ store'[pc[v].store].count = store[pc[v].store].count
          /\ store'[pc[v].store].pin = store[pc[v].store].pin
    BY <1>0, <1>4, <1>6 DEF DestroyInv, Live
  <2>4. UNCHANGED buf
    BY <1>1
  <2> QED BY <1>0, <2>1, <2>2, <2>3, <2>4 DEF DestroyInv, Forgets, BufOf, Live
<1>14. ForgetInv'
  BY <1>0, <1>6 DEF ForgetInv
<1>15. DetachInv' /\ PcInv'
  BY <1>0, <1>1, <1>4, <1>5, <1>6 DEF DetachInv, PcInv, BufOf
<1>16. DisposeInv'
  <2>1. pc[t].op = "forget"
    BY DEF ForgetIsolateOf
  <2>2. \A u \in Threads : pc'[u].op = "dispose" <=> pc[u].op = "dispose"
    BY <1>5, <1>6, <2>1
  <2>3. UNCHANGED <<buf, iso, todo>>
    BY <1>1
  <2> QED BY <1>0, <1>4, <2>2, <2>3 DEF DisposeInv, BufOf
<1>17. TodoInv'
  <2>1. todo[t] = {}
    BY <1>0 DEF TodoInv, ForgetIsolateOf
  <2>2. \A u \in Threads : \A x \in todo[u] : x \in Stores /\ u # t
    BY <1>0, <2>1 DEF Shape
  <2>3. UNCHANGED <<buf, aliases, todo>>
    BY <1>1
  <2> QED BY <1>0, <1>4, <1>5, <2>2, <2>3 DEF TodoInv, BufOf, Live
<1>18. BlockInv'
  <2>1. \A a \in Addrs : StoreOwners(a)' = StoreOwners(a)
    BY <1>4 DEF StoreOwners
  <2> QED BY <1>0, <1>1, <2>1 DEF BlockInv, BufferOwners, ListOwners
<1> QED BY <1>7, <1>8, <1>9, <1>10, <1>11, <1>12, <1>13, <1>14, <1>15, <1>16,
        <1>17, <1>18 DEF StoresInv

(* ForgetIsolate, of a store that is gone.                                 *)
WritesNowhere(t) ==
  /\ pc[t].op = "forget" /\ ~ Live(pc[t].store)
  /\ Enter(t, Idle)
  /\ UNCHANGED <<store, buf, held, refs, allocated, aliases, owners, pending, iso, todo>>

LEMMA WritesNowhereKeeps ==
  ASSUME StoresInv, NEW t \in Threads, WritesNowhere(t)
  PROVE  StoresInv'
<1> USE NoneIsNothing
<1>0. /\ Shape /\ CountInv
      /\ AliasInv /\ BufferInv /\ HomeInv
      /\ FoundInv /\ DestroyInv /\ ForgetInv /\ DetachInv /\ DisposeInv /\ PcInv
      /\ TodoInv /\ RegistryInv /\ BlockInv
  BY DEF StoresInv
<1>1. UNCHANGED <<store, buf, held, refs, allocated, aliases, owners, pending, iso, todo>>
  BY DEF WritesNowhere
<1>2. /\ pc' \in [Threads ->
           [op : {"idle", "found", "destroy", "forget", "detach", "dispose"},
            store : Stores \cup {None}, buf : Bufs \cup {None}]]
      /\ pc'[t] = Idle
      /\ \A u \in Threads \ {t} : pc'[u] = pc[u]
  BY <1>0, IdleFields, Entered DEF WritesNowhere
<1>3. /\ pc[t].op = "forget" /\ ~ Live(pc[t].store)
      /\ pc'[t].op = "idle" /\ pc'[t].store = None /\ pc'[t].buf = None
      /\ \A u \in Threads : pc'[u].op # "idle" => pc'[u] = pc[u] /\ u # t
      /\ \A u \in Threads : pc[u].store \in Stores \cup {None}
  BY <1>0, <1>2, IdleFields DEF WritesNowhere, Shape
<1>4. \A x \in Stores : Live(x)' <=> Live(x)
  BY <1>1 DEF Live
<1>5. Shape'
  BY <1>0, <1>1, <1>2 DEF Shape
<1>6. CountInv'
  <2>1. \A x \in Stores : Users(x)' = Users(x)
    BY <1>1, UsersSame
  <2> QED BY <1>0, <1>1, <1>4, <2>1 DEF CountInv
<1>7. AliasInv' /\ BufferInv' /\ RegistryInv'
  BY <1>0, <1>1 DEF AliasInv, BufferInv, RegistryInv, Live
<1>8. HomeInv'
  <2>1. \A x \in Stores : Live(x) /\ store[x].iso # None =>
          ~ (store[x].iso = t /\ pc[t].store = x)
    BY <1>3
  <2>2. \A x \in Stores : Live(x) => store[x].iso \in Threads \cup {None}
    BY <1>0, StoreFields
  <2> QED BY <1>0, <1>1, <1>2, <2>1, <2>2 DEF HomeInv, BufOf, Live
<1>9. FoundInv' /\ ForgetInv'
  BY <1>0, <1>1, <1>3 DEF FoundInv, ForgetInv, BufOf
<1>10. DestroyInv'
  <2>1. \A v \in Threads : pc[v].op = "destroy"
          => /\ pc[v].store \in Stores /\ Live(pc[v].store)
             /\ store[pc[v].store].iso \in Threads \cup {None}
    BY <1>0, <1>3, StoreFields DEF DestroyInv
  <2>2. \A v \in Threads : pc[v].op = "destroy" => pc[v].store # pc[t].store
    BY <1>3, <2>1
  <2>3. ASSUME NEW v \in Threads, pc[v].op = "destroy",
               Forgets(store[pc[v].store].iso, pc[v].store),
               store[pc[v].store].iso # None
        PROVE  pc'[store[pc[v].store].iso] = pc[store[pc[v].store].iso]
    BY <1>2, <2>1, <2>2, <2>3 DEF Forgets
  <2> QED BY <1>0, <1>1, <1>3, <2>1, <2>3 DEF DestroyInv, BufOf, Live, Forgets
<1>11. DetachInv' /\ PcInv' /\ DisposeInv'
  <2>1. DetachInv'
    BY <1>0, <1>1, <1>3 DEF DetachInv, BufOf, Live
  <2>2. PcInv'
    BY <1>0, <1>2, <1>3 DEF PcInv
  <2>3. DisposeInv'
    BY <1>0, <1>1, <1>2, <1>3 DEF DisposeInv, BufOf, Live
  <2> QED BY <2>1, <2>2, <2>3
<1>12. TodoInv'
  <2>1. todo[t] = {}
    BY <1>0, <1>3 DEF TodoInv
  <2> QED BY <1>0, <1>1, <1>2, <2>1 DEF TodoInv, BufOf, Live
<1>13. BlockInv'
  BY <1>0, <1>1 DEF BlockInv, StoreOwners, BufferOwners, ListOwners, Live
<1> QED BY <1>5, <1>6, <1>7, <1>8, <1>9, <1>10, <1>11, <1>12, <1>13 DEF StoresInv

LEMMA ForgetIsolateKeeps ==
  ASSUME StoresInv, NEW t \in Threads, ForgetIsolate(t)
  PROVE  StoresInv'
<1>1. Shape /\ ForgetInv
  BY DEF StoresInv
<1>2. pc[t].store \in Stores
  BY <1>1 DEF ForgetIsolate, Shape, ForgetInv
<1>3. PICK s \in Stores : s = pc[t].store
  BY <1>2
<1>4. CASE Live(s)
  <2>1. ForgetIsolateOf(t, s)
    BY <1>3, <1>4 DEF ForgetIsolate, ForgetIsolateOf, registries, isolates
  <2> QED BY <1>4, <2>1, ForgetIsolateOfKeeps
<1>5. CASE ~ Live(s)
  <2>1. WritesNowhere(t)
    BY <1>2, <1>3, <1>5 DEF ForgetIsolate, WritesNowhere, registries, isolates
  <2> QED BY <2>1, WritesNowhereKeeps
<1> QED BY <1>4, <1>5

(* Destroy, of the store whose last reference is gone.                     *)
DestroyOf(t, s) ==
  /\ pc[t].op = "destroy" /\ pc[t].store = s
  /\ owners' = OwnersWithout(store[s].addr, s)
  /\ aliases' = AliasesWithout(store[s].addr, s)
  /\ store' = [store EXCEPT ![s] = None]
  /\ IF store[s].iso # None /\ store[s].addr # None
       THEN /\ pending' = [pending EXCEPT
                 ![store[s].iso] = pending[store[s].iso] \cup {store[s].addr}]
            /\ UNCHANGED allocated
       ELSE /\ allocated' = IF store[s].by = "alias" THEN allocated
                            ELSE allocated \ {store[s].addr}
            /\ UNCHANGED pending
  /\ Enter(t, Idle)
  /\ UNCHANGED <<buf, held, refs, iso, todo>>

(* The block of the store that goes: to the list of its isolate, to its    *)
(* allocator, or nowhere.                                                  *)
LEMMA DestroyBlocks ==
  ASSUME StoresInv, NEW t \in Threads, NEW s \in Stores, DestroyOf(t, s), Live(s),
         \A x \in Stores \ {s} : store'[x] = store[x], store'[s] = None
  PROVE  BlockInv' /\ pending' \in [Threads -> SUBSET Addrs] /\ allocated' \subseteq Addrs
<1> USE NoneIsNothing
<1>0. Shape /\ AliasInv /\ BlockInv
  BY DEF StoresInv
<1>a. PICK a \in Addrs \cup {None} : a = store[s].addr
  BY <1>0, StoreFields
<1>h. PICK h \in Threads \cup {None} : h = store[s].iso
  BY <1>0, StoreFields
<1>1. store[s].by = "alias" => h = None
  BY <1>0, <1>h DEF AliasInv
<1>2. /\ \A x \in Addrs : StoreOwners(x)' = StoreOwners(x) \ {s}
      /\ \A x \in Addrs : BufferOwners(x)' = BufferOwners(x)
      /\ \A x \in Addrs : s \in StoreOwners(x) <=> x = a /\ store[s].by # "alias"
  <2>1. \A x \in Addrs : StoreOwners(x)' = StoreOwners(x) \ {s}
    BY DEF StoreOwners, Live
  <2>2. \A x \in Addrs : BufferOwners(x)' = BufferOwners(x)
    BY DEF BufferOwners, DestroyOf
  <2> QED BY <1>a, <2>1, <2>2 DEF StoreOwners
<1>3. CASE h # None /\ a # None
  <2>1. /\ pending' = [pending EXCEPT ![h] = pending[h] \cup {a}]
        /\ allocated' = allocated
    BY <1>a, <1>h, <1>3 DEF DestroyOf
  <2>2. h \in Threads /\ a \in Addrs /\ store[s].by # "alias"
    BY <1>1, <1>3
  <2>3. /\ pending' \in [Threads -> SUBSET Addrs]
        /\ pending'[h] = pending[h] \cup {a}
        /\ \A u \in Threads \ {h} : pending'[u] = pending[u]
    <3>1. /\ pending \in [Threads -> SUBSET Addrs]
          /\ pending[h] \cup {a} \in SUBSET Addrs
      BY <1>0, <2>2 DEF Shape
    <3> QED BY <2>1, <2>2, <3>1
  <2>4. /\ \A x \in Addrs \ {a} : ListOwners(x)' = ListOwners(x)
        /\ ListOwners(a)' = ListOwners(a) \cup {h}
    BY <2>2, <2>3 DEF ListOwners
  <2>5. /\ StoreOwners(a) = {s} /\ ListOwners(a) = {} /\ BufferOwners(a) = {}
        /\ a \in allocated
    <3>1. s \in StoreOwners(a)
      BY <1>2, <2>2
    <3> QED BY <1>0, <2>2, <3>1 DEF BlockInv, AtMostOne
  <2>6. ASSUME NEW x \in Addrs
        PROVE
      /\ x \in allocated' <=> \/ StoreOwners(x)' # {} \/ BufferOwners(x)' # {}
                              \/ ListOwners(x)' # {}
      /\ AtMostOne(StoreOwners(x)') /\ AtMostOne(BufferOwners(x)')
      /\ AtMostOne(ListOwners(x)')
      /\ StoreOwners(x)' = {} \/ BufferOwners(x)' = {}
      /\ StoreOwners(x)' = {} \/ ListOwners(x)' = {}
      /\ BufferOwners(x)' = {} \/ ListOwners(x)' = {}
    <3>1. CASE x = a
      <4>1. StoreOwners(a)' = {} /\ BufferOwners(a)' = {} /\ ListOwners(a)' = {h}
        BY <1>2, <2>2, <2>4, <2>5
      <4> QED BY <2>1, <2>5, <3>1, <4>1 DEF AtMostOne
    <3>2. CASE x # a
      <4>0. s \notin StoreOwners(x)
        BY <1>2, <3>2
      <4>1. /\ StoreOwners(x)' = StoreOwners(x) /\ BufferOwners(x)' = BufferOwners(x)
            /\ ListOwners(x)' = ListOwners(x)
        BY <1>2, <2>4, <3>2, <4>0
      <4> QED BY <1>0, <2>1, <4>1 DEF BlockInv
    <3> QED BY <3>1, <3>2
  <2>7. BlockInv'
    BY <2>6 DEF BlockInv
  <2> QED BY <1>0, <2>1, <2>3, <2>7 DEF Shape
<1>4. CASE ~ (h # None /\ a # None)
  <2>1. /\ pending' = pending
        /\ allocated' = IF store[s].by = "alias" THEN allocated ELSE allocated \ {a}
    BY <1>a, <1>h, <1>4 DEF DestroyOf
  <2>2. \A x \in Addrs : ListOwners(x)' = ListOwners(x)
    BY <2>1 DEF ListOwners
  <2>3. ASSUME NEW x \in Addrs
        PROVE
      /\ x \in allocated' <=> \/ StoreOwners(x)' # {} \/ BufferOwners(x)' # {}
                              \/ ListOwners(x)' # {}
      /\ AtMostOne(StoreOwners(x)') /\ AtMostOne(BufferOwners(x)')
      /\ AtMostOne(ListOwners(x)')
      /\ StoreOwners(x)' = {} \/ BufferOwners(x)' = {}
      /\ StoreOwners(x)' = {} \/ ListOwners(x)' = {}
      /\ BufferOwners(x)' = {} \/ ListOwners(x)' = {}
    <3>1. CASE x = a /\ store[s].by # "alias"
      <4>1. s \in StoreOwners(x)
        BY <1>2, <3>1
      <4>2. StoreOwners(x) = {s} /\ ListOwners(x) = {} /\ BufferOwners(x) = {}
        BY <1>0, <4>1 DEF BlockInv, AtMostOne
      <4>3. StoreOwners(x)' = {} /\ ListOwners(x)' = {} /\ BufferOwners(x)' = {}
        BY <1>2, <2>2, <4>2
      <4>4. x \notin allocated'
        BY <2>1, <3>1
      <4> QED BY <4>3, <4>4 DEF AtMostOne
    <3>2. CASE ~ (x = a /\ store[s].by # "alias")
      <4>1. s \notin StoreOwners(x)
        BY <1>2, <3>2
      <4>2. /\ StoreOwners(x)' = StoreOwners(x) /\ BufferOwners(x)' = BufferOwners(x)
            /\ ListOwners(x)' = ListOwners(x)
        BY <1>2, <2>2, <4>1
      <4>3. x \in allocated' <=> x \in allocated
        BY <2>1, <3>2
      <4> QED BY <1>0, <4>2, <4>3 DEF BlockInv
    <3> QED BY <3>1, <3>2
  <2>4. BlockInv'
    BY <2>3 DEF BlockInv
  <2> QED BY <1>0, <2>1, <2>4 DEF Shape
<1> QED BY <1>3, <1>4

LEMMA DestroyOfKeeps ==
  ASSUME StoresInv, NEW t \in Threads, NEW s \in Stores, DestroyOf(t, s)
  PROVE  StoresInv'
<1> USE NoneIsNothing
<1>0. /\ Shape /\ CountInv
      /\ AliasInv /\ BufferInv /\ HomeInv
      /\ FoundInv /\ DestroyInv /\ ForgetInv /\ DetachInv /\ DisposeInv /\ PcInv
      /\ TodoInv /\ RegistryInv /\ BlockInv
  BY DEF StoresInv
<1>1. /\ owners' = OwnersWithout(store[s].addr, s)
      /\ aliases' = AliasesWithout(store[s].addr, s)
      /\ store' = [store EXCEPT ![s] = None]
      /\ UNCHANGED <<buf, held, refs, iso, todo>>
  BY DEF DestroyOf
<1>2. /\ Live(s) /\ store[s].count = 0
      /\ store[s].pin # None => BufOf(t, store[s].pin)
      /\ \A u \in Threads : pc[u].op = "destroy" /\ pc[u].store = s => u = t
  BY <1>0 DEF DestroyInv, DestroyOf
<1>3. /\ store' \in [Stores -> Store \cup {None}]
      /\ ~ Live(s)' /\ store'[s] = None
      /\ \A x \in Stores \ {s} : store'[x] = store[x]
  BY <1>0, <1>1 DEF Shape, Live
<1>4. /\ \A u \in Threads : refs[u][s] = 0
      /\ \A b \in Bufs : buf[b] # None => buf[b].store # s
  BY <1>0, <1>2, UsersCounted
<1>5. /\ owners' \in [Addrs -> Stores \cup {None}]
      /\ \A a \in Addrs : owners'[a] = IF a = store[s].addr /\ owners[a] = s
                                         THEN None ELSE owners[a]
      /\ aliases' \in [Addrs -> SUBSET Stores]
      /\ \A a \in Addrs : aliases'[a] = IF a = store[s].addr THEN aliases[a] \ {s}
                                                             ELSE aliases[a]
  <2>1. /\ \A a \in Addrs : owners[a] \in Stores \cup {None}
        /\ \A a \in Addrs : aliases[a] \in SUBSET Stores
    BY <1>0 DEF Shape
  <2> QED BY <1>1, <2>1 DEF OwnersWithout, AliasesWithout
<1>6. /\ \A a \in Addrs : owners'[a] # s /\ s \notin aliases'[a]
      /\ \A a \in Addrs : owners[a] # s => owners'[a] = owners[a]
      /\ \A a \in Addrs : aliases'[a] = aliases[a] \ {s}
  BY <1>0, <1>5 DEF RegistryInv
<1>7. /\ pc' \in [Threads ->
           [op : {"idle", "found", "destroy", "forget", "detach", "dispose"},
            store : Stores \cup {None}, buf : Bufs \cup {None}]]
      /\ pc'[t] = Idle
      /\ \A u \in Threads \ {t} : pc'[u] = pc[u]
  BY <1>0, IdleFields, Entered DEF DestroyOf
<1>8. /\ pc[t].op = "destroy" /\ pc[t].store = s
      /\ pc'[t].op = "idle" /\ pc'[t].store = None /\ pc'[t].buf = None
      /\ \A u \in Threads : pc[u].store \in Stores \cup {None}
      /\ \A u \in Threads : pc'[u].op # "idle" => pc'[u] = pc[u] /\ u # t
  BY <1>0, <1>7, IdleFields DEF Shape, DestroyOf
<1>9. ASSUME NEW u \in Threads, NEW x \in todo[u] PROVE x # s
  <2> SUFFICES ASSUME x = s PROVE FALSE
    OBVIOUS
  <2>1. /\ pc[u].op \in {"detach", "dispose"} /\ store[s].by = "alias"
        /\ BufOf(u, store[s].pin)
    BY <1>0, <1>9 DEF TodoInv
  <2>2. BufOf(t, store[s].pin)
    BY <1>0, <1>2, <2>1 DEF AliasInv
  <2> QED BY <1>8, <2>1, <2>2 DEF BufOf
<1>10. BlockInv' /\ pending' \in [Threads -> SUBSET Addrs] /\ allocated' \subseteq Addrs
  BY <1>2, <1>3, DestroyBlocks
<1>11. Shape'
  BY <1>0, <1>1, <1>3, <1>5, <1>7, <1>10 DEF Shape
<1>12. CountInv'
  <2>1. \A x \in Stores : Users(x)' = Users(x)
    BY <1>1, UsersSame
  <2> QED BY <1>0, <1>2, <1>3, <2>1, CountKept DEF Live
<1>13. AliasInv'
  BY <1>0, <1>1, <1>3 DEF AliasInv, Live
<1>14. BufferInv'
  BY <1>0, <1>1, <1>3, <1>4, <1>6, BufferFields DEF BufferInv, Live
<1>15. HomeInv'
  BY <1>0, <1>1, <1>3, <1>7, <1>8, StoreFields DEF HomeInv, Live, BufOf
<1>16. FoundInv' /\ DetachInv'
  BY <1>0, <1>1, <1>3, <1>8 DEF FoundInv, DetachInv, Live, BufOf
<1>17. DestroyInv'
  <2>1. \A h \in Threads : pc[h].op = "forget" => pc'[h] = pc[h]
    BY <1>7, <1>8
  <2> QED BY <1>0, <1>1, <1>2, <1>3, <1>8, <2>1 DEF DestroyInv, Forgets, Live, BufOf
<1>18. ForgetInv'
  BY <1>0, <1>2, <1>3, <1>8 DEF ForgetInv, Live
<1>19. DisposeInv' /\ PcInv'
  BY <1>0, <1>1, <1>3, <1>7, <1>8 DEF DisposeInv, PcInv, Live, BufOf
<1>20. TodoInv'
  <2>1. todo[t] = {}
    BY <1>0, <1>8 DEF TodoInv
  <2>2. \A u \in Threads : \A x \in todo[u] : x \in Stores
    BY <1>0 DEF Shape
  <2> QED BY <1>0, <1>1, <1>3, <1>6, <1>7, <1>9, <2>1, <2>2 DEF TodoInv, Live, BufOf
<1>21. RegistryInv'
  <2>1. /\ \A a \in Addrs : owners'[a] \in Stores \cup {None}
        /\ \A a \in Addrs : \A x \in aliases[a] : x \in Stores
    BY <1>0, <1>5 DEF Shape
  <2>2. \A a \in Addrs : owners'[a] # None => owners'[a] = owners[a]
    BY <1>5
  <2>3. \A x \in Stores : Live(x) /\ store[x].by = "alias" => store[x].addr \in Addrs
    BY <1>0, StoreFields DEF AliasInv
  <2> QED BY <1>0, <1>1, <1>3, <1>6, <2>1, <2>2, <2>3 DEF RegistryInv, Live
<1> QED BY <1>10, <1>11, <1>12, <1>13, <1>14, <1>15, <1>16, <1>17, <1>18, <1>19,
        <1>20, <1>21 DEF StoresInv

LEMMA DestroyKeeps ==
  ASSUME StoresInv, NEW t \in Threads, Destroy(t)
  PROVE  StoresInv'
<1>1. Shape /\ DestroyInv /\ AliasInv
  BY DEF StoresInv
<1>2. pc[t].store \in Stores
  BY <1>1 DEF Destroy, Shape, DestroyInv
<1>3. PICK s \in Stores : s = pc[t].store
  BY <1>2
<1>4. Live(s)
  BY <1>3 DEF Destroy
<1>5. store[s].iso \in Threads \cup {None}
  BY <1>1, <1>4, StoreFields, NoneIsNothing
<1>6. DestroyOf(t, s)
  BY <1>1, <1>3, <1>5 DEF Destroy, DestroyOf, Shape
<1> QED BY <1>6, DestroyOfKeeps

(* MakeAlias, of the buffer that has no owner.                             *)
MakeAliasOf(t, s, b, a) ==
  /\ pc[t].op = "found" /\ pc[t].store = None /\ pc[t].buf = b /\ buf[b].addr = a
  /\ ~ Live(s)
  /\ store' = [store EXCEPT ![s] =
       [addr |-> a, count |-> 1, by |-> "alias", iso |-> None, pin |-> b]]
  /\ refs' = [refs EXCEPT ![t][s] = 1]
  /\ aliases' = [aliases EXCEPT ![a] = aliases[a] \cup {s}]
  /\ Enter(t, Idle)
  /\ UNCHANGED <<buf, held, allocated, owners, pending, iso, todo>>

LEMMA MakeAliasOfKeeps ==
  ASSUME StoresInv, NEW t \in Threads, NEW s \in Stores, NEW b \in Bufs,
         NEW a \in Addrs, MakeAliasOf(t, s, b, a)
  PROVE  StoresInv'
<1> USE NoneIsNothing
<1> DEFINE r == [addr |-> a, count |-> 1, by |-> "alias", iso |-> None, pin |-> b]
<1>0. /\ Shape /\ CountInv
      /\ AliasInv /\ BufferInv /\ HomeInv
      /\ FoundInv /\ DestroyInv /\ ForgetInv /\ DetachInv /\ DisposeInv /\ PcInv
      /\ TodoInv /\ RegistryInv /\ BlockInv
  BY DEF StoresInv
<1>1. /\ ~ Live(s)
      /\ store' = [store EXCEPT ![s] = r]
      /\ refs' = [refs EXCEPT ![t][s] = 1]
      /\ UNCHANGED <<buf, held, allocated, owners, pending, iso, todo>>
  BY DEF MakeAliasOf
<1>2. /\ r \in Store /\ r.addr = a /\ r.count = 1 /\ r.by = "alias"
      /\ r.iso = None /\ r.pin = b
  BY DEF Store
<1> HIDE DEF r
<1>3. /\ store' \in [Stores -> Store \cup {None}]
      /\ Live(s)' /\ store'[s] = r
      /\ \A x \in Stores \ {s} : store'[x] = store[x]
  BY <1>0, <1>1, <1>2, BoxFilled
<1>4. /\ refs' \in [Threads -> [Stores -> Nat]]
      /\ refs[t][s] = 0 /\ refs'[t][s] = 1
      /\ \A v \in Threads : refs[v][s] = 0
      /\ \A v \in Threads \ {t} : refs'[v] = refs[v]
      /\ \A v \in Threads : \A x \in Stores \ {s} : refs'[v][x] = refs[v][x]
  <2>1. \A v \in Threads : refs[v][s] = 0
    BY <1>0, <1>1, UsersCounted
  <2> QED BY <1>0, <1>1, <2>1 DEF Shape
<1>5. \A x \in Bufs : buf[x] # None => buf[x].store # s
  BY <1>0, <1>1 DEF BufferInv
<1>6. \A u \in Threads : pc[u].op # "forget" => pc[u].store # s
  <2> SUFFICES ASSUME NEW u \in Threads, pc[u].op # "forget" PROVE pc[u].store # s
    OBVIOUS
  <2>1. pc[u].op \in {"idle", "found", "destroy", "detach", "dispose"}
    BY <1>0 DEF Shape
  <2> QED BY <1>0, <1>1, <1>5, <2>1 DEF FoundInv, DestroyInv, PcInv, BufOf
<1>7. /\ BufOf(t, b) /\ iso[t] = "alive"
      /\ buf[b].store = None /\ buf[b].addr = a
  BY <1>0 DEF FoundInv, MakeAliasOf
<1>8. /\ pc' \in [Threads ->
           [op : {"idle", "found", "destroy", "forget", "detach", "dispose"},
            store : Stores \cup {None}, buf : Bufs \cup {None}]]
      /\ pc'[t] = Idle
      /\ \A u \in Threads \ {t} : pc'[u] = pc[u]
  BY <1>0, IdleFields, Entered DEF MakeAliasOf
<1>9. /\ pc[t].op = "found"
      /\ pc'[t].op = "idle" /\ pc'[t].store = None /\ pc'[t].buf = None
      /\ \A u \in Threads : pc[u].store \in Stores \cup {None}
      /\ \A u \in Threads : pc'[u].op # "idle" => pc'[u] = pc[u] /\ u # t
  BY <1>0, <1>8, IdleFields DEF Shape, MakeAliasOf
<1>10. /\ aliases' \in [Addrs -> SUBSET Stores]
       /\ aliases'[a] = aliases[a] \cup {s}
       /\ \A x \in Addrs \ {a} : aliases'[x] = aliases[x]
  <2>1. aliases \in [Addrs -> SUBSET Stores] /\ aliases[a] \cup {s} \in SUBSET Stores
    BY <1>0 DEF Shape
  <2>2. aliases' = [aliases EXCEPT ![a] = aliases[a] \cup {s}]
    BY DEF MakeAliasOf
  <2> QED BY <2>1, <2>2
<1>11. Shape'
  BY <1>0, <1>1, <1>3, <1>4, <1>8, <1>10 DEF Shape
<1>12. CountInv'
  <2>1. OthersCounted(s)
    <3>1. \A x \in Stores \ {s} : Users(x)' = Users(x)
      BY <1>1, <1>4, UsersSame
    <3> QED BY <1>3, <3>1 DEF OthersCounted, Live
  <2>2. \E u : u \notin Users(s) /\ Users(s)' = Users(s) \cup {u}
    BY <1>1, <1>4, UsersRefAdded
  <2> QED BY <1>0, <1>1, <1>2, <1>3, <2>1, <2>2, CountUp
<1>13. AliasInv'
  <2> SUFFICES ASSUME NEW x \in Stores, store'[x] # None
               PROVE
      /\ store'[x].by = "alias" <=> store'[x].pin # None
      /\ store'[x].by = "alias" =>
           /\ store'[x].iso = None
           /\ store'[x].addr # None
           /\ buf[store'[x].pin] # None
           /\ buf[store'[x].pin].store = None
           /\ buf[store'[x].pin].addr = store'[x].addr
           /\ \A u \in Threads : u # buf[store'[x].pin].iso => refs'[u][x] = 0
    BY <1>1 DEF AliasInv, Live
  <2>1. CASE x = s
    BY <1>2, <1>3, <1>4, <1>7, <2>1 DEF BufOf
  <2>2. CASE x # s
    BY <1>0, <1>3, <1>4, <2>2 DEF AliasInv, Live
  <2> QED BY <2>1, <2>2
<1>14. BufferInv'
  BY <1>0, <1>1, <1>3, <1>5, BufferFields DEF BufferInv, Live
<1>15. HomeInv'
  BY <1>0, <1>1, <1>2, <1>3, <1>8, <1>9, StoreFields DEF HomeInv, Live, BufOf
<1>16. FoundInv'
  BY <1>0, <1>1, <1>9 DEF FoundInv, BufOf
<1>17. DetachInv'
  BY <1>0, <1>1, <1>2, <1>3, <1>7, <1>9 DEF DetachInv, BufOf, Live
<1>18. DestroyInv' /\ ForgetInv'
  <2>1. \A h \in Threads : pc[h].op = "forget" => pc'[h] = pc[h]
    BY <1>8, <1>9
  <2> QED BY <1>0, <1>1, <1>3, <1>6, <1>9, <2>1
          DEF DestroyInv, Forgets, ForgetInv, BufOf, Live
<1>19. DisposeInv' /\ PcInv'
  BY <1>0, <1>1, <1>2, <1>3, <1>7, <1>8, <1>9 DEF DisposeInv, PcInv, BufOf, Live
<1>20. TodoInv'
  <2>1. \A u \in Threads : \A x \in todo[u] : x \in Stores /\ x # s /\ u # t
    BY <1>0, <1>1, <1>9 DEF TodoInv, Shape
  <2> QED BY <1>0, <1>1, <1>3, <1>8, <1>10, <2>1 DEF TodoInv, BufOf, Live
<1>21. RegistryInv'
  <2>1. /\ \A x \in Addrs : owners[x] \in Stores \cup {None}
        /\ \A x \in Addrs : \A y \in aliases[x] : y \in Stores
    BY <1>0 DEF Shape
  <2>2. \A x \in Stores : Live(x) => x # s
    BY <1>1
  <2>3. \A x \in Addrs : aliases[x] \subseteq aliases'[x]
    BY <1>10
  <2>4. \A x \in Stores : Live(x) /\ store[x].by = "alias" => store[x].addr \in Addrs
    BY <1>0, StoreFields DEF AliasInv
  <2>5. ASSUME NEW x \in Addrs
        PROVE  /\ owners'[x] # None => /\ Live(owners[x])'
                                       /\ store'[owners[x]].addr = x
                                       /\ store'[owners[x]].by # "alias"
               /\ \A y \in aliases'[x] : /\ Live(y)'
                                         /\ store'[y].addr = x
                                         /\ store'[y].by = "alias"
    <3>1. \A y \in aliases[x] : /\ y # s /\ Live(y)' /\ store'[y].addr = x
                                /\ store'[y].by = "alias"
      BY <1>0, <1>3, <2>1, <2>2 DEF RegistryInv, Live
    <3>2. \A y \in aliases'[x] : y \in aliases[x] \/ (y = s /\ x = a)
      BY <1>10
    <3>3. owners[x] # None => /\ store'[owners[x]] # None
                              /\ store'[owners[x]].addr = x
                              /\ store'[owners[x]].by # "alias"
      BY <1>0, <1>3, <2>1, <2>2 DEF RegistryInv, Live
    <3> QED BY <1>1, <1>2, <1>3, <3>1, <3>2, <3>3 DEF Live
  <2>6. ASSUME NEW x \in Stores, Live(x)', store'[x].by = "alias"
        PROVE  \/ x \in aliases'[store'[x].addr]
               \/ \E u \in Threads : x \in todo[u]
    BY <1>0, <1>2, <1>3, <1>10, <2>3, <2>4, <2>6 DEF RegistryInv, Live
  <2> QED BY <1>1, <2>5, <2>6 DEF RegistryInv, Live
<1>22. BlockInv'
  <2>1. \A x \in Addrs : StoreOwners(x)' = StoreOwners(x)
    BY <1>1, <1>2, <1>3 DEF StoreOwners, Live
  <2> QED BY <1>0, <1>1, <2>1 DEF BlockInv, BufferOwners, ListOwners
<1> QED BY <1>11, <1>12, <1>13, <1>14, <1>15, <1>16, <1>17, <1>18, <1>19,
        <1>20, <1>21, <1>22 DEF StoresInv

LEMMA MakeAliasKeeps ==
  ASSUME StoresInv, Uses = {}, NEW t \in Threads, NEW s \in Stores, MakeAlias(t, s)
  PROVE  StoresInv'
<1>1. Shape /\ FoundInv
  BY DEF StoresInv
<1>2. pc[t].buf \in Bufs /\ buf[pc[t].buf] # None /\ buf[pc[t].buf].addr # None
  BY <1>1 DEF MakeAlias, FoundInv, BufOf
<1>3. PICK b \in Bufs : b = pc[t].buf
  BY <1>2
<1>4. PICK a \in Addrs : a = buf[b].addr
  BY <1>1, <1>2, <1>3, BufferFields
<1>5. a # None
  BY NoneIsNothing
<1>6. MakeAliasOf(t, s, b, a)
  <2>1. buf' = buf /\ allocated' = allocated
    BY <1>1 DEF MakeAlias, GetterDetaches
  <2> QED BY <1>3, <1>4, <1>5, <2>1 DEF MakeAlias, MakeAliasOf, isolates
<1> QED BY <1>6, MakeAliasOfKeeps

-----------------------------------------------------------------------------
(* A buffer that nobody pins dies, or is detached; q is what is left of it. *)
LettingGo(t, b, q) ==
  /\ pc[t].op \in {"idle", "detach"} /\ todo[t] = {}
  /\ BufOf(t, b) /\ iso[t] \in {"alive", "freeing"}
  /\ \A s \in Stores : Live(s) => store[s].pin # b
  /\ buf' = [buf EXCEPT ![b] = q]
  /\ q = None \/ (q \in Buffer /\ q.iso = t /\ q.addr = None /\ q.store = None)
  /\ UNCHANGED <<held, refs, aliases, owners, pending, iso, todo>>

(* What this leaves to be said, whatever becomes of the bytes.             *)
LEMMA LettingGoFacts ==
  ASSUME StoresInv, NEW t \in Threads, NEW b \in Bufs, NEW q, LettingGo(t, b, q)
  PROVE  /\ buf' \in [Bufs -> Buffer \cup {None}]
         /\ buf'[b] = q
         /\ \A x \in Bufs \ {b} : buf'[x] = buf[x]
         /\ pc[t].store = None
         /\ \A x \in Stores : Live(x) => store[x].pin # b
         /\ \A u \in Threads \ {t} : ~ BufOf(u, b)
         /\ \A u \in Threads : \A x \in Bufs \ {b} : BufOf(u, x)' <=> BufOf(u, x)
         /\ \A u \in Threads : pc[u].store \in Stores \cup {None}
<1>1. Shape /\ PcInv
  BY DEF StoresInv
<1>2. buf' = [buf EXCEPT ![b] = q] /\ q \in Buffer \cup {None}
  BY DEF LettingGo
<1>3. /\ buf' \in [Bufs -> Buffer \cup {None}]
      /\ buf'[b] = q
      /\ \A x \in Bufs \ {b} : buf'[x] = buf[x]
  BY <1>1, <1>2 DEF Shape
<1>4. /\ pc[t].store = None
      /\ \A x \in Stores : Live(x) => store[x].pin # b
      /\ \A u \in Threads \ {t} : ~ BufOf(u, b)
  BY <1>1 DEF LettingGo, PcInv, BufOf
<1>5. \A u \in Threads : pc[u].store \in Stores \cup {None}
  BY <1>1 DEF Shape
<1>6. \A u \in Threads : \A x \in Bufs \ {b} : BufOf(u, x)' <=> BufOf(u, x)
  BY <1>3 DEF BufOf
<1> QED BY <1>3, <1>4, <1>5, <1>6

(* The bytes were the engine's.                                            *)
LEMMA EngineBytesGo ==
  ASSUME StoresInv, NEW t \in Threads, NEW b \in Bufs, NEW q, LettingGo(t, b, q),
         buf[b].store = None, allocated' = allocated \ {buf[b].addr},
         Enter(t, Idle), store' = store
  PROVE  StoresInv'
<1> USE NoneIsNothing
<1>0. /\ Shape /\ CountInv
      /\ AliasInv /\ BufferInv /\ HomeInv
      /\ FoundInv /\ DestroyInv /\ ForgetInv /\ DetachInv /\ DisposeInv /\ PcInv
      /\ TodoInv /\ RegistryInv /\ BlockInv
  BY DEF StoresInv
<1>1. /\ buf[b] # None /\ buf[b].iso = t /\ iso[t] \in {"alive", "freeing"}
      /\ q = None \/ (q \in Buffer /\ q.iso = t /\ q.addr = None /\ q.store = None)
      /\ UNCHANGED <<store, held, refs, aliases, owners, pending, iso, todo>>
      /\ pc[t].op \in {"idle", "detach"} /\ todo[t] = {}
  BY DEF LettingGo, BufOf
<1>2. /\ buf' \in [Bufs -> Buffer \cup {None}]
      /\ buf'[b] = q
      /\ \A x \in Bufs \ {b} : buf'[x] = buf[x]
      /\ pc[t].store = None
      /\ \A x \in Stores : Live(x) => store[x].pin # b
      /\ \A u \in Threads \ {t} : ~ BufOf(u, b)
      /\ \A u \in Threads : \A x \in Bufs \ {b} : BufOf(u, x)' <=> BufOf(u, x)
      /\ \A u \in Threads : pc[u].store \in Stores \cup {None}
  BY LettingGoFacts
<1>3. /\ pc' \in [Threads ->
           [op : {"idle", "found", "destroy", "forget", "detach", "dispose"},
            store : Stores \cup {None}, buf : Bufs \cup {None}]]
      /\ pc'[t] = Idle
      /\ \A u \in Threads \ {t} : pc'[u] = pc[u]
  BY <1>0, IdleFields, Entered
<1>4. /\ pc'[t].op = "idle" /\ pc'[t].store = None /\ pc'[t].buf = None
      /\ \A u \in Threads : pc'[u].op # "idle" => pc'[u] = pc[u] /\ u # t
  BY <1>3, IdleFields
<1>5. Shape'
  <2>1. allocated' \subseteq Addrs
    BY <1>0 DEF Shape
  <2> QED BY <1>0, <1>1, <1>2, <1>3, <2>1 DEF Shape
<1>6. CountInv'
  <2>1. \A x \in Stores : Users(x)' = Users(x)
    BY <1>1, <1>2, UsersSame
  <2> QED BY <1>0, <1>1, <2>1, CountKept DEF Live
<1>7. AliasInv'
  BY <1>0, <1>1, <1>2, StoreFields DEF AliasInv, Live
<1>8. BufferInv'
  BY <1>0, <1>1, <1>2 DEF BufferInv, Live
<1>9. HomeInv'
  BY <1>0, <1>1, <1>2, <1>3, StoreFields DEF HomeInv, Live, BufOf
<1>10. FoundInv' /\ DetachInv'
  <2>1. \A u \in Threads : pc'[u].op \in {"found", "detach"}
          => /\ pc'[u] = pc[u] /\ BufOf(u, pc[u].buf) /\ pc[u].buf # b
    BY <1>0, <1>2, <1>4 DEF FoundInv, DetachInv
  <2> QED BY <1>0, <1>1, <1>2, <2>1 DEF FoundInv, DetachInv, Live, BufOf
<1>11. DestroyInv' /\ ForgetInv'
  <2>1. \A h \in Threads : pc[h].op = "forget" => pc'[h] = pc[h]
    BY <1>1, <1>3
  <2> QED BY <1>0, <1>1, <1>2, <1>4, <2>1
          DEF DestroyInv, Forgets, ForgetInv, Live, BufOf
<1>12. DisposeInv' /\ PcInv'
  BY <1>0, <1>1, <1>2, <1>3, <1>4 DEF DisposeInv, PcInv, Live, BufOf
<1>13. TodoInv'
  <2>1. \A u \in Threads : \A x \in todo[u] :
          /\ u # t /\ pc'[u] = pc[u]
          /\ store[x].pin # b /\ store[x].pin \in Bufs
    BY <1>0, <1>1, <1>2, <1>3 DEF TodoInv, Shape, BufOf
  <2> QED BY <1>0, <1>1, <1>2, <2>1 DEF TodoInv, Live, BufOf
<1>14. RegistryInv'
  BY <1>0, <1>1 DEF RegistryInv, Live
<1>15. BlockInv'
  <2>1. /\ \A x \in Addrs : StoreOwners(x)' = StoreOwners(x)
        /\ \A x \in Addrs : ListOwners(x)' = ListOwners(x)
    BY <1>1 DEF StoreOwners, ListOwners, Live
  <2>2. /\ \A x \in Addrs : BufferOwners(x)' = BufferOwners(x) \ {b}
        /\ \A x \in Addrs : b \in BufferOwners(x) <=> x = buf[b].addr
    BY <1>1, <1>2 DEF BufferOwners
  <2>3. ASSUME NEW x \in Addrs
        PROVE
      /\ x \in allocated' <=> \/ StoreOwners(x)' # {} \/ BufferOwners(x)' # {}
                              \/ ListOwners(x)' # {}
      /\ AtMostOne(StoreOwners(x)') /\ AtMostOne(BufferOwners(x)')
      /\ AtMostOne(ListOwners(x)')
      /\ StoreOwners(x)' = {} \/ BufferOwners(x)' = {}
      /\ StoreOwners(x)' = {} \/ ListOwners(x)' = {}
      /\ BufferOwners(x)' = {} \/ ListOwners(x)' = {}
    <3>1. CASE x = buf[b].addr
      <4>1. b \in BufferOwners(x)
        BY <2>2, <3>1
      <4>2. StoreOwners(x) = {} /\ ListOwners(x) = {} /\ BufferOwners(x) = {b}
        BY <1>0, <4>1 DEF BlockInv, AtMostOne
      <4>3. StoreOwners(x)' = {} /\ ListOwners(x)' = {} /\ BufferOwners(x)' = {}
        BY <2>1, <2>2, <4>2
      <4>4. x \notin allocated'
        BY <3>1
      <4> QED BY <4>3, <4>4 DEF AtMostOne
    <3>2. CASE x # buf[b].addr
      <4>1. b \notin BufferOwners(x)
        BY <2>2, <3>2
      <4>2. /\ StoreOwners(x)' = StoreOwners(x) /\ BufferOwners(x)' = BufferOwners(x)
            /\ ListOwners(x)' = ListOwners(x)
        BY <2>1, <2>2, <4>1
      <4>3. x \in allocated' <=> x \in allocated
        BY <3>2
      <4> QED BY <1>0, <4>2, <4>3 DEF BlockInv
    <3> QED BY <3>1, <3>2
  <2> QED BY <2>3 DEF BlockInv
<1> QED BY <1>5, <1>6, <1>7, <1>8, <1>9, <1>10, <1>11, <1>12, <1>13, <1>14, <1>15
        DEF StoresInv

(* The bytes are those of a store: bs_free_func.                           *)
LEMMA StoreBytesGo ==
  ASSUME StoresInv, Uses = {}, NEW t \in Threads, NEW b \in Bufs, NEW q,
         LettingGo(t, b, q), NEW s \in Stores, buf[b].store = s, FreeFunc(t, s),
         allocated' = allocated
  PROVE  StoresInv'
<1> USE NoneIsNothing
<1> DEFINE r == Step(IF store[s].count = 1 THEN "destroy" ELSE "forget", s, None)
<1>0. /\ Shape /\ CountInv
      /\ AliasInv /\ BufferInv /\ HomeInv
      /\ FoundInv /\ DestroyInv /\ ForgetInv /\ DetachInv /\ DisposeInv /\ PcInv
      /\ TodoInv /\ RegistryInv /\ BlockInv
  BY DEF StoresInv
<1>1. /\ buf[b] # None /\ buf[b].iso = t /\ iso[t] \in {"alive", "freeing"}
      /\ q = None \/ (q \in Buffer /\ q.iso = t /\ q.addr = None /\ q.store = None)
      /\ UNCHANGED <<held, refs, allocated, aliases, owners, pending, iso, todo>>
      /\ pc[t].op \in {"idle", "detach"} /\ todo[t] = {}
  BY DEF LettingGo, BufOf
<1>2. /\ buf' \in [Bufs -> Buffer \cup {None}]
      /\ buf'[b] = q
      /\ \A x \in Bufs \ {b} : buf'[x] = buf[x]
      /\ pc[t].store = None
      /\ \A x \in Stores : Live(x) => store[x].pin # b
      /\ \A u \in Threads \ {t} : ~ BufOf(u, b)
      /\ \A u \in Threads : \A x \in Bufs \ {b} : BufOf(u, x)' <=> BufOf(u, x)
      /\ \A u \in Threads : pc[u].store \in Stores \cup {None}
  BY LettingGoFacts
<1>3. /\ store' = [store EXCEPT ![s].count = store[s].count - 1]
      /\ Enter(t, r)
  BY <1>0 DEF FreeFunc, Shape
<1>4. /\ Live(s) /\ store[s].count \in Nat \ {0}
      /\ store[s].by # "alias" /\ store[s].pin = None
  BY <1>0, <1>1, UsersCounted, StoreFields DEF BufferInv, AliasInv
<1>5. /\ store' \in [Stores -> Store \cup {None}]
      /\ StoresKept
      /\ Live(s)' /\ store'[s].count = store[s].count - 1
      /\ \A x \in Stores \ {s} : store'[x] = store[x]
  <2>1. store[s].count - 1 \in Nat /\ Live(s)
    BY <1>4
  <2>2. store' = [store EXCEPT ![s].count = store[s].count - 1]
    BY <1>3
  <2> QED BY <1>0, <2>1, <2>2, Recounted
<1>6. /\ r \in [op : {"idle", "found", "destroy", "forget", "detach", "dispose"},
                store : Stores \cup {None}, buf : Bufs \cup {None}]
      /\ r.buf = None /\ r.store = s
      /\ r.op = IF store[s].count = 1 THEN "destroy" ELSE "forget"
  BY StepFields
<1> HIDE DEF r
<1>7. /\ pc' \in [Threads ->
           [op : {"idle", "found", "destroy", "forget", "detach", "dispose"},
            store : Stores \cup {None}, buf : Bufs \cup {None}]]
      /\ pc'[t] = r
      /\ \A u \in Threads \ {t} : pc'[u] = pc[u]
  BY <1>0, <1>3, <1>6, Entered
<1>8. store[s].count = 1
        => store[s].iso \in {None, t} \/ Forgets(store[s].iso, s)
  <2> SUFFICES ASSUME store[s].count = 1, store[s].iso # None
               PROVE  store[s].iso = t \/ Forgets(store[s].iso, s)
    OBVIOUS
  <2>1. \A x \in Bufs : buf[x] # None /\ buf[x].store = s => x = b
    BY <1>0, <1>1, <1>4, LastBuffer
  <2>2. store[s].iso \in Threads
    BY <1>0, <1>4, StoreFields
  <2> QED BY <1>0, <1>1, <1>3, <1>4, <2>1, <2>2
          DEF HomeInv, DestroyInv, BufOf, Forgets
<1>9. Shape'
  <2>1. UNCHANGED <<held, refs, allocated, aliases, owners, pending, iso, todo>>
    BY <1>1
  <2> QED BY <1>0, <1>2, <1>5, <1>7, <2>1 DEF Shape
<1>10. CountInv'
  <2>0. q = None \/ q.store # s
    BY <1>1
  <2>1. OthersCounted(s)
    <3>1. \A x \in Stores \ {s} : Users(x)' = Users(x)
      BY <1>1, <1>2, UsersSame
    <3> QED BY <1>5, <3>1 DEF OthersCounted, Live
  <2>2. \E u \in Users(s) : Users(s)' = Users(s) \ {u}
    BY <1>1, <1>2, <2>0, UsersBufferRemoved
  <2> QED BY <1>0, <1>4, <1>5, <2>1, <2>2, CountDown
<1>11. AliasInv'
  BY <1>0, <1>1, <1>2, <1>5, StoreFields DEF AliasInv, StoresKept, Live
<1>12. BufferInv'
  BY <1>0, <1>1, <1>2, <1>5, BufferFields DEF BufferInv, StoresKept, Live
<1>13. HomeInv'
  <2> SUFFICES ASSUME NEW x \in Stores, Live(x), store[x].iso # None
               PROVE
      /\ iso[store[x].iso] # "disposed"
      /\ \/ \E c \in Bufs : /\ buf'[c] # None /\ buf'[c].iso = store[x].iso
                           /\ buf'[c].store = x
         \/ /\ pc'[store[x].iso].op \in {"forget", "destroy"}
            /\ pc'[store[x].iso].store = x
    BY <1>1, <1>5 DEF HomeInv, StoresKept, BufOf
  <2>1. PICK h \in Threads : h = store[x].iso
    BY <1>0, StoreFields
  <2>2. iso[h] # "disposed"
    BY <1>0, <2>1 DEF HomeInv
  <2>3. CASE \E c \in Bufs : BufOf(h, c) /\ buf[c].store = x
    <3>1. PICK c \in Bufs : BufOf(h, c) /\ buf[c].store = x
      BY <2>3
    <3>2. CASE c = b
      <4>1. h = t /\ x = s
        BY <1>1, <3>1, <3>2 DEF BufOf
      <4>2. pc'[h].op \in {"forget", "destroy"} /\ pc'[h].store = x
        BY <1>6, <1>7, <4>1
      <4> QED BY <2>1, <2>2, <4>2
    <3>3. CASE c # b
      <4>1. buf'[c] # None /\ buf'[c].iso = h /\ buf'[c].store = x
        BY <1>2, <3>1, <3>3 DEF BufOf
      <4> QED BY <2>1, <2>2, <4>1
    <3> QED BY <3>2, <3>3
  <2>4. CASE pc[h].op \in {"forget", "destroy"} /\ pc[h].store = x
    <3>1. h # t
      BY <1>1, <2>4
    <3>2. pc'[h] = pc[h]
      BY <1>7, <3>1
    <3> QED BY <2>1, <2>2, <2>4, <3>2
  <2> QED BY <1>0, <2>1, <2>3, <2>4 DEF HomeInv
<1>14. FoundInv' /\ DetachInv'
  <2>1. \A u \in Threads : pc'[u].op \in {"found", "detach"}
          => /\ pc'[u] = pc[u] /\ BufOf(u, pc[u].buf) /\ pc[u].buf # b
    BY <1>0, <1>2, <1>6, <1>7 DEF FoundInv, DetachInv
  <2>2. FoundInv'
    BY <1>0, <1>1, <1>2, <2>1 DEF FoundInv, BufOf
  <2>3. DetachInv'
    BY <1>0, <1>1, <1>2, <1>5, <2>1 DEF DetachInv, StoresKept, BufOf
  <2> QED BY <2>2, <2>3
<1>15. DestroyInv'
  <2> SUFFICES ASSUME NEW v \in Threads, pc'[v].op = "destroy"
               PROVE
      /\ pc'[v].store # None /\ store'[pc'[v].store] # None
      /\ store'[pc'[v].store].count = 0
      /\ \/ store'[pc'[v].store].iso \in {None, v}
         \/ /\ store'[pc'[v].store].iso \in Threads
            /\ Forgets(store'[pc'[v].store].iso, pc'[v].store)
      /\ store'[pc'[v].store].pin # None
           => /\ store'[pc'[v].store].pin \in Bufs
              /\ buf'[store'[pc'[v].store].pin] # None
              /\ buf'[store'[pc'[v].store].pin].iso = v
      /\ \A u \in Threads :
           pc'[u].op = "destroy" /\ pc'[u].store = pc'[v].store => u = v
    <3>1. \A h \in Threads : \A x : Forgets(h, x) => Forgets(h, x)'
      BY <1>1, <1>7 DEF Forgets
    <3> QED BY <3>1 DEF DestroyInv, Live, BufOf, Forgets
  <2>1. \A u \in Threads : pc[u].op = "destroy" => pc[u].store # s
    BY <1>0, <1>4 DEF DestroyInv
  <2>2. CASE v = t
    <3>1. store[s].count = 1 /\ pc'[t].store = s
      BY <1>6, <1>7, <2>2
    <3>2. /\ store'[s] # None /\ store'[s].count = 0
          /\ store'[s].pin = None
          /\ \/ store'[s].iso \in {None, t}
             \/ store'[s].iso \in Threads /\ Forgets(store'[s].iso, s)
      BY <1>0, <1>4, <1>5, <1>8, <3>1, StoreFields DEF StoresKept, Live
    <3>3. \A u \in Threads \ {t} :
            ~ (pc'[u].op = "destroy" /\ pc'[u].store = s)
      BY <1>7, <2>1
    <3> QED BY <2>2, <3>1, <3>2, <3>3
  <2>3. CASE v # t
    <3>1. pc'[v] = pc[v] /\ pc[v].store # s /\ pc[v].store \in Stores
      BY <1>0, <1>2, <1>7, <2>1, <2>3 DEF DestroyInv
    <3>2. \A u \in Threads : pc'[u].op = "destroy" /\ pc'[u].store = pc[v].store
                               => u # t
      BY <1>6, <1>7, <3>1
    <3>3. store'[pc[v].store] = store[pc[v].store]
      BY <1>5, <3>1
    <3>4. store[pc[v].store].pin # None
            => /\ store[pc[v].store].pin \in Bufs
               /\ buf'[store[pc[v].store].pin] # None
               /\ buf'[store[pc[v].store].pin].iso = v
      <4>1. pc[v].op = "destroy" /\ Live(pc[v].store)
        BY <1>0, <3>1 DEF DestroyInv
      <4>2. store[pc[v].store].pin # b
        BY <1>2, <3>1, <4>1
      <4>3. store[pc[v].store].pin # None
              => /\ store[pc[v].store].pin \in Bufs
                 /\ buf[store[pc[v].store].pin] # None
                 /\ buf[store[pc[v].store].pin].iso = v
        BY <1>0, <4>1 DEF DestroyInv, BufOf
      <4> QED BY <1>2, <4>2, <4>3
    <3>5. \/ store[pc[v].store].iso \in {None, v}
          \/ /\ store[pc[v].store].iso \in Threads
             /\ Forgets(store[pc[v].store].iso, pc[v].store)
      BY <1>0, <2>3, <3>1, StoreFields DEF DestroyInv
    <3> QED BY <1>0, <1>7, <3>1, <3>2, <3>3, <3>4, <3>5 DEF DestroyInv, Live
  <2> QED BY <2>2, <2>3
<1>16. ForgetInv'
  BY <1>0, <1>6, <1>7 DEF ForgetInv
<1>17. DisposeInv' /\ PcInv'
  <2>1. pc'[t].op \in {"destroy", "forget"} /\ pc'[t].buf = None
    BY <1>6, <1>7
  <2>2. PcInv'
    BY <1>0, <1>7, <2>1 DEF PcInv
  <2>3. \A u \in Threads : pc'[u].op = "dispose" <=> iso'[u] = "disposing"
    BY <1>0, <1>1, <1>7, <2>1 DEF DisposeInv
  <2>4. ASSUME NEW u \in Threads, iso'[u] # "alive", NEW x \in Stores, Live(x)',
               BufOf(u, store[x].pin)'
        PROVE  iso'[u] = "disposing" /\ x \in todo'[u]
    <3>1. /\ Live(x) /\ store'[x].pin = store[x].pin
          /\ store'[x].pin \in Bufs /\ buf'[store'[x].pin] # None
          /\ buf'[store'[x].pin].iso = u
      BY <1>5, <2>4 DEF StoresKept, BufOf
    <3>2. store[x].pin # b
      BY <1>2, <3>1
    <3>3. BufOf(u, store[x].pin)
      BY <1>2, <3>1, <3>2 DEF BufOf
    <3> QED BY <1>0, <1>1, <2>4, <3>1, <3>3 DEF DisposeInv
  <2>5. DisposeInv'
    BY <2>3, <2>4 DEF DisposeInv
  <2> QED BY <2>2, <2>5
<1>18. TodoInv'
  <2>1. \A u \in Threads : \A x \in todo[u] :
          /\ u # t /\ pc'[u] = pc[u] /\ x \in Stores
          /\ store[x].pin # b /\ store[x].pin \in Bufs
    BY <1>0, <1>1, <1>2, <1>7 DEF TodoInv, Shape, BufOf
  <2> QED BY <1>0, <1>1, <1>2, <1>5, <2>1 DEF TodoInv, StoresKept, Live, BufOf
<1>19. RegistryInv'
  BY <1>0, <1>1, <1>5, RegistryKept
<1>20. BlockInv'
  <2>1. \A x \in Addrs : StoreOwners(x)' = StoreOwners(x)
    BY <1>5 DEF StoreOwners, StoresKept
  <2>2. \A x \in Addrs : BufferOwners(x)' = BufferOwners(x)
    BY <1>1, <1>2 DEF BufferOwners
  <2>3. \A x \in Addrs : ListOwners(x)' = ListOwners(x)
    BY <1>1 DEF ListOwners
  <2> QED BY <1>0, <1>1, <2>1, <2>2, <2>3 DEF BlockInv
<1> QED BY <1>9, <1>10, <1>11, <1>12, <1>13, <1>14, <1>15, <1>16, <1>17, <1>18,
        <1>19, <1>20 DEF StoresInv

(* Collect.                                                                *)
LEMMA CollectKeeps ==
  ASSUME StoresInv, Uses = {}, NEW t \in Threads, NEW b \in Bufs, Collect(t, b)
  PROVE  StoresInv'
<1>0. Shape /\ TodoInv /\ DisposeInv
  BY DEF StoresInv
<1>1. /\ pc[t].op = "idle" /\ todo[t] = {}
      /\ BufOf(t, b) /\ iso[t] \in {"alive", "freeing"}
  BY <1>0, IdleFields DEF Collect, Garbage, BufsOf, BufOf, TodoInv
<1>2. \A s \in Stores : Live(s) => store[s].pin # b
  <2>1. CASE iso[t] = "alive"
    BY <2>1 DEF Collect, Garbage, Pins
  <2>2. CASE iso[t] = "freeing"
    BY <1>0, <1>1, <2>2 DEF DisposeInv
  <2> QED BY <1>1, <2>1, <2>2
<1>3. LettingGo(t, b, None)
  BY <1>1, <1>2 DEF LettingGo, Collect, registries, isolates
<1>4. LetBytesGo(t, b)
  BY DEF Collect
<1>5. CASE buf[b].store = None
  BY <1>3, <1>4, <1>5, EngineBytesGo DEF LetBytesGo
<1>6. CASE buf[b].store # None
  <2>1. PICK s \in Stores : s = buf[b].store
    BY <1>0, <1>1, <1>6, BufferFields DEF BufOf
  <2>2. FreeFunc(t, s) /\ allocated' = allocated
    BY <1>4, <1>6, <2>1 DEF LetBytesGo
  <2> QED BY <1>3, <2>1, <2>2, StoreBytesGo
<1> QED BY <1>5, <1>6

(* FinishDetach.                                                           *)
LEMMA FinishDetachKeeps ==
  ASSUME StoresInv, Uses = {}, NEW t \in Threads, FinishDetach(t)
  PROVE  StoresInv'
<1>0. Shape /\ DetachInv
  BY DEF StoresInv
<1>1. /\ pc[t].op = "detach" /\ todo[t] = {}
      /\ BufOf(t, pc[t].buf) /\ iso[t] = "alive"
      /\ \A s \in Stores : Live(s) => store[s].pin # pc[t].buf
  BY <1>0 DEF FinishDetach, DetachInv
<1>2. PICK b \in Bufs : b = pc[t].buf
  BY <1>1 DEF BufOf
<1>3. buf[b] \in Buffer /\ buf[b].iso = t
  BY <1>0, <1>1, <1>2, BufferFields DEF BufOf
<1>4. PICK q : q = [buf[b] EXCEPT !.addr = None, !.store = None]
  OBVIOUS
<1>5. q \in Buffer /\ q.iso = t /\ q.addr = None /\ q.store = None
  BY <1>3, <1>4 DEF Buffer
<1>6. buf' = [buf EXCEPT ![b] = q]
  BY <1>0, <1>2, <1>4 DEF FinishDetach, Shape
<1>7. LettingGo(t, b, q)
  BY <1>1, <1>2, <1>5, <1>6 DEF LettingGo, FinishDetach, registries, isolates
<1>8. LetBytesGo(t, b)
  BY <1>2 DEF FinishDetach
<1>9. CASE buf[b].store = None
  BY <1>7, <1>8, <1>9, EngineBytesGo DEF LetBytesGo
<1>10. CASE buf[b].store # None
  <2>1. PICK s \in Stores : s = buf[b].store
    BY <1>0, <1>1, <1>2, <1>10, BufferFields DEF BufOf
  <2>2. FreeFunc(t, s) /\ allocated' = allocated
    BY <1>8, <1>10, <2>1 DEF LetBytesGo
  <2> QED BY <1>7, <2>1, <2>2, StoreBytesGo
<1> QED BY <1>9, <1>10

(* An alias and a buffer with the same bytes: the alias pins the buffer.   *)
LEMMA AliasPinsBuffer ==
  ASSUME Shape, AliasInv, BufferInv, BlockInv, NEW s \in Stores, Live(s),
         store[s].by = "alias", NEW b \in Bufs, buf[b] # None,
         buf[b].addr = store[s].addr
  PROVE  store[s].pin = b
<1> USE NoneIsNothing
<1>1. PICK a \in Addrs : a = store[s].addr
  BY StoreFields DEF AliasInv
<1>2. /\ store[s].pin \in Bufs /\ buf[store[s].pin] # None
      /\ buf[store[s].pin].store = None /\ buf[store[s].pin].addr = a
  BY <1>1, StoreFields DEF AliasInv
<1>3. store[s].pin \in BufferOwners(a)
  BY <1>2 DEF BufferOwners
<1>4. buf[b].store \in Stores \cup {None}
  BY BufferFields
<1>5. CASE buf[b].store = None
  <2>1. b \in BufferOwners(a)
    BY <1>1, <1>5 DEF BufferOwners
  <2> QED BY <1>3, <2>1 DEF BlockInv, AtMostOne
<1>6. CASE buf[b].store # None
  <2>1. buf[b].store \in StoreOwners(a)
    BY <1>1, <1>4, <1>6 DEF StoreOwners, BufferInv
  <2> QED BY <1>3, <2>1 DEF BlockInv
<1> QED BY <1>5, <1>6

(* A thread takes aliases of its buffers out of the registry to move them: *)
(* all those of one buffer, or of all its buffers.                         *)
TakingAliases(t, mine) ==
  /\ pc[t].op = "idle" /\ iso[t] = "alive"
  /\ mine \subseteq Stores
  /\ \A s \in mine : /\ Live(s) /\ store[s].by = "alias"
                     /\ BufOf(t, store[s].pin)
  /\ todo' = [todo EXCEPT ![t] = mine]
  /\ aliases' \in [Addrs -> SUBSET Stores]
  /\ \A a \in Addrs : aliases'[a] = aliases[a] \ mine
  /\ UNCHANGED <<store, buf, refs, allocated, owners, pending>>
  /\ held' \subseteq Bufs

LEMMA AliasesTaken ==
  ASSUME StoresInv, NEW t \in Threads, NEW mine, TakingAliases(t, mine),
         pc'[t].op \in {"detach", "dispose"},
         \A u \in Threads \ {t} : pc'[u] = pc[u]
  PROVE  /\ todo' \in [Threads -> SUBSET Stores]
         /\ todo[t] = {} /\ todo'[t] = mine
         /\ \A u \in Threads \ {t} : todo'[u] = todo[u]
         /\ CountInv' /\ AliasInv' /\ TodoInv' /\ RegistryInv' /\ BlockInv'
<1>0. /\ Shape /\ CountInv /\ AliasInv /\ TodoInv /\ RegistryInv /\ BlockInv
  BY DEF StoresInv
<1>1. /\ UNCHANGED <<store, buf, refs, allocated, owners, pending>>
      /\ mine \subseteq Stores
      /\ \A s \in mine : Live(s) /\ store[s].by = "alias" /\ BufOf(t, store[s].pin)
      /\ \A a \in Addrs : aliases'[a] = aliases[a] \ mine
      /\ pc[t].op = "idle"
  BY DEF TakingAliases
<1>2. /\ todo' \in [Threads -> SUBSET Stores]
      /\ todo'[t] = mine
      /\ \A u \in Threads \ {t} : todo'[u] = todo[u]
  <2>1. todo \in [Threads -> SUBSET Stores]
    BY <1>0 DEF Shape
  <2>2. todo' = [todo EXCEPT ![t] = mine]
    BY DEF TakingAliases
  <2> QED BY <1>1, <2>1, <2>2
<1>3. todo[t] = {}
  BY <1>0, <1>1 DEF TodoInv
<1>4. CountInv'
  BY <1>0, <1>1, CountSame
<1>5. AliasInv'
  BY <1>0, <1>1 DEF AliasInv, Live
<1>6. TodoInv'
  BY <1>0, <1>1, <1>2 DEF TodoInv, Live, BufOf
<1>7. RegistryInv'
  <2>1. \A s \in Stores : Live(s) /\ store[s].by = "alias" => store[s].addr \in Addrs
    BY <1>0, StoreFields DEF AliasInv
  <2>2. \A s \in Stores : Live(s) /\ store[s].by = "alias"
          => \/ s \in aliases'[store[s].addr]
             \/ \E u \in Threads : s \in todo'[u]
    BY <1>0, <1>1, <1>2, <1>3, <2>1 DEF RegistryInv
  <2> QED BY <1>0, <1>1, <2>2 DEF RegistryInv, Live
<1>8. BlockInv'
  BY <1>0, <1>1 DEF BlockInv, StoreOwners, BufferOwners, ListOwners, Live
<1> QED BY <1>2, <1>3, <1>4, <1>5, <1>6, <1>7, <1>8

(* StartDetach, of a buffer at a.                                          *)
LEMMA StartDetachKeeps ==
  ASSUME StoresInv, NEW t \in Threads, NEW b \in Bufs, StartDetach(t, b)
  PROVE  StoresInv'
<1> USE NoneIsNothing
<1> DEFINE r == Step("detach", None, b)
<1>0. /\ Shape /\ CountInv
      /\ AliasInv /\ BufferInv /\ HomeInv
      /\ FoundInv /\ DestroyInv /\ ForgetInv /\ DetachInv /\ DisposeInv /\ PcInv
      /\ TodoInv /\ RegistryInv /\ BlockInv
  BY DEF StoresInv
<1>1. BufOf(t, b) /\ buf[b].addr # None
  BY DEF StartDetach, BufsOf, BufOf
<1>2. PICK a \in Addrs : a = buf[b].addr
  BY <1>0, <1>1, BufferFields DEF BufOf
<1>3. /\ iso[t] = "alive" /\ pc[t].op = "idle"
      /\ todo' = [todo EXCEPT ![t] = aliases[a]]
      /\ aliases' = [aliases EXCEPT ![a] = {}]
      /\ Enter(t, r)
      /\ UNCHANGED <<store, buf, held, refs, allocated, owners, pending, iso>>
  BY <1>2, IdleFields DEF StartDetach, Runs, isolates
<1>4. /\ r \in [op : {"idle", "found", "destroy", "forget", "detach", "dispose"},
                store : Stores \cup {None}, buf : Bufs \cup {None}]
      /\ r.op = "detach" /\ r.store = None /\ r.buf = b
  BY StepFields
<1> HIDE DEF r
<1>5. /\ pc' \in [Threads ->
           [op : {"idle", "found", "destroy", "forget", "detach", "dispose"},
            store : Stores \cup {None}, buf : Bufs \cup {None}]]
      /\ pc'[t] = r
      /\ \A u \in Threads \ {t} : pc'[u] = pc[u]
  BY <1>0, <1>3, <1>4, Entered
<1>6. /\ aliases[a] \subseteq Stores
      /\ aliases' \in [Addrs -> SUBSET Stores]
      /\ \A x \in Addrs : aliases'[x] = aliases[x] \ aliases[a]
  <2>1. aliases \in [Addrs -> SUBSET Stores]
    BY <1>0 DEF Shape
  <2>2. \A x \in Addrs \ {a} : aliases[x] \cap aliases[a] = {}
    BY <1>0 DEF RegistryInv
  <2>3. \A x \in Addrs \ {a} : aliases'[x] = aliases[x]
    BY <1>3, <2>1
  <2>4. aliases'[a] = {} /\ aliases' \in [Addrs -> SUBSET Stores]
    BY <1>3, <2>1
  <2>5. ASSUME NEW x \in Addrs PROVE aliases'[x] = aliases[x] \ aliases[a]
    <3>1. CASE x = a
      BY <2>4, <3>1
    <3>2. CASE x # a
      BY <2>2, <2>3, <3>2
    <3> QED BY <3>1, <3>2
  <2> QED BY <2>1, <2>4, <2>5
<1>7. TakingAliases(t, aliases[a])
  <2>1. \A s \in aliases[a] : /\ Live(s) /\ store[s].by = "alias"
                              /\ store[s].addr = a
    BY <1>0 DEF RegistryInv
  <2>2. \A s \in aliases[a] : store[s].pin = b
    BY <1>0, <1>1, <1>2, <1>6, <2>1, AliasPinsBuffer DEF BufOf
  <2>3. held' \subseteq Bufs
    BY <1>0, <1>3 DEF Shape
  <2> QED BY <1>1, <1>3, <1>6, <2>1, <2>2, <2>3 DEF TakingAliases
<1>8. /\ todo' \in [Threads -> SUBSET Stores]
      /\ todo[t] = {} /\ todo'[t] = aliases[a]
      /\ \A u \in Threads \ {t} : todo'[u] = todo[u]
      /\ CountInv' /\ AliasInv' /\ TodoInv' /\ RegistryInv' /\ BlockInv'
  <2>1. PICK mine : mine = aliases[a]
    OBVIOUS
  <2>2. pc'[t].op \in {"detach", "dispose"}
    BY <1>4, <1>5
  <2>3. TakingAliases(t, mine)
    BY <1>7, <2>1
  <2> QED BY <1>5, <2>1, <2>2, <2>3, AliasesTaken
<1>9. Shape'
  BY <1>0, <1>3, <1>5, <1>6, <1>8 DEF Shape
<1>10. BufferInv'
  BY <1>0, <1>3 DEF BufferInv, Live
<1>11. HomeInv'
  BY <1>0, <1>3, <1>5, StoreFields DEF HomeInv, Live, BufOf
<1>12. FoundInv' /\ DestroyInv' /\ ForgetInv'
  BY <1>0, <1>3, <1>4, <1>5 DEF FoundInv, DestroyInv, Forgets, ForgetInv, BufOf, Live
<1>13. DetachInv'
  <2>1. ASSUME NEW s \in Stores, Live(s), store[s].pin = b PROVE s \in aliases[a]
    <3>1. store[s].by = "alias" /\ store[s].addr = a
      BY <1>0, <1>2, <2>1 DEF AliasInv
    <3>2. \A u \in Threads : s \in todo[u] => u = t
      BY <1>0, <1>1, <2>1 DEF TodoInv, BufOf
    <3> QED BY <1>0, <1>8, <2>1, <3>1, <3>2 DEF RegistryInv
  <2> QED BY <1>0, <1>1, <1>3, <1>4, <1>5, <1>8, <2>1 DEF DetachInv, BufOf, Live
<1>14. DisposeInv' /\ PcInv'
  BY <1>0, <1>3, <1>4, <1>5, <1>8 DEF DisposeInv, PcInv, BufOf, Live
<1> QED BY <1>8, <1>9, <1>10, <1>11, <1>12, <1>13, <1>14 DEF StoresInv

(* StartDispose.                                                           *)
LEMMA StartDisposeKeeps ==
  ASSUME StoresInv, NEW t \in Threads, StartDispose(t)
  PROVE  StoresInv'
<1> USE NoneIsNothing
<1> DEFINE r == Step("dispose", None, None)
<1>0. /\ Shape /\ CountInv
      /\ AliasInv /\ BufferInv /\ HomeInv
      /\ FoundInv /\ DestroyInv /\ ForgetInv /\ DetachInv /\ DisposeInv /\ PcInv
      /\ TodoInv /\ RegistryInv /\ BlockInv
  BY DEF StoresInv
<1>1. PICK mine : mine = RuntimeAliases(t)
  OBVIOUS
<1>2. /\ iso[t] = "alive" /\ pc[t].op = "idle"
      /\ iso' = [iso EXCEPT ![t] = "disposing"]
      /\ todo' = [todo EXCEPT ![t] = mine]
      /\ aliases' = [a \in Addrs |-> aliases[a] \ mine]
      /\ held' = held \ BufsOf(t)
      /\ Enter(t, r)
      /\ UNCHANGED <<store, buf, refs, allocated, owners, pending>>
  BY <1>1, IdleFields DEF StartDispose, Runs
<1>3. \A s : s \in mine <=> /\ \E a \in Addrs : s \in aliases[a]
                            /\ store[s].pin \in BufsOf(t)
  <2>1. DOMAIN aliases = Addrs
    BY <1>0 DEF Shape
  <2>2. \A s : s \in UNION Range(aliases) <=> \E a \in Addrs : s \in aliases[a]
    BY <2>1 DEF Range
  <2> QED BY <1>1, <2>2 DEF RuntimeAliases
<1>4. /\ r \in [op : {"idle", "found", "destroy", "forget", "detach", "dispose"},
                store : Stores \cup {None}, buf : Bufs \cup {None}]
      /\ r.op = "dispose" /\ r.store = None /\ r.buf = None
  BY StepFields
<1> HIDE DEF r
<1>5. /\ pc' \in [Threads ->
           [op : {"idle", "found", "destroy", "forget", "detach", "dispose"},
            store : Stores \cup {None}, buf : Bufs \cup {None}]]
      /\ pc'[t] = r
      /\ \A u \in Threads \ {t} : pc'[u] = pc[u]
  BY <1>0, <1>2, <1>4, Entered
<1>6. /\ iso' \in [Threads -> {"alive", "disposing", "freeing", "disposed"}]
      /\ iso'[t] = "disposing"
      /\ \A u \in Threads \ {t} : iso'[u] = iso[u]
  BY <1>0, <1>2 DEF Shape
<1>7. TakingAliases(t, mine)
  <2>1. \A a \in Addrs : aliases[a] \subseteq Stores
    BY <1>0 DEF Shape
  <2>2. mine \subseteq Stores
    BY <1>3, <2>1
  <2>3. \A s \in mine : Live(s) /\ store[s].by = "alias" /\ BufOf(t, store[s].pin)
    BY <1>0, <1>3 DEF RegistryInv, BufsOf, BufOf
  <2>4. /\ aliases' \in [Addrs -> SUBSET Stores]
        /\ \A a \in Addrs : aliases'[a] = aliases[a] \ mine
    BY <1>2, <2>1
  <2>5. held' \subseteq Bufs
    BY <1>0, <1>2 DEF Shape
  <2> QED BY <1>2, <2>2, <2>3, <2>4, <2>5 DEF TakingAliases
<1>8. /\ todo' \in [Threads -> SUBSET Stores]
      /\ todo[t] = {} /\ todo'[t] = mine
      /\ \A u \in Threads \ {t} : todo'[u] = todo[u]
      /\ CountInv' /\ AliasInv' /\ TodoInv' /\ RegistryInv' /\ BlockInv'
  <2>1. pc'[t].op \in {"detach", "dispose"}
    BY <1>4, <1>5
  <2> QED BY <1>5, <1>7, <2>1, AliasesTaken
<1>9. Shape'
  BY <1>0, <1>2, <1>5, <1>6, <1>7, <1>8 DEF Shape, TakingAliases
<1>10. BufferInv'
  BY <1>0, <1>2, <1>6, BufferFields DEF BufferInv, Live
<1>11. HomeInv'
  BY <1>0, <1>2, <1>5, <1>6, StoreFields DEF HomeInv, Live, BufOf
<1>12. FoundInv' /\ DestroyInv' /\ ForgetInv' /\ DetachInv'
  <2>1. \A u \in Threads : pc'[u].op # "dispose"
          => /\ pc'[u] = pc[u] /\ iso'[u] = iso[u] /\ todo'[u] = todo[u]
    BY <1>4, <1>5, <1>6, <1>8
  <2>2. FoundInv' /\ DetachInv'
    BY <1>0, <1>2, <2>1 DEF FoundInv, DetachInv, BufOf, Live
  <2>3. DestroyInv' /\ ForgetInv'
    <3>1. \A h \in Threads : pc[h].op = "forget" => pc'[h] = pc[h]
      BY <1>2, <1>5, IdleFields
    <3> QED BY <1>0, <1>2, <2>1, <3>1 DEF DestroyInv, Forgets, ForgetInv, BufOf, Live
  <2> QED BY <2>2, <2>3
<1>13. DisposeInv'
  <2>1. ASSUME NEW s \in Stores, Live(s), BufOf(t, store[s].pin) PROVE s \in mine
    <3>1. store[s].by = "alias" /\ store[s].addr \in Addrs
      BY <1>0, <2>1, StoreFields DEF AliasInv, BufOf
    <3>2. \A u \in Threads : s \in todo[u] => u = t
      BY <1>0, <2>1 DEF TodoInv, BufOf
    <3>3. s \in aliases[store[s].addr]
      BY <1>0, <1>8, <2>1, <3>1, <3>2 DEF RegistryInv
    <3>4. store[s].pin \in BufsOf(t)
      BY <2>1 DEF BufsOf, BufOf
    <3> QED BY <1>3, <3>1, <3>3, <3>4
  <2> QED BY <1>0, <1>2, <1>4, <1>5, <1>6, <1>8, <2>1 DEF DisposeInv, BufOf, Live
<1>14. PcInv'
  BY <1>0, <1>4, <1>5 DEF PcInv
<1> QED BY <1>8, <1>9, <1>10, <1>11, <1>12, <1>13, <1>14 DEF StoresInv

(* MoveAlias.                                                              *)
LEMMA MoveAliasKeeps ==
  ASSUME StoresInv, NEW t \in Threads, NEW s \in Stores, NEW a \in Addrs,
         MoveAlias(t, s, a)
  PROVE  StoresInv'
<1> USE NoneIsNothing
<1>0. /\ Shape /\ CountInv
      /\ AliasInv /\ BufferInv /\ HomeInv
      /\ FoundInv /\ DestroyInv /\ ForgetInv /\ DetachInv /\ DisposeInv /\ PcInv
      /\ TodoInv /\ RegistryInv /\ BlockInv
  BY DEF StoresInv
<1>1. /\ pc[t].op \in {"detach", "dispose"} /\ s \in todo[t] /\ a \notin allocated
      /\ store' = [store EXCEPT ![s].addr = a, ![s].by = "malloc", ![s].pin = None]
      /\ allocated' = allocated \cup {a}
      /\ todo' = [todo EXCEPT ![t] = todo[t] \ {s}]
      /\ UNCHANGED <<buf, held, refs, aliases, owners, pending, iso, pc>>
  BY <1>0 DEF MoveAlias, registries, isolates, Shape
<1>2. /\ Live(s) /\ store[s].by = "alias" /\ store[s].iso = None
      /\ BufOf(t, store[s].pin)
      /\ \A x \in Addrs : s \notin aliases[x]
      /\ \A u \in Threads \ {t} : s \notin todo[u]
  BY <1>0, <1>1 DEF TodoInv, AliasInv, BufOf
<1>3. /\ store' \in [Stores -> Store \cup {None}]
      /\ store'[s] # None /\ store'[s].addr = a /\ store'[s].by = "malloc"
      /\ store'[s].pin = None /\ store'[s].iso = None
      /\ store'[s].count = store[s].count
      /\ \A x \in Stores \ {s} : store'[x] = store[x]
  <2>1. store[s] \in Store
    BY <1>0, <1>2, StoreFields
  <2> DEFINE r == [store[s] EXCEPT !.addr = a, !.by = "malloc", !.pin = None]
  <2>2. /\ r \in Store /\ r # None
        /\ r.addr = a /\ r.by = "malloc" /\ r.pin = None
        /\ r.iso = store[s].iso /\ r.count = store[s].count
    BY <2>1 DEF Store
  <2>3. store' = [store EXCEPT ![s] = r]
    BY <1>0, <1>1 DEF Shape
  <2> HIDE DEF r
  <2>4. /\ store' \in [Stores -> Store \cup {None}]
        /\ store'[s] = r
        /\ \A x \in Stores \ {s} : store'[x] = store[x]
    BY <1>0, <2>2, <2>3 DEF Shape
  <2> QED BY <1>2, <2>2, <2>4
<1>4. /\ todo' \in [Threads -> SUBSET Stores]
      /\ todo'[t] = todo[t] \ {s}
      /\ \A u \in Threads : todo'[u] = todo[u] \ {s}
  <2>1. todo \in [Threads -> SUBSET Stores] /\ todo[t] \ {s} \in SUBSET Stores
    BY <1>0 DEF Shape
  <2> QED BY <1>1, <1>2, <2>1
<1>5. \A u \in Threads : pc[u].store \in Stores \cup {None}
  BY <1>0 DEF Shape
<1>6. \A x \in Bufs : buf[x] # None => buf[x].store # s
  BY <1>0, <1>2 DEF BufferInv
<1>7. /\ StoreOwners(a) = {} /\ BufferOwners(a) = {}
  BY <1>0, <1>1, FreshAddress
<1>8. Shape'
  <2>1. allocated' \subseteq Addrs
    BY <1>0, <1>1 DEF Shape
  <2>2. UNCHANGED <<buf, held, refs, aliases, owners, pending, iso, pc>>
    BY <1>1
  <2> QED BY <1>0, <1>3, <1>4, <2>1, <2>2 DEF Shape
<1>9. CountInv'
  <2>1. \A x \in Stores : Users(x)' = Users(x)
    BY <1>1, UsersSame
  <2> QED BY <1>0, <1>2, <1>3, <2>1, CountKept DEF Live
<1>10. AliasInv'
  BY <1>0, <1>1, <1>3 DEF AliasInv, Live
<1>11. BufferInv'
  BY <1>0, <1>1, <1>3, <1>6, BufferFields DEF BufferInv, Live
<1>12. HomeInv'
  BY <1>0, <1>1, <1>3 DEF HomeInv, Live, BufOf
<1>13. FoundInv' /\ PcInv'
  BY <1>0, <1>1 DEF FoundInv, PcInv, BufOf
<1>14. DestroyInv'
  <2>1. \A x \in Stores : store[x] # None
          => /\ store'[x] # None /\ store'[x].count = store[x].count
             /\ store'[x].iso \in {None, store[x].iso}
             /\ store'[x].pin \in {None, store[x].pin}
    BY <1>2, <1>3
  <2>2. UNCHANGED <<buf, pc>>
    BY <1>1
  <2> QED BY <1>0, <1>5, <2>1, <2>2 DEF DestroyInv, Forgets, Live, BufOf
<1>15. ForgetInv'
  <2>1. \A x \in Stores : store[x] # None
          => store'[x] # None /\ store'[x].count = store[x].count
    BY <1>3
  <2>2. pc' = pc
    BY <1>1
  <2> QED BY <1>0, <1>5, <2>1, <2>2 DEF ForgetInv, Live
<1>16. DetachInv'
  BY <1>0, <1>1, <1>3, <1>4 DEF DetachInv, Live, BufOf
<1>17. DisposeInv'
  BY <1>0, <1>1, <1>3, <1>4 DEF DisposeInv, Live, BufOf
<1>18. TodoInv'
  <2>1. \A u \in Threads : \A x \in todo'[u] : x \in todo[u] /\ x \in Stores \ {s}
    BY <1>4
  <2> QED BY <1>0, <1>1, <1>3, <2>1 DEF TodoInv, Live, BufOf
<1>19. RegistryInv'
  <2>1. /\ \A x \in Addrs : owners[x] # None => owners[x] \in Stores \ {s}
        /\ \A x \in Addrs : \A y \in aliases[x] : y \in Stores \ {s}
    BY <1>0, <1>2 DEF RegistryInv, Shape
  <2>2. \A x \in Stores : store'[x].by = "alias" => x # s
    BY <1>3
  <2> QED BY <1>0, <1>1, <1>3, <1>4, <2>1, <2>2 DEF RegistryInv, Live
<1>20. BlockInv'
  <2>1. \A x \in Addrs : BufferOwners(x)' = BufferOwners(x)
    BY <1>1 DEF BufferOwners
  <2>2. \A x \in Addrs \ {a} : StoreOwners(x)' = StoreOwners(x)
    BY <1>2, <1>3 DEF StoreOwners, Live
  <2>3. StoreOwners(a)' = {s}
    BY <1>2, <1>3, <1>7 DEF StoreOwners, Live
  <2> QED BY <1>0, <1>1, <1>7, <2>1, <2>2, <2>3, BlockTaken
<1> QED BY <1>8, <1>9, <1>10, <1>11, <1>12, <1>13, <1>14, <1>15, <1>16, <1>17,
        <1>18, <1>19, <1>20 DEF StoresInv

-----------------------------------------------------------------------------
LEMMA StoresInvInit == Init => StoresInv
<1> SUFFICES ASSUME Init PROVE StoresInv
  OBVIOUS
<1>1. Shape
  BY IdleFields DEF Init, Shape
<1>2. \A s \in Stores : ~ Live(s)
  BY DEF Init, Live
<1>3. CountInv
  <2>1. ASSUME NEW s \in Stores PROVE Users(s) = {}
    <3>1. \A x : x \in Users(s) => FALSE
      <4>1. /\ \A t \in Threads : refs[t][s] = 0
            /\ \A b \in Bufs : buf[b] = None
        BY DEF Init
      <4>2. \A k \in 1 .. 0 : FALSE
        OBVIOUS
      <4> QED BY <4>1, <4>2, UserMembers
    <3> QED BY <3>1
  <2> QED BY <1>2, <2>1, FS_EmptySet DEF CountInv
<1>4. AliasInv /\ BufferInv /\ HomeInv
  BY <1>2 DEF Init, AliasInv, BufferInv, HomeInv
<1>5. \A t \in Threads : pc[t].op = "idle" /\ pc[t].store = None /\ pc[t].buf = None
  BY IdleFields DEF Init
<1>6. FoundInv /\ DestroyInv /\ ForgetInv /\ DetachInv /\ PcInv
  BY <1>5 DEF FoundInv, DestroyInv, ForgetInv, DetachInv, PcInv
<1>7. DisposeInv /\ TodoInv
  BY <1>5 DEF Init, DisposeInv, TodoInv
<1>8. RegistryInv
  BY <1>2 DEF Init, RegistryInv
<1>9. BlockInv
  <2>1. \A a \in Addrs : /\ StoreOwners(a) = {} /\ BufferOwners(a) = {}
                         /\ ListOwners(a) = {}
    BY <1>2 DEF Init, StoreOwners, BufferOwners, ListOwners
  <2> QED BY <2>1 DEF Init, BlockInv, AtMostOne
<1> QED BY <1>1, <1>3, <1>4, <1>6, <1>7, <1>8, <1>9 DEF StoresInv

LEMMA StoresInvStutters ==
  ASSUME StoresInv, UNCHANGED storeVars
  PROVE  StoresInv'
<1>1. UNCHANGED <<store, buf, held, refs, allocated, aliases, owners, pending, iso,
                  pc, todo>>
  BY DEF storeVars, registries, isolates
<1>2. Shape'
  BY <1>1 DEF StoresInv, Shape
<1>3. CountInv'
  BY <1>1, CountSame DEF StoresInv
<1>4. /\ AliasInv' /\ BufferInv' /\ HomeInv'
      /\ FoundInv' /\ DestroyInv' /\ ForgetInv' /\ DetachInv' /\ DisposeInv'
      /\ PcInv' /\ TodoInv' /\ RegistryInv'
  BY <1>1 DEF StoresInv, AliasInv, BufferInv, HomeInv, FoundInv, DestroyInv, Forgets,
     ForgetInv, DetachInv, DisposeInv, PcInv, TodoInv, RegistryInv, Live, BufOf
<1>5. BlockInv'
  BY <1>1 DEF StoresInv, BlockInv, StoreOwners, BufferOwners, ListOwners, Live
<1> QED BY <1>2, <1>3, <1>4, <1>5 DEF StoresInv

LEMMA StoresInvNext ==
  ASSUME Uses = {}, StoresInv, [Next]_storeVars
  PROVE  StoresInv'
<1>1. CASE UNCHANGED storeVars
  BY <1>1, StoresInvStutters
<1>2. ASSUME NEW t \in Threads, Create(t) PROVE StoresInv'
  <2>1. ASSUME NEW b \in Bufs, NEW s \in Stores, NEW a \in Addrs \cup {None},
               NewBuffer(t, b, s, a)
        PROVE  StoresInv'
    BY <2>1, NewBufferKeeps
  <2>2. ASSUME NEW b \in Bufs, NEW s \in Stores, NEW a \in Addrs,
               CopyIntoBuffer(t, s, b, a)
        PROVE  StoresInv'
    BY <2>2, NewEngineBufferKeeps DEF CopyIntoBuffer
  <2>3. ASSUME NEW b \in Bufs, NEW s \in Stores, WrapInBuffer(t, s, b)
        PROVE  StoresInv'
    BY <2>3, WrapKeeps
  <2>4. ASSUME NEW b \in Bufs, NEW a \in Addrs, NewEngineBuffer(t, b, a)
        PROVE  StoresInv'
    BY <2>4, NewEngineBufferKeeps
  <2>5. ASSUME NEW s \in Stores, NEW a \in Addrs, NEW by \in {"malloc", "owned"},
               NewStore(t, s, a, by)
        PROVE  StoresInv'
    BY <2>5, NewStoreKeeps
  <2> QED BY <1>2, <2>1, <2>2, <2>3, <2>4, <2>5 DEF Create
<1>3. ASSUME NEW t \in Threads, UseRefs(t) PROVE StoresInv'
  <2>1. CASE CountIn(t)
    BY <2>1, CountInKeeps
  <2>2. CASE Destroy(t)
    BY <2>2, DestroyKeeps
  <2>3. ASSUME NEW s \in Stores, MakeAlias(t, s) \/ CopyRef(t, s) \/ DropRef(t, s)
        PROVE  StoresInv'
    BY <2>3, MakeAliasKeeps, CopyRefKeeps, DropRefKeeps
  <2>4. ASSUME NEW s \in Stores, NEW u \in Threads, SendRef(t, u, s)
        PROVE  StoresInv'
    BY <2>4, SendRefKeeps
  <2> QED BY <1>3, <2>1, <2>2, <2>3, <2>4 DEF UseRefs
<1>4. ASSUME NEW t \in Threads, UseBuffers(t) PROVE StoresInv'
  <2>1. CASE ForgetIsolate(t) \/ LowMemory(t) \/ FinishDetach(t)
    BY <2>1, ForgetIsolateKeeps, LowMemoryKeeps, FinishDetachKeeps
  <2>2. ASSUME NEW b \in Bufs, LookupOwner(t, b) \/ DropHandle(t, b)
        PROVE  StoresInv'
    BY <2>2, LookupKeeps, DropHandleKeeps
  <2>3. ASSUME NEW b \in Bufs, Collect(t, b) \/ StartDetach(t, b)
        PROVE  StoresInv'
    BY <2>3, CollectKeeps, StartDetachKeeps
  <2>4. ASSUME NEW s \in Stores, NEW a \in Addrs, MoveAlias(t, s, a)
        PROVE  StoresInv'
    BY <2>4, MoveAliasKeeps
  <2> QED BY <1>4, <2>1, <2>2, <2>3, <2>4 DEF UseBuffers
<1>5. ASSUME NEW t \in Threads, End(t) PROVE StoresInv'
  BY <1>5, StartDisposeKeeps, FreeRuntimeKeeps, FinishDisposeKeeps DEF End
<1> QED BY <1>1, <1>2, <1>3, <1>4, <1>5 DEF Next

LEMMA StoresSafe ==
  ASSUME Uses = {}
  PROVE  Spec => []StoresInv
<1>1. StoresInv /\ [Next]_storeVars => StoresInv'
  BY StoresInvNext
<1> QED BY <1>1, StoresInvInit, PTL DEF Spec

-----------------------------------------------------------------------------
(* The count of a store (CountsExact): BsInner's strong count is the number *)
(* of shared references in all threads and of buffers whose bs_free_func is *)
(* to come; so the last of them, and only the last, destroys it.           *)
THEOREM CountsStayExact ==
  ASSUME Uses = {}
  PROVE  Spec => []CountsExact
<1>1. StoresInv => CountsExact
  BY DEF StoresInv, CountInv, CountsExact
<1> QED BY <1>1, StoresSafe, PTL

(* What was looked up is there when it is used (NoDanglingAccess), as      *)
(* late as the thread may come and whatever other threads drop meanwhile.  *)
(* The one access that is not safe is left out by the property: the write  *)
(* at the end of bs_free_func.                                             *)
THEOREM NothingDangles ==
  ASSUME Uses = {}
  PROVE  Spec => []NoDanglingAccess
<1>1. StoresInv => NoDanglingAccess
  <2> SUFFICES ASSUME StoresInv, NEW t \in Threads
               PROVE  /\ pc[t].store # None /\ pc[t].op # "forget" => Live(pc[t].store)
                      /\ \A s \in todo[t] : Live(s) /\ store[s].by = "alias"
    BY DEF NoDanglingAccess
  <2>0. /\ Shape /\ BufferInv /\ FoundInv /\ DestroyInv /\ PcInv /\ TodoInv
    BY DEF StoresInv
  <2>1. pc[t].op \in {"idle", "found", "destroy", "forget", "detach", "dispose"}
    BY <2>0 DEF Shape
  <2>2. pc[t].store # None /\ pc[t].op # "forget" => Live(pc[t].store)
    BY <2>0, <2>1 DEF BufferInv, FoundInv, DestroyInv, PcInv, BufOf
  <2>3. \A s \in todo[t] : Live(s) /\ store[s].by = "alias"
    BY <2>0 DEF TodoInv
  <2> QED BY <2>2, <2>3
<1> QED BY <1>1, StoresSafe, PTL

(* Who destroys a store (DestroyedAtHome): as long as no alias is sent to  *)
(* another thread, the thread of the isolate that the store refers to,     *)
(* except between the two steps of bs_free_func, however threads drop      *)
(* their references.                                                       *)
THEOREM DestructionAtHome ==
  ASSUME Uses = {}
  PROVE  Spec => []DestroyedAtHome
<1>1. StoresInv => DestroyedAtHome
  <2> SUFFICES ASSUME StoresInv, NEW t \in Threads, pc[t].op = "destroy"
               PROVE  /\ store[pc[t].store].pin # None
                           => store[pc[t].store].pin \in BufsOf(t)
                      /\ store[pc[t].store].iso # None =>
                           IF store[pc[t].store].iso = t THEN iso[t] # "disposed"
                           ELSE pc[store[pc[t].store].iso]
                                  = Step("forget", pc[t].store, None)
    BY DEF DestroyedAtHome
  <2>0. Shape /\ DestroyInv /\ HomeInv /\ PcInv
    BY DEF StoresInv
  <2>1. /\ pc[t].store \in Stores /\ Live(pc[t].store)
        /\ \/ store[pc[t].store].iso \in {None, t}
           \/ Forgets(store[pc[t].store].iso, pc[t].store)
        /\ store[pc[t].store].pin # None => BufOf(t, store[pc[t].store].pin)
    BY <2>0 DEF Shape, DestroyInv
  <2>2. store[pc[t].store].iso \in Threads \cup {None}
    BY <2>0, <2>1, StoreFields, NoneIsNothing
  <2>3. ASSUME NEW h \in Threads, Forgets(h, pc[t].store)
        PROVE  pc[h] = Step("forget", pc[t].store, None)
    <3>1. /\ pc[h].op = "forget" /\ pc[h].store = pc[t].store /\ pc[h].buf = None
      BY <2>0, <2>3 DEF Forgets, PcInv
    <3>2. pc[h] \in [op : {"idle", "found", "destroy", "forget", "detach", "dispose"},
                     store : Stores \cup {None}, buf : Bufs \cup {None}]
      BY <2>0 DEF Shape
    <3> QED BY <3>1, <3>2 DEF Step
  <2> QED BY <2>0, <2>1, <2>2, <2>3 DEF HomeInv, BufOf, BufsOf
<1> QED BY <1>1, StoresSafe, PTL

(* No store points into an isolate that is gone (NoDeadContext): what      *)
(* release_backing_stores_for_runtime is there for, aliases of empty       *)
(* buffers aside.                                                          *)
THEOREM DeadContextsUnreferenced ==
  ASSUME Uses = {}
  PROVE  Spec => []NoDeadContext
<1>1. StoresInv => NoDeadContext
  BY DEF StoresInv, AliasInv, HomeInv, NoDeadContext
<1> QED BY <1>1, StoresSafe, PTL

(* Every block in use has one owner and every other none, and what a live  *)
(* store or an attached buffer shows is in use (BlocksOwnedOnce): no byte  *)
(* is freed under a reader, freed twice or lost, whoever frees it; that    *)
(* is, without the uses that Uses names, above all a getter `resizable`    *)
(* that detaches a buffer while its alias is made.                         *)
THEOREM OneOwnerPerBlock ==
  ASSUME Uses = {}
  PROVE  Spec => []BlocksOwnedOnce
<1>1. ASSUME StoresInv PROVE BlocksOwnedOnce
  <2>0. Shape /\ AliasInv /\ BufferInv /\ BlockInv
    BY <1>1 DEF StoresInv
  <2>1. ASSUME NEW a \in Addrs
        PROVE  Cardinality(Owners(a)) = IF a \in allocated THEN 1 ELSE 0
    <3> DEFINE S == { <<"store", s>> : s \in StoreOwners(a) }
               B == { <<"buffer", b>> : b \in BufferOwners(a) }
               L == { <<"pending", t>> : t \in ListOwners(a) }
    <3>1. Owners(a) = S \cup B \cup L
      BY DEF Owners, StoreOwners, BufferOwners, ListOwners
    <3>2. /\ a \in allocated <=> \/ StoreOwners(a) # {} \/ BufferOwners(a) # {}
                                 \/ ListOwners(a) # {}
          /\ AtMostOne(StoreOwners(a)) /\ AtMostOne(BufferOwners(a))
          /\ AtMostOne(ListOwners(a))
          /\ StoreOwners(a) = {} \/ BufferOwners(a) = {}
          /\ StoreOwners(a) = {} \/ ListOwners(a) = {}
          /\ BufferOwners(a) = {} \/ ListOwners(a) = {}
      BY <2>0 DEF BlockInv
    <3>3. CASE a \in allocated
      <4>1. \E o : Owners(a) = {o}
        <5>1. CASE StoreOwners(a) # {}
          <6>1. PICK s : StoreOwners(a) = {s}
            BY <3>2, <5>1 DEF AtMostOne
          <6>2. S = {<<"store", s>>} /\ B = {} /\ L = {}
            BY <3>2, <5>1, <6>1
          <6> QED BY <3>1, <6>2
        <5>2. CASE BufferOwners(a) # {}
          <6>1. PICK b : BufferOwners(a) = {b}
            BY <3>2, <5>2 DEF AtMostOne
          <6>2. S = {} /\ B = {<<"buffer", b>>} /\ L = {}
            BY <3>2, <5>2, <6>1
          <6> QED BY <3>1, <6>2
        <5>3. CASE ListOwners(a) # {}
          <6>1. PICK t : ListOwners(a) = {t}
            BY <3>2, <5>3 DEF AtMostOne
          <6>2. S = {} /\ B = {} /\ L = {<<"pending", t>>}
            BY <3>2, <5>3, <6>1
          <6> QED BY <3>1, <6>2
        <5> QED BY <3>2, <3>3, <5>1, <5>2, <5>3
      <4>2. Cardinality(Owners(a)) = 1
        BY <4>1, FS_Singleton
      <4> QED BY <3>3, <4>2
    <3>4. CASE a \notin allocated
      <4>1. S = {} /\ B = {} /\ L = {}
        BY <3>2, <3>4
      <4>2. Owners(a) = {}
        BY <3>1, <4>1
      <4> QED BY <3>4, <4>2, FS_EmptySet
    <3> QED BY <3>3, <3>4
  <2>2. \A s \in Stores : Live(s) /\ store[s].addr # None
                           => store[s].addr \in allocated
    BY <2>0, LiveAllocated
  <2>3. \A b \in Bufs : buf[b] # None /\ buf[b].addr # None
                         => buf[b].addr \in allocated
    BY <2>0, AttachedAllocated
  <2> QED BY <2>1, <2>2, <2>3 DEF BlocksOwnedOnce
<1> QED BY <1>1, StoresSafe, PTL

(* Owner and alias registry find what has its bytes at an address and      *)
(* nothing else (RegistriesExact), as long as no buffer is made of an      *)
(* alias and no getter detaches one while an alias is made.                *)
THEOREM RegistriesStayExact ==
  ASSUME Uses = {}
  PROVE  Spec => []RegistriesExact
<1>1. StoresInv => RegistriesExact
  BY DEF StoresInv, RegistryInv, BufferInv, RegistriesExact
<1> QED BY <1>1, StoresSafe, PTL
=============================================================================
