---------------------------- MODULE BackingStores ----------------------------
(***************************************************************************)
(* Array buffers and their backing stores in the QuickJS backend           *)
(* (src/quickjs/arraybuffer.rs): the reference count of a BsInner, the two *)
(* process-wide registries that find a store by the address of its bytes,  *)
(* and what happens to the bytes at Detach and at the end of an isolate.   *)
(*                                                                         *)
(* Every thread runs one isolate; shared references travel between them.   *)
(* A buffer either holds a reference to a store (bs_free_func is its       *)
(* finalizer) or owns engine memory.  A store made for a buffer of the     *)
(* second kind is an alias: it pins the buffer and owns nothing, until     *)
(* Detach or Dispose moves the bytes to a block of its own.                *)
(*                                                                         *)
(* Operations that look something up and use it afterwards take two steps. *)
(* Bytes are not modelled, only the blocks that hold them; a block counts  *)
(* as one byte of external memory.                                         *)
(***************************************************************************)
EXTENDS Integers, FiniteSets, Functions

CONSTANTS
  Threads,        \* threads, each with an isolate of its own
  RustIsolates,   \* isolates created with an allocator written in Rust
  Stores,         \* addresses of BsInner boxes (reused when freed)
  Bufs,           \* array buffer objects
  Addrs,          \* addresses of blocks of bytes (reused when freed)
  None,           \* null
  MaxRefs,        \* bound on the references to a store
  ExternalLimit,  \* external memory above which a new buffer collects first
  MaxExternal,    \* bound on the external memory of an isolate
  Uses            \* see Usages

Usages == {"empty", "resizable_getter", "send_alias", "wrap_alias"}

(* What is known of a BsInner box, and of an array buffer.                 *)
Store == [addr : Addrs \cup {None}, count : Nat,
          by : {"allocator", "malloc", "owned", "alias"},
          iso : RustIsolates \cup {None}, pin : Bufs \cup {None}]

Buffer == [iso : Threads, addr : Addrs \cup {None}, store : Stores \cup {None}]

ASSUME BackingStoresAssumption ==
  /\ RustIsolates \subseteq Threads
  /\ None \notin Threads \cup Stores \cup Bufs \cup Addrs
  /\ None \notin Store /\ None \notin Buffer
  /\ MaxRefs \in Nat \ {0}
  /\ ExternalLimit \in Nat /\ MaxExternal \in Nat
  /\ Uses \subseteq Usages

VARIABLES
  store,      \* the BsInner boxes
  buf,        \* the array buffers, with the isolate they live in
  held,       \* buffers that handles or script reach
  refs,       \* shared references per thread and store
  allocated,  \* blocks in use
  aliases,    \* alias_registry: stores by the address of engine memory
  owners,     \* owner_registry: the store of an address
  pending,    \* pending_array_buffer_frees of each isolate
  external,   \* external_memory of each isolate
  iso,        \* where each isolate is in its life
  pc,         \* the operation each thread is in the middle of
  todo        \* alias stores the thread has taken from the registry to move

registries == <<aliases, owners>>
isolates == <<pending, external, iso>>
storeVars == <<store, buf, held, refs, allocated, registries, isolates, pc, todo>>

-----------------------------------------------------------------------------
Step(op, s, b) == [op |-> op, store |-> s, buf |-> b]

Idle == Step("idle", None, None)

Live(s) == store[s] # None

Runs(t) == iso[t] = "alive" /\ pc[t] = Idle

Pins(b) == { s \in Stores : Live(s) /\ store[s].pin = b }

BufsOf(t) == { b \in Bufs : buf[b] # None /\ buf[b].iso = t }

Garbage(t) == { b \in BufsOf(t) \ held : Pins(b) = {} }

(* Boxes for the aliases that threads are about to make, and blocks for the *)
(* copies that these and the others will need, are kept free: malloc's     *)
(* failure is not modelled.                                                *)
AboutToAlias ==
  Cardinality({ t \in Threads : pc[t].op = "found" /\ pc[t].store = None })

RoomForOneBox == Cardinality({ s \in Stores : ~Live(s) }) > AboutToAlias

RoomForOneMore ==
  Cardinality(Addrs \ allocated) > AboutToAlias
    + Cardinality({ s \in Stores : Live(s) /\ store[s].by = "alias" })

RoomForRef(s) ==
  store[s].count
    + Cardinality({ t \in Threads : pc[t].op = "found" /\ pc[t].store = s }) < MaxRefs

Enter(t, step) == pc' = [pc EXCEPT ![t] = step]

(* Registries ignore the null address.                                     *)
Put(f, a, v) == IF a = None THEN f ELSE [f EXCEPT ![a] = v]

OwnerOf(a) == IF a = None THEN None ELSE owners[a]

-----------------------------------------------------------------------------
(* release_pending_allocator_buffers, as an effect: the blocks that waited *)
(* for it go back to the allocator and the accounting follows.             *)
Released(t, blocks) ==
  /\ pending' = [pending EXCEPT ![t] = @ \ blocks]
  /\ external' = [external EXCEPT ![t] = @ - Cardinality(blocks)]

(* maybe_collect_external_array_buffers: above the limit the engine's      *)
(* collector runs (no garbage is left) and the waiting blocks are given    *)
(* back.                                                                   *)
CollectsFirst(t) == t \in RustIsolates /\ external[t] > ExternalLimit

(* The isolate whose list the blocks of a new store go to.                 *)
HomeOf(t) == IF t \in RustIsolates THEN t ELSE None

(* new_array_buffer_value: v8__ArrayBuffer__New__with_byte_length and the  *)
(* constructor script calls when the allocator is a Rust one.  For no      *)
(* bytes the data is null and no registry hears of the store.              *)
NewBuffer(t, b, s, a) ==
  LET blocks == IF CollectsFirst(t) THEN pending[t] ELSE {}
      bytes == {a} \ {None}
      rust == t \in RustIsolates
  IN
  /\ Runs(t)
  /\ CollectsFirst(t) => Garbage(t) = {}
  /\ buf[b] = None /\ ~Live(s) /\ RoomForOneBox
  /\ bytes # {} => a \notin allocated /\ RoomForOneMore
  /\ store' = [store EXCEPT ![s] =
       [addr |-> a, count |-> 1, by |-> IF rust THEN "allocator" ELSE "malloc",
        iso |-> HomeOf(t), pin |-> None]]
  /\ buf' = [buf EXCEPT ![b] = [iso |-> t, addr |-> a, store |-> s]]
  /\ held' = held \cup {b}
  /\ allocated' = (allocated \ blocks) \cup bytes
  /\ owners' = Put(owners, a, s)
  /\ pending' = [pending EXCEPT ![t] = @ \ blocks]
  /\ external' = [external EXCEPT
       ![t] = (@ - Cardinality(blocks)) + IF rust THEN Cardinality(bytes) ELSE 0]
  /\ external'[t] <= MaxExternal
  /\ UNCHANGED <<refs, aliases, iso, pc, todo>>

(* A buffer the engine allocates: made by script, or by a copy.            *)
NewEngineBuffer(t, b, a) ==
  /\ Runs(t)
  /\ buf[b] = None /\ a \notin allocated /\ RoomForOneMore
  /\ buf' = [buf EXCEPT ![b] = [iso |-> t, addr |-> a, store |-> None]]
  /\ held' = held \cup {b}
  /\ allocated' = allocated \cup {a}
  /\ UNCHANGED <<store, refs, registries, isolates, pc, todo>>

(* v8__ArrayBuffer__NewBackingStore__with_byte_length and __with_data; the *)
(* latter with a deleter that has data is an owned store.                  *)
NewStore(t, s, a, by) ==
  /\ pc[t] = Idle
  /\ ~Live(s) /\ RoomForOneBox
  /\ a \notin allocated /\ RoomForOneMore
  /\ store' = [store EXCEPT ![s] =
       [addr |-> a, count |-> 1, by |-> by, iso |-> None, pin |-> None]]
  /\ refs' = [refs EXCEPT ![t][s] = 1]
  /\ allocated' = allocated \cup {a}
  /\ UNCHANGED <<buf, held, registries, isolates, pc, todo>>

(* v8__ArrayBuffer__New__with_backing_store of a store that carries a      *)
(* deleter with data: the bytes are copied.                                *)
CopyIntoBuffer(t, s, b, a) ==
  /\ refs[t][s] > 0 /\ store[s].by = "owned"
  /\ NewEngineBuffer(t, b, a)

(* The same of any other store: the buffer shares its bytes.               *)
WrapInBuffer(t, s, b) ==
  /\ Runs(t)
  /\ refs[t][s] > 0 /\ store[s].by # "owned"
  /\ store[s].by = "alias" => "wrap_alias" \in Uses
  /\ buf[b] = None /\ RoomForRef(s)
  /\ store' = [store EXCEPT ![s].count = @ + 1]
  /\ buf' = [buf EXCEPT
       ![b] = [iso |-> t, addr |-> store[s].addr, store |-> s]]
  /\ held' = held \cup {b}
  /\ owners' = Put(owners, store[s].addr, s)
  /\ UNCHANGED <<refs, allocated, aliases, isolates, pc, todo>>

-----------------------------------------------------------------------------
(* backing_store_for_buffer looks the owner up, and then counts itself in. *)
LookupOwner(t, b) ==
  LET s == OwnerOf(buf[b].addr) IN
  /\ Runs(t)
  /\ b \in BufsOf(t) \cap held
  /\ buf[b].addr = None => "empty" \in Uses
  /\ IF s = None THEN RoomForOneBox /\ RoomForOneMore
                 ELSE RoomForRef(s)
  /\ Enter(t, Step("found", s, b))
  /\ UNCHANGED <<store, buf, held, refs, allocated, registries, isolates, todo>>

(* A mutant of CountIn: the reference handed out is not counted.           *)
CountInUncounted(t) ==
  LET s == pc[t].store IN
  /\ pc[t].op = "found" /\ s # None
  /\ refs' = [refs EXCEPT ![t][s] = @ + 1]
  /\ Enter(t, Idle)
  /\ UNCHANGED <<store, buf, held, allocated, registries, isolates, todo>>

CountIn(t) ==
  LET s == pc[t].store IN
  /\ pc[t].op = "found" /\ s # None
  /\ Live(s)
  /\ store' = [store EXCEPT ![s].count = @ + 1]
  /\ refs' = [refs EXCEPT ![t][s] = @ + 1]
  /\ Enter(t, Idle)
  /\ UNCHANGED <<buf, held, allocated, registries, isolates, todo>>

(* is_resizable_by_user_javascript reads a property of the buffer.  It may *)
(* have been redefined as a getter, and that may detach the buffer, whose  *)
(* bytes the engine then frees (here: a buffer without other aliases).     *)
GetterDetaches(b) ==
  /\ "resizable_getter" \in Uses
  /\ buf[b].addr # None /\ aliases[buf[b].addr] = {}

(* No owner: an alias that pins the buffer, at the address that was read   *)
(* before the property.                                                    *)
MakeAlias(t, s) ==
  LET b == pc[t].buf
      a == buf[b].addr
  IN
  /\ pc[t].op = "found" /\ pc[t].store = None
  /\ ~Live(s)
  /\ \E detached \in BOOLEAN :
       /\ detached => GetterDetaches(b)
       /\ buf' = IF detached THEN [buf EXCEPT ![b].addr = None] ELSE buf
       /\ allocated' = allocated \ (IF detached THEN {a} ELSE {})
  /\ store' = [store EXCEPT ![s] =
       [addr |-> a, count |-> 1, by |-> "alias", iso |-> None, pin |-> b]]
  /\ refs' = [refs EXCEPT ![t][s] = 1]
  /\ aliases' = IF a = None THEN aliases ELSE [aliases EXCEPT ![a] = @ \cup {s}]
  /\ Enter(t, Idle)
  /\ UNCHANGED <<held, owners, isolates, todo>>

(* std__shared_ptr__v8__BackingStore__COPY.                                *)
CopyRef(t, s) ==
  /\ pc[t] = Idle
  /\ refs[t][s] > 0 /\ RoomForRef(s)
  /\ store' = [store EXCEPT ![s].count = @ + 1]
  /\ refs' = [refs EXCEPT ![t][s] = @ + 1]
  /\ UNCHANGED <<buf, held, allocated, registries, isolates, pc, todo>>

(* A shared reference is sent to another thread.                           *)
SendRef(t, u, s) ==
  /\ pc[t] = Idle /\ pc[u] = Idle /\ t # u
  /\ refs[t][s] > 0
  /\ store[s].pin # None => "send_alias" \in Uses
  /\ refs' = [refs EXCEPT ![t][s] = @ - 1, ![u][s] = @ + 1]
  /\ UNCHANGED <<store, buf, held, allocated, registries, isolates, pc, todo>>

(* std__shared_ptr__v8__BackingStore__reset and v8__BackingStore__DELETE:  *)
(* who gives the last reference back destroys the store.                   *)
DropRef(t, s) ==
  /\ pc[t] = Idle
  /\ refs[t][s] > 0
  /\ store' = [store EXCEPT ![s].count = @ - 1]
  /\ refs' = [refs EXCEPT ![t][s] = @ - 1]
  /\ Enter(t, IF store[s].count = 1 THEN Step("destroy", s, None) ELSE Idle)
  /\ UNCHANGED <<buf, held, allocated, registries, isolates, todo>>

(* A mutant of OwnersWithout: owner_remove is not called.                  *)
OwnersKept(addr, s) == owners

(* A mutant of AliasesWithout: registry_remove is not called.              *)
AliasesKept(addr, s) == aliases

(* owner_remove and registry_remove, as values.                            *)
OwnersWithout(addr, s) ==
  [a \in Addrs |-> IF a = addr /\ owners[a] = s THEN None ELSE owners[a]]

AliasesWithout(addr, s) ==
  [a \in Addrs |-> IF a = addr THEN aliases[a] \ {s} ELSE aliases[a]]

(* BsInner::destroy.  Blocks of a Rust allocator wait in the isolate as    *)
(* long as the store knows it.                                             *)
Destroy(t) ==
  LET s == pc[t].store
      r == store[s]
  IN
  /\ pc[t].op = "destroy" /\ Live(s)
  /\ owners' = OwnersWithout(r.addr, s)
  /\ aliases' = AliasesWithout(r.addr, s)
  /\ store' = [store EXCEPT ![s] = None]
  /\ IF r.iso # None /\ r.addr # None
       THEN /\ pending' = [pending EXCEPT ![r.iso] = @ \cup {r.addr}]
            /\ UNCHANGED allocated
       ELSE /\ allocated' = IF r.by = "alias" THEN allocated
                                              ELSE allocated \ {r.addr}
            /\ UNCHANGED pending
  /\ Enter(t, Idle)
  /\ UNCHANGED <<buf, held, refs, external, iso, todo>>

-----------------------------------------------------------------------------
(* bs_free_func: the buffer's reference is given back; a store that has    *)
(* others forgets the isolate, in a write of its own, which may come when  *)
(* another thread has dropped the last of them.                            *)
FreeFunc(t, s) ==
  LET last == store[s].count = 1 IN
  /\ store' = [store EXCEPT ![s].count = @ - 1]
  /\ Enter(t, Step(IF last THEN "destroy" ELSE "forget", s, None))

(* A mutant of ForgetIsolate: the isolate stays.                           *)
ForgetNothing(t) ==
  /\ pc[t].op = "forget"
  /\ Enter(t, Idle)
  /\ UNCHANGED <<store, buf, held, refs, allocated, registries, isolates, todo>>

(* Into a box that was freed meanwhile it is a write to free memory, or to *)
(* the store that has the box now.                                         *)
ForgetIsolate(t) ==
  LET s == pc[t].store IN
  /\ pc[t].op = "forget"
  /\ store' = IF Live(s) THEN [store EXCEPT ![s].iso = None] ELSE store
  /\ Enter(t, Idle)
  /\ UNCHANGED <<buf, held, refs, allocated, registries, isolates, todo>>

(* What the engine does with the bytes of a buffer that dies or detaches.  *)
LetBytesGo(t, b) ==
  IF buf[b].store # None
    THEN FreeFunc(t, buf[b].store) /\ UNCHANGED allocated
    ELSE /\ allocated' = allocated \ {buf[b].addr}
         /\ Enter(t, Idle)
         /\ UNCHANGED store

DropHandle(t, b) ==
  /\ Runs(t)
  /\ b \in BufsOf(t) \cap held
  /\ held' = held \ {b}
  /\ UNCHANGED <<store, buf, refs, allocated, registries, isolates, pc, todo>>

(* A buffer nobody reaches is freed: by the engine's collector or, while   *)
(* the runtime is freed, with everything else.                             *)
Collect(t, b) ==
  /\ pc[t] = Idle
  /\ \/ iso[t] = "alive" /\ b \in Garbage(t)
     \/ iso[t] = "freeing" /\ b \in BufsOf(t)
  /\ buf' = [buf EXCEPT ![b] = None]
  /\ LetBytesGo(t, b)
  /\ UNCHANGED <<held, refs, registries, isolates, todo>>

(* v8__Isolate__LowMemoryNotification: a collection, and the blocks that   *)
(* wait are given back.                                                    *)
LowMemory(t) ==
  /\ Runs(t)
  /\ Garbage(t) = {} /\ pending[t] # {}
  /\ Released(t, pending[t])
  /\ allocated' = allocated \ pending[t]
  /\ UNCHANGED <<store, buf, held, refs, registries, iso, pc, todo>>

(* v8__ArrayBuffer__Detach: takes the aliases of the bytes out of the      *)
(* registry ...                                                            *)
StartDetach(t, b) ==
  /\ Runs(t)
  /\ b \in BufsOf(t) \cap held
  /\ buf[b].addr # None
  /\ todo' = [todo EXCEPT ![t] = aliases[buf[b].addr]]
  /\ aliases' = [aliases EXCEPT ![buf[b].addr] = {}]
  /\ Enter(t, Step("detach", None, b))
  /\ UNCHANGED <<store, buf, held, refs, allocated, owners, isolates>>

(* A mutant of MoveAlias: the store takes the bytes over where they are.   *)
MoveAliasInPlace(t, s, a) ==
  /\ pc[t].op \in {"detach", "dispose"}
  /\ s \in todo[t] /\ Live(s) /\ a \notin allocated
  /\ store' = [store EXCEPT ![s].by = "malloc", ![s].pin = None]
  /\ todo' = [todo EXCEPT ![t] = @ \ {s}]
  /\ UNCHANGED <<buf, held, refs, allocated, registries, isolates, pc>>

(* ... gives each a copy of the bytes and unpins the buffer ...            *)
MoveAlias(t, s, a) ==
  /\ pc[t].op \in {"detach", "dispose"}
  /\ s \in todo[t] /\ Live(s) /\ a \notin allocated
  /\ store' = [store EXCEPT ![s].addr = a, ![s].by = "malloc", ![s].pin = None]
  /\ allocated' = allocated \cup {a}
  /\ todo' = [todo EXCEPT ![t] = @ \ {s}]
  /\ UNCHANGED <<buf, held, refs, registries, isolates, pc>>

(* ... and lets the engine detach the buffer.                              *)
FinishDetach(t) ==
  LET b == pc[t].buf IN
  /\ pc[t].op = "detach" /\ todo[t] = {}
  /\ buf' = [buf EXCEPT ![b].addr = None, ![b].store = None]
  /\ LetBytesGo(t, b)
  /\ UNCHANGED <<held, refs, registries, isolates, todo>>

(* A mutant of RuntimeAliases: aliases are left as they are.               *)
NoAliases(t) == {}

(* The registered aliases whose context belongs to the runtime.            *)
RuntimeAliases(t) ==
  { s \in UNION Range(aliases) : store[s].pin \in BufsOf(t) }

(* v8__Isolate__Dispose: the handles go, and                               *)
(* release_backing_stores_for_runtime takes the aliases of this runtime    *)
(* out of the registry and moves them.                                     *)
StartDispose(t) ==
  LET mine == RuntimeAliases(t) IN
  /\ Runs(t)
  /\ iso' = [iso EXCEPT ![t] = "disposing"]
  /\ held' = held \ BufsOf(t)
  /\ todo' = [todo EXCEPT ![t] = mine]
  /\ aliases' = [a \in Addrs |-> aliases[a] \ mine]
  /\ Enter(t, Step("dispose", None, None))
  /\ UNCHANGED <<store, buf, refs, allocated, owners, pending, external>>

(* Then the contexts and the runtime are freed ...                         *)
FreeRuntime(t) ==
  /\ pc[t].op = "dispose" /\ todo[t] = {}
  /\ iso' = [iso EXCEPT ![t] = "freeing"]
  /\ Enter(t, Idle)
  /\ UNCHANGED <<store, buf, held, refs, allocated, registries, pending,
                 external, todo>>

(* ... and at the end the blocks that still wait.                          *)
FinishDispose(t) ==
  /\ iso[t] = "freeing" /\ pc[t] = Idle
  /\ BufsOf(t) = {}
  /\ iso' = [iso EXCEPT ![t] = "disposed"]
  /\ pending' = [pending EXCEPT ![t] = {}]
  /\ allocated' = allocated \ pending[t]
  /\ UNCHANGED <<store, buf, held, refs, registries, external, pc, todo>>

-----------------------------------------------------------------------------
Init ==
  /\ store = [s \in Stores |-> None]
  /\ buf = [b \in Bufs |-> None]
  /\ held = {} /\ allocated = {}
  /\ refs = [t \in Threads |-> [s \in Stores |-> 0]]
  /\ aliases = [a \in Addrs |-> {}]
  /\ owners = [a \in Addrs |-> None]
  /\ pending = [t \in Threads |-> {}]
  /\ external = [t \in Threads |-> 0]
  /\ iso = [t \in Threads |-> "alive"]
  /\ pc = [t \in Threads |-> Idle]
  /\ todo = [t \in Threads |-> {}]

Create(t) ==
  \/ \E b \in Bufs, s \in Stores, a \in Addrs \cup {None} : NewBuffer(t, b, s, a)
  \/ \E b \in Bufs, s \in Stores, a \in Addrs : CopyIntoBuffer(t, s, b, a)
  \/ \E b \in Bufs, s \in Stores : WrapInBuffer(t, s, b)
  \/ \E b \in Bufs, a \in Addrs : NewEngineBuffer(t, b, a)
  \/ \E s \in Stores, a \in Addrs, by \in {"malloc", "owned"} :
       NewStore(t, s, a, by)

UseRefs(t) ==
  \/ CountIn(t) \/ Destroy(t)
  \/ \E s \in Stores : MakeAlias(t, s) \/ CopyRef(t, s) \/ DropRef(t, s)
  \/ \E s \in Stores, u \in Threads : SendRef(t, u, s)

UseBuffers(t) ==
  \/ ForgetIsolate(t) \/ LowMemory(t) \/ FinishDetach(t)
  \/ \E b \in Bufs : \/ LookupOwner(t, b) \/ DropHandle(t, b)
                      \/ Collect(t, b) \/ StartDetach(t, b)
  \/ \E s \in Stores, a \in Addrs : MoveAlias(t, s, a)

End(t) == StartDispose(t) \/ FreeRuntime(t) \/ FinishDispose(t)

Next == \E t \in Threads : Create(t) \/ UseRefs(t) \/ UseBuffers(t) \/ End(t)

Spec == Init /\ [][Next]_storeVars

-----------------------------------------------------------------------------
(* Types of the boxes, the buffers and the operations in progress.         *)
TypeOK ==
  /\ store \in [Stores -> Store \cup {None}]
  /\ buf \in [Bufs -> Buffer \cup {None}]
  /\ held \subseteq Bufs /\ allocated \subseteq Addrs
  /\ refs \in [Threads -> [Stores -> Nat]]
  /\ aliases \in [Addrs -> SUBSET Stores]
  /\ owners \in [Addrs -> Stores \cup {None}]
  /\ pending \in [Threads -> SUBSET Addrs]
  /\ external \in [Threads -> Nat]
  /\ iso \in [Threads -> {"alive", "disposing", "freeing", "disposed"}]
  /\ pc \in [Threads ->
       [op : {"idle", "found", "destroy", "forget", "detach", "dispose"},
        store : Stores \cup {None}, buf : Bufs \cup {None}]]
  /\ todo \in [Threads -> SUBSET Stores]

(* The count of a store is the number of shared references in all threads  *)
(* and of buffers that will call bs_free_func for it; a box that is gone   *)
(* has none, so the last of them, and only the last, destroys it.          *)
Users(s) ==
  (UNION { { <<"ref", t, k>> : k \in 1 .. refs[t][s] } : t \in Threads })
    \cup { <<"buffer", b, 0>> : b \in { b \in Bufs :
             buf[b] # None /\ buf[b].store = s } }

CountsExact ==
  \A s \in Stores :
    Cardinality(Users(s)) = IF Live(s) THEN store[s].count ELSE 0

(* What a thread has looked up in a registry is still there when it gets   *)
(* to it: backing_store_for_buffer between its two steps, a destruction,   *)
(* Detach and Dispose while they move aliases.  Only what bs_free_func is  *)
(* about to write to may be gone.                                          *)
NoDanglingAccess ==
  \A t \in Threads :
    /\ pc[t].store # None /\ pc[t].op # "forget" => Live(pc[t].store)
    /\ \A s \in todo[t] : Live(s) /\ store[s].by = "alias"

(* Isolate state belongs to its thread.  A store that unpins a buffer is   *)
(* destroyed by the thread of that buffer's isolate.  One that pushes its  *)
(* bytes to the list of an isolate is destroyed by the thread of that      *)
(* isolate, while the isolate is there, except in the one case where this  *)
(* thread has given its reference back in bs_free_func and not yet written *)
(* that the store forgets the isolate.                                     *)
DestroyedAtHome ==
  \A t \in Threads :
    pc[t].op = "destroy" =>
      LET r == store[pc[t].store] IN
      /\ r.pin # None => r.pin \in BufsOf(t)
      /\ r.iso # None =>
           IF r.iso = t THEN iso[t] # "disposed"
                        ELSE pc[r.iso] = Step("forget", pc[t].store, None)

(* No store points into an isolate that is gone: "retaining a JSValue and  *)
(* freeing it later through a dead JSContext is not valid"                 *)
(* (release_backing_stores_for_runtime).                                   *)
NoDeadContext ==
  \A s \in Stores :
    Live(s) => /\ store[s].pin # None => buf[store[s].pin] # None
               /\ store[s].iso # None => iso[store[s].iso] # "disposed"

(* A block is in use exactly as long as one party owns it: a store that is *)
(* not an alias, an attached buffer of the engine's, or the list of blocks *)
(* that wait for their allocator.  So nothing that a reference or a buffer *)
(* shows is freed under it, nothing is freed twice and nothing is lost.    *)
Owners(a) ==
  { <<"store", s>> : s \in { s \in Stores :
      Live(s) /\ store[s].addr = a /\ store[s].by # "alias" } }
    \cup { <<"buffer", b>> : b \in { b \in Bufs :
      buf[b] # None /\ buf[b].addr = a /\ buf[b].store = None } }
    \cup { <<"pending", t>> : t \in { t \in Threads : a \in pending[t] } }

BlocksOwnedOnce ==
  /\ \A a \in Addrs : Cardinality(Owners(a)) = IF a \in allocated THEN 1 ELSE 0
  /\ \A s \in Stores : Live(s) /\ store[s].addr # None
                      => store[s].addr \in allocated
  /\ \A b \in Bufs : buf[b] # None /\ buf[b].addr # None
                    => buf[b].addr \in allocated

(* The registries find the right store by an address and nothing else:     *)
(* what is registered lives and has its bytes there, an attached buffer    *)
(* with a store is found under its address, and so are the aliases of a    *)
(* buffer that nobody is moving.                                           *)
RegistriesExact ==
  /\ \A a \in Addrs :
       /\ owners[a] # None => Live(owners[a]) /\ store[owners[a]].addr = a
       /\ \A s \in aliases[a] : Live(s) /\ store[s].addr = a
                              /\ store[s].by = "alias"
  /\ \A b \in Bufs : buf[b] # None /\ buf[b].addr # None
                    => owners[buf[b].addr] = buf[b].store
  /\ \A s \in Stores :
       Live(s) /\ store[s].by = "alias" /\ store[s].addr # None
         => \/ s \in aliases[store[s].addr]
            \/ \E t \in Threads : s \in todo[t]
=============================================================================
