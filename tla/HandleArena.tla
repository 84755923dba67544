---------------------------- MODULE HandleArena ----------------------------
(***************************************************************************)
(* The handles of one isolate of the QuickJS backend.                      *)
(*                                                                         *)
(* A Local<T> is the address of a slot of IsoState::handles, a Global<T>   *)
(* the address of a PersistentCell; each owns one reference count of the   *)
(* value in it.  Scopes and native callbacks remember the length of the    *)
(* arena and pop it back to that length, giving the counts back            *)
(* (src/quickjs/core.rs, function.rs, misc.rs).                            *)
(*                                                                         *)
(* A slot is named by its position.  `locals` is what the embedder still   *)
(* may use: the handles it was given in a scope or callback not closed yet.*)
(***************************************************************************)
EXTENDS Naturals, Sequences, FiniteSets

CONSTANTS
  Values,     \* heap cells of the engine, reused when freed
  Undefined,  \* any value without a reference count
  Cells,      \* addresses of persistent cells
  MaxSlots,   \* arena length (bound)
  MaxFrames,  \* scopes and callbacks open at once (bound)
  MaxRefs,    \* references to a value held inside the engine (bound)
  MaxLeaks,   \* values leaked (bound)
  Uses        \* what the embedder does besides, see Usages

Usages == {"inner_return", "empty_string", "fast_mismatch"}

ASSUME HandleArenaAssumption ==
  /\ IsFiniteSet(Values)
  /\ Undefined \notin Values
  /\ IsFiniteSet(Cells)
  /\ MaxSlots \in Nat
  /\ MaxFrames \in Nat
  /\ MaxRefs \in Nat
  /\ MaxLeaks \in Nat
  /\ Uses \subseteq Usages

VARIABLES
  rc,      \* JSRefCountHeader::ref_count of each value, 0 when it is freed
  heap,    \* how many of these the engine holds: properties, its stack
  arena,   \* IsoState::handles
  cells,   \* the persistent handles in use, with their values
  frames,  \* scopes and callbacks open, innermost last
  locals,  \* handles the embedder may use
  leaked   \* counts of each value that no handle and no reference owns

arenaVars == <<rc, heap, arena, cells, frames, locals, leaked>>

-----------------------------------------------------------------------------
Contents == Values \cup {Undefined}

(* depth: the arena length saved; slot: the reserved escape slot, or 0;    *)
(* arg: what the engine keeps alive for a call; ret: CbInfo::return_slot.  *)
ScopeFrame == [kind : {"scope"}, depth : Nat, slot : Nat,
               arg : {Undefined}, ret : {Undefined}]

CallFrame == [kind : {"callback", "fast"}, depth : Nat, slot : {0},
              arg : Values, ret : Contents]

Frame == ScopeFrame \cup CallFrame

Local == [at : Nat \ {0}, val : Contents, level : Nat]

Level == Len(frames)

Innermost == frames[Level]

(* The handles of a scope or callback die with it.                         *)
Usable(level) == { l \in locals : l.level <= level }

(* How often v is in a sequence of slots, above the first `depth` of them. *)
Above(slots, depth, v) ==
  Cardinality({ k \in DOMAIN slots : k > depth /\ slots[k] = v })

(* How many of the persistent cells p hold v.                              *)
Holding(p, v) == Cardinality({ c \in DOMAIN p : p[c] = v })

(* How many calls under way keep v on the engine's stack.                  *)
Arguments(calls, v) == Cardinality({ k \in DOMAIN calls : calls[k].arg = v })

(* JS_DupValue and JS_FreeValue: nothing to do for an immediate value.     *)
Dup(count, v) == IF v = Undefined THEN count ELSE [count EXCEPT ![v] = @ + 1]

Free(count, v) == IF v = Undefined THEN count ELSE [count EXCEPT ![v] = @ - 1]

(* Popping the arena back to `depth` slots frees what was in the others.   *)
Popped(count, depth) ==
  [v \in Values |-> count[v] - Above(arena, depth, v)]

Cut(depth) ==
  IF depth < Len(arena) THEN SubSeq(arena, 1, depth) ELSE arena

(* intern: the count v comes with moves into a new slot.                   *)
Intern(v) ==
  /\ Len(arena) < MaxSlots
  /\ arena' = Append(arena, v)
  /\ locals' = locals \cup {[at |-> Len(arena) + 1, val |-> v, level |-> Level]}

Open(f) ==
  /\ Level < MaxFrames
  /\ frames' = Append(frames, f)

(* What a handle the embedder holds reads now: the slot's content.         *)
Read(l) == IF l.at \in DOMAIN arena THEN arena[l.at] ELSE Undefined

-----------------------------------------------------------------------------
(* The engine returns a new value, and the ABI function interns it.        *)
InternFresh(v) ==
  /\ rc[v] = 0
  /\ rc' = [rc EXCEPT ![v] = 1]
  /\ Intern(v)
  /\ UNCHANGED <<heap, cells, frames, leaked>>

(* intern_dup of something the engine holds: a property, an argument.      *)
InternBorrowed(v) ==
  /\ heap[v] > 0
  /\ rc' = Dup(rc, v)
  /\ Intern(v)
  /\ UNCHANGED <<heap, cells, frames, leaked>>

(* v8__Local__New of a local or a global, and every intern_dup of a handle.*)
LocalNew(v) ==
  /\ v \in { Read(l) : l \in locals } \cup { cells[c] : c \in DOMAIN cells }
  /\ rc' = Dup(rc, v)
  /\ Intern(v)
  /\ UNCHANGED <<heap, cells, frames, leaked>>

(* v8__Global__New: a cell of its own, with a count of its own.            *)
GlobalNew(c, l) ==
  /\ c \notin DOMAIN cells
  /\ l \in locals
  /\ cells' = [d \in DOMAIN cells \cup {c} |-> IF d = c THEN Read(l) ELSE cells[d]]
  /\ rc' = Dup(rc, Read(l))
  /\ UNCHANGED <<heap, arena, frames, locals, leaked>>

(* v8__Global__Reset of a strong handle.                                   *)
GlobalReset(c) ==
  /\ c \in DOMAIN cells
  /\ rc' = Free(rc, cells[c])
  /\ cells' = [d \in DOMAIN cells \ {c} |-> cells[d]]
  /\ UNCHANGED <<heap, arena, frames, locals, leaked>>

(* An ABI call stores the value of a local in the heap: JS_DupValue first, *)
(* the engine then owns that count.                                        *)
HeapStore(l) ==
  /\ l \in locals
  /\ Read(l) \in Values
  /\ heap[Read(l)] < MaxRefs
  /\ heap' = [heap EXCEPT ![Read(l)] = @ + 1]
  /\ rc' = Dup(rc, Read(l))
  /\ UNCHANGED <<arena, cells, frames, locals, leaked>>

(* JavaScript drops a reference, not one it keeps for a call in progress.  *)
HeapDrop(v) ==
  /\ heap[v] > Arguments(frames, v)
  /\ heap' = [heap EXCEPT ![v] = @ - 1]
  /\ rc' = Free(rc, v)
  /\ UNCHANGED <<arena, cells, frames, locals, leaked>>

-----------------------------------------------------------------------------
(* v8__HandleScope__CONSTRUCT.                                             *)
HandleScopeConstruct ==
  /\ Open([kind |-> "scope", depth |-> Len(arena), slot |-> 0,
           arg |-> Undefined, ret |-> Undefined])
  /\ UNCHANGED <<rc, heap, arena, cells, locals, leaked>>

(* An EscapableHandleScope: v8__EscapeSlot__reserve in the parent's part   *)
(* of the arena, then the HandleScope.                                     *)
EscapableScopeConstruct ==
  /\ Len(arena) < MaxSlots
  /\ arena' = Append(arena, Undefined)
  /\ Open([kind |-> "scope", depth |-> Len(arena) + 1, slot |-> Len(arena) + 1,
           arg |-> Undefined, ret |-> Undefined])
  /\ UNCHANGED <<rc, heap, cells, locals, leaked>>

EscapeBorrows(l) ==
  /\ frames # <<>>
  /\ Innermost.slot # 0
  /\ l \in locals
  /\ arena' = [arena EXCEPT ![Innermost.slot] = Read(l)]
  /\ locals' = locals \cup {[at |-> Innermost.slot, val |-> Read(l),
                             level |-> Level - 1]}
  /\ frames' = [frames EXCEPT ![Level].slot = 0]
  /\ UNCHANGED <<rc, heap, cells, leaked>>

(* v8__EscapeSlot__escape, once per scope: the slot gets a count of its    *)
(* own, what it held is freed, and the new handle is the parent's.         *)
Escape(l) ==
  /\ frames # <<>>
  /\ Innermost.slot # 0
  /\ l \in locals
  /\ LET slot == Innermost.slot
     IN IF slot \in DOMAIN arena
        THEN /\ rc' = Free(Dup(rc, Read(l)), arena[slot])
             /\ arena' = [arena EXCEPT ![slot] = Read(l)]
             /\ locals' = locals \cup {[at |-> slot, val |-> Read(l),
                                        level |-> Level - 1]}
        ELSE /\ locals' = locals \cup {[l EXCEPT !.level = Level - 1]}
             /\ UNCHANGED <<rc, arena>>
  /\ frames' = [frames EXCEPT ![Level].slot = 0]
  /\ UNCHANGED <<heap, cells, leaked>>

DestructKeepsOne ==
  /\ frames # <<>>
  /\ Innermost.kind = "scope"
  /\ rc' = Popped(rc, Innermost.depth + 1)
  /\ arena' = Cut(Innermost.depth + 1)
  /\ frames' = SubSeq(frames, 1, Level - 1)
  /\ locals' = Usable(Level - 1)
  /\ UNCHANGED <<heap, cells, leaked>>

DestructPopsOneMore ==
  /\ frames # <<>>
  /\ Innermost.kind = "scope"
  /\ LET depth == IF Innermost.depth = 0 THEN 0 ELSE Innermost.depth - 1
     IN rc' = Popped(rc, depth) /\ arena' = Cut(depth)
  /\ frames' = SubSeq(frames, 1, Level - 1)
  /\ locals' = Usable(Level - 1)
  /\ UNCHANGED <<heap, cells, leaked>>

(* v8__HandleScope__DESTRUCT.                                              *)
HandleScopeDestruct ==
  /\ frames # <<>>
  /\ Innermost.kind = "scope"
  /\ rc' = Popped(rc, Innermost.depth)
  /\ arena' = Cut(Innermost.depth)
  /\ frames' = SubSeq(frames, 1, Level - 1)
  /\ locals' = Usable(Level - 1)
  /\ UNCHANGED <<heap, cells, leaked>>

-----------------------------------------------------------------------------
(* dispatch and the interceptors (call_named_getter and its kin): the      *)
(* engine holds the receiver and the arguments, `arg` for all of them.     *)
CallbackEnter(v) ==
  /\ heap[v] > 0 /\ heap[v] < MaxRefs
  /\ Open([kind |-> "callback", depth |-> Len(arena), slot |-> 0,
           arg |-> v, ret |-> Undefined])
  /\ heap' = [heap EXCEPT ![v] = @ + 1]
  /\ rc' = Dup(rc, v)
  /\ UNCHANGED <<arena, cells, locals, leaked>>

(* The callback now running, scopes it opened aside.                       *)
IsRunning(k) ==
  /\ k \in DOMAIN frames
  /\ frames[k].kind = "callback"
  /\ \A j \in k + 1 .. Level : frames[j].kind = "scope"

(* v8__ReturnValue__Value__Set: the raw value, no count taken.  The local  *)
(* is one of the callback's, perhaps of a scope inside it.                 *)
ReturnValueSet(k, l) ==
  /\ IsRunning(k)
  /\ l \in locals
  /\ l.level = k \/ ("inner_return" \in Uses /\ l.level > k)
  /\ frames' = [frames EXCEPT ![k].ret = Read(l)]
  /\ UNCHANGED <<rc, heap, arena, cells, locals, leaked>>

(* v8__ReturnValue__Value__SetEmptyString: a new string, with a count that *)
(* nobody will give back.                                                  *)
ReturnValueSetEmptyString(k, v) ==
  /\ "empty_string" \in Uses
  /\ IsRunning(k)
  /\ rc[v] = 0
  /\ Cardinality({ w \in Values : leaked[w] > 0 }) < MaxLeaks
  /\ rc' = [rc EXCEPT ![v] = 1]
  /\ leaked' = [leaked EXCEPT ![v] = 1]
  /\ frames' = [frames EXCEPT ![k].ret = v]
  /\ UNCHANGED <<heap, arena, cells, locals>>

(* v8__ReturnValue__Value__Get interns a copy of the return slot.          *)
ReturnValueGet(k) ==
  /\ IsRunning(k)
  /\ rc' = Dup(rc, frames[k].ret)
  /\ Intern(frames[k].ret)
  /\ UNCHANGED <<heap, cells, frames, leaked>>

ReturnAfterPop(used) ==
  /\ frames # <<>>
  /\ Innermost.kind = "callback"
  /\ LET f == Innermost
         ret == IF used THEN f.ret ELSE Undefined
         popped == Popped(rc, f.depth)
         alive == ret \in Values /\ popped[ret] > 0
     IN /\ rc' = Free(IF alive THEN Dup(popped, ret) ELSE popped, f.arg)
        /\ heap' = Free(Dup(heap, ret), f.arg)
        /\ ret \in Values => heap'[ret] <= MaxRefs
        /\ arena' = Cut(f.depth)
  /\ frames' = SubSeq(frames, 1, Level - 1)
  /\ locals' = Usable(Level - 1)
  /\ UNCHANGED <<cells, leaked>>

(* The end of dispatch: the result gets a count of its own before the      *)
(* arena is popped; the result is not used when the callback threw or did  *)
(* not intercept.  The caller then drops the arguments.                    *)
CallbackReturn(used) ==
  /\ frames # <<>>
  /\ Innermost.kind = "callback"
  /\ LET f == Innermost
         ret == IF used THEN f.ret ELSE Undefined
     IN /\ rc' = Free(Popped(Dup(rc, ret), f.depth), f.arg)
        /\ heap' = Free(Dup(heap, ret), f.arg)
        /\ ret \in Values => heap'[ret] <= MaxRefs
        /\ arena' = Cut(f.depth)
  /\ frames' = SubSeq(frames, 1, Level - 1)
  /\ locals' = Usable(Level - 1)
  /\ UNCHANGED <<cells, leaked>>

(* call_fast_overload: the receiver and the data are interned for the      *)
(* native function (fast_local_object, fast_options).                      *)
FastReceivers(v) ==
  /\ heap[v] > 0 /\ heap[v] < MaxRefs
  /\ Len(arena) + 1 < MaxSlots
  /\ arena' = arena \o <<v, Undefined>>

FastEnter(v) ==
  /\ FastReceivers(v)
  /\ Open([kind |-> "fast", depth |-> Len(arena), slot |-> 0,
           arg |-> v, ret |-> Undefined])
  /\ heap' = [heap EXCEPT ![v] = @ + 1]
  /\ rc' = Dup(Dup(rc, v), v)
  /\ locals' = locals \cup
       { [at |-> Len(arena) + 1, val |-> v, level |-> Level + 1],
         [at |-> Len(arena) + 2, val |-> Undefined, level |-> Level + 1] }
  /\ UNCHANGED <<cells, leaked>>

(* An argument does not convert (fast_u32 and its kin return None): the    *)
(* question mark leaves call_fast_overload with the two slots in place.    *)
FastMismatch(v) ==
  /\ "fast_mismatch" \in Uses
  /\ FastReceivers(v)
  /\ rc' = Dup(rc, v)
  /\ UNCHANGED <<heap, cells, frames, locals, leaked>>

(* The end of call_fast_overload.  The result is an immediate value, or a  *)
(* new one (an External, a BigInt) made while the slots are in place; the  *)
(* engine takes over its count.  With an exception pending that result is  *)
(* replaced, and nobody gives its count back.                              *)
FastReturn(result, threw) ==
  /\ frames # <<>>
  /\ Innermost.kind = "fast"
  /\ result \in Values => rc[result] = 0
  /\ result \in Values /\ threw =>
       Cardinality({ w \in Values : leaked[w] > 0 }) < MaxLeaks
  /\ LET kept == IF threw THEN Undefined ELSE result
         lost == IF threw THEN result ELSE Undefined
     IN /\ rc' = Free(Popped(Dup(rc, result), Innermost.depth), Innermost.arg)
        /\ heap' = Free(Dup(heap, kept), Innermost.arg)
        /\ leaked' = Dup(leaked, lost)
  /\ arena' = Cut(Innermost.depth)
  /\ frames' = SubSeq(frames, 1, Level - 1)
  /\ locals' = Usable(Level - 1)
  /\ UNCHANGED cells

(* v8__Isolate__Dispose frees slots and cells, the runtime then what the   *)
(* engine holds.  The next isolate starts over.                            *)
Dispose ==
  /\ frames = <<>>
  /\ rc' = [v \in Values |->
              rc[v] - Above(arena, 0, v) - Holding(cells, v) - heap[v]]
  /\ heap' = [v \in Values |-> 0]
  /\ arena' = <<>>
  /\ cells' = [c \in {} |-> Undefined]
  /\ locals' = {}
  /\ UNCHANGED <<frames, leaked>>

-----------------------------------------------------------------------------
Init ==
  /\ rc = [v \in Values |-> 0]
  /\ heap = [v \in Values |-> 0]
  /\ arena = <<>>
  /\ cells = [c \in {} |-> Undefined]
  /\ frames = <<>>
  /\ locals = {}
  /\ leaked = [v \in Values |-> 0]

Next ==
  \/ \E v \in Values :
       \/ InternFresh(v)
       \/ InternBorrowed(v)
       \/ HeapDrop(v)
       \/ CallbackEnter(v)
       \/ FastEnter(v)
       \/ FastMismatch(v)
       \/ \E k \in DOMAIN frames : ReturnValueSetEmptyString(k, v)
  \/ \E v \in Contents : LocalNew(v)
  \/ \E l \in locals :
       \/ HeapStore(l)
       \/ Escape(l)
       \/ \E c \in Cells : GlobalNew(c, l)
       \/ \E k \in DOMAIN frames : ReturnValueSet(k, l)
  \/ \E c \in Cells : GlobalReset(c)
  \/ \E k \in DOMAIN frames : ReturnValueGet(k)
  \/ \E used \in BOOLEAN : CallbackReturn(used)
  \/ \E result \in Contents, threw \in BOOLEAN : FastReturn(result, threw)
  \/ HandleScopeConstruct
  \/ EscapableScopeConstruct
  \/ HandleScopeDestruct
  \/ Dispose

Spec == Init /\ [][Next]_arenaVars

-----------------------------------------------------------------------------
TypeOK ==
  /\ rc \in [Values -> Nat]
  /\ heap \in [Values -> Nat]
  /\ arena \in Seq(Contents)
  /\ DOMAIN cells \subseteq Cells
  /\ cells \in [DOMAIN cells -> Contents]
  /\ frames \in Seq(Frame)
  /\ locals \subseteq Local
  /\ leaked \in [Values -> Nat]

(* Every slot, every persistent cell and every reference of the engine     *)
(* owns exactly one count, and nothing else does: a value is freed when    *)
(* the last of them goes, not before and not later.  What is leaked, the   *)
(* empty strings that callbacks return and the new results of fast calls   *)
(* that threw, is never freed.                                             *)
CountsExact ==
  \A v \in Values :
    rc[v] = heap[v] + Above(arena, 0, v) + Holding(cells, v) + leaked[v]

(* A handle is good for as long as the scope or callback it was made in is *)
(* open: its slot is still in the arena and holds the same, live, value,   *)
(* whatever was opened, escaped, called and closed since.                  *)
LocalsValid ==
  \A l \in locals :
    /\ l.at \in DOMAIN arena
    /\ arena[l.at] = l.val
    /\ l.val \in Values => rc[l.val] > 0

(* The return slot of a callback only borrows; the value in it is owned by *)
(* a slot that the end of the callback frees, until then, unless it is an  *)
(* empty string, which has a count of its own.                             *)
ReturnValueOwned ==
  \A j \in DOMAIN frames :
    LET ret == frames[j].ret
    IN ret \in Values => Above(arena, frames[j].depth, ret) + leaked[ret] > 0

(* Leaving a scope or a callback leaves the arena as long as it was when   *)
(* it was entered (the reserved slot of an escapable scope included).      *)
ArenaRestored ==
  [][Len(frames') < Len(frames) => Len(arena') = Innermost.depth]_arenaVars
=============================================================================
