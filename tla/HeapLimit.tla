------------------------------ MODULE HeapLimit ------------------------------
(***************************************************************************)
(* The near-heap-limit callback of one isolate in the QuickJS backend      *)
(* (src/quickjs/isolate.rs).  The isolate has a limit; the engine refuses  *)
(* an allocation that reaches its cap, which lies above the limit while a  *)
(* callback is registered.  Before it refuses it calls                     *)
(* memory_limit_handler, which may ask the callback for a higher limit; so *)
(* does the end of a script.  The callback runs with the cap lifted, may   *)
(* allocate, and may register and remove callbacks.                        *)
(*                                                                         *)
(* One thread.  Sizes are in units; near_heap_limit_headroom is constant   *)
(* here, and sums do not saturate.                                         *)
(***************************************************************************)
EXTENDS Integers, Sequences, SequencesExt

CONSTANTS
  Configured,           \* the limit of v8__Isolate__New, 0 for none
  DefaultLimit,         \* the one that registering a callback then sets
  Headroom,             \* near_heap_limit_headroom
  TerminationHeadroom,  \* TERMINATION_HEADROOM
  MaxHeap,              \* bound on limits and on what the cap refuses
  MaxDepth,             \* bound on handlers and callbacks in progress
  AddsInside            \* whether a callback may register one

ASSUME HeapLimitAssumption ==
  /\ Configured \in Nat
  /\ DefaultLimit \in Nat \ {0}
  /\ Headroom \in Nat \ {0}
  /\ TerminationHeadroom \in Nat \ {0}
  /\ MaxHeap \in Nat
  /\ MaxDepth \in Nat
  /\ AddsInside \in BOOLEAN

VARIABLES
  registered,   \* near_heap_limit_callback is not null
  limit,        \* near_heap_limit_current
  inCallback,   \* near_heap_limit_in_callback
  cap,          \* the engine's malloc_limit, 0 for none
  heap,         \* its malloc_size
  terminating,  \* IsoState::terminating
  stack         \* handlers and callbacks in progress, innermost last

heapLimitVars ==
  <<registered, limit, inCallback, cap, heap, terminating, stack>>

-----------------------------------------------------------------------------
Sizes == 1 .. MaxHeap

(* A refused allocation; asked: it has called the callback.                *)
Handler(size, asked) == [kind |-> "handler", size |-> size, asked |-> asked]

(* A call of the callback, with the limit it was told.                     *)
Callback(told) == [kind |-> "callback", told |-> told]

IsTop(kind) == stack # <<>> /\ Last(stack).kind = kind

CallbackRuns == \E k \in DOMAIN stack : stack[k].kind = "callback"

(* Scripts and the embedder run outside of all this or in a callback.      *)
CodeRuns == stack # <<>> => IsTop("callback")

HasRoom == Len(stack) < MaxDepth

Fits(size, bound) == bound = 0 \/ heap + size < bound

-----------------------------------------------------------------------------
(* set_near_heap_limit_callback.                                           *)
AddNearHeapLimitCallback ==
  /\ CodeRuns
  /\ CallbackRuns => AddsInside
  /\ registered' = TRUE
  /\ limit' = IF limit = 0 THEN DefaultLimit ELSE limit
  /\ cap' = limit' + Headroom
  /\ UNCHANGED <<inCallback, heap, terminating, stack>>

(* v8__Isolate__RemoveNearHeapLimitCallback; restored is 0 to keep the     *)
(* limit.                                                                  *)
RemoveNearHeapLimitCallback(restored) ==
  /\ CodeRuns
  /\ registered' = FALSE
  /\ inCallback' = FALSE
  /\ limit' = IF restored # 0 THEN restored ELSE limit
  /\ cap' = limit'
  /\ UNCHANGED <<heap, terminating, stack>>

(* v8__Isolate__CancelTerminateExecution.                                  *)
CancelTerminateExecution ==
  /\ CodeRuns /\ terminating
  /\ terminating' = FALSE
  /\ UNCHANGED <<registered, limit, inCallback, cap, heap, stack>>

-----------------------------------------------------------------------------
(* A mutant of Drives: the flag is not read.                               *)
DrivesAgain == registered /\ limit # 0 /\ heap + Headroom >= limit

(* maybe_drive_near_heap_limit_callback: whether it calls the callback,    *)
(* which it does with the cap lifted.                                      *)
Drives == registered /\ limit # 0 /\ ~inCallback /\ heap + Headroom >= limit

Drive(below) ==
  IF Drives
  THEN /\ inCallback' = TRUE
       /\ cap' = 0
       /\ stack' = below \o <<Callback(limit)>>
  ELSE /\ UNCHANGED <<inCallback, cap>>
       /\ stack' = below

Allocate(size) ==
  /\ CodeRuns
  /\ Fits(size, cap) /\ heap + size <= MaxHeap
  /\ heap' = heap + size
  /\ UNCHANGED <<registered, limit, inCallback, cap, terminating, stack>>

(* js_memory_limit_exceeded calls memory_limit_handler.                    *)
MemoryLimitHandler(size) ==
  /\ CodeRuns /\ HasRoom
  /\ ~Fits(size, cap)
  /\ Drive(stack \o <<Handler(size, Drives)>>)
  /\ UNCHANGED <<registered, limit, heap, terminating>>

(* The end of v8__Script__Run.                                             *)
ScriptReturns ==
  /\ CodeRuns /\ HasRoom
  /\ Drives
  /\ Drive(stack)
  /\ UNCHANGED <<registered, limit, heap, terminating>>

(* A mutant of Resume: the cap is set only with a new limit.               *)
ResumeIfRaised(returned) ==
  /\ limit' = IF returned > Last(stack).told THEN returned ELSE limit
  /\ cap' = IF returned > Last(stack).told THEN returned + Headroom ELSE cap
  /\ inCallback' = FALSE
  /\ stack' = Front(stack)
  /\ UNCHANGED <<registered, heap, terminating>>

(* The callback has returned: a higher limit than the one it was told is   *)
(* taken, and the cap comes back.                                          *)
Resume(returned) ==
  /\ limit' = IF returned > Last(stack).told THEN returned ELSE limit
  /\ cap' = IF registered THEN limit' + Headroom ELSE limit'
  /\ inCallback' = FALSE
  /\ stack' = Front(stack)
  /\ UNCHANGED <<registered, heap, terminating>>

CallbackReturns(returned) == IsTop("callback") /\ Resume(returned)

(* A mutant of CallbackPanics: the flag stays set.                         *)
CallbackUnwinds ==
  /\ IsTop("callback")
  /\ cap' = IF registered THEN limit + Headroom ELSE limit
  /\ stack' = Front(stack)
  /\ UNCHANGED <<registered, limit, inCallback, heap, terminating>>

(* catch_unwind stands for the limit it was told.                          *)
CallbackPanics == IsTop("callback") /\ Resume(Last(stack).told)

(* The rest of memory_limit_handler, without a callback the end of the     *)
(* script, and the second look of js_memory_limit_exceeded.                *)
HandlerReturns ==
  /\ IsTop("handler")
  /\ cap' = IF registered THEN cap ELSE limit + TerminationHeadroom
  /\ terminating' = (terminating \/ ~registered)
  /\ heap' = IF Fits(Last(stack).size, cap') THEN heap + Last(stack).size ELSE heap
  /\ stack' = Front(stack)
  /\ UNCHANGED <<registered, limit, inCallback>>

Free(size) ==
  /\ CodeRuns
  /\ size <= heap
  /\ heap' = heap - size
  /\ UNCHANGED <<registered, limit, inCallback, cap, terminating, stack>>

-----------------------------------------------------------------------------
Init ==
  /\ registered = FALSE
  /\ limit = Configured
  /\ inCallback = FALSE
  /\ cap = Configured
  /\ heap = 0
  /\ terminating = FALSE
  /\ stack = <<>>

Next ==
  \/ AddNearHeapLimitCallback
  \/ \E l \in {0} \cup Sizes : RemoveNearHeapLimitCallback(l)
  \/ CancelTerminateExecution
  \/ ScriptReturns
  \/ HandlerReturns
  \/ CallbackPanics
  \/ \E s \in Sizes :
       \/ Allocate(s) \/ MemoryLimitHandler(s) \/ Free(s)
       \/ CallbackReturns(s)

Spec == Init /\ [][Next]_heapLimitVars

-----------------------------------------------------------------------------
TypeOK ==
  /\ registered \in BOOLEAN
  /\ limit \in Nat
  /\ inCallback \in BOOLEAN
  /\ cap \in Nat
  /\ heap \in Nat
  /\ terminating \in BOOLEAN
  /\ stack \in Seq([kind : {"handler"}, size : Nat, asked : BOOLEAN]
                     \cup [kind : {"callback"}, told : Nat])

(* Whatever callbacks did while they ran, panics and removals included,    *)
(* the cap that was lifted for them is back when none runs, and it belongs *)
(* to the limit of now (maybe_drive_near_heap_limit_callback, "Lift the    *)
(* QuickJS cap for the duration").                                         *)
CapFollowsLimit ==
  ~CallbackRuns =>
    IF limit = 0 THEN cap = 0
    ELSE IF registered THEN cap = limit + Headroom
    ELSE cap \in {limit, limit + TerminationHeadroom}

(* The callback is not entered again while it runs, by allocations of its  *)
(* own, also when it has removed itself, which resets the flag.            *)
OneCallbackAtATime ==
  \A i, j \in DOMAIN stack :
    stack[i].kind = "callback" /\ stack[j].kind = "callback" => i = j

(* Outside of a callback no allocation near the limit fails before the     *)
(* registered callback was asked for a higher limit, however earlier calls *)
(* of it ended.                                                            *)
AskedBeforeFailing ==
  [][(/\ IsTop("handler") /\ stack' = Front(stack)
      /\ heap' = heap
      /\ registered /\ heap + Headroom >= limit /\ ~CallbackRuns)
     => Last(stack).asked]_heapLimitVars

(* "V8 treats an exhausted heap as fatal" (memory_limit_handler): the      *)
(* handler terminates only where the allocation goes beyond the limit.     *)
(* The code does not keep this: see README.                                *)
TerminatesOnlyWhenExhausted ==
  [][(IsTop("handler") /\ ~terminating /\ terminating')
     => ~Fits(Last(stack).size, limit)]_heapLimitVars
=============================================================================
