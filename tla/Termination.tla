----------------------------- MODULE Termination -----------------------------
(***************************************************************************)
(* Termination and interrupts of one isolate of the QuickJS backend        *)
(* (src/quickjs/isolate.rs, function.rs, wasm.rs, inspector.rs).           *)
(*                                                                         *)
(* The isolate's own thread nests JavaScript, native callbacks and         *)
(* WebAssembly calls.  Other threads set a flag to stop it, clear the flag *)
(* again, or queue callbacks for it to run.  QuickJS polls the flag and    *)
(* the queue; WebAssembly runs in WAMR, which polls neither, so whoever    *)
(* terminates also marks the instance of the call that is active.          *)
(*                                                                         *)
(* Calls of these functions by the isolate's own native callbacks are the  *)
(* special case in which nothing comes in between.  Memory is taken to be  *)
(* sequentially consistent.                                                *)
(***************************************************************************)
EXTENDS Naturals, Sequences, FiniteSets, SequencesExt

CONSTANTS
  Requesters,     \* threads that terminate, cancel and request interrupts
  Instances,      \* WebAssembly instances
  NoInstance,     \* the null wasm_func_t
  MaxFrames,      \* frames above which nothing more is called (bound)
  MaxInterrupts,  \* interrupts ever requested (bound)
  Events          \* the special cases that may happen, see SpecialCases

(* late_mark: a WebAssembly call returns while another thread is about to  *)
(* mark its instance, and uncovers a call of another instance.             *)
(* heap_exhausted_in_import: JavaScript that WebAssembly has called runs   *)
(* out of memory.  swallowed_in_import: native code below such an import   *)
(* runs jobs, or clears the exception of a termination.                    *)
(* cancel_while_suppressed: a termination that the inspector keeps to      *)
(* itself is cancelled.                                                    *)
SpecialCases == {"late_mark", "heap_exhausted_in_import",
                 "swallowed_in_import", "cancel_while_suppressed"}

ASSUME TerminationAssumption ==
  /\ NoInstance \notin Instances
  /\ Instances \cap {"idle", "stored"} = {}
  /\ MaxFrames \in Nat
  /\ MaxInterrupts \in Nat
  /\ Events \subseteq SpecialCases

VARIABLES
  terminating,  \* IsoState::terminating
  requested,    \* the last of the calls was to terminate (history)
  pending,      \* IsoState::pending_interrupts
  delivered,    \* interrupts whose callback has been called (history)
  nextId,       \* interrupts requested, plus one
  active,       \* IsoState::active_wasm_func, by its instance
  exception,    \* the exception mark of each instance
  stack,        \* what the isolate's thread runs, innermost last
  thrown,       \* the exception on its way out of the innermost frame
  at            \* where each requester is in TerminateExecution

flagVars == <<terminating, requested>>
interruptVars == <<pending, delivered, nextId>>
wasmVars == <<active, exception>>
terminationVars == <<terminating, requested, pending, delivered, nextId,
                     active, exception, stack, thrown, at>>

-----------------------------------------------------------------------------
Ids == 1 .. MaxInterrupts

Js == [kind |-> "js"]

Native == [kind |-> "native"]

(* The interrupts taken and not run yet; polls: the flag is read after.    *)
Batch == [kind : {"interrupts"}, ids : Seq(Ids), polls : BOOLEAN]

(* A call of an export: what its ActiveWasmGuard restores, how far it is.  *)
WasmCall == [kind : {"wasm"}, inst : Instances,
             previous : Instances \cup {NoInstance},
             pc : {"entry", "check", "run"}]

(* TerminationSuppression.                                                 *)
Suppression == [kind : {"inspect"}, restore : BOOLEAN]

Frames == {Js, Native} \cup Batch \cup WasmCall \cup Suppression

IsTop(kind) == stack # <<>> /\ Last(stack).kind = kind

NativeRuns == stack = <<>> \/ (IsTop("native") /\ thrown = "none")

JsRuns == IsTop("js") /\ thrown = "none"

HasRoom == Len(stack) < MaxFrames

Push(f) == stack' = Append(stack, f)

ReplaceTop(f) == stack' = Append(Front(stack), f)

(* The exception stays with the context, where JavaScript, WebAssembly and *)
(* dispatch look for it; a poll does not.                                  *)
Surfaced(below, t) ==
  IF below = <<>> \/ Last(below).kind = "interrupts" THEN "none" ELSE t

WasmFrames == { k \in DOMAIN stack : stack[k].kind = "wasm" }

Leave(t) ==
  /\ stack' = Front(stack)
  /\ thrown' = Surfaced(Front(stack), t)

-----------------------------------------------------------------------------
(* v8__Isolate__TerminateExecution sets the flag, ...                      *)
TerminateExecution(r) ==
  /\ at[r] = "idle"
  /\ terminating' = TRUE
  /\ requested' = TRUE
  /\ at' = [at EXCEPT ![r] = "stored"]
  /\ UNCHANGED <<interruptVars, wasmVars, stack, thrown>>

(* ... looks which WebAssembly call is active (terminate_active_call), ... *)
LoadActiveCall(r) ==
  /\ at[r] = "stored"
  /\ at' = [at EXCEPT ![r] = IF active = NoInstance THEN "idle" ELSE active]
  /\ UNCHANGED <<flagVars, interruptVars, wasmVars, stack, thrown>>

(* ... and marks its instance (wasm_runtime_terminate).                    *)
MarkInstance(r) ==
  /\ at[r] \in Instances
  /\ exception' = [exception EXCEPT ![at[r]] = TRUE]
  /\ at' = [at EXCEPT ![r] = "idle"]
  /\ UNCHANGED <<flagVars, interruptVars, active, stack, thrown>>

Suppressed ==
  \E k \in DOMAIN stack : stack[k].kind = "inspect" /\ stack[k].restore

(* v8__Isolate__CancelTerminateExecution.                                  *)
CancelTerminateExecution(r) ==
  /\ at[r] = "idle"
  /\ Suppressed => "cancel_while_suppressed" \in Events
  /\ terminating' = FALSE
  /\ requested' = FALSE
  /\ UNCHANGED <<interruptVars, wasmVars, stack, thrown, at>>

(* v8__Isolate__RequestInterrupt.                                          *)
RequestInterrupt(r) ==
  /\ at[r] = "idle"
  /\ nextId <= MaxInterrupts
  /\ nextId' = nextId + 1
  /\ pending' = Append(pending, nextId)
  /\ UNCHANGED <<flagVars, delivered, wasmVars, stack, thrown, at>>

-----------------------------------------------------------------------------
(* v8__Function__Call throws what JavaScript cannot catch                  *)
(* (throw_termination_exception) instead of calling.                       *)
CallFunction ==
  /\ NativeRuns
  /\ IF terminating
     THEN thrown' = Surfaced(stack, "uncatchable") /\ UNCHANGED stack
     ELSE HasRoom /\ Push(Js) /\ UNCHANGED thrown
  /\ UNCHANGED <<flagVars, interruptVars, wasmVars, at>>

(* v8__Module__Evaluate does nothing instead of evaluating.                *)
EvaluateModule ==
  /\ NativeRuns
  /\ HasRoom
  /\ ~ terminating
  /\ Push(Js)
  /\ UNCHANGED <<flagVars, interruptVars, wasmVars, thrown, at>>

(* A job is run (drain_jobs), whatever the flag says.                      *)
ExecutePendingJob ==
  /\ NativeRuns
  /\ HasRoom
  /\ WasmFrames # {} => "swallowed_in_import" \in Events
  /\ Push(Js)
  /\ UNCHANGED <<flagVars, interruptVars, wasmVars, thrown, at>>

(* v8__Script__Run: the pending interrupts first, then the script.         *)
RunScript ==
  /\ NativeRuns
  /\ HasRoom
  /\ stack' = stack \o <<Js, [kind |-> "interrupts", ids |-> pending,
                              polls |-> FALSE]>>
  /\ pending' = <<>>
  /\ UNCHANGED <<flagVars, delivered, nextId, wasmVars, thrown, at>>

(* dispatch: JavaScript calls a native callback.                           *)
CallNative ==
  /\ JsRuns
  /\ IF terminating
     THEN thrown' = "uncatchable" /\ UNCHANGED stack
     ELSE HasRoom /\ Push(Native) /\ UNCHANGED thrown
  /\ UNCHANGED <<flagVars, interruptVars, wasmVars, at>>

(* A TryCatch is reset, or drain_jobs or v8__Module__Evaluate drops the    *)
(* exception of what it ran.                                               *)
ClearException ==
  /\ IsTop("native")
  /\ thrown # "none"
  /\ thrown = "uncatchable" /\ WasmFrames # {}
       => "swallowed_in_import" \in Events
  /\ thrown' = "none"
  /\ UNCHANGED <<flagVars, interruptVars, wasmVars, stack, at>>

NativeReturns ==
  /\ IsTop("native")
  /\ Leave(thrown)
  /\ UNCHANGED <<flagVars, interruptVars, wasmVars, at>>

JsReturns ==
  /\ JsRuns
  /\ Leave("none")
  /\ UNCHANGED <<flagVars, interruptVars, wasmVars, at>>

JsThrows ==
  /\ JsRuns
  /\ thrown' = "error"
  /\ UNCHANGED <<flagVars, interruptVars, wasmVars, stack, at>>

Catch ==
  /\ IsTop("js")
  /\ thrown = "error"
  /\ thrown' = "none"
  /\ UNCHANGED <<flagVars, interruptVars, wasmVars, stack, at>>

Unwind ==
  /\ IsTop("js")
  /\ thrown # "none"
  /\ Leave(thrown)
  /\ UNCHANGED <<flagVars, interruptVars, wasmVars, at>>

(* memory_limit_handler when no near-heap-limit callback is there.         *)
HeapExhausted ==
  /\ JsRuns \/ NativeRuns
  /\ WasmFrames # {} => "heap_exhausted_in_import" \in Events
  /\ terminating' = TRUE
  /\ requested' = TRUE
  /\ UNCHANGED <<interruptVars, wasmVars, stack, thrown, at>>

-----------------------------------------------------------------------------
PollKeepsPending ==
  /\ JsRuns
  /\ Push([kind |-> "interrupts", ids |-> pending, polls |-> TRUE])
  /\ UNCHANGED <<flagVars, interruptVars, wasmVars, thrown, at>>

(* terminate_interrupt_handler takes the pending interrupts, ...           *)
Poll ==
  /\ JsRuns
  /\ Push([kind |-> "interrupts", ids |-> pending, polls |-> TRUE])
  /\ pending' = <<>>
  /\ UNCHANGED <<flagVars, delivered, nextId, wasmVars, thrown, at>>

(* ... runs them in order, outside the lock, ...                           *)
RunInterrupt ==
  /\ IsTop("interrupts")
  /\ LET f == Last(stack)
     IN /\ f.ids # <<>>
        /\ stack' = Front(stack) \o <<[f EXCEPT !.ids = Tail(@)], Native>>
        /\ delivered' = delivered \cup {Head(f.ids)}
  /\ UNCHANGED <<flagVars, pending, nextId, wasmVars, thrown, at>>

(* ... and reads the flag; JavaScript cannot catch what QuickJS throws.    *)
InterruptsDone ==
  /\ IsTop("interrupts")
  /\ Last(stack).ids = <<>>
  /\ Leave(IF Last(stack).polls /\ terminating THEN "uncatchable" ELSE "none")
  /\ UNCHANGED <<flagVars, interruptVars, wasmVars, at>>

-----------------------------------------------------------------------------
(* call_export swaps the active call, ...                                  *)
CallExport(m) ==
  /\ JsRuns
  /\ HasRoom
  /\ Push([kind |-> "wasm", inst |-> m, previous |-> active, pc |-> "entry"])
  /\ active' = m
  /\ UNCHANGED <<flagVars, interruptVars, exception, thrown, at>>

(* ... wasm_func_call clears a stale exception, ...                        *)
WasmClear ==
  /\ IsTop("wasm")
  /\ Last(stack).pc = "entry"
  /\ exception' = [exception EXCEPT ![Last(stack).inst] = FALSE]
  /\ ReplaceTop([Last(stack) EXCEPT !.pc = "check"])
  /\ UNCHANGED <<flagVars, interruptVars, active, thrown, at>>

WasmUnchecked ==
  /\ IsTop("wasm")
  /\ Last(stack).pc = "check"
  /\ ReplaceTop([Last(stack) EXCEPT !.pc = "run"])
  /\ UNCHANGED <<flagVars, interruptVars, wasmVars, thrown, at>>

(* ... and asks for the flag (v82jsc_wasm_should_terminate) before it runs *)
(* the function.                                                           *)
WasmCheck ==
  /\ IsTop("wasm")
  /\ Last(stack).pc = "check"
  /\ exception' = [exception EXCEPT ![Last(stack).inst] = @ \/ terminating]
  /\ ReplaceTop([Last(stack) EXCEPT !.pc = "run"])
  /\ UNCHANGED <<flagVars, interruptVars, active, thrown, at>>

WasmRuns == IsTop("wasm") /\ Last(stack).pc = "run"

(* import_trampoline; only branches and returns look for the mark.         *)
CallImport ==
  /\ WasmRuns
  /\ thrown = "none"
  /\ HasRoom
  /\ Push(Js)
  /\ UNCHANGED <<flagVars, interruptVars, wasmVars, thrown, at>>

(* Somebody has read the innermost call from active and not marked it yet. *)
MarkUnderWay ==
  /\ \E r \in Requesters : at[r] = Last(stack).inst
  /\ \E k \in WasmFrames : stack[k].inst # Last(stack).inst

(* The function returns; the guard puts the outer call back.               *)
WasmReturns ==
  /\ WasmRuns
  /\ thrown = "none"
  /\ ~ exception[Last(stack).inst]
  /\ MarkUnderWay => "late_mark" \in Events
  /\ active' = Last(stack).previous
  /\ Leave("none")
  /\ UNCHANGED <<flagVars, interruptVars, exception, at>>

WasmTrapsActive ==
  /\ WasmRuns
  /\ thrown # "none" \/ exception[Last(stack).inst]
  /\ Leave(IF terminating THEN "uncatchable"
           ELSE IF thrown # "none" THEN thrown ELSE "error")
  /\ exception' = [exception EXCEPT ![Last(stack).inst] = TRUE]
  /\ UNCHANGED <<flagVars, interruptVars, active, at>>

(* At a branch or at the end the interpreter finds the mark, or the import *)
(* has thrown; call_export turns the trap into an exception.               *)
WasmTraps ==
  /\ WasmRuns
  /\ thrown # "none" \/ exception[Last(stack).inst]
  /\ active' = Last(stack).previous
  /\ exception' = [exception EXCEPT ![Last(stack).inst] = TRUE]
  /\ Leave(IF terminating THEN "uncatchable"
           ELSE IF thrown # "none" THEN thrown ELSE "error")
  /\ UNCHANGED <<flagVars, interruptVars, at>>

-----------------------------------------------------------------------------
(* The inspector's dispatch clears the flag to be able to read a message   *)
(* (TerminationSuppression) ...                                            *)
InspectorDispatch ==
  /\ NativeRuns
  /\ HasRoom
  /\ Push([kind |-> "inspect", restore |-> terminating])
  /\ terminating' = FALSE
  /\ UNCHANGED <<requested, interruptVars, wasmVars, thrown, at>>

RestoreForgets ==
  /\ IsTop("inspect")
  /\ stack' = Front(stack)
  /\ UNCHANGED <<flagVars, interruptVars, wasmVars, thrown, at>>

(* ... and sets it again if it was set.                                    *)
InspectorRestore ==
  /\ IsTop("inspect")
  /\ terminating' = (terminating \/ Last(stack).restore)
  /\ stack' = Front(stack)
  /\ UNCHANGED <<requested, interruptVars, wasmVars, thrown, at>>

-----------------------------------------------------------------------------
Init ==
  /\ terminating = FALSE
  /\ requested = FALSE
  /\ pending = <<>>
  /\ delivered = {}
  /\ nextId = 1
  /\ active = NoInstance
  /\ exception = [m \in Instances |-> FALSE]
  /\ stack = <<>>
  /\ thrown = "none"
  /\ at = [r \in Requesters |-> "idle"]

(* The steps a thread takes by itself.                                     *)
ContinueRequest(r) == LoadActiveCall(r) \/ MarkInstance(r)

Continue ==
  \/ Unwind
  \/ RunInterrupt
  \/ InterruptsDone
  \/ WasmClear
  \/ WasmCheck
  \/ InspectorRestore

Next ==
  \/ \E r \in Requesters :
       \/ TerminateExecution(r)
       \/ CancelTerminateExecution(r)
       \/ RequestInterrupt(r)
       \/ ContinueRequest(r)
  \/ \E m \in Instances : CallExport(m)
  \/ CallFunction
  \/ EvaluateModule
  \/ ExecutePendingJob
  \/ RunScript
  \/ CallNative
  \/ ClearException
  \/ NativeReturns
  \/ JsReturns
  \/ JsThrows
  \/ Catch
  \/ HeapExhausted
  \/ Poll
  \/ CallImport
  \/ WasmReturns
  \/ WasmTraps
  \/ InspectorDispatch
  \/ Continue

(* Running JavaScript polls again and again, and so does WAMR for its      *)
(* mark; native callbacks return.  Nothing makes WebAssembly return or     *)
(* call out by itself.                                                     *)
Fairness ==
  /\ \A r \in Requesters : WF_terminationVars(ContinueRequest(r))
  /\ WF_terminationVars(Continue)
  /\ SF_terminationVars(Poll)
  /\ SF_terminationVars(WasmTraps)
  /\ SF_terminationVars(NativeReturns)

Spec == Init /\ [][Next]_terminationVars

FairSpec == Spec /\ Fairness

-----------------------------------------------------------------------------
(* Every variable keeps its shape, and an exception is only under way      *)
(* where JavaScript or WebAssembly can pass it on.                         *)
TypeOK ==
  /\ {terminating, requested} \subseteq BOOLEAN
  /\ pending \in Seq(Ids)
  /\ delivered \subseteq Ids
  /\ nextId \in 1 .. MaxInterrupts + 1
  /\ active \in Instances \cup {NoInstance}
  /\ exception \in [Instances -> BOOLEAN]
  /\ stack \in Seq(Frames)
  /\ thrown \in {"none", "uncatchable", "error"}
  /\ thrown # "none" => \E kind \in {"js", "wasm", "native"} : IsTop(kind)
  /\ at \in [Requesters -> {"idle", "stored"} \cup Instances]

(* The flag says what the last call asked for, except while the inspector  *)
(* keeps a request to itself: no request is lost when it is made while a   *)
(* message is decoded, and none comes back.                                *)
FlagFollowsRequests == requested <=> terminating \/ Suppressed

(* A cancelled termination stays cancelled: the flag is set by a request   *)
(* and cleared by a cancellation, and by nothing else.                     *)
CancelSticks == terminating => requested

(* The pointer other threads terminate through is that of the innermost    *)
(* WebAssembly call, over imports that call exports and calls that trap.   *)
ActiveIsInnermostCall ==
  active = IF WasmFrames = {} THEN NoInstance
           ELSE stack[CHOOSE k \in WasmFrames : \A j \in WasmFrames : j <= k].inst

(* Where an interrupt waits or has gone.                                   *)
InterruptPlaces(id) ==
  { <<"pending", k>> : k \in { j \in DOMAIN pending : pending[j] = id } }
    \cup { p \in { <<"batch", k>> : k \in DOMAIN stack } :
             LET f == stack[p[2]]
             IN f.kind = "interrupts" /\ id \in ToSet(f.ids) }
    \cup { p \in { <<"delivered", 0>> } : id \in delivered }

(* Every interrupt requested is in one place, on its way to being run      *)
(* once, although its callbacks run JavaScript that polls again.           *)
InterruptsOnce ==
  \A id \in Ids : Cardinality(InterruptPlaces(id)) = IF id < nextId THEN 1 ELSE 0

EngineRuns == \E k \in DOMAIN stack : stack[k].kind \in {"js", "wasm"}

(* A termination stops all JavaScript and WebAssembly of the isolate,      *)
(* however they are nested and wherever they were when it was requested,   *)
(* unless it is cancelled.                                                 *)
TerminationStops == requested ~> (~ requested \/ ~ EngineRuns)
=============================================================================
