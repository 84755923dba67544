---------------------------- MODULE IsolateStack ----------------------------
(***************************************************************************)
(* The thread-local notion of "the current isolate and context" of the     *)
(* QuickJS backend (src/quickjs/core.rs): CURRENT_ISO, CURRENT_CTX,        *)
(* ISO_STACK and LAST_ISO, the stack of entered contexts that every        *)
(* IsoState keeps, and the calls that move them.  One thread, several      *)
(* isolates.                                                               *)
(*                                                                         *)
(* The ABI functions find the isolate they act on through current_iso(),   *)
(* not through their arguments, so everything else of the backend rests on *)
(* these few variables being right.  The embedder's side of the contract   *)
(* is the stack `frames` of what it, or the engine on its behalf, has open *)
(* and must close in reverse order: handle scopes, entered contexts and    *)
(* native callbacks.                                                       *)
(***************************************************************************)
EXTENDS Naturals, Sequences, FiniteSets, FiniteSetsExt, SequencesExt, Functions

CONSTANTS
  Isolates,   \* addresses a RealIsolate may have (reused after Dispose)
  NoIso,      \* the null isolate pointer
  NoCtx,      \* the null JSContext pointer
  MaxCtx,     \* contexts an isolate may hand out (bound)
  MaxFrames,  \* scopes, contexts and callbacks open at once (bound)
  MaxEnter,   \* positions of ISO_STACK (bound)
  Strict      \* TRUE: isolates are used strictly nested, see MayUse

ASSUME IsolateStackAssumption ==
  /\ NoIso \notin Isolates
  /\ MaxCtx \in Nat \ {0}
  /\ MaxFrames \in Nat
  /\ MaxEnter \in Nat \ {0}
  /\ Strict \in BOOLEAN
  /\ NoCtx \notin Isolates \X (0 .. MaxCtx - 1)

VARIABLES
  live,       \* isolates between v8__Isolate__New and v8__Isolate__Dispose
  isoStack,   \* ISO_STACK: position -> isolate; positions only order the entries
  current,    \* CURRENT_ISO
  last,       \* LAST_ISO
  currentCtx, \* CURRENT_CTX
  handedOut,  \* contexts each isolate has handed out, st.ctx first
  contexts,   \* IsoState::contexts, the entered contexts of each isolate
  frames      \* what the embedder has open, innermost last

isoVars == <<live, isoStack, current, last, currentCtx, handedOut, contexts,
             frames>>

-----------------------------------------------------------------------------
(* Contexts are pairs: the isolate that owns the JSContext and its number. *)
(* Number 0 is st.ctx, made together with the runtime.                     *)
Ctx == Isolates \X (0 .. MaxCtx - 1)

MainCtx(i) == <<i, 0>>

FrameKinds == {"scope", "ctx", "callback", "dispatch", "eval"}

Frame == [kind: FrameKinds, iso: Isolates, ctx: Ctx \cup {NoCtx},
          depth: Nat, outer: Ctx \cup {NoCtx}]

(* current_iso(): the last isolate that was current stands in for none.    *)
CurrentIso == IF current # NoIso THEN current ELSE last

TopIso(stack) == IF DOMAIN stack = {} THEN NoIso ELSE stack[Max(DOMAIN stack)]

Pushed(stack, i) ==
  LET top == IF DOMAIN stack = {} THEN 0 ELSE Max(DOMAIN stack)
  IN [k \in DOMAIN stack \cup {top + 1} |-> IF k = top + 1 THEN i ELSE stack[k]]

(* pop_current_iso: drops the innermost entry of i, wherever it is.        *)
WithoutInnermost(stack, i) ==
  LET at == { k \in DOMAIN stack : stack[k] = i }
  IN IF at = {} THEN stack ELSE Restrict(stack, DOMAIN stack \ {Max(at)})

(* remove_current_iso: drops every entry of i.                             *)
WithoutEvery(stack, i) ==
  Restrict(stack, { k \in DOMAIN stack : stack[k] # i })

(* What refresh_current_ctx and fallback_ctx compute for an isolate.       *)
InnermostCtx(i, ctxs) == IF ctxs[i] = <<>> THEN MainCtx(i) ELSE Last(ctxs[i])

(* set_current(i), the module-cache switch excepted (ModuleCaches).        *)
SetCurrent(i, ctxs) ==
  /\ current' = i
  /\ last' = IF i # NoIso THEN i ELSE last
  /\ currentCtx' = IF i # NoIso THEN InnermostCtx(i, ctxs) ELSE NoCtx

Open(f) ==
  /\ Len(frames) < MaxFrames
  /\ frames' = Append(frames, f)

Innermost == Last(frames)

Close(kind) ==
  /\ frames # <<>>
  /\ Innermost.kind = kind
  /\ frames' = Front(frames)

(* The embedder's discipline.  V8 asks that an isolate be entered before   *)
(* it is used; Strict adds that it be the innermost entered one, and that  *)
(* whatever is closed is closed while its isolate is current.              *)
MayUse(i) ==
  /\ i \in live
  /\ Strict => current = i /\ TopIso(isoStack) = i

InUse(i) == \E k \in DOMAIN frames : frames[k].iso = i

-----------------------------------------------------------------------------
(* v8__Isolate__New: nothing becomes current, no context is handed out.    *)
IsolateNew(i) ==
  /\ i \notin live
  /\ live' = live \cup {i}
  /\ handedOut' = [handedOut EXCEPT ![i] = 0]
  /\ contexts' = [contexts EXCEPT ![i] = <<>>]
  /\ UNCHANGED <<isoStack, current, last, currentCtx, frames>>

(* v8__Isolate__Enter: push_current_iso.                                   *)
IsolateEnter(i) ==
  /\ i \in live
  /\ \A k \in DOMAIN isoStack : k < MaxEnter
  /\ isoStack' = Pushed(isoStack, i)
  /\ SetCurrent(i, contexts)
  /\ UNCHANGED <<live, handedOut, contexts, frames>>

ExitKeepingCurrent(i) ==
  /\ i \in live
  /\ i \in Range(isoStack)
  /\ ~ InUse(i)
  /\ Strict => MayUse(i)
  /\ isoStack' = WithoutInnermost(isoStack, i)
  /\ UNCHANGED <<live, current, last, currentCtx, handedOut, contexts, frames>>

(* v8__Isolate__Exit: pop_current_iso.                                     *)
IsolateExit(i) ==
  /\ i \in live
  /\ i \in Range(isoStack)
  /\ ~ InUse(i)
  /\ Strict => MayUse(i)
  /\ isoStack' = WithoutInnermost(isoStack, i)
  /\ SetCurrent(TopIso(isoStack'), contexts)
  /\ UNCHANGED <<live, handedOut, contexts, frames>>

LastKept(i, top) == IF top # NoIso THEN top ELSE last

(* clear_last_iso, after remove_current_iso has made `top` current.        *)
LastAfterDispose(i, top) ==
  IF top # NoIso THEN top ELSE IF last = i THEN NoIso ELSE last

(* v8__Isolate__Dispose, the part that concerns the thread: every entry of *)
(* the isolate leaves ISO_STACK (remove_current_iso), then clear_last_iso. *)
IsolateDispose(i) ==
  /\ i \in live
  /\ ~ InUse(i)
  /\ live' = live \ {i}
  /\ isoStack' = WithoutEvery(isoStack, i)
  /\ LET top == TopIso(isoStack')
     IN /\ current' = top
        /\ last' = LastAfterDispose(i, top)
        /\ currentCtx' = IF top # NoIso THEN InnermostCtx(top, contexts)
                         ELSE NoCtx
  /\ handedOut' = [handedOut EXCEPT ![i] = 0]
  /\ contexts' = [contexts EXCEPT ![i] = <<>>]
  /\ UNCHANGED frames

(* v8__HandleScope__CONSTRUCT: makes its isolate current without entering  *)
(* it.  The arena depth it saves belongs to HandleArena.                   *)
HandleScopeConstruct(i) ==
  /\ MayUse(i)
  /\ Open([kind |-> "scope", iso |-> i, ctx |-> NoCtx, depth |-> 0,
           outer |-> currentCtx])
  /\ SetCurrent(i, contexts)
  /\ UNCHANGED <<live, isoStack, handedOut, contexts>>

(* v8__HandleScope__DESTRUCT: the isolate made current stays current.      *)
HandleScopeDestruct ==
  /\ Close("scope")
  /\ MayUse(Innermost.iso)
  /\ UNCHANGED <<live, isoStack, current, last, currentCtx, handedOut,
                 contexts>>

(* v8__Context__New: the bootstrap context first, then fresh ones.         *)
ContextNew(i) ==
  /\ MayUse(i)
  /\ handedOut[i] < MaxCtx
  /\ handedOut' = [handedOut EXCEPT ![i] = @ + 1]
  /\ UNCHANGED <<live, isoStack, current, last, currentCtx, contexts, frames>>

IsHandedOut(c) == c[2] < handedOut[c[1]]

(* v8__Context__Enter: on the stack of current_iso(), whoever owns c.      *)
ContextEnter(c) ==
  /\ MayUse(c[1])
  /\ IsHandedOut(c)
  /\ CurrentIso # NoIso
  /\ Len(contexts[CurrentIso]) < MaxFrames
  /\ Open([kind |-> "ctx", iso |-> c[1], ctx |-> c,
           depth |-> Len(contexts[c[1]]), outer |-> currentCtx])
  /\ contexts' = [contexts EXCEPT ![CurrentIso] = Append(@, c)]
  /\ currentCtx' = c
  /\ UNCHANGED <<live, isoStack, current, last, handedOut>>

ContextExitStale ==
  /\ Close("ctx")
  /\ MayUse(Innermost.iso)
  /\ contexts' = [contexts EXCEPT ![CurrentIso] = Front(@)]
  /\ UNCHANGED <<live, isoStack, current, last, currentCtx, handedOut>>

(* v8__Context__Exit: pops current_iso()'s stack; the argument is ignored. *)
ContextExit ==
  /\ Close("ctx")
  /\ MayUse(Innermost.iso)
  /\ IF CurrentIso = NoIso
     THEN UNCHANGED <<contexts, currentCtx>>
     ELSE /\ contexts' = [contexts EXCEPT ![CurrentIso] =
                            IF @ = <<>> THEN @ ELSE Front(@)]
          /\ currentCtx' = InnermostCtx(CurrentIso, contexts')
  /\ UNCHANGED <<live, isoStack, current, last, handedOut>>

(* An interceptor of a template runs for an object of context c            *)
(* (call_named_getter and its kin): push_callback_context.                 *)
CallbackEnter(c) ==
  /\ MayUse(c[1])
  /\ IsHandedOut(c)
  /\ CurrentIso # NoIso
  /\ Len(contexts[CurrentIso]) < MaxFrames
  /\ Open([kind |-> "callback", iso |-> CurrentIso, ctx |-> c,
           depth |-> Len(contexts[CurrentIso]), outer |-> currentCtx])
  /\ contexts' = [contexts EXCEPT ![CurrentIso] = Append(@, c)]
  /\ currentCtx' = c
  /\ UNCHANGED <<live, isoStack, current, last, handedOut>>

(* Vec::truncate.                                                          *)
Truncated(stack, depth) ==
  SubSeq(stack, 1, IF depth < Len(stack) THEN depth ELSE Len(stack))

(* CallbackContextGuard::drop: cut the stack back, whatever is above.      *)
CallbackReturn ==
  /\ Close("callback")
  /\ LET f == Innermost
     IN /\ MayUse(f.iso)
        /\ contexts' = [contexts EXCEPT ![f.iso] = Truncated(@, f.depth)]
        /\ currentCtx' = InnermostCtx(f.iso, contexts')
  /\ UNCHANGED <<live, isoStack, current, last, handedOut>>

(* dispatch: a function of context c is called.  It moves no context.      *)
DispatchEnter(c) ==
  /\ MayUse(c[1])
  /\ IsHandedOut(c)
  /\ Open([kind |-> "dispatch", iso |-> c[1], ctx |-> c,
           depth |-> Len(contexts[c[1]]), outer |-> currentCtx])
  /\ UNCHANGED <<live, isoStack, current, last, currentCtx, handedOut,
                 contexts>>

DispatchReturn ==
  /\ Close("dispatch")
  /\ MayUse(Innermost.iso)
  /\ UNCHANGED <<live, isoStack, current, last, currentCtx, handedOut,
                 contexts>>

-----------------------------------------------------------------------------
IsolateStackInit ==
  /\ live = {}
  /\ isoStack = [k \in {} |-> NoIso]
  /\ current = NoIso
  /\ last = NoIso
  /\ currentCtx = NoCtx
  /\ handedOut = [i \in Isolates |-> 0]
  /\ contexts = [i \in Isolates |-> <<>>]
  /\ frames = <<>>

IsolateStackNext ==
  \/ \E i \in Isolates : \/ IsolateNew(i)
                         \/ IsolateEnter(i)
                         \/ IsolateExit(i)
                         \/ IsolateDispose(i)
                         \/ HandleScopeConstruct(i)
                         \/ ContextNew(i)
  \/ \E c \in Ctx : \/ ContextEnter(c)
                    \/ CallbackEnter(c)
                    \/ DispatchEnter(c)
  \/ HandleScopeDestruct
  \/ ContextExit
  \/ CallbackReturn
  \/ DispatchReturn

IsolateStackSpec == IsolateStackInit /\ [][IsolateStackNext]_isoVars

-----------------------------------------------------------------------------
(* Every variable has the shape the Rust type gives it.                    *)
IsolateStackTypeOK ==
  /\ live \subseteq Isolates
  /\ DOMAIN isoStack \subseteq 1 .. MaxEnter
  /\ isoStack \in [DOMAIN isoStack -> Isolates]
  /\ current \in Isolates \cup {NoIso}
  /\ last \in Isolates \cup {NoIso}
  /\ currentCtx \in Ctx \cup {NoCtx}
  /\ handedOut \in [Isolates -> 0 .. MaxCtx]
  /\ contexts \in [Isolates -> Seq(Ctx)]
  /\ frames \in Seq(Frame)

(* No thread-local keeps the address of a disposed isolate, in whatever    *)
(* order isolates are entered, used and disposed: current_iso() falls back *)
(* to LAST_ISO and dereferences what it finds (core.rs, remove_current_iso *)
(* and clear_last_iso).                                                    *)
NoDanglingIsolate ==
  /\ Range(isoStack) \subseteq live
  /\ {current, last} \subseteq live \cup {NoIso}

(* Under strict nesting the current isolate is the innermost entered one:  *)
(* HandleScope::CONSTRUCT calls set_current without entering, and its      *)
(* DESTRUCT does not undo that, so this holds only by the discipline.      *)
CurrentIsInnermost == current = TopIso(isoStack)

(* Each isolate's stack of entered contexts is exactly what its open       *)
(* ContextScopes and interceptor callbacks pushed, in that order, although *)
(* Enter and Exit act on current_iso() and Exit ignores its argument.      *)
ContextsMatchFrames ==
  \A i \in Isolates :
    contexts[i] =
      LET pushes == SelectSeq(frames, LAMBDA f : /\ f.iso = i
                                                 /\ f.kind \in {"ctx", "callback"})
      IN [k \in 1 .. Len(pushes) |-> pushes[k].ctx]

(* CURRENT_CTX is a cache of "innermost entered context of CURRENT_ISO";   *)
(* six call sites maintain it by hand and it is never stale.               *)
CurrentCtxIsInnermost ==
  currentCtx = IF current = NoIso THEN NoCtx ELSE InnermostCtx(current, contexts)

(* Whatever is closed - a scope, a context, a callback - leaves the        *)
(* context current that was current when it was opened, with other         *)
(* isolates entered and left in between.                                   *)
CloseRestoresContext ==
  [][Len(frames') < Len(frames) => currentCtx' = Innermost.outer]_isoVars

(* While a native function callback runs, the current context is the one   *)
(* of the function: what site/callbacks.typ:17 says the trampoline         *)
(* restores.  dispatch does not.                                           *)
CallbackSeesItsContext ==
  (frames # <<>> /\ Innermost.kind = "dispatch") => currentCtx = Innermost.ctx
=============================================================================
