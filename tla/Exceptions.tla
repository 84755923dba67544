----------------------------- MODULE Exceptions -----------------------------
(***************************************************************************)
(* Exceptions of the isolates of one thread (QuickJS backend), where they  *)
(* meet the embedder: TryCatch, the calls that run JavaScript, native      *)
(* callbacks and message listeners (src/quickjs/exception.rs, function.rs, *)
(* core.rs).                                                               *)
(*                                                                         *)
(* The runtime of an isolate has one slot for a pending exception, a       *)
(* TryCatch one for the exception it took out of it, and                   *)
(* v8__Function__Call sets aside what was pending.  The frames of the      *)
(* thread, innermost last, say who runs: the embedder on top of a          *)
(* TryCatch, a callback, a listener or nothing, JavaScript on top of a     *)
(* "js" frame.  An exception is one throw; its name is used again when no  *)
(* slot holds it.  The embedder works with the isolate it names; that it   *)
(* is the current one is what IsolateStack is about.                       *)
(*                                                                         *)
(* A termination is one more throw of the engine here, which JavaScript    *)
(* happens not to catch; Termination has the flag.                         *)
(***************************************************************************)
EXTENDS Naturals, Sequences, FiniteSets, Functions

CONSTANTS
  Isolates,      \* isolates of the thread
  Exns,          \* exceptions
  None,          \* no exception
  MaxFrames,     \* frames open at once (bound)
  MaxListeners,  \* message listeners of all isolates (bound)
  Uses           \* what the embedder does besides, see Usages

(* With an exception pending that the embedder has not looked at: opening  *)
(* a TryCatch, running JavaScript otherwise than by v8__Function__Call, or *)
(* calling a function that clears errors of its own.  bare_script: a       *)
(* callback runs a script of its isolate with no TryCatch open, so that    *)
(* the exception is dropped and the callback has nothing but the empty     *)
(* handle.  report_script: a script that throws an object whose toString   *)
(* is a script, so that JavaScript runs to make the text for the           *)
(* listeners while the exception is pending.                               *)
Usages == {"open_pending", "run_pending", "clear_pending", "bare_script",
           "report_script"}

ASSUME ExceptionsAssumption ==
  /\ IsFiniteSet(Isolates)
  /\ IsFiniteSet(Exns)
  /\ None \notin Exns
  /\ MaxFrames \in Nat
  /\ MaxListeners \in Nat
  /\ Uses \subseteq Usages

VARIABLES
  pending,   \* the exception slot of each runtime
  frames,    \* what is open on the thread, innermost last
  listeners  \* how many listeners each IsoState::message_listeners has

exnVars == <<pending, frames, listeners>>

-----------------------------------------------------------------------------
Slot == Exns \cup {None}

(* caught and rethrow: the words of the TryCatch buffer.  `owes`: a call   *)
(* made in this frame failed, or it threw, and nobody was told yet.        *)
(* `stale`: the exceptions that are older than the frame.                  *)
TryFrame == [kind : {"try"}, iso : Isolates, caught : Slot, rethrow : BOOLEAN,
             owes : BOOLEAN, stale : SUBSET Exns]

NativeFrame == [kind : {"native"}, iso : Isolates, owes : BOOLEAN,
                stale : SUBSET Exns]

(* JavaScript that was entered by a call, by a script or a constructor, or *)
(* to make the text of an exception for the listeners, who wait below it;  *)
(* saved: what was pending before; throwing: it is unwinding.              *)
JsFrame == [kind : {"js"}, iso : Isolates,
            entry : {"call", "script", "construct", "report"},
            saved : Slot, throwing : BOOLEAN]

(* left: the listeners still to be called, this one included.              *)
ListenerFrame == [kind : {"listener"}, iso : Isolates, left : Nat \ {0}]

Frame == TryFrame \cup NativeFrame \cup JsFrame \cup ListenerFrame

Level == Len(frames)

Outer == SubSeq(frames, 1, Level - 1)

TopIs(kind) == frames # <<>> /\ frames[Level].kind = kind

TopIso == frames[Level].iso

EmbedderActs == ~ TopIs("js")

JavaScript == TopIs("js") /\ ~ frames[Level].throwing

(* Exceptions some slot holds.                                             *)
Held(f) ==
  CASE f.kind = "try" -> {f.caught} [] f.kind = "js" -> {f.saved} [] OTHER -> {}

InFlight ==
  ({ pending[i] : i \in Isolates } \cup UNION { Held(frames[k]) : k \in DOMAIN frames }) \ {None}

(* A throw: the new exception is older than no frame that is open.         *)
Thrown(fs, e) ==
  [k \in DOMAIN fs |->
     IF fs[k].kind \in {"try", "native"}
     THEN [fs[k] EXCEPT !.stale = @ \ {e}] ELSE fs[k]]

(* The embedder is told that something failed in i: an empty handle.       *)
Failed(fs, i) ==
  IF fs # <<>> /\ fs[Len(fs)].kind \in {"try", "native"} /\ fs[Len(fs)].iso = i
  THEN [fs EXCEPT ![Len(fs)].owes = TRUE] ELSE fs

Push(fs, f) ==
  /\ Len(fs) < MaxFrames
  /\ frames' = Append(fs, f)

(* TRY_CATCH_STACK, of the thread, is not empty.                           *)
HasActiveTryCatch == \E k \in DOMAIN frames : frames[k].kind = "try"

-----------------------------------------------------------------------------
(* v8__TryCatch__CONSTRUCT.                                                *)
TryCatchConstruct(i) ==
  /\ EmbedderActs
  /\ pending[i] = None \/ "open_pending" \in Uses
  /\ Push(frames, [kind |-> "try", iso |-> i, caught |-> None, rethrow |-> FALSE,
                   owes |-> FALSE, stale |-> InFlight])
  /\ UNCHANGED <<pending, listeners>>

(* tc_capture_pending: the first exception it sees, and no other after it. *)
Capture(tc) ==
  IF tc.caught = None THEN [tc EXCEPT !.caught = pending[tc.iso]] ELSE tc

LeftPending(tc) == IF tc.caught = None THEN None ELSE pending[tc.iso]

(* v8__TryCatch__HasCaught, Exception, Message.                            *)
HasCaught ==
  /\ TopIs("try")
  /\ LET tc == frames[Level]
     IN /\ frames' = [frames EXCEPT ![Level] = Capture(tc)]
        /\ pending' = [pending EXCEPT ![TopIso] = LeftPending(tc)]
  /\ UNCHANGED listeners

(* v8__TryCatch__Reset, which does nothing once it has rethrown.           *)
Reset ==
  /\ TopIs("try")
  /\ ~ frames[Level].rethrow
  /\ frames' = [frames EXCEPT ![Level].caught = None, ![Level].owes = FALSE]
  /\ pending' = [pending EXCEPT ![TopIso] = None]
  /\ UNCHANGED listeners

(* v8__TryCatch__ReThrow: a copy goes back to the runtime.                 *)
ReThrow ==
  /\ TopIs("try")
  /\ LET tc == Capture(frames[Level])
         left == LeftPending(frames[Level])
     IN /\ tc.caught # None
        /\ frames' = [frames EXCEPT ![Level] = [tc EXCEPT !.rethrow = TRUE]]
        /\ pending' = [pending EXCEPT ![TopIso] =
                         IF left = None THEN tc.caught ELSE left]
  /\ UNCHANGED listeners

DestructDropsCaught ==
  /\ TopIs("try")
  /\ LET rethrow == frames[Level].rethrow
         left == IF rethrow THEN LeftPending(frames[Level]) ELSE None
     IN /\ pending' = [pending EXCEPT ![TopIso] = left]
        /\ frames' = IF rethrow THEN Failed(Outer, TopIso) ELSE Outer
  /\ UNCHANGED listeners

(* v8__TryCatch__DESTRUCT: a rethrown exception is pending again if it is  *)
(* not still, and what is not rethrown is dropped.                         *)
TryCatchDestruct ==
  /\ TopIs("try")
  /\ LET tc == Capture(frames[Level])
         left == LeftPending(frames[Level])
     IN IF tc.rethrow
        THEN /\ pending' = [pending EXCEPT ![TopIso] =
                              IF left = None THEN tc.caught ELSE left]
             /\ frames' = Failed(Outer, TopIso)
        ELSE /\ pending' = [pending EXCEPT ![TopIso] = None]
             /\ frames' = Outer
  /\ UNCHANGED listeners

(* v8__Isolate__ThrowException.                                            *)
ThrowException(i, e) ==
  /\ EmbedderActs
  /\ e \notin InFlight
  /\ pending' = [pending EXCEPT ![i] = e]
  /\ frames' = Failed(Thrown(frames, e), i)
  /\ UNCHANGED listeners

(* An ABI function that clears the error of the engine call it makes (the  *)
(* length of a detached buffer): what was pending goes with it.  A scope   *)
(* that has rethrown still has its own copy.                               *)
ClearOwnError(i) ==
  /\ EmbedderActs
  /\ \/ pending[i] = None
     \/ TopIs("try") /\ TopIso = i /\ frames[Level].rethrow
     \/ "clear_pending" \in Uses
  /\ pending' = [pending EXCEPT ![i] = None]
  /\ UNCHANGED <<frames, listeners>>

(* v8__Isolate__AddMessageListener.                                        *)
AddMessageListener(i) ==
  /\ EmbedderActs
  /\ FoldFunction(+, 0, listeners) < MaxListeners
  /\ listeners' = [listeners EXCEPT ![i] = @ + 1]
  /\ UNCHANGED <<pending, frames>>

-----------------------------------------------------------------------------
CallKeepsPending(i) ==
  /\ EmbedderActs
  /\ Push(frames, [kind |-> "js", iso |-> i, entry |-> "call", saved |-> None,
                   throwing |-> FALSE])
  /\ UNCHANGED <<pending, listeners>>

(* v8__Function__Call sets aside what is pending.                          *)
FunctionCall(i) ==
  /\ EmbedderActs
  /\ Push(frames, [kind |-> "js", iso |-> i, entry |-> "call",
                   saved |-> pending[i], throwing |-> FALSE])
  /\ pending' = [pending EXCEPT ![i] = None]
  /\ UNCHANGED listeners

(* v8__Script__Run and v8__Function__NewInstance do not.                   *)
Enter(i, entry) ==
  /\ EmbedderActs
  /\ pending[i] = None \/ "run_pending" \in Uses
  /\ entry = "script" /\ TopIs("native") /\ TopIso = i =>
       HasActiveTryCatch \/ "bare_script" \in Uses
  /\ Push(frames, [kind |-> "js", iso |-> i, entry |-> entry, saved |-> None,
                   throwing |-> FALSE])
  /\ UNCHANGED <<pending, listeners>>

(* JavaScript, or the engine on its behalf, throws.                        *)
JsThrows(e) ==
  /\ JavaScript
  /\ e \notin InFlight
  /\ pending' = [pending EXCEPT ![TopIso] = e]
  /\ frames' = [Thrown(frames, e) EXCEPT ![Level].throwing = TRUE]
  /\ UNCHANGED listeners

(* A catch clause of JavaScript takes the exception.                       *)
JsCatches ==
  /\ TopIs("js") /\ frames[Level].throwing
  /\ pending' = [pending EXCEPT ![TopIso] = None]
  /\ frames' = [frames EXCEPT ![Level].throwing = FALSE]
  /\ UNCHANGED listeners

(* JavaScript calls a native function, or hits an interceptor: dispatch.   *)
CallbackEnter ==
  /\ JavaScript
  /\ Push(frames, [kind |-> "native", iso |-> TopIso, owes |-> FALSE,
                   stale |-> InFlight])
  /\ UNCHANGED <<pending, listeners>>

(* The end of dispatch: whatever is pending is the result.                 *)
CallbackReturn ==
  /\ TopIs("native")
  /\ frames' = [Outer EXCEPT ![Level - 1].throwing = (pending[TopIso] # None)]
  /\ UNCHANGED <<pending, listeners>>

(* JavaScript ends well: what a call had set aside is pending again.  (The *)
(* jobs a script runs at its end drop their exceptions.)                   *)
JsReturns ==
  /\ JavaScript
  /\ pending' = IF frames[Level].saved = None THEN pending
                ELSE [pending EXCEPT ![TopIso] = frames[Level].saved]
  /\ frames' = Outer
  /\ UNCHANGED listeners

(* JavaScript ends with an exception that a caller may see: a call drops   *)
(* what it had set aside, and the exception stays pending.  When a text    *)
(* was to be made the exception is dropped, and the text is empty.         *)
JsFails ==
  /\ TopIs("js") /\ frames[Level].throwing
  /\ frames[Level].entry = "script" => HasActiveTryCatch
  /\ frames' = Failed(Outer, TopIso)
  /\ pending' = IF frames[Level].entry = "report"
                THEN [pending EXCEPT ![TopIso] = None] ELSE pending
  /\ UNCHANGED listeners

ListenersOf(i) == [kind |-> "listener", iso |-> i, left |-> listeners[i]]

TextOf(i) == [kind |-> "js", iso |-> i, entry |-> "report", saved |-> None,
              throwing |-> FALSE]

(* notify_message_listeners: the text of the exception, which is pending   *)
(* again, is made first, by JavaScript if its toString is JavaScript; an   *)
(* exception without a text is dropped.  Then the listeners run.           *)
ReportUncaught ==
  \/ /\ Push(Outer, ListenersOf(TopIso))
     /\ pending' \in {pending, [pending EXCEPT ![TopIso] = None]}
  \/ /\ "report_script" \in Uses
     /\ Push(Append(Outer, ListenersOf(TopIso)), TextOf(TopIso))
     /\ UNCHANGED pending

(* A script fails with no TryCatch open.  With no listeners its exception  *)
(* is dropped and who ran it has an empty handle.                          *)
ScriptFailsUncaught ==
  /\ TopIs("js") /\ frames[Level].throwing
  /\ frames[Level].entry = "script"
  /\ ~ HasActiveTryCatch
  /\ IF listeners[TopIso] = 0
     THEN /\ frames' = Failed(Outer, TopIso)
          /\ pending' = [pending EXCEPT ![TopIso] = None]
     ELSE ReportUncaught
  /\ UNCHANGED listeners

(* A listener returns; after the last one the exception is dropped, and    *)
(* who ran the script has its empty handle.                                *)
ListenerReturns ==
  /\ TopIs("listener")
  /\ IF frames[Level].left > 1
     THEN /\ frames' = [frames EXCEPT ![Level].left = @ - 1]
          /\ UNCHANGED pending
     ELSE /\ frames' = Failed(Outer, TopIso)
          /\ pending' = [pending EXCEPT ![TopIso] = None]
  /\ UNCHANGED listeners

-----------------------------------------------------------------------------
ExnInit ==
  /\ pending = [i \in Isolates |-> None]
  /\ frames = <<>>
  /\ listeners = [i \in Isolates |-> 0]

ExnNext ==
  \/ \E i \in Isolates :
       \/ TryCatchConstruct(i)
       \/ \E e \in Exns : ThrowException(i, e)
       \/ ClearOwnError(i)
       \/ AddMessageListener(i)
       \/ FunctionCall(i)
       \/ \E entry \in {"script", "construct"} : Enter(i, entry)
  \/ HasCaught
  \/ Reset
  \/ ReThrow
  \/ TryCatchDestruct
  \/ \E e \in Exns : JsThrows(e)
  \/ JsCatches
  \/ CallbackEnter
  \/ CallbackReturn
  \/ JsReturns
  \/ JsFails
  \/ ScriptFailsUncaught
  \/ ListenerReturns

ExnSpec == ExnInit /\ [][ExnNext]_exnVars

-----------------------------------------------------------------------------
ExnTypeOK ==
  /\ pending \in [Isolates -> Slot]
  /\ frames \in Seq(Frame)
  /\ listeners \in [Isolates -> 0 .. MaxListeners]

(* Nobody is handed an exception that is older than what he does: a        *)
(* TryCatch catches only what was thrown after it was opened, a callback   *)
(* throws into JavaScript only what was thrown while it ran, and           *)
(* JavaScript that is not unwinding runs with nothing pending.  Of a use   *)
(* without "open_pending", "run_pending" and "report_script".              *)
OwnExceptionsOnly ==
  /\ \A k \in DOMAIN frames :
       frames[k].kind = "try" => frames[k].caught \notin frames[k].stale
  /\ TopIs("try") \/ TopIs("native") =>
       pending[TopIso] \notin frames[Level].stale
  /\ JavaScript => pending[TopIso] = None

(* The exception of an isolate that the frame k sees: the one its TryCatch *)
(* has, what a call of that isolate above it has set aside, or what is     *)
(* pending when no such call is under way.                                 *)
Visible(k) ==
  LET above == { j \in DOMAIN frames : j > k /\ frames[j].iso = frames[k].iso }
  IN \/ frames[k].kind = "try" /\ frames[k].caught # None
     \/ above = {} /\ pending[frames[k].iso] # None
     \/ \E j \in above : /\ \A h \in above : j <= h
                         /\ frames[j].kind = "js" /\ frames[j].saved # None

(* A failure that the embedder was told of by an empty handle, that it     *)
(* threw itself or that an inner scope has rethrown, can still be caught,  *)
(* whatever runs in between: HasCaught will say so, and a callback will    *)
(* throw it into the JavaScript that called it.  Of a use without          *)
(* "clear_pending" and "bare_script".                                      *)
FailureVisible ==
  \A k \in DOMAIN frames :
    frames[k].kind \in {"try", "native"} /\ frames[k].owes => Visible(k)
=============================================================================
