------------------------------ MODULE HeapProofs ------------------------------
(***************************************************************************)
(* Proofs about the two ways the heap is brought down: HeapLimit's         *)
(* callback near the limit and WeakHandles' requested collection.          *)
(*                                                                         *)
(* HeapLimit, for all limits, headrooms and depths: the cap that is lifted *)
(* for a callback comes back, a registered callback is asked before an     *)
(* allocation near the limit fails, and it is not entered again while it   *)
(* runs unless it registers one itself.                                    *)
(*                                                                         *)
(* WeakHandles, for all values and cells, where embedder code keeps to     *)
(* Uses = {}: records and cells stay one for one, survivors read their     *)
(* targets again and their counts balance; and, whatever embedder code     *)
(* does, only dead objects are reported.  The invariant says in which of   *)
(* the three lists a record is and what its cell holds meanwhile.          *)
(***************************************************************************)
EXTENDS HeapLimit, WeakHandles, FiniteSetTheorems, TLAPS

-----------------------------------------------------------------------------
(* Stacks.                                                                 *)
Handlers == [kind : {"handler"}, size : Nat, asked : BOOLEAN]
Callbacks == [kind : {"callback"}, told : Nat]
Frames == Handlers \cup Callbacks

(* CallbackRuns, of any stack.                                             *)
CallbackIn(s) == \E k \in DOMAIN s : s[k].kind = "callback"

(* OneCallbackAtATime, of any stack.                                       *)
OneCallbackIn(s) ==
  \A i, j \in DOMAIN s :
    s[i].kind = "callback" /\ s[j].kind = "callback" => i = j

(* Every handler on s has called the callback.                             *)
AllAsked(s) == \A k \in DOMAIN s : s[k].kind = "handler" => s[k].asked

(* So has every handler that something runs on top of.                     *)
AskedBelow(s) == \A k \in 1 .. Len(s) - 1 : s[k].kind = "handler" => s[k].asked

LEMMA FrameFacts ==
  /\ \A f \in Frames : f.kind \in {"handler", "callback"}
  /\ \A f \in Frames : f.kind = "handler" =>
       f.size \in Nat /\ f.asked \in BOOLEAN
  /\ \A f \in Frames : f.kind = "callback" => f.told \in Nat
  /\ \A n \in Nat, b \in BOOLEAN :
       /\ Handler(n, b) \in Frames
       /\ Handler(n, b).kind = "handler"
       /\ Handler(n, b).size = n
       /\ Handler(n, b).asked = b
  /\ \A n \in Nat : Callback(n) \in Frames /\ Callback(n).kind = "callback"
  BY DEF Frames, Handlers, Callbacks, Handler, Callback

LEMMA Pushed ==
  ASSUME NEW s \in Seq(Frames), NEW f \in Frames
  PROVE  /\ s \o <<f>> \in Seq(Frames)
         /\ s \o <<f>> # <<>>
         /\ Last(s \o <<f>>) = f
         /\ CallbackIn(s \o <<f>>) <=> CallbackIn(s) \/ f.kind = "callback"
         /\ OneCallbackIn(s) /\ ~(CallbackIn(s) /\ f.kind = "callback")
              => OneCallbackIn(s \o <<f>>)
         /\ AllAsked(s) => AskedBelow(s \o <<f>>)
         /\ AllAsked(s) /\ (f.kind = "handler" => f.asked)
              => AllAsked(s \o <<f>>)
<1> DEFINE t == s \o <<f>>
<1>1. /\ t \in Seq(Frames)
      /\ Len(s) \in Nat /\ Len(t) = Len(s) + 1
      /\ DOMAIN s = 1 .. Len(s) /\ DOMAIN t = 1 .. Len(s) + 1
      /\ t[Len(s) + 1] = f
      /\ \A k \in 1 .. Len(s) : t[k] = s[k]
      /\ t # <<>>
  OBVIOUS
<1> HIDE DEF t
<1>2. Last(t) = f
  BY <1>1 DEF Last
<1>3. CallbackIn(t) <=> CallbackIn(s) \/ f.kind = "callback"
  BY <1>1 DEF CallbackIn
<1>4. OneCallbackIn(s) /\ ~(CallbackIn(s) /\ f.kind = "callback")
        => OneCallbackIn(t)
  BY <1>1 DEF OneCallbackIn, CallbackIn
<1>5. AllAsked(s) => AskedBelow(t)
  BY <1>1 DEF AllAsked, AskedBelow
<1>6. AllAsked(s) /\ (f.kind = "handler" => f.asked) => AllAsked(t)
  BY <1>1 DEF AllAsked
<1> QED BY <1>1, <1>2, <1>3, <1>4, <1>5, <1>6 DEF t

LEMMA Popped ==
  ASSUME NEW s \in Seq(Frames), s # <<>>
  PROVE  /\ Front(s) \in Seq(Frames)
         /\ Last(s) \in Frames
         /\ CallbackIn(s) <=> CallbackIn(Front(s)) \/ Last(s).kind = "callback"
         /\ OneCallbackIn(s) => /\ OneCallbackIn(Front(s))
                                /\ Last(s).kind = "callback"
                                     => ~CallbackIn(Front(s))
         /\ AskedBelow(s) => AllAsked(Front(s))
<1> DEFINE t == Front(s)
<1>1. /\ Len(s) \in Nat \ {0}
      /\ DOMAIN s = 1 .. Len(s)
      /\ \A k \in 1 .. Len(s) : s[k] \in Frames
  OBVIOUS
<1>2. /\ Len(SubSeq(s, 1, Len(s) - 1)) = Len(s) - 1
      /\ SubSeq(s, 1, Len(s) - 1) \in Seq(Frames)
      /\ \A k \in 1 .. Len(s) - 1 : SubSeq(s, 1, Len(s) - 1)[k] = s[k]
  BY <1>1
<1>3. /\ t \in Seq(Frames)
      /\ DOMAIN t = 1 .. Len(s) - 1
      /\ \A k \in 1 .. Len(s) - 1 : t[k] = s[k]
  BY <1>1, <1>2 DEF Front
<1>4. Last(s) = s[Len(s)] /\ Last(s) \in Frames
  BY <1>1 DEF Last
<1> HIDE DEF t
<1>5. CallbackIn(s) <=> CallbackIn(t) \/ Last(s).kind = "callback"
  BY <1>1, <1>3, <1>4 DEF CallbackIn
<1>6. OneCallbackIn(s) => /\ OneCallbackIn(t)
                          /\ Last(s).kind = "callback" => ~CallbackIn(t)
  BY <1>1, <1>3, <1>4 DEF OneCallbackIn, CallbackIn
<1>7. AskedBelow(s) => AllAsked(t)
  BY <1>1, <1>3 DEF AskedBelow, AllAsked
<1> QED BY <1>3, <1>4, <1>5, <1>6, <1>7 DEF t

(* Where code runs, every handler below it has called the callback.        *)
LEMMA CodeBelow ==
  ASSUME NEW s \in Seq(Frames), AskedBelow(s),
         s # <<>> => Last(s).kind = "callback"
  PROVE  AllAsked(s)
<1>1. CASE s = <<>>
  BY <1>1 DEF AllAsked
<1>2. CASE s # <<>>
  <2>1. Len(s) \in Nat \ {0} /\ DOMAIN s = 1 .. Len(s)
    BY <1>2
  <2>2. s[Len(s)].kind # "handler"
    BY <1>2 DEF Last
  <2> QED BY <2>1, <2>2 DEF AllAsked, AskedBelow
<1> QED BY <1>1, <1>2

LEMMA AllAskedTop ==
  ASSUME NEW s \in Seq(Frames), AllAsked(s), s # <<>>, Last(s).kind = "handler"
  PROVE  Last(s).asked
<1>1. Last(s) = s[Len(s)] /\ Len(s) \in DOMAIN s
  BY DEF Last
<1> QED BY <1>1 DEF AllAsked

LEMMA AllAskedBelow ==
  ASSUME NEW s \in Seq(Frames), AllAsked(s)
  PROVE  AskedBelow(s)
  BY DEF AllAsked, AskedBelow

-----------------------------------------------------------------------------
(* A handler on top that has not asked found that the callback is not to   *)
(* be called, and nothing has changed that since.                          *)
TopAsked == IsTop("handler") /\ ~Last(stack).asked => ~Drives

(* Nothing is refused before there is a limit, the flag is only set while  *)
(* a callback runs, and every handler but one has asked.                   *)
CapInv ==
  /\ TypeOK
  /\ limit = 0 => cap = 0 /\ stack = <<>>
  /\ inCallback => CallbackRuns
  /\ CapFollowsLimit
  /\ AskedBelow(stack)
  /\ TopAsked

LEMMA Runs == CallbackRuns <=> CallbackIn(stack)
  BY DEF CallbackRuns, CallbackIn

LEMMA TypeStack == TypeOK => stack \in Seq(Frames)
  BY DEF TypeOK, Frames, Handlers, Callbacks

LEMMA CapInit == Init => CapInv
<1> SUFFICES ASSUME Init PROVE CapInv
  OBVIOUS
<1> USE HeapLimitAssumption DEF Init
<1>1. stack \in Seq(Frames)
  OBVIOUS
<1>2. TypeOK
  BY <1>1 DEF TypeOK, Frames, Handlers, Callbacks
<1>3. CapFollowsLimit
  BY DEF CapFollowsLimit
<1>4. AskedBelow(stack) /\ TopAsked
  BY DEF AskedBelow, TopAsked, IsTop
<1> QED BY <1>2, <1>3, <1>4 DEF CapInv

(* A step that leaves the stack alone, and leaves the flag alone or resets *)
(* it, taken by code, is known by its types and its cap.                   *)
LEMMA PlainStep ==
  ASSUME CapInv, CodeRuns, UNCHANGED stack,
         registered' \in BOOLEAN, limit' \in Nat, cap' \in Nat, heap' \in Nat,
         terminating' \in BOOLEAN,
         inCallback' = inCallback \/ inCallback' = FALSE,
         limit' = 0 => limit = 0 /\ cap' = 0,
         CapFollowsLimit'
  PROVE  CapInv'
<1>1. TypeOK' /\ AskedBelow(stack)'
  BY DEF CapInv, TypeOK, AskedBelow
<1>2. (inCallback => CallbackRuns)'
  BY DEF CapInv, CallbackRuns
<1>3. TopAsked'
  BY DEF TopAsked, CodeRuns, IsTop
<1>4. (limit = 0 => cap = 0 /\ stack = <<>>)'
  BY DEF CapInv
<1> QED BY <1>1, <1>2, <1>3, <1>4 DEF CapInv

(* A call of the callback, or none, on top of handlers that have asked.    *)
LEMMA DriveStep ==
  ASSUME CapInv, NEW below \in Seq(Frames), Drive(below),
         UNCHANGED <<registered, limit, heap, terminating>>,
         limit # 0,
         CallbackIn(stack) => CallbackIn(below),
         CallbackIn(below) => CallbackIn(stack),
         AskedBelow(below), Drives => AllAsked(below),
         below # <<>> /\ Last(below).kind = "handler" /\ ~Last(below).asked
           => ~Drives
  PROVE  CapInv'
<1> USE FrameFacts
<1>0. limit \in Nat /\ TypeOK
  BY DEF CapInv, TypeOK
<1>1. CASE Drives
  <2>1. stack' = below \o <<Callback(limit)>> /\ inCallback' = TRUE /\ cap' = 0
    BY <1>1 DEF Drive
  <2>2. Callback(limit) \in Frames /\ Callback(limit).kind = "callback"
    BY <1>0
  <2>3. /\ stack' \in Seq(Frames)
        /\ stack' # <<>>
        /\ Last(stack') = Callback(limit)
        /\ CallbackIn(stack')
        /\ AskedBelow(stack')
    BY <1>1, <2>1, <2>2, Pushed
  <2>4. TypeOK'
    BY <1>0, <2>1, <2>3 DEF TypeOK, Frames, Handlers, Callbacks
  <2>5. CallbackRuns'
    BY <2>3 DEF CallbackRuns, CallbackIn
  <2>6. TopAsked'
    BY <2>2, <2>3 DEF TopAsked, IsTop
  <2> QED BY <2>1, <2>3, <2>4, <2>5, <2>6 DEF CapInv, CapFollowsLimit
<1>2. CASE ~Drives
  <2>1. stack' = below /\ inCallback' = inCallback /\ cap' = cap
    BY <1>2 DEF Drive
  <2>2. TypeOK'
    BY <1>0, <2>1 DEF TypeOK, Frames, Handlers, Callbacks
  <2>3. CallbackRuns' <=> CallbackRuns
    BY <2>1 DEF CallbackRuns, CallbackIn
  <2>4. TopAsked'
    BY <1>2, <2>1 DEF TopAsked, Drives
  <2>5. CapFollowsLimit'
    BY <2>1, <2>3 DEF CapInv, CapFollowsLimit
  <2> QED BY <2>1, <2>2, <2>3, <2>4, <2>5 DEF CapInv
<1> QED BY <1>1, <1>2

LEMMA CodeHasAsked == CapInv /\ CodeRuns => AllAsked(stack)
  BY CodeBelow, TypeStack DEF CapInv, CodeRuns, IsTop

LEMMA HandlerStep ==
  ASSUME CapInv, NEW size \in Nat, MemoryLimitHandler(size)
  PROVE  CapInv'
<1> DEFINE h == Handler(size, Drives)
           below == stack \o <<h>>
<1>1. Drives \in BOOLEAN
  BY DEF Drives, CapInv, TypeOK
<1>2. h \in Frames /\ h.kind = "handler" /\ h.asked = Drives
  BY <1>1, FrameFacts
<1>3. stack \in Seq(Frames) /\ AllAsked(stack)
  BY TypeStack, CodeHasAsked DEF CapInv, MemoryLimitHandler
<1>4. /\ below \in Seq(Frames)
      /\ Last(below) = h
      /\ CallbackIn(below) <=> CallbackIn(stack)
      /\ AskedBelow(below)
      /\ Drives => AllAsked(below)
  <2> HIDE DEF h
  <2> QED BY <1>2, <1>3, Pushed
<1>5. limit # 0
  BY DEF CapInv, MemoryLimitHandler, Fits
<1>6. Drive(below) /\ UNCHANGED <<registered, limit, heap, terminating>>
  BY DEF MemoryLimitHandler
<1> HIDE DEF h, below
<1> QED BY <1>2, <1>4, <1>5, <1>6, DriveStep

LEMMA ScriptStep ==
  ASSUME CapInv, ScriptReturns
  PROVE  CapInv'
<1>1. stack \in Seq(Frames) /\ AllAsked(stack) /\ AskedBelow(stack)
  BY TypeStack, CodeHasAsked DEF CapInv, ScriptReturns
<1>2. limit # 0 /\ Drives /\ Drive(stack)
  BY DEF ScriptReturns, Drives
<1>3. stack # <<>> /\ Last(stack).kind = "handler" => FALSE
  BY DEF ScriptReturns, CodeRuns, IsTop
<1>4. UNCHANGED <<registered, limit, heap, terminating>>
  BY DEF ScriptReturns
<1> QED BY <1>1, <1>2, <1>3, <1>4, DriveStep

(* A callback is over: the cap is that of the limit.                       *)
LEMMA ResumeStep ==
  ASSUME CapInv, IsTop("callback"), NEW returned \in Nat, Resume(returned)
  PROVE  CapInv'
<1>1. TypeOK /\ stack \in Seq(Frames) /\ stack # <<>> /\ AskedBelow(stack)
  BY TypeStack DEF CapInv, IsTop
<1>2. /\ stack' = Front(stack)
      /\ stack' \in Seq(Frames)
      /\ AllAsked(stack')
      /\ Last(stack) \in Frames /\ Last(stack).kind = "callback"
  BY <1>1, Popped DEF Resume, IsTop
<1>3. Last(stack).told \in Nat
  BY <1>2, FrameFacts
<1>4. limit \in Nat \ {0}
  BY <1>1 DEF CapInv, TypeOK
<1>5. limit' \in Nat \ {0}
  BY <1>3, <1>4 DEF Resume
<1>6. /\ cap' = IF registered' THEN limit' + Headroom ELSE limit'
      /\ cap' \in Nat
      /\ inCallback' = FALSE
      /\ UNCHANGED <<registered, heap, terminating>>
  BY <1>5, HeapLimitAssumption DEF Resume
<1>7. TypeOK'
  BY <1>1, <1>2, <1>5, <1>6 DEF TypeOK, Frames, Handlers, Callbacks
<1>8. AskedBelow(stack') /\ TopAsked'
  BY <1>2, AllAskedBelow, AllAskedTop DEF TopAsked, IsTop
<1>9. CapFollowsLimit'
  BY <1>5, <1>6 DEF CapFollowsLimit
<1> QED BY <1>5, <1>6, <1>7, <1>8, <1>9 DEF CapInv

LEMMA HandlerReturnStep ==
  ASSUME CapInv, HandlerReturns
  PROVE  CapInv'
<1>1. TypeOK /\ stack \in Seq(Frames) /\ stack # <<>> /\ AskedBelow(stack)
  BY TypeStack DEF CapInv, HandlerReturns, IsTop
<1>2. /\ stack' = Front(stack)
      /\ stack' \in Seq(Frames)
      /\ AllAsked(stack')
      /\ Last(stack) \in Frames /\ Last(stack).kind = "handler"
      /\ CallbackIn(stack') <=> CallbackIn(stack)
  BY <1>1, Popped DEF HandlerReturns, IsTop
<1>3. Last(stack).size \in Nat
  BY <1>2, FrameFacts
<1>4. limit \in Nat \ {0} /\ UNCHANGED <<registered, limit, inCallback>>
  BY <1>1 DEF CapInv, TypeOK, HandlerReturns
<1>5. /\ cap' = IF registered THEN cap ELSE limit + TerminationHeadroom
      /\ cap' \in Nat
  BY <1>1, <1>4, HeapLimitAssumption DEF TypeOK, HandlerReturns
<1>6. heap' \in Nat
  BY <1>1, <1>3 DEF TypeOK, HandlerReturns
<1>7. terminating' \in BOOLEAN
  BY <1>1 DEF TypeOK, HandlerReturns
<1>8. TypeOK'
  BY <1>1, <1>2, <1>4, <1>5, <1>6, <1>7 DEF TypeOK, Frames, Handlers, Callbacks
<1>9. AskedBelow(stack') /\ TopAsked'
  BY <1>2, AllAskedBelow, AllAskedTop DEF TopAsked, IsTop
<1>10. CallbackRuns' <=> CallbackRuns
  BY <1>2 DEF CallbackRuns, CallbackIn
<1>11. CapFollowsLimit'
  BY <1>4, <1>5, <1>10 DEF CapFollowsLimit, CapInv
<1> QED BY <1>4, <1>8, <1>9, <1>10, <1>11 DEF CapInv

LEMMA CapStep ==
  ASSUME CapInv, [Next]_heapLimitVars
  PROVE  CapInv'
<1>0. TypeOK /\ Sizes \subseteq Nat
  BY HeapLimitAssumption DEF CapInv, Sizes
<1>1. CASE AddNearHeapLimitCallback
  <2>1. limit' \in Nat \ {0} /\ cap' = limit' + Headroom /\ cap' \in Nat
    BY <1>0, <1>1, HeapLimitAssumption DEF AddNearHeapLimitCallback, TypeOK
  <2>2. registered' = TRUE /\ CodeRuns
        /\ UNCHANGED <<inCallback, heap, terminating, stack>>
    BY <1>1 DEF AddNearHeapLimitCallback
  <2>3. CapFollowsLimit'
    BY <2>1, <2>2 DEF CapFollowsLimit
  <2> QED BY <1>0, <2>1, <2>2, <2>3, PlainStep DEF TypeOK
<1>2. CASE \E l \in {0} \cup Sizes : RemoveNearHeapLimitCallback(l)
  <2> PICK l \in {0} \cup Sizes : RemoveNearHeapLimitCallback(l)
    BY <1>2
  <2>1. /\ limit' \in Nat /\ cap' = limit' /\ registered' = FALSE
        /\ limit' = 0 => limit = 0
        /\ inCallback' = FALSE /\ CodeRuns
        /\ UNCHANGED <<heap, terminating, stack>>
    BY <1>0 DEF RemoveNearHeapLimitCallback, TypeOK
  <2>2. CapFollowsLimit'
    BY <2>1 DEF CapFollowsLimit
  <2> QED BY <1>0, <2>1, <2>2, PlainStep DEF TypeOK
<1>3. CASE CancelTerminateExecution
  <2>1. CapFollowsLimit'
    BY <1>3 DEF CancelTerminateExecution, CapInv, CapFollowsLimit, CallbackRuns
  <2> QED BY <1>0, <1>3, <2>1, PlainStep DEF CancelTerminateExecution, TypeOK, CapInv
<1>4. CASE ScriptReturns
  BY <1>4, ScriptStep
<1>5. CASE HandlerReturns
  BY <1>5, HandlerReturnStep
<1>6. CASE CallbackPanics
  <2>1. IsTop("callback") /\ Resume(Last(stack).told)
    BY <1>6 DEF CallbackPanics
  <2>2. Last(stack) \in Frames
    BY <1>0, <2>1, TypeStack, Popped DEF IsTop
  <2>3. Last(stack).told \in Nat
    BY <2>1, <2>2, FrameFacts DEF IsTop
  <2> QED BY <2>1, <2>3, ResumeStep
<1>7. CASE \E s \in Sizes : Allocate(s) \/ Free(s)
  <2> PICK s \in Sizes : Allocate(s) \/ Free(s)
    BY <1>7
  <2>1. s \in Nat /\ heap \in Nat
    BY <1>0 DEF TypeOK
  <2>2. /\ heap' \in Nat /\ CodeRuns
        /\ UNCHANGED <<registered, limit, inCallback, cap, terminating, stack>>
    BY <2>1 DEF Allocate, Free
  <2>3. CapFollowsLimit'
    BY <2>2 DEF CapInv, CapFollowsLimit, CallbackRuns
  <2> QED BY <1>0, <2>2, <2>3, PlainStep DEF TypeOK, CapInv
<1>8. CASE \E s \in Sizes : MemoryLimitHandler(s)
  BY <1>0, <1>8, HandlerStep
<1>9. CASE \E s \in Sizes : CallbackReturns(s)
  BY <1>0, <1>9, ResumeStep DEF CallbackReturns
<1>10. CASE UNCHANGED heapLimitVars
  <2>1. UNCHANGED <<registered, limit, inCallback, cap, heap, terminating, stack>>
    BY <1>10 DEF heapLimitVars
  <2> QED BY <2>1 DEF CapInv, TypeOK, CallbackRuns, CapFollowsLimit,
                      AskedBelow, TopAsked, IsTop, Drives
<1> QED BY <1>1, <1>2, <1>3, <1>4, <1>5, <1>6, <1>7, <1>8, <1>9, <1>10 DEF Next

LEMMA CapInvariant == Spec => []CapInv
<1> QED BY CapInit, CapStep, PTL DEF Spec

(* The variables keep their shape.                                         *)
THEOREM TypeCorrect == Spec => []TypeOK
<1>1. CapInv => TypeOK
  BY DEF CapInv
<1> QED BY <1>1, CapInvariant, PTL

(* The cap that maybe_drive_near_heap_limit_callback lifts is back when no *)
(* callback runs, and belongs to the limit of now.                         *)
THEOREM CapComesBack == Spec => []CapFollowsLimit
<1>1. CapInv => CapFollowsLimit
  BY DEF CapInv
<1> QED BY <1>1, CapInvariant, PTL

(* memory_limit_handler has called a registered callback before an         *)
(* allocation near the limit fails outside of one.                         *)
THEOREM AlwaysAsked == Spec => AskedBeforeFailing
<1> DEFINE Asks == (/\ IsTop("handler") /\ stack' = Front(stack)
                    /\ heap' = heap
                    /\ registered /\ heap + Headroom >= limit /\ ~CallbackRuns)
                   => Last(stack).asked
<1>1. CapInv => Asks
  <2> SUFFICES ASSUME CapInv, IsTop("handler"), registered,
                      heap + Headroom >= limit, ~CallbackRuns
               PROVE  Last(stack).asked
    OBVIOUS
  <2>1. ~inCallback /\ limit # 0
    BY DEF CapInv, IsTop
  <2>2. Drives
    BY <2>1 DEF Drives
  <2> QED BY <2>2 DEF CapInv, TopAsked
<1>2. CapInv => [Asks]_heapLimitVars
  BY <1>1
<1> QED BY <1>2, CapInvariant, PTL DEF AskedBeforeFailing

-----------------------------------------------------------------------------
(* While a callback runs the flag keeps a registered one out.              *)
OneInv ==
  /\ CapInv
  /\ OneCallbackAtATime
  /\ CallbackRuns /\ registered => inCallback

LEMMA OneIn == OneCallbackAtATime <=> OneCallbackIn(stack)
  BY DEF OneCallbackAtATime, OneCallbackIn

LEMMA OneInit == Init => OneInv
<1>1. Init => OneCallbackAtATime /\ ~CallbackRuns
  BY DEF Init, OneCallbackAtATime, CallbackRuns
<1> QED BY <1>1, CapInit DEF OneInv

(* Calling the callback, or not, on top of what runs.                      *)
LEMMA OneDrive ==
  ASSUME OneInv, NEW below \in Seq(Frames), Drive(below), UNCHANGED registered,
         OneCallbackIn(below), CallbackIn(below) <=> CallbackIn(stack)
  PROVE  /\ OneCallbackAtATime'
         /\ (CallbackRuns /\ registered => inCallback)'
<1>1. CASE Drives
  <2>1. ~CallbackIn(below)
    BY <1>1, Runs DEF Drives, OneInv
  <2>2. limit \in Nat
    BY DEF OneInv, CapInv, TypeOK
  <2>3. stack' = below \o <<Callback(limit)>> /\ inCallback'
    BY <1>1 DEF Drive
  <2>4. OneCallbackIn(stack')
    BY <2>1, <2>2, <2>3, Pushed, FrameFacts
  <2> QED BY <2>3, <2>4 DEF OneCallbackAtATime, OneCallbackIn
<1>2. CASE ~Drives
  <2>1. stack' = below /\ inCallback' = inCallback
    BY <1>2 DEF Drive
  <2>2. CallbackRuns' <=> CallbackRuns
    BY <2>1 DEF CallbackRuns, CallbackIn
  <2> QED BY <2>1, <2>2 DEF OneInv, OneCallbackAtATime, OneCallbackIn
<1> QED BY <1>1, <1>2

LEMMA OneStep ==
  ASSUME ~AddsInside, OneInv, [Next]_heapLimitVars
  PROVE  OneInv'
<1>0. /\ CapInv' /\ CapInv /\ TypeOK
      /\ stack \in Seq(Frames) /\ OneCallbackIn(stack)
      /\ Sizes \subseteq Nat
  BY CapStep, TypeStack, OneIn, HeapLimitAssumption DEF OneInv, CapInv, Sizes
<1> SUFFICES /\ OneCallbackAtATime'
             /\ (CallbackRuns /\ registered => inCallback)'
  BY <1>0 DEF OneInv
<1>1. CASE AddNearHeapLimitCallback
  BY <1>1 DEF AddNearHeapLimitCallback, OneInv, OneCallbackAtATime, CallbackRuns
<1>2. CASE \E l \in {0} \cup Sizes : RemoveNearHeapLimitCallback(l)
  BY <1>2 DEF RemoveNearHeapLimitCallback, OneInv, OneCallbackAtATime
<1>3. CASE \/ CancelTerminateExecution
           \/ \E s \in Sizes : Allocate(s) \/ Free(s)
           \/ UNCHANGED heapLimitVars
  <2>1. UNCHANGED <<registered, inCallback, stack>>
    BY <1>3 DEF CancelTerminateExecution, Allocate, Free, heapLimitVars
  <2> QED BY <2>1 DEF OneInv, OneCallbackAtATime, CallbackRuns
<1>4. CASE ScriptReturns
  <2>1. Drive(stack) /\ UNCHANGED registered
    BY <1>4 DEF ScriptReturns
  <2> QED BY <1>0, <2>1, OneDrive
<1>5. CASE HandlerReturns
  <2>1. /\ stack # <<>> /\ Last(stack).kind = "handler"
        /\ stack' = Front(stack) /\ UNCHANGED <<registered, inCallback>>
    BY <1>5 DEF HandlerReturns, IsTop
  <2>2. OneCallbackIn(stack') /\ (CallbackIn(stack') <=> CallbackIn(stack))
    BY <1>0, <2>1, Popped
  <2>3. CallbackRuns' <=> CallbackRuns
    BY <2>2 DEF CallbackRuns, CallbackIn
  <2> QED BY <2>1, <2>2, <2>3 DEF OneInv, OneCallbackAtATime, OneCallbackIn
<1>6. CASE CallbackPanics \/ \E s \in Sizes : CallbackReturns(s)
  <2>1. /\ stack # <<>> /\ Last(stack).kind = "callback"
        /\ stack' = Front(stack)
    BY <1>6 DEF CallbackPanics, CallbackReturns, IsTop, Resume
  <2>2. OneCallbackIn(stack') /\ ~CallbackIn(stack')
    BY <1>0, <2>1, Popped
  <2> QED BY <2>2 DEF OneCallbackAtATime, OneCallbackIn, CallbackRuns, CallbackIn
<1>7. CASE \E s \in Sizes : MemoryLimitHandler(s)
  <2> PICK s \in Sizes : MemoryLimitHandler(s)
    BY <1>7
  <2> DEFINE h == Handler(s, Drives)
             below == stack \o <<h>>
  <2>1. Drives \in BOOLEAN
    BY <1>0 DEF Drives, TypeOK
  <2>2. h \in Frames /\ h.kind = "handler"
    BY <1>0, <2>1, FrameFacts
  <2>3. Drive(below) /\ UNCHANGED registered
    BY DEF MemoryLimitHandler
  <2> HIDE DEF h
  <2>4. /\ below \in Seq(Frames)
        /\ CallbackIn(below) <=> CallbackIn(stack)
        /\ OneCallbackIn(below)
    BY <1>0, <2>2, Pushed
  <2> HIDE DEF below
  <2> QED BY <2>3, <2>4, OneDrive
<1> QED BY <1>1, <1>2, <1>3, <1>4, <1>5, <1>6, <1>7 DEF Next

(* Without registrations by callbacks, near_heap_limit_in_callback keeps   *)
(* every allocation of a callback from entering one again.                 *)
THEOREM NotReentered ==
  ASSUME ~AddsInside
  PROVE  Spec => []OneCallbackAtATime
<1>1. OneInv /\ [Next]_heapLimitVars => OneInv'
  BY OneStep
<1>2. OneInv => OneCallbackAtATime
  BY DEF OneInv
<1> QED BY <1>1, <1>2, OneInit, PTL DEF Spec

-----------------------------------------------------------------------------
(* Lists of records with different cells.                                  *)
CellsOf(s) == { s[i].cell : i \in DOMAIN s }

Distinct(s) == \A i, j \in DOMAIN s : s[i].cell = s[j].cell => i = j

LEMMA AddRecord ==
  ASSUME NEW s \in Seq(Record), NEW r \in Record
  PROVE  /\ Append(s, r) \in Seq(Record)
         /\ Len(Append(s, r)) = Len(s) + 1 /\ Len(s) \in Nat
         /\ CellsOf(Append(s, r)) = CellsOf(s) \cup {r.cell}
         /\ Range(Append(s, r)) = Range(s) \cup {r}
         /\ Distinct(s) /\ r.cell \notin CellsOf(s) => Distinct(Append(s, r))
<1> DEFINE t == Append(s, r)
<1>1. /\ t \in Seq(Record) /\ Len(t) = Len(s) + 1 /\ Len(s) \in Nat
      /\ DOMAIN s = 1 .. Len(s) /\ DOMAIN t = 1 .. Len(s) + 1
      /\ t[Len(s) + 1] = r /\ \A k \in 1 .. Len(s) : t[k] = s[k]
  OBVIOUS
<1> HIDE DEF t
<1>2. /\ \A k \in DOMAIN s : k \in DOMAIN t /\ t[k] = s[k]
      /\ Len(s) + 1 \in DOMAIN t
      /\ \A k \in DOMAIN t : k \in DOMAIN s \/ k = Len(s) + 1
  BY <1>1
<1>3. CellsOf(t) = CellsOf(s) \cup {r.cell}
  BY <1>1, <1>2 DEF CellsOf
<1>4. Range(t) = Range(s) \cup {r}
  BY <1>1, <1>2 DEF Range
<1>5. Distinct(s) /\ r.cell \notin CellsOf(s) => Distinct(t)
  BY <1>1, <1>2 DEF Distinct, CellsOf
<1> QED BY <1>1, <1>3, <1>4, <1>5 DEF t

LEMMA JoinFacts ==
  ASSUME NEW S, NEW s \in Seq(S), NEW t \in Seq(S)
  PROVE  /\ s \o t \in Seq(S) /\ Len(s \o t) = Len(s) + Len(t)
         /\ DOMAIN (s \o t) = 1 .. Len(s) + Len(t)
         /\ \A k \in 1 .. Len(s) : (s \o t)[k] = s[k]
         /\ \A k \in Len(s) + 1 .. Len(s) + Len(t) : (s \o t)[k] = t[k - Len(s)]
  OBVIOUS

LEMMA RemoveRecord ==
  ASSUME NEW s \in Seq(Record), Distinct(s), NEW i \in DOMAIN s
  PROVE  /\ RemoveAt(s, i) \in Seq(Record)
         /\ Len(RemoveAt(s, i)) = Len(s) - 1 /\ Len(s) \in Nat \ {0}
         /\ CellsOf(RemoveAt(s, i)) = CellsOf(s) \ {s[i].cell}
         /\ Range(RemoveAt(s, i)) \subseteq Range(s)
         /\ Distinct(RemoveAt(s, i))
<1> DEFINE n == Len(s)
           a == SubSeq(s, 1, i - 1)
           b == SubSeq(s, i + 1, n)
           t == a \o b
<1>1. n \in Nat /\ DOMAIN s = 1 .. n /\ i \in 1 .. n /\ n # 0
  OBVIOUS
<1>2. /\ a \in Seq(Record) /\ Len(a) = i - 1
      /\ \A k \in 1 .. i - 1 : a[k] = s[k]
  BY <1>1
<1>3. /\ b \in Seq(Record) /\ Len(b) = n - i
      /\ \A k \in 1 .. n - i : b[k] = s[k + i]
  <2>1. \A k \in 1 .. n - i : (i + 1) + k - 1 = k + i
    BY <1>1
  <2> QED BY <1>1, <2>1
<1> HIDE DEF n, a, b
<1>4. /\ t \in Seq(Record) /\ Len(t) = n - 1 /\ DOMAIN t = 1 .. n - 1
      /\ \A k \in 1 .. i - 1 : t[k] = a[k]
      /\ \A k \in i .. n - 1 : t[k] = b[k - (i - 1)]
  <2>1. /\ t \in Seq(Record) /\ Len(t) = Len(a) + Len(b)
        /\ DOMAIN t = 1 .. Len(a) + Len(b)
        /\ \A k \in 1 .. Len(a) : t[k] = a[k]
        /\ \A k \in Len(a) + 1 .. Len(a) + Len(b) : t[k] = b[k - Len(a)]
    BY <1>2, <1>3, JoinFacts
  <2>2. Len(a) + Len(b) = n - 1 /\ Len(a) + 1 = i
    BY <1>1, <1>2, <1>3
  <2> QED BY <1>2, <2>1, <2>2
<1> HIDE DEF t
<1>5. /\ \A k \in 1 .. i - 1 : t[k] = s[k]
      /\ \A k \in i .. n - 1 : t[k] = s[k + 1]
  <2>1. ASSUME NEW k \in i .. n - 1 PROVE t[k] = s[k + 1]
    <3>1. k - (i - 1) \in 1 .. n - i /\ k - (i - 1) + i = k + 1
      BY <1>1
    <3> QED BY <1>3, <1>4, <3>1
  <2> QED BY <1>2, <1>4, <2>1
<1> DEFINE f(k) == IF k < i THEN k ELSE k + 1
<1>6. \A k \in DOMAIN t : f(k) \in DOMAIN s /\ f(k) # i /\ t[k] = s[f(k)]
  BY <1>1, <1>4, <1>5
<1>7. \A j, k \in DOMAIN t : f(j) = f(k) => j = k
  BY <1>1, <1>4
<1>8. ASSUME NEW j \in DOMAIN s, j # i PROVE \E k \in DOMAIN t : f(k) = j
  <2>1. CASE j < i
    <3>1. j \in DOMAIN t /\ f(j) = j
      BY <1>1, <1>4, <2>1
    <3> QED BY <3>1
  <2>2. CASE i < j
    <3>1. j - 1 \in DOMAIN t /\ f(j - 1) = j
      BY <1>1, <1>4, <2>2
    <3> QED BY <3>1
  <2> QED BY <1>1, <1>8, <2>1, <2>2
<1> HIDE DEF f
<1>9. Distinct(t)
  BY <1>6, <1>7 DEF Distinct
<1>10. CellsOf(t) = CellsOf(s) \ {s[i].cell}
  <2>1. ASSUME NEW x \in CellsOf(t) PROVE x \in CellsOf(s) \ {s[i].cell}
    BY <1>6, <2>1 DEF CellsOf, Distinct
  <2>2. ASSUME NEW x \in CellsOf(s) \ {s[i].cell} PROVE x \in CellsOf(t)
    <3>1. PICK j \in DOMAIN s : x = s[j].cell
      BY <2>2 DEF CellsOf
    <3>2. PICK k \in DOMAIN t : f(k) = j
      BY <1>8, <2>2, <3>1
    <3> QED BY <1>6, <3>1, <3>2 DEF CellsOf
  <2> QED BY <2>1, <2>2
<1>11. Range(t) \subseteq Range(s)
  BY <1>6 DEF Range
<1> QED BY <1>1, <1>4, <1>9, <1>10, <1>11 DEF RemoveAt, t, a, b, n

LEMMA FirstRecord ==
  ASSUME NEW s \in Seq(Record), s # <<>>, Distinct(s)
  PROVE  /\ Head(s) \in Record /\ Head(s) \in Range(s)
         /\ Head(s).cell \in CellsOf(s)
         /\ Tail(s) \in Seq(Record) /\ Len(Tail(s)) = Len(s) - 1 /\ Len(s) \in Nat \ {0}
         /\ CellsOf(Tail(s)) = CellsOf(s) \ {Head(s).cell}
         /\ Range(Tail(s)) \subseteq Range(s)
         /\ Distinct(Tail(s))
<1> DEFINE n == Len(s)
           t == Tail(s)
<1>1. /\ n \in Nat \ {0} /\ DOMAIN s = 1 .. n /\ Head(s) = s[1] /\ s[1] \in Record
      /\ t \in Seq(Record) /\ Len(t) = n - 1 /\ DOMAIN t = 1 .. n - 1
      /\ \A k \in 1 .. n - 1 : t[k] = s[k + 1]
  OBVIOUS
<1> HIDE DEF n, t
<1>2. /\ 1 \in DOMAIN s
      /\ \A k \in DOMAIN t : k + 1 \in DOMAIN s /\ k + 1 # 1 /\ t[k] = s[k + 1]
      /\ \A j \in DOMAIN s : j # 1 => j - 1 \in DOMAIN t /\ t[j - 1] = s[j]
      /\ \A j, k \in DOMAIN t : j + 1 = k + 1 => j = k
  BY <1>1
<1>3. Distinct(t)
  BY <1>2 DEF Distinct
<1>4. CellsOf(t) = CellsOf(s) \ {s[1].cell}
  <2>1. ASSUME NEW x \in CellsOf(t) PROVE x \in CellsOf(s) \ {s[1].cell}
    BY <1>2, <2>1 DEF CellsOf, Distinct
  <2>2. ASSUME NEW x \in CellsOf(s) \ {s[1].cell} PROVE x \in CellsOf(t)
    <3>1. PICK j \in DOMAIN s : x = s[j].cell
      BY <2>2 DEF CellsOf
    <3> QED BY <1>2, <2>2, <3>1 DEF CellsOf
  <2> QED BY <2>1, <2>2
<1>5. Range(t) \subseteq Range(s) /\ s[1] \in Range(s) /\ s[1].cell \in CellsOf(s)
  BY <1>2 DEF Range, CellsOf
<1> QED BY <1>1, <1>3, <1>4, <1>5 DEF t, n

LEMMA JoinRecords ==
  ASSUME NEW s \in Seq(Record), NEW t \in Seq(Record), Distinct(s), Distinct(t),
         CellsOf(s) \cap CellsOf(t) = {}
  PROVE  /\ s \o t \in Seq(Record) /\ Len(s \o t) = Len(s) + Len(t)
         /\ CellsOf(s \o t) = CellsOf(s) \cup CellsOf(t)
         /\ Range(s \o t) = Range(s) \cup Range(t)
         /\ Distinct(s \o t)
<1> DEFINE u == s \o t
           m == Len(s)
           n == Len(t)
<1>1. /\ m \in Nat /\ n \in Nat /\ DOMAIN s = 1 .. m /\ DOMAIN t = 1 .. n
      /\ u \in Seq(Record) /\ Len(u) = m + n /\ DOMAIN u = 1 .. m + n
      /\ \A k \in 1 .. m : u[k] = s[k]
      /\ \A k \in m + 1 .. m + n : u[k] = t[k - m]
  OBVIOUS
<1> HIDE DEF u, m, n
<1>2. /\ \A k \in DOMAIN u : \/ k \in DOMAIN s /\ u[k] = s[k]
                             \/ k - m \in DOMAIN t /\ u[k] = t[k - m] /\ k > m
      /\ \A k \in DOMAIN s : k \in DOMAIN u /\ u[k] = s[k]
  BY <1>1
<1>3. \A k \in DOMAIN t : k + m \in DOMAIN u /\ u[k + m] = t[k]
  <2>1. \A k \in DOMAIN t : k + m \in m + 1 .. m + n /\ k + m - m = k
    BY <1>1
  <2> QED BY <1>1, <2>1
<1>4. \A j, k \in DOMAIN u : j - m = k - m => j = k
  BY <1>1
<1>5. CellsOf(u) = CellsOf(s) \cup CellsOf(t)
  BY <1>2, <1>3 DEF CellsOf
<1>6. Range(u) = Range(s) \cup Range(t)
  BY <1>2, <1>3 DEF Range
<1>7. Distinct(u)
  <2> SUFFICES ASSUME NEW j \in DOMAIN u, NEW k \in DOMAIN u, u[j].cell = u[k].cell
               PROVE  j = k
    BY DEF Distinct
  <2>0. \A x \in DOMAIN s, y \in DOMAIN t : s[x].cell # t[y].cell
    BY DEF CellsOf
  <2>1. CASE j \in DOMAIN s /\ u[j] = s[j] /\ k \in DOMAIN s /\ u[k] = s[k]
    BY <2>1 DEF Distinct
  <2>2. CASE /\ j - m \in DOMAIN t /\ u[j] = t[j - m]
             /\ k - m \in DOMAIN t /\ u[k] = t[k - m]
    BY <1>4, <2>2 DEF Distinct
  <2> QED BY <1>2, <2>0, <2>1, <2>2
<1> QED BY <1>1, <1>5, <1>6, <1>7 DEF u, m, n

(* v8__Global__Reset drops the first record with the cell, if there is one. *)
Dropped(s, c) == RemoveFirstMatch(s, LAMBDA r : r.cell = c)

LEMMA DropFacts ==
  ASSUME NEW s \in Seq(Record), NEW c
  PROVE  \/ c \notin CellsOf(s) /\ Dropped(s, c) = s
         \/ \E i \in DOMAIN s : s[i].cell = c /\ Dropped(s, c) = RemoveAt(s, i)
<1> DEFINE at == { i \in 1 .. Len(s) : s[i].cell = c }
<1>0. DOMAIN s = 1 .. Len(s) /\ Len(s) \in Nat
  OBVIOUS
<1>1. CASE at = {}
  <2>1. Dropped(s, c) = s
    BY <1>1 DEF Dropped, RemoveFirstMatch
  <2>2. c \notin CellsOf(s)
    BY <1>0, <1>1 DEF CellsOf
  <2> QED BY <2>1, <2>2
<1>2. CASE at # {}
  <2>1. Dropped(s, c) = RemoveAt(s, SelectInSeq(s, LAMBDA r : r.cell = c))
    BY <1>2 DEF Dropped, RemoveFirstMatch
  <2>2. SelectInSeq(s, LAMBDA r : r.cell = c) = Min(at)
    BY <1>2 DEF SelectInSeq
  <2>3. Min(at) \in at
    <3>1. at \in SUBSET Nat
      BY <1>0
    <3> HIDE DEF at
    <3> DEFINE below == { p \in Nat \X Nat : p[1] < p[2] }
    <3>2. OpToRel(<, Nat) = below
      BY DEF OpToRel
    <3>3. IsWellFoundedOn(below, Nat)
      BY <3>2, NatLessThanWellFounded
    <3>4. PICK i \in at : \A j \in at : <<j, i>> \notin below
      <4> HIDE DEF below
      <4> QED BY <1>2, <3>1, <3>3, WFMin
    <3>5. \A j \in Nat : j < i => <<j, i>> \in below
      <4>1. i \in Nat
        BY <3>1, <3>4
      <4> QED BY <4>1
    <3> HIDE DEF below
    <3>6. ASSUME NEW j \in at PROVE i =< j
      <4>1. i \in Nat /\ j \in Nat
        BY <3>1, <3>4, <3>6
      <4>2. ~ (j < i)
        BY <3>4, <3>5, <3>6, <4>1
      <4> QED BY <4>1, <4>2
    <3> QED BY <3>4, <3>6 DEF Min
  <2> QED BY <1>0, <2>1, <2>2, <2>3
<1> QED BY <1>1, <1>2

-----------------------------------------------------------------------------
(* What a cell holds between ReleaseTargets and Survive.                   *)
Cleared(r) == IF r.target \in Objects THEN Undefined ELSE r.target

WeakTypes ==
  /\ held \in [Values -> SUBSET Holders]
  /\ made \subseteq Values
  /\ DOMAIN cells \subseteq Cells
  /\ cells \in [DOMAIN cells -> Values \cup {Undefined}]
  /\ weak \in Seq(Record) /\ taken \in Seq(Record) /\ survivors \in Seq(Record)
  /\ phase \in Phases
  /\ phase \in {"idle", "epilogue"} => taken = <<>> /\ survivors = <<>>

(* The records of the three lists and the cells d, one for one.            *)
ListsMatch(w, t, s, d) ==
  /\ Distinct(w) /\ Distinct(t) /\ Distinct(s)
  /\ CellsOf(w) \cap CellsOf(t) = {}
  /\ CellsOf(w) \cap CellsOf(s) = {}
  /\ CellsOf(t) \cap CellsOf(s) = {}
  /\ d = CellsOf(w) \cup CellsOf(t) \cup CellsOf(s)
  /\ IsFiniteSet(d)
  /\ Cardinality(d) = Len(w) + Len(t) + Len(s)

(* Which cells read their target in the middle of a collection.            *)
ReadsInv ==
  /\ \A r \in Range(weak) :
       cells[r.cell] = IF phase = "epilogue" THEN Cleared(r) ELSE r.target
  /\ \A r \in Range(taken) : cells[r.cell] = Cleared(r)
  /\ \A r \in Range(survivors) : cells[r.cell] = r.target

WeakInv ==
  /\ WeakTypes
  /\ leaked = {}
  /\ ListsMatch(weak, taken, survivors, DOMAIN cells)
  /\ ReadsInv

LEMMA RecordFacts ==
  ASSUME NEW s \in Seq(Record)
  PROVE  /\ \A r \in Range(s) : /\ r.cell \in Cells /\ r.target \in Values
                                /\ r.cell \in CellsOf(s)
                                /\ r \in Record
         /\ \A c \in CellsOf(s) : \E r \in Range(s) : r.cell = c
         /\ \A q, r \in Range(s) : Distinct(s) /\ q.cell = r.cell => q = r
         /\ { r.cell : r \in Range(s) } = CellsOf(s)
<1>1. \A i \in DOMAIN s : s[i] \in Record
  OBVIOUS
<1> QED BY <1>1 DEF Range, CellsOf, Distinct, Record

LEMMA EmptyFacts == CellsOf(<<>>) = {} /\ Range(<<>>) = {} /\ Distinct(<<>>) /\ Len(<<>>) = 0
                    /\ <<>> \in Seq(Record)
  BY DEF CellsOf, Range, Distinct

LEMMA WeakStarts == WeakInit => WeakInv
<1> SUFFICES ASSUME WeakInit PROVE WeakInv
  OBVIOUS
<1>1. /\ weak = <<>> /\ taken = <<>> /\ survivors = <<>> /\ DOMAIN cells = {}
      /\ phase = "idle" /\ leaked = {} /\ made = {}
      /\ held \in [Values -> SUBSET Holders]
      /\ cells \in [DOMAIN cells -> Values \cup {Undefined}]
  BY DEF WeakInit
<1>2. WeakTypes
  BY <1>1, EmptyFacts DEF WeakTypes, Phases
<1>3. ListsMatch(weak, taken, survivors, DOMAIN cells)
  BY <1>1, EmptyFacts, FS_EmptySet DEF ListsMatch
<1>4. ReadsInv
  BY <1>1, EmptyFacts DEF ReadsInv
<1> QED BY <1>1, <1>2, <1>3, <1>4 DEF WeakInv

-----------------------------------------------------------------------------
(* Steps that leave cells, records and phase alone.                        *)
LEMMA OnlyHeld ==
  ASSUME WeakInv, held' \in [Values -> SUBSET Holders], made' \subseteq Values,
         cells' = cells, leaked' = leaked, weak' = weak, taken' = taken,
         survivors' = survivors, phase' = phase
  PROVE  WeakInv'
<1>1. WeakTypes'
  BY DEF WeakInv, WeakTypes
<1>2. ListsMatch(weak, taken, survivors, DOMAIN cells)'
  <2>1. /\ CellsOf(weak)' = CellsOf(weak) /\ CellsOf(taken)' = CellsOf(taken)
        /\ CellsOf(survivors)' = CellsOf(survivors)
        /\ Distinct(weak)' <=> Distinct(weak)
        /\ Distinct(taken)' <=> Distinct(taken)
        /\ Distinct(survivors)' <=> Distinct(survivors)
    BY DEF CellsOf, Distinct
  <2> QED BY <2>1 DEF WeakInv, ListsMatch
<1>3. ReadsInv'
  BY DEF WeakInv, ReadsInv, Cleared
<1> QED BY <1>1, <1>2, <1>3 DEF WeakInv

LEMMA NewWeakStep ==
  ASSUME Uses = {}, WeakInv, NEW c \in Cells, NEW v \in Values, NewWeak(c, v)
  PROVE  WeakInv'
<1> DEFINE r == [cell |-> c, target |-> v]
<1>1. /\ r \in Record /\ r.cell = c /\ r.target = v
      /\ phase # "epilogue" /\ phase # "collect" /\ c \notin DOMAIN cells
      /\ weak' = Append(weak, r)
      /\ cells' = [d \in DOMAIN cells \cup {c} |-> IF d = c THEN v ELSE cells[d]]
      /\ UNCHANGED <<held, made, leaked, taken, survivors, phase>>
  BY DEF NewWeak, EmbedderRuns, Record
<1>2. /\ DOMAIN cells' = DOMAIN cells \cup {c} /\ cells'[c] = v
      /\ \A d \in DOMAIN cells : d # c /\ cells'[d] = cells[d]
      /\ cells' \in [DOMAIN cells' -> Values \cup {Undefined}]
      /\ DOMAIN cells' \subseteq Cells
  BY <1>1 DEF WeakInv, WeakTypes
<1> HIDE DEF r
<1>3. /\ weak \in Seq(Record) /\ taken \in Seq(Record) /\ survivors \in Seq(Record)
      /\ Distinct(weak)
      /\ DOMAIN cells = CellsOf(weak) \cup CellsOf(taken) \cup CellsOf(survivors)
      /\ IsFiniteSet(DOMAIN cells)
      /\ Cardinality(DOMAIN cells) = Len(weak) + Len(taken) + Len(survivors)
  BY DEF WeakInv, WeakTypes, ListsMatch
<1>4. /\ weak' \in Seq(Record) /\ Len(weak') = Len(weak) + 1
      /\ Len(weak) \in Nat /\ Len(taken) \in Nat /\ Len(survivors) \in Nat
      /\ CellsOf(weak)' = CellsOf(weak) \cup {c}
      /\ Range(weak') = Range(weak) \cup {r}
      /\ Distinct(weak)'
  <2>1. r.cell \notin CellsOf(weak)
    BY <1>1, <1>3
  <2>2. /\ Append(weak, r) \in Seq(Record)
        /\ Len(Append(weak, r)) = Len(weak) + 1 /\ Len(weak) \in Nat
        /\ CellsOf(Append(weak, r)) = CellsOf(weak) \cup {r.cell}
        /\ Range(Append(weak, r)) = Range(weak) \cup {r}
        /\ Distinct(Append(weak, r))
    BY <1>1, <1>3, <2>1, AddRecord
  <2>3. Len(taken) \in Nat /\ Len(survivors) \in Nat
    BY <1>3
  <2> QED BY <1>1, <2>2, <2>3 DEF Distinct, CellsOf
<1>5. IsFiniteSet(DOMAIN cells') /\ Cardinality(DOMAIN cells') = Cardinality(DOMAIN cells) + 1
  BY <1>1, <1>2, <1>3, FS_AddElement
<1>6. WeakTypes'
  BY <1>1, <1>2, <1>4 DEF WeakInv, WeakTypes
<1>7. ListsMatch(weak, taken, survivors, DOMAIN cells)'
  <2>1. CellsOf(taken)' = CellsOf(taken) /\ CellsOf(survivors)' = CellsOf(survivors)
        /\ (Distinct(taken)' <=> Distinct(taken))
        /\ (Distinct(survivors)' <=> Distinct(survivors))
    BY <1>1 DEF CellsOf, Distinct
  <2> QED BY <1>1, <1>2, <1>3, <1>4, <1>5, <2>1 DEF WeakInv, ListsMatch
<1>8. ReadsInv'
  <2>1. ASSUME NEW q \in Range(weak') PROVE cells'[q.cell] = q.target
    <3>1. CASE q = r
      BY <1>1, <1>2, <3>1
    <3>2. CASE q \in Range(weak)
      <4>1. q.cell \in DOMAIN cells /\ cells[q.cell] = q.target
        BY <1>1, <1>3, <3>2, RecordFacts DEF WeakInv, ReadsInv
      <4> QED BY <1>2, <4>1
    <3> QED BY <1>4, <2>1, <3>1, <3>2
  <2>2. ASSUME NEW q \in Range(taken) PROVE cells'[q.cell] = Cleared(q)
    <3>1. q.cell \in DOMAIN cells /\ cells[q.cell] = Cleared(q)
      BY <1>3, <2>2, RecordFacts DEF WeakInv, ReadsInv
    <3> QED BY <1>2, <3>1
  <2>3. ASSUME NEW q \in Range(survivors) PROVE cells'[q.cell] = q.target
    <3>1. q.cell \in DOMAIN cells /\ cells[q.cell] = q.target
      BY <1>3, <2>3, RecordFacts DEF WeakInv, ReadsInv
    <3> QED BY <1>2, <3>1
  <2> QED BY <1>1, <2>1, <2>2, <2>3 DEF ReadsInv, Cleared
<1> QED BY <1>1, <1>6, <1>7, <1>8 DEF WeakInv

-----------------------------------------------------------------------------
(* A weak handle goes with its record: dropped among weak, or reported.    *)
LEMMA DropWeakStep ==
  ASSUME Uses = {}, WeakInv, NEW c \in Cells, DropWeak(c)
  PROVE  WeakInv'
<1>1. /\ c \in DOMAIN cells
      /\ weak' = Dropped(weak, c)
      /\ cells' = [d \in DOMAIN cells \ {c} |-> cells[d]]
      /\ UNCHANGED <<held, made, leaked, taken, survivors, phase>>
  BY DEF DropWeak, Reset, Freed, Dropped
<1>2. /\ DOMAIN cells' = DOMAIN cells \ {c}
      /\ \A d \in DOMAIN cells : d # c => cells'[d] = cells[d]
      /\ cells' \in [DOMAIN cells' -> Values \cup {Undefined}]
      /\ DOMAIN cells' \subseteq Cells
  BY <1>1 DEF WeakInv, WeakTypes
<1>3. /\ weak \in Seq(Record) /\ taken \in Seq(Record) /\ survivors \in Seq(Record)
      /\ Distinct(weak)
      /\ CellsOf(weak) \cap CellsOf(taken) = {}
      /\ CellsOf(weak) \cap CellsOf(survivors) = {}
      /\ DOMAIN cells = CellsOf(weak) \cup CellsOf(taken) \cup CellsOf(survivors)
      /\ IsFiniteSet(DOMAIN cells)
      /\ Cardinality(DOMAIN cells) = Len(weak) + Len(taken) + Len(survivors)
  BY DEF WeakInv, WeakTypes, ListsMatch
<1>4. c \in CellsOf(weak)
  <2>1. CASE phase = "finalizer"
    BY <1>3, <2>1, RecordFacts DEF DropWeak
  <2>2. CASE phase \in {"idle", "epilogue"}
    BY <1>1, <1>3, <2>2, EmptyFacts DEF WeakInv, WeakTypes
  <2> QED BY <2>1, <2>2 DEF DropWeak, EmbedderRuns, WeakInv, WeakTypes, Phases
<1>5. PICK i \in DOMAIN weak : weak[i].cell = c /\ weak' = RemoveAt(weak, i)
  BY <1>1, <1>3, <1>4, DropFacts
<1>6. /\ weak' \in Seq(Record) /\ Len(weak') = Len(weak) - 1 /\ Len(weak) \in Nat \ {0}
      /\ CellsOf(weak)' = CellsOf(weak) \ {c}
      /\ Range(weak') \subseteq Range(weak)
      /\ Distinct(weak)'
  <2>1. /\ RemoveAt(weak, i) \in Seq(Record)
        /\ Len(RemoveAt(weak, i)) = Len(weak) - 1 /\ Len(weak) \in Nat \ {0}
        /\ CellsOf(RemoveAt(weak, i)) = CellsOf(weak) \ {c}
        /\ Range(RemoveAt(weak, i)) \subseteq Range(weak)
        /\ Distinct(RemoveAt(weak, i))
    BY <1>3, <1>5, RemoveRecord
  <2> QED BY <1>5, <2>1 DEF CellsOf, Distinct
<1>7. IsFiniteSet(DOMAIN cells') /\ Cardinality(DOMAIN cells') = Cardinality(DOMAIN cells) - 1
  BY <1>1, <1>2, <1>3, FS_RemoveElement
<1>8. WeakTypes'
  BY <1>1, <1>2, <1>6 DEF WeakInv, WeakTypes
<1>9. ListsMatch(weak, taken, survivors, DOMAIN cells)'
  <2>1. CellsOf(taken)' = CellsOf(taken) /\ CellsOf(survivors)' = CellsOf(survivors)
        /\ (Distinct(taken)' <=> Distinct(taken))
        /\ (Distinct(survivors)' <=> Distinct(survivors))
    BY <1>1 DEF CellsOf, Distinct
  <2>2. Len(taken) \in Nat /\ Len(survivors) \in Nat
    BY <1>3
  <2> QED BY <1>1, <1>2, <1>3, <1>4, <1>6, <1>7, <2>1, <2>2 DEF WeakInv, ListsMatch
<1>10. ReadsInv'
  <2>1. ASSUME NEW q \in Range(weak') PROVE q \in Range(weak) /\ cells'[q.cell] = cells[q.cell]
    <3>1. q \in Range(weak) /\ q.cell \in CellsOf(weak) \ {c}
      <4>1. q.cell \in CellsOf(weak)'
        BY <1>6, <2>1, RecordFacts DEF CellsOf
      <4> QED BY <1>6, <2>1, <4>1
    <3> QED BY <1>2, <1>3, <3>1
  <2>2. ASSUME NEW q \in Range(taken) PROVE cells'[q.cell] = cells[q.cell]
    BY <1>2, <1>3, <1>4, <2>2, RecordFacts
  <2>3. ASSUME NEW q \in Range(survivors) PROVE cells'[q.cell] = cells[q.cell]
    BY <1>2, <1>3, <1>4, <2>3, RecordFacts
  <2> QED BY <1>1, <2>1, <2>2, <2>3 DEF WeakInv, ReadsInv, Cleared
<1> QED BY <1>1, <1>8, <1>9, <1>10 DEF WeakInv

-----------------------------------------------------------------------------
(* The steps of a collection.                                              *)
LEMMA RequestStep ==
  ASSUME WeakInv, NEW garbage \in SUBSET Values, RequestGC(garbage)
  PROVE  WeakInv'
<1>1. /\ phase = "idle" /\ phase' = "epilogue"
      /\ made' = made /\ leaked' = leaked /\ weak' = weak /\ taken' = taken
      /\ survivors' = survivors
      /\ cells' = ReleaseTargets
      /\ held' = [v \in Values |-> IF v \in garbage THEN {} ELSE held[v]]
  BY DEF RequestGC
<1>2. /\ weak \in Seq(Record) /\ taken = <<>> /\ survivors = <<>>
      /\ Distinct(weak)
      /\ DOMAIN cells = CellsOf(weak)
  BY <1>1, EmptyFacts DEF WeakInv, WeakTypes, ListsMatch
<1>3. /\ DOMAIN cells' = DOMAIN cells
      /\ cells' \in [DOMAIN cells' -> Values \cup {Undefined}]
      /\ \A r \in Range(weak) : cells'[r.cell] = Cleared(r)
  <2> DEFINE refs == { r.cell : r \in { q \in Range(weak) : q.target \in Objects } }
  <2>1. cells' = [c \in DOMAIN cells |-> IF c \in refs THEN Undefined ELSE cells[c]]
    BY <1>1 DEF ReleaseTargets
  <2>2. ASSUME NEW r \in Range(weak) PROVE r.cell \in refs <=> r.target \in Objects
    BY <1>2, <2>2, RecordFacts
  <2> HIDE DEF refs
  <2>3. ASSUME NEW r \in Range(weak) PROVE cells'[r.cell] = Cleared(r)
    <3>1. r.cell \in DOMAIN cells
      BY <1>2, <2>3, RecordFacts
    <3>2. cells[r.cell] = r.target
      BY <1>1, <2>3 DEF WeakInv, ReadsInv
    <3> QED BY <2>1, <2>2, <2>3, <3>1, <3>2 DEF Cleared
  <2> QED BY <2>1, <2>3 DEF WeakInv, WeakTypes
<1>4. WeakTypes'
  BY <1>1, <1>3 DEF WeakInv, WeakTypes, Phases
<1>5. ListsMatch(weak, taken, survivors, DOMAIN cells)'
  <2>1. /\ CellsOf(weak)' = CellsOf(weak) /\ CellsOf(taken)' = CellsOf(taken)
        /\ CellsOf(survivors)' = CellsOf(survivors)
        /\ Distinct(weak)' <=> Distinct(weak)
        /\ Distinct(taken)' <=> Distinct(taken)
        /\ Distinct(survivors)' <=> Distinct(survivors)
    BY <1>1 DEF CellsOf, Distinct
  <2> QED BY <1>1, <1>3, <2>1 DEF WeakInv, ListsMatch
<1>6. ReadsInv'
  BY <1>1, <1>2, <1>3, EmptyFacts DEF ReadsInv, Cleared
<1> QED BY <1>1, <1>4, <1>5, <1>6 DEF WeakInv

LEMMA StartStep ==
  ASSUME WeakInv, CollectStart
  PROVE  WeakInv'
<1>1. /\ phase = "epilogue" /\ phase' = "collect"
      /\ held' = held /\ made' = made /\ cells' = cells /\ leaked' = leaked
      /\ taken' = weak /\ weak' = <<>> /\ survivors' = survivors
      /\ taken = <<>> /\ survivors = <<>>
  BY DEF CollectStart, WeakInv, WeakTypes
<1>2. WeakTypes'
  BY <1>1, EmptyFacts DEF WeakInv, WeakTypes, Phases
<1>3. ListsMatch(weak, taken, survivors, DOMAIN cells)'
  <2>1. /\ CellsOf(weak)' = {} /\ CellsOf(taken)' = CellsOf(weak)
        /\ CellsOf(survivors)' = CellsOf(survivors) /\ CellsOf(survivors) = {}
        /\ CellsOf(taken) = {}
        /\ Distinct(weak)' /\ Distinct(taken)' <=> Distinct(weak)
        /\ Distinct(survivors)' /\ Len(weak') = 0 /\ Len(survivors) = 0 /\ Len(taken) = 0
    BY <1>1, EmptyFacts DEF CellsOf, Distinct
  <2>2. Len(weak) \in Nat
    BY DEF WeakInv, WeakTypes
  <2> QED BY <1>1, <2>1, <2>2 DEF WeakInv, ListsMatch
<1>4. ReadsInv'
  BY <1>1, EmptyFacts DEF WeakInv, ReadsInv, Cleared
<1> QED BY <1>1, <1>2, <1>3, <1>4 DEF WeakInv

(* The first of the taken records goes, to survivors or for good.          *)
LEMMA TakenFacts ==
  ASSUME WeakInv, taken # <<>>
  PROVE  /\ Head(taken) \in Record /\ Head(taken) \in Range(taken)
         /\ Head(taken).cell \in CellsOf(taken) /\ Head(taken).cell \in DOMAIN cells
         /\ cells[Head(taken).cell] = Cleared(Head(taken))
         /\ Tail(taken) \in Seq(Record) /\ Len(Tail(taken)) = Len(taken) - 1
         /\ Len(taken) \in Nat \ {0} /\ Len(weak) \in Nat /\ Len(survivors) \in Nat
         /\ CellsOf(Tail(taken)) = CellsOf(taken) \ {Head(taken).cell}
         /\ Range(Tail(taken)) \subseteq Range(taken)
         /\ Distinct(Tail(taken))
<1>1. /\ weak \in Seq(Record) /\ taken \in Seq(Record) /\ survivors \in Seq(Record)
      /\ Distinct(taken)
      /\ DOMAIN cells = CellsOf(weak) \cup CellsOf(taken) \cup CellsOf(survivors)
  BY DEF WeakInv, WeakTypes, ListsMatch
<1>2. Len(weak) \in Nat /\ Len(survivors) \in Nat
  BY <1>1
<1>3. /\ Head(taken) \in Record /\ Head(taken) \in Range(taken)
      /\ Head(taken).cell \in CellsOf(taken)
      /\ Tail(taken) \in Seq(Record) /\ Len(Tail(taken)) = Len(taken) - 1
      /\ Len(taken) \in Nat \ {0}
      /\ CellsOf(Tail(taken)) = CellsOf(taken) \ {Head(taken).cell}
      /\ Range(Tail(taken)) \subseteq Range(taken)
      /\ Distinct(Tail(taken))
  BY <1>1, FirstRecord
<1>4. cells[Head(taken).cell] = Cleared(Head(taken))
  BY <1>3 DEF WeakInv, ReadsInv
<1> QED BY <1>1, <1>2, <1>3, <1>4

LEMMA LiveStep ==
  ASSUME WeakInv, CollectLive
  PROVE  WeakInv'
<1> DEFINE r == Head(taken)
<1>1. /\ phase = "collect" /\ taken # <<>> /\ Survive(r)
      /\ survivors' = Append(survivors, r) /\ taken' = Tail(taken)
      /\ held' = held /\ made' = made /\ weak' = weak /\ phase' = phase
  BY DEF CollectLive
<1>2. /\ r \in Record /\ r.cell \in CellsOf(taken) /\ r.cell \in DOMAIN cells
      /\ cells[r.cell] = Cleared(r)
      /\ taken' \in Seq(Record) /\ Len(taken') = Len(taken) - 1
      /\ Len(taken) \in Nat \ {0} /\ Len(weak) \in Nat /\ Len(survivors) \in Nat
      /\ CellsOf(Tail(taken)) = CellsOf(taken) \ {r.cell}
      /\ Range(taken') \subseteq Range(taken)
      /\ Distinct(Tail(taken))
  BY <1>1, TakenFacts
<1> HIDE DEF r
<1>3. /\ weak \in Seq(Record) /\ taken \in Seq(Record) /\ survivors \in Seq(Record)
      /\ Distinct(weak) /\ Distinct(survivors)
      /\ CellsOf(weak) \cap CellsOf(taken) = {}
      /\ CellsOf(weak) \cap CellsOf(survivors) = {}
      /\ CellsOf(taken) \cap CellsOf(survivors) = {}
      /\ DOMAIN cells = CellsOf(weak) \cup CellsOf(taken) \cup CellsOf(survivors)
  BY DEF WeakInv, WeakTypes, ListsMatch
<1>4. /\ survivors' \in Seq(Record) /\ Len(survivors') = Len(survivors) + 1
      /\ CellsOf(Append(survivors, r)) = CellsOf(survivors) \cup {r.cell}
      /\ Range(survivors') = Range(survivors) \cup {r}
      /\ Distinct(Append(survivors, r))
  <2>1. r.cell \notin CellsOf(survivors)
    BY <1>2, <1>3
  <2>2. /\ Append(survivors, r) \in Seq(Record)
        /\ Len(Append(survivors, r)) = Len(survivors) + 1
        /\ CellsOf(Append(survivors, r)) = CellsOf(survivors) \cup {r.cell}
        /\ Range(Append(survivors, r)) = Range(survivors) \cup {r}
        /\ Distinct(Append(survivors, r))
    BY <1>2, <1>3, <2>1, AddRecord
  <2> QED BY <1>1, <2>2
<1>5. /\ leaked' = {}
      /\ DOMAIN cells' = DOMAIN cells
      /\ cells' \in [DOMAIN cells' -> Values \cup {Undefined}]
      /\ cells'[r.cell] = r.target
      /\ \A c \in DOMAIN cells : c # r.cell => cells'[c] = cells[c]
  <2>1. CASE r.target \in Objects
    <3>1. cells' = [cells EXCEPT ![r.cell] = r.target]
          /\ leaked' = leaked \cup ({Undefined} \cap Values)
      BY <1>1, <1>2, <2>1 DEF Survive, Cleared
    <3>2. r.target \in Values
      BY <1>2 DEF Record
    <3> QED BY <1>2, <3>1, <3>2, WeakHandlesAssumption DEF WeakInv, WeakTypes
  <2>2. CASE r.target \notin Objects
    <3>1. cells' = cells /\ leaked' = leaked /\ cells[r.cell] = r.target
      BY <1>1, <1>2, <2>2 DEF Survive, Cleared
    <3> QED BY <3>1 DEF WeakInv, WeakTypes
  <2> QED BY <2>1, <2>2
<1>6. WeakTypes'
  BY <1>1, <1>2, <1>4, <1>5 DEF WeakInv, WeakTypes, Phases
<1>7. ListsMatch(weak, taken, survivors, DOMAIN cells)'
  <2>1. /\ CellsOf(weak)' = CellsOf(weak) /\ CellsOf(taken)' = CellsOf(Tail(taken))
        /\ CellsOf(survivors)' = CellsOf(Append(survivors, r))
        /\ Distinct(weak)' <=> Distinct(weak)
        /\ Distinct(taken)' <=> Distinct(Tail(taken))
        /\ Distinct(survivors)' <=> Distinct(Append(survivors, r))
    BY <1>1 DEF CellsOf, Distinct
  <2>2. IsFiniteSet(DOMAIN cells)
        /\ Cardinality(DOMAIN cells) = Len(weak) + Len(taken) + Len(survivors)
    BY DEF WeakInv, ListsMatch
  <2>3. Len(weak') + Len(taken') + Len(survivors') = Len(weak) + Len(taken) + Len(survivors)
    BY <1>1, <1>2, <1>4
  <2> QED BY <1>2, <1>3, <1>4, <1>5, <2>1, <2>2, <2>3 DEF ListsMatch
<1>8. ReadsInv'
  <2>1. ASSUME NEW q \in Range(weak) PROVE cells'[q.cell] = cells[q.cell]
    BY <1>2, <1>3, <1>5, <2>1, RecordFacts
  <2>2. ASSUME NEW q \in Range(taken')
        PROVE  q \in Range(taken) /\ cells'[q.cell] = cells[q.cell]
    <3>1. q.cell \in CellsOf(taken) \ {r.cell}
      BY <1>1, <1>2, <2>2, RecordFacts
    <3> QED BY <1>2, <1>3, <1>5, <2>2, <3>1
  <2>3. ASSUME NEW q \in Range(survivors')
        PROVE  cells'[q.cell] = q.target
    <3>1. CASE q = r
      BY <1>5, <3>1
    <3>2. CASE q \in Range(survivors)
      <4>1. q.cell \in DOMAIN cells \ {r.cell} /\ cells[q.cell] = q.target
        BY <1>2, <1>3, <3>2, RecordFacts DEF WeakInv, ReadsInv
      <4> QED BY <1>5, <4>1
    <3> QED BY <1>4, <2>3, <3>1, <3>2
  <2> QED BY <1>1, <2>1, <2>2, <2>3 DEF WeakInv, ReadsInv, Cleared
<1> QED BY <1>5, <1>6, <1>7, <1>8 DEF WeakInv

LEMMA DeadStep ==
  ASSUME WeakInv, CollectDead
  PROVE  WeakInv'
<1> DEFINE c == Head(taken).cell
<1>1. /\ phase = "collect" /\ phase' = "finalizer" /\ taken # <<>>
      /\ weak' = Dropped(weak, c)
      /\ cells' = [d \in DOMAIN cells \ {c} |-> cells[d]]
      /\ taken' = Tail(taken)
      /\ held' = held /\ made' = made /\ leaked' = leaked /\ survivors' = survivors
  BY DEF CollectDead, Reset, Freed, Dropped
<1>2. /\ c \in CellsOf(taken) /\ c \in DOMAIN cells
      /\ taken' \in Seq(Record) /\ Len(taken') = Len(taken) - 1
      /\ Len(taken) \in Nat \ {0} /\ Len(weak) \in Nat /\ Len(survivors) \in Nat
      /\ CellsOf(Tail(taken)) = CellsOf(taken) \ {c}
      /\ Range(taken') \subseteq Range(taken)
      /\ Distinct(Tail(taken))
  BY <1>1, TakenFacts
<1> HIDE DEF c
<1>3. /\ weak \in Seq(Record) /\ taken \in Seq(Record) /\ survivors \in Seq(Record)
      /\ CellsOf(weak) \cap CellsOf(taken) = {}
      /\ CellsOf(weak) \cap CellsOf(survivors) = {}
      /\ CellsOf(taken) \cap CellsOf(survivors) = {}
      /\ DOMAIN cells = CellsOf(weak) \cup CellsOf(taken) \cup CellsOf(survivors)
      /\ IsFiniteSet(DOMAIN cells)
      /\ Cardinality(DOMAIN cells) = Len(weak) + Len(taken) + Len(survivors)
  BY DEF WeakInv, WeakTypes, ListsMatch
<1>4. weak' = weak
  <2>1. c \notin CellsOf(weak)
    BY <1>2, <1>3
  <2>2. \A i \in DOMAIN weak : weak[i].cell # c
    BY <2>1 DEF CellsOf
  <2> QED BY <1>1, <1>3, <2>2, DropFacts
<1>5. /\ DOMAIN cells' = DOMAIN cells \ {c}
      /\ \A d \in DOMAIN cells : d # c => cells'[d] = cells[d]
      /\ cells' \in [DOMAIN cells' -> Values \cup {Undefined}]
      /\ DOMAIN cells' \subseteq Cells
  BY <1>1 DEF WeakInv, WeakTypes
<1>6. IsFiniteSet(DOMAIN cells') /\ Cardinality(DOMAIN cells') = Cardinality(DOMAIN cells) - 1
  <2>1. /\ IsFiniteSet(DOMAIN cells \ {c})
        /\ Cardinality(DOMAIN cells \ {c})
             = IF c \in DOMAIN cells THEN Cardinality(DOMAIN cells) - 1 ELSE Cardinality(DOMAIN cells)
    BY <1>3, FS_RemoveElement
  <2> QED BY <1>2, <1>5, <2>1
<1>7. WeakTypes'
  BY <1>1, <1>2, <1>4, <1>5 DEF WeakInv, WeakTypes, Phases
<1>8. ListsMatch(weak, taken, survivors, DOMAIN cells)'
  <2>1. /\ CellsOf(weak)' = CellsOf(weak) /\ CellsOf(taken)' = CellsOf(Tail(taken))
        /\ CellsOf(survivors)' = CellsOf(survivors)
        /\ Distinct(weak)' <=> Distinct(weak)
        /\ Distinct(taken)' <=> Distinct(Tail(taken))
        /\ Distinct(survivors)' <=> Distinct(survivors)
    BY <1>1, <1>4 DEF CellsOf, Distinct
  <2>2. Len(weak') + Len(taken') + Len(survivors') = Cardinality(DOMAIN cells')
    BY <1>1, <1>2, <1>3, <1>4, <1>6
  <2> QED BY <1>2, <1>3, <1>5, <1>6, <2>1, <2>2 DEF WeakInv, ListsMatch
<1>9. ReadsInv'
  <2>1. ASSUME NEW q \in Range(weak) PROVE cells'[q.cell] = cells[q.cell]
    BY <1>2, <1>3, <1>5, <2>1, RecordFacts
  <2>2. ASSUME NEW q \in Range(taken')
        PROVE  q \in Range(taken) /\ cells'[q.cell] = cells[q.cell]
    <3>1. q.cell \in CellsOf(taken) \ {c}
      BY <1>1, <1>2, <2>2, RecordFacts
    <3> QED BY <1>2, <1>3, <1>5, <2>2, <3>1
  <2>3. ASSUME NEW q \in Range(survivors) PROVE cells'[q.cell] = cells[q.cell]
    BY <1>2, <1>3, <1>5, <2>3, RecordFacts
  <2> QED BY <1>1, <1>4, <2>1, <2>2, <2>3 DEF WeakInv, ReadsInv, Cleared
<1> QED BY <1>1, <1>7, <1>8, <1>9 DEF WeakInv

LEMMA ReturnStep ==
  ASSUME WeakInv, FinalizerReturns
  PROVE  WeakInv'
<1>1. /\ phase = "finalizer" /\ phase' = "collect"
      /\ held' = held /\ made' = made /\ cells' = cells /\ leaked' = leaked
      /\ weak' = weak /\ taken' = taken /\ survivors' = survivors
  BY DEF FinalizerReturns
<1>2. WeakTypes'
  BY <1>1 DEF WeakInv, WeakTypes, Phases
<1>3. ListsMatch(weak, taken, survivors, DOMAIN cells)'
  <2>1. /\ CellsOf(weak)' = CellsOf(weak) /\ CellsOf(taken)' = CellsOf(taken)
        /\ CellsOf(survivors)' = CellsOf(survivors)
        /\ Distinct(weak)' <=> Distinct(weak)
        /\ Distinct(taken)' <=> Distinct(taken)
        /\ Distinct(survivors)' <=> Distinct(survivors)
    BY <1>1 DEF CellsOf, Distinct
  <2> QED BY <1>1, <2>1 DEF WeakInv, ListsMatch
<1>4. ReadsInv'
  BY <1>1 DEF WeakInv, ReadsInv, Cleared
<1> QED BY <1>1, <1>2, <1>3, <1>4 DEF WeakInv

LEMMA EndStep ==
  ASSUME WeakInv, CollectEnd
  PROVE  WeakInv'
<1> DEFINE all == weak \o survivors
<1>1. /\ phase = "collect" /\ phase' = "idle" /\ taken = <<>>
      /\ held' = held /\ made' = made /\ cells' = cells /\ leaked' = leaked
      /\ taken' = taken /\ weak' = all /\ survivors' = <<>>
  BY DEF CollectEnd
<1>2. /\ weak \in Seq(Record) /\ survivors \in Seq(Record)
      /\ Distinct(weak) /\ Distinct(survivors)
      /\ CellsOf(weak) \cap CellsOf(survivors) = {}
      /\ DOMAIN cells = CellsOf(weak) \cup CellsOf(survivors)
      /\ Cardinality(DOMAIN cells) = Len(weak) + Len(taken) + Len(survivors)
      /\ Len(taken) = 0
  BY <1>1, EmptyFacts DEF WeakInv, WeakTypes, ListsMatch
<1>3. /\ all \in Seq(Record) /\ Len(all) = Len(weak) + Len(survivors)
      /\ CellsOf(all) = CellsOf(weak) \cup CellsOf(survivors)
      /\ Range(all) = Range(weak) \cup Range(survivors)
      /\ Distinct(all)
  BY <1>2, JoinRecords
<1> HIDE DEF all
<1>4. WeakTypes'
  BY <1>1, <1>3, EmptyFacts DEF WeakInv, WeakTypes, Phases
<1>5. ListsMatch(weak, taken, survivors, DOMAIN cells)'
  <2>1. /\ CellsOf(weak)' = CellsOf(all) /\ CellsOf(taken)' = {}
        /\ CellsOf(survivors)' = {} /\ Len(survivors') = 0
        /\ Distinct(weak)' <=> Distinct(all)
        /\ Distinct(taken)' /\ Distinct(survivors)'
    BY <1>1, EmptyFacts DEF CellsOf, Distinct
  <2>2. Len(weak') + Len(taken') + Len(survivors') = Cardinality(DOMAIN cells)
    <3>1. Len(weak) \in Nat /\ Len(survivors) \in Nat
      BY <1>2
    <3> QED BY <1>1, <1>2, <1>3, <2>1, <3>1
  <2> QED BY <1>1, <1>2, <1>3, <2>1, <2>2 DEF WeakInv, ListsMatch
<1>6. ReadsInv'
  BY <1>1, <1>3, EmptyFacts DEF WeakInv, ReadsInv, Cleared
<1> QED BY <1>1, <1>4, <1>5, <1>6 DEF WeakInv

-----------------------------------------------------------------------------
(* Before, during and after collect_weak_handles, each record is in one of *)
(* the three lists, which says what its cell holds: its target, or nothing *)
(* between release_weak_handle_targets and the end of the sweep.           *)
THEOREM WeakInvHolds ==
  ASSUME Uses = {}
  PROVE  WeakSpec => []WeakInv
<1>1. WeakInit => WeakInv
  BY WeakStarts
<1>2. WeakInv /\ [WeakNext]_weakVars => WeakInv'
  <2> SUFFICES ASSUME WeakInv, [WeakNext]_weakVars PROVE WeakInv'
    OBVIOUS
  <2>1. ASSUME NEW v \in Values, NewValue(v) PROVE WeakInv'
    BY <2>1, OnlyHeld DEF NewValue, WeakInv, WeakTypes, Holders
  <2>2. ASSUME NEW v \in Values, NEW holder \in Holders, Hold(v, holder) \/ Release(v, holder)
        PROVE  WeakInv'
    <3>1. held' \in [Values -> SUBSET Holders]
      BY <2>2 DEF Hold, Release, WeakInv, WeakTypes
    <3> QED BY <2>2, <3>1, OnlyHeld DEF Hold, Release, WeakInv, WeakTypes
  <2>3. ASSUME NEW c \in Cells, ReadWeak(c) PROVE WeakInv'
    BY <2>3, OnlyHeld DEF ReadWeak, WeakInv, WeakTypes, Holders
  <2>4. ASSUME NEW c \in Cells, NEW v \in Values, NewWeak(c, v) PROVE WeakInv'
    BY <2>4, NewWeakStep
  <2>5. ASSUME NEW c \in Cells, DropWeak(c) PROVE WeakInv'
    BY <2>5, DropWeakStep
  <2>6. ASSUME NEW garbage \in SUBSET Values, RequestGC(garbage) PROVE WeakInv'
    BY <2>6, RequestStep
  <2>7. CASE CollectStart
    BY <2>7, StartStep
  <2>8. CASE CollectLive
    BY <2>8, LiveStep
  <2>9. CASE CollectDead
    BY <2>9, DeadStep
  <2>10. CASE FinalizerReturns
    BY <2>10, ReturnStep
  <2>11. CASE CollectEnd
    BY <2>11, EndStep
  <2>12. CASE UNCHANGED weakVars
    BY <2>12, OnlyHeld DEF weakVars, WeakInv, WeakTypes
  <2> QED BY <2>1, <2>2, <2>3, <2>4, <2>5, <2>6, <2>7, <2>8, <2>9, <2>10, <2>11, <2>12
          DEF WeakNext
<1> QED BY <1>1, <1>2, PTL DEF WeakSpec

(* Every variable keeps its shape, and nothing is taken or kept aside when *)
(* no sweep is under way.                                                  *)
THEOREM WeakTypeCorrect ==
  ASSUME Uses = {}
  PROVE  WeakSpec => []WeakTypeOK
<1>1. WeakInv => WeakTypeOK
  BY DEF WeakInv, WeakTypes, WeakTypeOK
<1> QED BY <1>1, WeakInvHolds, PTL

(* Records and the cells of weak handles stay one for one, also when       *)
(* collect_weak_handles has spread the records over three lists and        *)
(* finalizers make and drop handles meanwhile.                             *)
THEOREM WeakRecordsStay ==
  ASSUME Uses = {}
  PROVE  WeakSpec => []RecordsMatchCells
<1>1. WeakInv => RecordsMatchCells
  <2> SUFFICES ASSUME WeakInv PROVE RecordsMatchCells
    OBVIOUS
  <2>1. /\ weak \in Seq(Record) /\ taken \in Seq(Record) /\ survivors \in Seq(Record)
        /\ DOMAIN cells = CellsOf(weak) \cup CellsOf(taken) \cup CellsOf(survivors)
        /\ Cardinality(DOMAIN cells) = Len(weak) + Len(taken) + Len(survivors)
    BY DEF WeakInv, WeakTypes, ListsMatch
  <2>2. { r.cell : r \in Records } = { r.cell : r \in Range(weak) }
          \cup { r.cell : r \in Range(taken) } \cup { r.cell : r \in Range(survivors) }
    BY DEF Records
  <2>3. { r.cell : r \in Records } = DOMAIN cells
    BY <2>1, <2>2, RecordFacts
  <2> QED BY <2>1, <2>3 DEF RecordsMatchCells
<1> QED BY <1>1, WeakInvHolds, PTL

(* After every collection the weak handles that were not reported read     *)
(* their targets, however many collections there were.                     *)
THEOREM SurvivorsRestored ==
  ASSUME Uses = {}
  PROVE  WeakSpec => []WeakReadsTarget
<1>1. WeakInv => WeakReadsTarget
  <2> SUFFICES ASSUME WeakInv, phase = "idle" PROVE \A r \in Records : cells[r.cell] = r.target
    BY DEF WeakReadsTarget
  <2>1. taken = <<>> /\ survivors = <<>>
    BY DEF WeakInv, WeakTypes
  <2>2. Records = Range(weak)
    BY <2>1, EmptyFacts DEF Records
  <2> QED BY <2>2 DEF WeakInv, ReadsInv
<1> QED BY <1>1, WeakInvHolds, PTL

(* No collection drops the count of a cell: what release_weak_handle_      *)
(* targets has given back is what the survivors take again.                *)
THEOREM CellCountsBalance ==
  ASSUME Uses = {}
  PROVE  WeakSpec => []OneCountPerCell
<1>1. WeakInv => OneCountPerCell
  BY DEF WeakInv, OneCountPerCell
<1> QED BY <1>1, WeakInvHolds, PTL

(* A collection finds nothing kept by the weak handles it is to look at,   *)
(* whatever epilogue callbacks and finalizers do meanwhile.                *)
THEOREM WeakHandlesKeepNothing ==
  ASSUME Uses = {}
  PROVE  WeakSpec => []WeakKeepsNothing
<1>1. WeakInv => WeakKeepsNothing
  <2> SUFFICES ASSUME WeakInv, phase # "idle", NEW v \in Objects, IsAlive(v), held[v] = {}
               PROVE  \/ \E r \in Range(survivors) : r.target = v
                      \/ phase # "epilogue" /\ \E r \in Range(weak) : r.target = v
    BY DEF WeakKeepsNothing
  <2>1. /\ weak \in Seq(Record) /\ taken \in Seq(Record) /\ survivors \in Seq(Record)
        /\ DOMAIN cells = CellsOf(weak) \cup CellsOf(taken) \cup CellsOf(survivors)
        /\ leaked = {}
    BY DEF WeakInv, WeakTypes, ListsMatch
  <2>2. PICK c \in DOMAIN cells : cells[c] = v
    BY <2>1 DEF IsAlive
  <2>3. ASSUME NEW r \in Record PROVE Cleared(r) # v
    BY <2>3, WeakHandlesAssumption DEF Cleared
  <2>4. CASE c \in CellsOf(weak)
    <3>1. PICK r \in Range(weak) : r.cell = c /\ r \in Record
      BY <2>1, <2>4, RecordFacts
    <3>2. phase # "epilogue" /\ r.target = v
      BY <2>2, <2>3, <3>1 DEF WeakInv, ReadsInv
    <3> QED BY <3>1, <3>2
  <2>5. CASE c \in CellsOf(taken)
    <3>1. PICK r \in Range(taken) : r.cell = c /\ r \in Record
      BY <2>1, <2>5, RecordFacts
    <3> QED BY <2>2, <2>3, <3>1 DEF WeakInv, ReadsInv
  <2>6. CASE c \in CellsOf(survivors)
    <3>1. PICK r \in Range(survivors) : r.cell = c /\ r \in Record
      BY <2>1, <2>6, RecordFacts
    <3>2. r.target = v
      BY <2>2, <3>1 DEF WeakInv, ReadsInv
    <3> QED BY <3>1, <3>2
  <2> QED BY <2>1, <2>2, <2>4, <2>5, <2>6
<1> QED BY <1>1, WeakInvHolds, PTL
===============================================================================
