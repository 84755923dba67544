------------------------- MODULE ModuleCachesProofs -------------------------
(***************************************************************************)
(* Proofs about IsolateStack and ModuleCaches, for any number of isolates. *)
(*                                                                         *)
(* IsolateStack: its variables keep their types, and no thread-local ever  *)
(* holds the address of a disposed isolate, whatever the embedder does;    *)
(* when it uses isolates strictly nested (Strict), the current isolate and *)
(* context are the innermost entered ones, and closing a context scope     *)
(* brings back what was current when it was opened.                        *)
(*                                                                         *)
(* ModuleCaches: the swapped thread-local tables give every isolate        *)
(* private caches, whatever the embedder does.                             *)
(***************************************************************************)
EXTENDS ModuleCaches, WellFoundedInduction, FiniteSetTheorems, TLAPS

-----------------------------------------------------------------------------
(* A bounded non-empty set of positions has a greatest element, and Max    *)
(* picks it: what makes Vec::last and the search from the end of ISO_STACK *)
(* find an entry.                                                          *)
LEMMA MaxOfPositions ==
  ASSUME NEW N \in Nat, NEW S, S \subseteq 1 .. N, S # {}
  PROVE  Max(S) \in S /\ \A y \in S : y <= Max(S)
<1> DEFINE T == { N - x : x \in S }
           R == { p \in Nat \X Nat : p[1] < p[2] }
<1>1. T \subseteq Nat /\ T # {}
  <2>1. \A x \in S : N - x \in Nat
    OBVIOUS
  <2>2. PICK x \in S : TRUE
    OBVIOUS
  <2> HIDE DEF R
  <2>3. N - x \in T
    OBVIOUS
  <2> QED BY <2>1, <2>3
<1>2. PICK t \in T : \A u \in T : <<u, t>> \notin R
  <2>1. IsWellFoundedOn(R, Nat)
    BY NatLessThanWellFounded DEF OpToRel
  <2> HIDE DEF T, R
  <2> QED BY <1>1, <2>1, WFMin
<1>3. PICK m \in S : t = N - m
  OBVIOUS
<1>4. ASSUME NEW y \in S PROVE y <= m
  <2>1. N - y \in T /\ N - y \in Nat /\ t \in Nat
    OBVIOUS
  <2>2. ~ (N - y < t)
    BY <1>2, <2>1
  <2> QED BY <1>3, <2>2
<1>5. \E x \in S : \A y \in S : x >= y
  <2>1. m \in Nat /\ \A y \in S : y \in Nat
    OBVIOUS
  <2> QED BY <1>4, <2>1
<1>6. Max(S) \in S /\ \A y \in S : Max(S) >= y
  <2> HIDE DEF T, R
  <2> QED BY <1>5 DEF Max
<1> QED BY <1>6

(* Vec::last: the innermost entry is an entry.                             *)
LEMMA TopIsAnEntry ==
  ASSUME NEW s, DOMAIN s \subseteq 1 .. MaxEnter
  PROVE  TopIso(s) \in Range(s) \cup {NoIso}
<1>1. CASE DOMAIN s = {}
  BY <1>1 DEF TopIso
<1>2. CASE DOMAIN s # {}
  <2>1. Max(DOMAIN s) \in DOMAIN s
    BY <1>2, MaxOfPositions, IsolateStackAssumption
  <2> QED BY <1>2, <2>1 DEF TopIso, Range
<1> QED BY <1>1, <1>2

(* A stack of isolates: positions within the bound, entries in I.          *)
IsStack(s, I) ==
  /\ DOMAIN s \subseteq 1 .. MaxEnter
  /\ s \in [DOMAIN s -> I]

(* push_current_iso keeps ISO_STACK a stack and adds only i.               *)
LEMMA PushKeepsStack ==
  ASSUME NEW I, NEW s, IsStack(s, I), NEW i \in I,
         \A k \in DOMAIN s : k < MaxEnter
  PROVE  IsStack(Pushed(s, i), I)
<1> DEFINE top == IF DOMAIN s = {} THEN 0 ELSE Max(DOMAIN s)
<1>1. top \in 0 .. MaxEnter - 1
  <2>1. CASE DOMAIN s = {}
    BY <2>1, IsolateStackAssumption
  <2>2. CASE DOMAIN s # {}
    <3>1. Max(DOMAIN s) \in DOMAIN s
      BY <2>2, MaxOfPositions, IsolateStackAssumption DEF IsStack
    <3> QED BY <2>2, <3>1, IsolateStackAssumption DEF IsStack
  <2> QED BY <2>1, <2>2
<1>2. Pushed(s, i) =
        [k \in DOMAIN s \cup {top + 1} |-> IF k = top + 1 THEN i ELSE s[k]]
  BY DEF Pushed
<1> HIDE DEF top
<1> QED BY <1>1, <1>2, IsolateStackAssumption DEF IsStack

(* Both ways of removing entries keep ISO_STACK a stack and add nothing.   *)
LEMMA RemovalKeepsStack ==
  ASSUME NEW I, NEW s, IsStack(s, I), NEW i
  PROVE  /\ IsStack(WithoutInnermost(s, i), I)
         /\ IsStack(WithoutEvery(s, i), I \ {i})
  BY DEF IsStack, WithoutInnermost, WithoutEvery, Restrict

(* What is innermost on a stack of I is in I.                              *)
LEMMA TopInStack ==
  ASSUME NEW I, NEW s, IsStack(s, I)
  PROVE  TopIso(s) \in I \cup {NoIso}
  BY TopIsAnEntry DEF IsStack, Range

-----------------------------------------------------------------------------
(* The inductive form of NoDanglingIsolate: the bound on the positions is  *)
(* what makes the innermost entry exist.                                   *)
StackInv ==
  /\ live \subseteq Isolates
  /\ IsStack(isoStack, live)
  /\ current \in live \cup {NoIso}
  /\ last \in live \cup {NoIso}

(* set_current to a live isolate, or to none, leaves only live isolates.   *)
LEMMA SetCurrentKeepsLive ==
  ASSUME StackInv, NEW i \in live \cup {NoIso}, NEW ctxs, SetCurrent(i, ctxs)
  PROVE  /\ current' \in live \cup {NoIso}
         /\ last' \in live \cup {NoIso}
  BY DEF StackInv, SetCurrent

(* Every step of IsolateStack keeps StackInv; the steps of the modules     *)
(* built on it do so as well, because they are steps of IsolateStack.      *)
LEMMA StackInvStep ==
  ASSUME StackInv, IsolateStackNext
  PROVE  StackInv'
<1> USE IsolateStackAssumption
<1>1. ASSUME NEW i \in Isolates, IsolateNew(i) PROVE StackInv'
  BY <1>1 DEF StackInv, IsStack, IsolateNew
<1>2. ASSUME NEW i \in Isolates, IsolateEnter(i) PROVE StackInv'
  <2>1. IsStack(Pushed(isoStack, i), live)
    BY <1>2, PushKeepsStack DEF IsolateEnter, StackInv
  <2>2. current' \in live \cup {NoIso} /\ last' \in live \cup {NoIso}
    BY <1>2, SetCurrentKeepsLive DEF IsolateEnter
  <2> QED BY <1>2, <2>1, <2>2 DEF IsolateEnter, StackInv
<1>3. ASSUME NEW i \in Isolates, IsolateExit(i) PROVE StackInv'
  <2>1. IsStack(isoStack', live)
    BY <1>3, RemovalKeepsStack DEF IsolateExit, StackInv
  <2>2. TopIso(isoStack') \in live \cup {NoIso}
    BY <2>1, TopInStack
  <2>3. current' \in live \cup {NoIso} /\ last' \in live \cup {NoIso}
    BY <1>3, <2>2, SetCurrentKeepsLive DEF IsolateExit
  <2> QED BY <1>3, <2>1, <2>3 DEF IsolateExit, StackInv
<1>4. ASSUME NEW i \in Isolates, IsolateDispose(i) PROVE StackInv'
  <2>1. IsStack(isoStack', live \ {i})
    BY <1>4, RemovalKeepsStack DEF IsolateDispose, StackInv
  <2>2. TopIso(isoStack') \in (live \ {i}) \cup {NoIso}
    BY <2>1, TopInStack
  <2>3. /\ current' \in (live \ {i}) \cup {NoIso}
        /\ last' \in (live \ {i}) \cup {NoIso}
    BY <1>4, <2>2 DEF IsolateDispose, LastAfterDispose, StackInv
  <2> QED BY <1>4, <2>1, <2>3 DEF IsolateDispose, StackInv
<1>5. ASSUME NEW i \in Isolates, HandleScopeConstruct(i) PROVE StackInv'
  <2>1. current' \in live \cup {NoIso} /\ last' \in live \cup {NoIso}
    BY <1>5, SetCurrentKeepsLive DEF HandleScopeConstruct, MayUse
  <2> QED BY <1>5, <2>1 DEF HandleScopeConstruct, StackInv
<1>6. ASSUME UNCHANGED <<live, isoStack, current, last>> PROVE StackInv'
  BY <1>6 DEF StackInv
<1> QED
  BY <1>1, <1>2, <1>3, <1>4, <1>5, <1>6
  DEF IsolateStackNext, ContextNew, ContextEnter, CallbackEnter, DispatchEnter,
      HandleScopeDestruct, ContextExit, CallbackReturn, DispatchReturn

(* No thread-local keeps the address of a disposed isolate, for any number *)
(* of isolates entered, used and disposed in any order: remove_current_iso *)
(* and clear_last_iso (core.rs) forget it everywhere.                      *)
THEOREM NeverDangling == IsolateStackSpec => []NoDanglingIsolate
<1>1. IsolateStackInit => StackInv
  BY DEF IsolateStackInit, StackInv, IsStack
<1>2. StackInv /\ [IsolateStackNext]_isoVars => StackInv'
  BY StackInvStep DEF isoVars, StackInv
<1>3. StackInv => NoDanglingIsolate
  BY DEF StackInv, IsStack, NoDanglingIsolate, Range
<1> QED BY <1>1, <1>2, <1>3, PTL DEF IsolateStackSpec

-----------------------------------------------------------------------------
(* What refresh_current_ctx computes is a context of the isolate's stack,  *)
(* or the isolate's own.                                                   *)
LEMMA InnermostCtxType ==
  ASSUME NEW c, c \in [Isolates -> Seq(Ctx)], NEW i \in Isolates
  PROVE  InnermostCtx(i, c) \in Ctx
<1>1. MainCtx(i) \in Ctx
  BY IsolateStackAssumption DEF MainCtx, Ctx
<1>2. c[i] # <<>> => Last(c[i]) \in Ctx
  <2>1. c[i] \in Seq(Ctx)
    OBVIOUS
  <2> QED BY <2>1 DEF Last
<1> QED BY <1>1, <1>2 DEF InnermostCtx

(* set_current keeps the types of the three thread-locals it writes.       *)
LEMMA SetCurrentType ==
  ASSUME IsolateStackTypeOK, NEW i \in Isolates \cup {NoIso},
         SetCurrent(i, contexts)
  PROVE  /\ current' \in Isolates \cup {NoIso}
         /\ last' \in Isolates \cup {NoIso}
         /\ currentCtx' \in Ctx \cup {NoCtx}
  BY InnermostCtxType DEF SetCurrent, IsolateStackTypeOK

(* Opening a frame keeps the frames a sequence of frames.                  *)
LEMMA OpenType ==
  ASSUME frames \in Seq(Frame), NEW f \in Frame, Open(f)
  PROVE  frames' \in Seq(Frame)
  BY DEF Open

(* Closing one does, and what is closed is a frame.                        *)
LEMMA CloseType ==
  ASSUME frames \in Seq(Frame), NEW k, Close(k)
  PROVE  frames' \in Seq(Frame) /\ Innermost \in Frame
<1>1. Len(frames) \in Nat \ {0}
  BY DEF Close
<1> QED BY <1>1 DEF Close, Front, Innermost, Last

(* Popping and truncating keep a stack of contexts one.                    *)
LEMMA ShorterType ==
  ASSUME NEW s \in Seq(Ctx), NEW d \in Nat
  PROVE  /\ s # <<>> => Front(s) \in Seq(Ctx)
         /\ Truncated(s, d) \in Seq(Ctx)
  BY DEF Front, Truncated

(* Every step keeps the types.                                             *)
LEMMA TypeStep ==
  ASSUME IsolateStackTypeOK, IsolateStackNext
  PROVE  IsolateStackTypeOK'
<1> USE IsolateStackAssumption
<1>0. /\ contexts \in [Isolates -> Seq(Ctx)]
      /\ frames \in Seq(Frame)
      /\ IsStack(isoStack, Isolates)
      /\ CurrentIso \in Isolates \cup {NoIso}
  BY DEF IsolateStackTypeOK, IsStack, CurrentIso
<1>1. ASSUME NEW i \in Isolates, IsolateNew(i) PROVE IsolateStackTypeOK'
  BY <1>1 DEF IsolateStackTypeOK, IsolateNew
<1>2. ASSUME NEW i \in Isolates, IsolateEnter(i) PROVE IsolateStackTypeOK'
  <2>1. IsStack(isoStack', Isolates)
    BY <1>0, <1>2, PushKeepsStack DEF IsolateEnter
  <2>2. SetCurrent(i, contexts)
    BY <1>2 DEF IsolateEnter
  <2> QED BY <1>2, <2>1, <2>2, SetCurrentType
          DEF IsolateEnter, IsolateStackTypeOK, IsStack
<1>3. ASSUME NEW i \in Isolates, IsolateExit(i) PROVE IsolateStackTypeOK'
  <2>1. IsStack(isoStack', Isolates)
    BY <1>0, <1>3, RemovalKeepsStack DEF IsolateExit
  <2>2. TopIso(isoStack') \in Isolates \cup {NoIso}
    BY <2>1, TopInStack
  <2>3. SetCurrent(TopIso(isoStack'), contexts)
    BY <1>3 DEF IsolateExit
  <2> QED BY <1>3, <2>1, <2>2, <2>3, SetCurrentType
          DEF IsolateExit, IsolateStackTypeOK, IsStack
<1>4. ASSUME NEW i \in Isolates, IsolateDispose(i) PROVE IsolateStackTypeOK'
  <2>1. IsStack(isoStack', Isolates)
    <3>1. IsStack(isoStack', Isolates \ {i})
      BY <1>0, <1>4, RemovalKeepsStack DEF IsolateDispose
    <3> QED BY <3>1 DEF IsStack
  <2>2. TopIso(isoStack') \in Isolates \cup {NoIso}
    BY <2>1, TopInStack
  <2>3. /\ current' \in Isolates \cup {NoIso}
        /\ last' \in Isolates \cup {NoIso}
        /\ currentCtx' \in Ctx \cup {NoCtx}
    BY <1>0, <1>4, <2>2, InnermostCtxType
    DEF IsolateDispose, LastAfterDispose, IsolateStackTypeOK
  <2>4. contexts' \in [Isolates -> Seq(Ctx)]
    BY <1>0, <1>4 DEF IsolateDispose
  <2> QED BY <1>4, <2>1, <2>3, <2>4
          DEF IsolateDispose, IsolateStackTypeOK, IsStack
<1>5. ASSUME NEW i \in Isolates, HandleScopeConstruct(i)
      PROVE  IsolateStackTypeOK'
  <2>1. [kind |-> "scope", iso |-> i, ctx |-> NoCtx, depth |-> 0,
         outer |-> currentCtx] \in Frame
    BY DEF Frame, FrameKinds, IsolateStackTypeOK
  <2>2. frames' \in Seq(Frame)
    BY <1>0, <1>5, <2>1, OpenType DEF HandleScopeConstruct
  <2>3. SetCurrent(i, contexts)
    BY <1>5 DEF HandleScopeConstruct
  <2> QED BY <1>5, <2>2, <2>3, SetCurrentType
          DEF HandleScopeConstruct, IsolateStackTypeOK
<1>6. ASSUME HandleScopeDestruct PROVE IsolateStackTypeOK'
  BY <1>0, <1>6, CloseType DEF HandleScopeDestruct, IsolateStackTypeOK
<1>7. ASSUME NEW i \in Isolates, ContextNew(i) PROVE IsolateStackTypeOK'
  <2>1. handedOut[i] + 1 \in 0 .. MaxCtx
    BY <1>7 DEF ContextNew, IsolateStackTypeOK
  <2>2. handedOut' \in [Isolates -> 0 .. MaxCtx]
    BY <1>7, <2>1 DEF ContextNew, IsolateStackTypeOK
  <2> QED BY <1>7, <2>2 DEF ContextNew, IsolateStackTypeOK
<1>8. ASSUME NEW c \in Ctx, ContextEnter(c) \/ CallbackEnter(c)
      PROVE  IsolateStackTypeOK'
  <2>1. CurrentIso \in Isolates
    BY <1>0, <1>8 DEF ContextEnter, CallbackEnter
  <2>2. PICK f \in Frame : Open(f)
    <3>1. c[1] \in Isolates /\ currentCtx \in Ctx \cup {NoCtx}
      BY DEF Ctx, IsolateStackTypeOK
    <3>2. /\ Len(contexts[c[1]]) \in Nat
          /\ Len(contexts[CurrentIso]) \in Nat
      BY <1>0, <2>1, <3>1
    <3>3. /\ [kind |-> "ctx", iso |-> c[1], ctx |-> c,
              depth |-> Len(contexts[c[1]]), outer |-> currentCtx] \in Frame
          /\ [kind |-> "callback", iso |-> CurrentIso, ctx |-> c,
              depth |-> Len(contexts[CurrentIso]), outer |-> currentCtx]
               \in Frame
      BY <2>1, <3>1, <3>2 DEF Frame, FrameKinds
    <3> QED BY <1>8, <3>3 DEF ContextEnter, CallbackEnter
  <2>3. frames' \in Seq(Frame)
    BY <1>0, <2>2, OpenType
  <2>4. contexts' \in [Isolates -> Seq(Ctx)]
    <3>1. contexts' = [contexts EXCEPT ![CurrentIso] = Append(@, c)]
      BY <1>8 DEF ContextEnter, CallbackEnter
    <3>2. Append(contexts[CurrentIso], c) \in Seq(Ctx)
      BY <1>0, <2>1
    <3> QED BY <1>0, <3>1, <3>2
  <2>5. /\ currentCtx' \in Ctx
        /\ UNCHANGED <<live, isoStack, current, last, handedOut>>
    BY <1>8 DEF ContextEnter, CallbackEnter
  <2> QED BY <2>3, <2>4, <2>5 DEF IsolateStackTypeOK
<1>9. ASSUME ContextExit PROVE IsolateStackTypeOK'
  <2>1. frames' \in Seq(Frame)
    BY <1>0, <1>9, CloseType DEF ContextExit
  <2>2. CASE CurrentIso = NoIso
    BY <1>9, <2>1, <2>2 DEF ContextExit, IsolateStackTypeOK
  <2>3. CASE CurrentIso \in Isolates
    <3>1. contexts' = [contexts EXCEPT ![CurrentIso] =
                         IF @ = <<>> THEN @ ELSE Front(@)]
      BY <1>9, <2>3 DEF ContextExit
    <3>2. contexts[CurrentIso] \in Seq(Ctx)
      BY <1>0, <2>3
    <3>3. (IF contexts[CurrentIso] = <<>> THEN contexts[CurrentIso]
           ELSE Front(contexts[CurrentIso])) \in Seq(Ctx)
      BY <3>2, ShorterType
    <3>4. contexts' \in [Isolates -> Seq(Ctx)]
      BY <1>0, <3>1, <3>3
    <3>5. currentCtx' \in Ctx
      BY <1>9, <2>3, <3>4, InnermostCtxType DEF ContextExit
    <3> QED BY <1>9, <2>1, <3>4, <3>5 DEF ContextExit, IsolateStackTypeOK
  <2> QED BY <1>0, <2>2, <2>3
<1>10. ASSUME CallbackReturn PROVE IsolateStackTypeOK'
  <2>1. frames' \in Seq(Frame) /\ Innermost \in Frame
    BY <1>0, <1>10, CloseType DEF CallbackReturn
  <2>2. Innermost.iso \in Isolates /\ Innermost.depth \in Nat
    BY <2>1 DEF Frame
  <2>3. Truncated(contexts[Innermost.iso], Innermost.depth) \in Seq(Ctx)
    BY <1>0, <2>2, ShorterType
  <2>4. contexts' \in [Isolates -> Seq(Ctx)]
    BY <1>0, <1>10, <2>2, <2>3 DEF CallbackReturn
  <2>5. currentCtx' \in Ctx
    BY <1>10, <2>2, <2>4, InnermostCtxType DEF CallbackReturn
  <2> QED BY <1>10, <2>1, <2>4, <2>5 DEF CallbackReturn, IsolateStackTypeOK
<1>11. ASSUME NEW c \in Ctx, DispatchEnter(c) PROVE IsolateStackTypeOK'
  <2>1. [kind |-> "dispatch", iso |-> c[1], ctx |-> c,
         depth |-> Len(contexts[c[1]]), outer |-> currentCtx] \in Frame
    <3>1. c[1] \in Isolates /\ currentCtx \in Ctx \cup {NoCtx}
      BY DEF Ctx, IsolateStackTypeOK
    <3> QED BY <1>0, <3>1 DEF Frame, FrameKinds
  <2>2. frames' \in Seq(Frame)
    BY <1>0, <1>11, <2>1, OpenType DEF DispatchEnter
  <2> QED BY <1>11, <2>2 DEF DispatchEnter, IsolateStackTypeOK
<1>12. ASSUME DispatchReturn PROVE IsolateStackTypeOK'
  BY <1>0, <1>12, CloseType DEF DispatchReturn, IsolateStackTypeOK
<1> QED
  BY <1>1, <1>2, <1>3, <1>4, <1>5, <1>6, <1>7, <1>8, <1>9, <1>10, <1>11, <1>12
  DEF IsolateStackNext

(* Type correctness: in particular current_iso()'s context stack always    *)
(* belongs to an isolate, so Context::Enter and Exit and the callback      *)
(* guard never write through a null isolate.                               *)
THEOREM TypeCorrect == IsolateStackSpec => []IsolateStackTypeOK
<1>1. IsolateStackInit => IsolateStackTypeOK
  BY IsolateStackAssumption DEF IsolateStackInit, IsolateStackTypeOK
<1>2. IsolateStackTypeOK /\ [IsolateStackNext]_isoVars => IsolateStackTypeOK'
  BY TypeStep DEF isoVars, IsolateStackTypeOK
<1> QED BY <1>1, <1>2, PTL DEF IsolateStackSpec

-----------------------------------------------------------------------------
(* The entry just pushed is the innermost one.                             *)
LEMMA PushedIsTop ==
  ASSUME NEW s, DOMAIN s \subseteq 1 .. MaxEnter, NEW i,
         \A k \in DOMAIN s : k < MaxEnter
  PROVE  TopIso(Pushed(s, i)) = i
<1> DEFINE top == IF DOMAIN s = {} THEN 0 ELSE Max(DOMAIN s)
           p == Pushed(s, i)
<1>1. /\ top \in 0 .. MaxEnter - 1
      /\ \A k \in DOMAIN s : k \in Nat /\ k <= top
  <2>1. CASE DOMAIN s = {}
    BY <2>1, IsolateStackAssumption
  <2>2. CASE DOMAIN s # {}
    <3>1. Max(DOMAIN s) \in DOMAIN s /\ \A k \in DOMAIN s : k <= Max(DOMAIN s)
      BY <2>2, MaxOfPositions, IsolateStackAssumption
    <3> QED BY <2>2, <3>1, IsolateStackAssumption
  <2> QED BY <2>1, <2>2
<1>2. p = [k \in DOMAIN s \cup {top + 1} |-> IF k = top + 1 THEN i ELSE s[k]]
  BY DEF Pushed
<1> HIDE DEF top, p
<1>3. DOMAIN p = DOMAIN s \cup {top + 1}
  BY <1>2
<1>4. DOMAIN p \subseteq 1 .. MaxEnter /\ DOMAIN p # {}
  BY <1>1, <1>3, IsolateStackAssumption
<1>5. Max(DOMAIN p) = top + 1
  <2>1. Max(DOMAIN p) \in DOMAIN p /\ \A k \in DOMAIN p : k <= Max(DOMAIN p)
    BY <1>4, MaxOfPositions, IsolateStackAssumption
  <2>2. top + 1 \in DOMAIN p
    BY <1>3
  <2>3. top + 1 <= Max(DOMAIN p)
    BY <2>1, <2>2
  <2>4. Max(DOMAIN p) \in Nat /\ (Max(DOMAIN p) <= top \/ Max(DOMAIN p) = top + 1)
    BY <1>1, <1>3, <2>1
  <2> QED BY <1>1, <2>3, <2>4
<1>6. TopIso(p) = i
  BY <1>2, <1>3, <1>4, <1>5 DEF TopIso
<1> QED BY <1>6 DEF p

(* The inductive form of the two strict-nesting invariants.                *)
StrictInv ==
  /\ IsolateStackTypeOK
  /\ StackInv
  /\ CurrentIsInnermost
  /\ CurrentCtxIsInnermost

(* Under strict nesting every step keeps CURRENT_ISO the innermost entered *)
(* isolate and CURRENT_CTX its innermost entered context.                  *)
LEMMA StrictStep ==
  ASSUME Strict, StrictInv, IsolateStackNext
  PROVE  CurrentIsInnermost' /\ CurrentCtxIsInnermost'
<1> USE IsolateStackAssumption
<1>0. /\ contexts \in [Isolates -> Seq(Ctx)]
      /\ IsStack(isoStack, Isolates)
      /\ IsStack(isoStack, live)
      /\ current \in live \cup {NoIso}
      /\ live \subseteq Isolates
      /\ current = TopIso(isoStack)
      /\ currentCtx = IF current = NoIso THEN NoCtx
                      ELSE InnermostCtx(current, contexts)
  BY DEF StrictInv, IsolateStackTypeOK, StackInv, IsStack, CurrentIsInnermost,
         CurrentCtxIsInnermost
<1>1. ASSUME NEW i \in Isolates, IsolateNew(i)
      PROVE  CurrentIsInnermost' /\ CurrentCtxIsInnermost'
  <2>1. i # current
    BY <1>0, <1>1 DEF IsolateNew
  <2>2. contexts' = [contexts EXCEPT ![i] = <<>>]
    BY <1>1 DEF IsolateNew
  <2>3. current # NoIso => contexts'[current] = contexts[current]
    BY <1>0, <2>1, <2>2
  <2> QED BY <1>0, <1>1, <2>3 DEF IsolateNew, CurrentIsInnermost,
             CurrentCtxIsInnermost, InnermostCtx
<1>2. ASSUME NEW i \in Isolates, IsolateEnter(i)
      PROVE  CurrentIsInnermost' /\ CurrentCtxIsInnermost'
  <2>1. TopIso(isoStack') = i
    BY <1>0, <1>2, PushedIsTop DEF IsolateEnter, IsStack
  <2> QED BY <1>2, <2>1 DEF IsolateEnter, SetCurrent, CurrentIsInnermost,
             CurrentCtxIsInnermost, InnermostCtx
<1>3. ASSUME NEW i \in Isolates, IsolateExit(i)
      PROVE  CurrentIsInnermost' /\ CurrentCtxIsInnermost'
  BY <1>3 DEF IsolateExit, SetCurrent, CurrentIsInnermost,
              CurrentCtxIsInnermost, InnermostCtx
<1>4. ASSUME NEW i \in Isolates, IsolateDispose(i)
      PROVE  CurrentIsInnermost' /\ CurrentCtxIsInnermost'
  <2> DEFINE top == TopIso(isoStack')
  <2>1. IsStack(isoStack', Isolates \ {i})
    BY <1>0, <1>4, RemovalKeepsStack DEF IsolateDispose
  <2>2. top \in (Isolates \ {i}) \cup {NoIso}
    BY <2>1, TopInStack
  <2>3. top # NoIso => contexts'[top] = contexts[top]
    BY <1>0, <1>4, <2>2 DEF IsolateDispose
  <2>4. /\ current' = top
        /\ currentCtx' = IF top # NoIso THEN InnermostCtx(top, contexts)
                         ELSE NoCtx
    BY <1>4 DEF IsolateDispose
  <2> HIDE DEF top
  <2>5. currentCtx' = IF top = NoIso THEN NoCtx ELSE InnermostCtx(top, contexts')
    BY <2>3, <2>4 DEF InnermostCtx
  <2> QED BY <2>4, <2>5 DEF top, CurrentIsInnermost, CurrentCtxIsInnermost,
             InnermostCtx
<1>5. ASSUME NEW i \in Isolates, HandleScopeConstruct(i)
      PROVE  CurrentIsInnermost' /\ CurrentCtxIsInnermost'
  BY <1>0, <1>5 DEF HandleScopeConstruct, MayUse, SetCurrent, InnermostCtx,
                    CurrentIsInnermost, CurrentCtxIsInnermost
<1>6. ASSUME NEW c \in Ctx, ContextEnter(c) \/ CallbackEnter(c)
      PROVE  CurrentIsInnermost' /\ CurrentCtxIsInnermost'
  <2>1. current = c[1] /\ c[1] \in Isolates
    BY <1>0, <1>6 DEF ContextEnter, CallbackEnter, MayUse
  <2>2. current # NoIso /\ CurrentIso = current
    BY <2>1 DEF CurrentIso
  <2>3. contexts' = [contexts EXCEPT ![current] = Append(@, c)]
    BY <1>6, <2>2 DEF ContextEnter, CallbackEnter
  <2>4. contexts[current] \in Seq(Ctx)
    BY <1>0, <2>1
  <2>5. contexts'[current] = Append(contexts[current], c)
    BY <1>0, <2>1, <2>3
  <2>6. contexts'[current] # <<>> /\ Last(contexts'[current]) = c
    BY <2>4, <2>5 DEF Last
  <2>7. /\ UNCHANGED <<isoStack, current>>
        /\ currentCtx' = c
    BY <1>6 DEF ContextEnter, CallbackEnter
  <2> QED BY <1>0, <2>2, <2>6, <2>7
          DEF CurrentIsInnermost, CurrentCtxIsInnermost, InnermostCtx
<1>7. ASSUME ContextExit
      PROVE  CurrentIsInnermost' /\ CurrentCtxIsInnermost'
  <2>1. current = Innermost.iso /\ Innermost.iso \in live
    BY <1>7 DEF ContextExit, MayUse
  <2>2. current # NoIso /\ CurrentIso = current
    BY <1>0, <2>1 DEF CurrentIso
  <2> QED BY <1>0, <1>7, <2>2 DEF ContextExit, CurrentIsInnermost,
             CurrentCtxIsInnermost, InnermostCtx
<1>8. ASSUME CallbackReturn
      PROVE  CurrentIsInnermost' /\ CurrentCtxIsInnermost'
  <2>1. current = Innermost.iso /\ Innermost.iso \in live
    BY <1>8 DEF CallbackReturn, MayUse
  <2>2. current # NoIso
    BY <1>0, <2>1
  <2> QED BY <1>0, <1>8, <2>1, <2>2 DEF CallbackReturn, CurrentIsInnermost,
             CurrentCtxIsInnermost, InnermostCtx
<1>9. ASSUME UNCHANGED <<isoStack, current, currentCtx, contexts>>
      PROVE  CurrentIsInnermost' /\ CurrentCtxIsInnermost'
  BY <1>0, <1>9 DEF CurrentIsInnermost, CurrentCtxIsInnermost, InnermostCtx
<1> QED
  BY <1>1, <1>2, <1>3, <1>4, <1>5, <1>6, <1>7, <1>8, <1>9
  DEF IsolateStackNext, ContextNew, DispatchEnter, DispatchReturn,
      HandleScopeDestruct

LEMMA StrictInvHolds ==
  ASSUME Strict
  PROVE  IsolateStackSpec => []StrictInv
<1>1. IsolateStackInit => StrictInv
  BY IsolateStackAssumption
  DEF IsolateStackInit, StrictInv, IsolateStackTypeOK, StackInv, IsStack,
      CurrentIsInnermost, CurrentCtxIsInnermost, TopIso
<1>2. StrictInv /\ [IsolateStackNext]_isoVars => StrictInv'
  <2>1. CASE IsolateStackNext
    BY <2>1, StrictStep, TypeStep, StackInvStep DEF StrictInv
  <2>2. CASE UNCHANGED isoVars
    BY <2>2 DEF isoVars, StrictInv, IsolateStackTypeOK, StackInv, IsStack,
                CurrentIsInnermost, CurrentCtxIsInnermost, InnermostCtx
  <2> QED BY <2>1, <2>2
<1> QED BY <1>1, <1>2, PTL DEF IsolateStackSpec

(* With isolates used strictly nested, the current isolate is the          *)
(* innermost entered one although HandleScope::CONSTRUCT makes its isolate *)
(* current without entering it, and CURRENT_CTX is never stale although    *)
(* six call sites maintain it by hand.                                     *)
THEOREM StrictNesting ==
  ASSUME Strict
  PROVE  IsolateStackSpec => [](CurrentIsInnermost /\ CurrentCtxIsInnermost)
<1>1. StrictInv => CurrentIsInnermost /\ CurrentCtxIsInnermost
  BY DEF StrictInv
<1> QED BY <1>1, StrictInvHolds, PTL

(* CURRENT_CTX, which six call sites maintain by hand, is never stale: the *)
(* half of StrictNesting that is about contexts.                           *)
THEOREM InnermostContext ==
  ASSUME Strict
  PROVE  IsolateStackSpec => []CurrentCtxIsInnermost
<1>1. IsolateStackSpec => [](CurrentIsInnermost /\ CurrentCtxIsInnermost)
  BY StrictNesting
<1>2. (CurrentIsInnermost /\ CurrentCtxIsInnermost) => CurrentCtxIsInnermost
  OBVIOUS
<1> QED BY <1>1, <1>2, PTL

-----------------------------------------------------------------------------
(* Frames and contexts.  Pushes(s, n, i) is how many of the first n frames *)
(* of s have pushed a context on the stack of isolate i.                   *)
PushKinds == {"ctx", "callback"}

Pushing(s, n, i) ==
  { j \in 1 .. n : s[j].iso = i /\ s[j].kind \in PushKinds }

Pushes(s, n, i) == Cardinality(Pushing(s, n, i))

(* The innermost context when d of them were entered.                      *)
InnermostAt(ctxs, i, d) == IF d = 0 THEN MainCtx(i) ELSE ctxs[i][d]

(* Every entered context was pushed by an open frame, and what was the     *)
(* innermost context when a frame opened still lies below what the frame   *)
(* and those inside it have pushed.                                        *)
PushInv ==
  /\ \A i \in Isolates : Len(contexts[i]) = Pushes(frames, Len(frames), i)
  /\ \A k \in DOMAIN frames :
       LET d == Pushes(frames, k - 1, frames[k].iso)
       IN /\ frames[k].iso \in live
          /\ frames[k].outer = InnermostAt(contexts, frames[k].iso, d)
          /\ frames[k].kind = "callback" => frames[k].depth = d

LEMMA PushesFinite ==
  ASSUME NEW s, NEW n \in Nat, NEW i
  PROVE  IsFiniteSet(Pushing(s, n, i)) /\ Pushes(s, n, i) \in Nat
<1>1. IsFiniteSet(1 .. n) /\ Pushing(s, n, i) \subseteq 1 .. n
  BY FS_Interval DEF Pushing
<1> QED BY <1>1, FS_Subset, FS_CardinalityType DEF Pushes

(* One more frame pushes one more context, or none.                        *)
LEMMA PushesNext ==
  ASSUME NEW s, NEW n \in Nat, NEW i
  PROVE  Pushes(s, n + 1, i) =
           IF s[n + 1].iso = i /\ s[n + 1].kind \in PushKinds
           THEN Pushes(s, n, i) + 1 ELSE Pushes(s, n, i)
<1>1. CASE s[n + 1].iso = i /\ s[n + 1].kind \in PushKinds
  <2>1. /\ Pushing(s, n + 1, i) = Pushing(s, n, i) \cup {n + 1}
        /\ n + 1 \notin Pushing(s, n, i)
    BY <1>1 DEF Pushing
  <2> QED BY <1>1, <2>1, PushesFinite, FS_AddElement DEF Pushes
<1>2. CASE ~ (s[n + 1].iso = i /\ s[n + 1].kind \in PushKinds)
  <2>1. Pushing(s, n + 1, i) = Pushing(s, n, i)
    BY <1>2 DEF Pushing
  <2> QED BY <1>2, <2>1 DEF Pushes
<1> QED BY <1>1, <1>2

LEMMA PushesMonotone ==
  ASSUME NEW s, NEW n \in Nat, NEW m \in 0 .. n, NEW i
  PROVE  Pushes(s, m, i) <= Pushes(s, n, i)
<1>1. Pushing(s, m, i) \subseteq Pushing(s, n, i)
  BY DEF Pushing
<1> QED BY <1>1, PushesFinite, FS_Subset DEF Pushes

(* The count depends on nothing but the frames counted.                    *)
LEMMA PushesSame ==
  ASSUME NEW s, NEW t, NEW n \in Nat, NEW i, \A j \in 1 .. n : t[j] = s[j]
  PROVE  Pushes(t, n, i) = Pushes(s, n, i)
<1>1. Pushing(t, n, i) = Pushing(s, n, i)
  BY DEF Pushing
<1> QED BY <1>1 DEF Pushes

(* A frame opens, and enters at most one context of its isolate.           *)
LEMMA OpenKeepsPushes ==
  ASSUME IsolateStackTypeOK, PushInv, NEW f \in Frame, NEW c \in Ctx,
         frames' = Append(frames, f), live' = live, f.iso \in live,
         f.outer = InnermostCtx(f.iso, contexts),
         f.kind = "callback" => f.depth = Len(contexts[f.iso]),
         contexts' = IF f.kind \in PushKinds
                     THEN [contexts EXCEPT ![f.iso] = Append(@, c)] ELSE contexts
  PROVE  PushInv'
<1> DEFINE n == Len(frames)
<1>1. /\ n \in Nat /\ DOMAIN frames = 1 .. n
      /\ DOMAIN frames' = 1 .. n + 1 /\ Len(frames') = n + 1
      /\ \A k \in 1 .. n : frames'[k] = frames[k]
      /\ frames'[n + 1] = f
      /\ f.iso \in Isolates
      /\ \A i \in Isolates : contexts[i] \in Seq(Ctx)
  BY DEF IsolateStackTypeOK, Frame
<1>2. \A i, m : m \in 0 .. n => Pushes(frames', m, i) = Pushes(frames, m, i)
  <2> SUFFICES ASSUME NEW i, NEW m \in 0 .. n
               PROVE  Pushes(frames', m, i) = Pushes(frames, m, i)
    OBVIOUS
  <2>1. m \in Nat /\ \A j \in 1 .. m : frames'[j] = frames[j]
    BY <1>1
  <2> QED BY <2>1, PushesSame
<1>3. \A i \in Isolates : Len(contexts[i]) = Pushes(frames, n, i)
  BY DEF PushInv
<1>4. \A i \in Isolates : Pushes(frames', n + 1, i) =
        IF f.iso = i /\ f.kind \in PushKinds
        THEN Pushes(frames, n, i) + 1 ELSE Pushes(frames, n, i)
  <2> SUFFICES ASSUME NEW i \in Isolates
               PROVE  Pushes(frames', n + 1, i) =
                        IF f.iso = i /\ f.kind \in PushKinds
                        THEN Pushes(frames, n, i) + 1 ELSE Pushes(frames, n, i)
    OBVIOUS
  <2>1. Pushes(frames', n, i) = Pushes(frames, n, i)
    BY <1>1, <1>2
  <2>2. Pushes(frames', n + 1, i) =
          IF frames'[n + 1].iso = i /\ frames'[n + 1].kind \in PushKinds
          THEN Pushes(frames', n, i) + 1 ELSE Pushes(frames', n, i)
    BY <1>1, PushesNext
  <2> QED BY <1>1, <2>1, <2>2
<1> HIDE DEF n
<1>5. \A i \in Isolates : Len(contexts'[i]) = Pushes(frames', n + 1, i)
  <2> SUFFICES ASSUME NEW i \in Isolates
               PROVE  Len(contexts'[i]) = Pushes(frames', n + 1, i)
    OBVIOUS
  <2>1. CASE f.iso = i /\ f.kind \in PushKinds
    <3>1. contexts'[i] = Append(contexts[i], c)
      BY <2>1 DEF IsolateStackTypeOK
    <3>2. Len(contexts'[i]) = Len(contexts[i]) + 1
      BY <1>1, <3>1
    <3> QED BY <1>3, <1>4, <2>1, <3>2
  <2>2. CASE ~ (f.iso = i /\ f.kind \in PushKinds)
    <3>1. contexts'[i] = contexts[i]
      BY <2>2 DEF IsolateStackTypeOK
    <3> QED BY <1>3, <1>4, <2>2, <3>1
  <2> QED BY <2>1, <2>2
<1>6. \A i \in Isolates, d \in Nat :
        d <= Pushes(frames, n, i) =>
          InnermostAt(contexts', i, d) = InnermostAt(contexts, i, d)
  <2> SUFFICES ASSUME NEW i \in Isolates, NEW d \in Nat, d # 0, d <= Len(contexts[i])
               PROVE  contexts'[i][d] = contexts[i][d]
    BY <1>3 DEF InnermostAt
  <2>1. d \in 1 .. Len(contexts[i])
    BY <1>1
  <2>2. contexts'[i] = contexts[i] \/ contexts'[i] = Append(contexts[i], c)
    BY DEF IsolateStackTypeOK
  <2> QED BY <1>1, <2>1, <2>2
<1>7. ASSUME NEW k \in 1 .. n + 1
      PROVE  LET d == Pushes(frames', k - 1, frames'[k].iso)
             IN /\ frames'[k].iso \in live
                /\ frames'[k].outer = InnermostAt(contexts', frames'[k].iso, d)
                /\ frames'[k].kind = "callback" => frames'[k].depth = d
  <2> DEFINE d == Pushes(frames', k - 1, frames'[k].iso)
  <2>1. frames'[k].iso \in Isolates
    <3>1. frames'[k] \in Frame
      BY <1>1 DEF IsolateStackTypeOK
    <3> QED BY <3>1 DEF Frame
  <2>2. k - 1 \in 0 .. n /\ k - 1 \in Nat
    BY <1>1
  <2>3. d = Pushes(frames, k - 1, frames'[k].iso)
    BY <1>2, <2>2
  <2>4. d \in Nat /\ d <= Pushes(frames, n, frames'[k].iso)
    BY <1>1, <2>2, <2>3, PushesFinite, PushesMonotone
  <2>5. InnermostAt(contexts', frames'[k].iso, d)
          = InnermostAt(contexts, frames'[k].iso, d)
    BY <1>6, <2>1, <2>4
  <2>6. CASE k \in 1 .. n
    BY <1>1, <2>3, <2>5, <2>6 DEF PushInv
  <2>7. CASE k = n + 1
    <3>1. d = Len(contexts[f.iso])
      BY <1>1, <1>3, <2>3, <2>7
    <3>2. InnermostAt(contexts, f.iso, d) = InnermostCtx(f.iso, contexts)
      <4>1. contexts[f.iso] \in Seq(Ctx) /\ (contexts[f.iso] = <<>> <=> d = 0)
        BY <1>1, <3>1
      <4> QED BY <3>1, <4>1 DEF InnermostAt, InnermostCtx, Last
    <3> QED BY <1>1, <2>5, <2>7, <3>1, <3>2
  <2> QED BY <1>1, <2>6, <2>7
<1> QED BY <1>1, <1>5, <1>7 DEF PushInv

LEMMA CutShape ==
  ASSUME NEW S, NEW s \in Seq(S), NEW b \in 0 .. Len(s)
  PROVE  LET t == SubSeq(s, 1, b)
         IN t \in Seq(S) /\ Len(t) = b /\ \A d \in 1 .. b : t[d] = s[d]
  OBVIOUS

(* The innermost frame closes: the stack of its isolate is cut back to     *)
(* what frames outside it have pushed, and the innermost context is again  *)
(* the one that was when the frame opened.                                 *)
LEMMA CloseKeepsPushes ==
  ASSUME IsolateStackTypeOK, PushInv, frames # <<>>,
         frames' = Front(frames), live' = live,
         contexts' = [contexts EXCEPT ![Innermost.iso] =
                        SubSeq(@, 1, Pushes(frames, Len(frames) - 1, Innermost.iso))]
  PROVE  PushInv' /\ InnermostCtx(Innermost.iso, contexts') = Innermost.outer
<1> DEFINE n == Len(frames) - 1
           i == Innermost.iso
           b == Pushes(frames, n, i)
<1>1. /\ n \in Nat /\ DOMAIN frames = 1 .. n + 1
      /\ DOMAIN frames' = 1 .. n /\ Len(frames') = n
      /\ \A k \in 1 .. n : frames'[k] = frames[k]
      /\ Innermost = frames[n + 1] /\ \A k \in 1 .. n + 1 : frames[k] \in Frame
      /\ \A j \in Isolates : contexts[j] \in Seq(Ctx)
  <2>1. frames \in Seq(Frame) /\ Len(frames) \in Nat \ {0}
    BY DEF IsolateStackTypeOK
  <2>2. n \in Nat /\ Len(frames) = n + 1 /\ DOMAIN frames = 1 .. n + 1
    BY <2>1
  <2>3. frames' = SubSeq(frames, 1, n) /\ Innermost = frames[n + 1]
    BY <2>2 DEF Front, Innermost, Last
  <2> HIDE DEF n
  <2>4. /\ DOMAIN frames' = 1 .. n /\ Len(frames') = n
        /\ \A k \in 1 .. n : frames'[k] = frames[k]
    BY <2>1, <2>2, <2>3
  <2> QED BY <2>1, <2>2, <2>3, <2>4 DEF IsolateStackTypeOK
<1>2. \A j, m : m \in 0 .. n => Pushes(frames', m, j) = Pushes(frames, m, j)
  <2> SUFFICES ASSUME NEW j, NEW m \in 0 .. n
               PROVE  Pushes(frames', m, j) = Pushes(frames, m, j)
    OBVIOUS
  <2>1. m \in Nat /\ \A k \in 1 .. m : frames'[k] = frames[k]
    BY <1>1
  <2> QED BY <2>1, PushesSame
<1>3. \A j \in Isolates : /\ Len(contexts[j]) = Pushes(frames, n + 1, j)
                          /\ Pushes(frames, n, j) \in Nat
                          /\ Pushes(frames, n, j) <= Len(contexts[j])
  <2>1. \A j \in Isolates : Len(contexts[j]) = Pushes(frames, n + 1, j)
    BY <1>1 DEF PushInv
  <2>2. n + 1 \in Nat /\ n \in 0 .. n + 1
    BY <1>1
  <2>3. \A j : Pushes(frames, n, j) <= Pushes(frames, n + 1, j)
    BY <2>2, PushesMonotone
  <2>4. \A j : Pushes(frames, n, j) \in Nat
    BY <1>1, PushesFinite
  <2> QED BY <2>1, <2>3, <2>4
<1>4. /\ i \in Isolates /\ b \in Nat /\ b <= Len(contexts[i])
      /\ contexts' = [contexts EXCEPT ![i] = SubSeq(contexts[i], 1, b)]
      /\ DOMAIN contexts = Isolates
  <2>1. i \in Isolates
    BY <1>1 DEF Frame
  <2> QED BY <1>3, <2>1 DEF IsolateStackTypeOK
<1> HIDE DEF n, i, b
<1>5. contexts'[i] = SubSeq(contexts[i], 1, b) /\ Len(contexts'[i]) = b
      /\ contexts'[i] \in Seq(Ctx)
      /\ \A j \in Isolates : j # i => contexts'[j] = contexts[j]
      /\ \A d \in 1 .. b : contexts'[i][d] = contexts[i][d]
  <2>1. contexts'[i] = SubSeq(contexts[i], 1, b)
        /\ \A j \in Isolates : j # i => contexts'[j] = contexts[j]
    BY <1>4
  <2>2. contexts[i] \in Seq(Ctx)
    BY <1>1, <1>4
  <2>3. b \in 0 .. Len(contexts[i])
    BY <1>4
  <2>4. LET t == SubSeq(contexts[i], 1, b)
        IN t \in Seq(Ctx) /\ Len(t) = b /\ \A d \in 1 .. b : t[d] = contexts[i][d]
    BY <2>2, <2>3, CutShape
  <2> QED BY <2>1, <2>4
<1>6. \A j \in Isolates : Len(contexts'[j]) = Pushes(frames', n, j)
  <2> SUFFICES ASSUME NEW j \in Isolates PROVE Len(contexts'[j]) = Pushes(frames', n, j)
    OBVIOUS
  <2>1. Pushes(frames', n, j) = Pushes(frames, n, j)
    BY <1>1, <1>2
  <2>2. CASE j = i
    BY <1>5, <2>1, <2>2 DEF b
  <2>3. CASE j # i
    <3>1. Innermost.iso # j
      BY <2>3 DEF i
    <3>2. Pushes(frames, n + 1, j) = Pushes(frames, n, j)
      BY <1>1, <3>1, PushesNext
    <3> QED BY <1>3, <1>5, <2>1, <2>3, <3>2
  <2> QED BY <2>2, <2>3
<1>7. \A j \in Isolates, d \in Nat :
        d <= Pushes(frames, n, j) =>
          InnermostAt(contexts', j, d) = InnermostAt(contexts, j, d)
  <2> SUFFICES ASSUME NEW j \in Isolates, NEW d \in Nat, d # 0,
                      d <= Pushes(frames, n, j)
               PROVE  contexts'[j][d] = contexts[j][d]
    BY DEF InnermostAt
  <2>1. CASE j = i
    <3>1. d \in 1 .. b
      BY <1>4, <2>1 DEF b
    <3> QED BY <1>5, <2>1, <3>1
  <2>2. CASE j # i
    BY <1>5, <2>2
  <2> QED BY <2>1, <2>2
<1>8. ASSUME NEW k \in 1 .. n
      PROVE  LET d == Pushes(frames', k - 1, frames'[k].iso)
             IN /\ frames'[k].iso \in live
                /\ frames'[k].outer = InnermostAt(contexts', frames'[k].iso, d)
                /\ frames'[k].kind = "callback" => frames'[k].depth = d
  <2> DEFINE d == Pushes(frames, k - 1, frames[k].iso)
  <2>1. k - 1 \in 0 .. n /\ k - 1 \in Nat /\ k \in DOMAIN frames
        /\ frames'[k] = frames[k] /\ frames[k].iso \in Isolates
    BY <1>1 DEF Frame
  <2>2. d = Pushes(frames', k - 1, frames'[k].iso)
    BY <1>2, <2>1
  <2>3. d \in Nat /\ d <= Pushes(frames, n, frames[k].iso)
    BY <1>1, <2>1, PushesFinite, PushesMonotone
  <2>4. InnermostAt(contexts', frames[k].iso, d) = InnermostAt(contexts, frames[k].iso, d)
    BY <1>7, <2>1, <2>3
  <2> QED BY <2>1, <2>2, <2>4 DEF PushInv
<1>9. InnermostCtx(i, contexts') = Innermost.outer
  <2>1. Innermost.outer = InnermostAt(contexts, i, b)
    <3>1. n + 1 \in DOMAIN frames /\ n + 1 - 1 = n
      BY <1>1
    <3> QED BY <1>1, <3>1 DEF PushInv, i, b
  <2>2. InnermostAt(contexts', i, b) = InnermostAt(contexts, i, b)
    <3>1. b <= Pushes(frames, n, i)
      BY <1>4 DEF b
    <3> QED BY <1>4, <1>7, <3>1
  <2>3. contexts'[i] = <<>> <=> b = 0
    BY <1>4, <1>5
  <2> QED BY <1>5, <2>1, <2>2, <2>3 DEF InnermostAt, InnermostCtx, Last
<1> QED BY <1>1, <1>6, <1>8, <1>9 DEF PushInv, i

(* Under strict nesting every step keeps PushInv, and closing a frame      *)
(* brings back the context that was current when it opened.                *)
LEMMA PushStep ==
  ASSUME Strict, StrictInv, PushInv, IsolateStackNext
  PROVE  /\ PushInv'
         /\ Len(frames') < Len(frames) => currentCtx' = Innermost.outer
<1> USE IsolateStackAssumption
<1>0. /\ IsolateStackTypeOK
      /\ live \subseteq Isolates
      /\ contexts \in [Isolates -> Seq(Ctx)]
      /\ frames \in Seq(Frame) /\ Len(frames) \in Nat
      /\ currentCtx \in Ctx \cup {NoCtx}
      /\ currentCtx = IF current = NoIso THEN NoCtx
                      ELSE InnermostCtx(current, contexts)
  BY DEF StrictInv, IsolateStackTypeOK, StackInv, CurrentCtxIsInnermost
<1>1. ASSUME NEW i \in Isolates, MayUse(i)
      PROVE  /\ i \in live /\ current = i /\ CurrentIso = i /\ i # NoIso
             /\ currentCtx = InnermostCtx(i, contexts)
             /\ Len(contexts[i]) \in Nat
  <2>1. i \in live /\ current = i /\ i # NoIso
    BY <1>1 DEF MayUse
  <2>2. contexts[i] \in Seq(Ctx)
    BY <1>0
  <2> QED BY <1>0, <2>1, <2>2 DEF CurrentIso
<1>2. ASSUME NEW f \in Frame, frames' = Append(frames, f)
      PROVE  ~ (Len(frames') < Len(frames))
  <2>1. Len(frames') = Len(frames) + 1
    BY <1>0, <1>2
  <2> QED BY <1>0, <2>1
(* An isolate that no frame uses has no entered contexts.                  *)
<1>3. ASSUME NEW i \in Isolates, \A k \in DOMAIN frames : frames[k].iso # i,
             frames' = frames, contexts' = [contexts EXCEPT ![i] = <<>>],
             live' = live \cup {i} \/ live' = live \ {i}
      PROVE  PushInv'
  <2>1. Pushes(frames, Len(frames), i) = 0
    <3>1. Pushing(frames, Len(frames), i) = {}
      BY <1>0, <1>3 DEF Pushing
    <3> QED BY <3>1, FS_EmptySet DEF Pushes
  <2>2. contexts' = contexts
    <3>1. contexts[i] \in Seq(Ctx) /\ Len(contexts[i]) = 0
      BY <1>0, <2>1 DEF PushInv
    <3>2. contexts[i] = <<>>
      BY <3>1
    <3> QED BY <1>0, <1>3, <3>2
  <2>3. \A k \in DOMAIN frames : frames[k].iso \in live'
    BY <1>3 DEF PushInv
  <2>4. (\A j \in Isolates : Len(contexts[j]) = Pushes(frames, Len(frames), j))'
    BY <1>3, <2>2 DEF PushInv
  <2>5. (\A k \in DOMAIN frames :
          LET d == Pushes(frames, k - 1, frames[k].iso)
          IN /\ frames[k].iso \in live
             /\ frames[k].outer = InnermostAt(contexts, frames[k].iso, d)
             /\ frames[k].kind = "callback" => frames[k].depth = d)'
    BY <1>3, <2>2, <2>3 DEF PushInv
  <2> QED BY <2>4, <2>5 DEF PushInv
<1>4. ASSUME NEW i \in Isolates, IsolateNew(i) \/ IsolateDispose(i)
      PROVE  PushInv' /\ frames' = frames
  <2>1. \A k \in DOMAIN frames : frames[k].iso # i
    BY <1>4 DEF IsolateNew, IsolateDispose, InUse, PushInv
  <2> QED BY <1>3, <1>4, <2>1 DEF IsolateNew, IsolateDispose
<1>5. ASSUME UNCHANGED <<live, contexts, frames>>
      PROVE  PushInv' /\ frames' = frames
  BY <1>5 DEF PushInv, Pushes, Pushing, InnermostAt
<1>6. ASSUME NEW i \in Isolates, HandleScopeConstruct(i)
      PROVE  PushInv' /\ ~ (Len(frames') < Len(frames))
  <2> DEFINE f == [kind |-> "scope", iso |-> i, ctx |-> NoCtx, depth |-> 0,
                   outer |-> currentCtx]
  <2>1. f \in Frame /\ f.iso = i /\ f.outer = currentCtx /\ f.kind = "scope"
    BY <1>0 DEF Frame, FrameKinds
  <2>2. frames' = Append(frames, f) /\ UNCHANGED <<live, contexts>> /\ MayUse(i)
    BY <1>6 DEF HandleScopeConstruct, Open
  <2>3. MainCtx(i) \in Ctx
    BY DEF MainCtx, Ctx
  <2> HIDE DEF f
  <2>4. f.kind \notin PushKinds /\ f.kind # "callback"
    BY <2>1 DEF PushKinds
  <2> QED BY <1>0, <1>1, <1>2, <2>1, <2>2, <2>3, <2>4, OpenKeepsPushes
<1>7. ASSUME NEW c \in Ctx, ContextEnter(c)
      PROVE  PushInv' /\ ~ (Len(frames') < Len(frames))
  <2> DEFINE f == [kind |-> "ctx", iso |-> c[1], ctx |-> c,
                   depth |-> Len(contexts[c[1]]), outer |-> currentCtx]
  <2>1. c[1] \in Isolates /\ MayUse(c[1])
    BY <1>7 DEF Ctx, ContextEnter
  <2>2. f \in Frame /\ f.iso = c[1] /\ f.outer = currentCtx /\ f.kind = "ctx"
    BY <1>0, <1>1, <2>1 DEF Frame, FrameKinds
  <2>3. frames' = Append(frames, f) /\ live' = live
        /\ contexts' = [contexts EXCEPT ![c[1]] = Append(@, c)]
    BY <1>1, <1>7, <2>1 DEF ContextEnter, Open
  <2> HIDE DEF f
  <2>4. f.kind \in PushKinds /\ f.kind # "callback"
    BY <2>2 DEF PushKinds
  <2> QED BY <1>0, <1>1, <1>2, <2>1, <2>2, <2>3, <2>4, OpenKeepsPushes
<1>8. ASSUME NEW c \in Ctx, CallbackEnter(c)
      PROVE  PushInv' /\ ~ (Len(frames') < Len(frames))
  <2>1. c[1] \in Isolates /\ MayUse(c[1]) /\ CurrentIso = c[1]
    BY <1>1, <1>8 DEF Ctx, CallbackEnter
  <2> DEFINE f == [kind |-> "callback", iso |-> c[1], ctx |-> c,
                   depth |-> Len(contexts[c[1]]), outer |-> currentCtx]
  <2>2. /\ f \in Frame /\ f.iso = c[1] /\ f.outer = currentCtx
        /\ f.kind = "callback" /\ f.depth = Len(contexts[c[1]])
    BY <1>0, <1>1, <2>1 DEF Frame, FrameKinds
  <2>3. frames' = Append(frames, f) /\ live' = live
        /\ contexts' = [contexts EXCEPT ![c[1]] = Append(@, c)]
    BY <1>8, <2>1 DEF CallbackEnter, Open
  <2> HIDE DEF f
  <2>4. f.kind \in PushKinds
    BY <2>2 DEF PushKinds
  <2> QED BY <1>0, <1>1, <1>2, <2>1, <2>2, <2>3, <2>4, OpenKeepsPushes
<1>9. ASSUME NEW c \in Ctx, DispatchEnter(c)
      PROVE  PushInv' /\ ~ (Len(frames') < Len(frames))
  <2> DEFINE f == [kind |-> "dispatch", iso |-> c[1], ctx |-> c,
                   depth |-> Len(contexts[c[1]]), outer |-> currentCtx]
  <2>1. c[1] \in Isolates /\ MayUse(c[1])
    BY <1>9 DEF Ctx, DispatchEnter
  <2>2. f \in Frame /\ f.iso = c[1] /\ f.outer = currentCtx /\ f.kind = "dispatch"
    BY <1>0, <1>1, <2>1 DEF Frame, FrameKinds
  <2>3. frames' = Append(frames, f) /\ UNCHANGED <<live, contexts>>
    BY <1>9 DEF DispatchEnter, Open
  <2> HIDE DEF f
  <2>4. f.kind \notin PushKinds /\ f.kind # "callback"
    BY <2>2 DEF PushKinds
  <2> QED BY <1>0, <1>1, <1>2, <2>1, <2>2, <2>3, <2>4, OpenKeepsPushes
<1>10. ASSUME frames # <<>>, MayUse(Innermost.iso)
       PROVE  LET n == Len(frames) - 1
                  i == Innermost.iso
                  b == Pushes(frames, n, i)
              IN /\ i \in Isolates /\ current = i /\ CurrentIso = i /\ i # NoIso
                 /\ contexts[i] \in Seq(Ctx) /\ DOMAIN contexts = Isolates
                 /\ currentCtx = InnermostCtx(i, contexts)
                 /\ b \in Nat
                 /\ Len(contexts[i]) =
                      IF Innermost.kind \in PushKinds THEN b + 1 ELSE b
                 /\ Innermost.kind = "callback" => Innermost.depth = b
  <2> DEFINE n == Len(frames) - 1
             i == Innermost.iso
             b == Pushes(frames, n, i)
  <2>1. /\ n \in Nat /\ n + 1 = Len(frames) /\ n + 1 \in DOMAIN frames
        /\ Innermost = frames[n + 1] /\ frames[n + 1] \in Frame
    BY <1>0, <1>10 DEF Innermost, Last
  <2>2. i \in Isolates
    BY <2>1 DEF Frame
  <2>3. Len(contexts[i]) = Pushes(frames, n + 1, i)
    BY <2>1, <2>2 DEF PushInv
  <2>4. Pushes(frames, n + 1, i) = IF Innermost.kind \in PushKinds THEN b + 1 ELSE b
    BY <2>1, PushesNext
  <2>5. b \in Nat
    BY <2>1, PushesFinite
  <2>6. Innermost.kind = "callback" => Innermost.depth = b
    <3>1. n + 1 - 1 = n
      BY <2>1
    <3> QED BY <2>1, <3>1 DEF PushInv
  <2> QED BY <1>0, <1>1, <1>10, <2>2, <2>3, <2>4, <2>5, <2>6
<1>11. ASSUME HandleScopeDestruct \/ DispatchReturn
       PROVE  PushInv' /\ currentCtx' = Innermost.outer
  <2> DEFINE n == Len(frames) - 1
             i == Innermost.iso
             b == Pushes(frames, n, i)
  <2>1. /\ frames # <<>> /\ MayUse(i) /\ frames' = Front(frames)
        /\ Innermost.kind \notin PushKinds
        /\ UNCHANGED <<live, contexts, currentCtx>>
    BY <1>11 DEF HandleScopeDestruct, DispatchReturn, Close, PushKinds
  <2>2. /\ i \in Isolates /\ contexts[i] \in Seq(Ctx) /\ DOMAIN contexts = Isolates
        /\ Len(contexts[i]) = b /\ currentCtx = InnermostCtx(i, contexts)
    BY <1>10, <2>1
  <2> HIDE DEF b
  <2>3. SubSeq(contexts[i], 1, b) = contexts[i]
    BY <2>2
  <2>4. contexts' = [contexts EXCEPT ![i] = SubSeq(contexts[i], 1, b)]
    BY <1>0, <2>1, <2>2, <2>3
  <2>5. PushInv' /\ InnermostCtx(i, contexts') = Innermost.outer
    BY <1>0, <2>1, <2>4, CloseKeepsPushes DEF b
  <2> QED BY <2>1, <2>2, <2>5
<1>12. ASSUME ContextExit
       PROVE  PushInv' /\ currentCtx' = Innermost.outer
  <2> DEFINE n == Len(frames) - 1
             i == Innermost.iso
             b == Pushes(frames, n, i)
  <2>1. /\ frames # <<>> /\ MayUse(i) /\ frames' = Front(frames)
        /\ Innermost.kind \in PushKinds /\ live' = live
    BY <1>12 DEF ContextExit, Close, PushKinds
  <2>2. /\ i \in Isolates /\ contexts[i] \in Seq(Ctx) /\ DOMAIN contexts = Isolates
        /\ Len(contexts[i]) = b + 1 /\ b \in Nat
        /\ CurrentIso = i /\ i # NoIso
    BY <1>10, <2>1
  <2>3. /\ contexts' = [contexts EXCEPT ![i] =
                          IF contexts[i] = <<>> THEN contexts[i] ELSE Front(contexts[i])]
        /\ currentCtx' = InnermostCtx(i, contexts')
    BY <1>12, <2>2 DEF ContextExit
  <2> HIDE DEF b
  <2>4. contexts[i] # <<>> /\ Front(contexts[i]) = SubSeq(contexts[i], 1, b)
    BY <2>2 DEF Front
  <2>5. contexts' = [contexts EXCEPT ![i] = SubSeq(contexts[i], 1, b)]
    BY <2>3, <2>4
  <2>6. PushInv' /\ InnermostCtx(i, contexts') = Innermost.outer
    BY <1>0, <2>1, <2>5, CloseKeepsPushes DEF b
  <2> QED BY <2>3, <2>6
<1>13. ASSUME CallbackReturn
       PROVE  PushInv' /\ currentCtx' = Innermost.outer
  <2> DEFINE n == Len(frames) - 1
             i == Innermost.iso
             b == Pushes(frames, n, i)
  <2>1. /\ frames # <<>> /\ MayUse(i) /\ frames' = Front(frames)
        /\ Innermost.kind \in PushKinds /\ live' = live
        /\ Innermost.kind = "callback"
        /\ contexts' = [contexts EXCEPT ![i] = Truncated(contexts[i], Innermost.depth)]
        /\ currentCtx' = InnermostCtx(i, contexts')
    BY <1>13 DEF CallbackReturn, Close, PushKinds
  <2>2. /\ i \in Isolates /\ contexts[i] \in Seq(Ctx) /\ DOMAIN contexts = Isolates
        /\ Len(contexts[i]) = b + 1 /\ b \in Nat /\ Innermost.depth = b
    BY <1>10, <2>1
  <2> HIDE DEF b
  <2>3. Truncated(contexts[i], b) = SubSeq(contexts[i], 1, b)
    BY <2>2 DEF Truncated
  <2>4. contexts' = [contexts EXCEPT ![i] = SubSeq(contexts[i], 1, b)]
    BY <2>1, <2>2, <2>3
  <2>5. PushInv' /\ InnermostCtx(i, contexts') = Innermost.outer
    BY <1>0, <2>1, <2>4, CloseKeepsPushes DEF b
  <2> QED BY <2>1, <2>5
<1>14. ASSUME frames' = frames PROVE ~ (Len(frames') < Len(frames))
  BY <1>0, <1>14
<1>15. ASSUME \E i \in Isolates : \/ IsolateNew(i) \/ IsolateEnter(i)
                                  \/ IsolateExit(i) \/ IsolateDispose(i)
                                  \/ HandleScopeConstruct(i) \/ ContextNew(i)
       PROVE  PushInv' /\ ~ (Len(frames') < Len(frames))
  BY <1>4, <1>5, <1>6, <1>14, <1>15 DEF IsolateEnter, IsolateExit, ContextNew
<1>16. ASSUME \E c \in Ctx : ContextEnter(c) \/ CallbackEnter(c) \/ DispatchEnter(c)
       PROVE  PushInv' /\ ~ (Len(frames') < Len(frames))
  BY <1>7, <1>8, <1>9, <1>16
<1>17. ASSUME HandleScopeDestruct \/ ContextExit \/ CallbackReturn \/ DispatchReturn
       PROVE  PushInv' /\ currentCtx' = Innermost.outer
  BY <1>11, <1>12, <1>13, <1>17
<1> QED BY <1>15, <1>16, <1>17 DEF IsolateStackNext

(* Under strict nesting, whatever is closed - a scope, a context, an       *)
(* interceptor callback, a native call - leaves current the context that   *)
(* was current when it was opened, whatever was entered, left, created and *)
(* disposed in between, although none of them saves that context:          *)
(* refresh_current_ctx finds it again on the isolate's own stack.          *)
THEOREM ClosingRestores ==
  ASSUME Strict
  PROVE  IsolateStackSpec => CloseRestoresContext
<1>1. IsolateStackInit => PushInv
  BY FS_EmptySet DEF IsolateStackInit, PushInv, Pushes, Pushing
<1>2. StrictInv /\ PushInv /\ [IsolateStackNext]_isoVars => PushInv'
  <2>1. ASSUME PushInv, UNCHANGED isoVars PROVE PushInv'
    BY <2>1 DEF isoVars, PushInv, Pushes, Pushing, InnermostAt
  <2> QED BY <2>1, PushStep
<1>3. StrictInv /\ PushInv /\ [IsolateStackNext]_isoVars
        => [Len(frames') < Len(frames) => currentCtx' = Innermost.outer]_isoVars
  BY PushStep
<1> QED BY <1>1, <1>2, <1>3, StrictInvHolds, PTL
        DEF IsolateStackSpec, CloseRestoresContext

-----------------------------------------------------------------------------
(* From here on ModuleCaches, whose steps are those of IsolateStack with   *)
(* the tables moved along.                                                 *)

(* MODULE_CACHE_STATES: tables of some isolates.                           *)
IsStore(s) ==
  /\ DOMAIN s \subseteq Isolates
  /\ s \in [DOMAIN s -> CacheState]

(* What the tables of isolate j are, when `tables` are those of `act` and  *)
(* the others are in `store`.                                              *)
TablesIn(act, tables, store, j) ==
  IF act = j THEN tables ELSE IF j \in DOMAIN store THEN store[j] ELSE EmptyCache

(* A fresh table set is one.                                               *)
LEMMA EmptyIsCacheState == EmptyCache \in CacheState
  BY DEF EmptyCache, CacheState

(* switch_module_caches moves tables and changes none: every isolate has   *)
(* after it the tables it had before, those of the isolate made current in *)
(* the thread-locals and the others in the map.                            *)
LEMMA SwitchKeepsTables ==
  ASSUME NEW act \in Isolates \cup {NoIso}, NEW tables \in CacheState,
         NEW store, IsStore(store), act \notin DOMAIN store,
         NEW i \in Isolates \cup {NoIso},
         SwitchFrom(act, tables, store, i)
  PROVE  /\ active' = i
         /\ cache' \in CacheState
         /\ IsStore(parked')
         /\ DOMAIN parked' \subseteq ((DOMAIN store \cup {act}) \ {i, NoIso})
         /\ \A j \in Isolates :
              TablesOf(j)' = TablesIn(act, tables, store, j)
         /\ i = NoIso => cache' \in {tables, EmptyCache}
         /\ i = NoIso /\ act # NoIso => cache' = EmptyCache
<1> USE IsolateStackAssumption, EmptyIsCacheState
<1> DEFINE kept == IF act = NoIso THEN store ELSE With(store, act, tables)
<1>1. /\ DOMAIN kept \subseteq Isolates
      /\ DOMAIN kept = IF act = NoIso THEN DOMAIN store
                       ELSE DOMAIN store \cup {act}
      /\ \A j \in DOMAIN kept :
           kept[j] = IF j = act THEN tables ELSE store[j]
      /\ \A j \in DOMAIN kept : kept[j] \in CacheState
  BY DEF With, IsStore
<1>2. /\ active' = i
      /\ i = act => cache' = tables /\ parked' = store
      /\ i # act => /\ cache' = IF i \in DOMAIN kept THEN kept[i] ELSE EmptyCache
                    /\ parked' = Without(kept, i)
  BY DEF SwitchFrom
<1> HIDE DEF kept
<1>3. CASE i = act
  BY <1>2, <1>3 DEF TablesOf, TablesIn, IsStore
<1>4. CASE i # act
  <2>1. /\ parked' = [j \in DOMAIN kept \ {i} |-> kept[j]]
        /\ cache' = IF i \in DOMAIN kept THEN kept[i] ELSE EmptyCache
    BY <1>2, <1>4 DEF Without, Restrict
  <2>2. cache' \in CacheState /\ IsStore(parked')
    BY <1>1, <2>1 DEF IsStore
  <2>3. DOMAIN parked' \subseteq ((DOMAIN store \cup {act}) \ {i, NoIso})
    BY <1>1, <2>1
  <2>4. ASSUME NEW j \in Isolates
        PROVE  TablesOf(j)' = TablesIn(act, tables, store, j)
    <3>1. CASE j = i
      BY <1>1, <1>2, <1>4, <2>1, <3>1 DEF TablesOf, TablesIn
    <3>2. CASE j # i
      BY <1>1, <1>2, <1>4, <2>1, <3>2 DEF TablesOf, TablesIn
    <3> QED BY <3>1, <3>2
  <2> QED BY <1>1, <1>2, <1>4, <2>1, <2>2, <2>3, <2>4
<1> QED BY <1>3, <1>4

-----------------------------------------------------------------------------
(* The inductive form of TablesInOnePlace and OwnEntriesOnly: what an      *)
(* isolate would see is stated through TablesOf, wherever its tables are.  *)
CachesInv ==
  /\ StackInv
  /\ cache \in CacheState
  /\ IsStore(parked)
  /\ TablesInOnePlace
  /\ \A j \in Isolates : TablesOf(j).entries \subseteq {<<j, born[j]>>}
  /\ active = NoIso => cache.entries = {}
  /\ born \in [Isolates -> Nat]

(* The facts about the tables every step starts from.                      *)
LEMMA CachesFacts ==
  ASSUME CachesInv
  PROVE  /\ active \in Isolates \cup {NoIso}
         /\ active = current
         /\ active \notin DOMAIN parked
         /\ DOMAIN parked \subseteq live
         /\ live \subseteq Isolates
         /\ \A j \in Isolates :
              TablesOf(j) = TablesIn(active, cache, parked, j)
         /\ \A j \in Isolates : TablesOf(j) \in CacheState
         /\ \A j \in Isolates \ live : TablesOf(j) = EmptyCache
<1> USE IsolateStackAssumption, EmptyIsCacheState
<1>1. /\ active \in live \cup {NoIso}
      /\ active = current
      /\ DOMAIN parked \subseteq live \ {active}
      /\ live \subseteq Isolates
      /\ parked \in [DOMAIN parked -> CacheState]
      /\ cache \in CacheState
  BY DEF CachesInv, StackInv, TablesInOnePlace, IsStore
<1> QED BY <1>1 DEF TablesOf, TablesIn

-----------------------------------------------------------------------------
(* What one step does to the tables of every isolate: the cases of the     *)
(* refinement, and what the invariant needs.                               *)
Kept == \A j \in Isolates : TablesOf(j)' = TablesOf(j)

Emptied(i) ==
  \A j \in Isolates : TablesOf(j)' = IF j = i THEN EmptyCache ELSE TablesOf(j)

Parking ==
  /\ cache' \in CacheState
  /\ IsStore(parked')
  /\ TablesInOnePlace'
  /\ active' = NoIso => cache'.entries = {}

(* New touches no table, and finds none at its address.                    *)
LEMMA NewStep ==
  ASSUME CachesInv, NEW i \in Isolates, New(i)
  PROVE  Kept /\ Parking /\ TablesOf(i) = EmptyCache /\ StackInv'
<1>1. i \notin live /\ live' = live \cup {i}
  BY DEF New, IsolateNew
<1>2. StackInv'
  BY StackInvStep DEF New, IsolateStackNext, CachesInv
<1>3. UNCHANGED <<active, cache, parked, current>>
  BY DEF New, IsolateNew
<1>4. Kept /\ Parking
  BY <1>1, <1>3 DEF Kept, Parking, TablesOf, CachesInv, TablesInOnePlace, IsStore
<1> QED BY <1>1, <1>2, <1>4, CachesFacts

(* Enter, Exit and HandleScope::CONSTRUCT move tables and change none.     *)
LEMMA MakeCurrentStep ==
  ASSUME CachesInv, MakeCurrent
  PROVE  Kept /\ Parking /\ StackInv' /\ live' = live
<1>1. IsolateStackNext /\ live' = live
  BY DEF MakeCurrent, IsolateStackNext, IsolateEnter, IsolateExit,
         HandleScopeConstruct
<1>2. StackInv'
  BY <1>1, StackInvStep DEF CachesInv
<1>3. current' \in live \cup {NoIso} /\ current' \in Isolates \cup {NoIso}
  BY <1>1, <1>2 DEF StackInv
<1>4. SwitchFrom(active, cache, parked, current')
  BY DEF MakeCurrent
<1>5. cache \in CacheState /\ IsStore(parked) /\ (active = NoIso => cache.entries = {})
  BY DEF CachesInv
<1>6. /\ active' = current'
      /\ cache' \in CacheState
      /\ IsStore(parked')
      /\ DOMAIN parked' \subseteq ((DOMAIN parked \cup {active}) \ {current', NoIso})
      /\ \A j \in Isolates :
           TablesOf(j)' = TablesIn(active, cache, parked, j)
      /\ current' = NoIso => cache' \in {cache, EmptyCache}
      /\ current' = NoIso /\ active # NoIso => cache' = EmptyCache
  BY <1>3, <1>4, <1>5, CachesFacts, SwitchKeepsTables
<1>7. Kept
  BY <1>6, CachesFacts DEF Kept
<1>8. TablesInOnePlace'
  <2>1. active \in live \cup {NoIso}
    BY CachesFacts DEF CachesInv, StackInv
  <2> QED BY <1>1, <1>6, <2>1, CachesFacts DEF TablesInOnePlace
<1>9. active' = NoIso => cache'.entries = {}
  BY <1>5, <1>6 DEF EmptyCache
<1> QED BY <1>1, <1>2, <1>6, <1>7, <1>8, <1>9 DEF Parking

(* Dispose drops the tables of its isolate, wherever they are, and no      *)
(* other's.                                                                *)
LEMMA DisposeStep ==
  ASSUME CachesInv, NEW i \in Isolates, Dispose(i)
  PROVE  /\ Emptied(i) /\ Parking /\ StackInv'
         /\ i \in live /\ live' = live \ {i}
<1> USE IsolateStackAssumption, EmptyIsCacheState
<1>1. IsolateDispose(i) /\ i \in live /\ live' = live \ {i}
  BY DEF Dispose, IsolateDispose
<1>2. StackInv'
  BY <1>1, StackInvStep DEF CachesInv, IsolateStackNext
<1>3. /\ current' \in (live \ {i}) \cup {NoIso}
      /\ current' \in Isolates \cup {NoIso}
  BY <1>1, <1>2 DEF StackInv
<1> DEFINE left == Without(parked, i)
           act == IF active = i THEN NoIso ELSE active
           tables == IF active = i THEN EmptyCache ELSE cache
<1>4. SwitchFrom(act, tables, left, current')
  BY DEF Dispose, DiscardAndSwitch
<1>5. cache \in CacheState /\ IsStore(parked) /\ (active = NoIso => cache.entries = {})
  BY DEF CachesInv
<1>6. /\ IsStore(left)
      /\ DOMAIN left = DOMAIN parked \ {i}
      /\ \A j \in DOMAIN left : left[j] = parked[j]
  BY <1>5 DEF IsStore, Without, Restrict
<1>7. /\ act \in (live \ {i}) \cup {NoIso} /\ act \in Isolates \cup {NoIso}
      /\ act \notin DOMAIN left
      /\ tables \in CacheState
      /\ act = NoIso => tables.entries = {}
  <2>1. active \in live \cup {NoIso}
    BY CachesFacts DEF CachesInv, StackInv
  <2> QED BY <1>5, <1>6, <2>1, CachesFacts DEF EmptyCache
<1>8. \A j \in Isolates :
        TablesIn(act, tables, left, j) = IF j = i THEN EmptyCache ELSE TablesOf(j)
  BY <1>6, <1>7, CachesFacts DEF TablesIn
<1> HIDE DEF left, act, tables
<1>9. /\ active' = current'
      /\ cache' \in CacheState
      /\ IsStore(parked')
      /\ DOMAIN parked' \subseteq ((DOMAIN left \cup {act}) \ {current', NoIso})
      /\ \A j \in Isolates : TablesOf(j)' = TablesIn(act, tables, left, j)
      /\ current' = NoIso => cache' \in {tables, EmptyCache}
      /\ current' = NoIso /\ act # NoIso => cache' = EmptyCache
  BY <1>3, <1>4, <1>6, <1>7, SwitchKeepsTables
<1>10. Emptied(i)
  BY <1>8, <1>9 DEF Emptied
<1>11. TablesInOnePlace'
  BY <1>1, <1>6, <1>7, <1>9, CachesFacts DEF TablesInOnePlace
<1>12. active' = NoIso => cache'.entries = {}
  BY <1>7, <1>9 DEF EmptyCache
<1> QED BY <1>1, <1>2, <1>9, <1>10, <1>11, <1>12 DEF Parking

(* Recording adds an entry of the current isolate to its own tables only.  *)
LEMMA RecordStep ==
  ASSUME CachesInv, NEW i \in Isolates, born[i] \in 0 .. Generations - 1,
         RecordEntry(i)
  PROVE  /\ Parking /\ UNCHANGED <<live, current, born>> /\ StackInv'
         /\ current = i
         /\ \A j \in Isolates :
              TablesOf(j).entries' = IF j = i
                                     THEN TablesOf(i).entries \cup {<<i, born[i]>>}
                                     ELSE TablesOf(j).entries
<1> USE IsolateStackAssumption
<1>1. /\ current = i /\ active = i
      /\ UNCHANGED <<live, isoStack, current, last, active, parked, born>>
      /\ cache' = [cache EXCEPT !.entries = @ \cup {<<i, born[i]>>}]
  BY CachesFacts DEF RecordEntry, isoVars
<1>2. cache \in CacheState /\ IsStore(parked) /\ TablesInOnePlace
  BY DEF CachesInv
<1>3. <<i, born[i]>> \in Entries
  BY DEF Entries
<1>4. cache' \in CacheState /\ cache'.entries = cache.entries \cup {<<i, born[i]>>}
  BY <1>1, <1>2, <1>3 DEF CacheState
<1>5. Parking
  BY <1>1, <1>2, <1>4 DEF Parking, TablesInOnePlace, IsStore
<1>6. StackInv'
  BY <1>1 DEF CachesInv, StackInv, IsStack
<1> QED BY <1>1, <1>4, <1>5, <1>6 DEF TablesOf

(* Starting and ending an evaluation change only a depth.                  *)
LEMMA EvaluateStep ==
  ASSUME CachesInv, EvaluateEnd \/ \E i \in Isolates : EvaluateStart(i)
  PROVE  /\ Parking /\ UNCHANGED <<live, current, born>> /\ StackInv'
         /\ \A j \in Isolates : TablesOf(j).entries' = TablesOf(j).entries
<1>1. UNCHANGED <<live, isoStack, current, last, active, parked, born>>
  BY DEF EvaluateStart, EvaluateEnd
<1>2. cache \in CacheState /\ IsStore(parked) /\ TablesInOnePlace
      /\ (active = NoIso => cache.entries = {})
  BY DEF CachesInv
<1>3. PICK d \in Nat : cache' = [cache EXCEPT !.evalDepth = d]
  <2>1. cache.evalDepth \in Nat
    BY <1>2 DEF CacheState
  <2>2. CASE EvaluateEnd
    BY <2>1, <2>2 DEF EvaluateEnd
  <2>3. CASE \E i \in Isolates : EvaluateStart(i)
    BY <2>1, <2>3 DEF EvaluateStart
  <2> QED BY <2>2, <2>3
<1>4. cache' \in CacheState /\ cache'.entries = cache.entries
  BY <1>2, <1>3 DEF CacheState
<1>5. Parking
  BY <1>1, <1>2, <1>4 DEF Parking, TablesInOnePlace, IsStore
<1>6. StackInv'
  BY <1>1 DEF CachesInv, StackInv, IsStack
<1> QED BY <1>1, <1>4, <1>5, <1>6 DEF TablesOf

-----------------------------------------------------------------------------
(* CachesInv together with the range of the history variable.              *)
FullInv ==
  /\ CachesInv
  /\ born \in [Isolates -> 0 .. Generations - 1]

(* Neither contexts nor callbacks change who is current.                   *)
LEMMA KeepCurrentStep ==
  ASSUME KeepCurrent
  PROVE  UNCHANGED <<live, isoStack, current, last, active, cache, parked, born>>
<1>1. UNCHANGED <<active, cache, parked, born>>
  BY DEF KeepCurrent, cacheVars
<1>2. ASSUME NEW i \in Isolates, ContextNew(i)
      PROVE  UNCHANGED <<live, isoStack, current, last>>
  BY <1>2 DEF ContextNew
<1>3. ASSUME NEW c \in Ctx, ContextEnter(c) \/ CallbackEnter(c) \/ DispatchEnter(c)
      PROVE  UNCHANGED <<live, isoStack, current, last>>
  BY <1>3 DEF ContextEnter, CallbackEnter, DispatchEnter
<1>4. ASSUME HandleScopeDestruct \/ ContextExit \/ CallbackReturn \/ DispatchReturn
      PROVE  UNCHANGED <<live, isoStack, current, last>>
  BY <1>4 DEF HandleScopeDestruct, ContextExit, CallbackReturn, DispatchReturn
<1> QED BY <1>1, <1>2, <1>3, <1>4 DEF KeepCurrent

(* No table of one isolate is ever seen by another, nor by a later one at  *)
(* its address: the step.                                                  *)
LEMMA FullInvStep ==
  ASSUME FullInv, Next
  PROVE  FullInv'
<1> USE IsolateStackAssumption, ModuleCachesAssumption
<1>0. /\ CachesInv
      /\ born \in [Isolates -> 0 .. Generations - 1]
      /\ \A j \in Isolates : TablesOf(j).entries \subseteq {<<j, born[j]>>}
  BY DEF FullInv, CachesInv
<1>1. ASSUME NEW i \in Isolates, New(i) PROVE FullInv'
  <2>1. Kept /\ Parking /\ TablesOf(i) = EmptyCache /\ StackInv'
    BY <1>0, <1>1, NewStep
  <2>2. born' = [born EXCEPT ![i] = (@ + 1) % Generations]
    BY <1>1 DEF New
  <2>3. (born[i] + 1) % Generations \in 0 .. Generations - 1
    BY <1>0
  <2>4. born' \in [Isolates -> 0 .. Generations - 1]
    BY <1>0, <2>2, <2>3
  <2>5. \A j \in Isolates : j # i => born'[j] = born[j]
    BY <1>0, <2>2
  <2>6. \A j \in Isolates : TablesOf(j).entries' \subseteq {<<j, born'[j]>>}
    BY <1>0, <2>1, <2>5 DEF Kept, EmptyCache
  <2> QED BY <2>1, <2>4, <2>6 DEF FullInv, CachesInv, Parking
<1>2. ASSUME MakeCurrent PROVE FullInv'
  <2>1. Kept /\ Parking /\ StackInv' /\ born' = born
    BY <1>0, <1>2, MakeCurrentStep DEF MakeCurrent
  <2>2. \A j \in Isolates : TablesOf(j).entries' \subseteq {<<j, born'[j]>>}
    BY <1>0, <2>1 DEF Kept
  <2> QED BY <1>0, <2>1, <2>2 DEF FullInv, CachesInv, Parking
<1>3. ASSUME NEW i \in Isolates, Dispose(i) PROVE FullInv'
  <2>1. Emptied(i) /\ Parking /\ StackInv' /\ born' = born
    BY <1>0, <1>3, DisposeStep DEF Dispose
  <2>2. \A j \in Isolates : TablesOf(j).entries' \subseteq {<<j, born'[j]>>}
    BY <1>0, <2>1 DEF Emptied, EmptyCache
  <2> QED BY <1>0, <2>1, <2>2 DEF FullInv, CachesInv, Parking
<1>4. ASSUME NEW i \in Isolates, RecordEntry(i) PROVE FullInv'
  <2>1. born[i] \in 0 .. Generations - 1
    BY <1>0
  <2>2. /\ Parking /\ StackInv' /\ born' = born
        /\ \A j \in Isolates :
             TablesOf(j).entries' = IF j = i
                                    THEN TablesOf(i).entries \cup {<<i, born[i]>>}
                                    ELSE TablesOf(j).entries
    BY <1>0, <1>4, <2>1, RecordStep
  <2>3. \A j \in Isolates : TablesOf(j).entries' \subseteq {<<j, born'[j]>>}
    BY <1>0, <2>2
  <2> QED BY <1>0, <2>2, <2>3 DEF FullInv, CachesInv, Parking
<1>5. ASSUME EvaluateEnd \/ \E i \in Isolates : EvaluateStart(i)
      PROVE  FullInv'
  <2>1. /\ Parking /\ StackInv' /\ born' = born
        /\ \A j \in Isolates : TablesOf(j).entries' = TablesOf(j).entries
    BY <1>0, <1>5, EvaluateStep
  <2>2. \A j \in Isolates : TablesOf(j).entries' \subseteq {<<j, born'[j]>>}
    BY <1>0, <2>1
  <2> QED BY <1>0, <2>1, <2>2 DEF FullInv, CachesInv, Parking
<1>6. ASSUME KeepCurrent PROVE FullInv'
  <2>1. UNCHANGED <<live, isoStack, current, last, active, cache, parked, born>>
    BY <1>6, KeepCurrentStep
  <2> QED BY <1>0, <2>1 DEF FullInv, CachesInv, StackInv, IsStack, IsStore,
             TablesInOnePlace, TablesOf
<1> QED BY <1>1, <1>2, <1>3, <1>4, <1>5, <1>6 DEF Next

(* FullInv holds initially.                                                *)
LEMMA FullInvInit == Init => FullInv
  BY IsolateStackAssumption, ModuleCachesAssumption
  DEF Init, IsolateStackInit, FullInv, CachesInv, StackInv, IsStack, IsStore,
      TablesInOnePlace, TablesOf, EmptyCache, CacheState

(* FullInv is an invariant.                                                *)
LEMMA FullInvAlways == Spec => []FullInv
<1>1. FullInv /\ [Next]_moduleVars => FullInv'
  <2>1. CASE UNCHANGED moduleVars
    BY <2>1 DEF moduleVars, FullInv, CachesInv, StackInv, IsStack, IsStore,
                TablesInOnePlace, TablesOf
  <2> QED BY <2>1, FullInvStep
<1> QED BY <1>1, FullInvInit, PTL DEF Spec

(* An evaluation opens a frame of its own and leaves the thread's isolates *)
(* and contexts alone; every other step is one of IsolateStack or none.    *)
LEMMA IsolateTypeStep ==
  ASSUME IsolateStackTypeOK, FullInv, Next
  PROVE  IsolateStackTypeOK'
<1> USE IsolateStackAssumption, ModuleCachesAssumption
<1>1. ASSUME IsolateStackNext PROVE IsolateStackTypeOK'
  BY <1>1, TypeStep
<1>2. ASSUME NEW i \in Isolates, RecordEntry(i) PROVE IsolateStackTypeOK'
  BY <1>2 DEF RecordEntry, isoVars, IsolateStackTypeOK
<1>3. ASSUME NEW i \in Isolates, EvaluateStart(i) PROVE IsolateStackTypeOK'
  <2> DEFINE f == [kind |-> "eval", iso |-> i, ctx |-> NoCtx,
                   depth |-> cache.evalDepth, outer |-> currentCtx]
  <2>1. cache.evalDepth \in Nat
    BY DEF FullInv, CachesInv, CacheState
  <2>2. f \in Frame
    BY <2>1 DEF IsolateStackTypeOK, Frame, FrameKinds
  <2>3. frames' = Append(frames, f)
    BY <1>3 DEF EvaluateStart, Open
  <2>4. UNCHANGED <<live, isoStack, current, last, currentCtx, handedOut, contexts>>
    BY <1>3 DEF EvaluateStart
  <2> HIDE DEF f
  <2> QED BY <2>2, <2>3, <2>4 DEF IsolateStackTypeOK
<1>4. ASSUME EvaluateEnd PROVE IsolateStackTypeOK'
  <2>1. /\ frames # <<>> /\ frames' = Front(frames)
        /\ UNCHANGED <<live, isoStack, current, last, currentCtx, handedOut, contexts>>
    BY <1>4 DEF EvaluateEnd, Close
  <2>2. frames' \in Seq(Frame)
    BY <2>1 DEF Front, IsolateStackTypeOK
  <2> QED BY <2>1, <2>2 DEF IsolateStackTypeOK
<1> QED BY <1>1, <1>2, <1>3, <1>4
        DEF Next, New, MakeCurrent, Dispose, KeepCurrent, IsolateStackNext

(* The tables always have the shape of the Rust types: no evaluation depth *)
(* below zero, no tables of an unknown isolate.                            *)
THEOREM CachesTypeCorrect == Spec => []TypeOK
<1> DEFINE Both == IsolateStackTypeOK /\ FullInv
<1>1. Init => Both
  <2>1. Init => IsolateStackTypeOK
    BY IsolateStackAssumption
    DEF Init, IsolateStackInit, IsolateStackTypeOK
  <2> QED BY <2>1, FullInvInit
<1>2. Both /\ [Next]_moduleVars => Both'
  <2>1. CASE Next
    BY <2>1, IsolateTypeStep, FullInvStep
  <2>2. CASE UNCHANGED moduleVars
    BY <2>2 DEF moduleVars, IsolateStackTypeOK, FullInv, CachesInv, StackInv,
                IsStack, IsStore, TablesInOnePlace, TablesOf
  <2> QED BY <2>1, <2>2
<1>3. Both => TypeOK
  BY CachesFacts DEF FullInv, CachesInv, IsStore, TypeOK
<1> QED BY <1>1, <1>2, <1>3, PTL DEF Spec

(* The tables of an isolate are in one place, and the map of parked tables *)
(* never keeps those of a disposed isolate (switch_module_caches,          *)
(* discard_module_caches).                                                 *)
THEOREM OnePlace == Spec => []TablesInOnePlace
<1>1. FullInv => TablesInOnePlace
  BY DEF FullInv, CachesInv
<1> QED BY <1>1, FullInvAlways, PTL

(* An isolate never sees an entry of another isolate of the thread, nor of *)
(* an earlier isolate at its address.                                      *)
THEOREM OwnEntries == Spec => []OwnEntriesOnly
<1>1. FullInv => OwnEntriesOnly
  BY CachesFacts DEF FullInv, CachesInv, OwnEntriesOnly, TablesIn
<1> QED BY <1>1, FullInvAlways, PTL

-----------------------------------------------------------------------------
(* The initial states map to initial states.                               *)
LEMMA PrivateInitial == Init => Private!PrivateInit
  BY DEF Init, IsolateStackInit, Private!PrivateInit, TablesOf, EmptyCache

(* Every step maps to a step of PrivateCaches or to a stutter.             *)
LEMMA PrivateStep ==
  ASSUME FullInv, Next
  PROVE  Private!PrivateNext \/ UNCHANGED Private!privateVars
<1> USE IsolateStackAssumption
<1>0. CachesInv /\ born \in [Isolates -> 0 .. Generations - 1]
  BY DEF FullInv
<1>1. ASSUME NEW i \in Isolates, New(i) PROVE Private!PrivateNext
  <2>1. Kept /\ TablesOf(i) = EmptyCache
    BY <1>0, <1>1, NewStep
  <2>2. i \notin live /\ live' = live \cup {i} /\ current' = current
    BY <1>1 DEF New, IsolateNew
  <2>3. Private!Create(i)
    BY <2>1, <2>2 DEF Private!Create, Kept, EmptyCache
  <2> QED BY <2>3 DEF Private!PrivateNext
<1>2. ASSUME MakeCurrent PROVE Private!PrivateNext
  <2>1. Kept /\ live' = live /\ StackInv'
    BY <1>0, <1>2, MakeCurrentStep
  <2>2. current' \in live \cup {NoIso} /\ current' \in Isolates \cup {NoIso}
    BY <2>1 DEF StackInv
  <2>3. Private!Switch(current')
    BY <2>1, <2>2 DEF Private!Switch, Kept
  <2> QED BY <2>2, <2>3 DEF Private!PrivateNext
<1>3. ASSUME NEW i \in Isolates, Dispose(i) PROVE Private!PrivateNext
  <2>1. Emptied(i) /\ StackInv' /\ i \in live /\ live' = live \ {i}
    BY <1>0, <1>3, DisposeStep
  <2>2. current' \in (live \ {i}) \cup {NoIso}
    BY <2>1 DEF StackInv
  <2>3. \A j \in Isolates :
          TablesOf(j).entries' = IF j = i THEN {} ELSE TablesOf(j).entries
    BY <2>1 DEF Emptied, EmptyCache
  <2>4. [j \in Isolates |-> TablesOf(j).entries'] =
          [[j \in Isolates |-> TablesOf(j).entries] EXCEPT ![i] = {}]
    BY <2>3
  <2>5. Private!Destroy(i)
    BY <2>1, <2>2, <2>4 DEF Private!Destroy
  <2> QED BY <2>5 DEF Private!PrivateNext
<1>4. ASSUME NEW i \in Isolates, RecordEntry(i) PROVE Private!PrivateNext
  <2>1. born[i] \in 0 .. Generations - 1
    BY <1>0
  <2>2. /\ UNCHANGED <<live, current>> /\ current = i
        /\ \A j \in Isolates :
             TablesOf(j).entries' = IF j = i
                                    THEN TablesOf(i).entries \cup {<<i, born[i]>>}
                                    ELSE TablesOf(j).entries
    BY <1>0, <1>4, <2>1, RecordStep
  <2>3. <<i, born[i]>> \in Entries
    BY <2>1 DEF Entries
  <2>4. Private!Record(<<i, born[i]>>)
    BY <2>2 DEF Private!Record
  <2> QED BY <2>3, <2>4 DEF Private!PrivateNext
<1>5. ASSUME EvaluateEnd \/ \E i \in Isolates : EvaluateStart(i)
      PROVE  UNCHANGED Private!privateVars
  BY <1>0, <1>5, EvaluateStep DEF Private!privateVars
<1>6. ASSUME KeepCurrent PROVE UNCHANGED Private!privateVars
  BY <1>6, KeepCurrentStep DEF TablesOf, Private!privateVars
<1> QED BY <1>1, <1>2, <1>3, <1>4, <1>5, <1>6 DEF Next

(* Every isolate has private caches: the thread-local tables swapped by    *)
(* set_current implement PrivateCaches.                                    *)
THEOREM Refinement == Spec => ImplementsPrivateCaches
<1>1. FullInv /\ [Next]_moduleVars => [Private!PrivateNext]_(Private!privateVars)
  <2>1. CASE UNCHANGED moduleVars
    BY <2>1 DEF moduleVars, TablesOf, Private!privateVars
  <2> QED BY <2>1, PrivateStep
<1> QED BY <1>1, PrivateInitial, FullInvAlways, PTL
        DEF Spec, ImplementsPrivateCaches, Private!PrivateSpec
=============================================================================
