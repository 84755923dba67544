-------------------------- MODULE TerminationProofs --------------------------
(***************************************************************************)
(* Proofs about Termination, for any number of threads, instances, frames  *)
(* and interrupts: the variables keep their shape; no request to terminate *)
(* or to go on is lost, whatever the inspector does meanwhile; threads     *)
(* terminate through the innermost call; and interrupts run once.          *)
(***************************************************************************)
EXTENDS Termination, FiniteSetTheorems, TLAPS

-----------------------------------------------------------------------------
(* Stacks.  A Suppression calls nothing, so it is only found on top.       *)
StackShape(s) ==
  /\ s \in Seq(Frames)
  /\ \A k \in 1 .. Len(s) - 1 : s[k].kind # "inspect"

(* A frame may be put on s.                                                *)
Open(s) == s = <<>> \/ s[Len(s)].kind # "inspect"

Withholds(f) == f.kind = "inspect" /\ f.restore

(* Suppressed, of any stack.                                               *)
Withheld(s) == \E k \in DOMAIN s : s[k].kind = "inspect" /\ s[k].restore

LEMMA SuppressedIsWithheld == Suppressed <=> Withheld(stack)
  BY DEF Suppressed, Withheld

(* What the kind of a frame says about it.                                 *)
LEMMA FrameKinds ==
  ASSUME NEW f \in Frames
  PROVE  /\ f.kind \in {"js", "native", "interrupts", "wasm", "inspect"}
         /\ f.kind = "interrupts" => f.ids \in Seq(Ids) /\ f.polls \in BOOLEAN
         /\ f.kind = "interrupts" =>
              f = [kind |-> "interrupts", ids |-> f.ids, polls |-> f.polls]
         /\ f.kind = "wasm" => f \in WasmCall
         /\ f.kind = "inspect" => f.restore \in BOOLEAN
<1>1. CASE f \in {Js, Native}
  BY <1>1 DEF Js, Native
<1>2. CASE f \in Batch
  BY <1>2 DEF Batch
<1>3. CASE f \in WasmCall
  BY <1>3 DEF WasmCall
<1>4. CASE f \in Suppression
  BY <1>4 DEF Suppression
<1> QED BY <1>1, <1>2, <1>3, <1>4 DEF Frames

(* Only a Suppression withholds a request.                                 *)
LEMMA PlainFrames ==
  /\ Js \in Frames /\ Js.kind = "js"
  /\ Native \in Frames /\ Native.kind = "native"
  BY DEF Frames, Js, Native

LEMMA FrontFacts ==
  ASSUME NEW S, NEW s \in Seq(S), s # <<>>
  PROVE  /\ Front(s) \in Seq(S)
         /\ Len(s) \in Nat \ {0}
         /\ Len(Front(s)) = Len(s) - 1
         /\ \A k \in 1 .. Len(s) - 1 : Front(s)[k] = s[k]
         /\ Last(s) = s[Len(s)]
         /\ Last(s) \in S
<1>1. Len(s) \in Nat \ {0} /\ DOMAIN s = 1 .. Len(s)
  OBVIOUS
<1>2. Last(s) = s[Len(s)] /\ Last(s) \in S
  BY <1>1 DEF Last
<1>3. \A k \in 1 .. Len(s) - 1 : s[k] \in S
  BY <1>1
<1>4. /\ Len(SubSeq(s, 1, Len(s) - 1)) = Len(s) - 1
      /\ SubSeq(s, 1, Len(s) - 1) \in Seq(S)
      /\ \A k \in 1 .. Len(s) - 1 : SubSeq(s, 1, Len(s) - 1)[k] = s[k]
  BY <1>1, <1>3
<1> QED BY <1>1, <1>2, <1>4 DEF Front

(* Pushing a frame.                                                        *)
LEMMA PushShape ==
  ASSUME NEW s, StackShape(s), Open(s), NEW f \in Frames
  PROVE  /\ StackShape(Append(s, f))
         /\ Append(s, f) # <<>>
         /\ Last(Append(s, f)) = f
         /\ f.kind # "inspect" => Open(Append(s, f))
         /\ Withheld(Append(s, f)) <=> Withheld(s) \/ Withholds(f)
<1> DEFINE t == Append(s, f)
<1>1. /\ s \in Seq(Frames) /\ t \in Seq(Frames)
      /\ Len(s) \in Nat /\ Len(t) = Len(s) + 1
      /\ DOMAIN s = 1 .. Len(s) /\ DOMAIN t = 1 .. Len(s) + 1
      /\ t[Len(s) + 1] = f
      /\ \A k \in 1 .. Len(s) : t[k] = s[k]
      /\ t # <<>>
  BY DEF StackShape
<1>2. \A k \in 1 .. Len(s) : s[k].kind # "inspect"
  <2>1. CASE s = <<>>
    BY <2>1, <1>1
  <2>2. CASE s # <<>>
    BY <2>2, <1>1 DEF StackShape, Open
  <2> QED BY <2>1, <2>2
<1>3. StackShape(t)
  <2> HIDE DEF t
  <2> QED BY <1>1, <1>2 DEF StackShape
<1>4. Last(t) = f
  <2> HIDE DEF t
  <2> QED BY <1>1 DEF Last
<1>5. f.kind # "inspect" => Open(t)
  <2> HIDE DEF t
  <2> QED BY <1>1 DEF Open
<1>6. Withheld(t) <=> Withheld(s) \/ Withholds(f)
  <2> HIDE DEF t
  <2> QED BY <1>1 DEF Withheld, Withholds
<1> QED BY <1>1, <1>3, <1>4, <1>5, <1>6

(* Popping a frame.                                                        *)
LEMMA PopShape ==
  ASSUME NEW s, StackShape(s), s # <<>>
  PROVE  /\ StackShape(Front(s))
         /\ Open(Front(s))
         /\ Front(s) # <<>> => Last(Front(s)) \in Frames
                               /\ Last(Front(s)).kind # "inspect"
         /\ Last(s) \in Frames
         /\ Withheld(s) <=> Withheld(Front(s)) \/ Withholds(Last(s))
<1> DEFINE t == Front(s)
<1>1. /\ s \in Seq(Frames) /\ t \in Seq(Frames)
      /\ Len(s) \in Nat \ {0} /\ Len(t) = Len(s) - 1
      /\ DOMAIN s = 1 .. Len(s) /\ DOMAIN t = 1 .. Len(s) - 1
      /\ \A k \in 1 .. Len(s) - 1 : t[k] = s[k]
      /\ Last(s) = s[Len(s)] /\ Last(s) \in Frames
  BY FrontFacts DEF StackShape
<1>2. StackShape(t)
  <2> HIDE DEF t
  <2> QED BY <1>1 DEF StackShape
<1>3. t # <<>> => /\ Len(t) \in 1 .. Len(s) - 1
                  /\ t[Len(t)] \in Frames
                  /\ t[Len(t)].kind # "inspect"
  <2> HIDE DEF t
  <2> QED BY <1>1 DEF StackShape
<1>4. Withheld(s) <=> Withheld(t) \/ Withholds(Last(s))
  <2> HIDE DEF t
  <2> QED BY <1>1 DEF Withheld, Withholds
<1> QED BY <1>1, <1>2, <1>3, <1>4 DEF Open, Last

(* Two frames are pushed one after the other.                              *)
LEMMA PushTwo ==
  ASSUME NEW S, NEW s \in Seq(S), NEW f \in S, NEW g \in S
  PROVE  s \o <<f, g>> = Append(Append(s, f), g)
  OBVIOUS

-----------------------------------------------------------------------------
(* The part of the invariant about what the isolate's thread runs, ...     *)
ControlInv ==
  /\ StackShape(stack)
  /\ thrown \in {"none", "uncatchable", "error"}
  /\ thrown # "none" => \E kind \in {"js", "wasm", "native"} : IsTop(kind)

(* ... and the part about the other variables.                             *)
DataInv ==
  /\ {terminating, requested} \subseteq BOOLEAN
  /\ pending \in Seq(Ids)
  /\ delivered \subseteq Ids
  /\ nextId \in 1 .. MaxInterrupts + 1
  /\ active \in Instances \cup {NoInstance}
  /\ exception \in [Instances -> BOOLEAN]
  /\ at \in [Requesters -> {"idle", "stored"} \cup Instances]

TypeInv == ControlInv /\ DataInv

(* A step of the thread leaves the inspector's request where it is.        *)
Keeps == Withheld(stack') <=> Withheld(stack)

LEMMA TypeInvImpliesTypeOK == TypeInv => TypeOK
  BY DEF TypeInv, ControlInv, DataInv, TypeOK, StackShape

(* A thread that runs code may call.                                       *)
LEMMA TopFacts ==
  ASSUME ControlInv, stack # <<>>
  PROVE  /\ Last(stack) \in Frames
         /\ Last(stack).kind # "inspect" => Open(stack)
                                            /\ ~ Withholds(Last(stack))
  BY PopShape DEF ControlInv, Open, Withholds, Last

(* A frame ends, with an exception or without.                             *)
LEMMA LeaveStep ==
  ASSUME ControlInv, stack # <<>>,
         NEW t \in {"none", "uncatchable", "error"}, Leave(t)
  PROVE  /\ ControlInv'
         /\ ~ Withholds(Last(stack)) => Keeps
<1> DEFINE below == Front(stack)
<1>1. /\ StackShape(below)
      /\ below # <<>> => Last(below) \in Frames /\ Last(below).kind # "inspect"
      /\ Withheld(stack) <=> Withheld(below) \/ Withholds(Last(stack))
  BY PopShape DEF ControlInv
<1>2. stack' = below /\ thrown' = Surfaced(below, t)
  BY DEF Leave
<1> HIDE DEF below
<1>3. thrown' \in {"none", "uncatchable", "error"}
  BY <1>2 DEF Surfaced
<1>4. ASSUME thrown' # "none"
      PROVE  \E kind \in {"js", "wasm", "native"} : IsTop(kind)'
  <2>1. below # <<>> /\ Last(below).kind # "interrupts"
    BY <1>2, <1>4 DEF Surfaced
  <2>2. Last(below).kind \in {"js", "native", "wasm"}
    BY <1>1, <2>1, FrameKinds
  <2> QED BY <1>2, <2>1, <2>2 DEF IsTop
<1>5. ControlInv'
  BY <1>1, <1>2, <1>3, <1>4 DEF ControlInv
<1>6. ~ Withholds(Last(stack)) => Keeps
  BY <1>1, <1>2 DEF Keeps
<1> QED BY <1>5, <1>6

(* A frame is called, while no exception is on its way.                    *)
LEMMA PushStep ==
  ASSUME ControlInv, Open(stack), thrown = "none", thrown' = thrown,
         NEW f \in Frames, Push(f)
  PROVE  /\ ControlInv'
         /\ Withheld(stack') <=> Withheld(stack) \/ Withholds(f)
<1>1. stack' = Append(stack, f)
  BY DEF Push
<1>2. /\ StackShape(stack')
      /\ Withheld(stack') <=> Withheld(stack) \/ Withholds(f)
  BY <1>1, PushShape DEF ControlInv
<1> QED BY <1>2 DEF ControlInv

(* The top frame goes on.                                                  *)
LEMMA ReplaceStep ==
  ASSUME ControlInv, stack # <<>>, Last(stack).kind # "inspect",
         thrown' = thrown, NEW f \in Frames, f.kind = Last(stack).kind,
         ReplaceTop(f)
  PROVE  ControlInv' /\ Keeps
<1>1. /\ StackShape(Front(stack)) /\ Open(Front(stack))
      /\ Withheld(stack) <=> Withheld(Front(stack)) \/ Withholds(Last(stack))
  BY PopShape DEF ControlInv
<1>2. stack' = Append(Front(stack), f)
  BY DEF ReplaceTop
<1>3. /\ StackShape(stack') /\ stack' # <<>> /\ Last(stack') = f
      /\ Withheld(stack') <=> Withheld(Front(stack)) \/ Withholds(f)
  BY <1>1, <1>2, PushShape
<1>4. ~ Withholds(f) /\ ~ Withholds(Last(stack))
  BY DEF Withholds
<1>5. \A kind : IsTop(kind)' <=> IsTop(kind)
  BY <1>3 DEF IsTop
<1> QED BY <1>1, <1>3, <1>4, <1>5 DEF ControlInv, Keeps

(* Two frames are called at once.                                          *)
LEMMA PushTwoStep ==
  ASSUME NEW s, StackShape(s), Open(s),
         NEW f \in Frames, f.kind # "inspect",
         NEW g \in Frames, g.kind # "inspect",
         stack' = s \o <<f, g>>
  PROVE  StackShape(stack') /\ (Withheld(stack') <=> Withheld(s))
<1>1. stack' = Append(Append(s, f), g)
  BY PushTwo DEF StackShape
<1>2. /\ StackShape(Append(s, f)) /\ Open(Append(s, f))
      /\ Withheld(Append(s, f)) <=> Withheld(s) \/ Withholds(f)
  BY PushShape
<1>3. /\ StackShape(stack')
      /\ Withheld(stack') <=> Withheld(Append(s, f)) \/ Withholds(g)
  BY <1>1, <1>2, PushShape
<1> QED BY <1>2, <1>3 DEF Withholds

(* The frames that are called.                                             *)
LEMMA CalledFrames ==
  ASSUME DataInv
  PROVE  /\ \A p \in BOOLEAN :
              [kind |-> "interrupts", ids |-> pending, polls |-> p] \in Frames
         /\ \A m \in Instances :
              [kind |-> "wasm", inst |-> m, previous |-> active,
               pc |-> "entry"] \in Frames
         /\ \A b \in BOOLEAN : [kind |-> "inspect", restore |-> b] \in Frames
  BY DEF DataInv, Frames, Batch, WasmCall, Suppression

-----------------------------------------------------------------------------
(* Steps that change neither the flag nor what the inspector keeps.        *)
PlainStep ==
  \/ \E r \in Requesters : RequestInterrupt(r) \/ ContinueRequest(r)
  \/ \E m \in Instances : CallExport(m)
  \/ CallFunction \/ EvaluateModule \/ ExecutePendingJob \/ RunScript
  \/ CallNative
  \/ ClearException \/ NativeReturns \/ JsReturns \/ JsThrows \/ Catch
  \/ Poll \/ CallImport \/ WasmReturns \/ WasmTraps
  \/ Unwind \/ RunInterrupt \/ InterruptsDone \/ WasmClear \/ WasmCheck

LEMMA PlainControl ==
  ASSUME TypeInv, PlainStep
  PROVE  ControlInv' /\ Keeps
<1> USE DEF TypeInv
<1>js. /\ Js \in Frames /\ ~ Withholds(Js)
       /\ Native \in Frames /\ ~ Withholds(Native)
  BY PlainFrames DEF Withholds
<1>js1. JsRuns => Open(stack) /\ thrown = "none" /\ stack # <<>>
                  /\ ~ Withholds(Last(stack))
  BY TopFacts DEF JsRuns, IsTop
<1>nat. NativeRuns => Open(stack) /\ thrown = "none"
  <2>1. stack # <<>> /\ IsTop("native") => Open(stack)
    BY TopFacts DEF IsTop
  <2>2. stack = <<>> => Open(stack) /\ thrown = "none"
    BY DEF Open, ControlInv, IsTop
  <2> QED BY <2>1, <2>2 DEF NativeRuns
<1>same. stack' = stack /\ thrown' = thrown => ControlInv' /\ Keeps
  BY DEF ControlInv, Keeps, IsTop
<1>1. ASSUME NEW r \in Requesters, RequestInterrupt(r) \/ ContinueRequest(r)
      PROVE  ControlInv' /\ Keeps
  BY <1>1, <1>same DEF RequestInterrupt, ContinueRequest, LoadActiveCall,
     MarkInstance
<1>2. ASSUME NEW m \in Instances, CallExport(m)
      PROVE  ControlInv' /\ Keeps
  <2> DEFINE f == [kind |-> "wasm", inst |-> m, previous |-> active,
                   pc |-> "entry"]
  <2>1. f \in Frames /\ ~ Withholds(f)
    BY CalledFrames DEF Withholds
  <2>2. JsRuns /\ Push(f) /\ thrown' = thrown
    BY <1>2 DEF CallExport
  <2> HIDE DEF f
  <2> QED BY <2>1, <2>2, <1>js1, PushStep DEF Keeps
<1>3. CASE CallFunction
  <2>1. CASE terminating
    <3>1. NativeRuns /\ stack' = stack /\ thrown' = Surfaced(stack, "uncatchable")
      BY <1>3, <2>1 DEF CallFunction
    <3>2. thrown' # "none" => IsTop("native")'
      BY <3>1 DEF Surfaced, NativeRuns, IsTop
    <3>3. thrown' \in {"none", "uncatchable", "error"}
      BY <3>1 DEF Surfaced
    <3> QED BY <3>1, <3>2, <3>3 DEF ControlInv, Keeps
  <2>2. CASE ~ terminating
    <3>1. NativeRuns /\ Push(Js) /\ thrown' = thrown
      BY <1>3, <2>2 DEF CallFunction
    <3> QED BY <3>1, <1>js, <1>nat, PushStep DEF Keeps
  <2> QED BY <2>1, <2>2
<1>4. CASE EvaluateModule \/ ExecutePendingJob
  <2>1. NativeRuns /\ Push(Js) /\ thrown' = thrown
    BY <1>4 DEF EvaluateModule, ExecutePendingJob
  <2> QED BY <2>1, <1>js, <1>nat, PushStep DEF Keeps
<1>5. CASE RunScript
  <2> DEFINE g == [kind |-> "interrupts", ids |-> pending, polls |-> FALSE]
  <2>1. g \in Frames /\ g.kind # "inspect"
    BY CalledFrames
  <2>2. /\ NativeRuns
        /\ stack' = stack \o <<Js, g>>
        /\ thrown' = thrown
    BY <1>5 DEF RunScript
  <2> HIDE DEF g
  <2>3. StackShape(stack') /\ Keeps
    BY <2>1, <2>2, <1>nat, PlainFrames, PushTwoStep DEF ControlInv, Keeps
  <2> QED BY <2>2, <2>3, <1>nat DEF ControlInv
<1>6. CASE CallNative
  <2>1. CASE terminating
    <3>1. JsRuns /\ stack' = stack /\ thrown' = "uncatchable"
      BY <1>6, <2>1 DEF CallNative
    <3> QED BY <3>1 DEF ControlInv, Keeps, JsRuns, IsTop
  <2>2. CASE ~ terminating
    <3>1. JsRuns /\ Push(Native) /\ thrown' = thrown
      BY <1>6, <2>2 DEF CallNative
    <3> QED BY <3>1, <1>js, <1>js1, PushStep DEF Keeps
  <2> QED BY <2>1, <2>2
<1>7. CASE ClearException \/ Catch
  BY <1>7 DEF ClearException, Catch, ControlInv, Keeps
<1>8. CASE NativeReturns
  <2>1. stack # <<>> /\ ~ Withholds(Last(stack)) /\ Leave(thrown)
    BY <1>8, TopFacts DEF NativeReturns, IsTop
  <2> QED BY <2>1, LeaveStep DEF ControlInv
<1>9. CASE JsReturns
  BY <1>9, <1>js1, LeaveStep DEF JsReturns
<1>10. CASE JsThrows
  BY <1>10 DEF JsThrows, JsRuns, IsTop, ControlInv, Keeps
<1>11. CASE Poll
  <2> DEFINE f == [kind |-> "interrupts", ids |-> pending, polls |-> TRUE]
  <2>1. f \in Frames /\ ~ Withholds(f)
    BY CalledFrames DEF Withholds
  <2>2. JsRuns /\ Push(f) /\ thrown' = thrown
    BY <1>11 DEF Poll
  <2> HIDE DEF f
  <2> QED BY <2>1, <2>2, <1>js1, PushStep DEF Keeps
<1>12. CASE CallImport
  <2>1. Open(stack) /\ thrown = "none" /\ Push(Js) /\ thrown' = thrown
    BY <1>12, TopFacts DEF CallImport, WasmRuns, IsTop
  <2> QED BY <2>1, <1>js, PushStep DEF Keeps
<1>13. CASE WasmReturns
  <2>1. stack # <<>> /\ ~ Withholds(Last(stack)) /\ Leave("none")
    BY <1>13, TopFacts DEF WasmReturns, WasmRuns, IsTop
  <2> QED BY <2>1, LeaveStep
<1>14. CASE WasmTraps
  <2> DEFINE t == IF terminating THEN "uncatchable"
                  ELSE IF thrown # "none" THEN thrown ELSE "error"
  <2>1. stack # <<>> /\ ~ Withholds(Last(stack)) /\ Leave(t)
    BY <1>14, TopFacts DEF WasmTraps, WasmRuns, IsTop
  <2>2. t \in {"none", "uncatchable", "error"}
    BY DEF ControlInv
  <2> HIDE DEF t
  <2> QED BY <2>1, <2>2, LeaveStep
<1>15. CASE Unwind
  <2>1. stack # <<>> /\ ~ Withholds(Last(stack)) /\ Leave(thrown)
    BY <1>15, TopFacts DEF Unwind, IsTop
  <2> QED BY <2>1, LeaveStep DEF ControlInv
<1>16. CASE RunInterrupt
  <2> DEFINE f == Last(stack)
             g == [f EXCEPT !.ids = Tail(@)]
  <2>1. /\ stack # <<>> /\ f.kind = "interrupts" /\ f.ids # <<>>
        /\ stack' = Front(stack) \o <<g, Native>>
        /\ thrown' = thrown
    BY <1>16 DEF RunInterrupt, IsTop
  <2>2. /\ f \in Frames /\ ~ Withholds(f)
        /\ StackShape(Front(stack)) /\ Open(Front(stack))
        /\ Withheld(stack) <=> Withheld(Front(stack)) \/ Withholds(f)
    BY <2>1, PopShape, TopFacts DEF ControlInv
  <2>3. /\ f.ids \in Seq(Ids) /\ f.polls \in BOOLEAN
        /\ f = [kind |-> "interrupts", ids |-> f.ids, polls |-> f.polls]
    <3> HIDE DEF f
    <3> QED BY <2>1, <2>2, FrameKinds
  <2>4. g = [kind |-> "interrupts", ids |-> Tail(f.ids), polls |-> f.polls]
    <3>1. ASSUME NEW a \in Seq(Ids), NEW b \in BOOLEAN, NEW c \in Seq(Ids)
          PROVE  [[kind |-> "interrupts", ids |-> a, polls |-> b] EXCEPT !.ids = c]
                   = [kind |-> "interrupts", ids |-> c, polls |-> b]
      OBVIOUS
    <3>2. Tail(f.ids) \in Seq(Ids)
      <4> HIDE DEF f
      <4> QED BY <2>1, <2>3
    <3>3. g = [[kind |-> "interrupts", ids |-> f.ids, polls |-> f.polls]
                 EXCEPT !.ids = Tail(f.ids)]
      <4> HIDE DEF f
      <4> QED BY <2>3
    <3> HIDE DEF f, g
    <3> QED BY <2>3, <3>1, <3>2, <3>3
  <2>5. g \in Frames /\ g.kind # "inspect"
    <3> HIDE DEF f
    <3>1. Tail(f.ids) \in Seq(Ids)
      BY <2>1, <2>3
    <3> QED BY <2>3, <2>4, <3>1 DEF Frames, Batch
  <2> HIDE DEF f, g
  <2>6. StackShape(stack') /\ Keeps
    BY <2>1, <2>2, <2>5, PlainFrames, PushTwoStep DEF Keeps
  <2>7. thrown = "none"
    BY <1>16 DEF RunInterrupt, ControlInv, IsTop
  <2> QED BY <2>1, <2>6, <2>7 DEF ControlInv
<1>17. CASE InterruptsDone
  <2>1. PICK t \in {"none", "uncatchable"} : Leave(t)
    BY <1>17 DEF InterruptsDone
  <2>2. stack # <<>> /\ ~ Withholds(Last(stack))
    BY <1>17, TopFacts DEF InterruptsDone, IsTop
  <2> QED BY <2>1, <2>2, LeaveStep
<1>18. CASE WasmClear \/ WasmCheck
  <2> DEFINE f == Last(stack)
  <2>1. PICK p \in {"check", "run"} :
          stack # <<>> /\ f.kind = "wasm" /\ thrown' = thrown
          /\ ReplaceTop([f EXCEPT !.pc = p])
    BY <1>18 DEF WasmClear, WasmCheck, IsTop
  <2>2. f \in WasmCall
    <3>1. f \in Frames
      BY <2>1, TopFacts
    <3> HIDE DEF f
    <3> QED BY <2>1, <3>1, FrameKinds
  <2>3. [f EXCEPT !.pc = p] \in Frames /\ [f EXCEPT !.pc = p].kind = f.kind
    <3> HIDE DEF f
    <3> QED BY <2>2 DEF Frames, WasmCall
  <2> QED BY <2>1, <2>3, ReplaceStep
<1> QED BY <1>1, <1>2, <1>3, <1>4, <1>5, <1>6, <1>7, <1>8, <1>9, <1>10, <1>11,
        <1>12, <1>13, <1>14, <1>15, <1>16, <1>17, <1>18 DEF PlainStep

(* The steps that do change them.                                          *)
FlagStep ==
  \/ \E r \in Requesters : TerminateExecution(r) \/ CancelTerminateExecution(r)
  \/ HeapExhausted \/ InspectorDispatch \/ InspectorRestore

LEMMA NextIsPlainOrFlag == Next <=> PlainStep \/ FlagStep
  BY DEF Next, Continue, PlainStep, FlagStep

LEMMA NativeCalls ==
  ASSUME TypeInv, NativeRuns
  PROVE  Open(stack) /\ thrown = "none"
<1>1. stack # <<>> /\ IsTop("native") => Open(stack)
  BY TopFacts DEF TypeInv, IsTop
<1>2. stack = <<>> => Open(stack) /\ thrown = "none"
  BY DEF TypeInv, Open, ControlInv, IsTop
<1> QED BY <1>1, <1>2 DEF NativeRuns

LEMMA DispatchPushes ==
  ASSUME TypeInv, InspectorDispatch
  PROVE  /\ ControlInv'
         /\ Withheld(stack') <=> Withheld(stack) \/ terminating
<1> DEFINE f == [kind |-> "inspect", restore |-> terminating]
<1>1. f \in Frames /\ (Withholds(f) <=> terminating)
  BY CalledFrames DEF TypeInv, DataInv, Withholds
<1>2. NativeRuns /\ Push(f) /\ thrown' = thrown
  BY DEF InspectorDispatch
<1> HIDE DEF f
<1> QED BY <1>1, <1>2, NativeCalls, PushStep DEF TypeInv

LEMMA RestorePops ==
  ASSUME TypeInv, InspectorRestore
  PROVE  /\ ControlInv'
         /\ Withheld(stack) <=> Withheld(stack') \/ Last(stack).restore
         /\ Last(stack).restore \in BOOLEAN
<1>1. /\ stack # <<>> /\ Last(stack).kind = "inspect"
      /\ stack' = Front(stack) /\ thrown' = thrown
  BY DEF InspectorRestore, IsTop
<1>2. /\ StackShape(stack') /\ Last(stack) \in Frames
      /\ Withheld(stack) <=> Withheld(stack') \/ Withholds(Last(stack))
  BY <1>1, PopShape DEF TypeInv, ControlInv
<1>3. thrown = "none"
  BY <1>1 DEF TypeInv, ControlInv, IsTop
<1>4. ControlInv'
  BY <1>1, <1>2, <1>3 DEF ControlInv
<1>5. Last(stack).restore \in BOOLEAN
  BY <1>1, <1>2, FrameKinds
<1> QED BY <1>1, <1>2, <1>4, <1>5 DEF Withholds

LEMMA FlagControl ==
  ASSUME TypeInv, FlagStep
  PROVE  ControlInv'
<1>1. CASE stack' = stack /\ thrown' = thrown
  BY <1>1 DEF TypeInv, ControlInv, IsTop
<1>2. CASE InspectorDispatch
  BY <1>2, DispatchPushes
<1>3. CASE InspectorRestore
  BY <1>3, RestorePops
<1> QED BY <1>1, <1>2, <1>3 DEF FlagStep, TerminateExecution,
        CancelTerminateExecution, HeapExhausted

-----------------------------------------------------------------------------
(* The call that ends gives active what its guard kept.                    *)
LEMMA WasmTop ==
  ASSUME TypeInv, IsTop("wasm")
  PROVE  /\ Last(stack).inst \in Instances
         /\ Last(stack).previous \in Instances \cup {NoInstance}
<1>1. stack # <<>> /\ Last(stack).kind = "wasm" /\ Last(stack) \in Frames
  BY TopFacts DEF TypeInv, IsTop
<1>2. Last(stack) \in WasmCall
  BY <1>1, FrameKinds
<1> QED BY <1>2 DEF WasmCall

LEMMA DataStep ==
  ASSUME TypeInv, Next
  PROVE  DataInv'
<1> USE TerminationAssumption DEF flagVars, interruptVars, wasmVars
<1>0. DataInv
  BY DEF TypeInv
<1>1. ASSUME NEW r \in Requesters,
             TerminateExecution(r) \/ CancelTerminateExecution(r)
      PROVE  DataInv'
  BY <1>0, <1>1 DEF DataInv, TerminateExecution, CancelTerminateExecution
<1>2. ASSUME NEW r \in Requesters, RequestInterrupt(r)
      PROVE  DataInv'
  <2>1. nextId \in Ids /\ nextId' = nextId + 1 /\ pending' = Append(pending, nextId)
    BY <1>0, <1>2 DEF DataInv, RequestInterrupt, Ids
  <2>2. pending' \in Seq(Ids) /\ nextId' \in 1 .. MaxInterrupts + 1
    BY <1>0, <2>1 DEF DataInv, Ids
  <2> QED BY <1>0, <1>2, <2>2 DEF DataInv, RequestInterrupt
<1>3. ASSUME NEW r \in Requesters, ContinueRequest(r)
      PROVE  DataInv'
  <2>1. CASE LoadActiveCall(r)
    BY <1>0, <2>1 DEF DataInv, LoadActiveCall
  <2>2. CASE MarkInstance(r)
    BY <1>0, <2>2 DEF DataInv, MarkInstance
  <2> QED BY <1>3, <2>1, <2>2 DEF ContinueRequest
<1>4. ASSUME NEW m \in Instances, CallExport(m)
      PROVE  DataInv'
  BY <1>0, <1>4 DEF DataInv, CallExport
<1>5. CASE \/ CallFunction \/ EvaluateModule \/ ExecutePendingJob \/ CallNative
           \/ ClearException \/ NativeReturns \/ JsReturns \/ JsThrows \/ Catch
           \/ CallImport \/ Unwind \/ InterruptsDone
  BY <1>0, <1>5 DEF DataInv, CallFunction, EvaluateModule,
     ExecutePendingJob, CallNative,
     ClearException, NativeReturns, JsReturns, JsThrows, Catch, CallImport,
     Unwind, InterruptsDone
<1>6. CASE RunScript \/ Poll
  <2>1. pending' = <<>>
    BY <1>6 DEF RunScript, Poll
  <2>2. pending' \in Seq(Ids)
    BY <2>1
  <2> QED BY <1>0, <1>6, <2>2 DEF DataInv, RunScript, Poll
<1>7. CASE HeapExhausted
  BY <1>0, <1>7 DEF DataInv, HeapExhausted
<1>8. CASE RunInterrupt
  <2> DEFINE f == Last(stack)
  <2>1. /\ stack # <<>> /\ f.kind = "interrupts" /\ f.ids # <<>>
        /\ delivered' = delivered \cup {Head(f.ids)}
    BY <1>8 DEF RunInterrupt, IsTop
  <2>2. f.ids \in Seq(Ids)
    <3>1. f \in Frames
      BY <2>1, TopFacts DEF TypeInv
    <3> HIDE DEF f
    <3> QED BY <2>1, <3>1, FrameKinds
  <2>3. Head(f.ids) \in Ids
    <3> HIDE DEF f
    <3> QED BY <2>1, <2>2
  <2> QED BY <1>0, <1>8, <2>1, <2>3 DEF DataInv, RunInterrupt
<1>9. CASE WasmClear \/ WasmCheck
  <2>1. PICK b \in BOOLEAN :
          exception' = [exception EXCEPT ![Last(stack).inst] = b]
    <3>1. CASE WasmClear
      BY <3>1 DEF WasmClear
    <3>2. CASE WasmCheck
      <4>1. exception' = [exception EXCEPT ![Last(stack).inst] =
                            exception[Last(stack).inst] \/ terminating]
        BY <3>2 DEF WasmCheck
      <4> QED BY <4>1
    <3> QED BY <1>9, <3>1, <3>2
  <2> QED BY <1>0, <1>9, <2>1 DEF DataInv, WasmClear, WasmCheck
<1>10. CASE WasmReturns \/ WasmTraps
  <2>1. active' \in Instances \cup {NoInstance}
    BY <1>10, WasmTop DEF WasmReturns, WasmTraps, WasmRuns
  <2> QED BY <1>0, <1>10, <2>1 DEF DataInv, WasmReturns, WasmTraps
<1>11. CASE InspectorDispatch
  BY <1>0, <1>11 DEF DataInv, InspectorDispatch
<1>12. CASE InspectorRestore
  BY <1>0, <1>12 DEF DataInv, InspectorRestore
<1> QED BY <1>1, <1>2, <1>3, <1>4, <1>5, <1>6, <1>7, <1>8, <1>9, <1>10, <1>11,
        <1>12 DEF Next, Continue

LEMMA TypeInvInit == Init => TypeInv
<1> SUFFICES ASSUME Init PROVE TypeInv
  OBVIOUS
<1>1. stack = <<>> /\ pending = <<>> /\ thrown = "none"
  BY DEF Init
<1>2. StackShape(stack)
  BY <1>1 DEF StackShape
<1>3. ControlInv
  BY <1>1, <1>2 DEF ControlInv
<1>4. pending \in Seq(Ids)
  BY <1>1
<1>5. /\ terminating \in BOOLEAN /\ requested \in BOOLEAN
      /\ delivered \subseteq Ids
      /\ active \in Instances \cup {NoInstance}
      /\ exception \in [Instances -> BOOLEAN]
      /\ at \in [Requesters -> {"idle", "stored"} \cup Instances]
  BY DEF Init
<1>6. nextId \in 1 .. MaxInterrupts + 1
  BY TerminationAssumption DEF Init
<1>7. DataInv
  BY <1>4, <1>5, <1>6 DEF DataInv
<1> QED BY <1>3, <1>7 DEF TypeInv

LEMMA TypeInvNext == TypeInv /\ [Next]_terminationVars => TypeInv'
<1>1. ASSUME TypeInv, Next PROVE TypeInv'
  BY <1>1, DataStep, NextIsPlainOrFlag, PlainControl, FlagControl DEF TypeInv
<1>2. ASSUME TypeInv, UNCHANGED terminationVars PROVE TypeInv'
  BY <1>2 DEF terminationVars, TypeInv, ControlInv, DataInv, IsTop
<1> QED BY <1>1, <1>2

(* Whatever threads, frames and instances there are, the variables keep    *)
(* their shape; in particular an exception is only under way where         *)
(* JavaScript, WebAssembly or dispatch will find it.                       *)
THEOREM TypeCorrect == Spec => []TypeOK
<1>1. Spec => []TypeInv
  BY TypeInvInit, TypeInvNext, PTL DEF Spec
<1> QED BY <1>1, TypeInvImpliesTypeOK, PTL

-----------------------------------------------------------------------------
(* Unless a termination is cancelled while the inspector keeps it to       *)
(* itself, the flag and what the inspector keeps are together exactly what *)
(* was asked for last.                                                     *)
THEOREM FlagFollowsRequestsAlways ==
  ASSUME "cancel_while_suppressed" \notin Events
  PROVE  Spec => []FlagFollowsRequests
<1> DEFINE Inv == requested <=> terminating \/ Withheld(stack)
<1>1. FlagFollowsRequests <=> Inv
  BY SuppressedIsWithheld DEF FlagFollowsRequests
<1>2. Init => Inv
  BY DEF Init, Withheld
<1>3. ASSUME TypeInv, Inv, Next PROVE Inv'
  <2>1. CASE PlainStep
    <3>1. UNCHANGED flagVars
      BY <2>1 DEF PlainStep, RequestInterrupt, ContinueRequest, LoadActiveCall,
         MarkInstance, CallExport, CallFunction, EvaluateModule,
         ExecutePendingJob, RunScript,
         CallNative, ClearException, NativeReturns, JsReturns, JsThrows, Catch,
         Poll, CallImport, WasmReturns, WasmTraps, Unwind, RunInterrupt,
         InterruptsDone, WasmClear, WasmCheck
    <3> QED BY <1>3, <2>1, <3>1, PlainControl DEF Keeps, flagVars
  <2>2. ASSUME NEW r \in Requesters, TerminateExecution(r) PROVE Inv'
    BY <2>2 DEF TerminateExecution
  <2>3. ASSUME NEW r \in Requesters, CancelTerminateExecution(r) PROVE Inv'
    BY <2>3, SuppressedIsWithheld DEF CancelTerminateExecution
  <2>4. CASE HeapExhausted
    BY <2>4 DEF HeapExhausted
  <2>5. CASE InspectorDispatch
    BY <1>3, <2>5, DispatchPushes DEF InspectorDispatch
  <2>6. CASE InspectorRestore
    <3>1. /\ requested' = requested
          /\ terminating' = (terminating \/ Last(stack).restore)
      BY <2>6 DEF InspectorRestore
    <3>2. Withheld(stack) <=> Withheld(stack') \/ Last(stack).restore
      BY <1>3, <2>6, RestorePops
    <3> QED BY <1>3, <3>1, <3>2
  <2> QED BY <1>3, <2>1, <2>2, <2>3, <2>4, <2>5, <2>6, NextIsPlainOrFlag
          DEF FlagStep
<1>4. ASSUME Inv, UNCHANGED terminationVars PROVE Inv'
  BY <1>4 DEF terminationVars
<1>5. TypeInv /\ Inv /\ [Next]_terminationVars => (TypeInv /\ Inv)'
  BY <1>3, <1>4, TypeInvNext
<1>6. Spec => [](TypeInv /\ Inv)
  <2> HIDE DEF Inv
  <2> QED BY <1>2, <1>5, TypeInvInit, PTL DEF Spec
<1> HIDE DEF Inv
<1> QED BY <1>1, <1>6, PTL

-----------------------------------------------------------------------------
(* m is the instance of the innermost call among the first n frames of s.  *)
InnermostOf(s, n, m) ==
  \/ m = NoInstance /\ \A k \in 1 .. n : s[k].kind # "wasm"
  \/ \E k \in 1 .. n : /\ s[k].kind = "wasm"
                       /\ s[k].inst = m
                       /\ \A j \in k + 1 .. n : s[j].kind # "wasm"

(* The calls of a stack are linked: what every guard restores is the       *)
(* innermost call below its own, and m is the innermost call of all.       *)
CallChain(s, m) ==
  /\ InnermostOf(s, Len(s), m)
  /\ \A k \in 1 .. Len(s) :
       s[k].kind = "wasm" => InnermostOf(s, k - 1, s[k].previous)

(* Stacks that agree on their first frames have the same innermost call.   *)
LEMMA InnermostAgrees ==
  ASSUME NEW s, NEW t, NEW n \in Nat, NEW m,
         \A k \in 1 .. n : t[k] = s[k], InnermostOf(s, n, m)
  PROVE  InnermostOf(t, n, m)
<1>1. CASE m = NoInstance /\ \A k \in 1 .. n : s[k].kind # "wasm"
  BY <1>1 DEF InnermostOf
<1>2. ASSUME NEW k \in 1 .. n, s[k].kind = "wasm", s[k].inst = m,
             \A j \in k + 1 .. n : s[j].kind # "wasm"
      PROVE  InnermostOf(t, n, m)
  <2>1. \A j \in k + 1 .. n : t[j].kind # "wasm"
    BY <1>2
  <2> QED BY <1>2, <2>1 DEF InnermostOf
<1> QED BY <1>1, <1>2 DEF InnermostOf

LEMMA AppendFrames ==
  ASSUME NEW s \in Seq(Frames), NEW f \in Frames
  PROVE  /\ Len(s) \in Nat
         /\ Len(Append(s, f)) = Len(s) + 1
         /\ \A k \in 1 .. Len(s) : Append(s, f)[k] = s[k]
         /\ Append(s, f)[Len(s) + 1] = f
  OBVIOUS

(* The links below a frame that is pushed stay.                            *)
LEMMA LinksBelow ==
  ASSUME NEW s, NEW t, NEW n \in Nat,
         \A k \in 1 .. n : t[k] = s[k],
         \A k \in 1 .. n :
           s[k].kind = "wasm" => InnermostOf(s, k - 1, s[k].previous)
  PROVE  \A k \in 1 .. n :
           t[k].kind = "wasm" => InnermostOf(t, k - 1, t[k].previous)
<1> TAKE k \in 1 .. n
<1> HAVE t[k].kind = "wasm"
<1>1. k - 1 \in Nat /\ \A j \in 1 .. k - 1 : t[j] = s[j]
  OBVIOUS
<1>2. InnermostOf(s, k - 1, s[k].previous)
  OBVIOUS
<1>3. InnermostOf(t, k - 1, s[k].previous)
  BY <1>1, <1>2, InnermostAgrees
<1> QED BY <1>3

(* A frame of another kind is put on a chain.                              *)
LEMMA PushOther ==
  ASSUME NEW s \in Seq(Frames), NEW f \in Frames, NEW m,
         CallChain(s, m), f.kind # "wasm"
  PROVE  CallChain(Append(s, f), m)
<1> DEFINE t == Append(s, f)
           n == Len(s)
<1>1. /\ n \in Nat /\ Len(t) = n + 1 /\ t[n + 1] = f
      /\ \A k \in 1 .. n : t[k] = s[k]
  BY AppendFrames
<1> HIDE DEF t
<1>2. InnermostOf(t, n, m)
  BY <1>1, InnermostAgrees DEF CallChain
<1>3. InnermostOf(t, n + 1, m)
  <2>1. CASE m = NoInstance /\ \A k \in 1 .. n : t[k].kind # "wasm"
    <3>1. \A k \in 1 .. n + 1 : t[k].kind # "wasm"
      BY <2>1, <1>1
    <3> QED BY <2>1, <3>1 DEF InnermostOf
  <2>2. ASSUME NEW k \in 1 .. n, t[k].kind = "wasm", t[k].inst = m,
               \A j \in k + 1 .. n : t[j].kind # "wasm"
        PROVE  InnermostOf(t, n + 1, m)
    <3>1. k \in 1 .. n + 1 /\ \A j \in k + 1 .. n + 1 : t[j].kind # "wasm"
      BY <2>2, <1>1
    <3> QED BY <2>2, <3>1 DEF InnermostOf
  <2> QED BY <1>2, <2>1, <2>2 DEF InnermostOf
<1>4. \A k \in 1 .. n :
        t[k].kind = "wasm" => InnermostOf(t, k - 1, t[k].previous)
  BY <1>1, LinksBelow DEF CallChain
<1>5. \A k \in 1 .. n + 1 :
        t[k].kind = "wasm" => InnermostOf(t, k - 1, t[k].previous)
  BY <1>1, <1>4
<1>6. CallChain(t, m)
  BY <1>1, <1>3, <1>5 DEF CallChain
<1> QED BY <1>6 DEF t

(* A call whose guard keeps the innermost one is put on a chain.           *)
LEMMA PushCall ==
  ASSUME NEW s \in Seq(Frames), NEW f \in Frames,
         CallChain(s, f.previous), f.kind = "wasm"
  PROVE  CallChain(Append(s, f), f.inst)
<1> DEFINE t == Append(s, f)
           n == Len(s)
<1>1. /\ n \in Nat /\ Len(t) = n + 1 /\ t[n + 1] = f
      /\ \A k \in 1 .. n : t[k] = s[k]
  BY AppendFrames
<1> HIDE DEF t
<1>2. InnermostOf(t, n, f.previous)
  BY <1>1, InnermostAgrees DEF CallChain
<1>3. InnermostOf(t, n + 1, f.inst)
  <2>1. n + 1 \in 1 .. n + 1 /\ \A j \in n + 1 + 1 .. n + 1 : t[j].kind # "wasm"
    BY <1>1
  <2> QED BY <2>1, <1>1 DEF InnermostOf
<1>4. \A k \in 1 .. n :
        t[k].kind = "wasm" => InnermostOf(t, k - 1, t[k].previous)
  BY <1>1, LinksBelow DEF CallChain
<1>5. \A k \in 1 .. n + 1 :
        t[k].kind = "wasm" => InnermostOf(t, k - 1, t[k].previous)
  <2> TAKE k \in 1 .. n + 1
  <2>1. CASE k = n + 1
    <3>1. k - 1 = n
      BY <1>1, <2>1
    <3> QED BY <1>1, <1>2, <2>1, <3>1
  <2>2. CASE k # n + 1
    BY <1>1, <1>4, <2>2
  <2> QED BY <2>1, <2>2
<1>6. CallChain(t, f.inst)
  BY <1>1, <1>3, <1>5 DEF CallChain
<1> QED BY <1>6 DEF t

(* The frame on top of a chain ends: a call gives back what its guard      *)
(* keeps, and any other frame leaves the innermost call as it is.          *)
LEMMA PopChain ==
  ASSUME NEW s \in Seq(Frames), s # <<>>, NEW m, CallChain(s, m)
  PROVE  /\ Front(s) \in Seq(Frames)
         /\ Last(s).kind # "wasm" => CallChain(Front(s), m)
         /\ Last(s).kind = "wasm" => /\ m = Last(s).inst
                                     /\ CallChain(Front(s), Last(s).previous)
<1> DEFINE t == Front(s)
           n == Len(t)
<1>1. /\ t \in Seq(Frames) /\ Len(s) \in Nat /\ n \in Nat /\ Len(s) = n + 1
      /\ \A k \in 1 .. n : t[k] = s[k]
      /\ Last(s) = s[n + 1]
  BY FrontFacts
<1> HIDE DEF t
<1>2. \A k \in 1 .. n :
        t[k].kind = "wasm" => InnermostOf(t, k - 1, t[k].previous)
  <2>1. \A k \in 1 .. n :
          s[k].kind = "wasm" => InnermostOf(s, k - 1, s[k].previous)
    BY <1>1 DEF CallChain
  <2> QED BY <1>1, <2>1, LinksBelow
<1>3. InnermostOf(s, n + 1, m)
  BY <1>1 DEF CallChain
<1>4. ASSUME s[n + 1].kind # "wasm" PROVE CallChain(t, m)
  <2>1. InnermostOf(s, n, m)
    <3>1. CASE m = NoInstance /\ \A k \in 1 .. n + 1 : s[k].kind # "wasm"
      <4>1. \A k \in 1 .. n : s[k].kind # "wasm"
        BY <3>1, <1>1
      <4> QED BY <3>1, <4>1 DEF InnermostOf
    <3>2. ASSUME NEW k \in 1 .. n + 1, s[k].kind = "wasm", s[k].inst = m,
                 \A j \in k + 1 .. n + 1 : s[j].kind # "wasm"
          PROVE  InnermostOf(s, n, m)
      <4>1. k \in 1 .. n /\ \A j \in k + 1 .. n : s[j].kind # "wasm"
        BY <3>2, <1>1, <1>4
      <4> QED BY <3>2, <4>1 DEF InnermostOf
    <3> QED BY <1>3, <3>1, <3>2 DEF InnermostOf
  <2>2. InnermostOf(t, n, m)
    BY <1>1, <2>1, InnermostAgrees
  <2> QED BY <1>2, <2>2 DEF CallChain
<1>5. ASSUME s[n + 1].kind = "wasm"
      PROVE  m = s[n + 1].inst /\ CallChain(t, s[n + 1].previous)
  <2>1. m = s[n + 1].inst
    <3>1. n + 1 \in 1 .. n + 1
      BY <1>1
    <3>2. \A k \in 1 .. n + 1 :
            (\A j \in k + 1 .. n + 1 : s[j].kind # "wasm") => k = n + 1
      BY <1>1, <1>5
    <3> QED BY <1>3, <1>5, <3>1, <3>2 DEF InnermostOf
  <2>2. InnermostOf(s, n, s[n + 1].previous)
    <3>1. n + 1 \in 1 .. Len(s) /\ (n + 1) - 1 = n
      BY <1>1
    <3>2. InnermostOf(s, (n + 1) - 1, s[n + 1].previous)
      BY <1>5, <3>1 DEF CallChain
    <3> QED BY <3>1, <3>2
  <2>3. InnermostOf(t, n, s[n + 1].previous)
    BY <1>1, <2>2, InnermostAgrees
  <2> QED BY <1>2, <2>1, <2>3 DEF CallChain
<1> QED BY <1>1, <1>4, <1>5 DEF t

(* The innermost call of the whole stack is the one with the largest index. *)
LEMMA ChainGivesInnermost ==
  ASSUME stack \in Seq(Frames), CallChain(stack, active)
  PROVE  ActiveIsInnermostCall
<1>1. /\ DOMAIN stack = 1 .. Len(stack) /\ Len(stack) \in Nat
      /\ WasmFrames = { k \in 1 .. Len(stack) : stack[k].kind = "wasm" }
  BY DEF WasmFrames
<1>2. CASE active = NoInstance /\ \A k \in 1 .. Len(stack) : stack[k].kind # "wasm"
  <2>1. WasmFrames = {}
    BY <1>1, <1>2
  <2> QED BY <1>2, <2>1 DEF ActiveIsInnermostCall
<1>3. ASSUME NEW n \in 1 .. Len(stack), stack[n].kind = "wasm",
             stack[n].inst = active,
             \A j \in n + 1 .. Len(stack) : stack[j].kind # "wasm"
      PROVE  ActiveIsInnermostCall
  <2>1. n \in WasmFrames /\ \A j \in WasmFrames : j <= n
    BY <1>1, <1>3
  <2> DEFINE top == CHOOSE k \in WasmFrames : \A j \in WasmFrames : j <= k
  <2>2. top \in WasmFrames /\ \A j \in WasmFrames : j <= top
    BY <2>1
  <2>3. top = n
    <3> HIDE DEF top
    <3> QED BY <1>1, <2>1, <2>2
  <2>4. WasmFrames # {}
    BY <2>1
  <2>5. active = stack[top].inst => ActiveIsInnermostCall
    BY <2>4, Zenon DEF ActiveIsInnermostCall
  <2> HIDE DEF top
  <2> QED BY <1>3, <2>3, <2>5
<1> QED BY <1>2, <1>3 DEF CallChain, InnermostOf

(* The innermost call, when nothing but the frame on top changes.          *)
LEMMA ChainStepPush ==
  ASSUME TypeInv, CallChain(stack, active),
         NEW f \in Frames, f.kind # "wasm", Push(f), active' = active
  PROVE  CallChain(stack', active')
<1>1. stack \in Seq(Frames) /\ stack' = Append(stack, f)
  BY DEF TypeInv, ControlInv, StackShape, Push
<1>2. CallChain(Append(stack, f), active)
  BY <1>1, PushOther
<1> QED BY <1>1, <1>2

LEMMA ChainStepPop ==
  ASSUME TypeInv, CallChain(stack, active), stack # <<>>,
         stack' = Front(stack),
         active' = IF Last(stack).kind = "wasm" THEN Last(stack).previous
                   ELSE active
  PROVE  CallChain(stack', active')
<1>1. stack \in Seq(Frames)
  BY DEF TypeInv, ControlInv, StackShape
<1>2. /\ Last(stack).kind # "wasm" => CallChain(Front(stack), active)
      /\ Last(stack).kind = "wasm" =>
           CallChain(Front(stack), Last(stack).previous)
  BY <1>1, PopChain
<1> QED BY <1>2

(* The frames that RunScript and RunInterrupt leave on the stack.          *)
LEMMA ScriptFrame ==
  ASSUME TypeInv
  PROVE  [kind |-> "interrupts", ids |-> pending, polls |-> FALSE] \in Frames
  BY CalledFrames DEF TypeInv

LEMMA InterruptFrame ==
  ASSUME TypeInv, RunInterrupt
  PROVE  /\ stack # <<>> /\ Last(stack).kind = "interrupts"
         /\ Last(stack).ids \in Seq(Ids) /\ Last(stack).ids # <<>>
         /\ \E g \in Frames : /\ g.kind = "interrupts"
                              /\ g.ids = Tail(Last(stack).ids)
                              /\ stack' = Append(Append(Front(stack), g), Native)
<1> DEFINE f == Last(stack)
           g == [f EXCEPT !.ids = Tail(@)]
<1>1. /\ stack # <<>> /\ f.kind = "interrupts" /\ f.ids # <<>>
      /\ stack' = Front(stack) \o <<g, Native>>
  BY DEF RunInterrupt, IsTop
<1>2. f \in Frames
  BY <1>1, TopFacts DEF TypeInv
<1>3. /\ f.ids \in Seq(Ids) /\ f.polls \in BOOLEAN
      /\ f = [kind |-> "interrupts", ids |-> f.ids, polls |-> f.polls]
  <2> HIDE DEF f
  <2> QED BY <1>1, <1>2, FrameKinds
<1>4. Tail(f.ids) \in Seq(Ids)
  <2> HIDE DEF f
  <2> QED BY <1>1, <1>3
<1>5. g = [kind |-> "interrupts", ids |-> Tail(f.ids), polls |-> f.polls]
  <2>1. ASSUME NEW a \in Seq(Ids), NEW b \in BOOLEAN, NEW c \in Seq(Ids)
        PROVE  [[kind |-> "interrupts", ids |-> a, polls |-> b] EXCEPT !.ids = c]
                 = [kind |-> "interrupts", ids |-> c, polls |-> b]
    OBVIOUS
  <2>2. g = [[kind |-> "interrupts", ids |-> f.ids, polls |-> f.polls]
               EXCEPT !.ids = Tail(f.ids)]
    <3> HIDE DEF f
    <3> QED BY <1>3
  <2> HIDE DEF f, g
  <2> QED BY <1>3, <1>4, <2>1, <2>2
<1>6. g \in Frames /\ g.kind = "interrupts" /\ g.ids = Tail(f.ids)
  <2> HIDE DEF f
  <2> QED BY <1>3, <1>4, <1>5 DEF Frames, Batch
<1>7. Front(stack) \in Seq(Frames)
  BY <1>1, FrontFacts DEF TypeInv, ControlInv, StackShape
<1>8. stack' = Append(Append(Front(stack), g), Native)
  <2> HIDE DEF g
  <2> QED BY <1>1, <1>6, <1>7, PlainFrames, PushTwo
<1> HIDE DEF g
<1> QED BY <1>1, <1>3, <1>6, <1>8

(* The calls stay linked.                                                  *)
LEMMA ChainNext ==
  ASSUME TypeInv, CallChain(stack, active), Next
  PROVE  CallChain(stack', active')
<1>js. Js \in Frames /\ Js.kind # "wasm" /\ Native \in Frames
       /\ Native.kind # "wasm"
  BY PlainFrames
<1>s. stack \in Seq(Frames)
  BY DEF TypeInv, ControlInv, StackShape
<1>same. stack' = stack /\ active' = active => CallChain(stack', active')
  OBVIOUS
<1>1. CASE \/ \E r \in Requesters : \/ TerminateExecution(r)
                                    \/ CancelTerminateExecution(r)
                                    \/ RequestInterrupt(r)
                                    \/ ContinueRequest(r)
           \/ ClearException \/ JsThrows \/ Catch \/ HeapExhausted
  <2>1. stack' = stack /\ active' = active
    BY <1>1 DEF TerminateExecution, CancelTerminateExecution, RequestInterrupt,
       ContinueRequest, LoadActiveCall, MarkInstance, ClearException, JsThrows,
       Catch, HeapExhausted, wasmVars
  <2> QED BY <2>1, <1>same
<1>2. CASE CallFunction \/ EvaluateModule \/ ExecutePendingJob \/ CallNative
           \/ CallImport
  <2>1. active' = active /\ (stack' = stack \/ Push(Js) \/ Push(Native))
    BY <1>2 DEF CallFunction, EvaluateModule, ExecutePendingJob, CallNative,
       CallImport, wasmVars
  <2> QED BY <2>1, <1>js, <1>same, ChainStepPush
<1>3. ASSUME NEW m \in Instances, CallExport(m)
      PROVE  CallChain(stack', active')
  <2> DEFINE f == [kind |-> "wasm", inst |-> m, previous |-> active,
                   pc |-> "entry"]
  <2>1. f \in Frames /\ f.kind = "wasm" /\ f.previous = active /\ f.inst = m
    BY CalledFrames DEF TypeInv
  <2>2. stack' = Append(stack, f) /\ active' = m
    BY <1>3 DEF CallExport, Push
  <2> HIDE DEF f
  <2>3. CallChain(Append(stack, f), m)
    BY <1>s, <2>1, PushCall
  <2> QED BY <2>2, <2>3
<1>4. CASE RunScript
  <2> DEFINE g == [kind |-> "interrupts", ids |-> pending, polls |-> FALSE]
  <2>1. g \in Frames /\ g.kind # "wasm"
    BY ScriptFrame
  <2>2. stack' = stack \o <<Js, g>> /\ active' = active
    BY <1>4 DEF RunScript, wasmVars
  <2> HIDE DEF g
  <2>3. stack' = Append(Append(stack, Js), g)
    BY <1>s, <1>js, <2>1, <2>2, PushTwo
  <2>4. Append(stack, Js) \in Seq(Frames) /\ CallChain(Append(stack, Js), active)
    BY <1>s, <1>js, PushOther
  <2>5. CallChain(Append(Append(stack, Js), g), active)
    BY <2>1, <2>4, PushOther
  <2> QED BY <2>2, <2>3, <2>5
<1>5. CASE Poll
  <2> DEFINE f == [kind |-> "interrupts", ids |-> pending, polls |-> TRUE]
  <2>1. f \in Frames /\ f.kind # "wasm"
    BY CalledFrames DEF TypeInv
  <2>2. Push(f) /\ active' = active
    BY <1>5 DEF Poll, wasmVars
  <2> HIDE DEF f
  <2> QED BY <2>1, <2>2, ChainStepPush
<1>6. CASE InspectorDispatch
  <2> DEFINE f == [kind |-> "inspect", restore |-> terminating]
  <2>1. f \in Frames /\ f.kind # "wasm"
    BY CalledFrames DEF TypeInv, DataInv
  <2>2. Push(f) /\ active' = active
    BY <1>6 DEF InspectorDispatch, wasmVars
  <2> HIDE DEF f
  <2> QED BY <2>1, <2>2, ChainStepPush
<1>7. CASE \/ NativeReturns \/ JsReturns \/ Unwind \/ InterruptsDone
           \/ InspectorRestore
  <2>1. /\ stack # <<>> /\ Last(stack).kind # "wasm"
        /\ stack' = Front(stack) /\ active' = active
    BY <1>7 DEF NativeReturns, JsReturns, JsRuns, Unwind, InterruptsDone,
       InspectorRestore, IsTop, Leave, wasmVars
  <2> QED BY <2>1, ChainStepPop
<1>8. CASE WasmReturns \/ WasmTraps
  <2>1. /\ stack # <<>> /\ Last(stack).kind = "wasm"
        /\ stack' = Front(stack) /\ active' = Last(stack).previous
    BY <1>8 DEF WasmReturns, WasmTraps, WasmRuns, IsTop, Leave
  <2> QED BY <2>1, ChainStepPop
<1>9. CASE WasmClear \/ WasmCheck
  <2>1. PICK p \in {"check", "run"} :
          /\ stack # <<>> /\ Last(stack).kind = "wasm" /\ active' = active
          /\ stack' = Append(Front(stack), [Last(stack) EXCEPT !.pc = p])
    BY <1>9 DEF WasmClear, WasmCheck, IsTop, ReplaceTop, wasmVars
  <2> DEFINE f == [Last(stack) EXCEPT !.pc = p]
  <2>2. Last(stack) \in WasmCall
    BY <2>1, TopFacts, FrameKinds DEF TypeInv
  <2>3. /\ f \in Frames /\ f.kind = "wasm" /\ f.inst = Last(stack).inst
        /\ f.previous = Last(stack).previous
    <3>1. ASSUME NEW w \in WasmCall
          PROVE  LET g == [w EXCEPT !.pc = p]
                 IN /\ g \in WasmCall /\ g.kind = "wasm" /\ g.inst = w.inst
                    /\ g.previous = w.previous
      BY DEF WasmCall
    <3> QED BY <2>2, <3>1 DEF Frames
  <2> HIDE DEF f
  <2>4. /\ Front(stack) \in Seq(Frames) /\ active = Last(stack).inst
        /\ CallChain(Front(stack), f.previous)
    BY <1>s, <2>1, <2>3, PopChain
  <2>5. CallChain(Append(Front(stack), f), f.inst)
    BY <2>3, <2>4, PushCall
  <2> QED BY <2>1, <2>3, <2>4, <2>5 DEF f
<1>10. CASE RunInterrupt
  <2>1. stack # <<>> /\ Last(stack).kind = "interrupts" /\ active' = active
    BY <1>10, InterruptFrame DEF RunInterrupt, wasmVars
  <2>2. PICK g \in Frames : /\ g.kind = "interrupts"
                            /\ stack' = Append(Append(Front(stack), g), Native)
    BY <1>10, InterruptFrame
  <2>3. Front(stack) \in Seq(Frames) /\ CallChain(Front(stack), active)
    BY <1>s, <2>1, PopChain
  <2>4. /\ Append(Front(stack), g) \in Seq(Frames)
        /\ CallChain(Append(Front(stack), g), active)
    BY <2>2, <2>3, PushOther
  <2>5. CallChain(Append(Append(Front(stack), g), Native), active)
    BY <1>js, <2>4, PushOther
  <2> QED BY <2>1, <2>2, <2>5
<1> QED BY <1>1, <1>2, <1>3, <1>4, <1>5, <1>6, <1>7, <1>8, <1>9, <1>10
        DEF Next, Continue

(* Over imports that call exports and calls that trap, the pointer that    *)
(* other threads terminate through is that of the innermost WebAssembly    *)
(* call.                                                                   *)
THEOREM TerminatesInnermostCall == Spec => []ActiveIsInnermostCall
<1> DEFINE Inv == CallChain(stack, active)
<1>1. Init => Inv
  BY DEF Init, CallChain, InnermostOf
<1>2. TypeInv /\ Inv /\ [Next]_terminationVars => Inv'
  <2>1. ASSUME TypeInv, Inv, Next PROVE Inv'
    BY <2>1, ChainNext
  <2>2. ASSUME Inv, UNCHANGED terminationVars PROVE Inv'
    BY <2>2 DEF terminationVars
  <2> QED BY <2>1, <2>2
<1>3. TypeInv /\ Inv => ActiveIsInnermostCall
  BY ChainGivesInnermost DEF TypeInv, ControlInv, StackShape
<1> HIDE DEF Inv
<1> QED BY <1>1, <1>2, <1>3, TypeInvInit, TypeInvNext, PTL DEF Spec

-----------------------------------------------------------------------------
(* The interrupts a frame still has to run.                                *)
Carried(f) == IF f.kind = "interrupts" THEN ToSet(f.ids) ELSE {}

(* Those of all frames of s.                                               *)
Batched(s) == { id \in Ids : \E k \in 1 .. Len(s) : id \in Carried(s[k]) }

Repeats(q) == \E j, k \in 1 .. Len(q) : j < k /\ q[j] = q[k]

(* No interrupt is in s twice.                                             *)
BatchesApart(s) ==
  /\ \A k \in 1 .. Len(s) : s[k].kind = "interrupts" => ~ Repeats(s[k].ids)
  /\ \A j, k \in 1 .. Len(s) :
       j # k => Carried(s[j]) \cap Carried(s[k]) = {}

(* Interrupts wait, are taken into a batch and are run, each being in one  *)
(* of these states, and nowhere twice.                                     *)
OnceInv ==
  /\ BatchesApart(stack)
  /\ ~ Repeats(pending)
  /\ ToSet(pending) \cap Batched(stack) = {}
  /\ ToSet(pending) \cap delivered = {}
  /\ Batched(stack) \cap delivered = {}
  /\ ToSet(pending) \cup Batched(stack) \cup delivered
       = { id \in Ids : id < nextId }

(* A sequence loses its first element.                                     *)
LEMMA TailLosesHead ==
  ASSUME NEW q \in Seq(Ids), q # <<>>, ~ Repeats(q)
  PROVE  /\ Tail(q) \in Seq(Ids)
         /\ ~ Repeats(Tail(q))
         /\ Head(q) \in ToSet(q)
         /\ Head(q) \in Ids
         /\ ToSet(Tail(q)) = ToSet(q) \ {Head(q)}
<1> DEFINE r == Tail(q)
<1>1. /\ Len(q) \in Nat \ {0} /\ DOMAIN q = 1 .. Len(q) /\ Head(q) = q[1]
      /\ \A k \in 1 .. Len(q) : q[k] \in Ids
      /\ r \in Seq(Ids) /\ Len(r) = Len(q) - 1 /\ DOMAIN r = 1 .. Len(q) - 1
      /\ \A k \in 1 .. Len(q) - 1 : r[k] = q[k + 1]
  OBVIOUS
<1> HIDE DEF r
<1>2. ~ Repeats(r)
  BY <1>1 DEF Repeats
<1>3. ToSet(r) \subseteq ToSet(q) \ {q[1]}
  BY <1>1 DEF ToSet, Repeats
<1>4. ASSUME NEW k \in 1 .. Len(q), q[k] # q[1] PROVE q[k] \in ToSet(r)
  <2>1. k - 1 \in 1 .. Len(q) - 1 /\ r[k - 1] = q[k]
    BY <1>1, <1>4
  <2> QED BY <1>1, <2>1 DEF ToSet
<1>5. ToSet(q) \ {q[1]} \subseteq ToSet(r)
  BY <1>1, <1>4 DEF ToSet
<1>6. q[1] \in ToSet(q) /\ q[1] \in Ids
  BY <1>1 DEF ToSet
<1> QED BY <1>1, <1>2, <1>3, <1>5, <1>6 DEF r

(* A sequence gets an element it did not have.                             *)
LEMMA AppendAddsOne ==
  ASSUME NEW q \in Seq(Ids), NEW id \in Ids, id \notin ToSet(q), ~ Repeats(q)
  PROVE  /\ ~ Repeats(Append(q, id))
         /\ ToSet(Append(q, id)) = ToSet(q) \cup {id}
<1> DEFINE r == Append(q, id)
<1>1. /\ Len(q) \in Nat /\ DOMAIN q = 1 .. Len(q)
      /\ Len(r) = Len(q) + 1 /\ DOMAIN r = 1 .. Len(q) + 1
      /\ \A k \in 1 .. Len(q) : r[k] = q[k]
      /\ r[Len(q) + 1] = id
  OBVIOUS
<1> HIDE DEF r
<1>2. ~ Repeats(r)
  BY <1>1 DEF Repeats, ToSet
<1>3. ToSet(r) = ToSet(q) \cup {id}
  BY <1>1 DEF ToSet
<1> QED BY <1>2, <1>3 DEF r

LEMMA EmptyHoldsNothing == ToSet(<<>>) = {} /\ ~ Repeats(<<>>)
  BY DEF ToSet, Repeats

(* A frame is put on a stack whose batches do not have its interrupts.     *)
LEMMA BatchedPush ==
  ASSUME NEW s \in Seq(Frames), NEW f \in Frames, BatchesApart(s),
         f.kind = "interrupts" => ~ Repeats(f.ids),
         Carried(f) \cap Batched(s) = {}
  PROVE  /\ Append(s, f) \in Seq(Frames)
         /\ BatchesApart(Append(s, f))
         /\ Batched(Append(s, f)) = Batched(s) \cup Carried(f)
<1> DEFINE t == Append(s, f)
           n == Len(s)
<1>1. /\ t \in Seq(Frames) /\ n \in Nat /\ Len(t) = n + 1 /\ t[n + 1] = f
      /\ \A k \in 1 .. n : t[k] = s[k]
  BY AppendFrames
<1>2. \A k \in 1 .. n : s[k] \in Frames
  OBVIOUS
<1> HIDE DEF t
<1>3. ASSUME NEW g \in Frames PROVE Carried(g) \subseteq Ids
  BY FrameKinds DEF Carried, ToSet
<1>4. Batched(t) = Batched(s) \cup Carried(f)
  <2>1. ASSUME NEW id \in Batched(t) PROVE id \in Batched(s) \cup Carried(f)
    BY <1>1, <2>1 DEF Batched
  <2>2. Carried(f) \subseteq Batched(t)
    <3>1. n + 1 \in 1 .. Len(t) /\ Carried(t[n + 1]) = Carried(f)
      BY <1>1
    <3> QED BY <1>3, <3>1 DEF Batched
  <2>3. Batched(s) \subseteq Batched(t)
    <3>1. \A k \in 1 .. n : k \in 1 .. Len(t) /\ Carried(t[k]) = Carried(s[k])
      BY <1>1
    <3> QED BY <3>1 DEF Batched
  <2> QED BY <2>1, <2>2, <2>3
<1>5. \A k \in 1 .. Len(t) : t[k].kind = "interrupts" => ~ Repeats(t[k].ids)
  BY <1>1 DEF BatchesApart
<1>6. \A k \in 1 .. n : Carried(s[k]) \cap Carried(f) = {}
  BY <1>2, <1>3 DEF Batched
<1>7. \A j, k \in 1 .. Len(t) :
        j # k => Carried(t[j]) \cap Carried(t[k]) = {}
  <2> SUFFICES ASSUME NEW j \in 1 .. Len(t), NEW k \in 1 .. Len(t), j # k
               PROVE  Carried(t[j]) \cap Carried(t[k]) = {}
    OBVIOUS
  <2>1. CASE j = n + 1
    <3>1. k \in 1 .. n /\ t[k] = s[k] /\ t[j] = f
      BY <1>1, <2>1
    <3> QED BY <1>6, <3>1
  <2>2. CASE k = n + 1
    <3>1. j \in 1 .. n /\ t[j] = s[j] /\ t[k] = f
      BY <1>1, <2>2
    <3> QED BY <1>6, <3>1
  <2>3. CASE j # n + 1 /\ k # n + 1
    <3>1. j \in 1 .. n /\ k \in 1 .. n /\ t[j] = s[j] /\ t[k] = s[k]
      BY <1>1, <2>3
    <3> QED BY <3>1 DEF BatchesApart
  <2> QED BY <2>1, <2>2, <2>3
<1>8. BatchesApart(t)
  BY <1>5, <1>7 DEF BatchesApart
<1> QED BY <1>1, <1>4, <1>8 DEF t

(* The top frame goes with the interrupts it has.                          *)
LEMMA BatchedPop ==
  ASSUME NEW s \in Seq(Frames), s # <<>>, BatchesApart(s)
  PROVE  /\ Front(s) \in Seq(Frames)
         /\ BatchesApart(Front(s))
         /\ Batched(Front(s)) = Batched(s) \ Carried(Last(s))
         /\ Carried(Last(s)) \subseteq Batched(s)
         /\ Last(s).kind = "interrupts" => ~ Repeats(Last(s).ids)
<1> DEFINE t == Front(s)
           n == Len(t)
<1>1. /\ t \in Seq(Frames) /\ Len(s) \in Nat /\ n \in Nat /\ Len(s) = n + 1
      /\ \A k \in 1 .. n : t[k] = s[k]
      /\ Last(s) = s[n + 1] /\ Last(s) \in Frames
  BY FrontFacts
<1> HIDE DEF t
<1>2. Carried(Last(s)) \subseteq Ids
  BY <1>1, FrameKinds DEF Carried, ToSet
<1>3. \A k \in 1 .. n : Carried(s[k]) \cap Carried(Last(s)) = {}
  <2> TAKE k \in 1 .. n
  <2>1. k \in 1 .. Len(s) /\ n + 1 \in 1 .. Len(s) /\ k # n + 1
    BY <1>1
  <2> QED BY <1>1, <2>1 DEF BatchesApart
<1>4. Carried(Last(s)) \subseteq Batched(s)
  <2>1. n + 1 \in 1 .. Len(s)
    BY <1>1
  <2> QED BY <1>1, <1>2, <2>1 DEF Batched
<1>5. Batched(t) \subseteq Batched(s) \ Carried(Last(s))
  <2>1. \A k \in 1 .. n : k \in 1 .. Len(s) /\ t[k] = s[k]
    BY <1>1
  <2> QED BY <1>3, <2>1 DEF Batched
<1>6. Batched(s) \ Carried(Last(s)) \subseteq Batched(t)
  <2>1. \A k \in 1 .. Len(s) :
          s[k] = Last(s) \/ (k \in 1 .. n /\ t[k] = s[k])
    BY <1>1
  <2> QED BY <2>1 DEF Batched
<1>7. BatchesApart(t)
  <2>1. \A k \in 1 .. n : k \in 1 .. Len(s) /\ t[k] = s[k]
    BY <1>1
  <2> QED BY <2>1 DEF BatchesApart
<1>8. s[n + 1].kind = "interrupts" => ~ Repeats(s[n + 1].ids)
  <2>1. n + 1 \in 1 .. Len(s)
    BY <1>1
  <2> QED BY <2>1 DEF BatchesApart
<1> QED BY <1>1, <1>4, <1>5, <1>6, <1>7, <1>8 DEF t

(* A frame without interrupts is called.                                   *)
LEMMA OncePush ==
  ASSUME TypeInv, OnceInv, NEW f \in Frames, Carried(f) = {},
         f.kind # "interrupts", Push(f), UNCHANGED interruptVars
  PROVE  OnceInv'
<1>1. stack \in Seq(Frames) /\ stack' = Append(stack, f)
  BY DEF TypeInv, ControlInv, StackShape, Push
<1>2. /\ BatchesApart(Append(stack, f))
      /\ Batched(Append(stack, f)) = Batched(stack) \cup Carried(f)
  BY <1>1, BatchedPush DEF OnceInv
<1> QED BY <1>1, <1>2 DEF OnceInv, interruptVars

(* A frame without interrupts ends.                                        *)
LEMMA OncePop ==
  ASSUME TypeInv, OnceInv, stack # <<>>, Carried(Last(stack)) = {},
         stack' = Front(stack), UNCHANGED interruptVars
  PROVE  OnceInv'
<1>1. stack \in Seq(Frames)
  BY DEF TypeInv, ControlInv, StackShape
<1>2. /\ BatchesApart(Front(stack))
      /\ Batched(Front(stack)) = Batched(stack) \ Carried(Last(stack))
  BY <1>1, BatchedPop DEF OnceInv
<1> QED BY <1>2 DEF OnceInv, interruptVars

(* All that wait move to a batch.                                          *)
LEMMA OnceTaken ==
  ASSUME TypeInv, OnceInv, NEW s \in Seq(Frames), NEW g \in Frames,
         g.kind = "interrupts", g.ids = pending,
         BatchesApart(s), Batched(s) = Batched(stack),
         stack' = Append(s, g), pending' = <<>>,
         delivered' = delivered, nextId' = nextId
  PROVE  OnceInv'
<1>1. Carried(g) = ToSet(pending) /\ ~ Repeats(g.ids)
  BY DEF Carried, OnceInv
<1>2. /\ BatchesApart(Append(s, g))
      /\ Batched(Append(s, g)) = Batched(s) \cup Carried(g)
  BY <1>1, BatchedPush DEF OnceInv
<1>3. ToSet(pending') = {} /\ ~ Repeats(pending')
  BY EmptyHoldsNothing
<1> QED BY <1>1, <1>2, <1>3 DEF OnceInv

LEMMA OnceNext ==
  ASSUME TypeInv, OnceInv, Next
  PROVE  OnceInv'
<1> USE DEF interruptVars
<1>js. /\ Js \in Frames /\ Js.kind # "interrupts" /\ Carried(Js) = {}
       /\ Native \in Frames /\ Native.kind # "interrupts" /\ Carried(Native) = {}
  BY PlainFrames DEF Carried
<1>s. stack \in Seq(Frames)
  BY DEF TypeInv, ControlInv, StackShape
<1>same. stack' = stack /\ UNCHANGED interruptVars => OnceInv'
  BY DEF OnceInv
<1>1. CASE \/ \E r \in Requesters : \/ TerminateExecution(r)
                                    \/ CancelTerminateExecution(r)
                                    \/ ContinueRequest(r)
           \/ ClearException \/ JsThrows \/ Catch \/ HeapExhausted
  <2>1. stack' = stack /\ UNCHANGED interruptVars
    BY <1>1 DEF TerminateExecution, CancelTerminateExecution,
       ContinueRequest, LoadActiveCall, MarkInstance, ClearException, JsThrows,
       Catch, HeapExhausted
  <2> QED BY <2>1, <1>same
<1>2. CASE CallFunction \/ EvaluateModule \/ ExecutePendingJob \/ CallNative
           \/ CallImport
  <2>1. UNCHANGED interruptVars /\ (stack' = stack \/ Push(Js) \/ Push(Native))
    BY <1>2 DEF CallFunction, EvaluateModule, ExecutePendingJob, CallNative,
       CallImport
  <2> HIDE DEF interruptVars
  <2> QED BY <2>1, <1>js, <1>same, OncePush
<1>3. ASSUME NEW m \in Instances, CallExport(m)
      PROVE  OnceInv'
  <2> DEFINE f == [kind |-> "wasm", inst |-> m, previous |-> active,
                   pc |-> "entry"]
  <2>1. f \in Frames /\ f.kind # "interrupts"
    BY CalledFrames DEF TypeInv
  <2>2. Push(f) /\ UNCHANGED interruptVars
    BY <1>3 DEF CallExport
  <2> HIDE DEF f
  <2> QED BY <2>1, <2>2, OncePush DEF Carried
<1>4. ASSUME NEW r \in Requesters, RequestInterrupt(r)
      PROVE  OnceInv'
  <2>1. /\ nextId \in Ids /\ nextId' = nextId + 1
        /\ pending' = Append(pending, nextId)
        /\ stack' = stack /\ delivered' = delivered
        /\ pending \in Seq(Ids)
    BY <1>4 DEF TypeInv, DataInv, RequestInterrupt, Ids
  <2>2. nextId \notin ToSet(pending) \cup Batched(stack) \cup delivered
    BY <2>1 DEF OnceInv, Ids
  <2>3. /\ ~ Repeats(pending')
        /\ ToSet(pending') = ToSet(pending) \cup {nextId}
    BY <2>1, <2>2, AppendAddsOne DEF OnceInv
  <2>4. { id \in Ids : id < nextId + 1 } = { id \in Ids : id < nextId } \cup {nextId}
    BY <2>1 DEF Ids
  <2> QED BY <2>1, <2>2, <2>3, <2>4 DEF OnceInv
<1>5. CASE RunScript
  <2> DEFINE g == [kind |-> "interrupts", ids |-> pending, polls |-> FALSE]
  <2>1. g \in Frames /\ g.kind = "interrupts" /\ g.ids = pending
    BY ScriptFrame
  <2>2. /\ stack' = stack \o <<Js, g>>
        /\ pending' = <<>> /\ delivered' = delivered /\ nextId' = nextId
    BY <1>5 DEF RunScript
  <2> HIDE DEF g
  <2>3. stack' = Append(Append(stack, Js), g)
    BY <1>s, <1>js, <2>1, <2>2, PushTwo
  <2>4. /\ Append(stack, Js) \in Seq(Frames) /\ BatchesApart(Append(stack, Js))
        /\ Batched(Append(stack, Js)) = Batched(stack)
    BY <1>s, <1>js, BatchedPush DEF OnceInv
  <2> QED BY <2>1, <2>2, <2>3, <2>4, OnceTaken
<1>6. CASE Poll
  <2> DEFINE f == [kind |-> "interrupts", ids |-> pending, polls |-> TRUE]
  <2>1. f \in Frames /\ f.kind = "interrupts" /\ f.ids = pending
    BY CalledFrames DEF TypeInv
  <2>2. /\ stack' = Append(stack, f)
        /\ pending' = <<>> /\ delivered' = delivered /\ nextId' = nextId
    BY <1>6 DEF Poll, Push
  <2> HIDE DEF f
  <2> QED BY <1>s, <2>1, <2>2, OnceTaken DEF OnceInv
<1>7. CASE InspectorDispatch
  <2> DEFINE f == [kind |-> "inspect", restore |-> terminating]
  <2>1. f \in Frames /\ f.kind # "interrupts"
    BY CalledFrames DEF TypeInv, DataInv
  <2>2. Push(f) /\ UNCHANGED interruptVars
    BY <1>7 DEF InspectorDispatch
  <2> HIDE DEF f
  <2> QED BY <2>1, <2>2, OncePush DEF Carried
<1>8. CASE \/ NativeReturns \/ JsReturns \/ Unwind \/ InspectorRestore
           \/ WasmReturns \/ WasmTraps
  <2>1. /\ stack # <<>> /\ Last(stack).kind # "interrupts"
        /\ stack' = Front(stack) /\ UNCHANGED interruptVars
    BY <1>8 DEF NativeReturns, JsReturns, JsRuns, Unwind, InspectorRestore,
       WasmReturns, WasmTraps, WasmRuns, IsTop, Leave
  <2> QED BY <2>1, OncePop DEF Carried
<1>9. CASE InterruptsDone
  <2>1. /\ stack # <<>> /\ Last(stack).kind = "interrupts"
        /\ Last(stack).ids = <<>>
        /\ stack' = Front(stack) /\ UNCHANGED interruptVars
    BY <1>9 DEF InterruptsDone, IsTop, Leave
  <2> QED BY <2>1, OncePop, EmptyHoldsNothing DEF Carried
<1>10. CASE WasmClear \/ WasmCheck
  <2>1. PICK p \in {"check", "run"} :
          /\ stack # <<>> /\ Last(stack).kind = "wasm"
          /\ UNCHANGED interruptVars
          /\ stack' = Append(Front(stack), [Last(stack) EXCEPT !.pc = p])
    BY <1>10 DEF WasmClear, WasmCheck, IsTop, ReplaceTop
  <2> DEFINE f == [Last(stack) EXCEPT !.pc = p]
  <2>2. Last(stack) \in WasmCall
    BY <2>1, TopFacts, FrameKinds DEF TypeInv
  <2>3. f \in Frames /\ f.kind = "wasm"
    <3>1. ASSUME NEW w \in WasmCall
          PROVE  LET g == [w EXCEPT !.pc = p]
                 IN g \in WasmCall /\ g.kind = "wasm"
      BY DEF WasmCall
    <3> QED BY <2>2, <3>1 DEF Frames
  <2>4. stack' = Append(Front(stack), f)
    BY <2>1
  <2> HIDE DEF f
  <2>5. Carried(f) = {} /\ Carried(Last(stack)) = {}
    BY <2>1, <2>3 DEF Carried
  <2>6. /\ Front(stack) \in Seq(Frames) /\ BatchesApart(Front(stack))
        /\ Batched(Front(stack)) = Batched(stack)
    BY <1>s, <2>1, <2>5, BatchedPop DEF OnceInv
  <2>7. /\ BatchesApart(Append(Front(stack), f))
        /\ Batched(Append(Front(stack), f)) = Batched(stack)
    BY <2>3, <2>5, <2>6, BatchedPush
  <2> QED BY <2>1, <2>4, <2>7 DEF OnceInv
<1>11. CASE RunInterrupt
  <2> DEFINE f == Last(stack)
  <2>1. stack # <<>> /\ f.kind = "interrupts" /\ f.ids \in Seq(Ids) /\ f.ids # <<>>
    BY <1>11, InterruptFrame
  <2>2. PICK g \in Frames : /\ g.kind = "interrupts" /\ g.ids = Tail(f.ids)
                            /\ stack' = Append(Append(Front(stack), g), Native)
    BY <1>11, InterruptFrame
  <2>3. /\ delivered' = delivered \cup {Head(f.ids)}
        /\ pending' = pending /\ nextId' = nextId
    BY <1>11 DEF RunInterrupt
  <2>4. /\ Front(stack) \in Seq(Frames) /\ BatchesApart(Front(stack))
        /\ Batched(Front(stack)) = Batched(stack) \ Carried(f)
        /\ Carried(f) \subseteq Batched(stack)
        /\ ~ Repeats(f.ids)
    BY <1>s, <2>1, BatchedPop DEF OnceInv
  <2> DEFINE id == Head(f.ids)
  <2> HIDE DEF f
  <2>5. /\ ~ Repeats(g.ids) /\ Carried(g) = Carried(f) \ {id}
        /\ id \in Carried(f) /\ id \in Ids
    BY <2>1, <2>2, <2>4, TailLosesHead DEF Carried
  <2>6. /\ Append(Front(stack), g) \in Seq(Frames)
        /\ BatchesApart(Append(Front(stack), g))
        /\ Batched(Append(Front(stack), g)) = Batched(stack) \ {id}
    <3>1. Carried(g) \cap Batched(Front(stack)) = {}
      BY <2>4, <2>5
    <3>2. /\ Append(Front(stack), g) \in Seq(Frames)
          /\ BatchesApart(Append(Front(stack), g))
          /\ Batched(Append(Front(stack), g)) = Batched(Front(stack)) \cup Carried(g)
      BY <2>4, <2>5, <3>1, BatchedPush
    <3> QED BY <2>4, <2>5, <3>2
  <2>7. BatchesApart(stack') /\ Batched(stack') = Batched(stack) \ {id}
    BY <1>js, <2>2, <2>6, BatchedPush
  <2> HIDE DEF id
  <2>8. delivered' = delivered \cup {id}
    BY <2>3 DEF id
  <2>9. id \in Batched(stack)
    BY <2>4, <2>5
  <2>10. BatchesApart(stack') /\ ~ Repeats(pending')
    BY <2>3, <2>7 DEF OnceInv
  <2>11. /\ ToSet(pending) \cap Batched(stack') = {}
         /\ ToSet(pending) \cap delivered' = {}
         /\ Batched(stack') \cap delivered' = {}
    BY <2>7, <2>8, <2>9 DEF OnceInv
  <2>12. ToSet(pending) \cup Batched(stack') \cup delivered'
           = { i \in Ids : i < nextId }
    BY <2>7, <2>8, <2>9 DEF OnceInv
  <2> QED BY <2>3, <2>10, <2>11, <2>12 DEF OnceInv
<1> QED BY <1>1, <1>2, <1>3, <1>4, <1>5, <1>6, <1>7, <1>8, <1>9, <1>10, <1>11
        DEF Next, Continue

LEMMA OnceInit == Init => OnceInv
<1> SUFFICES ASSUME Init PROVE OnceInv
  OBVIOUS
<1>1. stack = <<>> /\ pending = <<>> /\ delivered = {} /\ nextId = 1
  BY DEF Init
<1>2. BatchesApart(stack) /\ Batched(stack) = {}
  BY <1>1 DEF BatchesApart, Batched
<1>3. { id \in Ids : id < nextId } = {}
  BY <1>1 DEF Ids
<1> QED BY <1>1, <1>2, <1>3, EmptyHoldsNothing DEF OnceInv

(* A set that has one element, or none.                                    *)
LEMMA OneOrNone ==
  ASSUME NEW S, NEW e, S \subseteq {e}
  PROVE  /\ e \in S => Cardinality(S) = 1
         /\ e \notin S => Cardinality(S) = 0
<1>1. e \in S => S = {e}
  OBVIOUS
<1>2. e \notin S => S = {}
  OBVIOUS
<1> QED BY <1>1, <1>2, FS_EmptySet, FS_Singleton

(* Where an interrupt is, by the invariant.                                *)
LEMMA PlaceOf ==
  ASSUME TypeInv, OnceInv, NEW id \in Ids
  PROVE  Cardinality(InterruptPlaces(id)) = IF id < nextId THEN 1 ELSE 0
<1> DEFINE P == { <<"pending", k>> : k \in { j \in DOMAIN pending : pending[j] = id } }
           B == { p \in { <<"batch", k>> : k \in DOMAIN stack } :
                    LET f == stack[p[2]]
                    IN f.kind = "interrupts" /\ id \in ToSet(f.ids) }
           D == { p \in { <<"delivered", 0>> } : id \in delivered }
<1>1. InterruptPlaces(id) = P \cup B \cup D
  BY DEF InterruptPlaces
<1>2. DOMAIN pending = 1 .. Len(pending) /\ Len(pending) \in Nat
  BY DEF TypeInv, DataInv
<1>3. DOMAIN stack = 1 .. Len(stack) /\ Len(stack) \in Nat
  BY DEF TypeInv, ControlInv, StackShape
<1>4. \A k \in DOMAIN pending : <<"pending", k>> \in P <=> pending[k] = id
  OBVIOUS
<1>5. \A p \in P : \E k \in DOMAIN pending : p = <<"pending", k>> /\ pending[k] = id
  OBVIOUS
<1>6. \A k \in DOMAIN stack : <<"batch", k>> \in B <=> id \in Carried(stack[k])
  BY DEF Carried
<1>7. \A p \in B : \E k \in DOMAIN stack : p = <<"batch", k>> /\ id \in Carried(stack[k])
  BY DEF Carried
<1>8. D = IF id \in delivered THEN { <<"delivered", 0>> } ELSE {}
  OBVIOUS
<1> HIDE DEF P, B, D
<1>9. id \notin ToSet(pending) => P = {}
  BY <1>5 DEF ToSet
<1>10. id \notin Batched(stack) => B = {}
  BY <1>3, <1>7 DEF Batched
<1>11. id < nextId <=> id \in ToSet(pending) \/ id \in Batched(stack) \/ id \in delivered
  BY DEF OnceInv
<1>12. CASE id \in ToSet(pending)
  <2>1. PICK k \in DOMAIN pending : pending[k] = id
    BY <1>12 DEF ToSet
  <2>2. B = {} /\ D = {}
    BY <1>8, <1>10, <1>12 DEF OnceInv
  <2>3. \A j \in DOMAIN pending : pending[j] = id => j = k
    BY <1>2, <2>1 DEF OnceInv, Repeats
  <2>4. P = { <<"pending", k>> }
    BY <1>4, <1>5, <2>1, <2>3
  <2> QED BY <1>1, <1>11, <1>12, <2>2, <2>4, OneOrNone
<1>13. CASE id \in Batched(stack)
  <2>1. PICK k \in DOMAIN stack : id \in Carried(stack[k])
    BY <1>3, <1>13 DEF Batched
  <2>2. P = {} /\ D = {}
    BY <1>8, <1>9, <1>13 DEF OnceInv
  <2>3. \A j \in DOMAIN stack : id \in Carried(stack[j]) => j = k
    BY <1>3, <2>1 DEF OnceInv, BatchesApart
  <2>4. B = { <<"batch", k>> }
    BY <1>6, <1>7, <2>1, <2>3
  <2> QED BY <1>1, <1>11, <1>13, <2>2, <2>4, OneOrNone
<1>14. CASE id \notin ToSet(pending) /\ id \notin Batched(stack)
  <2>1. InterruptPlaces(id) \subseteq { <<"delivered", 0>> }
        /\ (<<"delivered", 0>> \in InterruptPlaces(id) <=> id \in delivered)
    BY <1>1, <1>8, <1>9, <1>10, <1>14
  <2> QED BY <1>11, <1>14, <2>1, OneOrNone
<1> QED BY <1>12, <1>13, <1>14

(* Whatever is requested while the callbacks of earlier requests run, and  *)
(* however deep they nest, every interrupt is in one place on its way to   *)
(* being run once: it is neither lost nor run twice.                       *)
THEOREM InterruptsRunOnce == Spec => []InterruptsOnce
<1>1. TypeInv /\ OnceInv /\ [Next]_terminationVars => OnceInv'
  <2>1. ASSUME TypeInv, OnceInv, Next PROVE OnceInv'
    BY <2>1, OnceNext
  <2>2. ASSUME OnceInv, UNCHANGED terminationVars PROVE OnceInv'
    BY <2>2 DEF terminationVars, OnceInv
  <2> QED BY <2>1, <2>2
<1>2. TypeInv /\ OnceInv => InterruptsOnce
  BY PlaceOf DEF InterruptsOnce
<1> QED BY <1>1, <1>2, OnceInit, TypeInvInit, TypeInvNext, PTL DEF Spec
=============================================================================
