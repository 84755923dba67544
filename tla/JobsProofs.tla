----------------------------- MODULE JobsProofs -----------------------------
(***************************************************************************)
(* Proofs about Jobs, for any isolates, tasks and depth of nesting: code   *)
(* never finds the continuation data of another task, and an evaluation    *)
(* that leaves its jobs to others leaves them to one that drains.          *)
(***************************************************************************)
EXTENDS Jobs, TLAPS

-----------------------------------------------------------------------------
(* Code of any isolate in a stack.                                         *)
IsCode(s, k) == s[k].kind # "drain"

(* k is the innermost code of i in s.                                      *)
InnermostOf(s, i, k) ==
  /\ k \in DOMAIN s /\ IsCode(s, k) /\ s[k].iso = i
  /\ \A j \in DOMAIN s : IsCode(s, j) /\ s[j].iso = i => j <= k

(* Code that is not a job runs for the task of the code of its isolate     *)
(* that it is nested in.                                                   *)
Inherits(s) ==
  \A j, k \in DOMAIN s :
    /\ j < k /\ IsCode(s, j) /\ IsCode(s, k) /\ s[j].iso = s[k].iso
    /\ \A l \in DOMAIN s : j < l /\ l < k => ~(IsCode(s, l) /\ s[l].iso = s[k].iso)
    /\ s[k].kind # "job"
    => s[k].task = s[j].task

(* Every isolate has the data of its innermost code, or none.              *)
DataFits(s, d) ==
  \A i \in Isolates, k \in DOMAIN s :
    InnermostOf(s, i, k) => d[i] \in {s[k].task, None}

FitsAll(s, d) == s \in Seq(Frames) /\ Inherits(s) /\ DataFits(s, d)

LEMMA FrameFacts ==
  /\ \A f \in Frames : f.kind \in {"script", "job", "module", "drain"}
                       /\ f.iso \in Isolates
  /\ \A f \in Frames : f.kind # "drain" => f.task \in Tasks
  /\ \A f \in Frames : f.kind = "module" => f.guarded \in BOOLEAN
  /\ \A f \in Frames : f.kind = "drain" =>
       /\ f.by \in {"script", "checkpoint", "pump", "module"}
       /\ f.guarded \in BOOLEAN
       /\ f.guarded => f.by = "module"
  BY DEF Frames

LEMMA NewFrames ==
  ASSUME NEW i \in Isolates, NEW t \in Tasks
  PROVE  /\ \A kind \in {"script", "job"} :
              /\ Code(kind, i, t) \in Frames
              /\ Code(kind, i, t).kind = kind
              /\ Code(kind, i, t).iso = i
              /\ Code(kind, i, t).task = t
         /\ \A g \in BOOLEAN :
              /\ Module(i, t, g) \in Frames
              /\ Module(i, t, g).kind = "module"
              /\ Module(i, t, g).iso = i
              /\ Module(i, t, g).task = t
  BY DEF Frames, Code, Module

LEMMA NewDrains ==
  ASSUME NEW i \in Isolates
  PROVE  /\ \A by \in {"script", "checkpoint", "pump"} :
              /\ Drain(i, by, FALSE) \in Frames
              /\ Drain(i, by, FALSE).kind = "drain"
              /\ Drain(i, by, FALSE).by = by
         /\ \A g \in BOOLEAN :
              /\ Drain(i, "module", g) \in Frames
              /\ Drain(i, "module", g).kind = "drain"
              /\ Drain(i, "module", g).by = "module"
  BY DEF Frames, Drain

LEMMA AppendFacts ==
  ASSUME NEW s \in Seq(Frames), NEW f \in Frames
  PROVE  /\ Append(s, f) \in Seq(Frames)
         /\ Append(s, f) # <<>>
         /\ Len(s) \in Nat
         /\ DOMAIN s = 1 .. Len(s) /\ DOMAIN Append(s, f) = 1 .. Len(s) + 1
         /\ Append(s, f)[Len(s) + 1] = f
         /\ \A k \in 1 .. Len(s) : Append(s, f)[k] = s[k]
         /\ Last(Append(s, f)) = f
<1>1. /\ Append(s, f) \in Seq(Frames)
      /\ Append(s, f) # <<>>
      /\ Len(s) \in Nat
      /\ DOMAIN s = 1 .. Len(s) /\ DOMAIN Append(s, f) = 1 .. Len(s) + 1
      /\ Len(Append(s, f)) = Len(s) + 1
      /\ Append(s, f)[Len(s) + 1] = f
      /\ \A k \in 1 .. Len(s) : Append(s, f)[k] = s[k]
  OBVIOUS
<1> QED BY <1>1 DEF Last

LEMMA FrontFacts ==
  ASSUME NEW s \in Seq(Frames), s # <<>>
  PROVE  /\ Front(s) \in Seq(Frames)
         /\ Len(s) \in Nat \ {0}
         /\ DOMAIN s = 1 .. Len(s) /\ DOMAIN Front(s) = 1 .. Len(s) - 1
         /\ \A k \in 1 .. Len(s) - 1 : Front(s)[k] = s[k]
         /\ Last(s) = s[Len(s)]
         /\ Last(s) \in Frames
<1>1. Len(s) \in Nat \ {0} /\ DOMAIN s = 1 .. Len(s)
      /\ \A k \in 1 .. Len(s) : s[k] \in Frames
  OBVIOUS
<1>2. /\ Len(SubSeq(s, 1, Len(s) - 1)) = Len(s) - 1
      /\ SubSeq(s, 1, Len(s) - 1) \in Seq(Frames)
      /\ \A k \in 1 .. Len(s) - 1 : SubSeq(s, 1, Len(s) - 1)[k] = s[k]
  BY <1>1
<1> QED BY <1>1, <1>2 DEF Front, Last

-----------------------------------------------------------------------------
(* A loop over jobs changes nothing.                                       *)
LEMMA PushDrain ==
  ASSUME NEW s, NEW d, FitsAll(s, d), NEW f \in Frames, f.kind = "drain"
  PROVE  FitsAll(Append(s, f), d)
<1> DEFINE t == Append(s, f)
<1>1. /\ t \in Seq(Frames)
      /\ Len(s) \in Nat
      /\ DOMAIN s = 1 .. Len(s) /\ DOMAIN t = 1 .. Len(s) + 1
      /\ t[Len(s) + 1] = f
      /\ \A k \in 1 .. Len(s) : t[k] = s[k]
  BY AppendFacts DEF FitsAll
<1> HIDE DEF t
<1>2. \A k \in DOMAIN t : IsCode(t, k) => k \in DOMAIN s /\ t[k] = s[k]
  BY <1>1 DEF IsCode
<1>3. \A k \in DOMAIN s : k \in DOMAIN t /\ t[k] = s[k] /\ (IsCode(t, k) <=> IsCode(s, k))
  BY <1>1 DEF IsCode
<1>4. Inherits(t)
  BY <1>2, <1>3 DEF Inherits, FitsAll
<1>5. DataFits(t, d)
  <2>1. ASSUME NEW i \in Isolates, NEW k \in DOMAIN t, InnermostOf(t, i, k)
        PROVE  InnermostOf(s, i, k) /\ t[k] = s[k]
    BY <1>2, <1>3, <2>1 DEF InnermostOf
  <2> QED BY <1>2, <2>1 DEF DataFits, FitsAll, InnermostOf
<1> QED BY <1>1, <1>4, <1>5 DEF FitsAll, t

(* Code that runs for the task of the code it is nested in, or a job, with *)
(* data that fits.                                                         *)
LEMMA PushCode ==
  ASSUME NEW s, NEW d, NEW e, FitsAll(s, d), NEW f \in Frames, f.kind # "drain",
         e[f.iso] \in {f.task, None},
         \A i \in Isolates \ {f.iso} : e[i] = d[i],
         f.kind # "job" => \A k \in DOMAIN s :
                             InnermostOf(s, f.iso, k) => f.task = s[k].task
  PROVE  FitsAll(Append(s, f), e)
<1> DEFINE t == Append(s, f)
           n == Len(s) + 1
<1>1. /\ t \in Seq(Frames)
      /\ Len(s) \in Nat
      /\ DOMAIN s = 1 .. Len(s) /\ DOMAIN t = 1 .. n
      /\ t[n] = f
      /\ \A k \in 1 .. Len(s) : t[k] = s[k]
  BY AppendFacts DEF FitsAll
<1>0. n \in Nat /\ n = Len(s) + 1
  BY <1>1
<1> HIDE DEF t, n
<1>2. \A k \in DOMAIN s : k \in DOMAIN t /\ t[k] = s[k] /\ (IsCode(t, k) <=> IsCode(s, k))
  BY <1>0, <1>1 DEF IsCode
<1>3. \A k \in DOMAIN t : k \in DOMAIN s \/ k = n
  BY <1>0, <1>1
<1>4. \A k \in DOMAIN s : k \in Nat /\ k < n
  BY <1>0, <1>1
<1>5. Inherits(t)
  <2> SUFFICES ASSUME NEW j \in DOMAIN t, NEW k \in DOMAIN t,
                      j < k, IsCode(t, j), IsCode(t, k), t[j].iso = t[k].iso,
                      \A l \in DOMAIN t :
                        j < l /\ l < k => ~(IsCode(t, l) /\ t[l].iso = t[k].iso),
                      t[k].kind # "job"
               PROVE  t[k].task = t[j].task
    BY DEF Inherits
  <2>1. CASE k \in DOMAIN s
    <3>1. j \in DOMAIN s
      BY <1>0, <1>1, <1>3, <2>1
    <3> QED BY <1>2, <2>1, <3>1 DEF Inherits, FitsAll
  <2>2. CASE k = n
    <3>1. j \in DOMAIN s
      BY <1>0, <1>1, <1>3, <2>2
    <3>2. InnermostOf(s, f.iso, j)
      <4>1. ASSUME NEW l \in DOMAIN s, IsCode(s, l), s[l].iso = f.iso
            PROVE  l <= j
        <5>1. ~(j < l)
          BY <1>1, <1>2, <1>4, <2>2, <4>1
        <5> QED BY <1>1, <3>1, <5>1
      <4> QED BY <1>1, <1>2, <2>2, <3>1, <4>1 DEF InnermostOf
    <3> QED BY <1>1, <1>2, <2>2, <3>1, <3>2
  <2> QED BY <1>3, <2>1, <2>2
<1>6. DataFits(t, e)
  <2> SUFFICES ASSUME NEW i \in Isolates, NEW k \in DOMAIN t, InnermostOf(t, i, k)
               PROVE  e[i] \in {t[k].task, None}
    BY DEF DataFits
  <2>1. CASE i = f.iso
    <3>1. n <= k
      BY <1>0, <1>1, <2>1 DEF InnermostOf, IsCode
    <3>2. k = n
      BY <1>0, <1>1, <3>1
    <3> QED BY <1>1, <2>1, <3>2
  <2>2. CASE i # f.iso
    <3>1. k \in DOMAIN s
      BY <1>1, <1>3, <2>2 DEF InnermostOf
    <3>2. InnermostOf(s, i, k)
      BY <1>2, <3>1 DEF InnermostOf
    <3> QED BY <1>2, <2>2, <3>1, <3>2 DEF DataFits, FitsAll
  <2> QED BY <2>1, <2>2
<1> QED BY <1>1, <1>5, <1>6 DEF FitsAll, t

(* A call is over: a job leaves no data, the others what they ran with.    *)
LEMMA PopFrame ==
  ASSUME NEW s, NEW d, NEW e, FitsAll(s, d), s # <<>>,
         \A i \in Isolates : e[i] = d[i] \/ (i = Last(s).iso /\ e[i] = None),
         Last(s).kind = "job" => e[Last(s).iso] = None
  PROVE  FitsAll(Front(s), e)
<1> DEFINE t == Front(s)
           n == Len(s)
<1>1. /\ t \in Seq(Frames)
      /\ n \in Nat \ {0}
      /\ DOMAIN s = 1 .. n /\ DOMAIN t = 1 .. n - 1
      /\ \A k \in 1 .. n - 1 : t[k] = s[k]
      /\ Last(s) = s[n] /\ s[n] \in Frames
  BY FrontFacts DEF FitsAll
<1> HIDE DEF t, n
<1>2. \A k \in DOMAIN t : k \in DOMAIN s /\ t[k] = s[k] /\ (IsCode(t, k) <=> IsCode(s, k))
                          /\ k < n
  BY <1>1 DEF IsCode
<1>3. \A k \in DOMAIN s : k \in DOMAIN t \/ k = n
  BY <1>1
<1>4. Inherits(t)
  <2> SUFFICES ASSUME NEW j \in DOMAIN t, NEW k \in DOMAIN t,
                      j < k, IsCode(t, j), IsCode(t, k), t[j].iso = t[k].iso,
                      \A l \in DOMAIN t :
                        j < l /\ l < k => ~(IsCode(t, l) /\ t[l].iso = t[k].iso),
                      t[k].kind # "job"
               PROVE  t[k].task = t[j].task
    BY DEF Inherits
  <2>1. \A l \in DOMAIN s :
          j < l /\ l < k => ~(IsCode(s, l) /\ s[l].iso = s[k].iso)
    BY <1>1, <1>2
  <2> QED BY <1>2, <2>1 DEF Inherits, FitsAll
<1>5. DataFits(t, e)
  <2> SUFFICES ASSUME NEW i \in Isolates, NEW k \in DOMAIN t, InnermostOf(t, i, k)
               PROVE  e[i] \in {t[k].task, None}
    BY DEF DataFits
  <2>1. k \in DOMAIN s /\ t[k] = s[k] /\ IsCode(s, k) /\ s[k].iso = i /\ k < n
    BY <1>2 DEF InnermostOf
  <2>2. \A j \in DOMAIN s : IsCode(s, j) /\ s[j].iso = i => j <= k \/ j = n
    BY <1>2, <1>3 DEF InnermostOf
  <2>3. CASE e[i] = None
    BY <2>3
  <2>4. CASE e[i] # None /\ ~(IsCode(s, n) /\ s[n].iso = i)
    <3>1. InnermostOf(s, i, k)
      BY <2>1, <2>2, <2>4 DEF InnermostOf
    <3> QED BY <2>1, <2>4, <3>1 DEF DataFits, FitsAll
  <2>5. CASE e[i] # None /\ IsCode(s, n) /\ s[n].iso = i
    <3>1. s[n].kind # "job"
      BY <1>1, <2>5
    <3>2. InnermostOf(s, i, n)
      BY <1>1, <2>5 DEF InnermostOf
    <3>3. s[n].task = s[k].task
      <4>1. \A l \in DOMAIN s : k < l /\ l < n => ~(IsCode(s, l) /\ s[l].iso = i)
        BY <1>1, <2>1, <2>2
      <4> QED BY <1>1, <2>1, <2>5, <3>1, <4>1 DEF Inherits, FitsAll
    <3>4. d[i] \in {s[n].task, None} /\ e[i] = d[i]
      BY <1>1, <2>5, <3>2 DEF DataFits, FitsAll
    <3> QED BY <2>1, <3>3, <3>4
  <2> QED BY <2>3, <2>4, <2>5
<1> QED BY <1>1, <1>4, <1>5 DEF FitsAll, t

-----------------------------------------------------------------------------
JobsInv == TypeOK /\ FitsAll(stack, data)

LEMMA JobsInit == Init => JobsInv
<1> SUFFICES ASSUME Init PROVE JobsInv
  OBVIOUS
<1>1. stack \in Seq(Frames) /\ DOMAIN stack = {}
  BY DEF Init
<1>2. TypeOK
  BY <1>1 DEF Init, TypeOK
<1> QED BY <1>1, <1>2 DEF JobsInv, FitsAll, Inherits, DataFits

(* The task that TasksOf picks is the one of the code it is nested in, and *)
(* the data fits it.                                                       *)
LEMMA TaskFits ==
  ASSUME JobsInv, NEW i \in Isolates, NEW t \in TasksOf(i)
  PROVE  /\ t \in Tasks
         /\ data[i] \in {t, None}
         /\ \A k \in DOMAIN stack : InnermostOf(stack, i, k) => t = stack[k].task
<1>1. data \in [Isolates -> Tasks \cup {None}] /\ stack \in Seq(Frames)
  BY DEF JobsInv, TypeOK
<1>2. CASE Codes(i) # {}
  <2>1. PICK k \in Codes(i) : (\A j \in Codes(i) : j <= k) /\ t = stack[k].task
    BY <1>2 DEF TasksOf
  <2>2. InnermostOf(stack, i, k)
    BY <2>1 DEF Codes, InnermostOf, IsCode
  <2>3. data[i] \in {t, None}
    BY <2>1, <2>2 DEF JobsInv, FitsAll, DataFits, InnermostOf
  <2>4. t \in Tasks
    BY <1>1, <2>1, FrameFacts DEF Codes
  <2>5. \A l \in DOMAIN stack : InnermostOf(stack, i, l) => l = k
    BY <1>1, <2>2 DEF InnermostOf
  <2> QED BY <2>1, <2>3, <2>4, <2>5
<1>3. CASE Codes(i) = {}
  <2>1. \A k \in DOMAIN stack : ~InnermostOf(stack, i, k)
    BY <1>3 DEF Codes, InnermostOf, IsCode
  <2>2. t \in Tasks /\ data[i] \in {t, None}
    BY <1>1, <1>3 DEF TasksOf
  <2> QED BY <2>1, <2>2
<1> QED BY <1>2, <1>3

(* Types follow from those of the queue and from what fits.                *)
LEMMA TypeFromParts ==
  ASSUME queue' \in [Isolates -> Seq(Tasks \cup {None})],
         data' \in [Isolates -> Tasks \cup {None}],
         enqueued' \in Nat, FitsAll(stack', data')
  PROVE  JobsInv'
  BY DEF JobsInv, TypeOK, FitsAll

LEMMA TopIsInnermost ==
  ASSUME JobsInv, stack # <<>>, Top.kind # "drain"
  PROVE  /\ Top \in Frames
         /\ InnermostOf(stack, Top.iso, Len(stack))
         /\ stack[Len(stack)] = Top
<1>1. /\ Len(stack) \in Nat \ {0} /\ DOMAIN stack = 1 .. Len(stack)
      /\ Top = stack[Len(stack)] /\ Top \in Frames
  BY FrontFacts DEF JobsInv, FitsAll, Top
<1> QED BY <1>1 DEF InnermostOf, IsCode

-----------------------------------------------------------------------------
(* Calls of the embedder.                                                  *)
LEMMA EmbedderStep ==
  ASSUME JobsInv, NEW i \in Isolates, NEW g \in BOOLEAN,
         RunScript(i) \/ Checkpoint(i) \/ PumpMessageLoop(i) \/ Evaluate(i, g)
  PROVE  JobsInv'
<1>0. TypeOK /\ FitsAll(stack, data)
  BY DEF JobsInv
<1>1. UNCHANGED <<queue, enqueued, data>>
  BY DEF RunScript, Checkpoint, PumpMessageLoop, Evaluate, queueVars
<1>2. CASE RunScript(i)
  <2>1. PICK t \in TasksOf(i) : stack' = Append(stack, Code("script", i, t))
    BY <1>2 DEF RunScript, Push
  <2> DEFINE f == Code("script", i, t)
  <2>2. f \in Frames /\ f.kind = "script" /\ f.iso = i /\ f.task = t
    BY <2>1, TaskFits, NewFrames
  <2>3. /\ data[i] \in {t, None}
        /\ \A k \in DOMAIN stack : InnermostOf(stack, i, k) => t = stack[k].task
    BY <2>1, TaskFits
  <2> HIDE DEF f
  <2>4. FitsAll(Append(stack, f), data)
    BY <1>0, <2>2, <2>3, PushCode
  <2> QED BY <1>0, <1>1, <2>1, <2>4, TypeFromParts DEF TypeOK, f
<1>3. CASE Evaluate(i, g)
  <2>1. PICK t \in TasksOf(i) : stack' = Append(stack, Module(i, t, g))
    BY <1>3 DEF Evaluate, Push
  <2> DEFINE f == Module(i, t, g)
  <2>2. f \in Frames /\ f.kind = "module" /\ f.iso = i /\ f.task = t
    BY <2>1, TaskFits, NewFrames
  <2>3. /\ data[i] \in {t, None}
        /\ \A k \in DOMAIN stack : InnermostOf(stack, i, k) => t = stack[k].task
    BY <2>1, TaskFits
  <2> HIDE DEF f
  <2>4. FitsAll(Append(stack, f), data)
    BY <1>0, <2>2, <2>3, PushCode
  <2> QED BY <1>0, <1>1, <2>1, <2>4, TypeFromParts DEF TypeOK, f
<1>4. CASE Checkpoint(i) \/ PumpMessageLoop(i)
  <2>1. PICK by \in {"checkpoint", "pump"} :
          stack' = Append(stack, Drain(i, by, FALSE))
    BY <1>4 DEF Checkpoint, PumpMessageLoop, Push
  <2> DEFINE f == Drain(i, by, FALSE)
  <2>2. f \in Frames /\ f.kind = "drain"
    BY NewDrains
  <2> HIDE DEF f
  <2>3. FitsAll(Append(stack, f), data)
    BY <1>0, <2>2, PushDrain
  <2> QED BY <1>0, <1>1, <2>1, <2>3, TypeFromParts DEF TypeOK, f
<1> QED BY <1>2, <1>3, <1>4

(* A script or an evaluation is over, with or without a loop after it, and *)
(* so is a loop.                                                           *)
LEMMA ReturnStep ==
  ASSUME JobsInv, ScriptReturns \/ ScriptThrows \/ EvaluationEnds \/ DrainEnds
  PROVE  JobsInv'
<1>0. TypeOK /\ FitsAll(stack, data) /\ UNCHANGED <<queue, enqueued, data>>
  BY DEF JobsInv, ScriptReturns, ScriptThrows, EvaluationEnds, DrainEnds, queueVars
<1>1. stack # <<>> /\ Last(stack).kind \in {"script", "module", "drain"}
  BY DEF ScriptReturns, ScriptThrows, EvaluationEnds, DrainEnds, IsTop, Top
<1>2. FitsAll(Below, data)
  <2>1. Last(stack).kind # "job"
    BY <1>1
  <2> QED BY <1>0, <1>1, <2>1, PopFrame DEF Below
<1>3. Top \in Frames /\ Top.iso \in Isolates
  BY <1>0, <1>1, FrontFacts, FrameFacts DEF FitsAll, Top
<1>4. CASE stack' = Below
  BY <1>0, <1>2, <1>4, TypeFromParts DEF TypeOK
<1>5. CASE stack' = Append(Below, Drain(Top.iso, "script", FALSE))
  <2> DEFINE f == Drain(Top.iso, "script", FALSE)
  <2>1. f \in Frames /\ f.kind = "drain"
    BY <1>3, NewDrains
  <2> HIDE DEF f
  <2>2. FitsAll(Append(Below, f), data)
    BY <1>2, <2>1, PushDrain
  <2> QED BY <1>0, <1>5, <2>2, TypeFromParts DEF TypeOK, f
<1>6. CASE /\ IsTop("module")
           /\ stack' = Append(Below, Drain(Top.iso, "module", Top.guarded))
  <2> DEFINE f == Drain(Top.iso, "module", Top.guarded)
  <2>1. f \in Frames /\ f.kind = "drain"
    BY <1>3, <1>6, NewDrains, FrameFacts DEF IsTop
  <2> HIDE DEF f
  <2>2. FitsAll(Append(Below, f), data)
    BY <1>2, <2>1, PushDrain
  <2> QED BY <1>0, <1>6, <2>2, TypeFromParts DEF TypeOK, f
<1> QED BY <1>4, <1>5, <1>6 DEF ScriptReturns, ScriptThrows, EvaluationEnds, DrainEnds

LEMMA EnqueueStep ==
  ASSUME JobsInv, NEW i \in Isolates, Enqueue(i)
  PROVE  JobsInv'
<1>1. /\ queue \in [Isolates -> Seq(Tasks \cup {None})]
      /\ data \in [Isolates -> Tasks \cup {None}] /\ enqueued \in Nat
  BY DEF JobsInv, TypeOK
<1>2. /\ queue' = [queue EXCEPT ![i] = Append(@, data[i])]
      /\ enqueued' = enqueued + 1
      /\ UNCHANGED <<data, stack>>
  BY DEF Enqueue
<1>3. queue[i] \in Seq(Tasks \cup {None}) /\ data[i] \in Tasks \cup {None}
  BY <1>1
<1>4. Append(queue[i], data[i]) \in Seq(Tasks \cup {None})
  BY <1>3
<1>5. queue' \in [Isolates -> Seq(Tasks \cup {None})] /\ enqueued' \in Nat
  BY <1>1, <1>2, <1>4
<1>6. FitsAll(stack', data')
  BY <1>2 DEF JobsInv
<1> QED BY <1>1, <1>2, <1>5, <1>6, TypeFromParts

LEMMA SetDataStep ==
  ASSUME JobsInv, NEW d, SetContinuationData(d)
  PROVE  JobsInv'
<1>0. TypeOK /\ FitsAll(stack, data)
  BY DEF JobsInv
<1>1. /\ stack # <<>> /\ Top.kind # "drain" /\ d \in {Top.task, None}
      /\ data' = [data EXCEPT ![Top.iso] = d]
      /\ UNCHANGED <<queue, enqueued, stack>>
  BY DEF SetContinuationData, EmbedderRuns, IsTop, queueVars
<1>2. /\ Top \in Frames /\ Top.task \in Tasks /\ Top.iso \in Isolates
      /\ InnermostOf(stack, Top.iso, Len(stack))
      /\ stack[Len(stack)] = Top
  BY <1>1, TopIsInnermost, FrameFacts
<1>3. data' \in [Isolates -> Tasks \cup {None}]
  BY <1>0, <1>1, <1>2 DEF TypeOK
<1>4. DataFits(stack, data')
  <2> SUFFICES ASSUME NEW i \in Isolates, NEW k \in DOMAIN stack,
                      InnermostOf(stack, i, k)
               PROVE  data'[i] \in {stack[k].task, None}
    BY DEF DataFits
  <2>1. CASE i = Top.iso
    <3>1. k = Len(stack)
      BY <1>0, <1>2, <2>1 DEF InnermostOf, FitsAll
    <3>2. data'[i] = d
      BY <1>0, <1>1, <2>1 DEF TypeOK
    <3> QED BY <1>1, <1>2, <3>1, <3>2
  <2>2. CASE i # Top.iso
    <3>1. data'[i] = data[i]
      BY <1>0, <1>1, <2>2 DEF TypeOK
    <3> QED BY <1>0, <3>1 DEF DataFits, FitsAll
  <2> QED BY <2>1, <2>2
<1>5. FitsAll(stack', data')
  BY <1>0, <1>1, <1>4 DEF FitsAll
<1> QED BY <1>0, <1>1, <1>3, <1>5, TypeFromParts DEF TypeOK

LEMMA RunJobStep ==
  ASSUME JobsInv, RunJob
  PROVE  JobsInv'
<1>0. TypeOK /\ FitsAll(stack, data)
  BY DEF JobsInv
<1> DEFINE i == Top.iso
           captured == Head(queue[i])
           below == IF Top.by = "pump" THEN Below ELSE stack
<1>1. /\ stack # <<>> /\ Top.kind = "drain" /\ queue[i] # <<>>
      /\ queue' = [queue EXCEPT ![i] = Tail(@)]
      /\ data' = [data EXCEPT ![i] = captured]
      /\ enqueued' = enqueued
  BY DEF RunJob, IsTop
<1>2. i \in Isolates
  BY <1>0, <1>1, FrontFacts, FrameFacts DEF FitsAll, Top
<1>3. PICK t \in IF captured = None THEN Tasks ELSE {captured} :
        stack' = below \o <<Code("job", i, t)>>
  BY DEF RunJob
<1> DEFINE f == Code("job", i, t)
<1> HIDE DEF i
<1>4. queue[i] \in Seq(Tasks \cup {None})
  BY <1>0, <1>2 DEF TypeOK
<1>5. captured \in Tasks \cup {None} /\ Tail(queue[i]) \in Seq(Tasks \cup {None})
  BY <1>1, <1>4
<1> HIDE DEF captured
<1>6. t \in Tasks /\ captured \in {t, None}
  BY <1>3, <1>5
<1>7. f \in Frames /\ f.kind = "job" /\ f.iso = i /\ f.task = t
  BY <1>2, <1>6, NewFrames
<1>8. FitsAll(below, data)
  <2>1. Last(stack).kind # "job"
    BY <1>1 DEF Top
  <2>2. FitsAll(Front(stack), data)
    BY <1>0, <1>1, <2>1, PopFrame
  <2> QED BY <1>0, <2>2 DEF Below
<1>9. /\ data' \in [Isolates -> Tasks \cup {None}]
      /\ data'[i] \in {t, None}
      /\ \A j \in Isolates \ {i} : data'[j] = data[j]
      /\ queue' \in [Isolates -> Seq(Tasks \cup {None})]
  BY <1>0, <1>1, <1>2, <1>5, <1>6 DEF TypeOK
<1> HIDE DEF below, f
<1>10. FitsAll(Append(below, f), data')
  BY <1>7, <1>8, <1>9, PushCode
<1>11. below \o <<f>> = Append(below, f)
  BY <1>7, <1>8 DEF FitsAll
<1> QED BY <1>0, <1>1, <1>3, <1>9, <1>10, <1>11, TypeFromParts DEF TypeOK, f

LEMMA JobEndsStep ==
  ASSUME JobsInv, NEW terminated \in BOOLEAN, JobEnds(terminated)
  PROVE  JobsInv'
<1>0. TypeOK /\ FitsAll(stack, data)
  BY DEF JobsInv
<1>1. /\ stack # <<>> /\ Last(stack).kind = "job"
      /\ data' = [data EXCEPT ![Last(stack).iso] = None]
      /\ UNCHANGED <<queue, enqueued>>
  BY DEF JobEnds, IsTop, Top, queueVars
<1>2. data' \in [Isolates -> Tasks \cup {None}] /\ Last(stack).iso \in Isolates
  BY <1>0, <1>1, FrontFacts, FrameFacts DEF TypeOK, FitsAll
<1>3. FitsAll(Below, data')
  BY <1>0, <1>1, <1>2, PopFrame DEF Below, TypeOK
<1>4. CASE stack' = Below
  BY <1>0, <1>1, <1>2, <1>3, <1>4, TypeFromParts DEF TypeOK
<1>5. CASE /\ Below # <<>> /\ Last(Below).kind = "drain"
           /\ stack' = Front(Below)
  <2>1. FitsAll(Front(Below), data')
    BY <1>3, <1>5, PopFrame
  <2> QED BY <1>0, <1>1, <1>2, <1>5, <2>1, TypeFromParts DEF TypeOK
<1> QED BY <1>4, <1>5 DEF JobEnds

LEMMA JobsStep ==
  ASSUME JobsInv, [Next]_jobsVars
  PROVE  JobsInv'
<1>1. CASE \E i \in Isolates : \/ RunScript(i) \/ Checkpoint(i) \/ PumpMessageLoop(i)
                               \/ \E g \in BOOLEAN : Evaluate(i, g)
  BY <1>1, EmbedderStep
<1>2. CASE \E i \in Isolates : Enqueue(i)
  BY <1>2, EnqueueStep
<1>3. CASE \E d \in Tasks \cup {None} : SetContinuationData(d)
  BY <1>3, SetDataStep
<1>4. CASE RunJob
  BY <1>4, RunJobStep
<1>5. CASE \E terminated \in BOOLEAN : JobEnds(terminated)
  BY <1>5, JobEndsStep
<1>6. CASE ScriptReturns \/ ScriptThrows \/ EvaluationEnds \/ DrainEnds
  BY <1>6, ReturnStep
<1>7. CASE UNCHANGED jobsVars
  BY <1>7 DEF jobsVars, JobsInv, TypeOK
<1> QED BY <1>1, <1>2, <1>3, <1>4, <1>5, <1>6, <1>7 DEF Next, Returns

LEMMA JobsInvariant == Spec => []JobsInv
<1> QED BY JobsInit, JobsStep, PTL DEF Spec

(* The variables keep their shape.                                         *)
THEOREM TypeCorrect == Spec => []TypeOK
<1>1. JobsInv => TypeOK
  BY DEF JobsInv
<1> QED BY <1>1, JobsInvariant, PTL

(* Jobs carry the data they were enqueued with and take it away again      *)
(* (restore_job_context): no code of any isolate finds another task's.     *)
THEOREM DataStaysOwn == Spec => []OwnDataOnly
<1>1. JobsInv => OwnDataOnly
  <2> SUFFICES ASSUME JobsInv, stack # <<>>, Top.kind # "drain"
               PROVE  data[Top.iso] \in {Top.task, None}
    BY DEF OwnDataOnly
  <2>1. /\ InnermostOf(stack, Top.iso, Len(stack)) /\ stack[Len(stack)] = Top
        /\ Top.iso \in Isolates
    BY TopIsInnermost, FrameFacts
  <2> QED BY <2>1 DEF JobsInv, FitsAll, DataFits, InnermostOf
<1> QED BY <1>1, JobsInvariant, PTL

-----------------------------------------------------------------------------
(* What a step must take away so that no work of i is left.               *)
LEMMA WorkStays ==
  ASSUME NEW i, NEW s \in Seq(Frames), s # <<>>,
         ModuleWork(i, s), ~ModuleWork(i, Front(s))
  PROVE  /\ Last(s).iso = i
         /\ \/ Last(s).kind = "module"
            \/ Last(s).kind = "drain" /\ Last(s).by = "module"
<1>1. /\ Len(s) \in Nat \ {0} /\ DOMAIN s = 1 .. Len(s)
      /\ DOMAIN Front(s) = 1 .. Len(s) - 1
      /\ \A k \in 1 .. Len(s) - 1 : Front(s)[k] = s[k]
      /\ Last(s) = s[Len(s)]
  BY FrontFacts
<1>2. \A k \in DOMAIN s : k = Len(s) \/ (k \in DOMAIN Front(s) /\ Front(s)[k] = s[k])
  BY <1>1
<1> QED BY <1>1, <1>2 DEF ModuleWork

LEMMA WorkAdded ==
  ASSUME NEW i, NEW s \in Seq(Frames), NEW f \in Frames
  PROVE  /\ ModuleWork(i, s) => ModuleWork(i, Append(s, f))
         /\ f.kind = "drain" /\ f.by = "module" /\ f.iso = i
              => ModuleWork(i, Append(s, f))
<1>1. /\ Len(s) \in Nat /\ DOMAIN s = 1 .. Len(s)
      /\ DOMAIN Append(s, f) = 1 .. Len(s) + 1
      /\ Append(s, f)[Len(s) + 1] = f
      /\ \A k \in 1 .. Len(s) : Append(s, f)[k] = s[k]
  BY AppendFacts
<1>2. \A k \in DOMAIN s : k \in DOMAIN Append(s, f) /\ Append(s, f)[k] = s[k]
  BY <1>1
<1>3. Len(s) + 1 \in DOMAIN Append(s, f)
  BY <1>1
<1> QED BY <1>1, <1>2, <1>3 DEF ModuleWork

(* An evaluation that does not drain is nested in one of its isolate.      *)
LEMMA LeftToOthers ==
  ASSUME NEW i, NEW s \in Seq(Frames), Nested(i, s)
  PROVE  ModuleWork(i, s)
  BY FrameFacts DEF Nested, ModuleWork

(* ModuleEvalGuard and JOBS_DRAINING: the evaluation of an isolate that    *)
(* ends last leaves no job of the isolate behind, except inside the drain  *)
(* of another isolate.                                                     *)
THEOREM LastEvaluationDrains == Spec => ModuleJobsRun
<1> DEFINE Drained(i) == (/\ ModuleWork(i, stack) /\ ~ModuleWork(i, stack')
                          /\ ~IsTop("job") /\ ~Draining(stack'))
                         => queue[i] = <<>>
<1>1. ASSUME JobsInv, [Next]_jobsVars, NEW i \in Isolates,
             ModuleWork(i, stack), ~ModuleWork(i, stack'),
             ~IsTop("job"), ~Draining(stack')
      PROVE  queue[i] = <<>>
  <2>0. stack \in Seq(Frames)
    BY <1>1 DEF JobsInv, FitsAll
  <2>1. stack # <<>>
    BY <1>1 DEF ModuleWork
  <2>2. /\ Top \in Frames /\ Top.iso \in Isolates /\ Below \in Seq(Frames)
    BY <2>0, <2>1, FrontFacts, FrameFacts DEF Top, Below
  <2>3. CASE ScriptReturns
    <3> DEFINE f == Drain(Top.iso, "script", FALSE)
    <3>1. f \in Frames
      BY <2>2, NewDrains
    <3>2. stack' \in {Below, Append(Below, f)} /\ Top.kind = "script"
      BY <2>3 DEF ScriptReturns, IsTop
    <3> HIDE DEF f
    <3>3. ModuleWork(i, Below)
      BY <1>1, <2>0, <2>1, <3>2, WorkStays DEF Top, Below
    <3> QED BY <1>1, <2>2, <3>1, <3>2, <3>3, WorkAdded
  <2>4. CASE ScriptThrows
    BY <1>1, <2>0, <2>1, <2>4, WorkStays DEF ScriptThrows, IsTop, Top, Below
  <2>5. CASE EvaluationEnds
    <3>0. ~ModuleWork(i, Below) => Top.iso = i
      BY <1>1, <2>0, <2>1, WorkStays DEF Top, Below
    <3>1. CASE stack' = Below
      <4>1. Top.guarded /\ Nested(Top.iso, Below)
        <5>1. CASE Draining(Below)
          BY <1>1, <3>1, <5>1
        <5>2. CASE ~Draining(Below) /\ ~(Top.guarded /\ Nested(Top.iso, Below))
          <6> DEFINE f == Drain(Top.iso, "module", Top.guarded)
          <6>1. f \in Frames
            BY <2>2, <2>5, NewDrains, FrameFacts DEF EvaluationEnds, IsTop
          <6>2. Below = Append(Below, f)
            BY <2>5, <3>1, <5>2 DEF EvaluationEnds
          <6> HIDE DEF f
          <6>3. Len(Below) \in Nat /\ Len(Append(Below, f)) = Len(Below) + 1
            BY <2>2, <6>1
          <6> QED BY <6>2, <6>3
        <5> QED BY <5>1, <5>2
      <4>2. ModuleWork(Top.iso, Below)
        BY <2>2, <4>1, LeftToOthers
      <4> QED BY <1>1, <3>0, <3>1, <4>2
    <3>2. CASE stack' # Below
      <4> DEFINE f == Drain(Top.iso, "module", Top.guarded)
      <4>1. f \in Frames /\ f.kind = "drain" /\ f.by = "module" /\ f.iso = Top.iso
        <5>1. Top.guarded \in BOOLEAN
          BY <2>2, <2>5, FrameFacts DEF EvaluationEnds, IsTop
        <5> QED BY <2>2, <5>1, NewDrains DEF Drain
      <4>2. stack' = Append(Below, f)
        BY <2>5, <3>2 DEF EvaluationEnds
      <4> HIDE DEF f
      <4> QED BY <1>1, <2>2, <3>0, <4>1, <4>2, WorkAdded
    <3> QED BY <3>1, <3>2
  <2>6. CASE DrainEnds
    <3>1. Top.iso = i
      BY <1>1, <2>0, <2>1, <2>6, WorkStays DEF DrainEnds, Top, Below
    <3> QED BY <2>6, <3>1 DEF DrainEnds
  <2>7. CASE RunJob
    <3>1. PICK t : stack' = (IF Top.by = "pump" THEN Below ELSE stack)
                              \o <<Code("job", Top.iso, t)>>
                   /\ t \in Tasks
      <4>1. queue[Top.iso] \in Seq(Tasks \cup {None}) /\ queue[Top.iso] # <<>>
        BY <1>1, <2>2, <2>7 DEF RunJob, JobsInv, TypeOK
      <4>2. Head(queue[Top.iso]) \in Tasks \cup {None}
        BY <4>1
      <4> QED BY <2>7, <4>2 DEF RunJob
    <3> DEFINE f == Code("job", Top.iso, t)
    <3>2. f \in Frames
      BY <2>2, <3>1, NewFrames
    <3>3. Top.kind = "drain"
      BY <2>7 DEF RunJob, IsTop
    <3> HIDE DEF f
    <3>4. CASE Top.by = "pump"
      <4>1. ModuleWork(i, Below)
        BY <1>1, <2>0, <2>1, <3>3, <3>4, WorkStays DEF Top, Below
      <4>2. stack' = Append(Below, f)
        BY <2>2, <3>1, <3>2, <3>4 DEF f
      <4> QED BY <1>1, <2>2, <3>2, <4>1, <4>2, WorkAdded
    <3>5. CASE Top.by # "pump"
      <4>1. stack' = Append(stack, f)
        BY <2>0, <3>1, <3>2, <3>5 DEF f
      <4> QED BY <1>1, <2>0, <3>2, <4>1, WorkAdded
    <3> QED BY <3>4, <3>5
  <2>8. CASE \E terminated \in BOOLEAN : JobEnds(terminated)
    BY <1>1, <2>8 DEF JobEnds
  <2>9. CASE \E j \in Isolates : RunScript(j) \/ \E g \in BOOLEAN : Evaluate(j, g)
    <3>1. PICK j \in Isolates : RunScript(j) \/ \E g \in BOOLEAN : Evaluate(j, g)
      BY <2>9
    <3>2. \E f \in Frames : stack' = Append(stack, f)
      <4>1. CASE RunScript(j)
        BY <1>1, <4>1, TaskFits, NewFrames DEF RunScript, Push
      <4>2. CASE \E g \in BOOLEAN : Evaluate(j, g)
        BY <1>1, <4>2, TaskFits, NewFrames DEF Evaluate, Push
      <4> QED BY <3>1, <4>1, <4>2
    <3> QED BY <1>1, <2>0, <3>2, WorkAdded
  <2>10. CASE \E j \in Isolates : Checkpoint(j) \/ PumpMessageLoop(j)
    <3>1. \E f \in Frames : stack' = Append(stack, f)
      BY <2>10, NewDrains DEF Checkpoint, PumpMessageLoop, Push
    <3> QED BY <1>1, <2>0, <3>1, WorkAdded
  <2>11. CASE \/ \E j \in Isolates : Enqueue(j)
              \/ \E d \in Tasks \cup {None} : SetContinuationData(d)
              \/ UNCHANGED jobsVars
    BY <1>1, <2>11 DEF Enqueue, SetContinuationData, jobsVars
  <2> QED BY <1>1, <2>3, <2>4, <2>5, <2>6, <2>7, <2>8, <2>9, <2>10, <2>11
          DEF Next, Returns
<1>2. JobsInv /\ [Next]_jobsVars => [\A i \in Isolates : Drained(i)]_jobsVars
  BY <1>1
<1> QED BY <1>2, JobsInvariant, PTL DEF Spec, ModuleJobsRun
=============================================================================
