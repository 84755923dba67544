--------------------------- MODULE ScriptProofs ----------------------------
(***************************************************************************)
(* Proofs about ModuleLifecycle and about Exceptions, that is about what a *)
(* script or a module that runs leaves behind.                             *)
(*                                                                         *)
(* For all import graphs, any number of modules and any depth of nested    *)
(* calls: a body is started once, only what was evaluated says so, a       *)
(* rejection stays visible, and a root that was evaluated has marked its   *)
(* whole graph.                                                            *)
(*                                                                         *)
(* For any isolates, frames and exceptions, and Uses = {}, that is an      *)
(* embedder that looks at an exception before it goes on, no callback that *)
(* runs a script without a TryCatch, and no text of an uncaught exception  *)
(* that is made by JavaScript: nobody is handed an exception older than    *)
(* what he does, and a failure he was told of can still be caught.         *)
(***************************************************************************)
EXTENDS ModuleLifecycle, Exceptions, TLAPS

-----------------------------------------------------------------------------
(* Evaluate calls.                                                         *)
CallType == [root : Modules, path : Seq(Modules), open : SUBSET Modules,
             body : BOOLEAN]

(* The walk c, where e are the engine's statuses and r the runs: it runs   *)
(* through modules it has open, each once, and only the body that runs now *)
(* was started.                                                            *)
WalkOf(c, e, r) ==
  /\ c \in CallType
  /\ \A d \in c.open : e[d] = "evaluating"
  /\ \A k \in DOMAIN c.path : c.path[k] \in c.open
  /\ \A j, k \in DOMAIN c.path : c.path[j] = c.path[k] => j = k
  /\ c.body => c.path # <<>>
  /\ \A k \in DOMAIN c.path :
       ~(c.body /\ k = Len(c.path)) => r[c.path[k]] = 0

(* Walks in progress have different modules open.                          *)
Walks(cs, e, r) ==
  /\ cs \in Seq(CallType)
  /\ \A i \in DOMAIN cs : WalkOf(cs[i], e, r)
  /\ \A i, j \in DOMAIN cs : i # j => cs[i].open \cap cs[j].open = {}

LEMMA FrontFacts ==
  ASSUME NEW S, NEW s \in Seq(S), s # <<>>
  PROVE  /\ Front(s) \in Seq(S)
         /\ Len(s) \in Nat \ {0}
         /\ DOMAIN s = 1 .. Len(s) /\ DOMAIN Front(s) = 1 .. Len(s) - 1
         /\ Len(Front(s)) = Len(s) - 1
         /\ \A k \in 1 .. Len(s) - 1 : Front(s)[k] = s[k]
         /\ Last(s) = s[Len(s)]
         /\ Last(s) \in S
<1>1. Len(s) \in Nat \ {0} /\ DOMAIN s = 1 .. Len(s)
      /\ \A k \in 1 .. Len(s) : s[k] \in S
  OBVIOUS
<1>2. /\ Len(SubSeq(s, 1, Len(s) - 1)) = Len(s) - 1
      /\ SubSeq(s, 1, Len(s) - 1) \in Seq(S)
      /\ \A k \in 1 .. Len(s) - 1 : SubSeq(s, 1, Len(s) - 1)[k] = s[k]
  BY <1>1
<1> QED BY <1>1, <1>2 DEF Front, Last

LEMMA AppendFacts ==
  ASSUME NEW S, NEW s \in Seq(S), NEW x \in S
  PROVE  /\ s \o <<x>> \in Seq(S)
         /\ Append(s, x) = s \o <<x>>
         /\ Len(s) \in Nat
         /\ DOMAIN s = 1 .. Len(s) /\ DOMAIN (s \o <<x>>) = 1 .. Len(s) + 1
         /\ Len(s \o <<x>>) = Len(s) + 1
         /\ (s \o <<x>>)[Len(s) + 1] = x
         /\ \A k \in 1 .. Len(s) : (s \o <<x>>)[k] = s[k]
  OBVIOUS

(* What happens to other modules does not concern a walk.                  *)
LEMMA WalkElsewhere ==
  ASSUME NEW c, NEW e, NEW r, NEW f, NEW q, WalkOf(c, e, r),
         \A d \in c.open : f[d] = e[d] /\ q[d] = r[d]
  PROVE  WalkOf(c, f, q)
  BY DEF WalkOf

LEMMA WalksElsewhere ==
  ASSUME NEW cs, NEW e, NEW r, NEW f, NEW q, Walks(cs, e, r),
         \A d \in Modules : e[d] = "evaluating" => f[d] = e[d] /\ q[d] = r[d]
  PROVE  Walks(cs, f, q)
<1>1. ASSUME NEW i \in DOMAIN cs PROVE WalkOf(cs[i], f, q)
  <2>1. WalkOf(cs[i], e, r)
    BY DEF Walks
  <2>2. \A d \in cs[i].open : d \in Modules /\ e[d] = "evaluating"
    BY <2>1 DEF WalkOf, CallType
  <2> QED BY <2>1, <2>2, WalkElsewhere
<1> QED BY <1>1 DEF Walks

(* A call is over.                                                         *)
LEMMA PopWalk ==
  ASSUME NEW cs, NEW e, NEW r, Walks(cs, e, r), cs # <<>>
  PROVE  Walks(Front(cs), e, r)
<1>1. /\ Front(cs) \in Seq(CallType)
      /\ DOMAIN cs = 1 .. Len(cs) /\ DOMAIN Front(cs) = 1 .. Len(cs) - 1
      /\ Len(cs) \in Nat \ {0}
      /\ \A k \in 1 .. Len(cs) - 1 : Front(cs)[k] = cs[k]
  BY FrontFacts DEF Walks
<1>2. \A k \in DOMAIN Front(cs) : k \in DOMAIN cs /\ Front(cs)[k] = cs[k]
  BY <1>1
<1> QED BY <1>1, <1>2 DEF Walks

(* A call that has other modules open than those in progress.              *)
LEMMA PushWalk ==
  ASSUME NEW cs, NEW e, NEW r, Walks(cs, e, r), NEW c, WalkOf(c, e, r),
         \A i \in DOMAIN cs : cs[i].open \cap c.open = {}
  PROVE  Walks(cs \o <<c>>, e, r)
<1> DEFINE t == cs \o <<c>>
<1>0. c \in CallType
  BY DEF WalkOf
<1>1. /\ t \in Seq(CallType)
      /\ Len(cs) \in Nat
      /\ DOMAIN cs = 1 .. Len(cs) /\ DOMAIN t = 1 .. Len(cs) + 1
      /\ t[Len(cs) + 1] = c
      /\ \A k \in 1 .. Len(cs) : t[k] = cs[k]
  BY <1>0, AppendFacts DEF Walks
<1> HIDE DEF t
<1>2. \A k \in DOMAIN t : \/ k \in DOMAIN cs /\ t[k] = cs[k]
                          \/ k = Len(cs) + 1 /\ t[k] = c
  BY <1>1
<1>3. \A k \in DOMAIN t : WalkOf(t[k], e, r)
  BY <1>2 DEF Walks
<1>4. \A i, j \in DOMAIN t : i # j => t[i].open \cap t[j].open = {}
  BY <1>2 DEF Walks
<1> QED BY <1>1, <1>3, <1>4 DEF Walks, t

(* The innermost walk goes on: with modules it has open, or that no walk   *)
(* had.                                                                    *)
LEMMA SetTopWalk ==
  ASSUME NEW cs, NEW e, NEW r, NEW f, NEW q, Walks(cs, e, r), cs # <<>>,
         NEW c, WalkOf(c, f, q),
         \A d \in c.open : d \in Last(cs).open \/ e[d] # "evaluating",
         \A d \in Modules :
           e[d] = "evaluating" /\ d \notin Last(cs).open
             => f[d] = e[d] /\ q[d] = r[d]
  PROVE  Walks(Front(cs) \o <<c>>, f, q)
<1>1. Walks(Front(cs), e, r)
  BY PopWalk
<1>2. /\ DOMAIN cs = 1 .. Len(cs) /\ DOMAIN Front(cs) = 1 .. Len(cs) - 1
      /\ Len(cs) \in Nat \ {0}
      /\ \A k \in 1 .. Len(cs) - 1 : Front(cs)[k] = cs[k]
      /\ Last(cs) = cs[Len(cs)]
  BY FrontFacts DEF Walks
<1>3. ASSUME NEW i \in DOMAIN Front(cs)
      PROVE  /\ WalkOf(Front(cs)[i], f, q)
             /\ Front(cs)[i].open \cap c.open = {}
  <2>1. /\ i \in DOMAIN cs /\ Len(cs) \in DOMAIN cs /\ i # Len(cs)
        /\ Front(cs)[i] = cs[i]
    BY <1>2
  <2>2. cs[i].open \cap Last(cs).open = {} /\ WalkOf(cs[i], e, r)
    BY <1>2, <2>1 DEF Walks
  <2>3. \A d \in cs[i].open : d \in Modules /\ e[d] = "evaluating"
    BY <2>2 DEF WalkOf, CallType
  <2>4. WalkOf(cs[i], f, q)
    <3>1. \A d \in cs[i].open : f[d] = e[d] /\ q[d] = r[d]
      BY <2>2, <2>3
    <3> QED BY <2>2, <3>1, WalkElsewhere
  <2> QED BY <2>1, <2>2, <2>3, <2>4
<1>4. Walks(Front(cs), f, q)
  BY <1>1, <1>3 DEF Walks
<1> QED BY <1>3, <1>4, PushWalk

-----------------------------------------------------------------------------
Statuses == {"none", "Uninstantiated", "Instantiated", "Evaluated", "Errored"}

EngineStatuses == {"none", "unlinked", "linked"} \cup Started

(* The engine's part: what was not started has not run.                    *)
WalkInv ==
  /\ engine \in [Modules -> EngineStatuses]
  /\ runs \in [Modules -> Nat]
  /\ Walks(calls, engine, runs)
  /\ \A m \in Modules : engine[m] \in {"none", "unlinked", "linked"} => runs[m] = 0
  /\ BodyRunsOnce

(* The wrappers' part: there is a definition only where there is a         *)
(* wrapper, and roots are evaluated.                                       *)
StatusInv ==
  /\ status \in [Modules -> Statuses]
  /\ handed \in [Modules -> {"none", "fulfilled", "rejected", "engine"}]
  /\ \A m \in Modules : status[m] = "none" => engine[m] = "none"
  /\ \A i \in DOMAIN calls : engine[calls[i].root] \in Started
  /\ EvaluatedHasStarted
  /\ RejectedIsErrored

ModuleInv == WalkInv /\ StatusInv

LEMMA InitInv == Init => ModuleInv
<1> SUFFICES ASSUME Init PROVE ModuleInv
  OBVIOUS
<1>1. calls \in Seq(CallType) /\ DOMAIN calls = {}
  BY DEF Init
<1>2. Walks(calls, engine, runs)
  BY <1>1 DEF Walks
<1> QED BY <1>1, <1>2 DEF Init, ModuleInv, WalkInv, StatusInv, BodyRunsOnce,
              EvaluatedHasStarted, RejectedIsErrored, Statuses, EngineStatuses, Started

(* The innermost call while the engine works, and while a body runs.       *)
LEMMA TopWalk ==
  ASSUME WalkInv, calls # <<>>
  PROVE  /\ WalkOf(Top, engine, runs)
         /\ Top \in CallType
         /\ Top.open \subseteq Modules
         /\ \A d \in Top.open : engine[d] = "evaluating"
<1>0. calls \in Seq(CallType)
  BY DEF WalkInv, Walks
<1>1. Walks(calls, engine, runs)
  BY DEF WalkInv
<1>2. Top = calls[Len(calls)] /\ Len(calls) \in DOMAIN calls
  <2>1. /\ Len(calls) \in Nat \ {0} /\ DOMAIN calls = 1 .. Len(calls)
        /\ Last(calls) = calls[Len(calls)]
    BY <1>0, FrontFacts
  <2>2. Len(calls) \in 1 .. Len(calls)
    BY <2>1
  <2> QED BY <2>1, <2>2 DEF Top
<1>3. WalkOf(Top, engine, runs)
  BY <1>1, <1>2 DEF Walks
<1> QED BY <1>3 DEF WalkOf, CallType

LEMMA CurrentFacts ==
  ASSUME WalkInv, calls # <<>>, Top.path # <<>>
  PROVE  /\ Len(Top.path) \in Nat \ {0}
         /\ DOMAIN Top.path = 1 .. Len(Top.path)
         /\ Current = Top.path[Len(Top.path)]
         /\ Current \in Top.open /\ Current \in Modules
         /\ Front(Top.path) \in Seq(Modules)
         /\ Len(Front(Top.path)) = Len(Top.path) - 1
         /\ DOMAIN Front(Top.path) = 1 .. Len(Top.path) - 1
         /\ \A k \in 1 .. Len(Top.path) - 1 : Front(Top.path)[k] = Top.path[k]
         /\ ~Top.body => runs[Current] = 0
<1>1. Top.path \in Seq(Modules) /\ WalkOf(Top, engine, runs)
  BY TopWalk DEF CallType
<1>2. /\ Len(Top.path) \in Nat \ {0}
      /\ DOMAIN Top.path = 1 .. Len(Top.path)
      /\ Current = Top.path[Len(Top.path)]
      /\ Current \in Modules
      /\ Front(Top.path) \in Seq(Modules)
      /\ Len(Front(Top.path)) = Len(Top.path) - 1
      /\ DOMAIN Front(Top.path) = 1 .. Len(Top.path) - 1
      /\ \A k \in 1 .. Len(Top.path) - 1 : Front(Top.path)[k] = Top.path[k]
  BY <1>1, FrontFacts DEF Current
<1>3. Len(Top.path) \in DOMAIN Top.path
  BY <1>2
<1>4. Current \in Top.open /\ (~Top.body => runs[Current] = 0)
  BY <1>1, <1>2, <1>3 DEF WalkOf
<1> QED BY <1>2, <1>4

(* A new call that walks nothing.                                          *)
LEMMA EmptyWalk ==
  ASSUME NEW m \in Modules, NEW e, NEW r
  PROVE  WalkOf(Call(m), e, r) /\ Call(m).root = m /\ Call(m).open = {}
<1>1. <<>> \in Seq(Modules) /\ DOMAIN <<>> = {}
  OBVIOUS
<1>2. Call(m) \in CallType /\ Call(m).open = {} /\ Call(m).path = <<>>
      /\ Call(m).body = FALSE /\ Call(m).root = m
  BY <1>1 DEF Call, CallType
<1> QED BY <1>1, <1>2 DEF WalkOf

(* The statuses a step of the engine may leave: what was started stays     *)
(* started, and calls keep their roots.                                    *)
LEMMA EngineStatusStep ==
  ASSUME StatusInv, UNCHANGED <<status, handed>>,
         \A m \in Modules : engine[m] = "none" => engine'[m] = "none",
         \A m \in Modules : engine[m] \in Started => engine'[m] \in Started,
         DOMAIN calls' = DOMAIN calls,
         \A i \in DOMAIN calls : calls'[i].root = calls[i].root,
         \A i \in DOMAIN calls : calls[i].root \in Modules
  PROVE  StatusInv'
  BY DEF StatusInv, EvaluatedHasStarted, RejectedIsErrored

(* SetTop keeps the number of calls and their roots.                       *)
LEMMA SetTopRoots ==
  ASSUME WalkInv, calls # <<>>, NEW c \in CallType, c.root = Top.root, SetTop(c)
  PROVE  /\ DOMAIN calls' = DOMAIN calls
         /\ \A i \in DOMAIN calls : /\ calls'[i].root = calls[i].root
                                    /\ calls[i].root \in Modules
<1>1. calls \in Seq(CallType)
  BY DEF WalkInv, Walks
<1>2. /\ Front(calls) \in Seq(CallType)
      /\ Len(calls) \in Nat \ {0}
      /\ DOMAIN calls = 1 .. Len(calls)
      /\ Len(Front(calls)) = Len(calls) - 1
      /\ \A k \in 1 .. Len(calls) - 1 : Front(calls)[k] = calls[k]
      /\ Top = calls[Len(calls)]
  BY <1>1, FrontFacts DEF Top
<1>3. /\ DOMAIN calls' = 1 .. Len(calls)
      /\ calls'[Len(calls)] = c
      /\ \A k \in 1 .. Len(calls) - 1 : calls'[k] = calls[k]
  <2> DEFINE s == Front(calls)
             t == s \o <<c>>
  <2>1. s \in Seq(CallType) /\ Len(s) = Len(calls) - 1
    BY <1>2
  <2> HIDE DEF s
  <2>2. /\ DOMAIN t = 1 .. Len(s) + 1
        /\ t[Len(s) + 1] = c
        /\ \A k \in 1 .. Len(s) : t[k] = s[k]
    BY <2>1, AppendFacts
  <2>3. calls' = t
    BY DEF SetTop, s
  <2> HIDE DEF t
  <2>4. Len(s) + 1 = Len(calls) /\ 1 .. Len(s) = 1 .. Len(calls) - 1
    BY <1>2, <2>1
  <2>5. \A k \in 1 .. Len(calls) - 1 : s[k] = calls[k]
    BY <1>2 DEF s
  <2> QED BY <2>2, <2>3, <2>4, <2>5
<1>4. \A i \in DOMAIN calls : calls[i].root \in Modules
  <2>1. \A i \in DOMAIN calls : calls[i] \in CallType
    BY <1>1
  <2> QED BY <2>1 DEF CallType
<1> QED BY <1>2, <1>3, <1>4

-----------------------------------------------------------------------------
(* Modules and their definitions come into being.                          *)
LEMMA CompileStep ==
  ASSUME ModuleInv, NEW m \in Modules, NEW links \in BOOLEAN, CompileModule(m, links)
  PROVE  ModuleInv'
<1>1. /\ status[m] = "none" /\ status' = [status EXCEPT ![m] = "Uninstantiated"]
      /\ UNCHANGED <<engine, runs, calls, handed>>
  BY DEF CompileModule
<1>2. WalkInv'
  BY <1>1 DEF ModuleInv, WalkInv, BodyRunsOnce
<1>3. StatusInv'
  BY <1>1 DEF ModuleInv, StatusInv, Statuses, EvaluatedHasStarted, RejectedIsErrored
<1> QED BY <1>2, <1>3 DEF ModuleInv

LEMMA CreateStep ==
  ASSUME ModuleInv, NEW m \in Modules, CreateSyntheticModule(m)
  PROVE  ModuleInv'
<1>1. /\ status[m] = "none" /\ status' = [status EXCEPT ![m] = "Uninstantiated"]
      /\ engine' = [engine EXCEPT ![m] = "unlinked"]
      /\ UNCHANGED <<runs, calls, handed>>
  BY DEF CreateSyntheticModule
<1>2. /\ engine[m] = "none" /\ engine \in [Modules -> EngineStatuses]
      /\ status \in [Modules -> Statuses]
  BY <1>1 DEF ModuleInv, WalkInv, StatusInv
<1>3. Walks(calls, engine', runs)
  <2>1. \A d \in Modules : engine[d] = "evaluating" => engine'[d] = engine[d]
    BY <1>1, <1>2
  <2> QED BY <2>1, WalksElsewhere DEF ModuleInv, WalkInv
<1>4. WalkInv'
  BY <1>1, <1>2, <1>3 DEF ModuleInv, WalkInv, BodyRunsOnce, EngineStatuses
<1>5. StatusInv'
  <2>1. \A d \in Modules : /\ engine[d] \in Started => engine'[d] = engine[d]
                           /\ d # m => engine'[d] = engine[d] /\ status'[d] = status[d]
    BY <1>1, <1>2 DEF Started
  <2>2. \A i \in DOMAIN calls : calls[i].root \in Modules
    <3>1. \A i \in DOMAIN calls : calls[i] \in CallType
      BY DEF ModuleInv, WalkInv, Walks
    <3> QED BY <3>1 DEF CallType
  <2>3. status'[m] = "Uninstantiated" /\ status' \in [Modules -> Statuses]
    BY <1>1, <1>2 DEF Statuses
  <2> QED BY <1>1, <2>1, <2>2, <2>3
          DEF ModuleInv, StatusInv, EvaluatedHasStarted, RejectedIsErrored
<1> QED BY <1>4, <1>5 DEF ModuleInv

LEMMA Roots == WalkInv => \A i \in DOMAIN calls : calls[i].root \in Modules
<1> SUFFICES ASSUME WalkInv, NEW i \in DOMAIN calls PROVE calls[i].root \in Modules
  OBVIOUS
<1>1. calls[i] \in CallType
  BY DEF WalkInv, Walks
<1> QED BY <1>1 DEF CallType

LEMMA InstantiateStep ==
  ASSUME ModuleInv, NEW m \in Modules, InstantiateModule(m)
  PROVE  ModuleInv'
<1>0. /\ engine \in [Modules -> EngineStatuses] /\ status \in [Modules -> Statuses]
      /\ UNCHANGED <<runs, calls, handed>>
      /\ \A d \in Graph(m) : status[d] # "none"
  BY DEF ModuleInv, WalkInv, StatusInv, InstantiateModule
<1>1. engine' \in [Modules -> EngineStatuses]
  BY <1>0 DEF InstantiateModule, Definition, Linked, EngineStatuses, Started
<1>2. \A d \in Modules :
        \/ engine'[d] = engine[d]
        \/ /\ engine[d] \in {"none", "unlinked"} /\ engine'[d] \in {"unlinked", "linked"}
           /\ d \in Graph(m)
  BY <1>0 DEF InstantiateModule, Definition, Linked, EngineStatuses, Started
<1>3. /\ status' \in [Modules -> Statuses]
      /\ \A d \in Modules \ {m} : status'[d] = status[d]
      /\ status'[m] \in {status[m], "Errored", "Instantiated"}
      /\ status'[m] = "Instantiated" => status[m] # "Errored"
      /\ status[m] # "none" => status'[m] # "none"
  BY <1>0 DEF InstantiateModule, Statuses
<1>4. Walks(calls, engine', runs)
  <2>1. \A d \in Modules : engine[d] = "evaluating" => engine'[d] = engine[d]
    BY <1>2
  <2> QED BY <2>1, WalksElsewhere DEF ModuleInv, WalkInv
<1>5. WalkInv'
  <2>1. \A d \in Modules : engine'[d] \in {"none", "unlinked", "linked"}
                            => engine[d] \in {"none", "unlinked", "linked"}
    BY <1>2
  <2> QED BY <1>0, <1>1, <1>4, <2>1 DEF ModuleInv, WalkInv, BodyRunsOnce
<1>6. \A d \in Modules : engine[d] \in Started => engine'[d] = engine[d]
  BY <1>2 DEF Started
<1>7. \A d \in Modules : status'[d] = "none" => engine'[d] = "none"
  BY <1>0, <1>2, <1>3 DEF ModuleInv, StatusInv
<1>8. EvaluatedHasStarted'
  BY <1>3, <1>6 DEF ModuleInv, StatusInv, EvaluatedHasStarted
<1>9. RejectedIsErrored'
  BY <1>0, <1>3 DEF ModuleInv, StatusInv, RejectedIsErrored
<1>10. \A i \in DOMAIN calls' : engine'[calls'[i].root] \in Started
  BY <1>0, <1>6, Roots DEF ModuleInv, StatusInv
<1> QED BY <1>0, <1>3, <1>5, <1>7, <1>8, <1>9, <1>10 DEF ModuleInv, StatusInv

-----------------------------------------------------------------------------
(* A call is pushed; a definition that was only linked is entered.         *)
LEMMA EvalWalk ==
  ASSUME WalkInv, NEW m \in Modules, EvalFunction(m), UNCHANGED runs,
         engine[m] \notin {"none", "unlinked"}
  PROVE  /\ WalkInv'
         /\ engine'[m] \in Started
         /\ \A d \in Modules \ {m} : engine'[d] = engine[d]
         /\ \A i \in DOMAIN calls : i \in DOMAIN calls' /\ calls'[i] = calls[i]
         /\ \A i \in DOMAIN calls' : i \in DOMAIN calls \/ calls'[i].root = m
         /\ \E i \in DOMAIN calls' : calls'[i].root = m
<1>0. /\ engine \in [Modules -> EngineStatuses] /\ runs \in [Modules -> Nat]
      /\ calls \in Seq(CallType) /\ Walks(calls, engine, runs)
  BY DEF WalkInv, Walks
<1>1. PICK c : /\ c = IF engine[m] = "linked"
                        THEN [Call(m) EXCEPT !.path = <<m>>, !.open = {m}]
                        ELSE Call(m)
               /\ calls' = Append(calls, c)
               /\ engine' = IF engine[m] = "linked"
                              THEN [engine EXCEPT ![m] = "evaluating"] ELSE engine
  BY DEF EvalFunction
<1>2. /\ engine'[m] \in Started
      /\ \A d \in Modules \ {m} : engine'[d] = engine[d]
      /\ engine' \in [Modules -> EngineStatuses]
  BY <1>0, <1>1 DEF EngineStatuses, Started
<1>3. c \in CallType /\ c.root = m /\ WalkOf(c, engine', runs')
  <2>1. CASE engine[m] = "linked"
    <3>1. /\ c.root = m /\ c.path = <<m>> /\ c.open = {m} /\ c.body = FALSE
          /\ c \in CallType
      <4>1. c = [root |-> m, path |-> <<m>>, open |-> {m}, body |-> FALSE]
        BY <1>1, <2>1 DEF Call
      <4>2. <<m>> \in Seq(Modules) /\ {m} \in SUBSET Modules
        OBVIOUS
      <4> QED BY <4>1, <4>2 DEF CallType
    <3>2. engine'[m] = "evaluating" /\ runs'[m] = 0
      BY <1>0, <1>1, <2>1 DEF WalkInv
    <3>3. DOMAIN c.path = {1} /\ c.path[1] = m
      BY <3>1
    <3> QED BY <3>1, <3>2, <3>3 DEF WalkOf
  <2>2. CASE engine[m] # "linked"
    <3>1. c = Call(m)
      BY <1>1, <2>2
    <3>2. WalkOf(c, engine', runs') /\ c.root = m
      BY <3>1, EmptyWalk
    <3> QED BY <3>2 DEF WalkOf
  <2> QED BY <2>1, <2>2
<1>4. Walks(calls', engine', runs')
  <2>1. Walks(calls, engine', runs')
    <3>1. \A d \in Modules : engine[d] = "evaluating"
                              => engine'[d] = engine[d] /\ runs'[d] = runs[d]
      BY <1>0, <1>1
    <3> QED BY <1>0, <3>1, WalksElsewhere
  <2>2. ASSUME NEW i \in DOMAIN calls PROVE calls[i].open \cap c.open = {}
    <3>1. \A d \in calls[i].open : engine[d] = "evaluating"
      BY <1>0 DEF Walks, WalkOf
    <3>2. \A d \in c.open : d = m /\ engine[m] = "linked"
      BY <1>1, EmptyWalk DEF Call
    <3> QED BY <3>1, <3>2
  <2>3. calls' = calls \o <<c>>
    BY <1>0, <1>1, <1>3, AppendFacts
  <2> QED BY <1>3, <2>1, <2>2, <2>3, PushWalk
<1>5. WalkInv'
  <2>1. \A d \in Modules : engine'[d] \in {"none", "unlinked", "linked"}
                            => engine[d] \in {"none", "unlinked", "linked"}
    BY <1>2 DEF Started
  <2> QED BY <1>0, <1>2, <1>4, <2>1 DEF WalkInv, BodyRunsOnce
<1>6. /\ Len(calls) \in Nat
      /\ DOMAIN calls = 1 .. Len(calls) /\ DOMAIN calls' = 1 .. Len(calls) + 1
      /\ calls'[Len(calls) + 1] = c
      /\ \A k \in 1 .. Len(calls) : calls'[k] = calls[k]
  BY <1>0, <1>1, <1>3, AppendFacts
<1>7. \A i \in DOMAIN calls' : i \in DOMAIN calls \/ calls'[i] = c
  BY <1>6
<1>8. Len(calls) + 1 \in DOMAIN calls'
  BY <1>6
<1> QED BY <1>2, <1>3, <1>5, <1>6, <1>7, <1>8

LEMMA EvaluateStep ==
  ASSUME ModuleInv, NEW m \in Modules, Evaluate(m) \/ EvaluateSynthetic(m)
  PROVE  ModuleInv'
<1>0. /\ engine \in [Modules -> EngineStatuses] /\ status \in [Modules -> Statuses]
      /\ handed \in [Modules -> {"none", "fulfilled", "rejected", "engine"}]
      /\ engine[m] \notin {"none", "unlinked"} /\ UNCHANGED runs
      /\ WalkInv /\ StatusInv
  BY DEF ModuleInv, WalkInv, StatusInv, Evaluate, EvaluateSynthetic, MayEvaluate
<1>1. /\ status' \in [Modules -> Statuses]
      /\ \A d \in Modules \ {m} : status'[d] = status[d]
      /\ status'[m] \in {status[m], "Evaluated"}
  BY <1>0 DEF Evaluate, EvaluateSynthetic, Statuses
<1>2. status[m] # "none"
  BY <1>0 DEF StatusInv
<1>3. CASE EvalFunction(m) /\ UNCHANGED handed
  <2>1. /\ WalkInv'
        /\ engine'[m] \in Started
        /\ \A d \in Modules \ {m} : engine'[d] = engine[d]
        /\ \A i \in DOMAIN calls : i \in DOMAIN calls' /\ calls'[i] = calls[i]
        /\ \A i \in DOMAIN calls' : i \in DOMAIN calls \/ calls'[i].root = m
        /\ \E i \in DOMAIN calls' : calls'[i].root = m
    BY <1>0, <1>3, EvalWalk
  <2>2. \A d \in Modules : engine[d] \in Started => engine'[d] \in Started
    BY <2>1
  <2>3. EvaluatedHasStarted'
    BY <1>0, <1>1, <2>1 DEF StatusInv, EvaluatedHasStarted
  <2>4. RejectedIsErrored'
    BY <1>0, <1>1, <1>3, <2>1 DEF StatusInv, RejectedIsErrored
  <2>5. \A i \in DOMAIN calls' : engine'[calls'[i].root] \in Started
    BY <1>0, <2>1, <2>2, Roots DEF StatusInv
  <2>6. \A d \in Modules : status'[d] = "none" => engine'[d] = "none"
    BY <1>0, <1>1, <1>2, <2>1 DEF StatusInv
  <2> QED BY <1>0, <1>1, <1>3, <2>1, <2>3, <2>4, <2>5, <2>6 DEF ModuleInv, StatusInv
<1>4. CASE /\ handed' = [handed EXCEPT ![m] = "fulfilled"]
           /\ UNCHANGED <<engine, calls>>
           /\ engine[m] \in Started
  <2>1. WalkInv'
    BY <1>0, <1>4 DEF WalkInv, BodyRunsOnce
  <2>2. EvaluatedHasStarted' /\ RejectedIsErrored'
    BY <1>0, <1>1, <1>4 DEF StatusInv, EvaluatedHasStarted, RejectedIsErrored
  <2> QED BY <1>0, <1>1, <1>2, <1>4, <2>1, <2>2 DEF ModuleInv, StatusInv
<1>5. status[m] = "Evaluated" \/ engine[m] = "evaluating" => engine[m] \in Started
  BY <1>0 DEF StatusInv, EvaluatedHasStarted, Started
<1> QED BY <1>3, <1>4, <1>5 DEF Evaluate, EvaluateSynthetic

-----------------------------------------------------------------------------
(* The engine goes on with the innermost walk.                             *)
LEMMA EnterStep ==
  ASSUME ModuleInv, NEW d \in Modules, EnterImport(d)
  PROVE  ModuleInv'
<1>0. /\ engine \in [Modules -> EngineStatuses] /\ runs \in [Modules -> Nat]
      /\ Walks(calls, engine, runs) /\ WalkInv /\ StatusInv
  BY DEF ModuleInv, WalkInv
<1> DEFINE c == [Top EXCEPT !.path = Append(@, d), !.open = @ \cup {d}]
<1>1. /\ calls # <<>> /\ ~Top.body /\ Top.path # <<>> /\ engine[d] = "linked"
      /\ engine' = [engine EXCEPT ![d] = "evaluating"]
      /\ SetTop(c)
      /\ UNCHANGED <<status, runs, handed>>
  BY DEF EnterImport, Walking
<1>2. /\ WalkOf(Top, engine, runs) /\ Top \in CallType
      /\ Top.open \subseteq Modules /\ \A x \in Top.open : engine[x] = "evaluating"
  BY <1>0, <1>1, TopWalk
<1> DEFINE p == Top.path \o <<d>>
<1>3. /\ p \in Seq(Modules) /\ Append(Top.path, d) = p
      /\ Len(Top.path) \in Nat /\ Len(p) = Len(Top.path) + 1
      /\ DOMAIN Top.path = 1 .. Len(Top.path) /\ DOMAIN p = 1 .. Len(Top.path) + 1
      /\ p[Len(Top.path) + 1] = d
      /\ \A k \in 1 .. Len(Top.path) : p[k] = Top.path[k]
  <2>1. Top.path \in Seq(Modules)
    BY <1>2 DEF CallType
  <2> QED BY <2>1, AppendFacts
<1> HIDE DEF p
<1>4. /\ c \in CallType /\ c.root = Top.root /\ c.path = p
      /\ c.open = Top.open \cup {d} /\ c.body = FALSE
  BY <1>1, <1>2, <1>3 DEF CallType
<1> HIDE DEF c
<1>5. d \notin Top.open /\ runs[d] = 0 /\ engine'[d] = "evaluating"
  BY <1>0, <1>1, <1>2 DEF WalkInv
<1>6. WalkOf(c, engine', runs)
  <2>1. \A k \in DOMAIN p : \/ k \in DOMAIN Top.path /\ p[k] = Top.path[k]
                            \/ k = Len(Top.path) + 1 /\ p[k] = d
    BY <1>3
  <2>2. \A k \in DOMAIN Top.path : Top.path[k] \in Top.open /\ runs[Top.path[k]] = 0
    BY <1>1, <1>2 DEF WalkOf
  <2>3. \A k \in DOMAIN p : p[k] \in c.open /\ runs[p[k]] = 0
    BY <1>4, <1>5, <2>1, <2>2
  <2>4. \A j, k \in DOMAIN p : p[j] = p[k] => j = k
    BY <1>2, <1>5, <2>1, <2>2 DEF WalkOf
  <2>5. \A x \in c.open : engine'[x] = "evaluating"
    BY <1>0, <1>1, <1>2, <1>4, <1>5
  <2> QED BY <1>4, <2>3, <2>4, <2>5 DEF WalkOf
<1>7. Walks(calls', engine', runs')
  <2>1. \A x \in c.open : x \in Last(calls).open \/ engine[x] # "evaluating"
    BY <1>1, <1>4 DEF Top
  <2>2. \A x \in Modules : engine[x] = "evaluating" => engine'[x] = engine[x]
    BY <1>0, <1>1
  <2> QED BY <1>0, <1>1, <1>6, <2>1, <2>2, SetTopWalk DEF SetTop
<1>8. \A x \in Modules : x # d => engine'[x] = engine[x]
  BY <1>0, <1>1
<1>9. engine' \in [Modules -> EngineStatuses]
  BY <1>0, <1>1 DEF EngineStatuses, Started
<1>10. WalkInv'
  BY <1>0, <1>1, <1>5, <1>7, <1>8, <1>9 DEF WalkInv, BodyRunsOnce
<1>11. StatusInv'
  <2>1. /\ \A x \in Modules : engine[x] = "none" => engine'[x] = "none"
        /\ \A x \in Modules : engine[x] \in Started => engine'[x] \in Started
    BY <1>1, <1>8 DEF Started
  <2> QED BY <1>0, <1>1, <1>4, <2>1, SetTopRoots, EngineStatusStep
<1> QED BY <1>10, <1>11 DEF ModuleInv

(* All that the walk has open fails.                                       *)
LEMMA FailStep ==
  ASSUME ModuleInv, calls # <<>>, Fail, UNCHANGED <<status, runs, handed>>
  PROVE  ModuleInv'
<1>0. /\ engine \in [Modules -> EngineStatuses] /\ runs \in [Modules -> Nat]
      /\ Walks(calls, engine, runs) /\ WalkInv /\ StatusInv
  BY DEF ModuleInv, WalkInv
<1>1. /\ Top.root \in Modules
      /\ Top.open \subseteq Modules /\ \A x \in Top.open : engine[x] = "evaluating"
  BY <1>0, TopWalk DEF CallType
<1> DEFINE c == Call(Top.root)
<1>2. /\ engine' = [d \in Modules |-> IF d \in Top.open THEN "failed" ELSE engine[d]]
      /\ SetTop(c)
  BY DEF Fail
<1>3. WalkOf(c, engine', runs) /\ c.root = Top.root /\ c.open = {}
  BY <1>1, EmptyWalk
<1> HIDE DEF c
<1>4. \A x \in Modules : \/ engine'[x] = engine[x] /\ x \notin Top.open
                         \/ engine[x] = "evaluating" /\ engine'[x] = "failed"
  BY <1>1, <1>2
<1>5. Walks(calls', engine', runs')
  <2>1. \A x \in Modules : engine[x] = "evaluating" /\ x \notin Last(calls).open
                            => engine'[x] = engine[x]
    BY <1>2 DEF Top
  <2> QED BY <1>0, <1>2, <1>3, <2>1, SetTopWalk DEF SetTop
<1>6. engine' \in [Modules -> EngineStatuses]
  BY <1>0, <1>2 DEF EngineStatuses, Started
<1>7. WalkInv'
  BY <1>0, <1>4, <1>5, <1>6 DEF WalkInv, BodyRunsOnce
<1>8. StatusInv'
  <2>1. /\ \A x \in Modules : engine[x] = "none" => engine'[x] = "none"
        /\ \A x \in Modules : engine[x] \in Started => engine'[x] \in Started
    BY <1>4 DEF Started
  <2>2. c \in CallType
    BY <1>3 DEF WalkOf
  <2> QED BY <1>0, <1>2, <1>3, <2>1, <2>2, SetTopRoots, EngineStatusStep
<1> QED BY <1>7, <1>8 DEF ModuleInv

LEMMA StartBodyStep ==
  ASSUME ModuleInv, StartBody
  PROVE  ModuleInv'
<1>0. /\ engine \in [Modules -> EngineStatuses] /\ runs \in [Modules -> Nat]
      /\ Walks(calls, engine, runs) /\ WalkInv /\ StatusInv
  BY DEF ModuleInv, WalkInv
<1> DEFINE c == [Top EXCEPT !.body = TRUE]
<1>1. /\ calls # <<>> /\ ~Top.body /\ Top.path # <<>>
      /\ runs' = [runs EXCEPT ![Current] = @ + 1]
      /\ SetTop(c)
      /\ UNCHANGED <<status, engine, handed>>
  BY DEF StartBody, ImportsDone, Walking
<1>2. /\ WalkOf(Top, engine, runs) /\ Top \in CallType
      /\ \A x \in Top.open : engine[x] = "evaluating"
  BY <1>0, <1>1, TopWalk
<1>3. /\ Len(Top.path) \in Nat \ {0} /\ DOMAIN Top.path = 1 .. Len(Top.path)
      /\ Current = Top.path[Len(Top.path)]
      /\ Current \in Top.open /\ Current \in Modules /\ runs[Current] = 0
  BY <1>0, <1>1, CurrentFacts
<1>4. /\ c \in CallType /\ c.root = Top.root /\ c.path = Top.path
      /\ c.open = Top.open /\ c.body = TRUE
  BY <1>2 DEF CallType
<1> HIDE DEF c
<1>5. runs'[Current] = 1 /\ \A x \in Modules \ {Current} : runs'[x] = runs[x]
  BY <1>0, <1>1, <1>3
<1>6. WalkOf(c, engine, runs')
  <2>1. ASSUME NEW k \in DOMAIN c.path, k # Len(c.path)
        PROVE  runs'[c.path[k]] = 0
    <3>1. c.path[k] # Current /\ c.path[k] \in Modules /\ runs[c.path[k]] = 0
      BY <1>1, <1>2, <1>3, <1>4, <2>1 DEF WalkOf, CallType
    <3> QED BY <1>5, <3>1
  <2> QED BY <1>1, <1>2, <1>4, <2>1 DEF WalkOf
<1>7. Walks(calls', engine', runs')
  <2>1. \A x \in Modules : engine[x] = "evaluating" /\ x \notin Last(calls).open
                            => runs'[x] = runs[x]
    BY <1>3, <1>5 DEF Top
  <2>2. \A x \in c.open : x \in Last(calls).open
    BY <1>4 DEF Top
  <2> QED BY <1>0, <1>1, <1>6, <2>1, <2>2, SetTopWalk DEF SetTop
<1>8. engine[Current] = "evaluating"
  BY <1>2, <1>3
<1>9. runs' \in [Modules -> Nat]
  BY <1>0, <1>1, <1>3
<1>10. WalkInv'
  BY <1>0, <1>1, <1>5, <1>7, <1>8, <1>9 DEF WalkInv, BodyRunsOnce
<1>11. StatusInv'
  BY <1>0, <1>1, <1>4, SetTopRoots, EngineStatusStep
<1> QED BY <1>10, <1>11 DEF ModuleInv

(* The walk leaves the current module: what is on the rest of its path     *)
(* stays open, as Leave finishes nothing while that waits.                 *)
LEMMA LeaveStep ==
  ASSUME ModuleInv, calls # <<>>, Top.path # <<>>, NEW state \in {"evaluated", "async"},
         Leave(state), UNCHANGED <<status, runs, handed>>
  PROVE  ModuleInv'
<1>0. /\ engine \in [Modules -> EngineStatuses] /\ runs \in [Modules -> Nat]
      /\ Walks(calls, engine, runs) /\ WalkInv /\ StatusInv
  BY DEF ModuleInv, WalkInv
<1> DEFINE rest == Front(Top.path)
           waits == \E i \in DOMAIN rest : rest[i] \in Graph(Current)
           done == IF waits THEN {}
                   ELSE { d \in Top.open : d \in Graph(Current) /\ Current \in Graph(d) }
           c == [Top EXCEPT !.path = rest, !.open = @ \ done, !.body = FALSE]
<1>1. /\ engine' = [d \in Modules |-> IF d \in done THEN state ELSE engine[d]]
      /\ SetTop(c)
  BY DEF Leave
<1>2. /\ WalkOf(Top, engine, runs) /\ Top \in CallType
      /\ Top.open \subseteq Modules /\ \A x \in Top.open : engine[x] = "evaluating"
  BY <1>0, TopWalk
<1>3. /\ Len(Top.path) \in Nat \ {0} /\ DOMAIN Top.path = 1 .. Len(Top.path)
      /\ rest \in Seq(Modules) /\ DOMAIN rest = 1 .. Len(Top.path) - 1
      /\ \A k \in 1 .. Len(Top.path) - 1 : rest[k] = Top.path[k]
  BY <1>0, CurrentFacts
<1>4. done \subseteq Top.open /\ \A k \in DOMAIN rest : rest[k] \notin done
  OBVIOUS
<1> HIDE DEF rest, waits, done
<1>5. /\ c \in CallType /\ c.root = Top.root /\ c.path = rest
      /\ c.open = Top.open \ done /\ c.body = FALSE
  BY <1>2, <1>3 DEF CallType
<1> HIDE DEF c
<1>6. WalkOf(c, engine', runs)
  <2>1. \A k \in DOMAIN rest : /\ k \in DOMAIN Top.path /\ k # Len(Top.path)
                               /\ rest[k] = Top.path[k]
    BY <1>3
  <2>2. \A k \in DOMAIN rest : rest[k] \in c.open /\ runs[rest[k]] = 0
    BY <1>2, <1>4, <1>5, <2>1 DEF WalkOf
  <2>3. \A j, k \in DOMAIN rest : rest[j] = rest[k] => j = k
    BY <1>2, <2>1 DEF WalkOf
  <2>4. \A x \in c.open : engine'[x] = "evaluating"
    BY <1>1, <1>2, <1>5
  <2> QED BY <1>5, <2>2, <2>3, <2>4 DEF WalkOf
<1>7. \A x \in Modules : \/ engine'[x] = engine[x]
                         \/ x \in Top.open /\ engine[x] = "evaluating" /\ engine'[x] = state
  BY <1>1, <1>2, <1>4
<1>8. Walks(calls', engine', runs')
  <2>1. \A x \in Modules : engine[x] = "evaluating" /\ x \notin Last(calls).open
                            => engine'[x] = engine[x]
    BY <1>7 DEF Top
  <2>2. \A x \in c.open : x \in Last(calls).open
    BY <1>5 DEF Top
  <2> QED BY <1>0, <1>1, <1>6, <2>1, <2>2, SetTopWalk DEF SetTop
<1>9. engine' \in [Modules -> EngineStatuses]
  BY <1>0, <1>1 DEF EngineStatuses, Started
<1>10. WalkInv'
  BY <1>0, <1>7, <1>8, <1>9 DEF WalkInv, BodyRunsOnce
<1>11. StatusInv'
  <2>1. /\ \A x \in Modules : engine[x] = "none" => engine'[x] = "none"
        /\ \A x \in Modules : engine[x] \in Started => engine'[x] \in Started
    BY <1>7 DEF Started
  <2> QED BY <1>0, <1>1, <1>5, <2>1, SetTopRoots, EngineStatusStep
<1> QED BY <1>10, <1>11 DEF ModuleInv

(* A body ends.  It runs on the path of its walk, as WalkOf says.          *)
LEMMA EndBodyStep ==
  ASSUME ModuleInv, NEW outcome \in Outcomes, EndBody(outcome)
  PROVE  ModuleInv'
<1>1. /\ calls # <<>> /\ Top.body /\ UNCHANGED <<status, runs, handed>>
      /\ IF outcome = "failed" THEN Fail ELSE Leave(outcome)
  BY DEF EndBody
<1>2. Top.path # <<>>
  BY <1>1, TopWalk DEF ModuleInv, WalkOf
<1>3. CASE outcome = "failed"
  BY <1>1, <1>3, FailStep
<1>4. CASE outcome # "failed"
  BY <1>1, <1>2, <1>4, LeaveStep DEF Outcomes
<1> QED BY <1>3, <1>4

(* Jobs settle what waits, and start what waited.                          *)
LEMMA JobStep ==
  ASSUME ModuleInv, NEW m \in Modules, NEW o \in Outcomes,
         AwaitEnds(m, o) \/ RunAfterImports(m, o)
  PROVE  ModuleInv'
<1>0. /\ engine \in [Modules -> EngineStatuses] /\ runs \in [Modules -> Nat]
      /\ Walks(calls, engine, runs) /\ WalkInv /\ StatusInv
  BY DEF ModuleInv, WalkInv
<1>1. /\ engine[m] = "async" /\ engine' = Settled(m, o)
      /\ UNCHANGED <<status, calls, handed>>
      /\ \/ UNCHANGED runs
         \/ runs[m] = 0 /\ runs' = [runs EXCEPT ![m] = @ + 1]
  BY DEF AwaitEnds, RunAfterImports
<1>2. \A x \in Modules : \/ engine'[x] = engine[x]
                         \/ engine[x] = "async" /\ engine'[x] \in Started
  BY <1>1 DEF Settled, Outcomes, Started
<1>3. engine' \in [Modules -> EngineStatuses]
  BY <1>0, <1>1 DEF Settled, Outcomes, EngineStatuses, Started
<1>4. /\ runs' \in [Modules -> Nat]
      /\ \A x \in Modules : x # m => runs'[x] = runs[x]
      /\ runs'[m] = runs[m] \/ runs'[m] = 1
  BY <1>0, <1>1
<1>5. Walks(calls', engine', runs')
  <2>1. \A x \in Modules : engine[x] = "evaluating"
                            => engine'[x] = engine[x] /\ runs'[x] = runs[x]
    BY <1>1, <1>2, <1>4
  <2> QED BY <1>0, <1>1, <2>1, WalksElsewhere
<1>6. engine'[m] \in Started
  BY <1>1, <1>2 DEF Started
<1>7. WalkInv'
  <2>1. BodyRunsOnce'
    BY <1>0, <1>4 DEF WalkInv, BodyRunsOnce
  <2>2. \A x \in Modules : engine'[x] \in {"none", "unlinked", "linked"}
                            => runs'[x] = 0
    BY <1>0, <1>2, <1>4, <1>6 DEF WalkInv, Started
  <2> QED BY <1>3, <1>4, <1>5, <2>1, <2>2 DEF WalkInv
<1>8. StatusInv'
  <2>1. /\ \A x \in Modules : engine[x] = "none" => engine'[x] = "none"
        /\ \A x \in Modules : engine[x] \in Started => engine'[x] \in Started
    BY <1>2 DEF Started
  <2> QED BY <1>0, <1>1, <2>1, Roots, EngineStatusStep
<1> QED BY <1>7, <1>8 DEF ModuleInv

(* Evaluate returns.  The sweep leaves errors alone.                       *)
LEMMA ReturnStep ==
  ASSUME ModuleInv, Return
  PROVE  ModuleInv'
<1>0. /\ calls # <<>> /\ UNCHANGED <<engine, runs>> /\ calls' = Front(calls)
      /\ WalkInv /\ StatusInv
  BY DEF Return, Walking, ModuleInv
<1> DEFINE m == Top.root
<1>1. m \in Modules
  BY <1>0, TopWalk DEF CallType
<1>2. Walks(calls', engine, runs)
  BY <1>0, PopWalk DEF WalkInv
<1>3. WalkInv'
  BY <1>0, <1>2 DEF WalkInv, BodyRunsOnce
<1>4. calls \in Seq(CallType)
  BY <1>0 DEF WalkInv, Walks
<1>5. /\ Len(calls) \in DOMAIN calls /\ Top = calls[Len(calls)]
      /\ \A i \in DOMAIN calls' : i \in DOMAIN calls /\ calls'[i] = calls[i]
      /\ \A i \in DOMAIN calls : i \in DOMAIN calls' \/ calls[i] = Top
  <2>1. /\ Len(calls) \in Nat \ {0} /\ DOMAIN calls = 1 .. Len(calls)
        /\ DOMAIN Front(calls) = 1 .. Len(calls) - 1
        /\ \A k \in 1 .. Len(calls) - 1 : Front(calls)[k] = calls[k]
        /\ Last(calls) = calls[Len(calls)]
    BY <1>0, <1>4, FrontFacts
  <2>2. \A i \in DOMAIN calls : i = Len(calls) \/ i \in DOMAIN Front(calls)
    BY <2>1
  <2> QED BY <1>0, <2>1, <2>2 DEF Top
<1>6. engine[m] \in Started
  BY <1>0, <1>5 DEF StatusInv
<1>7. /\ status \in [Modules -> Statuses]
      /\ handed \in [Modules -> {"none", "fulfilled", "rejected", "engine"}]
  BY <1>0 DEF StatusInv
<1>8. /\ status' \in [Modules -> Statuses]
      /\ \A x \in Modules : \/ status'[x] = status[x]
                            \/ status'[x] = "Evaluated" /\ engine[x] \in Started
                               /\ (x # m => status[x] # "Errored")
                            \/ x = m /\ status'[x] = "Errored"
      /\ engine[m] = "failed" => status'[m] = "Errored"
  BY <1>1, <1>6, <1>7 DEF Return, MarkAll, IsEvaluated, Statuses, Started
<1>9. /\ handed' = [handed EXCEPT ![m] = IF engine[m] = "failed" THEN "rejected"
                                                              ELSE "engine"]
      /\ handed' \in [Modules -> {"none", "fulfilled", "rejected", "engine"}]
  BY <1>7 DEF Return
<1>10. EvaluatedHasStarted'
  BY <1>0, <1>8 DEF StatusInv, EvaluatedHasStarted
<1>11. RejectedIsErrored'
  <2> SUFFICES ASSUME NEW x \in Modules, handed'[x] = "rejected"
               PROVE  status'[x] = "Errored" \/ \E i \in DOMAIN calls' : calls'[i].root = x
    BY DEF RejectedIsErrored
  <2>1. CASE x = m
    <3>1. engine[m] = "failed"
      BY <1>1, <1>7, <1>9, <2>1
    <3> QED BY <1>8, <2>1, <3>1
  <2>2. CASE x # m
    <3>1. handed[x] = "rejected"
      BY <1>7, <1>9, <2>2
    <3>2. CASE status[x] = "Errored"
      BY <1>8, <2>2, <3>2
    <3>3. CASE \E i \in DOMAIN calls : calls[i].root = x
      <4>1. PICK i \in DOMAIN calls : calls[i].root = x
        BY <3>3
      <4>2. i \in DOMAIN calls' /\ calls'[i] = calls[i]
        BY <1>5, <2>2, <4>1
      <4> QED BY <4>1, <4>2
    <3> QED BY <1>0, <3>1, <3>2, <3>3 DEF StatusInv, RejectedIsErrored
  <2> QED BY <2>1, <2>2
<1>12. \A x \in Modules : status'[x] = "none" => engine'[x] = "none"
  BY <1>0, <1>8 DEF StatusInv
<1>13. \A i \in DOMAIN calls' : engine'[calls'[i].root] \in Started
  BY <1>0, <1>5 DEF StatusInv
<1> QED BY <1>3, <1>8, <1>9, <1>10, <1>11, <1>12, <1>13 DEF ModuleInv, StatusInv

LEMMA NextStep ==
  ASSUME ModuleInv, [Next]_moduleVars
  PROVE  ModuleInv'
<1>1. CASE \E m \in Modules : CompileModule(m, TRUE) \/ CompileModule(m, FALSE)
  BY <1>1, CompileStep
<1>2. CASE \E m \in Modules : CreateSyntheticModule(m)
  BY <1>2, CreateStep
<1>3. CASE \E m \in Modules : InstantiateModule(m)
  BY <1>3, InstantiateStep
<1>4. CASE \E m \in Modules : Evaluate(m) \/ EvaluateSynthetic(m)
  BY <1>4, EvaluateStep
<1>5. CASE \E m \in Modules : EnterImport(m)
  BY <1>5, EnterStep
<1>6. CASE \E m \in Modules, o \in Outcomes : AwaitEnds(m, o) \/ RunAfterImports(m, o)
  BY <1>6, JobStep
<1>7. CASE \E o \in Outcomes : EndBody(o)
  BY <1>7, EndBodyStep
<1>8. CASE StartBody
  BY <1>8, StartBodyStep
<1>9. CASE WaitForImports
  <2>1. /\ calls # <<>> /\ Top.path # <<>> /\ Leave("async")
        /\ UNCHANGED <<status, runs, handed>>
    BY <1>9 DEF WaitForImports, ImportsDone, Walking
  <2> QED BY <2>1, LeaveStep
<1>10. CASE ImportFailed
  <2>1. calls # <<>> /\ Fail /\ UNCHANGED <<status, runs, handed>>
    BY <1>10 DEF ImportFailed, Walking
  <2> QED BY <2>1, FailStep
<1>11. CASE Return
  BY <1>11, ReturnStep
<1>12. CASE UNCHANGED moduleVars
  <2>1. UNCHANGED <<status, engine, runs, calls, handed>>
    BY <1>12 DEF moduleVars
  <2> QED BY <2>1 DEF ModuleInv, WalkInv, StatusInv, BodyRunsOnce,
                      EvaluatedHasStarted, RejectedIsErrored
<1> QED BY <1>1, <1>2, <1>3, <1>4, <1>5, <1>6, <1>7, <1>8, <1>9, <1>10, <1>11, <1>12
        DEF Next, Embedder, Engine

LEMMA Invariant == Spec => []ModuleInv
<1> QED BY InitInv, NextStep, PTL DEF Spec

(* Whatever roots a module is instantiated and evaluated for, and whatever *)
(* its body calls, the body is started once (compile_module_for_           *)
(* instantiation, quickjs-01-module-introspection.patch).                  *)
THEOREM RunsOnce == Spec => []BodyRunsOnce
<1>1. ModuleInv => BodyRunsOnce
  BY DEF ModuleInv, WalkInv
<1> QED BY <1>1, Invariant, PTL

(* mark_all_modules_evaluated and v8__Module__Evaluate mark nothing that   *)
(* was only compiled or linked.                                            *)
THEOREM MarkedHasStarted == Spec => []EvaluatedHasStarted
<1>1. ModuleInv => EvaluatedHasStarted
  BY DEF ModuleInv, StatusInv
<1> QED BY <1>1, Invariant, PTL

(* No sweep hides a rejection that v8__Module__Evaluate has returned.      *)
THEOREM RejectionStays == Spec => []RejectedIsErrored
<1>1. ModuleInv => RejectedIsErrored
  BY DEF ModuleInv, StatusInv
<1> QED BY <1>1, Invariant, PTL

-----------------------------------------------------------------------------
(* Types.                                                                  *)
CallsInv == broken \subseteq Modules /\ Len(calls) <= MaxCalls

LEMMA SetTopLen ==
  ASSUME calls \in Seq(CallType), calls # <<>>, NEW c, SetTop(c)
  PROVE  Len(calls') = Len(calls)
<1>1. Front(calls) \in Seq(CallType) /\ Len(Front(calls)) = Len(calls) - 1
      /\ Len(calls) \in Nat
  BY FrontFacts
<1>2. Len(Front(calls) \o <<c>>) = Len(Front(calls)) + 1
  BY <1>1
<1> QED BY <1>1, <1>2 DEF SetTop

LEMMA CallsStep ==
  ASSUME ModuleInv, CallsInv, [Next]_moduleVars
  PROVE  CallsInv'
<1>0. calls \in Seq(CallType) /\ Len(calls) \in Nat
  BY DEF ModuleInv, WalkInv, Walks
<1>1. CASE \E m \in Modules : \/ CompileModule(m, TRUE) \/ CompileModule(m, FALSE)
                              \/ CreateSyntheticModule(m) \/ InstantiateModule(m)
  BY <1>1 DEF CompileModule, CreateSyntheticModule, InstantiateModule, CallsInv,
              wrapperVars
<1>2. CASE \E m \in Modules : Evaluate(m) \/ EvaluateSynthetic(m)
  <2>1. UNCHANGED broken /\ (UNCHANGED calls \/ \E m \in Modules : EvalFunction(m))
    BY <1>2 DEF Evaluate, EvaluateSynthetic, wrapperVars
  <2>2. ASSUME NEW m \in Modules, EvalFunction(m)
        PROVE  Len(calls') <= MaxCalls
    <3>1. PICK c : Len(calls) < MaxCalls /\ calls' = Append(calls, c)
      BY <2>2 DEF EvalFunction
    <3>2. Len(calls') = Len(calls) + 1
      BY <1>0, <3>1
    <3> QED BY <1>0, <3>1, <3>2, ModuleLifecycleAssumption
  <2> QED BY <2>1, <2>2 DEF CallsInv
<1>3. CASE \/ \E m \in Modules : EnterImport(m)
           \/ \E o \in Outcomes : EndBody(o)
           \/ StartBody \/ WaitForImports \/ ImportFailed
  <2>1. /\ calls # <<>> /\ UNCHANGED broken
        /\ \E c : SetTop(c)
    BY <1>3 DEF EnterImport, EndBody, StartBody, ImportsDone, WaitForImports,
                ImportFailed, Walking, Fail, Leave, wrapperVars
  <2> QED BY <1>0, <2>1, SetTopLen DEF CallsInv
<1>4. CASE \E m \in Modules, o \in Outcomes : AwaitEnds(m, o) \/ RunAfterImports(m, o)
  BY <1>4 DEF AwaitEnds, RunAfterImports, wrapperVars, CallsInv
<1>5. CASE Return
  <2>1. /\ calls # <<>> /\ UNCHANGED broken /\ calls' = Front(calls)
    BY <1>5 DEF Return, Walking, wrapperVars
  <2>2. Len(calls') = Len(calls) - 1
    BY <1>0, <2>1, FrontFacts
  <2> QED BY <1>0, <2>1, <2>2, ModuleLifecycleAssumption DEF CallsInv
<1>6. CASE UNCHANGED moduleVars
  BY <1>6 DEF moduleVars, wrapperVars, CallsInv
<1> QED BY <1>1, <1>2, <1>3, <1>4, <1>5, <1>6 DEF Next, Embedder, Engine

(* The variables keep their shape; every walk in progress runs through     *)
(* definitions that the engine is evaluating.                              *)
THEOREM TypeCorrect == Spec => []TypeOK
<1>1. Init => CallsInv
  BY ModuleLifecycleAssumption DEF Init, CallsInv
<1>2. ModuleInv /\ CallsInv /\ [Next]_moduleVars => CallsInv'
  BY CallsStep
<1>3. ModuleInv /\ CallsInv => TypeOK
  <2> SUFFICES ASSUME ModuleInv, CallsInv PROVE TypeOK
    OBVIOUS
  <2>1. ASSUME NEW i \in DOMAIN calls
        PROVE  /\ calls[i].root \in Modules
               /\ calls[i].path \in Seq(calls[i].open)
               /\ calls[i].open \subseteq { m \in Modules : engine[m] = "evaluating" }
    <3> DEFINE c == calls[i]
    <3>1. WalkOf(c, engine, runs)
      BY DEF ModuleInv, WalkInv, Walks
    <3>2. c \in CallType /\ (\A k \in DOMAIN c.path : c.path[k] \in c.open)
          /\ \A d \in c.open : engine[d] = "evaluating"
      BY <3>1 DEF WalkOf
    <3> HIDE DEF c
    <3>3. c.path \in Seq(Modules) /\ c.root \in Modules /\ c.open \subseteq Modules
      BY <3>2 DEF CallType
    <3>4. c.path \in [1 .. Len(c.path) -> c.open] /\ Len(c.path) \in Nat
      BY <3>2, <3>3
    <3>5. c.path \in Seq(c.open)
      BY <3>4
    <3> QED BY <3>2, <3>3, <3>5 DEF c
  <2> QED BY <2>1 DEF TypeOK, CallsInv, ModuleInv, WalkInv, StatusInv, Statuses,
                      EngineStatuses
<1> QED BY <1>1, <1>2, <1>3, Invariant, PTL DEF Spec

-----------------------------------------------------------------------------
(* Import graphs.  Graph(m) is the least set that holds m and what its     *)
(* members import.                                                         *)
ImportsOK ==
  /\ imports \in [Modules -> SUBSET Modules]
  /\ \A m \in Synthetic : imports[m] = {}

LEMMA GraphRoot ==
  ASSUME NEW m \in Modules
  PROVE  m \in Graph(m) /\ Graph(m) \subseteq Modules
  BY DEF Graph

LEMMA GraphStep ==
  ASSUME ImportsOK, NEW m, NEW d \in Graph(m), NEW x \in imports[d]
  PROVE  x \in Graph(m) /\ x \in Modules
  BY DEF Graph, Closed, ImportsOK

LEMMA GraphLeast ==
  ASSUME NEW m, NEW S \in SUBSET Modules, m \in S, Closed(S)
  PROVE  Graph(m) \subseteq S
  BY DEF Graph

LEMMA GraphClosed ==
  ASSUME ImportsOK, NEW m \in Modules
  PROVE  Closed(Graph(m)) /\ Graph(m) \in SUBSET Modules
  BY GraphRoot, GraphStep DEF Closed

LEMMA GraphTrans ==
  ASSUME ImportsOK, NEW m \in Modules, NEW d \in Graph(m)
  PROVE  Graph(d) \subseteq Graph(m)
  BY GraphClosed, GraphLeast

(* What a module reaches it reaches through one of its imports.            *)
LEMMA GraphFirst ==
  ASSUME ImportsOK, NEW m \in Modules, NEW x \in Graph(m), x # m
  PROVE  \E d \in imports[m] : x \in Graph(d)
<1> DEFINE S == {m} \cup { y \in Modules : \E d \in imports[m] : y \in Graph(d) }
<1>1. imports[m] \subseteq Modules
  BY DEF ImportsOK
<1>2. Closed(S)
  <2> SUFFICES ASSUME NEW y \in S, NEW z \in imports[y] PROVE z \in S
    BY DEF Closed
  <2>1. y \in Modules
    OBVIOUS
  <2>2. z \in Modules
    BY <2>1 DEF ImportsOK
  <2>3. CASE y = m
    BY <2>2, <2>3, <1>1, GraphRoot
  <2>4. CASE y # m
    <3>1. PICK d \in imports[m] : y \in Graph(d)
      BY <2>4
    <3>2. z \in Graph(d)
      BY <3>1, GraphStep
    <3> QED BY <2>2, <3>1, <3>2
  <2> QED BY <2>3, <2>4
<1>3. m \in S /\ S \in SUBSET Modules
  OBVIOUS
<1>4. x \in S
  BY <1>2, <1>3, GraphLeast
<1> QED BY <1>4

LEMMA GraphLeaf ==
  ASSUME NEW m \in Modules, imports[m] = {}
  PROVE  Graph(m) = {m}
<1>1. Closed({m})
  BY DEF Closed
<1> QED BY <1>1, GraphRoot, GraphLeast

(* Modules that reach each other.                                          *)
Tied(x, y) == x \in Graph(y) /\ y \in Graph(x)

LEMMA TiedTrans ==
  ASSUME ImportsOK, NEW x \in Modules, NEW y \in Modules, NEW z \in Modules,
         Tied(x, y), Tied(y, z)
  PROVE  Tied(x, z)
  BY GraphTrans DEF Tied

LEMMA TiedCycle ==
  ASSUME ImportsOK, NEW x \in Modules, NEW m \in Modules, Tied(x, m),
         x # m \/ x \in imports[m]
  PROVE  InCycle(m)
<1>1. PICK d \in imports[m] : x \in Graph(d) /\ d \in Modules
  BY GraphFirst, GraphRoot DEF Tied, ImportsOK
<1>2. m \in Graph(d)
  BY <1>1, GraphTrans DEF Tied
<1> QED BY <1>2 DEF InCycle

-----------------------------------------------------------------------------
(* A body of d may run in the walk c: what d imports is evaluated, or open *)
(* in the same walk, and then in a cycle with d.                           *)
Finished(c, e, d) ==
  \A x \in imports[d] : \/ e[x] = "evaluated"
                        \/ x \in c.open /\ Tied(x, d)

Ended == {"async", "evaluated", "failed"}

(* The path of the walk c runs along imports from its root; what is open   *)
(* is on the path, or was finished and waits for the path in a cycle.  A   *)
(* walk that is over has settled its root.                                 *)
TreeOf(c, e) ==
  /\ c.path # <<>> => c.path[1] = c.root
  /\ \A j, k \in DOMAIN c.path : j <= k => c.path[k] \in Graph(c.path[j])
  /\ \A d \in c.open : \E k \in DOMAIN c.path : Tied(d, c.path[k])
  /\ \A d \in c.open : (\A k \in DOMAIN c.path : c.path[k] # d) => Finished(c, e, d)
  /\ c.body => Finished(c, e, Last(c.path))
  /\ c.root \notin Synthetic /\ c.path = <<>> => e[c.root] \in Ended

(* What is linked, evaluated or waits has imports that are no less so.     *)
EngineGraph(e, r) ==
  /\ \A m \in Modules :
       e[m] \notin {"none", "unlinked"} =>
         \A d \in imports[m] : e[d] \notin {"none", "unlinked"}
  /\ \A m \in Modules :
       e[m] = "evaluated" => \A d \in imports[m] : e[d] = "evaluated"
  /\ \A m \in Modules :
       e[m] = "async" => \A d \in imports[m] : \/ e[d] = "evaluated"
                                               \/ e[d] = "async" /\ r[m] = 0

(* What is being evaluated is open in a walk; the graph that a walk visits *)
(* has nothing open in the walks further out.                              *)
CallsGraph(cs, e) ==
  /\ \A m \in Modules :
       e[m] = "evaluating" => \E i \in DOMAIN cs : m \in cs[i].open
  /\ \A i, j \in DOMAIN cs :
       i < j /\ cs[j].path # <<>> => Graph(cs[j].root) \cap cs[i].open = {}
  /\ \A i \in DOMAIN cs : TreeOf(cs[i], e)

RootsGraph(h, s) ==
  \A m \in Modules :
    h[m] = "engine" => \A d \in Graph(m) : s[d] \in {"Evaluated", "Errored"}

GraphInv ==
  /\ ImportsOK
  /\ EngineGraph(engine, runs)
  /\ CallsGraph(calls, engine)
  /\ RootsGraph(handed, status)

LEMMA GraphInit == Init => GraphInv
<1> SUFFICES ASSUME Init PROVE GraphInv
  OBVIOUS
<1>1. ImportsOK
  BY ModuleLifecycleAssumption DEF Init, ImportsOK
<1>2. DOMAIN calls = {}
  BY DEF Init
<1> QED BY <1>1, <1>2 DEF Init, GraphInv, EngineGraph, CallsGraph, RootsGraph

LEMMA GraphSame ==
  ASSUME UNCHANGED imports
  PROVE  \A m : Graph(m)' = Graph(m)
<1> SUFFICES ASSUME NEW m PROVE \A d : d \in Graph(m)' <=> d \in Graph(m)
  OBVIOUS
<1> QED BY DEF Graph, Closed

(* The graph does not change, so that the invariant of the next state can  *)
(* be said with the graph of this one.                                     *)
LEMMA GraphNext ==
  ASSUME ImportsOK, UNCHANGED imports, EngineGraph(engine', runs'),
         CallsGraph(calls', engine'), RootsGraph(handed', status')
  PROVE  GraphInv'
<1>1. \A m : Graph(m)' = Graph(m)
  BY GraphSame
<1>2. ImportsOK'
  BY DEF ImportsOK
<1>3. EngineGraph(engine, runs)'
  BY DEF EngineGraph
<1>4. RootsGraph(handed, status)'
  BY <1>1 DEF RootsGraph
<1>5. CallsGraph(calls, engine)'
  BY <1>1 DEF CallsGraph, TreeOf, Finished, Tied
<1> QED BY <1>2, <1>3, <1>4, <1>5 DEF GraphInv

-----------------------------------------------------------------------------
(* Statuses that only move forward do not disturb a walk.                  *)
Forward(e, f) ==
  \A x \in Modules : /\ e[x] = "evaluated" => f[x] = "evaluated"
                     /\ e[x] \in Ended => f[x] \in Ended

LEMMA TreeElsewhere ==
  ASSUME ImportsOK, NEW c \in CallType, NEW e, NEW f, TreeOf(c, e), Forward(e, f),
         c.body => c.path # <<>>
  PROVE  TreeOf(c, f)
<1>1. c.root \in Modules /\ c.open \subseteq Modules /\ c.path \in Seq(Modules)
  BY DEF CallType
<1>2. ASSUME NEW d \in Modules, Finished(c, e, d) PROVE Finished(c, f, d)
  <2>1. imports[d] \subseteq Modules
    BY DEF ImportsOK
  <2> QED BY <1>2, <2>1 DEF Finished, Forward
<1>3. c.body => Finished(c, f, Last(c.path))
  <2>1. c.body => Last(c.path) \in Modules
    BY <1>1, FrontFacts
  <2> QED BY <1>2, <2>1 DEF TreeOf
<1>4. c.root \notin Synthetic /\ c.path = <<>> => f[c.root] \in Ended
  BY <1>1 DEF TreeOf, Forward
<1>5. \A d \in c.open : (\A k \in DOMAIN c.path : c.path[k] # d) => Finished(c, f, d)
  BY <1>1, <1>2 DEF TreeOf
<1> QED BY <1>3, <1>4, <1>5 DEF TreeOf

LEMMA CallsElsewhere ==
  ASSUME ImportsOK, NEW cs, NEW e, NEW r, NEW f, Walks(cs, e, r), CallsGraph(cs, e),
         Forward(e, f), \A x \in Modules : f[x] = "evaluating" => e[x] = "evaluating"
  PROVE  CallsGraph(cs, f)
<1>1. ASSUME NEW i \in DOMAIN cs PROVE TreeOf(cs[i], f)
  <2>1. WalkOf(cs[i], e, r) /\ TreeOf(cs[i], e)
    BY DEF Walks, CallsGraph
  <2>2. cs[i] \in CallType /\ (cs[i].body => cs[i].path # <<>>)
    BY <2>1 DEF WalkOf
  <2> QED BY <2>1, <2>2, TreeElsewhere
<1> QED BY <1>1 DEF CallsGraph

(* The innermost walk goes on.                                             *)
LEMMA SetTopGraph ==
  ASSUME ImportsOK, NEW cs, NEW e, NEW r, NEW f, Walks(cs, e, r), CallsGraph(cs, e),
         cs # <<>>, NEW c \in CallType, TreeOf(c, f), Forward(e, f),
         c.root = Last(cs).root, c.path # <<>> => Last(cs).path # <<>>,
         \A x \in Modules : f[x] = "evaluating" =>
           x \in c.open \/ (e[x] = "evaluating" /\ x \notin Last(cs).open)
  PROVE  CallsGraph(Front(cs) \o <<c>>, f)
<1> DEFINE n == Len(cs)
           t == Front(cs) \o <<c>>
<1>1. /\ Front(cs) \in Seq(CallType) /\ Len(Front(cs)) = n - 1
      /\ n \in Nat \ {0} /\ DOMAIN cs = 1 .. n /\ Last(cs) = cs[n]
      /\ \A k \in 1 .. n - 1 : Front(cs)[k] = cs[k]
  BY FrontFacts DEF Walks
<1>2. DOMAIN t = 1 .. n /\ t[n] = c /\ \A k \in 1 .. n - 1 : t[k] = cs[k]
  <2> DEFINE s == Front(cs)
  <2>1. s \in Seq(CallType) /\ Len(s) = n - 1
    BY <1>1
  <2> HIDE DEF s
  <2>2. /\ DOMAIN (s \o <<c>>) = 1 .. Len(s) + 1
        /\ (s \o <<c>>)[Len(s) + 1] = c
        /\ \A k \in 1 .. Len(s) : (s \o <<c>>)[k] = s[k]
    BY <2>1, AppendFacts
  <2>3. Len(s) + 1 = n /\ 1 .. Len(s) = 1 .. n - 1
    BY <1>1, <2>1
  <2>4. \A k \in 1 .. n - 1 : s[k] = cs[k]
    BY <1>1 DEF s
  <2> QED BY <2>2, <2>3, <2>4 DEF s
<1> HIDE DEF t
<1> HIDE DEF n
<1>3. \A i \in 1 .. n : i = n \/ (i \in 1 .. n - 1 /\ i < n)
  BY <1>1
<1>4. n \in 1 .. n /\ 1 .. n - 1 \subseteq 1 .. n
  BY <1>1
<1>5. ASSUME NEW i \in 1 .. n - 1 PROVE TreeOf(t[i], f)
  <2>0. i \in DOMAIN cs
    BY <1>1, <1>4
  <2>1. WalkOf(cs[i], e, r) /\ TreeOf(cs[i], e)
    BY <2>0 DEF Walks, CallsGraph
  <2>2. cs[i] \in CallType /\ (cs[i].body => cs[i].path # <<>>)
    BY <2>1 DEF WalkOf
  <2>3. TreeOf(cs[i], f)
    BY <2>1, <2>2, TreeElsewhere
  <2> QED BY <1>2, <2>3
<1>6. \A i \in DOMAIN t : TreeOf(t[i], f)
  BY <1>2, <1>3, <1>5
<1>7. ASSUME NEW x \in Modules, f[x] = "evaluating"
      PROVE  \E i \in DOMAIN t : x \in t[i].open
  <2>1. CASE x \in c.open
    BY <1>2, <1>4, <2>1
  <2>2. CASE e[x] = "evaluating" /\ x \notin Last(cs).open
    <3>1. PICK i \in DOMAIN cs : x \in cs[i].open
      BY <2>2 DEF CallsGraph
    <3>2. i \in 1 .. n - 1
      BY <1>1, <1>3, <2>2, <3>1
    <3> QED BY <1>2, <1>4, <3>1, <3>2
  <2> QED BY <1>7, <2>1, <2>2
<1>8. ASSUME NEW i \in DOMAIN t, NEW j \in DOMAIN t, i < j, t[j].path # <<>>
      PROVE  Graph(t[j].root) \cap t[i].open = {}
  <2>1. i \in DOMAIN cs /\ j \in DOMAIN cs /\ i \in 1 .. n - 1
    BY <1>1, <1>2, <1>8
  <2>2. t[i] = cs[i] /\ t[j].root = cs[j].root /\ cs[j].path # <<>>
    BY <1>1, <1>2, <1>3, <1>8, <2>1
  <2> QED BY <1>8, <2>1, <2>2 DEF CallsGraph
<1> QED BY <1>6, <1>7, <1>8 DEF CallsGraph, t

-----------------------------------------------------------------------------
(* What the embedder does leaves a module that is marked, or in error, so. *)
LEMMA MarkedStay ==
  ASSUME NEW h, NEW s, NEW q, RootsGraph(h, s),
         \A x \in Modules :
           s[x] \in {"Evaluated", "Errored"} => q[x] \in {"Evaluated", "Errored"}
  PROVE  RootsGraph(h, q)
  BY GraphRoot DEF RootsGraph

LEMMA CompileGraph ==
  ASSUME ModuleInv, GraphInv, NEW m \in Modules, NEW links,
         CompileModule(m, links) \/ CreateSyntheticModule(m)
  PROVE  GraphInv'
<1>1. /\ UNCHANGED <<imports, runs, calls, handed>> /\ status[m] = "none"
      /\ status' = [status EXCEPT ![m] = "Uninstantiated"]
      /\ \/ UNCHANGED engine
         \/ engine' = [engine EXCEPT ![m] = "unlinked"]
  BY DEF CompileModule, CreateSyntheticModule, wrapperVars
<1>2. /\ engine \in [Modules -> EngineStatuses] /\ engine[m] = "none"
      /\ status \in [Modules -> Statuses] /\ Walks(calls, engine, runs)
  BY <1>1 DEF ModuleInv, WalkInv, StatusInv
<1>3. ImportsOK /\ EngineGraph(engine, runs) /\ CallsGraph(calls, engine)
      /\ RootsGraph(handed, status)
  BY DEF GraphInv
<1>4. \A x \in Modules : \/ engine'[x] = engine[x]
                         \/ engine[x] = "none" /\ engine'[x] = "unlinked"
  BY <1>1, <1>2
<1>5. EngineGraph(engine', runs')
  <2>1. \A x \in Modules : imports[x] \subseteq Modules
    BY <1>3 DEF ImportsOK
  <2> QED BY <1>1, <1>3, <1>4, <2>1 DEF EngineGraph
<1>6. CallsGraph(calls', engine')
  <2>1. Forward(engine, engine')
        /\ \A x \in Modules : engine'[x] = "evaluating" => engine[x] = "evaluating"
    BY <1>4 DEF Forward, Ended
  <2>2. CallsGraph(calls, engine')
    BY <1>2, <1>3, <2>1, CallsElsewhere
  <2> QED BY <1>1, <2>2
<1>7. RootsGraph(handed', status')
  <2>1. \A x \in Modules : status[x] \in {"Evaluated", "Errored"}
                            => status'[x] \in {"Evaluated", "Errored"}
    BY <1>1, <1>2
  <2> QED BY <1>1, <1>3, <2>1, MarkedStay
<1> QED BY <1>1, <1>3, <1>5, <1>6, <1>7, GraphNext

(* Linking reaches the whole graph of the root, or nothing of it becomes   *)
(* linked.                                                                 *)
LEMMA InstantiateGraph ==
  ASSUME ModuleInv, GraphInv, NEW m \in Modules, InstantiateModule(m)
  PROVE  GraphInv'
<1>1. UNCHANGED <<imports, runs, calls, handed>>
  BY DEF InstantiateModule, wrapperVars
<1>2. /\ engine \in [Modules -> EngineStatuses] /\ status \in [Modules -> Statuses]
      /\ Walks(calls, engine, runs)
  BY DEF ModuleInv, WalkInv, StatusInv
<1>3. ImportsOK /\ EngineGraph(engine, runs) /\ CallsGraph(calls, engine)
      /\ RootsGraph(handed, status)
  BY DEF GraphInv
<1>4. /\ \A x \in Modules : \/ engine'[x] = engine[x]
                            \/ engine[x] \in {"none", "unlinked"}
                               /\ engine'[x] \in {"unlinked", "linked"}
      /\ \A x \in Modules \ Graph(m) : engine'[x] = engine[x]
      /\ \/ \A x \in Graph(m) : engine'[x] \notin {"none", "unlinked"}
         \/ \A x \in Graph(m) : engine'[x] = engine[x] \/ engine'[x] = "unlinked"
  BY <1>2, GraphRoot DEF InstantiateModule, Definition, Linked, EngineStatuses, Started
<1>5. EngineGraph(engine', runs')
  <2>1. \A x \in Modules : imports[x] \subseteq Modules
    BY <1>3 DEF ImportsOK
  <2>2. ASSUME NEW x \in Modules, engine'[x] \notin {"none", "unlinked"},
               NEW d \in imports[x]
        PROVE  engine'[d] \notin {"none", "unlinked"}
    <3>1. CASE x \in Graph(m) /\ \A y \in Graph(m) : engine'[y] \notin {"none", "unlinked"}
      BY <1>3, <3>1, GraphStep
    <3>2. CASE engine'[x] = engine[x]
      BY <1>3, <1>4, <2>1, <2>2, <3>2 DEF EngineGraph
    <3> QED BY <1>4, <2>2, <3>1, <3>2
  <2>3. \A x \in Modules : engine'[x] \in {"async", "evaluated"} => engine'[x] = engine[x]
    BY <1>4
  <2>4. \A x \in Modules : engine[x] \in {"async", "evaluated"} => engine'[x] = engine[x]
    BY <1>4
  <2> QED BY <1>1, <1>3, <2>1, <2>2, <2>3, <2>4 DEF EngineGraph
<1>6. CallsGraph(calls', engine')
  <2>1. Forward(engine, engine')
        /\ \A x \in Modules : engine'[x] = "evaluating" => engine[x] = "evaluating"
    BY <1>4 DEF Forward, Ended
  <2>2. CallsGraph(calls, engine')
    BY <1>2, <1>3, <2>1, CallsElsewhere
  <2> QED BY <1>1, <2>2
<1>7. RootsGraph(handed', status')
  <2>1. \A x \in Modules : status[x] \in {"Evaluated", "Errored"}
                            => status'[x] \in {"Evaluated", "Errored"}
    BY <1>2 DEF InstantiateModule
  <2> QED BY <1>1, <1>3, <2>1, MarkedStay
<1> QED BY <1>1, <1>3, <1>5, <1>6, <1>7, GraphNext

-----------------------------------------------------------------------------
(* A call is pushed; none of the imports it will walk is open further out. *)
LEMMA EvalGraph ==
  ASSUME ModuleInv, GraphInv, NEW m \in Modules, MayEvaluate(m), EvalFunction(m),
         m \notin Synthetic => engine[m] # "evaluating", UNCHANGED <<imports, runs>>
  PROVE  EngineGraph(engine', runs') /\ CallsGraph(calls', engine')
<1>0. /\ engine \in [Modules -> EngineStatuses] /\ calls \in Seq(CallType)
      /\ Walks(calls, engine, runs) /\ engine[m] \notin {"none", "unlinked"}
      /\ \A d \in Graph(m) \ {m} : engine[d] # "evaluating"
  BY DEF ModuleInv, WalkInv, Walks, MayEvaluate
<1>1. ImportsOK /\ EngineGraph(engine, runs) /\ CallsGraph(calls, engine)
  BY DEF GraphInv
<1>2. PICK c : /\ c = IF engine[m] = "linked"
                        THEN [Call(m) EXCEPT !.path = <<m>>, !.open = {m}]
                        ELSE Call(m)
               /\ calls' = Append(calls, c)
               /\ engine' = IF engine[m] = "linked"
                              THEN [engine EXCEPT ![m] = "evaluating"] ELSE engine
  BY DEF EvalFunction
<1>3. \A x \in Modules : \/ engine'[x] = engine[x]
                         \/ x = m /\ engine[x] = "linked" /\ engine'[x] = "evaluating"
  BY <1>0, <1>2
<1>4. /\ c \in CallType /\ c.root = m /\ c.body = FALSE
      /\ \/ c.path = <<m>> /\ c.open = {m} /\ engine[m] = "linked"
         \/ c.path = <<>> /\ c.open = {} /\ engine'[m] = engine[m] /\ engine[m] # "linked"
  <2>1. CASE engine[m] = "linked"
    <3>1. c = [root |-> m, path |-> <<m>>, open |-> {m}, body |-> FALSE]
      BY <1>2, <2>1 DEF Call
    <3>2. <<m>> \in Seq(Modules) /\ {m} \in SUBSET Modules
      OBVIOUS
    <3> QED BY <2>1, <3>1, <3>2 DEF CallType
  <2>2. CASE engine[m] # "linked"
    <3>1. c = [root |-> m, path |-> <<>>, open |-> {}, body |-> FALSE]
          /\ engine'[m] = engine[m]
      BY <1>2, <2>2 DEF Call
    <3>2. <<>> \in Seq(Modules) /\ {} \in SUBSET Modules
      OBVIOUS
    <3> QED BY <2>2, <3>1, <3>2 DEF CallType
  <2> QED BY <2>1, <2>2
<1>5. TreeOf(c, engine')
  <2>1. CASE c.path = <<m>> /\ c.open = {m}
    <3>1. DOMAIN c.path = {1} /\ c.path[1] = m /\ c.path # <<>>
      BY <2>1
    <3>2. m \in Graph(m)
      BY GraphRoot
    <3> QED BY <1>4, <2>1, <3>1, <3>2 DEF TreeOf, Tied
  <2>2. CASE c.path = <<>> /\ c.open = {} /\ engine'[m] = engine[m] /\ engine[m] # "linked"
    <3>1. DOMAIN c.path = {}
      BY <2>2
    <3>2. m \notin Synthetic => engine'[m] \in Ended
      BY <1>0, <2>2 DEF EngineStatuses, Started, Ended
    <3> QED BY <1>4, <2>2, <3>1, <3>2 DEF TreeOf
  <2> QED BY <1>4, <2>1, <2>2
<1>6. /\ Len(calls) \in Nat
      /\ DOMAIN calls = 1 .. Len(calls) /\ DOMAIN calls' = 1 .. Len(calls) + 1
      /\ calls'[Len(calls) + 1] = c
      /\ \A k \in 1 .. Len(calls) : calls'[k] = calls[k]
  BY <1>0, <1>2, <1>4, AppendFacts
<1>7. Forward(engine, engine')
  BY <1>3 DEF Forward, Ended
<1>8. \A i \in DOMAIN calls' : \/ i \in DOMAIN calls /\ calls'[i] = calls[i]
                               \/ i = Len(calls) + 1 /\ calls'[i] = c
  BY <1>6
<1>9. ASSUME NEW i \in DOMAIN calls PROVE TreeOf(calls[i], engine')
  <2>1. WalkOf(calls[i], engine, runs) /\ TreeOf(calls[i], engine)
    BY <1>0, <1>1 DEF Walks, CallsGraph
  <2>2. calls[i] \in CallType /\ (calls[i].body => calls[i].path # <<>>)
    BY <2>1 DEF WalkOf
  <2> QED BY <1>1, <1>7, <2>1, <2>2, TreeElsewhere
<1>10. \A i \in DOMAIN calls' : TreeOf(calls'[i], engine')
  BY <1>5, <1>8, <1>9
<1>11. ASSUME NEW x \in Modules, engine'[x] = "evaluating"
       PROVE  \E i \in DOMAIN calls' : x \in calls'[i].open
  <2>1. CASE engine[x] = "evaluating"
    <3>1. PICK i \in DOMAIN calls : x \in calls[i].open
      BY <1>1, <2>1 DEF CallsGraph
    <3>2. i \in DOMAIN calls' /\ calls'[i] = calls[i]
      BY <1>6
    <3> QED BY <3>1, <3>2
  <2>2. CASE x = m /\ engine[m] = "linked"
    <3>1. x \in c.open
      BY <1>4, <2>2
    <3>2. Len(calls) + 1 \in DOMAIN calls'
      BY <1>6
    <3> QED BY <1>6, <3>1, <3>2
  <2> QED BY <1>3, <1>11, <2>1, <2>2
<1>12. ASSUME NEW i \in DOMAIN calls', NEW j \in DOMAIN calls', i < j,
              calls'[j].path # <<>>
       PROVE  Graph(calls'[j].root) \cap calls'[i].open = {}
  <2>1. i \in DOMAIN calls /\ calls'[i] = calls[i]
    BY <1>6, <1>12
  <2>2. CASE j \in DOMAIN calls
    <3>1. calls'[j] = calls[j]
      BY <1>6, <2>2
    <3> QED BY <1>1, <1>12, <2>1, <2>2, <3>1 DEF CallsGraph
  <2>3. CASE calls'[j] = c
    <3>1. engine[m] = "linked" /\ c.root = m
      BY <1>4, <1>12, <2>3
    <3>2. \A x \in calls[i].open : engine[x] = "evaluating"
      BY <1>0, <2>1 DEF Walks, WalkOf
    <3> QED BY <1>0, <2>1, <2>3, <3>1, <3>2
  <2> QED BY <1>8, <2>2, <2>3
<1>13. CallsGraph(calls', engine')
  BY <1>10, <1>11, <1>12 DEF CallsGraph
<1>14. EngineGraph(engine', runs')
  <2>1. \A x \in Modules : imports[x] \subseteq Modules
    BY <1>1 DEF ImportsOK
  <2>2. UNCHANGED runs
    OBVIOUS
  <2> QED BY <1>1, <1>3, <2>1, <2>2 DEF EngineGraph
<1> QED BY <1>13, <1>14

LEMMA EvaluateGraph ==
  ASSUME ModuleInv, GraphInv, NEW m \in Modules, Evaluate(m) \/ EvaluateSynthetic(m)
  PROVE  GraphInv'
<1>0. /\ UNCHANGED <<imports, runs>> /\ MayEvaluate(m)
      /\ status \in [Modules -> Statuses]
      /\ handed \in [Modules -> {"none", "fulfilled", "rejected", "engine"}]
  BY DEF Evaluate, EvaluateSynthetic, wrapperVars, ModuleInv, StatusInv
<1>1. ImportsOK /\ EngineGraph(engine, runs) /\ CallsGraph(calls, engine)
      /\ RootsGraph(handed, status)
  BY DEF GraphInv
<1>2. \A x \in Modules : status[x] \in {"Evaluated", "Errored"}
                          => status'[x] \in {"Evaluated", "Errored"}
  BY <1>0 DEF Evaluate, EvaluateSynthetic
<1>3. \A x \in Modules : handed'[x] = "engine" => handed[x] = "engine"
  BY <1>0 DEF Evaluate, EvaluateSynthetic
<1>4. RootsGraph(handed', status')
  <2>1. RootsGraph(handed, status')
    BY <1>1, <1>2, MarkedStay
  <2> QED BY <1>3, <2>1 DEF RootsGraph
<1>5. EngineGraph(engine', runs') /\ CallsGraph(calls', engine')
  <2>1. CASE UNCHANGED <<engine, calls>>
    BY <1>0, <1>1, <2>1
  <2>2. CASE EvalFunction(m) /\ (m \notin Synthetic => engine[m] # "evaluating")
    BY <1>0, <2>2, EvalGraph
  <2> QED BY <2>1, <2>2 DEF Evaluate, EvaluateSynthetic
<1> QED BY <1>0, <1>1, <1>4, <1>5, GraphNext

-----------------------------------------------------------------------------
(* The innermost walk and its current module.                              *)
LEMMA TopGraph ==
  ASSUME ModuleInv, GraphInv, calls # <<>>
  PROVE  /\ TreeOf(Top, engine) /\ WalkOf(Top, engine, runs) /\ Top \in CallType
         /\ Top.root \in Modules /\ Top.open \subseteq Modules
         /\ Len(calls) \in DOMAIN calls /\ Top = calls[Len(calls)]
         /\ \A i \in DOMAIN calls : i = Len(calls) \/ i < Len(calls)
<1>1. calls \in Seq(CallType) /\ WalkInv
  BY DEF ModuleInv, WalkInv, Walks
<1>2. /\ Len(calls) \in Nat \ {0} /\ DOMAIN calls = 1 .. Len(calls)
      /\ Last(calls) = calls[Len(calls)]
  BY <1>1, FrontFacts
<1>3. Len(calls) \in DOMAIN calls /\ Top = calls[Len(calls)]
      /\ \A i \in DOMAIN calls : i = Len(calls) \/ i < Len(calls)
  BY <1>2 DEF Top
<1>4. TreeOf(Top, engine)
  BY <1>3 DEF GraphInv, CallsGraph
<1>5. WalkOf(Top, engine, runs) /\ Top \in CallType
  BY <1>1, TopWalk
<1> QED BY <1>3, <1>4, <1>5 DEF CallType

LEMMA CurrentGraph ==
  ASSUME ModuleInv, GraphInv, calls # <<>>, Top.path # <<>>
  PROVE  /\ Len(Top.path) \in Nat \ {0} /\ DOMAIN Top.path = 1 .. Len(Top.path)
         /\ Len(Top.path) \in DOMAIN Top.path /\ 1 \in DOMAIN Top.path
         /\ Current = Top.path[Len(Top.path)] /\ Top.path[1] = Top.root
         /\ Current \in Top.open /\ Current \in Modules /\ Top.root \in Top.open
         /\ Current \in Graph(Top.root)
         /\ \A k \in DOMAIN Top.path : /\ Current \in Graph(Top.path[k])
                                       /\ Top.path[k] \in Modules
<1>1. WalkInv
  BY DEF ModuleInv
<1>2. /\ Len(Top.path) \in Nat \ {0} /\ DOMAIN Top.path = 1 .. Len(Top.path)
      /\ Current = Top.path[Len(Top.path)]
      /\ Current \in Top.open /\ Current \in Modules
  BY <1>1, CurrentFacts
<1>3. Len(Top.path) \in DOMAIN Top.path /\ 1 \in DOMAIN Top.path
      /\ \A k \in DOMAIN Top.path : k <= Len(Top.path)
  BY <1>2
<1>4. TreeOf(Top, engine) /\ WalkOf(Top, engine, runs) /\ Top.open \subseteq Modules
  BY TopGraph
<1>5. \A k \in DOMAIN Top.path : Top.path[k] \in Top.open
  BY <1>4 DEF WalkOf
<1>6. Top.path[1] = Top.root
  BY <1>4 DEF TreeOf
<1>7. \A k \in DOMAIN Top.path : Current \in Graph(Top.path[k])
  BY <1>2, <1>3, <1>4 DEF TreeOf
<1>8. Current \in Graph(Top.root)
  BY <1>3, <1>6, <1>7
<1> QED BY <1>2, <1>3, <1>4, <1>5, <1>6, <1>7, <1>8

(* An import that is being evaluated is open in the same walk, and waits   *)
(* in a cycle with the current module.                                     *)
LEMMA ImportOpen ==
  ASSUME ModuleInv, GraphInv, calls # <<>>, Top.path # <<>>,
         NEW x \in imports[Current], engine[x] = "evaluating"
  PROVE  x \in Top.open /\ Tied(x, Current)
<1>0. ImportsOK /\ CallsGraph(calls, engine)
  BY DEF GraphInv
<1>1. /\ Current \in Modules /\ Current \in Graph(Top.root)
      /\ \A k \in DOMAIN Top.path : /\ Current \in Graph(Top.path[k])
                                    /\ Top.path[k] \in Modules
  BY CurrentGraph
<1>2. Current \in Graph(Current)
  BY <1>1, GraphRoot
<1>3. x \in Modules /\ x \in Graph(Current)
  BY <1>0, <1>2, GraphStep
<1>4. x \in Graph(Top.root)
  BY <1>0, <1>1, GraphStep
<1>5. PICK i \in DOMAIN calls : x \in calls[i].open
  BY <1>0, <1>3 DEF CallsGraph
<1>6. Len(calls) \in DOMAIN calls /\ Top = calls[Len(calls)]
      /\ (i = Len(calls) \/ i < Len(calls))
  BY TopGraph
<1>7. i < Len(calls) => Graph(Top.root) \cap calls[i].open = {}
  BY <1>0, <1>6 DEF CallsGraph
<1>8. x \in Top.open
  BY <1>4, <1>5, <1>6, <1>7
<1>9. PICK k \in DOMAIN Top.path : Tied(x, Top.path[k])
  BY <1>8, TopGraph DEF TreeOf
<1>10. Current \in Graph(x)
  BY <1>0, <1>1, <1>3, <1>9, GraphTrans DEF Tied
<1> QED BY <1>3, <1>8, <1>10 DEF Tied

(* An import is entered.                                                   *)
LEMMA EnterGraph ==
  ASSUME ModuleInv, GraphInv, NEW d \in Modules, EnterImport(d)
  PROVE  GraphInv'
<1> DEFINE c == [Top EXCEPT !.path = Append(@, d), !.open = @ \cup {d}]
<1>0. /\ calls # <<>> /\ ~Top.body /\ Top.path # <<>> /\ engine[d] = "linked"
      /\ engine' = [engine EXCEPT ![d] = "evaluating"] /\ d \in imports[Current]
      /\ SetTop(c)
      /\ UNCHANGED <<imports, status, runs, handed>>
  BY DEF EnterImport, Walking, wrapperVars
<1>1. /\ engine \in [Modules -> EngineStatuses] /\ Walks(calls, engine, runs)
      /\ ImportsOK /\ EngineGraph(engine, runs) /\ CallsGraph(calls, engine)
      /\ RootsGraph(handed, status)
  BY DEF GraphInv, ModuleInv, WalkInv
<1>2. /\ TreeOf(Top, engine) /\ Top \in CallType
      /\ Top.root \in Modules /\ Top.open \subseteq Modules
  BY <1>0, TopGraph
<1>3. /\ Top.path[1] = Top.root /\ 1 \in DOMAIN Top.path /\ Current \in Modules
      /\ \A k \in DOMAIN Top.path : /\ Current \in Graph(Top.path[k])
                                    /\ Top.path[k] \in Modules
  BY <1>0, CurrentGraph
<1>4. \A x \in Modules : \/ engine'[x] = engine[x]
                         \/ x = d /\ engine[x] = "linked" /\ engine'[x] = "evaluating"
  BY <1>0, <1>1
<1> DEFINE p == Top.path \o <<d>>
<1>5. /\ p \in Seq(Modules) /\ Append(Top.path, d) = p
      /\ Len(Top.path) \in Nat /\ Len(p) = Len(Top.path) + 1
      /\ DOMAIN Top.path = 1 .. Len(Top.path) /\ DOMAIN p = 1 .. Len(Top.path) + 1
      /\ p[Len(Top.path) + 1] = d
      /\ \A k \in 1 .. Len(Top.path) : p[k] = Top.path[k]
  <2>1. Top.path \in Seq(Modules)
    BY <1>2 DEF CallType
  <2> QED BY <2>1, AppendFacts
<1> HIDE DEF p
<1>6. /\ c \in CallType /\ c.root = Top.root /\ c.path = p
      /\ c.open = Top.open \cup {d} /\ c.body = FALSE
  BY <1>0, <1>2, <1>5 DEF CallType
<1> HIDE DEF c
<1>7. \A k \in DOMAIN p : \/ k \in DOMAIN Top.path /\ p[k] = Top.path[k]
                          \/ k = Len(Top.path) + 1 /\ p[k] = d
  BY <1>5
<1>8. \A k \in DOMAIN Top.path : d \in Graph(Top.path[k])
  BY <1>0, <1>1, <1>3, GraphStep
<1>9. \A j, k \in DOMAIN p : j <= k => p[k] \in Graph(p[j])
  <2> SUFFICES ASSUME NEW j \in DOMAIN p, NEW k \in DOMAIN p, j <= k
               PROVE  p[k] \in Graph(p[j])
    OBVIOUS
  <2>1. CASE k \in DOMAIN Top.path
    <3>1. j \in DOMAIN Top.path
      BY <1>5, <2>1
    <3> QED BY <1>2, <1>5, <2>1, <3>1 DEF TreeOf
  <2>2. CASE k = Len(Top.path) + 1 /\ p[k] = d /\ j \in DOMAIN Top.path
    BY <1>5, <1>8, <2>2
  <2>3. CASE p[k] = d /\ p[j] = d
    BY <2>3, GraphRoot
  <2> QED BY <1>5, <1>7, <2>1, <2>2, <2>3
<1>10. TreeOf(c, engine')
  <2>1. p # <<>> /\ p[1] = Top.root /\ 1 \in DOMAIN p
    BY <1>3, <1>5
  <2>2. ASSUME NEW x \in c.open PROVE \E k \in DOMAIN p : Tied(x, p[k])
    <3>1. CASE x \in Top.open
      <4>1. PICK k \in DOMAIN Top.path : Tied(x, Top.path[k])
        BY <1>2, <3>1 DEF TreeOf
      <4>2. k \in DOMAIN p /\ p[k] = Top.path[k]
        BY <1>5
      <4> QED BY <4>1, <4>2
    <3>2. CASE x = d
      <4>1. Tied(d, d)
        BY GraphRoot DEF Tied
      <4>2. Len(Top.path) + 1 \in DOMAIN p
        BY <1>5
      <4> QED BY <1>5, <3>2, <4>1, <4>2
    <3> QED BY <1>6, <3>1, <3>2
  <2>3. ASSUME NEW x \in c.open, \A k \in DOMAIN p : p[k] # x
        PROVE  Finished(c, engine', x)
    <3>1. x \in Top.open /\ x \in Modules
      <4>1. Len(Top.path) + 1 \in DOMAIN p
        BY <1>5
      <4> QED BY <1>2, <1>5, <1>6, <2>3, <4>1
    <3>2. \A k \in DOMAIN Top.path : Top.path[k] # x
      <4>1. \A k \in DOMAIN Top.path : k \in DOMAIN p /\ p[k] = Top.path[k]
        BY <1>5
      <4> QED BY <2>3, <4>1
    <3>3. Finished(Top, engine, x)
      BY <1>2, <3>1, <3>2 DEF TreeOf
    <3>4. imports[x] \subseteq Modules
      BY <1>1, <3>1 DEF ImportsOK
    <3> QED BY <1>4, <1>6, <3>3, <3>4 DEF Finished
  <2> QED BY <1>6, <1>9, <2>1, <2>2, <2>3 DEF TreeOf
<1>11. CallsGraph(calls', engine')
  <2>1. Forward(engine, engine')
    BY <1>4 DEF Forward, Ended
  <2>2. \A x \in Modules : engine'[x] = "evaluating" =>
          x \in c.open \/ (engine[x] = "evaluating" /\ x \notin Last(calls).open)
    BY <1>4, <1>6 DEF Top
  <2>3. c.root = Last(calls).root /\ Last(calls).path # <<>>
    BY <1>0, <1>6 DEF Top
  <2>4. /\ ImportsOK /\ Walks(calls, engine, runs) /\ CallsGraph(calls, engine)
        /\ calls # <<>> /\ c \in CallType
        /\ (c.path # <<>> => Last(calls).path # <<>>)
    BY <1>0, <1>1, <1>6, <2>3
  <2>5. CallsGraph(Front(calls) \o <<c>>, engine')
    BY <1>10, <2>1, <2>2, <2>3, <2>4, SetTopGraph
  <2> QED BY <1>0, <2>5 DEF SetTop
<1>12. EngineGraph(engine', runs')
  <2>1. \A x \in Modules : imports[x] \subseteq Modules
    BY <1>1 DEF ImportsOK
  <2> QED BY <1>0, <1>1, <1>4, <2>1 DEF EngineGraph
<1> QED BY <1>0, <1>1, <1>11, <1>12, GraphNext

(* What the walk has open fails; nothing that was evaluated, or waits,     *)
(* imports any of it.                                                      *)
LEMMA FailGraph ==
  ASSUME ModuleInv, GraphInv, calls # <<>>, Top.path # <<>>, Fail,
         UNCHANGED <<imports, status, runs, handed>>
  PROVE  GraphInv'
<1> DEFINE c == Call(Top.root)
<1>1. /\ engine \in [Modules -> EngineStatuses] /\ Walks(calls, engine, runs)
      /\ ImportsOK /\ EngineGraph(engine, runs) /\ CallsGraph(calls, engine)
      /\ RootsGraph(handed, status)
  BY DEF GraphInv, ModuleInv, WalkInv
<1>2. /\ WalkOf(Top, engine, runs) /\ Top.root \in Modules /\ Top.open \subseteq Modules
      /\ Top.root \in Top.open
  BY TopGraph, CurrentGraph
<1>3. /\ engine' = [d \in Modules |-> IF d \in Top.open THEN "failed" ELSE engine[d]]
      /\ SetTop(c)
  BY DEF Fail
<1>4. \A x \in Modules : \/ engine'[x] = engine[x] /\ x \notin Top.open
                         \/ engine[x] = "evaluating" /\ engine'[x] = "failed"
  BY <1>2, <1>3 DEF WalkOf
<1>5. c \in CallType /\ c.root = Top.root /\ c.path = <<>> /\ c.open = {} /\ ~c.body
  <2>1. <<>> \in Seq(Modules) /\ {} \in SUBSET Modules
    OBVIOUS
  <2> QED BY <1>2, <2>1 DEF Call, CallType
<1> HIDE DEF c
<1>6. TreeOf(c, engine')
  <2>1. DOMAIN c.path = {}
    BY <1>5
  <2>2. engine'[c.root] \in Ended
    BY <1>2, <1>4, <1>5 DEF Ended
  <2> QED BY <1>5, <2>1, <2>2 DEF TreeOf
<1>7. CallsGraph(calls', engine')
  <2>1. Forward(engine, engine')
    BY <1>4 DEF Forward, Ended
  <2>2. \A x \in Modules : engine'[x] = "evaluating" =>
          x \in c.open \/ (engine[x] = "evaluating" /\ x \notin Last(calls).open)
    BY <1>4 DEF Top
  <2>3. c.root = Last(calls).root /\ c.path = <<>>
    BY <1>5 DEF Top
  <2>4. /\ ImportsOK /\ Walks(calls, engine, runs) /\ CallsGraph(calls, engine)
        /\ calls # <<>> /\ c \in CallType
        /\ (c.path # <<>> => Last(calls).path # <<>>)
    BY <1>1, <1>5, <2>3
  <2>5. CallsGraph(Front(calls) \o <<c>>, engine')
    BY <1>6, <2>1, <2>2, <2>3, <2>4, SetTopGraph
  <2> QED BY <1>3, <2>5 DEF SetTop
<1>8. EngineGraph(engine', runs')
  <2>1. \A x \in Modules : imports[x] \subseteq Modules
    BY <1>1 DEF ImportsOK
  <2>2. UNCHANGED runs
    OBVIOUS
  <2> QED BY <1>1, <1>4, <2>1, <2>2 DEF EngineGraph
<1>9. RootsGraph(handed', status')
  BY <1>1
<1> QED BY <1>1, <1>7, <1>8, <1>9, GraphNext

(* A body starts when its imports are done, or wait in a cycle for it.     *)
LEMMA StartBodyGraph ==
  ASSUME ModuleInv, GraphInv, StartBody
  PROVE  GraphInv'
<1> DEFINE c == [Top EXCEPT !.body = TRUE]
<1>0. /\ calls # <<>> /\ ~Top.body /\ Top.path # <<>>
      /\ \A d \in imports[Current] : engine[d] \notin {"linked", "failed", "async"}
      /\ runs' = [runs EXCEPT ![Current] = @ + 1]
      /\ SetTop(c)
      /\ UNCHANGED <<imports, status, engine, handed>>
  BY DEF StartBody, ImportsDone, Walking, wrapperVars
<1>1. /\ engine \in [Modules -> EngineStatuses] /\ Walks(calls, engine, runs)
      /\ runs \in [Modules -> Nat]
      /\ ImportsOK /\ EngineGraph(engine, runs) /\ CallsGraph(calls, engine)
      /\ RootsGraph(handed, status)
  BY DEF GraphInv, ModuleInv, WalkInv
<1>2. /\ TreeOf(Top, engine) /\ WalkOf(Top, engine, runs) /\ Top \in CallType
      /\ Current \in Modules /\ Current \in Top.open
  BY <1>0, TopGraph, CurrentGraph
<1>3. engine[Current] = "evaluating"
  BY <1>2 DEF WalkOf
<1>4. Finished(Top, engine, Current)
  <2> SUFFICES ASSUME NEW x \in imports[Current], engine[x] # "evaluated"
               PROVE  x \in Top.open /\ Tied(x, Current)
    BY DEF Finished
  <2>1. x \in Modules
    BY <1>1, <1>2 DEF ImportsOK
  <2>2. engine[x] \notin {"none", "unlinked"}
    BY <1>1, <1>2, <1>3 DEF EngineGraph
  <2>3. engine[x] = "evaluating"
    BY <1>0, <1>1, <2>1, <2>2 DEF EngineStatuses, Started
  <2> QED BY <1>0, <2>3, ImportOpen
<1>5. /\ c \in CallType /\ c.root = Top.root /\ c.path = Top.path
      /\ c.open = Top.open /\ c.body = TRUE
  BY <1>2 DEF CallType
<1> HIDE DEF c
<1>6. TreeOf(c, engine)
  <2>1. \A x : Finished(Top, engine, x) => Finished(c, engine, x)
    BY <1>5 DEF Finished
  <2>2. Finished(c, engine, Last(c.path))
    BY <1>4, <1>5, <2>1 DEF Current
  <2> QED BY <1>0, <1>2, <1>5, <2>1, <2>2 DEF TreeOf
<1>7. CallsGraph(calls', engine')
  <2>1. Forward(engine, engine)
    BY DEF Forward
  <2>2. \A x \in Modules : engine[x] = "evaluating" =>
          x \in c.open \/ (engine[x] = "evaluating" /\ x \notin Last(calls).open)
    BY <1>5 DEF Top
  <2>3. c.root = Last(calls).root /\ Last(calls).path # <<>>
    BY <1>0, <1>5 DEF Top
  <2>4. /\ ImportsOK /\ Walks(calls, engine, runs) /\ CallsGraph(calls, engine)
        /\ calls # <<>> /\ c \in CallType
        /\ (c.path # <<>> => Last(calls).path # <<>>)
    BY <1>0, <1>1, <1>5, <2>3
  <2>5. CallsGraph(Front(calls) \o <<c>>, engine)
    BY <1>6, <2>1, <2>2, <2>3, <2>4, SetTopGraph
  <2> QED BY <1>0, <2>5 DEF SetTop
<1>8. EngineGraph(engine', runs')
  <2>1. \A x \in Modules : engine[x] = "async" => runs'[x] = runs[x]
    BY <1>0, <1>1, <1>3
  <2>2. UNCHANGED engine
    BY <1>0
  <2> QED BY <1>1, <2>1, <2>2 DEF EngineGraph
<1> QED BY <1>0, <1>1, <1>7, <1>8, GraphNext

(* Jobs: what settles is not what the imports of evaluated modules are; a  *)
(* failure goes to all that wait for the module.                           *)
LEMMA JobGraph ==
  ASSUME ModuleInv, GraphInv, NEW m \in Modules, NEW o \in Outcomes,
         AwaitEnds(m, o) \/ RunAfterImports(m, o)
  PROVE  GraphInv'
<1>1. /\ engine \in [Modules -> EngineStatuses] /\ Walks(calls, engine, runs)
      /\ runs \in [Modules -> Nat]
      /\ ImportsOK /\ EngineGraph(engine, runs) /\ CallsGraph(calls, engine)
      /\ RootsGraph(handed, status)
  BY DEF GraphInv, ModuleInv, WalkInv
<1>2. /\ engine[m] = "async" /\ engine' = Settled(m, o)
      /\ UNCHANGED <<imports, status, calls, handed>>
      /\ \/ UNCHANGED runs /\ runs[m] > 0 /\ o # "async"
         \/ /\ runs' = [runs EXCEPT ![m] = @ + 1]
            /\ \A d \in imports[m] : engine[d] = "evaluated"
  BY DEF AwaitEnds, RunAfterImports, wrapperVars
<1>3. \A x \in Modules :
        \/ engine'[x] = engine[x] /\ x # m
           /\ (o = "failed" /\ engine[x] = "async" => m \notin Graph(x))
        \/ x = m /\ engine'[x] = o
        \/ engine[x] = "async" /\ engine'[x] = "failed" /\ o = "failed"
           /\ m \in Graph(x)
  BY <1>2 DEF Settled
<1>4. o \in Ended
  BY DEF Outcomes, Ended
<1>5. \A d \in imports[m] : engine[d] = "evaluated"
  <2>1. CASE runs[m] > 0
    <3>1. runs[m] # 0
      BY <1>1, <2>1
    <3> QED BY <1>1, <1>2, <3>1 DEF EngineGraph
  <2> QED BY <1>2, <2>1
<1>6. Forward(engine, engine')
      /\ \A x \in Modules : engine'[x] = "evaluating" => engine[x] = "evaluating"
  BY <1>2, <1>3, <1>4 DEF Forward, Ended
<1>7. CallsGraph(calls', engine')
  <2>1. CallsGraph(calls, engine')
    BY <1>1, <1>6, CallsElsewhere
  <2> QED BY <1>2, <2>1
<1>8. EngineGraph(engine', runs')
  <2>1. \A x \in Modules : imports[x] \subseteq Modules
    BY <1>1 DEF ImportsOK
  <2>2. \A x \in Modules : engine'[x] \notin {"none", "unlinked"}
                            <=> engine[x] \notin {"none", "unlinked"}
    BY <1>2, <1>3, <1>4 DEF Ended
  <2>3. ASSUME NEW x \in Modules, engine'[x] = "evaluated", NEW d \in imports[x]
        PROVE  engine'[d] = "evaluated"
    <3>1. engine[d] = "evaluated"
      BY <1>1, <1>3, <1>5, <2>3 DEF EngineGraph
    <3> QED BY <1>6, <2>1, <3>1 DEF Forward
  <2>4. ASSUME NEW x \in Modules, engine'[x] = "async", NEW d \in imports[x]
        PROVE  \/ engine'[d] = "evaluated"
               \/ engine'[d] = "async" /\ runs'[x] = 0
    <3>1. CASE x = m
      BY <1>5, <1>6, <2>1, <3>1 DEF Forward
    <3>2. CASE x # m
      <4>1. /\ engine[x] = "async" /\ runs'[x] = runs[x]
            /\ (o = "failed" => m \notin Graph(x))
        BY <1>1, <1>2, <1>3, <2>4, <3>2
      <4>2. CASE engine[d] = "evaluated"
        BY <1>6, <2>1, <4>2 DEF Forward
      <4>3. CASE engine[d] = "async" /\ runs[x] = 0
        <5>1. d \in Modules /\ d \in Graph(x)
          BY <1>1, GraphRoot, GraphStep
        <5>2. o = "failed" => m \notin Graph(d) /\ m # d
          BY <1>1, <4>1, <5>1, GraphTrans
        <5>3. engine'[d] = "async" \/ (d = m /\ engine'[d] = o)
          BY <1>3, <4>3, <5>1, <5>2
        <5> QED BY <4>1, <4>3, <5>2, <5>3 DEF Outcomes
      <4> QED BY <1>1, <4>1, <4>2, <4>3 DEF EngineGraph
    <3> QED BY <3>1, <3>2
  <2> QED BY <1>1, <2>1, <2>2, <2>3, <2>4 DEF EngineGraph
<1>9. RootsGraph(handed', status')
  BY <1>1, <1>2
<1> QED BY <1>1, <1>2, <1>7, <1>8, <1>9, GraphNext

-----------------------------------------------------------------------------
(* What the walk finishes when it leaves the current module.               *)
Done ==
  IF \E i \in DOMAIN Front(Top.path) : Front(Top.path)[i] \in Graph(Current)
    THEN {} ELSE { d \in Top.open : Tied(d, Current) }

(* Nothing is finished while the current module reaches the rest of its    *)
(* path; otherwise it is finished with all that waited for it.             *)
LEMMA DoneFacts ==
  ASSUME ModuleInv, GraphInv, calls # <<>>, Top.path # <<>>
  PROVE  /\ Done \subseteq Top.open
         /\ \A k \in DOMAIN Front(Top.path) : Front(Top.path)[k] \notin Done
         /\ \/ /\ Done = {}
               /\ Front(Top.path) # <<>>
               /\ InCycle(Current)
               /\ \E k \in DOMAIN Front(Top.path) : Tied(Current, Front(Top.path)[k])
            \/ Done = { d \in Top.open : Tied(d, Current) } /\ Current \in Done
         /\ \A d \in Top.open \ Done :
              \E k \in DOMAIN Front(Top.path) : Tied(d, Front(Top.path)[k])
<1> DEFINE rest == Front(Top.path)
           n == Len(Top.path)
<1>0. /\ WalkInv /\ ImportsOK
      /\ TreeOf(Top, engine) /\ WalkOf(Top, engine, runs) /\ Top.open \subseteq Modules
  BY TopGraph DEF ModuleInv, GraphInv
<1>1. /\ n \in Nat \ {0} /\ DOMAIN Top.path = 1 .. n /\ n \in DOMAIN Top.path
      /\ Current = Top.path[n] /\ Current \in Top.open /\ Current \in Modules
      /\ \A k \in DOMAIN Top.path : /\ Current \in Graph(Top.path[k])
                                    /\ Top.path[k] \in Modules
  BY CurrentGraph
<1>2. /\ rest \in Seq(Modules) /\ DOMAIN rest = 1 .. n - 1 /\ Len(rest) = n - 1
      /\ \A k \in 1 .. n - 1 : rest[k] = Top.path[k]
  BY <1>0, CurrentFacts
<1> HIDE DEF rest, n
<1>3. \A k \in DOMAIN rest : /\ k \in DOMAIN Top.path /\ rest[k] = Top.path[k]
                             /\ k # n
  BY <1>1, <1>2
<1>4. \A k \in DOMAIN Top.path : k = n \/ k \in DOMAIN rest
  BY <1>1, <1>2
<1>5. ASSUME NEW d \in Top.open, ~Tied(d, Current)
      PROVE  \E k \in DOMAIN rest : Tied(d, rest[k])
  <2>1. PICK k \in DOMAIN Top.path : Tied(d, Top.path[k])
    BY <1>0 DEF TreeOf
  <2>2. k \in DOMAIN rest
    BY <1>1, <1>4, <1>5, <2>1
  <2> QED BY <1>3, <2>1, <2>2
<1>6. CASE \E i \in DOMAIN rest : rest[i] \in Graph(Current)
  <2>1. PICK i \in DOMAIN rest : rest[i] \in Graph(Current)
    BY <1>6
  <2>2. Tied(Current, rest[i]) /\ Tied(rest[i], Current) /\ rest[i] \in Modules
    BY <1>1, <1>3, <2>1 DEF Tied
  <2>3. rest[i] # Current
    BY <1>0, <1>1, <1>3 DEF WalkOf
  <2>4. InCycle(Current)
    BY <1>0, <1>1, <2>2, <2>3, TiedCycle
  <2>5. Done = {}
    BY <1>6 DEF Done, rest
  <2>6. rest # <<>>
    BY <1>2, <2>1
  <2>7. ASSUME NEW d \in Top.open PROVE \E k \in DOMAIN rest : Tied(d, rest[k])
    <3>1. CASE Tied(d, Current)
      <4>1. Tied(d, rest[i])
        BY <1>0, <1>1, <2>2, <3>1, TiedTrans
      <4> QED BY <4>1
    <3> QED BY <1>5, <3>1
  <2> QED BY <2>2, <2>4, <2>5, <2>6, <2>7 DEF rest
<1>7. CASE \A i \in DOMAIN rest : rest[i] \notin Graph(Current)
  <2>1. Done = { d \in Top.open : Tied(d, Current) }
    BY <1>7 DEF Done, rest
  <2>2. Current \in Done
    BY <1>1, <2>1, GraphRoot DEF Tied
  <2>3. \A k \in DOMAIN rest : rest[k] \notin Done
    BY <1>7, <2>1 DEF Tied
  <2>4. \A d \in Top.open \ Done : \E k \in DOMAIN rest : Tied(d, rest[k])
    BY <1>5, <2>1
  <2> QED BY <2>1, <2>2, <2>3, <2>4 DEF rest
<1> QED BY <1>6, <1>7

(* The walk leaves the current module, whose imports are done, or wait in  *)
(* a cycle for it; it only waits itself where it is in no cycle.           *)
LEMMA LeaveGraph ==
  ASSUME ModuleInv, GraphInv, calls # <<>>, Top.path # <<>>,
         NEW state \in {"evaluated", "async"}, Leave(state),
         UNCHANGED <<imports, status, runs, handed>>,
         state = "async" => ~InCycle(Current),
         \A x \in imports[Current] :
           \/ engine[x] = "evaluated"
           \/ x \in Top.open /\ Tied(x, Current)
           \/ state = "async" /\ engine[x] = "async" /\ runs[Current] = 0
  PROVE  GraphInv'
<1> DEFINE rest == Front(Top.path)
           c == [Top EXCEPT !.path = rest, !.open = @ \ Done, !.body = FALSE]
<1>1. /\ engine \in [Modules -> EngineStatuses] /\ Walks(calls, engine, runs)
      /\ ImportsOK /\ EngineGraph(engine, runs) /\ CallsGraph(calls, engine)
      /\ RootsGraph(handed, status) /\ WalkInv
  BY DEF GraphInv, ModuleInv, WalkInv
<1>2. /\ engine' = [d \in Modules |-> IF d \in Done THEN state ELSE engine[d]]
      /\ SetTop(c)
  BY DEF Leave, Done, Tied
<1>3. /\ TreeOf(Top, engine) /\ WalkOf(Top, engine, runs) /\ Top \in CallType
      /\ Top.open \subseteq Modules
  BY TopGraph
<1>4. /\ Len(Top.path) \in Nat \ {0} /\ DOMAIN Top.path = 1 .. Len(Top.path)
      /\ rest \in Seq(Modules) /\ DOMAIN rest = 1 .. Len(Top.path) - 1
      /\ Len(rest) = Len(Top.path) - 1
      /\ \A k \in 1 .. Len(Top.path) - 1 : rest[k] = Top.path[k]
      /\ Current = Top.path[Len(Top.path)]
  BY <1>1, CurrentFacts
<1>5. /\ Current \in Top.open /\ Current \in Modules
      /\ Top.path[1] = Top.root /\ 1 \in DOMAIN Top.path
  BY CurrentGraph
<1>6. /\ Done \subseteq Top.open
      /\ \A k \in DOMAIN rest : rest[k] \notin Done
      /\ \/ /\ Done = {} /\ rest # <<>> /\ InCycle(Current)
            /\ \E k \in DOMAIN rest : Tied(Current, rest[k])
         \/ Done = { d \in Top.open : Tied(d, Current) } /\ Current \in Done
      /\ \A d \in Top.open \ Done : \E k \in DOMAIN rest : Tied(d, rest[k])
  BY DoneFacts
<1> HIDE DEF rest
<1>7. /\ c \in CallType /\ c.root = Top.root /\ c.path = rest
      /\ c.open = Top.open \ Done /\ c.body = FALSE
  BY <1>3, <1>4 DEF CallType
<1> HIDE DEF c
<1>8. \A x \in Modules : \/ engine'[x] = engine[x] /\ x \notin Done
                         \/ x \in Done /\ engine[x] = "evaluating" /\ engine'[x] = state
  BY <1>2, <1>3, <1>6 DEF WalkOf
<1>9. Forward(engine, engine')
  BY <1>8 DEF Forward, Ended
<1>10. \A k \in DOMAIN rest : k \in DOMAIN Top.path /\ rest[k] = Top.path[k]
  BY <1>4
<1>11. \A x \in Modules : imports[x] \subseteq Modules
  BY <1>1 DEF ImportsOK
<1>12. ASSUME NEW d \in Top.open, d # Current, \A k \in DOMAIN rest : rest[k] # d
       PROVE  Finished(Top, engine, d)
  <2>1. \A k \in DOMAIN Top.path : k \in DOMAIN rest \/ k = Len(Top.path)
    BY <1>4
  <2>2. \A k \in DOMAIN Top.path : Top.path[k] # d
    BY <1>4, <1>10, <1>12, <2>1
  <2> QED BY <1>3, <2>2 DEF TreeOf
<1>13. ASSUME NEW d \in c.open, \A k \in DOMAIN rest : rest[k] # d
       PROVE  Finished(c, engine', d)
  <2>0. d \in Top.open /\ d \notin Done /\ d \in Modules
    BY <1>3, <1>7
  <2>1. Finished(Top, engine, d)
    <3>1. CASE d = Current
      <4>1. state # "async"
        BY <1>6, <2>0, <3>1
      <4> QED BY <3>1, <4>1 DEF Finished
    <3> QED BY <1>12, <1>13, <2>0, <3>1
  <2> SUFFICES ASSUME NEW x \in imports[d], engine'[x] # "evaluated"
               PROVE  x \in c.open /\ Tied(x, d)
    BY DEF Finished
  <2>2. x \in Modules /\ engine[x] # "evaluated"
    BY <1>9, <1>11, <2>0 DEF Forward
  <2>3. x \in Top.open /\ Tied(x, d) /\ Tied(d, x)
    BY <2>1, <2>2 DEF Finished, Tied
  <2>4. x \notin Done
    <3> SUFFICES ASSUME x \in Done PROVE FALSE
      OBVIOUS
    <3>1. Tied(x, Current) /\ Done = { y \in Top.open : Tied(y, Current) }
      BY <1>6
    <3>2. Tied(d, Current)
      BY <1>1, <1>5, <2>0, <2>2, <2>3, <3>1, TiedTrans
    <3> QED BY <2>0, <3>1, <3>2
  <2> QED BY <1>7, <2>3, <2>4
<1>14. TreeOf(c, engine')
  <2>1. rest # <<>> => rest[1] = Top.root
    BY <1>4, <1>5
  <2>2. \A j, k \in DOMAIN rest : j <= k => rest[k] \in Graph(rest[j])
    BY <1>3, <1>10 DEF TreeOf
  <2>3. \A d \in c.open : \E k \in DOMAIN rest : Tied(d, rest[k])
    BY <1>6, <1>7
  <2>4. rest = <<>> => engine'[Top.root] \in Ended
    <3> SUFFICES ASSUME rest = <<>> PROVE engine'[Top.root] \in Ended
      OBVIOUS
    <3>1. Current = Top.root
      BY <1>4, <1>5
    <3>2. Current \in Done
      BY <1>6
    <3> QED BY <1>5, <1>8, <3>1, <3>2 DEF Ended
  <2> QED BY <1>7, <1>13, <2>1, <2>2, <2>3, <2>4 DEF TreeOf
<1>15. CallsGraph(calls', engine')
  <2>1. \A x \in Modules : engine'[x] = "evaluating" =>
          x \in c.open \/ (engine[x] = "evaluating" /\ x \notin Last(calls).open)
    BY <1>7, <1>8 DEF Top
  <2>2. c.root = Last(calls).root /\ Last(calls).path # <<>>
    BY <1>7 DEF Top
  <2>3. /\ ImportsOK /\ Walks(calls, engine, runs) /\ CallsGraph(calls, engine)
        /\ calls # <<>> /\ c \in CallType
        /\ (c.path # <<>> => Last(calls).path # <<>>)
    BY <1>1, <1>7, <2>2
  <2>4. CallsGraph(Front(calls) \o <<c>>, engine')
    BY <1>9, <1>14, <2>1, <2>2, <2>3, SetTopGraph
  <2> QED BY <1>2, <2>4 DEF SetTop
<1>16. ASSUME NEW x \in Done, NEW d \in imports[x]
       PROVE  \/ engine'[d] = "evaluated"
              \/ engine'[d] = "async" /\ state = "async" /\ runs[x] = 0
  <2>1. /\ Done = { y \in Top.open : Tied(y, Current) } /\ x \in Modules
        /\ x \in Top.open /\ Tied(x, Current) /\ d \in Modules
    BY <1>3, <1>6, <1>11
  <2>2. state = "async" => x = Current /\ ~InCycle(Current)
    BY <1>1, <1>5, <2>1, TiedCycle
  <2>3. \/ engine[d] = "evaluated"
        \/ d \in Top.open /\ Tied(d, x)
        \/ state = "async" /\ engine[d] = "async" /\ runs[x] = 0
    <3>1. CASE x = Current
      BY <3>1
    <3>2. CASE x # Current
      <4>1. \A k \in DOMAIN rest : rest[k] # x
        BY <1>6
      <4> QED BY <1>12, <2>1, <3>2, <4>1 DEF Finished
    <3> QED BY <3>1, <3>2
  <2>4. CASE engine[d] = "evaluated"
    BY <1>9, <2>1, <2>4 DEF Forward
  <2>5. CASE d \in Top.open /\ Tied(d, x)
    <3>1. Tied(d, Current)
      BY <1>1, <1>5, <2>1, <2>5, TiedTrans
    <3>2. state # "async"
      BY <1>1, <1>5, <2>1, <2>2, <2>5, <3>1, TiedCycle
    <3>3. d \in Done
      BY <2>1, <2>5, <3>1
    <3> QED BY <1>8, <2>1, <3>2, <3>3
  <2>6. CASE state = "async" /\ engine[d] = "async" /\ runs[x] = 0
    BY <1>8, <2>1, <2>6
  <2> QED BY <2>3, <2>4, <2>5, <2>6
<1>17. EngineGraph(engine', runs')
  <2>1. \A x \in Modules : engine'[x] \notin {"none", "unlinked"}
                            <=> engine[x] \notin {"none", "unlinked"}
    BY <1>8
  <2>2. \A x \in Modules : engine'[x] = "evaluated"
                            => \A d \in imports[x] : engine'[d] = "evaluated"
    BY <1>1, <1>8, <1>9, <1>11, <1>16 DEF EngineGraph, Forward
  <2>3. ASSUME NEW x \in Modules, engine'[x] = "async", NEW d \in imports[x]
        PROVE  engine'[d] = "evaluated" \/ (engine'[d] = "async" /\ runs'[x] = 0)
    <3>0. UNCHANGED runs /\ d \in Modules
      BY <1>11
    <3>1. CASE x \in Done
      BY <1>16, <2>3, <3>0, <3>1
    <3>2. CASE x \notin Done
      <4>1. engine[x] = "async"
        BY <1>8, <2>3, <3>2
      <4> QED BY <1>1, <1>8, <1>9, <3>0, <4>1 DEF EngineGraph, Forward
    <3> QED BY <3>1, <3>2
  <2> QED BY <1>1, <1>11, <2>1, <2>2, <2>3 DEF EngineGraph
<1>18. RootsGraph(handed', status')
  BY <1>1
<1> QED BY <1>1, <1>15, <1>17, <1>18, GraphNext

LEMMA EndBodyGraph ==
  ASSUME ModuleInv, GraphInv, NEW outcome \in Outcomes, EndBody(outcome)
  PROVE  GraphInv'
<1>1. /\ calls # <<>> /\ Top.body /\ UNCHANGED <<imports, status, runs, handed>>
      /\ outcome = "async" => ~InCycle(Current)
      /\ IF outcome = "failed" THEN Fail ELSE Leave(outcome)
  BY DEF EndBody, wrapperVars
<1>2. Top.path # <<>> /\ Finished(Top, engine, Current)
  BY <1>1, TopGraph DEF WalkOf, TreeOf, Current
<1>3. CASE outcome = "failed"
  BY <1>1, <1>2, <1>3, FailGraph
<1>4. CASE outcome \in {"evaluated", "async"}
  BY <1>1, <1>2, <1>4, LeaveGraph DEF Finished
<1> QED BY <1>3, <1>4 DEF Outcomes

LEMMA WaitGraph ==
  ASSUME ModuleInv, GraphInv, WaitForImports
  PROVE  GraphInv'
<1>1. /\ calls # <<>> /\ ~Top.body /\ Top.path # <<>> /\ ~InCycle(Current)
      /\ \A d \in imports[Current] : engine[d] \notin {"linked", "failed"}
      /\ Leave("async") /\ UNCHANGED <<imports, status, runs, handed>>
  BY DEF WaitForImports, ImportsDone, Walking, wrapperVars
<1>2. WalkInv /\ ImportsOK /\ EngineGraph(engine, runs)
      /\ engine \in [Modules -> EngineStatuses]
  BY DEF ModuleInv, WalkInv, GraphInv
<1>3. Current \in Modules /\ Current \in Top.open /\ runs[Current] = 0
  BY <1>1, <1>2, CurrentFacts
<1>4. engine[Current] = "evaluating"
  BY <1>1, <1>3, TopGraph DEF WalkOf
<1>5. ASSUME NEW x \in imports[Current]
      PROVE  \/ engine[x] = "evaluated"
             \/ x \in Top.open /\ Tied(x, Current)
             \/ engine[x] = "async"
  <2>1. x \in Modules
    BY <1>2, <1>3 DEF ImportsOK
  <2>2. engine[x] \notin {"none", "unlinked"}
    BY <1>2, <1>3, <1>4 DEF EngineGraph
  <2>3. CASE engine[x] = "evaluating"
    BY <1>1, <2>3, ImportOpen
  <2> QED BY <1>1, <1>2, <2>1, <2>2, <2>3 DEF EngineStatuses, Started
<1> QED BY <1>1, <1>3, <1>5, LeaveGraph

(* The sweep marks the whole graph of a root that has not failed.          *)
LEMMA ReturnGraph ==
  ASSUME ModuleInv, GraphInv, Return
  PROVE  GraphInv'
<1> DEFINE m == Top.root
<1>0. /\ calls # <<>> /\ Top.path = <<>> /\ UNCHANGED <<imports, engine, runs>>
      /\ calls' = Front(calls)
      /\ handed' = [handed EXCEPT ![m] = IF engine[m] = "failed" THEN "rejected"
                                                              ELSE "engine"]
      /\ status' = IF engine[m] = "failed" THEN [status EXCEPT ![m] = "Errored"]
                   ELSE IF m \in Synthetic THEN [status EXCEPT ![m] = "Evaluated"]
                   ELSE MarkAll
  BY DEF Return, Walking, wrapperVars
<1>1. /\ engine \in [Modules -> EngineStatuses] /\ status \in [Modules -> Statuses]
      /\ handed \in [Modules -> {"none", "fulfilled", "rejected", "engine"}]
      /\ ImportsOK /\ EngineGraph(engine, runs) /\ CallsGraph(calls, engine)
      /\ RootsGraph(handed, status) /\ calls \in Seq(CallType)
      /\ \A x \in Modules : status[x] = "none" => engine[x] = "none"
  BY DEF GraphInv, ModuleInv, WalkInv, StatusInv, Walks
<1>2. /\ TreeOf(Top, engine) /\ m \in Modules /\ Top = calls[Len(calls)]
  BY <1>0, TopGraph
<1>3. Top.open = {}
  <2>1. DOMAIN Top.path = {}
    BY <1>0
  <2> QED BY <1>2, <2>1 DEF TreeOf
<1>4. CallsGraph(calls', engine')
  <2>1. /\ Len(calls) \in Nat \ {0} /\ DOMAIN calls = 1 .. Len(calls)
        /\ DOMAIN Front(calls) = 1 .. Len(calls) - 1
        /\ \A k \in 1 .. Len(calls) - 1 : Front(calls)[k] = calls[k]
    BY <1>0, <1>1, FrontFacts
  <2>2. /\ \A i \in DOMAIN calls' : i \in DOMAIN calls /\ calls'[i] = calls[i]
        /\ \A i \in DOMAIN calls : i \in DOMAIN calls' \/ calls[i] = Top
    BY <1>0, <1>2, <2>1
  <2>3. \A x \in Modules : engine[x] = "evaluating"
                            => \E i \in DOMAIN calls' : x \in calls'[i].open
    BY <1>1, <1>3, <2>2 DEF CallsGraph
  <2>4. CallsGraph(calls', engine)
    BY <1>1, <2>2, <2>3 DEF CallsGraph
  <2> QED BY <1>0, <2>4
<1>5. EngineGraph(engine', runs')
  BY <1>0, <1>1
<1>6. \A x \in Modules : status[x] \in {"Evaluated", "Errored"}
                          => status'[x] \in {"Evaluated", "Errored"}
  BY <1>0, <1>1 DEF MarkAll
<1>7. ASSUME engine[m] # "failed", NEW d \in Graph(m)
      PROVE  status'[d] \in {"Evaluated", "Errored"}
  <2>0. d \in Modules
    BY <1>2, GraphRoot
  <2>1. CASE m \in Synthetic
    <3>1. d = m
      BY <1>1, <1>2, <2>1, GraphLeaf DEF ImportsOK
    <3> QED BY <1>0, <1>1, <1>2, <1>7, <2>1, <3>1
  <2>2. CASE m \notin Synthetic
    <3> DEFINE S == { x \in Modules : engine[x] \in {"async", "evaluated"} }
    <3>1. m \in S
      BY <1>0, <1>2, <1>7, <2>2 DEF TreeOf, Ended
    <3>2. Closed(S)
      BY <1>1 DEF Closed, EngineGraph, ImportsOK
    <3>3. Graph(m) \subseteq S
      BY <3>1, <3>2, GraphLeast
    <3>4. engine[d] \in {"async", "evaluated"} /\ status[d] # "none"
      BY <1>1, <1>7, <2>0, <3>3
    <3>5. status' = MarkAll
      BY <1>0, <1>7, <2>2
    <3> QED BY <1>1, <2>0, <3>4, <3>5 DEF MarkAll, IsEvaluated
  <2> QED BY <2>1, <2>2
<1>8. RootsGraph(handed', status')
  <2> SUFFICES ASSUME NEW x \in Modules, handed'[x] = "engine", NEW d \in Graph(x)
               PROVE  status'[d] \in {"Evaluated", "Errored"}
    BY DEF RootsGraph
  <2>1. CASE x = m
    <3>1. engine[m] # "failed"
      BY <1>0, <1>1, <1>2, <2>1
    <3> QED BY <1>7, <2>1, <3>1
  <2>2. CASE x # m
    <3>1. handed[x] = "engine"
      BY <1>0, <1>1, <2>2
    <3>2. d \in Modules
      BY GraphRoot
    <3> QED BY <1>1, <1>6, <3>1, <3>2 DEF RootsGraph
  <2> QED BY <2>1, <2>2
<1> QED BY <1>0, <1>1, <1>4, <1>5, <1>8, GraphNext

LEMMA GraphInvStep ==
  ASSUME ModuleInv, GraphInv, [Next]_moduleVars
  PROVE  GraphInv'
<1>1. CASE \E m \in Modules : \/ CompileModule(m, TRUE) \/ CompileModule(m, FALSE)
                              \/ CreateSyntheticModule(m)
  BY <1>1, CompileGraph
<1>2. CASE \E m \in Modules : InstantiateModule(m)
  BY <1>2, InstantiateGraph
<1>3. CASE \E m \in Modules : Evaluate(m) \/ EvaluateSynthetic(m)
  BY <1>3, EvaluateGraph
<1>4. CASE \E m \in Modules : EnterImport(m)
  BY <1>4, EnterGraph
<1>5. CASE \E m \in Modules, o \in Outcomes : AwaitEnds(m, o) \/ RunAfterImports(m, o)
  BY <1>5, JobGraph
<1>6. CASE \E o \in Outcomes : EndBody(o)
  BY <1>6, EndBodyGraph
<1>7. CASE StartBody
  BY <1>7, StartBodyGraph
<1>8. CASE WaitForImports
  BY <1>8, WaitGraph
<1>9. CASE ImportFailed
  <2>1. /\ calls # <<>> /\ Top.path # <<>> /\ Fail
        /\ UNCHANGED <<imports, status, runs, handed>>
    BY <1>9 DEF ImportFailed, Walking, wrapperVars
  <2> QED BY <2>1, FailGraph
<1>10. CASE Return
  BY <1>10, ReturnGraph
<1>11. CASE UNCHANGED moduleVars
  <2>1. UNCHANGED <<imports, status, engine, runs, calls, handed>>
    BY <1>11 DEF moduleVars, wrapperVars
  <2> QED BY <2>1, GraphNext DEF GraphInv
<1> QED BY <1>1, <1>2, <1>3, <1>4, <1>5, <1>6, <1>7, <1>8, <1>9, <1>10, <1>11
        DEF Next, Embedder, Engine

(* Once v8__Module__Evaluate has returned the engine's promise for a root, *)
(* no module of its graph is offered for evaluation any more, whatever is  *)
(* compiled, instantiated, evaluated or settled afterwards.                *)
THEOREM RootMarksGraph == Spec => []GraphFollowsRoot
<1>1. GraphInv => GraphFollowsRoot
  BY DEF GraphInv, RootsGraph, GraphFollowsRoot
<1>2. ModuleInv /\ GraphInv /\ [Next]_moduleVars => GraphInv'
  BY GraphInvStep
<1> QED BY <1>1, <1>2, GraphInit, Invariant, PTL DEF Spec

-----------------------------------------------------------------------------
(* What a frame is about, whatever its kind.                               *)
Keeps(f) ==
  CASE f.kind = "try" -> f.caught [] f.kind = "js" -> f.saved [] OTHER -> None

StaleFor(f) == IF f.kind \in {"try", "native"} THEN f.stale ELSE {}

Owes(f) == f.kind \in {"try", "native"} /\ f.owes

Unwinds(f) == f.kind = "js" /\ f.throwing

Rethrows(f) == f.kind = "try" /\ f.rethrow

(* A callback is on top of JavaScript of its isolate, which waits for it;  *)
(* JavaScript on top unwinds when an exception is pending and only then.   *)
StackIn(fs, p, k) ==
  /\ fs[k].kind = "native" =>
       k > 1 /\ fs[k - 1].kind = "js" /\ fs[k - 1].iso = fs[k].iso
  /\ fs[k].kind = "js" /\ k < Len(fs) =>
       fs[k + 1].kind = "native" /\ ~ Unwinds(fs[k])
  /\ fs[k].kind = "js" /\ k = Len(fs) => (Unwinds(fs[k]) <=> p[fs[k].iso] # None)
  /\ fs[k].kind = "js" /\ fs[k].entry # "call" => Keeps(fs[k]) = None
  /\ Rethrows(fs[k]) => Keeps(fs[k]) # None

(* What can become pending while frame k is on top is not older than it:   *)
(* what is pending in its isolate, and what the frames above hold.         *)
FreshIn(fs, p, k) ==
  /\ p[fs[k].iso] \notin StaleFor(fs[k])
  /\ \A j \in k .. Len(fs) :
       fs[j].iso = fs[k].iso => Keeps(fs[j]) \notin StaleFor(fs[k])

(* Visible, with the frame above that matters named.                       *)
SeesIn(fs, p, k) ==
  \/ fs[k].kind = "try" /\ Keeps(fs[k]) # None
  \/ /\ p[fs[k].iso] # None
     /\ \A h \in k + 1 .. Len(fs) : fs[h].iso # fs[k].iso
  \/ \E j \in k + 1 .. Len(fs) :
       /\ fs[j].iso = fs[k].iso /\ fs[j].kind = "js" /\ Keeps(fs[j]) # None
       /\ \A h \in k + 1 .. j - 1 : fs[h].iso # fs[k].iso

FrameOK(fs, p, k) ==
  /\ StackIn(fs, p, k)
  /\ FreshIn(fs, p, k)
  /\ Owes(fs[k]) => SeesIn(fs, p, k)

ExnInv ==
  /\ pending \in [Isolates -> Slot]
  /\ frames \in Seq(Frame)
  /\ listeners \in [Isolates -> Nat]
  /\ \A k \in DOMAIN frames : FrameOK(frames, pending, k)

(* The frame below k has the empty handle when frame k fails.              *)
Tells(fs, k) ==
  k > 1 /\ fs[k - 1].kind \in {"try", "native"} /\ fs[k - 1].iso = fs[k].iso

(* No JavaScript makes the text of an exception, and nobody has an empty   *)
(* handle of a script whose exception is dropped.                          *)
Quiet(fs) ==
  \A k \in 1 .. Len(fs) :
    /\ fs[k].kind = "js" => fs[k].entry # "report"
    /\ fs[k].kind = "listener" => ~ Tells(fs, k)
    /\ fs[k].kind = "js" /\ fs[k].entry = "script" /\ Tells(fs, k) =>
         \E j \in 1 .. k - 1 : fs[j].kind = "try"

LEMMA FrameKinds ==
  ASSUME NEW f \in Frame
  PROVE  /\ f.kind \in {"try", "native", "js", "listener"} /\ f.iso \in Isolates
         /\ f.kind = "try" => f \in TryFrame
         /\ f.kind = "native" => f \in NativeFrame
         /\ f.kind = "js" => f \in JsFrame
         /\ f.kind = "listener" => f \in ListenerFrame
  BY DEF Frame, TryFrame, NativeFrame, JsFrame, ListenerFrame

LEMMA FrameParts ==
  ASSUME NEW f \in Frame
  PROVE  Keeps(f) \in Slot /\ StaleFor(f) \subseteq Exns /\ None \notin StaleFor(f)
<1>1. CASE f \in TryFrame
  BY <1>1, ExceptionsAssumption DEF TryFrame, Keeps, StaleFor, Slot
<1>2. CASE f \in NativeFrame
  BY <1>2, ExceptionsAssumption DEF NativeFrame, Keeps, StaleFor, Slot
<1>3. CASE f \in JsFrame
  BY <1>3 DEF JsFrame, Keeps, StaleFor, Slot
<1>4. CASE f \in ListenerFrame
  BY <1>4 DEF ListenerFrame, Keeps, StaleFor, Slot
<1> QED BY <1>1, <1>2, <1>3, <1>4 DEF Frame

(* Frames that differ at most in who owes, who unwinds, and in exceptions  *)
(* that are no longer older.                                               *)
Alike(f, g) ==
  /\ g.kind = f.kind /\ g.iso = f.iso /\ Keeps(g) = Keeps(f)
  /\ StaleFor(g) \subseteq StaleFor(f)
  /\ Rethrows(g) <=> Rethrows(f)
  /\ g.kind = "js" => g.entry = f.entry

Stacks == Seq(Frame)

Slots == [Isolates -> Slot]

Good(fs, p) == \A k \in 1 .. Len(fs) : FrameOK(fs, p, k)

LEMMA StackFacts ==
  ASSUME NEW fs \in Stacks
  PROVE  /\ Len(fs) \in Nat /\ DOMAIN fs = 1 .. Len(fs)
         /\ \A k \in 1 .. Len(fs) : /\ fs[k] \in Frame /\ fs[k].iso \in Isolates
                                    /\ Keeps(fs[k]) \in Slot
                                    /\ None \notin StaleFor(fs[k])
  BY FrameKinds, FrameParts DEF Stacks

(* A new frame.  What was pending in its isolate is none or goes with it.  *)
LEMMA PushGood ==
  ASSUME NEW fs \in Stacks, NEW p \in Slots, Good(fs, p),
         NEW f \in Frame, NEW q \in Slots,
         \A x \in Isolates : x # f.iso => q[x] = p[x],
         q[f.iso] = None,
         fs # <<>> /\ fs[Len(fs)].kind = "js" => f.kind = "native",
         f.kind = "native" => /\ fs # <<>> /\ fs[Len(fs)].kind = "js"
                              /\ fs[Len(fs)].iso = f.iso /\ ~ Unwinds(fs[Len(fs)]),
         ~ Owes(f), ~ Unwinds(f), ~ Rethrows(f),
         Keeps(f) \in {None, p[f.iso]},
         (f.kind = "js" /\ f.entry = "call") \/ Keeps(f) = None,
         p[f.iso] = None \/ (f.kind = "js" /\ Keeps(f) # None)
  PROVE  Good(Append(fs, f), q)
<1> DEFINE n == Len(fs)
           gs == Append(fs, f)
<1>1. /\ n \in Nat /\ Len(gs) = n + 1 /\ gs[n + 1] = f
      /\ \A k \in 1 .. n : gs[k] = fs[k]
      /\ gs \in Stacks
      /\ fs # <<>> <=> n # 0
  BY DEF Stacks
<1>2. \A k \in 1 .. n : FrameOK(fs, p, k)
  BY DEF Good
<1> HIDE DEF gs, n
<1>3. \A k \in 1 .. n + 1 : gs[k].iso \in Isolates /\ None \notin StaleFor(gs[k])
  BY <1>1, StackFacts
<1>4. ASSUME NEW k \in 1 .. n + 1 PROVE StackIn(gs, q, k)
  <2>1. CASE k = n + 1
    BY <1>1, <2>1 DEF StackIn, n
  <2>2. CASE k \in 1 .. n
    <3>1. StackIn(fs, p, k) /\ gs[k] = fs[k]
      BY <1>1, <1>2, <2>2 DEF FrameOK
    <3>2. gs[k].kind = "js" => gs[k + 1].kind = "native" /\ ~ Unwinds(gs[k])
      BY <1>1, <2>2, <3>1 DEF StackIn, n
    <3>3. k > 1 => gs[k - 1] = fs[k - 1]
      BY <1>1, <2>2
    <3>4. k # Len(gs)
      BY <1>1, <2>2
    <3> QED BY <3>1, <3>2, <3>3, <3>4 DEF StackIn
  <2> QED BY <1>1, <1>4, <2>1, <2>2
<1>5. ASSUME NEW k \in 1 .. n + 1 PROVE FreshIn(gs, q, k)
  <2>1. CASE k = n + 1
    <3>1. \A j \in k .. Len(gs) : j = n + 1
      BY <1>1, <2>1
    <3>2. Keeps(f) = None \/ StaleFor(f) = {}
      BY DEF StaleFor
    <3> QED BY <1>1, <1>3, <2>1, <3>1, <3>2 DEF FreshIn
  <2>2. CASE k \in 1 .. n
    <3>1. FreshIn(fs, p, k) /\ gs[k] = fs[k]
      BY <1>1, <1>2, <2>2 DEF FrameOK
    <3>2. q[gs[k].iso] \in {None, p[fs[k].iso]}
      BY <1>3, <3>1
    <3>3. ASSUME NEW j \in k .. Len(gs), gs[j].iso = gs[k].iso
          PROVE  Keeps(gs[j]) \notin StaleFor(gs[k])
      <4>1. CASE j = n + 1
        <5>1. p[gs[k].iso] \notin StaleFor(gs[k])
          BY <3>1 DEF FreshIn
        <5> QED BY <1>1, <1>3, <3>3, <4>1, <5>1
      <4>2. CASE j \in k .. n
        <5>1. gs[j] = fs[j]
          BY <1>1, <2>2, <4>2
        <5> QED BY <3>1, <3>3, <4>2, <5>1 DEF FreshIn, n
      <4> QED BY <1>1, <2>2, <3>3, <4>1, <4>2
    <3> QED BY <1>3, <3>1, <3>2, <3>3 DEF FreshIn
  <2> QED BY <1>1, <1>5, <2>1, <2>2
<1>6. ASSUME NEW k \in 1 .. n + 1, Owes(gs[k]) PROVE SeesIn(gs, q, k)
  <2>1. k \in 1 .. n /\ gs[k] = fs[k]
    BY <1>1, <1>6
  <2>2. SeesIn(fs, p, k)
    BY <1>2, <1>6, <2>1 DEF FrameOK
  <2>3. CASE fs[k].kind = "try" /\ Keeps(fs[k]) # None
    BY <2>1, <2>3 DEF SeesIn
  <2>4. CASE /\ p[fs[k].iso] # None
             /\ \A h \in k + 1 .. Len(fs) : fs[h].iso # fs[k].iso
    <3>1. \A h \in k + 1 .. n : gs[h].iso # gs[k].iso
      BY <1>1, <2>1, <2>4 DEF n
    <3>2. CASE f.iso = fs[k].iso
      <4>1. f.kind = "js" /\ Keeps(f) # None
        BY <2>4, <3>2
      <4>2. n + 1 \in k + 1 .. Len(gs) /\ \A h \in k + 1 .. (n + 1) - 1 : h \in k + 1 .. n
        BY <1>1, <2>1
      <4> QED BY <1>1, <2>1, <3>1, <3>2, <4>1, <4>2 DEF SeesIn
    <3>3. CASE f.iso # fs[k].iso
      <4>1. q[gs[k].iso] # None
        BY <1>3, <2>1, <2>4, <3>3
      <4>2. \A h \in k + 1 .. Len(gs) : h \in k + 1 .. n \/ h = n + 1
        BY <1>1, <2>1
      <4> QED BY <1>1, <2>1, <3>1, <3>3, <4>1, <4>2 DEF SeesIn
    <3> QED BY <3>2, <3>3
  <2>5. CASE \E j \in k + 1 .. Len(fs) :
               /\ fs[j].iso = fs[k].iso /\ fs[j].kind = "js" /\ Keeps(fs[j]) # None
               /\ \A h \in k + 1 .. j - 1 : fs[h].iso # fs[k].iso
    <3>1. PICK j \in k + 1 .. n :
               /\ fs[j].iso = fs[k].iso /\ fs[j].kind = "js" /\ Keeps(fs[j]) # None
               /\ \A h \in k + 1 .. j - 1 : fs[h].iso # fs[k].iso
      BY <2>5 DEF n
    <3>2. j \in k + 1 .. Len(gs) /\ gs[j] = fs[j]
      BY <1>1, <2>1
    <3>3. \A h \in k + 1 .. j - 1 : gs[h] = fs[h]
      BY <1>1, <2>1
    <3> QED BY <2>1, <3>1, <3>2, <3>3 DEF SeesIn
  <2> QED BY <2>2, <2>3, <2>4, <2>5 DEF SeesIn
<1> QED BY <1>1, <1>4, <1>5, <1>6 DEF Good, FrameOK, gs

(* The top frame goes; the one below it may be told of a failure, or take  *)
(* what is pending as its own.                                             *)
Popped(fs, p, gs, q, f) ==
  /\ \A k \in 1 .. Len(gs) : Alike(fs[k], gs[k])
  /\ \A k \in 1 .. Len(gs) - 1 : gs[k] = fs[k]
  /\ gs # <<>> /\ Owes(gs[Len(gs)])
       => Owes(fs[Len(gs)]) \/ q[gs[Len(gs)].iso] # None
  /\ gs # <<>> /\ gs[Len(gs)].kind = "js"
       => (Unwinds(gs[Len(gs)]) <=> q[gs[Len(gs)].iso] # None)
  /\ \A x \in Isolates : x # f.iso => q[x] = p[x]
  /\ q[f.iso] \in {None, p[f.iso], Keeps(f)}
  /\ f.kind = "js" /\ Keeps(f) # None => q[f.iso] # None

LEMMA PopGood ==
  ASSUME NEW fs \in Stacks, fs # <<>>, NEW p \in Slots, Good(fs, p),
         NEW gs \in Stacks, Len(gs) = Len(fs) - 1, NEW q \in Slots,
         Popped(fs, p, gs, q, fs[Len(fs)])
  PROVE  Good(gs, q)
<1> PICK f : f = fs[Len(fs)]
  OBVIOUS
<1>0. /\ \A k \in 1 .. Len(gs) : Alike(fs[k], gs[k])
      /\ \A k \in 1 .. Len(gs) - 1 : gs[k] = fs[k]
      /\ gs # <<>> /\ Owes(gs[Len(gs)])
           => Owes(fs[Len(gs)]) \/ q[gs[Len(gs)].iso] # None
      /\ gs # <<>> /\ gs[Len(gs)].kind = "js"
           => (Unwinds(gs[Len(gs)]) <=> q[gs[Len(gs)].iso] # None)
  BY DEF Popped
<1>f. /\ \A x \in Isolates : x # f.iso => q[x] = p[x]
      /\ q[f.iso] \in {None, p[f.iso], Keeps(f)}
      /\ f.kind = "js" /\ Keeps(f) # None => q[f.iso] # None
  BY DEF Popped
<1> DEFINE n == Len(fs)
           m == Len(gs)
<1>1. /\ n \in Nat \ {0} /\ m \in Nat /\ n = m + 1
      /\ gs = <<>> <=> m = 0
      /\ f = fs[n]
  BY DEF Stacks
<1>2. \A k \in 1 .. n : FrameOK(fs, p, k)
  BY DEF Good
<1>3. /\ \A k \in 1 .. n : fs[k].iso \in Isolates /\ None \notin StaleFor(fs[k])
      /\ \A k \in 1 .. m : gs[k].iso \in Isolates /\ None \notin StaleFor(gs[k])
  BY StackFacts
<1>4. /\ \A k \in 1 .. m : Alike(fs[k], gs[k])
      /\ \A k \in 1 .. m - 1 : gs[k] = fs[k]
      /\ m # 0 /\ Owes(gs[m]) => Owes(fs[m]) \/ q[gs[m].iso] # None
      /\ m # 0 /\ gs[m].kind = "js" => (Unwinds(gs[m]) <=> q[gs[m].iso] # None)
  BY <1>0, <1>1
<1> HIDE DEF n, m
<1>5. ASSUME NEW k \in 1 .. m PROVE StackIn(gs, q, k)
  <2>1. StackIn(fs, p, k) /\ Alike(fs[k], gs[k])
    BY <1>1, <1>2, <1>4 DEF FrameOK
  <2>2. k > 1 => gs[k - 1] = fs[k - 1]
    BY <1>1, <1>4
  <2>3. k < m => gs[k] = fs[k] /\ gs[k + 1].kind = fs[k + 1].kind
    BY <1>1, <1>4 DEF Alike
  <2>4. k = m => (gs[k].kind = "js" => (Unwinds(gs[k]) <=> q[gs[k].iso] # None))
    BY <1>1, <1>4
  <2>5. k < m => k < Len(fs) /\ k # Len(gs)
    BY <1>1 DEF n, m
  <2>6. k < Len(gs) <=> k < m
    BY DEF m
  <2>7. k = Len(gs) <=> k = m
    BY DEF m
  <2> QED BY <2>1, <2>2, <2>3, <2>4, <2>5, <2>6, <2>7 DEF StackIn, Alike
<1>6. ASSUME NEW k \in 1 .. m PROVE FreshIn(gs, q, k)
  <2>1. FreshIn(fs, p, k) /\ Alike(fs[k], gs[k])
    BY <1>1, <1>2, <1>4 DEF FrameOK
  <2>2. \A j \in k .. m : j \in k .. Len(fs) /\ Alike(fs[j], gs[j])
    BY <1>1, <1>4 DEF n
  <2>3. q[gs[k].iso] \notin StaleFor(gs[k])
    <3>1. CASE gs[k].iso = f.iso
      <4>1. n \in k .. Len(fs) /\ fs[n].iso = fs[k].iso
        BY <1>1, <2>1, <3>1 DEF n, Alike
      <4>2. Keeps(f) \notin StaleFor(fs[k]) /\ p[f.iso] \notin StaleFor(fs[k])
        BY <1>1, <2>1, <3>1, <4>1 DEF FreshIn, Alike
      <4> QED BY <1>3, <1>f, <2>1, <3>1, <4>2 DEF Alike
    <3>2. CASE gs[k].iso # f.iso
      BY <1>3, <1>f, <2>1, <3>2 DEF FreshIn, Alike
    <3> QED BY <3>1, <3>2
  <2>4. \A j \in k .. Len(gs) : j \in k .. m
    BY DEF m
  <2> QED BY <2>1, <2>2, <2>3, <2>4 DEF FreshIn, Alike
<1>7. ASSUME NEW k \in 1 .. m, Owes(gs[k]) PROVE SeesIn(gs, q, k)
  <2>1. Alike(fs[k], gs[k]) /\ k \in 1 .. n
    BY <1>1, <1>4
  <2>2. CASE k = m /\ q[gs[m].iso] # None
    <3>1. \A h \in k + 1 .. Len(gs) : FALSE
      BY <1>1, <2>2 DEF m
    <3> QED BY <2>2, <3>1 DEF SeesIn
  <2>3. CASE Owes(fs[k])
    <3>1. SeesIn(fs, p, k)
      BY <1>2, <2>1, <2>3 DEF FrameOK
    <3>2. CASE fs[k].kind = "try" /\ Keeps(fs[k]) # None
      BY <2>1, <3>2 DEF SeesIn, Alike
    <3>3. CASE /\ p[fs[k].iso] # None
               /\ \A h \in k + 1 .. Len(fs) : fs[h].iso # fs[k].iso
      <4>1. f.iso # fs[k].iso
        BY <1>1, <3>3 DEF n
      <4>2. q[gs[k].iso] # None
        BY <1>3, <1>f, <2>1, <3>3, <4>1 DEF Alike
      <4>3. ASSUME NEW h \in k + 1 .. Len(gs) PROVE gs[h].iso # gs[k].iso
        <5>1. h \in k + 1 .. Len(fs) /\ h \in 1 .. m
          BY <1>1, <4>3 DEF n, m
        <5> QED BY <1>4, <2>1, <3>3, <5>1 DEF Alike
      <4> QED BY <4>2, <4>3 DEF SeesIn
    <3>4. CASE \E j \in k + 1 .. Len(fs) :
                 /\ fs[j].iso = fs[k].iso /\ fs[j].kind = "js" /\ Keeps(fs[j]) # None
                 /\ \A h \in k + 1 .. j - 1 : fs[h].iso # fs[k].iso
      <4>1. PICK j \in k + 1 .. n :
                 /\ fs[j].iso = fs[k].iso /\ fs[j].kind = "js" /\ Keeps(fs[j]) # None
                 /\ \A h \in k + 1 .. j - 1 : fs[h].iso # fs[k].iso
        BY <3>4 DEF n
      <4>2. \A h \in k + 1 .. j - 1 : h \in 1 .. m /\ gs[h].iso # gs[k].iso
        <5>1. ASSUME NEW h \in k + 1 .. j - 1 PROVE h \in 1 .. m
          BY <1>1, <5>1
        <5> QED BY <1>4, <2>1, <4>1, <5>1 DEF Alike
      <4>3. CASE j = n
        <5>1. q[gs[k].iso] # None
          BY <1>1, <1>f, <2>1, <4>1, <4>3 DEF Alike
        <5>2. \A h \in k + 1 .. Len(gs) : h \in k + 1 .. j - 1
          BY <1>1, <4>3 DEF m
        <5> QED BY <4>2, <5>1, <5>2 DEF SeesIn
      <4>4. CASE j # n
        <5>1. j \in k + 1 .. Len(gs) /\ j \in 1 .. m
          BY <1>1, <4>4 DEF m
        <5>2. gs[j].iso = gs[k].iso /\ gs[j].kind = "js" /\ Keeps(gs[j]) # None
          BY <1>4, <2>1, <4>1, <5>1 DEF Alike
        <5> QED BY <4>2, <5>1, <5>2 DEF SeesIn
      <4> QED BY <4>3, <4>4
    <3> QED BY <3>1, <3>2, <3>3, <3>4 DEF SeesIn
  <2>4. Owes(fs[k]) \/ (k = m /\ q[gs[m].iso] # None)
    <3>1. k = m \/ k \in 1 .. m - 1
      BY <1>1
    <3>2. CASE k = m
      <4>1. m # 0 /\ Owes(gs[m])
        BY <1>1, <1>7, <3>2
      <4> QED BY <1>4, <3>2, <4>1
    <3>3. CASE k \in 1 .. m - 1
      BY <1>4, <1>7, <3>3
    <3> QED BY <3>1, <3>2, <3>3
  <2> QED BY <2>2, <2>3, <2>4
<1> QED BY <1>5, <1>6, <1>7 DEF Good, FrameOK, m

(* The top frame works with its own isolate; frames below may only cease   *)
(* to be younger than what is thrown.                                      *)
OnTop(fs, p, gs, q, f, g) ==
  /\ \A k \in 1 .. Len(fs) - 1 :
       /\ Alike(fs[k], gs[k])
       /\ Owes(gs[k]) <=> Owes(fs[k])
       /\ Unwinds(gs[k]) <=> Unwinds(fs[k])
  /\ g.iso = f.iso /\ (g.kind = "native" <=> f.kind = "native")
  /\ StaleFor(g) \subseteq StaleFor(f)
  /\ \A x \in Isolates : x # f.iso => q[x] = p[x]
  /\ \/ q[f.iso] \in {None, p[f.iso], Keeps(f)}
     \/ \A k \in 1 .. Len(fs) : q[f.iso] \notin StaleFor(gs[k])
  /\ Keeps(g) \in {None, p[f.iso], Keeps(f)}
  /\ f.kind = "js" /\ Keeps(f) # None => g.kind = "js" /\ Keeps(g) # None
  /\ Rethrows(g) => Keeps(g) # None
  /\ g.kind = "js" /\ g.entry # "call" => Keeps(g) = None
  /\ g.kind = "js" => (Unwinds(g) <=> q[f.iso] # None)
  /\ Owes(g) => (g.kind = "try" /\ Keeps(g) # None) \/ q[f.iso] # None

LEMMA TopGood ==
  ASSUME NEW fs \in Stacks, fs # <<>>, NEW p \in Slots, Good(fs, p),
         NEW gs \in Stacks, Len(gs) = Len(fs), NEW q \in Slots,
         OnTop(fs, p, gs, q, fs[Len(fs)], gs[Len(fs)])
  PROVE  Good(gs, q)
<1> PICK f : f = fs[Len(fs)]
  OBVIOUS
<1> PICK g : g = gs[Len(fs)]
  OBVIOUS
<1>0. OnTop(fs, p, gs, q, f, g)
  OBVIOUS
<1> DEFINE n == Len(fs)
<1>1. n \in Nat \ {0} /\ f = fs[n] /\ g = gs[n] /\ Len(gs) = n
  BY DEF Stacks
<1>2. \A k \in 1 .. n : FrameOK(fs, p, k)
  BY DEF Good
<1>3. \A k \in 1 .. n : /\ fs[k].iso \in Isolates /\ None \notin StaleFor(fs[k])
                        /\ gs[k].iso \in Isolates /\ None \notin StaleFor(gs[k])
  BY <1>1, StackFacts
<1>4. \A k \in 1 .. n - 1 : /\ Alike(fs[k], gs[k])
                            /\ Owes(gs[k]) <=> Owes(fs[k])
                            /\ Unwinds(gs[k]) <=> Unwinds(fs[k])
  BY <1>0 DEF OnTop
<1>5. \/ q[f.iso] \in {None, p[f.iso], Keeps(f)}
      \/ \A k \in 1 .. n : q[f.iso] \notin StaleFor(gs[k])
  BY <1>0 DEF OnTop
<1>6. /\ f.iso \in Isolates
      /\ g.iso = f.iso /\ (g.kind = "native" <=> f.kind = "native")
      /\ StaleFor(g) \subseteq StaleFor(f)
      /\ \A x \in Isolates : x # f.iso => q[x] = p[x]
      /\ Keeps(g) \in {None, p[f.iso], Keeps(f)}
      /\ f.kind = "js" /\ Keeps(f) # None => g.kind = "js" /\ Keeps(g) # None
      /\ Rethrows(g) => Keeps(g) # None
      /\ g.kind = "js" /\ g.entry # "call" => Keeps(g) = None
      /\ g.kind = "js" => (Unwinds(g) <=> q[f.iso] # None)
      /\ Owes(g) => (g.kind = "try" /\ Keeps(g) # None) \/ q[f.iso] # None
  BY <1>0, <1>1, <1>3 DEF OnTop
<1> HIDE DEF n
<1>7. \A k \in 1 .. n : /\ gs[k].iso = fs[k].iso
                        /\ gs[k].kind = "native" <=> fs[k].kind = "native"
                        /\ StaleFor(gs[k]) \subseteq StaleFor(fs[k])
  <2>1. \A k \in 1 .. n : k = n \/ k \in 1 .. n - 1
    BY <1>6, <1>1
  <2> QED BY <1>6, <1>1, <1>4, <2>1 DEF Alike
<1>8. ASSUME NEW k \in 1 .. n PROVE StackIn(gs, q, k)
  <2>1. StackIn(fs, p, k)
    BY <1>6, <1>2 DEF FrameOK
  <2>2. gs[k].kind = "native" => k > 1 /\ gs[k - 1].kind = "js" /\ gs[k - 1].iso = gs[k].iso
    <3> SUFFICES ASSUME gs[k].kind = "native"
                 PROVE  k > 1 /\ gs[k - 1].kind = "js" /\ gs[k - 1].iso = gs[k].iso
      OBVIOUS
    <3>1. k > 1 /\ fs[k - 1].kind = "js" /\ fs[k - 1].iso = fs[k].iso
      BY <1>6, <1>7, <2>1 DEF StackIn
    <3>2. k - 1 \in 1 .. n - 1
      BY <1>6, <1>1, <3>1
    <3> QED BY <1>6, <1>4, <1>7, <3>1, <3>2 DEF Alike
  <2>3. CASE k = n
    <3>1. gs[k] = g /\ k = Len(gs) /\ ~ (k < Len(gs))
      BY <1>6, <1>1, <2>3
    <3> QED BY <1>6, <2>2, <3>1 DEF StackIn
  <2>4. CASE k \in 1 .. n - 1
    <3>1. k + 1 \in 1 .. n /\ k < Len(fs) /\ k # Len(gs)
      BY <1>6, <1>1, <2>4 DEF n
    <3> QED BY <1>6, <1>4, <1>7, <2>1, <2>2, <2>4, <3>1 DEF StackIn, Alike
  <2> QED BY <1>6, <1>1, <2>3, <2>4
<1>9. ASSUME NEW k \in 1 .. n PROVE FreshIn(gs, q, k)
  <2>1. FreshIn(fs, p, k)
    BY <1>6, <1>2 DEF FrameOK
  <2>2. n \in k .. Len(fs) /\ (\A j \in k .. n : j \in k .. Len(fs))
    BY <1>6, <1>1 DEF n
  <2>3. f.iso = fs[k].iso => Keeps(f) \notin StaleFor(gs[k]) /\ p[f.iso] \notin StaleFor(gs[k])
    BY <1>6, <1>1, <1>7, <2>1, <2>2 DEF FreshIn
  <2>4. q[gs[k].iso] \notin StaleFor(gs[k])
    <3>1. CASE gs[k].iso = f.iso
      BY <1>6, <1>3, <1>5, <1>7, <2>3, <3>1
    <3>2. CASE gs[k].iso # f.iso
      BY <1>6, <1>3, <1>7, <2>1, <3>2 DEF FreshIn
    <3> QED BY <1>6, <3>1, <3>2
  <2>5. ASSUME NEW j \in k .. Len(gs), gs[j].iso = gs[k].iso
        PROVE  Keeps(gs[j]) \notin StaleFor(gs[k])
    <3>1. CASE j = n
      BY <1>6, <1>1, <1>3, <1>7, <2>3, <2>5, <3>1
    <3>2. CASE j # n
      <4>1. j \in 1 .. n - 1 /\ j \in k .. Len(fs)
        BY <1>6, <1>1, <2>5, <3>2 DEF n
      <4>2. fs[j].iso = fs[k].iso /\ Keeps(gs[j]) = Keeps(fs[j])
        <5>1. Alike(fs[j], gs[j]) /\ gs[k].iso = fs[k].iso
          BY <1>6, <1>4, <1>7, <4>1
        <5> QED BY <1>6, <2>5, <5>1 DEF Alike
      <4>3. Keeps(fs[j]) \notin StaleFor(fs[k])
        BY <1>6, <2>1, <4>1, <4>2 DEF FreshIn
      <4> QED BY <1>6, <1>7, <4>2, <4>3
    <3> QED BY <1>6, <3>1, <3>2
  <2> QED BY <1>6, <2>4, <2>5 DEF FreshIn
<1>10. ASSUME NEW k \in 1 .. n, Owes(gs[k]) PROVE SeesIn(gs, q, k)
  <2>1. CASE k = n
    <3>1. gs[k] = g /\ \A h \in k + 1 .. Len(gs) : FALSE
      BY <1>6, <1>1, <2>1
    <3> QED BY <1>6, <1>10, <3>1 DEF SeesIn
  <2>2. CASE k \in 1 .. n - 1
    <3>1. SeesIn(fs, p, k) /\ Alike(fs[k], gs[k])
      BY <1>6, <1>2, <1>4, <1>10, <2>2 DEF FrameOK
    <3>2. CASE fs[k].kind = "try" /\ Keeps(fs[k]) # None
      BY <1>6, <3>1, <3>2 DEF SeesIn, Alike
    <3>3. CASE /\ p[fs[k].iso] # None
               /\ \A h \in k + 1 .. Len(fs) : fs[h].iso # fs[k].iso
      <4>1. n \in k + 1 .. Len(fs) /\ f.iso # fs[k].iso
        BY <1>6, <1>1, <2>2, <3>3 DEF n
      <4>2. q[gs[k].iso] # None
        BY <1>6, <1>3, <3>1, <3>3, <4>1 DEF Alike
      <4>3. \A h \in k + 1 .. Len(gs) : h \in k + 1 .. Len(fs) /\ h \in 1 .. n
        BY <1>6, <1>1 DEF n
      <4> QED BY <1>6, <1>7, <3>1, <3>3, <4>2, <4>3 DEF SeesIn
    <3>4. CASE \E j \in k + 1 .. Len(fs) :
                 /\ fs[j].iso = fs[k].iso /\ fs[j].kind = "js" /\ Keeps(fs[j]) # None
                 /\ \A h \in k + 1 .. j - 1 : fs[h].iso # fs[k].iso
      <4>1. PICK j \in k + 1 .. n :
                 /\ fs[j].iso = fs[k].iso /\ fs[j].kind = "js" /\ Keeps(fs[j]) # None
                 /\ \A h \in k + 1 .. j - 1 : fs[h].iso # fs[k].iso
        BY <1>6, <3>4 DEF n
      <4>2. j \in k + 1 .. Len(gs) /\ j \in 1 .. n /\ (j = n \/ j \in 1 .. n - 1)
        BY <1>6, <1>1
      <4>3. gs[j].iso = gs[k].iso /\ gs[j].kind = "js" /\ Keeps(gs[j]) # None
        BY <1>6, <1>1, <1>4, <1>7, <4>1, <4>2 DEF Alike
      <4>4. \A h \in k + 1 .. j - 1 : h \in 1 .. n
        BY <1>6, <1>1
      <4> QED BY <1>6, <1>7, <4>1, <4>2, <4>3, <4>4 DEF SeesIn
    <3> QED BY <1>6, <3>1, <3>2, <3>3, <3>4 DEF SeesIn
  <2> QED BY <1>6, <1>1, <2>1, <2>2
<1> QED BY <1>6, <1>1, <1>8, <1>9, <1>10 DEF Good, FrameOK

(* The embedder throws, in whatever isolate: the frame on top may owe it.  *)
LEMMA ThrownGood ==
  ASSUME NEW fs \in Stacks, NEW p \in Slots, Good(fs, p),
         NEW gs \in Stacks, Len(gs) = Len(fs), NEW q \in Slots,
         NEW i \in Isolates, q[i] # None,
         fs # <<>> => fs[Len(fs)].kind # "js",
         \A k \in 1 .. Len(fs) :
           /\ Alike(fs[k], gs[k])
           /\ q[i] \notin StaleFor(gs[k])
           /\ Owes(gs[k]) => Owes(fs[k]) \/ (k = Len(fs) /\ gs[k].iso = i)
           /\ Unwinds(gs[k]) <=> Unwinds(fs[k]),
         \A x \in Isolates : x # i => q[x] = p[x]
  PROVE  Good(gs, q)
<1> DEFINE n == Len(fs)
<1>1. n \in Nat /\ Len(gs) = n /\ (fs = <<>> <=> n = 0)
  BY DEF Stacks
<1>2. \A k \in 1 .. n : FrameOK(fs, p, k)
  BY DEF Good
<1>3. \A k \in 1 .. n : /\ gs[k].iso \in Isolates
                        /\ Alike(fs[k], gs[k])
                        /\ q[i] \notin StaleFor(gs[k])
                        /\ Owes(gs[k]) => Owes(fs[k]) \/ (k = n /\ gs[k].iso = i)
                        /\ Unwinds(gs[k]) <=> Unwinds(fs[k])
  BY <1>1, StackFacts
<1>4. n # 0 => fs[n].kind # "js"
  BY <1>1
<1> HIDE DEF n
<1>5. ASSUME NEW k \in 1 .. n PROVE StackIn(gs, q, k)
  <2>1. StackIn(fs, p, k) /\ Alike(fs[k], gs[k]) /\ (Unwinds(gs[k]) <=> Unwinds(fs[k]))
    BY <1>2, <1>3 DEF FrameOK
  <2>2. k > 1 => Alike(fs[k - 1], gs[k - 1])
    BY <1>1, <1>3
  <2>3. k < n => Alike(fs[k + 1], gs[k + 1])
    BY <1>1, <1>3
  <2>4. k = n => gs[k].kind # "js"
    BY <1>1, <1>4, <2>1 DEF Alike
  <2>5. (k < Len(gs) <=> k < n) /\ (k < Len(fs) <=> k < n) /\ (k = Len(gs) <=> k = n)
    BY <1>1 DEF n
  <2> QED BY <2>1, <2>2, <2>3, <2>4, <2>5 DEF StackIn, Alike
<1>6. ASSUME NEW k \in 1 .. n PROVE FreshIn(gs, q, k)
  <2>1. FreshIn(fs, p, k) /\ Alike(fs[k], gs[k])
    BY <1>2, <1>3 DEF FrameOK
  <2>2. q[gs[k].iso] \notin StaleFor(gs[k])
    <3>1. CASE gs[k].iso = i
      BY <1>3, <3>1
    <3>2. CASE gs[k].iso # i
      BY <1>3, <2>1, <3>2 DEF FreshIn, Alike
    <3> QED BY <3>1, <3>2
  <2>3. \A j \in k .. Len(gs) : j \in k .. Len(fs) /\ Alike(fs[j], gs[j])
    BY <1>1, <1>3 DEF n
  <2> QED BY <2>1, <2>2, <2>3 DEF FreshIn, Alike
<1>7. ASSUME NEW k \in 1 .. n, Owes(gs[k]) PROVE SeesIn(gs, q, k)
  <2>1. Alike(fs[k], gs[k])
    BY <1>3
  <2>2. CASE k = n /\ gs[k].iso = i
    <3>1. \A h \in k + 1 .. Len(gs) : FALSE
      BY <1>1, <2>2
    <3> QED BY <2>2, <3>1 DEF SeesIn
  <2>3. CASE Owes(fs[k])
    <3>1. SeesIn(fs, p, k)
      BY <1>2, <2>3 DEF FrameOK
    <3>2. CASE fs[k].kind = "try" /\ Keeps(fs[k]) # None
      BY <2>1, <3>2 DEF SeesIn, Alike
    <3>3. CASE /\ p[fs[k].iso] # None
               /\ \A h \in k + 1 .. Len(fs) : fs[h].iso # fs[k].iso
      <4>1. q[gs[k].iso] # None
        BY <1>3, <2>1, <3>3 DEF Alike
      <4>2. \A h \in k + 1 .. Len(gs) : h \in k + 1 .. Len(fs) /\ Alike(fs[h], gs[h])
        BY <1>1, <1>3 DEF n
      <4> QED BY <2>1, <3>3, <4>1, <4>2 DEF SeesIn, Alike
    <3>4. CASE \E j \in k + 1 .. Len(fs) :
                 /\ fs[j].iso = fs[k].iso /\ fs[j].kind = "js" /\ Keeps(fs[j]) # None
                 /\ \A h \in k + 1 .. j - 1 : fs[h].iso # fs[k].iso
      <4>1. PICK j \in k + 1 .. n :
                 /\ fs[j].iso = fs[k].iso /\ fs[j].kind = "js" /\ Keeps(fs[j]) # None
                 /\ \A h \in k + 1 .. j - 1 : fs[h].iso # fs[k].iso
        BY <3>4 DEF n
      <4>2. j \in k + 1 .. Len(gs) /\ Alike(fs[j], gs[j])
        BY <1>1, <1>3
      <4>3. \A h \in k + 1 .. j - 1 : Alike(fs[h], gs[h])
        <5>1. \A h \in k + 1 .. j - 1 : h \in 1 .. n
          BY <1>1
        <5> QED BY <1>3, <5>1
      <4> QED BY <2>1, <4>1, <4>2, <4>3 DEF SeesIn, Alike
    <3> QED BY <3>1, <3>2, <3>3, <3>4 DEF SeesIn
  <2> QED BY <1>3, <1>7, <2>2, <2>3
<1> QED BY <1>1, <1>5, <1>6, <1>7 DEF Good, FrameOK

-----------------------------------------------------------------------------
(* The changes actions make to a frame.                                    *)
LEMMA TryOwes ==
  ASSUME NEW f \in TryFrame, NEW g, g = [f EXCEPT !.owes = TRUE]
  PROVE  g \in TryFrame /\ Alike(f, g) /\ ~ Unwinds(g) /\ ~ Unwinds(f)
<1>1. /\ g \in TryFrame /\ g.kind = "try" /\ f.kind = "try" /\ g.iso = f.iso
      /\ g.caught = f.caught /\ g.stale = f.stale /\ g.rethrow = f.rethrow
  BY DEF TryFrame
<1>2. Alike(f, g) /\ ~ Unwinds(g) /\ ~ Unwinds(f)
  BY <1>1 DEF Alike, Keeps, StaleFor, Rethrows, Unwinds
<1> QED BY <1>1, <1>2

LEMMA NativeOwes ==
  ASSUME NEW f \in NativeFrame, NEW g, g = [f EXCEPT !.owes = TRUE]
  PROVE  g \in NativeFrame /\ Alike(f, g) /\ ~ Unwinds(g) /\ ~ Unwinds(f)
<1>1. /\ g \in NativeFrame /\ g.kind = "native" /\ f.kind = "native" /\ g.iso = f.iso
      /\ g.stale = f.stale
  BY DEF NativeFrame
<1>2. Alike(f, g) /\ ~ Unwinds(g) /\ ~ Unwinds(f)
  BY <1>1 DEF Alike, Keeps, StaleFor, Rethrows, Unwinds
<1> QED BY <1>1, <1>2

LEMMA Younger ==
  ASSUME NEW f \in TryFrame \cup NativeFrame, NEW e,
         NEW g, g = [f EXCEPT !.stale = @ \ {e}]
  PROVE  /\ g \in Frame /\ Alike(f, g) /\ e \notin StaleFor(g)
         /\ Owes(g) <=> Owes(f)
         /\ ~ Unwinds(g) /\ ~ Unwinds(f)
<1>1. CASE f \in TryFrame
  <2>1. /\ g \in TryFrame /\ g.kind = "try" /\ f.kind = "try" /\ g.iso = f.iso
        /\ g.caught = f.caught /\ g.rethrow = f.rethrow /\ g.owes = f.owes
        /\ g.stale = f.stale \ {e}
    BY <1>1 DEF TryFrame
  <2>2. /\ g \in Frame /\ Alike(f, g) /\ e \notin StaleFor(g)
        /\ Owes(g) <=> Owes(f)
        /\ ~ Unwinds(g) /\ ~ Unwinds(f)
    BY <2>1 DEF Frame, Alike, Keeps, StaleFor, Rethrows, Unwinds, Owes
  <2> QED BY <2>2
<1>2. CASE f \in NativeFrame
  <2>1. /\ g \in NativeFrame /\ g.kind = "native" /\ f.kind = "native" /\ g.iso = f.iso
        /\ g.owes = f.owes /\ g.stale = f.stale \ {e}
    BY <1>2 DEF NativeFrame
  <2>2. /\ g \in Frame /\ Alike(f, g) /\ e \notin StaleFor(g)
        /\ Owes(g) <=> Owes(f)
        /\ ~ Unwinds(g) /\ ~ Unwinds(f)
    BY <2>1 DEF Frame, Alike, Keeps, StaleFor, Rethrows, Unwinds, Owes
  <2> QED BY <2>2
<1> QED BY <1>1, <1>2

LEMMA JsThrowing ==
  ASSUME NEW f \in JsFrame, NEW b \in BOOLEAN, NEW g, g = [f EXCEPT !.throwing = b]
  PROVE  g \in Frame /\ Alike(f, g) /\ (Unwinds(g) <=> b) /\ ~ Owes(g) /\ g.iso = f.iso
<1>1. /\ g \in JsFrame /\ g.kind = "js" /\ f.kind = "js" /\ g.iso = f.iso
      /\ g.saved = f.saved /\ g.entry = f.entry /\ g.throwing = b
  BY DEF JsFrame
<1>2. g \in Frame /\ Alike(f, g) /\ (Unwinds(g) <=> b) /\ ~ Owes(g) /\ g.iso = f.iso
  BY <1>1 DEF Frame, Alike, Keeps, StaleFor, Rethrows, Unwinds, Owes
<1> QED BY <1>2

LEMMA SameAlike == \A f : Alike(f, f)
  BY DEF Alike

LEMMA FailedFacts ==
  ASSUME NEW gs \in Stacks, NEW i
  PROVE  /\ Failed(gs, i) \in Stacks /\ Len(Failed(gs, i)) = Len(gs)
         /\ \A k \in 1 .. Len(gs) :
              /\ Alike(gs[k], Failed(gs, i)[k])
              /\ Owes(Failed(gs, i)[k]) => Owes(gs[k]) \/ (k = Len(gs) /\ gs[k].iso = i)
              /\ Unwinds(Failed(gs, i)[k]) <=> Unwinds(gs[k])
         /\ \A k \in 1 .. Len(gs) - 1 : Failed(gs, i)[k] = gs[k]
<1> DEFINE n == Len(gs)
           hs == Failed(gs, i)
<1>1. n \in Nat /\ DOMAIN gs = 1 .. n /\ (gs = <<>> <=> n = 0)
      /\ \A k \in 1 .. n : gs[k] \in Frame
  BY DEF Stacks
<1>2. CASE hs = gs
  BY <1>1, <1>2, SameAlike
<1>3. CASE /\ gs # <<>> /\ gs[n].kind \in {"try", "native"} /\ gs[n].iso = i
           /\ hs = [gs EXCEPT ![n] = [gs[n] EXCEPT !.owes = TRUE]]
  <2>0. n \in 1 .. n /\ gs[n] \in TryFrame \cup NativeFrame
    BY <1>1, <1>3, FrameKinds
  <2> PICK g : g = [gs[n] EXCEPT !.owes = TRUE]
    OBVIOUS
  <2>1. g \in Frame /\ Alike(gs[n], g) /\ ~ Unwinds(g) /\ ~ Unwinds(gs[n])
    BY <2>0, TryOwes, NativeOwes DEF Frame
  <2> HIDE DEF n, hs
  <2>2. hs = [gs EXCEPT ![n] = g]
    BY <1>3
  <2>3. /\ hs \in Stacks /\ Len(hs) = n
        /\ hs[n] = g /\ \A k \in 1 .. n - 1 : hs[k] = gs[k]
    BY <1>1, <2>0, <2>1, <2>2 DEF Stacks, n
  <2>4. \A k \in 1 .. n : k = n \/ k \in 1 .. n - 1
    BY <1>1
  <2>5. \A k \in 1 .. n : /\ Alike(gs[k], hs[k])
                          /\ Owes(hs[k]) => Owes(gs[k]) \/ (k = n /\ gs[k].iso = i)
                          /\ Unwinds(hs[k]) <=> Unwinds(gs[k])
    BY <1>3, <2>1, <2>3, <2>4, SameAlike
  <2> QED BY <2>3, <2>5 DEF hs, n
<1>4. hs = gs \/ (/\ gs # <<>> /\ gs[n].kind \in {"try", "native"} /\ gs[n].iso = i
                  /\ hs = [gs EXCEPT ![n] = [gs[n] EXCEPT !.owes = TRUE]])
  BY DEF Failed
<1> QED BY <1>2, <1>3, <1>4

LEMMA ThrownFacts ==
  ASSUME NEW fs \in Stacks, NEW e
  PROVE  /\ Thrown(fs, e) \in Stacks /\ Len(Thrown(fs, e)) = Len(fs)
         /\ \A k \in 1 .. Len(fs) :
              /\ Thrown(fs, e)[k] \in Frame
              /\ Alike(fs[k], Thrown(fs, e)[k])
              /\ e \notin StaleFor(Thrown(fs, e)[k])
              /\ Owes(Thrown(fs, e)[k]) <=> Owes(fs[k])
              /\ Unwinds(Thrown(fs, e)[k]) <=> Unwinds(fs[k])
         /\ \A k \in 1 .. Len(fs) : fs[k].kind = "js" => Thrown(fs, e)[k] = fs[k]
<1> DEFINE n == Len(fs)
           gs == Thrown(fs, e)
<1>1. n \in Nat /\ DOMAIN fs = 1 .. n /\ \A k \in 1 .. n : fs[k] \in Frame
  BY DEF Stacks
<1>2. /\ DOMAIN gs = 1 .. n
      /\ gs = [k \in 1 .. n |-> gs[k]]
      /\ \A k \in 1 .. n :
           \/ /\ fs[k].kind \in {"try", "native"}
              /\ gs[k] = [fs[k] EXCEPT !.stale = @ \ {e}]
           \/ fs[k].kind \notin {"try", "native"} /\ gs[k] = fs[k]
  BY <1>1 DEF Thrown
<1> HIDE DEF gs
<1>3. ASSUME NEW k \in 1 .. n
      PROVE  /\ gs[k] \in Frame
             /\ Alike(fs[k], gs[k])
             /\ e \notin StaleFor(gs[k])
             /\ Owes(gs[k]) <=> Owes(fs[k])
             /\ Unwinds(gs[k]) <=> Unwinds(fs[k])
             /\ fs[k].kind = "js" => gs[k] = fs[k]
  <2>1. CASE /\ fs[k].kind \in {"try", "native"}
             /\ gs[k] = [fs[k] EXCEPT !.stale = @ \ {e}]
    <3>1. fs[k] \in TryFrame \cup NativeFrame
      BY <1>1, <2>1, FrameKinds
    <3> QED BY <2>1, <3>1, Younger
  <2>2. CASE fs[k].kind \notin {"try", "native"} /\ gs[k] = fs[k]
    BY <1>1, <2>2, SameAlike DEF StaleFor
  <2> QED BY <1>2, <2>1, <2>2
<1>4. gs \in Stacks /\ Len(gs) = n
  BY <1>1, <1>2, <1>3 DEF Stacks
<1> QED BY <1>3, <1>4 DEF gs, n

LEMMA OuterFacts ==
  ASSUME frames \in Stacks, frames # <<>>
  PROVE  /\ Level = Len(frames) /\ Level \in Nat \ {0}
         /\ frames[Level] \in Frame /\ TopIso \in Isolates
         /\ Outer \in Stacks /\ Len(Outer) = Level - 1
         /\ \A k \in 1 .. Level - 1 : Outer[k] = frames[k]
<1>1. /\ Level \in Nat \ {0} /\ frames[Level] \in Frame /\ frames \in Seq(Frame)
      /\ Level = Len(frames)
  BY DEF Stacks, Level
<1>2. TopIso \in Isolates
  BY <1>1, FrameKinds DEF TopIso
<1>3. /\ Outer \in Stacks /\ Len(Outer) = Level - 1
      /\ \A k \in 1 .. Level - 1 : Outer[k] = frames[k]
  <2> DEFINE m == Level
  <2>1. m \in Nat \ {0} /\ m = Len(frames) /\ frames \in Seq(Frame)
    BY <1>1
  <2> HIDE DEF m
  <2>2. /\ SubSeq(frames, 1, m - 1) \in Seq(Frame) /\ Len(SubSeq(frames, 1, m - 1)) = m - 1
        /\ \A k \in 1 .. m - 1 : SubSeq(frames, 1, m - 1)[k] = frames[k]
    BY <2>1
  <2> QED BY <2>2 DEF Outer, Stacks, m
<1> QED BY <1>1, <1>2, <1>3

-----------------------------------------------------------------------------
(* The actions.                                                            *)
LEMMA ExnFacts ==
  /\ ExnInv <=> /\ pending \in Slots /\ frames \in Stacks
                /\ listeners \in [Isolates -> Nat] /\ Good(frames, pending)
  /\ ExnInv' <=> /\ pending' \in Slots /\ frames' \in Stacks
                 /\ listeners' \in [Isolates -> Nat] /\ Good(frames', pending')
<1>1. ASSUME NEW fs \in Seq(Frame) PROVE DOMAIN fs = 1 .. Len(fs)
  OBVIOUS
<1> QED BY <1>1 DEF ExnInv, Slots, Stacks, Good

LEMMA InFlightType ==
  ASSUME pending \in Slots, frames \in Stacks
  PROVE  InFlight \subseteq Exns
<1>1. \A i \in Isolates : pending[i] \in Slot
  BY DEF Slots
<1>2. ASSUME NEW k \in DOMAIN frames PROVE Held(frames[k]) \subseteq Slot
  <2>1. frames[k] \in Frame
    BY DEF Stacks
  <2> QED BY <2>1, FrameKinds DEF Held, TryFrame, JsFrame
<1> QED BY <1>1, <1>2 DEF InFlight, Slot

LEMMA ConstructStep ==
  ASSUME Uses = {}, ExnInv, NEW i \in Isolates, TryCatchConstruct(i)
  PROVE  ExnInv'
<1> PICK f : f = [kind |-> "try", iso |-> i, caught |-> None, rethrow |-> FALSE,
                  owes |-> FALSE, stale |-> InFlight]
  OBVIOUS
<1>1. /\ pending \in Slots /\ frames \in Stacks /\ listeners \in [Isolates -> Nat]
      /\ Good(frames, pending)
  BY ExnFacts
<1>2. /\ EmbedderActs /\ pending[i] = None /\ frames' = Append(frames, f)
      /\ pending' = pending /\ listeners' = listeners
  BY DEF TryCatchConstruct, Push
<1>3. f \in Frame
  BY <1>1, InFlightType DEF Frame, TryFrame, Slot
<1>4. /\ f.kind = "try" /\ f.iso = i /\ Keeps(f) = None
      /\ ~ Owes(f) /\ ~ Unwinds(f) /\ ~ Rethrows(f)
  BY DEF Keeps, Owes, Unwinds, Rethrows
<1>5. frames # <<>> => frames[Len(frames)].kind # "js"
  BY <1>2 DEF EmbedderActs, TopIs, Level
<1>6. Good(Append(frames, f), pending)
  BY <1>1, <1>2, <1>3, <1>4, <1>5, PushGood
<1>7. Append(frames, f) \in Stacks
  BY <1>1, <1>3 DEF Stacks
<1> QED BY <1>1, <1>2, <1>6, <1>7, ExnFacts

LEMMA CallStep ==
  ASSUME ExnInv, NEW i \in Isolates, FunctionCall(i)
  PROVE  ExnInv'
<1> PICK f : f = [kind |-> "js", iso |-> i, entry |-> "call", saved |-> pending[i],
                  throwing |-> FALSE]
  OBVIOUS
<1> DEFINE q == [pending EXCEPT ![i] = None]
<1>1. /\ pending \in Slots /\ frames \in Stacks /\ listeners \in [Isolates -> Nat]
      /\ Good(frames, pending) /\ pending[i] \in Slot
  BY ExnFacts DEF Slots
<1>2. /\ EmbedderActs /\ frames' = Append(frames, f)
      /\ pending' = q /\ listeners' = listeners
  BY DEF FunctionCall, Push
<1>3. f \in Frame
  BY <1>1 DEF Frame, JsFrame
<1>4. /\ f.kind = "js" /\ f.iso = i /\ f.entry = "call" /\ Keeps(f) = pending[i]
      /\ ~ Owes(f) /\ ~ Unwinds(f) /\ ~ Rethrows(f)
  BY DEF Keeps, Owes, Unwinds, Rethrows
<1>5. frames # <<>> => frames[Len(frames)].kind # "js"
  BY <1>2 DEF EmbedderActs, TopIs, Level
<1>6. /\ q \in Slots /\ q[i] = None /\ \A x \in Isolates : x # i => q[x] = pending[x]
  BY <1>1 DEF Slots, Slot
<1> HIDE DEF q
<1>7. Good(Append(frames, f), q)
  BY <1>1, <1>3, <1>4, <1>5, <1>6, PushGood
<1>8. Append(frames, f) \in Stacks
  BY <1>1, <1>3 DEF Stacks
<1> QED BY <1>1, <1>2, <1>6, <1>7, <1>8, ExnFacts

LEMMA EnterJsStep ==
  ASSUME Uses = {}, ExnInv, NEW i \in Isolates, NEW how \in {"script", "construct"},
         Enter(i, how)
  PROVE  ExnInv'
<1> DEFINE f == [kind |-> "js", iso |-> i, entry |-> how, saved |-> None,
                  throwing |-> FALSE]
<1>1. /\ pending \in Slots /\ frames \in Stacks /\ listeners \in [Isolates -> Nat]
      /\ Good(frames, pending)
  BY ExnFacts
<1>2. /\ EmbedderActs /\ pending[i] = None /\ frames' = Append(frames, f)
      /\ pending' = pending /\ listeners' = listeners
  BY DEF Enter, Push
<1>3. f \in Frame
  BY DEF Frame, JsFrame, Slot
<1>4. /\ f.kind = "js" /\ f.iso = i /\ Keeps(f) = None
      /\ ~ Owes(f) /\ ~ Unwinds(f) /\ ~ Rethrows(f)
  BY DEF Keeps, Owes, Unwinds, Rethrows
<1>5. frames # <<>> => frames[Len(frames)].kind # "js"
  BY <1>2 DEF EmbedderActs, TopIs, Level
<1> HIDE DEF f
<1>6. Good(Append(frames, f), pending)
  BY <1>1, <1>2, <1>3, <1>4, <1>5, PushGood
<1>7. Append(frames, f) \in Stacks
  BY <1>1, <1>3 DEF Stacks
<1> QED BY <1>1, <1>2, <1>6, <1>7, ExnFacts

(* JavaScript runs: nothing is pending in its isolate.                     *)
LEMMA RunningFacts ==
  ASSUME ExnInv, TopIs("js")
  PROVE  /\ frames # <<>> /\ frames[Level].kind = "js" /\ frames[Level] \in JsFrame
         /\ frames[Level].throwing <=> pending[TopIso] # None
         /\ Unwinds(frames[Level]) <=> frames[Level].throwing
         /\ frames[Level].entry # "call" => Keeps(frames[Level]) = None
         /\ Keeps(frames[Level]) = frames[Level].saved
<1>1. /\ frames # <<>> /\ frames[Level].kind = "js"
      /\ frames \in Stacks /\ Good(frames, pending)
  BY ExnFacts DEF TopIs
<1>2. /\ Level = Len(frames) /\ Level \in Nat \ {0} /\ frames[Level] \in JsFrame
  BY <1>1, OuterFacts, FrameKinds
<1>3. StackIn(frames, pending, Level)
  BY <1>1, <1>2 DEF Good, FrameOK
<1>4. Unwinds(frames[Level]) <=> pending[TopIso] # None
  BY <1>1, <1>2, <1>3 DEF StackIn, TopIso
<1> QED BY <1>1, <1>2, <1>3, <1>4 DEF StackIn, Unwinds, Keeps

LEMMA CallbackStep ==
  ASSUME ExnInv, CallbackEnter
  PROVE  ExnInv'
<1> PICK f : f = [kind |-> "native", iso |-> TopIso, owes |-> FALSE, stale |-> InFlight]
  OBVIOUS
<1>1. /\ pending \in Slots /\ frames \in Stacks /\ listeners \in [Isolates -> Nat]
      /\ Good(frames, pending)
  BY ExnFacts
<1>2. /\ TopIs("js") /\ ~ frames[Level].throwing /\ frames' = Append(frames, f)
      /\ pending' = pending /\ listeners' = listeners
  BY DEF CallbackEnter, JavaScript, Push
<1>3. /\ frames # <<>> /\ Level = Len(frames) /\ TopIso \in Isolates
      /\ frames[Level].kind = "js" /\ TopIso = frames[Level].iso
      /\ pending[TopIso] = None /\ ~ Unwinds(frames[Level])
  BY <1>1, <1>2, RunningFacts, OuterFacts DEF TopIso
<1>4. f \in Frame
  BY <1>1, <1>3, InFlightType DEF Frame, NativeFrame
<1>5. /\ f.kind = "native" /\ f.iso = TopIso /\ Keeps(f) = None
      /\ ~ Owes(f) /\ ~ Unwinds(f) /\ ~ Rethrows(f)
  BY DEF Keeps, Owes, Unwinds, Rethrows
<1>6. Good(Append(frames, f), pending)
  BY <1>1, <1>3, <1>4, <1>5, PushGood
<1>7. Append(frames, f) \in Stacks
  BY <1>1, <1>4 DEF Stacks
<1> QED BY <1>1, <1>2, <1>6, <1>7, ExnFacts

LEMMA ThrowStep ==
  ASSUME ExnInv, NEW i \in Isolates, NEW e \in Exns, ThrowException(i, e)
  PROVE  ExnInv'
<1> DEFINE q == [pending EXCEPT ![i] = e]
           gs == Thrown(frames, e)
           hs == Failed(gs, i)
<1>1. /\ pending \in Slots /\ frames \in Stacks /\ listeners \in [Isolates -> Nat]
      /\ Good(frames, pending)
  BY ExnFacts
<1>2. /\ EmbedderActs /\ frames' = hs /\ pending' = q /\ listeners' = listeners
  BY DEF ThrowException
<1>3. /\ q \in Slots /\ q[i] = e /\ e # None
      /\ \A x \in Isolates : x # i => q[x] = pending[x]
  BY <1>1, ExceptionsAssumption DEF Slots, Slot
<1>4. frames # <<>> => frames[Len(frames)].kind # "js"
  BY <1>2 DEF EmbedderActs, TopIs, Level
<1>5. /\ gs \in Stacks /\ Len(gs) = Len(frames)
      /\ \A k \in 1 .. Len(frames) :
           /\ Alike(frames[k], gs[k]) /\ e \notin StaleFor(gs[k])
           /\ Owes(gs[k]) <=> Owes(frames[k])
           /\ Unwinds(gs[k]) <=> Unwinds(frames[k])
  BY <1>1, ThrownFacts
<1> HIDE DEF gs, q
<1>6. /\ hs \in Stacks /\ Len(hs) = Len(gs)
      /\ \A k \in 1 .. Len(gs) :
           /\ Alike(gs[k], hs[k])
           /\ Owes(hs[k]) => Owes(gs[k]) \/ (k = Len(gs) /\ gs[k].iso = i)
           /\ Unwinds(hs[k]) <=> Unwinds(gs[k])
  BY <1>5, FailedFacts
<1> HIDE DEF hs
<1>7. \A k \in 1 .. Len(frames) :
        /\ Alike(frames[k], hs[k])
        /\ q[i] \notin StaleFor(hs[k])
        /\ Owes(hs[k]) => Owes(frames[k]) \/ (k = Len(frames) /\ hs[k].iso = i)
        /\ Unwinds(hs[k]) <=> Unwinds(frames[k])
  BY <1>3, <1>5, <1>6 DEF Alike
<1>8. Good(hs, q)
  BY <1>1, <1>3, <1>4, <1>5, <1>6, <1>7, ThrownGood
<1> QED BY <1>1, <1>2, <1>3, <1>6, <1>8, ExnFacts

(* The frame on top is replaced.                                           *)
LEMMA TopReplaced ==
  ASSUME frames \in Stacks, frames # <<>>, NEW g \in Frame,
         NEW gs, gs = [frames EXCEPT ![Level] = g]
  PROVE  /\ gs \in Stacks /\ Len(gs) = Len(frames) /\ gs[Len(frames)] = g
         /\ \A k \in 1 .. Len(frames) - 1 :
              /\ Alike(frames[k], gs[k])
              /\ Owes(gs[k]) <=> Owes(frames[k])
              /\ Unwinds(gs[k]) <=> Unwinds(frames[k])
<1> DEFINE n == Level
<1>1. n \in Nat \ {0} /\ n = Len(frames) /\ frames \in Seq(Frame)
  BY OuterFacts DEF Stacks
<1> HIDE DEF n
<1>2. gs = [frames EXCEPT ![n] = g]
  BY DEF n
<1>3. gs \in Seq(Frame) /\ Len(gs) = n
  <2>1. frames \in [1 .. n -> Frame]
    BY <1>1
  <2>2. gs \in [1 .. n -> Frame]
    BY <1>1, <1>2, <2>1
  <2> QED BY <1>1, <2>2
<1>4. gs[n] = g /\ \A k \in 1 .. n - 1 : gs[k] = frames[k]
  BY <1>1, <1>2
<1> QED BY <1>1, <1>3, <1>4, SameAlike DEF Stacks

(* What a TryCatch on top knows.                                           *)
LEMMA TopTryFacts ==
  ASSUME ExnInv, TopIs("try")
  PROVE  /\ frames # <<>> /\ frames \in Stacks /\ pending \in Slots
         /\ listeners \in [Isolates -> Nat] /\ Good(frames, pending)
         /\ Level = Len(frames) /\ TopIso \in Isolates /\ TopIso = frames[Level].iso
         /\ frames[Level] \in TryFrame /\ frames[Level].kind = "try"
         /\ Keeps(frames[Level]) = frames[Level].caught
         /\ frames[Level].caught \in Slot /\ pending[TopIso] \in Slot
         /\ frames[Level].rethrow => frames[Level].caught # None
         /\ frames[Level].owes => frames[Level].caught # None \/ pending[TopIso] # None
<1>1. /\ frames # <<>> /\ frames \in Stacks /\ pending \in Slots
      /\ listeners \in [Isolates -> Nat] /\ Good(frames, pending)
      /\ frames[Level].kind = "try"
  BY ExnFacts DEF TopIs
<1>2. /\ Level = Len(frames) /\ Level \in Nat \ {0} /\ frames[Level] \in TryFrame
      /\ TopIso \in Isolates
  BY <1>1, OuterFacts, FrameKinds
<1>3. FrameOK(frames, pending, Level)
  BY <1>1, <1>2 DEF Good
<1>4. /\ Keeps(frames[Level]) = frames[Level].caught
      /\ Owes(frames[Level]) <=> frames[Level].owes
      /\ Rethrows(frames[Level]) <=> frames[Level].rethrow
      /\ frames[Level].caught \in Slot /\ pending[TopIso] \in Slot
  BY <1>1, <1>2 DEF Keeps, Owes, Rethrows, TryFrame, Slots
<1>5. frames[Level].rethrow => frames[Level].caught # None
  BY <1>3, <1>4 DEF FrameOK, StackIn
<1>6. frames[Level].owes => frames[Level].caught # None \/ pending[TopIso] # None
  <2>1. \A j \in Level + 1 .. Len(frames) : FALSE
    BY <1>2
  <2> QED BY <1>3, <1>4, <2>1 DEF FrameOK, SeesIn, TopIso
<1> QED BY <1>1, <1>2, <1>4, <1>5, <1>6 DEF TopIso

LEMMA CaptureFacts ==
  ASSUME ExnInv, TopIs("try")
  PROVE  LET tc == Capture(frames[Level])
             left == LeftPending(frames[Level])
         IN /\ tc \in TryFrame /\ tc.kind = "try" /\ tc.iso = TopIso
            /\ tc.caught \in {frames[Level].caught, pending[TopIso]}
            /\ tc.rethrow = frames[Level].rethrow /\ tc.owes = frames[Level].owes
            /\ tc.stale = frames[Level].stale
            /\ left \in {None, pending[TopIso]}
            /\ frames[Level].caught # None => tc.caught # None
            /\ pending[TopIso] # None => tc.caught # None
<1>1. /\ frames[Level] \in TryFrame /\ TopIso = frames[Level].iso
      /\ pending[TopIso] \in Slot
  BY TopTryFacts
<1>2. CASE frames[Level].caught = None
  BY <1>1, <1>2 DEF Capture, LeftPending, TryFrame
<1>3. CASE frames[Level].caught # None
  BY <1>1, <1>3 DEF Capture, LeftPending, TryFrame
<1> QED BY <1>2, <1>3

(* A TryCatch on top that works with its own slot and its runtime's.       *)
LEMMA TryChange ==
  ASSUME ExnInv, TopIs("try"),
         NEW g \in TryFrame, NEW x \in Slot,
         g.iso = TopIso, g.stale = frames[Level].stale,
         g.caught \in {None, frames[Level].caught, pending[TopIso]},
         x \in {None, frames[Level].caught, pending[TopIso]},
         g.rethrow => g.caught # None,
         g.owes => g.caught # None \/ x # None,
         frames' = [frames EXCEPT ![Level] = g],
         pending' = [pending EXCEPT ![TopIso] = x],
         listeners' = listeners
  PROVE  ExnInv'
<1> PICK gs : gs = [frames EXCEPT ![Level] = g]
  OBVIOUS
<1> PICK q : q = [pending EXCEPT ![TopIso] = x]
  OBVIOUS
<1> PICK f : f = frames[Len(frames)]
  OBVIOUS
<1>1. /\ frames # <<>> /\ frames \in Stacks /\ pending \in Slots
      /\ listeners \in [Isolates -> Nat] /\ Good(frames, pending)
      /\ Level = Len(frames) /\ TopIso \in Isolates /\ TopIso = f.iso
      /\ f \in TryFrame /\ f = frames[Level] /\ f.kind = "try" /\ Keeps(f) = f.caught
  BY TopTryFacts
<1>2. /\ q \in Slots /\ q[f.iso] = x /\ \A y \in Isolates : y # f.iso => q[y] = pending[y]
  BY <1>1 DEF Slots
<1>3. /\ g \in Frame /\ g.kind = "try" /\ Keeps(g) = g.caught
      /\ StaleFor(g) = StaleFor(f)
      /\ Rethrows(g) <=> g.rethrow
      /\ Owes(g) <=> g.owes
  BY <1>1 DEF Frame, TryFrame, Keeps, StaleFor, Rethrows, Owes
<1>4. /\ gs \in Stacks /\ Len(gs) = Len(frames) /\ gs[Len(frames)] = g
      /\ \A k \in 1 .. Len(frames) - 1 :
           /\ Alike(frames[k], gs[k])
           /\ Owes(gs[k]) <=> Owes(frames[k])
           /\ Unwinds(gs[k]) <=> Unwinds(frames[k])
  BY <1>1, <1>3, TopReplaced
<1>5. /\ q[f.iso] \in {None, pending[f.iso], Keeps(f)}
      /\ Keeps(g) \in {None, pending[f.iso], Keeps(f)}
      /\ Owes(g) => (g.kind = "try" /\ Keeps(g) # None) \/ q[f.iso] # None
      /\ Rethrows(g) => Keeps(g) # None
      /\ g.iso = f.iso /\ (g.kind = "native" <=> f.kind = "native")
      /\ StaleFor(g) \subseteq StaleFor(f)
      /\ f.kind # "js" /\ g.kind # "js"
      /\ f = frames[Len(frames)] /\ g = gs[Len(frames)]
  BY <1>1, <1>2, <1>3, <1>4
<1>6. Good(gs, q)
  <2>1. /\ \/ q[f.iso] \in {None, pending[f.iso], Keeps(f)}
           \/ \A k \in 1 .. Len(frames) : q[f.iso] \notin StaleFor(gs[k])
        /\ f.kind = "js" /\ Keeps(f) # None => g.kind = "js" /\ Keeps(g) # None
        /\ g.kind = "js" /\ g.entry # "call" => Keeps(g) = None
        /\ g.kind = "js" => (Unwinds(g) <=> q[f.iso] # None)
    BY <1>5
  <2>2. OnTop(frames, pending, gs, q, f, g)
    BY <1>2, <1>4, <1>5, <2>1 DEF OnTop
  <2>3. OnTop(frames, pending, gs, q, frames[Len(frames)], gs[Len(frames)])
    BY <1>5, <2>2
  <2> QED BY <1>1, <1>2, <1>4, <2>3, TopGood
<1> QED BY <1>1, <1>2, <1>4, <1>6, ExnFacts

LEMMA HasCaughtStep ==
  ASSUME ExnInv, HasCaught
  PROVE  ExnInv'
<1> DEFINE tc == Capture(frames[Level])
           left == LeftPending(frames[Level])
<1>1. /\ TopIs("try") /\ frames' = [frames EXCEPT ![Level] = tc]
      /\ pending' = [pending EXCEPT ![TopIso] = left] /\ listeners' = listeners
  BY DEF HasCaught
<1>2. /\ tc \in TryFrame /\ tc.iso = TopIso /\ tc.stale = frames[Level].stale
      /\ tc.caught \in {None, frames[Level].caught, pending[TopIso]}
      /\ left \in {None, pending[TopIso]} /\ left \in Slot
      /\ tc.rethrow => tc.caught # None
      /\ tc.owes => tc.caught # None
  BY <1>1, TopTryFacts, CaptureFacts DEF Slot
<1> HIDE DEF tc, left
<1> QED BY <1>1, <1>2, TryChange

LEMMA ResetStep ==
  ASSUME ExnInv, Reset
  PROVE  ExnInv'
<1> PICK g : g = [frames[Level] EXCEPT !.caught = None, !.owes = FALSE]
  OBVIOUS
<1>1. /\ TopIs("try") /\ ~ frames[Level].rethrow
      /\ frames' = [frames EXCEPT ![Level] = g]
      /\ pending' = [pending EXCEPT ![TopIso] = None] /\ listeners' = listeners
  BY TopTryFacts, OuterFacts DEF Reset
<1>2. /\ g \in TryFrame /\ g.iso = TopIso /\ g.stale = frames[Level].stale
      /\ g.caught = None /\ ~ g.rethrow /\ ~ g.owes /\ None \in Slot
  BY <1>1, TopTryFacts DEF TryFrame, Slot
<1> QED BY <1>1, <1>2, TryChange

LEMMA ReThrowStep ==
  ASSUME ExnInv, ReThrow
  PROVE  ExnInv'
<1> DEFINE tc == Capture(frames[Level])
           left == LeftPending(frames[Level])
           g == [tc EXCEPT !.rethrow = TRUE]
           x == IF left = None THEN tc.caught ELSE left
<1>1. /\ TopIs("try") /\ frames' = [frames EXCEPT ![Level] = g] /\ tc.caught # None
      /\ pending' = [pending EXCEPT ![TopIso] = x] /\ listeners' = listeners
  BY DEF ReThrow
<1>2. /\ tc \in TryFrame /\ tc.iso = TopIso /\ tc.stale = frames[Level].stale
      /\ tc.caught \in {frames[Level].caught, pending[TopIso]}
      /\ tc.caught \in Slot
      /\ left \in {None, pending[TopIso]} /\ left \in Slot
  BY <1>1, TopTryFacts, CaptureFacts DEF Slot
<1> HIDE DEF tc, left
<1>3. /\ g \in TryFrame /\ g.iso = TopIso /\ g.stale = frames[Level].stale
      /\ g.caught = tc.caught
  BY <1>2 DEF TryFrame
<1>4. x \in Slot /\ x \in {None, frames[Level].caught, pending[TopIso]}
  BY <1>2
<1> HIDE DEF g, x
<1> QED BY <1>1, <1>2, <1>3, <1>4, TryChange

LEMMA BelowFacts ==
  ASSUME ExnInv, frames # <<>>
  PROVE  /\ frames \in Stacks /\ pending \in Slots /\ listeners \in [Isolates -> Nat]
         /\ Good(frames, pending) /\ Level = Len(frames) /\ Level \in Nat \ {0}
         /\ TopIso = frames[Level].iso /\ TopIso \in Isolates /\ frames[Level] \in Frame
         /\ Outer \in Stacks /\ Len(Outer) = Len(frames) - 1
         /\ \A k \in 1 .. Len(Outer) : Outer[k] = frames[k] /\ Alike(frames[k], Outer[k])
         /\ Outer # <<>> => Len(Outer) \in 1 .. Len(Outer)
         /\ frames[Level].kind # "native" /\ Outer # <<>>
              => Outer[Len(Outer)].kind # "js"
         /\ frames[Level].kind = "native"
              => /\ Outer # <<>> /\ Outer[Len(Outer)].kind = "js"
                 /\ Outer[Len(Outer)].iso = TopIso
<1>1. /\ frames \in Stacks /\ pending \in Slots /\ listeners \in [Isolates -> Nat]
      /\ Good(frames, pending)
  BY ExnFacts
<1>2. /\ Level = Len(frames) /\ Level \in Nat \ {0}
      /\ TopIso = frames[Level].iso /\ TopIso \in Isolates /\ frames[Level] \in Frame
      /\ Outer \in Stacks /\ Len(Outer) = Len(frames) - 1
      /\ \A k \in 1 .. Level - 1 : Outer[k] = frames[k]
  BY <1>1, OuterFacts DEF TopIso
<1>3. Outer # <<>> <=> Len(Outer) # 0
  BY <1>2 DEF Stacks
<1> DEFINE n == Level
<1>4. \A k \in 1 .. n : StackIn(frames, pending, k)
  BY <1>1, <1>2 DEF Good, FrameOK
<1> HIDE DEF n
<1>5. n = Len(frames) /\ n \in Nat \ {0} /\ Len(Outer) = n - 1
  BY <1>2 DEF n
<1>6. Outer # <<>> => Len(Outer) \in 1 .. Len(Outer)
  BY <1>3, <1>5
<1>7. ASSUME frames[n].kind # "native", Outer # <<>>
      PROVE  Outer[n - 1].kind # "js"
  <2>1. n - 1 \in 1 .. n /\ n - 1 < Len(frames) /\ n - 1 + 1 = n /\ Outer[n - 1] = frames[n - 1]
    BY <1>2, <1>3, <1>5, <1>7 DEF n
  <2>2. StackIn(frames, pending, n - 1)
    BY <1>4, <2>1
  <2> QED BY <1>7, <2>1, <2>2 DEF StackIn
<1>8. ASSUME frames[n].kind = "native"
      PROVE  /\ Outer # <<>> /\ Outer[n - 1].kind = "js" /\ Outer[n - 1].iso = TopIso
  <2>1. StackIn(frames, pending, n)
    BY <1>4, <1>5
  <2>2. n > 1 /\ frames[n - 1].kind = "js" /\ frames[n - 1].iso = frames[n].iso
    BY <1>8, <2>1 DEF StackIn
  <2>3. Outer # <<>> /\ Outer[n - 1] = frames[n - 1]
    BY <1>2, <1>3, <1>5, <2>2 DEF n
  <2> QED BY <1>2, <2>2, <2>3 DEF n
<1>9. \A k \in 1 .. Len(Outer) : Outer[k] = frames[k] /\ Alike(frames[k], Outer[k])
  BY <1>2, SameAlike
<1> QED BY <1>1, <1>2, <1>5, <1>6, <1>7, <1>8, <1>9 DEF n

LEMMA ClearStep ==
  ASSUME Uses = {}, ExnInv, NEW i \in Isolates, ClearOwnError(i)
  PROVE  ExnInv'
<1>1. /\ pending' = [pending EXCEPT ![i] = None] /\ frames' = frames
      /\ listeners' = listeners
  BY DEF ClearOwnError
<1>2. CASE pending[i] = None
  <2>1. pending \in Slots
    BY ExnFacts
  <2>2. pending' = pending
    BY <1>1, <1>2, <2>1 DEF Slots
  <2> QED BY <1>1, <2>2, ExnFacts
<1>3. CASE TopIs("try") /\ TopIso = i /\ frames[Level].rethrow
  <2> PICK g : g = frames[Level]
    OBVIOUS
  <2>1. /\ frames \in Stacks /\ Level = Len(frames) /\ frames # <<>>
        /\ g \in TryFrame /\ g.iso = TopIso /\ g.caught # None
    BY <1>3, TopTryFacts
  <2>2. frames' = [frames EXCEPT ![Level] = g]
    BY <1>1, <2>1 DEF Stacks
  <2> QED BY <1>1, <1>3, <2>1, <2>2, TryChange DEF Slot
<1> QED BY <1>2, <1>3 DEF ClearOwnError

LEMMA AddListenerStep ==
  ASSUME ExnInv, NEW i \in Isolates, AddMessageListener(i)
  PROVE  ExnInv'
<1>0. listeners' = [listeners EXCEPT ![i] = @ + 1]
  BY DEF AddMessageListener
<1>1. listeners' \in [Isolates -> Nat]
  BY <1>0, ExnFacts
<1>2. pending' = pending /\ frames' = frames
  BY DEF AddMessageListener
<1> QED BY <1>1, <1>2, ExnFacts

(* JavaScript throws or catches: it unwinds when something is pending.     *)
LEMMA JsChange ==
  ASSUME ExnInv, TopIs("js"), NEW b \in BOOLEAN, NEW x \in Slot, b <=> x # None,
         NEW hs \in Stacks, Len(hs) = Len(frames), hs[Level] = frames[Level],
         \A k \in 1 .. Len(frames) :
           /\ Alike(frames[k], hs[k])
           /\ Owes(hs[k]) <=> Owes(frames[k])
           /\ Unwinds(hs[k]) <=> Unwinds(frames[k])
           /\ x \notin StaleFor(hs[k]),
         frames' = [hs EXCEPT ![Level].throwing = b],
         pending' = [pending EXCEPT ![TopIso] = x],
         listeners' = listeners
  PROVE  ExnInv'
<1> PICK q : q = [pending EXCEPT ![TopIso] = x]
  OBVIOUS
<1> PICK g : g = [frames[Level] EXCEPT !.throwing = b]
  OBVIOUS
<1> PICK n : n = Level
  OBVIOUS
<1> PICK gs : gs = [hs EXCEPT ![n] = g]
  OBVIOUS
<1>1. /\ frames # <<>> /\ frames \in Stacks /\ pending \in Slots
      /\ listeners \in [Isolates -> Nat] /\ Good(frames, pending)
      /\ n = Len(frames) /\ n \in Nat \ {0} /\ TopIso = frames[n].iso /\ TopIso \in Isolates
      /\ frames[n] \in JsFrame /\ frames[n].kind = "js"
      /\ frames[n].entry # "call" => Keeps(frames[n]) = None
  BY RunningFacts, BelowFacts
<1>2. /\ g \in Frame /\ Alike(frames[n], g) /\ (Unwinds(g) <=> b) /\ ~ Owes(g)
      /\ ~ Rethrows(g)
  <2>1. g \in Frame /\ Alike(frames[n], g) /\ (Unwinds(g) <=> b) /\ ~ Owes(g)
    BY <1>1, JsThrowing
  <2> QED BY <1>1, <2>1 DEF Alike, Rethrows
<1>3. frames' = gs
  <2>1. n \in DOMAIN hs
    BY <1>1 DEF Stacks
  <2> QED BY <2>1
<1>4. /\ gs \in Stacks /\ Len(gs) = n /\ gs[n] = g
      /\ \A k \in 1 .. n - 1 : gs[k] = hs[k]
  <2>1. hs \in [1 .. n -> Frame] /\ n \in 1 .. n
    BY <1>1 DEF Stacks
  <2>2. gs \in [1 .. n -> Frame] /\ gs[n] = g /\ \A k \in 1 .. n - 1 : gs[k] = hs[k]
    BY <1>1, <1>2, <2>1
  <2> QED BY <1>1, <2>2 DEF Stacks
<1>5. /\ q \in Slots /\ q[TopIso] = x
      /\ \A y \in Isolates : y # TopIso => q[y] = pending[y]
  BY <1>1 DEF Slots
<1>6. \A k \in 1 .. n : x \notin StaleFor(gs[k])
  <2>1. \A k \in 1 .. n : k = n \/ k \in 1 .. n - 1
    BY <1>1
  <2>2. StaleFor(g) = {}
    BY <1>1, <1>2 DEF Alike, StaleFor
  <2> QED BY <1>1, <1>4, <2>1, <2>2
<1>7. OnTop(frames, pending, gs, q, frames[n], g)
  <2>1. \A k \in 1 .. n - 1 : /\ Alike(frames[k], gs[k])
                              /\ Owes(gs[k]) <=> Owes(frames[k])
                              /\ Unwinds(gs[k]) <=> Unwinds(frames[k])
    <3>1. \A k \in 1 .. n - 1 : k \in 1 .. Len(frames)
      BY <1>1
    <3> QED BY <1>4, <3>1
  <2>2. /\ g.iso = frames[n].iso /\ (g.kind = "native" <=> frames[n].kind = "native")
        /\ StaleFor(g) \subseteq StaleFor(frames[n])
        /\ Keeps(g) = Keeps(frames[n]) /\ g.kind = "js" /\ g.entry = frames[n].entry
    BY <1>1, <1>2 DEF Alike
  <2>3. g.kind = "js" => (Unwinds(g) <=> q[TopIso] # None)
    BY <1>2, <1>5
  <2>4. /\ \A y \in Isolates : y # frames[n].iso => q[y] = pending[y]
        /\ \A k \in 1 .. Len(frames) : q[frames[n].iso] \notin StaleFor(gs[k])
        /\ g.kind = "js" => (Unwinds(g) <=> q[frames[n].iso] # None)
    BY <1>1, <1>5, <1>6, <2>3
  <2>5. g.kind = "js" /\ g.entry # "call" => Keeps(g) = None
    BY <1>1, <2>2
  <2>6. \A k \in 1 .. Len(frames) - 1 :
          /\ Alike(frames[k], gs[k])
          /\ Owes(gs[k]) <=> Owes(frames[k])
          /\ Unwinds(gs[k]) <=> Unwinds(frames[k])
    BY <1>1, <2>1
  <2> QED BY <1>2, <2>2, <2>4, <2>5, <2>6 DEF OnTop
<1>8. Good(gs, q)
  <2>1. OnTop(frames, pending, gs, q, frames[Len(frames)], gs[Len(frames)])
    BY <1>1, <1>4, <1>7
  <2>2. Len(gs) = Len(frames)
    BY <1>1, <1>4
  <2> QED BY <1>1, <1>4, <1>5, <2>1, <2>2, TopGood
<1> QED BY <1>1, <1>3, <1>4, <1>5, <1>8, ExnFacts

LEMMA JsThrowsStep ==
  ASSUME ExnInv, NEW e \in Exns, JsThrows(e)
  PROVE  ExnInv'
<1> PICK hs : hs = Thrown(frames, e)
  OBVIOUS
<1>1. /\ TopIs("js") /\ frames' = [hs EXCEPT ![Level].throwing = TRUE]
      /\ pending' = [pending EXCEPT ![TopIso] = e] /\ listeners' = listeners
  BY DEF JsThrows, JavaScript
<1>2. /\ frames \in Stacks /\ Level = Len(frames) /\ Level \in 1 .. Len(frames)
      /\ frames[Level].kind = "js"
  BY <1>1, RunningFacts, BelowFacts
<1>3. /\ hs \in Stacks /\ Len(hs) = Len(frames) /\ hs[Level] = frames[Level]
      /\ \A k \in 1 .. Len(frames) :
           /\ Alike(frames[k], hs[k])
           /\ Owes(hs[k]) <=> Owes(frames[k])
           /\ Unwinds(hs[k]) <=> Unwinds(frames[k])
           /\ e \notin StaleFor(hs[k])
  BY <1>2, ThrownFacts
<1>4. e \in Slot /\ e # None
  BY ExceptionsAssumption DEF Slot
<1> QED BY <1>1, <1>3, <1>4, JsChange

LEMMA JsCatchesStep ==
  ASSUME ExnInv, JsCatches
  PROVE  ExnInv'
<1>1. /\ TopIs("js") /\ frames' = [frames EXCEPT ![Level].throwing = FALSE]
      /\ pending' = [pending EXCEPT ![TopIso] = None] /\ listeners' = listeners
  BY DEF JsCatches
<1>2. frames \in Stacks
  BY ExnFacts
<1>3. \A k \in 1 .. Len(frames) : Alike(frames[k], frames[k]) /\ None \notin StaleFor(frames[k])
  BY <1>2, StackFacts, SameAlike
<1>4. None \in Slot
  BY DEF Slot
<1> QED BY <1>1, <1>2, <1>3, <1>4, JsChange

(* The top frame is left.                                                  *)
LEMMA PopChange ==
  ASSUME ExnInv, frames # <<>>,
         NEW gs \in Stacks, Len(gs) = Len(Outer), NEW x \in Slot,
         \A k \in 1 .. Len(Outer) : Alike(Outer[k], gs[k]),
         \A k \in 1 .. Len(Outer) - 1 : gs[k] = Outer[k],
         gs # <<>> /\ Owes(gs[Len(gs)])
           => Owes(Outer[Len(Outer)]) \/ (x # None /\ Outer[Len(Outer)].iso = TopIso),
         frames[Level].kind = "native" => (Unwinds(gs[Len(gs)]) <=> x # None),
         x \in {None, pending[TopIso], Keeps(frames[Level])},
         frames[Level].kind = "js" /\ Keeps(frames[Level]) # None => x # None,
         frames' = gs,
         pending' = [pending EXCEPT ![TopIso] = x],
         listeners' = listeners
  PROVE  ExnInv'
<1> PICK q : q = [pending EXCEPT ![TopIso] = x]
  OBVIOUS
<1> PICK f : f = frames[Len(frames)]
  OBVIOUS
<1> PICK m : m = Len(gs)
  OBVIOUS
<1>1. /\ frames \in Stacks /\ pending \in Slots /\ listeners \in [Isolates -> Nat]
      /\ Good(frames, pending) /\ f = frames[Level]
      /\ TopIso = f.iso /\ TopIso \in Isolates
      /\ Outer \in Stacks /\ Len(Outer) = Len(frames) - 1 /\ m = Len(Outer)
      /\ \A k \in 1 .. m : Outer[k] = frames[k]
  BY BelowFacts
<1>2. /\ q \in Slots /\ q[f.iso] = x
      /\ \A y \in Isolates : y # f.iso => q[y] = pending[y]
  BY <1>1 DEF Slots
<1>3. (gs = <<>> <=> m = 0) /\ (Outer = <<>> <=> m = 0) /\ m \in Nat
  BY <1>1 DEF Stacks
<1>4. /\ \A k \in 1 .. m : Alike(frames[k], gs[k])
      /\ \A k \in 1 .. m - 1 : gs[k] = frames[k]
  <2>1. \A k \in 1 .. m - 1 : k \in 1 .. m
    BY <1>3
  <2> QED BY <1>1, <2>1
<1>5. ASSUME gs # <<>>, Owes(gs[m]) PROVE Owes(frames[m]) \/ q[gs[m].iso] # None
  <2>1. m \in 1 .. m
    BY <1>3, <1>5
  <2>2. Outer[m] = frames[m] /\ gs[m].iso = frames[m].iso
    BY <1>1, <1>4, <2>1 DEF Alike
  <2>3. Owes(Outer[m]) \/ (x # None /\ Outer[m].iso = TopIso)
    BY <1>1, <1>5
  <2> QED BY <1>1, <1>2, <2>2, <2>3
<1>6. ASSUME gs # <<>>, gs[m].kind = "js" PROVE Unwinds(gs[m]) <=> q[gs[m].iso] # None
  <2>1. m \in 1 .. m /\ Outer # <<>>
    BY <1>3, <1>6
  <2>2. Outer[m] = frames[m] /\ gs[m].iso = frames[m].iso /\ Outer[m].kind = "js"
    BY <1>1, <1>4, <1>6, <2>1 DEF Alike
  <2>3. frames[Level].kind = "native"
    BY <1>1, <2>1, <2>2, BelowFacts
  <2>4. Outer[m].iso = TopIso
    BY <1>1, <2>3, BelowFacts
  <2> QED BY <1>1, <1>2, <2>2, <2>3, <2>4
<1>7. /\ Len(gs) = Len(frames) - 1
      /\ q[f.iso] \in {None, pending[f.iso], Keeps(f)}
      /\ f.kind = "js" /\ Keeps(f) # None => q[f.iso] # None
  BY <1>1, <1>2
<1>8. /\ \A k \in 1 .. Len(gs) : Alike(frames[k], gs[k])
      /\ \A k \in 1 .. Len(gs) - 1 : gs[k] = frames[k]
      /\ gs # <<>> /\ Owes(gs[Len(gs)])
           => Owes(frames[Len(gs)]) \/ q[gs[Len(gs)].iso] # None
      /\ gs # <<>> /\ gs[Len(gs)].kind = "js"
           => (Unwinds(gs[Len(gs)]) <=> q[gs[Len(gs)].iso] # None)
  BY <1>4, <1>5, <1>6
<1>9. Popped(frames, pending, gs, q, frames[Len(frames)])
  BY <1>1, <1>2, <1>7, <1>8 DEF Popped
<1>10. Good(gs, q)
  BY <1>1, <1>2, <1>7, <1>9, PopGood
<1> QED BY <1>1, <1>2, <1>10, ExnFacts

(* It was no callback; who is below is told of a failure, or is not.       *)
LEMMA LeaveFrame ==
  ASSUME ExnInv, frames # <<>>, frames[Level].kind # "native",
         NEW told \in BOOLEAN, NEW x \in Slot, told => x # None,
         x \in {None, pending[TopIso], Keeps(frames[Level])},
         frames[Level].kind = "js" /\ Keeps(frames[Level]) # None => x # None,
         frames' = IF told THEN Failed(Outer, TopIso) ELSE Outer,
         pending' = [pending EXCEPT ![TopIso] = x],
         listeners' = listeners
  PROVE  ExnInv'
<1> PICK gs : gs = IF told THEN Failed(Outer, TopIso) ELSE Outer
  OBVIOUS
<1>1. Outer \in Stacks /\ (Outer # <<>> => Len(Outer) \in 1 .. Len(Outer))
  BY BelowFacts
<1>2. /\ gs \in Stacks /\ Len(gs) = Len(Outer)
      /\ \A k \in 1 .. Len(Outer) :
           /\ Alike(Outer[k], gs[k])
           /\ Owes(gs[k]) =>
                Owes(Outer[k]) \/ (told /\ k = Len(Outer) /\ Outer[k].iso = TopIso)
      /\ \A k \in 1 .. Len(Outer) - 1 : gs[k] = Outer[k]
  <2>1. CASE told
    BY <1>1, <2>1, FailedFacts
  <2>2. CASE ~ told
    BY <1>1, <2>2, SameAlike
  <2> QED BY <2>1, <2>2
<1>3. gs # <<>> => Outer # <<>>
  <2>1. \A s \in Stacks : s = <<>> <=> Len(s) = 0
    BY DEF Stacks
  <2> QED BY <1>1, <1>2, <2>1
<1>4. gs # <<>> /\ Owes(gs[Len(gs)])
        => Owes(Outer[Len(Outer)]) \/ (x # None /\ Outer[Len(Outer)].iso = TopIso)
  BY <1>1, <1>2, <1>3
<1>5. frames' = gs
  OBVIOUS
<1> QED BY <1>2, <1>4, <1>5, PopChange

(* A scope that is left hands on what it has rethrown.                     *)
LEMMA DestructStep ==
  ASSUME ExnInv, TryCatchDestruct
  PROVE  ExnInv'
<1> DEFINE tc == Capture(frames[Level])
           left == LeftPending(frames[Level])
           x == IF tc.rethrow THEN IF left = None THEN tc.caught ELSE left ELSE None
<1>1. /\ TopIs("try") /\ frames' = (IF tc.rethrow THEN Failed(Outer, TopIso) ELSE Outer)
      /\ pending' = [pending EXCEPT ![TopIso] = x] /\ listeners' = listeners
  BY DEF TryCatchDestruct
<1>2. /\ frames # <<>> /\ frames[Level].kind = "try"
      /\ Keeps(frames[Level]) = frames[Level].caught
  BY <1>1, TopTryFacts
<1>3. /\ x \in Slot /\ x \in {None, frames[Level].caught, pending[TopIso]}
      /\ tc.rethrow => x # None
      /\ tc.rethrow \in BOOLEAN
  BY <1>1, <1>2, TopTryFacts, CaptureFacts DEF Slot, TryFrame
<1> HIDE DEF x, tc
<1> QED BY <1>1, <1>2, <1>3, LeaveFrame

LEMMA JsReturnsStep ==
  ASSUME ExnInv, JsReturns
  PROVE  ExnInv'
<1> PICK x : x = IF frames[Level].saved = None THEN pending[TopIso] ELSE frames[Level].saved
  OBVIOUS
<1>1. TopIs("js") /\ frames' = Outer /\ listeners' = listeners
  BY DEF JsReturns, JavaScript
<1>2. /\ frames # <<>> /\ frames[Level].kind = "js"
      /\ Keeps(frames[Level]) = frames[Level].saved
      /\ Keeps(frames[Level]) \in Slot /\ pending[TopIso] \in Slot
      /\ pending \in Slots /\ TopIso \in Isolates
  BY <1>1, RunningFacts, BelowFacts, FrameParts DEF Slots
<1>3. pending' = [pending EXCEPT ![TopIso] = x]
  BY <1>2 DEF JsReturns, Slots
<1>4. /\ x \in Slot /\ x \in {None, pending[TopIso], Keeps(frames[Level])}
      /\ Keeps(frames[Level]) # None => x # None
  BY <1>2
<1> QED BY <1>1, <1>2, <1>3, <1>4, LeaveFrame

LEMMA JsFailsStep ==
  ASSUME ExnInv, Quiet(frames), JsFails
  PROVE  ExnInv'
<1> PICK x : x = pending[TopIso]
  OBVIOUS
<1>0. TopIs("js") /\ Level \in 1 .. Len(frames) /\ frames[Level].kind = "js"
  BY RunningFacts, BelowFacts DEF JsFails
<1>1. /\ TopIs("js") /\ frames[Level].throwing /\ frames' = Failed(Outer, TopIso)
      /\ pending' = pending /\ listeners' = listeners
  BY <1>0 DEF JsFails, Quiet
<1>2. /\ frames # <<>> /\ frames[Level].kind = "js" /\ x \in Slot /\ x # None
      /\ pending \in Slots /\ TopIso \in Isolates
  BY <1>1, RunningFacts, BelowFacts DEF Slots
<1>3. pending' = [pending EXCEPT ![TopIso] = x]
  BY <1>1, <1>2 DEF Slots
<1> QED BY <1>1, <1>2, <1>3, LeaveFrame

(* Nobody below has the empty handle.                                      *)
LEMMA NobodyTold ==
  ASSUME ExnInv, frames # <<>>, ~ Tells(frames, Level)
  PROVE  Failed(Outer, TopIso) = Outer
<1>1. /\ Level \in Nat \ {0} /\ TopIso = frames[Level].iso /\ Len(Outer) = Level - 1
      /\ Outer # <<>> => Len(Outer) \in 1 .. Len(Outer)
      /\ \A k \in 1 .. Len(Outer) : Outer[k] = frames[k]
  BY BelowFacts
<1>2. ASSUME Outer # <<>>
      PROVE  ~ (Outer[Len(Outer)].kind \in {"try", "native"} /\ Outer[Len(Outer)].iso = TopIso)
  BY <1>1, <1>2 DEF Tells
<1> QED BY <1>2 DEF Failed

LEMMA ListenerStep ==
  ASSUME ExnInv, Quiet(frames), ListenerReturns
  PROVE  ExnInv'
<1>1. /\ frames # <<>> /\ frames[Level].kind = "listener" /\ listeners' = listeners
  BY DEF ListenerReturns, TopIs
<1>2. CASE frames[Level].left > 1
  <2> PICK g : g = [frames[Level] EXCEPT !.left = @ - 1]
    OBVIOUS
  <2> PICK gs : gs = [frames EXCEPT ![Level] = g]
    OBVIOUS
  <2>1. /\ frames \in Stacks /\ pending \in Slots /\ listeners \in [Isolates -> Nat]
        /\ Good(frames, pending) /\ Level = Len(frames) /\ Level \in Nat \ {0}
        /\ frames[Level] \in ListenerFrame
    BY <1>1, BelowFacts, FrameKinds
  <2>2. frames' = gs /\ pending' = pending
    <3>1. Level \in DOMAIN frames
      BY <2>1 DEF Stacks
    <3> QED BY <1>2, <3>1 DEF ListenerReturns
  <2>3. g \in ListenerFrame /\ g.kind = "listener" /\ g.iso = frames[Level].iso
    BY <1>2, <2>1 DEF ListenerFrame
  <2>4. g \in Frame /\ Keeps(g) = None /\ StaleFor(g) = {} /\ ~ Rethrows(g) /\ ~ Owes(g)
    BY <2>3 DEF Frame, Keeps, StaleFor, Rethrows, Owes
  <2>5. /\ gs \in Stacks /\ Len(gs) = Len(frames) /\ gs[Len(frames)] = g
        /\ \A k \in 1 .. Len(frames) - 1 :
             /\ Alike(frames[k], gs[k])
             /\ Owes(gs[k]) <=> Owes(frames[k])
             /\ Unwinds(gs[k]) <=> Unwinds(frames[k])
    BY <1>1, <2>1, <2>4, TopReplaced
  <2>6. OnTop(frames, pending, gs, pending, frames[Len(frames)], gs[Len(frames)])
    BY <1>1, <2>1, <2>3, <2>4, <2>5 DEF OnTop
  <2>7. Good(gs, pending)
    BY <1>1, <2>1, <2>5, <2>6, TopGood
  <2> QED BY <1>1, <2>1, <2>2, <2>5, <2>7, ExnFacts
<1>3. CASE ~ (frames[Level].left > 1)
  <2>0. ~ Tells(frames, Level)
    BY <1>1, BelowFacts DEF Quiet
  <2>1. frames' = Outer /\ pending' = [pending EXCEPT ![TopIso] = None]
    BY <1>1, <1>3, <2>0, NobodyTold DEF ListenerReturns
  <2>2. None \in Slot
    BY DEF Slot
  <2> QED BY <1>1, <2>1, <2>2, LeaveFrame
<1> QED BY <1>2, <1>3

LEMMA ScriptStep ==
  ASSUME Uses = {}, ExnInv, Quiet(frames), ScriptFailsUncaught
  PROVE  ExnInv'
<1>1. /\ TopIs("js") /\ frames[Level].entry = "script" /\ listeners' = listeners
  BY DEF ScriptFailsUncaught
<1>2. /\ frames # <<>> /\ frames \in Stacks /\ pending \in Slots
      /\ listeners \in [Isolates -> Nat] /\ Good(frames, pending)
      /\ Level = Len(frames) /\ Level \in Nat \ {0}
      /\ TopIso \in Isolates /\ TopIso = frames[Level].iso
      /\ frames[Level].kind = "js" /\ Keeps(frames[Level]) = None /\ None \in Slot
  BY <1>1, RunningFacts, BelowFacts DEF Slot
<1>3. CASE listeners[TopIso] = 0
  <2>0. ~ Tells(frames, Level)
    <3>1. DOMAIN frames = 1 .. Level /\ Level \in 1 .. Level
      BY <1>2, StackFacts
    <3>2. ~ \E j \in 1 .. Level - 1 : frames[j].kind = "try"
      BY <1>2, <3>1 DEF ScriptFailsUncaught, HasActiveTryCatch
    <3> QED BY <1>1, <1>2, <3>1, <3>2 DEF Quiet
  <2>1. frames' = Outer /\ pending' = [pending EXCEPT ![TopIso] = None]
    BY <1>2, <1>3, <2>0, NobodyTold DEF ScriptFailsUncaught
  <2> QED BY <1>1, <1>2, <2>1, LeaveFrame
<1>4. CASE listeners[TopIso] # 0
  <2> PICK g : g = [kind |-> "listener", iso |-> TopIso, left |-> listeners[TopIso]]
    OBVIOUS
  <2> PICK gs : gs = Append(Outer, g)
    OBVIOUS
  <2>1. /\ frames' = gs
        /\ pending' \in {pending, [pending EXCEPT ![TopIso] = None]}
    BY <1>4 DEF ScriptFailsUncaught, ReportUncaught, ListenersOf, Push
  <2>2. g \in ListenerFrame /\ g.kind = "listener" /\ g.iso = frames[Level].iso
    BY <1>2, <1>4 DEF ListenerFrame
  <2>3. g \in Frame /\ Keeps(g) = None /\ StaleFor(g) = {} /\ ~ Rethrows(g) /\ ~ Owes(g)
    BY <2>2 DEF Frame, Keeps, StaleFor, Rethrows, Owes
  <2>4. /\ Outer \in Stacks /\ Len(Outer) = Len(frames) - 1
        /\ \A k \in 1 .. Len(Outer) : Outer[k] = frames[k]
    BY <1>2, BelowFacts
  <2>5. /\ gs \in Stacks /\ Len(gs) = Len(frames) /\ gs[Len(frames)] = g
        /\ \A k \in 1 .. Len(frames) - 1 : gs[k] = frames[k]
    BY <1>2, <2>3, <2>4 DEF Stacks
  <2>6. /\ pending' \in Slots /\ pending'[TopIso] \in {None, pending[TopIso]}
        /\ \A y \in Isolates : y # TopIso => pending'[y] = pending[y]
    BY <1>2, <2>1 DEF Slots
  <2> PICK q : q = pending'
    OBVIOUS
  <2>7. OnTop(frames, pending, gs, q, frames[Len(frames)], gs[Len(frames)])
    BY <1>2, <2>2, <2>3, <2>5, <2>6, SameAlike DEF OnTop
  <2>8. Good(gs, q)
    BY <1>2, <2>5, <2>6, <2>7, TopGood
  <2> QED BY <1>1, <1>2, <2>1, <2>5, <2>6, <2>8, ExnFacts
<1> QED BY <1>3, <1>4

(* The end of a callback: JavaScript below unwinds if something is pending.*)
LEMMA CallbackLeft ==
  ASSUME ExnInv, CallbackReturn
  PROVE  \E gs \in Stacks :
           /\ frames' = gs /\ Len(gs) = Len(Outer)
           /\ \A k \in 1 .. Len(Outer) : Alike(Outer[k], gs[k])
           /\ \A k \in 1 .. Len(Outer) - 1 : gs[k] = Outer[k]
           /\ ~ Owes(gs[Len(gs)])
           /\ Unwinds(gs[Len(gs)]) <=> pending[TopIso] # None
<1> PICK b : b = (pending[TopIso] # None)
  OBVIOUS
<1> PICK m : m = Len(Outer)
  OBVIOUS
<1> PICK g : g = [Outer[m] EXCEPT !.throwing = b]
  OBVIOUS
<1> PICK gs : gs = [Outer EXCEPT ![m] = g]
  OBVIOUS
<1>1. frames # <<>> /\ frames[Level].kind = "native"
  BY DEF CallbackReturn, TopIs
<1>2. /\ Outer \in Stacks /\ Outer[m].kind = "js" /\ m \in 1 .. m /\ m = Level - 1
      /\ pending \in Slots /\ TopIso \in Isolates
      /\ Outer[m] \in Frame /\ m = Len(Outer) /\ m \in Nat
      /\ frames[Level] \in Frame
  BY <1>1, BelowFacts, StackFacts
<1>3. frames' = gs /\ pending' = pending /\ listeners' = listeners
  <2>1. m \in DOMAIN Outer
    BY <1>2, StackFacts
  <2>2. /\ frames' = [Outer EXCEPT ![Level - 1].throwing = (pending[TopIso] # None)]
        /\ pending' = pending /\ listeners' = listeners
    BY DEF CallbackReturn
  <2>3. [Outer EXCEPT ![Level - 1].throwing = (pending[TopIso] # None)]
          = [Outer EXCEPT ![m].throwing = b]
    BY <1>2
  <2>4. [Outer EXCEPT ![m].throwing = b] = gs
    BY <2>1
  <2> QED BY <2>2, <2>3, <2>4
<1>4. g \in Frame /\ Alike(Outer[m], g) /\ (Unwinds(g) <=> b) /\ ~ Owes(g)
  BY <1>2, FrameKinds, JsThrowing
<1>5. /\ gs \in Stacks /\ Len(gs) = m /\ gs[m] = g
      /\ \A k \in 1 .. m - 1 : gs[k] = Outer[k]
  <2>a. \A s \in Stacks : s \in [1 .. Len(s) -> Frame]
    BY DEF Stacks
  <2>1. Outer \in [1 .. m -> Frame]
    BY <1>2, <2>a
  <2>2. gs \in [1 .. m -> Frame]
    BY <1>2, <1>4, <2>1
  <2>3. gs[m] = g
    BY <1>2, <2>1
  <2>4. \A k \in 1 .. m - 1 : gs[k] = Outer[k]
    BY <1>2, <2>1
  <2>b. \A s \in [1 .. m -> Frame] : s \in Stacks /\ Len(s) = m
    BY <1>2 DEF Stacks
  <2>5. gs \in Stacks /\ Len(gs) = m
    BY <2>2, <2>b
  <2> QED BY <2>3, <2>4, <2>5
<1>6. \A k \in 1 .. Len(Outer) : Alike(Outer[k], gs[k])
  <2>1. \A k \in 1 .. m : k = m \/ k \in 1 .. m - 1
    BY <1>2
  <2> QED BY <1>2, <1>4, <1>5, <2>1, SameAlike
<1>7. /\ Len(gs) = Len(Outer) /\ ~ Owes(gs[Len(gs)])
      /\ \A k \in 1 .. Len(Outer) - 1 : gs[k] = Outer[k]
      /\ Unwinds(gs[Len(gs)]) <=> pending[TopIso] # None
  BY <1>2, <1>4, <1>5
<1> QED BY <1>3, <1>5, <1>6, <1>7

LEMMA CallbackReturnStep ==
  ASSUME ExnInv, CallbackReturn
  PROVE  ExnInv'
<1> PICK x : x = pending[TopIso]
  OBVIOUS
<1>1. /\ frames # <<>> /\ frames[Level].kind = "native" /\ frames[Level].kind # "js"
      /\ pending' = pending /\ listeners' = listeners
  BY DEF CallbackReturn, TopIs
<1>2. PICK gs \in Stacks :
        /\ frames' = gs /\ Len(gs) = Len(Outer)
        /\ \A k \in 1 .. Len(Outer) : Alike(Outer[k], gs[k])
        /\ \A k \in 1 .. Len(Outer) - 1 : gs[k] = Outer[k]
        /\ ~ Owes(gs[Len(gs)])
        /\ Unwinds(gs[Len(gs)]) <=> pending[TopIso] # None
  BY CallbackLeft
<1>3. pending \in Slots /\ TopIso \in Isolates
  BY <1>1, BelowFacts
<1>4. /\ x \in Slot /\ x \in {None, pending[TopIso], Keeps(frames[Level])}
      /\ pending' = [pending EXCEPT ![TopIso] = x]
  BY <1>1, <1>3 DEF Slots
<1> QED BY <1>1, <1>2, <1>4, PopChange

-----------------------------------------------------------------------------
(* Frames of the same kinds, perhaps fewer.                                *)
LEMMA QuietPart ==
  ASSUME NEW fs \in Stacks, Quiet(fs), NEW gs \in Stacks, Len(gs) <= Len(fs),
         \A k \in 1 .. Len(gs) : /\ gs[k].kind = fs[k].kind /\ gs[k].iso = fs[k].iso
                                 /\ gs[k].kind = "js" => gs[k].entry = fs[k].entry
  PROVE  Quiet(gs)
<1> SUFFICES ASSUME NEW k \in 1 .. Len(gs)
             PROVE  /\ gs[k].kind = "js" => gs[k].entry # "report"
                    /\ gs[k].kind = "listener" => ~ Tells(gs, k)
                    /\ gs[k].kind = "js" /\ gs[k].entry = "script" /\ Tells(gs, k) =>
                         \E j \in 1 .. k - 1 : gs[j].kind = "try"
  BY DEF Quiet
<1>1. /\ Len(gs) \in Nat /\ Len(fs) \in Nat /\ k \in 1 .. Len(fs)
      /\ \A j \in 1 .. k - 1 : j \in 1 .. Len(gs)
  BY StackFacts
<1>2. Tells(gs, k) => Tells(fs, k)
  BY <1>1 DEF Tells
<1> QED BY <1>1, <1>2 DEF Quiet

LEMMA QuietAlike ==
  ASSUME NEW fs \in Stacks, Quiet(fs), NEW gs \in Stacks, Len(gs) = Len(fs),
         \A k \in 1 .. Len(gs) : Alike(fs[k], gs[k])
  PROVE  Quiet(gs)
<1>1. Len(gs) <= Len(fs)
  BY StackFacts
<1> QED BY <1>1, QuietPart DEF Alike

LEMMA QuietPush ==
  ASSUME NEW fs \in Stacks, Quiet(fs), NEW f \in Frame,
         f.kind # "listener", f.kind = "js" => f.entry # "report",
         f.kind = "js" /\ f.entry = "script" =>
           \/ fs = <<>>
           \/ fs[Len(fs)].kind \notin {"try", "native"}
           \/ fs[Len(fs)].iso # f.iso
           \/ \E j \in 1 .. Len(fs) : fs[j].kind = "try"
  PROVE  Quiet(Append(fs, f))
<1> DEFINE n == Len(fs)
           gs == Append(fs, f)
<1>1. /\ n \in Nat /\ Len(gs) = n + 1 /\ gs[n + 1] = f
      /\ \A k \in 1 .. n : gs[k] = fs[k]
      /\ fs = <<>> <=> n = 0
  BY DEF Stacks
<1> HIDE DEF gs
<1>2. ASSUME NEW k \in 1 .. n + 1
      PROVE  /\ gs[k].kind = "js" => gs[k].entry # "report"
             /\ gs[k].kind = "listener" => ~ Tells(gs, k)
             /\ gs[k].kind = "js" /\ gs[k].entry = "script" /\ Tells(gs, k) =>
                  \E j \in 1 .. k - 1 : gs[j].kind = "try"
  <2>1. CASE k \in 1 .. n
    <3>1. gs[k] = fs[k] /\ \A j \in 1 .. k - 1 : gs[j] = fs[j]
      BY <1>1, <2>1
    <3>2. Tells(gs, k) => Tells(fs, k)
      BY <2>1, <3>1 DEF Tells
    <3> QED BY <2>1, <3>1, <3>2 DEF Quiet
  <2>2. CASE k = n + 1
    <3>1. Tells(gs, k) => /\ fs # <<>> /\ fs[n].kind \in {"try", "native"}
                          /\ fs[n].iso = f.iso
      BY <1>1, <2>2 DEF Tells
    <3>2. k - 1 = n
      BY <1>1, <2>2
    <3> QED BY <1>1, <2>2, <3>1, <3>2
  <2> QED BY <1>1, <1>2, <2>1, <2>2
<1>3. Quiet(gs)
  BY <1>1, <1>2 DEF Quiet
<1> QED BY <1>3 DEF gs

(* The frame on top is replaced by one of its kind.                        *)
LEMMA QuietTop ==
  ASSUME frames \in Stacks, frames # <<>>, Quiet(frames), NEW g \in Frame,
         g.kind = frames[Level].kind, g.iso = frames[Level].iso,
         g.kind = "js" => g.entry = frames[Level].entry
  PROVE  Quiet([frames EXCEPT ![Level] = g])
<1> PICK gs : gs = [frames EXCEPT ![Level] = g]
  OBVIOUS
<1> PICK n : n = Len(frames)
  OBVIOUS
<1>0. Level = n /\ n \in Nat
  BY OuterFacts
<1>1. /\ gs \in Stacks /\ Len(gs) = n /\ gs[n] = g
      /\ \A k \in 1 .. n - 1 : Alike(frames[k], gs[k])
  BY TopReplaced
<1>2. ASSUME NEW k \in 1 .. n
      PROVE  /\ gs[k].kind = frames[k].kind /\ gs[k].iso = frames[k].iso
             /\ gs[k].kind = "js" => gs[k].entry = frames[k].entry
  <2>1. CASE k = n
    BY <1>0, <1>1, <2>1
  <2>2. CASE k \in 1 .. n - 1
    BY <1>1, <2>2 DEF Alike
  <2> QED BY <1>0, <2>1, <2>2
<1>3. Quiet(gs)
  <2>1. Len(gs) <= Len(frames)
    BY <1>0, <1>1
  <2> QED BY <1>1, <1>2, <2>1, QuietPart
<1> QED BY <1>3

(* The frame on top is left; those below may be told or unwind.            *)
LEMMA QuietLeft ==
  ASSUME ExnInv, Quiet(frames), frames # <<>>
  PROVE  /\ Quiet(Outer) /\ Quiet(Failed(Outer, TopIso))
         /\ \A gs \in Stacks :
              /\ Len(gs) = Len(Outer)
              /\ \A k \in 1 .. Len(Outer) : Alike(Outer[k], gs[k])
              => Quiet(gs)
<1>1. /\ frames \in Stacks /\ Len(frames) \in Nat \ {0}
      /\ Outer \in Stacks /\ Len(Outer) = Len(frames) - 1
      /\ \A k \in 1 .. Len(Outer) : Outer[k] = frames[k]
  BY BelowFacts
<1>2. Quiet(Outer)
  BY <1>1, QuietPart
<1>3. ASSUME NEW gs \in Stacks, Len(gs) = Len(Outer),
             \A k \in 1 .. Len(Outer) : Alike(Outer[k], gs[k])
      PROVE  Quiet(gs)
  <2>1. Len(gs) <= Len(Outer)
    BY <1>1, <1>3
  <2> QED BY <1>1, <1>2, <1>3, <2>1, QuietPart DEF Alike
<1>4. /\ Failed(Outer, TopIso) \in Stacks /\ Len(Failed(Outer, TopIso)) = Len(Outer)
      /\ \A k \in 1 .. Len(Outer) : Alike(Outer[k], Failed(Outer, TopIso)[k])
  BY <1>1, FailedFacts
<1> QED BY <1>2, <1>3, <1>4

(* What a step of the embedder does to the kinds of frames.                *)
LEMMA QuietEmbedder ==
  ASSUME Uses = {}, ExnInv, Quiet(frames), NEW i \in Isolates,
         \/ TryCatchConstruct(i)
         \/ \E e \in Exns : ThrowException(i, e)
         \/ ClearOwnError(i)
         \/ AddMessageListener(i)
         \/ FunctionCall(i)
         \/ \E entry \in {"script", "construct"} : Enter(i, entry)
  PROVE  Quiet(frames')
<1>1. frames \in Stacks /\ pending \in Slots /\ pending[i] \in Slot
  BY ExnFacts DEF Slots
<1>2. CASE TryCatchConstruct(i)
  <2> PICK f : f = [kind |-> "try", iso |-> i, caught |-> None, rethrow |-> FALSE,
                    owes |-> FALSE, stale |-> InFlight]
    OBVIOUS
  <2>1. f \in Frame /\ f.kind = "try"
    BY <1>1, InFlightType DEF Frame, TryFrame, Slot
  <2>2. frames' = Append(frames, f)
    BY <1>2 DEF TryCatchConstruct, Push
  <2> QED BY <1>1, <2>1, <2>2, QuietPush
<1>3. ASSUME NEW e \in Exns, ThrowException(i, e) PROVE Quiet(frames')
  <2> PICK gs : gs = Thrown(frames, e)
    OBVIOUS
  <2> PICK hs : hs = Failed(gs, i)
    OBVIOUS
  <2>1. /\ gs \in Stacks /\ Len(gs) = Len(frames) /\ Len(frames) \in Nat
        /\ \A k \in 1 .. Len(frames) : Alike(frames[k], gs[k])
    BY <1>1, ThrownFacts, StackFacts
  <2>2. /\ hs \in Stacks /\ Len(hs) = Len(gs)
        /\ \A k \in 1 .. Len(gs) : Alike(gs[k], hs[k])
    BY <2>1, FailedFacts
  <2>3. frames' = hs
    BY <1>3 DEF ThrowException
  <2>4. ASSUME NEW k \in 1 .. Len(hs) PROVE Alike(frames[k], hs[k])
    <3>1. Alike(frames[k], gs[k]) /\ Alike(gs[k], hs[k])
      BY <2>1, <2>2
    <3> QED BY <3>1 DEF Alike
  <2> QED BY <1>1, <2>1, <2>2, <2>3, <2>4, QuietAlike
<1>4. CASE ClearOwnError(i) \/ AddMessageListener(i)
  <2>1. frames' = frames
    BY <1>4 DEF ClearOwnError, AddMessageListener
  <2> QED BY <2>1
<1>5. CASE FunctionCall(i)
  <2> PICK f : f = [kind |-> "js", iso |-> i, entry |-> "call", saved |-> pending[i],
                    throwing |-> FALSE]
    OBVIOUS
  <2>1. f \in Frame /\ f.kind = "js" /\ f.entry = "call"
    BY <1>1 DEF Frame, JsFrame
  <2>2. frames' = Append(frames, f)
    BY <1>5 DEF FunctionCall, Push
  <2> QED BY <1>1, <2>1, <2>2, QuietPush
<1>6. ASSUME NEW entry \in {"script", "construct"}, Enter(i, entry) PROVE Quiet(frames')
  <2> PICK f : f = [kind |-> "js", iso |-> i, entry |-> entry, saved |-> None,
                    throwing |-> FALSE]
    OBVIOUS
  <2>1. f \in Frame /\ f.kind = "js" /\ f.entry = entry /\ f.iso = i
    BY DEF Frame, JsFrame, Slot
  <2>2. frames' = Append(frames, f)
    BY <1>6 DEF Enter, Push
  <2>3. ASSUME entry = "script", frames # <<>>, frames[Len(frames)].kind \in {"try", "native"},
               frames[Len(frames)].iso = i
        PROVE  \E j \in 1 .. Len(frames) : frames[j].kind = "try"
    <3>1. DOMAIN frames = 1 .. Len(frames) /\ Len(frames) \in 1 .. Len(frames)
      <4>1. Len(frames) \in Nat \ {0} /\ DOMAIN frames = 1 .. Len(frames)
        BY <1>1, <2>3, OuterFacts, StackFacts
      <4> QED BY <4>1
    <3>2. CASE frames[Len(frames)].kind = "try"
      BY <3>1, <3>2
    <3>3. CASE frames[Len(frames)].kind = "native"
      <4>1. TopIs("native") /\ TopIso = i
        BY <2>3, <3>3 DEF TopIs, TopIso, Level
      <4> QED BY <1>6, <2>3, <3>1, <4>1 DEF Enter, HasActiveTryCatch
    <3> QED BY <2>3, <3>2, <3>3
  <2> QED BY <1>1, <2>1, <2>2, <2>3, QuietPush
<1> QED BY <1>2, <1>3, <1>4, <1>5, <1>6

LEMMA QuietTry ==
  ASSUME ExnInv, Quiet(frames), HasCaught \/ Reset \/ ReThrow \/ TryCatchDestruct
  PROVE  Quiet(frames')
<1> PICK tc : tc = Capture(frames[Level])
  OBVIOUS
<1>1. /\ TopIs("try") /\ frames # <<>> /\ frames \in Stacks
      /\ frames[Level] \in TryFrame /\ TopIso = frames[Level].iso
      /\ tc \in TryFrame /\ tc.iso = TopIso
  BY TopTryFacts, CaptureFacts DEF HasCaught, Reset, ReThrow, TryCatchDestruct
<1>2. ASSUME NEW g \in TryFrame, g.iso = TopIso, frames' = [frames EXCEPT ![Level] = g]
      PROVE  Quiet(frames')
  <2>1. g \in Frame /\ g.kind = "try" /\ frames[Level].kind = "try"
    BY <1>1 DEF Frame, TryFrame
  <2> QED BY <1>1, <1>2, <2>1, QuietTop
<1>3. CASE HasCaught
  BY <1>1, <1>2, <1>3 DEF HasCaught
<1>4. CASE Reset
  <2> PICK g : g = [frames[Level] EXCEPT !.caught = None, !.owes = FALSE]
    OBVIOUS
  <2>1. g \in TryFrame /\ g.iso = TopIso
    BY <1>1 DEF TryFrame, Slot
  <2>2. frames' = [frames EXCEPT ![Level] = g]
    BY <1>1, <1>4, OuterFacts DEF Reset
  <2> QED BY <1>2, <2>1, <2>2
<1>5. CASE ReThrow
  <2> PICK g : g = [tc EXCEPT !.rethrow = TRUE]
    OBVIOUS
  <2>1. g \in TryFrame /\ g.iso = TopIso
    BY <1>1 DEF TryFrame
  <2>2. frames' = [frames EXCEPT ![Level] = g]
    BY <1>5 DEF ReThrow
  <2> QED BY <1>2, <2>1, <2>2
<1>6. CASE TryCatchDestruct
  <2>1. frames' \in {Outer, Failed(Outer, TopIso)}
    BY <1>6 DEF TryCatchDestruct
  <2> QED BY <1>1, <2>1, QuietLeft
<1> QED BY <1>3, <1>4, <1>5, <1>6

LEMMA QuietScript ==
  ASSUME Uses = {}, ExnInv, Quiet(frames), ScriptFailsUncaught \/ ListenerReturns
  PROVE  Quiet(frames')
<1>1. /\ frames # <<>> /\ frames \in Stacks /\ Level = Len(frames)
      /\ Level \in Nat \ {0} /\ TopIso \in Isolates /\ TopIso = frames[Level].iso
      /\ Outer \in Stacks /\ Len(Outer) = Level - 1
      /\ \A k \in 1 .. Level - 1 : Outer[k] = frames[k]
      /\ listeners \in [Isolates -> Nat] /\ frames[Level] \in Frame
  <2>1. frames # <<>>
    BY DEF ScriptFailsUncaught, ListenerReturns, TopIs
  <2> QED BY <2>1, BelowFacts
<1>2. CASE frames' \in {Outer, Failed(Outer, TopIso)}
  BY <1>1, <1>2, QuietLeft
<1>3. CASE ListenerReturns /\ frames[Level].left > 1
  <2> PICK g : g = [frames[Level] EXCEPT !.left = @ - 1]
    OBVIOUS
  <2>1. frames[Level].kind = "listener" /\ frames[Level] \in ListenerFrame
    BY <1>1, <1>3, FrameKinds DEF ListenerReturns, TopIs
  <2>2. g \in Frame /\ g.kind = "listener" /\ g.iso = frames[Level].iso
    BY <1>3, <2>1 DEF ListenerFrame, Frame
  <2>3. frames' = [frames EXCEPT ![Level] = g]
    <3>1. Level \in DOMAIN frames
      BY <1>1 DEF Stacks
    <3> QED BY <1>3, <3>1 DEF ListenerReturns
  <2> QED BY <1>1, <2>1, <2>2, <2>3, QuietTop
<1>4. CASE ScriptFailsUncaught /\ listeners[TopIso] # 0
  <2> PICK g : g = ListenersOf(TopIso)
    OBVIOUS
  <2> PICK gs : gs = Append(Outer, g)
    OBVIOUS
  <2> PICK n : n = Level
    OBVIOUS
  <2>1. frames' = gs
    BY <1>4 DEF ScriptFailsUncaught, ReportUncaught, Push
  <2>2. g.kind = "listener" /\ g.iso = TopIso
    BY DEF ListenersOf
  <2>3. /\ n \in Nat \ {0} /\ Len(gs) = n /\ gs[n] = g
        /\ \A k \in 1 .. n - 1 : gs[k] = Outer[k] /\ gs[k] = frames[k]
    BY <1>1 DEF Stacks
  <2>4. ~ Tells(frames, n)
    <3>1. /\ DOMAIN frames = 1 .. n /\ n \in 1 .. n
          /\ frames[n].kind = "js" /\ frames[n].entry = "script"
      BY <1>1, <1>4, StackFacts DEF ScriptFailsUncaught, TopIs
    <3>2. ~ \E j \in 1 .. n - 1 : frames[j].kind = "try"
      BY <1>4, <3>1 DEF ScriptFailsUncaught, HasActiveTryCatch
    <3> QED BY <1>1, <3>1, <3>2 DEF Quiet
  <2>5. ASSUME NEW k \in 1 .. n
        PROVE  /\ gs[k].kind = "js" => gs[k].entry # "report"
               /\ gs[k].kind = "listener" => ~ Tells(gs, k)
               /\ gs[k].kind = "js" /\ gs[k].entry = "script" /\ Tells(gs, k) =>
                    \E j \in 1 .. k - 1 : gs[j].kind = "try"
    <3>1. k = n \/ k \in 1 .. n - 1
      BY <2>3
    <3>2. CASE k = n
      <4>1. Tells(gs, n) => Tells(frames, n)
        BY <1>1, <2>2, <2>3 DEF Tells
      <4> QED BY <2>2, <2>3, <2>4, <3>2, <4>1
    <3>3. CASE k \in 1 .. n - 1
      <4>1. gs[k] = frames[k] /\ \A j \in 1 .. k - 1 : gs[j] = frames[j]
        BY <2>3, <3>3
      <4>2. Tells(gs, k) => Tells(frames, k)
        <5>1. k > 1 => k - 1 \in 1 .. k - 1
          BY <3>3
        <5> QED BY <4>1, <5>1 DEF Tells
      <4>3. k \in 1 .. Len(frames)
        BY <1>1, <3>3
      <4> QED BY <4>1, <4>2, <4>3 DEF Quiet
    <3> QED BY <3>1, <3>2, <3>3
  <2>6. Quiet(gs)
    BY <2>3, <2>5 DEF Quiet
  <2> QED BY <2>1, <2>6
<1>5. \/ frames' \in {Outer, Failed(Outer, TopIso)}
      \/ ListenerReturns /\ frames[Level].left > 1
      \/ ScriptFailsUncaught /\ listeners[TopIso] # 0
  BY DEF ScriptFailsUncaught, ListenerReturns
<1> QED BY <1>2, <1>3, <1>4, <1>5

LEMMA QuietJs ==
  ASSUME ExnInv, Quiet(frames),
         \/ \E e \in Exns : JsThrows(e)
         \/ JsCatches
         \/ CallbackEnter
         \/ CallbackReturn
         \/ JsReturns
         \/ JsFails
  PROVE  Quiet(frames')
<1>1. /\ frames # <<>> /\ frames \in Stacks /\ Level = Len(frames)
      /\ Level \in Nat \ {0} /\ TopIso \in Isolates /\ frames[Level] \in Frame
      /\ Outer \in Stacks /\ Len(Outer) = Level - 1 /\ pending \in Slots
      /\ DOMAIN frames = 1 .. Len(frames)
  <2>1. frames # <<>>
    BY DEF JsThrows, JsCatches, CallbackEnter, CallbackReturn, JsReturns, JsFails,
           JavaScript, TopIs
  <2> QED BY <2>1, BelowFacts, StackFacts
<1>2. ASSUME NEW b \in BOOLEAN, NEW fs \in Stacks, TopIs("js"),
             Len(fs) = Len(frames), fs[Level] = frames[Level],
             \A k \in 1 .. Len(frames) : Alike(frames[k], fs[k]),
             frames' = [fs EXCEPT ![Level].throwing = b]
      PROVE  Quiet(frames')
  <2> PICK g : g = [fs[Level] EXCEPT !.throwing = b]
    OBVIOUS
  <2> PICK gs : gs = [fs EXCEPT ![Level] = g]
    OBVIOUS
  <2>1. g \in Frame /\ Alike(frames[Level], g)
    BY <1>1, <1>2, FrameKinds, JsThrowing DEF TopIs
  <2>2. fs \in [1 .. Len(frames) -> Frame]
    BY <1>2 DEF Stacks
  <2>3. frames' = gs
    BY <1>1, <1>2, <2>2
  <2>4. gs \in Stacks /\ Len(gs) = Len(frames)
    <3>1. gs \in [1 .. Len(frames) -> Frame]
      BY <2>1, <2>2
    <3> QED BY <1>1, <3>1 DEF Stacks
  <2>5. \A k \in 1 .. Len(gs) : Alike(frames[k], gs[k])
    BY <1>1, <1>2, <2>1, <2>2, <2>4
  <2> QED BY <1>1, <2>3, <2>4, <2>5, QuietAlike
<1>3. ASSUME NEW e \in Exns, JsThrows(e) PROVE Quiet(frames')
  <2> PICK fs : fs = Thrown(frames, e)
    OBVIOUS
  <2>1. TopIs("js") /\ frames' = [fs EXCEPT ![Level].throwing = TRUE]
    BY <1>3 DEF JsThrows, JavaScript
  <2>2. /\ fs \in Stacks /\ Len(fs) = Len(frames) /\ fs[Level] = frames[Level]
        /\ \A k \in 1 .. Len(frames) : Alike(frames[k], fs[k])
    BY <1>1, <2>1, ThrownFacts DEF TopIs
  <2> QED BY <1>2, <2>1, <2>2
<1>4. CASE JsCatches
  <2>1. \A k \in 1 .. Len(frames) : Alike(frames[k], frames[k])
    BY <1>1, StackFacts, SameAlike
  <2> QED BY <1>1, <1>2, <1>4, <2>1 DEF JsCatches
<1>5. CASE CallbackEnter
  <2> PICK f : f = [kind |-> "native", iso |-> TopIso, owes |-> FALSE, stale |-> InFlight]
    OBVIOUS
  <2>1. f \in Frame /\ f.kind = "native"
    BY <1>1, InFlightType DEF Frame, NativeFrame
  <2>2. frames' = Append(frames, f)
    BY <1>5 DEF CallbackEnter, Push
  <2> QED BY <1>1, <2>1, <2>2, QuietPush
<1>6. CASE CallbackReturn
  <2>1. PICK gs \in Stacks :
          /\ frames' = gs /\ Len(gs) = Len(Outer)
          /\ \A k \in 1 .. Len(Outer) : Alike(Outer[k], gs[k])
    BY <1>6, CallbackLeft
  <2> QED BY <1>1, <2>1, QuietLeft
<1>7. CASE JsReturns \/ JsFails
  <2>1. frames' \in {Outer, Failed(Outer, TopIso)}
    BY <1>7 DEF JsReturns, JsFails
  <2> QED BY <1>1, <2>1, QuietLeft
<1> QED BY <1>3, <1>4, <1>5, <1>6, <1>7

-----------------------------------------------------------------------------
(* The stack of frames and the slots of the isolates go together: see      *)
(* ExnInv; and what Uses = {} leaves out does not happen: see Quiet.  This *)
(* is what OwnExceptionsOnly and FailureVisible rest on.                   *)
THEOREM ExnInvHolds ==
  ASSUME Uses = {} PROVE ExnSpec => [](ExnInv /\ Quiet(frames))
<1>0. ASSUME ExnInit PROVE Quiet(frames)
  BY <1>0 DEF ExnInit, Quiet
<1>1. ASSUME ExnInit PROVE ExnInv
  <2>1. /\ pending \in Slots /\ frames \in Stacks /\ listeners \in [Isolates -> Nat]
        /\ Len(frames) = 0
    BY <1>1 DEF ExnInit, Slots, Slot, Stacks
  <2>2. Good(frames, pending)
    BY <2>1 DEF Good
  <2> QED BY <2>1, <2>2, ExnFacts
<1>2. ASSUME ExnInv, Quiet(frames), [ExnNext]_exnVars PROVE ExnInv'
  <2>1. CASE UNCHANGED exnVars
    BY <1>2, <2>1, ExnFacts DEF exnVars
  <2>2. ASSUME NEW i \in Isolates, TryCatchConstruct(i) PROVE ExnInv'
    BY <1>2, <2>2, ConstructStep
  <2>3. ASSUME NEW i \in Isolates, NEW e \in Exns, ThrowException(i, e) PROVE ExnInv'
    BY <1>2, <2>3, ThrowStep
  <2>4. ASSUME NEW i \in Isolates, ClearOwnError(i) PROVE ExnInv'
    BY <1>2, <2>4, ClearStep
  <2>5. ASSUME NEW i \in Isolates, AddMessageListener(i) PROVE ExnInv'
    BY <1>2, <2>5, AddListenerStep
  <2>6. ASSUME NEW i \in Isolates, FunctionCall(i) PROVE ExnInv'
    BY <1>2, <2>6, CallStep
  <2>7. ASSUME NEW i \in Isolates, NEW entry \in {"script", "construct"}, Enter(i, entry)
        PROVE  ExnInv'
    BY <1>2, <2>7, EnterJsStep
  <2>8. CASE HasCaught
    BY <1>2, <2>8, HasCaughtStep
  <2>9. CASE Reset
    BY <1>2, <2>9, ResetStep
  <2>10. CASE ReThrow
    BY <1>2, <2>10, ReThrowStep
  <2>11. CASE TryCatchDestruct
    BY <1>2, <2>11, DestructStep
  <2>12. ASSUME NEW e \in Exns, JsThrows(e) PROVE ExnInv'
    BY <1>2, <2>12, JsThrowsStep
  <2>13. CASE JsCatches
    BY <1>2, <2>13, JsCatchesStep
  <2>14. CASE CallbackEnter
    BY <1>2, <2>14, CallbackStep
  <2>15. CASE CallbackReturn
    BY <1>2, <2>15, CallbackReturnStep
  <2>16. CASE JsReturns
    BY <1>2, <2>16, JsReturnsStep
  <2>17. CASE JsFails
    BY <1>2, <2>17, JsFailsStep
  <2>18. CASE ScriptFailsUncaught
    BY <1>2, <2>18, ScriptStep
  <2>19. CASE ListenerReturns
    BY <1>2, <2>19, ListenerStep
  <2> QED
    BY <1>2, <2>1, <2>2, <2>3, <2>4, <2>5, <2>6, <2>7, <2>8, <2>9, <2>10,
       <2>11, <2>12, <2>13, <2>14, <2>15, <2>16, <2>17, <2>18, <2>19 DEF ExnNext
<1>3. ASSUME ExnInv, Quiet(frames), [ExnNext]_exnVars PROVE Quiet(frames')
  <2>1. CASE UNCHANGED exnVars
    BY <1>3, <2>1 DEF exnVars
  <2> QED BY <1>3, <2>1, QuietEmbedder, QuietTry, QuietScript, QuietJs DEF ExnNext
<1>4. ASSUME ExnInv /\ Quiet(frames), [ExnNext]_exnVars
      PROVE  (ExnInv /\ Quiet(frames))'
  <2>1. ExnInv' /\ Quiet(frames')
    BY <1>2, <1>3, <1>4
  <2> QED BY <2>1
<1> QED BY <1>0, <1>1, <1>4, PTL DEF ExnSpec

(* Nobody is handed an exception older than what he does: neither a        *)
(* TryCatch, nor the JavaScript that a callback returns to, nor JavaScript *)
(* that is entered.  (Uses = {}: see Usages; whether JavaScript makes the  *)
(* text of an exception is the choice of the script that throws it.)       *)
THEOREM OwnExceptions == ASSUME Uses = {} PROVE ExnSpec => []OwnExceptionsOnly
<1>1. ASSUME ExnInv PROVE OwnExceptionsOnly
  <2>1. /\ frames \in Stacks /\ Good(frames, pending)
        /\ DOMAIN frames = 1 .. Len(frames) /\ Len(frames) \in Nat
        /\ Level = Len(frames)
    <3>1. frames \in Stacks /\ Good(frames, pending)
      BY <1>1, ExnFacts
    <3> QED BY <3>1, StackFacts DEF Level
  <2>2. \A k \in 1 .. Len(frames) : FreshIn(frames, pending, k)
    BY <2>1 DEF Good, FrameOK
  <2>3. ASSUME NEW k \in DOMAIN frames, frames[k].kind = "try"
        PROVE  frames[k].caught \notin frames[k].stale
    <3>1. k \in k .. Len(frames)
      BY <2>1
    <3>2. Keeps(frames[k]) \notin StaleFor(frames[k])
      BY <2>1, <2>2, <3>1 DEF FreshIn
    <3> QED BY <2>3, <3>2 DEF Keeps, StaleFor
  <2>4. ASSUME TopIs("try") \/ TopIs("native")
        PROVE  pending[TopIso] \notin frames[Level].stale
    <3>1. Level \in 1 .. Len(frames)
      <4>1. \A s \in Stacks : s = <<>> <=> Len(s) = 0
        BY DEF Stacks
      <4> QED BY <2>1, <2>4, <4>1 DEF TopIs
    <3>2. /\ pending[TopIso] \notin StaleFor(frames[Level])
          /\ frames[Level].kind \in {"try", "native"}
      BY <2>2, <2>4, <3>1 DEF FreshIn, TopIs, TopIso
    <3> QED BY <3>2 DEF StaleFor
  <2>5. JavaScript => pending[TopIso] = None
    BY <1>1, RunningFacts DEF JavaScript
  <2> QED BY <2>3, <2>4, <2>5 DEF OwnExceptionsOnly
<1> QED BY <1>1, ExnInvHolds, PTL

(* A failure that somebody was told of can still be caught by him, or goes *)
(* to the JavaScript that called him, whatever ran in between.  (Uses = {} *)
(* leaves out a script that a callback runs with no TryCatch open: when it *)
(* fails the code drops its exception.)                                    *)
THEOREM FailuresVisible == ASSUME Uses = {} PROVE ExnSpec => []FailureVisible
<1>1. ASSUME ExnInv PROVE FailureVisible
  <2>1. /\ Good(frames, pending)
        /\ DOMAIN frames = 1 .. Len(frames) /\ Len(frames) \in Nat
    BY <1>1, ExnFacts, StackFacts
  <2> SUFFICES ASSUME NEW k \in DOMAIN frames,
                      frames[k].kind \in {"try", "native"} /\ frames[k].owes
               PROVE  Visible(k)
    BY DEF FailureVisible
  <2> DEFINE above == { j \in DOMAIN frames : j > k /\ frames[j].iso = frames[k].iso }
  <2>2. SeesIn(frames, pending, k)
    BY <2>1 DEF Good, FrameOK, Owes
  <2>3. k \in 1 .. Len(frames)
    BY <2>1
  <2>4. CASE frames[k].kind = "try" /\ Keeps(frames[k]) # None
    BY <2>4 DEF Visible, Keeps
  <2>5. CASE /\ pending[frames[k].iso] # None
             /\ \A h \in k + 1 .. Len(frames) : frames[h].iso # frames[k].iso
    <3>1. \A j \in DOMAIN frames : j > k => j \in k + 1 .. Len(frames)
      BY <2>1, <2>3
    <3>2. above = {}
      BY <2>5, <3>1
    <3> QED BY <2>5, <3>2 DEF Visible
  <2>6. CASE \E j \in k + 1 .. Len(frames) :
               /\ frames[j].iso = frames[k].iso /\ frames[j].kind = "js"
               /\ Keeps(frames[j]) # None
               /\ \A h \in k + 1 .. j - 1 : frames[h].iso # frames[k].iso
    <3>1. PICK j \in k + 1 .. Len(frames) :
               /\ frames[j].iso = frames[k].iso /\ frames[j].kind = "js"
               /\ Keeps(frames[j]) # None
               /\ \A h \in k + 1 .. j - 1 : frames[h].iso # frames[k].iso
      BY <2>6
    <3>2. j \in above
      BY <2>1, <2>3, <3>1
    <3>3. ASSUME NEW h \in above PROVE j <= h
      <4>1. h \in Nat /\ h > k /\ frames[h].iso = frames[k].iso
        BY <2>1, <3>3
      <4>2. h < j => h \in k + 1 .. j - 1
        BY <2>3, <4>1
      <4> QED BY <2>3, <3>1, <4>1, <4>2
    <3>4. frames[j].saved # None
      BY <3>1 DEF Keeps
    <3> QED BY <3>1, <3>2, <3>3, <3>4 DEF Visible
  <2> QED BY <2>2, <2>4, <2>5, <2>6 DEF SeesIn
<1> QED BY <1>1, ExnInvHolds, PTL
=============================================================================
