--------------------------- MODULE ModuleLifecycle ---------------------------
(***************************************************************************)
(* ES modules of one isolate in the QuickJS backend                        *)
(* (src/quickjs/module.rs): the wrapper that is the embedder's Module, its *)
(* status and its definition in the engine, from CompileModule and         *)
(* CreateSyntheticModule over InstantiateModule to Evaluate.               *)
(*                                                                         *)
(* A module stands for its wrapper and for the definition its name leads   *)
(* to (the wrapper, MODULE_DEF_CACHE and the engine's list of loaded       *)
(* modules are one table here).  The engine walks the imports of a root    *)
(* depth first, runs each body once its imports are done, and leaves those *)
(* that wait for a top-level await to its job queue.  A body may call the  *)
(* embedder, which may use any of these functions again.                   *)
(***************************************************************************)
EXTENDS Integers, Sequences, SequencesExt, FiniteSets

CONSTANTS
  Modules,    \* names
  Synthetic,  \* those made by CreateSyntheticModule: no imports, no await
  Shapes,     \* import graphs: functions from modules to what they import
  MaxCalls    \* bound on the Evaluate calls in progress

ASSUME ModuleLifecycleAssumption ==
  /\ Synthetic \subseteq Modules
  /\ Shapes \subseteq [Modules -> SUBSET Modules]
  /\ \A f \in Shapes, m \in Synthetic : f[m] = {}
  /\ MaxCalls \in Nat \ {0}

VARIABLES
  imports,  \* the graph, fixed
  broken,   \* modules that do not link (an import that is not exported)
  status,   \* ModuleState::status of the wrapper, "none" before it is made
  engine,   \* status of the definition in the engine, "none" before
  runs,     \* how often a body was started
  calls,    \* Evaluate calls in progress, innermost last
  handed    \* what the last Evaluate of a module returned

wrapperVars == <<imports, broken>>
moduleVars == <<wrapperVars, status, engine, runs, calls, handed>>

-----------------------------------------------------------------------------
(* path: the walk from the root; open: definitions the walk has entered    *)
(* and not finished; body: the last one of the path is running.            *)
Call(m) == [root |-> m, path |-> <<>>, open |-> {}, body |-> FALSE]

Top == Last(calls)
Current == Last(Top.path)

EmbedderRuns == calls # <<>> => Top.body

Walking == calls # <<>> /\ ~Top.body

SetTop(c) == calls' = Front(calls) \o <<c>>

(* m and all it imports, directly or not: the least set with its imports.  *)
Closed(S) == \A x \in S : imports[x] \subseteq S

Graph(m) ==
  { d \in Modules : \A S \in SUBSET Modules : m \in S /\ Closed(S) => d \in S }

InCycle(m) == \E d \in imports[m] : m \in Graph(d)

Started == {"evaluating", "async", "evaluated", "failed"}

-----------------------------------------------------------------------------
(* v8__ScriptCompiler__CompileModule.                                      *)
CompileModule(m, links) ==
  /\ EmbedderRuns
  /\ m \notin Synthetic /\ status[m] = "none"
  /\ status' = [status EXCEPT ![m] = "Uninstantiated"]
  /\ broken' = IF links THEN broken ELSE broken \cup {m}
  /\ UNCHANGED <<imports, engine, runs, calls, handed>>

(* v8__Module__CreateSyntheticModule makes the definition at once.         *)
CreateSyntheticModule(m) ==
  /\ EmbedderRuns
  /\ m \in Synthetic /\ status[m] = "none"
  /\ status' = [status EXCEPT ![m] = "Uninstantiated"]
  /\ engine' = [engine EXCEPT ![m] = "unlinked"]
  /\ UNCHANGED <<wrapperVars, runs, calls, handed>>

(* A mutant of Definition: every instantiation compiles the source anew.   *)
DefinitionAnew(m) == "unlinked"

(* compile_module_for_instantiation, and load_module_by_name for the       *)
(* imports: a definition that exists is used again.                        *)
Definition(m) == IF engine[m] = "none" THEN "unlinked" ELSE engine[m]

Linked(m) == IF Definition(m) = "unlinked" THEN "linked" ELSE engine[m]

(* v8__Module__InstantiateModule; build_resolution_map has found a wrapper *)
(* for every import.  Only the root's wrapper changes.                     *)
InstantiateModule(m) ==
  /\ EmbedderRuns
  /\ \A d \in Graph(m) : status[d] # "none"
  /\ IF Definition(m) = "unlinked" /\ Graph(m) \cap broken # {}
       THEN /\ status' = [status EXCEPT ![m] = "Errored"]
            /\ engine' = [d \in Modules |->
                 IF d \in Graph(m) THEN Definition(d) ELSE engine[d]]
       ELSE /\ status' = [status EXCEPT
                 ![m] = IF @ = "Uninstantiated" THEN "Instantiated" ELSE @]
            /\ engine' = [d \in Modules |->
                 IF d \in Graph(m) THEN Linked(d) ELSE engine[d]]
  /\ UNCHANGED <<wrapperVars, runs, calls, handed>>

-----------------------------------------------------------------------------
(* What the embedder may evaluate: an instantiated module none of whose    *)
(* imports is being evaluated by a call further out.                       *)
MayEvaluate(m) ==
  /\ EmbedderRuns
  /\ status[m] # "Uninstantiated"
  /\ engine[m] \notin {"none", "unlinked"}
  /\ \A d \in Graph(m) \ {m} : engine[d] # "evaluating"

(* JS_EvalFunction: a definition that is only linked is walked, the others *)
(* answer with the promise they have.                                      *)
EvalFunction(m) ==
  /\ Len(calls) < MaxCalls
  /\ IF engine[m] = "linked"
       THEN /\ calls' = Append(calls,
                 [Call(m) EXCEPT !.path = <<m>>, !.open = {m}])
            /\ engine' = [engine EXCEPT ![m] = "evaluating"]
       ELSE /\ calls' = Append(calls, Call(m))
            /\ UNCHANGED engine

(* v8__Module__Evaluate of a source module: the status is set first.  In   *)
(* the middle of its own evaluation it is answered with a promise that is  *)
(* fulfilled.                                                              *)
Evaluate(m) ==
  /\ MayEvaluate(m) /\ m \notin Synthetic
  /\ status' = [status EXCEPT ![m] = "Evaluated"]
  /\ IF engine[m] = "evaluating"
       THEN /\ handed' = [handed EXCEPT ![m] = "fulfilled"]
            /\ UNCHANGED <<engine, calls>>
       ELSE EvalFunction(m) /\ UNCHANGED handed
  /\ UNCHANGED <<wrapperVars, runs>>

(* v8__Module__Evaluate of a synthetic module.                             *)
EvaluateSynthetic(m) ==
  /\ MayEvaluate(m) /\ m \in Synthetic
  /\ IF status[m] = "Evaluated"
       THEN /\ handed' = [handed EXCEPT ![m] = "fulfilled"]
            /\ UNCHANGED <<engine, calls>>
       ELSE EvalFunction(m) /\ UNCHANGED handed
  /\ UNCHANGED <<wrapperVars, status, runs>>

-----------------------------------------------------------------------------
(* The engine's walk: an import that was not visited ...                   *)
EnterImport(d) ==
  /\ Walking /\ Top.path # <<>>
  /\ d \in imports[Current] /\ engine[d] = "linked"
  /\ engine' = [engine EXCEPT ![d] = "evaluating"]
  /\ SetTop([Top EXCEPT !.path = Append(@, d), !.open = @ \cup {d}])
  /\ UNCHANGED <<wrapperVars, status, runs, handed>>

(* ... one that has failed, which fails all that the walk has open ...     *)
Fail ==
  /\ engine' = [d \in Modules |-> IF d \in Top.open THEN "failed" ELSE engine[d]]
  /\ SetTop(Call(Top.root))

ImportFailed ==
  /\ Walking /\ Top.path # <<>>
  /\ \E d \in imports[Current] : engine[d] = "failed"
  /\ Fail
  /\ UNCHANGED <<wrapperVars, status, runs, handed>>

ImportsDone ==
  /\ Walking /\ Top.path # <<>>
  /\ \A d \in imports[Current] : engine[d] \notin {"linked", "failed"}

(* ... or none: the body runs, for a synthetic module its evaluation steps *)
(* (synthetic_module_init_callback).                                       *)
StartBody ==
  /\ ImportsDone
  /\ \A d \in imports[Current] : engine[d] # "async"
  /\ runs' = [runs EXCEPT ![Current] = @ + 1]
  /\ SetTop([Top EXCEPT !.body = TRUE])
  /\ UNCHANGED <<wrapperVars, status, engine, handed>>

(* The walk leaves a module; the members of a cycle wait for the one that  *)
(* was entered first.                                                      *)
Leave(state) ==
  LET rest == Front(Top.path)
      waits == \E i \in DOMAIN rest : rest[i] \in Graph(Current)
      done == IF waits THEN {}
              ELSE { d \in Top.open : d \in Graph(Current) /\ Current \in Graph(d) }
  IN
  /\ engine' = [d \in Modules |-> IF d \in done THEN state ELSE engine[d]]
  /\ SetTop([Top EXCEPT !.path = rest, !.open = @ \ done, !.body = FALSE])

EndBody(outcome) ==
  /\ calls # <<>> /\ Top.body
  /\ outcome = "async" => Current \notin Synthetic /\ ~InCycle(Current)
  /\ IF outcome = "failed" THEN Fail ELSE Leave(outcome)
  /\ UNCHANGED <<wrapperVars, status, runs, handed>>

(* A module whose imports await does not run yet.                          *)
WaitForImports ==
  /\ ImportsDone /\ ~InCycle(Current)
  /\ \E d \in imports[Current] : engine[d] = "async"
  /\ Leave("async")
  /\ UNCHANGED <<wrapperVars, status, runs, handed>>

(* Jobs run when no call is in progress, or in drain_jobs of the outermost *)
(* one.  A failure reaches all that wait for the module.                   *)
JobsRun ==
  \/ calls = <<>>
  \/ Len(calls) = 1 /\ Top.path = <<>>

Settled(m, outcome) ==
  [d \in Modules |->
     IF d = m THEN outcome
     ELSE IF outcome = "failed" /\ engine[d] = "async" /\ m \in Graph(d)
       THEN "failed" ELSE engine[d]]

AwaitEnds(m, outcome) ==
  /\ JobsRun
  /\ engine[m] = "async" /\ runs[m] > 0 /\ outcome # "async"
  /\ engine' = Settled(m, outcome)
  /\ UNCHANGED <<wrapperVars, status, runs, calls, handed>>

RunAfterImports(m, outcome) ==
  /\ JobsRun
  /\ engine[m] = "async" /\ runs[m] = 0
  /\ \A d \in imports[m] : engine[d] = "evaluated"
  /\ runs' = [runs EXCEPT ![m] = @ + 1]
  /\ engine' = Settled(m, outcome)
  /\ UNCHANGED <<wrapperVars, status, calls, handed>>

-----------------------------------------------------------------------------
(* Mutants of IsEvaluated: the module was linked; it no longer awaits.     *)
IsLinked(m) == engine[m] \notin {"none", "unlinked"}

IsDone(m) == engine[m] \in {"evaluated", "failed"}

(* v82jsc_module_is_evaluated: true of what awaits and of what has failed. *)
IsEvaluated(m) == engine[m] \in {"async", "evaluated", "failed"}

(* A mutant of MarkAll: an error is not skipped.                           *)
MarkErrored ==
  [m \in Modules |-> IF status[m] # "none" /\ IsEvaluated(m) THEN "Evaluated"
                                                            ELSE status[m]]

(* mark_all_modules_evaluated.                                             *)
MarkAll ==
  [m \in Modules |->
     IF status[m] \notin {"none", "Errored"} /\ IsEvaluated(m) THEN "Evaluated"
                                                              ELSE status[m]]

(* The rest of v8__Module__Evaluate, after the jobs.                       *)
Return ==
  LET m == Top.root
      failed == engine[m] = "failed"
  IN
  /\ Walking /\ Top.path = <<>>
  /\ calls' = Front(calls)
  /\ status' = IF failed THEN [status EXCEPT ![m] = "Errored"]
               ELSE IF m \in Synthetic THEN [status EXCEPT ![m] = "Evaluated"]
               ELSE MarkAll
  /\ handed' = [handed EXCEPT ![m] = IF failed THEN "rejected" ELSE "engine"]
  /\ UNCHANGED <<wrapperVars, engine, runs>>

-----------------------------------------------------------------------------
Init ==
  /\ imports \in Shapes /\ broken = {}
  /\ status = [m \in Modules |-> "none"]
  /\ engine = [m \in Modules |-> "none"]
  /\ runs = [m \in Modules |-> 0]
  /\ calls = <<>>
  /\ handed = [m \in Modules |-> "none"]

Outcomes == {"evaluated", "async", "failed"}

Embedder(m) ==
  \/ CompileModule(m, TRUE) \/ CompileModule(m, FALSE)
  \/ CreateSyntheticModule(m) \/ InstantiateModule(m)
  \/ Evaluate(m) \/ EvaluateSynthetic(m)

Engine(m) ==
  \/ EnterImport(m)
  \/ \E o \in Outcomes : AwaitEnds(m, o) \/ RunAfterImports(m, o)

Next ==
  \/ \E m \in Modules : Embedder(m) \/ Engine(m)
  \/ \E o \in Outcomes : EndBody(o)
  \/ StartBody \/ WaitForImports \/ ImportFailed \/ Return

Spec == Init /\ [][Next]_moduleVars

-----------------------------------------------------------------------------
(* Types; the walk of a call runs along imports.                           *)
TypeOK ==
  /\ broken \subseteq Modules
  /\ status \in [Modules ->
       {"none", "Uninstantiated", "Instantiated", "Evaluated", "Errored"}]
  /\ engine \in [Modules -> {"none", "unlinked", "linked"} \cup Started]
  /\ runs \in [Modules -> Nat]
  /\ handed \in [Modules -> {"none", "fulfilled", "rejected", "engine"}]
  /\ Len(calls) <= MaxCalls
  /\ \A i \in DOMAIN calls :
       /\ calls[i].root \in Modules
       /\ calls[i].path \in Seq(calls[i].open)
       /\ calls[i].open \subseteq { m \in Modules : engine[m] = "evaluating" }

(* No body runs twice, whichever roots it is evaluated for: "fatal for     *)
(* modules with non-idempotent top-level side effects"                     *)
(* (patches/quickjs-01-module-introspection.patch).                        *)
BodyRunsOnce == \A m \in Modules : runs[m] <= 1

(* The embedder skips what is already evaluated, so a module that was only *)
(* compiled must not say so ("must stay Instantiated",                     *)
(* mark_all_modules_evaluated).                                            *)
EvaluatedHasStarted ==
  \A m \in Modules : status[m] = "Evaluated" => engine[m] \in Started

(* A rejection that Evaluate returned stays visible in the status, through *)
(* every later sweep, until the module is evaluated again.                 *)
RejectedIsErrored ==
  \A m \in Modules :
    handed[m] = "rejected" => \/ status[m] = "Errored"
                              \/ \E i \in DOMAIN calls : calls[i].root = m

(* When Evaluate has returned the engine's promise for a root, no module   *)
(* of its graph is offered for evaluation any more.                        *)
GraphFollowsRoot ==
  \A m \in Modules :
    handed[m] = "engine" =>
      \A d \in Graph(m) : status[d] \in {"Evaluated", "Errored"}

(* Evaluating a root marks its dependencies "but ONLY those"               *)
(* (mark_all_modules_evaluated).  The code does not keep this.             *)
MarksOwnGraphOnly ==
  [][\A m \in Modules :
       /\ Len(calls') < Len(calls)
       /\ status[m] # "Evaluated" /\ status'[m] = "Evaluated"
       => m \in Graph(Top.root)]_moduleVars
=============================================================================
