---------------------------- MODULE ModuleCaches ----------------------------
(***************************************************************************)
(* The module caches of the QuickJS backend (src/quickjs/module.rs).  The  *)
(* tables that belong to an isolate - compiled modules, wrappers, resolved *)
(* specifiers, host callbacks, the evaluation depth - are kept in          *)
(* thread-locals shared by every isolate of the thread.  set_current       *)
(* (core.rs) swaps them: switch_module_caches parks the tables of the      *)
(* isolate that was current and brings back those of the next one.         *)
(*                                                                         *)
(* An entry of a table is abstracted to the isolate that recorded it and   *)
(* which of the isolates that have lived at that address it was.           *)
(***************************************************************************)
EXTENDS IsolateStack

CONSTANT Generations  \* isolates told apart at one address (bound)

ASSUME ModuleCachesAssumption == Generations \in Nat \ {0}

VARIABLES
  active,  \* ACTIVE_MODULE_ISOLATE
  cache,   \* the thread-local tables
  parked,  \* MODULE_CACHE_STATES: the tables of isolates that are not current
  born     \* which isolate is at each address (history)

cacheVars == <<active, cache, parked, born>>
moduleVars == <<live, isoStack, current, last, currentCtx, handedOut, contexts,
                frames, active, cache, parked, born>>

Entries == Isolates \X (0 .. Generations - 1)

(* ModuleCacheState: `entries` stands for its tables, evalDepth for        *)
(* module_eval_depth.                                                      *)
CacheState == [entries : SUBSET Entries, evalDepth : Nat]

EmptyCache == [entries |-> {}, evalDepth |-> 0]

Without(f, i) == Restrict(f, DOMAIN f \ {i})

With(f, i, v) == [j \in DOMAIN f \cup {i} |-> IF j = i THEN v ELSE f[j]]

SwitchWithoutParking(act, tables, store, i) ==
  /\ active' = i
  /\ cache' = IF i = act THEN tables
              ELSE IF i \in DOMAIN store THEN store[i] ELSE EmptyCache
  /\ parked' = IF i = act THEN store ELSE Without(store, i)

(* switch_module_caches to i, from tables that belong to `act`: nothing    *)
(* when i is already active; what was recorded while no isolate was active *)
(* is dropped.                                                             *)
SwitchFrom(act, tables, store, i) ==
  LET kept == IF act = NoIso THEN store ELSE With(store, act, tables)
  IN /\ active' = i
     /\ IF i = act
        THEN cache' = tables /\ parked' = store
        ELSE /\ cache' = IF i \in DOMAIN kept THEN kept[i] ELSE EmptyCache
             /\ parked' = Without(kept, i)

DiscardActiveOnly(i, next) ==
  IF active = i THEN SwitchFrom(NoIso, EmptyCache, parked, next)
  ELSE SwitchFrom(active, cache, parked, next)

(* The end of Dispose: discard_module_caches(i) drops i's tables, wherever *)
(* they are, then remove_current_iso switches to `next`.                   *)
DiscardAndSwitch(i, next) ==
  LET left == Without(parked, i)
  IN IF active = i THEN SwitchFrom(NoIso, EmptyCache, left, next)
     ELSE SwitchFrom(active, cache, left, next)

-----------------------------------------------------------------------------
New(i) ==
  /\ IsolateNew(i)
  /\ born' = [born EXCEPT ![i] = (@ + 1) % Generations]
  /\ UNCHANGED <<active, cache, parked>>

(* Enter, Exit and HandleScope::CONSTRUCT all end in set_current.          *)
MakeCurrent ==
  /\ \E i \in Isolates : \/ IsolateEnter(i)
                         \/ IsolateExit(i)
                         \/ HandleScopeConstruct(i)
  /\ SwitchFrom(active, cache, parked, current')
  /\ UNCHANGED born

Dispose(i) ==
  /\ IsolateDispose(i)
  /\ DiscardAndSwitch(i, current')
  /\ UNCHANGED born

(* The calls that do not pass through set_current touch no table.          *)
KeepCurrent ==
  /\ \/ \E i \in Isolates : ContextNew(i)
     \/ \E c \in Ctx : ContextEnter(c) \/ CallbackEnter(c) \/ DispatchEnter(c)
     \/ HandleScopeDestruct
     \/ ContextExit
     \/ CallbackReturn
     \/ DispatchReturn
  /\ UNCHANGED cacheVars

(* An ABI call records something for the isolate it was handed: it was     *)
(* entered, or a scope of it is open.                                      *)
RecordEntry(i) ==
  /\ MayUse(i)
  /\ current = i
  /\ cache' = [cache EXCEPT !.entries = @ \cup {<<i, born[i]>>}]
  /\ UNCHANGED <<isoVars, active, parked, born>>

(* enter_module_eval: remember in the guard whether another evaluation of  *)
(* this isolate is under way (depth > 0); only the outermost one drains    *)
(* the job queue when it returns.                                          *)
EvaluateStart(i) ==
  /\ MayUse(i)
  /\ current = i
  /\ cache.evalDepth < MaxFrames
  /\ Open([kind |-> "eval", iso |-> i, ctx |-> NoCtx,
           depth |-> cache.evalDepth, outer |-> currentCtx])
  /\ cache' = [cache EXCEPT !.evalDepth = @ + 1]
  /\ UNCHANGED <<live, isoStack, current, last, currentCtx, handedOut,
                 contexts, active, parked, born>>

(* ModuleEvalGuard::drop, on the way out of an evaluation that returned or *)
(* threw: saturating_sub on whatever tables are in the thread-locals now.  *)
EvaluateEnd ==
  /\ Close("eval")
  /\ MayUse(Innermost.iso)
  /\ cache' = [cache EXCEPT !.evalDepth = IF @ = 0 THEN 0 ELSE @ - 1]
  /\ UNCHANGED <<live, isoStack, current, last, currentCtx, handedOut,
                 contexts, active, parked, born>>

-----------------------------------------------------------------------------
Init ==
  /\ IsolateStackInit
  /\ active = NoIso
  /\ cache = EmptyCache
  /\ parked = [i \in {} |-> EmptyCache]
  /\ born = [i \in Isolates |-> 0]

Next ==
  \/ \E i \in Isolates : New(i) \/ Dispose(i) \/ RecordEntry(i)
                         \/ EvaluateStart(i)
  \/ MakeCurrent
  \/ KeepCurrent
  \/ EvaluateEnd

Spec == Init /\ [][Next]_moduleVars

-----------------------------------------------------------------------------
TypeOK ==
  /\ IsolateStackTypeOK
  /\ active \in Isolates \cup {NoIso}
  /\ cache \in CacheState
  /\ DOMAIN parked \subseteq Isolates
  /\ parked \in [DOMAIN parked -> CacheState]
  /\ born \in [Isolates -> 0 .. Generations - 1]

(* The tables of an isolate are in one place only: in the thread-locals    *)
(* when it is current, in the map when it is not; and the map never keeps  *)
(* tables of a disposed isolate, whose values died with its runtime and    *)
(* whose address the next isolate may get.                                 *)
TablesInOnePlace ==
  /\ active = current
  /\ DOMAIN parked \subseteq live \ {active}

(* The tables an isolate sees hold its own entries only - not those of     *)
(* another isolate of the thread, nor of an earlier one at its address.    *)
OwnEntriesOnly ==
  /\ \A i \in DOMAIN parked : parked[i].entries \subseteq {<<i, born[i]>>}
  /\ cache.entries \subseteq
       (IF active = NoIso THEN {} ELSE {<<active, born[active]>>})

EvalFrames(i) == { k \in DOMAIN frames : frames[k].kind = "eval"
                                         /\ frames[k].iso = i }

TablesOf(i) == IF active = i THEN cache
               ELSE IF i \in DOMAIN parked THEN parked[i] ELSE EmptyCache

(* An isolate's evaluation depth is the number of its evaluations under    *)
(* way, also while another isolate has been entered and evaluates modules  *)
(* of its own inside one of them; so exactly the outermost evaluation of   *)
(* each isolate drains its jobs.                                           *)
EvalDepthMatchesFrames ==
  /\ \A i \in Isolates : TablesOf(i).evalDepth = Cardinality(EvalFrames(i))
  /\ \A i \in Isolates : \A k \in EvalFrames(i) :
       frames[k].depth = 0 <=> \A j \in EvalFrames(i) : k <= j

(* Every isolate has private caches: the swapped thread-locals implement   *)
(* the abstract specification.                                             *)
Private == INSTANCE PrivateCaches
           WITH alive <- live, running <- current,
                caches <- [i \in Isolates |-> TablesOf(i).entries]

ImplementsPrivateCaches == Private!PrivateSpec
=============================================================================
