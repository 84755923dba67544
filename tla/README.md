# TLA+ models of v8x

v8x implements the C++ ABI that the `rusty_v8` crate (Deno's binding to V8)
links against, on top of other engines: QuickJS (`src/quickjs/`) and
JavaScriptCore (`src/jsc/`). The engines do the JavaScript; what v8x adds, and
what can go wrong in it, is bookkeeping: which isolate and context a call acts
on, who owns which reference count, when a handle dies, which thread may touch
which isolate. This directory models that bookkeeping, model-checks it with TLC
and proves parts of it with TLAPS. Paths below are relative to the repository;
code without a directory is in `src/quickjs/`.

## 1. The system

### Components, their state and their operations

| Component | State | Operations | Model |
|---|---|---|---|
| Current isolate and context (`core.rs`) | thread-locals `CURRENT_ISO`, `CURRENT_CTX`, `ISO_STACK`, `LAST_ISO`; `IsoState::contexts` | `Isolate::{New,Enter,Exit,Dispose}`, `HandleScope::{CONSTRUCT,DESTRUCT}`, `Context::{New,Enter,Exit}`, interceptors, `dispatch` | `IsolateStack` |
| Module caches (`module.rs`) | thread-local tables, `MODULE_CACHE_STATES`, `ACTIVE_MODULE_ISOLATE`, evaluation depth | `switch_module_caches`, `discard_module_caches`, `enter_module_eval` and its guard, writers of the tables | `ModuleCaches`, `PrivateCaches` |
| Handle arena (`core.rs`, `function.rs`, `misc.rs`) | `IsoState::handles`, persistent cells, escape slots, return slots, engine reference counts | `intern`, `Local::New`, `Global::{New,Reset}`, scopes, escapes, `dispatch`, fast calls, `ReturnValue` | `HandleArena` |
| Atomics waiters (`core.rs`, `init.rs`) | process-wide registry (queues, ready lists), life-cycle lock, resolvers, posted tasks | `Atomics.waitAsync`/`notify` shims, time-outs, drains, `PumpMessageLoop`, `Dispose` | `AtomicsWaiters` |
| Weak handles (`misc.rs`) | `IsoState::weak_handles`, weak cells, native `WeakRef`s | `NewWeak`, `Reset`, the requested collection and its callbacks | `WeakHandles` |
| Termination and interrupts (`isolate.rs`, `function.rs`, `wasm.rs`, `inspector.rs`) | the flag `terminating`, a queue under a lock, `active_wasm_func`, the exceptions of WAMR's instances | `TerminateExecution`, `CancelTerminateExecution`, `RequestInterrupt`, the interrupt handler, `dispatch`, `call_export`, `TerminationSuppression` | `Termination` |
| Near-heap limit (`isolate.rs`) | the callback, its limit and the flag that it runs; the engine's cap | `{Add,Remove}NearHeapLimitCallback`, `memory_limit_handler`, the end of a script | `HeapLimit` |
| JSC watchdog (`src/jsc/terminate.rs`) | per-isolate flags, heap poll, callback slot | polls, terminate, heap callback | not modelled |
| Backing stores and allocators (`arraybuffer.rs`, `allocator.rs`) | `BsInner` boxes with counts, the alias and the owner registry, pending frees | `ArrayBuffer::{New,GetBackingStore,Detach}`, stores and their references, the free function, moving off the engine's memory at `Dispose` | `BackingStores` |
| Modules proper (`module.rs`) | wrappers and their status, definitions in the engine | compile, create synthetic, instantiate, evaluate | `ModuleLifecycle` (caches and nesting: `ModuleCaches`) |
| Microtasks, continuation data (`isolate.rs`, `module.rs`, `init.rs`) | job queues, `JOBS_DRAINING`, policies, `continuation_data` | enqueue, checkpoint, pump, drains of scripts and evaluations | `Jobs` (promise hooks and `MicrotaskQueue`s: not modelled) |
| Exceptions (`exception.rs`, `function.rs`, `core.rs`) | one pending exception per runtime, the thread's stack of TryCatches, message listeners | `TryCatch::{CONSTRUCT,DESTRUCT,HasCaught,Reset,ReThrow}`, `ThrowException`, `Function::{Call,NewInstance}`, `Script::Run`, `dispatch`, `AddMessageListener` | `Exceptions` |
| Snapshots (`snapshot.rs`) | contexts and data added to a creator | the order of `SnapshotCreator` calls; encoding | not modelled |
| Inspector (`inspector.rs`), crdtp (`src/crdtp_shim.rs`) | sessions, pause state; dispatchers by domain | connect, dispatch, pause, resume | the termination flag in `Termination`, else not modelled |
| WebAssembly (`wasm.rs`) | streaming state, WAMR instances | streaming compilation, calls | calls in `Termination` |
| Serializer, values, objects, strings, properties, Temporal | none of their own | one conversion or engine call each | not modelled |
| JSC: the same components on JavaScriptCore (`src/jsc/`) | protection counts, watermarks, the same thread-locals | as above | not modelled |
| Engine patches, generated bindings, vendored code, site, build tools | - | - | not modelled |

`PROJECT.json` lists the same components with their files and what is left out
of each.

### How they interact

Nearly every ABI function finds its isolate with `current_iso()`, not through
its arguments, so the arena, the caches and the callbacks all act on what
`IsolateStack` calls `current`. `set_current` is the hub: it changes the
current isolate, refreshes the cached context and swaps the module caches.
Calls go both ways: JavaScript calls native callbacks (`dispatch`, the
interceptors, fast calls, finalizers, GC callbacks), which open scopes, enter
contexts and other isolates, and call JavaScript again. All of that nests on
one thread. Isolates of different threads meet in three places only: the
Atomics registry with its two locks and posted tasks, the shared memory and
reference counts of backing stores, and `IsolateHandle` (termination and
interrupts).

### What is hard

* nesting: every scope and callback restores a depth it saved, whatever was
  opened and closed in between, possibly with another isolate current;
* addresses are reused: isolates, cells and registry entries are found by
  address, and the next isolate may get the address of a disposed one;
* ownership is by convention: a slot owns one count, a return slot borrows,
  a fast call's result has none;
* callbacks run in the middle: GC epilogue callbacks and finalizers run
  between the steps of a sweep, which holds its records outside the isolate;
* threads: `notify` decides under one lock and posts after it is released; a
  termination is a flag, a look at the active call and a mark, with the
  isolate's thread running in between; a backing store is looked up in one
  step and counted in the next;
* status is kept twice: a module's wrapper has a copy of what the engine
  knows, brought up to date by sweeps over all modules;
* jobs run inside jobs: a drain is left to a call further out, found through
  a depth that is swapped with the isolate and a flag that all isolates of the
  thread share;
* a runtime has one slot for a pending exception, which calls, callbacks,
  listeners and any number of TryCatches share.

`PROJECT.json` lists these, one per line of code where they bite, as `hazards`,
with the properties that watch them.

### What makes each component correct

* *Current isolate and context*: no thread-local points to a disposed isolate;
  with nested use the current isolate is the innermost entered one, the cached
  context is its innermost context, and closing restores what opening found.
* *Module caches*: each isolate sees exactly its own tables.
* *Handle arena*: each slot, cell and engine reference owns one count; a handle
  is good until its scope closes; nothing outlives its scope.
* *Atomics waiters*: a pending promise is in exactly one list; a notified one
  is resolved; nobody posts to a freed isolate; nobody waits for ever.
* *Weak handles*: records and cells match; survivors read their target again;
  a weak handle keeps nothing alive
  through a collection.
* *Termination*: a termination stops whatever runs unless it is cancelled; no
  request is lost; an interrupt runs once.
* *Near-heap limit*: the cap lifted for a callback comes back; the callback
  is not entered twice; nothing fails near the limit before it was asked.
* *Backing stores*: counts are exact; a block of bytes has one owner; what is
  looked up is there when it is used; nothing points into a freed isolate.
* *Modules*: a body runs once; a wrapper never says more than the engine has
  done, and never less when an evaluation of its graph has returned.
* *Jobs*: a job finds the data of its own task; every job runs; the last
  evaluation of an isolate leaves none of its jobs.
* *Exceptions*: nobody is handed an exception that is older than what it does;
  a failure the embedder was told of can still be caught when it looks.

## 2. The modules and the code

**`IsolateStack`** - one thread, several isolates. `live`, `isoStack`,
`current`, `last`, `currentCtx` and `contexts` are the variables of `core.rs`;
`handedOut` counts contexts; `frames` is what the embedder has open. There is
one action for each entry point; `SetCurrent` is `set_current` without the
cache switch, and is a conjunct of each action whose code calls it.
`CONSTRUCT` makes its isolate current and `DESTRUCT` leaves it, as in the
code. `Strict` selects the embedder's discipline: with it, isolates are used
strictly nested, as `rusty_v8`'s `OwnedIsolate` does; without it, in any order.
The positions of `isoStack` only order the entries (removing one leaves a
gap), which keeps removal simple to reason about.

**`ModuleCaches`** EXTENDS it: the same actions, each joined with what
`set_current` and `Dispose` do to the tables. A table entry is abstracted to
the isolate that recorded it and which of the isolates at that address it was
(`born`, a history variable). `EvaluateStart` and `EvaluateEnd` are
`enter_module_eval` and the drop of its guard, which decrements whatever
tables are in the thread-locals then, saturating. **`PrivateCaches`** is the
abstract specification: every isolate has caches of its own; `ModuleCaches`
implements it under a refinement mapping that looks an isolate's tables up in
the thread-locals or in the map (`TablesOf`).

**`HandleArena`** - one isolate. `rc` is the engine's reference count of each
value, `heap` the part of it the engine itself holds, `arena` and `cells` the
slots, `frames` the open scopes and calls with the depth, escape slot and
return slot each keeps, `locals` the handles the embedder may still use;
`leaked` are counts nobody owns any more: of an empty string a callback returned,
and of the External or BigInt a fast call made before its exception was seen.
`Uses` switches on three uses of the
API that the code does not get quite right: the run `arena` has the two that
only leave something behind, and leaves out the one that loses a value (below).

**`AtomicsWaiters`** - one thread per isolate; a critical section of the
registry is one step, and `notify` is five: call, life-cycle lock, move (under
the registry lock), one post per target, return. `Dispose` and the drain are
split likewise. Tasks carry an address and may run when the isolate is gone or
has been replaced. `custom`, chosen once, says whether the platform is a custom
one; on a default one the post does nothing and only `PumpMessageLoop` drains. A
queue is a set: ids are drawn before the registry is locked, so which waiters are
in front is left open.

**`WeakHandles`** - one isolate. A collection is `RequestGC` (counts of weak
cells released, cycles collected), the epilogue callbacks, `CollectStart`,
then one step per record, then `CollectEnd`; in the phases `epilogue` and
`finalizer` the embedder's actions are enabled too. `leaked` collects counts
that are overwritten. `Objects` are the values that have a native WeakRef.
`Reset` removes the first record of its cell, as the search in the code does.

**`Termination`** - one isolate and the threads that stop it. `stack` is what
the isolate's thread runs: JavaScript, native code, calls of WebAssembly
exports, a poll with the interrupts it has taken, the inspector's dispatch;
`thrown` is the exception on its way out of the top frame. `TerminateExecution`
is three steps (set the flag, load `active_wasm_func`, mark its instance), a
call of an export four (swap the active call, clear the instance's exception,
ask for the flag, run). `requested` and `delivered` are history variables.
`Events` names the cases in which termination does not work as the comments
say; the actions they concern are guarded with them.

**`BackingStores`** - one isolate per thread. `store`, `aliases`, `owners`,
`pending` and `external` are the boxes, the two registries and the isolate's
list and accounting; `buf` are the engine's buffers, `refs` the shared
references each thread holds, `pc` and `todo` the operation a thread is in the
middle of. `backing_store_for_buffer` is two steps (look up, count in), the
free function two when it is not the last (give back, forget the isolate),
destruction one of its own, `Detach` and `Dispose` one per alias they move.
Between the two steps of a free function any other thread may give back the
last count and destroy the store, and the box may be used again: the second step
then writes to nothing, or into another store. The look-up without an owner ends
with the script-visible property `resizable` and the registration of the alias.
Bytes are not modelled, only who owns the block. `Uses` switches on four uses
that break a property (below).

**`ModuleLifecycle`** - the modules of one isolate. `status` is
`ModuleState::status` of the wrapper, `engine` the status of the definition,
`calls` the calls of `Evaluate` in progress with the walk of the engine that
each has started. Name, wrapper and definition are one, which is what the
module's caches establish. The walk of the engine (imports depth first, bodies,
cycles, top-level await) is external and follows the standard; `Graph` is the
least set that has the root and the imports of what it has. The actions of
`module.rs` are `CompileModule`, `CreateSyntheticModule`, `InstantiateModule`,
`Evaluate`, `EvaluateSynthetic` and `Return`, with `mark_all_modules_evaluated`
as `MarkAll`. A body may call the embedder, which may do all of this again.

**`HeapLimit`** - one isolate. `limit` and `inCallback` are
`near_heap_limit_current` and `near_heap_limit_in_callback`, `cap` and `heap`
the engine's limit and use; `stack` are the handlers and callbacks in
progress. `Drive` is `maybe_drive_near_heap_limit_callback` up to the call of
the callback, `Resume` the rest of it.

**`Jobs`** - the isolates of one thread. A frame of `stack` is code of an
isolate (script, job, module) or a loop that drains its queue; `Nested` is the
isolate's `MODULE_EVAL_DEPTH` (swapped by `set_current`; an evaluation begins and
ends with its isolate current) and `Draining` the thread's `JOBS_DRAINING`, both
read off the stack. A job is what the engine captured with it (`capture_job_context`);
code runs for a task, and only writes that task into the continuation data.

**`Exceptions`** - the isolates of one thread. `pending` is the exception slot
of each runtime; a frame of `frames` is a TryCatch with the words of its
buffer, a native callback, JavaScript with what its call has set aside, or a
message listener. The innermost frame says whether the embedder or JavaScript
acts. Two fields of the frames are history: `stale`, the exceptions older than
the frame, and `owes`, that a call in it has failed and nobody has looked. A
script that fails with no TryCatch on the thread is reported to the listeners
and its exception dropped; the frame that ran it has an empty handle, and owes,
all the same. `Uses` switches on five uses that break a property (below).

`PROJECT.json`'s `map` gives the lines each definition stands for.

## 3. The runs

| Run | Result | What it shows |
|---|---|---|
| `nested_isolates` | passes | strict nesting, two isolates, two contexts each, three open frames: the current isolate and context follow the nesting, closing restores the context, the caches implement `PrivateCaches` |
| `any_order` | passes | isolates used in any order, each address used twice, `ISO_STACK` three deep: no dangling isolate, tables in one place, own entries only |
| `arena` | passes | exact counts, valid handles, owned return values and restored depths over scopes, escapes, globals, callbacks and fast calls, three frames deep, with an empty-string result and fast calls that return early, make a value or throw |
| `waiters` | passes | two threads, a custom platform or a default one: waiters in one place, no post to a freed isolate, calls return; notified promises are resolved, by the posted task or, where posts do nothing, if their thread goes on pumping |
| `weak` | passes | collections with callbacks between their steps: records match cells, survivors are restored, weak handles still to be looked at keep nothing |
| `termination` | passes | two threads, two instances, six frames: no request is lost or comes back, the active call is the innermost one, interrupts run once, and a termination stops all that runs |
| `backing` | passes | two threads, one with a Rust allocator, two stores, two buffers, three blocks: counts and registries exact, one owner per block, no use of what is gone, stores destroyed at home but in one known window, nothing left that points into a disposed isolate |
| `modules` | passes | three import graphs (a chain that ends in a synthetic module, two roots that share imports, a cycle), evaluations nested two deep: bodies run once, wrappers agree with the engine, rejections stay |
| `modules_marks` | violation | evaluating a root marks a failed module of another graph as evaluated |
| `heap_limit` | passes | callbacks that raise, remove, allocate or panic, four frames deep: the cap follows the limit, one callback at a time, asked before failing |
| `jobs` | passes | two isolates, one with policy Auto, two tasks, two jobs, code two deep: own data, no job left by the last evaluation of an isolate (outside another's drain), every job runs |
| `exceptions` | passes | two isolates, three exceptions, five frames: own exceptions only, and what failed can still be caught, over scopes, rethrows, calls, callbacks, scripts and listeners |

The type invariants are not among the runs' properties. They are theorems for
`IsolateStack`, `ModuleCaches`, `HandleArena`, `AtomicsWaiters`, `Termination`,
`HeapLimit`, `Jobs`, `ModuleLifecycle` and, with `Uses = {}`, `WeakHandles`.
For `BackingStores` and `Exceptions` the inductive invariants have them but for
one bound each, on sums: that `external` is not negative, and that no isolate
has more listeners than there are. Those hold in the same instances when they
are added to the configurations.

**Known disagreements.** `modules_marks` refutes a sentence of a comment;
`findings` in `PROJECT.json` quotes it. The others below were found in the same
way: a use, an event or a property is left out of the passing runs because the
code does not get it right, and adding it makes TLC show how.

* `IsolateStack`, property `CallbackSeesItsContext`: `dispatch` pushes no
  context, so a function of one context called while another is entered runs
  with the latter as the current one (`function.rs:2153`).
* `HandleArena`, `Uses`: `inner_return`, a return value that is a local of a
  scope the callback has closed, is owned by nobody (`ReturnValueOwned`,
  `function.rs:4127`). The other two are in the run `arena`: `empty_string`,
  `SetEmptyString` stores a counted string in a slot that otherwise borrows, and
  the count stays behind (`leaked`, `function.rs:5620`); `fast_mismatch`, a fast
  call whose argument does not convert returns early and leaves its receiver's
  slots to the scope around it (`function.rs:2383`). Always in the model: a fast
  call that leaves an exception pending overwrites the External or BigInt it has
  made, whose count stays behind as well (`leaked`, `function.rs:2555`).
* `WeakHandles`, `Uses`: `finalizer_reset`, a finalizer drops a weak handle
  whose record the sweep has taken, and the sweep goes on with a freed cell
  (`RecordsMatchCells`, `misc.rs:192`); `epilogue_new`, a weak handle made by a
  GC epilogue callback owns its target when the sweep overwrites the cell
  (`OneCountPerCell`).
* `Termination`, `Events`: `late_mark`, the call a terminating thread has found
  ends before its instance is marked, and the WebAssembly call below runs on
  (`wasm.rs:1103`); `heap_exhausted_in_import`, the memory limit sets the flag
  but marks no call; `swallowed_in_import`, native code below a WebAssembly call
  drops the exception (all `TerminationStops`); `cancel_while_suppressed`, a
  cancellation is undone when the inspector restores the flag (`CancelSticks`,
  `inspector.rs:1492`).
* `BackingStores`, `Uses`: `empty`, the alias of an empty buffer is in no
  registry, `Dispose` does not find it and it keeps a value of a freed context,
  which `arraybuffer.rs:358-360` calls "not valid" (`NoDeadContext`);
  `resizable_getter`, script has made `resizable` a getter that detaches the
  buffer after its data pointer was read and before the alias is registered: the
  engine frees the bytes the alias shows (`BlocksOwnedOnce`, `arraybuffer.rs:348`);
  `send_alias`, an alias is destroyed on another thread
  and frees a value of an isolate that runs (`DestroyedAtHome`); `wrap_alias`, a
  buffer made of an alias takes the alias's entry in the owner registry
  (`RegistriesExact`). Always in the model, as no embedder can rule it out: another
  thread gives the last count back between the two steps of `bs_free_func`
  (`arraybuffer.rs:492-497`). Then it destroys a store that still knows the other
  isolate - `DestroyedAtHome` allows that and nothing more - and the second step
  writes to a freed or reused box, the one access `NoDanglingAccess` leaves out.
* `HeapLimit`, `AddsInside = TRUE`: a callback that removes itself and
  registers another one may be interrupted by that (`OneCallbackAtATime`).
  Property `TerminatesOnlyWhenExhausted`: a callback that removes itself and
  returns a higher limit is taken for none by the handler, which terminates
  although the allocation fits (`isolate.rs:1068`; its comment speaks of an
  exhausted heap).
* `Exceptions`, `Uses`: `run_pending`, a script or a constructor runs with an
  exception pending, which the first callback then throws (only
  `v8__Function__Call` sets it aside, `function.rs:3908`); `open_pending`, a
  TryCatch catches what was pending when it was opened (both
  `OwnExceptionsOnly`); `clear_pending`, a function that clears an error of its
  own (`ByteLength` of a detached buffer, `arraybuffer.rs:830`) clears what was
  pending as well (`FailureVisible`); `bare_script`, a callback runs a script of
  its isolate with no TryCatch open: when that fails the callback gets a null
  handle, the exception is dropped, and the JavaScript that called sees nothing
  (`core.rs:2983-2996`, `FailureVisible`); `report_script`, a script throws an
  object whose `toString` is a script: to make the text for the message
  listeners it is run while the exception is pending again
  (`exception.rs:512-524`), and the first callback throws that exception into it
  (`OwnExceptionsOnly`). This last one is the choice of a script, not of the
  embedder: an embedder who runs scripts of others with listeners and no
  TryCatch cannot rule it out. `TRY_CATCH_STACK` belongs to the thread, so
  a script that fails in one isolate leaves its exception pending when only
  another isolate has a TryCatch (`exception.rs:115`); the model has that, and
  it breaks neither property.

**Bounds.** `MaxCtx`, `MaxFrames`, `MaxEnter`, `Generations`, `MaxSlots`,
`MaxRefs`, `MaxWaiters`, `MaxLeaks`, `MaxListeners` are bounds of the models, not of the code. Two
isolates are what a mix-up needs; two generations, that an address be reused;
two contexts, that a context be entered which is not the isolate's first;
three frames, that something be opened and closed between an opening and its
closing; one frame is enough for `any_order`, whose properties are also proved
for all bounds. In the arena two values, one cell, three slots and three
frames allow an escape across a callback inside a scope; one leaked count is
enough to tell a leak from a wrong count. Two waiters on one location let one notify wake one of them or both, of one isolate or of two.
Three weak cells on two objects and a string let a finalizer find a record
taken, one kept and one not yet looked at. Two instances let a mark land on
the wrong one, six frames fit a WebAssembly call inside the import of another
with native code between them, and two interrupts are enough for one to be
taken by a poll inside the callback of the other. In `BackingStores` two
references to a store, its buffer's or one on the home thread and one on the
other thread, are what makes a reference not the last one: the other thread can
give the last one back while the free function of the home thread still has to
write; three blocks and two boxes let both buffers have a store or an alias and one be moved; an
external limit of 0 makes the next allocation collect. Four modules are what
two roots with a shared import and one import of its own need; `MaxCalls` 2 is
one evaluation in the body of another. In `HeapLimit` a heap of 6 with a limit
of 2 or 3, headroom 1 and termination headroom 2 has room above each cap, and a
depth of 4 is a handler and its callback twice. In `Jobs` two nested codes and
two jobs give a job inside a job's drain of another isolate. In `Exceptions`
three exceptions fill a TryCatch, what a call has set aside and the pending slot;
five frames are a TryCatch around a call whose callback has a TryCatch around
another call. Symmetry is used only where no
liveness is checked.

**Deadlock** is checked in every run.

**Fairness** is assumed in three modules. In `AtomicsWaiters`: weak fairness of the steps a thread takes
by itself once it is in a call; strong fairness of acquiring the life-cycle
lock, since a waiting thread finds it free again and again and Rust's mutex
lets it try each time; strong fairness of running a posted task, since the
embedder's loop runs tasks between its other calls. Nothing obliges anyone to
notify or dispose, nor to pump where tasks are posted. Where none are
(`~ custom`, a default platform) pumping is assumed, strongly fair: it is all that drains
then, and an embedder that never pumps is one whose notified promises stay
pending. In `Termination`: weak fairness of the steps a thread
takes by itself; strong fairness of polls, since QuickJS counts calls and loop
iterations and polls when the count is used up; of a trap, since a marked
instance that runs comes to a branch or to its end; and of the return of native
callbacks. Nothing makes WebAssembly return or call an import. In `Jobs`: weak
fairness of the loops; strong fairness, for each depth, of the return of code
that runs there, that is, no script, job or body goes on for ever; strong
fairness of a checkpoint of each isolate when nothing runs, since an embedder
with an event loop (Deno's polls `perform_microtask_checkpoint`) gets round to
it. Without the last, a queue with policy Explicit would never be drained.
`TerminationStops` says that what runs comes to an end, not that the embedder
starts nothing new afterwards.

## 4. What is proved

The proofs are in `ModuleCachesProofs` (with `IsolateStack`'s),
`HandleArenaProofs`, `AtomicsWaitersProofs`, `TerminationProofs`, `HeapProofs`
(`HeapLimit` and `WeakHandles`), `JobsProofs`, `BackingStoresProofs` and
`ScriptProofs` (`ModuleLifecycle` and `Exceptions`). They hold for every value of
the constants that satisfies the named assumption of the module, the bounds
included. Where the code gets something wrong (section 3), the theorem leaves
that out: `Uses = {}` in `BackingStores`, `Exceptions` and `WeakHandles`,
`"inner_return" \notin Uses` for the arena's return values, `Strict` for nesting.
Most of these are uses of the API an embedder can do without; `resizable_getter`
of `BackingStores` and `report_script` of `Exceptions` are choices of the script,
which no embedder can rule out. Every safety invariant and
action property the passing runs check is stated by a theorem.

* **`NeverDangling`** (and `TypeCorrect`): no thread-local keeps a disposed
  isolate, in any order of use. The inductive invariant `StackInv` adds that
  `isoStack` is a stack over `live`: finite, so that its top exists. The lemmas
  on stacks say what pushing and removing do to the top. `NoDanglingIsolate`
  alone is not inductive: `Exit` makes the top of the stack current.
* **`StrictNesting`**, **`InnermostContext`**: under `Strict`, `current` is the top of the stack and
  `currentCtx` its innermost context (`StrictInv`). Type correctness is needed,
  for the contexts of the isolate that becomes current.
* **`OnePlace`, `OwnEntries`** (and `CachesTypeCorrect`): `CachesInv` relates the tables to `born`
  wherever they are (`TablesOf`), and needs that tables recorded with no
  isolate active are empty. `SwitchFrom` and `DiscardAndSwitch` get lemmas of
  their own, which say what happens to every isolate's tables.
* **`Refinement`**: `ModuleCaches` implements `PrivateCaches`: the initial
  state maps to one, each step to a step or a stutter, from `CachesInv`.
* **`ExactCounts`** (and `TypeCorrect`): `CountsExact` for any number of
  values, slots, cells and frames, whatever the embedder does: each count is
  that of its owners and of what `SetEmptyString` and fast calls that threw have
  leaked. It is not inductive
  alone: what the engine keeps for a call under way has to be part of what it
  holds (`ArgsHeld`). The counting lemmas say how appending,
  replacing and cutting slots change the number of slots that hold a value.
* **`NoPostToFreed`** (and `WaitersTypeCorrect`): `TargetsExist` for any number
  of threads, from mutual exclusion of the life-cycle lock (`LockHeld`), the
  existence of an isolate that is in a call (`BusyExists`) and the emptiness of
  the registry for an isolate about to be freed (`Cleared`).
* **`FlagFollowsRequestsAlways`** (and `TypeCorrect`): the flag and what the
  inspector keeps of it are together what was asked for last, for any number of
  threads and frames, unless a termination is cancelled while the inspector
  keeps it. The frames need an invariant of their own (`StackShape`): the
  inspector's frame is only found on top, so an exception never surfaces in it.
  Every other step leaves what it keeps alone (`PlainControl`).

* **`CapComesBack`, `AlwaysAsked`, `NotReentered`** (and `TypeCorrect`) of
  `HeapLimit`. `CapFollowsLimit` is not inductive: a panic, a removal and a
  nested handler all rewrite the cap. `CapInv` adds that nothing is refused
  before there is a limit, that the flag is only set while a callback runs, and
  that a handler below anything has asked. `NotReentered` assumes `~AddsInside`;
  its `OneInv` says that while the one callback runs either the flag is set or
  nothing is registered.
* **`DataStaysOwn`, `LastEvaluationDrains`** (and `TypeCorrect`) of `Jobs`, for
  any number of isolates, tasks, jobs and depths. `OwnDataOnly` speaks of the
  top; what makes it hold when code returns is `JobsInv`: nested code has the
  task of the code of its isolate it is nested in, unless it is a job, and the
  data fits the innermost code of each isolate (`FitsAll`), jobs leaving
  undefined behind. `ModuleJobsRun` is per isolate: an evaluation of one isolate
  inside an evaluation of another has to drain its own queue. Two cases are
  excepted in its statement: the thread is in the drain of another isolate
  (`JOBS_DRAINING`), or a terminated job has ended the loop.
* **`RunsOnce`, `MarkedHasStarted`, `RejectionStays`** (and `TypeCorrect`) of
  `ModuleLifecycle`, for any graphs and any nesting. `WalkInv`: the walks of the
  calls run through definitions they have open, each once, no two walks share
  one, and what has not started has run no body. `StatusInv` relates wrapper,
  definition and result.

* **`ClosingRestores`** of `IsolateStack`, under `Strict`: nothing saves the
  current context, `refresh_current_ctx` finds it again on the isolate's own
  stack. The invariant (`PushInv`) counts: an isolate's stack has one context for
  each frame of that isolate that pushes one, and what was current when a frame
  opened is the context at the depth the frames below it account for.
* **`HandlesStayValid`, `DepthRestored`, `ReturnsOwned`** of the arena.
  `HandlesInv` says where a handle's slot is: above what its own frame has saved,
  not above what the frames inside that one have, and never a slot reserved for
  an escape; and that what the frames have saved increases inwards and never
  exceeds the arena. So closing a frame leaves the handles outside alone, and
  cuts the arena to the depth that is saved, which is the action property
  `DepthRestored`. `ReturnsHeld` says the same of the slot that a return slot
  borrows from, with `leaked` as the alternative.
* **`WaitingInOnePlace`** of `AtomicsWaiters` (`PlacesInv`): an id with a resolver
  is in one queue, in its isolate's ready list or in its isolate's drain, and
  no other id is anywhere. What makes it inductive is that an id belongs to one
  isolate for ever (`OneOwner`: two isolates would otherwise resolve one id) and
  that new ids are new.
* **`TerminatesInnermostCall`** of `Termination`: the active call is the top
  WebAssembly frame, and each frame has saved the call below it (`CallChain`),
  so a return puts back the right one. **`InterruptsRunOnce`**: the queue, what
  each poll has taken and not run, and what was run share no interrupt and make
  up what was requested (`OnceInv`).
* **`WeakRecordsStay`, `SurvivorsRestored`, `CellCountsBalance`**
  (`WeakInvHolds`, `WeakTypeCorrect`) of `WeakHandles`, for any number of cells
  and values: `WeakInv` says that the three lists of records are disjoint and cover
  the cells, and what the cell of a record holds by the list it is in and the
  phase: its target, or nothing between `release_weak_handle_targets` and the end
  of the sweep. **`WeakHandlesKeepNothing`** follows from it.
* **`CountsStayExact`, `NothingDangles`, `DestructionAtHome`,
  `DeadContextsUnreferenced`, `OneOwnerPerBlock`, `RegistriesStayExact`** of
  `BackingStores`, for any number of threads, stores, buffers and addresses. They
  are not inductive one by one: `StoresInv` relates each variable to the others -
  who counts, what an alias, a buffer and a store that knows an isolate rely
  on, and what every two-step operation has established by its first step for
  its second. A thread that has still to make a store forget its isolate relies
  on nothing: the store may be gone, and `DestroyInv` says the converse, that a
  store destroyed elsewhere is one whose home thread is there. All assume
  `Uses = {}`, so what they say of aliases holds without the four uses above.
* **`RootMarksGraph`** of `ModuleLifecycle`: `GraphInv` says of a walk in progress
  that what it has open is on its path, or in a cycle with a module on it and
  finished: its imports are evaluated, or open in a cycle with it. So nothing is
  open when the path is empty; and what is evaluated, or waits, is closed under
  imports and so has the graph of the root, the least closed set. Walks further
  out have nothing open in the graph of a walk further in.
* **`OwnExceptions`, `FailuresVisible`** (`ExnInvHolds`) of `Exceptions`, for any
  nesting of frames of any isolates, and none of the five uses of section 3. Both
  speak of what the top frame sees; what holds when frames are left is `ExnInv`: what any frame above has set aside in
  an isolate is not older than the frames below of that isolate, JavaScript on
  top unwinds exactly when something is pending, and who was told of a failure
  finds it in its TryCatch, in what the next call of its isolate has set aside, or
  pending. Two lemmas carry the actions: what a pop may do (`PopGood`) and
  what the top frame may do to itself (`TopGood`). `Quiet` is the part that
  `Uses = {}` gives: no JavaScript makes the text of an exception, and a script
  whose exception is dropped was run by nobody who owes; it is what lets a
  listener, or a script without a TryCatch, drop what is pending.

Only model-checked: the liveness of `AtomicsWaiters`, `Termination` and `Jobs`
(`NotifiedIsResolved`, `CallsReturn`, `TerminationStops`, `JobsRun`), since
liveness under fairness is beyond the prover; that `external` of
`BackingStores` is not negative and the listeners of `Exceptions` stay within
their bound, both sums over data; and the counterexample of `modules_marks`.

## 5. What is left out

* What an engine does by itself: values, the collector's choice of garbage
  (any set of values that only the heap keeps), evaluation. What v8x relies on
  is an external definition.
* The embedder's discipline (`MayUse`, `InUse`, `locals`): scopes close in
  reverse order, as the types of `rusty_v8` enforce; an isolate in use is not
  disposed.
* In `AtomicsWaiters`: the comparison `waitAsync` makes before it registers;
  the engine's own `Atomics.notify`, for blocking waiters; a platform that
  runs tasks synchronously.
* In `WeakHandles`: the cppgc shim, memory accounting, guaranteed finalizers,
  second-pass callbacks that start another collection. Strings are judged by
  handles only, so a string the heap keeps is reported; no run states that.
* In `Termination`: weaker memory than sequential consistency between the flag
  and `active_wasm_func`; WAMR's checks at anything but branches, returns and
  entries; which JavaScript a native callback runs. An exception of an
  interrupt callback is dropped at the end of its poll.
* In `BackingStores`: SharedArrayBuffers (their counts are the engine's,
  `core.rs:766-842`), `transfer()` by script, two stores made over one pointer,
  failing allocations, and the accounting of a store that outlives its buffer,
  which is never taken off `external_memory`.
* In `ModuleLifecycle`: evaluating a module some of whose imports a call further
  out has open; awaits inside cycles; pending promises that are rejected after
  `Evaluate` has returned (the wrapper does not hear of it); namespaces,
  exports set after initialisation, attributed, deferred and source-phase
  imports, the bytecode cache, modules restored from a snapshot, resolution
  that fails, termination. Jobs of modules are one step each here and are
  interleaved in `Jobs`.
* In `HeapLimit`: the initial limit and the data pointer; that a headroom grows
  with its limit; saturating sums. A handler without a callback inside an outer
  callback raises the cap, which is overwritten when that callback returns.
* In `Jobs`: promise hooks (one table for the thread), `MicrotaskQueue` objects,
  what else the message loop runs (`AtomicsWaiters`), the inspector's drain.
* In `Exceptions`: what messages and stack traces contain, `prepareStackTrace`,
  promise rejections, the jobs at the end of a script (they drop their
  exceptions), which exceptions JavaScript may catch (a termination is one more
  throw). Each call names the isolate that is current; `IsolateStack` says when
  that is so.
* The inspector's pause loop, snapshots, crdtp, and the JSC backend.
* In `HandleArena`: TracedReference, constructor calls, and property handlers
  beyond their common form.

## 6. Plan

1. Proofs: how far the theorems with `Uses = {}` go with single uses added, since
   each use breaks one property only.
2. An abstract specification of `BackingStores` (blocks with sets of users,
   freed when empty) and the refinement; one of `Jobs` (each isolate a queue of
   its own).
3. Missing operations: SharedArrayBuffers; the memory of a location in
   `AtomicsWaiters`; `MicrotaskQueue` objects; namespaces in `ModuleLifecycle`.
4. New components: inspector pause and resume; the `SnapshotCreator`; the JSC
   backend's protection counts, as a second implementation of what
   `HandleArena` promises, and its watchdog, as one of `HeapLimit`.
