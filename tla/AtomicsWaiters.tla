--------------------------- MODULE AtomicsWaiters ---------------------------
(***************************************************************************)
(* Atomics.waitAsync and Atomics.notify between isolates on different      *)
(* threads (src/quickjs/core.rs, init.rs).                                 *)
(*                                                                         *)
(* A process-wide registry, behind a mutex, queues the waiters of every    *)
(* memory location and, per isolate, the ids that were notified.  The      *)
(* promise resolvers stay in the waiter's own isolate, on its own thread.  *)
(* notify moves ids and posts a task to each isolate concerned; the task   *)
(* (or PumpMessageLoop) resolves what is ready there.  Only a custom       *)
(* platform has a place to post to: with a default platform, or none, the  *)
(* post does nothing and PumpMessageLoop is all that drains.  A second     *)
(* lock, of the life cycle, keeps the isolates from being disposed         *)
(* meanwhile.                                                              *)
(*                                                                         *)
(* Every isolate has a thread of its own; one of its calls is under way at *)
(* a time.  What is done in one critical section of the registry is one    *)
(* step.  The comparison that waitAsync makes before it registers is left  *)
(* out: it is a load of shared memory that nothing here is ordered with.   *)
(*                                                                         *)
(* A queue is the set of its waiters.  Ids are drawn before the registry   *)
(* is locked, so their order is not that of the queue; which waiters are   *)
(* in front is left open, and so is the order in which one drain resolves  *)
(* its promises.                                                           *)
(***************************************************************************)
EXTENDS Naturals, FiniteSets

CONSTANTS
  Isolates,    \* addresses of isolates (reused after Dispose)
  Nobody,      \* not an isolate: the lock is free
  Locations,   \* addresses of shared memory
  MaxWaiters   \* values of NEXT_ATOMICS_WAITER_ID (bound)

ASSUME AtomicsWaitersAssumption ==
  /\ Nobody \notin Isolates
  /\ MaxWaiters \in Nat

VARIABLES
  custom,      \* CURRENT_PLATFORM is a custom one; it stays what it is
  exists,      \* isolates whose memory is allocated
  lifecycle,   \* holder of runtime_lifecycle_lock, or Nobody
  byLocation,  \* AtomicsWaiterRegistry::by_location
  ready,       \* AtomicsWaiterRegistry::ready_by_isolate
  resolvers,   \* IsoState::atomics_waiter_resolvers
  nextId,      \* NEXT_ATOMICS_WAITER_ID
  timers,      \* timeouts that waitAsync armed, per isolate
  tasks,       \* foreground tasks posted and not run, per isolate
  call         \* the call each isolate's thread is in

waiterVars == <<custom, exists, lifecycle, byLocation, ready, resolvers,
                nextId, timers, tasks, call>>

-----------------------------------------------------------------------------
Ids == 1 .. MaxWaiters

Waiter == [id : Ids, isolate : Isolates]

(* at: where in the call the thread is.  ids: what a drain took and has    *)
(* not resolved yet.  targets: isolates a notify has not posted to yet.    *)
Idle == [at |-> "idle", loc |-> {}, count |-> 0, ids |-> {}, targets |-> {}]

Call == [at : {"idle", "notify", "move", "post", "dispose", "clear", "free", "drain"},
         loc : SUBSET Locations, count : Nat, ids : SUBSET Ids,
         targets : SUBSET Isolates]

InCall(i, at) == call[i].at = at

Enters(i, c) == call' = [call EXCEPT ![i] = c]

IsUsable(i) == i \in exists /\ InCall(i, "idle")

(* retain: the queues without the waiters that are to be removed.          *)
QueuesWithout(removed) == [loc \in Locations |-> byLocation[loc] \ removed]

-----------------------------------------------------------------------------
(* v8__Isolate__New holds the lock of the life cycle all along.            *)
IsolateNew(i) ==
  /\ i \notin exists
  /\ lifecycle = Nobody
  /\ exists' = exists \cup {i}
  /\ UNCHANGED <<custom, lifecycle, byLocation, ready, resolvers, nextId,
                 timers, tasks, call>>

(* qjs_atomics_register_waiter, called by the waitAsync shim, which arms a *)
(* timer when the timeout is finite.                                       *)
RegisterWaiter(i, loc, timed) ==
  /\ IsUsable(i)
  /\ nextId <= MaxWaiters
  /\ nextId' = nextId + 1
  /\ resolvers' = [resolvers EXCEPT ![i] = @ \cup {nextId}]
  /\ byLocation' = [byLocation EXCEPT ![loc] =
                      @ \cup {[id |-> nextId, isolate |-> i]}]
  /\ timers' = [timers EXCEPT ![i] = IF timed THEN @ \cup {nextId} ELSE @]
  /\ UNCHANGED <<custom, exists, lifecycle, ready, tasks, call>>

CancelLeavesReady(i, id) ==
  /\ byLocation' = QueuesWithout({ w \in Waiter : w.id = id })
  /\ resolvers' = [resolvers EXCEPT ![i] = @ \ {id}]
  /\ UNCHANGED ready

(* qjs_atomics_cancel_waiter: out of the queues, out of the isolate's      *)
(* ready list, and the resolver is dropped.                                *)
CancelWaiter(i, id) ==
  /\ byLocation' = QueuesWithout({ w \in Waiter : w.id = id })
  /\ ready' = [ready EXCEPT ![i] = @ \ {id}]
  /\ resolvers' = [resolvers EXCEPT ![i] = @ \ {id}]

(* The timer of the shim: cancel, then resolve the promise as timed out.   *)
TimerFires(i, id) ==
  /\ IsUsable(i)
  /\ id \in timers[i]
  /\ timers' = [timers EXCEPT ![i] = @ \ {id}]
  /\ CancelWaiter(i, id)
  /\ UNCHANGED <<custom, exists, lifecycle, nextId, tasks, call>>

-----------------------------------------------------------------------------
(* qjs_atomics_notify_waiters, from its arguments to the lock, ...         *)
NotifyCall(i, loc, count) ==
  /\ IsUsable(i)
  /\ Enters(i, [at |-> "notify", loc |-> {loc}, count |-> count, ids |-> {},
                targets |-> {}])
  /\ UNCHANGED <<custom, exists, lifecycle, byLocation, ready, resolvers,
                 nextId, timers, tasks>>

NotifyLock(i) ==
  /\ InCall(i, "notify")
  /\ lifecycle = Nobody
  /\ lifecycle' = i
  /\ Enters(i, [call[i] EXCEPT !.at = "move"])
  /\ UNCHANGED <<custom, exists, byLocation, ready, resolvers, nextId, timers,
                 tasks>>

(* pop_front, `count` times or until the queue is empty.                   *)
IsFront(woken, queue, count) ==
  /\ woken \subseteq queue
  /\ Cardinality(woken) <= count
  /\ Cardinality(woken) < count => woken = queue

OneTargetOf(woken) == { w.isolate : w \in { u \in woken : \A x \in woken : u.id <= x.id } }

TargetsOf(woken) == { w.isolate : w \in woken }

(* ... under the lock of the registry, ...                                 *)
NotifyMove(i) ==
  /\ InCall(i, "move")
  /\ \E loc \in call[i].loc : \E woken \in SUBSET byLocation[loc] :
       /\ IsFront(woken, byLocation[loc], call[i].count)
       /\ byLocation' = [byLocation EXCEPT ![loc] = @ \ woken]
       /\ ready' = [j \in Isolates |->
                      ready[j] \cup { w.id : w \in { u \in woken : u.isolate = j } }]
       /\ Enters(i, [call[i] EXCEPT !.at = "post", !.targets = TargetsOf(woken)])
  /\ UNCHANGED <<custom, exists, lifecycle, resolvers, nextId, timers, tasks>>

(* ... posting a task to each isolate (post_foreground_task_for, which     *)
(* returns at once when the platform is not a custom one), ...             *)
NotifyPost(i, j) ==
  /\ InCall(i, "post")
  /\ j \in call[i].targets
  /\ tasks' = IF custom THEN [tasks EXCEPT ![j] = @ + 1] ELSE tasks
  /\ Enters(i, [call[i] EXCEPT !.targets = @ \ {j}])
  /\ UNCHANGED <<custom, exists, lifecycle, byLocation, ready, resolvers,
                 nextId, timers>>

(* ... and the guard is dropped.                                           *)
NotifyReturn(i) ==
  /\ InCall(i, "post")
  /\ call[i].targets = {}
  /\ lifecycle' = Nobody
  /\ Enters(i, Idle)
  /\ UNCHANGED <<custom, exists, byLocation, ready, resolvers, nextId, timers,
                 tasks>>

-----------------------------------------------------------------------------
(* drain_atomics_waiters first takes the ready list; nothing else of the   *)
(* isolate is touched when it is empty.                                    *)
DrainTake(i) ==
  /\ InCall(i, "idle")
  /\ IF ready[i] = {} THEN UNCHANGED <<ready, call>>
     ELSE /\ ready' = [ready EXCEPT ![i] = {}]
          /\ Enters(i, [Idle EXCEPT !.at = "drain", !.ids = ready[i]])

(* A posted task runs; the isolate may be gone or another one by now.      *)
RunTask(i) ==
  /\ tasks[i] > 0
  /\ tasks' = [tasks EXCEPT ![i] = @ - 1]
  /\ DrainTake(i)
  /\ UNCHANGED <<custom, exists, lifecycle, byLocation, resolvers, nextId,
                 timers>>

(* v8__Platform__PumpMessageLoop.                                          *)
PumpMessageLoop(i) ==
  /\ i \in exists
  /\ DrainTake(i)
  /\ UNCHANGED <<custom, exists, lifecycle, byLocation, resolvers, nextId,
                 timers, tasks>>

DrainKeepsIds(i, id) ==
  /\ InCall(i, "drain")
  /\ id \in call[i].ids
  /\ resolvers' = [resolvers EXCEPT ![i] = @ \ {id}]
  /\ UNCHANGED <<custom, exists, lifecycle, byLocation, ready, nextId, timers,
                 tasks, call>>

(* One id of the list: its resolver is taken out and called with "ok".     *)
DrainResolve(i, id) ==
  /\ InCall(i, "drain")
  /\ id \in call[i].ids
  /\ resolvers' = [resolvers EXCEPT ![i] = @ \ {id}]
  /\ Enters(i, IF call[i].ids = {id} THEN Idle
               ELSE [call[i] EXCEPT !.ids = @ \ {id}])
  /\ UNCHANGED <<custom, exists, lifecycle, byLocation, ready, nextId, timers,
                 tasks>>

-----------------------------------------------------------------------------
(* v8__Isolate__Dispose, the parts the other threads can tell apart: the   *)
(* lock, ...                                                               *)
DisposeCall(i) ==
  /\ IsUsable(i)
  /\ Enters(i, [Idle EXCEPT !.at = "dispose"])
  /\ UNCHANGED <<custom, exists, lifecycle, byLocation, ready, resolvers,
                 nextId, timers, tasks>>

DisposeWithoutLock(i) ==
  /\ InCall(i, "dispose")
  /\ Enters(i, [Idle EXCEPT !.at = "clear"])
  /\ UNCHANGED <<custom, exists, lifecycle, byLocation, ready, resolvers,
                 nextId, timers, tasks>>

DisposeLock(i) ==
  /\ InCall(i, "dispose")
  /\ lifecycle = Nobody
  /\ lifecycle' = i
  /\ Enters(i, [Idle EXCEPT !.at = "clear"])
  /\ UNCHANGED <<custom, exists, byLocation, ready, resolvers, nextId, timers,
                 tasks>>

(* ... remove_atomics_waiters_for_isolate and the resolvers, ...           *)
DisposeClear(i) ==
  /\ InCall(i, "clear")
  /\ byLocation' = QueuesWithout({ w \in Waiter : w.isolate = i })
  /\ ready' = [ready EXCEPT ![i] = {}]
  /\ resolvers' = [resolvers EXCEPT ![i] = {}]
  /\ Enters(i, [Idle EXCEPT !.at = "free"])
  /\ UNCHANGED <<custom, exists, lifecycle, nextId, timers, tasks>>

(* ... and the end: the memory is free, the guard is dropped.              *)
DisposeFree(i) ==
  /\ InCall(i, "free")
  /\ exists' = exists \ {i}
  /\ lifecycle' = Nobody
  /\ timers' = [timers EXCEPT ![i] = {}]
  /\ Enters(i, Idle)
  /\ UNCHANGED <<custom, byLocation, ready, resolvers, nextId, tasks>>

-----------------------------------------------------------------------------
Init ==
  /\ custom \in BOOLEAN
  /\ exists = {}
  /\ lifecycle = Nobody
  /\ byLocation = [loc \in Locations |-> {}]
  /\ ready = [i \in Isolates |-> {}]
  /\ resolvers = [i \in Isolates |-> {}]
  /\ nextId = 1
  /\ timers = [i \in Isolates |-> {}]
  /\ tasks = [i \in Isolates |-> 0]
  /\ call = [i \in Isolates |-> Idle]

(* Steps a thread takes by itself once it is in a call.                    *)
Continue(i) ==
  \/ NotifyMove(i)
  \/ \E j \in Isolates : NotifyPost(i, j)
  \/ NotifyReturn(i)
  \/ \E id \in Ids : DrainResolve(i, id)
  \/ DisposeClear(i)
  \/ DisposeFree(i)

AcquireLifecycle(i) == NotifyLock(i) \/ DisposeLock(i)

Next ==
  \E i \in Isolates :
    \/ IsolateNew(i)
    \/ \E loc \in Locations, timed \in BOOLEAN : RegisterWaiter(i, loc, timed)
    \/ \E id \in Ids : TimerFires(i, id)
    \/ \E loc \in Locations, count \in 0 .. MaxWaiters : NotifyCall(i, loc, count)
    \/ RunTask(i)
    \/ PumpMessageLoop(i)
    \/ DisposeCall(i)
    \/ AcquireLifecycle(i)
    \/ Continue(i)

(* A thread in a call goes on; one that waits for the lock gets it if the  *)
(* lock is free again and again; the embedder's loop runs posted tasks     *)
(* between its other calls.  Nothing makes anybody notify or dispose; that *)
(* the embedder pumps the message loop is assumed only where no task is    *)
(* posted.                                                                 *)
Fairness ==
  \A i \in Isolates :
    /\ WF_waiterVars(Continue(i))
    /\ SF_waiterVars(AcquireLifecycle(i))
    /\ SF_waiterVars(RunTask(i))
    /\ SF_waiterVars(~ custom /\ PumpMessageLoop(i))

Spec == Init /\ [][Next]_waiterVars

FairSpec == Spec /\ Fairness

-----------------------------------------------------------------------------
TypeOK ==
  /\ custom \in BOOLEAN
  /\ exists \subseteq Isolates
  /\ lifecycle \in Isolates \cup {Nobody}
  /\ byLocation \in [Locations -> SUBSET Waiter]
  /\ ready \in [Isolates -> SUBSET Ids]
  /\ resolvers \in [Isolates -> SUBSET Ids]
  /\ nextId \in 1 .. MaxWaiters + 1
  /\ timers \in [Isolates -> SUBSET Ids]
  /\ tasks \in [Isolates -> Nat]
  /\ call \in [Isolates -> Call]

(* A notify posts tasks after it has left the registry, to isolates of     *)
(* other threads; none of them has been freed in between, and none that a  *)
(* queue or a ready list names.                                            *)
TargetsExist ==
  /\ \A i \in Isolates : call[i].targets \subseteq exists
  /\ \A loc \in Locations : TargetsOf(byLocation[loc]) \subseteq exists
  /\ \A i \in Isolates \ exists : ready[i] = {}

(* The places where id waits for its promise to be resolved.               *)
Queues(i, id) ==
  { loc \in Locations : [id |-> id, isolate |-> i] \in byLocation[loc] }

Lists(i, id) ==
  { list \in {"ready"} : id \in ready[i] }
    \cup { list \in {"drain"} : id \in call[i].ids }

Places(i, id) ==
  ({"queue"} \X Queues(i, id)) \cup ({"list"} \X Lists(i, id))

(* A promise that is pending is in exactly one queue or list, which leads  *)
(* to its isolate, and what is there is pending: no wake-up is lost on the *)
(* way from queue to ready list to drain, none is given to two places, and *)
(* a timeout leaves nothing behind.                                        *)
PendingInOnePlace ==
  \A i \in Isolates : \A id \in Ids :
    Cardinality(Places(i, id)) = IF id \in resolvers[i] THEN 1 ELSE 0

(* Whoever is notified has its promise resolved, or its isolate is being   *)
(* disposed.  With a custom platform no pump is needed: a task is on its   *)
(* way while a ready list is not empty, although posting and running it    *)
(* interleave with further notifies.  With a default one the next pump of  *)
(* the waiter's own loop finds it, and an embedder that never pumps leaves *)
(* its promises pending.                                                   *)
NotifiedIsResolved ==
  \A i \in Isolates : \A id \in Ids :
    id \in ready[i] ~> id \notin resolvers[i]

(* Every notify and every Dispose returns, whatever the threads contend    *)
(* for the two locks.                                                      *)
CallsReturn ==
  \A i \in Isolates : ~ InCall(i, "idle") ~> InCall(i, "idle")
=============================================================================
