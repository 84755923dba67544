------------------------ MODULE AtomicsWaitersProofs ------------------------
(***************************************************************************)
(* Proofs about AtomicsWaiters, for any number of isolates, locations and  *)
(* waiters: a notify posts to no isolate that has been freed, and a        *)
(* pending promise waits in exactly one place.                             *)
(***************************************************************************)
EXTENDS AtomicsWaiters, FiniteSetTheorems, TLAPS

(* The lock of the life cycle is held by the thread that is in a section   *)
(* it guards; a thread in a call has its isolate; and once an isolate has  *)
(* been taken out of the registry nothing about it comes back.             *)
LockHeld ==
  \A i \in Isolates :
    call[i].at \in {"move", "post", "clear", "free"} <=> lifecycle = i

BusyExists ==
  \A i \in Isolates :
    /\ call[i].at # "idle" => i \in exists
    /\ call[i].targets # {} => call[i].at = "post"

Cleared ==
  \A i \in Isolates : call[i].at = "free" =>
    /\ \A loc \in Locations : i \notin TargetsOf(byLocation[loc])
    /\ ready[i] = {}

WaitersInv == TypeOK /\ LockHeld /\ BusyExists /\ Cleared /\ TargetsExist

-----------------------------------------------------------------------------
(* The queues only shrink when waiters are removed.                        *)
LEMMA Removing ==
  ASSUME TypeOK, NEW removed
  PROVE  /\ QueuesWithout(removed) \in [Locations -> SUBSET Waiter]
         /\ \A loc \in Locations :
              TargetsOf(QueuesWithout(removed)[loc]) \subseteq TargetsOf(byLocation[loc])
  BY DEF QueuesWithout, TargetsOf, TypeOK

(* What a step that changes one call leaves of the other calls.            *)
LEMMA OneCall ==
  ASSUME TypeOK, NEW i \in Isolates, NEW c \in Call, Enters(i, c)
  PROVE  /\ call' \in [Isolates -> Call]
         /\ call'[i] = c
         /\ \A j \in Isolates : j # i => call'[j] = call[j]
  BY DEF Enters, TypeOK

LEMMA IdleIsACall == Idle \in Call
  BY DEF Idle, Call

LEMMA NotifyIsACall ==
  ASSUME NEW loc \in Locations, NEW count \in 0 .. MaxWaiters
  PROVE  LET c == [at |-> "notify", loc |-> {loc}, count |-> count, ids |-> {},
                targets |-> {}]
         IN  c \in Call /\ c.at = "notify" /\ c.targets = {}
<1>1. count \in Nat /\ {loc} \in SUBSET Locations
  BY AtomicsWaitersAssumption
<1> QED BY <1>1 DEF Call

LEMMA Types ==
  ASSUME TypeOK, Next
  PROVE  TypeOK'
<1> USE AtomicsWaitersAssumption DEF TypeOK
<1>0. PICK i \in Isolates :
        \/ IsolateNew(i)
        \/ \E loc \in Locations, timed \in BOOLEAN : RegisterWaiter(i, loc, timed)
        \/ \E id \in Ids : TimerFires(i, id)
        \/ \E loc \in Locations, count \in 0 .. MaxWaiters : NotifyCall(i, loc, count)
        \/ RunTask(i)
        \/ PumpMessageLoop(i)
        \/ DisposeCall(i)
        \/ AcquireLifecycle(i)
        \/ Continue(i)
  BY DEF Next
<1>a. call[i] \in Call
  OBVIOUS
<1>1. CASE IsolateNew(i)
  BY <1>1 DEF IsolateNew
<1>2. ASSUME NEW loc \in Locations, NEW timed \in BOOLEAN, RegisterWaiter(i, loc, timed)
      PROVE TypeOK'
  <2>1. nextId \in Ids /\ nextId' \in 1 .. MaxWaiters + 1
    BY <1>2 DEF RegisterWaiter, Ids
  <2>2. [id |-> nextId, isolate |-> i] \in Waiter
    BY <2>1 DEF Waiter
  <2> QED BY <1>2, <2>1, <2>2 DEF RegisterWaiter
<1>3. ASSUME NEW id \in Ids, TimerFires(i, id) PROVE TypeOK'
  <2>1. byLocation' \in [Locations -> SUBSET Waiter]
    BY <1>3, Removing DEF TimerFires, CancelWaiter
  <2> QED BY <1>3, <2>1 DEF TimerFires, CancelWaiter
<1>4. ASSUME NEW loc \in Locations, NEW count \in 0 .. MaxWaiters, NotifyCall(i, loc, count)
      PROVE TypeOK'
  <2>1. [at |-> "notify", loc |-> {loc}, count |-> count, ids |-> {},
                targets |-> {}] \in Call
    BY NotifyIsACall
  <2> QED BY <1>4, <2>1, OneCall DEF NotifyCall
<1>5. ASSUME DrainTake(i)
      PROVE  ready' \in [Isolates -> SUBSET Ids] /\ call' \in [Isolates -> Call]
  <2>1. [Idle EXCEPT !.at = "drain", !.ids = ready[i]] \in Call
    BY DEF Idle, Call
  <2> QED BY <1>5, <2>1, OneCall DEF DrainTake
<1>6. CASE RunTask(i)
  <2>1. tasks' \in [Isolates -> Nat]
    BY <1>6 DEF RunTask
  <2> QED BY <1>5, <1>6, <2>1 DEF RunTask
<1>7. CASE PumpMessageLoop(i)
  BY <1>5, <1>7 DEF PumpMessageLoop
<1>8. CASE DisposeCall(i)
  <2>1. [Idle EXCEPT !.at = "dispose"] \in Call
    BY DEF Idle, Call
  <2> QED BY <1>8, <2>1, OneCall DEF DisposeCall
<1>9. CASE AcquireLifecycle(i)
  <2>1. /\ [Idle EXCEPT !.at = "clear"] \in Call
        /\ [call[i] EXCEPT !.at = "move"] \in Call
    BY <1>a DEF Idle, Call
  <2> QED BY <1>9, <2>1, OneCall DEF AcquireLifecycle, NotifyLock, DisposeLock
<1>10. CASE NotifyMove(i)
  <2>0. PICK loc \in Locations : \E woken \in SUBSET byLocation[loc] :
          /\ byLocation' = [byLocation EXCEPT ![loc] = @ \ woken]
          /\ ready' = [j \in Isolates |->
                        ready[j] \cup { w.id : w \in { u \in woken : u.isolate = j } }]
          /\ Enters(i, [call[i] EXCEPT !.at = "post", !.targets = TargetsOf(woken)])
    BY <1>a, <1>10 DEF NotifyMove, Call
  <2>1. PICK woken \in SUBSET byLocation[loc] :
          /\ byLocation' = [byLocation EXCEPT ![loc] = @ \ woken]
          /\ ready' = [j \in Isolates |->
                        ready[j] \cup { w.id : w \in { u \in woken : u.isolate = j } }]
          /\ Enters(i, [call[i] EXCEPT !.at = "post", !.targets = TargetsOf(woken)])
    BY <2>0
  <2>2. \A w \in woken : w.id \in Ids /\ w.isolate \in Isolates
    BY DEF Waiter
  <2>3. [call[i] EXCEPT !.at = "post", !.targets = TargetsOf(woken)] \in Call
    <3>1. TargetsOf(woken) \in SUBSET Isolates
      BY <2>2 DEF TargetsOf
    <3> QED BY <1>a, <3>1 DEF Call
  <2>4. call' \in [Isolates -> Call]
    BY <2>1, <2>3, OneCall
  <2>5. ready' \in [Isolates -> SUBSET Ids]
    BY <2>1, <2>2
  <2> QED BY <1>10, <2>1, <2>4, <2>5 DEF NotifyMove
<1>11. ASSUME NEW j \in Isolates, NotifyPost(i, j) PROVE TypeOK'
  <2>1. [call[i] EXCEPT !.targets = @ \ {j}] \in Call
    BY <1>a DEF Call
  <2>2. tasks' \in [Isolates -> Nat]
    BY <1>11 DEF NotifyPost, TypeOK
  <2> QED BY <1>11, <2>1, <2>2, OneCall DEF NotifyPost
<1>12. CASE NotifyReturn(i)
  BY <1>12, IdleIsACall, OneCall DEF NotifyReturn
<1>13. ASSUME NEW id \in Ids, DrainResolve(i, id) PROVE TypeOK'
  <2>1. [call[i] EXCEPT !.ids = @ \ {id}] \in Call
    BY <1>a DEF Call
  <2> QED BY <1>13, <2>1, IdleIsACall, OneCall DEF DrainResolve
<1>14. CASE DisposeClear(i)
  <2>1. [Idle EXCEPT !.at = "free"] \in Call
    BY DEF Idle, Call
  <2> QED BY <1>14, <2>1, OneCall, Removing DEF DisposeClear
<1>15. CASE DisposeFree(i)
  BY <1>15, IdleIsACall, OneCall DEF DisposeFree
<1> QED
  BY <1>0, <1>1, <1>2, <1>3, <1>4, <1>6, <1>7, <1>8, <1>9, <1>10, <1>11, <1>12,
     <1>13, <1>14, <1>15 DEF Continue

(* No call of another thread is in a section that the lock guards.         *)
LEMMA OneHolder ==
  ASSUME LockHeld, NEW i \in Isolates, lifecycle \in {i, Nobody}
  PROVE  \A j \in Isolates : j # i =>
           call[j].at \notin {"move", "post", "clear", "free"}
  BY AtomicsWaitersAssumption DEF LockHeld

(* A step that leaves the lock, the isolates and the registry alone and    *)
(* moves one call between points where none of them is held.               *)
LEMMA QuietStep ==
  ASSUME WaitersInv, TypeOK', NEW i \in Isolates,
         \A j \in Isolates : j # i => call'[j] = call[j],
         UNCHANGED <<exists, lifecycle>>,
         call[i].at \notin {"move", "post", "clear", "free"},
         call'[i].at \notin {"move", "post", "clear", "free"},
         call'[i].at # "idle" => i \in exists,
         call'[i].targets = {},
         \A loc \in Locations : TargetsOf(byLocation'[loc]) \subseteq
                                 TargetsOf(byLocation[loc]) \cup ({i} \cap exists),
         \A j \in Isolates : ready'[j] \subseteq ready[j]
  PROVE  WaitersInv'
<1>1. LockHeld'
  BY DEF WaitersInv, LockHeld
<1>2. BusyExists'
  BY DEF WaitersInv, BusyExists
<1>3. Cleared'
  <2> SUFFICES ASSUME NEW j \in Isolates, call'[j].at = "free"
               PROVE  /\ \A loc \in Locations : j \notin TargetsOf(byLocation'[loc])
                      /\ ready'[j] = {}
    BY DEF Cleared
  <2>1. j # i /\ call[j].at = "free"
    OBVIOUS
  <2>2. ready[j] = {} /\ \A loc \in Locations : j \notin TargetsOf(byLocation[loc])
    BY <2>1 DEF WaitersInv, Cleared
  <2> QED BY <2>1, <2>2
<1>4. TargetsExist'
  BY DEF WaitersInv, TargetsExist
<1> QED BY <1>1, <1>2, <1>3, <1>4 DEF WaitersInv

LEMMA WaitersStep ==
  ASSUME WaitersInv, Next
  PROVE  WaitersInv'
<1> USE AtomicsWaitersAssumption
<1>0. PICK i \in Isolates :
        \/ IsolateNew(i)
        \/ \E loc \in Locations, timed \in BOOLEAN : RegisterWaiter(i, loc, timed)
        \/ \E id \in Ids : TimerFires(i, id)
        \/ \E loc \in Locations, count \in 0 .. MaxWaiters : NotifyCall(i, loc, count)
        \/ RunTask(i)
        \/ PumpMessageLoop(i)
        \/ DisposeCall(i)
        \/ AcquireLifecycle(i)
        \/ Continue(i)
  BY DEF Next
<1>t. TypeOK /\ TypeOK' /\ call[i] \in Call
  BY Types DEF WaitersInv, TypeOK
<1>q. /\ Idle \in Call /\ Idle.at = "idle" /\ Idle.targets = {}
  BY IdleIsACall DEF Idle
<1>1. CASE IsolateNew(i)
  <2>1. LockHeld' /\ BusyExists' /\ Cleared'
    BY <1>1 DEF IsolateNew, WaitersInv, LockHeld, BusyExists, Cleared
  <2>2. TargetsExist'
    BY <1>1 DEF IsolateNew, WaitersInv, TargetsExist
  <2> QED BY <1>t, <2>1, <2>2 DEF WaitersInv
<1>2. ASSUME NEW loc \in Locations, NEW timed \in BOOLEAN, RegisterWaiter(i, loc, timed)
      PROVE  WaitersInv'
  <2>1. /\ i \in exists /\ call[i].at = "idle"
        /\ UNCHANGED <<exists, lifecycle, call, ready>>
        /\ byLocation' = [byLocation EXCEPT ![loc] =
                             @ \cup {[id |-> nextId, isolate |-> i]}]
    BY <1>2 DEF RegisterWaiter, IsUsable, InCall
  <2>2. \A l \in Locations : TargetsOf(byLocation'[l]) \subseteq
                                TargetsOf(byLocation[l]) \cup ({i} \cap exists)
    BY <1>t, <2>1 DEF TargetsOf, TypeOK
  <2>3. call[i].targets = {}
    BY <2>1 DEF WaitersInv, BusyExists
  <2> QED BY <1>t, <2>1, <2>2, <2>3, QuietStep
<1>3. ASSUME NEW id \in Ids, TimerFires(i, id) PROVE WaitersInv'
  <2>1. /\ i \in exists /\ call[i].at = "idle"
        /\ UNCHANGED <<exists, lifecycle, call>>
        /\ byLocation' = QueuesWithout({ w \in Waiter : w.id = id })
        /\ ready' = [ready EXCEPT ![i] = @ \ {id}]
    BY <1>3 DEF TimerFires, CancelWaiter, IsUsable, InCall
  <2>2. \A l \in Locations : TargetsOf(byLocation'[l]) \subseteq TargetsOf(byLocation[l])
    BY <1>t, <2>1, Removing
  <2>3. \A j \in Isolates : ready'[j] \subseteq ready[j]
    BY <1>t, <2>1 DEF TypeOK
  <2>4. call[i].targets = {}
    BY <2>1 DEF WaitersInv, BusyExists
  <2> QED BY <1>t, <2>1, <2>2, <2>3, <2>4, QuietStep
<1>4. ASSUME NEW loc \in Locations, NEW count \in 0 .. MaxWaiters, NotifyCall(i, loc, count)
      PROVE  WaitersInv'
  <2> DEFINE c == [at |-> "notify", loc |-> {loc}, count |-> count, ids |-> {},
                targets |-> {}]
  <2>1. /\ i \in exists /\ call[i].at = "idle" /\ Enters(i, c)
        /\ UNCHANGED <<exists, lifecycle, byLocation, ready>>
    BY <1>4 DEF NotifyCall, IsUsable, InCall
  <2>2. c \in Call /\ c.at = "notify" /\ c.targets = {}
    BY NotifyIsACall
  <2> HIDE DEF c
  <2> QED BY <1>t, <2>1, <2>2, OneCall, QuietStep
<1>5. ASSUME DrainTake(i), UNCHANGED <<exists, lifecycle, byLocation>>
      PROVE  WaitersInv'
  <2>1. CASE ready[i] = {}
    <3>1. UNCHANGED <<ready, call>> /\ call[i].at = "idle"
      BY <1>5, <2>1 DEF DrainTake, InCall
    <3>2. call[i].targets = {}
      BY <3>1 DEF WaitersInv, BusyExists
    <3> QED BY <1>5, <1>t, <3>1, <3>2, QuietStep
  <2>2. CASE ready[i] # {}
    <3> DEFINE c == [Idle EXCEPT !.at = "drain", !.ids = ready[i]]
    <3>1. /\ call[i].at = "idle" /\ Enters(i, c)
          /\ ready' = [ready EXCEPT ![i] = {}]
      BY <1>5, <2>2 DEF DrainTake, InCall
    <3>2. i \in exists
      BY <2>2 DEF WaitersInv, TargetsExist
    <3>3. c \in Call /\ c.at = "drain" /\ c.targets = {}
      BY <1>t DEF Idle, Call, TypeOK
    <3>4. \A j \in Isolates : ready'[j] \subseteq ready[j]
      BY <1>t, <3>1 DEF TypeOK
    <3> HIDE DEF c
    <3> QED BY <1>5, <1>t, <3>1, <3>2, <3>3, <3>4, OneCall, QuietStep
  <2> QED BY <2>1, <2>2
<1>6. CASE RunTask(i) \/ PumpMessageLoop(i)
  BY <1>5, <1>6 DEF RunTask, PumpMessageLoop
<1>7. CASE DisposeCall(i)
  <2> DEFINE c == [Idle EXCEPT !.at = "dispose"]
  <2>1. /\ i \in exists /\ call[i].at = "idle" /\ Enters(i, c)
        /\ UNCHANGED <<exists, lifecycle, byLocation, ready>>
    BY <1>7 DEF DisposeCall, IsUsable, InCall
  <2>2. c \in Call /\ c.at = "dispose" /\ c.targets = {}
    BY DEF Idle, Call
  <2> HIDE DEF c
  <2> QED BY <1>t, <2>1, <2>2, OneCall, QuietStep
<1>8. ASSUME NEW id \in Ids, DrainResolve(i, id) PROVE WaitersInv'
  <2> DEFINE c == IF call[i].ids = {id} THEN Idle ELSE [call[i] EXCEPT !.ids = @ \ {id}]
  <2>1. /\ call[i].at = "drain" /\ Enters(i, c)
        /\ UNCHANGED <<exists, lifecycle, byLocation, ready>>
    BY <1>8 DEF DrainResolve, InCall
  <2>2. i \in exists /\ call[i].targets = {}
    BY <2>1 DEF WaitersInv, BusyExists
  <2>3. c \in Call /\ c.at \in {"idle", "drain"} /\ c.targets = {}
    BY <1>q, <1>t, <2>1, <2>2 DEF Call
  <2> HIDE DEF c
  <2> QED BY <1>t, <2>1, <2>2, <2>3, OneCall, QuietStep
<1>9. CASE AcquireLifecycle(i)
  <2> DEFINE c == IF NotifyLock(i) THEN [call[i] EXCEPT !.at = "move"]
                  ELSE [Idle EXCEPT !.at = "clear"]
  <2>1. /\ call[i].at \in {"notify", "dispose"} /\ Enters(i, c)
        /\ lifecycle = Nobody /\ lifecycle' = i
        /\ UNCHANGED <<exists, byLocation, ready>>
    BY <1>9 DEF AcquireLifecycle, NotifyLock, DisposeLock, InCall
  <2>2. i \in exists /\ call[i].targets = {}
    BY <2>1 DEF WaitersInv, BusyExists
  <2>3. c \in Call /\ c.at \in {"move", "clear"} /\ c.targets = {}
    BY <1>q, <1>t, <2>2 DEF Call, Idle
  <2> HIDE DEF c
  <2>4. call'[i] = c /\ \A j \in Isolates : j # i => call'[j] = call[j]
    BY <1>t, <2>1, <2>3, OneCall
  <2>5. \A j \in Isolates : j # i => call[j].at \notin {"move", "post", "clear", "free"}
    BY <2>1, OneHolder DEF WaitersInv
  <2>6. LockHeld'
    BY <2>1, <2>3, <2>4, <2>5 DEF LockHeld
  <2>7. BusyExists' /\ TargetsExist'
    BY <2>1, <2>2, <2>3, <2>4 DEF BusyExists, TargetsExist, WaitersInv
  <2>8. Cleared'
    BY <2>3, <2>4, <2>5 DEF Cleared
  <2> QED BY <1>t, <2>6, <2>7, <2>8 DEF WaitersInv
<1>10. ASSUME call[i].at \in {"move", "post", "clear", "free"}
       PROVE  /\ lifecycle = i /\ i \in exists
              /\ \A j \in Isolates : j # i =>
                   /\ call[j].at \notin {"move", "post", "clear", "free"}
                   /\ call[j].targets = {}
  <2>1. lifecycle = i /\ i \in exists
    BY <1>10 DEF WaitersInv, LockHeld, BusyExists
  <2>2. \A j \in Isolates : j # i => call[j].at \notin {"move", "post", "clear", "free"}
    BY <2>1, OneHolder DEF WaitersInv
  <2> QED BY <2>1, <2>2 DEF WaitersInv, BusyExists
<1>11. CASE NotifyMove(i)
  <2>0. PICK loc \in Locations : \E woken \in SUBSET byLocation[loc] :
          /\ byLocation' = [byLocation EXCEPT ![loc] = @ \ woken]
          /\ ready' = [j \in Isolates |->
                        ready[j] \cup { w.id : w \in { u \in woken : u.isolate = j } }]
          /\ Enters(i, [call[i] EXCEPT !.at = "post", !.targets = TargetsOf(woken)])
    BY <1>t, <1>11 DEF NotifyMove, Call
  <2>1. PICK woken \in SUBSET byLocation[loc] :
          /\ byLocation' = [byLocation EXCEPT ![loc] = @ \ woken]
          /\ ready' = [j \in Isolates |->
                        ready[j] \cup { w.id : w \in { u \in woken : u.isolate = j } }]
          /\ Enters(i, [call[i] EXCEPT !.at = "post", !.targets = TargetsOf(woken)])
    BY <2>0
  <2> DEFINE c == [call[i] EXCEPT !.at = "post", !.targets = TargetsOf(woken)]
  <2>2. call[i].at = "move" /\ UNCHANGED <<exists, lifecycle>>
    BY <1>11 DEF NotifyMove, InCall
  <2>3. TargetsOf(woken) \subseteq exists /\ TargetsOf(woken) \subseteq Isolates
    BY <1>t DEF WaitersInv, TargetsExist, TargetsOf, TypeOK, Waiter
  <2>4. c \in Call /\ c.at = "post" /\ c.targets = TargetsOf(woken)
    BY <1>t, <2>3 DEF Call
  <2> HIDE DEF c
  <2>5. call'[i] = c /\ \A j \in Isolates : j # i => call'[j] = call[j]
    BY <1>t, <2>1, <2>4, OneCall DEF c
  <2>6. \A l \in Locations : TargetsOf(byLocation'[l]) \subseteq TargetsOf(byLocation[l])
    BY <1>t, <2>1 DEF TargetsOf, TypeOK
  <2>7. \A j \in Isolates : j \notin TargetsOf(woken) => ready'[j] = ready[j]
    BY <2>1 DEF TargetsOf
  <2>8. LockHeld' /\ BusyExists' /\ Cleared'
    BY <1>10, <2>2, <2>4, <2>5 DEF LockHeld, BusyExists, Cleared, WaitersInv
  <2>9. TargetsExist'
    BY <2>2, <2>3, <2>4, <2>5, <2>6, <2>7 DEF TargetsExist, WaitersInv
  <2> QED BY <1>t, <2>8, <2>9 DEF WaitersInv
<1>12. ASSUME NEW j \in Isolates, NotifyPost(i, j) PROVE WaitersInv'
  <2> DEFINE c == [call[i] EXCEPT !.targets = @ \ {j}]
  <2>1. /\ call[i].at = "post" /\ Enters(i, c)
        /\ UNCHANGED <<exists, lifecycle, byLocation, ready>>
    BY <1>12 DEF NotifyPost, InCall
  <2>2. c \in Call /\ c.at = "post" /\ c.targets \subseteq call[i].targets
    BY <1>t, <2>1 DEF Call
  <2> HIDE DEF c
  <2>3. call'[i] = c /\ \A k \in Isolates : k # i => call'[k] = call[k]
    BY <1>t, <2>1, <2>2, OneCall
  <2>4. LockHeld' /\ BusyExists' /\ Cleared'
    BY <1>10, <2>1, <2>2, <2>3 DEF LockHeld, BusyExists, Cleared, WaitersInv
  <2>5. TargetsExist'
    BY <2>1, <2>2, <2>3 DEF TargetsExist, WaitersInv
  <2> QED BY <1>t, <2>4, <2>5 DEF WaitersInv
<1>13. CASE NotifyReturn(i)
  <2>1. /\ call[i].at = "post" /\ Enters(i, Idle) /\ lifecycle' = Nobody
        /\ UNCHANGED <<exists, byLocation, ready>>
    BY <1>13 DEF NotifyReturn, InCall
  <2>2. call'[i] = Idle /\ \A k \in Isolates : k # i => call'[k] = call[k]
    BY <1>q, <1>t, <2>1, OneCall
  <2>3. LockHeld' /\ BusyExists' /\ Cleared'
    BY <1>10, <1>q, <2>1, <2>2 DEF LockHeld, BusyExists, Cleared, WaitersInv
  <2>4. TargetsExist'
    BY <1>q, <2>1, <2>2 DEF TargetsExist, WaitersInv
  <2> QED BY <1>t, <2>3, <2>4 DEF WaitersInv
<1>14. CASE DisposeClear(i)
  <2> DEFINE c == [Idle EXCEPT !.at = "free"]
  <2>1. /\ call[i].at = "clear" /\ Enters(i, c)
        /\ byLocation' = QueuesWithout({ w \in Waiter : w.isolate = i })
        /\ ready' = [ready EXCEPT ![i] = {}]
        /\ UNCHANGED <<exists, lifecycle>>
    BY <1>14 DEF DisposeClear, InCall
  <2>2. c \in Call /\ c.at = "free" /\ c.targets = {}
    BY DEF Idle, Call
  <2> HIDE DEF c
  <2>3. call'[i] = c /\ \A k \in Isolates : k # i => call'[k] = call[k]
    BY <1>t, <2>1, <2>2, OneCall
  <2>4. \A l \in Locations : /\ TargetsOf(byLocation'[l]) \subseteq TargetsOf(byLocation[l])
                              /\ i \notin TargetsOf(byLocation'[l])
    BY <1>t, <2>1 DEF QueuesWithout, TargetsOf, TypeOK
  <2>5. ready'[i] = {} /\ \A j \in Isolates : ready'[j] \subseteq ready[j]
    BY <1>t, <2>1 DEF TypeOK
  <2>6. LockHeld' /\ BusyExists'
    BY <1>10, <2>1, <2>2, <2>3 DEF LockHeld, BusyExists, WaitersInv
  <2>7. Cleared'
    BY <1>10, <2>1, <2>3, <2>4, <2>5 DEF Cleared
  <2>8. TargetsExist'
    BY <2>1, <2>2, <2>3, <2>4, <2>5 DEF TargetsExist, WaitersInv
  <2> QED BY <1>t, <2>6, <2>7, <2>8 DEF WaitersInv
<1>15. CASE DisposeFree(i)
  <2>1. /\ call[i].at = "free" /\ Enters(i, Idle) /\ lifecycle' = Nobody
        /\ exists' = exists \ {i}
        /\ UNCHANGED <<byLocation, ready>>
    BY <1>15 DEF DisposeFree, InCall
  <2>2. call'[i] = Idle /\ \A k \in Isolates : k # i => call'[k] = call[k]
    BY <1>q, <1>t, <2>1, OneCall
  <2>3. LockHeld' /\ BusyExists' /\ Cleared'
    BY <1>10, <1>q, <2>1, <2>2 DEF LockHeld, BusyExists, Cleared, WaitersInv
  <2>4. ready[i] = {} /\ \A l \in Locations : i \notin TargetsOf(byLocation[l])
    BY <2>1 DEF WaitersInv, Cleared
  <2>5. TargetsExist'
    BY <1>10, <1>q, <2>1, <2>2, <2>4 DEF TargetsExist, WaitersInv
  <2> QED BY <1>t, <2>3, <2>5 DEF WaitersInv
<1> QED
  BY <1>0, <1>1, <1>2, <1>3, <1>4, <1>6, <1>7, <1>8, <1>9, <1>11, <1>12, <1>13,
     <1>14, <1>15 DEF Continue

LEMMA WaitersInvHolds == Spec => []WaitersInv
<1>1. Init => WaitersInv
  BY AtomicsWaitersAssumption, IdleIsACall
  DEF Init, WaitersInv, TypeOK, LockHeld, BusyExists, Cleared, TargetsExist,
      TargetsOf, Idle
<1>2. WaitersInv /\ [Next]_waiterVars => WaitersInv'
  <2>1. ASSUME WaitersInv, UNCHANGED waiterVars PROVE WaitersInv'
    BY <2>1 DEF waiterVars, WaitersInv, TypeOK, LockHeld, BusyExists, Cleared,
                TargetsExist, TargetsOf
  <2> QED BY <2>1, WaitersStep
<1> QED BY <1>1, <1>2, PTL DEF Spec

(* While a notify posts its tasks, outside the lock of the registry, every *)
(* isolate it posts to still exists, and the registry names none that was  *)
(* freed: the life-cycle lock that notify and Dispose share sees to it.    *)
THEOREM NoPostToFreed == Spec => []TargetsExist
<1>1. WaitersInv => TargetsExist
  BY DEF WaitersInv
<1> QED BY <1>1, WaitersInvHolds, PTL

(* Every variable keeps its shape.                                         *)
THEOREM WaitersTypeCorrect == Spec => []TypeOK
<1>1. WaitersInv => TypeOK
  BY DEF WaitersInv
<1> QED BY <1>1, WaitersInvHolds, PTL

-----------------------------------------------------------------------------
(* Pending promises.  Where an id of isolate i may wait: in a queue, in    *)
(* the ready list of i, in the drain of i - in one of them when it has a   *)
(* resolver, and nowhere else; and an id belongs to one isolate for ever.  *)
Queued(i, id, loc) == [id |-> id, isolate |-> i] \in byLocation[loc]

WaitsOnce(i, id) ==
  /\ id \in resolvers[i] <=> \/ \E loc \in Locations : Queued(i, id, loc)
                             \/ id \in ready[i]
                             \/ id \in call[i].ids
  /\ ~ (id \in ready[i] /\ id \in call[i].ids)
  /\ \A loc \in Locations :
       Queued(i, id, loc) => /\ id \notin ready[i] /\ id \notin call[i].ids
                             /\ \A l \in Locations : Queued(i, id, l) => l = loc

OnePlace == \A i \in Isolates, id \in Ids : WaitsOnce(i, id)

DrainsOnly == \A i \in Isolates : call[i].ids # {} => call[i].at = "drain"

Mentions(i, id) == id \in timers[i] \/ id \in resolvers[i]

OneOwner ==
  /\ \A i, j \in Isolates, id \in Ids : Mentions(i, id) /\ Mentions(j, id) => i = j
  /\ \A i \in Isolates, id \in Ids : Mentions(i, id) => id < nextId

PlacesInv == TypeOK /\ OnePlace /\ DrainsOnly /\ OneOwner

(* A waiter is its id and its isolate.                                     *)
LEMMA WaiterPair ==
  ASSUME TypeOK, NEW loc \in Locations, NEW w \in byLocation[loc]
  PROVE  /\ w.id \in Ids /\ w.isolate \in Isolates
         /\ w = [id |-> w.id, isolate |-> w.isolate]
         /\ Queued(w.isolate, w.id, loc)
  BY DEF TypeOK, Waiter, Queued

(* Who does not mention an id waits for nothing with it.                   *)
LEMMA NotMentioned ==
  ASSUME PlacesInv, NEW i \in Isolates, NEW id \in Ids, id \notin resolvers[i]
  PROVE  /\ \A loc \in Locations : ~ Queued(i, id, loc)
         /\ id \notin ready[i] /\ id \notin call[i].ids
  BY DEF PlacesInv, OnePlace, WaitsOnce

(* What a step does not touch stays as it is.                              *)
LEMMA SameWait ==
  ASSUME PlacesInv, NEW i \in Isolates, NEW id \in Ids,
         \A loc \in Locations : Queued(i, id, loc)' <=> Queued(i, id, loc),
         id \in resolvers'[i] <=> id \in resolvers[i],
         id \in ready'[i] <=> id \in ready[i],
         id \in call'[i].ids <=> id \in call[i].ids
  PROVE  WaitsOnce(i, id)'
  BY DEF PlacesInv, OnePlace, WaitsOnce

(* Owners change when an id is drawn, and ids are mentioned less otherwise.*)
LEMMA FewerMentions ==
  ASSUME PlacesInv, nextId' = nextId,
         \A i \in Isolates, id \in Ids : Mentions(i, id)' => Mentions(i, id)
  PROVE  OneOwner'
  BY DEF PlacesInv, OneOwner

(* A step that enters a call, or leaves one, without resolving anything.   *)
LEMMA EntersOnly ==
  ASSUME PlacesInv, TypeOK', NEW i \in Isolates, NEW c \in Call, Enters(i, c),
         call[i].at # "drain", c.ids = {},
         UNCHANGED <<byLocation, ready, resolvers, nextId>>,
         \A j \in Isolates : timers'[j] \subseteq timers[j]
  PROVE  PlacesInv'
<1>1. TypeOK
  BY DEF PlacesInv
<1>2. call'[i] = c /\ \A j \in Isolates : j # i => call'[j] = call[j]
  BY <1>1, OneCall
<1>3. call[i].ids = {}
  BY DEF PlacesInv, DrainsOnly
<1>4. OnePlace'
  <2> SUFFICES ASSUME NEW j \in Isolates, NEW id \in Ids PROVE WaitsOnce(j, id)'
    BY DEF OnePlace
  <2>1. id \in call'[j].ids <=> id \in call[j].ids
    BY <1>2, <1>3
  <2> QED BY <2>1, SameWait DEF Queued
<1>5. DrainsOnly'
  BY <1>2 DEF DrainsOnly, PlacesInv
<1>6. OneOwner'
  BY FewerMentions DEF Mentions
<1> QED BY <1>4, <1>5, <1>6 DEF PlacesInv

LEMMA PlacesStep ==
  ASSUME PlacesInv, Next
  PROVE  PlacesInv'
<1> USE AtomicsWaitersAssumption
<1>0. PICK i \in Isolates :
        \/ IsolateNew(i)
        \/ \E loc \in Locations, timed \in BOOLEAN : RegisterWaiter(i, loc, timed)
        \/ \E id \in Ids : TimerFires(i, id)
        \/ \E loc \in Locations, count \in 0 .. MaxWaiters : NotifyCall(i, loc, count)
        \/ RunTask(i)
        \/ PumpMessageLoop(i)
        \/ DisposeCall(i)
        \/ AcquireLifecycle(i)
        \/ Continue(i)
  BY DEF Next
<1>t. TypeOK /\ TypeOK' /\ call[i] \in Call
  BY Types DEF PlacesInv, TypeOK
<1>d. call[i].at # "drain" => call[i].ids = {}
  BY DEF PlacesInv, DrainsOnly
<1>s. ASSUME UNCHANGED <<byLocation, ready, resolvers, call, nextId, timers>>
      PROVE  PlacesInv'
  BY <1>t, <1>s DEF PlacesInv, OnePlace, WaitsOnce, Queued, DrainsOnly, OneOwner,
                    Mentions
<1>1. CASE IsolateNew(i)
  BY <1>1, <1>s DEF IsolateNew
<1>2. ASSUME NEW loc \in Locations, NEW timed \in BOOLEAN, RegisterWaiter(i, loc, timed)
      PROVE  PlacesInv'
  <2> DEFINE n == nextId
  <2>1. /\ n \in Ids /\ nextId' = n + 1 /\ UNCHANGED <<ready, call>>
        /\ resolvers' = [resolvers EXCEPT ![i] = @ \cup {n}]
        /\ byLocation' = [byLocation EXCEPT ![loc] = @ \cup {[id |-> n, isolate |-> i]}]
        /\ \A j \in Isolates : timers'[j] \subseteq timers[j] \cup IF j = i THEN {n} ELSE {}
    BY <1>t, <1>2 DEF RegisterWaiter, TypeOK, Ids
  <2>2. \A j \in Isolates : ~ Mentions(j, n)
    BY <1>t, <2>1 DEF PlacesInv, OneOwner, TypeOK
  <2>3. \A j \in Isolates, id \in Ids, l \in Locations :
          Queued(j, id, l)' <=> \/ Queued(j, id, l)
                                \/ j = i /\ id = n /\ l = loc
    BY <1>t, <2>1 DEF Queued, TypeOK
  <2>4. \A j \in Isolates, id \in Ids :
          id \in resolvers'[j] <=> id \in resolvers[j] \/ (j = i /\ id = n)
    BY <1>t, <2>1 DEF TypeOK
  <2> HIDE DEF n
  <2>5. OnePlace'
    <3> SUFFICES ASSUME NEW j \in Isolates, NEW id \in Ids PROVE WaitsOnce(j, id)'
      BY DEF OnePlace
    <3>1. CASE j = i /\ id = n
      <4>1. id \notin resolvers[j]
        BY <2>2, <3>1 DEF Mentions
      <4>2. /\ \A l \in Locations : ~ Queued(j, id, l)
            /\ id \notin ready[j] /\ id \notin call[j].ids
        BY <4>1, NotMentioned
      <4>3. /\ \A l \in Locations : Queued(j, id, l)' <=> l = loc
            /\ id \in resolvers'[j] /\ id \notin ready'[j] /\ id \notin call'[j].ids
        BY <2>1, <2>3, <2>4, <3>1, <4>2
      <4> QED BY <4>3 DEF WaitsOnce
    <3>2. CASE ~ (j = i /\ id = n)
      BY <2>1, <2>3, <2>4, <3>2, SameWait
    <3> QED BY <3>1, <3>2
  <2>6. OneOwner'
    <3>1. \A j \in Isolates, id \in Ids :
            Mentions(j, id)' => Mentions(j, id) \/ (j = i /\ id = n)
      BY <2>1, <2>4 DEF Mentions
    <3>2. n \in Nat /\ nextId = n /\ \A id \in Ids : id \in Nat
      BY <1>t DEF n, TypeOK, Ids
    <3>3. ASSUME NEW j \in Isolates, NEW k \in Isolates, NEW id \in Ids,
                 Mentions(j, id)', Mentions(k, id)'
          PROVE  j = k
      BY <2>2, <3>1, <3>3 DEF OneOwner, PlacesInv
    <3>4. ASSUME NEW j \in Isolates, NEW id \in Ids, Mentions(j, id)'
          PROVE  id < nextId'
      <4>1. id < nextId \/ id = n
        BY <3>1, <3>4 DEF OneOwner, PlacesInv
      <4> QED BY <2>1, <3>2, <4>1
    <3> QED BY <3>3, <3>4 DEF OneOwner
  <2>7. DrainsOnly'
    BY <2>1 DEF DrainsOnly, PlacesInv
  <2> QED BY <1>t, <2>5, <2>6, <2>7 DEF PlacesInv
<1>3. ASSUME NEW id \in Ids, TimerFires(i, id) PROVE PlacesInv'
  <2>1. /\ id \in timers[i] /\ UNCHANGED <<nextId, call>> /\ call[i].ids = {}
        /\ byLocation' = QueuesWithout({ w \in Waiter : w.id = id })
        /\ ready' = [ready EXCEPT ![i] = @ \ {id}]
        /\ resolvers' = [resolvers EXCEPT ![i] = @ \ {id}]
        /\ timers' = [timers EXCEPT ![i] = @ \ {id}]
    BY <1>d, <1>3 DEF TimerFires, CancelWaiter, IsUsable, InCall
  <2>2. \A j \in Isolates, k \in Ids, l \in Locations :
          Queued(j, k, l)' <=> Queued(j, k, l) /\ k # id
    <3>1. \A j \in Isolates, k \in Ids :
            [id |-> k, isolate |-> j] \in Waiter /\ [id |-> k, isolate |-> j].id = k
      BY DEF Waiter
    <3> QED BY <2>1, <3>1 DEF Queued, QueuesWithout
  <2>3. \A j \in Isolates, k \in Ids :
          /\ k \in ready'[j] <=> k \in ready[j] /\ ~ (j = i /\ k = id)
          /\ k \in resolvers'[j] <=> k \in resolvers[j] /\ ~ (j = i /\ k = id)
          /\ k \in timers'[j] => k \in timers[j]
    BY <1>t, <2>1 DEF TypeOK
  <2>4. \A j \in Isolates : j # i => id \notin resolvers[j]
    BY <2>1 DEF PlacesInv, OneOwner, Mentions
  <2>5. OnePlace'
    <3> SUFFICES ASSUME NEW j \in Isolates, NEW k \in Ids PROVE WaitsOnce(j, k)'
      BY DEF OnePlace
    <3>1. CASE j = i /\ k = id
      BY <2>1, <2>2, <2>3, <3>1 DEF WaitsOnce
    <3>2. CASE j # i /\ k = id
      <4>1. \A l \in Locations : ~ Queued(j, k, l)
        BY <2>4, <3>2, NotMentioned
      <4> QED BY <2>1, <2>2, <2>3, <3>2, <4>1, SameWait
    <3>3. CASE k # id
      BY <2>1, <2>2, <2>3, <3>3, SameWait
    <3> QED BY <3>1, <3>2, <3>3
  <2>6. OneOwner'
    BY <2>1, <2>3, FewerMentions DEF Mentions
  <2>7. DrainsOnly'
    BY <2>1 DEF DrainsOnly, PlacesInv
  <2> QED BY <1>t, <2>5, <2>6, <2>7 DEF PlacesInv
<1>4. ASSUME NEW loc \in Locations, NEW count \in 0 .. MaxWaiters, NotifyCall(i, loc, count)
      PROVE  PlacesInv'
  <2> DEFINE c == [at |-> "notify", loc |-> {loc}, count |-> count, ids |-> {},
                   targets |-> {}]
  <2>1. c \in Call /\ c.ids = {}
    BY NotifyIsACall
  <2>2. /\ Enters(i, c) /\ call[i].at # "drain"
        /\ UNCHANGED <<byLocation, ready, resolvers, nextId, timers>>
    BY <1>4 DEF NotifyCall, IsUsable, InCall
  <2> HIDE DEF c
  <2> QED BY <1>t, <2>1, <2>2, EntersOnly
<1>5. ASSUME DrainTake(i), UNCHANGED <<byLocation, resolvers, nextId, timers>>
      PROVE  PlacesInv'
  <2>1. CASE ready[i] = {}
    BY <1>5, <1>s, <2>1 DEF DrainTake
  <2>2. CASE ready[i] # {}
    <3> DEFINE c == [Idle EXCEPT !.at = "drain", !.ids = ready[i]]
    <3>1. /\ Enters(i, c) /\ ready' = [ready EXCEPT ![i] = {}] /\ call[i].ids = {}
      BY <1>5, <1>d, <2>2 DEF DrainTake, InCall
    <3>2. c \in Call /\ c.ids = ready[i] /\ c.at = "drain"
      BY <1>t DEF Idle, Call, TypeOK
    <3>3. call'[i] = c /\ \A j \in Isolates : j # i => call'[j] = call[j]
      BY <1>t, <3>1, <3>2, OneCall
    <3> HIDE DEF c
    <3>4. ready'[i] = {} /\ \A j \in Isolates : j # i => ready'[j] = ready[j]
      BY <1>t, <3>1 DEF TypeOK
    <3>5. OnePlace'
      <4> SUFFICES ASSUME NEW j \in Isolates, NEW k \in Ids PROVE WaitsOnce(j, k)'
        BY DEF OnePlace
      <4>1. CASE j = i
        <5>1. WaitsOnce(j, k)
          BY DEF PlacesInv, OnePlace
        <5>2. \A l \in Locations : Queued(j, k, l)' <=> Queued(j, k, l)
          BY <1>5 DEF Queued
        <5>3. /\ k \in call'[j].ids <=> k \in ready[j]
              /\ k \notin call[j].ids /\ k \notin ready'[j]
              /\ k \in resolvers'[j] <=> k \in resolvers[j]
          BY <1>5, <3>1, <3>2, <3>3, <3>4, <4>1
        <5> QED BY <5>1, <5>2, <5>3 DEF WaitsOnce
      <4>2. CASE j # i
        BY <1>5, <3>3, <3>4, <4>2, SameWait DEF Queued
      <4> QED BY <4>1, <4>2
    <3>6. OneOwner'
      BY <1>5, FewerMentions DEF Mentions
    <3>7. DrainsOnly'
      BY <3>2, <3>3 DEF DrainsOnly, PlacesInv
    <3> QED BY <1>t, <3>5, <3>6, <3>7 DEF PlacesInv
  <2> QED BY <2>1, <2>2
<1>6. CASE RunTask(i) \/ PumpMessageLoop(i)
  BY <1>5, <1>6 DEF RunTask, PumpMessageLoop
<1>7. CASE DisposeCall(i)
  <2>1. [Idle EXCEPT !.at = "dispose"] \in Call /\ [Idle EXCEPT !.at = "dispose"].ids = {}
    BY DEF Idle, Call
  <2> QED BY <1>t, <1>7, <2>1, EntersOnly DEF DisposeCall, IsUsable, InCall
<1>8. ASSUME NEW id \in Ids, DrainResolve(i, id) PROVE PlacesInv'
  <2> DEFINE c == IF call[i].ids = {id} THEN Idle ELSE [call[i] EXCEPT !.ids = @ \ {id}]
  <2>1. /\ call[i].at = "drain" /\ Enters(i, c) /\ id \in call[i].ids
        /\ resolvers' = [resolvers EXCEPT ![i] = @ \ {id}]
        /\ UNCHANGED <<byLocation, ready, nextId, timers>>
    BY <1>8 DEF DrainResolve, InCall
  <2>2. c \in Call /\ c.ids = call[i].ids \ {id} /\ (c.ids # {} => c.at = "drain")
    BY <1>t, <2>1, IdleIsACall DEF Call, Idle
  <2> HIDE DEF c
  <2>3. call'[i] = c /\ \A j \in Isolates : j # i => call'[j] = call[j]
    BY <1>t, <2>1, <2>2, OneCall
  <2>4. \A j \in Isolates, k \in Ids :
          /\ k \in resolvers'[j] <=> k \in resolvers[j] /\ ~ (j = i /\ k = id)
          /\ k \in call'[j].ids <=> k \in call[j].ids /\ ~ (j = i /\ k = id)
    BY <1>t, <2>1, <2>2, <2>3 DEF TypeOK
  <2>5. OnePlace'
    <3> SUFFICES ASSUME NEW j \in Isolates, NEW k \in Ids PROVE WaitsOnce(j, k)'
      BY DEF OnePlace
    <3>0. \A l \in Locations : Queued(j, k, l)' <=> Queued(j, k, l)
      BY <2>1 DEF Queued
    <3>1. CASE j = i /\ k = id
      <4>1. WaitsOnce(j, k)
        BY DEF PlacesInv, OnePlace
      <4>2. /\ k \in call[j].ids /\ k \notin call'[j].ids
            /\ k \notin resolvers'[j] /\ ready' = ready
        BY <2>1, <2>4, <3>1
      <4> QED BY <3>0, <4>1, <4>2 DEF WaitsOnce
    <3>2. CASE ~ (j = i /\ k = id)
      BY <2>1, <2>4, <3>0, <3>2, SameWait
    <3> QED BY <3>1, <3>2
  <2>6. OneOwner'
    BY <2>1, <2>4, FewerMentions DEF Mentions
  <2>7. DrainsOnly'
    BY <2>2, <2>3 DEF DrainsOnly, PlacesInv
  <2> QED BY <1>t, <2>5, <2>6, <2>7 DEF PlacesInv
<1>9. CASE AcquireLifecycle(i)
  <2> DEFINE c == IF NotifyLock(i) THEN [call[i] EXCEPT !.at = "move"]
                  ELSE [Idle EXCEPT !.at = "clear"]
  <2>1. /\ call[i].at \in {"notify", "dispose"} /\ Enters(i, c)
        /\ UNCHANGED <<byLocation, ready, resolvers, nextId, timers>>
    BY <1>9 DEF AcquireLifecycle, NotifyLock, DisposeLock, InCall
  <2>2. call[i].ids = {}
    BY <1>d, <2>1
  <2>3. c \in Call /\ c.ids = {}
    BY <1>t, <2>2 DEF Call, Idle
  <2> HIDE DEF c
  <2> QED BY <1>t, <2>1, <2>3, EntersOnly
<1>10. CASE NotifyMove(i)
  <2>0. PICK loc \in Locations : \E woken \in SUBSET byLocation[loc] :
          /\ byLocation' = [byLocation EXCEPT ![loc] = @ \ woken]
          /\ ready' = [j \in Isolates |->
                        ready[j] \cup { w.id : w \in { u \in woken : u.isolate = j } }]
          /\ Enters(i, [call[i] EXCEPT !.at = "post", !.targets = TargetsOf(woken)])
    BY <1>t, <1>10 DEF NotifyMove, Call
  <2>1. PICK woken \in SUBSET byLocation[loc] :
          /\ byLocation' = [byLocation EXCEPT ![loc] = @ \ woken]
          /\ ready' = [j \in Isolates |->
                        ready[j] \cup { w.id : w \in { u \in woken : u.isolate = j } }]
          /\ Enters(i, [call[i] EXCEPT !.at = "post", !.targets = TargetsOf(woken)])
    BY <2>0
  <2> DEFINE c == [call[i] EXCEPT !.at = "post", !.targets = TargetsOf(woken)]
  <2>2. /\ call[i].ids = {} /\ UNCHANGED <<resolvers, nextId, timers>>
    BY <1>d, <1>10 DEF NotifyMove, InCall
  <2>3. c \in Call /\ c.ids = {}
    <3>1. TargetsOf(woken) \subseteq Isolates
      BY <1>t DEF TargetsOf, TypeOK, Waiter
    <3> QED BY <1>t, <2>2, <3>1 DEF Call
  <2>4. call'[i] = c /\ \A j \in Isolates : j # i => call'[j] = call[j]
    BY <1>t, <2>1, <2>3, OneCall
  <2> HIDE DEF c
  <2>5. \A j \in Isolates : call'[j].ids = call[j].ids
    BY <2>2, <2>3, <2>4
  <2>6. ASSUME NEW j \in Isolates, NEW k \in Ids, [id |-> k, isolate |-> j] \in woken
        PROVE  WaitsOnce(j, k)'
    <3>1. Queued(j, k, loc) /\ WaitsOnce(j, k)
      BY <2>6 DEF Queued, PlacesInv, OnePlace
    <3>2. \A l \in Locations : ~ Queued(j, k, l)'
      BY <1>t, <2>1, <2>6, <3>1 DEF Queued, WaitsOnce, TypeOK
    <3>3. k \in ready'[j]
      <4>1. /\ [id |-> k, isolate |-> j].id = k
            /\ [id |-> k, isolate |-> j] \in { u \in woken : u.isolate = j }
        BY <2>6
      <4> QED BY <2>1, <4>1
    <3> QED BY <2>2, <2>5, <3>1, <3>2, <3>3 DEF WaitsOnce
  <2>7. ASSUME NEW j \in Isolates, NEW k \in Ids, [id |-> k, isolate |-> j] \notin woken
        PROVE  WaitsOnce(j, k)'
    <3>1. \A l \in Locations : Queued(j, k, l)' <=> Queued(j, k, l)
      BY <1>t, <2>1, <2>7 DEF Queued, TypeOK
    <3>2. \A w \in woken : w.isolate = j => w.id # k
      BY <1>t, <2>7, WaiterPair
    <3>3. k \in ready'[j] <=> k \in ready[j]
      BY <2>1, <3>2
    <3> QED BY <2>2, <2>5, <3>1, <3>3, SameWait
  <2>8. OnePlace'
    BY <2>6, <2>7 DEF OnePlace
  <2>9. OneOwner'
    BY <2>2, FewerMentions DEF Mentions
  <2>10. DrainsOnly'
    BY <2>3, <2>4 DEF DrainsOnly, PlacesInv
  <2> QED BY <1>t, <2>8, <2>9, <2>10 DEF PlacesInv
<1>11. ASSUME NEW j \in Isolates, NotifyPost(i, j) PROVE PlacesInv'
  <2> DEFINE c == [call[i] EXCEPT !.targets = @ \ {j}]
  <2>1. /\ call[i].at = "post" /\ Enters(i, c)
        /\ UNCHANGED <<byLocation, ready, resolvers, nextId, timers>>
    BY <1>11 DEF NotifyPost, InCall
  <2>2. c \in Call /\ c.ids = {}
    BY <1>d, <1>t, <2>1 DEF Call
  <2> HIDE DEF c
  <2> QED BY <1>t, <2>1, <2>2, EntersOnly
<1>12. CASE NotifyReturn(i) \/ DisposeFree(i)
  <2>1. Idle \in Call /\ Idle.ids = {}
    BY IdleIsACall DEF Idle
  <2>2. /\ call[i].at # "drain" /\ Enters(i, Idle)
        /\ UNCHANGED <<byLocation, ready, resolvers, nextId>>
        /\ \A j \in Isolates : timers'[j] \subseteq timers[j]
    BY <1>t, <1>12 DEF NotifyReturn, DisposeFree, InCall, TypeOK
  <2> QED BY <1>t, <2>1, <2>2, EntersOnly
<1>13. CASE DisposeClear(i)
  <2> DEFINE c == [Idle EXCEPT !.at = "free"]
  <2>1. /\ call[i].ids = {} /\ Enters(i, c) /\ UNCHANGED <<nextId, timers>>
        /\ byLocation' = QueuesWithout({ w \in Waiter : w.isolate = i })
        /\ ready' = [ready EXCEPT ![i] = {}]
        /\ resolvers' = [resolvers EXCEPT ![i] = {}]
    BY <1>d, <1>13 DEF DisposeClear, InCall
  <2>2. c \in Call /\ c.ids = {}
    BY DEF Idle, Call
  <2> HIDE DEF c
  <2>3. call'[i] = c /\ \A j \in Isolates : j # i => call'[j] = call[j]
    BY <1>t, <2>1, <2>2, OneCall
  <2>4. \A j \in Isolates, k \in Ids, l \in Locations :
          Queued(j, k, l)' <=> Queued(j, k, l) /\ j # i
    <3>1. \A j \in Isolates, k \in Ids :
            [id |-> k, isolate |-> j] \in Waiter /\ [id |-> k, isolate |-> j].isolate = j
      BY DEF Waiter
    <3> QED BY <2>1, <3>1 DEF Queued, QueuesWithout
  <2>5. /\ ready'[i] = {} /\ resolvers'[i] = {}
        /\ \A j \in Isolates : j # i => ready'[j] = ready[j] /\ resolvers'[j] = resolvers[j]
    BY <1>t, <2>1 DEF TypeOK
  <2>6. OnePlace'
    <3> SUFFICES ASSUME NEW j \in Isolates, NEW k \in Ids PROVE WaitsOnce(j, k)'
      BY DEF OnePlace
    <3>1. CASE j = i
      BY <2>2, <2>3, <2>4, <2>5, <3>1 DEF WaitsOnce
    <3>2. CASE j # i
      BY <2>3, <2>4, <2>5, <3>2, SameWait
    <3> QED BY <3>1, <3>2
  <2>7. OneOwner'
    <3>1. \A j \in Isolates, k \in Ids : k \in resolvers'[j] => k \in resolvers[j]
      BY <2>5
    <3> QED BY <2>1, <3>1, FewerMentions DEF Mentions
  <2>8. DrainsOnly'
    BY <2>2, <2>3 DEF DrainsOnly, PlacesInv
  <2> QED BY <1>t, <2>6, <2>7, <2>8 DEF PlacesInv
<1> QED
  BY <1>0, <1>1, <1>2, <1>3, <1>4, <1>6, <1>7, <1>8, <1>9, <1>10, <1>11, <1>12,
     <1>13 DEF Continue

(* A promise of waitAsync that is pending waits in exactly one queue, or   *)
(* in the ready list or the drain of its own isolate, and nothing that is  *)
(* resolved, timed out or disposed waits anywhere: notify, the timeout of  *)
(* the shim, drains and Dispose hand every id on exactly once, for any     *)
(* number of threads that do so at the same time.                          *)
THEOREM WaitingInOnePlace == Spec => []PendingInOnePlace
<1>1. Init => PlacesInv
  <2>1. Init => TypeOK
    BY AtomicsWaitersAssumption, IdleIsACall DEF Init, TypeOK
  <2> QED BY <2>1, AtomicsWaitersAssumption
          DEF Init, PlacesInv, OnePlace, WaitsOnce, Queued, DrainsOnly, OneOwner,
              Mentions, Idle
<1>2. PlacesInv /\ [Next]_waiterVars => PlacesInv'
  <2>1. ASSUME PlacesInv, UNCHANGED waiterVars PROVE PlacesInv'
    BY <2>1 DEF waiterVars, PlacesInv, TypeOK, OnePlace, WaitsOnce, Queued,
                DrainsOnly, OneOwner, Mentions
  <2> QED BY <2>1, PlacesStep
<1>3. PlacesInv => PendingInOnePlace
  <2> SUFFICES ASSUME PlacesInv, NEW i \in Isolates, NEW id \in Ids
               PROVE  Cardinality(Places(i, id)) = IF id \in resolvers[i] THEN 1 ELSE 0
    BY DEF PendingInOnePlace
  <2>1. WaitsOnce(i, id)
    BY DEF PlacesInv, OnePlace
  <2>2. CASE id \notin resolvers[i]
    <3>1. Places(i, id) = {}
      BY <2>1, <2>2 DEF WaitsOnce, Places, Queues, Lists, Queued
    <3> QED BY <2>2, <3>1, FS_EmptySet
  <2>3. CASE id \in resolvers[i]
    <3>1. CASE id \in ready[i]
      <4>1. Places(i, id) = {<<"list", "ready">>}
        BY <2>1, <3>1 DEF WaitsOnce, Places, Queues, Lists, Queued
      <4> QED BY <2>3, <4>1, FS_Singleton
    <3>2. CASE id \in call[i].ids
      <4>1. Places(i, id) = {<<"list", "drain">>}
        BY <2>1, <3>2 DEF WaitsOnce, Places, Queues, Lists, Queued
      <4> QED BY <2>3, <4>1, FS_Singleton
    <3>3. ASSUME NEW loc \in Locations, Queued(i, id, loc)
          PROVE  Cardinality(Places(i, id)) = 1
      <4>1. Queues(i, id) = {loc} /\ Lists(i, id) = {}
        BY <2>1, <3>3 DEF WaitsOnce, Queues, Lists, Queued
      <4>2. Places(i, id) = {<<"queue", loc>>}
        BY <4>1 DEF Places
      <4> QED BY <4>2, FS_Singleton
    <3> QED BY <2>1, <2>3, <3>1, <3>2, <3>3 DEF WaitsOnce
  <2> QED BY <2>2, <2>3
<1> QED BY <1>1, <1>2, <1>3, PTL DEF Spec
=============================================================================
