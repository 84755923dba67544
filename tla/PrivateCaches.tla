---------------------------- MODULE PrivateCaches ----------------------------
(***************************************************************************)
(* What the module caches promise: every isolate has caches of its own.    *)
(* Only the isolate that is current records anything, what it recorded     *)
(* stays until it is disposed, and an isolate that is created at the       *)
(* address of a disposed one finds nothing.                                *)
(***************************************************************************)
CONSTANTS Isolates, NoIso, Entries

VARIABLES
  alive,    \* isolates that exist
  running,  \* the isolate that is current, or NoIso
  caches    \* what each isolate has recorded

privateVars == <<alive, running, caches>>

PrivateInit ==
  /\ alive = {}
  /\ running = NoIso
  /\ caches = [i \in Isolates |-> {}]

Create(i) ==
  /\ i \notin alive
  /\ caches[i] = {}
  /\ alive' = alive \cup {i}
  /\ UNCHANGED <<running, caches>>

Switch(i) ==
  /\ i \in alive \cup {NoIso}
  /\ running' = i
  /\ UNCHANGED <<alive, caches>>

Record(e) ==
  /\ running # NoIso
  /\ caches' = [caches EXCEPT ![running] = @ \cup {e}]
  /\ UNCHANGED <<alive, running>>

Destroy(i) ==
  /\ i \in alive
  /\ alive' = alive \ {i}
  /\ running' \in (alive \ {i}) \cup {NoIso}
  /\ caches' = [caches EXCEPT ![i] = {}]

PrivateNext ==
  \/ \E i \in Isolates : Create(i) \/ Destroy(i)
  \/ \E i \in Isolates \cup {NoIso} : Switch(i)
  \/ \E e \in Entries : Record(e)

PrivateSpec == PrivateInit /\ [][PrivateNext]_privateVars
=============================================================================
