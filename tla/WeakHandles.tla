----------------------------- MODULE WeakHandles -----------------------------
(***************************************************************************)
(* Weak handles of the QuickJS backend and a requested garbage collection  *)
(* (src/quickjs/misc.rs).                                                  *)
(*                                                                         *)
(* A weak handle is a persistent cell with a count of its own, like any    *)
(* Global, and a record with a native WeakRef.  A collection gives the     *)
(* counts of the cells back, runs the engine's collector, and then goes    *)
(* through the records: a target that is still there is put back into its  *)
(* cell, for one that is gone the embedder's callbacks run.  Embedder code *)
(* runs in the middle of this: the GC epilogue callbacks before the        *)
(* records are looked at, the finalizers between one record and the next.  *)
(*                                                                         *)
(* Strings and other primitives have no WeakRef; handles are asked instead.*)
(***************************************************************************)
EXTENDS Naturals, Sequences, FiniteSets, SequencesExt, Functions

CONSTANTS
  Values,     \* engine values the embedder has weak handles on
  Objects,    \* those of them a WeakRef can be made for
  Undefined,  \* not a counted value
  Cells,      \* addresses of persistent cells (reused when freed)
  Uses        \* what embedder code does in the callbacks, see Usages

Usages == {"epilogue_new", "finalizer_reset"}

ASSUME WeakHandlesAssumption ==
  /\ Objects \subseteq Values
  /\ Undefined \notin Values
  /\ Uses \subseteq Usages

VARIABLES
  held,       \* who else keeps each value: handles, the heap
  made,       \* values made so far
  cells,      \* the cells of weak handles, with their values
  leaked,     \* values with a count that nobody owns
  weak,       \* IsoState::weak_handles
  taken,      \* the records collect_weak_handles took and has not looked at
  survivors,  \* those it will give back
  phase       \* which code runs

weakVars == <<held, made, cells, leaked, weak, taken, survivors, phase>>

-----------------------------------------------------------------------------
Holders == {"handle", "heap"}

Record == [cell : Cells, target : Values]

Phases == {"idle", "epilogue", "collect", "finalizer"}

IsAlive(v) ==
  held[v] # {} \/ v \in leaked \/ \E c \in DOMAIN cells : cells[c] = v

Records == Range(weak) \cup Range(taken) \cup Range(survivors)

EmbedderRuns == phase # "collect"

IsLiveByHandles(r) == "handle" \in held[r.target]

(* JS_WeakRef or, for want of one, is_strongly_reachable_from_handles.     *)
IsLive(r) ==
  IF r.target \in Objects THEN IsAlive(r.target) ELSE IsLiveByHandles(r)

-----------------------------------------------------------------------------
(* What the embedder and JavaScript do with the values themselves.         *)
NewValue(v) ==
  /\ EmbedderRuns
  /\ v \notin made
  /\ made' = made \cup {v}
  /\ held' = [held EXCEPT ![v] = {"handle"}]
  /\ UNCHANGED <<cells, leaked, weak, taken, survivors, phase>>

Hold(v, holder) ==
  /\ EmbedderRuns
  /\ held[v] # {}
  /\ held' = [held EXCEPT ![v] = @ \cup {holder}]
  /\ UNCHANGED <<made, cells, leaked, weak, taken, survivors, phase>>

Release(v, holder) ==
  /\ EmbedderRuns
  /\ held' = [held EXCEPT ![v] = @ \ {holder}]
  /\ UNCHANGED <<made, cells, leaked, weak, taken, survivors, phase>>

(* Weak::to_local: a local of what the cell holds.                         *)
ReadWeak(c) ==
  /\ EmbedderRuns
  /\ c \in DOMAIN cells
  /\ cells[c] \in Values
  /\ held' = [held EXCEPT ![cells[c]] = @ \cup {"handle"}]
  /\ UNCHANGED <<made, cells, leaked, weak, taken, survivors, phase>>

(* v8__Global__NewWeak.                                                    *)
NewWeak(c, v) ==
  /\ EmbedderRuns
  /\ phase = "epilogue" => "epilogue_new" \in Uses
  /\ c \notin DOMAIN cells
  /\ "handle" \in held[v]
  /\ cells' = [d \in DOMAIN cells \cup {c} |-> IF d = c THEN v ELSE cells[d]]
  /\ weak' = Append(weak, [cell |-> c, target |-> v])
  /\ UNCHANGED <<held, made, leaked, taken, survivors, phase>>

Freed(c) == [d \in DOMAIN cells \ {c} |-> cells[d]]

(* v8__Global__Reset: the record is looked for among weak_handles.         *)
Reset(c) ==
  /\ cells' = Freed(c)
  /\ weak' = RemoveFirstMatch(weak, LAMBDA r : r.cell = c)

(* The embedder drops a weak handle.  In a finalizer it may be one whose   *)
(* record collect_weak_handles has taken.                                  *)
DropWeak(c) ==
  /\ EmbedderRuns
  /\ c \in DOMAIN cells
  /\ phase = "finalizer" => \/ "finalizer_reset" \in Uses
                            \/ c \in { r.cell : r \in Range(weak) }
  /\ Reset(c)
  /\ UNCHANGED <<held, made, leaked, taken, survivors, phase>>

-----------------------------------------------------------------------------
(* A mutant of ReleaseTargets: not those that a handle keeps anyway.       *)
ReleaseUnheld ==
  LET weakRefs == { r.cell : r \in { q \in Range(weak) : /\ q.target \in Objects
                                                       /\ ~ IsLiveByHandles(q) } }
  IN [c \in DOMAIN cells |-> IF c \in weakRefs THEN Undefined ELSE cells[c]]

(* release_weak_handle_targets.                                            *)
ReleaseTargets ==
  LET weakRefs == { r.cell : r \in { q \in Range(weak) : q.target \in Objects } }
  IN [c \in DOMAIN cells |-> IF c \in weakRefs THEN Undefined ELSE cells[c]]

(* v8__Isolate__RequestGarbageCollectionForTesting as far as the epilogue  *)
(* callbacks: JS_RunGC drops what only a garbage cycle holds.              *)
RequestGC(garbage) ==
  /\ phase = "idle"
  /\ \A v \in garbage : held[v] = {"heap"}
  /\ cells' = ReleaseTargets
  /\ held' = [v \in Values |-> IF v \in garbage THEN {} ELSE held[v]]
  /\ phase' = "epilogue"
  /\ UNCHANGED <<made, leaked, weak, taken, survivors>>

(* collect_weak_handles takes the records ...                              *)
CollectStart ==
  /\ phase = "epilogue"
  /\ taken' = weak
  /\ weak' = <<>>
  /\ phase' = "collect"
  /\ UNCHANGED <<held, made, cells, leaked, survivors>>

SurviveUnrestored(r) == UNCHANGED <<cells, leaked>>

(* ... and keeps those whose target is there.  What the cell held is       *)
(* overwritten: a count it still had is nobody's from then on.             *)
Survive(r) ==
  IF r.target \in Objects /\ r.cell \in DOMAIN cells
  THEN /\ cells' = [cells EXCEPT ![r.cell] = r.target]
       /\ leaked' = leaked \cup ({cells[r.cell]} \cap Values)
  ELSE UNCHANGED <<cells, leaked>>

CollectLive ==
  /\ phase = "collect"
  /\ taken # <<>>
  /\ IsLive(Head(taken))
  /\ Survive(Head(taken))
  /\ survivors' = Append(survivors, Head(taken))
  /\ taken' = Tail(taken)
  /\ UNCHANGED <<held, made, weak, phase>>

(* For the others the first-pass callback runs, which resets the handle,   *)
(* and the second-pass callback, where the embedder's finalizer runs.      *)
CollectDead ==
  /\ phase = "collect"
  /\ taken # <<>>
  /\ ~ IsLive(Head(taken))
  /\ Reset(Head(taken).cell)
  /\ taken' = Tail(taken)
  /\ phase' = "finalizer"
  /\ UNCHANGED <<held, made, leaked, survivors>>

FinalizerReturns ==
  /\ phase = "finalizer"
  /\ phase' = "collect"
  /\ UNCHANGED <<held, made, cells, leaked, weak, taken, survivors>>

CollectEndForgets ==
  /\ phase = "collect"
  /\ taken = <<>>
  /\ weak' = survivors
  /\ survivors' = <<>>
  /\ phase' = "idle"
  /\ UNCHANGED <<held, made, cells, leaked, taken>>

(* The survivors go back, behind what finalizers have added.               *)
CollectEnd ==
  /\ phase = "collect"
  /\ taken = <<>>
  /\ weak' = weak \o survivors
  /\ survivors' = <<>>
  /\ phase' = "idle"
  /\ UNCHANGED <<held, made, cells, leaked, taken>>

-----------------------------------------------------------------------------
WeakInit ==
  /\ held = [v \in Values |-> {}]
  /\ made = {}
  /\ cells = [c \in {} |-> Undefined]
  /\ leaked = {}
  /\ weak = <<>>
  /\ taken = <<>>
  /\ survivors = <<>>
  /\ phase = "idle"

WeakNext ==
  \/ \E v \in Values : \/ NewValue(v)
                       \/ \E holder \in Holders : Hold(v, holder) \/ Release(v, holder)
                       \/ \E c \in Cells : NewWeak(c, v)
  \/ \E c \in Cells : ReadWeak(c) \/ DropWeak(c)
  \/ \E garbage \in SUBSET Values : RequestGC(garbage)
  \/ CollectStart
  \/ CollectLive
  \/ CollectDead
  \/ FinalizerReturns
  \/ CollectEnd

WeakSpec == WeakInit /\ [][WeakNext]_weakVars

-----------------------------------------------------------------------------
WeakTypeOK ==
  /\ held \in [Values -> SUBSET Holders]
  /\ made \subseteq Values
  /\ DOMAIN cells \subseteq Cells
  /\ cells \in [DOMAIN cells -> Values \cup {Undefined}]
  /\ leaked \subseteq Values
  /\ {weak, taken, survivors} \subseteq Seq(Record)
  /\ phase \in Phases
  /\ phase \in {"idle", "epilogue"} => taken = <<>> /\ survivors = <<>>

(* Every record leads to an allocated cell and every weak handle has one   *)
(* record, in one of the three lists: nothing collect_weak_handles looks   *)
(* at has been freed by the callbacks it ran before, and no handle made or *)
(* kept meanwhile is forgotten.                                            *)
RecordsMatchCells ==
  /\ { r.cell : r \in Records } = DOMAIN cells
  /\ Cardinality(DOMAIN cells) = Len(weak) + Len(taken) + Len(survivors)

(* Outside a collection a weak handle that has not been reported dead      *)
(* reads as its target, however many collections it has been through.      *)
WeakReadsTarget ==
  phase = "idle" => \A r \in Records : r.cell \in DOMAIN cells
                                         => cells[r.cell] = r.target

(* A cell owns one count: what it is given and what it gives back balance. *)
OneCountPerCell == leaked = {}

(* While a collection is under way, an object is kept by handles or the    *)
(* heap, by a handle that has survived or by one that a finalizer made: a  *)
(* weak handle that is still to be looked at keeps nothing, whatever the   *)
(* callbacks have kept and dropped (release_weak_handle_targets).          *)
WeakKeepsNothing ==
  phase # "idle" =>
    \A v \in Objects : IsAlive(v) =>
      \/ held[v] # {}
      \/ \E r \in Range(survivors) : r.target = v
      \/ phase # "epilogue" /\ \E r \in Range(weak) : r.target = v
=============================================================================
