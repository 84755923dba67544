-------------------------------- MODULE Jobs --------------------------------
(***************************************************************************)
(* Promise jobs of the isolates of one thread in the QuickJS backend: who  *)
(* runs them (src/quickjs/isolate.rs, module.rs, init.rs) and the          *)
(* continuation-preserved embedder data they carry.                        *)
(*                                                                         *)
(* Each isolate has one queue.  It is drained by a checkpoint, at the end  *)
(* of a script when its policy is Auto, and at the end of an evaluation of *)
(* a module; one job runs when the message loop is pumped.  A job, like    *)
(* any script, may call the embedder, which may do all of this again, for  *)
(* this isolate or for another one it enters.  The engine sets the data    *)
(* that was captured with a job before it runs the job, and undefined      *)
(* after it.                                                               *)
(***************************************************************************)
EXTENDS Integers, Sequences, SequencesExt, FiniteSets

CONSTANTS
  Isolates,
  AutoIsolates,  \* those with MicrotasksPolicy::Auto, the others are Explicit
  Tasks,         \* what code runs for; a task puts itself into the data
  None,          \* undefined
  MaxJobs,       \* bound on the jobs ever enqueued
  MaxDepth       \* bound on nested code

ASSUME JobsAssumption ==
  /\ AutoIsolates \subseteq Isolates
  /\ None \notin Tasks
  /\ MaxJobs \in Nat
  /\ MaxDepth \in Nat \ {0}

VARIABLES
  queue,    \* the captured data of each pending job
  enqueued, \* how many jobs there were
  data,     \* IsoState::continuation_data
  stack     \* calls in progress, innermost last

queueVars == <<queue, enqueued>>
jobsVars == <<queue, enqueued, data, stack>>

-----------------------------------------------------------------------------
(* Code of an isolate: a script, a job, or the evaluation of a module,     *)
(* which MODULE_EVAL_DEPTH counts if it is guarded.                        *)
Code(kind, i, task) == [kind |-> kind, iso |-> i, task |-> task]

Module(i, task, guarded) ==
  [kind |-> "module", iso |-> i, task |-> task, guarded |-> guarded]

(* A loop over JS_ExecutePendingJob.                                       *)
Drain(i, by, guarded) ==
  [kind |-> "drain", iso |-> i, by |-> by, guarded |-> guarded]

Top == Last(stack)
Below == Front(stack)

IsTop(kind) == stack # <<>> /\ Top.kind = kind

EmbedderRuns == ~IsTop("drain")

HasRoom ==
  Cardinality({ k \in DOMAIN stack : stack[k].kind # "drain" }) < MaxDepth

Push(f) == stack' = Append(stack, f)

(* What code of i runs for: the task of the code of i that has called it,  *)
(* else of the data it finds.                                              *)
Codes(i) == { k \in DOMAIN stack : stack[k].iso = i /\ stack[k].kind # "drain" }

TasksOf(i) ==
  IF Codes(i) # {}
    THEN { stack[k].task : k \in { k \in Codes(i) : \A j \in Codes(i) : j <= k } }
    ELSE IF data[i] # None THEN {data[i]} ELSE Tasks

(* A mutant of Nested: the depth of one isolate counts for the others.     *)
NestedOnThread(i, frames) ==
  \E k \in DOMAIN frames :
    frames[k].kind \in {"module", "drain"} /\ frames[k].guarded

(* enter_module_eval.  The depth is the isolate's: set_current swaps it,   *)
(* and an evaluation begins and ends with its isolate current.             *)
Nested(i, frames) ==
  \E k \in DOMAIN frames :
    /\ frames[k].kind \in {"module", "drain"} /\ frames[k].guarded
    /\ frames[k].iso = i

(* JOBS_DRAINING, which is the thread's.                                   *)
Draining(frames) ==
  \E k \in DOMAIN frames : frames[k].kind = "drain" /\ frames[k].by = "module"

-----------------------------------------------------------------------------
(* v8__Script__Run, with the isolate entered.                              *)
RunScript(i) ==
  /\ EmbedderRuns /\ HasRoom
  /\ \E t \in TasksOf(i) : Push(Code("script", i, t))
  /\ UNCHANGED <<queueVars, data>>

(* run_microtasks_if_auto, wherever the script was run.                    *)
ScriptReturns ==
  /\ IsTop("script")
  /\ stack' = IF Top.iso \in AutoIsolates
                THEN Append(Below, Drain(Top.iso, "script", FALSE)) ELSE Below
  /\ UNCHANGED <<queueVars, data>>

ScriptThrows ==
  /\ IsTop("script")
  /\ stack' = Below
  /\ UNCHANGED <<queueVars, data>>

(* A mutant of Checkpoint: it follows the policy.                          *)
CheckpointIfAuto(i) ==
  /\ EmbedderRuns /\ HasRoom
  /\ i \in AutoIsolates
  /\ Push(Drain(i, "checkpoint", FALSE))
  /\ UNCHANGED <<queueVars, data>>

(* v8__Isolate__PerformMicrotaskCheckpoint and                             *)
(* v8__MicrotaskQueue__PerformCheckpoint, whatever the policy.             *)
Checkpoint(i) ==
  /\ EmbedderRuns /\ HasRoom
  /\ Push(Drain(i, "checkpoint", FALSE))
  /\ UNCHANGED <<queueVars, data>>

(* v8__Platform__PumpMessageLoop.                                          *)
PumpMessageLoop(i) ==
  /\ EmbedderRuns /\ HasRoom
  /\ queue[i] # <<>>
  /\ Push(Drain(i, "pump", FALSE))
  /\ UNCHANGED <<queueVars, data>>

(* v8__Module__Evaluate; v8__Module__GetModuleNamespace and                *)
(* link_synthetic_module evaluate without a guard.                         *)
Evaluate(i, guarded) ==
  /\ EmbedderRuns /\ HasRoom
  /\ \E t \in TasksOf(i) : Push(Module(i, t, guarded))
  /\ UNCHANGED <<queueVars, data>>

(* The drain_jobs of module.rs, unless the isolate is in an evaluation     *)
(* further out or the thread in another such drain.                        *)
EvaluationEnds ==
  /\ IsTop("module")
  /\ IF Draining(Below) \/ (Top.guarded /\ Nested(Top.iso, Below))
       THEN stack' = Below
       ELSE stack' = Append(Below, Drain(Top.iso, "module", Top.guarded))
  /\ UNCHANGED <<queueVars, data>>

-----------------------------------------------------------------------------
(* EnqueueMicrotask, or a reaction of a promise that is settled.           *)
Enqueue(i) ==
  /\ EmbedderRuns
  /\ enqueued < MaxJobs
  /\ queue' = [queue EXCEPT ![i] = Append(@, data[i])]
  /\ enqueued' = enqueued + 1
  /\ UNCHANGED <<data, stack>>

(* v8__Context__SetContinuationPreservedEmbedderData.                      *)
SetContinuationData(d) ==
  /\ stack # <<>> /\ EmbedderRuns
  /\ d \in {Top.task, None}
  /\ data' = [data EXCEPT ![Top.iso] = d]
  /\ UNCHANGED <<queueVars, stack>>

(* JS_ExecutePendingJob: a pump is over with the job.                      *)
RunJob ==
  /\ IsTop("drain")
  /\ LET i == Top.iso
         captured == Head(queue[i])
     IN /\ queue[i] # <<>>
        /\ queue' = [queue EXCEPT ![i] = Tail(@)]
        /\ data' = [data EXCEPT ![i] = captured]
        /\ \E t \in IF captured = None THEN Tasks ELSE {captured} :
             stack' = (IF Top.by = "pump" THEN Below ELSE stack)
                        \o <<Code("job", i, t)>>
  /\ UNCHANGED enqueued

(* A mutant of JobEnds: the data stays.                                    *)
JobEndsOnly(terminated) ==
  /\ IsTop("job")
  /\ stack' = Below
  /\ UNCHANGED <<queueVars, data>>

(* The job is over; one that was terminated ends the loop of module.rs,    *)
(* isolate.rs clears the exception and goes on.                            *)
JobEnds(terminated) ==
  /\ IsTop("job")
  /\ LET i == Top.iso
         loop == Last(Below)
         ends == terminated /\ Below # <<>>
                   /\ loop.kind = "drain" /\ loop.by = "module"
     IN /\ data' = [data EXCEPT ![i] = None]
        /\ stack' = IF ends THEN Front(Below) ELSE Below
  /\ UNCHANGED queueVars

DrainEnds ==
  /\ IsTop("drain")
  /\ queue[Top.iso] = <<>>
  /\ stack' = Below
  /\ UNCHANGED <<queueVars, data>>

-----------------------------------------------------------------------------
Init ==
  /\ queue = [i \in Isolates |-> <<>>]
  /\ enqueued = 0
  /\ data = [i \in Isolates |-> None]
  /\ stack = <<>>

Returns == ScriptReturns \/ ScriptThrows \/ EvaluationEnds
             \/ \E terminated \in BOOLEAN : JobEnds(terminated)

Next ==
  \/ \E i \in Isolates :
       \/ RunScript(i) \/ Checkpoint(i) \/ PumpMessageLoop(i) \/ Enqueue(i)
       \/ \E guarded \in BOOLEAN : Evaluate(i, guarded)
  \/ \E d \in Tasks \cup {None} : SetContinuationData(d)
  \/ RunJob \/ DrainEnds \/ Returns

(* Loops go on; code that is called returns, at each depth; the embedder   *)
(* gets round to a checkpoint of each isolate when nothing runs.           *)
Fairness ==
  /\ WF_jobsVars(RunJob \/ DrainEnds)
  /\ \A k \in 1 .. 2 * MaxDepth : SF_jobsVars(Len(stack) = k /\ Returns)
  /\ \A i \in Isolates : SF_jobsVars(stack = <<>> /\ Checkpoint(i))

Spec == Init /\ [][Next]_jobsVars /\ Fairness

-----------------------------------------------------------------------------
(* Types; only drain_jobs of module.rs counts as an evaluation.            *)
Frames ==
  [kind : {"script", "job"}, iso : Isolates, task : Tasks]
    \cup [kind : {"module"}, iso : Isolates, task : Tasks, guarded : BOOLEAN]
    \cup [kind : {"drain"}, iso : Isolates,
          by : {"script", "checkpoint", "pump"}, guarded : {FALSE}]
    \cup [kind : {"drain"}, iso : Isolates, by : {"module"}, guarded : BOOLEAN]

TypeOK ==
  /\ queue \in [Isolates -> Seq(Tasks \cup {None})]
  /\ data \in [Isolates -> Tasks \cup {None}]
  /\ enqueued \in Nat
  /\ stack \in Seq(Frames)

(* Code never finds the data of another task, however jobs, scripts and    *)
(* isolates are nested: its own or none (capture_job_context,              *)
(* restore_job_context).                                                   *)
OwnDataOnly ==
  stack # <<>> /\ Top.kind # "drain" => data[Top.iso] \in {Top.task, None}

(* An evaluation may leave its jobs to one of the same isolate further     *)
(* out, in progress or in its drain; with the last one of an isolate it    *)
(* has no job left, however many evaluations of other isolates are in      *)
(* progress, unless a terminated job has ended the loop, or the thread is  *)
(* in the drain of another isolate, for which JOBS_DRAINING makes it leave *)
(* its jobs to nobody (ModuleEvalGuard, drain_jobs).                       *)
ModuleWork(i, frames) ==
  \E k \in DOMAIN frames :
    /\ frames[k].iso = i
    /\ \/ frames[k].kind = "module"
       \/ frames[k].kind = "drain" /\ frames[k].by = "module"

ModuleJobsRun ==
  [][\A i \in Isolates :
       /\ ModuleWork(i, stack) /\ ~ModuleWork(i, stack')
       /\ ~IsTop("job") /\ ~Draining(stack')
       => queue[i] = <<>>]_jobsVars

(* Every job is run or dropped in the end, under either policy, whatever   *)
(* evaluations leave behind.                                               *)
JobsRun == \A i \in Isolates : queue[i] # <<>> ~> queue[i] = <<>>
=============================================================================
