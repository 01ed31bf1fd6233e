------------------------------ MODULE Pipeline ------------------------------
(***************************************************************************)
(* PipelineExecutor.execute (engine/pipeline.py): one call, the tasks of   *)
(* its parallel groups, cancel(), and the global timeout with which        *)
(* WorkflowExecutor (engine/executor.py) wraps the call.                   *)
(*                                                                         *)
(* What an execution of a step does is the business of StepExecutor.tla;   *)
(* here it starts, and ends with a result, an exception, or, if its task   *)
(* was cancelled, possibly with CancelledError.  cancel_all() makes steps  *)
(* fail, which they may do anyway.  A step occurs once in a pipeline.      *)
(***************************************************************************)
EXTENDS Integers, Sequences, FiniteSets, Functions

CONSTANTS
  Steps,       \* step definitions
  Elements,    \* steps, groups and branches that occur in the pipelines
  Pipelines,   \* the pipelines that may be executed
  MayTimeout   \* is there a global timeout?

\* StepDefinition; ParallelGroup, which refuses to be empty, and where slots is
\* max_concurrency (0: no limit); ConditionalBranch.
StepElement   == [kind : {"step"}, step : Steps]
GroupElement  == [kind : {"group"}, steps : Seq(Steps) \ {<<>>}, failFast : BOOLEAN,
                  slots : Nat]
BranchElement == [kind : {"branch"}, then : Seq(Elements), else : Seq(Elements)]
PipelineType  == [elements : Seq(Elements), failFast : BOOLEAN,
                  interval : Nat]  \* checkpoint_interval

ResultType == [step : Steps, status : {"success", "failed", "skipped"}]

ASSUME PipelineAssumption ==
  /\ IsFiniteSet(Steps)
  /\ Elements \subseteq StepElement \cup GroupElement \cup BranchElement
  /\ Pipelines \subseteq PipelineType
  /\ MayTimeout \in BOOLEAN

VARIABLES
  pipeline,   \* parameter: the pipeline
  pc,         \* where the coroutine of execute() is
  position,   \* elements begun
  todo,       \* what the current element still has to execute
  pending,    \* steps awaited by asyncio.wait in a fail-fast group
  acc,        \* results of the current element
  results,    \* result.steps
  verdict,    \* result.overall_status
  error,      \* is result.metadata["error"] set?
  status,     \* _status
  cancelled,  \* _cancelled
  sinceSave,  \* checkpoint_counter
  task,       \* progress of each step
  cancelling, \* steps whose task was cancelled
  promised,   \* history: steps of the elements and arms entered so far
  saved,      \* history: results at the last checkpoint
  timedOut    \* has the global timeout fired?

walk      == <<position, todo, pending, acc, promised>>
answer    == <<results, verdict, error, sinceSave, saved>>
taskVars  == <<task, cancelling>>
external  == <<cancelled, timedOut>>
vars == <<pipeline, pc, walk, answer, status, taskVars, external>>

\* single, gather, wait, saving: suspended in the execution of a step, in
\* asyncio.gather, in asyncio.wait, in save_checkpoint.  interrupted: in a
\* gather that was cancelled.
PCs == {"start", "next", "unit", "single", "gather", "interrupted", "wait",
        "saving", "returned", "escaped"}

InFlight == {"queued", "running"}
Answered == {"success", "failed", "skipped"}  \* with a StepResult
Ended    == Answered \cup {"raised", "cancelled"}

-----------------------------------------------------------------------------
(* Faulty variants of the decisions below, each with one plausible bug.        *)

CancelledByNobody(done)   == {}
VerdictIgnoresFailures(rs) == verdict
FailsUnlessSuccess(r)     == r.status # "success"
FailuresAtEnd             == {i \in {Len(acc)} \cap DOMAIN acc : acc[i].status = "failed"}
HoldersNeverReleased(g)   == {s \in Range(g.steps) : task[s] \in {"running", "failed"}}

-----------------------------------------------------------------------------
(* The decisions of the code. *)

\* step_result.is_failed
IsFailed(r) == r.status = "failed"

HasFailure(rs) == \E i \in DOMAIN rs : IsFailed(rs[i])

\* The places in the current element's results at which the loop may stop.
Failures == {i \in DOMAIN acc : IsFailed(acc[i])}

\* overall_status after result.add_step of these results
AddSteps(rs) == IF HasFailure(rs) THEN "failed" ELSE verdict

\* The tasks that a failure in a fail-fast group cancels.
ToCancel(done) == pending \ done

\* checkpoint_counter += len(step_results)
Counted == sinceSave + Len(acc)

\* A status still RUNNING after the loop becomes SUCCESS.
FinalVerdict == IF verdict = "running" THEN "success" ELSE verdict
FinalStatus  == IF FinalVerdict = "success" THEN "success" ELSE "failed"

\* The steps that hold the semaphore of a group.
Holders(g) == {s \in Range(g.steps) : task[s] = "running"}

SlotFree(g) == g.slots = 0 \/ Cardinality(Holders(g)) < g.slots

-----------------------------------------------------------------------------

Unit == Head(todo)

Group == Range(Unit.steps)

AllEnded(S) == \A s \in S : task[s] \in Ended

\* The steps an element executes unless it is a branch.
StepsOf(e) == IF e.kind = "step" THEN {e.step}
              ELSE IF e.kind = "group" THEN Range(e.steps) ELSE {}

StepsOfAll(es) == UNION {StepsOf(es[i]) : i \in DOMAIN es}

\* The result of an execution that has ended.
ResultOf(s) == [step |-> s, status |-> task[s]]
ResultsOf(ss) == [i \in DOMAIN ss |-> ResultOf(ss[i])]

\* The steps that have a result in rs.
StepsIn(rs) == {rs[i].step : i \in DOMAIN rs}

Init ==
  /\ pipeline \in Pipelines
  /\ pc = "start"
  /\ position = 0 /\ todo = <<>> /\ pending = {} /\ acc = <<>>
  /\ results = <<>> /\ verdict = "running" /\ error = FALSE
  /\ status = "pending" /\ cancelled = FALSE
  /\ sinceSave = 0 /\ saved = 0
  /\ task = [s \in Steps |-> "none"]
  /\ cancelling = {} /\ promised = {}
  /\ timedOut = FALSE

Goto(to) == pc' = to

\* A call that begins forgets an earlier cancel().
Start ==
  /\ pc = "start"
  /\ Goto("next")
  /\ status' = "running"
  /\ cancelled' = FALSE
  /\ UNCHANGED <<pipeline, walk, answer, taskVars, timedOut>>

Return(newVerdict, newStatus) ==
  /\ Goto("returned")
  /\ verdict' = newVerdict
  /\ status' = newStatus

\* The clause `except Exception` of execute().
CatchException ==
  /\ Return("failed", "failed")
  /\ error' = TRUE

\* CancelledError is no Exception: it leaves execute().
Escape ==
  /\ Goto("escaped")
  /\ UNCHANGED <<answer, status>>

-----------------------------------------------------------------------------
(* The loop over the elements. *)

NextElement ==
  /\ pc = "next" /\ ~cancelled /\ position < Len(pipeline.elements)
  /\ position' = position + 1
  /\ todo' = <<pipeline.elements[position']>>
  /\ promised' = promised \cup StepsOfAll(todo')
  /\ Goto("unit")
  /\ UNCHANGED <<pipeline, pending, acc, answer, status, taskVars, external>>

CancelledBreak ==
  /\ pc = "next" /\ cancelled /\ position < Len(pipeline.elements)
  /\ Return("failed", "failed")
  /\ UNCHANGED <<pipeline, walk, results, error, sinceSave, saved, taskVars, external>>

AllDone ==
  /\ pc = "next" /\ position = Len(pipeline.elements)
  /\ Return(FinalVerdict, FinalStatus)
  /\ UNCHANGED <<pipeline, walk, results, error, sinceSave, saved, taskVars, external>>

\* The loop over step_results.  It stops after the first failure if the
\* pipeline is fail-fast; the progress callback may raise after any result.
ElementDone == pc = "unit" /\ todo = <<>>

ReportAll ==
  /\ ElementDone
  /\ pipeline.failFast => Failures = {}
  /\ results' = results \o acc
  /\ verdict' = AddSteps(acc)
  /\ acc' = <<>>
  /\ sinceSave' = IF pipeline.interval > 0 THEN Counted ELSE 0
  /\ Goto(IF pipeline.interval > 0 /\ Counted >= pipeline.interval THEN "saving" ELSE "next")
  /\ UNCHANGED <<pipeline, position, todo, pending, promised, error, saved, status, taskVars, external>>

ReportFailure ==
  /\ ElementDone /\ pipeline.failFast
  /\ \E i \in Failures :
       /\ \A j \in Failures : i <= j
       /\ results' = results \o SubSeq(acc, 1, i)
  /\ Return("failed", "failed")
  /\ UNCHANGED <<pipeline, walk, error, sinceSave, saved, taskVars, external>>

CallbackRaises ==
  /\ ElementDone
  /\ \E i \in DOMAIN acc :
       /\ pipeline.failFast => \A j \in Failures : i <= j
       /\ results' = results \o SubSeq(acc, 1, i)
  /\ CatchException
  /\ UNCHANGED <<pipeline, walk, sinceSave, saved, taskVars, external>>

Save ==
  /\ pc = "saving"
  /\ Goto("next")
  /\ sinceSave' = 0
  /\ saved' = Len(results)
  /\ UNCHANGED <<pipeline, walk, results, verdict, error, status, taskVars, external>>

SaveRaises ==
  /\ pc = "saving"
  /\ CatchException
  /\ UNCHANGED <<pipeline, walk, results, sinceSave, saved, taskVars, external>>

-----------------------------------------------------------------------------
(* _execute_element, _execute_branch.  A branch executes the elements of an    *)
(* arm one by one, a nested branch within it; after an element with a failure  *)
(* it executes no more.                                                        *)

AtUnit(kind) == pc = "unit" /\ todo # <<>> /\ Unit.kind = kind

TakeArm ==
  /\ AtUnit("branch")
  /\ \E arm \in {Unit.then, Unit.else} :
       /\ todo' = arm \o Tail(todo)
       /\ promised' = promised \cup StepsOfAll(arm)
  /\ UNCHANGED <<pipeline, pc, position, pending, acc, answer, status, taskVars, external>>

ConditionRaises ==
  /\ AtUnit("branch")
  /\ CatchException
  /\ UNCHANGED <<pipeline, walk, results, sinceSave, saved, taskVars, external>>

\* The current unit gave these results.
UnitDone(rs) ==
  /\ Goto("unit")
  /\ acc' = acc \o rs
  /\ todo' = IF HasFailure(rs) THEN <<>> ELSE Tail(todo)
  /\ UNCHANGED <<position, promised, answer, status>>

StartStep ==
  /\ AtUnit("step")
  /\ task' = [task EXCEPT ![Unit.step] = "running"]
  /\ Goto("single")
  /\ UNCHANGED <<pipeline, walk, answer, status, cancelling, external>>

\* The coroutine of the step runs in the task of the pipeline.
StepReturns ==
  /\ pc = "single" /\ task[Unit.step] \in Answered
  /\ UnitDone(<<ResultOf(Unit.step)>>)
  /\ UNCHANGED <<pipeline, pending, taskVars, external>>

StepRaises ==
  /\ pc = "single" /\ task[Unit.step] = "raised"
  /\ CatchException
  /\ UNCHANGED <<pipeline, walk, results, sinceSave, saved, taskVars, external>>

StepEscapes ==
  /\ pc = "single" /\ task[Unit.step] = "cancelled"
  /\ Escape
  /\ UNCHANGED <<pipeline, walk, taskVars, external>>

-----------------------------------------------------------------------------
(* _execute_parallel_group. *)

StartGroup ==
  /\ AtUnit("group")
  /\ task' = [s \in Steps |-> IF s \in Group THEN "queued" ELSE task[s]]
  /\ pending' = IF Unit.failFast THEN Group ELSE {}
  /\ Goto(IF Unit.failFast THEN "wait" ELSE "gather")
  /\ UNCHANGED <<pipeline, position, todo, acc, promised, answer, status, cancelling, external>>

\* asyncio.gather: all results, in the order of the group.
Gathered ==
  /\ pc = "gather" /\ \A s \in Group : task[s] \in Answered
  /\ UnitDone(ResultsOf(Unit.steps))
  /\ UNCHANGED <<pipeline, pending, taskVars, external>>

\* The first exception goes to the caller at once; the other tasks go on.
GatherRaises ==
  /\ pc \in {"gather", "interrupted"} /\ \E s \in Group : task[s] = "raised"
  /\ CatchException
  /\ UNCHANGED <<pipeline, walk, results, sinceSave, saved, taskVars, external>>

\* A cancelled gather ends with CancelledError, when a child does or, if they
\* all catch it, when all have ended.
GatherEscapes ==
  /\ pc = "interrupted"
  /\ \/ \E s \in Group : task[s] \in {"raised", "cancelled"}
     \/ AllEnded(Group)
  /\ Escape
  /\ UNCHANGED <<pipeline, walk, taskVars, external>>

\* asyncio.wait(pending, FIRST_COMPLETED) returns the tasks that have ended by
\* the time the coroutine runs again, as a set.
Done == {s \in pending : task[s] \in Ended}

\* A set in the order in which the for-loop happens to visit it.
Orders(S) == {o \in [1..Cardinality(S) -> S] : Range(o) = S}

NoFailureDone ==
  /\ pc = "wait" /\ Done # {}
  /\ \A s \in Done : task[s] \in {"success", "skipped"}
  /\ pending' = pending \ Done
  /\ IF pending' = {}
     THEN Goto("unit") /\ todo' = Tail(todo)
     ELSE UNCHANGED <<pc, todo>>
  /\ \E o \in Orders(Done) : acc' = acc \o ResultsOf(o)
  /\ UNCHANGED <<pipeline, position, promised, answer, status, taskVars, external>>

\* A failed task is handled after some of those without failure: the group
\* returns without the results of the others and cancels what has not ended.
FailureDone ==
  /\ pc = "wait"
  /\ \E f \in Done : \E S \in SUBSET {s \in Done : task[s] \in {"success", "skipped"}} :
       /\ task[f] = "failed"
       /\ \E o \in Orders(S) : acc' = acc \o ResultsOf(o) \o <<ResultOf(f)>>
  /\ cancelling' = cancelling \cup ToCancel(Done)
  /\ pending' = {}
  /\ todo' = <<>>
  /\ Goto("unit")
  /\ UNCHANGED <<pipeline, position, promised, answer, status, task, external>>

\* task.result() raises: nothing is cancelled.
ExceptionDone ==
  /\ pc = "wait" /\ \E s \in Done : task[s] = "raised"
  /\ CatchException
  /\ UNCHANGED <<pipeline, walk, results, sinceSave, saved, taskVars, external>>

-----------------------------------------------------------------------------
(* The tasks of a group, and the executions of steps. *)

\* `async with semaphore`, if the group has one; then StepExecutor.execute.  A
\* task that was created and not cancelled is one of the last group's.
TaskStarts(s) ==
  /\ task[s] = "queued" /\ s \notin cancelling
  /\ SlotFree(Unit)
  /\ task' = [task EXCEPT ![s] = "running"]
  /\ UNCHANGED <<pipeline, pc, walk, answer, status, cancelling, external>>

TaskEnds(s) ==
  /\ \/ /\ task[s] = "running"
        /\ \E how \in Ended \ {"cancelled"} : task' = [task EXCEPT ![s] = how]
     \/ /\ task[s] \in InFlight /\ s \in cancelling
        /\ task' = [task EXCEPT ![s] = "cancelled"]
  /\ UNCHANGED <<pipeline, pc, walk, answer, status, cancelling, external>>

Task(s) == TaskStarts(s) \/ TaskEnds(s)

-----------------------------------------------------------------------------
(* From outside.  Other code runs while execute() is suspended. *)

Suspended ==
  \/ pc \in {"start", "gather", "interrupted", "wait", "saving", "returned", "escaped"}
  \/ pc = "single" /\ task[Unit.step] = "running"

\* cancel(); the effect of cancel_all() is in TaskEnds.
Cancel ==
  /\ Suspended
  /\ cancelled' = TRUE
  /\ status' = "cancelled"
  /\ UNCHANGED <<pipeline, pc, walk, answer, taskVars, timedOut>>

\* asyncio.wait_for of WorkflowExecutor.execute cancels the coroutine once and
\* waits for its end.  gather passes the cancellation on to its children,
\* asyncio.wait does not, a step may catch it.
GlobalTimeout ==
  /\ MayTimeout /\ ~timedOut
  /\ Suspended /\ pc \in {"single", "gather", "wait", "saving"}
  /\ timedOut' = TRUE
  /\ cancelling' = cancelling \cup
       CASE pc = "single" -> {Unit.step}
         [] pc = "gather" -> {s \in Group : task[s] \in InFlight}
         [] OTHER -> {}
  /\ Goto(CASE pc = "single" -> "single"
            [] pc = "gather" -> "interrupted"
            [] OTHER -> "escaped")
  /\ UNCHANGED <<pipeline, walk, answer, status, task, cancelled>>

-----------------------------------------------------------------------------

Loop ==
  \/ Start \/ NextElement \/ CancelledBreak \/ AllDone
  \/ ReportAll \/ ReportFailure \/ CallbackRaises \/ Save \/ SaveRaises
Execute ==
  \/ TakeArm \/ ConditionRaises
  \/ StartStep \/ StepReturns \/ StepRaises \/ StepEscapes
  \/ StartGroup \/ Gathered \/ GatherRaises \/ GatherEscapes
  \/ NoFailureDone \/ FailureDone \/ ExceptionDone
Coroutine == Loop \/ Execute

Finished == pc \in {"returned", "escaped"}

Terminated == Finished /\ (\A s \in Steps : task[s] \notin InFlight) /\ UNCHANGED vars

Next ==
  \/ Coroutine
  \/ \E s \in Steps : Task(s)
  \/ Cancel
  \/ GlobalTimeout
  \/ Terminated

Spec == Init /\ [][Next]_vars

\* The event loop runs what is runnable, and the functions of steps end.
FairSpec == Spec /\ WF_vars(Coroutine) /\ \A s \in Steps : WF_vars(Task(s))

-----------------------------------------------------------------------------
(* Properties. *)

\* Every variable has its type; what is awaited fits the current unit.
TypeOK ==
  /\ pipeline \in Pipelines
  /\ pc \in PCs
  /\ position \in 0..Len(pipeline.elements)
  /\ todo \in Seq(Elements)
  /\ pc = "single" => todo # <<>> /\ Unit.kind = "step"
  /\ pc \in {"gather", "interrupted", "wait"} => todo # <<>> /\ Unit.kind = "group"
  /\ pending \subseteq Steps
  /\ pc = "wait" => pending \subseteq Group
  /\ acc \in Seq(ResultType) /\ results \in Seq(ResultType)
  /\ verdict \in {"running", "success", "failed"}
  /\ status \in {"pending", "running", "success", "failed", "cancelled"}
  /\ error \in BOOLEAN /\ cancelled \in BOOLEAN /\ timedOut \in BOOLEAN
  /\ sinceSave \in Nat /\ saved \in Nat
  /\ task \in [Steps -> {"none"} \cup InFlight \cup Ended]
  /\ cancelling \subseteq Steps /\ promised \subseteq Steps

\* The steps the coroutine is waiting for.
Awaited == IF pc = "single" THEN {Unit.step}
           ELSE IF pc \in {"gather", "interrupted"} THEN Group
           ELSE IF pc = "wait" THEN pending ELSE {}

Stray == {s \in Steps : task[s] \in InFlight} \ (Awaited \cup cancelling)

\* "Pipelines enforce element order" (pipeline.py:14): a step that runs beside
\* the walk, while later elements execute or after the end, was cancelled,
\* unless an exception or a timeout ended the pipeline.
NoStray == ~error /\ pc # "escaped" => Stray = {}

\* A pipeline reports SUCCESS only if it executed every element, and every step
\* of those and of the arms taken succeeded or was skipped by its conditions:
\* nothing was left out, cancelled and forgotten, or hidden by a later result.
SuccessMeansAll ==
  pc = "returned" /\ verdict = "success" =>
    /\ position = Len(pipeline.elements)
    /\ promised \subseteq StepsIn(results)
    /\ \A i \in DOMAIN results : results[i].status \in {"success", "skipped"}

\* A pipeline reports FAILED only for a failed step in its results, an
\* exception, or a cancel() before its last element.
FailureHasCause ==
  pc = "returned" /\ verdict = "failed" =>
    \/ error
    \/ \E i \in DOMAIN results : results[i].status = "failed"
    \/ cancelled /\ position < Len(pipeline.elements)

\* When execute() has returned, the status property agrees with the result,
\* unless cancel() has overwritten it.
StatusAgrees == pc = "returned" => status = verdict \/ (cancelled /\ status = "cancelled")

\* "Stop on first failure" (pipeline.py:112): when a fail-fast pipeline goes on
\* to its next element, no step has failed.
StopsAtFirstFailure ==
  pipeline.failFast /\ pc \in {"next", "saving"} =>
    \A s \in Steps : task[s] # "failed"

\* "Save a checkpoint every N completed steps" (pipeline.py:95): between
\* two elements, fewer than N results are in no checkpoint.
CheckpointLag ==
  pc = "next" /\ pipeline.interval > 0 => Len(results) - saved < pipeline.interval

\* execute() ends, and so does every task it created.
PipelineEnds == <>[](Finished /\ \A s \in Steps : task[s] \notin InFlight)
=============================================================================
