---------------------------- MODULE DAGExecutor ----------------------------
(***************************************************************************)
(* One call of DAGExecutor.execute (engine/dag_executor.py): the           *)
(* scheduling loop, the asyncio tasks it spawns (one per step), the local  *)
(* StepStateManager and the step tracking of the shared ExecutionContext.  *)
(*                                                                         *)
(* An action is what the event loop runs between two awaits, or one turn   *)
(* of a loop that awaits nothing.  The executor coroutine is pc; the task  *)
(* of each step is task[s].  What a step function, a hook or a when/unless *)
(* predicate answers is nondeterministic; StepExecutor.tla has the detail  *)
(* of a step's lifecycle.                                                  *)
(*                                                                         *)
(* Three Python sets are not variables because they are functions of the   *)
(* others: `completed` (the steps with a result), `tasks` (spawned and not *)
(* yet returned by asyncio.wait) and `skipped`, a subset of `completed`    *)
(* that the code only tests together with it.                              *)
(***************************************************************************)
EXTENDS DAG, Integers

CONSTANTS
  Graphs,           \* the workflow graphs execute() may be called with
  Limits,           \* the values of max_concurrency it may be called with
  InitialContexts,  \* completed_steps and failed_steps of the ctx passed in
  MayAbort,         \* may on_update raise, or the caller cancel the run?
  NoStep            \* "no step": the value of cur outside an announcement

ASSUME ExecutorAssumption ==
  /\ Graphs \subseteq [Steps -> SUBSET Names]
  /\ Limits \subseteq Nat
  /\ InitialContexts \subseteq [completed : SUBSET Names, failed : SUBSET Names]
  /\ MayAbort \in BOOLEAN
  /\ NoStep \notin Steps

VARIABLES
  deps,          \* parameter: depends_on of every step
  limit,         \* parameter: max_concurrency
  pc,            \* where the executor coroutine is
  cur,           \* the step whose step_end is being announced
  batch,         \* tasks returned by asyncio.wait and not handled yet
  ready,         \* the deque of steps with in-degree 0; its order is abstracted
  running,       \* steps spawned and not yet recorded
  inDegree,      \* unmet dependencies of each step, as the code counts them
  stepState,     \* StepStateManager._states
  results,       \* status recorded with results[name] and result.add_step
  reason,        \* metadata["skip_reason"] of a skipped step
  overall,       \* result.overall_status
  task,          \* progress of the asyncio task of each step
  ctxCompleted,  \* ctx.completed_steps
  ctxFailed,     \* ctx.failed_steps
  vetoed         \* history: steps whose when/unless said no in this run

params   == <<deps, limit>>
ctxVars  == <<ctxCompleted, ctxFailed>>
execVars == <<cur, batch, ready, running, inDegree, results, reason, overall>>
vars     == <<params, pc, execVars, stepState, task, ctxVars, vetoed>>

-----------------------------------------------------------------------------
(* Values. *)

StepStates == {"PENDING", "READY", "RUNNING", "RETRYING",
               "SUCCESS", "FAILED", "SKIPPED", "CANCELLED"}

\* _ALLOWED_TRANSITIONS of engine/step_state.py
AllowedTransitions ==
  {<<"PENDING", "READY">>, <<"PENDING", "SKIPPED">>,
   <<"READY", "RUNNING">>, <<"READY", "CANCELLED">>,
   <<"RUNNING", "SUCCESS">>, <<"RUNNING", "FAILED">>,
   <<"RUNNING", "RETRYING">>, <<"RUNNING", "SKIPPED">>,
   <<"RUNNING", "CANCELLED">>,
   <<"RETRYING", "RUNNING">>, <<"RETRYING", "FAILED">>,
   <<"RETRYING", "CANCELLED">>}

\* A finished task: the status of its StepResult, or an escaped exception.
Outcomes   == {"success", "failed", "skipped", "raised"}
TaskStates == {"none", "created", "starting", "body"} \cup Outcomes

Statuses == {"none", "success", "failed", "skipped"}

Reasons == {"none", "conditions not met", "dependency failed",
            "unhandled exception", "unmet dependencies"}

PCs == {"validate", "start", "schedule", "wait", "handle", "notify", "end",
        "returned", "raised"}

-----------------------------------------------------------------------------
(* Faulty variants of the decisions below, each with one plausible bug.  They  *)
(* are not part of the model: a property that still held with the variant in   *)
(* the place of the decision would say nothing about the code.                 *)

CanPopOneTooMany      == ready # {} /\ Cardinality(running) <= limit
AddStepLastWins(status) == IF status = "skipped" THEN overall ELSE status
DiscardForgotten(s)   == running
CascadeDirectOnly(s)  == Dependents(deps, s) \ {t \in Steps : results[t] # "none"}
CascadeRevisits(s)    == Descendants(deps, s)
UnlockedEveryone(s)   == {t \in Steps : results[t] = "none"}
NewlyReadyTooEarly(s) == {t \in Dependents(deps, s) : results[t] = "none"}
NewlyReadyTooLate(s)  == {t \in Dependents(deps, s) : inDegree[t] = 0}
CtxDoneForgotten(s)   == ctxCompleted

-----------------------------------------------------------------------------
(* Derived state and the decisions of the code. *)

completed == {s \in Steps : results[s] # "none"}
tasks     == running \ batch

\* while len(completed) < len(dag.steps)
AllRecorded == completed = Steps

\* while ready and len(running) < max_concurrency
CanPop == ready # {} /\ Cardinality(running) < limit

\* overall_status after result.add_step of a result with this status
AddStep(status) == IF status = "failed" THEN "failed" ELSE overall

\* A status still RUNNING after the loop becomes SUCCESS.
FinalStatus == IF overall = "running" THEN "success" ELSE overall

\* running.discard: the slot of a handled task is free again.
Discard(s) == running \ {s}

\* What cascade_skip(s) skips: nothing below a step that has a result (s has
\* one by then) is visited.
CascadeSet(s) == ReachableFrom(deps, s, completed \cup {s})

\* The dependents whose in-degree a finished step decrements, and those of
\* them it makes ready.
Unlocked(s)   == Dependents(deps, s) \ completed
NewlyReady(s) == {t \in Unlocked(s) : inDegree[t] = 1}

\* ctx.completed_steps once the outcome of s is applied: a step skipped by its
\* conditions is recorded here, a successful one already is.
CtxDone(s) == IF task[s] = "skipped" THEN ctxCompleted \cup {s} ELSE ctxCompleted

\* StepDefinition.should_run, without the when/unless predicates.
DepsAllowRun(s) == deps[s] \subseteq ctxCompleted /\ deps[s] \cap ctxFailed = {}

Init ==
  /\ deps \in Graphs
  /\ limit \in Limits
  /\ \E c \in InitialContexts : ctxCompleted = c.completed /\ ctxFailed = c.failed
  /\ pc = "validate"
  /\ cur = NoStep
  /\ batch = {} /\ ready = {} /\ running = {}
  /\ inDegree  = [s \in Steps |-> 0]
  /\ stepState = [s \in Steps |-> "PENDING"]
  /\ results   = [s \in Steps |-> "none"]
  /\ reason    = [s \in Steps |-> "none"]
  /\ overall = "running"
  /\ task = [s \in Steps |-> "none"]
  /\ vetoed = {}

\* Another call of execute() for the same workflow: everything but the context
\* it is given is local to the call.
NewRun(completedSteps, failedSteps) ==
  /\ ctxCompleted' = completedSteps
  /\ ctxFailed' = failedSteps
  /\ pc' = "validate"
  /\ cur' = NoStep
  /\ batch' = {} /\ ready' = {} /\ running' = {}
  /\ inDegree'  = [s \in Steps |-> 0]
  /\ stepState' = [s \in Steps |-> "PENDING"]
  /\ results'   = [s \in Steps |-> "none"]
  /\ reason'    = [s \in Steps |-> "none"]
  /\ overall' = "running"
  /\ task' = [s \in Steps |-> "none"]
  /\ vetoed' = {}
  /\ UNCHANGED params

-----------------------------------------------------------------------------
(* The executor coroutine: before the loop. *)

\* dag.validate(): an invalid graph raises before anything is done.
Validate ==
  /\ pc = "validate"
  /\ pc' = IF Valid(deps) THEN "start" ELSE "raised"
  /\ UNCHANGED <<params, execVars, stepState, task, ctxVars, vetoed>>

\* workflow_start is announced; then in_degree and the ready deque.
Begin ==
  /\ pc = "start"
  /\ pc' = "schedule"
  /\ inDegree' = [s \in Steps |-> Cardinality(deps[s])]
  /\ ready' = {s \in Steps : Cardinality(deps[s]) = 0}
  /\ UNCHANGED <<params, cur, batch, running, results, reason, overall,
                 stepState, task, ctxVars, vetoed>>

-----------------------------------------------------------------------------
(* The executor coroutine: the loop. *)

\* One turn of the inner scheduling loop.
PopReady(s) ==
  /\ pc = "schedule"
  /\ ~AllRecorded
  /\ CanPop
  /\ s \in ready
  /\ ready' = ready \ {s}
  /\ IF s \in completed
       THEN UNCHANGED <<running, stepState, task>>
       ELSE /\ running' = running \cup {s}
            /\ stepState' = [stepState EXCEPT ![s] = "READY"]
            /\ task' = [task EXCEPT ![s] = "created"]
  /\ UNCHANGED <<params, pc, cur, batch, inDegree, results, reason, overall,
                 ctxVars, vetoed>>

\* asyncio.wait(tasks, FIRST_COMPLETED) is entered ...
AwaitTasks ==
  /\ pc = "schedule"
  /\ ~AllRecorded
  /\ ~CanPop
  /\ tasks # {}
  /\ pc' = "wait"
  /\ UNCHANGED <<params, execVars, stepState, task, ctxVars, vetoed>>

\* ... and returns every task that is done when the executor runs again.
CollectDone ==
  LET done == {s \in tasks : task[s] \in Outcomes}
  IN /\ pc = "wait"
     /\ done # {}
     /\ batch' = done
     /\ pc' = "handle"
     /\ UNCHANGED <<params, cur, ready, running, inDegree, results, reason,
                    overall, stepState, task, ctxVars, vetoed>>

\* mark_skipped for every step of S.
MarkSkipped(S, why) ==
  /\ results' = [s \in Steps |-> IF s \in S THEN "skipped" ELSE results[s]]
  /\ reason'  = [s \in Steps |-> IF s \in S THEN why ELSE reason[s]]
  /\ ctxCompleted' = ctxCompleted \cup S

\* "Deadlock detection": nothing runs and the loop has not ended.
SkipUnreachable ==
  LET remaining == Steps \ completed
  IN /\ pc = "schedule"
     /\ ~AllRecorded
     /\ ~CanPop
     /\ tasks = {}
     /\ MarkSkipped(remaining, "unmet dependencies")
     /\ stepState' = [s \in Steps |->
                        IF s \in remaining THEN "SKIPPED" ELSE stepState[s]]
     /\ pc' = "end"
     /\ overall' = FinalStatus
     /\ UNCHANGED <<params, cur, batch, ready, running, inDegree, task,
                    ctxFailed, vetoed>>

\* The task ended with an exception: a failed result, no state transition and
\* no ctx.failed_steps entry; the steps below it are skipped.
HandleException(s) ==
  LET S == CascadeSet(s)
  IN /\ pc = "handle"
     /\ s \in batch
     /\ task[s] = "raised"
     /\ batch' = batch \ {s}
     /\ running' = Discard(s)
     /\ results' = [t \in Steps |-> IF t = s THEN "failed"
                                    ELSE IF t \in S THEN "skipped" ELSE results[t]]
     /\ reason' = [t \in Steps |->
                     IF t \in S THEN "unhandled exception" ELSE reason[t]]
     /\ stepState' = [t \in Steps |-> IF t \in S THEN "SKIPPED" ELSE stepState[t]]
     /\ ctxCompleted' = ctxCompleted \cup S
     /\ overall' = AddStep("failed")
     /\ UNCHANGED <<params, pc, cur, ready, inDegree, task, ctxFailed, vetoed>>

\* The result is recorded and step_end announced; the executor suspends in
\* on_update before it acts on the outcome.
RecordResult(s) ==
  /\ pc = "handle"
  /\ s \in batch
  /\ task[s] # "raised"
  /\ batch' = batch \ {s}
  /\ running' = Discard(s)
  /\ results' = [results EXCEPT ![s] = task[s]]
  /\ reason' = [reason EXCEPT
                  ![s] = IF task[s] = "skipped" THEN "conditions not met" ELSE @]
  /\ overall' = AddStep(task[s])
  /\ cur' = s
  /\ pc' = "notify"
  /\ UNCHANGED <<params, ready, inDegree, stepState, task, ctxVars, vetoed>>

\* on_update returned for a failed step: FAILED, and its dependents are skipped.
ApplyFailure ==
  LET S == CascadeSet(cur)
  IN /\ pc = "notify"
     /\ task[cur] = "failed"
     /\ MarkSkipped(S, "dependency failed")
     /\ stepState' = [s \in Steps |-> IF s = cur THEN "FAILED"
                                      ELSE IF s \in S THEN "SKIPPED"
                                      ELSE stepState[s]]
     /\ cur' = NoStep
     /\ pc' = "handle"
     /\ UNCHANGED <<params, batch, ready, running, inDegree, overall, task,
                    ctxFailed, vetoed>>

\* on_update returned for a step that succeeded or whose conditions were not
\* met: its dependents are unlocked; a skipped step counts as complete in ctx.
ApplyUnlock ==
  /\ pc = "notify"
  /\ task[cur] \in {"success", "skipped"}
  /\ stepState' = [stepState EXCEPT
                     ![cur] = IF task[cur] = "success" THEN "SUCCESS" ELSE "SKIPPED"]
  /\ ctxCompleted' = CtxDone(cur)
  /\ inDegree' = [s \in Steps |->
                    IF s \in Unlocked(cur) THEN inDegree[s] - 1 ELSE inDegree[s]]
  /\ ready' = ready \cup NewlyReady(cur)
  /\ cur' = NoStep
  /\ pc' = "handle"
  /\ UNCHANGED <<params, batch, running, results, reason, overall, task,
                 ctxFailed, vetoed>>

\* The batch is used up: back to the loop test.
NextTurn ==
  /\ pc = "handle"
  /\ batch = {}
  /\ pc' = "schedule"
  /\ UNCHANGED <<params, execVars, stepState, task, ctxVars, vetoed>>

\* Every step has a result: the final status is fixed.
LoopExit ==
  /\ pc = "schedule"
  /\ AllRecorded
  /\ overall' = FinalStatus
  /\ pc' = "end"
  /\ UNCHANGED <<params, cur, batch, ready, running, inDegree, results, reason,
                 stepState, task, ctxVars, vetoed>>

\* workflow_end is announced and the result returned.
Return ==
  /\ pc = "end"
  /\ pc' = "returned"
  /\ UNCHANGED <<params, execVars, stepState, task, ctxVars, vetoed>>

\* on_update raises, the caller's timeout cancels the coroutine at an await, or
\* the exception of a task is a CancelledError, which is raised again: it
\* leaves _run_dag and the spawned tasks keep running.
Abort ==
  /\ MayAbort
  /\ \/ pc \in {"start", "wait", "notify", "end"}
     \/ pc = "handle" /\ \E s \in batch : task[s] = "raised"
  /\ pc' = "raised"
  /\ UNCHANGED <<params, execVars, stepState, task, ctxVars, vetoed>>

-----------------------------------------------------------------------------
(* The task of step s: run_step and StepExecutor.execute. *)

\* RUNNING; step_start is announced.
TaskStart(s) ==
  /\ task[s] = "created"
  /\ stepState' = [stepState EXCEPT ![s] = "RUNNING"]
  /\ task' = [task EXCEPT ![s] = "starting"]
  /\ UNCHANGED <<params, pc, execVars, ctxVars, vetoed>>

\* should_run is true: the step's function is called.
TaskRun(s) ==
  /\ task[s] = "starting"
  /\ DepsAllowRun(s)
  /\ task' = [task EXCEPT ![s] = "body"]
  /\ UNCHANGED <<params, pc, execVars, stepState, ctxVars, vetoed>>

\* should_run is false because of the dependencies or of when/unless.
TaskSkip(s) ==
  /\ task[s] = "starting"
  /\ \/ ~DepsAllowRun(s) /\ UNCHANGED vetoed
     \/ DepsAllowRun(s) /\ vetoed' = vetoed \cup {s}
  /\ task' = [task EXCEPT ![s] = "skipped"]
  /\ UNCHANGED <<params, pc, execVars, stepState, ctxVars>>

\* The step's function succeeds: mark_step_complete.
TaskSucceed(s) ==
  /\ task[s] = "body"
  /\ task' = [task EXCEPT ![s] = "success"]
  /\ ctxCompleted' = ctxCompleted \cup {s}
  /\ UNCHANGED <<params, pc, execVars, stepState, ctxFailed, vetoed>>

\* A failed result, with mark_step_failed (error, timeout, cancellation, hook,
\* verification) or without it (no function; loop_until out of attempts).
TaskFail(s) ==
  /\ task[s] = "body"
  /\ task' = [task EXCEPT ![s] = "failed"]
  /\ ctxFailed' \in {ctxFailed, ctxFailed \cup {s}}
  /\ UNCHANGED <<params, pc, execVars, stepState, ctxCompleted, vetoed>>

\* An exception escapes run_step: on_update, when/unless or an input mapping.
TaskRaise(s) ==
  /\ task[s] \in {"starting", "body"}
  /\ task' = [task EXCEPT ![s] = "raised"]
  /\ UNCHANGED <<params, pc, execVars, stepState, ctxVars, vetoed>>

-----------------------------------------------------------------------------

Executor ==
  \/ Validate \/ Begin \/ AwaitTasks \/ CollectDone \/ SkipUnreachable
  \/ ApplyFailure \/ ApplyUnlock \/ NextTurn \/ LoopExit \/ Return
  \/ \E s \in Steps : PopReady(s) \/ HandleException(s) \/ RecordResult(s)

StepTask(s) ==
  \/ TaskStart(s) \/ TaskRun(s) \/ TaskSkip(s)
  \/ TaskSucceed(s) \/ TaskFail(s) \/ TaskRaise(s)

\* execute() has returned or raised, and no task it spawned is left.
Terminated ==
  /\ pc \in {"returned", "raised"}
  /\ \A s \in Steps : task[s] \in {"none"} \cup Outcomes
  /\ UNCHANGED vars

Next == Executor \/ Abort \/ (\E s \in Steps : StepTask(s)) \/ Terminated

Spec == Init /\ [][Next]_vars

\* The event loop runs every runnable coroutine, and step functions end.
Fairness == WF_vars(Executor) /\ \A s \in Steps : WF_vars(StepTask(s))

FairSpec == Spec /\ Fairness
-----------------------------------------------------------------------------
(* Properties. *)

\* The types of the variables.
TypeOK ==
  /\ deps \in [Steps -> SUBSET Names]
  /\ limit \in Nat
  /\ pc \in PCs
  /\ cur \in Steps \cup {NoStep}
  /\ batch \in SUBSET Steps /\ ready \in SUBSET Steps /\ running \in SUBSET Steps
  /\ inDegree \in [Steps -> Nat]
  /\ stepState \in [Steps -> StepStates]
  /\ results \in [Steps -> Statuses]
  /\ reason \in [Steps -> Reasons]
  /\ overall \in {"running", "success", "failed"}
  /\ task \in [Steps -> TaskStates]
  /\ ctxCompleted \in SUBSET Names /\ ctxFailed \in SUBSET Names
  /\ vetoed \in SUBSET Steps

\* A dependency that no longer stands in the way of its dependents: it
\* succeeded, or its own conditions were not met.
Passed(d) == \/ results[d] = "success"
             \/ results[d] = "skipped" /\ reason[d] = "conditions not met"

\* A task is spawned for a step only when every dependency has been recorded
\* as passed, whatever the order in which tasks end, batches are handled and
\* callbacks suspend the executor (dag_executor.py 192-200 and 282-290).
DependencyOrder ==
  \A s \in Steps : task[s] # "none" => deps[s] \subseteq Steps
                                    /\ \A d \in deps[s] : Passed(d)

\* The steps whose task exists and has not ended.
Active == {s \in Steps : task[s] \in {"created", "starting", "body"}}

\* At most max_concurrency tasks are in progress, also while finished tasks
\* wait in a batch to be recorded and after the executor was aborted.
ConcurrencyBound == Cardinality(Active) <= limit

\* Exact failure propagation.  In a returned run every step below a failed one
\* was skipped without ever being spawned, and a step skipped as the dependent
\* of a failure does lie below a failed one (cascade_skip, 173-182).
FailureContained ==
  pc = "returned" =>
    \A s \in Steps :
      (\E f \in Steps : results[f] = "failed" /\ s \in Descendants(deps, f))
        <=> /\ reason[s] \in {"dependency failed", "unhandled exception"}
            /\ results[s] = "skipped"
            /\ task[s] = "none"

\* A returned result is complete and truthful: every step has one status, no
\* task is left behind, each spawned task's outcome is the one reported, and
\* the workflow failed exactly when a step failed (292-296).
VerdictCorrect ==
  pc = "returned" =>
    /\ completed = Steps
    /\ Active = {}
    /\ \A s \in Steps : task[s] # "none" =>
         results[s] = (IF task[s] = "raised" THEN "failed" ELSE task[s])
    /\ overall = "failed" <=> \E s \in Steps : results[s] = "failed"
    /\ overall # "running"

\* A step reported as "conditions not met" was turned down by its own
\* when/unless predicate: the executor never spawns a task whose dependency
\* check then fails (should_run 130-148 against 269-271 and mark_skipped).
NoSpuriousSkip ==
  \A s \in Steps : reason[s] = "conditions not met" => s \in vetoed

\* "Deadlock detection" (202-208) never fires on a validated graph: the
\* bookkeeping of in-degrees leaves no step unreachable, and only a
\* max_concurrency of 0 skips steps for "unmet dependencies".
NoFalseDeadlock ==
  \A s \in Steps : reason[s] = "unmet dependencies" => limit = 0

\* A recorded result is final: no later exception, cascade or batch entry
\* replaces or repeats it.
ResultsFinal ==
  [][\A s \in Steps : results[s] # "none" =>
       results'[s] = results[s] /\ reason'[s] = reason[s]]_vars

\* Every change of a step's state, the forced set_state of mark_skipped
\* included, is one _ALLOWED_TRANSITIONS permits: transition() never raises
\* out of run_step or of the scheduling loop.
LifecycleLegal ==
  [][\A s \in Steps : stepState'[s] # stepState[s] =>
       <<stepState[s], stepState'[s]>> \in AllowedTransitions]_vars

\* execute() ends, and so does every task it spawned, even when the executor
\* was aborted with tasks in flight.
RunEnds == <>(pc \in {"returned", "raised"} /\ Active = {})

-----------------------------------------------------------------------------
(* The inductive invariant behind TypeOK, DependencyOrder and ConcurrencyBound *)

\* Dependencies whose dependents have been unlocked: passed, and not the step
\* whose announcement still suspends the executor.
Applied == {d \in Steps : Passed(d) /\ d # cur}

\* Nothing has happened before the graph is validated and the run announced.
BeforeLoop ==
  pc \in {"validate", "start"} =>
    /\ ready = {} /\ running = {}
    /\ \A s \in Steps : results[s] = "none" /\ task[s] = "none"

\* Past validate() the graph is valid; cur is set while a step is announced.
Control ==
  /\ pc \notin {"validate", "raised"} => Valid(deps)
  /\ pc \notin {"notify", "raised"} => cur = NoStep
  /\ pc = "notify" => cur \in Steps /\ results[cur] = task[cur]
                     /\ (task[cur] = "skipped" => reason[cur] = "conditions not met")

\* `running` covers every task in progress, exactly the spawned steps without
\* a result, and respects the limit; a batch holds ended tasks only.
RunningSound ==
  /\ \A s \in Steps : s \in running <=> task[s] # "none" /\ results[s] = "none"
  /\ Cardinality(running) <= limit
  /\ batch \subseteq running
  /\ pc \notin {"handle", "notify", "raised"} => batch = {}
  /\ \A s \in batch : task[s] \in Outcomes
  /\ Active \subseteq running

\* In the loop, the in-degree of an unrecorded step counts its dependencies
\* that are not applied yet; a step in the ready deque has none and no task,
\* and a spawned step had none.
InDegreeSound ==
  pc \notin {"validate", "start", "raised"} =>
    /\ \A s \in Steps : results[s] = "none" =>
         inDegree[s] = Cardinality(deps[s] \ Applied)
    /\ \A s \in ready : deps[s] \subseteq Applied /\ task[s] = "none"
    /\ \A s \in Steps : task[s] # "none" => deps[s] \subseteq Applied

IInv == /\ TypeOK /\ BeforeLoop /\ Control /\ RunningSound
        /\ InDegreeSound /\ DependencyOrder

-----------------------------------------------------------------------------
(* The executor implements the abstract run. *)

Abstract == INSTANCE WorkflowRun WITH
  status  <- [s \in Steps |-> IF results[s] # "none" THEN results[s]
                              ELSE IF s \in running THEN "active" ELSE "waiting"],
  verdict <- IF pc = "returned" THEN overall
             ELSE IF pc = "raised" THEN "aborted" ELSE "open"

\* Every step of the executor and of the tasks is a step of the promise made
\* to the caller, or changes nothing of it.
ImplementsWorkflowRun == Abstract!Spec
=============================================================================
