---------------------------- MODULE StepExecutor ----------------------------
(***************************************************************************)
(* StepExecutor.execute (engine/step.py): the lifecycle of a step, from    *)
(* its conditions to its result, with retries, back-off, timeout, hooks,   *)
(* the verification gate, loop_until and cancellation, for several calls   *)
(* that share one StepExecutor and with it _running_tasks.                 *)
(*                                                                         *)
(* An action is what the event loop runs between two awaits.  What a       *)
(* predicate, hook, function, check or expression answers is               *)
(* nondeterministic.  Data (inputs, outputs, the "steps" view) and the     *)
(* length of a delay are left out.                                         *)
(***************************************************************************)
EXTENDS Integers

CONSTANTS
  Calls,      \* the concurrent calls of execute()
  StepNames,  \* names of step definitions
  StepOf,     \* the name of the step a call executes
  Configs,    \* the step definitions' settings (see ConfigType)
  MayCancel,  \* may the caller's task be cancelled (Pipeline's fail-fast)?
  NoCall      \* "no task registered under this name"

ConfigType == [hasFunc : BOOLEAN,      \* func is not None
               retries : Nat,          \* retry.max_retries
               loopMax : Nat,          \* loop_max; 0: no loop_until
               block   : BOOLEAN,      \* verify with escalation "block"
               timer   : BOOLEAN]      \* timeout_seconds is set

ASSUME StepExecutorAssumption ==
  /\ StepOf \in [Calls -> StepNames]
  /\ Configs \subseteq ConfigType
  /\ MayCancel \in BOOLEAN
  /\ NoCall \notin Calls

VARIABLES
  config,     \* parameter: the settings of each call's step
  pc,         \* the await at which each call is suspended
  attempt,    \* `attempt`: bodies started so far
  iteration,  \* result.metadata["loop_iteration"]
  body,       \* the asyncio task that runs the step's function
  registry,   \* _running_tasks
  outcome,    \* how the call ended
  complete,   \* calls whose step is in ctx.completed_steps
  failed,     \* calls whose step is in ctx.failed_steps
  faults      \* history: calls that met an error, a refusal or a cancellation

ctxVars == <<complete, failed>>
hist    == <<faults>>
vars    == <<config, pc, attempt, iteration, body, registry, outcome, ctxVars, hist>>

PCs == {"start", "preHooks", "attempt", "body", "checks", "completing",
        "blocking", "failing", "errorHooks", "backoff", "done"}

\* running: in progress; stopping: in progress, task.cancel() was called.
Running  == {"running", "stopping"}
Outcomes == {"pending", "success", "failed", "skipped", "escaped"}

-----------------------------------------------------------------------------
(* Faulty variants of the decisions below, each with one plausible bug.        *)

MayAttemptOnceMore(c)   == attempt[c] <= config[c].retries + 1
UnregisteredNever(c)    == registry
LoopAgainOnceMore(c)    == iteration[c] <= config[c].loopMax
CancelCaughtAsError     == [p \in PCs |-> IF p \in {"checks", "completing"} THEN "backoff"
                                          ELSE IF p = "blocking" THEN "failing" ELSE "done"]
EndedUnlessStopped      == {"ok", "error"}
ExhaustedAsSuccess      == "success"

-----------------------------------------------------------------------------
(* The decisions of the code. *)

\* while attempt <= step_def.retry.max_retries
MayAttempt(c) == attempt[c] <= config[c].retries

\* The same test, after the increment, guards a retry.
MayRetry(c) == attempt[c] <= config[c].retries

\* _running_tasks.pop(step_name, None)
Unregistered(c) == [registry EXCEPT ![StepOf[c]] = NoCall]

\* loop_iteration < loop_max: the loop_until expression is evaluated.
LoopAgain(c) == iteration[c] < config[c].loopMax

\* A body whose task is done: it returned, raised an ordinary exception, or
\* ended with CancelledError or TimeoutError.
Ended == {"ok", "error", "stopped"}

\* Where a CancelledError thrown at an await leads: the except clause of the
\* retry loop makes it a failure, anywhere else it leaves execute().
AfterCancel ==
  [p \in PCs |-> IF p \in {"checks", "completing", "blocking"} THEN "failing"
                 ELSE "done"]

\* The status with which the loop is left when no attempt remains: still
\* RUNNING, so mark_complete(False).
ExhaustedOutcome == "failed"

-----------------------------------------------------------------------------

Init ==
  /\ config \in [Calls -> Configs]
  /\ pc = [c \in Calls |-> "start"]
  /\ attempt = [c \in Calls |-> 0]
  /\ iteration = [c \in Calls |-> 1]
  /\ body = [c \in Calls |-> "none"]
  /\ registry = [n \in StepNames |-> NoCall]
  /\ outcome = [c \in Calls |-> "pending"]
  /\ complete = {} /\ failed = {}
  /\ faults = {}

Goto(c, to)   == pc' = [pc EXCEPT ![c] = to]
End(c, how)   == Goto(c, "done") /\ outcome' = [outcome EXCEPT ![c] = how]
Fault(c)      == faults' = faults \cup {c}
NoBodyChange  == UNCHANGED <<config, attempt, body, registry>>

\* A faulty variant: only errors are recorded, not cancellations and refusals.
MarkFailedOnErrorOnly(c, next) ==
  /\ failed' = IF pc[c] = "errorHooks" THEN failed \cup {c} ELSE failed
  /\ Goto(c, next)
  /\ UNCHANGED <<complete, outcome>>

\* mark_step_failed, which then awaits the event handlers.
MarkFailed(c, next) ==
  /\ failed' = failed \cup {c}
  /\ Goto(c, next)
  /\ UNCHANGED <<complete, outcome>>

\* An ordinary exception inside the retry loop: back-off and another attempt
\* if the policy retries it, else the error hooks.
HandleError(c) ==
  /\ \/ MayRetry(c) /\ Goto(c, "backoff")
     \/ Goto(c, "errorHooks")
  /\ Fault(c)
  /\ UNCHANGED <<ctxVars, outcome>>

-----------------------------------------------------------------------------
(* Before the retry loop. *)

\* should_run is false, or there is no function.
Skip(c) ==
  /\ pc[c] = "start"
  /\ End(c, "skipped")
  /\ NoBodyChange /\ UNCHANGED <<iteration, ctxVars, hist>>

NoFunction(c) ==
  /\ pc[c] = "start"
  /\ ~config[c].hasFunc
  /\ End(c, "failed")
  /\ Fault(c)
  /\ NoBodyChange /\ UNCHANGED <<iteration, ctxVars>>

\* mark_step_start; the pre-hooks run.
Begin(c) ==
  /\ pc[c] = "start"
  /\ config[c].hasFunc
  /\ Goto(c, "preHooks")
  /\ NoBodyChange /\ UNCHANGED <<iteration, outcome, ctxVars, hist>>

PreHookFails(c) ==
  /\ pc[c] = "preHooks"
  /\ MarkFailed(c, "failing")
  /\ Fault(c)
  /\ NoBodyChange /\ UNCHANGED iteration

\* The inputs are mapped ...
MapInputs(c) ==
  /\ pc[c] = "preHooks"
  /\ Goto(c, "attempt")
  /\ NoBodyChange /\ UNCHANGED <<iteration, outcome, ctxVars, hist>>

\* ... or a when/unless predicate or an input mapping raises out of execute().
Escape(c) ==
  /\ pc[c] \in {"start", "preHooks"}
  /\ End(c, "escaped")
  /\ Fault(c)
  /\ NoBodyChange /\ UNCHANGED <<iteration, ctxVars>>

-----------------------------------------------------------------------------
(* The retry loop. *)

\* _execute_with_timeout: the function's task is created and registered.
StartBody(c) ==
  /\ pc[c] = "attempt"
  /\ MayAttempt(c)
  /\ attempt' = [attempt EXCEPT ![c] = @ + 1]
  /\ body' = [body EXCEPT ![c] = "running"]
  /\ registry' = [registry EXCEPT ![StepOf[c]] = c]
  /\ Goto(c, "body")
  /\ UNCHANGED <<config, iteration, outcome, ctxVars, hist>>

\* loop_until asked for one more body and no attempt is left.
Exhausted(c) ==
  /\ pc[c] = "attempt"
  /\ ~MayAttempt(c)
  /\ End(c, ExhaustedOutcome)
  /\ NoBodyChange /\ UNCHANGED <<iteration, ctxVars, hist>>

BodyEnds(c) ==
  /\ body[c] \in Running
  /\ \E how \in {"ok", "error", "stopped"} : body' = [body EXCEPT ![c] = how]
  /\ UNCHANGED <<config, pc, attempt, iteration, registry, outcome, ctxVars, hist>>

\* asyncio.timeout expires: the function's task is cancelled.
Expire(c) ==
  /\ config[c].timer
  /\ pc[c] = "body"
  /\ body[c] = "running"
  /\ body' = [body EXCEPT ![c] = "stopping"]
  /\ UNCHANGED <<config, pc, attempt, iteration, registry, outcome, ctxVars, hist>>

\* The call runs again after its body ended: outputs are published, or the
\* exception is handled.
Resume(c) ==
  /\ pc[c] = "body"
  /\ body[c] \in Ended
  /\ registry' = Unregistered(c)
  /\ \/ body[c] = "ok" /\ Goto(c, "checks") /\ UNCHANGED <<ctxVars, outcome, hist>>
     \/ body[c] = "error" /\ HandleError(c)
     \/ body[c] = "stopped" /\ MarkFailed(c, "failing") /\ Fault(c)
  /\ UNCHANGED <<config, attempt, iteration, body>>

\* A post-hook, the verification or the loop_until expression raises: the
\* step's function is retried although it succeeded.
CheckRaises(c) ==
  /\ pc[c] = "checks"
  /\ HandleError(c)
  /\ NoBodyChange /\ UNCHANGED iteration

VerificationBlocks(c) ==
  /\ pc[c] = "checks"
  /\ config[c].block
  /\ MarkFailed(c, "blocking")
  /\ Fault(c)
  /\ NoBodyChange /\ UNCHANGED iteration

\* loop_until is not satisfied: the body runs again, as one more attempt.
LoopUnsatisfied(c) ==
  /\ pc[c] = "checks"
  /\ LoopAgain(c)
  /\ iteration' = [iteration EXCEPT ![c] = @ + 1]
  /\ Goto(c, "attempt")
  /\ NoBodyChange /\ UNCHANGED <<outcome, ctxVars, hist>>

\* No loop, its condition satisfied, or its last iteration: mark_step_complete,
\* which awaits the event handlers.
Completes(c) ==
  /\ pc[c] = "checks"
  /\ complete' = complete \cup {c}
  /\ Goto(c, "completing")
  /\ NoBodyChange /\ UNCHANGED <<iteration, outcome, failed, hist>>

\* asyncio.sleep(delay) is over.
Wake(c) ==
  /\ pc[c] = "backoff"
  /\ Goto(c, "attempt")
  /\ NoBodyChange /\ UNCHANGED <<iteration, outcome, ctxVars, hist>>

\* The error hooks have run (their exceptions are swallowed).
GiveUp(c) ==
  /\ pc[c] = "errorHooks"
  /\ MarkFailed(c, "failing")
  /\ NoBodyChange /\ UNCHANGED <<iteration, hist>>

\* The event handlers have run: execute() returns.
Return(c) ==
  /\ pc[c] \in {"completing", "failing", "blocking"}
  /\ End(c, IF pc[c] = "completing" THEN "success" ELSE "failed")
  /\ NoBodyChange /\ UNCHANGED <<iteration, ctxVars, hist>>

-----------------------------------------------------------------------------
(* Cancellation. *)

\* cancel_all: task.cancel() on every registered task that is not done.
CancelAll ==
  /\ body' = [c \in Calls |-> IF registry[StepOf[c]] = c /\ body[c] = "running"
                              THEN "stopping" ELSE body[c]]
  /\ UNCHANGED <<config, pc, attempt, iteration, registry, outcome, ctxVars, faults>>

\* The caller's task is cancelled while it awaits the function's task: that one
\* is cancelled too, or its outcome is lost if it had ended.
CancelCallerInBody(c) ==
  /\ MayCancel
  /\ pc[c] = "body"
  /\ body' = [body EXCEPT ![c] = IF @ \in Running THEN "stopping" ELSE "stopped"]
  /\ UNCHANGED <<config, pc, attempt, iteration, registry, outcome, ctxVars, hist>>

\* The caller's task is cancelled at another await.
CancelCaller(c) ==
  /\ MayCancel
  /\ pc[c] \notin {"start", "attempt", "body", "done"}
  /\ IF AfterCancel[pc[c]] = "done"
       THEN End(c, "escaped") /\ UNCHANGED ctxVars
       ELSE MarkFailed(c, AfterCancel[pc[c]])
  /\ Fault(c)
  /\ NoBodyChange /\ UNCHANGED iteration

-----------------------------------------------------------------------------

Execute(c) ==
  \/ Skip(c) \/ NoFunction(c) \/ Begin(c) \/ PreHookFails(c) \/ MapInputs(c)
  \/ Escape(c) \/ StartBody(c) \/ Exhausted(c) \/ Resume(c) \/ CheckRaises(c)
  \/ VerificationBlocks(c) \/ LoopUnsatisfied(c) \/ Completes(c) \/ Wake(c)
  \/ GiveUp(c) \/ Return(c)

Interrupt(c) == Expire(c) \/ CancelCallerInBody(c) \/ CancelCaller(c)

AllDone == (\A c \in Calls : pc[c] = "done") /\ UNCHANGED vars

Next == (\E c \in Calls : Execute(c) \/ BodyEnds(c) \/ Interrupt(c)) \/ CancelAll \/ AllDone

Spec == Init /\ [][Next]_vars

\* The event loop runs what is runnable; hooks, functions and sleeps end.
FairSpec == Spec /\ \A c \in Calls : WF_vars(Execute(c)) /\ WF_vars(BodyEnds(c))

-----------------------------------------------------------------------------
(* Properties. *)

\* The types of the variables.
TypeOK ==
  /\ config \in [Calls -> ConfigType]
  /\ pc \in [Calls -> PCs]
  /\ attempt \in [Calls -> Nat]
  /\ \A c \in Calls : attempt[c] <= config[c].retries + 1
  /\ iteration \in [Calls -> Nat]
  /\ \A c \in Calls : iteration[c] <= config[c].loopMax + 1
  /\ body \in [Calls -> {"none"} \cup Running \cup {"ok", "error", "stopped"}]
  /\ registry \in [StepNames -> Calls \cup {NoCall}]
  /\ outcome \in [Calls -> Outcomes]
  /\ complete \subseteq Calls /\ failed \subseteq Calls
  /\ faults \subseteq Calls

\* What a dependent's should_run reads from the context (complete and not
\* failed) is what the caller is told: it holds for a call that ended exactly
\* if the call returned SUCCESS, whatever interrupted it and wherever
\* (step.py 378-383, 411-454).
OutcomeMatchesContext ==
  \A c \in Calls :
    /\ pc[c] = "done" => (outcome[c] = "success" <=> c \in complete \ failed)
    /\ c \in complete \ failed => pc[c] \in {"completing", "done"}

\* _running_tasks holds exactly the calls whose function is in progress or not
\* yet collected, so that cancel and cancel_all reach every one of them and
\* nothing stays behind between executions (459-477, 487-493).
RegistryExact ==
  \A c \in Calls :
    /\ registry[StepOf[c]] = c <=> pc[c] = "body"
    /\ body[c] \in Running => pc[c] = "body"

\* A step recorded as complete never runs its function again, although the
\* record and its event are produced inside the try block of the retry loop.
NoRerunOnceComplete ==
  [][\A c \in complete : attempt'[c] = attempt[c]]_vars

\* A step fails only because something went wrong: a loop_until that is never
\* satisfied ends after loop_max iterations with the step's last success, as
\* the comment on loop_until says (100-102, 395-409).
FailureHasCause ==
  \A c \in Calls : outcome[c] = "failed" => c \in faults

\* Every call ends: no retry, loop or back-off goes on for ever.
CallsEnd == \A c \in Calls : <>(pc[c] = "done")

-----------------------------------------------------------------------------
(* The lifecycle implements what the schedulers rely on (for callers that do   *)
(* not cancel the task of a step, as DAGExecutor).                             *)

\* The progress of a call as the schedulers see it.
Progress(c) ==
  CASE pc[c] = "start" -> "starting"
    [] pc[c] = "completing" -> "success"
    [] pc[c] \in {"failing", "blocking"} -> "failed"
    [] pc[c] = "done" -> IF outcome[c] = "escaped" THEN "raised" ELSE outcome[c]
    [] OTHER -> "body"

taskBar == [c \in Calls |-> Progress(c)]

Abstract == INSTANCE StepTask WITH task <- taskBar

\* Every step of the retry loop is one the schedulers account for, and the
\* context is marked in the same step as the outcome is decided.
ImplementsStepTask == Abstract!Spec
=============================================================================
