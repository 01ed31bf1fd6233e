-------------------------- MODULE DAGVerdictProofs --------------------------
(***************************************************************************)
(* What a returned result of DAGExecutor says, for every set of steps,     *)
(* graph, limit and schedule: statuses are final and complete, failures    *)
(* are contained, nothing is skipped without cause.  The proofs strengthen *)
(* IInv of DAGExecutor by an account of every recorded result.  The last   *)
(* parts show that the executor implements WorkflowRun, and that no run    *)
(* takes infinitely many steps.                                            *)
(***************************************************************************)
EXTENDS DAGExecutorProofs

CascadeReasons == {"dependency failed", "unhandled exception"}

\* Skipped as a transitive dependent of a failure.
Cascaded(s) == reason[s] \in CascadeReasons

\* A step whose dependents are all to be skipped.
Bad(s) == results[s] = "failed" \/ Cascaded(s)

\* A spawned step is recorded with its task's outcome; a step recorded without
\* a task was skipped by a cascade or by the deadlock branch.
ResultSound ==
  \A s \in Steps :
    /\ results[s] = "none" => reason[s] = "none"
    /\ results[s] # "none" /\ task[s] # "none" =>
         /\ results[s] = (IF task[s] = "raised" THEN "failed" ELSE task[s])
         /\ reason[s] = (IF task[s] = "skipped" THEN "conditions not met" ELSE "none")
    /\ results[s] # "none" /\ task[s] = "none" =>
         /\ results[s] = "skipped"
         /\ reason[s] \in CascadeReasons \cup {"unmet dependencies"}

\* The overall status follows the failed results, and is settled at the end.
OverallSound ==
  /\ overall = "failed" <=> \E s \in Steps : results[s] = "failed"
  /\ pc \in {"end", "returned"} => completed = Steps /\ overall # "running"

\* Every dependent of a failure that was acted on is skipped, and every step
\* so skipped lies below a failure.
CascadeSound ==
  /\ pc # "raised" =>
       \A t \in Steps : \A d \in deps[t] \cap Steps :
         Bad(d) /\ d # cur => Cascaded(t)
  /\ \A s \in Steps : Cascaded(s) =>
       \E f \in Steps : results[f] = "failed" /\ s \in Descendants(deps, f)

\* Inside the loop an unspawned step without unapplied dependencies is ready,
\* so the deadlock branch is taken only when no slot exists.
ReadySound ==
  /\ pc \notin {"validate", "start", "raised"} =>
       \A s \in Steps :
         results[s] = "none" /\ task[s] = "none" /\ deps[s] \subseteq Applied
           => s \in ready
  /\ \A s \in Steps : reason[s] = "unmet dependencies" =>
       limit = 0 /\ pc \in {"end", "returned", "raised"}

\* The state manager follows the tasks until their results are applied.
StateSound ==
  \A s \in Steps :
    /\ results[s] = "none" /\ task[s] = "none" => stepState[s] = "PENDING"
    /\ task[s] = "created" => stepState[s] = "READY"
    /\ task[s] \in {"starting", "body"} \cup Outcomes /\ (results[s] = "none" \/ s = cur)
         => stepState[s] = "RUNNING"

Account == ResultSound /\ OverallSound /\ CascadeSound /\ ReadySound /\ StateSound

-----------------------------------------------------------------------------
(* Facts about cascades. *)

\* What a cascade reaches lies below the step it started from.
LEMMA CascadeDescends ==
  ASSUME NEW g, NEW s, NEW finished
  PROVE  ReachableFrom(g, s, finished) \subseteq Descendants(g, s)
BY DEF Descendants, ReachableFrom, ClosedUnder

\* No dependency of a spawned step is unrecorded, failed or skipped by a cascade.
LEMMA SpawnedNotBelow ==
  ASSUME IInv, ResultSound, NEW t \in Steps, task[t] # "none", NEW d \in deps[t]
  PROVE  d \in Steps /\ results[d] # "none" /\ ~Bad(d)
<1>1. d \in Steps /\ Passed(d)
  BY DEF IInv, DependencyOrder
<1> QED
  BY <1>1 DEF Passed, Bad, Cascaded, CascadeReasons, ResultSound, TaskStates, IInv, TypeOK

\* At the start there is nothing to account for.
LEMMA InitAccount == Init => Account
<1> SUFFICES ASSUME Init PROVE Account
  OBVIOUS
<1> QED
  BY DEF Init, Account, ResultSound, OverallSound, CascadeSound, ReadySound, StateSound,
         Bad, Cascaded, CascadeReasons, Outcomes

-----------------------------------------------------------------------------
(* Steps that record nothing. *)

\* Steps that leave results and tasks alone.
LEMMA QuietAccount ==
  ASSUME IInv, Account,
         UNCHANGED <<params, results, reason, task, stepState>>,
         cur' = cur \/ ~Bad(cur),
         cur' = cur \/ cur' = NoStep,
         pc' # "raised" => pc # "raised",
         ReadySound', OverallSound'
  PROVE  Account'
<1>1. ResultSound'
  BY DEF Account, ResultSound
<1>2. CascadeSound'
  <2>1. \A s : Bad(s)' = Bad(s) /\ Cascaded(s)' = Cascaded(s)
    BY DEF Bad, Cascaded
  <2> QED
    BY <2>1 DEF Account, CascadeSound, params
<1>3. StateSound'
  BY ExecutorAssumption DEF Account, StateSound
<1> QED
  BY <1>1, <1>2, <1>3 DEF Account

\* The moves that record nothing keep the account.
LEMMA ControlAccount ==
  ASSUME IInv, Account,
         \/ Validate \/ Begin \/ AwaitTasks \/ CollectDone \/ NextTurn
         \/ LoopExit \/ Return \/ Abort \/ UNCHANGED vars
  PROVE  Account'
<1> USE DEF params, execVars
<1>1. UNCHANGED <<params, cur, results, reason, task, stepState>>
  BY DEF Validate, Begin, AwaitTasks, CollectDone, NextTurn, LoopExit, Return, Abort, vars
<1>2. \A s : Passed(s)' = Passed(s)
  BY <1>1 DEF Passed
<1>3. Applied' = Applied
  BY <1>1, <1>2 DEF Applied
<1>4. ReadySound'
  <2>1. CASE Begin
    <3>1. Applied' = {}
      BY <1>3, <2>1 DEF Begin, IInv, BeforeLoop, Applied, Passed
    <3>2. \A s \in Steps : deps[s] = {} => s \in ready'
      BY <2>1, FS_EmptySet DEF Begin
    <3> QED
      BY <1>1, <2>1, <3>1, <3>2 DEF Begin, Account, ReadySound
  <2>2. CASE Validate
    BY <1>1, <2>2 DEF Validate, Account, ReadySound
  <2>3. CASE AwaitTasks \/ CollectDone \/ NextTurn \/ LoopExit
    BY <1>1, <1>3, <2>3 DEF AwaitTasks, CollectDone, NextTurn, LoopExit, Account, ReadySound
  <2>4. CASE Return \/ Abort
    <3>1. \A s \in Steps : reason[s] = "unmet dependencies" => pc' \in {"returned", "raised"}
      BY <2>4 DEF Return, Abort, Account, ReadySound
    <3> QED
      BY <1>1, <1>3, <2>4, <3>1 DEF Return, Abort, Account, ReadySound
  <2>5. CASE UNCHANGED vars
    BY <1>1, <1>3, <2>5 DEF vars, Account, ReadySound
  <2> QED
    BY <2>1, <2>2, <2>3, <2>4, <2>5
<1>5. OverallSound'
  <2>1. overall' = "failed" <=> overall = "failed"
    BY DEF Validate, Begin, AwaitTasks, CollectDone, NextTurn, LoopExit, Return, Abort, vars,
           FinalStatus
  <2>2. pc' \in {"end", "returned"} => completed = Steps /\ overall' # "running"
    BY DEF Validate, Begin, AwaitTasks, CollectDone, NextTurn, LoopExit, Return, Abort, vars,
           FinalStatus, AllRecorded, Account, OverallSound
  <2> QED
    BY <1>1, <2>1, <2>2 DEF Account, OverallSound, completed
<1>6. pc' # "raised" => pc # "raised"
  BY DEF Validate, Begin, AwaitTasks, CollectDone, NextTurn, LoopExit, Return, Abort, vars
<1> QED
  BY <1>1, <1>4, <1>5, <1>6, QuietAccount

\* So does spawning a step.
LEMMA PopReadyAccount ==
  ASSUME NEW s \in Steps, IInv, Account, PopReady(s)
  PROVE  Account'
<1> USE DEF params
<1>1. UNCHANGED <<params, pc, cur, results, reason, overall>> /\ ready' = ready \ {s}
  BY DEF PopReady
<1>2. \A d : Passed(d)' = Passed(d) /\ Bad(d)' = Bad(d) /\ Cascaded(d)' = Cascaded(d)
  BY <1>1 DEF Passed, Bad, Cascaded
<1>3. Applied' = Applied
  BY <1>1, <1>2 DEF Applied
<1>4. OverallSound' /\ CascadeSound'
  BY <1>1, <1>2 DEF Account, OverallSound, CascadeSound, completed
<1>5. CASE s \in completed
  BY <1>1, <1>3, <1>4, <1>5 DEF PopReady, Account, ResultSound, ReadySound, StateSound, completed
<1>6. CASE s \notin completed
  <2>1. /\ results[s] = "none" /\ task[s] = "none"
        /\ task' = [task EXCEPT ![s] = "created"]
        /\ stepState' = [stepState EXCEPT ![s] = "READY"]
    BY <1>6 DEF PopReady, completed, IInv, InDegreeSound
  <2>2. task \in [Steps -> TaskStates] /\ stepState \in [Steps -> StepStates]
    BY DEF IInv, TypeOK
  <2>3. ResultSound' /\ StateSound'
    BY <1>1, <2>1, <2>2 DEF Account, ResultSound, StateSound, Outcomes
  <2>4. ReadySound'
    BY <1>1, <1>3, <2>1, <2>2 DEF Account, ReadySound
  <2> QED
    BY <1>4, <2>3, <2>4 DEF Account
<1> QED
  BY <1>5, <1>6

\* So does a task that moves on: its result is recorded later.
LEMMA StepTaskAccount ==
  ASSUME NEW s \in Steps, IInv, Account, StepTask(s)
  PROVE  Account'
<1> USE DEF params, execVars
<1>1. /\ task[s] \in {"created", "starting", "body"}
      /\ \E st \in {"starting", "body"} \cup Outcomes : task' = [task EXCEPT ![s] = st]
      /\ UNCHANGED <<params, pc, execVars>>
  BY DEF StepTask, TaskStart, TaskRun, TaskSkip, TaskSucceed, TaskFail, TaskRaise, Outcomes
<1>2. /\ stepState' = stepState /\ task[s] # "created"
      \/ stepState' = [stepState EXCEPT ![s] = "RUNNING"]
  BY DEF StepTask, TaskStart, TaskRun, TaskSkip, TaskSucceed, TaskFail, TaskRaise
<1>3. results[s] = "none"
  BY <1>1 DEF IInv, RunningSound, Active
<1>4. task \in [Steps -> TaskStates] /\ stepState \in [Steps -> StepStates]
  BY DEF IInv, TypeOK
<1> HIDE DEF StepTask
<1>5. ResultSound'
  BY <1>1, <1>3, <1>4 DEF Account, ResultSound, Outcomes
<1>6. OverallSound' /\ CascadeSound'
  BY <1>1 DEF Account, OverallSound, CascadeSound, completed, Bad, Cascaded
<1>7. ReadySound'
  BY <1>1, <1>4 DEF Account, ReadySound, Applied, Passed, Outcomes
<1>8. StateSound'
  BY <1>1, <1>2, <1>3, <1>4 DEF Account, StateSound, Outcomes
<1> QED
  BY <1>5, <1>6, <1>7, <1>8 DEF Account

\* An unlock readies every dependent that waited for nothing else.
LEMMA ApplyUnlockAccount == IInv /\ Account /\ ApplyUnlock => Account'
<1> SUFFICES ASSUME IInv, Account, ApplyUnlock PROVE Account'
  OBVIOUS
<1> USE DEF params
<1>1. /\ pc = "notify" /\ pc' = "handle" /\ cur \in Steps /\ cur' = NoStep
      /\ results[cur] = task[cur] /\ task[cur] \in {"success", "skipped"}
      /\ UNCHANGED <<params, results, reason, overall, task>>
      /\ ready' = ready \cup NewlyReady(cur)
      /\ stepState' = [stepState EXCEPT
                         ![cur] = IF task[cur] = "success" THEN "SUCCESS" ELSE "SKIPPED"]
  BY DEF ApplyUnlock, IInv, Control
<1>2. Passed(cur) /\ ~Bad(cur)
  BY <1>1 DEF IInv, Control, Passed, Bad, Cascaded, CascadeReasons, Account, ResultSound
<1>3. \A d : Passed(d)' = Passed(d) /\ Bad(d)' = Bad(d) /\ Cascaded(d)' = Cascaded(d)
  BY <1>1 DEF Passed, Bad, Cascaded
<1>4. Applied' = Applied \cup {cur} /\ cur \notin Applied
  BY <1>1, <1>2, <1>3, ExecutorAssumption DEF Applied
<1>5. ResultSound' /\ OverallSound'
  BY <1>1 DEF Account, ResultSound, OverallSound
<1>6. CascadeSound'
  BY <1>1, <1>2, <1>3 DEF Account, CascadeSound
<1>7. StateSound'
  BY <1>1, ExecutorAssumption DEF Account, StateSound, IInv, TypeOK
<1>8. ReadySound'
  <2> SUFFICES ASSUME NEW s \in Steps, results[s] = "none", task[s] = "none",
                      deps[s] \subseteq Applied \cup {cur}
               PROVE  s \in ready'
    BY <1>1, <1>4 DEF ReadySound, Account
  <2>1. CASE cur \notin deps[s]
    BY <1>1, <2>1 DEF Account, ReadySound
  <2>2. CASE cur \in deps[s]
    <3>1. deps[s] \ Applied = {cur}
      BY <1>4, <2>2
    <3>2. Cardinality({cur}) = 1
      BY FS_Singleton
    <3>3. inDegree[s] = 1
      BY <1>1, <3>1, <3>2 DEF IInv, InDegreeSound
    <3> QED
      BY <1>1, <2>2, <3>3 DEF NewlyReady, Unlocked, Dependents, completed
  <2> QED
    BY <2>1, <2>2
<1> QED
  BY <1>5, <1>6, <1>7, <1>8 DEF Account

-----------------------------------------------------------------------------
(* Steps that record results. *)

\* A recorded result is its task's outcome.
LEMMA RecordResultAccount ==
  ASSUME NEW s \in Steps, IInv, Account, RecordResult(s)
  PROVE  Account'
<1> USE DEF params
<1>1. /\ pc = "handle" /\ pc' = "notify" /\ cur = NoStep /\ cur' = s
      /\ s \in batch /\ results[s] = "none"
      /\ task[s] \in {"success", "failed", "skipped"}
      /\ results' = [results EXCEPT ![s] = task[s]]
      /\ reason' = [reason EXCEPT
                      ![s] = IF task[s] = "skipped" THEN "conditions not met" ELSE @]
      /\ overall' = AddStep(task[s])
      /\ UNCHANGED <<params, ready, task, stepState>>
  BY DEF RecordResult, IInv, Control, RunningSound, Outcomes
<1>2. results \in [Steps -> Statuses] /\ reason \in [Steps -> Reasons]
  BY DEF IInv, TypeOK
<1>3. ResultSound'
  BY <1>1, <1>2 DEF Account, ResultSound
<1>4. OverallSound'
  BY <1>1, <1>2 DEF Account, OverallSound, AddStep
<1>5. /\ \A d \in Steps : Cascaded(d)' <=> Cascaded(d)
      /\ \A d \in Steps \ {s} : Bad(d)' <=> Bad(d)
  BY <1>1, <1>2 DEF Bad, Cascaded, CascadeReasons, Account, ResultSound
<1>6. CascadeSound'
  <2>1. \A f \in Steps : results[f] = "failed" => results'[f] = "failed"
    BY <1>1, <1>2
  <2> QED
    BY <1>1, <1>5, <2>1, ExecutorAssumption DEF Account, CascadeSound
<1>7. Applied' = Applied
  BY <1>1, <1>2, ExecutorAssumption DEF Applied, Passed
<1>8. ReadySound'
  BY <1>1, <1>2, <1>7 DEF Account, ReadySound
<1>9. StateSound'
  BY <1>1, <1>2, ExecutorAssumption DEF Account, StateSound
<1> QED
  BY <1>3, <1>4, <1>6, <1>8, <1>9 DEF Account

\* A cascade from a failed step f: f is being recorded, or was announced last.
LEMMA CascadeAccount ==
  ASSUME IInv, Account, NEW f \in Steps, NEW why \in CascadeReasons,
         pc \in {"handle", "notify"}, pc' = "handle", cur' = NoStep,
         ~Passed(f), ~Cascaded(f), task[f] \in {"failed", "raised"},
         results[f] = "none" \/ (results[f] = "failed" /\ f = cur),
         cur = NoStep \/ cur = f,
         UNCHANGED <<params, task, ready>>,
         results' = [t \in Steps |-> IF t = f THEN "failed"
                                     ELSE IF t \in CascadeSet(f) THEN "skipped"
                                     ELSE results[t]],
         reason' = [t \in Steps |-> IF t \in CascadeSet(f) THEN why ELSE reason[t]],
         overall' = "failed",
         \A t \in CascadeSet(f) : stepState'[t] = "SKIPPED",
         \A t \in Steps \ (CascadeSet(f) \cup {f}) : stepState'[t] = stepState[t]
  PROVE  Account'
<1> USE DEF params
<1> DEFINE S == CascadeSet(f)
<1>1. \A t \in S : task[t] = "none" /\ results[t] = "none" /\ t # f /\ t \in Steps
  BY CascadeUnspawned
<1>2. S = ReachableFrom(deps, f, completed \cup {f})
  BY DEF CascadeSet
<1> HIDE DEF S
<1>t. /\ results \in [Steps -> Statuses] /\ reason \in [Steps -> Reasons]
      /\ task \in [Steps -> TaskStates]
  BY DEF IInv, TypeOK
<1>3. ResultSound'
  BY <1>1, <1>t DEF Account, ResultSound, Cascaded, CascadeReasons, S
<1>4. OverallSound'
  BY DEF Account, OverallSound
<1>5. /\ \A t \in S : Cascaded(t)'
      /\ \A t \in Steps \ S : Cascaded(t)' = Cascaded(t)
      /\ \A t \in Steps : Bad(t)' <=> Bad(t) \/ t \in S \cup {f}
  BY <1>1, <1>t DEF Bad, Cascaded, S, Account, ResultSound, CascadeReasons
<1>6. CascadeSound'
  <2>1. ASSUME NEW t \in Steps, NEW d \in deps[t], d \in Steps, Bad(d)'
        PROVE  Cascaded(t)'
    <3>1. CASE d \notin S \cup {f}
      <4>1. d # cur /\ pc # "raised"
        BY <2>1, <3>1, ExecutorAssumption
      <4>2. Cascaded(t)
        BY <1>5, <2>1, <3>1, <4>1 DEF Account, CascadeSound
      <4> QED
        BY <1>5, <4>2
    <3>2. CASE d \in S \cup {f}
      <4>1. task[t] = "none"
        BY <1>1, <3>2, SpawnedNotBelow DEF Account, Bad
      <4>2. t # f
        BY <4>1
      <4>3. CASE t \notin completed
        <5>1. t \in Dependents(deps, d) \ (completed \cup {f})
          BY <2>1, <4>2, <4>3 DEF Dependents
        <5>2. t \in S
          BY <1>2, <3>2, <5>1, CascadeClosed
        <5> QED
          BY <1>5, <5>2
      <4>4. CASE t \in completed
        <5>1. Cascaded(t)
          BY <4>1, <4>4 DEF Account, ResultSound, ReadySound, completed, Cascaded
        <5> QED
          BY <1>5, <5>1
      <4> QED
        BY <4>3, <4>4
    <3> QED
      BY <3>1, <3>2
  <2>2. ASSUME NEW t \in Steps, Cascaded(t)'
        PROVE  \E g \in Steps : results'[g] = "failed" /\ t \in Descendants(deps, g)
    <3>1. CASE t \in S
      <4>1. t \in Descendants(deps, f) /\ results'[f] = "failed"
        BY <1>2, <3>1, CascadeDescends
      <4> QED
        BY <4>1
    <3>2. CASE t \notin S
      <4>1. PICK g \in Steps : results[g] = "failed" /\ t \in Descendants(deps, g)
        BY <1>5, <2>2, <3>2 DEF Account, CascadeSound
      <4>2. results'[g] = "failed"
        BY <1>1, <4>1 DEF S
      <4> QED
        BY <4>1, <4>2
    <3> QED
      BY <3>1, <3>2
  <2> QED
    BY <2>1, <2>2, ExecutorAssumption DEF CascadeSound
<1>7. Applied' = Applied
  BY <1>1, <1>t, ExecutorAssumption DEF Applied, Passed, S, CascadeReasons, Account, ResultSound
<1>8. ReadySound'
  BY <1>1, <1>7, <1>t DEF Account, ReadySound, S, CascadeReasons
<1>9. StateSound'
  BY <1>1, <1>t, ExecutorAssumption DEF Account, StateSound, S, IInv, RunningSound, Outcomes
<1> QED
  BY <1>3, <1>4, <1>6, <1>8, <1>9 DEF Account

\* A task that raised is recorded as failed, with its cascade.
LEMMA HandleExceptionAccount ==
  ASSUME NEW s \in Steps, IInv, Account, HandleException(s)
  PROVE  Account'
<1>1. s \in batch /\ pc = "handle" /\ task[s] = "raised"
  BY DEF HandleException
<1>2. results[s] = "none" /\ cur = NoStep
  BY <1>1 DEF IInv, RunningSound, Control
<1>3. ~Passed(s) /\ ~Cascaded(s)
  BY <1>2 DEF Passed, Cascaded, CascadeReasons, Account, ResultSound
<1>4. \A t \in CascadeSet(s) : t \in Steps
  BY CascadeFresh DEF CascadeSet
<1>5. stepState' = [t \in Steps |-> IF t \in CascadeSet(s) THEN "SKIPPED" ELSE stepState[t]]
  BY DEF HandleException
<1>6. /\ \A t \in CascadeSet(s) : stepState'[t] = "SKIPPED"
      /\ \A t \in Steps \ (CascadeSet(s) \cup {s}) : stepState'[t] = stepState[t]
  BY <1>4, <1>5
<1> QED
  BY <1>1, <1>2, <1>3, <1>6, CascadeAccount DEF HandleException, AddStep, CascadeReasons

\* Acting on a failure completes its cascade.
LEMMA ApplyFailureAccount == IInv /\ Account /\ ApplyFailure => Account'
<1> SUFFICES ASSUME IInv, Account, ApplyFailure PROVE Account'
  OBVIOUS
<1>1. /\ pc = "notify" /\ task[cur] = "failed" /\ cur \in Steps /\ results[cur] = "failed"
      /\ cur' = NoStep /\ pc' = "handle" /\ UNCHANGED <<params, task, ready, overall>>
  BY DEF ApplyFailure, IInv, Control
<1>2. ~Passed(cur) /\ ~Cascaded(cur)
  BY <1>1 DEF Passed, Cascaded, CascadeReasons, Account, ResultSound
<1>3. overall = "failed"
  BY <1>1 DEF Account, OverallSound
<1>4. \A t \in CascadeSet(cur) : t \in Steps /\ t # cur
  BY CascadeFresh DEF CascadeSet
<1>5. /\ \A t \in CascadeSet(cur) : stepState'[t] = "SKIPPED"
      /\ \A t \in Steps \ (CascadeSet(cur) \cup {cur}) : stepState'[t] = stepState[t]
  BY <1>4 DEF ApplyFailure
<1>6. results' = [t \in Steps |-> IF t = cur THEN "failed"
                                  ELSE IF t \in CascadeSet(cur) THEN "skipped"
                                  ELSE results[t]]
  BY <1>1, <1>4 DEF ApplyFailure, MarkSkipped
<1>7. reason' = [t \in Steps |-> IF t \in CascadeSet(cur) THEN "dependency failed"
                                 ELSE reason[t]]
  BY DEF ApplyFailure, MarkSkipped
<1> QED
  BY <1>1, <1>2, <1>3, <1>5, <1>6, <1>7, CascadeAccount DEF CascadeReasons

\* The deadlock branch is reached only when max_concurrency is 0: otherwise a
\* minimal step without a result would be ready.
LEMMA SkipUnreachableNoSlot == IInv /\ Account /\ SkipUnreachable => limit = 0
<1> SUFFICES ASSUME IInv, Account, SkipUnreachable, limit # 0 PROVE FALSE
  OBVIOUS
<1> DEFINE U == Steps \ completed
<1>1. /\ pc = "schedule" /\ running = {} /\ cur = NoStep
      /\ Acyclic(deps) /\ \A s \in Steps : deps[s] \subseteq Steps
  BY DEF SkipUnreachable, tasks, IInv, RunningSound, Control, Valid, MissingDependency
<1>2. ready = {}
  <2>1. Cardinality(running) = 0 /\ limit \in Nat
    BY <1>1, FS_EmptySet DEF IInv, TypeOK
  <2>2. Cardinality(running) < limit
    BY <2>1
  <2>3. ~CanPop
    BY DEF SkipUnreachable
  <2> QED
    BY <2>2, <2>3 DEF CanPop
<1>3. U # {} /\ U \in SUBSET Steps
  BY DEF SkipUnreachable, AllRecorded, completed
<1>4. PICK s \in U : deps[s] \cap U = {}
  BY <1>1, <1>3 DEF Acyclic
<1>5. s \in Steps /\ results[s] = "none" /\ task[s] = "none" /\ ~Cascaded(s)
  BY <1>1, <1>4 DEF completed, IInv, RunningSound, Account, ResultSound, Cascaded, CascadeReasons
<1>6. ASSUME NEW d \in deps[s]
      PROVE  d \in Applied
  <2>1. d \in Steps /\ results[d] # "none"
    BY <1>1, <1>4, <1>5 DEF completed
  <2>2. ~Bad(d)
    BY <1>1, <1>5, <2>1, ExecutorAssumption DEF Account, CascadeSound
  <2>3. reason[d] # "unmet dependencies"
    BY <1>1, <2>1 DEF Account, ReadySound
  <2>4. task[d] # "none"
    BY <2>1, <2>2, <2>3 DEF Account, ResultSound, Bad, Cascaded
  <2>5. Passed(d)
    BY <2>1, <2>2, <2>4 DEF Account, ResultSound, Bad, Passed, IInv, TypeOK, Statuses
  <2> QED
    BY <1>1, <2>1, <2>5, ExecutorAssumption DEF Applied
<1> QED
  BY <1>1, <1>2, <1>5, <1>6 DEF Account, ReadySound

\* The deadlock branch records every step it finds.
LEMMA SkipUnreachableAccount == IInv /\ Account /\ SkipUnreachable => Account'
<1> SUFFICES ASSUME IInv, Account, SkipUnreachable PROVE Account'
  OBVIOUS
<1> USE DEF params
<1>1. /\ pc = "schedule" /\ pc' = "end" /\ cur = NoStep /\ running = {} /\ limit = 0
      /\ overall' = FinalStatus /\ UNCHANGED <<params, cur, task>>
  BY SkipUnreachableNoSlot DEF SkipUnreachable, tasks, IInv, RunningSound, Control
<1>2. /\ results' = [s \in Steps |-> IF results[s] = "none" THEN "skipped" ELSE results[s]]
      /\ reason' = [s \in Steps |-> IF results[s] = "none" THEN "unmet dependencies"
                                    ELSE reason[s]]
      /\ stepState' = [s \in Steps |-> IF results[s] = "none" THEN "SKIPPED"
                                       ELSE stepState[s]]
  BY DEF SkipUnreachable, MarkSkipped, completed
<1>3. \A s \in Steps : results[s] = "none" => task[s] = "none"
  BY <1>1 DEF IInv, RunningSound
<1>4. ResultSound'
  BY <1>1, <1>2, <1>3 DEF Account, ResultSound
<1>5. OverallSound'
  BY <1>1, <1>2 DEF Account, OverallSound, FinalStatus, completed
<1>6. \A s \in Steps : (Bad(s)' <=> Bad(s)) /\ (Cascaded(s)' <=> Cascaded(s))
  BY <1>2 DEF Bad, Cascaded, CascadeReasons, Account, ResultSound
<1>7. CascadeSound'
  <2>1. \A f \in Steps : results[f] = "failed" => results'[f] = "failed"
    BY <1>2
  <2> QED
    BY <1>1, <1>6, <2>1, ExecutorAssumption DEF Account, CascadeSound
<1>8. ReadySound'
  BY <1>1, <1>2 DEF Account, ReadySound
<1>9. StateSound'
  BY <1>1, <1>2, <1>3, ExecutorAssumption
  DEF Account, StateSound, Outcomes, IInv, RunningSound, TypeOK, TaskStates
<1> QED
  BY <1>4, <1>5, <1>7, <1>8, <1>9 DEF Account

-----------------------------------------------------------------------------
(* The theorems. *)

\* Every step keeps the account.
LEMMA NextAccount == IInv /\ Account /\ [Next]_vars => Account'
<1> SUFFICES ASSUME IInv, Account, [Next]_vars PROVE Account'
  OBVIOUS
<1> QED
  BY ControlAccount, PopReadyAccount, StepTaskAccount, ApplyUnlockAccount,
     RecordResultAccount, HandleExceptionAccount, ApplyFailureAccount,
     SkipUnreachableAccount
  DEF Next, Executor, Terminated

\* Every recorded result is accounted for in every state of every run.
THEOREM AccountHolds == Spec => []Account
<1>1. Init => Account
  BY InitAccount
<1>2. IInv /\ Account /\ [Next]_vars => Account'
  BY NextAccount
<1> QED
  BY <1>1, <1>2, InductiveInvariant, PTL DEF Spec

\* For every graph, limit and schedule a returned result is complete, tells
\* each task's outcome, and is a failure exactly when a step failed.
THEOREM VerdictHolds == Spec => []VerdictCorrect
<1>1. IInv /\ Account => VerdictCorrect
  <2> SUFFICES ASSUME IInv, Account, pc = "returned"
               PROVE  /\ completed = Steps /\ Active = {}
                      /\ \A s \in Steps : task[s] # "none" =>
                           results[s] = (IF task[s] = "raised" THEN "failed" ELSE task[s])
                      /\ overall = "failed" <=> \E s \in Steps : results[s] = "failed"
                      /\ overall # "running"
    BY DEF VerdictCorrect
  <2>1. completed = Steps /\ overall # "running"
    BY DEF Account, OverallSound
  <2>2. Active = {}
    BY <2>1 DEF IInv, RunningSound, completed, Active
  <2> QED
    BY <2>1, <2>2 DEF Account, ResultSound, OverallSound, completed
<1> QED
  BY <1>1, InductiveInvariant, AccountHolds, PTL

\* For every graph, exactly the steps below a failed one are skipped as such.
THEOREM ContainmentHolds == Spec => []FailureContained
<1>1. IInv /\ Account => FailureContained
  <2> SUFFICES ASSUME IInv, Account, pc = "returned", NEW s \in Steps
               PROVE  (\E f \in Steps : results[f] = "failed" /\ s \in Descendants(deps, f))
                        <=> Cascaded(s) /\ results[s] = "skipped" /\ task[s] = "none"
    BY DEF FailureContained, Cascaded, CascadeReasons
  <2>1. ASSUME Cascaded(s)
        PROVE  /\ results[s] = "skipped" /\ task[s] = "none"
               /\ \E f \in Steps : results[f] = "failed" /\ s \in Descendants(deps, f)
    BY <2>1 DEF Account, ResultSound, CascadeSound, Cascaded, CascadeReasons
  <2>2. ASSUME NEW f \in Steps, results[f] = "failed", s \in Descendants(deps, f)
        PROVE  Cascaded(s)
    <3> DEFINE C == {t \in Steps : Cascaded(t)}
    <3>1. cur = NoStep
      BY DEF IInv, Control
    <3>2. \A d \in C \cup {f} : Dependents(deps, d) \subseteq C
      BY <2>2, <3>1, ExecutorAssumption DEF Account, CascadeSound, Bad, Dependents
    <3>3. ClosedUnder(deps, C, {}) /\ Dependents(deps, f) \ {} \subseteq C
      BY <3>2 DEF ClosedUnder
    <3>4. C \in SUBSET Steps
      OBVIOUS
    <3> HIDE DEF C
    <3>5. s \in C
      BY <2>2, <3>3, <3>4 DEF Descendants, ReachableFrom
    <3> QED
      BY <3>5 DEF C
  <2> QED
    BY <2>1, <2>2
<1> QED
  BY <1>1, InductiveInvariant, AccountHolds, PTL

\* On every validated graph the deadlock branch fires only without any slot.
THEOREM NoFalseDeadlockHolds == Spec => []NoFalseDeadlock
<1>1. Account => NoFalseDeadlock
  BY DEF Account, ReadySound, NoFalseDeadlock
<1> QED
  BY <1>1, AccountHolds, PTL

\* A recorded result and its reason never change again.
THEOREM ResultsFinalHold == Spec => ResultsFinal
<1>1. IInv /\ Account /\ [Next]_vars =>
        [\A s \in Steps : results[s] # "none" =>
           results'[s] = results[s] /\ reason'[s] = reason[s]]_vars
  <2> SUFFICES ASSUME IInv, Account, [Next]_vars, NEW s \in Steps, results[s] # "none"
               PROVE  results'[s] = results[s] /\ reason'[s] = reason[s]
    OBVIOUS
  <2>t. results \in [Steps -> Statuses] /\ reason \in [Steps -> Reasons]
    BY DEF IInv, TypeOK
  <2>1. ASSUME NEW t \in Steps, HandleException(t) \/ RecordResult(t)
        PROVE  results'[s] = results[s] /\ reason'[s] = reason[s]
    <3>1. t # s
      BY <2>1 DEF HandleException, RecordResult, IInv, RunningSound
    <3>2. s \notin CascadeSet(t)
      BY CascadeFresh DEF CascadeSet, completed
    <3> QED
      BY <2>t, <2>1, <3>1, <3>2 DEF HandleException, RecordResult
  <2>2. CASE ApplyFailure
    <3>1. s \notin CascadeSet(cur)
      BY CascadeFresh DEF CascadeSet, completed
    <3> QED
      BY <2>t, <2>2, <3>1 DEF ApplyFailure, MarkSkipped
  <2>3. CASE SkipUnreachable
    BY <2>t, <2>3 DEF SkipUnreachable, MarkSkipped, completed
  <2>4. ASSUME NEW t \in Steps, StepTask(t) \/ PopReady(t)
        PROVE  UNCHANGED <<results, reason>>
    BY <2>4 DEF StepTask, TaskStart, TaskRun, TaskSkip, TaskSucceed, TaskFail, TaskRaise,
                PopReady, execVars
  <2>5. CASE \/ Validate \/ Begin \/ AwaitTasks \/ CollectDone \/ NextTurn
             \/ LoopExit \/ Return \/ Abort \/ ApplyUnlock \/ UNCHANGED vars
    BY <2>5 DEF Validate, Begin, AwaitTasks, CollectDone, NextTurn, LoopExit, Return, Abort,
                ApplyUnlock, vars, execVars
  <2> QED
    BY <2>1, <2>2, <2>3, <2>4, <2>5 DEF Next, Executor, Terminated
<1> QED
  BY <1>1, InductiveInvariant, AccountHolds, PTL DEF Spec, ResultsFinal

\* Every change of a step's state is one _ALLOWED_TRANSITIONS permits, the
\* forced set_state of mark_skipped included (step_state.py).
THEOREM LifecycleHolds == Spec => LifecycleLegal
<1>1. IInv /\ Account /\ [Next]_vars =>
        [\A s \in Steps : stepState'[s] # stepState[s] =>
           <<stepState[s], stepState'[s]>> \in AllowedTransitions]_vars
  <2> SUFFICES ASSUME IInv, Account, [Next]_vars, NEW s \in Steps,
                      stepState'[s] # stepState[s]
               PROVE  <<stepState[s], stepState'[s]>> \in AllowedTransitions
    OBVIOUS
  <2>t. stepState \in [Steps -> StepStates]
    BY DEF IInv, TypeOK
  <2>1. CASE \E t \in Steps : StepTask(t)
    <3>1. task[s] = "created" /\ stepState'[s] = "RUNNING"
      BY <2>t, <2>1 DEF StepTask, TaskStart, TaskRun, TaskSkip, TaskSucceed, TaskFail,
                        TaskRaise
    <3> QED
      BY <3>1 DEF Account, StateSound, AllowedTransitions
  <2>2. CASE \E t \in Steps : PopReady(t)
    <3>1. s \in ready /\ results[s] = "none" /\ pc = "schedule" /\ stepState'[s] = "READY"
      BY <2>t, <2>2 DEF PopReady, completed
    <3>2. task[s] = "none"
      BY <3>1 DEF IInv, InDegreeSound
    <3> QED
      BY <3>1, <3>2 DEF Account, StateSound, AllowedTransitions
  <2>3. ASSUME NEW t \in Steps, HandleException(t)
        PROVE  <<stepState[s], stepState'[s]>> \in AllowedTransitions
    <3>1. s \in CascadeSet(t) /\ stepState'[s] = "SKIPPED" /\ pc = "handle" /\ results[t] = "none"
      BY <2>t, <2>3 DEF HandleException, IInv, RunningSound
    <3>2. task[s] = "none" /\ results[s] = "none"
      BY <3>1, CascadeUnspawned DEF Passed
    <3> QED
      BY <3>1, <3>2 DEF Account, StateSound, AllowedTransitions
  <2>4. CASE ApplyFailure
    <3>1. cur \in Steps /\ pc = "notify" /\ task[cur] = "failed" /\ ~Passed(cur)
      BY <2>4 DEF ApplyFailure, IInv, Control, Passed
    <3>2. CASE s = cur
      BY <2>4, <3>1, <3>2 DEF ApplyFailure, Account, StateSound, Outcomes, AllowedTransitions
    <3>3. CASE s # cur
      <4>1. s \in CascadeSet(cur) /\ stepState'[s] = "SKIPPED"
        BY <2>t, <2>4, <3>3 DEF ApplyFailure
      <4>2. task[s] = "none" /\ results[s] = "none"
        BY <3>1, <4>1, CascadeUnspawned
      <4> QED
        BY <4>1, <4>2 DEF Account, StateSound, AllowedTransitions
    <3> QED
      BY <3>2, <3>3
  <2>5. CASE ApplyUnlock
    <3>1. cur \in Steps /\ task[cur] \in {"success", "skipped"}
      BY <2>5 DEF ApplyUnlock, IInv, Control
    <3>2. s = cur /\ stepState'[s] \in {"SUCCESS", "SKIPPED"}
      BY <2>t, <2>5, <3>1 DEF ApplyUnlock
    <3> QED
      BY <3>1, <3>2 DEF Account, StateSound, Outcomes, AllowedTransitions
  <2>6. CASE SkipUnreachable
    <3>1. results[s] = "none" /\ stepState'[s] = "SKIPPED" /\ running = {}
      BY <2>t, <2>6 DEF SkipUnreachable, completed, tasks, IInv, RunningSound
    <3>2. task[s] = "none"
      BY <3>1 DEF IInv, RunningSound
    <3> QED
      BY <3>1, <3>2 DEF Account, StateSound, AllowedTransitions
  <2>7. CASE \/ Validate \/ Begin \/ AwaitTasks \/ CollectDone \/ NextTurn
             \/ LoopExit \/ Return \/ Abort \/ UNCHANGED vars
             \/ \E t \in Steps : RecordResult(t)
    BY <2>7 DEF Validate, Begin, AwaitTasks, CollectDone, NextTurn, LoopExit, Return, Abort,
                RecordResult, vars
  <2> QED
    BY <2>1, <2>2, <2>3, <2>4, <2>5, <2>6, <2>7 DEF Next, Executor, Terminated
<1> QED
  BY <1>1, InductiveInvariant, AccountHolds, PTL DEF Spec, LifecycleLegal

-----------------------------------------------------------------------------
(* The shared context. *)

\* No context the executor is given lists a step of the workflow as failed:
\* a fresh context lists none, and resume() fills completed_steps only.
NoneFailedBefore == \A c \in InitialContexts : c.failed \cap Steps = {}

\* The context has caught up with every outcome that was acted on, and with
\* the dependencies of every spawned step.
ContextSound ==
  /\ \A s \in Steps : task[s] = "success" => s \in ctxCompleted
  /\ \A s \in Steps \cap ctxFailed : task[s] = "failed"
  /\ pc # "raised" => \A d \in Applied : d \in ctxCompleted
  /\ \A s \in Steps : task[s] # "none" => DepsAllowRun(s)
  /\ \A s \in Steps : task[s] = "skipped" => s \in vetoed

\* A context without failures says nothing wrong at the start.
LEMMA InitContext == NoneFailedBefore /\ Init => ContextSound
BY ExecutorAssumption DEF NoneFailedBefore, Init, ContextSound, Applied, Passed

\* The context keeps up with what the executor acts on.
LEMMA NextContext ==
  ASSUME IInv, Account, ContextSound, [Next]_vars
  PROVE  ContextSound'
<1> USE DEF params, execVars, ctxVars
<1>t. /\ task \in [Steps -> TaskStates] /\ results \in [Steps -> Statuses]
      /\ reason \in [Steps -> Reasons]
  BY DEF IInv, TypeOK
\* Steps that record nothing and leave the tasks alone.
<1>1. ASSUME UNCHANGED <<params, cur, results, reason, task, ctxVars, vetoed>>,
             pc' # "raised" => pc # "raised"
      PROVE  ContextSound'
  BY <1>1 DEF ContextSound, DepsAllowRun, Applied, Passed
<1>2. CASE \/ Validate \/ Begin \/ AwaitTasks \/ CollectDone \/ NextTurn
           \/ LoopExit \/ Return \/ Abort \/ UNCHANGED vars
  BY <1>1, <1>2 DEF Validate, Begin, AwaitTasks, CollectDone, NextTurn, LoopExit, Return,
                    Abort, vars
\* Recording: what is applied stays the same, and the context only grows.
<1>3. ASSUME UNCHANGED <<params, task, ctxFailed, vetoed>>, Applied' = Applied,
             ctxCompleted \subseteq ctxCompleted', pc # "raised"
      PROVE  ContextSound'
  BY <1>3 DEF ContextSound, DepsAllowRun
<1>4. ASSUME NEW s \in Steps, RecordResult(s)
      PROVE  ContextSound'
  <2>1. cur = NoStep /\ results[s] = "none"
    BY <1>4 DEF RecordResult, IInv, Control, RunningSound
  <2>2. Applied' = Applied
    BY <1>t, <1>4, <2>1, ExecutorAssumption DEF RecordResult, Applied, Passed
  <2> QED
    BY <1>3, <1>4, <2>2 DEF RecordResult
<1>5. ASSUME NEW s \in Steps, HandleException(s)
      PROVE  ContextSound'
  <2>1. results[s] = "none"
    BY <1>5 DEF HandleException, IInv, RunningSound
  <2>2. \A t \in CascadeSet(s) : results[t] = "none"
    BY CascadeFresh DEF CascadeSet, completed
  <2>3. \A d \in Steps : Passed(d)' <=> Passed(d)
    BY <1>5, <2>1, <2>2 DEF HandleException, Passed
  <2>4. Applied' = Applied
    BY <1>5, <2>3 DEF HandleException, Applied
  <2> QED
    BY <1>3, <1>5, <2>4 DEF HandleException
<1>6. CASE ApplyFailure
  <2>1. cur \in Steps /\ ~Passed(cur)
    BY <1>6 DEF ApplyFailure, IInv, Control, Passed
  <2>2. \A t \in CascadeSet(cur) : results[t] = "none"
    BY CascadeFresh DEF CascadeSet, completed
  <2>3. \A d \in Steps : Passed(d)' <=> Passed(d)
    BY <1>6, <2>2 DEF ApplyFailure, MarkSkipped, Passed
  <2>4. Applied' = Applied
    BY <1>6, <2>1, <2>3, ExecutorAssumption DEF ApplyFailure, Applied
  <2> QED
    BY <1>3, <1>6, <2>4 DEF ApplyFailure, MarkSkipped
<1>7. CASE SkipUnreachable
  <2>1. \A d \in Steps : Passed(d)' <=> Passed(d)
    BY <1>7 DEF SkipUnreachable, MarkSkipped, completed, Passed
  <2>2. Applied' = Applied
    BY <1>7, <2>1 DEF SkipUnreachable, Applied
  <2> QED
    BY <1>3, <1>7, <2>2 DEF SkipUnreachable, MarkSkipped
<1>8. CASE ApplyUnlock
  <2>1. cur \in Steps /\ results[cur] = task[cur] /\ pc = "notify"
        /\ UNCHANGED <<params, results, reason, task, ctxFailed, vetoed>>
        /\ ctxCompleted' = CtxDone(cur) /\ cur' = NoStep
    BY <1>8 DEF ApplyUnlock, IInv, Control
  <2>2. cur \in ctxCompleted' /\ ctxCompleted \subseteq ctxCompleted'
    BY <1>8, <2>1 DEF ApplyUnlock, CtxDone, ContextSound
  <2>3. Applied' \subseteq Applied \cup {cur}
    BY <2>1 DEF Applied, Passed
  <2> QED
    BY <2>1, <2>2, <2>3 DEF ContextSound, DepsAllowRun
<1>9. ASSUME NEW s \in Steps, PopReady(s)
      PROVE  ContextSound'
  <2>1. CASE s \in completed
    BY <1>1, <1>9, <2>1 DEF PopReady
  <2>2. CASE s \notin completed
    <3>1. task' = [task EXCEPT ![s] = "created"] /\ task[s] = "none" /\ deps[s] \subseteq Applied
          /\ pc = "schedule"
          /\ UNCHANGED <<params, pc, cur, results, reason, ctxVars, vetoed>>
      BY <1>9, <2>2 DEF PopReady, IInv, InDegreeSound
    <3>2. \A d \in Applied : d \in ctxCompleted /\ d \notin ctxFailed
      BY <3>1 DEF ContextSound, Applied, Passed, Account, ResultSound
    <3>3. DepsAllowRun(s)
      BY <3>1, <3>2 DEF DepsAllowRun
    <3> QED
      BY <1>t, <3>1, <3>3 DEF ContextSound, DepsAllowRun, Applied, Passed
  <2> QED
    BY <2>1, <2>2
<1>10. ASSUME NEW s \in Steps, StepTask(s)
       PROVE  ContextSound'
  <2>1. /\ task[s] \in {"created", "starting", "body"}
        /\ UNCHANGED <<params, pc, execVars>>
    BY <1>10 DEF StepTask, TaskStart, TaskRun, TaskSkip, TaskSucceed, TaskFail, TaskRaise
  <2>2. results[s] = "none" /\ DepsAllowRun(s)
    BY <2>1 DEF IInv, RunningSound, Active, ContextSound
  <2>3. /\ \E st \in {"starting", "body"} \cup Outcomes :
             /\ task' = [task EXCEPT ![s] = st]
             /\ st = "success" => s \in ctxCompleted'
             /\ st = "skipped" => s \in vetoed'
             /\ ctxFailed' \subseteq ctxFailed \cup (IF st = "failed" THEN {s} ELSE {})
        /\ ctxCompleted \subseteq ctxCompleted' /\ vetoed \subseteq vetoed'
    BY <1>10, <2>2 DEF StepTask, TaskStart, TaskRun, TaskSkip, TaskSucceed, TaskFail,
                       TaskRaise, Outcomes
  <2> HIDE DEF StepTask
  <2>4. \A t \in Steps : task[t] # "none" => s \notin deps[t]
    BY <2>2, SpawnedNotBelow DEF Account
  <2>5. \A t \in Steps : task'[t] # "none" => DepsAllowRun(t)'
    BY <1>t, <2>1, <2>2, <2>3, <2>4 DEF ContextSound, DepsAllowRun
  <2>6. Applied' = Applied
    BY <2>1 DEF Applied, Passed
  <2>7. \A t \in Steps \cap ctxFailed' : task'[t] = "failed"
    BY <1>t, <2>1, <2>3 DEF ContextSound
  <2>8. \A t \in Steps : /\ task'[t] = "success" => t \in ctxCompleted'
                         /\ task'[t] = "skipped" => t \in vetoed'
    BY <1>t, <2>3 DEF ContextSound
  <2> QED
    BY <2>1, <2>3, <2>5, <2>6, <2>7, <2>8 DEF ContextSound
<1> QED
  BY <1>2, <1>4, <1>5, <1>6, <1>7, <1>8, <1>9, <1>10 DEF Next, Executor, Terminated

\* When no step was failed beforehand, a step is skipped for its conditions
\* only if its own when/unless predicate said no.
THEOREM NoSpuriousSkipHolds ==
  ASSUME NoneFailedBefore
  PROVE  Spec => []NoSpuriousSkip
<1>1. Init => ContextSound
  BY InitContext
<1>2. IInv /\ Account /\ ContextSound /\ [Next]_vars => ContextSound'
  BY NextContext
<1>3. Account /\ ContextSound => NoSpuriousSkip
  BY DEF Account, ResultSound, CascadeReasons, ContextSound, NoSpuriousSkip
<1> QED
  BY <1>1, <1>2, <1>3, InductiveInvariant, AccountHolds, PTL DEF Spec

-----------------------------------------------------------------------------
(* DAGExecutor implements WorkflowRun, the promise made to its caller.      *)

\* The refinement mapping.
StatusBar(s) == IF results[s] # "none" THEN results[s]
                ELSE IF s \in running THEN "active" ELSE "waiting"
VerdictBar   == IF pc = "returned" THEN overall
                ELSE IF pc = "raised" THEN "aborted" ELSE "open"

\* Without a slot nothing is ever spawned.
NoSlotNoTask == limit = 0 => \A s \in Steps : task[s] = "none"

RInv == IInv /\ Account /\ NoSlotNoTask

\* No run begins with tasks.
LEMMA InitSlots == Init => NoSlotNoTask
BY DEF Init, NoSlotNoTask

\* Spawning needs a slot.
LEMMA NextSlots == IInv /\ NoSlotNoTask /\ [Next]_vars => NoSlotNoTask'
<1> SUFFICES ASSUME IInv, NoSlotNoTask, [Next]_vars, limit' = 0
             PROVE  \A s \in Steps : task'[s] = "none"
  BY DEF NoSlotNoTask
<1>1. limit' = limit
  BY DEF Next, Executor, StepTask, Terminated, vars, params, Validate, Begin, AwaitTasks,
         CollectDone, SkipUnreachable, ApplyFailure, ApplyUnlock, NextTurn, LoopExit, Return,
         PopReady, HandleException, RecordResult, Abort, TaskStart, TaskRun, TaskSkip,
         TaskSucceed, TaskFail, TaskRaise
<1>2. \A s \in Steps : task[s] = "none"
  BY <1>1 DEF NoSlotNoTask
<1>3. ASSUME NEW s \in Steps, PopReady(s) \/ StepTask(s)
      PROVE  task' = task
  <2>1. CASE StepTask(s)
    BY <1>2, <2>1 DEF StepTask, TaskStart, TaskRun, TaskSkip, TaskSucceed, TaskFail, TaskRaise
  <2>2. CASE PopReady(s)
    <3>1. IsFiniteSet(running) /\ Cardinality(running) \in Nat
      BY StepsAssumption, FS_Subset, FS_CardinalityType DEF IInv, TypeOK
    <3>2. ~(Cardinality(running) < limit)
      BY <1>1, <3>1
    <3> QED
      BY <2>2, <3>2 DEF PopReady, CanPop
  <2> QED
    BY <1>3, <2>1, <2>2
<1>4. task' = task
  BY <1>3 DEF Next, Executor, Terminated, vars, Validate, Begin, AwaitTasks, CollectDone,
              SkipUnreachable, ApplyFailure, ApplyUnlock, NextTurn, LoopExit, Return,
              HandleException, RecordResult, Abort
<1> QED
  BY <1>2, <1>4

\* The instance counts as FiniteSets does.
LEMMA CardinalityIsCardinality ==
  ASSUME NEW S
  PROVE  Abstract!Cardinality(S) = Cardinality(S)
BY DEF Abstract!Cardinality, Cardinality, Abstract!IsFiniteSet, IsFiniteSet

\* Between announcements, every step below a failed one is skipped.
LEMMA FailuresReach ==
  ASSUME IInv, Account, pc # "raised", cur = NoStep,
         NEW f \in Steps, results[f] = "failed", NEW s \in Descendants(deps, f)
  PROVE  results[s] = "skipped" /\ s \in Steps
<1> DEFINE C == {t \in Steps : Cascaded(t)}
<1>1. \A d \in C \cup {f} : Dependents(deps, d) \subseteq C
  BY ExecutorAssumption DEF Account, CascadeSound, Bad, Dependents
<1>2. ClosedUnder(deps, C, {}) /\ Dependents(deps, f) \ {} \subseteq C /\ C \in SUBSET Steps
  BY <1>1 DEF ClosedUnder
<1> HIDE DEF C
<1>3. s \in C
  BY <1>2 DEF Descendants, ReachableFrom
<1> QED
  BY <1>3 DEF C, Account, ResultSound, Cascaded, CascadeReasons

-----------------------------------------------------------------------------
(* Each step of the executor is a step of the promise, or none. *)

\* Steps that the caller cannot tell apart.
LEMMA StutterStep ==
  ASSUME UNCHANGED <<deps, limit>>,
         \A s \in Steps : StatusBar(s)' = StatusBar(s), VerdictBar' = VerdictBar
  PROVE  UNCHANGED Abstract!vars
BY DEF Abstract!vars, StatusBar, VerdictBar

\* What the caller cannot see: bookkeeping, and tasks between their awaits.
LEMMA SilentSteps ==
  ASSUME RInv,
         \/ Begin \/ AwaitTasks \/ CollectDone \/ NextTurn \/ LoopExit \/ ApplyUnlock
         \/ Terminated \/ UNCHANGED vars
         \/ Validate /\ pc' = "start"
         \/ \E s \in Steps : StepTask(s) \/ (PopReady(s) /\ s \in completed)
  PROVE  UNCHANGED Abstract!vars
<1>1. UNCHANGED <<deps, limit, results, running>>
  BY DEF Begin, AwaitTasks, CollectDone, NextTurn, LoopExit, ApplyUnlock, Terminated, vars,
         Validate, StepTask, TaskStart, TaskRun, TaskSkip, TaskSucceed, TaskFail, TaskRaise,
         PopReady, params, execVars
<1>2. VerdictBar' = VerdictBar
  BY DEF VerdictBar, Begin, AwaitTasks, CollectDone, NextTurn, LoopExit, ApplyUnlock,
         Terminated, vars, Validate, StepTask, TaskStart, TaskRun, TaskSkip, TaskSucceed,
         TaskFail, TaskRaise, PopReady, params, execVars
<1> QED
  BY <1>1, <1>2, StutterStep DEF StatusBar

\* Spawning a step starts it in WorkflowRun.
LEMMA StartStep ==
  ASSUME RInv, NEW s \in Steps, PopReady(s), s \notin completed
  PROVE  Abstract!Next
<1> USE DEF RInv
<1>1. /\ pc = "schedule" /\ pc' = "schedule" /\ cur = NoStep /\ s \in ready
      /\ results[s] = "none" /\ Cardinality(running) < limit
      /\ running' = running \cup {s} /\ UNCHANGED <<deps, limit, results, overall>>
  BY DEF PopReady, CanPop, completed, params, IInv, Control
<1>2. s \notin running /\ Valid(deps)
  BY <1>1 DEF IInv, InDegreeSound, RunningSound, Control
<1>3. \A d \in deps[s] : StatusBar(d) \in {"success", "skipped"}
  BY <1>1 DEF IInv, InDegreeSound, Applied, Passed, StatusBar
<1>4. Abstract!In("active") = running
  <2>1. running \subseteq Steps /\ \A t \in running : results[t] = "none"
    BY DEF IInv, TypeOK, RunningSound
  <2>2. \A t \in Steps : StatusBar(t) = "active" <=> t \in running
    BY <2>1 DEF StatusBar, IInv, TypeOK, Statuses
  <2> QED
    BY <2>1, <2>2 DEF Abstract!In, StatusBar
<1>5. ~Abstract!Blocked(s)
  <2> SUFFICES ASSUME NEW f \in Steps, StatusBar(f) = "failed", s \in Descendants(deps, f)
               PROVE  FALSE
    BY DEF Abstract!Blocked, Abstract!In, StatusBar, Abstract!Descendants, Descendants,
           Abstract!ReachableFrom, ReachableFrom, Abstract!Dependents, Dependents,
           Abstract!ClosedUnder, ClosedUnder
  <2>1. results[f] = "failed"
    BY DEF StatusBar
  <2> QED
    BY <1>1, <2>1, FailuresReach
<1>6. Abstract!Valid(deps)
  BY <1>2 DEF Abstract!Valid, Valid, Abstract!MissingDependency, MissingDependency,
              Abstract!Acyclic, Acyclic
<1>7. [t \in Steps |-> StatusBar(t)'] = Abstract!Assign({s}, "active")
  <2>1. \A t \in Steps : StatusBar(t)' = IF t \in {s} THEN "active" ELSE StatusBar(t)
    BY <1>1 DEF StatusBar
  <2> QED
    BY <2>1 DEF Abstract!Assign, StatusBar
<1>8. Abstract!Start(s)
  <2>1. StatusBar(s) = "waiting" /\ s \in Steps
    BY <1>1, <1>2 DEF StatusBar
  <2>2. \A d \in deps[s] : d \in Steps
    BY <1>2 DEF Valid, MissingDependency
  <2>3. Abstract!Cardinality(Abstract!In("active")) < limit
    BY <1>1, <1>4, CardinalityIsCardinality
  <2> QED
    BY <1>1, <1>3, <1>5, <1>6, <1>7, <2>1, <2>2, <2>3 DEF Abstract!Start, StatusBar
<1> QED
  BY <1>8 DEF Abstract!Next

\* Recording a result of a task settles its step.
LEMMA SettleStep ==
  ASSUME RInv, NEW s \in Steps, RecordResult(s)
  PROVE  Abstract!Next
<1> USE DEF RInv
<1>1. /\ pc = "handle" /\ pc' = "notify" /\ s \in running /\ results[s] = "none"
      /\ task[s] \in {"success", "failed", "skipped"}
      /\ results' = [results EXCEPT ![s] = task[s]]
      /\ running' = running \ {s} /\ UNCHANGED <<deps, limit>>
  BY DEF RecordResult, Discard, params, IInv, RunningSound, Outcomes
<1>2. results \in [Steps -> Statuses]
  BY DEF IInv, TypeOK
<1>3. \A t \in Steps : StatusBar(t)' = IF t \in {s} THEN task[s] ELSE StatusBar(t)
  BY <1>1, <1>2 DEF StatusBar
<1>4. Abstract!Settle(s)
  BY <1>1, <1>3 DEF Abstract!Settle, Abstract!Assign, Abstract!Settled, StatusBar
<1> QED
  BY <1>4 DEF Abstract!Next

\* A task that raised fails its step and skips what lies below, in one step.
LEMMA FailStep ==
  ASSUME RInv, NEW s \in Steps, HandleException(s)
  PROVE  Abstract!Next
<1> USE DEF RInv
<1> DEFINE S == CascadeSet(s)
<1>1. /\ pc = "handle" /\ pc' = "handle" /\ s \in running /\ results[s] = "none"
      /\ results' = [t \in Steps |-> IF t = s THEN "failed"
                                     ELSE IF t \in S THEN "skipped" ELSE results[t]]
      /\ running' = running \ {s} /\ UNCHANGED <<deps, limit>>
  BY DEF HandleException, Discard, params, IInv, RunningSound
<1>2. \A t \in S : t \in Steps /\ t # s /\ task[t] = "none" /\ results[t] = "none"
  BY <1>1, CascadeUnspawned DEF Passed
<1>3. \A t \in S : t \in Descendants(deps, s)
  BY CascadeDescends DEF CascadeSet
<1> HIDE DEF S
<1>4. \A t \in S : t \notin running
  BY <1>2 DEF IInv, RunningSound
<1>5. S \in SUBSET (Abstract!In("waiting") \cap Abstract!Descendants(deps, s))
  BY <1>2, <1>3, <1>4
  DEF Abstract!In, Abstract!Descendants, Descendants, Abstract!ReachableFrom, ReachableFrom,
      Abstract!Dependents, Dependents, Abstract!ClosedUnder, ClosedUnder
<1>6. \A t \in Steps : StatusBar(t)' = IF t = s THEN "failed"
                                       ELSE IF t \in S THEN "skipped" ELSE StatusBar(t)
  BY <1>1 DEF StatusBar
<1>7. [t \in Steps |-> StatusBar(t)'] = [Abstract!Assign(S, "skipped") EXCEPT ![s] = "failed"]
  BY <1>6 DEF Abstract!Assign, StatusBar
<1>8. Abstract!FailAndSkip(s)
  BY <1>1, <1>5, <1>7 DEF Abstract!FailAndSkip, StatusBar
<1> QED
  BY <1>8 DEF Abstract!Next

\* Acting on a recorded failure skips what lies below it.
LEMMA SkipStep == RInv /\ ApplyFailure => Abstract!Next
<1> SUFFICES ASSUME RInv, ApplyFailure PROVE Abstract!Next
  OBVIOUS
<1> USE DEF RInv
<1> DEFINE S == CascadeSet(cur)
<1>1. /\ pc = "notify" /\ pc' = "handle" /\ cur \in Steps /\ results[cur] = "failed"
      /\ results' = [t \in Steps |-> IF t \in S THEN "skipped" ELSE results[t]]
      /\ UNCHANGED <<deps, limit, running>>
  BY DEF ApplyFailure, MarkSkipped, params, IInv, Control
<1>2. \A t \in S : t \in Steps /\ task[t] = "none" /\ results[t] = "none"
  BY <1>1, CascadeUnspawned DEF Passed
<1>3. \A t \in S : t \in Descendants(deps, cur)
  BY CascadeDescends DEF CascadeSet
<1> HIDE DEF S
<1>4. \A t \in S : t \notin running
  BY <1>2 DEF IInv, RunningSound
<1>5. S \in SUBSET {t \in Abstract!In("waiting") : Abstract!Blocked(t)}
  BY <1>1, <1>2, <1>3, <1>4
  DEF Abstract!In, Abstract!Blocked, Abstract!Descendants, Descendants, Abstract!ReachableFrom,
      ReachableFrom, Abstract!Dependents, Dependents, Abstract!ClosedUnder, ClosedUnder
<1>6. \A t \in Steps : StatusBar(t)' = IF t \in S THEN "skipped" ELSE StatusBar(t)
  BY <1>1 DEF StatusBar
<1>7. Abstract!SkipBlocked
  BY <1>1, <1>5, <1>6 DEF Abstract!SkipBlocked, Abstract!Assign, StatusBar
<1> QED
  BY <1>7 DEF Abstract!Next

\* The deadlock branch is WorkflowRun without slots.
LEMMA SkipAllStep == RInv /\ SkipUnreachable => Abstract!Next
<1> SUFFICES ASSUME RInv, SkipUnreachable PROVE Abstract!Next
  OBVIOUS
<1> USE DEF RInv
<1>1. pc = "schedule" /\ pc' = "end" /\ limit = 0 /\ UNCHANGED <<deps, limit, running>>
  BY SkipUnreachableNoSlot DEF SkipUnreachable, params
<1>2. \A s \in Steps : results[s] = "none"
  <2> SUFFICES ASSUME NEW s \in Steps, results[s] # "none" PROVE FALSE
    OBVIOUS
  <2>1. \A t \in Steps : task[t] = "none"
    BY <1>1 DEF NoSlotNoTask
  <2>2. Cascaded(s)
    BY <1>1, <2>1 DEF Account, ResultSound, ReadySound, Cascaded
  <2>3. PICK f \in Steps : results[f] = "failed"
    BY <2>2 DEF Account, CascadeSound
  <2> QED
    BY <2>1, <2>3 DEF Account, ResultSound
<1>3. \A s \in Steps : results'[s] = "skipped"
  BY <1>2 DEF SkipUnreachable, MarkSkipped, completed
<1>4. Abstract!SkipAll
  BY <1>1, <1>3 DEF Abstract!SkipAll, Abstract!Assign
<1> QED
  BY <1>4 DEF Abstract!Next

\* A returned result is the verdict of a settled run.
LEMMA ConcludeStep == RInv /\ Return => Abstract!Next
<1> SUFFICES ASSUME RInv, Return PROVE Abstract!Next
  OBVIOUS
<1> USE DEF RInv
<1>1. pc = "end" /\ pc' = "returned" /\ UNCHANGED <<deps, limit, results, running, overall>>
  BY DEF Return, params, execVars
<1>2. \A s \in Steps : results[s] \in {"success", "failed", "skipped"}
  BY <1>1 DEF Account, OverallSound, completed, IInv, TypeOK, Statuses
<1>3. overall \in {"success", "failed"} /\ (overall = "failed" <=> \E s \in Steps : results[s] = "failed")
  BY <1>1 DEF Account, OverallSound, IInv, TypeOK
<1>4. Abstract!In("failed") = {} <=> ~\E s \in Steps : results[s] = "failed"
  BY <1>2 DEF Abstract!In
<1>5. Abstract!Conclude
  BY <1>1, <1>2, <1>3, <1>4 DEF Abstract!Conclude, Abstract!Settled
<1> QED
  BY <1>5 DEF Abstract!Next

\* An abort, or a graph that is rejected, ends the run without a verdict.
LEMMA AbortStep ==
  ASSUME RInv, Abort \/ (Validate /\ pc' = "raised")
  PROVE  Abstract!Next
<1>1. /\ pc \notin {"returned", "raised"} /\ pc' = "raised"
      /\ UNCHANGED <<deps, limit, results, running>>
  BY DEF Abort, Validate, params, execVars
<1>2. Abstract!Abort
  BY <1>1 DEF Abstract!Abort
<1> QED
  BY <1>2 DEF Abstract!Next

-----------------------------------------------------------------------------
(* The theorem. *)

\* Initial states map to initial states.
LEMMA RefinementInit == Init => Abstract!Init
BY DEF Init, Abstract!Init

\* Every step maps to a step of WorkflowRun or to a stutter.
LEMMA RefinementStep == RInv /\ [Next]_vars => [Abstract!Next]_Abstract!vars
<1> SUFFICES ASSUME RInv, [Next]_vars PROVE [Abstract!Next]_Abstract!vars
  OBVIOUS
<1>1. Validate => pc' \in {"start", "raised"}
  BY DEF Validate
<1> QED
  BY <1>1, SilentSteps, StartStep, SettleStep, FailStep, SkipStep, SkipAllStep, ConcludeStep,
     AbortStep
  DEF Next, Executor

\* Whatever the tasks do and in whatever order they end, what execute() lets
\* its caller see is a run of WorkflowRun: steps start in order and within the
\* limit, settle once, failures reach what lies below, the verdict is true.
THEOREM ImplementsHolds == Spec => ImplementsWorkflowRun
<1>1. Init => Abstract!Init /\ NoSlotNoTask
  BY RefinementInit, InitSlots
<1>2. IInv /\ NoSlotNoTask /\ [Next]_vars => NoSlotNoTask'
  BY NextSlots
<1>3. IInv /\ Account /\ NoSlotNoTask /\ [Next]_vars => [Abstract!Next]_Abstract!vars
  BY RefinementStep DEF RInv
<1> QED
  BY <1>1, <1>2, <1>3, InductiveInvariant, AccountHolds, PTL
  DEF Spec, ImplementsWorkflowRun, Abstract!Spec

-----------------------------------------------------------------------------
(* A run is finite: what RunEnds needs besides fairness.                   *)

\* The steps whose tasks are in one of these states.
At(states) == {s \in Steps : task[s] \in states}

\* The moves the tasks of the steps may still make.
MovesLeft ==
  Cardinality(At({"none"})) + Cardinality(At({"none", "created"}))
  + Cardinality(At({"none", "created", "starting"}))
  + Cardinality(At({"none", "created", "starting", "body"}))

\* How far the executor is from recording the next result, or from its end.
Rank ==
  CASE pc = "validate" -> 8
    [] pc = "start" -> 7
    [] pc = "notify" -> 6
    [] pc = "handle" /\ batch = {} -> 5
    [] pc = "schedule" -> 4
    [] pc = "wait" -> 3
    [] pc = "handle" /\ batch # {} -> 2
    [] pc = "end" -> 1
    [] OTHER -> 0

Unrecorded == Steps \ completed

\* The work a run still has to do.
Work == MovesLeft + 6 * Cardinality(Unrecorded) + Rank

\* Every step of a run, an abort and what follows it included, is work done:
\* nothing is repeated, so a run takes at most 10 steps for each step of the
\* workflow, and 8.
WorkShrinks == [][Work' < Work]_vars
WorkBound   == Work \in 0..(10 * Cardinality(Steps) + 8)

\* asyncio.wait is never entered without tasks, which it would refuse, nor does
\* the executor wait for a step that nothing executes.
WaitsForTasks == pc = "wait" => tasks # {} /\ tasks \subseteq Active \cup At(Outcomes)

\* A ready step has no result: the test for one in the scheduling loop
\* (dag_executor.py 194) never finds any.
LEMMA ReadyUnrecorded ==
  ASSUME IInv, Account, pc = "schedule", NEW s \in ready
  PROVE  s \in Steps /\ results[s] = "none"
<1> SUFFICES ASSUME results[s] # "none" PROVE FALSE
  BY DEF IInv, TypeOK
<1>1. /\ s \in Steps /\ task[s] = "none" /\ deps[s] \subseteq Applied /\ cur = NoStep
      /\ deps \in [Steps -> SUBSET Names]
  BY DEF IInv, TypeOK, InDegreeSound, Control
<1>2. Cascaded(s)
  <2>1. reason[s] # "unmet dependencies"
    BY <1>1 DEF Account, ReadySound
  <2> QED BY <1>1, <2>1 DEF Account, ResultSound, Cascaded
<1>3. PICK f \in Steps : results[f] = "failed" /\ s \in Descendants(deps, f)
  BY <1>1, <1>2 DEF Account, CascadeSound
<1> DEFINE B == {t \in Steps : \E d \in deps[t] \cap Steps : Bad(d)}
<1>4. Dependents(deps, f) \subseteq B
  BY <1>3 DEF Dependents, Bad
<1>5. ClosedUnder(deps, B, {})
  <2> SUFFICES ASSUME NEW t \in B, NEW u \in Dependents(deps, t) PROVE u \in B
    BY DEF ClosedUnder
  <2>1. PICK d \in deps[t] \cap Steps : Bad(d)
    OBVIOUS
  <2>2. Cascaded(t)
    BY <1>1, <2>1, ExecutorAssumption DEF Account, CascadeSound
  <2> QED BY <2>2 DEF Dependents, Bad
<1>6. s \in B
  BY <1>3, <1>4, <1>5 DEF Descendants, ReachableFrom
<1>7. PICK d \in deps[s] \cap Steps : Bad(d)
  BY <1>6
<1>8. Passed(d) /\ d \in Steps
  BY <1>1, <1>7 DEF Applied
<1>9. task[d] # "none" /\ results[d] # "none" => ~Bad(d)
  BY <1>8 DEF Account, ResultSound, Bad, Passed, Cascaded, CascadeReasons
<1>10. task[d] = "none" => results[d] = "none"
  BY <1>8 DEF Account, ResultSound, Passed, CascadeReasons
<1> QED BY <1>7, <1>8, <1>9, <1>10 DEF Passed

\* The parts of the work are numbers.
WorkTypes == MovesLeft \in Nat /\ Cardinality(Unrecorded) \in Nat /\ Rank \in 0..8

LEMMA WorkParts == TypeOK => WorkBound /\ WorkTypes
<1> SUFFICES ASSUME TypeOK PROVE WorkBound /\ WorkTypes
  OBVIOUS
<1>1. Cardinality(Steps) \in Nat
      /\ \A T \in SUBSET Steps : Cardinality(T) \in Nat /\ Cardinality(T) <= Cardinality(Steps)
  BY StepsAssumption, FS_Subset, FS_CardinalityType
<1>2. \A states : At(states) \in SUBSET Steps
  BY DEF At
<1>3. MovesLeft \in Nat /\ MovesLeft <= 4 * Cardinality(Steps)
  BY <1>1, <1>2 DEF MovesLeft
<1>4. Cardinality(Unrecorded) \in Nat /\ Cardinality(Unrecorded) <= Cardinality(Steps)
  BY <1>1 DEF Unrecorded
<1>5. Rank \in 0..8
  BY DEF Rank
<1> QED BY <1>1, <1>3, <1>4, <1>5 DEF Work, WorkBound, WorkTypes

\* A task that moves out of some states, and not back into them.
LEMMA AtShrinks ==
  ASSUME TypeOK, NEW s \in Steps, NEW to, task' = [task EXCEPT ![s] = to],
         NEW states, to \in states => task[s] \in states
  PROVE  /\ Cardinality(At(states)) \in Nat /\ Cardinality(At(states)') \in Nat
         /\ Cardinality(At(states)') <= Cardinality(At(states))
         /\ task[s] \in states /\ to \notin states =>
              Cardinality(At(states)') < Cardinality(At(states))
<1>1. At(states) \in SUBSET Steps /\ At(states)' \in SUBSET At(states)
  BY DEF At, TypeOK
<1>2. task[s] \in states /\ to \notin states => At(states)' # At(states)
  BY DEF At, TypeOK
<1>3. IsFiniteSet(At(states))
  BY <1>1, StepsAssumption, FS_Subset
<1> QED BY <1>1, <1>2, <1>3, FS_Subset, FS_CardinalityType

\* A task moves forward only.
LEMMA MovesShrink ==
  ASSUME TypeOK, NEW s \in Steps, NEW to, task' = [task EXCEPT ![s] = to],
         \/ task[s] = "none" /\ to = "created"
         \/ task[s] = "created" /\ to = "starting"
         \/ task[s] = "starting" /\ to \in {"body"} \cup Outcomes
         \/ task[s] = "body" /\ to \in Outcomes
  PROVE  MovesLeft' < MovesLeft
<1> DEFINE C(states) == Cardinality(At(states))
<1>1. ASSUME NEW states \in {{"none"}, {"none", "created"}, {"none", "created", "starting"},
                             {"none", "created", "starting", "body"}}
      PROVE  to \in states => task[s] \in states
  BY DEF Outcomes
<1>2. ASSUME NEW states \in {{"none"}, {"none", "created"}, {"none", "created", "starting"},
                             {"none", "created", "starting", "body"}}
      PROVE  /\ C(states) \in Nat /\ Cardinality(At(states)') \in Nat
             /\ Cardinality(At(states)') <= C(states)
             /\ task[s] \in states /\ to \notin states => Cardinality(At(states)') < C(states)
  BY <1>1, AtShrinks
<1>3. \E states \in {{"none"}, {"none", "created"}, {"none", "created", "starting"},
                     {"none", "created", "starting", "body"}} :
        task[s] \in states /\ to \notin states
  BY DEF Outcomes
<1> QED BY <1>2, <1>3 DEF MovesLeft

\* Results are only added.
LEMMA UnrecordedShrinks ==
  ASSUME completed \subseteq completed'
  PROVE  /\ Cardinality(Unrecorded) \in Nat /\ Cardinality(Unrecorded') \in Nat
         /\ Cardinality(Unrecorded') <= Cardinality(Unrecorded)
         /\ \A s \in Steps : s \notin completed /\ s \in completed' =>
              Cardinality(Unrecorded') < Cardinality(Unrecorded)
<1>1. Unrecorded \in SUBSET Steps /\ Unrecorded' \in SUBSET Unrecorded
  BY DEF Unrecorded
<1>2. \A s \in Steps : s \notin completed /\ s \in completed' => Unrecorded' # Unrecorded
  BY DEF Unrecorded
<1>3. IsFiniteSet(Unrecorded)
  BY <1>1, StepsAssumption, FS_Subset
<1> QED BY <1>1, <1>2, <1>3, FS_Subset, FS_CardinalityType

\* Each step of the executor and of the tasks does some of the work.
LEMMA WorkStep ==
  ASSUME IInv, Account, [Next]_vars, vars' # vars
  PROVE  Work' < Work
<1> USE DEF params, execVars
<1>1. TypeOK /\ TypeOK'
  BY NextIInv DEF IInv
<1>2. /\ MovesLeft \in Nat /\ Cardinality(Unrecorded) \in Nat /\ Rank \in 0..8
      /\ MovesLeft' \in Nat /\ Cardinality(Unrecorded)' \in Nat /\ Rank' \in 0..8
  <2>1. WorkTypes /\ WorkTypes'
    BY <1>1, WorkParts, PTL
  <2> QED BY <2>1 DEF WorkTypes
<1>3. task' = task => MovesLeft' = MovesLeft
  BY DEF MovesLeft, At
<1>4. results' = results => Cardinality(Unrecorded)' = Cardinality(Unrecorded)
  BY DEF Unrecorded, completed
<1>5. CASE \E s \in Steps : StepTask(s)
  <2>1. PICK s \in Steps : StepTask(s)
    BY <1>5
  <2>2. \E to : /\ task' = [task EXCEPT ![s] = to]
                /\ \/ task[s] = "created" /\ to = "starting"
                   \/ task[s] = "starting" /\ to \in {"body"} \cup Outcomes
                   \/ task[s] = "body" /\ to \in Outcomes
    BY <2>1 DEF StepTask, TaskStart, TaskRun, TaskSkip, TaskSucceed, TaskFail, TaskRaise, Outcomes
  <2>3. MovesLeft' < MovesLeft
    BY <1>1, <2>2, MovesShrink
  <2>4. pc' = pc /\ batch' = batch /\ results' = results
    BY <2>1 DEF StepTask, TaskStart, TaskRun, TaskSkip, TaskSucceed, TaskFail, TaskRaise
  <2>5. Rank' = Rank
    BY <2>4 DEF Rank
  <2> QED BY <1>2, <1>4, <2>3, <2>4, <2>5 DEF Work
<1>6. CASE \/ Validate \/ Begin \/ AwaitTasks \/ CollectDone \/ ApplyUnlock
           \/ NextTurn \/ LoopExit \/ Return \/ Abort
  <2>1. task' = task /\ results' = results
    BY <1>6 DEF Validate, Begin, AwaitTasks, CollectDone, ApplyUnlock, NextTurn, LoopExit,
                Return, Abort
  <2>2. Rank' < Rank
    <3>1. CASE Validate \/ Begin \/ AwaitTasks \/ NextTurn \/ LoopExit \/ Return
      BY <3>1 DEF Validate, Begin, AwaitTasks, NextTurn, LoopExit, Return, Rank
    <3>2. CASE CollectDone \/ ApplyUnlock
      BY <3>2 DEF CollectDone, ApplyUnlock, Rank
    <3>3. CASE Abort
      BY <3>3 DEF Abort, Rank
    <3> QED BY <1>6, <3>1, <3>2, <3>3
  <2> QED BY <1>2, <1>3, <1>4, <2>1, <2>2 DEF Work
<1>7. CASE ApplyFailure \/ SkipUnreachable
  <2>1. /\ task' = task /\ batch' = batch
        /\ \E S : results' = [s \in Steps |-> IF s \in S THEN "skipped" ELSE results[s]]
        /\ <<pc, pc'>> \in {<<"notify", "handle">>, <<"schedule", "end">>}
    <3>1. CASE ApplyFailure
      <4>1. results' = [t \in Steps |-> IF t \in CascadeSet(cur) THEN "skipped" ELSE results[t]]
        BY <3>1 DEF ApplyFailure, MarkSkipped
      <4> QED BY <3>1, <4>1 DEF ApplyFailure
    <3>2. CASE SkipUnreachable
      <4>1. results' = [s \in Steps |-> IF s \in Steps \ completed THEN "skipped" ELSE results[s]]
        BY <3>2 DEF SkipUnreachable, MarkSkipped
      <4> QED BY <3>2, <4>1 DEF SkipUnreachable
    <3> QED BY <1>7, <3>1, <3>2
  <2>2. Rank' < Rank
    BY <2>1 DEF Rank
  <2>4. completed \subseteq completed'
    BY <2>1 DEF completed
  <2>3. Cardinality(Unrecorded)' <= Cardinality(Unrecorded)
    BY <2>4, UnrecordedShrinks
  <2> QED BY <1>2, <1>3, <2>1, <2>2, <2>3 DEF Work
<1>8. CASE \E s \in Steps : HandleException(s) \/ RecordResult(s)
  <2>1. PICK s \in Steps : HandleException(s) \/ RecordResult(s)
    BY <1>8
  <2>2. /\ task' = task /\ pc = "handle" /\ s \in batch /\ pc' \in {"handle", "notify"}
        /\ \/ \E S : results' = [t \in Steps |-> IF t = s THEN "failed"
                                                 ELSE IF t \in S THEN "skipped" ELSE results[t]]
           \/ results' = [results EXCEPT ![s] = task[s]]
    <3>1. CASE HandleException(s)
      BY <3>1 DEF HandleException
    <3>2. CASE RecordResult(s)
      BY <3>2 DEF RecordResult
    <3> QED BY <2>1, <3>1, <3>2
  <2>3. results[s] = "none" /\ task[s] \in Outcomes
    BY <2>2 DEF IInv, RunningSound
  <2>4. completed \subseteq completed' /\ s \notin completed /\ s \in completed'
    BY <1>1, <2>1, <2>2, <2>3 DEF completed, Outcomes, TypeOK
  <2>5. Cardinality(Unrecorded)' < Cardinality(Unrecorded)
    BY <2>4, UnrecordedShrinks
  <2>6. Rank = 2 /\ Rank' <= 6
    BY <2>2 DEF Rank
  <2> QED BY <1>2, <1>3, <2>2, <2>5, <2>6 DEF Work
<1>9. CASE \E s \in Steps : PopReady(s)
  <2>1. PICK s \in Steps : PopReady(s)
    BY <1>9
  <2>2. s \notin completed /\ task[s] = "none"
    BY <2>1, ReadyUnrecorded DEF PopReady, completed, IInv, InDegreeSound
  <2>3. /\ task' = [task EXCEPT ![s] = "created"]
        /\ pc' = pc /\ batch' = batch /\ results' = results
    BY <2>1, <2>2 DEF PopReady
  <2>4. MovesLeft' < MovesLeft
    BY <1>1, <2>2, <2>3, MovesShrink
  <2>5. Rank' = Rank
    BY <2>3 DEF Rank
  <2> QED BY <1>2, <1>4, <2>3, <2>4, <2>5 DEF Work
<1> QED
  BY <1>5, <1>6, <1>7, <1>8, <1>9 DEF Next, Executor, Terminated

\* A run takes finitely many steps, whatever fails and whenever it is aborted:
\* it ends unless its coroutines are not run.
THEOREM RunsAreFinite == Spec => []WorkBound /\ WorkShrinks
<1>1. IInv => WorkBound
  BY WorkParts DEF IInv
<1>2. IInv /\ Account /\ [Next]_vars => [Work' < Work]_vars
  BY WorkStep
<1> QED
  BY <1>1, <1>2, InductiveInvariant, AccountHolds, PTL DEF Spec, WorkShrinks

\* The executor never waits for nothing.
THEOREM WaitsForTasksHolds == Spec => []WaitsForTasks
<1> DEFINE W == pc = "wait" => running # {}
<1>1. Init => W
  BY DEF Init
<1>2. IInv /\ W /\ [Next]_vars => W'
  <2> SUFFICES ASSUME IInv, W, [Next]_vars, pc' = "wait" PROVE running' # {}
    OBVIOUS
  <2> USE DEF execVars
  <2>1. CASE AwaitTasks
    BY <2>1 DEF AwaitTasks, tasks
  <2>2. CASE pc = "wait" /\ running' = running
    BY <2>2
  <2>3. CASE SkipUnreachable \/ \E s \in Steps : HandleException(s) \/ RecordResult(s)
    BY <2>3 DEF SkipUnreachable, HandleException, RecordResult
  <2>4. CASE \/ Validate \/ Begin \/ CollectDone \/ ApplyFailure \/ ApplyUnlock
             \/ NextTurn \/ LoopExit \/ Return \/ Abort \/ \E s \in Steps : PopReady(s)
    BY <2>4 DEF Validate, Begin, CollectDone, ApplyFailure, ApplyUnlock, NextTurn, LoopExit,
                Return, Abort, PopReady
  <2>5. CASE \/ \E s \in Steps : StepTask(s)
             \/ UNCHANGED vars
    BY <2>2, <2>5 DEF StepTask, TaskStart, TaskRun, TaskSkip, TaskSucceed, TaskFail, TaskRaise, vars
  <2> QED BY <2>1, <2>3, <2>4, <2>5 DEF Next, Executor, Terminated
<1>3. IInv /\ W => WaitsForTasks
  BY DEF IInv, TypeOK, RunningSound, WaitsForTasks, tasks, Active, At, TaskStates, Outcomes
<1> QED
  BY <1>1, <1>2, <1>3, InductiveInvariant, PTL DEF Spec
=============================================================================
