------------------------- MODULE DAGExecutorProofs -------------------------
(***************************************************************************)
(* Proofs about DAGExecutor for every set of steps, graph, limit and       *)
(* initial context.                                                        *)
(***************************************************************************)
EXTENDS DAGExecutor, FiniteSetTheorems, TLAPS

-----------------------------------------------------------------------------
(* The graph walk of cascade_skip. *)

\* A cascade reaches registered steps only, and none that is finished.
LEMMA CascadeFresh ==
  ASSUME NEW g, NEW s, NEW finished
  PROVE  ReachableFrom(g, s, finished) \subseteq Steps \ finished
<1>1. /\ Dependents(g, s) \ finished \subseteq Steps \ finished
      /\ ClosedUnder(g, Steps \ finished, finished)
  BY DEF Dependents, ClosedUnder
<1>2. Steps \ finished \in SUBSET Steps
  OBVIOUS
<1>3. QED
  BY <1>1, <1>2 DEF ReachableFrom

\* A cascade reaches the unfinished dependents of s and of all it reaches.
LEMMA CascadeClosed ==
  ASSUME NEW g, NEW s, NEW finished,
         NEW t \in ReachableFrom(g, s, finished) \cup {s}
  PROVE  Dependents(g, t) \ finished \subseteq ReachableFrom(g, s, finished)
<1> SUFFICES ASSUME NEW u \in Dependents(g, t) \ finished,
                    NEW S \in SUBSET Steps,
                    Dependents(g, s) \ finished \subseteq S,
                    ClosedUnder(g, S, finished)
             PROVE  u \in S
  BY DEF ReachableFrom, Dependents
<1>1. CASE t = s
  BY <1>1
<1>2. CASE t # s
  <2>1. t \in S
    BY <1>2 DEF ReachableFrom
  <2> QED
    BY <2>1 DEF ClosedUnder
<1> QED
  BY <1>1, <1>2

\* Every step a cascade reaches depends on s or on another step it reaches.
LEMMA CascadeBelow ==
  ASSUME NEW g, NEW s, NEW finished, NEW t \in ReachableFrom(g, s, finished)
  PROVE  \E d \in ReachableFrom(g, s, finished) \cup {s} : d \in g[t]
<1> DEFINE W == ReachableFrom(g, s, finished)
           C == {u \in W : \E d \in W \cup {s} : d \in g[u]}
<1>1. W \subseteq Steps
  BY DEF ReachableFrom
<1>2. \A u \in W \cup {s} : Dependents(g, u) \ finished \subseteq C
  <2> SUFFICES ASSUME NEW u \in W \cup {s}, NEW v \in Dependents(g, u) \ finished
               PROVE  v \in C
    OBVIOUS
  <2>1. v \in W
    BY CascadeClosed
  <2>2. u \in g[v]
    BY DEF Dependents
  <2> QED
    BY <2>1, <2>2
<1>3. ClosedUnder(g, C, finished)
  BY <1>2 DEF ClosedUnder
<1>4. t \in C
  <2>1. C \in SUBSET Steps
    BY <1>1
  <2>2. Dependents(g, s) \ finished \subseteq C
    BY <1>2
  <2> HIDE DEF C
  <2> QED
    BY <2>1, <2>2, <1>3 DEF ReachableFrom
<1> QED
  BY <1>4

-----------------------------------------------------------------------------
(* The initial states. *)

\* The initial states satisfy the invariant.
LEMMA InitIInv == Init => IInv
<1> SUFFICES ASSUME Init PROVE IInv
  OBVIOUS
<1> USE StepsAssumption, ExecutorAssumption
<1>1. TypeOK
  BY DEF Init, TypeOK, PCs, StepStates, Statuses, Reasons, TaskStates
<1>2. BeforeLoop /\ Control /\ InDegreeSound /\ DependencyOrder
  BY DEF Init, BeforeLoop, Control, InDegreeSound, DependencyOrder
<1>3. RunningSound
  BY FS_EmptySet DEF Init, RunningSound, Active
<1> QED
  BY <1>1, <1>2, <1>3 DEF IInv
-----------------------------------------------------------------------------
(* Steps of the executor that only move its program counter. *)

\* validate() leaves the loop's state as it was.
LEMMA ValidateIInv == IInv /\ Validate => IInv'
<1> SUFFICES ASSUME IInv, Validate PROVE IInv'
  OBVIOUS
<1>1. TypeOK'
  BY DEF IInv, TypeOK, Validate, params, execVars, ctxVars, PCs
<1>2. BeforeLoop' /\ Control' /\ InDegreeSound'
  BY DEF IInv, BeforeLoop, Control, InDegreeSound, Validate, params, execVars
<1>3. RunningSound' /\ DependencyOrder'
  BY DEF IInv, RunningSound, DependencyOrder, Active, Passed, Validate, params,
         execVars
<1> QED
  BY <1>1, <1>2, <1>3 DEF IInv

\* Steps that leave everything but pc and overall alone once the loop runs.
LEMMA QuietIInv ==
  ASSUME IInv,
         UNCHANGED <<params, cur, batch, ready, running, inDegree, results,
                     reason, stepState, task, ctxVars, vetoed>>,
         pc \notin {"validate", "start", "notify"},
         pc' \notin {"validate", "start", "notify"},
         pc = "handle" => batch = {}, pc' # "handle",
         pc' \in PCs, overall' \in {"running", "success", "failed"},
         pc # "raised"
  PROVE  IInv'
<1>1. TypeOK'
  BY DEF IInv, TypeOK, params, ctxVars
<1>2. BeforeLoop' /\ Control'
  BY DEF IInv, BeforeLoop, Control, params
<1>3. RunningSound' /\ DependencyOrder'
  BY DEF IInv, RunningSound, DependencyOrder, Active, Passed, params
<1>4. InDegreeSound'
  BY DEF IInv, InDegreeSound, Applied, Passed, params
<1> QED
  BY <1>1, <1>2, <1>3, <1>4 DEF IInv

\* Waiting is entered only with tasks to wait for.
LEMMA AwaitTasksIInv == IInv /\ AwaitTasks => IInv'
<1> SUFFICES ASSUME IInv, AwaitTasks PROVE IInv'
  OBVIOUS
<1> QED
  BY QuietIInv DEF AwaitTasks, execVars, PCs, IInv, TypeOK

\* A new turn finds no task unhandled.
LEMMA NextTurnIInv == IInv /\ NextTurn => IInv'
<1> SUFFICES ASSUME IInv, NextTurn PROVE IInv'
  OBVIOUS
<1> QED
  BY QuietIInv DEF NextTurn, execVars, PCs, IInv, TypeOK

\* The loop ends when all steps are recorded.
LEMMA LoopExitIInv == IInv /\ LoopExit => IInv'
<1> SUFFICES ASSUME IInv, LoopExit PROVE IInv'
  OBVIOUS
<1> QED
  BY QuietIInv DEF LoopExit, FinalStatus, PCs, IInv, TypeOK

\* The verdict of a returned run is settled.
LEMMA ReturnIInv == IInv /\ Return => IInv'
<1> SUFFICES ASSUME IInv, Return PROVE IInv'
  OBVIOUS
<1> QED
  BY QuietIInv DEF Return, execVars, PCs, IInv, TypeOK

\* An aborted run leaves its tasks as they are.
LEMMA AbortIInv == IInv /\ Abort => IInv'
<1> SUFFICES ASSUME IInv, Abort PROVE IInv'
  OBVIOUS
<1>1. TypeOK'
  BY DEF IInv, TypeOK, Abort, params, execVars, ctxVars, PCs
<1>2. BeforeLoop' /\ Control' /\ InDegreeSound'
  BY DEF IInv, BeforeLoop, Control, InDegreeSound, Abort, params, execVars
<1>3. RunningSound' /\ DependencyOrder'
  BY DEF IInv, RunningSound, DependencyOrder, Active, Passed, Abort, params,
         execVars
<1> QED
  BY <1>1, <1>2, <1>3 DEF IInv

-----------------------------------------------------------------------------
(* Begin: the in-degrees and the first ready steps. *)

\* The initial in-degrees count the dependencies, none of them applied.
LEMMA BeginIInv == IInv /\ Begin => IInv'
<1> SUFFICES ASSUME IInv, Begin PROVE IInv'
  OBVIOUS
<1> USE StepsAssumption, ExecutorAssumption
<1>1. Valid(deps) /\ \A s \in Steps : deps[s] \subseteq Steps
  BY DEF IInv, Control, Begin, Valid, MissingDependency
<1>2. \A s \in Steps : IsFiniteSet(deps[s]) /\ Cardinality(deps[s]) \in Nat
  BY <1>1, FS_Subset, FS_CardinalityType
<1>3. TypeOK'
  BY <1>2 DEF IInv, TypeOK, Begin, params, ctxVars, PCs
<1>4. /\ \A s \in Steps : results'[s] = "none"
      /\ Applied' = {}
  BY DEF IInv, BeforeLoop, Begin, Applied, Passed
<1>5. InDegreeSound'
  <2>1. \A s \in Steps : deps'[s] \ Applied' = deps[s]
    BY <1>4 DEF Begin, params
  <2>2. \A s \in Steps : inDegree'[s] = Cardinality(deps[s])
    BY DEF Begin
  <2>3. \A s \in ready' : deps[s] = {}
    BY <1>2, FS_EmptySet DEF Begin
  <2> QED
    BY <2>1, <2>2, <2>3 DEF InDegreeSound, Begin, params, IInv, TypeOK, BeforeLoop
<1>6. BeforeLoop' /\ Control'
  BY <1>1 DEF IInv, BeforeLoop, Control, Begin, params
<1>7. RunningSound' /\ DependencyOrder'
  BY DEF IInv, RunningSound, DependencyOrder, Active, Passed, Begin, params
<1> QED
  BY <1>3, <1>5, <1>6, <1>7 DEF IInv

-----------------------------------------------------------------------------
(* The loop. *)

\* A spawned step had its dependencies applied, and there was a slot.
LEMMA PopReadyIInv ==
  ASSUME NEW s \in Steps, IInv, PopReady(s)
  PROVE  IInv'
<1> USE StepsAssumption, ExecutorAssumption
<1>1. CASE s \in completed
  <2>1. TypeOK'
    BY <1>1 DEF IInv, TypeOK, PopReady, params, ctxVars
  <2>2. BeforeLoop' /\ Control'
    BY <1>1 DEF IInv, BeforeLoop, Control, PopReady, params
  <2>3. InDegreeSound'
    BY <1>1 DEF IInv, InDegreeSound, Applied, Passed, PopReady, params
  <2>4. RunningSound' /\ DependencyOrder'
    BY <1>1 DEF IInv, RunningSound, DependencyOrder, Active, Passed, PopReady,
                params
  <2> QED
    BY <2>1, <2>2, <2>3, <2>4 DEF IInv
<1>2. CASE s \notin completed
  <2>1. /\ results[s] = "none"
        /\ running' = running \cup {s}
        /\ task' = [task EXCEPT ![s] = "created"]
        /\ stepState' = [stepState EXCEPT ![s] = "READY"]
        /\ ready' = ready \ {s}
        /\ s \in ready
        /\ Cardinality(running) < limit
        /\ pc = "schedule"
        /\ UNCHANGED <<params, pc, cur, batch, inDegree, results, reason,
                       overall, ctxVars, vetoed>>
    BY <1>2 DEF PopReady, completed, CanPop, IInv, TypeOK, params
  <2> HIDE DEF PopReady
  <2>2. TypeOK'
    BY <2>1 DEF IInv, TypeOK, params, ctxVars, StepStates, TaskStates
  <2>3. BeforeLoop' /\ Control'
    BY <2>1 DEF IInv, BeforeLoop, Control, TypeOK, params
  <2>4. InDegreeSound'
    BY <2>1 DEF IInv, TypeOK, InDegreeSound, Applied, Passed, params
  <2>5. Cardinality(running') <= limit'
    <3>1. IsFiniteSet(running) /\ Cardinality(running) \in Nat
      BY FS_Subset, FS_CardinalityType DEF IInv, TypeOK
    <3>2. Cardinality(running \cup {s}) =
            IF s \in running THEN Cardinality(running) ELSE Cardinality(running) + 1
      BY <3>1, FS_AddElement
    <3> QED
      BY <2>1, <3>1, <3>2 DEF IInv, TypeOK, params
  <2>6. RunningSound'
    <3>1. \A t \in Steps :
            t \in running' <=> task'[t] # "none" /\ results'[t] = "none"
      BY <2>1 DEF IInv, TypeOK, RunningSound
    <3>2. batch' \subseteq running' /\ Active' \subseteq running'
      BY <2>1 DEF IInv, TypeOK, RunningSound, Active
    <3>3. \A t \in batch' : task'[t] \in Outcomes
      BY <2>1 DEF IInv, TypeOK, RunningSound, InDegreeSound
    <3> QED
      BY <2>1, <2>5, <3>1, <3>2, <3>3 DEF RunningSound, IInv
  <2>7. DependencyOrder'
    <3>1. Valid(deps) /\ deps[s] \subseteq Applied
      BY <2>1 DEF IInv, Control, InDegreeSound
    <3>2. deps[s] \subseteq Steps /\ \A d \in deps[s] : Passed(d)
      BY <3>1 DEF Applied
    <3> QED
      BY <2>1, <3>2 DEF IInv, TypeOK, DependencyOrder, Passed, params
  <2> QED
    BY <2>2, <2>3, <2>4, <2>6, <2>7 DEF IInv
<1> QED
  BY <1>1, <1>2

\* A batch consists of tasks that ended.
LEMMA CollectDoneIInv == IInv /\ CollectDone => IInv'
<1> SUFFICES ASSUME IInv, CollectDone PROVE IInv'
  OBVIOUS
<1>1. TypeOK'
  BY DEF IInv, TypeOK, CollectDone, params, ctxVars, tasks, PCs
<1>2. BeforeLoop' /\ Control' /\ InDegreeSound'
  BY DEF IInv, BeforeLoop, Control, InDegreeSound, Applied, Passed, CollectDone,
         params
<1>3. RunningSound' /\ DependencyOrder'
  BY DEF IInv, RunningSound, DependencyOrder, Active, Passed, CollectDone, tasks,
         params
<1> QED
  BY <1>1, <1>2, <1>3 DEF IInv

\* What the deadlock branch skips was never spawned.
LEMMA SkipUnreachableIInv == IInv /\ SkipUnreachable => IInv'
<1> SUFFICES ASSUME IInv, SkipUnreachable PROVE IInv'
  OBVIOUS
<1> USE StepsAssumption
<1>1. TypeOK'
  BY DEF IInv, TypeOK, SkipUnreachable, MarkSkipped, FinalStatus, params,
         StepStates, Statuses, Reasons, PCs
<1>2. \A d \in Steps : Passed(d)' <=> Passed(d)
  BY DEF IInv, TypeOK, SkipUnreachable, MarkSkipped, Passed, completed
<1>3. BeforeLoop' /\ Control'
  BY DEF IInv, BeforeLoop, Control, SkipUnreachable, params
<1>4. InDegreeSound'
  BY <1>2 DEF IInv, TypeOK, InDegreeSound, Applied, SkipUnreachable, MarkSkipped, params,
              completed
<1>5. RunningSound'
  <2>1. running = {} /\ batch = {}
    BY DEF IInv, RunningSound, SkipUnreachable, tasks
  <2>2. \A s \in Steps : results'[s] # "none"
    BY DEF SkipUnreachable, MarkSkipped, completed
  <2> QED
    BY <2>1, <2>2 DEF IInv, RunningSound, Active, SkipUnreachable, params
<1>6. DependencyOrder'
  BY <1>2 DEF IInv, DependencyOrder, SkipUnreachable, params
<1> QED
  BY <1>1, <1>3, <1>4, <1>5, <1>6 DEF IInv

-----------------------------------------------------------------------------
(* Recording a result. *)

\* A recorded step leaves `running`, which does not grow.
LEMMA DiscardBound ==
  ASSUME IInv, NEW s \in running
  PROVE  Cardinality(running \ {s}) <= limit
<1>1. IsFiniteSet(running) /\ Cardinality(running) \in Nat
  BY StepsAssumption, FS_Subset, FS_CardinalityType DEF IInv, TypeOK
<1>2. Cardinality(running \ {s}) = Cardinality(running) - 1
  BY <1>1, FS_RemoveElement
<1> QED
  BY <1>1, <1>2 DEF IInv, TypeOK, RunningSound

\* What a cascade from a step that has not passed reaches was never spawned.
LEMMA CascadeUnspawned ==
  ASSUME IInv, pc \in {"handle", "notify"},
         NEW s \in Steps, ~Passed(s),
         NEW t \in CascadeSet(s)
  PROVE  task[t] = "none" /\ results[t] = "none" /\ t # s /\ t \in Steps
<1>1. /\ CascadeSet(s) \subseteq Steps
      /\ \A u \in CascadeSet(s) : results[u] = "none" /\ u # s
  BY CascadeFresh DEF CascadeSet, completed
<1>2. PICK d \in CascadeSet(s) \cup {s} : d \in deps[t]
  BY CascadeBelow DEF CascadeSet
<1>3. d \notin Applied
  BY <1>1, <1>2 DEF Applied, Passed
<1> QED
  BY <1>1, <1>2, <1>3 DEF IInv, InDegreeSound

\* An exception records its step and the cascade at once.
LEMMA HandleExceptionIInv ==
  ASSUME NEW s \in Steps, IInv, HandleException(s)
  PROVE  IInv'
<1> DEFINE S == CascadeSet(s)
<1>1. /\ pc = "handle" /\ s \in batch /\ task[s] = "raised"
      /\ batch' = batch \ {s}
      /\ running' = running \ {s}
      /\ results' = [t \in Steps |-> IF t = s THEN "failed"
                                     ELSE IF t \in S THEN "skipped" ELSE results[t]]
      /\ reason' = [t \in Steps |->
                      IF t \in S THEN "unhandled exception" ELSE reason[t]]
      /\ stepState' = [t \in Steps |-> IF t \in S THEN "SKIPPED" ELSE stepState[t]]
      /\ ctxCompleted' = ctxCompleted \cup S
      /\ overall' = "failed"
      /\ UNCHANGED <<params, pc, cur, ready, inDegree, task, ctxFailed, vetoed>>
  BY DEF HandleException, AddStep, Discard
<1>2. s \in running /\ results[s] = "none"
  BY <1>1 DEF IInv, RunningSound
<1>3. \A t \in S : t \in Steps /\ task[t] = "none" /\ results[t] = "none" /\ t # s
  BY <1>1, <1>2, CascadeUnspawned DEF Passed
<1> HIDE DEF S
<1>4. \A d \in Steps : Passed(d)' <=> Passed(d)
  BY <1>1, <1>2, <1>3 DEF Passed
<1>5. TypeOK'
  BY <1>1, <1>3, StepsAssumption
  DEF IInv, TypeOK, params, StepStates, Statuses, Reasons
<1>6. BeforeLoop' /\ Control'
  BY <1>1 DEF IInv, BeforeLoop, Control, params
<1>7. RunningSound'
  <2>1. \A t \in Steps :
          t \in running' <=> task'[t] # "none" /\ results'[t] = "none"
    BY <1>1, <1>2, <1>3 DEF IInv, TypeOK, RunningSound
  <2>2. Cardinality(running') <= limit'
    BY <1>1, <1>2, DiscardBound DEF params
  <2>3. /\ batch' \subseteq running'
        /\ pc' \notin {"handle", "notify", "raised"} => batch' = {}
        /\ \A t \in batch' : task'[t] \in Outcomes
    BY <1>1 DEF IInv, RunningSound
  <2>4. Active' \subseteq running'
    BY <1>1 DEF IInv, RunningSound, Active
  <2> QED
    BY <2>1, <2>2, <2>3, <2>4 DEF RunningSound
<1>8. InDegreeSound'
  BY <1>1, <1>3, <1>4 DEF IInv, TypeOK, InDegreeSound, Applied, params
<1>9. DependencyOrder'
  BY <1>1, <1>4 DEF IInv, DependencyOrder, params
<1> QED
  BY <1>5, <1>6, <1>7, <1>8, <1>9 DEF IInv

\* A recorded result is announced before it is acted on.
LEMMA RecordResultIInv ==
  ASSUME NEW s \in Steps, IInv, RecordResult(s)
  PROVE  IInv'
<1>1. /\ pc = "handle" /\ s \in batch /\ cur = NoStep
      /\ s \in running /\ results[s] = "none"
      /\ task[s] \in {"success", "failed", "skipped"}
  BY DEF RecordResult, IInv, Control, RunningSound, Outcomes
<1>2. /\ batch' = batch \ {s}
      /\ running' = running \ {s}
      /\ results' = [results EXCEPT ![s] = task[s]]
      /\ reason' = [reason EXCEPT
                      ![s] = IF task[s] = "skipped" THEN "conditions not met" ELSE @]
      /\ overall' = AddStep(task[s])
      /\ cur' = s
      /\ pc' = "notify"
      /\ UNCHANGED <<params, ready, inDegree, stepState, task, ctxVars, vetoed>>
  BY DEF RecordResult, Discard
<1>3. Applied' = Applied
  <2>1. s \notin Applied /\ s \notin Applied'
    BY <1>1, <1>2 DEF Applied, Passed
  <2>2. ASSUME NEW d \in Steps \ {s} PROVE d \in Applied' <=> d \in Applied
    BY <1>1, <1>2, ExecutorAssumption DEF Applied, Passed, IInv, TypeOK
  <2> QED
    BY <2>1, <2>2 DEF Applied
<1>4. TypeOK'
  BY <1>1, <1>2 DEF IInv, TypeOK, params, ctxVars, Statuses, Reasons, PCs, AddStep
<1>5. BeforeLoop' /\ Control'
  BY <1>1, <1>2 DEF IInv, TypeOK, BeforeLoop, Control, params
<1>6. RunningSound'
  <2>1. \A t \in Steps :
          t \in running' <=> task'[t] # "none" /\ results'[t] = "none"
    BY <1>1, <1>2 DEF IInv, TypeOK, RunningSound
  <2>2. Cardinality(running') <= limit'
    BY <1>1, <1>2, DiscardBound DEF params
  <2>3. /\ batch' \subseteq running'
        /\ \A t \in batch' : task'[t] \in Outcomes
    BY <1>2 DEF IInv, RunningSound
  <2>4. Active' \subseteq running'
    BY <1>1, <1>2 DEF IInv, RunningSound, Active
  <2> QED
    BY <1>2, <2>1, <2>2, <2>3, <2>4 DEF RunningSound
<1>7. InDegreeSound'
  BY <1>1, <1>2, <1>3 DEF IInv, TypeOK, InDegreeSound, params
<1>8. DependencyOrder'
  <2>1. \A d \in Steps : Passed(d) => Passed(d)'
    BY <1>1, <1>2 DEF IInv, TypeOK, Passed
  <2> QED
    BY <1>2, <2>1 DEF IInv, DependencyOrder, params
<1> QED
  BY <1>4, <1>5, <1>6, <1>7, <1>8 DEF IInv

-----------------------------------------------------------------------------
(* Acting on the recorded outcome. *)

\* A failure skips what lies below it and unlocks nothing.
LEMMA ApplyFailureIInv == IInv /\ ApplyFailure => IInv'
<1> SUFFICES ASSUME IInv, ApplyFailure PROVE IInv'
  OBVIOUS
<1> DEFINE S == CascadeSet(cur)
<1>1. /\ pc = "notify" /\ task[cur] = "failed"
      /\ MarkSkipped(S, "dependency failed")
      /\ stepState' = [s \in Steps |-> IF s = cur THEN "FAILED"
                                       ELSE IF s \in S THEN "SKIPPED"
                                       ELSE stepState[s]]
      /\ cur' = NoStep
      /\ pc' = "handle"
      /\ UNCHANGED <<params, batch, ready, running, inDegree, overall, task,
                     ctxFailed, vetoed>>
  BY DEF ApplyFailure
<1>2. cur \in Steps /\ results[cur] = "failed"
  BY <1>1 DEF IInv, Control
<1>3. \A t \in S : t \in Steps /\ task[t] = "none" /\ results[t] = "none" /\ t # cur
  BY <1>1, <1>2, CascadeUnspawned DEF Passed
<1> HIDE DEF S
<1>4. \A d \in Steps : Passed(d)' <=> Passed(d)
  BY <1>1, <1>3 DEF Passed, MarkSkipped
<1>5. Applied' = Applied
  BY <1>1, <1>2, <1>4, ExecutorAssumption DEF Applied, Passed
<1>6. TypeOK'
  BY <1>1, <1>3, StepsAssumption
  DEF IInv, TypeOK, MarkSkipped, params, StepStates, Statuses, Reasons, PCs
<1>7. BeforeLoop' /\ Control'
  BY <1>1 DEF IInv, Control, BeforeLoop, params
<1>8. RunningSound'
  BY <1>1, <1>3 DEF IInv, TypeOK, RunningSound, Active, MarkSkipped, params
<1>9. InDegreeSound'
  BY <1>1, <1>3, <1>5 DEF IInv, TypeOK, InDegreeSound, MarkSkipped, params
<1>10. DependencyOrder'
  BY <1>1, <1>4 DEF IInv, DependencyOrder, params
<1> QED
  BY <1>6, <1>7, <1>8, <1>9, <1>10 DEF IInv

\* An unlock lowers the count of exactly the dependents.
LEMMA ApplyUnlockIInv == IInv /\ ApplyUnlock => IInv'
<1> SUFFICES ASSUME IInv, ApplyUnlock PROVE IInv'
  OBVIOUS
<1>1. /\ pc = "notify" /\ cur \in Steps
      /\ Passed(cur) /\ cur \notin Applied
      /\ results[cur] # "none"
  BY DEF IInv, ApplyUnlock, Control, Passed, Applied
<1>2. UNCHANGED <<params, batch, running, results, reason, overall, task,
                  ctxFailed, vetoed>>
  BY DEF ApplyUnlock
<1>3. Applied' = Applied \cup {cur}
  BY <1>1, <1>2, ExecutorAssumption DEF ApplyUnlock, Applied, Passed
<1>4. Valid(deps) /\ \A s \in Steps : deps[s] \subseteq Steps
  BY <1>1 DEF IInv, Control, Valid, MissingDependency
<1>5. \A s \in Unlocked(cur) : s \in Steps /\ results[s] = "none" /\ cur \in deps[s]
  BY DEF Unlocked, Dependents, completed
\* The in-degree of an unlocked step counted cur.
<1>6. ASSUME NEW s \in Unlocked(cur)
      PROVE  /\ Cardinality(deps[s] \ Applied) \in Nat
             /\ inDegree[s] = Cardinality(deps[s] \ Applied)
             /\ deps[s] \ Applied' = (deps[s] \ Applied) \ {cur}
             /\ Cardinality(deps[s] \ Applied') = inDegree[s] - 1
             /\ inDegree[s] - 1 \in Nat
  <2>1. IsFiniteSet(deps[s] \ Applied) /\ cur \in deps[s] \ Applied
    BY <1>1, <1>4, <1>5, StepsAssumption, FS_Subset
  <2>2. inDegree[s] = Cardinality(deps[s] \ Applied)
    BY <1>1, <1>5 DEF IInv, InDegreeSound
  <2>3. deps[s] \ Applied' = (deps[s] \ Applied) \ {cur}
    BY <1>3
  <2>4. /\ Cardinality((deps[s] \ Applied) \ {cur}) = Cardinality(deps[s] \ Applied) - 1
        /\ IsFiniteSet((deps[s] \ Applied) \ {cur})
    BY <2>1, FS_RemoveElement
  <2>5. /\ Cardinality(deps[s] \ Applied) \in Nat
        /\ Cardinality((deps[s] \ Applied) \ {cur}) \in Nat
    BY <2>1, <2>4, FS_CardinalityType
  <2> QED
    BY <2>2, <2>3, <2>4, <2>5
<1>7. TypeOK'
  <2>1. inDegree' \in [Steps -> Nat]
    BY <1>6 DEF ApplyUnlock, IInv, TypeOK
  <2>2. ready' \in SUBSET Steps
    BY <1>5 DEF ApplyUnlock, NewlyReady, IInv, TypeOK
  <2>3. ctxCompleted' \in SUBSET Names
    BY <1>1, StepsAssumption DEF ApplyUnlock, CtxDone, IInv, TypeOK
  <2>4. stepState' \in [Steps -> StepStates]
    BY DEF ApplyUnlock, IInv, TypeOK, StepStates
  <2> QED
    BY <1>2, <2>1, <2>2, <2>3, <2>4 DEF ApplyUnlock, IInv, TypeOK, params, PCs
<1>8. BeforeLoop' /\ Control'
  BY <1>1, <1>2 DEF ApplyUnlock, IInv, BeforeLoop, Control, params
<1>9. RunningSound'
  BY <1>1, <1>2 DEF ApplyUnlock, IInv, RunningSound, Active, params
<1>10. InDegreeSound'
  <2>1. ASSUME NEW s \in Steps, results'[s] = "none"
        PROVE  inDegree'[s] = Cardinality(deps'[s] \ Applied')
    <3>1. CASE s \in Unlocked(cur)
      BY <1>2, <1>6, <3>1 DEF ApplyUnlock, params
    <3>2. CASE s \notin Unlocked(cur)
      <4>1. cur \notin deps[s]
        BY <1>2, <2>1, <3>2 DEF Unlocked, Dependents, completed
      <4>2. deps[s] \ Applied' = deps[s] \ Applied
        BY <1>3, <4>1
      <4>3. inDegree[s] = Cardinality(deps[s] \ Applied)
        BY <1>1, <1>2, <2>1 DEF IInv, InDegreeSound
      <4> QED
        BY <1>2, <3>2, <4>2, <4>3 DEF ApplyUnlock, params
    <3> QED
      BY <3>1, <3>2
  <2>2. ASSUME NEW s \in ready'
        PROVE  deps'[s] \subseteq Applied' /\ task'[s] = "none"
    <3>1. CASE s \in ready
      BY <1>1, <1>2, <1>3, <3>1 DEF IInv, InDegreeSound, params
    <3>2. CASE s \in NewlyReady(cur)
      <4>1. s \in Unlocked(cur) /\ inDegree[s] = 1
        BY <3>2 DEF NewlyReady
      <4>2. Cardinality(deps[s] \ Applied') = 0
        <5>1. Cardinality(deps[s] \ Applied') = inDegree[s] - 1
          BY <1>6, <4>1
        <5> QED
          BY <4>1, <5>1
      <4>3. deps[s] \ Applied' = {}
        <5>1. IsFiniteSet(deps[s] \ Applied')
          BY <1>4, <1>5, <4>1, StepsAssumption, FS_Subset
        <5> QED
          BY <4>2, <5>1, FS_EmptySet
      <4>4. task[s] = "none"
        <5>1. s \in Steps /\ ~(deps[s] \subseteq Applied)
          BY <1>1, <1>5, <4>1
        <5> QED
          BY <1>1, <5>1 DEF IInv, InDegreeSound
      <4> QED
        BY <1>2, <4>3, <4>4 DEF params
    <3> QED
      BY <3>1, <3>2 DEF ApplyUnlock
  <2>3. \A s \in Steps : task'[s] # "none" => deps'[s] \subseteq Applied'
    BY <1>1, <1>2, <1>3 DEF IInv, InDegreeSound, params
  <2> QED
    BY <2>1, <2>2, <2>3 DEF InDegreeSound
<1>11. DependencyOrder'
  BY <1>2 DEF IInv, DependencyOrder, Passed, params
<1> QED
  BY <1>7, <1>8, <1>9, <1>10, <1>11 DEF IInv

-----------------------------------------------------------------------------
(* The tasks. *)

\* A task that moves between states of a spawned task disturbs nothing.
LEMMA StepTaskIInv ==
  ASSUME NEW s \in Steps, IInv, StepTask(s)
  PROVE  IInv'
<1>1. /\ task[s] \in {"created", "starting", "body"}
      /\ \E st \in {"starting", "body"} \cup Outcomes : task' = [task EXCEPT ![s] = st]
      /\ UNCHANGED <<params, pc, execVars>>
  BY DEF StepTask, TaskStart, TaskRun, TaskSkip, TaskSucceed, TaskFail, TaskRaise,
         Outcomes
<1>2. /\ stepState' \in [Steps -> StepStates]
      /\ ctxCompleted' \in SUBSET Names
      /\ ctxFailed' \in SUBSET Names
      /\ vetoed' \in SUBSET Steps
  BY StepsAssumption
  DEF StepTask, TaskStart, TaskRun, TaskSkip, TaskSucceed, TaskFail, TaskRaise,
      IInv, TypeOK, StepStates, ctxVars
<1>3. s \in running /\ s \notin batch
  BY <1>1 DEF IInv, RunningSound, Active, Outcomes
<1> HIDE DEF StepTask
<1>4. TypeOK'
  BY <1>1, <1>2 DEF IInv, TypeOK, params, execVars, TaskStates, Outcomes
<1>5. \A t \in Steps : task'[t] # "none" <=> task[t] # "none"
  BY <1>1 DEF IInv, TypeOK, Outcomes
<1>6. BeforeLoop' /\ Control'
  <2>1. pc = "notify" => cur # s
    BY <1>1, <1>3 DEF IInv, Control, RunningSound
  <2> QED
    BY <1>1, <1>5, <2>1 DEF IInv, TypeOK, BeforeLoop, Control, params, execVars
<1>7. RunningSound'
  <2>1. Active' \subseteq running'
    BY <1>1, <1>3 DEF IInv, TypeOK, RunningSound, Active, execVars
  <2>2. \A t \in batch' : task'[t] \in Outcomes
    BY <1>1, <1>3 DEF IInv, TypeOK, RunningSound, execVars
  <2> QED
    BY <1>1, <1>5, <2>1, <2>2 DEF IInv, RunningSound, params, execVars
<1>8. InDegreeSound'
  <2>1. Applied' = Applied
    BY <1>1 DEF Applied, Passed, execVars
  <2>2. \A t \in ready : t \in Steps
    BY DEF IInv, TypeOK
  <2> QED
    BY <1>1, <1>5, <2>1, <2>2 DEF IInv, InDegreeSound, params, execVars
<1>9. DependencyOrder'
  BY <1>1, <1>5 DEF IInv, DependencyOrder, Passed, params, execVars
<1> QED
  BY <1>4, <1>6, <1>7, <1>8, <1>9 DEF IInv

-----------------------------------------------------------------------------
(* The theorems. *)

\* Every step keeps the invariant.
LEMMA NextIInv == IInv /\ [Next]_vars => IInv'
<1> SUFFICES ASSUME IInv, [Next]_vars PROVE IInv'
  OBVIOUS
<1>1. CASE Executor
  BY <1>1, ValidateIInv, BeginIInv, AwaitTasksIInv, CollectDoneIInv,
     SkipUnreachableIInv, ApplyFailureIInv, ApplyUnlockIInv, NextTurnIInv,
     LoopExitIInv, ReturnIInv, PopReadyIInv, HandleExceptionIInv, RecordResultIInv
  DEF Executor
<1>2. CASE Abort
  BY <1>2, AbortIInv
<1>3. CASE \E s \in Steps : StepTask(s)
  BY <1>3, StepTaskIInv
<1>4. CASE UNCHANGED vars
  <2>1. TypeOK'
    BY <1>4 DEF IInv, TypeOK, vars, params, execVars, ctxVars
  <2>2. BeforeLoop' /\ Control' /\ DependencyOrder'
    BY <1>4 DEF IInv, BeforeLoop, Control, DependencyOrder, Passed, vars, params,
                execVars
  <2>3. RunningSound'
    BY <1>4 DEF IInv, RunningSound, Active, vars, params, execVars
  <2>4. InDegreeSound'
    BY <1>4 DEF IInv, InDegreeSound, Applied, Passed, vars, params, execVars
  <2> QED
    BY <2>1, <2>2, <2>3, <2>4 DEF IInv
<1> QED
  BY <1>1, <1>2, <1>3, <1>4 DEF Next, Terminated

\* The executor and its tasks never leave the inductive invariant.
THEOREM InductiveInvariant == Spec => []IInv
BY InitIInv, NextIInv, PTL DEF Spec

\* The variables keep their types; in particular no in-degree, decremented once
\* per unlocked dependent (dag_executor.py:288), ever drops below zero.
THEOREM TypeCorrect == Spec => []TypeOK
<1>1. IInv => TypeOK
  BY DEF IInv
<1> QED
  BY <1>1, InductiveInvariant, PTL

\* For every graph, every limit and every schedule a step is spawned only after
\* each of its dependencies was recorded as passed.
THEOREM DependencyOrderHolds == Spec => []DependencyOrder
<1>1. IInv => DependencyOrder
  BY DEF IInv
<1> QED
  BY <1>1, InductiveInvariant, PTL

\* For every graph, every limit and every schedule at most max_concurrency tasks
\* are in progress, also after the executor has been aborted.
THEOREM ConcurrencyBoundHolds == Spec => []ConcurrencyBound
<1>1. IInv => ConcurrencyBound
  <2> SUFFICES ASSUME IInv PROVE Cardinality(Active) <= limit
    BY DEF ConcurrencyBound
  <2>1. IsFiniteSet(running) /\ Active \subseteq running
    BY StepsAssumption, FS_Subset DEF IInv, TypeOK, RunningSound
  <2>2. /\ Cardinality(Active) <= Cardinality(running)
        /\ Cardinality(Active) \in Nat /\ Cardinality(running) \in Nat
    BY <2>1, FS_Subset, FS_CardinalityType
  <2> QED
    BY <2>2 DEF IInv, TypeOK, RunningSound
<1> QED
  BY <1>1, InductiveInvariant, PTL
=============================================================================
