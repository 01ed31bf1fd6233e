----------------------- MODULE CheckpointResumeProofs -----------------------
(***************************************************************************)
(* Checkpoints and resumed runs, for any number of runs, crashes and       *)
(* writes: what is proved of one execution of the DAG executor holds of    *)
(* every run of a thread, and checkpoints tell the truth.                  *)
(***************************************************************************)
EXTENDS CheckpointResume, DAGVerdictProofs

\* Rows and restored steps succeeded once, and the history has every success.
HistorySound ==
  /\ CheckpointsTruthful
  /\ \A s \in Steps : task[s] = "success" => s \in succeeded
  /\ succeeded \subseteq Steps

\* A run of the thread, first or resumed, is one of the executor.
LEMMA RunStepIsNext ==
  ASSUME [NextThread]_allVars
  PROVE  \/ [Next]_vars
         \/ Resume
BY DEF NextThread, allVars, RunStep, WriteDone, WriteFails, ResumeAfterCrash, ResumeInProcess

\* A first run has no history.
LEMMA InitHistory == InitThread => HistorySound
BY DEF InitThread, Init, HistorySound, CheckpointsTruthful

\* Rows come from announced successes, restored steps from rows.
LEMMA NextHistory ==
  ASSUME IInv, HistorySound, [NextThread]_allVars
  PROVE  HistorySound'
<1> USE DEF HistorySound, CheckpointsTruthful
<1>1. CASE UNCHANGED allVars
  BY <1>1 DEF allVars, vars, threadVars
<1>2. CASE RunStep
  <2>1. writing' \subseteq succeeded'
    <3>1. CASE pc = "notify" /\ pc' = "handle"
      <4>1. cur \in Steps
        BY <3>1 DEF IInv, Control
      <4> QED
        BY <1>2, <3>1, <4>1 DEF RunStep, Launched
    <3>2. CASE ~(pc = "notify" /\ pc' = "handle")
      BY <1>2, <3>2 DEF RunStep
    <3> QED
      BY <3>1, <3>2
  <2> QED
    BY <1>2, <2>1 DEF RunStep
<1>3. ASSUME NEW s \in Steps, WriteDone(s) \/ WriteFails(s)
      PROVE  HistorySound'
  BY <1>3 DEF WriteDone, WriteFails, vars
<1>4. CASE ResumeAfterCrash \/ ResumeInProcess
  <2>1. restored' = store /\ UNCHANGED <<store, succeeded>> /\ task' = [s \in Steps |-> "none"]
    BY <1>4 DEF ResumeAfterCrash, ResumeInProcess, Resume, Restored, NewRun
  <2>2. writing' \subseteq writing
    BY <1>4 DEF ResumeAfterCrash, ResumeInProcess
  <2> QED
    BY <2>1, <2>2
<1> QED
  BY <1>1, <1>2, <1>3, <1>4 DEF NextThread

\* resume() begins a run as execute() does, with what the store holds.
LEMMA ResumeStartsAfresh ==
  ASSUME IInv, HistorySound, Resume
  PROVE  IInv' /\ Account' /\ ContextSound'
<1>1. /\ pc' = "validate" /\ cur' = NoStep /\ batch' = {} /\ ready' = {} /\ running' = {}
      /\ inDegree' = [s \in Steps |-> 0] /\ stepState' = [s \in Steps |-> "PENDING"]
      /\ results' = [s \in Steps |-> "none"] /\ reason' = [s \in Steps |-> "none"]
      /\ overall' = "running" /\ task' = [s \in Steps |-> "none"] /\ vetoed' = {}
      /\ ctxCompleted' = store /\ ctxFailed' = {} /\ deps' = deps /\ limit' = limit
  BY DEF Resume, Restored, NewRun, params
<1>2. store \subseteq Names
  BY StepsAssumption DEF HistorySound, CheckpointsTruthful
<1>3. TypeOK'
  BY <1>1, <1>2 DEF IInv, TypeOK, PCs, StepStates, Statuses, Reasons, TaskStates
<1>4. BeforeLoop' /\ Control' /\ InDegreeSound' /\ DependencyOrder'
  BY <1>1 DEF BeforeLoop, Control, InDegreeSound, DependencyOrder
<1>5. RunningSound'
  <2>1. Cardinality(running') <= limit'
    BY <1>1, FS_EmptySet DEF IInv, TypeOK
  <2> QED
    BY <1>1, <2>1 DEF RunningSound, Active
<1>6. Account'
  BY <1>1 DEF Account, ResultSound, OverallSound, CascadeSound, ReadySound, StateSound,
              Bad, Cascaded, CascadeReasons, Outcomes
<1>7. ContextSound'
  BY <1>1 DEF ContextSound, Applied, Passed
<1> QED
  BY <1>3, <1>4, <1>5, <1>6, <1>7 DEF IInv

\* Every success the executor has recorded is a row, is being written, or is
\* lost, but for the one whose announcement has not returned: an abort there is
\* the only way, besides a crash and sqlite3, in which a run loses a row.
SuccessesLaunched ==
  \A s \in Steps :
    results[s] = "success" /\ s # cur => s \in store \cup writing \cup lost

\* A success is recorded as the step under announcement ...
LEMMA SuccessAnnounced ==
  ASSUME IInv, Next, NEW s \in Steps, results'[s] = "success", results[s] # "success"
  PROVE  cur' = s
<1>1. CASE \E t \in Steps : RecordResult(t)
  BY <1>1 DEF RecordResult, IInv, TypeOK
<1>2. CASE \E t \in Steps : HandleException(t)
  BY <1>2 DEF HandleException
<1>3. CASE SkipUnreachable \/ ApplyFailure
  BY <1>3 DEF SkipUnreachable, ApplyFailure, MarkSkipped
<1>4. CASE ~(\/ SkipUnreachable \/ ApplyFailure
             \/ \E t \in Steps : RecordResult(t) \/ HandleException(t))
  <2>1. results' = results
    BY <1>4
    DEF Next, Executor, Abort, Terminated, StepTask, vars, execVars, Validate, Begin, PopReady,
        AwaitTasks, CollectDone, ApplyUnlock, NextTurn, LoopExit, Return,
        TaskStart, TaskRun, TaskSkip, TaskSucceed, TaskFail, TaskRaise
  <2> QED BY <2>1
<1> QED BY <1>1, <1>2, <1>3, <1>4

\* ... and leaves it when the announcement returns.
LEMMA AnnouncementReturns ==
  ASSUME IInv, Next, cur \in Steps, cur' # cur
  PROVE  pc = "notify" /\ pc' = "handle" /\ cur' = NoStep
<1>1. CASE ApplyFailure \/ ApplyUnlock
  BY <1>1 DEF ApplyFailure, ApplyUnlock
<1>2. CASE \E t \in Steps : RecordResult(t)
  BY <1>2, ExecutorAssumption DEF RecordResult, IInv, Control
<1>3. CASE ~(ApplyFailure \/ ApplyUnlock \/ \E t \in Steps : RecordResult(t))
  <2>1. cur' = cur
    BY <1>3
    DEF Next, Executor, Abort, Terminated, StepTask, vars, execVars, Validate, Begin, PopReady,
        AwaitTasks, CollectDone, SkipUnreachable, HandleException, NextTurn, LoopExit, Return,
        TaskStart, TaskRun, TaskSkip, TaskSucceed, TaskFail, TaskRaise
  <2> QED BY <2>1
<1> QED BY <1>1, <1>2, <1>3

LEMMA NextLaunched ==
  ASSUME IInv, Account, SuccessesLaunched, [NextThread]_allVars
  PROVE  SuccessesLaunched'
<1> SUFFICES ASSUME NEW s \in Steps, results'[s] = "success", s # cur'
             PROVE  s \in store' \cup writing' \cup lost'
  BY DEF SuccessesLaunched
<1>1. CASE RunStep
  <2>1. store' = store /\ lost' = lost /\ writing \subseteq writing' /\ Next
    BY <1>1 DEF RunStep
  <2>2. results[s] = "success"
    BY <2>1, SuccessAnnounced
  <2>3. CASE s # cur
    BY <2>1, <2>2, <2>3 DEF SuccessesLaunched
  <2>4. CASE s = cur
    <3>1. pc = "notify" /\ pc' = "handle"
      BY <2>1, <2>4, AnnouncementReturns
    <3>2. task[s] # "none" /\ task[s] = "success"
      BY <2>2, <2>4, <3>1 DEF Account, ResultSound, IInv, Control
    <3> QED BY <1>1, <2>4, <3>1, <3>2 DEF RunStep, Launched
  <2> QED BY <2>3, <2>4
<1>2. ASSUME NEW t \in Steps, WriteDone(t) \/ WriteFails(t)
      PROVE  s \in store' \cup writing' \cup lost'
  BY <1>2 DEF WriteDone, WriteFails, vars, execVars, SuccessesLaunched
<1>3. CASE Resume
  BY <1>3 DEF Resume, NewRun
<1>4. CASE UNCHANGED allVars
  BY <1>4 DEF allVars, vars, execVars, threadVars, SuccessesLaunched
<1> QED
  BY <1>1, <1>2, <1>3, <1>4 DEF NextThread, ResumeAfterCrash, ResumeInProcess

-----------------------------------------------------------------------------
(* The theorems. *)

\* Every run of a thread keeps the executor's invariants: its order of steps,
\* its limit and its account of results survive crashes and resumption.
THEOREM EveryRunHolds == SpecThread => [](IInv /\ Account /\ HistorySound)
<1>1. InitThread => IInv /\ Account /\ HistorySound
  BY InitIInv, InitAccount, InitHistory DEF InitThread
<1>2. IInv /\ Account /\ HistorySound /\ [NextThread]_allVars
        => IInv' /\ Account' /\ HistorySound'
  BY RunStepIsNext, NextIInv, NextAccount, NextHistory, ResumeStartsAfresh
<1> QED
  BY <1>1, <1>2, PTL DEF SpecThread

\* Whatever dies, is written late or fails to be written, a checkpoint is
\* never invented.
THEOREM TruthfulHolds == SpecThread => []CheckpointsTruthful
<1>1. HistorySound => CheckpointsTruthful
  BY DEF HistorySound
<1> QED
  BY <1>1, EveryRunHolds, PTL

\* Once a run has returned, each of its successes is a row, is being written,
\* or is lost: what SuccessesPersist needs besides writes that end.
THEOREM LaunchedHolds ==
  SpecThread => [](/\ SuccessesLaunched
                   /\ pc = "returned" => \A s \in Steps : results[s] = "success" =>
                                            s \in store \cup writing \cup lost)
<1>1. InitThread => SuccessesLaunched
  BY DEF InitThread, Init, SuccessesLaunched
<1>2. IInv /\ Account /\ SuccessesLaunched /\ [NextThread]_allVars => SuccessesLaunched'
  BY NextLaunched
<1>3. IInv /\ SuccessesLaunched /\ pc = "returned" =>
        \A s \in Steps : results[s] = "success" => s \in store \cup writing \cup lost
  BY ExecutorAssumption DEF IInv, Control, SuccessesLaunched
<1> QED
  BY <1>1, <1>2, <1>3, EveryRunHolds, PTL DEF SpecThread

\* Of every run, resumed ones included: a step starts only after its
\* dependencies passed, and a step is turned down only by its own conditions.
THEOREM ResumedRunsHold ==
  ASSUME NoneFailedBefore
  PROVE  SpecThread => [](DependencyOrder /\ NoSpuriousSkip)
<1>1. InitThread => ContextSound
  BY InitContext DEF InitThread
<1>2. IInv /\ Account /\ HistorySound /\ ContextSound /\ [NextThread]_allVars => ContextSound'
  BY RunStepIsNext, NextContext, ResumeStartsAfresh
<1>3. IInv /\ Account /\ ContextSound => DependencyOrder /\ NoSpuriousSkip
  BY DEF IInv, Account, ResultSound, CascadeReasons, ContextSound, NoSpuriousSkip
<1> QED
  BY <1>1, <1>2, <1>3, EveryRunHolds, PTL DEF SpecThread
=============================================================================
