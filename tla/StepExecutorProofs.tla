------------------------- MODULE StepExecutorProofs -------------------------
(***************************************************************************)
(* Theorems about StepExecutor for every set of calls, every setting of    *)
(* their steps and every policy, with proofs checked by TLAPS.             *)
(*                                                                         *)
(* Three inductive invariants carry them: the types with the marks each    *)
(* await implies, the registry (for calls of differently named steps) and  *)
(* the count of bodies while nothing has gone wrong (for a loop_max that   *)
(* fits in the attempts).                                                  *)
(***************************************************************************)
EXTENDS StepExecutor, TLAPS

\* What the step tracking of the context holds at each await.
Marks ==
  \A c \in Calls :
    /\ pc[c] = "completing" => c \in complete /\ c \notin failed
    /\ c \in complete => pc[c] \in {"completing", "failing", "done"}
    /\ c \in failed => pc[c] \in {"failing", "blocking", "done"}
    /\ pc[c] \in {"failing", "blocking"} => c \in failed
    /\ pc[c] = "done" => (outcome[c] = "success" <=> c \in complete /\ c \notin failed)

CtxInv == TypeOK /\ Marks

-----------------------------------------------------------------------------
(* Types and marks. *)

\* The initial states satisfy the invariant.
LEMMA InitCtxInv == Init => CtxInv
BY StepExecutorAssumption
DEF Init, CtxInv, TypeOK, Marks, ConfigType, PCs, Running, Outcomes

\* The changes of a call before its retry loop keep types and marks.
LEMMA BeforeLoopCtxInv ==
  ASSUME CtxInv, NEW c \in Calls,
         Skip(c) \/ NoFunction(c) \/ Begin(c) \/ PreHookFails(c)
           \/ MapInputs(c) \/ Escape(c)
  PROVE  CtxInv'
<1>1. TypeOK'
  BY DEF CtxInv, TypeOK, Skip, NoFunction, Begin, PreHookFails, MapInputs, Escape,
         MarkFailed, Goto, End, Fault, NoBodyChange, ctxVars, hist, PCs, Outcomes
<1>2. Marks'
  BY DEF CtxInv, TypeOK, Marks, Skip, NoFunction, Begin, PreHookFails, MapInputs,
         Escape, MarkFailed, Goto, End, Fault, NoBodyChange, ctxVars,
         hist, PCs, Outcomes
<1> QED
  BY <1>1, <1>2 DEF CtxInv

\* So do the start and the end of a body.
LEMMA BodyCtxInv ==
  ASSUME CtxInv, NEW c \in Calls,
         StartBody(c) \/ Exhausted(c) \/ BodyEnds(c) \/ Expire(c)
           \/ CancelCallerInBody(c)
  PROVE  CtxInv'
<1>1. TypeOK'
  <2>1. CASE StartBody(c)
    <3>1. attempt' \in [Calls -> Nat]
            /\ \A d \in Calls : attempt'[d] <= config'[d].retries + 1
      BY <2>1 DEF CtxInv, TypeOK, StartBody, MayAttempt, ConfigType
    <3> QED
      BY <2>1, <3>1, StepExecutorAssumption
      DEF CtxInv, TypeOK, StartBody, Goto, ctxVars, hist, PCs, Running
  <2>2. CASE Exhausted(c) \/ BodyEnds(c) \/ Expire(c) \/ CancelCallerInBody(c)
    BY <2>2
    DEF CtxInv, TypeOK, Exhausted, ExhaustedOutcome, BodyEnds, Expire,
        CancelCallerInBody, Goto, End, NoBodyChange, ctxVars, hist, PCs, Running,
        Outcomes
  <2> QED
    BY <2>1, <2>2
<1>2. Marks'
  BY DEF CtxInv, TypeOK, Marks, StartBody, Exhausted, ExhaustedOutcome, BodyEnds,
         Expire, CancelCallerInBody, Goto, End, NoBodyChange, ctxVars, hist, PCs
<1> QED
  BY <1>1, <1>2 DEF CtxInv

\* The handling of an ended body.
LEMMA ResumeCtxInv == ASSUME CtxInv, NEW c \in Calls, Resume(c) PROVE CtxInv'
<1>1. TypeOK'
  BY StepExecutorAssumption
  DEF CtxInv, TypeOK, Resume, Unregistered, HandleError, MarkFailed, Goto, Fault,
      ctxVars, hist, PCs, Running, Outcomes
<1>2. Marks'
  BY DEF CtxInv, TypeOK, Marks, Resume, HandleError, MarkFailed, Goto,
         Fault, ctxVars, hist, PCs
<1> QED
  BY <1>1, <1>2 DEF CtxInv

\* The checks after a success and the awaits behind them.
LEMMA AfterBodyCtxInv ==
  ASSUME CtxInv, NEW c \in Calls,
         CheckRaises(c) \/ VerificationBlocks(c) \/ LoopUnsatisfied(c)
           \/ Completes(c) \/ Wake(c) \/ GiveUp(c) \/ Return(c)
  PROVE  CtxInv'
<1>1. TypeOK'
  <2>1. iteration' \in [Calls -> Nat]
          /\ \A d \in Calls : iteration'[d] <= config'[d].loopMax + 1
    BY DEF CtxInv, TypeOK, CheckRaises, VerificationBlocks, LoopUnsatisfied,
           LoopAgain, Completes, Wake, GiveUp, Return, NoBodyChange, ConfigType
  <2> QED
    BY <2>1
    DEF CtxInv, TypeOK, CheckRaises, VerificationBlocks, LoopUnsatisfied, Completes,
        Wake, GiveUp, Return, HandleError, MarkFailed, Goto, End, Fault,
        NoBodyChange, ctxVars, hist, PCs, Outcomes
<1>2. Marks'
  BY DEF CtxInv, TypeOK, Marks, CheckRaises, VerificationBlocks, LoopUnsatisfied,
         Completes, Wake, GiveUp, Return, HandleError, MarkFailed,
         Goto, End, Fault, NoBodyChange, ctxVars, hist, PCs
<1> QED
  BY <1>1, <1>2 DEF CtxInv

\* Cancellation of the callers and of every registered body.
LEMMA CancelCtxInv ==
  ASSUME CtxInv, CancelAll \/ \E c \in Calls : CancelCaller(c)
  PROVE  CtxInv'
<1>1. CASE CancelAll
  BY <1>1 DEF CtxInv, TypeOK, Marks, CancelAll, ctxVars, Running
<1>2. CASE \E c \in Calls : CancelCaller(c)
  <2> PICK c \in Calls : CancelCaller(c)
    BY <1>2
  <2>1. TypeOK'
    BY DEF CtxInv, TypeOK, CancelCaller, AfterCancel, MarkFailed, Goto, End, Fault,
           NoBodyChange, ctxVars, hist, PCs, Outcomes
  <2>2. Marks'
    BY DEF CtxInv, TypeOK, Marks, CancelCaller, AfterCancel, MarkFailed, Goto, End, Fault, NoBodyChange, ctxVars, hist, PCs
  <2> QED
    BY <2>1, <2>2 DEF CtxInv
<1> QED
  BY <1>1, <1>2

\* Every step keeps the context's invariant.
LEMMA NextCtxInv == CtxInv /\ [Next]_vars => CtxInv'
<1> SUFFICES ASSUME CtxInv, [Next]_vars PROVE CtxInv'
  OBVIOUS
<1>1. CASE UNCHANGED vars
  BY <1>1 DEF vars, ctxVars, hist, CtxInv, TypeOK, Marks
<1>2. CASE AllDone
  BY <1>2, <1>1 DEF AllDone
<1>3. CASE CancelAll
  BY <1>3, CancelCtxInv
<1>4. ASSUME NEW c \in Calls, Execute(c) \/ BodyEnds(c) \/ Interrupt(c) PROVE CtxInv'
  BY <1>4, BeforeLoopCtxInv, BodyCtxInv, ResumeCtxInv, AfterBodyCtxInv, CancelCtxInv
  DEF Execute, Interrupt
<1> QED
  BY <1>1, <1>2, <1>3, <1>4 DEF Next

\* The context's invariant holds in every state.
LEMMA AlwaysCtxInv == Spec => []CtxInv
BY InitCtxInv, NextCtxInv, PTL DEF Spec

\* The variables keep their types; in particular no step's function is started
\* more than max_retries + 1 times.
THEOREM TypeCorrect == Spec => []TypeOK
<1>1. CtxInv => TypeOK
  BY DEF CtxInv
<1> QED
  BY <1>1, AlwaysCtxInv, PTL

\* A dependent finds a step complete and not failed exactly if the call that
\* executed it returned SUCCESS, wherever a cancellation struck.
THEOREM ContextAgrees == Spec => []OutcomeMatchesContext
<1>1. CtxInv => OutcomeMatchesContext
  BY DEF CtxInv, Marks, OutcomeMatchesContext
<1> QED
  BY <1>1, AlwaysCtxInv, PTL

\* A step recorded as complete never starts its function again.
THEOREM CompleteIsFinal == Spec => NoRerunOnceComplete
<1>1. CtxInv /\ [Next]_vars => [\A c \in complete : attempt'[c] = attempt[c]]_vars
  <2> SUFFICES ASSUME CtxInv, Next, NEW d \in complete
               PROVE  attempt'[d] = attempt[d]
    BY DEF vars
  <2>1. d \in Calls /\ pc[d] # "attempt" /\ attempt \in [Calls -> Nat]
    BY DEF CtxInv, TypeOK, Marks
  <2>2. CASE CancelAll \/ AllDone
    BY <2>2 DEF CancelAll, AllDone, vars
  <2>3. ASSUME NEW c \in Calls, Execute(c)
        PROVE  attempt'[d] = attempt[d]
    BY <2>1, <2>3
    DEF Execute, Skip, NoFunction, Begin, PreHookFails, MapInputs, Escape, StartBody,
        Exhausted, Resume, CheckRaises, VerificationBlocks, LoopUnsatisfied,
        Completes, Wake, GiveUp, Return, NoBodyChange
  <2>4. ASSUME NEW c \in Calls, BodyEnds(c) \/ Interrupt(c)
        PROVE  attempt'[d] = attempt[d]
    BY <2>4
    DEF BodyEnds, Interrupt, Expire, CancelCallerInBody, CancelCaller, NoBodyChange
  <2> QED
    BY <2>2, <2>3, <2>4 DEF Next
<1> QED
  BY <1>1, AlwaysCtxInv, PTL DEF Spec, NoRerunOnceComplete

-----------------------------------------------------------------------------
(* The registry of calls whose steps have different names. *)

DistinctNamesAssumed == \A c, d \in Calls : StepOf[c] = StepOf[d] => c = d

\* With different names, an entry of the registry is its own call's body.
LEMMA RegistryStep ==
  ASSUME DistinctNamesAssumed, TypeOK, RegistryExact, [Next]_vars
  PROVE  RegistryExact'
<1> USE StepExecutorAssumption DEF TypeOK, RegistryExact, Running
<1>1. CASE UNCHANGED vars \/ AllDone
  BY <1>1 DEF AllDone, vars
<1>2. CASE CancelAll
  BY <1>2 DEF CancelAll
<1>3. ASSUME NEW c \in Calls, StartBody(c) \/ Resume(c)
      PROVE  RegistryExact'
  <2>1. pc' = [pc EXCEPT ![c] = pc'[c]] /\ (pc'[c] = "body" <=> StartBody(c))
    BY <1>3 DEF StartBody, Resume, Goto, HandleError, MarkFailed
  <2>2. \A d \in Calls \ {c} : registry'[StepOf[d]] = registry[StepOf[d]]
    BY <1>3 DEF StartBody, Resume, Unregistered, DistinctNamesAssumed
  <2>3. registry'[StepOf[c]] = c <=> StartBody(c)
    BY <1>3, <2>1 DEF StartBody, Resume, Unregistered
  <2>4. body'[c] \in Running => pc'[c] = "body"
    BY <1>3, <2>1 DEF StartBody, Resume, Ended
  <2>5. \A d \in Calls \ {c} : body'[d] = body[d] /\ pc'[d] = pc[d]
    BY <1>3, <2>1 DEF StartBody, Resume
  <2> QED
    BY <2>1, <2>2, <2>3, <2>4, <2>5
<1>4. ASSUME NEW c \in Calls,
             BodyEnds(c) \/ Expire(c) \/ CancelCallerInBody(c)
      PROVE  RegistryExact'
  BY <1>4 DEF BodyEnds, Expire, CancelCallerInBody
<1>5. ASSUME NEW c \in Calls, UNCHANGED <<registry, body>>, pc[c] # "body",
             pc'[c] # "body", pc' = [pc EXCEPT ![c] = pc'[c]]
      PROVE  RegistryExact'
  BY <1>5
<1>6. ASSUME NEW c \in Calls, Execute(c) \/ CancelCaller(c), ~StartBody(c), ~Resume(c)
      PROVE  RegistryExact'
  <2>1. UNCHANGED <<registry, body>> /\ pc[c] # "body"
    BY <1>6
    DEF Execute, Skip, NoFunction, Begin, PreHookFails, MapInputs, Escape, Exhausted,
        CheckRaises, VerificationBlocks, LoopUnsatisfied, Completes, Wake, GiveUp,
        Return, CancelCaller, NoBodyChange
  <2>2. pc'[c] # "body" /\ pc' = [pc EXCEPT ![c] = pc'[c]]
    BY <1>6
    DEF Execute, Skip, NoFunction, Begin, PreHookFails, MapInputs, Escape, Exhausted,
        CheckRaises, VerificationBlocks, LoopUnsatisfied, Completes, Wake, GiveUp,
        Return, CancelCaller, AfterCancel, HandleError, MarkFailed, Goto, End, PCs
  <2> QED
    BY <1>5, <2>1, <2>2
<1> QED
  BY <1>1, <1>2, <1>3, <1>4, <1>6 DEF Next, Interrupt

\* With distinct step names, cancel and cancel_all find every body in progress,
\* and nothing stays registered once its call has moved on.
THEOREM RegistryHolds == DistinctNamesAssumed => (Spec => []RegistryExact)
<1> SUFFICES ASSUME DistinctNamesAssumed PROVE Spec => []RegistryExact
  OBVIOUS
<1>1. Init => RegistryExact
  <2> SUFFICES ASSUME Init, NEW c \in Calls
               PROVE  registry[StepOf[c]] # c /\ pc[c] # "body" /\ body[c] \notin Running
    BY DEF RegistryExact
  <2>1. StepOf[c] \in StepNames /\ NoCall # c
    BY StepExecutorAssumption
  <2> QED
    BY <2>1 DEF Init, Running
<1>2. TypeOK /\ RegistryExact /\ [Next]_vars => RegistryExact'
  BY RegistryStep
<1> QED
  BY <1>1, <1>2, TypeCorrect, PTL DEF Spec

-----------------------------------------------------------------------------
(* Failures have a cause when loop_max fits in the attempts. *)

LoopsFitAssumed == \A cf \in Configs : cf.loopMax <= cf.retries + 1

\* While nothing has gone wrong, every body is an iteration of the loop.
CountInv ==
  /\ \A c \in Calls : config[c] \in Configs
  /\ \A c \in Calls : c \notin faults =>
       /\ pc[c] \in {"start", "preHooks", "attempt"} => attempt[c] + 1 = iteration[c]
       /\ pc[c] \in {"body", "checks", "completing"} => attempt[c] = iteration[c]
       /\ pc[c] \notin {"failing", "blocking", "errorHooks", "backoff"}
       /\ iteration[c] <= config[c].retries + 1
       /\ outcome[c] # "failed"

\* As long as nothing went wrong, every body is one iteration.
LEMMA CountStep ==
  ASSUME LoopsFitAssumed, TypeOK, CountInv, [Next]_vars
  PROVE  CountInv'
<1> USE DEF TypeOK, CountInv, ConfigType
<1>1. CASE UNCHANGED vars \/ AllDone
  BY <1>1 DEF AllDone, vars, ctxVars, hist
<1>2. CASE CancelAll
  BY <1>2 DEF CancelAll, ctxVars, hist
<1>3. ASSUME NEW c \in Calls, BodyEnds(c) \/ Expire(c) \/ CancelCallerInBody(c)
      PROVE  CountInv'
  BY <1>3 DEF BodyEnds, Expire, CancelCallerInBody, ctxVars, hist
<1>4. ASSUME NEW c \in Calls, StartBody(c)
      PROVE  CountInv'
  BY <1>4 DEF StartBody, MayAttempt, Goto, hist
<1>5. ASSUME NEW c \in Calls, Exhausted(c)
      PROVE  CountInv'
  BY <1>5 DEF Exhausted, MayAttempt, End, Goto, NoBodyChange, hist
<1>6. ASSUME NEW c \in Calls, LoopUnsatisfied(c)
      PROVE  CountInv'
  BY <1>6 DEF LoopUnsatisfied, LoopAgain, LoopsFitAssumed, Goto, NoBodyChange, hist
<1>7. ASSUME NEW c \in Calls,
             Skip(c) \/ Begin(c) \/ MapInputs(c) \/ Completes(c) \/ Wake(c)
               \/ GiveUp(c) \/ Return(c)
      PROVE  CountInv'
  BY <1>7
  DEF Skip, Begin, MapInputs, Completes, Wake, GiveUp, Return, MarkFailed, Goto, End,
      NoBodyChange, hist
<1>8. ASSUME NEW c \in Calls,
             NoFunction(c) \/ PreHookFails(c) \/ Escape(c) \/ CheckRaises(c)
               \/ VerificationBlocks(c) \/ CancelCaller(c)
      PROVE  CountInv'
  BY <1>8
  DEF NoFunction, PreHookFails, Escape, CheckRaises, VerificationBlocks,
      CancelCaller, HandleError, MarkFailed, Goto, End, Fault, NoBodyChange
<1>9. ASSUME NEW c \in Calls, Resume(c)
      PROVE  CountInv'
  BY <1>9 DEF Resume, HandleError, MarkFailed, Goto, Fault, hist
<1> QED
  BY <1>1, <1>2, <1>3, <1>4, <1>5, <1>6, <1>7, <1>8, <1>9 DEF Next, Execute, Interrupt

\* With loop_max at most max_retries + 1, a step fails only if something went
\* wrong: an unsatisfied loop_until alone never makes it fail.
THEOREM FailuresHaveCause == LoopsFitAssumed => (Spec => []FailureHasCause)
<1> SUFFICES ASSUME LoopsFitAssumed PROVE Spec => []FailureHasCause
  OBVIOUS
<1>1. Init => CountInv
  BY StepExecutorAssumption DEF Init, CountInv, ConfigType
<1>2. TypeOK /\ CountInv /\ [Next]_vars => CountInv'
  BY CountStep
<1>3. CountInv => FailureHasCause
  BY DEF CountInv, FailureHasCause
<1> QED
  BY <1>1, <1>2, <1>3, TypeCorrect, PTL DEF Spec

-----------------------------------------------------------------------------
(* The lifecycle implements StepTask, but for the liveness of StepTask's Spec, *)
(* which the run step_implements checks.                                       *)

\* Initial states map to initial states.
LEMMA RefinementInit == Init => Abstract!Init
BY DEF Init, Abstract!Init, taskBar, Progress

\* A step of one call moves the progress of that call only.
LEMMA OneMoves ==
  ASSUME TypeOK, NEW c \in Calls, NEW to,
         pc' = [pc EXCEPT ![c] = to],
         UNCHANGED outcome \/ outcome' = [outcome EXCEPT ![c] = outcome'[c]]
  PROVE  taskBar' = [taskBar EXCEPT ![c] = taskBar'[c]]
BY DEF TypeOK, taskBar, Progress

\* The steps that decide on a failure are the abstract Fail.
LEMMA RefinementFail ==
  ASSUME TypeOK, NEW c \in Calls,
         PreHookFails(c) \/ VerificationBlocks(c) \/ GiveUp(c) \/ Exhausted(c)
           \/ NoFunction(c) \/ (Resume(c) /\ body[c] = "stopped")
  PROVE  Abstract!Fail(c)
<1>1. taskBar[c] \in {"starting", "body"} /\ taskBar'[c] = "failed"
  BY DEF TypeOK, taskBar, Progress, PreHookFails, VerificationBlocks, GiveUp,
         Exhausted, ExhaustedOutcome, NoFunction, Resume, MarkFailed, Goto, End
<1>2. taskBar' = [taskBar EXCEPT ![c] = taskBar'[c]]
  <2>1. PICK to : pc' = [pc EXCEPT ![c] = to]
    BY DEF PreHookFails, VerificationBlocks, GiveUp, Exhausted, NoFunction, Resume,
           MarkFailed, Goto, End
  <2>2. UNCHANGED outcome \/ outcome' = [outcome EXCEPT ![c] = outcome'[c]]
    BY DEF TypeOK, PreHookFails, VerificationBlocks, GiveUp, Exhausted, NoFunction,
           Resume, MarkFailed, End
  <2> QED
    BY <2>1, <2>2, OneMoves
<1>3. failed' \in {failed, failed \cup {c}} /\ UNCHANGED complete
  BY DEF PreHookFails, VerificationBlocks, GiveUp, Exhausted, NoFunction, Resume,
         MarkFailed, ctxVars
<1> QED
  BY <1>1, <1>2, <1>3 DEF Abstract!Fail, Abstract!Moves

\* Every step maps to a step of StepTask or to a stutter.
LEMMA RefinementStep ==
  ASSUME ~MayCancel, CtxInv, [Next]_vars
  PROVE  [Abstract!Next]_Abstract!vars
<1> USE DEF CtxInv, TypeOK
<1>1. ASSUME UNCHANGED <<taskBar, complete, failed>>
      PROVE  [Abstract!Next]_Abstract!vars
  BY <1>1 DEF Abstract!vars
<1>2. ASSUME NEW c \in Calls, Abstract!Step(c)
      PROVE  [Abstract!Next]_Abstract!vars
  BY <1>2 DEF Abstract!Next
<1>3. CASE UNCHANGED vars \/ AllDone \/ CancelAll
  BY <1>1, <1>3 DEF AllDone, CancelAll, vars, ctxVars, taskBar, Progress
<1>4. ASSUME NEW c \in Calls,
             BodyEnds(c) \/ Interrupt(c)
      PROVE  [Abstract!Next]_Abstract!vars
  BY <1>1, <1>4
  DEF BodyEnds, Interrupt, Expire, CancelCallerInBody, CancelCaller, ctxVars,
      taskBar, Progress
<1>5. ASSUME NEW c \in Calls,
             MapInputs(c) \/ StartBody(c) \/ CheckRaises(c) \/ LoopUnsatisfied(c)
               \/ Wake(c) \/ Return(c) \/ (Resume(c) /\ body[c] # "stopped")
      PROVE  [Abstract!Next]_Abstract!vars
  <2>1. taskBar'[c] = taskBar[c] /\ UNCHANGED <<complete, failed>>
    BY <1>5
    DEF Marks, MapInputs, StartBody, CheckRaises, LoopUnsatisfied, Wake, Return,
        Resume, HandleError, Goto, End, ctxVars, taskBar, Progress
  <2>2. PICK to : pc' = [pc EXCEPT ![c] = to]
    BY <1>5
    DEF MapInputs, StartBody, CheckRaises, LoopUnsatisfied, Wake, Return, Resume,
        HandleError, Goto, End
  <2>3. UNCHANGED outcome \/ outcome' = [outcome EXCEPT ![c] = outcome'[c]]
    BY <1>5
    DEF MapInputs, StartBody, CheckRaises, LoopUnsatisfied, Wake, Return, Resume,
        HandleError, End
  <2>4. taskBar' = taskBar
    BY <2>1, <2>2, <2>3, OneMoves DEF taskBar
  <2> QED
    BY <2>1, <2>4, <1>1
<1>6. ASSUME NEW c \in Calls, Skip(c) \/ Begin(c) \/ Escape(c) \/ Completes(c)
      PROVE  Abstract!Step(c)
  <2>1. PICK to : pc' = [pc EXCEPT ![c] = to]
    BY <1>6 DEF Skip, Begin, Escape, Completes, Goto, End
  <2>2. UNCHANGED outcome \/ outcome' = [outcome EXCEPT ![c] = outcome'[c]]
    BY <1>6 DEF Skip, Begin, Escape, Completes, End
  <2>3. taskBar' = [taskBar EXCEPT ![c] = taskBar'[c]]
    BY <2>1, <2>2, OneMoves
  <2>4. CASE Skip(c)
    <3>1. taskBar[c] = "starting" /\ taskBar'[c] = "skipped"
      BY <2>4 DEF Skip, End, Goto, taskBar, Progress
    <3> QED
      BY <2>3, <2>4, <3>1 DEF Skip, ctxVars, Abstract!Step, Abstract!Skip, Abstract!Moves
  <2>5. CASE Begin(c)
    <3>1. taskBar[c] = "starting" /\ taskBar'[c] = "body"
      BY <2>5 DEF Begin, Goto, taskBar, Progress
    <3> QED
      BY <2>3, <2>5, <3>1 DEF Begin, ctxVars, Abstract!Step, Abstract!Run, Abstract!Moves
  <2>6. CASE Escape(c)
    <3>1. taskBar[c] \in {"starting", "body"} /\ taskBar'[c] = "raised"
      BY <2>6 DEF Escape, End, Goto, taskBar, Progress
    <3> QED
      BY <2>3, <2>6, <3>1 DEF Escape, ctxVars, Abstract!Step, Abstract!Raise, Abstract!Moves
  <2>7. CASE Completes(c)
    <3>1. taskBar[c] = "body" /\ taskBar'[c] = "success"
      BY <2>7 DEF Completes, Goto, taskBar, Progress
    <3> QED
      BY <2>3, <2>7, <3>1 DEF Completes, Abstract!Step, Abstract!Succeed, Abstract!Moves
  <2> QED
    BY <1>6, <2>4, <2>5, <2>6, <2>7
<1>7. ASSUME NEW c \in Calls,
             PreHookFails(c) \/ VerificationBlocks(c) \/ GiveUp(c) \/ Exhausted(c)
               \/ NoFunction(c) \/ (Resume(c) /\ body[c] = "stopped")
      PROVE  Abstract!Step(c)
  BY <1>7, RefinementFail DEF Abstract!Step
<1> QED
  BY <1>2, <1>3, <1>4, <1>5, <1>6, <1>7 DEF Next, Execute

\* As long as nobody cancels the task of a step, every run of the lifecycle is,
\* for a scheduler, one of the abstract task: the progress and the marks in the
\* context change together.
THEOREM Implements == ~MayCancel => (Spec => Abstract!Init /\ [][Abstract!Next]_Abstract!vars)
<1> SUFFICES ASSUME ~MayCancel PROVE Spec => Abstract!Init /\ [][Abstract!Next]_Abstract!vars
  OBVIOUS
<1>1. CtxInv /\ [Next]_vars => [Abstract!Next]_Abstract!vars
  BY RefinementStep
<1> QED
  BY <1>1, RefinementInit, AlwaysCtxInv, PTL DEF Spec
-----------------------------------------------------------------------------
(* A call is finite: what CallsEnd needs besides fairness.                     *)

\* What a call has before it within one attempt, or after its last.
Ahead(c) ==
  CASE pc[c] = "body" -> (CASE body[c] = "running" -> 9 [] body[c] = "stopping" -> 8
                            [] body[c] = "stopped" -> 6 [] OTHER -> 7)
    [] pc[c] \in {"start", "checks"} -> 5
    [] pc[c] \in {"preHooks", "backoff"} -> 4
    [] pc[c] \in {"attempt", "errorHooks"} -> 3
    [] pc[c] \in {"completing", "blocking"} -> 2
    [] pc[c] = "failing" -> 1
    [] OTHER -> 0

\* Retries and turns of the loop draw on the same attempts.
Work(c) == 7 * (config[c].retries + 1 - attempt[c]) + Ahead(c)

Call(c) == <<pc[c], attempt[c], iteration[c], body[c], outcome[c]>>

\* Nothing a call does, and nothing done to it, gives it more to do: whatever
\* mix of errors, loop turns, time-outs and cancellations, of itself or of all,
\* hits it, a call makes at most 7 * max_retries + 12 steps.
WorkBound   == \A c \in Calls : Work(c) \in 0..(7 * config[c].retries + 12)
WorkShrinks == [][\A c \in Calls : Call(c)' = Call(c) \/ Work(c)' < Work(c)]_vars

\* A body in progress is one its call awaits, as one of its attempts.
Attended ==
  \A c \in Calls :
    /\ body[c] \in Running => pc[c] = "body"
    /\ pc[c] = "body" => attempt[c] > 0

\* An entry of _running_tasks is a call of that name that awaits its body, even
\* if several calls have the name.
NothingStale ==
  \A n \in StepNames : registry[n] # NoCall =>
    StepOf[registry[n]] = n /\ pc[registry[n]] = "body"

\* A step of one call is no step of another, but for cancel_all.
LEMMA OthersRest ==
  ASSUME TypeOK, NEW c \in Calls, Execute(c) \/ BodyEnds(c) \/ Interrupt(c),
         NEW d \in Calls, d # c
  PROVE  Call(d)' = Call(d) /\ Ahead(d)' = Ahead(d) /\ config' = config
<1>1. pc'[d] = pc[d] /\ attempt'[d] = attempt[d] /\ body'[d] = body[d] /\ config' = config
  BY DEF TypeOK, Execute, Interrupt, Skip, NoFunction, Begin, PreHookFails, MapInputs, Escape,
         StartBody, Exhausted, BodyEnds, Expire, Resume, CheckRaises, VerificationBlocks,
         LoopUnsatisfied, Completes, Wake, GiveUp, Return, CancelCallerInBody, CancelCaller,
         HandleError, MarkFailed, Goto, End, NoBodyChange
<1>2. iteration'[d] = iteration[d] /\ outcome'[d] = outcome[d]
  BY DEF TypeOK, Execute, Interrupt, Skip, NoFunction, Begin, PreHookFails, MapInputs, Escape,
         StartBody, Exhausted, BodyEnds, Expire, Resume, CheckRaises, VerificationBlocks,
         LoopUnsatisfied, Completes, Wake, GiveUp, Return, CancelCallerInBody, CancelCaller,
         HandleError, MarkFailed, Goto, End
<1> QED BY <1>1, <1>2 DEF Call, Ahead

\* The start of a body takes one of the attempts ...
LEMMA AttemptIsWork ==
  ASSUME TypeOK, NEW c \in Calls, StartBody(c)
  PROVE  Work(c)' < Work(c)
<1>1. /\ attempt[c] \in Nat /\ attempt'[c] = attempt[c] + 1
      /\ config' = config /\ config[c].retries \in Nat
      /\ pc[c] = "attempt" /\ pc'[c] = "body" /\ body'[c] = "running"
  BY DEF TypeOK, ConfigType, StartBody, Goto
<1>2. Ahead(c) = 3 /\ Ahead(c)' = 9
  BY <1>1 DEF Ahead
<1> QED BY <1>1, <1>2 DEF Work

\* ... and everything else brings the call nearer to the end of its attempt.
LEMMA OtherWork ==
  ASSUME TypeOK, Attended, NEW c \in Calls,
         Execute(c) \/ BodyEnds(c) \/ Interrupt(c), ~StartBody(c)
  PROVE  Call(c)' = Call(c) \/ Work(c)' < Work(c)
<1>1. /\ attempt' = attempt /\ config' = config
      /\ attempt[c] \in Nat /\ config[c].retries \in Nat
      /\ pc \in [Calls -> PCs] /\ body \in [Calls -> {"none", "ok", "error", "stopped"} \cup Running]
  BY DEF TypeOK, ConfigType, Execute, Interrupt, Skip, NoFunction, Begin, PreHookFails, MapInputs, Escape,
         Exhausted, BodyEnds, Expire, Resume, CheckRaises, VerificationBlocks,
         LoopUnsatisfied, Completes, Wake, GiveUp, Return, CancelCallerInBody, CancelCaller,
         NoBodyChange
<1>2. CASE Execute(c) /\ ~Resume(c)
  <2>1. Ahead(c)' < Ahead(c)
    BY <1>1, <1>2
    DEF Execute, Skip, NoFunction, Begin, PreHookFails, MapInputs, Escape, Exhausted, CheckRaises,
        VerificationBlocks, LoopUnsatisfied, Completes, Wake, GiveUp, Return, HandleError,
        MarkFailed, Goto, End, PCs, Ahead
  <2> QED BY <1>1, <2>1 DEF Work, Ahead
<1>3. CASE Resume(c)
  <2>1. pc[c] = "body" /\ body[c] \in Ended /\ body' = body
        /\ pc'[c] \in {"checks", "backoff", "errorHooks", "failing"}
    BY <1>1, <1>3 DEF Resume, HandleError, MarkFailed, Goto
  <2>2. Ahead(c) \in {6, 7} /\ Ahead(c)' \in 0..5
    BY <2>1 DEF Ahead, Ended
  <2> QED BY <1>1, <2>2 DEF Work
<1>4. CASE BodyEnds(c)
  <2>1. pc' = pc /\ pc[c] = "body" /\ body[c] \in Running /\ body'[c] \in Ended
    BY <1>1, <1>4 DEF BodyEnds, Attended, Ended
  <2>2. Ahead(c) \in {8, 9} /\ Ahead(c)' \in {6, 7}
    BY <2>1 DEF Ahead, Ended, Running
  <2> QED BY <1>1, <2>2 DEF Work
<1>5. CASE Expire(c)
  <2>1. pc' = pc /\ pc[c] = "body" /\ body[c] = "running" /\ body'[c] = "stopping"
    BY <1>1, <1>5 DEF Expire
  <2>2. Ahead(c) = 9 /\ Ahead(c)' = 8
    BY <2>1 DEF Ahead
  <2> QED BY <1>1, <2>2 DEF Work
<1>6. CASE CancelCallerInBody(c)
  <2>1. /\ pc' = pc /\ pc[c] = "body" /\ iteration' = iteration /\ outcome' = outcome
        /\ body'[c] = IF body[c] \in Running THEN "stopping" ELSE "stopped"
    BY <1>1, <1>6 DEF CancelCallerInBody
  <2>2. body'[c] = body[c] \/ Ahead(c)' < Ahead(c)
    BY <1>1, <2>1 DEF Ahead, Running
  <2> QED BY <1>1, <2>1, <2>2 DEF Work, Call, Ahead
<1>7. CASE CancelCaller(c)
  <2>1. Ahead(c)' < Ahead(c)
    BY <1>1, <1>7 DEF CancelCaller, AfterCancel, MarkFailed, Goto, End, PCs, Ahead
  <2> QED BY <1>1, <2>1 DEF Work, Ahead
<1> QED BY <1>2, <1>3, <1>4, <1>5, <1>6, <1>7 DEF Interrupt

\* cancel_all only stops bodies that their calls await.
LEMMA CancelAllIsWork ==
  ASSUME TypeOK, Attended, CancelAll, NEW c \in Calls
  PROVE  Call(c)' = Call(c) \/ Work(c)' < Work(c)
<1>1. /\ pc' = pc /\ attempt' = attempt /\ iteration' = iteration /\ outcome' = outcome
      /\ config' = config /\ attempt[c] \in Nat /\ config[c].retries \in Nat
      /\ body'[c] = body[c] \/ (body[c] = "running" /\ body'[c] = "stopping")
  BY DEF TypeOK, ConfigType, CancelAll
<1>2. CASE body'[c] = body[c]
  BY <1>1, <1>2 DEF Call
<1>3. CASE body[c] = "running" /\ body'[c] = "stopping"
  <2>1. pc[c] = "body"
    BY <1>3 DEF Attended, Running
  <2>2. Ahead(c) = 9 /\ Ahead(c)' = 8
    BY <1>1, <1>3, <2>1 DEF Ahead
  <2> QED BY <1>1, <2>2 DEF Work
<1> QED BY <1>1, <1>2, <1>3

\* Every step of the specification is work done, call by call.
LEMMA EveryStepIsWork ==
  ASSUME TypeOK, Attended, Next, NEW c \in Calls
  PROVE  Call(c)' = Call(c) \/ Work(c)' < Work(c)
<1>1. CASE CancelAll
  BY <1>1, CancelAllIsWork
<1>2. CASE AllDone
  BY <1>2 DEF AllDone, vars, Call
<1>3. ASSUME NEW d \in Calls, Execute(d) \/ BodyEnds(d) \/ Interrupt(d)
      PROVE  Call(c)' = Call(c) \/ Work(c)' < Work(c)
  BY <1>3, OthersRest, AttemptIsWork, OtherWork
<1> QED BY <1>1, <1>2, <1>3 DEF Next

\* Every step keeps Attended and NothingStale.
LEMMA AttendedStep ==
  ASSUME TypeOK, Attended, NothingStale, [Next]_vars
  PROVE  Attended' /\ NothingStale'
<1> USE StepExecutorAssumption DEF TypeOK, Attended, NothingStale, Running
<1>1. CASE UNCHANGED vars \/ AllDone
  BY <1>1 DEF AllDone, vars
<1>2. CASE CancelAll
  BY <1>2 DEF CancelAll
<1>3. ASSUME NEW c \in Calls, StartBody(c) PROVE Attended' /\ NothingStale'
  BY <1>3 DEF StartBody, Goto
<1>4. ASSUME NEW c \in Calls, Resume(c) PROVE Attended' /\ NothingStale'
  <2>1. /\ registry' = Unregistered(c) /\ body' = body /\ body[c] \in Ended
        /\ \A d \in Calls \ {c} : pc'[d] = pc[d]
    BY <1>4 DEF Resume, HandleError, MarkFailed, Goto
  <2>2. Attended'
    <3>1. attempt' = attempt /\ pc'[c] # "body"
      BY <1>4 DEF Resume, HandleError, MarkFailed, Goto
    <3> QED BY <2>1, <3>1 DEF Ended
  <2>3. ASSUME NEW n \in StepNames, registry'[n] # NoCall
        PROVE  StepOf[registry'[n]] = n /\ pc'[registry'[n]] = "body"
    <3>1. n # StepOf[c] /\ registry'[n] = registry[n]
      BY <2>1, <2>3 DEF Unregistered
    <3> QED BY <2>1, <2>3, <3>1
  <2> QED BY <2>2, <2>3
<1>5. ASSUME NEW c \in Calls, BodyEnds(c) \/ Expire(c) \/ CancelCallerInBody(c)
      PROVE  Attended' /\ NothingStale'
  BY <1>5 DEF BodyEnds, Expire, CancelCallerInBody
<1>6. ASSUME NEW c \in Calls, Execute(c) \/ CancelCaller(c), ~StartBody(c), ~Resume(c)
      PROVE  Attended' /\ NothingStale'
  <2>1. UNCHANGED <<registry, body, attempt>> /\ pc[c] # "body"
    BY <1>6
    DEF Execute, Skip, NoFunction, Begin, PreHookFails, MapInputs, Escape, Exhausted,
        CheckRaises, VerificationBlocks, LoopUnsatisfied, Completes, Wake, GiveUp,
        Return, CancelCaller, NoBodyChange
  <2>2. pc'[c] # "body" /\ \A d \in Calls \ {c} : pc'[d] = pc[d]
    BY <1>6
    DEF Execute, Skip, NoFunction, Begin, PreHookFails, MapInputs, Escape, Exhausted,
        CheckRaises, VerificationBlocks, LoopUnsatisfied, Completes, Wake, GiveUp,
        Return, CancelCaller, AfterCancel, HandleError, MarkFailed, Goto, End, PCs
  <2> QED BY <2>1, <2>2
<1> QED
  BY <1>1, <1>2, <1>3, <1>4, <1>5, <1>6 DEF Next, Interrupt

LEMMA AlwaysAttended == Spec => [](TypeOK /\ Attended /\ NothingStale)
<1>1. Init => Attended /\ NothingStale
  BY DEF Init, Attended, NothingStale, Running
<1> QED
  BY <1>1, AttendedStep, TypeCorrect, PTL DEF Spec

\* No entry outlives its execution, whoever shares its name: an entry that is
\* found can still be cancelled.
THEOREM NothingStaleHolds == Spec => []NothingStale
BY AlwaysAttended, PTL

\* A call is finite, whatever interrupts it and as often as it likes.
THEOREM CallsAreFinite == Spec => []WorkBound /\ WorkShrinks
<1>1. TypeOK /\ Attended => WorkBound
  <2> SUFFICES ASSUME TypeOK, Attended, NEW c \in Calls
               PROVE  Work(c) \in 0..(7 * config[c].retries + 12)
    BY DEF WorkBound
  <2>1. /\ attempt[c] \in Nat /\ config[c].retries \in Nat
        /\ attempt[c] <= config[c].retries + 1
    BY DEF TypeOK, ConfigType
  <2>2. Ahead(c) \in 0..9 /\ (pc[c] # "body" => Ahead(c) \in 0..5)
    BY DEF Ahead
  <2>3. pc[c] = "body" => attempt[c] > 0
    BY DEF Attended
  <2> QED BY <2>1, <2>2, <2>3 DEF Work
<1>2. TypeOK /\ Attended /\ [Next]_vars
        => [\A c \in Calls : Call(c)' = Call(c) \/ Work(c)' < Work(c)]_vars
  BY EveryStepIsWork
<1> QED
  BY <1>1, <1>2, AlwaysAttended, PTL DEF Spec, WorkShrinks
=============================================================================
