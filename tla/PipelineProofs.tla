--------------------------- MODULE PipelineProofs ---------------------------
(***************************************************************************)
(* Theorems about Pipeline for every finite set of steps and every         *)
(* pipeline, with proofs checked by TLAPS.                                 *)
(***************************************************************************)
EXTENDS Pipeline, FiniteSetTheorems, SequenceTheorems, TLAPS

-----------------------------------------------------------------------------
(* Results and elements in sequences. *)

\* An element is a step, a group or a branch, with fields of their types.
LEMMA ElementType ==
  ASSUME NEW e \in Elements
  PROVE  /\ e.kind \in {"step", "group", "branch"}
         /\ e.kind = "step" => e.step \in Steps
         /\ e.kind = "group" => e.steps \in Seq(Steps) \ {<<>>} /\ e.failFast \in BOOLEAN
         /\ e.kind = "branch" => e.then \in Seq(Elements) /\ e.else \in Seq(Elements)
BY PipelineAssumption DEF StepElement, GroupElement, BranchElement

\* The parameters of a pipeline have their types.
LEMMA PipelineFacts ==
  ASSUME NEW p \in Pipelines
  PROVE  /\ p.elements \in Seq(Elements)
         /\ p.failFast \in BOOLEAN
         /\ p.interval \in Nat
BY PipelineAssumption DEF PipelineType

\* The steps of elements are steps.
LEMMA StepsOfAllType ==
  ASSUME NEW es \in Seq(Elements)
  PROVE  StepsOfAll(es) \subseteq Steps
<1>1. ASSUME NEW i \in DOMAIN es PROVE StepsOf(es[i]) \subseteq Steps
  <2>1. es[i] \in Elements
    BY LenProperties, ElementOfSeq
  <2> QED
    BY <2>1, ElementType, LenProperties DEF StepsOf, Range
<1> QED
  BY <1>1 DEF StepsOfAll

\* Taking the first element away, or putting others before the rest.
LEMMA StepsOfHead ==
  ASSUME NEW es \in Seq(Elements), es # <<>>
  PROVE  StepsOfAll(es) = StepsOf(Head(es)) \cup StepsOfAll(Tail(es))
<1>1. /\ Len(es) \in Nat \ {0} /\ DOMAIN es = 1..Len(es)
      /\ Len(Tail(es)) = Len(es) - 1 /\ DOMAIN Tail(es) = 1..(Len(es) - 1)
      /\ \A i \in 1..(Len(es) - 1) : Tail(es)[i] = es[i + 1]
  BY LenProperties, EmptySeq, HeadTailProperties
<1>2. Head(es) = es[1]
  OBVIOUS
<1>3. ASSUME NEW s PROVE s \in StepsOfAll(es) <=> s \in StepsOf(es[1]) \cup StepsOfAll(Tail(es))
  <2>1. ASSUME s \in StepsOfAll(es) PROVE s \in StepsOf(es[1]) \cup StepsOfAll(Tail(es))
    <3> PICK i \in 1..Len(es) : s \in StepsOf(es[i])
      BY <2>1, <1>1 DEF StepsOfAll
    <3>1. CASE i = 1
      BY <3>1
    <3>2. CASE i # 1
      <4>1. i - 1 \in DOMAIN Tail(es) /\ Tail(es)[i - 1] = es[i]
        BY <1>1, <3>2
      <4> QED
        BY <4>1 DEF StepsOfAll
    <3> QED
      BY <3>1, <3>2
  <2>2. ASSUME s \in StepsOfAll(Tail(es)) PROVE s \in StepsOfAll(es)
    <3> PICK i \in DOMAIN Tail(es) : s \in StepsOf(Tail(es)[i])
      BY <2>2 DEF StepsOfAll
    <3>1. i + 1 \in DOMAIN es /\ es[i + 1] = Tail(es)[i]
      BY <1>1
    <3> QED
      BY <3>1 DEF StepsOfAll
  <2>3. 1 \in DOMAIN es
    BY <1>1
  <2> QED
    BY <2>1, <2>2, <2>3 DEF StepsOfAll
<1> QED
  BY <1>2, <1>3

\* Steps of a concatenation are the steps of its parts.
LEMMA StepsOfConcat ==
  ASSUME NEW es \in Seq(Elements), NEW fs \in Seq(Elements)
  PROVE  StepsOfAll(es) \cup StepsOfAll(fs) \subseteq StepsOfAll(es \o fs)
<1>1. /\ Len(es) \in Nat /\ Len(fs) \in Nat
      /\ DOMAIN es = 1..Len(es) /\ DOMAIN fs = 1..Len(fs)
      /\ DOMAIN (es \o fs) = 1..(Len(es) + Len(fs))
      /\ \A i \in 1..Len(es) : (es \o fs)[i] = es[i]
      /\ \A i \in 1..Len(fs) : (es \o fs)[Len(es) + i] = fs[i]
  BY LenProperties, ConcatProperties
<1>2. ASSUME NEW i \in DOMAIN es PROVE StepsOf(es[i]) \subseteq StepsOfAll(es \o fs)
  <2>1. i \in DOMAIN (es \o fs) /\ (es \o fs)[i] = es[i]
    BY <1>1
  <2> QED
    BY <2>1 DEF StepsOfAll
<1>3. ASSUME NEW i \in DOMAIN fs PROVE StepsOf(fs[i]) \subseteq StepsOfAll(es \o fs)
  <2>1. Len(es) + i \in DOMAIN (es \o fs) /\ (es \o fs)[Len(es) + i] = fs[i]
    BY <1>1
  <2> QED
    BY <2>1 DEF StepsOfAll
<1> QED
  BY <1>2, <1>3 DEF StepsOfAll

\* What a concatenation of results holds.
LEMMA ConcatResults ==
  ASSUME NEW a \in Seq(ResultType), NEW b \in Seq(ResultType)
  PROVE  /\ a \o b \in Seq(ResultType)
         /\ Len(a \o b) = Len(a) + Len(b)
         /\ StepsIn(a \o b) = StepsIn(a) \cup StepsIn(b)
         /\ HasFailure(a \o b) <=> HasFailure(a) \/ HasFailure(b)
<1>1. /\ Len(a) \in Nat /\ Len(b) \in Nat
      /\ DOMAIN a = 1..Len(a) /\ DOMAIN b = 1..Len(b)
      /\ a \o b \in Seq(ResultType) /\ Len(a \o b) = Len(a) + Len(b)
      /\ DOMAIN (a \o b) = 1..(Len(a) + Len(b))
      /\ \A i \in 1..Len(a) : (a \o b)[i] = a[i]
      /\ \A i \in 1..Len(b) : (a \o b)[Len(a) + i] = b[i]
  BY LenProperties, ConcatProperties
<1>2. ASSUME NEW i \in DOMAIN (a \o b)
      PROVE  \/ i \in DOMAIN a /\ (a \o b)[i] = a[i]
             \/ \E j \in DOMAIN b : (a \o b)[i] = b[j]
  <2>1. CASE i <= Len(a)
    BY <1>1, <2>1
  <2>2. CASE i > Len(a)
    <3>1. i - Len(a) \in DOMAIN b /\ i = Len(a) + (i - Len(a))
      BY <1>1, <2>2
    <3> QED
      BY <1>1, <3>1
  <2> QED
    BY <1>1, <2>1, <2>2
<1>3. ASSUME NEW i \in DOMAIN a PROVE i \in DOMAIN (a \o b) /\ (a \o b)[i] = a[i]
  BY <1>1
<1>4. ASSUME NEW i \in DOMAIN b PROVE \E j \in DOMAIN (a \o b) : (a \o b)[j] = b[i]
  <2>1. Len(a) + i \in DOMAIN (a \o b) /\ (a \o b)[Len(a) + i] = b[i]
    BY <1>1
  <2> QED
    BY <2>1
<1>5. StepsIn(a \o b) = StepsIn(a) \cup StepsIn(b)
  <2>1. \A i \in DOMAIN (a \o b) : (a \o b)[i].step \in StepsIn(a) \cup StepsIn(b)
    BY <1>2 DEF StepsIn
  <2>2. \A i \in DOMAIN a : a[i].step \in StepsIn(a \o b)
    BY <1>3 DEF StepsIn
  <2>3. \A i \in DOMAIN b : b[i].step \in StepsIn(a \o b)
    BY <1>4 DEF StepsIn
  <2> QED
    BY <2>1, <2>2, <2>3 DEF StepsIn
<1>6. HasFailure(a \o b) <=> HasFailure(a) \/ HasFailure(b)
  BY <1>2, <1>3, <1>4 DEF HasFailure, IsFailed
<1> QED
  BY <1>1, <1>5, <1>6

\* The results of steps that have ended.
LEMMA ResultsOfAnswered ==
  ASSUME NEW ss \in Seq(Steps), \A s \in Range(ss) : task[s] \in Answered
  PROVE  /\ ResultsOf(ss) \in Seq(ResultType)
         /\ StepsIn(ResultsOf(ss)) = Range(ss)
         /\ HasFailure(ResultsOf(ss)) <=> \E s \in Range(ss) : task[s] = "failed"
<1>1. Len(ss) \in Nat /\ DOMAIN ss = 1..Len(ss)
  BY LenProperties
<1>2. \A i \in DOMAIN ss : ss[i] \in Steps /\ ss[i] \in Range(ss)
  BY <1>1 DEF Range
<1>3. \A i \in DOMAIN ss : ResultOf(ss[i]) \in ResultType
  BY <1>2 DEF ResultOf, ResultType, Answered
<1>4. ResultsOf(ss) \in Seq(ResultType)
  BY <1>1, <1>3 DEF ResultsOf
<1>5. StepsIn(ResultsOf(ss)) = Range(ss)
  BY Zenon DEF StepsIn, ResultsOf, ResultOf, Range
<1>6. HasFailure(ResultsOf(ss)) <=> \E s \in Range(ss) : task[s] = "failed"
  BY Zenon DEF HasFailure, IsFailed, ResultsOf, ResultOf, Range
<1> QED
  BY <1>4, <1>5, <1>6

\* An order of a set of steps is a sequence of them.
LEMMA OrderType ==
  ASSUME NEW S \in SUBSET Steps, NEW o \in Orders(S)
  PROVE  o \in Seq(Steps) /\ Range(o) = S
<1>1. Cardinality(S) \in Nat
  BY PipelineAssumption, FS_Subset, FS_CardinalityType
<1> QED
  BY <1>1 DEF Orders

-----------------------------------------------------------------------------
(* Types. *)

\* The initial states have their types.
LEMMA InitTypeOK == Init => TypeOK
<1> SUFFICES ASSUME Init PROVE TypeOK
  OBVIOUS
<1>1. position \in 0..Len(pipeline.elements)
  BY PipelineFacts, LenProperties DEF Init
<1>2. todo \in Seq(Elements) /\ acc \in Seq(ResultType) /\ results \in Seq(ResultType)
  BY EmptySeq DEF Init
<1> QED
  BY <1>1, <1>2 DEF Init, TypeOK, PCs

\* The types of the parts that most actions leave alone.
LEMMA UnitType ==
  ASSUME TypeOK, todo # <<>>
  PROVE  /\ Unit \in Elements
         /\ Tail(todo) \in Seq(Elements)
         /\ Unit.kind = "step" => Unit.step \in Steps
         /\ Unit.kind = "group" => Unit.steps \in Seq(Steps) /\ Group \subseteq Steps
<1>1. Unit \in Elements /\ Tail(todo) \in Seq(Elements)
  BY HeadTailProperties DEF TypeOK, Unit
<1>2. ASSUME NEW ss \in Seq(Steps) PROVE Range(ss) \subseteq Steps
  BY LenProperties DEF Range
<1> QED
  BY <1>1, <1>2, ElementType DEF Group

\* The loop over the elements.
LEMMA LoopTypeOK == TypeOK /\ Loop => TypeOK'
<1> SUFFICES ASSUME TypeOK, Loop PROVE TypeOK'
  OBVIOUS
<1> USE DEF TypeOK, PCs, walk, answer, taskVars, external, Goto, Return, CatchException
<1>1. CASE Start
  BY <1>1 DEF Start
<1>2. CASE NextElement
  <2>1. /\ pipeline.elements \in Seq(Elements)
        /\ position' \in 1..Len(pipeline.elements)
    BY <1>2, PipelineFacts, LenProperties DEF NextElement
  <2>2. pipeline.elements[position'] \in Elements
    BY <2>1, ElementOfSeq
  <2>3. todo' \in Seq(Elements)
    BY <1>2, <2>2 DEF NextElement
  <2>4. promised' \subseteq Steps
    BY <1>2, <2>3, StepsOfAllType DEF NextElement
  <2> QED
    BY <1>2, <2>1, <2>3, <2>4, LenProperties DEF NextElement
<1>3. CASE CancelledBreak
  BY <1>3 DEF CancelledBreak
<1>4. CASE AllDone
  BY <1>4 DEF AllDone, FinalVerdict, FinalStatus
<1>5. CASE ReportAll
  <2>1. /\ results' \in Seq(ResultType) /\ acc' \in Seq(ResultType)
    BY <1>5, ConcatResults, EmptySeq DEF ReportAll
  <2>2. sinceSave' \in Nat
    BY <1>5, LenProperties DEF ReportAll, Counted
  <2> QED
    BY <1>5, <2>1, <2>2 DEF ReportAll, AddSteps
<1>6. ASSUME NEW i \in DOMAIN acc PROVE results \o SubSeq(acc, 1, i) \in Seq(ResultType)
  <2>1. DOMAIN acc = 1..Len(acc) /\ Len(acc) \in Nat
    BY LenProperties
  <2>2. \A j \in 1..i : acc[j] \in ResultType
    BY <2>1, ElementOfSeq
  <2>3. SubSeq(acc, 1, i) \in Seq(ResultType)
    BY <2>1, <2>2, SubSeqProperties
  <2> QED
    BY <2>3, ConcatResults
<1>7. CASE ReportFailure
  BY <1>7, <1>6 DEF ReportFailure, Failures
<1>8. CASE CallbackRaises
  BY <1>8, <1>6 DEF CallbackRaises
<1>9. CASE Save
  BY <1>9, LenProperties DEF Save
<1>10. CASE SaveRaises
  BY <1>10 DEF SaveRaises
<1> QED
  BY <1>1, <1>2, <1>3, <1>4, <1>5, <1>7, <1>8, <1>9, <1>10 DEF Loop

\* Elements, branches and single steps.
LEMMA UnitDoneType ==
  ASSUME TypeOK, todo # <<>>, NEW rs \in Seq(ResultType), UnitDone(rs)
  PROVE  acc' \in Seq(ResultType) /\ todo' \in Seq(Elements)
BY UnitType, ConcatResults, EmptySeq DEF UnitDone, TypeOK

\* A move of the coroutine keeps the types.
LEMMA ExecuteTypeOK == TypeOK /\ Execute => TypeOK'
<1> SUFFICES ASSUME TypeOK, Execute PROVE TypeOK'
  OBVIOUS
<1> USE DEF TypeOK, PCs, walk, answer, taskVars, external, Goto, Return,
            CatchException, Escape
<1>1. CASE TakeArm
  <2>1. PICK arm \in {Unit.then, Unit.else} :
          todo' = arm \o Tail(todo) /\ promised' = promised \cup StepsOfAll(arm)
    BY <1>1 DEF TakeArm
  <2>2. arm \in Seq(Elements) /\ Tail(todo) \in Seq(Elements)
    BY <1>1, UnitType, ElementType DEF TakeArm, AtUnit
  <2>3. todo' \in Seq(Elements) /\ promised' \subseteq Steps
    BY <2>1, <2>2, ConcatProperties, StepsOfAllType
  <2> QED
    BY <1>1, <2>3 DEF TakeArm, AtUnit
<1>2. CASE ConditionRaises
  BY <1>2 DEF ConditionRaises
<1>3. CASE StartStep
  BY <1>3, UnitType DEF StartStep, AtUnit, Unit, InFlight
<1>4. CASE StepReturns
  <2>1. <<ResultOf(Unit.step)>> \in Seq(ResultType)
    BY <1>4, UnitType DEF StepReturns, ResultOf, ResultType, Answered
  <2> QED
    BY <1>4, <2>1, UnitDoneType DEF StepReturns, UnitDone
<1>5. CASE StepRaises
  BY <1>5 DEF StepRaises
<1>6. CASE StepEscapes
  BY <1>6 DEF StepEscapes
<1>7. CASE StartGroup
  BY <1>7, UnitType DEF StartGroup, AtUnit, Unit, Group, InFlight
<1>8. CASE Gathered
  <2>1. ResultsOf(Unit.steps) \in Seq(ResultType)
    BY <1>8, UnitType, ResultsOfAnswered DEF Gathered, Group
  <2> QED
    BY <1>8, <2>1, UnitDoneType DEF Gathered, UnitDone
<1>9. CASE GatherRaises
  BY <1>9 DEF GatherRaises
<1>10. CASE GatherEscapes
  BY <1>10 DEF GatherEscapes
<1>11. CASE NoFailureDone
  <2>1. PICK o \in Orders(Done) : acc' = acc \o ResultsOf(o)
    BY <1>11 DEF NoFailureDone
  <2>2. o \in Seq(Steps) /\ Range(o) = Done
    BY OrderType DEF Done
  <2>3. ResultsOf(o) \in Seq(ResultType)
    BY <1>11, <2>2, ResultsOfAnswered DEF NoFailureDone, Answered
  <2>4. acc' \in Seq(ResultType)
    BY <2>1, <2>3, ConcatResults
  <2>5. todo' \in Seq(Elements) /\ (pc' = "wait" => todo' = todo)
    BY <1>11, UnitType DEF NoFailureDone
  <2> QED
    BY <1>11, <2>4, <2>5 DEF NoFailureDone, Unit, Group
<1>12. CASE FailureDone
  <2>1. PICK f \in Done, S \in SUBSET {s \in Done : task[s] \in {"success", "skipped"}} :
          /\ task[f] = "failed"
          /\ \E o \in Orders(S) : acc' = acc \o ResultsOf(o) \o <<ResultOf(f)>>
    BY <1>12 DEF FailureDone
  <2>2. PICK o \in Orders(S) : acc' = acc \o ResultsOf(o) \o <<ResultOf(f)>>
    BY <2>1
  <2>3. o \in Seq(Steps) /\ Range(o) = S
    BY OrderType DEF Done
  <2>4. ResultsOf(o) \in Seq(ResultType)
    BY <2>3, ResultsOfAnswered DEF Answered
  <2>5. <<ResultOf(f)>> \in Seq(ResultType)
    BY <2>1 DEF ResultOf, ResultType, Done
  <2>6. acc' \in Seq(ResultType)
    BY <2>2, <2>4, <2>5, ConcatResults
  <2>7. cancelling' \subseteq Steps
    BY <1>12 DEF FailureDone, ToCancel
  <2> QED
    BY <1>12, <2>6, <2>7, EmptySeq DEF FailureDone
<1>13. CASE ExceptionDone
  BY <1>13 DEF ExceptionDone
<1> QED
  BY <1>1, <1>2, <1>3, <1>4, <1>5, <1>6, <1>7, <1>8, <1>9, <1>10, <1>11, <1>12,
     <1>13 DEF Execute

\* Every step keeps the types.
LEMMA NextTypeOK == TypeOK /\ [Next]_vars => TypeOK'
<1> SUFFICES ASSUME TypeOK, [Next]_vars PROVE TypeOK'
  OBVIOUS
<1> USE DEF TypeOK, PCs, walk, answer, taskVars, external, Goto
<1>1. CASE UNCHANGED vars
  BY <1>1 DEF vars, Unit, Group
<1>2. CASE Coroutine
  BY <1>2, LoopTypeOK, ExecuteTypeOK DEF Coroutine
<1>3. ASSUME NEW s \in Steps, Task(s) PROVE TypeOK'
  BY <1>3 DEF Task, TaskStarts, TaskEnds, InFlight, Ended, Unit, Group
<1>4. CASE Cancel
  BY <1>4 DEF Cancel, Unit, Group
<1>5. CASE GlobalTimeout
  <2>1. cancelling' \subseteq Steps
    BY <1>5, UnitType DEF GlobalTimeout
  <2> QED
    BY <1>5, <2>1 DEF GlobalTimeout, Unit, Group
<1> QED
  BY <1>1, <1>2, <1>3, <1>4, <1>5 DEF Next, Terminated

\* The variables keep their types: in particular the coroutine waits for what
\* fits the element it executes, and only steps that returned are results.
THEOREM TypeCorrect == Spec => []TypeOK
BY InitTypeOK, NextTypeOK, PTL DEF Spec

-----------------------------------------------------------------------------
(* Checkpoints. *)

Going == pc \notin {"returned", "escaped"}

\* The counter holds the results since the last checkpoint, and reaches the
\* interval only on the way to one.
Lag ==
  Going /\ pipeline.interval > 0 =>
    /\ Len(results) = saved + sinceSave
    /\ pc # "saving" => sinceSave < pipeline.interval

\* The counter is the number of results since the last checkpoint.
LEMMA NextLag == TypeOK /\ Lag /\ [Next]_vars => Lag'
<1> SUFFICES ASSUME TypeOK, Lag, [Next]_vars PROVE Lag'
  OBVIOUS
<1> USE DEF Lag, Going, walk, answer, taskVars, external, Goto, Return,
            CatchException, Escape
<1>1. CASE ReportAll
  <2>1. Len(results') = Len(results) + Len(acc)
    BY <1>1, ConcatResults DEF ReportAll, TypeOK
  <2>2. /\ Len(results) \in Nat /\ Len(acc) \in Nat
        /\ saved \in Nat /\ sinceSave \in Nat /\ pipeline.interval \in Nat
    BY LenProperties, PipelineFacts DEF TypeOK
  <2>3. Going /\ (pc' = "saving" \/ pc' = "next") /\ UNCHANGED <<pipeline, saved>>
    BY <1>1 DEF ReportAll, ElementDone
  <2>4. CASE pipeline.interval > 0
    <3>1. Len(results) = saved + sinceSave
      BY <2>3, <2>4
    <3>2. sinceSave' = sinceSave + Len(acc) /\ (pc' = "next" => sinceSave' < pipeline.interval)
      BY <1>1, <2>2, <2>4 DEF ReportAll, Counted
    <3> QED
      BY <2>1, <2>2, <2>3, <3>1, <3>2
  <2>5. CASE ~(pipeline.interval > 0)
    BY <2>3, <2>5
  <2> QED
    BY <2>4, <2>5
<1>2. CASE Save
  BY <1>2, LenProperties, PipelineFacts DEF Save, TypeOK
<1>3. CASE Start \/ NextElement \/ CancelledBreak \/ AllDone \/ ReportFailure
             \/ CallbackRaises \/ SaveRaises
  BY <1>3 DEF Start, NextElement, CancelledBreak, AllDone, ReportFailure,
              CallbackRaises, SaveRaises
<1>4. CASE Execute
  BY <1>4 DEF Execute, AtUnit, TakeArm, ConditionRaises, StartStep, StepReturns,
              StepRaises, StepEscapes, StartGroup, Gathered, GatherRaises,
              GatherEscapes, NoFailureDone, FailureDone, ExceptionDone, UnitDone
<1>5. CASE UNCHANGED vars \/ Cancel \/ GlobalTimeout \/ \E s \in Steps : Task(s)
  BY <1>5 DEF vars, Cancel, GlobalTimeout, Task, TaskStarts, TaskEnds
<1> QED
  BY <1>1, <1>2, <1>3, <1>4, <1>5 DEF Next, Coroutine, Loop, Terminated

\* Between two elements, fewer results than the interval are in no checkpoint.
THEOREM CheckpointLagHolds == Spec => []CheckpointLag
<1>1. Init => Lag
  BY PipelineFacts, EmptySeq DEF Init, Lag, Going
<1>2. Lag /\ TypeOK => CheckpointLag
  BY LenProperties, PipelineFacts DEF Lag, Going, CheckpointLag, TypeOK
<1> QED
  BY <1>1, <1>2, NextLag, TypeCorrect, PTL DEF Spec

-----------------------------------------------------------------------------
(* Steps beside the walk. *)

\* A task that is neither awaited nor ended is a cancelled one.
LEMMA NextNoStray == TypeOK /\ NoStray /\ [Next]_vars => NoStray'
<1> SUFFICES ASSUME TypeOK, NoStray, [Next]_vars, ~error', pc' # "escaped"
             PROVE  Stray' = {}
  BY DEF NoStray
<1> USE DEF Stray, Awaited, Unit, Group, InFlight, walk, answer, taskVars, external,
            Goto, Return, CatchException, Escape
<1>1. ~error /\ pc # "escaped" => Stray = {}
  BY DEF NoStray
<1>2. CASE Loop
  BY <1>1, <1>2 DEF Loop, Start, NextElement, CancelledBreak, AllDone, ElementDone,
                    ReportAll, ReportFailure, CallbackRaises, Save, SaveRaises
<1>3. CASE TakeArm \/ ConditionRaises
  BY <1>1, <1>3 DEF AtUnit, TakeArm, ConditionRaises
<1>4. CASE StartStep \/ StartGroup
  BY <1>1, <1>4 DEF AtUnit, StartStep, StartGroup, TypeOK
<1>5. CASE StepReturns \/ StepRaises \/ StepEscapes
  BY <1>1, <1>5 DEF StepReturns, StepRaises, StepEscapes, UnitDone, Answered
<1>6. CASE Gathered \/ GatherRaises \/ GatherEscapes
  BY <1>1, <1>6 DEF Gathered, GatherRaises, GatherEscapes, UnitDone, Answered
<1>7. CASE NoFailureDone \/ FailureDone \/ ExceptionDone
  BY <1>1, <1>7 DEF NoFailureDone, FailureDone, ExceptionDone, Done, ToCancel, Ended,
                    Answered
<1>8. ASSUME NEW s \in Steps, Task(s) PROVE Stray' = {}
  BY <1>1, <1>8 DEF Task, TaskStarts, TaskEnds, Ended, Answered, TypeOK
<1>9. CASE UNCHANGED vars \/ Cancel
  BY <1>1, <1>9 DEF vars, Cancel
<1>10. CASE GlobalTimeout
  BY <1>1, <1>10 DEF GlobalTimeout
<1> QED
  BY <1>2, <1>3, <1>4, <1>5, <1>6, <1>7, <1>8, <1>9, <1>10
  DEF Next, Coroutine, Execute, Terminated

\* A step that runs beside the walk was cancelled, unless an exception or a
\* timeout ended the pipeline.
THEOREM NoStrayHolds == Spec => []NoStray
<1>1. Init => NoStray
  BY DEF Init, NoStray, Stray, InFlight
<1> QED
  BY <1>1, NextNoStray, TypeCorrect, PTL DEF Spec

-----------------------------------------------------------------------------
(* Verdicts. *)

\* While the coroutine goes on, the verdict is that of the recorded results; a
\* step it came to has a result, or is still to be executed, unless a failure
\* was met; and between two elements nothing is left of the last one.
Verdicts ==
  /\ Going => ~error /\ verdict = IF HasFailure(results) THEN "failed" ELSE "running"
  /\ pc \in {"start", "next", "saving"} => acc = <<>> /\ todo = <<>>
  /\ Going /\ ~HasFailure(results) /\ ~HasFailure(acc) =>
       promised \subseteq StepsIn(results) \cup StepsIn(acc) \cup StepsOfAll(todo)
  /\ pc = "wait" /\ ~HasFailure(acc) => Group \subseteq StepsIn(acc) \cup pending

\* No result is recorded in an empty sequence.
LEMMA EmptyResults ==
  /\ ~HasFailure(<<>>)
  /\ StepsIn(<<>>) = {}
  /\ StepsOfAll(<<>>) = {}
BY DEF HasFailure, StepsIn, StepsOfAll

\* The steps of a unit that has its results.
LEMMA UnitDoneVerdicts ==
  ASSUME TypeOK, Verdicts, Going, pc # "wait", todo # <<>>,
         NEW rs \in Seq(ResultType), UnitDone(rs),
         StepsOf(Unit) \subseteq StepsIn(rs)
  PROVE  Verdicts'
<1>1. /\ HasFailure(acc') <=> HasFailure(acc) \/ HasFailure(rs)
      /\ StepsIn(acc') = StepsIn(acc) \cup StepsIn(rs)
  BY ConcatResults DEF UnitDone, TypeOK
<1>2. StepsOfAll(todo) = StepsOf(Unit) \cup StepsOfAll(Tail(todo))
  BY StepsOfHead DEF TypeOK, Unit
<1>3. /\ ~HasFailure(rs) => todo' = Tail(todo)
      /\ pc' = "unit" /\ UNCHANGED <<promised, results, verdict, error>>
  BY DEF UnitDone, Goto, answer
<1>4. (Going /\ ~HasFailure(results) /\ ~HasFailure(acc) =>
         promised \subseteq StepsIn(results) \cup StepsIn(acc) \cup StepsOfAll(todo))'
  BY <1>1, <1>2, <1>3 DEF Verdicts
<1> QED
  BY <1>3, <1>4 DEF Verdicts, Going, HasFailure, IsFailed

\* A failure met in a fail-fast group is among the results.
LEMMA FailureRecorded ==
  ASSUME TypeOK, NEW f \in Done, task[f] = "failed",
         NEW S \in SUBSET {s \in Done : task[s] \in {"success", "skipped"}},
         \E o \in Orders(S) : acc' = acc \o ResultsOf(o) \o <<ResultOf(f)>>
  PROVE  HasFailure(acc')
<1>1. PICK o \in Orders(S) : acc' = acc \o ResultsOf(o) \o <<ResultOf(f)>>
  OBVIOUS
<1>2. o \in Seq(Steps) /\ Range(o) = S
  BY OrderType DEF Done, TypeOK
<1>3. ResultsOf(o) \in Seq(ResultType)
  BY <1>2, ResultsOfAnswered DEF Answered
<1>4. <<ResultOf(f)>> \in Seq(ResultType) /\ HasFailure(<<ResultOf(f)>>)
  BY DEF ResultOf, ResultType, Done, HasFailure, IsFailed, TypeOK
<1> QED
  BY <1>1, <1>3, <1>4, ConcatResults DEF TypeOK

\* A turn of the loop keeps the account of the verdict.
LEMMA LoopVerdicts == TypeOK /\ Verdicts /\ Loop => Verdicts'
<1> SUFFICES ASSUME TypeOK, Verdicts, Loop PROVE Verdicts'
  OBVIOUS
<1> USE DEF Verdicts, Going, walk, answer, taskVars, external, Goto, Return, CatchException
<1>1. CASE Start
  BY <1>1 DEF Start
<1>2. CASE NextElement
  <2>1. acc = <<>> /\ todo = <<>> /\ StepsOfAll(todo) = {}
    BY <1>2, EmptyResults DEF NextElement
  <2> QED
    BY <1>2, <2>1 DEF NextElement
<1>3. CASE CancelledBreak \/ AllDone \/ ReportFailure \/ CallbackRaises \/ SaveRaises
  BY <1>3 DEF CancelledBreak, AllDone, ReportFailure, CallbackRaises, SaveRaises
<1>4. CASE ReportAll
  <2>1. /\ HasFailure(results') <=> HasFailure(results) \/ HasFailure(acc)
        /\ StepsIn(results') = StepsIn(results) \cup StepsIn(acc)
    BY <1>4, ConcatResults DEF ReportAll, TypeOK
  <2>2. todo = <<>> /\ Going
    BY <1>4 DEF ReportAll, ElementDone
  <2> QED
    BY <1>4, <2>1, <2>2, EmptyResults DEF ReportAll, AddSteps
<1>5. CASE Save
  BY <1>5 DEF Save
<1> QED
  BY <1>1, <1>2, <1>3, <1>4, <1>5 DEF Loop

\* So does every other move of the coroutine.
LEMMA ExecuteVerdicts == TypeOK /\ Verdicts /\ Execute => Verdicts'
<1> SUFFICES ASSUME TypeOK, Verdicts, Execute PROVE Verdicts'
  OBVIOUS
<1>1. CASE TakeArm
  <2>1. PICK arm \in {Unit.then, Unit.else} :
          todo' = arm \o Tail(todo) /\ promised' = promised \cup StepsOfAll(arm)
    BY <1>1 DEF TakeArm
  <2>2. arm \in Seq(Elements) /\ Tail(todo) \in Seq(Elements)
    BY <1>1, UnitType, ElementType DEF TakeArm, AtUnit
  <2>3. StepsOfAll(arm) \cup StepsOfAll(Tail(todo)) \subseteq StepsOfAll(todo')
    BY <2>1, <2>2, StepsOfConcat
  <2>4. StepsOfAll(todo) = StepsOfAll(Tail(todo))
    BY <1>1, StepsOfHead DEF TakeArm, AtUnit, TypeOK, Unit, StepsOf
  <2> QED
    BY <1>1, <2>1, <2>3, <2>4 DEF TakeArm, AtUnit, Verdicts, Going, answer
<1>2. CASE ConditionRaises \/ StepRaises \/ StepEscapes \/ GatherRaises
             \/ GatherEscapes \/ ExceptionDone
  <2>1. pc' \in {"returned", "escaped"}
    BY <1>2 DEF ConditionRaises, StepRaises, StepEscapes, GatherRaises, GatherEscapes,
                ExceptionDone, Escape, CatchException, Return, Goto
  <2>2. pc' # "wait" /\ pc' \notin {"start", "next", "saving"} /\ ~Going'
    BY <2>1 DEF Going
  <2> QED
    BY <2>2 DEF Verdicts
<1>3. CASE StartStep
  BY <1>3 DEF StartStep, AtUnit, Goto, walk, answer, Verdicts, Going
<1>4. CASE StartGroup
  BY <1>4 DEF StartGroup, AtUnit, Unit, Group, Goto, answer, Verdicts, Going
<1>5. CASE StepReturns
  <2>1. <<ResultOf(Unit.step)>> \in Seq(ResultType)
    BY <1>5, UnitType DEF StepReturns, ResultOf, ResultType, Answered, TypeOK
  <2>2. StepsOf(Unit) \subseteq StepsIn(<<ResultOf(Unit.step)>>)
    BY <1>5 DEF StepReturns, TypeOK, StepsOf, StepsIn, ResultOf
  <2> QED
    BY <1>5, <2>1, <2>2, UnitDoneVerdicts DEF StepReturns, TypeOK, Going
<1>6. CASE Gathered
  <2>1. /\ ResultsOf(Unit.steps) \in Seq(ResultType)
        /\ StepsIn(ResultsOf(Unit.steps)) = Group
    BY <1>6, UnitType, ResultsOfAnswered DEF Gathered, Group, TypeOK
  <2>2. StepsOf(Unit) = Group
    BY <1>6 DEF Gathered, TypeOK, StepsOf, Group
  <2> QED
    BY <1>6, <2>1, <2>2, UnitDoneVerdicts DEF Gathered, TypeOK, Going
<1>7. CASE NoFailureDone
  <2>1. PICK o \in Orders(Done) : acc' = acc \o ResultsOf(o)
    BY <1>7 DEF NoFailureDone
  <2>2. o \in Seq(Steps) /\ Range(o) = Done
    BY OrderType DEF Done, TypeOK
  <2>3. ResultsOf(o) \in Seq(ResultType) /\ StepsIn(ResultsOf(o)) = Done
    BY <1>7, <2>2, ResultsOfAnswered DEF NoFailureDone, Answered
  <2>4. /\ HasFailure(acc) => HasFailure(acc')
        /\ StepsIn(acc') = StepsIn(acc) \cup Done
    BY <2>1, <2>3, ConcatResults DEF TypeOK
  <2>5. StepsOfAll(todo) = Group \cup StepsOfAll(Tail(todo))
    BY <1>7, StepsOfHead DEF NoFailureDone, TypeOK, Unit, Group, StepsOf
  <2>6. ~HasFailure(acc) => Group \subseteq StepsIn(acc') \cup pending'
    BY <1>7, <2>4 DEF NoFailureDone, Verdicts
  <2>7. CASE pending' = {}
    BY <1>7, <2>4, <2>5, <2>6, <2>7
    DEF NoFailureDone, Goto, Verdicts, Going, answer
  <2>8. CASE pending' # {}
    BY <1>7, <2>4, <2>6, <2>8
    DEF NoFailureDone, Verdicts, Going, answer, Unit, Group
  <2> QED
    BY <2>7, <2>8
<1>8. CASE FailureDone
  <2>1. PICK f \in Done, S \in SUBSET {s \in Done : task[s] \in {"success", "skipped"}} :
          /\ task[f] = "failed"
          /\ \E o \in Orders(S) : acc' = acc \o ResultsOf(o) \o <<ResultOf(f)>>
    BY <1>8 DEF FailureDone
  <2>2. HasFailure(acc')
    BY <2>1, FailureRecorded
  <2> QED
    BY <1>8, <2>2 DEF FailureDone, Goto, Verdicts, Going, answer
<1> QED
  BY <1>1, <1>2, <1>3, <1>4, <1>5, <1>6, <1>7, <1>8 DEF Execute

\* So does every step.
LEMMA NextVerdicts == TypeOK /\ Verdicts /\ [Next]_vars => Verdicts'
<1> SUFFICES ASSUME TypeOK, Verdicts, [Next]_vars PROVE Verdicts'
  OBVIOUS
<1>1. CASE Coroutine
  BY <1>1, LoopVerdicts, ExecuteVerdicts DEF Coroutine
<1>2. CASE UNCHANGED vars \/ Cancel \/ \E s \in Steps : Task(s)
  BY <1>2 DEF vars, walk, answer, taskVars, external, Cancel, Task, TaskStarts, TaskEnds,
              Verdicts, Going, Unit, Group
<1>3. CASE GlobalTimeout
  BY <1>3 DEF GlobalTimeout, walk, answer, Goto, Verdicts, Going
<1> QED
  BY <1>1, <1>2, <1>3 DEF Next, Terminated
\* The verdict is accounted for in every state.
LEMMA VerdictsHold == Spec => []Verdicts
<1>1. Init => Verdicts
  BY EmptyResults DEF Init, Verdicts, Going
<1> QED
  BY <1>1, NextVerdicts, TypeCorrect, PTL DEF Spec

\* What the answer of a pipeline that has returned means.
Answers == SuccessMeansAll /\ FailureHasCause /\ StatusAgrees

\* Every way to return gives a right answer.
LEMMA LoopAnswers == TypeOK /\ Verdicts /\ Loop => Answers'
<1> SUFFICES ASSUME TypeOK, Verdicts, Loop PROVE Answers'
  OBVIOUS
<1> USE DEF Answers, SuccessMeansAll, FailureHasCause, StatusAgrees, walk, answer,
            taskVars, external, Goto, Return, CatchException
<1>1. CASE Start \/ NextElement \/ Save \/ ReportAll
  BY <1>1 DEF Start, NextElement, Save, ReportAll
<1>2. CASE CancelledBreak \/ CallbackRaises \/ SaveRaises
  BY <1>2 DEF CancelledBreak, CallbackRaises, SaveRaises
<1>3. CASE AllDone
  <2>1. /\ verdict = IF HasFailure(results) THEN "failed" ELSE "running"
        /\ acc = <<>> /\ todo = <<>>
        /\ ~HasFailure(results) => promised \subseteq StepsIn(results)
    BY <1>3, EmptyResults DEF AllDone, Verdicts, Going
  <2>2. \A i \in DOMAIN results : results[i].status \in {"success", "failed", "skipped"}
    <3>1. results \in Seq(ResultType) /\ DOMAIN results = 1..Len(results)
      BY LenProperties DEF TypeOK
    <3>2. \A i \in DOMAIN results : results[i] \in ResultType
      BY <3>1, ElementOfSeq
    <3> QED
      BY <3>2 DEF ResultType
  <2>3. CASE HasFailure(results)
    BY <1>3, <2>1, <2>3 DEF AllDone, FinalVerdict, FinalStatus, HasFailure, IsFailed
  <2>4. CASE ~HasFailure(results)
    BY <1>3, <2>1, <2>2, <2>4 DEF AllDone, FinalVerdict, FinalStatus, HasFailure, IsFailed
  <2> QED
    BY <2>3, <2>4
<1>4. CASE ReportFailure
  <2>1. PICK i \in Failures : results' = results \o SubSeq(acc, 1, i)
    BY <1>4 DEF ReportFailure
  <2>2. /\ i \in 1..Len(acc) /\ acc[i].status = "failed"
        /\ Len(acc) \in Nat /\ DOMAIN acc = 1..Len(acc)
        /\ \A j \in 1..i : acc[j] \in ResultType
    BY LenProperties, ElementOfSeq DEF Failures, IsFailed, TypeOK
  <2>3. /\ SubSeq(acc, 1, i) \in Seq(ResultType)
        /\ Len(SubSeq(acc, 1, i)) = i /\ SubSeq(acc, 1, i)[i] = acc[i]
    <3>1. i \in Int /\ 1 \in Int /\ 1 <= i /\ i - 1 + 1 = i /\ 1 + i - 1 = i
      BY <2>2
    <3> QED
      BY <2>2, <3>1, SubSeqProperties
  <2>4. HasFailure(SubSeq(acc, 1, i))
    <3>1. i \in DOMAIN SubSeq(acc, 1, i)
      BY <2>2, <2>3, LenProperties
    <3> QED
      BY <2>2, <2>3, <3>1 DEF HasFailure, IsFailed
  <2>5. HasFailure(results')
    BY <2>1, <2>3, <2>4, ConcatResults DEF TypeOK
  <2> QED
    BY <1>4, <2>5 DEF ReportFailure, HasFailure, IsFailed
<1> QED
  BY <1>1, <1>2, <1>3, <1>4 DEF Loop

\* Other moves of the coroutine return no answer, or a right one.
LEMMA ExecuteAnswers == Execute => Answers'
<1> SUFFICES ASSUME Execute PROVE Answers'
  OBVIOUS
<1> USE DEF Answers, SuccessMeansAll, FailureHasCause, StatusAgrees, Goto, Return,
            CatchException, Escape
<1>1. CASE ConditionRaises \/ StepRaises \/ GatherRaises \/ ExceptionDone
  BY <1>1 DEF ConditionRaises, StepRaises, GatherRaises, ExceptionDone
<1>2. CASE TakeArm \/ StartStep \/ StartGroup
  BY <1>2 DEF TakeArm, AtUnit, StartStep, StartGroup
<1>3. CASE StepReturns \/ StepEscapes \/ Gathered \/ GatherEscapes
  BY <1>3 DEF StepReturns, StepEscapes, Gathered, GatherEscapes, UnitDone
<1>4. CASE NoFailureDone
  BY <1>4 DEF NoFailureDone
<1>5. CASE FailureDone
  BY <1>5 DEF FailureDone
<1> QED
  BY <1>1, <1>2, <1>3, <1>4, <1>5 DEF Execute

\* No step makes an answer wrong.
LEMMA NextAnswers == TypeOK /\ Verdicts /\ Answers /\ [Next]_vars => Answers'
<1> SUFFICES ASSUME TypeOK, Verdicts, Answers, [Next]_vars PROVE Answers'
  OBVIOUS
<1>1. CASE Coroutine
  BY <1>1, LoopAnswers, ExecuteAnswers DEF Coroutine
<1>2. CASE UNCHANGED vars \/ Cancel \/ GlobalTimeout \/ \E s \in Steps : Task(s)
  BY <1>2 DEF vars, walk, answer, taskVars, external, Cancel, GlobalTimeout, Goto, Task,
              TaskStarts, TaskEnds, Answers, SuccessMeansAll, FailureHasCause,
              StatusAgrees
<1> QED
  BY <1>1, <1>2 DEF Next, Terminated

\* Every answer is right.
LEMMA AnswersHold == Spec => []Answers
<1>1. Init => Answers
  BY DEF Init, Answers, SuccessMeansAll, FailureHasCause, StatusAgrees
<1> QED
  BY <1>1, NextAnswers, TypeCorrect, VerdictsHold, PTL DEF Spec

\* SUCCESS means that every element was executed, and every step of those and of
\* the arms taken has a result, none of them a failure.
THEOREM SuccessMeansAllHolds == Spec => []SuccessMeansAll
<1>1. Answers => SuccessMeansAll
  BY DEF Answers
<1> QED
  BY <1>1, AnswersHold, PTL

\* FAILED means a failed step in the results, an exception, or a cancel() before
\* the last element.
THEOREM FailureHasCauseHolds == Spec => []FailureHasCause
<1>1. Answers => FailureHasCause
  BY DEF Answers
<1> QED
  BY <1>1, AnswersHold, PTL

\* The status property agrees with the result, unless cancel() overwrote it.
THEOREM StatusAgreesHolds == Spec => []StatusAgrees
<1>1. Answers => StatusAgrees
  BY DEF Answers
<1> QED
  BY <1>1, AnswersHold, PTL

-----------------------------------------------------------------------------
(* Fail-fast pipelines. *)

\* In a fail-fast pipeline, as long as no failure is among the results of the
\* current element, only steps that are awaited can have failed, or still fail:
\* the tasks that a group leaves running come with a failure.
FailuresAwaited ==
  pipeline.failFast /\ Going /\ ~HasFailure(acc) =>
    \A s \in Steps : task[s] \in InFlight \cup {"failed"} => s \in Awaited

\* The coroutine drops no task whose failure it must still see.
LEMMA ExecuteFailuresAwaited ==
  TypeOK /\ FailuresAwaited /\ Execute => FailuresAwaited'
<1> SUFFICES ASSUME TypeOK, FailuresAwaited, Execute, pipeline.failFast', Going',
                    ~HasFailure(acc'), NEW s \in Steps,
                    task'[s] \in InFlight \cup {"failed"}
             PROVE  s \in Awaited'
  BY DEF FailuresAwaited
<1>1. CASE ConditionRaises \/ StepRaises \/ StepEscapes \/ GatherRaises
             \/ GatherEscapes \/ ExceptionDone
  BY <1>1 DEF ConditionRaises, StepRaises, StepEscapes, GatherRaises, GatherEscapes,
              ExceptionDone, Escape, CatchException, Return, Goto, Going
<1>2. CASE TakeArm
  BY <1>2 DEF TakeArm, AtUnit, taskVars, FailuresAwaited, Going, Awaited, InFlight
<1>3. CASE StartStep \/ StartGroup
  BY <1>3 DEF StartStep, StartGroup, AtUnit, Goto, walk, FailuresAwaited, Going, Awaited,
              InFlight, Unit, Group, TypeOK
<1>4. ASSUME NEW rs \in Seq(ResultType), UnitDone(rs)
      PROVE  ~HasFailure(acc) /\ ~HasFailure(rs)
  BY <1>4, ConcatResults DEF UnitDone, TypeOK
<1>5. CASE StepReturns
  <2>1. <<ResultOf(Unit.step)>> \in Seq(ResultType)
    BY <1>5, UnitType DEF StepReturns, ResultOf, ResultType, Answered, TypeOK
  <2>2. ~HasFailure(acc) /\ ~HasFailure(<<ResultOf(Unit.step)>>)
    BY <1>4, <1>5, <2>1 DEF StepReturns
  <2>3. task[Unit.step] \in {"success", "skipped"}
    BY <1>5, <2>2 DEF StepReturns, HasFailure, IsFailed, ResultOf, Answered
  <2> QED
    BY <1>5, <2>2, <2>3 DEF StepReturns, taskVars, FailuresAwaited, Going, Awaited,
                            InFlight
<1>6. CASE Gathered
  <2>1. /\ ResultsOf(Unit.steps) \in Seq(ResultType)
        /\ HasFailure(ResultsOf(Unit.steps)) <=> \E t \in Group : task[t] = "failed"
    BY <1>6, UnitType, ResultsOfAnswered DEF Gathered, Group, TypeOK
  <2>2. ~HasFailure(acc) /\ ~HasFailure(ResultsOf(Unit.steps))
    BY <1>4, <1>6, <2>1 DEF Gathered
  <2>3. \A t \in Group : task[t] \in {"success", "skipped"}
    BY <1>6, <2>1, <2>2 DEF Gathered, Answered
  <2> QED
    BY <1>6, <2>2, <2>3 DEF Gathered, taskVars, FailuresAwaited, Going, Awaited, InFlight
<1>7. CASE NoFailureDone
  <2>1. PICK o \in Orders(Done) : acc' = acc \o ResultsOf(o)
    BY <1>7 DEF NoFailureDone
  <2>2. o \in Seq(Steps) /\ Range(o) = Done
    BY OrderType DEF Done, TypeOK
  <2>3. ResultsOf(o) \in Seq(ResultType)
    BY <1>7, <2>2, ResultsOfAnswered DEF NoFailureDone, Answered
  <2>4. ~HasFailure(acc)
    BY <2>1, <2>3, ConcatResults DEF TypeOK
  <2>5. s \in pending'
    BY <1>7, <2>4 DEF NoFailureDone, taskVars, FailuresAwaited, Going, Awaited, InFlight
  <2> QED
    BY <1>7, <2>5 DEF NoFailureDone, Awaited, Goto
<1>8. CASE FailureDone
  <2>1. PICK f \in Done, S \in SUBSET {t \in Done : task[t] \in {"success", "skipped"}} :
          /\ task[f] = "failed"
          /\ \E o \in Orders(S) : acc' = acc \o ResultsOf(o) \o <<ResultOf(f)>>
    BY <1>8 DEF FailureDone
  <2>2. HasFailure(acc')
    BY <2>1, FailureRecorded
  <2> QED
    BY <2>2
<1> QED
  BY <1>1, <1>2, <1>3, <1>5, <1>6, <1>7, <1>8 DEF Execute

\* Nor does any other step.
LEMMA NextFailuresAwaited ==
  TypeOK /\ Verdicts /\ FailuresAwaited /\ [Next]_vars => FailuresAwaited'
<1> SUFFICES ASSUME TypeOK, Verdicts, FailuresAwaited, [Next]_vars PROVE FailuresAwaited'
  OBVIOUS
<1> USE DEF FailuresAwaited, Going, Awaited, InFlight, Unit, Group, walk, answer,
            taskVars, external, Goto, Return, CatchException
<1>1. CASE Start \/ NextElement \/ CancelledBreak \/ AllDone \/ ReportFailure
             \/ CallbackRaises \/ Save \/ SaveRaises
  BY <1>1 DEF Start, NextElement, CancelledBreak, AllDone, ReportFailure,
              CallbackRaises, Save, SaveRaises
<1>2. CASE ReportAll
  <2>1. pipeline.failFast => ~HasFailure(acc)
    BY <1>2 DEF ReportAll, Failures, HasFailure
  <2> QED
    BY <1>2, <2>1 DEF ReportAll, ElementDone
<1>3. CASE Execute
  BY <1>3, ExecuteFailuresAwaited
<1>4. ASSUME NEW s \in Steps, Task(s) PROVE FailuresAwaited'
  BY <1>4 DEF Task, TaskStarts, TaskEnds, TypeOK
<1>5. CASE UNCHANGED vars \/ Cancel
  BY <1>5 DEF vars, Cancel
<1>6. CASE GlobalTimeout
  BY <1>6 DEF GlobalTimeout
<1> QED
  BY <1>1, <1>2, <1>3, <1>4, <1>5, <1>6 DEF Next, Coroutine, Loop, Terminated

\* When a fail-fast pipeline goes on to its next element, no step has failed.
THEOREM StopsAtFirstFailureHolds == Spec => []StopsAtFirstFailure
<1>1. Init => FailuresAwaited
  BY DEF Init, FailuresAwaited, InFlight
<1>2. FailuresAwaited /\ Verdicts => StopsAtFirstFailure
  BY EmptyResults
  DEF FailuresAwaited, Verdicts, Going, Awaited, InFlight, StopsAtFirstFailure
<1> QED
  BY <1>1, <1>2, NextFailuresAwaited, TypeCorrect, VerdictsHold, PTL DEF Spec

-----------------------------------------------------------------------------
(* Nothing is awaited in vain.  `below` maps an element to the steps in it and *)
(* in the elements of its arms.                                                *)

\* No step is in two of these elements.
Apart(below, es) ==
  \A i, j \in DOMAIN es : i # j => below[es[i]] \cap below[es[j]] = {}

\* A step occurs once in a pipeline, or in one place of either arm of a branch.
Once(below) ==
  /\ below \in [Elements -> SUBSET Steps]
  /\ \A e \in Elements :
       /\ StepsOf(e) \subseteq below[e]
       /\ e.kind = "branch" => \A arm \in {e.then, e.else} :
            /\ Apart(below, arm)
            /\ \A i \in DOMAIN arm : below[arm[i]] \subseteq below[e]
  /\ \A p \in Pipelines : Apart(below, p.elements)

Untouched(s) == task[s] = "none" /\ s \notin cancelling

\* The elements of the pipeline that the loop has not begun.
Later == (position + 1)..Len(pipeline.elements)

\* What is still to be executed has never been started, and does not overlap.
Fresh(below) ==
  /\ Apart(below, todo)
  /\ \A i \in DOMAIN todo : i > 1 \/ pc = "unit" =>
       \A s \in below[todo[i]] : Untouched(s)
  /\ \A j \in Later :
       /\ \A s \in below[pipeline.elements[j]] : Untouched(s)
       /\ \A i \in DOMAIN todo : below[todo[i]] \cap below[pipeline.elements[j]] = {}

Alive == InFlight \cup Answered \cup {"raised"}

\* What the coroutine waits for has been started, and ends it: a step returns,
\* raises or is cancelled; a child of gather() or a task of wait() that nobody
\* cancelled returns or raises; wait() is never called for no task.  A task
\* that queues for the semaphore of its group is one of the last group's.
NeverStuck ==
  /\ pc = "single" => task[Unit.step] \in {"running"} \cup Ended
  /\ pc = "gather" => \A s \in Group : s \notin cancelling /\ task[s] \in Alive
  /\ pc = "interrupted" => \A s \in Group : task[s] \in InFlight \cup Ended
  /\ pc = "wait" => pending # {} /\ \A s \in pending : s \notin cancelling /\ task[s] \in Alive
  /\ \A s \in Steps : task[s] = "queued" /\ s \notin cancelling =>
       todo # <<>> /\ Unit.kind = "group" /\ s \in Group

\* A group has been left by the tasks that asyncio.wait no longer waits for.
WaitedFor == pc = "wait" => \A s \in Group \ pending : task[s] \in Ended

\* The first of some elements, and the others.
LEMMA TailElements ==
  ASSUME NEW es \in Seq(Elements), es # <<>>
  PROVE  /\ 1 \in DOMAIN es /\ es[1] = Head(es)
         /\ \A i \in DOMAIN Tail(es) :
              i + 1 \in DOMAIN es /\ i + 1 > 1 /\ Tail(es)[i] = es[i + 1]
<1>1. /\ Len(es) \in Nat \ {0} /\ DOMAIN es = 1..Len(es)
      /\ Len(Tail(es)) = Len(es) - 1 /\ DOMAIN Tail(es) = 1..(Len(es) - 1)
      /\ \A i \in 1..(Len(es) - 1) : Tail(es)[i] = es[i + 1]
  BY LenProperties, EmptySeq, HeadTailProperties
<1> QED
  BY <1>1

\* An element of two sequences is one of either.
LEMMA ConcatElements ==
  ASSUME NEW es \in Seq(Elements), NEW fs \in Seq(Elements), NEW i \in DOMAIN (es \o fs)
  PROVE  \/ i \in DOMAIN es /\ (es \o fs)[i] = es[i]
         \/ \E j \in DOMAIN fs : i = Len(es) + j /\ (es \o fs)[i] = fs[j]
<1>1. /\ Len(es) \in Nat /\ Len(fs) \in Nat
      /\ DOMAIN es = 1..Len(es) /\ DOMAIN fs = 1..Len(fs)
      /\ DOMAIN (es \o fs) = 1..(Len(es) + Len(fs))
      /\ \A j \in 1..Len(es) : (es \o fs)[j] = es[j]
      /\ \A j \in 1..Len(fs) : (es \o fs)[Len(es) + j] = fs[j]
  BY LenProperties, ConcatProperties
<1>2. CASE i <= Len(es)
  BY <1>1, <1>2
<1>3. CASE i > Len(es)
  <2>1. i - Len(es) \in DOMAIN fs /\ i = Len(es) + (i - Len(es))
    BY <1>1, <1>3
  <2> QED
    BY <1>1, <2>1
<1> QED
  BY <1>1, <1>2, <1>3

\* What is left stays fresh while the coroutine executes its current unit, or is
\* done with it.
LEMMA FreshKept ==
  ASSUME NEW below, TypeOK, Fresh(below),
         UNCHANGED <<pipeline, position>>,
         \/ todo' = todo /\ (pc' = "unit" => pc = "unit")
         \/ todo # <<>> /\ todo' \in {<<>>, Tail(todo)},
         \A s \in Steps : Untouched(s) => Untouched(s)',
         below \in [Elements -> SUBSET Steps]
  PROVE  Fresh(below)'
<1>1. todo \in Seq(Elements) /\ pipeline.elements \in Seq(Elements)
  BY PipelineFacts DEF TypeOK
<1>2. \A i \in DOMAIN todo : below[todo[i]] \subseteq Steps
  BY <1>1, LenProperties, ElementOfSeq
<1>3. \A j \in Later : below[pipeline.elements[j]] \subseteq Steps
  <2>1. position \in Nat /\ Len(pipeline.elements) \in Nat
    BY <1>1, LenProperties DEF TypeOK
  <2> QED
    BY <1>1, <2>1, ElementOfSeq DEF Later
<1>4. CASE todo' = todo /\ (pc' = "unit" => pc = "unit")
  BY <1>2, <1>3, <1>4 DEF Fresh, Apart, Later
<1>5. CASE todo # <<>> /\ todo' = Tail(todo)
  <2>1. \A i \in DOMAIN todo' :
          i + 1 \in DOMAIN todo /\ i + 1 > 1 /\ todo'[i] = todo[i + 1]
    BY <1>1, <1>5, TailElements
  <2>2. Apart(below, todo')
    <3>1. DOMAIN todo' \subseteq Nat
      BY <1>1, <1>5, HeadTailProperties, LenProperties
    <3>2. ASSUME NEW i \in DOMAIN todo', NEW j \in DOMAIN todo', i # j
          PROVE  below[todo'[i]] \cap below[todo'[j]] = {}
      <4>1. i + 1 # j + 1
        BY <3>1, <3>2
      <4>2. below[todo[i + 1]] \cap below[todo[j + 1]] = {}
        BY <2>1, <4>1 DEF Fresh, Apart
      <4> QED
        BY <2>1, <4>2
    <3> QED
      BY <3>2 DEF Apart
  <2>3. ASSUME NEW i \in DOMAIN todo', NEW s \in below[todo'[i]] PROVE Untouched(s)'
    BY <1>2, <2>1, <2>3 DEF Fresh
  <2>4. \A j \in Later : \A i \in DOMAIN todo' :
          below[todo'[i]] \cap below[pipeline.elements[j]] = {}
    BY <2>1 DEF Fresh
  <2> QED
    BY <1>3, <2>2, <2>3, <2>4 DEF Fresh, Later, Apart
<1>6. CASE todo' = <<>>
  BY <1>3, <1>6 DEF Fresh, Later, Apart
<1> QED
  BY <1>4, <1>5, <1>6

\* The coroutine takes only what is fresh.
LEMMA NextFresh ==
  ASSUME NEW below, Once(below), TypeOK, Verdicts, Fresh(below), NeverStuck, [Next]_vars
  PROVE  Fresh(below)'
<1>1. todo \in Seq(Elements) /\ pipeline.elements \in Seq(Elements)
      /\ below \in [Elements -> SUBSET Steps]
  BY PipelineFacts DEF TypeOK, Once
<1>2. position \in Nat /\ Len(pipeline.elements) \in Nat
      /\ DOMAIN pipeline.elements = 1..Len(pipeline.elements)
  BY <1>1, LenProperties DEF TypeOK
<1>3. ASSUME todo' = todo, pc' = "unit" => pc = "unit", UNCHANGED <<pipeline, position>>,
             \A s \in Steps : Untouched(s) => Untouched(s)'
      PROVE  Fresh(below)'
  BY <1>1, <1>3, FreshKept
<1>4. ASSUME todo # <<>>, todo' \in {<<>>, Tail(todo)}, UNCHANGED <<pipeline, position>>,
             \A s \in Steps : Untouched(s) => Untouched(s)'
      PROVE  Fresh(below)'
  BY <1>1, <1>4, FreshKept
<1> USE DEF walk, answer, taskVars, external, Goto, Return, CatchException, Escape
<1>5. CASE Start \/ CancelledBreak \/ AllDone \/ ReportAll \/ ReportFailure
             \/ CallbackRaises \/ Save \/ SaveRaises
  BY <1>3, <1>5 DEF Start, CancelledBreak, AllDone, ReportAll, ReportFailure,
                    CallbackRaises, Save, SaveRaises, Untouched
<1>6. CASE ConditionRaises \/ StepRaises \/ StepEscapes \/ GatherRaises
             \/ GatherEscapes \/ ExceptionDone
  BY <1>3, <1>6 DEF ConditionRaises, StepRaises, StepEscapes, GatherRaises,
                    GatherEscapes, ExceptionDone, Untouched
<1>7. CASE StepReturns \/ Gathered
  BY <1>4, <1>7 DEF StepReturns, Gathered, UnitDone, Untouched, TypeOK
<1>8. CASE NoFailureDone
  <2>1. todo # <<>> /\ ((todo' = todo /\ pc' = pc) \/ todo' = Tail(todo))
    BY <1>8 DEF NoFailureDone, TypeOK
  <2> QED
    BY <1>3, <1>4, <1>8, <2>1 DEF NoFailureDone, Untouched
<1>9. CASE FailureDone
  <2>1. todo # <<>> /\ \A s \in pending : ~Untouched(s)
    BY <1>9 DEF FailureDone, TypeOK, NeverStuck, Alive, InFlight, Answered, Untouched
  <2> QED
    BY <1>4, <1>9, <2>1 DEF FailureDone, ToCancel, Untouched
<1>10. CASE NextElement
  <2> DEFINE e == pipeline.elements[position + 1]
  <2>1. /\ todo' = <<e>> /\ position' = position + 1 /\ position + 1 \in Later
        /\ UNCHANGED <<pipeline, task, cancelling>>
    BY <1>2, <1>10 DEF NextElement, Later
  <2>2. DOMAIN todo' = {1} /\ todo'[1] = e
    BY <2>1
  <2>3. Later' \subseteq Later /\ position + 1 \notin Later'
    BY <1>2, <2>1 DEF Later
  <2>4. \A j \in Later' : below[e] \cap below[pipeline.elements[j]] = {}
    <3>1. Apart(below, pipeline.elements)
      BY DEF Once, TypeOK
    <3>2. Later \subseteq DOMAIN pipeline.elements
      BY <1>2 DEF Later
    <3> QED
      BY <2>1, <2>3, <3>1, <3>2 DEF Apart
  <2>5. \A j \in Later : \A s \in below[pipeline.elements[j]] : Untouched(s)'
    BY <2>1 DEF Fresh, Untouched
  <2>6. (\A j \in Later : \A s \in below[pipeline.elements[j]] : Untouched(s))'
    BY <2>1, <2>3, <2>5
  <2>7. Apart(below, todo')
    BY <2>2 DEF Apart
  <2> QED
    BY <2>1, <2>2, <2>4, <2>5, <2>6, <2>7 DEF Fresh, Apart
<1>11. CASE TakeArm
  <2>1. PICK arm \in {Unit.then, Unit.else} : todo' = arm \o Tail(todo)
    BY <1>11 DEF TakeArm
  <2>2. /\ todo # <<>> /\ Unit.kind = "branch" /\ pc = "unit"
        /\ UNCHANGED <<pipeline, pc, position, task, cancelling>>
    BY <1>11 DEF TakeArm, AtUnit
  <2>3. Unit \in Elements /\ arm \in Seq(Elements) /\ Tail(todo) \in Seq(Elements)
    BY <2>2, UnitType, ElementType
  <2>4. /\ Apart(below, arm)
        /\ \A i \in DOMAIN arm : below[arm[i]] \subseteq below[Unit]
    BY <2>2, <2>3 DEF Once
  <2>5. /\ 1 \in DOMAIN todo /\ todo[1] = Unit
        /\ \A i \in DOMAIN Tail(todo) :
             i + 1 \in DOMAIN todo /\ i + 1 > 1 /\ Tail(todo)[i] = todo[i + 1]
    BY <1>1, <2>2, TailElements DEF Unit
  <2>6. ASSUME NEW i \in DOMAIN todo'
        PROVE  \/ i \in DOMAIN arm /\ todo'[i] = arm[i]
               \/ \E k \in DOMAIN Tail(todo) : i = Len(arm) + k /\ todo'[i] = todo[k + 1]
    BY <2>1, <2>3, <2>5, ConcatElements
  <2>7. ASSUME NEW i \in DOMAIN todo'
        PROVE  \E k \in DOMAIN todo : below[todo'[i]] \subseteq below[todo[k]]
    BY <2>4, <2>5, <2>6
  <2>8. Apart(below, todo')
    <3>1. SUFFICES ASSUME NEW i \in DOMAIN todo', NEW j \in DOMAIN todo', i # j
                   PROVE  below[todo'[i]] \cap below[todo'[j]] = {}
      BY DEF Apart
    <3>2. CASE i \in DOMAIN arm /\ todo'[i] = arm[i] /\ j \in DOMAIN arm /\ todo'[j] = arm[j]
      BY <2>4, <3>1, <3>2 DEF Apart
    <3>3. ASSUME NEW a \in DOMAIN arm, NEW k \in DOMAIN Tail(todo)
          PROVE  below[arm[a]] \cap below[todo[k + 1]] = {}
      <4>1. k + 1 \in DOMAIN todo /\ 1 # k + 1 /\ 1 \in DOMAIN todo /\ todo[1] = Unit
        <5>1. k \in Nat
          BY <2>3, LenProperties
        <5> QED
          BY <2>5, <5>1
      <4>2. below[todo[1]] \cap below[todo[k + 1]] = {}
        BY <4>1 DEF Fresh, Apart
      <4> QED
        BY <2>4, <4>1, <4>2
    <3>4. ASSUME NEW k \in DOMAIN Tail(todo), NEW l \in DOMAIN Tail(todo), k # l
          PROVE  below[todo[k + 1]] \cap below[todo[l + 1]] = {}
      <4>1. k \in Nat /\ l \in Nat
        BY <2>3, LenProperties
      <4>2. k + 1 \in DOMAIN todo /\ l + 1 \in DOMAIN todo /\ k + 1 # l + 1
        BY <2>5, <3>4, <4>1
      <4> QED
        BY <4>2 DEF Fresh, Apart
    <3>5. CASE i \in DOMAIN arm /\ todo'[i] = arm[i]
      <4>1. ASSUME NEW k \in DOMAIN Tail(todo), todo'[j] = todo[k + 1]
            PROVE  below[todo'[i]] \cap below[todo'[j]] = {}
        BY <3>3, <3>5, <4>1
      <4> QED
        BY <2>6, <3>2, <3>5, <4>1
    <3>6. ASSUME NEW k \in DOMAIN Tail(todo), i = Len(arm) + k, todo'[i] = todo[k + 1]
          PROVE  below[todo'[i]] \cap below[todo'[j]] = {}
      <4>1. CASE j \in DOMAIN arm /\ todo'[j] = arm[j]
        BY <3>3, <3>6, <4>1
      <4>2. ASSUME NEW l \in DOMAIN Tail(todo), j = Len(arm) + l, todo'[j] = todo[l + 1]
            PROVE  below[todo'[i]] \cap below[todo'[j]] = {}
        <5>1. k # l
          BY <3>1, <3>6, <4>2
        <5> QED
          BY <3>4, <3>6, <4>2, <5>1
      <4> QED
        BY <2>6, <4>1, <4>2
    <3> QED
      BY <2>6, <3>5, <3>6
  <2>9. ASSUME NEW i \in DOMAIN todo', NEW s \in below[todo'[i]] PROVE Untouched(s)'
    <3>1. Untouched(s)
      BY <2>2, <2>7, <2>9 DEF Fresh
    <3> QED
      BY <2>2, <3>1 DEF Untouched
  <2>10. \A j \in Later : \A i \in DOMAIN todo' :
           below[todo'[i]] \cap below[pipeline.elements[j]] = {}
    BY <2>7 DEF Fresh
  <2>11. \A j \in Later : \A s \in below[pipeline.elements[j]] : Untouched(s)'
    BY <2>2 DEF Fresh, Untouched
  <2> QED
    BY <2>2, <2>8, <2>9, <2>10, <2>11 DEF Fresh, Later, Apart
<1>12. CASE StartStep \/ StartGroup
  <2>1. /\ todo # <<>> /\ pc' # "unit"
        /\ UNCHANGED <<pipeline, position, todo, cancelling>>
        /\ \A s \in Steps \ StepsOf(Unit) : task'[s] = task[s]
    BY <1>12 DEF StartStep, StartGroup, AtUnit, StepsOf, Group, Unit, TypeOK
  <2>2. Unit \in Elements /\ 1 \in DOMAIN todo /\ todo[1] = Unit
    BY <1>1, <2>1, TailElements, UnitType DEF Unit
  <2>3. StepsOf(Unit) \subseteq below[todo[1]]
    BY <2>2 DEF Once
  <2>4. \A i \in DOMAIN todo : todo[i] \in Elements /\ i \in Nat
    BY <1>1, LenProperties, ElementOfSeq
  <2>5. ASSUME NEW i \in DOMAIN todo, i > 1, NEW s \in below[todo[i]] PROVE Untouched(s)'
    <3>1. Untouched(s) /\ s \in Steps
      BY <1>1, <2>4, <2>5 DEF Fresh
    <3>2. s \notin below[todo[1]]
      BY <2>2, <2>4, <2>5 DEF Fresh, Apart
    <3> QED
      BY <2>1, <2>3, <3>1, <3>2 DEF Untouched
  <2>6. ASSUME NEW j \in Later, NEW s \in below[pipeline.elements[j]] PROVE Untouched(s)'
    <3>1. pipeline.elements[j] \in Elements
      BY <1>1, <1>2, ElementOfSeq DEF Later
    <3>2. Untouched(s) /\ s \in Steps /\ s \notin below[todo[1]]
      BY <1>1, <2>2, <2>6, <3>1 DEF Fresh
    <3> QED
      BY <2>1, <2>3, <3>2 DEF Untouched
  <2> QED
    BY <2>1, <2>5, <2>6 DEF Fresh, Later, Apart
<1>13. ASSUME NEW t \in Steps, Task(t) PROVE Fresh(below)'
  <2>1. \A s \in Steps : Untouched(s) => Untouched(s)'
    BY <1>13 DEF Task, TaskStarts, TaskEnds, Untouched, InFlight, TypeOK
  <2> QED
    BY <1>3, <1>13, <2>1 DEF Task, TaskStarts, TaskEnds
<1>14. CASE UNCHANGED vars \/ Cancel
  BY <1>3, <1>14 DEF vars, Cancel, Untouched
<1>15. CASE GlobalTimeout
  <2>1. \A s \in cancelling' \ cancelling : task[s] # "none"
    BY <1>15 DEF GlobalTimeout, Suspended, InFlight
  <2>2. todo' = todo /\ pc' # "unit" /\ UNCHANGED <<pipeline, position, task>>
    BY <1>15 DEF GlobalTimeout
  <2> QED
    BY <1>3, <2>1, <2>2 DEF Untouched
<1> QED
  BY <1>5, <1>6, <1>7, <1>8, <1>9, <1>10, <1>11, <1>12, <1>13, <1>14, <1>15
  DEF Next, Coroutine, Loop, Execute, Terminated

\* Nor is anything awaited in vain.
LEMMA NextNeverStuck ==
  ASSUME NEW below, Once(below), TypeOK, Verdicts, Fresh(below), NeverStuck, WaitedFor,
         [Next]_vars
  PROVE  (NeverStuck /\ WaitedFor)'
<1>1. ASSUME todo # <<>>, pc = "unit", Unit.kind # "branch"
      PROVE  \A s \in StepsOf(Unit) : s \in Steps /\ Untouched(s)
  <2>1. Unit \in Elements /\ 1 \in DOMAIN todo /\ todo[1] = Unit
    BY <1>1, TailElements, UnitType DEF Unit, TypeOK
  <2> QED
    BY <1>1, <2>1 DEF Once, Fresh
<1> USE DEF NeverStuck, WaitedFor, Alive, InFlight, Answered, Ended, Unit, Group,
            walk, answer, taskVars, external, Goto, Return, CatchException, Escape
<1>2. CASE Start \/ NextElement \/ CancelledBreak \/ AllDone \/ ReportAll \/ ReportFailure
             \/ CallbackRaises \/ Save \/ SaveRaises
  BY <1>2 DEF Start, NextElement, CancelledBreak, AllDone, ReportAll, ReportFailure,
              CallbackRaises, Save, SaveRaises, ElementDone, Verdicts
<1>3. CASE ConditionRaises \/ StepRaises \/ StepEscapes \/ GatherRaises
             \/ GatherEscapes \/ ExceptionDone
  BY <1>3 DEF ConditionRaises, StepRaises, StepEscapes, GatherRaises, GatherEscapes,
              ExceptionDone
<1>4. CASE TakeArm
  BY <1>4 DEF TakeArm, AtUnit
<1>5. CASE StartStep
  <2>1. todo # <<>> /\ Unit.kind = "step" /\ pc = "unit" /\ Unit.step \in Steps
    BY <1>5, UnitType DEF StartStep, AtUnit
  <2> QED
    BY <1>5, <2>1 DEF StartStep, TypeOK
<1>6. CASE StartGroup
  <2>1. /\ todo # <<>> /\ pc = "unit" /\ Unit.kind = "group" /\ StepsOf(Unit) = Group
    BY <1>6 DEF StartGroup, AtUnit, StepsOf
  <2>2. Unit.steps \in Seq(Steps) \ {<<>>}
    BY <2>1, UnitType, ElementType
  <2>3. Group # {}
    <3>1. 1 \in DOMAIN Unit.steps
      BY <2>2, LenProperties, EmptySeq
    <3>2. Unit.steps[1] \in Range(Unit.steps)
      BY <3>1, Zenon DEF Range
    <3> QED
      BY <3>2
  <2> QED
    BY <1>1, <1>6, <2>1, <2>3 DEF StartGroup, Untouched, TypeOK
<1>7. CASE StepReturns \/ Gathered
  BY <1>7 DEF StepReturns, Gathered, UnitDone, TypeOK
<1>8. CASE NoFailureDone
  BY <1>8 DEF NoFailureDone, Done, TypeOK
<1>9. CASE FailureDone
  BY <1>9 DEF FailureDone, ToCancel, Done, TypeOK
<1>10. ASSUME NEW s \in Steps, Task(s) PROVE (NeverStuck /\ WaitedFor)'
  <2>1. UNCHANGED <<pc, todo, pending, cancelling>>
    BY <1>10 DEF Task, TaskStarts, TaskEnds
  <2>2. /\ pc = "single" => Unit.step \in Steps
        /\ pc \in {"gather", "interrupted", "wait"} => Group \subseteq Steps
    BY UnitType DEF TypeOK
  <2>3. /\ \A t \in Steps \ {s} : task'[t] = task[t]
        /\ \/ task[s] = "queued" /\ task'[s] = "running" /\ s \notin cancelling
           \/ task[s] = "running" /\ task'[s] \in Answered \cup {"raised"}
           \/ task[s] \in InFlight /\ s \in cancelling /\ task'[s] = "cancelled"
    BY <1>10 DEF Task, TaskStarts, TaskEnds, TypeOK
  <2>4. pc = "single" /\ task[Unit.step] \in {"running"} \cup Ended =>
          task'[Unit.step] \in {"running"} \cup Ended
    BY <2>2, <2>3
  <2>5. \A t \in Steps : /\ t \notin cancelling /\ task[t] \in Alive => task'[t] \in Alive
                         /\ task[t] \in Ended => task'[t] \in Ended
                         /\ task[t] \in InFlight \cup Ended => task'[t] \in InFlight \cup Ended
                         /\ task'[t] = "queued" => task[t] = "queued"
    BY <2>3
  <2> QED
    BY <2>1, <2>2, <2>4, <2>5 DEF TypeOK
<1>11. CASE UNCHANGED vars \/ Cancel
  BY <1>11 DEF vars, Cancel
<1>12. CASE GlobalTimeout
  BY <1>12 DEF GlobalTimeout, Suspended
<1> QED
  BY <1>2, <1>3, <1>4, <1>5, <1>6, <1>7, <1>8, <1>9, <1>10, <1>11, <1>12
  DEF Next, Coroutine, Loop, Execute, Terminated

\* If a step occurs once in a pipeline, execute() never waits for what cannot
\* end: the safety half of PipelineEnds.
THEOREM NeverStuckHolds ==
  ASSUME NEW CONSTANT below, Once(below)
  PROVE  Spec => []NeverStuck
<1>1. Init => Fresh(below) /\ NeverStuck /\ WaitedFor
  <2> SUFFICES ASSUME Init PROVE Fresh(below) /\ NeverStuck /\ WaitedFor
    OBVIOUS
  <2>1. DOMAIN todo = {}
    BY DEF Init
  <2>2. \A j \in Later : \A s \in below[pipeline.elements[j]] : Untouched(s)
    <3>1. \A j \in Later : pipeline.elements[j] \in Elements
      BY PipelineFacts, LenProperties, ElementOfSeq DEF Init, Later
    <3> QED
      BY <3>1 DEF Init, Once, Untouched
  <2> QED
    BY <2>1, <2>2 DEF Init, Fresh, Apart, NeverStuck, WaitedFor
<1>2. TypeOK /\ Verdicts /\ Fresh(below) /\ NeverStuck /\ WaitedFor /\ [Next]_vars
        => (Fresh(below) /\ NeverStuck /\ WaitedFor)'
  BY NextFresh, NextNeverStuck
<1> QED
  BY <1>1, <1>2, TypeCorrect, VerdictsHold, PTL DEF Spec
=============================================================================
