------------------------------ MODULE StepTask ------------------------------
(***************************************************************************)
(* What the schedulers rely on when they await StepExecutor.execute: the   *)
(* task of a step skips it, or runs its function and ends with success, a  *)
(* failure or an exception, and the step tracking of the context tells a   *)
(* dependent's should_run exactly that.  DAGExecutor.tla has the same      *)
(* transitions as its Task actions; StepExecutor.tla implements them.      *)
(***************************************************************************)
CONSTANT Calls

VARIABLES
  task,      \* progress of each call
  complete,  \* calls whose step is in ctx.completed_steps
  failed     \* calls whose step is in ctx.failed_steps

vars == <<task, complete, failed>>

Init ==
  /\ task = [c \in Calls |-> "starting"]
  /\ complete = {}
  /\ failed = {}

Moves(c, from, to) == task[c] \in from /\ task' = [task EXCEPT ![c] = to]

Run(c)  == Moves(c, {"starting"}, "body") /\ UNCHANGED <<complete, failed>>
Skip(c) == Moves(c, {"starting"}, "skipped") /\ UNCHANGED <<complete, failed>>

Succeed(c) ==
  /\ Moves(c, {"body"}, "success")
  /\ complete' = complete \cup {c}
  /\ UNCHANGED failed

\* Some failures leave no mark in ctx.failed_steps, and a step without a
\* function fails at once.
Fail(c) ==
  /\ Moves(c, {"starting", "body"}, "failed")
  /\ failed' \in {failed, failed \cup {c}}
  /\ UNCHANGED complete

Raise(c) == Moves(c, {"starting", "body"}, "raised") /\ UNCHANGED <<complete, failed>>

Step(c) == Run(c) \/ Skip(c) \/ Succeed(c) \/ Fail(c) \/ Raise(c)

Next == \E c \in Calls : Step(c)

\* A task that has begun ends.
Spec == Init /\ [][Next]_vars /\ \A c \in Calls : WF_vars(Step(c))
=============================================================================
