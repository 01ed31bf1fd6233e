---------------------------- MODULE WorkflowRun ----------------------------
(***************************************************************************)
(* What a run of a workflow promises its caller, whatever schedules it:    *)
(* every step is settled exactly once, a step starts only when all its     *)
(* dependencies are settled and none of them has failed, what lies below a *)
(* failed step is skipped, at most `limit` steps are in progress, and the  *)
(* verdict is "failed" exactly when a step failed.  An aborted run keeps   *)
(* what it had settled and starts nothing more.                            *)
(***************************************************************************)
EXTENDS DAG, Integers

CONSTANTS
  Graphs,  \* the workflow graphs
  Limits   \* the concurrency limits

VARIABLES
  deps, limit,  \* parameters of the run
  status,       \* status of each step
  verdict       \* outcome of the run

vars == <<deps, limit, status, verdict>>

Settled == {"success", "failed", "skipped"}

In(st) == {s \in Steps : status[s] = st}

\* s lies below a failed step.
Blocked(s) == \E f \in In("failed") : s \in Descendants(deps, f)

Init ==
  /\ deps \in Graphs
  /\ limit \in Limits
  /\ status = [s \in Steps |-> "waiting"]
  /\ verdict = "open"

\* Give the steps of S the status st.
Assign(S, st) == [s \in Steps |-> IF s \in S THEN st ELSE status[s]]

Start(s) ==
  /\ verdict = "open" /\ Valid(deps)
  /\ status[s] = "waiting"
  /\ \A d \in deps[s] : status[d] \in {"success", "skipped"}
  /\ ~Blocked(s)
  /\ Cardinality(In("active")) < limit
  /\ status' = Assign({s}, "active")
  /\ UNCHANGED <<deps, limit, verdict>>

Settle(s) ==
  /\ verdict = "open"
  /\ status[s] = "active"
  /\ \E st \in Settled : status' = Assign({s}, st)
  /\ UNCHANGED <<deps, limit, verdict>>

\* A failure together with steps below it.
FailAndSkip(s) ==
  /\ verdict = "open"
  /\ status[s] = "active"
  /\ \E S \in SUBSET (In("waiting") \cap Descendants(deps, s)) :
       status' = [Assign(S, "skipped") EXCEPT ![s] = "failed"]
  /\ UNCHANGED <<deps, limit, verdict>>

SkipBlocked ==
  /\ verdict = "open"
  /\ \E S \in SUBSET {s \in In("waiting") : Blocked(s)} :
       status' = Assign(S, "skipped")
  /\ UNCHANGED <<deps, limit, verdict>>

\* A run that may start nothing skips everything.
SkipAll ==
  /\ verdict = "open"
  /\ limit = 0
  /\ status' = Assign(Steps, "skipped")
  /\ UNCHANGED <<deps, limit, verdict>>

Conclude ==
  /\ verdict = "open"
  /\ \A s \in Steps : status[s] \in Settled
  /\ verdict' = IF In("failed") = {} THEN "success" ELSE "failed"
  /\ UNCHANGED <<deps, limit, status>>

Abort ==
  /\ verdict = "open"
  /\ verdict' = "aborted"
  /\ UNCHANGED <<deps, limit, status>>

Next ==
  \/ \E s \in Steps : Start(s) \/ Settle(s) \/ FailAndSkip(s)
  \/ SkipBlocked \/ SkipAll \/ Conclude \/ Abort

Spec == Init /\ [][Next]_vars
=============================================================================
