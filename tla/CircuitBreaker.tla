---------------------------- MODULE CircuitBreaker ----------------------------
(***************************************************************************)
(* The statistics of one model as far as they decide whether it may be     *)
(* called: the circuit breaker and the cooldown of ModelStats              *)
(* (models/model_stats.py), as operators on a record.  Counters, latencies *)
(* and the recent window only weigh in the score of a model, which         *)
(* SmartRouter leaves open.                                                *)
(*                                                                         *)
(* Time is two flags: whether _recovery_timeout_seconds have passed since  *)
(* the last failure, and whether a cooldown is running.  Fields that       *)
(* decide nothing in a state of the circuit are kept at their first value. *)
(***************************************************************************)
EXTENDS Naturals

CONSTANTS
  FailureThreshold,  \* _failure_threshold (5)
  SuccessesRequired  \* _half_open_success_required (2)

ASSUME BreakerAssumption ==
  /\ FailureThreshold \in Nat \ {0}
  /\ SuccessesRequired \in Nat \ {0}

Circuits == {"closed", "open", "half_open"}

Stats == [circuit   : Circuits,
          failures  : 0..FailureThreshold - 1,   \* _consecutive_failures, if closed
          probes    : 0..SuccessesRequired - 1,  \* _half_open_successes, if half open
          recovered : BOOLEAN,                   \* the recovery time is over, unless closed
          cooling   : BOOLEAN]                   \* is_in_cooldown

FreshStats == [circuit |-> "closed", failures |-> 0, probes |-> 0,
               recovered |-> FALSE, cooling |-> FALSE]

-----------------------------------------------------------------------------
(* Faulty variants of Opened and of WithSuccess.                               *)

ReopenedKeepsProbes(st) == [st EXCEPT !.circuit = "open", !.recovered = FALSE]

LateSuccessCloses(st) ==
  IF st.circuit = "closed" THEN [st EXCEPT !.failures = 0]
  ELSE IF st.circuit = "half_open" /\ st.probes + 1 < SuccessesRequired
  THEN [st EXCEPT !.probes = @ + 1]
  ELSE [st EXCEPT !.circuit = "closed", !.probes = 0, !.recovered = FALSE]

-----------------------------------------------------------------------------

\* The circuit opens, or opens again after a failed probe.
Opened(st) == [st EXCEPT !.circuit = "open", !.failures = 0, !.probes = 0,
                         !.recovered = FALSE]

\* record_failure.  A late failure of an open circuit starts its recovery
\* time again.
WithFailure(st) ==
  IF st.circuit = "closed" /\ st.failures + 1 < FailureThreshold
  THEN [st EXCEPT !.failures = @ + 1]
  ELSE Opened(st)

\* record_success
WithSuccess(st) ==
  IF st.circuit # "half_open" THEN [st EXCEPT !.failures = 0]
  ELSE IF st.probes + 1 < SuccessesRequired THEN [st EXCEPT !.probes = @ + 1]
  ELSE [st EXCEPT !.circuit = "closed", !.probes = 0, !.recovered = FALSE]

\* set_cooldown: the last one set counts, a duration of 0 is none.
WithCooldown(st, lasting) == [st EXCEPT !.cooling = lasting]

\* What check_circuit makes of the statistics; it allows a call unless they
\* are still open.
Checked(st) ==
  IF st.circuit = "open" /\ st.recovered THEN [st EXCEPT !.circuit = "half_open"] ELSE st

\* to_dict and from_dict: the counters behind the circuit are not written.
Persisted(st) == [st EXCEPT !.failures = 0, !.probes = 0]

\* Time since the last failure, and the end of a cooldown.
Recovers(st)  == [st EXCEPT !.recovered = TRUE]
CoolsDown(st) == [st EXCEPT !.cooling = FALSE]
=============================================================================
