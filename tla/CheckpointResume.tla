-------------------------- MODULE CheckpointResume --------------------------
(***************************************************************************)
(* NativeEngine.execute and resume for one thread_id                       *)
(* (adapters/native/engine.py) over the CheckpointStore                    *)
(* (adapters/native/_checkpoint_store.py): runs of DAGExecutor whose       *)
(* successful steps are written to SQLite by tasks nobody awaits, crashes  *)
(* of the process, and runs resumed from what was written.                 *)
(*                                                                         *)
(* A row is its step: output_data is left out.  Worker threads write rows  *)
(* in any order.                                                           *)
(***************************************************************************)
EXTENDS DAGExecutor

CONSTANT MaxRuns  \* bound on the calls of execute and resume

ASSUME ResumeAssumption == MaxRuns \in Nat \ {0}

VARIABLES
  runs,       \* calls of execute and resume so far
  store,      \* steps with a "success" row in the database
  writing,    \* rows whose write has been launched and is not over
  restored,   \* steps this run's context was told are complete
  succeeded,  \* history: steps whose task succeeded in some run
  lost        \* history: rows whose write failed, or died with the process

threadVars == <<runs, store, writing, restored, succeeded, lost>>
allVars    == <<vars, threadVars>>

-----------------------------------------------------------------------------
(* Faulty variants of the decisions below, each with one plausible bug.        *)

LaunchedWhateverStatus(s) == {s}
LaunchedNever(s)          == {}  \* status compared with the enum, not its value

-----------------------------------------------------------------------------

\* The wrapped on_update writes a row after a step_end with status success.
Launched(s) == IF task[s] = "success" THEN {s} ELSE {}

\* The completed_steps resume() takes from the rows it reads.
Restored == store

InitThread ==
  /\ Init
  /\ runs = 1
  /\ store = {} /\ writing = {} /\ restored = {}
  /\ succeeded = {} /\ lost = {}

\* A step of the run.  Returning from the announcement of a step_end, the
\* wrapper has launched the write; an original callback that raises (Abort)
\* leaves the wrapper before it does.
RunStep ==
  /\ Next
  /\ writing' = IF pc = "notify" /\ pc' = "handle"
                THEN writing \cup Launched(cur) ELSE writing
  /\ succeeded' = succeeded \cup {s \in Steps : task'[s] = "success"}
  /\ UNCHANGED <<runs, store, restored, lost>>

\* INSERT OR REPLACE commits, or sqlite3 raises and a warning is logged.
WriteDone(s) ==
  /\ s \in writing
  /\ writing' = writing \ {s}
  /\ store' = store \cup {s}
  /\ UNCHANGED <<vars, runs, restored, succeeded, lost>>

WriteFails(s) ==
  /\ s \in writing
  /\ writing' = writing \ {s}
  /\ lost' = lost \cup {s}
  /\ UNCHANGED <<vars, runs, store, restored, succeeded>>

\* resume(): the rows are read into a new context and the workflow executed.
Resume ==
  /\ runs < MaxRuns
  /\ Valid(deps)
  /\ runs' = runs + 1
  /\ restored' = Restored
  /\ NewRun(Restored, {})
  /\ UNCHANGED <<store, succeeded>>

\* In a new process, the old one having died at any point ...
ResumeAfterCrash ==
  /\ Resume
  /\ writing' = {}
  /\ lost' = lost \cup writing

\* ... or in the same process, once the run and its tasks have ended.
ResumeInProcess ==
  /\ pc \in {"returned", "raised"}
  /\ Active = {}
  /\ Resume
  /\ UNCHANGED <<writing, lost>>

NextThread ==
  \/ RunStep \/ ResumeAfterCrash \/ ResumeInProcess
  \/ \E s \in Steps : WriteDone(s) \/ WriteFails(s)

SpecThread == InitThread /\ [][NextThread]_allVars

\* Worker threads end; the event loop runs what is runnable.
FairThread ==
  /\ SpecThread
  /\ WF_allVars(Executor /\ RunStep)
  /\ \A s \in Steps : WF_allVars(StepTask(s) /\ RunStep)
  /\ \A s \in Steps : WF_allVars(WriteDone(s) \/ WriteFails(s))

-----------------------------------------------------------------------------
(* Properties. *)


\* A checkpoint is never invented: what is or may become a row, or is taken
\* for complete by a resumed run, is a step that succeeded in some run of the
\* thread, across crashes and writes that overtake each other.
CheckpointsTruthful == store \cup writing \cup restored \subseteq succeeded

\* Every success of a run that returned gets a row at last, unless its write
\* failed or died with the process (281-299).
SuccessesPersist ==
  \A s \in Steps :
    pc = "returned" /\ results[s] = "success" ~> s \in store \cup lost

\* "already-completed steps are skipped by the DAG executor" (177-178): the
\* function of a step restored from its checkpoint is not called again.
RestoredStepsSkipped ==
  \A s \in restored : task[s] \notin {"body", "success", "failed"}
=============================================================================
