# A verification project for the agentic workflow runtime

The repository is a runtime for multi-step workflows whose steps call language
models and tools. This directory holds TLA+ models of its core, the TLC
configurations that check them, and proofs for the TLA+ proof system. Paths
below are relative to `agentic-workflows-v2/agentic_v2/` unless they say
otherwise.

## 1. Inventory

Everything in the runtime is asyncio: one thread, any number of coroutines,
and a switch at every `await` that suspends. The hard behaviours come from
what other tasks do at such a point, from cancellations that are thrown there,
and from state that outlives a call.

| Component | State | Operations | Interacts with | Correct when |
|---|---|---|---|---|
| DAG (`engine/dag.py`) | steps by name | add, validate, execution order, ready steps | read by the executor | validate rejects exactly dangling and cyclic graphs; the order is topological |
| DAG executor (`engine/dag_executor.py`, `step_state.py`) | per call: ready deque, running, in-degrees, results, state manager | execute, and its tasks | step executor (await), context (shared lists), `on_update` (callback) | order of dependencies, concurrency limit, exact failure propagation, truthful verdict, termination |
| Step executor (`engine/step.py`) | `_running_tasks`, shared by all calls | execute, cancel, cancel_all | context marks, the step's function, hooks, verification, expressions | attempts bounded, context agrees with the result, cancel reaches every body |
| Execution context (`engine/context.py`) | variables, completed/failed steps, handlers, children, checkpoints; one process-wide instance | set/get, marks, emit, save/restore | every executor | marks tell the truth about this run |
| Native engine, checkpoint store (`adapters/native/`) | SQLite rows per thread and step; writes in flight | execute, resume, write, read, clear | DAG executor through `on_update` | rows are truthful; a resumed run repeats nothing finished |
| Pipeline (`engine/pipeline.py`) | status, cancelled flag, results | execute, groups, branches, cancel | step executor | order, fail-fast, cancellation is final |
| Workflow executor (`engine/executor.py`) | history, cancelled flag, current context | execute with a global timeout, cancel | DAG executor, pipeline | time-outs and cancellation leave nothing behind |
| Circuit breaker (`models/model_stats.py`) | circuit state, counters, cooldown, deadline, persisted form | record_*, check_circuit, to/from_dict | router | an open circuit rests for its recovery time; only successes while it is half open close it |
| Router (`models/smart_router.py`, `router.py`, `rate_limit_tracker.py`) | statistics and their file, unavailable models, semaphores, probe locks | selection with cross-tier degradation, call_with_fallback, record_* | client, breaker | one probe at a time, nobody queues behind it, others fall back (of which the code keeps the second, see section 4); the file never forgets an open circuit |
| LLM client (`models/client.py`) | token budget, response cache | complete, complete_stream | router, backends | budget respected; a call is finite |
| Run events (`server/websocket.py`, `execution.py`, `routes/runs.py`) | connections, replay buffers, SSE queues | connect, broadcast, replay, stream | executor's `on_update` | each viewer sees events once, in causal order, without gaps, and the end |
| MCP (`integrations/mcp/`) | pending requests, table of connections and its lock, auth suppression, cache of tools | request, connect, force_new, disconnect, discover, tool calls | transports, external server | nobody waits for ever; one tracked client per server; the cache follows changes |
| Loader, expressions, verification, agents, tools, RAG, LangChain adapter, server scoring, evaluation package, CLI, UI | mostly none that outlives a call | conversions, I/O, text | called by the above | not modelled; see section 7 |

The hazards, each at its line, are in `PROJECT.json`. The ones that shaped the
modules: several tasks that end in one batch while `on_update` suspends the
executor between recording a result and acting on it; in-degrees counted by
hand while a cascade removes steps; cancellation at any await of a step,
including the one inside `mark_step_complete`; a registry keyed by step name;
retries and loop iterations on one budget; a context that survives a run;
checkpoint writes nobody awaits, and crashes between them; outcomes of model
calls that arrive after the circuit changed; a budget tested before an await and
charged after it; answers, errors, time-outs and closures that race for one MCP
request; broadcasts, replays and disconnections that interleave at every send.

## 2. Modules

```
WorkflowRun (abstract) <-- implemented by -- DAGExecutor --> DAG <-- DagAlgorithms
                                              ^      ^
                          CheckpointResume ---+      +-- DAGExecutorProofs
                                 ^                            ^
                      CheckpointResumeProofs -------> DAGVerdictProofs

StepTask (abstract) <-- implemented by -- StepExecutor <-- StepExecutorProofs
                                          Pipeline     <-- PipelineProofs
CircuitBreaker <-- SmartRouter <-- LLMClient           <-- LLMClientProofs
                   McpClient   <-- McpRuntime          <-- McpRuntimeProofs
EventLog (abstract) <-- implemented by -- RunEvents    <-- RunEventsProofs
```

An arrow `A <-- B` reads "B extends A". Modules whose names begin with MC give
the values of the constants for TLC; those that end with Proofs hold the
theorems. The definitions called "faulty variants" in a module are not part of
the model. Each has a plausible bug in the place of one decision of the code;
with it substituted, the property named in `PROJECT.json` fails.

**DAG** is the workflow graph: `Valid`, `Dependents`, and `ReachableFrom`, what
the breadth-first walk of `cascade_skip` visits. Transitive notions are stated
by closed sets, not recursion, so that proofs can use them. **DagAlgorithms**
has the algorithms of `dag.py` themselves: the three-colour search, Kahn's order
and `get_ready_steps`. An assumption of MCDAGExecutor compares them with DAG.

**DAGExecutor** is one call of `execute()`. `pc` is the executor coroutine,
`task[s]` the asyncio task of a step; the other variables are the locals of
`_run_dag` and the context's lists. An action is what the event loop runs
between two awaits, or one turn of a loop without awaits. Recording a result
(`RecordResult`) and acting on it (`ApplyFailure`, `ApplyUnlock`) are separate
because `on_update` is awaited between them; an exception of a task
(`HandleException`) is handled without an await and is one action. `Abort` is
`on_update` raising or a cancellation: the spawned tasks go on. `completed`,
`tasks` and `skipped` are functions of the other variables, and the deque is a
set, which adds orders of scheduling. A repeated entry in `depends_on` counts
and is decremented twice in the code, so a set of dependencies is the same.

**WorkflowRun** is what a run promises, whatever schedules it: statuses that
settle once, starts only after the dependencies, skips only below a failure,
the limit, the verdict.

**StepExecutor** is `StepExecutor.execute` for several calls that share an
executor. `pc[c]` names the await at which a call is suspended, `body[c]` the
asyncio task of the step's function. A timeout, `cancel_all` and a cancelled
caller all act through `task.cancel()` on the body; `TimeoutError` and
`CancelledError` end the step the same way and are one outcome, "stopped".
`AfterCancel` gives, for every other await, what a `CancelledError` thrown
there does: inside the retry loop it becomes a failure, elsewhere (pre-hooks,
back-off, error hooks, recording of a failure) it leaves `execute`.

**StepTask** is the abstraction of it that DAGExecutor's task actions use.
(DAGExecutor takes the failure of a step without function in two steps, start
and failure, StepTask in one.)

**CheckpointResume** adds checkpoint writes, their failure and loss, crashes at
any point, and `resume` to the runs of DAGExecutor.

**Pipeline** is one call of `PipelineExecutor.execute` and the global timeout
that `WorkflowExecutor` puts around it. `pc` names the await of the coroutine:
a single step, `asyncio.gather`, `asyncio.wait`, `save_checkpoint`. `task[s]` is
the execution of a step, a task of its own in a group. `todo` is what the current
element still has to execute: a branch is replaced by its arm, so that nested
branches need no recursion, and a failure empties it. `results` and `acc` are
the results recorded and those of the current element. `asyncio.wait` returns a
*set*, so the order in which a batch is handled is any of `Orders`. A group that
fails fast leaves tasks behind, which `cancelling` remembers: cancelling them is
a request, which a step may answer with a result. `GlobalTimeout` does what one
`CancelledError` does at each of these awaits. A step occurs once in a pipeline,
so `task` and `cancelling` can be indexed by it. `promised`, `saved` and
`timedOut` are history, used by properties only.

**CircuitBreaker** is `ModelStats` as operators on a record: the circuit, its
failure and probe counters, whether the recovery time is over and whether a
cooldown runs. Fields that decide nothing in a state of the circuit keep their
first value. **SmartRouter** is selection and `call_with_fallback` for
concurrent callers. Selection, readiness check and start of a call have no
await between them and are one action; who holds the bulkhead and the probe
lock follows from the router's calls in flight. `turns` counts the turns of
`for _ in range(max_retries)`, apart from `tried`. Every `record_*` also writes the file,
which a restart reads. **LLMClient** adds the callers of `complete` and
`complete_stream`, which share the statistics but take neither lock, with the
cache and the token budget. A setup says what each caller calls, so that one run
has every mix.

**McpClient** has every protocol client ever made, indexed by connection, since
a replaced one lives on. `stage[r]` is the caller of a request, `future[r]` what
it awaits: the read loop resolves the future in one step and the caller resumes
in another, so that a time-out, a cancellation or a closure may come between. A
message of the server is chosen when it is read. **McpRuntime** adds the manager
of one server name: callers that queue for the lock, make a connection, shake
hands, back off or close, and may be cancelled at each await; the discovery of
tools with its cache; and tool calls whose adapter has a time-out of its own.

**RunEvents** is a run as its viewers see it. `main` is the background task of
the run, `task[s]` that of a step. Each emitter awaits its own broadcast
(`sending`) over a copy of the list of connections, so several are under way at
once. The list and the copy are counted per connection, and a broadcast sends to
its connections in any order: more orders than the code's one. `history` holds the accepted events and `event_buffers`
is its end. `socket[w]` is a WebSocket endpoint with its replay, `stream[l]` an
SSE request with its queue. `got` is what a viewer was sent.

**EventLog** is what the hub promises whatever lies between: one log, from which
each viewer is told one event at a time, none twice and none after an event that
had to wait for it, and neither the log nor what was told is taken back.

## 3. Runs

| Run | Instance | Shows |
|---|---|---|
| `dag_safety` | 4 steps; all acyclic graphs, cycles of every length, a dangling dependency; limits 0, 1, 3; context empty or holding any set of completed steps; aborts | all invariants and action properties of DAGExecutor |
| `dag_refines` | 3 steps, fair | every run ends with its tasks; DAGExecutor implements WorkflowRun |
| `step_safety` | 2 calls, different names, 1 retry, loop of 0 or 2, gate and timer on or off, cancellations everywhere | types, context agreement, registry, causes of failures, no rerun once complete |
| `step_implements` | 1 call, 0 to 2 retries, loop of 0, 1, 2 or 4, fair | calls end; StepExecutor implements StepTask |
| `resume_safety` | 2 steps, 2 runs, limits 1 and 2, aborts, crashes, fair | rows are truthful; successes are written unless a write fails or dies |
| `resume_skips` | the same | **violated**: finding 1 |
| `pipeline` | 4 steps; 52 pipelines of two or three elements, checkpoints off or every 2 steps, global timeout, cancel, fair | no stray steps, truthful verdicts, fail-fast; a pipeline ends with its tasks. (Its types, `StatusAgrees` and `CheckpointLag` are proved and in no run.) |
| `llm_client` | 2 callers (two of the router over two tiers or over a model with one slot; client and router, two clients, or client and stream over one model), thresholds 2 and 2, budget 3, restarts | breaker, what closes a circuit, rest of open circuits, file, queues of `call_with_fallback`, budget |
| `mcp` | 4 setups of up to three callers (connect, force_new, disconnect), a discovery and a tool call, one change of the tools, fair | nobody is forgotten, no client untracked, table of requests exact; calls end |
| `mcp_stale_tools` | the same | **violated**: finding 2 |
| `run_events` | runs of 1 or 2 concurrent steps; a late connection and a stream, two connections, or one viewer of a run where any stage raises; buffer of 3, fair | causal order, no gaps, hub exact; streams end; RunEvents implements EventLog |
| `events_untold` | the same | **violated**: finding 3 |

Both runs of DAGExecutor also evaluate `AlgorithmsChecked`: for *every* graph
over their steps (65536 with four), the search finds a cycle exactly if there is
one and reports a real one; Kahn's order of an acyclic graph has every step once,
after its dependencies, each among `get_ready_steps` at its turn; no complete
order comes of a cyclic graph; and as long as steps are left some step is ready.

**Bounds.** Three steps hold a chain, a fork, a join, and a failure with a
dependent and an independent step; four add the diamond and two failures with a
common descendant. With limits below the number of steps the
ready deque waits; limit 0 is the boundary the executor treats as a deadlock.
Two calls suffice for every pairwise interleaving of the registry, the only
state step executions share; one retry and a loop of two let a retry, a loop
turn and the last attempt occur in each order, and `step_implements` varies
them more widely. Two runs are one resume; a resumed context with any set of
completed steps is also an initial context of `dag_safety`. The symmetry of
`dag_safety` permutes steps; the sets of graphs and contexts are
closed under it and no liveness is checked there.

The pipelines hold each kind of element before another
one, alone in its effects: a group of two (with one slot or no limit) between
steps, a group of three with one or two slots before a step, so that a slot is
waited for twice and a fail-fast group can leave a cancelled task beside the
next element, a branch with a group, and a branch in a branch.

With thresholds of two a circuit has a failure that does not open it and a probe
that does not close it. Two models share a provider with two slots, and so its
probe lock, and the two tiers degrade into each other; the third has a provider
with one slot, so that two callers compete for its bulkhead. A budget of three
with prompts of one and totals of two or three admits a call, then refuses one,
by the estimate or only afterwards. Statistics and the file make the state space
of the router large; the client, which adds the budget and the cache, is
therefore checked over one model. Three callers of the manager are two that
connect and one that disconnects, or one that replaces. `MaxChanges` bounds the
notifications of changed tools, `MaxBuffer` the replay, which at three is
shorter than the history of a run. Every setup is one initial state of its run.

**Deadlock** is checked in every run but those of McpRuntime and RunEvents:
their callers and viewers make one call each, after which the system may stop.
`Terminated` and `AllDone` are the legitimate ends elsewhere.

**Fairness.** `FairSpec` of DAGExecutor assumes that the event loop runs every
runnable coroutine (weak fairness of the executor and of each task) and that
the functions of steps end; nothing is assumed of aborts. StepExecutor assumes
the same of calls and bodies, nothing of time-outs and cancellations.
CheckpointResume adds that worker threads end, with success or failure.
Pipeline assumes weak fairness of the coroutine and of the task of each step,
nothing of `cancel`, the timeout, or which outcome a step has; a task that
waits for a slot is only runnable while one is free, and weak fairness is
enough because finitely many tasks compete for it.
LLMClient assumes no fairness: it has safety properties only.
McpRuntime assumes weak fairness of what the event loop and its timers run, and
that servers read their input in the end (the send of a handshake or a discovery
is awaited without a time-out). A caller at the lock is only sometimes enabled;
asyncio hands a lock on in order, which is strong fairness of `Enter`. Of a tool
call only the adapter's own time-out is assumed.
RunEvents assumes that the run's tasks and the open streams are run and that a
send ends: the server pings its peers and closes a connection that does not
answer.

## 4. Findings

1. `adapters/native/engine.py:202`: restored steps are executed again. Neither
   `should_run` nor the executor asks whether the step itself is complete. The
   test of `resume` (`tests/test_native_engine_checkpoint.py:193-196`) mocks a
   step executor that does.
2. `integrations/mcp/discovery/tools.py:83`: the answer to `tools/list` is cached
   after an await. A notification that the list has changed, read between the
   answer and the resumption of its caller, finds nothing to invalidate, and the
   old list is cached.
3. `server/execution.py:534`: a run that fails broadcasts an `error` event, which
   `broadcast` refuses because `ExecutionEvent` has no such member; a connected
   viewer never gets a final event. The `step_end` of a step that returned early
   has no duration and is refused in the same way, which fails the run.

Places where code and comments differ that the models follow as the code has
them, without a run of their own:

- *DAG*: an order "insertion-order" "among steps at the same topological depth"
  (`engine/dag.py:191`) is that of their last dependencies; `get_ready_steps` is
  not used by DAGExecutor (230).
- *DAG executor*: without a context the process-wide one is used
  (`engine/dag_executor.py:90`, against 71), with the failures of earlier runs.
- *Step executor*: the registry is keyed by step name (`engine/step.py:468`);
  loop turns consume the attempts of the retry policy (280, against 101-102), so
  that a long loop ends FAILED without an error; `cancel_all` misses a step in
  its hooks or its back-off (487).
- *Pipeline*: a failure ends a branch even if the pipeline is not fail-fast
  (`engine/pipeline.py:366`); a group whose step raises ends before its other
  steps (49-50); `cancel()` is only seen between top-level elements; after the
  global timeout (`engine/executor.py:250`, against 62) tasks of a fail-fast
  group still start steps.
- *Client*: with `enable_cache=False` no cache key is computed and every answer
  ends as "All models failed" (`models/client.py:366`, against 291).
- *Router*, against "Only one request at a time should probe a HALF_OPEN provider;
  all others receive immediate fallback" (ADR-002(D),
  `docs/adr/ADR-001-002-003-architecture-decisions.md:102`) and "half-open
  serialization" (`models/smart_router.py:95`): only `call_with_fallback` takes
  the probe lock. `complete` and `complete_stream` (`models/client.py:348`, 435)
  share its circuits and not its locks, so a half-open provider may be probed by
  two calls of the client at once, or by one beside the router's. And a model
  found busy stays the best candidate (`models/smart_router.py:496`), so that the
  next turn selects it again, finds it tried (490) and reports that all models
  failed, with ready ones untried. The actions of the client and `Busy` have
  both; `NobodyQueues` speaks of neither. What races of probes may do to the
  circuit is bounded by `ClosedByProbes` and `BreakerConsistent`.
- *MCP*: a second handshake after the back-off starts the same transport again,
  which raises, so no retry ever succeeds (`integrations/mcp/runtime/manager.py:249`);
  a client whose connection died is handed out as connected (159-161); cancelled
  requests stay in the table (`integrations/mcp/protocol/client.py:185`).
- *Events*: `workflow_start` and `workflow_end` are emitted twice, by the engine
  (`engine/dag_executor.py:121`, 300) and by the server (`server/execution.py`),
  against "Emitted once" (`docs/api-contracts-runtime.md:628`), and a stream ends
  at the first; a connection that gets a live event during its replay fails, as
  the deque changes under the iteration (`server/websocket.py:113`, against
  `docs/architecture-runtime.md:374`); a stream has no replay
  (`docs/api-contracts-runtime.md:487`); one stalled connection holds up the run
  (`server/websocket.py:149`).

## 5. Proofs

The eight Proofs modules are checked by TLAPS with the SMT solver, Zenon and
LS4. They use the named assumptions of the modules only: finitely many steps,
limits in `Nat`, graphs over `Names`, calls with names and settings of the
stated types, pipelines over steps, groups and branches of any size and nesting,
any models, tiers, callers, thresholds and budgets, any connections and requests,
any runs, viewers and size of the replay buffer (the server is not a step, and no
connection is a stream).

*DAG executor* (DAGExecutorProofs). `DependencyOrder` is not inductive: the step
that makes a dependent ready only looks at a counter. `IInv` therefore says what
the counter means,
`inDegree[s] = Cardinality(deps[s] \ Applied)` for a step without result, where
`Applied` are the passed steps whose dependents have been unlocked; the step
under announcement (`cur`) is recorded but not applied, which is why the two
halves of the handling are separate actions. Lemmas on `ReachableFrom` give that
a cascade contains no recorded step (`CascadeFresh`), is closed
(`CascadeClosed`) and lies below its start (`CascadeBelow`). Since a dependent of
an unapplied step has a positive in-degree, no spawned step is ever skipped by a
cascade. `RunningSound` ties `running` to the tasks, and the concurrency bound
to its size.

*Verdicts* (DAGVerdictProofs). `Account` adds what every recorded result stands
for: its task's outcome, or a cascade or the deadlock branch if it has no task
(`ResultSound`); the status follows the failed results (`OverallSound`); below a
failure that was acted on everything direct is skipped, and what is skipped so
lies below a failure (`CascadeSound`); an unspawned step without unapplied
dependencies is ready (`ReadySound`). From it follow `VerdictCorrect`,
`FailureContained`, `ResultsFinal` and the legality of every change of a step's
state. `NoFalseDeadlock` is where the validated graph matters: if the deadlock
branch is reached with steps left, acyclicity gives one among them without an
open dependency; it is ready by `ReadySound`, so that the deque was not empty,
unless there is no slot at all. `NoSpuriousSkip` assumes `NoneFailedBefore`: no
initial context lists a step of the workflow as failed. Fresh and resumed contexts
satisfy it; the process-wide context need not.

*Refinement of WorkflowRun* (DAGVerdictProofs). A step is active while it is
in `running` and settled when it has a result; the verdict is out when the call
returned. Each action that records something maps to one action of WorkflowRun:
a task that raised fails its step with its cascade at once, a failed result first
settles and its cascade is skipped in a step of its own, as a caller that
watches `on_update` sees it. The deadlock branch needs `NoSlotNoTask`.

*A run is finite* (DAGVerdictProofs). `Work` counts what a run can still do:
what is left of each step's task, of its result (to be recorded, to be acted on),
and of the loop's turn (`Rank`). No step of the model raises it and each one
lowers it (`WorkShrinks`), from at most ten per workflow step and eight
(`RunsAreFinite`). What `RunEnds` needs besides fairness
is that an unfinished run always has a step to take; the case that could go wrong
is `WaitsForTasksHolds`: `asyncio.wait` is never called for no task, nor for one
that nothing executes. The conclusion takes ENABLED and is left to TLC. On the way,
`ReadyUnrecorded` shows that the test for a recorded result in the scheduling
loop (`engine/dag_executor.py:194`) never finds one.

*Checkpoints* (CheckpointResumeProofs). A step of the thread is a step of the
executor or a resume, and a resume begins a run as `execute` does with a context
without failures. So the executor's invariants and its account hold in every
resumed run (`EveryRunHolds`, `ResumedRunsHold`), whatever crashed before;
`CheckpointsTruthful` is inductive with `HistorySound`, which knows that a task
that succeeded is in the history before its row is launched. `LaunchedHolds` is
the safety half of `SuccessesPersist`: a recorded success is a row, or a write in
flight, or a write that failed or died, unless its announcement has not returned
yet; a run that returned has none of those.

*Step executor.* `TypeCorrect` bounds the attempts. `ContextAgrees` and
`CompleteIsFinal` follow from `Marks`, what the context holds at each await.
`RegistryHolds` assumes different step names, and `FailuresHaveCause` assumes
`loop_max <= max_retries + 1`, which the divergences above show to be needed; its
invariant is that, as long as nothing has gone
wrong, every body is one iteration. `Implements` proves the safety part of the
refinement of StepTask when no caller cancels a step's task, as in DAGExecutor.
Two theorems need no condition on names or settings. `NothingStaleHolds`: an entry of
`_running_tasks` belongs to a call of that name which awaits its body, so that
`cancel` never acts on a body that was left behind. `CallsAreFinite`: a call takes
at most `7 * max_retries + 12` steps, however often it is interrupted; `Work`
counts the attempts left and what is ahead of the current await.

*Pipeline.* All safety properties of the run `pipeline` are theorems.
`CheckpointLag` follows from `Lag`: the counter is the number of results since
the last checkpoint. `NoStray` is inductive together with the types.
`SuccessMeansAll` is not: it speaks of the end only. `Verdicts` says what holds on
the way: the verdict is that of the recorded results, and, as long as no failure
was met, every promised step has a result in `results` or `acc`, or is among the
steps of `todo`, or, inside a fail-fast group, is pending. It rests on lemmas
about the steps of a concatenation and of head and tail (`StepsOfConcat`,
`StepsOfHead`, `ConcatResults`). From it, each way to return gives a right answer
(`LoopAnswers`). `StopsAtFirstFailure` needs `FailuresAwaited`: in a fail-fast
pipeline whose current element has no failed result so far, a step that runs or
has failed is one the coroutine still awaits, so its failure will be seen.
`NeverStuckHolds` is the safety half of `PipelineEnds`: whatever the coroutine
awaits was started and ends the await, a child of `gather` that nobody cancelled
is not found cancelled, `asyncio.wait` is not called for no task, and a task that
queues for a semaphore is one of the last group's. Here it matters that a step
occurs once in a pipeline; `Once` says so by a function `below` from elements to
the steps in and below them, which every finite nesting has. Its invariant
`Fresh` is that what is still ahead, in `todo` and in the pipeline, was never
started and does not overlap.

*Router and client* (LLMClientProofs). Every action changes the statistics by
operators of the breaker (`StatsSteps`), which keep them sound and in agreement
with the file. `NobodyQueues` speaks of the calls that `call_with_fallback` admits,
not of those it turns away nor of the client's (section 4). It is
inductive because the readiness check and the start are one step, and because a
call is a probe only if it began half open.
`RefusalHasCause` needs `Budget`: as long as nothing excuses a refusal, a
client's call in flight can still afford twice its prompt. `OpenCircuitRests` is an action
property: what a search may choose is ready by its own checks (`SelectableIsReady`).
So is `ClosedByProbes`, for which a restart needs `FileAgrees`: the file has no
circuit closed that is not closed in memory.
`CallsAreFinite`: a call takes at most `3 * max_retries + 3` steps, since nothing
gives back a turn of the loop.

*MCP* (McpRuntimeProofs). `RequestsSound` relates caller, future and table of
each request, `LockSound` the places of the manager's callers, its lock and its
entry: only the holder is between two awaits of the manager, and a connection
being made is the entry. The three invariants of the run follow. `HolderMoves`
adds that the lock is never held by a caller that has gone, nor by one that waits
for another caller: its holder is spawning, shaking hands, backing off or closing.
`OutcomesFinal` is an action property over late answers, time-outs, reconnects and
disconnects: a future is resolved once, and a call that has ended keeps its
outcome.

*Events* (RunEventsProofs). Three invariants of the run and the refinement of EventLog
rest on one fact, `Awaited`: an event whose broadcast is under way precedes, in
the causal order, nothing the run has emitted, because the emitter of whatever has to
come after it awaits that broadcast. Whichever of the broadcasts, the replay and the
queue reaches a viewer first, the event may still be appended to what it was
told. `TasksInv` and `StagesInv` tie what was emitted to the stage of the run,
`HubInv` the list of connections and the copies of it to the endpoints; `SocketInv`, `ReplayInv`
and `StreamInv` say what a viewer was told and what waits for it, and
`SocketComplete` and `StreamComplete` that nothing else is owed to it. Each step
logs one event, tells one viewer of one, or is invisible (`ImplementsLog`).
`EndIsComingHolds` is the safety half of `StreamsEnd`: the event that ends an
open stream is in its queue, or in a broadcast that will put it there.

*Only model-checked:* liveness (`RunEnds`, `CallsEnd`, `PipelineEnds`,
`SuccessesPersist`, `StreamsEnd`, the fairness of StepTask), which needs ENABLED
(its safety halves are proved, as said above); and the algorithms of
DagAlgorithms, which are recursive.

## 6. Plan

Done, in the order of their importance: the graph, the executor and its abstract
run; the step executor and its abstraction; checkpoints and resumption; the
pipeline; breaker, router and client; MCP client and manager; events of a run;
and the proofs of section 5.

Left, in this order:

1. `WorkflowExecutor`: history, the single step, `cancel()` during a run, and
   what the orphans of an aborted run do to a context that is used again.
2. The handlers and child contexts of `ExecutionContext` (`emit` awaits each
   handler over the live list), and save/restore of its checkpoint files.
3. A measure for a pipeline, which has to sum over nested elements, and one for
   a request of MCP.
4. The router's health checks, the rate limit tracker, and `ScopedRouter`.
5. The resource and prompt discoveries and the WebSocket transport of MCP.

## 7. Not modelled

What a step's function, predicate, hook, check or expression computes is a
nondeterministic answer; outputs, input mappings and variables are data the
properties so far do not tell apart. So are prompts, answers, scores of models
(any eligible candidate may be the best), sizes of results and the wording of
errors. Within modelled parts, these are left out: the buckets of the rate limit
tracker, which the router does not ask; the pruning of the response cache, which
looks like expiry; framing and process signals of the stdio transport; the
stream of events of the LangChain adapter; authentication; `clear_buffer`, which
nothing calls. The loader, agents, tools, RAG, memory, LangChain
adapter, middleware, server scoring, evaluation package, CLI and UI are
conversions, text and I/O with no state shared between concurrent actors, or
adapters of external runtimes. They are most of the repository's lines; the
modules cover the files that schedule, retry, connect and deliver. The native
step executor never reads
`loop_max_expr`, which the loader stores with `loop_max` 0 for it
(`workflows/loader.py:541-543`); the models take `loop_max` as it arrives.
