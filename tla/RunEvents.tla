------------------------------ MODULE RunEvents ------------------------------
(***************************************************************************)
(* The events of one run of the server (server/execution.py, native        *)
(* adapter) and the hub that hands them to its viewers: ConnectionManager  *)
(* and the WebSocket endpoint of server/websocket.py, the SSE stream of    *)
(* server/routes/runs.py.                                                  *)
(*                                                                         *)
(* The run's background task (Server, which is also DAGExecutor's loop)    *)
(* and the tasks of its steps each await their broadcasts, so several      *)
(* broadcasts of a run may be under way at once.  The steps are concurrent *)
(* (no dependency between them).  event_buffers is never cleared by the    *)
(* program, so the buffer is the end of the run's history.                 *)
(*                                                                         *)
(* A list of connections is the number of entries each connection has in   *)
(* it: the order of a broadcast's sends is left open.                      *)
(***************************************************************************)
EXTENDS Naturals, Sequences, Functions

CONSTANTS
  Steps,      \* names of steps
  Sockets,    \* WebSocket connections to the run; each is made once
  Streams,    \* SSE requests for the run; each is made once
  Server,     \* the emitter that is not a step
  MaxBuffer,  \* max_buffer_size
  Setups      \* the runs: their viewers, those that may come late, their steps,
              \* those that return early, evaluation.enabled, and what raises

ASSUME EventsAssumption ==
  /\ MaxBuffer \in Nat \ {0}
  /\ Server \notin Steps \cup {"engine"}
  /\ Sockets \cap Streams = {}
  /\ Setups \subseteq [viewers : SUBSET (Sockets \cup Streams),
                       late : SUBSET (Sockets \cup Streams),
                       steps : SUBSET Steps, early : SUBSET Steps, scored : BOOLEAN,
                       raises : SUBSET {"engine", "reported", "scoring", "logging"}]

VARIABLES
  main,     \* where the background task is
  setup,    \* parameter: the run
  task,     \* what each step's task is doing
  history,  \* the events accepted by broadcast(); event_buffers is its end
  sending,  \* the broadcast each emitter awaits
  conns,    \* connections[run_id]: the entries of each connection
  socket,   \* each WebSocket connection
  stream,   \* each SSE request and its queue; _sse_listeners has the open ones
  got       \* history: what each viewer was sent

runVars  == <<main, setup, task>>
viewVars == <<conns, socket, stream, got>>
vars     == <<runVars, history, sending, viewVars>>

Emitters == Steps \cup {Server}
Viewers  == Sockets \cup Streams

-----------------------------------------------------------------------------
(* Events.  "by" tells the two workflow_start (and workflow_end) events    *)
(* apart and names the step of a step event; "timed" is whether it has a   *)
(* duration_ms, which the result of a step that StepExecutor returns early *)
(* (condition not met, failed pre-hook, blocked verification) has not.     *)

Event(type, by, timed) == [type |-> type, by |-> by, timed |-> timed]

\* ExecutionEvent: the union broadcast() validates against.
WireTypes == {"workflow_start", "step_start", "step_end", "workflow_end",
              "evaluation_start", "evaluation_complete"}

\* validate_event(): duration_ms of a step_end is a float, never None.
Valid(ev) == ev.type \in WireTypes /\ (ev.type = "step_end" => ev.timed)

Events == [type : WireTypes \cup {"error"}, by : Emitters \cup {"engine"}, timed : BOOLEAN]

\* Faulty: only an evaluation ends a stream.
TerminalIfScored == {"evaluation_complete"}

Terminal == {"workflow_end", "evaluation_complete"}

\* The stage of the run an event belongs to.
Stage(ev) ==
  CASE ev.type = "workflow_start" -> IF ev.by = Server THEN 1 ELSE 2
    [] ev.type \in {"step_start", "step_end"} -> 3
    [] ev.type = "workflow_end" -> IF ev.by = Server THEN 5 ELSE 4
    [] ev.type = "evaluation_start" -> 6
    [] OTHER -> 7

\* The run awaits the broadcast of a before it can emit b.
Precedes(a, b) ==
  \/ Stage(a) < Stage(b)
  \/ a.type = "step_start" /\ b.type = "step_end" /\ a.by = b.by

\* Where the buffer begins in history.
Oldest == IF Len(history) > MaxBuffer THEN Len(history) - MaxBuffer + 1 ELSE 1

-----------------------------------------------------------------------------
Nobody == [w \in Sockets |-> 0]

NoBroadcast == [event |-> Event("none", Server, FALSE), todo |-> Nobody, dead |-> Nobody]

\* A broadcast under way: the entries of its snapshot it has yet to send to,
\* and those whose send has failed.
Broadcasts == [event : Events, todo : [Sockets -> Nat], dead : [Sockets -> Nat]]

Free(e) == sending[e] = NoBroadcast

Connections ==
  [at : {"away", "replaying", "live", "gone", "left"},
   from : Nat \ {0}, next : Nat \ {0}, seen : Nat]

Requests == [at : {"away", "open", "closed"}, from : Nat \ {0}, queue : Seq(Events)]

TypeOK ==
  /\ main \in {"begin", "engine", "steps", "reported", "judging", "scoring",
               "logging", "failing", "finished", "died"}
  /\ setup \in Setups
  /\ task \in [Steps -> {"none", "ready", "started", "done", "early", "ended"}]
  /\ history \in Seq(Events)
  /\ sending \in [Emitters -> Broadcasts \cup {NoBroadcast}]
  /\ conns \in [Sockets -> Nat]
  /\ socket \in [Sockets -> Connections]
  /\ stream \in [Streams -> Requests]
  /\ got \in [Viewers -> Seq(Events)]

Apart(at) == [at |-> at, from |-> 1, next |-> 1, seen |-> 0]
Off(at)   == [at |-> at, from |-> 1, queue |-> <<>>]

Init ==
  /\ main = "begin"
  /\ setup \in Setups
  /\ task = [s \in Steps |-> "none"]
  /\ history = <<>>
  /\ sending = [e \in Emitters |-> NoBroadcast]
  /\ conns = Nobody
  /\ socket = [w \in Sockets |-> Apart("away")]
  /\ stream = [l \in Streams |-> Off("away")]
  /\ got = [v \in Viewers |-> <<>>]

-----------------------------------------------------------------------------
(* broadcast(): validate, append to the buffer, send to a snapshot of the  *)
(* connections, each send awaited; then, in one go, disconnect those that  *)
(* failed and feed the SSE queues.                                         *)

\* The queue of every open stream, which has no bound, gets the event.
Fed(ev) ==
  [l \in Streams |-> IF stream[l].at = "open"
                       THEN [stream[l] EXCEPT !.queue = Append(@, ev)]
                       ELSE stream[l]]

\* Without connections nothing is awaited.
Broadcast(e, ev) ==
  /\ history' = Append(history, ev)
  /\ IF conns = Nobody
       THEN stream' = Fed(ev) /\ UNCHANGED sending
       ELSE /\ sending' = [sending EXCEPT ![e] = [event |-> ev, todo |-> conns, dead |-> Nobody]]
            /\ UNCHANGED stream

\* send_json() of a connection whose peer is gone, or that was closed, raises.
SendNext(e) ==
  /\ \E w \in Sockets :
       /\ sending[e].todo[w] > 0
       /\ IF socket[w].at \in {"replaying", "live"}
            THEN /\ sending' = [sending EXCEPT ![e].todo[w] = @ - 1]
                 /\ got' = [got EXCEPT ![w] = Append(@, sending[e].event)]
            ELSE /\ sending' = [sending EXCEPT ![e].todo[w] = @ - 1, ![e].dead[w] = @ + 1]
                 /\ UNCHANGED got
  /\ UNCHANGED <<runVars, history, conns, socket, stream>>

\* n entries after k calls of disconnect(), which removes one if there is one.
Without(n, k) == IF n > k THEN n - k ELSE 0

\* Faulty: a dead connection costs the streams the event.
DeliveredUnlessDead(e) ==
  /\ ~Free(e) /\ sending[e].todo = Nobody
  /\ conns' = [w \in Sockets |-> Without(conns[w], sending[e].dead[w])]
  /\ stream' = IF sending[e].dead = Nobody THEN Fed(sending[e].event) ELSE stream
  /\ sending' = [sending EXCEPT ![e] = NoBroadcast]
  /\ UNCHANGED <<runVars, history, socket, got>>

Delivered(e) ==
  /\ ~Free(e) /\ sending[e].todo = Nobody
  /\ conns' = [w \in Sockets |-> Without(conns[w], sending[e].dead[w])]
  /\ stream' = Fed(sending[e].event)
  /\ sending' = [sending EXCEPT ![e] = NoBroadcast]
  /\ UNCHANGED <<runVars, history, socket, got>>

-----------------------------------------------------------------------------
(* The run: _run_and_evaluate(), with NativeEngine and DAGExecutor.        *)

\* Every event of the background task.  A refused one raises ValueError: the
\* handler of _run_and_evaluate() then emits an error event, and what that
\* one raises ends the task.
Emit(from, ev, to) ==
  /\ main = from /\ Free(Server)
  /\ IF Valid(ev)
       THEN Broadcast(Server, ev) /\ main' = to
       ELSE /\ main' = IF ev.type = "error" THEN "died" ELSE "failing"
            /\ UNCHANGED <<history, sending, stream>>
  /\ UNCHANGED <<setup, conns, socket, got>>

Begin == Emit("begin", Event("workflow_start", Server, TRUE), "engine") /\ UNCHANGED task

EngineBegins ==
  Emit("engine", Event("workflow_start", "engine", TRUE), "steps") /\ UNCHANGED task

\* The loop creates the tasks.
Schedule ==
  /\ main = "steps" /\ Free(Server)
  /\ \A s \in Steps : task[s] = "none"
  /\ task' = [s \in Steps |-> IF s \in setup.steps THEN "ready" ELSE "ended"]
  /\ UNCHANGED <<main, setup, history, sending, viewVars>>

\* run_step(): step_start is awaited before the step is executed.  A task
\* outlives a loop that raised.
StepStarts(s) ==
  /\ task[s] = "ready"
  /\ Broadcast(s, Event("step_start", s, TRUE))
  /\ task' = [task EXCEPT ![s] = "started"]
  /\ UNCHANGED <<main, setup, conns, socket, got>>

\* Faulty: the broadcast of step_start is not awaited.
StepReturnsUnawaited(s) ==
  /\ task[s] = "started"
  /\ task' = [task EXCEPT ![s] = IF s \in setup.early THEN "early" ELSE "done"]
  /\ UNCHANGED <<main, setup, history, sending, viewVars>>

StepReturns(s) ==
  /\ task[s] = "started" /\ Free(s)
  /\ task' = [task EXCEPT ![s] = IF s \in setup.early THEN "early" ELSE "done"]
  /\ UNCHANGED <<main, setup, history, sending, viewVars>>

\* The loop takes a finished task's result.
StepEnds(s) ==
  /\ task[s] \in {"done", "early"}
  /\ Emit("steps", Event("step_end", s, task[s] = "done"), "steps")
  /\ task' = [task EXCEPT ![s] = "ended"]

EngineEnds ==
  /\ \A s \in Steps : task[s] = "ended"
  /\ Emit("steps", Event("workflow_end", "engine", TRUE), "reported")
  /\ UNCHANGED task

Report ==
  /\ Emit("reported", Event("workflow_end", Server, TRUE),
          IF setup.scored THEN "judging" ELSE "logging")
  /\ UNCHANGED task

Judge == Emit("judging", Event("evaluation_start", Server, TRUE), "scoring") /\ UNCHANGED task

Score ==
  Emit("scoring", Event("evaluation_complete", Server, TRUE), "logging") /\ UNCHANGED task

\* run_logger.log()
Log ==
  /\ main = "logging" /\ Free(Server)
  /\ main' = "finished"
  /\ UNCHANGED <<setup, task, history, sending, viewVars>>

\* Loading the workflow, normalising its result, scoring or logging raises.
Raises ==
  /\ main \in setup.raises /\ Free(Server)
  /\ main' = "failing"
  /\ UNCHANGED <<setup, task, history, sending, viewVars>>

EmitError == Emit("failing", Event("error", Server, TRUE), "died") /\ UNCHANGED task

-----------------------------------------------------------------------------
(* The WebSocket endpoint.                                                 *)

Comes(v) == v \in setup.viewers /\ (history = <<>> \/ v \in setup.late)

\* Faulty: an endpoint that ends stays registered.
LeaveRegistered(w) ==
  /\ socket' = [socket EXCEPT ![w] = Apart("left")]
  /\ UNCHANGED conns

\* The endpoint ends: disconnect().
Leave(w) ==
  /\ socket' = [socket EXCEPT ![w] = Apart("left")]
  /\ conns' = [conns EXCEPT ![w] = Without(@, 1)]

\* connect() once the handshake is over, and the first send of replay().  The
\* loop of replay() is over the live deque, of Len(history) appends.
Connect(w) ==
  /\ socket[w].at = "away" /\ Comes(w)
  /\ conns' = [conns EXCEPT ![w] = @ + 1]
  /\ socket' = [socket EXCEPT ![w] =
       [at   |-> IF history = <<>> THEN "live" ELSE "replaying",
        from |-> Oldest, next |-> Oldest + 1, seen |-> Len(history)]]
  /\ got' = IF history = <<>> THEN got ELSE [got EXCEPT ![w] = <<history[Oldest]>>]
  /\ UNCHANGED <<runVars, history, sending, stream>>

\* Faulty: the loop is over a copy of the buffer.
ReplayOfCopy(w) ==
  /\ socket[w].at = "replaying"
  /\ \/ /\ socket[w].next > socket[w].seen
        /\ socket' = [socket EXCEPT ![w].at = "live"]
        /\ UNCHANGED got
     \/ /\ socket[w].next <= socket[w].seen
        /\ got' = [got EXCEPT ![w] = Append(@, history[socket[w].next])]
        /\ socket' = [socket EXCEPT ![w].next = @ + 1]
  /\ UNCHANGED <<runVars, history, sending, conns, stream>>

\* The next turn of the loop, when a send has returned.  A deque that has
\* changed raises RuntimeError, which the endpoint answers by disconnecting.
Replay(w) ==
  /\ socket[w].at = "replaying"
  /\ \/ /\ socket[w].seen # Len(history)
        /\ Leave(w)
        /\ UNCHANGED got
     \/ /\ socket[w].seen = Len(history)
        /\ socket[w].next > Len(history)
        /\ socket' = [socket EXCEPT ![w].at = "live"]
        /\ UNCHANGED <<conns, got>>
     \/ /\ socket[w].seen = Len(history)
        /\ socket[w].next <= Len(history)
        /\ got' = [got EXCEPT ![w] = Append(@, history[socket[w].next])]
        /\ socket' = [socket EXCEPT ![w].next = @ + 1]
        /\ UNCHANGED conns
  /\ UNCHANGED <<runVars, history, sending, stream>>

\* The peer goes away; the endpoint learns of it by its own send or receive.
PeerCloses(w) ==
  /\ socket[w].at \in {"replaying", "live"}
  /\ socket' = [socket EXCEPT ![w].at = "gone"]
  /\ UNCHANGED <<runVars, history, sending, conns, stream, got>>

Disconnect(w) ==
  /\ socket[w].at = "gone"
  /\ Leave(w)
  /\ UNCHANGED <<runVars, history, sending, stream, got>>

-----------------------------------------------------------------------------
(* stream_run_events().  Its keepalives change nothing.                    *)

Subscribe(l) ==
  /\ stream[l].at = "away" /\ Comes(l)
  /\ stream' = [stream EXCEPT ![l] =
       [at |-> "open", from |-> Len(history) + 1, queue |-> <<>>]]
  /\ UNCHANGED <<runVars, history, sending, conns, socket, got>>

\* Yield the next event; a terminal one is the last.
Yield(l) ==
  /\ stream[l].at = "open" /\ stream[l].queue # <<>>
  /\ LET ev == Head(stream[l].queue)
     IN /\ got' = [got EXCEPT ![l] = Append(@, ev)]
        /\ stream' = IF ev.type \in Terminal
                       THEN [stream EXCEPT ![l] = Off("closed")]
                       ELSE [stream EXCEPT ![l].queue = Tail(@)]
  /\ UNCHANGED <<runVars, history, sending, conns, socket>>

\* The request is cancelled.
Unsubscribe(l) ==
  /\ stream[l].at = "open"
  /\ stream' = [stream EXCEPT ![l] = Off("closed")]
  /\ UNCHANGED <<runVars, history, sending, conns, socket, got>>

-----------------------------------------------------------------------------
Run ==
  \/ Begin \/ EngineBegins \/ Schedule \/ EngineEnds
  \/ Report \/ Judge \/ Score \/ Log \/ EmitError

Next ==
  \/ Run \/ Raises
  \/ \E s \in Steps : StepStarts(s) \/ StepReturns(s) \/ StepEnds(s)
  \/ \E e \in Emitters : SendNext(e) \/ Delivered(e)
  \/ \E w \in Sockets : Connect(w) \/ Replay(w) \/ PeerCloses(w) \/ Disconnect(w)
  \/ \E l \in Streams : Subscribe(l) \/ Yield(l) \/ Unsubscribe(l)

Spec == Init /\ [][Next]_vars

\* The event loop runs the run's tasks and the open streams; a send ends, for
\* the server pings its peers and closes a connection that does not answer.
Fairness ==
  /\ WF_vars(Run)
  /\ \A s \in Steps : WF_vars(StepStarts(s)) /\ WF_vars(StepReturns(s)) /\ WF_vars(StepEnds(s))
  /\ \A e \in Emitters : WF_vars(SendNext(e) \/ Delivered(e))
  /\ \A l \in Streams : WF_vars(Yield(l))

FairSpec == Spec /\ Fairness

-----------------------------------------------------------------------------
(* The hub implements the log.                                             *)

Promised == INSTANCE EventLog WITH
  log    <- history,
  told   <- got,
  Before <- {p \in Events \X Events : Precedes(p[1], p[2])}

\* Every step of the run, its broadcasts and its viewers logs one event, tells
\* one viewer of one, or changes nothing a viewer can see.
ImplementsEventLog == Promised!Spec

-----------------------------------------------------------------------------
(* Properties.                                                             *)

\* Whatever the broadcasts under way, the replay and the viewers that come and
\* go, no viewer is sent an event twice, nor after an event the run emitted
\* only once the first was out.
CausalOrder ==
  \A v \in Viewers : \A i, j \in 1..Len(got[v]) :
    i < j => got[v][i] # got[v][j] /\ ~Precedes(got[v][j], got[v][i])

\* A connection that has come out of its replay has no gap: from the oldest
\* event that was buffered when it joined, it was sent all but what broadcasts
\* under way still have for it.  (One that was sent a live event during its
\* replay never comes out.)  An open stream has, or has in its queue, all that
\* was emitted since it was registered.
NothingLost ==
  /\ \A w \in Sockets : socket[w].at = "live" =>
       \A i \in socket[w].from..Len(history) :
         \/ history[i] \in Range(got[w])
         \/ \E e \in Emitters :
              sending[e].event = history[i] /\ sending[e].todo[w] > 0
  /\ \A l \in Streams : stream[l].at = "open" =>
       \A i \in stream[l].from..Len(history) :
         \/ history[i] \in Range(got[l]) \cup Range(stream[l].queue)
         \/ \E e \in Emitters : sending[e].event = history[i]

\* The hub holds every connection whose endpoint is serving it exactly once
\* and none whose endpoint has ended, whichever of the endpoint, the replay
\* and a broadcast that met a dead connection came to disconnect it.
HubExact ==
  \A w \in Sockets :
    /\ socket[w].at \in {"replaying", "live"} => conns[w] = 1
    /\ socket[w].at \in {"away", "left"} => conns[w] = 0

\* A stream opened before the run has reported its end is closed in the end,
\* unless the run dies: its last event comes through, and nothing else is
\* needed to free its queue.
StreamsEnd ==
  \A l \in Streams :
    stream[l].at = "open" /\ main \in {"begin", "engine", "steps", "reported"}
      ~> stream[l].at = "closed" \/ main = "died"

\* What docs/api-contracts-runtime.md says of the events: when the run's task
\* has ended and every broadcast is over, each connection has been told by a
\* final event, "error" when execution failed.
ViewersAreTold ==
  main \in {"finished", "died"} /\ (\A e \in Emitters : Free(e)) =>
    \A w \in Sockets : socket[w].at = "live" =>
      \E ev \in Range(got[w]) : ev.type \in Terminal \cup {"error"}

=============================================================================
