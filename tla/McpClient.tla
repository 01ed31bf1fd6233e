------------------------------ MODULE McpClient ------------------------------
(***************************************************************************)
(* The MCP protocol client (integrations/mcp/protocol/client.py) over its  *)
(* transport (transports/stdio.py): requests awaited by their callers, the *)
(* read loop that resolves them, time-outs, cancellations, and the ways a  *)
(* connection ends.                                                        *)
(*                                                                         *)
(* Every client ever created is modelled at once, indexed by connection,   *)
(* since replaced ones live on.  A request has its own id (a UUID) and is  *)
(* made once; the handshake of a connection is a request too, whose id is  *)
(* the connection.  An await ends the step of a caller; what runs between  *)
(* two of them is one action.                                              *)
(*                                                                         *)
(* A server answers in any order, late, twice or never, changes its list   *)
(* of tools, writes lines that are not JSON, and may die at any moment.    *)
(* Its output is read in order, so an answer read after n notifications of *)
(* a change holds the list after n changes, and nothing in between has to  *)
(* be kept: a message is chosen when it is read.  Answers to ids that are  *)
(* not pending change nothing and are left out.                            *)
(***************************************************************************)
EXTENDS Naturals, FiniteSets

CONSTANTS
  Conns,        \* connections that may be made
  Discoveries,  \* requests for the list of tools
  ToolCalls,    \* requests through McpToolAdapter
  NoConn,
  MaxChanges    \* bound on changes of the list of tools

Requests == Discoveries \cup ToolCalls
Ids      == Requests \cup Conns

ASSUME ClientAssumption ==
  /\ Conns \cap Requests = {}
  /\ NoConn \notin Conns
  /\ MaxChanges \in Nat

VARIABLES
  transport,    \* _started and _closed of each connection's transport
  initialized,  \* connections whose client is _initialized
  conn,         \* the connection a request was made on
  stage,        \* where the caller of a request is
  result,       \* how request() ended
  future,       \* the request's future
  pending,      \* the ids in _pending_requests, of all clients
  told,         \* changes of the list of tools the client has handled
  listing       \* the list a discovery was answered

requestVars == <<conn, stage, result, future, pending>>
clientVars  == <<transport, initialized, requestVars, told, listing>>

ClientTypeOK ==
  /\ transport \in [Conns -> {"new", "open", "closed"}]
  /\ initialized \subseteq Conns
  /\ conn \in [Ids -> Conns \cup {NoConn}]
  /\ stage \in [Ids -> {"idle", "sending", "waiting", "done"}]
  /\ result \in [Ids -> {"none", "answer", "error", "timeout", "cancelled"}]
  /\ future \in [Ids -> {"open", "answer", "error", "cancelled"}]
  /\ pending \subseteq Ids
  /\ told \in [Conns -> 0..MaxChanges]
  /\ listing \in [Discoveries -> 0..MaxChanges]

InitClient ==
  /\ transport = [k \in Conns |-> "new"]
  /\ initialized = {}
  /\ conn = [r \in Ids |-> NoConn]
  /\ stage = [r \in Ids |-> "idle"]
  /\ result = [r \in Ids |-> "none"]
  /\ future = [r \in Ids |-> "open"]
  /\ pending = {}
  /\ told = [k \in Conns |-> 0]
  /\ listing = [r \in Discoveries |-> 0]

-----------------------------------------------------------------------------
(* Faulty variants of the decisions below, each with one plausible bug.        *)

CleanedUpNever(r) == pending
RejectedNever(k)  == future
NeverTimesOut(r)  == FALSE

-----------------------------------------------------------------------------
(* request() *)

Ended(r, outcome) ==
  /\ stage' = [stage EXCEPT ![r] = "done"]
  /\ result' = [result EXCEPT ![r] = outcome]

\* Registered, then written to the server's input; the drain is awaited.
Sends(r, k) ==
  /\ stage[r] = "idle"
  /\ conn' = [conn EXCEPT ![r] = k]
  /\ stage' = [stage EXCEPT ![r] = "sending"]
  /\ pending' = pending \cup {r}
  /\ UNCHANGED <<result, future, told, listing>>

Request(r, k) ==
  /\ transport[k] = "open"
  /\ Sends(r, k)
  /\ UNCHANGED <<transport, initialized>>

\* _ensure_started raises, and the except clause cleans up.
RequestRefused(r, k) ==
  /\ stage[r] = "idle" /\ transport[k] = "closed"
  /\ conn' = [conn EXCEPT ![r] = k]
  /\ Ended(r, "error")
  /\ UNCHANGED <<transport, initialized, future, pending, told, listing>>

\* The server has read its input.
Sent(r) ==
  /\ stage[r] = "sending"
  /\ stage' = [stage EXCEPT ![r] = "waiting"]
  /\ UNCHANGED <<transport, initialized, conn, result, future, pending, told, listing>>

CleanedUp(r) == pending \ {r}

\* The server is dead.
SendFails(r) ==
  /\ stage[r] = "sending"
  /\ Ended(r, "error")
  /\ pending' = CleanedUp(r)
  /\ UNCHANGED <<transport, initialized, conn, future, told, listing>>

\* The caller resumes with the outcome of its future.
Answered(r) ==
  /\ stage[r] = "waiting" /\ future[r] = "answer"
  /\ Ended(r, "answer")
  /\ UNCHANGED <<transport, conn, future, pending, told, listing>>

Failed(r) ==
  /\ stage[r] = "waiting" /\ future[r] = "error"
  /\ Ended(r, "error")
  /\ pending' = CleanedUp(r)
  /\ UNCHANGED <<transport, initialized, conn, future, told, listing>>

\* Cancelling a task cancels the future it awaits, or discards an answer that
\* has come but that the caller has not seen yet.
Forsaken(r) == [future EXCEPT ![r] = IF @ = "open" THEN "cancelled" ELSE @]

TimesOut(r) ==
  /\ stage[r] = "waiting"
  /\ Ended(r, "timeout")
  /\ future' = Forsaken(r)
  /\ pending' = CleanedUp(r)
  /\ UNCHANGED <<transport, initialized, conn, told, listing>>

\* CancelledError passes both except clauses: the entry stays.
Cancelled(r) ==
  /\ stage[r] \in {"sending", "waiting"}
  /\ Ended(r, "cancelled")
  /\ future' = IF stage[r] = "waiting" THEN Forsaken(r) ELSE future
  /\ UNCHANGED <<transport, initialized, conn, pending, told, listing>>

-----------------------------------------------------------------------------
(* The read loop and the handlers of the client. *)

\* _pending_requests of one client.
PendingOn(k) == {r \in pending : conn[r] = k}

\* Every future of the connection that nobody has resolved.
Rejected(k) ==
  [r \in Ids |-> IF r \in PendingOn(k) /\ future[r] = "open" THEN "error" ELSE future[r]]

\* _handle_response, for an answer or an error.
ReadAnswer(k) ==
  /\ transport[k] = "open"
  /\ \E r \in PendingOn(k), kind \in {"answer", "error"} :
       /\ pending' = pending \ {r}
       /\ future' = [future EXCEPT ![r] = IF @ = "open" THEN kind ELSE @]
       /\ listing' = [d \in Discoveries |-> IF d = r THEN told[k] ELSE listing[d]]
  /\ UNCHANGED <<transport, initialized, conn, stage, result, told>>

\* _handle_notification, of a change of the list of tools.
ReadChange(k) ==
  /\ transport[k] = "open" /\ told[k] < MaxChanges
  /\ told' = [told EXCEPT ![k] = @ + 1]
  /\ UNCHANGED <<transport, initialized, requestVars, listing>>

\* _handle_transport_error rejects, and removes nothing.
ReadGarbage(k) ==
  /\ transport[k] = "open"
  /\ future' = Rejected(k)
  /\ UNCHANGED <<transport, initialized, conn, stage, result, pending, told, listing>>

\* close() and _handle_transport_close reject, then forget.
RejectAll(k) ==
  /\ future' = Rejected(k)
  /\ pending' = pending \ PendingOn(k)
  /\ initialized' = initialized \ {k}

\* _emit_close, once.
EmitClose(k) ==
  /\ transport' = [transport EXCEPT ![k] = "closed"]
  /\ RejectAll(k)

\* The server has closed its output, or written a line longer than the stream
\* reader takes.
ReadLoopEnds(k) ==
  /\ transport[k] = "open"
  /\ EmitClose(k)
  /\ UNCHANGED <<conn, stage, result, told, listing>>
=============================================================================
