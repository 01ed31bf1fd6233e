------------------------------ MODULE McpRuntime ------------------------------
(***************************************************************************)
(* McpConnectionManager (integrations/mcp/runtime/manager.py) for one      *)
(* server name, the tools it serves through ToolDiscovery                  *)
(* (discovery/tools.py) and McpToolAdapter (adapters/tool_adapter.py), on  *)
(* top of the clients of McpClient.tla.                                    *)
(*                                                                         *)
(* Each caller of the manager makes one call.  One that connects may have  *)
(* to make a connection, which then has the caller's name, so Conns is the *)
(* set of callers as well.  ToolDiscovery's handler is registered as soon  *)
(* as a client is connected.                                               *)
(***************************************************************************)
EXTENDS McpClient

CONSTANTS
  Setups,    \* what may be called, see op and uses
  NoCaller,
  NoList

Operations == {"none", "connect", "force", "disconnect"}

ASSUME RuntimeAssumption ==
  /\ Setups \subseteq [op : [Conns -> Operations], uses : SUBSET Requests]
  /\ NoCaller \notin Conns

VARIABLES
  op,      \* parameter: what each caller calls
  uses,    \* parameter: the requests that are made
  at,      \* where it is
  holder,  \* who holds _lock
  entry,   \* the entry of _connections
  handed,  \* history: connections connect() has returned
  forced,  \* history: force_new was used
  cache    \* _cache of ToolDiscovery: the list, and the connection it is from

setup       == <<op, uses>>
managerVars == <<at, holder, entry, handed, forced>>
allVars     == <<setup, clientVars, managerVars, cache>>

NoEntry == [conn |-> NoConn, state |-> "none", suppressed |-> FALSE]

Entries == [conn : Conns, suppressed : BOOLEAN,
            state : {"connecting", "connected", "reconnecting", "needs_auth", "failed"}]

TypeOK ==
  /\ ClientTypeOK
  /\ [op |-> op, uses |-> uses] \in Setups
  /\ at \in [Conns -> {"idle", "wanting", "spawning", "handshake", "backoff", "closing", "done"}]
  /\ holder \in Conns \cup {NoCaller}
  /\ entry \in Entries \cup {NoEntry}
  /\ handed \subseteq Conns
  /\ forced \in BOOLEAN
  /\ cache = NoList \/ cache \in [from : Conns, list : 0..MaxChanges]

Init ==
  /\ InitClient
  /\ \E s \in Setups : op = s.op /\ uses = s.uses
  /\ at = [t \in Conns |-> "idle"]
  /\ holder = NoCaller
  /\ entry = NoEntry
  /\ handed = {}
  /\ forced = FALSE
  /\ cache = NoList

-----------------------------------------------------------------------------
(* A faulty variant of LockFree.                                               *)

Unlocked == TRUE

-----------------------------------------------------------------------------
(* The manager. *)

Goes(t, label) == at' = [at EXCEPT ![t] = label]

\* The call ends, and the lock is free for the next.
Returns(t) ==
  /\ Goes(t, "done")
  /\ holder' = NoCaller

Ask(t) ==
  /\ at[t] = "idle" /\ op[t] # "none"
  /\ Goes(t, "wanting")
  /\ UNCHANGED <<clientVars, holder, entry, handed, forced, cache>>

LockFree == holder = NoCaller

Enters(t, what) == at[t] = "wanting" /\ op[t] = what /\ LockFree

\* RuntimeError: auth failures suppressed.
Refuse(t) ==
  /\ Enters(t, "connect") /\ entry.suppressed
  /\ Returns(t)
  /\ UNCHANGED <<clientVars, entry, handed, forced, cache>>

\* The state is what the manager last set it to, not what the client knows.
Reuse(t) ==
  /\ Enters(t, "connect") /\ ~entry.suppressed /\ entry.state = "connected"
  /\ handed' = handed \cup {entry.conn}
  /\ Returns(t)
  /\ UNCHANGED <<clientVars, entry, forced, cache>>

\* A new entry, whatever the old one holds; its transport starts.
Create(t) ==
  /\ \/ Enters(t, "connect") /\ ~entry.suppressed /\ entry.state # "connected"
     \/ Enters(t, "force")
  /\ forced' = (forced \/ op[t] = "force")
  /\ entry' = [conn |-> t, state |-> "connecting", suppressed |-> FALSE]
  /\ holder' = t
  /\ Goes(t, "spawning")
  /\ UNCHANGED <<clientVars, handed, cache>>

\* The process runs, and the handshake is sent without an await in between.
Spawned(t) ==
  /\ at[t] = "spawning"
  /\ transport' = [transport EXCEPT ![t] = "open"]
  /\ Sends(t, t)
  /\ Goes(t, "handshake")
  /\ UNCHANGED <<initialized, holder, entry, handed, forced, cache>>

\* ConnectionError
Fails(t) ==
  /\ entry' = [entry EXCEPT !.state = "failed"]
  /\ Returns(t)

SpawnFails(t) ==
  /\ at[t] = "spawning"
  /\ Fails(t)
  /\ UNCHANGED <<clientVars, handed, forced, cache>>

Connected(t) ==
  /\ at[t] = "handshake" /\ Answered(t)
  /\ initialized' = initialized \cup {t}
  /\ entry' = [entry EXCEPT !.state = "connected"]
  /\ handed' = handed \cup {t}
  /\ Returns(t)
  /\ UNCHANGED <<forced, cache>>

\* McpProtocolError: with a 401 the name is suppressed, else backs off.
HandshakeRejected(t) ==
  /\ at[t] = "handshake" /\ Failed(t)
  /\ \/ /\ entry' = [entry EXCEPT !.state = "needs_auth", !.suppressed = TRUE]
        /\ Returns(t)
     \/ /\ entry' = [entry EXCEPT !.state = "reconnecting"]
        /\ Goes(t, "backoff")
        /\ UNCHANGED holder
  /\ UNCHANGED <<handed, forced, cache>>

\* McpTimeoutError and ConnectionError are not among the errors to retry.
HandshakeBroken(t) ==
  /\ at[t] = "handshake" /\ (TimesOut(t) \/ SendFails(t))
  /\ Fails(t)
  /\ UNCHANGED <<handed, forced, cache>>

\* The next attempt starts the same transport: RuntimeError.
Retry(t) ==
  /\ at[t] = "backoff"
  /\ Fails(t)
  /\ UNCHANGED <<clientVars, handed, forced, cache>>

\* disconnect() and disconnect_all(): the client lets go of its callers at
\* once, and an open transport is then terminated.
Disconnect(t) ==
  /\ Enters(t, "disconnect")
  /\ UNCHANGED <<conn, stage, result, told, listing, handed, forced, cache>>
  /\ LET k == entry.conn IN
     \/ /\ k = NoConn
        /\ Returns(t)
        /\ UNCHANGED <<transport, initialized, future, pending, entry>>
     \/ /\ k # NoConn /\ transport[k] = "open"
        /\ RejectAll(k)
        /\ holder' = t
        /\ Goes(t, "closing")
        /\ UNCHANGED <<transport, entry>>
     \/ /\ k # NoConn /\ transport[k] # "open"
        /\ EmitClose(k)
        /\ entry' = NoEntry
        /\ Returns(t)

\* The process is gone, and the transport closed unless its read loop was first.
Terminated(t) ==
  /\ at[t] = "closing"
  /\ EmitClose(entry.conn)
  /\ entry' = NoEntry
  /\ Returns(t)
  /\ UNCHANGED <<conn, stage, result, told, listing, handed, forced, cache>>

\* The caller's task is cancelled: the lock is released, the entry stays.
CancelCaller(t) ==
  /\ \/ at[t] = "handshake" /\ Cancelled(t)
     \/ at[t] \in {"wanting", "spawning", "backoff", "closing"} /\ UNCHANGED clientVars
  /\ Goes(t, "done")
  /\ holder' = IF holder = t THEN NoCaller ELSE holder
  /\ UNCHANGED <<entry, handed, forced, cache>>

Enter(t) == Refuse(t) \/ Reuse(t) \/ Create(t) \/ Disconnect(t)

Proceed(t) ==
  \/ Spawned(t) \/ SpawnFails(t) \/ Connected(t) \/ HandshakeRejected(t)
  \/ HandshakeBroken(t) \/ Retry(t) \/ Terminated(t)

SentHandshake(t) == Sent(t) /\ UNCHANGED <<managerVars, cache>>

SuppressionEnds ==
  /\ entry.suppressed
  /\ entry' = [entry EXCEPT !.suppressed = FALSE]
  /\ UNCHANGED <<clientVars, at, holder, handed, forced, cache>>

-----------------------------------------------------------------------------
(* discover_tools() and the adapters, on a client connect() has returned.      *)

DiscoverCached(r) ==
  /\ stage[r] = "idle" /\ handed # {} /\ cache # NoList
  /\ Ended(r, "answer")
  /\ UNCHANGED <<transport, initialized, conn, future, pending, told, listing>>
  /\ UNCHANGED <<managerVars, cache>>

Begins(r) ==
  /\ \E k \in handed : Request(r, k) \/ RequestRefused(r, k)
  /\ UNCHANGED <<managerVars, cache>>

Discover(r) == (cache = NoList /\ Begins(r)) \/ DiscoverCached(r)

\* The list is cached under the server's name.
Discovered(r) ==
  /\ Answered(r)
  /\ cache' = [from |-> conn[r], list |-> listing[r]]
  /\ UNCHANGED <<initialized, managerVars>>

CallAnswered(r) == Answered(r) /\ UNCHANGED <<initialized, managerVars, cache>>

\* How the await in request() may end otherwise.
Interrupted(r) ==
  /\ SendFails(r) \/ Failed(r) \/ TimesOut(r)
  /\ UNCHANGED <<managerVars, cache>>

\* The adapter's own time-out, or the cancellation of a discovery.
Abandon(r) == Cancelled(r) /\ UNCHANGED <<managerVars, cache>>

SentRequest(r) == Sent(r) /\ UNCHANGED <<managerVars, cache>>

\* on_tools_list_changed: invalidate_cache.
ToolsChanged(k) ==
  /\ ReadChange(k)
  /\ cache' = NoList
  /\ UNCHANGED managerVars

CacheExpires ==
  /\ cache # NoList /\ cache' = NoList
  /\ UNCHANGED <<clientVars, managerVars>>

-----------------------------------------------------------------------------

Caller(t) == Ask(t) \/ Enter(t) \/ Proceed(t) \/ SentHandshake(t) \/ CancelCaller(t)

User(r) ==
  \/ SentRequest(r) \/ Interrupted(r) \/ Abandon(r)
  \/ r \in Discoveries /\ (Discover(r) \/ Discovered(r))
  \/ r \in ToolCalls /\ (Begins(r) \/ CallAnswered(r))

Environment ==
  \/ \E k \in Conns :
       \/ ToolsChanged(k)
       \/ /\ ReadAnswer(k) \/ ReadGarbage(k) \/ ReadLoopEnds(k)
          /\ UNCHANGED <<managerVars, cache>>
  \/ SuppressionEnds \/ CacheExpires

Step ==
  \/ \E t \in Conns : Caller(t)
  \/ \E r \in uses : User(r)
  \/ Environment

Next == Step /\ UNCHANGED setup

Spec == Init /\ [][Next]_allVars

\* The event loop runs what can run and its timers, a lock is handed on in the
\* order of the requests for it, and servers read their input; but an adapter
\* relies on its own time-out only.
FairSpec ==
  /\ Spec
  /\ \A t \in Conns :
       /\ WF_allVars(Proceed(t) /\ UNCHANGED setup)
       /\ WF_allVars(SentHandshake(t) /\ UNCHANGED setup)
       /\ SF_allVars(Enter(t) /\ UNCHANGED setup)
  /\ \A r \in Discoveries :
       /\ WF_allVars((Discovered(r) \/ Interrupted(r)) /\ UNCHANGED setup)
       /\ WF_allVars(SentRequest(r) /\ UNCHANGED setup)
  /\ \A r \in ToolCalls : WF_allVars(Abandon(r) /\ UNCHANGED setup)

-----------------------------------------------------------------------------
(* Properties. *)

\* "Enforce timeouts", "rejects all pending requests" (client.py 48, 258, 364):
\* whoever waits for an answer is still in the table of a connection that can
\* bring it one or end, whatever order answers, garbage, close() and the end of
\* the read loop come in, and whenever the request was made.
NobodyForgotten ==
  \A r \in Ids : stage[r] = "waiting" /\ future[r] = "open" =>
    r \in pending /\ transport[conn[r]] = "open"

\* A request that has ended leaves nothing in _pending_requests, except one
\* that was cancelled, which includes every tool call whose adapter timed out.
PendingHasOwner ==
  \A r \in pending : stage[r] = "done" => result[r] = "cancelled"

\* One connection per server, which disconnect() can reach: a client that
\* finished its handshake and whose transport is open is the table's, unless
\* force_new has replaced it; two concurrent calls never make two.
ServedIsTracked ==
  \A k \in Conns : k \in initialized /\ transport[k] = "open" => entry.conn = k \/ forced

\* The cached list is never older than the last change the client was told of:
\* "Automatic invalidation on notifications/tools/list_changed" (tools.py:27).
CacheFollowsChanges == cache # NoList => cache.list >= told[cache.from]

\* Every call ends: of the manager, behind whatever holds its lock, of a
\* discovery, and of a tool, even if the server never reads or answers.
CallsEnd ==
  /\ \A t \in Conns : at[t] = "wanting" ~> at[t] = "done"
  /\ \A r \in Requests : stage[r] = "sending" ~> stage[r] = "done"
=============================================================================
