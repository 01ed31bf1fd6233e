-------------------------- MODULE McpRuntimeProofs --------------------------
(***************************************************************************)
(* Safety of the MCP manager, its clients and their requests, for any      *)
(* number of callers, connections, discoveries and tool calls.             *)
(***************************************************************************)
EXTENDS McpRuntime, TLAPS

\* A request is in the table as long as its caller may be woken by it.
RequestsSound ==
  \A r \in Ids :
    /\ stage[r] = "idle" => r \notin pending /\ future[r] = "open"
    /\ stage[r] \in {"sending", "waiting"} => conn[r] \in Conns
    /\ stage[r] \in {"sending", "waiting"} /\ future[r] = "open" =>
         r \in pending /\ transport[conn[r]] = "open"
    /\ future[r] = "answer" => r \notin pending
    /\ stage[r] = "done" /\ r \in pending => result[r] = "cancelled"

\* Whoever is between two awaits of the manager has its lock, and the entry of
\* a caller that connects is its own.
LockSound ==
  /\ \A t \in Conns :
       /\ at[t] \in {"spawning", "handshake", "backoff", "closing"} => holder = t
       /\ at[t] \in {"spawning", "handshake", "backoff"} => entry.conn = t
       /\ at[t] = "closing" => entry.conn \in Conns
       /\ t \in initialized => at[t] = "done"
  /\ ~forced => \A k \in Conns : k \in initialized /\ transport[k] = "open" =>
                  entry.conn = k /\ entry.state = "connected"

IInv == TypeOK /\ RequestsSound /\ LockSound

\* What the requests' variables keep while others move.
RequestTypes ==
  /\ transport \in [Conns -> {"new", "open", "closed"}]
  /\ conn \in [Ids -> Conns \cup {NoConn}]
  /\ stage \in [Ids -> {"idle", "sending", "waiting", "done"}]
  /\ result \in [Ids -> {"none", "answer", "error", "timeout", "cancelled"}]
  /\ future \in [Ids -> {"open", "answer", "error", "cancelled"}]
  /\ pending \subseteq Ids

\* The types of the requests' variables are part of TypeOK.
LEMMA TypesOfRequests == TypeOK => RequestTypes
BY DEF TypeOK, ClientTypeOK, RequestTypes

-----------------------------------------------------------------------------
(* What each step of a client does to the requests. *)

\* A request is registered on an open connection before it is sent.
LEMMA SendsSound ==
  ASSUME RequestTypes, RequestsSound, NEW r \in Ids, NEW k \in Conns, Sends(r, k),
         transport' = [transport EXCEPT ![k] = "open"]
  PROVE  RequestTypes' /\ RequestsSound'
BY DEF Sends, RequestTypes, RequestsSound

\* One caller moves on.
LEMMA CallerMovesSound ==
  ASSUME RequestTypes, RequestsSound, NEW r \in Ids,
         \/ Sent(r) \/ SendFails(r) \/ Answered(r) \/ Failed(r) \/ TimesOut(r) \/ Cancelled(r)
         \/ \E k \in Conns : RequestRefused(r, k)
  PROVE  RequestTypes' /\ RequestsSound'
<1> USE DEF RequestTypes, RequestsSound, Ended, CleanedUp, Forsaken
<1>1. CASE Sent(r)
  BY <1>1 DEF Sent
<1>2. CASE SendFails(r)
  BY <1>2 DEF SendFails
<1>3. CASE Answered(r)
  BY <1>3 DEF Answered
<1>4. CASE Failed(r)
  BY <1>4 DEF Failed
<1>5. CASE TimesOut(r)
  BY <1>5 DEF TimesOut
<1>6. CASE Cancelled(r)
  BY <1>6 DEF Cancelled
<1>7. CASE \E k \in Conns : RequestRefused(r, k)
  BY <1>7 DEF RequestRefused
<1> QED
  BY <1>1, <1>2, <1>3, <1>4, <1>5, <1>6, <1>7

\* Letting go of the callers of a connection forgets none, closed or not.
LEMMA RejectAllSound ==
  ASSUME RequestTypes, RequestsSound, NEW k \in Conns, RejectAll(k),
         UNCHANGED <<conn, stage, result>>,
         transport' = transport \/ transport' = [transport EXCEPT ![k] = "closed"]
  PROVE  RequestTypes' /\ RequestsSound'
<1>1. /\ \A r \in Ids : future'[r] = IF r \in PendingOn(k) /\ future[r] = "open"
                                       THEN "error" ELSE future[r]
      /\ future' \in [Ids -> {"open", "answer", "error", "cancelled"}]
      /\ pending' = pending \ PendingOn(k)
  BY DEF RejectAll, Rejected, RequestTypes
<1>2. RequestTypes'
  BY <1>1 DEF RequestTypes
<1> SUFFICES ASSUME NEW r \in Ids
             PROVE  /\ stage[r] = "idle" => r \notin pending' /\ future'[r] = "open"
                    /\ stage[r] \in {"sending", "waiting"} => conn[r] \in Conns
                    /\ stage[r] \in {"sending", "waiting"} /\ future'[r] = "open" =>
                         r \in pending' /\ transport'[conn[r]] = "open"
                    /\ future'[r] = "answer" => r \notin pending'
                    /\ stage[r] = "done" /\ r \in pending' => result[r] = "cancelled"
  BY <1>2 DEF RequestsSound
<1>3. CASE r \in PendingOn(k)
  BY <1>1, <1>3 DEF RequestsSound, PendingOn, RequestTypes
<1>4. CASE r \notin PendingOn(k)
  <2>1. future'[r] = future[r] /\ (r \in pending' <=> r \in pending)
    BY <1>1, <1>4
  <2>2. r \in pending => conn[r] # k
    BY <1>4 DEF PendingOn
  <2> QED
    BY <2>1, <2>2 DEF RequestsSound, RequestTypes
<1> QED
  BY <1>3, <1>4

\* The read loop resolves a future only with its entry, or rejects it.
LEMMA ReadsSound ==
  ASSUME RequestTypes, RequestsSound, NEW k \in Conns,
         ReadAnswer(k) \/ ReadChange(k) \/ ReadGarbage(k)
  PROVE  RequestTypes' /\ RequestsSound'
<1>1. CASE ReadAnswer(k)
  BY <1>1 DEF ReadAnswer, PendingOn, RequestTypes, RequestsSound
<1>2. CASE ReadChange(k)
  BY <1>2 DEF ReadChange, requestVars, RequestTypes, RequestsSound
<1>3. CASE ReadGarbage(k)
  <2>1. future' = [r \in Ids |-> IF r \in PendingOn(k) /\ future[r] = "open"
                                   THEN "error" ELSE future[r]]
        /\ UNCHANGED <<transport, conn, stage, result, pending>>
    BY <1>3 DEF ReadGarbage, Rejected
  <2> QED
    BY <2>1 DEF PendingOn, RequestTypes, RequestsSound
<1> QED
  BY <1>1, <1>2, <1>3

-----------------------------------------------------------------------------
(* The steps of the whole. *)

\* The parameters say whose steps there are.
LEMMA UsesAreRequests == TypeOK => uses \subseteq Requests
BY RuntimeAssumption DEF TypeOK

\* Every step keeps the requests sound.
LEMMA NextRequests ==
  ASSUME IInv, [Next]_allVars
  PROVE  RequestTypes' /\ RequestsSound'
<1> USE DEF IInv
<1>t. RequestTypes /\ RequestsSound /\ uses \subseteq Requests
  BY TypesOfRequests, UsesAreRequests
\* Nothing of the requests changes.
<1>1. ASSUME UNCHANGED <<transport, conn, stage, result, future, pending>>
      PROVE  RequestTypes' /\ RequestsSound'
  BY <1>t, <1>1 DEF RequestTypes, RequestsSound
<1>2. CASE UNCHANGED allVars
  BY <1>1, <1>2 DEF allVars, clientVars, requestVars
<1>3. ASSUME NEW t \in Conns, Caller(t)
      PROVE  RequestTypes' /\ RequestsSound'
  <2> t \in Ids
    BY DEF Ids
  <2>1. CASE Ask(t) \/ Refuse(t) \/ Reuse(t) \/ Create(t) \/ SpawnFails(t) \/ Retry(t)
    BY <1>1, <2>1 DEF Ask, Refuse, Reuse, Create, SpawnFails, Retry, clientVars, requestVars
  <2>2. CASE Spawned(t)
    BY <1>t, <2>2, SendsSound DEF Spawned
  <2>3. CASE Connected(t) \/ HandshakeRejected(t) \/ HandshakeBroken(t) \/ SentHandshake(t)
    BY <1>t, <2>3, CallerMovesSound
    DEF Connected, HandshakeRejected, HandshakeBroken, SentHandshake
  <2>4. CASE CancelCaller(t)
    <3>1. CASE Cancelled(t)
      BY <1>t, <3>1, CallerMovesSound
    <3>2. CASE UNCHANGED clientVars
      BY <1>1, <3>2 DEF clientVars, requestVars
    <3> QED
      BY <2>4, <3>1, <3>2 DEF CancelCaller
  <2>5. CASE Disconnect(t)
    <3>1. CASE entry.conn = NoConn
      BY <1>1, <2>5, <3>1 DEF Disconnect
    <3>2. CASE entry.conn # NoConn
      <4>1. entry.conn \in Conns
        BY <3>2 DEF TypeOK, Entries, NoEntry
      <4>2. RejectAll(entry.conn) /\ UNCHANGED <<conn, stage, result>>
            /\ \/ transport' = transport
               \/ transport' = [transport EXCEPT ![entry.conn] = "closed"]
        BY <2>5, <3>2 DEF Disconnect, EmitClose
      <4> QED
        BY <1>t, <4>1, <4>2, RejectAllSound
    <3> QED
      BY <3>1, <3>2
  <2>6. CASE Terminated(t)
    <3>1. entry.conn \in Conns
      BY <2>6 DEF Terminated, LockSound
    <3> QED
      BY <1>t, <2>6, <3>1, RejectAllSound DEF Terminated, EmitClose
  <2> QED
    BY <1>3, <2>1, <2>2, <2>3, <2>4, <2>5, <2>6 DEF Caller, Enter, Proceed
<1>4. ASSUME NEW r \in uses, User(r)
      PROVE  RequestTypes' /\ RequestsSound'
  <2> r \in Ids
    BY <1>t DEF Ids
  <2>1. CASE SentRequest(r) \/ Interrupted(r) \/ Abandon(r) \/ Discovered(r) \/ CallAnswered(r)
    BY <1>t, <2>1, CallerMovesSound
    DEF SentRequest, Interrupted, Abandon, Discovered, CallAnswered
  <2>2. CASE Begins(r)
    <3>1. PICK k \in handed : Request(r, k) \/ RequestRefused(r, k)
      BY <2>2 DEF Begins
    <3>2. k \in Conns
      BY DEF TypeOK
    <3>3. CASE Request(r, k)
      <4>1. transport' = [transport EXCEPT ![k] = "open"]
        BY <1>t, <3>2, <3>3 DEF Request, RequestTypes
      <4> QED
        BY <1>t, <3>2, <3>3, <4>1, SendsSound DEF Request
    <3>4. CASE RequestRefused(r, k)
      BY <1>t, <3>2, <3>4, CallerMovesSound
    <3> QED
      BY <3>1, <3>3, <3>4
  <2>3. CASE DiscoverCached(r)
    BY <1>t, <2>3 DEF DiscoverCached, Ended, RequestTypes, RequestsSound
  <2> QED
    BY <1>4, <2>1, <2>2, <2>3 DEF User, Discover
<1>5. ASSUME NEW k \in Conns, ToolsChanged(k) \/ ReadAnswer(k) \/ ReadGarbage(k)
      PROVE  RequestTypes' /\ RequestsSound'
  BY <1>t, <1>5, ReadsSound DEF ToolsChanged
<1>6. ASSUME NEW k \in Conns, ReadLoopEnds(k)
      PROVE  RequestTypes' /\ RequestsSound'
  BY <1>t, <1>6, RejectAllSound DEF ReadLoopEnds, EmitClose
<1>7. CASE SuppressionEnds \/ CacheExpires
  BY <1>1, <1>7 DEF SuppressionEnds, CacheExpires, clientVars, requestVars
<1> QED
  BY <1>2, <1>3, <1>4, <1>5, <1>6, <1>7 DEF Next, Step, Environment

\* Types of what is not a request.
OtherTypes ==
  /\ initialized \subseteq Conns
  /\ told \in [Conns -> 0..MaxChanges]
  /\ listing \in [Discoveries -> 0..MaxChanges]
  /\ [op |-> op, uses |-> uses] \in Setups
  /\ at \in [Conns -> {"idle", "wanting", "spawning", "handshake", "backoff", "closing", "done"}]
  /\ holder \in Conns \cup {NoCaller}
  /\ entry \in Entries \cup {NoEntry}
  /\ handed \subseteq Conns
  /\ forced \in BOOLEAN
  /\ cache = NoList \/ cache \in [from : Conns, list : 0..MaxChanges]

\* A step of a caller of the manager.
LEMMA CallerStep ==
  ASSUME IInv, NEW t \in Conns, Caller(t), UNCHANGED setup
  PROVE  OtherTypes' /\ LockSound'
<1> USE DEF IInv, TypeOK, ClientTypeOK, LockSound, OtherTypes, Goes, Returns, setup
<1>1. CASE Ask(t)
  BY <1>1 DEF Ask, clientVars
<1>2. CASE Refuse(t) \/ Reuse(t)
  <2>1. entry.state = "connected" => entry.conn \in Conns
    BY DEF Entries, NoEntry
  <2> QED
    BY <1>2, <2>1, RuntimeAssumption DEF Refuse, Reuse, Enters, LockFree, clientVars
<1>3. CASE Create(t)
  <2>1. /\ at[t] = "wanting" /\ holder = NoCaller /\ holder' = t
        /\ at' = [at EXCEPT ![t] = "spawning"]
        /\ entry' = [conn |-> t, state |-> "connecting", suppressed |-> FALSE]
        /\ entry.state # "connected" \/ forced'
        /\ forced => forced'
        /\ UNCHANGED <<clientVars, handed, cache>>
    BY <1>3 DEF Create, Enters, LockFree
  <2>2. entry' \in Entries /\ entry'.conn = t
    BY <2>1 DEF Entries
  <2>3. forced' \in BOOLEAN
    BY <1>3 DEF Create
  <2>4. OtherTypes'
    BY <2>1, <2>2, <2>3 DEF clientVars
  <2>5. \A u \in Conns : u # t => at[u] \notin {"spawning", "handshake", "backoff", "closing"}
    BY <2>1, RuntimeAssumption
  <2> QED
    BY <2>1, <2>2, <2>4, <2>5 DEF clientVars
<1>4. CASE Spawned(t)
  <2>1. /\ at[t] = "spawning" /\ at' = [at EXCEPT ![t] = "handshake"]
        /\ transport' = [transport EXCEPT ![t] = "open"]
        /\ UNCHANGED <<initialized, told, listing, holder, entry, handed, forced, cache>>
    BY <1>4 DEF Spawned, Sends
  <2>2. t \notin initialized
    BY <2>1
  <2> QED
    BY <2>1, <2>2
\* The call ends without a client; the entry is of a connection never served.
<1>5. ASSUME at[t] \in {"spawning", "handshake", "backoff"},
             NEW st \in {"reconnecting", "needs_auth", "failed"}, NEW b \in BOOLEAN,
             entry' = [entry EXCEPT !.state = st, !.suppressed = b],
             \/ Returns(t)
             \/ Goes(t, "backoff") /\ UNCHANGED holder,
             UNCHANGED <<transport, initialized, told, listing, handed, forced, cache>>
      PROVE  OtherTypes' /\ LockSound'
  <2>1. holder = t /\ entry.conn = t /\ entry \in Entries /\ t \notin initialized
    BY <1>5, ClientAssumption DEF NoEntry
  <2>2. entry' \in Entries /\ entry'.conn = t
    BY <1>5, <2>1 DEF Entries
  <2>3. \A u \in Conns : u # t => at[u] \notin {"spawning", "handshake", "backoff", "closing"}
    BY <2>1
  <2> QED
    BY <1>5, <2>1, <2>2, <2>3
<1>6. ASSUME Fails(t), at[t] \in {"spawning", "handshake", "backoff"},
             UNCHANGED <<transport, initialized, told, listing, handed, forced, cache>>
      PROVE  OtherTypes' /\ LockSound'
  <2>1. entry \in Entries
    BY <1>6, ClientAssumption DEF NoEntry
  <2>2. entry' = [entry EXCEPT !.state = "failed", !.suppressed = entry.suppressed]
        /\ entry.suppressed \in BOOLEAN
    BY <1>6, <2>1 DEF Fails, Entries
  <2> QED
    BY <1>5, <1>6, <2>2 DEF Fails
<1>7. CASE SpawnFails(t) \/ Retry(t)
  BY <1>6, <1>7 DEF SpawnFails, Retry, clientVars
<1>8. CASE HandshakeBroken(t)
  BY <1>6, <1>8 DEF HandshakeBroken, TimesOut, SendFails
<1>9. CASE HandshakeRejected(t)
  <2>1. entry \in Entries
    BY <1>9, ClientAssumption DEF NoEntry, HandshakeRejected
  <2>2. \E st \in {"reconnecting", "needs_auth", "failed"}, b \in BOOLEAN :
          entry' = [entry EXCEPT !.state = st, !.suppressed = b]
    <3>1. CASE entry' = [entry EXCEPT !.state = "needs_auth", !.suppressed = TRUE]
      BY <3>1
    <3>2. CASE entry' = [entry EXCEPT !.state = "reconnecting"]
      <4>1. entry' = [entry EXCEPT !.state = "reconnecting", !.suppressed = entry.suppressed]
            /\ entry.suppressed \in BOOLEAN
        BY <2>1, <3>2 DEF Entries
      <4> QED
        BY <4>1
    <3> QED
      BY <1>9, <3>1, <3>2 DEF HandshakeRejected
  <2> QED
    BY <1>5, <1>9, <2>2 DEF HandshakeRejected, Failed
<1>10. CASE Connected(t)
  <2>1. /\ at[t] = "handshake" /\ at' = [at EXCEPT ![t] = "done"] /\ holder' = NoCaller
        /\ entry' = [entry EXCEPT !.state = "connected"] /\ handed' = handed \cup {t}
        /\ initialized' = initialized \cup {t}
        /\ UNCHANGED <<transport, told, listing, forced, cache>>
    BY <1>10 DEF Connected, Answered
  <2>2. holder = t /\ entry.conn = t /\ entry \in Entries
    BY <2>1, ClientAssumption DEF NoEntry
  <2>3. entry' \in Entries /\ entry'.conn = t /\ entry'.state = "connected"
    BY <2>1, <2>2 DEF Entries
  <2>4. \A u \in Conns : u # t => at[u] \notin {"spawning", "handshake", "backoff", "closing"}
    BY <2>2
  <2> QED
    BY <2>1, <2>2, <2>3, <2>4
<1>11. CASE Disconnect(t)
  <2>1. /\ at[t] = "wanting" /\ holder = NoCaller
        /\ UNCHANGED <<told, listing, handed, forced, cache>>
    BY <1>11 DEF Disconnect, Enters, LockFree
  <2>2. \A u \in Conns : at[u] \notin {"spawning", "handshake", "backoff", "closing"}
    BY <2>1, RuntimeAssumption
  <2>3. CASE entry.conn = NoConn
    BY <1>11, <2>1, <2>2, <2>3 DEF Disconnect
  <2>4. CASE entry.conn # NoConn
    <3>1. entry.conn \in Conns
      BY <2>4 DEF Entries, NoEntry
    <3>2. CASE transport[entry.conn] = "open"
      BY <1>11, <2>1, <2>2, <2>4, <3>1, <3>2 DEF Disconnect, RejectAll
    <3>3. CASE transport[entry.conn] # "open"
      BY <1>11, <2>1, <2>2, <2>4, <3>1, <3>3 DEF Disconnect, EmitClose, RejectAll
    <3> QED
      BY <3>2, <3>3
  <2> QED
    BY <2>3, <2>4
<1>12. CASE Terminated(t)
  <2>1. /\ at[t] = "closing" /\ at' = [at EXCEPT ![t] = "done"] /\ holder' = NoCaller
        /\ entry' = NoEntry
        /\ transport' = [transport EXCEPT ![entry.conn] = "closed"]
        /\ initialized' = initialized \ {entry.conn}
        /\ UNCHANGED <<told, listing, handed, forced, cache>>
    BY <1>12 DEF Terminated, EmitClose, RejectAll
  <2>2. holder = t /\ entry.conn \in Conns
    BY <2>1
  <2>3. \A u \in Conns : u # t => at[u] \notin {"spawning", "handshake", "backoff", "closing"}
    BY <2>2
  <2> QED
    BY <2>1, <2>2, <2>3
<1>13. CASE CancelCaller(t)
  <2>1. /\ at[t] \in {"wanting", "spawning", "handshake", "backoff", "closing"}
        /\ at' = [at EXCEPT ![t] = "done"]
        /\ holder' = IF holder = t THEN NoCaller ELSE holder
        /\ UNCHANGED <<transport, initialized, told, listing, entry, handed, forced, cache>>
    BY <1>13 DEF CancelCaller, Cancelled, clientVars
  <2> QED
    BY <2>1
<1>14. CASE SentHandshake(t)
  BY <1>14 DEF SentHandshake, Sent, managerVars
<1> QED
  BY <1>1, <1>2, <1>3, <1>4, <1>7, <1>8, <1>9, <1>10, <1>11, <1>12, <1>13, <1>14
  DEF Caller, Enter, Proceed

\* A step of whoever uses a client, of the server, or of time.
LEMMA OtherStep ==
  ASSUME IInv, UNCHANGED setup, (\E r \in uses : User(r)) \/ Environment \/ UNCHANGED allVars
  PROVE  OtherTypes' /\ LockSound'
<1> USE DEF IInv, TypeOK, ClientTypeOK, LockSound, OtherTypes, setup, managerVars
<1>1. CASE UNCHANGED allVars
  BY <1>1 DEF allVars, clientVars
<1>2. ASSUME NEW r \in uses, User(r)
      PROVE  OtherTypes' /\ LockSound'
  <2>1. UNCHANGED <<transport, initialized, managerVars, told, listing>>
    BY <1>2 DEF User, SentRequest, Sent, Interrupted, SendFails, Failed, TimesOut, Abandon,
                Cancelled, Discover, Begins, Request, Sends, RequestRefused, DiscoverCached,
                Discovered, Answered, CallAnswered
  <2>2. cache' = NoList \/ cache' \in [from : Conns, list : 0..MaxChanges]
    <3>1. CASE r \in Discoveries /\ Discovered(r)
      <4>1. stage[r] = "waiting" /\ r \in Ids
        BY <3>1 DEF Discovered, Answered, Ids, Requests
      <4>2. conn[r] \in Conns
        BY <4>1 DEF RequestsSound
      <4> QED
        BY <3>1, <4>2 DEF Discovered
    <3>2. CASE ~(r \in Discoveries /\ Discovered(r))
      <4>1. cache' = cache
        BY <1>2, <3>2 DEF User, SentRequest, Interrupted, Abandon, Discover, Begins,
                          DiscoverCached, CallAnswered
      <4> QED
        BY <4>1
    <3> QED
      BY <3>1, <3>2
  <2> QED
    BY <2>1, <2>2
<1>3. ASSUME NEW k \in Conns, ReadAnswer(k), UNCHANGED <<managerVars, cache>>
      PROVE  OtherTypes' /\ LockSound'
  <2>1. listing' \in [Discoveries -> 0..MaxChanges]
    BY <1>3 DEF ReadAnswer
  <2> QED
    BY <1>3, <2>1 DEF ReadAnswer
<1>4. ASSUME NEW k \in Conns, ToolsChanged(k)
      PROVE  OtherTypes' /\ LockSound'
  <2>1. told[k] + 1 \in 0..MaxChanges
    BY <1>4, ClientAssumption DEF ToolsChanged, ReadChange
  <2> QED
    BY <1>4, <2>1 DEF ToolsChanged, ReadChange
<1>5. ASSUME NEW k \in Conns, ReadGarbage(k), UNCHANGED <<managerVars, cache>>
      PROVE  OtherTypes' /\ LockSound'
  BY <1>5 DEF ReadGarbage
<1>6. ASSUME NEW k \in Conns, ReadLoopEnds(k), UNCHANGED <<managerVars, cache>>
      PROVE  OtherTypes' /\ LockSound'
  <2>1. /\ transport' = [transport EXCEPT ![k] = "closed"]
        /\ initialized' = initialized \ {k}
        /\ UNCHANGED <<told, listing>>
    BY <1>6 DEF ReadLoopEnds, EmitClose, RejectAll
  <2> QED
    BY <1>6, <2>1
<1>7. CASE CacheExpires
  BY <1>7 DEF CacheExpires, clientVars
<1>8. CASE SuppressionEnds
  <2>1. entry \in Entries
    BY <1>8 DEF SuppressionEnds, NoEntry
  <2>2. entry' \in Entries /\ entry'.conn = entry.conn /\ entry'.state = entry.state
    BY <1>8, <2>1 DEF SuppressionEnds, Entries
  <2> QED
    BY <1>8, <2>2 DEF SuppressionEnds, clientVars
<1> QED
  BY <1>1, <1>2, <1>3, <1>4, <1>5, <1>6, <1>7, <1>8 DEF Environment

-----------------------------------------------------------------------------
(* The theorems. *)

\* The initial states satisfy the invariant.
LEMMA InitIInv == Init => IInv
<1> SUFFICES ASSUME Init PROVE IInv
  OBVIOUS
<1> USE DEF Init, InitClient
<1>1. ClientTypeOK
  BY ClientAssumption DEF ClientTypeOK
<1>2. TypeOK
  <2>1. PICK s \in Setups : op = s.op /\ uses = s.uses
    OBVIOUS
  <2>2. s = [op |-> op, uses |-> uses]
    BY <2>1, RuntimeAssumption
  <2> QED
    BY <1>1, <2>1, <2>2 DEF TypeOK
<1>3. RequestsSound /\ LockSound
  BY DEF RequestsSound, LockSound
<1> QED
  BY <1>2, <1>3 DEF IInv

\* Every step keeps it.
LEMMA NextIInv == IInv /\ [Next]_allVars => IInv'
<1> SUFFICES ASSUME IInv, [Next]_allVars PROVE IInv'
  OBVIOUS
<1>1. RequestTypes' /\ RequestsSound'
  BY NextRequests
<1>2. UNCHANGED setup
  BY DEF Next, allVars
<1>3. OtherTypes' /\ LockSound'
  BY <1>2, CallerStep, OtherStep DEF Next, Step
<1> QED
  BY <1>1, <1>3 DEF IInv, TypeOK, ClientTypeOK, RequestTypes, OtherTypes

\* The manager, its clients and their requests never leave the invariant.
THEOREM Invariant == Spec => []IInv
BY InitIInv, NextIInv, PTL DEF Spec

\* In whatever order answers, garbage, closing and the end of the read loop
\* come, whoever waits is in a table that will wake it.
THEOREM NobodyForgottenHolds == Spec => []NobodyForgotten
<1>1. IInv => NobodyForgotten
  BY DEF IInv, RequestsSound, NobodyForgotten
<1> QED
  BY <1>1, Invariant, PTL

\* Of requests that ended, only cancelled ones are left in the table.
THEOREM PendingHolds == Spec => []PendingHasOwner
<1>1. IInv => PendingHasOwner
  BY DEF IInv, TypeOK, ClientTypeOK, RequestsSound, PendingHasOwner
<1> QED
  BY <1>1, Invariant, PTL

\* However many callers connect, disconnect or are cancelled at once, a client
\* that serves is the one of the table, unless force_new replaced it.
THEOREM TrackedHolds == Spec => []ServedIsTracked
<1>1. IInv => ServedIsTracked
  BY DEF IInv, LockSound, ServedIsTracked
<1> QED
  BY <1>1, Invariant, PTL
-----------------------------------------------------------------------------
(* The lock is never lost: what CallsEnd needs besides fairness.               *)

\* Where a caller of the manager is decides what its handshake may be doing.
Handshakes ==
  \A t \in Conns :
    /\ at[t] = "handshake" => stage[t] \in {"sending", "waiting"}
    /\ at[t] \in {"idle", "wanting", "spawning"} => stage[t] = "idle"

\* The lock is held by a caller that is between two awaits of the manager.
HeldWithin == holder # NoCaller => at[holder] \in {"spawning", "handshake", "backoff", "closing"}

\* Whoever holds the manager's lock can go on without anybody who waits for it:
\* its transport starts or does not, its handshake is still being sent, or
\* awaited with a time-out, it backs off, or it terminates the process of a
\* connection that exists.
HolderMoves ==
  holder # NoCaller =>
    /\ holder \in Conns
    /\ \/ at[holder] \in {"spawning", "backoff"}
       \/ at[holder] = "handshake" /\ stage[holder] \in {"sending", "waiting"}
       \/ at[holder] = "closing" /\ entry.conn \in Conns

\* Steps that move neither the manager's callers nor their handshakes.
LEMMA BystandersRest ==
  ASSUME IInv, (\E r \in uses : User(r)) \/ Environment \/ UNCHANGED allVars
  PROVE  at' = at /\ holder' = holder /\ \A t \in Conns : stage'[t] = stage[t]
<1> USE DEF managerVars
<1>1. CASE UNCHANGED allVars
  BY <1>1 DEF allVars, clientVars, requestVars
<1>2. CASE Environment
  BY <1>2 DEF Environment, ToolsChanged, ReadChange, ReadAnswer, ReadGarbage, ReadLoopEnds,
              SuppressionEnds, CacheExpires, clientVars, requestVars
<1>3. ASSUME NEW r \in uses, User(r)
      PROVE  at' = at /\ holder' = holder /\ \A t \in Conns : stage'[t] = stage[t]
  <2>1. r \notin Conns /\ stage \in [Ids -> {"idle", "sending", "waiting", "done"}]
    BY UsesAreRequests, ClientAssumption DEF IInv, TypeOK, ClientTypeOK
  <2>2. at' = at /\ holder' = holder
    BY <1>3 DEF User, SentRequest, Interrupted, Abandon, Discover, Begins, DiscoverCached,
                Discovered, CallAnswered
  <2>3. \E x : stage' = [stage EXCEPT ![r] = x]
    BY <1>3 DEF User, SentRequest, Sent, Interrupted, SendFails, Failed, TimesOut, Abandon,
                Cancelled, Discover, Begins, Request, Sends, RequestRefused, DiscoverCached,
                Discovered, Answered, CallAnswered, Ended
  <2> QED BY <2>1, <2>2, <2>3 DEF Ids
<1> QED BY <1>1, <1>2, <1>3

\* A caller's step moves that caller and its own handshake.
LEMMA CallerKeepsHandshakes ==
  ASSUME IInv, Handshakes, NEW t \in Conns, Caller(t)
  PROVE  Handshakes'
<1>1. /\ at \in [Conns -> {"idle", "wanting", "spawning", "handshake", "backoff", "closing", "done"}]
      /\ stage \in [Ids -> {"idle", "sending", "waiting", "done"}]
      /\ t \in Ids /\ Conns \subseteq Ids
  BY DEF IInv, TypeOK, ClientTypeOK, Ids
<1> USE DEF Handshakes, Goes, Returns, Ended
<1>2. CASE Ask(t) \/ Refuse(t) \/ Reuse(t) \/ Create(t) \/ SpawnFails(t) \/ Retry(t)
  BY <1>1, <1>2 DEF Ask, Refuse, Reuse, Create, Enters, SpawnFails, Retry, Fails, clientVars, requestVars
<1>3. CASE Spawned(t)
  BY <1>1, <1>3 DEF Spawned, Sends
<1>4. CASE Connected(t) \/ HandshakeBroken(t)
  BY <1>1, <1>4 DEF Connected, Answered, HandshakeBroken, TimesOut, SendFails, Fails
<1>5. CASE HandshakeRejected(t)
  <2>1. at'[t] \in {"done", "backoff"}
        /\ (\A u \in Conns : u # t => at'[u] = at[u] /\ stage'[u] = stage[u])
    BY <1>1, <1>5 DEF HandshakeRejected, Failed
  <2> QED BY <2>1
<1>6. CASE Disconnect(t) \/ Terminated(t)
  BY <1>1, <1>6 DEF Disconnect, Enters, Terminated
<1>7. CASE CancelCaller(t)
  <2>1. at'[t] = "done" /\ (\A u \in Conns : u # t => at'[u] = at[u] /\ stage'[u] = stage[u])
    BY <1>1, <1>7 DEF CancelCaller, Cancelled, clientVars, requestVars
  <2> QED BY <2>1
<1>8. CASE SentHandshake(t)
  BY <1>1, <1>8 DEF SentHandshake, Sent, managerVars
<1> QED BY <1>2, <1>3, <1>4, <1>5, <1>6, <1>7, <1>8 DEF Caller, Enter, Proceed

\* A caller takes the lock as it goes to an await of the manager, and leaves it
\* wherever it is cancelled, refused or done.
LEMMA CallerKeepsLock ==
  ASSUME IInv, HeldWithin, NEW t \in Conns, Caller(t)
  PROVE  HeldWithin'
<1>1. /\ at \in [Conns -> {"idle", "wanting", "spawning", "handshake", "backoff", "closing", "done"}]
      /\ holder \in Conns \cup {NoCaller}
      /\ at[t] \in {"spawning", "handshake", "backoff", "closing"} => holder = t
  BY DEF IInv, TypeOK, LockSound
<1> USE DEF HeldWithin, Goes, Returns
<1>2. CASE Refuse(t) \/ Reuse(t) \/ SpawnFails(t) \/ Retry(t) \/ Connected(t) \/ HandshakeBroken(t)
           \/ Terminated(t)
  BY <1>2 DEF Refuse, Reuse, SpawnFails, Retry, Connected, HandshakeBroken, Fails, Terminated
<1>3. CASE Create(t) \/ Spawned(t)
  BY <1>1, <1>3 DEF Create, Spawned
<1>4. CASE HandshakeRejected(t) \/ Disconnect(t)
  BY <1>1, <1>4 DEF HandshakeRejected, Disconnect
<1>5. CASE Ask(t) \/ CancelCaller(t) \/ SentHandshake(t)
  BY <1>1, <1>5 DEF Ask, CancelCaller, SentHandshake, managerVars
<1> QED BY <1>2, <1>3, <1>4, <1>5 DEF Caller, Enter, Proceed

\* The lock of the manager is never lost, wherever its holder is cancelled, and
\* its holder never waits for another caller.
THEOREM HolderMovesHolds == Spec => []HolderMoves
<1>1. Init => Handshakes /\ HeldWithin
  BY DEF Init, InitClient, Handshakes, HeldWithin, Ids
<1>2. IInv /\ Handshakes /\ HeldWithin /\ [Next]_allVars => Handshakes' /\ HeldWithin'
  <2> SUFFICES ASSUME IInv, Handshakes, HeldWithin, [Next]_allVars
               PROVE  Handshakes' /\ HeldWithin'
    OBVIOUS
  <2>1. CASE \E t \in Conns : Caller(t)
    BY <2>1, CallerKeepsHandshakes, CallerKeepsLock
  <2>2. CASE (\E r \in uses : User(r)) \/ Environment \/ UNCHANGED allVars
    BY <2>2, BystandersRest DEF Handshakes, HeldWithin
  <2> QED BY <2>1, <2>2 DEF Next, Step
<1>3. IInv /\ Handshakes /\ HeldWithin => HolderMoves
  BY DEF IInv, TypeOK, LockSound, Handshakes, HeldWithin, HolderMoves
<1> QED BY <1>1, <1>2, <1>3, Invariant, PTL DEF Spec

-----------------------------------------------------------------------------
(* Outcomes are final.                                                         *)

\* A future is resolved once, although answers, garbage, closing, time-outs and
\* cancellations race for it (asyncio raises InvalidStateError the second
\* time), and a call that has ended keeps its outcome.
OutcomesFinal ==
  [][\A r \in Ids :
       /\ future[r] # "open" => future'[r] = future[r]
       /\ stage[r] = "done" => stage'[r] = "done" /\ result'[r] = result[r]]_allVars

\* What may happen to the outcome of one request.
Keeps(r) ==
  /\ future[r] # "open" => future'[r] = future[r]
  /\ stage[r] = "done" => stage'[r] = "done" /\ result'[r] = result[r]

LEMMA RejectionsKeep ==
  ASSUME RequestTypes, NEW k, future' = Rejected(k), UNCHANGED <<stage, result>>, NEW r \in Ids
  PROVE  Keeps(r)
BY DEF RequestTypes, Rejected, Keeps

\* The request of one caller moves on, and no other.
LEMMA RequestMovesKeep ==
  ASSUME RequestTypes, NEW q \in Ids, NEW r \in Ids,
         \/ Sent(q) \/ SendFails(q) \/ Answered(q) \/ Failed(q) \/ TimesOut(q) \/ Cancelled(q)
         \/ \E k \in Conns : Sends(q, k) \/ RequestRefused(q, k)
  PROVE  Keeps(r)
BY DEF RequestTypes, Keeps, Sent, SendFails, Answered, Failed, TimesOut, Cancelled, Sends,
       RequestRefused, Ended, Forsaken

LEMMA CallersKeep ==
  ASSUME IInv, NEW t \in Conns, Caller(t), NEW r \in Ids
  PROVE  Keeps(r)
<1>1. RequestTypes /\ t \in Ids
  BY TypesOfRequests DEF IInv, Ids
<1>2. CASE UNCHANGED clientVars
  BY <1>2 DEF clientVars, requestVars, Keeps
<1>3. CASE Sent(t) \/ SendFails(t) \/ Answered(t) \/ Failed(t) \/ TimesOut(t) \/ Cancelled(t) \/ Sends(t, t)
  BY <1>1, <1>3, RequestMovesKeep
<1>4. CASE Disconnect(t) \/ Terminated(t)
  <2>1. UNCHANGED <<stage, result>> /\ (future' = future \/ \E k : future' = Rejected(k))
    BY <1>4 DEF Disconnect, Terminated, EmitClose, RejectAll
  <2> QED BY <1>1, <2>1, RejectionsKeep DEF Keeps
<1> QED
  BY <1>2, <1>3, <1>4
  DEF Caller, Enter, Proceed, Ask, Refuse, Reuse, Create, Spawned, SpawnFails, Connected,
      HandshakeRejected, HandshakeBroken, Retry, CancelCaller, SentHandshake

LEMMA OthersKeep ==
  ASSUME IInv, (\E q \in uses : User(q)) \/ Environment \/ UNCHANGED allVars, NEW r \in Ids
  PROVE  Keeps(r)
<1>1. RequestTypes /\ uses \subseteq Ids
  BY TypesOfRequests, UsesAreRequests DEF IInv, Ids
<1>2. CASE UNCHANGED clientVars
  BY <1>2 DEF clientVars, requestVars, Keeps
<1>3. ASSUME NEW q \in uses, User(q) PROVE Keeps(r)
  <2>1. CASE DiscoverCached(q)
    BY <1>1, <2>1 DEF DiscoverCached, Ended, Keeps, RequestTypes
  <2>2. CASE ~DiscoverCached(q)
    <3>1. \/ Sent(q) \/ SendFails(q) \/ Answered(q) \/ Failed(q) \/ TimesOut(q) \/ Cancelled(q)
          \/ \E k \in Conns : Sends(q, k) \/ RequestRefused(q, k)
      BY <1>3, <2>2 DEF User, SentRequest, Interrupted, Abandon, Discover, Begins, Request,
                        Discovered, CallAnswered, IInv, TypeOK
    <3> QED BY <1>1, <3>1, RequestMovesKeep
  <2> QED BY <2>1, <2>2
<1>4. CASE Environment
  <2>1. ASSUME NEW k \in Conns, ReadAnswer(k) PROVE Keeps(r)
    BY <1>1, <2>1 DEF ReadAnswer, RequestTypes, Keeps
  <2>2. ASSUME NEW k \in Conns, ReadGarbage(k) \/ ReadLoopEnds(k) PROVE Keeps(r)
    BY <1>1, <2>2, RejectionsKeep DEF ReadGarbage, ReadLoopEnds, EmitClose, RejectAll
  <2>3. ASSUME NEW k \in Conns, ToolsChanged(k) PROVE Keeps(r)
    BY <2>3 DEF ToolsChanged, ReadChange, requestVars, Keeps
  <2> QED BY <1>2, <1>4, <2>1, <2>2, <2>3 DEF Environment, SuppressionEnds, CacheExpires
<1> QED BY <1>2, <1>3, <1>4 DEF allVars

\* Whatever races for a request, the first to resolve it decides.
THEOREM OutcomesFinalHold == Spec => OutcomesFinal
<1>1. IInv /\ [Next]_allVars
        => [\A r \in Ids :
              /\ future[r] # "open" => future'[r] = future[r]
              /\ stage[r] = "done" => stage'[r] = "done" /\ result'[r] = result[r]]_allVars
  BY CallersKeep, OthersKeep DEF Next, Step, Keeps
<1> QED BY <1>1, Invariant, PTL DEF Spec, OutcomesFinal
=============================================================================
