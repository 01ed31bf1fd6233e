----------------------------- MODULE SmartRouter -----------------------------
(***************************************************************************)
(* SmartModelRouter (models/smart_router.py) with the availability of      *)
(* ModelRouter (models/router.py): selection by tier with cross-tier       *)
(* degradation, call_with_fallback by several concurrent callers, the      *)
(* recording of outcomes in the models' circuit breakers, the statistics   *)
(* file, and restarts of the process.                                      *)
(*                                                                         *)
(* Selection, readiness check and the start of a call run without an       *)
(* await and are one action.  asyncio's semaphore and lock are taken       *)
(* without a switch when they are free, so neither is a variable: who      *)
(* holds them follows from the router's calls in flight, and NobodyQueues  *)
(* states that such a call never finds them taken.                         *)
(*                                                                         *)
(* Which candidate scores best, and how a backend answers, is open.        *)
(***************************************************************************)
EXTENDS CircuitBreaker, Integers, FiniteSets

CONSTANTS
  Models,
  Tiers,        \* tiers above TIER_0, as integers
  Setups,       \* the chains and kinds of callers to check, see chain and via
  Provider,     \* _extract_provider
  Limit,        \* bulkhead limit of each provider
  Callers,
  MaxRetries,   \* max_retries: turns of the loop over attempts
  NoModel,
  NoTier

ASSUME RouterAssumption ==
  /\ Tiers \subseteq Int /\ IsFiniteSet(Tiers)
  /\ Setups \subseteq [chain : [Tiers -> SUBSET Models],
                       via   : [Callers -> {"router", "client", "stream"}],
                       cache : BOOLEAN]
  /\ Limit \in [{Provider[m] : m \in Models} -> Nat \ {0}]
  /\ IsFiniteSet(Callers)
  /\ MaxRetries \in Nat \ {0}
  /\ NoModel \notin Models /\ NoTier \notin Tiers

VARIABLES
  chain,        \* parameter: get_chain, the models of each tier
  via,          \* parameter: what each caller calls, router or client (LLMClient)
  enableCache,  \* parameter: enable_cache of the client
  stats,        \* model_stats
  unavailable,  \* _unavailable_models
  saved,        \* the statistics file
  pc,           \* where each caller is
  tier,         \* the tier it asked for
  turns,        \* turns of `for _ in range(max_retries)` it has begun
  tried,        \* models it has tried
  model,        \* the model it is calling
  probe         \* was the circuit half open when it began to call it?

routerVars == <<stats, unavailable, saved>>
callVars   == <<pc, tier, turns, tried, model, probe>>
setup      == <<chain, via, enableCache>>
vars       == <<setup, routerVars, callVars>>

-----------------------------------------------------------------------------
(* Faulty variants of the decisions below, each with one plausible bug.        *)

SavedBefore(st)        == saved
EligibleIfCooling(m)   == m \notin unavailable /\ Checked(stats[m]).circuit # "open"

-----------------------------------------------------------------------------
(* Selection. *)

\* is_model_available without a health checker, which the application does
\* not set for this router.
IsAvailable(m) == m \notin unavailable

\* Passes _find_candidates_in_tier.
Eligible(m) == /\ IsAvailable(m)
               /\ Checked(stats[m]).circuit # "open"
               /\ ~stats[m].cooling

Candidates(t) == {m \in chain[t] : Eligible(m)}

\* tier_priority: the nearest tier first, of two the lower one.
Distance(t, u) == IF u < t THEN 2 * (t - u) ELSE 2 * (u - t) + 1

\* The tiers looked at: the others in turn, up to the first with candidates.
Searched(t) ==
  {t} \cup IF Candidates(t) # {} THEN {}
           ELSE {u \in Tiers \ {t} : \A v \in Tiers \ {t} :
                   Distance(t, v) < Distance(t, u) => Candidates(v) = {}}

\* The candidates get_model_for_tier chooses from.
Selectable(t) == UNION {Candidates(u) : u \in Searched(t)}

\* The search half-opens the circuits it finds recovered, chosen or not.
AfterSearch(t) ==
  [m \in Models |->
     IF IsAvailable(m) /\ \E u \in Searched(t) : m \in chain[u]
     THEN Checked(stats[m]) ELSE stats[m]]

-----------------------------------------------------------------------------
(* Bulkhead and probe lock of a provider, held by the router's calls.          *)

InFlight(p) == {c \in Callers : /\ pc[c] = "calling" /\ via[c] = "router"
                                /\ Provider[model[c]] = p}
Probing(p) == {c \in InFlight(p) : probe[c]}

\* Faulty: the readiness is tested before the search half-opens circuits.
ReadyBeforeSearch(m, st) ==
  /\ stats[m].circuit = "half_open" => Probing(Provider[m]) = {}
  /\ Cardinality(InFlight(Provider[m])) < Limit[Provider[m]]

\* _is_model_ready_for_attempt
Ready(m, st) ==
  /\ st[m].circuit = "half_open" => Probing(Provider[m]) = {}
  /\ Cardinality(InFlight(Provider[m])) < Limit[Provider[m]]

-----------------------------------------------------------------------------
(* Recording an outcome, and the file that is written each time.               *)

ToFile(st) == [m \in Models |-> Persisted(st[m])]

RecordSuccess(m) ==
  /\ stats' = [stats EXCEPT ![m] = WithSuccess(@)]
  /\ unavailable' = unavailable \ {m}
  /\ saved' = ToFile(stats')

\* A rate limit cools down as the provider says, which may be 0 seconds.
RecordRateLimit(m) ==
  /\ \E lasting \in BOOLEAN :
       stats' = [stats EXCEPT ![m] = WithCooldown(WithFailure(@), lasting)]
  /\ saved' = ToFile(stats')
  /\ UNCHANGED unavailable

\* record_failure and record_timeout
RecordFailure(m) ==
  /\ stats' = [stats EXCEPT ![m] = WithCooldown(WithFailure(@), TRUE)]
  /\ saved' = ToFile(stats')
  /\ UNCHANGED unavailable

\* "not found", "no access"
RecordPermanent(m) ==
  /\ stats' = [stats EXCEPT ![m] = WithCooldown(WithFailure(@), TRUE)]
  /\ unavailable' = unavailable \cup {m}
  /\ saved' = ToFile(stats')

RecordError(m) == RecordRateLimit(m) \/ RecordFailure(m) \/ RecordPermanent(m)

-----------------------------------------------------------------------------

\* A call that ended without an error for "all models failed" is idle again.
Idle == {"idle", "failed"}

InitRouter ==
  /\ \E s \in Setups : chain = s.chain /\ via = s.via /\ enableCache = s.cache
  /\ stats = [m \in Models |-> FreshStats]
  /\ saved = [m \in Models |-> FreshStats]
  /\ unavailable = {}
  /\ pc = [c \in Callers |-> "idle"]
  /\ tier = [c \in Callers |-> NoTier]
  /\ turns = [c \in Callers |-> 0]
  /\ tried = [c \in Callers |-> {}]
  /\ model = [c \in Callers |-> NoModel]
  /\ probe = [c \in Callers |-> FALSE]

Goto(c, label) == pc' = [pc EXCEPT ![c] = label]

\* A call has ended: its locals are gone.
EndCall(c, outcome) ==
  /\ Goto(c, outcome)
  /\ tier' = [tier EXCEPT ![c] = NoTier]
  /\ turns' = [turns EXCEPT ![c] = 0]
  /\ tried' = [tried EXCEPT ![c] = {}]
  /\ model' = [model EXCEPT ![c] = NoModel]
  /\ probe' = [probe EXCEPT ![c] = FALSE]

BeginCall(c, what, t, label) ==
  /\ pc[c] \in Idle /\ via[c] = what
  /\ tier' = [tier EXCEPT ![c] = t]
  /\ Goto(c, label)
  /\ UNCHANGED <<turns, tried, model, probe>>

\* Another turn of the loop over attempts.
Choosing(c, what) == pc[c] = "choosing" /\ via[c] = what
TurnLeft(c) == turns[c] < MaxRetries

\* The loop is used up.
Exhausted(c, what) ==
  /\ Choosing(c, what) /\ ~TurnLeft(c)
  /\ EndCall(c, "failed")
  /\ UNCHANGED routerVars

\* model is None or model in tried
NothingNew(c, what) ==
  /\ Choosing(c, what) /\ TurnLeft(c)
  /\ Selectable(tier[c]) = {} \/ \E m \in Selectable(tier[c]) : m \in tried[c]
  /\ stats' = AfterSearch(tier[c])
  /\ EndCall(c, "failed")
  /\ UNCHANGED <<unavailable, saved>>

CallModel(c, m) ==
  /\ stats' = AfterSearch(tier[c])
  /\ turns' = [turns EXCEPT ![c] = @ + 1]
  /\ tried' = [tried EXCEPT ![c] = @ \cup {m}]
  /\ model' = [model EXCEPT ![c] = m]
  /\ probe' = [probe EXCEPT ![c] = stats'[m].circuit = "half_open"]
  /\ Goto(c, "calling")
  /\ UNCHANGED <<unavailable, saved, tier>>

\* call_with_fallback
BeginFallback(c) ==
  /\ \E t \in Tiers : BeginCall(c, "router", t, "choosing")
  /\ UNCHANGED routerVars

StartAttempt(c) ==
  /\ Choosing(c, "router") /\ TurnLeft(c)
  /\ \E m \in Selectable(tier[c]) \ tried[c] :
       Ready(m, AfterSearch(tier[c])) /\ CallModel(c, m)

\* A model found busy: `continue` to a turn that finds the same statistics,
\* selects it once more and gives up, as it has been tried (or there is no
\* turn left).  So the call fails, whatever other models there are.
Busy(c) ==
  /\ Choosing(c, "router") /\ TurnLeft(c)
  /\ \E m \in Selectable(tier[c]) \ tried[c] : ~Ready(m, AfterSearch(tier[c]))
  /\ stats' = AfterSearch(tier[c])
  /\ EndCall(c, "failed")
  /\ UNCHANGED <<unavailable, saved>>

AttemptSucceeds(c) ==
  /\ pc[c] = "calling" /\ via[c] = "router"
  /\ RecordSuccess(model[c])
  /\ EndCall(c, "idle")

Retry(c) ==
  /\ Goto(c, "choosing")
  /\ model' = [model EXCEPT ![c] = NoModel]
  /\ probe' = [probe EXCEPT ![c] = FALSE]
  /\ UNCHANGED <<tier, turns, tried>>

AttemptFails(c) ==
  /\ pc[c] = "calling" /\ via[c] = "router"
  /\ RecordError(model[c])
  /\ Retry(c)

\* CancelledError passes `except Exception`: nothing is recorded.
CancelCall(c) ==
  /\ pc[c] \in {"screening", "calling", "checking"}
  /\ EndCall(c, "idle")
  /\ UNCHANGED routerVars

-----------------------------------------------------------------------------
(* Time and restart. *)

\* Deadlines are the same in memory and in the file.
RecoveryElapses(m) ==
  /\ stats[m].circuit = "open" /\ ~stats[m].recovered
  /\ stats' = [stats EXCEPT ![m] = Recovers(@)]
  /\ saved' = [saved EXCEPT ![m] = Recovers(@)]
  /\ UNCHANGED <<unavailable, callVars>>

CooldownElapses(m) ==
  /\ stats[m].cooling
  /\ stats' = [stats EXCEPT ![m] = CoolsDown(@)]
  /\ saved' = [saved EXCEPT ![m] = CoolsDown(@)]
  /\ UNCHANGED <<unavailable, callVars>>

\* A new process reads the file.
Reload ==
  /\ stats' = saved
  /\ unavailable' = {}
  /\ pc' = [c \in Callers |-> "idle"]
  /\ turns' = [c \in Callers |-> 0]
  /\ tried' = [c \in Callers |-> {}]
  /\ model' = [c \in Callers |-> NoModel]
  /\ probe' = [c \in Callers |-> FALSE]
  /\ tier' = [c \in Callers |-> NoTier]
  /\ UNCHANGED saved

RouterCall(c) ==
  \/ StartAttempt(c) \/ Busy(c) \/ AttemptSucceeds(c) \/ AttemptFails(c)
  \/ Exhausted(c, "router") \/ NothingNew(c, "router")

Passing(m) == RecoveryElapses(m) \/ CooldownElapses(m)

-----------------------------------------------------------------------------
(* Properties; LLMClient holds the specification they are about. *)

\* Every path into a state of the breaker leaves the rest of its record right:
\* only a half-open circuit has counted probes, so that a reopened one needs
\* all of them again, and it was half-opened after the recovery time, also
\* from the file and against late results.
BreakerConsistent ==
  \A m \in Models :
    /\ stats[m].circuit # "half_open" => stats[m].probes = 0
    /\ stats[m].circuit = "half_open" => stats[m].recovered

\* The readiness check leaves nothing to wait for (435-457): a call of
\* call_with_fallback that passed it finds a free slot of its provider, and a
\* free probe lock if the circuit is half open.  So none sits in the queue of
\* either, to run once the circuit it was admitted to has opened again.  It
\* says nothing of the calls turned away, which fail (Busy), nor of those of
\* the client, which take neither.
NobodyQueues ==
  \A p \in {Provider[m] : m \in Models} :
    /\ Cardinality(InFlight(p)) <= Limit[p]
    /\ \A c, d \in Probing(p) : c = d

\* The file never forgets an open circuit, and closes it only with the memory
\* (auto-save in every record_*): a crash at any point restarts with circuits
\* as they were, or with a half-open one open again.
FileAgrees ==
  \A m \in Models :
    \/ saved[m].circuit = stats[m].circuit
    \/ saved[m].circuit = "open" /\ stats[m].circuit = "half_open"

\* Only successes recorded while a circuit is half open close it, the last of
\* the number required (record_success, model_stats.py 211-216): not the late
\* success of a call that began before it opened, not a restart from any file
\* written on the way, and not probes that race with one that fails, as those
\* of the client may, which hold no probe lock.
ClosedByProbes ==
  [][\A m \in Models :
       stats[m].circuit # "closed" /\ stats'[m].circuit = "closed" =>
         /\ stats[m].circuit = "half_open"
         /\ stats[m].probes + 1 = SuccessesRequired]_vars

\* A call that begins finds the circuit not open, or its recovery time over,
\* and no cooldown: over the whole cross-tier search and all callers, an open
\* circuit rests for the recovery time counted from its last failure.
\* (complete_stream may begin later than it chose, and is excepted.)
OpenCircuitRests ==
  [][\A c \in Callers :
       pc[c] = "choosing" /\ pc'[c] = "calling" =>
         LET m == model'[c] IN
         /\ ~stats[m].cooling
         /\ stats[m].circuit = "open" => stats[m].recovered
         /\ stats'[m].circuit # "open"]_vars
=============================================================================
