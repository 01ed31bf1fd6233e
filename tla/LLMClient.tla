------------------------------ MODULE LLMClient ------------------------------
(***************************************************************************)
(* LLMClientWrapper (models/client.py): complete() with its response       *)
(* cache, token budget, prompt and response sanitisers, and                *)
(* complete_stream(), by callers that share the router with those of       *)
(* call_with_fallback.  Unlike these, the client's calls take neither the  *)
(* bulkhead nor the probe lock.                                            *)
(*                                                                         *)
(* All callers of a tier send the same prompt, so the cache has one entry  *)
(* for each tier.  PromptTokens is its size, Totals what a call may turn   *)
(* out to have used.                                                       *)
(***************************************************************************)
EXTENDS SmartRouter

CONSTANTS
  MaxTokens,     \* budget.max_tokens
  PromptTokens,
  Totals

ASSUME ClientAssumption ==
  /\ MaxTokens \in Nat /\ PromptTokens \in Nat
  /\ Totals \subseteq Nat

VARIABLES
  cached,     \* tiers whose prompt has a fresh entry in the cache
  used,       \* budget.used_tokens
  tokens,     \* what the answer a caller is checking used
  refused,    \* history: consume() returned False
  excused     \* history: ... and the estimate could not know better

clientVars == <<cached, used, tokens, refused, excused>>
allVars    == <<vars, clientVars>>

-----------------------------------------------------------------------------
(* Faulty variants of the decisions below, each with one plausible bug.        *)

CanAffordPromptOnly      == used + PromptTokens <= MaxTokens
ConsumedBeyond(n)        == used + n

-----------------------------------------------------------------------------

CanAfford == used + 2 * PromptTokens <= MaxTokens

\* consume(): all or nothing.
Fits(n)     == used + n <= MaxTokens
Consumed(n) == IF Fits(n) THEN used + n ELSE used

\* Others that may draw on the budget between this call's check and its end.
Spending(c) == {d \in Callers \ {c} : via[d] # "router" /\ pc[d] \notin Idle}

Consume(c, n) ==
  /\ used' = Consumed(n)
  /\ refused' = (refused \/ ~Fits(n))
  /\ excused' = (excused \/ via[c] = "stream" \/ n > 2 * PromptTokens \/ Spending(c) # {})

InitClient ==
  /\ InitRouter
  /\ cached = {}
  /\ used = 0
  /\ tokens = [c \in Callers |-> 0]
  /\ refused = FALSE /\ excused = FALSE

-----------------------------------------------------------------------------
(* complete() *)

\* Only a prompt without a fresh entry is sent; a hit returns at once.
BeginComplete(c) ==
  /\ \E t \in Tiers \ cached : BeginCall(c, "client", t, "screening")
  /\ UNCHANGED <<routerVars, cached, used, tokens, refused, excused>>

\* The sanitiser passes the prompt, or it is blocked.
Screened(c) ==
  /\ pc[c] = "screening" /\ via[c] = "client"
  /\ \/ Goto(c, "choosing") /\ UNCHANGED <<tier, turns, tried, model, probe>>
     \/ EndCall(c, "idle")
  /\ UNCHANGED <<routerVars, clientVars>>

StartComplete(c) ==
  /\ Choosing(c, "client") /\ TurnLeft(c)
  /\ CanAfford
  /\ \E m \in Selectable(tier[c]) \ tried[c] : CallModel(c, m)
  /\ UNCHANGED clientVars

\* ValueError: budget exceeded.
OverBudget(c) ==
  /\ Choosing(c, "client") /\ TurnLeft(c)
  /\ ~CanAfford
  /\ Selectable(tier[c]) \ tried[c] # {}
  /\ stats' = AfterSearch(tier[c])
  /\ EndCall(c, "idle")
  /\ UNCHANGED <<unavailable, saved, clientVars>>

\* The outcome is recorded before the answer is checked.
BackendAnswers(c) ==
  /\ pc[c] = "calling" /\ via[c] = "client"
  /\ RecordSuccess(model[c])
  /\ \E n \in Totals : tokens' = [tokens EXCEPT ![c] = n]
  /\ Goto(c, "checking")
  /\ UNCHANGED <<tier, turns, tried, model, probe, cached, used, refused, excused>>

BackendFails(c) ==
  /\ pc[c] = "calling" /\ via[c] = "client"
  /\ RecordError(model[c])
  /\ Retry(c)
  /\ UNCHANGED clientVars

\* An exception of the response sanitiser counts against the model.
CheckRaises(c) ==
  /\ pc[c] = "checking"
  /\ RecordError(model[c])
  /\ Retry(c)
  /\ UNCHANGED clientVars

Stored(c) == cached \cup {tier[c]}

Completes(c) ==
  /\ enableCache
  /\ pc[c] = "checking"
  /\ Consume(c, tokens[c])
  /\ cached' = Stored(c)
  /\ EndCall(c, "idle")
  /\ tokens' = [tokens EXCEPT ![c] = 0]
  /\ UNCHANGED routerVars

\* Without the cache no key was computed: _set_cached(cache_key, ...) raises
\* UnboundLocalError inside the try block, after the budget was charged.
CacheKeyUnbound(c) ==
  /\ ~enableCache
  /\ pc[c] = "checking"
  /\ Consume(c, tokens[c])
  /\ RecordFailure(model[c])
  /\ Retry(c)
  /\ UNCHANGED <<cached, tokens>>

-----------------------------------------------------------------------------
(* complete_stream(): one model, chosen before the prompt is screened. *)

BeginStream(c) ==
  /\ \E t \in Tiers : BeginCall(c, "stream", t, "choosing")
  /\ UNCHANGED <<routerVars, clientVars>>

ChooseStream(c) ==
  /\ Choosing(c, "stream")
  /\ stats' = AfterSearch(tier[c])
  /\ UNCHANGED <<unavailable, saved, clientVars>>
  /\ IF Selectable(tier[c]) = {} THEN EndCall(c, "failed")
     ELSE /\ \E m \in Selectable(tier[c]) : model' = [model EXCEPT ![c] = m]
          /\ Goto(c, "screening")
          /\ UNCHANGED <<tier, turns, tried, probe>>

ScreenedStream(c) ==
  /\ pc[c] = "screening" /\ via[c] = "stream"
  /\ \/ /\ Goto(c, "calling")
        /\ probe' = [probe EXCEPT ![c] = stats[model[c]].circuit = "half_open"]
        /\ UNCHANGED <<tier, turns, tried, model>>
     \/ EndCall(c, "idle")
  /\ UNCHANGED <<routerVars, clientVars>>

StreamEnds(c) ==
  /\ pc[c] = "calling" /\ via[c] = "stream"
  /\ RecordSuccess(model[c])
  /\ \E n \in Totals : Consume(c, n)
  /\ EndCall(c, "idle")
  /\ UNCHANGED <<cached, tokens>>

StreamFails(c) ==
  /\ pc[c] = "calling" /\ via[c] = "stream"
  /\ RecordFailure(model[c])
  /\ EndCall(c, "failed")
  /\ UNCHANGED clientVars

-----------------------------------------------------------------------------

CacheExpires(t) ==
  /\ t \in cached
  /\ cached' = cached \ {t}
  /\ UNCHANGED <<routerVars, callVars, used, tokens, refused, excused>>

Restart ==
  /\ Reload
  /\ cached' = {}
  /\ used' = 0
  /\ UNCHANGED <<tokens, refused, excused>>

\* What a call does next once begun.
ClientCall(c) ==
  \/ Screened(c) \/ StartComplete(c) \/ OverBudget(c)
  \/ BackendAnswers(c) \/ BackendFails(c)
  \/ CheckRaises(c) \/ Completes(c) \/ CacheKeyUnbound(c)
  \/ ChooseStream(c) \/ ScreenedStream(c) \/ StreamEnds(c) \/ StreamFails(c)
  \/ UNCHANGED clientVars /\ (Exhausted(c, "client") \/ NothingNew(c, "client"))

Call(c) == ClientCall(c) \/ (RouterCall(c) /\ UNCHANGED clientVars)

Begin(c) ==
  \/ BeginFallback(c) /\ UNCHANGED clientVars
  \/ BeginComplete(c) \/ BeginStream(c)

Step ==
  \/ \E c \in Callers : Begin(c) \/ Call(c) \/ (CancelCall(c) /\ UNCHANGED clientVars)
  \/ \E m \in Models : Passing(m) /\ UNCHANGED clientVars
  \/ \E t \in Tiers : CacheExpires(t)
  \/ Restart

Next == Step /\ UNCHANGED setup

Spec == InitClient /\ [][Next]_allVars

-----------------------------------------------------------------------------
(* Properties. *)

TypeOK ==
  /\ [chain |-> chain, via |-> via, cache |-> enableCache] \in Setups
  /\ stats \in [Models -> Stats]
  /\ saved \in [Models -> Stats]
  /\ unavailable \subseteq Models
  /\ pc \in [Callers -> Idle \cup {"screening", "choosing", "calling", "checking"}]
  /\ tier \in [Callers -> Tiers \cup {NoTier}]
  /\ turns \in [Callers -> 0..MaxRetries]
  /\ tried \in [Callers -> SUBSET Models]
  /\ model \in [Callers -> Models \cup {NoModel}]
  /\ probe \in [Callers -> BOOLEAN]
  /\ cached \subseteq Tiers
  /\ used \in 0..MaxTokens
  /\ tokens \in [Callers -> Totals \cup {0}]
  /\ refused \in BOOLEAN /\ excused \in BOOLEAN

\* Tokens escape the budget (consume() refuses and counts nothing, 119-128)
\* only if calls overlapped, an answer was longer than the estimate of twice
\* the prompt, or a stream, which is never checked, took part.
RefusalHasCause == refused => excused
=============================================================================
