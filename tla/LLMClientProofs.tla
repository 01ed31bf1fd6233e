--------------------------- MODULE LLMClientProofs ---------------------------
(***************************************************************************)
(* Safety of the router and the client, for any number of models, tiers    *)
(* and callers, any thresholds, limits and budget.                         *)
(***************************************************************************)
EXTENDS LLMClient, TLAPS, FiniteSetTheorems

\* A caller in a call has a tier, and a model once it has chosen one.
InCall ==
  \A c \in Callers :
    /\ pc[c] \notin Idle => tier[c] \in Tiers
    /\ \/ pc[c] \in {"calling", "checking"}
       \/ pc[c] = "screening" /\ via[c] = "stream"
       => model[c] \in Models

Types == TypeOK /\ InCall

\* What one recorded outcome may make of a model's statistics.
Recorded(st) ==
  {WithSuccess(st)} \cup {WithCooldown(WithFailure(st), b) : b \in BOOLEAN}

-----------------------------------------------------------------------------
(* The operators of the breaker. *)

\* The operators on a record of statistics (model_stats.py) return a record.
LEMMA BreakerTypes ==
  ASSUME NEW st \in Stats
  PROVE  /\ WithSuccess(st) \in Stats
         /\ WithFailure(st) \in Stats
         /\ \A b \in BOOLEAN : WithCooldown(st, b) \in Stats
         /\ Checked(st) \in Stats
         /\ Persisted(st) \in Stats
         /\ Recovers(st) \in Stats
         /\ CoolsDown(st) \in Stats
         /\ FreshStats \in Stats
<1> USE BreakerAssumption
<1>a. /\ 0 \in 0..FailureThreshold - 1
      /\ 0 \in 0..SuccessesRequired - 1
      /\ st.failures + 1 < FailureThreshold => st.failures + 1 \in 0..FailureThreshold - 1
      /\ st.probes + 1 < SuccessesRequired => st.probes + 1 \in 0..SuccessesRequired - 1
  BY DEF Stats
<1>b. \A y \in Stats, i \in 0..FailureThreshold - 1 : [y EXCEPT !.failures = i] \in Stats
  BY DEF Stats
<1>c. \A y \in Stats, i \in 0..SuccessesRequired - 1 : [y EXCEPT !.probes = i] \in Stats
  BY DEF Stats
<1>d. \A y \in Stats, k \in Circuits, b \in BOOLEAN :
        [y EXCEPT !.circuit = k, !.recovered = b] \in Stats
  BY DEF Stats
<1>e. [st EXCEPT !.failures = 0, !.probes = 0] \in Stats
  <2>1. [[st EXCEPT !.failures = 0] EXCEPT !.probes = 0] \in Stats
    BY <1>a, <1>b, <1>c
  <2>2. [[st EXCEPT !.failures = 0] EXCEPT !.probes = 0] = [st EXCEPT !.failures = 0, !.probes = 0]
    BY DEF Stats
  <2> QED  BY <2>1, <2>2
<1>f. \A y \in Stats, k \in Circuits, b \in BOOLEAN :
        [y EXCEPT !.circuit = k, !.probes = 0, !.recovered = b] \in Stats
  BY <1>a DEF Stats
<1>1. WithSuccess(st) \in Stats
  <2>1. [st EXCEPT !.failures = 0] \in Stats
    BY <1>a, <1>b
  <2>2. [st EXCEPT !.circuit = "closed", !.probes = 0, !.recovered = FALSE] \in Stats
    BY <1>f DEF Circuits
  <2>3. st.probes + 1 < SuccessesRequired => [st EXCEPT !.probes = @ + 1] \in Stats
    BY <1>a, <1>c
  <2> QED  BY <2>1, <2>2, <2>3 DEF WithSuccess
<1>2. WithFailure(st) \in Stats
  <2>1. st.failures + 1 < FailureThreshold => [st EXCEPT !.failures = @ + 1] \in Stats
    BY <1>a, <1>b
  <2>2. Opened(st) \in Stats
    <3>1. [[st EXCEPT !.failures = 0, !.probes = 0] EXCEPT !.circuit = "open", !.recovered = FALSE]
            \in Stats
      BY <1>e, <1>d DEF Circuits
    <3>2. Opened(st) =
            [[st EXCEPT !.failures = 0, !.probes = 0] EXCEPT !.circuit = "open", !.recovered = FALSE]
      BY DEF Opened, Stats
    <3> QED  BY <3>1, <3>2
  <2> QED  BY <2>1, <2>2 DEF WithFailure
<1>3. \A b \in BOOLEAN : WithCooldown(st, b) \in Stats
  BY DEF WithCooldown, Stats
<1>4. Checked(st) \in Stats
  BY DEF Checked, Stats, Circuits
<1>5. Persisted(st) \in Stats
  BY <1>e DEF Persisted
<1>6. Recovers(st) \in Stats /\ CoolsDown(st) \in Stats
  BY DEF Recovers, CoolsDown, Stats
<1>7. FreshStats \in Stats
  BY DEF FreshStats, Stats, Circuits
<1> QED  BY <1>1, <1>2, <1>3, <1>4, <1>5, <1>6, <1>7

\* So does what one recorded outcome makes of it.
LEMMA RecordedTypes ==
  ASSUME NEW st \in Stats, NEW x \in Recorded(st)
  PROVE  x \in Stats
BY BreakerTypes DEF Recorded

-----------------------------------------------------------------------------
(* What a step does to the statistics and to the file. *)

StatsStep ==
  \/ UNCHANGED <<stats, saved>>
  \/ UNCHANGED saved /\ \E t : stats' = AfterSearch(t)
  \/ /\ \E m \in Models : \E x \in Recorded(stats[m]) : stats' = [stats EXCEPT ![m] = x]
     /\ saved' = ToFile(stats')
  \/ \E m \in Models :
       \/ /\ stats[m].circuit = "open"
          /\ stats' = [stats EXCEPT ![m] = Recovers(@)]
          /\ saved' = [saved EXCEPT ![m] = Recovers(@)]
       \/ /\ stats' = [stats EXCEPT ![m] = CoolsDown(@)]
          /\ saved' = [saved EXCEPT ![m] = CoolsDown(@)]
  \/ stats' = saved /\ UNCHANGED saved

\* Recording a success or any error changes one record, and writes the file.
LEMMA RecordsAre ==
  ASSUME TypeOK, NEW m \in Models, RecordSuccess(m) \/ RecordError(m)
  PROVE  StatsStep
<1>1. CASE RecordSuccess(m)
  BY <1>1 DEF RecordSuccess, StatsStep, Recorded, TypeOK
<1>2. CASE RecordRateLimit(m)
  BY <1>2 DEF RecordRateLimit, StatsStep, Recorded, TypeOK
<1>3. CASE RecordFailure(m)
  BY <1>3 DEF RecordFailure, StatsStep, Recorded, TypeOK
<1>4. CASE RecordPermanent(m)
  BY <1>4 DEF RecordPermanent, StatsStep, Recorded, TypeOK
<1> QED  BY <1>1, <1>2, <1>3, <1>4 DEF RecordError

\* Every step of router and client does one of these to the statistics.
LEMMA StatsSteps ==
  ASSUME Types, [Next]_allVars
  PROVE  StatsStep
<1>1. CASE UNCHANGED allVars
  BY <1>1 DEF allVars, vars, routerVars, StatsStep
<1>2. ASSUME NEW c \in Callers, Begin(c)
      PROVE  StatsStep
  BY <1>2 DEF Begin, BeginFallback, BeginComplete, BeginStream, routerVars, StatsStep
<1>3. ASSUME NEW c \in Callers, RouterCall(c)
      PROVE  StatsStep
  <2>1. CASE StartAttempt(c) \/ Busy(c) \/ NothingNew(c, "router")
    BY <2>1 DEF StartAttempt, CallModel, Busy, NothingNew, StatsStep
  <2>2. CASE AttemptSucceeds(c) \/ AttemptFails(c)
    BY <2>2, RecordsAre DEF AttemptSucceeds, AttemptFails, Types, InCall
  <2>3. CASE Exhausted(c, "router")
    BY <2>3 DEF Exhausted, routerVars, StatsStep
  <2> QED  BY <1>3, <2>1, <2>2, <2>3 DEF RouterCall
<1>4. ASSUME NEW c \in Callers, ClientCall(c)
      PROVE  StatsStep
  <2>1. CASE StartComplete(c) \/ OverBudget(c) \/ ChooseStream(c) \/ NothingNew(c, "client")
    BY <2>1 DEF StartComplete, CallModel, OverBudget, ChooseStream, NothingNew, StatsStep
  <2>2. CASE \/ BackendAnswers(c) \/ BackendFails(c) \/ CheckRaises(c) \/ CacheKeyUnbound(c)
             \/ StreamEnds(c) \/ StreamFails(c)
    BY <2>2, RecordsAre DEF BackendAnswers, BackendFails, CheckRaises, CacheKeyUnbound,
         StreamEnds, StreamFails, RecordError, Types, InCall
  <2>3. CASE Screened(c) \/ Completes(c) \/ ScreenedStream(c) \/ Exhausted(c, "client")
    BY <2>3 DEF Screened, Completes, ScreenedStream, Exhausted, routerVars, StatsStep
  <2> QED  BY <1>4, <2>1, <2>2, <2>3 DEF ClientCall
<1>5. ASSUME NEW c \in Callers, CancelCall(c)
      PROVE  StatsStep
  BY <1>5 DEF CancelCall, routerVars, StatsStep
<1>6. ASSUME NEW m \in Models, Passing(m)
      PROVE  StatsStep
  BY <1>6 DEF Passing, RecoveryElapses, CooldownElapses, StatsStep
<1>7. ASSUME NEW t \in Tiers, CacheExpires(t)
      PROVE  StatsStep
  BY <1>7 DEF CacheExpires, routerVars, StatsStep
<1>8. CASE Restart
  BY <1>8 DEF Restart, Reload, StatsStep
<1> QED  BY <1>1, <1>2, <1>3, <1>4, <1>5, <1>6, <1>7, <1>8 DEF Next, Step, Call

\* Each of these leaves memory and file well typed.
LEMMA StatsTypes ==
  ASSUME TypeOK, StatsStep
  PROVE  stats' \in [Models -> Stats] /\ saved' \in [Models -> Stats]
<1>1. \A m \in Models : stats[m] \in Stats /\ saved[m] \in Stats
  BY DEF TypeOK
<1>2. CASE UNCHANGED <<stats, saved>>
  BY <1>2 DEF TypeOK
<1>3. CASE UNCHANGED saved /\ \E t : stats' = AfterSearch(t)
  BY <1>1, <1>3, BreakerTypes DEF AfterSearch, TypeOK
<1>4. CASE /\ \E m \in Models : \E x \in Recorded(stats[m]) : stats' = [stats EXCEPT ![m] = x]
           /\ saved' = ToFile(stats')
  <2>1. stats' \in [Models -> Stats]
    BY <1>1, <1>4, RecordedTypes DEF TypeOK
  <2>2. \A m \in Models : Persisted(stats'[m]) \in Stats
    BY <2>1, BreakerTypes
  <2> QED  BY <1>4, <2>1, <2>2 DEF ToFile
<1>5. ASSUME NEW m \in Models,
             \/ /\ stats' = [stats EXCEPT ![m] = Recovers(@)]
                /\ saved' = [saved EXCEPT ![m] = Recovers(@)]
             \/ /\ stats' = [stats EXCEPT ![m] = CoolsDown(@)]
                /\ saved' = [saved EXCEPT ![m] = CoolsDown(@)]
      PROVE  stats' \in [Models -> Stats] /\ saved' \in [Models -> Stats]
  <2>1. /\ Recovers(stats[m]) \in Stats /\ Recovers(saved[m]) \in Stats
        /\ CoolsDown(stats[m]) \in Stats /\ CoolsDown(saved[m]) \in Stats
    BY <1>1, BreakerTypes
  <2> QED  BY <1>5, <2>1 DEF TypeOK
<1>6. CASE stats' = saved /\ UNCHANGED saved
  BY <1>6 DEF TypeOK
<1> QED  BY <1>2, <1>3, <1>4, <1>5, <1>6 DEF StatsStep

-----------------------------------------------------------------------------
(* The breaker and the file. *)

Sound(st) ==
  /\ st.circuit # "half_open" => st.probes = 0
  /\ st.circuit = "half_open" => st.recovered

\* The file satisfies what the memory does, since a restart copies it.
StatsSound ==
  /\ \A m \in Models : Sound(stats[m]) /\ Sound(saved[m])
  /\ FileAgrees

\* The operators keep a record sound; only a search half-opens a circuit.
LEMMA OperatorsSound ==
  ASSUME NEW st \in Stats, Sound(st)
  PROVE  /\ Sound(WithSuccess(st)) /\ Sound(WithFailure(st)) /\ Sound(Checked(st))
         /\ \A b \in BOOLEAN : Sound(WithCooldown(WithFailure(st), b))
         /\ Sound(Persisted(st)) /\ Sound(Recovers(st)) /\ Sound(CoolsDown(st))
         /\ Persisted(st).circuit = st.circuit
         /\ Recovers(st).circuit = st.circuit /\ CoolsDown(st).circuit = st.circuit
         /\ Checked(st).circuit = st.circuit
            \/ (st.circuit = "open" /\ Checked(st).circuit = "half_open")
<1>1. Sound(WithSuccess(st))
  BY DEF Sound, WithSuccess, Stats
<1>2. Sound(WithFailure(st)) /\ WithFailure(st) \in Stats
  BY BreakerTypes DEF Sound, WithFailure, Opened, Stats
<1>3. \A b \in BOOLEAN : Sound(WithCooldown(WithFailure(st), b))
  BY <1>2 DEF Sound, WithCooldown, Stats
<1>4. Sound(Checked(st)) /\ (Checked(st).circuit = st.circuit
            \/ (st.circuit = "open" /\ Checked(st).circuit = "half_open"))
  BY DEF Sound, Checked, Stats
<1>5. /\ Sound(Persisted(st)) /\ Sound(Recovers(st)) /\ Sound(CoolsDown(st))
      /\ Persisted(st).circuit = st.circuit
      /\ Recovers(st).circuit = st.circuit /\ CoolsDown(st).circuit = st.circuit
  BY DEF Sound, Persisted, Recovers, CoolsDown, Stats
<1> QED  BY <1>1, <1>2, <1>3, <1>4, <1>5

\* Every such step keeps memory and file sound and in agreement.
LEMMA StatsStaySound ==
  ASSUME TypeOK, StatsSound, StatsStep
  PROVE  StatsSound'
<1> DEFINE Fine(st, sv) == /\ Sound(st) /\ Sound(sv)
                           /\ \/ sv.circuit = st.circuit
                              \/ sv.circuit = "open" /\ st.circuit = "half_open"
<1>0. \A m \in Models : stats[m] \in Stats /\ saved[m] \in Stats /\ Fine(stats[m], saved[m])
  BY DEF TypeOK, StatsSound, FileAgrees
<1> SUFFICES ASSUME NEW m \in Models
             PROVE  Fine(stats'[m], saved'[m])
  BY DEF StatsSound, FileAgrees
<1>1. CASE UNCHANGED <<stats, saved>>
  BY <1>0, <1>1
<1>2. CASE UNCHANGED saved /\ \E t : stats' = AfterSearch(t)
  <2>1. stats'[m] = stats[m] \/ stats'[m] = Checked(stats[m])
    BY <1>2 DEF AfterSearch
  <2> QED  BY <1>0, <1>2, <2>1, OperatorsSound
<1>3. CASE /\ \E k \in Models : \E x \in Recorded(stats[k]) : stats' = [stats EXCEPT ![k] = x]
           /\ saved' = ToFile(stats')
  <2>1. stats'[m] = stats[m] \/ stats'[m] \in Recorded(stats[m])
    BY <1>3 DEF TypeOK
  <2>2. stats'[m] \in Stats /\ Sound(stats'[m])
    BY <1>0, <2>1, OperatorsSound, RecordedTypes DEF Recorded
  <2>3. saved'[m] = Persisted(stats'[m])
    BY <1>3 DEF ToFile
  <2> QED  BY <2>2, <2>3, OperatorsSound
<1>4. ASSUME NEW k \in Models,
             \/ /\ stats' = [stats EXCEPT ![k] = Recovers(@)]
                /\ saved' = [saved EXCEPT ![k] = Recovers(@)]
             \/ /\ stats' = [stats EXCEPT ![k] = CoolsDown(@)]
                /\ saved' = [saved EXCEPT ![k] = CoolsDown(@)]
      PROVE  Fine(stats'[m], saved'[m])
  <2>1. \/ stats'[m] = stats[m] /\ saved'[m] = saved[m]
        \/ stats'[m] = Recovers(stats[m]) /\ saved'[m] = Recovers(saved[m])
        \/ stats'[m] = CoolsDown(stats[m]) /\ saved'[m] = CoolsDown(saved[m])
    BY <1>4 DEF TypeOK
  <2> QED  BY <1>0, <2>1, OperatorsSound
<1>5. CASE stats' = saved /\ UNCHANGED saved
  BY <1>0, <1>5
<1> QED  BY <1>1, <1>2, <1>3, <1>4, <1>5 DEF StatsStep

-----------------------------------------------------------------------------
(* Types of the calls and of the client. *)

\* What a search offers is in the chain of a tier.
LEMMA SelectableModels ==
  ASSUME TypeOK, NEW t \in Tiers
  PROVE  Selectable(t) \subseteq Models
<1>1. chain \in [Tiers -> SUBSET Models]
  BY RouterAssumption DEF TypeOK
<1>2. Searched(t) \subseteq Tiers
  BY DEF Searched
<1> QED  BY <1>1, <1>2 DEF Selectable, Candidates

\* Drawing on the budget keeps the count within it.
LEMMA ConsumeTypes ==
  ASSUME TypeOK, NEW c \in Callers, NEW n \in Totals \cup {0}, Consume(c, n)
  PROVE  used' \in 0..MaxTokens /\ refused' \in BOOLEAN /\ excused' \in BOOLEAN
BY ClientAssumption DEF TypeOK, Consume, Consumed, Fits

\* Beginning a call of a model, shared by the router and by complete().
LEMMA CallModelTypes ==
  ASSUME Types, NEW c \in Callers, NEW m \in Models, tier[c] \in Tiers,
         TurnLeft(c), CallModel(c, m), UNCHANGED clientVars, UNCHANGED setup,
         stats' \in [Models -> Stats], saved' \in [Models -> Stats]
  PROVE  Types'
<1> USE DEF Types, TypeOK, CallModel, Goto
<1>1. probe' \in [Callers -> BOOLEAN]
  <2>1. (stats'[m].circuit = "half_open") \in BOOLEAN
    OBVIOUS
  <2>2. probe' = [probe EXCEPT ![c] = stats'[m].circuit = "half_open"]
    OBVIOUS
  <2> QED  BY <2>1, <2>2
<1>2. /\ pc' = [pc EXCEPT ![c] = "calling"] /\ tier' = tier /\ via' = via
      /\ model' = [model EXCEPT ![c] = m]
  BY DEF setup
<1>3. InCall'
  BY <1>2 DEF InCall, Idle
<1>4. tried' \in [Callers -> SUBSET Models]
  OBVIOUS
<1>5. turns' \in [Callers -> 0..MaxRetries]
  <2>1. turns[c] + 1 \in 0..MaxRetries
    BY RouterAssumption DEF TurnLeft
  <2> QED  BY <2>1
<1> QED  BY <1>1, <1>2, <1>3, <1>4, <1>5 DEF setup, clientVars

\* The callers' part of the types.
CallerTypes ==
  /\ pc \in [Callers -> Idle \cup {"screening", "choosing", "calling", "checking"}]
  /\ tier \in [Callers -> Tiers \cup {NoTier}]
  /\ turns \in [Callers -> 0..MaxRetries]
  /\ tried \in [Callers -> SUBSET Models]
  /\ model \in [Callers -> Models \cup {NoModel}]
  /\ probe \in [Callers -> BOOLEAN]
  /\ InCall

ClientTypes ==
  /\ cached \subseteq Tiers
  /\ used \in 0..MaxTokens
  /\ tokens \in [Callers -> Totals \cup {0}]
  /\ refused \in BOOLEAN /\ excused \in BOOLEAN

\* A call that ends, or goes on to another turn, keeps them.
LEMMA EndCallTypes ==
  ASSUME Types, NEW c \in Callers, NEW outcome \in Idle, EndCall(c, outcome), UNCHANGED setup
  PROVE  CallerTypes'
<1>1. 0 \in 0..MaxRetries
  BY RouterAssumption
<1>2. \A d \in Callers \ {c} : pc'[d] = pc[d] /\ tier'[d] = tier[d] /\ model'[d] = model[d]
  BY DEF Types, TypeOK, EndCall, Goto
<1>3. pc'[c] = outcome
  BY DEF Types, TypeOK, EndCall, Goto
<1>4. InCall'
  BY <1>2, <1>3 DEF Types, InCall, Idle, setup
<1> QED  BY <1>1, <1>4 DEF Types, TypeOK, CallerTypes, EndCall, Goto

LEMMA RetryTypes ==
  ASSUME Types, NEW c \in Callers, pc[c] \notin Idle, Retry(c), UNCHANGED setup
  PROVE  CallerTypes'
BY DEF Types, TypeOK, InCall, CallerTypes, Idle, Retry, Goto, setup

\* Every step leaves the calls and the client well typed.
LEMMA CallTypes ==
  ASSUME Types, [Next]_allVars, stats' \in [Models -> Stats], saved' \in [Models -> Stats]
  PROVE  Types'
<1>t. CallerTypes /\ ClientTypes /\ unavailable \subseteq Models
  BY DEF Types, TypeOK, CallerTypes, ClientTypes
<1>c. UNCHANGED clientVars => ClientTypes'
  BY <1>t DEF clientVars, ClientTypes
<1>i. "idle" \in Idle /\ "failed" \in Idle
  BY DEF Idle
<1>w. ASSUME UNCHANGED setup, CallerTypes', ClientTypes', unavailable' \subseteq Models
      PROVE  Types'
  BY <1>w DEF Types, TypeOK, CallerTypes, ClientTypes, setup
<1>r. ASSUME NEW m, RecordSuccess(m) \/ RecordError(m) \/ RecordFailure(m), m \in Models
      PROVE  unavailable' \subseteq Models
  BY <1>t, <1>r DEF RecordSuccess, RecordError, RecordRateLimit, RecordFailure, RecordPermanent
<1>1. CASE UNCHANGED allVars
  BY <1>1 DEF allVars, vars, setup, routerVars, callVars, clientVars, Types, TypeOK, InCall
<1>2. ASSUME NEW c \in Callers, Begin(c), UNCHANGED setup
      PROVE  Types'
  <2>1. CallerTypes' /\ UNCHANGED unavailable
    BY <1>t, <1>2 DEF Begin, BeginFallback, BeginComplete, BeginStream, BeginCall, Goto, routerVars,
         CallerTypes, InCall, Idle, setup
  <2>2. ClientTypes'
    BY <1>t, <1>2 DEF Begin, BeginFallback, BeginComplete, BeginStream, clientVars, ClientTypes
  <2> QED  BY <1>2, <1>t, <1>w, <2>1, <2>2
<1>3. ASSUME NEW c \in Callers, RouterCall(c), UNCHANGED clientVars, UNCHANGED setup
      PROVE  Types'
  <2>1. CASE StartAttempt(c)
    <3>1. PICK m \in Selectable(tier[c]) \ tried[c] : CallModel(c, m)
      BY <2>1 DEF StartAttempt
    <3>2. m \in Models /\ tier[c] \in Tiers
      BY SelectableModels, <2>1, <3>1 DEF StartAttempt, Choosing, Types, InCall, Idle
    <3> QED  BY <1>3, <2>1, <3>1, <3>2, CallModelTypes DEF StartAttempt
  <2>2. CASE Busy(c) \/ NothingNew(c, "router") \/ Exhausted(c, "router")
    <3>1. EndCall(c, "failed") /\ UNCHANGED unavailable
      BY <2>2 DEF Busy, NothingNew, Exhausted, routerVars
    <3> QED  BY <1>3, <1>c, <1>i, <1>t, <1>w, <3>1, EndCallTypes
  <2>3. CASE AttemptSucceeds(c) \/ AttemptFails(c)
    <3>1. pc[c] = "calling" /\ model[c] \in Models
      BY <2>3 DEF AttemptSucceeds, AttemptFails, Types, InCall
    <3>2. unavailable' \subseteq Models
      BY <1>r, <2>3, <3>1 DEF AttemptSucceeds, AttemptFails
    <3>3. CallerTypes'
      BY <1>3, <1>i, <2>3, <3>1, EndCallTypes, RetryTypes DEF AttemptSucceeds, AttemptFails, Idle
    <3> QED  BY <1>3, <1>c, <1>w, <3>2, <3>3
  <2> QED  BY <1>3, <2>1, <2>2, <2>3 DEF RouterCall
<1>4. ASSUME NEW c \in Callers, ClientCall(c), UNCHANGED setup
      PROVE  Types'
  <2>1. CASE StartComplete(c)
    <3>1. PICK m \in Selectable(tier[c]) \ tried[c] : CallModel(c, m)
      BY <2>1 DEF StartComplete
    <3>2. m \in Models /\ tier[c] \in Tiers
      BY SelectableModels, <2>1, <3>1 DEF StartComplete, Choosing, Types, InCall, Idle
    <3> QED  BY <1>4, <2>1, <3>1, <3>2, CallModelTypes DEF StartComplete
  <2>2. CASE ChooseStream(c)
    <3>1. UNCHANGED unavailable /\ UNCHANGED clientVars /\ via[c] = "stream" /\ pc[c] = "choosing"
      BY <2>2 DEF ChooseStream, Choosing
    <3>2. CASE Selectable(tier[c]) = {}
      <4>1. EndCall(c, "failed")
        BY <2>2, <3>2 DEF ChooseStream
      <4> QED  BY <1>4, <1>c, <1>i, <1>t, <1>w, <3>1, <4>1, EndCallTypes
    <3>3. CASE Selectable(tier[c]) # {}
      <4>1. tier[c] \in Tiers
        BY <3>1 DEF Types, InCall, Idle
      <4>2. PICK m \in Models : model' = [model EXCEPT ![c] = m]
        BY SelectableModels, <2>2, <3>3, <4>1 DEF ChooseStream, Types
      <4>3. pc' = [pc EXCEPT ![c] = "screening"] /\ UNCHANGED <<tier, turns, tried, probe>>
        BY <2>2, <3>3 DEF ChooseStream, Goto
      <4>4. CallerTypes'
        BY <1>4, <1>t, <3>1, <4>1, <4>2, <4>3 DEF CallerTypes, InCall, Idle, setup
      <4> QED  BY <1>4, <1>c, <1>t, <1>w, <3>1, <4>4
    <3> QED  BY <3>2, <3>3
  <2>3. CASE Screened(c) \/ ScreenedStream(c)
    <3>1. UNCHANGED unavailable /\ UNCHANGED clientVars /\ pc[c] = "screening"
      BY <2>3 DEF Screened, ScreenedStream, routerVars
    <3>2. CASE EndCall(c, "idle")
      BY <1>4, <1>c, <1>i, <1>t, <1>w, <3>1, <3>2, EndCallTypes
    <3>3. CASE via[c] = "client" /\ Goto(c, "choosing") /\ UNCHANGED <<tier, turns, tried, model, probe>>
      <4>1. CallerTypes'
        BY <1>4, <1>t, <3>1, <3>3 DEF CallerTypes, InCall, Idle, Goto, setup
      <4> QED  BY <1>4, <1>c, <1>t, <1>w, <3>1, <4>1
    <3>4. CASE /\ via[c] = "stream" /\ Goto(c, "calling") /\ UNCHANGED <<tier, turns, tried, model>>
               /\ probe' = [probe EXCEPT ![c] = stats[model[c]].circuit = "half_open"]
      <4>1. probe' \in [Callers -> BOOLEAN]
        <5>1. (stats[model[c]].circuit = "half_open") \in BOOLEAN
          OBVIOUS
        <5>2. probe \in [Callers -> BOOLEAN]
          BY <1>t DEF CallerTypes
        <5> QED  BY <3>4, <5>1, <5>2
      <4>2. CallerTypes'
        BY <1>4, <1>t, <3>1, <3>4, <4>1 DEF CallerTypes, InCall, Idle, Goto, setup
      <4> QED  BY <1>4, <1>c, <1>t, <1>w, <3>1, <4>2
    <3> QED  BY <2>3, <3>2, <3>3, <3>4 DEF Screened, ScreenedStream
  <2>4. CASE OverBudget(c) \/ (UNCHANGED clientVars /\ (Exhausted(c, "client") \/ NothingNew(c, "client")))
    <3>1. /\ EndCall(c, "failed") \/ EndCall(c, "idle")
          /\ UNCHANGED unavailable /\ UNCHANGED clientVars
      BY <2>4 DEF OverBudget, Exhausted, NothingNew, routerVars
    <3> QED  BY <1>4, <1>c, <1>i, <1>t, <1>w, <3>1, EndCallTypes
  <2>5. CASE BackendAnswers(c)
    <3>1. /\ pc[c] = "calling" /\ pc' = [pc EXCEPT ![c] = "checking"]
          /\ \E n \in Totals : tokens' = [tokens EXCEPT ![c] = n]
          /\ UNCHANGED <<tier, turns, tried, model, probe, cached, used, refused, excused>>
          /\ unavailable' \subseteq Models
      BY <1>t, <2>5 DEF BackendAnswers, RecordSuccess, Goto
    <3>2. ClientTypes'
      BY <1>t, <3>1 DEF ClientTypes
    <3>3. CallerTypes'
      BY <1>4, <1>t, <3>1 DEF CallerTypes, InCall, Idle, setup
    <3> QED  BY <1>4, <1>w, <3>1, <3>2, <3>3
  <2>6. CASE BackendFails(c) \/ CheckRaises(c) \/ StreamFails(c)
    <3>1. pc[c] \in {"calling", "checking"} /\ model[c] \in Models /\ UNCHANGED clientVars
      BY <2>6 DEF BackendFails, CheckRaises, StreamFails, Types, InCall
    <3>2. unavailable' \subseteq Models
      BY <1>r, <2>6, <3>1 DEF BackendFails, CheckRaises, StreamFails
    <3>3. CallerTypes'
      BY <1>4, <1>i, <2>6, <3>1, EndCallTypes, RetryTypes DEF BackendFails, CheckRaises, StreamFails,
           Idle
    <3> QED  BY <1>4, <1>c, <1>w, <3>1, <3>2, <3>3
  <2>7. CASE Completes(c)
    <3>1. ClientTypes'
      <4>1. tokens[c] \in Totals \cup {0} /\ tier[c] \in Tiers
        BY <1>t, <2>7 DEF ClientTypes, Completes, Types, InCall, Idle
      <4>2. /\ used' \in 0..MaxTokens /\ refused' \in BOOLEAN /\ excused' \in BOOLEAN
        BY <2>7, <4>1, ConsumeTypes DEF Completes, Types
      <4> QED  BY <1>t, <2>7, <4>1, <4>2 DEF Completes, Stored, ClientTypes
    <3>2. EndCall(c, "idle") /\ UNCHANGED unavailable
      BY <2>7 DEF Completes, routerVars
    <3> QED  BY <1>4, <1>i, <1>t, <1>w, <3>1, <3>2, EndCallTypes
  <2>8. CASE CacheKeyUnbound(c)
    <3>1. pc[c] = "checking" /\ model[c] \in Models /\ tokens[c] \in Totals \cup {0}
      BY <1>t, <2>8 DEF CacheKeyUnbound, ClientTypes, Types, InCall
    <3>2. ClientTypes'
      BY <1>t, <2>8, <3>1, ConsumeTypes DEF CacheKeyUnbound, Types, ClientTypes
    <3>3. CallerTypes' /\ unavailable' \subseteq Models
      BY <1>4, <1>r, <2>8, <3>1, RetryTypes DEF CacheKeyUnbound, Idle
    <3> QED  BY <1>4, <1>w, <3>2, <3>3
  <2>9. CASE StreamEnds(c)
    <3>1. pc[c] = "calling" /\ model[c] \in Models
      BY <2>9 DEF StreamEnds, Types, InCall
    <3>2. ClientTypes'
      BY <1>t, <2>9, ConsumeTypes DEF StreamEnds, Types, ClientTypes
    <3>3. CallerTypes' /\ unavailable' \subseteq Models
      BY <1>4, <1>i, <1>r, <2>9, <3>1, EndCallTypes DEF StreamEnds
    <3> QED  BY <1>4, <1>w, <3>2, <3>3
  <2> QED  BY <1>4, <2>1, <2>2, <2>3, <2>4, <2>5, <2>6, <2>7, <2>8, <2>9 DEF ClientCall
<1>5. ASSUME NEW c \in Callers, CancelCall(c), UNCHANGED clientVars, UNCHANGED setup
      PROVE  Types'
  <2>1. EndCall(c, "idle") /\ UNCHANGED unavailable
    BY <1>5 DEF CancelCall, routerVars
  <2> QED  BY <1>5, <1>c, <1>i, <1>t, <1>w, <2>1, EndCallTypes
<1>6. ASSUME NEW m \in Models, Passing(m), UNCHANGED clientVars, UNCHANGED setup
      PROVE  Types'
  <2>1. CallerTypes' /\ UNCHANGED unavailable
    BY <1>t, <1>6 DEF Passing, RecoveryElapses, CooldownElapses, callVars, setup, CallerTypes, InCall
  <2> QED  BY <1>6, <1>c, <1>t, <1>w, <2>1
<1>7. ASSUME NEW t \in Tiers, CacheExpires(t), UNCHANGED setup
      PROVE  Types'
  <2>1. CallerTypes' /\ ClientTypes' /\ UNCHANGED unavailable
    BY <1>t, <1>7 DEF CacheExpires, routerVars, callVars, setup, CallerTypes, ClientTypes, InCall
  <2> QED  BY <1>7, <1>t, <1>w, <2>1
<1>8. CASE Restart /\ UNCHANGED setup
  <2>1. 0 \in 0..MaxTokens /\ 0 \in 0..MaxRetries
    BY ClientAssumption, RouterAssumption
  <2>2. CallerTypes' /\ unavailable' \subseteq Models
    BY <1>8, <2>1 DEF Restart, Reload, CallerTypes, InCall, Idle
  <2>3. ClientTypes'
    BY <1>t, <1>8, <2>1 DEF Restart, ClientTypes
  <2> QED  BY <1>8, <1>w, <2>2, <2>3
<1> QED  BY <1>1, <1>2, <1>3, <1>4, <1>5, <1>6, <1>7, <1>8 DEF Next, Step, Call

-----------------------------------------------------------------------------
(* Bulkhead and probe lock. *)

\* The router's calls in flight, with the model they call and whether they probe.
Flights == {c \in Callers : pc[c] = "calling" /\ via[c] = "router"}

Providers == {Provider[m] : m \in Models}

\* A step adds one call that passed the readiness check, or none.
FlightStep ==
  \/ /\ Flights' \subseteq Flights
     /\ \A c \in Flights' : model'[c] = model[c] /\ probe'[c] = probe[c]
  \/ \E c \in Callers, m \in Models :
       /\ Ready(m, stats')
       /\ Flights' = Flights \cup {c} /\ c \notin Flights
       /\ model' = [model EXCEPT ![c] = m]
       /\ probe' = [probe EXCEPT ![c] = stats'[m].circuit = "half_open"]

\* At most one call enters or leaves flight in a step.
LEMMA FlightSteps ==
  ASSUME Types, [Next]_allVars
  PROVE  FlightStep
<1> USE DEF Goto, EndCall, BeginCall, Retry, Flights
<1>t. /\ pc \in [Callers -> Idle \cup {"screening", "choosing", "calling", "checking"}]
      /\ model \in [Callers -> Models \cup {NoModel}] /\ probe \in [Callers -> BOOLEAN]
  BY DEF Types, TypeOK
<1>1. CASE UNCHANGED allVars
  BY <1>1 DEF allVars, vars, setup, callVars, FlightStep
<1>2. ASSUME NEW c \in Callers, Begin(c), UNCHANGED setup
      PROVE  FlightStep
  BY <1>t, <1>2 DEF Begin, BeginFallback, BeginComplete, BeginStream, setup, FlightStep, Idle
<1>3. ASSUME NEW c \in Callers, RouterCall(c), UNCHANGED setup
      PROVE  FlightStep
  <2>1. CASE StartAttempt(c)
    <3>1. PICK m \in Selectable(tier[c]) \ tried[c] :
                 Ready(m, AfterSearch(tier[c])) /\ CallModel(c, m)
      BY <2>1 DEF StartAttempt
    <3>2. m \in Models
      BY SelectableModels, <2>1, <3>1 DEF StartAttempt, Choosing, Types, InCall, Idle
    <3>3. stats' = AfterSearch(tier[c])
      BY <3>1 DEF CallModel
    <3>4. Flights' = Flights \cup {c} /\ c \notin Flights
      BY <1>t, <1>3, <2>1, <3>1 DEF StartAttempt, Choosing, CallModel, setup
    <3> QED  BY <3>1, <3>2, <3>3, <3>4 DEF CallModel, FlightStep
  <2>2. CASE Busy(c) \/ NothingNew(c, "router") \/ Exhausted(c, "router")
    BY <1>t, <1>3, <2>2 DEF Busy, NothingNew, Exhausted, Choosing, setup, FlightStep
  <2>3. CASE AttemptSucceeds(c) \/ AttemptFails(c)
    BY <1>t, <1>3, <2>3 DEF AttemptSucceeds, AttemptFails, setup, FlightStep
  <2> QED  BY <1>3, <2>1, <2>2, <2>3 DEF RouterCall
<1>4. ASSUME NEW c \in Callers, ClientCall(c), UNCHANGED setup
      PROVE  FlightStep
  <2>0. via[c] # "router" => FlightStep
    <3> SUFFICES ASSUME via[c] # "router"
                 PROVE  /\ Flights' \subseteq Flights
                        /\ \A d \in Flights' : model'[d] = model[d] /\ probe'[d] = probe[d]
      BY DEF FlightStep
    <3>1. \A d \in Callers \ {c} : pc'[d] = pc[d] /\ model'[d] = model[d] /\ probe'[d] = probe[d]
      BY <1>t, <1>4 DEF ClientCall, Screened, StartComplete, CallModel, OverBudget,
           BackendAnswers, BackendFails, CheckRaises, Completes, CacheKeyUnbound,
           ChooseStream, ScreenedStream, StreamEnds, StreamFails, Exhausted, NothingNew
    <3> QED  BY <3>1, <1>4 DEF setup
  <2>1. CASE pc[c] # "checking"
    BY <1>4, <2>0, <2>1 DEF ClientCall, Screened, StartComplete, OverBudget,
         BackendAnswers, BackendFails, CheckRaises, Completes, CacheKeyUnbound,
         ChooseStream, ScreenedStream, StreamEnds, StreamFails, Exhausted, NothingNew, Choosing
  <2>2. CASE pc[c] = "checking"
    BY <1>t, <1>4, <2>2 DEF ClientCall, Screened, StartComplete, OverBudget,
         BackendAnswers, BackendFails, CheckRaises, Completes, CacheKeyUnbound,
         ChooseStream, ScreenedStream, StreamEnds, StreamFails, Exhausted, NothingNew, Choosing,
         setup, FlightStep
  <2> QED  BY <2>1, <2>2
<1>5. ASSUME NEW c \in Callers, CancelCall(c), UNCHANGED setup
      PROVE  FlightStep
  BY <1>t, <1>5 DEF CancelCall, setup, FlightStep
<1>6. ASSUME NEW m \in Models, Passing(m), UNCHANGED setup
      PROVE  FlightStep
  BY <1>6 DEF Passing, RecoveryElapses, CooldownElapses, setup, callVars, FlightStep
<1>7. ASSUME NEW t \in Tiers, CacheExpires(t), UNCHANGED setup
      PROVE  FlightStep
  BY <1>7 DEF CacheExpires, setup, callVars, FlightStep
<1>8. CASE Restart
  BY <1>8 DEF Restart, Reload, FlightStep
<1> HIDE DEF Goto, EndCall, BeginCall, Retry, Flights
<1> QED  BY <1>1, <1>2, <1>3, <1>4, <1>5, <1>6, <1>7, <1>8 DEF Next, Step, Call

\* A call starts only when a slot of its provider and, on a half-open circuit,
\* the probe lock are free at that moment: none ever queues.
LEMMA QueuesStayEmpty ==
  ASSUME Types, NobodyQueues, FlightStep
  PROVE  NobodyQueues'
<1> DEFINE Held(p) == {c \in Flights : Provider[model[c]] = p}
<1>1. \A p : InFlight(p) = Held(p) /\ Probing(p) = {c \in Held(p) : probe[c]}
  BY DEF InFlight, Probing, Flights
<1>2. \A p : InFlight(p)' = Held(p)' /\ Probing(p)' = {c \in Held(p)' : probe'[c]}
  BY DEF InFlight, Probing, Flights
<1>3. \A p : IsFiniteSet(Held(p)) /\ IsFiniteSet(Held(p)')
  <2>1. \A p : Held(p) \subseteq Callers /\ Held(p)' \subseteq Callers
    BY DEF Flights
  <2> QED  BY <2>1, FS_Subset, RouterAssumption
<1> SUFFICES ASSUME NEW p \in Providers
             PROVE  /\ Cardinality(Held(p)') <= Limit[p]
                    /\ \A c, d \in Held(p)' : probe'[c] /\ probe'[d] => c = d
  BY <1>2 DEF NobodyQueues, Providers
<1>4. /\ Cardinality(Held(p)) <= Limit[p]
      /\ \A c, d \in Held(p) : probe[c] /\ probe[d] => c = d
  BY <1>1 DEF NobodyQueues, Providers
<1>5. Limit[p] \in Nat \ {0}
  BY RouterAssumption DEF Providers
<1>6. ASSUME Held(p)' \subseteq Held(p), \A c \in Held(p)' : probe'[c] = probe[c]
      PROVE  /\ Cardinality(Held(p)') <= Limit[p]
             /\ \A c, d \in Held(p)' : probe'[c] /\ probe'[d] => c = d
  <2>1. Cardinality(Held(p)') <= Cardinality(Held(p))
    BY <1>3, <1>6, FS_Subset
  <2>2. Cardinality(Held(p)) \in Nat /\ Cardinality(Held(p)') \in Nat
    BY <1>3, FS_CardinalityType
  <2> QED  BY <1>4, <1>5, <1>6, <2>1, <2>2
<1>7. CASE /\ Flights' \subseteq Flights
           /\ \A c \in Flights' : model'[c] = model[c] /\ probe'[c] = probe[c]
  BY <1>6, <1>7
<1>8. ASSUME NEW c \in Callers, NEW m \in Models,
             Ready(m, stats'), Flights' = Flights \cup {c}, c \notin Flights,
             model' = [model EXCEPT ![c] = m],
             probe' = [probe EXCEPT ![c] = stats'[m].circuit = "half_open"]
      PROVE  /\ Cardinality(Held(p)') <= Limit[p]
             /\ \A x, y \in Held(p)' : probe'[x] /\ probe'[y] => x = y
  <2>1. /\ \A d \in Flights : d # c /\ model'[d] = model[d] /\ probe'[d] = probe[d]
        /\ model'[c] = m /\ probe'[c] = (stats'[m].circuit = "half_open")
    BY <1>8 DEF Flights, Types, TypeOK
  <2>2. CASE Provider[m] # p
    <3>1. Held(p)' = Held(p)
      BY <1>8, <2>1, <2>2
    <3> QED  BY <1>6, <2>1, <3>1
  <2>3. CASE Provider[m] = p
    <3>1. Held(p)' = Held(p) \cup {c} /\ c \notin Held(p)
      BY <1>8, <2>1, <2>3
    <3>2. Cardinality(Held(p)) < Limit[p]
      BY <1>1, <1>8, <2>3 DEF Ready
    <3>3. Cardinality(Held(p)') = Cardinality(Held(p)) + 1 /\ Cardinality(Held(p)) \in Nat
      <4> HIDE DEF Held
      <4>1. IsFiniteSet(Held(p))
        BY <1>3
      <4>2. Cardinality(Held(p) \cup {c}) = Cardinality(Held(p)) + 1
        BY <3>1, <4>1, FS_AddElement
      <4> QED  BY <3>1, <4>1, <4>2, FS_CardinalityType
    <3>4. probe'[c] => \A d \in Held(p) : ~probe[d]
      BY <1>1, <1>8, <2>1, <2>3 DEF Ready
    <3>5. \A x, y \in Held(p)' : probe'[x] /\ probe'[y] => x = y
      BY <1>4, <2>1, <3>1, <3>4
    <3> QED  BY <1>5, <3>2, <3>3, <3>5
  <2> QED  BY <2>2, <2>3
<1> QED  BY <1>7, <1>8 DEF FlightStep

-----------------------------------------------------------------------------
(* The budget. *)

\* A call keeps the room it found in the budget for its estimate, unless some
\* overlapping call has drawn on it.
Affordable ==
  \A c \in Callers :
    /\ pc[c] = "checking" => via[c] = "client"
    /\ via[c] = "client" /\ pc[c] \in {"calling", "checking"} => CanAfford \/ excused

Budget == Affordable /\ RefusalHasCause

\* A draw refused for good reason is excused, by an overlap, an estimate or a stream.
LEMMA ConsumeCounts ==
  ASSUME Types, Budget, NEW c \in Callers, NEW n \in Totals \cup {0},
         via[c] = "stream" \/ pc[c] = "checking", pc[c] \notin Idle, Consume(c, n)
  PROVE  /\ excused => excused'
         /\ RefusalHasCause'
         /\ \A d \in Callers \ {c} : via[d] = "client" /\ pc[d] \notin Idle => excused'
<1>1. excused => excused'
  BY DEF Consume
<1>2. ASSUME ~Fits(n), ~excused'
      PROVE  FALSE
  <2>1. via[c] # "stream" /\ ~(n > 2 * PromptTokens) /\ ~excused
    BY <1>2 DEF Consume
  <2>2. CanAfford
    BY <2>1 DEF Budget, Affordable
  <2>3. used \in Nat /\ n \in Nat /\ PromptTokens \in Nat /\ MaxTokens \in Nat
    BY ClientAssumption DEF Types, TypeOK
  <2> QED  BY <1>2, <2>1, <2>2, <2>3 DEF CanAfford, Fits
<1>3. RefusalHasCause'
  BY <1>1, <1>2 DEF Consume, Budget, RefusalHasCause
<1>4. ASSUME NEW d \in Callers \ {c}, via[d] = "client", pc[d] \notin Idle
      PROVE  excused'
  <2>1. \A e \in Callers : pc[e] \notin Idle /\ via[e] # "router" /\ e # c => e \in Spending(c)
    BY DEF Spending
  <2>2. d \in Spending(c)
    BY <1>4, <2>1
  <2> QED  BY <2>2 DEF Consume
<1> QED  BY <1>1, <1>3, <1>4

\* Steps that neither draw on the budget nor begin a client's call.
LEMMA BudgetKept ==
  ASSUME Types, Budget, UNCHANGED <<via, used, refused, excused>>,
         \A c \in Callers : \/ pc'[c] = pc[c]
                            \/ pc'[c] \notin {"calling", "checking"}
                            \/ pc'[c] = "calling" /\ via[c] # "client"
                            \/ pc[c] = "calling" /\ via[c] = "client"
  PROVE  Budget'
BY DEF Budget, Affordable, RefusalHasCause, CanAfford

\* The steps of the client keep the account of the budget.
LEMMA BudgetKeptByCall ==
  ASSUME Types, Budget, NEW c \in Callers, ClientCall(c), UNCHANGED setup
  PROVE  Budget'
<1> USE DEF Goto, EndCall, Retry, clientVars
<1>t. pc \in [Callers -> Idle \cup {"screening", "choosing", "calling", "checking"}]
  BY DEF Types, TypeOK
<1>v. UNCHANGED via
  BY DEF setup
<1>1. CASE StartComplete(c)
  <2>1. CanAfford /\ UNCHANGED clientVars /\ via[c] = "client"
    BY <1>1 DEF StartComplete, Choosing
  <2>2. pc' = [pc EXCEPT ![c] = "calling"]
    BY <1>1 DEF StartComplete, CallModel
  <2> QED  BY <1>t, <1>v, <2>1, <2>2 DEF Budget, Affordable, RefusalHasCause, CanAfford
<1>2. CASE OverBudget(c) \/ Screened(c)
  BY <1>t, <1>v, <1>2, BudgetKept DEF OverBudget, Choosing, Screened
<1>3. CASE ChooseStream(c) \/ ScreenedStream(c)
  <2>1. UNCHANGED clientVars
    BY <1>3 DEF ChooseStream, ScreenedStream
  <2>2. via[c] = "stream" /\ \A d \in Callers \ {c} : pc'[d] = pc[d]
    BY <1>t, <1>3 DEF ChooseStream, ScreenedStream, Choosing
  <2>3. pc'[c] # "checking"
    BY <1>t, <1>3 DEF ChooseStream, ScreenedStream, Choosing
  <2> QED  BY <1>v, <2>1, <2>2, <2>3, BudgetKept
<1>4. CASE UNCHANGED clientVars /\ (Exhausted(c, "client") \/ NothingNew(c, "client"))
  BY <1>t, <1>v, <1>4, BudgetKept DEF Exhausted, NothingNew
<1>5. CASE BackendAnswers(c)
  BY <1>t, <1>v, <1>5, BudgetKept DEF BackendAnswers
<1>6. CASE BackendFails(c) \/ CheckRaises(c) \/ StreamFails(c)
  BY <1>t, <1>v, <1>6, BudgetKept DEF BackendFails, CheckRaises, StreamFails
<1>7. ASSUME NEW n \in Totals \cup {0}, Consume(c, n),
             via[c] = "stream" \/ pc[c] = "checking", pc[c] \notin Idle,
             pc'[c] \notin {"calling", "checking"}, \A d \in Callers \ {c} : pc'[d] = pc[d]
      PROVE  Budget'
  <2>1. /\ excused => excused'
        /\ RefusalHasCause'
        /\ \A d \in Callers \ {c} : via[d] = "client" /\ pc[d] \notin Idle => excused'
    BY <1>7, ConsumeCounts
  <2> QED  BY <1>v, <1>7, <2>1 DEF Budget, Affordable, Idle
<1>8. CASE Completes(c) \/ CacheKeyUnbound(c)
  <2>1. Consume(c, tokens[c]) /\ pc[c] = "checking" /\ tokens[c] \in Totals \cup {0}
    BY <1>8 DEF Completes, CacheKeyUnbound, Types, TypeOK
  <2>2. pc'[c] \in {"idle", "choosing"} /\ \A d \in Callers \ {c} : pc'[d] = pc[d]
    BY <1>t, <1>8 DEF Completes, CacheKeyUnbound
  <2> QED  BY <1>7, <2>1, <2>2 DEF Idle
<1>9. CASE StreamEnds(c)
  <2>1. via[c] = "stream" /\ pc[c] = "calling" /\ \E n \in Totals : Consume(c, n)
    BY <1>9 DEF StreamEnds
  <2>2. pc'[c] = "idle" /\ \A d \in Callers \ {c} : pc'[d] = pc[d]
    BY <1>t, <1>9 DEF StreamEnds
  <2> QED  BY <1>7, <2>1, <2>2 DEF Idle
<1> QED
  BY <1>1, <1>2, <1>3, <1>4, <1>5, <1>6, <1>8, <1>9 DEF ClientCall

\* So does every other step.
LEMMA BudgetStays ==
  ASSUME Types, Budget, [Next]_allVars
  PROVE  Budget'
<1> USE DEF Goto, EndCall, BeginCall, clientVars
<1>t. pc \in [Callers -> Idle \cup {"screening", "choosing", "calling", "checking"}]
  BY DEF Types, TypeOK
<1>1. CASE UNCHANGED allVars
  BY <1>1, BudgetKept DEF allVars, vars, setup, callVars
<1>2. ASSUME NEW c \in Callers, Begin(c), UNCHANGED setup
      PROVE  Budget'
  BY <1>t, <1>2, BudgetKept DEF Begin, BeginFallback, BeginComplete, BeginStream, setup
<1>3. ASSUME NEW c \in Callers, RouterCall(c), UNCHANGED clientVars, UNCHANGED setup
      PROVE  Budget'
  <2>1. \A d \in Callers \ {c} : pc'[d] = pc[d]
    BY <1>t, <1>3 DEF RouterCall, StartAttempt, CallModel, Busy, AttemptSucceeds, AttemptFails,
         Retry, Exhausted, NothingNew
  <2>2. pc'[c] \notin {"calling", "checking"} \/ (pc'[c] = "calling" /\ via[c] # "client")
    BY <1>t, <1>3 DEF RouterCall, StartAttempt, CallModel, Busy, AttemptSucceeds, AttemptFails,
         Retry, Exhausted, NothingNew, Choosing
  <2> QED  BY <1>3, <2>1, <2>2, BudgetKept DEF setup
<1>4. ASSUME NEW c \in Callers, CancelCall(c), UNCHANGED clientVars, UNCHANGED setup
      PROVE  Budget'
  BY <1>t, <1>4, BudgetKept DEF CancelCall, setup
<1>5. ASSUME NEW m \in Models, Passing(m), UNCHANGED clientVars, UNCHANGED setup
      PROVE  Budget'
  BY <1>5, BudgetKept DEF Passing, RecoveryElapses, CooldownElapses, setup, callVars
<1>6. ASSUME NEW t \in Tiers, CacheExpires(t), UNCHANGED setup
      PROVE  Budget'
  BY <1>6, BudgetKept DEF CacheExpires, setup, callVars
<1>7. CASE Restart
  BY <1>7 DEF Restart, Reload, Budget, Affordable, RefusalHasCause
<1> HIDE DEF Goto, EndCall, BeginCall, clientVars
<1> QED
  BY <1>1, <1>2, <1>3, <1>4, <1>5, <1>6, <1>7, BudgetKeptByCall DEF Next, Step, Call

-----------------------------------------------------------------------------
(* The theorems. *)

\* Inductive: what is type correct, what the breaker's records and the file
\* agree on, who is in flight, and what the budget has room for.
IInv == Types /\ StatsSound /\ NobodyQueues /\ Budget

\* The initial states satisfy the invariant.
LEMMA InitIInv == InitClient => IInv
<1> SUFFICES ASSUME InitClient
             PROVE  IInv
  OBVIOUS
<1> USE DEF InitClient, InitRouter
<1>1. FreshStats \in Stats /\ Sound(FreshStats)
  BY BreakerAssumption DEF FreshStats, Stats, Circuits, Sound
<1>2. Types
  <2>1. PICK s \in Setups : chain = s.chain /\ via = s.via /\ enableCache = s.cache
    OBVIOUS
  <2>2. [chain |-> chain, via |-> via, cache |-> enableCache] = s
    BY <2>1, RouterAssumption
  <2>3. 0 \in 0..MaxTokens /\ 0 \in 0..MaxRetries
    BY ClientAssumption, RouterAssumption
  <2> QED  BY <1>1, <2>2, <2>3 DEF Types, TypeOK, InCall, Idle
<1>3. StatsSound
  BY <1>1 DEF StatsSound, FileAgrees
<1>4. NobodyQueues
  <2>1. \A p : InFlight(p) = {} /\ Probing(p) = {}
    BY DEF InFlight, Probing
  <2>2. \A p \in {Provider[m] : m \in Models} : Limit[p] \in Nat \ {0}
    BY RouterAssumption
  <2>3. Cardinality({}) = 0
    BY FS_EmptySet
  <2>4. \A n \in Nat \ {0} : 0 <= n
    OBVIOUS
  <2> HIDE DEF InitClient, InitRouter
  <2> QED  BY <2>1, <2>2, <2>3, <2>4 DEF NobodyQueues
<1>5. Budget
  BY DEF Budget, Affordable, RefusalHasCause
<1> QED  BY <1>2, <1>3, <1>4, <1>5 DEF IInv

\* Every step keeps it.
LEMMA NextIInv == IInv /\ [Next]_allVars => IInv'
<1> SUFFICES ASSUME IInv, [Next]_allVars
             PROVE  IInv'
  OBVIOUS
<1>1. StatsStep
  BY StatsSteps DEF IInv
<1>2. Types'
  BY <1>1, StatsTypes, CallTypes DEF IInv, Types
<1>3. StatsSound'
  BY <1>1, StatsStaySound DEF IInv, Types
<1>4. NobodyQueues'
  BY FlightSteps, QueuesStayEmpty DEF IInv
<1>5. Budget'
  BY BudgetStays DEF IInv
<1> QED  BY <1>2, <1>3, <1>4, <1>5 DEF IInv

\* The router and the client never leave the inductive invariant.
THEOREM Invariant == Spec => []IInv
BY InitIInv, NextIInv, PTL DEF Spec

\* Every variable of the router and the client keeps its type.
THEOREM TypeCorrect == Spec => []TypeOK
<1>1. IInv => TypeOK
  BY DEF IInv, Types
<1> QED  BY <1>1, Invariant, PTL

\* Whatever outcomes arrive, late or after a restart, only a half-open circuit
\* has counted probes, and it was half-opened after its recovery time.
THEOREM BreakerHolds == Spec => []BreakerConsistent
<1>1. IInv => BreakerConsistent
  BY DEF IInv, StatsSound, Sound, BreakerConsistent
<1> QED  BY <1>1, Invariant, PTL

\* The statistics file never forgets an open circuit.
THEOREM FileHolds == Spec => []FileAgrees
<1>1. IInv => FileAgrees
  BY DEF IInv, StatsSound
<1> QED  BY <1>1, Invariant, PTL

\* With any number of callers, a call_with_fallback that passed the readiness
\* check never waits for a bulkhead slot or a probe lock.
THEOREM QueuesHold == Spec => []NobodyQueues
<1>1. IInv => NobodyQueues
  BY DEF IInv
<1> QED  BY <1>1, Invariant, PTL

\* The budget refuses to count only what overlapped, ran long or streamed.
THEOREM RefusalHolds == Spec => []RefusalHasCause
<1>1. IInv => RefusalHasCause
  BY DEF IInv, Budget
<1> QED  BY <1>1, Invariant, PTL

\* What a search may choose is not cooling, and its circuit is not open after
\* the search.
LEMMA SelectableIsReady ==
  ASSUME TypeOK, NEW t \in Tiers, NEW m \in Selectable(t)
  PROVE  /\ ~stats[m].cooling
         /\ stats[m].circuit = "open" => stats[m].recovered
         /\ AfterSearch(t)[m].circuit # "open"
<1>1. PICK u \in Searched(t) : m \in chain[u] /\ Eligible(m)
  BY DEF Selectable, Candidates
<1>2. m \in Models
  BY SelectableModels
<1>3. AfterSearch(t)[m] = Checked(stats[m])
  BY <1>1, <1>2 DEF AfterSearch, Eligible
<1> QED  BY <1>1, <1>3 DEF Eligible, Checked

\* A call of the router or of complete() begins only with a model whose
\* circuit is not open, or has rested for its recovery time.
THEOREM OpenCircuitRestsHolds == Spec => OpenCircuitRests
<1> DEFINE Rested(c) ==
      /\ ~stats[model'[c]].cooling
      /\ stats[model'[c]].circuit = "open" => stats[model'[c]].recovered
      /\ stats'[model'[c]].circuit # "open"
<1> DEFINE Rests(c) == pc[c] = "choosing" /\ pc'[c] = "calling" => Rested(c)
<1>1. ASSUME IInv, [Next]_allVars, NEW c \in Callers
      PROVE  Rests(c)
  <2> SUFFICES ASSUME pc[c] = "choosing", pc'[c] = "calling"
               PROVE  Rested(c)
    OBVIOUS
  <2>t. /\ pc \in [Callers -> Idle \cup {"screening", "choosing", "calling", "checking"}]
        /\ model \in [Callers -> Models \cup {NoModel}]
    BY <1>1 DEF IInv, Types, TypeOK
  <2> USE DEF Goto, EndCall, BeginCall, Retry
  <2>1. ASSUME NEW m \in Selectable(tier[c]), CallModel(c, m)
        PROVE  model'[c] = m /\ stats' = AfterSearch(tier[c])
    BY <2>t, <2>1 DEF CallModel
  <2>2. ASSUME NEW d \in Callers, Begin(d)
        PROVE  FALSE
    BY <2>t, <2>2 DEF Begin, BeginFallback, BeginComplete, BeginStream, Idle
  <2>3. ASSUME NEW d \in Callers, RouterCall(d)
        PROVE  StartAttempt(c)
    BY <2>t, <2>3 DEF RouterCall, StartAttempt, CallModel, Busy, AttemptSucceeds, AttemptFails,
         Exhausted, NothingNew
  <2>4. ASSUME NEW d \in Callers, ClientCall(d)
        PROVE  StartComplete(c)
    BY <2>t, <2>4 DEF ClientCall, Screened, StartComplete, CallModel, OverBudget,
         BackendAnswers, BackendFails, CheckRaises, Completes, CacheKeyUnbound,
         ChooseStream, ScreenedStream, StreamEnds, StreamFails, Exhausted, NothingNew
  <2>5. ASSUME NEW d \in Callers, CancelCall(d)
        PROVE  FALSE
    BY <2>t, <2>5 DEF CancelCall
  <2>6. ASSUME UNCHANGED pc
        PROVE  FALSE
    BY <2>6
  <2>7. ASSUME Restart
        PROVE  FALSE
    BY <2>7 DEF Restart, Reload
  <2>8. StartAttempt(c) \/ StartComplete(c)
    <3>1. \A m \in Models : Passing(m) => UNCHANGED pc
      BY DEF Passing, RecoveryElapses, CooldownElapses, callVars
    <3>2. \A t \in Tiers : CacheExpires(t) => UNCHANGED pc
      BY DEF CacheExpires, callVars
    <3>3. UNCHANGED allVars => UNCHANGED pc
      BY DEF allVars, vars, callVars
    <3> HIDE DEF Goto, EndCall, BeginCall, Retry
    <3> QED  BY <1>1, <2>2, <2>3, <2>4, <2>5, <2>6, <2>7, <3>1, <3>2, <3>3 DEF Next, Step, Call
  <2>9. PICK m \in Selectable(tier[c]) : model'[c] = m /\ stats' = AfterSearch(tier[c])
    BY <2>1, <2>8 DEF StartAttempt, StartComplete
  <2>10. TypeOK /\ tier[c] \in Tiers
    BY <1>1 DEF IInv, Types, InCall, Idle
  <2> QED  BY <2>9, <2>10, SelectableIsReady
<1>2. IInv /\ [Next]_allVars
        => [\A c \in Callers :
              pc[c] = "choosing" /\ pc'[c] = "calling" =>
                LET m == model'[c] IN
                /\ ~stats[m].cooling
                /\ stats[m].circuit = "open" => stats[m].recovered
                /\ stats'[m].circuit # "open"]_vars
  BY <1>1
<1> QED  BY <1>2, Invariant, PTL DEF Spec, OpenCircuitRests

\* Late successes, restarts and the races of probes do not close a circuit:
\* only the last of the successes required while it is half open does.
THEOREM ClosedByProbesHolds == Spec => ClosedByProbes
<1> DEFINE Closes(m) ==
      stats[m].circuit # "closed" /\ stats'[m].circuit = "closed" =>
        stats[m].circuit = "half_open" /\ stats[m].probes + 1 = SuccessesRequired
<1>1. ASSUME IInv, [Next]_allVars, NEW m \in Models
      PROVE  Closes(m)
  <2>0. /\ stats \in [Models -> Stats] /\ stats[m] \in Stats
        /\ \/ saved[m].circuit = stats[m].circuit
           \/ saved[m].circuit = "open" /\ stats[m].circuit = "half_open"
    <3>1. TypeOK /\ FileAgrees
      BY <1>1 DEF IInv, Types, StatsSound
    <3>2. stats \in [Models -> Stats]
      BY <3>1 DEF TypeOK
    <3>3. \/ saved[m].circuit = stats[m].circuit
          \/ saved[m].circuit = "open" /\ stats[m].circuit = "half_open"
      BY <1>1, <3>1 DEF FileAgrees
    <3> QED  BY <1>1, <3>2, <3>3
  <2>1. CASE UNCHANGED stats
    BY <2>1
  <2>2. CASE \E t : stats' = AfterSearch(t)
    <3>1. stats'[m] = stats[m] \/ stats'[m] = Checked(stats[m])
      BY <2>2 DEF AfterSearch
    <3>2. Checked(stats[m]).circuit = "closed" => stats[m].circuit = "closed"
      BY <2>0 DEF Checked, Stats
    <3> QED  BY <3>1, <3>2
  <2>3. CASE \E k \in Models : \E x \in Recorded(stats[k]) : stats' = [stats EXCEPT ![k] = x]
    <3>1. stats'[m] = stats[m] \/ stats'[m] \in Recorded(stats[m])
      BY <2>0, <2>3
    <3>2. CASE stats'[m] = WithSuccess(stats[m])
      <4>1. stats[m].probes \in 0..SuccessesRequired - 1 /\ SuccessesRequired \in Nat \ {0}
        BY <2>0, BreakerAssumption DEF Stats
      <4>2. ~(stats[m].probes + 1 < SuccessesRequired) => stats[m].probes + 1 = SuccessesRequired
        BY <4>1
      <4>3. stats[m].circuit = "half_open" /\ stats[m].probes + 1 < SuccessesRequired
              => stats'[m].circuit = "half_open"
        BY <2>0, <3>2 DEF WithSuccess, Stats
      <4>4. stats[m].circuit # "half_open" => stats'[m].circuit = stats[m].circuit
        BY <2>0, <3>2 DEF WithSuccess, Stats
      <4> QED  BY <4>2, <4>3, <4>4
    <3>3. ASSUME NEW b \in BOOLEAN, stats'[m] = WithCooldown(WithFailure(stats[m]), b)
          PROVE  Closes(m)
      <4>1. WithFailure(stats[m]) \in Stats
        BY <2>0, BreakerTypes
      <4>2. stats'[m].circuit = WithFailure(stats[m]).circuit
        BY <3>3, <4>1 DEF WithCooldown, Stats
      <4>3. stats[m].circuit # "closed" => WithFailure(stats[m]).circuit = "open"
        BY <2>0 DEF WithFailure, Opened, Stats
      <4> QED  BY <4>2, <4>3
    <3> QED  BY <3>1, <3>2, <3>3 DEF Recorded
  <2>4. ASSUME NEW k \in Models,
               stats' = [stats EXCEPT ![k] = Recovers(@)] \/ stats' = [stats EXCEPT ![k] = CoolsDown(@)]
        PROVE  Closes(m)
    <3>1. \/ stats'[m] = stats[m]
          \/ stats'[m] = Recovers(stats[m]) \/ stats'[m] = CoolsDown(stats[m])
      BY <2>0, <2>4
    <3>2. Recovers(stats[m]).circuit = stats[m].circuit /\ CoolsDown(stats[m]).circuit = stats[m].circuit
      BY <2>0 DEF Recovers, CoolsDown, Stats
    <3> QED  BY <3>1, <3>2
  <2>5. CASE stats' = saved
    BY <2>0, <2>5
  <2>6. StatsStep
    BY <1>1, StatsSteps DEF IInv
  <2> QED  BY <2>1, <2>2, <2>3, <2>4, <2>5, <2>6 DEF StatsStep
<1>2. IInv /\ [Next]_allVars
        => [\A m \in Models :
              stats[m].circuit # "closed" /\ stats'[m].circuit = "closed" =>
                /\ stats[m].circuit = "half_open"
                /\ stats[m].probes + 1 = SuccessesRequired]_vars
  BY <1>1
<1> QED  BY <1>2, Invariant, PTL DEF Spec, ClosedByProbes

-----------------------------------------------------------------------------
(* A call is finite.                                                           *)

TurnsLeft(c) == MaxRetries - turns[c]

\* What a call has before it: three awaits for each turn it has left.
Work(c) ==
  IF pc[c] \in Idle THEN 0
  ELSE IF via[c] = "stream" THEN (CASE pc[c] = "choosing" -> 3 [] pc[c] = "screening" -> 2
                                    [] OTHER -> 1)
  ELSE 3 * TurnsLeft(c) + (CASE pc[c] = "choosing" -> 1 [] pc[c] = "calling" -> 3
                             [] OTHER -> 2)

Locals(c) == <<pc[c], tier[c], turns[c], tried[c], model[c], probe[c], tokens[c]>>

\* A call begun makes at most 3 * max_retries + 3 steps: the outcomes of other
\* callers, which open and close circuits under it, the budget, time and a
\* restart never give back a turn it has used.
WorkBound   == \A c \in Callers : Work(c) \in 0..(3 * MaxRetries + 3)
WorkShrinks ==
  [][\A c \in Callers :
       pc[c] \notin Idle => Locals(c)' = Locals(c) \/ Work(c)' < Work(c)]_allVars

\* The callers' variables after a step of c.
LEMMA OthersRest ==
  ASSUME TypeOK, NEW c \in Callers, Begin(c) \/ Call(c) \/ (CancelCall(c) /\ UNCHANGED clientVars),
         NEW d \in Callers, d # c
  PROVE  Locals(d)' = Locals(d)
<1> USE DEF Goto, EndCall, BeginCall, Retry, clientVars, TypeOK, Locals
<1>1. CASE Begin(c)
  BY <1>1 DEF Begin, BeginFallback, BeginComplete, BeginStream
<1>2. CASE RouterCall(c) /\ UNCHANGED clientVars
  BY <1>2 DEF RouterCall, StartAttempt, CallModel, Busy, AttemptSucceeds, AttemptFails, Exhausted,
              NothingNew
<1>3. CASE ClientCall(c)
  BY <1>3 DEF ClientCall, Screened, StartComplete, CallModel, OverBudget,
         BackendAnswers, BackendFails, CheckRaises, Completes, CacheKeyUnbound,
         ChooseStream, ScreenedStream, StreamEnds, StreamFails, Exhausted, NothingNew
<1>4. CASE CancelCall(c) /\ UNCHANGED clientVars
  BY <1>4 DEF CancelCall
<1> QED BY <1>1, <1>2, <1>3, <1>4 DEF Call

\* An attempt takes one of the turns.
LEMMA AttemptIsWork ==
  ASSUME TypeOK, NEW c \in Callers, NEW m, UNCHANGED via,
         pc[c] = "choosing", via[c] # "stream", TurnLeft(c), CallModel(c, m)
  PROVE  Work(c)' < Work(c)
<1>1. pc'[c] = "calling" /\ turns'[c] = turns[c] + 1 /\ via' = via
  BY DEF TypeOK, CallModel, Goto
<1>2. turns[c] \in 0..MaxRetries
  BY DEF TypeOK
<1>3. Work(c) = 3 * (MaxRetries - turns[c]) + 1
  BY DEF Work, TurnsLeft, Idle
<1>4. Work(c)' = 3 * (MaxRetries - (turns[c] + 1)) + 3
  BY <1>1 DEF Work, TurnsLeft, Idle
<1> QED BY <1>2, <1>3, <1>4, RouterAssumption

\* The end of a call, and a turn's end within it.
LEMMA EndIsWork ==
  ASSUME TypeOK, NEW c \in Callers, pc[c] \notin Idle, pc'[c] \in Idle
  PROVE  Work(c)' < Work(c)
<1>1. Work(c)' = 0
  BY DEF Work
<1>2. Work(c) > 0
  <2>1. turns[c] \in 0..MaxRetries
    BY DEF TypeOK
  <2> QED BY <2>1, RouterAssumption DEF Work, TurnsLeft
<1> QED BY <1>1, <1>2

LEMMA MoveIsWork ==
  ASSUME TypeOK, NEW c \in Callers, UNCHANGED via, turns'[c] = turns[c], pc[c] \notin Idle,
         \/ via[c] = "client" /\ pc[c] = "screening" /\ pc'[c] = "choosing"
         \/ via[c] = "client" /\ pc[c] = "calling" /\ pc'[c] = "checking"
         \/ via[c] # "stream" /\ pc[c] \in {"calling", "checking"} /\ pc'[c] = "choosing"
         \/ via[c] = "stream" /\ pc[c] = "choosing" /\ pc'[c] = "screening"
         \/ via[c] = "stream" /\ pc[c] = "screening" /\ pc'[c] = "calling"
  PROVE  Work(c)' < Work(c)
<1>1. turns[c] \in 0..MaxRetries
  BY DEF TypeOK
<1> QED BY <1>1, RouterAssumption DEF Work, TurnsLeft, Idle

\* What a call in progress does is work done; only the client checks answers.
LEMMA OwnWork ==
  ASSUME TypeOK, Affordable, NEW c \in Callers, UNCHANGED setup, pc[c] \notin Idle,
         Call(c) \/ CancelCall(c)
  PROVE  Work(c)' < Work(c)
<1> DEFINE Ends == pc'[c] \in Idle
<1> DEFINE Moves ==
      /\ UNCHANGED via /\ turns'[c] = turns[c]
      /\ \/ via[c] = "client" /\ pc[c] = "screening" /\ pc'[c] = "choosing"
         \/ via[c] = "client" /\ pc[c] = "calling" /\ pc'[c] = "checking"
         \/ via[c] # "stream" /\ pc[c] \in {"calling", "checking"} /\ pc'[c] = "choosing"
         \/ via[c] = "stream" /\ pc[c] = "choosing" /\ pc'[c] = "screening"
         \/ via[c] = "stream" /\ pc[c] = "screening" /\ pc'[c] = "calling"
<1> DEFINE Tries ==
      /\ pc[c] = "choosing" /\ via[c] # "stream" /\ TurnLeft(c) /\ UNCHANGED via
      /\ \E m : CallModel(c, m)
<1>t. /\ pc \in [Callers -> Idle \cup {"screening", "choosing", "calling", "checking"}]
      /\ UNCHANGED via
  BY DEF TypeOK, setup
<1>1. CASE \/ OverBudget(c) \/ Completes(c) \/ StreamEnds(c) \/ StreamFails(c) \/ CancelCall(c)
           \/ Exhausted(c, "client") \/ NothingNew(c, "client")
           \/ Exhausted(c, "router") \/ NothingNew(c, "router") \/ Busy(c) \/ AttemptSucceeds(c)
  <2>1. Ends
    BY <1>1, <1>t DEF OverBudget, Completes, StreamEnds, StreamFails, CancelCall, Exhausted,
         NothingNew, Busy, AttemptSucceeds, EndCall, Goto, Idle
  <2> QED BY <2>1, EndIsWork
<1>2. CASE StartAttempt(c) \/ StartComplete(c)
  <2>1. Tries
    BY <1>2, <1>t DEF StartAttempt, StartComplete, Choosing
  <2> QED BY <2>1, AttemptIsWork
<1>3. CASE BackendAnswers(c) \/ BackendFails(c) \/ CheckRaises(c) \/ CacheKeyUnbound(c) \/ AttemptFails(c)
  <2>1. Moves
    BY <1>3, <1>t DEF BackendAnswers, BackendFails, CheckRaises, CacheKeyUnbound, AttemptFails,
         Retry, Goto, Affordable
  <2> QED BY <2>1, MoveIsWork
<1>4. CASE Screened(c) \/ ChooseStream(c) \/ ScreenedStream(c)
  <2>1. Moves \/ Ends
    BY <1>4, <1>t DEF Screened, ChooseStream, ScreenedStream, Choosing, EndCall, Goto, Idle
  <2> QED BY <2>1, MoveIsWork, EndIsWork
<1> QED BY <1>1, <1>2, <1>3, <1>4 DEF Call, ClientCall, RouterCall

\* A call that begins was idle, one that goes on was not.
LEMMA BeginIsIdle ==
  ASSUME NEW c \in Callers, Begin(c) \/ Call(c)
  PROVE  (Begin(c) => pc[c] \in Idle) /\ (Call(c) => pc[c] \notin Idle)
BY DEF Begin, BeginFallback, BeginComplete, BeginStream, BeginCall, Call, ClientCall, RouterCall,
       Idle, Screened, StartComplete, OverBudget, BackendAnswers, BackendFails, CheckRaises,
       Completes, CacheKeyUnbound, ChooseStream, ScreenedStream, StreamEnds, StreamFails,
       Exhausted, NothingNew, StartAttempt, Busy, AttemptSucceeds, AttemptFails, Choosing

LEMMA EveryStepIsWork ==
  ASSUME TypeOK, Affordable, [Next]_allVars, NEW c \in Callers, pc[c] \notin Idle
  PROVE  Locals(c)' = Locals(c) \/ Work(c)' < Work(c)
<1>1. CASE UNCHANGED allVars
  BY <1>1 DEF allVars, vars, callVars, clientVars, Locals
<1>2. ASSUME NEW m \in Models, Passing(m), UNCHANGED clientVars
      PROVE  Locals(c)' = Locals(c)
  BY <1>2 DEF Passing, RecoveryElapses, CooldownElapses, callVars, clientVars, Locals
<1>3. ASSUME NEW t \in Tiers, CacheExpires(t)
      PROVE  Locals(c)' = Locals(c)
  BY <1>3 DEF CacheExpires, callVars, Locals
<1>4. CASE Restart
  <2>1. pc'[c] \in Idle
    BY <1>4 DEF Restart, Reload, Idle
  <2> QED BY <2>1, EndIsWork
<1>5. ASSUME NEW d \in Callers, UNCHANGED setup,
             Begin(d) \/ Call(d) \/ (CancelCall(d) /\ UNCHANGED clientVars)
      PROVE  Locals(c)' = Locals(c) \/ Work(c)' < Work(c)
  <2>1. CASE d # c
    BY <1>5, <2>1, OthersRest
  <2>2. CASE d = c
    BY <1>5, <2>2, BeginIsIdle, OwnWork
  <2> QED BY <2>1, <2>2
<1>6. CASE Step /\ UNCHANGED setup
  BY <1>2, <1>3, <1>4, <1>5, <1>6 DEF Step
<1> QED BY <1>1, <1>6 DEF Next

\* A call is finite, however circuits open and close under it.
THEOREM CallsAreFinite == Spec => []WorkBound /\ WorkShrinks
<1>1. IInv => WorkBound
  <2> SUFFICES ASSUME IInv, NEW c \in Callers PROVE Work(c) \in 0..(3 * MaxRetries + 3)
    BY DEF WorkBound
  <2>1. turns[c] \in 0..MaxRetries
    BY DEF IInv, Types, TypeOK
  <2> QED BY <2>1, RouterAssumption DEF Work, TurnsLeft
<1>2. IInv /\ [Next]_allVars
        => [\A c \in Callers :
              pc[c] \notin Idle => Locals(c)' = Locals(c) \/ Work(c)' < Work(c)]_allVars
  BY EveryStepIsWork DEF IInv, Types, Budget
<1> QED BY <1>1, <1>2, Invariant, PTL DEF Spec, WorkShrinks
=============================================================================
