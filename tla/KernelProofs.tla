---------------------------- MODULE KernelProofs ----------------------------
(***************************************************************************)
(* The invariants of the event pipeline, for every set of models and every *)
(* bound.  The argument goes by what an event may do to the state: most    *)
(* keep the health map (KeepsHealth) or add one observation to it          *)
(* (ObservesOnly); registration, removal and a restart are on their own.   *)
(***************************************************************************)
EXTENDS Kernel, ReducersProofs

(* The empty pipeline satisfies the invariant. *)
LEMMA InitInv == Init => KernelInv
<1> SUFFICES ASSUME Init PROVE KernelInv
  OBVIOUS
<1>1. IsState(NewState)
  BY DEF IsState, NewState, NoDiagnostics, Diagnostics
<1>2. TypeOK
  BY <1>1 DEF Init, TypeOK, Outcome
<1> QED
  BY <1>2 DEF Init, KernelInv, RegistryAgrees, GarbageFlagFresh,
              HealthBehindClock, FailureOrder, NewState

(* Steps that observe nothing and leave the registry alone. *)
LEMMA KeepsHealthInv ==
  ASSUME KernelInv, KeepsHealth(state, state'),
         events' \in Nat, UNCHANGED <<restarts, outcome>>
  PROVE  KernelInv'
<1>1. TypeOK'
  BY DEF KernelInv, TypeOK, KeepsHealth
<1>2. RegistryAgrees'
  BY DEF KernelInv, RegistryAgrees, KeepsHealth
<1>3. GarbageFlagFresh'
  BY DEF KernelInv, GarbageFlagFresh, KeepsHealth
<1>4. HealthBehindClock'
  <2> SUFFICES ASSUME restarts = 0, NEW m \in DOMAIN state.health
               PROVE  /\ state.health[m].last_success <= CurrentTime(state')
                      /\ state.health[m].last_failure <= CurrentTime(state')
    BY DEF HealthBehindClock, KeepsHealth
  <2>1. /\ state.health[m].last_success \in Nat
        /\ state.health[m].last_failure \in Nat
        /\ CurrentTime(state) \in Nat
        /\ CurrentTime(state') \in Nat
    BY CurrentTimeType DEF KernelInv, TypeOK, IsState, HealthStatus, KeepsHealth
  <2> QED
    BY <2>1 DEF KernelInv, HealthBehindClock, KeepsHealth
<1>5. FailureOrder'
  BY DEF KernelInv, FailureOrder, KeepsHealth
<1> QED
  BY <1>1, <1>2, <1>3, <1>4, <1>5 DEF KernelInv

(* Steps that add one observation, if the model is registered. *)
LEMMA ObservesOnlyInv ==
  ASSUME KernelInv, NEW m \in ModelId, NEW success \in BOOLEAN,
         ObservesOnly(state, state', m, success),
         NoteObserved(m, success), events' \in Nat, UNCHANGED restarts
  PROVE  KernelInv'
<1> DEFINE now == CurrentTime(state)
           h   == state.health[m]
           g   == Observed(h, success, now)
<1>1. now \in Nat /\ CurrentTime(state') \in Nat /\ now <= CurrentTime(state')
  BY CurrentTimeType DEF KernelInv, TypeOK, ObservesOnly
<1>2. \A x \in DOMAIN state.health : state.health[x] \in HealthStatus
  BY DEF KernelInv, TypeOK, IsState
<1>3. m \in DOMAIN state.health =>
        /\ g \in HealthStatus
        /\ g.garbage = IsGarbage(g)
        /\ g.last_success = IF success THEN now ELSE h.last_success
        /\ g.last_failure = IF success THEN h.last_failure ELSE now
  BY <1>1, <1>2, ObservedFacts
<1> HIDE DEF g, now
<1>4. /\ DOMAIN state'.health = DOMAIN state.health
      /\ \A x \in DOMAIN state.health :
           state'.health[x] = IF x = m THEN g ELSE state.health[x]
  BY DEF ObservesOnly, g, now
<1>5. TypeOK'
  BY DEF KernelInv, TypeOK, ObservesOnly, NoteObserved, Note, Outcome
<1>6. RegistryAgrees'
  BY DEF KernelInv, RegistryAgrees, ObservesOnly
<1>7. GarbageFlagFresh'
  BY <1>3, <1>4 DEF KernelInv, GarbageFlagFresh
<1>8. HealthBehindClock'
  <2> SUFFICES ASSUME restarts = 0, NEW x \in DOMAIN state.health
               PROVE  /\ state'.health[x].last_success <= CurrentTime(state')
                      /\ state'.health[x].last_failure <= CurrentTime(state')
    BY <1>4 DEF HealthBehindClock
  <2>1. /\ state.health[x].last_success \in Nat
        /\ state.health[x].last_failure \in Nat
        /\ state.health[x].last_success <= now
        /\ state.health[x].last_failure <= now
    BY <1>2 DEF KernelInv, HealthBehindClock, HealthStatus, now
  <2> QED
    BY <1>1, <1>3, <1>4, <2>1
<1>9. FailureOrder'
  <2> SUFFICES ASSUME restarts = 0, NEW x \in DOMAIN state.health,
                      outcome'[x] # "failure"
               PROVE  state'.health[x].last_failure <= state'.health[x].last_success
    BY <1>4 DEF FailureOrder
  <2>1. CASE x = m
    <3>1. x \in ModelId
      BY DEF KernelInv, TypeOK, IsState
    <3>2. success
      BY <2>1, <3>1 DEF NoteObserved, Note, KernelInv, TypeOK
    <3> QED
      BY <1>1, <1>2, <1>3, <1>4, <2>1, <3>2
         DEF KernelInv, HealthBehindClock, HealthStatus, now
  <2>2. CASE x # m
    <3>1. x \in ModelId
      BY DEF KernelInv, TypeOK, IsState
    <3>2. outcome'[x] = outcome[x]
      BY <2>2, <3>1 DEF NoteObserved, Note, KernelInv, TypeOK
    <3> QED
      BY <1>4, <2>2, <3>2 DEF KernelInv, FailureOrder
  <2> QED
    BY <2>1, <2>2
<1> QED
  BY <1>5, <1>6, <1>7, <1>8, <1>9 DEF KernelInv

(* A model that is added anew starts with no observations at all. *)
LEMMA ModelAddedInv ==
  ASSUME KernelInv, NEW m \in ModelId, OnModelAdded(m)
  PROVE  KernelInv'
<1>1. IsState(state) /\ state' = ModelAdded(state, m)
  BY DEF KernelInv, TypeOK, OnModelAdded, Process
<1>2. CASE m \in state.models
  <2>1. state' = state
    BY <1>1, <1>2 DEF ModelAdded
  <2>2. KeepsHealth(state, state')
    BY <1>1, <2>1, CurrentTimeType DEF KeepsHealth
  <2> QED
    BY <2>2, KeepsHealthInv DEF OnModelAdded, Process, KernelInv, TypeOK
<1>3. CASE m \notin state.models
  <2>1. /\ IsState(state')
        /\ state'.models = state.models \union {m}
        /\ DOMAIN state'.health = DOMAIN state.health \union {m}
        /\ state'.health[m] = NewHealth
        /\ \A x \in DOMAIN state.health : x # m => state'.health[x] = state.health[x]
        /\ DOMAIN state'.inflight = DOMAIN state.inflight \union {m}
        /\ state'.diagnostics = state.diagnostics
    BY <1>1, <1>3, ModelAddedFacts
  <2>2. CurrentTime(state') = CurrentTime(state) /\ CurrentTime(state) \in Nat
    BY <1>1, <2>1, CurrentTimeType DEF CurrentTime
  <2>3. /\ NewHealth.last_success = 0
        /\ NewHealth.last_failure = 0
        /\ NewHealth.garbage = FALSE
        /\ ~ IsGarbage(NewHealth)
    BY DEF NewHealth, EPOCH, IsGarbage, TotalObs, MIN_OBS
  <2>4. restarts' = restarts /\ outcome' = outcome /\ events' \in Nat
    BY DEF OnModelAdded, Process, KernelInv, TypeOK
  <2>5. TypeOK'
    BY <2>1, <2>4 DEF KernelInv, TypeOK
  <2>6. RegistryAgrees'
    BY <2>1 DEF KernelInv, RegistryAgrees
  <2>7. GarbageFlagFresh'
    <3>1. \A x \in DOMAIN state.health \ {m} :
            state'.health[x].garbage = IsGarbage(state'.health[x])
      BY <2>1 DEF KernelInv, GarbageFlagFresh
    <3>2. state'.health[m].garbage = IsGarbage(state'.health[m])
      <4>1. IsGarbage(NewHealth) = FALSE
        BY <2>3 DEF IsGarbage
      <4> QED
        BY <2>1, <2>3, <4>1
    <3> QED
      BY <2>1, <3>1, <3>2 DEF GarbageFlagFresh
  <2>8. HealthBehindClock'
    BY <2>1, <2>2, <2>3, <2>4 DEF KernelInv, HealthBehindClock
  <2>9. FailureOrder'
    BY <2>1, <2>3, <2>4 DEF KernelInv, FailureOrder
  <2> QED
    BY <2>5, <2>6, <2>7, <2>8, <2>9 DEF KernelInv
<1> QED
  BY <1>2, <1>3

(* A removal takes a model out of all three maps. *)
LEMMA ModelRemovedInv ==
  ASSUME KernelInv, NEW m \in ModelId, OnModelRemoved(m)
  PROVE  KernelInv'
<1>1. IsState(state) /\ state' = ModelRemoved(state, m)
  BY DEF KernelInv, TypeOK, OnModelRemoved, Process
<1>2. /\ IsState(state')
      /\ state'.models = state.models \ {m}
      /\ DOMAIN state'.health = DOMAIN state.health \ {m}
      /\ \A x \in DOMAIN state'.health : state'.health[x] = state.health[x]
      /\ DOMAIN state'.inflight = DOMAIN state.inflight \ {m}
      /\ state'.diagnostics = state.diagnostics
  BY <1>1, ModelRemovedFacts
<1>3. CurrentTime(state') = CurrentTime(state)
  BY <1>2 DEF CurrentTime
<1>4. /\ restarts' = restarts /\ events' \in Nat
      /\ outcome' \in [ModelId -> Outcome]
      /\ \A x \in ModelId : x # m => outcome'[x] = outcome[x]
  BY DEF OnModelRemoved, Process, Note, KernelInv, TypeOK, Outcome
<1>5. TypeOK'
  BY <1>2, <1>4 DEF KernelInv, TypeOK
<1>6. RegistryAgrees'
  BY <1>2 DEF KernelInv, RegistryAgrees
<1>7. GarbageFlagFresh'
  BY <1>2 DEF KernelInv, GarbageFlagFresh
<1>8. HealthBehindClock'
  BY <1>2, <1>3, <1>4 DEF KernelInv, HealthBehindClock
<1>9. FailureOrder'
  <2> SUFFICES ASSUME restarts = 0, NEW x \in DOMAIN state'.health,
                      outcome'[x] # "failure"
               PROVE  state'.health[x].last_failure <= state'.health[x].last_success
    BY <1>4 DEF FailureOrder
  <2>1. x \in DOMAIN state.health /\ x # m /\ x \in ModelId
    BY <1>2 DEF KernelInv, TypeOK, IsState
  <2> QED
    BY <1>2, <1>4, <2>1 DEF KernelInv, FailureOrder
<1> QED
  BY <1>5, <1>6, <1>7, <1>8, <1>9 DEF KernelInv

(* A restart turns the clock back, so it voids what is said of it. *)
LEMMA DaemonStartedInv ==
  ASSUME KernelInv, OnDaemonStarted
  PROVE  KernelInv'
<1>1. IsState(state) /\ state' = DaemonStarted(state)
  BY DEF KernelInv, TypeOK, OnDaemonStarted, Process
<1>2. /\ IsState(state')
      /\ state'.models = state.models
      /\ state'.health = state.health
      /\ state'.inflight = state.inflight
  BY <1>1, DaemonStartedFacts
<1>3. /\ restarts' \in Nat /\ restarts' # 0
      /\ events' \in Nat /\ outcome' = outcome
  BY DEF OnDaemonStarted, Process, KernelInv, TypeOK
<1> QED
  BY <1>2, <1>3 DEF KernelInv, TypeOK, RegistryAgrees, GarbageFlagFresh,
                    HealthBehindClock, FailureOrder

-----------------------------------------------------------------------------
(* KernelInv is inductive: one step per event of the pipeline. *)
LEMMA NextInv == KernelInv /\ [Next]_vars => KernelInv'
<1> SUFFICES ASSUME KernelInv, [Next]_vars PROVE KernelInv'
  OBVIOUS
<1>1. IsState(state)
  BY DEF KernelInv, TypeOK
<1>2. ASSUME OnDaemonStarted PROVE KernelInv'
  BY <1>2, DaemonStartedInv
<1>3. ASSUME NEW m \in ModelId, OnModelAdded(m) PROVE KernelInv'
  BY <1>3, ModelAddedInv
<1>4. ASSUME NEW m \in ModelId, OnModelRemoved(m) PROVE KernelInv'
  BY <1>4, ModelRemovedInv
<1>5. ASSUME NEW m \in ModelId, OnModelSelected(m) PROVE KernelInv'
  <2>1. KeepsHealth(state, state')
    BY <1>1, <1>5, ModelSelectedFacts DEF OnModelSelected, Process
  <2> QED
    BY <1>5, <2>1, KeepsHealthInv DEF OnModelSelected, Process, KernelInv, TypeOK
<1>6. ASSUME NEW m \in ModelId, OnCompletionRequested(m) PROVE KernelInv'
  <2>1. KeepsHealth(state, state')
    BY <1>1, <1>6, CompletionRequestedFacts DEF OnCompletionRequested, Process
  <2> QED
    BY <1>6, <2>1, KeepsHealthInv
       DEF OnCompletionRequested, Process, KernelInv, TypeOK
<1>7. ASSUME NEW m \in ModelId, NEW success \in BOOLEAN,
             OnCompletionFinished(m, success)
      PROVE  KernelInv'
  <2>1. ObservesOnly(state, state', m, success)
    BY <1>1, <1>7, CompletionFinishedFacts DEF OnCompletionFinished, Process
  <2> QED
    BY <1>7, <2>1, ObservesOnlyInv
       DEF OnCompletionFinished, Process, KernelInv, TypeOK
<1>8. ASSUME NEW m \in ModelId, OnModelFailed(m) PROVE KernelInv'
  <2>1. ObservesOnly(state, state', m, FALSE)
    BY <1>1, <1>8, ModelFailedFacts DEF OnModelFailed, Process
  <2>2. NoteObserved(m, FALSE) /\ UNCHANGED restarts
    BY <1>8 DEF OnModelFailed
  <2>3. events' \in Nat
    BY <1>8 DEF OnModelFailed, Process, KernelInv, TypeOK
  <2> QED
    BY <2>1, <2>2, <2>3, ObservesOnlyInv, Zenon
<1>9. ASSUME NEW m \in ModelId, OnProbeUpdated(m) PROVE KernelInv'
  <2>1. ObservesOnly(state, state', m, TRUE)
    BY <1>1, <1>9, ObserveOnly DEF OnProbeUpdated, Process, ProbeUpdated
  <2>2. NoteObserved(m, TRUE) /\ UNCHANGED restarts
    BY <1>9 DEF OnProbeUpdated
  <2>3. events' \in Nat
    BY <1>9 DEF OnProbeUpdated, Process, KernelInv, TypeOK
  <2> QED
    BY <2>1, <2>2, <2>3, ObservesOnlyInv, Zenon
<1>10. ASSUME NEW m \in ModelId, OnProbeFailed(m) PROVE KernelInv'
  <2>1. ObservesOnly(state, state', m, FALSE)
    BY <1>1, <1>10, ObserveOnly DEF OnProbeFailed, Process, ProbeFailed
  <2>2. NoteObserved(m, FALSE) /\ UNCHANGED restarts
    BY <1>10 DEF OnProbeFailed
  <2>3. events' \in Nat
    BY <1>10 DEF OnProbeFailed, Process, KernelInv, TypeOK
  <2> QED
    BY <2>1, <2>2, <2>3, ObservesOnlyInv, Zenon
<1>11. ASSUME NEW m \in ModelId, NEW success \in BOOLEAN,
              OnReportReceived(m, success)
       PROVE  KernelInv'
  <2>1. ObservesOnly(state, state', m, success)
    BY <1>1, <1>11, ObserveOnly DEF OnReportReceived, Process, ReportReceived
  <2> QED
    BY <1>11, <2>1, ObservesOnlyInv
       DEF OnReportReceived, Process, KernelInv, TypeOK
<1>12. ASSUME NEW m \in ModelId, NEW to \in ModelId, OnFallbackTriggered(m, to)
       PROVE  KernelInv'
  <2>1. KeepsHealth(state, state')
    BY <1>1, <1>12, FallbackTriggeredFacts DEF OnFallbackTriggered, Process
  <2> QED
    BY <1>12, <2>1, KeepsHealthInv
       DEF OnFallbackTriggered, Process, KernelInv, TypeOK
<1>13. ASSUME OnDegradeModeEnabled PROVE KernelInv'
  <2>1. KeepsHealth(state, state')
    BY <1>1, <1>13, DegradeModeEnabledFacts DEF OnDegradeModeEnabled, Process
  <2> QED
    BY <1>13, <2>1, KeepsHealthInv
       DEF OnDegradeModeEnabled, Process, KernelInv, TypeOK
<1>14. CASE UNCHANGED vars
  BY <1>14 DEF vars, KernelInv, TypeOK, RegistryAgrees, GarbageFlagFresh,
               HealthBehindClock, FailureOrder
<1> QED
  BY <1>2, <1>3, <1>4, <1>5, <1>6, <1>7, <1>8, <1>9, <1>10, <1>11, <1>12,
     <1>13, <1>14 DEF Next

(* process() keeps KernelInv, whatever events it is given in whatever      *)
(* order.                                                                  *)
THEOREM Invariance == Spec => []KernelInv
  BY InitInv, NextInv, PTL DEF Spec

(* Every reachable pipeline is well typed. *)
THEOREM TypeCorrect == Spec => []TypeOK
  BY Invariance, PTL DEF KernelInv

(* Registry, health map and inflight map never drift apart, in whatever    *)
(* order models come, go and are mentioned by events.                      *)
THEOREM RegistryNeverDrifts == Spec => []RegistryAgrees
  BY Invariance, PTL DEF KernelInv

(* The flag the router filters on always is the recomputed one. *)
THEOREM FlagNeverStale == Spec => []GarbageFlagFresh
  BY Invariance, PTL DEF KernelInv

(* Without a restart, no health timestamp is ahead of the derived clock. *)
THEOREM ClockLeads == Spec => []HealthBehindClock
  BY Invariance, PTL DEF KernelInv

(* Without a restart, garbage implies that the last observation failed:    *)
(* the flag is fresh, so the last failure is the later of the two, and by  *)
(* FailureOrder only a model that failed last has that.                    *)
THEOREM GarbageIsRecoverable == Spec => []GarbageLastFailed
<1>1. KernelInv => GarbageLastFailed
  <2> SUFFICES ASSUME KernelInv, restarts = 0, NEW m \in DOMAIN state.health,
                      state.health[m].garbage
               PROVE  outcome[m] = "failure"
    BY DEF GarbageLastFailed
  <2>1. IsGarbage(state.health[m])
    BY DEF KernelInv, GarbageFlagFresh
  <2>2. state.health[m].last_failure > state.health[m].last_success
    BY <2>1 DEF IsGarbage
  <2>3. state.health[m].last_failure \in Nat /\ state.health[m].last_success \in Nat
    BY DEF KernelInv, TypeOK, IsState, HealthStatus
  <2> QED
    BY <2>2, <2>3 DEF KernelInv, FailureOrder
<1> QED
  BY <1>1, Invariance, PTL

-----------------------------------------------------------------------------
(* The step of HealthAccumulates, and why each kind of event takes it. *)
Accumulates ==
  restarts' = 0 =>
    \A m \in state.models \intersect state'.models :
      Accumulated(state.health[m], state'.health[m])

(* It is enough that the entries of the models that stay do not change. *)
LEMMA UnchangedAccumulates ==
  ASSUME KernelInv,
         \A m \in state.models \intersect state'.models :
           state'.health[m] = state.health[m]
  PROVE  Accumulates
  BY AccumulatedOrder DEF KernelInv, TypeOK, IsState, RegistryAgrees, Accumulates

(* One observation takes nothing back from any model. *)
LEMMA ObservationAccumulates ==
  ASSUME KernelInv, NEW m \in ModelId, NEW success \in BOOLEAN,
         ObservesOnly(state, state', m, success), UNCHANGED restarts
  PROVE  Accumulates
<1> SUFFICES ASSUME restarts = 0
             PROVE  \A x \in state.models \intersect state'.models :
                      Accumulated(state.health[x], state'.health[x])
  BY DEF Accumulates
<1>1. IsState(state) /\ DOMAIN state.health = state.models
  BY DEF KernelInv, TypeOK, RegistryAgrees
<1>2. \A x \in DOMAIN state.health :
        /\ state.health[x].last_success <= CurrentTime(state)
        /\ state.health[x].last_failure <= CurrentTime(state)
  BY DEF KernelInv, HealthBehindClock
<1> QED
  BY <1>1, <1>2, ObservesMore

(* Until a restart, what was observed of a registered model is never lost *)
(* and its timestamps never move back.                                    *)
THEOREM HealthOnlyAccumulates == Spec => HealthAccumulates
<1>1. KernelInv /\ [Next]_vars => [Accumulates]_vars
  <2> SUFFICES ASSUME KernelInv, Next PROVE Accumulates
    OBVIOUS
  <2>1. IsState(state)
    BY DEF KernelInv, TypeOK
  <2>2. ASSUME OnDaemonStarted PROVE Accumulates
    BY <2>2 DEF OnDaemonStarted, KernelInv, TypeOK, Accumulates
  <2>3. ASSUME NEW m \in ModelId, OnModelAdded(m) PROVE Accumulates
    <3>1. CASE m \in state.models
      BY <2>3, <3>1, UnchangedAccumulates DEF OnModelAdded, Process, ModelAdded
    <3>2. CASE m \notin state.models
      <4>1. state' = ModelAdded(state, m)
        BY <2>3 DEF OnModelAdded, Process
      <4>2. \A x \in DOMAIN state.health : x # m => state'.health[x] = state.health[x]
        BY <2>1, <3>2, <4>1, ModelAddedFacts
      <4> QED
        BY <3>2, <4>2, UnchangedAccumulates DEF KernelInv, RegistryAgrees
    <3> QED
      BY <3>1, <3>2
  <2>4. ASSUME NEW m \in ModelId, OnModelRemoved(m) PROVE Accumulates
    <3>1. state' = ModelRemoved(state, m)
      BY <2>4 DEF OnModelRemoved, Process
    <3>2. /\ state'.models = state.models \ {m}
          /\ DOMAIN state'.health = DOMAIN state.health \ {m}
          /\ \A x \in DOMAIN state'.health : state'.health[x] = state.health[x]
      BY <2>1, <3>1, ModelRemovedFacts
    <3> QED
      BY <3>2, UnchangedAccumulates DEF KernelInv, RegistryAgrees
  <2>5. ASSUME NEW m \in ModelId, OnModelSelected(m) PROVE Accumulates
    BY <2>1, <2>5, ModelSelectedFacts, UnchangedAccumulates
       DEF OnModelSelected, Process, KeepsHealth
  <2>6. ASSUME NEW m \in ModelId, OnCompletionRequested(m) PROVE Accumulates
    BY <2>1, <2>6, CompletionRequestedFacts, UnchangedAccumulates
       DEF OnCompletionRequested, Process, KeepsHealth
  <2>7. ASSUME NEW m \in ModelId, NEW success \in BOOLEAN,
               OnCompletionFinished(m, success)
        PROVE  Accumulates
    BY <2>1, <2>7, CompletionFinishedFacts, ObservationAccumulates
       DEF OnCompletionFinished, Process
  <2>8. ASSUME NEW m \in ModelId, OnModelFailed(m) PROVE Accumulates
    <3>1. ObservesOnly(state, state', m, FALSE) /\ UNCHANGED restarts
      BY <2>1, <2>8, ModelFailedFacts DEF OnModelFailed, Process
    <3> QED
      BY <3>1, ObservationAccumulates, Zenon
  <2>9. ASSUME NEW m \in ModelId, OnProbeUpdated(m) PROVE Accumulates
    <3>1. ObservesOnly(state, state', m, TRUE) /\ UNCHANGED restarts
      BY <2>1, <2>9, ObserveOnly DEF OnProbeUpdated, Process, ProbeUpdated
    <3> QED
      BY <3>1, ObservationAccumulates, Zenon
  <2>10. ASSUME NEW m \in ModelId, OnProbeFailed(m) PROVE Accumulates
    <3>1. ObservesOnly(state, state', m, FALSE) /\ UNCHANGED restarts
      BY <2>1, <2>10, ObserveOnly DEF OnProbeFailed, Process, ProbeFailed
    <3> QED
      BY <3>1, ObservationAccumulates, Zenon
  <2>11. ASSUME NEW m \in ModelId, NEW success \in BOOLEAN,
                OnReportReceived(m, success)
         PROVE  Accumulates
    BY <2>1, <2>11, ObserveOnly, ObservationAccumulates
       DEF OnReportReceived, Process, ReportReceived
  <2>12. ASSUME NEW m \in ModelId, NEW to \in ModelId, OnFallbackTriggered(m, to)
         PROVE  Accumulates
    BY <2>1, <2>12, FallbackTriggeredFacts, UnchangedAccumulates
       DEF OnFallbackTriggered, Process, KeepsHealth
  <2>13. ASSUME OnDegradeModeEnabled PROVE Accumulates
    BY <2>1, <2>13, DegradeModeEnabledFacts, UnchangedAccumulates
       DEF OnDegradeModeEnabled, Process, KeepsHealth
  <2> QED
    BY <2>2, <2>3, <2>4, <2>5, <2>6, <2>7, <2>8, <2>9, <2>10, <2>11, <2>12,
       <2>13 DEF Next
<1> QED
  BY <1>1, Invariance, PTL DEF Spec, HealthAccumulates, Accumulates
=============================================================================
