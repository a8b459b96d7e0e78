--------------------------- MODULE ReducersProofs ---------------------------
(***************************************************************************)
(* What each reducer returns: lemmas about the operators of Reducers, for  *)
(* every state, cited by the proofs about the pipelines built on them.     *)
(***************************************************************************)
EXTENDS Reducers, TLAPS

(* An observation of a well-typed health record gives a well-typed one,    *)
(* whose flag is the recomputed one and whose timestamp is now.            *)
LEMMA ObservedFacts ==
  ASSUME NEW h \in HealthStatus, NEW success \in BOOLEAN, NEW now \in Nat
  PROVE  LET g == Observed(h, success, now)
         IN  /\ g \in HealthStatus
             /\ g.garbage = IsGarbage(g)
             /\ g.success_count >= h.success_count
             /\ g.failure_count >= h.failure_count
             /\ g.last_success = IF success THEN now ELSE h.last_success
             /\ g.last_failure = IF success THEN h.last_failure ELSE now
<1> DEFINE c == IF success THEN CountSuccess(h, now) ELSE CountFailure(h, now)
           g == Observed(h, success, now)
<1>1. /\ c \in HealthStatus
      /\ c.success_count >= h.success_count
      /\ c.failure_count >= h.failure_count
      /\ c.last_success = IF success THEN now ELSE h.last_success
      /\ c.last_failure = IF success THEN h.last_failure ELSE now
  <2>1. CASE success
    <3>1. c = [success_count |-> h.success_count + 1,
               failure_count |-> h.failure_count,
               last_success  |-> now,
               last_failure  |-> h.last_failure,
               garbage       |-> h.garbage]
      BY <2>1 DEF HealthStatus, CountSuccess
    <3> HIDE DEF c
    <3> QED
      BY <2>1, <3>1 DEF HealthStatus
  <2>2. CASE ~ success
    <3>1. c = [success_count |-> h.success_count,
               failure_count |-> h.failure_count + 1,
               last_success  |-> h.last_success,
               last_failure  |-> now,
               garbage       |-> h.garbage]
      BY <2>2 DEF HealthStatus, CountFailure
    <3> HIDE DEF c
    <3> QED
      BY <2>2, <3>1 DEF HealthStatus
  <2> QED
    BY <2>1, <2>2
<1>2. IsGarbage(c) \in BOOLEAN
  BY DEF IsGarbage
<1>3. g = [c EXCEPT !.garbage = IsGarbage(c)]
  BY DEF Observed, Flagged
<1> HIDE DEF c, g
<1>4. /\ g \in HealthStatus
      /\ g.garbage = IsGarbage(c)
      /\ g.success_count = c.success_count
      /\ g.failure_count = c.failure_count
      /\ g.last_success = c.last_success
      /\ g.last_failure = c.last_failure
  BY <1>1, <1>2, <1>3 DEF HealthStatus
<1>5. IsGarbage(g) = IsGarbage(c)
  BY <1>4 DEF IsGarbage, TotalObs
<1> QED
  BY <1>1, <1>4, <1>5 DEF g

(* The derived clock is a number. *)
LEMMA CurrentTimeType ==
  ASSUME NEW s, IsState(s)
  PROVE  CurrentTime(s) \in Nat
  BY DEF IsState, CurrentTime, Diagnostics

(* What Observe changes: the health of m, if it is registered. *)
LEMMA ObserveFacts ==
  ASSUME NEW s, IsState(s), NEW m \in ModelId, NEW success \in BOOLEAN
  PROVE  LET t == Observe(s, m, success)
         IN  /\ IsState(t)
             /\ t.models = s.models
             /\ t.inflight = s.inflight
             /\ t.diagnostics = s.diagnostics
             /\ DOMAIN t.health = DOMAIN s.health
             /\ \A x \in DOMAIN s.health :
                  t.health[x] = IF x = m
                                THEN Observed(s.health[m], success, CurrentTime(s))
                                ELSE s.health[x]
<1>1. CASE m \in DOMAIN s.health
  <2> DEFINE now == CurrentTime(s)
             o == Observed(s.health[m], success, now)
             h == [s.health EXCEPT ![m] = o]
  <2>1. Observe(s, m, success) = [s EXCEPT !.health = h]
    BY <1>1 DEF Observe
  <2>2. now \in Nat /\ s.health[m] \in HealthStatus
    BY <1>1, CurrentTimeType DEF IsState
  <2>3. o \in HealthStatus
    BY <2>2, ObservedFacts
  <2> HIDE DEF o, now
  <2>4. h \in [DOMAIN s.health -> HealthStatus]
    BY <2>3 DEF IsState
  <2>5. /\ DOMAIN h = DOMAIN s.health
        /\ \A x \in DOMAIN s.health : h[x] = IF x = m THEN o ELSE s.health[x]
    BY <1>1 DEF IsState
  <2> HIDE DEF h
  <2>6. IsState([s EXCEPT !.health = h])
    BY <2>4, <2>5 DEF IsState
  <2> QED
    BY <2>1, <2>5, <2>6 DEF IsState, o, now
<1>2. CASE m \notin DOMAIN s.health
  BY <1>2 DEF Observe
<1> QED
  BY <1>1, <1>2

(* Acquire and Release touch the inflight map and nothing else, and no     *)
(* counter disappears from it.                                             *)
LEMMA AcquireFacts ==
  ASSUME NEW s, IsState(s), NEW m \in ModelId
  PROVE  LET t == Acquire(s, m)
         IN  /\ IsState(t)
             /\ t.models = s.models
             /\ t.health = s.health
             /\ t.diagnostics = s.diagnostics
             /\ DOMAIN t.inflight = DOMAIN s.inflight \union {m}
<1> DEFINE n == IF m \in DOMAIN s.inflight THEN s.inflight[m] + 1 ELSE 1
           i == Insert(s.inflight, m, n)
<1>1. n \in Nat /\ s.inflight \in [DOMAIN s.inflight -> Nat]
  BY DEF IsState
<1> HIDE DEF n
<1>2. /\ i \in [DOMAIN s.inflight \union {m} -> Nat]
      /\ DOMAIN i = DOMAIN s.inflight \union {m}
  BY <1>1 DEF Insert
<1>3. Acquire(s, m) = [s EXCEPT !.inflight = i]
  BY DEF Acquire, n
<1> HIDE DEF i
<1> QED
  BY <1>2, <1>3 DEF IsState

(* The same of Release. *)
LEMMA ReleaseFacts ==
  ASSUME NEW s, IsState(s), NEW m \in ModelId
  PROVE  LET t == Release(s, m)
         IN  /\ IsState(t)
             /\ t.models = s.models
             /\ t.health = s.health
             /\ t.diagnostics = s.diagnostics
             /\ DOMAIN t.inflight = DOMAIN s.inflight
<1>1. CASE m \in DOMAIN s.inflight /\ s.inflight[m] > 0
  <2> DEFINE i == [s.inflight EXCEPT ![m] = @ - 1]
  <2>1. i \in [DOMAIN s.inflight -> Nat]
    BY <1>1 DEF IsState
  <2>2. Release(s, m) = [s EXCEPT !.inflight = i]
    BY <1>1 DEF Release
  <2> HIDE DEF i
  <2> QED
    BY <2>1, <2>2 DEF IsState
<1>2. CASE ~ (m \in DOMAIN s.inflight /\ s.inflight[m] > 0)
  BY <1>2 DEF Release
<1> QED
  BY <1>1, <1>2

-----------------------------------------------------------------------------
(* The reducers, in the terms the invariants speak of. *)

(* Replacing the diagnostics keeps a state a state. *)
LEMMA DiagnosticsFacts ==
  ASSUME NEW s, IsState(s), NEW d \in Diagnostics
  PROVE  LET t == [s EXCEPT !.diagnostics = d]
         IN  /\ IsState(t)
             /\ t.models = s.models
             /\ t.health = s.health
             /\ t.inflight = s.inflight
             /\ t.diagnostics = d
  BY DEF IsState

(* An event that observes a model: the health of every other is as it was, *)
(* its own is the old one with one observation more, and the clock has not *)
(* gone back.                                                              *)
ObservesOnly(s, t, m, success) ==
  /\ IsState(t)
  /\ t.models = s.models
  /\ DOMAIN t.inflight = DOMAIN s.inflight
  /\ DOMAIN t.health = DOMAIN s.health
  /\ \A x \in DOMAIN s.health :
       t.health[x] = IF x = m
                     THEN Observed(s.health[m], success, CurrentTime(s))
                     ELSE s.health[x]
  /\ CurrentTime(s) <= CurrentTime(t)

(* Observe is such an event. *)
LEMMA ObserveOnly ==
  ASSUME NEW s, IsState(s), NEW m \in ModelId, NEW success \in BOOLEAN
  PROVE  ObservesOnly(s, Observe(s, m, success), m, success)
<1>1. CurrentTime(Observe(s, m, success)) = CurrentTime(s)
  BY ObserveFacts DEF CurrentTime
<1> QED
  BY <1>1, ObserveFacts, CurrentTimeType DEF ObservesOnly

(* A record accumulates from itself, and step by step. *)
LEMMA AccumulatedOrder ==
  /\ \A h \in HealthStatus : Accumulated(h, h)
  /\ \A f, g, h \in HealthStatus :
       Accumulated(f, g) /\ Accumulated(g, h) => Accumulated(f, h)
  BY DEF Accumulated, HealthStatus

(* While no timestamp is ahead of the clock, an observation takes nothing  *)
(* back from any model.                                                    *)
LEMMA ObservesMore ==
  ASSUME NEW s, IsState(s), NEW m \in ModelId, NEW success \in BOOLEAN,
         NEW t, ObservesOnly(s, t, m, success),
         \A x \in DOMAIN s.health :
           /\ s.health[x].last_success <= CurrentTime(s)
           /\ s.health[x].last_failure <= CurrentTime(s)
  PROVE  \A x \in DOMAIN s.health : Accumulated(s.health[x], t.health[x])
<1> SUFFICES ASSUME NEW x \in DOMAIN s.health
             PROVE  Accumulated(s.health[x], t.health[x])
  OBVIOUS
<1> DEFINE h   == s.health[x]
           now == CurrentTime(s)
           g   == Observed(h, success, now)
<1>1. now \in Nat
  BY CurrentTimeType
<1>2. h \in HealthStatus /\ h.last_success <= now /\ h.last_failure <= now
  BY DEF IsState
<1>3. t.health[x] = IF x = m THEN g ELSE h
  BY DEF ObservesOnly
<1>4. /\ g.success_count >= h.success_count
      /\ g.failure_count >= h.failure_count
      /\ g.last_success = IF success THEN now ELSE h.last_success
      /\ g.last_failure = IF success THEN h.last_failure ELSE now
      /\ g \in HealthStatus
  BY <1>1, <1>2, ObservedFacts
<1> HIDE DEF g, now, h
<1>5. Accumulated(h, g)
  BY <1>1, <1>2, <1>4 DEF Accumulated, HealthStatus
<1>6. Accumulated(h, h)
  BY <1>2, AccumulatedOrder
<1> QED
  BY <1>3, <1>5, <1>6 DEF h

(* The counters of the diagnostics: one goes up, the others stay. *)
LEMMA CountFacts ==
  ASSUME NEW d \in Diagnostics
  PROVE  /\ CountFailed(d) \in Diagnostics
         /\ CountFailed(d).total_completions = d.total_completions
         /\ CountFailed(d).total_failures = d.total_failures + 1
         /\ CountFallback(d) \in Diagnostics
         /\ CountFallback(d).total_completions = d.total_completions
         /\ CountFallback(d).total_failures = d.total_failures
         /\ CountDegradation(d) \in Diagnostics
         /\ CountDegradation(d).total_completions = d.total_completions
         /\ CountDegradation(d).total_failures = d.total_failures
  BY DEF CountFailed, CountFallback, CountDegradation, Diagnostics

(* A completion counts one, and never takes a failure back. *)
LEMMA CountCompletionFacts ==
  ASSUME NEW d \in Diagnostics, NEW success \in BOOLEAN
  PROVE  /\ CountCompletion(d, success) \in Diagnostics
         /\ CountCompletion(d, success).total_completions = d.total_completions + 1
         /\ CountCompletion(d, success).total_failures >= d.total_failures
<1> DEFINE c == [d EXCEPT !.total_completions = @ + 1]
<1>1. /\ c \in Diagnostics
      /\ c.total_completions = d.total_completions + 1
      /\ c.total_failures = d.total_failures
  BY DEF Diagnostics
<1>2. CountCompletion(d, success) = IF success THEN c ELSE CountFailed(c)
  BY DEF CountCompletion
<1> HIDE DEF c
<1>3. /\ CountFailed(c) \in Diagnostics
      /\ CountFailed(c).total_completions = c.total_completions
      /\ CountFailed(c).total_failures = c.total_failures + 1
  BY <1>1, CountFacts
<1>4. d.total_failures \in Nat
  BY DEF Diagnostics
<1> QED
  BY <1>1, <1>2, <1>3, <1>4

(* CompletionFinished observes its model and ticks the clock. *)
LEMMA CompletionFinishedFacts ==
  ASSUME NEW s, IsState(s), NEW m \in ModelId, NEW success \in BOOLEAN
  PROVE  ObservesOnly(s, CompletionFinished(s, m, success), m, success)
<1> DEFINE o == Observe(s, m, success)
           r == Release(o, m)
           d == CountCompletion(r.diagnostics, success)
           t == CompletionFinished(s, m, success)
<1>1. ObservesOnly(s, o, m, success) /\ o.diagnostics = s.diagnostics
  BY ObserveOnly, ObserveFacts
<1>2. t = [r EXCEPT !.diagnostics = d]
  BY DEF CompletionFinished
<1> HIDE DEF o
<1>3. /\ IsState(r)
      /\ r.models = o.models
      /\ r.health = o.health
      /\ r.diagnostics = s.diagnostics
      /\ DOMAIN r.inflight = DOMAIN o.inflight
  BY <1>1, ReleaseFacts DEF ObservesOnly
<1> HIDE DEF r
<1>4. /\ d \in Diagnostics
      /\ d.total_completions = s.diagnostics.total_completions + 1
      /\ d.total_failures >= s.diagnostics.total_failures
  BY <1>3, CountCompletionFacts DEF IsState
<1> HIDE DEF d, t
<1>5. /\ IsState(t)
      /\ t.models = r.models
      /\ t.health = r.health
      /\ t.inflight = r.inflight
      /\ t.diagnostics = d
  BY <1>2, <1>3, <1>4, DiagnosticsFacts
<1>6. CurrentTime(s) <= CurrentTime(t)
  BY <1>4, <1>5 DEF CurrentTime, IsState, Diagnostics
<1> QED
  BY <1>1, <1>3, <1>5, <1>6 DEF ObservesOnly, t

(* ModelFailed observes a failure and ticks the clock. *)
LEMMA ModelFailedFacts ==
  ASSUME NEW s, IsState(s), NEW m \in ModelId
  PROVE  ObservesOnly(s, ModelFailed(s, m), m, FALSE)
<1> DEFINE o == Observe(s, m, FALSE)
           d == CountFailed(o.diagnostics)
           t == ModelFailed(s, m)
<1>1. ObservesOnly(s, o, m, FALSE) /\ o.diagnostics = s.diagnostics
  BY ObserveOnly, ObserveFacts
<1>2. t = [o EXCEPT !.diagnostics = d]
  BY DEF ModelFailed
<1> HIDE DEF o
<1>3. /\ d \in Diagnostics
      /\ d.total_completions = s.diagnostics.total_completions
      /\ d.total_failures >= s.diagnostics.total_failures
  <2>1. s.diagnostics \in Diagnostics
    BY DEF IsState
  <2>2. /\ d \in Diagnostics
        /\ d.total_completions = s.diagnostics.total_completions
        /\ d.total_failures = s.diagnostics.total_failures + 1
    BY <1>1, <2>1, CountFacts
  <2> QED
    BY <2>1, <2>2 DEF Diagnostics
<1> HIDE DEF d, t
<1>4. /\ IsState(t)
      /\ t.models = o.models
      /\ t.health = o.health
      /\ t.inflight = o.inflight
      /\ t.diagnostics = d
  BY <1>1, <1>2, <1>3, DiagnosticsFacts DEF ObservesOnly
<1>5. CurrentTime(s) <= CurrentTime(t)
  BY <1>3, <1>4 DEF CurrentTime, IsState, Diagnostics
<1> QED
  BY <1>1, <1>4, <1>5 DEF ObservesOnly, t

-----------------------------------------------------------------------------
(* An event that observes nothing: the health map and the registry are as  *)
(* they were, no inflight counter is gone and the clock has not gone back. *)
KeepsHealth(s, t) ==
  /\ IsState(t)
  /\ t.models = s.models
  /\ t.health = s.health
  /\ DOMAIN s.inflight \subseteq DOMAIN t.inflight
  /\ CurrentTime(s) <= CurrentTime(t)

(* CompletionRequested observes nothing. *)
LEMMA CompletionRequestedFacts ==
  ASSUME NEW s, IsState(s), NEW m \in ModelId
  PROVE  KeepsHealth(s, CompletionRequested(s, m))
<1>1. CurrentTime(Acquire(s, m)) = CurrentTime(s)
  BY AcquireFacts DEF CurrentTime
<1> QED
  BY <1>1, AcquireFacts, CurrentTimeType DEF CompletionRequested, KeepsHealth

(* ModelSelected observes nothing. *)
LEMMA ModelSelectedFacts ==
  ASSUME NEW s, IsState(s), NEW m \in ModelId
  PROVE  KeepsHealth(s, ModelSelected(s, m))
<1> DEFINE c == [model_id |-> m, selected_at |-> CurrentTime(s)]
           u == [s EXCEPT !.last_selected = c]
           t == Acquire(u, m)
<1>1. c \in Selection
  BY CurrentTimeType DEF Selection
<1> HIDE DEF c
<1>2. /\ IsState(u)
      /\ u.models = s.models
      /\ u.health = s.health
      /\ u.inflight = s.inflight
      /\ u.diagnostics = s.diagnostics
  BY <1>1 DEF IsState
<1> HIDE DEF u
<1>3. /\ IsState(t)
      /\ t.models = u.models
      /\ t.health = u.health
      /\ t.diagnostics = u.diagnostics
      /\ DOMAIN t.inflight = DOMAIN u.inflight \union {m}
  BY <1>2, AcquireFacts
<1>4. CurrentTime(t) = CurrentTime(s)
  BY <1>2, <1>3 DEF CurrentTime
<1>5. ModelSelected(s, m) = t
  BY DEF ModelSelected, t, u, c
<1> HIDE DEF t
<1> QED
  BY <1>2, <1>3, <1>4, <1>5, CurrentTimeType DEF KeepsHealth

(* FallbackTriggered observes nothing. *)
LEMMA FallbackTriggeredFacts ==
  ASSUME NEW s, IsState(s), NEW from \in ModelId, NEW to \in ModelId
  PROVE  KeepsHealth(s, FallbackTriggered(s, from, to))
<1> DEFINE f == [from |-> from, to |-> to, at |-> CurrentTime(s)]
           u == [s EXCEPT !.last_fallback = f]
           d == CountFallback(s.diagnostics)
           t == [u EXCEPT !.diagnostics = d]
<1>1. f \in Fallback
  BY CurrentTimeType DEF Fallback
<1>2. s.diagnostics \in Diagnostics
  BY DEF IsState
<1>3. /\ d \in Diagnostics
      /\ d.total_completions = s.diagnostics.total_completions
      /\ d.total_failures = s.diagnostics.total_failures
  BY <1>2, CountFacts
<1>4. FallbackTriggered(s, from, to) = t
  BY DEF FallbackTriggered, IsState
<1> HIDE DEF f, d
<1>5. /\ IsState(u)
      /\ u.models = s.models
      /\ u.health = s.health
      /\ u.inflight = s.inflight
  BY <1>1 DEF IsState
<1> HIDE DEF u
<1>6. /\ IsState(t)
      /\ t.models = u.models
      /\ t.health = u.health
      /\ t.inflight = u.inflight
      /\ t.diagnostics = d
  BY <1>3, <1>5, DiagnosticsFacts
<1>7. CurrentTime(t) = CurrentTime(s)
  BY <1>3, <1>6 DEF CurrentTime
<1> HIDE DEF t
<1> QED
  BY <1>4, <1>5, <1>6, <1>7, CurrentTimeType DEF KeepsHealth

(* DegradeModeEnabled observes nothing. *)
LEMMA DegradeModeEnabledFacts ==
  ASSUME NEW s, IsState(s)
  PROVE  KeepsHealth(s, DegradeModeEnabled(s))
<1> DEFINE d == CountDegradation(s.diagnostics)
           t == [s EXCEPT !.diagnostics = d]
<1>1. s.diagnostics \in Diagnostics
  BY DEF IsState
<1>2. /\ d \in Diagnostics
      /\ d.total_completions = s.diagnostics.total_completions
      /\ d.total_failures = s.diagnostics.total_failures
  BY <1>1, CountFacts
<1>3. DegradeModeEnabled(s) = t
  BY DEF DegradeModeEnabled
<1> HIDE DEF d
<1>4. /\ IsState(t)
      /\ t.models = s.models
      /\ t.health = s.health
      /\ t.inflight = s.inflight
      /\ t.diagnostics = d
  BY <1>2, DiagnosticsFacts
<1>5. CurrentTime(t) = CurrentTime(s)
  BY <1>2, <1>4 DEF CurrentTime
<1> HIDE DEF t
<1> QED
  BY <1>3, <1>4, <1>5, CurrentTimeType DEF KeepsHealth

(* DaemonStarted keeps everything but the diagnostics. *)
LEMMA DaemonStartedFacts ==
  ASSUME NEW s, IsState(s)
  PROVE  LET t == DaemonStarted(s)
         IN  /\ IsState(t)
             /\ t.models = s.models
             /\ t.health = s.health
             /\ t.inflight = s.inflight
<1>1. NoDiagnostics \in Diagnostics
  BY DEF NoDiagnostics, Diagnostics
<1> QED
  BY <1>1, DiagnosticsFacts DEF DaemonStarted

-----------------------------------------------------------------------------
(* Registration and removal change the registry and both maps together.    *)

(* A new record is one. *)
LEMMA NewHealthType == NewHealth \in HealthStatus
  BY DEF NewHealth, HealthStatus, EPOCH

(* Replacing registry and maps leaves the other fields. *)
LEMMA UpdateFacts ==
  ASSUME NEW s, IsState(s), NEW r, NEW h, NEW i
  PROVE  [s EXCEPT !.models = r, !.health = h, !.inflight = i]
           = [models        |-> r,
              health        |-> h,
              inflight      |-> i,
              last_selected |-> s.last_selected,
              last_fallback |-> s.last_fallback,
              diagnostics   |-> s.diagnostics]
<1> DEFINE s1 == [s EXCEPT !.models = r]
           s2 == [s1 EXCEPT !.health = h]
           s3 == [s2 EXCEPT !.inflight = i]
<1>1. s1 = [models |-> r, health |-> s.health, inflight |-> s.inflight,
            last_selected |-> s.last_selected,
            last_fallback |-> s.last_fallback, diagnostics |-> s.diagnostics]
  BY DEF IsState
<1> HIDE DEF s1
<1>2. s2 = [models |-> r, health |-> h, inflight |-> s.inflight,
            last_selected |-> s.last_selected,
            last_fallback |-> s.last_fallback, diagnostics |-> s.diagnostics]
  BY <1>1
<1> HIDE DEF s2
<1>3. s3 = [models |-> r, health |-> h, inflight |-> i,
            last_selected |-> s.last_selected,
            last_fallback |-> s.last_fallback, diagnostics |-> s.diagnostics]
  BY <1>2
<1> HIDE DEF s3
<1> QED
  BY <1>3 DEF s1, s2, s3

(* ModelAdded adds an empty record and changes no other. *)
LEMMA ModelAddedFacts ==
  ASSUME NEW s, IsState(s), NEW m \in ModelId, m \notin s.models
  PROVE  LET t == ModelAdded(s, m)
         IN  /\ IsState(t)
             /\ t.models = s.models \union {m}
             /\ DOMAIN t.health = DOMAIN s.health \union {m}
             /\ t.health[m] = NewHealth
             /\ \A x \in DOMAIN s.health : x # m => t.health[x] = s.health[x]
             /\ DOMAIN t.inflight = DOMAIN s.inflight \union {m}
             /\ t.diagnostics = s.diagnostics
<1> DEFINE h == Insert(s.health, m, NewHealth)
           i == Insert(s.inflight, m, 0)
           t == [models        |-> s.models \union {m},
                 health        |-> h,
                 inflight      |-> i,
                 last_selected |-> s.last_selected,
                 last_fallback |-> s.last_fallback,
                 diagnostics   |-> s.diagnostics]
<1>1. /\ h \in [DOMAIN s.health \union {m} -> HealthStatus]
      /\ DOMAIN h = DOMAIN s.health \union {m}
      /\ h[m] = NewHealth
      /\ \A x \in DOMAIN s.health : x # m => h[x] = s.health[x]
  <2>1. s.health \in [DOMAIN s.health -> HealthStatus]
    BY DEF IsState
  <2> QED
    BY <2>1, NewHealthType DEF Insert
<1>2. /\ i \in [DOMAIN s.inflight \union {m} -> Nat]
      /\ DOMAIN i = DOMAIN s.inflight \union {m}
  BY DEF IsState, Insert
<1>3. ModelAdded(s, m) = t
  BY DEF ModelAdded, IsState
<1> HIDE DEF h, i
<1>4. IsState(t)
  BY <1>1, <1>2 DEF IsState
<1> QED
  BY <1>1, <1>2, <1>3, <1>4

(* ModelRemoved removes one record and changes no other. *)
LEMMA ModelRemovedFacts ==
  ASSUME NEW s, IsState(s), NEW m \in ModelId
  PROVE  LET t == ModelRemoved(s, m)
         IN  /\ IsState(t)
             /\ t.models = s.models \ {m}
             /\ DOMAIN t.health = DOMAIN s.health \ {m}
             /\ \A x \in DOMAIN t.health : t.health[x] = s.health[x]
             /\ DOMAIN t.inflight = DOMAIN s.inflight \ {m}
             /\ t.diagnostics = s.diagnostics
<1> DEFINE r == s.models \ {m}
           h == RemoveKey(s.health, m)
           i == RemoveKey(s.inflight, m)
           t == [models        |-> r,
                 health        |-> h,
                 inflight      |-> i,
                 last_selected |-> s.last_selected,
                 last_fallback |-> s.last_fallback,
                 diagnostics   |-> s.diagnostics]
<1>1. /\ h \in [DOMAIN s.health \ {m} -> HealthStatus]
      /\ DOMAIN h = DOMAIN s.health \ {m}
      /\ \A x \in DOMAIN h : h[x] = s.health[x]
  BY DEF IsState, RemoveKey
<1>2. /\ i \in [DOMAIN s.inflight \ {m} -> Nat]
      /\ DOMAIN i = DOMAIN s.inflight \ {m}
  BY DEF IsState, RemoveKey
<1>3. ModelRemoved(s, m) = [s EXCEPT !.models = r, !.health = h, !.inflight = i]
  BY DEF ModelRemoved
<1> HIDE DEF r, h, i
<1>4. [s EXCEPT !.models = r, !.health = h, !.inflight = i] = t
  BY UpdateFacts
<1>5. r = s.models \ {m}
  BY DEF r
<1>6. IsState(t)
  BY <1>1, <1>2, <1>5 DEF IsState
<1> QED
  BY <1>1, <1>2, <1>3, <1>4, <1>5, <1>6
-----------------------------------------------------------------------------
(* What the events of a call do to the numbers, exactly.                   *)

(* A failure adds one to the failures of a record, a success none.         *)
LEMMA ObservedFailures ==
  ASSUME NEW h \in HealthStatus, NEW now \in Nat
  PROVE  /\ Observed(h, TRUE, now).failure_count = h.failure_count
         /\ Observed(h, FALSE, now).failure_count = h.failure_count + 1
  BY DEF Observed, Flagged, CountSuccess, CountFailure, HealthStatus

(* A success is counted once. *)
LEMMA ObservedSuccess ==
  ASSUME NEW h \in HealthStatus, NEW now \in Nat
  PROVE  Observed(h, TRUE, now).success_count = h.success_count + 1
  BY DEF Observed, Flagged, CountSuccess, HealthStatus

(* The counter of a model goes up by one, from nothing if it had none.     *)
LEMMA AcquireCounts ==
  ASSUME NEW s, IsState(s), NEW m \in ModelId
  PROVE  LET t == Acquire(s, m)
         IN  /\ m \in DOMAIN s.inflight => t.inflight[m] = s.inflight[m] + 1
             /\ \A x \in DOMAIN s.inflight : x # m => t.inflight[x] = s.inflight[x]
<1> DEFINE n == IF m \in DOMAIN s.inflight THEN s.inflight[m] + 1 ELSE 1
           i == Insert(s.inflight, m, n)
<1>1. Acquire(s, m) = [s EXCEPT !.inflight = i]
  BY DEF Acquire
<1>2. /\ m \in DOMAIN s.inflight => i[m] = s.inflight[m] + 1
      /\ \A x \in DOMAIN s.inflight : x # m => i[x] = s.inflight[x]
  BY DEF Insert
<1> HIDE DEF i
<1> QED
  BY <1>1, <1>2 DEF IsState

(* No release takes a counter up.                                          *)
LEMMA ReleaseCounts ==
  ASSUME NEW s, IsState(s), NEW m \in ModelId
  PROVE  \A x \in DOMAIN s.inflight : Release(s, m).inflight[x] <= s.inflight[x]
<1>1. CASE m \in DOMAIN s.inflight /\ s.inflight[m] > 0
  <2> DEFINE i == [s.inflight EXCEPT ![m] = @ - 1]
  <2>1. \A x \in DOMAIN s.inflight : i[x] <= s.inflight[x]
    BY <1>1 DEF IsState
  <2>2. Release(s, m) = [s EXCEPT !.inflight = i]
    BY <1>1 DEF Release
  <2> HIDE DEF i
  <2> QED
    BY <2>1, <2>2 DEF IsState
<1>2. CASE ~ (m \in DOMAIN s.inflight /\ s.inflight[m] > 0)
  BY <1>2 DEF Release, IsState
<1> QED
  BY <1>1, <1>2

(* A failed completion is one failure, a successful one none.              *)
LEMMA CountCompletionFailures ==
  ASSUME NEW d \in Diagnostics
  PROVE  /\ CountCompletion(d, TRUE).total_failures = d.total_failures
         /\ CountCompletion(d, FALSE).total_failures = d.total_failures + 1
<1> DEFINE c == [d EXCEPT !.total_completions = @ + 1]
<1>1. c \in Diagnostics /\ c.total_failures = d.total_failures
  BY DEF Diagnostics
<1>2. CountCompletion(d, TRUE) = c /\ CountCompletion(d, FALSE) = CountFailed(c)
  BY DEF CountCompletion
<1> HIDE DEF c
<1> QED
  BY <1>1, <1>2, CountFacts

(* CompletionFinished: the inflight counters only go down, and a failure   *)
(* is counted once.                                                        *)
LEMMA CompletionFinishedCounts ==
  ASSUME NEW s, IsState(s), NEW m \in ModelId, NEW success \in BOOLEAN
  PROVE  LET t == CompletionFinished(s, m, success)
         IN  /\ \A x \in DOMAIN s.inflight : t.inflight[x] <= s.inflight[x]
             /\ success => t.diagnostics.total_failures = s.diagnostics.total_failures
             /\ ~ success => t.diagnostics.total_failures
                                = s.diagnostics.total_failures + 1
<1> DEFINE o == Observe(s, m, success)
           r == Release(o, m)
           d == CountCompletion(r.diagnostics, success)
           t == CompletionFinished(s, m, success)
<1>1. IsState(o) /\ o.inflight = s.inflight /\ o.diagnostics = s.diagnostics
  BY ObserveFacts
<1>2. t = [r EXCEPT !.diagnostics = d]
  BY DEF CompletionFinished
<1> HIDE DEF o
<1>3. /\ IsState(r)
      /\ r.diagnostics = s.diagnostics
      /\ \A x \in DOMAIN s.inflight : r.inflight[x] <= s.inflight[x]
  BY <1>1, ReleaseFacts, ReleaseCounts
<1> HIDE DEF r
<1>4. s.diagnostics \in Diagnostics
  BY DEF IsState
<1>5. /\ d \in Diagnostics
      /\ success => d.total_failures = s.diagnostics.total_failures
      /\ ~ success => d.total_failures = s.diagnostics.total_failures + 1
  BY <1>3, <1>4, CountCompletionFacts, CountCompletionFailures
<1> HIDE DEF d, t
<1>6. t.inflight = r.inflight /\ t.diagnostics = d
  BY <1>2, <1>3, <1>5, DiagnosticsFacts
<1> QED
  BY <1>3, <1>5, <1>6 DEF t

(* ModelFailed: one failure, and no inflight counter changes.              *)
LEMMA ModelFailedCounts ==
  ASSUME NEW s, IsState(s), NEW m \in ModelId
  PROVE  LET t == ModelFailed(s, m)
         IN  /\ t.inflight = s.inflight
             /\ t.diagnostics.total_failures = s.diagnostics.total_failures + 1
<1> DEFINE o == Observe(s, m, FALSE)
           d == CountFailed(o.diagnostics)
           t == ModelFailed(s, m)
<1>1. IsState(o) /\ o.inflight = s.inflight /\ o.diagnostics = s.diagnostics
  BY ObserveFacts
<1>2. t = [o EXCEPT !.diagnostics = d]
  BY DEF ModelFailed
<1> HIDE DEF o
<1>3. s.diagnostics \in Diagnostics
  BY DEF IsState
<1>4. d \in Diagnostics /\ d.total_failures = s.diagnostics.total_failures + 1
  BY <1>1, <1>3, CountFacts
<1> HIDE DEF d, t
<1> QED
  BY <1>1, <1>2, <1>4, DiagnosticsFacts DEF t
=============================================================================
