------------------------------ MODULE Reducers ------------------------------
(***************************************************************************)
(* The pure half of the routing kernel: the projected State of             *)
(* omrp-core/src/state.rs and one reducer per event variant of             *)
(* omrp-core/src/reducers.rs, as operators from a state to a state.        *)
(*                                                                         *)
(* What is left out is data no property tells apart: the success_ratio and *)
(* latency averages, scores, reasons and versions.  Timestamps are the seq *)
(* of a SequencedInstant (its logical_time is always seq - 1, so the       *)
(* derived order of the pair is the order of seq); EPOCH is 0.             *)
(***************************************************************************)
EXTENDS Integers

CONSTANTS
  ModelId,   \* the model ids events may name, registered or not
  None       \* Option::None of the routing cache

ASSUME NoneAssumption == None \notin ModelId

-----------------------------------------------------------------------------
(* HealthStatus, without the two averages. *)

HealthStatus == [success_count : Nat, failure_count : Nat,
                 last_success  : Nat, last_failure  : Nat,
                 garbage       : BOOLEAN]

EPOCH == 0

NewHealth == [success_count |-> 0, failure_count |-> 0,
              last_success |-> EPOCH, last_failure |-> EPOCH,
              garbage |-> FALSE]

TotalObs(h) == h.success_count + h.failure_count

(* g is a later record of the model than h: nothing of h is taken back. *)
Accumulated(h, g) ==
  /\ h.success_count <= g.success_count
  /\ h.failure_count <= g.failure_count
  /\ h.last_success <= g.last_success
  /\ h.last_failure <= g.last_failure

(***************************************************************************)
(* wilson_lower() < GARBAGE_THRESHOLD over the integers.  The lower bound  *)
(* is the smaller root x of (p - x)^2 = z^2 x (1 - x) / n, so it lies      *)
(* below t = 3/20 iff p <= t or (p - t)^2 < z^2 t (1 - t) / n; with        *)
(* p = s/n and z = 1.96 this clears denominators to the test below.  The   *)
(* two sides differ for every n < 31875, so rounding cannot tip it there.  *)
(***************************************************************************)
WilsonBelowThreshold(s, n) ==
  LET d == 20 * s - 3 * n
  IN  \/ d <= 0
      \/ 10000 * d * d < 1959216 * n

MIN_OBS == 5

(* A slip to be caught: a model stays condemned after it succeeded again. *)
IsGarbageWhateverLast(h) ==
  TotalObs(h) >= MIN_OBS /\ WilsonBelowThreshold(h.success_count, TotalObs(h))

IsGarbage(h) ==
  /\ TotalObs(h) >= MIN_OBS
  /\ WilsonBelowThreshold(h.success_count, TotalObs(h))
  /\ h.last_failure > h.last_success

(* The health of a model after one more observation made at time now. *)
CountSuccess(h, now) ==
  [h EXCEPT !.success_count = @ + 1, !.last_success = now]

(* A slip to be caught: a failure starts the record of successes anew. *)
CountFailureAnew(h, now) ==
  [h EXCEPT !.success_count = 0, !.failure_count = @ + 1, !.last_failure = now]

CountFailure(h, now) ==
  [h EXCEPT !.failure_count = @ + 1, !.last_failure = now]

Flagged(h) == [h EXCEPT !.garbage = IsGarbage(h)]

Observed(h, success, now) ==
  Flagged(IF success THEN CountSuccess(h, now) ELSE CountFailure(h, now))

-----------------------------------------------------------------------------
(* State, Diagnostics and the routing cache. *)

Diagnostics == [total_completions : Nat, total_failures : Nat,
                total_fallbacks : Nat, total_degradations : Nat]

NoDiagnostics == [total_completions |-> 0, total_failures |-> 0,
                  total_fallbacks |-> 0, total_degradations |-> 0]

CountFailed(d)      == [d EXCEPT !.total_failures = @ + 1]
CountFallback(d)    == [d EXCEPT !.total_fallbacks = @ + 1]
CountDegradation(d) == [d EXCEPT !.total_degradations = @ + 1]

(* A slip to be caught: a failed completion is no failure. *)
CountCompletionOnly(d, success) == [d EXCEPT !.total_completions = @ + 1]

CountCompletion(d, success) ==
  LET c == [d EXCEPT !.total_completions = @ + 1]
  IN  IF success THEN c ELSE CountFailed(c)

Selection == [model_id : ModelId, selected_at : Nat]
Fallback  == [from : ModelId, to : ModelId, at : Nat]

NewState == [models        |-> {},
             health        |-> [m \in {} |-> NewHealth],
             inflight      |-> [m \in {} |-> 0],
             last_selected |-> None,
             last_fallback |-> None,
             diagnostics   |-> NoDiagnostics]

(* s is a State: a record whose two maps are partial on the model ids. *)
IsState(s) ==
  /\ s = [models        |-> s.models,
          health        |-> s.health,
          inflight      |-> s.inflight,
          last_selected |-> s.last_selected,
          last_fallback |-> s.last_fallback,
          diagnostics   |-> s.diagnostics]
  /\ s.models \subseteq ModelId
  /\ s.health \in [DOMAIN s.health -> HealthStatus]
  /\ DOMAIN s.health \subseteq ModelId
  /\ s.inflight \in [DOMAIN s.inflight -> Nat]
  /\ DOMAIN s.inflight \subseteq ModelId
  /\ s.last_selected \in Selection \union {None}
  /\ s.last_fallback \in Fallback \union {None}
  /\ s.diagnostics \in Diagnostics

(* State::current_time().seq *)
CurrentTime(s) ==
  s.diagnostics.total_completions + s.diagnostics.total_failures + 1

(* HashMap::insert and HashMap::remove. *)
Insert(map, k, v) ==
  [x \in DOMAIN map \union {k} |-> IF x = k THEN v ELSE map[x]]

RemoveKey(map, k) == [x \in DOMAIN map \ {k} |-> map[x]]

(* `if let Some(health) = state.health.get_mut(model_id)` *)
Observe(s, m, success) ==
  IF m \in DOMAIN s.health
  THEN [s EXCEPT !.health[m] = Observed(@, success, CurrentTime(s))]
  ELSE s

(* `*state.inflight.entry(model_id).or_insert(0) += 1` *)
Acquire(s, m) ==
  [s EXCEPT !.inflight =
     Insert(@, m, IF m \in DOMAIN @ THEN @[m] + 1 ELSE 1)]

(* A slip to be caught: a subtraction that does not saturate. *)
ReleaseUnguarded(s, m) ==
  IF m \in DOMAIN s.inflight THEN [s EXCEPT !.inflight[m] = @ - 1] ELSE s

(* `if let Some(count) = inflight.get_mut(..) { count.saturating_sub(1) }` *)
Release(s, m) ==
  IF m \in DOMAIN s.inflight /\ s.inflight[m] > 0
  THEN [s EXCEPT !.inflight[m] = @ - 1]
  ELSE s

-----------------------------------------------------------------------------
(* One reducer per variant of Event that changes the state. *)

DaemonStarted(s) == [s EXCEPT !.diagnostics = NoDiagnostics]

(* A slip to be caught: adding a model again resets it. *)
ModelAddedAnew(s, m) ==
  [s EXCEPT !.models   = @ \union {m},
            !.health   = Insert(@, m, NewHealth),
            !.inflight = Insert(@, m, 0)]

ModelAdded(s, m) ==
  IF m \in s.models
  THEN s
  ELSE [s EXCEPT !.models   = @ \union {m},
                 !.health   = Insert(@, m, NewHealth),
                 !.inflight = Insert(@, m, 0)]

(* A slip to be caught: the health of a removed model stays behind. *)
ModelRemovedInPart(s, m) ==
  [s EXCEPT !.models = @ \ {m}, !.inflight = RemoveKey(@, m)]

ModelRemoved(s, m) ==
  [s EXCEPT !.models   = @ \ {m},
            !.health   = RemoveKey(@, m),
            !.inflight = RemoveKey(@, m)]

ModelSelected(s, m) ==
  Acquire([s EXCEPT !.last_selected =
             [model_id |-> m, selected_at |-> CurrentTime(s)]], m)

(* A slip to be caught: selection and request both take a slot. *)
CompletionRequestedTwice(s, m) == Acquire(Acquire(s, m), m)

CompletionRequested(s, m) == Acquire(s, m)

CompletionFinished(s, m, success) ==
  LET t == Release(Observe(s, m, success), m)
  IN  [t EXCEPT !.diagnostics = CountCompletion(@, success)]

ModelFailed(s, m) ==
  LET t == Observe(s, m, FALSE)
  IN  [t EXCEPT !.diagnostics = CountFailed(@)]

ProbeUpdated(s, m) == Observe(s, m, TRUE)

(* A slip to be caught: the flag is not recomputed. *)
ProbeFailedUnflagged(s, m) ==
  IF m \in DOMAIN s.health
  THEN [s EXCEPT !.health[m] = CountFailure(@, CurrentTime(s))]
  ELSE s

ProbeFailed(s, m) == Observe(s, m, FALSE)

ReportReceived(s, m, success) == Observe(s, m, success)

FallbackTriggered(s, from, to) ==
  [s EXCEPT !.last_fallback = [from |-> from, to |-> to, at |-> CurrentTime(s)],
            !.diagnostics = CountFallback(@)]

DegradeModeEnabled(s) ==
  [s EXCEPT !.diagnostics = CountDegradation(@)]
=============================================================================
