------------------------------- MODULE Kernel -------------------------------
(***************************************************************************)
(* The live event pipeline of omrp-core/src/pipeline.rs: a stream of       *)
(* validated events folded into the projected State by the reducers.  Any  *)
(* event may follow any other: the pipeline imposes no protocol, and       *)
(* reports, probes and completions of several requests reach it in         *)
(* whatever order their senders finish.  An event that validate() rejects  *)
(* leaves the pipeline as it was, and ConfigReloaded and DaemonStopped     *)
(* change no state, so neither has an action.                              *)
(*                                                                         *)
(* events and restarts count what the log holds; outcome remembers the     *)
(* last thing observed of each model and is read by no action.             *)
(***************************************************************************)
EXTENDS Reducers

CONSTANTS
  MaxEvents,    \* bound: length of the event log
  MaxRestarts   \* bound: DaemonStarted events in it

ASSUME BoundsAssumption == MaxEvents \in Nat /\ MaxRestarts \in Nat

VARIABLES
  state,      \* ProjectionView<State>
  events,     \* event_log.len()
  restarts,   \* how many of them are DaemonStarted
  outcome     \* per model, the last observation made of it

vars == <<state, events, restarts, outcome>>

Outcome == {"none", "success", "failure"}

Init ==
  /\ state = NewState
  /\ events = 0
  /\ restarts = 0
  /\ outcome = [m \in ModelId |-> "none"]

-----------------------------------------------------------------------------
(* EventPipeline::process of one valid event: log it, then apply it. *)

Process(next) ==
  /\ events < MaxEvents
  /\ events' = events + 1
  /\ state' = next

Note(m, o) == outcome' = [outcome EXCEPT ![m] = o]

(* An observation of an unregistered model reaches no HealthStatus. *)
NoteObserved(m, success) ==
  IF m \in DOMAIN state.health
  THEN Note(m, IF success THEN "success" ELSE "failure")
  ELSE UNCHANGED outcome

OnDaemonStarted ==
  /\ restarts < MaxRestarts
  /\ Process(DaemonStarted(state))
  /\ restarts' = restarts + 1
  /\ UNCHANGED outcome

OnModelAdded(m) ==
  /\ Process(ModelAdded(state, m))
  /\ UNCHANGED <<restarts, outcome>>

OnModelRemoved(m) ==
  /\ Process(ModelRemoved(state, m))
  /\ Note(m, "none")
  /\ UNCHANGED restarts

OnModelSelected(m) ==
  /\ Process(ModelSelected(state, m))
  /\ UNCHANGED <<restarts, outcome>>

OnCompletionRequested(m) ==
  /\ Process(CompletionRequested(state, m))
  /\ UNCHANGED <<restarts, outcome>>

OnCompletionFinished(m, success) ==
  /\ Process(CompletionFinished(state, m, success))
  /\ NoteObserved(m, success)
  /\ UNCHANGED restarts

OnModelFailed(m) ==
  /\ Process(ModelFailed(state, m))
  /\ NoteObserved(m, FALSE)
  /\ UNCHANGED restarts

OnProbeUpdated(m) ==
  /\ Process(ProbeUpdated(state, m))
  /\ NoteObserved(m, TRUE)
  /\ UNCHANGED restarts

OnProbeFailed(m) ==
  /\ Process(ProbeFailed(state, m))
  /\ NoteObserved(m, FALSE)
  /\ UNCHANGED restarts

OnReportReceived(m, success) ==
  /\ Process(ReportReceived(state, m, success))
  /\ NoteObserved(m, success)
  /\ UNCHANGED restarts

OnFallbackTriggered(from, to) ==
  /\ Process(FallbackTriggered(state, from, to))
  /\ UNCHANGED <<restarts, outcome>>

OnDegradeModeEnabled ==
  /\ Process(DegradeModeEnabled(state))
  /\ UNCHANGED <<restarts, outcome>>

Next ==
  \/ OnDaemonStarted
  \/ \E m \in ModelId :
       \/ OnModelAdded(m)
       \/ OnModelRemoved(m)
       \/ OnModelSelected(m)
       \/ OnCompletionRequested(m)
       \/ \E success \in BOOLEAN : OnCompletionFinished(m, success)
       \/ OnModelFailed(m)
       \/ OnProbeUpdated(m)
       \/ OnProbeFailed(m)
       \/ \E success \in BOOLEAN : OnReportReceived(m, success)
       \/ \E to \in ModelId : OnFallbackTriggered(m, to)
  \/ OnDegradeModeEnabled

Spec == Init /\ [][Next]_vars

-----------------------------------------------------------------------------
(* Every part of the pipeline has its type; see IsState in Reducers. *)
TypeOK ==
  /\ IsState(state)
  /\ events \in Nat
  /\ restarts \in Nat
  /\ outcome \in [ModelId -> Outcome]

(***************************************************************************)
(* The registry and the two maps that hang off it never drift apart: a     *)
(* health entry exists exactly for the registered models, and each of them *)
(* has an inflight counter (the router and the scorer look all three up    *)
(* by id).  Adding, removing and re-adding a model, in any order with the  *)
(* events that mention it, must keep them in step.                         *)
(***************************************************************************)
RegistryAgrees ==
  /\ DOMAIN state.health = state.models
  /\ state.models \subseteq DOMAIN state.inflight

(***************************************************************************)
(* The cached garbage flag the router filters on is never stale: whichever *)
(* event last moved a counter or a timestamp also recomputed it.           *)
(***************************************************************************)
GarbageFlagFresh ==
  \A m \in DOMAIN state.health :
    state.health[m].garbage = IsGarbage(state.health[m])

(***************************************************************************)
(* Until the daemon restarts, no health timestamp lies in the future of    *)
(* the clock derived from the diagnostics.                                 *)
(***************************************************************************)
HealthBehindClock ==
  restarts = 0 =>
    \A m \in DOMAIN state.health :
      /\ state.health[m].last_success <= CurrentTime(state)
      /\ state.health[m].last_failure <= CurrentTime(state)

(***************************************************************************)
(* Until the daemon restarts, only a model whose last observation was a    *)
(* failure is excluded as garbage: one success of any kind readmits it.    *)
(***************************************************************************)
GarbageLastFailed ==
  restarts = 0 =>
    \A m \in DOMAIN state.health :
      state.health[m].garbage => outcome[m] = "failure"

(* What makes GarbageLastFailed inductive: unless a model failed last, its *)
(* last failure is not later than its last success.                        *)
FailureOrder ==
  restarts = 0 =>
    \A m \in DOMAIN state.health :
      outcome[m] # "failure" =>
        state.health[m].last_failure <= state.health[m].last_success

KernelInv ==
  /\ TypeOK
  /\ RegistryAgrees
  /\ GarbageFlagFresh
  /\ HealthBehindClock
  /\ FailureOrder

(***************************************************************************)
(* Until the daemon restarts, the health of a model that stays registered  *)
(* only accumulates: no event, in particular no repeated ModelAdded, takes *)
(* observations away or moves a timestamp back.                            *)
(***************************************************************************)
HealthAccumulates ==
  [][restarts' = 0 =>
       \A m \in state.models \intersect state'.models :
         Accumulated(state.health[m], state'.health[m])]_vars

=============================================================================
