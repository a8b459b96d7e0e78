------------------------------ MODULE RouteProofs ------------------------------
(***************************************************************************)
(* The command line's safety properties hold for every set of models, any  *)
(* latency and any number of invocations: every variable has its type, the *)
(* candidates still ahead are sound, the books of failures balance, the    *)
(* inflight counters leak at most one request per invocation and, unless a *)
(* save is cut short, what is saved only grows and a model saved as        *)
(* garbage is never called again.  A save that is cut short makes nothing  *)
(* up.                                                                     *)
(* The tier it starts from (module Classifier) is always decided, and      *)
(* every keyword pulls it one way.                                         *)
(*                                                                         *)
(* The sums are cardinalities: Units(map) has one member for each unit of  *)
(* each number in the map, so a counter that goes up by one adds one       *)
(* member.  Sound is the invariant of a State on its way through the       *)
(* program.  That registry and maps have one domain is what lets a failure *)
(* of a candidate count in its health, and so keep the books.              *)
(***************************************************************************)
EXTENDS Route, Classifier, ReducersProofs, FiniteSetTheorems

(* A map whose numbers can be added up. *)
IsCounts(map) == map \in [DOMAIN map -> Nat] /\ IsFiniteSet(Units(map))

Sound(s) ==
  /\ IsState(s)
  /\ s.models \subseteq Configurable
  /\ DOMAIN s.health = s.models
  /\ DOMAIN s.inflight = s.models
  /\ IsCounts(FailureCounts(s))
  /\ IsCounts(s.inflight)
  /\ Failures(s) = s.diagnostics.total_failures

(* A log after n invocations, of which every prefix replays to a sound     *)
(* State.                                                                  *)
SoundLog(log, n) ==
  /\ log \in Seq(ToSet(log))
  /\ \A i \in DOMAIN log :
       /\ log[i].average \in [ModelId -> Nat]
       /\ Sound(log[i].state)
       /\ Total(log[i].state.inflight) <= n

RouteInv ==
  /\ TypeOK
  /\ Sound(saved)
  /\ Sound(mem)
  /\ SoundLog(past.saved, runs)
  /\ SoundLog(past.mem, runs)
  /\ ChainStaysSound
  /\ InflightBounded

-----------------------------------------------------------------------------
(* Sums. *)

(* The units of a map, one by one. *)
LEMMA UnitsFacts ==
  ASSUME NEW map
  PROVE  \A u : u \in Units(map) <=>
           \E x \in DOMAIN map : \E k \in 1 .. map[x] : u = <<x, k>>
  BY DEF Units

(* What is added to a map with count 0 adds nothing. *)
LEMMA SameUnits ==
  ASSUME NEW f, f \in [DOMAIN f -> Nat],
         NEW g, DOMAIN f \subseteq DOMAIN g,
         \A x \in DOMAIN f : g[x] = f[x],
         \A x \in DOMAIN g \ DOMAIN f : g[x] = 0
  PROVE  Units(g) = Units(f)
<1>1. \A x \in DOMAIN g \ DOMAIN f : 1 .. g[x] = {}
  OBVIOUS
<1> QED
  BY <1>1, UnitsFacts

(* One more for one name is one more in all. *)
LEMMA OneMore ==
  ASSUME NEW f, IsCounts(f),
         NEW g, g \in [DOMAIN f -> Nat],
         NEW m \in DOMAIN f, g[m] = f[m] + 1,
         \A x \in DOMAIN f : x # m => g[x] = f[x]
  PROVE  IsCounts(g) /\ Total(g) = Total(f) + 1
<1> DEFINE u == <<m, f[m] + 1>>
<1>1. \A x \in DOMAIN f : f[x] \in Nat
  BY DEF IsCounts
<1>2. u \notin Units(f)
  BY <1>1, UnitsFacts
<1>3. Units(g) = Units(f) \union {u}
  <2>1. 1 .. g[m] = (1 .. f[m]) \union {f[m] + 1}
    BY <1>1
  <2> QED
    BY <2>1, UnitsFacts
<1>4. /\ IsFiniteSet(Units(g))
      /\ Cardinality(Units(g)) = Cardinality(Units(f)) + 1
  <2>1. IsFiniteSet(Units(f))
    BY DEF IsCounts
  <2> HIDE DEF u
  <2> QED
    BY <1>2, <1>3, <2>1, FS_AddElement
<1> QED
  BY <1>1, <1>4 DEF IsCounts, Total

(* Less or as many for each name is less or as many in all. *)
LEMMA NoMore ==
  ASSUME NEW f, IsCounts(f),
         NEW g, g \in [DOMAIN f -> Nat],
         \A x \in DOMAIN f : g[x] <= f[x]
  PROVE  IsCounts(g) /\ Total(g) <= Total(f)
<1>1. \A x \in DOMAIN f : 1 .. g[x] \subseteq 1 .. f[x]
  BY DEF IsCounts
<1>2. Units(g) \subseteq Units(f)
  BY <1>1, UnitsFacts
<1> QED
  BY <1>2, FS_Subset DEF IsCounts, Total

(* A total is a number. *)
LEMMA TotalType ==
  ASSUME NEW f, IsCounts(f)
  PROVE  Total(f) \in Nat
  BY FS_CardinalityType DEF IsCounts, Total

(* A map without names has the total 0. *)
LEMMA NothingToCount ==
  ASSUME NEW f, DOMAIN f = {}, f \in [DOMAIN f -> Nat]
  PROVE  IsCounts(f) /\ Total(f) = 0
<1>1. Units(f) = {}
  BY UnitsFacts
<1> QED
  BY <1>1, FS_EmptySet DEF IsCounts, Total

-----------------------------------------------------------------------------
(* The reducers of an invocation keep a sound State sound. *)

(* The State of an empty ledger. *)
LEMMA NewStateSound == Sound(NewState) /\ Total(NewState.inflight) = 0
<1>1. NoDiagnostics \in Diagnostics /\ NoDiagnostics.total_failures = 0
  BY DEF NoDiagnostics, Diagnostics
<1>2. IsState(NewState)
  BY <1>1 DEF IsState, NewState
<1>3. /\ NewState.models = {}
      /\ DOMAIN NewState.health = {}
      /\ DOMAIN NewState.inflight = {}
      /\ NewState.diagnostics = NoDiagnostics
  BY DEF NewState
<1>4. /\ DOMAIN FailureCounts(NewState) = {}
      /\ FailureCounts(NewState) \in [DOMAIN FailureCounts(NewState) -> Nat]
  BY <1>3 DEF FailureCounts
<1>5. NewState.inflight \in [DOMAIN NewState.inflight -> Nat]
  BY <1>2 DEF IsState
<1>6. IsCounts(FailureCounts(NewState)) /\ Failures(NewState) = 0
  BY <1>4, NothingToCount DEF Failures
<1>7. IsCounts(NewState.inflight) /\ Total(NewState.inflight) = 0
  BY <1>3, <1>5, NothingToCount
<1> QED
  BY <1>1, <1>2, <1>3, <1>6, <1>7 DEF Sound

(* The failure counts of a State. *)
LEMMA FailureCountsFacts ==
  ASSUME NEW s, IsState(s)
  PROVE  /\ DOMAIN FailureCounts(s) = DOMAIN s.health
         /\ FailureCounts(s) \in [DOMAIN s.health -> Nat]
         /\ \A x \in DOMAIN s.health :
              FailureCounts(s)[x] = s.health[x].failure_count
  BY DEF FailureCounts, IsState, HealthStatus

(* Registering the configured models adds models without a record and      *)
(* leaves those it knows alone.                                            *)
LEMMA BootstrappedSound ==
  ASSUME NEW s, Sound(s), NEW configured \in SUBSET Configurable
  PROVE  LET t == Bootstrapped(s, configured)
         IN  /\ Sound(t)
             /\ t.models = s.models \union configured
             /\ \A x \in s.models : t.health[x] = s.health[x]
             /\ \A x \in t.models \ s.models : t.health[x] = NewHealth
             /\ CurrentTime(t) = CurrentTime(s)
             /\ Total(t.inflight) = Total(s.inflight)
<1> DEFINE new == configured \ s.models
           h == [m \in DOMAIN s.health \union new |->
                   IF m \in new THEN NewHealth ELSE s.health[m]]
           i == [m \in DOMAIN s.inflight \union new |->
                   IF m \in new THEN 0 ELSE s.inflight[m]]
           t == Bootstrapped(s, configured)
<1>1. /\ IsState(s)
      /\ s.models \subseteq Configurable
      /\ DOMAIN s.health = s.models
      /\ DOMAIN s.inflight = s.models
  BY DEF Sound
<1>2. t = [models        |-> s.models \union new,
           health        |-> h,
           inflight      |-> i,
           last_selected |-> s.last_selected,
           last_fallback |-> s.last_fallback,
           diagnostics   |-> s.diagnostics]
  <2>1. t = [s EXCEPT !.models = s.models \union new, !.health = h, !.inflight = i]
    BY DEF Bootstrapped
  <2> HIDE DEF t, h, i, new
  <2> QED
    BY <1>1, <2>1, UpdateFacts
<1>3. new \subseteq ModelId
  BY RouteAssumption
<1>4. /\ h \in [s.models \union new -> HealthStatus]
      /\ \A m \in s.models : h[m] = s.health[m]
      /\ \A m \in new : h[m] = NewHealth /\ h[m].failure_count = 0
  <2>1. s.health \in [s.models -> HealthStatus]
    BY <1>1 DEF IsState
  <2> QED
    BY <1>1, <2>1, NewHealthType DEF NewHealth
<1>5. /\ i \in [s.models \union new -> Nat]
      /\ \A m \in s.models : i[m] = s.inflight[m]
      /\ \A m \in new : i[m] = 0
  <2>1. s.inflight \in [s.models -> Nat]
    BY <1>1 DEF IsState
  <2> QED
    BY <1>1, <2>1
<1>6. /\ s.models \union new = s.models \union configured
      /\ new \subseteq Configurable
      /\ new \intersect s.models = {}
  OBVIOUS
<1> HIDE DEF t, h, i, new
<1>7. IsState(t)
  BY <1>1, <1>2, <1>3, <1>4, <1>5 DEF IsState
<1>8. /\ t.models = s.models \union new
      /\ t.health = h
      /\ t.inflight = i
      /\ t.diagnostics = s.diagnostics
      /\ DOMAIN h = t.models
      /\ DOMAIN i = t.models
  BY <1>2, <1>4, <1>5
<1>9. Units(FailureCounts(t)) = Units(FailureCounts(s))
  <2>1. /\ DOMAIN FailureCounts(s) = s.models
        /\ DOMAIN FailureCounts(t) = s.models \union new
        /\ FailureCounts(s) \in [DOMAIN FailureCounts(s) -> Nat]
    BY <1>1, <1>7, <1>8, FailureCountsFacts
  <2>2. \A x \in s.models : FailureCounts(t)[x] = FailureCounts(s)[x]
    BY <1>1, <1>4, <1>7, <1>8, FailureCountsFacts
  <2>3. \A x \in new : FailureCounts(t)[x] = 0
    BY <1>4, <1>7, <1>8, FailureCountsFacts
  <2> QED
    BY <2>1, <2>2, <2>3, SameUnits
<1>10. Units(i) = Units(s.inflight)
  <2>1. s.inflight \in [DOMAIN s.inflight -> Nat]
    BY <1>1 DEF IsState
  <2> QED
    BY <1>1, <1>5, <2>1, SameUnits
<1>11. IsCounts(FailureCounts(t)) /\ Failures(t) = Failures(s)
  BY <1>7, <1>9, FailureCountsFacts DEF Sound, IsCounts, Failures, Total
<1>12. IsCounts(i) /\ Total(i) = Total(s.inflight)
  BY <1>5, <1>10 DEF Sound, IsCounts, Total
<1>13. CurrentTime(t) = CurrentTime(s)
  BY <1>8 DEF CurrentTime
<1>14. /\ \A x \in s.models : t.health[x] = s.health[x]
       /\ \A x \in t.models \ s.models : t.health[x] = NewHealth
  BY <1>4, <1>8
<1> QED
  BY <1>1, <1>6, <1>7, <1>8, <1>11, <1>12, <1>13, <1>14 DEF Sound, t

(* A request takes a slot of a registered model.                           *)
LEMMA RequestedSound ==
  ASSUME NEW s, Sound(s), NEW m \in s.models
  PROVE  LET t == CompletionRequested(s, m)
         IN  /\ Sound(t)
             /\ t.models = s.models
             /\ t.health = s.health
             /\ Total(t.inflight) = Total(s.inflight) + 1
<1> DEFINE t == CompletionRequested(s, m)
<1>1. /\ IsState(s)
      /\ m \in ModelId
      /\ DOMAIN s.health = s.models
      /\ DOMAIN s.inflight = s.models
  BY DEF Sound, IsState
<1>2. /\ IsState(t)
      /\ t.models = s.models
      /\ t.health = s.health
      /\ t.diagnostics = s.diagnostics
      /\ DOMAIN t.inflight = s.models \union {m}
  BY <1>1, AcquireFacts DEF CompletionRequested
<1>3. /\ t.inflight[m] = s.inflight[m] + 1
      /\ \A x \in s.models : x # m => t.inflight[x] = s.inflight[x]
  BY <1>1, AcquireCounts DEF CompletionRequested
<1> HIDE DEF t
<1>4. t.inflight \in [s.models -> Nat]
  BY <1>2 DEF IsState
<1>5. IsCounts(t.inflight) /\ Total(t.inflight) = Total(s.inflight) + 1
  BY <1>1, <1>3, <1>4, OneMore DEF Sound
<1>6. FailureCounts(t) = FailureCounts(s)
  BY <1>2 DEF FailureCounts
<1> QED
  BY <1>2, <1>5, <1>6 DEF Sound, Failures, t

(* An answer may come under any name, registered or not: it fails nothing  *)
(* and takes no slot.                                                      *)
LEMMA SucceededSound ==
  ASSUME NEW s, Sound(s), NEW used \in ModelId
  PROVE  LET t == CompletionFinished(s, used, TRUE)
         IN  /\ Sound(t)
             /\ Total(t.inflight) <= Total(s.inflight)
<1> DEFINE t == CompletionFinished(s, used, TRUE)
<1>1. IsState(s) /\ DOMAIN s.health = s.models /\ DOMAIN s.inflight = s.models
  BY DEF Sound
<1>2. ObservesOnly(s, t, used, TRUE)
  BY <1>1, CompletionFinishedFacts
<1>3. /\ \A x \in s.models : t.inflight[x] <= s.inflight[x]
      /\ t.diagnostics.total_failures = s.diagnostics.total_failures
  BY <1>1, CompletionFinishedCounts
<1> HIDE DEF t
<1>4. /\ IsState(t)
      /\ t.models = s.models
      /\ DOMAIN t.health = s.models
      /\ DOMAIN t.inflight = s.models
      /\ \A x \in s.models : t.health[x].failure_count = s.health[x].failure_count
  <2>1. \A x \in s.models : s.health[x] \in HealthStatus
    BY <1>1 DEF IsState
  <2>2. \A x \in s.models :
          /\ x = used => t.health[x] = Observed(s.health[x], TRUE, CurrentTime(s))
          /\ x # used => t.health[x] = s.health[x]
    BY <1>1, <1>2 DEF ObservesOnly
  <2>3. \A x \in s.models :
          Observed(s.health[x], TRUE, CurrentTime(s)).failure_count
            = s.health[x].failure_count
    BY <1>1, <2>1, ObservedFailures, CurrentTimeType
  <2> QED
    BY <1>1, <1>2, <2>2, <2>3 DEF ObservesOnly
<1>5. FailureCounts(t) = FailureCounts(s)
  BY <1>1, <1>4 DEF FailureCounts
<1>6. t.inflight \in [s.models -> Nat]
  BY <1>4 DEF IsState
<1>7. IsCounts(t.inflight) /\ Total(t.inflight) <= Total(s.inflight)
  BY <1>1, <1>3, <1>6, NoMore DEF Sound
<1> QED
  BY <1>3, <1>4, <1>5, <1>7 DEF Sound, Failures, t

(* A failed call is two failures in the books and two in the health of the *)
(* candidate, and no other candidate notices.                              *)
LEMMA FailedSound ==
  ASSUME NEW s, Sound(s), NEW m \in s.models
  PROVE  LET t == CompletionFinished(ModelFailed(s, m), m, FALSE)
         IN  /\ Sound(t)
             /\ t.models = s.models
             /\ \A x \in s.models : x # m => t.health[x] = s.health[x]
             /\ Total(t.inflight) <= Total(s.inflight)
             /\ Sound(ModelFailed(s, m))
             /\ Total(ModelFailed(s, m).inflight) = Total(s.inflight)
<1> DEFINE f == ModelFailed(s, m)
           t == CompletionFinished(f, m, FALSE)
<1>1. /\ IsState(s)
      /\ m \in ModelId
      /\ DOMAIN s.health = s.models
      /\ DOMAIN s.inflight = s.models
  BY DEF Sound, IsState
<1>2. /\ ObservesOnly(s, f, m, FALSE)
      /\ f.inflight = s.inflight
      /\ f.diagnostics.total_failures = s.diagnostics.total_failures + 1
  BY <1>1, ModelFailedFacts, ModelFailedCounts
<1> HIDE DEF f
<1>3. IsState(f) /\ f.models = s.models /\ DOMAIN f.health = s.models
  BY <1>1, <1>2 DEF ObservesOnly
<1>4. ObservesOnly(f, t, m, FALSE)
  BY <1>1, <1>3, CompletionFinishedFacts
<1>5. /\ \A x \in s.models : t.inflight[x] <= s.inflight[x]
      /\ t.diagnostics.total_failures = f.diagnostics.total_failures + 1
  BY <1>1, <1>2, <1>3, CompletionFinishedCounts
<1> HIDE DEF t
<1>6. /\ IsState(t)
      /\ t.models = s.models
      /\ DOMAIN t.health = s.models
      /\ DOMAIN t.inflight = s.models
  BY <1>1, <1>2, <1>3, <1>4 DEF ObservesOnly
<1>7. /\ \A x \in s.models : x # m => t.health[x] = s.health[x]
      /\ f.health[m].failure_count = s.health[m].failure_count + 1
      /\ t.health[m].failure_count = f.health[m].failure_count + 1
  <2>1. s.health[m] \in HealthStatus /\ f.health[m] \in HealthStatus
    BY <1>1, <1>3 DEF IsState
  <2>2. /\ f.health[m] = Observed(s.health[m], FALSE, CurrentTime(s))
        /\ \A x \in s.models : x # m => f.health[x] = s.health[x]
    BY <1>1, <1>2 DEF ObservesOnly
  <2>3. /\ t.health[m] = Observed(f.health[m], FALSE, CurrentTime(f))
        /\ \A x \in s.models : x # m => t.health[x] = f.health[x]
    BY <1>3, <1>4 DEF ObservesOnly
  <2>4. /\ Observed(s.health[m], FALSE, CurrentTime(s)).failure_count
             = s.health[m].failure_count + 1
        /\ Observed(f.health[m], FALSE, CurrentTime(f)).failure_count
             = f.health[m].failure_count + 1
    BY <1>1, <1>3, <2>1, ObservedFailures, CurrentTimeType
  <2> QED
    BY <2>2, <2>3, <2>4
<1>8. /\ IsCounts(FailureCounts(f)) /\ Failures(f) = Failures(s) + 1
      /\ IsCounts(FailureCounts(t)) /\ Failures(t) = Failures(f) + 1
  <2>1. /\ \A x \in s.models : x # m => f.health[x] = s.health[x]
        /\ \A x \in s.models : x # m => t.health[x] = f.health[x]
    BY <1>1, <1>2, <1>3, <1>4 DEF ObservesOnly
  <2>2. /\ FailureCounts(s) \in [s.models -> Nat]
        /\ FailureCounts(f) \in [s.models -> Nat]
        /\ FailureCounts(t) \in [s.models -> Nat]
        /\ \A x \in s.models :
             /\ FailureCounts(s)[x] = s.health[x].failure_count
             /\ FailureCounts(f)[x] = f.health[x].failure_count
             /\ FailureCounts(t)[x] = t.health[x].failure_count
    BY <1>1, <1>3, <1>6, FailureCountsFacts
  <2>3. IsCounts(FailureCounts(f)) /\ Failures(f) = Failures(s) + 1
    BY <1>7, <2>1, <2>2, OneMore DEF Sound, Failures
  <2>4. IsCounts(FailureCounts(t)) /\ Failures(t) = Failures(f) + 1
    BY <1>7, <2>1, <2>2, <2>3, OneMore DEF Failures
  <2> QED
    BY <2>3, <2>4
<1>9. Failures(t) = t.diagnostics.total_failures
  <2>1. s.diagnostics.total_failures \in Nat
    BY <1>1 DEF IsState, Diagnostics
  <2> QED
    BY <1>2, <1>5, <1>8, <2>1 DEF Sound
<1>10. t.inflight \in [s.models -> Nat]
  BY <1>6 DEF IsState
<1>11. IsCounts(t.inflight) /\ Total(t.inflight) <= Total(s.inflight)
  BY <1>1, <1>5, <1>10, NoMore DEF Sound
<1>12. Sound(f) /\ Total(f.inflight) = Total(s.inflight)
  <2>1. s.diagnostics.total_failures \in Nat
    BY <1>1 DEF IsState, Diagnostics
  <2>2. Failures(f) = f.diagnostics.total_failures
    BY <1>2, <1>8, <2>1 DEF Sound
  <2> QED
    BY <1>1, <1>2, <1>3, <1>8, <2>2 DEF Sound
<1> QED
  BY <1>6, <1>7, <1>8, <1>9, <1>11, <1>12 DEF Sound, t, f

-----------------------------------------------------------------------------
(* The chain. *)

(* The models ranked are registered and none is garbage.                   *)
LEMMA CandidatesFacts ==
  ASSUME NEW s, Sound(s), NEW tier
  PROVE  /\ TierCandidates(s, tier) \subseteq s.models
         /\ \A m \in TierCandidates(s, tier) : ~ s.health[m].garbage
         /\ IsFiniteSet(TierCandidates(s, tier))
<1>1. \A among : \A m \in Candidates(s, among) :
        m \in s.models /\ ~ s.health[m].garbage
  BY DEF Candidates, Sound
<1>2. \A m \in TierCandidates(s, tier) : m \in s.models /\ ~ s.health[m].garbage
  BY <1>1 DEF TierCandidates
<1>3. TierCandidates(s, tier) \subseteq Configurable
  BY <1>2 DEF Sound
<1> QED
  BY <1>2, <1>3, FS_Subset, RouteAssumption

(* A ranking is a sequence of the models without repetition.               *)
LEMMA RankingsFacts ==
  ASSUME NEW s, NEW avg, NEW models, IsFiniteSet(models), NEW suited, NEW max,
         NEW order \in Rankings(s, avg, models, suited, max)
  PROVE  /\ order \in Seq(models)
         /\ \A i, j \in DOMAIN order : i # j => order[i] # order[j]
<1> DEFINE n == Cardinality(models)
<1>1. n \in Nat
  BY FS_CardinalityType
<1>2. order \in SetToSeqs(models)
  BY DEF Rankings
<1>3. /\ order \in [1 .. n -> models]
      /\ \A i, j \in 1 .. n : i # j => order[i] # order[j]
  BY <1>2 DEF SetToSeqs
<1> HIDE DEF n
<1> QED
  BY <1>1, <1>3

(* What follows the head of a sequence without repetition: the rest, in    *)
(* which the head does not come again.                                     *)
LEMMA TailFacts ==
  ASSUME NEW c \in Seq(ModelId), c # <<>>,
         \A i, j \in DOMAIN c : i # j => c[i] # c[j]
  PROVE  /\ Head(c) = c[1] /\ 1 \in DOMAIN c
         /\ Tail(c) \in Seq(ModelId)
         /\ \A i \in DOMAIN Tail(c) :
              i + 1 \in DOMAIN c /\ Tail(c)[i] = c[i + 1] /\ Tail(c)[i] # Head(c)
         /\ \A i, j \in DOMAIN Tail(c) : i # j => Tail(c)[i] # Tail(c)[j]
<1>1. /\ Head(c) = c[1]
      /\ Tail(c) \in Seq(ModelId)
      /\ DOMAIN c = 1 .. Len(c)
      /\ Len(c) \in Nat /\ Len(c) > 0
      /\ DOMAIN Tail(c) = 1 .. Len(c) - 1
      /\ \A i \in 1 .. Len(c) - 1 : Tail(c)[i] = c[i + 1]
  OBVIOUS
<1>2. \A i \in DOMAIN Tail(c) :
        i \in Int /\ i + 1 \in DOMAIN c /\ i + 1 # 1 /\ Tail(c)[i] = c[i + 1]
  BY <1>1
<1>3. 1 \in DOMAIN c
  BY <1>1
<1>4. \A i \in DOMAIN Tail(c) : Tail(c)[i] # Head(c)
  BY <1>1, <1>2, <1>3
<1>5. \A i, j \in DOMAIN Tail(c) : i # j => Tail(c)[i] # Tail(c)[j]
  BY <1>2
<1> QED
  BY <1>1, <1>2, <1>3, <1>4, <1>5

-----------------------------------------------------------------------------
(* Logs. *)

(* What a function on 1 .. n is as a sequence. *)
LEMMA AnySequence ==
  ASSUME NEW n \in Nat, NEW f, f = [i \in 1 .. n |-> f[i]]
  PROVE  f \in Seq(ToSet(f)) /\ Len(f) = n /\ DOMAIN f = 1 .. n
<1>1. f \in [1 .. n -> ToSet(f)]
  BY DEF ToSet
<1> QED
  BY <1>1

(* A sequence of anything is one of what is in it. *)
LEMMA SequenceOfItself ==
  ASSUME NEW S, NEW f \in Seq(S)
  PROVE  f \in Seq(ToSet(f))
<1>1. Len(f) \in Nat /\ f \in [1 .. Len(f) -> S]
  OBVIOUS
<1>2. f = [i \in 1 .. Len(f) |-> f[i]]
  BY <1>1
<1> QED
  BY <1>1, <1>2, AnySequence

(* The entries of two logs one after the other. *)
LEMMA ConcatFacts ==
  ASSUME NEW f, f \in Seq(ToSet(f)), NEW g, g \in Seq(ToSet(g))
  PROVE  /\ Len(f) \in Nat /\ Len(g) \in Nat
         /\ DOMAIN f = 1 .. Len(f) /\ DOMAIN g = 1 .. Len(g)
         /\ f \o g \in Seq(ToSet(f \o g))
         /\ DOMAIN (f \o g) = 1 .. Len(f) + Len(g)
         /\ \A i \in 1 .. Len(f) : (f \o g)[i] = f[i]
         /\ \A i \in 1 .. Len(f) + Len(g) :
              ~ (i <= Len(f)) => i - Len(f) \in DOMAIN g /\ (f \o g)[i] = g[i - Len(f)]
<1> DEFINE S == ToSet(f) \union ToSet(g)
<1>1. f \in Seq(S) /\ g \in Seq(S)
  BY DEF ToSet
<1> HIDE DEF S
<1>2. /\ Len(f) \in Nat /\ Len(g) \in Nat
      /\ DOMAIN f = 1 .. Len(f) /\ DOMAIN g = 1 .. Len(g)
      /\ f \o g \in Seq(S)
      /\ Len(f \o g) = Len(f) + Len(g)
      /\ DOMAIN (f \o g) = 1 .. Len(f) + Len(g)
      /\ \A i \in 1 .. Len(f) + Len(g) :
           (f \o g)[i] = IF i <= Len(f) THEN f[i] ELSE g[i - Len(f)]
  BY <1>1
<1>3. f \o g \in Seq(ToSet(f \o g))
  BY <1>2, SequenceOfItself
<1>4. ASSUME NEW i \in 1 .. Len(f)
      PROVE  (f \o g)[i] = f[i]
  BY <1>2
<1>5. ASSUME NEW i \in 1 .. Len(f) + Len(g), ~ (i <= Len(f))
      PROVE  i - Len(f) \in DOMAIN g /\ (f \o g)[i] = g[i - Len(f)]
  BY <1>2, <1>5
<1> QED
  BY <1>2, <1>3, <1>4, <1>5

(* The entries of a log before entry i. *)
LEMMA PrefixFacts ==
  ASSUME NEW f, f \in Seq(ToSet(f)), NEW i \in DOMAIN f
  PROVE  LET g == SubSeq(f, 1, i - 1)
         IN  /\ g \in Seq(ToSet(g))
             /\ DOMAIN f = 1 .. Len(f) /\ Len(f) \in Nat
             /\ DOMAIN g = 1 .. i - 1
             /\ \A j \in DOMAIN g : j \in DOMAIN f /\ j < i /\ g[j] = f[j]
<1> DEFINE g == SubSeq(f, 1, i - 1)
<1>1. DOMAIN f = 1 .. Len(f) /\ Len(f) \in Nat /\ i \in Nat /\ i - 1 \in Nat
  OBVIOUS
<1>2. g = [j \in 1 .. i - 1 |-> f[j]]
  BY <1>1
<1> HIDE DEF g
<1>3. g = [j \in 1 .. i - 1 |-> g[j]]
  BY <1>2
<1>4. g \in Seq(ToSet(g)) /\ DOMAIN g = 1 .. i - 1
  BY <1>1, <1>3, AnySequence
<1> QED
  BY <1>1, <1>2, <1>4 DEF g

(* A sound log, at most n requests in flight, has its type. *)
LEMMA SoundLogType ==
  ASSUME NEW log, NEW n, SoundLog(log, n)
  PROVE  IsLog(log)
  BY DEF SoundLog, IsLog, IsReplay, Sound

(* Sound logs remain so when more requests are in flight, one after the    *)
(* other, cut off, and when their prefixes are no longer kept.             *)
LEMMA SoundLater ==
  ASSUME NEW n \in Nat, NEW log, SoundLog(log, n)
  PROVE  SoundLog(log, n + 1)
<1>1. \A i \in DOMAIN log : Total(log[i].state.inflight) \in Nat
  BY TotalType DEF SoundLog, Sound
<1> QED
  BY <1>1 DEF SoundLog

LEMMA SoundConcat ==
  ASSUME NEW n, NEW f, SoundLog(f, n), NEW g, SoundLog(g, n)
  PROVE  SoundLog(f \o g, n)
<1>1. f \in Seq(ToSet(f)) /\ g \in Seq(ToSet(g))
  BY DEF SoundLog
<1>2. ASSUME NEW i \in DOMAIN (f \o g)
      PROVE  (\E j \in DOMAIN f : (f \o g)[i] = f[j]) \/ (\E j \in DOMAIN g : (f \o g)[i] = g[j])
  <2>1. CASE i <= Len(f)
    BY <1>1, <2>1, ConcatFacts
  <2>2. CASE ~ (i <= Len(f))
    BY <1>1, <2>2, ConcatFacts
  <2> QED
    BY <2>1, <2>2
<1> QED
  BY <1>1, <1>2, ConcatFacts DEF SoundLog

LEMMA SoundPrefix ==
  ASSUME NEW n, NEW log, SoundLog(log, n), NEW i \in DOMAIN log
  PROVE  SoundLog(SubSeq(log, 1, i - 1), n)
  BY PrefixFacts DEF SoundLog

LEMMA SoundNothing ==
  ASSUME NEW n
  PROVE  SoundLog(<<>>, n)
<1>1. <<>> \in Seq(ToSet(<<>>)) /\ DOMAIN <<>> = {}
  OBVIOUS
<1> QED
  BY <1>1 DEF SoundLog

LEMMA SoundKept ==
  ASSUME NEW n, NEW log, SoundLog(log, n)
  PROVE  SoundLog(Kept(log), n)
  BY SoundNothing DEF Kept

(* A log of one or two replays. *)
LEMMA SoundOne ==
  ASSUME NEW n, NEW s, Sound(s), Total(s.inflight) <= n,
         NEW avg \in [ModelId -> Nat]
  PROVE  SoundLog(<<Replay(s, avg)>>, n)
<1> DEFINE f == <<Replay(s, avg)>>
<1>1. /\ f = [i \in 1 .. 1 |-> f[i]]
      /\ f[1].state = s /\ f[1].average = avg
  BY DEF Replay
<1> HIDE DEF f
<1>2. f \in Seq(ToSet(f)) /\ DOMAIN f = 1 .. 1
  BY <1>1, AnySequence
<1> QED
  BY <1>1, <1>2 DEF SoundLog, f

LEMMA SoundTwo ==
  ASSUME NEW n, NEW s, Sound(s), Total(s.inflight) <= n,
         NEW t, Sound(t), Total(t.inflight) <= n,
         NEW avg \in [ModelId -> Nat]
  PROVE  SoundLog(<<Replay(s, avg), Replay(t, avg)>>, n)
<1> DEFINE f == <<Replay(s, avg), Replay(t, avg)>>
<1>1. /\ f = [i \in 1 .. 2 |-> f[i]]
      /\ f[1].state = s /\ f[1].average = avg
      /\ f[2].state = t /\ f[2].average = avg
  BY DEF Replay
<1> HIDE DEF f
<1>2. f \in Seq(ToSet(f)) /\ DOMAIN f = 1 .. 2
  BY <1>1, AnySequence
<1>3. \A i \in 1 .. 2 : i = 1 \/ i = 2
  OBVIOUS
<1> QED
  BY <1>1, <1>2, <1>3 DEF SoundLog, f

(* The models registered up to one of the steps of a start. *)
LEMMA AddedFacts ==
  ASSUME NEW configured \in SUBSET Configurable, NEW old,
         NEW added \in SetToSeqs(configured \ old)
  PROVE  /\ Len(added) \in Nat
         /\ \A i \in 1 .. Len(added) + 1 :
              /\ ToSet(SubSeq(added, 1, i - 1)) \subseteq configured
              /\ \A j \in 1 .. Len(added) + 1 :
                   i < j => ToSet(SubSeq(added, 1, i - 1)) \subseteq ToSet(SubSeq(added, 1, j - 1))
<1> DEFINE S == configured \ old
           n == Cardinality(S)
<1>1. n \in Nat
  BY FS_Subset, FS_CardinalityType, RouteAssumption
<1>2. added \in [1 .. n -> S]
  BY DEF SetToSeqs
<1> HIDE DEF n
<1>3. added \in Seq(S) /\ Len(added) = n
  BY <1>1, <1>2
<1>4. \A i \in 1 .. n + 1 : SubSeq(added, 1, i - 1) = [k \in 1 .. i - 1 |-> added[k]]
  BY <1>1, <1>3
<1>5. \A i \in 1 .. n + 1 : ToSet(SubSeq(added, 1, i - 1)) = {added[k] : k \in 1 .. i - 1}
  BY <1>4 DEF ToSet
<1>6. ASSUME NEW i \in 1 .. n + 1
      PROVE  {added[k] : k \in 1 .. i - 1} \subseteq S
  BY <1>1, <1>2
<1>7. ASSUME NEW i \in 1 .. n + 1, NEW j \in 1 .. n + 1, i < j
      PROVE  {added[k] : k \in 1 .. i - 1} \subseteq {added[k] : k \in 1 .. j - 1}
  BY <1>1, <1>7
<1> QED
  BY <1>1, <1>3, <1>5, <1>6, <1>7

(* Every step of a start is sound. *)
LEMMA RegisteringFacts ==
  ASSUME NEW s, Sound(s), NEW n, Total(s.inflight) <= n,
         NEW avg \in [ModelId -> Nat], NEW configured \in SUBSET Configurable,
         NEW added \in SetToSeqs(configured \ s.models)
  PROVE  LET f == Registering(s, avg, added)
         IN  /\ SoundLog(f, n)
             /\ DOMAIN f = 1 .. Len(added) + 1 /\ Len(added) \in Nat
             /\ \A i \in DOMAIN f :
                  f[i].state = Bootstrapped(s, ToSet(SubSeq(added, 1, i - 1)))
<1> DEFINE f == Registering(s, avg, added)
           k == Len(added) + 1
<1>1. /\ Len(added) \in Nat /\ k \in Nat
      /\ \A i \in 1 .. k : ToSet(SubSeq(added, 1, i - 1)) \in SUBSET Configurable
  <2>1. /\ Len(added) \in Nat
        /\ \A i \in 1 .. k : ToSet(SubSeq(added, 1, i - 1)) \subseteq configured
    BY AddedFacts, Zenon
  <2> QED
    BY <2>1
<1>2. f = [i \in 1 .. k |-> Replay(Bootstrapped(s, ToSet(SubSeq(added, 1, i - 1))), avg)]
  BY DEF Registering
<1> HIDE DEF f, k
<1>3. /\ f = [i \in 1 .. k |-> f[i]]
      /\ \A i \in 1 .. k : /\ f[i].state = Bootstrapped(s, ToSet(SubSeq(added, 1, i - 1)))
                           /\ f[i].average = avg
  BY <1>2 DEF Replay
<1>4. f \in Seq(ToSet(f)) /\ DOMAIN f = 1 .. k
  BY <1>1, <1>3, AnySequence
<1>5. ASSUME NEW i \in 1 .. k
      PROVE  Sound(f[i].state) /\ Total(f[i].state.inflight) <= n
  BY <1>1, <1>3, BootstrappedSound
<1> QED
  BY <1>1, <1>3, <1>4, <1>5 DEF SoundLog, f, k

-----------------------------------------------------------------------------
(* The invariant. *)

(* windowed_avg of two numbers is one.                                     *)
LEMMA WindowedAvgType ==
  ASSUME NEW current \in Nat, NEW new \in Nat
  PROVE  WindowedAvg(current, new) \in Nat
  BY DEF WindowedAvg

(* The invariant holds at the start. *)
LEMMA InitInv == Init => RouteInv
<1> SUFFICES ASSUME Init PROVE RouteInv
  OBVIOUS
<1>1. Sound(saved) /\ Sound(mem) /\ InflightBounded
  BY NewStateSound DEF Init, InflightBounded
<1>2. /\ chain = <<>> /\ runs = 0 /\ MaxRuns \in Nat /\ cuts = 0 /\ MaxCuts \in Nat
      /\ past = [saved |-> <<>>, mem |-> <<>>]
  BY RouteAssumption DEF Init
<1>3. SoundLog(past.saved, runs) /\ SoundLog(past.mem, runs)
  BY <1>2, SoundNothing
<1>4. IsLog(past.saved) /\ IsLog(past.mem)
  BY <1>3, SoundLogType
<1>5. TypeOK
  BY <1>1, <1>2, <1>4 DEF Init, TypeOK, Sound
<1>6. ChainStaysSound
  BY <1>2 DEF ChainStaysSound
<1> QED
  BY <1>1, <1>3, <1>5, <1>6 DEF RouteInv

(* What every way to end an invocation has in common.                      *)
LEMMA LeaveInv ==
  ASSUME RouteInv, NEW s, NEW avg, NEW log, Leave(s, avg, log),
         cuts' \in 0 .. MaxCuts, SoundLog(log, runs),
         Sound(s), Total(s.inflight) <= runs, avg \in [ModelId -> Nat]
  PROVE  RouteInv'
<1>1. /\ pc' = "idle" /\ chain' = <<>> /\ saved' = s /\ mem' = s /\ runs' = runs
      /\ average' = [saved |-> avg, mem |-> avg]
      /\ past' = [saved |-> Kept(log), mem |-> Kept(log)]
  BY DEF Leave
<1>2. Sound(saved)' /\ Sound(mem)'
  BY <1>1
<1>3. InflightBounded'
  BY <1>1 DEF InflightBounded
<1>4. average' \in [{"saved", "mem"} -> [ModelId -> Nat]]
  BY <1>1
<1>5. IsState(s) /\ runs \in 0 .. MaxRuns
  BY DEF Sound, RouteInv, TypeOK
<1>6. SoundLog(Kept(log), runs)
  BY SoundKept
<1>7. SoundLog(past.saved, runs)' /\ SoundLog(past.mem, runs)'
  BY <1>1, <1>6
<1>8. /\ past' = [saved |-> past'.saved, mem |-> past'.mem]
      /\ IsLog(past'.saved) /\ IsLog(past'.mem)
  BY <1>1, <1>6, SoundLogType
<1>9. TypeOK'
  BY <1>1, <1>4, <1>5, <1>8 DEF TypeOK
<1>10. ChainStaysSound'
  BY <1>1 DEF ChainStaysSound
<1> QED
  BY <1>2, <1>3, <1>7, <1>9, <1>10 DEF RouteInv

(* The running invocation goes on with a sound State and a sound log.      *)
LEMMA GoOnInv ==
  ASSUME RouteInv, UNCHANGED <<saved, cuts>>,
         pc' \in {"idle", "trying", "saving"}, runs' \in runs .. MaxRuns,
         chain' \in Seq(ModelId), ChainStaysSound',
         Sound(mem'), Total(mem'.inflight) <= runs',
         average' \in [{"saved", "mem"} -> [ModelId -> Nat]],
         NEW log, past' = [past EXCEPT !.mem = log], SoundLog(log, runs'),
         SoundLog(past.saved, runs')
  PROVE  RouteInv'
<1>1. runs \in 0 .. MaxRuns /\ MaxRuns \in Nat /\ cuts' \in 0 .. MaxCuts
  BY RouteAssumption DEF RouteInv, TypeOK
<1>2. /\ past' = [saved |-> past.saved, mem |-> log]
      /\ past'.saved = past.saved /\ past'.mem = log
  BY DEF RouteInv, TypeOK
<1>3. SoundLog(past.saved, runs)' /\ SoundLog(past.mem, runs)'
  BY <1>2
<1>4. IsLog(past'.saved) /\ IsLog(past'.mem)
  BY <1>3, SoundLogType
<1>5. Sound(saved) /\ Sound(saved')
  BY DEF RouteInv
<1>6. /\ past' = [saved |-> past'.saved, mem |-> past'.mem]
      /\ IsState(saved') /\ IsState(mem')
      /\ runs' \in 0 .. MaxRuns
  <2>1. past' = [saved |-> past'.saved, mem |-> past'.mem]
    BY <1>2
  <2>2. IsState(saved') /\ IsState(mem')
    BY <1>5 DEF Sound
  <2>3. runs' \in 0 .. MaxRuns
    BY <1>1
  <2> QED
    BY <2>1, <2>2, <2>3
<1>7. TypeOK'
  BY <1>1, <1>4, <1>6 DEF TypeOK
<1>8. InflightBounded'
  <2>1. Total(saved.inflight) <= runs /\ Total(saved.inflight) \in Nat
    BY <1>5, TotalType DEF RouteInv, InflightBounded, Sound
  <2> QED
    BY <1>1, <2>1 DEF InflightBounded
<1> QED
  BY <1>3, <1>5, <1>7, <1>8 DEF RouteInv

(* The averages are numbers.                                               *)
LEMMA AveragesType ==
  ASSUME RouteInv
  PROVE  /\ average.saved \in [ModelId -> Nat]
         /\ average.mem \in [ModelId -> Nat]
         /\ average = [saved |-> average.saved, mem |-> average.mem]
  BY DEF RouteInv, TypeOK

(* What the invariant says of the running invocation. *)
LEMMA RunningFacts ==
  ASSUME RouteInv
  PROVE  /\ Sound(mem) /\ IsCounts(mem.inflight)
         /\ Total(mem.inflight) \in Nat /\ Total(mem.inflight) <= runs
         /\ runs \in Nat /\ runs \in runs .. MaxRuns
         /\ SoundLog(past.saved, runs) /\ SoundLog(past.mem, runs)
         /\ past = [saved |-> past.saved, mem |-> past.mem]
         /\ past = [past EXCEPT !.mem = past.mem]
<1>1. /\ Sound(mem) /\ IsCounts(mem.inflight)
      /\ Total(mem.inflight) <= runs
      /\ runs \in 0 .. MaxRuns /\ MaxRuns \in Nat
  BY RouteAssumption DEF RouteInv, InflightBounded, Sound, TypeOK
<1>2. past = [saved |-> past.saved, mem |-> past.mem]
  BY DEF RouteInv, TypeOK
<1>3. past = [past EXCEPT !.mem = past.mem]
  BY <1>2
<1> QED
  BY <1>1, <1>2, <1>3, TotalType DEF RouteInv

(* A chain of candidates, and one slot more for its head. *)
LEMMA StartInv ==
  ASSUME RouteInv, NEW configured \in SUBSET Configurable,
         NEW tier, NEW suited, Start(configured, tier, suited)
  PROVE  RouteInv'
<1> DEFINE s == Bootstrapped(saved, configured)
           ranked == TierCandidates(s, tier)
<1>1. Sound(saved) /\ Total(saved.inflight) <= runs
  BY DEF RouteInv, InflightBounded
<1>2. Sound(s) /\ Total(s.inflight) = Total(saved.inflight)
  BY <1>1, BootstrappedSound
<1>3. PICK order \in Rankings(s, average.saved, ranked, suited, MAX_INFLIGHT) :
        /\ order # <<>>
        /\ chain' = order
        /\ mem' = CompletionRequested(s, Head(order))
  BY DEF Start
<1>4. /\ runs < MaxRuns /\ runs' = runs + 1 /\ pc' = "trying"
      /\ UNCHANGED <<saved, average, cuts>>
  BY DEF Start
<1>5. PICK added \in SetToSeqs(configured \ saved.models) :
        past' = [past EXCEPT !.mem =
                   Kept(past.saved \o Registering(saved, average.saved, added))]
  BY DEF Start
<1> HIDE DEF s
<1>6. /\ ranked \subseteq s.models
      /\ \A m \in ranked : ~ s.health[m].garbage
      /\ IsFiniteSet(ranked)
  BY <1>2, CandidatesFacts
<1> HIDE DEF ranked
<1>7. /\ order \in Seq(ranked)
      /\ \A i, j \in DOMAIN order : i # j => order[i] # order[j]
  BY <1>3, <1>6, RankingsFacts
<1>8. /\ \A i \in DOMAIN order : order[i] \in ranked
      /\ Head(order) \in s.models
  BY <1>3, <1>6, <1>7
<1>9. /\ Sound(mem')
      /\ mem'.models = s.models
      /\ mem'.health = s.health
      /\ Total(mem'.inflight) = Total(s.inflight) + 1
  BY <1>2, <1>3, <1>8, RequestedSound
<1>10. ChainStaysSound'
  <2>1. \A i \in DOMAIN order :
          order[i] \in s.models /\ ~ s.health[order[i]].garbage
    BY <1>6, <1>8
  <2> QED
    BY <1>3, <1>7, <1>9, <2>1 DEF ChainStaysSound
<1>11. Total(saved.inflight) \in Nat /\ runs \in 0 .. MaxRuns /\ MaxRuns \in Nat
  BY <1>1, TotalType, RouteAssumption DEF Sound, RouteInv, TypeOK
<1>12. Total(mem'.inflight) <= runs' /\ runs' \in runs .. MaxRuns
  BY <1>1, <1>2, <1>4, <1>9, <1>11
<1>13. chain' \in Seq(ModelId)
  <2>1. ranked \subseteq ModelId
    BY <1>2, <1>6 DEF Sound, IsState
  <2> QED
    BY <1>3, <1>7, <2>1
<1>14. average' \in [{"saved", "mem"} -> [ModelId -> Nat]]
  BY <1>4 DEF RouteInv, TypeOK
<1> DEFINE log == past.saved \o Registering(saved, average.saved, added)
<1>15. SoundLog(Kept(log), runs') /\ SoundLog(past.saved, runs')
  <2>1. SoundLog(past.saved, runs)
    BY DEF RouteInv
  <2>2. SoundLog(Registering(saved, average.saved, added), runs)
    BY <1>1, AveragesType, RegisteringFacts
  <2>3. SoundLog(log, runs)
    BY <2>1, <2>2, SoundConcat
  <2> HIDE DEF log
  <2>4. SoundLog(log, runs') /\ SoundLog(past.saved, runs')
    BY <1>4, <1>11, <2>1, <2>3, SoundLater
  <2> QED
    BY <2>4, SoundKept
<1> QED
  BY <1>4, <1>5, <1>9, <1>10, <1>12, <1>13, <1>14, <1>15, GoOnInv

(* A candidate without a client is dropped. *)
LEMMA SkipInv ==
  ASSUME RouteInv, Skip
  PROVE  RouteInv'
<1>1. /\ chain \in Seq(ModelId) /\ chain # <<>> /\ chain' = Tail(chain)
      /\ \A i, j \in DOMAIN chain : i # j => chain[i] # chain[j]
      /\ UNCHANGED <<saved, mem, average, past, pc, runs, cuts>>
  BY DEF Skip, Trying, RouteInv, TypeOK, ChainStaysSound
<1>2. /\ chain' \in Seq(ModelId)
      /\ \A i \in DOMAIN chain' : i + 1 \in DOMAIN chain /\ chain'[i] = chain[i + 1]
      /\ \A i, j \in DOMAIN chain' : i # j => chain'[i] # chain'[j]
  BY <1>1, TailFacts
<1>3. TypeOK'
  BY <1>1, <1>2 DEF RouteInv, TypeOK
<1>4. ChainStaysSound'
  BY <1>1, <1>2 DEF RouteInv, ChainStaysSound
<1>5. InflightBounded'
  BY <1>1 DEF RouteInv, InflightBounded
<1>6. /\ Sound(saved)' /\ Sound(mem)'
      /\ SoundLog(past.saved, runs)' /\ SoundLog(past.mem, runs)'
  BY <1>1 DEF RouteInv
<1> QED
  BY <1>3, <1>4, <1>5, <1>6 DEF RouteInv

(* The end of the loop without an event. *)
LEMMA ExitInv ==
  ASSUME RouteInv, Exit, UNCHANGED <<mem, average, past>>
  PROVE  RouteInv'
<1>1. /\ pc' = "saving" /\ chain' = <<>> /\ UNCHANGED <<saved, runs, cuts>>
  BY DEF Exit
<1>2. ChainStaysSound'
  BY <1>1 DEF ChainStaysSound
<1>3. average' \in [{"saved", "mem"} -> [ModelId -> Nat]]
  BY DEF RouteInv, TypeOK
<1>4. chain' \in Seq(ModelId)
  BY <1>1
<1> QED
  BY <1>1, <1>2, <1>3, <1>4, RunningFacts, GoOnInv

(* An answer, under any name, ends the loop. *)
LEMMA SucceedInv ==
  ASSUME RouteInv, NEW used \in ModelId, NEW ms \in Latency,
         NEW valid \in BOOLEAN, Succeed(used, ms, valid)
  PROVE  RouteInv'
<1> DEFINE s == CompletionFinished(mem, used, TRUE)
           log == past.mem \o <<Replay(mem, average.mem)>>
<1>1. CASE valid
  <2>1. /\ mem' = s
        /\ average' = IF used \in DOMAIN mem.health
                      THEN [average EXCEPT !.mem[used] = WindowedAvg(@, ms)]
                      ELSE average
        /\ past' = [past EXCEPT !.mem = Kept(log)]
    BY <1>1 DEF Succeed
  <2>2. pc' = "saving" /\ chain' = <<>> /\ UNCHANGED <<saved, runs, cuts>>
    BY DEF Succeed, Exit
  <2>3. Sound(s) /\ Total(s.inflight) <= Total(mem.inflight) /\ IsCounts(s.inflight)
    BY RunningFacts, SucceededSound DEF Sound
  <2> HIDE DEF s
  <2>4. Total(s.inflight) <= runs
    BY <2>3, RunningFacts, TotalType
  <2>5. average' \in [{"saved", "mem"} -> [ModelId -> Nat]]
    <3>1. WindowedAvg(average.mem[used], ms) \in Nat
      BY AveragesType, WindowedAvgType, RouteAssumption
    <3> QED
      BY <2>1, <3>1, AveragesType
  <2>6. SoundLog(Kept(log), runs)
    BY RunningFacts, AveragesType, SoundOne, SoundConcat, SoundKept
  <2> HIDE DEF log
  <2>7. chain' \in Seq(ModelId) /\ ChainStaysSound'
    BY <2>2 DEF ChainStaysSound
  <2> QED
    BY <2>1, <2>2, <2>3, <2>4, <2>5, <2>6, <2>7, RunningFacts, GoOnInv
<1>2. CASE ~ valid
  BY <1>2, ExitInv DEF Succeed
<1> QED
  BY <1>1, <1>2

(* A failure is counted and the next candidate is ahead. *)
LEMMA FailInv ==
  ASSUME RouteInv, Fail
  PROVE  RouteInv'
<1> DEFINE m == Head(chain)
           s == ModelFailed(mem, m)
           log == past.mem \o <<Replay(mem, average.mem), Replay(s, average.mem)>>
<1>1. /\ chain \in Seq(ModelId) /\ chain # <<>> /\ chain' = Tail(chain)
      /\ \A i, j \in DOMAIN chain : i # j => chain[i] # chain[j]
      /\ \A i \in DOMAIN chain : /\ chain[i] \in mem.models
                                 /\ ~ mem.health[chain[i]].garbage
      /\ mem' = CompletionFinished(s, m, FALSE)
      /\ past' = [past EXCEPT !.mem = Kept(log)]
      /\ UNCHANGED <<saved, average, pc, runs, cuts>>
  BY DEF Fail, Trying, RouteInv, TypeOK, ChainStaysSound
<1>2. /\ m = chain[1] /\ 1 \in DOMAIN chain
      /\ chain' \in Seq(ModelId)
      /\ \A i \in DOMAIN chain' : /\ i + 1 \in DOMAIN chain
                                  /\ chain'[i] = chain[i + 1]
                                  /\ chain'[i] # m
      /\ \A i, j \in DOMAIN chain' : i # j => chain'[i] # chain'[j]
  BY <1>1, TailFacts
<1>3. Sound(mem) /\ m \in mem.models
  BY <1>1, <1>2 DEF RouteInv
<1> HIDE DEF m
<1>4. /\ Sound(mem')
      /\ mem'.models = mem.models
      /\ \A x \in mem.models : x # m => mem'.health[x] = mem.health[x]
      /\ Total(mem'.inflight) <= Total(mem.inflight)
      /\ Sound(s)
      /\ Total(s.inflight) = Total(mem.inflight)
  BY <1>1, <1>3, FailedSound
<1> HIDE DEF s
<1>5. ChainStaysSound'
  <2>1. \A i \in DOMAIN chain' :
          /\ chain'[i] \in mem.models
          /\ ~ mem.health[chain'[i]].garbage
    BY <1>1, <1>2
  <2>2. \A i \in DOMAIN chain' :
          /\ chain'[i] \in mem'.models
          /\ ~ mem'.health[chain'[i]].garbage
    BY <1>2, <1>4, <2>1
  <2> QED
    BY <1>2, <2>2 DEF ChainStaysSound
<1>6. Total(mem'.inflight) <= runs'
  <2>1. Total(mem'.inflight) \in Nat
    BY <1>4, TotalType DEF Sound
  <2>2. /\ Total(mem.inflight) \in Nat /\ Total(mem.inflight) <= runs
        /\ runs \in Nat /\ runs' = runs
    BY <1>1, RunningFacts
  <2> QED
    BY <1>4, <2>1, <2>2
<1>7. SoundLog(Kept(log), runs)
  <2>1. SoundLog(<<Replay(mem, average.mem), Replay(s, average.mem)>>, runs)
    BY <1>4, RunningFacts, AveragesType, SoundTwo
  <2> QED
    BY <2>1, RunningFacts, SoundConcat, SoundKept
<1> HIDE DEF log
<1>8. /\ average' \in [{"saved", "mem"} -> [ModelId -> Nat]]
      /\ pc' \in {"idle", "trying", "saving"}
  BY <1>1 DEF RouteInv, TypeOK
<1> QED
  BY <1>1, <1>2, <1>4, <1>5, <1>6, <1>7, <1>8, RunningFacts, GoOnInv

(* A save that is cut short leaves a State of before, or none. *)
LEMMA CutSaveInv ==
  ASSUME RouteInv, CutSave
  PROVE  RouteInv'
<1>1. cuts' \in 0 .. MaxCuts
  BY RouteAssumption DEF CutSave, RouteInv, TypeOK
<1>2. CASE Leave(saved, average.saved, past.saved)
  BY <1>1, <1>2, AveragesType, LeaveInv DEF RouteInv, InflightBounded
<1>3. CASE Leave(NewState, [m \in ModelId |-> 0], <<>>)
  <2>1. [m \in ModelId |-> 0] \in [ModelId -> Nat] /\ 0 <= runs
    BY RunningFacts
  <2> QED
    BY <1>1, <1>3, <2>1, NewStateSound, SoundNothing, LeaveInv
<1>4. ASSUME NEW i \in DOMAIN past.mem,
             Leave(past.mem[i].state, past.mem[i].average, SubSeq(past.mem, 1, i - 1))
      PROVE  RouteInv'
  <2>1. /\ SoundLog(past.mem, runs)
        /\ SoundLog(SubSeq(past.mem, 1, i - 1), runs)
    BY RunningFacts, SoundPrefix
  <2>2. /\ Sound(past.mem[i].state)
        /\ Total(past.mem[i].state.inflight) <= runs
        /\ past.mem[i].average \in [ModelId -> Nat]
    BY <2>1 DEF SoundLog
  <2> QED
    BY <1>1, <1>4, <2>1, <2>2, LeaveInv
<1> QED
  BY <1>2, <1>3, <1>4 DEF CutSave

(* Every step, one action after another.                                   *)
LEMMA NextInv == RouteInv /\ [Next]_vars => RouteInv'
<1> SUFFICES ASSUME RouteInv, [Next]_vars PROVE RouteInv'
  OBVIOUS
<1>1. cuts \in 0 .. MaxCuts
  BY DEF RouteInv, TypeOK
<1>2. ASSUME NEW configured \in SUBSET Configurable, NEW suited,
             NEW tier, Start(configured, tier, suited)
      PROVE  RouteInv'
  BY <1>2, StartInv
<1>3. CASE Skip
  BY <1>3, SkipInv
<1>4. ASSUME NEW used \in ModelId, NEW ms \in Latency, NEW valid \in BOOLEAN,
             Succeed(used, ms, valid)
      PROVE  RouteInv'
  BY <1>4, SucceedInv
<1>5. CASE AuthError
  BY <1>5, ExitInv DEF AuthError
<1>6. CASE Fail
  BY <1>6, FailInv
<1>7. CASE GiveUp
  BY <1>7, ExitInv DEF GiveUp
<1>8. CASE Kill
  <2>1. Leave(saved, average.saved, past.saved) /\ cuts' \in 0 .. MaxCuts
    BY <1>1, <1>8 DEF Kill
  <2> QED
    BY <2>1, AveragesType, LeaveInv DEF RouteInv, InflightBounded
<1>9. CASE Save
  <2>1. Leave(mem, average.mem, past.mem) /\ cuts' \in 0 .. MaxCuts
    BY <1>1, <1>9 DEF Save
  <2> QED
    BY <2>1, AveragesType, LeaveInv DEF RouteInv, InflightBounded
<1>10. CASE CutSave
  BY <1>10, CutSaveInv
<1>11. CASE UNCHANGED vars
  BY <1>11 DEF vars, RouteInv, TypeOK, ChainStaysSound, InflightBounded
<1> QED
  BY <1>2, <1>3, <1>4, <1>5, <1>6, <1>7, <1>8, <1>9, <1>10, <1>11 DEF Next, Step

(* Every reachable state of the command line satisfies the invariant.      *)
THEOREM InvHolds == Spec => []RouteInv
  BY InitInv, NextInv, PTL DEF Spec

(* The state of the ledger and of the running invocation, the averages,    *)
(* the chain and the counters keep their types through every invocation,   *)
(* answered, failed, refused or killed.                                    *)
THEOREM RouteTypeCorrect == Spec => []TypeOK
<1>1. RouteInv => TypeOK
  BY DEF RouteInv
<1> QED
  BY <1>1, InvHolds, PTL

(* No candidate that cmd_route still has ahead has become garbage or is    *)
(* unregistered, and none comes up twice: failures are counted against the *)
(* candidate that failed, which select never puts into the chain again.    *)
THEOREM ChainIsSound == Spec => []ChainStaysSound
<1>1. RouteInv => ChainStaysSound
  BY DEF RouteInv
<1> QED
  BY <1>1, InvHolds, PTL

(* On disk and in memory the failures that the diagnostics count, from     *)
(* which the clock is derived, are the failures of the models' health.     *)
THEOREM BooksBalance == Spec => []FailuresBalance
<1>1. RouteInv => FailuresBalance
  BY DEF RouteInv, Sound, FailuresBalance
<1> QED
  BY <1>1, InvHolds, PTL

(* Inflight counters that no exit path releases are at most one request    *)
(* for each invocation.                                                    *)
THEOREM InflightLeakBounded == Spec => []InflightBounded
<1>1. RouteInv => InflightBounded
  BY DEF RouteInv
<1> QED
  BY <1>1, InvHolds, PTL

-----------------------------------------------------------------------------
(***************************************************************************)
(* What is saved only grows.  The running invocation knows all that is     *)
(* saved and more, has not touched a model saved as garbage before it      *)
(* saves, and no timestamp is ahead of the clock that stamps the next      *)
(* observation.  The prefixes of a log grow towards the whole.             *)
(***************************************************************************)
Behind(s) ==
  \A m \in DOMAIN s.health :
    /\ s.health[m].last_success <= CurrentTime(s)
    /\ s.health[m].last_failure <= CurrentTime(s)

(* What was garbage in s has the same record in t, or one answer more. *)
Spares(s, t) ==
  \A m \in s.models : s.health[m].garbage => t.health[m] = s.health[m]

Answers(s, t) ==
  \A m \in s.models :
    s.health[m].garbage =>
      \/ t.health[m] = s.health[m]
      \/ /\ t.health[m].success_count = s.health[m].success_count + 1
         /\ t.health[m].failure_count = s.health[m].failure_count

InOrder(log, s) ==
  /\ \A i \in DOMAIN log : Behind(log[i].state) /\ Grown(log[i].state, s)
  /\ \A i, j \in DOMAIN log : i < j => Grown(log[i].state, log[j].state)

RecordInv ==
  /\ RouteInv
  /\ Behind(saved)
  /\ Behind(mem)
  /\ Grown(saved, mem)
  /\ Answers(saved, mem)
  /\ pc # "saving" => Spares(saved, mem)
  /\ InOrder(past.saved, saved)
  /\ InOrder(past.mem, mem)

(* The steps of SavedHealthGrows and of GarbageStaysUntried. *)
Grows ==
  /\ cuts' = cuts => Grown(saved, saved')
  /\ pc = "saving" => Grown(saved', mem)

Untried == cuts' = cuts => Answers(saved, saved')

(* The health of a registered model of a sound State. *)
LEMMA HealthFacts ==
  ASSUME NEW s, Sound(s)
  PROVE  /\ IsState(s) /\ CurrentTime(s) \in Nat
         /\ DOMAIN s.health = s.models
         /\ s.models \subseteq ModelId
         /\ \A m \in s.models : s.health[m] \in HealthStatus
  BY CurrentTimeType DEF Sound, IsState

(* A sound State has grown from itself, and growing is transitive. *)
LEMMA GrownItself ==
  ASSUME NEW s, Sound(s)
  PROVE  Grown(s, s) /\ Spares(s, s) /\ Answers(s, s)
  BY HealthFacts, AccumulatedOrder DEF Grown, Spares, Answers

LEMMA GrownFurther ==
  ASSUME NEW s, Sound(s), NEW t, Sound(t), NEW u, Sound(u),
         Grown(s, t), Grown(t, u)
  PROVE  Grown(s, u)
<1> SUFFICES ASSUME NEW m \in s.models
             PROVE  m \in u.models /\ Accumulated(s.health[m], u.health[m])
  BY DEF Grown
<1>1. /\ m \in t.models /\ m \in u.models
      /\ Accumulated(s.health[m], t.health[m])
      /\ Accumulated(t.health[m], u.health[m])
  BY DEF Grown
<1>2. /\ s.health[m] \in HealthStatus
      /\ t.health[m] \in HealthStatus
      /\ u.health[m] \in HealthStatus
  BY <1>1, HealthFacts
<1> QED
  BY <1>1, <1>2, AccumulatedOrder

(* An observation is stamped with the time before it, so it is no newer    *)
(* than the time after it.                                                 *)
LEMMA ObservesBehind ==
  ASSUME NEW s, IsState(s), Behind(s), NEW m \in ModelId, NEW success \in BOOLEAN,
         NEW t, ObservesOnly(s, t, m, success)
  PROVE  Behind(t)
<1> SUFFICES ASSUME NEW x \in DOMAIN t.health
             PROVE  /\ t.health[x].last_success <= CurrentTime(t)
                    /\ t.health[x].last_failure <= CurrentTime(t)
  BY DEF Behind
<1> DEFINE h   == s.health[x]
           now == CurrentTime(s)
           g   == Observed(h, success, now)
<1>1. /\ now \in Nat /\ CurrentTime(t) \in Nat /\ now <= CurrentTime(t)
      /\ h \in HealthStatus
      /\ h.last_success <= now /\ h.last_failure <= now
  BY CurrentTimeType DEF IsState, ObservesOnly, Behind
<1>2. t.health[x] = IF x = m THEN g ELSE h
  BY DEF ObservesOnly
<1>3. /\ g.last_success = IF success THEN now ELSE h.last_success
      /\ g.last_failure = IF success THEN h.last_failure ELSE now
  BY <1>1, ObservedFacts
<1> HIDE DEF g, now
<1> QED
  BY <1>1, <1>2, <1>3 DEF HealthStatus

(* A failed call is an observation of one model, counted twice. *)
LEMMA FailedRecord ==
  ASSUME NEW s, Sound(s), Behind(s), NEW m \in s.models
  PROVE  LET f == ModelFailed(s, m)
             t == CompletionFinished(f, m, FALSE)
         IN  /\ Sound(f) /\ Behind(f) /\ Grown(s, f) /\ Grown(f, t)
             /\ Sound(t) /\ Behind(t) /\ Grown(s, t)
<1> DEFINE f == ModelFailed(s, m)
           t == CompletionFinished(f, m, FALSE)
<1>1. m \in ModelId /\ IsState(s) /\ DOMAIN s.health = s.models
  BY HealthFacts
<1>2. ObservesOnly(s, f, m, FALSE)
  BY <1>1, ModelFailedFacts
<1>3. IsState(f) /\ f.models = s.models /\ DOMAIN f.health = s.models
  BY <1>1, <1>2 DEF ObservesOnly
<1>4. ObservesOnly(f, t, m, FALSE) /\ Sound(t)
  BY <1>1, <1>3, CompletionFinishedFacts, FailedSound
<1> HIDE DEF f, t
<1>5. \A x \in s.models : Accumulated(s.health[x], f.health[x])
  BY <1>1, <1>2, ObservesMore DEF Behind
<1>6. Behind(f)
  BY <1>1, <1>2, ObservesBehind
<1>7. \A x \in s.models : Accumulated(f.health[x], t.health[x])
  BY <1>1, <1>3, <1>4, <1>6, ObservesMore DEF Behind
<1>8. Behind(t)
  BY <1>1, <1>3, <1>4, <1>6, ObservesBehind
<1>9. t.models = s.models /\ Sound(f)
  BY <1>3, <1>4, FailedSound DEF ObservesOnly, f
<1>10. Grown(s, f) /\ Grown(f, t)
  BY <1>3, <1>5, <1>7, <1>9 DEF Grown
<1>11. Grown(s, t)
  BY <1>4, <1>9, <1>10, GrownFurther
<1> QED
  BY <1>4, <1>6, <1>8, <1>9, <1>10, <1>11 DEF f, t

(* An answer counts one success for the name it came under, if that name   *)
(* is registered, and no failure.                                          *)
LEMMA AnsweredRecord ==
  ASSUME NEW s, Sound(s), Behind(s), NEW used \in ModelId
  PROVE  LET t == CompletionFinished(s, used, TRUE)
         IN  /\ Sound(t)
             /\ Behind(t)
             /\ Grown(s, t)
             /\ \A x \in s.models :
                  \/ t.health[x] = s.health[x]
                  \/ /\ t.health[x].success_count = s.health[x].success_count + 1
                     /\ t.health[x].failure_count = s.health[x].failure_count
<1> DEFINE t == CompletionFinished(s, used, TRUE)
<1>1. /\ IsState(s)
      /\ DOMAIN s.health = s.models
      /\ CurrentTime(s) \in Nat
      /\ \A x \in s.models : s.health[x] \in HealthStatus
  BY HealthFacts
<1>2. ObservesOnly(s, t, used, TRUE) /\ Sound(t)
  BY <1>1, CompletionFinishedFacts, SucceededSound
<1> HIDE DEF t
<1>3. t.models = s.models /\ Behind(t)
  BY <1>1, <1>2, ObservesBehind DEF ObservesOnly
<1>4. \A x \in s.models : Accumulated(s.health[x], t.health[x])
  BY <1>1, <1>2, ObservesMore DEF Behind
<1>5. Grown(s, t)
  BY <1>3, <1>4 DEF Grown
<1>6. ASSUME NEW x \in s.models
      PROVE  \/ t.health[x] = s.health[x]
             \/ /\ t.health[x].success_count = s.health[x].success_count + 1
                /\ t.health[x].failure_count = s.health[x].failure_count
  <2>1. CASE x = used
    <3>1. t.health[x] = Observed(s.health[x], TRUE, CurrentTime(s))
      BY <1>1, <1>2, <2>1 DEF ObservesOnly
    <3> QED
      BY <1>1, <3>1, ObservedFailures, ObservedSuccess
  <2>2. CASE x # used
    BY <1>1, <1>2, <2>2 DEF ObservesOnly
  <2> QED
    BY <2>1, <2>2
<1> QED
  BY <1>2, <1>3, <1>5, <1>6 DEF t

(* Logs in order: none, cut off, and one after the other. *)
LEMMA OrderNothing ==
  ASSUME NEW s
  PROVE  InOrder(<<>>, s)
  BY DEF InOrder

LEMMA OrderKept ==
  ASSUME NEW log, NEW s, InOrder(log, s)
  PROVE  InOrder(Kept(log), s)
  BY OrderNothing DEF Kept

LEMMA OrderPrefix ==
  ASSUME NEW n, NEW log, SoundLog(log, n), NEW s, InOrder(log, s), NEW i \in DOMAIN log
  PROVE  InOrder(SubSeq(log, 1, i - 1), log[i].state)
<1> DEFINE g == SubSeq(log, 1, i - 1)
<1>1. \A j \in DOMAIN g : j \in DOMAIN log /\ j < i /\ g[j] = log[j]
  BY PrefixFacts DEF SoundLog
<1> HIDE DEF g
<1>2. /\ \A j \in DOMAIN g : Behind(g[j].state) /\ Grown(g[j].state, log[i].state)
      /\ \A j, k \in DOMAIN g : j < k => Grown(g[j].state, g[k].state)
  BY <1>1 DEF InOrder
<1> QED
  BY <1>2 DEF InOrder, g

LEMMA OrderConcat ==
  ASSUME NEW n, NEW f, SoundLog(f, n), NEW s, Sound(s), InOrder(f, s),
         NEW g, SoundLog(g, n), NEW t, Sound(t), InOrder(g, t),
         Grown(s, t), \A i \in DOMAIN g : Grown(s, g[i].state)
  PROVE  InOrder(f \o g, t)
<1> DEFINE h == f \o g
<1>1. f \in Seq(ToSet(f)) /\ g \in Seq(ToSet(g))
  BY DEF SoundLog
<1>2. /\ Len(f) \in Nat /\ Len(g) \in Nat
      /\ DOMAIN f = 1 .. Len(f) /\ DOMAIN g = 1 .. Len(g)
      /\ DOMAIN h = 1 .. Len(f) + Len(g)
      /\ \A i \in 1 .. Len(f) : h[i] = f[i]
      /\ \A i \in 1 .. Len(f) + Len(g) :
           ~ (i <= Len(f)) => i - Len(f) \in DOMAIN g /\ h[i] = g[i - Len(f)]
  BY <1>1, ConcatFacts
<1>3. /\ \A i \in DOMAIN f : Sound(f[i].state)
      /\ \A i \in DOMAIN g : Sound(g[i].state)
  BY DEF SoundLog
<1> HIDE DEF h
<1>4. ASSUME NEW i \in DOMAIN h
      PROVE  Behind(h[i].state) /\ Grown(h[i].state, t)
  <2>1. CASE i <= Len(f)
    <3>1. i \in DOMAIN f /\ h[i] = f[i]
      BY <1>2, <2>1
    <3> QED
      BY <1>3, <3>1, GrownFurther DEF InOrder
  <2>2. CASE ~ (i <= Len(f))
    BY <1>2, <2>2 DEF InOrder
  <2> QED
    BY <2>1, <2>2
<1>5. ASSUME NEW i \in DOMAIN h, NEW j \in DOMAIN h, i < j
      PROVE  Grown(h[i].state, h[j].state)
  <2>1. CASE j <= Len(f)
    <3>1. i \in DOMAIN f /\ j \in DOMAIN f /\ h[i] = f[i] /\ h[j] = f[j]
      BY <1>2, <1>5, <2>1
    <3> QED
      BY <1>5, <3>1 DEF InOrder
  <2>2. CASE i <= Len(f) /\ ~ (j <= Len(f))
    <3>1. /\ i \in DOMAIN f /\ h[i] = f[i]
          /\ j - Len(f) \in DOMAIN g /\ h[j] = g[j - Len(f)]
      BY <1>2, <2>2
    <3>2. Grown(f[i].state, s) /\ Grown(s, g[j - Len(f)].state)
      BY <3>1 DEF InOrder
    <3> QED
      BY <1>3, <3>1, <3>2, GrownFurther
  <2>3. CASE ~ (i <= Len(f))
    <3>1. /\ i - Len(f) \in DOMAIN g /\ h[i] = g[i - Len(f)]
          /\ j - Len(f) \in DOMAIN g /\ h[j] = g[j - Len(f)]
          /\ i - Len(f) < j - Len(f)
      BY <1>2, <1>5, <2>3
    <3> QED
      BY <3>1 DEF InOrder
  <2> QED
    BY <2>1, <2>2, <2>3
<1> QED
  BY <1>4, <1>5 DEF InOrder, h

LEMMA OrderOne ==
  ASSUME NEW s, NEW avg, NEW t, Behind(s), Grown(s, t)
  PROVE  InOrder(<<Replay(s, avg)>>, t)
<1> DEFINE f == <<Replay(s, avg)>>
<1>1. DOMAIN f = {1} /\ f[1].state = s
  BY DEF Replay
<1> HIDE DEF f
<1> QED
  BY <1>1 DEF InOrder, f

LEMMA OrderTwo ==
  ASSUME NEW s, NEW avg, NEW t, NEW u, Behind(s), Behind(t),
         Grown(s, t), Grown(s, u), Grown(t, u)
  PROVE  InOrder(<<Replay(s, avg), Replay(t, avg)>>, u)
<1> DEFINE f == <<Replay(s, avg), Replay(t, avg)>>
<1>1. DOMAIN f = {1, 2} /\ f[1].state = s /\ f[2].state = t
  BY DEF Replay
<1> HIDE DEF f
<1> QED
  BY <1>1 DEF InOrder, f

(* Registering more models is growing, and leaves the clock as it is.      *)
LEMMA BootstrappedRecord ==
  ASSUME NEW s, Sound(s), Behind(s),
         NEW some \in SUBSET Configurable, NEW more \in SUBSET Configurable,
         some \subseteq more
  PROVE  /\ Behind(Bootstrapped(s, some))
         /\ Grown(s, Bootstrapped(s, some))
         /\ Grown(Bootstrapped(s, some), Bootstrapped(s, more))
         /\ Spares(s, Bootstrapped(s, some))
<1> DEFINE t == Bootstrapped(s, some)
           u == Bootstrapped(s, more)
<1>1. /\ Sound(t) /\ t.models = s.models \union some
      /\ \A x \in s.models : t.health[x] = s.health[x]
      /\ \A x \in t.models \ s.models : t.health[x] = NewHealth
      /\ CurrentTime(t) = CurrentTime(s)
  BY BootstrappedSound
<1>2. /\ u.models = s.models \union more
      /\ \A x \in s.models : u.health[x] = s.health[x]
      /\ \A x \in u.models \ s.models : u.health[x] = NewHealth
  BY BootstrappedSound
<1> HIDE DEF t, u
<1>3. \A x \in t.models : /\ x \in u.models
                          /\ u.health[x] = t.health[x]
                          /\ t.health[x] \in HealthStatus
  BY <1>1, <1>2, HealthFacts
<1>4. Grown(t, u)
  BY <1>3, AccumulatedOrder DEF Grown
<1>5. Grown(s, t) /\ Spares(s, t)
  BY <1>1, HealthFacts, AccumulatedOrder DEF Grown, Spares
<1>6. ASSUME NEW x \in t.models
      PROVE  /\ t.health[x].last_success <= CurrentTime(t)
             /\ t.health[x].last_failure <= CurrentTime(t)
  <2>1. CASE x \in s.models
    BY <1>1, <2>1, HealthFacts DEF Behind
  <2>2. CASE x \notin s.models
    <3>1. t.health[x].last_success = 0 /\ t.health[x].last_failure = 0
      BY <1>1, <2>2 DEF NewHealth, EPOCH
    <3>2. CurrentTime(t) \in Nat
      BY <1>1, HealthFacts
    <3> QED
      BY <3>1, <3>2
  <2> QED
    BY <2>1, <2>2
<1>7. Behind(t)
  BY <1>1, <1>6, HealthFacts DEF Behind
<1> QED
  BY <1>4, <1>5, <1>7 DEF t, u

(* The steps of a start, up to a State that has grown from the last. *)
LEMMA OrderRegistering ==
  ASSUME NEW s, Sound(s), Behind(s), NEW n, Total(s.inflight) <= n,
         NEW avg \in [ModelId -> Nat], NEW configured \in SUBSET Configurable,
         NEW added \in SetToSeqs(configured \ s.models),
         NEW t, Sound(t), Grown(Bootstrapped(s, configured), t)
  PROVE  LET f == Registering(s, avg, added)
         IN  InOrder(f, t) /\ \A i \in DOMAIN f : Grown(s, f[i].state)
<1> DEFINE f == Registering(s, avg, added)
           C(i) == ToSet(SubSeq(added, 1, i - 1))
<1>1. /\ DOMAIN f = 1 .. Len(added) + 1
      /\ \A i \in DOMAIN f : f[i].state = Bootstrapped(s, C(i))
  BY RegisteringFacts
<1>2. \A i \in DOMAIN f : C(i) \subseteq configured
  BY <1>1, AddedFacts, Zenon
<1>3. \A i, j \in DOMAIN f : i < j => C(i) \subseteq C(j)
  BY <1>1, AddedFacts, Zenon
<1> HIDE DEF f, C
<1>4. ASSUME NEW i \in DOMAIN f
      PROVE  /\ Behind(f[i].state) /\ Grown(s, f[i].state)
             /\ Grown(f[i].state, t)
  <2>1. C(i) \in SUBSET Configurable /\ C(i) \subseteq configured
    BY <1>2
  <2>2. /\ Behind(f[i].state) /\ Grown(s, f[i].state)
        /\ Grown(f[i].state, Bootstrapped(s, configured))
    BY <1>1, <2>1, BootstrappedRecord
  <2>3. Sound(f[i].state) /\ Sound(Bootstrapped(s, configured))
    BY <1>1, <2>1, BootstrappedSound
  <2> QED
    BY <2>2, <2>3, GrownFurther
<1>5. ASSUME NEW i \in DOMAIN f, NEW j \in DOMAIN f, i < j
      PROVE  Grown(f[i].state, f[j].state)
  <2>1. /\ C(i) \in SUBSET Configurable /\ C(j) \in SUBSET Configurable
        /\ C(i) \subseteq C(j)
    BY <1>2, <1>3, <1>5
  <2> QED
    BY <1>1, <2>1, BootstrappedRecord
<1> QED
  BY <1>4, <1>5 DEF InOrder, f

(* The record holds at the start. *)
LEMMA RecordInit == Init => RecordInv
<1> SUFFICES ASSUME Init PROVE RecordInv
  OBVIOUS
<1>1. /\ saved = NewState /\ mem = NewState
      /\ saved.models = {} /\ DOMAIN saved.health = {}
      /\ past.saved = <<>> /\ past.mem = <<>>
  BY DEF Init, NewState
<1>2. Behind(saved) /\ Grown(saved, mem) /\ Answers(saved, mem) /\ Spares(saved, mem)
  BY <1>1 DEF Behind, Grown, Answers, Spares
<1> QED
  BY <1>1, <1>2, InitInv, OrderNothing DEF RecordInv

(* Whatever is left at the end is what the next invocation starts from.    *)
LEMMA LeaveRecord ==
  ASSUME NEW s, NEW avg, NEW log, Leave(s, avg, log),
         Sound(s), Behind(s), InOrder(log, s), RouteInv'
  PROVE  RecordInv' /\ saved' = s
<1>1. /\ saved' = s /\ mem' = s
      /\ past'.saved = Kept(log) /\ past'.mem = Kept(log)
  BY DEF Leave
<1>2. Behind(saved)' /\ Behind(mem)'
  BY <1>1 DEF Behind
<1>3. Grown(s, s) /\ Spares(s, s) /\ Answers(s, s)
  BY GrownItself
<1>4. Grown(saved, mem)' /\ Spares(saved, mem)' /\ Answers(saved, mem)'
  BY <1>1, <1>3 DEF Grown, Spares, Answers
<1>5. InOrder(Kept(log), s)
  BY OrderKept
<1>6. InOrder(past.saved, saved)' /\ InOrder(past.mem, mem)'
  BY <1>1, <1>5 DEF InOrder
<1> QED
  BY <1>1, <1>2, <1>4, <1>6 DEF RecordInv

(* A step of the running invocation, whose State grows.                    *)
LEMMA GoOnRecord ==
  ASSUME RecordInv, RouteInv', saved' = saved, cuts' = cuts, pc # "saving",
         Behind(mem'), Grown(saved, mem'), Answers(saved, mem'),
         pc' # "saving" => Spares(saved, mem'),
         NEW log, past' = [past EXCEPT !.mem = log], InOrder(log, mem')
  PROVE  RecordInv' /\ Grows /\ Untried
<1>1. past'.saved = past.saved /\ past'.mem = log
  BY DEF RecordInv, RouteInv, TypeOK
<1>2. InOrder(past.saved, saved)' /\ InOrder(past.mem, mem)'
  BY <1>1 DEF InOrder, RecordInv
<1>3. Behind(saved)' /\ Behind(mem)'
  BY DEF Behind, RecordInv
<1>4. /\ Grown(saved, mem)' /\ Answers(saved, mem)'
      /\ (pc # "saving")' => Spares(saved, mem)'
  BY DEF Grown, Answers, Spares
<1>5. RecordInv'
  BY <1>2, <1>3, <1>4 DEF RecordInv
<1>6. Grown(saved, saved') /\ Answers(saved, saved')
  BY GrownItself DEF RecordInv, RouteInv
<1> QED
  BY <1>5, <1>6 DEF Grows, Untried

(* What the record says of the running invocation. *)
LEMMA RecordFacts ==
  ASSUME RecordInv
  PROVE  /\ Sound(saved) /\ Sound(mem) /\ Behind(saved) /\ Behind(mem)
         /\ Grown(saved, mem) /\ Answers(saved, mem)
         /\ SoundLog(past.saved, runs) /\ SoundLog(past.mem, runs)
         /\ InOrder(past.saved, saved) /\ InOrder(past.mem, mem)
         /\ average.saved \in [ModelId -> Nat] /\ average.mem \in [ModelId -> Nat]
         /\ past = [past EXCEPT !.mem = past.mem]
  BY AveragesType, RunningFacts DEF RecordInv, RouteInv

(* An invocation starts from what is saved, and asks no garbage. *)
LEMMA StartRecord ==
  ASSUME RecordInv, RouteInv', NEW configured \in SUBSET Configurable,
         NEW tier, NEW suited, Start(configured, tier, suited)
  PROVE  RecordInv' /\ Grows /\ Untried
<1> DEFINE s == Bootstrapped(saved, configured)
<1>1. /\ Sound(saved) /\ Behind(saved) /\ Sound(mem')
      /\ Total(saved.inflight) <= runs
  BY DEF RecordInv, RouteInv, InflightBounded
<1>2. Sound(s) /\ Behind(s) /\ Grown(saved, s) /\ Spares(saved, s)
  BY <1>1, BootstrappedSound, BootstrappedRecord
<1>3. PICK m \in ModelId : mem' = CompletionRequested(s, m)
  <2>1. PICK order \in Rankings(s, average.saved, TierCandidates(s, tier),
                                suited, MAX_INFLIGHT) :
          /\ order # <<>>
          /\ chain' = order
          /\ mem' = CompletionRequested(s, Head(order))
    BY DEF Start
  <2>2. chain' \in Seq(ModelId) /\ chain' # <<>>
    BY <2>1 DEF RouteInv, TypeOK
  <2>3. Head(order) \in ModelId
    BY <2>1, <2>2
  <2> QED
    BY <2>1, <2>3
<1>4. saved' = saved /\ cuts' = cuts /\ pc = "idle" /\ pc' = "trying"
  BY DEF Start
<1>5. PICK added \in SetToSeqs(configured \ saved.models) :
        past' = [past EXCEPT !.mem =
                   Kept(past.saved \o Registering(saved, average.saved, added))]
  BY DEF Start
<1>6. Grown(s, mem') /\ Behind(mem') /\ Spares(saved, mem')
  <2> HIDE DEF s
  <2>1. KeepsHealth(s, mem')
    BY <1>2, <1>3, CompletionRequestedFacts, HealthFacts
  <2>2. /\ mem'.models = s.models
        /\ mem'.health = s.health
        /\ DOMAIN s.health = s.models
        /\ CurrentTime(s) \in Nat /\ CurrentTime(mem') \in Nat
        /\ CurrentTime(s) <= CurrentTime(mem')
        /\ \A x \in s.models : s.health[x] \in HealthStatus
    BY <1>1, <1>2, <2>1, HealthFacts DEF KeepsHealth
  <2>3. Behind(mem')
    BY <1>2, <2>2 DEF Behind, HealthStatus
  <2>4. Grown(s, mem')
    BY <2>2, AccumulatedOrder DEF Grown
  <2>5. Spares(saved, mem')
    BY <1>2, <2>2 DEF Spares
  <2> QED
    BY <2>3, <2>4, <2>5
<1> DEFINE g == Registering(saved, average.saved, added)
<1>7. /\ SoundLog(g, runs) /\ InOrder(g, mem')
      /\ \A i \in DOMAIN g : Grown(saved, g[i].state)
  BY <1>1, <1>6, RecordFacts, RegisteringFacts, OrderRegistering
<1>8. Grown(saved, mem') /\ Answers(saved, mem')
  <2> HIDE DEF s
  <2>1. Grown(saved, mem')
    BY <1>1, <1>2, <1>6, GrownFurther
  <2> QED
    BY <1>6, <2>1 DEF Spares, Answers
<1> HIDE DEF s, g
<1>9. InOrder(past.saved \o g, mem')
  BY <1>1, <1>7, <1>8, RecordFacts, OrderConcat
<1>10. InOrder(Kept(past.saved \o g), mem')
  BY <1>9, OrderKept
<1> QED
  BY <1>4, <1>5, <1>6, <1>8, <1>10, GoOnRecord DEF g

(* A failure counts against a candidate, which is no garbage. *)
LEMMA FailRecord ==
  ASSUME RecordInv, RouteInv', Fail
  PROVE  RecordInv' /\ Grows /\ Untried
<1> DEFINE m == Head(chain)
           f == ModelFailed(mem, m)
           g == <<Replay(mem, average.mem), Replay(f, average.mem)>>
<1>1. /\ chain \in Seq(ModelId) /\ chain # <<>>
      /\ m = chain[1] /\ 1 \in DOMAIN chain
  BY DEF Fail, Trying, RecordInv, RouteInv, TypeOK
<1>2. m \in mem.models /\ ~ mem.health[m].garbage
  BY <1>1 DEF RecordInv, RouteInv, ChainStaysSound
<1>3. /\ mem' = CompletionFinished(f, m, FALSE)
      /\ past' = [past EXCEPT !.mem = Kept(past.mem \o g)]
      /\ saved' = saved /\ cuts' = cuts /\ pc = "trying" /\ pc' = "trying"
  BY DEF Fail, Trying
<1> HIDE DEF m
<1>4. /\ Sound(saved) /\ Sound(mem) /\ Behind(mem)
      /\ Grown(saved, mem) /\ Spares(saved, mem)
      /\ Total(mem.inflight) <= runs
  BY <1>3 DEF RecordInv, RouteInv, InflightBounded
<1>5. /\ \A x \in mem.models : x # m => mem'.health[x] = mem.health[x]
      /\ Total(f.inflight) = Total(mem.inflight)
  BY <1>2, <1>3, <1>4, FailedSound
<1>6. /\ Sound(f) /\ Behind(f) /\ Grown(mem, f) /\ Grown(f, mem')
      /\ Sound(mem') /\ Behind(mem') /\ Grown(mem, mem')
  BY <1>2, <1>3, <1>4, FailedRecord
<1> HIDE DEF f
<1>7. Grown(saved, mem')
  BY <1>4, <1>6, GrownFurther
<1>8. Spares(saved, mem') /\ Answers(saved, mem')
  BY <1>2, <1>4, <1>5 DEF Grown, Spares, Answers
<1>9. SoundLog(g, runs) /\ InOrder(g, mem') /\ \A i \in DOMAIN g : Grown(mem, g[i].state)
  <2>1. SoundLog(g, runs)
    BY <1>4, <1>5, <1>6, RecordFacts, SoundTwo
  <2>2. InOrder(g, mem')
    BY <1>4, <1>6, OrderTwo
  <2>3. DOMAIN g = {1, 2} /\ g[1].state = mem /\ g[2].state = f
    BY DEF Replay
  <2> HIDE DEF g
  <2> QED
    BY <1>4, <1>6, <2>1, <2>2, <2>3, GrownItself
<1> HIDE DEF g
<1>10. InOrder(past.mem \o g, mem')
  BY <1>4, <1>6, <1>9, RecordFacts, OrderConcat
<1>11. InOrder(Kept(past.mem \o g), mem')
  BY <1>10, OrderKept
<1> QED
  BY <1>3, <1>6, <1>7, <1>8, <1>11, GoOnRecord

(* The loop ends without an event. *)
LEMMA ExitRecord ==
  ASSUME RecordInv, RouteInv', pc = "trying", Exit, UNCHANGED <<mem, average, past>>
  PROVE  RecordInv' /\ Grows /\ Untried
<1>1. saved' = saved /\ cuts' = cuts /\ pc' = "saving" /\ mem' = mem
  BY DEF Exit
<1>2. Behind(mem') /\ Grown(saved, mem') /\ Answers(saved, mem') /\ InOrder(past.mem, mem')
  BY <1>1 DEF RecordInv
<1>3. past' = [past EXCEPT !.mem = past.mem]
  BY RecordFacts
<1> QED
  BY <1>1, <1>2, <1>3, GoOnRecord

(* An answer counts for the name it came under, garbage or not. *)
LEMMA SucceedRecord ==
  ASSUME RecordInv, RouteInv', NEW used \in ModelId, NEW ms, NEW valid \in BOOLEAN,
         Succeed(used, ms, valid)
  PROVE  RecordInv' /\ Grows /\ Untried
<1> DEFINE g == <<Replay(mem, average.mem)>>
<1>1. /\ Sound(saved) /\ Sound(mem) /\ Behind(mem)
      /\ Grown(saved, mem)
      /\ Total(mem.inflight) <= runs
  BY DEF RecordInv, RouteInv, InflightBounded
<1>2. pc = "trying" /\ Exit
  BY DEF Succeed, Trying
<1>3. CASE valid
  <2>1. /\ mem' = CompletionFinished(mem, used, TRUE)
        /\ past' = [past EXCEPT !.mem = Kept(past.mem \o g)]
    BY <1>3 DEF Succeed
  <2>2. saved' = saved /\ cuts' = cuts /\ pc' = "saving"
    BY <1>2 DEF Exit
  <2>3. /\ Sound(mem') /\ Behind(mem') /\ Grown(mem, mem')
        /\ \A x \in mem.models :
             \/ mem'.health[x] = mem.health[x]
             \/ /\ mem'.health[x].success_count = mem.health[x].success_count + 1
                /\ mem'.health[x].failure_count = mem.health[x].failure_count
    BY <1>1, <2>1, AnsweredRecord
  <2>4. Grown(saved, mem')
    BY <1>1, <2>3, GrownFurther
  <2>5. Answers(saved, mem')
    <3>1. Spares(saved, mem)
      BY <1>2 DEF RecordInv
    <3> QED
      BY <1>1, <2>3, <3>1 DEF Grown, Spares, Answers
  <2>6. SoundLog(g, runs) /\ InOrder(g, mem') /\ \A i \in DOMAIN g : Grown(mem, g[i].state)
    <3>1. SoundLog(g, runs)
      BY <1>1, RecordFacts, SoundOne
    <3>2. InOrder(g, mem')
      BY <1>1, <2>3, OrderOne
    <3>3. DOMAIN g = {1} /\ g[1].state = mem
      BY DEF Replay
    <3> HIDE DEF g
    <3> QED
      BY <1>1, <3>1, <3>2, <3>3, GrownItself
  <2> HIDE DEF g
  <2>7. InOrder(past.mem \o g, mem')
    BY <1>1, <2>3, <2>6, RecordFacts, OrderConcat
  <2>8. InOrder(Kept(past.mem \o g), mem')
    BY <2>7, OrderKept
  <2> QED
    BY <1>2, <2>1, <2>2, <2>3, <2>4, <2>5, <2>8, GoOnRecord
<1>4. CASE ~ valid
  BY <1>2, <1>4, ExitRecord DEF Succeed
<1> QED
  BY <1>3, <1>4

(* A save that is cut short leaves a part of what the invocation had. *)
LEMMA CutSaveRecord ==
  ASSUME RecordInv, RouteInv', CutSave
  PROVE  RecordInv' /\ Grows /\ Untried
<1>1. cuts' # cuts
  BY DEF CutSave, RecordInv, RouteInv, TypeOK
<1>2. CASE Leave(saved, average.saved, past.saved)
  BY <1>1, <1>2, RecordFacts, LeaveRecord DEF Grows, Untried
<1>3. CASE Leave(NewState, [m \in ModelId |-> 0], <<>>)
  <2>1. NewState.models = {} /\ DOMAIN NewState.health = {}
    BY DEF NewState
  <2>2. Behind(NewState) /\ Grown(NewState, mem)
    BY <2>1 DEF Behind, Grown
  <2>3. RecordInv' /\ saved' = NewState
    BY <1>3, <2>2, NewStateSound, OrderNothing, LeaveRecord
  <2> QED
    BY <1>1, <2>2, <2>3 DEF Grows, Untried
<1>4. ASSUME NEW i \in DOMAIN past.mem,
             Leave(past.mem[i].state, past.mem[i].average, SubSeq(past.mem, 1, i - 1))
      PROVE  RecordInv' /\ Grows /\ Untried
  <2>1. /\ Sound(past.mem[i].state) /\ Behind(past.mem[i].state)
        /\ Grown(past.mem[i].state, mem)
    BY RecordFacts DEF SoundLog, InOrder
  <2>2. InOrder(SubSeq(past.mem, 1, i - 1), past.mem[i].state)
    BY RecordFacts, OrderPrefix
  <2>3. RecordInv' /\ saved' = past.mem[i].state
    BY <1>4, <2>1, <2>2, LeaveRecord
  <2> QED
    BY <1>1, <2>1, <2>3 DEF Grows, Untried
<1> QED
  BY <1>2, <1>3, <1>4 DEF CutSave

(* Every step keeps the record and takes the two steps.                    *)
LEMMA RecordNext ==
  ASSUME RecordInv, [Next]_vars
  PROVE  RecordInv' /\ Grows /\ Untried
<1>1. RouteInv /\ RouteInv'
  BY NextInv DEF RecordInv
<1>2. ASSUME NEW configured \in SUBSET Configurable, NEW suited, NEW tier,
             Start(configured, tier, suited)
      PROVE  RecordInv' /\ Grows /\ Untried
  BY <1>1, <1>2, StartRecord
<1>3. Grown(saved, saved) /\ Answers(saved, saved) /\ Grown(mem, mem)
  BY RecordFacts, GrownItself
<1>4. ASSUME UNCHANGED <<saved, mem, past, pc, cuts>>
      PROVE  RecordInv' /\ Grows /\ Untried
  <2>1. RecordInv'
    BY <1>1, <1>4 DEF RecordInv, Behind, Grown, Answers, Spares, InOrder
  <2> QED
    BY <1>3, <1>4, <2>1, RecordFacts DEF Grows, Untried
<1>5. ASSUME NEW used \in ModelId, NEW ms \in Latency, NEW valid \in BOOLEAN,
             Succeed(used, ms, valid)
      PROVE  RecordInv' /\ Grows /\ Untried
  BY <1>1, <1>5, SucceedRecord
<1>6. CASE Fail
  BY <1>1, <1>6, FailRecord
<1>7. CASE Kill
  <2>1. Leave(saved, average.saved, past.saved) /\ pc = "trying"
    BY <1>7 DEF Kill
  <2>2. RecordInv' /\ saved' = saved
    BY <1>1, <2>1, RecordFacts, LeaveRecord
  <2> QED
    BY <1>3, <2>1, <2>2 DEF Grows, Untried
<1>8. CASE Save
  <2>1. Leave(mem, average.mem, past.mem)
    BY <1>8 DEF Save
  <2>2. RecordInv' /\ saved' = mem
    BY <1>1, <2>1, RecordFacts, LeaveRecord
  <2> QED
    BY <1>3, <2>2, RecordFacts DEF Grows, Untried
<1>9. CASE CutSave
  BY <1>1, <1>9, CutSaveRecord
<1>10. CASE Skip
  BY <1>4, <1>10 DEF Skip
<1>11. CASE AuthError
  BY <1>1, <1>11, ExitRecord DEF AuthError, Trying
<1>12. CASE GiveUp
  BY <1>1, <1>12, ExitRecord DEF GiveUp
<1>13. CASE UNCHANGED vars
  BY <1>4, <1>13 DEF vars
<1> QED
  BY <1>2, <1>5, <1>6, <1>7, <1>8, <1>9, <1>10, <1>11, <1>12, <1>13 DEF Next, Step

(* Every reachable state of the command line keeps the record.             *)
LEMMA RecordHolds == Spec => []RecordInv
<1>1. RecordInv /\ [Next]_vars => RecordInv'
  BY RecordNext
<1> QED
  BY <1>1, RecordInit, PTL DEF Spec

(* Whatever way cmd_route ends, answered, refused, given up or killed, and *)
(* with whatever config it was started: unless save_ledger is cut short,   *)
(* the next invocation finds every model that was saved, every count at    *)
(* least as high and no observation older; and if it is, the next one      *)
(* finds nothing that the invocation which was saving did not have.        *)
THEOREM SavedHealthAlwaysGrows == Spec => SavedHealthGrows
<1>1. RecordInv /\ [Next]_vars => [Grows]_vars
  BY RecordNext
<1> QED
  BY <1>1, RecordHolds, PTL DEF Spec, SavedHealthGrows, Grows

(* Unless save_ledger is cut short, a model saved as garbage is never      *)
(* called again: its saved record stays as it is, or counts one answer     *)
(* more, given under its name by another.                                  *)
THEOREM GarbageNeverTried == Spec => GarbageStaysUntried
<1>1. RecordInv /\ [Next]_vars => [Untried]_vars
  BY RecordNext
<1> QED
  BY <1>1, RecordHolds, PTL DEF Spec, GarbageStaysUntried, Untried, Answers

-----------------------------------------------------------------------------
(***************************************************************************)
(* The tier of the prompt, which cmd_route asks for before any of this.    *)
(***************************************************************************)

(* What the classifier may be given, and what it is given: a prompt        *)
(* without text has no keywords.                                           *)
Prompts == [marks : [Kind -> Nat], tokens : Nat, structured : BOOLEAN]

PromptInv ==
  /\ PromptTypeOK
  /\ prompt.tokens = 0 => \A k \in Kind : prompt.marks[k] = 0

(* The lists that speak against SIMPLE. *)
Raising == DOMAIN KeywordList \ {"simple"}

-----------------------------------------------------------------------------
(* Tiers and their order. *)
LEMMA RankFacts ==
  /\ Rank("SIMPLE") = 1 /\ Rank("MEDIUM") = 2
  /\ Rank("COMPLEX") = 3 /\ Rank("REASONING") = 4
  /\ Tier = {"SIMPLE", "MEDIUM", "COMPLEX", "REASONING"}
<1>1. /\ DOMAIN PromptTier = 1 .. 4
      /\ PromptTier[1] = "SIMPLE" /\ PromptTier[2] = "MEDIUM"
      /\ PromptTier[3] = "COMPLEX" /\ PromptTier[4] = "REASONING"
  BY DEF PromptTier
<1>2. ASSUME NEW n \in 1 .. 4
      PROVE  Rank(PromptTier[n]) = n
  <2>1. \A i \in 1 .. 4 : PromptTier[i] = PromptTier[n] <=> i = n
    BY <1>1
  <2>2. QED
    BY <1>1, <2>1 DEF Rank
<1>3. QED
  BY <1>1, <1>2 DEF Tier

(* A tier's rank is a number between those of SIMPLE and REASONING. *)
LEMMA RankType ==
  ASSUME NEW t \in Tier
  PROVE  Rank(t) \in 1 .. 4
BY RankFacts

-----------------------------------------------------------------------------
(* The lists. *)
LEMMA ListFacts ==
  /\ \A k \in DOMAIN KeywordList :
       /\ KeywordList[k].weight \in Nat
       /\ KeywordList[k].low \in Nat \ {0}
       /\ KeywordList[k].high \in Nat
       /\ KeywordList[k].low <= KeywordList[k].high
       /\ KeywordList[k].at_low \in Int
       /\ KeywordList[k].at_high \in Int
  /\ \A k \in Raising :
       0 <= KeywordList[k].at_low /\ KeywordList[k].at_low <= KeywordList[k].at_high
  /\ KeywordList["simple"].at_low = -10 /\ KeywordList["simple"].at_high = -10
BY DEF KeywordList, List, Raising

(* The kinds of keywords, one by one. *)
LEMMA KindFacts ==
  /\ DOMAIN KeywordList = {"code", "reasoning", "technical", "creative", "simple",
       "multi_step", "question", "imperative", "constraint", "format",
       "reference", "negation", "domain"}
  /\ Kind = DOMAIN KeywordList \union {"agentic"}
BY DEF KeywordList, Kind

(* The score of a list is a number, 0 without hits, and goes its list's    *)
(* way as hits are added.                                                  *)
LEMMA ScoreKwFacts ==
  ASSUME NEW k \in DOMAIN KeywordList, NEW h \in Nat, NEW g \in Nat, h <= g
  PROVE  LET l == KeywordList[k]
         IN  /\ ScoreKw(l, h) \in Int
             /\ ScoreKw(l, 0) = 0
             /\ k \in Raising => ScoreKw(l, h) <= ScoreKw(l, g)
             /\ k = "simple" => ScoreKw(l, g) <= ScoreKw(l, h)
<1> DEFINE l == KeywordList[k]
<1>1. /\ l.low \in Nat \ {0} /\ l.high \in Nat /\ l.low <= l.high
      /\ l.at_low \in Int /\ l.at_high \in Int
      /\ k \in Raising => 0 <= l.at_low /\ l.at_low <= l.at_high
      /\ k = "simple" => l.at_low = -10 /\ l.at_high = -10
  BY ListFacts
<1> HIDE DEF l
<1>2. ASSUME NEW n \in Nat
      PROVE  ScoreKw(l, n) = IF n >= l.high THEN l.at_high
                             ELSE IF n >= l.low THEN l.at_low ELSE 0
  BY <1>1 DEF ScoreKw
<1>3. /\ ScoreKw(l, h) \in Int
      /\ ScoreKw(l, 0) = 0
      /\ k \in Raising => ScoreKw(l, h) <= ScoreKw(l, g)
      /\ k = "simple" => ScoreKw(l, g) <= ScoreKw(l, h)
  BY <1>1, <1>2
<1>4. QED
  BY <1>3 DEF l

(* Weights are not negative, so they keep an order. *)
LEMMA WeightKeepsOrder ==
  ASSUME NEW w \in Nat, NEW x \in Int, NEW y \in Int, x <= y
  PROVE  w * x \in Int /\ w * x <= w * y
OBVIOUS

(* The same of a list's part of the sum. *)
LEMMA PartFacts ==
  ASSUME NEW p \in Prompts, NEW q \in Prompts, NEW k \in DOMAIN KeywordList,
         p.marks[k] <= q.marks[k]
  PROVE  /\ Part(p, k) \in Int
         /\ p.marks[k] = 0 => Part(p, k) = 0
         /\ k \in Raising => Part(p, k) <= Part(q, k)
         /\ k = "simple" => Part(q, k) <= Part(p, k)
         /\ p.marks[k] = q.marks[k] => Part(p, k) = Part(q, k)
<1> DEFINE w == KeywordList[k].weight
           x == ScoreKw(KeywordList[k], p.marks[k])
           y == ScoreKw(KeywordList[k], q.marks[k])
<1>1. p.marks[k] \in Nat /\ q.marks[k] \in Nat
  BY KindFacts DEF Prompts
<1>2. /\ x \in Int /\ y \in Int
      /\ p.marks[k] = 0 => x = 0
      /\ k \in Raising => x <= y
      /\ k = "simple" => y <= x
      /\ p.marks[k] = q.marks[k] => x = y
  BY <1>1, ScoreKwFacts
<1>3. w \in Nat
  BY ListFacts
<1>4. Part(p, k) = w * x /\ Part(q, k) = w * y
  BY DEF Part
<1> HIDE DEF w, x, y
<1>5. /\ w * x \in Int
      /\ x <= y => w * x <= w * y
      /\ y <= x => w * y <= w * x
      /\ x = 0 => w * x = 0
  BY <1>2, <1>3, WeightKeepsOrder
<1>6. QED
  BY <1>2, <1>4, <1>5

(* Longer prompts and more steps on the way to an agent score higher. *)
LEMMA LengthFacts ==
  ASSUME NEW h \in Nat, NEW g \in Nat, h <= g
  PROVE  /\ ScoreAgentic(h) \in Int
         /\ ScoreAgentic(h) <= ScoreAgentic(g)
         /\ ScoreAgentic(0) = 0
         /\ ScoreTokenCount(h) \in Int
         /\ ScoreTokenCount(h) <= ScoreTokenCount(g)
         /\ ScoreTokenCount(0) = -10
BY DEF ScoreAgentic, ScoreTokenCount

(* The sum is a number; without text it is that of the length alone. *)
LEMMA ScoreType ==
  ASSUME NEW p \in Prompts
  PROVE  /\ WeightedScore(p) \in Int
         /\ (\A k \in Kind : p.marks[k] = 0) /\ p.tokens = 0 => WeightedScore(p) = -40
<1>1. /\ p.tokens \in Nat
      /\ \A k \in Kind : p.marks[k] \in Nat
  BY DEF Prompts
<1>2. \A k \in DOMAIN KeywordList :
        Part(p, k) \in Int /\ (p.marks[k] = 0 => Part(p, k) = 0)
  BY <1>1, PartFacts, KindFacts
<1>3. /\ ScoreAgentic(p.marks["agentic"]) \in Int
      /\ p.marks["agentic"] = 0 => ScoreAgentic(p.marks["agentic"]) = 0
      /\ ScoreTokenCount(p.tokens) \in Int
      /\ p.tokens = 0 => ScoreTokenCount(p.tokens) = -10
  BY <1>1, LengthFacts, KindFacts
<1>4. QED
  BY <1>2, <1>3, KindFacts DEF WeightedScore

(* A sum is no more than another if no part of it is. *)
LEMMA SumKeepsOrder ==
  ASSUME NEW p, NEW q,
         \A k \in DOMAIN KeywordList :
           Part(p, k) \in Int /\ Part(q, k) \in Int /\ Part(p, k) <= Part(q, k),
         ScoreAgentic(p.marks["agentic"]) \in Int,
         ScoreAgentic(q.marks["agentic"]) \in Int,
         ScoreAgentic(p.marks["agentic"]) <= ScoreAgentic(q.marks["agentic"]),
         ScoreTokenCount(p.tokens) \in Int,
         ScoreTokenCount(q.tokens) \in Int,
         ScoreTokenCount(p.tokens) <= ScoreTokenCount(q.tokens)
  PROVE  WeightedScore(p) <= WeightedScore(q)
BY KindFacts DEF WeightedScore

(* Adding anything but simple keywords never lowers the sum. *)
LEMMA ScoreRises ==
  ASSUME NEW p \in Prompts, NEW q \in Prompts, p.tokens <= q.tokens,
         \A k \in Kind : p.marks[k] <= q.marks[k],
         p.marks["simple"] = q.marks["simple"]
  PROVE  WeightedScore(p) <= WeightedScore(q)
<1>1. \A k \in DOMAIN KeywordList :
        Part(p, k) \in Int /\ Part(q, k) \in Int /\ Part(p, k) <= Part(q, k)
  <2>1. ASSUME NEW k \in DOMAIN KeywordList
        PROVE  Part(p, k) \in Int /\ Part(q, k) \in Int /\ Part(p, k) <= Part(q, k)
    <3>1. /\ p.marks[k] \in Nat /\ q.marks[k] \in Nat /\ p.marks[k] <= q.marks[k]
          /\ k \in Raising \/ p.marks[k] = q.marks[k]
      BY KindFacts DEF Prompts, Raising
    <3>2. Part(p, k) \in Int /\ Part(q, k) \in Int
      BY <3>1, PartFacts
    <3>3. QED
      BY <3>1, <3>2, PartFacts
  <2>2. QED
    BY <2>1
<1>2. /\ ScoreAgentic(p.marks["agentic"]) \in Int
      /\ ScoreAgentic(q.marks["agentic"]) \in Int
      /\ ScoreAgentic(p.marks["agentic"]) <= ScoreAgentic(q.marks["agentic"])
      /\ ScoreTokenCount(p.tokens) \in Int
      /\ ScoreTokenCount(q.tokens) \in Int
      /\ ScoreTokenCount(p.tokens) <= ScoreTokenCount(q.tokens)
  <2>1. /\ p.tokens \in Nat /\ q.tokens \in Nat
        /\ p.marks["agentic"] \in Nat /\ q.marks["agentic"] \in Nat
        /\ p.marks["agentic"] <= q.marks["agentic"]
    BY KindFacts DEF Prompts
  <2>2. QED
    BY <2>1, LengthFacts
<1>3. QED
  BY <1>1, <1>2, SumKeepsOrder

(* Adding simple keywords alone never raises it. *)
LEMMA ScoreFalls ==
  ASSUME NEW p \in Prompts, NEW q \in Prompts, p.tokens = q.tokens,
         \A k \in Kind \ {"simple"} : p.marks[k] = q.marks[k],
         p.marks["simple"] <= q.marks["simple"]
  PROVE  WeightedScore(q) <= WeightedScore(p)
<1>1. \A k \in DOMAIN KeywordList :
        Part(p, k) \in Int /\ Part(q, k) \in Int /\ Part(q, k) <= Part(p, k)
  <2>1. ASSUME NEW k \in DOMAIN KeywordList
        PROVE  Part(p, k) \in Int /\ Part(q, k) \in Int /\ Part(q, k) <= Part(p, k)
    <3>1. /\ p.marks[k] \in Nat /\ q.marks[k] \in Nat /\ p.marks[k] <= q.marks[k]
          /\ k = "simple" \/ p.marks[k] = q.marks[k]
      BY KindFacts DEF Prompts
    <3>2. Part(p, k) \in Int /\ Part(q, k) \in Int
      BY <3>1, PartFacts
    <3>3. QED
      BY <3>1, <3>2, PartFacts
  <2>2. QED
    BY <2>1
<1>2. /\ ScoreAgentic(p.marks["agentic"]) \in Int
      /\ ScoreAgentic(q.marks["agentic"]) \in Int
      /\ ScoreAgentic(q.marks["agentic"]) <= ScoreAgentic(p.marks["agentic"])
      /\ ScoreTokenCount(p.tokens) \in Int
      /\ ScoreTokenCount(q.tokens) \in Int
      /\ ScoreTokenCount(q.tokens) <= ScoreTokenCount(p.tokens)
  <2>1. p.tokens \in Nat /\ p.marks["agentic"] \in Nat
    BY KindFacts DEF Prompts
  <2>2. QED
    BY <2>1, KindFacts, LengthFacts
<1>3. QED
  BY <1>1, <1>2, SumKeepsOrder

-----------------------------------------------------------------------------
(* Every score has a tier and is at least at the threshold of confidence.  *)
LEMMA EveryScoreDecided ==
  ASSUME NEW score \in Int
  PROVE  TierOfScore(score) \in Tier /\ Confident(score)
<1>1. TierOfScore(score) = IF score < 0 THEN "SIMPLE" ELSE IF score < 30 THEN "MEDIUM"
                           ELSE IF score < 150 THEN "COMPLEX" ELSE "REASONING"
  BY DEF TierOfScore, B_SIMPLE_MEDIUM, B_MEDIUM_COMPLEX, B_COMPLEX_REASONING
<1>2. TierOfScore(score) \in Tier
  BY <1>1, RankFacts
<1>3. Distance(score) >= 0
  BY <1>1 DEF Distance, Less, B_SIMPLE_MEDIUM, B_MEDIUM_COMPLEX, B_COMPLEX_REASONING
<1>4. QED
  BY <1>2, <1>3 DEF Confident

(* A higher score has no lower tier. *)
LEMMA TierRises ==
  ASSUME NEW x \in Int, NEW y \in Int, x <= y
  PROVE  Rank(TierOfScore(x)) <= Rank(TierOfScore(y))
<1>1. \A s \in Int : Rank(TierOfScore(s)) = IF s < 0 THEN 1 ELSE IF s < 30 THEN 2
                                            ELSE IF s < 150 THEN 3 ELSE 4
  BY RankFacts DEF TierOfScore, B_SIMPLE_MEDIUM, B_MEDIUM_COMPLEX, B_COMPLEX_REASONING
<1>2. QED
  BY <1>1

(* The tier of a prompt as a rank: size, then two words of reasoning, and  *)
(* then the score, which structured output lifts off the bottom.           *)
LEMMA ClassifyFacts ==
  ASSUME NEW p \in Prompts
  PROVE  LET tier == TierOfScore(WeightedScore(p))
         IN  /\ Classify(p) \in Tier
             /\ Rank(Classify(p)) =
                  IF Large(p) THEN 3
                  ELSE IF p.marks["reasoning"] >= 2 THEN 4
                  ELSE IF p.structured /\ Rank(tier) = 1 THEN 2
                  ELSE Rank(tier)
<1> DEFINE tier == TierOfScore(WeightedScore(p))
<1>1. tier \in Tier /\ Confident(WeightedScore(p))
  BY ScoreType, EveryScoreDecided
<1>2. p.marks["reasoning"] \in Nat
  BY KindFacts DEF Prompts
<1>3. Classify(p) = IF Large(p) THEN "COMPLEX"
                    ELSE IF p.marks["reasoning"] >= 2 THEN "REASONING"
                    ELSE IF p.structured /\ tier = "SIMPLE" THEN "MEDIUM"
                    ELSE tier
  BY <1>1, <1>2 DEF Classify
<1> HIDE DEF tier
<1>4. tier = "SIMPLE" <=> Rank(tier) = 1
  BY <1>1, RankFacts
<1>5. /\ Classify(p) \in Tier
      /\ Rank(Classify(p)) =
           IF Large(p) THEN 3
           ELSE IF p.marks["reasoning"] >= 2 THEN 4
           ELSE IF p.structured /\ Rank(tier) = 1 THEN 2
           ELSE Rank(tier)
  BY <1>1, <1>3, <1>4, RankFacts
<1>6. QED
  BY <1>5 DEF tier

(* The keywords of a prompt that is not too large pull its tier up. *)
LEMMA ClassifyRises ==
  ASSUME NEW p \in Prompts, NEW q \in Prompts, p.tokens <= q.tokens,
         \A k \in Kind : p.marks[k] <= q.marks[k],
         p.marks["simple"] = q.marks["simple"],
         p.structured => q.structured, ~Large(q)
  PROVE  Rank(Classify(p)) <= Rank(Classify(q))
<1> DEFINE x == Rank(TierOfScore(WeightedScore(p)))
           y == Rank(TierOfScore(WeightedScore(q)))
<1>1. x \in 1 .. 4 /\ y \in 1 .. 4 /\ x <= y
  BY ScoreType, ScoreRises, TierRises, EveryScoreDecided, RankType
<1>2. ~Large(p)
  BY DEF Large, Prompts
<1>3. /\ p.marks["reasoning"] \in Nat /\ q.marks["reasoning"] \in Nat
      /\ p.marks["reasoning"] <= q.marks["reasoning"]
  BY KindFacts DEF Prompts
<1>4. /\ Rank(Classify(p)) = IF p.marks["reasoning"] >= 2 THEN 4
                             ELSE IF p.structured /\ x = 1 THEN 2 ELSE x
      /\ Rank(Classify(q)) = IF q.marks["reasoning"] >= 2 THEN 4
                             ELSE IF q.structured /\ y = 1 THEN 2 ELSE y
  BY <1>2, ClassifyFacts
<1>5. p.structured \in BOOLEAN /\ q.structured \in BOOLEAN
  BY DEF Prompts
<1> HIDE DEF x, y
<1>6. QED
  BY <1>1, <1>3, <1>4, <1>5

(* Simple keywords pull it down, at any size. *)
LEMMA ClassifyFalls ==
  ASSUME NEW p \in Prompts, NEW q \in Prompts, p.tokens = q.tokens,
         \A k \in Kind \ {"simple"} : p.marks[k] = q.marks[k],
         p.marks["simple"] <= q.marks["simple"],
         p.structured = q.structured
  PROVE  Rank(Classify(q)) <= Rank(Classify(p))
<1> DEFINE x == Rank(TierOfScore(WeightedScore(p)))
           y == Rank(TierOfScore(WeightedScore(q)))
<1>1. x \in 1 .. 4 /\ y \in 1 .. 4 /\ y <= x
  BY ScoreType, ScoreFalls, TierRises, EveryScoreDecided, RankType
<1>2. Large(p) <=> Large(q)
  BY DEF Large
<1>3. p.marks["reasoning"] = q.marks["reasoning"]
  BY KindFacts
<1>4. /\ Rank(Classify(p)) = IF Large(p) THEN 3
                             ELSE IF p.marks["reasoning"] >= 2 THEN 4
                             ELSE IF p.structured /\ x = 1 THEN 2 ELSE x
      /\ Rank(Classify(q)) = IF Large(p) THEN 3
                             ELSE IF p.marks["reasoning"] >= 2 THEN 4
                             ELSE IF p.structured /\ y = 1 THEN 2 ELSE y
  BY <1>2, <1>3, ClassifyFacts
<1>5. p.structured \in BOOLEAN
  BY DEF Prompts
<1> HIDE DEF x, y
<1>6. CASE Large(p)
  BY <1>4, <1>6
<1>7. CASE ~Large(p) /\ p.marks["reasoning"] >= 2
  <2>1. Rank(Classify(p)) = 4 /\ Rank(Classify(q)) = 4
    BY <1>4, <1>7, Zenon
  <2>2. QED
    BY <2>1
<1>8. CASE ~Large(p) /\ ~(p.marks["reasoning"] >= 2)
  <2>1. /\ Rank(Classify(p)) = IF p.structured /\ x = 1 THEN 2 ELSE x
        /\ Rank(Classify(q)) = IF p.structured /\ y = 1 THEN 2 ELSE y
    BY <1>4, <1>8
  <2>2. QED
    BY <1>1, <1>5, <2>1
<1>9. QED
  BY <1>6, <1>7, <1>8

(* A prompt without text is SIMPLE. *)
LEMMA EmptyIsSimple ==
  ASSUME PromptInv, prompt.tokens = 0
  PROVE  Classify(prompt) = "SIMPLE"
<1>1. /\ prompt \in Prompts
      /\ \A k \in Kind : prompt.marks[k] = 0
      /\ ~prompt.structured
  BY ClassifierAssumption, KindFacts DEF PromptInv, PromptTypeOK, Prompts
<1>2. WeightedScore(prompt) = -40
  BY <1>1, ScoreType
<1>3. TierOfScore(-40) = "SIMPLE" /\ Confident(-40)
  BY EveryScoreDecided DEF TierOfScore, B_SIMPLE_MEDIUM, B_MEDIUM_COMPLEX, B_COMPLEX_REASONING
<1>4. ~Large(prompt) /\ prompt.marks["reasoning"] < 2
  BY <1>1, KindFacts DEF Large
<1>5. QED
  BY <1>1, <1>2, <1>3, <1>4 DEF Classify

-----------------------------------------------------------------------------
(* How a prompt grows. *)

(* One step on: more text, and at most one keyword more. *)
LEMMA GrowthFacts ==
  ASSUME PromptInv, PromptNext
  PROVE  /\ PromptInv'
         /\ UNCHANGED <<flag, prefix>>
         /\ prompt'.tokens > 0
         /\ prompt.tokens <= prompt'.tokens
         /\ prompt.structured => prompt'.structured
         /\ \A k \in Kind : prompt.marks[k] <= prompt'.marks[k]
         /\ prompt'.marks["simple"] > prompt.marks["simple"] =>
              /\ \A k \in Kind \ {"simple"} : prompt'.marks[k] = prompt.marks[k]
              /\ prompt'.structured = prompt.structured
<1> DEFINE Goal ==
      /\ PromptInv'
      /\ UNCHANGED <<flag, prefix>>
      /\ prompt'.tokens > 0
      /\ prompt.tokens <= prompt'.tokens
      /\ prompt.structured => prompt'.structured
      /\ \A k \in Kind : prompt.marks[k] <= prompt'.marks[k]
      /\ prompt'.marks["simple"] > prompt.marks["simple"] =>
           /\ \A k \in Kind \ {"simple"} : prompt'.marks[k] = prompt.marks[k]
           /\ prompt'.structured = prompt.structured
<1>1. /\ Tokens \subseteq Nat
      /\ prompt.tokens \in Tokens
      /\ prompt.marks \in [Kind -> Nat]
      /\ prompt.structured \in BOOLEAN
      /\ prompt.structured => prompt.marks["format"] > 0
      /\ flag \in Tier \union {NoTier} /\ prefix \in Prefix
  BY ClassifierAssumption DEF PromptInv, PromptTypeOK
<1>2. ASSUME NEW n \in Tokens, Write(n) PROVE Goal
  <2>1. /\ n > 0 /\ n >= prompt.tokens
        /\ UNCHANGED <<flag, prefix>>
        /\ prompt' = [marks |-> prompt.marks, tokens |-> n,
                      structured |-> prompt.structured]
    BY <1>2 DEF Write, Longer, PromptInv, PromptTypeOK
  <2>2. PromptInv'
    BY <1>1, <2>1 DEF PromptInv, PromptTypeOK
  <2>3. QED
    BY <1>1, <2>1, <2>2, KindFacts
<1>3. ASSUME NEW n \in Tokens, NEW kind \in Kind, NEW structured \in BOOLEAN,
             Mark(kind, n, structured)
      PROVE  Goal
  <2> DEFINE marks == [prompt.marks EXCEPT ![kind] = @ + 1]
  <2>1. /\ n > 0 /\ n >= prompt.tokens
        /\ structured => kind = "format"
        /\ UNCHANGED <<flag, prefix>>
        /\ prompt' = [marks |-> marks, tokens |-> n,
                      structured |-> prompt.structured \/ structured]
    BY <1>3 DEF Mark, Longer
  <2>2. /\ marks \in [Kind -> Nat]
        /\ marks[kind] = prompt.marks[kind] + 1
        /\ \A k \in Kind \ {kind} : marks[k] = prompt.marks[k]
    BY <1>1
  <2> HIDE DEF marks
  <2>3. PromptInv'
    BY <1>1, <2>1, <2>2, KindFacts DEF PromptInv, PromptTypeOK
  <2>4. QED
    BY <1>1, <2>1, <2>2, <2>3, KindFacts
<1>4. QED
  BY <1>2, <1>3 DEF PromptNext

(* The invariant holds of every prompt. *)
LEMMA PromptInvariant == PromptSpec => []PromptInv
<1>1. PromptInit => PromptInv
  BY ClassifierAssumption, RankFacts DEF PromptInit, PromptInv, PromptTypeOK, TierFromStr
<1>2. PromptInv /\ [PromptNext]_inputs => PromptInv'
  BY GrowthFacts DEF inputs, PromptInv, PromptTypeOK
<1>3. QED
  BY <1>1, <1>2, PTL DEF PromptSpec

(* The opening and the prompt keep their types. *)
THEOREM PromptTypes == PromptSpec => []PromptTypeOK
BY PromptInvariant, PTL DEF PromptInv

(***************************************************************************)
(* Every prompt gets its tier from its score or from the rules that        *)
(* override it, for any numbers of keywords and any length: the confidence *)
(* is never below its threshold, and the default tiers are never used.     *)
(***************************************************************************)
THEOREM EveryPromptDecided == PromptSpec => []AlwaysDecided
<1>1. PromptInv => AlwaysDecided
  BY ClassifierAssumption, ClassifyFacts
     DEF PromptInv, PromptTypeOK, Prompts, AlwaysDecided
<1>2. QED
  BY <1>1, PromptInvariant, PTL

(***************************************************************************)
(* Whatever is added to a prompt, however long it is and whatever keywords *)
(* it has, except a simple keyword, never lowers its tier short of the     *)
(* size that is COMPLEX; a simple keyword alone never raises it.  Each     *)
(* list's score goes one way, so does the weighted sum, the tier of a      *)
(* score and each rule above it.                                           *)
(***************************************************************************)
THEOREM KeywordsAlwaysPull == PromptSpec => KeywordsPull
<1> DEFINE simpler == prompt'.marks["simple"] > prompt.marks["simple"]
           Pull == /\ ~simpler /\ ~Large(prompt') => Rank(CurrentTier') >= Rank(CurrentTier)
                   /\ simpler /\ prompt'.tokens = prompt.tokens
                        => Rank(CurrentTier') <= Rank(CurrentTier)
           forced == Forced(prefix, prompt.tokens = 0)
<1>1. ASSUME PromptInv, PromptNext PROVE Pull
  <2>1. /\ flag' = flag /\ prefix' = prefix
        /\ prompt'.tokens > 0
        /\ prompt.tokens <= prompt'.tokens
        /\ prompt.structured => prompt'.structured
        /\ \A k \in Kind : prompt.marks[k] <= prompt'.marks[k]
        /\ simpler => /\ \A k \in Kind \ {"simple"} : prompt'.marks[k] = prompt.marks[k]
                      /\ prompt'.structured = prompt.structured
    BY <1>1, GrowthFacts
  <2>2. prompt \in Prompts /\ prompt' \in Prompts
    BY <1>1, GrowthFacts, ClassifierAssumption DEF PromptInv, PromptTypeOK, Prompts
  <2>3. Classify(prompt) \in Tier /\ Classify(prompt') \in Tier /\ NoTier \notin Tier
    BY <2>2, ClassifyFacts, ClassifierAssumption
  <2>4. Forced(prefix', prompt'.tokens = 0) = prefix.tier
    BY <2>1 DEF Forced
  <2>5. flag \in Tier \union {NoTier} /\ prefix.tier \in Tier \union {NoTier}
    BY <1>1 DEF PromptInv, PromptTypeOK, Prefix
  <2>6. /\ CurrentTier' = IF flag # NoTier THEN flag
                          ELSE IF prefix.tier # NoTier THEN prefix.tier
                          ELSE Classify(prompt')
        /\ CurrentTier = IF flag # NoTier THEN flag
                         ELSE IF forced # NoTier THEN forced
                         ELSE Classify(prompt)
    BY <2>1, <2>3, <2>4 DEF CurrentTier, Effective
  <2>7. CASE flag # NoTier \/ forced # NoTier
    <3>1. forced # NoTier => forced = prefix.tier
      BY DEF Forced
    <3>2. CurrentTier' = CurrentTier /\ CurrentTier \in Tier
      BY <2>5, <2>6, <2>7, <3>1
    <3>3. QED
      BY <3>2, RankType
  <2>8. CASE flag = NoTier /\ forced = NoTier /\ prefix.tier = NoTier
    <3>1. CurrentTier' = Classify(prompt') /\ CurrentTier = Classify(prompt)
      BY <2>6, <2>8
    <3>2. /\ Rank(Classify(prompt)) \in Int /\ Rank(Classify(prompt')) \in Int
          /\ prompt.marks["simple"] \in Nat /\ prompt'.marks["simple"] \in Nat
          /\ prompt.marks["simple"] <= prompt'.marks["simple"]
      BY <2>1, <2>2, <2>3, RankType, KindFacts DEF Prompts
    <3>3. ASSUME ~simpler, ~Large(prompt')
          PROVE  Rank(Classify(prompt)) <= Rank(Classify(prompt'))
      <4>1. prompt.marks["simple"] = prompt'.marks["simple"]
        BY <3>2, <3>3
      <4>2. QED
        BY <2>1, <2>2, <3>3, <4>1, ClassifyRises
    <3>4. ASSUME simpler, prompt'.tokens = prompt.tokens
          PROVE  Rank(Classify(prompt')) <= Rank(Classify(prompt))
      BY <2>1, <2>2, <3>2, <3>4, ClassifyFalls
    <3>5. QED
      BY <3>1, <3>2, <3>3, <3>4
  <2>9. CASE flag = NoTier /\ forced = NoTier /\ prefix.tier # NoTier
    <3>1. prompt.tokens = 0
      BY <2>9 DEF Forced
    <3>2. CurrentTier = "SIMPLE"
      BY <1>1, <2>6, <2>9, <3>1, EmptyIsSimple
    <3>3. CurrentTier' = prefix.tier /\ prefix.tier \in Tier
      BY <2>5, <2>6, <2>9
    <3>4. Rank(CurrentTier) = 1 /\ Rank(CurrentTier') \in 1 .. 4
      BY <3>2, <3>3, RankFacts, RankType
    <3>5. QED
      BY <2>1, <3>1, <3>4
  <2>10. QED
    BY <2>7, <2>8, <2>9
<1>2. PromptInv /\ [PromptNext]_inputs => [Pull]_inputs
  BY <1>1
<1>3. QED
  BY <1>2, PromptInvariant, PTL DEF PromptSpec, KeywordsPull
=============================================================================
