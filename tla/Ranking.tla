------------------------------- MODULE Ranking -------------------------------
(***************************************************************************)
(* The deterministic ranking of models: Scorer::score in omrp-core/src/    *)
(* scorer.rs, with the Beta posterior of HealthStatus in state.rs, and     *)
(* RouterEngine::select in router.rs.  The numbers of the code are f64;    *)
(* here a score is a whole number of 1/100000, rounded, and two models     *)
(* whose scores are closer than rounding can tell may come in either       *)
(* order, as do equal ones (whose order the code takes from their ids).    *)
(***************************************************************************)
EXTENDS Reducers, SequencesExt

(* What rounding below may add up to. *)
Slack == 12

AtLeast0(x) == IF x > 0 THEN x ELSE 0

(* The square root of x < 2^30, rounded down: bit after bit. *)
Root(x) ==
  FoldLeft(LAMBDA r, bit : IF (r + bit) * (r + bit) <= x THEN r + bit ELSE r,
                0, [i \in 1 .. 15 |-> 2 ^ (15 - i)])

-----------------------------------------------------------------------------
(* The factors, each times its weight. *)

(* health, weight 0.35: 0, 0.5 (no success so far) or 1. *)
HealthFactor(h) ==
  CASE h.garbage              -> 0
    [] h.last_success = EPOCH -> 17500
    [] OTHER                  -> 35000

(* latency, weight 0.20: 0.5 without data, otherwise 1 at 500 ms and 0 at  *)
(* 10 s.  There is no upper limit to it, and the average starts from 0.    *)
LatencyFactor(average) ==
  IF average = 0 THEN 10000 ELSE AtLeast0((40 * (10000 - average)) \div 19)

(* A slip to be caught: weighted like the other posterior factor. *)
CompetenceFactorLight(h) ==
  (10000 * (h.success_count + 1)) \div (TotalObs(h) + 2)

(* success_rate, weight 0.25: bayesian_competence, the posterior mean. *)
CompetenceFactor(h) ==
  (25000 * (h.success_count + 1)) \div (TotalObs(h) + 2)

(* beta_variance().sqrt() in 1/10000; it is always less than 0.5. *)
StdDev(h) ==
  LET a == h.success_count + 1
      b == h.failure_count + 1
      n == a + b
  IN  Root(((a * b * 1000000) \div (n + 1)) * 100) \div n

(* stability, weight 0.10: 1 - sd / 0.5. *)
StabilityFactor(h) == 10000 - 2 * StdDev(h)

(* load, weight 0.10; max is max_inflight_per_model. *)
LoadFactor(inflight, max) ==
  IF max = 0 THEN 0 ELSE AtLeast0((10000 * (max - inflight)) \div max)

(* capability_match: the bonus for the task.  Nothing that asks for a      *)
(* ranking requires vision, tools or a context window.                     *)
CapabilityMatch(suited) == IF suited THEN 15000 ELSE 0

(* What the record of a model is worth. *)
Merit(h, average) ==
  HealthFactor(h) + LatencyFactor(average) + CompetenceFactor(h) + StabilityFactor(h)

(* windowed_avg over 20 completions. *)
WindowedAvg(current, new) == (19 * current + new) \div 20

-----------------------------------------------------------------------------
(* A slip to be caught: garbage models are not filtered out. *)
AllCandidates(s, among) == s.models \intersect among

(* The models RouterEngine::select ranks, of a set. *)
Candidates(s, among) ==
  {m \in s.models \intersect among :
     m \notin DOMAIN s.health \/ ~s.health[m].garbage}

HealthOf(s, m) == IF m \in DOMAIN s.health THEN s.health[m] ELSE NewHealth

InflightOf(s, m) == IF m \in DOMAIN s.inflight THEN s.inflight[m] ELSE 0

Score(s, average, m, suited, max) ==
  Merit(HealthOf(s, m), average[m])
    + LoadFactor(InflightOf(s, m), max) + CapabilityMatch(m \in suited)

(* fallback_chain of a decision: the models of a set, the best score first. *)
Rankings(s, average, models, suited, max) ==
  LET score == [m \in models |-> Score(s, average, m, suited, max)]
  IN  {order \in SetToSeqs(models) :
         \A i, j \in DOMAIN order :
           i < j => score[order[j]] <= score[order[i]] + Slack}

(* select_for_tier: all models if the tier has no candidate. *)
TierCandidates(s, tier) ==
  IF Candidates(s, tier) # {} THEN Candidates(s, tier)
  ELSE Candidates(s, s.models)
=============================================================================
