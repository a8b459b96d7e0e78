------------------------------ MODULE Classifier ------------------------------
(***************************************************************************)
(* How a prompt gets its tier: detect_mode_override and classify_prompt in *)
(* omrp-core/src/classifier.rs and the precedence between them and --tier  *)
(* in cmd_route (omrp-runtime/src/main.rs; proxy_completions does the same *)
(* without --tier).  A prompt is what the classifier sees of it: how many  *)
(* keywords of each list it contains, how long it is, and whether it asks  *)
(* for structured output.  There is never a system prompt.                 *)
(*                                                                         *)
(* The state is a prompt that is being written, at its end, so keywords    *)
(* are added and never lost.  The length of a prompt is independent of its *)
(* keywords, which only adds cases.  Weights are in 1/100 and scores in    *)
(* 1/10, so sums are whole 1/1000, taken exactly: the f64 of the code may  *)
(* put a sum that is on a boundary on either side of it, but monotonely.   *)
(* Signals are left out.                                                   *)
(***************************************************************************)
EXTENDS Integers, Sequences

CONSTANTS
  Tokens,      \* prompt.len() / 4 + 1: the lengths looked at; 0: no text
  Opening,     \* the words after --tier and the prefixes looked at
  MaxMarkers,  \* bound: keywords in a prompt
  NoTier       \* Option::None

PromptTier == <<"SIMPLE", "MEDIUM", "COMPLEX", "REASONING">>

Tier == {PromptTier[i] : i \in DOMAIN PromptTier}

Rank(tier) == CHOOSE i \in DOMAIN PromptTier : PromptTier[i] = tier

(* How a prompt may begin: with a word of a tier after a slash, in         *)
(* brackets or before "mode:", or with none of these.                      *)
Prefix == [form : {"slash", "bracket", "mode"}, tier : Tier]
            \union {[form |-> "none", tier |-> NoTier]}

(* What may follow --tier: the name of a tier, or anything else. *)
Word == Tier \union {"other"}

ASSUME ClassifierAssumption ==
  /\ 0 \in Tokens /\ Tokens \subseteq Nat
  /\ MaxMarkers \in Nat
  /\ NoTier \notin Tier
  /\ Opening \subseteq (Word \union {NoTier}) \X Prefix

LOCAL Maps == INSTANCE Functions

VARIABLES
  flag,    \* the tier of --tier, or NoTier
  prefix,  \* the prompt's beginning, see Prefix
  prompt   \* the rest: [marks, tokens, structured]

inputs == <<flag, prefix, prompt>>

-----------------------------------------------------------------------------
(* The lists of keywords: what hits from low and from high on score, and   *)
(* the weight.  Steps count as one keyword, questions from the fourth on.  *)
List(weight, low, high, at_low, at_high) ==
  [weight |-> weight, low |-> low, high |-> high, at_low |-> at_low, at_high |-> at_high]

KeywordList ==
  [code       |-> List(12, 1, 2,   5,  10),
   reasoning  |-> List(25, 1, 2,   7,  10),
   technical  |-> List(18, 2, 4,   5,  10),
   creative   |-> List( 5, 1, 2,   5,   7),
   simple     |-> List(10, 1, 2, -10, -10),
   multi_step |-> List(12, 1, 1,   5,   5),
   question   |-> List( 5, 4, 4,   5,   5),
   imperative |-> List( 6, 1, 2,   3,   5),
   constraint |-> List( 4, 1, 3,   3,   7),
   format     |-> List( 3, 1, 2,   4,   7),
   reference  |-> List( 2, 1, 2,   3,   5),
   negation   |-> List( 1, 2, 3,   3,   5),
   domain     |-> List(12, 1, 2,   5,   8)]

(* The kinds of keywords. *)
Kind == DOMAIN KeywordList \union {"agentic"}

(* A slip to be caught: the better score for fewer hits. *)
ScoreKwSwapped(list, hits) ==
  CASE hits >= list.high -> list.at_low
    [] hits \in list.low .. list.high - 1 -> list.at_high
    [] OTHER -> 0

(* score_kw, score_multi_step, score_question_complexity *)
ScoreKw(list, hits) ==
  CASE hits >= list.high -> list.at_high
    [] hits \in list.low .. list.high - 1 -> list.at_low
    [] OTHER -> 0

ScoreAgentic(hits) ==
  CASE hits >= 4      -> 10
    [] hits = 3       -> 6
    [] hits \in 1 .. 2 -> 2
    [] OTHER          -> 0

ScoreTokenCount(tokens) ==
  CASE tokens < 5  -> -10
    [] tokens > 40 -> 10
    [] OTHER       -> 0

(* weighted_score, and what one list adds to it. *)
Part(p, k) == KeywordList[k].weight * ScoreKw(KeywordList[k], p.marks[k])

WeightedScore(p) ==
  Part(p, "code") + Part(p, "reasoning") + Part(p, "technical")
    + Part(p, "creative") + Part(p, "simple") + Part(p, "multi_step")
    + Part(p, "question") + Part(p, "imperative") + Part(p, "constraint")
    + Part(p, "format") + Part(p, "reference") + Part(p, "negation")
    + Part(p, "domain")
    + 4 * ScoreAgentic(p.marks["agentic"]) + 4 * ScoreTokenCount(p.tokens)

B_SIMPLE_MEDIUM     == 0
B_MEDIUM_COMPLEX    == 30
B_COMPLEX_REASONING == 150

Less(x, y) == IF x < y THEN x ELSE y

(* The tier of a score ... *)
TierOfScore(score) ==
  CASE score < B_SIMPLE_MEDIUM                            -> "SIMPLE"
    [] score \in B_SIMPLE_MEDIUM .. B_MEDIUM_COMPLEX - 1  -> "MEDIUM"
    [] score \in B_MEDIUM_COMPLEX .. B_COMPLEX_REASONING - 1 -> "COMPLEX"
    [] score >= B_COMPLEX_REASONING                       -> "REASONING"

(* A slip to be caught: the middle tiers are measured from one side. *)
DistanceBelow(score) ==
  IF score < B_SIMPLE_MEDIUM THEN B_SIMPLE_MEDIUM - score
  ELSE IF score < B_MEDIUM_COMPLEX THEN B_MEDIUM_COMPLEX - score
  ELSE B_COMPLEX_REASONING - score

(* ... and how far it is from the next boundary. *)
Distance(score) ==
  CASE TierOfScore(score) = "SIMPLE"    -> B_SIMPLE_MEDIUM - score
    [] TierOfScore(score) = "MEDIUM"    -> Less(score - B_SIMPLE_MEDIUM, B_MEDIUM_COMPLEX - score)
    [] TierOfScore(score) = "COMPLEX"   -> Less(score - B_MEDIUM_COMPLEX, B_COMPLEX_REASONING - score)
    [] TierOfScore(score) = "REASONING" -> score - B_COMPLEX_REASONING

(* sigmoid(dist) >= CONFIDENCE_THRESHOLD; sigmoid is 0.5 at 0. *)
Confident(score) == Distance(score) >= 0

(* More than 25,000 tokens, counted without the one added to tokens. *)
Large(p) == p.tokens - 1 > 25000

(* classify_prompt *)
Classify(p) ==
  LET score == WeightedScore(p)
  IN  CASE Large(p) -> "COMPLEX"
        [] ~Large(p) /\ p.marks["reasoning"] >= 2 -> "REASONING"
        [] ~Large(p) /\ p.marks["reasoning"] < 2 ->
             IF ~Confident(score) THEN NoTier
             ELSE IF p.structured /\ TierOfScore(score) = "SIMPLE" THEN "MEDIUM"
             ELSE TierOfScore(score)

-----------------------------------------------------------------------------
(* detect_mode_override: a slash alone with its word overrides nothing. *)
Forced(pre, empty) == IF pre.form = "slash" /\ empty THEN NoTier ELSE pre.tier

(* The tier of cmd_route: the flag, the prefix, the classifier, MEDIUM. *)
Effective(f, pre, p) ==
  LET forced == Forced(pre, p.tokens = 0)
  IN  IF f # NoTier THEN f
      ELSE IF forced # NoTier THEN forced
      ELSE IF Classify(p) # NoTier THEN Classify(p)
      ELSE "MEDIUM"

-----------------------------------------------------------------------------
(* tier_from_str: everything else is MEDIUM. *)
TierFromStr(word) == IF word \in Tier THEN word ELSE "MEDIUM"

(* parse_route_args: --tier, if there is one, and the prompt. *)
PromptInit ==
  /\ \E opening \in Opening :
       /\ flag = IF opening[1] = NoTier THEN NoTier ELSE TierFromStr(opening[1])
       /\ prefix = opening[2]
  /\ prompt = [marks |-> [k \in Kind |-> 0], tokens |-> 0, structured |-> FALSE]

Longer(n) == n > 0 /\ n >= prompt.tokens

(* Text without keywords is added. *)
Write(n) ==
  /\ Longer(n)
  /\ prompt' = [prompt EXCEPT !.tokens = n]
  /\ UNCHANGED <<flag, prefix>>

(* The number of keywords in the prompt. *)
Markers == Maps!FoldFunction(LAMBDA x, y : x + y, 0, prompt.marks)

(* A slip to be caught: a keyword of any list asks for structured output.   *)
MarkStructured(kind, n, structured) ==
  /\ Longer(n)
  /\ prompt' = [marks |-> [prompt.marks EXCEPT ![kind] = @ + 1],
                tokens |-> n, structured |-> TRUE]
  /\ UNCHANGED <<flag, prefix>>

(* A keyword is added; "json", "schema" and "structured" are of the list   *)
(* of formats.                                                             *)
Mark(kind, n, structured) ==
  /\ Longer(n)
  /\ structured => kind = "format"
  /\ prompt' = [marks |-> [prompt.marks EXCEPT ![kind] = @ + 1],
                tokens |-> n, structured |-> prompt.structured \/ structured]
  /\ UNCHANGED <<flag, prefix>>

PromptNext ==
  \/ \E n \in Tokens : Write(n)
  \/ /\ Markers < MaxMarkers
     /\ \E n \in Tokens, kind \in Kind, structured \in BOOLEAN : Mark(kind, n, structured)

PromptSpec == PromptInit /\ [][PromptNext]_inputs

CurrentTier == Effective(flag, prefix, prompt)

-----------------------------------------------------------------------------
(* Every part of the system has its type. *)
PromptTypeOK ==
  /\ flag \in Tier \union {NoTier}
  /\ prefix \in Prefix
  /\ prompt \in [marks : [Kind -> Nat], tokens : Tokens, structured : BOOLEAN]
  /\ prompt.structured => prompt.marks["format"] > 0

(***************************************************************************)
(* Every keyword pulls its own way, whatever else the prompt contains and  *)
(* however the tier is found: what is added to a prompt, one of the simple *)
(* keywords apart, never lowers its tier, as long as the prompt stays      *)
(* below the size that is COMPLEX whatever it says; and a simple keyword   *)
(* alone never raises it.  (Several rules meet here: fifteen scores, the   *)
(* two that override them, the upgrade of structured output, the prefix.)  *)
(***************************************************************************)
KeywordsPull ==
  [][LET simpler == prompt'.marks["simple"] > prompt.marks["simple"]
     IN  /\ ~simpler /\ ~Large(prompt') => Rank(CurrentTier') >= Rank(CurrentTier)
         /\ simpler /\ prompt'.tokens = prompt.tokens
              => Rank(CurrentTier') <= Rank(CurrentTier)]_inputs

(***************************************************************************)
(* The classifier always decides: no score is so close to a boundary that  *)
(* the confidence falls below CONFIDENCE_THRESHOLD.  So the defaults for a *)
(* prompt without a tier (MEDIUM in main.rs:188, the setting               *)
(* routing.default_tier in db.rs:331) are never used.                      *)
(***************************************************************************)
AlwaysDecided == Classify(prompt) # NoTier
=============================================================================
