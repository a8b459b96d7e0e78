---------------------------- MODULE MCCompletions ----------------------------
(* Three known providers: openrouter, whose models name no provider, groq,  *)
(* whose models do, and one like kilo, whose free model names none either.  *)
EXTENDS Completions

CONSTANTS ua, openrouter, groq, kilo, own, mr, mg, mf, mk, mo

MCBuiltin == <<openrouter, groq, kilo>>
MCFreeModels == [p \in {openrouter, groq, kilo} |->
  CASE p = openrouter -> <<mr>> [] p = groq -> <<mg, mf>> [] p = kilo -> <<mk>>]
MCNamed == [m \in Model |-> IF m \in {mg, mf} THEN groq ELSE NoProvider]

(* An empty config file, and one that lists a model of a provider that is   *)
(* not built in.                                                            *)
NothingConfigured == [m \in {} |-> own]
OneConfigured == [m \in {mo} |-> own]

(* One restricted key: one request per hour by proxy, to one model or to    *)
(* any.                                                                     *)
Limited(models) ==
  [can_use_router |-> TRUE, can_use_proxy_bypass |-> TRUE,
   allowed_models |-> models, rate_limit_per_hour |-> 1]

MCGrant == {Default, Limited({mg})}
AnyGrant == {Default, Limited({AnyModel})}

Row(p, user, global) ==
  [user_id |-> user, provider |-> p, is_active |-> TRUE,
   is_global |-> global, custom |-> FALSE]

(* Which request comes first does not matter. *)
Symmetry == Permutations(Request)

(* A private key comes before a global one of another provider. *)
MCStored == <<Row(groq, ua, FALSE), Row(kilo, Nobody, TRUE)>>
MCOffer == {Row(groq, Nobody, TRUE)}
=============================================================================
