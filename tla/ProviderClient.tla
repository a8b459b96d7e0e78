---------------------------- MODULE ProviderClient ----------------------------
(***************************************************************************)
(* The HTTP client of a provider (omrp-runtime/src/provider.rs): what one  *)
(* exchange comes to, which provider a model id names, and which key the   *)
(* client is built with.  What providers answer is external; the replies   *)
(* below are one of each kind that the code tells apart.                   *)
(***************************************************************************)
EXTENDS Integers, SequencesExt

CONSTANTS
  Builtin,    \* ProviderKind::all(): the known providers, in their priority
  FreeModels, \* per known provider: its free_models(), the first one first
  Named,      \* per model: the provider from_str finds in its id, or NoProvider
  NoProvider, \* no provider
  Env         \* the known providers whose environment variable is set

Known == ToSet(Builtin)

ASSUME ClientAssumption ==
  /\ Builtin \in Seq(Known) /\ Builtin # <<>>
  /\ Env \subseteq Known
  /\ NoProvider \notin Known
  /\ DOMAIN FreeModels = Known
  /\ \A p \in Known : 1 \in DOMAIN FreeModels[p]
  /\ \A p, q \in Known : p # q => Range(FreeModels[p]) \intersect Range(FreeModels[q]) = {}
  /\ \A m \in DOMAIN Named : Named[m] \in Known \union {NoProvider}

(* HTTP statuses with a case of their own, and one of each other kind. *)
Status == {400, 401, 402, 404, 408, 429, 500, 504}

(* What an exchange may yield: no answer at all, an error status, or a     *)
(* success status with a body: not JSON, an inline error (its code is 0    *)
(* when it is no number), no text, or a completion.                        *)
Reply ==
  {[kind |-> "transport"]}
  \union [kind : {"status"}, code : Status]
  \union [kind : {"inline"}, code : Status \union {0}]
  \union [kind : {"unreadable", "empty", "text"}]

(* map_http_error *)
MapHttpError(status) ==
  CASE status = 401          -> "auth"
    [] status = 429          -> "rate_limited"
    [] status = 404          -> "not_found"
    [] status \in {408, 504} -> "timeout"
    [] OTHER                 -> "internal"

(* complete, with parse_success. *)
Complete(reply) ==
  CASE reply.kind = "transport"            -> "network"
    [] reply.kind \in {"status", "inline"} -> MapHttpError(reply.code)
    [] reply.kind = "text"                 -> "ok"
    [] OTHER                               -> "internal"

(* stream_request looks at the status only; the body is passed on. *)
Stream(reply) ==
  CASE reply.kind = "transport" -> "network"
    [] reply.kind = "status"    -> MapHttpError(reply.code)
    [] OTHER                    -> "ok"

(* What an exchange may come to, of either kind. *)
Outcomes(stream) ==
  IF stream THEN {Stream(reply) : reply \in Reply}
  ELSE {Complete(reply) : reply \in Reply}

(* A slip to be caught: every network error is retried. *)
RetriesAgain(outcome, retried) == outcome = "network"

(* complete_with_retry: a network error is retried once, whose outcome is  *)
(* final.                                                                  *)
Retries(outcome, retried) == outcome = "network" /\ ~retried

(* The provider of a model that no config entry lists: from_str of its id, *)
(* otherwise openrouter, the first of all().                               *)
Provider(model) == IF Named[model] = NoProvider THEN Builtin[1] ELSE Named[model]

(* for_provider, from_key_and_provider, from_key_custom: whether a client  *)
(* can be built from a stored key (with a base URL of its own or not), or  *)
(* else from the environment.                                              *)
ClientBuilt(provider, stored, custom) ==
  IF stored THEN custom \/ provider \in Known ELSE provider \in Env
=============================================================================
