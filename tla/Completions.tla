------------------------------ MODULE Completions ------------------------------
(***************************************************************************)
(* POST /v1/chat/completions (proxy_completions in omrp-runtime/src/       *)
(* web_server.rs), from the caller's identity to the answer, with the      *)
(* tables it reads and writes: api_keys, provider_keys and request_logs    *)
(* (db.rs).  While a request runs, administrators and users change those   *)
(* tables; each SQL statement is a step, and work between two statements   *)
(* is joined with one of them.                                             *)
(*                                                                         *)
(* How the keys of accounts come about is module Accounts: here a key may  *)
(* be in any state and change at any time.  The proxy pool is module       *)
(* ProxyPool: here it offers some number of proxies and may run out.       *)
(* Prompts are classified in module Classifier and models ranked in module *)
(* Ranking: here auto-routing picks any registered model, or none, since   *)
(* all of them may be garbage.                                             *)
(***************************************************************************)
EXTENDS ProviderClient

CONSTANTS
  Request,       \* completion requests, each made once
  User,          \* accounts
  Nobody,        \* no account: a request without valid credentials
  Model,         \* model ids
  AnyModel,      \* the entry "*" of allowed_models
  Cut,           \* the model ids whose byte 30 is inside a character
  Hint,          \* the models that callers ask for
  AutoHint,      \* the model hints "auto", "omrp/auto", "omrp/auto-free"
  Configured,    \* the config file: model -> provider
  Registered,    \* the models of the config file and of the ledger
  Grant,         \* permissions an api key may have
  Stored,        \* provider_keys when the server starts, the oldest row first
  Offer,         \* rows that may be added to it
  MAX_ATTEMPTS,  \* MAX_PROXY_ATTEMPTS (12)
  MaxOpen,       \* bound: requests running at the same time
  MaxChanges     \* bound: changes by administrators and users

(* ApiKeyPermissions::default and admin_default; {} allows all models and  *)
(* 0 requests per hour is no limit.                                        *)
Default ==
  [can_use_router |-> TRUE, can_use_proxy_bypass |-> FALSE,
   allowed_models |-> {}, rate_limit_per_hour |-> 0]

AdminDefault == [Default EXCEPT !.can_use_proxy_bypass = TRUE]

Permissions ==
  [can_use_router : BOOLEAN, can_use_proxy_bypass : BOOLEAN,
   allowed_models : SUBSET (Model \union {AnyModel}), rate_limit_per_hour : Nat]

(* The providers with a name: built in, or of the config file. *)
Providers == Known \union {Configured[m] : m \in DOMAIN Configured}

ProviderKeyRow ==
  [user_id : User \union {Nobody}, provider : Providers,
   is_active : BOOLEAN, is_global : BOOLEAN, custom : BOOLEAN]

ASSUME CompletionsAssumption ==
  /\ Nobody \notin User
  /\ AutoHint \notin Model /\ AnyModel \notin Model
  /\ Cut \subseteq Model
  /\ Hint \subseteq Model \union {AutoHint}
  /\ DOMAIN Configured \subseteq Registered
  /\ NoProvider \notin Providers
  /\ Registered \subseteq Model
  /\ DOMAIN Named = Model
  /\ \A p \in Known : Range(FreeModels[p]) \subseteq Model
  /\ Grant \subseteq Permissions
  /\ Stored \in Seq(ProviderKeyRow)
  /\ Offer \subseteq ProviderKeyRow
  /\ MAX_ATTEMPTS \in Nat /\ MaxOpen \in Nat /\ MaxChanges \in Nat

VARIABLES
  key,       \* per account: its api key, [active, perms]
  vault,     \* provider_keys, the oldest row first
  log,       \* request_logs, the oldest line first
  old,       \* how many of those lines are more than an hour old
  proxyLog,  \* the requests that proxy_requests has a line of
  req,       \* per request: its handler's local state, see NewRequest
  changes    \* changes by administrators and users so far

vars == <<key, vault, log, old, proxyLog, req, changes>>

NewRequest ==
  [pc |-> "idle",
   user |-> Nobody,     \* the account of the caller
   via_key |-> FALSE,   \* whether it came with an api key (or a session)
   hint |-> AutoHint,   \* the model asked for
   stream |-> FALSE,    \* "stream": true
   perms |-> Default,   \* caller_perms
   held |-> {},         \* permissions the caller's key had meanwhile
   key_id |-> Nobody,   \* caller_key_id: the account whose key it is
   probe |-> 0,         \* providers looked at for a fallback model
   model |-> AutoHint,  \* routed_model
   provider |-> NoProvider,
   cut |-> FALSE,       \* routed_model cannot be cut at byte 30
   secret |-> 0,        \* row of provider_keys; 0: none
   first |-> 0,         \* first and last attempt of the dispatch loop: the
   last |-> 0,          \* attempt 0 is direct, the others use a proxy
   retried |-> FALSE,   \* the running attempt is the retry
   calls |-> 0,         \* exchanges with the provider
   ok |-> FALSE,        \* the provider answered
   answer |-> 0]        \* status of the response

Init ==
  /\ key \in [User -> [active : BOOLEAN, perms : Grant]]
  /\ vault = Stored
  /\ log = <<>>
  /\ old = 0
  /\ proxyLog = {}
  /\ req = [r \in Request |-> NewRequest]
  /\ changes = 0

-----------------------------------------------------------------------------
(* Statements of db.rs. *)

(* A slip to be caught: the owner of a private key is not looked at. *)
UsableByAll(provider, user) ==
  {i \in DOMAIN vault : vault[i].is_active /\ vault[i].provider = provider}

(* WHERE of resolve_provider_key. *)
Usable(provider, user) ==
  {i \in DOMAIN vault :
     /\ vault[i].is_active
     /\ vault[i].provider = provider
     /\ vault[i].is_global \/ (user # Nobody /\ vault[i].user_id = user)}

(* ORDER BY is_global DESC, created_at ASC LIMIT 1. *)
ResolveProviderKey(provider, user) ==
  LET usable == Usable(provider, user)
      global == {i \in usable : vault[i].is_global}
  IN  IF usable = {} THEN 0
      ELSE Min(IF global # {} THEN global ELSE usable)

(* get_user_api_key finds active keys only. *)
KeyOf(user) == user # Nobody /\ key[user].active

(* The lines of request_logs never name a key: log_request is called with  *)
(* api_key_id None.  The line also remembers the request and its limit.    *)
LogRequest(r, ok) ==
  log' = Append(log, [request |-> r, user_id |-> req[r].user,
                      api_key_id |-> Nobody, success |-> ok,
                      limit |-> req[r].perms.rate_limit_per_hour])

(* requests_last_hour: by key if there is one, otherwise by account. *)
RequestsLastHour(user, api_key) ==
  Cardinality({i \in DOMAIN log :
    /\ i > old
    /\ IF api_key # Nobody THEN log[i].api_key_id = api_key
       ELSE user # Nobody /\ log[i].user_id = user})

(* GET /v1/models, which everybody may ask for: the alias, the configured  *)
(* models, and a known provider's free ones if there is a key for nobody.  *)
Listed ==
  {AutoHint} \union DOMAIN Configured
    \union UNION {Range(FreeModels[p]) :
                    p \in {q \in Known : ResolveProviderKey(q, Nobody) # 0 \/ q \in Env}}

-----------------------------------------------------------------------------
(* Administrators and users. *)

Change ==
  /\ changes < MaxChanges
  /\ changes' = changes + 1
  /\ UNCHANGED <<log, old, proxyLog>>

(* update_api_key_permissions *)
EditKey(u, perms) ==
  /\ Change
  /\ key[u].active /\ key[u].perms # perms
  /\ key' = [key EXCEPT ![u].perms = perms]
  /\ req' = [r \in Request |->
       IF req[r].user = u THEN [req[r] EXCEPT !.held = @ \union {perms}] ELSE req[r]]
  /\ UNCHANGED vault

(* deactivate_api_key *)
RevokeKey(u) ==
  /\ Change
  /\ key[u].active
  /\ key' = [key EXCEPT ![u].active = FALSE]
  /\ UNCHANGED <<vault, req>>

AdminCreateProviderKey(row) ==
  /\ Change
  /\ vault' = Append(vault, row)
  /\ UNCHANGED <<key, req>>

(* A user's own row: never global, whatever the request says. *)
UserCreateProviderKey(u, row) ==
  /\ Change
  /\ vault' = Append(vault, [row EXCEPT !.user_id = u, !.is_global = FALSE])
  /\ UNCHANGED <<key, req>>

Deactivate(i) ==
  /\ vault' = [vault EXCEPT ![i].is_active = FALSE]
  /\ UNCHANGED <<key, req>>

AdminRevokeProviderKey(i) ==
  /\ Change
  /\ i \in DOMAIN vault
  /\ Deactivate(i)

(* Users revoke rows they own, a global one that names them included. *)
UserRevokeProviderKey(u, i) ==
  /\ Change
  /\ i \in DOMAIN vault
  /\ vault[i].user_id = u
  /\ Deactivate(i)

(* An hour goes by without a request. *)
HourPasses ==
  /\ old < Len(log)
  /\ \A r \in Request : req[r].pc \in {"idle", "done"}
  /\ old' = Len(log)
  /\ UNCHANGED <<key, vault, log, proxyLog, req, changes>>

-----------------------------------------------------------------------------
(* The handler up to the dispatch. *)

Set(r, q) == req' = [req EXCEPT ![r] = q]

(* The request is over; what no property asks for is forgotten. *)
Finish(r, status, ok) ==
  Set(r, [req[r] EXCEPT !.pc = "done", !.answer = status, !.ok = ok,
            !.user = Nobody, !.held = {}, !.key_id = Nobody, !.hint = AutoHint, !.probe = 0,
            !.first = 0, !.retried = FALSE, !.calls = 0,
            !.perms = Default, !.via_key = FALSE])

Answer(r, status) == Finish(r, status, FALSE)

At(r, place) ==
  /\ req[r].pc = place
  /\ UNCHANGED <<key, vault, old, changes>>

Quiet == UNCHANGED <<log, proxyLog>>

(* MaybeAuthUser: an active key, a session token, or neither. *)
Arrive(r, user, via_key, hint, stream) ==
  /\ At(r, "idle")
  /\ Quiet
  /\ Cardinality({s \in Request : req[s].pc \notin {"idle", "done"}}) < MaxOpen
  /\ via_key => KeyOf(user)
  /\ Set(r, [NewRequest EXCEPT !.pc = "counting", !.user = user,
               !.via_key = via_key, !.hint = hint, !.stream = stream,
               !.held = IF KeyOf(user) THEN {key[user].perms} ELSE {}])

(* list_all_api_keys: no identity is fine as long as no key is active. *)
CountKeys(r) ==
  /\ At(r, "counting")
  /\ Quiet
  /\ IF req[r].user = Nobody /\ \E u \in User : key[u].active
     THEN Answer(r, 401)
     ELSE Set(r, [req[r] EXCEPT !.pc = "judging"])

(* A slip to be caught: a key that is gone is treated like a session. *)
JudgedOpenly(q) ==
  IF KeyOf(q.user) THEN key[q.user].perms ELSE AdminDefault

(* caller_perms: those of the account's key; without one, a session and an *)
(* open server get everything, a key revoked since gets the default.       *)
Judged(q) ==
  IF KeyOf(q.user) THEN key[q.user].perms
  ELSE IF q.via_key THEN Default
  ELSE AdminDefault

ReadPermissions(r) ==
  /\ At(r, "judging")
  /\ Quiet
  /\ LET perms == Judged(req[r])
     IN  IF perms.can_use_router
         THEN Set(r, [req[r] EXCEPT !.pc = "keying", !.perms = perms])
         ELSE Answer(r, 403)

(* caller_key_id: an account has one key, so the account names it. *)
FindKey(r) ==
  LET q == req[r]
  IN  /\ At(r, "keying")
      /\ Quiet
      /\ Set(r, [q EXCEPT !.pc = "limiting",
                   !.key_id = IF q.via_key \/ KeyOf(q.user) THEN q.user ELSE Nobody])

(* The count of the last hour. *)
CheckLimit(r) ==
  LET q     == req[r]
      limit == q.perms.rate_limit_per_hour
  IN  /\ At(r, "limiting")
      /\ Quiet
      /\ IF limit > 0 /\ RequestsLastHour(q.user, q.key_id) >= limit
         THEN Answer(r, 429)
         ELSE Set(r, [q EXCEPT !.pc = "choosing", !.key_id = Nobody])

(* The body cannot be read, is no JSON or has no messages. *)
BadBody(r) ==
  /\ At(r, "choosing")
  /\ Quiet
  /\ Answer(r, 400)

Allowed(perms, model) ==
  \/ perms.allowed_models = {}
  \/ {model, AnyModel} \intersect perms.allowed_models # {}

(* allowed_models is tested before the provider is looked up. *)
Routed(r, model) ==
  IF Allowed(req[r].perms, model)
  THEN Set(r, [req[r] EXCEPT !.pc = "resolving", !.model = model,
                 !.hint = AutoHint, !.probe = 0])
  ELSE Answer(r, 403)

(* An explicit model, or the router's choice among the registered ones; if *)
(* there is none that is no garbage, the providers are looked through.     *)
Choose(r, model) ==
  /\ At(r, "choosing")
  /\ Quiet
  /\ \/ req[r].hint # AutoHint /\ model = req[r].hint /\ Routed(r, model)
     \/ req[r].hint = AutoHint /\ model \in Registered /\ Routed(r, model)

LookForKey(r) ==
  /\ At(r, "choosing")
  /\ Quiet
  /\ req[r].hint = AutoHint
  /\ Set(r, [req[r] EXCEPT !.pc = "probing"])

(* The fallback: one look at provider_keys for each known provider. *)
Probe(r) ==
  LET i == req[r].probe + 1
  IN  /\ At(r, "probing")
      /\ Quiet
      /\ IF i \notin DOMAIN Builtin THEN Answer(r, 503)
         ELSE IF ResolveProviderKey(Builtin[i], req[r].user) # 0 \/ Builtin[i] \in Env
         THEN Routed(r, FreeModels[Builtin[i]][1])
         ELSE Set(r, [req[r] EXCEPT !.probe = i])

ProviderOf(model) ==
  IF model \in DOMAIN Configured THEN Configured[model] ELSE Provider(model)

Resolve(r) ==
  LET provider == ProviderOf(req[r].model)
  IN  /\ At(r, "resolving")
      /\ Quiet
      /\ Set(r, [req[r] EXCEPT !.pc = "dispatching", !.provider = provider,
                   !.model = AutoHint, !.cut = req[r].model \in Cut,
                   !.secret = ResolveProviderKey(provider, req[r].user)])

-----------------------------------------------------------------------------
(* The blocking task.  Both loops have the same bounds. *)

(* A slip to be caught: the loop has one attempt too many. *)
DispatchLonger(r, proxies) ==
  /\ At(r, "dispatching")
  /\ Quiet
  /\ proxies > 0 => req[r].perms.can_use_proxy_bypass
  /\ Set(r, [req[r] EXCEPT !.pc = "trying",
               !.first = IF proxies > 0 THEN 1 ELSE 0, !.last = proxies + 1])

(* proxies: what the pool offers, if the bypass is permitted, enabled and  *)
(* not found empty by one of the three looks at the pool.                  *)
Dispatch(r, proxies) ==
  /\ At(r, "dispatching")
  /\ Quiet
  /\ proxies > 0 => req[r].perms.can_use_proxy_bypass
  /\ Set(r, [req[r] EXCEPT !.pc = "trying",
               !.first = IF proxies > 0 THEN 1 ELSE 0, !.last = proxies])

Client(q) ==
  ClientBuilt(q.provider, q.secret # 0, q.secret # 0 /\ vault[q.secret].custom)

Bypassing(q) == q.last > 0

(* A plain request without a client returns at once and leaves no line. *)
NoClient(r) ==
  /\ At(r, "trying")
  /\ Quiet
  /\ ~Client(req[r])
  /\ Answer(r, IF req[r].stream THEN 200 ELSE 502)

(* A slip to be caught: a request that fails is logged like one that       *)
(* cannot be made.                                                         *)
GivenUpQuietly(r) ==
  /\ Quiet
  /\ Answer(r, IF req[r].stream THEN 200 ELSE 502)

(* After the loop: the failure of a plain request is logged; a stream, its *)
(* 200 long sent, ends with an error event.                                *)
GivenUp(r) ==
  /\ UNCHANGED proxyLog
  /\ IF req[r].stream THEN UNCHANGED log ELSE LogRequest(r, FALSE)
  /\ Answer(r, IF req[r].stream THEN 200 ELSE 502)

(* No attempt is left, or the pool has run out. *)
GiveUp(r) ==
  /\ At(r, "trying")
  /\ Client(req[r])
  /\ req[r].first > req[r].last \/ Bypassing(req[r])
  /\ GivenUp(r)

(* The console line of an attempt through a proxy cuts the model id at     *)
(* byte 30, for plain requests only; inside a character it panics.         *)
Panics(q) == q.cut /\ ~q.stream /\ Bypassing(q)

(* The task is gone before it logs anything; "Routing task failed". *)
Panic(r) ==
  /\ At(r, "trying")
  /\ Quiet
  /\ Client(req[r])
  /\ req[r].first <= req[r].last
  /\ Panics(req[r])
  /\ Answer(r, 500)

Call(r) ==
  /\ At(r, "trying")
  /\ Quiet
  /\ Client(req[r])
  /\ req[r].first <= req[r].last
  /\ ~Panics(req[r])
  /\ Set(r, [req[r] EXCEPT !.pc = "calling", !.calls = @ + 1])

(* A second after a network error, plain requests only. *)
Retry(r, outcome) ==
  /\ At(r, "calling")
  /\ Quiet
  /\ ~req[r].stream
  /\ Retries(outcome, req[r].retried)
  /\ Set(r, [req[r] EXCEPT !.calls = @ + 1, !.retried = TRUE])

(* The outcome of the attempt is final. *)
Ended(r, outcome) ==
  /\ At(r, "calling")
  /\ req[r].stream \/ ~Retries(outcome, req[r].retried)

(* log_request for a plain request; log_proxy_request for a stream and for *)
(* a plain request that used a proxy.                                      *)
Succeed(r, outcome) ==
  /\ Ended(r, outcome)
  /\ outcome = "ok"
  /\ IF req[r].stream THEN UNCHANGED log ELSE LogRequest(r, TRUE)
  /\ proxyLog' = IF req[r].stream \/ Bypassing(req[r])
                 THEN proxyLog \union {r} ELSE proxyLog
  /\ Finish(r, 200, TRUE)

(* Errors that another proxy would not mend end the loop; of a plain       *)
(* request also a missing model, and any error of no kind of its own from  *)
(* the second attempt on.                                                  *)
Stops(q, outcome) ==
  \/ outcome = "auth"
  \/ ~q.stream /\ outcome = "not_found"
  \/ ~q.stream /\ outcome = "internal" /\ q.first >= 2

Break(r, outcome) ==
  /\ Ended(r, outcome)
  /\ Stops(req[r], outcome)
  /\ GivenUp(r)

(* Every other error: the next attempt, if there is one. *)
TryNext(r, outcome) ==
  /\ Ended(r, outcome)
  /\ Quiet
  /\ outcome # "ok"
  /\ ~Stops(req[r], outcome)
  /\ Set(r, [req[r] EXCEPT !.pc = "trying", !.first = @ + 1,
               !.retried = FALSE])

-----------------------------------------------------------------------------
(* What the handler of a request does once the request is there. *)
Step(r) ==
  \/ CountKeys(r)
  \/ ReadPermissions(r)
  \/ FindKey(r)
  \/ CheckLimit(r)
  \/ BadBody(r)
  \/ \E model \in Model : Choose(r, model)
  \/ LookForKey(r)
  \/ Probe(r)
  \/ Resolve(r)
  \/ \E proxies \in 0 .. MAX_ATTEMPTS : Dispatch(r, proxies)
  \/ NoClient(r)
  \/ GiveUp(r)
  \/ Panic(r)
  \/ Call(r)
  \/ \E outcome \in Outcomes(req[r].stream) :
       \/ Retry(r, outcome)
       \/ Succeed(r, outcome)
       \/ Break(r, outcome)
       \/ TryNext(r, outcome)

Next ==
  \/ \E r \in Request :
       \/ \E hint \in Hint, stream \in BOOLEAN :
            \/ Arrive(r, Nobody, FALSE, hint, stream)
            \/ \E u \in User, via_key \in BOOLEAN : Arrive(r, u, via_key, hint, stream)
       \/ Step(r)
  \/ \E u \in User :
       \/ \E perms \in Grant : EditKey(u, perms)
       \/ RevokeKey(u)
       \/ \E row \in Offer : UserCreateProviderKey(u, row)
       \/ \E i \in DOMAIN vault : UserRevokeProviderKey(u, i)
  \/ \E row \in Offer : AdminCreateProviderKey(row)
  \/ \E i \in DOMAIN vault : AdminRevokeProviderKey(i)
  \/ HourPasses

Spec == Init /\ [][Next]_vars

-----------------------------------------------------------------------------
Place == {"idle", "counting", "judging", "keying", "limiting", "choosing",
          "probing", "resolving", "dispatching", "trying", "calling", "done"}

LogLine ==
  [request : Request, user_id : User \union {Nobody}, api_key_id : {Nobody},
   success : BOOLEAN, limit : Nat]

RequestState ==
  [pc : Place, user : User \union {Nobody}, via_key : BOOLEAN,
   hint : Model \union {AutoHint}, stream : BOOLEAN,
   perms : Permissions, held : SUBSET Permissions, key_id : User \union {Nobody},
   probe : 0 .. Len(Builtin), model : Model \union {AutoHint},
   provider : Providers \union {NoProvider}, cut : BOOLEAN, secret : Nat,
   first : 0 .. MAX_ATTEMPTS + 1, last : 0 .. MAX_ATTEMPTS,
   retried : BOOLEAN, calls : Nat, ok : BOOLEAN,
   answer : {0, 200, 400, 401, 403, 429, 500, 502, 503}]

(* Every part of the system has its type. *)
TypeOK ==
  /\ key \in [User -> [active : BOOLEAN, perms : Grant]]
  /\ vault \in Seq(ProviderKeyRow)
  /\ log \in Seq(LogLine)
  /\ old \in 0 .. Len(log)
  /\ proxyLog \subseteq Request
  /\ changes \in 0 .. MaxChanges
  /\ req \in [Request -> RequestState]
  /\ \A r \in Request : req[r].secret <= Len(vault)

(***************************************************************************)
(* However the key changes under a running request: what it is judged by   *)
(* are permissions its caller's key had since the request arrived, and     *)
(* only a caller whose key is gone is judged without one.  A caller who    *)
(* came with a key never gains the proxy bypass by losing the key.         *)
(***************************************************************************)
OwnPermissions ==
  \A r \in Request :
    LET q == req[r]
    IN  q.pc \notin {"idle", "counting", "judging", "done"} =>
          \/ q.perms \in q.held
          \/ /\ ~KeyOf(q.user)
             /\ q.perms.can_use_proxy_bypass => ~q.via_key

(***************************************************************************)
(* A private key serves its owner only: the row a request was given,       *)
(* whoever has changed the table since, is global or its caller's, and is  *)
(* a key of the provider that is called; and the public list of models     *)
(* shows no free one for which there is a private key only.                *)
(***************************************************************************)
SecretIsShared ==
  /\ \A r \in Request :
       LET q == req[r]
       IN  q.secret # 0 /\ q.pc # "done" =>
             /\ vault[q.secret].provider = q.provider
             /\ vault[q.secret].is_global \/ vault[q.secret].user_id = q.user
  /\ \A p \in Known \ Env :
       Range(FreeModels[p]) \intersect (Listed \ DOMAIN Configured) # {} =>
         \E i \in DOMAIN vault : vault[i].provider = p /\ vault[i].is_active /\ vault[i].is_global

(***************************************************************************)
(* The usage tables agree with the answers: a plain request for which a    *)
(* client could be built leaves exactly one line, which says whether the   *)
(* caller got a completion, unless the task failed; that happens only to a *)
(* model id that cannot be cut, on its way through a proxy, is answered    *)
(* with 500 and leaves no line.  A stream leaves none there; and every     *)
(* completion through a proxy and every stream that began is in the other  *)
(* table.  Requests refused before the dispatch leave no line anywhere.    *)
(***************************************************************************)
LinesOf(r) == {i \in DOMAIN log : log[i].request = r}

AnswersMatchLog ==
  \A r \in Request :
    LET q == req[r]
        dispatched == q.provider # NoProvider /\ Client(q)
    IN  /\ q.pc = "done" =>
             /\ Cardinality(LinesOf(r)) =
                  IF dispatched /\ ~q.stream /\ q.answer # 500 THEN 1 ELSE 0
             /\ q.answer = 500 => dispatched /\ Panics(q)
        /\ q.pc # "done" => LinesOf(r) = {}
        /\ \A i \in LinesOf(r) : log[i].success <=> q.answer = 200
        /\ r \in proxyLog <=> q.ok /\ (q.stream \/ Bypassing(q))

(***************************************************************************)
(* Retries and rotation multiply, but only so far: a stream calls the      *)
(* provider at most once, and a plain request at most twice, for each      *)
(* proxy that was in the pool at the start, or for the one direct attempt. *)
(***************************************************************************)
CallsBounded ==
  \A r \in Request :
    LET q == req[r]
    IN  q.calls <= (IF q.stream THEN 1 ELSE 2) * (IF Bypassing(q) THEN q.last ELSE 1)

-----------------------------------------------------------------------------
(***************************************************************************)
(* db.rs:1239, "Used to enforce `rate_limit_per_hour`": of the requests of *)
(* one account in the last hour, none is served beyond its limit.          *)
(***************************************************************************)
HourlyLimitHolds ==
  \A i \in DOMAIN log :
    log[i].limit > 0 =>
      Cardinality({j \in old + 1 .. i : log[j].user_id = log[i].user_id}) <= log[i].limit
=============================================================================
