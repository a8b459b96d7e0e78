-------------------------- MODULE CompletionsProofs --------------------------
(***************************************************************************)
(* What the completion handler guarantees, for any number of requests,     *)
(* accounts, models, providers and proxies, proved from one inductive      *)
(* invariant, CInv.  Its parts are per request: ControlInv (where a        *)
(* request may be with which loop counters), CallsInv (what the attempts   *)
(* so far cost), PermsInv and SecretInv (what the running request keeps    *)
(* while the tables change under it) and LogInv (the lines it has left).   *)
(***************************************************************************)
EXTENDS Completions, FiniteSetTheorems, SequenceTheorems, WellFoundedInduction, TLAPS

(* Every model has a provider: of the config file, of its id, or the       *)
(* first.                                                                  *)
LEMMA ProviderFacts ==
  /\ Builtin[1] \in Known
  /\ \A i \in DOMAIN Builtin : Builtin[i] \in Known
  /\ \A m \in Model : ProviderOf(m) \in Providers
<1>1. 1 \in DOMAIN Builtin /\ \A i \in DOMAIN Builtin : Builtin[i] \in Known
  BY ClientAssumption
<1>2. ASSUME NEW m \in Model PROVE Provider(m) \in Known
  BY <1>1, ClientAssumption, CompletionsAssumption DEF Provider
<1>3. \A m \in Model : ProviderOf(m) \in Providers
  BY <1>2 DEF ProviderOf, Providers
<1>4. QED
  BY <1>1, <1>3

(* The two built-in sets of permissions; the default has no bypass.        *)
LEMMA PermissionFacts ==
  /\ Default \in Permissions /\ AdminDefault \in Permissions
  /\ ~Default.can_use_proxy_bypass
BY DEF Default, AdminDefault, Permissions

(* A set of positions has a smallest one (ORDER BY ... LIMIT 1 finds a     *)
(* row). Of the intervals 1 .. x the smallest by inclusion ends in it.     *)
LEMMA SmallestElement ==
  ASSUME NEW n \in Nat, NEW T \in SUBSET (1 .. n), T # {}
  PROVE  Min(T) \in T
<1> DEFINE Down == {1 .. x : x \in T}
           R    == StrictSubsetOrdering(1 .. n)
           F    == FiniteSubsetsOf(1 .. n)
<1>1. IsWellFoundedOn(R, F)
  BY FS_StrictSubsetOrderingWellFounded
<1>2. Down \subseteq F
  <2>1. \A x \in T : 1 .. x \subseteq 1 .. n /\ IsFiniteSet(1 .. x)
    BY FS_Interval
  <2>2. QED
    BY <2>1 DEF FiniteSubsetsOf
<1>3. PICK A \in Down : \A B \in Down : <<B, A>> \notin R
  <2>1. Down # {}
    OBVIOUS
  <2>2. QED
    BY <1>1, <1>2, <2>1, WFMin, Zenon
<1>4. PICK x \in T : A = 1 .. x
  OBVIOUS
<1>5. ASSUME NEW y \in T, ~(x <= y) PROVE FALSE
  <2>1. 1 .. y \subseteq 1 .. x /\ 1 .. y # 1 .. x /\ 1 .. x \subseteq 1 .. n
    BY <1>5
  <2>2. <<1 .. y, 1 .. x>> \in R
    BY <2>1 DEF StrictSubsetOrdering
  <2>3. QED
    BY <1>3, <1>4, <2>2
<1>6. \E z \in T : \A y \in T : z <= y
  BY <1>5
<1>7. QED
  BY <1>6 DEF Min

(* resolve_provider_key returns 0 or a row that fits; nobody gets a global *)
(* one.                                                                    *)
LEMMA ResolveFacts ==
  ASSUME vault \in Seq(ProviderKeyRow), NEW provider, NEW user
  PROVE  LET i == ResolveProviderKey(provider, user)
         IN  /\ i \in 0 .. Len(vault)
             /\ i # 0 => i \in Usable(provider, user)
             /\ user = Nobody /\ i # 0 => vault[i].is_global
<1> DEFINE usable == Usable(provider, user)
           global == {i \in usable : vault[i].is_global}
           best   == IF global # {} THEN global ELSE usable
<1>1. Len(vault) \in Nat /\ DOMAIN vault = 1 .. Len(vault)
  OBVIOUS
<1>2. usable \in SUBSET (1 .. Len(vault)) /\ best \in SUBSET usable
      /\ (usable # {} => best # {})
  BY <1>1 DEF Usable
<1>3. user = Nobody => \A i \in usable : vault[i].is_global
  BY DEF Usable
<1>4. ResolveProviderKey(provider, user) = IF usable = {} THEN 0 ELSE Min(best)
  BY DEF ResolveProviderKey
<1> HIDE DEF usable, best
<1>5. usable # {} => Min(best) \in best
  <2>1. best \in SUBSET (1 .. Len(vault))
    BY <1>2
  <2>2. QED
    BY <1>1, <1>2, <2>1, SmallestElement
<1>6. QED
  BY <1>1, <1>2, <1>3, <1>4, <1>5 DEF usable

(* Before a provider is resolved. *)
Early ==
  {"idle", "counting", "judging", "keying", "limiting", "choosing", "probing", "resolving"}

(* The first attempt: 1 through proxies, 0 for the one direct call. *)
Base(q) == IF q.last > 0 THEN 1 ELSE 0

(* Calls of one attempt: a plain call may be repeated. *)
Factor(q) == IF q.stream THEN 1 ELSE 2

(* The loop runs from Base to last; a provider is known from Resolve on.   *)
ControlInv(q) ==
  /\ q.pc \in Early \union {"dispatching"} =>
       q.first = 0 /\ q.last = 0 /\ q.calls = 0 /\ ~q.retried
  /\ q.pc \in Early => q.provider = NoProvider /\ q.secret = 0
  /\ q.pc \in {"dispatching", "trying", "calling"} => q.provider # NoProvider
  /\ q.pc = "resolving" => q.model \in Model
  /\ q.pc = "trying" => ~q.retried /\ q.first \in Base(q) .. q.last + 1
  /\ q.pc = "calling" => /\ Client(q)
                         /\ q.first \in Base(q) .. q.last
                         /\ q.stream => ~q.retried
  /\ q.pc \in {"idle", "done"} => q.user = Nobody

(* Every attempt that is over made as many calls as it may. *)
CallsInv(q) ==
  /\ q.pc = "trying" => q.calls <= Factor(q) * (q.first - Base(q))
  /\ q.pc = "calling" => q.calls <= (Factor(q) * (q.first - Base(q)))
                                      + (IF q.retried THEN 2 ELSE 1)
  /\ q.pc = "done" => q.calls = 0

(* The key's present permissions are among those held; what judges the     *)
(* request is one of them, or a default that gives no bypass for a key.    *)
PermsInv(q) ==
  /\ q.pc \notin {"idle", "done"} /\ KeyOf(q.user) => key[q.user].perms \in q.held
  /\ q.pc \notin {"idle", "counting", "judging", "done"} =>
       \/ q.perms \in q.held
       \/ /\ ~KeyOf(q.user)
          /\ q.perms.can_use_proxy_bypass => ~q.via_key

(* The provider key chosen is of the chosen provider, and shared or the    *)
(* caller's own.                                                           *)
SecretInv(q) ==
  q.secret # 0 /\ q.pc # "done" =>
    /\ vault[q.secret].provider = q.provider
    /\ vault[q.secret].is_global \/ vault[q.secret].user_id = q.user

(* A plain request that gets as far as a client is logged.                 *)
Logs(q) == q.provider # NoProvider /\ Client(q) /\ ~q.stream

(* Lines appear with the answer, in request_logs and in proxy_requests; a  *)
(* request whose task failed leaves none.                                  *)
LogInv(r) ==
  LET q == req[r]
  IN  /\ q.pc # "done" => LinesOf(r) = {} /\ r \notin proxyLog /\ ~q.ok
      /\ q.pc = "done" =>
           /\ q.answer = 500 => Logs(q) /\ Panics(q)
           /\ IF Logs(q) /\ q.answer # 500
              THEN \E i \in DOMAIN log :
                     LinesOf(r) = {i} /\ (log[i].success <=> q.answer = 200)
              ELSE LinesOf(r) = {}
           /\ r \in proxyLog <=> q.ok /\ (q.stream \/ Bypassing(q))

(* What is known of one request. *)
RequestInv(r) ==
  /\ ControlInv(req[r])
  /\ CallsInv(req[r])
  /\ PermsInv(req[r])
  /\ SecretInv(req[r])
  /\ LogInv(r)

CInv == TypeOK /\ \A r \in Request : RequestInv(r)

-----------------------------------------------------------------------------
(* The state of a request as the function it is: record sets are taken     *)
(* apart here and nowhere else.                                            *)
Fields ==
  {"pc", "user", "via_key", "hint", "stream", "perms", "held", "key_id", "probe",
   "model", "provider", "cut", "secret", "first", "last", "retried", "calls", "ok", "answer"}

Fits(q) ==
  /\ q = [x \in Fields |-> q[x]]
  /\ q.pc \in Place /\ q.user \in User \union {Nobody} /\ q.via_key \in BOOLEAN
  /\ q.hint \in Model \union {AutoHint} /\ q.stream \in BOOLEAN
  /\ q.perms \in Permissions /\ q.held \in SUBSET Permissions
  /\ q.key_id \in User \union {Nobody} /\ q.cut \in BOOLEAN
  /\ q.probe \in 0 .. Len(Builtin) /\ q.model \in Model \union {AutoHint}
  /\ q.provider \in Providers \union {NoProvider} /\ q.secret \in Nat
  /\ q.first \in 0 .. MAX_ATTEMPTS + 1 /\ q.last \in 0 .. MAX_ATTEMPTS
  /\ q.retried \in BOOLEAN /\ q.calls \in Nat /\ q.ok \in BOOLEAN
  /\ q.answer \in {0, 200, 400, 401, 403, 429, 500, 502, 503}

(* The two ways to say that a request has its type.                        *)
LEMMA FitsIsType == \A q : Fits(q) <=> q \in RequestState
<1>1. ASSUME NEW q, Fits(q) PROVE q \in RequestState
  BY <1>1 DEF Fields, RequestState, Fits
<1>2. ASSUME NEW q \in RequestState PROVE Fits(q)
  <2>1. q = [x \in Fields |-> q[x]]
    BY DEF RequestState, Fields
  <2>2. QED
    BY <2>1 DEF RequestState, Fits
<1>3. QED
  BY <1>1, <1>2

(* Setting the state of a request. *)
LEMMA SetFacts ==
  ASSUME TypeOK, NEW r \in Request, NEW q, Fits(q), Set(r, q)
  PROVE  /\ req'[r] = q
         /\ req' \in [Request -> RequestState]
         /\ \A s \in Request \ {r} : req'[s] = req[s]
BY FitsIsType DEF TypeOK, Set

(* A new request has its type.                                             *)
LEMMA NewFits == Fits(NewRequest)
<1>1. NewRequest = [x \in Fields |-> NewRequest[x]]
  BY DEF NewRequest, Fields
<1>2. 0 \in 0 .. MAX_ATTEMPTS + 1 /\ 0 \in 0 .. MAX_ATTEMPTS /\ 0 \in 0 .. Len(Builtin)
  BY CompletionsAssumption, ClientAssumption
<1>3. QED
  BY <1>1, <1>2, PermissionFacts DEF NewRequest, Fits, Place

(* What the end of a request leaves of its state.                          *)
LEMMA FinishFacts ==
  ASSUME TypeOK, NEW r \in Request, NEW ok \in BOOLEAN,
         NEW status \in {200, 400, 401, 403, 429, 500, 502, 503}, Finish(r, status, ok)
  PROVE  /\ req' \in [Request -> RequestState]
         /\ \A s \in Request \ {r} : req'[s] = req[s]
         /\ req'[r].pc = "done" /\ req'[r].answer = status /\ req'[r].ok = ok
         /\ req'[r].user = Nobody /\ req'[r].calls = 0
         /\ req'[r].provider = req[r].provider /\ req'[r].secret = req[r].secret
         /\ req'[r].stream = req[r].stream /\ req'[r].last = req[r].last
         /\ req'[r].cut = req[r].cut
<1> DEFINE q == [req[r] EXCEPT !.pc = "done", !.answer = status, !.ok = ok,
            !.user = Nobody, !.held = {}, !.key_id = Nobody, !.hint = AutoHint, !.probe = 0,
            !.first = 0, !.retried = FALSE, !.calls = 0,
            !.perms = Default, !.via_key = FALSE]
<1>1. Fits(req[r]) /\ DOMAIN req[r] = Fields
  BY FitsIsType DEF TypeOK, Fits
<1>2. /\ q.pc = "done" /\ q.answer = status /\ q.ok = ok /\ q.user = Nobody
      /\ q.calls = 0 /\ q.provider = req[r].provider /\ q.secret = req[r].secret
      /\ q.stream = req[r].stream /\ q.last = req[r].last
      /\ q.held = {} /\ q.hint = AutoHint /\ q.probe = 0 /\ q.first = 0
      /\ q.retried \in BOOLEAN /\ q.perms = Default /\ q.via_key \in BOOLEAN
      /\ q.model = req[r].model /\ q.cut = req[r].cut /\ q.key_id = Nobody
  BY <1>1 DEF Fields
<1>3. q = [x \in Fields |-> q[x]]
  BY <1>1
<1>4. Set(r, q)
  BY DEF Finish
<1> HIDE DEF q
<1>5. Fits(q)
  <2>1. 0 \in 0 .. MAX_ATTEMPTS + 1 /\ 0 \in 0 .. Len(Builtin)
    BY CompletionsAssumption, ClientAssumption
  <2>2. QED
    BY <1>1, <1>2, <1>3, <2>1, PermissionFacts DEF Fits, Place
<1>6. QED
  BY <1>2, <1>4, <1>5, SetFacts

(* A request is as good as before when only another one moves. *)
LEMMA OtherStep ==
  ASSUME CInv, NEW s \in Request, req'[s] = req[s], UNCHANGED <<key, vault>>,
         NEW r \in Request \ {s},
         \/ log' = log
         \/ \E line \in LogLine : line.request = r /\ log' = Append(log, line),
         proxyLog' \in {proxyLog, proxyLog \union {r}}
  PROVE  RequestInv(s)'
<1>1. RequestInv(s) /\ log \in Seq(LogLine)
  BY DEF CInv, TypeOK
<1>2. LinesOf(s)' = LinesOf(s) /\ \A i \in LinesOf(s) : log'[i] = log[i] /\ i \in DOMAIN log'
  BY <1>1 DEF LinesOf
<1>3. s \in proxyLog' <=> s \in proxyLog
  OBVIOUS
<1>4. Client(req[s])' = Client(req[s])
  BY DEF Client
<1>5. LogInv(s)'
  BY <1>1, <1>2, <1>3, <1>4 DEF RequestInv, LogInv, Logs, Bypassing, LinesOf
<1>6. ControlInv(req[s])' /\ CallsInv(req[s])'
  BY <1>1, <1>4 DEF RequestInv, ControlInv, CallsInv, Base, Factor
<1>7. PermsInv(req[s])' /\ SecretInv(req[s])'
  BY <1>1 DEF RequestInv, PermsInv, SecretInv, KeyOf
<1>8. QED
  BY <1>5, <1>6, <1>7 DEF RequestInv

(* A step of the handler that does not end the request. *)
LEMMA MoveStep ==
  ASSUME CInv, NEW r \in Request, NEW q, Set(r, q), Fits(q), Quiet,
         UNCHANGED <<key, vault, old, changes>>,
         req[r].pc # "done", q.pc # "done", ~q.ok, q.secret <= Len(vault),
         ControlInv(q), CallsInv(q), PermsInv(q), SecretInv(q)
  PROVE  CInv'
<1>1. UNCHANGED <<log, proxyLog>>
  BY DEF Quiet
<1>2. /\ req'[r] = q /\ req' \in [Request -> RequestState]
      /\ \A s \in Request \ {r} : req'[s] = req[s]
  BY SetFacts DEF CInv
<1>3. LogInv(r)'
  <2>1. LogInv(r)
    BY DEF CInv, RequestInv
  <2>2. LinesOf(r) = {} /\ r \notin proxyLog
    BY <2>1 DEF LogInv
  <2>3. LinesOf(r)' = LinesOf(r)
    BY <1>1 DEF LinesOf
  <2>4. QED
    BY <1>1, <1>2, <2>2, <2>3 DEF LogInv
<1>4. /\ ControlInv(req[r])' /\ CallsInv(req[r])'
      /\ PermsInv(req[r])' /\ SecretInv(req[r])'
  <2>1. Client(q)' = Client(q) /\ KeyOf(q.user)' = KeyOf(q.user)
    BY DEF Client, KeyOf
  <2>2. QED
    BY <1>2, <2>1
       DEF ControlInv, CallsInv, PermsInv, SecretInv, Base, Factor, Client
<1>5. \A s \in Request \ {r} : RequestInv(s)'
  BY <1>1, <1>2, OtherStep
<1>6. TypeOK'
  BY <1>1, <1>2 DEF CInv, TypeOK
<1>7. QED
  BY <1>3, <1>4, <1>5, <1>6 DEF CInv, RequestInv

(* A step that ends the request. *)
LEMMA FinishStep ==
  ASSUME CInv, NEW r \in Request, NEW ok \in BOOLEAN,
         NEW status \in {200, 400, 401, 403, 429, 500, 502, 503}, Finish(r, status, ok),
         UNCHANGED <<key, vault, old, changes>>, req[r].pc # "done",
         status = 500 => Logs(req[r]) /\ Panics(req[r]),
         Logs(req[r]) /\ status # 500 =>
           \E line \in LogLine : /\ line.request = r
                                 /\ line.success <=> status = 200
                                 /\ log' = Append(log, line),
         ~(Logs(req[r]) /\ status # 500) => log' = log,
         ok /\ (req[r].stream \/ Bypassing(req[r])) => proxyLog' = proxyLog \union {r},
         ~(ok /\ (req[r].stream \/ Bypassing(req[r]))) => proxyLog' = proxyLog
  PROVE  CInv'
<1>1. /\ req' \in [Request -> RequestState]
      /\ \A s \in Request \ {r} : req'[s] = req[s]
      /\ req'[r].pc = "done" /\ req'[r].answer = status /\ req'[r].ok = ok
      /\ req'[r].user = Nobody /\ req'[r].calls = 0
      /\ req'[r].provider = req[r].provider /\ req'[r].secret = req[r].secret
      /\ req'[r].stream = req[r].stream /\ req'[r].last = req[r].last
      /\ req'[r].cut = req[r].cut
  BY FinishFacts DEF CInv
<1>2. log \in Seq(LogLine) /\ LinesOf(r) = {} /\ r \notin proxyLog
  BY DEF CInv, TypeOK, RequestInv, LogInv
<1>3. /\ Logs(req[r])' = Logs(req[r]) /\ Bypassing(req[r])' = Bypassing(req[r])
      /\ Panics(req[r])' = Panics(req[r])
  BY <1>1 DEF Logs, Client, Bypassing, Panics
<1>4. IF Logs(req[r]) /\ status # 500
      THEN \E i \in DOMAIN log' :
             LinesOf(r)' = {i} /\ (log'[i].success <=> status = 200)
      ELSE LinesOf(r)' = {}
  <2>1. CASE Logs(req[r]) /\ status # 500
    <3>1. PICK line \in LogLine : /\ line.request = r
                                  /\ line.success <=> status = 200
                                  /\ log' = Append(log, line)
      BY <2>1
    <3>2. /\ DOMAIN log' = 1 .. Len(log) + 1 /\ Len(log) \in Nat
          /\ log'[Len(log) + 1] = line
          /\ \A i \in DOMAIN log : log'[i] = log[i] /\ log[i].request # r
      BY <1>2, <3>1 DEF LinesOf
    <3>3. LinesOf(r)' = {Len(log) + 1}
      BY <1>2, <3>1, <3>2 DEF LinesOf
    <3>4. QED
      BY <2>1, <3>1, <3>2, <3>3
  <2>2. CASE ~(Logs(req[r]) /\ status # 500)
    BY <1>2, <2>2 DEF LinesOf
  <2>3. QED
    BY <2>1, <2>2
<1>5. LogInv(r)'
  BY <1>1, <1>2, <1>3, <1>4 DEF LogInv
<1>6. /\ ControlInv(req[r])' /\ CallsInv(req[r])'
      /\ PermsInv(req[r])' /\ SecretInv(req[r])'
  BY <1>1 DEF ControlInv, CallsInv, PermsInv, SecretInv, Early
<1>7. \A s \in Request \ {r} : RequestInv(s)'
  <2>1. \/ log' = log
        \/ \E line \in LogLine : line.request = r /\ log' = Append(log, line)
    OBVIOUS
  <2>2. QED
    BY <1>1, <2>1, OtherStep
<1>8. TypeOK'
  <2>1. log' \in Seq(LogLine) /\ Len(log') >= Len(log) /\ Len(log) \in Nat
    BY <1>2
  <2>2. proxyLog' \subseteq Request /\ Len(log') \in Nat
    BY <2>1 DEF CInv, TypeOK
  <2>3. old' \in 0 .. Len(log')
    BY <2>1, <2>2 DEF CInv, TypeOK
  <2>4. \A s \in Request : req'[s].secret <= Len(vault)
    BY <1>1 DEF CInv, TypeOK
  <2>5. QED
    BY <1>1, <2>1, <2>2, <2>3, <2>4 DEF CInv, TypeOK
<1>9. QED
  BY <1>5, <1>6, <1>7, <1>8 DEF CInv, RequestInv

(* What is known of a running request. *)
LEMMA ReqFacts ==
  ASSUME CInv, NEW r \in Request
  PROVE  /\ Fits(req[r]) /\ DOMAIN req[r] = Fields
         /\ req[r].secret <= Len(vault) /\ Len(vault) \in Nat
         /\ RequestInv(r)
BY FitsIsType DEF CInv, TypeOK, Fits

(* A request arrives.                                                      *)
LEMMA ArriveStep ==
  ASSUME CInv, NEW r \in Request, NEW u \in User \union {Nobody},
         NEW via_key \in BOOLEAN, NEW hint \in Hint, NEW stream \in BOOLEAN,
         Arrive(r, u, via_key, hint, stream)
  PROVE  CInv'
<1> DEFINE held == IF KeyOf(u) THEN {key[u].perms} ELSE {}
           q == [NewRequest EXCEPT !.pc = "counting", !.user = u,
                   !.via_key = via_key, !.hint = hint, !.stream = stream, !.held = held]
<1>1. DOMAIN NewRequest = Fields /\ Fits(NewRequest)
  BY NewFits DEF Fits
<1>2. /\ Set(r, q) /\ Quiet /\ req[r].pc = "idle"
      /\ UNCHANGED <<key, vault, old, changes>>
  BY DEF Arrive, At
<1>3. held \in SUBSET Permissions /\ (KeyOf(u) => key[u].perms \in held)
  <2>1. KeyOf(u) => u \in User
    BY DEF KeyOf
  <2>2. \A v \in User : key[v].perms \in Grant
    BY DEF CInv, TypeOK
  <2>3. QED
    BY <2>1, <2>2, CompletionsAssumption
<1> HIDE DEF held
<1>4. q = [x \in Fields |-> q[x]]
  BY <1>1
<1>5. /\ q.pc = "counting" /\ q.user = u /\ q.via_key = via_key /\ q.hint = hint
      /\ q.stream = stream /\ q.held = held
      /\ q.perms = NewRequest.perms /\ q.probe = NewRequest.probe
      /\ q.model = NewRequest.model /\ q.provider = NewRequest.provider
      /\ q.secret = NewRequest.secret /\ q.first = NewRequest.first
      /\ q.last = NewRequest.last /\ q.retried = NewRequest.retried
      /\ q.calls = NewRequest.calls /\ q.ok = NewRequest.ok
      /\ q.answer = NewRequest.answer
  BY <1>1 DEF Fields
<1>6. Fits(q)
  BY <1>1, <1>3, <1>4, CompletionsAssumption DEF Fits, Fields, Place
<1> HIDE DEF q
<1>7. /\ q.provider = NoProvider /\ q.secret = 0 /\ q.first = 0 /\ q.last = 0
      /\ q.calls = 0 /\ ~q.retried /\ ~q.ok
  BY <1>5 DEF NewRequest
<1>8. ControlInv(q) /\ CallsInv(q) /\ PermsInv(q) /\ SecretInv(q)
  BY <1>3, <1>5, <1>7 DEF ControlInv, CallsInv, PermsInv, SecretInv
<1>9. Len(vault) >= 0
  BY ReqFacts
<1>10. QED
  BY <1>2, <1>5, <1>6, <1>7, <1>8, <1>9, MoveStep

(* A refusal before a provider is known. *)
LEMMA RefuseStep ==
  ASSUME CInv, NEW r \in Request, NEW status \in {200, 400, 401, 403, 429, 502, 503},
         Answer(r, status), Quiet, UNCHANGED <<key, vault, old, changes>>,
         req[r].pc # "done", ~Logs(req[r])
  PROVE  CInv'
<1>1. Finish(r, status, FALSE) /\ UNCHANGED <<log, proxyLog>>
  BY DEF Answer, Quiet
<1>2. QED
  <2>1. ASSUME NEW ok \in BOOLEAN, ~ok, Finish(r, status, ok) PROVE CInv'
    BY <1>1, <2>1, FinishStep
  <2>2. QED
    BY <1>1, <2>1, Zenon

(* A step before a provider is known: only where it goes and whether the   *)
(* permissions fit is to be shown.                                         *)
LEMMA EarlyStep ==
  ASSUME CInv, NEW r \in Request, NEW q, Set(r, q), Fits(q), Quiet,
         UNCHANGED <<key, vault, old, changes>>,
         req[r].pc \in Early, q.pc \in Early \ {"idle"},
         q.provider = req[r].provider, q.secret = req[r].secret,
         q.first = req[r].first, q.last = req[r].last, q.calls = req[r].calls,
         q.retried <=> req[r].retried, q.ok <=> req[r].ok,
         q.pc = "resolving" => q.model \in Model,
         PermsInv(q)
  PROVE  CInv'
<1>1. RequestInv(r) /\ Len(vault) >= 0
  BY ReqFacts
<1>2. /\ q.provider = NoProvider /\ q.secret = 0 /\ q.first = 0 /\ q.last = 0
      /\ q.calls = 0 /\ ~q.retried /\ ~q.ok
  BY <1>1 DEF RequestInv, ControlInv, LogInv, Early
<1>3. ControlInv(q) /\ CallsInv(q) /\ SecretInv(q)
  BY <1>2 DEF ControlInv, CallsInv, SecretInv, Early
<1>4. QED
  BY <1>1, <1>2, <1>3, MoveStep DEF Early

(* A refusal before the provider is known: nothing is logged.              *)
LEMMA EarlyRefusal ==
  ASSUME CInv, NEW r \in Request, NEW status \in {400, 401, 403, 429, 502, 503},
         Answer(r, status), Quiet, UNCHANGED <<key, vault, old, changes>>,
         req[r].pc \in Early
  PROVE  CInv'
<1>1. RequestInv(r)
  BY ReqFacts
<1>2. req[r].pc # "done" /\ ~Logs(req[r])
  BY <1>1 DEF RequestInv, ControlInv, Early, Logs
<1>3. QED
  BY <1>2, RefuseStep

(* list_all_api_keys.                                                      *)
LEMMA CountKeysStep ==
  ASSUME CInv, NEW r \in Request, CountKeys(r)
  PROVE  CInv'
<1> DEFINE q == [req[r] EXCEPT !.pc = "judging"]
<1>1. Fits(req[r]) /\ DOMAIN req[r] = Fields /\ RequestInv(r)
  BY ReqFacts
<1>2. /\ req[r].pc = "counting" /\ Quiet /\ UNCHANGED <<key, vault, old, changes>>
      /\ Answer(r, 401) \/ Set(r, q)
  BY DEF CountKeys, At
<1>3. CASE Answer(r, 401)
  BY <1>2, <1>3, EarlyRefusal DEF Early
<1>4. CASE Set(r, q)
  <2>1. /\ q.pc = "judging" /\ q.user = req[r].user /\ q.held = req[r].held
        /\ q.provider = req[r].provider /\ q.secret = req[r].secret
        /\ q.first = req[r].first /\ q.last = req[r].last /\ q.calls = req[r].calls
        /\ (q.retried <=> req[r].retried) /\ (q.ok <=> req[r].ok)
    BY <1>1 DEF Fields
  <2>2. q = [x \in Fields |-> q[x]]
    BY <1>1
  <2>3. Fits(q)
    BY <1>1, <2>2 DEF Fits, Fields, Place
  <2> HIDE DEF q
  <2>4. PermsInv(q)
    BY <1>1, <1>2, <2>1 DEF RequestInv, PermsInv
  <2>5. QED
    BY <1>2, <1>4, <2>1, <2>3, <2>4, EarlyStep DEF Early
<1>5. QED
  BY <1>2, <1>3, <1>4

(* The permissions a request is judged by are those of the key in force.   *)
LEMMA ReadPermissionsStep ==
  ASSUME CInv, NEW r \in Request, ReadPermissions(r)
  PROVE  CInv'
<1> DEFINE perms == Judged(req[r])
           q == [req[r] EXCEPT !.pc = "keying", !.perms = perms]
<1>1. Fits(req[r]) /\ DOMAIN req[r] = Fields /\ RequestInv(r)
  BY ReqFacts
<1>2. /\ req[r].pc = "judging" /\ Quiet /\ UNCHANGED <<key, vault, old, changes>>
      /\ Answer(r, 403) \/ Set(r, q)
  BY DEF ReadPermissions, At
<1>3. CASE Answer(r, 403)
  BY <1>2, <1>3, EarlyRefusal DEF Early
<1>4. CASE Set(r, q)
  <2>1. perms \in Permissions
    <3>1. KeyOf(req[r].user) => key[req[r].user].perms \in Permissions
      BY CompletionsAssumption DEF KeyOf, CInv, TypeOK, RequestState
    <3>2. QED
      BY <3>1, PermissionFacts DEF Judged
  <2>2. \/ KeyOf(req[r].user) /\ perms = key[req[r].user].perms
        \/ /\ ~KeyOf(req[r].user)
           /\ perms.can_use_proxy_bypass => ~req[r].via_key
    BY PermissionFacts DEF Judged
  <2> HIDE DEF perms
  <2>3. /\ q.pc = "keying" /\ q.user = req[r].user /\ q.held = req[r].held
        /\ q.perms = perms /\ (q.via_key <=> req[r].via_key)
        /\ q.provider = req[r].provider /\ q.secret = req[r].secret
        /\ q.first = req[r].first /\ q.last = req[r].last /\ q.calls = req[r].calls
        /\ (q.retried <=> req[r].retried) /\ (q.ok <=> req[r].ok)
    BY <1>1 DEF Fields
  <2>4. q = [x \in Fields |-> q[x]]
    BY <1>1
  <2>5. Fits(q)
    BY <1>1, <2>1, <2>4 DEF Fits, Fields, Place
  <2> HIDE DEF q
  <2>6. PermsInv(q)
    BY <1>1, <1>2, <2>2, <2>3 DEF RequestInv, PermsInv
  <2>7. QED
    BY <1>2, <1>4, <2>3, <2>5, <2>6, EarlyStep DEF Early
<1>5. QED
  BY <1>2, <1>3, <1>4

(* The key of the caller is looked up again.                               *)
LEMMA FindKeyStep ==
  ASSUME CInv, NEW r \in Request, FindKey(r)
  PROVE  CInv'
<1> DEFINE id == IF req[r].via_key \/ KeyOf(req[r].user) THEN req[r].user ELSE Nobody
           q == [req[r] EXCEPT !.pc = "limiting", !.key_id = id]
<1>1. Fits(req[r]) /\ DOMAIN req[r] = Fields /\ RequestInv(r)
  BY ReqFacts
<1>2. /\ req[r].pc = "keying" /\ Quiet /\ UNCHANGED <<key, vault, old, changes>>
      /\ Set(r, q)
  BY DEF FindKey, At
<1>3. id \in User \union {Nobody}
  BY <1>1 DEF Fits
<1> HIDE DEF id
<1>4. /\ q.pc = "limiting" /\ q.user = req[r].user /\ q.held = req[r].held
      /\ q.perms = req[r].perms /\ (q.via_key <=> req[r].via_key)
      /\ q.provider = req[r].provider /\ q.secret = req[r].secret
      /\ q.first = req[r].first /\ q.last = req[r].last /\ q.calls = req[r].calls
      /\ (q.retried <=> req[r].retried) /\ (q.ok <=> req[r].ok)
  BY <1>1 DEF Fields
<1>5. q = [x \in Fields |-> q[x]]
  BY <1>1
<1>6. Fits(q)
  BY <1>1, <1>3, <1>5 DEF Fits, Fields, Place
<1> HIDE DEF q
<1>7. PermsInv(q)
  BY <1>1, <1>2, <1>4 DEF RequestInv, PermsInv
<1>8. QED
  BY <1>2, <1>4, <1>6, <1>7, EarlyStep DEF Early

(* The count of the last hour.                                             *)
LEMMA CheckLimitStep ==
  ASSUME CInv, NEW r \in Request, CheckLimit(r)
  PROVE  CInv'
<1> DEFINE q == [req[r] EXCEPT !.pc = "choosing", !.key_id = Nobody]
<1>1. Fits(req[r]) /\ DOMAIN req[r] = Fields /\ RequestInv(r)
  BY ReqFacts
<1>2. /\ req[r].pc = "limiting" /\ Quiet /\ UNCHANGED <<key, vault, old, changes>>
      /\ Answer(r, 429) \/ Set(r, q)
  BY DEF CheckLimit, At
<1>3. CASE Answer(r, 429)
  BY <1>2, <1>3, EarlyRefusal DEF Early
<1>4. CASE Set(r, q)
  <2>1. /\ q.pc = "choosing" /\ q.user = req[r].user /\ q.held = req[r].held
        /\ q.perms = req[r].perms /\ (q.via_key <=> req[r].via_key)
        /\ q.provider = req[r].provider /\ q.secret = req[r].secret
        /\ q.first = req[r].first /\ q.last = req[r].last /\ q.calls = req[r].calls
        /\ (q.retried <=> req[r].retried) /\ (q.ok <=> req[r].ok)
    BY <1>1 DEF Fields
  <2>2. q = [x \in Fields |-> q[x]]
    BY <1>1
  <2>3. Fits(q)
    BY <1>1, <2>2 DEF Fits, Fields, Place
  <2> HIDE DEF q
  <2>4. PermsInv(q)
    BY <1>1, <1>2, <2>1 DEF RequestInv, PermsInv
  <2>5. QED
    BY <1>2, <1>4, <2>1, <2>3, <2>4, EarlyStep DEF Early
<1>5. QED
  BY <1>2, <1>3, <1>4

(* The test of allowed_models.                                             *)
LEMMA RoutedStep ==
  ASSUME CInv, NEW r \in Request, NEW model \in Model, Routed(r, model), Quiet,
         UNCHANGED <<key, vault, old, changes>>, req[r].pc \in {"choosing", "probing"}
  PROVE  CInv'
<1> DEFINE q == [req[r] EXCEPT !.pc = "resolving", !.model = model,
                   !.hint = AutoHint, !.probe = 0]
<1>1. Fits(req[r]) /\ DOMAIN req[r] = Fields /\ RequestInv(r)
  BY ReqFacts
<1>2. Answer(r, 403) \/ Set(r, q)
  BY DEF Routed
<1>3. CASE Answer(r, 403)
  BY <1>2, <1>3, EarlyRefusal DEF Early
<1>4. CASE Set(r, q)
  <2>1. /\ q.pc = "resolving" /\ q.user = req[r].user /\ q.held = req[r].held
        /\ q.perms = req[r].perms /\ (q.via_key <=> req[r].via_key)
        /\ q.provider = req[r].provider /\ q.secret = req[r].secret
        /\ q.first = req[r].first /\ q.last = req[r].last /\ q.calls = req[r].calls
        /\ (q.retried <=> req[r].retried) /\ (q.ok <=> req[r].ok)
        /\ q.model = model
    BY <1>1 DEF Fields
  <2>2. q = [x \in Fields |-> q[x]]
    BY <1>1
  <2>3. 0 \in 0 .. Len(Builtin)
    BY ClientAssumption
  <2>4. Fits(q)
    BY <1>1, <2>2, <2>3 DEF Fits, Fields, Place
  <2> HIDE DEF q
  <2>5. PermsInv(q)
    BY <1>1, <2>1 DEF RequestInv, PermsInv
  <2>6. QED
    BY <1>4, <2>1, <2>4, <2>5, EarlyStep DEF Early
<1>5. QED
  BY <1>2, <1>3, <1>4

(* A bad body, the choice of a model, the start of the fallback.           *)
LEMMA ChooseStep ==
  ASSUME CInv, NEW r \in Request,
         BadBody(r) \/ (\E model \in Model : Choose(r, model)) \/ LookForKey(r)
  PROVE  CInv'
<1> DEFINE q == [req[r] EXCEPT !.pc = "probing"]
<1>1. Fits(req[r]) /\ DOMAIN req[r] = Fields /\ RequestInv(r)
  BY ReqFacts
<1>2. req[r].pc = "choosing" /\ Quiet /\ UNCHANGED <<key, vault, old, changes>>
  BY DEF BadBody, Choose, LookForKey, At
<1>3. CASE BadBody(r)
  BY <1>2, <1>3, EarlyRefusal DEF BadBody, Early
<1>4. ASSUME NEW model \in Model, Choose(r, model) PROVE CInv'
  BY <1>2, <1>4, RoutedStep DEF Choose
<1>5. CASE LookForKey(r)
  <2>1. /\ q.pc = "probing" /\ q.user = req[r].user /\ q.held = req[r].held
        /\ q.perms = req[r].perms /\ (q.via_key <=> req[r].via_key)
        /\ q.provider = req[r].provider /\ q.secret = req[r].secret
        /\ q.first = req[r].first /\ q.last = req[r].last /\ q.calls = req[r].calls
        /\ (q.retried <=> req[r].retried) /\ (q.ok <=> req[r].ok)
    BY <1>1 DEF Fields
  <2>2. q = [x \in Fields |-> q[x]]
    BY <1>1
  <2>3. Fits(q)
    BY <1>1, <2>2 DEF Fits, Fields, Place
  <2>4. Set(r, q)
    BY <1>5 DEF LookForKey
  <2> HIDE DEF q
  <2>5. PermsInv(q)
    BY <1>1, <1>2, <2>1 DEF RequestInv, PermsInv
  <2>6. QED
    BY <1>2, <2>1, <2>3, <2>4, <2>5, EarlyStep DEF Early
<1>6. QED
  BY <1>3, <1>4, <1>5

(* One look at provider_keys for the fallback.                             *)
LEMMA ProbeStep ==
  ASSUME CInv, NEW r \in Request, Probe(r)
  PROVE  CInv'
<1> DEFINE i == req[r].probe + 1
           q == [req[r] EXCEPT !.probe = i]
<1>1. Fits(req[r]) /\ DOMAIN req[r] = Fields /\ RequestInv(r)
  BY ReqFacts
<1>2. /\ req[r].pc = "probing" /\ Quiet /\ UNCHANGED <<key, vault, old, changes>>
      /\ \/ Answer(r, 503)
         \/ i \in DOMAIN Builtin /\ Routed(r, FreeModels[Builtin[i]][1])
         \/ i \in DOMAIN Builtin /\ Set(r, q)
  BY DEF Probe, At
<1>3. CASE Answer(r, 503)
  BY <1>2, <1>3, EarlyRefusal DEF Early
<1>4. CASE i \in DOMAIN Builtin /\ Routed(r, FreeModels[Builtin[i]][1])
  <2>1. FreeModels[Builtin[i]][1] \in Model
    BY <1>4, ProviderFacts, ClientAssumption, CompletionsAssumption DEF Range
  <2>2. QED
    BY <1>2, <1>4, <2>1, RoutedStep
<1>5. CASE i \in DOMAIN Builtin /\ Set(r, q)
  <2>1. /\ q.pc = "probing" /\ q.user = req[r].user /\ q.held = req[r].held
        /\ q.perms = req[r].perms /\ (q.via_key <=> req[r].via_key)
        /\ q.provider = req[r].provider /\ q.secret = req[r].secret
        /\ q.first = req[r].first /\ q.last = req[r].last /\ q.calls = req[r].calls
        /\ (q.retried <=> req[r].retried) /\ (q.ok <=> req[r].ok)
    BY <1>1, <1>2 DEF Fields
  <2>2. q = [x \in Fields |-> q[x]]
    BY <1>1
  <2>3. i \in 0 .. Len(Builtin)
    BY <1>5, ClientAssumption
  <2> HIDE DEF i
  <2>4. Fits(q)
    BY <1>1, <2>2, <2>3 DEF Fits, Fields, Place
  <2> HIDE DEF q
  <2>5. PermsInv(q)
    BY <1>1, <1>2, <2>1 DEF RequestInv, PermsInv
  <2>6. QED
    BY <1>2, <1>5, <2>1, <2>4, <2>5, EarlyStep DEF Early
<1>6. QED
  BY <1>2, <1>3, <1>4, <1>5

(* A step from the choice of the provider on: the caller is judged as      *)
(* before, and the row of provider_keys is the same one.                   *)
LEMMA LateStep ==
  ASSUME CInv, NEW r \in Request, NEW q, Set(r, q), Fits(q), Quiet,
         UNCHANGED <<key, vault, old, changes>>,
         req[r].pc \in {"dispatching", "trying", "calling"},
         q.pc \in {"trying", "calling"},
         q.user = req[r].user, q.via_key <=> req[r].via_key,
         q.perms = req[r].perms, q.held = req[r].held,
         q.provider = req[r].provider, q.secret = req[r].secret,
         q.ok <=> req[r].ok,
         ControlInv(q), CallsInv(q)
  PROVE  CInv'
<1>1. RequestInv(r) /\ req[r].secret <= Len(vault)
  BY ReqFacts
<1>2. PermsInv(q) /\ SecretInv(q) /\ ~q.ok
  BY <1>1 DEF RequestInv, PermsInv, SecretInv, LogInv
<1>3. QED
  BY <1>1, <1>2, MoveStep

(* The provider and the row of provider_keys are chosen.                   *)
LEMMA ResolveStep ==
  ASSUME CInv, NEW r \in Request, Resolve(r)
  PROVE  CInv'
<1> DEFINE provider == ProviderOf(req[r].model)
           secret == ResolveProviderKey(provider, req[r].user)
           cut == req[r].model \in Cut
           q == [req[r] EXCEPT !.pc = "dispatching", !.provider = provider,
                   !.model = AutoHint, !.cut = cut, !.secret = secret]
<1>1. Fits(req[r]) /\ DOMAIN req[r] = Fields /\ RequestInv(r)
  BY ReqFacts
<1>2. /\ req[r].pc = "resolving" /\ Quiet /\ UNCHANGED <<key, vault, old, changes>>
      /\ Set(r, q)
  BY DEF Resolve, At
<1>3. provider \in Providers /\ provider # NoProvider
  BY <1>1, <1>2, ProviderFacts, CompletionsAssumption DEF RequestInv, ControlInv
<1>4. /\ secret \in Nat /\ secret <= Len(vault)
      /\ secret # 0 => secret \in Usable(provider, req[r].user)
  <2>1. vault \in Seq(ProviderKeyRow)
    BY DEF CInv, TypeOK
  <2>2. /\ secret \in 0 .. Len(vault)
        /\ secret # 0 => secret \in Usable(provider, req[r].user)
    BY <2>1, ResolveFacts
  <2>3. QED
    BY <2>1, <2>2
<1>5. secret # 0 => /\ vault[secret].provider = provider
                    /\ vault[secret].is_global \/ vault[secret].user_id = req[r].user
  BY <1>4 DEF Usable
<1> cut \in BOOLEAN
  OBVIOUS
<1> HIDE DEF provider, secret, cut
<1>6. /\ q.pc = "dispatching" /\ q.user = req[r].user /\ q.held = req[r].held
      /\ q.perms = req[r].perms /\ (q.via_key <=> req[r].via_key)
      /\ q.provider = provider /\ q.secret = secret
      /\ q.first = req[r].first /\ q.last = req[r].last /\ q.calls = req[r].calls
      /\ (q.retried <=> req[r].retried) /\ (q.ok <=> req[r].ok)
  BY <1>1 DEF Fields
<1>7. q = [x \in Fields |-> q[x]]
  BY <1>1
<1>8. Fits(q)
  BY <1>1, <1>3, <1>4, <1>7 DEF Fits, Fields, Place
<1> HIDE DEF q
<1>9. ControlInv(q) /\ CallsInv(q)
  BY <1>1, <1>2, <1>3, <1>6 DEF RequestInv, ControlInv, CallsInv, Early
<1>10. PermsInv(q) /\ SecretInv(q) /\ ~q.ok
  BY <1>1, <1>2, <1>5, <1>6 DEF RequestInv, PermsInv, SecretInv, LogInv
<1>11. QED
  BY <1>2, <1>4, <1>6, <1>8, <1>9, <1>10, MoveStep

(* The loop starts at the first proxy, or with the one direct attempt.     *)
LEMMA DispatchStep ==
  ASSUME CInv, NEW r \in Request, NEW proxies \in 0 .. MAX_ATTEMPTS,
         Dispatch(r, proxies)
  PROVE  CInv'
<1> DEFINE first == IF proxies > 0 THEN 1 ELSE 0
           q == [req[r] EXCEPT !.pc = "trying", !.first = first, !.last = proxies]
<1>1. Fits(req[r]) /\ DOMAIN req[r] = Fields /\ RequestInv(r)
  BY ReqFacts
<1>2. /\ req[r].pc = "dispatching" /\ Quiet /\ UNCHANGED <<key, vault, old, changes>>
      /\ Set(r, q)
  BY DEF Dispatch, At
<1>3. first \in 0 .. MAX_ATTEMPTS + 1 /\ first \in 0 .. proxies + 1
      /\ first = IF proxies > 0 THEN 1 ELSE 0
  BY CompletionsAssumption
<1> HIDE DEF first
<1>4. /\ q.pc = "trying" /\ q.user = req[r].user /\ q.held = req[r].held
      /\ q.perms = req[r].perms /\ (q.via_key <=> req[r].via_key)
      /\ q.provider = req[r].provider /\ q.secret = req[r].secret
      /\ q.first = first /\ q.last = proxies /\ q.calls = req[r].calls
      /\ (q.retried <=> req[r].retried) /\ (q.ok <=> req[r].ok)
      /\ (q.stream <=> req[r].stream)
  BY <1>1 DEF Fields
<1>5. q = [x \in Fields |-> q[x]]
  BY <1>1
<1>6. Fits(q)
  BY <1>1, <1>3, <1>5 DEF Fits, Fields, Place
<1> HIDE DEF q
<1>7. q.calls = 0 /\ ~q.retried /\ q.provider # NoProvider
  BY <1>1, <1>2, <1>4 DEF RequestInv, ControlInv
<1>8. ControlInv(q)
  BY <1>3, <1>4, <1>7 DEF ControlInv, Base, Early
<1>9. CallsInv(q)
  BY <1>3, <1>4, <1>7 DEF CallsInv, Base, Factor
<1>10. QED
  BY <1>2, <1>4, <1>6, <1>8, <1>9, LateStep

(* An exchange begins: the first call of its attempt.                      *)
LEMMA CallStep ==
  ASSUME CInv, NEW r \in Request, Call(r)
  PROVE  CInv'
<1> DEFINE calls == req[r].calls + 1
           q == [req[r] EXCEPT !.pc = "calling", !.calls = calls]
<1>1. Fits(req[r]) /\ DOMAIN req[r] = Fields /\ RequestInv(r)
  BY ReqFacts
<1>2. /\ req[r].pc = "trying" /\ Quiet /\ UNCHANGED <<key, vault, old, changes>>
      /\ Client(req[r]) /\ req[r].first <= req[r].last
      /\ Set(r, q)
  BY DEF Call, At
<1>3. calls \in Nat
  BY <1>1 DEF Fits
<1> HIDE DEF calls
<1>4. /\ q.pc = "calling" /\ q.user = req[r].user /\ q.held = req[r].held
      /\ q.perms = req[r].perms /\ (q.via_key <=> req[r].via_key)
      /\ q.provider = req[r].provider /\ q.secret = req[r].secret
      /\ q.first = req[r].first /\ q.last = req[r].last /\ q.calls = calls
      /\ (q.retried <=> req[r].retried) /\ (q.ok <=> req[r].ok)
      /\ (q.stream <=> req[r].stream)
  BY <1>1 DEF Fields
<1>5. q = [x \in Fields |-> q[x]]
  BY <1>1
<1>6. Fits(q)
  BY <1>1, <1>3, <1>5 DEF Fits, Fields, Place
<1> HIDE DEF q
<1>7. /\ req[r].first \in Nat /\ req[r].last \in Nat /\ req[r].calls \in Nat
      /\ ControlInv(req[r]) /\ CallsInv(req[r])
  BY <1>1, CompletionsAssumption DEF RequestInv, Fits
<1>8. Base(q) = Base(req[r]) /\ Factor(q) = Factor(req[r]) /\ Client(q)
  BY <1>2, <1>4 DEF Base, Factor, Client
<1>9. ControlInv(q)
  BY <1>2, <1>4, <1>7, <1>8 DEF ControlInv, Base, Early
<1>10. CallsInv(q)
  <2>1. ~req[r].retried /\ req[r].calls <= Factor(q) * (req[r].first - Base(q))
    BY <1>2, <1>7, <1>8 DEF ControlInv, CallsInv
  <2>2. (Factor(q) = 1 \/ Factor(q) = 2) /\ (Base(q) = 0 \/ Base(q) = 1)
    BY DEF Factor, Base
  <2>3. q.calls <= (Factor(q) * (q.first - Base(q))) + 1
    BY <1>4, <1>7, <2>1, <2>2 DEF calls
  <2>4. QED
    BY <1>4, <2>1, <2>3 DEF CallsInv
<1>11. QED
  BY <1>2, <1>4, <1>6, <1>9, <1>10, LateStep

(* The second call of an attempt.                                          *)
LEMMA RetryStep ==
  ASSUME CInv, NEW r \in Request, NEW outcome, Retry(r, outcome)
  PROVE  CInv'
<1> DEFINE calls == req[r].calls + 1
           q == [req[r] EXCEPT !.calls = calls, !.retried = TRUE]
<1>1. Fits(req[r]) /\ DOMAIN req[r] = Fields /\ RequestInv(r)
  BY ReqFacts
<1>2. /\ req[r].pc = "calling" /\ Quiet /\ UNCHANGED <<key, vault, old, changes>>
      /\ ~req[r].stream /\ ~req[r].retried
      /\ Set(r, q)
  BY DEF Retry, At, Retries
<1>3. calls \in Nat
  BY <1>1 DEF Fits
<1> HIDE DEF calls
<1>4. /\ q.pc = req[r].pc /\ q.user = req[r].user /\ q.held = req[r].held
      /\ q.perms = req[r].perms /\ (q.via_key <=> req[r].via_key)
      /\ q.provider = req[r].provider /\ q.secret = req[r].secret
      /\ q.first = req[r].first /\ q.last = req[r].last /\ q.calls = calls
      /\ q.retried /\ (q.ok <=> req[r].ok)
      /\ (q.stream <=> req[r].stream)
  BY <1>1 DEF Fields
<1>5. q = [x \in Fields |-> q[x]] /\ q.retried \in BOOLEAN
  BY <1>1 DEF Fields
<1>6. Fits(q)
  BY <1>1, <1>3, <1>5 DEF Fits, Fields, Place
<1> HIDE DEF q
<1>7. /\ req[r].first \in Nat /\ req[r].last \in Nat /\ req[r].calls \in Nat
      /\ ControlInv(req[r]) /\ CallsInv(req[r])
  BY <1>1, CompletionsAssumption DEF RequestInv, Fits
<1>8. Base(q) = Base(req[r]) /\ Factor(q) = Factor(req[r])
      /\ (Client(q) <=> Client(req[r]))
  BY <1>4 DEF Base, Factor, Client
<1>9. ControlInv(q)
  BY <1>2, <1>4, <1>7, <1>8 DEF ControlInv, Base, Early
<1>10. CallsInv(q)
  <2>1. req[r].calls <= (Factor(q) * (req[r].first - Base(q))) + 1
    BY <1>2, <1>7, <1>8 DEF CallsInv
  <2>2. Factor(q) = 2 /\ (Base(q) = 0 \/ Base(q) = 1)
    BY <1>2, <1>4 DEF Factor, Base
  <2>3. q.calls <= (Factor(q) * (q.first - Base(q))) + 2
    BY <1>4, <1>7, <2>1, <2>2 DEF calls
  <2>4. QED
    BY <1>2, <1>4, <2>3 DEF CallsInv
<1>11. QED
  BY <1>2, <1>4, <1>6, <1>9, <1>10, LateStep

(* An attempt has failed: at most Factor calls, and the next one begins.   *)
LEMMA TryNextStep ==
  ASSUME CInv, NEW r \in Request, NEW outcome, TryNext(r, outcome)
  PROVE  CInv'
<1> DEFINE first == req[r].first + 1
           q == [req[r] EXCEPT !.pc = "trying", !.first = first, !.retried = FALSE]
<1>1. Fits(req[r]) /\ DOMAIN req[r] = Fields /\ RequestInv(r)
  BY ReqFacts
<1>2. /\ req[r].pc = "calling" /\ Quiet /\ UNCHANGED <<key, vault, old, changes>>
      /\ Set(r, q)
  BY DEF TryNext, Ended, At
<1>3. /\ req[r].first \in Nat /\ req[r].last \in 0 .. MAX_ATTEMPTS /\ req[r].calls \in Nat
      /\ ControlInv(req[r]) /\ CallsInv(req[r])
  BY <1>1, CompletionsAssumption DEF RequestInv, Fits
<1>4. first \in 0 .. MAX_ATTEMPTS + 1 /\ first \in Base(req[r]) .. req[r].last + 1
  BY <1>2, <1>3, CompletionsAssumption DEF ControlInv, Base
<1>5. first = req[r].first + 1
  OBVIOUS
<1> HIDE DEF first
<1>6. /\ q.pc = "trying" /\ q.user = req[r].user /\ q.held = req[r].held
      /\ q.perms = req[r].perms /\ (q.via_key <=> req[r].via_key)
      /\ q.provider = req[r].provider /\ q.secret = req[r].secret
      /\ q.first = first /\ q.last = req[r].last /\ q.calls = req[r].calls
      /\ ~q.retried /\ (q.ok <=> req[r].ok)
      /\ (q.stream <=> req[r].stream)
  BY <1>1 DEF Fields
<1>7. q = [x \in Fields |-> q[x]] /\ q.retried \in BOOLEAN
  BY <1>1 DEF Fields
<1>8. Fits(q)
  BY <1>1, <1>4, <1>7 DEF Fits, Fields, Place
<1> HIDE DEF q
<1>9. Base(q) = Base(req[r]) /\ Factor(q) = Factor(req[r])
  BY <1>6 DEF Base, Factor
<1>10. ControlInv(q)
  BY <1>2, <1>3, <1>4, <1>6, <1>9 DEF ControlInv, Early
<1>11. CallsInv(q)
  <2>1. req[r].calls <= (Factor(q) * (req[r].first - Base(q))) + Factor(q)
    <3>1. /\ req[r].calls <= (Factor(q) * (req[r].first - Base(q)))
                               + (IF req[r].retried THEN 2 ELSE 1)
          /\ req[r].stream => ~req[r].retried
      BY <1>2, <1>3, <1>9 DEF CallsInv, ControlInv
    <3>2. CASE req[r].stream
      <4>1. Factor(q) = 1 /\ (Base(q) = 0 \/ Base(q) = 1)
        BY <1>6, <3>2 DEF Factor, Base
      <4>2. QED
        BY <1>3, <3>1, <3>2, <4>1
    <3>3. CASE ~req[r].stream
      <4>1. Factor(q) = 2 /\ (Base(q) = 0 \/ Base(q) = 1)
        BY <1>6, <3>3 DEF Factor, Base
      <4>2. QED
        BY <1>3, <3>1, <4>1
    <3>4. QED
      BY <3>2, <3>3
  <2>2. (Factor(q) = 1 \/ Factor(q) = 2) /\ (Base(q) = 0 \/ Base(q) = 1)
    BY DEF Factor, Base
  <2>3. q.calls <= Factor(q) * (q.first - Base(q))
    BY <1>3, <1>5, <1>6, <2>1, <2>2
  <2>4. QED
    BY <1>6, <2>3 DEF CallsInv
<1>12. QED
  BY <1>2, <1>6, <1>8, <1>10, <1>11, LateStep

(* The end of a request that a provider was asked for: a plain one leaves  *)
(* its line.                                                               *)
LEMMA AskedStep ==
  ASSUME CInv, NEW r \in Request, NEW ok \in BOOLEAN, NEW status \in {200, 502},
         req[r].pc \in {"trying", "calling"}, Client(req[r]),
         UNCHANGED <<key, vault, old, changes>>,
         Finish(r, status, ok),
         ~req[r].stream => (ok <=> status = 200),
         IF req[r].stream THEN UNCHANGED log ELSE LogRequest(r, ok),
         ok /\ (req[r].stream \/ Bypassing(req[r])) => proxyLog' = proxyLog \union {r},
         ~(ok /\ (req[r].stream \/ Bypassing(req[r]))) => proxyLog' = proxyLog
  PROVE  CInv'
<1>1. Fits(req[r]) /\ RequestInv(r)
  BY ReqFacts
<1>2. Logs(req[r]) <=> ~req[r].stream
  BY <1>1 DEF RequestInv, ControlInv, Logs
<1>3. ASSUME ~req[r].stream
      PROVE  \E line \in LogLine : /\ line.request = r
                                   /\ line.success <=> status = 200
                                   /\ log' = Append(log, line)
  <2> DEFINE line == [request |-> r, user_id |-> req[r].user,
                      api_key_id |-> Nobody, success |-> ok,
                      limit |-> req[r].perms.rate_limit_per_hour]
  <2>1. req[r].user \in User \union {Nobody} /\ req[r].perms.rate_limit_per_hour \in Nat
    BY <1>1 DEF Fits, Permissions
  <2>2. line \in LogLine
    BY <2>1 DEF LogLine
  <2>3. log' = Append(log, line)
    BY <1>3 DEF LogRequest
  <2>4. line.request = r /\ (line.success <=> status = 200)
    BY <1>3
  <2> HIDE DEF line
  <2>5. QED
    BY <2>2, <2>3, <2>4
<1>4. /\ Logs(req[r]) /\ status # 500 =>
           \E line \in LogLine : /\ line.request = r
                                 /\ line.success <=> status = 200
                                 /\ log' = Append(log, line)
      /\ ~(Logs(req[r]) /\ status # 500) => log' = log
  BY <1>2, <1>3
<1>5. /\ status \in {200, 400, 401, 403, 429, 500, 502, 503} /\ status # 500
      /\ req[r].pc # "done"
  OBVIOUS
<1>6. QED
  BY <1>4, <1>5, FinishStep

(* The end after a failure that is not retried.                            *)
LEMMA GivenUpStep ==
  ASSUME CInv, NEW r \in Request, GivenUp(r),
         req[r].pc \in {"trying", "calling"}, Client(req[r]),
         UNCHANGED <<key, vault, old, changes>>
  PROVE  CInv'
<1> DEFINE status == IF req[r].stream THEN 200 ELSE 502
<1>1. /\ UNCHANGED proxyLog
      /\ IF req[r].stream THEN UNCHANGED log ELSE LogRequest(r, FALSE)
      /\ Finish(r, status, FALSE)
  BY DEF GivenUp, Answer
<1>2. status \in {200, 502} /\ (~req[r].stream => status # 200)
  OBVIOUS
<1> HIDE DEF status
<1>3. ASSUME NEW ok \in BOOLEAN, ~ok, Finish(r, status, ok),
             IF req[r].stream THEN UNCHANGED log ELSE LogRequest(r, ok)
      PROVE  CInv'
  BY <1>1, <1>2, <1>3, AskedStep
<1>4. QED
  BY <1>1, <1>3, Zenon

(* The task fails on the model id, before it logs anything.                *)
LEMMA PanicStep ==
  ASSUME CInv, NEW r \in Request, Panic(r)
  PROVE  CInv'
<1>1. RequestInv(r)
  BY ReqFacts
<1>2. /\ req[r].pc = "trying" /\ UNCHANGED <<key, vault, old, changes>>
      /\ UNCHANGED <<log, proxyLog>>
      /\ Client(req[r]) /\ Panics(req[r])
      /\ Finish(r, 500, FALSE)
  BY DEF Panic, At, Quiet, Answer
<1>3. Logs(req[r])
  BY <1>1, <1>2 DEF RequestInv, ControlInv, Logs, Panics
<1>4. ASSUME NEW ok \in BOOLEAN, ~ok, Finish(r, 500, ok) PROVE CInv'
  BY <1>2, <1>3, <1>4, FinishStep
<1>5. QED
  BY <1>2, <1>4, Zenon

(* The three ways to end with a failure.                                   *)
LEMMA GiveUpStep ==
  ASSUME CInv, NEW r \in Request,
         NoClient(r) \/ GiveUp(r) \/ (\E outcome : Break(r, outcome))
  PROVE  CInv'
<1>1. RequestInv(r)
  BY ReqFacts
<1>2. CASE NoClient(r)
  <2> DEFINE status == IF req[r].stream THEN 200 ELSE 502
  <2>1. /\ Answer(r, status) /\ Quiet /\ req[r].pc # "done" /\ ~Logs(req[r])
        /\ UNCHANGED <<key, vault, old, changes>>
    BY <1>2 DEF NoClient, At, Logs
  <2>2. status \in {200, 400, 401, 403, 429, 502, 503}
    OBVIOUS
  <2> HIDE DEF status
  <2>3. QED
    BY <2>1, <2>2, RefuseStep
<1>3. CASE GiveUp(r)
  BY <1>3, GivenUpStep DEF GiveUp, At
<1>4. CASE \E outcome : Break(r, outcome)
  BY <1>1, <1>4, GivenUpStep DEF Break, Ended, At, RequestInv, ControlInv
<1>5. QED
  BY <1>2, <1>3, <1>4

(* The end with a completion, or with a stream that has begun.             *)
LEMMA SucceedStep ==
  ASSUME CInv, NEW r \in Request, NEW outcome, Succeed(r, outcome)
  PROVE  CInv'
<1>1. RequestInv(r)
  BY ReqFacts
<1>2. /\ req[r].pc = "calling" /\ UNCHANGED <<key, vault, old, changes>>
      /\ Finish(r, 200, TRUE)
      /\ IF req[r].stream THEN UNCHANGED log ELSE LogRequest(r, TRUE)
      /\ proxyLog' = IF req[r].stream \/ Bypassing(req[r])
                     THEN proxyLog \union {r} ELSE proxyLog
  BY DEF Succeed, Ended, At
<1>3. Client(req[r])
  BY <1>1, <1>2 DEF RequestInv, ControlInv
<1>4. ASSUME NEW ok \in BOOLEAN, ok, Finish(r, 200, ok),
             IF req[r].stream THEN UNCHANGED log ELSE LogRequest(r, ok)
      PROVE  CInv'
  BY <1>2, <1>3, <1>4, AskedStep
<1>5. QED
  BY <1>2, <1>4, Zenon

(* Every step of the handler.                                              *)
LEMMA HandlerStep ==
  ASSUME CInv, NEW r \in Request, Step(r)
  PROVE  CInv'
<1>1. CASE CountKeys(r) \/ ReadPermissions(r) \/ FindKey(r) \/ CheckLimit(r)
  BY <1>1, CountKeysStep, ReadPermissionsStep, FindKeyStep, CheckLimitStep
<1>2. CASE BadBody(r) \/ (\E model \in Model : Choose(r, model)) \/ LookForKey(r)
  BY <1>2, ChooseStep
<1>3. CASE Probe(r) \/ Resolve(r)
  BY <1>3, ProbeStep, ResolveStep
<1>4. ASSUME NEW proxies \in 0 .. MAX_ATTEMPTS, Dispatch(r, proxies) PROVE CInv'
  BY <1>4, DispatchStep
<1>5. CASE NoClient(r) \/ GiveUp(r) \/ Panic(r) \/ Call(r)
  BY <1>5, GiveUpStep, PanicStep, CallStep
<1>6. ASSUME NEW outcome,
             Retry(r, outcome) \/ Succeed(r, outcome)
               \/ Break(r, outcome) \/ TryNext(r, outcome)
      PROVE  CInv'
  BY <1>6, RetryStep, SucceedStep, GiveUpStep, TryNextStep
<1>7. QED
  BY <1>1, <1>2, <1>3, <1>4, <1>5, <1>6 DEF Step

-----------------------------------------------------------------------------
(* Administrators and users: what a change of the tables leaves true of a  *)
(* request.  Only what it holds may have grown.                            *)
Same(q, p) ==
  /\ p.pc = q.pc /\ p.user = q.user /\ (p.via_key <=> q.via_key)
  /\ (p.stream <=> q.stream)
  /\ p.perms = q.perms /\ p.model = q.model /\ p.provider = q.provider
  /\ (p.cut <=> q.cut)
  /\ p.secret = q.secret /\ p.first = q.first /\ p.last = q.last
  /\ (p.retried <=> q.retried) /\ p.calls = q.calls /\ (p.ok <=> q.ok)
  /\ p.answer = q.answer

(* A change of api_keys or provider_keys: rows stay what they are but for  *)
(* is_active, and no key comes back to life.                               *)
LEMMA TablesStep ==
  ASSUME CInv, UNCHANGED <<log, proxyLog>>, req' \in [Request -> RequestState],
         key' \in [User -> [active : BOOLEAN, perms : Grant]],
         vault' \in Seq(ProviderKeyRow), Len(vault') >= Len(vault),
         \A i \in DOMAIN vault : /\ vault'[i].provider = vault[i].provider
                                 /\ vault'[i].user_id = vault[i].user_id
                                 /\ vault'[i].is_global <=> vault[i].is_global
                                 /\ vault'[i].custom <=> vault[i].custom,
         \A u \in User : key'[u].active => key[u].active,
         \A r \in Request :
           /\ Same(req[r], req'[r])
           /\ req[r].held \subseteq req'[r].held
           /\ KeyOf(req[r].user)' => \/ key'[req[r].user].perms = key[req[r].user].perms
                                     \/ key'[req[r].user].perms \in req'[r].held,
         old' = old, changes' \in 0 .. MaxChanges
  PROVE  CInv'
<1>1. ASSUME NEW r \in Request PROVE RequestInv(r)'
  <2>1. /\ RequestInv(r) /\ Fits(req[r]) /\ req[r].secret \in Nat
        /\ req[r].secret <= Len(vault) /\ Len(vault) \in Nat
        /\ DOMAIN vault = 1 .. Len(vault)
    <3>1. vault \in Seq(ProviderKeyRow)
      BY DEF CInv, TypeOK
    <3>2. Len(vault) \in Nat /\ DOMAIN vault = 1 .. Len(vault)
      BY <3>1
    <3>3. Fits(req[r]) /\ req[r].secret <= Len(vault) /\ RequestInv(r)
      BY ReqFacts
    <3>4. req[r].secret \in Nat
      BY <3>3 DEF Fits
    <3>5. QED
      BY <3>2, <3>3, <3>4
  <2>2. Same(req[r], req'[r])
    OBVIOUS
  <2>3. req[r].secret # 0 => req[r].secret \in DOMAIN vault
    BY <2>1
  <2>4. Client(req[r])' <=> Client(req[r])
    BY <2>2, <2>3 DEF Same, Client, ClientBuilt
  <2>5. KeyOf(req[r].user)' => KeyOf(req[r].user)
    BY <2>1, <2>2 DEF Same, KeyOf, Fits
  <2>6. ControlInv(req[r])'
    BY <2>1, <2>2, <2>4 DEF RequestInv, ControlInv, Same, Base
  <2>7. CallsInv(req[r])'
    BY <2>1, <2>2 DEF RequestInv, CallsInv, Same, Base, Factor
  <2>8. PermsInv(req[r])'
    BY <2>1, <2>2, <2>5 DEF RequestInv, PermsInv, Same
  <2>9. SecretInv(req[r])'
    BY <2>1, <2>2, <2>3 DEF RequestInv, SecretInv, Same
  <2>10. LogInv(r)'
    <3>1. LinesOf(r)' = LinesOf(r)
      BY DEF LinesOf
    <3>2. /\ Logs(req[r])' <=> Logs(req[r])
          /\ Bypassing(req[r])' <=> Bypassing(req[r])
          /\ Panics(req[r])' <=> Panics(req[r])
      BY <2>2, <2>4 DEF Same, Logs, Bypassing, Panics
    <3>3. QED
      BY <2>1, <2>2, <3>1, <3>2 DEF RequestInv, LogInv, Same
  <2>11. QED
    BY <2>6, <2>7, <2>8, <2>9, <2>10 DEF RequestInv
<1>2. TypeOK'
  <2>1. ASSUME NEW r \in Request PROVE req'[r].secret <= Len(vault')
    <3>1. vault \in Seq(ProviderKeyRow) /\ req[r].secret \in Nat
          /\ req[r].secret <= Len(vault)
      BY ReqFacts DEF CInv, TypeOK, Fits
    <3>2. Len(vault) \in Nat /\ Len(vault') \in Nat
      BY <3>1
    <3>3. QED
      BY <3>1, <3>2 DEF Same
  <2>2. QED
    BY <2>1 DEF CInv, TypeOK
<1>3. QED
  BY <1>1, <1>2 DEF CInv

(* New permissions count as held by the running requests of the account.   *)
LEMMA EditKeyStep ==
  ASSUME CInv, NEW u \in User, NEW perms \in Grant, EditKey(u, perms)
  PROVE  CInv'
<1>1. /\ key' = [key EXCEPT ![u].perms = perms]
      /\ req' = [r \in Request |->
           IF req[r].user = u THEN [req[r] EXCEPT !.held = @ \union {perms}] ELSE req[r]]
      /\ UNCHANGED <<log, proxyLog, vault, old>> /\ changes' \in 0 .. MaxChanges
  BY CompletionsAssumption DEF EditKey, Change, CInv, TypeOK
<1>2. ASSUME NEW r \in Request
      PROVE  /\ req'[r] \in RequestState /\ Same(req[r], req'[r])
             /\ req[r].held \subseteq req'[r].held
             /\ req[r].user = u => perms \in req'[r].held
  <2> DEFINE held == req[r].held \union {perms}
             q == [req[r] EXCEPT !.held = held]
  <2>1. Fits(req[r]) /\ DOMAIN req[r] = Fields
    BY ReqFacts
  <2>2. held \in SUBSET Permissions /\ perms \in held
    BY <2>1, CompletionsAssumption DEF Fits
  <2>3. req[r].held \subseteq held
    OBVIOUS
  <2>4. req'[r] = IF req[r].user = u THEN q ELSE req[r]
    BY <1>1
  <2> HIDE DEF held
  <2>5. Same(req[r], q) /\ q.held = held
    BY <2>1 DEF Fields, Same
  <2>6. q = [x \in Fields |-> q[x]]
    BY <2>1
  <2>7. Fits(q)
    BY <2>1, <2>2, <2>6 DEF Fits, Fields, Place
  <2> HIDE DEF q
  <2>8. q \in RequestState /\ req[r] \in RequestState /\ Same(req[r], req[r])
    BY <2>1, <2>7, FitsIsType DEF Same
  <2>9. CASE req[r].user = u
    BY <2>2, <2>3, <2>4, <2>5, <2>8, <2>9
  <2>10. CASE req[r].user # u
    BY <2>4, <2>8, <2>10
  <2>11. QED
    BY <2>9, <2>10
<1>3. req' \in [Request -> RequestState]
  BY <1>1, <1>2
<1>4. /\ key' \in [User -> [active : BOOLEAN, perms : Grant]]
      /\ key'[u].perms = perms /\ \A v \in User \ {u} : key'[v] = key[v]
      /\ \A v \in User : key'[v].active <=> key[v].active
  BY <1>1 DEF CInv, TypeOK
<1>5. vault' \in Seq(ProviderKeyRow) /\ Len(vault') >= Len(vault)
  BY <1>1 DEF CInv, TypeOK
<1>6. ASSUME NEW r \in Request, KeyOf(req[r].user)'
      PROVE  \/ key'[req[r].user].perms = key[req[r].user].perms
             \/ key'[req[r].user].perms \in req'[r].held
  <2>1. req[r].user \in User
    <3>1. Fits(req[r]) /\ Same(req[r], req'[r])
      BY <1>2, ReqFacts
    <3>2. QED
      BY <1>6, <3>1 DEF KeyOf, Fits, Same
  <2>2. QED
    BY <1>2, <1>4, <2>1
<1>7. QED
  BY <1>1, <1>2, <1>3, <1>4, <1>5, <1>6, TablesStep

(* A change that leaves the requests alone. *)
LEMMA VaultStep ==
  ASSUME CInv, UNCHANGED <<log, proxyLog, req, old>>, changes' \in 0 .. MaxChanges,
         key' \in [User -> [active : BOOLEAN, perms : Grant]],
         \A u \in User : /\ key'[u].active => key[u].active
                         /\ key'[u].perms = key[u].perms,
         vault' \in Seq(ProviderKeyRow), Len(vault') >= Len(vault),
         \A i \in DOMAIN vault : /\ vault'[i].provider = vault[i].provider
                                 /\ vault'[i].user_id = vault[i].user_id
                                 /\ vault'[i].is_global <=> vault[i].is_global
                                 /\ vault'[i].custom <=> vault[i].custom
  PROVE  CInv'
<1>1. req' \in [Request -> RequestState]
  BY DEF CInv, TypeOK
<1>2. \A r \in Request : Same(req[r], req'[r]) /\ req[r].held \subseteq req'[r].held
  BY DEF Same
<1>3. ASSUME NEW r \in Request, KeyOf(req[r].user)'
      PROVE  key'[req[r].user].perms = key[req[r].user].perms
  <2>1. Fits(req[r]) /\ req'[r] = req[r]
    BY ReqFacts
  <2>2. req[r].user \in User
    BY <1>3, <2>1 DEF KeyOf, Fits
  <2>3. QED
    BY <2>2
<1>4. QED
  BY <1>1, <1>2, <1>3, TablesStep

(* The other changes by administrators and users.                          *)
LEMMA ChangeStep ==
  ASSUME CInv,
         \/ \E u \in User : \/ RevokeKey(u)
                            \/ \E row \in Offer : UserCreateProviderKey(u, row)
                            \/ \E i \in DOMAIN vault : UserRevokeProviderKey(u, i)
         \/ \E row \in Offer : AdminCreateProviderKey(row)
         \/ \E i \in DOMAIN vault : AdminRevokeProviderKey(i)
  PROVE  CInv'
<1>1. /\ UNCHANGED <<log, proxyLog, req, old>>
      /\ Change
  BY DEF RevokeKey, UserCreateProviderKey, AdminCreateProviderKey, Change,
         AdminRevokeProviderKey, UserRevokeProviderKey, Deactivate
<1>2. /\ key \in [User -> [active : BOOLEAN, perms : Grant]]
      /\ vault \in Seq(ProviderKeyRow) /\ Len(vault) \in Nat
  BY DEF CInv, TypeOK
<1>3. changes' \in 0 .. MaxChanges
  BY <1>1, CompletionsAssumption DEF Change, CInv, TypeOK
<1>4. ASSUME NEW u \in User, RevokeKey(u) PROVE CInv'
  <2>1. /\ key' = [key EXCEPT ![u].active = FALSE] /\ vault' = vault
    BY <1>4 DEF RevokeKey
  <2>2. /\ key' \in [User -> [active : BOOLEAN, perms : Grant]]
        /\ \A v \in User : /\ key'[v].active => key[v].active
                           /\ key'[v].perms = key[v].perms
    BY <1>2, <2>1
  <2>3. vault' \in Seq(ProviderKeyRow) /\ Len(vault') >= Len(vault)
    BY <1>2, <2>1
  <2>4. QED
    BY <1>1, <1>3, <2>1, <2>2, <2>3, VaultStep
<1>5. ASSUME NEW row \in ProviderKeyRow, vault' = Append(vault, row), key' = key PROVE CInv'
  <2>1. /\ vault' \in Seq(ProviderKeyRow) /\ Len(vault') >= Len(vault)
        /\ \A i \in DOMAIN vault : vault'[i] = vault[i]
    BY <1>2, <1>5
  <2>2. QED
    BY <1>1, <1>2, <1>3, <1>5, <2>1, VaultStep
<1>6. ASSUME NEW u \in User, NEW row \in Offer, UserCreateProviderKey(u, row) PROVE CInv'
  <2> DEFINE own == [row EXCEPT !.user_id = u, !.is_global = FALSE]
  <2>1. own \in ProviderKeyRow
    BY CompletionsAssumption DEF ProviderKeyRow
  <2>2. vault' = Append(vault, own) /\ key' = key
    BY <1>6 DEF UserCreateProviderKey
  <2> HIDE DEF own
  <2>3. QED
    BY <1>5, <2>1, <2>2
<1>7. ASSUME NEW row \in Offer, AdminCreateProviderKey(row) PROVE CInv'
  BY <1>5, <1>7, CompletionsAssumption DEF AdminCreateProviderKey
<1>8. ASSUME NEW i \in DOMAIN vault, Deactivate(i) PROVE CInv'
  <2>1. vault' = [vault EXCEPT ![i].is_active = FALSE] /\ key' = key
    BY <1>8 DEF Deactivate
  <2>2. vault[i] \in ProviderKeyRow
    BY <1>2
  <2>3. [vault[i] EXCEPT !.is_active = FALSE] \in ProviderKeyRow
    BY <2>2 DEF ProviderKeyRow
  <2>4. vault' \in Seq(ProviderKeyRow) /\ Len(vault') >= Len(vault)
    BY <1>2, <2>1, <2>3
  <2>5. \A j \in DOMAIN vault : /\ vault'[j].provider = vault[j].provider
                                /\ vault'[j].user_id = vault[j].user_id
                                /\ vault'[j].is_global <=> vault[j].is_global
                                /\ vault'[j].custom <=> vault[j].custom
    BY <1>2, <2>1 DEF ProviderKeyRow
  <2>6. QED
    BY <1>1, <1>2, <1>3, <2>1, <2>4, <2>5, VaultStep
<1>9. QED
  BY <1>4, <1>6, <1>7, <1>8 DEF UserRevokeProviderKey, AdminRevokeProviderKey

(* An hour goes by, or nothing happens.                                    *)
LEMMA HourStep ==
  ASSUME CInv, HourPasses \/ UNCHANGED vars
  PROVE  CInv'
<1>1. UNCHANGED <<key, vault, log, proxyLog, req, changes>> /\ old' \in {old, Len(log)}
  BY DEF HourPasses, vars
<1>2. Len(log) \in Nat
  BY DEF CInv, TypeOK
<1>3. TypeOK'
  BY <1>1, <1>2 DEF CInv, TypeOK
<1>4. \A r \in Request : RequestInv(r)'
  BY <1>1 DEF CInv, RequestInv, ControlInv, CallsInv, PermsInv, SecretInv, LogInv,
              Client, KeyOf, LinesOf, Base, Factor, Logs, Bypassing
<1>5. QED
  BY <1>3, <1>4 DEF CInv

(* The invariant holds at the start.                                       *)
LEMMA CompletionsInit == Init => CInv
<1> SUFFICES ASSUME Init PROVE CInv
  OBVIOUS
<1>1. NewRequest \in RequestState
  BY NewFits, FitsIsType
<1>2. /\ req \in [Request -> RequestState] /\ log = <<>> /\ proxyLog = {} /\ old = 0
      /\ vault \in Seq(ProviderKeyRow) /\ Len(vault) \in Nat
      /\ \A r \in Request : req[r] = NewRequest
  BY <1>1, CompletionsAssumption DEF Init
<1>3. TypeOK
  <2>1. log \in Seq(LogLine) /\ Len(log) = 0
    BY <1>2
  <2>2. \A r \in Request : req[r].secret <= Len(vault)
    BY <1>2 DEF NewRequest
  <2>3. key \in [User -> [active : BOOLEAN, perms : Grant]] /\ changes \in 0 .. MaxChanges
    BY CompletionsAssumption DEF Init
  <2>4. QED
    BY <1>2, <2>1, <2>2, <2>3 DEF TypeOK
<1>4. ASSUME NEW r \in Request PROVE RequestInv(r)
  <2>1. LinesOf(r) = {}
    BY <1>2 DEF LinesOf
  <2>2. /\ req[r].pc = "idle" /\ req[r].user = Nobody /\ req[r].provider = NoProvider
        /\ req[r].secret = 0 /\ req[r].first = 0 /\ req[r].last = 0 /\ req[r].calls = 0
        /\ ~req[r].retried /\ ~req[r].ok
    BY <1>2 DEF NewRequest
  <2>3. QED
    BY <1>2, <2>1, <2>2
       DEF RequestInv, ControlInv, CallsInv, PermsInv, SecretInv, LogInv
<1>5. QED
  BY <1>3, <1>4 DEF CInv

(* Every step preserves the invariant.                                     *)
LEMMA CompletionsNext == CInv /\ [Next]_vars => CInv'
<1> SUFFICES ASSUME CInv, [Next]_vars PROVE CInv'
  OBVIOUS
<1>1. ASSUME NEW r \in Request, NEW hint \in Hint, NEW stream \in BOOLEAN,
             \/ Arrive(r, Nobody, FALSE, hint, stream)
             \/ \E u \in User, via_key \in BOOLEAN : Arrive(r, u, via_key, hint, stream)
      PROVE  CInv'
  BY <1>1, ArriveStep
<1>2. ASSUME NEW r \in Request, Step(r) PROVE CInv'
  BY <1>2, HandlerStep
<1>3. ASSUME NEW u \in User, NEW perms \in Grant, EditKey(u, perms) PROVE CInv'
  BY <1>3, EditKeyStep
<1>4. CASE \/ \E u \in User : \/ RevokeKey(u)
                              \/ \E row \in Offer : UserCreateProviderKey(u, row)
                              \/ \E i \in DOMAIN vault : UserRevokeProviderKey(u, i)
           \/ \E row \in Offer : AdminCreateProviderKey(row)
           \/ \E i \in DOMAIN vault : AdminRevokeProviderKey(i)
  BY <1>4, ChangeStep
<1>5. CASE HourPasses \/ UNCHANGED vars
  BY <1>5, HourStep
<1>6. QED
  BY <1>1, <1>2, <1>3, <1>4, <1>5 DEF Next

(* The invariant of the handler.                                           *)
LEMMA CompletionsInv == Spec => []CInv
  BY CompletionsInit, CompletionsNext, PTL DEF Spec

(* Every part of the handler and its tables has its type (no row of        *)
(* provider_keys that a request remembers is out of range).                *)
THEOREM CompletionsTypeCorrect == Spec => []TypeOK
<1>1. CInv => TypeOK
  BY DEF CInv
<1>2. QED
  BY <1>1, CompletionsInv, PTL

(* However api_keys change under a running request, it is judged by        *)
(* permissions its key had meanwhile, and never gains the proxy bypass by  *)
(* losing the key (web_server.rs, caller_perms).                           *)
THEOREM JudgedByOwnPermissions == Spec => []OwnPermissions
<1>1. CInv => OwnPermissions
  BY DEF CInv, RequestInv, PermsInv, OwnPermissions
<1>2. QED
  BY <1>1, CompletionsInv, PTL

(* A private provider key serves its owner only, and /v1/models shows no   *)
(* model for which there is a private key only (resolve_provider_key).     *)
THEOREM SecretsStayPrivate == Spec => []SecretIsShared
<1>1. ASSUME CInv PROVE SecretIsShared
  <2>1. ASSUME NEW p \in Known \ Env, NEW m \in Range(FreeModels[p]),
               m \in Listed \ DOMAIN Configured
        PROVE  \E i \in DOMAIN vault :
                 vault[i].provider = p /\ vault[i].is_active /\ vault[i].is_global
    <3> DEFINE i == ResolveProviderKey(p, Nobody)
    <3>1. vault \in Seq(ProviderKeyRow) /\ m # AutoHint
      BY <1>1, CompletionsAssumption DEF CInv, TypeOK
    <3>2. PICK q \in Known : /\ ResolveProviderKey(q, Nobody) # 0 \/ q \in Env
                             /\ m \in Range(FreeModels[q])
      BY <2>1, <3>1 DEF Listed
    <3>3. q = p
      BY <3>2, ClientAssumption
    <3>4. i # 0
      BY <3>2, <3>3
    <3>5. i \in Usable(p, Nobody) /\ vault[i].is_global
      BY <3>1, <3>4, ResolveFacts
    <3> HIDE DEF i
    <3>6. QED
      BY <3>5 DEF Usable
  <2>2. QED
    BY <1>1, <2>1 DEF CInv, RequestInv, SecretInv, SecretIsShared
<1>2. QED
  BY <1>1, CompletionsInv, PTL

(* request_logs and proxy_requests agree with the answers given: one line  *)
(* per plain request with a client, which says whether it succeeded, and   *)
(* none if the task failed, which only a model id that cannot be cut and a *)
(* proxy bring about (web_server.rs, 1932 and 2038).                       *)
THEOREM UsageMatchesAnswers == Spec => []AnswersMatchLog
<1>1. ASSUME CInv, NEW r \in Request
      PROVE  LET q == req[r]
                 dispatched == q.provider # NoProvider /\ Client(q)
             IN  /\ q.pc = "done" =>
                      /\ Cardinality(LinesOf(r)) =
                           IF dispatched /\ ~q.stream /\ q.answer # 500 THEN 1 ELSE 0
                      /\ q.answer = 500 => dispatched /\ Panics(q)
                 /\ q.pc # "done" => LinesOf(r) = {}
                 /\ \A i \in LinesOf(r) : log[i].success <=> q.answer = 200
                 /\ r \in proxyLog <=> q.ok /\ (q.stream \/ Bypassing(q))
  <2>1. LogInv(r)
    BY <1>1 DEF CInv, RequestInv
  <2>2. Cardinality({}) = 0 /\ \A i : Cardinality({i}) = 1
    BY FS_EmptySet, FS_Singleton
  <2>3. CASE req[r].pc # "done"
    BY <2>1, <2>3 DEF LogInv
  <2>4. CASE req[r].pc = "done" /\ Logs(req[r]) /\ req[r].answer # 500
    <3>1. PICK i \in DOMAIN log : LinesOf(r) = {i} /\ (log[i].success <=> req[r].answer = 200)
      BY <2>1, <2>4 DEF LogInv
    <3>2. Cardinality(LinesOf(r)) = 1
      BY <2>2, <3>1
    <3>3. QED
      BY <2>1, <2>4, <3>1, <3>2 DEF LogInv, Logs
  <2>5. CASE req[r].pc = "done" /\ ~(Logs(req[r]) /\ req[r].answer # 500)
    <3>1. LinesOf(r) = {}
      BY <2>1, <2>5 DEF LogInv
    <3>2. Cardinality(LinesOf(r)) = 0
      BY <2>2, <3>1
    <3>3. QED
      BY <2>1, <2>5, <3>1, <3>2 DEF LogInv, Logs
  <2>6. QED
    BY <2>3, <2>4, <2>5
<1>2. CInv => AnswersMatchLog
  BY <1>1 DEF AnswersMatchLog
<1>3. QED
  BY <1>2, CompletionsInv, PTL

(* Retries times proxies bound the calls of a request: once per proxy for  *)
(* a stream, twice for a plain request.                                    *)
THEOREM CallsStayBounded == Spec => []CallsBounded
<1>1. ASSUME CInv, NEW r \in Request
      PROVE  LET q == req[r]
             IN  q.calls <= (IF q.stream THEN 1 ELSE 2) * (IF Bypassing(q) THEN q.last ELSE 1)
  <2> DEFINE q == req[r]
             attempts == IF Bypassing(q) THEN q.last ELSE 1
  <2>1. /\ q.calls \in Nat /\ q.last \in Nat /\ q.first \in Nat /\ q.pc \in Place
        /\ ControlInv(q) /\ CallsInv(q)
    <3>1. Fits(q) /\ RequestInv(r)
      BY <1>1, ReqFacts
    <3>2. QED
      BY <3>1, CompletionsAssumption DEF Fits, RequestInv
  <2>2. (Factor(q) = 1 \/ Factor(q) = 2) /\ attempts \in Nat /\ attempts >= 1
        /\ Base(q) \in {0, 1} /\ q.last - Base(q) + 1 = attempts
    BY <2>1 DEF Factor, Bypassing, Base
  <2> HIDE DEF q, attempts
  <2>3. q.calls <= Factor(q) * attempts
    <3>1. CASE q.pc \in Early \union {"dispatching", "done"}
      <4>1. q.calls = 0
        BY <2>1, <3>1 DEF ControlInv, CallsInv
      <4>2. QED
        BY <2>2, <4>1
    <3>2. CASE q.pc = "trying"
      <4>1. q.calls <= Factor(q) * (q.first - Base(q)) /\ q.first <= q.last + 1
        BY <2>1, <3>2 DEF ControlInv, CallsInv, Base
      <4>2. QED
        BY <2>1, <2>2, <4>1
    <3>3. CASE q.pc = "calling"
      <4>1. /\ q.calls <= (Factor(q) * (q.first - Base(q)))
                            + (IF q.retried THEN 2 ELSE 1)
            /\ q.first <= q.last /\ (q.stream => ~q.retried)
        BY <2>1, <3>3 DEF ControlInv, CallsInv, Base
      <4>2. CASE q.stream
        <5>1. Factor(q) = 1 /\ q.calls <= (q.first - Base(q)) + 1
          BY <2>1, <2>2, <4>1, <4>2 DEF Factor
        <5>2. QED
          BY <2>1, <2>2, <4>1, <5>1
      <4>3. CASE ~q.stream
        <5>1. Factor(q) = 2 /\ q.calls <= (2 * (q.first - Base(q))) + 2
          BY <2>1, <2>2, <4>1, <4>3 DEF Factor
        <5>2. QED
          BY <2>1, <2>2, <4>1, <5>1
      <4>4. QED
        BY <4>2, <4>3
    <3>4. QED
      BY <2>1, <3>1, <3>2, <3>3 DEF Place, Early
  <2>4. Factor(q) = IF q.stream THEN 1 ELSE 2
    BY DEF Factor
  <2>5. QED
    BY <2>3, <2>4 DEF q, attempts
<1>2. CInv => CallsBounded
  BY <1>1 DEF CallsBounded
<1>3. QED
  BY <1>2, CompletionsInv, PTL
==============================================================================
