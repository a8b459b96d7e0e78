------------------------------ MODULE ProxyPool ------------------------------
(***************************************************************************)
(* The rotating proxy pool of `omrp serve`: the proxies table (db.rs), the *)
(* in-memory pool in front of it (proxy.rs), and the three kinds of thread *)
(* that share them (web_server.rs): completion requests that walk through  *)
(* the pool, admin handlers that change a row and reload the pool, and     *)
(* refreshers that ingest a fetched list and reload the pool.              *)
(*                                                                         *)
(* Each SQL statement, each use of the pool's lock and each use of the     *)
(* atomic cursor is a step.  Two neighbours are joined where no other      *)
(* thread can tell: mark_success and the advance that follows it.          *)
(*                                                                         *)
(* A proxy stands for a row id.  Ids are never reused, so a url that is    *)
(* deleted and added again comes back as another proxy.  Latencies only    *)
(* order a load, which may return any order; LIMIT 200 is not reached.     *)
(***************************************************************************)
EXTENDS Integers, SequencesExt

CONSTANTS
  Proxy,         \* ids of the proxies table
  Request,       \* completion requests that may overlap
  Loader,        \* admin handlers and refreshers that may overlap
  FAIL_LIMIT,    \* consecutive failures that disable a proxy (5)
  MAX_ATTEMPTS,  \* MAX_PROXY_ATTEMPTS (12)
  MaxRequests,   \* bound: requests admitted
  MaxJobs,       \* bound: jobs of admin handlers and refreshers
  NoProxy        \* no proxy: a request without a call under way

ASSUME PoolAssumption ==
  /\ FAIL_LIMIT \in Nat \ {0}
  /\ MAX_ATTEMPTS \in Nat
  /\ MaxRequests \in Nat
  /\ MaxJobs \in Nat
  /\ NoProxy \notin Proxy

VARIABLES
  rows,       \* the table: id -> [is_active, fail_count]
  deleted,    \* ids that were used and deleted
  pool,       \* ProxyPool::proxies
  cursor,     \* ProxyPool::cursor
  job,        \* per loader: "idle", "ingesting", "changed" or "loading"
  snapshot,   \* per loader: what its SELECT returned
  jobs,       \* jobs so far
  pc,         \* per request: where it is, see RequestPc
  bypass,     \* per request: use_bypass
  streaming,  \* per request: which of the two dispatch loops it runs
  attempt,    \* per request: the loop variable
  total,      \* per request: the last attempt of the loop
  current,    \* per request: the proxy of the call under way
  admitted,   \* requests so far
  tried,      \* per request: the proxies it called through, in order
  disturbed   \* per request: pool or cursor changed since its loop began

table    == <<rows, deleted>>
shared   == <<pool, cursor, disturbed>>
loaders  == <<job, snapshot, jobs>>
requests == <<pc, bypass, streaming, attempt, total, current,
              admitted, tried>>
vars     == <<table, shared, loaders, requests>>

RequestPc == {"idle", "admitted", "sizing", "picking", "calling",
              "removing", "direct"}

NewRow == [is_active |-> TRUE, fail_count |-> 0]

Init ==
  /\ rows = [p \in {} |-> NewRow]
  /\ deleted = {}
  /\ pool = <<>>
  /\ cursor = 0
  /\ job = [l \in Loader |-> "idle"]
  /\ snapshot = [l \in Loader |-> <<>>]
  /\ jobs = 0
  /\ pc = [r \in Request |-> "idle"]
  /\ bypass = [r \in Request |-> FALSE]
  /\ streaming = [r \in Request |-> FALSE]
  /\ attempt = [r \in Request |-> 0]
  /\ total = [r \in Request |-> 0]
  /\ current = [r \in Request |-> NoProxy]
  /\ admitted = 0
  /\ tried = [r \in Request |-> <<>>]
  /\ disturbed = [r \in Request |-> FALSE]

-----------------------------------------------------------------------------
(* The statements of db.rs on the proxies table. *)

Upserted(p) == [q \in DOMAIN rows \union {p} |-> IF q = p THEN NewRow ELSE rows[q]]

(* A slip to be caught: the limit is noticed one failure late. *)
FailedLate(row) ==
  [is_active  |-> IF row.fail_count >= FAIL_LIMIT THEN FALSE ELSE row.is_active,
   fail_count |-> row.fail_count + 1]

Failed(row) ==
  [is_active  |-> IF row.fail_count >= FAIL_LIMIT - 1 THEN FALSE ELSE row.is_active,
   fail_count |-> row.fail_count + 1]

Deactivated == [is_active |-> FALSE, fail_count |-> FAIL_LIMIT]

(* UPDATE ... WHERE id = p: no effect once the row is gone. *)
Update(p, row) == [q \in DOMAIN rows |-> IF q = p THEN row ELSE rows[q]]

Active == {p \in DOMAIN rows : rows[p].is_active /\ rows[p].fail_count < FAIL_LIMIT}

-----------------------------------------------------------------------------
(* The pool. *)

(* Vec::retain: what is left keeps its order.  The n-th entry left is the  *)
(* one that has n entries left up to its own place.                        *)
Without(s, p) ==
  LET kept     == {i \in DOMAIN s : s[i] # p}
      Place(i) == Cardinality({j \in kept : j <= i})
  IN  [n \in 1 .. Cardinality(kept) |-> s[CHOOSE i \in kept : Place(i) = n]]

(* `(base + attempt) % pool.len()` of a pool that is not empty. *)
Nth(n) == pool[1 + ((cursor + n) % Len(pool))]

(* Only a request in its loop is disturbed. *)
Disturb == disturbed' = [r \in Request |-> pc[r] \in {"picking", "calling", "removing"}]

SetPool(entries) ==
  /\ pool' = entries
  /\ IF entries = pool THEN UNCHANGED disturbed ELSE Disturb
  /\ UNCHANGED cursor

-----------------------------------------------------------------------------
(* Admin handlers and refreshers.  Each job ends with ProxyPool::load. *)

BeginJob(l, step) ==
  /\ job[l] = "idle"
  /\ jobs < MaxJobs
  /\ jobs' = jobs + 1
  /\ job' = [job EXCEPT ![l] = step]
  /\ UNCHANGED snapshot

AdminActivate(l, p) ==
  /\ p \in DOMAIN rows
  /\ BeginJob(l, "changed")
  /\ rows' = Update(p, NewRow)
  /\ UNCHANGED <<deleted, shared, requests>>

AdminDeactivate(l, p) ==
  /\ p \in DOMAIN rows
  /\ BeginJob(l, "changed")
  /\ rows' = Update(p, Deactivated)
  /\ UNCHANGED <<deleted, shared, requests>>

AdminDelete(l, p) ==
  /\ p \in DOMAIN rows
  /\ BeginJob(l, "changed")
  /\ rows' = [q \in DOMAIN rows \ {p} |-> rows[q]]
  /\ deleted' = deleted \union {p}
  /\ UNCHANGED <<shared, requests>>

(* admin_refresh_proxies and the background tasks: fetch the list. *)
Refresh(l) ==
  /\ BeginJob(l, "ingesting")
  /\ UNCHANGED <<table, shared, requests>>

(* One upsert_proxy of the fetched list. *)
Ingest(l, p) ==
  /\ job[l] = "ingesting"
  /\ p \notin deleted
  /\ rows' = Upserted(p)
  /\ UNCHANGED <<deleted, shared, loaders, requests>>

(* admin_add_proxy upserts one row and leaves the pool alone. *)
AdminAdd(p) ==
  /\ jobs < MaxJobs
  /\ jobs' = jobs + 1
  /\ p \notin deleted
  /\ rows' = Upserted(p)
  /\ UNCHANGED <<deleted, shared, job, snapshot, requests>>

(* load: the SELECT ... *)
LoadRead(l) ==
  /\ job[l] \in {"ingesting", "changed"}
  /\ job' = [job EXCEPT ![l] = "loading"]
  /\ \E order \in SetToSeqs(Active) : snapshot' = [snapshot EXCEPT ![l] = order]
  /\ UNCHANGED <<jobs, table, shared, requests>>

(* ... and then the write lock. *)
LoadWrite(l) ==
  /\ job[l] = "loading"
  /\ job' = [job EXCEPT ![l] = "idle"]
  /\ SetPool(snapshot[l])
  /\ snapshot' = [snapshot EXCEPT ![l] = <<>>]
  /\ UNCHANGED <<jobs, table, requests>>

-----------------------------------------------------------------------------
(* Completion requests. *)

Goto(r, place) == pc' = [pc EXCEPT ![r] = place]

(* The handler decides on the bypass: the key's permission, the setting    *)
(* proxy.enabled (either value) and a first look at the pool.              *)
Admit(r, may, enabled, stream) ==
  /\ pc[r] = "idle"
  /\ admitted < MaxRequests
  /\ admitted' = admitted + 1
  /\ Goto(r, "admitted")
  /\ bypass' = [bypass EXCEPT ![r] = may /\ pool # <<>> /\ enabled]
  /\ streaming' = [streaming EXCEPT ![r] = stream]
  /\ tried' = [tried EXCEPT ![r] = <<>>]
  /\ UNCHANGED <<attempt, total, current, table, shared, loaders>>

(* The blocking task looks again: without a pool it calls directly. *)
Begin(r) ==
  /\ pc[r] = "admitted"
  /\ Goto(r, IF bypass[r] /\ pool # <<>> THEN "sizing" ELSE "direct")
  /\ UNCHANGED <<bypass, streaming, attempt, total, current,
                 admitted, tried, table, shared, loaders>>

(* A slip to be caught: the pool may be shorter than the loop. *)
SizeUncapped(r) ==
  /\ pc[r] = "sizing"
  /\ Goto(r, "picking")
  /\ attempt' = [attempt EXCEPT ![r] = 1]
  /\ total' = [total EXCEPT ![r] = MAX_ATTEMPTS]
  /\ disturbed' = [disturbed EXCEPT ![r] = FALSE]
  /\ UNCHANGED <<pool, cursor, bypass, streaming, current, admitted,
                 tried, table, loaders>>

(* MAX_PROXY_ATTEMPTS.min(pool.len()): one more use of the lock. *)
Size(r) ==
  /\ pc[r] = "sizing"
  /\ Goto(r, "picking")
  /\ attempt' = [attempt EXCEPT ![r] = 1]
  /\ total' = [total EXCEPT ![r] =
       IF Len(pool) < MAX_ATTEMPTS THEN Len(pool) ELSE MAX_ATTEMPTS]
  /\ disturbed' = [disturbed EXCEPT ![r] = FALSE]
  /\ UNCHANGED <<pool, cursor, bypass, streaming, current, admitted,
                 tried, table, loaders>>

Pick(r) ==
  /\ pc[r] = "picking"
  /\ attempt[r] <= total[r]
  /\ pool # <<>>
  /\ Goto(r, "calling")
  /\ current' = [current EXCEPT ![r] = Nth(attempt[r] - 1)]
  /\ tried' = [tried EXCEPT ![r] = Append(@, current'[r])]
  /\ UNCHANGED <<bypass, streaming, attempt, total, admitted,
                 table, shared, loaders>>

(* The request has ended: nothing of it is left. *)
Over(r) ==
  /\ Goto(r, "idle")
  /\ bypass' = [bypass EXCEPT ![r] = FALSE]
  /\ streaming' = [streaming EXCEPT ![r] = FALSE]
  /\ attempt' = [attempt EXCEPT ![r] = 0]
  /\ total' = [total EXCEPT ![r] = 0]
  /\ current' = [current EXCEPT ![r] = NoProxy]
  /\ tried' = [tried EXCEPT ![r] = <<>>]
  /\ UNCHANGED admitted

(* A slip to be caught: a pool that became empty does not end the loop. *)
RunOutAfterLast(r) ==
  /\ pc[r] = "picking"
  /\ attempt[r] > total[r]
  /\ Over(r)
  /\ UNCHANGED <<table, shared, loaders>>

(* The loop is over, the pool is empty, or no client can be built. *)
RunOut(r) ==
  /\ pc[r] = "picking"
  /\ Over(r)
  /\ UNCHANGED <<table, shared, loaders>>

TryNext(r) ==
  /\ Goto(r, "picking")
  /\ attempt' = [attempt EXCEPT ![r] = @ + 1]
  /\ current' = [current EXCEPT ![r] = NoProxy]
  /\ UNCHANGED <<bypass, streaming, total, admitted, tried>>

(* A slip to be caught: a success makes up for one failure. *)
SucceedOnce(r) ==
  /\ pc[r] = "calling"
  /\ rows' = IF current[r] \in DOMAIN rows
             THEN Update(current[r], [is_active  |-> TRUE,
                           fail_count |-> rows[current[r]].fail_count - 1])
             ELSE rows
  /\ cursor' = cursor + attempt[r]
  /\ Disturb
  /\ Over(r)
  /\ UNCHANGED <<deleted, pool, loaders>>

(* mark_success, and the cursor moves past the attempts made. *)
Succeed(r) ==
  /\ pc[r] = "calling"
  /\ rows' = IF current[r] \in DOMAIN rows
             THEN Update(current[r], NewRow) ELSE rows
  /\ cursor' = cursor + attempt[r]
  /\ Disturb
  /\ Over(r)
  /\ UNCHANGED <<deleted, pool, loaders>>

(* 429: the same proxy stays in the pool. *)
RateLimited(r) ==
  /\ pc[r] = "calling"
  /\ TryNext(r)
  /\ UNCHANGED <<table, shared, loaders>>

(* mark_failure: first the row.  A plain request fails its proxy for       *)
(* network errors and timeouts only, a stream for any other error as well. *)
MarkFailed(r) ==
  /\ pc[r] = "calling"
  /\ Goto(r, "removing")
  /\ rows' = IF current[r] \in DOMAIN rows
             THEN Update(current[r], Failed(rows[current[r]])) ELSE rows
  /\ UNCHANGED <<deleted, bypass, streaming, attempt, total,
                 current, admitted, tried, shared, loaders>>

(* ... then pool.retain, and the next attempt. *)
RemoveFailed(r) ==
  /\ pc[r] = "removing"
  /\ SetPool(Without(pool, current[r]))
  /\ TryNext(r)
  /\ UNCHANGED <<table, loaders>>

(* Authentication errors end both loops; of the plain loop also a model    *)
(* that is not found, and any remaining error from the second attempt on.  *)
StopTrying(r) ==
  /\ pc[r] = "calling"
  /\ Over(r)
  /\ UNCHANGED <<table, shared, loaders>>

(* A remaining error of the first plain attempt: one more proxy. *)
OtherError(r) ==
  /\ pc[r] = "calling"
  /\ ~streaming[r]
  /\ attempt[r] < 2
  /\ TryNext(r)
  /\ UNCHANGED <<table, shared, loaders>>

(* A direct call touches no proxy, whatever its outcome. *)
DirectEnds(r) ==
  /\ pc[r] = "direct"
  /\ Over(r)
  /\ UNCHANGED <<table, shared, loaders>>

RequestStep(r) ==
  \/ Begin(r)
  \/ Size(r)
  \/ Pick(r)
  \/ RunOut(r)
  \/ Succeed(r)
  \/ RateLimited(r)
  \/ MarkFailed(r)
  \/ RemoveFailed(r)
  \/ StopTrying(r)
  \/ OtherError(r)
  \/ DirectEnds(r)

(* The server stops and starts again: what is not in the table is gone.    *)
(* The pool is loaded only if proxy.enabled is set.                        *)
Restart(enabled) ==
  /\ jobs < MaxJobs
  /\ jobs' = jobs + 1
  /\ IF enabled THEN pool' \in SetToSeqs(Active) ELSE pool' = <<>>
  /\ cursor' = 0
  /\ Disturb
  /\ job' = [l \in Loader |-> "idle"]
  /\ snapshot' = [l \in Loader |-> <<>>]
  /\ pc' = [r \in Request |-> "idle"]
  /\ bypass' = [r \in Request |-> FALSE]
  /\ streaming' = [r \in Request |-> FALSE]
  /\ attempt' = [r \in Request |-> 0]
  /\ total' = [r \in Request |-> 0]
  /\ current' = [r \in Request |-> NoProxy]
  /\ tried' = [r \in Request |-> <<>>]
  /\ UNCHANGED <<table, admitted>>

Next ==
  \/ \E l \in Loader :
       \/ Refresh(l)
       \/ LoadRead(l)
       \/ LoadWrite(l)
       \/ \E p \in Proxy :
            \/ AdminActivate(l, p)
            \/ AdminDeactivate(l, p)
            \/ AdminDelete(l, p)
            \/ Ingest(l, p)
  \/ \E p \in Proxy : AdminAdd(p)
  \/ \E r \in Request :
       \/ \E may, enabled, stream \in BOOLEAN : Admit(r, may, enabled, stream)
       \/ RequestStep(r)
  \/ \E enabled \in BOOLEAN : Restart(enabled)

(* Calls have timeouts and the locks are held for single statements, so a  *)
(* request that was admitted keeps moving.                                 *)
Spec == Init /\ [][Next]_vars /\ \A r \in Request : WF_vars(RequestStep(r))

-----------------------------------------------------------------------------
Distinct(s) == \A i, j \in DOMAIN s : i # j => s[i] # s[j]

Row == [is_active : BOOLEAN, fail_count : Nat]

(* Every part of the system has its type. *)
TypeOK ==
  /\ rows \in [DOMAIN rows -> Row]
  /\ DOMAIN rows \subseteq Proxy
  /\ deleted \subseteq Proxy
  /\ pool \in Seq(Proxy)
  /\ cursor \in Nat
  /\ job \in [Loader -> {"idle", "ingesting", "changed", "loading"}]
  /\ snapshot \in [Loader -> Seq(Proxy)]
  /\ jobs \in Nat
  /\ pc \in [Request -> RequestPc]
  /\ bypass \in [Request -> BOOLEAN]
  /\ streaming \in [Request -> BOOLEAN]
  /\ attempt \in [Request -> Nat]
  /\ total \in [Request -> Nat]
  /\ current \in [Request -> Proxy \union {NoProxy}]
  /\ admitted \in Nat
  /\ tried \in [Request -> Seq(Proxy)]
  /\ disturbed \in [Request -> BOOLEAN]

(***************************************************************************)
(* docs/DATABASE.md:269, "automatically disabled after 5 consecutive       *)
(* failures": is_active and fail_count, which different statements write,  *)
(* never contradict each other, so the SELECT may test both or either.     *)
(***************************************************************************)
DisabledAtLimit ==
  \A p \in DOMAIN rows : rows[p].is_active <=> rows[p].fail_count < FAIL_LIMIT

(***************************************************************************)
(* Overlapping loads, removals and restarts never put a proxy into the     *)
(* pool twice.                                                             *)
(***************************************************************************)
PoolDistinct == Distinct(pool)

(***************************************************************************)
(* As long as nobody changes the pool or moves the cursor, a request never *)
(* calls through the same proxy twice: the number of attempts and the      *)
(* modulus of nth fit together at every cursor.                            *)
(***************************************************************************)
NoRepeatUndisturbed ==
  \A r \in Request : disturbed[r] \/ Distinct(tried[r])

(***************************************************************************)
(* The loops are bounded by the pool a request found, however the pool     *)
(* grows, shrinks or is replaced under it: every request ends.             *)
(***************************************************************************)
RequestEnds == \A r \in Request : pc[r] # "idle" ~> pc[r] = "idle"

=============================================================================
