# Formal model of OMRP

OMRP routes LLM requests to free models. It has two front ends over one
routing kernel: the command line (`omrp route`, `best`, `models`), which keeps
what it learns in a ledger file, and the server (`omrp serve`), which keeps
users, keys, proxies and logs in SQLite. This directory holds TLA+ modules
translated from the Rust source, TLC configurations that check them on small
instances, and TLAPS proofs of what matters most for every instance.

Paths below are relative to `crates/` of the repository.

## 1. Inventory

| Component | State | Operations | Talks to |
|---|---|---|---|
| Reducers (`omrp-core/src/reducers.rs`, `state.rs`) | `State`: models, health, inflight, routing cache, diagnostics | `dispatch`, one arm per event | pure; called by the pipeline |
| Pipeline (`pipeline.rs`, `omrp-events`) | the state and the event log | `process`, `replay`, `load_from_ledger`, `save_to_ledger` | reducers, ledger |
| Ledger (`ledger.rs`) | a JSON-lines file with a hash chain | `append`, `persist`, `load`, `verify_chain` | file system; every CLI process |
| Classifier (`classifier.rs`) | none | `classify_prompt`, `detect_mode_override` | called by `cmd_route` and the completion handler |
| Router, scorer (`router.rs`, `scorer.rs`) | none | `select`, `select_thompson`, `score` | reads `State` |
| CLI routing (`omrp-runtime/src/main.rs`, `routing.rs`) | one invocation: chain, outcome | `cmd_route`, `bootstrap_pipeline`, `select_for_tier` | pipeline, router, provider |
| Accounts and keys (`db.rs`, `auth.rs`, `web_server.rs`) | `users`, `api_keys`, tokens | setup, register, create, edit, reset, revoke, delete | SQLite, one lock per statement |
| Login guard (`db.rs`, `web_server.rs`) | a row per name: attempts, last attempt, lock | check, record, clear | wall clock |
| Completion handler (`web_server.rs`) | per request: permissions, model, provider, key, attempt | authorise, limit, route, dispatch, log | api keys, provider keys, pool, provider |
| Provider client (`provider.rs`) | none | `complete_with_retry`, `stream_request` | network |
| Proxy pool (`proxy.rs`, `db.rs`) | `proxies` table, in-memory list, cursor | `load`, `nth`, `advance`, `mark_success`, `mark_failure`, ingest | request threads, admin handlers, refreshers |
| Background tasks (`web_server.rs`, `run`) | `proxy.enabled`, a task that sleeps and refreshes | fill the pool at start, refresh, stop | settings, proxy pool |
| Roles, announcements, statistics, audit | tables | insert, list | nothing depends on them |
| RTK, caveman, validation, config, dashboard | none | pure text functions | - |

What is hard here, and what must hold:

* **Reducers.** Five arms update health by hand; registry, health and inflight
  are three maps kept by separate statements; time is derived from counters, so
  it ties and, after `DaemonStarted`, goes back. Correct means: the maps agree,
  the cached garbage flag is current, observations are never lost, and the
  derived order is the real one.
* **Ledger.** A whole-file rewrite without a lock or a temporary file: crashes,
  failed writes and overlapping processes. Correct means: what is saved stays,
  and what loads is a history that really happened.
* **Classifier and ranking.** Fifteen scores, boundaries, two overrides and a
  confidence that may be too low to decide; five weighted factors of which one
  rewards observations whatever they say. Correct means: each input pulls its
  own way, and there is always a decision.
* **CLI routing.** A chain chosen once and worked off while failures change what
  it was chosen by; five ways out of the loop; counters paired across events; a
  save that may be cut short. Correct means: the chain stays sound, the counters
  agree, and what was learned is kept as long as saves complete.
* **Accounts.** Check-then-act and read-modify-write over single-statement
  transactions, rows created in pairs, tokens that outlive what they say.
  Correct means: one key per account, and claims that are true.
* **Login guard.** The lock is read before a slow password check and written
  after it. Correct means: enough failures lock, only overlapping logins slip
  through, and a lock ends.
* **Completions.** The caller's key is looked up three times, provider keys
  change under the request, and the loop has six ways out. Correct means: every
  request is judged by its own permissions, uses a key it may use, and is
  logged as it was answered, but for a task that panics.
* **Proxy pool and its refresh.** Statements on a row, a list behind a lock and
  an atomic cursor, used by request threads, admin handlers and refreshers with
  no common lock; a background task that can end. Correct means: row and list
  agree within limits, every request ends, and an enabled pool stays fresh.

`PROJECT.json` lists each hazard at its line with the properties that cover it.

## 2. Modules

| Module | Models | Variables |
|---|---|---|
| `Reducers` | `state.rs`, `reducers.rs`: one operator per event, from state to state | none |
| `Kernel` | `EventPipeline::process`: any event after any other | `state`, `events`, `restarts`; `outcome` remembers the last observation of each model |
| `Ledger` | the file and the processes that load and rewrite it | `file`, per process `pc`, `log`, `written`; `interrupts`; `started` and `saved` remember histories |
| `AppendOnlyLog` | what the ledger promises: a history that only grows at its end | `history` |
| `Ranking` | `scorer.rs`, `router.rs`: factors, score, candidates, order | none |
| `Route` | `cmd_route`, invocation after invocation over the ledger | `saved`, `mem`, `average`, `past`, `pc`, `chain`, `runs`, `cuts` |
| `Classifier` | `classifier.rs` and the precedence of flag, prefix and classifier | `flag`, `prefix`, `prompt` |
| `ProxyPool` | proxy table, pool, retry loops, admin handlers, refreshers | see the module; `tried`, `disturbed` are remembered |
| `AutoRefresh` | `run()` around the pool: start, background task, `proxy.enabled` | those of `ProxyPool`; `enabled`, `settings`, `initial`, `task`; `steady` is remembered |
| `Accounts` | users, API keys, tokens and the handlers that change them | `users`, `keys`, `tokens`, `spent`, `todo`, `caller`, `calls`, `used`; `revoked`, `cut`, `stale` are remembered |
| `LoginGuard` | the lock of a login name | `attempts`, `since`, `lock`, `verifying`; `recent` is remembered |
| `ProviderClient` | `provider.rs`: replies to errors, the retry, client construction | none |
| `Completions` | `proxy_completions` and `proxy_models` | `key`, `vault`, `log`, `old`, `proxyLog`, `req`, `changes` |
| `MCKernel`, `MCLedger`, `MCRoute`, `MCProxyPool`, `MCAccounts`, `MCCompletions`, `MCClassifier` | instances for TLC: symmetry sets, small tables, closed forms compared with the loops they stand for | |
| `ReducersProofs`, `KernelProofs`, `RouteProofs`, `LedgerProofs`, `ProxyPoolProofs`, `LoginGuardProofs`, `AccountsProofs`, `CompletionsProofs` | lemmas and theorems | |

How they are put together: `Kernel` and `Ranking` extend `Reducers`, and `Route`
extends `Ranking`, so the same operators serve the pipeline in isolation, where
every order of events is possible, and the command line, where only the orders
`cmd_route` produces are. `Route` treats the file as the state it replays to,
and its prefixes as theirs; how the file comes to hold lines is `Ledger`.
`AutoRefresh` extends `ProxyPool` with the server around it. `Completions`
extends `ProviderClient`; towards the pool it keeps only how many proxies it
offers and that it may run out, towards `Accounts` that an account's key may be
in any state and change at any time, and towards the router that any registered
model, or none, may be chosen. "Remembered" variables are read by no guard of
the code; only properties read them.

Correspondence, module by module:

* **Reducers.** `CurrentTime` is `State::current_time().seq`. A timestamp is a
  `seq` (its `logical_time` is always `seq - 1`, so pairs compare as seqs do).
  The Wilson test is done over the integers: the bound lies under 3/20 iff
  `p <= 3/20` or `(p - 3/20)^2 < z^2 (3/20)(17/20) / n`. Reasons and versions
  are left out; latency averages are kept by `Route`, whose ranking reads them.
* **Kernel.** Each action is `process()` of one valid event. A rejected event
  changes nothing, and `ConfigReloaded` and `DaemonStopped` have no arm.
* **Ledger.** `StartSave` is `File::create`, which truncates; `WriteLine` one
  `writeln!`; `Interrupt` a kill or a failed write, which may leave part of a
  line. `Boot` is `load_from_ledger(..).unwrap_or_else(new)`. A checksum is the
  sequence of events it covers (no collisions). A line has one width, so a
  process whose file was truncated under it goes on at its own line number.
* **Ranking.** Each factor is a whole number of 1/100000, already weighted.
  Two scores closer than `Slack` may be ordered either way, as rounding of the
  `f64` might; equal ones too, although the code orders those by id.
* **Route.** `Start` is everything up to `CompletionRequested`; `Skip` the
  `continue` without a client; `Succeed`, `AuthError`, `Fail`, `GiveUp` the ends
  of one attempt or of the loop (`Exit`: `save_ledger` is called). `Save` is a
  `persist` that completes; `CutSave` one that is killed or whose write fails. It
  leaves the old file (not truncated yet), nothing (a torn line: the file does
  not load and counts as empty) or what some first lines replay to: `past` holds
  the states on the way, for the file and for the running invocation. `Kill` is
  the end of the process before the save. What two overlapping invocations do to
  the file is in `Ledger` only.
  A provider may answer under any model name, known or not. `Bootstrapped`
  registers all new models at once; that this is the loop of `ModelAdded` is an
  assumption that `MCRoute` has TLC evaluate, as is that `Total`, the number of
  units in a map of numbers, is their sum.
* **Classifier.** A prompt is what the classifier sees of it: how many keywords
  of each list it contains, its length, and whether it asks for structured
  output. The actions write a prompt word by word; each state is one call.
* **ProxyPool.** One action per SQL statement, per use of the pool's lock and
  per use of the cursor. The handler's decision on the bypass (`Admit`), the
  second look at the pool (`Begin`) and the length taken for the loop (`Size`)
  are three steps, as in the code. `Without` is `retain` on the list, and
  `MCProxyPool` compares it with the library's `Remove` on every list of up to
  four entries. The streaming and the plain loop share the
  actions; where they differ (which errors end the loop) the guard says so.
* **AutoRefresh.** `Spawn` is the part of `run()` that depends on the setting at
  start; `Wake`, `FetchList`, the loader's steps and `Refreshed` are one round
  of the task's loop. `SetEnabled` is `admin_set_setting` on `proxy.enabled`.
* **Accounts.** Every method of `Database` is one statement under one lock, so a
  handler is the list `todo` of the statements it still has to run; a request
  (`SetupInit`, `Register`, `AdminRequest`, ...) puts the list there, a
  statement (`RunInsertUser`, `RunInsertKey`, ...) is a step, and `Restart`
  drops the lists. `authenticate` is two steps, the row read and the token
  signed after the slow password check; `caller` holds the claims in between.
  Permissions are two of their four fields.
* **LoginGuard.** Instants are kept as ages: `since` the last attempt, and
  `lock` seconds ahead, neither further than a comparison can tell. `recent`
  is the set of the failures of the window, each with its age and a mark that
  tells it from others of the same second.
* **ProviderClient.** `Reply` is anything the network can do; `MapHttpError`,
  `Complete` and `Stream` say which error each becomes.
* **Completions.** `pc` walks through the handler: counting, judging, keying,
  limiting, choosing, probing, resolving, dispatching, trying, calling. Every
  SQL statement is a step (`FindKey` looks up the key whose lines `CheckLimit`
  counts). The two loops share their actions; what a plain request logs and a
  stream does not is in the guards. `Cut` are the model ids whose byte 30 is
  inside a character: a plain request for one panics in the blocking task when it
  is about to use a proxy, and is answered with 500 (`Panic`). `AnyModel` is the
  entry "*" of `allowed_models`, and `FreeModels` the list of each provider.

Operators introduced by "A slip to be caught" are variants of the definition
after them, as a plausible bug would leave it. No specification uses them; each
shows that a property can fail: with the variant in place of the definition, TLC
reports the property violated (`PROJECT.json`, "mutants").

## 3. What is checked

| Run | Checks | Instance | Distinct states |
|---|---|---|---|
| `MCKernel` | `TypeOK`, `RegistryAgrees`, `GarbageFlagFresh`, `GarbageLastFailed`, `HealthAccumulates` | 2 models, 7 events, 1 restart | 2,215,910 |
| `MCLedgerShared` | `TypeOK`, `NoHybridHistory` | 2 processes, 2 events, histories to 2, 1 interruption | 1,544,397 |
| `MCLedgerSolo` | `SavedHistorySurvives`, `ImplementsAppendOnlyLog` | 1 process, histories to 4, none interrupted | 4,550 |
| `MCRoute` | `TypeOK`, `ChainStaysSound`, `FailuresBalance`, `InflightBounded`, `RouteEnds`, `FailureCosts`, `SavedHealthGrows`, `GarbageStaysUntried` | 2 configurable models, 1 foreign name, 1 latency, 4 invocations, 1 save of the first two cut short | 270,696 |
| `MCClassifier` | `PromptTypeOK`, `AlwaysDecided`, `KeywordsPull` | 4 keywords, 5 lengths, 4 openings | 59,844 |
| `MCProxyPool` | `TypeOK`, `DisabledAtLimit`, `NoRepeatUndisturbed` | 3 proxies, 2 requests, 2 loaders, 2 attempts, 2 jobs | 393,677 |
| `MCAutoRefresh` | `RequestEnds`, `KeepsRefreshing` | 2 proxies, 1 request, the task and 1 other loader, 1 change of the setting | 539,792 |
| `MCAccounts` | `TypeOK`, `OneKeyPerAccount`, `ClaimsMatch`, `RevokedStaysRevoked`, `LastAdminDeletedByStranger`, `UpdateKeepsOtherFields` | 3 users, 3 keys, 2 handlers, 5 requests or restarts | 285,133 |
| `MCLogin` | `TypeOK`, `FailuresLock`, `AttemptsBounded`, `LockEnds` | 3 logins, limit 5, window 4 s, lock 6 s | 6,011 |
| `MCCompletions` | `TypeOK`, `OwnPermissions`, `SecretIsShared`, `AnswersMatchLog`, `CallsBounded` | 2 symmetric requests one after the other, 1 account, 3 providers, 5 models, 2 changes, 2 attempts | 1,286,181 |

What they show, beyond types:

* `GarbageLastFailed`: until a restart the derived clock orders observations, so
  only a model that failed last is excluded.
* `NoHybridHistory`: what loads is a prefix of one history some process held.
  `ImplementsAppendOnlyLog`: a single process keeps the ledger's promise.
* `ChainStaysSound`: no candidate still ahead has become garbage.
  `FailureCosts`: a failure always lowers what a model is worth, although it
  also raises its stability. `SavedHealthGrows`: an invocation whose save is not
  cut short, however else it ends and with whatever config it starts, leaves every
  model that was saved, no count lower and no observation older; a save that is
  cut short may lose all of that (section "Statements the code does not keep"),
  but leaves no model, count or observation that the invocation did not have.
  `GarbageStaysUntried`: unless a save is cut short, the command line never calls
  a model again that is saved as garbage, so the recovery of docs/ROUTING.md:180
  needs an answer that another model gives under its name.
* `AlwaysDecided`: every score is at least as confident as the threshold, so the
  fallbacks for an undecided prompt are never used. `KeywordsPull`: no keyword
  lowers a tier except the simple ones, which never raise it.
* `NoRepeatUndisturbed`: a request whose pool nobody changes never meets the
  same proxy twice. `KeepsRefreshing`: as long as proxies were enabled since the
  start, refreshes keep coming.
* `OneKeyPerAccount`: no interleaving gives an account two keys; only a restart
  leaves an account without one. `RevokedStaysRevoked`: a handler that read a key
  while it was active and writes its permissions after the key was revoked does
  not bring it back.
  `ClaimsMatch`: claims are never looked up again, and are true all the same.
  `LastAdminDeletedByStranger`: only a caller without an account deletes the
  last administrator. `UpdateKeepsOtherFields`: a change of permissions loses
  another only when the two overlap.
* `FailuresLock`, `AttemptsBounded`, `LockEnds`: the lock engages at the limit,
  is overrun by overlapping logins only, and ends.
* `OwnPermissions`, `SecretIsShared`, `AnswersMatchLog`, `CallsBounded`: see
  section 1. `AnswersMatchLog` names the one way a plain request that was to be
  sent leaves no line, the panic at byte 30; `CallsBounded` counts what the retry
  inside the rotation multiplies to.

Why the bounds are enough:

* A model is added, needs five observations to be condemned, and a seventh event
  readmits it or restarts the daemon. Two models are enough for a registry to
  mix them up.
* A mixture of two histories needs two processes and two lines; a chain longer
  than two repeats the same step. A third process would have to interleave with
  a mixture that the second one already could not make.
* A failed call counts two observations, so four invocations condemn a model and
  then route past it. A save that is cut short needs one invocation before it,
  whose history it loses, and one after it, which routes by what is left; so
  the saves of the first two invocations may be cut short (`LastCut`). Two
  candidates are a chain with a head and a tail. One latency is enough to order
  models by it, since the average of a model starts at 0 and moves with each
  answer.
* No list of keywords distinguishes more than four hits, and the lengths lie on
  either side of each limit.
* A request that runs past the end of a pool needs a pool shorter than its
  loop, one that has more proxies than attempts, and a change in between: three
  proxies and two attempts, so that a pool has more, as many, or fewer.
  `FAIL_LIMIT` is 2 instead of 5: only the tests against it matter, and the
  proof covers every value.
* Statements of two handlers are enough for every race between two statements;
  five requests are: set up, two further accounts, and two that collide. The
  proofs cover any number of users, keys, handlers and requests.
* The window and the lock are seconds, fewer than in the code, in the same
  order; three logins overlap, one more than needed to overrun the limit.
* One restricted grant differs from the default in every field. Requests run one
  after the other because they meet only in the tables, which two changes alter
  in between; the hourly limit needs two requests. One model id cannot be cut.

The bounded counters (`MaxEvents`, `MaxLen`, `MaxRuns`, `MaxCuts`, `LastCut`,
`MaxRequests`, `MaxJobs`, `MaxSettings`, `MaxCalls`, `MaxChanges`, `MaxOpen`, `MaxMarkers`)
make a run stop, so deadlock is not checked where one of them can disable
everything; the ledger, whose processes can always boot and leave, and the
login guard, where time passes, are checked for deadlock.

**Fairness.** `Route`: `WF_vars(Step)`, because the loop is sequential code
whose calls have a connect and a read timeout (`provider.rs:443-445`); nothing
makes anyone start an invocation, and `Kill` and `CutSave` are never required.
`ProxyPool` and `AutoRefresh`: weak fairness of each request's own steps, for the same reason
and because the locks are held for single statements; in `AutoRefresh` also of
the background task, which only sleeps, fetches with a timeout and loads.
Admin handlers, other refreshers and restarts have none. `LoginGuard`:
`WF_vars(Tick)`, time passes; nobody has to log in. The other modules have no
liveness property.

### Statements the code does not keep

Two runs check a statement of the repository, and TLC finds a behaviour that
breaks it.

| Run | Statement | What happens |
|---|---|---|
| `MCAccountsReset` | README.md:58, "old key immediately deactivated, new key generated" | the old key is deactivated, then the unique index on `user_id` (`db.rs:209`) refuses the new row; the account is left without an active key |
| `MCCompletionsLimit` | db.rs:1239, "Used to enforce `rate_limit_per_hour`" | lines of the log carry no key id (`web_server.rs:1956`) and streams leave none, so the count stays 0 |

More disagreements, plain from the code or seen in a counterexample of a
stronger property, have no run of their own:

* `DaemonStarted` resets the clock; an old failure then looks newer than a
  success, against "last event was a failure" (docs/ROUTING.md:176,
  `reducers.rs:52`). Probes and reports do not tick it, so a failure right after
  a success ties with it (`reducers.rs:42`).
* An event about an unregistered model leaves an inflight entry
  (docs/ARCHITECTURE.md:260, `reducers.rs:82`).
* Of two overlapping invocations the later save drops what the earlier one
  saved, and an interrupted save loses saved history, because the file is
  truncated first and a file that does not load counts as empty (README.md:208,
  "history cannot be rewritten"; `ledger.rs:214`, `main.rs:43`). `CutSave` does
  that in `Route`, and the exception in `SavedHealthGrows` is this loss.
* An invocation that ends with an authentication error, or is answered under
  another name, leaves its inflight count behind for good
  (execution-semantics.md:174, "concurrent load tracking"; `main.rs:293`).
* The latency average starts at 0 and is moved by a twentieth, so the latency
  factor of a model with few observations exceeds 1 (docs/ROUTING.md:124, :131).
* Removing a failed proxy shifts the pool under the index of the same request,
  which comes back to a proxy it has used (proxy.rs:113, "without repeating").
* The answer of a call under way activates a proxy that an administrator has
  deactivated meanwhile (db.rs:1100). A list read earlier is written to the pool
  later, with a proxy disabled in between (proxy.rs:136).
* A permitted request goes out directly when the pool is empty or the setting is
  off (docs/WEB.md:248, `web_server.rs:1758`).
* Global provider keys are preferred to a user's own (`db.rs:795`; `pop()` takes
  the only row of `LIMIT 1`), against docs/PROVIDERS.md:69.
* A fallback model whose id names no provider is sent to OpenRouter, with or
  without a key for it (`web_server.rs:1700`, `:1739`); the public list of models
  shows it as available.
* A session whose key was revoked is judged by `admin_default`
  (`web_server.rs:1616`), while a caller with a revoked key gets the default;
  with the last active key revoked the router is open to everyone
  (`web_server.rs:1592`).
* `proxy.enabled` switched on at run time starts no refresh, and a task that
  finds it off ends for good (`web_server.rs:257`, `:270`).
* The name of a model is cut at byte 30 for a log line, which panics inside a
  character; the request ends with 500 and without a line (`web_server.rs:1932`,
  `:2038`). `Panic` is that exit.
* `admin_update_user` sets `is_active` before it refuses a short password
  (`web_server.rs:669`). Overlapping `setup_init` calls create two
  administrators (`web_server.rs:511`), and two administrators can delete each
  other (`web_server.rs:693`).
* The window of failed logins slides with every failure (`db.rs:1301`).
* A keyword list with duplicates or with words that contain each other counts
  one word twice; two such hits make a prompt REASONING. A prompt over 25,000
  tokens is COMPLEX even where its keywords say REASONING. The setting
  `routing.default_tier` (`db.rs:331`) is read by nothing, and by `AlwaysDecided`
  would never be needed.

## 4. What is proved

The proofs hold for every value of the constants, under the named assumptions of
the modules. What these say beyond types and finiteness, and why the code
justifies it:

* `LoginAssumption`: the lock outlasts the window (900 and 600 seconds), and at
  least one failure is needed.
* `PoolAssumption`: `FAIL_LIMIT` is at least 1 (it is 5).
* `TornIsNoEntry`: what is left of half a line is not taken for a whole one, as
  the JSON parser sees to.
* `RouteAssumption`: a config file lists finitely many models.
* `AccountsAssumption`: having no caller differs from every set of claims.
* `ClientAssumption`: the free models of two providers differ, as those of
  `free_models` do (`provider.rs:118-158`); `CompletionsAssumption`: "auto" and
  "*" are the names of no model.
* `ClassifierAssumption`: the mark for a flag or prefix that is absent is no tier.

All invariants and action properties of the runs are theorems except
`FailureCosts`, and so is the refinement of `AppendOnlyLog`.

* **Kernel.** `KernelInv` is inductive: types, `RegistryAgrees`,
  `GarbageFlagFresh`, `HealthBehindClock` and `FailureOrder`. `GarbageLastFailed`
  is not inductive: that a model which did not fail last is not garbage follows
  from the flag being fresh and from its last failure not being later than its
  last success, and that order survives a new observation only because no
  timestamp is ahead of the clock. `ReducersProofs` has one lemma per reducer;
  `KernelProofs` one step per action. From the invariant follow the invariants
  and the action property `HealthAccumulates`; `ClockLeads` states the part
  about the clock (`HealthBehindClock`) by itself.
* **Route.** All four invariants and two action properties, for any models,
  latencies and number of invocations and of saves cut short. `RouteInv` adds
  `Sound`, for the State on disk and in memory and for each one their logs pass
  through (`SoundLog`), since a save that is cut short may leave it: registry,
  health and inflight have one domain, inside the configured models. Without it
  the books would not balance: a failure is counted whether or not the model has
  a record. `OneMore` and `NoMore` say how a sum, as the cardinality of `Units`,
  follows one of its numbers; `FailedSound` that the two events of a failed call
  count two failures on either side and leave every other candidate's health
  alone, which is why the rest of the chain, in which no model comes twice
  (`RankingsFacts`, `TailFacts`), stays sound. A running step goes through
  `GoOnInv`, the end of the process through `LeaveInv`. `SavedHealthGrows` and
  `GarbageStaysUntried` compare a State with the one saved an invocation
  earlier, which no single step relates. `RecordInv` carries the comparison
  along (and was first checked by TLC): the running State is `Grown` from the
  saved one, it `Spares` what was saved as garbage, that is, has the very same
  record of it, until an answer under its name ends the loop (`Answers`), and
  both are `Behind` their clock, without which an observation could be older
  than the one it replaces. A failure keeps this because it is counted against a
  candidate, which by `ChainStaysSound` is not garbage (`FailedRecord`); an
  answer may count for any name (`AnsweredRecord`). For a save that is cut short
  it adds that the States a log passes through only grow (`InOrder`), so that
  any of them has no more than the invocation had (`CutSaveRecord`).
* **Classifier** (at the end of `RouteProofs`, since the command line asks for
  the tier first). `AlwaysDecided` and `KeywordsPull` for every prompt, of any
  length and with any keywords. No score of a list moves against its list
  (`ScoreKwFacts`, over its finitely many steps), the weighted sum keeps the
  order of its parts (`SumKeepsOrder`), tiers and confidence follow the score
  (`TierRises`, `EveryScoreDecided`), and the overrides for two reasoning
  keywords, long prompts and structured output only raise (`ClassifyRises`,
  `ClassifyFalls`). A slash prefix counts as soon as text follows it, and may be
  `/simple`: the tier does not fall then either, because a prompt without text
  is SIMPLE (`EmptyIsSimple`), as `PromptInv` adds that it has no keywords.
* **Ledger.** `LedgerInv` is `TypeOK` and `LinesAreEntries`: a line is torn, or
  the entry some process put at that place. `NoHybridHistory` then needs
  that a verified chain determines its history: `ChainDeterminesHistory` shows
  by induction on the line number (as a well-founded minimum, `LargestElement`)
  that the checksum of line `i` is the sequence of events of lines `1..i`; the
  last line is the entry of one history `h`, so the file is a prefix of `h`.
  `SavesAreKept` and `LedgerIsAppendOnly` hold under `Alone`, which the run
  `MCLedgerSolo` has too: one process, never interrupted (both fail without, see
  above). `SoloInv` says that the file is what the running save has written so
  far, or else a whole history, and that every saved history is a prefix of it.
  The refinement maps the history of `AppendOnlyLog` to `Durable`, what is being
  saved or what loads; each step of the file is a stutter, and the start of a
  save extends the history (`DurableInv`).
* **ProxyPool.** `DisabledAtLimit` for every `FAIL_LIMIT`: each statement on a
  row keeps `is_active` and `fail_count` in step (`RowFacts`, `UpsertFacts`).
  `PoolInv` gives the types, the distinct pool and `NoRepeatUndisturbed`, for any
  number of proxies, requests, loaders and attempts: while nobody disturbs its
  loop, a request's n-th attempt went to the n-th entry after the cursor, in a
  pool at least as long as the loop (`Walk`), and two entries less than the
  length of the pool apart differ (`NthFacts`). `PoolNeverRepeats` states the
  distinct pool by itself; the runs see it through `NoRepeatUndisturbed`, which a
  proxy that is in the pool twice breaks.
  `PoolSoundWhileServing` says the same of `AutoRefresh`: each step of the server
  is a step of the pool or the start of a fetch (`ServeStep`), and that start
  keeps the invariant (`FetchKeeps`).
* **LoginGuard.** `AttemptsBounded` and `FailuresLock` for any number of logins,
  any limit, window and lock. `AttemptsBounded` is not inductive: while the
  limit is reached inside the window, `LoginInv` adds, the lock is on and has run
  exactly as long as the last failure is old, so no login joins those that passed
  the check, and the counter and those logins together stay below the bound.
  When the window has passed, the next failure starts again at 1. This needs the
  lock to outlast the window. For `FailuresLock` it adds that no failure of the
  window is younger than the row's `last_at` and that the counter has missed none
  of them; `RecentAges` maps the failures of a second later back to those of now.
* **Accounts.** All six properties of the run, for any number of users, keys,
  handlers and requests. `AccountsInv` adds what the properties leave open about
  the statements a handler still has to run: what lists they form (`Todo`); that
  nothing names a user about to be created, not a token, a caller nor another
  handler (`Fresh`), or old claims could disagree with a new row; that a key
  belongs to a user that exists and no two keys to one (`Owned`, `OneEach`);
  that a user without a key still has a handler that is to insert it (`Keyed`);
  that a pending deletion comes from an administrator who is not its target, and
  claims about to be signed are a user's (`Acting`); and that permissions about
  to be written agree with the key except where the request named a field or the
  key changed meanwhile (`Editing`). `ListStep` and `KeyedStep` show once what a
  step may do to leave these parts; below them is one lemma per statement and
  per request. `LastAdminDeletedByStranger` then follows from `Acting` and
  `ClaimsMatch`: a caller who is a user is, as claimed, an administrator, and
  stays one. `RevokedStaysRevoked` is `KeysStayRevoked`: of the statements that
  write keys (`KeysChange`) only an insertion makes an active row, under a new
  id.
* **Completions.** All five invariants, for any number of requests, accounts,
  models, providers, proxies and changes of the tables. `CInv` has a part for
  each: `PermsInv`, that the caller's present permissions are among those it
  held and what judges the request is one of them or a default without a bypass;
  `SecretInv`, that the provider key resolved is of the provider called, and
  shared or the caller's own, which rests on the row with the smallest position
  being one of those that fit (`SmallestElement`, `ResolveFacts`); `LogInv`, that
  a request has no line before its answer and the line it should have after it,
  none if its task panicked, which only a model id that cannot be cut explains;
  `CallsInv`, that each attempt that is over made one call, or two without
  streaming, which `ControlInv` needs the bounds of the loop for.

Only model-checked, and why:

* `RouteEnds`, `RequestEnds`, `KeepsRefreshing`, `LockEnds`: liveness under
  fairness.
* `FailureCosts`: the square root in a score is found bit by bit (`Root`), and
  what that computes for every number needs an induction over data. Scores are
  also rounded, so for long records, which the run does not reach, the loss falls
  below the last place.
* That `Total`, `Bootstrapped` and `Without` compute what the loops do, for every
  argument (folds, whose induction is out of the prover's reach); TLC compares
  them on small arguments in every run.

## 5. Not modelled

* Roles and bindings, announcements, statistics and the audit log: rows that are
  written and listed and that nothing reads to decide anything.
* RTK, caveman, validation, configuration, dashboard and page: text functions
  and presentation, without state and about wording, which the models abstract.
* Thompson sampling, `ProxyPool::next` and `maybe_refresh`: called by nothing.
* `LIMIT 200` of a pool load, the expiry of API keys (never set), failures of
  SQLite itself, and overflow of 64-bit counters, which no history reaches.

## 6. What could follow

1. `ProxyPool` under `Completions` in one specification, so that one request is
   followed from its key to its proxy; each is checked against all the other can
   do instead.
2. The size guards of `compress_text` as operators over lengths.
