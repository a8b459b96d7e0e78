------------------------------ MODULE AutoRefresh ------------------------------
(***************************************************************************)
(* `omrp serve` around the proxy pool: run() in omrp-runtime/src/          *)
(* web_server.rs loads the pool, fills it when it is empty and spawns the  *)
(* auto-refresh task, all of it only if the setting proxy.enabled is set   *)
(* when the server starts; administrators change the setting while it      *)
(* runs.  The pool, its table and the requests are module ProxyPool: the   *)
(* task is a loader of its own, the refresh at start any other.            *)
(*                                                                         *)
(* The task's sleep takes any time.  proxy.source_url is seeded and cannot *)
(* be deleted, so there is always a list to fetch; a fetch may yield       *)
(* nothing.                                                                *)
(***************************************************************************)
EXTENDS ProxyPool

CONSTANTS
  Background,    \* the loader that is the auto-refresh task
  MaxSettings    \* bound: changes of proxy.enabled

ASSUME RefreshAssumption ==
  /\ Background \in Loader
  /\ MaxSettings \in Nat

VARIABLES
  enabled,   \* the setting proxy.enabled
  settings,  \* changes of it so far
  initial,   \* the refresh at start is still to be done
  task,      \* the auto-refresh task, see TaskPlace
  steady     \* enabled since the server started

serving == <<enabled, settings, initial, task, steady>>

allvars == <<vars, serving>>

TaskPlace == {"absent", "sleeping", "woken", "refreshing", "ended"}

(* The tasks spawned by a server that finds the setting `on` and a pool.   *)
Spawn(on, entries) ==
  /\ initial' = (on /\ entries = <<>>)
  /\ task' = IF on THEN "sleeping" ELSE "absent"
  /\ steady' = on

ServeInit ==
  /\ Init
  /\ enabled \in BOOLEAN
  /\ settings = 0
  /\ initial = enabled
  /\ task = IF enabled THEN "sleeping" ELSE "absent"
  /\ steady = enabled

Restarted ==
  /\ Restart(enabled)
  /\ Spawn(enabled, pool')
  /\ UNCHANGED <<enabled, settings>>

(* admin_set_setting *)
SetEnabled ==
  /\ settings < MaxSettings
  /\ settings' = settings + 1
  /\ enabled' = ~enabled
  /\ steady' = FALSE
  /\ UNCHANGED <<vars, initial, task>>

-----------------------------------------------------------------------------
(* The two background tasks. *)

Fetch(l) ==
  /\ job[l] = "idle"
  /\ job' = [job EXCEPT ![l] = "ingesting"]
  /\ UNCHANGED <<snapshot, jobs, table, shared, requests>>

FillPool(l) ==
  /\ initial
  /\ Fetch(l)
  /\ initial' = FALSE
  /\ UNCHANGED <<enabled, settings, task, steady>>

TaskStep(from, to) ==
  /\ task = from
  /\ task' = to
  /\ UNCHANGED <<enabled, settings, initial, steady>>

(* `if !still_on { break; }`: for good, whatever the setting becomes. *)
Wake ==
  /\ TaskStep("sleeping", IF enabled THEN "woken" ELSE "ended")
  /\ UNCHANGED vars

FetchList ==
  /\ TaskStep("woken", "refreshing")
  /\ Fetch(Background)

(* A slip to be caught: one refresh, and the task is done. *)
RefreshedOnce ==
  /\ TaskStep("refreshing", "ended")
  /\ job[Background] = "idle"
  /\ UNCHANGED vars

(* The pool is loaded: sleep again. *)
Refreshed ==
  /\ TaskStep("refreshing", "sleeping")
  /\ job[Background] = "idle"
  /\ UNCHANGED vars

Task ==
  \/ Wake
  \/ FetchList
  \/ LoadRead(Background) /\ UNCHANGED serving
  \/ LoadWrite(Background) /\ UNCHANGED serving
  \/ Refreshed

-----------------------------------------------------------------------------
(* The steps of module ProxyPool.  Requests read the setting as it is;     *)
(* only administrators' loaders are started by hand.                       *)
PoolStep ==
  \/ \E l \in Loader :
       \/ LoadRead(l)
       \/ LoadWrite(l)
       \/ \E p \in Proxy : Ingest(l, p)
  \/ \E l \in Loader \ {Background} :
       \/ Refresh(l)
       \/ \E p \in Proxy :
            AdminActivate(l, p) \/ AdminDeactivate(l, p) \/ AdminDelete(l, p)
  \/ \E p \in Proxy : AdminAdd(p)
  \/ \E r \in Request :
       \/ \E may, stream \in BOOLEAN : Admit(r, may, enabled, stream)
       \/ RequestStep(r)

ServeNext ==
  \/ PoolStep /\ UNCHANGED serving
  \/ Restarted
  \/ SetEnabled
  \/ \E l \in Loader \ {Background} : FillPool(l)
  \/ Task

(* Requests and the task keep moving: sleeps, calls and fetches end, and   *)
(* the locks are held for single statements.                               *)
ServeSpec ==
  /\ ServeInit
  /\ [][ServeNext]_allvars
  /\ \A r \in Request : WF_allvars(RequestStep(r) /\ UNCHANGED serving)
  /\ WF_allvars(Task)

-----------------------------------------------------------------------------
(***************************************************************************)
(* web_server.rs:245, "the pool is refreshed every refresh_interval        *)
(* seconds so the proxy list stays current": while the setting has been on *)
(* since the server started, the next refresh always comes, whatever       *)
(* requests and administrators do to the pool meanwhile.  (Once it was     *)
(* off, nothing but a restart brings the refreshes back.)                  *)
(***************************************************************************)
KeepsRefreshing == steady ~> (task = "refreshing" \/ ~steady)

=============================================================================
