------------------------------ MODULE LoginGuard ------------------------------
(***************************************************************************)
(* The lock of a login name after too many failures: the row of            *)
(* login_attempts (db.rs) and the logins that read it before the password  *)
(* check and write it after (auth_login in web_server.rs, authenticate in  *)
(* auth.rs).  Each statement is a step; checking a password takes time, so *)
(* logins overlap, and one may be overtaken by any amount of time.         *)
(*                                                                         *)
(* One row is modelled: rows of other names never meet it.  All names that *)
(* are equal in lower case share the row, so whether an attempt names an   *)
(* account, an inactive one or the right password is its outcome.  The row *)
(* holds instants; the model holds how long ago, or how far ahead, they    *)
(* are, no further than the code can tell.                                 *)
(***************************************************************************)
EXTENDS Integers, FiniteSets

CONSTANTS
  Login,              \* logins that may overlap
  MAX_FAILED_LOGINS,  \* failures that lock (5)
  LOGIN_WINDOW_SECS,  \* silence after which counting starts over (600)
  LOGIN_LOCK_SECS     \* how long the lock lasts (900)

ASSUME LoginAssumption ==
  /\ IsFiniteSet(Login)
  /\ MAX_FAILED_LOGINS \in Nat \ {0}
  /\ LOGIN_WINDOW_SECS \in Nat
  /\ LOGIN_LOCK_SECS \in Nat
  /\ LOGIN_WINDOW_SECS < LOGIN_LOCK_SECS

VARIABLES
  attempts,  \* the row's counter; 0 stands for no row
  since,     \* seconds since last_at, at most Silent
  lock,      \* seconds until locked_until, 0 once it has passed
  verifying, \* logins past the lock check whose password is being checked
  recent     \* the failures of the window not cleared since: <<age, mark>>

vars == <<attempts, since, lock, verifying, recent>>

(* The least age for which last_at < now - LOGIN_WINDOW_SECS. *)
Silent == LOGIN_WINDOW_SECS + 1

Ages == 0 .. LOGIN_WINDOW_SECS

Init ==
  /\ attempts = 0
  /\ since = Silent
  /\ lock = 0
  /\ verifying = {}
  /\ recent = {}

-----------------------------------------------------------------------------
(* login_lockout_secs: locked_until > now. *)
Locked == lock > 0

(* A slip to be caught: nobody reads the lock. *)
CheckUnlocked(l) ==
  /\ l \notin verifying
  /\ verifying' = verifying \union {l}
  /\ UNCHANGED <<attempts, since, lock, recent>>

(* A slip to be caught: an attempt on a locked name starts the lock anew. *)
CheckProlonging(l) ==
  /\ l \notin verifying
  /\ IF Locked
     THEN lock' = LOGIN_LOCK_SECS /\ UNCHANGED verifying
     ELSE verifying' = verifying \union {l} /\ UNCHANGED lock
  /\ UNCHANGED <<attempts, since, recent>>

(* The guard at the head of auth_login.  A locked name is refused, and the *)
(* refusal leaves no trace.                                                *)
Check(l) ==
  /\ l \notin verifying
  /\ ~Locked
  /\ verifying' = verifying \union {l}
  /\ UNCHANGED <<attempts, since, lock, recent>>

(* Tells a new failure from those of the same second. *)
Mark == CHOOSE k \in 0 .. Cardinality(recent) : <<0, k>> \notin recent

(* A slip to be caught: the last second of the window counts as outside. *)
CountEarly == IF since >= LOGIN_WINDOW_SECS THEN 1 ELSE attempts + 1

(* The counter after one more failure: it restarts outside the window. *)
Count == IF since = Silent THEN 1 ELSE attempts + 1

(* A slip to be caught: a new lock is added to the one that runs. *)
RecordAdding(l) ==
  /\ l \in verifying
  /\ verifying' = verifying \ {l}
  /\ attempts' = Count
  /\ since' = 0
  /\ lock' = IF Count >= MAX_FAILED_LOGINS THEN lock + LOGIN_LOCK_SECS ELSE lock
  /\ recent' = recent \union {<<0, Mark>>}

(* record_failed_login, after an unknown name, an inactive account or a    *)
(* wrong password.                                                         *)
Record(l) ==
  /\ l \in verifying
  /\ verifying' = verifying \ {l}
  /\ attempts' = Count
  /\ since' = 0
  /\ lock' = IF Count >= MAX_FAILED_LOGINS THEN LOGIN_LOCK_SECS ELSE lock
  /\ recent' = recent \union {<<0, Mark>>}

(* clear_login_attempts, after a success: the row is deleted. *)
Clear(l) ==
  /\ l \in verifying
  /\ verifying' = verifying \ {l}
  /\ attempts' = 0
  /\ since' = Silent
  /\ lock' = 0
  /\ recent' = {}

(* A second passes. *)
Tick ==
  /\ since' = IF since = Silent THEN Silent ELSE since + 1
  /\ lock' = IF Locked THEN lock - 1 ELSE 0
  /\ recent' = {<<f[1] + 1, f[2]>> : f \in {g \in recent : g[1] < LOGIN_WINDOW_SECS}}
  /\ UNCHANGED <<attempts, verifying>>

Next ==
  \/ \E l \in Login : Check(l) \/ Record(l) \/ Clear(l)
  \/ Tick

(* Time passes.  Nobody has to log in, nor does a login have to end. *)
Spec == Init /\ [][Next]_vars /\ WF_vars(Tick)

-----------------------------------------------------------------------------
(* Every part of the system has its type. *)
TypeOK ==
  /\ attempts \in Nat
  /\ since \in 0 .. Silent
  /\ lock \in 0 .. LOGIN_LOCK_SECS
  /\ verifying \subseteq Login
  /\ recent \subseteq Ages \X Nat

(***************************************************************************)
(* db.rs:1288, "Locks the account if MAX_FAILED_LOGINS is reached within   *)
(* LOGIN_WINDOW_SECS": however the failures are spread over the window,    *)
(* whichever logins made them, and whatever the row went through before.   *)
(***************************************************************************)
FailuresLock == Cardinality(recent) >= MAX_FAILED_LOGINS => Locked

(***************************************************************************)
(* Logins that passed the check before the lock still count after it, but  *)
(* no others: the counter goes past the limit by the overlapping logins    *)
(* only.  It starts over when the lock ends because the lock outlasts the  *)
(* window.                                                                 *)
(***************************************************************************)
AttemptsBounded == attempts < MAX_FAILED_LOGINS + Cardinality(Login)

(***************************************************************************)
(* A name does not stay locked for good, however often logins are tried    *)
(* meanwhile: the attempts refused by a lock do not prolong it.            *)
(***************************************************************************)
LockEnds == Locked ~> ~Locked
=============================================================================
