--------------------------- MODULE LoginGuardProofs ---------------------------
(***************************************************************************)
(* The bound on failed logins, for every number of logins that may overlap *)
(* and every limit, window and lock, as long as the lock outlasts the      *)
(* window.                                                                 *)
(***************************************************************************)
EXTENDS LoginGuard, FiniteSetTheorems, TLAPS

(***************************************************************************)
(* The invariant that carries AttemptsBounded: while the limit is reached  *)
(* inside the window the lock is on, so no login joins those past the      *)
(* check, and each that records a failure leaves them.                     *)
(***************************************************************************)
AtLimit == attempts >= MAX_FAILED_LOGINS /\ since < Silent

LoginInv ==
  /\ TypeOK
  /\ AttemptsBounded
  /\ AtLimit => lock + since = LOGIN_LOCK_SECS
  /\ AtLimit => attempts + Cardinality(verifying)
                  < MAX_FAILED_LOGINS + Cardinality(Login)
  /\ IsFiniteSet(recent)
  /\ \A f \in recent : since <= f[1]
  /\ since < Silent => Cardinality(recent) <= attempts

-----------------------------------------------------------------------------
(* What a login that leaves does to the number of those past the check. *)
LEMMA Leaving ==
  ASSUME TypeOK, NEW l \in verifying
  PROVE  /\ Cardinality(Login) \in Nat
         /\ Cardinality(verifying) \in Nat
         /\ Cardinality(verifying \ {l}) = Cardinality(verifying) - 1
         /\ Cardinality(verifying) <= Cardinality(Login)
<1>1. IsFiniteSet(Login) /\ verifying \subseteq Login
  BY LoginAssumption DEF TypeOK
<1>2. IsFiniteSet(verifying)
  BY <1>1, FS_Subset
<1> QED
  BY <1>1, <1>2, FS_Subset, FS_CardinalityType, FS_RemoveElement

(* The facts about the constants that every step uses. *)
LEMMA ConstantFacts ==
  /\ MAX_FAILED_LOGINS \in Nat /\ MAX_FAILED_LOGINS >= 1
  /\ LOGIN_WINDOW_SECS \in Nat
  /\ LOGIN_LOCK_SECS \in Nat
  /\ LOGIN_WINDOW_SECS < LOGIN_LOCK_SECS
  /\ Cardinality(Login) \in Nat
BY LoginAssumption, FS_CardinalityType

(* A failure is recorded once: its mark is one that none of the same       *)
(* second has.  There is one among 0 .. n, for recent has n members.       *)
LEMMA MarkIsNew ==
  ASSUME IsFiniteSet(recent)
  PROVE  Mark \in Nat /\ <<0, Mark>> \notin recent
<1> DEFINE n == Cardinality(recent)
           f == [k \in 0 .. n |-> <<0, k>>]
<1>1. n \in Nat
  BY FS_CardinalityType
<1>2. IsFiniteSet(0 .. n) /\ Cardinality(0 .. n) = n + 1
  <2> HIDE DEF n
  <2> QED
    BY <1>1, FS_Interval
<1>3. \E k \in 0 .. n : <<0, k>> \notin recent
  <2> SUFFICES ASSUME \A k \in 0 .. n : <<0, k>> \in recent
               PROVE  FALSE
    OBVIOUS
  <2>1. f \in [0 .. n -> recent]
    OBVIOUS
  <2>2. \A x, y \in 0 .. n : x # y => f[x] # f[y]
    OBVIOUS
  <2>3. Cardinality(recent) < Cardinality(0 .. n)
    BY <1>1, <1>2
  <2> HIDE DEF f, n
  <2> QED
    BY <1>2, <2>1, <2>2, <2>3, FS_PigeonHole
<1>4. Mark \in 0 .. n /\ <<0, Mark>> \notin recent
  BY <1>3 DEF Mark
<1> QED
  BY <1>1, <1>4

(* What Record does to the failures of the window: one more.               *)
LEMMA RecordedOnce ==
  ASSUME LoginInv, recent' = recent \union {<<0, Mark>>}
  PROVE  /\ recent' \subseteq Ages \X Nat
         /\ IsFiniteSet(recent')
         /\ Cardinality(recent') = Cardinality(recent) + 1
<1>1. IsFiniteSet(recent) /\ recent \subseteq Ages \X Nat
  BY DEF LoginInv, TypeOK
<1>2. Mark \in Nat /\ <<0, Mark>> \notin recent
  BY <1>1, MarkIsNew
<1>3. 0 \in Ages
  BY ConstantFacts DEF Ages
<1> QED
  BY <1>1, <1>2, <1>3, FS_AddElement

(* What a second does to them: the oldest drop out of the window, the      *)
(* others grow older, and there are no new ones.                           *)
LEMMA RecentAges ==
  ASSUME LoginInv, Tick
  PROVE  /\ recent' \subseteq Ages \X Nat
         /\ \A f \in recent' : <<f[1] - 1, f[2]>> \in recent
         /\ IsFiniteSet(recent')
         /\ Cardinality(recent') <= Cardinality(recent)
<1> DEFINE back == [f \in recent' |-> <<f[1] - 1, f[2]>>]
<1>1. IsFiniteSet(recent) /\ recent \subseteq Ages \X Nat
  BY DEF LoginInv, TypeOK
<1>2. recent' = {<<g[1] + 1, g[2]>> : g \in {f \in recent : f[1] < LOGIN_WINDOW_SECS}}
  BY DEF Tick
<1>3. \A f \in recent' : \E g \in recent :
        g[1] < LOGIN_WINDOW_SECS /\ f = <<g[1] + 1, g[2]>>
  BY <1>2
<1>4. \A g \in recent : g[1] \in Nat /\ g[2] \in Nat /\ g = <<g[1], g[2]>>
  BY <1>1 DEF Ages
<1>5. recent' \subseteq Ages \X Nat
  BY <1>3, <1>4, ConstantFacts DEF Ages
<1>6. \A f \in recent' : /\ f = <<f[1], f[2]>> /\ f[1] \in Nat /\ f[2] \in Nat
                         /\ <<f[1] - 1, f[2]>> \in recent
  BY <1>3, <1>4
<1>7. back \in Injection(recent', recent)
  <2>1. back \in [recent' -> recent]
    BY <1>6
  <2>2. \A f, g \in recent' : back[f] = back[g] => f = g
    BY <1>6
  <2> HIDE DEF back
  <2> QED
    BY <2>1, <2>2 DEF Injection, IsInjective
<1> HIDE DEF back
<1>8. IsFiniteSet(recent') /\ Cardinality(recent') <= Cardinality(recent)
  BY <1>1, <1>7, FS_Injection
<1> QED
  BY <1>5, <1>6, <1>8

(* No row, no lock, nobody verifying. *)
LEMMA InitHolds == Init => LoginInv
BY ConstantFacts, FS_EmptySet
DEF Init, LoginInv, TypeOK, AttemptsBounded, AtLimit, Silent, Ages

(* A login passes the check only while the limit is not reached. *)
LEMMA CheckKeeps ==
  ASSUME LoginInv, NEW l \in Login, Check(l)
  PROVE  LoginInv'
<1>1. ~AtLimit
  BY ConstantFacts DEF LoginInv, TypeOK, AtLimit, Check, Locked, Silent
<1> QED
  BY <1>1 DEF LoginInv, TypeOK, AttemptsBounded, AtLimit, Check, Silent, Ages

(* A recorded failure counts once in the row and once in the window. *)
LEMMA RecordKeeps ==
  ASSUME LoginInv, NEW l \in Login, Record(l)
  PROVE  LoginInv'
<1> DEFINE n == Cardinality(Login)
<1> DEFINE k == Cardinality(verifying)
<1>1. n \in Nat /\ k \in Nat /\ k <= n /\ Cardinality(verifying') = k - 1
  BY Leaving DEF LoginInv, Record
<1>2. TypeOK'
  <2>1. recent' \subseteq Ages \X Nat
    BY RecordedOnce DEF Record
  <2> QED
    BY <2>1, ConstantFacts DEF LoginInv, TypeOK, Record, Count, Silent
<1>3. since' < Silent' /\ since' = 0
  BY ConstantFacts DEF Record, Silent
<1>4. attempts' >= MAX_FAILED_LOGINS => lock' = LOGIN_LOCK_SECS
  BY DEF Record
<1>5. attempts' >= MAX_FAILED_LOGINS =>
        attempts' + (k - 1) < MAX_FAILED_LOGINS + n
  <2>1. CASE since = Silent
    BY <2>1, <1>1, ConstantFacts DEF Record, Count
  <2>2. CASE since # Silent /\ attempts >= MAX_FAILED_LOGINS
    BY <2>2, <1>1, ConstantFacts DEF LoginInv, TypeOK, AtLimit, Record, Count, Silent
  <2>3. CASE since # Silent /\ attempts < MAX_FAILED_LOGINS
    BY <2>3, <1>1, ConstantFacts DEF LoginInv, TypeOK, Record, Count
  <2> QED
    BY <2>1, <2>2, <2>3, ConstantFacts DEF LoginInv, TypeOK
<1>6. k >= 1
  <2>1. Cardinality(verifying') \in Nat
    BY <1>2, LoginAssumption, FS_Subset, FS_CardinalityType DEF TypeOK
  <2> QED
    BY <2>1, <1>1
<1>7. AttemptsBounded'
  BY <1>1, <1>2, <1>5, <1>6, ConstantFacts DEF AttemptsBounded, TypeOK
<1>8. IsFiniteSet(recent') /\ \A f \in recent' : since' <= f[1]
  BY <1>2, <1>3, RecordedOnce DEF Record, TypeOK, Ages
<1>9. Cardinality(recent') <= attempts'
  <2>1. Cardinality(recent') = Cardinality(recent) + 1
    BY RecordedOnce DEF Record
  <2>2. CASE since = Silent
    <3>1. recent = {}
      BY <2>2, ConstantFacts DEF LoginInv, TypeOK, Ages, Silent
    <3> QED
      BY <2>1, <2>2, <3>1, FS_EmptySet DEF Record, Count
  <2>3. CASE since # Silent
    <3>1. Cardinality(recent) \in Nat /\ Cardinality(recent) <= attempts
      BY <2>3, ConstantFacts, FS_CardinalityType DEF LoginInv, TypeOK, Silent
    <3> QED
      BY <2>1, <2>3, <3>1 DEF LoginInv, TypeOK, Record, Count
  <2> QED
    BY <2>2, <2>3
<1>10. (AtLimit => lock + since = LOGIN_LOCK_SECS)'
  BY <1>2, <1>3, <1>4, ConstantFacts DEF AtLimit, TypeOK
<1>11. (AtLimit => attempts + Cardinality(verifying)
                     < MAX_FAILED_LOGINS + Cardinality(Login))'
  BY <1>1, <1>5 DEF AtLimit
<1> QED
  BY <1>2, <1>7, <1>8, <1>9, <1>10, <1>11 DEF LoginInv

(* A success forgets the row and the failures. *)
LEMMA ClearKeeps ==
  ASSUME LoginInv, NEW l \in Login, Clear(l)
  PROVE  LoginInv'
BY ConstantFacts, FS_EmptySet
DEF LoginInv, TypeOK, AttemptsBounded, AtLimit, Clear, Silent, Ages

(* Lock and window run down together. *)
LEMMA TickKeeps ==
  ASSUME LoginInv, Tick
  PROVE  LoginInv'
<1>1. recent' \subseteq Ages \X Nat
  BY RecentAges
<1>2. TypeOK'
  BY <1>1, ConstantFacts DEF LoginInv, TypeOK, Tick, Locked, Silent
<1>3. AtLimit' => AtLimit /\ since' = since + 1 /\ lock' = lock - 1
  BY ConstantFacts DEF LoginInv, TypeOK, AtLimit, Tick, Locked, Silent
<1>4. (AtLimit => lock + since = LOGIN_LOCK_SECS)'
  BY <1>3, ConstantFacts DEF LoginInv, TypeOK
<1>5. (AtLimit => attempts + Cardinality(verifying)
                    < MAX_FAILED_LOGINS + Cardinality(Login))'
  BY <1>3 DEF LoginInv, Tick
<1>6. \A f \in recent' : since' <= f[1]
  <2> SUFFICES ASSUME NEW f \in recent' PROVE since' <= f[1]
    OBVIOUS
  <2>1. <<f[1] - 1, f[2]>> \in recent /\ f[1] \in Nat
    BY <1>1, RecentAges DEF Ages
  <2>2. since <= f[1] - 1
    BY <2>1 DEF LoginInv
  <2>3. f[1] \in 0 .. LOGIN_WINDOW_SECS
    BY <1>1 DEF Ages
  <2> QED
    BY <2>2, <2>3, ConstantFacts DEF LoginInv, TypeOK, Tick, Silent
<1>7. since' < Silent' => Cardinality(recent') <= attempts'
  <2>1. since' < Silent' => since < Silent
    BY ConstantFacts DEF LoginInv, TypeOK, Tick, Silent
  <2>2. /\ Cardinality(recent') \in Nat /\ Cardinality(recent) \in Nat
        /\ Cardinality(recent') <= Cardinality(recent)
    BY RecentAges, FS_CardinalityType DEF LoginInv
  <2> QED
    BY <2>1, <2>2 DEF LoginInv, TypeOK, Tick
<1> QED
  BY <1>2, <1>4, <1>5, <1>6, <1>7, RecentAges DEF LoginInv, AttemptsBounded, Tick

(***************************************************************************)
(* LoginInv is an invariant of auth_login, record_failed_login and         *)
(* clear_login_attempts under any interleaving and any passage of time.    *)
(***************************************************************************)
THEOREM LoginInvariant == Spec => []LoginInv
<1>1. LoginInv /\ [Next]_vars => LoginInv'
  <2> SUFFICES ASSUME LoginInv, [Next]_vars
               PROVE  LoginInv'
    OBVIOUS
  <2>1. CASE UNCHANGED vars
    BY <2>1 DEF vars, LoginInv, TypeOK, AttemptsBounded, AtLimit, Silent, Ages
  <2>2. ASSUME NEW l \in Login, Check(l) PROVE LoginInv'
    BY <2>2, CheckKeeps
  <2>3. ASSUME NEW l \in Login, Record(l) PROVE LoginInv'
    BY <2>3, RecordKeeps
  <2>4. ASSUME NEW l \in Login, Clear(l) PROVE LoginInv'
    BY <2>4, ClearKeeps
  <2>5. CASE Tick
    BY <2>5, TickKeeps
  <2> QED
    BY <2>1, <2>2, <2>3, <2>4, <2>5 DEF Next
<1> QED
  BY InitHolds, <1>1, PTL DEF Spec

(* Every part of the login guard has its type. *)
THEOREM LoginTypes == Spec => []TypeOK
BY LoginInvariant, PTL DEF LoginInv

(***************************************************************************)
(* The counter of record_failed_login passes the limit by no more than the *)
(* logins that overlap, for every limit, window and lock.                  *)
(***************************************************************************)
THEOREM LoginAttemptsBounded == Spec => []AttemptsBounded
BY LoginInvariant, PTL DEF LoginInv

(***************************************************************************)
(* MAX_FAILED_LOGINS failures inside the window lock the name, whoever     *)
(* made them and whatever record_failed_login and clear_login_attempts did *)
(* to the row before: the counter never misses a failure of the window,    *)
(* and at the limit the lock outlasts it.                                  *)
(***************************************************************************)
THEOREM FailuresAlwaysLock == Spec => []FailuresLock
<1>1. LoginInv => FailuresLock
  <2> SUFFICES ASSUME LoginInv, Cardinality(recent) >= MAX_FAILED_LOGINS
               PROVE  Locked
    BY DEF FailuresLock
  <2>1. recent # {} /\ Cardinality(recent) \in Nat
    BY ConstantFacts, FS_EmptySet, FS_CardinalityType DEF LoginInv
  <2>2. PICK f \in recent : TRUE
    BY <2>1
  <2>3. since < Silent
    BY <2>2, ConstantFacts DEF LoginInv, TypeOK, Ages, Silent
  <2>4. AtLimit
    BY <2>1, <2>3, ConstantFacts DEF LoginInv, TypeOK, AtLimit
  <2> QED
    BY <2>3, <2>4, ConstantFacts DEF LoginInv, TypeOK, Locked, Silent
<1> QED
  BY <1>1, LoginInvariant, PTL
=============================================================================
