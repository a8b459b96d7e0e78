-------------------------- MODULE ProxyPoolProofs --------------------------
(***************************************************************************)
(* Proofs about the proxy pool, whatever requests, admins, refreshers and  *)
(* restarts do in whatever order.  First the table: every step leaves it   *)
(* alone or changes one row, and is_active and fail_count agree.  Then the *)
(* pool and the requests that walk through it: PoolInv is inductive, and   *)
(* it gives the type, the distinct pool and the walk without repetition.   *)
(* Last the server with its background tasks: the same holds there.        *)
(***************************************************************************)
EXTENDS AutoRefresh, FunctionTheorems, FiniteSetTheorems, TLAPS

(* A row whose flag and counter agree, and a table of such rows. *)
GoodRow == {row \in Row : row.is_active <=> row.fail_count < FAIL_LIMIT}

TableInv == rows \in [DOMAIN rows -> GoodRow]

(* The rows the statements write. *)
LEMMA RowFacts ==
  /\ NewRow \in GoodRow
  /\ Deactivated \in GoodRow
  /\ \A row \in GoodRow : Failed(row) \in GoodRow
<1>1. NewRow \in GoodRow
  BY PoolAssumption DEF NewRow, GoodRow, Row
<1>2. Deactivated \in GoodRow
  BY PoolAssumption DEF Deactivated, GoodRow, Row
<1>3. ASSUME NEW row \in GoodRow PROVE Failed(row) \in GoodRow
  <2>1. row.fail_count \in Nat /\ row.is_active \in BOOLEAN
        /\ (row.is_active <=> row.fail_count < FAIL_LIMIT)
    BY DEF GoodRow, Row
  <2>2. CASE row.fail_count >= FAIL_LIMIT - 1
    <3>1. Failed(row) = [is_active |-> FALSE, fail_count |-> row.fail_count + 1]
      BY <2>2 DEF Failed
    <3>2. QED
      BY <2>1, <2>2, <3>1, PoolAssumption DEF GoodRow, Row
  <2>3. CASE ~(row.fail_count >= FAIL_LIMIT - 1)
    <3>1. row.is_active = TRUE
      BY <2>1, <2>3, PoolAssumption
    <3>2. Failed(row) = [is_active |-> TRUE, fail_count |-> row.fail_count + 1]
      BY <2>3, <3>1 DEF Failed
    <3>3. QED
      BY <2>1, <2>3, <3>2, PoolAssumption DEF GoodRow, Row
  <2>4. QED
    BY <2>2, <2>3
<1>4. QED
  BY <1>1, <1>2, <1>3

(* An UPDATE with a good row leaves a good table. *)
LEMMA UpdateFacts ==
  ASSUME TableInv, NEW p, NEW row \in GoodRow
  PROVE  LET t == Update(p, row) IN t \in [DOMAIN t -> GoodRow]
BY DEF TableInv, Update

(* So does an upsert. *)
LEMMA UpsertFacts ==
  ASSUME TableInv, NEW p
  PROVE  LET t == Upserted(p) IN t \in [DOMAIN t -> GoodRow]
BY RowFacts DEF TableInv, Upserted

(* The table is good at the start. *)
LEMMA InitInv == Init => TableInv
BY DEF Init, TableInv

(* One step of the system, by what it does to the table. *)
LEMMA NextInv == TableInv /\ [Next]_vars => TableInv'
<1> SUFFICES ASSUME TableInv, [Next]_vars PROVE TableInv'
  OBVIOUS
<1>1. CASE UNCHANGED rows
  BY <1>1 DEF TableInv
<1>2. ASSUME NEW p, NEW row \in GoodRow, rows' = Update(p, row)
      PROVE  TableInv'
  <2>1. Update(p, row) \in [DOMAIN Update(p, row) -> GoodRow]
    BY UpdateFacts
  <2>2. QED
    BY <1>2, <2>1 DEF TableInv
<1>3. ASSUME NEW p, rows' = Upserted(p)
      PROVE  TableInv'
  <2>1. Upserted(p) \in [DOMAIN Upserted(p) -> GoodRow]
    BY UpsertFacts
  <2>2. QED
    BY <1>3, <2>1 DEF TableInv
<1>4. ASSUME NEW l \in Loader, NEW p \in Proxy, AdminActivate(l, p)
      PROVE  TableInv'
  BY <1>2, <1>4, RowFacts DEF AdminActivate
<1>5. ASSUME NEW l \in Loader, NEW p \in Proxy, AdminDeactivate(l, p)
      PROVE  TableInv'
  BY <1>2, <1>5, RowFacts DEF AdminDeactivate
<1>6. ASSUME NEW l \in Loader, NEW p \in Proxy, AdminDelete(l, p)
      PROVE  TableInv'
  BY <1>6 DEF AdminDelete, TableInv
<1>7. ASSUME NEW l \in Loader, NEW p \in Proxy, Ingest(l, p)
      PROVE  TableInv'
  BY <1>3, <1>7 DEF Ingest
<1>8. ASSUME NEW p \in Proxy, AdminAdd(p)
      PROVE  TableInv'
  BY <1>3, <1>8 DEF AdminAdd
<1>9. ASSUME NEW r \in Request, Succeed(r)
      PROVE  TableInv'
  <2>1. CASE current[r] \in DOMAIN rows
    <3>1. rows' = Update(current[r], NewRow)
      BY <1>9, <2>1 DEF Succeed
    <3>2. QED
      BY <1>2, <3>1, RowFacts
  <2>2. CASE current[r] \notin DOMAIN rows
    BY <1>1, <1>9, <2>2 DEF Succeed
  <2>3. QED
    BY <2>1, <2>2
<1>10. ASSUME NEW r \in Request, MarkFailed(r)
       PROVE  TableInv'
  <2>1. CASE current[r] \in DOMAIN rows
    <3>1. Failed(rows[current[r]]) \in GoodRow
      BY <2>1, RowFacts DEF TableInv
    <3>2. rows' = Update(current[r], Failed(rows[current[r]]))
      BY <1>10, <2>1 DEF MarkFailed
    <3>3. QED
      BY <1>2, <3>1, <3>2
  <2>2. CASE current[r] \notin DOMAIN rows
    BY <1>1, <1>10, <2>2 DEF MarkFailed
  <2>3. QED
    BY <2>1, <2>2
<1>11. ASSUME NEW l \in Loader, Refresh(l) \/ LoadRead(l) \/ LoadWrite(l)
       PROVE  UNCHANGED rows
  BY <1>11 DEF Refresh, LoadRead, LoadWrite, table
<1>12. ASSUME NEW r \in Request,
              \/ \E may, on, stream \in BOOLEAN : Admit(r, may, on, stream)
              \/ Begin(r) \/ Size(r) \/ Pick(r) \/ RunOut(r)
              \/ RateLimited(r) \/ RemoveFailed(r) \/ StopTrying(r)
              \/ OtherError(r) \/ DirectEnds(r)
       PROVE  UNCHANGED rows
  BY <1>12 DEF Admit, Begin, Size, Pick, RunOut, RateLimited, RemoveFailed,
               StopTrying, OtherError, DirectEnds, table
<1>13. ASSUME NEW on \in BOOLEAN, Restart(on)
       PROVE  UNCHANGED rows
  BY <1>13 DEF Restart, table
<1>14. UNCHANGED vars => UNCHANGED rows
  BY DEF vars, table
<1>15. QED
  BY <1>1, <1>4, <1>5, <1>6, <1>7, <1>8, <1>9, <1>10, <1>11, <1>12, <1>13,
     <1>14 DEF Next, RequestStep

(* Such rows are disabled exactly at the limit. *)
LEMMA TableGivesLimit == TableInv => DisabledAtLimit
BY DEF TableInv, DisabledAtLimit, GoodRow

(***************************************************************************)
(* A proxy is disabled exactly when its consecutive failures have reached  *)
(* the limit, for any number of proxies, requests and loaders.             *)
(***************************************************************************)
THEOREM DisabledExactlyAtLimit == Spec => []DisabledAtLimit
<1>1. Spec => []TableInv
  BY InitInv, NextInv, PTL DEF Spec
<1>2. QED
  BY <1>1, TableGivesLimit, PTL

-----------------------------------------------------------------------------
(* Operators on pools. *)

(* The rows of a SELECT, in whatever order it returns them. *)
LEMMA OrdersFacts ==
  ASSUME NEW S \in SUBSET Proxy, IsFiniteSet(S), NEW order \in SetToSeqs(S)
  PROVE  order \in Seq(Proxy) /\ Distinct(order)
<1>1. Cardinality(S) \in Nat
  BY FS_CardinalityType
<1>2. order \in [1 .. Cardinality(S) -> S]
      /\ \A i, j \in 1 .. Cardinality(S) : i # j => order[i] # order[j]
  BY DEF SetToSeqs
<1>3. order \in Seq(Proxy)
  BY <1>1, <1>2
<1>4. QED
  BY <1>2, <1>3 DEF Distinct

(* Retaining keeps a pool a pool, and its entries distinct. *)
LEMMA WithoutFacts ==
  ASSUME NEW s \in Seq(Proxy), NEW p
  PROVE  /\ Without(s, p) \in Seq(Proxy)
         /\ Distinct(s) => Distinct(Without(s, p))
<1> DEFINE kept     == {i \in DOMAIN s : s[i] # p}
           Place(i) == Cardinality({j \in kept : j <= i})
           At(n)    == CHOOSE i \in kept : Place(i) = n
           place    == [i \in kept |-> Place(i)]
           K        == Cardinality(kept)
<1>1. DOMAIN s = 1 .. Len(s) /\ Len(s) \in Nat
      /\ \A i \in DOMAIN s : s[i] \in Proxy
  OBVIOUS
<1>2. IsFiniteSet(kept) /\ K \in Nat
  <2>1. IsFiniteSet(1 .. Len(s))
    BY <1>1, FS_Interval
  <2>2. kept \in SUBSET (1 .. Len(s))
    BY <1>1
  <2>3. QED
    BY <2>1, <2>2, FS_Subset, FS_CardinalityType
<1>3. ASSUME NEW i \in kept
      PROVE  Place(i) \in 1 .. K
  <2>1. {j \in kept : j <= i} \in SUBSET kept /\ {j \in kept : j <= i} # {}
    BY <1>1
  <2>2. IsFiniteSet({j \in kept : j <= i}) /\ Place(i) <= K
    BY <1>2, <2>1, FS_Subset
  <2>3. Place(i) \in Nat /\ Place(i) # 0
    BY <2>1, <2>2, FS_CardinalityType, FS_EmptySet
  <2>4. QED
    BY <1>2, <2>2, <2>3
<1>4. ASSUME NEW i \in kept, NEW j \in kept, i < j
      PROVE  Place(i) < Place(j)
  <2> DEFINE low  == {h \in kept : h <= i}
             high == {h \in kept : h <= j}
  <2>1. i \in Int /\ j \in Int /\ \A h \in kept : h \in Int
    BY <1>1
  <2>2. low \in SUBSET high /\ j \in high /\ j \notin low
    BY <1>4, <2>1
  <2>3. high \in SUBSET kept
    OBVIOUS
  <2> HIDE DEF low, high, kept
  <2>4. IsFiniteSet(high)
    BY <1>2, <2>3, FS_Subset
  <2>5. Cardinality(low) <= Cardinality(high) /\ Cardinality(low) # Cardinality(high)
    BY <2>2, <2>4, FS_Subset
  <2>6. Place(i) = Cardinality(low) /\ Place(j) = Cardinality(high)
    BY DEF low, high
  <2>7. Cardinality(low) \in Int /\ Cardinality(high) \in Int
    BY <1>3, <2>6
  <2>8. QED
    BY <2>5, <2>6, <2>7
<1>5. \A i \in kept : i \in DOMAIN s /\ i \in Int
  BY <1>1
<1> HIDE DEF Place, K, kept
<1>6. place \in Injection(kept, 1 .. K)
  <2>1. place \in [kept -> 1 .. K]
    BY <1>3
  <2>2. ASSUME NEW i \in kept, NEW j \in kept, place[i] = place[j] PROVE i = j
    <3>1. Place(i) = Place(j) /\ Place(i) \in Int /\ Place(j) \in Int
      BY <1>3, <2>2
    <3>2. ~(i < j) /\ ~(j < i)
      BY <1>4, <3>1
    <3>3. QED
      BY <1>5, <3>2
  <2>3. QED
    BY <2>1, <2>2 DEF Injection, IsInjective
<1>7. place \in Surjection(kept, 1 .. K)
  <2>1. IsFiniteSet(1 .. K) /\ Cardinality(1 .. K) = Cardinality(kept)
    BY <1>2, FS_Interval DEF K
  <2>2. QED
    BY <1>6, <2>1, FS_Injection
<1>8. ASSUME NEW n \in 1 .. K
      PROVE  At(n) \in kept /\ Place(At(n)) = n
  <2>1. \E i \in kept : Place(i) = n
    BY <1>7 DEF Surjection
  <2>2. QED
    BY <2>1
<1> HIDE DEF At
<1>9. Without(s, p) = [n \in 1 .. K |-> s[At(n)]]
  BY DEF Without, K, At, Place, kept
<1>10. Without(s, p) \in [1 .. K -> Proxy]
  BY <1>1, <1>5, <1>8, <1>9
<1>11. ASSUME Distinct(s), NEW m \in 1 .. K, NEW n \in 1 .. K, m # n
       PROVE  Without(s, p)[m] # Without(s, p)[n]
  <2>1. At(m) \in DOMAIN s /\ At(n) \in DOMAIN s /\ At(m) # At(n)
    BY <1>5, <1>8, <1>11
  <2>2. s[At(m)] # s[At(n)]
    BY <1>11, <2>1 DEF Distinct
  <2>3. QED
    BY <1>9, <2>2
<1>12. QED
  BY <1>2, <1>10, <1>11 DEF Distinct

(* Two places less than a round apart are different entries. *)
LEMMA ModInjective ==
  ASSUME NEW n \in Nat \ {0}, NEW c \in Nat,
         NEW a \in 0 .. n - 1, NEW b \in 0 .. n - 1,
         (c + a) % n = (c + b) % n
  PROVE  a = b
<1> DEFINE x == (c + a) \div n
           y == (c + b) \div n
<1>1. x \in Int /\ y \in Int
      /\ c + a = (n * x) + ((c + a) % n) /\ c + b = (n * y) + ((c + b) % n)
  OBVIOUS
<1>2. a - b = n * (x - y)
  BY <1>1
<1>3. ASSUME NEW d \in Int, a - b = n * d PROVE d = 0
  <2>1. CASE d >= 1
    <3>1. n * d >= n
      BY <2>1
    <3>2. QED
      BY <1>3, <3>1
  <2>2. CASE d <= -1
    <3>1. n * d <= -n
      BY <2>2
    <3>2. QED
      BY <1>3, <3>1
  <2>3. QED
    BY <2>1, <2>2
<1>4. x - y = 0
  BY <1>1, <1>2, <1>3
<1>5. QED
  BY <1>1, <1>2, <1>4

(* nth() finds an entry of a pool that has one, and a different one for    *)
(* each attempt as long as the pool has more.                              *)
LEMMA NthFacts ==
  ASSUME pool \in Seq(Proxy), pool # <<>>, cursor \in Nat
  PROVE  /\ \A n \in Nat : Nth(n) \in Proxy
         /\ Distinct(pool) =>
              \A a, b \in 0 .. Len(pool) - 1 : Nth(a) = Nth(b) => a = b
<1>1. Len(pool) \in Nat \ {0} /\ DOMAIN pool = 1 .. Len(pool)
  OBVIOUS
<1>2. ASSUME NEW n \in Nat
      PROVE  1 + ((cursor + n) % Len(pool)) \in DOMAIN pool
  BY <1>1
<1>3. ASSUME Distinct(pool), NEW a \in 0 .. Len(pool) - 1,
             NEW b \in 0 .. Len(pool) - 1, Nth(a) = Nth(b)
      PROVE  a = b
  <2>1. 1 + ((cursor + a) % Len(pool)) = 1 + ((cursor + b) % Len(pool))
    BY <1>1, <1>2, <1>3 DEF Nth, Distinct
  <2>2. (cursor + a) % Len(pool) = (cursor + b) % Len(pool)
    BY <1>1, <2>1
  <2>3. QED
    BY <1>1, <2>2, ModInjective
<1>4. QED
  BY <1>2, <1>3 DEF Nth

-----------------------------------------------------------------------------
(* The inductive invariant. *)

(* What is known of a request: nothing is left of one outside its loop;    *)
(* while nobody disturbs the loop, the n-th attempt went to the n-th entry *)
(* from the cursor, and the pool has as many entries as attempts.          *)
InLoop(r) == pc[r] \in {"picking", "calling", "removing"}

Attempts(r) == IF pc[r] = "picking" THEN attempt[r] - 1 ELSE attempt[r]

Walk(r) ==
  /\ Attempts(r) \in 0 .. total[r]
  /\ total[r] <= Len(pool)
  /\ Len(tried[r]) = Attempts(r)
  /\ \A i \in 1 .. Attempts(r) : tried[r][i] = Nth(i - 1)

RequestInv(r) ==
  /\ ~InLoop(r) => tried[r] = <<>>
  /\ InLoop(r) => attempt[r] >= 1
  /\ pc[r] \in {"calling", "removing"} => current[r] \in Proxy
  /\ InLoop(r) /\ ~disturbed[r] => Walk(r)

PoolInv ==
  /\ TypeOK
  /\ IsFiniteSet(DOMAIN rows)
  /\ Distinct(pool)
  /\ \A l \in Loader : Distinct(snapshot[l])
  /\ \A r \in Request : RequestInv(r)

(* The invariant holds at the start. *)
LEMMA PoolInit == Init => PoolInv
<1> SUFFICES ASSUME Init PROVE PoolInv
  OBVIOUS
<1>1. rows = [p \in {} |-> NewRow] /\ DOMAIN rows = {} /\ rows \in [{} -> Row]
  BY DEF Init
<1>2. TypeOK
  BY <1>1 DEF Init, TypeOK, RequestPc
<1>3. QED
  BY <1>1, <1>2, FS_EmptySet DEF Init, PoolInv, RequestInv, InLoop, Distinct

(* The active rows in any order: a sequence without a proxy twice. *)
LEMMA ActiveOrders ==
  ASSUME TypeOK, IsFiniteSet(DOMAIN rows), NEW order \in SetToSeqs(Active)
  PROVE  order \in Seq(Proxy) /\ Distinct(order)
<1>1. Active \in SUBSET DOMAIN rows /\ Active \in SUBSET Proxy
  BY DEF Active, TypeOK
<1>2. IsFiniteSet(Active)
  BY <1>1, FS_Subset
<1>3. QED
  BY <1>1, <1>2, OrdersFacts

(* The ids of the table stay finitely many proxies. *)
LEMMA KeysStep ==
  ASSUME PoolInv, [Next]_vars
  PROVE  /\ DOMAIN rows' \subseteq Proxy
         /\ IsFiniteSet(DOMAIN rows')
         /\ deleted' \in SUBSET Proxy
<1> DEFINE Goal == /\ DOMAIN rows' \subseteq Proxy
                   /\ IsFiniteSet(DOMAIN rows')
                   /\ deleted' \in SUBSET Proxy
<1>1. DOMAIN rows \subseteq Proxy /\ IsFiniteSet(DOMAIN rows) /\ deleted \in SUBSET Proxy
  BY DEF PoolInv, TypeOK
<1>2. \A p, row : DOMAIN Update(p, row) = DOMAIN rows
  BY DEF Update
<1>3. ASSUME NEW p \in Proxy
      PROVE  DOMAIN Upserted(p) \subseteq Proxy /\ IsFiniteSet(DOMAIN Upserted(p))
  BY <1>1, FS_AddElement DEF Upserted
<1>4. DOMAIN rows' = DOMAIN rows /\ UNCHANGED deleted => Goal
  BY <1>1
<1>5. ASSUME NEW l \in Loader, NEW p \in Proxy,
             AdminActivate(l, p) \/ AdminDeactivate(l, p)
      PROVE  Goal
  BY <1>2, <1>4, <1>5 DEF AdminActivate, AdminDeactivate
<1>6. ASSUME NEW l \in Loader, NEW p \in Proxy, AdminDelete(l, p)
      PROVE  Goal
  <2>1. IsFiniteSet(DOMAIN rows \ {p})
    BY <1>1, FS_RemoveElement
  <2>2. QED
    BY <1>1, <1>6, <2>1 DEF AdminDelete
<1>7. ASSUME NEW l \in Loader, NEW p \in Proxy, Ingest(l, p)
      PROVE  Goal
  BY <1>1, <1>3, <1>7 DEF Ingest
<1>8. ASSUME NEW p \in Proxy, AdminAdd(p)
      PROVE  Goal
  BY <1>1, <1>3, <1>8 DEF AdminAdd
<1>9. ASSUME NEW r \in Request, Succeed(r) \/ MarkFailed(r)
      PROVE  Goal
  BY <1>2, <1>4, <1>9 DEF Succeed, MarkFailed
<1>10. ASSUME NEW l \in Loader, Refresh(l) \/ LoadRead(l) \/ LoadWrite(l)
       PROVE  UNCHANGED table
  BY <1>10 DEF Refresh, LoadRead, LoadWrite
<1>11. ASSUME NEW r \in Request,
              \/ \E may, on, stream \in BOOLEAN : Admit(r, may, on, stream)
              \/ Begin(r) \/ Size(r) \/ Pick(r) \/ RunOut(r)
              \/ RateLimited(r) \/ RemoveFailed(r) \/ StopTrying(r)
              \/ OtherError(r) \/ DirectEnds(r)
       PROVE  UNCHANGED table
  BY <1>11 DEF Admit, Begin, Size, Pick, RunOut, RateLimited, RemoveFailed,
               StopTrying, OtherError, DirectEnds, table
<1>12. ASSUME NEW on \in BOOLEAN, Restart(on)
       PROVE  UNCHANGED table
  BY <1>12 DEF Restart
<1>13. UNCHANGED vars => UNCHANGED table
  BY DEF vars
<1>14. UNCHANGED table => Goal
  BY <1>4 DEF table
<1>15. QED
  BY <1>5, <1>6, <1>7, <1>8, <1>9, <1>10, <1>11, <1>12, <1>13, <1>14
     DEF Next, RequestStep

(* The part of PoolInv about the pool and the lists read for it. *)
PoolParts ==
  /\ pool \in Seq(Proxy) /\ Distinct(pool)
  /\ cursor \in Nat
  /\ snapshot \in [Loader -> Seq(Proxy)]
  /\ \A l \in Loader : Distinct(snapshot[l])

(* What a load reads and what a removal leaves has no proxy twice. *)
LEMMA PartsStep ==
  ASSUME PoolInv, [Next]_vars
  PROVE  PoolParts'
<1> DEFINE poolvars == <<pool, cursor, snapshot>>
<1>1. PoolParts
  BY DEF PoolInv, TypeOK, PoolParts
<1>2. <<>> \in Seq(Proxy) /\ Distinct(<<>>)
  BY DEF Distinct
<1>3. ASSUME NEW l \in Loader, LoadRead(l)
      PROVE  PoolParts'
  <2>1. PICK order \in SetToSeqs(Active) : snapshot' = [snapshot EXCEPT ![l] = order]
    BY <1>3 DEF LoadRead
  <2>2. order \in Seq(Proxy) /\ Distinct(order)
    BY ActiveOrders DEF PoolInv
  <2>3. UNCHANGED <<pool, cursor>>
    BY <1>3 DEF LoadRead, shared
  <2>4. QED
    BY <1>1, <2>1, <2>2, <2>3 DEF PoolParts
<1>4. ASSUME NEW l \in Loader, LoadWrite(l)
      PROVE  PoolParts'
  <2>1. pool' = snapshot[l] /\ cursor' = cursor
        /\ snapshot' = [snapshot EXCEPT ![l] = <<>>]
    BY <1>4 DEF LoadWrite, SetPool
  <2>2. QED
    BY <1>1, <1>2, <2>1 DEF PoolParts
<1>5. ASSUME NEW r \in Request, Succeed(r)
      PROVE  PoolParts'
  <2>1. cursor' = cursor + attempt[r] /\ UNCHANGED <<pool, snapshot>>
    BY <1>5 DEF Succeed, loaders
  <2>2. attempt[r] \in Nat
    BY DEF PoolInv, TypeOK
  <2>3. QED
    BY <1>1, <2>1, <2>2 DEF PoolParts
<1>6. ASSUME NEW r \in Request, RemoveFailed(r)
      PROVE  PoolParts'
  <2>1. pool' = Without(pool, current[r]) /\ UNCHANGED <<cursor, snapshot>>
    BY <1>6 DEF RemoveFailed, SetPool, loaders
  <2>2. QED
    BY <1>1, <2>1, WithoutFacts DEF PoolParts
<1>7. ASSUME NEW on \in BOOLEAN, Restart(on)
      PROVE  PoolParts'
  <2>1. pool' \in SetToSeqs(Active) \/ pool' = <<>>
    BY <1>7 DEF Restart
  <2>2. pool' \in Seq(Proxy) /\ Distinct(pool')
    BY <1>2, <2>1, ActiveOrders DEF PoolInv
  <2>3. cursor' = 0 /\ snapshot' = [l \in Loader |-> <<>>]
    BY <1>7 DEF Restart
  <2>4. QED
    BY <1>2, <2>2, <2>3 DEF PoolParts
<1>8. ASSUME NEW l \in Loader,
             \/ Refresh(l)
             \/ \E p \in Proxy : \/ AdminActivate(l, p)
                                 \/ AdminDeactivate(l, p)
                                 \/ AdminDelete(l, p)
                                 \/ Ingest(l, p)
      PROVE  UNCHANGED poolvars
  BY <1>8 DEF Refresh, AdminActivate, AdminDeactivate, AdminDelete, Ingest,
              BeginJob, shared, loaders
<1>9. ASSUME NEW p \in Proxy, AdminAdd(p)
      PROVE  UNCHANGED poolvars
  BY <1>9 DEF AdminAdd, shared
<1>10. ASSUME NEW r \in Request,
              \/ \E may, on, stream \in BOOLEAN : Admit(r, may, on, stream)
              \/ Begin(r) \/ Size(r) \/ Pick(r) \/ RunOut(r)
              \/ RateLimited(r) \/ MarkFailed(r) \/ StopTrying(r)
              \/ OtherError(r) \/ DirectEnds(r)
       PROVE  UNCHANGED poolvars
  BY <1>10 DEF Admit, Begin, Size, Pick, RunOut, RateLimited, MarkFailed,
               StopTrying, OtherError, DirectEnds, shared, loaders
<1>11. UNCHANGED vars => UNCHANGED poolvars
  BY DEF vars, shared, loaders
<1>12. UNCHANGED poolvars => PoolParts'
  BY <1>1 DEF PoolParts, Distinct
<1>13. QED
  BY <1>3, <1>4, <1>5, <1>6, <1>7, <1>8, <1>9, <1>10, <1>11, <1>12
     DEF Next, RequestStep

(* The part about where loaders and requests are. *)
ControlParts ==
  /\ job \in [Loader -> {"idle", "ingesting", "changed", "loading"}]
  /\ jobs \in Nat
  /\ pc \in [Request -> RequestPc]
  /\ bypass \in [Request -> BOOLEAN]
  /\ streaming \in [Request -> BOOLEAN]
  /\ attempt \in [Request -> Nat]
  /\ total \in [Request -> Nat]
  /\ current \in [Request -> Proxy \union {NoProxy}]
  /\ admitted \in Nat
  /\ tried \in [Request -> Seq(Proxy)]
  /\ disturbed \in [Request -> BOOLEAN]

(* The control state of loaders and requests keeps its type. *)
LEMMA ControlStep ==
  ASSUME PoolInv, [Next]_vars
  PROVE  ControlParts'
<1>1. ControlParts
  BY DEF PoolInv, TypeOK, ControlParts
<1>2. pool \in Seq(Proxy) /\ cursor \in Nat
  BY DEF PoolInv, TypeOK
<1>3. ASSUME NEW entries, SetPool(entries)
      PROVE  disturbed' \in [Request -> BOOLEAN]
  <2>1. Disturb => disturbed' \in [Request -> BOOLEAN]
    BY DEF Disturb
  <2>2. Disturb \/ UNCHANGED disturbed
    BY <1>3 DEF SetPool
  <2>3. QED
    BY <1>1, <2>1, <2>2 DEF ControlParts
<1>4. ASSUME NEW l \in Loader,
             \/ Refresh(l)
             \/ LoadRead(l)
             \/ \E p \in Proxy : \/ AdminActivate(l, p)
                                 \/ AdminDeactivate(l, p)
                                 \/ AdminDelete(l, p)
      PROVE  ControlParts'
  <2>1. UNCHANGED <<shared, requests>>
    BY <1>4 DEF Refresh, LoadRead, AdminActivate, AdminDeactivate, AdminDelete
  <2>2. /\ jobs' \in {jobs, jobs + 1}
        /\ \E step \in {"ingesting", "changed", "loading"} :
             job' = [job EXCEPT ![l] = step]
    BY <1>4 DEF Refresh, LoadRead, AdminActivate, AdminDeactivate, AdminDelete,
                BeginJob
  <2>3. QED
    BY <1>1, <2>1, <2>2 DEF shared, requests, ControlParts
<1>5. ASSUME NEW l \in Loader, NEW p \in Proxy, Ingest(l, p)
      PROVE  ControlParts'
  BY <1>1, <1>5 DEF Ingest, shared, loaders, requests, ControlParts
<1>6. ASSUME NEW l \in Loader, LoadWrite(l)
      PROVE  ControlParts'
  BY <1>1, <1>3, <1>6 DEF LoadWrite, requests, ControlParts
<1>7. ASSUME NEW p \in Proxy, AdminAdd(p)
      PROVE  ControlParts'
  BY <1>1, <1>7 DEF AdminAdd, shared, requests, ControlParts
<1>8. ASSUME NEW r \in Request, NEW may \in BOOLEAN, NEW on \in BOOLEAN,
             NEW stream \in BOOLEAN, Admit(r, may, on, stream)
      PROVE  ControlParts'
  BY <1>1, <1>8 DEF Admit, Goto, RequestPc, shared, loaders, ControlParts
<1>9. ASSUME NEW r \in Request, Begin(r) \/ MarkFailed(r)
      PROVE  ControlParts'
  BY <1>1, <1>9 DEF Begin, MarkFailed, Goto, RequestPc, shared, loaders, ControlParts
<1>10. ASSUME NEW r \in Request, Size(r)
       PROVE  ControlParts'
  <2>1. Len(pool) \in Nat
    BY <1>2
  <2>2. QED
    BY <1>1, <1>10, <2>1, PoolAssumption
       DEF Size, Goto, RequestPc, loaders, ControlParts
<1>11. ASSUME NEW r \in Request, Pick(r)
       PROVE  ControlParts'
  <2>1. Nth(attempt[r] - 1) \in Proxy
    <3>1. attempt[r] - 1 \in Nat /\ pool # <<>>
      BY <1>1, <1>11 DEF Pick, PoolInv, RequestInv, InLoop, ControlParts
    <3>2. QED
      BY <1>2, <3>1, NthFacts
  <2>2. /\ current' = [current EXCEPT ![r] = Nth(attempt[r] - 1)]
        /\ tried' = [tried EXCEPT ![r] = Append(@, Nth(attempt[r] - 1))]
        /\ pc' = [pc EXCEPT ![r] = "calling"]
        /\ UNCHANGED <<bypass, streaming, attempt, total, admitted, job, jobs, disturbed>>
    BY <1>1, <1>11 DEF Pick, Goto, shared, loaders, ControlParts
  <2> HIDE DEF Nth
  <2>3. QED
    BY <1>1, <2>1, <2>2 DEF ControlParts, RequestPc
<1>12. ASSUME NEW r \in Request, Over(r), UNCHANGED loaders,
              disturbed' \in [Request -> BOOLEAN]
       PROVE  ControlParts'
  BY <1>1, <1>12 DEF Over, Goto, RequestPc, loaders, ControlParts
<1>13. ASSUME NEW r \in Request, TryNext(r), UNCHANGED loaders,
              disturbed' \in [Request -> BOOLEAN]
       PROVE  ControlParts'
  BY <1>1, <1>13 DEF TryNext, Goto, RequestPc, loaders, ControlParts
<1>14. ASSUME NEW r \in Request, Succeed(r)
       PROVE  ControlParts'
  BY <1>12, <1>14 DEF Succeed, Disturb
<1>15. ASSUME NEW r \in Request, RunOut(r) \/ StopTrying(r) \/ DirectEnds(r)
       PROVE  ControlParts'
  BY <1>1, <1>12, <1>15 DEF RunOut, StopTrying, DirectEnds, shared, ControlParts
<1>16. ASSUME NEW r \in Request, RateLimited(r) \/ OtherError(r)
       PROVE  ControlParts'
  BY <1>1, <1>13, <1>16 DEF RateLimited, OtherError, shared, ControlParts
<1>17. ASSUME NEW r \in Request, RemoveFailed(r)
       PROVE  ControlParts'
  BY <1>3, <1>13, <1>17 DEF RemoveFailed
<1>18. ASSUME NEW on \in BOOLEAN, Restart(on)
       PROVE  ControlParts'
  BY <1>1, <1>18 DEF Restart, Disturb, RequestPc, ControlParts
<1>19. CASE UNCHANGED vars
  BY <1>1, <1>19 DEF vars, shared, loaders, requests, ControlParts
<1>20. QED
  BY <1>4, <1>5, <1>6, <1>7, <1>8, <1>9, <1>10, <1>11, <1>14, <1>15, <1>16,
     <1>17, <1>18, <1>19 DEF Next, RequestStep

-----------------------------------------------------------------------------
(* A request that does not move stays as it is, unless it is disturbed. *)
LEMMA ElsewhereStep ==
  ASSUME PoolInv, NEW q \in Request, RequestInv(q),
         pc'[q] = pc[q], attempt'[q] = attempt[q], total'[q] = total[q],
         current'[q] = current[q], tried'[q] = tried[q],
         \/ UNCHANGED <<pool, cursor>> /\ disturbed'[q] = disturbed[q]
         \/ InLoop(q) => disturbed'[q]
  PROVE  RequestInv(q)'
<1>1. InLoop(q)' <=> InLoop(q)
  BY DEF InLoop
<1>2. CASE UNCHANGED <<pool, cursor>> /\ disturbed'[q] = disturbed[q]
  <2>1. Walk(q) => Walk(q)'
    BY <1>2 DEF Walk, Attempts, Nth
  <2>2. QED
    BY <1>1, <1>2, <2>1 DEF RequestInv
<1>3. CASE InLoop(q) => disturbed'[q]
  BY <1>1, <1>3 DEF RequestInv
<1>4. QED
  BY <1>2, <1>3

(* A request that ends keeps nothing. *)
LEMMA OverStep ==
  ASSUME PoolInv, NEW r \in Request, Over(r)
  PROVE  /\ RequestInv(r)'
         /\ \A q \in Request \ {r} :
              /\ pc'[q] = pc[q] /\ attempt'[q] = attempt[q] /\ total'[q] = total[q]
              /\ current'[q] = current[q] /\ tried'[q] = tried[q]
<1>1. pc'[r] = "idle" /\ tried'[r] = <<>>
  BY DEF Over, Goto, PoolInv, TypeOK
<1>2. RequestInv(r)'
  BY <1>1 DEF RequestInv, InLoop
<1>3. QED
  BY <1>2 DEF Over, Goto, PoolInv, TypeOK

(* The next attempt follows the one just made. *)
LEMMA TryNextStep ==
  ASSUME PoolInv, NEW r \in Request, TryNext(r), pc[r] \in {"calling", "removing"},
         \/ UNCHANGED <<pool, cursor, disturbed>>
         \/ disturbed'[r]
  PROVE  /\ RequestInv(r)'
         /\ \A q \in Request \ {r} :
              /\ pc'[q] = pc[q] /\ attempt'[q] = attempt[q] /\ total'[q] = total[q]
              /\ current'[q] = current[q] /\ tried'[q] = tried[q]
<1>1. /\ pc'[r] = "picking" /\ attempt'[r] = attempt[r] + 1 /\ attempt[r] \in Nat
      /\ total'[r] = total[r] /\ tried'[r] = tried[r]
  BY DEF TryNext, Goto, PoolInv, TypeOK
<1>2. RequestInv(r) /\ InLoop(r) /\ InLoop(r)' /\ attempt[r] >= 1
  BY <1>1 DEF PoolInv, InLoop, RequestInv
<1>3. Attempts(r)' = Attempts(r)
  BY <1>1 DEF Attempts
<1>4. UNCHANGED <<pool, cursor, disturbed>> /\ Walk(r) => Walk(r)'
  BY <1>1, <1>3 DEF Walk, Nth
<1>5. RequestInv(r)'
  BY <1>1, <1>2, <1>4 DEF RequestInv
<1>6. QED
  BY <1>5 DEF TryNext, Goto, PoolInv, TypeOK

(* The next attempt goes to the next entry. *)
LEMMA PickStep ==
  ASSUME PoolInv, NEW r \in Request, Pick(r)
  PROVE  RequestInv(r)'
<1>1. /\ pc[r] = "picking" /\ attempt[r] \in Nat /\ total[r] \in Nat
      /\ attempt[r] <= total[r] /\ pool # <<>>
      /\ pool \in Seq(Proxy) /\ cursor \in Nat /\ tried[r] \in Seq(Proxy)
  BY DEF Pick, PoolInv, TypeOK
<1>2. RequestInv(r) /\ InLoop(r) /\ attempt[r] >= 1
  BY <1>1 DEF PoolInv, InLoop, RequestInv
<1> DEFINE next == Nth(attempt[r] - 1)
<1>3. next \in Proxy
  <2>1. attempt[r] - 1 \in Nat
    BY <1>1, <1>2
  <2>2. QED
    BY <1>1, <2>1, NthFacts
<1>4. /\ pc'[r] = "calling" /\ attempt'[r] = attempt[r] /\ total'[r] = total[r]
      /\ current'[r] = next /\ tried'[r] = Append(tried[r], next)
      /\ UNCHANGED <<pool, cursor, disturbed>>
  BY DEF Pick, Goto, PoolInv, TypeOK, shared
<1>5. ASSUME Walk(r) PROVE Walk(r)'
  <2>1. Attempts(r) = attempt[r] - 1 /\ Attempts(r)' = attempt[r]
    BY <1>1, <1>4 DEF Attempts
  <2>2. \A n : Nth(n)' = Nth(n)
    BY <1>4 DEF Nth
  <2> HIDE DEF next
  <2>3. /\ Len(tried'[r]) = attempt[r]
        /\ \A i \in 1 .. attempt[r] - 1 : tried'[r][i] = tried[r][i]
        /\ tried'[r][attempt[r]] = next
    BY <1>1, <1>2, <1>3, <1>4, <1>5, <2>1 DEF Walk
  <2>4. ASSUME NEW i \in 1 .. attempt[r]
        PROVE  tried'[r][i] = Nth(i - 1)
    <3>1. CASE i = attempt[r]
      BY <2>3, <3>1 DEF next
    <3>2. CASE i # attempt[r]
      <4>1. i \in 1 .. attempt[r] - 1
        BY <1>1, <3>2
      <4>2. QED
        BY <1>5, <2>1, <2>3, <4>1 DEF Walk
    <3>3. QED
      BY <3>1, <3>2
  <2>5. total[r] <= Len(pool) /\ Attempts(r)' \in 0 .. total[r]
    BY <1>1, <1>5, <2>1 DEF Walk
  <2>6. QED
    BY <1>4, <2>1, <2>2, <2>3, <2>4, <2>5 DEF Walk
<1> HIDE DEF next
<1>6. QED
  BY <1>2, <1>3, <1>4, <1>5 DEF RequestInv, InLoop

(* The loop takes its length from the pool it starts with. *)
LEMMA SizeStep ==
  ASSUME PoolInv, NEW r \in Request, Size(r)
  PROVE  RequestInv(r)'
<1>1. /\ pc[r] = "sizing" /\ pc'[r] = "picking" /\ attempt'[r] = 1
      /\ total'[r] = IF Len(pool) < MAX_ATTEMPTS THEN Len(pool) ELSE MAX_ATTEMPTS
      /\ UNCHANGED <<pool, cursor, tried>>
  BY DEF Size, Goto, PoolInv, TypeOK
<1>2. tried[r] = <<>> /\ Len(pool) \in Nat
  <2>1. RequestInv(r) /\ pool \in Seq(Proxy)
    BY DEF PoolInv, TypeOK
  <2>2. QED
    BY <1>1, <2>1 DEF RequestInv, InLoop
<1>3. total'[r] \in Nat /\ total'[r] <= Len(pool)
  BY <1>1, <1>2, PoolAssumption
<1>4. Walk(r)'
  <2>1. Attempts(r)' = 0
    BY <1>1 DEF Attempts
  <2>2. tried'[r] = <<>> /\ Len(pool') = Len(pool)
    BY <1>1, <1>2
  <2>3. QED
    BY <1>3, <2>1, <2>2 DEF Walk
<1>5. QED
  BY <1>1, <1>4 DEF RequestInv, InLoop

(* Every request after every step. *)
LEMMA RequestsStep ==
  ASSUME PoolInv, [Next]_vars
  PROVE  \A q \in Request : RequestInv(q)'
<1> DEFINE Still(q) == /\ pc'[q] = pc[q] /\ attempt'[q] = attempt[q]
                       /\ total'[q] = total[q] /\ current'[q] = current[q]
                       /\ tried'[q] = tried[q]
           Calm(q) == \/ UNCHANGED <<pool, cursor>> /\ disturbed'[q] = disturbed[q]
                      \/ InLoop(q) => disturbed'[q]
           Goal    == \A q \in Request : RequestInv(q)'
<1> USE DEF PoolInv
<1>1. ASSUME NEW q \in Request, Still(q), Calm(q) PROVE RequestInv(q)'
  BY <1>1, ElsewhereStep
<1>2. ASSUME UNCHANGED <<requests, shared>> PROVE Goal
  BY <1>1, <1>2 DEF requests, shared
<1>3. ASSUME NEW entries, SetPool(entries), NEW q \in Request PROVE Calm(q)
  BY <1>3 DEF SetPool, Disturb, InLoop
<1>4. ASSUME Disturb, NEW q \in Request PROVE Calm(q)
  BY <1>4 DEF Disturb, InLoop
<1>5. ASSUME NEW r \in Request, RequestInv(r)', UNCHANGED <<pool, cursor>>,
             \A q \in Request \ {r} : Still(q) /\ disturbed'[q] = disturbed[q]
      PROVE  Goal
  BY <1>1, <1>5
<1>6. ASSUME NEW l \in Loader, LoadWrite(l) PROVE Goal
  BY <1>1, <1>3, <1>6 DEF LoadWrite, requests
<1>7. ASSUME NEW r \in Request, NEW may \in BOOLEAN, NEW on \in BOOLEAN,
             NEW stream \in BOOLEAN, Admit(r, may, on, stream)
      PROVE  Goal
  <2>1. pc'[r] = "admitted" /\ tried'[r] = <<>>
    BY <1>7 DEF Admit, Goto, TypeOK
  <2>2. RequestInv(r)'
    BY <2>1 DEF RequestInv, InLoop
  <2>3. \A q \in Request \ {r} : Still(q) /\ disturbed'[q] = disturbed[q]
    BY <1>7 DEF Admit, Goto, TypeOK, shared
  <2>4. QED
    BY <1>5, <1>7, <2>2, <2>3 DEF Admit, shared
<1>8. ASSUME NEW r \in Request, Begin(r) PROVE Goal
  <2>1. pc[r] = "admitted" /\ pc'[r] \in {"sizing", "direct"} /\ tried'[r] = tried[r]
    BY <1>8 DEF Begin, Goto, TypeOK
  <2>2. RequestInv(r)'
    BY <2>1 DEF RequestInv, InLoop
  <2>3. \A q \in Request \ {r} : Still(q) /\ disturbed'[q] = disturbed[q]
    BY <1>8 DEF Begin, Goto, TypeOK, shared
  <2>4. QED
    BY <1>5, <1>8, <2>2, <2>3 DEF Begin, shared
<1>9. ASSUME NEW r \in Request, Size(r) PROVE Goal
  <2>1. \A q \in Request \ {r} : Still(q) /\ disturbed'[q] = disturbed[q]
    BY <1>9 DEF Size, Goto, TypeOK
  <2>2. QED
    BY <1>5, <1>9, <2>1, SizeStep DEF Size
<1>10. ASSUME NEW r \in Request, Pick(r) PROVE Goal
  <2>1. \A q \in Request \ {r} : Still(q) /\ disturbed'[q] = disturbed[q]
    BY <1>10 DEF Pick, Goto, TypeOK, shared
  <2>2. QED
    BY <1>5, <1>10, <2>1, PickStep DEF Pick, shared
<1>11. ASSUME NEW r \in Request, Succeed(r) PROVE Goal
  <2>1. Over(r) /\ Disturb
    BY <1>11 DEF Succeed
  <2>2. QED
    BY <1>1, <1>4, <2>1, OverStep
<1>12. ASSUME NEW r \in Request, RunOut(r) \/ StopTrying(r) \/ DirectEnds(r)
       PROVE  Goal
  <2>1. Over(r) /\ UNCHANGED shared
    BY <1>12 DEF RunOut, StopTrying, DirectEnds
  <2>2. QED
    BY <1>5, <2>1, OverStep DEF shared
<1>13. ASSUME NEW r \in Request, RateLimited(r) \/ OtherError(r) PROVE Goal
  <2>1. TryNext(r) /\ UNCHANGED shared /\ pc[r] = "calling"
    BY <1>13 DEF RateLimited, OtherError
  <2>2. QED
    BY <1>5, <2>1, TryNextStep DEF shared
<1>14. ASSUME NEW r \in Request, MarkFailed(r) PROVE Goal
  <2>1. /\ pc[r] = "calling" /\ pc'[r] = "removing" /\ attempt'[r] = attempt[r]
        /\ total'[r] = total[r] /\ current'[r] = current[r] /\ tried'[r] = tried[r]
        /\ UNCHANGED <<pool, cursor, disturbed>>
    BY <1>14 DEF MarkFailed, Goto, TypeOK, shared
  <2>2. Walk(r) => Walk(r)'
    BY <2>1 DEF Walk, Attempts, Nth
  <2>3. RequestInv(r)'
    BY <2>1, <2>2 DEF RequestInv, InLoop
  <2>4. \A q \in Request \ {r} : Still(q) /\ disturbed'[q] = disturbed[q]
    BY <1>14 DEF MarkFailed, Goto, TypeOK, shared
  <2>5. QED
    BY <1>5, <2>1, <2>3, <2>4
<1>15. ASSUME NEW r \in Request, RemoveFailed(r) PROVE Goal
  <2>1. TryNext(r) /\ pc[r] = "removing" /\ SetPool(Without(pool, current[r]))
    BY <1>15 DEF RemoveFailed
  <2>2. UNCHANGED <<pool, cursor, disturbed>> \/ disturbed'[r]
    BY <2>1 DEF SetPool, Disturb
  <2>3. QED
    BY <1>1, <1>3, <2>1, <2>2, TryNextStep
<1>16. ASSUME NEW on \in BOOLEAN, Restart(on) PROVE Goal
  BY <1>16 DEF Restart, RequestInv, InLoop
<1>17. ASSUME NEW l \in Loader,
              \/ Refresh(l) \/ LoadRead(l)
              \/ \E p \in Proxy : \/ AdminActivate(l, p)
                                  \/ AdminDeactivate(l, p)
                                  \/ AdminDelete(l, p)
                                  \/ Ingest(l, p)
       PROVE  UNCHANGED <<requests, shared>>
  BY <1>17 DEF Refresh, LoadRead, AdminActivate, AdminDeactivate, AdminDelete, Ingest
<1>18. ASSUME NEW p \in Proxy, AdminAdd(p)
       PROVE  UNCHANGED <<requests, shared>>
  BY <1>18 DEF AdminAdd
<1>19. UNCHANGED vars => UNCHANGED <<requests, shared>>
  BY DEF vars
<1>20. QED
  BY <1>2, <1>6, <1>7, <1>8, <1>9, <1>10, <1>11, <1>12, <1>13, <1>14, <1>15,
     <1>16, <1>17, <1>18, <1>19 DEF Next, RequestStep

(* Every step keeps the invariant. *)
LEMMA PoolNext == PoolInv /\ TableInv' /\ [Next]_vars => PoolInv'
<1> SUFFICES ASSUME PoolInv, TableInv', [Next]_vars PROVE PoolInv'
  OBVIOUS
<1>1. /\ DOMAIN rows' \subseteq Proxy /\ IsFiniteSet(DOMAIN rows')
      /\ deleted' \in SUBSET Proxy
  BY KeysStep
<1>2. rows' \in [DOMAIN rows' -> Row]
  BY DEF TableInv, GoodRow
<1>3. TypeOK'
  BY <1>1, <1>2, PartsStep, ControlStep DEF TypeOK, PoolParts, ControlParts
<1>4. Distinct(pool)' /\ \A l \in Loader : Distinct(snapshot[l])'
  BY PartsStep DEF PoolParts
<1>5. QED
  BY <1>1, <1>3, <1>4, RequestsStep DEF PoolInv

(* The invariant holds in every reachable state. *)
LEMMA PoolInvariant == Spec => []PoolInv
<1>1. Spec => []TableInv
  BY InitInv, NextInv, PTL DEF Spec
<1>2. QED
  BY <1>1, PoolInit, PoolNext, PTL DEF Spec

(***************************************************************************)
(* Table, pool, loaders and requests keep their types; in particular every *)
(* attempt finds a proxy in the pool, although another thread may replace  *)
(* the pool between the use of its length and the use of its entries.      *)
(***************************************************************************)
THEOREM PoolTypeCorrect == Spec => []TypeOK
BY PoolInvariant, PTL DEF PoolInv

(***************************************************************************)
(* No order of loads, removals and restarts puts a proxy into the pool     *)
(* twice.                                                                  *)
(***************************************************************************)
THEOREM PoolNeverRepeats == Spec => []PoolDistinct
<1>1. PoolInv => PoolDistinct
  BY DEF PoolInv, PoolDistinct
<1>2. QED
  BY <1>1, PoolInvariant, PTL

(* An undisturbed walk is at the entries after the cursor, all different. *)
LEMMA PoolGivesWalk == PoolInv => NoRepeatUndisturbed
<1>1. ASSUME PoolInv, NEW r \in Request, ~disturbed[r]
      PROVE  Distinct(tried[r])
  <2>1. RequestInv(r) /\ pool \in Seq(Proxy) /\ cursor \in Nat /\ Distinct(pool)
        /\ tried[r] \in Seq(Proxy) /\ total[r] \in Nat
    BY <1>1 DEF PoolInv, TypeOK
  <2>2. CASE ~InLoop(r)
    BY <2>1, <2>2 DEF RequestInv, Distinct
  <2>3. CASE InLoop(r)
    <3>1. Walk(r)
      BY <1>1, <2>1, <2>3 DEF RequestInv
    <3>2. ASSUME NEW i \in DOMAIN tried[r], NEW j \in DOMAIN tried[r],
                 tried[r][i] = tried[r][j]
          PROVE  i = j
      <4>1. i \in 1 .. Attempts(r) /\ j \in 1 .. Attempts(r)
            /\ Attempts(r) \in Nat /\ Attempts(r) <= Len(pool)
        BY <2>1, <3>1 DEF Walk
      <4>2. Nth(i - 1) = Nth(j - 1)
        BY <3>1, <3>2, <4>1 DEF Walk
      <4>3. /\ pool # <<>>
            /\ i - 1 \in 0 .. Len(pool) - 1 /\ j - 1 \in 0 .. Len(pool) - 1
        BY <2>1, <4>1
      <4>4. i - 1 = j - 1
        BY <2>1, <4>2, <4>3, NthFacts
      <4>5. QED
        BY <4>1, <4>4
    <3>3. QED
      BY <3>2 DEF Distinct
  <2>4. QED
    BY <2>2, <2>3
<1>2. QED
  BY <1>1 DEF NoRepeatUndisturbed

(***************************************************************************)
(* While nobody changes the pool or moves the cursor, a request calls      *)
(* through every proxy at most once, for any size of the pool, limit of    *)
(* attempts and value of the cursor.                                       *)
(***************************************************************************)
THEOREM WalkNeverRepeats == Spec => []NoRepeatUndisturbed
BY PoolGivesWalk, PoolInvariant, PTL
-----------------------------------------------------------------------------
(* The same with the background tasks of `omrp serve`. *)

(* The setting proxy.enabled is always on or off. *)
LEMMA ServeSetting == enabled \in BOOLEAN /\ [ServeNext]_allvars => enabled' \in BOOLEAN
BY DEF ServeNext, allvars, serving, Restarted, SetEnabled, FillPool, Task,
       TaskStep, Wake, FetchList, Refreshed

(* A step of the server is a step of the pool, or a task starts to fetch.  *)
LEMMA ServeStep ==
  ASSUME enabled \in BOOLEAN, [ServeNext]_allvars
  PROVE  [Next]_vars \/ \E l \in Loader : Fetch(l)
<1>1. CASE PoolStep
  BY <1>1 DEF PoolStep, Next
<1>2. CASE Restarted
  BY <1>2 DEF Restarted, Next
<1>3. CASE SetEnabled
  BY <1>3 DEF SetEnabled, vars
<1>4. ASSUME NEW l \in Loader, FillPool(l) PROVE Fetch(l)
  BY <1>4 DEF FillPool
<1>5. CASE Task
  BY <1>5, RefreshAssumption DEF Task, Wake, FetchList, Refreshed, Next, vars
<1>6. CASE UNCHANGED allvars
  BY <1>6 DEF allvars, vars
<1>7. QED
  BY <1>1, <1>2, <1>3, <1>4, <1>5, <1>6 DEF ServeNext

(* The start of a fetch touches nothing the invariant speaks of but job.   *)
LEMMA FetchKeeps ==
  ASSUME PoolInv, TableInv, NEW l \in Loader, Fetch(l)
  PROVE  PoolInv' /\ TableInv'
<1>1. /\ UNCHANGED <<snapshot, jobs, table, shared, requests>>
      /\ job' = [job EXCEPT ![l] = "ingesting"]
  BY DEF Fetch
<1>2. TypeOK'
  BY <1>1 DEF PoolInv, TypeOK, table, shared, requests
<1>3. TableInv'
  BY <1>1 DEF TableInv, table
<1>4. /\ UNCHANGED <<rows, pool, snapshot>>
      /\ \A r \in Request : RequestInv(r) <=> RequestInv(r)'
  BY <1>1 DEF RequestInv, InLoop, Walk, Attempts, Nth, table, shared, requests
<1>5. QED
  BY <1>2, <1>3, <1>4 DEF PoolInv, Distinct

(***************************************************************************)
(* What holds of the pool holds in the server with its start-up fill and   *)
(* its auto-refresh task, however often the setting is switched: neither   *)
(* makes flag and counter disagree, puts a proxy into the pool twice, or   *)
(* lets an undisturbed request call through a proxy twice.                 *)
(***************************************************************************)
THEOREM PoolSoundWhileServing ==
  ServeSpec => [](TypeOK /\ DisabledAtLimit /\ PoolDistinct /\ NoRepeatUndisturbed)
<1> DEFINE ServeInv == enabled \in BOOLEAN /\ PoolInv /\ TableInv
<1>1. ServeInit => ServeInv
  BY InitInv, PoolInit DEF ServeInit
<1>2. ServeInv /\ [ServeNext]_allvars => ServeInv'
  BY ServeSetting, ServeStep, FetchKeeps, NextInv, PoolNext
<1>3. ServeInv => TypeOK /\ DisabledAtLimit /\ PoolDistinct /\ NoRepeatUndisturbed
  BY TableGivesLimit, PoolGivesWalk DEF PoolInv, PoolDistinct
<1>4. QED
  BY <1>1, <1>2, <1>3, PTL DEF ServeSpec
=============================================================================
