---------------------------- MODULE AccountsProofs ----------------------------
(***************************************************************************)
(* What every instance of Accounts keeps, for any number of users, keys    *)
(* and handlers: AccountsInv, one lemma per statement and per request, and *)
(* the properties that follow.                                             *)
(***************************************************************************)
EXTENDS Accounts, FiniteSetTheorems, TLAPS

(* Whom a statement may name as the owner of a key. *)
Owner == UserId \union {NoUser, System}

(* The fields a change of permissions names, with their new values. *)
Edit == UNION {[S -> BOOLEAN] : S \in SUBSET Field}

(* The statements that lists are made of. *)
Statement ==
  [op : {"insert_user"}, user : UserId, is_admin : BOOLEAN]
    \union [op : {"insert_api_key", "own_reset"}, user : Owner, permissions : Perms]
    \union [op : {"authenticate", "resolve_user_info", "delete_user", "reset"}, user : UserId]
    \union [op : {"issue_token"}]
    \union [op : {"own_permissions"}, user : Owner]
    \union [op : {"set_user_active"}, user : UserId, is_active : BOOLEAN]
    \union [op : {"deactivate_api_key", "revoke"}, key : KeyId]
    \union [op : {"list_api_keys_for_user"}, user : Owner, key : KeyId]
    \union [op : {"edit"}, user : UserId, edit : Edit]
    \union [op : {"update_api_key_permissions"}, key : KeyId, permissions : Perms, edit : Edit]

(* The fields of a statement have their types ... *)
LEMMA StatementFacts ==
  ASSUME NEW s \in Statement
  PROVE  /\ s.op = "insert_user" => s.user \in UserId /\ s.is_admin \in BOOLEAN
         /\ s.op \in {"insert_api_key", "own_reset"} => s.user \in Owner /\ s.permissions \in Perms
         /\ s.op \in {"authenticate", "resolve_user_info", "delete_user", "reset"} => s.user \in UserId
         /\ s.op = "own_permissions" => s.user \in Owner
         /\ s.op = "set_user_active" => s.user \in UserId /\ s.is_active \in BOOLEAN
         /\ s.op \in {"deactivate_api_key", "revoke"} => s.key \in KeyId
         /\ s.op = "list_api_keys_for_user" => s.user \in Owner /\ s.key \in KeyId
         /\ s.op = "edit" => s.user \in UserId /\ s.edit \in Edit
         /\ s.op = "update_api_key_permissions" =>
              s.key \in KeyId /\ s.permissions \in Perms /\ s.edit \in Edit
  BY DEF Statement

(* ... and each constructor makes a statement. *)
LEMMA StatementIntro ==
  /\ \A u \in UserId, b \in BOOLEAN :
       /\ InsertUser(u, b) \in Statement
       /\ SetActive(u, b) \in Statement
  /\ \A u \in Owner, p \in Perms :
       /\ InsertKey(u, p) \in Statement
       /\ ReadOwnKey(u, p) \in Statement
  /\ \A u \in UserId :
       /\ Authenticate(u) \in Statement
       /\ ResolveUser(u) \in Statement
       /\ DeleteUser(u) \in Statement
       /\ ReadForReset(u) \in Statement
  /\ IssueToken \in Statement
  /\ \A u \in Owner : ReadOwnPerms(u) \in Statement
  /\ \A k \in KeyId : Deactivate(k) \in Statement /\ Revoke(k) \in Statement
  /\ \A u \in Owner, k \in KeyId : RevokeOwn(u, k) \in Statement
  /\ \A u \in UserId, e \in Edit : ReadForEdit(u, e) \in Statement
  /\ \A k \in KeyId, p \in Perms, e \in Edit : WritePerms(k, p, e) \in Statement
  BY DEF Statement, InsertUser, SetActive, InsertKey, ReadOwnKey, Authenticate, IssueToken,
         ResolveUser, DeleteUser, ReadForReset, ReadOwnPerms, Deactivate, Revoke, RevokeOwn, ReadForEdit, WritePerms

-----------------------------------------------------------------------------
(* The lists that handlers have left: only keys and tokens come after the  *)
(* first statement, and nothing comes after most statements.               *)
Shaped(L) ==
  /\ L \in Seq(Statement)
  /\ \A i \in DOMAIN L :
       /\ i > 1 => L[i].op \in {"insert_api_key", "authenticate"}
       /\ i < Len(L) => L[i].op \in {"insert_user", "insert_api_key", "deactivate_api_key"}

(* A new user is about to get a key, and nobody else is. *)
Paired(L) ==
  /\ Len(L) > 1
  /\ L[2].op = "insert_api_key"
  /\ \A i \in DOMAIN L : L[i].op = "insert_api_key" => L[i].user = L[1].user

(* Every list has that shape. *)
Todo ==
  /\ todo \in [Handler -> Seq(Statement)]
  /\ \A h \in Handler :
       /\ Shaped(todo[h])
       /\ Doing(h, "insert_user") => Paired(todo[h])
       /\ Doing(h, "resolve_user_info") => Current(h).user \in used

(* The lists that requests and reads leave have that shape ... *)
LEMMA ShapedFacts ==
  /\ Shaped(<<>>)
  /\ \A s \in Statement : Shaped(<<s>>)
  /\ \A s, t \in Statement :
       s.op \in {"insert_user", "deactivate_api_key"} /\ t.op = "insert_api_key" => Shaped(<<s, t>>)
  /\ \A s, t, r \in Statement :
       s.op = "insert_user" /\ t.op = "insert_api_key" /\ r.op = "authenticate" => Shaped(<<s, t, r>>)
  BY DEF Shaped

(* ... and keep it when their first statement has run. *)
LEMMA TailShaped ==
  ASSUME NEW L, Shaped(L), L # <<>>
  PROVE  /\ Shaped(Tail(L))
         /\ Tail(L) # <<>> => Head(Tail(L)).op \in {"insert_api_key", "authenticate"}
<1>1. L \in Seq(Statement) /\ Tail(L) \in Seq(Statement) /\ Len(Tail(L)) = Len(L) - 1
  BY DEF Shaped
<1>2. \A i \in DOMAIN Tail(L) : i + 1 \in DOMAIN L /\ Tail(L)[i] = L[i + 1] /\ i \in Nat /\ i > 0
  BY <1>1
<1> QED BY <1>1, <1>2 DEF Shaped

-----------------------------------------------------------------------------
(* Nothing names a user that a handler is about to create: no row, token,  *)
(* caller or other handler.  Without it a token of an earlier user could   *)
(* match a new one.                                                        *)
Fresh ==
  \A h \in Handler : Doing(h, "insert_user") =>
    /\ Current(h).user \in used
    /\ Current(h).user \notin DOMAIN users
    /\ \A c \in tokens : c.user_id # Current(h).user
    /\ \A g \in Handler :
         /\ caller[g] # Nobody => caller[g].user_id # Current(h).user
         /\ Doing(g, "resolve_user_info") => Current(g).user # Current(h).user
         /\ g # h /\ Doing(g, "insert_user") => Current(g).user # Current(h).user

(* A key belongs to a user that exists, or to nobody. *)
Owned == \A k \in DOMAIN keys : keys[k].user_id \in DOMAIN users \union {NoUser}

OneEach ==
  \A j, k \in DOMAIN keys :
    keys[j].user_id = keys[k].user_id /\ keys[j].user_id # NoUser => j = k

(* A user without a key is still to get one, or a restart came in between. *)
Keyed == \A u \in DOMAIN users : KeysOf(u) = {} => u \in cut \union Unfinished

(* Who is about to delete a user is an administrator, and another user;    *)
(* claims that are about to be signed are a user's.                        *)
Acting ==
  \A h \in Handler :
    /\ Doing(h, "delete_user") =>
         /\ caller[h] # Nobody
         /\ caller[h].is_admin
         /\ caller[h].user_id # Current(h).user
    /\ Doing(h, "issue_token") => caller[h] # Nobody /\ caller[h].user_id # System

(* What is about to be written to a key differs from it only in the fields *)
(* that the request named, unless the key has changed since it was read.   *)
Editing ==
  \A h \in Handler : Doing(h, "update_api_key_permissions") =>
    /\ Current(h).key \in spent
    /\ h \notin stale /\ Current(h).key \in DOMAIN keys =>
         \A f \in Field \ DOMAIN Current(h).edit :
           Current(h).permissions[f] = keys[Current(h).key].permissions[f]

(* The inductive invariant. *)
AccountsInv ==
  TypeOK /\ Todo /\ Fresh /\ ClaimsMatch /\ Owned /\ OneEach /\ Keyed /\ Acting /\ Editing

-----------------------------------------------------------------------------
(* What a step of handler h may do to leave the parts about statements.    *)

(* The list it leaves, when it begins with a statement of which the        *)
(* invariant says more.                                                    *)
Sound(h, L) ==
  /\ Shaped(L)
  /\ L # <<>> /\ Head(L).op = "insert_user" =>
       /\ Paired(L)
       /\ Head(L).user \in used' \ used
       /\ UNCHANGED <<users, tokens, caller>>
  /\ L # <<>> /\ Head(L).op = "resolve_user_info" => Head(L).user \in DOMAIN users
  /\ L # <<>> /\ Head(L).op = "delete_user" =>
       /\ caller'[h] # Nobody
       /\ caller'[h].is_admin
       /\ caller'[h].user_id # Head(L).user
  /\ L # <<>> /\ Head(L).op = "issue_token" =>
       caller'[h] # Nobody /\ caller'[h].user_id # System
  /\ L # <<>> /\ Head(L).op = "update_api_key_permissions" =>
       /\ Head(L).key \in DOMAIN keys
       /\ \A f \in Field \ DOMAIN Head(L).edit :
            Head(L).permissions[f] = keys'[Head(L).key].permissions[f]

(* Nobody begins to act as a user who is about to be created. *)
CallersKept(h) ==
  \A g \in Handler :
    \/ caller'[g] = caller[g]
    \/ /\ g = h
       /\ caller'[h] # Nobody =>
            \A i \in Handler : Doing(i, "insert_user") => Current(i).user # caller'[h].user_id

(* A token that is issued names nobody who is about to be created. *)
TokensKept ==
  \A c \in tokens' :
    \/ c \in tokens
    \/ \A g \in Handler : Doing(g, "insert_user") => Current(g).user # c.user_id

(* A user who is created is not one that another handler is to create. *)
UsersKept(h) ==
  \A v \in DOMAIN users' \ DOMAIN users :
    \A g \in Handler : g # h /\ Doing(g, "insert_user") => Current(g).user # v

(* Permissions that are written are read again, or known to be stale. *)
PermissionsKept(h) ==
  \A k \in DOMAIN keys' :
    \/ k \in DOMAIN keys /\ keys'[k].permissions = keys[k].permissions
    \/ k \notin spent
    \/ \A g \in Handler \ {h} :
         Doing(g, "update_api_key_permissions") /\ Current(g).key = k => g \in stale'

(* Such a step keeps the parts about lists. *)
LEMMA ListStep ==
  ASSUME AccountsInv, NEW h \in Handler, NEW L, Sound(h, L),
         todo' = [todo EXCEPT ![h] = L],
         CallersKept(h), TokensKept, UsersKept(h), PermissionsKept(h),
         used \subseteq used', spent \subseteq spent', stale \ {h} \subseteq stale'
  PROVE  Todo' /\ Fresh' /\ Acting' /\ Editing'
<1> USE DEF AccountsInv, Doing, Current
<1>0. /\ todo' \in [Handler -> Seq(Statement)]
      /\ todo'[h] = L
      /\ \A g \in Handler : g # h => todo'[g] = todo[g]
  BY DEF Todo, Sound, Shaped
<1>1. Todo'
  <2>1. \A g \in Handler : g # h => /\ Shaped(todo'[g])
                                    /\ Doing(g, "insert_user")' => Paired(todo'[g])
                                    /\ Doing(g, "resolve_user_info")' => Current(g)'.user \in used'
    BY <1>0 DEF Todo
  <2>2. /\ Shaped(todo'[h])
        /\ Doing(h, "insert_user")' => Paired(todo'[h])
        /\ Doing(h, "resolve_user_info")' => Current(h)'.user \in used'
    BY <1>0 DEF Sound, TypeOK
  <2> QED BY <1>0, <2>1, <2>2 DEF Todo, Shaped, Paired
<1>2. Fresh'
  <2> SUFFICES ASSUME NEW g \in Handler, Doing(g, "insert_user")'
      PROVE  /\ Current(g)'.user \in used'
             /\ Current(g)'.user \notin DOMAIN users'
             /\ \A c \in tokens' : c.user_id # Current(g)'.user
             /\ \A i \in Handler :
                  /\ caller'[i] # Nobody => caller'[i].user_id # Current(g)'.user
                  /\ Doing(i, "resolve_user_info")' => Current(i)'.user # Current(g)'.user
                  /\ i # g /\ Doing(i, "insert_user")' => Current(i)'.user # Current(g)'.user
    BY DEF Fresh
  <2>1. \A i \in Handler : i # h =>
          /\ Current(i)' = Current(i)
          /\ Doing(i, "resolve_user_info")' <=> Doing(i, "resolve_user_info")
          /\ Doing(i, "insert_user")' <=> Doing(i, "insert_user")
    BY <1>0
  <2>2. Doing(h, "resolve_user_info")' => Current(h)'.user \in DOMAIN users
    BY <1>0 DEF Sound
  <2>3. Doing(h, "insert_user")' => /\ Current(h)'.user \in used' \ used
                                    /\ UNCHANGED <<users, tokens, caller>>
    BY <1>0 DEF Sound
  <2>4. \A i \in Handler :
          /\ Doing(i, "insert_user") => Current(i).user \in used
          /\ Doing(i, "resolve_user_info") => Current(i).user \in used
    BY DEF Fresh, Todo
  <2>5. CASE g = h
    <3>1. DOMAIN users \subseteq used /\ \A c \in tokens : c.user_id \in used
      BY DEF TypeOK
    <3>2. \A i \in Handler : caller[i] # Nobody => caller[i].user_id \in used \union {System}
      BY DEF TypeOK
    <3>3. used' \subseteq UserId => Current(g)'.user # System
      BY <2>3, <2>5, AccountsAssumption
    <3>4. Current(g)'.user \in UserId
      BY <1>0, <2>5, StatementFacts, SMT DEF Sound, Shaped
    <3> HIDE DEF AccountsInv, Doing, Current
    <3> QED BY <2>1, <2>2, <2>3, <2>4, <2>5, <3>1, <3>2, <3>4, AccountsAssumption
  <2>6. CASE g # h
    <3>1. /\ Current(g).user \in used
          /\ Current(g).user \notin DOMAIN users
          /\ \A c \in tokens : c.user_id # Current(g).user
          /\ \A i \in Handler :
               /\ caller[i] # Nobody => caller[i].user_id # Current(g).user
               /\ Doing(i, "resolve_user_info") => Current(i).user # Current(g).user
               /\ i # g /\ Doing(i, "insert_user") => Current(i).user # Current(g).user
      BY <2>1, <2>6 DEF Fresh
    <3>2. Doing(g, "insert_user") /\ Current(g)' = Current(g)
      BY <2>1, <2>6
    <3> HIDE DEF AccountsInv, Doing, Current
    <3>3. Current(g).user \notin DOMAIN users' /\ \A c \in tokens' : c.user_id # Current(g).user
      BY <2>6, <3>1, <3>2 DEF UsersKept, TokensKept
    <3>4. \A i \in Handler : caller'[i] # Nobody => caller'[i].user_id # Current(g).user
      BY <3>1, <3>2 DEF CallersKept
    <3>5. \A i \in Handler :
            /\ Doing(i, "resolve_user_info")' => Current(i)'.user # Current(g).user
            /\ i # g /\ Doing(i, "insert_user")' => Current(i)'.user # Current(g).user
      BY <2>1, <2>2, <2>3, <3>1
    <3> QED BY <3>1, <3>2, <3>3, <3>4, <3>5
  <2> QED BY <2>5, <2>6
<1>3. Acting'
  <2> SUFFICES ASSUME NEW g \in Handler
      PROVE  /\ Doing(g, "delete_user")' =>
                  /\ caller'[g] # Nobody
                  /\ caller'[g].is_admin
                  /\ caller'[g].user_id # Current(g)'.user
             /\ Doing(g, "issue_token")' => caller'[g] # Nobody /\ caller'[g].user_id # System
    BY DEF Acting
  <2>1. CASE g = h
    BY <1>0, <2>1 DEF Sound
  <2>2. CASE g # h
    BY <1>0, <2>2 DEF Acting, CallersKept
  <2> QED BY <2>1, <2>2
<1>4. Editing'
  <2> SUFFICES ASSUME NEW g \in Handler, Doing(g, "update_api_key_permissions")'
      PROVE  /\ Current(g)'.key \in spent'
             /\ g \notin stale' /\ Current(g)'.key \in DOMAIN keys' =>
                  \A f \in Field \ DOMAIN Current(g)'.edit :
                    Current(g)'.permissions[f] = keys'[Current(g)'.key].permissions[f]
    BY DEF Editing
  <2>1. CASE g = h
    BY <1>0, <2>1 DEF Sound, TypeOK
  <2>2. CASE g # h
    <3>1. Doing(g, "update_api_key_permissions") /\ Current(g)' = Current(g)
      BY <1>0, <2>2
    <3> QED BY <2>2, <3>1 DEF Editing, PermissionsKept
  <2> QED BY <2>1, <2>2
<1> QED BY <1>1, <1>2, <1>3, <1>4

-----------------------------------------------------------------------------
(* What a step of handler h may do to leave every user its key: a key that *)
(* h was to insert is still to be inserted, or is there, or nobody's.      *)
Handed(h) ==
  \A i \in DOMAIN todo[h] : todo[h][i].op = "insert_api_key" =>
    \/ todo[h][i].user \notin DOMAIN users'
    \/ \E k \in DOMAIN keys' : keys'[k].user_id = todo[h][i].user
    \/ \E j \in DOMAIN todo'[h] :
         todo'[h][j].op = "insert_api_key" /\ todo'[h][j].user = todo[h][i].user

KeysKept ==
  \A k \in DOMAIN keys : keys[k].user_id \in DOMAIN users' =>
    k \in DOMAIN keys' /\ keys'[k].user_id = keys[k].user_id

(* A user who is created is to get a key. *)
Provided(h) ==
  \A u \in DOMAIN users' \ DOMAIN users :
    \E j \in DOMAIN todo'[h] : todo'[h][j].op = "insert_api_key" /\ todo'[h][j].user = u

(* Such a step keeps Keyed. *)
LEMMA KeyedStep ==
  ASSUME AccountsInv, NEW h \in Handler, NEW L, todo' = [todo EXCEPT ![h] = L],
         Handed(h), KeysKept, Provided(h), cut \subseteq cut'
  PROVE  Keyed'
<1> USE DEF AccountsInv
<1> SUFFICES ASSUME NEW u \in DOMAIN users', \A k \in DOMAIN keys' : keys'[k].user_id # u,
                    u \notin cut'
    PROVE  \E g \in Handler : \E i \in DOMAIN todo'[g] :
             todo'[g][i].op = "insert_api_key" /\ todo'[g][i].user = u
  BY DEF Keyed, KeysOf, Unfinished
<1>0. todo'[h] = L /\ \A g \in Handler : g # h => todo'[g] = todo[g]
  BY DEF Todo
<1>1. CASE u \notin DOMAIN users
  BY <1>1 DEF Provided
<1>2. CASE u \in DOMAIN users
  <2>1. KeysOf(u) = {}
    BY DEF KeysOf, KeysKept
  <2>2. PICK g \in Handler : \E i \in DOMAIN todo[g] :
          todo[g][i].op = "insert_api_key" /\ todo[g][i].user = u
    BY <1>2, <2>1 DEF Keyed, Unfinished
  <2> QED BY <1>0, <2>2 DEF Handed
<1> QED BY <1>1, <1>2

(* Running the first statement hands the rest on. *)
LEMMA TailHanded ==
  ASSUME Todo, NEW h \in Handler, todo[h] # <<>>,
         todo' = [todo EXCEPT ![h] = Tail(todo[h])],
         Current(h).op = "insert_api_key" =>
           \/ Current(h).user \notin DOMAIN users'
           \/ \E k \in DOMAIN keys' : keys'[k].user_id = Current(h).user
  PROVE  Handed(h)
<1>0. todo[h] \in Seq(Statement) /\ todo'[h] = Tail(todo[h])
  BY DEF Todo
<1> SUFFICES ASSUME NEW i \in DOMAIN todo[h], todo[h][i].op = "insert_api_key", i # 1
    PROVE  \E j \in DOMAIN todo'[h] :
             todo'[h][j].op = "insert_api_key" /\ todo'[h][j].user = todo[h][i].user
  BY <1>0 DEF Handed, Current
<1>1. Len(Tail(todo[h])) = Len(todo[h]) - 1
  BY <1>0
<1>2. i \in 2 .. Len(todo[h])
  BY <1>0
<1>3. i - 1 \in 1 .. Len(Tail(todo[h])) /\ Tail(todo[h])[i - 1] = todo[h][i]
  BY <1>0, <1>1, <1>2
<1>4. DOMAIN Tail(todo[h]) = 1 .. Len(Tail(todo[h]))
  BY <1>0
<1> QED BY <1>0, <1>3, <1>4

(* Most statements are the only one of their list. *)
LEMMA AloneHanded ==
  ASSUME Todo, NEW h \in Handler,
         todo[h] # <<>> =>
           Current(h).op \notin {"insert_user", "insert_api_key", "deactivate_api_key"}
  PROVE  Handed(h)
<1>1. \A i \in DOMAIN todo[h] : i = 1
  BY DEF Todo, Shaped, Current
<1>2. \A i \in DOMAIN todo[h] : todo[h][i].op # "insert_api_key"
  BY <1>1 DEF Todo, Current
<1> QED BY <1>2 DEF Handed

-----------------------------------------------------------------------------
(* The statement a handler is at. *)
LEMMA CurrentFacts ==
  ASSUME Todo, NEW h \in Handler, NEW op, Doing(h, op)
  PROVE  Current(h) \in Statement /\ Current(h).op = op /\ todo[h] # <<>>
  BY DEF Todo, Doing, Current

(* Lists that begin with none of those statements. *)
Plain(L) ==
  /\ Shaped(L)
  /\ L # <<>> => Head(L).op \notin {"insert_user", "resolve_user_info", "delete_user",
                                    "update_api_key_permissions", "issue_token"}

(* A list that begins with a plain statement may begin at any time. *)
LEMMA PlainSound == ASSUME NEW h, NEW L, Plain(L) PROVE Sound(h, L)
  BY DEF Plain, Sound

(* A step that does nothing but go on. *)
LEMMA GoOnKeeps ==
  ASSUME AccountsInv, NEW h \in Handler, NEW L, Plain(L), GoOn(h, L), Handed(h),
         UNCHANGED <<users, keys, tokens, spent, revoked, cut>>, stale' \in {stale, stale \ {h}}
  PROVE  AccountsInv'
<1> USE DEF AccountsInv, GoOn
<1>1. /\ todo' = [todo EXCEPT ![h] = L]
      /\ caller' = caller \/ caller' = [caller EXCEPT ![h] = Nobody]
      /\ used' = used
  OBVIOUS
<1>2. TypeOK'
  BY DEF TypeOK
<1>3. /\ CallersKept(h) /\ TokensKept /\ UsersKept(h) /\ PermissionsKept(h)
      /\ KeysKept /\ Provided(h)
  BY DEF TypeOK, CallersKept, TokensKept, UsersKept, PermissionsKept, KeysKept, Provided
<1>4. Todo' /\ Fresh' /\ Acting' /\ Editing'
  BY <1>1, <1>3, ListStep, PlainSound
<1>5. ClaimsMatch'
  BY DEF ClaimsMatch, TypeOK
<1>6. Owned' /\ OneEach'
  BY DEF Owned, OneEach
<1>7. Keyed'
  BY <1>1, <1>3, KeyedStep
<1> QED BY <1>2, <1>4, <1>5, <1>6, <1>7

-----------------------------------------------------------------------------
(* A request that begins with some statements. *)
LEMMA BeginKeeps ==
  ASSUME AccountsInv, NEW h \in Handler, NEW L, Sound(h, L), todo[h] = <<>>,
         todo' = [todo EXCEPT ![h] = L], UNCHANGED <<caller, tables, history>>,
         calls' \in 0 .. MaxCalls, used \subseteq used', used' \subseteq UserId
  PROVE  AccountsInv'
<1> USE DEF AccountsInv, tables, history
<1>1. TypeOK'
  BY DEF TypeOK
<1>2. /\ CallersKept(h) /\ TokensKept /\ UsersKept(h) /\ PermissionsKept(h)
      /\ KeysKept /\ Provided(h) /\ Handed(h)
  BY DEF CallersKept, TokensKept, UsersKept, PermissionsKept, KeysKept, Provided, Handed
<1>3. Todo' /\ Fresh' /\ Acting' /\ Editing'
  BY <1>2, ListStep
<1>4. ClaimsMatch' /\ Owned' /\ OneEach'
  BY DEF ClaimsMatch, Owned, OneEach
<1>5. Keyed'
  BY <1>2, KeyedStep
<1> QED BY <1>1, <1>3, <1>4, <1>5

(* A request whose caller is known at once. *)
LEMMA CallerKeeps ==
  ASSUME AccountsInv, NEW h \in Handler, NEW c, todo[h] = <<>>,
         c \in tokens \/ c = Claims(System, TRUE),
         caller' = [caller EXCEPT ![h] = c], UNCHANGED <<todo, used, tables, history>>,
         calls' \in 0 .. MaxCalls
  PROVE  AccountsInv'
<1> USE DEF AccountsInv, tables, history
<1>0. c \in [user_id : used \union {System}, is_admin : BOOLEAN]
  <2>1. c \in tokens => c \in [user_id : used, is_admin : BOOLEAN]
    BY DEF TypeOK
  <2>2. CASE c \in tokens
    BY <2>1, <2>2
  <2>3. CASE c = Claims(System, TRUE)
    BY <2>3 DEF Claims
  <2> QED BY <2>2, <2>3
<1>1. TypeOK'
  BY <1>0 DEF TypeOK
<1>2. todo' = [todo EXCEPT ![h] = <<>>] /\ Sound(h, <<>>)
  BY ShapedFacts DEF Todo, Sound
<1>3. CallersKept(h)
  <2> SUFFICES ASSUME NEW i \in Handler, Doing(i, "insert_user")
      PROVE  Current(i).user # c.user_id
    BY DEF CallersKept, TypeOK
  <2> QED BY AccountsAssumption DEF Fresh, Claims, TypeOK
<1>4. /\ TokensKept /\ UsersKept(h) /\ PermissionsKept(h)
      /\ KeysKept /\ Provided(h) /\ Handed(h)
  BY DEF TokensKept, UsersKept, PermissionsKept, KeysKept, Provided, Handed
<1>5. Todo' /\ Fresh' /\ Acting' /\ Editing'
  BY <1>2, <1>3, <1>4, ListStep
<1>6. ClaimsMatch'
  <2> SUFFICES ASSUME c.user_id \in DOMAIN users
      PROVE  c.is_admin = users[c.user_id].is_admin
    BY DEF ClaimsMatch, TypeOK
  <2> QED BY AccountsAssumption DEF ClaimsMatch, Claims, TypeOK
<1>7. Owned' /\ OneEach'
  BY DEF Owned, OneEach
<1>8. Keyed'
  BY <1>2, <1>4, KeyedStep
<1> QED BY <1>1, <1>5, <1>6, <1>7, <1>8

(* The lists that requests begin with. *)
LEMMA Beginnings ==
  ASSUME AccountsInv, NEW h \in Handler
  PROVE  /\ \A s \in Statement :
              s.op \notin {"insert_user", "resolve_user_info", "delete_user",
                           "update_api_key_permissions", "issue_token"} => Plain(<<s>>)
         /\ Plain(<<>>)
         /\ \A s, t \in Statement :
              s.op = "deactivate_api_key" /\ t.op = "insert_api_key" => Plain(<<s, t>>)
         /\ \A u \in UserId, admin \in BOOLEAN, p \in Perms :
              u \in used' \ used /\ UNCHANGED <<users, tokens, caller>> =>
                /\ Sound(h, <<InsertUser(u, admin), InsertKey(u, p)>>)
                /\ Sound(h, <<InsertUser(u, admin), InsertKey(u, p), Authenticate(u)>>)
<1>1. /\ \A s \in Statement :
           s.op \notin {"insert_user", "resolve_user_info", "delete_user",
                        "update_api_key_permissions", "issue_token"} => Plain(<<s>>)
      /\ Plain(<<>>)
      /\ \A s, t \in Statement :
           s.op = "deactivate_api_key" /\ t.op = "insert_api_key" => Plain(<<s, t>>)
  BY ShapedFacts DEF Plain
<1>2. ASSUME NEW u \in UserId, NEW admin \in BOOLEAN, NEW p \in Perms,
             u \in used' \ used, UNCHANGED <<users, tokens, caller>>
      PROVE  /\ Sound(h, <<InsertUser(u, admin), InsertKey(u, p)>>)
             /\ Sound(h, <<InsertUser(u, admin), InsertKey(u, p), Authenticate(u)>>)
  <2> DEFINE s == InsertUser(u, admin)
             t == InsertKey(u, p)
             r == Authenticate(u)
  <2>1. s \in Statement /\ t \in Statement /\ r \in Statement
    BY StatementIntro DEF Owner
  <2>2. /\ s.op = "insert_user" /\ t.op = "insert_api_key" /\ r.op = "authenticate"
        /\ s.user = u /\ t.user = u
    BY DEF InsertUser, InsertKey, Authenticate
  <2> HIDE DEF s, t, r
  <2>3. Shaped(<<s, t>>) /\ Shaped(<<s, t, r>>)
    BY <2>1, <2>2, ShapedFacts
  <2>4. Paired(<<s, t>>) /\ Paired(<<s, t, r>>)
    BY <2>2 DEF Paired
  <2>5. Sound(h, <<s, t>>) /\ Sound(h, <<s, t, r>>)
    BY <1>2, <2>2, <2>3, <2>4 DEF Sound
  <2> QED BY <2>5 DEF s, t, r
<1> QED BY <1>1, <1>2

(* The permissions that new keys get. *)
LEMMA PermsFacts == Default \in Perms /\ AdminDefault \in Perms
  BY DEF Default, AdminDefault, Perms, Field

(* A request that arrives. *)
LEMMA ArriveFacts ==
  ASSUME AccountsInv, NEW h \in Handler, Arrive(h)
  PROVE  calls' \in 0 .. MaxCalls /\ todo[h] = <<>> /\ UNCHANGED <<tables, history>>
  BY AccountsAssumption DEF AccountsInv, TypeOK, Arrive

(* One lemma per request. *)
LEMMA SetupInitKeeps ==
  ASSUME AccountsInv, NEW h \in Handler, NEW u \in UserId, SetupInit(h, u) PROVE AccountsInv'
<1>1. u \in used' \ used /\ used' \subseteq UserId /\ used \subseteq used'
  BY DEF AccountsInv, TypeOK, SetupInit, NewUser
<1>2. Sound(h, <<InsertUser(u, TRUE), InsertKey(u, AdminDefault)>>)
  BY <1>1, Beginnings, PermsFacts DEF SetupInit, Arrive, tables
<1> QED BY <1>1, <1>2, ArriveFacts, BeginKeeps DEF SetupInit

(* A registration names a user that nobody has named before. *)
LEMMA RegisterKeeps ==
  ASSUME AccountsInv, NEW h \in Handler, NEW u \in UserId, Register(h, u) PROVE AccountsInv'
<1>1. u \in used' \ used /\ used' \subseteq UserId /\ used \subseteq used'
  BY DEF AccountsInv, TypeOK, Register, NewUser
<1>2. Sound(h, <<InsertUser(u, FALSE), InsertKey(u, Default), Authenticate(u)>>)
  BY <1>1, Beginnings, PermsFacts DEF Register, Arrive, tables
<1> QED BY <1>1, <1>2, ArriveFacts, BeginKeeps DEF Register

(* A login: its one statement reads the row the claims come from. *)
LEMMA LogInKeeps ==
  ASSUME AccountsInv, NEW h \in Handler, NEW u \in UserId, LogIn(h, u) PROVE AccountsInv'
<1>1. used' = used /\ used \subseteq UserId
  BY DEF AccountsInv, TypeOK, LogIn
<1>2. Authenticate(u) \in Statement /\ Authenticate(u).op = "authenticate"
  BY StatementIntro DEF Authenticate
<1>3. Sound(h, <<Authenticate(u)>>)
  BY <1>2, Beginnings, PlainSound
<1> QED BY <1>1, <1>3, ArriveFacts, BeginKeeps DEF LogIn

(* A call with a token takes over its claims. *)
LEMMA UseTokenKeeps ==
  ASSUME AccountsInv, NEW h \in Handler, NEW c \in tokens, UseToken(h, c) PROVE AccountsInv'
  BY ArriveFacts, CallerKeeps DEF UseToken

(* A call with an API key still has to look its user up. *)
LEMMA UseKeyKeeps ==
  ASSUME AccountsInv, NEW h \in Handler, NEW k \in DOMAIN keys, UseKey(h, k) PROVE AccountsInv'
<1>1. CASE keys[k].user_id = NoUser
  BY <1>1, ArriveFacts, CallerKeeps DEF UseKey
<1>2. CASE keys[k].user_id # NoUser
  <2> DEFINE u == keys[k].user_id
  <2>1. u \in DOMAIN users /\ u \in UserId /\ used \subseteq UserId
    BY <1>2 DEF AccountsInv, Owned, TypeOK
  <2>2. ResolveUser(u) \in Statement /\ ResolveUser(u).op = "resolve_user_info" /\ ResolveUser(u).user = u
    BY <2>1, StatementIntro DEF ResolveUser
  <2>3. Sound(h, <<ResolveUser(u)>>)
    BY <2>1, <2>2, ShapedFacts DEF Sound
  <2> QED BY <1>2, <2>1, <2>3, ArriveFacts, BeginKeeps DEF UseKey
<1> QED BY <1>1, <1>2

(* A request of an authenticated caller ... *)
LEMMA AskKeeps ==
  ASSUME AccountsInv, NEW h \in Handler, NEW L, Sound(h, L), Ask(h, L),
         used \subseteq used', used' \subseteq UserId
  PROVE  AccountsInv'
<1>1. calls' \in 0 .. MaxCalls
  BY DEF Ask, AccountsInv, TypeOK
<1> QED BY <1>1, BeginKeeps DEF Ask

(* ... that begins with an ordinary statement. *)
LEMMA AskPlain ==
  ASSUME AccountsInv, NEW h \in Handler, NEW s \in Statement, Ask(h, <<s>>), UNCHANGED used,
         s.op \notin {"insert_user", "resolve_user_info", "delete_user",
                      "update_api_key_permissions", "issue_token"}
  PROVE  AccountsInv'
<1>1. Sound(h, <<s>>)
  BY Beginnings, PlainSound
<1> QED BY <1>1, AskKeeps DEF AccountsInv, TypeOK

(* An administrator's request: the guard read the claims, and they are     *)
(* true.                                                                   *)
LEMMA AdminRequestKeeps ==
  ASSUME AccountsInv, NEW h \in Handler, AdminRequest(h) PROVE AccountsInv'
<1>1. used \subseteq UserId /\ DOMAIN keys \subseteq KeyId
  BY DEF AccountsInv, TypeOK
<1>2. CASE \E u \in UserId, admin \in BOOLEAN : AdminCreateUser(h, u, admin)
  <2> PICK u \in UserId, admin \in BOOLEAN : AdminCreateUser(h, u, admin)
    BY <1>2
  <2> DEFINE p == IF admin THEN AdminDefault ELSE Default
  <2>1. u \in used' \ used /\ used' \subseteq UserId /\ used \subseteq used' /\ p \in Perms
    BY <1>1, PermsFacts DEF AdminCreateUser, NewUser
  <2>2. Sound(h, <<InsertUser(u, admin), InsertKey(u, p)>>)
    BY <2>1, Beginnings DEF AdminCreateUser, Ask, tables
  <2> QED BY <2>1, <2>2, AskKeeps DEF AdminCreateUser
<1>3. ASSUME NEW u \in used, NEW active \in BOOLEAN, Ask(h, <<SetActive(u, active)>>), UNCHANGED used
      PROVE  AccountsInv'
  <2>1. SetActive(u, active) \in Statement /\ SetActive(u, active).op = "set_user_active"
    BY <1>1, StatementIntro DEF SetActive
  <2> QED BY <1>3, <2>1, AskPlain
<1>4. ASSUME NEW u \in used, AdminDeleteUser(h, u), UNCHANGED used
      PROVE  AccountsInv'
  <2>1. DeleteUser(u) \in Statement /\ DeleteUser(u).op = "delete_user" /\ DeleteUser(u).user = u
    BY <1>1, StatementIntro DEF DeleteUser
  <2>2. caller'[h] # Nobody /\ caller'[h].is_admin /\ caller'[h].user_id # u
    BY <1>4 DEF AdminRequest, AdminDeleteUser, Ask
  <2> DEFINE s == DeleteUser(u)
  <2>3. Shaped(<<s>>) /\ s.op = "delete_user" /\ s.user = u
    BY <2>1, ShapedFacts
  <2> HIDE DEF s
  <2>4. Sound(h, <<s>>)
    BY <2>2, <2>3 DEF Sound
  <2> QED BY <1>1, <1>4, <2>4, AskKeeps DEF AdminDeleteUser, s
<1>5. ASSUME NEW u \in used \union {NoUser}, Ask(h, <<InsertKey(u, Default)>>), UNCHANGED used
      PROVE  AccountsInv'
  <2>1. InsertKey(u, Default) \in Statement /\ InsertKey(u, Default).op = "insert_api_key"
    BY <1>1, StatementIntro, PermsFacts DEF InsertKey, Owner
  <2> QED BY <1>5, <2>1, AskPlain
<1>6. ASSUME NEW k \in DOMAIN keys, Ask(h, <<Revoke(k)>>), UNCHANGED used
      PROVE  AccountsInv'
  <2>1. Revoke(k) \in Statement /\ Revoke(k).op = "revoke"
    BY <1>1, StatementIntro DEF Revoke
  <2> QED BY <1>6, <2>1, AskPlain
<1>7. ASSUME NEW u \in used, Ask(h, <<ReadForReset(u)>>), UNCHANGED used
      PROVE  AccountsInv'
  <2>1. ReadForReset(u) \in Statement /\ ReadForReset(u).op = "reset"
    BY <1>1, StatementIntro DEF ReadForReset
  <2> QED BY <1>7, <2>1, AskPlain
<1>8. ASSUME NEW u \in used, NEW f \in Field, NEW value \in BOOLEAN,
             Ask(h, <<ReadForEdit(u, [g \in {f} |-> value])>>), UNCHANGED used
      PROVE  AccountsInv'
  <2> DEFINE e == [g \in {f} |-> value]
  <2>0. {f} \in SUBSET Field /\ e \in [{f} -> BOOLEAN]
    OBVIOUS
  <2>1. e \in Edit
    BY <2>0 DEF Edit
  <2> HIDE DEF e
  <2>2. ReadForEdit(u, e) \in Statement /\ ReadForEdit(u, e).op = "edit"
    BY <1>1, <2>1, StatementIntro DEF ReadForEdit
  <2>3. Ask(h, <<ReadForEdit(u, e)>>)
    BY <1>8 DEF e
  <2> QED BY <1>8, <2>2, <2>3, AskPlain
<1> QED BY <1>2, <1>3, <1>4, <1>5, <1>6, <1>7, <1>8 DEF AdminRequest

(* A request about one's own account. *)
LEMMA OwnRequestKeeps ==
  ASSUME AccountsInv, NEW h \in Handler, OwnRequest(h) PROVE AccountsInv'
<1> DEFINE u == caller[h].user_id
<1>1. u \in Owner /\ DOMAIN keys \subseteq KeyId /\ UNCHANGED used
  BY DEF AccountsInv, TypeOK, OwnRequest, Owner
<1> HIDE DEF u
<1>2. CASE Ask(h, <<InsertKey(u, Default)>>)
  <2>1. InsertKey(u, Default) \in Statement /\ InsertKey(u, Default).op = "insert_api_key"
    BY <1>1, StatementIntro, PermsFacts DEF InsertKey
  <2> QED BY <1>1, <1>2, <2>1, AskPlain
<1>3. ASSUME NEW k \in DOMAIN keys, Ask(h, <<RevokeOwn(u, k)>>)
      PROVE  AccountsInv'
  <2>1. RevokeOwn(u, k) \in Statement /\ RevokeOwn(u, k).op = "list_api_keys_for_user"
    BY <1>1, StatementIntro DEF RevokeOwn
  <2> QED BY <1>1, <1>3, <2>1, AskPlain
<1>4. CASE Ask(h, <<ReadOwnPerms(u)>>)
  <2>1. ReadOwnPerms(u) \in Statement /\ ReadOwnPerms(u).op = "own_permissions"
    BY <1>1, StatementIntro DEF ReadOwnPerms
  <2> QED BY <1>1, <1>4, <2>1, AskPlain
<1> QED BY <1>2, <1>3, <1>4 DEF OwnRequest, u

(* A restart drops the lists; the users still without a key are in cut. *)
LEMMA RestartKeeps ==
  ASSUME AccountsInv, Restart PROVE AccountsInv'
<1> USE DEF AccountsInv, Restart, tables
<1>1. TypeOK'
  BY AccountsAssumption DEF TypeOK, Unfinished
<1>2. \A h \in Handler : todo'[h] = <<>> /\ caller'[h] = Nobody
  OBVIOUS
<1>3. Todo'
  BY <1>2, ShapedFacts DEF Todo, Doing, Shaped
<1>4. Fresh' /\ Acting' /\ Editing'
  BY <1>2 DEF Fresh, Acting, Editing, Doing
<1>5. ClaimsMatch' /\ Owned' /\ OneEach'
  BY <1>2 DEF ClaimsMatch, Owned, OneEach
<1>6. Keyed'
  BY DEF Keyed, KeysOf
<1> QED BY <1>1, <1>3, <1>4, <1>5, <1>6

-----------------------------------------------------------------------------
(* What going on changes. *)
LEMMA GoOnFacts ==
  ASSUME AccountsInv, NEW h \in Handler, NEW L, GoOn(h, L)
  PROVE  /\ todo' = [todo EXCEPT ![h] = L]
         /\ CallersKept(h)
         /\ used' = used /\ calls' = calls
         /\ \A g \in Handler : caller'[g] = caller[g] \/ caller'[g] = Nobody
         /\ caller' \in [Handler -> [user_id : used \union {System}, is_admin : BOOLEAN]
                                      \union {Nobody}]
<1>1. caller \in [Handler -> [user_id : used \union {System}, is_admin : BOOLEAN]
                              \union {Nobody}]
  BY DEF AccountsInv, TypeOK
<1>2. caller' = caller \/ caller' = [caller EXCEPT ![h] = Nobody]
  BY DEF GoOn
<1> QED BY <1>1, <1>2 DEF GoOn, CallersKept

(* A step that writes: what is left to show of it. *)
LEMMA WriteKeeps ==
  ASSUME AccountsInv, NEW h \in Handler, NEW L, GoOn(h, L), Plain(L), Handed(h),
         TypeOK', ClaimsMatch', Owned', OneEach',
         TokensKept, UsersKept(h), PermissionsKept(h), KeysKept, Provided(h),
         spent \subseteq spent', UNCHANGED cut, stale \ {h} \subseteq stale'
  PROVE  AccountsInv'
<1>1. Sound(h, L)
  BY PlainSound
<1>2. Todo' /\ Fresh' /\ Acting' /\ Editing'
  BY <1>1, GoOnFacts, ListStep
<1>3. Keyed'
  BY GoOnFacts, KeyedStep
<1> QED BY <1>2, <1>3 DEF AccountsInv

(* What is left of a list can be run on. *)
LEMMA TailPlain ==
  ASSUME AccountsInv, NEW h \in Handler, todo[h] # <<>>
  PROVE  Plain(Tail(todo[h]))
<1>1. Shaped(todo[h])
  BY DEF AccountsInv, Todo
<1> QED BY <1>1, TailShaped DEF Plain

(* Nothing to do is a plain list. *)
LEMMA EmptyPlain == Plain(<<>>)
  BY ShapedFacts DEF Plain

(* One lemma per statement. *)
LEMMA RunInsertUserKeeps ==
  ASSUME AccountsInv, NEW h \in Handler, RunInsertUser(h) PROVE AccountsInv'
<1> DEFINE u == Current(h).user
<1>0. Todo
  BY DEF AccountsInv
<1>1. Doing(h, "insert_user") /\ todo[h] # <<>> /\ Paired(todo[h])
  BY <1>0 DEF RunInsertUser, Doing, Todo
<1>2. u \in UserId /\ Current(h).is_admin \in BOOLEAN /\ Current(h).op = "insert_user"
  BY <1>0, <1>1, CurrentFacts, StatementFacts
<1>3. /\ u \in used /\ u \notin DOMAIN users /\ \A c \in tokens : c.user_id # u
      /\ \A g \in Handler :
           /\ caller[g] # Nobody => caller[g].user_id # u
           /\ g # h /\ Doing(g, "insert_user") => Current(g).user # u
  BY <1>1 DEF AccountsInv, Fresh
<1>4. CASE Refused(h)
  <2>1. Handed(h)
    BY <1>0, <1>1, <1>3, <1>4 DEF Handed, Paired, Refused, tables, Todo, Current
  <2> QED BY <1>4, <2>1, EmptyPlain, GoOnKeeps DEF Refused, tables, history
<1>5. CASE ~Refused(h)
  <2>0. /\ users' = [v \in DOMAIN users \union {u} |->
                       IF v = u THEN [is_admin |-> Current(h).is_admin, is_active |-> TRUE]
                                ELSE users[v]]
        /\ GoOn(h, Tail(todo[h]))
        /\ UNCHANGED <<keys, tokens, spent, revoked, cut, stale>>
    BY <1>5 DEF RunInsertUser, history
  <2> HIDE DEF u
  <2>1. DOMAIN users' = DOMAIN users \union {u} /\ \A v \in DOMAIN users : users'[v] = users[v]
    BY <1>3, <2>0
  <2>2. TypeOK'
    <3>1. users' \in [DOMAIN users' -> [is_admin : BOOLEAN, is_active : BOOLEAN]]
      BY <1>2, <2>0 DEF AccountsInv, TypeOK
    <3> QED BY <1>3, <2>0, <2>1, <3>1, GoOnFacts DEF AccountsInv, TypeOK
  <2>3. ClaimsMatch'
    <3> SUFFICES ASSUME NEW c \in tokens' \union ({caller'[g] : g \in Handler} \ {Nobody}),
                        c.user_id \in DOMAIN users'
        PROVE  c.is_admin = users'[c.user_id].is_admin
      BY DEF ClaimsMatch
    <3>1. c \in tokens \union ({caller[g] : g \in Handler} \ {Nobody})
      BY <2>0, GoOnFacts
    <3>2. c.user_id # u
      BY <1>3, <3>1
    <3> QED BY <2>1, <3>1, <3>2 DEF AccountsInv, ClaimsMatch
  <2>4. Owned' /\ OneEach'
    BY <2>0, <2>1 DEF AccountsInv, Owned, OneEach
  <2>5. TokensKept /\ UsersKept(h) /\ PermissionsKept(h) /\ KeysKept
    BY <1>3, <2>0, <2>1 DEF TokensKept, UsersKept, PermissionsKept, KeysKept, AccountsInv, Owned
  <2>6. todo' = [todo EXCEPT ![h] = Tail(todo[h])] /\ todo'[h] = Tail(todo[h])
    <3>1. todo' = [todo EXCEPT ![h] = Tail(todo[h])]
      BY <2>0, GoOnFacts
    <3> QED BY <1>0, <3>1 DEF Todo
  <2>7. Provided(h)
    <3>1. todo[h] \in Seq(Statement) /\ Len(todo[h]) > 1 /\ 2 \in DOMAIN todo[h]
      BY <1>0, <1>1 DEF Todo, Paired
    <3>2. 1 \in DOMAIN Tail(todo[h]) /\ Tail(todo[h])[1] = todo[h][2]
      BY <3>1
    <3>3. todo[h][2].op = "insert_api_key" /\ todo[h][2].user = u
      BY <1>1, <3>1 DEF Paired, Current, u
    <3> QED BY <2>1, <2>6, <3>2, <3>3 DEF Provided
  <2>8. Handed(h)
    BY <1>0, <1>1, <1>2, <2>6, TailHanded
  <2> QED BY <1>1, <2>0, <2>2, <2>3, <2>4, <2>5, <2>7, <2>8, TailPlain, WriteKeeps
<1> QED BY <1>4, <1>5

(* A key is inserted, unless the user is gone or has one. *)
LEMMA RunInsertKeyKeeps ==
  ASSUME AccountsInv, NEW h \in Handler, RunInsertKey(h) PROVE AccountsInv'
<1> DEFINE u == Current(h).user
<1>0. Todo
  BY DEF AccountsInv
<1>1. Doing(h, "insert_api_key") /\ todo[h] # <<>>
  BY DEF RunInsertKey, Doing
<1>2. u \in Owner /\ Current(h).permissions \in Perms /\ Current(h).op = "insert_api_key"
  BY <1>0, <1>1, CurrentFacts, StatementFacts
<1>3. CASE KeyRefused(u)
  <2>1. u \notin DOMAIN users \/ \E k \in DOMAIN keys : keys[k].user_id = u
    BY <1>3 DEF KeyRefused, ActiveKeys, KeysOf
  <2>2. UNCHANGED <<users, keys, tokens, spent, revoked, cut, stale>>
    BY <1>3 DEF RunInsertKey, Refused, tables, history
  <2>3. CASE GoOn(h, Tail(todo[h]))
    <3>1. Handed(h)
      BY <1>0, <1>1, <2>1, <2>2, <2>3, TailHanded DEF GoOn
    <3> QED BY <1>1, <2>2, <2>3, <3>1, TailPlain, GoOnKeeps
  <2>4. CASE GoOn(h, <<>>) /\ ~(Len(todo[h]) > 1)
    <3>1. \A i \in DOMAIN todo[h] : i = 1
      BY <1>0, <1>1, <2>4 DEF Todo
    <3>2. Handed(h)
      BY <1>0, <2>1, <2>2, <3>1 DEF Handed, Current
    <3> QED BY <2>2, <2>4, <3>2, EmptyPlain, GoOnKeeps
  <2> QED BY <1>3, <2>3, <2>4 DEF RunInsertKey, Refused
<1>4. CASE ~KeyRefused(u)
  <2>1. PICK new \in KeyId \ spent :
          /\ spent' = spent \union {new}
          /\ keys' = [k \in DOMAIN keys \union {new} |->
                        IF k = new THEN [user_id |-> u, is_active |-> TRUE,
                                         permissions |-> Current(h).permissions]
                                   ELSE keys[k]]
    BY <1>4 DEF RunInsertKey
  <2>2. GoOn(h, Tail(todo[h])) /\ UNCHANGED <<users, tokens, revoked, cut, stale>>
    BY <1>4 DEF RunInsertKey, history
  <2>3. u = NoUser \/ (u \in DOMAIN users /\ \A k \in DOMAIN keys : keys[k].user_id # u)
    BY <1>4 DEF KeyRefused, KeysOf
  <2>4. u \in UserId \union {NoUser}
    BY <2>3 DEF AccountsInv, TypeOK
  <2> HIDE DEF u
  <2>5. new \notin DOMAIN keys
    BY DEF AccountsInv, TypeOK
  <2>6. /\ DOMAIN keys' = DOMAIN keys \union {new}
        /\ \A k \in DOMAIN keys : keys'[k] = keys[k]
        /\ keys'[new].user_id = u
    BY <2>1, <2>5
  <2>7. TypeOK'
    <3>1. keys' \in [DOMAIN keys' -> [user_id : UserId \union {NoUser}, is_active : BOOLEAN,
                                      permissions : Perms]]
      BY <1>2, <2>1, <2>4 DEF AccountsInv, TypeOK
    <3> QED BY <2>1, <2>2, <2>6, <3>1, GoOnFacts DEF AccountsInv, TypeOK
  <2>8. ClaimsMatch'
    BY <2>2, GoOnFacts DEF AccountsInv, ClaimsMatch
  <2>9. Owned' /\ OneEach'
    BY <2>2, <2>3, <2>6 DEF AccountsInv, Owned, OneEach
  <2>10. TokensKept /\ UsersKept(h) /\ PermissionsKept(h) /\ KeysKept /\ Provided(h)
    BY <2>1, <2>2, <2>6 DEF TokensKept, UsersKept, PermissionsKept, KeysKept, Provided
  <2>11. Handed(h)
    BY <1>0, <1>1, <2>2, <2>6, TailHanded DEF GoOn, u
  <2> QED BY <1>1, <2>1, <2>2, <2>7, <2>8, <2>9, <2>10, <2>11, TailPlain, WriteKeeps
<1> QED BY <1>3, <1>4

(* The claims to be signed are those of the row. *)
LEMMA RunAuthenticateKeeps ==
  ASSUME AccountsInv, NEW h \in Handler, RunAuthenticate(h) PROVE AccountsInv'
<1> DEFINE u == Current(h).user
           c == Claims(u, users[u].is_admin)
<1>0. Todo /\ Doing(h, "authenticate")
  BY DEF AccountsInv, RunAuthenticate
<1>1. Handed(h)
  BY <1>0, AloneHanded DEF Doing
<1>2. CASE Refused(h)
  BY <1>1, <1>2, EmptyPlain, GoOnKeeps DEF Refused, tables, history
<1>3. CASE ~Refused(h)
  <2>1. /\ u \in DOMAIN users
        /\ todo' = [todo EXCEPT ![h] = <<IssueToken>>]
        /\ caller' = [caller EXCEPT ![h] = c]
        /\ UNCHANGED <<users, keys, tokens, spent, calls, used, revoked, cut, stale>>
    BY <1>3 DEF RunAuthenticate, tables, history
  <2>2. u \in used /\ u # System
    BY <2>1, AccountsAssumption DEF AccountsInv, TypeOK
  <2>3. c.user_id = u /\ c.is_admin = users[u].is_admin
    BY DEF Claims
  <2>4. c \in [user_id : used \union {System}, is_admin : BOOLEAN]
    BY <2>1, <2>2 DEF Claims, AccountsInv, TypeOK
  <2>5. \A g \in Handler : Doing(g, "insert_user") => Current(g).user # u
    BY <2>1 DEF AccountsInv, Fresh
  <2>6. caller \in [Handler -> [user_id : used \union {System}, is_admin : BOOLEAN] \union {Nobody}]
    BY DEF AccountsInv, TypeOK
  <2>7. caller'[h] # Nobody
    <3>1. used \subseteq UserId
      BY DEF AccountsInv, TypeOK
    <3>2. c # Nobody
      BY <2>4, <3>1, AccountsAssumption
    <3> QED BY <2>1, <2>6, <3>2
  <2> HIDE DEF u, c
  <2>8. TypeOK'
    BY <2>1, <2>4 DEF AccountsInv, TypeOK
  <2>9. ClaimsMatch'
    BY <2>1, <2>3, <2>6 DEF AccountsInv, ClaimsMatch
  <2>10. Owned' /\ OneEach'
    BY <2>1 DEF AccountsInv, Owned, OneEach
  <2>11. /\ CallersKept(h) /\ TokensKept /\ UsersKept(h) /\ PermissionsKept(h)
         /\ KeysKept /\ Provided(h)
    BY <2>1, <2>3, <2>5, <2>6
       DEF CallersKept, TokensKept, UsersKept, PermissionsKept, KeysKept, Provided
  <2>12. Sound(h, <<IssueToken>>)
    <3>1. IssueToken \in Statement /\ IssueToken.op = "issue_token"
      BY StatementIntro DEF IssueToken
    <3>2. caller'[h] = c
      BY <2>1, <2>6
    <3> QED BY <2>2, <2>3, <2>7, <3>1, <3>2, ShapedFacts DEF Sound
  <2>13. Todo' /\ Fresh' /\ Acting' /\ Editing'
    BY <2>1, <2>11, <2>12, ListStep
  <2>14. Keyed'
    BY <1>1, <2>1, <2>11, KeyedStep
  <2> QED BY <2>8, <2>9, <2>10, <2>13, <2>14 DEF AccountsInv
<1> QED BY <1>2, <1>3

(* The claims that were read are signed. *)
LEMMA RunIssueTokenKeeps ==
  ASSUME AccountsInv, NEW h \in Handler, RunIssueToken(h) PROVE AccountsInv'
<1>0. Todo /\ Doing(h, "issue_token")
  BY DEF AccountsInv, RunIssueToken
<1>1. /\ tokens' = tokens \union {caller[h]}
      /\ GoOn(h, <<>>)
      /\ UNCHANGED <<users, keys, spent, revoked, cut, stale>>
  BY DEF RunIssueToken, history
<1>2. caller[h] # Nobody /\ caller[h].user_id # System
  BY <1>0 DEF AccountsInv, Acting
<1>3. caller[h] \in [user_id : used, is_admin : BOOLEAN]
  BY <1>2 DEF AccountsInv, TypeOK
<1>4. TypeOK'
  BY <1>1, <1>3, GoOnFacts DEF AccountsInv, TypeOK
<1>5. ClaimsMatch'
  BY <1>1, <1>2, GoOnFacts DEF AccountsInv, ClaimsMatch
<1>6. Owned' /\ OneEach'
  BY <1>1 DEF AccountsInv, Owned, OneEach
<1>7. TokensKept
  BY <1>1, <1>2 DEF TokensKept, AccountsInv, Fresh
<1>8. UsersKept(h) /\ PermissionsKept(h) /\ KeysKept /\ Provided(h)
  BY <1>1 DEF UsersKept, PermissionsKept, KeysKept, Provided
<1>9. Handed(h)
  BY <1>0, AloneHanded DEF Doing
<1> QED BY <1>1, <1>4, <1>5, <1>6, <1>7, <1>8, <1>9, EmptyPlain, WriteKeeps

(* The claims of a caller with a key are those of the row. *)
LEMMA RunResolveUserKeeps ==
  ASSUME AccountsInv, NEW h \in Handler, RunResolveUser(h) PROVE AccountsInv'
<1> DEFINE u == Current(h).user
           c == Claims(u, u \in DOMAIN users /\ users[u].is_admin)
<1>0. Todo /\ Doing(h, "resolve_user_info")
  BY DEF AccountsInv, RunResolveUser
<1>1. /\ todo' = [todo EXCEPT ![h] = <<>>]
      /\ caller' = [caller EXCEPT ![h] = c]
      /\ UNCHANGED <<users, keys, tokens, spent, calls, used, revoked, cut, stale>>
  BY DEF RunResolveUser, tables, history
<1>2. u \in used
  BY <1>0 DEF Todo
<1>3. c.user_id = u /\ (u \in DOMAIN users => c.is_admin = users[u].is_admin)
  <2>1. u \in DOMAIN users => users[u].is_admin \in BOOLEAN
    BY DEF AccountsInv, TypeOK
  <2> QED BY <2>1 DEF Claims
<1>4. c \in [user_id : used \union {System}, is_admin : BOOLEAN]
  BY <1>2 DEF Claims
<1>5. \A g \in Handler : Doing(g, "insert_user") => Current(g).user # u
  BY <1>0 DEF AccountsInv, Fresh
<1> HIDE DEF u, c
<1>6. TypeOK'
  BY <1>1, <1>4 DEF AccountsInv, TypeOK
<1>7. caller \in [Handler -> [user_id : used \union {System}, is_admin : BOOLEAN] \union {Nobody}]
  BY DEF AccountsInv, TypeOK
<1>8. ClaimsMatch'
  BY <1>1, <1>3, <1>7 DEF AccountsInv, ClaimsMatch
<1>9. Owned' /\ OneEach'
  BY <1>1 DEF AccountsInv, Owned, OneEach
<1>10. /\ CallersKept(h) /\ TokensKept /\ UsersKept(h) /\ PermissionsKept(h)
       /\ KeysKept /\ Provided(h)
  BY <1>1, <1>3, <1>5, <1>7
     DEF CallersKept, TokensKept, UsersKept, PermissionsKept, KeysKept, Provided
<1>11. Handed(h)
  BY <1>0, AloneHanded DEF Doing
<1>12. Sound(h, <<>>)
  BY EmptyPlain, PlainSound
<1>13. Todo' /\ Fresh' /\ Acting' /\ Editing'
  BY <1>1, <1>10, <1>12, ListStep
<1>14. Keyed'
  BY <1>1, <1>10, <1>11, KeyedStep
<1> QED BY <1>6, <1>8, <1>9, <1>13, <1>14 DEF AccountsInv

(* An account is switched on or off. *)
LEMMA RunSetActiveKeeps ==
  ASSUME AccountsInv, NEW h \in Handler, RunSetActive(h) PROVE AccountsInv'
<1>0. Todo /\ Doing(h, "set_user_active")
  BY DEF AccountsInv, RunSetActive
<1>1. Current(h).is_active \in BOOLEAN
  BY <1>0, CurrentFacts, StatementFacts
<1>2. /\ users' = [v \in DOMAIN users |->
                     IF v = Current(h).user
                     THEN [is_admin |-> users[v].is_admin, is_active |-> Current(h).is_active]
                     ELSE users[v]]
      /\ GoOn(h, <<>>)
      /\ UNCHANGED <<keys, tokens, spent, revoked, cut, stale>>
  BY DEF RunSetActive, history
<1>3. DOMAIN users' = DOMAIN users /\ \A v \in DOMAIN users : users'[v].is_admin = users[v].is_admin
  BY <1>2
<1>4. TypeOK'
  <2>1. users' \in [DOMAIN users' -> [is_admin : BOOLEAN, is_active : BOOLEAN]]
    BY <1>1, <1>2 DEF AccountsInv, TypeOK
  <2> QED BY <1>2, <1>3, <2>1, GoOnFacts DEF AccountsInv, TypeOK
<1>5. ClaimsMatch'
  BY <1>2, <1>3, GoOnFacts DEF AccountsInv, ClaimsMatch
<1>6. Owned' /\ OneEach'
  BY <1>2, <1>3 DEF AccountsInv, Owned, OneEach
<1>7. TokensKept /\ UsersKept(h) /\ PermissionsKept(h) /\ KeysKept /\ Provided(h)
  BY <1>2, <1>3 DEF TokensKept, UsersKept, PermissionsKept, KeysKept, Provided
<1>8. Handed(h)
  BY <1>0, AloneHanded DEF Doing
<1> QED BY <1>2, <1>4, <1>5, <1>6, <1>7, <1>8, EmptyPlain, WriteKeeps

(* A user goes, and its key with it. *)
LEMMA RunDeleteUserKeeps ==
  ASSUME AccountsInv, NEW h \in Handler, RunDeleteUser(h) PROVE AccountsInv'
<1> DEFINE u == Current(h).user
<1>0. Todo /\ Doing(h, "delete_user")
  BY DEF AccountsInv, RunDeleteUser
<1>1. u \in UserId /\ u # NoUser
  BY <1>0, CurrentFacts, StatementFacts, AccountsAssumption
<1>2. /\ users' = [v \in DOMAIN users \ {u} |-> users[v]]
      /\ keys' = [k \in DOMAIN keys \ KeysOf(u) |-> keys[k]]
      /\ GoOn(h, <<>>)
      /\ UNCHANGED <<tokens, spent, revoked, cut, stale>>
  BY DEF RunDeleteUser, history
<1> HIDE DEF u
<1>3. /\ DOMAIN users' = DOMAIN users \ {u}
      /\ \A v \in DOMAIN users' : users'[v] = users[v]
      /\ \A k : k \in DOMAIN keys' <=> k \in DOMAIN keys /\ keys[k].user_id # u
      /\ \A k \in DOMAIN keys' : keys'[k] = keys[k]
  BY <1>2 DEF KeysOf
<1>4. TypeOK'
  <2>1. /\ users' \in [DOMAIN users' -> [is_admin : BOOLEAN, is_active : BOOLEAN]]
        /\ keys' \in [DOMAIN keys' -> [user_id : UserId \union {NoUser}, is_active : BOOLEAN,
                                       permissions : Perms]]
    BY <1>2 DEF AccountsInv, TypeOK
  <2> QED BY <1>2, <1>3, <2>1, GoOnFacts DEF AccountsInv, TypeOK
<1>5. ClaimsMatch'
  BY <1>2, <1>3, GoOnFacts DEF AccountsInv, ClaimsMatch
<1>6. Owned' /\ OneEach'
  BY <1>3 DEF AccountsInv, Owned, OneEach
<1>7. TokensKept /\ UsersKept(h) /\ PermissionsKept(h) /\ KeysKept /\ Provided(h)
  BY <1>2, <1>3 DEF TokensKept, UsersKept, PermissionsKept, KeysKept, Provided
<1>8. Handed(h)
  BY <1>0, AloneHanded DEF Doing
<1> QED BY <1>2, <1>4, <1>5, <1>6, <1>7, <1>8, EmptyPlain, WriteKeeps

(* A step that deactivates a key. *)
LEMMA DeactivatedKeeps ==
  ASSUME AccountsInv, NEW h \in Handler, NEW L, GoOn(h, L), Plain(L), Handed(h),
         NEW k, keys' = Deactivated(k), revoked' \subseteq KeyId,
         UNCHANGED <<users, tokens, spent, cut, stale>>
  PROVE  AccountsInv'
<1>1. /\ DOMAIN keys' = DOMAIN keys
      /\ \A j \in DOMAIN keys : /\ keys'[j].user_id = keys[j].user_id
                                /\ keys'[j].permissions = keys[j].permissions
  BY DEF Deactivated
<1>2. TypeOK'
  <2>1. keys' \in [DOMAIN keys' -> [user_id : UserId \union {NoUser}, is_active : BOOLEAN,
                                    permissions : Perms]]
    BY DEF Deactivated, AccountsInv, TypeOK
  <2> QED BY <1>1, <2>1, GoOnFacts DEF AccountsInv, TypeOK
<1>3. ClaimsMatch'
  BY GoOnFacts DEF AccountsInv, ClaimsMatch
<1>4. Owned' /\ OneEach'
  BY <1>1 DEF AccountsInv, Owned, OneEach
<1>5. TokensKept /\ UsersKept(h) /\ PermissionsKept(h) /\ KeysKept /\ Provided(h)
  BY <1>1 DEF TokensKept, UsersKept, PermissionsKept, KeysKept, Provided
<1> QED BY <1>2, <1>3, <1>4, <1>5, WriteKeeps

(* A key is deactivated, in a reset. *)
LEMMA RunDeactivateKeeps ==
  ASSUME AccountsInv, NEW h \in Handler, RunDeactivate(h) PROVE AccountsInv'
<1>1. Todo /\ todo[h] # <<>> /\ Current(h).op = "deactivate_api_key" /\ revoked \subseteq KeyId
  BY DEF AccountsInv, TypeOK, RunDeactivate, Doing
<1>2. Handed(h)
  BY <1>1, TailHanded DEF RunDeactivate, GoOn
<1> QED BY <1>1, <1>2, TailPlain, DeactivatedKeeps DEF RunDeactivate, history

(* A key is revoked. *)
LEMMA RunRevokeKeeps ==
  ASSUME AccountsInv, NEW h \in Handler, RunRevoke(h) PROVE AccountsInv'
<1>1. Todo /\ Doing(h, "revoke")
  BY DEF AccountsInv, RunRevoke
<1>2. revoked' \subseteq KeyId
  BY <1>1, CurrentFacts, StatementFacts DEF AccountsInv, TypeOK, RunRevoke
<1>3. Handed(h)
  BY <1>1, AloneHanded DEF Doing
<1> QED BY <1>2, <1>3, EmptyPlain, DeactivatedKeeps DEF RunRevoke

-----------------------------------------------------------------------------
(* A statement that only reads. *)
LEMMA ReadKeeps ==
  ASSUME AccountsInv, NEW h \in Handler, NEW L, Plain(L), Read(h, L), todo[h] # <<>>,
         Current(h).op \notin {"insert_user", "insert_api_key", "deactivate_api_key"}
  PROVE  AccountsInv'
<1>1. Handed(h)
  BY AloneHanded DEF AccountsInv
<1> QED BY <1>1, GoOnKeeps DEF Read, tables, history

(* A user's revocation looks for the key among the user's own. *)
LEMMA RunRevokeOwnKeeps ==
  ASSUME AccountsInv, NEW h \in Handler, RunRevokeOwn(h) PROVE AccountsInv'
<1> DEFINE k == Current(h).key
<1>1. Todo /\ Doing(h, "list_api_keys_for_user")
  BY DEF AccountsInv, RunRevokeOwn
<1>2. todo[h] # <<>> /\ Current(h).op = "list_api_keys_for_user" /\ k \in KeyId
  BY <1>1, CurrentFacts, StatementFacts
<1> HIDE DEF k
<1>3. Revoke(k) \in Statement /\ Revoke(k).op = "revoke"
  BY <1>2, StatementIntro DEF Revoke
<1>4. Plain(<<Revoke(k)>>)
  BY <1>3, Beginnings
<1>5. Read(h, <<Revoke(k)>>) \/ Read(h, <<>>)
  BY DEF RunRevokeOwn, k
<1> QED BY <1>2, <1>4, <1>5, EmptyPlain, ReadKeeps

(* A key that a read finds. *)
LEMMA ActiveKeysFacts ==
  ASSUME AccountsInv, NEW u, NEW k \in ActiveKeys(u)
  PROVE  k \in KeyId /\ k \in DOMAIN keys /\ keys[k].permissions \in Perms
  BY DEF AccountsInv, TypeOK, ActiveKeys, KeysOf

(* The lists of a reset. *)
LEMMA KeyPlain ==
  ASSUME AccountsInv, NEW h \in Handler, NEW u \in Owner, NEW p \in Perms
  PROVE  /\ Plain(<<InsertKey(u, p)>>)
         /\ Plain(<<ReadOwnKey(u, p)>>)
         /\ \A k \in KeyId : Plain(<<Deactivate(k), InsertKey(u, p)>>)
<1>1. /\ InsertKey(u, p) \in Statement /\ InsertKey(u, p).op = "insert_api_key"
      /\ ReadOwnKey(u, p) \in Statement /\ ReadOwnKey(u, p).op = "own_reset"
      /\ \A k \in KeyId : Deactivate(k) \in Statement /\ Deactivate(k).op = "deactivate_api_key"
  BY StatementIntro DEF InsertKey, ReadOwnKey, Deactivate
<1> QED BY <1>1, Beginnings

(* An administrator's reset reads the active key. *)
LEMMA RunReadForResetKeeps ==
  ASSUME AccountsInv, NEW h \in Handler, RunReadForReset(h) PROVE AccountsInv'
<1> DEFINE u == Current(h).user
<1>1. Todo /\ Doing(h, "reset")
  BY DEF AccountsInv, RunReadForReset
<1>2. todo[h] # <<>> /\ Current(h).op = "reset" /\ u \in Owner
  BY <1>1, CurrentFacts, StatementFacts DEF Owner
<1>3. CASE Read(h, <<InsertKey(u, Default)>>)
  BY <1>2, <1>3, KeyPlain, PermsFacts, ReadKeeps
<1>4. ASSUME NEW k \in ActiveKeys(u), Read(h, <<Deactivate(k), InsertKey(u, keys[k].permissions)>>)
      PROVE  AccountsInv'
  <2>1. Plain(<<Deactivate(k), InsertKey(u, keys[k].permissions)>>)
    BY <1>2, ActiveKeysFacts, KeyPlain
  <2> QED BY <1>2, <1>4, <2>1, ReadKeeps
<1> QED BY <1>3, <1>4 DEF RunReadForReset

(* A user's own permissions are read. *)
LEMMA RunReadOwnPermsKeeps ==
  ASSUME AccountsInv, NEW h \in Handler, RunReadOwnPerms(h) PROVE AccountsInv'
<1> DEFINE u == Current(h).user
<1>1. Todo /\ Doing(h, "own_permissions")
  BY DEF AccountsInv, RunReadOwnPerms
<1>2. todo[h] # <<>> /\ Current(h).op = "own_permissions" /\ u \in Owner
  BY <1>1, CurrentFacts, StatementFacts
<1>3. CASE Read(h, <<ReadOwnKey(u, Default)>>)
  BY <1>2, <1>3, KeyPlain, PermsFacts, ReadKeeps
<1>4. ASSUME NEW k \in ActiveKeys(u), Read(h, <<ReadOwnKey(u, keys[k].permissions)>>)
      PROVE  AccountsInv'
  <2>1. Plain(<<ReadOwnKey(u, keys[k].permissions)>>)
    BY <1>2, ActiveKeysFacts, KeyPlain
  <2> QED BY <1>2, <1>4, <2>1, ReadKeeps
<1> QED BY <1>3, <1>4 DEF RunReadOwnPerms

(* A user's own key is read. *)
LEMMA RunReadOwnKeyKeeps ==
  ASSUME AccountsInv, NEW h \in Handler, RunReadOwnKey(h) PROVE AccountsInv'
<1> DEFINE u == Current(h).user
           issue == InsertKey(u, Current(h).permissions)
<1>1. Todo /\ Doing(h, "own_reset")
  BY DEF AccountsInv, RunReadOwnKey
<1>2. /\ todo[h] # <<>> /\ Current(h).op = "own_reset"
      /\ u \in Owner /\ Current(h).permissions \in Perms
  BY <1>1, CurrentFacts, StatementFacts
<1>3. Plain(<<issue>>) /\ \A k \in KeyId : Plain(<<Deactivate(k), issue>>)
  BY <1>2, KeyPlain
<1> HIDE DEF issue
<1>4. CASE Read(h, <<issue>>)
  BY <1>2, <1>3, <1>4, ReadKeeps
<1>5. ASSUME NEW k \in ActiveKeys(u), Read(h, <<Deactivate(k), issue>>)
      PROVE  AccountsInv'
  BY <1>2, <1>3, <1>5, ActiveKeysFacts, ReadKeeps
<1> QED BY <1>4, <1>5 DEF RunReadOwnKey, issue

(* An edit changes the fields it names and no other. *)
LEMMA EditedFacts ==
  ASSUME NEW p \in Perms, NEW e \in Edit
  PROVE  /\ Edited(p, e) \in Perms
         /\ \A f \in Field \ DOMAIN e : Edited(p, e)[f] = p[f]
<1>1. \A f \in DOMAIN e : e[f] \in BOOLEAN
  BY DEF Edit
<1> QED BY <1>1 DEF Edited, Perms

(* The permissions to be changed are read. *)
LEMMA RunReadForEditKeeps ==
  ASSUME AccountsInv, NEW h \in Handler, RunReadForEdit(h) PROVE AccountsInv'
<1> DEFINE u == Current(h).user
           e == Current(h).edit
<1>1. Todo /\ Doing(h, "edit")
  BY DEF AccountsInv, RunReadForEdit
<1>2. todo[h] # <<>> /\ Current(h).op = "edit" /\ e \in Edit
  BY <1>1, CurrentFacts, StatementFacts
<1>3. /\ stale' = stale \ {h}
      /\ UNCHANGED <<users, keys, tokens, spent, revoked, cut>>
  BY DEF RunReadForEdit, tables
<1>4. Handed(h)
  BY <1>1, <1>2, AloneHanded
<1>5. CASE GoOn(h, <<>>)
  BY <1>3, <1>4, <1>5, EmptyPlain, GoOnKeeps
<1>6. ASSUME NEW k \in ActiveKeys(u),
             GoOn(h, <<WritePerms(k, Edited(keys[k].permissions, e), e)>>)
      PROVE  AccountsInv'
  <2> DEFINE p == Edited(keys[k].permissions, e)
             s == WritePerms(k, p, e)
  <2>1. /\ k \in KeyId /\ k \in DOMAIN keys /\ p \in Perms
        /\ \A f \in Field \ DOMAIN e : p[f] = keys[k].permissions[f]
    BY <1>2, ActiveKeysFacts, EditedFacts
  <2>2. s \in Statement
    BY <1>2, <2>1, StatementIntro
  <2>3. s.op = "update_api_key_permissions" /\ s.key = k /\ s.permissions = p /\ s.edit = e
    BY DEF WritePerms
  <2>4. GoOn(h, <<s>>)
    BY <1>6
  <2> HIDE DEF s, p, e
  <2>5. Sound(h, <<s>>)
    BY <1>3, <2>1, <2>2, <2>3, ShapedFacts DEF Sound
  <2>6. /\ todo' = [todo EXCEPT ![h] = <<s>>] /\ CallersKept(h) /\ used' = used
    BY <2>4, GoOnFacts
  <2>7. /\ TokensKept /\ UsersKept(h) /\ PermissionsKept(h) /\ KeysKept /\ Provided(h)
    BY <1>3 DEF TokensKept, UsersKept, PermissionsKept, KeysKept, Provided
  <2>8. Todo' /\ Fresh' /\ Acting' /\ Editing'
    BY <1>3, <2>5, <2>6, <2>7, ListStep
  <2>9. TypeOK'
    BY <1>3, <2>4, GoOnFacts DEF AccountsInv, TypeOK
  <2>10. ClaimsMatch'
    BY <1>3, <2>4, GoOnFacts DEF AccountsInv, ClaimsMatch
  <2>11. Owned' /\ OneEach'
    BY <1>3 DEF AccountsInv, Owned, OneEach
  <2>12. Keyed'
    BY <1>3, <1>4, <2>6, <2>7, KeyedStep
  <2> QED BY <2>8, <2>9, <2>10, <2>11, <2>12 DEF AccountsInv
<1> QED BY <1>5, <1>6 DEF RunReadForEdit

(* The changed permissions are written. *)
LEMMA RunWritePermsKeeps ==
  ASSUME AccountsInv, NEW h \in Handler, RunWritePerms(h) PROVE AccountsInv'
<1> DEFINE k == Current(h).key
<1>1. Todo /\ Doing(h, "update_api_key_permissions")
  BY DEF AccountsInv, RunWritePerms
<1>2. Current(h).permissions \in Perms
  BY <1>1, CurrentFacts, StatementFacts
<1>3. /\ keys' = [j \in DOMAIN keys |->
                    IF j = k THEN [user_id |-> keys[j].user_id, is_active |-> keys[j].is_active,
                                   permissions |-> Current(h).permissions]
                             ELSE keys[j]]
      /\ stale' = stale \union {g \in Handler \ {h} :
                    Doing(g, "update_api_key_permissions") /\ Current(g).key = k}
      /\ GoOn(h, <<>>)
      /\ UNCHANGED <<users, tokens, spent, revoked, cut>>
  BY DEF RunWritePerms
<1> HIDE DEF k
<1>4. /\ DOMAIN keys' = DOMAIN keys
      /\ \A j \in DOMAIN keys : keys'[j].user_id = keys[j].user_id
      /\ \A j \in DOMAIN keys : j # k => keys'[j] = keys[j]
  BY <1>3
<1>5. TypeOK'
  <2>1. keys' \in [DOMAIN keys' -> [user_id : UserId \union {NoUser}, is_active : BOOLEAN,
                                    permissions : Perms]]
    BY <1>2, <1>3 DEF AccountsInv, TypeOK
  <2>2. stale' \subseteq Handler
    BY <1>3 DEF AccountsInv, TypeOK
  <2> QED BY <1>3, <1>4, <2>1, <2>2, GoOnFacts DEF AccountsInv, TypeOK
<1>6. ClaimsMatch'
  BY <1>3, GoOnFacts DEF AccountsInv, ClaimsMatch
<1>7. Owned' /\ OneEach'
  BY <1>3, <1>4 DEF AccountsInv, Owned, OneEach
<1>8. TokensKept /\ UsersKept(h) /\ PermissionsKept(h) /\ KeysKept /\ Provided(h)
  BY <1>3, <1>4 DEF TokensKept, UsersKept, PermissionsKept, KeysKept, Provided
<1>9. Handed(h)
  BY <1>1, AloneHanded DEF Doing
<1> QED BY <1>3, <1>5, <1>6, <1>7, <1>8, <1>9, EmptyPlain, WriteKeeps

-----------------------------------------------------------------------------
(* The invariant holds in every reachable state. *)
LEMMA InitInv == Init => AccountsInv
<1> SUFFICES ASSUME Init PROVE AccountsInv
  OBVIOUS
<1> USE DEF Init
<1>1. TypeOK
  BY AccountsAssumption DEF TypeOK
<1>2. \A h \in Handler : todo[h] = <<>> /\ caller[h] = Nobody
  OBVIOUS
<1>3. Todo
  BY <1>2, ShapedFacts DEF Todo, Doing, Shaped
<1>4. Fresh /\ Acting /\ Editing
  BY <1>2 DEF Fresh, Acting, Editing, Doing
<1>5. ClaimsMatch /\ Owned /\ OneEach /\ Keyed
  BY <1>2 DEF ClaimsMatch, Owned, OneEach, Keyed
<1> QED BY <1>1, <1>3, <1>4, <1>5 DEF AccountsInv

(* Every statement. *)
LEMMA StepKeeps ==
  ASSUME AccountsInv, NEW h \in Handler, Step(h) PROVE AccountsInv'
  BY RunInsertUserKeeps, RunInsertKeyKeeps, RunAuthenticateKeeps, RunIssueTokenKeeps,
     RunResolveUserKeeps, RunSetActiveKeeps, RunDeleteUserKeeps, RunDeactivateKeeps, RunRevokeKeeps,
     RunRevokeOwnKeeps, RunReadForResetKeeps, RunReadOwnPermsKeeps, RunReadOwnKeyKeeps,
     RunReadForEditKeeps, RunWritePermsKeeps
     DEF Step

(* Every step. *)
LEMMA NextInv == AccountsInv /\ [Next]_vars => AccountsInv'
<1> SUFFICES ASSUME AccountsInv, [Next]_vars PROVE AccountsInv'
  OBVIOUS
<1>1. CASE Next
  BY <1>1, StepKeeps, SetupInitKeeps, RegisterKeeps, LogInKeeps, UseTokenKeeps, UseKeyKeeps,
     AdminRequestKeeps, OwnRequestKeeps, RestartKeeps DEF Next
<1>2. CASE UNCHANGED vars
  BY <1>2 DEF vars, tables, handled, history, AccountsInv, TypeOK, Todo, Fresh, ClaimsMatch,
     Owned, OneEach, Keyed, Acting, Editing, KeysOf, Unfinished, Doing, Current
<1> QED BY <1>1, <1>2

(* The invariant holds in every reachable state. *)
LEMMA Invariance == Spec => []AccountsInv
  BY InitInv, NextInv, PTL DEF Spec

(***************************************************************************)
(* Every part of the tables, and of what handlers hold, has its type.      *)
(***************************************************************************)
THEOREM TypeCorrect == Spec => []TypeOK
<1>1. AccountsInv => TypeOK
  BY DEF AccountsInv
<1> QED BY <1>1, Invariance, PTL

(***************************************************************************)
(* What claims say of a user that exists is true, for any tokens and       *)
(* callers, although nothing looks them up again: a role is never changed  *)
(* and no id is given twice.                                               *)
(***************************************************************************)
THEOREM ClaimsAlwaysMatch == Spec => []ClaimsMatch
<1>1. AccountsInv => ClaimsMatch
  BY DEF AccountsInv
<1> QED BY <1>1, Invariance, PTL

(***************************************************************************)
(* An account has at most one key, and one that has none is still to be    *)
(* given one or was created when a restart came in between.                *)
(***************************************************************************)
THEOREM OneKeyEach == Spec => []OneKeyPerAccount
<1>1. AccountsInv => OneKeyPerAccount
  <2> SUFFICES ASSUME AccountsInv, NEW u \in DOMAIN users
      PROVE  Cardinality(KeysOf(u)) <= 1 /\ (KeysOf(u) = {} => u \in cut \union Unfinished)
    BY DEF OneKeyPerAccount
  <2>1. u # NoUser
    BY AccountsAssumption DEF AccountsInv, TypeOK
  <2>2. \A j, k \in KeysOf(u) : j = k
    BY <2>1 DEF AccountsInv, OneEach, KeysOf
  <2>3. KeysOf(u) = {} => Cardinality(KeysOf(u)) = 0
    BY FS_EmptySet
  <2>4. ASSUME NEW k \in KeysOf(u) PROVE Cardinality(KeysOf(u)) = 1
    <3>1. KeysOf(u) = {k}
      BY <2>2
    <3> QED BY <3>1, FS_Singleton
  <2>5. Cardinality(KeysOf(u)) <= 1
    BY <2>3, <2>4
  <2> QED BY <2>5 DEF AccountsInv, Keyed
<1> QED BY <1>1, Invariance, PTL

-----------------------------------------------------------------------------
(* What the statements change. *)

(* The statements that change the keys. *)
LEMMA KeysChange ==
  ASSUME AccountsInv, [Next]_vars
  PROVE  \/ keys' = keys
         \/ \E h \in Handler :
              RunInsertKey(h) \/ RunDeleteUser(h) \/ RunDeactivate(h) \/ RunRevoke(h)
                \/ RunWritePerms(h)
  BY DEF Next, vars, tables, handled, Step, Restart, SetupInit, Register, LogIn, UseToken, UseKey,
     Arrive, AdminRequest, AdminCreateUser, AdminDeleteUser, OwnRequest, Ask, RunInsertUser,
     RunAuthenticate, RunIssueToken, RunResolveUser, RunSetActive, RunRevokeOwn,
     RunReadForReset,
     RunReadOwnPerms, RunReadOwnKey, RunReadForEdit, Read, Refused

(* The statements that change the users. *)
LEMMA UsersChange ==
  ASSUME AccountsInv, [Next]_vars
  PROVE  \/ users' = users
         \/ \E h \in Handler : RunInsertUser(h) \/ RunSetActive(h) \/ RunDeleteUser(h)
  BY DEF Next, vars, tables, handled, Step, Restart, SetupInit, Register, LogIn, UseToken, UseKey,
     Arrive, AdminRequest, AdminCreateUser, AdminDeleteUser, OwnRequest, Ask, RunInsertKey,
     RunAuthenticate, RunIssueToken, RunResolveUser, RunDeactivate, RunRevoke, RunRevokeOwn,
     RunReadForReset,
     RunReadOwnPerms, RunReadOwnKey, RunReadForEdit, RunWritePerms, Read, Refused

(***************************************************************************)
(* A key that is deactivated stays so, also when a handler that read it    *)
(* before writes its permissions back, and no key changes hands: the only  *)
(* rows that are written whole are new.                                    *)
(***************************************************************************)
THEOREM KeysStayRevoked == Spec => RevokedStaysRevoked
<1> DEFINE Kept(k) == /\ keys'[k].user_id = keys[k].user_id
                      /\ keys'[k].is_active => keys[k].is_active
<1>1. ASSUME AccountsInv, [Next]_vars, NEW k \in DOMAIN keys, k \in DOMAIN keys'
      PROVE  Kept(k)
  <2>1. CASE keys' = keys
    BY <2>1
  <2>2. ASSUME NEW h \in Handler, RunInsertKey(h) PROVE Kept(k)
    <3> DEFINE v == Current(h).user
    <3>1. CASE KeyRefused(v)
      BY <2>2, <3>1 DEF RunInsertKey, Refused, tables
    <3>2. CASE ~KeyRefused(v)
      <4>1. PICK new \in KeyId \ spent :
              keys' = [j \in DOMAIN keys \union {new} |->
                         IF j = new THEN [user_id |-> v, is_active |-> TRUE,
                                          permissions |-> Current(h).permissions]
                                    ELSE keys[j]]
        BY <2>2, <3>2 DEF RunInsertKey
      <4>2. k # new
        BY <1>1 DEF AccountsInv, TypeOK
      <4> HIDE DEF v
      <4> QED BY <1>1, <4>1, <4>2
    <3> QED BY <3>1, <3>2
  <2>3. ASSUME NEW h \in Handler, RunDeleteUser(h) PROVE Kept(k)
    BY <1>1, <2>3 DEF RunDeleteUser
  <2>4. ASSUME NEW id, keys' = Deactivated(id) PROVE Kept(k)
    BY <1>1, <2>4 DEF Deactivated
  <2>5. ASSUME NEW h \in Handler, RunWritePerms(h) PROVE Kept(k)
    BY <1>1, <2>5 DEF RunWritePerms
  <2> QED BY <1>1, <2>1, <2>2, <2>3, <2>4, <2>5, KeysChange DEF RunDeactivate, RunRevoke
<1>2. ASSUME AccountsInv, [Next]_vars
      PROVE  \A k \in DOMAIN keys \intersect DOMAIN keys' : Kept(k)
  BY <1>1, <1>2
<1> QED BY <1>2, Invariance, PTL DEF Spec, RevokedStaysRevoked

(***************************************************************************)
(* Whoever deletes the last administrator is not a user, any more or at    *)
(* all: one who is has the rights that its claims say, by ClaimsMatch, and *)
(* so is an administrator who stays.                                       *)
(***************************************************************************)
THEOREM LastAdminOnlyByStranger == Spec => LastAdminDeletedByStranger
<1> DEFINE Stranger == Admins # {} /\ Admins' = {} =>
                         \E h \in Handler : /\ Doing(h, "delete_user")
                                            /\ caller[h].user_id \notin DOMAIN users
<1>1. ASSUME AccountsInv, [Next]_vars PROVE Stranger
  <2> SUFFICES ASSUME Admins # {}, Admins' = {}
      PROVE  \E h \in Handler : Doing(h, "delete_user") /\ caller[h].user_id \notin DOMAIN users
    OBVIOUS
  <2>1. CASE users' = users
    BY <2>1 DEF Admins
  <2>2. ASSUME NEW h \in Handler, RunInsertUser(h) PROVE FALSE
    <3>1. PICK a \in DOMAIN users : users[a].is_admin
      BY DEF Admins
    <3>2. CASE Doing(h, "insert_user") /\ ~Refused(h)
      <4>1. a # Current(h).user
        BY <1>1, <3>2 DEF AccountsInv, Fresh
      <4>2. a \in DOMAIN users' /\ users'[a] = users[a]
        BY <2>2, <3>2, <4>1 DEF RunInsertUser
      <4> QED BY <3>1, <4>2 DEF Admins
    <3>3. CASE Refused(h)
      BY <3>3 DEF Refused, tables, Admins
    <3> QED BY <2>2, <3>2, <3>3 DEF RunInsertUser
  <2>3. ASSUME NEW h \in Handler, RunSetActive(h) PROVE FALSE
    <3>1. PICK a \in DOMAIN users : users[a].is_admin
      BY DEF Admins
    <3>2. a \in DOMAIN users' /\ users'[a].is_admin
      BY <2>3, <3>1 DEF RunSetActive
    <3> QED BY <3>2 DEF Admins
  <2>4. ASSUME NEW h \in Handler, RunDeleteUser(h)
        PROVE  Doing(h, "delete_user") /\ caller[h].user_id \notin DOMAIN users
    <3>1. Doing(h, "delete_user") /\ users' = [v \in DOMAIN users \ {Current(h).user} |-> users[v]]
      BY <2>4 DEF RunDeleteUser
    <3>2. caller[h] # Nobody /\ caller[h].is_admin /\ caller[h].user_id # Current(h).user
      BY <1>1, <3>1 DEF AccountsInv, Acting
    <3>3. ASSUME caller[h].user_id \in DOMAIN users PROVE FALSE
      <4> DEFINE a == caller[h].user_id
      <4>1. users[a].is_admin
        BY <1>1, <3>2, <3>3 DEF AccountsInv, ClaimsMatch
      <4>2. a \in DOMAIN users' /\ users'[a] = users[a]
        BY <3>1, <3>2, <3>3
      <4> QED BY <4>1, <4>2 DEF Admins
    <3> QED BY <3>1, <3>3
  <2> QED BY <1>1, <2>1, <2>2, <2>3, <2>4, UsersChange
<1> QED BY <1>1, Invariance, PTL DEF Spec, LastAdminDeletedByStranger

(***************************************************************************)
(* A permission of a key changes only when a request that names it writes  *)
(* it, or one that read the key before another such change.                *)
(***************************************************************************)
THEOREM UpdatesKeepOtherFields == Spec => UpdateKeepsOtherFields
<1> DEFINE Kept == \A k \in DOMAIN keys \intersect DOMAIN keys' : \A f \in Field :
                     keys'[k].permissions[f] # keys[k].permissions[f] =>
                       \E h \in Handler :
                         /\ Doing(h, "update_api_key_permissions")
                         /\ Current(h).key = k
                         /\ f \in DOMAIN Current(h).edit \/ h \in stale
<1>1. ASSUME AccountsInv, [Next]_vars PROVE Kept
  <2> SUFFICES ASSUME NEW k \in DOMAIN keys, k \in DOMAIN keys', NEW f \in Field,
                      keys'[k].permissions[f] # keys[k].permissions[f]
      PROVE  \E h \in Handler :
               /\ Doing(h, "update_api_key_permissions")
               /\ Current(h).key = k
               /\ f \in DOMAIN Current(h).edit \/ h \in stale
    OBVIOUS
  <2>1. ASSUME NEW h \in Handler, RunInsertKey(h) PROVE keys'[k] = keys[k]
    <3>1. k \in spent
      BY <1>1 DEF AccountsInv, TypeOK
    <3>2. CASE keys' = keys
      BY <3>2
    <3>3. CASE \E new \in KeyId \ spent : \E r :
                 keys' = [j \in DOMAIN keys \union {new} |-> IF j = new THEN r ELSE keys[j]]
      BY <3>1, <3>3
    <3> QED BY <2>1, <3>2, <3>3 DEF RunInsertKey, Refused, tables
  <2>2. ASSUME NEW h \in Handler, RunDeleteUser(h) PROVE keys'[k] = keys[k]
    BY <2>2 DEF RunDeleteUser
  <2>3. ASSUME NEW j, keys' = Deactivated(j) PROVE keys'[k].permissions = keys[k].permissions
    BY <2>3 DEF Deactivated
  <2>4. ASSUME NEW h \in Handler, RunWritePerms(h)
        PROVE  /\ Doing(h, "update_api_key_permissions")
               /\ Current(h).key = k
               /\ f \in DOMAIN Current(h).edit \/ h \in stale
    <3>1. Doing(h, "update_api_key_permissions")
      BY <2>4 DEF RunWritePerms
    <3>2. keys'[k] = IF k = Current(h).key
                     THEN [user_id |-> keys[k].user_id, is_active |-> keys[k].is_active,
                           permissions |-> Current(h).permissions]
                     ELSE keys[k]
      BY <2>4 DEF RunWritePerms
    <3>3. Current(h).key = k /\ Current(h).permissions[f] # keys[k].permissions[f]
      BY <3>2
    <3> QED BY <1>1, <3>1, <3>3 DEF AccountsInv, Editing
  <2> QED BY <1>1, <2>1, <2>2, <2>3, <2>4, KeysChange DEF RunDeactivate, RunRevoke
<1> QED BY <1>1, Invariance, PTL DEF Spec, UpdateKeepsOtherFields
=============================================================================
