------------------------------- MODULE Accounts -------------------------------
(***************************************************************************)
(* Users and API keys of `omrp serve`: the tables users and api_keys       *)
(* (db.rs), the tokens issued for them (auth.rs), and the handlers that    *)
(* create, change and delete them (web_server.rs).                         *)
(*                                                                         *)
(* Every method of Database is one statement under one lock and no two of  *)
(* them share a transaction.  So a handler is the list of the statements   *)
(* it still has to run, todo, and each statement is a step; a server that  *)
(* stops drops what is left of the lists.                                  *)
(*                                                                         *)
(* Names, passwords and profiles only decide which statements and logins   *)
(* are refused.  Roles are written but read by nothing and are left out.   *)
(* A token may expire, after which nobody uses it.                         *)
(***************************************************************************)
EXTENDS Integers, Sequences, FiniteSets

CONSTANTS
  UserId,    \* ids of users; fresh for every user
  KeyId,     \* ids of API keys; fresh for every key
  Handler,   \* requests that may be served at the same time
  NoUser,    \* user_id NULL: a key that belongs to nobody
  System,    \* who a key of nobody acts as
  Nobody,    \* the caller of a request not authenticated
  MaxCalls   \* bound: requests and restarts

ASSUME AccountsAssumption ==
  /\ NoUser \notin UserId
  /\ System \notin UserId \union {NoUser}
  /\ Nobody \notin [user_id : UserId \union {System}, is_admin : BOOLEAN]
  /\ MaxCalls \in Nat

VARIABLES
  users,     \* id -> [is_admin, is_active]
  keys,      \* id -> [user_id, is_active, permissions]
  tokens,    \* claims of the tokens issued
  todo,      \* per handler: the statements it still has to run
  caller,    \* per handler: AuthUser, or the claims to be signed, once read
  calls,     \* requests and restarts so far
  used,      \* ids given to users so far
  spent,     \* ids given to keys so far
  revoked,   \* keys that a revocation deactivated
  cut,       \* users whose creation a restart cut short
  stale      \* handlers that hold permissions another one changed since

tables  == <<users, keys, tokens, spent>>
handled == <<todo, caller, calls, used>>
history == <<revoked, cut, stale>>
vars    == <<tables, handled, history>>

Field == {"can_use_router", "can_use_proxy_bypass"}

(* ApiKeyPermissions; the list of models and the hourly limit are fields   *)
(* like these two.                                                         *)
Default      == [f \in Field |-> f = "can_use_router"]
AdminDefault == [f \in Field |-> TRUE]

Claims(u, admin) == [user_id |-> u, is_admin |-> admin]

Init ==
  /\ users = [u \in {} |-> [is_admin |-> TRUE, is_active |-> TRUE]]
  /\ keys = [k \in {} |-> [user_id |-> NoUser, is_active |-> TRUE, permissions |-> Default]]
  /\ tokens = {}
  /\ todo = [h \in Handler |-> <<>>]
  /\ caller = [h \in Handler |-> Nobody]
  /\ calls = 0
  /\ used = {}
  /\ spent = {}
  /\ revoked = {}
  /\ cut = {}
  /\ stale = {}

-----------------------------------------------------------------------------
(* The statements. *)

InsertUser(u, admin) == [op |-> "insert_user", user |-> u, is_admin |-> admin]
InsertKey(u, perms)  == [op |-> "insert_api_key", user |-> u, permissions |-> perms]
Authenticate(u)      == [op |-> "authenticate", user |-> u]
IssueToken           == [op |-> "issue_token"]
ResolveUser(u)       == [op |-> "resolve_user_info", user |-> u]
SetActive(u, active) == [op |-> "set_user_active", user |-> u, is_active |-> active]
DeleteUser(u)        == [op |-> "delete_user", user |-> u]
Deactivate(k)        == [op |-> "deactivate_api_key", key |-> k]
Revoke(k)            == [op |-> "revoke", key |-> k]
RevokeOwn(u, k)      == [op |-> "list_api_keys_for_user", user |-> u, key |-> k]
ReadForReset(u)      == [op |-> "reset", user |-> u]
ReadOwnPerms(u)      == [op |-> "own_permissions", user |-> u]
ReadOwnKey(u, perms) == [op |-> "own_reset", user |-> u, permissions |-> perms]
ReadForEdit(u, edit) == [op |-> "edit", user |-> u, edit |-> edit]
WritePerms(k, perms, edit) ==
  [op |-> "update_api_key_permissions", key |-> k, permissions |-> perms, edit |-> edit]

KeysOf(u) == {k \in DOMAIN keys : keys[k].user_id = u}

(* get_user_api_key: the active key; the unique index leaves at most one. *)
ActiveKeys(u) == {k \in KeysOf(u) : keys[k].is_active}

Current(h) == Head(todo[h])

Doing(h, op) == todo[h] # <<>> /\ Current(h).op = op

(* The handler goes on with these statements; after the last it answers. *)
GoOn(h, statements) ==
  /\ todo' = [todo EXCEPT ![h] = statements]
  /\ caller' = IF statements = <<>> THEN [caller EXCEPT ![h] = Nobody] ELSE caller
  /\ UNCHANGED <<calls, used>>

(* A statement that cannot run is an error that ends the handler. *)
Refused(h) == GoOn(h, <<>>) /\ UNCHANGED <<tables, history>>

(* insert_user; the name or the address may be taken. *)
RunInsertUser(h) ==
  /\ Doing(h, "insert_user")
  /\ \/ /\ users' = [u \in DOMAIN users \union {Current(h).user} |->
                       IF u = Current(h).user
                       THEN [is_admin |-> Current(h).is_admin, is_active |-> TRUE]
                       ELSE users[u]]
        /\ GoOn(h, Tail(todo[h]))
        /\ UNCHANGED <<keys, tokens, spent, history>>
     \/ DOMAIN users # {} /\ Refused(h)

(* The foreign key, and the unique index on user_id, inactive rows included. *)
KeyRefused(u) ==
  u # NoUser /\ (u \notin DOMAIN users \/ KeysOf(u) # {})

(* insert_api_key.  auth_register goes on without the key. *)
RunInsertKey(h) ==
  LET u == Current(h).user
      registering == Len(todo[h]) > 1
  IN  /\ Doing(h, "insert_api_key")
      /\ IF KeyRefused(u)
         THEN IF registering
              THEN GoOn(h, Tail(todo[h])) /\ UNCHANGED <<tables, history>>
              ELSE Refused(h)
         ELSE /\ \E new \in KeyId \ spent :
                /\ spent' = spent \union {new}
                /\ keys' = [k \in DOMAIN keys \union {new} |->
                              IF k = new
                              THEN [user_id |-> u, is_active |-> TRUE,
                                    permissions |-> Current(h).permissions]
                              ELSE keys[k]]
              /\ GoOn(h, Tail(todo[h]))
              /\ UNCHANGED <<users, tokens, history>>

(* authenticate reads the row; an account that is gone or inactive gets no *)
(* token.  The password is checked next, ...                               *)
RunAuthenticate(h) ==
  LET u == Current(h).user
  IN  /\ Doing(h, "authenticate")
      /\ \/ /\ u \in DOMAIN users
            /\ users[u].is_active
            /\ todo' = [todo EXCEPT ![h] = <<IssueToken>>]
            /\ caller' = [caller EXCEPT ![h] = Claims(u, users[u].is_admin)]
            /\ UNCHANGED <<calls, used, tables, history>>
         \/ ~(u \in DOMAIN users /\ users[u].is_active) /\ Refused(h)

(* ... and the claims that were read are signed. *)
RunIssueToken(h) ==
  /\ Doing(h, "issue_token")
  /\ tokens' = tokens \union {caller[h]}
  /\ GoOn(h, <<>>)
  /\ UNCHANGED <<users, keys, spent, history>>

(* A slip to be caught: an account that is deactivated is an admin no more. *)
DemoteInactive(h) ==
  LET u == Current(h).user
  IN  /\ Doing(h, "set_user_active")
      /\ users' = [v \in DOMAIN users |->
                     IF v = u THEN [is_admin  |-> users[v].is_admin /\ Current(h).is_active,
                                    is_active |-> Current(h).is_active] ELSE users[v]]
      /\ GoOn(h, <<>>)
      /\ UNCHANGED <<keys, tokens, spent, history>>

(* set_user_active. *)
RunSetActive(h) ==
  LET u == Current(h).user
  IN  /\ Doing(h, "set_user_active")
      /\ users' = [v \in DOMAIN users |->
                     IF v = u THEN [is_admin  |-> users[v].is_admin,
                                    is_active |-> Current(h).is_active] ELSE users[v]]
      /\ GoOn(h, <<>>)
      /\ UNCHANGED <<keys, tokens, spent, history>>

(* delete_user; the user's keys go with it. *)
RunDeleteUser(h) ==
  LET u == Current(h).user
  IN  /\ Doing(h, "delete_user")
      /\ users' = [v \in DOMAIN users \ {u} |-> users[v]]
      /\ keys' = [k \in DOMAIN keys \ KeysOf(u) |-> keys[k]]
      /\ GoOn(h, <<>>)
      /\ UNCHANGED <<tokens, spent, history>>

Deactivated(k) ==
  [j \in DOMAIN keys |-> IF j = k THEN [user_id |-> keys[j].user_id, is_active |-> FALSE,
                                        permissions |-> keys[j].permissions]
                         ELSE keys[j]]

(* deactivate_api_key, in a reset ... *)
RunDeactivate(h) ==
  /\ Doing(h, "deactivate_api_key")
  /\ keys' = Deactivated(Current(h).key)
  /\ GoOn(h, Tail(todo[h]))
  /\ UNCHANGED <<users, tokens, spent, history>>

(* ... and in a revocation. *)
RunRevoke(h) ==
  /\ Doing(h, "revoke")
  /\ keys' = Deactivated(Current(h).key)
  /\ revoked' = revoked \union {Current(h).key}
  /\ GoOn(h, <<>>)
  /\ UNCHANGED <<users, tokens, spent, cut, stale>>

-----------------------------------------------------------------------------
(* Reads that decide how a handler goes on. *)

Read(h, statements) == GoOn(h, statements) /\ UNCHANGED <<tables, history>>

(* user_revoke_api_key: only one's own, active or not. *)
RunRevokeOwn(h) ==
  /\ Doing(h, "list_api_keys_for_user")
  /\ Read(h, IF Current(h).key \in KeysOf(Current(h).user)
             THEN <<Revoke(Current(h).key)>> ELSE <<>>)

(* admin_reset_user_key: the old key's permissions pass to the new one. *)
RunReadForReset(h) ==
  LET u == Current(h).user
  IN  /\ Doing(h, "reset")
      /\ \/ /\ ActiveKeys(u) = {}
            /\ Read(h, <<InsertKey(u, Default)>>)
         \/ \E k \in ActiveKeys(u) :
              Read(h, <<Deactivate(k), InsertKey(u, keys[k].permissions)>>)

(* user_reset_own_key reads twice: the permissions ... *)
RunReadOwnPerms(h) ==
  LET u == Current(h).user
  IN  /\ Doing(h, "own_permissions")
      /\ \/ ActiveKeys(u) = {} /\ Read(h, <<ReadOwnKey(u, Default)>>)
         \/ \E k \in ActiveKeys(u) : Read(h, <<ReadOwnKey(u, keys[k].permissions)>>)

(* ... and the key. *)
RunReadOwnKey(h) ==
  LET u == Current(h).user
      issue == InsertKey(u, Current(h).permissions)
  IN  /\ Doing(h, "own_reset")
      /\ \/ ActiveKeys(u) = {} /\ Read(h, <<issue>>)
         \/ \E k \in ActiveKeys(u) : Read(h, <<Deactivate(k), issue>>)

(* A slip to be caught: the fields not named go back to their defaults. *)
EditedFromDefault(perms, edit) ==
  [f \in Field |-> IF f \in DOMAIN edit THEN edit[f] ELSE Default[f]]

Edited(perms, edit) ==
  [f \in Field |-> IF f \in DOMAIN edit THEN edit[f] ELSE perms[f]]

(* admin_update_user_key_permissions: read, change the fields named ... *)
RunReadForEdit(h) ==
  LET u == Current(h).user
  IN  /\ Doing(h, "edit")
      /\ \/ ActiveKeys(u) = {} /\ GoOn(h, <<>>)
         \/ \E k \in ActiveKeys(u) :
              GoOn(h, <<WritePerms(k, Edited(keys[k].permissions, Current(h).edit),
                                   Current(h).edit)>>)
      /\ stale' = stale \ {h}
      /\ UNCHANGED <<tables, revoked, cut>>

(* A slip to be caught: the whole row is written back as it was read. *)
RunWriteRow(h) ==
  LET k == Current(h).key
  IN  /\ Doing(h, "update_api_key_permissions")
      /\ keys' = [j \in DOMAIN keys |->
                    IF j = k THEN [keys[j] EXCEPT !.is_active = TRUE,
                                     !.permissions = Current(h).permissions]
                    ELSE keys[j]]
      /\ stale' = stale \union {g \in Handler \ {h} :
                    Doing(g, "update_api_key_permissions") /\ Current(g).key = k}
      /\ GoOn(h, <<>>)
      /\ UNCHANGED <<users, tokens, spent, revoked, cut>>

(* ... and write all of them back. *)
RunWritePerms(h) ==
  LET k == Current(h).key
  IN  /\ Doing(h, "update_api_key_permissions")
      /\ keys' = [j \in DOMAIN keys |->
                    IF j = k THEN [user_id |-> keys[j].user_id,
                                   is_active |-> keys[j].is_active,
                                   permissions |-> Current(h).permissions]
                    ELSE keys[j]]
      /\ stale' = stale \union {g \in Handler \ {h} :
                    Doing(g, "update_api_key_permissions") /\ Current(g).key = k}
      /\ GoOn(h, <<>>)
      /\ UNCHANGED <<users, tokens, spent, revoked, cut>>

(* from_request_parts, second statement: resolve_user_info.  The user may  *)
(* have gone since the key was found.                                      *)
RunResolveUser(h) ==
  LET u == Current(h).user
  IN  /\ Doing(h, "resolve_user_info")
      /\ todo' = [todo EXCEPT ![h] = <<>>]
      /\ caller' = [caller EXCEPT ![h] =
                      Claims(u, u \in DOMAIN users /\ users[u].is_admin)]
      /\ UNCHANGED <<calls, used, tables, history>>

Step(h) ==
  \/ RunInsertUser(h)
  \/ RunInsertKey(h)
  \/ RunAuthenticate(h)
  \/ RunIssueToken(h)
  \/ RunResolveUser(h)
  \/ RunSetActive(h)
  \/ RunDeleteUser(h)
  \/ RunDeactivate(h)
  \/ RunRevoke(h)
  \/ RunRevokeOwn(h)
  \/ RunReadForReset(h)
  \/ RunReadOwnPerms(h)
  \/ RunReadOwnKey(h)
  \/ RunReadForEdit(h)
  \/ RunWritePerms(h)

-----------------------------------------------------------------------------
(* Requests. *)

Arrive(h) ==
  /\ todo[h] = <<>>
  /\ caller[h] = Nobody
  /\ calls < MaxCalls
  /\ calls' = calls + 1
  /\ UNCHANGED <<tables, history>>

(* A fresh id. *)
NewUser(u) == u \notin used /\ used' = used \union {u}

(* setup_init: refused once there is a user. *)
SetupInit(h, u) ==
  /\ Arrive(h)
  /\ DOMAIN users = {}
  /\ NewUser(u)
  /\ todo' = [todo EXCEPT ![h] = <<InsertUser(u, TRUE), InsertKey(u, AdminDefault)>>]
  /\ UNCHANGED caller

(* A slip to be caught: the key is inserted before its user. *)
RegisterKeyFirst(h, u) ==
  /\ Arrive(h)
  /\ NewUser(u)
  /\ todo' = [todo EXCEPT ![h] =
       <<InsertKey(u, Default), InsertUser(u, FALSE), Authenticate(u)>>]
  /\ UNCHANGED caller

(* auth_register, when registration is open. *)
Register(h, u) ==
  /\ Arrive(h)
  /\ NewUser(u)
  /\ todo' = [todo EXCEPT ![h] =
       <<InsertUser(u, FALSE), InsertKey(u, Default), Authenticate(u)>>]
  /\ UNCHANGED caller

(* auth_login with the right password. *)
LogIn(h, u) ==
  /\ Arrive(h)
  /\ u \in DOMAIN users
  /\ todo' = [todo EXCEPT ![h] = <<Authenticate(u)>>]
  /\ UNCHANGED <<caller, used>>

(* from_request_parts with a token: its claims are taken as they are. *)
UseToken(h, claims) ==
  /\ Arrive(h)
  /\ claims \in tokens
  /\ caller' = [caller EXCEPT ![h] = claims]
  /\ UNCHANGED <<todo, used>>

(* A slip to be caught: a key of nobody is resolved like the others. *)
UseAnyKey(h, k) ==
  /\ Arrive(h)
  /\ k \in DOMAIN keys
  /\ keys[k].is_active
  /\ todo' = [todo EXCEPT ![h] = <<ResolveUser(keys[k].user_id)>>]
  /\ UNCHANGED <<caller, used>>

(* from_request_parts with an active key; that of nobody is an admin's. *)
UseKey(h, k) ==
  /\ Arrive(h)
  /\ k \in DOMAIN keys
  /\ keys[k].is_active
  /\ IF keys[k].user_id = NoUser
     THEN caller' = [caller EXCEPT ![h] = Claims(System, TRUE)] /\ UNCHANGED todo
     ELSE todo' = [todo EXCEPT ![h] = <<ResolveUser(keys[k].user_id)>>] /\ UNCHANGED caller
  /\ UNCHANGED used

(* An authenticated request begins with these statements. *)
Ask(h, statements) ==
  /\ caller[h] # Nobody
  /\ todo[h] = <<>>
  /\ todo' = [todo EXCEPT ![h] = statements]
  /\ UNCHANGED <<caller, calls, tables, history>>

(* admin_create_user. *)
AdminCreateUser(h, u, admin) ==
  /\ NewUser(u)
  /\ Ask(h, <<InsertUser(u, admin),
              InsertKey(u, IF admin THEN AdminDefault ELSE Default)>>)

(* A slip to be caught: nothing keeps an administrator from itself. *)
AdminDeleteAnyUser(h, u) == Ask(h, <<DeleteUser(u)>>)

(* admin_delete_user. *)
AdminDeleteUser(h, u) == u # caller[h].user_id /\ Ask(h, <<DeleteUser(u)>>)

(* The requests that require_admin lets through. *)
AdminRequest(h) ==
  /\ caller[h] # Nobody
  /\ caller[h].is_admin
  /\ \/ \E u \in UserId, admin \in BOOLEAN : AdminCreateUser(h, u, admin)
     \/ /\ UNCHANGED used
        /\ \/ \E u \in used, active \in BOOLEAN : Ask(h, <<SetActive(u, active)>>)
           \/ \E u \in used : AdminDeleteUser(h, u)
           \/ \E u \in used \union {NoUser} : Ask(h, <<InsertKey(u, Default)>>)
           \/ \E k \in DOMAIN keys : Ask(h, <<Revoke(k)>>)
           \/ \E u \in used : Ask(h, <<ReadForReset(u)>>)
           \/ \E u \in used, f \in Field, value \in BOOLEAN :
                Ask(h, <<ReadForEdit(u, [g \in {f} |-> value])>>)

(* Requests about the caller's own keys. *)
OwnRequest(h) ==
  /\ caller[h] # Nobody
  /\ UNCHANGED used
  /\ \/ Ask(h, <<InsertKey(caller[h].user_id, Default)>>)
     \/ \E k \in DOMAIN keys : Ask(h, <<RevokeOwn(caller[h].user_id, k)>>)
     \/ Ask(h, <<ReadOwnPerms(caller[h].user_id)>>)

(* Users that a handler is about to give a key. *)
Unfinished ==
  {u \in DOMAIN users : \E h \in Handler : \E i \in DOMAIN todo[h] :
     todo[h][i].op = "insert_api_key" /\ todo[h][i].user = u}

(* The server stops and starts again. *)
Restart ==
  /\ calls < MaxCalls
  /\ calls' = calls + 1
  /\ todo' = [h \in Handler |-> <<>>]
  /\ caller' = [h \in Handler |-> Nobody]
  /\ cut' = cut \union Unfinished
  /\ UNCHANGED <<tables, used, revoked, stale>>

Next ==
  \/ \E h \in Handler :
       \/ Step(h)
       \/ \E u \in UserId : SetupInit(h, u) \/ Register(h, u) \/ LogIn(h, u)
       \/ \E claims \in tokens : UseToken(h, claims)
       \/ \E k \in DOMAIN keys : UseKey(h, k)
       \/ AdminRequest(h)
       \/ OwnRequest(h)
  \/ Restart

Spec == Init /\ [][Next]_vars

-----------------------------------------------------------------------------
Perms == [Field -> BOOLEAN]

(* Every part of the system has its type; statements are the lists above. *)
TypeOK ==
  /\ users \in [DOMAIN users -> [is_admin : BOOLEAN, is_active : BOOLEAN]]
  /\ DOMAIN users \subseteq used
  /\ used \subseteq UserId
  /\ keys \in [DOMAIN keys -> [user_id : UserId \union {NoUser},
                               is_active : BOOLEAN, permissions : Perms]]
  /\ DOMAIN keys \subseteq spent
  /\ spent \subseteq KeyId
  /\ tokens \subseteq [user_id : used, is_admin : BOOLEAN]
  /\ caller \in [Handler -> [user_id : used \union {System}, is_admin : BOOLEAN]
                              \union {Nobody}]
  /\ calls \in 0 .. MaxCalls
  /\ revoked \subseteq KeyId
  /\ cut \subseteq UserId
  /\ stale \subseteq Handler

(***************************************************************************)
(* docs/WEB.md:71, "Every user account has exactly one API key": once the  *)
(* handlers are done with it, whichever of them overlapped and although    *)
(* auth_register ignores a key that could not be inserted.  Only a restart *)
(* between the two statements leaves a user without one.                   *)
(***************************************************************************)
OneKeyPerAccount ==
  \A u \in DOMAIN users :
    /\ Cardinality(KeysOf(u)) <= 1
    /\ KeysOf(u) = {} => u \in cut \union Unfinished

(***************************************************************************)
(* Revoked for good: a handler that read an active key and writes its      *)
(* permissions back after another one has deactivated it does not bring it *)
(* back to life, no other statement does, and no key changes hands.        *)
(***************************************************************************)
RevokedStaysRevoked ==
  [][\A k \in DOMAIN keys \intersect DOMAIN keys' :
       /\ keys'[k].user_id = keys[k].user_id
       /\ keys'[k].is_active => keys[k].is_active]_vars

(***************************************************************************)
(* Claims are never looked up again after a token is issued or a caller    *)
(* resolved (auth.rs:196).  What they say of a user that exists is true    *)
(* nevertheless.                                                           *)
(***************************************************************************)
ClaimsMatch ==
  \A c \in tokens \union ({caller[h] : h \in Handler} \ {Nobody}) :
    c.user_id \in DOMAIN users => c.is_admin = users[c.user_id].is_admin

(***************************************************************************)
(* "Cannot delete yourself" (web_server.rs:693) keeps one administrator:   *)
(* the last one is only ever deleted by a caller who is no user (any       *)
(* more), through a token or a request that outlived its account, or with  *)
(* a key of nobody.                                                        *)
(***************************************************************************)
Admins == {u \in DOMAIN users : users[u].is_admin}

LastAdminDeletedByStranger ==
  [][Admins # {} /\ Admins' = {} =>
       \E h \in Handler : /\ Doing(h, "delete_user")
                          /\ caller[h].user_id \notin DOMAIN users]_vars

(***************************************************************************)
(* A change of some permissions of a key leaves the others alone, unless   *)
(* another change of the same key came between its read and its write.     *)
(***************************************************************************)
UpdateKeepsOtherFields ==
  [][\A k \in DOMAIN keys \intersect DOMAIN keys' : \A f \in Field :
       keys'[k].permissions[f] # keys[k].permissions[f] =>
         \E h \in Handler :
           /\ Doing(h, "update_api_key_permissions")
           /\ Current(h).key = k
           /\ f \in DOMAIN Current(h).edit \/ h \in stale]_vars

-----------------------------------------------------------------------------
(***************************************************************************)
(* README.md:58 on a reset: "old key immediately deactivated, new key      *)
(* generated".  So a user whose key nobody revoked has an active one, when *)
(* no handler is about to insert it and no restart came in between.        *)
(***************************************************************************)
ResetYieldsKey ==
  \A u \in DOMAIN users \ (cut \union Unfinished) :
    ActiveKeys(u) # {} \/ KeysOf(u) \subseteq revoked
=============================================================================
