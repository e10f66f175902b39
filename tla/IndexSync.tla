------------------------------ MODULE IndexSync ------------------------------
(***************************************************************************)
(* Roles, in the database and in the index (the role and profile handlers  *)
(* of chat/handlers.go, the role queries of storage/transactions.go, the   *)
(* updates and permission queries of chat/index.go).                       *)
(*                                                                         *)
(* A handler decides and writes in one database transaction, and then, on  *)
(* its own, copies what it read back into the in-memory index.  SQLite     *)
(* serialises the transactions (a writer whose snapshot is old fails), so  *)
(* each is one step; the copies come in any order.  A request that is      *)
(* turned away changes nothing.                                            *)
(*                                                                         *)
(* A user is the set of its roles, a bit mask of permissions a set.  The   *)
(* channels and the settings are never written by a handler.               *)
(***************************************************************************)
EXTENDS Integers, FiniteSetsExt

CONSTANTS UserIds, RoleIds,
          Role,         \* the rows a role may have: [pos, perms]
          Default,      \* Settings.DefaultPermissions
          Overwrites,   \* of the one channel: [type, id, allow, deny]
          Workers,      \* requests handled at once
          NoRank,       \* math.MaxInt, the rank of a user without roles
          None

Admin  == "Administrator"
Manage == "ManageRoles"
View   == "ViewChannel"
PermissionAll == {Admin, Manage, View}

ASSUME IndexSyncAssumption ==
  /\ UserIds \cap RoleIds = {}
  /\ NoRank \in Nat
  /\ Role \subseteq [pos : (-NoRank - 1)..NoRank, perms : SUBSET PermissionAll]
  /\ Default \subseteq PermissionAll
  /\ Overwrites \subseteq [type : {"role", "user"}, id : UserIds \cup RoleIds,
                           allow : SUBSET PermissionAll, deny : SUBSET PermissionAll]

VARIABLES
  dbUsers,   \* user_roles: user -> its roles
  dbRoles,   \* roles: a function on the roles that exist
  issued,    \* role IDs that snowflake.New has handed out
  users,     \* Index.Users
  roles,     \* Index.Roles
  infos,     \* Index.UserInfos: Permissions
  pending,   \* what each request has committed and not yet put in the index
  raced,     \* history: the last commit of a row found a copy of it under way
  dated      \* history: users whose info is older than a role of theirs

db    == <<dbUsers, dbRoles, issued>>
index == <<users, roles, infos>>
vars  == <<db, index, pending, raced, dated>>

Copy == [op : {"user"}, id : UserIds, value : SUBSET RoleIds]
        \cup [op : {"role"}, id : RoleIds, value : Role]
        \cup [op : {"delete"}, id : RoleIds]

ASSUME NoneAssumption == None \notin Copy

TypeOK ==
  /\ dbUsers \in [UserIds -> SUBSET RoleIds]
  /\ \A u \in UserIds : dbUsers[u] \subseteq DOMAIN dbRoles
  /\ dbRoles \in [DOMAIN dbRoles -> Role]
  /\ DOMAIN dbRoles \subseteq issued /\ issued \subseteq RoleIds
  /\ users \in [UserIds -> SUBSET RoleIds]
  /\ roles \in [DOMAIN roles -> Role] /\ DOMAIN roles \subseteq RoleIds
  /\ infos \in [UserIds -> SUBSET PermissionAll]
  /\ pending \in [Workers -> Copy \cup {None}]
  /\ raced \in [UserIds \cup RoleIds -> BOOLEAN]
  /\ dated \subseteq UserIds

-----------------------------------------------------------------------------
(* Permissions and ranks.                                                  *)

All(perms) == IF Admin \in perms THEN PermissionAll ELSE perms

\* The permissions of a user with roles rs: computeUserInfo in the index,
\* Transaction.GetPermissionsByUser in the database.  A role that does not
\* exist counts for nothing.
Granted(rs, table) ==
  All(Default \cup UNION {table[r].perms : r \in rs \cap DOMAIN table})

\* A channel's overwrites applied to those: everything allowed, less everything
\* denied.
Overwritten(base, u, rs) ==
  LET mine == {o \in Overwrites : IF o.type = "role" THEN o.id \in rs ELSE o.id = u}
  IN All((base \cup UNION {o.allow : o \in mine}) \ UNION {o.deny : o \in mine})

\* Index.GetPermissionsByChannel starts from the cached info.
IndexPermissions(u) == Overwritten(infos[u], u, users[u])

\* Transaction.GetPermissionsByChannel: GetPermissionsByUser, then overwrites.
TxPermissions(u) == Overwritten(Granted(dbUsers[u], dbRoles), u, dbUsers[u])

\* ComputeEffectiveRank: the best (lowest) position.
Rank(us, rs, u) == Min({rs[r].pos : r \in us[u]} \cup {NoRank})

-----------------------------------------------------------------------------
\* Index.Build copies whatever the database holds.
Init ==
  /\ \E held \in SUBSET RoleIds : dbRoles \in [held -> Role]
  /\ dbUsers \in [UserIds -> SUBSET DOMAIN dbRoles]
  /\ issued = DOMAIN dbRoles
  /\ users = dbUsers
  /\ roles = dbRoles
  /\ infos = [u \in UserIds |-> Granted(dbUsers[u], dbRoles)]
  /\ pending = [w \in Workers |-> None]
  /\ raced = [x \in UserIds \cup RoleIds |-> FALSE]
  /\ dated = {}

Busy(x) == \E w \in Workers : pending[w] # None /\ pending[w].id = x

\* Request w commits, and holds copy to put in the index.
Commit(w, copy) ==
  /\ pending[w] = None
  /\ pending' = [pending EXCEPT ![w] = copy]
  /\ raced' = [raced EXCEPT ![copy.id] = Busy(copy.id)]
  /\ UNCHANGED <<index, dated>>

\* The table with one row stored, which may be new.
Put(table, r, role) ==
  [s \in DOMAIN table \cup {r} |-> IF s = r THEN role ELSE table[s]]

MayManage(a) == Manage \in Granted(dbUsers[a], dbRoles)

-----------------------------------------------------------------------------
(* The handlers, up to tx.Commit; a is the user who asks.                  *)

HandleRoleAddRequest(w, a, r, role) ==
  /\ MayManage(a)
  /\ r \notin issued
  /\ issued' = issued \cup {r}
  /\ dbRoles' = Put(dbRoles, r, role)
  /\ Commit(w, [op |-> "role", id |-> r, value |-> role])
  /\ UNCHANGED dbUsers

HandleRoleUpdateRequest(w, a, r, role) ==
  /\ MayManage(a)
  /\ r \in DOMAIN dbRoles
  /\ dbRoles' = [dbRoles EXCEPT ![r] = role]
  /\ Commit(w, [op |-> "role", id |-> r, value |-> role])
  /\ UNCHANGED <<dbUsers, issued>>

\* Mutant: user_roles is not cleaned up (no ON DELETE CASCADE).
HandleRoleDeleteNoCascade(w, a, r) ==
  /\ MayManage(a)
  /\ r \in issued
  /\ dbRoles' = [s \in DOMAIN dbRoles \ {r} |-> dbRoles[s]]
  /\ Commit(w, [op |-> "delete", id |-> r])
  /\ UNCHANGED <<dbUsers, issued>>

\* The row of a role that is gone is deleted without complaint.  The schema's
\* ON DELETE CASCADE takes the role from everyone.
HandleRoleDeleteRequest(w, a, r) ==
  /\ MayManage(a)
  /\ r \in issued
  /\ dbRoles' = [s \in DOMAIN dbRoles \ {r} |-> dbRoles[s]]
  /\ dbUsers' = [u \in UserIds |-> dbUsers[u] \ {r}]
  /\ Commit(w, [op |-> "delete", id |-> r])
  /\ UNCHANGED issued

\* Mutant: the bound on the target is not strict.
OutranksOrEquals(a, t, r) ==
  /\ t # a => Rank(dbUsers, dbRoles, t) >= Rank(dbUsers, dbRoles, a)
  /\ dbRoles[r].pos >= Rank(dbUsers, dbRoles, a)

\* Actor a is better placed than target t, unless that is a too, and than the
\* role.
Outranks(a, t, r) ==
  /\ t # a => Rank(dbUsers, dbRoles, t) > Rank(dbUsers, dbRoles, a)
  /\ dbRoles[r].pos > Rank(dbUsers, dbRoles, a)

\* Both handlers of a user's role: to is the new role set.
ChangeRoles(w, a, t, r, to) ==
  /\ MayManage(a)
  /\ r \in DOMAIN dbRoles
  /\ to # dbUsers[t]
  /\ Outranks(a, t, r)
  /\ dbUsers' = [dbUsers EXCEPT ![t] = to]
  /\ Commit(w, [op |-> "user", id |-> t, value |-> to])
  /\ UNCHANGED <<dbRoles, issued>>

HandleUserRoleAddRequest(w, a, t, r) == ChangeRoles(w, a, t, r, dbUsers[t] \cup {r})

HandleUserRoleDeleteRequest(w, a, t, r) == ChangeRoles(w, a, t, r, dbUsers[t] \ {r})

\* A profile update: the user is read back whole, roles included.
FinalizeUserUpdateRequest(w, u) ==
  /\ Commit(w, [op |-> "user", id |-> u, value |-> dbUsers[u]])
  /\ UNCHANGED db

-----------------------------------------------------------------------------
(* The same handlers, from tx.Commit on.                                   *)

Done(w) == pending' = [pending EXCEPT ![w] = None]

\* Mutant: the cached permissions are left as they were.
UpdateUserKeepsInfo(w) ==
  /\ pending[w] # None
  /\ pending[w].op = "user"
  /\ LET u == pending[w].id
     IN /\ users' = [users EXCEPT ![u] = pending[w].value]
        /\ dated' = dated \ {u}
  /\ Done(w)
  /\ UNCHANGED <<infos, db, roles, raced>>

\* Index.UpdateUser: the info is computed from the roles the index has now.
UpdateUser(w) ==
  /\ pending[w] # None
  /\ pending[w].op = "user"
  /\ LET u == pending[w].id
     IN /\ users' = [users EXCEPT ![u] = pending[w].value]
        /\ infos' = [infos EXCEPT ![u] = Granted(pending[w].value, roles)]
        /\ dated' = dated \ {u}
  /\ Done(w)
  /\ UNCHANGED <<db, roles, raced>>

Holders(r) == {u \in UserIds : r \in users[u]}

\* Mutant: only a role that is new is stored.
PutRoleOnce(w) ==
  /\ pending[w] # None
  /\ pending[w].op = "role"
  /\ roles' = IF pending[w].id \in DOMAIN roles THEN roles
             ELSE Put(roles, pending[w].id, pending[w].value)
  /\ dated' = dated \cup Holders(pending[w].id)
  /\ Done(w)
  /\ UNCHANGED <<db, users, infos, raced>>

\* Index.AddRole and Index.UpdateRole: no user's info is recomputed.
PutRole(w) ==
  /\ pending[w] # None
  /\ pending[w].op = "role"
  /\ roles' = Put(roles, pending[w].id, pending[w].value)
  /\ dated' = dated \cup Holders(pending[w].id)
  /\ Done(w)
  /\ UNCHANGED <<db, users, infos, raced>>

\* Index.DeleteRole: the users keep its ID.
DeleteRole(w) ==
  /\ pending[w] # None
  /\ pending[w].op = "delete"
  /\ roles' = [r \in DOMAIN roles \ {pending[w].id} |-> roles[r]]
  /\ dated' = dated \cup Holders(pending[w].id)
  /\ Done(w)
  /\ UNCHANGED <<db, users, infos, raced>>

Request(w, a) ==
  \/ \E r \in RoleIds, role \in Role : HandleRoleAddRequest(w, a, r, role)
  \/ \E r \in RoleIds, role \in Role : HandleRoleUpdateRequest(w, a, r, role)
  \/ \E r \in RoleIds : HandleRoleDeleteRequest(w, a, r)
  \/ \E t \in UserIds, r \in RoleIds : HandleUserRoleAddRequest(w, a, t, r)
  \/ \E t \in UserIds, r \in RoleIds : HandleUserRoleDeleteRequest(w, a, t, r)
  \/ FinalizeUserUpdateRequest(w, a)

Next ==
  \/ \E w \in Workers, a \in UserIds : Request(w, a)
  \/ \E w \in Workers : UpdateUser(w)
  \/ \E w \in Workers : PutRole(w)
  \/ \E w \in Workers : DeleteRole(w)

Spec == Init /\ [][Next]_vars

-----------------------------------------------------------------------------
\* A row is settled when no copy of it is under way and its last commit was not
\* made while one was.
Settled(x) == ~Busy(x) /\ ~raced[x]

\* The index ends up with what the database has, for every user and every role,
\* unless two requests changed the same one at once: their copies may then
\* arrive in the other order (handlers.go:860-863, 1109-1112).  A deleted role
\* may stay in a user's list in the index.
IndexAgrees ==
  /\ \A r \in RoleIds : Settled(r) =>
       /\ r \in DOMAIN roles <=> r \in DOMAIN dbRoles
       /\ r \in DOMAIN roles => roles[r] = dbRoles[r]
  /\ \A u \in UserIds : Settled(u) => users[u] \cap DOMAIN dbRoles = dbUsers[u]

\* Whether a relayed event reaches a user is decided by the index, whether its
\* own request is allowed by the database.  The two decide alike for a user who
\* is settled, whose roles are too, none of them deleted (the channel overwrites
\* of a deleted role still count in the index), and none changed since the info
\* was computed (index.go:522-543 recompute no info).
PermissionsAgree ==
  \A u \in UserIds :
    /\ Settled(u) /\ u \notin dated
    /\ \A r \in users[u] : Settled(r) /\ r \in DOMAIN dbRoles
    => IndexPermissions(u) = TxPermissions(u)

\* Giving and taking roles keeps the order of ranks: whoever is moved stays
\* behind the one who moves them, before and after, and nobody moves themselves
\* (handlers.go:1084-1094, 1185-1195).  Only these two requests compare ranks:
\* whoever manages roles may put any role at any position (handlers.go:948-968), or
\* delete it, and so move anyone.
RanksKept ==
  [][dbUsers' # dbUsers => \A w \in Workers, a, t \in UserIds, r \in RoleIds :
       \/ HandleUserRoleAddRequest(w, a, t, r)
       \/ HandleUserRoleDeleteRequest(w, a, t, r)
       => \A u \in UserIds :
            LET rank  == Rank(dbUsers, dbRoles, u)
                after == Rank(dbUsers, dbRoles, u)'
            IN rank # after =>
                 /\ rank > Rank(dbUsers, dbRoles, a)
                 /\ after > Rank(dbUsers, dbRoles, a)]_vars
=============================================================================
