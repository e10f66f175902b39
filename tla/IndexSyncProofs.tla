--------------------------- MODULE IndexSyncProofs ---------------------------
(***************************************************************************)
(* Proofs about IndexSync.tla for any users, roles, permissions and        *)
(* overwrites, and any number of requests at once.                         *)
(***************************************************************************)
EXTENDS IndexSync, WellFoundedInduction, TLAPS

-----------------------------------------------------------------------------
(* Tables of roles, and least positions.                                   *)

\* Bounded positions have a least one: Min is one of them and below the others.
LEMMA MinFacts ==
  ASSUME NEW n \in Nat, NEW S \in SUBSET ((-n - 1)..n), S # {}
  PROVE  Min(S) \in S /\ \A x \in S : Min(S) <= x
<1> DEFINE R == OpToRel(<, Nat)
           T == {x + n + 1 : x \in S}
<1>1. R = {p \in Nat \X Nat : p[1] < p[2]}
  BY DEF OpToRel
<1>2. IsWellFoundedOn(R, Nat)
  BY NatLessThanWellFounded
<1> HIDE DEF R
<1>3. T \subseteq Nat
  <2>1. \A x \in S : x \in Int /\ x >= -n - 1
    OBVIOUS
  <2>2. \A x \in S : x + n + 1 \in Nat
    BY <2>1
  <2> QED
    BY <2>2
<1>4. T # {}
  <2>1. PICK x \in S : TRUE
    OBVIOUS
  <2>2. x + n + 1 \in T
    OBVIOUS
  <2> QED
    BY <2>2
<1>5. \E x \in T : \A y \in T : ~ (<<y, x>> \in R)
  <2> HIDE DEF T
  <2> QED
    BY <1>2, <1>3, <1>4, WFMin
<1>6. PICK t \in T : \A y \in T : ~ (y < t)
  BY <1>1, <1>3, <1>5
<1>7. PICK x \in S : t = x + n + 1
  BY <1>6
<1>8. ASSUME NEW y \in S PROVE x <= y
  <2>1. y + n + 1 \in T
    OBVIOUS
  <2>2. ~ (y + n + 1 < t)
    BY <1>6, <2>1
  <2> QED
    BY <1>7, <2>2
<1> QED
  BY <1>8 DEF Min

-----------------------------------------------------------------------------
(* Types.                                                                  *)

\* A copy under way is one of its kind.
LEMMA CopyFields ==
  ASSUME NEW copy \in Copy
  PROVE  /\ copy.op \in {"user", "role", "delete"}
         /\ copy.id \in UserIds \cup RoleIds
         /\ copy.op = "user" <=> copy.id \in UserIds
         /\ copy.op = "user" => copy.value \in SUBSET RoleIds
         /\ copy.op = "role" => copy.value \in Role
BY IndexSyncAssumption DEF Copy

\* What a user may do is a set of permissions.
LEMMA GrantedType ==
  ASSUME NEW rs, NEW table, table \in [DOMAIN table -> Role]
  PROVE  Granted(rs, table) \in SUBSET PermissionAll
<1>1. \A r \in DOMAIN table : table[r].perms \in SUBSET PermissionAll
  BY IndexSyncAssumption
<1>2. Default \cup UNION {table[r].perms : r \in rs \cap DOMAIN table} \subseteq PermissionAll
  BY <1>1, IndexSyncAssumption
<1> QED
  BY <1>2 DEF Granted, All

LEMMA InitType == Init => TypeOK
<1> SUFFICES ASSUME Init PROVE TypeOK
  OBVIOUS
<1>1. dbRoles \in [DOMAIN dbRoles -> Role] /\ DOMAIN dbRoles \subseteq RoleIds
  BY DEF Init
<1> QED
  BY <1>1, GrantedType DEF Init, TypeOK

\* A commit of a copy keeps the types if the database does.
LEMMA CommitType ==
  ASSUME TypeOK, NEW w \in Workers, NEW copy \in Copy, Commit(w, copy),
         dbUsers' \in [UserIds -> SUBSET RoleIds],
         \A u \in UserIds : dbUsers'[u] \subseteq DOMAIN dbRoles',
         dbRoles' \in [DOMAIN dbRoles' -> Role],
         DOMAIN dbRoles' \subseteq issued', issued' \subseteq RoleIds
  PROVE  TypeOK'
<1>1. copy.id \in UserIds \cup RoleIds /\ Busy(copy.id) \in BOOLEAN
  BY CopyFields DEF Busy
<1> QED
  BY <1>1 DEF Commit, TypeOK, index

\* Request w commits copy: the database then has the row that copy was read from,
\* and nothing else has changed but that a deleted role is taken from its users.
\* What has been deleted is not issued again.
Commits(w, copy) ==
  /\ Commit(w, copy)
  /\ dbUsers' \in [UserIds -> SUBSET RoleIds]
  /\ \A u \in UserIds : dbUsers'[u] \subseteq DOMAIN dbRoles'
  /\ dbRoles' \in [DOMAIN dbRoles' -> Role]
  /\ DOMAIN dbRoles' \subseteq issued' /\ issued' \subseteq RoleIds
  /\ issued \subseteq issued'
  /\ DOMAIN dbRoles' \cap issued \subseteq DOMAIN dbRoles
  /\ \A r \in RoleIds \ {copy.id} :
       /\ r \in DOMAIN dbRoles' <=> r \in DOMAIN dbRoles
       /\ r \in DOMAIN dbRoles => dbRoles'[r] = dbRoles[r]
  /\ \A u \in UserIds \ {copy.id} : dbUsers'[u] = dbUsers[u] \cap DOMAIN dbRoles'
  /\ copy.op = "user" => copy.value = dbUsers'[copy.id]
  /\ copy.op = "role" => copy.id \in DOMAIN dbRoles' /\ dbRoles'[copy.id] = copy.value
  /\ copy.op = "delete" => copy.id \in issued' \ DOMAIN dbRoles'

\* Every request does that.
LEMMA RequestCommits ==
  ASSUME TypeOK, NEW w \in Workers, NEW a \in UserIds, Request(w, a)
  PROVE  \E copy \in Copy : Commits(w, copy)
<1> USE IndexSyncAssumption DEF TypeOK
<1>1. ASSUME NEW r \in RoleIds, NEW role \in Role,
             HandleRoleAddRequest(w, a, r, role) \/ HandleRoleUpdateRequest(w, a, r, role)
      PROVE  \E copy \in Copy : Commits(w, copy)
  <2> DEFINE copy == [op |-> "role", id |-> r, value |-> role]
  <2>1. copy \in Copy /\ Commit(w, copy)
    BY <1>1 DEF HandleRoleAddRequest, HandleRoleUpdateRequest, Copy
  <2>2. /\ DOMAIN dbRoles' = DOMAIN dbRoles \cup {r} /\ dbRoles'[r] = role
        /\ \A s \in DOMAIN dbRoles \ {r} : dbRoles'[s] = dbRoles[s]
    <3>1. CASE HandleRoleAddRequest(w, a, r, role)
      BY <3>1 DEF HandleRoleAddRequest, Put
    <3>2. CASE HandleRoleUpdateRequest(w, a, r, role)
      BY <3>2 DEF HandleRoleUpdateRequest
    <3> QED
      BY <1>1, <3>1, <3>2
  <2>3. dbRoles' \in [DOMAIN dbRoles' -> Role]
    <3>1. CASE HandleRoleAddRequest(w, a, r, role)
      BY <3>1 DEF HandleRoleAddRequest, Put
    <3>2. CASE HandleRoleUpdateRequest(w, a, r, role)
      BY <3>2 DEF HandleRoleUpdateRequest
    <3> QED
      BY <1>1, <3>1, <3>2
  <2>4. /\ issued' = issued \cup {r} /\ dbUsers' = dbUsers
        /\ r \in issued => r \in DOMAIN dbRoles
    BY <1>1 DEF HandleRoleAddRequest, HandleRoleUpdateRequest
  <2>5. Commits(w, copy)
    BY <2>1, <2>2, <2>3, <2>4 DEF Commits
  <2> QED
    BY <2>1, <2>5
<1>2. ASSUME NEW r \in RoleIds, HandleRoleDeleteRequest(w, a, r)
      PROVE  \E copy \in Copy : Commits(w, copy)
  <2> DEFINE copy == [op |-> "delete", id |-> r]
  <2>1. copy \in Copy /\ Commit(w, copy)
    BY <1>2 DEF HandleRoleDeleteRequest, Copy
  <2>2. /\ r \in issued /\ issued' = issued
        /\ dbRoles' = [s \in DOMAIN dbRoles \ {r} |-> dbRoles[s]]
        /\ dbUsers' = [u \in UserIds |-> dbUsers[u] \ {r}]
    BY <1>2 DEF HandleRoleDeleteRequest
  <2>3. \A u \in UserIds : dbUsers'[u] = dbUsers[u] \cap DOMAIN dbRoles'
    BY <2>2
  <2>4. Commits(w, copy)
    BY <2>1, <2>2, <2>3 DEF Commits
  <2> QED
    BY <2>1, <2>4
<1>3. ASSUME NEW t \in UserIds, NEW to \in SUBSET DOMAIN dbRoles,
             Commit(w, [op |-> "user", id |-> t, value |-> to]),
             dbUsers' = [dbUsers EXCEPT ![t] = to], UNCHANGED <<dbRoles, issued>>
      PROVE  \E copy \in Copy : Commits(w, copy)
  <2> DEFINE copy == [op |-> "user", id |-> t, value |-> to]
  <2>1. copy \in Copy /\ Commit(w, copy)
    BY <1>3 DEF Copy
  <2>2. Commits(w, copy)
    BY <1>3, <2>1 DEF Commits
  <2> QED
    BY <2>1, <2>2
<1>4. ASSUME NEW t \in UserIds, NEW r \in RoleIds,
             HandleUserRoleAddRequest(w, a, t, r) \/ HandleUserRoleDeleteRequest(w, a, t, r)
      PROVE  \E copy \in Copy : Commits(w, copy)
  <2>1. CASE ChangeRoles(w, a, t, r, dbUsers[t] \cup {r})
    <3>1. dbUsers[t] \cup {r} \in SUBSET DOMAIN dbRoles
      BY <2>1 DEF ChangeRoles
    <3> QED
      BY <1>3, <2>1, <3>1 DEF ChangeRoles
  <2>2. CASE ChangeRoles(w, a, t, r, dbUsers[t] \ {r})
    <3>1. dbUsers[t] \ {r} \in SUBSET DOMAIN dbRoles
      BY <2>2 DEF ChangeRoles
    <3> QED
      BY <1>3, <2>2, <3>1 DEF ChangeRoles
  <2> QED
    BY <1>4, <2>1, <2>2 DEF HandleUserRoleAddRequest, HandleUserRoleDeleteRequest
<1>5. CASE FinalizeUserUpdateRequest(w, a)
  <2>1. dbUsers[a] \in SUBSET DOMAIN dbRoles /\ dbUsers' = [dbUsers EXCEPT ![a] = dbUsers[a]]
    BY <1>5 DEF FinalizeUserUpdateRequest, db
  <2> QED
    BY <1>3, <1>5, <2>1 DEF FinalizeUserUpdateRequest, db
<1> QED
  BY <1>1, <1>2, <1>4, <1>5 DEF Request

\* The copies into the index keep the types.
LEMMA CopyType ==
  ASSUME TypeOK, NEW w \in Workers, UpdateUser(w) \/ PutRole(w) \/ DeleteRole(w)
  PROVE  TypeOK'
<1> USE DEF TypeOK
<1>1. pending[w] \in Copy
  BY DEF UpdateUser, PutRole, DeleteRole
<1>2. pending' \in [Workers -> Copy \cup {None}] /\ UNCHANGED <<db, raced>>
  BY DEF UpdateUser, PutRole, DeleteRole, Done
<1>3. CASE UpdateUser(w)
  <2>1. Granted(pending[w].value, roles) \in SUBSET PermissionAll
    BY GrantedType
  <2> QED
    BY <1>1, <1>2, <1>3, <2>1, CopyFields DEF UpdateUser, db
<1>4. CASE PutRole(w)
  <2>1. /\ pending[w].id \in RoleIds /\ pending[w].value \in Role
    BY <1>1, <1>4, CopyFields, IndexSyncAssumption DEF PutRole
  <2>2. roles' \in [DOMAIN roles' -> Role] /\ DOMAIN roles' \subseteq RoleIds
    BY <1>4, <2>1 DEF PutRole, Put
  <2> QED
    BY <1>2, <1>4, <2>2 DEF PutRole, Holders, db
<1>5. CASE DeleteRole(w)
  BY <1>2, <1>5 DEF DeleteRole, Holders, db
<1> QED
  BY <1>3, <1>4, <1>5

LEMMA NextType == TypeOK /\ [Next]_vars => TypeOK'
<1> SUFFICES ASSUME TypeOK, [Next]_vars PROVE TypeOK'
  OBVIOUS
<1>1. CASE UNCHANGED vars
  BY <1>1 DEF vars, db, index, TypeOK
<1>2. ASSUME NEW w \in Workers, NEW a \in UserIds, Request(w, a)
      PROVE  TypeOK'
  <2>1. PICK copy \in Copy : Commits(w, copy)
    BY <1>2, RequestCommits
  <2> QED
    BY <2>1, CommitType DEF Commits
<1> QED
  BY <1>1, <1>2, CopyType DEF Next

\* Every variable keeps its type.  Above all, nobody has a role in the database that
\* does not exist: a deletion takes the role from everyone with it (the schema's ON
\* DELETE CASCADE), and what is given away is looked up in the same transaction.
THEOREM IndexSyncTypeCorrect == Spec => []TypeOK
BY InitType, NextType, PTL DEF Spec
-----------------------------------------------------------------------------
(* The index follows the database.                                         *)

Holds(w, x) == pending[w] # None /\ pending[w].id = x

\* The copy is what the database has now.
Current(copy) ==
  /\ copy.op = "user" => copy.value \cap DOMAIN dbRoles = dbUsers[copy.id]
  /\ copy.op = "role" => copy.id \in DOMAIN dbRoles /\ dbRoles[copy.id] = copy.value
  /\ copy.op = "delete" => copy.id \notin DOMAIN dbRoles

\* The index has what the database has for row x.
RowAgrees(x) ==
  /\ x \in RoleIds => /\ x \in DOMAIN roles <=> x \in DOMAIN dbRoles
                      /\ x \in DOMAIN roles => roles[x] = dbRoles[x]
  /\ x \in UserIds => users[x] \cap DOMAIN dbRoles = dbUsers[x]

\* A row whose last commit was not made during another is on its way in one copy at
\* most, and that one is current.  A role that is not issued yet is in no list, so a
\* new role does not make an old list say more.
AgreeInv ==
  /\ \A u \in UserIds : users[u] \subseteq issued
  /\ \A w \in Workers : pending[w] # None /\ pending[w].op = "user" => pending[w].value \subseteq issued
  /\ \A x \in UserIds \cup RoleIds : ~raced[x] =>
       /\ \A v, w \in Workers : Holds(v, x) /\ Holds(w, x) => v = w
       /\ \A w \in Workers : Holds(w, x) => Current(pending[w])
       /\ ~Busy(x) => RowAgrees(x)

\* A commit keeps it: the row's own copy is new, and what it does to the other rows
\* does not show in their copies.
LEMMA CommitAgrees ==
  ASSUME TypeOK, AgreeInv, NEW w \in Workers, NEW copy \in Copy, Commits(w, copy)
  PROVE  AgreeInv'
<1> USE DEF TypeOK, Busy, Holds
<1>1. /\ pending[w] = None /\ copy # None
      /\ pending'[w] = copy /\ \A v \in Workers \ {w} : pending'[v] = pending[v]
      /\ raced'[copy.id] = Busy(copy.id)
      /\ \A x \in (UserIds \cup RoleIds) \ {copy.id} : raced'[x] = raced[x]
      /\ UNCHANGED <<users, roles>>
      /\ copy.id \in UserIds \cup RoleIds
  BY NoneAssumption, CopyFields DEF Commits, Commit, index
<1>2. /\ issued \subseteq issued'
      /\ \A u \in UserIds : users'[u] \subseteq issued'
      /\ \A v \in Workers : pending'[v] # None /\ pending'[v].op = "user"
                            => pending'[v].value \subseteq issued'
  <2>1. copy.op = "user" => copy.value \subseteq issued'
    BY CopyFields DEF Commits
  <2>2. issued \subseteq issued'
    BY DEF Commits
  <2> QED
    BY <1>1, <2>1, <2>2 DEF AgreeInv
<1>3. Current(copy)'
  <2>1. copy.op = "user" => dbUsers'[copy.id] \subseteq DOMAIN dbRoles'
    BY CopyFields DEF Commits
  <2> QED
    BY <2>1 DEF Commits, Current
<1>4. ASSUME NEW x \in (UserIds \cup RoleIds) \ {copy.id},
             NEW v \in Workers, Holds(v, x), Current(pending[v])
      PROVE  Current(pending[v])'
  <2>1. v # w /\ pending'[v] = pending[v] /\ pending[v] \in Copy /\ pending[v].id = x
    BY <1>1, <1>4
  <2>2. CASE pending[v].op = "user"
    <3>1. x \in UserIds /\ pending[v].value \subseteq issued
      BY <2>1, <2>2, <1>4, CopyFields DEF AgreeInv
    <3>2. pending[v].value \cap DOMAIN dbRoles' = dbUsers'[x]
      BY <1>4, <2>1, <2>2, <3>1 DEF Commits, Current
    <3> QED
      BY <2>1, <2>2, <3>2 DEF Current
  <2>3. CASE pending[v].op \in {"role", "delete"}
    <3>1. x \in RoleIds \ {copy.id}
      BY <2>1, <2>3, CopyFields
    <3> QED
      BY <1>4, <2>1, <2>3, <3>1 DEF Commits, Current
  <2> QED
    BY <2>1, <2>2, <2>3, CopyFields
<1>5. ASSUME NEW x \in (UserIds \cup RoleIds) \ {copy.id}, RowAgrees(x)
      PROVE  RowAgrees(x)'
  <2>1. CASE x \in RoleIds
    BY <1>1, <1>5, <2>1, IndexSyncAssumption DEF Commits, RowAgrees
  <2>2. CASE x \in UserIds
    <3>1. users[x] \subseteq issued
      BY <2>2 DEF AgreeInv
    <3> QED
      BY <1>1, <1>5, <2>2, <3>1, IndexSyncAssumption DEF Commits, RowAgrees
  <2> QED
    BY <2>1, <2>2
<1>6. ASSUME NEW x \in UserIds \cup RoleIds, ~raced'[x]
      PROVE  /\ \A u, v \in Workers : Holds(u, x)' /\ Holds(v, x)' => u = v
             /\ \A v \in Workers : Holds(v, x)' => Current(pending[v])'
             /\ ~Busy(x)' => RowAgrees(x)'
  <2>1. CASE x = copy.id
    <3>1. \A v \in Workers \ {w} : ~Holds(v, x)'
      BY <1>1, <1>6, <2>1
    <3>2. Holds(w, x)' /\ Current(pending[w])'
      BY <1>1, <1>3, <2>1 DEF Current
    <3> QED
      BY <3>1, <3>2
  <2>2. CASE x # copy.id
    <3>1. ~raced[x]
      BY <1>1, <1>6, <2>2
    <3>2. \A v \in Workers : Holds(v, x)' <=> Holds(v, x)
      BY <1>1, <2>2
    <3>3. Busy(x)' <=> Busy(x)
      BY <3>2
    <3>4. \A v \in Workers : Holds(v, x) => Current(pending[v])'
      BY <1>4, <2>2, <3>1 DEF AgreeInv
    <3>5. ~Busy(x) => RowAgrees(x)'
      BY <1>5, <2>2, <3>1 DEF AgreeInv
    <3> QED
      BY <3>1, <3>2, <3>3, <3>4, <3>5 DEF AgreeInv
  <2> QED
    BY <2>1, <2>2
<1> QED
  BY <1>2, <1>6 DEF AgreeInv

\* Putting a copy in the index keeps it: the row then agrees if the copy was the
\* row's only one.
LEMMA CopyAgrees ==
  ASSUME TypeOK, AgreeInv, NEW w \in Workers, UpdateUser(w) \/ PutRole(w) \/ DeleteRole(w)
  PROVE  AgreeInv'
<1> USE DEF TypeOK, Busy, Holds
<1> DEFINE copy == pending[w]
<1>1. /\ copy \in Copy /\ copy # None
      /\ pending'[w] = None /\ \A v \in Workers \ {w} : pending'[v] = pending[v]
      /\ UNCHANGED <<dbUsers, dbRoles, issued, raced>>
  BY DEF UpdateUser, PutRole, DeleteRole, Done, db
<1>2. PICK y \in UserIds \cup RoleIds : y = copy.id
  BY <1>1, CopyFields
<1>3. /\ \A x \in RoleIds \ {y} : /\ x \in DOMAIN roles' <=> x \in DOMAIN roles
                                  /\ x \in DOMAIN roles => roles'[x] = roles[x]
      /\ \A x \in UserIds \ {y} : users'[x] = users[x]
  BY <1>1, <1>2 DEF UpdateUser, PutRole, DeleteRole, Put
<1>4. \A u \in UserIds : users'[u] \subseteq issued'
  <2>1. CASE UpdateUser(w)
    BY <1>1, <2>1 DEF UpdateUser, AgreeInv
  <2>2. CASE PutRole(w) \/ DeleteRole(w)
    BY <1>1, <2>2 DEF PutRole, DeleteRole, AgreeInv
  <2> QED
    BY <2>1, <2>2
<1>5. Current(copy) => RowAgrees(y)'
  <2>1. CASE UpdateUser(w)
    <3>1. y \in UserIds /\ y \notin RoleIds /\ users'[y] = copy.value /\ copy.op = "user"
      BY <1>1, <1>2, <2>1, CopyFields, IndexSyncAssumption DEF UpdateUser
    <3> QED
      BY <1>1, <1>2, <3>1 DEF Current, RowAgrees
  <2>2. CASE PutRole(w)
    <3>1. /\ y \in RoleIds /\ y \notin UserIds /\ copy.op = "role"
          /\ y \in DOMAIN roles' /\ roles'[y] = copy.value
      BY <1>1, <1>2, <2>2, CopyFields, IndexSyncAssumption DEF PutRole, Put
    <3> QED
      BY <1>1, <1>2, <3>1 DEF Current, RowAgrees
  <2>3. CASE DeleteRole(w)
    <3>1. y \in RoleIds /\ y \notin UserIds /\ copy.op = "delete" /\ y \notin DOMAIN roles'
      BY <1>1, <1>2, <2>3, CopyFields, IndexSyncAssumption DEF DeleteRole
    <3> QED
      BY <1>1, <1>2, <3>1 DEF Current, RowAgrees
  <2> QED
    BY <2>1, <2>2, <2>3
<1>6. ASSUME NEW x \in UserIds \cup RoleIds, ~raced'[x]
      PROVE  /\ \A u, v \in Workers : Holds(u, x)' /\ Holds(v, x)' => u = v
             /\ \A v \in Workers : Holds(v, x)' => Current(pending[v])'
             /\ ~Busy(x)' => RowAgrees(x)'
  <2>1. ~raced[x]
    BY <1>1, <1>6
  <2>2. \A v \in Workers : Holds(v, x)' => Holds(v, x) /\ v # w
    BY <1>1
  <2>3. \A v \in Workers \ {w} : Current(pending[v]) => Current(pending[v])'
    BY <1>1 DEF Current
  <2>4. ~Busy(x)' => RowAgrees(x)'
    <3>1. CASE x = y
      BY <1>1, <1>2, <1>5, <2>1, <3>1 DEF AgreeInv
    <3>2. CASE x # y
      <4>1. Busy(x)' <=> Busy(x)
        BY <1>1, <1>2, <3>2
      <4>2. RowAgrees(x) => RowAgrees(x)'
        BY <1>1, <1>3, <3>2 DEF RowAgrees
      <4> QED
        BY <2>1, <4>1, <4>2 DEF AgreeInv
    <3> QED
      BY <3>1, <3>2
  <2> QED
    BY <2>1, <2>2, <2>3, <2>4 DEF AgreeInv
<1>7. \A v \in Workers : pending'[v] # None /\ pending'[v].op = "user"
                         => pending'[v].value \subseteq issued'
  BY <1>1 DEF AgreeInv
<1> QED
  BY <1>4, <1>6, <1>7 DEF AgreeInv

LEMMA InitAgrees == Init => AgreeInv
<1> SUFFICES ASSUME Init PROVE AgreeInv
  OBVIOUS
<1>1. \A u \in UserIds : dbUsers[u] \subseteq DOMAIN dbRoles
  BY DEF Init
<1> QED
  BY <1>1 DEF Init, AgreeInv, Holds, Busy, RowAgrees

LEMMA NextAgrees == TypeOK /\ AgreeInv /\ [Next]_vars => AgreeInv'
<1> SUFFICES ASSUME TypeOK, AgreeInv, [Next]_vars PROVE AgreeInv'
  OBVIOUS
<1>1. CASE UNCHANGED vars
  BY <1>1 DEF vars, db, index, AgreeInv, Holds, Busy, Current, RowAgrees
<1>2. ASSUME NEW w \in Workers, NEW a \in UserIds, Request(w, a)
      PROVE  AgreeInv'
  BY <1>2, RequestCommits, CommitAgrees
<1> QED
  BY <1>1, <1>2, CopyAgrees DEF Next

\* The index ends up with what the database has for every user and role whose last
\* two changes did not overlap, however the copies of the others are delayed and
\* overtake one another (handlers.go:860-863, 1109-1112).
THEOREM IndexSyncAgrees == Spec => []IndexAgrees
<1>1. ASSUME AgreeInv PROVE IndexAgrees
  BY <1>1 DEF AgreeInv, IndexAgrees, Settled, RowAgrees
<1> QED
  BY <1>1, InitType, NextType, InitAgrees, NextAgrees, PTL DEF Spec

-----------------------------------------------------------------------------
(* Cached permissions.                                                     *)

\* The info of a user whose roles have not changed since is computed from them.
InfoInv ==
  \A u \in UserIds \ dated : infos[u] = Granted(users[u], roles)

LEMMA InfoCopies ==
  ASSUME TypeOK, InfoInv, NEW w \in Workers, UpdateUser(w) \/ PutRole(w) \/ DeleteRole(w)
  PROVE  InfoInv'
<1> USE DEF TypeOK, InfoInv
<1>1. CASE UpdateUser(w)
  BY <1>1, CopyFields DEF UpdateUser
<1>2. CASE PutRole(w) \/ DeleteRole(w)
  <2> SUFFICES ASSUME NEW u \in UserIds \ dated'
               PROVE  infos'[u] = Granted(users'[u], roles')
    OBVIOUS
  <2>1. UNCHANGED <<users, infos>> /\ u \notin dated /\ pending[w].id \notin users[u]
    BY <1>2 DEF PutRole, DeleteRole, Holders
  <2>2. users[u] \cap DOMAIN roles' = users[u] \cap DOMAIN roles
    BY <1>2, <2>1 DEF PutRole, DeleteRole, Put
  <2>3. \A r \in users[u] \cap DOMAIN roles : roles'[r] = roles[r]
    BY <1>2, <2>1 DEF PutRole, DeleteRole, Put
  <2>4. {roles'[r].perms : r \in users[u] \cap DOMAIN roles'}
        = {roles[r].perms : r \in users[u] \cap DOMAIN roles}
    BY <2>2, <2>3
  <2> QED
    BY <2>1, <2>4 DEF Granted
<1> QED
  BY <1>1, <1>2

\* Whether an event reaches a user is decided like the user's own request, once the
\* copies of the user's row and of those of the user's roles are in the index, for
\* users whose roles have not changed since their info was computed
\* (index.go:522-543 recompute no info).
THEOREM IndexSyncPermissionsAgree == Spec => []PermissionsAgree
<1> DEFINE I == TypeOK /\ AgreeInv /\ InfoInv
<1>1. Init => I
  BY InitType, InitAgrees DEF Init, InfoInv
<1>2. I /\ [Next]_vars => I'
  <2> SUFFICES ASSUME TypeOK, InfoInv, [Next]_vars
               PROVE  InfoInv'
    BY NextType, NextAgrees
  <2>1. ASSUME NEW w \in Workers, NEW a \in UserIds, Request(w, a)
        PROVE  InfoInv'
    BY <2>1, RequestCommits DEF Commits, Commit, index, InfoInv
  <2>2. CASE UNCHANGED vars
    BY <2>2 DEF vars, index, InfoInv
  <2> QED
    BY <2>1, <2>2, InfoCopies DEF Next
<1>3. ASSUME I PROVE PermissionsAgree
  <2> SUFFICES ASSUME NEW u \in UserIds, Settled(u), u \notin dated,
                      \A r \in users[u] : Settled(r) /\ r \in DOMAIN dbRoles
               PROVE  IndexPermissions(u) = TxPermissions(u)
    BY DEF PermissionsAgree
  <2>1. users[u] = dbUsers[u]
    BY <1>3 DEF AgreeInv, Settled, RowAgrees, TypeOK
  <2>2. \A r \in users[u] : r \in DOMAIN roles /\ roles[r] = dbRoles[r]
    BY <1>3 DEF AgreeInv, Settled, RowAgrees, TypeOK
  <2>3. {roles[r].perms : r \in users[u] \cap DOMAIN roles}
        = {dbRoles[r].perms : r \in dbUsers[u] \cap DOMAIN dbRoles}
    BY <2>1, <2>2
  <2>4. infos[u] = Granted(dbUsers[u], dbRoles)
    BY <1>3, <2>1, <2>3 DEF InfoInv, Granted
  <2> QED
    BY <2>1, <2>4 DEF IndexPermissions, TxPermissions
<1> QED
  BY <1>1, <1>2, <1>3, PTL DEF Spec

-----------------------------------------------------------------------------
(* Ranks.                                                                  *)

\* The positions of a user's roles, and the rank of a user who has none.
Positions(us, rs, u) == {rs[r].pos : r \in us[u]} \cup {NoRank}

LEMMA RankFacts ==
  ASSUME NEW rs, rs \in [DOMAIN rs -> Role], NEW us, NEW u, us[u] \subseteq DOMAIN rs
  PROVE  /\ Rank(us, rs, u) \in Positions(us, rs, u)
         /\ \A p \in Positions(us, rs, u) : Rank(us, rs, u) <= p
         /\ Positions(us, rs, u) \subseteq Int
<1>1. Positions(us, rs, u) \in SUBSET ((-NoRank - 1)..NoRank) /\ Positions(us, rs, u) # {}
  BY IndexSyncAssumption DEF Positions
<1>2. NoRank \in Nat
  BY IndexSyncAssumption
<1>3. Rank(us, rs, u) = Min(Positions(us, rs, u))
  BY DEF Rank, Positions
<1>4. (-NoRank - 1)..NoRank \subseteq Int
  BY <1>2
<1> QED
  BY <1>1, <1>2, <1>3, <1>4, MinFacts

\* One role given or taken, of a position worse than n: a rank worse than n stays
\* so, and a rank of n stays n.
LEMMA RankMoves ==
  ASSUME TypeOK, NEW t \in UserIds, NEW r \in DOMAIN dbRoles, NEW n \in Int, dbRoles[r].pos > n,
         NEW us, us[t] = dbUsers[t] \cup {r} \/ us[t] = dbUsers[t] \ {r}
  PROVE  /\ Rank(dbUsers, dbRoles, t) > n => Rank(us, dbRoles, t) > n
         /\ Rank(dbUsers, dbRoles, t) = n => Rank(us, dbRoles, t) = n
<1> DEFINE P == Positions(dbUsers, dbRoles, t)
           Q == Positions(us, dbRoles, t)
<1>1. /\ Rank(dbUsers, dbRoles, t) \in P /\ P \subseteq Int
      /\ \A p \in P : Rank(dbUsers, dbRoles, t) <= p
  BY RankFacts DEF TypeOK
<1>2. /\ Rank(us, dbRoles, t) \in Q /\ Q \subseteq Int
      /\ \A p \in Q : Rank(us, dbRoles, t) <= p
  <2>1. us[t] \subseteq DOMAIN dbRoles
    BY DEF TypeOK
  <2> QED
    BY <2>1, RankFacts DEF TypeOK
<1>3. Q \subseteq P \cup {dbRoles[r].pos} /\ P \subseteq Q \cup {dbRoles[r].pos}
  BY DEF Positions
<1>4. dbRoles[r].pos \in Int
  BY IndexSyncAssumption DEF TypeOK
<1> DEFINE p == Rank(dbUsers, dbRoles, t)
           q == Rank(us, dbRoles, t)
           x == dbRoles[r].pos
<1>5. /\ p \in P /\ P \subseteq Int /\ \A y \in P : p <= y
      /\ q \in Q /\ Q \subseteq Int /\ \A y \in Q : q <= y
      /\ Q \subseteq P \cup {x} /\ P \subseteq Q \cup {x}
      /\ x \in Int /\ x > n
  BY <1>1, <1>2, <1>3, <1>4
<1> HIDE DEF P, Q, p, q, x
<1>6. ASSUME p > n PROVE q > n
  BY <1>5, <1>6
<1>7. ASSUME p = n PROVE q = n
  <2>1. n \in Q
    BY <1>5, <1>7
  <2>2. \A y \in Q : n <= y
    BY <1>5, <1>7
  <2>3. n <= q /\ q <= n /\ q \in Int
    BY <1>5, <2>1, <2>2
  <2> QED
    BY <2>3
<1> QED
  BY <1>6, <1>7 DEF p, q

\* Whoever is moved to another rank by a role given or taken was behind the one who
\* gives or takes it and stays behind, and nobody moves themselves
\* (handlers.go:1084-1094, 1185-1195).  It says nothing of requests that change the
\* position of a role or delete it: they compare no ranks.
THEOREM IndexSyncRanksKept == Spec => RanksKept
<1> DEFINE Kept(u, a) ==
      LET rank  == Rank(dbUsers, dbRoles, u)
          after == Rank(dbUsers, dbRoles, u)'
      IN rank # after => /\ rank > Rank(dbUsers, dbRoles, a)
                         /\ after > Rank(dbUsers, dbRoles, a)
<1>1. ASSUME TypeOK, NEW w \in Workers, NEW a \in UserIds, NEW t \in UserIds, NEW r \in RoleIds,
             HandleUserRoleAddRequest(w, a, t, r) \/ HandleUserRoleDeleteRequest(w, a, t, r),
             NEW u \in UserIds
      PROVE  Kept(u, a)
  <2> DEFINE n == Rank(dbUsers, dbRoles, a)
  <2>1. PICK to : /\ to = dbUsers[t] \cup {r} \/ to = dbUsers[t] \ {r}
                  /\ ChangeRoles(w, a, t, r, to)
    BY <1>1 DEF HandleUserRoleAddRequest, HandleUserRoleDeleteRequest
  <2>2. /\ r \in DOMAIN dbRoles /\ dbRoles' = dbRoles
        /\ dbUsers' = [dbUsers EXCEPT ![t] = to]
        /\ t # a => Rank(dbUsers, dbRoles, t) > n
        /\ dbRoles[r].pos > n
    BY <2>1 DEF ChangeRoles, Outranks
  <2>3. n \in Int
    BY <1>1, RankFacts DEF TypeOK
  <2>4. CASE u = t
    <3>1. /\ Rank(dbUsers, dbRoles, t) > n => Rank(dbUsers', dbRoles, t) > n
          /\ Rank(dbUsers, dbRoles, t) = n => Rank(dbUsers', dbRoles, t) = n
      <4>1. PICK us : us = dbUsers'
        OBVIOUS
      <4>2. us[t] = dbUsers[t] \cup {r} \/ us[t] = dbUsers[t] \ {r}
        BY <1>1, <2>1, <2>2, <4>1 DEF TypeOK
      <4>3. /\ Rank(dbUsers, dbRoles, t) > n => Rank(us, dbRoles, t) > n
            /\ Rank(dbUsers, dbRoles, t) = n => Rank(us, dbRoles, t) = n
        BY <1>1, <2>2, <2>3, <4>2, RankMoves
      <4> QED
        BY <4>1, <4>3
    <3> QED
      BY <2>2, <2>4, <3>1
  <2>5. CASE u # t
    <3>1. dbUsers'[u] = dbUsers[u]
      BY <1>1, <2>2, <2>5 DEF TypeOK
    <3> QED
      BY <2>2, <3>1 DEF Rank
  <2> QED
    BY <2>4, <2>5
<1> DEFINE A == dbUsers' # dbUsers => \A w \in Workers, a, t \in UserIds, r \in RoleIds :
                  \/ HandleUserRoleAddRequest(w, a, t, r)
                  \/ HandleUserRoleDeleteRequest(w, a, t, r)
                  => \A u \in UserIds : Kept(u, a)
<1>2. TypeOK /\ [Next]_vars => [A]_vars
  <2> HIDE DEF Kept
  <2> QED
    BY <1>1
<1> HIDE DEF A
<1>3. Spec => [][A]_vars
  BY <1>2, InitType, NextType, PTL DEF Spec
<1> QED
  BY <1>3 DEF RanksKept, A
=============================================================================
