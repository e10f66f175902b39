------------------------------ MODULE UserIndex ------------------------------
(***************************************************************************)
(* The in-memory index of users and roles and the user list it keeps for   *)
(* the clients' sidebar (chat/index.go), with the goroutine that rebuilds  *)
(* the list when it is stale and the one that takes the recorded changes   *)
(* to push them (StartGateway).                                            *)
(*                                                                         *)
(* The list is kept in two ways: UpdateUser moves one user at once         *)
(* (RepositionUser), everything else marks the list Stale and the rebuild  *)
(* goroutine computes it afresh (UpdateUserList), under RLock, and stores  *)
(* it later under Lock: other operations run in between.                   *)
(*                                                                         *)
(* A display name is its rank in the string order.  processUser makes      *)
(* every user offline, so a user without a hoisted role is in the Offline  *)
(* group.  View positions count from 1 here.                               *)
(***************************************************************************)
EXTENDS Integers, FiniteSets, SequencesExt

CONSTANTS UserIds,     \* numbers: IDs are compared
          RoleIds,     \* numbers
          Names,       \* numbers: display names in their order
          Positions,   \* numbers a role's Position may be
          Rosters,     \* sets of users that may be in the database at start
          Ops,         \* the requests clients make, of OpNames
          Backlog      \* bound: ranges recorded before the push goroutine runs

NoRole  == 0
Offline == 1     \* UserPresenceOffline, as a group
Online  == 2     \* UserPresenceOnline

OpNames == {"AddUser", "UpdateUser", "AddRole", "UpdateRole", "DeleteRole"}

ASSUME UserIndexAssumption ==
  /\ UserIds \subseteq Nat /\ RoleIds \subseteq Nat
  /\ IsFiniteSet(UserIds) /\ IsFiniteSet(RoleIds)
  /\ Names \subseteq Nat /\ Positions \subseteq Nat
  /\ UserIds \cap RoleIds = {}
  /\ {NoRole, Offline, Online} \cap (UserIds \cup RoleIds) = {}
  /\ Rosters \subseteq SUBSET UserIds
  /\ Ops \subseteq OpNames
  /\ Backlog \in Nat \ {0}

VARIABLES
  users,     \* Users: ID -> [name, roles]
  hoist,     \* UserInfos: ID -> Hoist
  roles,     \* Roles: ID -> [pos, hoisted]
  list,      \* List: [order (GroupOrder), groups (Groups), view (View)]
  stale,     \* Stale
  changes,   \* Changes, as a set: it is only searched for an overlap
  next,      \* what UpdateUserList has computed and not yet stored
  diff,      \* the changes it computed
  building,  \* UpdateUserList is between RUnlock and Lock
  raced      \* history: an operation ran in that gap, in the latest rebuild

data  == <<users, hoist, roles>>
build == <<next, diff, building>>
vars  == <<data, list, stale, changes, build, raced>>

User  == [name : Names, roles : SUBSET RoleIds]
Role  == [pos : Positions, hoisted : BOOLEAN]

-----------------------------------------------------------------------------
(* computeUserInfo and getUserGroup.                                       *)

\* The hoisted role of best (lowest) position; of several at that position the
\* first in the user's role list, which is any of them.
Hoists(user, rs) ==
  LET hoisted == {r \in user.roles \cap DOMAIN rs : rs[r].hoisted}
  IN IF hoisted = {} THEN {NoRole}
     ELSE {r \in hoisted : \A s \in hoisted : rs[r].pos <= rs[s].pos}

Group(h) == IF h # NoRole THEN h ELSE Offline

\* Members of a group are ordered by display name, then by ID.
Before(us, a, b) ==
  us[a].name < us[b].name \/ (us[a].name = us[b].name /\ a < b)

IsInOrder(us, s) == \A i, j \in DOMAIN s : i < j => Before(us, s[i], s[j])

\* sort.Slice on a group.
InOrder(us, ids) ==
  CHOOSE s \in [1 .. Cardinality(ids) -> ids] : Range(s) = ids /\ IsInOrder(us, s)

-----------------------------------------------------------------------------
(* UpdateUserList.                                                         *)

\* GroupOrder: hoisted roles by position (ties in any order), then Online and
\* Offline.
GroupOrders(rs) ==
  LET hoisted == {r \in DOMAIN rs : rs[r].hoisted}
      sorted  == {s \in [1 .. Cardinality(hoisted) -> hoisted] :
                    /\ Range(s) = hoisted
                    /\ \A i, j \in DOMAIN s : i < j => rs[s[i]].pos <= rs[s[j]].pos}
  IN {s \o <<Online, Offline>> : s \in sorted}

\* Groups: every group of the order, and one that is not in the order for each
\* Hoist that names a role no longer hoisted.  Its members are not displayed, and
\* in the code not sorted either: no view depends on their order.
SortedGroups(us, ho, order) ==
  [g \in Range(order) \cup {Group(ho[u]) : u \in DOMAIN us} |->
     InOrder(us, {u \in DOMAIN us : Group(ho[u]) = g})]

MakeView(order, groups) ==
  LET upto[n \in 0 .. Len(order)] ==
        IF n = 0 THEN <<>> ELSE upto[n - 1] \o <<order[n]>> \o groups[order[n]]
  IN upto[Len(order)]

MakeList(us, ho, order) ==
  LET groups == SortedGroups(us, ho, order)
  IN [order |-> order, groups |-> groups, view |-> MakeView(order, groups)]

NoList == [order |-> <<>>, groups |-> <<>>, view |-> <<>>]

IndexRange(from, to) == [From |-> from, To |-> to]

Overlaps(a, b) ==
  /\ a.From < a.To /\ b.From < b.To
  /\ a.From < b.To /\ b.From < a.To

\* Mutant: a run that reaches the end of the view is not closed.
DiffOpen(old, new) ==
  LET changed == {i \in DOMAIN old : i > Len(new) \/ old[i] # new[i]}
  IN {r \in [From : changed, To : DOMAIN old] :
        /\ r.From < r.To
        /\ r.From .. r.To - 1 \subseteq changed
        /\ r.From - 1 \notin changed /\ r.To \notin changed}

\* The maximal runs of positions of the old view whose content changes, and,
\* when the last position is in none and the view grows, the range from the old
\* length to the old length.
Diff(old, new) ==
  LET changed == {i \in DOMAIN old : i > Len(new) \/ old[i] # new[i]}
      end     == Len(old) + 1
  IN {r \in [From : changed, To : 2 .. end] :
        /\ r.From < r.To
        /\ r.From .. r.To - 1 \subseteq changed
        /\ r.From - 1 \notin changed /\ r.To \notin changed}
     \cup {r \in {IndexRange(end, end)} : Len(old) \notin changed /\ Len(new) > Len(old)}

-----------------------------------------------------------------------------
(* RepositionUser.                                                         *)

\* One round of sort.Search, the binary search of the Go library: id goes at
\* between[1] or behind, and not behind between[2].
Halve(us, group, id, between) ==
  LET i == between[1]
      j == between[2]
      h == (i + j) \div 2
  IN IF i >= j THEN between
     ELSE IF Before(us, id, group[h + 1]) THEN <<i, h>> ELSE <<h + 1, j>>

\* How many members of the group id goes behind, when the group is in order: as many
\* rounds as it has members are enough.
Search(us, group, id) ==
  LET round[n \in 0 .. Len(group)] ==
        IF n = 0 THEN <<0, Len(group)>> ELSE Halve(us, group, id, round[n - 1])
  IN round[Len(group)][1]

PosIn(view, id) == IF id \in Range(view) THEN CHOOSE i \in DOMAIN view : view[i] = id
                                          ELSE 0

Without(group, id) ==
  IF id \in Range(group) THEN RemoveAt(group, PosIn(group, id)) ELSE group

\* What a map is after the entry of k is set to v.
Put(f, k, v) == [x \in DOMAIN f \cup {k} |-> IF x = k THEN v ELSE f[x]]

Holds(l, g, id) == id \in Range(l.groups[g])

\* Mutant: the user is not taken out of the old group.
MovedTwice(l, us, h, id) ==
  LET g       == Group(h)
      members == IF g \in DOMAIN l.groups THEN l.groups[g] ELSE <<>>
      groups  == Put(l.groups, g, InsertAt(members, Search(us, members, id) + 1, id))
  IN [l EXCEPT !.groups = groups, !.view = MakeView(l.order, groups)]

\* Mutant: the user is put at the end of the new group.
MovedLast(l, us, h, id) ==
  LET g       == Group(h)
      without == [x \in DOMAIN l.groups |-> Without(l.groups[x], id)]
      members == IF g \in DOMAIN without THEN without[g] ELSE <<>>
      groups  == Put(without, g, Append(members, id))
  IN [l EXCEPT !.groups = groups, !.view = MakeView(l.order, groups)]

\* The list after user id, now in the group of h, was moved in it.
Moved(l, us, h, id) ==
  LET g       == Group(h)
      without == [x \in DOMAIN l.groups |-> Without(l.groups[x], id)]
      members == IF g \in DOMAIN without THEN without[g] ELSE <<>>
      groups  == Put(without, g, InsertAt(members, Search(us, members, id) + 1, id))
  IN [l EXCEPT !.groups = groups, !.view = MakeView(l.order, groups)]

\* Mutant: the position the user ends at is left out of the range.
MoveRangeShort(old, new, id) ==
  LET a == PosIn(old, id)
      b == PosIn(new, id)
  IN IF b = 0 THEN {} ELSE {IndexRange(IF a < b THEN a ELSE b, IF a < b THEN b ELSE a)}

\* Mutant: the two places are not put in order.
MoveRangeUnordered(old, new, id) ==
  LET a == PosIn(old, id)
      b == PosIn(new, id)
  IN IF b = 0 THEN {} ELSE {IndexRange(a, b + 1)}

\* The range between the two places of the user, both included; nothing when
\* the user's new group is not displayed.  (A user that was not displayed
\* before is at position -1 in the code, one before the first.)
MoveRange(old, new, id) ==
  LET a == PosIn(old, id)
      b == PosIn(new, id)
  IN IF b = 0 THEN {}
     ELSE {IndexRange(IF a < b THEN a ELSE b, (IF a < b THEN b ELSE a) + 1)}

-----------------------------------------------------------------------------
\* Build: PopulateIndex, UpdateUserInfos and SortUserList.
Init ==
  /\ \E Present \in Rosters : users \in [Present -> User]
  /\ \E rs \in SUBSET RoleIds : roles \in [rs -> Role]
  /\ \A u \in DOMAIN users : users[u].roles \subseteq DOMAIN roles
  /\ hoist \in [DOMAIN users -> RoleIds \cup {NoRole}]
  /\ \A u \in DOMAIN users : hoist[u] \in Hoists(users[u], roles)
  /\ \E order \in GroupOrders(roles) : list = MakeList(users, hoist, order)
  /\ stale = FALSE
  /\ changes = {}
  /\ next = NoList
  /\ diff = {}
  /\ building = FALSE
  /\ raced = FALSE

Race == raced' = (raced \/ building)

\* The bound on Changes.  No step but PopAllChanges reads them, so that it comes
\* first now and then loses no behaviour of the rest.
Room == Cardinality(changes) < Backlog

\* Mutant: the list is not marked stale.
AddUserQuietly(u, name) ==
  /\ "AddUser" \in Ops
  /\ u \notin DOMAIN users
  /\ users' = Put(users, u, [name |-> name, roles |-> {}])
  /\ hoist' = Put(hoist, u, NoRole)
  /\ Race
  /\ UNCHANGED <<roles, list, stale, changes, build>>

\* AddUser, after a registration: the new user has no roles.
AddUser(u, name) ==
  /\ "AddUser" \in Ops
  /\ u \notin DOMAIN users
  /\ users' = Put(users, u, [name |-> name, roles |-> {}])
  /\ hoist' = Put(hoist, u, NoRole)
  /\ stale' = TRUE
  /\ Race
  /\ UNCHANGED <<roles, list, changes, build>>

\* UpdateUser, after a profile or role change: the user's info is recomputed
\* and the user repositioned, if it is in the list at all.
UpdateUser(u, user) ==
  /\ "UpdateUser" \in Ops
  /\ u \in DOMAIN users
  /\ Room
  /\ users' = [users EXCEPT ![u] = user]
  /\ \E h \in Hoists(user, roles) : hoist' = [hoist EXCEPT ![u] = h]
  /\ IF \E g \in DOMAIN list.groups : Holds(list, g, u)
       THEN /\ list' = Moved(list, users', hoist'[u], u)
            /\ changes' = changes \cup MoveRange(list.view, list'.view, u)
       ELSE UNCHANGED <<list, changes>>
  /\ Race
  /\ UNCHANGED <<roles, stale, build>>

\* AddRole: a new role.  The infos of the users are not recomputed, here or in
\* the next two.
AddRole(r, role) ==
  /\ "AddRole" \in Ops
  /\ r \notin DOMAIN roles
  /\ roles' = Put(roles, r, role)
  /\ stale' = TRUE
  /\ Race
  /\ UNCHANGED <<users, hoist, list, changes, build>>

UpdateRole(r, role) ==
  /\ "UpdateRole" \in Ops
  /\ r \in DOMAIN roles
  /\ roles' = [roles EXCEPT ![r] = role]
  /\ stale' = TRUE
  /\ Race
  /\ UNCHANGED <<users, hoist, list, changes, build>>

DeleteRole(r) ==
  /\ "DeleteRole" \in Ops
  /\ r \in DOMAIN roles
  /\ roles' = [x \in DOMAIN roles \ {r} |-> roles[x]]
  /\ stale' = TRUE
  /\ Race
  /\ UNCHANGED <<users, hoist, list, changes, build>>

\* UpdateUserList up to RUnlock, called by the rebuild goroutine when Stale.
UpdateUserListRead ==
  /\ stale /\ ~building
  /\ \E order \in GroupOrders(roles) : next' = MakeList(users, hoist, order)
  /\ diff' = Diff(list.view, next'.view)
  /\ building' = TRUE
  /\ raced' = FALSE
  /\ UNCHANGED <<data, list, stale, changes>>

\* From Lock on.
UpdateUserListStore ==
  /\ building
  /\ Room
  /\ list' = next
  /\ stale' = FALSE
  /\ changes' = changes \cup diff
  /\ building' = FALSE
  /\ next' = NoList
  /\ diff' = {}
  /\ UNCHANGED <<data, raced>>

\* The push goroutine takes the changes and writes to the clients whose range
\* overlaps one of them.
PopAllChanges ==
  /\ changes # {}
  /\ changes' = {}
  /\ UNCHANGED <<data, list, stale, build, raced>>

Next ==
  \/ \E u \in UserIds, name \in Names : AddUser(u, name)
  \/ \E u \in UserIds, user \in User : UpdateUser(u, user)
  \/ \E r \in RoleIds, role \in Role : AddRole(r, role)
  \/ \E r \in RoleIds, role \in Role : UpdateRole(r, role)
  \/ \E r \in RoleIds : DeleteRole(r)
  \/ UpdateUserListRead
  \/ UpdateUserListStore
  \/ PopAllChanges

Spec == Init /\ [][Next]_vars

\* The rebuild goroutine polls Stale every millisecond and its rebuild ends; the
\* push goroutine polls Changes as often.
FairSpec == /\ Spec
            /\ WF_vars(UpdateUserListRead)
            /\ WF_vars(UpdateUserListStore)
            /\ WF_vars(PopAllChanges)

-----------------------------------------------------------------------------
GroupIds == RoleIds \cup {Online, Offline}

IsList(l) ==
  /\ l = [order |-> l.order, groups |-> l.groups, view |-> l.view]
  /\ l.order \in Seq(GroupIds) /\ l.view \in Seq(UserIds \cup GroupIds)
  /\ DOMAIN l.groups \subseteq GroupIds /\ l.groups \in [DOMAIN l.groups -> Seq(UserIds)]

TypeOK ==
  /\ DOMAIN users \subseteq UserIds /\ users \in [DOMAIN users -> User]
  /\ hoist \in [DOMAIN users -> RoleIds \cup {NoRole}]
  /\ DOMAIN roles \subseteq RoleIds /\ roles \in [DOMAIN roles -> Role]
  /\ IsList(list) /\ IsList(next)
  /\ stale \in BOOLEAN /\ building \in BOOLEAN /\ raced \in BOOLEAN
  /\ changes \cup diff \subseteq [From : Nat, To : Nat]
  /\ \A r \in changes \cup diff : r.From <= r.To

\* Whatever mix of moves and rebuilds produced it, the view is its groups in
\* order, each under its header, and no user is listed twice, not even in a
\* group that is not displayed.
ListWellFormed ==
  /\ list.view = MakeView(list.order, list.groups)
  /\ IsInjective(list.view)
  /\ \A g, h \in DOMAIN list.groups :
       g # h => Range(list.groups[g]) \cap Range(list.groups[h]) = {}

\* What is displayed is what a rebuild from the current users and roles would
\* display (a group that is in no order any more is in neither).
Fresh ==
  \E order \in GroupOrders(roles) :
    list.order = order /\ list.view = MakeList(users, hoist, order).view

\* A list that is not marked stale is up to date, unless the last rebuild was
\* overtaken by an operation between its RUnlock and its Lock (index.go:272-274).
\* Moving one user at a time (remove, binary search, insert: RepositionUser)
\* therefore gives what sorting everyone afresh would give.
FreshUnlessRaced == stale \/ building \/ raced \/ Fresh

\* The slice of the view a client looks at, as GetUserListSlice cuts it.
Slice(view, r) == SubSeq(view, r.From, IF r.To - 1 < Len(view) THEN r.To - 1 ELSE Len(view))

\* The ranges a client may have asked for.
ClientRanges == {r \in [From : 1 .. 8, To : 1 .. 9] : r.From < r.To}

\* What is recorded too narrowly to reach a client that looks at r, or not at all: a
\* rebuild that was overtaken (its ranges are about a list that is gone); a displayed
\* user who moves to a group that is not displayed, of which nothing is recorded
\* (index.go:353-356), although the row goes and those behind it shift; a user who
\* comes back from such a group above r, recorded as a move from position -1 to the
\* new place (index.go:328-364), although all the rows behind that place shift.
Unrecorded(r) ==
  LET before == Range(list.view)
      after  == Range(list'.view)
  IN IF building /\ ~building'
       THEN raced
       ELSE \/ before \ after # {}
            \/ \E u \in after \ before : PosIn(list'.view, u) < r.From

ChangesSeen(r) == ~IsPrefix(Slice(list.view, r), Slice(list'.view, r))

Reached(r) == \E change \in changes' : Overlaps(r, change)

\* When a row that a client looks at changes place or goes, a recorded change
\* overlaps the client's range, so it is pushed to (gateway.go:506-524), except where
\* the change is Unrecorded.  Rows that appear behind the last one the client sees are
\* not in question: a rebuild records them as an empty range, which overlaps nothing
\* (index.go:34, 266-270).
ChangesReachClients ==
  [][\A r \in ClientRanges : ChangesSeen(r) /\ ~Unrecorded(r) => Reached(r)]_vars

\* "Update user list periodically if stale" (gateway.go:494): a user that joins
\* is in the list in the end.
NewcomersListed == \A u \in UserIds : u \in DOMAIN users ~> u \in Range(list.view)
=============================================================================
