----------------------------- MODULE MCIndexSync -----------------------------
(* Values for model-checking IndexSync.tla.                                  *)
EXTENDS IndexSync, TLC

CONSTANTS r1, r2

\* Requests are told apart by what they hold only, users by their roles.
MCSymmetry == Permutations(Workers) \cup Permutations(UserIds)

\* A better place with fewer permissions, and the other way round.
MCRole == {[pos |-> 1, perms |-> {Manage}], [pos |-> 2, perms |-> {Admin, Manage}]}

\* The first role may see the channel, the second may not; every user may
\* manage it by name.
MCOverwrites ==
  {[type |-> "role", id |-> r1, allow |-> {View}, deny |-> {}],
   [type |-> "role", id |-> r2, allow |-> {}, deny |-> {View}]}
  \cup {[type |-> "user", id |-> u, allow |-> {Manage}, deny |-> {}] : u \in UserIds}
=============================================================================
