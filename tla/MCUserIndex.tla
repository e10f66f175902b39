----------------------------- MODULE MCUserIndex -----------------------------
(* Two sizes in one run.  With all three users only profiles and the roles *)
(* of users change; with the first two, a user joins and one role comes,   *)
(* changes and goes, while the list is rebuilt.                            *)
EXTENDS UserIndex

Full  == Cardinality(DOMAIN users) = 3
Small == /\ DOMAIN users \subseteq {11, 12}
         /\ \A u \in DOMAIN users : users[u].roles \subseteq {21}
         /\ \A r \in DOMAIN roles : r = 21 /\ roles[r].pos = 1

MCInit == Init /\ (Full \/ Small)
MCNext == Next /\ IF Full THEN UNCHANGED <<roles, stale>> ELSE Small'
MCSpec == MCInit /\ [][MCNext]_vars
=============================================================================
