----------------------------- MODULE MCMessages -----------------------------
(* Values for model-checking Messages.tla: two users, and four pages, of    *)
(* which the second goes by the third one's URL and the last, an image, has *)
(* none of its own.  Texts with links are for a message that is alone, in   *)
(* the channel the client shows; several messages have the plain text.  When *)
(* a link was repeated, there is one request less.                          *)
EXTENDS Messages, TLC

CONSTANTS u1, u2, f1, f2

MCPage == [a |-> "a", b |-> "c", c |-> "c", image |-> "none"]

Plain == [urls |-> <<>>, mentions |-> <<u2>>]

Twice == [urls |-> <<"a", "a">>, mentions |-> <<>>]

MCContents == {[urls |-> <<"a", "c">>, mentions |-> <<u1, u2>>],
               [urls |-> <<"b", "image">>, mentions |-> <<u2, Nobody, u1>>],
               Plain, Twice}

Known == {messages[id] : id \in Stored}
         \cup {sending[u] : u \in {u \in Users : sending[u] # NoMessage}}

MCNext == /\ Next
          /\ \A m \in Known' :
               m.content = Plain \/ (lastId' = 1 /\ m.channel = Watched)
          /\ repeated' # {} => requests' < MaxRequests
MCSpec == Init /\ [][MCNext]_vars

MCSymmetry == Permutations(Fetchers)
=============================================================================
