------------------------------- MODULE Delivery -------------------------------
(***************************************************************************)
(* What the gateway promises the clients it relays events to: an event is  *)
(* accepted for a client that has registered and may have it, once; a      *)
(* client receives the events accepted for it in the order in which they   *)
(* were accepted, with none left out for as long as its connection lasts.  *)
(* Gateway.tla is shown to implement this.                                 *)
(***************************************************************************)
EXTENDS Sequences

CONSTANTS Clients,      \* those who connect
          Events,       \* what is relayed
          Withheld      \* <<event, client>>: the client may not have the event

VARIABLES members,      \* the clients that have registered
          gone,         \* the clients whose connection is over
          line,         \* accepted for each client and not yet received
          got           \* what each client has received, in order

vars == <<members, gone, line, got>>

Init ==
  /\ members = {} /\ gone = {}
  /\ line = [c \in Clients |-> <<>>]
  /\ got = [c \in Clients |-> <<>>]

In(e, s) == \E i \in DOMAIN s : s[i] = e

Join(c) == members' = members \cup {c} /\ UNCHANGED <<gone, line, got>>

Leave(c) == gone' = gone \cup {c} /\ UNCHANGED <<members, line, got>>

Accept(c, e) ==
  /\ c \in members /\ <<e, c>> \notin Withheld
  /\ ~In(e, line[c]) /\ ~In(e, got[c])
  /\ line' = [line EXCEPT ![c] = Append(@, e)]
  /\ UNCHANGED <<members, gone, got>>

\* The event that was accepted first is received ...
Deliver(c) ==
  /\ c \notin gone /\ line[c] # <<>>
  /\ line' = [line EXCEPT ![c] = Tail(@)]
  /\ got' = [got EXCEPT ![c] = Append(@, Head(line[c]))]
  /\ UNCHANGED <<members, gone>>

\* ... or, once the connection is over, by nobody.
Lose(c) ==
  /\ c \in gone /\ line[c] # <<>>
  /\ line' = [line EXCEPT ![c] = Tail(@)]
  /\ UNCHANGED <<members, gone, got>>

Next == \E c \in Clients :
  \/ Join(c) \/ Leave(c) \/ Deliver(c) \/ Lose(c)
  \/ \E e \in Events : Accept(c, e)

Spec == Init /\ [][Next]_vars
=============================================================================
