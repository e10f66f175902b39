------------------------------- MODULE Gateway -------------------------------
(***************************************************************************)
(* The gateway's connections and the fan-out of events to them             *)
(* (chat/gateway.go, chat/relay.go).                                       *)
(*                                                                         *)
(* Each connection has two goroutines: Run's loop (Introduction, then      *)
(* Process request by request) and a writer that drains the connection's   *)
(* bounded queue.  Every event is fanned out by a goroutine of its own     *)
(* (Gateway.Relay, RelayByChannel), which holds connectionsMutex for       *)
(* reading while it visits every registered connection; one more goroutine *)
(* pushes user-list changes, writing to the sockets under the same lock.   *)
(* AddConnection takes that lock for writing.  writeMutex serialises the   *)
(* three goroutines that write to one socket.                              *)
(*                                                                         *)
(* connectionsMutex is Go's RWMutex: a waiting writer (AddConnection)      *)
(* blocks new readers.                                                     *)
(***************************************************************************)
EXTENDS Naturals, Sequences, FiniteSets

CONSTANTS Conns,     \* connections
          Events,    \* events, each fanned out once by its own goroutine
          Cap,       \* capacity of a connection's queue (16 in the code)
          Hidden,    \* <<event, connection>>: the index denies ViewChannel
          Stalled,   \* connections whose client may stop reading for good
          None       \* no event, no connection

ASSUME GatewayAssumption ==
  /\ Cap \in Nat \ {0}
  /\ Hidden \subseteq Events \X Conns
  /\ Stalled \subseteq Conns
  /\ None \notin Conns \cup Events

VARIABLES
  phase,      \* Run's loop: "intro", "adding", "reply", "loop", "closed"
  authed,     \* token and userID are set
  session,    \* how often c.session was assigned: names the session
  registry,   \* gw.connections: entries <<session, connection>>
  queue,      \* c.queue
  taken,      \* the event the writer goroutine has taken off the queue
  writing,    \* holder of c.writeMutex: "no", "proc", "writer", "push"
  wrote,      \* history: relayed events written to the socket, in order
  relay,      \* fan-out goroutine: "none", "lock", "visit", "send", "done"
  todo,       \* registry entries it has still to visit
  target,     \* the connection it is about to send to
  push,       \* push goroutine: "idle", "lock", "visit", "write"
  pushTodo,   \* connections it has still to write to
  pushTarget

connVars  == <<phase, authed, session, registry>>
sockVars  == <<queue, taken, writing, wrote>>
relayVars == <<relay, todo, target>>
pushVars  == <<push, pushTodo, pushTarget>>
vars      == <<connVars, sockVars, relayVars, pushVars>>

\* None yet, or the one that authentication draws.
Sessions == 0 .. 1
Entries  == Sessions \X Conns

TypeOK ==
  /\ phase \in [Conns -> {"intro", "adding", "reply", "loop", "closed"}]
  /\ authed \in [Conns -> BOOLEAN]
  /\ session \in [Conns -> Sessions]
  /\ registry \subseteq Entries
  /\ queue \in [Conns -> Seq(Events)]
  /\ \A c \in Conns : Len(queue[c]) <= Cap
  /\ taken \in [Conns -> Events \cup {None}]
  /\ writing \in [Conns -> {"no", "proc", "writer", "push"}]
  /\ wrote \in [Conns -> Seq(Events)]
  /\ relay \in [Events -> {"none", "lock", "visit", "send", "done"}]
  /\ todo \in [Events -> SUBSET Entries]
  /\ target \in [Events -> Conns \cup {None}]
  /\ push \in {"idle", "lock", "visit", "write"}
  /\ pushTodo \subseteq Conns
  /\ pushTarget \in Conns \cup {None}

Init ==
  /\ phase = [c \in Conns |-> "intro"]
  /\ authed = [c \in Conns |-> FALSE]
  /\ session = [c \in Conns |-> 0]
  /\ registry = {}
  /\ queue = [c \in Conns |-> <<>>]
  /\ taken = [c \in Conns |-> None]
  /\ writing = [c \in Conns |-> "no"]
  /\ wrote = [c \in Conns |-> <<>>]
  /\ relay = [e \in Events |-> "none"]
  /\ todo = [e \in Events |-> {}]
  /\ target = [e \in Events |-> None]
  /\ push = "idle"
  /\ pushTodo = {}
  /\ pushTarget = None

-----------------------------------------------------------------------------
(* connectionsMutex.                                                       *)

\* RLock: no writer is waiting (a writer holds the lock within one step).
CanRLock == \A c \in Conns : phase[c] # "adding"

\* Lock: no reader is inside.
CanLock == /\ \A e \in Events : relay[e] \notin {"visit", "send"}
           /\ push \notin {"visit", "write"}

-----------------------------------------------------------------------------
(* Run, Introduction and Process.                                          *)

Goto(c, p) == phase' = [phase EXCEPT ![c] = p]

\* OnAuthentication: the token is set and a new session drawn, then
\* AddConnection waits for the lock.
OnAuthentication(c) ==
  /\ authed' = [authed EXCEPT ![c] = TRUE]
  /\ session' = [session EXCEPT ![c] = @ + 1]
  /\ Goto(c, "adding")
  /\ UNCHANGED registry

\* Introduction with a token that authenticates.
IntroToken(c) ==
  /\ phase[c] = "intro"
  /\ OnAuthentication(c)
  /\ UNCHANGED <<sockVars, relayVars, pushVars>>

\* Introduction without one: only the settings are sent.
IntroNoToken(c) ==
  /\ phase[c] = "intro"
  /\ Goto(c, "reply")
  /\ UNCHANGED <<authed, session, registry, sockVars, relayVars, pushVars>>

\* Mutant: a second login on the same connection is not turned away.
LoginAgain(c) ==
  /\ phase[c] = "loop"
  /\ session[c] < 2
  /\ OnAuthentication(c)
  /\ UNCHANGED <<sockVars, relayVars, pushVars>>

\* Process dispatches a login or registration only while unauthenticated.
Login(c) ==
  /\ phase[c] = "loop"
  /\ ~authed[c]
  /\ OnAuthentication(c)
  /\ UNCHANGED <<sockVars, relayVars, pushVars>>

\* AddConnection, one critical section; the caller then answers the client.
AddConnection(c) ==
  /\ phase[c] = "adding"
  /\ CanLock
  /\ registry' = registry \cup {<<session[c], c>>}
  /\ Goto(c, "reply")
  /\ UNCHANGED <<authed, session, sockVars, relayVars, pushVars>>

\* Any other request ends in a response or an error written to the client.
Process(c) ==
  /\ phase[c] = "loop"
  /\ Goto(c, "reply")
  /\ UNCHANGED <<authed, session, registry, sockVars, relayVars, pushVars>>

\* The read fails: Process sets closing, Run ends and closes the socket.  The
\* connection stays in gw.connections and its writer goroutine keeps draining.
Disconnect(c) ==
  /\ phase[c] = "loop"
  /\ Goto(c, "closed")
  /\ UNCHANGED <<authed, session, registry, sockVars, relayVars, pushVars>>

-----------------------------------------------------------------------------
(* writeEvent, by whichever goroutine; the writer goroutine's receive.     *)

\* Mutant: the writer goroutine ends with the connection.
TakeWhileOpen(c) ==
  /\ taken[c] = None
  /\ queue[c] # <<>>
  /\ phase[c] # "closed"
  /\ taken' = [taken EXCEPT ![c] = Head(queue[c])]
  /\ queue' = [queue EXCEPT ![c] = Tail(@)]
  /\ UNCHANGED <<writing, wrote, connVars, relayVars, pushVars>>

Take(c) ==
  /\ taken[c] = None
  /\ queue[c] # <<>>
  /\ taken' = [taken EXCEPT ![c] = Head(queue[c])]
  /\ queue' = [queue EXCEPT ![c] = Tail(@)]
  /\ UNCHANGED <<writing, wrote, connVars, relayVars, pushVars>>

Acquire(c, who) ==
  /\ writing[c] = "no"
  /\ writing' = [writing EXCEPT ![c] = who]
  /\ UNCHANGED <<queue, taken, wrote, connVars, relayVars, pushVars>>

WriterAcquires(c) == taken[c] # None /\ Acquire(c, "writer")
ProcAcquires(c)   == phase[c] = "reply" /\ Acquire(c, "proc")
PushAcquires(c)   == push = "write" /\ pushTarget = c /\ Acquire(c, "push")

Release(c) == writing' = [writing EXCEPT ![c] = "no"]

ProcWrites(c) ==
  /\ writing[c] = "proc"
  /\ Release(c)
  /\ Goto(c, "loop")
  /\ UNCHANGED <<authed, session, registry, queue, taken, wrote, relayVars, pushVars>>

\* On a closed socket the write fails and the event is gone.
WriterWrites(c) ==
  /\ writing[c] = "writer"
  /\ Release(c)
  /\ taken' = [taken EXCEPT ![c] = None]
  /\ wrote' = [wrote EXCEPT ![c] =
                 IF phase[c] = "closed" THEN @ ELSE Append(@, taken[c])]
  /\ UNCHANGED <<queue, connVars, relayVars, pushVars>>

PushWrites(c) ==
  /\ writing[c] = "push"
  /\ Release(c)
  /\ push' = "visit"
  /\ pushTarget' = None
  /\ UNCHANGED <<queue, taken, wrote, pushTodo, connVars, relayVars>>

Writes(c) == ProcWrites(c) \/ WriterWrites(c) \/ PushWrites(c)

-----------------------------------------------------------------------------
(* Gateway.Relay and RelayByChannel.                                       *)

\* A handler starts the goroutine (On...).
Spawn(e) ==
  /\ relay[e] = "none"
  /\ relay' = [relay EXCEPT ![e] = "lock"]
  /\ UNCHANGED <<todo, target, connVars, sockVars, pushVars>>

RelayRLock(e) ==
  /\ relay[e] = "lock"
  /\ CanRLock
  /\ relay' = [relay EXCEPT ![e] = "visit"]
  /\ todo' = [todo EXCEPT ![e] = registry]
  /\ UNCHANGED <<target, connVars, sockVars, pushVars>>

\* Mutant: RelayByChannel does not ask the index.
AcceptsUnseen(e, c) == phase[c] # "closed" /\ authed[c]

\* The tests on the connection: the index lets its user view the channel (an
\* event of Gateway.Relay is hidden from nobody), Connected, Authenticated.
Accepts(e, c) == <<e, c>> \notin Hidden /\ phase[c] # "closed" /\ authed[c]

\* The next connection gets nothing: it is not accepted, or its queue is full.
RelaySkips(e) ==
  /\ relay[e] = "visit"
  /\ \E entry \in todo[e] :
       /\ ~Accepts(e, entry[2]) \/ Len(queue[entry[2]]) >= Cap
       /\ todo' = [todo EXCEPT ![e] = @ \ {entry}]
  /\ UNCHANGED <<relay, target, connVars, sockVars, pushVars>>

\* GatewayConnection.Relay has found room in the queue and goes on to send.
RelayChecks(e) ==
  /\ relay[e] = "visit"
  /\ \E entry \in todo[e] :
       /\ Accepts(e, entry[2]) /\ Len(queue[entry[2]]) < Cap
       /\ todo' = [todo EXCEPT ![e] = @ \ {entry}]
       /\ target' = [target EXCEPT ![e] = entry[2]]
  /\ relay' = [relay EXCEPT ![e] = "send"]
  /\ UNCHANGED <<connVars, sockVars, pushVars>>

\* Mutant: sends without looking at the capacity.
RelaySendsOver(e) ==
  LET c == target[e]
  IN /\ relay[e] = "send"
     /\ queue' = [queue EXCEPT ![c] = Append(@, e)]
     /\ relay' = [relay EXCEPT ![e] = "visit"]
     /\ target' = [target EXCEPT ![e] = None]
     /\ UNCHANGED <<taken, writing, wrote, todo, connVars, pushVars>>

\* Mutant: a full queue makes room by dropping its oldest event.
RelayDropsOldest(e) ==
  LET c == target[e]
  IN /\ relay[e] = "send"
     /\ queue' = [queue EXCEPT ![c] =
                    Append(IF Len(@) < Cap THEN @ ELSE Tail(@), e)]
     /\ relay' = [relay EXCEPT ![e] = "visit"]
     /\ target' = [target EXCEPT ![e] = None]
     /\ UNCHANGED <<taken, writing, wrote, todo, connVars, pushVars>>

\* c.queue <- event: blocks while the queue is full.
RelaySends(e) ==
  LET c == target[e]
  IN /\ relay[e] = "send"
     /\ Len(queue[c]) < Cap
     /\ queue' = [queue EXCEPT ![c] = Append(@, e)]
     /\ relay' = [relay EXCEPT ![e] = "visit"]
     /\ target' = [target EXCEPT ![e] = None]
     /\ UNCHANGED <<taken, writing, wrote, todo, connVars, pushVars>>

\* Mutant: the goroutine gives up at the first closed connection, RLock held.
RelayEndsEarly(e) ==
  /\ relay[e] = "visit"
  /\ todo[e] = {}
  /\ \A c \in Conns : phase[c] # "closed"
  /\ relay' = [relay EXCEPT ![e] = "done"]
  /\ UNCHANGED <<todo, target, connVars, sockVars, pushVars>>

\* The loop is over: RUnlock.
RelayEnds(e) ==
  /\ relay[e] = "visit"
  /\ todo[e] = {}
  /\ relay' = [relay EXCEPT ![e] = "done"]
  /\ UNCHANGED <<todo, target, connVars, sockVars, pushVars>>

-----------------------------------------------------------------------------
(* The push goroutine of StartGateway.                                     *)

\* PopAllChanges returned something.
PushStarts ==
  /\ push = "idle"
  /\ push' = "lock"
  /\ UNCHANGED <<pushTodo, pushTarget, connVars, sockVars, relayVars>>

\* Under RLock, the connections whose last requested range overlaps a change.
PushRLock ==
  /\ push = "lock"
  /\ CanRLock
  /\ push' = "visit"
  /\ \E cs \in SUBSET {entry[2] : entry \in registry} : pushTodo' = cs
  /\ UNCHANGED <<pushTarget, connVars, sockVars, relayVars>>

PushVisits ==
  /\ push = "visit"
  /\ \E c \in pushTodo : /\ pushTodo' = pushTodo \ {c}
                         /\ pushTarget' = c
  /\ push' = "write"
  /\ UNCHANGED <<connVars, sockVars, relayVars>>

PushEnds ==
  /\ push = "visit"
  /\ pushTodo = {}
  /\ push' = "idle"
  /\ UNCHANGED <<pushTodo, pushTarget, connVars, sockVars, relayVars>>

-----------------------------------------------------------------------------
ConnNext(c) ==
  \/ IntroToken(c) \/ IntroNoToken(c) \/ Login(c) \/ AddConnection(c)
  \/ Process(c) \/ Disconnect(c)
  \/ Take(c) \/ WriterAcquires(c) \/ ProcAcquires(c) \/ PushAcquires(c)
  \/ Writes(c)

RelayNext(e) ==
  \/ Spawn(e) \/ RelayRLock(e) \/ RelaySkips(e) \/ RelayChecks(e)
  \/ RelaySends(e) \/ RelayEnds(e)

PushNext == PushStarts \/ PushRLock \/ PushVisits \/ PushEnds

Next == \/ \E c \in Conns : ConnNext(c)
        \/ \E e \in Events : RelayNext(e)
        \/ PushNext

Spec == Init /\ [][Next]_vars

\* Goroutines that can run do, and Go's mutex serves every waiter in the end:
\* strong fairness where a client that never stops sending requests could
\* otherwise keep the writer or the push goroutine off writeMutex.  A write to a
\* socket ends when the client reads, or at once when the socket is closed; that
\* is not assumed of a stalled client.  Clients owe no requests.
Fairness ==
  /\ \A c \in Conns : /\ WF_vars(AddConnection(c))
                      /\ WF_vars(Take(c))
                      /\ SF_vars(WriterAcquires(c))
                      /\ SF_vars(PushAcquires(c))
                      /\ WF_vars((c \notin Stalled \/ phase[c] = "closed")
                                 /\ Writes(c))
  /\ \A e \in Events : WF_vars(\/ RelayRLock(e) \/ RelaySkips(e) \/ RelayChecks(e)
                               \/ RelaySends(e) \/ RelayEnds(e))
  /\ WF_vars(PushRLock \/ PushVisits \/ PushEnds)

FairSpec == Spec /\ Fairness

-----------------------------------------------------------------------------
\* The copies of event e that are on their way to connection c or arrived.
Copies(e, c) ==
  Cardinality({i \in DOMAIN wrote[c] : wrote[c][i] = e})
  + Cardinality({i \in DOMAIN queue[c] : queue[c][i] = e})
  + (IF taken[c] = e THEN 1 ELSE 0)
  + (IF target[e] = c THEN 1 ELSE 0)

\* No client receives an event twice, whichever way and however often it tried
\* to authenticate: a connection is in gw.connections under one session only.
NoDuplicates == \A e \in Events, c \in Conns : Copies(e, c) <= 1

\* A relayed event only ever travels to a connection that has authenticated,
\* that a fan-out found in gw.connections, and whose user may view the channel
\* (gateway.go:175-187, relay.go:15-35).
OnlyEntitled ==
  \A e \in Events, c \in Conns : Copies(e, c) # 0 =>
    /\ authed[c]
    /\ \E s \in Sessions : <<s, c>> \in registry
    /\ <<e, c>> \notin Hidden

\* "Queue is full, dropping event" (gateway.go:177): a fan-out that finds no
\* room drops the event, so it never stands in front of a full queue.
RelayNeverBlocks ==
  \A e \in Events : relay[e] = "send" => Len(queue[target[e]]) < Cap

\* While clients read, every client that authenticates is registered: the
\* fan-outs that hold connectionsMutex all finish.
LoginsComplete == \A c \in Conns : phase[c] = "adding" ~> phase[c] # "adding"

\* While clients read, every event put in a queue is taken out and its write is
\* attempted: no goroutine is left holding writeMutex.
QueuesDrain == \A c \in Conns : queue[c] # <<>> ~> queue[c] = <<>> /\ taken[c] = None

\* What is accepted for a connection and not yet written: the event its writer
\* goroutine has taken comes before those in the queue.
Line(c) == (IF taken[c] = None THEN <<>> ELSE <<taken[c]>>) \o queue[c]

\* The gateway as its clients see it.
Client == INSTANCE Delivery
  WITH Clients <- Conns, Withheld <- Hidden,
       members <- {entry[2] : entry \in registry},
       gone <- {c \in Conns : phase[c] = "closed"},
       line <- [c \in Conns |-> Line(c)],
       got <- wrote

\* Several fan-outs that send to one bounded queue, and a writer goroutine that
\* competes for the socket with the replies and the pushes, still are one line per
\* client: what GatewayConnection.Relay puts in the queue reaches the client in that
\* order, with none left out while the connection lasts (gateway.go:109-133, 175-187,
\* 345-361).
ImplementsDelivery == Client!Spec
=============================================================================
