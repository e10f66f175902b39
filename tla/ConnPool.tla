------------------------------ MODULE ConnPool ------------------------------
(***************************************************************************)
(* How requests share the pooled database connections and the transactions *)
(* on them (storage/database.go, storage/transactions.go, Process in       *)
(* chat/gateway.go and the handlers of chat/handlers.go).                  *)
(*                                                                         *)
(* A worker is one client's request loop: it takes a connection, begins a  *)
(* transaction, handles the request and puts the connection back.  Three   *)
(* kinds of request differ in how they leave the connection:               *)
(*   "plain"    commits or rolls back on every path;                       *)
(*   "refused"  returns on a failed captcha or on mismatched anchors       *)
(*              without ending the transaction;                            *)
(*   "embed"    commits, and leaves a goroutine behind (TryEmbedURLs) that *)
(*              goes on using the connection.                              *)
(* SQLite has one transaction per connection: BEGIN inside another one     *)
(* fails and the library panics.  net/http recovers a worker's panic, but  *)
(* CloseConnection is not deferred, so the connection is lost; nobody      *)
(* recovers TryEmbedURLs, so the process dies.                             *)
(***************************************************************************)
EXTENDS Integers, FiniteSets

CONSTANTS Workers,    \* request loops
          DBConns,    \* the pool (PoolSize is 16 in the code)
          Requests,   \* kinds of request clients make
          Shutdown,   \* whether the process may be told to stop
          None

ASSUME ConnPoolAssumption ==
  /\ IsFiniteSet(Workers)
  /\ None \notin Workers \cup DBConns
  /\ Requests \subseteq {"plain", "refused", "embed"}
  /\ Shutdown \in BOOLEAN

VARIABLES
  pc,         \* "idle", "get", "begin", "body", "close", "gone", "failed"
  kind,       \* the request being handled
  conn,       \* the connection a worker holds
  free,       \* the connections in the pool
  tx,         \* per connection: whose transaction is open on it
  embed,      \* TryEmbedURLs left by a worker: "none", "begin", "body"
  embedConn,  \* the connection it uses
  wait,       \* dbPoolWait
  cancelled,  \* the main context is cancelled
  closed,     \* dbPool.Close has run
  panicked,   \* some BEGIN has panicked
  dead        \* the process has died of it

work   == <<pc, kind, conn, free>>
embeds == <<embed, embedConn>>
life   == <<cancelled, closed>>
vars   == <<work, tx, embeds, wait, life, panicked, dead>>

TypeOK ==
  /\ pc \in [Workers -> {"idle", "get", "begin", "body", "close", "gone", "failed"}]
  /\ kind \in [Workers -> Requests \cup {None}]
  /\ conn \in [Workers -> DBConns \cup {None}]
  /\ free \subseteq DBConns
  /\ tx \in [DBConns -> Workers \cup {None}]
  /\ embed \in [Workers -> {"none", "begin", "body"}]
  /\ embedConn \in [Workers -> DBConns \cup {None}]
  /\ wait \in Nat
  /\ {cancelled, closed, panicked, dead} \subseteq BOOLEAN

Init ==
  /\ pc = [w \in Workers |-> "idle"]
  /\ kind = [w \in Workers |-> None]
  /\ conn = [w \in Workers |-> None]
  /\ free = DBConns
  /\ tx = [d \in DBConns |-> None]
  /\ embed = [w \in Workers |-> "none"]
  /\ embedConn = [w \in Workers |-> None]
  /\ wait = 0
  /\ cancelled = FALSE /\ closed = FALSE
  /\ panicked = FALSE /\ dead = FALSE

Goto(w, p) == pc' = [pc EXCEPT ![w] = p]

-----------------------------------------------------------------------------
(* Process.                                                                *)

\* Mutant: the wait group is only joined once the pool has answered.
OpenConnectionLate(w) ==
  /\ pc[w] = "idle"
  /\ Goto(w, "get")
  /\ UNCHANGED <<wait, kind, conn, free, tx, embeds, life, panicked, dead>>

\* A request has been read: OpenConnection first joins the wait group.
OpenConnection(w) ==
  /\ pc[w] = "idle"
  /\ Goto(w, "get")
  /\ wait' = wait + 1
  /\ UNCHANGED <<kind, conn, free, tx, embeds, life, panicked, dead>>

\* Mutant: the pool hands a connection out and keeps it.
PoolGetKeeps(w) ==
  /\ pc[w] = "get"
  /\ ~closed
  /\ \E d \in free : conn' = [conn EXCEPT ![w] = d]
  /\ \E k \in Requests : kind' = [kind EXCEPT ![w] = k]
  /\ Goto(w, "begin")
  /\ UNCHANGED <<free, tx, embeds, wait, life, panicked, dead>>

\* dbPool.Get, then Process dispatches the request.
PoolGet(w) ==
  /\ pc[w] = "get"
  /\ ~closed
  /\ \E d \in free : /\ conn' = [conn EXCEPT ![w] = d]
                     /\ free' = free \ {d}
  /\ \E k \in Requests : kind' = [kind EXCEPT ![w] = k]
  /\ Goto(w, "begin")
  /\ UNCHANGED <<tx, embeds, wait, life, panicked, dead>>

\* Get fails on a cancelled context or a closed pool.  The error is ignored,
\* the handler panics on the nil connection, and CloseConnection, if it ran,
\* would return at once: the wait group is never left.
PoolGetFails(w) ==
  /\ pc[w] = "get"
  /\ cancelled
  /\ Goto(w, "failed")
  /\ UNCHANGED <<kind, conn, free, tx, embeds, wait, life, panicked, dead>>

\* Transaction.Start.
Start(w) ==
  /\ pc[w] = "begin"
  /\ tx[conn[w]] = None
  /\ tx' = [tx EXCEPT ![conn[w]] = w]
  /\ Goto(w, "body")
  /\ UNCHANGED <<kind, conn, free, embeds, wait, life, panicked, dead>>

\* The request is turned away before its transaction (it does not parse, the
\* client is not authenticated, a permission is missing) or needs none.
ReturnEarly(w) ==
  /\ pc[w] = "begin"
  /\ Goto(w, "close")
  /\ UNCHANGED <<kind, conn, free, tx, embeds, wait, life, panicked, dead>>

\* A transaction is open on the connection already: the worker's panic leaves
\* the connection neither held nor in the pool.
StartPanics(w) ==
  /\ pc[w] = "begin"
  /\ tx[conn[w]] # None
  /\ panicked' = TRUE
  /\ Goto(w, "gone")
  /\ conn' = [conn EXCEPT ![w] = None]
  /\ kind' = [kind EXCEPT ![w] = None]
  /\ UNCHANGED <<free, tx, embeds, wait, life, dead>>

\* Transaction.Commit, with or without an error.
Commit(w) ==
  /\ pc[w] = "body"
  /\ kind[w] = "plain"
  /\ tx' = [tx EXCEPT ![conn[w]] = None]
  /\ Goto(w, "close")
  /\ UNCHANGED <<kind, conn, free, embeds, wait, life, panicked, dead>>

\* HandleError and return, the transaction still open.
Refuse(w) ==
  /\ pc[w] = "body"
  /\ kind[w] = "refused"
  /\ Goto(w, "close")
  /\ UNCHANGED <<kind, conn, free, tx, embeds, wait, life, panicked, dead>>

\* FinalizeMessageSendRequest or HandleMessageUpdateRequest: commit, then
\* go TryEmbedURLs on the same connection (one at a time per worker here).
CommitAndEmbed(w) ==
  /\ pc[w] = "body"
  /\ kind[w] = "embed"
  /\ embed[w] = "none"
  /\ tx' = [tx EXCEPT ![conn[w]] = None]
  /\ embed' = [embed EXCEPT ![w] = "begin"]
  /\ embedConn' = [embedConn EXCEPT ![w] = conn[w]]
  /\ Goto(w, "close")
  /\ UNCHANGED <<kind, conn, free, wait, life, panicked, dead>>

\* Mutant: an error path returns before CloseConnection.
CloseConnectionSkipped(w) ==
  /\ pc[w] = "close"
  /\ Goto(w, "idle")
  /\ conn' = [conn EXCEPT ![w] = None]
  /\ kind' = [kind EXCEPT ![w] = None]
  /\ UNCHANGED <<free, wait, tx, embeds, life, panicked, dead>>

\* Mutant: Done is called a second time, by a deferred call as well.
CloseConnectionTwice(w) ==
  /\ pc[w] = "close"
  /\ free' = free \cup {conn[w]}
  /\ wait' = wait - 2
  /\ Goto(w, IF cancelled THEN "gone" ELSE "idle")
  /\ conn' = [conn EXCEPT ![w] = None]
  /\ kind' = [kind EXCEPT ![w] = None]
  /\ UNCHANGED <<tx, embeds, life, panicked, dead>>

\* Mutant: Done is only called while the server is up.
CloseConnectionLeaves(w) ==
  /\ pc[w] = "close"
  /\ free' = free \cup {conn[w]}
  /\ wait' = IF cancelled THEN wait ELSE wait - 1
  /\ Goto(w, IF cancelled THEN "gone" ELSE "idle")
  /\ conn' = [conn EXCEPT ![w] = None]
  /\ kind' = [kind EXCEPT ![w] = None]
  /\ UNCHANGED <<tx, embeds, life, panicked, dead>>

\* CloseConnection: Put, which does not look for an open transaction, and Done.
\* Run's loop ends when the context is cancelled.
CloseConnection(w) ==
  /\ pc[w] = "close"
  /\ free' = free \cup {conn[w]}
  /\ wait' = wait - 1
  /\ Goto(w, IF cancelled THEN "gone" ELSE "idle")
  /\ conn' = [conn EXCEPT ![w] = None]
  /\ kind' = [kind EXCEPT ![w] = None]
  /\ UNCHANGED <<tx, embeds, life, panicked, dead>>

-----------------------------------------------------------------------------
(* TryEmbedURLs, on a connection it does not own.                          *)

EmbedStart(w) ==
  /\ embed[w] = "begin"
  /\ tx[embedConn[w]] = None /\ ~closed
  /\ tx' = [tx EXCEPT ![embedConn[w]] = w]
  /\ embed' = [embed EXCEPT ![w] = "body"]
  /\ UNCHANGED <<embedConn, work, wait, life, panicked, dead>>

\* BEGIN fails: nobody recovers the panic and the process dies, every request
\* and every transaction with it.
EmbedPanics(w) ==
  /\ embed[w] = "begin"
  /\ tx[embedConn[w]] # None \/ closed
  /\ panicked' = TRUE /\ dead' = TRUE
  /\ pc' = [v \in Workers |-> "gone"]
  /\ kind' = [v \in Workers |-> None]
  /\ conn' = [v \in Workers |-> None]
  /\ tx' = [d \in DBConns |-> None]
  /\ embed' = [v \in Workers |-> "none"]
  /\ embedConn' = [v \in Workers |-> None]
  /\ UNCHANGED <<free, wait, life>>

EmbedCommit(w) ==
  /\ embed[w] = "body"
  /\ tx' = [tx EXCEPT ![embedConn[w]] = None]
  /\ embed' = [embed EXCEPT ![w] = "none"]
  /\ embedConn' = [embedConn EXCEPT ![w] = None]
  /\ UNCHANGED <<work, wait, life, panicked, dead>>

-----------------------------------------------------------------------------
(* Shutdown.                                                               *)

Cancel ==
  /\ Shutdown /\ ~cancelled /\ ~dead
  /\ cancelled' = TRUE
  /\ UNCHANGED <<work, tx, embeds, wait, closed, panicked, dead>>

\* CloseDatabase: dbPoolWait.Wait, then the pool is closed.
CloseDatabase ==
  /\ cancelled /\ ~closed /\ ~dead
  /\ wait = 0
  /\ closed' = TRUE
  /\ UNCHANGED <<work, tx, embeds, wait, cancelled, panicked, dead>>

Step(w) ==
  \/ OpenConnection(w) \/ PoolGet(w) \/ PoolGetFails(w)
  \/ Start(w) \/ StartPanics(w) \/ ReturnEarly(w)
  \/ Commit(w) \/ Refuse(w) \/ CommitAndEmbed(w)
  \/ CloseConnection(w)
  \/ EmbedStart(w) \/ EmbedPanics(w) \/ EmbedCommit(w)

Next == (\E w \in Workers : Step(w)) \/ Cancel \/ CloseDatabase

Spec == Init /\ [][Next]_vars

\* A handler runs to its end, the pool serves every waiter in the end (it is a
\* Go channel, first come first served), and CloseDatabase wakes when it can.
\* Clients owe no requests.
FairSpec ==
  /\ Spec
  /\ \A w \in Workers :
       /\ SF_vars(PoolGet(w))
       /\ WF_vars(Start(w) \/ StartPanics(w) \/ ReturnEarly(w)
                  \/ Commit(w) \/ Refuse(w) \/ CommitAndEmbed(w) \/ CloseConnection(w))
       /\ WF_vars(cancelled /\ (PoolGet(w) \/ PoolGetFails(w)))
       /\ WF_vars(EmbedStart(w) \/ EmbedPanics(w) \/ EmbedCommit(w))
  /\ WF_vars(CloseDatabase)

-----------------------------------------------------------------------------
\* No two workers ever hold the same connection, and none holds one that the
\* pool could hand out, panics and shutdown included.  It is about request loops: an
\* embed goroutine does use a connection that was put back, see StartNeverPanics.
NoSharing ==
  \A v \in Workers : conn[v] # None =>
    /\ conn[v] \notin free
    /\ \A w \in Workers \ {v} : conn[w] # conn[v]

\* The pool is not closed under a worker: CloseDatabase waits for every
\* connection that was handed out, also one asked for while it waits.
ClosedWhenUnused == closed => \A w \in Workers : conn[w] = None

\* A worker holds a connection exactly from PoolGet to CloseConnection.
HeldWhileHandling ==
  \A w \in Workers : conn[w] # None <=> pc[w] \in {"begin", "body", "close"}

\* The workers that still owe dbPoolWait a Done that they will make, unless they
\* panic; those that panicked or got no connection never do.
Owing == {w \in Workers : pc[w] \in {"get", "begin", "body", "close"}}

\* The wait group counts every one of them.
WaitCounts == Cardinality(Owing) <= wait

\* The assertion of Transaction.Start, panic("failed to begin transaction")
\* (transactions.go:60-61), never fires.
StartNeverPanics == ~panicked

\* A request that waits for a connection gets one, although there are more
\* request loops than connections, or learns that the server is stopping: no
\* path but a panic loses a connection (Process, CloseConnection).
RequestsServed == \A w \in Workers : pc[w] = "get" ~> pc[w] # "get" \/ panicked

\* "Waiting for connections to close" (database.go:77): once the process is told
\* to stop, that wait ends and the pool is closed, unless a request panicked or
\* asked for a connection too late: those have joined dbPoolWait and never leave
\* it (database.go:85-93).
ShutdownCompletes ==
  cancelled ~> closed \/ panicked \/ \E w \in Workers : pc[w] = "failed"
=============================================================================
