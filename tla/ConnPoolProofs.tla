--------------------------- MODULE ConnPoolProofs ---------------------------
(***************************************************************************)
(* Proofs about ConnPool.tla for any finite set of request loops and any   *)
(* pool.                                                                   *)
(***************************************************************************)
EXTENDS ConnPool, FiniteSetTheorems, TLAPS

\* NoSharing needs to know who holds a connection, ClosedWhenUnused and the
\* type of wait what dbPoolWait counts.
PoolInv ==
  /\ TypeOK
  /\ HeldWhileHandling
  /\ NoSharing
  /\ WaitCounts
  /\ ClosedWhenUnused

-----------------------------------------------------------------------------
(* Owing, which WaitCounts counts.                                         *)

\* Any set of workers has a size.
LEMMA OwingFinite ==
  /\ IsFiniteSet(Owing) /\ Cardinality(Owing) \in Nat
  /\ IsFiniteSet(Owing') /\ Cardinality(Owing') \in Nat
<1>1. Owing \in SUBSET Workers /\ Owing' \in SUBSET Workers
  BY DEF Owing
<1> QED
  BY <1>1, ConnPoolAssumption, FS_Subset, FS_CardinalityType

\* The wait group stays large enough when nobody new owes it a Done.
LEMMA WaitKept ==
  ASSUME TypeOK, WaitCounts, Owing' \subseteq Owing, wait' = wait
  PROVE  WaitCounts'
<1>1. Cardinality(Owing') <= Cardinality(Owing)
  BY OwingFinite, FS_Subset
<1> QED
  BY <1>1, OwingFinite DEF WaitCounts, TypeOK

\* It grows with a worker that joins.
LEMMA WaitJoined ==
  ASSUME TypeOK, WaitCounts, NEW w \in Workers, Owing' = Owing \cup {w}, wait' = wait + 1
  PROVE  WaitCounts'
<1>1. Cardinality(Owing') <= Cardinality(Owing) + 1
  BY OwingFinite, FS_AddElement
<1> QED
  BY <1>1, OwingFinite DEF WaitCounts, TypeOK

\* It shrinks with a worker that leaves, and never below zero.
LEMMA WaitLeft ==
  ASSUME TypeOK, WaitCounts, NEW w \in Owing, Owing' = Owing \ {w}, wait' = wait - 1
  PROVE  WaitCounts' /\ wait' \in Nat
<1>1. Cardinality(Owing') = Cardinality(Owing) - 1
  BY OwingFinite, FS_RemoveElement
<1> QED
  BY <1>1, OwingFinite DEF WaitCounts, TypeOK

-----------------------------------------------------------------------------
\* The invariant holds before the first request.
LEMMA InitPool == Init => PoolInv
<1> SUFFICES ASSUME Init PROVE PoolInv
  OBVIOUS
<1>1. Owing = {} /\ wait = 0
  BY DEF Init, Owing
<1>2. WaitCounts
  BY <1>1, FS_EmptySet DEF WaitCounts
<1> QED
  BY <1>2, ConnPoolAssumption
     DEF Init, PoolInv, TypeOK, HeldWhileHandling, NoSharing, ClosedWhenUnused

\* The steps of a request loop that take, use and give back a connection.
LEMMA WorkerPool ==
  ASSUME PoolInv, NEW w \in Workers,
         \/ OpenConnection(w) \/ PoolGet(w) \/ PoolGetFails(w)
         \/ Start(w) \/ StartPanics(w) \/ ReturnEarly(w)
         \/ Commit(w) \/ Refuse(w) \/ CommitAndEmbed(w) \/ CloseConnection(w)
  PROVE  PoolInv'
<1> USE ConnPoolAssumption
    DEF PoolInv, TypeOK, HeldWhileHandling, NoSharing, ClosedWhenUnused,
        Goto, work, embeds, life
<1>1. CASE OpenConnection(w)
  <2>1. Owing' = Owing \cup {w} /\ wait' = wait + 1
    BY <1>1 DEF OpenConnection, Owing
  <2>2. WaitCounts'
    BY <2>1, WaitJoined
  <2> QED
    BY <1>1, <2>2 DEF OpenConnection
<1>2. CASE PoolGet(w)
  <2>1. WaitCounts'
    BY <1>2, WaitKept DEF PoolGet, Owing
  <2>2. PICK d \in free : conn' = [conn EXCEPT ![w] = d] /\ free' = free \ {d}
    BY <1>2 DEF PoolGet
  <2>3. \A v \in Workers : conn[v] # d
    BY <2>2
  <2>4. TypeOK' /\ HeldWhileHandling' /\ ClosedWhenUnused'
    BY <1>2, <2>2 DEF PoolGet
  <2>5. NoSharing'
    BY <2>2, <2>3
  <2> QED
    BY <2>1, <2>4, <2>5
<1>3. CASE PoolGetFails(w)
  <2>1. WaitCounts'
    BY <1>3, WaitKept DEF PoolGetFails, Owing
  <2> QED
    BY <1>3, <2>1 DEF PoolGetFails
<1>4. CASE Start(w)
  <2>1. WaitCounts'
    BY <1>4, WaitKept DEF Start, Owing
  <2> QED
    BY <1>4, <2>1 DEF Start
<1>5. CASE StartPanics(w)
  <2>1. WaitCounts'
    BY <1>5, WaitKept DEF StartPanics, Owing
  <2> QED
    BY <1>5, <2>1 DEF StartPanics
<1>6. CASE ReturnEarly(w)
  <2>1. WaitCounts'
    BY <1>6, WaitKept DEF ReturnEarly, Owing
  <2> QED
    BY <1>6, <2>1 DEF ReturnEarly
<1>7. CASE Commit(w)
  <2>1. WaitCounts'
    BY <1>7, WaitKept DEF Commit, Owing
  <2> QED
    BY <1>7, <2>1 DEF Commit
<1>8. CASE Refuse(w)
  <2>1. WaitCounts'
    BY <1>8, WaitKept DEF Refuse, Owing
  <2> QED
    BY <1>8, <2>1 DEF Refuse
<1>9. CASE CommitAndEmbed(w)
  <2>1. WaitCounts'
    BY <1>9, WaitKept DEF CommitAndEmbed, Owing
  <2> QED
    BY <1>9, <2>1 DEF CommitAndEmbed
<1>10. CASE CloseConnection(w)
  <2>1. w \in Owing /\ Owing' = Owing \ {w} /\ wait' = wait - 1
    BY <1>10 DEF CloseConnection, Owing
  <2>2. WaitCounts' /\ wait' \in Nat
    BY <2>1, WaitLeft
  <2>3. conn[w] \in DBConns
    BY <1>10 DEF CloseConnection
  <2> QED
    BY <1>10, <2>2, <2>3 DEF CloseConnection
<1> QED
  BY <1>1, <1>2, <1>3, <1>4, <1>5, <1>6, <1>7, <1>8, <1>9, <1>10

\* The steps of TryEmbedURLs.
LEMMA EmbedPool ==
  ASSUME PoolInv, NEW w \in Workers,
         EmbedStart(w) \/ EmbedPanics(w) \/ EmbedCommit(w)
  PROVE  PoolInv'
<1> USE ConnPoolAssumption
    DEF PoolInv, TypeOK, HeldWhileHandling, NoSharing, ClosedWhenUnused,
        work, embeds, life
<1>1. CASE EmbedStart(w)
  <2>1. WaitCounts'
    BY <1>1, WaitKept DEF EmbedStart, Owing
  <2> QED
    BY <1>1, <2>1 DEF EmbedStart
<1>2. CASE EmbedPanics(w)
  <2>1. WaitCounts'
    BY <1>2, WaitKept DEF EmbedPanics, Owing
  <2> QED
    BY <1>2, <2>1 DEF EmbedPanics
<1>3. CASE EmbedCommit(w)
  <2>1. WaitCounts'
    BY <1>3, WaitKept DEF EmbedCommit, Owing
  <2> QED
    BY <1>3, <2>1 DEF EmbedCommit
<1> QED
  BY <1>1, <1>2, <1>3

\* When the wait of CloseDatabase ends, nobody owes a Done, so nobody holds a
\* connection.
LEMMA ShutdownPool ==
  ASSUME PoolInv, Cancel \/ CloseDatabase
  PROVE  PoolInv'
<1> USE DEF PoolInv, TypeOK, HeldWhileHandling, NoSharing, ClosedWhenUnused,
            work, embeds, life
<1>1. CASE Cancel
  <2>1. WaitCounts'
    BY <1>1, WaitKept DEF Cancel, Owing
  <2> QED
    BY <1>1, <2>1 DEF Cancel
<1>2. CASE CloseDatabase
  <2>1. WaitCounts'
    BY <1>2, WaitKept DEF CloseDatabase, Owing
  <2>2. Cardinality(Owing) = 0
    BY <1>2, OwingFinite DEF CloseDatabase, WaitCounts
  <2>3. Owing = {}
    BY <2>2, OwingFinite, FS_EmptySet
  <2>4. \A w \in Workers : conn[w] = None
    BY <2>3 DEF Owing
  <2> QED
    BY <1>2, <2>1, <2>4 DEF CloseDatabase
<1> QED
  BY <1>1, <1>2

\* Every step keeps the invariant.
LEMMA NextPool == PoolInv /\ [Next]_vars => PoolInv'
<1> SUFFICES ASSUME PoolInv, [Next]_vars PROVE PoolInv'
  OBVIOUS
<1>1. CASE UNCHANGED vars
  BY <1>1 DEF vars, work, embeds, life, PoolInv, TypeOK, HeldWhileHandling,
              NoSharing, WaitCounts, Owing, ClosedWhenUnused
<1>2. ASSUME NEW w \in Workers, Step(w) PROVE PoolInv'
  BY <1>2, WorkerPool, EmbedPool DEF Step
<1> QED
  BY <1>1, <1>2, ShutdownPool DEF Next

-----------------------------------------------------------------------------
\* Every variable keeps its type; above all, dbPoolWait never goes below zero,
\* where sync.WaitGroup panics.
THEOREM PoolTypeCorrect == Spec => []TypeOK
BY InitPool, NextPool, PTL DEF Spec, PoolInv

\* No two request loops ever hold the same connection, and none holds one that
\* the pool could hand out (OpenConnection, CloseConnection), whatever panics.  It is
\* about request loops, not about the goroutines of TryEmbedURLs.
THEOREM PoolNoSharing == Spec => []NoSharing
BY InitPool, NextPool, PTL DEF Spec, PoolInv

\* CloseDatabase never closes the pool under a request, however late requests
\* ask for connections.
THEOREM PoolClosedWhenUnused == Spec => []ClosedWhenUnused
BY InitPool, NextPool, PTL DEF Spec, PoolInv
=============================================================================
