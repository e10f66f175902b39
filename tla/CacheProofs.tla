----------------------------- MODULE CacheProofs -----------------------------
(***************************************************************************)
(* Proofs about Cache.tla for any number of clients and writers, any       *)
(* resource length and any flush threshold.                                *)
(***************************************************************************)
EXTENDS Cache, TLAPS

\* What TypeOK needs to be inductive: see InBounds.
TypeInv == TypeOK /\ InBounds

\* The type invariant holds of an empty cache.
LEMMA InitType == Init => TypeInv
BY CacheAssumption
   DEF Init, TypeInv, TypeOK, InBounds, Bytes, States, Filling, Waiting, Updating

\* A write below the end of the answer stays within the resource.
LEMMA PieceType ==
  ASSUME TypeOK, NEW p \in Procs, NEW n \in Nat, n <= Left(p)
  PROVE  /\ file \cup Piece(p, n) \in SUBSET Bytes
         /\ Piece(p, n) \in SUBSET Bytes
         /\ at[p] + got[p] + n <= Length
         /\ got[p] + n \in 0 .. Length
<1>1. /\ at[p] \in Nat /\ got[p] \in Nat /\ upto[p] \in Int /\ upto[p] < Length
      /\ Length \in Nat
  BY CacheAssumption DEF TypeOK
<1>2. at[p] + got[p] + n <= Length /\ got[p] + n \in 0 .. Length
  BY <1>1 DEF Left
<1>3. Piece(p, n) \subseteq Bytes
  BY <1>1, <1>2 DEF Piece, Bytes
<1> QED
  BY <1>2, <1>3 DEF TypeOK

\* The steps of a request keep every variable in its type.
LEMMA ClientType ==
  ASSUME TypeInv, NEW p \in Clients, ClientNext(p)
  PROVE  TypeInv'
<1> USE CacheAssumption
    DEF Procs, Bytes, local, disk, Goto, TypeInv, TypeOK, InBounds, States,
        Filling, Waiting, Updating
<1>1. CASE ServeExternal(p)
  BY <1>1 DEF ServeExternal
<1>2. CASE RangeInvalid(p)
  BY <1>2 DEF RangeInvalid
<1>3. CASE LookupHits(p)
  BY <1>3 DEF LookupHits, Aim
<1>4. CASE LookupMisses(p)
  BY <1>4 DEF LookupMisses
<1>5. CASE ServeHit(p)
  BY <1>5 DEF ServeHit, Left
<1>6. CASE EndHit(p)
  BY <1>6 DEF EndHit, Aim
<1>7. CASE Bypass(p)
  BY <1>7 DEF Bypass
<1>8. CASE OriginReplies(p)
  BY <1>8 DEF OriginReplies, Aim
<1>9. CASE Read(p)
  <2>1. PICK n \in 1 .. Left(p) : \E k \in Reaches(n) :
          /\ file' = file \cup Piece(p, k)
          /\ lost' = lost \cup (Piece(p, n) \ Piece(p, k))
          /\ got' = [got EXCEPT ![p] = @ + n]
          /\ unsaved' = [unsaved EXCEPT ![p] = @ + n]
          /\ pc' = [pc EXCEPT ![p] =
                      IF unsaved[p] + n > FlushAfter THEN "flush" ELSE "fetch"]
    BY <1>9 DEF Read
  <2>2. PICK k \in Reaches(n) : /\ file' = file \cup Piece(p, k)
                                /\ lost' = lost \cup (Piece(p, n) \ Piece(p, k))
    BY <2>1
  <2>3. n \in Nat /\ k \in Nat /\ n <= Left(p) /\ k <= Left(p)
    BY <2>1, <2>2 DEF Reaches, Left
  <2>4. file' \in SUBSET Bytes /\ lost' \in SUBSET Bytes
    BY <2>2, <2>3, PieceType
  <2>5. at[p] + got[p] + n <= Length /\ got[p] + n \in 0 .. Length
    BY <2>3, PieceType
  <2>6. /\ got' \in [Procs -> 0 .. Length]
        /\ unsaved' \in [Procs -> Nat]
        /\ pc' \in [Procs -> States]
    BY <2>1, <2>5
  <2>7. InBounds'
    BY <1>9, <2>1, <2>5 DEF Read
  <2> QED
    BY <1>9, <2>4, <2>6, <2>7 DEF Read
<1>10. CASE HitFails(p)
  BY <1>10 DEF HitFails
<1> QED
  BY <1>1, <1>2, <1>3, <1>4, <1>5, <1>6, <1>7, <1>8, <1>9, <1>10 DEF ClientNext

\* So do the steps of a CacheWriter.
LEMMA WriterType ==
  ASSUME TypeInv, NEW p \in Writers, WriterNext(p)
  PROVE  TypeInv'
<1> USE CacheAssumption
    DEF Procs, Bytes, local, disk, Goto, TypeInv, TypeOK, InBounds, States,
        Filling, Waiting, Updating
<1>1. CASE GetCacheWriter(p)
  BY <1>1 DEF GetCacheWriter, Aim
<1>2. CASE Write(p)
  <2>1. PICK n \in 1 .. Left(p) : /\ file' = file \cup Piece(p, n)
                                 /\ got' = [got EXCEPT ![p] = @ + n]
    BY <1>2 DEF Write
  <2>2. n \in Nat /\ n <= Left(p)
    BY <2>1 DEF Left
  <2>3. /\ file' \in SUBSET Bytes
        /\ at[p] + got[p] + n <= Length
        /\ got[p] + n \in 0 .. Length
    BY <2>1, <2>2, PieceType
  <2>4. got' \in [Procs -> 0 .. Length] /\ InBounds'
    BY <1>2, <2>1, <2>3 DEF Write
  <2> QED
    BY <1>2, <2>3, <2>4 DEF Write
<1>3. CASE WriteFails(p)
  <2>1. PICK k \in 0 .. Left(p) : file' = file \cup Piece(p, k)
    BY <1>3 DEF WriteFails
  <2>2. k \in Nat /\ k <= Left(p)
    BY <2>1 DEF Left
  <2>3. file' \in SUBSET Bytes
    BY <2>1, <2>2, PieceType
  <2> QED
    BY <1>3, <2>3 DEF WriteFails
<1> QED
  BY <1>1, <1>2, <1>3 DEF WriterNext

\* So do the steps of an update.
LEMMA UpdateType ==
  ASSUME TypeInv, NEW p \in Procs, UpdateNext(p)
  PROVE  TypeInv'
<1> USE CacheAssumption
    DEF Bytes, local, disk, Goto, TypeInv, TypeOK, InBounds, States,
        Filling, Waiting, Updating
<1>1. CASE Close(p)
  BY <1>1 DEF Close
<1>2. CASE BeginUpdate(p)
  <2>1. Fetched(p) \in SUBSET Bytes
    BY <1>2 DEF BeginUpdate, Fetched
  <2> QED
    BY <1>2, <2>1 DEF BeginUpdate
<1>6. CASE BeginUpdateForgets(p)
  <2>1. Fetched(p) \in SUBSET Bytes
    BY <1>6 DEF BeginUpdateForgets, Fetched
  <2> QED
    BY <1>6, <2>1 DEF BeginUpdateForgets
<1>3. CASE EndUpdate(p)
  BY <1>3 DEF EndUpdate, Return, Aim
<1>4. CASE EndUpdateFails(p)
  BY <1>4 DEF EndUpdateFails, Return, Aim
<1>5. CASE UpdateFails(p)
  <2>1. CASE pc[p] \in {"flush", "flushing"}
    BY <1>5, <2>1 DEF UpdateFails, Return
  <2>2. CASE pc[p] \notin {"flush", "flushing"}
    BY <1>5, <2>2 DEF UpdateFails, Return, Aim
  <2> QED
    BY <2>1, <2>2
<1> QED
  BY <1>1, <1>2, <1>3, <1>4, <1>5, <1>6 DEF UpdateNext

\* A restart keeps the types too.
LEMMA CrashType ==
  ASSUME TypeInv, Crash
  PROVE  TypeInv'
BY CacheAssumption
   DEF TypeInv, TypeOK, InBounds, Crash, disk, Bytes, States, Filling,
       Waiting, Updating

\* Every step preserves the type invariant.
LEMMA NextType == TypeInv /\ [Next]_vars => TypeInv'
<1> SUFFICES ASSUME TypeInv, [Next]_vars
             PROVE  TypeInv'
  OBVIOUS
<1>1. CASE Next
  BY <1>1, ClientType, WriterType, UpdateType, CrashType DEF Next
<1>2. CASE UNCHANGED vars
  BY <1>2 DEF TypeInv, TypeOK, InBounds, vars, local, disk
<1> QED
  BY <1>1, <1>2

\* Every variable of the cache keeps its type; in particular a metadata update
\* never records an offset outside the resource.
THEOREM TypeCorrect == Spec => []TypeOK
<1>1. TypeInv => TypeOK
  BY DEF TypeInv
<1> QED
  BY <1>1, InitType, NextType, PTL DEF Spec

-----------------------------------------------------------------------------
\* Soundness of the claims: no step takes a byte out of the file, and each of
\* the three ways a goroutine holds bytes (received, about to record, claimed)
\* only ever names bytes of the file.
Sound == MetaSound /\ ProgressSound /\ HitSound

\* An empty cache claims nothing.
LEMMA InitSound == Init => Sound
BY DEF Init, Sound, MetaSound, ProgressSound, HitSound, Filling, Waiting, Updating

\* The steps of a request keep the claims sound.
LEMMA ClientSound ==
  ASSUME TypeInv, Sound, NEW p \in Clients, ClientNext(p)
  PROVE  Sound'
<1> USE CacheAssumption
    DEF Procs, local, disk, Goto, Sound, MetaSound, ProgressSound, HitSound,
        Filling, Waiting, Updating
<1>1. CASE ServeExternal(p)
  BY <1>1 DEF ServeExternal, Fetched, TypeInv, TypeOK
<1>2. CASE RangeInvalid(p)
  BY <1>2 DEF RangeInvalid, Fetched, TypeInv, TypeOK
<1>3. CASE LookupHits(p)
  <2>1. PICK start \in 0 .. Length, end \in -1 .. Length, stop \in Bytes :
          Hit(start, Resolve(end), stop) /\ Aim(p, start, stop)
    BY <1>3 DEF LookupHits
  <2>2. start .. stop \subseteq claimed
    BY <2>1 DEF Hit, Resolve, Bytes
  <2>3. at'[p] = start /\ got'[p] = 0 /\ upto'[p] = stop /\ pc'[p] = "hit"
    BY <1>3, <2>1 DEF LookupHits, Aim, TypeInv, TypeOK
  <2>4. at'[p] + got'[p] .. upto'[p] \subseteq file' \cup lost'
    BY <1>3, <2>2, <2>3 DEF LookupHits
  <2>5. \A q \in Procs \ {p} : /\ at'[q] = at[q] /\ got'[q] = got[q]
                               /\ upto'[q] = upto[q] /\ pc'[q] = pc[q]
    BY <1>3, <2>1 DEF LookupHits, Aim, TypeInv, TypeOK
  <2> QED
    BY <1>3, <2>3, <2>4, <2>5 DEF LookupHits, Fetched
<1>4. CASE LookupMisses(p)
  BY <1>4 DEF LookupMisses, Fetched, TypeInv, TypeOK
<1>5. CASE ServeHit(p)
  <2>1. PICK n \in 1 .. Left(p) : got' = [got EXCEPT ![p] = @ + n]
    BY <1>5 DEF ServeHit
  <2>2. at[p] \in Int /\ got[p] \in Int /\ upto[p] \in Int /\ n \in Nat
    BY <2>1 DEF TypeInv, TypeOK, Left
  <2>3. at[p] + got'[p] .. upto[p] \subseteq at[p] + got[p] .. upto[p]
    BY <2>1, <2>2 DEF TypeInv, TypeOK
  <2>4. \A q \in Procs \ {p} : got'[q] = got[q]
    BY <2>1 DEF TypeInv, TypeOK
  <2> QED
    BY <1>5, <2>3, <2>4 DEF ServeHit, Fetched
<1>6. CASE EndHit(p)
  <2>1. \A q \in Procs \ {p} : /\ at'[q] = at[q] /\ got'[q] = got[q]
                               /\ upto'[q] = upto[q] /\ pc'[q] = pc[q]
    BY <1>6 DEF EndHit, Aim, TypeInv, TypeOK
  <2> QED
    BY <1>6, <2>1 DEF EndHit, Fetched, TypeInv, TypeOK
<1>7. CASE Bypass(p)
  BY <1>7 DEF Bypass, Fetched, TypeInv, TypeOK
<1>8. CASE OriginReplies(p)
  <2>1. PICK start \in Bytes : \E end \in start .. Length - 1 : Aim(p, start, end)
    BY <1>8 DEF OriginReplies
  <2>2. at'[p] = start /\ got'[p] = 0 /\ pc'[p] = "fetch"
    BY <1>8, <2>1 DEF OriginReplies, Aim, TypeInv, TypeOK
  <2>3. at'[p] .. at'[p] + got'[p] - 1 = {}
    BY <2>2 DEF Bytes
  <2>4. \A q \in Procs \ {p} : /\ at'[q] = at[q] /\ got'[q] = got[q]
                               /\ upto'[q] = upto[q] /\ pc'[q] = pc[q]
    BY <1>8, <2>1 DEF OriginReplies, Aim, TypeInv, TypeOK
  <2> QED
    BY <1>8, <2>2, <2>3, <2>4 DEF OriginReplies, Fetched
<1>9. CASE Read(p)
  <2>1. PICK n \in 1 .. Left(p) : \E k \in Reaches(n) :
          /\ file' = file \cup Piece(p, k)
          /\ lost' = lost \cup (Piece(p, n) \ Piece(p, k))
          /\ got' = [got EXCEPT ![p] = @ + n]
          /\ pc' = [pc EXCEPT ![p] =
                      IF unsaved[p] + n > FlushAfter THEN "flush" ELSE "fetch"]
    BY <1>9 DEF Read
  <2>2. at[p] \in Int /\ got[p] \in Int /\ n \in Nat /\ got'[p] = got[p] + n
    BY <2>1 DEF TypeInv, TypeOK, Left
  <2>3. file \cup lost \subseteq file' \cup lost' /\ Piece(p, n) \subseteq file' \cup lost'
    BY <2>1
  <2>4. at[p] .. at[p] + got'[p] - 1 \subseteq Fetched(p) \cup Piece(p, n)
    BY <2>2 DEF Fetched, Piece
  <2>5. at[p] .. at[p] + got'[p] - 1 \subseteq file' \cup lost'
    BY <1>9, <2>3, <2>4 DEF Read
  <2>6. \A q \in Procs \ {p} : got'[q] = got[q] /\ pc'[q] = pc[q]
    BY <2>1 DEF TypeInv, TypeOK
  <2>7. pc'[p] # "hit"
    BY <2>1 DEF TypeInv, TypeOK
  <2> QED
    BY <1>9, <2>3, <2>5, <2>6, <2>7 DEF Read, Fetched
<1>10. CASE HitFails(p)
  BY <1>10 DEF HitFails, Fetched, TypeInv, TypeOK
<1> QED
  BY <1>1, <1>2, <1>3, <1>4, <1>5, <1>6, <1>7, <1>8, <1>9, <1>10 DEF ClientNext

\* So do the steps of a CacheWriter.
LEMMA WriterSound ==
  ASSUME TypeInv, Sound, NEW p \in Writers, WriterNext(p)
  PROVE  Sound'
<1> USE CacheAssumption
    DEF Procs, local, disk, Goto, Sound, MetaSound, ProgressSound, HitSound,
        Filling, Waiting, Updating
<1>1. CASE GetCacheWriter(p)
  <2>1. at'[p] = 0 /\ got'[p] = 0 /\ pc'[p] = "write"
    BY <1>1 DEF GetCacheWriter, Aim, TypeInv, TypeOK
  <2>2. at'[p] .. at'[p] + got'[p] - 1 = {}
    BY <2>1
  <2>3. \A q \in Procs \ {p} : /\ at'[q] = at[q] /\ got'[q] = got[q]
                               /\ upto'[q] = upto[q] /\ pc'[q] = pc[q]
    BY <1>1 DEF GetCacheWriter, Aim, TypeInv, TypeOK
  <2> QED
    BY <1>1, <2>1, <2>2, <2>3 DEF GetCacheWriter, Fetched
<1>2. CASE Write(p)
  <2>1. PICK n \in 1 .. Left(p) : /\ file' = file \cup Piece(p, n)
                                 /\ got' = [got EXCEPT ![p] = @ + n]
    BY <1>2 DEF Write
  <2>2. at[p] \in Int /\ got[p] \in Int /\ n \in Nat /\ got'[p] = got[p] + n
    BY <2>1 DEF TypeInv, TypeOK, Left
  <2>3. at[p] .. at[p] + got'[p] - 1 \subseteq file' \cup lost'
    BY <1>2, <2>1, <2>2 DEF Write, Fetched, Piece
  <2>4. \A q \in Procs \ {p} : got'[q] = got[q]
    BY <2>1 DEF TypeInv, TypeOK
  <2>5. file \subseteq file'
    BY <2>1
  <2> QED
    BY <1>2, <2>3, <2>4, <2>5 DEF Write, Fetched
<1>3. CASE WriteFails(p)
  <2>1. file \subseteq file'
    BY <1>3 DEF WriteFails
  <2>2. /\ pc'[p] = "close" /\ pc[p] = "write"
        /\ \A q \in Procs \ {p} : pc'[q] = pc[q]
    BY <1>3 DEF WriteFails, TypeInv, TypeOK
  <2> QED
    BY <1>3, <2>1, <2>2 DEF WriteFails, Fetched
<1> QED
  BY <1>1, <1>2, <1>3 DEF WriterNext

\* So do the steps of an update, which record only what was received.
LEMMA UpdateSound ==
  ASSUME TypeInv, Sound, NEW p \in Procs, UpdateNext(p)
  PROVE  Sound'
<1> USE CacheAssumption
    DEF local, disk, Goto, Sound, MetaSound, ProgressSound, HitSound,
        Filling, Waiting, Updating
<1>1. CASE Close(p)
  BY <1>1 DEF Close, Fetched, TypeInv, TypeOK
<1>2. CASE BeginUpdate(p)
  <2>1. Fetched(p) \subseteq file \cup lost
    BY <1>2 DEF BeginUpdate
  <2>2. /\ pending'[p] = claimed \cup Fetched(p)
        /\ \A q \in Procs \ {p} : pending'[q] = pending[q] /\ pc'[q] = pc[q]
        /\ pc'[p] \in {"flushing", "closing"}
    BY <1>2 DEF BeginUpdate, TypeInv, TypeOK
  <2> QED
    BY <1>2, <2>1, <2>2 DEF BeginUpdate, Fetched
<1>7. CASE BeginUpdateForgets(p)
  <2>1. Fetched(p) \subseteq file \cup lost
    BY <1>7 DEF BeginUpdateForgets
  <2>2. /\ pending'[p] = Fetched(p)
        /\ \A q \in Procs \ {p} : pending'[q] = pending[q] /\ pc'[q] = pc[q]
        /\ pc'[p] \in {"flushing", "closing"}
    BY <1>7 DEF BeginUpdateForgets, TypeInv, TypeOK
  <2> QED
    BY <1>7, <2>1, <2>2 DEF BeginUpdateForgets, Fetched
<1>3. ASSUME Return(p), pc[p] \in Waiting \cup Updating, UNCHANGED <<file, lost>>,
             \/ pending' = [pending EXCEPT ![p] = {}]
             \/ pending' = pending
      PROVE  ProgressSound' /\ HitSound'
  <2>1. \A q \in Procs \ {p} : /\ at'[q] = at[q] /\ got'[q] = got[q]
                               /\ upto'[q] = upto[q] /\ pc'[q] = pc[q]
                               /\ pending'[q] = pending[q]
    BY <1>3 DEF Return, Aim, TypeInv, TypeOK
  <2>2. pending'[p] \subseteq file \cup lost
    BY <1>3 DEF TypeInv, TypeOK
  <2>3. \/ pc'[p] = "fetch" /\ at'[p] = at[p] /\ got'[p] = got[p]
        \/ pc'[p] = "idle"
    BY <1>3 DEF Return, TypeInv, TypeOK
  <2> QED
    BY <1>3, <2>1, <2>2, <2>3 DEF Fetched
<1>4. CASE EndUpdate(p)
  BY <1>3, <1>4 DEF EndUpdate
<1>5. CASE EndUpdateFails(p)
  BY <1>3, <1>5 DEF EndUpdateFails
<1>6. CASE UpdateFails(p)
  BY <1>3, <1>6 DEF UpdateFails
<1> QED
  BY <1>1, <1>2, <1>4, <1>5, <1>6, <1>7 DEF UpdateNext

\* Every step preserves the soundness invariant.
LEMMA NextSound ==
  ASSUME TypeInv, Sound, [Next]_vars
  PROVE  Sound'
<1>1. CASE Crash
  BY <1>1 DEF Crash, disk, Sound, MetaSound, ProgressSound, HitSound, Filling,
              Waiting, Updating
<1>2. CASE UNCHANGED vars
  BY <1>2 DEF vars, local, disk, Sound, MetaSound, ProgressSound, HitSound, Fetched
<1> QED
  BY <1>1, <1>2, ClientSound, WriterSound, UpdateSound DEF Next

\* The metadata claims no byte the data file does not hold, except those whose
\* failed write CacheMiss.Read ignored, and a hit that reads the file without the
\* lock reads such bytes only, however requests, previews, flushes, disk errors
\* and restarts interleave.
THEOREM CacheSound == Spec => []BytesSound
<1> DEFINE I == TypeInv /\ Sound
<1>1. Init => I
  BY InitType, InitSound
<1>2. I /\ [Next]_vars => I'
  BY NextType, NextSound
<1>3. I => BytesSound
  BY DEF Sound, BytesSound
<1> QED
  BY <1>1, <1>2, <1>3, PTL DEF Spec

-----------------------------------------------------------------------------
\* The read-modify-write of the metadata: at most one goroutine is inside it.
LEMMA InitLock == Init => LockSound
BY CacheAssumption DEF Init, LockSound, Updating

\* Every step keeps the update exclusive.
LEMMA NextLock ==
  ASSUME TypeInv, LockSound, [Next]_vars
  PROVE  LockSound'
<1> USE CacheAssumption DEF LockSound, Updating, Waiting, local, disk, Goto
<1>1. ASSUME NEW p \in Procs, NEW s \in States \ Updating, pc[p] \notin Updating,
             pc' = [pc EXCEPT ![p] = s], UNCHANGED <<lock, meta, claimed>>
      PROVE  LockSound'
  BY <1>1 DEF TypeInv, TypeOK
<1>2. ASSUME NEW p \in Clients, ClientNext(p)
      PROVE  LockSound'
  BY <1>1, <1>2
     DEF ClientNext, ServeExternal, RangeInvalid, LookupHits, LookupMisses,
         ServeHit, EndHit, HitFails, Bypass, OriginReplies, Read, Procs, States, Filling,
         TypeInv, TypeOK
<1>3. ASSUME NEW p \in Writers, WriterNext(p)
      PROVE  LockSound'
  BY <1>1, <1>3
     DEF WriterNext, GetCacheWriter, Write, WriteFails, Procs, States, Filling,
         TypeInv, TypeOK
<1>4. ASSUME NEW p \in Procs, UpdateNext(p)
      PROVE  LockSound'
  <2>1. CASE Close(p)
    BY <1>1, <2>1 DEF Close, States, Filling
  <2>2. CASE BeginUpdate(p)
    BY <2>2 DEF BeginUpdate, TypeInv, TypeOK
  <2>3. CASE EndUpdate(p)
    BY <2>3 DEF EndUpdate, Return, TypeInv, TypeOK
  <2>4. CASE EndUpdateFails(p)
    BY <2>4 DEF EndUpdateFails, Return, TypeInv, TypeOK
  <2>5. CASE UpdateFails(p)
    BY <2>5 DEF UpdateFails, Return, TypeInv, TypeOK
  <2>6. CASE BeginUpdateForgets(p)
    BY <2>6 DEF BeginUpdateForgets, TypeInv, TypeOK
  <2> QED
    BY <1>4, <2>1, <2>2, <2>3, <2>4, <2>5, <2>6 DEF UpdateNext
<1>5. CASE Crash
  BY <1>5 DEF Crash
<1>6. CASE UNCHANGED vars
  BY <1>6 DEF vars
<1> QED
  BY <1>2, <1>3, <1>4, <1>5, <1>6 DEF Next

\* A step other than a restart or one of the two failures of the disk only adds to
\* what the cache knows.
LEMMA StepKnown ==
  ASSUME TypeInv, LockSound, [Next]_vars
  PROVE  Forgets \/ Known \subseteq Known'
<1> USE CacheAssumption DEF Forgets, Known, LockSound, Updating, Waiting, local, disk, Goto
<1>1. ASSUME NEW p \in Clients, ClientNext(p)
      PROVE  Known' = Known
  BY <1>1
     DEF ClientNext, ServeExternal, RangeInvalid, LookupHits, LookupMisses,
         ServeHit, EndHit, HitFails, Bypass, OriginReplies, Read
<1>2. ASSUME NEW p \in Writers, WriterNext(p)
      PROVE  Known' = Known
  BY <1>2 DEF WriterNext, GetCacheWriter, Write, WriteFails
<1>3. ASSUME NEW p \in Procs, UpdateNext(p)
      PROVE  BeginUpdateForgets(p) \/ EndUpdateFails(p) \/ Known \subseteq Known'
  <2>1. CASE Close(p)
    BY <2>1 DEF Close
  <2>2. CASE BeginUpdate(p)
    BY <2>2 DEF BeginUpdate, TypeInv, TypeOK
  <2>3. CASE EndUpdate(p)
    BY <2>3 DEF EndUpdate
  <2> QED
    BY <1>3, <2>1, <2>2, <2>3 DEF UpdateNext, UpdateFails
<1>4. CASE UNCHANGED vars
  BY <1>4 DEF vars
<1> QED
  BY <1>1, <1>2, <1>3, <1>4 DEF Next

\* As long as the process lives and an update can read the metadata it finds and
\* encode what it writes, no update loses a byte another goroutine recorded:
\* UpdateCacheMetadata's read, merge and rewrite are one critical section.
THEOREM CacheNeverForgets == Spec => NeverForgets
<1> DEFINE I == TypeInv /\ LockSound
<1>1. Init => I
  BY InitType, InitLock
<1>2. I /\ [Next]_vars => I'
  BY NextType, NextLock
<1>3. I /\ [Next]_vars =>
        [Forgets \/ Known \subseteq Known']_vars
  BY StepKnown
<1> QED
  BY <1>1, <1>2, <1>3, PTL DEF Spec, NeverForgets

-----------------------------------------------------------------------------
(* The refinement of MediaCache.                                           *)

\* A step of a goroutine that is no answer from the cache, before or after,
\* changes nothing that is being served.
LEMMA SameServing ==
  ASSUME TypeInv, NEW p \in Procs, NEW s \in States \ {"hit"},
         pc[p] # "hit" \/ p \notin Clients, pc' = [pc EXCEPT ![p] = s],
         \A q \in Procs \ {p} : /\ at'[q] = at[q] /\ got'[q] = got[q]
                                /\ upto'[q] = upto[q]
  PROVE  Serving' = Serving
BY DEF Serving, Procs, TypeInv, TypeOK

\* The steps of a request: an answer from the cache is served what is known, and
\* what a miss receives is kept.
LEMMA ClientRefines ==
  ASSUME TypeInv, LockSound, NEW p \in Clients, ClientNext(p)
  PROVE  Media!Next \/ UNCHANGED Media!vars
<1> USE DEF Procs, local, disk, Goto
<1>1. CASE ServeExternal(p) \/ RangeInvalid(p) \/ LookupMisses(p) \/ Bypass(p)
  <2>1. UNCHANGED <<file, lost, Known>>
    BY <1>1 DEF ServeExternal, RangeInvalid, LookupMisses, Bypass, Known
  <2>2. PICK s \in States \ {"hit"} : pc' = [pc EXCEPT ![p] = s]
    BY <1>1 DEF ServeExternal, RangeInvalid, LookupMisses, Bypass, States
  <2>3. pc[p] # "hit" /\ UNCHANGED <<at, got, upto>>
    BY <1>1 DEF ServeExternal, RangeInvalid, LookupMisses, Bypass
  <2>4. Serving' = Serving
    BY <2>2, <2>3, SameServing
  <2> QED
    BY <2>1, <2>4 DEF Media!vars
<1>2. CASE LookupHits(p)
  <2>1. PICK start \in 0 .. Length, end \in -1 .. Length, stop \in Bytes :
          Hit(start, Resolve(end), stop) /\ Aim(p, start, stop)
    BY <1>2 DEF LookupHits
  <2>2. start .. stop \subseteq claimed /\ claimed = Known /\ Known \subseteq Bytes
    BY <1>2, <2>1 DEF LookupHits, Hit, Resolve, Bytes, Known, TypeInv, TypeOK
  <2>3. /\ at' = [at EXCEPT ![p] = start] /\ got' = [got EXCEPT ![p] = 0]
        /\ upto' = [upto EXCEPT ![p] = stop] /\ pc' = [pc EXCEPT ![p] = "hit"]
        /\ pc[p] # "hit"
    BY <1>2, <2>1 DEF LookupHits, Aim
  <2>4. Serving[p] = {} /\ Serving' = [Serving EXCEPT ![p] = start .. stop]
    <3>1. at'[p] + got'[p] = start /\ upto'[p] = stop /\ pc'[p] = "hit"
      BY <2>3, start + 0 = start DEF TypeInv, TypeOK
    <3>2. \A q \in Clients \ {p} : /\ pc'[q] = pc[q] /\ at'[q] = at[q]
                                   /\ got'[q] = got[q] /\ upto'[q] = upto[q]
      BY <2>3 DEF TypeInv, TypeOK
    <3>3. Serving[p] = {}
      BY <2>3 DEF Serving
    <3>4. \A q \in Clients \ {p} : Serving'[q] = Serving[q]
      BY <3>2 DEF Serving
    <3>5. Serving'[p] = start .. stop
      BY <3>1 DEF Serving
    <3>6. DOMAIN Serving = Clients /\ DOMAIN Serving' = Clients
          /\ Serving = [q \in Clients |-> Serving[q]] /\ Serving' = [q \in Clients |-> Serving'[q]]
      BY DEF Serving
    <3> QED
      BY <3>3, <3>4, <3>5, <3>6
  <2>5. UNCHANGED <<file, lost, Known>>
    BY <1>2 DEF LookupHits, Known
  <2>6. Media!Serve(p, start .. stop)
    BY <2>2, <2>4, <2>5 DEF Media!Serve
  <2> QED
    BY <2>2, <2>6 DEF Media!Next
<1>3. CASE ServeHit(p)
  <2>1. PICK n \in 1 .. Left(p) : got' = [got EXCEPT ![p] = @ + n]
    BY <1>3 DEF ServeHit
  <2>2. at[p] \in Int /\ got[p] \in Int /\ upto[p] \in Int /\ n \in Nat
    BY <2>1 DEF TypeInv, TypeOK, Left
  <2> DEFINE S == at[p] + (got[p] + n) .. upto[p]
  <2>3. S \subseteq at[p] + got[p] .. upto[p] /\ S \subseteq Bytes
    <3>1. /\ at[p] \in 0 .. Length /\ got[p] \in 0 .. Length
          /\ upto[p] \in -1 .. Length - 1
      BY DEF TypeInv, TypeOK
    <3> QED
      BY <2>2, <3>1, CacheAssumption DEF Bytes
  <2>4. Serving' = [Serving EXCEPT ![p] = S]
    BY <1>3, <2>1, <2>2 DEF ServeHit, Serving, TypeInv, TypeOK
  <2>5. UNCHANGED <<file, lost, Known>>
    BY <1>3 DEF ServeHit, Known
  <2>6. S \subseteq Serving[p]
    BY <1>3, <2>3 DEF ServeHit, Serving
  <2>7. Media!Proceed(p, S)
    BY <2>4, <2>5, <2>6 DEF Media!Proceed
  <2> QED
    BY <2>3, <2>7 DEF Media!Next
<1>4. CASE EndHit(p) \/ HitFails(p)
  <2>1. \A q \in Procs \ {p} : /\ at'[q] = at[q] /\ got'[q] = got[q]
                               /\ upto'[q] = upto[q] /\ pc'[q] = pc[q]
    BY <1>4 DEF EndHit, HitFails, Aim, TypeInv, TypeOK
  <2>2. pc'[p] # "hit"
    BY <1>4 DEF EndHit, HitFails, TypeInv, TypeOK
  <2>3. Serving' = [Serving EXCEPT ![p] = {}]
    BY <2>1, <2>2 DEF Serving
  <2>4. UNCHANGED <<file, lost, Known>>
    BY <1>4 DEF EndHit, HitFails, Known
  <2>5. Media!Proceed(p, {})
    BY <2>3, <2>4 DEF Media!Proceed
  <2> QED
    BY <2>5 DEF Media!Next
<1>5. CASE OriginReplies(p)
  <2>1. PICK start \in Bytes, end \in Int : Aim(p, start, end)
    BY <1>5, CacheAssumption DEF OriginReplies, Bytes
  <2>2. Serving' = Serving
    BY <1>5, <2>1 DEF OriginReplies, Aim, Serving, TypeInv, TypeOK
  <2>3. UNCHANGED <<file, lost, Known>>
    BY <1>5 DEF OriginReplies, Known
  <2> QED
    BY <2>2, <2>3 DEF Media!vars
<1>6. CASE Read(p)
  <2>1. PICK n \in 1 .. Left(p) : \E k \in Reaches(n) :
          /\ file' = file \cup Piece(p, k)
          /\ lost' = lost \cup (Piece(p, n) \ Piece(p, k))
          /\ got' = [got EXCEPT ![p] = @ + n]
          /\ pc' = [pc EXCEPT ![p] =
                      IF unsaved[p] + n > FlushAfter THEN "flush" ELSE "fetch"]
    BY <1>6 DEF Read
  <2>2. PICK k \in Reaches(n) : /\ file' = file \cup Piece(p, k)
                                /\ lost' = lost \cup (Piece(p, n) \ Piece(p, k))
    BY <2>1
  <2> DEFINE S == Piece(p, n) \cup Piece(p, k)
  <2>3. n \in Nat /\ k \in Nat /\ n <= Left(p) /\ k <= Left(p)
    <3>1. Left(p) \in Int
      BY DEF Left, TypeInv, TypeOK
    <3>2. k \in 0 .. n
      BY <3>1 DEF Reaches
    <3> QED
      BY <3>1, <3>2
  <2>4. S \subseteq Bytes
    BY <2>3, PieceType DEF TypeInv
  <2>5. file' \cup lost' = (file \cup lost) \cup S
    BY <2>2
  <2>6. Serving' = Serving
    BY <1>6, <2>1 DEF Read, Serving, TypeInv, TypeOK
  <2>7. Known' = Known
    BY <1>6 DEF Read, Known
  <2>8. Media!Keep(S)
    BY <2>5, <2>6, <2>7 DEF Media!Keep
  <2> QED
    BY <2>4, <2>8 DEF Media!Next
<1> QED
  BY <1>1, <1>2, <1>3, <1>4, <1>5, <1>6 DEF ClientNext

\* The steps of a preview: what it receives is kept.
LEMMA WriterRefines ==
  ASSUME TypeInv, NEW p \in Writers, WriterNext(p)
  PROVE  Media!Next \/ UNCHANGED Media!vars
<1> USE DEF Procs, local, disk, Goto
<1>1. UNCHANGED <<lost, Known>>
  BY DEF WriterNext, GetCacheWriter, Write, WriteFails, Known
<1>2. Serving' = Serving
  BY CacheAssumption
     DEF WriterNext, GetCacheWriter, Write, WriteFails, Aim, Serving, TypeInv, TypeOK
<1>3. \/ file' = file
      \/ \E n \in 0 .. Left(p) : file' = file \cup Piece(p, n)
  BY DEF WriterNext, GetCacheWriter, Write, WriteFails
<1>4. ASSUME NEW n \in 0 .. Left(p), file' = file \cup Piece(p, n)
      PROVE  Media!Next
  <2>1. n \in Nat /\ n <= Left(p)
    BY <1>4 DEF Left
  <2>2. Piece(p, n) \subseteq Bytes
    BY <2>1, PieceType DEF TypeInv
  <2>3. Media!Keep(Piece(p, n))
    BY <1>1, <1>2, <1>4 DEF Media!Keep
  <2> QED
    BY <2>2, <2>3 DEF Media!Next
<1> QED
  BY <1>1, <1>2, <1>3, <1>4 DEF Media!vars

\* The steps of an update: what was received is recorded when the list is merged,
\* and writing it back is invisible, unless the disk fails before or after.
LEMMA UpdateRefines ==
  ASSUME TypeInv, Sound, LockSound, NEW p \in Procs, UpdateNext(p)
  PROVE  Media!Next \/ UNCHANGED Media!vars
<1> USE DEF local, disk, Goto
<1>1. UNCHANGED <<file, lost>>
  BY DEF UpdateNext, Close, BeginUpdate, BeginUpdateForgets, EndUpdate,
         EndUpdateFails, UpdateFails
<1>2. Serving' = Serving
  <2>1. pc[p] # "hit"
    BY DEF UpdateNext, Close, BeginUpdate, BeginUpdateForgets, EndUpdate,
           EndUpdateFails, UpdateFails, Waiting, Updating
  <2>2. pc'[p] # "hit" /\ \A q \in Procs \ {p} : pc'[q] = pc[q]
    BY DEF UpdateNext, Close, BeginUpdate, BeginUpdateForgets, EndUpdate,
           EndUpdateFails, UpdateFails, Return, TypeInv, TypeOK
  <2>3. \A q \in Procs \ {p} : /\ at'[q] = at[q] /\ got'[q] = got[q]
                               /\ upto'[q] = upto[q]
    BY DEF UpdateNext, Close, BeginUpdate, BeginUpdateForgets, EndUpdate,
           EndUpdateFails, UpdateFails, Return, Aim, TypeInv, TypeOK
  <2> QED
    BY <2>1, <2>2, <2>3 DEF Serving, Procs
<1>3. CASE Close(p) \/ UpdateFails(p)
  <2>1. Known' = Known
    BY <1>3 DEF Close, UpdateFails, Known
  <2> QED
    BY <1>1, <1>2, <2>1 DEF Media!vars
<1>4. CASE BeginUpdate(p)
  <2>1. Known = claimed /\ Known' = claimed \cup Fetched(p)
    BY <1>4, CacheAssumption DEF BeginUpdate, Known, TypeInv, TypeOK
  <2>2. Fetched(p) \subseteq file \cup lost /\ Fetched(p) \subseteq Bytes
    BY <1>4 DEF BeginUpdate, Sound, ProgressSound, Filling, TypeInv, TypeOK, InBounds,
                Fetched, Bytes
  <2>3. Media!Record(Fetched(p))
    BY <1>1, <1>2, <2>1, <2>2 DEF Media!Record
  <2> QED
    BY <2>2, <2>3 DEF Media!Next
<1>5. CASE EndUpdate(p)
  <2>1. lock = p
    BY <1>5 DEF EndUpdate, LockSound
  <2>2. Known' = Known
    BY <1>5, <2>1, CacheAssumption DEF EndUpdate, Known
  <2> QED
    BY <1>1, <1>2, <2>2 DEF Media!vars
<1>7. CASE BeginUpdateForgets(p)
  <2>1. Known' = Fetched(p)
    BY <1>7, CacheAssumption DEF BeginUpdateForgets, Known, TypeInv, TypeOK
  <2>2. Fetched(p) \subseteq file \cup lost /\ Fetched(p) \subseteq Bytes
    BY <1>7 DEF BeginUpdateForgets, Sound, ProgressSound, Filling, TypeInv, TypeOK,
                InBounds, Fetched, Bytes
  <2>3. Media!Spoil(Fetched(p))
    BY <1>1, <1>2, <1>7, <2>1, <2>2 DEF BeginUpdateForgets, Media!Spoil
  <2> QED
    BY <2>2, <2>3 DEF Media!Next
<1>6. CASE EndUpdateFails(p)
  <2>1. lock = p /\ claimed = {}
    BY <1>6, CacheAssumption DEF EndUpdateFails, LockSound
  <2>2. Known' = {}
    BY <1>6, <2>1, CacheAssumption DEF EndUpdateFails, Known
  <2>3. Media!Spoil({})
    BY <1>1, <1>2, <1>6, <2>2 DEF EndUpdateFails, Media!Spoil
  <2> QED
    BY <2>2, <2>3 DEF Media!Next
<1> QED
  BY <1>3, <1>4, <1>5, <1>6, <1>7 DEF UpdateNext

\* A restart loses at most the record that was being written.
LEMMA CrashRefines ==
  ASSUME TypeInv, LockSound, Crash
  PROVE  Media!Next
<1> DEFINE S == Known \ claimed
<1>1. Known \subseteq Bytes /\ claimed \subseteq Known
  BY CacheAssumption DEF Known, LockSound, TypeInv, TypeOK
<1>2. Known' = Known \ S
  BY <1>1 DEF Crash, disk, Known
<1>3. Serving' = [p \in Clients |-> {}]
  BY DEF Crash, Serving, Procs
<1>4. Media!Restart(S)
  BY <1>2, <1>3 DEF Media!Restart, Crash, disk
<1> QED
  BY <1>1, <1>4 DEF Media!Next

\* The detailed cache implements the abstract one: for its readers, the locks, the
\* two-step rewriting of the metadata and the flushes are one atomic record of kept
\* bytes, of which answers are made.
THEOREM CacheRefines == Spec => ImplementsMediaCache
<1> DEFINE I == TypeInv /\ Sound /\ LockSound
<1>1. Init => I /\ Media!Init
  BY InitType, InitSound, InitLock DEF Init, Media!Init, Known, Serving, Procs
<1>2. I /\ [Next]_vars => I'
  BY NextType, NextSound, NextLock
<1>3. I /\ [Next]_vars => [Media!Next]_(Media!vars)
  <2> SUFFICES ASSUME I, [Next]_vars
               PROVE  Media!Next \/ UNCHANGED Media!vars
    OBVIOUS
  <2>1. CASE UNCHANGED vars
    BY <2>1 DEF vars, local, disk, Media!vars, Known, Serving
  <2> QED
    BY <2>1, ClientRefines, WriterRefines, UpdateRefines, CrashRefines DEF Next
<1> QED
  BY <1>1, <1>2, <1>3, PTL DEF Spec, ImplementsMediaCache, Media!Spec

\* No step of the abstract cache gives a reader a byte that is not kept.
LEMMA MediaStep == Media!Faithful /\ [Media!Next]_(Media!vars) => Media!Faithful'
<1> SUFFICES ASSUME Media!Faithful, [Media!Next]_(Media!vars)
             PROVE  Media!Faithful'
  OBVIOUS
<1> USE DEF Media!Faithful
<1>1. CASE UNCHANGED Media!vars
  BY <1>1 DEF Media!vars
<1>2. ASSUME NEW S \in SUBSET Bytes,
             Media!Keep(S) \/ Media!Record(S) \/ Media!Spoil(S) \/ Media!Restart(S)
      PROVE  Media!Faithful'
  BY <1>2 DEF Media!Keep, Media!Record, Media!Spoil, Media!Restart
<1>3. ASSUME NEW r \in Clients, NEW S \in SUBSET Bytes,
             Media!Serve(r, S) \/ Media!Proceed(r, S)
      PROVE  Media!Faithful'
  BY <1>3 DEF Media!Serve, Media!Proceed, Serving
<1> QED
  BY <1>1, <1>2, <1>3 DEF Media!Next

\* The abstract cache keeps its promise: no answer has a byte that is not kept.  So
\* no answer from a cache that implements it does (TryServeCached, cache.go:337-357).
THEOREM MediaFaithful == Media!Spec => []Media!Faithful
<1>1. Media!Init => Media!Faithful
  BY DEF Media!Init, Media!Faithful, Serving
<1> QED
  BY <1>1, MediaStep, PTL DEF Media!Spec
=============================================================================
