-------------------------------- MODULE Cache --------------------------------
(***************************************************************************)
(* One entry of the external-media cache (common/cache/cache.go): the data *)
(* file, the metadata file beside it that says which bytes of it are good, *)
(* and the goroutines that use them at once:                               *)
(*                                                                         *)
(*   Clients  HTTP requests in ServeExternal, which look the range up      *)
(*            (TryServeCached) and otherwise proxy the origin's answer     *)
(*            through a CacheMiss (TryServeUncached);                      *)
(*   Writers  the embedder's GetVideoPreviews, which tees a download into  *)
(*            a CacheWriter.                                               *)
(*                                                                         *)
(* Only the metadata is locked (GetCacheLock, one RWMutex per URL, so the  *)
(* entries are independent): the data file is read and written without it. *)
(* A byte is modelled by its offset: the file is the set of offsets that   *)
(* hold the origin's byte, a range list the set of offsets it covers       *)
(* (CacheRanges.tla checks that reading of the two loops of the code).     *)
(* The origin is assumed to serve one version of the resource.             *)
(***************************************************************************)
EXTENDS Integers

CONSTANTS Clients,      \* requests for this URL
          Writers,      \* previews being made from this URL
          None,         \* no goroutine
          Length,       \* bytes of the resource
          FlushAfter,   \* unsaved bytes before Read saves (1 MiB in the code)
          DiskFaults    \* whether opening, reading or writing a file may fail

Procs == Clients \cup Writers
Bytes == 0 .. Length - 1

ASSUME CacheAssumption ==
  /\ None \notin Procs
  /\ Clients \cap Writers = {}
  /\ Length \in Nat \ {0}
  /\ FlushAfter \in Nat
  /\ DiskFaults \in BOOLEAN

VARIABLES
  pc,         \* where each goroutine stands
  at,         \* CacheMiss.start, CacheWriter.start, or the start of a hit
  got,        \* CacheMiss.progress, or how much of a hit was read
  upto,       \* the last byte this answer has
  unsaved,    \* CacheMiss.progressSinceUpdate
  pending,    \* the metadata a goroutine inside UpdateCacheMetadata will encode
  lock,       \* the holder of the write lock
  meta,       \* the metadata file: "absent", "torn" (truncated) or "valid"
  claimed,    \* the bytes a valid metadata file covers
  file,       \* the bytes of the data file that hold the origin's byte
  lost        \* history: bytes whose failed write CacheMiss.Read ignored

local == <<at, got, upto, unsaved>>
disk  == <<meta, claimed, file, lost>>
vars  == <<pc, local, pending, lock, disk>>

Waiting  == {"flush", "close"}          \* at c.lock.Lock()
Updating == {"flushing", "closing"}     \* inside UpdateCacheMetadata
Filling  == {"fetch", "write"} \cup Waiting \cup Updating
States   == {"idle", "lookup", "uncached", "hit"} \cup Filling

TypeOK ==
  /\ pc \in [Procs -> States]
  /\ at \in [Procs -> 0 .. Length]
  /\ got \in [Procs -> 0 .. Length]
  /\ upto \in [Procs -> -1 .. Length - 1]
  /\ unsaved \in [Procs -> Nat]
  /\ pending \in [Procs -> SUBSET Bytes]
  /\ lock \in Procs \cup {None}
  /\ meta \in {"absent", "torn", "valid"}
  /\ claimed \in SUBSET Bytes
  /\ file \in SUBSET Bytes
  /\ lost \in SUBSET Bytes

\* The bytes a goroutine has received so far.
Fetched(p) == at[p] .. at[p] + got[p] - 1

\* What is still to come of the answer it is reading.
Left(p) == upto[p] + 1 - (at[p] + got[p])

\* The next n bytes of that answer.
Piece(p, n) == at[p] + got[p] .. at[p] + got[p] + n - 1

\* How many bytes of a write of n reach the file.
Reaches(n) == IF DiskFaults THEN 0 .. n ELSE {n}

Init ==
  /\ pc = [p \in Procs |-> "idle"]
  /\ at = [p \in Procs |-> 0]
  /\ got = [p \in Procs |-> 0]
  /\ upto = [p \in Procs |-> -1]
  /\ unsaved = [p \in Procs |-> 0]
  /\ pending = [p \in Procs |-> {}]
  /\ lock = None
  /\ meta = "absent"
  /\ claimed = {}
  /\ file = {}
  /\ lost = {}

\* Goroutine p turns to the bytes from start to end.
Aim(p, start, end) ==
  /\ at' = [at EXCEPT ![p] = start]
  /\ got' = [got EXCEPT ![p] = 0]
  /\ upto' = [upto EXCEPT ![p] = end]
  /\ unsaved' = [unsaved EXCEPT ![p] = 0]

Goto(p, s) == pc' = [pc EXCEPT ![p] = s]

-----------------------------------------------------------------------------
(* TryServeCached.                                                         *)

\* ServeExternal starts: os.Stat, outside the lock, sends a request for a
\* resource nobody recorded straight to the origin.
ServeExternal(p) ==
  /\ pc[p] = "idle"
  /\ Goto(p, IF meta = "absent" THEN "uncached" ELSE "lookup")
  /\ UNCHANGED <<local, pending, lock, disk>>

\* A Range header that does not parse is answered 416 and proxied all the same,
\* without a look at the metadata.
RangeInvalid(p) ==
  /\ pc[p] = "lookup"
  /\ Goto(p, "uncached")
  /\ UNCHANGED <<local, pending, lock, disk>>

Resolve(end) == IF end = -1 THEN Length - 1 ELSE end

\* Mutant: serves up to the requested end whenever the first byte is there.
HitOverrun(start, end, stop) == start \in claimed /\ stop = end

\* The bytes start..stop are what GetCachedRange answers a request for
\* start..end with, when it is a hit: the longest cached run, or an empty
\* range for an inverted request whose end is cached.
Hit(start, end, stop) ==
  IF start <= end
    THEN /\ start .. stop \subseteq claimed
         /\ start <= stop
         /\ stop = end \/ (stop < end /\ stop + 1 \notin claimed)
    ELSE end \in claimed /\ stop = end

\* The metadata is read under RLock, which excludes a writer; the file is read
\* afterwards, without it.
LookupHits(p) ==
  /\ pc[p] = "lookup"
  /\ lock = None
  /\ meta = "valid"
  /\ \E start \in 0 .. Length, end \in -1 .. Length, stop \in Bytes :
       /\ Hit(start, Resolve(end), stop)
       /\ Aim(p, start, stop)
  /\ Goto(p, "hit")
  /\ UNCHANGED <<pending, lock, disk>>

\* The metadata does not decode, or the first byte asked for is not cached
\* (one past the end never is): the origin is asked.
LookupMisses(p) ==
  /\ pc[p] = "lookup"
  /\ lock = None
  /\ Goto(p, "uncached")
  /\ UNCHANGED <<local, pending, lock, disk>>

\* io.Copy reads the section of the file piece by piece.
ServeHit(p) ==
  /\ pc[p] = "hit"
  /\ \E n \in 1 .. Left(p) : got' = [got EXCEPT ![p] = @ + n]
  /\ UNCHANGED <<pc, at, upto, unsaved, pending, lock, disk>>

\* The section is done, or the client has gone.
EndHit(p) ==
  /\ pc[p] = "hit"
  /\ Aim(p, 0, -1)
  /\ Goto(p, "idle")
  /\ UNCHANGED <<pending, lock, disk>>

\* The data file does not open, after the headers went out: the origin is asked
\* all the same.
HitFails(p) ==
  /\ DiskFaults
  /\ pc[p] = "hit"
  /\ got[p] = 0
  /\ Goto(p, "uncached")
  /\ UNCHANGED <<local, pending, lock, disk>>

-----------------------------------------------------------------------------
(* TryServeUncached.                                                       *)

\* No usable answer, one of unknown length, which is copied uncached, or a data
\* file that does not open.
Bypass(p) ==
  /\ pc[p] = "uncached"
  /\ Goto(p, "idle")
  /\ UNCHANGED <<local, pending, lock, disk>>

\* The origin answers with the whole resource (200) or with a part of it (206
\* and a Content-Range): the CacheMiss starts at that part's first byte.
OriginReplies(p) ==
  /\ pc[p] = "uncached"
  /\ \E start \in Bytes : \E end \in start .. Length - 1 : Aim(p, start, end)
  /\ Goto(p, "fetch")
  /\ UNCHANGED <<pending, lock, disk>>

\* Mutant: the progress is counted before the bytes are written.
ReadCountsFirst(p) ==
  /\ pc[p] = "fetch"
  /\ \E n \in 1 .. Left(p) :
       /\ got' = [got EXCEPT ![p] = @ + n]
       /\ unsaved' = [unsaved EXCEPT ![p] = @ + n]
       /\ Goto(p, IF unsaved[p] + n > FlushAfter THEN "flush" ELSE "fetch")
       /\ file' = file \cup Fetched(p)
  /\ UNCHANGED <<at, upto, pending, lock, meta, claimed, lost>>

\* Mutant: reads one byte more than the answer has.
ReadPastEnd(p) ==
  /\ pc[p] = "fetch"
  /\ \E n \in 1 .. Left(p) + 1 :
       /\ file' = file \cup Piece(p, n)
       /\ got' = [got EXCEPT ![p] = @ + n]
       /\ unsaved' = [unsaved EXCEPT ![p] = @ + n]
       /\ Goto(p, IF unsaved[p] + n > FlushAfter THEN "flush" ELSE "fetch")
  /\ UNCHANGED <<at, upto, pending, lock, meta, claimed, lost>>

\* CacheMiss.Read: n bytes come from the origin and are written at
\* start+progress.  The error of that Write is ignored: the progress counts
\* all n of them even when only k reached the file.
Read(p) ==
  /\ pc[p] = "fetch"
  /\ \E n \in 1 .. Left(p) : \E k \in Reaches(n) :
       /\ file' = file \cup Piece(p, k)
       /\ lost' = lost \cup (Piece(p, n) \ Piece(p, k))
       /\ got' = [got EXCEPT ![p] = @ + n]
       /\ unsaved' = [unsaved EXCEPT ![p] = @ + n]
       /\ Goto(p, IF unsaved[p] + n > FlushAfter THEN "flush" ELSE "fetch")
  /\ UNCHANGED <<at, upto, pending, lock, meta, claimed>>

\* The body ended, the origin failed mid-way or the client has gone: io.Copy
\* returns, or the tee's reader stops, and Close is called.
Close(p) ==
  /\ pc[p] \in {"fetch", "write"}
  /\ Goto(p, "close")
  /\ UNCHANGED <<local, pending, lock, disk>>

-----------------------------------------------------------------------------
(* CacheWriter.                                                            *)

GetCacheWriter(p) ==
  /\ pc[p] = "idle"
  /\ Aim(p, 0, Length - 1)
  /\ Goto(p, "write")
  /\ UNCHANGED <<pending, lock, disk>>

\* CacheWriter.Write: only a write without error counts as progress.
Write(p) ==
  /\ pc[p] = "write"
  /\ \E n \in 1 .. Left(p) :
       /\ file' = file \cup Piece(p, n)
       /\ got' = [got EXCEPT ![p] = @ + n]
  /\ UNCHANGED <<pc, at, upto, unsaved, pending, lock, meta, claimed, lost>>

\* A write that fails part-way makes the TeeReader fail, which ends the copy.
WriteFails(p) ==
  /\ DiskFaults
  /\ pc[p] = "write"
  /\ \E k \in 0 .. Left(p) :
       file' = file \cup Piece(p, k)
  /\ Goto(p, "close")
  /\ UNCHANGED <<local, pending, lock, meta, claimed, lost>>

-----------------------------------------------------------------------------
(* UpdateCacheMetadata, called under the write lock by CacheMiss.Read,     *)
(* CacheMiss.Close and CacheWriter.Close.                                  *)

\* Mutant: the metadata is read and rewritten without the lock.
BeginUpdateUnlocked(p) ==
  /\ pc[p] \in Waiting
  /\ lock' = p
  /\ pending' = [pending EXCEPT ![p] = claimed \cup Fetched(p)]
  /\ meta' = "torn"
  /\ claimed' = {}
  /\ Goto(p, IF pc[p] = "flush" THEN "flushing" ELSE "closing")
  /\ UNCHANGED <<local, file, lost>>

\* Lock, read the metadata (one that is absent or torn counts as empty), merge the
\* new range in, and truncate the file.
BeginUpdate(p) ==
  /\ pc[p] \in Waiting
  /\ lock = None
  /\ lock' = p
  /\ pending' = [pending EXCEPT ![p] = claimed \cup Fetched(p)]
  /\ meta' = "torn"
  /\ claimed' = {}
  /\ Goto(p, IF pc[p] = "flush" THEN "flushing" ELSE "closing")
  /\ UNCHANGED <<local, file, lost>>

\* The same, but valid metadata does not open or does not read: it counts as empty
\* too, so all it recorded is about to be overwritten by the new range alone.
BeginUpdateForgets(p) ==
  /\ DiskFaults
  /\ pc[p] \in Waiting
  /\ lock = None
  /\ meta = "valid"
  /\ lock' = p
  /\ pending' = [pending EXCEPT ![p] = Fetched(p)]
  /\ meta' = "torn"
  /\ claimed' = {}
  /\ Goto(p, IF pc[p] = "flush" THEN "flushing" ELSE "closing")
  /\ UNCHANGED <<local, file, lost>>

\* What follows the unlock: Read goes on copying, Close is done.
Return(p) ==
  IF pc[p] \in {"flush", "flushing"}
    THEN /\ Goto(p, "fetch")
         /\ unsaved' = [unsaved EXCEPT ![p] = 0]
         /\ UNCHANGED <<at, got, upto>>
    ELSE /\ Goto(p, "idle")
         /\ Aim(p, 0, -1)

\* Mutant: returns without unlocking.
EndUpdateKeepsLock(p) ==
  /\ pc[p] \in Updating
  /\ meta' = "valid"
  /\ claimed' = pending[p]
  /\ pending' = [pending EXCEPT ![p] = {}]
  /\ Return(p)
  /\ UNCHANGED <<lock, file, lost>>

\* Encode the metadata and unlock.
EndUpdate(p) ==
  /\ pc[p] \in Updating
  /\ meta' = "valid"
  /\ claimed' = pending[p]
  /\ pending' = [pending EXCEPT ![p] = {}]
  /\ lock' = None
  /\ Return(p)
  /\ UNCHANGED <<file, lost>>

\* The metadata file does not open for writing: nothing is recorded.
UpdateFails(p) ==
  /\ DiskFaults
  /\ pc[p] \in Waiting
  /\ lock = None
  /\ Return(p)
  /\ UNCHANGED <<pending, lock, disk>>

\* Encode fails: the file stays truncated; the error is logged or dropped.
EndUpdateFails(p) ==
  /\ DiskFaults
  /\ pc[p] \in Updating
  /\ pending' = [pending EXCEPT ![p] = {}]
  /\ lock' = None
  /\ Return(p)
  /\ UNCHANGED disk

\* The process dies and restarts: locks and goroutines go, files stay.
Crash ==
  /\ pc' = [p \in Procs |-> "idle"]
  /\ at' = [p \in Procs |-> 0]
  /\ got' = [p \in Procs |-> 0]
  /\ upto' = [p \in Procs |-> -1]
  /\ unsaved' = [p \in Procs |-> 0]
  /\ pending' = [p \in Procs |-> {}]
  /\ lock' = None
  /\ UNCHANGED disk

-----------------------------------------------------------------------------
ClientNext(p) ==
  \/ ServeExternal(p)
  \/ RangeInvalid(p)
  \/ LookupHits(p)
  \/ LookupMisses(p)
  \/ ServeHit(p)
  \/ EndHit(p)
  \/ HitFails(p)
  \/ Bypass(p)
  \/ OriginReplies(p)
  \/ Read(p)

WriterNext(p) ==
  \/ GetCacheWriter(p)
  \/ Write(p)
  \/ WriteFails(p)

UpdateNext(p) ==
  \/ Close(p)
  \/ BeginUpdate(p)
  \/ BeginUpdateForgets(p)
  \/ UpdateFails(p)
  \/ EndUpdate(p)
  \/ EndUpdateFails(p)

Next ==
  \/ \E p \in Clients : ClientNext(p)
  \/ \E p \in Writers : WriterNext(p)
  \/ \E p \in Procs : UpdateNext(p)
  \/ Crash

Spec == Init /\ [][Next]_vars

\* A goroutine inside UpdateCacheMetadata is only slowed by the disk, so it
\* leaves; Go's RWMutex hands the lock to every waiter in the end (readers pass
\* a finishing writer, a starving writer is served), so waiting for it is
\* strongly fair.  Nothing is assumed of clients or of the origin.
Fairness ==
  /\ \A p \in Procs : /\ WF_vars(EndUpdate(p) \/ EndUpdateFails(p))
                      /\ SF_vars(\/ BeginUpdate(p)
                                 \/ BeginUpdateForgets(p)
                                 \/ UpdateFails(p))
  /\ \A p \in Clients : SF_vars(LookupHits(p) \/ LookupMisses(p))

FairSpec == Spec /\ Fairness

-----------------------------------------------------------------------------
\* Every byte the metadata claims is in the data file, but for those whose
\* failed write CacheMiss.Read has ignored: the claim is recorded after the bytes
\* are written, by every path, and nothing else that fails, crashes included,
\* makes a claim false.
MetaSound == claimed \subseteq file \cup lost

\* A hit only ever reads such bytes, although it reads without the lock while
\* others write (TryServeCached, cache.go:337-357).
HitSound ==
  \A p \in Procs : pc[p] = "hit" => at[p] + got[p] .. upto[p] \subseteq file \cup lost

\* The promise about bytes, recorded and read: UpdateCacheMetadata claims, and
\* TryServeCached serves, none that the data file does not hold, the ignored
\* failures of CacheMiss.Read apart.
BytesSound == MetaSound /\ HitSound

\* A copy never runs past the end of the resource (strengthens TypeOK so that it
\* is inductive: an update records bytes of the resource only).
InBounds == \A p \in Procs : pc[p] \in Filling => at[p] + got[p] <= Length

\* Whatever has been received was written, and so was whatever a goroutine is
\* about to record: the reason MetaSound survives every step.
ProgressSound ==
  \A p \in Procs : /\ pc[p] \in Filling => Fetched(p) \subseteq file \cup lost
                   /\ pending[p] \subseteq file \cup lost

\* Exactly the lock holder is inside UpdateCacheMetadata, and a metadata file
\* that is not valid claims nothing.
LockSound ==
  /\ \A p \in Procs : pc[p] \in Updating <=> lock = p
  /\ meta # "valid" => claimed = {}
  /\ lock # None => meta = "torn"

\* What the cache knows: the metadata, or what the lock holder will write back.
Known == IF lock = None THEN claimed ELSE pending[lock]

\* The three ways the cache does forget: a crash inside an update, and the two
\* failures of the disk that UpdateCacheMetadata does not survive, valid metadata
\* that cannot be read before it is overwritten (cache.go:144-151) and an encoding
\* that fails after the truncation.
Forgets == Crash \/ \E p \in Procs : BeginUpdateForgets(p) \/ EndUpdateFails(p)

\* Concurrent updates never lose each other's ranges: but for the three failures of
\* Forgets, the cache never forgets a byte (the read-modify-write of
\* UpdateCacheMetadata happens under one lock).
NeverForgets == [][Forgets \/ Known \subseteq Known']_vars

\* Every goroutine that waits for the metadata lock gets it: nobody returns
\* from UpdateCacheMetadata holding it.
WaitersServed ==
  \A p \in Procs :
    pc[p] \in Waiting \cup {"lookup"} ~> pc[p] \notin Waiting \cup {"lookup"}

\* What is left to read of each answer from the cache.
Serving == [p \in Clients |-> IF pc[p] = "hit" THEN at[p] + got[p] .. upto[p] ELSE {}]

\* The entry as its readers see it: the bytes that were written (or that
\* CacheMiss.Read took for written), those recorded, and what is left of each hit.
Media == INSTANCE MediaCache
  WITH Readers <- Clients, Offsets <- Bytes, MaySpoil <- DiskFaults,
       kept <- file \cup lost, known <- Known, serving <- Serving

\* Two steps of an update (truncate, then encode), flushes in the middle of a copy
\* and reads without the lock are still one cache to its readers: each step of
\* TryServeCached, CacheMiss and CacheWriter keeps bytes, or records kept bytes, or
\* serves recorded bytes, or is none of a reader's business.
ImplementsMediaCache == Media!Spec
=============================================================================
