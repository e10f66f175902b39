------------------------------ MODULE MediaCache ------------------------------
(***************************************************************************)
(* What one entry of the external-media cache promises to those who read   *)
(* it, whatever goroutines fill it and however: an answer from the cache   *)
(* consists of bytes that are recorded, a byte is recorded only when it is *)
(* kept, what is kept stays, and what is recorded stays until the process  *)
(* restarts or a record is spoilt.  Cache.tla is shown to implement this.  *)
(***************************************************************************)
CONSTANTS Readers,      \* requests that may be answered from the cache
          Offsets,      \* the bytes of the resource
          MaySpoil      \* whether a record can be spoilt without a restart

VARIABLES kept,         \* the bytes the cache has
          known,        \* the bytes it has a record of
          serving       \* what each answer has still to read

vars == <<kept, known, serving>>

Init == kept = {} /\ known = {} /\ serving = [r \in Readers |-> {}]

\* Some bytes arrive.
Keep(S) == kept' = kept \cup S /\ UNCHANGED <<known, serving>>

\* Bytes that are kept are recorded, in addition to what is recorded already.
Record(S) == S \subseteq kept /\ known' = known \cup S /\ UNCHANGED <<kept, serving>>

\* An answer of recorded bytes begins.
Serve(r, S) ==
  /\ serving[r] = {} /\ S \subseteq known
  /\ serving' = [serving EXCEPT ![r] = S]
  /\ UNCHANGED <<kept, known>>

\* It goes on, or is broken off.
Proceed(r, S) ==
  /\ S \subseteq serving[r]
  /\ serving' = [serving EXCEPT ![r] = S]
  /\ UNCHANGED <<kept, known>>

\* The record is spoilt: what is left of it, or put in its place, is of kept bytes.
Spoil(S) == MaySpoil /\ S \subseteq kept /\ known' = S /\ UNCHANGED <<kept, serving>>

\* The process restarts; a record that was being made is lost.
Restart(S) ==
  known' = known \ S /\ serving' = [r \in Readers |-> {}] /\ UNCHANGED kept

Next ==
  \/ \E S \in SUBSET Offsets : Keep(S) \/ Record(S) \/ Spoil(S) \/ Restart(S)
  \/ \E r \in Readers, S \in SUBSET Offsets : Serve(r, S) \/ Proceed(r, S)

Spec == Init /\ [][Next]_vars

\* What a reader relies on: it is never given a byte that is not kept.
Faithful == known \subseteq kept /\ \A r \in Readers : serving[r] \subseteq kept
=============================================================================
