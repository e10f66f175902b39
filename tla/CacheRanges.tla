----------------------------- MODULE CacheRanges -----------------------------
(***************************************************************************)
(* The range list of the external-media cache (common/cache/cache.go): the *)
(* sorted list of byte ranges a metadata file holds, how an update merges  *)
(* a new range into it (MergeRanges) and how a request is matched against  *)
(* it (GetCachedRange).  Cache.tla works with the SET of bytes the list    *)
(* covers; this module checks that the two loops of the code compute       *)
(* exactly the set operations Cache.tla uses.                              *)
(*                                                                         *)
(* `bytes' is a history variable: the bytes of every range recorded so far.*)
(***************************************************************************)
EXTENDS Integers, Sequences, SequencesExt

CONSTANT Length     \* metadata.Length: the number of bytes of the resource

ASSUME LengthAssumption == Length \in Nat \ {0}

VARIABLES ranges,   \* metadata.Ranges
          bytes     \* history: what the recorded ranges contain

vars == <<ranges, bytes>>

Bytes == 0 .. Length - 1

\* CacheRangeSpec: both ends inclusive, so Start..Start-1 holds no byte.
CacheRangeSpec(start, end) == [Start |-> start, End |-> end]

Span(r) == r.Start .. r.End

Covered(rs) == UNION {Span(rs[i]) : i \in DOMAIN rs}

-----------------------------------------------------------------------------
(* MergeRanges: sort by Start, then one pass that extends `current' while   *)
(* the next range overlaps or touches it.                                  *)

\* r takes its place after the ranges of s that start no later.
Insert(s, r) ==
  LET upto == Max({0} \cup {i \in DOMAIN s : s[i].Start <= r.Start})
  IN SubSeq(s, 1, upto) \o <<r>> \o SubSeq(s, upto + 1, Len(s))

\* sort.Slice by Start.
Sorted(rs) ==
  LET sorted[n \in 0 .. Len(rs)] == IF n = 0 THEN <<>> ELSE Insert(sorted[n - 1], rs[n])
  IN sorted[Len(rs)]

\* Mutant: ranges that merely overlap the previous one replace its end.
MergeStepShrinks(acc, r) ==
  IF r.Start <= acc.current.End + 1
    THEN [acc EXCEPT !.current.End = r.End]
    ELSE [merged |-> Append(acc.merged, acc.current), current |-> r]

\* Mutant: off by one, ranges that touch are not joined.
MergeStepStrict(acc, r) ==
  IF r.Start <= acc.current.End
    THEN [acc EXCEPT !.current.End = IF r.End > @ THEN r.End ELSE @]
    ELSE [merged |-> Append(acc.merged, acc.current), current |-> r]

MergeStep(acc, r) ==
  IF r.Start <= acc.current.End + 1
    THEN [acc EXCEPT !.current.End = IF r.End > @ THEN r.End ELSE @]
    ELSE [merged |-> Append(acc.merged, acc.current), current |-> r]

MergeRanges(rs) ==
  IF rs = <<>> THEN <<>>
  ELSE LET sorted == Sorted(rs)
           pass[i \in 0 .. Len(rs) - 1] ==
             IF i = 0 THEN [merged |-> <<>>, current |-> Head(sorted)]
             ELSE MergeStep(pass[i - 1], sorted[i + 1])
           last == pass[Len(rs) - 1]
       IN Append(last.merged, last.current)

-----------------------------------------------------------------------------
(* GetCachedRange: the first range for which one of the four branches      *)
(* applies decides, and the first such branch (of an inverted request two   *)
(* may apply); none means a miss of the whole request.                     *)

\* Mutant: a hit runs to the end of the request, not of the cached range.
DecideOverrun(req, r) ==
  IF req.End < r.Start THEN <<FALSE, req>>
  ELSE IF req.Start < r.Start THEN <<FALSE, CacheRangeSpec(req.Start, r.Start - 1)>>
  ELSE <<TRUE, req>>

\* Mutant: the partial hit stops one byte early.
DecideShort(req, r) ==
  IF req.End < r.Start THEN <<FALSE, req>>
  ELSE IF req.Start < r.Start THEN <<FALSE, CacheRangeSpec(req.Start, r.Start - 1)>>
  ELSE IF req.End <= r.End THEN <<TRUE, req>>
  ELSE <<TRUE, CacheRangeSpec(req.Start, r.End - 1)>>

Decides(req, r) ==
  \/ req.End < r.Start
  \/ req.Start < r.Start
  \/ req.End <= r.End
  \/ req.Start <= r.End

Decide(req, r) ==
  IF req.End < r.Start THEN <<FALSE, req>>
  ELSE IF req.Start < r.Start THEN <<FALSE, CacheRangeSpec(req.Start, r.Start - 1)>>
  ELSE IF req.End <= r.End THEN <<TRUE, req>>
  ELSE <<TRUE, CacheRangeSpec(req.Start, r.End)>>

\* ParseRangeHeader leaves End at -1 when the request names no end.
Resolve(req) ==
  IF req.End = -1 THEN CacheRangeSpec(req.Start, Length - 1) ELSE req

GetCachedRange(rs, request) ==
  LET req     == Resolve(request)
      decided == SelectInSeq(rs, LAMBDA r : Decides(req, r))
  IN IF decided = 0 THEN <<FALSE, req>> ELSE Decide(req, rs[decided])

-----------------------------------------------------------------------------
Init == /\ ranges = <<>>
        /\ bytes = {}

\* UpdateCacheMetadata with the range start .. start+progress-1 of a fetch
\* that may have received nothing at all (progress = 0).
UpdateCacheMetadata(start, progress) ==
  LET new == CacheRangeSpec(start, start + progress - 1)
  IN /\ ranges' = MergeRanges(Append(ranges, new))
     /\ bytes' = bytes \cup Span(new)

\* A metadata file that no longer decodes is replaced by a fresh one.
StartAfresh == ranges' = <<>> /\ bytes' = {}

Next ==
  \/ \E start \in Bytes : \E progress \in 0 .. Length - start :
       UpdateCacheMetadata(start, progress)
  \/ StartAfresh

Spec == Init /\ [][Next]_vars

-----------------------------------------------------------------------------
\* What a client may ask for: bytes=a-b for any a and b, or bytes=a-.
Requests == {CacheRangeSpec(s, e) : s \in -1 .. Length, e \in -1 .. Length}

\* The list covers exactly the bytes that were recorded: merging neither
\* loses a byte nor claims one in a gap (MergeRanges, cache.go:181-207).
RangesExact == Covered(ranges) = bytes

\* The list is sorted and neighbours neither overlap nor touch, which is what
\* GetCachedRange relies on to stop at the first range that decides.
RangesSeparated ==
  \A i \in 1 .. Len(ranges) - 1 : ranges[i].End + 1 < ranges[i + 1].Start

\* The range GetCachedRange answers with lies entirely in cached data on a hit
\* and entirely outside on a miss (the comment at cache.go:210), whatever the
\* request, and starts where the request starts.
LookupUniform ==
  \A req \in Requests :
    LET answer == GetCachedRange(ranges, req)
    IN /\ answer[2].Start = req.Start
       /\ IF answer[1] THEN Span(answer[2]) \subseteq bytes
                       ELSE Span(answer[2]) \cap bytes = {}

\* The set-level reading used by Cache.tla: a request with bytes in it hits
\* exactly when its first byte is cached, and then gets the longest cached run;
\* an inverted request (End < Start) hits exactly when its End is cached, and
\* is answered with an empty range.
LookupMatchesSet ==
  \A request \in Requests :
    LET req    == Resolve(request)
        answer == GetCachedRange(ranges, request)
        upto   == answer[2].End
    IN IF req.Start <= req.End
         THEN /\ answer[1] <=> req.Start \in bytes
              /\ answer[1] => upto = req.End \/ upto + 1 \notin bytes
         ELSE /\ answer[1] <=> req.End \in bytes
              /\ answer[2] = req
=============================================================================
