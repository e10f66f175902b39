--------------------------- MODULE MessagesProofs ---------------------------
(***************************************************************************)
(* Proofs about Messages.tla for any users, contents and pages, any number *)
(* of messages, requests and fetches.                                      *)
(***************************************************************************)
EXTENDS Messages, FiniteSetTheorems, WellFoundedInduction, TLAPS

-----------------------------------------------------------------------------
(* Induction, and the elements of a sequence that are in a set.             *)

\* What holds of 0 and of n + 1 whenever it holds of n < N holds up to N.
LEMMA Induction ==
  ASSUME NEW N \in Nat, NEW P, 0 \in P, \A n \in 0 .. N - 1 : n \in P => n + 1 \in P
  PROVE  \A n \in 0 .. N : n \in P
<1> DEFINE R == OpToRel(<, Nat)
           Others == (0 .. N) \ P
<1>1. R = {p \in Nat \X Nat : p[1] < p[2]}
  BY DEF OpToRel
<1>2. IsWellFoundedOn(R, Nat)
  BY NatLessThanWellFounded
<1> HIDE DEF R
<1> SUFFICES ASSUME Others # {} PROVE FALSE
  OBVIOUS
<1>3. \E x \in Others : \A y \in Others : ~ (<<y, x>> \in R)
  <2>1. Others \subseteq Nat
    OBVIOUS
  <2> HIDE DEF Others
  <2> QED
    BY <1>2, <2>1, WFMin
<1>4. PICK x \in Others : \A y \in Others : ~ (y < x)
  <2>1. PICK x \in Others : \A y \in Others : ~ (<<y, x>> \in R)
    BY <1>3
  <2>2. ASSUME NEW y \in Others, y < x PROVE FALSE
    <3>1. y \in Nat /\ x \in Nat
      OBVIOUS
    <3>2. <<y, x>> \in R
      BY <1>1, <2>2, <3>1
    <3> QED
      BY <2>1, <3>2
  <2> QED
    BY <2>2
<1>5. x # 0 /\ x \in Nat /\ x - 1 \in 0 .. N - 1
  BY <1>4
<1>6. x - 1 \in P
  BY <1>4, <1>5
<1> QED
  BY <1>4, <1>5, <1>6

\* h lists the places among the first n of s whose elements are in T, in their order.
Places(h, s, T, n) ==
  /\ h \in [DOMAIN h -> 1 .. n]
  /\ \A i, j \in DOMAIN h : i < j => h[i] < h[j]
  /\ \A k \in 1 .. n : s[k] \in T <=> \E i \in DOMAIN h : h[i] = k

\* g is f in the definition of Filter, up to n.
FilterUpTo(g, s, T, n) ==
  g = [k \in 0 .. n |-> IF k = 0 THEN <<>>
                        ELSE IF s[k] \in T THEN Append(g[k - 1], s[k]) ELSE g[k - 1]]

LEMMA FilterExists ==
  ASSUME NEW S, NEW s \in Seq(S), NEW T
  PROVE  \E g : FilterUpTo(g, s, T, Len(s))
<1> DEFINE P == {n \in 0 .. Len(s) : \E g : FilterUpTo(g, s, T, n)}
<1>1. 0 \in P
  <2>1. FilterUpTo([k \in 0 .. 0 |-> <<>>], s, T, 0)
    BY DEF FilterUpTo
  <2> QED
    BY <2>1
<1>2. ASSUME NEW n \in 0 .. Len(s) - 1, n \in P PROVE n + 1 \in P
  <2>1. PICK g : FilterUpTo(g, s, T, n)
    BY <1>2
  <2> DEFINE last == IF s[n + 1] \in T THEN Append(g[n], s[n + 1]) ELSE g[n]
             h == [k \in 0 .. n + 1 |-> IF k = n + 1 THEN last ELSE g[k]]
  <2>2. \A k \in 0 .. n : h[k] = g[k]
    OBVIOUS
  <2> DEFINE Step(f, k) == IF k = 0 THEN <<>>
                           ELSE IF s[k] \in T THEN Append(f[k - 1], s[k]) ELSE f[k - 1]
  <2>3. ASSUME NEW k \in 0 .. n PROVE h[k] = Step(h, k)
    <3>1. g[k] = Step(g, k)
      BY <2>1 DEF FilterUpTo
    <3>2. k # 0 => k - 1 \in 0 .. n
      OBVIOUS
    <3> HIDE DEF h
    <3> QED
      BY <2>2, <3>1, <3>2
  <2>4. h[n + 1] = Step(h, n + 1)
    <3>1. h[n + 1] = last /\ h[n] = g[n] /\ (n + 1) - 1 = n /\ n + 1 # 0
      BY <2>2
    <3> HIDE DEF h
    <3> QED
      BY <3>1
  <2>5. FilterUpTo(h, s, T, n + 1)
    <3>1. h = [k \in 0 .. n + 1 |-> h[k]]
      OBVIOUS
    <3>2. \A k \in 0 .. n + 1 : h[k] = Step(h, k)
      <4>1. \A k \in 0 .. n + 1 : k \in 0 .. n \/ k = n + 1
        OBVIOUS
      <4> HIDE DEF h, Step
      <4> QED
        BY <2>3, <2>4, <4>1
    <3>3. h = [k \in 0 .. n + 1 |-> Step(h, k)]
      <4> HIDE DEF h, Step
      <4> QED
        BY <3>1, <3>2
    <3> QED
      BY <3>3 DEF FilterUpTo
  <2> QED
    BY <2>5
<1> HIDE DEF P
<1>3. \A n \in 0 .. Len(s) : n \in P
  BY <1>1, <1>2, Induction
<1> QED
  BY <1>3 DEF P

\* Filter keeps the elements that are in the set, in their order.
LEMMA FilterFacts ==
  ASSUME NEW S, NEW s \in Seq(S), NEW T
  PROVE  /\ Filter(s, T) \in Seq(S)
         /\ \E h : /\ Places(h, s, T, Len(s)) /\ DOMAIN h = DOMAIN Filter(s, T)
                   /\ \A i \in DOMAIN h : Filter(s, T)[i] = s[h[i]]
<1> DEFINE g == CHOOSE g : FilterUpTo(g, s, T, Len(s))
<1>1. FilterUpTo(g, s, T, Len(s))
  BY FilterExists
<1>2. Filter(s, T) = g[Len(s)]
  BY DEF Filter, FilterUpTo
<1> HIDE DEF g
<1> DEFINE Good(n) ==
      /\ g[n] \in Seq(S)
      /\ \E h : /\ Places(h, s, T, n) /\ DOMAIN h = DOMAIN g[n]
                /\ \A i \in DOMAIN h : g[n][i] = s[h[i]]
           P == {n \in 0 .. Len(s) : Good(n)}
<1>3. 0 \in P
  <2>1. g[0] = <<>>
    BY <1>1 DEF FilterUpTo
  <2>2. Places(<<>>, s, T, 0)
    BY DEF Places
  <2>3. Good(0)
    <3>1. g[0] \in Seq(S) /\ DOMAIN <<>> = DOMAIN g[0]
      BY <2>1
    <3>2. \A i \in DOMAIN <<>> : g[0][i] = s[<<>>[i]]
      OBVIOUS
    <3> QED
      BY <2>2, <3>1, <3>2
  <2> QED
    BY <2>3
<1>4. ASSUME NEW n \in 0 .. Len(s) - 1, n \in P PROVE n + 1 \in P
  <2>1. PICK h : /\ Places(h, s, T, n) /\ DOMAIN h = DOMAIN g[n]
                 /\ \A i \in DOMAIN h : g[n][i] = s[h[i]]
    BY <1>4
  <2>2. g[n] \in Seq(S) /\ s[n + 1] \in S /\ n + 1 \in 0 .. Len(s)
    <3>1. n + 1 \in 1 .. Len(s)
      OBVIOUS
    <3> QED
      BY <1>4, <3>1
  <2>3. g[n + 1] = IF s[n + 1] \in T THEN Append(g[n], s[n + 1]) ELSE g[n]
    <3>1. (n + 1) - 1 = n /\ n + 1 # 0
      OBVIOUS
    <3> QED
      BY <1>1, <2>2, <3>1 DEF FilterUpTo
  <2>4. CASE s[n + 1] \notin T
    <3>1. Places(h, s, T, n + 1)
      BY <2>1, <2>4 DEF Places
    <3> QED
      BY <2>1, <2>2, <2>3, <2>4, <3>1
  <2>5. CASE s[n + 1] \in T
    <3> DEFINE l == Len(g[n]) + 1
               k == [i \in 1 .. l |-> IF i = l THEN n + 1 ELSE h[i]]
    <3>1. DOMAIN h = 1 .. l - 1 /\ l \in Nat \ {0} /\ h \in [1 .. l - 1 -> 1 .. n]
      BY <2>1, <2>2 DEF Places
    <3>2. /\ DOMAIN k = 1 .. l /\ k[l] = n + 1
          /\ \A i \in 1 .. l - 1 : k[i] = h[i] /\ h[i] \in 1 .. n
      <4>1. k[l] = n + 1
        <5> HIDE DEF l
        <5> QED
          BY <3>1
      <4>2. ASSUME NEW i \in 1 .. l - 1 PROVE k[i] = h[i] /\ h[i] \in 1 .. n
        <5> HIDE DEF l
        <5>1. i \in 1 .. l /\ i # l
          BY <3>1
        <5> QED
          BY <3>1, <5>1
      <4> QED
        BY <4>1, <4>2
    <3>3. DOMAIN g[n + 1] = 1 .. l /\ g[n + 1] \in Seq(S) /\ g[n + 1][l] = s[n + 1]
          /\ \A i \in 1 .. l - 1 : g[n + 1][i] = g[n][i]
      BY <2>2, <2>3, <2>5
    <3>4. k \in [1 .. l -> 1 .. n + 1]
      <4>1. \A i \in 1 .. l : k[i] \in 1 .. n + 1
        <5>1. \A i \in 1 .. l : i = l \/ i \in 1 .. l - 1
          BY <3>1
        <5> HIDE DEF k, l
        <5> QED
          BY <3>2, <5>1
      <4> HIDE DEF l
      <4> QED
        BY <4>1
    <3> HIDE DEF k, l
    <3>5. \A i, j \in 1 .. l : i < j => k[i] < k[j]
      BY <2>1, <3>1, <3>2 DEF Places
    <3>6. \A m \in 1 .. n + 1 : s[m] \in T <=> \E i \in 1 .. l : k[i] = m
      <4>1. ASSUME NEW m \in 1 .. n PROVE s[m] \in T <=> \E i \in 1 .. l : k[i] = m
        BY <2>1, <3>1, <3>2 DEF Places
      <4>2. \E i \in 1 .. l : k[i] = n + 1
        BY <3>1, <3>2
      <4> QED
        BY <2>5, <4>1, <4>2
    <3>7. Places(k, s, T, n + 1)
      BY <3>2, <3>4, <3>5, <3>6 DEF Places
    <3>8. \A i \in 1 .. l : g[n + 1][i] = s[k[i]]
      BY <2>1, <3>1, <3>2, <3>3
    <3> QED
      BY <2>2, <3>2, <3>3, <3>7, <3>8
  <2> QED
    BY <2>4, <2>5
<1> HIDE DEF P
<1>5. Len(s) \in Nat
  OBVIOUS
<1>6. \A n \in 0 .. Len(s) : n \in P
  BY <1>3, <1>4, <1>5, Induction
<1> QED
  BY <1>2, <1>5, <1>6 DEF P

\* Its elements, and what it keeps of s.
LEMMA FilterKeeps ==
  ASSUME NEW S, NEW s \in Seq(S), NEW T
  PROVE  /\ Filter(s, T) \in Seq(S)
         /\ Range(Filter(s, T)) = Range(s) \cap T
         /\ IsInjective(s) => IsInjective(Filter(s, T))
<1>1. Filter(s, T) \in Seq(S)
  BY FilterFacts
<1>2. PICK h : /\ Places(h, s, T, Len(s)) /\ DOMAIN h = DOMAIN Filter(s, T)
               /\ \A i \in DOMAIN h : Filter(s, T)[i] = s[h[i]]
  BY FilterFacts
<1> DEFINE F == Filter(s, T)
<1> HIDE DEF F
<1>3. DOMAIN F \subseteq Nat /\ DOMAIN s = 1 .. Len(s) /\ Len(s) \in Nat
  BY <1>1 DEF F
<1>4. Range(F) = Range(s) \cap T
  BY <1>2, <1>3 DEF Places, Range, F
<1>5. ASSUME IsInjective(s) PROVE IsInjective(F)
  BY <1>2, <1>3, <1>5 DEF Places, IsInjective, F
<1> QED
  BY <1>1, <1>4, <1>5 DEF F
\* AtPlaces gives elements of the sequence, each at most as often as it was there.
LEMMA PlacesKeep ==
  ASSUME NEW S, NEW s \in Seq(S), NEW T
  PROVE  /\ AtPlaces(s, T) \in Seq(S)
         /\ Range(AtPlaces(s, T)) \subseteq Range(s)
         /\ IsInjective(s) => IsInjective(AtPlaces(s, T))
<1> DEFINE all == [i \in DOMAIN s |-> i]
           chosen == Filter(all, T)
           F == [i \in DOMAIN chosen |-> s[chosen[i]]]
<1>1. DOMAIN s = 1 .. Len(s) /\ Len(s) \in Nat
  OBVIOUS
<1>2. all \in Seq(DOMAIN s) /\ IsInjective(all)
  BY <1>1 DEF IsInjective
<1> HIDE DEF all
<1>3. chosen \in Seq(DOMAIN s) /\ IsInjective(chosen)
  BY <1>2, FilterKeeps
<1>4. AtPlaces(s, T) = F
  BY DEF AtPlaces, all
<1> HIDE DEF chosen
<1>5. DOMAIN chosen = 1 .. Len(chosen) /\ \A i \in DOMAIN chosen : chosen[i] \in DOMAIN s
  BY <1>3
<1>6. F \in Seq(S)
  <2>1. \A i \in 1 .. Len(chosen) : s[chosen[i]] \in S
    BY <1>1, <1>5
  <2> QED
    BY <1>3, <1>5, <2>1
<1>7. Range(F) \subseteq Range(s)
  BY <1>5 DEF Range
<1>8. IsInjective(s) => IsInjective(F)
  BY <1>3, <1>5 DEF IsInjective
<1> QED
  BY <1>4, <1>6, <1>7, <1>8

-----------------------------------------------------------------------------
(* Pages.                                                                  *)

\* Ascending lists the IDs of a set, once each, in their order.
LEMMA AscendingFacts ==
  ASSUME NEW ids \in SUBSET Ids
  PROVE  /\ Ascending(ids) \in Seq(Ids)
         /\ IsAscending(Ascending(ids))
         /\ Range(Ascending(ids)) = ids
<1> DEFINE s == [id \in Ids |-> id]
           A == Filter(s, ids)
<1>1. s \in Seq(Ids) /\ Len(s) = MaxId /\ DOMAIN s = 1 .. MaxId /\ \A i \in Ids : s[i] = i
  <2>1. MaxId \in Nat
    BY MessagesAssumption
  <2>2. s \in [1 .. MaxId -> Ids]
    BY DEF Ids
  <2>3. s \in Seq(Ids)
    BY <2>1, <2>2
  <2> QED
    BY <2>1, <2>3 DEF Ids
<1> HIDE DEF s
<1>2. A \in Seq(Ids) /\ Range(A) = Range(s) \cap ids
  BY <1>1, FilterKeeps
<1>3. PICK h : /\ Places(h, s, ids, Len(s)) /\ DOMAIN h = DOMAIN A
               /\ \A i \in DOMAIN h : A[i] = s[h[i]]
  BY <1>1, FilterFacts
<1>4. IsAscending(A)
  <2>1. \A i \in DOMAIN A : A[i] = h[i]
    BY <1>1, <1>3 DEF Places, Ids
  <2> HIDE DEF A
  <2> QED
    BY <1>3, <2>1 DEF Places, IsAscending
<1>5. Range(s) = Ids
  BY <1>1 DEF Range, Ids
<1>6. Ascending(ids) = A
  BY DEF Ascending, s
<1> HIDE DEF A
<1> QED
  BY <1>2, <1>4, <1>5, <1>6

\* The page is a part of the rows that begins or ends where they do.
LEMMA PageSlice ==
  ASSUME NEW channel, NEW anchor, NEW limit \in Int \ {0}, NEW before \in BOOLEAN,
         InChannel(channel, anchor, before) \subseteq Ids
  PROVE  LET A    == Ascending(InChannel(channel, anchor, before))
             page_ == GetMessagesByAnchor(channel, anchor, limit, before)
             k    == IF limit < 0 \/ limit >= Len(A) THEN Len(A) ELSE limit
             skip == IF anchor = 0 \/ before THEN Len(A) - k ELSE 0
         IN page_ \in Seq(Ids) /\ Len(page_) = k /\ \A i \in 1 .. k : page_[i] = A[skip + i]
<1> DEFINE A     == Ascending(InChannel(channel, anchor, before))
           L     == Len(A)
           k     == IF limit < 0 \/ limit >= L THEN L ELSE limit
           desc  == anchor = 0 \/ before
           away  == IF desc THEN Reverse(A) ELSE A
           first == IF limit < 0 \/ limit >= Len(away) THEN away ELSE SubSeq(away, 1, limit)
           ids   == IF desc THEN Reverse(first) ELSE first
<1>1. ids = GetMessagesByAnchor(channel, anchor, limit, before)
  BY DEF GetMessagesByAnchor
<1>2. A \in Seq(Ids)
  BY AscendingFacts
<1> HIDE DEF A
<1>3. L \in Nat /\ k \in 0 .. L
  BY <1>2
<1>4. /\ away \in Seq(Ids) /\ Len(away) = L
      /\ \A i \in 1 .. L : away[i] = A[IF desc THEN L - i + 1 ELSE i]
  BY <1>2 DEF Reverse
<1> HIDE DEF away, L
<1>5. /\ first \in Seq(Ids) /\ Len(first) = k
      /\ \A i \in 1 .. k : first[i] = away[i]
  BY <1>3, <1>4
<1> HIDE DEF first, k
<1>6. /\ ids \in Seq(Ids) /\ Len(ids) = k
      /\ \A i \in 1 .. k : ids[i] = first[IF desc THEN k - i + 1 ELSE i]
  BY <1>3, <1>5 DEF Reverse
<1>7. ASSUME NEW i \in 1 .. k
      PROVE  ids[i] = A[(IF desc THEN L - k ELSE 0) + i]
  <2> HIDE DEF ids
  <2>1. CASE desc
    <3>1. k - i + 1 \in 1 .. k /\ k - i + 1 \in 1 .. L /\ L - (k - i + 1) + 1 = L - k + i
      BY <1>3
    <3>2. ids[i] = A[L - (k - i + 1) + 1]
      BY <1>4, <1>5, <1>6, <2>1, <3>1
    <3> QED
      BY <2>1, <3>1, <3>2
  <2>2. CASE ~ desc
    <3>1. i \in 1 .. L /\ 0 + i = i
      BY <1>3
    <3> QED
      BY <1>4, <1>5, <1>6, <2>2, <3>1
  <2> QED
    BY <2>1, <2>2
<1> HIDE DEF ids
<1> QED
  BY <1>1, <1>6, <1>7 DEF A, L, k

\* It is the window that was asked for.
LEMMA PageIsWindow ==
  ASSUME Stored \subseteq Ids, NEW channel, NEW anchor \in Nat, NEW limit \in Int \ {0},
         NEW before \in BOOLEAN
  PROVE  LET ids == GetMessagesByAnchor(channel, anchor, limit, before)
         IN ids \in Seq(Ids) /\ IsWindow(ids, channel, anchor, limit, before)
<1> DEFINE rows == InChannel(channel, anchor, before)
           A    == Ascending(rows)
           L    == Len(A)
           k    == IF limit < 0 \/ limit >= L THEN L ELSE limit
           desc == anchor = 0 \/ before
           skip == IF desc THEN L - k ELSE 0
           ids  == GetMessagesByAnchor(channel, anchor, limit, before)
<1>1. rows = {id \in Stored : /\ messages[id].channel = channel
                              /\ anchor = 0 \/ (id < anchor <=> before)
                              /\ id # anchor}
  <2>1. MaxId \in Nat
    BY MessagesAssumption
  <2>2. ASSUME NEW id \in Stored
        PROVE  (anchor = 0 \/ IF before THEN id < anchor ELSE id > anchor)
                 <=> (anchor = 0 \/ (id < anchor <=> before)) /\ id # anchor
    <3>1. id \in Nat /\ id # 0
      BY <2>1 DEF Ids
    <3> QED
      BY <3>1
  <2> QED
    BY <2>2 DEF InChannel
<1>2. rows \subseteq Ids
  BY <1>1
<1>3. ids \in Seq(Ids) /\ Len(ids) = k /\ \A i \in 1 .. k : ids[i] = A[skip + i]
  BY <1>2, PageSlice
<1>4. A \in Seq(Ids) /\ IsAscending(A) /\ Range(A) = rows
  <2> HIDE DEF rows
  <2> QED
    BY <1>2, AscendingFacts
<1> HIDE DEF rows, ids, A
<1>5. /\ L \in Nat /\ k \in 0 .. L /\ skip \in 0 .. L - k
      /\ DOMAIN A = 1 .. L /\ DOMAIN ids = 1 .. k
      /\ desc => skip = L - k
      /\ ~ desc => skip = 0
  <2>1. L \in Nat /\ DOMAIN A = 1 .. L
    BY <1>4
  <2> HIDE DEF L
  <2>2. k \in 0 .. L
    BY <2>1
  <2>3. DOMAIN ids = 1 .. k
    BY <1>3
  <2> HIDE DEF k, desc
  <2> QED
    BY <2>1, <2>2, <2>3
<1>6. \A i, j \in 1 .. L : i < j => A[i] < A[j]
  BY <1>4, <1>5 DEF IsAscending
<1>7. k = limit \/ (k = L /\ (limit < 0 \/ k < limit))
  BY <1>4
<1> HIDE DEF L, k, skip, desc
<1>8. \A i \in 1 .. k : skip + i \in 1 .. L
  BY <1>5
<1>9. IsAscending(ids)
  BY <1>3, <1>5, <1>6, <1>8 DEF IsAscending
<1>10. Range(ids) \subseteq rows
  BY <1>3, <1>4, <1>5, <1>8 DEF Range
<1>11. Len(ids) = limit \/ (Range(ids) = rows /\ (limit < 0 \/ Len(ids) < limit))
  <2>1. ASSUME k = L PROVE rows \subseteq Range(ids)
    BY <1>3, <1>4, <1>5, <2>1 DEF Range
  <2> QED
    BY <1>3, <1>7, <1>10, <2>1
<1>12. ASSUME NEW id \in rows \ Range(ids), NEW listed \in Range(ids)
       PROVE  IF desc THEN id < listed ELSE id > listed
  <2>1. PICK j \in 1 .. L : A[j] = id
    BY <1>4, <1>5 DEF Range
  <2>2. PICK i \in 1 .. k : ids[i] = listed
    BY <1>5 DEF Range
  <2>3. j \notin skip + 1 .. skip + k
    <3> SUFFICES ASSUME j \in skip + 1 .. skip + k PROVE FALSE
      OBVIOUS
    <3>1. j - skip \in 1 .. k /\ skip + (j - skip) = j
      BY <1>5
    <3>2. ids[j - skip] = id
      BY <1>3, <2>1, <3>1
    <3> QED
      BY <1>5, <3>1, <3>2 DEF Range
  <2>4. listed = A[skip + i] /\ skip + i \in 1 .. L
    BY <1>3, <1>8, <2>2
  <2>5. IF desc THEN j < skip + i ELSE skip + i < j
    BY <1>5, <2>3
  <2> QED
    BY <1>6, <2>1, <2>4, <2>5
<1>13. IsWindow(ids, channel, anchor, limit, before)
  BY <1>1, <1>9, <1>10, <1>11, <1>12 DEF IsWindow, desc
<1> QED
  BY <1>3, <1>13 DEF ids

\* Ascending sequences below and above an element.
LEMMA JoinAscending ==
  ASSUME NEW a \in Seq(Ids), NEW x \in Ids, NEW b \in Seq(Ids),
         IsAscending(a), \A i \in DOMAIN a : a[i] < x,
         IsAscending(b), \A i \in DOMAIN b : x < b[i]
  PROVE  IsAscending(a \o <<x>> \o b)
<1> DEFINE m    == Len(a)
           n    == Len(b)
           half == a \o <<x>>
           all  == half \o b
<1>1. m \in Nat /\ n \in Nat /\ DOMAIN a = 1 .. m /\ DOMAIN b = 1 .. n
  OBVIOUS
<1>0. Ids \subseteq Nat
  BY MessagesAssumption DEF Ids
<1>2. half \in Seq(Ids) /\ Len(half) = m + 1
  OBVIOUS
<1>3. half[m + 1] = x /\ \A i \in 1 .. m : half[i] = a[i]
  OBVIOUS
<1> HIDE DEF half
<1>4. DOMAIN all = 1 .. m + 1 + n
  <2>1. all \in Seq(Ids) /\ Len(all) = Len(half) + Len(b)
    BY <1>2
  <2> HIDE DEF all, m, n
  <2> QED
    BY <1>2, <2>1 DEF n
<1>5. \A i \in 1 .. m + 1 : all[i] = half[i]
  BY <1>2
<1>6. \A i \in m + 2 .. m + 1 + n : all[i] = b[i - (m + 1)]
  BY <1>2
<1>7. \A i \in 1 .. m : a[i] \in Nat
  <2>1. \A i \in 1 .. m : a[i] \in Ids
    OBVIOUS
  <2> QED
    BY <1>0, <2>1
<1>8. \A i \in 1 .. n : b[i] \in Nat
  <2>1. \A i \in 1 .. n : b[i] \in Ids
    OBVIOUS
  <2> QED
    BY <1>0, <2>1
<1> HIDE DEF all, m, n
<1>9. /\ \A i \in 1 .. m : all[i] = a[i]
      /\ all[m + 1] = x
      /\ \A i \in m + 2 .. m + 1 + n : all[i] = b[i - (m + 1)] /\ i - (m + 1) \in 1 .. n
  BY <1>1, <1>3, <1>5, <1>6
<1>10. ASSUME NEW i \in 1 .. m + 1 + n, NEW j \in 1 .. m + 1 + n, i < j PROVE all[i] < all[j]
  <2>1. CASE j \in 1 .. m
    BY <1>1, <1>9, <1>10, <2>1 DEF IsAscending
  <2>2. CASE j = m + 1
    <3>1. i \in 1 .. m
      BY <1>1, <1>10, <2>2
    <3> QED
      BY <1>1, <1>9, <2>2, <3>1
  <2>3. CASE j \in m + 2 .. m + 1 + n /\ i \in 1 .. m
    <3>1. all[i] < x /\ x < all[j] /\ all[i] \in Nat /\ all[j] \in Nat
      BY <1>1, <1>7, <1>8, <1>9, <2>3
    <3>2. x \in Nat
      BY <1>0
    <3> QED
      BY <3>1, <3>2
  <2>4. CASE j \in m + 2 .. m + 1 + n /\ i = m + 1
    BY <1>1, <1>9, <2>4
  <2>5. CASE j \in m + 2 .. m + 1 + n /\ i \in m + 2 .. m + 1 + n
    <3> DEFINE p == i - (m + 1)
               q == j - (m + 1)
    <3>1. p \in 1 .. n /\ q \in 1 .. n /\ all[i] = b[p] /\ all[j] = b[q]
      BY <1>9, <2>5
    <3>2. p < q
      BY <1>1, <1>10, <2>5
    <3> HIDE DEF p, q
    <3>3. b[p] < b[q]
      BY <1>1, <3>1, <3>2 DEF IsAscending
    <3> QED
      BY <3>1, <3>3
  <2> QED
    BY <1>1, <1>10, <2>1, <2>2, <2>3, <2>4, <2>5
<1> QED
  BY <1>4, <1>10 DEF IsAscending, all, half

\* A page on each side of an anchor, and the anchor, are in order.
LEMMA AroundAscending ==
  ASSUME Stored \subseteq Ids, NEW channel, NEW id \in Stored, NEW limit \in Int \ {0}
  PROVE  IsAscending(GetMessagesAround(channel, id, limit))
<1> DEFINE before == GetMessagesByAnchor(channel, id, limit, TRUE)
           after  == GetMessagesByAnchor(channel, id, limit, FALSE)
<1>1. id \in Nat \ {0} /\ Ids \subseteq Nat
  BY MessagesAssumption DEF Ids
<1>2. before \in Seq(Ids) /\ IsWindow(before, channel, id, limit, TRUE)
  BY <1>1, PageIsWindow
<1>3. after \in Seq(Ids) /\ IsWindow(after, channel, id, limit, FALSE)
  BY <1>1, PageIsWindow
<1> HIDE DEF before, after
<1>4. IsAscending(before) /\ \A i \in DOMAIN before : before[i] < id
  BY <1>1, <1>2 DEF IsWindow, Range
<1>5. IsAscending(after) /\ \A i \in DOMAIN after : id < after[i]
  <2>1. \A i \in DOMAIN after : after[i] \in Nat /\ ~ (after[i] < id) /\ after[i] # id
    BY <1>1, <1>3 DEF IsWindow, Range
  <2> QED
    BY <1>1, <1>3, <2>1 DEF IsWindow
<1>6. IsAscending(before \o <<id>> \o after)
  BY <1>2, <1>3, <1>4, <1>5, JoinAscending
<1> QED
  BY <1>6 DEF GetMessagesAround, before, after

LEMMA PagesOfTables ==
  ASSUME Stored \subseteq Ids
  PROVE  PagesExact
<1>1. MaxId \in Nat
  BY MessagesAssumption
<1>2. ASSUME NEW channel \in Channels, NEW limit \in Limits, NEW anchor \in 0 .. MaxId + 1,
             NEW before \in BOOLEAN
      PROVE  IsWindow(GetMessagesByAnchor(channel, anchor, limit, before),
                      channel, anchor, limit, before)
  <2>1. anchor \in Nat /\ limit \in Int \ {0}
    BY <1>1 DEF Limits
  <2> QED
    BY <2>1, PageIsWindow
<1>3. ASSUME NEW channel \in Channels, NEW limit \in Limits, NEW id \in Stored
      PROVE  IsAscending(GetMessagesAround(channel, id, limit))
  <2>1. limit \in Int \ {0}
    BY DEF Limits
  <2> QED
    BY <2>1, AroundAscending
<1> QED
  BY <1>2, <1>3 DEF PagesExact

-----------------------------------------------------------------------------
(* The inductive invariants.                                               *)

\* An ID that is drawn and not yet stored, or not yet drawn.
Fresh(id) == id > lastId \/ \E u \in Users : sending[u].id = id

\* A page that waits begins with a message, and so does what the client will have.
PageInv == page = NoPage \/ page.oldest \in Ids

\* Nothing in the server or the client refers to a message that is not stored yet,
\* and two requests never store the same.
FreshInv ==
  /\ \A u \in Users : sending[u].id <= lastId
  /\ \A u, v \in Users : sending[u] # NoMessage /\ sending[u].id = sending[v].id => u = v
  /\ \A id \in Ids : Fresh(id) =>
       /\ id \notin Stored \cup DOMAIN page.rows \cup unsure \cup raced \cup repeated
       /\ flight[id] = {} /\ view[id] = {} /\ ~ Fetching(id)

\* A page that is the only one to go by its URL.
Own(url) == Page[url] = url /\ \A other \in Urls \ {url} : Page[other] # url

\* A message has one fetch at most: of links of its text that have no embed, each once
\* unless a text of it repeated one.
OneFetch(id) ==
  /\ \A f, g \in Fetchers : fetches[f].id = id /\ fetches[g].id = id => f = g
  /\ \A f \in Fetchers : fetches[f].id = id =>
       /\ Range(fetches[f].urls) \subseteq Range(messages[id].content.urls)
       /\ id \notin repeated => IsInjective(fetches[f].urls)
       /\ \A i \in DOMAIN embeds[id] : embeds[id][i].url \notin Range(fetches[f].urls)

\* Every embed belongs to a link of the text.
Linked(id) ==
  \A i \in DOMAIN embeds[id] :
    {embeds[id][i].url, embeds[id][i].from} \cap Range(messages[id].content.urls) # {}

\* A page that nothing else goes by is embedded once.
Once(id) ==
  \A url \in Urls : Own(url) =>
    \A i, j \in DOMAIN embeds[id] :
      embeds[id][i].url = url /\ embeds[id][j].url = url => i = j

\* What is stored about a message, if no edit came during a fetch, and the mentions.
RowsOf(id) ==
  /\ id \notin raced => /\ OneFetch(id) /\ Linked(id)
                        /\ id \notin repeated => Once(id)
  /\ LET content == messages[id].content
     IN /\ mentions[id] \subseteq Range(content.mentions)
        /\ Clean(content) => mentions[id] = Range(content.mentions)

RowsInv == \A id \in Stored : RowsOf(id)

Shown(id) == id \in Stored => messages[id].channel = Watched

\* These events, of which there is one at most, make this copy this row.
Leads(events, copy, row) ==
  IF events = {} THEN copy = row ELSE \A event \in events : Apply(event, copy) = row

\* The client has, or has asked for, this message.
Asked(id) == \/ id >= oldest \/ view[id] # {}
             \/ page # NoPage /\ id >= page.oldest /\ id \notin DOMAIN page.rows

\* The client's copy of a message and the one it is about to get become what is
\* stored with what is on the way, and what is on the way changes nothing about that.
\* It never gets anything about messages of other channels.
ViewOf(id) ==
  /\ \A e, d \in flight[id] : e = d
  /\ ~ Shown(id) => flight[id] = {} /\ view[id] = {} /\ id \notin DOMAIN page.rows
  /\ Shown(id) =>
       /\ Leads(flight[id], Row(id), Row(id))
       /\ \A event \in flight[id] : Apply(event, {}) \in {{}, Row(id)}
       /\ Asked(id) => Leads(flight[id], view[id], Row(id))
       /\ id \in DOMAIN page.rows => Leads(flight[id], page.rows[id], Row(id))

ViewInv == \A id \in Ids \ unsure : ViewOf(id)

-----------------------------------------------------------------------------
(* Types.                                                                  *)

Embed   == [url : Range(Page), from : Urls]
Message == [author : Users, channel : Channels, content : Contents, reference : 0 .. MaxId]
Events  == [type : {"add", "update", "delete"}, rows : SUBSET Copy, user : {Nobody}]
           \cup [type : {"react", "unreact"}, rows : {{}}, user : Users]

\* The part of TypeOK that is about the tables.
TablesOK ==
  /\ messages \in [Stored -> Message]
  /\ Stored \subseteq Ids
  /\ embeds \in [Ids -> Seq(Embed)]
  /\ mentions \in [Ids -> SUBSET Users] /\ reactions \subseteq Ids \X Users

\* A message's copy; one that is not stored has none.
LEMMA RowIs ==
  ASSUME NEW id
  PROVE  /\ id \in Stored => Row(id) =
              {[content |-> messages[id].content, embeds |-> embeds[id],
                mentions |-> mentions[id], reactions |-> {u \in Users : <<id, u>> \in reactions}]}
         /\ id \notin Stored => Row(id) = {}
BY DEF Row

LEMMA RowIsNext ==
  ASSUME NEW id
  PROVE  /\ id \in Stored' => Row(id)' =
              {[content |-> messages'[id].content, embeds |-> embeds'[id],
                mentions |-> mentions'[id],
                reactions |-> {u \in Users : <<id, u>> \in reactions'}]}
         /\ id \notin Stored' => Row(id)' = {}
BY DEF Row

LEMMA RowType ==
  ASSUME TablesOK, NEW id
  PROVE  Row(id) \in SUBSET Copy
<1>1. ASSUME id \in Stored PROVE Row(id) \in SUBSET Copy
  <2>1. messages[id].content \in Contents
    BY <1>1 DEF TablesOK, Message
  <2>2. embeds[id] \in Seq([url : Range(Page), from : Urls]) /\ mentions[id] \in SUBSET Users
    BY <1>1 DEF TablesOK, Embed
  <2> DEFINE rs == {u \in Users : <<id, u>> \in reactions}
  <2>3. rs \in SUBSET Users
    OBVIOUS
  <2>4. Row(id) = {[content |-> messages[id].content, embeds |-> embeds[id],
                    mentions |-> mentions[id], reactions |-> rs]}
    BY <1>1, RowIs
  <2> HIDE DEF rs
  <2>5. [content |-> messages[id].content, embeds |-> embeds[id],
         mentions |-> mentions[id], reactions |-> rs] \in Copy
    BY <2>1, <2>2, <2>3 DEF Copy
  <2> QED
    BY <2>4, <2>5
<1> QED
  BY <1>1, RowIs

LEMMA RowTypeNext ==
  ASSUME TablesOK', NEW id
  PROVE  Row(id)' \in SUBSET Copy
<1>1. ASSUME id \in Stored' PROVE Row(id)' \in SUBSET Copy
  <2>1. messages'[id].content \in Contents
    BY <1>1 DEF TablesOK, Message
  <2>2. embeds'[id] \in Seq([url : Range(Page), from : Urls]) /\ mentions'[id] \in SUBSET Users
    BY <1>1 DEF TablesOK, Embed
  <2> DEFINE rs == {u \in Users : <<id, u>> \in reactions'}
  <2>3. rs \in SUBSET Users
    OBVIOUS
  <2>4. Row(id)' = {[content |-> messages'[id].content, embeds |-> embeds'[id],
                    mentions |-> mentions'[id], reactions |-> rs]}
    BY <1>1, RowIsNext
  <2> HIDE DEF rs
  <2>5. [content |-> messages'[id].content, embeds |-> embeds'[id],
         mentions |-> mentions'[id], reactions |-> rs] \in Copy
    BY <2>1, <2>2, <2>3 DEF Copy
  <2> QED
    BY <2>4, <2>5
<1> QED
  BY <1>1, RowIsNext

\* The mentions that are stored are users, and all of a text that is clean.
LEMMA AcceptedFacts ==
  ASSUME NEW content \in Contents
  PROVE  /\ Accepted(content) \subseteq Users \cap Range(content.mentions)
         /\ Clean(content) => /\ Accepted(content) = Range(content.mentions)
                              /\ Range(content.mentions) \subseteq Users
<1> DEFINE m == content.mentions
           bad(i) == m[i] = Nobody \/ \E j \in 1 .. i - 1 : m[j] = m[i]
<1>1. m \in Seq(Users \cup {Nobody})
  BY MessagesAssumption
<1>2. Accepted(content) = {m[i] : i \in {i \in DOMAIN m : \A j \in 1 .. i : ~ bad(j)}}
  BY DEF Accepted
<1>3. DOMAIN m = 1 .. Len(m) /\ Len(m) \in Nat /\ \A i \in DOMAIN m : m[i] \in Users \cup {Nobody}
  BY <1>1
<1>4. Clean(content) <=> IsInjective(m) /\ Nobody \notin Range(m)
  BY DEF Clean
<1> HIDE DEF m
<1>5. Range(m) \subseteq Users \cup {Nobody} /\ \A i \in DOMAIN m : m[i] \in Range(m)
  BY <1>3 DEF Range
<1>6. Accepted(content) \subseteq Users \cap Range(m)
  <2> SUFFICES ASSUME NEW i \in DOMAIN m, \A j \in 1 .. i : ~ bad(j)
               PROVE  m[i] \in Users \cap Range(m)
    BY <1>2
  <2>1. ~ bad(i)
    BY <1>3
  <2> QED
    BY <1>3, <1>5, <2>1
<1>7. ASSUME Clean(content) PROVE Accepted(content) = Range(m) /\ Range(m) \subseteq Users
  <2>1. ASSUME NEW i \in DOMAIN m PROVE ~ bad(i)
    <3>1. m[i] # Nobody
      BY <1>4, <1>5, <1>7
    <3>2. \A j \in 1 .. i - 1 : j \in DOMAIN m /\ j # i
      BY <1>3
    <3> QED
      BY <1>4, <1>7, <3>1, <3>2 DEF IsInjective
  <2>2. \A i \in DOMAIN m : \A j \in 1 .. i : j \in DOMAIN m
    BY <1>3
  <2> HIDE DEF bad
  <2>3. Accepted(content) = {m[i] : i \in DOMAIN m}
    BY <1>2, <2>1, <2>2
  <2> QED
    BY <1>4, <1>5, <1>7, <2>3 DEF Range
<1> QED
  BY <1>6, <1>7 DEF m

LEMMA InitType == Init => TypeOK
<1> SUFFICES ASSUME Init PROVE TypeOK
  OBVIOUS
<1>1. Stored = {} /\ DOMAIN page.rows = {} /\ page.oldest = 0 /\ page.rows = <<>>
  BY DEF Init, NoPage, Stored
<1>2. MaxId \in Nat /\ MaxRequests \in Nat
  BY MessagesAssumption
<1> QED
  BY <1>1, <1>2 DEF Init, TypeOK, NoPage, NoFetch, Stored

\* An event is relayed once at most at a time.
LEMMA RelayType ==
  ASSUME flight \in [Ids -> SUBSET Events], unsure \subseteq Ids,
         NEW id \in Ids, NEW event \in Events, NEW channel, RelayByChannel(id, event, channel)
  PROVE  flight' \in [Ids -> SUBSET Events] /\ unsure' \subseteq Ids
BY DEF RelayByChannel

\* The rest of TypeOK.
OthersOK ==
  /\ lastId \in 0 .. MaxId
  /\ sending \in [Users -> {NoMessage} \cup
       [id : Ids, channel : Channels, content : Contents, reference : 0 .. MaxId]]
  /\ fetches \in [Fetchers -> [id : 0 .. MaxId, urls : Seq(Urls)]]
  /\ flight \in [Ids -> SUBSET Events]
  /\ page = [oldest |-> page.oldest, rows |-> page.rows]
  /\ page.oldest \in 0 .. MaxId
  /\ DOMAIN page.rows \subseteq Ids /\ page.rows \in [DOMAIN page.rows -> SUBSET Copy]
  /\ view \in [Ids -> SUBSET Copy]
  /\ oldest \in 1 .. MaxId + 1
  /\ unsure \subseteq Ids /\ raced \subseteq Ids /\ repeated \subseteq Ids
  /\ requests \in 0 .. MaxRequests

LEMMA TypeParts == TypeOK <=> TablesOK /\ OthersOK
BY DEF TypeOK, TablesOK, OthersOK, Message, Embed, Events

LEMMA TypePartsNext == TypeOK' <=> TablesOK' /\ OthersOK'
BY DEF TypeOK, TablesOK, OthersOK, Message, Embed, Events

\* A message that is about to be stored.
LEMMA SendingType ==
  ASSUME OthersOK, NEW u \in Users, NEW id \in Ids, sending[u].id = id
  PROVE  sending[u] \in [id : Ids, channel : Channels, content : Contents,
                         reference : 0 .. MaxId]
<1>1. id # 0
  BY MessagesAssumption DEF Ids
<1>2. sending[u] # NoMessage
  BY <1>1 DEF NoMessage
<1> QED
  BY <1>2 DEF OthersOK

\* Storing a message, an edit, a deletion and embeds keep the tables' types.
LEMMA AddMessageType ==
  ASSUME TablesOK, NEW id \in Ids, NEW message \in Message, AddMessage(id, message)
  PROVE  TablesOK' /\ Stored' = Stored \cup {id}
<1>1. Stored' = Stored \cup {id} /\ messages' \in [Stored \cup {id} -> Message]
  BY DEF AddMessage, TablesOK, Stored
<1>2. Accepted(message.content) \in SUBSET Users
  BY AcceptedFacts DEF Message
<1> QED
  BY <1>1, <1>2 DEF AddMessage, TablesOK

LEMMA KeptEmbedsType ==
  ASSUME NEW urls, NEW rows \in Seq(Embed)
  PROVE  /\ KeptEmbeds(urls, rows) \in Seq(Embed)
         /\ Range(KeptEmbeds(urls, rows)) = {e \in Range(rows) : e.url \in Range(urls)}
<1> DEFINE T == {e \in Range(rows) : e.url \in Range(urls)}
<1>1. KeptEmbeds(urls, rows) = Filter(rows, T)
  BY DEF KeptEmbeds
<1>2. Range(rows) \cap T = T
  OBVIOUS
<1> HIDE DEF T
<1> DEFINE F == Filter(rows, T)
<1> HIDE DEF F
<1>4. F \in Seq(Embed) /\ Range(F) = Range(rows) \cap T
  BY FilterKeeps DEF F
<1>3. KeptEmbeds(urls, rows) \in Seq(Embed) /\ Range(KeptEmbeds(urls, rows)) = T
  BY <1>1, <1>2, <1>4 DEF F
<1> QED
  BY <1>3 DEF T

LEMMA SetMessageType ==
  ASSUME TablesOK, NEW id \in Stored, NEW content \in Contents, SetMessage(id, content)
  PROVE  TablesOK' /\ Stored' = Stored
<1>1. Stored' = Stored /\ messages' \in [Stored -> Message]
  BY DEF SetMessage, TablesOK, Stored, Message
<1>2. id \in Ids /\ embeds[id] \in Seq(Embed)
  BY DEF TablesOK
<1>3. Range(content.mentions) \in SUBSET Users
  BY AcceptedFacts DEF SetMessage
<1>4. KeptEmbeds(content.urls, embeds[id]) \in Seq(Embed)
  BY <1>2, KeptEmbedsType
<1> QED
  BY <1>1, <1>2, <1>3, <1>4 DEF SetMessage, TablesOK

LEMMA DeleteMessageType ==
  ASSUME TablesOK, NEW id \in Stored, DeleteMessage(id)
  PROVE  TablesOK' /\ Stored' = Stored \ {id}
<1>1. MaxId \in Nat
  BY MessagesAssumption
<1>2. Stored' = Stored \ {id} /\ messages' \in [Stored \ {id} -> Message]
  <2> DEFINE kept(m) == [messages[m] EXCEPT !.reference = IF @ = id THEN 0 ELSE @]
  <2>1. ASSUME NEW m \in Stored PROVE kept(m) \in Message
    <3>1. messages[m] \in Message
      BY DEF TablesOK
    <3>2. 0 \in 0 .. MaxId
      BY <1>1
    <3> QED
      BY <3>1, <3>2 DEF Message
  <2>2. messages' = [m \in Stored \ {id} |-> kept(m)]
    BY DEF DeleteMessage
  <2> HIDE DEF kept
  <2> QED
    BY <2>1, <2>2 DEF Stored
<1> QED
  BY <1>2 DEF DeleteMessage, TablesOK

\* The rows of fetches that succeeded.
LEMMA FetchedType ==
  ASSUME NEW urls \in Seq(Urls)
  PROVE  [i \in DOMAIN urls |-> GetEmbedFromURL(urls[i])] \in Seq(Embed)
<1>1. \A i \in DOMAIN urls : GetEmbedFromURL(urls[i]) \in Embed
  BY DEF GetEmbedFromURL, Embed, Range, Urls
<1>2. DOMAIN urls = 1 .. Len(urls) /\ Len(urls) \in Nat
  OBVIOUS
<1> QED
  BY <1>1, <1>2

LEMMA AddEmbedsType ==
  ASSUME TablesOK, NEW id \in Ids, NEW urls \in Seq(Urls), AddEmbeds(id, urls),
         UNCHANGED <<messages, mentions, reactions>>
  PROVE  TablesOK' /\ Stored' = Stored
<1> DEFINE new == [i \in DOMAIN urls |-> GetEmbedFromURL(urls[i])]
<1>1. new \in Seq(Embed)
  BY FetchedType
<1>2. embeds' = [embeds EXCEPT ![id] = embeds[id] \o new]
  BY DEF AddEmbeds
<1> HIDE DEF new
<1>3. embeds[id] \o new \in Seq(Embed)
  BY <1>1 DEF TablesOK
<1> QED
  BY <1>2, <1>3 DEF TablesOK, Stored

\* Links are fetched from a text.
LEMMA StartFetchType ==
  ASSUME fetches \in [Fetchers -> [id : 0 .. MaxId, urls : Seq(Urls)]],
         NEW id \in Ids, NEW urls \in Seq(Urls), StartFetch(id, urls)
  PROVE  fetches' \in [Fetchers -> [id : 0 .. MaxId, urls : Seq(Urls)]]
<1>1. id \in 0 .. MaxId
  BY MessagesAssumption DEF Ids
<1> QED
  BY <1>1 DEF StartFetch

LEMMA AddedURLsType ==
  ASSUME NEW urls \in Seq(Urls), NEW rows \in Seq(Embed)
  PROVE  /\ AddedURLs(urls, rows) \in Seq(Urls)
         /\ Range(AddedURLs(urls, rows)) = Range(urls) \ {e.url : e \in Range(rows)}
         /\ IsInjective(urls) => IsInjective(AddedURLs(urls, rows))
<1> DEFINE T == Range(urls) \ {e.url : e \in Range(rows)}
<1>1. AddedURLs(urls, rows) = Filter(urls, T)
  BY DEF AddedURLs
<1>2. Range(urls) \cap T = T
  OBVIOUS
<1> HIDE DEF T
<1>3. /\ AddedURLs(urls, rows) \in Seq(Urls) /\ Range(AddedURLs(urls, rows)) = T
      /\ IsInjective(urls) => IsInjective(AddedURLs(urls, rows))
  <2>1. /\ Filter(urls, T) \in Seq(Urls) /\ Range(Filter(urls, T)) = Range(urls) \cap T
        /\ IsInjective(urls) => IsInjective(Filter(urls, T))
    BY FilterKeeps
  <2> QED
    BY <1>1, <1>2, <2>1
<1> QED
  BY <1>3 DEF T

\* The client applies an event.
LEMMA ApplyType ==
  ASSUME NEW event \in Events, NEW copy \in SUBSET Copy
  PROVE  Apply(event, copy) \in SUBSET Copy
<1>1. event.type \in {"add", "update", "delete", "react", "unreact"} /\ event.rows \in SUBSET Copy
  BY DEF Events
<1>2. CASE event.type \in {"add", "update", "delete"}
  BY <1>1, <1>2 DEF Apply
<1>3. CASE event.type = "react"
  <2>1. event.user \in Users
    BY <1>3 DEF Events
  <2>2. Apply(event, copy) = {[m EXCEPT !.reactions = @ \cup {event.user}] : m \in copy}
    BY <1>3 DEF Apply
  <2>3. \A m \in Copy : [m EXCEPT !.reactions = @ \cup {event.user}] \in Copy
    BY <2>1 DEF Copy
  <2> QED
    BY <2>2, <2>3
<1>4. CASE event.type = "unreact"
  <2>2. Apply(event, copy) = {[m EXCEPT !.reactions = @ \ {event.user}] : m \in copy}
    BY <1>4 DEF Apply
  <2>3. \A m \in Copy : [m EXCEPT !.reactions = @ \ {event.user}] \in Copy
    BY DEF Copy
  <2> QED
    BY <2>2, <2>3
<1> QED
  BY <1>1, <1>2, <1>3, <1>4

\* Events of their kind.
LEMMA EventTypes ==
  ASSUME NEW rows \in SUBSET Copy
  PROVE  /\ \A type \in {"add", "update", "delete"} : Event(type, rows, Nobody) \in Events
         /\ \A type \in {"react", "unreact"}, u \in Users : Event(type, {}, u) \in Events
BY DEF Event, Events

LEMMA TypeSend ==
  ASSUME TypeOK, NEW u \in Users, NEW channel \in Channels, NEW content \in Contents,
         NEW reference \in Stored \cup {0},
         HandleMessageSendRequest(u, channel, content, reference)
  PROVE  TypeOK'
<1>1. TablesOK /\ OthersOK
  BY TypeParts
<1>2. MaxId \in Nat /\ MaxRequests \in Nat
  BY MessagesAssumption
<1>3. TablesOK'
  BY <1>1 DEF HandleMessageSendRequest, TablesOK, db, Stored
<1>4. reference \in 0 .. MaxId /\ lastId' \in Ids
  BY <1>1, <1>2 DEF HandleMessageSendRequest, TablesOK, OthersOK, Ids
<1>5. OthersOK'
  BY <1>1, <1>2, <1>4 DEF HandleMessageSendRequest, Request, OthersOK, client, Ids
<1> QED
  BY <1>3, <1>5, TypePartsNext

LEMMA TypeFinalizeFails ==
  ASSUME TypeOK, NEW u \in Users, FinalizeFails(u)
  PROVE  TypeOK'
<1>1. TablesOK /\ OthersOK
  BY TypeParts
<1>2. TablesOK'
  BY <1>1 DEF FinalizeFails, TablesOK, db, Stored
<1>3. OthersOK'
  BY <1>1 DEF FinalizeFails, OthersOK, client
<1> QED
  BY <1>2, <1>3, TypePartsNext

LEMMA TypeFinalize ==
  ASSUME TypeOK, NEW u \in Users, NEW id \in Ids, FinalizeMessageSendRequest(u, id)
  PROVE  TypeOK'
<1> DEFINE m == sending[u]
           message == [author |-> u, channel |-> m.channel, content |-> m.content,
                       reference |-> m.reference]
           urls == IF u \in MayEmbed THEN m.content.urls ELSE <<>>
<1>1. TablesOK /\ OthersOK
  BY TypeParts
<1>2. m \in [id : Ids, channel : Channels, content : Contents, reference : 0 .. MaxId]
  BY <1>1, SendingType DEF FinalizeMessageSendRequest
<1>3. message \in Message /\ m.content.urls \in Seq(Urls)
  BY <1>2, MessagesAssumption DEF Message
<1>4. /\ AddMessage(id, message)
      /\ RelayByChannel(id, Event("add", Row(id)', Nobody), m.channel)
      /\ IF urls = <<>> THEN UNCHANGED fetches ELSE StartFetch(id, urls)
      /\ sending' = [sending EXCEPT ![u] = NoMessage]
      /\ repeated' \subseteq repeated \cup {id}
      /\ UNCHANGED <<lastId, client, raced, requests>>
  BY DEF FinalizeMessageSendRequest, Note
<1>5. urls \in Seq(Urls)
  BY <1>3
<1> HIDE DEF message, urls
<1>6. TablesOK'
  BY <1>1, <1>3, <1>4, AddMessageType
<1>7. Event("add", Row(id)', Nobody) \in Events
  BY <1>6, RowTypeNext, EventTypes
<1>8. flight' \in [Ids -> SUBSET Events] /\ unsure' \subseteq Ids
  BY <1>1, <1>4, <1>7, RelayType DEF OthersOK
<1>9. fetches' \in [Fetchers -> [id : 0 .. MaxId, urls : Seq(Urls)]]
  BY <1>1, <1>4, <1>5, StartFetchType DEF OthersOK
<1>10. OthersOK'
  BY <1>1, <1>4, <1>8, <1>9 DEF OthersOK, client
<1> QED
  BY <1>6, <1>10, TypePartsNext

LEMMA TypeUpdate ==
  ASSUME TypeOK, NEW u \in Users, NEW id \in Ids, NEW content \in Contents,
         HandleMessageUpdateRequest(u, id, content)
  PROVE  TypeOK'
<1> DEFINE added == AddedURLs(content.urls, embeds[id])
<1>1. TablesOK /\ OthersOK
  BY TypeParts
<1>2. /\ id \in Stored /\ SetMessage(id, content) /\ Request
      /\ RelayByChannel(id, Event("update", Row(id)', Nobody), messages[id].channel)
      /\ IF u \in MayEmbed THEN StartFetch(id, added) ELSE UNCHANGED fetches
      /\ raced' \subseteq raced \cup {id} /\ repeated' \subseteq repeated \cup {id}
      /\ UNCHANGED <<lastId, sending, client>>
  BY DEF HandleMessageUpdateRequest, Note
<1>3. added \in Seq(Urls)
  <2>1. content.urls \in Seq(Urls) /\ embeds[id] \in Seq(Embed)
    BY <1>1, MessagesAssumption DEF TablesOK
  <2> QED
    BY <2>1, AddedURLsType
<1> HIDE DEF added
<1>4. TablesOK'
  BY <1>1, <1>2, SetMessageType
<1>5. Event("update", Row(id)', Nobody) \in Events
  BY <1>4, RowTypeNext, EventTypes
<1>6. flight' \in [Ids -> SUBSET Events] /\ unsure' \subseteq Ids
  BY <1>1, <1>2, <1>5, RelayType DEF OthersOK
<1>7. fetches' \in [Fetchers -> [id : 0 .. MaxId, urls : Seq(Urls)]]
  BY <1>1, <1>2, <1>3, StartFetchType DEF OthersOK
<1>8. requests' \in 0 .. MaxRequests
  BY <1>1, <1>2, MessagesAssumption DEF OthersOK, Request
<1>9. raced' \subseteq Ids /\ repeated' \subseteq Ids
  BY <1>1, <1>2 DEF OthersOK
<1>10. OthersOK'
  BY <1>1, <1>2, <1>6, <1>7, <1>8, <1>9 DEF OthersOK, client
<1> QED
  BY <1>4, <1>10, TypePartsNext

LEMMA TypeDelete ==
  ASSUME TypeOK, NEW u \in Users, NEW id \in Ids, HandleMessageDeleteRequest(u, id)
  PROVE  TypeOK'
<1>1. TablesOK /\ OthersOK
  BY TypeParts
<1>2. /\ id \in Stored /\ DeleteMessage(id) /\ Request
      /\ RelayByChannel(id, Event("delete", {}, Nobody), messages[id].channel)
      /\ raced' = raced \ {id}
      /\ UNCHANGED <<server, client, repeated>>
  BY DEF HandleMessageDeleteRequest
<1>3. TablesOK'
  BY <1>1, <1>2, DeleteMessageType
<1>4. flight' \in [Ids -> SUBSET Events] /\ unsure' \subseteq Ids
  BY <1>1, <1>2, EventTypes, RelayType DEF OthersOK
<1>5. OthersOK'
  BY <1>1, <1>2, <1>4, MessagesAssumption DEF OthersOK, client, server, Request
<1> QED
  BY <1>3, <1>5, TypePartsNext

LEMMA TypeReaction ==
  ASSUME TypeOK, NEW u \in Users, NEW id \in Ids,
         \/ HandleMessageReactionAddRequest(u, id)
         \/ HandleMessageReactionDeleteRequest(u, id)
  PROVE  TypeOK'
<1>1. TablesOK /\ OthersOK
  BY TypeParts
<1>2. PICK event \in Events :
        /\ RelayByChannel(id, event, messages[id].channel) /\ Request
        /\ reactions' \subseteq reactions \cup {<<id, u>>}
        /\ UNCHANGED <<messages, embeds, mentions, server, client, raced, repeated>>
  <2>1. CASE HandleMessageReactionAddRequest(u, id)
    BY <2>1, EventTypes DEF HandleMessageReactionAddRequest, AddReaction
  <2>2. CASE HandleMessageReactionDeleteRequest(u, id)
    BY <2>2, EventTypes DEF HandleMessageReactionDeleteRequest, DeleteReaction
  <2> QED
    BY <2>1, <2>2
<1>3. TablesOK'
  BY <1>1, <1>2 DEF TablesOK, Stored
<1>4. flight' \in [Ids -> SUBSET Events] /\ unsure' \subseteq Ids
  BY <1>1, <1>2, RelayType DEF OthersOK
<1>5. OthersOK'
  BY <1>1, <1>2, <1>4, MessagesAssumption DEF OthersOK, client, server, Request
<1> QED
  BY <1>3, <1>5, TypePartsNext

LEMMA TypeTryEmbed ==
  ASSUME TypeOK, NEW f \in Fetchers, NEW id \in Ids, TryEmbedURLs(f, id)
  PROVE  TypeOK'
<1>1. TablesOK /\ OthersOK
  BY TypeParts
<1>2. PICK got : AddEmbeds(id, AtPlaces(fetches[f].urls, got))
  BY DEF TryEmbedURLs
<1>3. AtPlaces(fetches[f].urls, got) \in Seq(Urls)
  BY <1>1, PlacesKeep DEF OthersOK
<1>4. TablesOK'
  BY <1>1, <1>2, <1>3, AddEmbedsType DEF TryEmbedURLs
<1>5. Event("update", Row(id)', Nobody) \in Events
  BY <1>4, RowTypeNext, EventTypes
<1>6. flight' \in [Ids -> SUBSET Events] /\ unsure' \subseteq Ids
  BY <1>1, <1>5, RelayType DEF TryEmbedURLs, OthersOK
<1>7. NoFetch \in [id : 0 .. MaxId, urls : Seq(Urls)]
  BY MessagesAssumption DEF NoFetch
<1>8. OthersOK'
  BY <1>1, <1>6, <1>7 DEF TryEmbedURLs, OthersOK, client
<1> QED
  BY <1>4, <1>8, TypePartsNext

LEMMA TypeTryEmbedFails ==
  ASSUME TypeOK, NEW f \in Fetchers, TryEmbedURLsFails(f)
  PROVE  TypeOK'
<1>1. TablesOK /\ OthersOK
  BY TypeParts
<1>2. TablesOK'
  BY <1>1 DEF TryEmbedURLsFails, TablesOK, db, Stored
<1>3. NoFetch \in [id : 0 .. MaxId, urls : Seq(Urls)]
  BY MessagesAssumption DEF NoFetch
<1>4. OthersOK'
  BY <1>1, <1>3 DEF TryEmbedURLsFails, OthersOK, client
<1> QED
  BY <1>2, <1>4, TypePartsNext

LEMMA TypeDeliver ==
  ASSUME TypeOK, NEW id \in Ids, Deliver(id)
  PROVE  TypeOK'
<1>1. TablesOK /\ OthersOK
  BY TypeParts
<1>2. TablesOK'
  BY <1>1 DEF Deliver, TablesOK, db, Stored
<1>3. PICK event \in flight[id] : view' = [view EXCEPT ![id] = Apply(event, @)]
  BY DEF Deliver
<1>4. Apply(event, view[id]) \in SUBSET Copy
  <2>1. event \in Events /\ view[id] \in SUBSET Copy
    BY <1>1, <1>3 DEF OthersOK
  <2> QED
    BY <2>1, ApplyType
<1>5. view' \in [Ids -> SUBSET Copy]
  BY <1>1, <1>3, <1>4 DEF OthersOK
<1>6. OthersOK'
  BY <1>1, <1>5 DEF Deliver, OthersOK, server
<1> QED
  BY <1>2, <1>6, TypePartsNext

LEMMA TypeDrop ==
  ASSUME TypeOK, NEW id \in Ids, Drop(id)
  PROVE  TypeOK'
<1>1. TablesOK /\ OthersOK
  BY TypeParts
<1>2. TablesOK'
  BY <1>1 DEF Drop, TablesOK, db, Stored
<1>3. OthersOK'
  BY <1>1 DEF Drop, OthersOK, server, client
<1> QED
  BY <1>2, <1>3, TypePartsNext

\* What a request for a page reads: the window before what the client has asked for.
LEMMA PageRead ==
  ASSUME TypeOK, HandleMessagesRequest
  PROVE  LET anchor == IF oldest > MaxId THEN 0 ELSE oldest
             ids    == GetMessagesByAnchor(Watched, anchor, PageSize, TRUE)
         IN /\ ids \in Seq(Ids) /\ IsWindow(ids, Watched, anchor, PageSize, TRUE)
            /\ page' = [rows   |-> [id \in Range(ids) |-> Row(id)],
                        oldest |-> IF Len(ids) = PageSize THEN ids[1] ELSE 1]
            /\ Len(ids) = PageSize => 1 \in DOMAIN ids
            /\ page'.oldest \in Ids
<1> DEFINE anchor == IF oldest > MaxId THEN 0 ELSE oldest
           ids    == GetMessagesByAnchor(Watched, anchor, PageSize, TRUE)
<1>1. TablesOK /\ OthersOK
  BY TypeParts
<1>2. MaxId \in Nat /\ PageSize \in Nat \ {0}
  BY MessagesAssumption
<1>3. anchor \in Nat /\ oldest > 1 /\ oldest \in 1 .. MaxId + 1
  BY <1>1, <1>2 DEF OthersOK, HandleMessagesRequest
<1>4. ids \in Seq(Ids) /\ IsWindow(ids, Watched, anchor, PageSize, TRUE)
  <2> HIDE DEF anchor
  <2>1. Stored \subseteq Ids /\ PageSize \in Int \ {0}
    BY <1>1, <1>2 DEF TablesOK
  <2> QED
    BY <1>3, <2>1, PageIsWindow
<1>5. page' = [rows   |-> [id \in Range(ids) |-> Row(id)],
               oldest |-> IF Len(ids) = PageSize THEN ids[1] ELSE 1]
  BY DEF HandleMessagesRequest
<1> HIDE DEF ids, anchor
<1>6. Len(ids) = PageSize => 1 \in DOMAIN ids
  BY <1>2, <1>4
<1>7. 1 \in Ids
  BY <1>2, <1>3 DEF Ids
<1>8. page'.oldest \in Ids
  BY <1>4, <1>5, <1>6, <1>7
<1> QED
  BY <1>4, <1>5, <1>6, <1>8 DEF ids, anchor

LEMMA TypeMessagesRequest ==
  ASSUME TypeOK, HandleMessagesRequest
  PROVE  TypeOK' /\ PageInv'
<1> DEFINE anchor == IF oldest > MaxId THEN 0 ELSE oldest
           ids    == GetMessagesByAnchor(Watched, anchor, PageSize, TRUE)
<1>1. TablesOK /\ OthersOK
  BY TypeParts
<1>2. /\ ids \in Seq(Ids) /\ page'.oldest \in Ids
      /\ page' = [rows   |-> [id \in Range(ids) |-> Row(id)],
                  oldest |-> IF Len(ids) = PageSize THEN ids[1] ELSE 1]
  BY PageRead
<1> HIDE DEF ids
<1>3. TablesOK'
  BY <1>1 DEF HandleMessagesRequest, TablesOK, db, Stored
<1>4. Range(ids) \subseteq Ids
  BY <1>2 DEF Range
<1>5. page'.rows \in [Range(ids) -> SUBSET Copy] /\ DOMAIN page'.rows = Range(ids)
  BY <1>1, <1>2, RowType
<1>6. page' = [oldest |-> page'.oldest, rows |-> page'.rows]
  BY <1>2
<1>7. page'.oldest \in 0 .. MaxId
  BY <1>2, MessagesAssumption DEF Ids
<1>8. OthersOK'
  BY <1>1, <1>4, <1>5, <1>6, <1>7 DEF HandleMessagesRequest, OthersOK, server
<1>9. PageInv'
  BY <1>2 DEF PageInv
<1> QED
  BY <1>3, <1>8, <1>9, TypePartsNext

LEMMA TypeMessagesResponse ==
  ASSUME TypeOK, PageInv, MessagesResponse
  PROVE  TypeOK'
<1>1. TablesOK /\ OthersOK
  BY TypeParts
<1>2. TablesOK'
  BY <1>1 DEF MessagesResponse, TablesOK, db, Stored
<1>3. view' \in [Ids -> SUBSET Copy]
  BY <1>1 DEF MessagesResponse, OthersOK
<1>4. oldest' \in 1 .. MaxId + 1
  BY MessagesAssumption DEF MessagesResponse, PageInv, Ids
<1>5. OthersOK'
  BY <1>1, <1>3, <1>4, MessagesAssumption DEF MessagesResponse, OthersOK, server, NoPage
<1> QED
  BY <1>2, <1>5, TypePartsNext

LEMMA TypeCrash ==
  ASSUME TypeOK, Crash
  PROVE  TypeOK'
<1>1. TablesOK /\ OthersOK
  BY TypeParts
<1>2. TablesOK'
  BY <1>1 DEF Crash, TablesOK, db, Stored
<1>3. OthersOK'
  BY <1>1, MessagesAssumption DEF Crash, OthersOK, NoFetch, NoPage
<1> QED
  BY <1>2, <1>3, TypePartsNext

LEMMA TypeStep == TypeOK /\ PageInv /\ [Next]_vars => TypeOK' /\ PageInv'
<1> SUFFICES ASSUME TypeOK, PageInv, [Next]_vars PROVE TypeOK' /\ PageInv'
  OBVIOUS
<1>1. CASE \E u \in Users, channel \in Channels, content \in Contents,
              reference \in Stored \cup {0} :
             HandleMessageSendRequest(u, channel, content, reference)
  BY <1>1, TypeSend DEF HandleMessageSendRequest, client, PageInv
<1>2. CASE \E u \in Users : FinalizeFails(u)
  BY <1>2, TypeFinalizeFails DEF FinalizeFails, client, PageInv
<1>3. CASE \E u \in Users, id \in Ids : FinalizeMessageSendRequest(u, id)
  BY <1>3, TypeFinalize DEF FinalizeMessageSendRequest, client, PageInv
<1>4. CASE \E u \in Users, id \in Ids, content \in Contents :
             HandleMessageUpdateRequest(u, id, content)
  BY <1>4, TypeUpdate DEF HandleMessageUpdateRequest, client, PageInv
<1>5. CASE \E u \in Users, id \in Ids : HandleMessageDeleteRequest(u, id)
  BY <1>5, TypeDelete DEF HandleMessageDeleteRequest, client, PageInv
<1>6. CASE \E u \in Users, id \in Ids : \/ HandleMessageReactionAddRequest(u, id)
                                       \/ HandleMessageReactionDeleteRequest(u, id)
  BY <1>6, TypeReaction
     DEF HandleMessageReactionAddRequest, HandleMessageReactionDeleteRequest, client, PageInv
<1>7. CASE \E f \in Fetchers : TryEmbedURLsFails(f)
  BY <1>7, TypeTryEmbedFails DEF TryEmbedURLsFails, client, PageInv
<1>8. CASE \E f \in Fetchers, id \in Ids : TryEmbedURLs(f, id)
  BY <1>8, TypeTryEmbed DEF TryEmbedURLs, client, PageInv
<1>9. CASE \E id \in Ids : Deliver(id)
  BY <1>9, TypeDeliver DEF Deliver, PageInv
<1>14. CASE \E id \in Ids : Drop(id)
  BY <1>14, TypeDrop DEF Drop, client, PageInv
<1>10. CASE HandleMessagesRequest
  BY <1>10, TypeMessagesRequest
<1>11. CASE MessagesResponse
  BY <1>11, TypeMessagesResponse DEF MessagesResponse, PageInv
<1>12. CASE Crash
  BY <1>12, TypeCrash DEF Crash, PageInv
<1>13. CASE UNCHANGED vars
  BY <1>13 DEF vars, db, server, client, TypeOK, PageInv, Stored
<1> QED
  BY <1>1, <1>2, <1>3, <1>4, <1>5, <1>6, <1>7, <1>8, <1>9, <1>10, <1>11, <1>12, <1>13, <1>14
     DEF Next

\* The type invariant (TypeOK): messages, rows, copies and events are what they should
\* be, and mentions only ever name users (SetMessageMentions and the schema).
THEOREM MessagesTypeCorrect == Spec => []TypeOK
<1>1. Init => TypeOK /\ PageInv
  BY InitType DEF Init, PageInv
<1>2. TypeOK /\ PageInv /\ [Next]_vars => (TypeOK /\ PageInv)'
  BY TypeStep
<1> QED
  BY <1>1, <1>2, PTL DEF Spec

\* Each page is the window that was asked for (PagesExact), of any tables.
THEOREM MessagesPagesExact == Spec => []PagesExact
<1>1. TypeOK => PagesExact
  BY PagesOfTables, TypeParts DEF TablesOK
<1> QED
  BY <1>1, MessagesTypeCorrect, PTL

-----------------------------------------------------------------------------
(* Messages that are not stored yet.                                       *)

\* The event of a message leaves the others alone.
LEMMA RelayOthers ==
  ASSUME TypeOK, NEW id, NEW event, NEW channel, RelayByChannel(id, event, channel)
  PROVE  \A j \in Ids \ {id} : flight'[j] = flight[j] /\ (j \in unsure' <=> j \in unsure)
BY DEF RelayByChannel, TypeOK

\* So does a fetch that starts.
LEMMA StartFetchOthers ==
  ASSUME TypeOK, NEW id, NEW urls, StartFetch(id, urls)
  PROVE  /\ \A j \in Ids \ {id} : Fetching(j)' => Fetching(j)
         /\ \A f \in Fetchers : fetches'[f].id # id => fetches'[f] = fetches[f]
BY DEF StartFetch, TypeOK, Fetching

\* What is said of a message that is not stored yet stays true of those that remain so,
\* if only what is said of message id changes.
LEMMA FreshKept ==
  ASSUME TypeOK, TypeOK', FreshInv, NEW id \in Ids,
         \A j \in Ids : Fresh(j)' => Fresh(j) /\ j # id,
         \A u \in Users : sending'[u] \in {sending[u], NoMessage},
         lastId' = lastId, view' = view, page' = page,
         Stored' \subseteq Stored \cup {id}, raced' \subseteq raced \cup {id},
         repeated' \subseteq repeated \cup {id},
         \A j \in Ids \ {id} : /\ flight'[j] = flight[j] /\ (j \in unsure' <=> j \in unsure)
                               /\ Fetching(j)' => Fetching(j)
  PROVE  FreshInv'
<1>1. lastId \in Nat /\ NoMessage.id = 0
  BY MessagesAssumption DEF TypeOK, NoMessage
<1>2. \A u \in Users : sending'[u].id <= lastId'
  BY <1>1 DEF FreshInv
<1>3. \A u, v \in Users : sending'[u] # NoMessage /\ sending'[u].id = sending'[v].id => u = v
  <2> SUFFICES ASSUME NEW u \in Users, NEW v \in Users, sending'[u] # NoMessage,
                      sending'[u].id = sending'[v].id
               PROVE  u = v
    OBVIOUS
  <2>1. sending'[u] = sending[u] /\ sending[u].id # 0
    BY MessagesAssumption DEF TypeOK, Ids
  <2>2. sending'[v] = sending[v]
    BY <1>1, <2>1
  <2> QED
    BY <2>1, <2>2 DEF FreshInv
<1>4. ASSUME NEW j \in Ids, Fresh(j)'
      PROVE  /\ j \notin Stored' \cup DOMAIN page'.rows \cup unsure' \cup raced'
                           \cup repeated'
             /\ flight'[j] = {} /\ view'[j] = {} /\ ~ Fetching(j)'
  BY <1>4 DEF FreshInv
<1> QED
  BY <1>2, <1>3, <1>4 DEF FreshInv

LEMMA FreshInit == Init => FreshInv
<1> SUFFICES ASSUME Init PROVE FreshInv
  OBVIOUS
<1>1. Stored = {} /\ DOMAIN page.rows = {} /\ NoMessage.id = 0 /\ NoFetch.id = 0 /\ 0 \notin Ids
  BY MessagesAssumption DEF Init, Stored, NoPage, NoMessage, NoFetch, Ids
<1>2. \A id \in Ids : ~ Fetching(id)
  BY <1>1 DEF Init, Fetching
<1> QED
  BY <1>1, <1>2 DEF Init, FreshInv

\* What is stored or on its way to the client is not fresh.
LEMMA NotFresh ==
  ASSUME FreshInv, NEW id \in Ids,
         \/ id \in Stored \/ flight[id] # {} \/ Fetching(id)
  PROVE  ~ Fresh(id)
BY DEF FreshInv

\* The message that is stored was fresh, and is the only one to become stored.
LEMMA FinalizeFresh ==
  ASSUME TypeOK, FreshInv, NEW u \in Users, NEW id \in Ids, FinalizeMessageSendRequest(u, id)
  PROVE  /\ Fresh(id) /\ Stored' = Stored \cup {id}
         /\ \A j \in Ids : Fresh(j)' => Fresh(j) /\ j # id
<1>1. id # 0 /\ NoMessage.id = 0 /\ MaxId \in Nat
  BY MessagesAssumption DEF Ids, NoMessage
<1>2. /\ sending[u].id = id /\ sending' = [sending EXCEPT ![u] = NoMessage] /\ lastId' = lastId
      /\ Stored' = Stored \cup {id}
  BY DEF FinalizeMessageSendRequest, AddMessage, Stored
<1>3. sending[u] # NoMessage /\ id <= lastId /\ lastId \in Nat
  BY <1>1, <1>2 DEF FreshInv, TypeOK
<1>4. \A v \in Users : sending'[v].id = (IF v = u THEN 0 ELSE sending[v].id)
  BY <1>1, <1>2 DEF TypeOK
<1>5. \A v \in Users \ {u} : sending[v].id # id
  BY <1>2, <1>3 DEF FreshInv
<1>6. Fresh(id)
  BY <1>2 DEF Fresh
<1>7. \A j \in Ids : j > lastId => j # id
  BY <1>1, <1>3 DEF Ids
<1>8. ASSUME NEW j \in Ids, Fresh(j)' PROVE Fresh(j) /\ j # id
  <2>1. CASE j > lastId'
    BY <1>2, <1>7, <2>1 DEF Fresh
  <2>2. CASE \E v \in Users : sending'[v].id = j
    <3>1. PICK v \in Users : sending'[v].id = j
      BY <2>2
    <3>2. v # u /\ sending[v].id = j
      BY <1>4, <3>1, MessagesAssumption DEF Ids
    <3> QED
      BY <1>5, <3>2 DEF Fresh
  <2> QED
    BY <1>8, <2>1, <2>2 DEF Fresh
<1> QED
  BY <1>2, <1>6, <1>8

LEMMA FreshStep ==
  ASSUME TypeOK, PageInv, FreshInv, [Next]_vars
  PROVE  FreshInv'
<1>0. TypeOK' /\ NoMessage.id = 0 /\ NoFetch.id = 0 /\ 0 \notin Ids /\ MaxId \in Nat
  BY TypeStep, MessagesAssumption DEF NoMessage, NoFetch, Ids
<1>1. ASSUME NEW u \in Users, NEW channel \in Channels, NEW content \in Contents,
             NEW reference \in Stored \cup {0},
             HandleMessageSendRequest(u, channel, content, reference)
      PROVE  FreshInv'
  <2>1. /\ lastId \in Nat /\ lastId' = lastId + 1
        /\ \A v \in Users : sending'[v].id = IF v = u THEN lastId' ELSE sending[v].id
        /\ \A v \in Users \ {u} : sending'[v] = sending[v]
        /\ \A v \in Users : sending[v].id \in Nat
        /\ UNCHANGED <<db, fetches, flight, client, unsure, raced, repeated>>
    <3> DEFINE m == [id |-> lastId', channel |-> channel, content |-> content,
                     reference |-> reference]
    <3>1. /\ lastId' = lastId + 1 /\ sending' = [sending EXCEPT ![u] = m]
          /\ UNCHANGED <<db, fetches, flight, client, unsure, raced, repeated>>
      BY <1>1 DEF HandleMessageSendRequest
    <3>2. m.id = lastId'
      OBVIOUS
    <3> HIDE DEF m
    <3>3. /\ lastId \in 0 .. MaxId
          /\ sending \in [Users -> {NoMessage} \cup [id : Ids, channel : Channels,
                              content : Contents, reference : 0 .. MaxId]]
      BY DEF TypeOK
    <3>4. ASSUME NEW v \in Users PROVE sending[v].id \in Nat
      <4>1. CASE sending[v] = NoMessage
        BY <1>0, <4>1
      <4>2. CASE sending[v] # NoMessage
        BY <3>3, <4>2 DEF Ids
      <4> QED
        BY <4>1, <4>2
    <3>5. \A v \in Users : sending'[v] = IF v = u THEN m ELSE sending[v]
      BY <3>1, <3>3
    <3> QED
      BY <3>1, <3>2, <3>3, <3>4, <3>5
  <2>2. \A v \in Users : sending'[v].id <= lastId'
    BY <2>1 DEF FreshInv
  <2>3. \A v \in Users \ {u} : sending'[v].id # lastId'
    BY <2>1 DEF FreshInv
  <2>4. \A v, w \in Users : sending'[v] # NoMessage /\ sending'[v].id = sending'[w].id => v = w
    <3> SUFFICES ASSUME NEW v \in Users, NEW w \in Users, sending'[v] # NoMessage,
                        sending'[v].id = sending'[w].id, v # w
                 PROVE  FALSE
      OBVIOUS
    <3>1. v # u /\ w # u
      BY <2>1, <2>3
    <3> QED
      BY <2>1, <3>1 DEF FreshInv
  <2>5. \A j \in Ids : Fresh(j)' => Fresh(j)
    BY <2>1 DEF Fresh, Ids
  <2> QED
    BY <2>1, <2>2, <2>4, <2>5 DEF FreshInv, db, client, Stored, Fetching
<1>2. ASSUME NEW u \in Users, FinalizeFails(u) PROVE FreshInv'
  <2>1. \A v \in Users : sending'[v] = IF v = u THEN NoMessage ELSE sending[v]
    BY <1>2 DEF FinalizeFails, TypeOK
  <2>2. \A v \in Users : sending'[v].id <= lastId'
    BY <1>0, <1>2, <2>1 DEF FinalizeFails, FreshInv, TypeOK
  <2>3. \A v \in Users : sending[v] # NoMessage => sending[v].id # 0
    BY <1>0 DEF TypeOK
  <2>4. \A v, w \in Users : sending'[v] # NoMessage /\ sending'[v].id = sending'[w].id => v = w
    BY <1>0, <2>1, <2>3 DEF FreshInv
  <2>5. \A j \in Ids : Fresh(j)' => Fresh(j)
    BY <1>0, <1>2, <2>1 DEF FinalizeFails, Fresh
  <2> QED
    BY <1>2, <2>2, <2>4, <2>5 DEF FinalizeFails, FreshInv, db, client, Stored, Fetching
<1>3. ASSUME NEW u \in Users, NEW id \in Ids, FinalizeMessageSendRequest(u, id) PROVE FreshInv'
  <2>1. /\ RelayByChannel(id, Event("add", Row(id)', Nobody), sending[u].channel)
        /\ UNCHANGED fetches \/ \E urls : StartFetch(id, urls)
        /\ sending' = [sending EXCEPT ![u] = NoMessage]
        /\ repeated' \subseteq repeated \cup {id}
        /\ UNCHANGED <<lastId, client, raced, requests>>
    BY <1>3 DEF FinalizeMessageSendRequest, Note
  <2>2. \A j \in Ids \ {id} : Fetching(j)' => Fetching(j)
    BY <2>1, StartFetchOthers DEF Fetching
  <2>3. \A v \in Users : sending'[v] \in {sending[v], NoMessage}
    BY <2>1 DEF TypeOK
  <2> QED
    BY <1>0, <1>3, <2>1, <2>2, <2>3, FinalizeFresh, RelayOthers, FreshKept DEF client
<1>4. ASSUME NEW u \in Users, NEW id \in Ids, NEW content \in Contents,
             HandleMessageUpdateRequest(u, id, content)
      PROVE  FreshInv'
  <2>1. /\ RelayByChannel(id, Event("update", Row(id)', Nobody), messages[id].channel)
        /\ UNCHANGED fetches \/ \E urls : StartFetch(id, urls)
        /\ raced' \subseteq raced \cup {id} /\ id \in Stored
        /\ repeated' \subseteq repeated \cup {id}
        /\ UNCHANGED <<lastId, sending, client>>
    BY <1>4 DEF HandleMessageUpdateRequest, Note
  <2>2. \A j \in Ids \ {id} : Fetching(j)' => Fetching(j)
    BY <2>1, StartFetchOthers DEF Fetching
  <2>3. Stored' = Stored
    BY <1>4, SetMessageType, TypeParts DEF HandleMessageUpdateRequest
  <2>4. \A j \in Ids : Fresh(j)' => Fresh(j) /\ j # id
    BY <2>1, NotFresh DEF Fresh
  <2> QED
    BY <1>0, <2>1, <2>2, <2>3, <2>4, RelayOthers, FreshKept DEF client
<1>5. ASSUME NEW u \in Users, NEW id \in Ids, HandleMessageDeleteRequest(u, id) PROVE FreshInv'
  <2>1. /\ RelayByChannel(id, Event("delete", {}, Nobody), messages[id].channel)
        /\ raced' \subseteq raced /\ id \in Stored
        /\ UNCHANGED <<server, client, repeated>>
    BY <1>5 DEF HandleMessageDeleteRequest
  <2>2. Stored' \subseteq Stored
    BY <1>5, DeleteMessageType, TypeParts DEF HandleMessageDeleteRequest
  <2>3. \A j \in Ids : Fresh(j)' => Fresh(j) /\ j # id
    BY <2>1, NotFresh DEF Fresh, server
  <2> QED
    BY <1>0, <2>1, <2>2, <2>3, RelayOthers, FreshKept DEF client, server, Fetching
<1>6. ASSUME NEW u \in Users, NEW id \in Ids,
             \/ HandleMessageReactionAddRequest(u, id)
             \/ HandleMessageReactionDeleteRequest(u, id)
      PROVE  FreshInv'
  <2>1. /\ id \in Stored
        /\ \E event : RelayByChannel(id, event, messages[id].channel)
        /\ UNCHANGED <<messages, server, client, raced, repeated>>
    BY <1>6 DEF HandleMessageReactionAddRequest, HandleMessageReactionDeleteRequest
  <2>2. \A j \in Ids : Fresh(j)' => Fresh(j) /\ j # id
    BY <2>1, NotFresh DEF Fresh, server
  <2> QED
    BY <1>0, <2>1, <2>2, RelayOthers, FreshKept DEF client, server, Fetching, Stored
<1>7. ASSUME NEW f \in Fetchers, TryEmbedURLsFails(f) PROVE FreshInv'
  <2>1. \A j \in Ids : Fetching(j)' => Fetching(j)
    BY <1>0, <1>7 DEF TryEmbedURLsFails, Fetching, TypeOK
  <2>2. \A j \in Ids : Fresh(j)' => Fresh(j)
    BY <1>7 DEF TryEmbedURLsFails, Fresh
  <2> QED
    BY <1>7, <2>1, <2>2 DEF TryEmbedURLsFails, FreshInv, db, client, Stored
<1>8. ASSUME NEW f \in Fetchers, NEW id \in Ids, TryEmbedURLs(f, id) PROVE FreshInv'
  <2>1. /\ id \in Stored
        /\ \E event : RelayByChannel(id, event, messages[id].channel)
        /\ fetches' = [fetches EXCEPT ![f] = NoFetch]
        /\ UNCHANGED <<messages, lastId, sending, client, raced, repeated>>
    BY <1>8 DEF TryEmbedURLs
  <2>2. \A j \in Ids : Fetching(j)' => Fetching(j)
    BY <1>0, <2>1 DEF Fetching, TypeOK
  <2>3. \A j \in Ids : Fresh(j)' => Fresh(j) /\ j # id
    BY <2>1, NotFresh DEF Fresh
  <2> QED
    BY <1>0, <2>1, <2>2, <2>3, RelayOthers, FreshKept DEF client, Stored
<1>9. ASSUME NEW id \in Ids, Deliver(id) \/ Drop(id) PROVE FreshInv'
  <2>1. /\ flight[id] # {}
        /\ UNCHANGED <<db, server, page, oldest, raced, repeated>>
        /\ \A j \in Ids \ {id} : /\ flight'[j] = flight[j] /\ view'[j] = view[j]
                                 /\ j \in unsure' <=> j \in unsure
    BY <1>9 DEF Deliver, Drop, client, TypeOK
  <2>2. \A j \in Ids : Fresh(j)' => Fresh(j) /\ j # id
    BY <2>1, NotFresh DEF Fresh, server
  <2> QED
    BY <2>1, <2>2 DEF FreshInv, db, server, Stored, Fetching
<1>10. CASE HandleMessagesRequest
  <2>1. DOMAIN page'.rows \subseteq Stored
    <3> DEFINE anchor == IF oldest > MaxId THEN 0 ELSE oldest
               ids    == GetMessagesByAnchor(Watched, anchor, PageSize, TRUE)
    <3>1. IsWindow(ids, Watched, anchor, PageSize, TRUE)
          /\ page' = [rows   |-> [id \in Range(ids) |-> Row(id)],
                      oldest |-> IF Len(ids) = PageSize THEN ids[1] ELSE 1]
      BY <1>10, PageRead
    <3> HIDE DEF ids, anchor
    <3> QED
      BY <3>1 DEF IsWindow
  <2>2. UNCHANGED <<db, server, flight, view, oldest, unsure, raced, repeated, requests>>
    BY <1>10 DEF HandleMessagesRequest
  <2>3. \A j \in Ids : Fresh(j)' => Fresh(j)
    BY <2>2 DEF Fresh, server
  <2> QED
    BY <2>1, <2>2, <2>3 DEF FreshInv, db, server, Stored, Fetching
<1>11. CASE MessagesResponse
  <2>1. \A j \in Ids : Fresh(j)' => Fresh(j)
    BY <1>11 DEF MessagesResponse, Fresh, server
  <2>2. \A j \in Ids : Fresh(j) => view'[j] = {}
    BY <1>11 DEF MessagesResponse, FreshInv
  <2>3. DOMAIN page'.rows = {}
    BY <1>11 DEF MessagesResponse, NoPage
  <2> QED
    BY <1>11, <2>1, <2>2, <2>3 DEF MessagesResponse, FreshInv, db, server, Stored, Fetching
<1>12. CASE Crash
  <2>1. \A v \in Users : sending'[v] = NoMessage
    BY <1>12 DEF Crash
  <2>2. \A j \in Ids : Fresh(j)' => Fresh(j)
    BY <1>0, <1>12, <2>1 DEF Crash, Fresh
  <2>3. \A j \in Ids : ~ Fetching(j)'
    BY <1>0, <1>12 DEF Crash, Fetching
  <2>4. lastId' \in Nat /\ DOMAIN page'.rows = {} /\ unsure' = {} /\ Stored' = Stored
        /\ raced' = raced /\ repeated' = repeated
        /\ \A j \in Ids : flight'[j] = {} /\ view'[j] = {}
    BY <1>12 DEF Crash, NoPage, TypeOK, db, Stored
  <2> QED
    BY <1>0, <2>1, <2>2, <2>3, <2>4 DEF FreshInv
<1>13. CASE UNCHANGED vars
  BY <1>13 DEF vars, db, server, client, FreshInv, Fresh, Fetching, Stored
<1> QED
  BY <1>1, <1>2, <1>3, <1>4, <1>5, <1>6, <1>7, <1>8, <1>9, <1>10, <1>11, <1>12, <1>13 DEF Next

-----------------------------------------------------------------------------
(* What is stored about a message.                                         *)

LEMMA NoOrphansStep ==
  ASSUME TypeOK, NoOrphans, [Next]_vars
  PROVE  NoOrphans'
<1>0. TablesOK /\ OthersOK /\ 0 \notin Ids
  BY TypeParts, MessagesAssumption DEF Ids
<1>1. ASSUME NEW u \in Users, NEW id \in Ids, FinalizeMessageSendRequest(u, id) PROVE NoOrphans'
  <2>1. PICK message : AddMessage(id, message)
    BY <1>1 DEF FinalizeMessageSendRequest
  <2>2. /\ Stored' = Stored \cup {id} /\ messages'[id].reference \in Stored \cup {0}
        /\ \A j \in Stored \ {id} : messages'[j] = messages[j]
        /\ \A j \in Ids \ {id} : mentions'[j] = mentions[j]
        /\ embeds' = embeds /\ reactions' = reactions
    BY <1>0, <2>1 DEF AddMessage, Stored, TablesOK
  <2> QED
    BY <1>0, <2>2 DEF NoOrphans, TablesOK
<1>2. ASSUME NEW u \in Users, NEW id \in Ids, NEW content \in Contents,
             HandleMessageUpdateRequest(u, id, content)
      PROVE  NoOrphans'
  <2>1. id \in Stored /\ SetMessage(id, content)
    BY <1>2 DEF HandleMessageUpdateRequest
  <2>2. /\ Stored' = Stored /\ reactions' = reactions
        /\ \A j \in Stored : messages'[j].reference = messages[j].reference
        /\ \A j \in Ids \ Stored : mentions'[j] = mentions[j] /\ embeds'[j] = embeds[j]
    BY <1>0, <2>1 DEF SetMessage, Stored, TablesOK, Message
  <2> QED
    BY <2>2 DEF NoOrphans
<1>3. ASSUME NEW u \in Users, NEW id \in Ids, HandleMessageDeleteRequest(u, id) PROVE NoOrphans'
  <2>1. id \in Stored /\ DeleteMessage(id)
    BY <1>3 DEF HandleMessageDeleteRequest
  <2>2. Stored' = Stored \ {id}
    BY <2>1 DEF DeleteMessage, Stored
  <2>3. ASSUME NEW m \in Stored' PROVE messages'[m].reference \in Stored' \cup {0}
    <3>1. messages'[m] = [messages[m] EXCEPT !.reference = IF @ = id THEN 0 ELSE @]
      BY <2>1, <2>2, <2>3 DEF DeleteMessage
    <3>2. messages[m] \in Message
      BY <1>0, <2>2 DEF TablesOK
    <3>3. messages'[m].reference = IF messages[m].reference = id THEN 0 ELSE messages[m].reference
      BY <3>1, <3>2 DEF Message
    <3> QED
      BY <2>2, <3>3 DEF NoOrphans
  <2>4. ASSUME NEW j \in Ids \ Stored' PROVE embeds'[j] = <<>> /\ mentions'[j] = {}
    BY <1>0, <2>1, <2>2 DEF DeleteMessage, NoOrphans, TablesOK
  <2>5. ASSUME NEW r \in reactions' PROVE r[1] \in Stored'
    BY <2>1, <2>2 DEF DeleteMessage, NoOrphans
  <2> QED
    BY <2>3, <2>4, <2>5 DEF NoOrphans
<1>4. ASSUME NEW u \in Users, NEW id \in Ids,
             \/ HandleMessageReactionAddRequest(u, id)
             \/ HandleMessageReactionDeleteRequest(u, id)
      PROVE  NoOrphans'
  <2>1. /\ id \in Stored /\ reactions' \subseteq reactions \cup {<<id, u>>}
        /\ UNCHANGED <<messages, embeds, mentions>>
    BY <1>4 DEF HandleMessageReactionAddRequest, HandleMessageReactionDeleteRequest,
                AddReaction, DeleteReaction
  <2> QED
    BY <2>1 DEF NoOrphans, Stored
<1>5. ASSUME NEW f \in Fetchers, NEW id \in Ids, TryEmbedURLs(f, id) PROVE NoOrphans'
  <2>1. /\ id \in Stored /\ \A j \in Ids \ {id} : embeds'[j] = embeds[j]
        /\ UNCHANGED <<messages, mentions, reactions>>
    BY <1>0, <1>5 DEF TryEmbedURLs, AddEmbeds, TablesOK
  <2> QED
    BY <2>1 DEF NoOrphans, Stored
<1>6. CASE UNCHANGED db
  BY <1>6 DEF NoOrphans, db, Stored
<1>7. CASE \/ UNCHANGED vars \/ HandleMessagesRequest \/ MessagesResponse \/ Crash
           \/ \E u \in Users : FinalizeFails(u)
           \/ \E f \in Fetchers : TryEmbedURLsFails(f)
           \/ \E id \in Ids : Deliver(id) \/ Drop(id)
           \/ \E u \in Users, channel \in Channels, content \in Contents,
                 reference \in Stored \cup {0} :
                HandleMessageSendRequest(u, channel, content, reference)
  BY <1>6, <1>7 DEF vars, HandleMessagesRequest, MessagesResponse, Crash, FinalizeFails,
                    TryEmbedURLsFails, Deliver, Drop, HandleMessageSendRequest
<1> QED
  BY <1>1, <1>2, <1>3, <1>4, <1>5, <1>7 DEF Next

\* Whatever an edit, a fetch or a reaction meets, what is stored about a message is
\* stored about one that exists (NoOrphans): DeleteMessage, what the schema cascades
\* and the foreign keys.
THEOREM MessagesNoOrphans == Spec => []NoOrphans
<1>1. Init => NoOrphans
  BY DEF Init, NoOrphans, Stored
<1>2. TypeOK /\ NoOrphans /\ [Next]_vars => NoOrphans'
  BY NoOrphansStep
<1> QED
  BY <1>1, <1>2, MessagesTypeCorrect, PTL DEF Spec

\* What is said about a message stays true while nothing is done to it.
LEMMA RowsOfKept ==
  ASSUME NEW j, RowsOf(j), messages'[j].content = messages[j].content,
         embeds'[j] = embeds[j], mentions'[j] = mentions[j], j \in raced' <=> j \in raced,
         j \in repeated' <=> j \in repeated,
         \A f \in Fetchers : fetches'[f].id = j => fetches'[f] = fetches[f]
  PROVE  RowsOf(j)'
<1>1. OneFetch(j) => OneFetch(j)'
  BY DEF OneFetch
<1>2. (Linked(j) => Linked(j)') /\ (Once(j) => Once(j)')
  BY DEF Linked, Once
<1> QED
  BY <1>1, <1>2 DEF RowsOf

\* The elements of a concatenation.
LEMMA JoinElements ==
  ASSUME NEW S, NEW a \in Seq(S), NEW b \in Seq(S)
  PROVE  \A i \in DOMAIN (a \o b) :
           \/ i \in DOMAIN a /\ (a \o b)[i] = a[i]
           \/ i - Len(a) \in DOMAIN b /\ (a \o b)[i] = b[i - Len(a)]
<1>1. DOMAIN (a \o b) = 1 .. Len(a) + Len(b)
  <2>1. a \o b \in Seq(S) /\ Len(a \o b) = Len(a) + Len(b)
    OBVIOUS
  <2> DEFINE c == a \o b
  <2>2. c \in Seq(S) /\ Len(c) = Len(a) + Len(b)
    BY <2>1
  <2> HIDE DEF c
  <2>3. DOMAIN c = 1 .. Len(a) + Len(b)
    BY <2>2
  <2> QED
    BY <2>3 DEF c
<1>2. ASSUME NEW i \in 1 .. Len(a) + Len(b)
      PROVE  \/ i \in DOMAIN a /\ (a \o b)[i] = a[i]
             \/ i - Len(a) \in DOMAIN b /\ (a \o b)[i] = b[i - Len(a)]
  OBVIOUS
<1> QED
  BY <1>1, <1>2

\* The embeds an edit keeps are embedded once if they were.
LEMMA KeptOnce ==
  ASSUME NEW urls, NEW rows \in Seq(Embed), NEW url,
         \A i, j \in DOMAIN rows : rows[i].url = url /\ rows[j].url = url => i = j
  PROVE  \A i, j \in DOMAIN KeptEmbeds(urls, rows) :
           KeptEmbeds(urls, rows)[i].url = url /\ KeptEmbeds(urls, rows)[j].url = url => i = j
<1> DEFINE T == {e \in Range(rows) : e.url \in Range(urls)}
           K == Filter(rows, T)
<1>1. KeptEmbeds(urls, rows) = K
  BY DEF KeptEmbeds
<1> HIDE DEF T
<1>2. PICK h : /\ Places(h, rows, T, Len(rows)) /\ DOMAIN h = DOMAIN K
               /\ \A i \in DOMAIN h : K[i] = rows[h[i]]
  BY FilterFacts
<1>3. K \in Seq(Embed)
  BY FilterFacts
<1> HIDE DEF K
<1>4. DOMAIN K \subseteq Nat /\ DOMAIN rows = 1 .. Len(rows) /\ Len(rows) \in Nat
  BY <1>3
<1> SUFFICES ASSUME NEW i \in DOMAIN K, NEW j \in DOMAIN K, K[i].url = url, K[j].url = url
             PROVE  i = j
  BY <1>1
<1>5. h[i] \in DOMAIN rows /\ h[j] \in DOMAIN rows /\ K[i] = rows[h[i]] /\ K[j] = rows[h[j]]
  BY <1>2, <1>4 DEF Places
<1>6. h[i] = h[j]
  BY <1>5
<1> QED
  BY <1>2, <1>4, <1>5, <1>6 DEF Places

\* A fetch that starts for a message that has none is its only one.
LEMMA StartsOneFetch ==
  ASSUME NEW id, NEW urls, NEW content, ~ Fetching(id), StartFetch(id, urls),
         fetches \in [Fetchers -> [id : 0 .. MaxId, urls : Seq(Urls)]],
         messages'[id].content = content, Range(urls) \subseteq Range(content.urls),
         id \notin repeated' => IsInjective(urls),
         \A i \in DOMAIN embeds'[id] : embeds'[id][i].url \notin Range(urls)
  PROVE  OneFetch(id)'
<1>1. PICK f \in Fetchers : fetches' = [fetches EXCEPT ![f] = [id |-> id, urls |-> urls]]
  BY DEF StartFetch
<1>2. \A g \in Fetchers : fetches'[g].id = id => g = f
  BY <1>1 DEF Fetching
<1>3. fetches'[f].urls = urls
  BY <1>1
<1>4. \A g, h \in Fetchers : fetches'[g].id = id /\ fetches'[h].id = id => g = h
  BY <1>2
<1>5. ASSUME NEW g \in Fetchers, fetches'[g].id = id
      PROVE  /\ Range(fetches'[g].urls) \subseteq Range(messages'[id].content.urls)
             /\ id \notin repeated' => IsInjective(fetches'[g].urls)
             /\ \A i \in DOMAIN embeds'[id] : embeds'[id][i].url \notin Range(fetches'[g].urls)
  <2>1. fetches'[g].urls = urls
    BY <1>2, <1>3, <1>5
  <2> QED
    BY <2>1
<1> QED
  BY <1>4, <1>5 DEF OneFetch

LEMMA RowsFinalize ==
  ASSUME TypeOK, FreshInv, NoOrphans, RowsInv, NEW u \in Users, NEW id \in Ids,
         FinalizeMessageSendRequest(u, id)
  PROVE  RowsInv'
<1> DEFINE m == sending[u]
           message == [author |-> u, channel |-> m.channel, content |-> m.content,
                       reference |-> m.reference]
           urls == IF u \in MayEmbed THEN m.content.urls ELSE <<>>
<1>1. TablesOK /\ OthersOK
  BY TypeParts
<1>2. m.content \in Contents /\ m.content.urls \in Seq(Urls)
  BY <1>1, SendingType, MessagesAssumption DEF FinalizeMessageSendRequest
<1>3. /\ AddMessage(id, message)
      /\ IF urls = <<>> THEN UNCHANGED fetches ELSE StartFetch(id, urls)
      /\ UNCHANGED raced
      /\ id \notin repeated' => IsInjective(m.content.urls)
      /\ \A j \in Stored \ {id} : j \in repeated' <=> j \in repeated
  BY DEF FinalizeMessageSendRequest, Note
<1>4. Fresh(id) /\ id \notin Stored /\ id \notin raced /\ ~ Fetching(id)
  BY FinalizeFresh DEF FreshInv
<1>5. /\ Stored' = Stored \cup {id} /\ messages'[id].content = m.content
      /\ \A j \in Stored : messages'[j] = messages[j]
      /\ mentions' = [mentions EXCEPT ![id] = Accepted(m.content)] /\ embeds' = embeds
  BY <1>3, <1>4 DEF AddMessage, Stored
<1> HIDE DEF message
<1>6. ASSUME NEW j \in Stored PROVE RowsOf(j)'
  <2>1. j # id /\ RowsOf(j)
    BY <1>4 DEF RowsInv
  <2>2. \A f \in Fetchers : fetches'[f].id = j => fetches'[f] = fetches[f]
    BY <1>3, <2>1, StartFetchOthers
  <2>3. mentions'[j] = mentions[j]
    BY <1>1, <1>5, <2>1 DEF TablesOK
  <2> QED
    BY <1>3, <1>5, <2>1, <2>2, <2>3, RowsOfKept
<1>7. DOMAIN embeds'[id] = {}
  BY <1>4, <1>5 DEF NoOrphans
<1>8. OneFetch(id)'
  <2>1. CASE urls = <<>>
    <3>1. \A f \in Fetchers : fetches'[f].id # id
      BY <1>3, <1>4, <2>1 DEF Fetching
    <3> QED
      BY <3>1 DEF OneFetch
  <2>2. CASE urls # <<>>
    <3>1. urls = m.content.urls
      BY <2>2
    <3> QED
      BY <1>1, <1>2, <1>3, <1>4, <1>5, <1>7, <2>2, <3>1, StartsOneFetch DEF OthersOK
  <2> QED
    BY <2>1, <2>2
<1>9. Linked(id)' /\ Once(id)'
  BY <1>7 DEF Linked, Once
<1>10. /\ mentions'[id] \subseteq Range(m.content.mentions)
       /\ Clean(m.content) => mentions'[id] = Range(m.content.mentions)
  BY <1>1, <1>2, <1>5, AcceptedFacts DEF TablesOK
<1>11. RowsOf(id)'
  BY <1>5, <1>8, <1>9, <1>10 DEF RowsOf, Clean
<1> QED
  BY <1>5, <1>6, <1>11 DEF RowsInv

LEMMA RowsUpdate ==
  ASSUME TypeOK, RowsInv, NEW u \in Users, NEW id \in Ids, NEW content \in Contents,
         HandleMessageUpdateRequest(u, id, content)
  PROVE  RowsInv'
<1> DEFINE rows == embeds[id]
           kept == KeptEmbeds(content.urls, rows)
           added == AddedURLs(content.urls, rows)
<1>1. TablesOK /\ OthersOK /\ id \in Stored /\ rows \in Seq(Embed)
      /\ content.urls \in Seq(Urls)
  BY TypeParts, MessagesAssumption DEF HandleMessageUpdateRequest, TablesOK
<1>2. /\ SetMessage(id, content)
      /\ IF u \in MayEmbed THEN StartFetch(id, added) ELSE UNCHANGED fetches
      /\ raced' = IF Fetching(id) THEN raced \cup {id}
                  ELSE IF embeds'[id] = <<>> THEN raced \ {id} ELSE raced
      /\ id \notin repeated' => IsInjective(content.urls) /\ id \notin repeated
      /\ \A j \in Stored \ {id} : j \in repeated' <=> j \in repeated
  BY DEF HandleMessageUpdateRequest, Note
<1>3. /\ Stored' = Stored /\ messages'[id].content = content
      /\ \A j \in Stored \ {id} : messages'[j] = messages[j]
      /\ mentions' = [mentions EXCEPT ![id] = Range(content.mentions)]
      /\ embeds' = [embeds EXCEPT ![id] = kept]
  BY <1>1, <1>2 DEF SetMessage, Stored, TablesOK, Message
<1>4. embeds'[id] = kept /\ mentions'[id] = Range(content.mentions)
      /\ \A j \in Stored \ {id} : mentions'[j] = mentions[j] /\ embeds'[j] = embeds[j]
  BY <1>1, <1>3 DEF TablesOK
<1>5. ASSUME NEW j \in Stored, j # id PROVE RowsOf(j)'
  <2>1. RowsOf(j)
    BY DEF RowsInv
  <2>2. \A f \in Fetchers : fetches'[f].id = j => fetches'[f] = fetches[f]
    BY <1>2, <1>5, StartFetchOthers
  <2>3. (j \in raced' <=> j \in raced) /\ (j \in repeated' <=> j \in repeated)
    BY <1>2, <1>5
  <2> QED
    BY <1>3, <1>4, <1>5, <2>1, <2>2, <2>3, RowsOfKept
<1>6. kept \in Seq(Embed) /\ Range(kept) = {e \in Range(rows) : e.url \in Range(content.urls)}
  BY <1>1, KeptEmbedsType
<1>7. /\ Range(added) = Range(content.urls) \ {e.url : e \in Range(rows)} /\ added \in Seq(Urls)
      /\ IsInjective(content.urls) => IsInjective(added)
  BY <1>1, AddedURLsType
<1> HIDE DEF added, rows, kept
<1>8. \A i \in DOMAIN kept : kept[i] \in Range(rows) /\ kept[i].url \in Range(content.urls)
  BY <1>6 DEF Range
<1>9. ASSUME id \notin raced' PROVE OneFetch(id)'
  <2>1. ~ Fetching(id)
    BY <1>2, <1>9
  <2>2. CASE u \in MayEmbed
    <3>1. \A i \in DOMAIN embeds'[id] : embeds'[id][i].url \notin Range(added)
      BY <1>4, <1>7, <1>8
    <3>2. Range(added) \subseteq Range(content.urls)
      BY <1>7
    <3> QED
      BY <1>1, <1>2, <1>3, <1>7, <2>1, <2>2, <3>1, <3>2, StartsOneFetch DEF OthersOK
  <2>3. CASE u \notin MayEmbed
    <3>1. \A f \in Fetchers : fetches'[f].id # id
      BY <1>2, <2>1, <2>3 DEF Fetching
    <3> QED
      BY <3>1 DEF OneFetch
  <2> QED
    BY <2>2, <2>3
<1>10. Linked(id)'
  BY <1>3, <1>4, <1>8 DEF Linked
<1>11. ASSUME id \notin raced', id \notin repeated' PROVE Once(id)'
  <2>1. CASE kept = <<>>
    BY <1>4, <2>1 DEF Once
  <2>2. CASE id \notin raced
    <3>1. Once(id)
      BY <1>1, <1>2, <1>11, <2>2 DEF RowsInv, RowsOf
    <3>2. ASSUME NEW url \in Urls, Own(url)
          PROVE  \A i, j \in DOMAIN kept : kept[i].url = url /\ kept[j].url = url => i = j
      <4>1. \A i, j \in DOMAIN rows : rows[i].url = url /\ rows[j].url = url => i = j
        BY <3>1, <3>2 DEF Once, rows
      <4> QED
        BY <1>1, <4>1, KeptOnce DEF kept
    <3> QED
      BY <1>4, <3>2 DEF Once, Own
  <2>3. kept = <<>> \/ id \notin raced
    BY <1>2, <1>4, <1>11
  <2> QED
    BY <2>1, <2>2, <2>3
<1>12. RowsOf(id)'
  BY <1>3, <1>4, <1>9, <1>10, <1>11 DEF RowsOf
<1> QED
  BY <1>3, <1>5, <1>12 DEF RowsInv

LEMMA RowsTryEmbed ==
  ASSUME TypeOK, RowsInv, NEW f \in Fetchers, NEW id \in Ids, TryEmbedURLs(f, id)
  PROVE  RowsInv'
<1>1. TablesOK /\ OthersOK /\ id \in Stored /\ 0 \notin Ids /\ fetches[f].id = id
  BY TypeParts, MessagesAssumption DEF TryEmbedURLs, Ids
<1>2. PICK got : AddEmbeds(id, AtPlaces(fetches[f].urls, got))
  BY DEF TryEmbedURLs
<1> DEFINE urls == fetches[f].urls
           done == AtPlaces(urls, got)
           new  == [i \in DOMAIN done |-> GetEmbedFromURL(done[i])]
           rows == embeds[id]
           both == rows \o new
<1>3. /\ fetches' = [fetches EXCEPT ![f] = NoFetch]
      /\ UNCHANGED <<messages, mentions, reactions, raced, repeated>>
      /\ embeds' = [embeds EXCEPT ![id] = both]
  BY <1>2 DEF TryEmbedURLs, AddEmbeds
<1>4. urls \in Seq(Urls) /\ rows \in Seq(Embed)
  BY <1>1 DEF OthersOK, TablesOK
<1>5. done \in Seq(Urls) /\ Range(done) \subseteq Range(urls)
      /\ (IsInjective(urls) => IsInjective(done))
  BY <1>4, PlacesKeep
<1>6. new \in Seq(Embed) /\ DOMAIN new = DOMAIN done
      /\ \A i \in DOMAIN new : new[i] = [url |-> Page[done[i]], from |-> done[i]]
  BY <1>5, FetchedType DEF GetEmbedFromURL
<1> HIDE DEF new, done, urls, rows
<1>7. \A i \in DOMAIN both : \/ i \in DOMAIN rows /\ both[i] = rows[i]
                             \/ i - Len(rows) \in DOMAIN new /\ both[i] = new[i - Len(rows)]
  BY <1>4, <1>6, JoinElements
<1> HIDE DEF both
<1>8. embeds'[id] = both /\ \A j \in Stored \ {id} : embeds'[j] = embeds[j]
  BY <1>1, <1>3 DEF TablesOK
<1>9. \A g \in Fetchers : fetches'[g].id \in Ids => g # f /\ fetches'[g] = fetches[g]
  BY <1>1, <1>3 DEF OthersOK, NoFetch
<1>10. Stored' = Stored
  BY <1>3 DEF Stored
<1>11. ASSUME NEW j \in Stored, j # id PROVE RowsOf(j)'
  <2>1. RowsOf(j) /\ j \in Ids
    BY <1>1 DEF RowsInv, TablesOK
  <2> QED
    BY <1>3, <1>8, <1>9, <1>11, <2>1, RowsOfKept
<1>12. ASSUME id \notin raced
       PROVE  OneFetch(id)' /\ Linked(id)' /\ (id \notin repeated => Once(id)')
  <2>1. OneFetch(id) /\ Linked(id) /\ (id \notin repeated => Once(id))
    BY <1>1, <1>12 DEF RowsInv, RowsOf
  <2>2. /\ Range(urls) \subseteq Range(messages[id].content.urls)
        /\ id \notin repeated => IsInjective(urls)
        /\ \A i \in DOMAIN rows : rows[i].url \notin Range(urls)
        /\ \A g \in Fetchers : fetches[g].id = id => g = f
    BY <1>1, <2>1 DEF OneFetch, urls, rows
  <2>3. OneFetch(id)'
    BY <1>9, <2>2 DEF OneFetch
  <2>4. \A i \in DOMAIN new : new[i].from \in Range(urls)
    <3>1. \A i \in DOMAIN done : done[i] \in Range(done)
      BY DEF Range
    <3> QED
      BY <1>5, <1>6, <3>1
  <2>5. Linked(id)'
    <3>1. \A i \in DOMAIN rows :
            {rows[i].url, rows[i].from} \cap Range(messages[id].content.urls) # {}
      BY <2>1 DEF Linked, rows
    <3> QED
      BY <1>3, <1>7, <1>8, <2>2, <2>4, <3>1 DEF Linked
  <2>6. ASSUME id \notin repeated PROVE Once(id)'
    <3> SUFFICES ASSUME NEW url \in Urls, Own(url), NEW i \in DOMAIN both, NEW j \in DOMAIN both,
                        both[i].url = url, both[j].url = url
                 PROVE  i = j
      BY <1>8 DEF Once, Own
    <3>1. \A k \in DOMAIN new : new[k].url = url => done[k] = url /\ url \in Range(urls)
      <4> SUFFICES ASSUME NEW k \in DOMAIN new, new[k].url = url
                   PROVE  done[k] = url /\ url \in Range(urls)
        OBVIOUS
      <4>1. Page[done[k]] = url /\ done[k] \in Urls /\ done[k] \in Range(done)
        BY <1>5, <1>6 DEF Range
      <4> QED
        BY <1>5, <4>1 DEF Own
    <3>2. CASE i \in DOMAIN rows /\ j \in DOMAIN rows /\ both[i] = rows[i] /\ both[j] = rows[j]
      BY <2>1, <2>6, <3>2 DEF Once, rows
    <3>3. ~ (i \in DOMAIN rows /\ both[i] = rows[i] /\ j - Len(rows) \in DOMAIN new
               /\ both[j] = new[j - Len(rows)])
      BY <2>2, <3>1
    <3>4. ~ (j \in DOMAIN rows /\ both[j] = rows[j] /\ i - Len(rows) \in DOMAIN new
               /\ both[i] = new[i - Len(rows)])
      BY <2>2, <3>1
    <3>5. CASE /\ i - Len(rows) \in DOMAIN new /\ both[i] = new[i - Len(rows)]
               /\ j - Len(rows) \in DOMAIN new /\ both[j] = new[j - Len(rows)]
      <4>1. done[i - Len(rows)] = done[j - Len(rows)]
        BY <3>1, <3>5
      <4>2. i - Len(rows) = j - Len(rows)
        BY <1>5, <1>6, <2>2, <2>6, <3>5, <4>1 DEF IsInjective
      <4>3. Len(rows) \in Nat /\ DOMAIN both = 1 .. Len(rows) + Len(new) /\ Len(new) \in Nat
        <5>1. both \in Seq(Embed) /\ Len(both) = Len(rows) + Len(new)
          BY <1>4, <1>6 DEF both
        <5>2. Len(rows) \in Nat /\ Len(new) \in Nat
          BY <1>4, <1>6
        <5>3. DOMAIN both = 1 .. Len(both)
          BY <5>1
        <5> QED
          BY <5>1, <5>2, <5>3
      <4> QED
        BY <4>2, <4>3
    <3> QED
      BY <1>7, <3>2, <3>3, <3>4, <3>5
  <2> QED
    BY <2>3, <2>5, <2>6
<1>13. RowsOf(id)'
  <2>1. RowsOf(id)
    BY <1>1 DEF RowsInv
  <2> QED
    BY <1>3, <1>12, <2>1 DEF RowsOf, Clean
<1> QED
  BY <1>10, <1>11, <1>13 DEF RowsInv

LEMMA RowsStep ==
  ASSUME TypeOK, FreshInv, NoOrphans, RowsInv, [Next]_vars
  PROVE  RowsInv'
<1>0. TablesOK /\ OthersOK /\ 0 \notin Ids /\ NoFetch.id = 0
  BY TypeParts, MessagesAssumption DEF Ids, NoFetch
<1>1. ASSUME NEW u \in Users, NEW id \in Ids, HandleMessageDeleteRequest(u, id) PROVE RowsInv'
  <2>1. /\ id \in Stored /\ DeleteMessage(id) /\ fetches' = fetches
        /\ raced' = raced \ {id} /\ repeated' = repeated
    BY <1>1 DEF HandleMessageDeleteRequest, server
  <2>2. Stored' = Stored \ {id}
    BY <2>1 DEF DeleteMessage, Stored
  <2>3. ASSUME NEW j \in Stored' PROVE RowsOf(j)'
    <3>1. messages[j] \in Message /\ j \in Ids /\ j # id /\ RowsOf(j)
      BY <1>0, <2>2 DEF TablesOK, RowsInv
    <3>2. messages'[j].content = messages[j].content
      <4>1. messages'[j] = [messages[j] EXCEPT !.reference = IF @ = id THEN 0 ELSE @]
        BY <2>1, <2>2, <2>3 DEF DeleteMessage
      <4> QED
        BY <3>1, <4>1 DEF Message
    <3>3. embeds'[j] = embeds[j] /\ mentions'[j] = mentions[j]
      BY <1>0, <2>1, <3>1 DEF DeleteMessage, TablesOK
    <3> QED
      BY <2>1, <3>1, <3>2, <3>3, RowsOfKept
  <2> QED
    BY <2>3 DEF RowsInv
<1>2. ASSUME UNCHANGED <<messages, embeds, mentions, raced, repeated>>,
             \A f \in Fetchers : fetches'[f].id \in Ids => fetches'[f] = fetches[f]
      PROVE  RowsInv'
  <2>1. Stored' = Stored /\ Stored \subseteq Ids
    BY <1>0, <1>2 DEF Stored, TablesOK
  <2>2. ASSUME NEW j \in Stored PROVE RowsOf(j)'
    <3>1. RowsOf(j) /\ j \in Ids
      BY <2>1 DEF RowsInv
    <3> QED
      BY <1>2, <3>1, RowsOfKept
  <2> QED
    BY <2>1, <2>2 DEF RowsInv
<1>3. CASE \/ UNCHANGED vars \/ HandleMessagesRequest \/ MessagesResponse
           \/ \E u \in Users : FinalizeFails(u)
           \/ \E id \in Ids : Deliver(id) \/ Drop(id)
           \/ \E u \in Users, channel \in Channels, content \in Contents,
                 reference \in Stored \cup {0} :
                HandleMessageSendRequest(u, channel, content, reference)
           \/ \E u \in Users, id \in Ids : \/ HandleMessageReactionAddRequest(u, id)
                                         \/ HandleMessageReactionDeleteRequest(u, id)
  <2>1. UNCHANGED <<messages, embeds, mentions, raced, repeated, fetches>>
    BY <1>3 DEF vars, db, server, HandleMessagesRequest, MessagesResponse, FinalizeFails, Deliver,
                Drop, HandleMessageSendRequest, HandleMessageReactionAddRequest,
                HandleMessageReactionDeleteRequest
  <2> QED
    BY <1>2, <2>1
<1>4. CASE Crash
  <2>1. /\ UNCHANGED <<messages, embeds, mentions, raced, repeated>>
        /\ \A f \in Fetchers : fetches'[f].id \notin Ids
    BY <1>0, <1>4 DEF Crash, db
  <2> QED
    BY <1>2, <2>1
<1>5. CASE \E f \in Fetchers : TryEmbedURLsFails(f)
  <2>1. /\ UNCHANGED <<messages, embeds, mentions, raced, repeated>>
        /\ \A f \in Fetchers : fetches'[f].id \in Ids => fetches'[f] = fetches[f]
    BY <1>0, <1>5 DEF TryEmbedURLsFails, db, OthersOK
  <2> QED
    BY <1>2, <2>1
<1> QED
  BY <1>1, <1>3, <1>4, <1>5, RowsFinalize, RowsUpdate, RowsTryEmbed DEF Next

\* From what is said of each message to what the runs check.
LEMMA RowsGive ==
  ASSUME TypeOK, RowsInv
  PROVE  RowsFollowContent /\ EmbedsOnce
<1>1. RowsFollowContent
  BY DEF RowsInv, RowsOf, Linked, RowsFollowContent
<1>2. ASSUME NEW id \in Stored \ (raced \cup repeated), NEW url \in Urls, Own(url)
      PROVE  Cardinality({i \in DOMAIN embeds[id] : embeds[id][i].url = url}) <= 1
  <2> DEFINE S == {i \in DOMAIN embeds[id] : embeds[id][i].url = url}
  <2>1. \A i, j \in S : i = j
    BY <1>2 DEF RowsInv, RowsOf, Once
  <2>2. CASE S = {}
    <3>1. Cardinality(S) = 0
      BY <2>2, FS_EmptySet
    <3> QED
      BY <3>1
  <2>3. CASE S # {}
    <3>1. PICK i : i \in S
      BY <2>3
    <3>2. S = {i}
      BY <2>1, <3>1
    <3>3. Cardinality(S) = 1
      BY <3>2, FS_Singleton
    <3> QED
      BY <3>3
  <2> QED
    BY <2>2, <2>3
<1>3. EmbedsOnce
  BY <1>2 DEF EmbedsOnce, Own
<1> QED
  BY <1>1, <1>3

BaseInv == TypeOK /\ PageInv /\ FreshInv /\ NoOrphans

LEMMA MessagesBase == Spec => [](BaseInv /\ RowsInv)
<1>1. Init => BaseInv /\ RowsInv
  BY InitType, FreshInit DEF Init, BaseInv, PageInv, NoOrphans, RowsInv, Stored
<1>2. BaseInv /\ RowsInv /\ [Next]_vars => (BaseInv /\ RowsInv)'
  BY TypeStep, FreshStep, NoOrphansStep, RowsStep DEF BaseInv
<1> QED
  BY <1>1, <1>2, PTL DEF Spec

\* The embeds and the mentions of a message follow its text through its edits
\* (RowsFollowContent): RowsInv is inductive because a message no edit of which came
\* during a fetch has one fetch at most, of links of the text it still has.
THEOREM MessagesRowsFollowContent == Spec => []RowsFollowContent
<1>1. BaseInv /\ RowsInv => RowsFollowContent
  BY RowsGive DEF BaseInv
<1> QED
  BY <1>1, MessagesBase, PTL

\* However often its message is edited, a link is embedded once, unless a text of the
\* message repeated a link (EmbedsOnce): what a fetch is about to add has no embed, which
\* only an edit during the fetch could change, and is added once.
THEOREM MessagesEmbedsOnce == Spec => []EmbedsOnce
<1>1. BaseInv /\ RowsInv => EmbedsOnce
  BY RowsGive DEF BaseInv
<1> QED
  BY <1>1, MessagesBase, PTL

-----------------------------------------------------------------------------
(* What the client shows.                                                  *)

\* What events make of copies.
LEMMA ApplyFacts ==
  ASSUME NEW rows, NEW copy
  PROVE  /\ Apply(Event("add", rows, Nobody), copy) = rows
         /\ Apply(Event("update", rows, Nobody), copy) = IF copy = {} THEN {} ELSE rows
         /\ Apply(Event("delete", {}, Nobody), copy) = {}
         /\ \A u \in Users :
              /\ Apply(Event("react", {}, u), copy) =
                   {[m EXCEPT !.reactions = @ \cup {u}] : m \in copy}
              /\ Apply(Event("unreact", {}, u), copy) =
                   {[m EXCEPT !.reactions = @ \ {u}] : m \in copy}
BY DEF Apply, Event

\* A message is shown as before if nothing is done to it.
LEMMA RowKept ==
  ASSUME NEW j, j \in Stored' <=> j \in Stored,
         j \in Stored => messages'[j].content = messages[j].content,
         embeds'[j] = embeds[j], mentions'[j] = mentions[j],
         \A u \in Users : <<j, u>> \in reactions' <=> <<j, u>> \in reactions
  PROVE  Row(j)' = Row(j)
<1>1. {u \in Users : <<j, u>> \in reactions'} = {u \in Users : <<j, u>> \in reactions}
  OBVIOUS
<1> QED
  BY <1>1, RowIs, RowIsNext

LEMMA ViewOfKept ==
  ASSUME NEW j, ViewOf(j), flight'[j] = flight[j], view'[j] = view[j], Row(j)' = Row(j),
         Shown(j)' <=> Shown(j), page' = page, oldest' = oldest
  PROVE  ViewOf(j)'
BY DEF ViewOf, Asked

\* A change of a message that is announced by an event which leads there from what the
\* message was, and leaves it there.
LEMMA ViewRelay ==
  ASSUME NEW id \in Ids, NEW event, NEW channel, RelayByChannel(id, event, channel),
         flight \in [Ids -> SUBSET Events], id \in unsure' \/ ViewOf(id),
         page' = page, view' = view, oldest' = oldest,
         id \in Stored => messages[id].channel = channel,
         id \in Stored' => messages'[id].channel = channel,
         id \in Stored \/ (flight[id] = {} /\ view[id] = {} /\ id \notin DOMAIN page.rows),
         Apply(event, {}) \in {{}, Row(id)'}, Apply(event, Row(id)') = Row(id)',
         Apply(event, Row(id)) = Row(id)'
  PROVE  id \in unsure' \/ ViewOf(id)'
<1> SUFFICES ASSUME id \notin unsure', ViewOf(id) PROVE ViewOf(id)'
  OBVIOUS
<1>1. CASE channel # Watched
  <2>1. flight'[id] = flight[id]
    BY <1>1 DEF RelayByChannel
  <2>2. flight[id] = {} /\ view[id] = {} /\ id \notin DOMAIN page.rows
    BY <1>1 DEF ViewOf, Shown
  <2>3. Shown(id)' => Row(id)' = {}
    BY <1>1, RowIsNext DEF Shown
  <2> QED
    BY <2>1, <2>2, <2>3 DEF ViewOf, Leads
<1>2. CASE channel = Watched
  <2>1. flight[id] = {} /\ flight'[id] = {event}
    BY <1>2 DEF RelayByChannel
  <2>2. Shown(id) /\ Shown(id)'
    BY <1>2 DEF Shown
  <2>3. ASSUME NEW copy, Leads(flight[id], copy, Row(id))
        PROVE  Leads(flight'[id], copy, Row(id)')
    BY <2>1, <2>3 DEF Leads
  <2>4. Leads(flight'[id], Row(id)', Row(id)')
    BY <2>1 DEF Leads
  <2>5. Asked(id)' <=> Asked(id)
    BY DEF Asked
  <2>6. \A e \in flight'[id] : Apply(e, {}) \in {{}, Row(id)'}
    BY <2>1
  <2> QED
    BY <2>1, <2>2, <2>3, <2>4, <2>5, <2>6 DEF ViewOf
<1> QED
  BY <1>1, <1>2

LEMMA ViewDeliver ==
  ASSUME TypeOK, ViewInv, NEW id \in Ids, Deliver(id)
  PROVE  ViewInv'
<1>1. PICK event \in flight[id] :
        /\ flight' = [flight EXCEPT ![id] = {}]
        /\ view' = [view EXCEPT ![id] = Apply(event, @)]
        /\ unsure' = IF id \in DOMAIN page.rows THEN unsure \cup {id} ELSE unsure
        /\ UNCHANGED <<db, server, page, oldest>>
  BY DEF Deliver
<1>2. /\ flight'[id] = {} /\ view'[id] = Apply(event, view[id])
      /\ \A j \in Ids \ {id} : flight'[j] = flight[j] /\ view'[j] = view[j]
  BY <1>1 DEF TypeOK
<1>3. \A j \in Ids : Row(j)' = Row(j) /\ (Shown(j)' <=> Shown(j))
  BY <1>1, RowKept DEF db, Shown, Stored
<1>4. ASSUME NEW j \in Ids \ unsure', j # id PROVE ViewOf(j)'
  <2>1. ViewOf(j)
    BY <1>1 DEF ViewInv
  <2> QED
    BY <1>1, <1>2, <1>3, <1>4, <2>1, ViewOfKept
<1>5. ASSUME id \notin unsure' PROVE ViewOf(id)'
  <2>1. id \notin unsure /\ id \notin DOMAIN page.rows /\ ViewOf(id)
    BY <1>1, <1>5 DEF ViewInv
  <2>2. Shown(id)
    BY <1>1, <2>1 DEF ViewOf
  <2>3. ASSUME Asked(id) PROVE Apply(event, view[id]) = Row(id)
    BY <1>1, <2>1, <2>2, <2>3 DEF ViewOf, Leads
  <2>4. ASSUME Asked(id)' PROVE Apply(event, view[id]) = Row(id)
    <3>1. CASE Asked(id)
      BY <2>3, <3>1
    <3>2. CASE ~ Asked(id)
      <4>1. view[id] = {} /\ view'[id] # {}
        BY <1>1, <2>4, <3>2 DEF Asked
      <4> QED
        BY <1>1, <1>2, <2>1, <2>2, <4>1 DEF ViewOf
    <3> QED
      BY <3>1, <3>2
  <2> QED
    BY <1>1, <1>2, <1>3, <2>1, <2>2, <2>4 DEF ViewOf, Leads
<1> QED
  BY <1>4, <1>5 DEF ViewInv

\* A message of which an event was dropped is one nothing more is said of.
LEMMA ViewDrop ==
  ASSUME TypeOK, ViewInv, NEW id \in Ids, Drop(id)
  PROVE  ViewInv'
<1>1. /\ unsure' = unsure \cup {id} /\ UNCHANGED <<db, client>>
      /\ \A j \in Ids \ {id} : flight'[j] = flight[j]
  BY DEF Drop, TypeOK
<1>2. \A j \in Ids : Row(j)' = Row(j) /\ (Shown(j)' <=> Shown(j))
  BY <1>1, RowKept DEF db, Shown, Stored
<1>3. ASSUME NEW j \in Ids \ unsure' PROVE ViewOf(j)'
  <2>1. j # id /\ ViewOf(j)
    BY <1>1 DEF ViewInv
  <2> QED
    BY <1>1, <1>2, <2>1, ViewOfKept DEF client
<1> QED
  BY <1>3 DEF ViewInv

\* From the window before what the client has asked for to what it will have asked for
\* there is nothing else of the channel.
LEMMA ViewMessagesRequest ==
  ASSUME TypeOK, ViewInv, HandleMessagesRequest
  PROVE  ViewInv'
<1> DEFINE anchor == IF oldest > MaxId THEN 0 ELSE oldest
           ids    == GetMessagesByAnchor(Watched, anchor, PageSize, TRUE)
<1>1. /\ ids \in Seq(Ids) /\ IsWindow(ids, Watched, anchor, PageSize, TRUE)
      /\ page' = [rows   |-> [id \in Range(ids) |-> Row(id)],
                  oldest |-> IF Len(ids) = PageSize THEN ids[1] ELSE 1]
      /\ Len(ids) = PageSize => 1 \in DOMAIN ids
      /\ page'.oldest \in Ids
  BY PageRead
<1>2. anchor = 0 \/ anchor = oldest
  OBVIOUS
<1>3. anchor = 0 => oldest > MaxId
  <2>1. oldest # 0 /\ oldest \in Int
    BY MessagesAssumption DEF TypeOK
  <2> QED
    BY <2>1
<1> HIDE DEF ids, anchor
<1>4. UNCHANGED <<db, server, flight, view, oldest, unsure, raced, repeated, requests>>
  BY DEF HandleMessagesRequest
<1>5. \A j \in Ids : Row(j)' = Row(j) /\ (Shown(j)' <=> Shown(j))
  BY <1>4, RowKept DEF db, Shown, Stored
<1>6. DOMAIN page'.rows = Range(ids) /\ \A j \in Range(ids) : page'.rows[j] = Row(j)
  BY <1>1
<1>7. \A j \in Range(ids) : j \in Stored /\ messages[j].channel = Watched
  BY <1>1 DEF IsWindow
<1>8. ASSUME NEW j \in Stored, messages[j].channel = Watched, j < oldest, j \notin Range(ids),
             j >= page'.oldest
      PROVE  FALSE
  <2> DEFINE rows == {id \in Stored : /\ messages[id].channel = Watched
                                      /\ anchor = 0 \/ (id < anchor <=> TRUE)
                                      /\ id # anchor}
  <2>1. j \in Ids /\ j \in Nat /\ j # 0 /\ oldest \in Nat
    BY MessagesAssumption DEF TypeOK, Ids
  <2>2. j \in rows
    BY <1>2, <1>8, <2>1
  <2>3. /\ Len(ids) = PageSize \/ Range(ids) = rows
        /\ \A id \in rows \ Range(ids), listed \in Range(ids) : id < listed
    BY <1>1 DEF IsWindow
  <2> HIDE DEF rows
  <2>4. Len(ids) = PageSize /\ 1 \in DOMAIN ids
    BY <1>1, <1>8, <2>2, <2>3
  <2>5. ids[1] \in Range(ids) /\ page'.oldest = ids[1]
    BY <1>1, <2>4 DEF Range
  <2>6. j < page'.oldest /\ page'.oldest \in Nat
    BY <1>1, <1>8, <2>2, <2>3, <2>5, MessagesAssumption DEF Ids
  <2> QED
    BY <1>8, <2>1, <2>6
<1>9. ASSUME NEW j \in Ids \ unsure PROVE ViewOf(j)'
  <2>1. ViewOf(j) /\ j \in Nat /\ oldest \in Nat
    BY MessagesAssumption DEF ViewInv, TypeOK, Ids
  <2>2. ~ Shown(j) => j \notin DOMAIN page'.rows
    BY <1>6, <1>7 DEF Shown
  <2>3. ASSUME Shown(j), Asked(j)' PROVE Leads(flight[j], view[j], Row(j))
    <3>1. CASE Asked(j)
      BY <2>1, <2>3, <3>1 DEF ViewOf
    <3>2. CASE ~ Asked(j)
      <4>1. view[j] = {} /\ j < oldest /\ j >= page'.oldest /\ j \notin Range(ids)
        BY <1>4, <1>6, <2>1, <2>3, <3>2 DEF Asked
      <4>2. j \notin Stored
        BY <1>8, <2>3, <4>1 DEF Shown
      <4>3. Row(j) = {}
        BY <4>2, RowIs
      <4>4. \A e \in flight[j] : Apply(e, {}) = {}
        BY <2>1, <2>3, <4>3 DEF ViewOf
      <4> QED
        BY <4>1, <4>3, <4>4 DEF Leads
    <3> QED
      BY <3>1, <3>2
  <2> QED
    BY <1>4, <1>5, <1>6, <2>1, <2>2, <2>3 DEF ViewOf
<1> QED
  BY <1>4, <1>9 DEF ViewInv

LEMMA ViewMessagesResponse ==
  ASSUME TypeOK, ViewInv, MessagesResponse
  PROVE  ViewInv'
<1>1. /\ page # NoPage /\ oldest' = page.oldest /\ page' = NoPage
      /\ \A j \in Ids : view'[j] = IF j \in DOMAIN page.rows THEN page.rows[j] ELSE view[j]
      /\ UNCHANGED <<db, server, flight, unsure, raced, requests>>
  BY DEF MessagesResponse
<1>2. \A j \in Ids : Row(j)' = Row(j) /\ (Shown(j)' <=> Shown(j))
  BY <1>1, RowKept DEF db, Shown, Stored
<1>3. DOMAIN page'.rows = {}
  BY <1>1 DEF NoPage
<1>4. ASSUME NEW j \in Ids \ unsure PROVE ViewOf(j)'
  <2>1. ViewOf(j)
    BY DEF ViewInv
  <2>2. ~ Shown(j) => view'[j] = {}
    BY <1>1, <2>1 DEF ViewOf
  <2>3. ASSUME Shown(j), Asked(j)' PROVE Leads(flight[j], view'[j], Row(j))
    <3>1. CASE j \in DOMAIN page.rows
      BY <1>1, <2>1, <2>3, <3>1 DEF ViewOf
    <3>2. CASE j \notin DOMAIN page.rows
      <4>1. view'[j] = view[j] /\ Asked(j)
        BY <1>1, <2>3, <3>2 DEF Asked
      <4> QED
        BY <2>1, <2>3, <4>1 DEF ViewOf
    <3> QED
      BY <3>1, <3>2
  <2> QED
    BY <1>1, <1>2, <1>3, <2>1, <2>2, <2>3 DEF ViewOf
<1> QED
  BY <1>1, <1>4 DEF ViewInv

LEMMA ViewCrash ==
  ASSUME TypeOK, Crash
  PROVE  ViewInv'
<1>1. /\ DOMAIN page'.rows = {} /\ page' = NoPage /\ oldest' = MaxId + 1
      /\ \A j \in Ids : flight'[j] = {} /\ view'[j] = {}
  BY DEF Crash, NoPage
<1>2. \A j \in Ids : ~ Asked(j)'
  BY <1>1, MessagesAssumption DEF Asked, Ids
<1>3. \A j \in Ids : ViewOf(j)'
  BY <1>1, <1>2 DEF ViewOf, Leads
<1> QED
  BY <1>3 DEF ViewInv

\* A change of one message, announced.
LEMMA ViewChange ==
  ASSUME TypeOK, ViewInv, NEW id \in Ids, NEW event, NEW channel,
         RelayByChannel(id, event, channel), UNCHANGED client,
         id \in Stored => messages[id].channel = channel,
         id \in Stored' => messages'[id].channel = channel,
         id \in Stored \/ (flight[id] = {} /\ view[id] = {} /\ id \notin DOMAIN page.rows),
         Apply(event, {}) \in {{}, Row(id)'}, Apply(event, Row(id)') = Row(id)',
         Apply(event, Row(id)) = Row(id)',
         \A j \in Ids \ {id} : Row(j)' = Row(j) /\ (Shown(j)' <=> Shown(j))
  PROVE  ViewInv'
<1>1. flight \in [Ids -> SUBSET Events]
  BY TypeParts DEF OthersOK
<1>2. page' = page /\ view' = view /\ oldest' = oldest
  BY DEF client
<1>3. id \in unsure' \/ ViewOf(id)'
  <2>1. id \in unsure' \/ ViewOf(id)
    BY DEF RelayByChannel, ViewInv
  <2> QED
    BY <1>1, <1>2, <2>1, ViewRelay
<1>4. ASSUME NEW j \in Ids \ unsure', j # id PROVE ViewOf(j)'
  <2>1. flight'[j] = flight[j] /\ ViewOf(j)
    BY <1>4, RelayOthers DEF ViewInv
  <2> QED
    BY <1>2, <1>4, <2>1, ViewOfKept
<1> QED
  BY <1>3, <1>4 DEF ViewInv

LEMMA ViewFinalize ==
  ASSUME TypeOK, FreshInv, ViewInv, NEW u \in Users, NEW id \in Ids,
         FinalizeMessageSendRequest(u, id)
  PROVE  ViewInv'
<1>1. PICK message : AddMessage(id, message) /\ message.channel = sending[u].channel
  BY DEF FinalizeMessageSendRequest
<1>2. /\ Fresh(id) /\ flight[id] = {} /\ view[id] = {} /\ id \notin DOMAIN page.rows
      /\ id \notin Stored
  BY FinalizeFresh DEF FreshInv
<1>3. /\ Stored' = Stored \cup {id} /\ messages'[id].channel = sending[u].channel
      /\ \A j \in Stored : messages'[j] = messages[j]
      /\ \A j \in Ids \ {id} : embeds'[j] = embeds[j] /\ mentions'[j] = mentions[j]
      /\ reactions' = reactions
  BY <1>1, <1>2 DEF AddMessage, Stored, TypeOK
<1>4. \A j \in Ids \ {id} : Row(j)' = Row(j) /\ (Shown(j)' <=> Shown(j))
  BY <1>3, RowKept DEF Shown
<1> QED
  BY <1>2, <1>3, <1>4, ApplyFacts, ViewChange DEF FinalizeMessageSendRequest

\* The rows of a message that is stored are one.
LEMMA RowNotEmpty ==
  ASSUME NEW id
  PROVE  /\ id \in Stored <=> Row(id) # {}
         /\ id \in Stored' <=> Row(id)' # {}
BY RowIs, RowIsNext

LEMMA ViewUpdate ==
  ASSUME TypeOK, ViewInv, NEW u \in Users, NEW id \in Ids, NEW content \in Contents,
         HandleMessageUpdateRequest(u, id, content)
  PROVE  ViewInv'
<1>1. /\ id \in Stored /\ SetMessage(id, content)
      /\ RelayByChannel(id, Event("update", Row(id)', Nobody), messages[id].channel)
      /\ UNCHANGED client
  BY DEF HandleMessageUpdateRequest
<1>2. TablesOK
  BY TypeParts
<1>3. /\ Stored' = Stored /\ \A j \in Stored \ {id} : messages'[j] = messages[j]
      /\ messages'[id].channel = messages[id].channel
      /\ \A j \in Ids \ {id} : embeds'[j] = embeds[j] /\ mentions'[j] = mentions[j]
      /\ reactions' = reactions
  BY <1>1, <1>2 DEF SetMessage, Stored, TablesOK, Message
<1>4. \A j \in Ids \ {id} : Row(j)' = Row(j) /\ (Shown(j)' <=> Shown(j))
  BY <1>3, RowKept DEF Shown
<1> QED
  BY <1>1, <1>3, <1>4, ApplyFacts, RowNotEmpty, ViewChange

LEMMA ViewTryEmbed ==
  ASSUME TypeOK, ViewInv, NEW f \in Fetchers, NEW id \in Ids, TryEmbedURLs(f, id)
  PROVE  ViewInv'
<1>1. /\ id \in Stored /\ UNCHANGED <<messages, mentions, reactions>> /\ UNCHANGED client
      /\ RelayByChannel(id, Event("update", Row(id)', Nobody), messages[id].channel)
      /\ \E urls : AddEmbeds(id, urls)
  BY DEF TryEmbedURLs
<1>2. Stored' = Stored /\ \A j \in Ids \ {id} : embeds'[j] = embeds[j]
  BY <1>1 DEF AddEmbeds, Stored, TypeOK
<1>3. \A j \in Ids \ {id} : Row(j)' = Row(j) /\ (Shown(j)' <=> Shown(j))
  BY <1>1, <1>2, RowKept DEF Shown
<1> QED
  BY <1>1, <1>2, <1>3, ApplyFacts, RowNotEmpty, ViewChange

LEMMA ViewDelete ==
  ASSUME TypeOK, ViewInv, NEW u \in Users, NEW id \in Ids, HandleMessageDeleteRequest(u, id)
  PROVE  ViewInv'
<1>1. /\ id \in Stored /\ DeleteMessage(id) /\ UNCHANGED client
      /\ RelayByChannel(id, Event("delete", {}, Nobody), messages[id].channel)
  BY DEF HandleMessageDeleteRequest
<1>2. TablesOK
  BY TypeParts
<1>3. Stored' = Stored \ {id}
  BY <1>1 DEF DeleteMessage, Stored
<1>4. ASSUME NEW j \in Stored \ {id}
      PROVE  messages'[j].content = messages[j].content
             /\ messages'[j].channel = messages[j].channel
  <2>1. messages'[j] = [messages[j] EXCEPT !.reference = IF @ = id THEN 0 ELSE @]
    BY <1>1 DEF DeleteMessage
  <2>2. messages[j] \in Message
    BY <1>2 DEF TablesOK
  <2> QED
    BY <2>1, <2>2 DEF Message
<1>5. /\ \A j \in Ids \ {id} : embeds'[j] = embeds[j] /\ mentions'[j] = mentions[j]
      /\ \A j \in Ids \ {id}, v \in Users : <<j, v>> \in reactions' <=> <<j, v>> \in reactions
  BY <1>1, <1>2 DEF DeleteMessage, TablesOK
<1>6. \A j \in Ids \ {id} : Row(j)' = Row(j) /\ (Shown(j)' <=> Shown(j))
  BY <1>3, <1>4, <1>5, RowKept DEF Shown
<1>7. Row(id)' = {}
  BY <1>3, RowIsNext
<1>8. ViewInv'
  <2> DEFINE event == Event("delete", {}, Nobody)
  <2>1. \A copy : Apply(event, copy) = {}
    BY ApplyFacts
  <2>2. id \notin Stored'
    BY <1>3
  <2> HIDE DEF event
  <2>3. RelayByChannel(id, event, messages[id].channel)
    BY <1>1 DEF event
  <2> QED
    BY <1>1, <1>6, <1>7, <2>1, <2>2, <2>3, ViewChange
<1> QED
  BY <1>8

\* The row with these contents.
OneRow(content, es, ms, rs) ==
  {[content |-> content, embeds |-> es, mentions |-> ms, reactions |-> rs]}

LEMMA ViewReaction ==
  ASSUME TypeOK, ViewInv, NEW u \in Users, NEW id \in Ids,
         \/ HandleMessageReactionAddRequest(u, id)
         \/ HandleMessageReactionDeleteRequest(u, id)
  PROVE  ViewInv'
<1> DEFINE rs == {v \in Users : <<id, v>> \in reactions}
           row(r) == OneRow(messages[id].content, embeds[id], mentions[id], r)
<1>1. /\ id \in Stored /\ UNCHANGED <<messages, embeds, mentions, client>>
      /\ \A j \in Ids \ {id}, v \in Users : <<j, v>> \in reactions' <=> <<j, v>> \in reactions
  BY DEF HandleMessageReactionAddRequest, HandleMessageReactionDeleteRequest,
         AddReaction, DeleteReaction
<1>2. Stored' = Stored
  BY <1>1 DEF Stored
<1>3. \A j \in Ids \ {id} : Row(j)' = Row(j) /\ (Shown(j)' <=> Shown(j))
  BY <1>1, <1>2, RowKept DEF Shown
<1>4. Row(id) = row(rs) /\ Row(id)' = row({v \in Users : <<id, v>> \in reactions'})
  BY <1>1, <1>2, RowIs, RowIsNext DEF OneRow
<1>5. CASE HandleMessageReactionAddRequest(u, id)
  <2>1. {v \in Users : <<id, v>> \in reactions'} = rs \cup {u}
    BY <1>5 DEF HandleMessageReactionAddRequest, AddReaction
  <2> DEFINE event == Event("react", {}, u)
  <2>2. RelayByChannel(id, event, messages[id].channel)
    BY <1>5 DEF HandleMessageReactionAddRequest
  <2>3. \A c : Apply(event, c) = {[m EXCEPT !.reactions = @ \cup {u}] : m \in c}
    BY ApplyFacts
  <2> HIDE DEF event, rs
  <2>4. ASSUME NEW r PROVE Apply(event, row(r)) = row(r \cup {u})
    <3>1. Apply(event, row(r)) = {[m EXCEPT !.reactions = @ \cup {u}] : m \in row(r)}
      BY <2>3
    <3>2. {[m EXCEPT !.reactions = @ \cup {u}] : m \in row(r)} = row(r \cup {u})
      BY DEF OneRow
    <3> QED
      BY <3>1, <3>2
  <2>5. /\ Apply(event, row(rs)) = row(rs \cup {u})
        /\ Apply(event, row(rs \cup {u})) = row((rs \cup {u}) \cup {u})
    BY <2>4
  <2>6. (rs \cup {u}) \cup {u} = rs \cup {u} /\ Apply(event, {}) = {}
    BY <2>3
  <2> HIDE DEF row
  <2>7. /\ Apply(event, Row(id)) = Row(id)' /\ Apply(event, Row(id)') = Row(id)'
        /\ Apply(event, {}) = {}
    BY <1>4, <2>1, <2>5, <2>6
  <2> QED
    BY <1>1, <1>2, <1>3, <2>2, <2>7, ViewChange
<1>6. CASE HandleMessageReactionDeleteRequest(u, id)
  <2>1. {v \in Users : <<id, v>> \in reactions'} = rs \ {u}
    BY <1>6 DEF HandleMessageReactionDeleteRequest, DeleteReaction
  <2> DEFINE event == Event("unreact", {}, u)
  <2>2. RelayByChannel(id, event, messages[id].channel)
    BY <1>6 DEF HandleMessageReactionDeleteRequest
  <2>3. \A c : Apply(event, c) = {[m EXCEPT !.reactions = @ \ {u}] : m \in c}
    BY ApplyFacts
  <2> HIDE DEF event, rs
  <2>4. ASSUME NEW r PROVE Apply(event, row(r)) = row(r \ {u})
    <3>1. Apply(event, row(r)) = {[m EXCEPT !.reactions = @ \ {u}] : m \in row(r)}
      BY <2>3
    <3>2. {[m EXCEPT !.reactions = @ \ {u}] : m \in row(r)} = row(r \ {u})
      BY DEF OneRow
    <3> QED
      BY <3>1, <3>2
  <2>5. /\ Apply(event, row(rs)) = row(rs \ {u})
        /\ Apply(event, row(rs \ {u})) = row((rs \ {u}) \ {u})
    BY <2>4
  <2>6. (rs \ {u}) \ {u} = rs \ {u} /\ Apply(event, {}) = {}
    BY <2>3
  <2> HIDE DEF row
  <2>7. /\ Apply(event, Row(id)) = Row(id)' /\ Apply(event, Row(id)') = Row(id)'
        /\ Apply(event, {}) = {}
    BY <1>4, <2>1, <2>5, <2>6
  <2> QED
    BY <1>1, <1>2, <1>3, <2>2, <2>7, ViewChange
<1> QED
  BY <1>5, <1>6

LEMMA ViewStep ==
  ASSUME TypeOK, FreshInv, ViewInv, [Next]_vars
  PROVE  ViewInv'
<1>1. CASE \/ UNCHANGED vars
           \/ \E u \in Users : FinalizeFails(u)
           \/ \E f \in Fetchers : TryEmbedURLsFails(f)
           \/ \E u \in Users, channel \in Channels, content \in Contents,
                 reference \in Stored \cup {0} :
                HandleMessageSendRequest(u, channel, content, reference)
  <2>1. UNCHANGED <<db, flight, client, unsure>>
    BY <1>1 DEF vars, FinalizeFails, TryEmbedURLsFails, HandleMessageSendRequest
  <2>2. \A j \in Ids : Row(j)' = Row(j) /\ (Shown(j)' <=> Shown(j))
    BY <2>1, RowKept DEF db, Shown, Stored
  <2> QED
    BY <2>1, <2>2, ViewOfKept DEF ViewInv, client
<1> QED
  BY <1>1, ViewFinalize, ViewUpdate, ViewDelete, ViewReaction, ViewTryEmbed, ViewDeliver, ViewDrop,
     ViewMessagesRequest, ViewMessagesResponse, ViewCrash DEF Next

LEMMA ViewInit == Init => ViewInv
<1> SUFFICES ASSUME Init PROVE ViewInv
  OBVIOUS
<1>1. /\ DOMAIN page.rows = {} /\ page = NoPage /\ oldest = MaxId + 1 /\ Stored = {}
      /\ \A j \in Ids : flight[j] = {} /\ view[j] = {}
  BY DEF Init, NoPage, Stored
<1>2. \A j \in Ids : ~ Asked(j)
  BY <1>1, MessagesAssumption DEF Asked, Ids
<1> QED
  BY <1>1, <1>2 DEF ViewInv, ViewOf, Leads

\* A client that merges pages and events has, of everything from the oldest message it
\* has asked for on, the row that is stored, unless two events of the message met, one
\* met a page or one was dropped (ViewAgrees): ViewInv is inductive because every commit
\* that changes a row announces it with an event that leads from what the row was to what
\* it is, and a page, whichever events it passes by, has what was stored when it was read.
THEOREM MessagesViewAgrees == Spec => []ViewAgrees
<1>1. Init => ViewInv
  BY ViewInit
<1>2. BaseInv /\ ViewInv /\ [Next]_vars => ViewInv'
  BY ViewStep DEF BaseInv
<1>3. ViewInv => ViewAgrees
  BY DEF ViewInv, ViewOf, Asked, Leads, Shown, ViewAgrees
<1> QED
  BY <1>1, <1>2, <1>3, MessagesBase, PTL DEF Spec
=============================================================================
