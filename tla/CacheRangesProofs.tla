-------------------------- MODULE CacheRangesProofs --------------------------
(***************************************************************************)
(* Proofs about CacheRanges.tla for resources of any length.               *)
(***************************************************************************)
EXTENDS CacheRanges, WellFoundedInduction, TLAPS

-----------------------------------------------------------------------------
(* Induction, recursion, and extremes of bounded sets of numbers.           *)

\* What holds of 0 and of n + 1 whenever it holds of n < N holds up to N.
LEMMA Induction ==
  ASSUME NEW N \in Nat, NEW P, 0 \in P, \A n \in 0 .. N - 1 : n \in P => n + 1 \in P
  PROVE  \A n \in 0 .. N : n \in P
<1> DEFINE R == OpToRel(<, Nat)
           Others == (0 .. N) \ P
<1>1. R = {p \in Nat \X Nat : p[1] < p[2]}
  BY DEF OpToRel
<1>2. IsWellFoundedOn(R, Nat)
  BY NatLessThanWellFounded
<1> HIDE DEF R
<1> SUFFICES ASSUME Others # {} PROVE FALSE
  OBVIOUS
<1>3. PICK x \in Others : \A y \in Others : ~ (<<y, x>> \in R)
  <2>1. Others \subseteq Nat
    OBVIOUS
  <2> HIDE DEF Others
  <2> QED
    BY <1>2, <2>1, WFMin
<1>4. x # 0 /\ x \in Nat /\ x - 1 \in 0 .. N - 1
  OBVIOUS
<1>5. <<x - 1, x>> \in R
  BY <1>1, <1>4
<1>6. x - 1 \in P
  BY <1>3, <1>4, <1>5
<1> QED
  BY <1>4, <1>6

\* A bounded set of numbers has a greatest element.
LEMMA MaxFacts ==
  ASSUME NEW n \in Nat, NEW S \in SUBSET (0 .. n), S # {}
  PROVE  Max(S) \in S /\ \A x \in S : x <= Max(S)
<1> DEFINE P == {k \in 0 .. n : (\A x \in S : x <= k) => \E x \in S : \A y \in S : y <= x}
<1>1. 0 \in P
  <2> SUFFICES ASSUME \A x \in S : x <= 0 PROVE \E x \in S : \A y \in S : y <= x
    OBVIOUS
  <2>1. \A x \in S : x = 0
    OBVIOUS
  <2> QED
    BY <2>1
<1>2. ASSUME NEW k \in 0 .. n - 1, k \in P PROVE k + 1 \in P
  <2> SUFFICES ASSUME \A x \in S : x <= k + 1 PROVE \E x \in S : \A y \in S : y <= x
    BY <1>2
  <2>1. CASE k + 1 \in S
    BY <2>1
  <2>2. CASE k + 1 \notin S
    <3>1. \A x \in S : x <= k
      BY <2>2
    <3> QED
      BY <1>2, <3>1
  <2> QED
    BY <2>1, <2>2
<1> HIDE DEF P
<1>3. n \in P
  BY <1>1, <1>2, Induction
<1>4. \E x \in S : \A y \in S : y <= x
  BY <1>3 DEF P
<1> QED
  BY <1>4 DEF Max

\* A set of places has a least one.
LEMMA MinFacts ==
  ASSUME NEW n \in Nat, NEW S \in SUBSET (1 .. n), S # {}
  PROVE  Min(S) \in S /\ \A x \in S : Min(S) <= x
<1> DEFINE T == {n - x : x \in S}
<1>1. T \subseteq 0 .. n /\ T # {}
  <2>1. \A x \in S : n - x \in 0 .. n
    OBVIOUS
  <2>2. PICK x \in S : TRUE
    OBVIOUS
  <2>3. n - x \in T
    OBVIOUS
  <2> QED
    BY <2>1, <2>3
<1>2. Max(T) \in T /\ \A t \in T : t <= Max(T)
  <2> HIDE DEF T
  <2> QED
    BY <1>1, MaxFacts
<1>3. PICK x \in S : Max(T) = n - x
  BY <1>2
<1>4. ASSUME NEW y \in S PROVE x <= y
  <2>1. n - y \in T
    OBVIOUS
  <2>2. n - y <= n - x
    BY <1>2, <1>3, <2>1
  <2> QED
    BY <2>2
<1> QED
  BY <1>4 DEF Min

\* f is what base and step define on 0 .. N.
Recursive(f, N, A, base, step) ==
  /\ f \in [0 .. N -> A]
  /\ f[0] = base
  /\ \A n \in 1 .. N : f[n] = step[<<f[n - 1], n>>]

\* Functions defined by recursion exist.
LEMMA Recursion ==
  ASSUME NEW N \in Nat, NEW A, NEW base \in A, NEW step \in [A \X (1 .. N) -> A]
  PROVE  \E f : Recursive(f, N, A, base, step)
<1> DEFINE Good(f, n) == /\ f \in [0 .. n -> A] /\ f[0] = base
                         /\ \A k \in 1 .. n : f[k] = step[<<f[k - 1], k>>]
           P == {n \in 0 .. N : \E f : Good(f, n)}
<1>1. 0 \in P
  <2> DEFINE f == [k \in 0 .. 0 |-> base]
  <2>1. Good(f, 0)
    OBVIOUS
  <2>2. 0 \in 0 .. N
    OBVIOUS
  <2> HIDE DEF f, Good
  <2> QED
    BY <2>1, <2>2
<1>2. ASSUME NEW n \in 0 .. N - 1, n \in P PROVE n + 1 \in P
  <2>1. PICK f : Good(f, n)
    BY <1>2
  <2> DEFINE last == step[<<f[n], n + 1>>]
             g == [k \in 0 .. n + 1 |-> IF k = n + 1 THEN last ELSE f[k]]
  <2>2. f[n] \in A /\ n + 1 \in 1 .. N
    BY <2>1
  <2>3. last \in A
    BY <2>2
  <2>4. \A k \in 0 .. n : k # n + 1 /\ k \in 0 .. n + 1
    OBVIOUS
  <2>5. g[n + 1] = last /\ \A k \in 0 .. n : g[k] = f[k]
    <3> HIDE DEF last
    <3> QED
      BY <2>4
  <2>6. g \in [0 .. n + 1 -> A]
    <3>1. \A k \in 0 .. n + 1 : k = n + 1 \/ k \in 0 .. n
      OBVIOUS
    <3> HIDE DEF last
    <3> QED
      BY <2>1, <2>3, <3>1
  <2>7. ASSUME NEW k \in 1 .. n + 1 PROVE g[k] = step[<<g[k - 1], k>>]
    <3> HIDE DEF g
    <3>1. CASE k = n + 1
      <4>1. k - 1 = n /\ n \in 0 .. n
        BY <3>1
      <4> QED
        BY <2>5, <3>1, <4>1
    <3>2. CASE k \in 1 .. n
      <4>1. k \in 0 .. n /\ k - 1 \in 0 .. n
        BY <3>2
      <4>2. f[k] = step[<<f[k - 1], k>>]
        BY <2>1, <3>2
      <4> QED
        BY <2>5, <4>1, <4>2
    <3> QED
      BY <3>1, <3>2
  <2>8. g[0] = base
    <3> HIDE DEF g
    <3> QED
      BY <2>1, <2>5
  <2> HIDE DEF g
  <2>9. Good(g, n + 1)
    BY <2>6, <2>7, <2>8
  <2> HIDE DEF Good
  <2> QED
    BY <2>2, <2>9
<1> HIDE DEF P
<1>3. N \in P
  BY <1>1, <1>2, Induction
<1> QED
  BY <1>3 DEF P, Recursive
-----------------------------------------------------------------------------
(* Sorting.                                                                  *)

\* A range of the list: only a fetch that received nothing leaves an empty one.
Rng == {r \in [Start : Nat, End : Int] : r.End >= r.Start - 1}

Ascending(s) == \A i, j \in DOMAIN s : i <= j => s[i].Start <= s[j].Start

\* Where Insert puts everything.
LEMMA InsertPlaces ==
  ASSUME NEW s \in Seq(Rng), NEW r \in Rng
  PROVE  \E u \in 0 .. Len(s) :
           /\ u > 0 => s[u].Start <= r.Start
           /\ \A i \in u + 1 .. Len(s) : r.Start < s[i].Start
           /\ Insert(s, r) \in Seq(Rng)
           /\ Len(Insert(s, r)) = Len(s) + 1
           /\ \A i \in 1 .. u : Insert(s, r)[i] = s[i]
           /\ Insert(s, r)[u + 1] = r
           /\ \A i \in u + 1 .. Len(s) : Insert(s, r)[i + 1] = s[i]
<1> DEFINE S == {0} \cup {i \in DOMAIN s : s[i].Start <= r.Start}
           u == Max(S)
<1>1. DOMAIN s = 1 .. Len(s) /\ Len(s) \in Nat
  OBVIOUS
<1>2. u \in S /\ \A x \in S : x <= u
  <2>1. S \in SUBSET (0 .. Len(s)) /\ S # {}
    BY <1>1
  <2> HIDE DEF S
  <2> QED
    BY <1>1, <2>1, MaxFacts
<1>3. u \in 0 .. Len(s) /\ (u > 0 => s[u].Start <= r.Start)
  <2> HIDE DEF u
  <2> QED
    BY <1>1, <1>2
<1>4. ASSUME NEW i \in u + 1 .. Len(s) PROVE r.Start < s[i].Start
  <2>1. i \in 1 .. Len(s) /\ ~ (i <= u)
    BY <1>3
  <2>2. i \notin S
    <3> HIDE DEF S, u
    <3> QED
      BY <1>2, <2>1
  <2>3. ~ (s[i].Start <= r.Start)
    BY <1>1, <2>1, <2>2
  <2>4. s[i].Start \in Nat /\ r.Start \in Nat
    BY <2>1 DEF Rng
  <2> QED
    BY <2>3, <2>4
<1>5. Insert(s, r) = SubSeq(s, 1, u) \o <<r>> \o SubSeq(s, u + 1, Len(s))
  BY DEF Insert
<1> HIDE DEF u
<1> DEFINE front == SubSeq(s, 1, u)
           back == SubSeq(s, u + 1, Len(s))
<1>6. front \in Seq(Rng) /\ Len(front) = u /\ \A i \in 1 .. u : front[i] = s[i]
  BY <1>3
<1>7. /\ back \in Seq(Rng) /\ Len(back) = Len(s) - u
      /\ \A i \in 1 .. Len(s) - u : back[i] = s[u + i]
  BY <1>3
<1> HIDE DEF front, back
<1>8. /\ front \o <<r>> \in Seq(Rng) /\ Len(front \o <<r>>) = u + 1
      /\ \A i \in 1 .. u : (front \o <<r>>)[i] = s[i]
      /\ (front \o <<r>>)[u + 1] = r
  BY <1>3, <1>6
<1> DEFINE head == front \o <<r>>
<1>9. Insert(s, r) = head \o back
  BY <1>5 DEF front, back
<1> HIDE DEF head
<1>10. head \in Seq(Rng) /\ Len(head) = u + 1 /\ head[u + 1] = r /\ \A i \in 1 .. u : head[i] = s[i]
  BY <1>8 DEF head
<1>11. /\ head \o back \in Seq(Rng) /\ Len(head \o back) = Len(s) + 1
       /\ \A i \in 1 .. u + 1 : (head \o back)[i] = head[i]
       /\ \A i \in 1 .. Len(s) - u : (head \o back)[u + 1 + i] = back[i]
  BY <1>3, <1>7, <1>10
<1> DEFINE whole == head \o back
<1>12. /\ whole \in Seq(Rng) /\ Len(whole) = Len(s) + 1
       /\ \A i \in 1 .. u + 1 : whole[i] = head[i]
       /\ \A i \in 1 .. Len(s) - u : whole[u + 1 + i] = back[i]
  BY <1>11
<1>13. Insert(s, r) = whole
  BY <1>9
<1> HIDE DEF whole
<1>14. ASSUME NEW i \in u + 1 .. Len(s) PROVE whole[i + 1] = s[i]
  <2> DEFINE k == i - u
  <2>1. k \in 1 .. Len(s) - u /\ u + 1 + k = i + 1 /\ u + k = i
    BY <1>1, <1>3
  <2> HIDE DEF k
  <2>2. whole[u + 1 + k] = back[k]
    BY <1>12, <2>1
  <2>3. back[k] = s[u + k]
    BY <1>7, <2>1
  <2> QED
    BY <2>1, <2>2, <2>3
<1>15. \A i \in 1 .. u : whole[i] = s[i]
  <2>1. \A i \in 1 .. u : i \in 1 .. u + 1
    BY <1>3
  <2> QED
    BY <1>10, <1>12, <2>1
<1>16. whole[u + 1] = r
  <2>1. u + 1 \in 1 .. u + 1
    BY <1>3
  <2> QED
    BY <1>10, <1>12, <2>1
<1> QED
  BY <1>3, <1>4, <1>12, <1>13, <1>14, <1>15, <1>16

\* Insert keeps the order and adds one element.
LEMMA InsertFacts ==
  ASSUME NEW s \in Seq(Rng), NEW r \in Rng
  PROVE  /\ Insert(s, r) \in Seq(Rng) /\ Len(Insert(s, r)) = Len(s) + 1
         /\ Range(Insert(s, r)) = Range(s) \cup {r}
         /\ Ascending(s) => Ascending(Insert(s, r))
<1> DEFINE t == Insert(s, r)
<1>1. PICK u \in 0 .. Len(s) :
           /\ u > 0 => s[u].Start <= r.Start
           /\ \A i \in u + 1 .. Len(s) : r.Start < s[i].Start
           /\ t \in Seq(Rng)
           /\ Len(t) = Len(s) + 1
           /\ \A i \in 1 .. u : t[i] = s[i]
           /\ t[u + 1] = r
           /\ \A i \in u + 1 .. Len(s) : t[i + 1] = s[i]
  BY InsertPlaces
<1> HIDE DEF t
<1>2. Len(s) \in Nat /\ DOMAIN s = 1 .. Len(s) /\ DOMAIN t = 1 .. Len(s) + 1
  BY <1>1
<1>3. \A i \in DOMAIN t : \/ i \in 1 .. u /\ i \in DOMAIN s /\ t[i] = s[i]
                          \/ i = u + 1 /\ t[i] = r
                          \/ i - 1 \in u + 1 .. Len(s) /\ i - 1 \in DOMAIN s /\ t[i] = s[i - 1]
  <2> SUFFICES ASSUME NEW i \in DOMAIN t
               PROVE  \/ i \in 1 .. u /\ i \in DOMAIN s /\ t[i] = s[i]
                      \/ i = u + 1 /\ t[i] = r
                      \/ i - 1 \in u + 1 .. Len(s) /\ i - 1 \in DOMAIN s /\ t[i] = s[i - 1]
    OBVIOUS
  <2>1. i \in 1 .. u \/ i = u + 1 \/ (i - 1 \in u + 1 .. Len(s) /\ (i - 1) + 1 = i)
    BY <1>2
  <2>2. \A j \in u + 1 .. Len(s) : j \in DOMAIN s
    BY <1>2
  <2>3. \A j \in 1 .. u : j \in DOMAIN s
    BY <1>2
  <2> QED
    BY <1>1, <2>1, <2>2, <2>3
<1>4. Range(t) = Range(s) \cup {r}
  <2>1. \A x \in Range(t) : x \in Range(s) \cup {r}
    BY <1>3 DEF Range
  <2>2. ASSUME NEW i \in DOMAIN s PROVE s[i] \in Range(t)
    <3>1. (i \in 1 .. u /\ i \in DOMAIN t) \/ (i \in u + 1 .. Len(s) /\ i + 1 \in DOMAIN t)
      BY <1>2
    <3> QED
      BY <1>1, <3>1 DEF Range
  <2>3. r \in Range(t)
    <3>1. u + 1 \in DOMAIN t
      BY <1>2
    <3> QED
      BY <1>1, <3>1 DEF Range
  <2>4. \A x \in Range(s) : x \in Range(t)
    BY <2>2 DEF Range
  <2> QED
    BY <2>1, <2>3, <2>4
<1>5. ASSUME Ascending(s) PROVE Ascending(t)
  <2>1. \A i \in DOMAIN s : s[i].Start \in Nat
    BY DEF Rng
  <2>2. r.Start \in Nat
    BY DEF Rng
  <2>3. ASSUME NEW i \in 1 .. u PROVE s[i].Start <= r.Start
    <3>1. i \in DOMAIN s /\ u \in DOMAIN s /\ i <= u /\ u > 0
      BY <1>2
    <3> QED
      BY <1>1, <1>5, <2>1, <2>2, <3>1 DEF Ascending
  <2> SUFFICES ASSUME NEW i \in DOMAIN t, NEW j \in DOMAIN t, i <= j PROVE t[i].Start <= t[j].Start
    BY DEF Ascending
  <2>4. i \in Nat /\ j \in Nat /\ u \in Nat
    BY <1>2
  <2>5. CASE i \in 1 .. u
    <3>1. t[i] = s[i] /\ i \in DOMAIN s
      BY <1>1, <1>2, <2>5
    <3>2. CASE j \in 1 .. u
      BY <1>1, <1>2, <1>5, <3>1, <3>2 DEF Ascending
    <3>3. CASE j = u + 1
      BY <1>1, <2>3, <2>5, <3>1, <3>3
    <3>4. CASE j - 1 \in u + 1 .. Len(s)
      <4>1. t[j] = s[j - 1] /\ j - 1 \in DOMAIN s /\ i <= j - 1
        BY <1>3, <1>2, <2>4, <2>5, <3>4
      <4> QED
        BY <1>5, <3>1, <4>1 DEF Ascending
    <3> QED
      BY <1>3, <3>2, <3>3, <3>4
  <2>6. CASE i = u + 1
    <3>1. CASE j = u + 1
      BY <1>1, <2>2, <2>6, <3>1
    <3>2. CASE j - 1 \in u + 1 .. Len(s)
      <4>1. t[j] = s[j - 1] /\ j - 1 \in DOMAIN s
        BY <1>3, <1>2, <2>4, <3>2
      <4>2. r.Start < s[j - 1].Start
        BY <1>1, <3>2
      <4> QED
        BY <1>1, <2>1, <2>2, <2>6, <4>1, <4>2
    <3> QED
      BY <1>3, <2>4, <2>6, <3>1, <3>2
  <2>7. CASE i - 1 \in u + 1 .. Len(s)
    <3>1. j - 1 \in u + 1 .. Len(s) /\ i - 1 <= j - 1
      BY <1>2, <2>4, <2>7
    <3>2. t[i] = s[i - 1] /\ t[j] = s[j - 1] /\ i - 1 \in DOMAIN s /\ j - 1 \in DOMAIN s
      BY <1>3, <1>2, <2>4, <2>7, <3>1
    <3> QED
      BY <1>5, <3>1, <3>2 DEF Ascending
  <2> QED
    BY <1>3, <2>5, <2>6, <2>7
<1> QED
  BY <1>1, <1>4, <1>5 DEF t

\* What sort.Slice leaves: the same ranges, by Start.
LEMMA SortedFacts ==
  ASSUME NEW rs \in Seq(Rng)
  PROVE  /\ Sorted(rs) \in Seq(Rng) /\ Len(Sorted(rs)) = Len(rs)
         /\ Range(Sorted(rs)) = Range(rs)
         /\ Ascending(Sorted(rs))
<1> DEFINE Body(f) == [n \in 0 .. Len(rs) |-> IF n = 0 THEN <<>> ELSE Insert(f[n - 1], rs[n])]
           g == CHOOSE f : f = Body(f)
           step == [p \in Seq(Rng) \X (1 .. Len(rs)) |-> Insert(p[1], rs[p[2]])]
<1>1. Len(rs) \in Nat /\ <<>> \in Seq(Rng) /\ \A n \in 1 .. Len(rs) : rs[n] \in Rng
  OBVIOUS
<1>2. step \in [Seq(Rng) \X (1 .. Len(rs)) -> Seq(Rng)]
  <2>1. \A p \in Seq(Rng) \X (1 .. Len(rs)) : Insert(p[1], rs[p[2]]) \in Seq(Rng)
    BY <1>1, InsertFacts
  <2> QED
    BY <2>1
<1>3. \E f : f = Body(f)
  <2>1. PICK f : Recursive(f, Len(rs), Seq(Rng), <<>>, step)
    <3> HIDE DEF step
    <3> QED
      BY <1>1, <1>2, Recursion
  <2>2. ASSUME NEW n \in 1 .. Len(rs) PROVE f[n] = Insert(f[n - 1], rs[n])
    <3>1. n - 1 \in 0 .. Len(rs)
      OBVIOUS
    <3>2. <<f[n - 1], n>> \in Seq(Rng) \X (1 .. Len(rs))
      BY <2>1, <3>1 DEF Recursive
    <3> QED
      BY <2>1, <3>2 DEF Recursive
  <2>3. ASSUME NEW n \in 0 .. Len(rs) PROVE f[n] = IF n = 0 THEN <<>> ELSE Insert(f[n - 1], rs[n])
    <3>1. n = 0 \/ n \in 1 .. Len(rs)
      OBVIOUS
    <3> QED
      BY <2>1, <2>2, <3>1 DEF Recursive
  <2>4. f = Body(f)
    BY <2>1, <2>3 DEF Recursive
  <2> QED
    BY <2>4
<1>4. g = Body(g)
  <2> HIDE DEF Body
  <2> QED
    BY <1>3
<1>5. Sorted(rs) = g[Len(rs)]
  BY DEF Sorted
<1> HIDE DEF g
<1>6. g[0] = <<>>
  <2>1. 0 \in 0 .. Len(rs)
    OBVIOUS
  <2> QED
    BY <1>4, <2>1
<1>7. ASSUME NEW n \in 0 .. Len(rs) - 1 PROVE g[n + 1] = Insert(g[n], rs[n + 1])
  <2>1. n + 1 \in 0 .. Len(rs) /\ n + 1 # 0 /\ (n + 1) - 1 = n
    OBVIOUS
  <2> QED
    BY <1>4, <2>1
<1> HIDE DEF Body, step
<1> DEFINE Good(n) == /\ g[n] \in Seq(Rng) /\ Len(g[n]) = n
                      /\ Range(g[n]) = {rs[i] : i \in 1 .. n}
                      /\ Ascending(g[n])
           P == {n \in 0 .. Len(rs) : Good(n)}
<1>8. 0 \in P
  <2>1. Good(0)
    BY <1>6 DEF Range, Ascending
  <2> QED
    BY <2>1
<1>9. ASSUME NEW n \in 0 .. Len(rs) - 1, n \in P PROVE n + 1 \in P
  <2>1. Good(n)
    BY <1>9
  <2>2. n + 1 \in 1 .. Len(rs) /\ n + 1 \in 0 .. Len(rs)
    OBVIOUS
  <2>3. rs[n + 1] \in Rng
    BY <1>1, <2>2
  <2>4. /\ g[n + 1] \in Seq(Rng) /\ Len(g[n + 1]) = n + 1
        /\ Range(g[n + 1]) = Range(g[n]) \cup {rs[n + 1]}
        /\ Ascending(g[n + 1])
    BY <1>7, <2>1, <2>3, InsertFacts
  <2>5. {rs[i] : i \in 1 .. n} \cup {rs[n + 1]} = {rs[i] : i \in 1 .. n + 1}
    <3>1. 1 .. n + 1 = (1 .. n) \cup {n + 1}
      OBVIOUS
    <3> QED
      BY <3>1
  <2>6. Good(n + 1)
    BY <2>1, <2>4, <2>5
  <2> QED
    BY <2>2, <2>6
<1> HIDE DEF P
<1>10. Len(rs) \in P
  <2>1. Len(rs) \in 0 .. Len(rs)
    OBVIOUS
  <2> QED
    BY <1>1, <1>8, <1>9, <2>1, Induction
<1>11. Good(Len(rs))
  BY <1>10 DEF P
<1>12. {rs[i] : i \in 1 .. Len(rs)} = Range(rs)
  BY DEF Range
<1> QED
  BY <1>5, <1>11, <1>12
-----------------------------------------------------------------------------
(* Merging.                                                                  *)

\* What the pass of MergeRanges carries from one range to the next.
Acc == [merged : Seq(Rng), current : Rng]

\* What the pass would return if it stopped here.
Joined(acc) == Append(acc.merged, acc.current)

Separated(s) == \A i, j \in DOMAIN s : i < j => s[i].End + 1 < s[j].Start

LEMMA AppendFacts ==
  ASSUME NEW s \in Seq(Rng), NEW r \in Rng
  PROVE  /\ Append(s, r) \in Seq(Rng) /\ Len(Append(s, r)) = Len(s) + 1
         /\ DOMAIN s = 1 .. Len(s) /\ DOMAIN Append(s, r) = 1 .. Len(s) + 1
         /\ \A i \in 1 .. Len(s) : Append(s, r)[i] = s[i]
         /\ Append(s, r)[Len(s) + 1] = r
  OBVIOUS

LEMMA CoveredAppend ==
  ASSUME NEW s \in Seq(Rng), NEW r \in Rng
  PROVE  Covered(Append(s, r)) = Covered(s) \cup Span(r)
<1> DEFINE t == Append(s, r)
<1>1. /\ DOMAIN s = 1 .. Len(s) /\ DOMAIN t = 1 .. Len(s) + 1
      /\ \A i \in 1 .. Len(s) : t[i] = s[i]
      /\ t[Len(s) + 1] = r
  BY AppendFacts
<1>2. 1 .. Len(s) + 1 = (1 .. Len(s)) \cup {Len(s) + 1}
  OBVIOUS
<1> HIDE DEF t
<1>3. Covered(t) = Covered(s) \cup Span(r)
  BY <1>1, <1>2 DEF Covered
<1> QED
  BY <1>3 DEF t

\* Only the start of the last range matters to the order of the list.
LEMMA SeparatedAppend ==
  ASSUME NEW s \in Seq(Rng), NEW r \in Rng
  PROVE  Separated(Append(s, r)) <=> /\ Separated(s)
                                     /\ \A i \in DOMAIN s : s[i].End + 1 < r.Start
<1> DEFINE t == Append(s, r)
<1>1. /\ DOMAIN s = 1 .. Len(s) /\ DOMAIN t = 1 .. Len(s) + 1 /\ Len(s) \in Nat
      /\ \A i \in 1 .. Len(s) : t[i] = s[i]
      /\ t[Len(s) + 1] = r
  BY AppendFacts
<1> HIDE DEF t
<1>2. ASSUME Separated(t)
      PROVE  Separated(s) /\ \A i \in DOMAIN s : s[i].End + 1 < r.Start
  <2>1. \A i \in DOMAIN s : i \in DOMAIN t
    BY <1>1
  <2>2. Separated(s)
    BY <1>1, <1>2, <2>1 DEF Separated
  <2>3. \A i \in DOMAIN s : i < Len(s) + 1 /\ Len(s) + 1 \in DOMAIN t
    BY <1>1
  <2>4. \A i \in DOMAIN s : s[i].End + 1 < r.Start
    BY <1>1, <1>2, <2>1, <2>3 DEF Separated
  <2> QED
    BY <2>2, <2>4
<1>3. ASSUME Separated(s), \A i \in DOMAIN s : s[i].End + 1 < r.Start
      PROVE  Separated(t)
  <2> SUFFICES ASSUME NEW i \in DOMAIN t, NEW j \in DOMAIN t, i < j
               PROVE  t[i].End + 1 < t[j].Start
    BY DEF Separated
  <2>1. i \in DOMAIN s /\ (j \in DOMAIN s \/ j = Len(s) + 1)
    BY <1>1
  <2> QED
    BY <1>1, <1>3, <2>1 DEF Separated
<1>4. Separated(t) <=> Separated(s) /\ \A i \in DOMAIN s : s[i].End + 1 < r.Start
  BY <1>2, <1>3
<1> QED
  BY <1>4 DEF t

\* One step of the pass, on the next range by Start.
LEMMA StepFacts ==
  ASSUME NEW acc \in Acc, NEW r \in Rng
  PROVE  /\ MergeStep(acc, r) \in Acc
         /\ acc.current.Start <= r.Start /\ Separated(Joined(acc)) =>
              /\ Separated(Joined(MergeStep(acc, r)))
              /\ Covered(Joined(MergeStep(acc, r))) = Covered(Joined(acc)) \cup Span(r)
              /\ MergeStep(acc, r).current.Start <= r.Start
<1> DEFINE c == acc.current
           m == acc.merged
           a == MergeStep(acc, r)
<1>1. c \in Rng /\ m \in Seq(Rng) /\ acc = [merged |-> m, current |-> c]
  BY DEF Acc
<1>2. c.Start \in Nat /\ c.End \in Int /\ c.End >= c.Start - 1
  BY <1>1 DEF Rng
<1>3. r.Start \in Nat /\ r.End \in Int /\ r.End >= r.Start - 1
  BY DEF Rng
<1>4. CASE r.Start <= c.End + 1
  <2> DEFINE d == [Start |-> c.Start, End |-> IF r.End > c.End THEN r.End ELSE c.End]
  <2>1. a = [merged |-> m, current |-> d]
    <3>1. c = [Start |-> c.Start, End |-> c.End]
      BY <1>1 DEF Rng
    <3> QED
      BY <1>1, <1>4, <3>1 DEF MergeStep
  <2>2. d \in Rng
    BY <1>2, <1>3 DEF Rng
  <2>3. a \in Acc /\ a.merged = m /\ a.current = d /\ d.Start = c.Start
    BY <1>1, <2>1, <2>2 DEF Acc
  <2>4. ASSUME c.Start <= r.Start PROVE Span(d) = Span(c) \cup Span(r)
    BY <1>2, <1>3, <1>4, <2>4 DEF Span
  <2> HIDE DEF c, m, a, d
  <2>5. ASSUME Separated(Append(m, c)) PROVE Separated(Append(m, d))
    BY <1>1, <2>2, <2>3, <2>5, SeparatedAppend
  <2>6. ASSUME c.Start <= r.Start PROVE Covered(Append(m, d)) = Covered(Append(m, c)) \cup Span(r)
    BY <1>1, <2>2, <2>4, <2>6, CoveredAppend
  <2>7. Joined(a) = Append(m, d) /\ Joined(acc) = Append(m, c)
    BY <2>3 DEF Joined, m, c
  <2>8. acc.current.Start <= r.Start <=> c.Start <= r.Start
    BY DEF c
  <2> QED
    BY <2>3, <2>5, <2>6, <2>7, <2>8 DEF a
<1>5. CASE ~ (r.Start <= c.End + 1)
  <2>1. a = [merged |-> Append(m, c), current |-> r]
    BY <1>5 DEF MergeStep
  <2>2. Append(m, c) \in Seq(Rng)
    BY <1>1
  <2>3. a \in Acc /\ Joined(a) = Append(Append(m, c), r) /\ a.current = r
    BY <2>1, <2>2 DEF Acc, Joined
  <2>4. ASSUME Separated(Append(m, c)) PROVE Separated(Append(Append(m, c), r))
    <3> DEFINE s == Append(m, c)
    <3>1. ASSUME NEW i \in DOMAIN s PROVE s[i].End + 1 < r.Start
      <4>1. i \in DOMAIN m \/ s[i] = c
        BY <1>1, AppendFacts
      <4>2. CASE i \in DOMAIN m
        <5>1. m[i].End + 1 < c.Start
          BY <1>1, <2>4, <4>2, SeparatedAppend
        <5>2. s[i] = m[i] /\ m[i].End \in Int
          BY <1>1, <4>2 DEF Rng
        <5>3. c.Start <= r.Start
          BY <1>2, <1>3, <1>5
        <5> QED
          BY <1>2, <1>3, <5>1, <5>2, <5>3
      <4>3. CASE s[i] = c
        BY <1>2, <1>3, <1>5, <4>3
      <4> QED
        BY <4>1, <4>2, <4>3
    <3> HIDE DEF s
    <3>2. s \in Seq(Rng) /\ Separated(s)
      BY <2>2, <2>4 DEF s
    <3>3. Separated(Append(s, r))
      BY <3>1, <3>2, SeparatedAppend
    <3> QED
      BY <3>3 DEF s
  <2>5. Covered(Append(Append(m, c), r)) = Covered(Append(m, c)) \cup Span(r)
    <3> DEFINE s == Append(m, c)
    <3>1. s \in Seq(Rng)
      BY <2>2
    <3> HIDE DEF s
    <3>2. Covered(Append(s, r)) = Covered(s) \cup Span(r)
      BY <3>1, CoveredAppend
    <3> QED
      BY <3>2 DEF s
  <2>6. Joined(acc) = Append(m, c)
    BY DEF Joined
  <2>7. a.current.Start <= r.Start
    BY <1>3, <2>3
  <2> HIDE DEF a, m, c
  <2>8. /\ a \in Acc
        /\ Separated(Joined(acc)) =>
              /\ Separated(Joined(a)) /\ Covered(Joined(a)) = Covered(Joined(acc)) \cup Span(r)
              /\ a.current.Start <= r.Start
    BY <2>3, <2>4, <2>5, <2>6, <2>7
  <2> QED
    BY <2>8 DEF a
<1> QED
  BY <1>4, <1>5
\* MergeRanges returns the same bytes as separated ranges.
LEMMA MergeFacts ==
  ASSUME NEW rs \in Seq(Rng)
  PROVE  /\ MergeRanges(rs) \in Seq(Rng)
         /\ Separated(MergeRanges(rs))
         /\ Covered(MergeRanges(rs)) = Covered(rs)
<1>1. CASE rs = <<>>
  BY <1>1 DEF MergeRanges, Separated, Covered
<1>2. CASE rs # <<>>
  <2> DEFINE sorted == Sorted(rs)
             N == Len(rs) - 1
             Body(f) == [i \in 0 .. N |-> IF i = 0 THEN [merged |-> <<>>, current |-> Head(sorted)]
                                          ELSE MergeStep(f[i - 1], sorted[i + 1])]
             g == CHOOSE f : f = Body(f)
             base == [merged |-> <<>>, current |-> Head(sorted)]
             step == [p \in Acc \X (1 .. N) |-> MergeStep(p[1], sorted[p[2] + 1])]
  <2>1. /\ sorted \in Seq(Rng) /\ Len(sorted) = Len(rs) /\ Range(sorted) = Range(rs)
        /\ Ascending(sorted)
    BY SortedFacts
  <2>2. MergeRanges(rs) = Joined(g[N])
    BY <1>2 DEF MergeRanges, Joined
  <2> HIDE DEF sorted
  <2>3. N \in Nat /\ \A i \in 0 .. N : i + 1 \in DOMAIN sorted /\ sorted[i + 1] \in Rng
    BY <1>2, <2>1
  <2>4. base \in Acc /\ Head(sorted) = sorted[1]
    BY <1>2, <2>1 DEF Acc
  <2>5. step \in [Acc \X (1 .. N) -> Acc]
    <3>1. ASSUME NEW p \in Acc \X (1 .. N) PROVE MergeStep(p[1], sorted[p[2] + 1]) \in Acc
      <4>1. p[1] \in Acc /\ p[2] \in 1 .. N
        OBVIOUS
      <4>2. p[2] \in 0 .. N
        BY <4>1
      <4>3. sorted[p[2] + 1] \in Rng
        BY <2>3, <4>2
      <4> QED
        BY <4>1, <4>3, StepFacts
    <3> QED
      BY <3>1
  <2> HIDE DEF N
  <2>6. \E f : f = Body(f)
    <3>1. PICK f : Recursive(f, N, Acc, base, step)
      <4> HIDE DEF step, base
      <4> QED
        BY <2>3, <2>4, <2>5, Recursion
    <3>2. ASSUME NEW n \in 1 .. N PROVE f[n] = MergeStep(f[n - 1], sorted[n + 1])
      <4>1. n - 1 \in 0 .. N
        BY <2>3
      <4>2. <<f[n - 1], n>> \in Acc \X (1 .. N)
        BY <3>1, <4>1 DEF Recursive
      <4> QED
        BY <3>1, <4>2 DEF Recursive
    <3>3. ASSUME NEW n \in 0 .. N
          PROVE  f[n] = IF n = 0 THEN base ELSE MergeStep(f[n - 1], sorted[n + 1])
      <4>1. n = 0 \/ n \in 1 .. N
        BY <2>3
      <4> QED
        BY <3>1, <3>2, <4>1 DEF Recursive
    <3>4. f = Body(f)
      BY <3>1, <3>3 DEF Recursive
    <3> QED
      BY <3>4
  <2>7. g = Body(g)
    <3> HIDE DEF Body
    <3> QED
      BY <2>6
  <2> HIDE DEF g
  <2>8. g[0] = base
    <3>1. 0 \in 0 .. N
      BY <2>3
    <3> QED
      BY <2>7, <3>1
  <2>9. ASSUME NEW n \in 0 .. N - 1 PROVE g[n + 1] = MergeStep(g[n], sorted[n + 2])
    <3>1. n + 1 \in 0 .. N /\ n + 1 # 0 /\ (n + 1) - 1 = n /\ (n + 1) + 1 = n + 2
      BY <2>3
    <3> QED
      BY <2>7, <3>1
  <2> HIDE DEF Body, step
  <2> DEFINE Seen(n) == UNION {Span(sorted[k]) : k \in 1 .. n}
             Good(n) == /\ g[n] \in Acc /\ Separated(Joined(g[n]))
                        /\ Covered(Joined(g[n])) = Seen(n + 1)
                        /\ g[n].current.Start <= sorted[n + 1].Start
             P == {n \in 0 .. N : Good(n)}
  <2>10. 0 \in P
    <3>1. sorted[1] \in Rng /\ 0 \in 0 .. N
      BY <2>3
    <3>2. Joined(base) = Append(<<>>, sorted[1])
      BY <2>4 DEF Joined
    <3>3. Append(<<>>, sorted[1]) = <<sorted[1]>>
      OBVIOUS
    <3>4. Separated(<<sorted[1]>>)
      BY DEF Separated
    <3>5. Covered(<<sorted[1]>>) = Span(sorted[1]) /\ Seen(1) = Span(sorted[1])
      BY DEF Covered
    <3>6. base.current.Start <= sorted[1].Start
      BY <2>4, <3>1 DEF Rng
    <3>7. Good(0)
      BY <2>4, <2>8, <3>2, <3>3, <3>4, <3>5, <3>6
    <3> QED
      BY <3>1, <3>7
  <2>11. ASSUME NEW n \in 0 .. N - 1, n \in P PROVE n + 1 \in P
    <3>1. Good(n)
      BY <2>11
    <3>2. /\ n \in 0 .. N /\ n + 1 \in 0 .. N /\ n \in Nat
          /\ (n + 1) + 1 = n + 2 /\ n + 1 <= n + 2
      BY <2>3
    <3>3. /\ n + 1 \in DOMAIN sorted /\ n + 2 \in DOMAIN sorted
          /\ sorted[n + 1] \in Rng /\ sorted[n + 2] \in Rng
      BY <2>3, <3>2
    <3>4. g[n].current.Start <= sorted[n + 2].Start
      <4>1. sorted[n + 1].Start <= sorted[n + 2].Start
        BY <2>1, <3>2, <3>3 DEF Ascending
      <4>2. g[n].current.Start \in Nat /\ sorted[n + 1].Start \in Nat /\ sorted[n + 2].Start \in Nat
        BY <3>1, <3>3 DEF Acc, Rng
      <4> HIDE DEF Good
      <4>3. g[n].current.Start <= sorted[n + 1].Start
        BY <3>1 DEF Good
      <4> QED
        BY <4>1, <4>2, <4>3
    <3>5. /\ MergeStep(g[n], sorted[n + 2]) \in Acc
          /\ Separated(Joined(MergeStep(g[n], sorted[n + 2])))
          /\ Covered(Joined(MergeStep(g[n], sorted[n + 2])))
               = Covered(Joined(g[n])) \cup Span(sorted[n + 2])
          /\ MergeStep(g[n], sorted[n + 2]).current.Start <= sorted[n + 2].Start
      BY <3>1, <3>3, <3>4, StepFacts
    <3>6. Seen(n + 1) \cup Span(sorted[n + 2]) = Seen(n + 2)
      <4>1. 1 .. n + 2 = (1 .. n + 1) \cup {n + 2}
        BY <3>2
      <4> QED
        BY <4>1
    <3> HIDE DEF Seen
    <3>7. Good(n + 1)
      BY <2>9, <3>1, <3>2, <3>5, <3>6
    <3> QED
      BY <3>2, <3>7
  <2> HIDE DEF P
  <2>12. Good(N)
    <3>1. N \in 0 .. N
      BY <2>3
    <3>2. N \in P
      BY <2>3, <2>10, <2>11, <3>1, Induction
    <3> QED
      BY <3>2 DEF P
  <2>13. Covered(rs) = Seen(N + 1)
    <3>1. N + 1 = Len(sorted)
      BY <2>1 DEF N
    <3>2. DOMAIN sorted = 1 .. N + 1
      BY <2>1, <3>1
    <3>3. \A s : Covered(s) = UNION {Span(r) : r \in Range(s)}
      BY DEF Covered, Range
    <3>4. Covered(rs) = Covered(sorted)
      BY <2>1, <3>3
    <3> QED
      BY <3>2, <3>4 DEF Covered
  <2>14. Joined(g[N]) \in Seq(Rng)
    BY <2>12 DEF Joined, Acc
  <2> QED
    BY <2>2, <2>12, <2>13, <2>14
<1> QED
  BY <1>1, <1>2

-----------------------------------------------------------------------------
(* The specification.                                                        *)

\* The inductive invariant: the list holds well-formed ranges, every range
\* ends before the next one starts with a byte to spare, and together they
\* are the recorded bytes.
Inv == /\ ranges \in Seq(Rng)
       /\ Separated(ranges)
       /\ Covered(ranges) = bytes

LEMMA InvInductive == Spec => []Inv
<1>1. Init => Inv
  BY DEF Init, Inv, Separated, Covered
<1>2. Inv /\ [Next]_vars => Inv'
  <2> SUFFICES ASSUME Inv, [Next]_vars PROVE Inv'
    OBVIOUS
  <2>1. CASE \E start \in Bytes : \E progress \in 0 .. Length - start :
               UpdateCacheMetadata(start, progress)
    <3>1. PICK start \in Bytes : \E progress \in 0 .. Length - start :
                 UpdateCacheMetadata(start, progress)
      BY <2>1
    <3>2. PICK progress \in 0 .. Length - start : UpdateCacheMetadata(start, progress)
      BY <3>1
    <3> DEFINE new == CacheRangeSpec(start, start + progress - 1)
               rs == Append(ranges, new)
    <3>3. new \in Rng
      BY LengthAssumption DEF CacheRangeSpec, Rng, Bytes
    <3>4. rs \in Seq(Rng) /\ Covered(rs) = Covered(ranges) \cup Span(new)
      BY <3>3, CoveredAppend DEF Inv
    <3>5. ranges' = MergeRanges(rs) /\ bytes' = bytes \cup Span(new)
      BY <3>2 DEF UpdateCacheMetadata
    <3> HIDE DEF new, rs
    <3>6. /\ ranges' \in Seq(Rng) /\ Separated(ranges') /\ Covered(ranges') = Covered(rs)
      BY <3>4, <3>5, MergeFacts
    <3> QED
      BY <3>4, <3>5, <3>6 DEF Inv
  <2>2. CASE StartAfresh
    BY <2>2 DEF StartAfresh, Inv, Separated, Covered
  <2>3. CASE UNCHANGED vars
    BY <2>3 DEF vars, Inv
  <2> QED
    BY <2>1, <2>2, <2>3 DEF Next
<1> QED
  BY <1>1, <1>2, PTL DEF Spec

\* Merging neither loses a byte nor claims one that was not recorded
\* (MergeRanges, cache.go:181), however many ranges were recorded, in any
\* order, of a resource of any length.
THEOREM MergedExactly == Spec => []RangesExact
<1>1. Inv => RangesExact
  BY DEF Inv, RangesExact
<1> QED
  BY <1>1, InvInductive, PTL

\* After every update the list is sorted, and neighbours neither overlap nor
\* touch (MergeRanges, cache.go:181).
THEOREM MergedApart == Spec => []RangesSeparated
<1>1. Inv => RangesSeparated
  <2> SUFFICES ASSUME Inv, NEW i \in 1 .. Len(ranges) - 1
               PROVE  ranges[i].End + 1 < ranges[i + 1].Start
    BY DEF RangesSeparated
  <2>1. i \in DOMAIN ranges /\ i + 1 \in DOMAIN ranges /\ i < i + 1
    BY DEF Inv
  <2> QED
    BY <2>1 DEF Inv, Separated
<1> QED
  BY <1>1, InvInductive, PTL
-----------------------------------------------------------------------------
(* Looking a request up.                                                     *)

\* The first range that decides settles the request; every range before it,
\* or every range when none decides, ends before both ends of the request.
LEMMA LookupFacts ==
  ASSUME NEW s \in Seq(Rng), NEW request, Resolve(request) \in [Start : Int, End : Int]
  PROVE  LET req == Resolve(request)
             Past(i) == s[i].End < req.Start /\ s[i].End < req.End
         IN \/ /\ GetCachedRange(s, request) = <<FALSE, req>>
               /\ \A i \in DOMAIN s : Past(i)
            \/ \E d \in DOMAIN s : /\ GetCachedRange(s, request) = Decide(req, s[d])
                                   /\ Decides(req, s[d])
                                   /\ \A i \in DOMAIN s : i < d => Past(i)
<1> DEFINE req == Resolve(request)
           Past(i) == s[i].End < req.Start /\ s[i].End < req.End
           I == {i \in 1 .. Len(s) : Decides(req, s[i])}
           d == Min(I)
<1>1. /\ DOMAIN s = 1 .. Len(s) /\ Len(s) \in Nat /\ req.Start \in Int /\ req.End \in Int
      /\ \A i \in DOMAIN s : s[i].Start \in Nat /\ s[i].End \in Int
  BY DEF Rng
<1>2. GetCachedRange(s, request) = IF (IF I # {} THEN d ELSE 0) = 0 THEN <<FALSE, req>>
                                   ELSE Decide(req, s[IF I # {} THEN d ELSE 0])
  BY DEF GetCachedRange, SelectInSeq
<1> HIDE DEF req
<1>3. ASSUME NEW i \in DOMAIN s, i \notin I PROVE Past(i)
  <2>1. ~ Decides(req, s[i])
    BY <1>1, <1>3
  <2> QED
    BY <1>1, <2>1 DEF Decides
<1>4. CASE I = {}
  BY <1>2, <1>3, <1>4 DEF req
<1>5. CASE I # {}
  <2>1. I \in SUBSET (1 .. Len(s))
    OBVIOUS
  <2>2. d \in I /\ \A i \in I : d <= i
    <3> HIDE DEF I
    <3> QED
      BY <1>1, <1>5, <2>1, MinFacts
  <2> HIDE DEF d
  <2>3. d \in DOMAIN s /\ Decides(req, s[d]) /\ d # 0 /\ d \in Nat
    BY <1>1, <2>2
  <2>4. \A i \in DOMAIN s : i < d => i \notin I
    BY <1>1, <2>2, <2>3
  <2>5. \A i \in DOMAIN s : i < d => Past(i)
    BY <1>3, <2>4
  <2>6. GetCachedRange(s, request) = Decide(req, s[d])
    BY <1>2, <1>5, <2>3
  <2> QED
    BY <2>3, <2>5, <2>6 DEF req
<1> QED
  BY <1>4, <1>5

\* Which bytes of a separated list lie beside one of its ranges.
LEMMA Beside ==
  ASSUME NEW s \in Seq(Rng), Separated(s), NEW d \in DOMAIN s, NEW x \in Int
  PROVE  /\ x \in Span(s[d]) => x \in Covered(s)
         /\ (x < s[d].Start /\ \A i \in DOMAIN s : i < d => s[i].End < x) => x \notin Covered(s)
         /\ x = s[d].End + 1 => x \notin Covered(s)
<1>1. /\ DOMAIN s = 1 .. Len(s) /\ d \in Nat
      /\ \A i \in DOMAIN s : s[i].Start \in Nat /\ s[i].End \in Int /\ s[i].End >= s[i].Start - 1
  BY DEF Rng
<1>2. x \in Span(s[d]) => x \in Covered(s)
  BY DEF Covered
<1>3. ASSUME x < s[d].Start, \A i \in DOMAIN s : i < d => s[i].End < x, NEW i \in DOMAIN s
      PROVE  x \notin Span(s[i])
  <2>1. i < d \/ i = d \/ d < i
    BY <1>1
  <2>2. d < i => s[d].End + 1 < s[i].Start
    BY DEF Separated
  <2> QED
    BY <1>1, <1>3, <2>1, <2>2 DEF Span
<1>4. ASSUME x = s[d].End + 1, NEW i \in DOMAIN s PROVE x \notin Span(s[i])
  <2>1. i < d \/ i = d \/ d < i
    BY <1>1
  <2>2. d < i => s[d].End + 1 < s[i].Start
    BY DEF Separated
  <2>3. i < d => s[i].End + 1 < s[d].Start
    BY DEF Separated
  <2> QED
    BY <1>1, <1>4, <2>1, <2>2, <2>3 DEF Span
<1> QED
  BY <1>2, <1>3, <1>4 DEF Covered

\* Nothing is cached past the ends of all ranges.
LEMMA Beyond ==
  ASSUME NEW s \in Seq(Rng), NEW x \in Int, \A i \in DOMAIN s : s[i].End < x
  PROVE  x \notin Covered(s)
<1>1. \A i \in DOMAIN s : s[i].Start \in Nat /\ s[i].End \in Int
  BY DEF Rng
<1> QED
  BY <1>1 DEF Covered, Span

\* The branches of Decide.
LEMMA Branches ==
  ASSUME NEW req, NEW r, req.Start \in Int, req.End \in Int, r.Start \in Int, r.End \in Int
  PROVE  /\ req.End < r.Start => Decide(req, r) = <<FALSE, req>>
         /\ req.End >= r.Start /\ req.Start < r.Start =>
              Decide(req, r) = <<FALSE, CacheRangeSpec(req.Start, r.Start - 1)>>
         /\ req.Start >= r.Start /\ req.End >= r.Start /\ req.End <= r.End =>
              Decide(req, r) = <<TRUE, req>>
         /\ req.Start >= r.Start /\ req.End >= r.Start /\ req.End > r.End =>
              Decide(req, r) = <<TRUE, CacheRangeSpec(req.Start, r.End)>>
<1> DEFINE miss == <<FALSE, req>>
           partMiss == <<FALSE, CacheRangeSpec(req.Start, r.Start - 1)>>
           hit == <<TRUE, req>>
           partHit == <<TRUE, CacheRangeSpec(req.Start, r.End)>>
<1>1. Decide(req, r) = IF req.End < r.Start THEN miss
                       ELSE IF req.Start < r.Start THEN partMiss
                       ELSE IF req.End <= r.End THEN hit ELSE partHit
  BY Zenon DEF Decide
<1> HIDE DEF miss, partMiss, hit, partHit
<1>2. /\ req.End < r.Start => Decide(req, r) = miss
      /\ req.End >= r.Start /\ req.Start < r.Start => Decide(req, r) = partMiss
      /\ req.Start >= r.Start /\ req.End >= r.Start /\ req.End <= r.End => Decide(req, r) = hit
      /\ req.Start >= r.Start /\ req.End >= r.Start /\ req.End > r.End => Decide(req, r) = partHit
  BY <1>1
<1> QED
  BY <1>2, Zenon DEF miss, partMiss, hit, partHit

\* What GetCachedRange answers from a separated list.
LEMMA AnswerFacts ==
  ASSUME NEW s \in Seq(Rng), Separated(s),
         NEW request, Resolve(request) \in [Start : Int, End : Int]
  PROVE  LET req    == Resolve(request)
             answer == GetCachedRange(s, request)
             upto   == answer[2].End
         IN /\ answer[2].Start = req.Start
            /\ IF answer[1] THEN Span(answer[2]) \subseteq Covered(s)
                            ELSE Span(answer[2]) \cap Covered(s) = {}
            /\ IF req.Start <= req.End
                 THEN /\ answer[1] <=> req.Start \in Covered(s)
                      /\ answer[1] => upto = req.End \/ upto + 1 \notin Covered(s)
                 ELSE /\ answer[1] <=> req.End \in Covered(s)
                      /\ answer[2] = req
<1> DEFINE req == Resolve(request)
           answer == GetCachedRange(s, request)
           upto == answer[2].End
           Goal == /\ answer[2].Start = req.Start
                   /\ IF answer[1] THEN Span(answer[2]) \subseteq Covered(s)
                            ELSE Span(answer[2]) \cap Covered(s) = {}
                   /\ IF req.Start <= req.End
                        THEN /\ answer[1] <=> req.Start \in Covered(s)
                             /\ answer[1] => upto = req.End \/ upto + 1 \notin Covered(s)
                        ELSE /\ answer[1] <=> req.End \in Covered(s)
                             /\ answer[2] = req
           Past(i) == s[i].End < req.Start /\ s[i].End < req.End
<1>1. req.Start \in Int /\ req.End \in Int
  OBVIOUS
<1>2. \A i \in DOMAIN s : s[i].Start \in Nat /\ s[i].End \in Int /\ s[i].End >= s[i].Start - 1
  BY DEF Rng
<1>3. \/ answer = <<FALSE, req>> /\ \A i \in DOMAIN s : Past(i)
      \/ \E d \in DOMAIN s : /\ answer = Decide(req, s[d])
                             /\ Decides(req, s[d])
                             /\ \A i \in DOMAIN s : i < d => Past(i)
  BY LookupFacts
<1> HIDE DEF req, answer
<1>4. ASSUME answer = <<FALSE, req>>, \A i \in DOMAIN s : Past(i) PROVE Goal
  <2>1. ASSUME NEW x \in Int, x >= req.Start \/ x >= req.End PROVE x \notin Covered(s)
    <3>1. \A i \in DOMAIN s : s[i].End < x
      BY <1>1, <1>2, <1>4, <2>1
    <3> QED
      BY <3>1, Beyond
  <2>2. Span(req) \cap Covered(s) = {}
    BY <1>1, <2>1 DEF Span
  <2> QED
    BY <1>1, <1>4, <2>1, <2>2
<1>5. ASSUME NEW d \in DOMAIN s, answer = Decide(req, s[d]), Decides(req, s[d]),
             \A i \in DOMAIN s : i < d => Past(i)
      PROVE  Goal
  <2> DEFINE r == s[d]
  <2>1. r.Start \in Int /\ r.Start >= 0 /\ r.End \in Int /\ r.End >= r.Start - 1
    BY <1>2
  <2>2. ASSUME NEW x \in Int, x >= req.Start \/ x >= req.End, x < r.Start
        PROVE  x \notin Covered(s)
    <3>1. \A i \in DOMAIN s : i < d => s[i].End < x
      BY <1>1, <1>2, <1>5, <2>2
    <3> QED
      BY <2>2, <3>1, Beside
  <2>3. ASSUME NEW x \in Int, r.Start <= x, x <= r.End PROVE x \in Covered(s)
    BY <2>1, <2>3, Beside DEF Span
  <2>4. r.End + 1 \notin Covered(s)
    BY <2>1, Beside
  <2> HIDE DEF r
  <2>5. answer = Decide(req, r) /\ Decides(req, r)
    BY <1>5 DEF r
  <2>6. CASE req.End < r.Start
    <3>1. answer = <<FALSE, req>>
      BY <1>1, <2>1, <2>5, <2>6, Branches, Zenon
    <3>2. Span(req) \cap Covered(s) = {}
      BY <1>1, <2>1, <2>2, <2>6 DEF Span
    <3>3. req.End \notin Covered(s)
      BY <1>1, <2>1, <2>2, <2>6
    <3>4. req.Start <= req.End => req.Start \notin Covered(s)
      BY <1>1, <2>1, <2>2, <2>6
    <3> QED
      BY <1>1, <3>1, <3>2, <3>3, <3>4
  <2>7. CASE req.End >= r.Start /\ req.Start < r.Start
    <3> DEFINE part == CacheRangeSpec(req.Start, r.Start - 1)
    <3>1. answer = <<FALSE, part>>
      BY <1>1, <2>1, <2>5, <2>7, Branches, Zenon
    <3>2. part.Start = req.Start /\ part.End = r.Start - 1
      BY DEF CacheRangeSpec
    <3> HIDE DEF part
    <3>3. Span(part) \cap Covered(s) = {}
      BY <1>1, <2>1, <2>2, <3>2 DEF Span
    <3>4. req.Start \notin Covered(s) /\ req.Start <= req.End
      BY <1>1, <2>1, <2>2, <2>7
    <3> QED
      BY <1>1, <3>1, <3>2, <3>3, <3>4
  <2>8. CASE req.Start >= r.Start /\ req.End >= r.Start /\ req.End <= r.End
    <3>1. answer = <<TRUE, req>>
      BY <1>1, <2>1, <2>5, <2>8, Branches, Zenon
    <3>2. Span(req) \subseteq Covered(s)
      BY <1>1, <2>1, <2>3, <2>8 DEF Span
    <3>3. req.End \in Covered(s)
      BY <1>1, <2>1, <2>3, <2>8
    <3>4. req.Start <= req.End => req.Start \in Covered(s)
      BY <1>1, <2>1, <2>3, <2>8
    <3> QED
      BY <1>1, <3>1, <3>2, <3>3, <3>4
  <2>9. CASE req.Start >= r.Start /\ req.End >= r.Start /\ req.End > r.End
    <3> DEFINE part == CacheRangeSpec(req.Start, r.End)
    <3>1. answer = <<TRUE, part>>
      BY <1>1, <2>1, <2>5, <2>9, Branches, Zenon
    <3>2. part.Start = req.Start /\ part.End = r.End
      BY DEF CacheRangeSpec
    <3>3. req.Start <= r.End
      BY <1>1, <2>1, <2>5, <2>9 DEF Decides
    <3> HIDE DEF part
    <3>4. Span(part) \subseteq Covered(s)
      BY <1>1, <2>1, <2>3, <2>9, <3>2 DEF Span
    <3>5. req.Start \in Covered(s) /\ req.Start <= req.End
      BY <1>1, <2>1, <2>3, <2>9, <3>3
    <3> QED
      BY <1>1, <2>4, <3>1, <3>2, <3>4, <3>5
  <2> QED
    BY <1>1, <2>1, <2>6, <2>7, <2>8, <2>9
<1>6. Goal
  BY <1>3, <1>4, <1>5
<1> QED
  BY <1>6 DEF req, answer

LEMMA RequestResolves ==
  ASSUME NEW request \in Requests
  PROVE  Resolve(request) \in [Start : Int, End : Int] /\ Resolve(request).Start = request.Start
BY LengthAssumption DEF Requests, Resolve, CacheRangeSpec

\* A hit is answered with cached bytes only, a miss with uncached bytes only,
\* from the request's first byte on (GetCachedRange, cache.go:209).
THEOREM LookupsUniform == Spec => []LookupUniform
<1>1. Inv => LookupUniform
  <2> SUFFICES ASSUME Inv, NEW req \in Requests
               PROVE  LET answer == GetCachedRange(ranges, req)
                      IN /\ answer[2].Start = req.Start
                         /\ IF answer[1] THEN Span(answer[2]) \subseteq bytes
                                         ELSE Span(answer[2]) \cap bytes = {}
    BY DEF LookupUniform
  <2> QED
    BY RequestResolves, AnswerFacts DEF Inv
<1> QED
  BY <1>1, InvInductive, PTL

\* GetCachedRange computes from the list what Cache.tla computes from the set
\* of cached bytes: the set-level model of the cache is a sound abstraction of
\* the list (GetCachedRange, cache.go:209).
THEOREM LookupsMatchSet == Spec => []LookupMatchesSet
<1>1. Inv => LookupMatchesSet
  <2> SUFFICES ASSUME Inv, NEW request \in Requests
               PROVE  LET req    == Resolve(request)
                          answer == GetCachedRange(ranges, request)
                          upto   == answer[2].End
                      IN IF req.Start <= req.End
                           THEN /\ answer[1] <=> req.Start \in bytes
                                /\ answer[1] => upto = req.End \/ upto + 1 \notin bytes
                           ELSE /\ answer[1] <=> req.End \in bytes
                                /\ answer[2] = req
    BY DEF LookupMatchesSet
  <2> QED
    BY RequestResolves, AnswerFacts DEF Inv
<1> QED
  BY <1>1, InvInductive, PTL
=============================================================================
