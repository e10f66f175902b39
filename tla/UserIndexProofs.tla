-------------------------- MODULE UserIndexProofs --------------------------
(***************************************************************************)
(* Proofs about UserIndex.tla for any finite sets of users and roles.      *)
(***************************************************************************)
EXTENDS UserIndex, FiniteSetTheorems, WellFoundedInduction, TLAPS

-----------------------------------------------------------------------------
(* Induction and recursion.                                                *)

\* What holds of 0 and of n + 1 whenever it holds of n < N holds up to N.
LEMMA Induction ==
  ASSUME NEW N \in Nat, NEW P, 0 \in P, \A n \in 0 .. N - 1 : n \in P => n + 1 \in P
  PROVE  \A n \in 0 .. N : n \in P
<1> DEFINE R == OpToRel(<, Nat)
           Others == (0 .. N) \ P
<1>1. R = {p \in Nat \X Nat : p[1] < p[2]}
  BY DEF OpToRel
<1>2. IsWellFoundedOn(R, Nat)
  BY NatLessThanWellFounded
<1> HIDE DEF R
<1> SUFFICES ASSUME Others # {} PROVE FALSE
  OBVIOUS
<1>3. PICK x \in Others : \A y \in Others : ~ (<<y, x>> \in R)
  <2>1. Others \subseteq Nat
    OBVIOUS
  <2> HIDE DEF Others
  <2> QED
    BY <1>2, <2>1, WFMin
<1>4. x # 0 /\ x \in Nat /\ x - 1 \in 0 .. N - 1
  OBVIOUS
<1>5. <<x - 1, x>> \in R
  BY <1>1, <1>4
<1>6. x - 1 \in P
  BY <1>3, <1>4, <1>5
<1> QED
  BY <1>4, <1>6

\* f is what base and step define on 0 .. N.
Recursive(f, N, A, base, step) ==
  /\ f \in [0 .. N -> A]
  /\ f[0] = base
  /\ \A n \in 1 .. N : f[n] = step[<<f[n - 1], n>>]

\* Functions defined by recursion exist.
LEMMA Recursion ==
  ASSUME NEW N \in Nat, NEW A, NEW base \in A, NEW step \in [A \X (1 .. N) -> A]
  PROVE  \E f : Recursive(f, N, A, base, step)
<1> DEFINE Good(f, n) == /\ f \in [0 .. n -> A] /\ f[0] = base
                         /\ \A k \in 1 .. n : f[k] = step[<<f[k - 1], k>>]
           P == {n \in 0 .. N : \E f : Good(f, n)}
<1>1. 0 \in P
  <2> DEFINE f == [k \in 0 .. 0 |-> base]
  <2>1. Good(f, 0)
    OBVIOUS
  <2>2. 0 \in 0 .. N
    OBVIOUS
  <2> HIDE DEF f, Good
  <2> QED
    BY <2>1, <2>2
<1>2. ASSUME NEW n \in 0 .. N - 1, n \in P PROVE n + 1 \in P
  <2>1. PICK f : Good(f, n)
    BY <1>2
  <2> DEFINE last == step[<<f[n], n + 1>>]
             g == [k \in 0 .. n + 1 |-> IF k = n + 1 THEN last ELSE f[k]]
  <2>2. f[n] \in A /\ n + 1 \in 1 .. N
    BY <2>1
  <2>3. last \in A
    BY <2>2
  <2>4. \A k \in 0 .. n : k # n + 1 /\ k \in 0 .. n + 1
    OBVIOUS
  <2>5. g[n + 1] = last /\ \A k \in 0 .. n : g[k] = f[k]
    <3> HIDE DEF last
    <3> QED
      BY <2>4
  <2>6. g \in [0 .. n + 1 -> A]
    <3>1. \A k \in 0 .. n + 1 : k = n + 1 \/ k \in 0 .. n
      OBVIOUS
    <3> HIDE DEF last
    <3> QED
      BY <2>1, <2>3, <3>1
  <2>7. ASSUME NEW k \in 1 .. n + 1 PROVE g[k] = step[<<g[k - 1], k>>]
    <3> HIDE DEF g
    <3>1. CASE k = n + 1
      <4>1. k - 1 = n /\ n \in 0 .. n
        BY <3>1
      <4> QED
        BY <2>5, <3>1, <4>1
    <3>2. CASE k \in 1 .. n
      <4>1. k \in 0 .. n /\ k - 1 \in 0 .. n
        BY <3>2
      <4>2. f[k] = step[<<f[k - 1], k>>]
        BY <2>1, <3>2
      <4> QED
        BY <2>5, <4>1, <4>2
    <3> QED
      BY <3>1, <3>2
  <2>8. g[0] = base
    <3> HIDE DEF g
    <3> QED
      BY <2>1, <2>5
  <2> HIDE DEF g
  <2>9. Good(g, n + 1)
    BY <2>6, <2>7, <2>8
  <2> HIDE DEF Good
  <2> QED
    BY <2>2, <2>9
<1> HIDE DEF P
<1>3. N \in P
  BY <1>1, <1>2, Induction
<1> QED
  BY <1>3 DEF P, Recursive

-----------------------------------------------------------------------------
(* The order of users.                                                     *)

\* What Before needs of the users it compares.
Named(us, ids) == \A u \in ids : us[u].name \in Nat /\ u \in Nat

LEMMA BeforeTotal ==
  ASSUME NEW us, NEW a, NEW b, NEW c, Named(us, {a, b, c})
  PROVE  /\ ~ Before(us, a, a)
         /\ Before(us, a, b) /\ Before(us, b, c) => Before(us, a, c)
         /\ a # b => Before(us, a, b) \/ Before(us, b, a)
         /\ Before(us, a, b) => ~ Before(us, b, a)
BY DEF Before, Named

-----------------------------------------------------------------------------
(* Binary search.                                                          *)

Places(group) == (0 .. Len(group)) \X (0 .. Len(group))

LEMMA HalveFacts ==
  ASSUME NEW us, NEW S, NEW group \in Seq(S), NEW id, NEW p \in Places(group)
  PROVE  /\ Halve(us, group, id, p) \in Places(group)
         /\ p[1] <= p[2] =>
              LET q == Halve(us, group, id, p)
              IN /\ q[1] <= q[2]
                 /\ p[1] = p[2] => q = p
                 /\ p[1] < p[2] => /\ q[2] - q[1] < p[2] - p[1]
                                   /\ \/ /\ q[1] = p[1] /\ q[2] < p[2] /\ p[1] <= q[2]
                                         /\ Before(us, id, group[q[2] + 1])
                                      \/ /\ q[2] = p[2] /\ p[1] < q[1]
                                         /\ ~ Before(us, id, group[q[1]])
<1> DEFINE i == p[1]
           j == p[2]
           h == (i + j) \div 2
           q == Halve(us, group, id, p)
           Goal == /\ q \in Places(group)
                   /\ i <= j =>
                        /\ q[1] <= q[2]
                        /\ i = j => q = p
                        /\ i < j => /\ q[2] - q[1] < j - i
                                    /\ \/ /\ q[1] = i /\ q[2] < j /\ i <= q[2]
                                          /\ Before(us, id, group[q[2] + 1])
                                       \/ /\ q[2] = j /\ i < q[1]
                                          /\ ~ Before(us, id, group[q[1]])
<1>1. i \in 0 .. Len(group) /\ j \in 0 .. Len(group) /\ p = <<i, j>> /\ Len(group) \in Nat
  BY DEF Places
<1>2. q = IF i >= j THEN p ELSE IF Before(us, id, group[h + 1]) THEN <<i, h>> ELSE <<h + 1, j>>
  BY DEF Halve
<1>3. i < j => h \in Nat /\ i <= h /\ h < j
  BY <1>1
<1> HIDE DEF q, h, i, j
<1>4. ASSUME i >= j PROVE Goal
  <2>1. q = p /\ q[1] = i /\ q[2] = j
    BY <1>2, <1>4 DEF i, j
  <2> QED
    BY <1>1, <1>4, <2>1
<1>5. ASSUME i < j /\ Before(us, id, group[h + 1]) PROVE Goal
  <2>1. q = <<i, h>>
    BY <1>1, <1>2, <1>5
  <2>2. q[1] = i /\ q[2] = h /\ q \in Places(group)
    BY <1>1, <1>3, <1>5, <2>1 DEF Places
  <2>3. h - i < j - i /\ h < j /\ i <= h
    BY <1>1, <1>3, <1>5
  <2> QED
    BY <1>1, <1>5, <2>2, <2>3
<1>6. ASSUME i < j /\ ~ Before(us, id, group[h + 1]) PROVE Goal
  <2>1. q = <<h + 1, j>>
    BY <1>1, <1>2, <1>6
  <2>2. q[1] = h + 1 /\ q[2] = j /\ q \in Places(group)
    BY <1>1, <1>3, <1>6, <2>1 DEF Places
  <2>3. j - (h + 1) < j - i /\ h + 1 <= j /\ i < h + 1
    BY <1>1, <1>3, <1>6
  <2> QED
    BY <1>1, <1>3, <1>6, <2>2, <2>3
<1>7. Goal
  BY <1>1, <1>4, <1>5, <1>6
<1> QED
  BY <1>7 DEF q, i, j
\* Where the user goes: id is not before the first k members, and before the others.
Splits(us, group, id, i, j) ==
  /\ \A k \in 1 .. i : ~ Before(us, id, group[k])
  /\ \A k \in j + 1 .. Len(group) : Before(us, id, group[k])

LEMMA HalveSplits ==
  ASSUME NEW us, NEW S, NEW group \in Seq(S), NEW id, NEW p \in Places(group),
         p[1] <= p[2], IsInOrder(us, group), Named(us, Range(group) \cup {id}),
         Splits(us, group, id, p[1], p[2])
  PROVE  LET q == Halve(us, group, id, p) IN Splits(us, group, id, q[1], q[2])
<1> DEFINE q == Halve(us, group, id, p)
<1>1. /\ p[1] \in 0 .. Len(group) /\ p[2] \in 0 .. Len(group) /\ Len(group) \in Nat
      /\ q \in Places(group) /\ q[1] \in 0 .. Len(group) /\ q[2] \in 0 .. Len(group)
  BY HalveFacts DEF Places
<1>2. DOMAIN group = 1 .. Len(group) /\ \A k \in 1 .. Len(group) : group[k] \in Range(group)
  BY DEF Range
<1>3. \A k, l \in 1 .. Len(group) : k < l => Before(us, group[k], group[l])
  BY <1>2 DEF IsInOrder
<1>4. \A k, l \in 1 .. Len(group) :
        Before(us, id, group[k]) /\ Before(us, group[k], group[l]) => Before(us, id, group[l])
  <2> SUFFICES ASSUME NEW k \in 1 .. Len(group), NEW l \in 1 .. Len(group)
               PROVE  Before(us, id, group[k]) /\ Before(us, group[k], group[l])
                        => Before(us, id, group[l])
    OBVIOUS
  <2>1. Named(us, {id, group[k], group[l]})
    BY <1>2 DEF Named
  <2> QED
    BY <2>1, BeforeTotal
<1>5. \/ p[1] = p[2] /\ q = p
      \/ q[1] = p[1] /\ q[2] < p[2] /\ Before(us, id, group[q[2] + 1])
      \/ q[2] = p[2] /\ p[1] < q[1] /\ ~ Before(us, id, group[q[1]])
  BY <1>1, HalveFacts
<1> HIDE DEF q
<1>6. CASE q = p
  BY <1>6 DEF q
<1>7. CASE q[1] = p[1] /\ q[2] < p[2] /\ Before(us, id, group[q[2] + 1])
  <2>1. ASSUME NEW k \in q[2] + 1 .. Len(group) PROVE Before(us, id, group[k])
    <3>1. k = q[2] + 1 \/ q[2] + 1 < k
      BY <1>1
    <3>2. q[2] + 1 \in 1 .. Len(group) /\ k \in 1 .. Len(group)
      BY <1>1, <1>7
    <3> QED
      BY <1>3, <1>4, <1>7, <3>1, <3>2
  <2> QED
    BY <1>7, <2>1 DEF Splits, q
<1>8. CASE q[2] = p[2] /\ p[1] < q[1] /\ ~ Before(us, id, group[q[1]])
  <2>1. ASSUME NEW k \in 1 .. q[1] PROVE ~ Before(us, id, group[k])
    <3>1. k = q[1] \/ k < q[1]
      BY <1>1
    <3>2. q[1] \in 1 .. Len(group) /\ k \in 1 .. Len(group)
      BY <1>1
    <3> QED
      BY <1>3, <1>4, <1>8, <3>1, <3>2
  <2> QED
    BY <1>8, <2>1 DEF Splits, q
<1> QED
  BY <1>5, <1>6, <1>7, <1>8

\* sort.Search: the number of members that stay before the user.
LEMMA SearchFacts ==
  ASSUME NEW us, NEW S, NEW group \in Seq(S), NEW id
  PROVE  LET k == Search(us, group, id)
         IN /\ k \in 0 .. Len(group)
            /\ IsInOrder(us, group) /\ Named(us, Range(group) \cup {id})
                 => Splits(us, group, id, k, k)
<1> DEFINE N == Len(group)
           A == Places(group)
           base == <<0, N>>
           step == [p \in A \X (1 .. N) |-> Halve(us, group, id, p[1])]
           Body(f) == [n \in 0 .. N |-> IF n = 0 THEN <<0, N>>
                                        ELSE Halve(us, group, id, f[n - 1])]
           g == CHOOSE f : f = Body(f)
<1>1. N \in Nat /\ base \in A
  BY DEF Places
<1>2. step \in [A \X (1 .. N) -> A]
  <2>1. \A p \in A \X (1 .. N) : Halve(us, group, id, p[1]) \in A
    BY HalveFacts
  <2> QED
    BY <2>1
<1>3. \E f : f = Body(f)
  <2>1. PICK f : Recursive(f, N, A, base, step)
    <3> HIDE DEF N, A, base, step
    <3> QED
      BY <1>1, <1>2, Recursion
  <2> HIDE DEF N, A
  <2>2. ASSUME NEW n \in 1 .. N PROVE f[n] = Halve(us, group, id, f[n - 1])
    <3>1. n - 1 \in 0 .. N
      BY <1>1
    <3>2. <<f[n - 1], n>> \in A \X (1 .. N)
      BY <2>1, <3>1 DEF Recursive
    <3> QED
      BY <2>1, <3>2 DEF Recursive
  <2>3. ASSUME NEW n \in 0 .. N
        PROVE  f[n] = IF n = 0 THEN <<0, N>> ELSE Halve(us, group, id, f[n - 1])
    <3>1. n = 0 \/ n \in 1 .. N
      BY <1>1
    <3> QED
      BY <2>1, <2>2, <3>1 DEF Recursive
  <2>4. f = Body(f)
    BY <2>1, <2>3 DEF Recursive
  <2> QED
    BY <2>4
<1>4. g = Body(g)
  <2> HIDE DEF Body
  <2> QED
    BY <1>3
<1>5. Search(us, group, id) = g[N][1]
  BY DEF Search
<1> HIDE DEF g
<1>6. g[0] = <<0, N>>
  <2>1. 0 \in 0 .. N
    BY <1>1
  <2> QED
    BY <1>4, <2>1
<1>7. ASSUME NEW n \in 0 .. N - 1 PROVE g[n + 1] = Halve(us, group, id, g[n])
  <2>1. n + 1 \in 0 .. N /\ n + 1 # 0 /\ (n + 1) - 1 = n
    BY <1>1
  <2> HIDE DEF N
  <2> QED
    BY <1>4, <2>1
<1> HIDE DEF Body, step
<1> DEFINE Ordered == IsInOrder(us, group) /\ Named(us, Range(group) \cup {id})
           Good(n) == /\ g[n] \in A /\ g[n][1] <= g[n][2] /\ g[n][2] - g[n][1] <= N - n
                      /\ Ordered => Splits(us, group, id, g[n][1], g[n][2])
           P == {n \in 0 .. N : Good(n)}
<1>8. 0 \in P
  <2>1. g[0] \in A /\ g[0][1] = 0 /\ g[0][2] = N /\ 0 \in 0 .. N
    BY <1>1, <1>6
  <2>2. Splits(us, group, id, 0, N)
    BY <1>1 DEF Splits
  <2> HIDE DEF N, A, Ordered
  <2> QED
    BY <1>1, <2>1, <2>2
<1>9. ASSUME NEW n \in 0 .. N - 1, n \in P PROVE n + 1 \in P
  <2> DEFINE p == g[n]
             q == g[n + 1]
  <2>1. /\ p \in A /\ p[1] <= p[2] /\ p[2] - p[1] <= N - n
        /\ Ordered => Splits(us, group, id, p[1], p[2])
    BY <1>9
  <2>2. q = Halve(us, group, id, p)
    BY <1>7
  <2>3. n + 1 \in 0 .. N /\ n \in Nat
    BY <1>1
  <2>4. /\ p[1] \in 0 .. N /\ p[2] \in 0 .. N
    BY <2>1 DEF Places
  <2> HIDE DEF p, q
  <2>5. q \in A
    BY <2>1, <2>2, HalveFacts
  <2>6. q[1] <= q[2] /\ (p[1] = p[2] => q = p) /\ (p[1] < p[2] => q[2] - q[1] < p[2] - p[1])
    BY <2>1, <2>2, HalveFacts
  <2>7. q[1] \in 0 .. N /\ q[2] \in 0 .. N
    BY <2>5 DEF Places
  <2>8. q[2] - q[1] <= N - (n + 1)
    <3> HIDE DEF N
    <3> QED
      BY <1>1, <2>1, <2>3, <2>4, <2>6, <2>7
  <2>9. Ordered => Splits(us, group, id, q[1], q[2])
    BY <2>1, <2>2, HalveSplits
  <2> HIDE DEF N, A, Ordered
  <2>10. Good(n + 1)
    BY <2>5, <2>6, <2>8, <2>9 DEF q
  <2> QED
    BY <2>3, <2>10
<1>10. Good(N)
  <2>1. N \in 0 .. N
    BY <1>1
  <2> HIDE DEF N, P
  <2>2. N \in P
    BY <1>1, <1>8, <1>9, <2>1, Induction
  <2> QED
    BY <2>2 DEF P
<1>11. g[N][1] \in 0 .. N /\ g[N][2] \in 0 .. N
  BY <1>10 DEF Places
<1>12. g[N][1] = g[N][2]
  <2> HIDE DEF N
  <2> QED
    BY <1>1, <1>10, <1>11
<1> QED
  BY <1>5, <1>10, <1>11, <1>12

-----------------------------------------------------------------------------
(* Putting a user into a group and taking one out.                         *)

LEMMA ConcatFacts ==
  ASSUME NEW S, NEW a \in Seq(S), NEW b \in Seq(S)
  PROVE  /\ a \o b \in Seq(S) /\ Len(a \o b) = Len(a) + Len(b)
         /\ \A i \in 1 .. Len(a) : (a \o b)[i] = a[i]
         /\ \A i \in 1 .. Len(b) : (a \o b)[Len(a) + i] = b[i]
OBVIOUS

LEMMA InsertPlaces ==
  ASSUME NEW S, NEW s \in Seq(S), NEW x \in S, NEW k \in 0 .. Len(s)
  PROVE  /\ InsertAt(s, k + 1, x) \in Seq(S)
         /\ Len(InsertAt(s, k + 1, x)) = Len(s) + 1
         /\ \A i \in 1 .. k : InsertAt(s, k + 1, x)[i] = s[i]
         /\ InsertAt(s, k + 1, x)[k + 1] = x
         /\ \A i \in k + 1 .. Len(s) : InsertAt(s, k + 1, x)[i + 1] = s[i]
<1> DEFINE front == SubSeq(s, 1, k)
           back == SubSeq(s, k + 1, Len(s))
           head == front \o <<x>>
           t == InsertAt(s, k + 1, x)
<1>1. t = head \o back
  <2>1. (k + 1) - 1 = k
    OBVIOUS
  <2> QED
    BY <2>1 DEF InsertAt
<1>2. front \in Seq(S) /\ Len(front) = k /\ \A i \in 1 .. k : front[i] = s[i]
  OBVIOUS
<1>3. /\ back \in Seq(S) /\ Len(back) = Len(s) - k
      /\ \A i \in 1 .. Len(s) - k : back[i] = s[k + i]
  OBVIOUS
<1> HIDE DEF front, back
<1>4. /\ head \in Seq(S) /\ Len(head) = k + 1
      /\ \A i \in 1 .. k : head[i] = s[i]
      /\ head[k + 1] = x
  BY <1>2
<1> HIDE DEF head, t
<1>5. /\ t \in Seq(S) /\ Len(t) = Len(s) + 1
      /\ \A i \in 1 .. k + 1 : t[i] = head[i]
      /\ \A i \in 1 .. Len(s) - k : t[k + 1 + i] = back[i]
  BY <1>1, <1>3, <1>4
<1>6. ASSUME NEW i \in k + 1 .. Len(s) PROVE t[i + 1] = s[i]
  <2>1. i - k \in 1 .. Len(s) - k /\ k + 1 + (i - k) = i + 1 /\ k + (i - k) = i
    OBVIOUS
  <2> QED
    BY <1>3, <1>5, <2>1
<1>7. \A i \in 1 .. k : i \in 1 .. k + 1
  OBVIOUS
<1>8. k + 1 \in 1 .. k + 1
  OBVIOUS
<1>9. /\ t \in Seq(S) /\ Len(t) = Len(s) + 1
      /\ \A i \in 1 .. k : t[i] = s[i]
      /\ t[k + 1] = x
      /\ \A i \in k + 1 .. Len(s) : t[i + 1] = s[i]
  BY <1>4, <1>5, <1>6, <1>7, <1>8
<1> QED
  BY <1>9 DEF t

LEMMA InsertFacts ==
  ASSUME NEW S, NEW s \in Seq(S), NEW x \in S, NEW k \in 0 .. Len(s)
  PROVE  /\ InsertAt(s, k + 1, x) \in Seq(S)
         /\ \A y : y \in Range(InsertAt(s, k + 1, x)) <=> y \in Range(s) \/ y = x
         /\ x \notin Range(s) /\ IsInjective(s) => IsInjective(InsertAt(s, k + 1, x))
         /\ \A us : /\ x \notin Range(s) /\ IsInOrder(us, s)
                    /\ Splits(us, s, x, k, k) /\ Named(us, Range(s) \cup {x})
                    => IsInOrder(us, InsertAt(s, k + 1, x))
<1> DEFINE t == InsertAt(s, k + 1, x)
<1>1. /\ t \in Seq(S) /\ Len(t) = Len(s) + 1
      /\ \A i \in 1 .. k : t[i] = s[i]
      /\ t[k + 1] = x
      /\ \A i \in k + 1 .. Len(s) : t[i + 1] = s[i]
  <2>1. t \in Seq(S) /\ Len(t) = Len(s) + 1
    BY InsertPlaces
  <2>2. \A i \in 1 .. k : t[i] = s[i]
    BY InsertPlaces
  <2>3. t[k + 1] = x
    BY InsertPlaces
  <2>4. \A i \in k + 1 .. Len(s) : t[i + 1] = s[i]
    BY InsertPlaces
  <2> QED
    BY <2>1, <2>2, <2>3, <2>4
<1> HIDE DEF t
<1>2. Len(s) \in Nat /\ DOMAIN s = 1 .. Len(s) /\ DOMAIN t = 1 .. Len(s) + 1
  BY <1>1
<1>3. ASSUME NEW i \in DOMAIN t
      PROVE  \/ i \in 1 .. k /\ i \in DOMAIN s /\ t[i] = s[i]
             \/ i = k + 1 /\ t[i] = x
             \/ i - 1 \in k + 1 .. Len(s) /\ i - 1 \in DOMAIN s /\ t[i] = s[i - 1]
  <2>1. i \in 1 .. k \/ i = k + 1 \/ (i - 1 \in k + 1 .. Len(s) /\ (i - 1) + 1 = i)
    BY <1>2
  <2>2. \A j \in k + 1 .. Len(s) : j \in DOMAIN s
    BY <1>2
  <2>3. \A j \in 1 .. k : j \in DOMAIN s
    BY <1>2
  <2> QED
    BY <1>1, <2>1, <2>2, <2>3
<1>4. Range(t) = Range(s) \cup {x}
  <2>1. \A y \in Range(t) : y \in Range(s) \cup {x}
    BY <1>3 DEF Range
  <2>2. ASSUME NEW i \in DOMAIN s PROVE s[i] \in Range(t)
    <3>1. (i \in 1 .. k /\ i \in DOMAIN t) \/ (i \in k + 1 .. Len(s) /\ i + 1 \in DOMAIN t)
      BY <1>2
    <3> QED
      BY <1>1, <3>1 DEF Range
  <2>3. x \in Range(t)
    <3>1. k + 1 \in DOMAIN t
      BY <1>2
    <3> QED
      BY <1>1, <3>1 DEF Range
  <2>4. \A y \in Range(s) : y \in Range(t)
    BY <2>2 DEF Range
  <2> QED
    BY <2>1, <2>3, <2>4
<1>5. ASSUME x \notin Range(s), IsInjective(s) PROVE IsInjective(t)
  <2> SUFFICES ASSUME NEW i \in DOMAIN t, NEW j \in DOMAIN t, t[i] = t[j] PROVE i = j
    BY DEF IsInjective
  <2>1. \A m \in DOMAIN s : s[m] # x
    BY <1>5 DEF Range
  <2>2. \A m, n \in DOMAIN s : s[m] = s[n] => m = n
    BY <1>5 DEF IsInjective
  <2>3. i \in Nat /\ j \in Nat /\ k \in Nat
    BY <1>2
  <2> QED
    BY <1>3, <2>1, <2>2, <2>3
<1>6. ASSUME NEW us, x \notin Range(s), IsInOrder(us, s), Splits(us, s, x, k, k),
             Named(us, Range(s) \cup {x})
      PROVE  IsInOrder(us, t)
  <2> SUFFICES ASSUME NEW i \in DOMAIN t, NEW j \in DOMAIN t, i < j PROVE Before(us, t[i], t[j])
    BY DEF IsInOrder
  <2>1. i \in Nat /\ j \in Nat /\ k \in Nat
    BY <1>2
  <2>2. \A m, n \in DOMAIN s : m < n => Before(us, s[m], s[n])
    BY <1>6 DEF IsInOrder
  <2>3. ASSUME NEW m \in 1 .. k PROVE Before(us, s[m], x)
    <3>1. m \in DOMAIN s /\ s[m] # x /\ ~ Before(us, x, s[m])
      BY <1>2, <1>6 DEF Splits, Range
    <3>2. Named(us, {s[m], x, x})
      BY <1>6, <3>1 DEF Named, Range
    <3> QED
      BY <3>1, <3>2, BeforeTotal
  <2>4. \A m \in k + 1 .. Len(s) : Before(us, x, s[m])
    BY <1>6 DEF Splits
  <2>5. CASE i \in 1 .. k /\ i \in DOMAIN s /\ t[i] = s[i]
    <3>1. CASE j = k + 1 /\ t[j] = x
      BY <2>3, <2>5, <3>1
    <3>2. CASE j - 1 \in k + 1 .. Len(s) /\ j - 1 \in DOMAIN s /\ t[j] = s[j - 1]
      <4>1. i < j - 1
        BY <2>1, <2>5, <3>2
      <4> QED
        BY <2>2, <2>5, <3>2, <4>1
    <3>3. CASE j \in 1 .. k /\ j \in DOMAIN s /\ t[j] = s[j]
      BY <2>2, <2>5, <3>3
    <3> QED
      BY <1>3, <3>1, <3>2, <3>3
  <2>6. CASE i = k + 1 /\ t[i] = x
    <3>1. j - 1 \in k + 1 .. Len(s) /\ t[j] = s[j - 1]
      BY <1>3, <2>1, <2>6
    <3> QED
      BY <2>4, <2>6, <3>1
  <2>7. CASE i - 1 \in k + 1 .. Len(s) /\ i - 1 \in DOMAIN s /\ t[i] = s[i - 1]
    <3>1. j - 1 \in DOMAIN s /\ t[j] = s[j - 1] /\ i - 1 < j - 1
      BY <1>3, <2>1, <2>7
    <3> QED
      BY <2>2, <2>7, <3>1
  <2> QED
    BY <1>3, <2>5, <2>6, <2>7
<1>7. /\ t \in Seq(S)
      /\ \A y : y \in Range(t) <=> y \in Range(s) \/ y = x
      /\ x \notin Range(s) /\ IsInjective(s) => IsInjective(t)
      /\ \A us : /\ x \notin Range(s) /\ IsInOrder(us, s)
                 /\ Splits(us, s, x, k, k) /\ Named(us, Range(s) \cup {x})
                 => IsInOrder(us, t)
  BY <1>1, <1>4, <1>5, <1>6
<1> QED
  BY <1>7 DEF t

LEMMA RemovePlaces ==
  ASSUME NEW S, NEW s \in Seq(S), NEW p \in 1 .. Len(s)
  PROVE  /\ RemoveAt(s, p) \in Seq(S) /\ Len(RemoveAt(s, p)) = Len(s) - 1
         /\ \A i \in 1 .. p - 1 : RemoveAt(s, p)[i] = s[i]
         /\ \A i \in p .. Len(s) - 1 : RemoveAt(s, p)[i] = s[i + 1]
<1> DEFINE front == SubSeq(s, 1, p - 1)
           back == SubSeq(s, p + 1, Len(s))
           t == RemoveAt(s, p)
<1>1. t = front \o back
  BY DEF RemoveAt
<1>2. front \in Seq(S) /\ Len(front) = p - 1 /\ \A i \in 1 .. p - 1 : front[i] = s[i]
  OBVIOUS
<1>3. /\ back \in Seq(S) /\ Len(back) = Len(s) - p
      /\ \A i \in 1 .. Len(s) - p : back[i] = s[p + i]
  OBVIOUS
<1> HIDE DEF front, back, t
<1>4. /\ t \in Seq(S) /\ Len(t) = Len(front) + Len(back)
      /\ \A i \in 1 .. Len(front) : t[i] = front[i]
      /\ \A i \in 1 .. Len(back) : t[Len(front) + i] = back[i]
  <2>1. front \in Seq(S) /\ back \in Seq(S)
    BY <1>2, <1>3
  <2>2. Len(t) = Len(front) + Len(back) /\ t \in Seq(S)
    BY <1>1, <2>1
  <2>3. \A i \in 1 .. Len(front) : t[i] = front[i]
    BY <1>1, <2>1, ConcatFacts
  <2>4. \A i \in 1 .. Len(back) : t[Len(front) + i] = back[i]
    BY <1>1, <2>1, ConcatFacts
  <2> QED
    BY <2>2, <2>3, <2>4
<1>5. ASSUME NEW i \in p .. Len(s) - 1 PROVE t[i] = s[i + 1]
  <2> DEFINE m == i - (p - 1)
  <2>1. m \in 1 .. Len(s) - p /\ p - 1 + m = i /\ p + m = i + 1
    OBVIOUS
  <2> HIDE DEF m
  <2>2. t[Len(front) + m] = back[m]
    BY <1>3, <1>4, <2>1
  <2>3. back[m] = s[p + m]
    BY <1>3, <2>1
  <2> QED
    BY <1>2, <2>1, <2>2, <2>3
<1>6. /\ t \in Seq(S) /\ Len(t) = Len(s) - 1
      /\ \A i \in 1 .. p - 1 : t[i] = s[i]
      /\ \A i \in p .. Len(s) - 1 : t[i] = s[i + 1]
  <2>1. Len(t) = Len(s) - 1
    BY <1>2, <1>3, <1>4
  <2>2. \A i \in 1 .. p - 1 : t[i] = s[i]
    BY <1>2, <1>4
  <2> QED
    BY <1>4, <1>5, <2>1, <2>2
<1> QED
  BY <1>6 DEF t

LEMMA PosFacts ==
  ASSUME NEW S, NEW s \in Seq(S), NEW id
  PROVE  /\ PosIn(s, id) \in 0 .. Len(s)
         /\ id \in Range(s) => PosIn(s, id) \in DOMAIN s /\ s[PosIn(s, id)] = id
         /\ id \notin Range(s) => PosIn(s, id) = 0
<1>1. DOMAIN s = 1 .. Len(s)
  OBVIOUS
<1>2. CASE id \in Range(s)
  <2> DEFINE p == CHOOSE i \in DOMAIN s : s[i] = id
  <2>1. \E i \in DOMAIN s : s[i] = id
    BY <1>2 DEF Range
  <2>2. p \in DOMAIN s /\ s[p] = id
    BY <2>1
  <2>3. PosIn(s, id) = p
    BY <1>2 DEF PosIn
  <2> HIDE DEF p
  <2> QED
    BY <1>1, <1>2, <2>2, <2>3
<1>3. CASE id \notin Range(s)
  BY <1>3 DEF PosIn
<1> QED
  BY <1>2, <1>3

LEMMA WithoutFacts ==
  ASSUME NEW S, NEW s \in Seq(S), NEW id
  PROVE  LET t == Without(s, id)
         IN /\ t \in Seq(S)
            /\ IsInjective(s) => IsInjective(t) /\ Range(t) = Range(s) \ {id}
            /\ \A us : IsInOrder(us, s) => IsInOrder(us, t)
<1> DEFINE t == Without(s, id)
           p == PosIn(s, id)
<1>1. CASE id \notin Range(s)
  BY <1>1 DEF Without
<1>2. CASE id \in Range(s)
  <2>1. p \in DOMAIN s /\ s[p] = id /\ DOMAIN s = 1 .. Len(s)
    BY <1>2, PosFacts
  <2>2. t = RemoveAt(s, p)
    BY <1>2 DEF Without
  <2> HIDE DEF p, t
  <2>3. /\ t \in Seq(S) /\ Len(t) = Len(s) - 1
        /\ \A i \in 1 .. p - 1 : t[i] = s[i]
        /\ \A i \in p .. Len(s) - 1 : t[i] = s[i + 1]
    <3>1. p \in 1 .. Len(s)
      BY <2>1
    <3> QED
      BY <2>2, <3>1, RemovePlaces
  <2> DEFINE from(i) == IF i < p THEN i ELSE i + 1
  <2>4. ASSUME NEW i \in DOMAIN t
        PROVE  from(i) \in DOMAIN s /\ from(i) # p /\ t[i] = s[from(i)] /\ i \in Nat
    <3>1. i \in 1 .. Len(s) - 1 /\ p \in 1 .. Len(s)
      BY <2>1, <2>3
    <3>2. i \in 1 .. p - 1 \/ i \in p .. Len(s) - 1
      BY <3>1
    <3> QED
      BY <2>1, <2>3, <3>1, <3>2
  <2>5. p \in Nat
    BY <2>1
  <2>6. \A i, j \in DOMAIN t : (from(i) = from(j) => i = j) /\ (i < j => from(i) < from(j))
    BY <2>4, <2>5
  <2>7. ASSUME IsInjective(s) PROVE IsInjective(t) /\ Range(t) = Range(s) \ {id}
    <3>1. IsInjective(t)
      <4> HIDE DEF from
      <4> QED
        BY <2>4, <2>6, <2>7 DEF IsInjective
    <3>2. ASSUME NEW y \in Range(t) PROVE y \in Range(s) \ {id}
      <4>1. PICK i \in DOMAIN t : t[i] = y
        BY DEF Range
      <4> HIDE DEF from
      <4> QED
        BY <2>1, <2>4, <2>7, <4>1 DEF Range, IsInjective
    <3>3. ASSUME NEW y \in Range(s) \ {id} PROVE y \in Range(t)
      <4>1. PICK m \in DOMAIN s : s[m] = y /\ m # p
        BY <2>1 DEF Range
      <4>2. \/ m \in 1 .. p - 1 /\ m \in DOMAIN t
            \/ m - 1 \in p .. Len(s) - 1 /\ m - 1 \in DOMAIN t /\ (m - 1) + 1 = m
        BY <2>1, <2>3, <4>1
      <4> QED
        BY <2>3, <4>1, <4>2 DEF Range
    <3> QED
      BY <3>1, <3>2, <3>3
  <2>8. ASSUME NEW us, IsInOrder(us, s) PROVE IsInOrder(us, t)
    <3> HIDE DEF from
    <3> QED
      BY <2>4, <2>6, <2>8 DEF IsInOrder
  <2> QED
    BY <2>3, <2>7, <2>8 DEF t
<1> QED
  BY <1>1, <1>2

-----------------------------------------------------------------------------
(* The members of a group in order: there is one such sequence.            *)

\* A sequence in order lists nobody twice.
LEMMA OrderInjective ==
  ASSUME NEW us, NEW S, NEW s \in Seq(S), Named(us, Range(s)), IsInOrder(us, s)
  PROVE  IsInjective(s)
<1> SUFFICES ASSUME NEW i \in DOMAIN s, NEW j \in DOMAIN s, s[i] = s[j], i # j PROVE FALSE
  BY DEF IsInjective
<1>1. i \in Nat /\ j \in Nat /\ s[i] \in Range(s)
  BY DEF Range
<1>2. Named(us, {s[i], s[i], s[i]})
  BY <1>1 DEF Named
<1>3. Before(us, s[i], s[i])
  <2>1. i < j \/ j < i
    BY <1>1
  <2> QED
    BY <2>1 DEF IsInOrder
<1> QED
  BY <1>2, <1>3, BeforeTotal

\* It has as many places as it has members.
LEMMA SortedLength ==
  ASSUME NEW us, NEW S, NEW s \in Seq(S), NEW ids, Range(s) = ids, Named(us, ids),
         IsInOrder(us, s)
  PROVE  Len(s) = Cardinality(ids) /\ s \in [1 .. Len(s) -> ids]
<1>1. Len(s) \in Nat /\ DOMAIN s = 1 .. Len(s) /\ s \in [1 .. Len(s) -> ids]
  BY DEF Range
<1>2. IsInjective(s)
  BY OrderInjective
<1>3. s \in Bijection(1 .. Len(s), ids)
  BY <1>1, <1>2 DEF Bijection, Injection, Surjection, IsInjective, Range
<1>4. IsFiniteSet(1 .. Len(s)) /\ Cardinality(1 .. Len(s)) = Len(s)
  <2>1. 1 \in Int /\ Len(s) \in Int
    BY <1>1
  <2>2. IsFiniteSet(1 .. Len(s))
    BY <2>1, FS_Interval
  <2>3. Cardinality(1 .. Len(s)) = IF 1 > Len(s) THEN 0 ELSE Len(s) - 1 + 1
    BY <2>1, FS_Interval
  <2> QED
    BY <1>1, <2>2, <2>3
<1>5. Cardinality(ids) = Len(s)
  <2>1. ExistsBijection(1 .. Len(s), ids)
    BY <1>3 DEF ExistsBijection
  <2> QED
    BY <1>4, <2>1, FS_Bijection
<1> QED
  BY <1>1, <1>5

\* Two that agree so far do not differ at the next place.
LEMMA OrderStep ==
  ASSUME NEW us, NEW ids, Named(us, ids), NEW n \in Nat,
         NEW s \in [1 .. n -> ids], NEW t \in [1 .. n -> ids],
         Range(t) = ids, IsInOrder(us, s), IsInOrder(us, t),
         NEW k \in 0 .. n - 1, \A i \in 1 .. k : s[i] = t[i]
  PROVE  ~ Before(us, s[k + 1], t[k + 1])
<1> DEFINE m == k + 1
<1>1. m \in 1 .. n /\ m \in Nat
  OBVIOUS
<1>2. s[m] \in ids /\ t[m] \in ids
  BY <1>1
<1>3. PICK j \in 1 .. n : t[j] = s[m]
  BY <1>2 DEF Range
<1>4. Named(us, {s[m], t[m], t[m]})
  BY <1>2 DEF Named
<1>5. j \in 1 .. k \/ j = m \/ m < j
  OBVIOUS
<1>6. j \notin 1 .. k
  <2> SUFFICES ASSUME j \in 1 .. k PROVE FALSE
    OBVIOUS
  <2>1. s[j] = s[m] /\ j < m
    BY <1>3
  <2>2. Before(us, s[j], s[m])
    BY <1>1, <2>1 DEF IsInOrder
  <2>3. ~ Before(us, s[m], s[m])
    <3>1. Named(us, {s[m], s[m], s[m]})
      BY <1>2 DEF Named
    <3> QED
      BY <3>1, BeforeTotal
  <2> QED
    BY <2>1, <2>2, <2>3
<1>7. CASE j = m
  BY <1>3, <1>4, <1>7, BeforeTotal
<1>8. CASE m < j
  <2>1. Before(us, t[m], s[m])
    BY <1>1, <1>3, <1>8 DEF IsInOrder
  <2> QED
    BY <1>4, <2>1, BeforeTotal
<1> QED
  BY <1>5, <1>6, <1>7, <1>8

LEMMA OrderUnique ==
  ASSUME NEW us, NEW ids, Named(us, ids), NEW n \in Nat,
         NEW s \in [1 .. n -> ids], NEW t \in [1 .. n -> ids],
         Range(s) = ids, Range(t) = ids, IsInOrder(us, s), IsInOrder(us, t)
  PROVE  s = t
<1> DEFINE P == {k \in 0 .. n : \A i \in 1 .. k : s[i] = t[i]}
<1>1. 0 \in P
  OBVIOUS
<1>2. ASSUME NEW k \in 0 .. n - 1, k \in P PROVE k + 1 \in P
  <2>1. \A i \in 1 .. k : s[i] = t[i] /\ t[i] = s[i]
    BY <1>2
  <2>2. k + 1 \in 1 .. n /\ k + 1 \in 0 .. n
    OBVIOUS
  <2>3. ~ Before(us, s[k + 1], t[k + 1])
    BY <2>1, OrderStep
  <2>4. ~ Before(us, t[k + 1], s[k + 1])
    BY <2>1, OrderStep
  <2>5. Named(us, {s[k + 1], t[k + 1], t[k + 1]})
    BY <2>2 DEF Named
  <2>6. s[k + 1] = t[k + 1]
    BY <2>3, <2>4, <2>5, BeforeTotal
  <2>7. \A i \in 1 .. k + 1 : i \in 1 .. k \/ i = k + 1
    OBVIOUS
  <2> QED
    BY <2>1, <2>2, <2>6, <2>7
<1> HIDE DEF P
<1>3. \A k \in 0 .. n : k \in P
  BY <1>1, <1>2, Induction
<1>4. n \in P
  BY <1>3
<1> QED
  BY <1>4 DEF P

\* Users are sorted by inserting one after the other.
LEMMA OrderExists ==
  ASSUME NEW us, NEW S, IsFiniteSet(S), Named(us, S), NEW ids \in SUBSET S
  PROVE  \E s \in [1 .. Cardinality(ids) -> ids] : Range(s) = ids /\ IsInOrder(us, s)
<1> DEFINE Sorted(s, some) == s \in Seq(S) /\ Range(s) = some /\ IsInOrder(us, s)
           P == {n \in 0 .. Cardinality(S) :
                   \A some \in SUBSET S : Cardinality(some) = n => \E s : Sorted(s, some)}
<1>1. Cardinality(S) \in Nat
  BY FS_CardinalityType
<1>2. \A some \in SUBSET S : IsFiniteSet(some) /\ Cardinality(some) \in 0 .. Cardinality(S)
  BY <1>1, FS_Subset, FS_CardinalityType
<1>3. 0 \in P
  <2>1. ASSUME NEW some \in SUBSET S, Cardinality(some) = 0 PROVE Sorted(<<>>, some)
    <3>1. some = {}
      BY <1>2, <2>1, FS_EmptySet
    <3> QED
      BY <3>1 DEF Range, IsInOrder
  <2> HIDE DEF Sorted
  <2> QED
    BY <1>1, <2>1
<1>4. ASSUME NEW n \in 0 .. Cardinality(S) - 1, n \in P PROVE n + 1 \in P
  <2>1. n + 1 \in 0 .. Cardinality(S) /\ n + 1 # 0
    BY <1>1
  <2>2. ASSUME NEW some \in SUBSET S, Cardinality(some) = n + 1 PROVE \E s : Sorted(s, some)
    <3>1. PICK x \in some : TRUE
      BY <1>2, <2>1, <2>2, FS_EmptySet
    <3>2. Cardinality(some \ {x}) = n
      <4>1. IsFiniteSet(some) /\ x \in some /\ n \in Nat
        BY <1>2, <3>1
      <4>2. Cardinality(some \ {x}) = Cardinality(some) - 1
        BY <4>1, FS_RemoveElement
      <4> QED
        BY <2>2, <4>1, <4>2
    <3>3. PICK s : Sorted(s, some \ {x})
      BY <1>4, <3>2
    <3> DEFINE k == Search(us, s, x)
               t == InsertAt(s, k + 1, x)
    <3>4. x \in S /\ x \notin Range(s) /\ Named(us, Range(s) \cup {x})
      BY <3>3 DEF Named
    <3>5. k \in 0 .. Len(s) /\ Splits(us, s, x, k, k)
      BY <3>3, <3>4, SearchFacts
    <3> HIDE DEF k
    <3>6. t \in Seq(S) /\ Range(t) = Range(s) \cup {x} /\ IsInOrder(us, t)
      <4>1. s \in Seq(S) /\ IsInOrder(us, s)
        BY <3>3
      <4> HIDE DEF Sorted
      <4>2. t \in Seq(S)
        BY <3>4, <3>5, <4>1, InsertFacts
      <4>3. Range(t) = Range(s) \cup {x}
        BY <3>4, <3>5, <4>1, InsertFacts
      <4>4. IsInOrder(us, t)
        BY <3>4, <3>5, <4>1, InsertFacts
      <4> QED
        BY <4>2, <4>3, <4>4
    <3>7. Sorted(t, some)
      BY <3>3, <3>6
    <3> HIDE DEF t, Sorted
    <3> QED
      BY <3>7
  <2> HIDE DEF Sorted
  <2> QED
    BY <2>1, <2>2
<1> HIDE DEF P
<1>5. \A n \in 0 .. Cardinality(S) : n \in P
  BY <1>1, <1>3, <1>4, Induction
<1>6. PICK s : Sorted(s, ids)
  BY <1>2, <1>5 DEF P
<1>7. Len(s) = Cardinality(ids) /\ s \in [1 .. Len(s) -> ids]
  <2>1. Named(us, ids)
    BY DEF Named
  <2> QED
    BY <1>6, <2>1, SortedLength
<1> QED
  BY <1>6, <1>7

LEMMA InOrderFacts ==
  ASSUME NEW us, NEW S, IsFiniteSet(S), Named(us, S), NEW ids \in SUBSET S
  PROVE  /\ InOrder(us, ids) \in Seq(S) /\ Range(InOrder(us, ids)) = ids
         /\ IsInOrder(us, InOrder(us, ids)) /\ IsInjective(InOrder(us, ids))
         /\ \A s \in Seq(S) : Range(s) = ids /\ IsInOrder(us, s) => s = InOrder(us, ids)
<1> DEFINE n == Cardinality(ids)
           t == InOrder(us, ids)
<1>1. n \in Nat
  BY FS_Subset, FS_CardinalityType
<1>2. Named(us, ids)
  BY DEF Named
<1>3. t \in [1 .. n -> ids] /\ Range(t) = ids /\ IsInOrder(us, t)
  BY OrderExists DEF InOrder
<1> HIDE DEF t
<1>4. t \in Seq(S)
  <2>1. t \in Seq(ids)
    BY <1>1, <1>3
  <2> QED
    BY <2>1
<1>5. IsInjective(t)
  BY <1>2, <1>3, <1>4, OrderInjective
<1>6. ASSUME NEW s \in Seq(S), Range(s) = ids, IsInOrder(us, s) PROVE s = t
  <2>1. s \in [1 .. n -> ids]
    BY <1>2, <1>6, SortedLength
  <2> HIDE DEF n
  <2> QED
    BY <1>1, <1>2, <1>3, <1>6, <2>1, OrderUnique
<1>7. /\ t \in Seq(S) /\ Range(t) = ids /\ IsInOrder(us, t) /\ IsInjective(t)
      /\ \A s \in Seq(S) : Range(s) = ids /\ IsInOrder(us, s) => s = t
  BY <1>3, <1>4, <1>5, <1>6
<1> QED
  BY <1>7 DEF t

-----------------------------------------------------------------------------
(* The view.                                                               *)

LEMMA ConcatInjective ==
  ASSUME NEW S, NEW a \in Seq(S), NEW b \in Seq(S)
  PROVE  /\ Range(a \o b) = Range(a) \cup Range(b)
         /\ IsInjective(a) /\ IsInjective(b) /\ Range(a) \cap Range(b) = {}
              => IsInjective(a \o b)
<1> DEFINE c == a \o b
<1>1. Len(a) \in Nat /\ Len(b) \in Nat /\ DOMAIN a = 1 .. Len(a) /\ DOMAIN b = 1 .. Len(b)
  OBVIOUS
<1>2. /\ DOMAIN c = 1 .. Len(a) + Len(b)
      /\ \A i \in 1 .. Len(a) : c[i] = a[i]
      /\ \A i \in 1 .. Len(b) : c[Len(a) + i] = b[i]
  BY <1>1, ConcatFacts
<1> HIDE DEF c
<1>3. ASSUME NEW i \in DOMAIN c
      PROVE  \/ i \in DOMAIN a /\ c[i] = a[i]
             \/ i - Len(a) \in DOMAIN b /\ c[i] = b[i - Len(a)]
  <2> DEFINE m == i - Len(a)
  <2>1. i \in 1 .. Len(a) \/ (m \in 1 .. Len(b) /\ Len(a) + m = i)
    BY <1>1, <1>2
  <2> HIDE DEF m
  <2>2. i \in 1 .. Len(a) => i \in DOMAIN a /\ c[i] = a[i]
    BY <1>1, <1>2
  <2>3. m \in 1 .. Len(b) => m \in DOMAIN b /\ c[Len(a) + m] = b[m]
    BY <1>1, <1>2
  <2> QED
    BY <2>1, <2>2, <2>3 DEF m
<1>4. Range(c) = Range(a) \cup Range(b)
  <2>1. \A x \in Range(c) : x \in Range(a) \cup Range(b)
    BY <1>3 DEF Range
  <2>2. ASSUME NEW i \in DOMAIN a PROVE a[i] \in Range(c)
    <3>1. i \in DOMAIN c /\ c[i] = a[i]
      BY <1>1, <1>2
    <3> QED
      BY <3>1 DEF Range
  <2>3. ASSUME NEW i \in DOMAIN b PROVE b[i] \in Range(c)
    <3>1. Len(a) + i \in DOMAIN c /\ c[Len(a) + i] = b[i]
      BY <1>1, <1>2
    <3> QED
      BY <3>1 DEF Range
  <2>4. \A x \in Range(a) \cup Range(b) : x \in Range(c)
    BY <2>2, <2>3 DEF Range
  <2> QED
    BY <2>1, <2>4
<1>5. ASSUME IsInjective(a), IsInjective(b), Range(a) \cap Range(b) = {} PROVE IsInjective(c)
  <2> SUFFICES ASSUME NEW i \in DOMAIN c, NEW j \in DOMAIN c, c[i] = c[j] PROVE i = j
    BY DEF IsInjective
  <2>1. \A m \in DOMAIN a, n \in DOMAIN b : a[m] # b[n]
    BY <1>5 DEF Range
  <2>2. \A m, n \in DOMAIN a : a[m] = a[n] => m = n
    BY <1>5 DEF IsInjective
  <2>3. \A m, n \in DOMAIN b : b[m] = b[n] => m = n
    BY <1>5 DEF IsInjective
  <2>4. i - Len(a) = j - Len(a) => i = j
    BY <1>1, <1>2
  <2> QED
    BY <1>3, <2>1, <2>2, <2>3, <2>4
<1>6. /\ Range(c) = Range(a) \cup Range(b)
      /\ IsInjective(a) /\ IsInjective(b) /\ Range(a) \cap Range(b) = {} => IsInjective(c)
  BY <1>4, <1>5
<1> QED
  BY <1>6 DEF c

\* f[n] is the view of the first n groups.
Views(f, S, order, groups) ==
  /\ f \in [0 .. Len(order) -> Seq(S)]
  /\ f[0] = <<>>
  /\ \A n \in 1 .. Len(order) : f[n] = f[n - 1] \o <<order[n]>> \o groups[order[n]]

LEMMA ViewSteps ==
  ASSUME NEW S, NEW order \in Seq(S), NEW groups,
         \A n \in 1 .. Len(order) : groups[order[n]] \in Seq(S)
  PROVE  \E f : Views(f, S, order, groups) /\ MakeView(order, groups) = f[Len(order)]
<1> DEFINE N == Len(order)
           A == Seq(S)
           step == [p \in A \X (1 .. N) |-> p[1] \o <<order[p[2]]>> \o groups[order[p[2]]]]
           Body(f) == [n \in 0 .. N |-> IF n = 0 THEN <<>>
                                        ELSE f[n - 1] \o <<order[n]>> \o groups[order[n]]]
           g == CHOOSE f : f = Body(f)
<1>1. N \in Nat /\ <<>> \in A
  OBVIOUS
<1>2. step \in [A \X (1 .. N) -> A]
  <2> SUFFICES ASSUME NEW a \in A, NEW n \in 1 .. N
               PROVE  a \o <<order[n]>> \o groups[order[n]] \in A
    OBVIOUS
  <2>1. order[n] \in S /\ groups[order[n]] \in Seq(S)
    OBVIOUS
  <2>2. a \o <<order[n]>> \in Seq(S)
    BY <2>1
  <2> QED
    BY <2>1, <2>2
<1>3. \E f : f = Body(f)
  <2>1. PICK f : Recursive(f, N, A, <<>>, step)
    <3> HIDE DEF N, A, step
    <3> QED
      BY <1>1, <1>2, Recursion
  <2> HIDE DEF N, A
  <2>2. ASSUME NEW n \in 1 .. N PROVE f[n] = f[n - 1] \o <<order[n]>> \o groups[order[n]]
    <3>1. n - 1 \in 0 .. N
      BY <1>1
    <3>2. <<f[n - 1], n>> \in A \X (1 .. N)
      BY <2>1, <3>1 DEF Recursive
    <3> QED
      BY <2>1, <3>2 DEF Recursive
  <2>3. ASSUME NEW n \in 0 .. N
        PROVE  f[n] = IF n = 0 THEN <<>> ELSE f[n - 1] \o <<order[n]>> \o groups[order[n]]
    <3>1. n = 0 \/ n \in 1 .. N
      BY <1>1
    <3> QED
      BY <2>1, <2>2, <3>1 DEF Recursive
  <2>4. f = Body(f)
    BY <2>1, <2>3 DEF Recursive
  <2> QED
    BY <2>4
<1>4. g = Body(g)
  <2> HIDE DEF Body
  <2> QED
    BY <1>3
<1>5. MakeView(order, groups) = g[N]
  BY DEF MakeView
<1> HIDE DEF g
<1>6. g[0] = <<>>
  <2>1. 0 \in 0 .. N
    BY <1>1
  <2> QED
    BY <1>4, <2>1
<1>7. ASSUME NEW n \in 1 .. N PROVE g[n] = g[n - 1] \o <<order[n]>> \o groups[order[n]]
  <2>1. n \in 0 .. N /\ n # 0
    BY <1>1
  <2> HIDE DEF N
  <2> QED
    BY <1>4, <2>1
<1>8. \A n \in 0 .. N : g[n] \in A
  <2> DEFINE P == {n \in 0 .. N : g[n] \in A}
  <2>1. 0 \in P
    <3>1. 0 \in 0 .. N
      BY <1>1
    <3> HIDE DEF N, A
    <3> QED
      BY <1>1, <1>6, <3>1
  <2>2. ASSUME NEW n \in 0 .. N - 1, n \in P PROVE n + 1 \in P
    <3>1. n + 1 \in 1 .. N /\ n + 1 \in 0 .. N /\ (n + 1) - 1 = n
      BY <1>1
    <3>2. g[n] \in A
      BY <2>2
    <3>3. order[n + 1] \in S /\ groups[order[n + 1]] \in Seq(S)
      BY <3>1
    <3>4. g[n] \o <<order[n + 1]>> \in Seq(S)
      BY <3>2, <3>3
    <3>5. g[n + 1] = g[n] \o <<order[n + 1]>> \o groups[order[n + 1]]
      BY <1>7, <3>1
    <3>6. g[n + 1] \in A
      BY <3>3, <3>4, <3>5
    <3> QED
      BY <3>1, <3>6
  <2> HIDE DEF P
  <2>3. \A n \in 0 .. N : n \in P
    BY <1>1, <2>1, <2>2, Induction
  <2> QED
    BY <2>3 DEF P
<1>9. g \in [0 .. N -> A]
  <2>1. g = [n \in 0 .. N |-> g[n]]
    BY <1>4
  <2> HIDE DEF Body
  <2> QED
    BY <1>8, <2>1
<1> HIDE DEF Body
<1> QED
  BY <1>5, <1>6, <1>7, <1>9 DEF Views

\* The view depends on the groups that are in the order only.
LEMMA ViewSame ==
  ASSUME NEW S, NEW order \in Seq(S), NEW groups, NEW others,
         \A n \in 1 .. Len(order) :
           groups[order[n]] \in Seq(S) /\ others[order[n]] = groups[order[n]]
  PROVE  MakeView(order, groups) = MakeView(order, others)
<1> DEFINE N == Len(order)
<1>1. PICK f : Views(f, S, order, groups) /\ MakeView(order, groups) = f[N]
  BY ViewSteps
<1>2. PICK g : Views(g, S, order, others) /\ MakeView(order, others) = g[N]
  BY ViewSteps
<1> DEFINE P == {n \in 0 .. N : f[n] = g[n]}
<1>3. N \in Nat
  OBVIOUS
<1>4. 0 \in P
  BY <1>1, <1>2, <1>3 DEF Views
<1>5. ASSUME NEW n \in 0 .. N - 1, n \in P PROVE n + 1 \in P
  <2> DEFINE m == n + 1
  <2>1. m \in 1 .. N /\ m \in 0 .. N /\ m - 1 = n
    BY <1>3
  <2>2. f[n] = g[n]
    BY <1>5
  <2> HIDE DEF m
  <2>3. f[m] = f[n] \o <<order[m]>> \o groups[order[m]]
    BY <1>1, <2>1 DEF Views
  <2>4. g[m] = g[n] \o <<order[m]>> \o others[order[m]]
    BY <1>2, <2>1 DEF Views
  <2>5. m \in P
    BY <2>1, <2>2, <2>3, <2>4
  <2> QED
    BY <2>5 DEF m
<1> HIDE DEF P
<1>6. \A n \in 0 .. N : n \in P
  BY <1>3, <1>4, <1>5, Induction
<1>7. N \in P
  BY <1>3, <1>6
<1> QED
  BY <1>1, <1>2, <1>7 DEF P

\* Nothing is twice in the view when no group is, no user is in two groups or
\* twice in one, and no user is a group.
LEMMA ViewInjective ==
  ASSUME NEW S, NEW order \in Seq(S), NEW groups, IsInjective(order),
         \A n \in 1 .. Len(order) :
           /\ groups[order[n]] \in Seq(S) /\ IsInjective(groups[order[n]])
           /\ Range(groups[order[n]]) \cap Range(order) = {},
         \A m, n \in 1 .. Len(order) :
           m # n => Range(groups[order[m]]) \cap Range(groups[order[n]]) = {}
  PROVE  MakeView(order, groups) \in Seq(S) /\ IsInjective(MakeView(order, groups))
<1> DEFINE N == Len(order)
           Seen(n) == {order[m] : m \in 1 .. n}
                        \cup UNION {Range(groups[order[m]]) : m \in 1 .. n}
<1>1. PICK f : Views(f, S, order, groups) /\ MakeView(order, groups) = f[N]
  BY ViewSteps
<1> DEFINE P == {n \in 0 .. N : IsInjective(f[n]) /\ Range(f[n]) \subseteq Seen(n)}
<1>2. N \in Nat /\ DOMAIN order = 1 .. N /\ \A n \in 1 .. N : order[n] \in Range(order)
  BY DEF Range
<1>3. 0 \in P
  <2>1. f[0] = <<>> /\ 0 \in 0 .. N
    BY <1>1, <1>2 DEF Views
  <2>2. IsInjective(<<>>) /\ Range(<<>>) = {}
    BY DEF IsInjective, Range
  <2> HIDE DEF Seen
  <2> QED
    BY <2>1, <2>2
<1>4. ASSUME NEW n \in 0 .. N - 1, n \in P PROVE n + 1 \in P
  <2> DEFINE m == n + 1
             h == <<order[m]>>
             t == groups[order[m]]
  <2>1. m \in 1 .. N /\ m \in 0 .. N /\ m - 1 = n /\ n \in 0 .. N
        /\ \A k \in 1 .. n : k \in 1 .. N /\ k # m
    BY <1>2
  <2>2. IsInjective(f[n]) /\ Range(f[n]) \subseteq Seen(n) /\ f[n] \in Seq(S)
    BY <1>1, <1>4, <2>1 DEF Views
  <2>3. h \in Seq(S) /\ IsInjective(h) /\ Range(h) = {order[m]}
    <3>1. order[m] \in S
      BY <2>1
    <3>2. DOMAIN h = {1} /\ h[1] = order[m]
      OBVIOUS
    <3> QED
      BY <3>1, <3>2 DEF IsInjective, Range
  <2>4. t \in Seq(S) /\ IsInjective(t) /\ Range(t) \cap Range(order) = {}
    BY <2>1
  <2>5. order[m] \in Range(order)
    BY <1>2, <2>1
  <2>6. \A k \in 1 .. n : order[k] # order[m] /\ order[k] \in Range(order)
    BY <1>2, <2>1 DEF IsInjective
  <2>7. \A k \in 1 .. n : /\ Range(groups[order[k]]) \cap Range(order) = {}
                          /\ Range(groups[order[k]]) \cap Range(t) = {}
    BY <2>1
  <2>8. Seen(m) = Seen(n) \cup {order[m]} \cup Range(t)
    <3>1. \A k : k \in 1 .. m <=> k \in 1 .. n \/ k = m
      BY <2>1
    <3> HIDE DEF m
    <3> QED
      BY <3>1
  <2>9. order[m] \notin Seen(n) /\ Range(t) \cap (Seen(n) \cup {order[m]}) = {}
    BY <2>4, <2>5, <2>6, <2>7
  <2>10. f[m] = f[n] \o h \o t
    BY <1>1, <2>1 DEF Views
  <2> HIDE DEF m, h, t, Seen
  <2>11. /\ f[n] \o h \in Seq(S) /\ IsInjective(f[n] \o h)
         /\ Range(f[n] \o h) = Range(f[n]) \cup {order[m]}
    <3>1. Range(f[n]) \cap Range(h) = {}
      BY <2>2, <2>3, <2>9
    <3> QED
      BY <2>2, <2>3, <3>1, ConcatInjective
  <2>12. IsInjective(f[m]) /\ Range(f[m]) = Range(f[n]) \cup {order[m]} \cup Range(t)
    <3> DEFINE a == f[n] \o h
    <3>1. a \in Seq(S) /\ IsInjective(a) /\ Range(a) = Range(f[n]) \cup {order[m]} /\ f[m] = a \o t
      BY <2>10, <2>11
    <3> HIDE DEF a
    <3>2. Range(a) \cap Range(t) = {}
      BY <2>2, <2>9, <3>1
    <3> QED
      BY <2>4, <3>1, <3>2, ConcatInjective
  <2>13. m \in P
    BY <2>1, <2>2, <2>8, <2>12
  <2> QED
    BY <2>13 DEF m
<1> HIDE DEF P
<1>5. \A n \in 0 .. N : n \in P
  BY <1>2, <1>3, <1>4, Induction
<1>6. N \in P /\ f[N] \in Seq(S)
  BY <1>1, <1>2, <1>5 DEF Views
<1> QED
  BY <1>1, <1>6 DEF P

-----------------------------------------------------------------------------
(* The inductive invariants.                                               *)

\* No group and no user is twice in the list, and the view is the groups of the
\* order under their headers.
GoodList(l) ==
  /\ IsInjective(l.order) /\ Range(l.order) \subseteq DOMAIN l.groups
  /\ \A g \in DOMAIN l.groups : IsInjective(l.groups[g])
  /\ \A g, h \in DOMAIN l.groups : g # h => Range(l.groups[g]) \cap Range(l.groups[h]) = {}
  /\ l.view = MakeView(l.order, l.groups)

\* Every group has its members, in order, and none of them is missing.
Describes(l, us, ho) ==
  /\ \A u \in DOMAIN us : Group(ho[u]) \in DOMAIN l.groups
  /\ \A g \in DOMAIN l.groups :
       /\ Range(l.groups[g]) = {u \in DOMAIN us : Group(ho[u]) = g}
       /\ IsInOrder(us, l.groups[g])

\* The list is that of the current users and roles.
Accurate(l) == l.order \in GroupOrders(roles) /\ Describes(l, users, hoist)

ListInv == TypeOK /\ GoodList(list) /\ GoodList(next)

\* What a rebuild has read stays true as long as nothing overtakes it.
FreshInv == /\ stale \/ building \/ raced \/ Accurate(list)
            /\ building /\ ~raced => Accurate(next)

-----------------------------------------------------------------------------
(* The lists that are made and moved in.                                   *)

DataOK ==
  /\ DOMAIN users \subseteq UserIds /\ users \in [DOMAIN users -> User]
  /\ hoist \in [DOMAIN users -> RoleIds \cup {NoRole}]
  /\ DOMAIN roles \subseteq RoleIds /\ roles \in [DOMAIN roles -> Role]

LEMMA GroupType ==
  /\ GroupIds \cap UserIds = {} /\ Online \notin RoleIds /\ Offline \notin RoleIds
  /\ \A h \in RoleIds \cup {NoRole} : Group(h) \in GroupIds
BY UserIndexAssumption DEF GroupIds, Group, NoRole, Online, Offline

\* No group is twice in an order.
LEMMA OrderFacts ==
  ASSUME DataOK, NEW order \in GroupOrders(roles)
  PROVE  order \in Seq(GroupIds) /\ IsInjective(order) /\ Range(order) \cap UserIds = {}
<1> DEFINE hoisted == {r \in DOMAIN roles : roles[r].hoisted}
           n == Cardinality(hoisted)
           tail == <<Online, Offline>>
<1>1. PICK s \in [1 .. n -> hoisted] : Range(s) = hoisted /\ order = s \o tail
  BY DEF GroupOrders
<1>2. hoisted \subseteq RoleIds
  BY DEF DataOK
<1> HIDE DEF hoisted
<1>3. IsFiniteSet(hoisted) /\ n \in Nat
  BY <1>2, UserIndexAssumption, FS_Subset, FS_CardinalityType
<1>4. s \in Seq(GroupIds) /\ DOMAIN s = 1 .. n
  BY <1>1, <1>2, <1>3 DEF GroupIds
<1>5. IsInjective(s)
  <2>1. IsFiniteSet(1 .. n) /\ Cardinality(1 .. n) = n
    <3>1. 1 \in Int /\ n \in Int
      BY <1>3
    <3>2. IsFiniteSet(1 .. n)
      BY <3>1, FS_Interval
    <3>3. Cardinality(1 .. n) = IF 1 > n THEN 0 ELSE n - 1 + 1
      BY <3>1, FS_Interval
    <3> HIDE DEF n
    <3> QED
      BY <1>3, <3>2, <3>3
  <2>2. s \in Surjection(1 .. n, hoisted)
    BY <1>1, <1>4 DEF Surjection, Range
  <2>3. s \in Injection(1 .. n, hoisted)
    BY <1>3, <2>1, <2>2, FS_SurjSameCardinalityImpliesInj
  <2> QED
    BY <1>4, <2>3 DEF Injection, IsInjective
<1>6. tail \in Seq(GroupIds) /\ IsInjective(tail) /\ Range(tail) = {Online, Offline}
  <2>1. DOMAIN tail = {1, 2} /\ tail[1] = Online /\ tail[2] = Offline
    OBVIOUS
  <2>2. Online # Offline
    BY DEF Online, Offline
  <2> QED
    BY <2>1, <2>2 DEF GroupIds, IsInjective, Range
<1>7. Range(s) \cap Range(tail) = {}
  BY <1>1, <1>2, <1>6, GroupType
<1> HIDE DEF tail, n
<1>8. order \in Seq(GroupIds) /\ IsInjective(order) /\ Range(order) = Range(s) \cup Range(tail)
  <2>1. order \in Seq(GroupIds)
    BY <1>1, <1>4, <1>6
  <2>2. Range(order) = Range(s) \cup Range(tail)
    BY <1>1, <1>4, <1>6, ConcatInjective
  <2>3. IsInjective(order)
    BY <1>1, <1>4, <1>5, <1>6, <1>7, ConcatInjective
  <2> QED
    BY <2>1, <2>2, <2>3
<1>9. Range(order) \subseteq GroupIds
  BY <1>8 DEF Range
<1> QED
  BY <1>8, <1>9, GroupType

LEMMA UsersNamed ==
  ASSUME DataOK
  PROVE  IsFiniteSet(DOMAIN users) /\ Named(users, DOMAIN users)
<1>1. IsFiniteSet(DOMAIN users)
  BY UserIndexAssumption, FS_Subset DEF DataOK
<1>2. Named(users, DOMAIN users)
  BY UserIndexAssumption DEF DataOK, Named, User
<1> QED
  BY <1>1, <1>2

\* A list that is well formed has a view that is one, too.
LEMMA GoodView ==
  ASSUME NEW l, l.order \in Seq(GroupIds), l.groups \in [DOMAIN l.groups -> Seq(UserIds)],
         GoodList(l)
  PROVE  l.view \in Seq(UserIds \cup GroupIds) /\ IsInjective(l.view)
<1> DEFINE S == UserIds \cup GroupIds
           order == l.order
           groups == l.groups
<1>1. order \in Seq(GroupIds) /\ groups \in [DOMAIN groups -> Seq(UserIds)]
  OBVIOUS
<1>2. /\ IsInjective(order) /\ Range(order) \subseteq DOMAIN groups
      /\ \A g \in DOMAIN groups : IsInjective(groups[g])
      /\ \A g, h \in DOMAIN groups : g # h => Range(groups[g]) \cap Range(groups[h]) = {}
      /\ l.view = MakeView(order, groups)
  BY DEF GoodList
<1> HIDE DEF order, groups
<1>3. order \in Seq(S) /\ Range(order) \subseteq GroupIds
  BY <1>1 DEF Range
<1>4. \A n \in 1 .. Len(order) : order[n] \in Range(order) /\ order[n] \in DOMAIN groups
  BY <1>1, <1>2 DEF Range
<1>5. ASSUME NEW n \in 1 .. Len(order)
      PROVE  /\ groups[order[n]] \in Seq(S) /\ IsInjective(groups[order[n]])
             /\ Range(groups[order[n]]) \cap Range(order) = {}
  <2>1. groups[order[n]] \in Seq(UserIds)
    BY <1>1, <1>4
  <2>2. Range(groups[order[n]]) \subseteq UserIds
    BY <2>1 DEF Range
  <2> QED
    BY <1>2, <1>3, <1>4, <2>1, <2>2, GroupType
<1>6. ASSUME NEW m \in 1 .. Len(order), NEW n \in 1 .. Len(order), m # n
      PROVE  Range(groups[order[m]]) \cap Range(groups[order[n]]) = {}
  <2>1. order[m] # order[n]
    BY <1>1, <1>2, <1>6 DEF IsInjective
  <2> QED
    BY <1>2, <1>4, <2>1
<1> HIDE DEF S
<1>7. MakeView(order, groups) \in Seq(S) /\ IsInjective(MakeView(order, groups))
  BY <1>2, <1>3, <1>5, <1>6, ViewInjective
<1> QED
  BY <1>2, <1>7 DEF S

\* What UpdateUserList computes is the list of the current users and roles.
LEMMA MadeList ==
  ASSUME DataOK, NEW order \in GroupOrders(roles)
  PROVE  /\ IsList(MakeList(users, hoist, order))
         /\ GoodList(MakeList(users, hoist, order))
         /\ Accurate(MakeList(users, hoist, order))
<1> DEFINE groups == SortedGroups(users, hoist, order)
           Members(g) == {u \in DOMAIN users : Group(hoist[u]) = g}
           view == MakeView(order, groups)
           l == MakeList(users, hoist, order)
<1>1. l = [order |-> order, groups |-> groups, view |-> view]
  BY DEF MakeList
<1>2. /\ DOMAIN groups = Range(order) \cup {Group(hoist[u]) : u \in DOMAIN users}
      /\ \A g \in DOMAIN groups : groups[g] = InOrder(users, Members(g))
      /\ groups \in [DOMAIN groups -> {groups[g] : g \in DOMAIN groups}]
  BY DEF SortedGroups
<1> HIDE DEF groups, view, l
<1>3. order \in Seq(GroupIds) /\ IsInjective(order) /\ Range(order) \subseteq GroupIds
  BY OrderFacts DEF Range
<1>4. DOMAIN groups \subseteq GroupIds
  BY <1>2, <1>3, GroupType DEF DataOK
<1>5. ASSUME NEW g \in DOMAIN groups
      PROVE  /\ groups[g] \in Seq(UserIds) /\ Range(groups[g]) = Members(g)
             /\ IsInOrder(users, groups[g]) /\ IsInjective(groups[g])
  <2>1. Members(g) \in SUBSET DOMAIN users
    OBVIOUS
  <2>2. groups[g] = InOrder(users, Members(g))
    BY <1>2
  <2> HIDE DEF Members
  <2>3. groups[g] \in Seq(DOMAIN users)
    BY <2>1, <2>2, UsersNamed, InOrderFacts
  <2>4. groups[g] \in Seq(UserIds)
    BY <2>3 DEF DataOK
  <2> QED
    BY <2>1, <2>2, <2>4, UsersNamed, InOrderFacts
<1>6. groups \in [DOMAIN groups -> Seq(UserIds)]
  BY <1>2, <1>5
<1>7. l.order = order /\ l.groups = groups /\ l.view = view
  BY <1>1
<1>8. GoodList(l)
  <2>1. \A g, h \in DOMAIN groups : g # h => Members(g) \cap Members(h) = {}
    OBVIOUS
  <2> HIDE DEF Members
  <2>2. \A g, h \in DOMAIN groups : g # h => Range(groups[g]) \cap Range(groups[h]) = {}
    BY <1>5, <2>1
  <2>3. Range(order) \subseteq DOMAIN groups
    BY <1>2
  <2> QED
    BY <1>3, <1>5, <1>7, <2>2, <2>3 DEF GoodList, view
<1>9. IsList(l)
  <2>1. l.view \in Seq(UserIds \cup GroupIds)
    BY <1>3, <1>6, <1>7, <1>8, GoodView
  <2> QED
    BY <1>1, <1>3, <1>4, <1>6, <1>7, <2>1 DEF IsList
<1>10. Accurate(l)
  BY <1>2, <1>5, <1>7 DEF Accurate, Describes
<1> QED
  BY <1>8, <1>9, <1>10 DEF l


\* The group that RepositionUser puts the user in, before it does.
Others(l, g, id) == IF g \in DOMAIN l.groups THEN Without(l.groups[g], id) ELSE <<>>

\* m is l after user id was moved to group g.
IsMoved(m, l, us, g, id) ==
  /\ m = [order |-> l.order, groups |-> m.groups, view |-> MakeView(l.order, m.groups)]
  /\ m.groups = [x \in DOMAIN m.groups |-> m.groups[x]]
  /\ DOMAIN m.groups = DOMAIN l.groups \cup {g}
  /\ m.groups[g] = InsertAt(Others(l, g, id), Search(us, Others(l, g, id), id) + 1, id)
  /\ \A x \in DOMAIN m.groups : x # g => m.groups[x] = Others(l, x, id)

LEMMA MovedParts ==
  ASSUME NEW l, IsList(l), NEW us, NEW h, NEW id
  PROVE  IsMoved(Moved(l, us, h, id), l, us, Group(h), id)
<1> DEFINE g == Group(h)
           m == Moved(l, us, h, id)
           without == [x \in DOMAIN l.groups |-> Without(l.groups[x], id)]
           members == IF g \in DOMAIN without THEN without[g] ELSE <<>>
           new == InsertAt(members, Search(us, members, id) + 1, id)
           groups == Put(without, g, new)
           view == MakeView(l.order, groups)
<1>1. m = [l EXCEPT !.groups = groups, !.view = view]
  BY DEF Moved
<1>2. members = Others(l, g, id)
  BY DEF Others
<1>3. \A x \in DOMAIN l.groups : without[x] = Others(l, x, id)
  BY DEF Others
<1>4. /\ DOMAIN groups = DOMAIN l.groups \cup {g}
      /\ \A x \in DOMAIN groups : groups[x] = IF x = g THEN new ELSE without[x]
      /\ groups = [x \in DOMAIN groups |-> groups[x]]
  <2> HIDE DEF new
  <2> QED
    BY DEF Put
<1>5. new = InsertAt(Others(l, g, id), Search(us, Others(l, g, id), id) + 1, id)
  <2> HIDE DEF members
  <2> QED
    BY <1>2
<1> HIDE DEF groups, new, without, view
<1>6. l = [order |-> l.order, groups |-> l.groups, view |-> l.view]
  BY DEF IsList
<1>7. m = [order |-> l.order, groups |-> groups, view |-> view]
  BY <1>1, <1>6
<1>8. m.groups = groups /\ m.order = l.order /\ m.view = view
  BY <1>7
<1> HIDE DEF m
<1>9. /\ m = [order |-> l.order, groups |-> m.groups, view |-> MakeView(l.order, m.groups)]
      /\ m.groups = [x \in DOMAIN m.groups |-> m.groups[x]]
  BY <1>4, <1>7, <1>8 DEF view
<1>10. /\ m.groups[g] = InsertAt(Others(l, g, id), Search(us, Others(l, g, id), id) + 1, id)
       /\ \A x \in DOMAIN m.groups : x # g => m.groups[x] = Others(l, x, id)
  <2>1. g \in DOMAIN groups
    BY <1>4
  <2> QED
    BY <1>3, <1>4, <1>5, <1>8, <2>1
<1>11. DOMAIN m.groups = DOMAIN l.groups \cup {g}
  BY <1>4, <1>8
<1> QED
  BY <1>9, <1>10, <1>11 DEF m, IsMoved

\* t has the members of s and one more.
Joined(t, s, id) == Range(t) = Range(s) \cup {id}

\* Every other user is in the group it was in, the moved one in its new group
\* only; and groups in order stay in order.
LEMMA MovedGroups ==
  ASSUME NEW l, IsList(l), \A y \in DOMAIN l.groups : IsInjective(l.groups[y]),
         NEW m, NEW us, NEW g, NEW id \in UserIds, IsMoved(m, l, us, g, id), NEW x \in DOMAIN m.groups
  PROVE  /\ Others(l, x, id) \in Seq(UserIds) /\ IsInjective(Others(l, x, id))
         /\ \A y : y \in Range(Others(l, x, id)) <=>
                     x \in DOMAIN l.groups /\ y \in Range(l.groups[x]) /\ y # id
         /\ m.groups[x] \in Seq(UserIds) /\ IsInjective(m.groups[x])
         /\ x = g => Joined(m.groups[x], Others(l, x, id), id)
         /\ IsInOrder(us, Others(l, x, id)) /\ Named(us, Range(Others(l, x, id)) \cup {id})
              => IsInOrder(us, m.groups[x])
<1> DEFINE t == m.groups[x]
           s == Others(l, x, id)
           k == Search(us, s, id)
<1>1. t = IF x = g THEN InsertAt(s, k + 1, id) ELSE s
  BY DEF IsMoved
<1>2. x \in DOMAIN l.groups => l.groups[x] \in Seq(UserIds) /\ IsInjective(l.groups[x])
  BY DEF IsList
<1>3. /\ s \in Seq(UserIds) /\ IsInjective(s)
      /\ Range(s) = IF x \in DOMAIN l.groups THEN Range(l.groups[x]) \ {id} ELSE {}
  <2>1. CASE x \in DOMAIN l.groups
    <3>1. s = Without(l.groups[x], id)
      BY <2>1 DEF Others
    <3> QED
      BY <1>2, <2>1, <3>1, WithoutFacts
  <2>2. CASE x \notin DOMAIN l.groups
    <3>1. s = <<>>
      BY <2>2 DEF Others
    <3>2. s \in Seq(UserIds) /\ DOMAIN s = {}
      BY <3>1
    <3> QED
      BY <2>2, <3>2 DEF IsInjective, Range
  <2> QED
    BY <2>1, <2>2
<1>4. id \notin Range(s)
  BY <1>3
<1>5. /\ k \in 0 .. Len(s)
      /\ IsInOrder(us, s) /\ Named(us, Range(s) \cup {id}) => Splits(us, s, id, k, k)
  <2> HIDE DEF s
  <2> QED
    BY <1>3, SearchFacts
<1> HIDE DEF s, k, t
<1> DEFINE Members == x = g => Joined(t, s, id)
           Ordered == IsInOrder(us, s) /\ Named(us, Range(s) \cup {id}) => IsInOrder(us, t)
<1>6. ASSUME x = g PROVE t \in Seq(UserIds) /\ IsInjective(t) /\ Members /\ Ordered
  <2>1. t = InsertAt(s, k + 1, id)
    BY <1>1, <1>6
  <2>2. t \in Seq(UserIds)
    BY <1>3, <1>5, <2>1, InsertFacts
  <2>3. IsInjective(t)
    BY <1>3, <1>4, <1>5, <2>1, InsertFacts
  <2>4. \A y : y \in Range(t) <=> y \in Range(s) \/ y = id
    BY <1>3, <1>5, <2>1, InsertFacts
  <2>5. Ordered
    BY <1>3, <1>4, <1>5, <2>1, InsertFacts
  <2> HIDE DEF Ordered
  <2>6. Members
    BY <1>6, <2>4 DEF Joined
  <2> QED
    BY <2>2, <2>3, <2>5, <2>6
<1>7. ASSUME x # g PROVE t \in Seq(UserIds) /\ IsInjective(t) /\ Members /\ Ordered
  BY <1>1, <1>3, <1>7
<1>8. t \in Seq(UserIds) /\ IsInjective(t) /\ Members /\ Ordered
  BY <1>6, <1>7
<1>9. /\ s \in Seq(UserIds) /\ IsInjective(s)
      /\ \A y : y \in Range(s) <=> x \in DOMAIN l.groups /\ y \in Range(l.groups[x]) /\ y # id
  BY <1>3
<1> QED
  BY <1>8, <1>9 DEF s, t

\* RepositionUser keeps a list well formed.
LEMMA MovedGood ==
  ASSUME NEW l, IsList(l), GoodList(l), NEW us, NEW h \in RoleIds \cup {NoRole}, NEW id \in UserIds
  PROVE  IsList(Moved(l, us, h, id)) /\ GoodList(Moved(l, us, h, id))
<1> DEFINE m == Moved(l, us, h, id)
           g == Group(h)
<1>0. IsMoved(m, l, us, g, id)
  BY MovedParts
<1> HIDE DEF m
<1>1. /\ m = [order |-> l.order, groups |-> m.groups, view |-> MakeView(l.order, m.groups)]
      /\ m.groups = [x \in DOMAIN m.groups |-> m.groups[x]]
      /\ DOMAIN m.groups = DOMAIN l.groups \cup {g}
  BY <1>0 DEF IsMoved
<1>2. \A x \in DOMAIN l.groups : IsInjective(l.groups[x])
  BY DEF GoodList
<1>3. ASSUME NEW x \in DOMAIN m.groups
      PROVE  /\ m.groups[x] \in Seq(UserIds) /\ IsInjective(m.groups[x])
             /\ \A y : y \in Range(m.groups[x]) <=>
                         \/ x \in DOMAIN l.groups /\ y \in Range(l.groups[x]) /\ y # id
                         \/ x = g /\ y = id
  <2> HIDE DEF g
  <2>1. m.groups[x] \in Seq(UserIds) /\ IsInjective(m.groups[x])
    BY <1>0, <1>2, MovedGroups
  <2>2. \A y : y \in Range(Others(l, x, id)) <=>
                 x \in DOMAIN l.groups /\ y \in Range(l.groups[x]) /\ y # id
    BY <1>0, <1>2, MovedGroups
  <2>3. x = g => Joined(m.groups[x], Others(l, x, id), id)
    BY <1>0, <1>2, MovedGroups
  <2>4. x # g => m.groups[x] = Others(l, x, id)
    BY <1>0 DEF IsMoved
  <2> QED
    BY <2>1, <2>2, <2>3, <2>4 DEF Joined
<1>4. /\ m.order = l.order /\ m.view = MakeView(m.order, m.groups)
      /\ m = [order |-> m.order, groups |-> m.groups, view |-> m.view]
  BY <1>1
<1>5. /\ m.order \in Seq(GroupIds) /\ m.groups \in [DOMAIN m.groups -> Seq(UserIds)]
      /\ DOMAIN m.groups \subseteq GroupIds
  BY <1>1, <1>3, <1>4, GroupType DEF IsList
<1>6. \A x, y \in DOMAIN m.groups : x # y => Range(m.groups[x]) \cap Range(m.groups[y]) = {}
  <2>1. \A x, y \in DOMAIN l.groups : x # y => Range(l.groups[x]) \cap Range(l.groups[y]) = {}
    BY DEF GoodList
  <2> SUFFICES ASSUME NEW x \in DOMAIN m.groups, NEW y \in DOMAIN m.groups, x # y,
                      NEW z \in Range(m.groups[x]), z \in Range(m.groups[y])
               PROVE  FALSE
    OBVIOUS
  <2> HIDE DEF g
  <2>2. \/ x \in DOMAIN l.groups /\ z \in Range(l.groups[x]) /\ z # id
        \/ x = g /\ z = id
    BY <1>3
  <2>3. \/ y \in DOMAIN l.groups /\ z \in Range(l.groups[y]) /\ z # id
        \/ y = g /\ z = id
    BY <1>3
  <2> QED
    BY <2>1, <2>2, <2>3
<1>7. GoodList(m)
  <2>1. IsInjective(m.order) /\ Range(m.order) \subseteq DOMAIN m.groups
    BY <1>1, <1>4 DEF GoodList
  <2> QED
    BY <1>3, <1>4, <1>6, <2>1 DEF GoodList
<1>8. m.view \in Seq(UserIds \cup GroupIds)
  BY <1>5, <1>7, GoodView
<1>9. IsList(m)
  BY <1>4, <1>5, <1>8 DEF IsList
<1> QED
  BY <1>7, <1>9 DEF m

\* A list that describes everybody still does when one user is changed and moved:
\* the search finds the place that sorting would give.
LEMMA MovedDescribes ==
  ASSUME NEW l, IsList(l), GoodList(l), NEW us, NEW ho, Describes(l, us, ho),
         DOMAIN us \subseteq UserIds, DOMAIN ho = DOMAIN us, NEW id \in DOMAIN us,
         NEW user, NEW h, NEW now, now = [us EXCEPT ![id] = user], Named(now, DOMAIN us)
  PROVE  Describes(Moved(l, now, h, id), now, [ho EXCEPT ![id] = h])
<1> DEFINE m == Moved(l, now, h, id)
           g == Group(h)
           hoists == [ho EXCEPT ![id] = h]
<1>1. IsMoved(m, l, now, g, id) /\ id \in UserIds
  BY MovedParts
<1> HIDE DEF m
<1>2. \A x \in DOMAIN l.groups : IsInjective(l.groups[x])
  BY DEF GoodList
<1>3. DOMAIN m.groups = DOMAIN l.groups \cup {g}
  BY <1>1 DEF IsMoved
<1>4. /\ DOMAIN now = DOMAIN us /\ \A u \in DOMAIN us \ {id} : now[u] = us[u]
      /\ DOMAIN hoists = DOMAIN us /\ hoists[id] = h
      /\ \A u \in DOMAIN us \ {id} : hoists[u] = ho[u]
  OBVIOUS
<1> HIDE DEF hoists
<1>5. ASSUME NEW x \in DOMAIN m.groups
      PROVE  /\ Range(m.groups[x]) = {u \in DOMAIN now : Group(hoists[u]) = x}
             /\ IsInOrder(now, m.groups[x])
  <2> DEFINE s == Others(l, x, id)
  <2>1. \A y : y \in Range(s) <=> x \in DOMAIN l.groups /\ y \in Range(l.groups[x]) /\ y # id
    BY <1>1, <1>2, MovedGroups
  <2>2. x = g => Joined(m.groups[x], s, id)
    BY <1>1, <1>2, MovedGroups
  <2>3. x # g => m.groups[x] = s
    BY <1>1 DEF IsMoved
  <2>4. IsInOrder(now, s) /\ Named(now, Range(s) \cup {id}) => IsInOrder(now, m.groups[x])
    BY <1>1, <1>2, MovedGroups
  <2>5. IsInOrder(us, s)
    <3>1. CASE x \in DOMAIN l.groups
      <4>1. s = Without(l.groups[x], id) /\ l.groups[x] \in Seq(UserIds)
        BY <3>1 DEF Others, IsList
      <4>2. IsInOrder(us, l.groups[x])
        BY <3>1 DEF Describes
      <4> HIDE DEF s
      <4> QED
        BY <4>1, <4>2, WithoutFacts
    <3>2. CASE x \notin DOMAIN l.groups
      BY <3>2 DEF Others, IsInOrder
    <3> QED
      BY <3>1, <3>2
  <2>6. \A y : y \in Range(s) <=> y \in DOMAIN us /\ Group(ho[y]) = x /\ y # id
    <3>1. x \in DOMAIN l.groups => Range(l.groups[x]) = {u \in DOMAIN us : Group(ho[u]) = x}
      BY DEF Describes
    <3>2. x \notin DOMAIN l.groups => \A u \in DOMAIN us : Group(ho[u]) # x
      BY DEF Describes
    <3> HIDE DEF s
    <3> QED
      BY <2>1, <3>1, <3>2
  <2> HIDE DEF s
  <2>7. IsInOrder(now, s)
    <3>1. \A i \in DOMAIN s : s[i] \in Range(s)
      BY DEF Range
    <3>2. \A i \in DOMAIN s : now[s[i]] = us[s[i]]
      BY <1>4, <2>6, <3>1
    <3> QED
      BY <2>5, <3>2 DEF IsInOrder, Before
  <2>8. Named(now, Range(s) \cup {id})
    BY <2>6 DEF Named
  <2>9. Range(m.groups[x]) = {u \in DOMAIN now : Group(hoists[u]) = x}
    <3>1. CASE x = g
      BY <1>4, <2>2, <2>6, <3>1 DEF Joined
    <3>2. CASE x # g
      BY <1>4, <2>3, <2>6, <3>2
    <3> QED
      BY <3>1, <3>2
  <2> QED
    BY <2>4, <2>7, <2>8, <2>9
<1>6. ASSUME NEW u \in DOMAIN now PROVE Group(hoists[u]) \in DOMAIN m.groups
  <2>1. CASE u = id
    BY <1>3, <1>4, <2>1
  <2>2. CASE u # id
    <3>1. Group(ho[u]) \in DOMAIN l.groups
      BY <1>4, <2>2 DEF Describes
    <3> QED
      BY <1>3, <1>4, <2>2, <3>1
  <2> QED
    BY <2>1, <2>2
<1> QED
  BY <1>5, <1>6 DEF Describes, m, hoists

\* What an accurate list displays is what a rebuild would display.
LEMMA AccurateFresh ==
  ASSUME DataOK, IsList(list), GoodList(list), Accurate(list)
  PROVE  Fresh
<1> DEFINE order == list.order
           groups == SortedGroups(users, hoist, order)
<1>1. order \in GroupOrders(roles) /\ Describes(list, users, hoist)
  BY DEF Accurate
<1>2. order \in Seq(GroupIds) /\ order \in Seq(UserIds \cup GroupIds)
  BY DEF IsList
<1>3. ASSUME NEW n \in 1 .. Len(order)
      PROVE  /\ list.groups[order[n]] \in Seq(UserIds \cup GroupIds)
             /\ groups[order[n]] = list.groups[order[n]]
  <2> DEFINE g == order[n]
             members == {u \in DOMAIN users : Group(hoist[u]) = g}
  <2>1. g \in Range(order) /\ g \in DOMAIN list.groups
    BY <1>2 DEF Range, GoodList
  <2>2. groups[g] = InOrder(users, members)
    BY <2>1 DEF SortedGroups
  <2>3. /\ Range(list.groups[g]) = members /\ IsInOrder(users, list.groups[g])
        /\ list.groups[g] \in Seq(UserIds) /\ members \subseteq DOMAIN users
    BY <1>1, <2>1 DEF Describes, IsList
  <2> HIDE DEF g, groups, members
  <2>4. list.groups[g] \in Seq(DOMAIN users)
    BY <2>3 DEF Range
  <2>5. list.groups[g] = InOrder(users, members)
    BY <2>3, <2>4, UsersNamed, InOrderFacts
  <2> QED
    BY <2>2, <2>3, <2>5 DEF g
<1> HIDE DEF groups
<1>4. MakeView(order, list.groups) = MakeView(order, groups)
  <2> DEFINE S == UserIds \cup GroupIds
             kept == list.groups
  <2>1. order \in Seq(S)
    BY <1>2
  <2>2. \A n \in 1 .. Len(order) : kept[order[n]] \in Seq(S) /\ groups[order[n]] = kept[order[n]]
    BY <1>3
  <2> HIDE DEF S, kept, order
  <2>3. MakeView(order, kept) = MakeView(order, groups)
    BY <2>1, <2>2, ViewSame
  <2> QED
    BY <2>3 DEF kept
<1>5. MakeList(users, hoist, order).view = MakeView(order, groups)
  BY DEF MakeList, groups
<1>6. list.view = MakeView(order, list.groups)
  BY DEF GoodList
<1> QED
  BY <1>1, <1>4, <1>5, <1>6 DEF Fresh

-----------------------------------------------------------------------------
(* The steps.                                                              *)

Spans == {r \in [From : Nat, To : Nat] : r.From <= r.To}

LEMMA DiffSpans ==
  ASSUME NEW old, NEW new, NEW S, old \in Seq(S), new \in Seq(S)
  PROVE  Diff(old, new) \subseteq Spans
<1>1. DOMAIN old = 1 .. Len(old) /\ Len(old) \in Nat
  OBVIOUS
<1> QED
  BY <1>1 DEF Diff, Spans, IndexRange

LEMMA MoveSpans ==
  ASSUME NEW old, NEW new, NEW S, old \in Seq(S), new \in Seq(S), NEW id
  PROVE  MoveRange(old, new, id) \subseteq Spans
<1>1. PosIn(old, id) \in 0 .. Len(old) /\ PosIn(new, id) \in 0 .. Len(new)
  BY PosFacts
<1>2. PosIn(old, id) \in Nat /\ PosIn(new, id) \in Nat
  BY <1>1
<1> QED
  BY <1>2 DEF MoveRange, Spans, IndexRange

LEMMA EmptyList == IsList(NoList) /\ GoodList(NoList)
<1>1. NoList.order = <<>> /\ NoList.groups = <<>> /\ NoList.view = <<>>
  BY DEF NoList
<1>2. IsList(NoList)
  BY DEF IsList, NoList
<1>3. MakeView(<<>>, <<>>) = <<>>
  <2> DEFINE none == <<>>
  <2>1. none \in Seq(GroupIds) /\ Len(none) = 0 /\ none = <<>>
    OBVIOUS
  <2> HIDE DEF none
  <2>2. PICK f : Views(f, GroupIds, none, none) /\ MakeView(none, none) = f[Len(none)]
    <3>1. \A n \in 1 .. Len(none) : none[none[n]] \in Seq(GroupIds)
      BY <2>1
    <3> QED
      BY <2>1, <3>1, ViewSteps
  <2> QED
    BY <2>1, <2>2 DEF Views
<1> QED
  BY <1>1, <1>2, <1>3 DEF GoodList, IsInjective, Range

LEMMA HoistType ==
  ASSUME DataOK, NEW user, NEW h \in Hoists(user, roles)
  PROVE  h \in RoleIds \cup {NoRole}
BY DEF DataOK, Hoists

LEMMA TypeParts ==
  TypeOK <=> /\ DataOK /\ IsList(list) /\ IsList(next)
             /\ stale \in BOOLEAN /\ building \in BOOLEAN /\ raced \in BOOLEAN
             /\ changes \subseteq Spans /\ diff \subseteq Spans
<1>1. (changes \cup diff \subseteq [From : Nat, To : Nat] /\ \A r \in changes \cup diff : r.From <= r.To)
        <=> changes \subseteq Spans /\ diff \subseteq Spans
  BY DEF Spans
<1> QED
  BY <1>1 DEF TypeOK, DataOK

\* All that is proved of the states at once.
Inv == ListInv /\ FreshInv

LEMMA InvInit == Init => Inv
<1> SUFFICES ASSUME Init PROVE Inv
  OBVIOUS
<1>1. DataOK
  BY UserIndexAssumption DEF Init, DataOK
<1>2. PICK order \in GroupOrders(roles) : list = MakeList(users, hoist, order)
  BY DEF Init
<1>3. IsList(list) /\ GoodList(list) /\ Accurate(list)
  BY <1>1, <1>2, MadeList
<1>4. IsList(next) /\ GoodList(next)
  BY EmptyList DEF Init
<1>5. TypeOK
  BY <1>1, <1>3, <1>4, TypeParts DEF Init
<1> QED
  BY <1>3, <1>4, <1>5 DEF Inv, ListInv, FreshInv, Init

\* A step that leaves the list and the rebuild alone, and either marks the list
\* stale or changes neither users nor roles.
LEMMA QuietStep ==
  ASSUME Inv, DataOK', UNCHANGED <<list, build>>, stale' \in BOOLEAN, raced' \in BOOLEAN,
         changes' \subseteq Spans,
         \/ stale' = TRUE /\ raced' = (raced \/ building)
         \/ UNCHANGED <<data, stale, raced>>
  PROVE  Inv'
<1>1. ListInv'
  BY TypeParts DEF Inv, ListInv, build, TypeOK, DataOK, Spans, GoodList, IsList
<1>2. FreshInv'
  <2>1. CASE stale' = TRUE /\ raced' = (raced \/ building)
    BY <2>1 DEF Inv, FreshInv, ListInv, build, TypeOK
  <2>2. CASE UNCHANGED <<data, stale, raced>>
    BY <2>2 DEF Inv, FreshInv, build, data, Accurate
  <2> QED
    BY <2>1, <2>2
<1> QED
  BY <1>1, <1>2 DEF Inv

\* UpdateUser: nothing but the place of one user changes.
LEMMA InvUpdateUser ==
  ASSUME Inv, NEW u \in UserIds, NEW user \in User, UpdateUser(u, user)
  PROVE  Inv'
<1>1. /\ u \in DOMAIN users /\ users' = [users EXCEPT ![u] = user]
      /\ raced' = (raced \/ building) /\ UNCHANGED <<roles, stale, build>>
  BY DEF UpdateUser, Race
<1>2. PICK h \in Hoists(user, roles) : hoist' = [hoist EXCEPT ![u] = h]
  BY DEF UpdateUser
<1>3. /\ DataOK /\ IsList(list) /\ GoodList(list) /\ IsList(next) /\ GoodList(next)
      /\ stale \in BOOLEAN /\ building \in BOOLEAN /\ raced \in BOOLEAN
      /\ changes \subseteq Spans /\ diff \subseteq Spans
  BY TypeParts DEF Inv, ListInv
<1>4. h \in RoleIds \cup {NoRole}
  BY <1>2, <1>3, HoistType
<1>5. DataOK' /\ DOMAIN users' = DOMAIN users /\ hoist'[u] = h
  BY <1>1, <1>2, <1>3, <1>4 DEF DataOK
<1>6. \/ list' = Moved(list, users', h, u) /\ changes' = changes \cup MoveRange(list.view, list'.view, u)
      \/ /\ UNCHANGED <<list, changes>>
         /\ ~ \E g \in DOMAIN list.groups : Holds(list, g, u)
  BY <1>5 DEF UpdateUser
<1>7. IsList(list)' /\ GoodList(list)'
  <2>1. CASE list' = Moved(list, users', h, u)
    BY <1>3, <1>4, <2>1, MovedGood
  <2>2. CASE UNCHANGED list
    BY <1>3, <2>2 DEF IsList, GoodList
  <2> QED
    BY <1>6, <2>1, <2>2
<1>8. changes' \subseteq Spans
  <2>1. list.view \in Seq(UserIds \cup GroupIds) /\ list'.view \in Seq(UserIds \cup GroupIds)
    BY <1>3, <1>7 DEF IsList
  <2>2. MoveRange(list.view, list'.view, u) \subseteq Spans
    BY <2>1, MoveSpans
  <2> QED
    BY <1>3, <1>6, <2>2
<1>9. ListInv'
  <2>1. IsList(next)' /\ GoodList(next)' /\ diff' \subseteq Spans
    BY <1>1, <1>3 DEF build, IsList, GoodList
  <2>2. stale' \in BOOLEAN /\ building' \in BOOLEAN /\ raced' \in BOOLEAN
    BY <1>1, <1>3 DEF build
  <2>3. TypeOK'
    BY <1>5, <1>7, <1>8, <2>1, <2>2 DEF TypeOK, DataOK, Spans
  <2> QED
    BY <1>7, <2>1, <2>3 DEF ListInv
<1>10. ASSUME Accurate(list) PROVE Accurate(list)'
  <2>1. Describes(list, users, hoist) /\ list.order \in GroupOrders(roles)
    BY <1>10 DEF Accurate
  <2>2. list' = Moved(list, users', h, u)
    <3>1. Group(hoist[u]) \in DOMAIN list.groups /\ u \in Range(list.groups[Group(hoist[u])])
      BY <1>1, <2>1 DEF Describes
    <3> QED
      BY <1>6, <3>1 DEF Holds
  <2>3. Named(users', DOMAIN users)
    BY <1>5, UserIndexAssumption DEF DataOK, Named, User
  <2>4. Describes(list', users', hoist')
    BY <1>1, <1>2, <1>3, <2>1, <2>2, <2>3, MovedDescribes DEF DataOK
  <2>5. list'.order = list.order
    <3>1. IsMoved(list', list, users', Group(h), u)
      BY <1>3, <2>2, MovedParts
    <3>2. list' = [order |-> list.order, groups |-> list'.groups,
                   view |-> MakeView(list.order, list'.groups)]
      BY <3>1 DEF IsMoved
    <3> QED
      BY <3>2
  <2> QED
    BY <1>1, <2>1, <2>4, <2>5 DEF Accurate
<1>11. FreshInv'
  BY <1>1, <1>3, <1>10 DEF Inv, FreshInv, build
<1> QED
  BY <1>9, <1>11 DEF Inv

\* A rebuild: what it reads is accurate, and so is what it stores unless an
\* operation came in between.
LEMMA InvRead == ASSUME Inv, UpdateUserListRead PROVE Inv'
<1>1. PICK order \in GroupOrders(roles) : next' = MakeList(users, hoist, order)
  BY DEF UpdateUserListRead
<1>2. /\ stale = TRUE /\ building' = TRUE /\ raced' = FALSE /\ diff' = Diff(list.view, next'.view)
      /\ UNCHANGED <<data, list, stale, changes>>
  BY TypeParts DEF UpdateUserListRead, Inv, ListInv
<1>3. /\ DataOK /\ IsList(list) /\ GoodList(list) /\ changes \subseteq Spans
  BY TypeParts DEF Inv, ListInv
<1>4. IsList(next') /\ GoodList(next')
  BY <1>1, <1>3, MadeList
<1>5. Accurate(next)'
  <2>1. Accurate(MakeList(users, hoist, order))
    BY <1>3, MadeList
  <2> QED
    BY <1>1, <1>2, <2>1 DEF Accurate, data
<1>6. diff' \subseteq Spans
  <2>1. list.view \in Seq(UserIds \cup GroupIds) /\ next'.view \in Seq(UserIds \cup GroupIds)
    BY <1>3, <1>4 DEF IsList
  <2> QED
    BY <1>2, <2>1, DiffSpans
<1>7. DataOK' /\ IsList(list') /\ GoodList(list')
  BY <1>2, <1>3 DEF DataOK, data
<1>8. TypeOK'
  BY <1>2, <1>3, <1>4, <1>6, <1>7 DEF TypeOK, DataOK, Spans
<1> QED
  BY <1>2, <1>4, <1>5, <1>7, <1>8 DEF Inv, ListInv, FreshInv

LEMMA InvStore == ASSUME Inv, UpdateUserListStore PROVE Inv'
<1>1. /\ building = TRUE /\ list' = next /\ stale' = FALSE /\ changes' = changes \cup diff
      /\ building' = FALSE /\ next' = NoList /\ diff' = {} /\ UNCHANGED <<data, raced>>
  BY TypeParts DEF UpdateUserListStore, Inv, ListInv
<1>2. /\ DataOK /\ IsList(next) /\ GoodList(next) /\ changes \subseteq Spans /\ diff \subseteq Spans
      /\ raced \in BOOLEAN
  BY TypeParts DEF Inv, ListInv
<1>3. DataOK' /\ IsList(list') /\ GoodList(list') /\ IsList(next') /\ GoodList(next')
  BY <1>1, <1>2, EmptyList DEF DataOK, data
<1>4. TypeOK'
  BY <1>1, <1>2, <1>3 DEF TypeOK, DataOK, Spans
<1>5. FreshInv'
  BY <1>1, <1>2 DEF Inv, FreshInv, Accurate, data
<1> QED
  BY <1>3, <1>4, <1>5 DEF Inv, ListInv

LEMMA InvNext == Inv /\ [Next]_vars => Inv'
<1> SUFFICES ASSUME Inv, [Next]_vars PROVE Inv'
  OBVIOUS
<1>1. /\ DataOK /\ stale \in BOOLEAN /\ building \in BOOLEAN /\ raced \in BOOLEAN
      /\ changes \subseteq Spans
  BY TypeParts DEF Inv, ListInv
<1>2. CASE \E u \in UserIds, name \in Names : AddUser(u, name)
  <2>1. PICK u \in UserIds, name \in Names : AddUser(u, name)
    BY <1>2
  <2>2. DataOK'
    BY <1>1, <2>1 DEF AddUser, DataOK, Put, User
  <2> QED
    BY <1>1, <2>1, <2>2, QuietStep DEF AddUser, Race
<1>3. CASE \E u \in UserIds, user \in User : UpdateUser(u, user)
  BY <1>3, InvUpdateUser
<1>4. CASE \E r \in RoleIds, role \in Role : AddRole(r, role)
  <2>1. PICK r \in RoleIds, role \in Role : AddRole(r, role)
    BY <1>4
  <2>2. DataOK'
    BY <1>1, <2>1 DEF AddRole, DataOK, Put
  <2> QED
    BY <1>1, <2>1, <2>2, QuietStep DEF AddRole, Race
<1>5. CASE \E r \in RoleIds, role \in Role : UpdateRole(r, role)
  <2>1. PICK r \in RoleIds, role \in Role : UpdateRole(r, role)
    BY <1>5
  <2>2. DataOK'
    BY <1>1, <2>1 DEF UpdateRole, DataOK
  <2> QED
    BY <1>1, <2>1, <2>2, QuietStep DEF UpdateRole, Race
<1>6. CASE \E r \in RoleIds : DeleteRole(r)
  <2>1. PICK r \in RoleIds : DeleteRole(r)
    BY <1>6
  <2>2. DataOK'
    BY <1>1, <2>1 DEF DeleteRole, DataOK
  <2> QED
    BY <1>1, <2>1, <2>2, QuietStep DEF DeleteRole, Race
<1>7. CASE PopAllChanges
  <2>1. DataOK'
    BY <1>1, <1>7 DEF PopAllChanges, DataOK, data
  <2> QED
    BY <1>1, <1>7, <2>1, QuietStep DEF PopAllChanges
<1>8. CASE UNCHANGED vars
  <2>1. DataOK'
    BY <1>1, <1>8 DEF vars, DataOK, data
  <2> QED
    BY <1>1, <1>8, <2>1, QuietStep DEF vars
<1> QED
  BY <1>2, <1>3, <1>4, <1>5, <1>6, <1>7, <1>8, InvRead, InvStore DEF Next

LEMMA InvAlways == Spec => []Inv
  BY InvInit, InvNext, PTL DEF Spec

\* Every variable holds what the code's types say, ranges are not inverted, and
\* the groups of the list are groups (index.go: UserList, IndexRange).
THEOREM UserIndexTypeCorrect == Spec => []TypeOK
<1>1. Inv => TypeOK
  BY DEF Inv, ListInv
<1> QED
  BY <1>1, InvAlways, PTL

\* Whatever moves and rebuilds the list went through, its view is its groups in
\* order and nobody is listed twice (RepositionUser, UpdateUserList).
THEOREM UserIndexListWellFormed == Spec => []ListWellFormed
<1>1. Inv => ListWellFormed
  <2> SUFFICES ASSUME Inv PROVE ListWellFormed
    OBVIOUS
  <2>1. IsList(list) /\ GoodList(list)
    BY TypeParts DEF Inv, ListInv
  <2>2. IsInjective(list.view)
    BY <2>1, GoodView DEF IsList
  <2> QED
    BY <2>1, <2>2 DEF ListWellFormed, GoodList
<1> QED
  BY <1>1, InvAlways, PTL

\* A list that is not stale is the one a rebuild would make, unless the last
\* rebuild was overtaken (index.go:272-274): moving one user by binary search does
\* what sorting everyone does.
THEOREM UserIndexFresh == Spec => []FreshUnlessRaced
<1>1. Inv => FreshUnlessRaced
  <2> SUFFICES ASSUME Inv PROVE FreshUnlessRaced
    OBVIOUS
  <2>1. DataOK /\ IsList(list) /\ GoodList(list)
    BY TypeParts DEF Inv, ListInv
  <2> QED
    BY <2>1, AccurateFresh DEF Inv, FreshInv, FreshUnlessRaced
<1> QED
  BY <1>1, InvAlways, PTL

-----------------------------------------------------------------------------
(* What clients are told.                                                  *)

LEMMA CutFacts ==
  ASSUME NEW S, NEW s \in Seq(S), NEW f \in Nat \ {0}, NEW m \in Nat, f <= m, m <= Len(s)
  PROVE  /\ SubSeq(s, f, m) \in Seq(S) /\ Len(SubSeq(s, f, m)) = m - f + 1
         /\ \A i \in 1 .. m - f + 1 : SubSeq(s, f, m)[i] = s[f + i - 1]
OBVIOUS

\* A place in the client's range where the view does not stay.
LEMMA SliceDiffers ==
  ASSUME NEW S, NEW old \in Seq(S), NEW new \in Seq(S),
         NEW r \in [From : Nat \ {0}, To : Nat], r.From < r.To,
         ~ IsPrefix(Slice(old, r), Slice(new, r))
  PROVE  \E i \in 1 .. Len(old) : /\ r.From <= i /\ i < r.To
                                  /\ i > Len(new) \/ old[i] # new[i]
<1> SUFFICES ASSUME \A i \in 1 .. Len(old) : r.From <= i /\ i < r.To =>
                      i <= Len(new) /\ old[i] = new[i]
             PROVE  FALSE
  OBVIOUS
<1> DEFINE f == r.From
           m == IF r.To - 1 < Len(old) THEN r.To - 1 ELSE Len(old)
           n == IF r.To - 1 < Len(new) THEN r.To - 1 ELSE Len(new)
           s == Slice(old, r)
           t == Slice(new, r)
<1>1. f \in Nat \ {0} /\ r.To \in Nat /\ Len(old) \in Nat /\ Len(new) \in Nat /\ f < r.To
  OBVIOUS
<1>2. m \in Nat /\ n \in Nat /\ m <= Len(old) /\ n <= Len(new) /\ m < r.To
  BY <1>1
<1>3. s = SubSeq(old, f, m) /\ t = SubSeq(new, f, n)
  BY DEF Slice
<1>4. f <= m => m <= n
  <2>1. m \in 1 .. Len(old) /\ f <= m => m <= Len(new)
    BY <1>1, <1>2
  <2> QED
    BY <1>1, <1>2, <2>1
<1>5. \A i \in f .. m : old[i] = new[i]
  <2>1. \A i \in f .. m : i \in 1 .. Len(old) /\ f <= i /\ i < r.To
    BY <1>1, <1>2
  <2> QED
    BY <2>1
<1> HIDE DEF f, m, n, s, t
<1>6. CASE f <= m
  <2>1. s \in Seq(S) /\ Len(s) = m - f + 1 /\ \A i \in 1 .. m - f + 1 : s[i] = old[f + i - 1]
    BY <1>1, <1>2, <1>3, <1>6, CutFacts
  <2>2. t \in Seq(S) /\ Len(t) = n - f + 1 /\ \A i \in 1 .. n - f + 1 : t[i] = new[f + i - 1]
    BY <1>1, <1>2, <1>3, <1>4, <1>6, CutFacts
  <2>3. Len(s) <= Len(t)
    BY <1>1, <1>2, <1>4, <1>6, <2>1, <2>2
  <2>4. ASSUME NEW i \in 1 .. Len(s) PROVE s[i] = t[i]
    <3>1. i \in 1 .. m - f + 1 /\ i \in 1 .. n - f + 1 /\ f + i - 1 \in f .. m
      BY <1>1, <1>2, <1>4, <1>6, <2>1, <2>2
    <3> QED
      BY <1>5, <2>1, <2>2, <3>1
  <2>5. SubSeq(s, 1, Len(s)) = SubSeq(t, 1, Len(s))
    <3>1. /\ SubSeq(s, 1, Len(s)) = [i \in 1 .. Len(s) |-> s[i]]
          /\ SubSeq(t, 1, Len(s)) = [i \in 1 .. Len(s) |-> t[i]]
      BY <2>1, <2>2, <2>3
    <3> QED
      BY <2>4, <3>1
  <2> QED
    BY <2>3, <2>5 DEF IsPrefix, s, t
<1>7. CASE ~ (f <= m)
  <2>1. s = <<>>
    BY <1>1, <1>2, <1>3, <1>7
  <2>2. t \in Seq(S)
    BY <1>1, <1>2, <1>3
  <2>3. Len(s) = 0 /\ Len(s) <= Len(t) /\ SubSeq(s, 1, 0) = <<>> /\ SubSeq(t, 1, 0) = <<>>
    BY <2>1, <2>2
  <2> QED
    BY <2>3 DEF IsPrefix, s, t
<1> QED
  BY <1>6, <1>7

\* Every changed position is in a maximal run of them.
LEMMA RunExists ==
  ASSUME NEW N \in Nat, NEW changed \in SUBSET (1 .. N), NEW i \in changed
  PROVE  \E f \in changed, t \in 2 .. N + 1 :
           /\ f <= i /\ i < t
           /\ f .. t - 1 \subseteq changed
           /\ f - 1 \notin changed /\ t \notin changed
<1> DEFINE Begins(f) == f <= i /\ f .. i \subseteq changed /\ f - 1 \notin changed
           Ends(t) == i < t /\ i .. t - 1 \subseteq changed /\ t \notin changed
           Down == {k \in 0 .. N : \/ \E f \in changed : Begins(f)
                                   \/ i - k .. i \subseteq changed}
           Up == {k \in 0 .. N : \/ \E t \in 2 .. N + 1 : Ends(t)
                                 \/ i .. i + k \subseteq changed}
<1>1. i \in 1 .. N
  OBVIOUS
<1>2. PICK f \in changed : Begins(f)
  <2>1. 0 \in Down
    BY <1>1
  <2>2. ASSUME NEW k \in 0 .. N - 1, k \in Down PROVE k + 1 \in Down
    <3>1. CASE \E f \in changed : Begins(f)
      BY <3>1
    <3>2. CASE i - k .. i \subseteq changed
      <4> DEFINE f == i - k
      <4>1. f \in changed /\ f <= i /\ f .. i \subseteq changed /\ f \in Int
        BY <1>1, <3>2
      <4>2. CASE f - 1 \notin changed
        <5>1. Begins(f)
          BY <4>1, <4>2
        <5> HIDE DEF f, Begins
        <5> QED
          BY <4>1, <5>1
      <4>3. CASE f - 1 \in changed
        <5>1. \A j \in i - (k + 1) .. i : j = f - 1 \/ j \in f .. i
          BY <1>1
        <5>2. i - (k + 1) .. i \subseteq changed
          BY <4>1, <4>3, <5>1
        <5> QED
          BY <5>2
      <4> QED
        BY <4>2, <4>3
    <3> QED
      BY <2>2, <3>1, <3>2
  <2>3. \A k \in 0 .. N : k \in Down
    <3> HIDE DEF Down
    <3> QED
      BY <2>1, <2>2, Induction
  <2>4. N \in Down /\ i - N \in i - N .. i /\ i - N \notin changed
    BY <1>1, <2>3
  <2> QED
    BY <2>4
<1>3. PICK t \in 2 .. N + 1 : Ends(t)
  <2>1. 0 \in Up
    BY <1>1
  <2>2. ASSUME NEW k \in 0 .. N - 1, k \in Up PROVE k + 1 \in Up
    <3>1. CASE \E t \in 2 .. N + 1 : Ends(t)
      BY <3>1
    <3>2. CASE i .. i + k \subseteq changed
      <4> DEFINE t == i + k + 1
      <4>1. t - 1 \in changed /\ t \in Int /\ i < t /\ i .. t - 1 \subseteq changed
        BY <1>1, <3>2
      <4>2. CASE t \notin changed
        <5>1. Ends(t) /\ t \in 2 .. N + 1
          BY <1>1, <4>1, <4>2
        <5> HIDE DEF t, Ends
        <5> QED
          BY <5>1
      <4>3. CASE t \in changed
        <5>1. \A j \in i .. i + (k + 1) : j = t \/ j \in i .. t - 1
          BY <1>1
        <5>2. i .. i + (k + 1) \subseteq changed
          BY <4>1, <4>3, <5>1
        <5> QED
          BY <5>2
      <4> QED
        BY <4>2, <4>3
    <3> QED
      BY <2>2, <3>1, <3>2
  <2>3. \A k \in 0 .. N : k \in Up
    <3> HIDE DEF Up
    <3> QED
      BY <2>1, <2>2, Induction
  <2>4. N \in Up /\ i + N \in i .. i + N /\ i + N \notin changed
    BY <1>1, <2>3
  <2> QED
    BY <2>4
<1>4. f \in Int /\ t \in Int /\ f .. t - 1 \subseteq changed
  BY <1>1, <1>2, <1>3
<1> QED
  BY <1>2, <1>3, <1>4

\* The ranges of a rebuild leave out no change of a row.
LEMMA DiffCovers ==
  ASSUME NEW S, NEW old \in Seq(S), NEW new \in Seq(S),
         NEW r \in [From : Nat \ {0}, To : Nat], r.From < r.To,
         ~ IsPrefix(Slice(old, r), Slice(new, r))
  PROVE  \E change \in Diff(old, new) : Overlaps(r, change)
<1> DEFINE N == Len(old)
           changed == {i \in DOMAIN old : i > Len(new) \/ old[i] # new[i]}
<1>1. N \in Nat /\ DOMAIN old = 1 .. N /\ changed \in SUBSET (1 .. N)
  OBVIOUS
<1>2. PICK i \in changed : r.From <= i /\ i < r.To
  BY SliceDiffers
<1>3. PICK f \in changed, t \in 2 .. N + 1 :
        /\ f <= i /\ i < t /\ f .. t - 1 \subseteq changed
        /\ f - 1 \notin changed /\ t \notin changed
  <2> HIDE DEF N, changed
  <2> QED
    BY <1>1, <1>2, RunExists
<1> DEFINE change == IndexRange(f, t)
<1>4. change \in [From : changed, To : 2 .. N + 1] /\ change.From = f /\ change.To = t
  BY DEF IndexRange
<1>5. f \in Nat /\ t \in Nat /\ i \in Nat
  BY <1>1
<1>6. Overlaps(r, change)
  BY <1>2, <1>3, <1>4, <1>5 DEF Overlaps
<1>7. change \in Diff(old, new)
  <2>1. {c \in [From : changed, To : 2 .. N + 1] :
           /\ c.From < c.To /\ c.From .. c.To - 1 \subseteq changed
           /\ c.From - 1 \notin changed /\ c.To \notin changed} \subseteq Diff(old, new)
    BY DEF Diff
  <2>2. f < t
    BY <1>3, <1>5
  <2> HIDE DEF change, changed, N
  <2> QED
    BY <1>3, <1>4, <2>1, <2>2
<1> QED
  BY <1>6, <1>7

\* w is s without the user, and the user is or is not once in s.
PutAt(s, w, u, p) ==
  /\ Len(s) = Len(w) + 1 /\ s[p] = u
  /\ \A i \in 1 .. p - 1 : s[i] = w[i]
  /\ \A i \in p .. Len(w) : s[i + 1] = w[i]

Taken(s, w, u) ==
  u \notin Range(w) /\ (s = w \/ \E p \in 1 .. Len(w) + 1 : PutAt(s, w, u, p))

\* Where it is put in a concatenation.
LEMMA PutFront ==
  ASSUME NEW S, NEW a \in Seq(S), NEW w \in Seq(S), NEW b \in Seq(S), NEW u,
         NEW p \in 1 .. Len(w) + 1, PutAt(a, w, u, p)
  PROVE  PutAt(a \o b, w \o b, u, p) /\ p \in 1 .. Len(w \o b) + 1
<1> DEFINE s == a \o b
           t == w \o b
<1>1. /\ Len(w) \in Nat /\ Len(b) \in Nat /\ Len(a) = Len(w) + 1 /\ a[p] = u
      /\ \A i \in 1 .. p - 1 : a[i] = w[i]
      /\ \A i \in p .. Len(w) : a[i + 1] = w[i]
  BY DEF PutAt
<1>2. /\ Len(s) = Len(a) + Len(b)
      /\ \A i \in 1 .. Len(a) : s[i] = a[i]
      /\ \A i \in 1 .. Len(b) : s[Len(a) + i] = b[i]
  BY ConcatFacts
<1>3. /\ Len(t) = Len(w) + Len(b)
      /\ \A i \in 1 .. Len(w) : t[i] = w[i]
      /\ \A i \in 1 .. Len(b) : t[Len(w) + i] = b[i]
  BY ConcatFacts
<1> HIDE DEF s, t
<1>4. Len(s) = Len(t) + 1 /\ s[p] = u /\ p \in 1 .. Len(t) + 1
  <2>1. p \in 1 .. Len(a)
    BY <1>1
  <2> QED
    BY <1>1, <1>2, <1>3, <2>1
<1>5. ASSUME NEW i \in 1 .. p - 1 PROVE s[i] = t[i]
  <2>1. i \in 1 .. Len(a) /\ i \in 1 .. Len(w)
    BY <1>1
  <2> QED
    BY <1>1, <1>2, <1>3, <2>1
<1>6. ASSUME NEW i \in p .. Len(t) PROVE s[i + 1] = t[i]
  <2>1. CASE i \in p .. Len(w)
    <3>1. i + 1 \in 1 .. Len(a) /\ i \in 1 .. Len(w)
      BY <1>1, <2>1
    <3> QED
      BY <1>1, <1>2, <1>3, <2>1, <3>1
  <2>2. CASE ~ (i \in p .. Len(w))
    <3> DEFINE j == i - Len(w)
    <3>1. j \in 1 .. Len(b) /\ Len(w) + j = i /\ Len(a) + j = i + 1
      BY <1>1, <1>3, <2>2
    <3> HIDE DEF j
    <3>2. s[Len(a) + j] = b[j] /\ t[Len(w) + j] = b[j]
      BY <1>2, <1>3, <3>1
    <3> QED
      BY <3>1, <3>2
  <2> QED
    BY <2>1, <2>2
<1>7. PutAt(s, t, u, p) /\ p \in 1 .. Len(t) + 1
  BY <1>4, <1>5, <1>6 DEF PutAt
<1> QED
  BY <1>7 DEF s, t

LEMMA PutBack ==
  ASSUME NEW S, NEW a \in Seq(S), NEW w \in Seq(S), NEW b \in Seq(S), NEW u,
         NEW p \in 1 .. Len(w) + 1, PutAt(a, w, u, p)
  PROVE  PutAt(b \o a, b \o w, u, Len(b) + p) /\ Len(b) + p \in 1 .. Len(b \o w) + 1
<1> DEFINE s == b \o a
           t == b \o w
           q == Len(b) + p
<1>1. /\ Len(w) \in Nat /\ Len(b) \in Nat /\ Len(a) = Len(w) + 1 /\ a[p] = u
      /\ \A i \in 1 .. p - 1 : a[i] = w[i]
      /\ \A i \in p .. Len(w) : a[i + 1] = w[i]
  BY DEF PutAt
<1>2. /\ Len(s) = Len(b) + Len(a)
      /\ \A i \in 1 .. Len(b) : s[i] = b[i]
      /\ \A i \in 1 .. Len(a) : s[Len(b) + i] = a[i]
  BY ConcatFacts
<1>3. /\ Len(t) = Len(b) + Len(w)
      /\ \A i \in 1 .. Len(b) : t[i] = b[i]
      /\ \A i \in 1 .. Len(w) : t[Len(b) + i] = w[i]
  BY ConcatFacts
<1> HIDE DEF s, t
<1>4. Len(s) = Len(t) + 1 /\ s[q] = u /\ q \in 1 .. Len(t) + 1
  <2>1. p \in 1 .. Len(a)
    BY <1>1
  <2>2. s[Len(b) + p] = a[p]
    BY <1>2, <2>1
  <2> QED
    BY <1>1, <1>2, <1>3, <2>2
<1>5. ASSUME NEW i \in 1 .. q - 1 PROVE s[i] = t[i]
  <2>1. CASE i \in 1 .. Len(b)
    BY <1>2, <1>3, <2>1
  <2>2. CASE ~ (i \in 1 .. Len(b))
    <3> DEFINE j == i - Len(b)
    <3>1. j \in 1 .. p - 1 /\ j \in 1 .. Len(w) /\ j \in 1 .. Len(a) /\ Len(b) + j = i
      BY <1>1, <2>2
    <3> HIDE DEF j
    <3>2. s[Len(b) + j] = a[j] /\ t[Len(b) + j] = w[j] /\ a[j] = w[j]
      BY <1>1, <1>2, <1>3, <3>1
    <3> QED
      BY <3>1, <3>2
  <2> QED
    BY <2>1, <2>2
<1>6. ASSUME NEW i \in q .. Len(t) PROVE s[i + 1] = t[i]
  <2> DEFINE j == i - Len(b)
  <2>1. /\ j \in p .. Len(w) /\ j \in 1 .. Len(w) /\ j + 1 \in 1 .. Len(a)
        /\ Len(b) + j = i /\ Len(b) + (j + 1) = i + 1
    BY <1>1, <1>3
  <2> HIDE DEF j
  <2>2. s[Len(b) + (j + 1)] = a[j + 1] /\ t[Len(b) + j] = w[j] /\ a[j + 1] = w[j]
    BY <1>1, <1>2, <1>3, <2>1
  <2> QED
    BY <2>1, <2>2
<1>7. PutAt(s, t, u, q) /\ q \in 1 .. Len(t) + 1
  BY <1>4, <1>5, <1>6 DEF PutAt
<1> QED
  BY <1>7 DEF s, t

LEMMA PutThere ==
  ASSUME NEW S, NEW s \in Seq(S), NEW w \in Seq(S), NEW u, NEW p \in 1 .. Len(w) + 1,
         PutAt(s, w, u, p)
  PROVE  u \in Range(s)
<1>1. p \in DOMAIN s /\ s[p] = u
  BY DEF PutAt
<1> QED
  BY <1>1 DEF Range

LEMMA TakenConcat ==
  ASSUME NEW S, NEW a \in Seq(S), NEW wa \in Seq(S), NEW b \in Seq(S), NEW wb \in Seq(S), NEW u,
         Taken(a, wa, u), Taken(b, wb, u), u \notin Range(a) \/ u \notin Range(b)
  PROVE  Taken(a \o b, wa \o wb, u)
<1>1. u \notin Range(wa \o wb)
  <2>1. Range(wa \o wb) = Range(wa) \cup Range(wb)
    BY ConcatInjective
  <2> QED
    BY <2>1 DEF Taken
<1>2. CASE a = wa /\ b = wb
  BY <1>1, <1>2 DEF Taken
<1>3. CASE b = wb /\ \E p \in 1 .. Len(wa) + 1 : PutAt(a, wa, u, p)
  BY <1>1, <1>3, PutFront DEF Taken
<1>4. CASE a = wa /\ \E p \in 1 .. Len(wb) + 1 : PutAt(b, wb, u, p)
  BY <1>1, <1>4, PutBack DEF Taken
<1>5. \A p \in 1 .. Len(wa) + 1 : PutAt(a, wa, u, p) => u \in Range(a)
  BY PutThere
<1>6. \A p \in 1 .. Len(wb) + 1 : PutAt(b, wb, u, p) => u \in Range(b)
  BY PutThere
<1> QED
  BY <1>2, <1>3, <1>4, <1>5, <1>6 DEF Taken

\* Taking a user out of the groups takes it out of the view.
LEMMA ViewTaken ==
  ASSUME NEW S, NEW order \in Seq(S), NEW groups, NEW rest, NEW u,
         \A n \in 1 .. Len(order) :
           /\ groups[order[n]] \in Seq(S) /\ rest[order[n]] \in Seq(S)
           /\ order[n] # u /\ Taken(groups[order[n]], rest[order[n]], u),
         \A m, n \in 1 .. Len(order) :
           u \in Range(groups[order[m]]) /\ u \in Range(groups[order[n]]) => m = n
  PROVE  Taken(MakeView(order, groups), MakeView(order, rest), u)
<1> DEFINE N == Len(order)
<1>1. PICK f : Views(f, S, order, groups) /\ MakeView(order, groups) = f[N]
  BY ViewSteps
<1>2. PICK g : Views(g, S, order, rest) /\ MakeView(order, rest) = g[N]
  BY ViewSteps
<1> DEFINE P == {n \in 0 .. N : /\ Taken(f[n], g[n], u)
                                /\ u \in Range(f[n]) =>
                                     \E m \in 1 .. n : u \in Range(groups[order[m]])}
<1>3. N \in Nat
  OBVIOUS
<1>4. 0 \in P
  <2>1. f[0] = <<>> /\ g[0] = <<>> /\ 0 \in 0 .. N
    BY <1>1, <1>2, <1>3 DEF Views
  <2>2. Range(<<>>) = {}
    BY DEF Range
  <2> QED
    BY <2>1, <2>2 DEF Taken
<1>5. ASSUME NEW n \in 0 .. N - 1, n \in P PROVE n + 1 \in P
  <2> DEFINE m == n + 1
             h == <<order[m]>>
             t == groups[order[m]]
             w == rest[order[m]]
  <2>1. m \in 1 .. N /\ m \in 0 .. N /\ m - 1 = n /\ n \in 0 .. N
        /\ (\A k \in 1 .. n : k \in 1 .. N /\ k # m /\ k \in 1 .. m) /\ m \in 1 .. m
    BY <1>3
  <2>2. /\ Taken(f[n], g[n], u) /\ f[n] \in Seq(S) /\ g[n] \in Seq(S)
        /\ u \in Range(f[n]) => \E k \in 1 .. n : u \in Range(groups[order[k]])
    BY <1>1, <1>2, <1>5, <2>1 DEF Views
  <2>3. h \in Seq(S) /\ Range(h) = {order[m]} /\ order[m] # u
    <3>1. order[m] \in S
      BY <2>1
    <3>2. DOMAIN h = {1} /\ h[1] = order[m]
      OBVIOUS
    <3> QED
      BY <2>1, <3>1, <3>2 DEF Range
  <2>4. t \in Seq(S) /\ w \in Seq(S) /\ Taken(t, w, u)
    BY <2>1
  <2>5. u \in Range(t) => u \notin Range(f[n])
    BY <2>1, <2>2
  <2>6. f[m] = f[n] \o h \o t
    BY <1>1, <2>1 DEF Views
  <2>7. g[m] = g[n] \o h \o w
    BY <1>2, <2>1 DEF Views
  <2> HIDE DEF m, h, t, w
  <2>8. Taken(h, h, u)
    BY <2>3 DEF Taken
  <2> DEFINE a == f[n] \o h
             b == g[n] \o h
  <2>9. a \in Seq(S) /\ b \in Seq(S) /\ Range(a) = Range(f[n]) \cup Range(h)
    <3>1. Range(a) = Range(f[n]) \cup Range(h)
      BY <2>2, <2>3, ConcatInjective
    <3> QED
      BY <2>2, <2>3, <3>1
  <2>10. Taken(a, b, u)
    BY <2>2, <2>3, <2>8, TakenConcat
  <2>11. f[m] = a \o t /\ g[m] = b \o w
    BY <2>6, <2>7
  <2> HIDE DEF a, b
  <2>12. Taken(f[m], g[m], u)
    <3>1. u \notin Range(a) \/ u \notin Range(t)
      BY <2>3, <2>5, <2>9
    <3> QED
      BY <2>4, <2>9, <2>10, <2>11, <3>1, TakenConcat
  <2>13. Range(f[m]) = Range(a) \cup Range(t)
    BY <2>4, <2>9, <2>11, ConcatInjective
  <2>14. u \in Range(f[m]) => \E k \in 1 .. m : u \in Range(groups[order[k]])
    BY <2>1, <2>2, <2>3, <2>9, <2>13 DEF t
  <2>15. m \in P
    BY <2>1, <2>12, <2>14
  <2> QED
    BY <2>15 DEF m
<1> HIDE DEF P
<1>6. \A n \in 0 .. N : n \in P
  BY <1>3, <1>4, <1>5, Induction
<1>7. N \in P
  BY <1>3, <1>6
<1> QED
  BY <1>1, <1>2, <1>7 DEF P

LEMMA WithoutTaken ==
  ASSUME NEW S, NEW s \in Seq(S), IsInjective(s), NEW id
  PROVE  Taken(s, Without(s, id), id)
<1> DEFINE w == Without(s, id)
           p == PosIn(s, id)
<1>1. id \notin Range(w) /\ w \in Seq(S)
  BY WithoutFacts
<1>2. CASE id \notin Range(s)
  <2>1. w = s
    BY <1>2 DEF Without
  <2> QED
    BY <1>2, <2>1 DEF Taken
<1>3. CASE id \in Range(s)
  <2>1. p \in DOMAIN s /\ s[p] = id
    BY <1>3, PosFacts
  <2>2. p \in 1 .. Len(s) /\ w = RemoveAt(s, p)
    BY <1>3, <2>1 DEF Without
  <2> HIDE DEF p, w
  <2>3. /\ Len(w) = Len(s) - 1
        /\ \A i \in 1 .. p - 1 : w[i] = s[i]
        /\ \A i \in p .. Len(s) - 1 : w[i] = s[i + 1]
    BY <2>2, RemovePlaces
  <2>4. PutAt(s, w, id, p) /\ p \in 1 .. Len(w) + 1
    BY <2>1, <2>2, <2>3 DEF PutAt
  <2> QED
    BY <1>1, <2>4 DEF Taken, w
<1> QED
  BY <1>2, <1>3

\* The views before and after a move are the same but for the user.
LEMMA MovedTaken ==
  ASSUME NEW l, IsList(l), GoodList(l), NEW us, NEW h \in RoleIds \cup {NoRole}, NEW id \in UserIds
  PROVE  \E w \in Seq(UserIds \cup GroupIds) :
           Taken(l.view, w, id) /\ Taken(Moved(l, us, h, id).view, w, id)
<1> DEFINE S == UserIds \cup GroupIds
           m == Moved(l, us, h, id)
           g == Group(h)
           order == l.order
           old == l.groups
           new == m.groups
           rest == [x \in DOMAIN l.groups |-> Others(l, x, id)]
<1>1. IsMoved(m, l, us, g, id)
  BY MovedParts
<1>2. IsList(m) /\ GoodList(m)
  BY MovedGood
<1> HIDE DEF m
<1>3. /\ m = [order |-> l.order, groups |-> m.groups, view |-> MakeView(l.order, m.groups)]
      /\ DOMAIN new = DOMAIN old \cup {g}
  BY <1>1 DEF IsMoved
<1>4. /\ order \in Seq(GroupIds) /\ order \in Seq(S) /\ Range(order) \subseteq DOMAIN old
      /\ IsInjective(order) /\ m.order = order
      /\ l.view = MakeView(order, old) /\ m.view = MakeView(order, new)
  BY <1>3 DEF IsList, GoodList
<1>5. \A x \in DOMAIN old : old[x] \in Seq(UserIds) /\ IsInjective(old[x])
  BY DEF IsList, GoodList
<1>6. ASSUME NEW x \in DOMAIN old
      PROVE  /\ old[x] \in Seq(S) /\ new[x] \in Seq(S) /\ rest[x] \in Seq(S)
             /\ Taken(old[x], rest[x], id) /\ Taken(new[x], rest[x], id)
  <2> DEFINE s == rest[x]
  <2>1. s = Others(l, x, id) /\ s = Without(old[x], id)
    BY DEF Others
  <2> HIDE DEF s
  <2>2. s \in Seq(UserIds) /\ Taken(old[x], s, id)
    <3>1. s \in Seq(UserIds)
      BY <1>5, <2>1, WithoutFacts
    <3> QED
      BY <1>5, <2>1, <3>1, WithoutTaken
  <2>3. new[x] \in Seq(UserIds)
    BY <1>2, <1>3 DEF IsList
  <2>4. Taken(new[x], s, id)
    <3>1. CASE x # g
      <4>1. new[x] = s
        BY <1>1, <1>3, <2>1, <3>1 DEF IsMoved
      <4> QED
        BY <2>2, <4>1 DEF Taken
    <3>2. CASE x = g
      <4> DEFINE k == Search(us, s, id)
      <4>1. new[x] = InsertAt(s, k + 1, id)
        BY <1>1, <2>1, <3>2 DEF IsMoved
      <4>2. k \in 0 .. Len(s)
        BY <2>2, SearchFacts
      <4> HIDE DEF k
      <4>3. /\ Len(new[x]) = Len(s) + 1 /\ new[x][k + 1] = id
            /\ \A i \in 1 .. k : new[x][i] = s[i]
            /\ \A i \in k + 1 .. Len(s) : new[x][i + 1] = s[i]
        <5> DEFINE t == InsertAt(s, k + 1, id)
        <5>1. Len(t) = Len(s) + 1 /\ t[k + 1] = id
          BY <2>2, <4>2, InsertPlaces
        <5>2. \A i \in 1 .. k : t[i] = s[i]
          BY <2>2, <4>2, InsertPlaces
        <5>3. \A i \in k + 1 .. Len(s) : t[i + 1] = s[i]
          BY <2>2, <4>2, InsertPlaces
        <5> HIDE DEF t
        <5>4. new[x] = t
          BY <4>1 DEF t
        <5> QED
          BY <5>1, <5>2, <5>3, <5>4
      <4>4. PutAt(new[x], s, id, k + 1) /\ k + 1 \in 1 .. Len(s) + 1
        <5>1. (k + 1) - 1 = k /\ k + 1 \in 1 .. Len(s) + 1
          BY <2>2, <4>2
        <5> QED
          BY <4>3, <5>1 DEF PutAt
      <4> QED
        BY <2>2, <4>4 DEF Taken
    <3> QED
      BY <3>1, <3>2
  <2> QED
    BY <1>5, <2>2, <2>3, <2>4 DEF s
<1>7. \A n \in 1 .. Len(order) : order[n] \in DOMAIN old /\ order[n] # id
  <2>1. \A n \in 1 .. Len(order) : order[n] \in Range(order) /\ order[n] \in GroupIds
    BY <1>4 DEF Range
  <2> QED
    BY <1>4, <2>1, GroupType
<1>8. ASSUME NEW j \in 1 .. Len(order), NEW n \in 1 .. Len(order),
             \/ id \in Range(old[order[j]]) /\ id \in Range(old[order[n]])
             \/ id \in Range(new[order[j]]) /\ id \in Range(new[order[n]])
      PROVE  j = n
  <2>1. order[j] = order[n]
    <3>1. \A x, y \in DOMAIN old : x # y => Range(old[x]) \cap Range(old[y]) = {}
      BY DEF GoodList
    <3>2. \A x, y \in DOMAIN new : x # y => Range(new[x]) \cap Range(new[y]) = {}
      BY <1>2 DEF GoodList
    <3> QED
      BY <1>3, <1>7, <1>8, <3>1, <3>2
  <2> QED
    BY <1>4, <2>1 DEF IsInjective
<1> HIDE DEF rest, S, order, old, new
<1> DEFINE w == MakeView(order, rest)
<1>9. Taken(MakeView(order, old), w, id)
  BY <1>4, <1>6, <1>7, <1>8, ViewTaken
<1>10. Taken(MakeView(order, new), w, id)
  BY <1>4, <1>6, <1>7, <1>8, ViewTaken
<1>11. w \in Seq(S)
  <2>1. PICK f : Views(f, S, order, rest) /\ w = f[Len(order)]
    BY <1>4, <1>6, <1>7, ViewSteps
  <2> QED
    BY <1>4, <2>1 DEF Views
<1> QED
  BY <1>4, <1>9, <1>10, <1>11 DEF S, m

LEMMA PutPlace ==
  ASSUME NEW S, NEW s \in Seq(S), NEW w \in Seq(S), NEW u, u \notin Range(w),
         NEW p \in 1 .. Len(w) + 1, PutAt(s, w, u, p)
  PROVE  PosIn(s, u) = p
<1> DEFINE q == PosIn(s, u)
<1>1. u \in Range(s)
  BY PutThere
<1>2. q \in DOMAIN s /\ s[q] = u
  BY <1>1, PosFacts
<1> HIDE DEF q
<1>3. q \in 1 .. Len(w) + 1
  BY <1>2 DEF PutAt
<1>4. \A i \in 1 .. Len(w) : w[i] # u
  BY DEF Range
<1>5. CASE q \in 1 .. p - 1
  <2>1. q \in 1 .. Len(w) /\ s[q] = w[q]
    BY <1>5 DEF PutAt
  <2> QED
    BY <1>2, <1>4, <2>1
<1>6. CASE q - 1 \in p .. Len(w)
  <2>1. q - 1 \in 1 .. Len(w) /\ (q - 1) + 1 = q
    BY <1>3, <1>6
  <2>2. s[q] = w[q - 1]
    BY <1>6, <2>1 DEF PutAt
  <2> QED
    BY <1>2, <1>4, <2>1, <2>2
<1> QED
  BY <1>3, <1>5, <1>6 DEF q

\* When a user moves in the view, only the rows between its two places change.
LEMMA MoveCovers ==
  ASSUME NEW S, NEW old \in Seq(S), NEW new \in Seq(S), NEW w \in Seq(S), NEW id,
         Taken(old, w, id), Taken(new, w, id), Range(old) = Range(new),
         NEW r \in [From : Nat \ {0}, To : Nat], r.From < r.To,
         ~ IsPrefix(Slice(old, r), Slice(new, r))
  PROVE  \E change \in MoveRange(old, new, id) : Overlaps(r, change)
<1>1. PICK i \in 1 .. Len(old) : /\ r.From <= i /\ i < r.To
                                 /\ i > Len(new) \/ old[i] # new[i]
  BY SliceDiffers
<1>2. old # new
  BY <1>1
<1>3. PICK p \in 1 .. Len(w) + 1, q \in 1 .. Len(w) + 1 :
        PutAt(old, w, id, p) /\ PutAt(new, w, id, q)
  <2>1. \A x \in 1 .. Len(w) + 1 : PutAt(old, w, id, x) => id \in Range(old)
    BY PutThere
  <2>2. \A x \in 1 .. Len(w) + 1 : PutAt(new, w, id, x) => id \in Range(new)
    BY PutThere
  <2> QED
    BY <1>2, <2>1, <2>2 DEF Taken
<1>4. PosIn(old, id) = p /\ PosIn(new, id) = q
  BY <1>3, PutPlace DEF Taken
<1> DEFINE a == IF p < q THEN p ELSE q
           b == IF p < q THEN q ELSE p
<1>5. p \in Nat /\ q \in Nat /\ a \in Nat /\ b \in Nat /\ i \in Nat /\ q # 0
  OBVIOUS
<1>6. a <= i /\ i <= b
  <2>1. Len(old) = Len(w) + 1 /\ Len(new) = Len(w) + 1 /\ Len(w) \in Nat
    BY <1>3 DEF PutAt
  <2>2. CASE i < a
    <3>1. i \in 1 .. p - 1 /\ i \in 1 .. q - 1
      BY <1>5, <2>2
    <3> QED
      BY <1>1, <1>3, <2>1, <3>1 DEF PutAt
  <2>3. CASE b < i
    <3>1. i - 1 \in p .. Len(w) /\ i - 1 \in q .. Len(w) /\ (i - 1) + 1 = i
      BY <1>5, <2>1, <2>3
    <3>2. old[i] = w[i - 1] /\ new[i] = w[i - 1]
      BY <1>3, <3>1 DEF PutAt
    <3> QED
      BY <1>1, <2>1, <3>2
  <2> HIDE DEF a, b
  <2> QED
    BY <1>5, <2>2, <2>3
<1> DEFINE change == IndexRange(a, b + 1)
<1>7. change \in MoveRange(old, new, id)
  BY <1>4, <1>5 DEF MoveRange
<1>8. change.From = a /\ change.To = b + 1
  BY DEF IndexRange
<1> HIDE DEF change, a, b
<1>9. Overlaps(r, change)
  BY <1>1, <1>5, <1>6, <1>8 DEF Overlaps
<1> QED
  BY <1>7, <1>9

\* Two views that are the same without a user list the same others.
LEMMA TakenRange ==
  ASSUME NEW S, NEW old \in Seq(S), NEW new \in Seq(S), NEW w \in Seq(S), NEW id,
         Taken(old, w, id), Taken(new, w, id),
         NEW v \in Range(new), v \notin Range(old)
  PROVE  v = id
<1> SUFFICES ASSUME v # id PROVE FALSE
  OBVIOUS
<1>1. v \in Range(w)
  <2>1. PICK i \in DOMAIN new : new[i] = v
    BY DEF Range
  <2>2. CASE new = w
    BY <2>2
  <2>3. ASSUME NEW p \in 1 .. Len(w) + 1, PutAt(new, w, id, p) PROVE v \in Range(w)
    <3>1. i \in 1 .. Len(w) + 1 /\ i # p
      BY <2>1, <2>3 DEF PutAt
    <3>2. CASE i \in 1 .. p - 1
      <4>1. new[i] = w[i] /\ i \in DOMAIN w
        BY <2>3, <3>2 DEF PutAt
      <4> QED
        BY <2>1, <4>1 DEF Range
    <3>3. CASE i - 1 \in p .. Len(w)
      <4>1. i - 1 \in DOMAIN w /\ (i - 1) + 1 = i
        BY <3>1, <3>3
      <4>2. new[i] = w[i - 1]
        BY <2>3, <3>3, <4>1 DEF PutAt
      <4> QED
        BY <2>1, <4>1, <4>2 DEF Range
    <3> QED
      BY <3>1, <3>2, <3>3
  <2> QED
    BY <2>2, <2>3 DEF Taken
<1>2. PICK j \in DOMAIN w : w[j] = v
  BY <1>1 DEF Range
<1>3. ASSUME NEW p \in 1 .. Len(w) + 1, PutAt(old, w, id, p) PROVE FALSE
  <2>1. CASE j \in 1 .. p - 1
    <3>1. old[j] = v /\ j \in DOMAIN old
      BY <1>2, <1>3, <2>1 DEF PutAt
    <3> QED
      BY <3>1 DEF Range
  <2>2. CASE j \in p .. Len(w)
    <3>1. old[j + 1] = v /\ j + 1 \in DOMAIN old
      BY <1>2, <1>3, <2>2 DEF PutAt
    <3> QED
      BY <3>1 DEF Range
  <2> QED
    BY <2>1, <2>2
<1> QED
  BY <1>1, <1>3 DEF Taken

\* The range of a user who was not displayed before ends at the new place.
LEMMA ReturnCovers ==
  ASSUME NEW S, NEW old \in Seq(S), NEW new \in Seq(S), NEW id,
         id \notin Range(old), id \in Range(new),
         NEW r \in [From : Nat \ {0}, To : Nat], r.From < r.To,
         PosIn(new, id) >= r.From
  PROVE  \E change \in MoveRange(old, new, id) : Overlaps(r, change)
<1> DEFINE b == PosIn(new, id)
           change == IndexRange(0, b + 1)
<1>1. PosIn(old, id) = 0 /\ b \in Nat /\ b # 0
  BY PosFacts
<1>2. change \in MoveRange(old, new, id)
  BY <1>1 DEF MoveRange
<1>3. change.From = 0 /\ change.To = b + 1
  BY DEF IndexRange
<1>4. b >= r.From
  OBVIOUS
<1> HIDE DEF change, b
<1>5. Overlaps(r, change)
  BY <1>1, <1>3, <1>4 DEF Overlaps
<1> QED
  BY <1>2, <1>5

\* The ranges a rebuild has computed are about the list that it will replace, as
\* long as nothing overtakes it.
DiffInv == building /\ ~raced => diff = Diff(list.view, next.view)

LEMMA DiffInvAlways == Spec => []DiffInv
<1>1. Init => DiffInv
  BY DEF Init, DiffInv
<1>2. Inv /\ DiffInv /\ [Next]_vars => DiffInv'
  <2> SUFFICES ASSUME Inv, DiffInv, [Next]_vars PROVE DiffInv'
    OBVIOUS
  <2>1. building \in BOOLEAN /\ raced \in BOOLEAN
    BY TypeParts DEF Inv, ListInv
  <2>2. ASSUME UNCHANGED build, raced' = (raced \/ building) PROVE DiffInv'
    BY <2>1, <2>2 DEF DiffInv, build
  <2>3. ASSUME UNCHANGED <<build, list, raced>> PROVE DiffInv'
    BY <2>3 DEF DiffInv, build
  <2>4. CASE \E u \in UserIds, name \in Names : AddUser(u, name)
    BY <2>2, <2>4 DEF AddUser, Race
  <2>5. CASE \E u \in UserIds, user \in User : UpdateUser(u, user)
    BY <2>2, <2>5 DEF UpdateUser, Race
  <2>6. CASE \E r \in RoleIds, role \in Role : AddRole(r, role) \/ UpdateRole(r, role)
    BY <2>2, <2>6 DEF AddRole, UpdateRole, Race
  <2>7. CASE \E r \in RoleIds : DeleteRole(r)
    BY <2>2, <2>7 DEF DeleteRole, Race
  <2>8. CASE UpdateUserListRead
    BY <2>8 DEF UpdateUserListRead, DiffInv
  <2>9. CASE UpdateUserListStore
    BY <2>9 DEF UpdateUserListStore, DiffInv
  <2>10. CASE PopAllChanges
    BY <2>3, <2>10 DEF PopAllChanges
  <2>11. CASE UNCHANGED vars
    BY <2>3, <2>11 DEF vars
  <2> QED
    BY <2>4, <2>5, <2>6, <2>7, <2>8, <2>9, <2>10, <2>11 DEF Next
<1> QED
  BY <1>1, <1>2, InvAlways, PTL DEF Spec

\* When a row that a client looks at changes place or goes, a recorded change
\* overlaps the client's range, so that the push goroutine writes to it
\* (gateway.go:506, Index.Changes), except for the steps Unrecorded names: the
\* ranges of a rebuild that nothing overtook take in every changed row, that of a
\* move everything between the two places of the user, and that of a user who was
\* not displayed everything up to the new place.
THEOREM UserIndexChangesReachClients == Spec => ChangesReachClients
<1> DEFINE Covered == \A r \in ClientRanges : ChangesSeen(r) /\ ~Unrecorded(r) => Reached(r)
<1>1. Inv /\ Inv' /\ DiffInv /\ [Next]_vars => [Covered]_vars
  <2> SUFFICES ASSUME Inv, Inv', DiffInv, Next, NEW r \in ClientRanges,
                      ~ IsPrefix(Slice(list.view, r), Slice(list'.view, r)),
                      ~ Unrecorded(r)
               PROVE  \E change \in changes' : Overlaps(r, change)
    BY DEF ChangesSeen, Reached
  <2> DEFINE S == UserIds \cup GroupIds
  <2>1. r \in [From : Nat \ {0}, To : Nat] /\ r.From < r.To
    BY DEF ClientRanges
  <2>2. /\ IsList(list) /\ GoodList(list) /\ IsList(next) /\ building \in BOOLEAN
        /\ list.view \in Seq(S) /\ next.view \in Seq(S)
    BY TypeParts DEF Inv, ListInv, IsList
  <2>3. list'.view \in Seq(S)
    BY DEF Inv, ListInv, TypeOK, IsList
  <2> HIDE DEF S
  <2>4. list' # list
    <3> SUFFICES ASSUME list' = list PROVE FALSE
      OBVIOUS
    <3> DEFINE s == Slice(list.view, r)
    <3>1. IsPrefix(s, s)
      <4>1. Len(s) <= Len(s)
        <5>1. \A v \in Seq(S) : \A a, b \in Int : Len(SubSeq(v, a, b)) \in Nat
          OBVIOUS
        <5>2. r.From \in Int /\ (IF r.To - 1 < Len(list.view) THEN r.To - 1 ELSE Len(list.view)) \in Int
          BY <2>1, <2>2
        <5> QED
          BY <2>2, <5>1, <5>2 DEF Slice
      <4> HIDE DEF s
      <4> QED
        BY <4>1 DEF IsPrefix
    <3> QED
      BY <3>1
  <2>5. CASE UpdateUserListStore
    <3>1. list' = next /\ changes' = changes \cup Diff(list.view, next.view)
      BY <2>5 DEF UpdateUserListStore, DiffInv, Unrecorded
    <3> QED
      BY <2>1, <2>2, <3>1, DiffCovers
  <2>6. CASE \E u \in UserIds, user \in User : UpdateUser(u, user)
    <3>1. PICK u \in UserIds, user \in User : UpdateUser(u, user)
      BY <2>6
    <3>2. DataOK /\ building' = building
      BY <3>1, TypeParts DEF Inv, ListInv, UpdateUser, build
    <3>3. PICK h \in Hoists(user, roles) : hoist' = [hoist EXCEPT ![u] = h]
      BY <3>1 DEF UpdateUser
    <3>4. hoist'[u] = h /\ h \in RoleIds \cup {NoRole}
      <4>1. u \in DOMAIN hoist
        BY <3>1, <3>2 DEF UpdateUser, DataOK
      <4> QED
        BY <3>2, <3>3, <4>1, HoistType
    <3>5. list' = Moved(list, users', h, u) /\ changes' = changes \cup MoveRange(list.view, list'.view, u)
      BY <2>4, <3>1, <3>4 DEF UpdateUser
    <3>6. PICK w \in Seq(S) : Taken(list.view, w, u) /\ Taken(list'.view, w, u)
      BY <2>2, <3>4, <3>5, MovedTaken DEF S
    <3>7. /\ Range(list.view) \subseteq Range(list'.view)
          /\ \A v \in Range(list'.view) \ Range(list.view) : PosIn(list'.view, v) >= r.From
      <4>1. \A v : PosIn(list'.view, v) \in Nat
        BY <2>3, PosFacts
      <4> QED
        BY <2>1, <2>2, <3>2, <4>1 DEF Unrecorded
    <3>8. \E change \in MoveRange(list.view, list'.view, u) : Overlaps(r, change)
      <4>1. CASE Range(list.view) = Range(list'.view)
        BY <2>1, <2>2, <2>3, <3>6, <4>1, MoveCovers
      <4>2. CASE Range(list.view) # Range(list'.view)
        <5>1. PICK v \in Range(list'.view) : v \notin Range(list.view)
          BY <3>7, <4>2
        <5>2. v = u
          BY <2>2, <2>3, <3>6, <5>1, TakenRange
        <5> QED
          BY <2>1, <2>2, <2>3, <3>7, <5>1, <5>2, ReturnCovers
      <4> QED
        BY <4>1, <4>2
    <3> QED
      BY <3>5, <3>8
  <2> QED
    BY <2>4, <2>5, <2>6
       DEF Next, AddUser, AddRole, UpdateRole, DeleteRole, UpdateUserListRead, PopAllChanges
<1>2. Spec => [][Covered]_vars
  <2> HIDE DEF Covered
  <2> QED
    BY <1>1, InvAlways, DiffInvAlways, PTL DEF Spec
<1> QED
  BY <1>2 DEF ChangesReachClients
=============================================================================
