---------------------------- MODULE QueueLemmas ----------------------------
(***************************************************************************)
(* What Select gives, for every sequence and every set.                    *)
(*                                                                         *)
(* The library's induction theorems take a predicate as a parameter; its   *)
(* theorem that a non-empty set has a minimal element under a well-founded *)
(* relation (WFMin) takes a set.  Induction is derived from that one here, *)
(* for a set of numbers, and with it both that the recursive function in   *)
(* Select exists and what it computes.                                     *)
(***************************************************************************)
EXTENDS Queues, WellFoundedInduction, NaturalsInduction, TLAPS

\* The order that the induction is along.
Less == {p \in Nat \X Nat : p[1] < p[2]}

\* A non-empty set of naturals has a least element.
LEMMA LeastNumber == ASSUME NEW N, N \subseteq Nat, N # {}
                     PROVE  \E m \in N : \A n \in N : m <= n
<1>1. IsWellFoundedOn(Less, Nat)
  BY NatLessThanWellFounded DEF OpToRel, Less
<1>2. PICK m \in N : \A n \in N : <<n, m>> \notin Less
  BY <1>1, WFMin
<1>3. ASSUME NEW n \in N PROVE m <= n
  <2>1. <<n, m>> \notin Less
    BY <1>2
  <2>2. <<n, m>> \in Nat \X Nat
    OBVIOUS
  <2>3. QED
    BY <2>1, <2>2 DEF Less
<1>4. QED
  BY <1>3

\* Induction over the naturals, for membership in a set.
LEMMA InductionOnSet == ASSUME NEW N, 0 \in N, \A n \in Nat : n \in N => n + 1 \in N
                        PROVE  \A n \in Nat : n \in N
<1> DEFINE Out == {n \in Nat : n \notin N}
<1>1. SUFFICES ASSUME Out # {} PROVE FALSE
  OBVIOUS
<1>2. Out \subseteq Nat
  OBVIOUS
<1>3. \E m \in Out : \A n \in Out : m <= n
  <2> HIDE DEF Out
  <2> QED BY <1>1, <1>2, LeastNumber
<1>4. QED
  BY <1>3

\* Induction over an initial segment.
LEMMA InductionUpTo == ASSUME NEW N, NEW k \in Nat, 0 \in N, \A n \in 0 .. k - 1 : n \in N => n + 1 \in N
                       PROVE  \A n \in 0 .. k : n \in N
<1> DEFINE M == {n \in Nat : n <= k => n \in N}
<1>1. 0 \in M
  OBVIOUS
<1>2. \A n \in Nat : n \in M => n + 1 \in M
  OBVIOUS
<1> HIDE DEF M
<1>3. \A n \in Nat : n \in M
  BY <1>1, <1>2, InductionOnSet
<1>4. QED
  BY <1>3 DEF M

-----------------------------------------------------------------------------
\* f is the function Select defines by recursion, up to n.
IsSel(q, S, n, f) ==
  f = [i \in 0 .. n |-> IF i = 0 THEN <<>> ELSE IF q[i] \in S THEN Append(f[i - 1], q[i]) ELSE f[i - 1]]

\* Its value at a place of the sequence.
LEMMA SelAt == ASSUME NEW q, NEW S, NEW n \in Nat, NEW f, IsSel(q, S, n, f), NEW i \in 1 .. n
               PROVE  f[i] = IF q[i] \in S THEN Append(f[i - 1], q[i]) ELSE f[i - 1]
<1> DEFINE e(j) == IF j = 0 THEN <<>> ELSE IF q[j] \in S THEN Append(f[j - 1], q[j]) ELSE f[j - 1]
<1>1. f = [j \in 0 .. n |-> e(j)]
  BY DEF IsSel
<1>2. i \in 0 .. n /\ i # 0
  OBVIOUS
<1> HIDE DEF e
<1>3. f[i] = e(i)
  BY <1>1, <1>2
<1>4. QED
  BY <1>2, <1>3 DEF e

\* There is such a function.
LEMMA SelExists == ASSUME NEW q, NEW S, NEW n \in Nat PROVE \E f : IsSel(q, S, n, f)
<1> DEFINE N == {k \in Nat : \E f : IsSel(q, S, k, f)}
<1>1. 0 \in N
  <2>1. IsSel(q, S, 0, [i \in 0 .. 0 |-> <<>>])
    BY DEF IsSel
  <2>2. QED
    BY <2>1
<1>2. ASSUME NEW k \in Nat, k \in N PROVE k + 1 \in N
  <2>1. PICK f : IsSel(q, S, k, f)
    BY <1>2
  <2> DEFINE g == [i \in 0 .. k + 1 |-> IF i <= k THEN f[i]
                                        ELSE IF q[k + 1] \in S THEN Append(f[k], q[k + 1]) ELSE f[k]]
  <2>2. \A i \in 0 .. k : g[i] = f[i]
    OBVIOUS
  <2>3. g[k + 1] = IF q[k + 1] \in S THEN Append(g[k], q[k + 1]) ELSE g[k]
    BY <2>2
  <2>4. \A i \in 1 .. k : f[i] = IF q[i] \in S THEN Append(f[i - 1], q[i]) ELSE f[i - 1]
    BY <2>1, SelAt
  <2>5. \A i \in 1 .. k : g[i] = IF q[i] \in S THEN Append(g[i - 1], q[i]) ELSE g[i - 1]
    <3> HIDE DEF g
    <3> TAKE i \in 1 .. k
    <3> QED BY <2>2, <2>4
  <2>6. g[0] = <<>>
    BY <2>1, <2>2 DEF IsSel
  <2>7. g = [i \in 0 .. k + 1 |-> g[i]]
    OBVIOUS
  <2> HIDE DEF g
  <2>8. \A i \in 0 .. k + 1 : g[i] = IF i = 0 THEN <<>> ELSE IF q[i] \in S THEN Append(g[i - 1], q[i]) ELSE g[i - 1]
    <3> TAKE i \in 0 .. k + 1
    <3>1. i = 0 \/ i \in 1 .. k \/ i = k + 1
      OBVIOUS
    <3> QED BY <2>3, <2>5, <2>6, <3>1
  <2>9. IsSel(q, S, k + 1, g)
    BY <2>7, <2>8 DEF IsSel
  <2>10. QED
    BY <2>9
<1> HIDE DEF N
<1>3. n \in N
  BY <1>1, <1>2, InductionOnSet
<1>4. QED
  BY <1>3 DEF N

\* s has the elements of q[1 .. n] that are in S, and h their places in q.
Places(q, S, n, s, h) ==
  /\ s \in Seq({q[i] : i \in 1 .. n})
  /\ Len(s) <= n
  /\ h \in [1 .. Len(s) -> 1 .. n]
  /\ \A k \in 1 .. Len(s) : s[k] = q[h[k]] /\ q[h[k]] \in S
  /\ \A j, k \in 1 .. Len(s) : j < k => h[j] < h[k]
  /\ \A i \in 1 .. n : q[i] \in S => \E k \in 1 .. Len(s) : h[k] = i

\* Select keeps the elements that are in S and their order.
LEMMA SelectPlaces == ASSUME NEW q, Len(q) \in Nat, NEW S
                      PROVE  \E h : Places(q, S, Len(q), Select(q, S), h)
<1> DEFINE f == CHOOSE f : IsSel(q, S, Len(q), f)
           N == {n \in Nat : \E h : Places(q, S, n, f[n], h)}
<1>1. IsSel(q, S, Len(q), f)
  BY SelExists
<1>2. Select(q, S) = f[Len(q)]
  BY Zenon DEF Select, IsSel
<1> HIDE DEF f
<1>3. 0 \in N
  <2>1. f[0] = <<>>
    BY <1>1 DEF IsSel
  <2>2. Places(q, S, 0, <<>>, <<>>)
    BY DEF Places
  <2>3. QED
    BY <2>1, <2>2
<1>4. ASSUME NEW n \in 0 .. Len(q) - 1, n \in N PROVE n + 1 \in N
  <2>1. PICK h : Places(q, S, n, f[n], h)
    BY <1>4
  <2>2. f[n + 1] = IF q[n + 1] \in S THEN Append(f[n], q[n + 1]) ELSE f[n]
    <3>1. n + 1 \in 1 .. Len(q) /\ (n + 1) - 1 = n
      OBVIOUS
    <3>2. QED
      BY <1>1, <3>1, SelAt
  <2> DEFINE s == f[n]
  <2>3. s \in Seq({q[i] : i \in 1 .. n + 1})
    BY <2>1 DEF Places
  <2>4. CASE q[n + 1] \in S
    <3> DEFINE g == [k \in 1 .. Len(s) + 1 |-> IF k <= Len(s) THEN h[k] ELSE n + 1]
               t == Append(s, q[n + 1])
    <3>1. t \in Seq({q[i] : i \in 1 .. n + 1}) /\ Len(t) = Len(s) + 1
      BY <2>3
    <3>2. \A k \in 1 .. Len(s) : t[k] = s[k]
      BY <2>3
    <3>3. t[Len(s) + 1] = q[n + 1]
      BY <2>3
    <3>4. Len(s) \in Nat /\ Len(s) <= n
      BY <2>1, <2>3 DEF Places
    <3>5. Places(q, S, n + 1, t, g)
      <4>1. g \in [1 .. Len(t) -> 1 .. n + 1]
        BY <2>1, <3>1, <3>4 DEF Places
      <4>2. \A k \in 1 .. Len(t) : t[k] = q[g[k]] /\ q[g[k]] \in S
        <5> HIDE DEF t
        <5> QED BY <2>1, <2>4, <3>1, <3>2, <3>3, <3>4 DEF Places
      <4>3. ASSUME NEW j \in 1 .. Len(t), NEW k \in 1 .. Len(t), j < k PROVE g[j] < g[k]
        <5>1. j \in 1 .. Len(s) /\ g[j] = h[j] /\ h[j] \in 1 .. n
          <6>1. j \in 1 .. Len(s)
            BY <3>1, <3>4, <4>3
          <6>2. g[j] = h[j]
            BY <3>4, <6>1
          <6>3. h \in [1 .. Len(s) -> 1 .. n]
            BY <2>1 DEF Places
          <6>4. QED
            BY <6>1, <6>2, <6>3
        <5>2. CASE k \in 1 .. Len(s)
          BY <2>1, <3>4, <4>3, <5>1, <5>2 DEF Places
        <5>3. CASE k = Len(s) + 1
          BY <3>1, <3>4, <5>1, <5>3
        <5>4. QED
          BY <3>1, <3>4, <5>2, <5>3
      <4>4. ASSUME NEW i \in 1 .. n + 1, q[i] \in S PROVE \E k \in 1 .. Len(t) : g[k] = i
        <5>1. CASE i = n + 1
          <6>1. g[Len(s) + 1] = i /\ Len(s) + 1 \in 1 .. Len(t)
            BY <3>1, <3>4, <5>1
          <6>2. QED
            BY <6>1
        <5>2. CASE i \in 1 .. n
          <6>1. PICK k \in 1 .. Len(s) : h[k] = i
            BY <2>1, <4>4, <5>2 DEF Places
          <6>2. g[k] = i /\ k \in 1 .. Len(t)
            BY <3>1, <3>4, <6>1
          <6>3. QED
            BY <6>2
        <5>3. QED
          BY <5>1, <5>2
      <4> HIDE DEF t, g
      <4>5. QED
        BY <3>1, <3>4, <4>1, <4>2, <4>3, <4>4 DEF Places
    <3>6. f[n + 1] = t
      BY <2>2, <2>4
    <3> HIDE DEF g, t
    <3>7. QED
      BY <3>5, <3>6
  <2>5. CASE q[n + 1] \notin S
    <3>1. Len(s) \in Nat /\ Len(s) <= n + 1 /\ h \in [1 .. Len(s) -> 1 .. n + 1]
      BY <2>1, <2>3 DEF Places
    <3>2. ASSUME NEW i \in 1 .. n + 1, q[i] \in S PROVE \E k \in 1 .. Len(s) : h[k] = i
      <4>1. i \in 1 .. n
        BY <2>5, <3>2
      <4>2. QED
        BY <2>1, <3>2, <4>1 DEF Places
    <3>3. Places(q, S, n + 1, s, h)
      BY <2>1, <2>3, <3>1, <3>2 DEF Places
    <3>4. QED
      BY <2>2, <2>5, <3>3
  <2>6. QED
    BY <2>4, <2>5
<1> HIDE DEF N
<1>5. Len(q) \in N
  <2>1. \A n \in 0 .. Len(q) - 1 : n \in N => n + 1 \in N
    BY <1>4
  <2>2. \A n \in 0 .. Len(q) : n \in N
    BY <1>3, <2>1, InductionUpTo
  <2>3. QED
    BY <2>2
<1>6. QED
  BY <1>2, <1>5 DEF N

\* What follows for its type and length...
LEMMA SelectSeqOf == ASSUME NEW T, NEW q \in Seq(T), NEW S
                     PROVE  Select(q, S) \in Seq(T) /\ Len(Select(q, S)) <= Len(q)
<1>1. PICK h : Places(q, S, Len(q), Select(q, S), h)
  BY SelectPlaces
<1>2. {q[i] : i \in 1 .. Len(q)} \subseteq T
  OBVIOUS
<1>3. QED
  BY <1>1, <1>2 DEF Places

\* ...the elements...
LEMMA SelectElements ==
  ASSUME NEW T, NEW q \in Seq(T), NEW S
  PROVE  /\ \A k \in DOMAIN Select(q, S) : Select(q, S)[k] \in S /\ \E i \in DOMAIN q : q[i] = Select(q, S)[k]
         /\ \A i \in DOMAIN q : q[i] \in S => \E k \in DOMAIN Select(q, S) : Select(q, S)[k] = q[i]
<1> DEFINE s == Select(q, S)
<1>1. PICK h : Places(q, S, Len(q), s, h)
  BY SelectPlaces
<1>2. s \in Seq(T)
  BY SelectSeqOf
<1> HIDE DEF s
<1>3. ASSUME NEW k \in DOMAIN s PROVE s[k] \in S /\ \E i \in DOMAIN q : q[i] = s[k]
  BY <1>1, <1>2 DEF Places
<1>4. ASSUME NEW i \in DOMAIN q, q[i] \in S PROVE \E k \in DOMAIN s : s[k] = q[i]
  <2>1. PICK k \in 1 .. Len(s) : h[k] = i
    BY <1>1, <1>4 DEF Places
  <2>2. k \in DOMAIN s /\ s[k] = q[i]
    BY <1>1, <1>2, <2>1 DEF Places
  <2>3. QED
    BY <2>2
<1>5. QED
  BY <1>3, <1>4 DEF s

\* ...when there are none...
LEMMA SelectEmpty ==
  ASSUME NEW T, NEW q \in Seq(T), NEW S
  PROVE  Select(q, S) = <<>> <=> \A i \in DOMAIN q : q[i] \notin S
<1> DEFINE s == Select(q, S)
<1>1. PICK h : Places(q, S, Len(q), s, h)
  BY SelectPlaces
<1>2. s \in Seq(T)
  BY SelectSeqOf
<1> HIDE DEF s
<1>3. ASSUME s = <<>>, NEW i \in DOMAIN q, q[i] \in S PROVE FALSE
  <2>1. PICK k \in 1 .. Len(s) : h[k] = i
    BY <1>1, <1>3 DEF Places
  <2>2. QED
    BY <1>3, <2>1
<1>4. ASSUME s # <<>> PROVE q[h[1]] \in S /\ h[1] \in DOMAIN q
  <2>1. 1 \in 1 .. Len(s)
    BY <1>2, <1>4
  <2>2. QED
    BY <1>1, <2>1 DEF Places
<1>5. s = <<>> <=> \A i \in DOMAIN q : q[i] \notin S
  BY <1>3, <1>4
<1>6. QED
  BY <1>5 DEF s

\* ...which comes first...
LEMMA SelectHead ==
  ASSUME NEW T, NEW q \in Seq(T), NEW S, Select(q, S) # <<>>
  PROVE  \E i \in DOMAIN q : /\ Head(Select(q, S)) = q[i] /\ q[i] \in S
                             /\ \A j \in DOMAIN q : q[j] \in S => i <= j
<1> DEFINE s == Select(q, S)
<1>1. PICK h : Places(q, S, Len(q), s, h)
  BY SelectPlaces
<1>2. s \in Seq(T) /\ s # <<>>
  BY SelectSeqOf
<1>3. SUFFICES \E i \in DOMAIN q : Head(s) = q[i] /\ q[i] \in S /\ \A j \in DOMAIN q : q[j] \in S => i <= j
  OBVIOUS
<1> HIDE DEF s
<1>4. 1 \in 1 .. Len(s) /\ Head(s) = s[1]
  BY <1>2
<1>5. h[1] \in DOMAIN q /\ Head(s) = q[h[1]] /\ q[h[1]] \in S
  <2>1. h \in [1 .. Len(s) -> 1 .. Len(q)] /\ \A k \in 1 .. Len(s) : s[k] = q[h[k]] /\ q[h[k]] \in S
    BY <1>1 DEF Places
  <2>2. h[1] \in 1 .. Len(q)
    BY <1>4, <2>1
  <2>3. QED
    BY <1>4, <2>1, <2>2
<1>6. ASSUME NEW j \in DOMAIN q, q[j] \in S PROVE h[1] <= j
  <2>1. PICK k \in 1 .. Len(s) : h[k] = j
    BY <1>1, <1>6 DEF Places
  <2>2. k = 1 \/ h[1] < h[k]
    BY <1>1, <1>2, <1>4, <2>1 DEF Places
  <2>3. QED
    BY <1>5, <2>1, <2>2
<1>7. QED
  BY <1>5, <1>6

\* ...and repetitions.
LEMMA SelectInjective ==
  ASSUME NEW T, NEW q \in Seq(T), NEW S,
         \A i, j \in DOMAIN q : q[i] = q[j] => i = j
  PROVE  \A i, j \in DOMAIN Select(q, S) : Select(q, S)[i] = Select(q, S)[j] => i = j
<1> DEFINE s == Select(q, S)
<1>1. PICK h : Places(q, S, Len(q), s, h)
  BY SelectPlaces
<1>2. s \in Seq(T)
  BY SelectSeqOf
<1> HIDE DEF s
<1>3. ASSUME NEW i \in DOMAIN s, NEW j \in DOMAIN s, s[i] = s[j] PROVE i = j
  <2>1. i \in 1 .. Len(s) /\ j \in 1 .. Len(s) /\ Len(s) \in Nat
    BY <1>2
  <2>2. h[i] \in DOMAIN q /\ h[j] \in DOMAIN q /\ q[h[i]] = q[h[j]]
    BY <1>1, <1>3, <2>1 DEF Places
  <2>3. h[i] = h[j]
    BY <2>2
  <2>4. ~(i < j) /\ ~(j < i)
    BY <1>1, <2>1, <2>2, <2>3 DEF Places
  <2>5. QED
    BY <2>1, <2>4
<1>4. QED
  BY <1>3 DEF s

\* Select by its recursive function.
LEMMA SelectIs == ASSUME NEW q, NEW S, Len(q) \in Nat
                  PROVE  \E f : IsSel(q, S, Len(q), f) /\ Select(q, S) = f[Len(q)]
<1> DEFINE f == CHOOSE f : IsSel(q, S, Len(q), f)
<1>1. IsSel(q, S, Len(q), f)
  BY SelExists
<1>2. Select(q, S) = f[Len(q)]
  BY Zenon DEF Select, IsSel
<1>3. QED
  BY <1>1, <1>2

\* What it makes of an element that joins at the end...
LEMMA SelectAppend ==
  ASSUME NEW T, NEW q \in Seq(T), NEW x \in T, NEW S
  PROVE  Select(Append(q, x), S) = IF x \in S THEN Append(Select(q, S), x) ELSE Select(q, S)
<1> DEFINE r == Append(q, x)
           n == Len(q)
<1>1. n \in Nat /\ Len(r) = n + 1 /\ r[n + 1] = x /\ \A i \in 1 .. n : q[i] = r[i]
  OBVIOUS
<1> HIDE DEF r
<1>2. Len(q) \in Nat /\ Len(r) \in Nat
  BY <1>1
<1>3. PICK f : IsSel(q, S, Len(q), f) /\ Select(q, S) = f[Len(q)]
  BY <1>2, SelectIs
<1>4. PICK g : IsSel(r, S, Len(r), g) /\ Select(r, S) = g[Len(r)]
  BY <1>2, SelectIs
<1>5. f[n] = g[n]
  <2>1. n <= Len(r) /\ n \in 0 .. n
    BY <1>1
  <2>2. \A i \in 0 .. Len(q) : f[i] = g[i]
    <3>1. \A i \in 1 .. n : f[i] = IF q[i] \in S THEN Append(f[i - 1], q[i]) ELSE f[i - 1]
      BY <1>2, <1>3, SelAt
    <3>2. \A i \in 1 .. Len(r) : g[i] = IF r[i] \in S THEN Append(g[i - 1], r[i]) ELSE g[i - 1]
      BY <1>2, <1>4, SelAt
    <3>3. \A i \in 1 .. n : i \in 1 .. Len(r)
      BY <1>1
    <3>4. \A i \in 1 .. n : g[i] = IF r[i] \in S THEN Append(g[i - 1], r[i]) ELSE g[i - 1]
      BY <3>2, <3>3
    <3>5. f[0] = g[0]
      BY <1>2, <1>3, <1>4 DEF IsSel
    <3>6. \A i \in 1 .. n : q[i] = r[i]
      BY <1>1
    <3> DEFINE N == {k \in Nat : f[k] = g[k]}
    <3>7. 0 \in N
      BY <3>5
    <3>8. ASSUME NEW k \in 0 .. n - 1, k \in N PROVE k + 1 \in N
      <4> DEFINE j == k + 1
      <4>1. j \in 1 .. n /\ j - 1 = k /\ j \in Nat
        BY <1>1, <3>8
      <4> HIDE DEF j
      <4>2. f[j] = g[j]
        BY <3>1, <3>4, <3>6, <3>8, <4>1
      <4>3. QED
        BY <4>1, <4>2 DEF j
    <3>9. \A k \in 0 .. n : k \in N
      <4> HIDE DEF N
      <4>1. QED
        BY <1>1, <3>7, <3>8, InductionUpTo
    <3>10. QED
      BY <3>9
  <2>3. QED
    BY <2>1, <2>2
<1>6. g[n + 1] = IF x \in S THEN Append(g[n], x) ELSE g[n]
  <2> DEFINE j == Len(r)
  <2>1. j \in Nat /\ j \in 1 .. j /\ j - 1 = n /\ r[j] = x /\ j = n + 1
    BY <1>1
  <2>2. IsSel(r, S, j, g)
    BY <1>4
  <2> HIDE DEF j
  <2>3. g[j] = IF r[j] \in S THEN Append(g[j - 1], r[j]) ELSE g[j - 1]
    <3>1. j \in Nat /\ j \in 1 .. j
      BY <2>1
    <3>2. QED
      BY <2>2, <3>1, SelAt
  <2>4. QED
    BY <2>1, <2>3
<1>7. QED
  BY <1>1, <1>3, <1>4, <1>5, <1>6 DEF r

\* ...or leaves at the front.
LEMMA SelectTail ==
  ASSUME NEW T, NEW q \in Seq(T), q # <<>>, NEW S
  PROVE  Select(q, S) = IF Head(q) \in S THEN <<Head(q)>> \o Select(Tail(q), S) ELSE Select(Tail(q), S)
<1> DEFINE r == Tail(q)
           n == Len(r)
           a == Head(q)
           y(s) == IF a \in S THEN <<a>> \o s ELSE s
<1>1. /\ n \in Nat /\ Len(q) = n + 1 /\ q[1] = a /\ r \in Seq(T) /\ a \in T
      /\ \A i \in 1 .. n : r[i] = q[i + 1] /\ r[i] \in T
  OBVIOUS
<1>2. Len(q) \in Nat /\ Len(r) \in Nat
  BY <1>1
<1> HIDE DEF r, a
<1>3. PICK f : IsSel(q, S, Len(q), f) /\ Select(q, S) = f[Len(q)]
  BY <1>2, SelectIs
<1>4. PICK g : IsSel(r, S, Len(r), g) /\ Select(r, S) = g[Len(r)]
  BY <1>2, SelectIs
<1>5. f[0] = <<>> /\ g[0] = <<>>
  BY <1>2, <1>3, <1>4 DEF IsSel
<1> DEFINE N == {k \in Nat : g[k] \in Seq(T) /\ f[k + 1] = y(g[k])}
<1>6. 0 \in N
  <2> DEFINE j == 1
  <2>1. j \in 1 .. Len(q) /\ j - 1 = 0
    BY <1>1
  <2> HIDE DEF j
  <2>2. f[j] = IF q[j] \in S THEN Append(f[j - 1], q[j]) ELSE f[j - 1]
    BY <1>2, <1>3, <2>1, SelAt
  <2>3. f[1] = IF a \in S THEN Append(<<>>, a) ELSE <<>>
    BY <1>1, <1>5, <2>1, <2>2 DEF j
  <2>4. f[0 + 1] = y(g[0])
    <3>1. Append(<<>>, a) = <<a>> /\ <<a>> \o <<>> = <<a>>
      BY <1>1
    <3>2. f[1] = y(g[0])
      BY <1>5, <2>3, <3>1
    <3>3. QED
      BY <3>2
  <2>5. g[0] \in Seq(T)
    BY <1>5
  <2> HIDE DEF y
  <2>6. QED
    BY <2>4, <2>5
<1>7. ASSUME NEW k \in 0 .. n - 1, k \in N PROVE k + 1 \in N
  <2> DEFINE i == k + 1
             j == k + 2
  <2>1. /\ i \in 1 .. Len(r) /\ i - 1 = k /\ i \in Nat /\ i + 1 = j
        /\ j \in 1 .. Len(q) /\ j - 1 = i /\ r[i] = q[j] /\ r[i] \in T
    BY <1>1, <1>7
  <2> HIDE DEF i, j
  <2>2. f[j] = IF q[j] \in S THEN Append(f[j - 1], q[j]) ELSE f[j - 1]
    BY <1>2, <1>3, <2>1, SelAt
  <2>3. g[i] = IF r[i] \in S THEN Append(g[i - 1], r[i]) ELSE g[i - 1]
    BY <1>2, <1>4, <2>1, SelAt
  <2>4. g[k] \in Seq(T) /\ f[i] = y(g[k])
    BY <1>7 DEF i
  <2>5. CASE r[i] \in S
    <3>1. g[i] = Append(g[k], r[i]) /\ f[j] = Append(y(g[k]), r[i])
      BY <2>1, <2>2, <2>3, <2>4, <2>5
    <3>2. \A s \in Seq(T), b \in T : Append(<<a>> \o s, b) = <<a>> \o Append(s, b)
      BY <1>1
    <3>3. Append(y(g[k]), r[i]) = y(Append(g[k], r[i]))
      BY <2>1, <2>4, <3>2
    <3>4. Append(g[k], r[i]) \in Seq(T)
      BY <2>1, <2>4
    <3>5. QED
      BY <2>1, <3>1, <3>3, <3>4 DEF i
  <2>6. CASE r[i] \notin S
    BY <2>1, <2>2, <2>3, <2>4, <2>6 DEF i
  <2>7. QED
    BY <2>5, <2>6
<1>8. n \in N
  <2> HIDE DEF N
  <2>1. \A k \in 0 .. n : k \in N
    BY <1>1, <1>6, <1>7, InductionUpTo
  <2>2. QED
    BY <1>1, <2>1
<1>9. QED
  BY <1>1, <1>3, <1>4, <1>8 DEF r, a

\* Nothing is left out when all elements are wanted.
LEMMA SelectAll ==
  ASSUME NEW T, NEW q \in Seq(T), NEW S, \A i \in DOMAIN q : q[i] \in S
  PROVE  Select(q, S) = q
<1> DEFINE n == Len(q)
<1>1. Len(q) \in Nat /\ n \in Nat /\ \A i \in 1 .. n : q[i] \in S /\ q[i] \in T
  OBVIOUS
<1>2. PICK f : IsSel(q, S, Len(q), f) /\ Select(q, S) = f[Len(q)]
  BY <1>1, SelectIs
<1>3. \A i \in 1 .. n : f[i] = IF q[i] \in S THEN Append(f[i - 1], q[i]) ELSE f[i - 1]
  BY <1>1, <1>2, SelAt
<1> DEFINE N == {k \in Nat : f[k] = [i \in 1 .. k |-> q[i]]}
<1>4. 0 \in N
  <2>1. f[0] = <<>>
    BY <1>1, <1>2 DEF IsSel
  <2>2. QED
    BY <2>1
<1>5. ASSUME NEW k \in 0 .. n - 1, k \in N PROVE k + 1 \in N
  <2> DEFINE j == k + 1
  <2>1. j \in 1 .. n /\ j - 1 = k /\ j \in Nat /\ k \in Nat
    BY <1>1, <1>5
  <2> HIDE DEF j
  <2>2. f[j] = Append(f[k], q[j])
    BY <1>1, <1>3, <2>1
  <2> DEFINE s == f[k]
             t == [i \in 1 .. k |-> q[i]]
  <2>3. s = t /\ t \in Seq(T) /\ Len(t) = k /\ q[j] \in T
    BY <1>1, <1>5, <2>1
  <2>4. Append(t, q[j]) = [i \in 1 .. j |-> q[i]]
    BY <1>1, <2>1, <2>3
  <2>5. f[j] = [i \in 1 .. j |-> q[i]]
    BY <2>2, <2>3, <2>4
  <2>6. QED
    BY <2>1, <2>5 DEF j
<1>6. n \in N
  <2> HIDE DEF N
  <2>1. \A k \in 0 .. n : k \in N
    BY <1>1, <1>4, <1>5, InductionUpTo
  <2>2. QED
    BY <1>1, <2>1
<1>7. f[n] = [i \in 1 .. n |-> q[i]]
  BY <1>6
<1>8. [i \in 1 .. n |-> q[i]] = q
  OBVIOUS
<1>9. QED
  BY <1>2, <1>7, <1>8
=============================================================================
