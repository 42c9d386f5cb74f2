----------------------------- MODULE ReplayProofs -----------------------------
(***************************************************************************)
(* Proofs about PredictionV2: replays and retries.  Two requests with the   *)
(* same points have the same digest and the same buckets, in whatever order *)
(* they list them, as long as sums stay within the decimal precision.       *)
(***************************************************************************)
EXTENDS PredictionV2Proofs, FiniteSetTheorems

-----------------------------------------------------------------------------
(* Natural numbers: least elements and induction, as facts about sets.     *)

LEMMA LeastNumber ==
  ASSUME NEW T \in SUBSET Nat, T # {}
  PROVE  \E x \in T : \A y \in T : x <= y
<1> DEFINE Less == {p \in Nat \X Nat : p[1] < p[2]}
<1>1. IsWellFoundedOn(Less, Nat)
  BY NatLessThanWellFounded DEF OpToRel
<1>2. \A a, b \in T : <<a, b>> \in Less <=> a < b
  OBVIOUS
<1> HIDE DEF Less
<1>3. T \subseteq Nat
  OBVIOUS
<1>4. PICK x \in T : \A y \in T : ~ (<<y, x>> \in Less)
  BY <1>1, <1>3, WFMin, Zenon
<1>5. \A y \in T : ~ (y < x)
  BY <1>2, <1>4
<1>6. \A y \in T : x <= y
  BY <1>3, <1>5
<1>. QED
  BY <1>6

LEMMA InductionByOne ==
  ASSUME NEW P \in SUBSET Nat, 0 \in P, \A n \in P : n + 1 \in P
  PROVE  P = Nat
<1>1. SUFFICES ASSUME Nat \ P # {} PROVE FALSE
  OBVIOUS
<1>2. PICK x \in Nat \ P : \A y \in Nat \ P : x <= y
  BY <1>1, LeastNumber
<1>. QED
  BY <1>2

LEMMA GreatestPosition ==
  ASSUME NEW n \in Nat, NEW S \in SUBSET (1 .. n), S # {}
  PROVE  Max(S) \in S /\ \A i \in S : i <= Max(S)
<1> DEFINE T == {n - i : i \in S}
<1>1. \A i \in S : n - i \in Nat
  OBVIOUS
<1>1a. T \in SUBSET Nat /\ T # {}
  BY <1>1
<1>2. PICK x \in T : \A y \in T : x <= y
  BY <1>1a, LeastNumber
<1>3. n - x \in S /\ \A i \in S : i <= n - x
  BY <1>2
<1>4. \E m \in S : \A y \in S : m >= y
  BY <1>3
<1>. QED
  BY <1>4 DEF Max

-----------------------------------------------------------------------------
(* Sorting: what RequestDigest makes of a history without duplicate keys.  *)

\* A history whose points have keys that can be compared, no key twice.
Keyed(h) ==
  /\ \E S : h \in Seq(S)
  /\ \A i \in DOMAIN h : h[i].timestamp \in Nat /\ h[i].data_id \in Nat
  /\ \A i, j \in DOMAIN h :
       i # j => <<h[i].timestamp, h[i].data_id>> # <<h[j].timestamp, h[j].data_id>>

LEMMA PointsOrdered ==
  ASSUME NEW h, Keyed(h)
  PROVE  /\ DOMAIN h = 1 .. Len(h) /\ Len(h) \in Nat
         /\ h = [i \in 1 .. Len(h) |-> h[i]]
         /\ \A i, j \in DOMAIN h : i # j => Before(h[i], h[j]) \/ Before(h[j], h[i])
         /\ \A i, j \in DOMAIN h : Before(h[i], h[j]) => ~ Before(h[j], h[i])
         /\ \A i, j, k \in DOMAIN h : Before(h[i], h[j]) /\ Before(h[j], h[k]) => Before(h[i], h[k])
<1>1. DOMAIN h = 1 .. Len(h) /\ Len(h) \in Nat /\ h = [i \in 1 .. Len(h) |-> h[i]]
  BY DEF Keyed
<1>2. \A i \in DOMAIN h : h[i].timestamp \in Nat /\ h[i].data_id \in Nat
  BY DEF Keyed
<1>3. \A i, j \in DOMAIN h : i # j => h[i].timestamp # h[j].timestamp \/ h[i].data_id # h[j].data_id
  BY DEF Keyed
<1>. QED
  BY <1>1, <1>2, <1>3 DEF Before

\* The points up to point i.
UpTo(h, i) == {j \in DOMAIN h : Before(h[j], h[i]) \/ j = i}

LEMMA Places ==
  ASSUME NEW h, Keyed(h)
  PROVE  /\ \A i \in DOMAIN h : Place(h, i) \in DOMAIN h
         /\ \A i, j \in DOMAIN h : Before(h[i], h[j]) => Place(h, i) < Place(h, j)
         /\ \A n \in DOMAIN h : \E i \in DOMAIN h : Place(h, i) = n
<1> DEFINE D == DOMAIN h
           place == [i \in D |-> Place(h, i)]
<1>1. D = 1 .. Len(h) /\ Len(h) \in Nat /\ IsFiniteSet(D) /\ Cardinality(D) = Len(h)
  BY PointsOrdered, FS_Interval
<1>2. ASSUME NEW i \in D
      PROVE  /\ Place(h, i) = Cardinality(UpTo(h, i))
             /\ UpTo(h, i) \in SUBSET D /\ i \in UpTo(h, i) /\ IsFiniteSet(UpTo(h, i))
             /\ Cardinality(UpTo(h, i)) \in Nat
  <2>1. \A j \in D : (Before(h[j], h[i]) \/ (~ Before(h[i], h[j]) /\ j <= i)) <=> (Before(h[j], h[i]) \/ j = i)
    BY <1>1, PointsOrdered
  <2>2. Place(h, i) = Cardinality(UpTo(h, i))
    <3>1. {j \in D : Before(h[j], h[i]) \/ (~ Before(h[i], h[j]) /\ j <= i)} = UpTo(h, i)
      BY <2>1 DEF UpTo
    <3>. QED
      BY <3>1 DEF Place
  <2>3. UpTo(h, i) \in SUBSET D /\ i \in UpTo(h, i)
    BY DEF UpTo
  <2>. QED
    BY <1>1, <2>2, <2>3, FS_Subset, FS_CardinalityType
<1>3. ASSUME NEW i \in D PROVE Place(h, i) \in D
  <2>1. Cardinality(UpTo(h, i)) <= Len(h)
    BY <1>1, <1>2, FS_Subset
  <2>2. Cardinality(UpTo(h, i)) # 0
    BY <1>2, FS_EmptySet
  <2>. QED
    BY <1>1, <1>2, <2>1, <2>2
<1>4. ASSUME NEW i \in D, NEW j \in D, Before(h[i], h[j])
      PROVE  Place(h, i) < Place(h, j)
  <2>1. UpTo(h, i) \in SUBSET UpTo(h, j)
    BY <1>4, PointsOrdered DEF UpTo
  <2>2. j \in UpTo(h, j) /\ j \notin UpTo(h, i)
    BY <1>4, PointsOrdered DEF UpTo
  <2>3. Cardinality(UpTo(h, i)) <= Cardinality(UpTo(h, j)) /\ Cardinality(UpTo(h, i)) # Cardinality(UpTo(h, j))
    BY <1>2, <2>1, <2>2, FS_Subset
  <2>. QED
    BY <1>2, <2>3
<1>5. place \in Injection(D, D)
  <2>1. place \in [D -> D]
    BY <1>3
  <2>2. \A i, j \in D : i # j => Place(h, i) # Place(h, j)
    <3>1. \A i, j \in D : i # j => Place(h, i) < Place(h, j) \/ Place(h, j) < Place(h, i)
      BY <1>4, PointsOrdered
    <3>2. \A i \in D : Place(h, i) \in Nat
      BY <1>2
    <3>. QED
      BY <3>1, <3>2
  <2>. QED
    BY <2>1, <2>2 DEF Injection, IsInjective
<1>6. place \in Surjection(D, D)
  BY <1>1, <1>5, FS_Injection
<1>7. \A n \in D : \E i \in D : Place(h, i) = n
  BY <1>6 DEF Surjection
<1>. QED
  BY <1>3, <1>4, <1>7

LEMMA SortedInOrder ==
  ASSUME NEW h, Keyed(h)
  PROVE  /\ DOMAIN Sorted(h) = DOMAIN h
         /\ Sorted(h) = [n \in DOMAIN h |-> Sorted(h)[n]]
         /\ \A i \in DOMAIN h : Sorted(h)[Place(h, i)] = h[i]
         /\ Range(Sorted(h)) = Range(h)
         /\ \A m, n \in DOMAIN h : m < n => Before(Sorted(h)[m], Sorted(h)[n])
<1> DEFINE D == DOMAIN h
           placed == {<<Place(h, i), h[i]>> : i \in D}
<1>1. Sorted(h) = [n \in D |-> (CHOOSE p \in placed : p[1] = n)[2]]
  BY DEF Sorted
<1>2. \A i, j \in D : Place(h, i) = Place(h, j) => i = j
  <2>1. \A i, j \in D : i # j => Place(h, i) < Place(h, j) \/ Place(h, j) < Place(h, i)
    BY Places, PointsOrdered
  <2>2. \A i \in D : Place(h, i) \in Int
    BY Places, PointsOrdered
  <2>. QED
    BY <2>1, <2>2
<1>3. ASSUME NEW i \in D
      PROVE  Sorted(h)[Place(h, i)] = h[i]
  <2> DEFINE n == Place(h, i)
  <2>1. n \in D
    BY Places
  <2>2. <<n, h[i]>> \in placed /\ <<n, h[i]>>[1] = n
    OBVIOUS
  <2>3. \A p \in placed : p[1] = n => p = <<n, h[i]>>
    BY <1>2
  <2> HIDE DEF placed, n
  <2>4. (CHOOSE p \in placed : p[1] = n) = <<n, h[i]>>
    BY <2>2, <2>3
  <2>. QED
    BY <1>1, <2>1, <2>4 DEF n
<1>4. \A n \in D : \E i \in D : n = Place(h, i) /\ Sorted(h)[n] = h[i]
  BY <1>3, Places
<1>5. DOMAIN Sorted(h) = D /\ Sorted(h) = [n \in D |-> Sorted(h)[n]]
  BY <1>1
<1>6. Range(Sorted(h)) = Range(h)
  <2>1. \A i \in D : Place(h, i) \in D
    BY Places
  <2>2. \A n \in D : Sorted(h)[n] \in {h[i] : i \in D}
    BY <1>4
  <2>3. \A i \in D : h[i] \in {Sorted(h)[n] : n \in D}
    BY <1>3, <2>1
  <2>4. {Sorted(h)[n] : n \in D} = {h[i] : i \in D}
    BY <2>2, <2>3
  <2>. QED
    BY <1>5, <2>4 DEF Range
<1>7. ASSUME NEW m \in D, NEW n \in D, m < n
      PROVE  Before(Sorted(h)[m], Sorted(h)[n])
  <2>1. PICK i \in D : m = Place(h, i) /\ Sorted(h)[m] = h[i]
    BY <1>4
  <2>2. PICK j \in D : n = Place(h, j) /\ Sorted(h)[n] = h[j]
    BY <1>4
  <2>3. i # j /\ ~ Before(h[j], h[i])
    <3>1. m \in Int /\ n \in Int
      BY PointsOrdered
    <3>2. Before(h[j], h[i]) => n < m
      BY <2>1, <2>2, Places
    <3>. QED
      BY <1>7, <2>1, <2>2, <3>1, <3>2
  <2>. QED
    BY <2>1, <2>2, <2>3, PointsOrdered
<1>. QED
  BY <1>3, <1>5, <1>6, <1>7

\* What is sorted is determined by its points.
LEMMA SameOrder ==
  ASSUME NEW h, NEW g, Keyed(h), Keyed(g), Len(h) = Len(g), Range(h) = Range(g)
  PROVE  Sorted(h) = Sorted(g)
<1> DEFINE D == DOMAIN h
           s == Sorted(h)
           t == Sorted(g)
<1>1. D = 1 .. Len(h) /\ Len(h) \in Nat /\ DOMAIN g = D
  BY PointsOrdered
<1>2. /\ s = [n \in D |-> s[n]] /\ t = [n \in D |-> t[n]]
      /\ DOMAIN s = D /\ DOMAIN t = D
      /\ Range(s) = Range(h) /\ Range(t) = Range(h)
      /\ \A m, n \in D : m < n => Before(s[m], s[n]) /\ Before(t[m], t[n])
  BY <1>1, SortedInOrder
<1>3. \A p, q \in Range(h) : Before(p, q) => ~ Before(q, p)
  BY PointsOrdered DEF Range
<1> HIDE DEF s, t
<1>4. \A n \in D : /\ s[n] \in Range(h) /\ t[n] \in Range(h)
                   /\ \E k \in D : s[n] = t[k]
                   /\ \E k \in D : t[n] = s[k]
  <2>1. Range(s) = {s[n] : n \in D} /\ Range(t) = {t[n] : n \in D}
    BY <1>2 DEF Range
  <2>2. \A n \in D : s[n] \in Range(s) /\ t[n] \in Range(t)
    BY <2>1
  <2>3. \A n \in D : s[n] \in {t[k] : k \in D} /\ t[n] \in {s[k] : k \in D}
    BY <1>2, <2>1, <2>2
  <2>. QED
    BY <1>2, <2>2, <2>3
<1> DEFINE Differ == {n \in D : s[n] # t[n]}
<1>5. SUFFICES ASSUME Differ # {} PROVE FALSE
  BY <1>2 DEF s, t
<1>5a. Differ \in SUBSET Nat
  BY <1>1
<1>6. PICK m \in Differ : \A n \in Differ : m <= n
  <2> HIDE DEF Differ
  <2>. QED
    BY <1>5, <1>5a, LeastNumber
<1>7. \A n \in D : n < m => s[n] = t[n]
  BY <1>1, <1>6
<1>8. Before(t[m], s[m])
  <2>1. PICK k \in D : s[m] = t[k]
    BY <1>4, <1>6
  <2>2. k # m /\ ~ (k < m)
    BY <1>2, <1>3, <1>4, <1>6, <1>7, <2>1
  <2>. QED
    BY <1>1, <1>2, <1>6, <2>1, <2>2
<1>9. Before(s[m], t[m])
  <2>1. PICK k \in D : t[m] = s[k]
    BY <1>4, <1>6
  <2>2. k # m /\ ~ (k < m)
    BY <1>2, <1>3, <1>4, <1>6, <1>7, <2>1
  <2>. QED
    BY <1>1, <1>2, <1>6, <2>1, <2>2
<1>. QED
  BY <1>3, <1>4, <1>6, <1>8, <1>9

-----------------------------------------------------------------------------
(* Sums: c holds the values at positions 1 .. n, f their exact sums and r   *)
(* the sums that the decimal context rounds, for every set of positions.    *)

Sums(f, c, n) ==
  f = [S \in SUBSET (1 .. n) |-> IF S = {} THEN 0 ELSE f[S \ {Max(S)}] + c[Max(S)]]

RoundedSums(r, c, n) ==
  r = [S \in SUBSET (1 .. n) |-> IF S = {} THEN 0 ELSE Add(r[S \ {Max(S)}], c[Max(S)])]

\* f are the exact sums of integers.
Exact(f, c, n) ==
  n \in Nat /\ c \in [1 .. n -> Int] /\ f \in [SUBSET (1 .. n) -> Int] /\ Sums(f, c, n)

\* One position more.
LEMMA OneMore ==
  ASSUME NEW n \in Nat, NEW S \in SUBSET (1 .. n + 1)
  PROVE  /\ n + 1 \in S => Max(S) = n + 1 /\ S \ {n + 1} \in SUBSET (1 .. n)
         /\ n + 1 \notin S => S \in SUBSET (1 .. n) /\ S \ {Max(S)} \in SUBSET (1 .. n)
<1>1. \A i \in S : i \in 1 .. n \/ i = n + 1
  OBVIOUS
<1>2. ASSUME n + 1 \in S PROVE Max(S) = n + 1
  <2>1. Max(S) \in S /\ \A i \in S : i <= Max(S)
    <3>1. n + 1 \in Nat /\ S # {}
      BY <1>2
    <3>. QED
      BY <3>1, GreatestPosition
  <2>2. Max(S) \in 1 .. n \/ Max(S) = n + 1
    BY <1>1, <2>1
  <2>3. n + 1 <= Max(S)
    BY <1>2, <2>1
  <2>. QED
    BY <2>2, <2>3
<1>. QED
  BY <1>1, <1>2

LEMMA SumsExist ==
  ASSUME NEW N \in Nat, NEW c \in [1 .. N -> Int]
  PROVE  \E f \in [SUBSET (1 .. N) -> Int] : Sums(f, c, N)
<1> DEFINE Q(n) == \E f \in [SUBSET (1 .. n) -> Int] : Sums(f, c, n)
           P == {n \in Nat : n <= N => Q(n)}
<1>1. Q(0)
  <2> DEFINE f == [S \in SUBSET (1 .. 0) |-> 0]
  <2>1. 1 .. 0 = {} /\ SUBSET (1 .. 0) = {{}}
    OBVIOUS
  <2>2. Sums(f, c, 0) /\ f \in [SUBSET (1 .. 0) -> Int]
    BY <2>1 DEF Sums
  <2>. QED
    BY <2>2
<1>2. ASSUME NEW n \in Nat, n + 1 <= N, Q(n) PROVE Q(n + 1)
  <2>2. PICK f \in [SUBSET (1 .. n) -> Int] : Sums(f, c, n)
    BY <1>2
  <2> DEFINE g == [S \in SUBSET (1 .. n + 1) |-> IF n + 1 \in S THEN f[S \ {n + 1}] + c[n + 1] ELSE f[S]]
  <2>3. n + 1 \in 1 .. N /\ c[n + 1] \in Int
    BY <1>2
  <2>4. g \in [SUBSET (1 .. n + 1) -> Int]
    BY <2>3, OneMore
  <2>5. ASSUME NEW S \in SUBSET (1 .. n + 1)
        PROVE  g[S] = IF S = {} THEN 0 ELSE g[S \ {Max(S)}] + c[Max(S)]
    <3>1. S \ {Max(S)} \in SUBSET (1 .. n + 1) /\ n + 1 \notin S \ {n + 1}
      OBVIOUS
    <3>2. CASE n + 1 \in S
      <4>1. Max(S) = n + 1 /\ S # {} /\ g[S] = f[S \ {n + 1}] + c[n + 1]
        BY <3>2, OneMore
      <4>2. g[S \ {n + 1}] = f[S \ {n + 1}]
        BY <3>1, <4>1
      <4>. QED
        BY <4>1, <4>2
    <3>3. CASE n + 1 \notin S
      <4>1. S \in SUBSET (1 .. n) /\ g[S] = f[S] /\ g[S \ {Max(S)}] = f[S \ {Max(S)}]
        BY <3>1, <3>3, OneMore
      <4>2. f[S] = IF S = {} THEN 0 ELSE f[S \ {Max(S)}] + c[Max(S)]
        BY <2>2, <4>1 DEF Sums
      <4>. QED
        BY <4>1, <4>2
    <3>. QED
      BY <3>2, <3>3
  <2> HIDE DEF g
  <2>6. Sums(g, c, n + 1)
    BY <2>4, <2>5 DEF Sums
  <2>. QED
    BY <2>4, <2>6
<1> HIDE DEF Q
<1>3. 0 \in P /\ \A n \in P : n + 1 \in P
  BY <1>1, <1>2
<1>4. P = Nat
  <2>1. P \in SUBSET Nat
    OBVIOUS
  <2> HIDE DEF P
  <2>. QED
    BY <1>3, <2>1, InductionByOne
<1>5. Q(N)
  BY <1>4
<1>. QED
  BY <1>5 DEF Q

LEMMA RoundedSumsExist ==
  ASSUME NEW N \in Nat, NEW c
  PROVE  \E r : RoundedSums(r, c, N)
<1> DEFINE Q(n) == \E r : RoundedSums(r, c, n)
           P == {n \in Nat : Q(n)}
<1>1. Q(0)
  <2> DEFINE r == [S \in SUBSET (1 .. 0) |-> 0]
  <2>1. 1 .. 0 = {} /\ SUBSET (1 .. 0) = {{}}
    OBVIOUS
  <2>2. RoundedSums(r, c, 0)
    BY <2>1 DEF RoundedSums
  <2>. QED
    BY <2>2
<1>2. ASSUME NEW n \in Nat, Q(n) PROVE Q(n + 1)
  <2>1. PICK r : RoundedSums(r, c, n)
    BY <1>2
  <2> DEFINE q == [S \in SUBSET (1 .. n + 1) |-> IF n + 1 \in S THEN Add(r[S \ {n + 1}], c[n + 1]) ELSE r[S]]
  <2>2. ASSUME NEW S \in SUBSET (1 .. n + 1)
        PROVE  q[S] = IF S = {} THEN 0 ELSE Add(q[S \ {Max(S)}], c[Max(S)])
    <3>1. S \ {Max(S)} \in SUBSET (1 .. n + 1) /\ n + 1 \notin S \ {n + 1}
      OBVIOUS
    <3>2. CASE n + 1 \in S
      <4>1. Max(S) = n + 1 /\ S # {} /\ q[S] = Add(r[S \ {n + 1}], c[n + 1])
        BY <3>2, OneMore
      <4>2. q[S \ {n + 1}] = r[S \ {n + 1}]
        BY <3>1, <4>1
      <4>. QED
        BY <4>1, <4>2
    <3>3. CASE n + 1 \notin S
      <4>1. S \in SUBSET (1 .. n) /\ q[S] = r[S] /\ q[S \ {Max(S)}] = r[S \ {Max(S)}]
        BY <3>1, <3>3, OneMore
      <4>2. r[S] = IF S = {} THEN 0 ELSE Add(r[S \ {Max(S)}], c[Max(S)])
        BY <2>1, <4>1 DEF RoundedSums
      <4>. QED
        BY <4>1, <4>2
    <3>. QED
      BY <3>2, <3>3
  <2>3. q = [S \in SUBSET (1 .. n + 1) |-> q[S]]
    OBVIOUS
  <2> HIDE DEF q
  <2>4. RoundedSums(q, c, n + 1)
    BY <2>2, <2>3 DEF RoundedSums
  <2>. QED
    BY <2>4
<1> HIDE DEF Q
<1>3. 0 \in P /\ \A n \in P : n + 1 \in P
  BY <1>1, <1>2
<1>4. P = Nat
  <2>1. P \in SUBSET Nat
    OBVIOUS
  <2> HIDE DEF P
  <2>. QED
    BY <1>3, <2>1, InductionByOne
<1>5. Q(N)
  BY <1>4
<1>. QED
  BY <1>5 DEF Q

\* What the equations of a sum say of one set of positions.
LEMMA LastAdded ==
  ASSUME NEW n \in Nat, NEW c \in [1 .. n -> Int], NEW f \in [SUBSET (1 .. n) -> Int], Sums(f, c, n),
         NEW S \in SUBSET (1 .. n)
  PROVE  /\ S = {} => f[S] = 0
         /\ S # {} => S \ {Max(S)} \in SUBSET (1 .. n) /\ f[S] = f[S \ {Max(S)}] + c[Max(S)]
<1>1. f[S] = IF S = {} THEN 0 ELSE f[S \ {Max(S)}] + c[Max(S)]
  BY DEF Sums
<1>. QED
  BY <1>1

\* Sums of integers are integers.
LEMMA SumsAreIntegers ==
  ASSUME NEW n \in Nat, NEW c \in [1 .. n -> Int], NEW f, Sums(f, c, n)
  PROVE  f \in [SUBSET (1 .. n) -> Int]
<1> DEFINE Q(k) == \A S \in SUBSET (1 .. n) : (\A i \in S : i <= k) => f[S] \in Int
           P == {k \in Nat : Q(k)}
<1>0. \A S \in SUBSET (1 .. n) : S # {} => f[S] = f[S \ {Max(S)}] + c[Max(S)]
  BY DEF Sums
<1>0a. ASSUME NEW S, S = {} PROVE f[S] \in Int
  <2>1. f[{}] = 0
    BY DEF Sums
  <2>. QED
    BY <1>0a, <2>1
<1>1. Q(0)
  <2>1. \A S \in SUBSET (1 .. n) : (\A i \in S : i <= 0) => S = {}
    OBVIOUS
  <2>. QED
    BY <1>0a, <2>1
<1>2. ASSUME NEW k \in Nat, Q(k) PROVE Q(k + 1)
  <2>1. SUFFICES ASSUME NEW S \in SUBSET (1 .. n), \A i \in S : i <= k + 1, S # {}
                 PROVE  f[S] \in Int
    BY <1>0a
  <2> DEFINE m == Max(S)
  <2>2. m \in S /\ \A i \in S : i <= m
    BY <2>1, GreatestPosition
  <2>3. S \ {m} \in SUBSET (1 .. n) /\ f[S] = f[S \ {m}] + c[m]
    BY <1>0, <2>1
  <2> HIDE DEF m
  <2>4. \A i \in S \ {m} : i <= k
    BY <2>1, <2>2
  <2>5. f[S \ {m}] \in Int /\ c[m] \in Int
    BY <1>2, <2>2, <2>3, <2>4
  <2>. QED
    BY <2>3, <2>5
<1> HIDE DEF Q
<1>3. 0 \in P /\ \A k \in P : k + 1 \in P
  BY <1>1, <1>2
<1>4. P = Nat
  <2>1. P \in SUBSET Nat
    OBVIOUS
  <2> HIDE DEF P
  <2>. QED
    BY <1>3, <2>1, InductionByOne
<1>5. Q(n)
  BY <1>4
<1>6. \A S \in SUBSET (1 .. n) : \A i \in S : i <= n
  OBVIOUS
<1>7. f = [S \in SUBSET (1 .. n) |-> f[S]]
  BY DEF Sums
<1>8. \A S \in SUBSET (1 .. n) : f[S] \in Int
  BY <1>5, <1>6 DEF Q
<1>. QED
  BY <1>7, <1>8

\* Any sample may be taken as the last one.
LEMMA AnyAdded ==
  ASSUME NEW n \in Nat, NEW c \in [1 .. n -> Int], NEW f \in [SUBSET (1 .. n) -> Int], Sums(f, c, n)
  PROVE  \A S \in SUBSET (1 .. n) : \A j \in S : f[S] = f[S \ {j}] + c[j]
<1> DEFINE Q(k) == \A S \in SUBSET (1 .. n) : (\A i \in S : i <= k) => \A j \in S : f[S] = f[S \ {j}] + c[j]
           P == {k \in Nat : Q(k)}
<1>1. Q(0)
  OBVIOUS
<1>2. ASSUME NEW k \in Nat, Q(k) PROVE Q(k + 1)
  <2>1. SUFFICES ASSUME NEW S \in SUBSET (1 .. n), \A i \in S : i <= k + 1, NEW j \in S
                 PROVE  f[S] = f[S \ {j}] + c[j]
    OBVIOUS
  <2> DEFINE m == Max(S)
             R == S \ {m}
             T == S \ {j}
  <2>0. S # {}
    OBVIOUS
  <2>2a. m \in S /\ \A i \in S : i <= m
    BY <2>0, GreatestPosition
  <2>2b. R \in SUBSET (1 .. n) /\ f[S] = f[R] + c[m]
    BY <2>0, LastAdded
  <2>2. /\ m \in S /\ \A i \in S : i <= m
        /\ R \in SUBSET (1 .. n) /\ f[S] = f[R] + c[m]
    BY <2>2a, <2>2b
  <2>3. CASE j = m
    BY <2>2, <2>3
  <2>4. CASE j # m
    <3> HIDE DEF m
    <3>1. j \in R /\ \A i \in R : i <= k
      BY <2>1, <2>2, <2>4
    <3>2. f[R] = f[R \ {j}] + c[j]
      BY <1>2, <2>2, <3>1
    <3>3. T \in SUBSET (1 .. n) /\ T # {} /\ m \in T /\ \A i \in T : i <= m
      BY <2>2, <2>4
    <3>4. Max(T) = m
      <4>1. Max(T) \in T /\ \A i \in T : i <= Max(T)
        BY <3>3, GreatestPosition
      <4>2. Max(T) <= m /\ m <= Max(T)
        BY <3>3, <4>1
      <4>3. Max(T) \in 1 .. n /\ m \in 1 .. n
        <5> HIDE DEF T
        <5>. QED
          BY <3>3, <4>1
      <4>. QED
        BY <4>2, <4>3
    <3>5. f[T] = f[T \ {m}] + c[m]
      <4> HIDE DEF T
      <4>. QED
        BY <3>3, <3>4, LastAdded
    <3>6. T \ {m} = R \ {j} /\ R \ {j} \in SUBSET (1 .. n)
      OBVIOUS
    <3>7. c[m] \in Int /\ c[j] \in Int /\ f[R \ {j}] \in Int
      BY <2>2, <3>6
    <3>8. f[T \ {m}] = f[R \ {j}]
      BY <3>6
    <3> HIDE DEF R, T
    <3>9. f[S] = (f[R \ {j}] + c[j]) + c[m] /\ f[T] = f[R \ {j}] + c[m]
      BY <2>2, <3>2, <3>5, <3>8
    <3>10. f[S] = f[T] + c[j]
      BY <3>7, <3>9
    <3>. QED
      BY <3>10 DEF T
  <2>. QED
    BY <2>3, <2>4
<1> HIDE DEF Q
<1>3. 0 \in P /\ \A k \in P : k + 1 \in P
  BY <1>1, <1>2
<1>4. P = Nat
  <2>1. P \in SUBSET Nat
    OBVIOUS
  <2> HIDE DEF P
  <2>. QED
    BY <1>3, <2>1, InductionByOne
<1>5. Q(n)
  BY <1>4
<1>6. \A S \in SUBSET (1 .. n) : \A i \in S : i <= n
  OBVIOUS
<1>. QED
  BY <1>5, <1>6 DEF Q

\* b pairs the samples S of c with the samples T of d, value by value.
Pairs(b, S, T, c, d) ==
  /\ b \in [S -> T]
  /\ \A i, j \in S : b[i] = b[j] => i = j
  /\ \A t \in T : \E i \in S : b[i] = t
  /\ \A i \in S : d[b[i]] = c[i]

\* Exact sums do not depend on the order.
LEMMA SumPermuted ==
  ASSUME NEW n, NEW c, NEW f, Exact(f, c, n), NEW d, NEW g, Exact(g, d, n),
         NEW X \in SUBSET (1 .. n), NEW Y \in SUBSET (1 .. n), NEW p, Pairs(p, X, Y, c, d)
  PROVE  f[X] = g[Y]
<1>a. /\ n \in Nat
      /\ c \in [1 .. n -> Int] /\ f \in [SUBSET (1 .. n) -> Int] /\ Sums(f, c, n)
      /\ d \in [1 .. n -> Int] /\ g \in [SUBSET (1 .. n) -> Int] /\ Sums(g, d, n)
  BY DEF Exact
<1> USE <1>a
<1> DEFINE Q(k) == \A S, T \in SUBSET (1 .. n) :
                     (\A i \in S : i <= k) /\ (\E b : Pairs(b, S, T, c, d)) => f[S] = g[T]
           P == {k \in Nat : Q(k)}
<1>0. ASSUME NEW T \in SUBSET (1 .. n), NEW b, Pairs(b, {}, T, c, d) PROVE f[{}] = g[T]
  <2>1. T = {}
    BY <1>0 DEF Pairs
  <2>. QED
    BY <2>1, LastAdded
<1>1. Q(0)
  <2>1. \A S \in SUBSET (1 .. n) : (\A i \in S : i <= 0) => S = {}
    OBVIOUS
  <2>. QED
    BY <1>0, <2>1
<1>2. ASSUME NEW k \in Nat, Q(k) PROVE Q(k + 1)
  <2>1. SUFFICES ASSUME NEW S \in SUBSET (1 .. n), NEW T \in SUBSET (1 .. n), \A i \in S : i <= k + 1,
                        NEW b, Pairs(b, S, T, c, d), S # {}
                 PROVE  f[S] = g[T]
    BY <1>0
  <2> DEFINE m == Max(S)
             R == S \ {m}
             U == T \ {b[m]}
             a == [i \in R |-> b[i]]
  <2>2a. m \in S /\ \A i \in S : i <= m
    BY <2>1, GreatestPosition
  <2>2b. R \in SUBSET (1 .. n) /\ f[S] = f[R] + c[m]
    BY <2>1, LastAdded
  <2>2. /\ m \in S /\ \A i \in S : i <= m
        /\ R \in SUBSET (1 .. n) /\ f[S] = f[R] + c[m]
    BY <2>2a, <2>2b
  <2> HIDE DEF m
  <2>3. b[m] \in T /\ d[b[m]] = c[m] /\ U \in SUBSET (1 .. n)
    BY <2>1, <2>2 DEF Pairs
  <2>4. g[T] = g[U] + d[b[m]]
    BY <2>3, AnyAdded
  <2>5. Pairs(a, R, U, c, d)
    <3>1. \A i \in R : b[i] \in U
      BY <2>1, <2>2 DEF Pairs
    <3>2. \A t \in U : \E i \in R : b[i] = t
      BY <2>1, <2>2 DEF Pairs
    <3>. QED
      BY <2>1, <3>1, <3>2 DEF Pairs
  <2>6. \A i \in R : i <= k
    BY <2>1, <2>2
  <2>7. f[R] = g[U]
    BY <1>2, <2>2, <2>3, <2>5, <2>6
  <2>. QED
    BY <2>2, <2>3, <2>4, <2>7
<1> HIDE DEF Q
<1>3. 0 \in P /\ \A k \in P : k + 1 \in P
  BY <1>1, <1>2
<1>4. P = Nat
  <2>1. P \in SUBSET Nat
    OBVIOUS
  <2> HIDE DEF P
  <2>. QED
    BY <1>3, <2>1, InductionByOne
<1>5. Q(n)
  BY <1>4
<1>6. \A i \in X : i <= n
  OBVIOUS
<1>. QED
  BY <1>5, <1>6 DEF Q

\* What fits the precision is not rounded.
LEMMA Unrounded ==
  ASSUME NEW x, Representable(x)
  PROVE  Significant(x) = x
BY DEF Significant

LEMMA AbsOfSum ==
  ASSUME NEW u \in Int, NEW v \in Int, NEW w \in Int, 0 <= u, Abs(v) <= u
  PROVE  0 <= u + Abs(w) /\ Abs(v + w) <= u + Abs(w) /\ u <= u + Abs(w) /\ Abs(w) \in Int /\ Abs(v + w) \in Int
BY DEF Abs

Magnitudes(c, n) == [i \in 1 .. n |-> Abs(c[i])]

\* As long as the magnitudes of the samples add up to something representable, the
\* rounded sum is the exact one.
LEMMA RoundedExact ==
  ASSUME NEW n, NEW c, NEW f, Exact(f, c, n), NEW a, Exact(a, Magnitudes(c, n), n),
         NEW r, RoundedSums(r, c, n), NEW X \in SUBSET (1 .. n), Representable(a[X])
  PROVE  r[X] = f[X]
<1>a. /\ n \in Nat
      /\ c \in [1 .. n -> Int] /\ f \in [SUBSET (1 .. n) -> Int] /\ Sums(f, c, n)
      /\ a \in [SUBSET (1 .. n) -> Int] /\ Sums(a, Magnitudes(c, n), n)
  BY DEF Exact
<1> USE <1>a
<1> DEFINE L == 10^Digits
           Agree(S) == 0 <= a[S] /\ Abs(f[S]) <= a[S] /\ (a[S] < L => r[S] = f[S])
           Q(k) == \A S \in SUBSET (1 .. n) : (\A i \in S : i <= k) => Agree(S)
           P == {k \in Nat : Q(k)}
<1>0. L \in Int /\ \A x \in Int : Representable(x) <=> Abs(x) < L
  BY PredictionAssumption DEF Representable
<1> HIDE DEF L
<1>1. Agree({})
  <2>1. f[{}] = 0 /\ a[{}] = 0
    BY DEF Sums
  <2>2. r[{}] = 0
    BY DEF RoundedSums
  <2>. QED
    BY <2>1, <2>2 DEF Abs
<1>2. Q(0)
  <2>1. \A S \in SUBSET (1 .. n) : (\A i \in S : i <= 0) => S = {}
    OBVIOUS
  <2>. QED
    BY <1>1, <2>1
<1>3. ASSUME NEW k \in Nat, Q(k) PROVE Q(k + 1)
  <2>1. SUFFICES ASSUME NEW S \in SUBSET (1 .. n), \A i \in S : i <= k + 1, S # {}
                 PROVE  Agree(S)
    BY <1>1
  <2> DEFINE m == Max(S)
             R == S \ {m}
             x == c[m]
  <2>2. m \in S /\ \A i \in S : i <= m
    BY <2>1, GreatestPosition
  <2>3. R \in SUBSET (1 .. n) /\ f[S] = f[R] + x
    BY <2>1, LastAdded
  <2>4. a[S] = a[R] + Abs(x)
    <3>1. Magnitudes(c, n)[m] = Abs(x)
      <4> HIDE DEF m
      <4>. QED
        BY <2>2 DEF Magnitudes
    <3>2. Magnitudes(c, n) \in [1 .. n -> Int]
      BY DEF Magnitudes, Abs
    <3>3. a[S] = a[R] + Magnitudes(c, n)[m]
      BY <2>1, <3>2, LastAdded
    <3>. QED
      BY <3>1, <3>3
  <2>5. r[S] = Add(r[R], x)
    <3>1. r[S] = IF S = {} THEN 0 ELSE Add(r[R], x)
      BY DEF RoundedSums
    <3>. QED
      BY <2>1, <3>1
  <2> HIDE DEF m
  <2>6. Agree(R)
    <3>1. \A i \in R : i <= k
      BY <2>1, <2>2
    <3>. QED
      BY <1>3, <2>3, <3>1
  <2>7. x \in Int /\ f[R] \in Int /\ a[R] \in Int
    BY <2>2, <2>3
  <2> HIDE DEF R, x
  <2>8. /\ 0 <= a[S] /\ Abs(f[S]) <= a[S] /\ a[R] <= a[S]
        /\ f[S] \in Int /\ a[S] \in Int /\ Abs(f[S]) \in Int
    <3>1. 0 <= a[R] /\ Abs(f[R]) <= a[R]
      BY <2>6
    <3>. QED
      BY <2>3, <2>4, <2>7, <3>1, AbsOfSum
  <2>9. ASSUME a[S] < L PROVE r[S] = f[S]
    <3>1. r[R] = f[R]
      BY <1>0, <2>6, <2>7, <2>8, <2>9
    <3>2. Abs(f[S]) < L
      BY <1>0, <2>8, <2>9
    <3>3. Significant(f[S]) = f[S]
      BY <1>0, <2>8, <3>2, Unrounded
    <3>. QED
      BY <2>3, <2>5, <3>1, <3>3 DEF Add
  <2>. QED
    BY <2>8, <2>9
<1> HIDE DEF Q
<1>4. 0 \in P /\ \A k \in P : k + 1 \in P
  BY <1>2, <1>3
<1>5. P = Nat
  <2>1. P \in SUBSET Nat
    OBVIOUS
  <2> HIDE DEF P
  <2>. QED
    BY <1>4, <2>1, InductionByOne
<1>6. Q(n)
  BY <1>5
<1>7. Agree(X)
  <2>1. \A i \in X : i <= n
    OBVIOUS
  <2>. QED
    BY <1>6, <2>1 DEF Q
<1>8. a[X] < L
  BY <1>0, <1>7 DEF Abs
<1>. QED
  BY <1>7, <1>8

-----------------------------------------------------------------------------
(* Buckets: two orders of the same points have the same samples, and so the *)
(* same means.                                                              *)

\* A history as the digest is taken of: numbers, and no key twice.
Numeric(h) == Keyed(h) /\ \A i \in DOMAIN h : h[i].value[2] \in Int

Values(h) == [i \in 1 .. Len(h) |-> h[i].value[2]]

\* SumOf and Magnitude are sums in the sense of the lemmas above.
LEMMA SumOfIsSum ==
  ASSUME NEW h, Numeric(h)
  PROVE  \E r : /\ RoundedSums(r, Values(h), Len(h))
                /\ \A S \in SUBSET DOMAIN h : SumOf(h, S) = r[S]
<1> DEFINE Equation(r) == r = [S \in SUBSET DOMAIN h |->
                                 IF S = {} THEN 0 ELSE Add(r[S \ {Max(S)}], h[Max(S)].value[2])]
           sum == CHOOSE r : Equation(r)
<1>1. DOMAIN h = 1 .. Len(h) /\ Len(h) \in Nat
  BY PointsOrdered DEF Numeric
<1>2. ASSUME NEW S \in SUBSET DOMAIN h, S # {} PROVE Values(h)[Max(S)] = h[Max(S)].value[2]
  <2>1. Max(S) \in S
    BY <1>1, <1>2, GreatestPosition
  <2>. QED
    BY <1>1, <2>1 DEF Values
<1>3. ASSUME NEW r PROVE Equation(r) <=> RoundedSums(r, Values(h), Len(h))
  <2>1. [S \in SUBSET DOMAIN h |-> IF S = {} THEN 0 ELSE Add(r[S \ {Max(S)}], h[Max(S)].value[2])]
        = [S \in SUBSET (1 .. Len(h)) |-> IF S = {} THEN 0 ELSE Add(r[S \ {Max(S)}], Values(h)[Max(S)])]
    BY <1>1, <1>2
  <2>. QED
    BY <2>1 DEF RoundedSums
<1>4. \E r : Equation(r)
  BY <1>1, <1>3, RoundedSumsExist
<1>5. Equation(sum)
  <2> HIDE DEF Equation
  <2>. QED
    BY <1>4
<1>6. \A S \in SUBSET DOMAIN h : SumOf(h, S) = sum[S]
  BY DEF SumOf
<1> HIDE DEF sum
<1>. QED
  BY <1>3, <1>5, <1>6

LEMMA MagnitudeIsSum ==
  ASSUME NEW h, Numeric(h)
  PROVE  \E a :
           /\ Exact(a, Magnitudes(Values(h), Len(h)), Len(h))
           /\ \A S \in SUBSET DOMAIN h : Magnitude(h, S) = a[S]
<1> DEFINE n == Len(h)
           c == Magnitudes(Values(h), n)
           Equation(a) == a = [S \in SUBSET DOMAIN h |->
                                 IF S = {} THEN 0 ELSE a[S \ {Max(S)}] + Abs(h[Max(S)].value[2])]
           sum == CHOOSE a : Equation(a)
<1>1. DOMAIN h = 1 .. n /\ n \in Nat
  BY PointsOrdered DEF Numeric
<1>2. c \in [1 .. n -> Int]
  BY <1>1 DEF Magnitudes, Values, Numeric, Abs
<1>3. ASSUME NEW S \in SUBSET DOMAIN h, S # {} PROVE c[Max(S)] = Abs(h[Max(S)].value[2])
  <2>1. Max(S) \in S
    BY <1>1, <1>3, GreatestPosition
  <2>. QED
    BY <1>1, <2>1 DEF Values, Magnitudes
<1>4. ASSUME NEW a PROVE Equation(a) <=> Sums(a, c, n)
  <2>1. [S \in SUBSET DOMAIN h |-> IF S = {} THEN 0 ELSE a[S \ {Max(S)}] + Abs(h[Max(S)].value[2])]
        = [S \in SUBSET (1 .. n) |-> IF S = {} THEN 0 ELSE a[S \ {Max(S)}] + c[Max(S)]]
    BY <1>1, <1>3
  <2>. QED
    BY <2>1 DEF Sums
<1>5. PICK a \in [SUBSET (1 .. n) -> Int] : Sums(a, c, n)
  BY <1>1, <1>2, SumsExist
<1>6. Equation(sum)
  <2>1. \E x : Equation(x)
    BY <1>4, <1>5
  <2> HIDE DEF Equation
  <2>. QED
    BY <2>1
<1>7. \A S \in SUBSET DOMAIN h : Magnitude(h, S) = sum[S]
  BY DEF Magnitude
<1> HIDE DEF sum, c
<1>8. Sums(sum, c, n)
  BY <1>4, <1>6
<1>9. sum \in [SUBSET (1 .. n) -> Int]
  BY <1>1, <1>2, <1>8, SumsAreIntegers
<1>10. Exact(sum, c, n)
  BY <1>1, <1>2, <1>8, <1>9 DEF Exact
<1>. QED
  BY <1>7, <1>10 DEF c

\* Two histories of the same points.
SamePoints(h, g) ==
  Numeric(h) /\ Numeric(g) /\ Len(h) = Len(g) /\ Range(h) = Range(g)

At(h, t) == {i \in DOMAIN h : h[i].timestamp = t}

\* Their points pair off, and so do the samples at any time.
LEMMA SamplesPair ==
  ASSUME NEW h, NEW g, SamePoints(h, g), NEW t
  PROVE  /\ Cardinality(At(h, t)) = Cardinality(At(g, t))
         /\ \E b : /\ Pairs(b, At(h, t), At(g, t), Values(h), Values(g))
                   /\ Pairs(b, At(h, t), At(g, t), Magnitudes(Values(h), Len(h)), Magnitudes(Values(g), Len(h)))
<1> DEFINE D == DOMAIN h
           S == At(h, t)
           T == At(g, t)
           b == [i \in S |-> CHOOSE j \in D : g[j] = h[i]]
<1>0. Numeric(h) /\ Numeric(g) /\ Len(h) = Len(g) /\ Range(h) = Range(g)
  BY DEF SamePoints
<1>0a. /\ \A i : i \in S <=> i \in D /\ h[i].timestamp = t
       /\ \A i : i \in T <=> i \in DOMAIN g /\ g[i].timestamp = t
  BY DEF At
<1>1. D = 1 .. Len(h) /\ Len(h) \in Nat /\ DOMAIN g = D
  BY <1>0, PointsOrdered DEF Numeric
<1>2. \A i \in D : \E j \in D : g[j] = h[i]
  BY <1>0, <1>1 DEF Range
<1>3. \A j \in D : \E i \in D : g[j] = h[i]
  BY <1>0, <1>1 DEF Range
<1>4. \A i, j \in D : (h[i] = h[j] => i = j) /\ (g[i] = g[j] => i = j)
  BY <1>0, <1>1 DEF Numeric, Keyed
<1> HIDE DEF S, T
<1>5. \A i \in S : i \in D /\ b[i] \in D /\ g[b[i]] = h[i]
  BY <1>0a, <1>2
<1>6. \A i \in S : b[i] \in T
  BY <1>0a, <1>1, <1>5
<1>7. b \in [S -> T]
  BY <1>6
<1> HIDE DEF b
<1>8. \A i, j \in S : b[i] = b[j] => i = j
  BY <1>4, <1>5
<1>9. \A j \in T : \E i \in S : b[i] = j
  <2>1. SUFFICES ASSUME NEW j, j \in T PROVE \E i \in S : b[i] = j
    OBVIOUS
  <2>1a. j \in D
    BY <1>0a, <1>1, <2>1
  <2>2. PICK i \in D : g[j] = h[i]
    BY <1>3, <2>1a
  <2>3. i \in S /\ j \in D
    BY <1>0a, <1>1, <2>1, <2>1a, <2>2
  <2>4. b[i] = j
    BY <1>4, <1>5, <2>2, <2>3
  <2>. QED
    BY <2>3, <2>4
<1>10. \A i \in S : /\ Values(g)[b[i]] = Values(h)[i]
                    /\ Magnitudes(Values(g), Len(h))[b[i]] = Magnitudes(Values(h), Len(h))[i]
  BY <1>1, <1>5 DEF Values, Magnitudes
<1>11. /\ Pairs(b, S, T, Values(h), Values(g))
       /\ Pairs(b, S, T, Magnitudes(Values(h), Len(h)), Magnitudes(Values(g), Len(h)))
  BY <1>7, <1>8, <1>9, <1>10 DEF Pairs
<1>12. Cardinality(S) = Cardinality(T)
  <2>1. S \in SUBSET D /\ IsFiniteSet(D)
    BY <1>0a, <1>1, FS_Interval
  <2>2. IsFiniteSet(S)
    BY <2>1, FS_Subset
  <2>3. b \in Bijection(S, T)
    BY <1>7, <1>8, <1>9 DEF Bijection, Injection, Surjection, IsInjective
  <2>4. ExistsBijection(S, T)
    BY <2>3 DEF ExistsBijection
  <2>. QED
    BY <2>2, <2>4, FS_Bijection
<1>. QED
  BY <1>11, <1>12 DEF S, T

\* Their magnitudes are equal, and so are their rounded sums if these are within
\* the precision.
LEMMA SumsAgree ==
  ASSUME NEW h, NEW g, SamePoints(h, g), NEW t
  PROVE  /\ Magnitude(h, At(h, t)) = Magnitude(g, At(g, t))
         /\ Representable(Magnitude(h, At(h, t))) => SumOf(h, At(h, t)) = SumOf(g, At(g, t))
<1> DEFINE n == Len(h)
           c == Values(h)
           d == Values(g)
           S == At(h, t)
           T == At(g, t)
<1>0. Numeric(h) /\ Numeric(g) /\ Len(g) = n
  BY DEF SamePoints
<1>1. DOMAIN h = 1 .. n /\ DOMAIN g = 1 .. n /\ n \in Nat
  BY <1>0, PointsOrdered DEF Numeric
<1>2. c \in [1 .. n -> Int] /\ d \in [1 .. n -> Int]
  BY <1>0, <1>1 DEF Values, Numeric
<1>4. S \in SUBSET (1 .. n) /\ T \in SUBSET (1 .. n)
  BY <1>1 DEF At
<1>5. PICK b : Pairs(b, S, T, c, d) /\ Pairs(b, S, T, Magnitudes(c, n), Magnitudes(d, n))
  BY SamplesPair
<1>8. PICK a : Exact(a, Magnitudes(c, n), n) /\ \A X \in SUBSET DOMAIN h : Magnitude(h, X) = a[X]
  BY <1>0, MagnitudeIsSum
<1>9. PICK z : Exact(z, Magnitudes(d, n), n) /\ \A X \in SUBSET DOMAIN g : Magnitude(g, X) = z[X]
  BY <1>0, MagnitudeIsSum
<1>10. PICK r : RoundedSums(r, c, n) /\ \A X \in SUBSET DOMAIN h : SumOf(h, X) = r[X]
  BY <1>0, SumOfIsSum
<1>11. PICK q : RoundedSums(q, d, n) /\ \A X \in SUBSET DOMAIN g : SumOf(g, X) = q[X]
  BY <1>0, SumOfIsSum
<1> HIDE DEF S, T, c, d, n
<1>6. PICK f : Exact(f, c, n)
  BY <1>1, <1>2, SumsExist DEF Exact
<1>7. PICK e : Exact(e, d, n)
  BY <1>1, <1>2, SumsExist DEF Exact
<1>12. a[S] = z[T]
  BY <1>4, <1>5, <1>8, <1>9, SumPermuted
<1>13. f[S] = e[T]
  <2>1. Pairs(b, S, T, c, d)
    BY <1>5
  <2>. QED
    BY <1>4, <1>6, <1>7, <2>1, SumPermuted
<1>14. Magnitude(h, S) = a[S] /\ Magnitude(g, T) = a[S] /\ SumOf(h, S) = r[S] /\ SumOf(g, T) = q[T]
  BY <1>1, <1>4, <1>8, <1>9, <1>10, <1>11, <1>12
<1>15. ASSUME Representable(a[S]) PROVE r[S] = q[T]
  <2>1. r[S] = f[S]
    BY <1>4, <1>6, <1>8, <1>10, <1>15, RoundedExact
  <2>2. q[T] = e[T]
    BY <1>4, <1>7, <1>9, <1>11, <1>12, <1>15, RoundedExact
  <2>. QED
    BY <1>13, <2>1, <2>2
<1>. QED
  BY <1>14, <1>15 DEF S, T

\* The same points in the same window: the same buckets.
LEMMA SameBuckets ==
  ASSUME NEW p, NEW q, p.window_start = q.window_start,
         SamePoints(p.history, q.history), WithinPrecision(p)
  PROVE  Missing(p) = Missing(q) /\ Buckets(p) = Buckets(q)
<1> DEFINE h == p.history
           g == q.history
<1>1. Numeric(h) /\ Numeric(g) /\ Range(h) = Range(g)
  BY DEF SamePoints
<1>2. Missing(p) = Missing(q)
  <2>1. {h[i].timestamp : i \in DOMAIN h} = {x.timestamp : x \in Range(h)}
    BY DEF Range
  <2>2. {g[i].timestamp : i \in DOMAIN g} = {x.timestamp : x \in Range(g)}
    BY DEF Range
  <2>3. {h[i].timestamp : i \in DOMAIN h} = {g[i].timestamp : i \in DOMAIN g}
    BY <1>1, <2>1, <2>2
  <2>. QED
    BY <2>3 DEF Missing, BucketTime
<1>3. ASSUME NEW k \in Points PROVE Mean(p, k) = Mean(q, k)
  <2> DEFINE t == BucketTime(p, k)
  <2>1. SamplesAt(p, k) = At(h, t) /\ SamplesAt(q, k) = At(g, t)
    BY DEF SamplesAt, BucketTime, At
  <2>2. Cardinality(At(h, t)) = Cardinality(At(g, t))
    BY SamplesPair
  <2>3. Representable(Magnitude(h, At(h, t))) => SumOf(h, At(h, t)) = SumOf(g, At(g, t))
    BY SumsAgree
  <2>4. Representable(Magnitude(h, At(h, t)))
    BY <2>1 DEF WithinPrecision
  <2>. QED
    BY <2>1, <2>2, <2>3, <2>4 DEF Mean
<1>4. Buckets(p) = Buckets(q)
  BY <1>2, <1>3 DEF Buckets
<1>. QED
  BY <1>2, <1>4

-----------------------------------------------------------------------------
(* Canonical requests.                                                      *)

\* canonicalize_request leaves everything but units and values alone.
LEMMA CanonicalParts ==
  ASSUME NEW r \in Requests, NEW profile
  PROVE  LET c == Canonical(r, profile)
         IN  /\ c.tenant = r.tenant /\ c.model = r.model /\ c.frequency = r.frequency
             /\ c.window_start = r.window_start /\ c.window_end = r.window_end /\ c.digest = r.digest
             /\ c.unit = CanonicalUnit(r.unit)
             /\ c.history = [i \in 1 .. Len(r.history) |-> CanonicalPoint(r.history[i], profile)]
             /\ c.history \in Seq({CanonicalPoint(r.history[i], profile) : i \in 1 .. Len(r.history)})
             /\ Len(c.history) = Len(r.history)
<1> DEFINE points == [i \in 1 .. Len(r.history) |-> CanonicalPoint(r.history[i], profile)]
<1>1. /\ DOMAIN r = {"token", "tenant", "model", "unit", "frequency", "window_start", "window_end", "history", "digest"}
      /\ r.history \in Seq(Point)
  BY RequestAssumption
<1>2. DOMAIN r.history = 1 .. Len(r.history) /\ Len(r.history) \in Nat
  BY <1>1
<1>3. points \in Seq({CanonicalPoint(r.history[i], profile) : i \in 1 .. Len(r.history)}) /\ Len(points) = Len(r.history)
  BY <1>2
<1>4. [i \in DOMAIN r.history |-> CanonicalPoint(r.history[i], profile)] = points
  BY <1>2
<1> HIDE DEF points
<1>. QED
  BY <1>1, <1>3, <1>4 DEF Canonical, points

LEMMA CanonicalPointParts ==
  ASSUME NEW p \in Point, NEW profile, profile.scale \in 0 .. Fraction
  PROVE  LET c == CanonicalPoint(p, profile)
         IN  /\ c.timestamp = p.timestamp /\ c.data_id = p.data_id
             /\ c.timestamp \in Nat /\ c.data_id \in Nat
             /\ c.value[1] = profile.scale /\ c.value[2] \in Int
<1> DEFINE d == 10^(Fraction - profile.scale)
           c == CanonicalPoint(p, profile)
<1>1. d \in Int /\ d > 0
  BY PredictionAssumption
<1>2. p.value \in Int /\ p.timestamp \in Nat /\ p.data_id \in Nat
  BY DEF Point
<1> HIDE DEF d
<1>3. HalfEven(p.value, d) \in Int
  BY <1>1, <1>2 DEF HalfEven
<1>4. c.value = <<profile.scale, HalfEven(p.value, d)>> /\ c.timestamp = p.timestamp /\ c.data_id = p.data_id
  BY DEF CanonicalPoint, CanonicalDecimal, Point, d
<1>. QED
  BY <1>2, <1>3, <1>4

\* The points of a canonical request.
LEMMA CanonicalHistory ==
  ASSUME NEW r \in Requests, NEW profile, profile.scale \in 0 .. Fraction
  PROVE  LET h == Canonical(r, profile).history
         IN  /\ \E S : h \in Seq(S)
             /\ Len(h) = Len(r.history) /\ Len(h) \in Nat /\ DOMAIN h = 1 .. Len(h)
             /\ \A i \in DOMAIN h : /\ h[i] = CanonicalPoint(r.history[i], profile)
                                    /\ h[i].timestamp \in Nat /\ h[i].data_id \in Nat
                                    /\ h[i].value[1] = profile.scale /\ h[i].value[2] \in Int
<1> DEFINE h == Canonical(r, profile).history
<1>1. /\ h = [i \in 1 .. Len(r.history) |-> CanonicalPoint(r.history[i], profile)]
      /\ h \in Seq({CanonicalPoint(r.history[i], profile) : i \in 1 .. Len(r.history)})
      /\ Len(h) = Len(r.history)
  BY CanonicalParts
<1>2. \A i \in 1 .. Len(r.history) : r.history[i] \in Point
  BY RequestAssumption
<1> HIDE DEF h
<1>3. DOMAIN h = 1 .. Len(r.history) /\ \A i \in DOMAIN h : h[i] = CanonicalPoint(r.history[i], profile)
  BY <1>1
<1>4. \A i \in DOMAIN h : /\ h[i].timestamp \in Nat /\ h[i].data_id \in Nat
                          /\ h[i].value[1] = profile.scale /\ h[i].value[2] \in Int
  BY <1>2, <1>3, CanonicalPointParts
<1>5. Len(h) \in Nat
  BY <1>1
<1>. QED
  BY <1>1, <1>3, <1>4, <1>5 DEF h

\* A history with the points of one without duplicate keys, and as long, has none either.
LEMMA SamePointsKeyed ==
  ASSUME NEW h, NEW g, Numeric(h), NEW S, g \in Seq(S), Len(g) = Len(h), Range(g) = Range(h)
  PROVE  SamePoints(h, g)
<1> DEFINE D == 1 .. Len(h)
           R == Range(h)
<1>1. DOMAIN h = D /\ DOMAIN g = D /\ Len(h) \in Nat /\ h = [i \in D |-> h[i]] /\ g = [i \in D |-> g[i]]
  BY PointsOrdered DEF Numeric
<1>2. R = {h[i] : i \in D} /\ R = {g[i] : i \in D}
  BY <1>1 DEF Range
<1>3. \A i, j \in D : i # j => <<h[i].timestamp, h[i].data_id>> # <<h[j].timestamp, h[j].data_id>>
  BY <1>1 DEF Numeric, Keyed
<1>4. IsFiniteSet(D) /\ Cardinality(D) = Len(h)
  <2>1. Len(h) \in Nat
    BY <1>1
  <2>2. ASSUME NEW n \in Nat PROVE IsFiniteSet(1 .. n) /\ Cardinality(1 .. n) = n
    BY FS_Interval
  <2>. QED
    BY <2>1, <2>2
<1> HIDE DEF R
<1>5. h \in Surjection(D, R) /\ h \in Injection(D, R)
  <2>1. h \in [D -> R]
    BY <1>1, <1>2
  <2>2. \A i, j \in D : h[i] = h[j] => i = j
    BY <1>3
  <2>. QED
    BY <1>2, <2>1, <2>2 DEF Surjection, Injection, IsInjective
<1>6. g \in Surjection(D, R)
  <2>1. g \in [D -> R]
    BY <1>1, <1>2
  <2>. QED
    BY <1>2, <2>1 DEF Surjection
<1>7. Cardinality(R) = Cardinality(D)
  BY <1>4, <1>5, FS_Surjection
<1>8. g \in Injection(D, R)
  BY <1>4, <1>6, <1>7, FS_Surjection
<1>9. \A i, j \in D : i # j => g[i] # g[j]
  BY <1>8 DEF Injection, IsInjective
<1>10. \A i \in D : \E k \in D : g[i] = h[k]
  BY <1>2
<1>11. \A i, j \in D : i # j => <<g[i].timestamp, g[i].data_id>> # <<g[j].timestamp, g[j].data_id>>
  <2>1. SUFFICES ASSUME NEW i \in D, NEW j \in D, i # j
                 PROVE  <<g[i].timestamp, g[i].data_id>> # <<g[j].timestamp, g[j].data_id>>
    OBVIOUS
  <2>2. PICK k \in D, l \in D : g[i] = h[k] /\ g[j] = h[l]
    BY <1>10
  <2>3. k # l
    BY <1>9, <2>1, <2>2
  <2>. QED
    BY <1>3, <2>2, <2>3
<1>12. \A i \in D : g[i].timestamp \in Nat /\ g[i].data_id \in Nat /\ g[i].value[2] \in Int
  <2>1. \A i \in D : h[i].timestamp \in Nat /\ h[i].data_id \in Nat /\ h[i].value[2] \in Int
    BY <1>1 DEF Numeric, Keyed
  <2>. QED
    BY <1>10, <2>1
<1>13. Numeric(g)
  BY <1>1, <1>11, <1>12 DEF Numeric, Keyed
<1>. QED
  BY <1>13 DEF SamePoints

-----------------------------------------------------------------------------
(* What is accepted, and why.                                               *)

\* r, sent at a time t, is what exchange e answers.
AcceptedFrom(e, r, t) ==
  /\ e.catalog \in Manifests /\ e.request = Canonical(r, Profile(e))
  /\ Verdict(r, e.catalog, t) = "OK"

LEMMA AcceptedParts ==
  ASSUME NEW e, NEW r \in Requests, NEW t, AcceptedFrom(e, r, t)
  PROVE  /\ e.request.digest = r.digest /\ e.request.model = r.model
         /\ r.model \in DOMAIN e.catalog /\ r.tenant \in Tenants
         /\ Profile(e) = e.catalog[r.model] /\ Profile(e).scale \in 0 .. Fraction
         /\ Canonicalizable(r, Profile(e))
         /\ RequestDigest(e.request) = e.request.digest
         /\ Normalizable(e.request, Profile(e), t)
         /\ Numeric(e.request.history)
         /\ DOMAIN e.request.history # {}
         /\ \A i \in DOMAIN e.request.history : e.request.history[i].value[1] = Profile(e).scale
<1> DEFINE profile == Profile(e)
           c == Canonical(r, profile)
           h == c.history
<1>1. e.request = c /\ e.catalog \in Manifests /\ c.model = r.model /\ c.digest = r.digest
  BY CanonicalParts DEF AcceptedFrom
<1>2. profile = e.catalog[r.model]
  BY <1>1 DEF Profile
<1>3. /\ r.tenant \in Tenants /\ r.model \in DOMAIN e.catalog
      /\ Canonicalizable(r, profile) /\ RequestDigest(c) = r.digest /\ Normalizable(c, profile, t)
  <2> HIDE DEF c, profile
  <2>1. Verdict(r, e.catalog, t) = "OK" /\ Canonical(r, e.catalog[r.model]) = c /\ e.catalog[r.model] = profile
    BY <1>2 DEF AcceptedFrom, c
  <2>. QED
    BY <2>1 DEF Verdict
<1>4. profile.scale \in 0 .. Fraction
  BY <1>1, <1>2, <1>3, PredictionAssumption
<1>5. /\ \E S : h \in Seq(S)
      /\ \A i \in DOMAIN h : /\ h[i].timestamp \in Nat /\ h[i].data_id \in Nat
                             /\ h[i].value[1] = profile.scale /\ h[i].value[2] \in Int
  BY <1>4, CanonicalHistory
<1>6. \A i, j \in DOMAIN h : i # j => <<h[i].timestamp, h[i].data_id>> # <<h[j].timestamp, h[j].data_id>>
  BY <1>3 DEF Normalizable
<1> HIDE DEF c, h, profile
<1>7. Numeric(h)
  BY <1>5, <1>6 DEF Numeric, Keyed
<1>8. DOMAIN h # {}
  <2>1. Tolerable(Missing(c)) /\ Missing(c) \in SUBSET Points
    BY <1>3 DEF Normalizable, Missing
  <2>2. PICK k \in Points : k \notin Missing(c)
    <3>1. LastValued(Missing(c)) \in W - 3 .. W - 1 /\ LastValued(Missing(c)) \notin Missing(c)
      BY <2>1, LastIsRecent
    <3>. QED
      BY <3>1, PredictionAssumption DEF Points
  <2>3. BucketTime(c, k) \in {c.history[i].timestamp : i \in DOMAIN c.history}
    BY <2>2 DEF Missing
  <2>. QED
    BY <2>3 DEF h
<1>. QED
  BY <1>1, <1>2, <1>3, <1>4, <1>5, <1>7, <1>8 DEF h, profile

\* Equal digests of canonical histories: the same points.
LEMMA SameDigest ==
  ASSUME NEW p, NEW q, Numeric(p.history), Numeric(q.history), RequestDigest(p) = RequestDigest(q)
  PROVE  /\ SamePoints(p.history, q.history)
         /\ p.model = q.model /\ p.unit = q.unit
         /\ p.window_start = q.window_start /\ p.window_end = q.window_end
<1>1. /\ Sorted(p.history) = Sorted(q.history)
      /\ p.model = q.model /\ p.unit = q.unit
      /\ p.window_start = q.window_start /\ p.window_end = q.window_end
  BY DEF RequestDigest
<1>2. Keyed(p.history) /\ Keyed(q.history)
  BY DEF Numeric
<1>3. Range(p.history) = Range(q.history) /\ DOMAIN p.history = DOMAIN q.history
  BY <1>1, <1>2, SortedInOrder
<1>4. Len(p.history) = Len(q.history)
  <2>1. 1 .. Len(p.history) = 1 .. Len(q.history) /\ Len(p.history) \in Nat /\ Len(q.history) \in Nat
    BY <1>2, <1>3, PointsOrdered
  <2>. QED
    BY <2>1
<1>. QED
  BY <1>1, <1>3, <1>4 DEF SamePoints

-----------------------------------------------------------------------------
(* The invariant: answers were accepted at some time, refusals decided at a *)
(* time past every window answered before them.                             *)

Accepted(e) == \E r \in Requests, t \in Times : AcceptedFrom(e, r, t)

Refusals == {"NotFound", "Mismatch", "Invalid"}

\* ex are the exchanges up to time.
Decided(ex, time) ==
  /\ \A i \in DOMAIN ex : ex[i].status = "OK" => Accepted(ex[i]) /\ ex[i].request.window_end <= time
  /\ \A j \in DOMAIN ex : ex[j].status \in Refusals =>
       /\ ex[j].request \in Requests
       /\ \E t \in Times :
            /\ Verdict(ex[j].request, ex[j].catalog, t) = ex[j].status
            /\ \A i \in DOMAIN ex : i < j /\ ex[i].status = "OK" => ex[i].request.window_end <= t

DecidedInv == IInv /\ Decided(exchanges, now)

\* One more exchange.
LEMMA DecidedOnce ==
  ASSUME NEW ex, NEW S, ex \in Seq(S), NEW time \in Times, Decided(ex, time), NEW e,
         e.status = "OK" => Accepted(e) /\ e.request.window_end <= time,
         e.status \in Refusals => e.request \in Requests /\ Verdict(e.request, e.catalog, time) = e.status
  PROVE  Decided(Append(ex, e), time)
<1> DEFINE f == Append(ex, e)
           n == Len(ex)
<1>1. /\ n \in Nat /\ DOMAIN ex = 1 .. n /\ DOMAIN f = 1 .. n + 1
      /\ f[n + 1] = e /\ \A i \in 1 .. n : f[i] = ex[i]
  <2>1. ex \in Seq(S \cup {e}) /\ e \in S \cup {e}
    OBVIOUS
  <2>. QED
    BY <2>1
<1> HIDE DEF f, n
<1>2. \A i \in DOMAIN f : i = n + 1 \/ i \in DOMAIN ex
  BY <1>1
<1>3. \A i \in DOMAIN f : f[i].status = "OK" => Accepted(f[i]) /\ f[i].request.window_end <= time
  BY <1>1, <1>2 DEF Decided
<1>4. ASSUME NEW j \in DOMAIN f, f[j].status \in Refusals
      PROVE  /\ f[j].request \in Requests
             /\ \E t \in Times :
                  /\ Verdict(f[j].request, f[j].catalog, t) = f[j].status
                  /\ \A i \in DOMAIN f : i < j /\ f[i].status = "OK" => f[i].request.window_end <= t
  <2>1. CASE j = n + 1
    <3>1. f[j] = e
      BY <1>1, <2>1
    <3>2. \A i \in DOMAIN f : f[i].status = "OK" => f[i].request.window_end <= time
      BY <1>3
    <3>. QED
      BY <1>4, <3>1, <3>2
  <2>2. CASE j \in DOMAIN ex
    <3>1. f[j] = ex[j] /\ ex[j].status \in Refusals
      BY <1>1, <1>4, <2>2
    <3>2. ex[j].request \in Requests
      BY <2>2, <3>1 DEF Decided
    <3>3. PICK t \in Times :
            /\ Verdict(ex[j].request, ex[j].catalog, t) = ex[j].status
            /\ \A i \in DOMAIN ex : i < j /\ ex[i].status = "OK" => ex[i].request.window_end <= t
      BY <2>2, <3>1 DEF Decided
    <3>4. \A i \in DOMAIN f : i < j => i \in DOMAIN ex /\ f[i] = ex[i]
      BY <1>1, <2>2
    <3>. QED
      BY <3>1, <3>2, <3>3, <3>4
  <2>. QED
    BY <1>2, <2>1, <2>2
<1>. QED
  BY <1>3, <1>4 DEF Decided, f

LEMMA DecidedInit == Init => DecidedInv
<1> SUFFICES ASSUME Init PROVE DecidedInv
  OBVIOUS
<1>1. IInv
  BY InitHolds
<1>2. DOMAIN exchanges = {}
  BY DEF Init
<1>. QED
  BY <1>1, <1>2 DEF DecidedInv, Decided

\* An exchange that is decided when it is recorded.
LEMMA DecisionRecorded ==
  ASSUME DecidedInv, NEW r, NEW c, NEW status, NEW answer, Answer(r, c, status, answer),
         status = "OK" =>
           Accepted([request |-> r, catalog |-> c, status |-> status, answer |-> answer]) /\ r.window_end <= now,
         status \in Refusals => r \in Requests /\ Verdict(r, c, now) = status
  PROVE  Decided(exchanges', now')
<1> DEFINE e == [request |-> r, catalog |-> c, status |-> status, answer |-> answer]
<1>1. exchanges' = Append(exchanges, e) /\ now' = now
  BY DEF Answer, world
<1>2. PICK S : exchanges \in Seq(S)
  BY DEF DecidedInv, IInv, ExchangesInv
<1>3. now \in Times /\ Decided(exchanges, now)
  BY DEF DecidedInv, IInv, World
<1>4. e.status = status /\ e.request = r /\ e.catalog = c
  OBVIOUS
<1>5. /\ e.status = "OK" => Accepted(e) /\ e.request.window_end <= now
      /\ e.status \in Refusals => e.request \in Requests /\ Verdict(e.request, e.catalog, now) = e.status
  BY <1>4
<1> HIDE DEF e
<1>6. Decided(Append(exchanges, e), now)
  BY <1>2, <1>3, <1>5, DecidedOnce
<1>. QED
  BY <1>1, <1>6

\* A refusal before the verdict decides nothing.
LEMMA Undecided ==
  ASSUME DecidedInv, NEW r, NEW c, NEW status \in {"Unauthorized", "NotReady"}, Answer(r, c, status, NoAnswer)
  PROVE  Decided(exchanges', now')
<1>1. status # "OK" /\ status \notin Refusals
  BY DEF Refusals
<1>. QED
  BY <1>1, DecisionRecorded

LEMMA PredictDecides ==
  ASSUME DecidedInv, Predict
  PROVE  Decided(exchanges', now')
<1> DEFINE request   == call.request
           catalog   == call.catalog
           profile   == catalog[request.model]
           verdict   == Verdict(request, catalog, now)
           canonical == Canonical(request, profile)
<1>0. IInv /\ now \in Times
  BY DEF DecidedInv, IInv, World
<1>1. call.stage = "hashing"
  BY DEF Predict
<1>2. request \in Requests
  BY <1>0, <1>1, UnderWay
<1>3. CASE verdict # "OK" /\ Refuse(verdict)
  BY <1>2, <1>3, DecisionRecorded DEF Refuse
<1>4. CASE verdict = "OK" /\ Answer(canonical, catalog, "OK", Predicted(canonical, profile, call.hashes[request.model]))
  <2>1. catalog \in Manifests
    BY <1>0, <1>1 DEF IInv, CallInv, Idle
  <2>2. canonical.model = request.model
    BY <1>2, CanonicalKeeps
  <2>3. canonical.window_end <= now
    BY <1>4 DEF Verdict, Normalizable
  <2> DEFINE answer == Predicted(canonical, profile, call.hashes[request.model])
             e == [request |-> canonical, catalog |-> catalog, status |-> "OK", answer |-> answer]
  <2>4. Accepted(e)
    <3> HIDE DEF canonical, answer
    <3>1. Profile(e) = profile /\ e.request = canonical /\ e.catalog = catalog
      BY <2>2 DEF Profile
    <3>2. AcceptedFrom(e, request, now)
      BY <1>4, <2>1, <3>1 DEF AcceptedFrom, canonical
    <3>. QED
      BY <1>0, <1>2, <3>2 DEF Accepted
  <2> HIDE DEF canonical, answer
  <2>5. Answer(canonical, catalog, "OK", answer)
    BY <1>4 DEF answer
  <2>. QED
    BY <2>3, <2>4, <2>5, DecisionRecorded DEF Refusals
<1>. QED
  BY <1>3, <1>4 DEF Predict

LEMMA DecidedNext == DecidedInv /\ [Next]_vars => DecidedInv'
<1> SUFFICES ASSUME DecidedInv, [Next]_vars PROVE DecidedInv'
  OBVIOUS
<1>0. IInv'
  BY NextKeeps DEF DecidedInv
<1>1. SUFFICES Decided(exchanges', now')
  BY <1>0 DEF DecidedInv
<1>2. ASSUME UNCHANGED <<now, exchanges>> PROVE Decided(exchanges', now')
  BY <1>2 DEF DecidedInv
<1>3. ASSUME NEW request \in Requests, Send(request) PROVE Decided(exchanges', now')
  BY <1>2, <1>3, Undecided DEF Send, world
<1>4. CASE ReadManifest
  BY <1>2, <1>4, Undecided DEF ReadManifest, Refuse, world
<1>5. ASSUME NEW m \in Models, HashArtifact(m) PROVE Decided(exchanges', now')
  BY <1>2, <1>5, Undecided DEF HashArtifact, Refuse, world
<1>6. CASE Predict
  BY <1>6, PredictDecides
<1>7. CASE Tick
  <2>1. exchanges' = exchanges /\ now' \in Times /\ now \in Times /\ now < now'
    BY <1>7 DEF Tick, DecidedInv, IInv, World
  <2>2. now \in Nat /\ now' \in Nat
    BY <2>1, PredictionAssumption
  <2>3. \A i \in DOMAIN exchanges : exchanges[i].status = "OK" => exchanges[i].request.window_end \in Nat
    BY DEF DecidedInv, IInv, ExchangesInv, Justified
  <2>4. \A i \in DOMAIN exchanges : exchanges[i].status = "OK" =>
           Accepted(exchanges[i]) /\ exchanges[i].request.window_end <= now'
    BY <2>1, <2>2, <2>3 DEF DecidedInv, Decided
  <2>. QED
    BY <2>1, <2>4 DEF DecidedInv, Decided
<1>8. CASE DeployManifest \/ \E m \in Models : DeployArtifact(m)
  BY <1>2, <1>8 DEF DeployManifest, DeployArtifact
<1>9. CASE UNCHANGED vars
  BY <1>2, <1>9 DEF vars
<1>. QED
  BY <1>3, <1>4, <1>5, <1>6, <1>7, <1>8, <1>9 DEF Next

LEMMA DecidedAlways == Spec => []DecidedInv
BY DecidedInit, DecidedNext, PTL DEF Spec

-----------------------------------------------------------------------------
(* The theorems.                                                            *)

\* Two answers to one digest.
LEMMA SameDigestSameForecast ==
  ASSUME NEW e, Justified(e), Accepted(e), e.status = "OK",
         NEW f, Justified(f), Accepted(f), f.status = "OK",
         e.request.digest = f.request.digest, WithinPrecision(e.request)
  PROVE  /\ Read(e.answer.forecast) = Read(f.answer.forecast)
         /\ e.answer.input = f.answer.input <=> Profile(e).preprocessing = Profile(f).preprocessing
<1> DEFINE p == e.request
           q == f.request
           P == Profile(e)
           Q == Profile(f)
<1>1. PICK r \in Requests, t \in Times : AcceptedFrom(e, r, t)
  BY DEF Accepted
<1>2. PICK s \in Requests, u \in Times : AcceptedFrom(f, s, u)
  BY DEF Accepted
<1>3. /\ RequestDigest(p) = p.digest /\ Numeric(p.history) /\ DOMAIN p.history # {}
      /\ \A i \in DOMAIN p.history : p.history[i].value[1] = P.scale
      /\ Canonicalizable(r, P)
  BY <1>1, AcceptedParts
<1>4. /\ RequestDigest(q) = q.digest /\ Numeric(q.history)
      /\ \A i \in DOMAIN q.history : q.history[i].value[1] = Q.scale
      /\ Canonicalizable(s, Q)
  BY <1>2, AcceptedParts
<1>5. /\ SamePoints(p.history, q.history)
      /\ p.model = q.model /\ p.unit = q.unit
      /\ p.window_start = q.window_start /\ p.window_end = q.window_end
  BY <1>3, <1>4, SameDigest
<1>6. Missing(p) = Missing(q) /\ Buckets(p) = Buckets(q)
  BY <1>5, SameBuckets
<1>7. P.scale = Q.scale
  <2>1. PICK i \in DOMAIN p.history : TRUE
    BY <1>3
  <2>2. p.history[i] \in Range(q.history)
    BY <1>5 DEF SamePoints, Range
  <2>3. PICK j \in DOMAIN q.history : p.history[i] = q.history[j]
    BY <2>2 DEF Range
  <2>. QED
    BY <1>3, <1>4, <2>3
<1>8. CanonicalUnit(P.unit) = CanonicalUnit(Q.unit)
  <2>0. ASSUME NEW x \in Requests, NEW profile PROVE Canonical(x, profile).unit = CanonicalUnit(x.unit)
    BY CanonicalParts
  <2>1. p.unit = CanonicalUnit(r.unit)
    <3>1. p = Canonical(r, P)
      BY <1>1 DEF AcceptedFrom
    <3>. QED
      BY <2>0, <3>1
  <2>2. q.unit = CanonicalUnit(s.unit)
    <3>1. q = Canonical(s, Q)
      BY <1>2 DEF AcceptedFrom
    <3>. QED
      BY <2>0, <3>1
  <2>. QED
    BY <1>3, <1>4, <1>5, <2>1, <2>2 DEF Canonicalizable
<1>9. /\ e.answer.forecast = Forecast(p, P) /\ f.answer.forecast = Forecast(q, Q)
      /\ e.answer.input = {InputDigest(p, P)} /\ f.answer.input = {InputDigest(q, Q)}
  BY DEF Justified, Predicted
<1> HIDE DEF p, q, P, Q
<1>10. Read(Forecast(p, P)) = Read(Forecast(q, Q))
  <2> DEFINE value == Buckets(p)[LastValued(Missing(p))]
             time(h) == p.window_end - Interval + h * Interval
             point(h, unit) == [timestamp |-> time(h), value |-> value, unit |-> unit]
  <2>1. /\ Forecast(p, P) = [h \in 1 .. Horizon |-> point(h, P.unit)]
        /\ Forecast(q, Q) = [h \in 1 .. Horizon |-> point(h, Q.unit)]
    BY <1>5, <1>6 DEF Forecast
  <2> HIDE DEF value, time
  <2>2. ASSUME NEW unit
        PROVE  Read([h \in 1 .. Horizon |-> point(h, unit)]) = [h \in 1 .. Horizon |-> point(h, CanonicalUnit(unit))]
    BY DEF Read
  <2> HIDE DEF point
  <2>3. /\ Read(Forecast(p, P)) = [h \in 1 .. Horizon |-> point(h, CanonicalUnit(P.unit))]
        /\ Read(Forecast(q, Q)) = [h \in 1 .. Horizon |-> point(h, CanonicalUnit(Q.unit))]
    BY <2>1, <2>2
  <2>. QED
    BY <1>8, <2>3
<1>11. InputDigest(p, P) = InputDigest(q, Q) <=> P.preprocessing = Q.preprocessing
  BY <1>5, <1>6, <1>7 DEF InputDigest
<1>. QED
  BY <1>9, <1>10, <1>11 DEF p, q, P, Q

\* The same request digest gets the same forecast, whatever the order and spelling of
\* the history, the time and the catalogue: calculate_request_digest, normalize_history
\* and the predictor agree on what the request is (while sums fit the decimal precision).
THEOREM SameDigestReplays == Spec => []ReplayStable
<1>1. DecidedInv => ReplayStable
  <2> SUFFICES ASSUME DecidedInv PROVE ReplayStable
    OBVIOUS
  <2>1. \A i \in Answered : Justified(exchanges[i]) /\ Accepted(exchanges[i]) /\ exchanges[i].status = "OK"
    BY DEF DecidedInv, Decided, IInv, ExchangesInv, Answered
  <2>. QED
    BY <2>1, SameDigestSameForecast DEF ReplayStable
<1>. QED
  BY <1>1, DecidedAlways, PTL

\* What was accepted once is accepted again.
LEMMA AcceptedAgain ==
  ASSUME NEW e, Accepted(e), WithinPrecision(e.request),
         NEW q \in Requests, NEW catalog, NEW t \in Times, SameRequest(e, q), e.request.window_end <= t,
         e.request.model \in DOMAIN catalog, Profile(e) = catalog[e.request.model]
  PROVE  Verdict(q, catalog, t) = "OK"
<1> DEFINE p == e.request
           P == Profile(e)
           c == Canonical(q, P)
           h == p.history
           g == c.history
<1>1. PICK r \in Requests, u \in Times : AcceptedFrom(e, r, u)
  BY DEF Accepted
<1>2. /\ p.digest = r.digest /\ p.model = r.model /\ r.tenant \in Tenants
      /\ P.scale \in 0 .. Fraction
      /\ Canonicalizable(r, P)
      /\ RequestDigest(p) = p.digest
      /\ Normalizable(p, P, u)
      /\ Numeric(h)
  BY <1>1, AcceptedParts
<1>3. /\ p.tenant = r.tenant /\ p.unit = CanonicalUnit(r.unit)
      /\ Len(h) = Len(r.history) /\ DOMAIN h = 1 .. Len(h)
      /\ \A i \in DOMAIN h : h[i] = CanonicalPoint(r.history[i], P)
  <2>1. p = Canonical(r, P)
    BY <1>1 DEF AcceptedFrom
  <2> HIDE DEF p, P
  <2>2. p.tenant = r.tenant /\ p.unit = CanonicalUnit(r.unit)
    BY <2>1, CanonicalParts
  <2>3. /\ Len(p.history) = Len(r.history) /\ DOMAIN p.history = 1 .. Len(p.history)
        /\ \A i \in DOMAIN p.history : p.history[i] = CanonicalPoint(r.history[i], P)
    BY <1>2, <2>1, CanonicalHistory
  <2>. QED
    BY <2>2, <2>3
<1>4. /\ p.digest = q.digest /\ p.tenant = q.tenant /\ p.model = q.model /\ p.frequency = q.frequency
      /\ p.window_start = q.window_start /\ p.window_end = q.window_end
      /\ p.unit = CanonicalUnit(q.unit)
      /\ Len(h) = Len(q.history)
      /\ Range(h) = {CanonicalPoint(x, P) : x \in Range(q.history)}
  BY DEF SameRequest
<1>5. /\ c.tenant = q.tenant /\ c.model = q.model /\ c.frequency = q.frequency
      /\ c.window_start = q.window_start /\ c.window_end = q.window_end
      /\ c.unit = CanonicalUnit(q.unit)
  BY CanonicalParts
<1>6. /\ \E S : g \in Seq(S)
      /\ Len(g) = Len(q.history) /\ DOMAIN g = 1 .. Len(g)
      /\ \A i \in DOMAIN g : g[i] = CanonicalPoint(q.history[i], P)
  BY <1>2, CanonicalHistory
<1>7. DOMAIN q.history = 1 .. Len(q.history)
  BY RequestAssumption
<1> HIDE DEF p, P, c, h, g
<1>8. Range(g) = Range(h)
  <2>1. Range(g) = {g[i] : i \in DOMAIN g} /\ Range(q.history) = {q.history[i] : i \in DOMAIN q.history}
    BY DEF Range
  <2>. QED
    BY <1>4, <1>6, <1>7, <2>1
<1>9. SamePoints(h, g)
  <2>1. PICK S : g \in Seq(S)
    BY <1>6
  <2>. QED
    BY <1>2, <1>4, <1>6, <1>8, <2>1, SamePointsKeyed
<1>10. Canonicalizable(q, P)
  <2>1. q.unit.name # ""
    <3>1. r.unit.name # ""
      BY <1>2 DEF Canonicalizable
    <3>2. CanonicalUnit(r.unit).name = r.unit.name /\ CanonicalUnit(q.unit).name = q.unit.name
      BY RequestAssumption DEF CanonicalUnit, Unit
    <3>. QED
      BY <1>3, <1>4, <3>1, <3>2
  <2>2. CanonicalUnit(q.unit) = CanonicalUnit(P.unit)
    BY <1>2, <1>3, <1>4 DEF Canonicalizable
  <2>3. ASSUME NEW i \in DOMAIN q.history
        PROVE  LET point == CanonicalPoint(q.history[i], P)
               IN  Representable(point.value[2]) /\ point.unit = CanonicalUnit(q.unit)
    <3>1. CanonicalPoint(q.history[i], P) \in Range(h)
      BY <1>4 DEF Range
    <3>2. PICK j \in DOMAIN h : h[j] = CanonicalPoint(q.history[i], P)
      BY <3>1 DEF Range
    <3>3. j \in DOMAIN r.history /\ h[j] = CanonicalPoint(r.history[j], P)
      <4>1. DOMAIN r.history = 1 .. Len(r.history)
        BY RequestAssumption
      <4>. QED
        BY <1>3, <4>1
    <3>. QED
      BY <1>2, <1>3, <1>4, <3>2, <3>3 DEF Canonicalizable
  <2>. QED
    BY <2>1, <2>2, <2>3 DEF Canonicalizable
<1>11. RequestDigest(c) = q.digest
  <2>1. Keyed(h) /\ Keyed(g) /\ Len(h) = Len(g) /\ Range(h) = Range(g)
    BY <1>9 DEF SamePoints, Numeric
  <2>2. Sorted(h) = Sorted(g)
    BY <2>1, SameOrder
  <2>3. RequestDigest(c) = RequestDigest(p)
    BY <1>4, <1>5, <2>2 DEF RequestDigest, h, g
  <2>. QED
    BY <1>2, <1>4, <2>3
<1>12. Normalizable(c, P, t)
  <2>1. Missing(p) = Missing(c) /\ Buckets(p) = Buckets(c)
    <3>1. p.window_start = c.window_start /\ SamePoints(p.history, c.history) /\ WithinPrecision(p)
      BY <1>4, <1>5, <1>9 DEF h, g, p
    <3>. QED
      BY <3>1, SameBuckets
  <2>2. ASSUME NEW i \in DOMAIN g
        PROVE  /\ g[i].timestamp >= c.window_start /\ g[i].timestamp < c.window_end
               /\ Aligned(g[i].timestamp)
               /\ \A j \in DOMAIN g :
                    i # j => <<g[i].timestamp, g[i].data_id>> # <<g[j].timestamp, g[j].data_id>>
    <3>1. g[i] \in Range(h)
      BY <1>8 DEF Range
    <3>2. PICK j \in DOMAIN h : h[j] = g[i]
      BY <3>1 DEF Range
    <3>3. h[j].timestamp >= p.window_start /\ h[j].timestamp < p.window_end /\ Aligned(h[j].timestamp)
      BY <1>2 DEF Normalizable, h
    <3>4. \A k \in DOMAIN g : i # k => <<g[i].timestamp, g[i].data_id>> # <<g[k].timestamp, g[k].data_id>>
      BY <1>9 DEF SamePoints, Numeric, Keyed
    <3>. QED
      BY <1>4, <1>5, <3>2, <3>3, <3>4
  <2>3. /\ p.window_start < p.window_end
        /\ P.frequency = "1min" /\ p.frequency = P.frequency
        /\ Aligned(p.window_start) /\ Aligned(p.window_end)
        /\ (p.window_end - p.window_start) \div Interval = W
        /\ \A k \in Points : \A value \in Buckets(p)[k] : Representable(value)
        /\ Tolerable(Missing(p))
    BY <1>2 DEF Normalizable
  <2>4. c.window_end <= t
    BY <1>4, <1>5 DEF p
  <2>5. /\ c.window_start < c.window_end
        /\ c.frequency = P.frequency
        /\ Aligned(c.window_start) /\ Aligned(c.window_end)
        /\ (c.window_end - c.window_start) \div Interval = W
        /\ \A k \in Points : \A value \in Buckets(c)[k] : Representable(value)
        /\ Tolerable(Missing(c))
    BY <1>4, <1>5, <2>1, <2>3
  <2>. QED
    BY <2>2, <2>3, <2>4, <2>5 DEF Normalizable, g
<1>13. q.tenant \in Tenants /\ q.model \in DOMAIN catalog /\ catalog[q.model] = P
  BY <1>2, <1>3, <1>4 DEF p, P
<1>. QED
  BY <1>10, <1>11, <1>12, <1>13 DEF Verdict, c

\* Sending an answered request again is safe: create_prediction does not refuse it for
\* its tenant, digest, units, spelling, order or window, as long as a catalogue with the
\* profile is there and the sums of its history fit the decimal precision
\* (WithinPrecision).
THEOREM RetryIsAccepted == Spec => []RetryAccepted
<1>1. DecidedInv => RetryAccepted
  <2> SUFFICES ASSUME DecidedInv,
                      NEW i \in Answered, NEW j \in DOMAIN exchanges, i < j,
                      exchanges[j].status \notin {"Unauthorized", "NotReady", "OK"},
                      exchanges[i].request.model \in DOMAIN exchanges[j].catalog,
                      Profile(exchanges[i]) = exchanges[j].catalog[exchanges[i].request.model],
                      SameRequest(exchanges[i], exchanges[j].request),
                      WithinPrecision(exchanges[i].request)
               PROVE  FALSE
    BY DEF RetryAccepted
  <2> DEFINE e == exchanges[i]
             f == exchanges[j]
  <2>1. f.status \in Refusals
    BY DEF DecidedInv, IInv, ExchangesInv, Justified, Statuses, Refusals
  <2>2. i \in DOMAIN exchanges /\ e.status = "OK" /\ Accepted(e)
    BY DEF DecidedInv, Decided, Answered
  <2>3. f.request \in Requests
    BY <2>1 DEF DecidedInv, Decided
  <2>4. PICK t \in Times : Verdict(f.request, f.catalog, t) = f.status /\ e.request.window_end <= t
    BY <2>1, <2>2 DEF DecidedInv, Decided
  <2> HIDE DEF e, f
  <2>5. Verdict(f.request, f.catalog, t) = "OK"
    BY <2>2, <2>3, <2>4, AcceptedAgain DEF e, f
  <2>. QED
    BY <2>1, <2>4, <2>5 DEF Refusals
<1>. QED
  BY <1>1, DecidedAlways, PTL

=============================================================================
