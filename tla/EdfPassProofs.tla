--------------------------- MODULE EdfPassProofs ---------------------------
(***************************************************************************)
(* Proofs about the compiler pass and the benchmark generator, for every   *)
(* application.                                                            *)
(***************************************************************************)
EXTENDS EdfPassInv, LeastNumber, FiniteSetTheorems

LEMMA IntervalSize ==
  ASSUME NEW n \in Nat
  PROVE  IsFiniteSet(1 .. n) /\ Cardinality(1 .. n) = n
BY FS_Interval

----------------------------------------------------------------------------
(* The sort.                                                               *)

(* Tasks told apart by the place of their declaration. *)
Distinct(D) ==
  /\ \A u \in D : u.deadline \in Nat /\ u.def \in Nat
  /\ \A u, v \in D : u.def = v.def => u = v

InOrder(r, n) == \A i, j \in 1 .. n : i < j => Before(r[i], r[j])

LEMMA FirstExists ==
  ASSUME NEW D, Distinct(D), D # {}
  PROVE  \E u \in D : \A v \in D : v # u => Before(u, v)
<1> DEFINE T == {u.deadline : u \in D}
<1>1. PICK d \in T : \A e \in T : d <= e
  <2>1. T \subseteq Nat /\ T # {}
    BY DEF Distinct
  <2> HIDE DEF T
  <2> QED
    BY <2>1, LeastExists
<1> DEFINE U == {u.def : u \in {v \in D : v.deadline = d}}
<1>2. PICK i \in U : \A j \in U : i <= j
  <2>1. U \subseteq Nat /\ U # {}
    BY <1>1 DEF Distinct
  <2> HIDE DEF U
  <2> QED
    BY <2>1, LeastExists
<1>3. PICK u \in D : u.deadline = d /\ u.def = i
  BY <1>2
<1>4. ASSUME NEW v \in D, v # u PROVE Before(u, v)
  <2>1. d \in Nat /\ v.deadline \in Nat /\ d <= v.deadline /\ i \in Nat /\ v.def \in Nat
    BY <1>1, <1>3 DEF Distinct
  <2>2. v.deadline = d => i <= v.def
    BY <1>2
  <2>3. v.def # i
    BY <1>3, <1>4 DEF Distinct
  <2> QED
    BY <1>3, <2>1, <2>2, <2>3 DEF Before
<1> QED
  BY <1>3, <1>4

Sorts(n) ==
  \A D : Distinct(D) /\ IsFiniteSet(D) /\ Cardinality(D) = n =>
           \E r \in [1 .. n -> D] : InOrder(r, n)

LEMMA SortsNext ==
  ASSUME NEW n \in Nat, n # 0, Sorts(n - 1)
  PROVE  Sorts(n)
<1> SUFFICES ASSUME NEW D, Distinct(D), IsFiniteSet(D), Cardinality(D) = n
             PROVE  \E r \in [1 .. n -> D] : InOrder(r, n)
  BY DEF Sorts
<1>1. D # {}
  BY FS_EmptySet
<1>2. PICK u \in D : \A v \in D : v # u => Before(u, v)
  BY <1>1, FirstExists
<1>3. IsFiniteSet(D \ {u}) /\ Cardinality(D \ {u}) = n - 1
  BY FS_RemoveElement
<1>4. Distinct(D \ {u})
  BY DEF Distinct
<1>5. PICK q \in [1 .. n - 1 -> D \ {u}] : InOrder(q, n - 1)
  BY <1>3, <1>4 DEF Sorts
<1> DEFINE r == [i \in 1 .. n |-> IF i = 1 THEN u ELSE q[i - 1]]
<1>6. \A i \in 1 .. n : i # 1 => i - 1 \in 1 .. n - 1 /\ r[i] = q[i - 1] /\ q[i - 1] \in D \ {u}
  OBVIOUS
<1>7. r[1] = u
  OBVIOUS
<1>8. r \in [1 .. n -> D]
  BY <1>6
<1> HIDE DEF r
<1>9. ASSUME NEW i \in 1 .. n, NEW j \in 1 .. n, i < j PROVE Before(r[i], r[j])
  <2>1. j # 1 /\ j - 1 \in 1 .. n - 1 /\ r[j] = q[j - 1] /\ r[j] \in D /\ r[j] # u
    BY <1>6, <1>9
  <2>2. CASE i = 1
    BY <1>2, <1>7, <2>1, <2>2
  <2>3. CASE i # 1
    <3>1. i - 1 \in 1 .. n - 1 /\ i - 1 < j - 1 /\ r[i] = q[i - 1]
      BY <1>6, <1>9, <2>3
    <3> QED
      BY <1>5, <2>1, <3>1 DEF InOrder
  <2> QED
    BY <2>2, <2>3
<1> QED
  BY <1>8, <1>9 DEF InOrder

LEMMA SortExists == \A n \in Nat : Sorts(n)
<1> DEFINE T == {n \in Nat : ~Sorts(n)}
<1>1. CASE T = {}
  BY <1>1
<1>2. CASE T # {}
  <2>1. PICK m \in T : \A k \in T : m <= k
    <3>1. T \subseteq Nat
      OBVIOUS
    <3> HIDE DEF T
    <3> QED
      BY <1>2, <3>1, LeastExists
  <2>2. Sorts(0)
    <3> SUFFICES ASSUME NEW D PROVE \E r \in [1 .. 0 -> D] : InOrder(r, 0)
      BY DEF Sorts
    <3>1. [i \in 1 .. 0 |-> CHOOSE u \in D : TRUE] \in [1 .. 0 -> D]
      OBVIOUS
    <3>2. \A r : InOrder(r, 0)
      BY DEF InOrder
    <3> QED
      BY <3>1, <3>2
  <2>3. m \in Nat /\ m # 0
    BY <2>2
  <2>4. m - 1 \in Nat /\ ~(m <= m - 1)
    BY <2>3
  <2>5. m - 1 \notin T
    BY <2>1, <2>4, Zenon
  <2>6. Sorts(m - 1)
    BY <2>4, <2>5
  <2>7. Sorts(m)
    BY <2>3, <2>6, SortsNext
  <2> QED
    BY <2>7
<1> QED
  BY <1>1, <1>2

(* What the sort returns, reversed: each task once, the latest first.      *)
Declared(s, n) ==
  /\ s = [i \in 1 .. n |-> s[i]]
  /\ \A i \in 1 .. n : s[i].def = i /\ s[i].deadline \in Nat

LEMMA Sorted ==
  ASSUME NEW n \in Nat, NEW s, Declared(s, n)
  PROVE  /\ SortedByDeadline(s) \in [1 .. n -> Range(s)]
         /\ InOrder(SortedByDeadline(s), n)
<1>1. DOMAIN s = 1 .. n
  BY DEF Declared
<1>2. Range(s) = {s[i] : i \in 1 .. n}
  BY <1>1 DEF Range
<1>3. Distinct(Range(s))
  BY <1>2 DEF Distinct, Declared
<1>4. s \in Bijection(1 .. n, Range(s))
  <2>1. s \in [1 .. n -> Range(s)]
    BY <1>2 DEF Declared
  <2>2. \A i, j \in 1 .. n : s[i] = s[j] => i = j
    BY DEF Declared
  <2>3. \A t \in Range(s) : \E i \in 1 .. n : s[i] = t
    BY <1>2
  <2> QED
    BY <2>1, <2>2, <2>3 DEF Bijection, Injection, Surjection, IsInjective
<1>5. IsFiniteSet(Range(s)) /\ Cardinality(Range(s)) = n
  <2>1. IsFiniteSet(1 .. n) /\ Cardinality(1 .. n) = n
    BY IntervalSize
  <2>2. ExistsBijection(1 .. n, Range(s))
    BY <1>4 DEF ExistsBijection
  <2> QED
    BY <2>1, <2>2, FS_Bijection
<1>6. \E r \in [1 .. n -> Range(s)] : InOrder(r, n)
  BY <1>3, <1>5, SortExists DEF Sorts
<1>7. SortedByDeadline(s) = CHOOSE r \in [1 .. n -> Range(s)] : InOrder(r, n)
  BY <1>1 DEF SortedByDeadline, InOrder
<1> QED
  BY <1>6, <1>7

(* The tasks of s in the order of their priorities. *)
Arrangement(q, s, n) ==
  /\ q \in [1 .. n -> Range(s)]
  /\ \A i, j \in 1 .. n : i < j => Before(q[j], q[i])
  /\ \A x \in 1 .. n : \E k \in 1 .. n : q[k] = s[x]

LEMMA Arranged ==
  ASSUME NEW n \in Nat, NEW s, Declared(s, n)
  PROVE  Arrangement(LaterFirst(s), s, n)
<1> DEFINE r == SortedByDeadline(s)
           q == LaterFirst(s)
<1>1. r \in [1 .. n -> Range(s)] /\ InOrder(r, n)
  BY Sorted
<1>2. Len(r) = n
  BY <1>1
<1> HIDE DEF r
<1>3. q = [i \in 1 .. n |-> r[n - i + 1]]
  BY <1>2 DEF LaterFirst, Reverse, r
<1> HIDE DEF q
<1>4. \A i \in 1 .. n : n - i + 1 \in 1 .. n /\ q[i] = r[n - i + 1]
  BY <1>3
<1>5. q \in [1 .. n -> Range(s)]
  BY <1>1, <1>3, <1>4
<1>6. ASSUME NEW i \in 1 .. n, NEW j \in 1 .. n, i < j PROVE Before(q[j], q[i])
  <2>1. n - j + 1 < n - i + 1
    BY <1>6
  <2> QED
    BY <1>1, <1>4, <2>1 DEF InOrder
<1>7. ASSUME NEW x \in 1 .. n PROVE \E k \in 1 .. n : q[k] = s[x]
  <2>1. Range(s) = {s[i] : i \in 1 .. n}
    BY DEF Range, Declared
  <2>2. IsFiniteSet(1 .. n) /\ Cardinality(1 .. n) = n
    BY IntervalSize
  <2>3. \A i, j \in 1 .. n : q[i] = q[j] => i = j
    <3>1. ASSUME NEW i \in 1 .. n, NEW j \in 1 .. n, q[i] = q[j], i < j PROVE FALSE
      <4>1. Before(q[i], q[i])
        BY <1>6, <3>1
      <4>2. PICK y \in 1 .. n : q[i] = s[y]
        BY <1>5, <2>1
      <4> QED
        BY <4>1, <4>2 DEF Before, Declared
    <3> QED
      BY <3>1
  <2> DEFINE f == [i \in 1 .. n |-> q[i].def]
  <2>4. \A i \in 1 .. n : q[i].def \in 1 .. n /\ q[i] = s[q[i].def]
    <3>1. ASSUME NEW i \in 1 .. n PROVE q[i].def \in 1 .. n /\ q[i] = s[q[i].def]
      <4>1. PICK y \in 1 .. n : q[i] = s[y]
        BY <1>5, <2>1
      <4>2. s[y].def = y
        BY DEF Declared
      <4> QED
        BY <4>1, <4>2
    <3> QED
      BY <3>1
  <2>5. f \in Injection(1 .. n, 1 .. n)
    <3>1. f \in [1 .. n -> 1 .. n]
      BY <2>4
    <3>2. \A i, j \in 1 .. n : f[i] = f[j] => i = j
      BY <2>3, <2>4
    <3> QED
      BY <3>1, <3>2 DEF Injection, IsInjective
  <2> HIDE DEF f
  <2>6. f \in Surjection(1 .. n, 1 .. n)
    BY <2>2, <2>5, FS_Injection
  <2>7. PICK k \in 1 .. n : f[k] = x
    BY <2>6 DEF Surjection
  <2> QED
    BY <2>4, <2>7 DEF f
<1> QED
  BY <1>5, <1>6, <1>7 DEF Arrangement, q

----------------------------------------------------------------------------
(* The running count of the changes of deadline.                           *)

Change(q, k) == IF q[k - 1].deadline # q[k].deadline THEN 1 ELSE 0

Counts(acc, q) == acc = [k \in Nat |-> IF k <= 1 THEN k ELSE acc[k - 1] + Change(q, k)]

(* There is such a count: one more than the changes up to a place. *)
LEMMA CountExists ==
  ASSUME NEW q
  PROVE  \E acc \in [Nat -> Nat] : Counts(acc, q)
<1> DEFINE C(k) == {i \in 2 .. k : q[i - 1].deadline # q[i].deadline}
           w == [k \in Nat |-> IF k = 0 THEN 0 ELSE 1 + Cardinality(C(k))]
<1>1. \A k \in Nat : IsFiniteSet(C(k)) /\ Cardinality(C(k)) \in Nat
  <2> SUFFICES ASSUME NEW k \in Nat PROVE IsFiniteSet(C(k)) /\ Cardinality(C(k)) \in Nat
    OBVIOUS
  <2>1. C(k) \in SUBSET (2 .. k) /\ IsFiniteSet(2 .. k)
    BY FS_Interval
  <2> HIDE DEF C
  <2> QED
    BY <2>1, FS_Subset, FS_CardinalityType
<1>2. w[0] = 0 /\ w[1] = 1
  <2>1. C(1) = {}
    OBVIOUS
  <2>2. Cardinality(C(1)) = 0
    BY <2>1, FS_EmptySet
  <2> HIDE DEF C
  <2> QED
    BY <2>2
<1>3. ASSUME NEW k \in Nat, k > 1 PROVE w[k] = w[k - 1] + Change(q, k)
  <2>1. k - 1 \in Nat /\ k - 1 # 0 /\ k # 0
    BY <1>3
  <2>2. CASE q[k - 1].deadline # q[k].deadline
    <3>1. C(k) = C(k - 1) \cup {k} /\ k \notin C(k - 1)
      BY <1>3, <2>2
    <3> HIDE DEF C
    <3>2. Cardinality(C(k)) = Cardinality(C(k - 1)) + 1
      BY <1>1, <2>1, <3>1, FS_AddElement
    <3> QED
      BY <1>1, <2>1, <2>2, <3>2 DEF Change
  <2>3. CASE q[k - 1].deadline = q[k].deadline
    <3>1. C(k) = C(k - 1)
      BY <1>3, <2>3
    <3> HIDE DEF C
    <3> QED
      BY <1>1, <2>1, <2>3, <3>1 DEF Change
  <2> QED
    BY <2>2, <2>3
<1>4. w \in [Nat -> Nat]
  <2> HIDE DEF C
  <2> QED
    BY <1>1
<1>5. Counts(w, q)
  <2>1. w = [k \in Nat |-> w[k]]
    OBVIOUS
  <2> HIDE DEF w
  <2>2. \A k \in Nat : w[k] = IF k <= 1 THEN k ELSE w[k - 1] + Change(q, k)
    BY <1>2, <1>3
  <2> QED
    BY <2>1, <2>2 DEF Counts
<1> QED
  BY <1>4, <1>5

(* The groups: from 1, one more at each change. *)
Grouping(g, q, n) ==
  /\ DOMAIN g = 1 .. n
  /\ \A k \in 1 .. n : g[k] \in Nat
  /\ n > 0 => g[1] = 1
  /\ \A k \in 2 .. n : g[k] = g[k - 1] + Change(q, k)

LEMMA Grouped ==
  ASSUME NEW n \in Nat, NEW q, DOMAIN q = 1 .. n
  PROVE  Grouping(PrioGroups(q), q, n)
<1> DEFINE acc == CHOOSE a : Counts(a, q)
<1>1. Counts(acc, q)
  BY CountExists
<1>2. PrioGroups(q) = [k \in 1 .. n |-> acc[k]]
  BY DEF PrioGroups, Counts, Change
<1> HIDE DEF acc
<1>3. \A k \in Nat : acc[k] = IF k <= 1 THEN k ELSE acc[k - 1] + Change(q, k)
  BY <1>1 DEF Counts
<1>4. \A k \in Nat : Change(q, k) \in Nat
  BY DEF Change
<1>5. \A k \in Nat : acc[k] \in Nat
  <2> DEFINE T == {k \in Nat : acc[k] \notin Nat}
  <2>1. CASE T = {}
    BY <2>1
  <2>2. CASE T # {}
    <3>1. PICK m \in T : \A k \in T : m <= k
      <4>1. T \subseteq Nat
        OBVIOUS
      <4> HIDE DEF T
      <4> QED
        BY <2>2, <4>1, LeastExists
    <3>2. m \in Nat /\ m > 1
      BY <1>3
    <3>3. m - 1 \in Nat /\ ~(m <= m - 1)
      BY <3>2
    <3>4. m - 1 \notin T
      BY <3>1, <3>3, Zenon
    <3>5. acc[m - 1] \in Nat
      BY <3>3, <3>4
    <3>6. acc[m] = acc[m - 1] + Change(q, m)
      BY <1>3, <3>2
    <3>7. acc[m] \notin Nat
      OBVIOUS
    <3>8. Change(q, m) \in Nat
      BY <1>4, <3>2
    <3> HIDE DEF T
    <3> QED
      BY <3>5, <3>6, <3>7, <3>8
  <2> QED
    BY <2>1, <2>2
<1> QED
  BY <1>2, <1>3, <1>5 DEF Grouping

(* Along a sequence whose deadlines never grow. *)
Descends(q, n) ==
  /\ \A k \in 1 .. n : q[k].deadline \in Nat
  /\ \A j, k \in 1 .. n : j <= k => q[k].deadline <= q[j].deadline

LEMMA GroupsFollow ==
  ASSUME NEW n \in Nat, NEW q, Descends(q, n), NEW g, Grouping(g, q, n),
         NEW j \in 1 .. n, NEW k \in 1 .. n, j <= k
  PROVE  g[j] <= g[k] /\ (g[j] = g[k] <=> q[j].deadline = q[k].deadline)
<1> DEFINE P(i) == g[j] <= g[i] /\ (g[j] = g[i] <=> q[j].deadline = q[i].deadline)
           T == {i \in Nat : i \in j .. n /\ ~P(i)}
<1>1. CASE T = {}
  <2>1. k \in Nat /\ k \in j .. n
    OBVIOUS
  <2> HIDE DEF P
  <2>2. P(k)
    BY <1>1, <2>1
  <2> QED
    BY <2>2 DEF P
<1>2. CASE T # {}
  <2>1. PICK m \in T : \A i \in T : m <= i
    <3>1. T \subseteq Nat
      OBVIOUS
    <3> HIDE DEF T
    <3> QED
      BY <1>2, <3>1, LeastExists
  <2>2. m \in j .. n /\ ~P(m) /\ j \in 1 .. n
    OBVIOUS
  <2>3. \A i \in 1 .. n : g[i] \in Nat
    BY DEF Grouping
  <2>4. m # j
    BY <2>2, <2>3
  <2>5. m - 1 \in j .. n /\ m - 1 \in Nat /\ ~(m <= m - 1)
    BY <2>2, <2>4
  <2>6. m - 1 \notin T
    <3> HIDE DEF T
    <3> QED
      BY <2>1, <2>5, Zenon
  <2>7. P(m - 1)
    <3> HIDE DEF P
    <3> QED
      BY <2>5, <2>6
  <2>8. /\ m \in 2 .. n /\ m - 1 \in 1 .. n /\ m \in 1 .. n
    BY <2>2, <2>5
  <2>9. g[m] = g[m - 1] + Change(q, m)
    BY <2>8 DEF Grouping
  <2>10. /\ q[m].deadline <= q[m - 1].deadline /\ q[m - 1].deadline <= q[j].deadline
         /\ q[m].deadline \in Nat /\ q[m - 1].deadline \in Nat /\ q[j].deadline \in Nat
    BY <2>5, <2>8 DEF Descends
  <2>11. g[m] \in Nat /\ g[m - 1] \in Nat /\ g[j] \in Nat
    BY <2>3, <2>8
  <2> HIDE DEF T
  <2>12. CASE q[m - 1].deadline = q[m].deadline
    <3>1. g[m] = g[m - 1]
      BY <2>9, <2>11, <2>12 DEF Change
    <3> QED
      BY <2>2, <2>7, <2>12, <3>1
  <2>13. CASE q[m - 1].deadline # q[m].deadline
    <3>1. g[m] = g[m - 1] + 1
      BY <2>9, <2>13 DEF Change
    <3>2. g[j] < g[m]
      BY <2>7, <2>11, <3>1
    <3>3. q[m].deadline < q[j].deadline
      BY <2>10, <2>13
    <3>4. P(m)
      BY <2>10, <2>11, <3>2, <3>3
    <3> QED
      BY <2>2, <3>4
  <2> QED
    BY <2>12, <2>13
<1> QED
  BY <1>1, <1>2

LEMMA GroupsCover ==
  ASSUME NEW n \in Nat, NEW q, NEW g, Grouping(g, q, n), NEW k \in 1 .. n
  PROVE  {g[i] : i \in 1 .. k} = 1 .. g[k]
<1> DEFINE P(l) == {g[i] : i \in 1 .. l} = 1 .. g[l]
           T == {l \in Nat : l \in 1 .. n /\ ~P(l)}
<1>1. CASE T = {}
  <2>1. k \in Nat
    OBVIOUS
  <2> HIDE DEF P
  <2>2. P(k)
    BY <1>1, <2>1
  <2> QED
    BY <2>2 DEF P
<1>2. CASE T # {}
  <2>1. PICK m \in T : \A i \in T : m <= i
    <3>1. T \subseteq Nat
      OBVIOUS
    <3> HIDE DEF T
    <3> QED
      BY <1>2, <3>1, LeastExists
  <2>2. m \in 1 .. n /\ ~P(m)
    OBVIOUS
  <2>3. \A i \in 1 .. n : g[i] \in Nat
    BY DEF Grouping
  <2>4. m # 1
    <3>1. {g[i] : i \in 1 .. 1} = {g[1]}
      OBVIOUS
    <3>2. g[1] = 1
      BY DEF Grouping
    <3>3. P(1)
      BY <3>1, <3>2
    <3> QED
      BY <2>2, <3>3
  <2>5. m - 1 \in 1 .. n /\ m - 1 \in Nat /\ ~(m <= m - 1) /\ m \in 2 .. n
    BY <2>2, <2>4
  <2>6. m - 1 \notin T
    <3> HIDE DEF T
    <3> QED
      BY <2>1, <2>5, Zenon
  <2>7. P(m - 1)
    <3> HIDE DEF P
    <3> QED
      BY <2>5, <2>6
  <2>8. g[m] = g[m - 1] \/ g[m] = g[m - 1] + 1
    <3>1. g[m] = g[m - 1] + Change(q, m)
      BY <2>5 DEF Grouping
    <3>2. g[m - 1] \in Nat
      BY <2>3, <2>5
    <3> QED
      BY <3>1, <3>2 DEF Change
  <2>9. {g[i] : i \in 1 .. m} = {g[i] : i \in 1 .. m - 1} \cup {g[m]}
    <3>1. 1 .. m = (1 .. m - 1) \cup {m}
      BY <2>5
    <3> QED
      BY <3>1
  <2>10. g[m] \in Nat /\ g[m - 1] \in Nat
    BY <2>3, <2>5
  <2>11. g[m - 1] >= 1
    <3>1. g[m - 1] \in {g[i] : i \in 1 .. m - 1}
      BY <2>5
    <3> QED
      BY <2>7, <3>1
  <2>12. (1 .. g[m - 1]) \cup {g[m]} = 1 .. g[m]
    BY <2>8, <2>10, <2>11
  <2> QED
    BY <2>2, <2>7, <2>9, <2>12
<1> QED
  BY <1>1, <1>2

(* There are as many groups as different deadlines. *)
Numbered(g, q, n) ==
  {g[k] : k \in 1 .. n} = 1 .. Cardinality({q[k].deadline : k \in 1 .. n})

LEMMA GroupsNumber ==
  ASSUME NEW n \in Nat, NEW q, Descends(q, n), NEW g, Grouping(g, q, n)
  PROVE  Numbered(g, q, n)
<1> SUFFICES {g[k] : k \in 1 .. n} = 1 .. Cardinality({q[k].deadline : k \in 1 .. n})
  BY DEF Numbered
<1> DEFINE D == {q[k].deadline : k \in 1 .. n}
<1>1. CASE n = 0
  <2>1. {g[k] : k \in 1 .. n} = {} /\ D = {}
    BY <1>1
  <2>2. Cardinality(D) = 0
    BY <2>1, FS_EmptySet
  <2>3. 1 .. Cardinality(D) = {}
    <3> HIDE DEF D
    <3> QED
      BY <2>2
  <2> QED
    BY <2>1, <2>3
<1>2. CASE n # 0
  <2>1. n \in 1 .. n
    BY <1>2
  <2>2. {g[k] : k \in 1 .. n} = 1 .. g[n]
    BY <2>1, GroupsCover
  <2>3. \A j, k \in 1 .. n : g[j] = g[k] <=> q[j].deadline = q[k].deadline
    <3>1. \A j, k \in 1 .. n : j <= k => (g[j] = g[k] <=> q[j].deadline = q[k].deadline)
      BY GroupsFollow
    <3> QED
      BY <3>1
  <2>4. \A p \in 1 .. g[n] : \E k \in 1 .. n : g[k] = p
    BY <2>2
  <2> DEFINE f == [p \in 1 .. g[n] |-> q[CHOOSE k \in 1 .. n : g[k] = p].deadline]
  <2>5. \A k \in 1 .. n : g[k] \in 1 .. g[n] /\ f[g[k]] = q[k].deadline
    BY <2>2, <2>3
  <2>6. f \in [1 .. g[n] -> D]
    BY <2>4
  <2> HIDE DEF f
  <2>7. f \in Bijection(1 .. g[n], D)
    <3>1. \A p, r \in 1 .. g[n] : f[p] = f[r] => p = r
      BY <2>3, <2>4, <2>5
    <3>2. \A d \in D : \E p \in 1 .. g[n] : f[p] = d
      BY <2>5
    <3> QED
      BY <2>6, <3>1, <3>2 DEF Bijection, Injection, Surjection, IsInjective
  <2>8. g[n] \in Nat
    BY <2>1 DEF Grouping
  <2>9. IsFiniteSet(1 .. g[n]) /\ Cardinality(1 .. g[n]) = g[n]
    BY <2>8, IntervalSize
  <2>10. Cardinality(D) = g[n]
    <3>1. ExistsBijection(1 .. g[n], D)
      BY <2>7 DEF ExistsBijection
    <3> HIDE DEF D
    <3> QED
      BY <2>9, <3>1, FS_Bijection
  <2> QED
    BY <2>2, <2>10
<1> QED
  BY <1>1, <1>2

----------------------------------------------------------------------------
(* The stages of the pass.                                                 *)

LEMMA FaultFree ==
  ASSUME defs \in Seq(TaskDef), FirstFault = None, NEW i \in DOMAIN defs
  PROVE  Fault(defs[i]) = None /\ defs[i].deadline \in Deadlines
<1> DEFINE F == {j \in DOMAIN defs : Fault(defs[j]) # None}
<1>1. None \notin Refusals
  BY PassAssumption
<1>2. FirstTaskFault = None
  BY <1>1 DEF FirstFault, Refusals
<1>3. F = {}
  <2>1. SUFFICES ASSUME F # {} PROVE FALSE
    OBVIOUS
  <2>2. PICK m \in F : \A k \in F : m <= k
    <3>1. F \subseteq Nat
      OBVIOUS
    <3> HIDE DEF F
    <3> QED
      BY <2>1, <3>1, LeastExists
  <2>3. (CHOOSE j \in F : \A k \in F : j <= k) \in F
    BY <2>2
  <2>4. FirstTaskFault = Fault(defs[CHOOSE j \in F : \A k \in F : j <= k])
    BY <2>1 DEF FirstTaskFault
  <2> QED
    BY <1>2, <2>3, <2>4
<1>4. Fault(defs[i]) = None
  BY <1>3
<1>5. defs[i] \in TaskDef
  OBVIOUS
<1> QED
  BY <1>1, <1>4, <1>5 DEF Fault, TaskDef, Refusals

LEMMA NoFault ==
  ASSUME args = AllArgs, \A i \in DOMAIN defs : Fault(defs[i]) = None
  PROVE  FirstFault = None
<1>1. {i \in DOMAIN defs : Fault(defs[i]) # None} = {}
  OBVIOUS
<1>2. FirstTaskFault = None
  BY <1>1 DEF FirstTaskFault
<1> QED
  BY <1>2 DEF FirstFault, AllArgs

(* The deadlines of an application are finitely many. *)
LEMMA DeadlinesCounted ==
  ASSUME defs \in Seq(TaskDef)
  PROVE  Cardinality({defs[i].deadline : i \in DOMAIN defs}) \in Nat
<1> DEFINE D == {defs[i].deadline : i \in DOMAIN defs}
           f == [i \in DOMAIN defs |-> defs[i].deadline]
<1>1. Len(defs) \in Nat /\ DOMAIN defs = 1 .. Len(defs)
  OBVIOUS
<1>2. IsFiniteSet(DOMAIN defs)
  BY <1>1, IntervalSize
<1>3. f \in Surjection(DOMAIN defs, D)
  BY DEF Surjection
<1> HIDE DEF D, f
<1>4. IsFiniteSet(D)
  BY <1>2, <1>3, FS_Surjection
<1>5. Cardinality(D) \in Nat
  BY <1>4, FS_CardinalityType
<1> QED
  BY <1>5 DEF D

(* The tasks in the order of their groups, each with the dispatcher of its *)
(* place.                                                                  *)
Placement(q, g, n) ==
  /\ n \in Nat /\ DOMAIN defs = 1 .. n /\ DOMAIN q \cap DOMAIN dispatchers = 1 .. n
  /\ \A k \in 1 .. n : /\ q[k].def \in 1 .. n /\ q[k].deadline \in Nat
                        /\ q[k].deadline = defs[q[k].def].deadline
  /\ \A x \in 1 .. n : \E k \in 1 .. n : q[k].def = x
  /\ Descends(q, n) /\ Grouping(g, q, n)
  /\ {g[k] : k \in 1 .. n} = 1 .. Cardinality({defs[i].deadline : i \in DOMAIN defs})

LEMMA Placed ==
  ASSUME PassInv, stage = "assign"
  PROVE  Placement(LaterFirst(tasks), PrioGroups(LaterFirst(tasks)), Len(defs))
<1> DEFINE n == Len(defs)
           q == LaterFirst(tasks)
           g == PrioGroups(q)
<1>1. /\ defs \in Seq(TaskDef) /\ dispatchers \in Seq(Range(dispatchers))
      /\ FirstFault = None /\ EnoughDispatchers /\ tasks = Declarations
  BY DEF PassInv
<1>2. n \in Nat /\ DOMAIN defs = 1 .. n
  BY <1>1
<1>3. \A i \in 1 .. n : defs[i].deadline \in Nat
  BY <1>1, <1>2, FaultFree, PassAssumption
<1>4. Declared(tasks, n) /\ DOMAIN tasks = 1 .. n
      /\ \A i \in 1 .. n : tasks[i].def = i /\ tasks[i].deadline = defs[i].deadline
  BY <1>1, <1>2, <1>3 DEF Declared, Declarations
<1> HIDE DEF n
<1>5. Arrangement(q, tasks, n)
  BY <1>2, <1>4, Arranged
<1> HIDE DEF q
<1>6. DOMAIN q = 1 .. n
  BY <1>5 DEF Arrangement
<1>7. Grouping(g, q, n)
  BY <1>2, <1>6, Grouped
<1>8. DOMAIN q \cap DOMAIN dispatchers = 1 .. n
  <2>1. Len(dispatchers) \in Nat /\ Len(dispatchers) >= n /\ DOMAIN dispatchers = 1 .. Len(dispatchers)
    BY <1>1 DEF EnoughDispatchers, n
  <2> QED
    BY <1>2, <1>6, <2>1
<1> HIDE DEF g
<1>9. ASSUME NEW k \in 1 .. n
      PROVE  /\ q[k].def \in 1 .. n /\ q[k].deadline = defs[q[k].def].deadline
             /\ q[k].deadline \in Nat
  <2>1. q[k] \in {tasks[i] : i \in 1 .. n}
    <3>1. q[k] \in Range(tasks)
      BY <1>5 DEF Arrangement
    <3>2. Range(tasks) = {tasks[i] : i \in 1 .. n}
      BY <1>4 DEF Range
    <3> QED
      BY <3>1, <3>2
  <2>2. PICK i \in 1 .. n : q[k] = tasks[i]
    BY <2>1
  <2> QED
    BY <1>3, <1>4, <2>2
<1>10. Descends(q, n)
  <2>1. ASSUME NEW j \in 1 .. n, NEW k \in 1 .. n, j <= k
        PROVE  q[k].deadline <= q[j].deadline
    <3>1. q[k].deadline \in Nat /\ q[j].deadline \in Nat
      BY <1>9
    <3>2. j < k => Before(q[k], q[j])
      BY <1>5 DEF Arrangement
    <3> QED
      BY <2>1, <3>1, <3>2 DEF Before
  <2> QED
    BY <1>9, <2>1 DEF Descends
<1>11. ASSUME NEW x \in 1 .. n PROVE \E k \in 1 .. n : q[k].def = x
  <2>1. PICK k \in 1 .. n : q[k] = tasks[x]
    BY <1>5 DEF Arrangement
  <2> QED
    BY <1>4, <2>1
<1>12. {g[k] : k \in 1 .. n} = 1 .. Cardinality({defs[i].deadline : i \in 1 .. n})
  <2>1. {g[k] : k \in 1 .. n} = 1 .. Cardinality({q[k].deadline : k \in 1 .. n})
    <3>1. Numbered(g, q, n)
      BY <1>2, <1>7, <1>10, GroupsNumber
    <3> QED
      BY <3>1 DEF Numbered
  <2>2. {q[k].deadline : k \in 1 .. n} = {defs[i].deadline : i \in 1 .. n}
    <3>1. ASSUME NEW i \in 1 .. n PROVE \E k \in 1 .. n : q[k].deadline = defs[i].deadline
      BY <1>9, <1>11
    <3> QED
      BY <1>9, <3>1
  <2> QED
    BY <2>1, <2>2
<1> QED
  BY <1>2, <1>7, <1>8, <1>9, <1>10, <1>11, <1>12 DEF Placement, n, q, g

LEMMA AssignLays ==
  ASSUME PassInv, Assign, stage' = "analyze"
  PROVE  Laid' /\ Placeable
<1> DEFINE n == Len(defs)
           q == LaterFirst(tasks)
           g == PrioGroups(q)
<1>1. /\ Placement(q, g, n) /\ defs' = defs /\ dispatchers' = dispatchers
      /\ MinPriority \in 0 .. U16Max /\ U16Max \in Nat
  BY Placed, PassAssumption DEF Assign, input
<1> HIDE DEF n, q, g
<1>2. n \in Nat /\ DOMAIN defs = 1 .. n /\ DOMAIN q \cap DOMAIN dispatchers = 1 .. n
  BY <1>1 DEF Placement
<1>3. /\ FitsU16(g, 1 .. n) /\ \A k \in 1 .. n : Named(q[k], dispatchers[k])
      /\ tasks' = [k \in 1 .. n |->
                     [def |-> q[k].def, deadline |-> q[k].deadline,
                      dispatcher_priority |-> g[k], rq_idx |-> RqIdx(g[k]),
                      dispatcher_idx |-> k - 1, dispatcher |-> dispatchers[k]]]
  BY <1>2 DEF Assign, q, g
<1>4. ASSUME NEW k \in 1 .. n
      PROVE  /\ tasks'[k].def = q[k].def /\ tasks'[k].deadline = q[k].deadline
             /\ tasks'[k].dispatcher_priority = g[k] /\ tasks'[k].rq_idx = g[k] - 1
             /\ tasks'[k].dispatcher_idx = k - 1 /\ tasks'[k].dispatcher = dispatchers[k]
  BY <1>3 DEF RqIdx
<1>5. DOMAIN tasks' = 1 .. n
  BY <1>3
<1>6. ASSUME NEW k \in 1 .. n
      PROVE  /\ q[k].def \in 1 .. n /\ q[k].deadline = defs[q[k].def].deadline
             /\ q[k].deadline \in Nat /\ g[k] \in Nat
  BY <1>1 DEF Placement, Grouping
<1>7. EachAssigned'
  <2>1. DOMAIN defs' = 1 .. n
    BY <1>1, <1>2
  <2>2. ASSUME NEW k \in 1 .. n
        PROVE  /\ tasks'[k].def \in 1 .. n
               /\ tasks'[k].deadline = defs'[tasks'[k].def].deadline
               /\ tasks'[k].deadline \in Nat
               /\ tasks'[k].dispatcher_idx = k - 1
               /\ tasks'[k].dispatcher = dispatchers'[k]
               /\ tasks'[k].dispatcher_priority \in Nat
               /\ tasks'[k].rq_idx = tasks'[k].dispatcher_priority - 1
    BY <1>1, <1>4, <1>6, SMTT(60)
  <2> QED
    BY <1>5, <2>1, <2>2 DEF EachAssigned
<1>8. ASSUME NEW x \in 1 .. n PROVE \E k \in 1 .. n : q[k].def = x
  BY <1>1 DEF Placement
<1>9. PrioritiesFollow'
  <2>1. \A j, k \in 1 .. n : j <= k =>
          g[j] <= g[k] /\ (g[j] = g[k] <=> q[j].deadline = q[k].deadline)
    BY <1>1, <1>2, GroupsFollow DEF Placement
  <2>2. ASSUME NEW j \in 1 .. n, NEW k \in 1 .. n
        PROVE  /\ q[j].deadline < q[k].deadline <=> g[j] > g[k]
               /\ q[j].deadline = q[k].deadline <=> g[j] = g[k]
    <3>1. g[j] \in Nat /\ g[k] \in Nat /\ q[j].deadline \in Nat /\ q[k].deadline \in Nat
      BY <1>6
    <3>2. /\ j <= k => q[k].deadline <= q[j].deadline
          /\ k <= j => q[j].deadline <= q[k].deadline
      BY <1>1 DEF Placement, Descends
    <3>3. j <= k \/ k <= j
      BY <1>2
    <3>4. j <= k => g[j] <= g[k] /\ (g[j] = g[k] <=> q[j].deadline = q[k].deadline)
      BY <2>1
    <3>5. k <= j => g[k] <= g[j] /\ (g[k] = g[j] <=> q[k].deadline = q[j].deadline)
      BY <2>1
    <3> QED
      BY <3>1, <3>2, <3>3, <3>4, <3>5
  <2> QED
    BY <1>4, <1>5, <2>2 DEF PrioritiesFollow
<1>10. DispatcherPriorities' = 1 .. Cardinality({defs'[i].deadline : i \in DOMAIN defs'})
  <2>1. DispatcherPriorities' = {g[k] : k \in 1 .. n}
    BY <1>4, <1>5 DEF DispatcherPriorities
  <2>2. {g[k] : k \in 1 .. n} = 1 .. Cardinality({defs[i].deadline : i \in DOMAIN defs})
    BY <1>1 DEF Placement
  <2> QED
    BY <1>1, <2>1, <2>2
<1>11. tasks' \in [1 .. n -> Range(tasks')]
  <2>1. \A k \in 1 .. n : tasks'[k] \in Range(tasks')
    BY <1>5 DEF Range
  <2>2. tasks' = [k \in 1 .. n |-> tasks'[k]]
    BY <1>3
  <2> QED
    BY <2>1, <2>2
<1>12. Laid'
  <2>1. \A x \in DOMAIN defs' : \E k \in DOMAIN tasks' : tasks'[k].def = x
    <3> SUFFICES ASSUME NEW x \in 1 .. n PROVE \E k \in 1 .. n : tasks'[k].def = x
      BY <1>1, <1>2, <1>5
    <3>1. PICK k \in 1 .. n : q[k].def = x
      BY <1>8
    <3> QED
      BY <1>4, <3>1
  <2> QED
    BY <1>1, <1>7, <1>9, <1>10, <1>11, <2>1 DEF Laid, n
<1>13. n - 1 <= U16Max
  <2>1. n # 0 => n - 1 <= U16Max
    BY <1>2, <1>3 DEF FitsU16
  <2> QED
    BY <1>1, <2>1
<1>14. ASSUME NEW i \in 1 .. n
       PROVE  defs[i].binds = "identifier" /\ dispatchers[i] # Qualified
  <2>1. PICK k \in 1 .. n : q[k].def = i
    BY <1>8
  <2> QED
    BY <1>3, <2>1 DEF Named
<1> QED
  BY <1>2, <1>12, <1>13, <1>14 DEF Placeable, n

(* The assignment turns down only what does not fit. *)
LEMMA AssignRefuses ==
  ASSUME PassInv, Assign, stage' # "analyze"
  PROVE  stage' \in Refusals /\ ~Fits
<1> DEFINE n == Len(defs)
           q == LaterFirst(tasks)
           g == PrioGroups(q)
<1>1. Placement(q, g, n)
  BY Placed DEF Assign
<1> DEFINE m == Cardinality({defs[i].deadline : i \in DOMAIN defs})
<1> HIDE DEF n, q, g
<1>2. n \in Nat /\ DOMAIN defs = 1 .. n /\ DOMAIN q \cap DOMAIN dispatchers = 1 .. n
  BY <1>1 DEF Placement
<1>3. /\ stage' \in Refusals
      /\ ~FitsU16(g, 1 .. n) \/ ~\A k \in 1 .. n : Named(q[k], dispatchers[k])
  BY <1>2 DEF Assign, Refusals, q, g
<1>4. ASSUME Fits PROVE FALSE
  <2>1. m \in Nat /\ m < MaxPriority /\ MaxPriority \in 0 .. U16Max /\ U16Max \in Nat
    BY <1>4, DeadlinesCounted, PassAssumption DEF Fits, PassInv
  <2>2. n - 1 <= U16Max /\ \A i \in 1 .. n : defs[i].binds = "identifier" /\ dispatchers[i] # Qualified
    BY <1>2, <1>4 DEF Fits, Placeable, n
  <2>3. \A k \in 1 .. n : g[k] \in 1 .. m
    BY <1>1 DEF Placement
  <2> HIDE DEF m
  <2>4. FitsU16(g, 1 .. n)
    BY <1>2, <2>1, <2>2, <2>3 DEF FitsU16
  <2>5. \A k \in 1 .. n : q[k].def \in 1 .. n
    BY <1>1 DEF Placement
  <2>6. \A k \in 1 .. n : Named(q[k], dispatchers[k])
    BY <2>2, <2>5 DEF Named
  <2> QED
    BY <1>3, <2>4, <2>6
<1> QED
  BY <1>3, <1>4

(* The verdict on an assignment is whether the application fits. *)
LEMMA VerdictFits ==
  ASSUME PassInv, stage = "analyze"
  PROVE  IF Fits THEN Verdict = "generate" ELSE Verdict \in Refusals
<1> DEFINE m == Cardinality({defs[i].deadline : i \in DOMAIN defs})
<1>1. /\ defs \in Seq(TaskDef) /\ FirstFault = None /\ EnoughDispatchers /\ Laid /\ Placeable
      /\ MinPriority \in Nat /\ MaxPriority \in Nat
  BY PassAssumption DEF PassInv
<1>2. m \in Nat
  BY <1>1, DeadlinesCounted
<1> HIDE DEF m
<1>3. Fits <=> defs # <<>> /\ MinPriority <= 1 /\ m < MaxPriority
  BY <1>1 DEF Fits, EnoughDispatchers, m
<1>4. DispatcherPriorities = 1 .. m /\ DOMAIN tasks = 1 .. Len(defs)
  BY <1>1 DEF Laid, m
<1>5. tasks = <<>> <=> defs = <<>>
  <2>1. Len(defs) \in Nat /\ (defs = <<>> <=> Len(defs) = 0)
    BY <1>1
  <2>2. tasks = <<>> => DOMAIN tasks = {}
    OBVIOUS
  <2>3. Len(defs) = 0 => tasks = <<>>
    <3>1. ASSUME Len(defs) = 0 PROVE tasks = <<>>
      <4>1. tasks \in [1 .. 0 -> Range(tasks)]
        BY <1>1, <3>1 DEF Laid
      <4> QED
        BY <4>1
    <3> QED
      BY <3>1
  <2> QED
    BY <1>4, <2>1, <2>2, <2>3
<1>6. tasks # <<>> => m >= 1
  <2>1. ASSUME tasks # <<>> PROVE m >= 1
    <3>1. 1 \in DOMAIN tasks
      BY <1>1, <1>4, <1>5, <2>1
    <3>2. tasks[1].dispatcher_priority \in DispatcherPriorities
      BY <3>1 DEF DispatcherPriorities
    <3> QED
      BY <1>2, <1>4, <3>2
  <2> QED
    BY <2>1
<1>7. (\E p \in DispatcherPriorities : ~BelowTimestampers(p)) <=> m >= 1 /\ m >= MaxPriority
  <2>1. \A p \in 1 .. m : p <= m
    BY <1>2
  <2>2. ASSUME m >= 1 PROVE m \in 1 .. m
    BY <1>2, <2>2
  <2>3. ASSUME m >= 1, m >= MaxPriority PROVE \E p \in 1 .. m : ~(p < MaxPriority)
    <3>1. m \in 1 .. m /\ ~(m < MaxPriority)
      BY <1>1, <1>2, <2>2, <2>3
    <3> QED
      BY <3>1
  <2>4. ASSUME NEW p \in 1 .. m, ~(p < MaxPriority) PROVE m >= 1 /\ m >= MaxPriority
    BY <1>1, <1>2, <2>4
  <2> QED
    BY <1>4, <2>3, <2>4 DEF BelowTimestampers
<1>8. (\E p \in DispatcherPriorities : p < MinPriority) <=> m >= 1 /\ MinPriority > 1
  BY <1>1, <1>2, <1>4
<1> QED
  BY <1>1, <1>2, <1>3, <1>5, <1>6, <1>7, <1>8 DEF Verdict, Refusals

LEMMA PassStep == PassInv /\ [Next]_vars => PassInv'
<1> SUFFICES ASSUME PassInv, [Next]_vars PROVE PassInv'
  OBVIOUS
<1>1. UNCHANGED input
  BY DEF Next, vars, Parse, Assign, Analyze, Generate, Finished
<1>2. /\ defs' = defs /\ dispatchers' = dispatchers /\ args' = args
      /\ FirstFault' = FirstFault /\ EnoughDispatchers' = EnoughDispatchers
      /\ Placeable' = Placeable /\ Fits' = Fits
  BY <1>1 DEF input, FirstFault, FirstTaskFault, EnoughDispatchers, Placeable, Fits
<1>3. /\ (defs \in Seq(TaskDef))'
      /\ (dispatchers \in Seq(Range(dispatchers)))'
  BY <1>2 DEF PassInv, Range
<1> DEFINE Reached == /\ stage' \in {"assign", "analyze", "generate", "done"}
                            => FirstFault' = None /\ EnoughDispatchers'
                      /\ stage' = "assign" => tasks' = Declarations'
                      /\ stage' \in {"analyze", "generate", "done"} => Laid' /\ Placeable'
                      /\ stage' \in {"generate", "done"} => Fits'
                      /\ stage' \in Refusals => ~Fits'
<1> HIDE DEF Reached
<1>4. Declarations' = Declarations
  BY <1>2 DEF Declarations
<1>5. ASSUME UNCHANGED tasks, Laid PROVE Laid'
  <2>1. EachAssigned'
    BY <1>2, <1>5 DEF Laid, EachAssigned
  <2>2. PrioritiesFollow' /\ DispatcherPriorities' = DispatcherPriorities
    BY <1>5 DEF Laid, PrioritiesFollow, DispatcherPriorities
  <2> QED
    BY <1>2, <1>5, <2>1, <2>2 DEF Laid
<1>6. ASSUME Parse PROVE Reached
  <2>1. None \notin Refusals
    BY PassAssumption
  <2>2. CASE FirstFault # None /\ stage' = FirstFault
    <3>1. FirstFault \in Refusals
      <4>1. FirstTaskFault # None => FirstTaskFault \in Refusals
        BY DEF FirstTaskFault, Fault, Refusals
      <4> QED
        BY <2>2, <4>1 DEF FirstFault, Refusals
    <3>2. ~Fits
      BY <2>2 DEF Fits
    <3> QED
      BY <1>2, <2>2, <3>1, <3>2 DEF Reached, Refusals
  <2>3. CASE ~EnoughDispatchers /\ stage' = "too few dispatchers"
    <3>1. ~Fits
      BY <2>3 DEF Fits, EnoughDispatchers
    <3> QED
      BY <1>2, <2>3, <3>1 DEF Reached
  <2>4. CASE /\ FirstFault = None /\ EnoughDispatchers /\ stage' = "assign"
             /\ tasks' = [i \in DOMAIN defs |-> [def |-> i, deadline |-> defs[i].deadline]]
    BY <1>2, <1>4, <2>4 DEF Reached, Declarations, Refusals
  <2> QED
    BY <1>6, <2>2, <2>3, <2>4 DEF Parse
<1>7. ASSUME Assign PROVE Reached
  <2>1. stage = "assign"
    BY <1>7 DEF Assign
  <2>2. CASE stage' = "analyze"
    <3>1. Laid' /\ Placeable'
      BY <1>2, <1>7, <2>2, AssignLays
    <3> QED
      BY <1>2, <2>1, <2>2, <3>1 DEF PassInv, Reached, Refusals
  <2>3. CASE stage' # "analyze"
    BY <1>2, <1>7, <2>3, AssignRefuses DEF Reached, Refusals
  <2> QED
    BY <2>2, <2>3
<1>8. ASSUME Analyze PROVE Reached
  <2>1. stage = "analyze" /\ stage' = Verdict /\ UNCHANGED tasks
    BY <1>8 DEF Analyze
  <2>2. Laid' /\ Placeable /\ FirstFault = None /\ EnoughDispatchers
    BY <1>5, <2>1 DEF PassInv
  <2>3. CASE Fits
    <3>1. stage' = "generate"
      BY <2>1, <2>3, VerdictFits
    <3> QED
      BY <1>2, <2>2, <2>3, <3>1 DEF Reached, Refusals
  <2>4. CASE ~Fits
    <3>1. stage' \in Refusals
      BY <2>1, <2>4, VerdictFits
    <3> QED
      BY <1>2, <2>4, <3>1 DEF Reached, Refusals
  <2> QED
    BY <2>3, <2>4
<1>9. ASSUME Generate PROVE Reached
  <2>1. stage = "generate" /\ UNCHANGED tasks
    BY <1>9 DEF Generate
  <2>2. Laid /\ Laid' /\ Placeable /\ Fits /\ FirstFault = None /\ EnoughDispatchers
    BY <1>5, <2>1 DEF PassInv
  <2>3. stage' = "done"
    BY <1>9, <2>2 DEF Generate, Laid, EachAssigned
  <2> QED
    BY <1>2, <2>2, <2>3 DEF Reached, Refusals
<1>10. ASSUME UNCHANGED vars PROVE Reached
  <2>1. stage' = stage /\ tasks' = tasks
    BY <1>10 DEF vars
  <2> QED
    BY <1>2, <1>4, <1>5, <2>1 DEF PassInv, Reached
<1>11. Reached
  BY <1>6, <1>7, <1>8, <1>9, <1>10 DEF Next, Finished
<1> QED
  BY <1>3, <1>11 DEF PassInv, Reached

----------------------------------------------------------------------------
(* The generator. *)

(* By hand, an application enters the pass where it is parsed. *)
LEMMA HandInit == Init => PassInv
<1> SUFFICES ASSUME Init PROVE PassInv
  OBVIOUS
<1>1. defs \in Seq(TaskDef)
  BY DEF Init, SeqOf
<1>2. dispatchers \in Seq(Range(dispatchers))
  <2>1. PICK m \in 0 .. MaxTasks : dispatchers \in [1 .. m -> Interrupts \cup {Qualified}]
    BY DEF Init, SeqOf
  <2>2. Range(dispatchers) = {dispatchers[i] : i \in 1 .. m}
    BY <2>1 DEF Range
  <2>3. dispatchers \in [1 .. m -> Range(dispatchers)]
    BY <2>1, <2>2
  <2> QED
    BY <2>1, <2>3
<1> QED
  BY <1>1, <1>2 DEF Init, PassInv, Refusals

(* The upper half of the interrupts. *)
LEMMA UpperHalf ==
  ASSUME NEW h, h \in Seq(Range(h)), NEW k \in 0 .. Len(h)
  PROVE  LET u == SubSeq(h, k + 1, Len(h)) IN
         u \in Seq(Range(u)) /\ Range(u) \subseteq Range(h) /\ Len(u) = Len(h) - k
<1> DEFINE m == Len(h) - k
           u == SubSeq(h, k + 1, Len(h))
<1>1. Len(h) \in Nat /\ m \in Nat /\ DOMAIN h = 1 .. Len(h)
  OBVIOUS
<1>2. u = [i \in 1 .. m |-> h[k + i]]
  <2>1. Len(h) - (k + 1) + 1 = m
    BY <1>1
  <2>2. \A i \in 1 .. m : i + (k + 1) - 1 = k + i
    BY <1>1
  <2> QED
    BY <1>1, <2>1, <2>2
<1> HIDE DEF u
<1>3. Len(u) = m /\ DOMAIN u = 1 .. m /\ \A i \in 1 .. m : u[i] = h[k + i]
  BY <1>1, <1>2
<1>4. Range(u) = {u[i] : i \in 1 .. m}
  BY <1>3 DEF Range
<1>5. u \in [1 .. m -> Range(u)]
  BY <1>2, <1>3, <1>4
<1>6. u \in Seq(Range(u))
  BY <1>1, <1>5
<1>7. Range(u) \subseteq Range(h)
  <2>1. \A i \in 1 .. m : k + i \in DOMAIN h
    BY <1>1
  <2> QED
    BY <1>3, <1>4, <2>1 DEF Range
<1> QED
  BY <1>3, <1>6, <1>7 DEF u

LEMMA HalfFits ==
  ASSUME handlers \in Seq(Range(handlers))
  PROVE  Half \in 0 .. Len(handlers) /\ Half <= Len(handlers) - Half
<1>1. Len(handlers) \in Nat
  OBVIOUS
<1> QED
  BY <1>1 DEF Half

LEMMA GeneratedInit == Generated => IInv
<1> SUFFICES ASSUME Generated PROVE IInv
  OBVIOUS
<1>1. handlers \in Seq(Range(handlers)) /\ Qualified \notin Range(handlers) /\ perPriority \in Nat
  BY BenchmarkAssumption DEF Generated
<1>2. Half \in 0 .. Len(handlers)
  BY <1>1, HalfFits
<1>3. /\ dispatchers \in Seq(Range(dispatchers)) /\ Qualified \notin Range(dispatchers)
      /\ Len(dispatchers) = Len(handlers) - Half
  BY <1>1, <1>2, UpperHalf DEF Generated
<1>4. timings \in Seq(Deadlines)
  <2>1. PICK m \in 0 .. Cardinality(Deadlines) : timings \in [1 .. m -> Deadlines]
    BY DEF Generated, SeqOf
  <2> QED
    BY <2>1
<1>5. stage = "settings" /\ defs = <<>> /\ args = AllArgs /\ idx = 1 /\ count = 0
  BY DEF Generated
<1>6. PassInv
  BY <1>3, <1>5 DEF PassInv, Refusals
<1>7. WellFormed /\ Len(defs) <= Half
  BY <1>2, <1>5 DEF WellFormed
<1>8. Automatic
  BY <1>1, <1>3, <1>4, <1>5, <1>7 DEF Automatic, PassStages, Refusals
<1> QED
  BY <1>6, <1>8 DEF IInv

LEMMA InvariantInit == BenchInit => IInv
<1>1. ByHand => PassInv /\ HandMade
  BY HandInit DEF ByHand, Init, HandMade, PassStages
<1> QED
  BY <1>1, GeneratedInit DEF BenchInit, IInv

(* Deadlines in strict order are all different. *)
Growing(s, n) == \A i \in 1 .. n - 1 : s[i] < s[i + 1]

LEMMA GrowingOrdered ==
  ASSUME NEW n \in Nat, NEW s, \A i \in 1 .. n : s[i] \in Int, Growing(s, n),
         NEW i \in 1 .. n, NEW j \in 1 .. n, i < j
  PROVE  s[i] < s[j]
<1> DEFINE T == {k \in Nat : k \in i + 1 .. n /\ ~(s[i] < s[k])}
<1>1. CASE T = {}
  <2>1. j \in Nat /\ j \in i + 1 .. n
    OBVIOUS
  <2> QED
    BY <1>1, <2>1
<1>2. CASE T # {}
  <2>1. PICK m \in T : \A k \in T : m <= k
    <3>1. T \subseteq Nat
      OBVIOUS
    <3> HIDE DEF T
    <3> QED
      BY <1>2, <3>1, LeastExists
  <2>2. m \in i + 1 .. n /\ ~(s[i] < s[m])
    OBVIOUS
  <2>3. m - 1 \in 1 .. n - 1 /\ m - 1 \in i .. n /\ m - 1 \in Nat /\ ~(m <= m - 1) /\ m - 1 + 1 = m
    BY <2>2
  <2>4. m - 1 \notin T
    <3> HIDE DEF T
    <3> QED
      BY <2>1, <2>3, Zenon
  <2> DEFINE l == m - 1
  <2>5. s[l] < s[l + 1] /\ l + 1 = m
    BY <2>3 DEF Growing
  <2>6. m - 1 = i \/ s[i] < s[m - 1]
    BY <2>3, <2>4
  <2>7. s[m - 1] \in Int /\ s[m] \in Int /\ s[i] \in Int
    BY <2>2, <2>3
  <2> QED
    BY <2>2, <2>5, <2>6, <2>7
<1> QED
  BY <1>1, <1>2

LEMMA StrictlyOrderedDiffer ==
  ASSUME NEW s \in Seq(Deadlines), StrictlyOrdered(s),
         NEW i \in 1 .. Len(s), NEW j \in 1 .. Len(s), s[i] = s[j]
  PROVE  i = j
<1> DEFINE n == Len(s)
<1>1. n \in Nat /\ \A k \in 1 .. n : s[k] \in Nat
  <2>1. n \in Nat /\ \A k \in 1 .. n : s[k] \in Deadlines
    OBVIOUS
  <2>2. Deadlines \subseteq Nat
    BY PassAssumption
  <2> QED
    BY <2>1, <2>2
<1>2. CASE Growing(s, n)
  <2>1. \A k \in 1 .. n : s[k] \in Int
    BY <1>1
  <2>2. i < j => s[i] < s[j]
    BY <1>1, <1>2, <2>1, GrowingOrdered
  <2>3. j < i => s[j] < s[i]
    BY <1>1, <1>2, <2>1, GrowingOrdered
  <2> QED
    BY <1>1, <2>2, <2>3
<1>3. CASE \A k \in 1 .. n - 1 : s[k] > s[k + 1]
  <2> DEFINE d == [k \in 1 .. n |-> 0 - s[k]]
  <2>1. \A k \in 1 .. n : d[k] = 0 - s[k] /\ d[k] \in Int
    BY <1>1
  <2> HIDE DEF d
  <2>2. Growing(d, n)
    <3> SUFFICES ASSUME NEW k \in 1 .. n - 1 PROVE d[k] < d[k + 1]
      BY DEF Growing
    <3>1. k \in 1 .. n /\ k + 1 \in 1 .. n
      BY <1>1
    <3> QED
      BY <1>1, <1>3, <2>1, <3>1
  <2>3. i < j => d[i] < d[j]
    BY <1>1, <2>1, <2>2, GrowingOrdered
  <2>4. j < i => d[j] < d[i]
    BY <1>1, <2>1, <2>2, GrowingOrdered
  <2>5. d[i] = d[j]
    BY <2>1
  <2> QED
    BY <1>1, <2>1, <2>3, <2>4, <2>5
<1> QED
  BY <1>2, <1>3 DEF StrictlyOrdered, Growing

(* The shares. *)
LEMMA ShareFits ==
  ASSUME handlers \in Seq(Range(handlers)), perPriority \in Nat,
         timings \in Seq(Deadlines), timings # <<>>
  PROVE  /\ Len(timings) \in Nat \ {0} /\ Half \in Nat
         /\ MaxCount \in Nat /\ Share \in Nat \ {0}
         /\ Len(timings) * MaxCount <= Half
         /\ \A c \in 0 .. Share - 1 : c + 1 >= MaxCount <=> c + 1 = Share
<1>1. Len(timings) \in Nat \ {0} /\ Half \in Nat
  BY HalfFits
<1> DEFINE l == Len(timings)
           h == Half
           share == h \div l
<1>2. share \in Nat /\ l * share <= h
  <2> HIDE DEF l, h
  <2> QED
    BY <1>1 DEF l, h
<1>3. MaxCount \in Nat /\ MaxCount <= share
  BY <1>2 DEF MaxCount
<1>4. l * MaxCount <= l * share
  <2> HIDE DEF share, l
  <2> QED
    BY <1>1, <1>2, <1>3 DEF l
<1>5. Share \in Nat \ {0} /\ \A c \in 0 .. Share - 1 : c + 1 >= MaxCount <=> c + 1 = Share
  BY <1>3 DEF Share
<1>6. l * MaxCount \in Nat /\ l * share \in Nat
  <2> HIDE DEF share, l
  <2> QED
    BY <1>1, <1>2, <1>3 DEF l
<1> QED
  <2> HIDE DEF share, l, h
  <2>1. l * MaxCount <= h
    BY <1>1, <1>2, <1>4, <1>6 DEF h
  <2> QED
    BY <1>1, <1>3, <1>5, <2>1 DEF h, l

(* One more task. *)
NumberOf(ds, d) == Cardinality({i \in DOMAIN ds : ds[i].deadline = d})

LEMMA TaskAdded ==
  ASSUME NEW ds \in Seq(TaskDef), NEW t \in TaskDef, NEW d
  PROVE  NumberOf(Append(ds, t), d) = IF t.deadline = d THEN NumberOf(ds, d) + 1
                                      ELSE NumberOf(ds, d)
<1> DEFINE n == Len(ds)
           es == Append(ds, t)
           D == {i \in DOMAIN ds : ds[i].deadline = d}
           E == {i \in DOMAIN es : es[i].deadline = d}
<1>1. n \in Nat /\ DOMAIN ds = 1 .. n
  OBVIOUS
<1>2. DOMAIN es = 1 .. n + 1 /\ es[n + 1] = t /\ \A i \in 1 .. n : es[i] = ds[i]
  BY <1>1
<1>3. D \in SUBSET (1 .. n) /\ IsFiniteSet(1 .. n)
  BY <1>1, IntervalSize
<1>4. IsFiniteSet(D)
  <2> HIDE DEF D
  <2> QED
    BY <1>3, FS_Subset
<1>6. NumberOf(ds, d) = Cardinality(D) /\ NumberOf(es, d) = Cardinality(E)
  BY DEF NumberOf
<1>7. n + 1 \notin D
  BY <1>1
<1> HIDE DEF es
<1>8. CASE t.deadline = d
  <2>1. E = D \cup {n + 1}
    BY <1>1, <1>2, <1>8
  <2> HIDE DEF D, E
  <2>2. Cardinality(E) = Cardinality(D) + 1
    BY <1>4, <1>7, <2>1, FS_AddElement
  <2> QED
    BY <1>6, <1>8, <2>2 DEF es
<1>9. CASE t.deadline # d
  <2>1. E = D
    BY <1>1, <1>2, <1>9
  <2> HIDE DEF D, E
  <2> QED
    BY <1>6, <1>9, <2>1 DEF es
<1> QED
  BY <1>8, <1>9

LEMMA SettingsStep ==
  ASSUME PassInv, Automatic, CheckSettings
  PROVE  IInv'
<1>1. /\ stage = "settings" /\ UNCHANGED <<input, tasks, settings, idx, count>>
      /\ stage' \in {"timings not ordered", "division by zero", "distribute"}
      /\ stage' = "distribute" => StrictlyOrdered(timings) /\ timings # <<>>
  BY DEF CheckSettings
<1>2. /\ defs' = defs /\ args' = args /\ dispatchers' = dispatchers /\ timings' = timings
      /\ handlers' = handlers /\ perPriority' = perPriority /\ idx' = idx /\ count' = count
      /\ Half' = Half /\ MaxCount' = MaxCount /\ Share' = Share
  BY <1>1 DEF input, settings, Half, MaxCount, Share
<1>3. PassInv'
  BY <1>1, <1>2 DEF PassInv, Range, Refusals
<1>4. stage' \notin PassStages
  BY <1>1 DEF PassStages, Refusals
<1>5. ASSUME stage' = "distribute" PROVE Spread'
  <2>1. timings \in Seq(Deadlines) /\ timings # <<>> /\ defs = <<>> /\ idx = 1 /\ count = 0
    BY <1>1, <1>5 DEF Automatic
  <2>2. Len(timings) \in Nat \ {0} /\ Share \in Nat \ {0}
    BY <2>1, ShareFits DEF Automatic
  <2>3. \A d : TasksOf(d)' = 0
    <3> SUFFICES ASSUME NEW d PROVE TasksOf(d)' = 0
      OBVIOUS
    <3>1. {i \in DOMAIN defs' : defs'[i].deadline = d} = {}
      BY <1>2, <2>1
    <3> QED
      BY <3>1, FS_EmptySet DEF TasksOf
  <2>4. Len(defs') = (idx' - 1) * Share' + count'
    BY <1>2, <2>1, <2>2
  <2> QED
    BY <1>2, <2>1, <2>2, <2>3, <2>4 DEF Spread
<1>6. WellFormed' /\ StrictlyOrdered(timings)' = StrictlyOrdered(timings)
  BY <1>2 DEF WellFormed, StrictlyOrdered, Automatic, Fault
<1> QED
  BY <1>1, <1>2, <1>3, <1>4, <1>5, <1>6 DEF IInv, Automatic, Range

LEMMA DistributeStep ==
  ASSUME PassInv, Automatic, Distribute
  PROVE  IInv'
<1> DEFINE l == Len(timings)
           full == count + 1 >= MaxCount
<1>1. /\ stage = "distribute" /\ Len(defs) < Half
      /\ defs' = Append(defs, GeneratedTask)
      /\ UNCHANGED <<args, dispatchers, tasks, settings>>
      /\ count' = IF full THEN 0 ELSE count + 1
      /\ idx' = IF full /\ idx < l THEN idx + 1 ELSE idx
      /\ stage' = IF full /\ idx = l THEN "parse" ELSE stage
  BY DEF Distribute, CountAfter
<1>2. /\ args' = args /\ dispatchers' = dispatchers /\ timings' = timings
      /\ handlers' = handlers /\ perPriority' = perPriority
      /\ Half' = Half /\ MaxCount' = MaxCount /\ Share' = Share
  BY <1>1 DEF settings, Half, MaxCount, Share
<1>3. /\ timings \in Seq(Deadlines) /\ StrictlyOrdered(timings) /\ timings # <<>> /\ Spread
      /\ handlers \in Seq(Range(handlers)) /\ perPriority \in Nat /\ defs \in Seq(TaskDef)
  BY <1>1 DEF Automatic, PassInv
<1>4. /\ l \in Nat \ {0} /\ Share \in Nat \ {0} /\ Half \in Nat
      /\ \A c \in 0 .. Share - 1 : c + 1 >= MaxCount <=> c + 1 = Share
  BY <1>3, ShareFits
<1>5. /\ idx \in 1 .. l /\ count \in 0 .. Share - 1
      /\ \A q \in 1 .. l :
           NumberOf(defs, timings[q]) = IF q < idx THEN Share ELSE IF q = idx THEN count ELSE 0
      /\ Len(defs) = (idx - 1) * Share + count
  BY <1>3 DEF Spread, TasksOf, NumberOf
<1>6. full <=> count + 1 = Share
  BY <1>4, <1>5
<1> HIDE DEF full
<1>7. timings[idx] \in Deadlines
  BY <1>3, <1>5
<1>8. GeneratedTask \in TaskDef /\ GeneratedTask.deadline = timings[idx]
      /\ Fault(GeneratedTask) = None /\ GeneratedTask.binds = "identifier"
  BY <1>7, PassAssumption DEF GeneratedTask, TaskDef, Fault
<1>9. defs' \in Seq(TaskDef) /\ Len(defs') = Len(defs) + 1 /\ Len(defs) \in Nat
  BY <1>1, <1>3, <1>8
<1>10. PassInv'
  BY <1>1, <1>2, <1>9 DEF PassInv, Range, Refusals
<1>11. WellFormed'
  <2>1. \A i \in DOMAIN defs' : defs'[i] = IF i = Len(defs) + 1 THEN GeneratedTask ELSE defs[i]
    BY <1>1, <1>3
  <2>2. \A i \in DOMAIN defs' : i = Len(defs) + 1 \/ i \in DOMAIN defs
    BY <1>1, <1>3
  <2>3. \A i \in DOMAIN defs' : /\ defs'[i].deadline \in Deadlines
                                /\ Fault(defs'[i]) = None /\ defs'[i].binds = "identifier"
    BY <1>7, <1>8, <2>1, <2>2 DEF Automatic, WellFormed
  <2> QED
    BY <2>3 DEF WellFormed, Fault
<1>12. \A q \in 1 .. l :
         NumberOf(defs', timings[q]) = IF q = idx THEN NumberOf(defs, timings[q]) + 1
                                       ELSE NumberOf(defs, timings[q])
  <2> SUFFICES ASSUME NEW q \in 1 .. l
               PROVE  NumberOf(defs', timings[q]) = IF q = idx THEN NumberOf(defs, timings[q]) + 1
                                                    ELSE NumberOf(defs, timings[q])
    OBVIOUS
  <2>1. timings[q] = timings[idx] => q = idx
    BY <1>3, <1>5, StrictlyOrderedDiffer
  <2>2. \A d : NumberOf(defs', d) = IF timings[idx] = d THEN NumberOf(defs, d) + 1
                                    ELSE NumberOf(defs, d)
    BY <1>1, <1>3, <1>8, TaskAdded
  <2> QED
    BY <2>1, <2>2
<1>13. ASSUME stage' = "distribute" PROVE Spread'
  <2>1. ~(full /\ idx = l)
    BY <1>1, <1>13
  <2>2. CASE full
    <3>1. count' = 0 /\ idx' = idx + 1 /\ idx' \in 1 .. l /\ count + 1 = Share
      BY <1>1, <1>4, <1>5, <1>6, <2>1, <2>2
    <3>2. \A q \in 1 .. l : NumberOf(defs', timings[q]) =
            IF q < idx' THEN Share ELSE IF q = idx' THEN 0 ELSE 0
      BY <1>4, <1>5, <1>12, <3>1
    <3>3. Len(defs') = (idx' - 1) * Share + 0
      <4>1. (idx - 1) * Share + Share = idx * Share
        BY <1>4, <1>5
      <4>2. (idx - 1) * Share \in Nat /\ idx' - 1 = idx
        BY <1>4, <1>5, <3>1
      <4> QED
        BY <1>4, <1>5, <1>9, <3>1, <4>1, <4>2
    <3> QED
      BY <1>2, <1>4, <3>1, <3>2, <3>3 DEF Spread, TasksOf, NumberOf
  <2>3. CASE ~full
    <3>1. count' = count + 1 /\ idx' = idx /\ count' \in 0 .. Share - 1
      BY <1>1, <1>4, <1>5, <1>6, <2>3
    <3>2. \A q \in 1 .. l : NumberOf(defs', timings[q]) =
            IF q < idx' THEN Share ELSE IF q = idx' THEN count' ELSE 0
      BY <1>4, <1>5, <1>12, <3>1
    <3>3. Len(defs') = (idx' - 1) * Share + count'
      <4>1. (idx - 1) * Share \in Nat
        BY <1>4, <1>5
      <4> QED
        BY <1>4, <1>5, <1>9, <3>1, <4>1
    <3> QED
      BY <1>2, <1>5, <3>1, <3>2, <3>3 DEF Spread, TasksOf, NumberOf
  <2> QED
    BY <2>2, <2>3
<1>14. ASSUME stage' \in PassStages PROVE Distributed'
  <2>1. full /\ idx = l /\ count + 1 = Share
    BY <1>1, <1>6, <1>14 DEF PassStages, Refusals
  <2>2. \A q \in 1 .. l : NumberOf(defs', timings[q]) = Share
    BY <1>4, <1>5, <1>12, <2>1
  <2>3. \A d \in {timings'[i] : i \in 1 .. Len(timings')} : NumberOf(defs', d) = Share
    BY <1>2, <2>2
  <2> QED
    BY <1>4, <2>3 DEF Distributed, TasksOf, NumberOf
<1>15. stage' \in {"distribute", "parse"} /\ StrictlyOrdered(timings)' = StrictlyOrdered(timings)
  BY <1>1, <1>2 DEF StrictlyOrdered
<1>16. Len(defs') <= Half
  BY <1>1, <1>4, <1>9
<1> QED
  BY <1>1, <1>2, <1>3, <1>10, <1>11, <1>13, <1>14, <1>15, <1>16 DEF IInv, Automatic, Range

LEMMA DistributedStays ==
  ASSUME Distributed, defs' = defs, timings' = timings, Half' = Half
  PROVE  Distributed'
<1> DEFINE U == {timings[i] : i \in 1 .. Len(timings)}
           V == {timings'[i] : i \in 1 .. Len(timings')}
<1>1. V = U /\ \A d : NumberOf(defs', d) = NumberOf(defs, d)
  OBVIOUS
<1>2. /\ \A d, e \in U : NumberOf(defs, d) > 0 /\ NumberOf(defs, e) > 0
                         => NumberOf(defs, d) = NumberOf(defs, e)
      /\ (\E d \in U : NumberOf(defs, d) = 0) => Half < Len(timings)
  BY DEF Distributed, TasksOf, NumberOf
<1>3. /\ \A d, e \in V : NumberOf(defs', d) > 0 /\ NumberOf(defs', e) > 0
                         => NumberOf(defs', d) = NumberOf(defs', e)
      /\ (\E d \in V : NumberOf(defs', d) = 0) => Half' < Len(timings')
  <2> HIDE DEF U, V
  <2> QED
    BY <1>1, <1>2
<1> QED
  BY <1>3 DEF Distributed, TasksOf, NumberOf

LEMMA SpreadStays ==
  ASSUME Spread, UNCHANGED <<defs, timings, idx, count>>, Share' = Share
  PROVE  Spread'
<1>1. \A q : NumberOf(defs', timings'[q]) = NumberOf(defs, timings[q])
  OBVIOUS
<1>2. /\ idx \in 1 .. Len(timings) /\ count \in 0 .. Share - 1
      /\ \A q \in 1 .. Len(timings) :
           NumberOf(defs, timings[q]) = IF q < idx THEN Share ELSE IF q = idx THEN count ELSE 0
      /\ Len(defs) = (idx - 1) * Share + count
  BY DEF Spread, TasksOf, NumberOf
<1> QED
  BY <1>1, <1>2 DEF Spread, TasksOf, NumberOf

LEMMA OutStep ==
  ASSUME PassInv, Automatic, OutOfHandlers
  PROVE  IInv'
<1> DEFINE l == Len(timings)
<1>1. /\ stage = "distribute" /\ Len(defs) = Half /\ stage' = "parse"
      /\ UNCHANGED <<input, tasks, settings, idx, count>>
  BY DEF OutOfHandlers
<1>2. /\ defs' = defs /\ args' = args /\ dispatchers' = dispatchers /\ timings' = timings
      /\ handlers' = handlers /\ perPriority' = perPriority
      /\ Half' = Half
  BY <1>1 DEF input, settings, Half
<1>3. /\ timings \in Seq(Deadlines) /\ StrictlyOrdered(timings) /\ timings # <<>> /\ Spread
      /\ handlers \in Seq(Range(handlers)) /\ perPriority \in Nat
  BY <1>1 DEF Automatic
<1>4. /\ l \in Nat \ {0} /\ Share \in Nat \ {0} /\ Half \in Nat /\ MaxCount \in Nat
      /\ l * MaxCount <= Half
  BY <1>3, ShareFits
<1>5. /\ idx \in 1 .. l /\ count \in 0 .. Share - 1
      /\ \A q \in 1 .. l :
           TasksOf(timings[q]) = IF q < idx THEN Share ELSE IF q = idx THEN count ELSE 0
      /\ Half = (idx - 1) * Share + count
  BY <1>1, <1>3 DEF Spread
<1>6. MaxCount = 0
  <2>1. SUFFICES ASSUME MaxCount # 0 PROVE FALSE
    OBVIOUS
  <2>2. Share = MaxCount
    BY <2>1 DEF Share
  <2> HIDE DEF l
  <2>3. (idx - 1) * Share + Share = idx * Share
    BY <1>4, <1>5
  <2>4. idx * Share <= l * Share
    BY <1>4, <1>5
  <2>5. (idx - 1) * Share \in Nat /\ idx * Share \in Nat /\ l * Share \in Nat
    BY <1>4, <1>5
  <2> QED
    BY <1>4, <1>5, <2>2, <2>3, <2>4, <2>5
<1>7. Share = 1 /\ count = 0 /\ Half < l
  <2>1. Share = 1
    BY <1>6 DEF Share
  <2> QED
    BY <1>4, <1>5, <2>1
<1>8. \A q \in 1 .. l : TasksOf(timings[q]) \in {0, 1}
  BY <1>5, <1>7
<1>9. Distributed
  BY <1>7, <1>8 DEF Distributed
<1>10. Distributed' /\ WellFormed' /\ StrictlyOrdered(timings)' = StrictlyOrdered(timings)
  <2>1. Distributed'
    BY <1>2, <1>9, DistributedStays
  <2>2. WellFormed'
    BY <1>2 DEF WellFormed, Automatic, Fault
  <2> QED
    BY <1>2, <2>1, <2>2 DEF StrictlyOrdered
<1>11. PassInv'
  BY <1>1, <1>2 DEF PassInv, Range, Refusals
<1> QED
  BY <1>1, <1>2, <1>3, <1>10, <1>11 DEF IInv, Automatic, Range, PassStages

(* A step of the pass stays within its stages, and leaves the application  *)
(* as it is.                                                               *)
LEMMA FaultsRefuse ==
  ASSUME FirstFault # None
  PROVE  FirstFault \in Refusals
<1>1. \A d : Fault(d) # None => Fault(d) \in Refusals
  BY DEF Fault, Refusals
<1>2. FirstTaskFault # None => FirstTaskFault \in Refusals
  BY <1>1 DEF FirstTaskFault
<1> QED
  BY <1>2 DEF FirstFault, Refusals

LEMMA PassStaged ==
  ASSUME PassInv, Next
  PROVE  stage \in PassStages /\ stage' \in PassStages
<1>1. ASSUME Parse PROVE stage = "parse" /\ stage' \in {"assign"} \cup Refusals
  BY <1>1, FaultsRefuse DEF Parse, Refusals
<1>2. ASSUME Assign PROVE stage = "assign" /\ stage' \in {"analyze"} \cup Refusals
  BY <1>2 DEF Assign, Refusals
<1>3. ASSUME Analyze PROVE stage = "analyze" /\ stage' \in {"generate"} \cup Refusals
  <2>1. stage = "analyze" /\ stage' = Verdict
    BY <1>3 DEF Analyze
  <2> QED
    BY <2>1, VerdictFits
<1>4. ASSUME Generate PROVE stage = "generate" /\ stage' \in {"done"} \cup Refusals
  BY <1>4 DEF Generate, Refusals
<1>5. ASSUME Finished PROVE stage \in Refusals \cup {"done"} /\ stage' = stage
  BY <1>5 DEF Finished, vars
<1> QED
  BY <1>1, <1>2, <1>3, <1>4, <1>5 DEF Next, PassStages

LEMMA CompileStep ==
  ASSUME IInv, [Next]_vars, UNCHANGED <<settings, idx, count>>
  PROVE  IInv'
<1>1. PassInv'
  BY PassStep DEF IInv
<1>2. /\ defs' = defs /\ args' = args /\ dispatchers' = dispatchers /\ timings' = timings
      /\ handlers' = handlers /\ perPriority' = perPriority /\ idx' = idx /\ count' = count
  BY DEF settings, Next, vars, input, Parse, Assign, Analyze, Generate, Finished
<1>3. Half' = Half /\ MaxCount' = MaxCount /\ Share' = Share
  BY <1>2 DEF Half, MaxCount, Share
<1>4. stage' = stage \/ (stage \in PassStages /\ stage' \in PassStages)
  BY PassStaged DEF IInv, vars
<1>5. ASSUME HandMade PROVE HandMade'
  BY <1>2, <1>4, <1>5 DEF HandMade
<1>6. ASSUME Automatic PROVE Automatic'
  <2>1. WellFormed' /\ StrictlyOrdered(timings)' = StrictlyOrdered(timings)
    BY <1>2, <1>6 DEF WellFormed, StrictlyOrdered, Automatic, Fault
  <2>2. "settings" \notin PassStages /\ "distribute" \notin PassStages
    BY DEF PassStages, Refusals
  <2>3. ASSUME stage' = "distribute" PROVE Spread'
    <3>1. stage = "distribute"
      BY <1>4, <2>2, <2>3
    <3> QED
      BY <1>2, <1>3, <1>6, <3>1, SpreadStays DEF Automatic
  <2>4. ASSUME stage' \in PassStages PROVE Distributed'
    <3>1. stage \in PassStages
      BY <1>4, <2>4
    <3> QED
      BY <1>2, <1>3, <1>6, <3>1, DistributedStays DEF Automatic
  <2>5. /\ stage' = "settings" => stage = "settings"
        /\ stage' \in {"distribute"} \cup PassStages => stage \in {"distribute"} \cup PassStages
    BY <1>4, <2>2
  <2> QED
    BY <1>2, <1>3, <1>6, <2>1, <2>3, <2>4, <2>5 DEF Automatic, Range
<1> QED
  BY <1>1, <1>5, <1>6 DEF IInv

LEMMA InvariantStep == IInv /\ [BenchNext]_benchVars => IInv'
<1> SUFFICES ASSUME IInv, [BenchNext]_benchVars PROVE IInv'
  OBVIOUS
<1>1. stage \in {"settings", "distribute"} => Automatic
  BY DEF IInv, HandMade, PassStages, Refusals
<1>2. CASE CheckSettings
  BY <1>1, <1>2, SettingsStep DEF CheckSettings, IInv
<1>3. CASE Distribute
  BY <1>1, <1>3, DistributeStep DEF Distribute, IInv
<1>4. CASE OutOfHandlers
  BY <1>1, <1>4, OutStep DEF OutOfHandlers, IInv
<1>5. CASE Compile
  BY <1>5, CompileStep DEF Compile
<1>6. CASE UNCHANGED benchVars
  BY <1>6, CompileStep DEF benchVars, settings
<1> QED
  BY <1>2, <1>3, <1>4, <1>5, <1>6 DEF BenchNext, Rejected

LEMMA Invariance == BenchSpec => []IInv
<1> QED
  BY InvariantInit, InvariantStep, PTL DEF BenchSpec

----------------------------------------------------------------------------
(* What an application that compiled is.                                   *)

LEMMA DoneIsLaid ==
  ASSUME PassInv, stage = "done"
  PROVE  /\ Laid /\ Fits /\ EnoughDispatchers
         /\ Len(defs) \in Nat /\ DOMAIN defs = 1 .. Len(defs)
         /\ DOMAIN tasks = 1 .. Len(defs)
         /\ Cardinality({defs[i].deadline : i \in DOMAIN defs}) \in Nat
<1>1. Laid /\ Fits /\ FirstFault = None /\ EnoughDispatchers /\ defs \in Seq(TaskDef)
  BY DEF PassInv
<1> QED
  BY <1>1, DeadlinesCounted DEF Laid

(* Two tasks of a compiled application: the shorter relative deadline has  *)
(* the higher dispatcher priority, and conversely.                         *)
THEOREM PrioritiesByDeadline == BenchSpec => []ShorterIsHigher
<1>1. IInv => ShorterIsHigher
  BY DEF IInv, PassInv, Laid, PrioritiesFollow, ShorterIsHigher
<1> QED
  BY <1>1, Invariance, PTL

(* The run queue indexes of a compiled application are exactly those of    *)
(* the array of run queue slots, and only tasks of one deadline share one. *)
THEOREM SlotsIndexed == BenchSpec => []RunQueueIndexed
<1>1. IInv => RunQueueIndexed
  <2> SUFFICES ASSUME PassInv, stage = "done"
               PROVE  /\ {tasks[k].rq_idx : k \in DOMAIN tasks} = 0 .. RunQueueLen - 1
                      /\ \A j, k \in DOMAIN tasks :
                           tasks[j].rq_idx = tasks[k].rq_idx => tasks[j].deadline = tasks[k].deadline
    BY DEF IInv, RunQueueIndexed
  <2> DEFINE m == Cardinality({defs[i].deadline : i \in DOMAIN defs})
             P == DispatcherPriorities
  <2>1. m \in Nat /\ P = 1 .. m /\ EachAssigned /\ PrioritiesFollow
    BY DoneIsLaid DEF Laid
  <2> HIDE DEF m
  <2>2. RunQueueLen = m
    BY <2>1, IntervalSize DEF RunQueueLen
  <2>3. {tasks[k].rq_idx : k \in DOMAIN tasks} = {p - 1 : p \in P}
    <3>1. \A k \in DOMAIN tasks : tasks[k].rq_idx = tasks[k].dispatcher_priority - 1
      BY <2>1 DEF EachAssigned
    <3> QED
      BY <3>1 DEF DispatcherPriorities
  <2>4. {p - 1 : p \in 1 .. m} = 0 .. m - 1
    <3>1. ASSUME NEW i \in 0 .. m - 1 PROVE \E p \in 1 .. m : i = p - 1
      <4>1. i + 1 \in 1 .. m /\ i = (i + 1) - 1
        BY <2>1
      <4> QED
        BY <4>1
    <3> QED
      BY <2>1, <3>1
  <2>5. ASSUME NEW j \in DOMAIN tasks, NEW k \in DOMAIN tasks, tasks[j].rq_idx = tasks[k].rq_idx
        PROVE  tasks[j].deadline = tasks[k].deadline
    <3>1. tasks[j].dispatcher_priority = tasks[k].dispatcher_priority
      BY <2>1, <2>5 DEF EachAssigned
    <3> QED
      BY <2>1, <3>1 DEF PrioritiesFollow
  <2> QED
    BY <2>1, <2>2, <2>3, <2>4, <2>5
<1> QED
  BY <1>1, Invariance, PTL

(* Every task of a compiled application has a place of its own in the      *)
(* arrays its index leads to, which name its dispatcher; an interrupt of   *)
(* its own if the list of dispatchers names none twice.                    *)
THEOREM OneDispatcherEach == BenchSpec => []DispatchersOwned
<1>1. IInv => DispatchersOwned
  <2> SUFFICES ASSUME PassInv, stage = "done" PROVE DispatchersOwned
    BY DEF IInv, DispatchersOwned
  <2> DEFINE n == Len(defs)
  <2>1. /\ n \in Nat /\ DOMAIN defs = 1 .. n /\ DOMAIN tasks = 1 .. n
        /\ Laid /\ EachAssigned /\ EnoughDispatchers
    BY DoneIsLaid DEF Laid
  <2>2. /\ dispatchers \in Seq(Range(dispatchers))
        /\ Len(dispatchers) >= n /\ Len(dispatchers) \in Nat
    BY <2>1 DEF PassInv, EnoughDispatchers
  <2> HIDE DEF n
  <2>3. 1 .. n \subseteq DOMAIN dispatchers
    BY <2>1, <2>2
  <2>4. {tasks[k].def : k \in DOMAIN tasks} = DOMAIN defs
    <3>1. \A k \in DOMAIN tasks : tasks[k].def \in DOMAIN defs
      BY <2>1 DEF EachAssigned
    <3>2. \A x \in DOMAIN defs : \E k \in DOMAIN tasks : tasks[k].def = x
      BY <2>1 DEF Laid
    <3> QED
      BY <3>1, <3>2
  <2>5. DOMAIN EdfDispatchers = 1 .. n /\ \A k \in 1 .. n : EdfDispatchers[k] = tasks[k].dispatcher
    BY <2>1 DEF EdfDispatchers
  <2>6. ASSUME NEW k \in DOMAIN tasks
        PROVE  tasks[k].dispatcher = dispatchers[k] /\ tasks[k].dispatcher_idx + 1 = k
    BY <2>1 DEF EachAssigned
  <2>7. ASSUME IsInjective(dispatchers) PROVE IsInjective(EdfDispatchers)
    BY <2>1, <2>3, <2>5, <2>6, <2>7 DEF IsInjective
  <2>8. ASSUME NEW j \in DOMAIN tasks, NEW k \in DOMAIN tasks,
               tasks[j].dispatcher_idx = tasks[k].dispatcher_idx
        PROVE  j = k
    BY <2>6, <2>8
  <2> QED
    BY <2>1, <2>3, <2>4, <2>5, <2>6, <2>7, <2>8 DEF DispatchersOwned
<1> QED
  BY <1>1, Invariance, PTL

(* The pass compiles the applications that fit the platform, the width of  *)
(* its indexes and the form it asks of names, and no other.                *)
THEOREM RightlyAccepted == BenchSpec => []AcceptsWhatFits
<1>1. IInv => AcceptsWhatFits
  BY DEF IInv, PassInv, AcceptsWhatFits, Refusals
<1> QED
  BY <1>1, Invariance, PTL

(* The generator spreads its tasks equally over the deadlines that have    *)
(* any, and leaves one without only where the handlers are too few.        *)
THEOREM SpreadEqually == BenchSpec => []EquallyDistributed
<1>1. IInv => EquallyDistributed
  <2> SUFFICES ASSUME IInv, IsGenerated PROVE EquallyDistributed
    BY DEF EquallyDistributed
  <2>1. Distributed
    BY DEF IInv, HandMade, Automatic, IsGenerated, PassStages
  <2> QED
    BY <2>1 DEF Distributed, EquallyDistributed
<1> QED
  BY <1>1, Invariance, PTL

(* A generated application that has a task, fewer deadlines than the       *)
(* platform has levels, and no more tasks than a u16 can index compiles: it*)
(* never lacks dispatchers and none of its tasks is malformed.             *)
THEOREM GeneratedCompiles ==
  ASSUME MinPriority <= 1
  PROVE  BenchSpec => []BenchmarkCompiles
<1>1. IInv => BenchmarkCompiles
  <2> SUFFICES ASSUME IInv, timings # None, stage \in Refusals \cup {"done"}
               PROVE  stage = "done" <=>
                        /\ defs # <<>> /\ Len(defs) - 1 <= U16Max
                        /\ Cardinality({defs[i].deadline : i \in DOMAIN defs}) < MaxPriority
    BY DEF BenchmarkCompiles
  <2>1. Automatic /\ PassInv
    BY DEF IInv, HandMade
  <2>2. FirstFault = None
    BY <2>1, NoFault DEF Automatic, WellFormed
  <2>3. Len(dispatchers) >= Len(defs)
    <3>1. /\ Half \in 0 .. Len(handlers) /\ Half <= Len(handlers) - Half
          /\ Len(handlers) \in Nat /\ Len(defs) \in Nat
          /\ Len(defs) <= Half /\ Len(dispatchers) = Len(handlers) - Half
      BY <2>1, HalfFits DEF Automatic, PassInv
    <3> QED
      BY <3>1
  <2>4. ASSUME NEW i \in DOMAIN defs
        PROVE  defs[i].binds = "identifier" /\ dispatchers[i] # Qualified
    <3>1. defs[i].binds = "identifier" /\ Qualified \notin Range(dispatchers)
      BY <2>1 DEF Automatic, WellFormed
    <3>2. /\ Len(defs) \in Nat /\ DOMAIN defs = 1 .. Len(defs)
          /\ Len(dispatchers) \in Nat /\ DOMAIN dispatchers = 1 .. Len(dispatchers)
      BY <2>1 DEF PassInv
    <3>3. i \in DOMAIN dispatchers
      BY <2>3, <3>2
    <3> QED
      BY <3>1, <3>3 DEF Range
  <2>5. stage = "done" <=> Fits
    BY <2>1 DEF PassInv, Refusals
  <2> QED
    BY <2>2, <2>3, <2>4, <2>5 DEF Fits, Placeable
<1> QED
  BY <1>1, Invariance, PTL
=============================================================================
