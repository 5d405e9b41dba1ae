----------------------------- MODULE CpqProofs -----------------------------
(***************************************************************************)
(* Proofs about the queue, for any callers, items and capacity.            *)
(***************************************************************************)
EXTENDS CpqInv, LeastNumber, FiniteSetTheorems, TLAPS

----------------------------------------------------------------------------
(* The list.                                                               *)

LEMMA NoneApart ==
  None \notin Nodes /\ None \notin Items /\ None \notin Traversal /\ Nodes \subseteq Nat
  /\ (Nodes # {} => 0 \in Nodes) /\ (Capacity > 0 => 0 \in Nodes)
<1>1. Capacity \in Nat /\ None \notin Items /\ None \notin Nat /\ None \notin Traversal
  BY CpqAssumption
<1>2. Nodes \subseteq Nat
  BY <1>1 DEF Nodes
<1>3. (Nodes # {} => 0 \in Nodes) /\ (Capacity > 0 => 0 \in Nodes)
  BY <1>1 DEF Nodes
<1> QED
  BY <1>1, <1>2, <1>3

(* The walk from the first node of a list passes its nodes in their order  *)
(* and then stands still: what the recursion over the links computes.      *)
LEMMA WalkStrung ==
  ASSUME NEW n \in Nat, NEW s \in [1 .. n -> Nodes], NEW p,
         None \notin Nodes, Strung(next, p, n, s)
  PROVE  Walk(p) = [i \in Nat |-> IF i < n THEN s[i + 1] ELSE None]
<1> DEFINE F(at) == [i \in Nat |-> IF i = 0 THEN p
                                   ELSE IF at[i - 1] = None THEN None ELSE next[at[i - 1]]]
           w == [i \in Nat |-> IF i < n THEN s[i + 1] ELSE None]
<1>1. \A i \in Nat : w[i] = IF i < n THEN s[i + 1] ELSE None
  OBVIOUS
<1>2. w[0] = p
  BY <1>1 DEF Strung
<1>3. ASSUME NEW i \in Nat, i # 0
      PROVE  w[i] = IF w[i - 1] = None THEN None ELSE next[w[i - 1]]
  <2>1. CASE i - 1 < n
    <3>1. w[i - 1] = s[i] /\ s[i] \in Nodes
      BY <2>1, <1>1, <1>3
    <3>2. next[s[i]] = IF i = n THEN None ELSE s[i + 1]
      BY <2>1, <1>3 DEF Strung
    <3> QED
      BY <3>1, <3>2, <2>1, <1>1, <1>3
  <2>2. CASE ~(i - 1 < n)
    BY <2>2, <1>1, <1>3
  <2> QED
    BY <2>1, <2>2
<1>4. w = F(w)
  <2> HIDE DEF w
  <2>1. \A i \in Nat : w[i] = F(w)[i]
    BY <1>2, <1>3
  <2>2. w = [i \in Nat |-> w[i]]
    BY DEF w
  <2> QED
    BY <2>1, <2>2
<1>5. ASSUME NEW at, at = F(at) PROVE at = w
  <2> DEFINE T == {i \in Nat : at[i] # w[i]}
  <2>1. CASE T = {}
    <3>1. at = [i \in Nat |-> at[i]] /\ w = [i \in Nat |-> w[i]]
      BY <1>5
    <3>2. \A i \in Nat : at[i] = w[i]
      BY <2>1, Zenon
    <3> HIDE DEF w
    <3> QED
      BY <3>1, <3>2
  <2>2. CASE T # {}
    <3> HIDE DEF w
    <3>1. PICK m \in T : \A k \in T : m <= k
      <4> HIDE DEF T
      <4>1. T \subseteq Nat
        BY DEF T
      <4> QED
        BY <4>1, <2>2, LeastExists
    <3>2. m \in Nat /\ at[m] # w[m]
      OBVIOUS
    <3>3. at[m] = IF m = 0 THEN p
                  ELSE IF at[m - 1] = None THEN None ELSE next[at[m - 1]]
      BY <1>5, <3>2
    <3>4. m # 0
      BY <3>3, <3>2, <1>2
    <3>5. at[m - 1] = w[m - 1]
      <4>1. m - 1 \in Nat /\ ~(m <= m - 1)
        BY <3>2, <3>4
      <4>2. m - 1 \notin T
        BY <3>1, <4>1, Zenon
      <4> QED
        BY <4>1, <4>2
    <3> QED
      BY <3>2, <3>3, <3>4, <3>5, <1>3
  <2> QED
    BY <2>1, <2>2
<1>6. Walk(p) = CHOOSE at : at = F(at)
  BY DEF Walk
<1> HIDE DEF F, w
<1>7. Walk(p) = w
  BY <1>4, <1>5, <1>6
<1> QED
  BY <1>7 DEF w

LEMMA ChainStrung ==
  ASSUME NEW n \in 0 .. Capacity, NEW s \in [1 .. n -> Nodes], NEW p,
         Strung(next, p, n, s)
  PROVE  Chain(p) = {s[i] : i \in 1 .. n}
<1>1. None \notin Nodes /\ n \in Nat
  BY CpqAssumption, NoneApart
<1>2. Walk(p) = [i \in Nat |-> IF i < n THEN s[i + 1] ELSE None]
  BY <1>1, WalkStrung
<1>3. \A i \in 0 .. Capacity : Walk(p)[i] = IF i < n THEN s[i + 1] ELSE None
  BY <1>2, CpqAssumption
<1>4. ASSUME NEW x \in Chain(p) PROVE \E i \in 1 .. n : x = s[i]
  <2>1. PICK i \in 0 .. Capacity : x = Walk(p)[i] /\ x # None
    BY DEF Chain
  <2>2. i < n /\ x = s[i + 1]
    BY <2>1, <1>3
  <2>3. i + 1 \in 1 .. n
    BY <2>2
  <2> QED
    BY <2>2, <2>3
<1>5. ASSUME NEW i \in 1 .. n PROVE s[i] \in Chain(p)
  <2>1. i - 1 \in 0 .. Capacity /\ i - 1 < n /\ (i - 1) + 1 = i
    BY CpqAssumption
  <2>2. Walk(p)[i - 1] = s[i]
    BY <2>1, <1>3
  <2>3. s[i] # None
    BY <1>1
  <2> QED
    BY <2>1, <2>2, <2>3 DEF Chain
<1> QED
  BY <1>4, <1>5

LEMMA LengthStrung ==
  ASSUME NEW n \in 0 .. Capacity, NEW s \in [1 .. n -> Nodes],
         Strung(next, head, n, s)
  PROVE  QueueLen = n /\ Cardinality({s[i] : i \in 1 .. n}) = n
<1>1. None \notin Nodes /\ n \in Nat
  BY CpqAssumption, NoneApart
<1>2. Walk(head) = [i \in Nat |-> IF i < n THEN s[i + 1] ELSE None]
  BY <1>1, WalkStrung
<1>3. \A i \in 0 .. Capacity : Walk(head)[i] = IF i < n THEN s[i + 1] ELSE None
  BY <1>2, CpqAssumption
<1>4. \A i \in 0 .. Capacity : i < n => s[i + 1] # None
  BY <1>1
<1>5. {i \in 0 .. Capacity : Walk(head)[i] # None} = 0 .. n - 1
  BY <1>3, <1>4, CpqAssumption
<1>6. QueueLen = n
  <2>1. Cardinality(0 .. n - 1) = n
    BY <1>1, FS_Interval
  <2> QED
    BY <1>5, <2>1 DEF QueueLen
<1>7. Cardinality({s[i] : i \in 1 .. n}) = n
  <2> DEFINE S == {s[i] : i \in 1 .. n}
  <2>1. s \in [1 .. n -> S]
    OBVIOUS
  <2>2. \A i, j \in 1 .. n : s[i] = s[j] => i = j
    BY DEF Strung
  <2>3. \A x \in S : \E i \in 1 .. n : s[i] = x
    OBVIOUS
  <2>4. ExistsBijection(1 .. n, S)
    BY <2>1, <2>2, <2>3 DEF ExistsBijection, Bijection, Injection, Surjection, IsInjective
  <2> HIDE DEF S
  <2>5. Cardinality(S) = n
    BY <2>4, <1>1, FS_CountingElements
  <2> QED
    BY <2>5 DEF S
<1> QED
  BY <1>6, <1>7

----------------------------------------------------------------------------
(* Types.                                                                  *)

LEMMA TypeInit == Init => TypeOK
<1> SUFFICES ASSUME Init PROVE TypeOK
  OBVIOUS
<1>1. next \in [Nodes -> Pointers]
  BY CpqAssumption DEF Init, Nodes, Pointers
<1> QED
  BY <1>1 DEF Init, TypeOK, Pointers

LEMMA TypeStep == TypeOK /\ [Next]_vars => TypeOK'
<1> SUFFICES ASSUME TypeOK, [Next]_vars PROVE TypeOK'
  OBVIOUS
<1> USE DEF TypeOK
<1>1. None \notin Nodes /\ None \notin Items
  BY NoneApart
<1>2. ASSUME NEW c \in Callers, NEW x \in Items, Insert(c, x) PROVE TypeOK'
  <2>1. CASE InsertFull(c)
    BY <1>2, <2>1 DEF Insert, InsertFull, Returns, list
  <2>2. CASE InsertAtTail(c, x)
    <3>1. free \in Nodes
      <4>1. free \in Nodes \cup {0} /\ Capacity > 0
        BY <2>2 DEF InsertAtTail, Pointers
      <4>2. 0 \in Nodes
        BY <4>1, NoneApart
      <4> QED
        BY <4>1, <4>2
    <3>2. {head', tail', min'} \subseteq Pointers /\ free' \in Pointers
      BY <2>2, <3>1 DEF InsertAtTail, MinAfterInsert, Pointers
    <3>3. value' \in [Nodes -> Items \cup {None}] /\ next' \in [Nodes -> Pointers]
      BY <2>2, <3>1 DEF InsertAtTail, Pointers
    <3>4. answer' \in [Callers -> Items \cup {None, "inserted", "queue full"}]
      BY <2>2 DEF InsertAtTail, Returns
    <3> QED
      BY <1>2, <3>2, <3>3, <3>4 DEF Insert
  <2> QED
    BY <1>2, <2>1, <2>2 DEF Insert
<1>3. ASSUME NEW c \in Callers, PopEmpty(c) PROVE TypeOK'
  BY <1>3 DEF PopEmpty, Returns, list
<1>4. ASSUME NEW c \in Callers, PopSingleton(c) PROVE TypeOK'
  <2>1. head \in Nodes /\ 0 \in Nodes
    BY <1>4, NoneApart DEF PopSingleton, Pointers
  <2>2. free \in Pointers
    BY <2>1 DEF Pointers
  <2> QED
    BY <1>4, <2>1, <2>2 DEF PopSingleton, MoveOut, Returns, Pointers
<1>5. ASSUME NEW c \in Callers, PopBegin(c) PROVE TypeOK'
  <2>1. trav' \in Traversal \cup {None}
    <3>1. CASE trav # None /\ UNCHANGED trav
      BY <3>1
    <3>2. CASE trav = None /\ head # None /\ next[head] # None /\ trav' = FirstTwo
      <4>1. head \in Nodes /\ next[head] \in Nodes
        BY <3>2 DEF Pointers
      <4> QED
        BY <3>2, <4>1 DEF FirstTwo, Traversal
    <3> QED
      BY <1>5, <3>1, <3>2 DEF PopBegin
  <2> QED
    BY <1>5, <2>1 DEF PopBegin, list
<1>6. ASSUME NEW c \in Callers, PopAdvance(c) PROVE TypeOK'
  <2>1. trav \in Traversal
    BY <1>6 DEF PopAdvance
  <2>2. next[trav.cursor] \in Nodes
    BY <1>6, <2>1 DEF PopAdvance, Pointers, Traversal
  <2>3. Visited(next[trav.cursor]) \in Traversal
    BY <2>1, <2>2 DEF Visited, Traversal
  <2>4. trav' \in Traversal
    BY <1>6, <2>1, <2>2, <2>3 DEF PopAdvance, Traversal
  <2> QED
    BY <1>6, <2>4 DEF PopAdvance, list
<1>7. ASSUME NEW c \in Callers, PopRemove(c) PROVE TypeOK'
  <2>1. trav \in Traversal
    BY <1>7 DEF PopRemove
  <2>2. {trav.min, trav.second, trav.prev} \subseteq Nodes /\ 0 \in Nodes
    BY <2>1, NoneApart DEF Traversal
  <2>3. free \in Pointers
    BY <2>2 DEF Pointers
  <2>4. {head', tail', min', free'} \subseteq Pointers
    <3>1. head' \in Pointers
      BY <1>7, <2>2 DEF PopRemove
    <3>2. free' \in Pointers /\ min' \in Pointers
      BY <1>7, <2>2 DEF PopRemove, MoveOut, Pointers
    <3>3. tail' \in Pointers
      BY <1>7, <2>2 DEF PopRemove, TailWithout, Pointers
    <3> QED
      BY <3>1, <3>2, <3>3
  <2>5. value' \in [Nodes -> Items \cup {None}] /\ next' \in [Nodes -> Pointers]
    BY <1>7, <2>2, <2>3 DEF PopRemove, MoveOut
  <2>6. answer' \in [Callers -> Items \cup {None, "inserted", "queue full"}]
    BY <1>7, <2>2 DEF PopRemove, Returns
  <2> QED
    BY <1>7, <2>4, <2>5, <2>6 DEF PopRemove, EndTraversal
<1>8. ASSUME NEW c \in Callers, PopRobbed(c) PROVE TypeOK'
  BY <1>8 DEF PopRobbed, Returns, list
<1>9. CASE UNCHANGED vars
  BY <1>9 DEF vars, list
<1> QED
  BY <1>2, <1>3, <1>4, <1>5, <1>6, <1>7, <1>8, <1>9 DEF Next, PopStep

(* Every pointer is a node, every answer an item or a result of the        *)
(* operation, whatever the callers do.                                     *)
THEOREM TypeCorrect == Spec => []TypeOK
BY TypeInit, TypeStep, PTL DEF Spec

----------------------------------------------------------------------------
(* The order of the nodes.                                                 *)

LEMMA NoNodes ==
  ASSUME TypeOK, ~(Capacity > 0)
  PROVE  Nodes = {} /\ head = None /\ tail = None /\ min = None /\ trav = None
<1>1. Nodes = {}
  BY CpqAssumption DEF Nodes
<1>2. head = None /\ tail = None /\ min = None
  BY <1>1 DEF TypeOK, Pointers
<1>3. \A t \in Traversal : t.min \in Nodes
  BY DEF Traversal
<1>4. trav = None
  BY <1>1, <1>3 DEF TypeOK
<1> QED
  BY <1>1, <1>2, <1>4

LEMMA StoredArranged ==
  ASSUME NEW n \in 0 .. Capacity, NEW s \in [1 .. n -> Nodes], Strung(next, head, n, s)
  PROVE  Stored = {value[s[i]] : i \in 1 .. n}
<1>1. Chain(head) = {s[i] : i \in 1 .. n}
  BY ChainStrung
<1> QED
  BY <1>1 DEF Stored

(* The two lists when the first free node goes to the end of the queue.    *)
Appended(n, s, x) == [i \in 1 .. n + 1 |-> IF i <= n THEN s[i] ELSE x]

Rest(m, f) == [j \in 1 .. m |-> f[j + 1]]

(* The order of the nodes before and after an insert. *)
InsertOrders(x, n, s, t, g) ==
  /\ Strung(next, head, n, s)
  /\ Arranged(n + 1, t, g)'
  /\ \A i \in 1 .. n : value'[t[i]] = value[s[i]]
  /\ value'[t[n + 1]] = x

LEMMA InsertArranged ==
  ASSUME IInv, NEW c \in Callers, NEW x \in Items, Insert(c, x), InsertAtTail(c, x)
  PROVE  \E n \in 0 .. Capacity - 1 :
           \E s \in [1 .. n -> Nodes], t \in [1 .. n + 1 -> Nodes],
              g \in [1 .. Capacity - (n + 1) -> Nodes] : InsertOrders(x, n, s, t, g)
<1>a. TypeOK /\ Capacity > 0
  BY DEF IInv, InsertAtTail
<1>b. PICK n \in 0 .. Capacity :
        \E s \in [1 .. n -> Nodes], f \in [1 .. Capacity - n -> Nodes] : Arranged(n, s, f)
  BY <1>a DEF IInv
<1>c. PICK s \in [1 .. n -> Nodes], f \in [1 .. Capacity - n -> Nodes] : Arranged(n, s, f)
  BY <1>b
<1>d. PICK t, g : t = Appended(n, s, f[1]) /\ g = Rest(Capacity - (n + 1), f)
  OBVIOUS
<1> USE <1>a, <1>c, <1>d
<1> DEFINE m == Capacity - n
<1>0. n \in Nat /\ Capacity \in Nat /\ None \notin Nodes /\ None \notin Items
  BY CpqAssumption, NoneApart
<1>1. /\ \A i, j \in 1 .. n : s[i] = s[j] => i = j
      /\ head = IF n = 0 THEN None ELSE s[1]
      /\ \A i \in 1 .. n : next[s[i]] = IF i = n THEN None ELSE s[i + 1]
  BY DEF Arranged, Threaded, Strung
<1>2. /\ \A i, j \in 1 .. m : f[i] = f[j] => i = j
      /\ free = IF m = 0 THEN None ELSE f[1]
      /\ \A i \in 1 .. m : next[f[i]] = IF i = m THEN None ELSE f[i + 1]
  BY DEF Arranged, Threaded, Strung
<1>3. /\ \A i \in 1 .. n : \A j \in 1 .. m : s[i] # f[j]
      /\ \A y \in Nodes : (\E i \in 1 .. n : s[i] = y) \/ (\E j \in 1 .. m : f[j] = y)
  BY DEF Arranged, Threaded
<1>4. /\ \A i \in 1 .. n : value[s[i]] \in Items
      /\ \A i, j \in 1 .. n : value[s[i]] = value[s[j]] => i = j
      /\ \A j \in 1 .. m : value[f[j]] = None
      /\ tail = IF n = 0 THEN None ELSE s[n]
      /\ IF n = 0 THEN min = None ELSE \E i \in 1 .. n : min = s[i]
  BY DEF Arranged, Filled
<1>5. m \in Nat /\ m >= 1 /\ free = f[1] /\ f[1] \in Nodes
  <2>1. m \in Nat /\ m # 0
    BY <1>0, <1>2 DEF InsertAtTail
  <2>2. f[1] \in Nodes
    BY <2>1
  <2> QED
    BY <1>2, <2>1, <2>2
<1>6. n + 1 \in 0 .. Capacity /\ Capacity - (n + 1) = m - 1
  BY <1>0, <1>5
<1>7. /\ t \in [1 .. n + 1 -> Nodes]
      /\ \A i \in 1 .. n : t[i] = s[i] /\ i \in 1 .. n + 1
      /\ t[n + 1] = f[1] /\ n + 1 \in 1 .. n + 1
      /\ \A i \in 1 .. n + 1 : i \in 1 .. n \/ i = n + 1
  BY <1>0, <1>5 DEF Appended
<1>8. /\ g \in [1 .. m - 1 -> Nodes]
      /\ \A j \in 1 .. m - 1 : g[j] = f[j + 1] /\ j + 1 \in 1 .. m /\ j + 1 # 1
      /\ 1 \in 1 .. m
      /\ \A j \in 1 .. m : j = 1 \/ (j - 1 \in 1 .. m - 1 /\ f[j] = g[j - 1])
  BY <1>5, <1>6 DEF Rest
<1>8a. /\ \A i \in 1 .. n : s[i] # f[1] /\ s[i] \in Nodes
       /\ \A j \in 1 .. m - 1 : g[j] # f[1] /\ g[j] \in Nodes
  <2>1. \A i \in 1 .. n : s[i] # f[1] /\ s[i] \in Nodes
    BY <1>3, <1>8
  <2>2. ASSUME NEW j \in 1 .. m - 1 PROVE g[j] # f[1] /\ g[j] \in Nodes
    <3>1. j + 1 \in 1 .. m /\ g[j] = f[j + 1] /\ 1 \in 1 .. m /\ j + 1 # 1
      BY <1>8
    <3>2. f[j + 1] # f[1]
      BY <3>1, <1>2
    <3> QED
      BY <3>1, <3>2, <1>8
  <2> QED
    BY <2>1, <2>2
<1>9. /\ \A y \in Nodes : next'[y] = IF y = f[1] THEN None
                                     ELSE IF y = tail THEN f[1] ELSE next[y]
      /\ \A y \in Nodes : value'[y] = IF y = f[1] THEN x ELSE value[y]
      /\ head' = IF tail = None THEN f[1] ELSE head
      /\ tail' = f[1]
      /\ free' = next[f[1]]
      /\ min' = f[1] \/ (tail # None /\ min' = min)
      /\ trav' = trav
  BY <1>5 DEF InsertAtTail, Insert, MinAfterInsert, TypeOK
<1>9a. \A i \in 1 .. n : value'[t[i]] = value[s[i]]
  BY <1>7, <1>8a, <1>9
<1> HIDE DEF m
<1>10. Strung(next, head, n + 1, t)'
  <2>1. \A i, j \in 1 .. n + 1 : t[i] = t[j] => i = j
    BY <1>1, <1>3, <1>7, <1>8
  <2>2. head' = t[1]
    <3>1. CASE n = 0
      BY <3>1, <1>4, <1>7, <1>9
    <3>2. CASE n # 0
      <4>1. 1 \in 1 .. n /\ n \in 1 .. n
        BY <3>2, <1>0
      <4>2. tail # None /\ head = s[1]
        BY <3>2, <4>1, <1>0, <1>1, <1>4
      <4> QED
        BY <4>1, <4>2, <1>7, <1>9
    <3> QED
      BY <3>1, <3>2
  <2>3. ASSUME NEW i \in 1 .. n, i # n PROVE next'[t[i]] = t[i + 1]
    <3>1. i + 1 \in 1 .. n /\ n \in 1 .. n
      BY <2>3, <1>0
    <3>2. s[i] # f[1] /\ s[i] \in Nodes
      BY <1>8a
    <3>3. s[i] # tail
      BY <2>3, <3>1, <1>1, <1>4
    <3>4. next'[s[i]] = s[i + 1]
      BY <3>2, <3>3, <2>3, <1>1, <1>9
    <3> QED
      BY <3>1, <3>4, <1>7
  <2>4. n # 0 => next'[t[n]] = t[n + 1]
    <3> SUFFICES ASSUME n # 0 PROVE next'[t[n]] = t[n + 1]
      OBVIOUS
    <3>1. n \in 1 .. n
      BY <1>0
    <3>2. tail = s[n] /\ s[n] # f[1] /\ s[n] \in Nodes
      BY <3>1, <1>3, <1>4, <1>8
    <3> QED
      BY <3>1, <3>2, <1>7, <1>9
  <2>5. next'[t[n + 1]] = None
    BY <1>5, <1>7, <1>9
  <2>6. \A i \in 1 .. n + 1 : next'[t[i]] = IF i = n + 1 THEN None ELSE t[i + 1]
    <3> SUFFICES ASSUME NEW i \in 1 .. n + 1
                 PROVE  next'[t[i]] = IF i = n + 1 THEN None ELSE t[i + 1]
      OBVIOUS
    <3>1. CASE i = n + 1
      BY <3>1, <2>5
    <3>2. CASE i = n
      BY <3>2, <1>0, <2>4
    <3>3. CASE i \in 1 .. n /\ i # n
      <4>1. i # n + 1
        BY <3>3, <1>0
      <4>2. next'[t[i]] = t[i + 1]
        BY <3>3, <2>3
      <4> QED
        BY <4>1, <4>2
    <3> QED
      BY <3>1, <3>2, <3>3, <1>7
  <2> QED
    <3>1. head' = IF n + 1 = 0 THEN None ELSE t[1]
      BY <2>2, <1>0
    <3> QED
      BY <2>1, <2>6, <3>1 DEF Strung
<1>11. Strung(next, free, m - 1, g)'
  <2>1. ASSUME NEW i \in 1 .. m - 1, NEW j \in 1 .. m - 1, g[i] = g[j] PROVE i = j
    <3>1. g[i] = f[i + 1] /\ i + 1 \in 1 .. m /\ g[j] = f[j + 1] /\ j + 1 \in 1 .. m
      BY <1>8
    <3>2. i + 1 = j + 1
      BY <2>1, <3>1, <1>2
    <3> QED
      BY <3>2
  <2>2. free' = IF m - 1 = 0 THEN None ELSE g[1]
    BY <1>2, <1>5, <1>8, <1>9
  <2>3. ASSUME NEW j \in 1 .. m - 1
        PROVE  next'[g[j]] = IF j = m - 1 THEN None ELSE g[j + 1]
    <3>1. g[j] = f[j + 1] /\ g[j] # f[1] /\ g[j] \in Nodes /\ j + 1 \in 1 .. m
      BY <1>8, <1>8a
    <3>2. g[j] # tail
      <4>1. CASE n = 0
        BY <4>1, <1>0, <1>4, <3>1
      <4>2. CASE n # 0
        <5>1. n \in 1 .. n /\ tail = s[n]
          BY <4>2, <1>0, <1>4
        <5> QED
          BY <5>1, <3>1, <1>3
      <4> QED
        BY <4>1, <4>2
    <3>3. next'[g[j]] = next[f[j + 1]]
      BY <3>1, <3>2, <1>9
    <3>4. next[f[j + 1]] = IF j + 1 = m THEN None ELSE f[(j + 1) + 1]
      BY <1>2, <1>8
    <3>5. j # m - 1 => j + 1 \in 1 .. m - 1
      BY <1>5
    <3> QED
      BY <3>3, <3>4, <3>5, <1>5, <1>8
  <2> QED
    BY <2>1, <2>2, <2>3 DEF Strung
<1>12. \A i \in 1 .. n + 1 : \A j \in 1 .. m - 1 : t[i] # g[j]
  <2> SUFFICES ASSUME NEW i \in 1 .. n + 1, NEW j \in 1 .. m - 1 PROVE t[i] # g[j]
    OBVIOUS
  <2>1. g[j] = f[j + 1] /\ j + 1 \in 1 .. m
    BY <1>8
  <2>2. CASE i \in 1 .. n
    BY <2>1, <2>2, <1>3, <1>7
  <2>3. CASE i = n + 1
    BY <2>3, <1>7, <1>8a
  <2> QED
    BY <2>2, <2>3, <1>7
<1>13. \A y \in Nodes : (\E i \in 1 .. n + 1 : t[i] = y) \/ (\E j \in 1 .. m - 1 : g[j] = y)
  <2> SUFFICES ASSUME NEW y \in Nodes
               PROVE  (\E i \in 1 .. n + 1 : t[i] = y) \/ (\E j \in 1 .. m - 1 : g[j] = y)
    OBVIOUS
  <2>1. CASE \E i \in 1 .. n : s[i] = y
    BY <2>1, <1>7
  <2>2. ASSUME NEW j \in 1 .. m, f[j] = y
        PROVE  (\E i \in 1 .. n + 1 : t[i] = y) \/ (\E i \in 1 .. m - 1 : g[i] = y)
    <3>1. CASE j = 1
      BY <2>2, <3>1, <1>7
    <3>2. CASE j - 1 \in 1 .. m - 1 /\ f[j] = g[j - 1]
      BY <2>2, <3>2, Zenon
    <3> QED
      BY <3>1, <3>2, <1>8
  <2> QED
    BY <2>1, <2>2, <1>3
<1>14. Threaded(n + 1, t, g)'
  BY <1>6, <1>10, <1>11, <1>12, <1>13 DEF Threaded
<1>15. Filled(n + 1, t, g)'
  <2>1. Stored = {value[s[i]] : i \in 1 .. n}
    BY StoredArranged DEF Arranged, Threaded
  <2>2. \A i \in 1 .. n : value'[t[i]] = value[s[i]] /\ value[s[i]] # x
    BY <2>1, <1>9a DEF Insert
  <2>3. value'[t[n + 1]] = x
    BY <1>5, <1>7, <1>9
  <2>4. \A i \in 1 .. n + 1 : value'[t[i]] \in Items
    BY <2>2, <2>3, <1>4, <1>7
  <2>5. ASSUME NEW i \in 1 .. n + 1, NEW j \in 1 .. n + 1, value'[t[i]] = value'[t[j]]
        PROVE  i = j
    <3>1. CASE i \in 1 .. n /\ j \in 1 .. n
      BY <3>1, <2>2, <2>5, <1>4
    <3>2. CASE i = n + 1
      BY <3>2, <2>2, <2>3, <2>5, <1>7
    <3>3. CASE j = n + 1
      BY <3>3, <2>2, <2>3, <2>5, <1>7
    <3> QED
      BY <3>1, <3>2, <3>3, <1>7
  <2>6. ASSUME NEW j \in 1 .. m - 1 PROVE value'[g[j]] = None
    <3>1. value'[g[j]] = value[g[j]]
      BY <1>8a, <1>9
    <3>2. g[j] = f[j + 1] /\ j + 1 \in 1 .. m
      BY <1>8
    <3> QED
      BY <3>1, <3>2, <1>4
  <2>7. \E i \in 1 .. n + 1 : min' = t[i]
    BY <1>0, <1>4, <1>7, <1>9
  <2> QED
    <3>1. tail' = IF n + 1 = 0 THEN None ELSE t[n + 1]
      BY <1>0, <1>7, <1>9
    <3>2. n + 1 # 0
      BY <1>0
    <3> QED
      BY <1>6, <3>1, <3>2, <2>4, <2>5, <2>6, <2>7 DEF Filled
<1>16. Traversed(n + 1, t)'
  <2> SUFFICES ASSUME trav # None PROVE Traversed(n + 1, t)'
    BY <1>9 DEF Traversed
  <2>1. n >= 2 /\ \E k, i, j, p \in 1 .. n : Visiting(n, s, k, i, j, p)
    BY DEF Arranged, Traversed
  <2>2. PICK k \in 1 .. n, i \in 1 .. n, j \in 1 .. n, p \in 1 .. n : Visiting(n, s, k, i, j, p)
    BY <2>1, Zenon
  <2>3. \A l \in 1 .. n : value'[t[l]] = value[s[l]]
    BY <1>9a
  <2>4. \A l \in 1 .. n + 1 : l <= k \/ l = 2 => l \in 1 .. n
    BY <2>1, <2>2
  <2>5. Visiting(n + 1, t, k, i, j, p)'
    <3>1. k # 1 => k - 1 \in 1 .. n
      BY <2>2
    <3>2. 1 \in 1 .. n
      BY <2>1
    <3> QED
      BY <1>7, <1>9, <2>2, <2>3, <2>4, <3>1, <3>2 DEF Visiting, LessOrEqual
  <2>6. k \in 1 .. n + 1 /\ i \in 1 .. n + 1 /\ j \in 1 .. n + 1 /\ p \in 1 .. n + 1
    BY <1>7
  <2>7. n + 1 >= 2
    BY <2>1
  <2> QED
    BY <2>5, <2>6, <2>7 DEF Traversed
<1>17. value'[t[n + 1]] = x
  BY <1>5, <1>7, <1>9
<1>18. Arranged(n + 1, t, g)'
  BY <1>14, <1>15, <1>16 DEF Arranged
<1>19. Strung(next, head, n, s)
  BY DEF Arranged, Threaded
<1>20. InsertOrders(x, n, s, t, g)
  BY <1>9a, <1>17, <1>18, <1>19 DEF InsertOrders
<1>21. n \in 0 .. Capacity - 1
  BY <1>0, <1>6
<1> QED
  BY <1>6, <1>7, <1>8, <1>20, <1>21

(* The node at the place i of the queue becomes the first free one.        *)
Unlinks(s, i) ==
  /\ next' = [y \in Nodes |-> IF y = s[i] THEN free
                              ELSE IF i # 1 /\ y = s[i - 1] THEN next[s[i]] ELSE next[y]]
  /\ head' = IF i = 1 THEN next[s[i]] ELSE head
  /\ MoveOut(s[i])

(* The two lists without that node and with it.                            *)
Without(n, s, i) == [l \in 1 .. n - 1 |-> IF l < i THEN s[l] ELSE s[l + 1]]

Pushed(m, f, x) == [j \in 1 .. m |-> IF j = 1 THEN x ELSE f[j - 1]]

LEMMA RemoveThreaded ==
  ASSUME TypeOK, NEW n \in 0 .. Capacity,
         NEW s \in [1 .. n -> Nodes], NEW f \in [1 .. Capacity - n -> Nodes],
         Threaded(n, s, f), Filled(n, s, f),
         NEW i \in 1 .. n,
         Unlinks(s, i),
         NEW t, t = Without(n, s, i),
         NEW g, g = Pushed(Capacity - (n - 1), f, s[i])
  PROVE  /\ n - 1 \in 0 .. Capacity
         /\ t \in [1 .. n - 1 -> Nodes]
         /\ g \in [1 .. Capacity - (n - 1) -> Nodes]
         /\ Threaded(n - 1, t, g)'
         /\ \A l \in 1 .. n - 1 : value'[t[l]] = value[t[l]]
         /\ \A l, k \in 1 .. n - 1 : value'[t[l]] = value'[t[k]] => l = k
         /\ \A j \in 1 .. Capacity - (n - 1) : value'[g[j]] = None
<1> DEFINE m == Capacity - n
           at(l) == IF l < i THEN l ELSE l + 1
<1>0. n \in Nat /\ n >= 1 /\ Capacity \in Nat /\ None \notin Nodes /\ None \notin Items /\ m \in Nat
  BY CpqAssumption, NoneApart
<1>1. /\ \A l, k \in 1 .. n : s[l] = s[k] => l = k
      /\ head = IF n = 0 THEN None ELSE s[1]
      /\ \A l \in 1 .. n : next[s[l]] = IF l = n THEN None ELSE s[l + 1]
  BY DEF Threaded, Strung
<1>2. /\ \A l, k \in 1 .. m : f[l] = f[k] => l = k
      /\ free = IF m = 0 THEN None ELSE f[1]
      /\ \A l \in 1 .. m : next[f[l]] = IF l = m THEN None ELSE f[l + 1]
  BY DEF Threaded, Strung
<1>3. /\ \A l \in 1 .. n : \A j \in 1 .. m : s[l] # f[j]
      /\ \A y \in Nodes : (\E l \in 1 .. n : s[l] = y) \/ (\E j \in 1 .. m : f[j] = y)
  BY DEF Threaded
<1>4. /\ \A l, k \in 1 .. n : value[s[l]] = value[s[k]] => l = k
      /\ \A j \in 1 .. m : value[f[j]] = None
  BY DEF Filled
<1>5. n - 1 \in 0 .. Capacity /\ Capacity - (n - 1) = m + 1
  BY <1>0
<1>6. \A l \in 1 .. n - 1 : at(l) \in 1 .. n /\ at(l) # i
  BY <1>0
<1>7. \A l, k \in 1 .. n - 1 : at(l) = at(k) => l = k
  BY <1>0
<1>8. \A l \in 1 .. n : l # i => \E k \in 1 .. n - 1 : at(k) = l
  <2> SUFFICES ASSUME NEW l \in 1 .. n, l # i PROVE \E k \in 1 .. n - 1 : at(k) = l
    OBVIOUS
  <2>1. CASE l < i
    <3>1. l \in 1 .. n - 1 /\ at(l) = l
      BY <2>1, <1>0
    <3> QED
      BY <3>1
  <2>2. CASE ~(l < i)
    <3>1. l - 1 \in 1 .. n - 1 /\ at(l - 1) = l
      BY <2>2, <1>0
    <3> QED
      BY <3>1
  <2> QED
    BY <2>1, <2>2
<1>9. /\ t \in [1 .. n - 1 -> Nodes]
      /\ \A l \in 1 .. n - 1 : t[l] = s[at(l)]
  BY <1>6 DEF Without
<1>10. /\ g \in [1 .. m + 1 -> Nodes]
       /\ g[1] = s[i] /\ 1 \in 1 .. m + 1
       /\ \A j \in 1 .. m : g[j + 1] = f[j] /\ j + 1 \in 1 .. m + 1
       /\ \A j \in 1 .. m + 1 : j = 1 \/ j - 1 \in 1 .. m
  BY <1>0, <1>5 DEF Pushed
<1>11. /\ value' = [value EXCEPT ![s[i]] = None]
       /\ free' = s[i] /\ s[i] \in Nodes
       /\ next' = [y \in Nodes |-> IF y = s[i] THEN free
                                   ELSE IF i # 1 /\ y = s[i - 1] THEN next[s[i]] ELSE next[y]]
       /\ head' = IF i = 1 THEN next[s[i]] ELSE head
  BY DEF Unlinks, MoveOut
<1> HIDE DEF m
<1>12. Strung(next, head, n - 1, t)'
  <2>1. ASSUME NEW l \in 1 .. n - 1, NEW k \in 1 .. n - 1, t[l] = t[k] PROVE l = k
    BY <2>1, <1>1, <1>6, <1>7, <1>9
  <2>2. head' = IF n - 1 = 0 THEN None ELSE t[1]
    <3>1. CASE n = 1
      BY <3>1, <1>1, <1>11
    <3>2. CASE n # 1
      <4>1. 1 \in 1 .. n - 1 /\ 1 \in 1 .. n
        BY <3>2, <1>0
      <4>2. CASE i = 1
        BY <4>1, <4>2, <3>2, <1>0, <1>1, <1>9, <1>11
      <4>3. CASE i # 1
        BY <4>1, <4>3, <3>2, <1>0, <1>1, <1>9, <1>11
      <4> QED
        BY <4>2, <4>3
    <3> QED
      BY <3>1, <3>2
  <2>3. ASSUME NEW l \in 1 .. n - 1
        PROVE  next'[t[l]] = IF l = n - 1 THEN None ELSE t[l + 1]
    <3>1. t[l] = s[at(l)] /\ at(l) \in 1 .. n /\ at(l) # i /\ t[l] \in Nodes /\ t[l] # s[i]
      BY <1>1, <1>6, <1>9, SMTT(60)
    <3>2. CASE l + 1 = i
      <4>1. at(l) = i - 1 /\ i # 1 /\ t[l] = s[i - 1]
        BY <3>1, <3>2, <1>0
      <4>2. next'[t[l]] = next[s[i]]
        BY <3>1, <4>1, <1>11
      <4>3. next[s[i]] = IF i = n THEN None ELSE s[i + 1]
        BY <1>1
      <4>4. i # n => l + 1 \in 1 .. n - 1 /\ at(l + 1) = i + 1
        BY <3>2, <1>0
      <4> QED
        BY <3>2, <4>2, <4>3, <4>4, <1>0, <1>9
    <3>3. CASE l + 1 # i
      <4>1. i # 1 => t[l] # s[i - 1]
        <5>1. i # 1 => i - 1 \in 1 .. n /\ at(l) # i - 1
          BY <3>3, <1>0
        <5> QED
          BY <5>1, <3>1, <1>1
      <4>2. next'[t[l]] = next[s[at(l)]]
        BY <3>1, <4>1, <1>11
      <4>3. next[s[at(l)]] = IF at(l) = n THEN None ELSE s[at(l) + 1]
        BY <3>1, <1>1
      <4>4. at(l) = n <=> l = n - 1
        BY <3>3, <1>0
      <4>5. l # n - 1 => l + 1 \in 1 .. n - 1 /\ at(l + 1) = at(l) + 1
        BY <3>3, <1>0
      <4> HIDE DEF at
      <4> QED
        BY <4>2, <4>3, <4>4, <4>5, <1>9
    <3> QED
      BY <3>2, <3>3
  <2> QED
    BY <2>1, <2>2, <2>3 DEF Strung
<1>13. Strung(next, free, m + 1, g)'
  <2>1. ASSUME NEW j \in 1 .. m + 1, NEW k \in 1 .. m + 1, g[j] = g[k] PROVE j = k
    <3>1. ASSUME NEW b \in 1 .. m PROVE g[b + 1] # g[1]
      BY <1>3, <1>10
    <3>2. CASE j = 1
      <4>1. k # 1 => k - 1 \in 1 .. m /\ (k - 1) + 1 = k
        BY <1>10
      <4> QED
        BY <2>1, <3>1, <3>2, <4>1
    <3>3. CASE k = 1
      <4>1. j # 1 => j - 1 \in 1 .. m /\ (j - 1) + 1 = j
        BY <1>10
      <4> QED
        BY <2>1, <3>1, <3>3, <4>1
    <3>4. CASE j # 1 /\ k # 1
      <4>1. j - 1 \in 1 .. m /\ (j - 1) + 1 = j /\ k - 1 \in 1 .. m /\ (k - 1) + 1 = k
        BY <3>4, <1>10
      <4>2. f[j - 1] = f[k - 1]
        BY <2>1, <4>1, <1>10
      <4>3. j - 1 = k - 1
        BY <4>1, <4>2, <1>2
      <4> QED
        BY <4>1, <4>3
    <3> QED
      BY <3>2, <3>3, <3>4
  <2>2. free' = g[1]
    BY <1>10, <1>11
  <2>3. next'[g[1]] = IF 1 = m + 1 THEN None ELSE g[1 + 1]
    <3>1. next'[g[1]] = free
      BY <1>10, <1>11
    <3>2. CASE m = 0
      BY <3>1, <3>2, <1>2
    <3>3. CASE m # 0
      <4>1. 1 \in 1 .. m
        BY <3>3, <1>0
      <4>2. g[1 + 1] = f[1] /\ 1 # m + 1
        BY <4>1, <3>3, <1>0, <1>10
      <4> QED
        BY <3>1, <3>3, <4>2, <1>2
    <3> QED
      BY <3>2, <3>3
  <2>4. ASSUME NEW j \in 1 .. m
        PROVE  next'[g[j + 1]] = IF j + 1 = m + 1 THEN None ELSE g[(j + 1) + 1]
    <3>1. g[j + 1] = f[j] /\ f[j] \in Nodes
      BY <1>10
    <3>2. f[j] # s[i] /\ (i # 1 => f[j] # s[i - 1])
      <4>1. i # 1 => i - 1 \in 1 .. n
        BY <1>0
      <4> QED
        BY <4>1, <1>3
    <3>3. next'[f[j]] = IF j = m THEN None ELSE f[j + 1]
      BY <3>1, <3>2, <1>2, <1>11
    <3>4. j # m => j + 1 \in 1 .. m
      BY <1>0
    <3>5. j # m => g[(j + 1) + 1] = f[j + 1]
      BY <3>4, <1>10
    <3>6. j + 1 = m + 1 <=> j = m
      BY <1>0
    <3> QED
      BY <3>1, <3>3, <3>5, <3>6
  <2>5. ASSUME NEW j \in 1 .. m + 1
        PROVE  next'[g[j]] = IF j = m + 1 THEN None ELSE g[j + 1]
    <3>1. CASE j = 1
      BY <3>1, <2>3
    <3>2. CASE j # 1
      <4>1. j - 1 \in 1 .. m /\ (j - 1) + 1 = j
        BY <3>2, <1>10
      <4>2. next'[g[(j - 1) + 1]] = IF (j - 1) + 1 = m + 1 THEN None ELSE g[((j - 1) + 1) + 1]
        BY <4>1, <2>4
      <4> QED
        BY <4>1, <4>2
    <3> QED
      BY <3>1, <3>2
  <2>6. free' = IF m + 1 = 0 THEN None ELSE g[1]
    BY <2>2, <1>0
  <2> QED
    BY <2>1, <2>5, <2>6 DEF Strung
<1>14. ASSUME NEW l \in 1 .. n - 1, NEW j \in 1 .. m + 1 PROVE t[l] # g[j]
  <2>1. t[l] = s[at(l)] /\ at(l) \in 1 .. n /\ at(l) # i
    BY <1>6, <1>9
  <2> HIDE DEF at
  <2>2. CASE j = 1
    BY <2>1, <2>2, <1>1, <1>10
  <2>3. CASE j # 1
    <3>1. j - 1 \in 1 .. m /\ (j - 1) + 1 = j
      BY <2>3, <1>10
    <3>2. g[j] = f[j - 1]
      BY <3>1, <1>10
    <3> QED
      BY <2>1, <3>1, <3>2, <1>3
  <2> QED
    BY <2>2, <2>3
<1>15. ASSUME NEW y \in Nodes
       PROVE  (\E l \in 1 .. n - 1 : t[l] = y) \/ (\E j \in 1 .. m + 1 : g[j] = y)
  <2>1. ASSUME NEW l \in 1 .. n, s[l] = y
        PROVE  (\E k \in 1 .. n - 1 : t[k] = y) \/ (\E j \in 1 .. m + 1 : g[j] = y)
    <3>1. CASE l = i
      BY <2>1, <3>1, <1>10
    <3>2. CASE l # i
      <4>1. PICK k \in 1 .. n - 1 : at(k) = l
        BY <3>2, <1>8
      <4> HIDE DEF at
      <4>2. t[k] = y
        BY <4>1, <2>1, <1>9
      <4> QED
        BY <4>2
    <3> QED
      BY <3>1, <3>2
  <2>2. ASSUME NEW j \in 1 .. m, f[j] = y
        PROVE  (\E k \in 1 .. n - 1 : t[k] = y) \/ (\E k \in 1 .. m + 1 : g[k] = y)
    BY <2>2, <1>10
  <2> QED
    BY <2>1, <2>2, <1>3
<1>16. Threaded(n - 1, t, g)'
  <2>1. Strung(next, free, Capacity - (n - 1), g)'
    BY <1>5, <1>13
  <2>2. \A l \in 1 .. n - 1 : \A j \in 1 .. Capacity - (n - 1) : t[l] # g[j]
    BY <1>5, <1>14
  <2>3. \A y \in Nodes : \/ \E l \in 1 .. n - 1 : t[l] = y
                       \/ \E j \in 1 .. Capacity - (n - 1) : g[j] = y
    BY <1>5, <1>15
  <2> QED
    BY <1>12, <2>1, <2>2, <2>3 DEF Threaded
<1>17. ASSUME NEW l \in 1 .. n - 1 PROVE value'[t[l]] = value[t[l]]
  <2>1. t[l] # s[i] /\ t[l] \in Nodes
    BY <1>10, <1>14, <1>9
  <2> QED
    BY <2>1, <1>11 DEF TypeOK
<1>18. ASSUME NEW l \in 1 .. n - 1, NEW k \in 1 .. n - 1, value'[t[l]] = value'[t[k]] PROVE l = k
  <2>1. value[s[at(l)]] = value[s[at(k)]] /\ at(l) \in 1 .. n /\ at(k) \in 1 .. n
    BY <1>6, <1>9, <1>17, <1>18
  <2>2. at(l) = at(k)
    <3> HIDE DEF at
    <3> QED
      BY <2>1, <1>4
  <2> QED
    BY <2>2, <1>7
<1>19. ASSUME NEW j \in 1 .. m + 1 PROVE value'[g[j]] = None
  <2>1. CASE j = 1
    BY <2>1, <1>10, <1>11 DEF TypeOK
  <2>2. CASE j # 1
    <3>1. j - 1 \in 1 .. m /\ (j - 1) + 1 = j
      BY <2>2, <1>10
    <3>2. g[j] = f[j - 1] /\ g[j] \in Nodes
      BY <3>1, <1>10
    <3>3. g[j] # s[i]
      BY <3>1, <3>2, <1>3
    <3>4. value'[g[j]] = value[g[j]]
      BY <3>2, <3>3, <1>11 DEF TypeOK
    <3> QED
      BY <3>1, <3>2, <3>4, <1>4
  <2> QED
    BY <2>1, <2>2
<1> QED
  BY <1>5, <1>9, <1>10, <1>16, <1>17, <1>18, <1>19

(* The one item of a queue is its first node.                              *)
LEMMA SingletonArranged ==
  ASSUME TypeOK, NEW n \in 0 .. Capacity,
         NEW s \in [1 .. n -> Nodes], NEW f \in [1 .. Capacity - n -> Nodes],
         Arranged(n, s, f),
         NEW c \in Callers, PopSingleton(c),
         NEW t, t = Without(n, s, 1),
         NEW g, g = Pushed(Capacity - (n - 1), f, s[1])
  PROVE  /\ n = 1 /\ head = s[1]
         /\ t \in [1 .. n - 1 -> Nodes]
         /\ g \in [1 .. Capacity - (n - 1) -> Nodes]
         /\ Arranged(n - 1, t, g)'
<1>0. n \in Nat /\ Capacity \in Nat /\ None \notin Nodes
  BY CpqAssumption, NoneApart
<1>1. /\ head = IF n = 0 THEN None ELSE s[1]
      /\ \A l \in 1 .. n : next[s[l]] = IF l = n THEN None ELSE s[l + 1]
  BY DEF Arranged, Threaded, Strung
<1>2. n = 1 /\ head = s[1] /\ 1 \in 1 .. n
  <2>1. n # 0 /\ head = s[1] /\ next[s[1]] = None
    BY <1>1 DEF PopSingleton
  <2>2. 1 \in 1 .. n /\ (n # 1 => 1 + 1 \in 1 .. n)
    BY <2>1, <1>0
  <2>3. n # 1 => next[s[1]] \in Nodes
    BY <2>2, <1>1
  <2> QED
    BY <2>1, <2>2, <2>3, <1>0
<1>3. next' = [y \in Nodes |-> IF y = s[1] THEN free
                               ELSE IF 1 # 1 /\ y = s[1 - 1] THEN next[s[1]] ELSE next[y]]
  <2>1. next' = [next EXCEPT ![s[1]] = free] /\ next \in [Nodes -> Pointers]
    BY <1>2 DEF PopSingleton, TypeOK
  <2> QED
    BY <2>1
<1>4. head' = IF 1 = 1 THEN next[s[1]] ELSE head
  BY <1>2 DEF PopSingleton
<1>5. MoveOut(s[1])
  BY <1>2 DEF PopSingleton
<1>5a. Unlinks(s, 1)
  BY <1>3, <1>4, <1>5 DEF Unlinks
<1>6. /\ n - 1 \in 0 .. Capacity
      /\ t \in [1 .. n - 1 -> Nodes]
      /\ g \in [1 .. Capacity - (n - 1) -> Nodes]
      /\ Threaded(n - 1, t, g)'
      /\ \A j \in 1 .. Capacity - (n - 1) : value'[g[j]] = None
  <2>1. Threaded(n, s, f) /\ Filled(n, s, f)
    BY DEF Arranged
  <2>2. 1 \in 1 .. n
    BY <1>2
  <2> QED
    BY <1>5a, <2>1, <2>2, RemoveThreaded
<1>7. Filled(n - 1, t, g)'
  <2>1. n - 1 = 0 /\ tail' = None /\ min' = None
    BY <1>2 DEF PopSingleton
  <2> QED
    BY <2>1, <1>6 DEF Filled
<1>8. Traversed(n - 1, t)'
  BY DEF Traversed, PopSingleton
<1> QED
  BY <1>2, <1>6, <1>7, <1>8 DEF Arranged

(* The traversal has seen the whole queue: its minimum, at the place i, is *)
(* a least item of all, and leaves the queue.                              *)
RemoveOrders(n, s, i, t, g) ==
  /\ Arranged(n - 1, t, g)'
  /\ t = Without(n, s, i)
  /\ \A l, m \in 1 .. n : value[s[l]] = value[s[m]] => l = m
  /\ Strung(next, head, n, s)
  /\ trav.min = s[i]
  /\ \A l \in 1 .. n : LessOrEqual(value[s[i]], value[s[l]])
  /\ \A l \in 1 .. n - 1 : value'[t[l]] = value[t[l]]

LEMMA RemoveArranged ==
  ASSUME IInv, NEW c \in Callers, PopRemove(c)
  PROVE  \E n \in 1 .. Capacity :
           \E s \in [1 .. n -> Nodes], i \in 1 .. n, t \in [1 .. n - 1 -> Nodes],
              g \in [1 .. Capacity - (n - 1) -> Nodes] : RemoveOrders(n, s, i, t, g)
<1>a. TypeOK /\ Capacity > 0
  BY NoNodes DEF IInv, PopRemove
<1>b. PICK n \in 0 .. Capacity :
        \E s \in [1 .. n -> Nodes], f \in [1 .. Capacity - n -> Nodes] : Arranged(n, s, f)
  BY <1>a DEF IInv
<1>c. PICK s \in [1 .. n -> Nodes], f \in [1 .. Capacity - n -> Nodes] : Arranged(n, s, f)
  BY <1>b
<1>d. n >= 2 /\ \E k, i, j, p \in 1 .. n : Visiting(n, s, k, i, j, p)
  BY <1>c DEF Arranged, Traversed, PopRemove
<1>e. PICK k \in 1 .. n, i \in 1 .. n, j \in 1 .. n, p \in 1 .. n : Visiting(n, s, k, i, j, p)
  BY <1>d, Zenon
<1>f. PICK t, g : t = Without(n, s, i) /\ g = Pushed(Capacity - (n - 1), f, s[i])
  OBVIOUS
<1>g. n >= 2
  BY <1>d
<1> USE <1>a, <1>c, <1>e, <1>f, <1>g
<1>0. n \in Nat /\ Capacity \in Nat /\ None \notin Nodes
  BY CpqAssumption, NoneApart
<1>1. /\ \A l, m \in 1 .. n : s[l] = s[m] => l = m
      /\ head = s[1]
      /\ \A l \in 1 .. n : next[s[l]] = IF l = n THEN None ELSE s[l + 1]
  BY <1>0 DEF Arranged, Threaded, Strung
<1>2. /\ trav.cursor = s[k] /\ trav.min = s[i] /\ trav.second = s[j] /\ trav.pred = s[p]
      /\ trav.prev = IF k = 1 THEN s[1] ELSE s[k - 1]
      /\ i # j
      /\ i = 1 \/ i = p + 1
  BY DEF Visiting
<1>3. k = n
  <2>1. next[s[k]] = None
    BY <1>2 DEF PopRemove
  <2>2. k # n => k + 1 \in 1 .. n
    BY <1>0
  <2>3. k # n => next[s[k]] \in Nodes
    BY <2>2, <1>1
  <2> QED
    BY <2>1, <2>3, <1>0
<1>4. \A l \in 1 .. n : LessOrEqual(value[s[i]], value[s[l]])
  <2>1. \A l \in 1 .. n : l <= k
    BY <1>3
  <2> QED
    BY <2>1 DEF Visiting
<1>5. 1 \in 1 .. n /\ (s[i] = head <=> i = 1)
  BY <1>0, <1>1
<1>6. next' = [y \in Nodes |-> IF y = s[i] THEN free
                               ELSE IF i # 1 /\ y = s[i - 1] THEN next[s[i]] ELSE next[y]]
  <2>1. i # 1 => s[i - 1] = s[p]
    BY <1>2
  <2> QED
    BY <2>1, <1>2, <1>5 DEF PopRemove
<1>7. head' = IF i = 1 THEN next[s[i]] ELSE head
  BY <1>2, <1>5 DEF PopRemove
<1>8. MoveOut(s[i])
  BY <1>2 DEF PopRemove
<1>8a. Unlinks(s, i)
  BY <1>6, <1>7, <1>8 DEF Unlinks
<1>9. /\ n - 1 \in 0 .. Capacity
      /\ t \in [1 .. n - 1 -> Nodes]
      /\ g \in [1 .. Capacity - (n - 1) -> Nodes]
      /\ Threaded(n - 1, t, g)'
      /\ \A l \in 1 .. n - 1 : value'[t[l]] = value[t[l]]
      /\ \A l, m \in 1 .. n - 1 : value'[t[l]] = value'[t[m]] => l = m
      /\ \A l \in 1 .. Capacity - (n - 1) : value'[g[l]] = None
  <2>1. Threaded(n, s, f) /\ Filled(n, s, f)
    BY DEF Arranged
  <2> QED
    BY <1>8a, <2>1, RemoveThreaded, SMTT(60)
<1>10. Filled(n - 1, t, g)'
  <2>1. \A l \in 1 .. n - 1 : value'[t[l]] \in Items
    <3>1. \A l \in 1 .. n : value[s[l]] \in Items
      BY DEF Arranged, Filled
    <3>2. ASSUME NEW l \in 1 .. n - 1 PROVE value[t[l]] \in Items
      <4>1. l \in 1 .. n /\ l + 1 \in 1 .. n
        BY <1>0
      <4> QED
        BY <4>1, <3>1 DEF Without
    <3> QED
      BY <3>2, <1>9
  <2>2. tail' = t[n - 1]
    <3>1. n - 1 \in 1 .. n - 1 /\ (n - 1) + 1 = n /\ n \in 1 .. n /\ n # 1
      BY <1>0
    <3>2. t[n - 1] = IF n - 1 < i THEN s[n - 1] ELSE s[n]
      BY <3>1 DEF Without
    <3>3. n - 1 < i <=> i = n
      BY <1>0
    <3>4. tail = s[n] /\ trav.prev = s[n - 1]
      BY <3>1, <1>0, <1>2, <1>3 DEF Arranged, Filled
    <3>5. s[i] = tail <=> i = n
      BY <3>1, <3>4, <1>1
    <3> QED
      BY <3>2, <3>3, <3>4, <3>5, <1>2 DEF PopRemove, TailWithout
  <2>3. \E l \in 1 .. n - 1 : min' = t[l]
    <3>1. min' = s[j]
      BY <1>2 DEF PopRemove
    <3>2. CASE j < i
      <4>1. j \in 1 .. n - 1
        BY <3>2
      <4>2. t[j] = s[j]
        BY <3>2, <4>1 DEF Without
      <4> QED
        BY <3>1, <4>1, <4>2
    <3>3. CASE ~(j < i)
      <4>1. j - 1 \in 1 .. n - 1 /\ ~(j - 1 < i) /\ (j - 1) + 1 = j
        BY <3>3, <1>2
      <4>2. t[j - 1] = s[j]
        BY <4>1 DEF Without
      <4> QED
        BY <3>1, <4>1, <4>2
    <3> QED
      BY <3>2, <3>3
  <2>4. n - 1 # 0
    BY <1>0
  <2> QED
    BY <1>9, <2>1, <2>2, <2>3, <2>4 DEF Filled
<1>11. Traversed(n - 1, t)'
  BY DEF Traversed, PopRemove, EndTraversal
<1>12. Arranged(n - 1, t, g)'
  BY <1>9, <1>10, <1>11 DEF Arranged
<1>13. Strung(next, head, n, s)
  BY DEF Arranged, Threaded
<1>14. \A l, m \in 1 .. n : value[s[l]] = value[s[m]] => l = m
  BY DEF Arranged, Filled
<1>15. RemoveOrders(n, s, i, t, g)
  BY <1>2, <1>4, <1>9, <1>12, <1>13, <1>14 DEF RemoveOrders
<1>16. n \in 1 .. Capacity
  BY <1>0
<1> QED
  BY <1>9, <1>15, <1>16

(* A traversal begins with the first two nodes.                            *)
LEMMA BeginArranged ==
  ASSUME TypeOK, NEW n \in 0 .. Capacity,
         NEW s \in [1 .. n -> Nodes], NEW f \in [1 .. Capacity - n -> Nodes],
         Arranged(n, s, f),
         trav = None, head # None, next[head] # None, trav' = FirstTwo, UNCHANGED list
  PROVE  n >= 2 /\ Traversed(n, s)'
<1>0. n \in Nat /\ Capacity \in Nat /\ None \notin Nodes
  BY CpqAssumption, NoneApart
<1>1. /\ head = IF n = 0 THEN None ELSE s[1]
      /\ \A l \in 1 .. n : next[s[l]] = IF l = n THEN None ELSE s[l + 1]
  BY DEF Arranged, Threaded, Strung
<1>2. n >= 2 /\ head = s[1] /\ next[head] = s[2] /\ 1 \in 1 .. n /\ 2 \in 1 .. n
  <2>1. n # 0 /\ head = s[1] /\ 1 \in 1 .. n
    BY <1>0, <1>1
  <2>2. n # 1
    BY <2>1, <1>1
  <2>3. n >= 2 /\ 1 \in 1 .. n /\ 2 \in 1 .. n /\ 1 + 1 = 2
    BY <2>1, <2>2, <1>0
  <2> QED
    BY <2>1, <2>2, <2>3, <1>1
<1>3. value[s[1]] \in Items /\ value[s[2]] \in Items
  BY <1>2 DEF Arranged, Filled
<1>4. Key[value[s[1]]] \in Nat /\ Key[value[s[2]]] \in Nat
  BY <1>3, CpqAssumption
<1>5. \A l \in 1 .. n : l <= 1 \/ l = 2 => l = 1 \/ l = 2
  OBVIOUS
<1>6. value' = value
  BY DEF list
<1>7. CASE LessOrEqual(value[s[1]], value[s[2]])
  <2>1. trav' = [min |-> s[1], second |-> s[2], prev |-> s[1], cursor |-> s[1], pred |-> s[1]]
    BY <1>2, <1>7 DEF FirstTwo
  <2>2. \A l \in 1 .. n : l <= 1 \/ l = 2 => LessOrEqual(value[s[1]], value[s[l]])
    BY <1>4, <1>5, <1>7 DEF LessOrEqual
  <2>3. Visiting(n, s, 1, 1, 2, 1)'
    BY <2>1, <2>2, <1>6 DEF Visiting, LessOrEqual
  <2> QED
    BY <2>3, <1>2 DEF Traversed
<1>8. CASE ~LessOrEqual(value[s[1]], value[s[2]])
  <2>0. s[2] # s[1]
    BY <1>2 DEF Arranged, Threaded, Strung
  <2>1. trav' = [min |-> s[2], second |-> s[1], prev |-> s[1], cursor |-> s[1], pred |-> s[1]]
    BY <1>2, <1>8, <2>0 DEF FirstTwo
  <2>2. \A l \in 1 .. n : l <= 1 \/ l = 2 => LessOrEqual(value[s[2]], value[s[l]])
    BY <1>4, <1>5, <1>8 DEF LessOrEqual
  <2>3. Visiting(n, s, 1, 2, 1, 1)'
    BY <2>1, <2>2, <1>6 DEF Visiting, LessOrEqual
  <2> QED
    BY <2>3, <1>2 DEF Traversed
<1> QED
  BY <1>7, <1>8

(* The cursor moves on by one place.                                       *)
LEMMA AdvanceArranged ==
  ASSUME TypeOK, NEW n \in 0 .. Capacity,
         NEW s \in [1 .. n -> Nodes], NEW f \in [1 .. Capacity - n -> Nodes],
         Arranged(n, s, f),
         NEW c \in Callers, PopAdvance(c)
  PROVE  Traversed(n, s)'
<1>0. n \in Nat /\ Capacity \in Nat /\ None \notin Nodes
  BY CpqAssumption, NoneApart
<1>1. /\ \A l, m \in 1 .. n : s[l] = s[m] => l = m
      /\ \A l \in 1 .. n : next[s[l]] = IF l = n THEN None ELSE s[l + 1]
  BY DEF Arranged, Threaded, Strung
<1>2. n >= 2 /\ \E k, i, j, p \in 1 .. n : Visiting(n, s, k, i, j, p)
  BY DEF Arranged, Traversed, PopAdvance
<1>3. PICK k \in 1 .. n, i \in 1 .. n, j \in 1 .. n, p \in 1 .. n : Visiting(n, s, k, i, j, p)
  BY <1>2, Zenon
<1>4. /\ trav.cursor = s[k] /\ trav.min = s[i] /\ trav.second = s[j] /\ trav.pred = s[p]
      /\ i <= k \/ i = 2
      /\ \A l \in 1 .. n : l <= k \/ l = 2 => LessOrEqual(value[s[i]], value[s[l]])
      /\ i # j
      /\ i = 1 \/ i = p + 1
  BY <1>3 DEF Visiting
<1>5. k # n /\ k + 1 \in 1 .. n /\ next[s[k]] = s[k + 1]
  <2>1. next[s[k]] # None
    BY <1>4 DEF PopAdvance
  <2>2. k # n
    BY <2>1, <1>1
  <2> QED
    BY <2>2, <1>0, <1>1
<1>6. trav \in Traversal /\ value' = value
  BY DEF PopAdvance, TypeOK, list
<1>7. trav' = [Visited(s[k + 1]) EXCEPT !.prev = s[k], !.cursor = s[k + 1]]
  BY <1>4, <1>5 DEF PopAdvance
<1>8. \A l \in 1 .. n : Key[value[s[l]]] \in Nat
  <2>1. \A l \in 1 .. n : value[s[l]] \in Items
    BY DEF Arranged, Filled
  <2> QED
    BY <2>1, CpqAssumption
<1>9. \A l \in 1 .. n : l <= k + 1 \/ l = 2 => l <= k \/ l = 2 \/ l = k + 1
  OBVIOUS
<1>10. k + 1 # 1 /\ (k + 1) - 1 = k
  OBVIOUS
<1>11. CASE LessOrEqual(value[s[k + 1]], value[s[i]]) /\ s[i] # s[k + 1]
  <2>1. /\ trav'.min = s[k + 1] /\ trav'.second = s[i] /\ trav'.pred = s[k]
        /\ trav'.prev = s[k] /\ trav'.cursor = s[k + 1]
    BY <1>4, <1>6, <1>7, <1>11 DEF Visited, Traversal
  <2>2. \A l \in 1 .. n : l <= k + 1 \/ l = 2 => LessOrEqual(value[s[k + 1]], value[s[l]])
    <3> SUFFICES ASSUME NEW l \in 1 .. n, l <= k + 1 \/ l = 2
                 PROVE  LessOrEqual(value[s[k + 1]], value[s[l]])
      OBVIOUS
    <3>1. CASE l = k + 1
      BY <3>1, <1>5, <1>8 DEF LessOrEqual
    <3>2. CASE l <= k \/ l = 2
      <4>1. LessOrEqual(value[s[i]], value[s[l]])
        BY <3>2, <1>4
      <4> QED
        BY <4>1, <1>5, <1>8, <1>11 DEF LessOrEqual
    <3> QED
      BY <3>1, <3>2, <1>9
  <2>3. Visiting(n, s, k + 1, k + 1, i, k)'
    BY <2>1, <2>2, <1>6, <1>10, <1>11 DEF Visiting, LessOrEqual
  <2> QED
    BY <2>3, <1>2, <1>5 DEF Traversed
<1>12. CASE ~(LessOrEqual(value[s[k + 1]], value[s[i]]) /\ s[i] # s[k + 1])
  <2>1. /\ trav'.min = s[i] /\ trav'.second = s[j] /\ trav'.pred = s[p]
        /\ trav'.prev = s[k] /\ trav'.cursor = s[k + 1]
    BY <1>4, <1>6, <1>7, <1>12 DEF Visited, Traversal
  <2>2. \A l \in 1 .. n : l <= k + 1 \/ l = 2 => LessOrEqual(value[s[i]], value[s[l]])
    <3> SUFFICES ASSUME NEW l \in 1 .. n, l <= k + 1 \/ l = 2
                 PROVE  LessOrEqual(value[s[i]], value[s[l]])
      OBVIOUS
    <3>1. CASE l = k + 1
      BY <3>1, <1>5, <1>8, <1>12 DEF LessOrEqual
    <3>2. CASE l <= k \/ l = 2
      BY <3>2, <1>4
    <3> QED
      BY <3>1, <3>2, <1>9
  <2>3. i <= k + 1 \/ i = 2
    BY <1>4
  <2>4. Visiting(n, s, k + 1, i, j, p)'
    BY <2>1, <2>2, <2>3, <1>4, <1>6, <1>10 DEF Visiting, LessOrEqual
  <2> QED
    BY <2>4, <1>2, <1>5 DEF Traversed
<1> QED
  BY <1>11, <1>12

LEMMA ArrangedInit == Init => IInv
<1> SUFFICES ASSUME Init, Capacity > 0
             PROVE  \E n \in 0 .. Capacity :
                      \E s \in [1 .. n -> Nodes], f \in [1 .. Capacity - n -> Nodes] :
                        Arranged(n, s, f)
  BY TypeInit DEF IInv
<1> DEFINE s == [i \in 1 .. 0 |-> 0]
           f == [i \in 1 .. Capacity - 0 |-> i - 1]
<1>1. Capacity \in Nat /\ Capacity - 0 = Capacity /\ 0 \in 0 .. Capacity
  BY CpqAssumption
<1>2. s \in [1 .. 0 -> Nodes]
  OBVIOUS
<1>3. f \in [1 .. Capacity - 0 -> Nodes]
  BY <1>1 DEF Nodes
<1>4. \A i \in 1 .. Capacity - 0 : f[i] = i - 1 /\ f[i] \in Nodes
  BY <1>3
<1> HIDE DEF s, f
<1>5. Strung(next, head, 0, s)
  BY DEF Init, Strung
<1>6. Strung(next, free, Capacity - 0, f)
  <2>1. \A i, j \in 1 .. Capacity - 0 : f[i] = f[j] => i = j
    BY <1>4
  <2>2. free = f[1] /\ Capacity - 0 # 0
    BY <1>1, <1>4 DEF Init
  <2>3. ASSUME NEW i \in 1 .. Capacity - 0
        PROVE  next[f[i]] = IF i = Capacity - 0 THEN None ELSE f[i + 1]
    <3>1. next[f[i]] = IF i - 1 < Capacity - 1 THEN (i - 1) + 1 ELSE None
      BY <1>4 DEF Init
    <3>2. i # Capacity - 0 => f[i + 1] = i
      BY <1>1, <1>4
    <3> QED
      BY <3>1, <3>2, <1>1
  <2> QED
    BY <2>1, <2>2, <2>3 DEF Strung
<1>7. Threaded(0, s, f)
  <2>1. ASSUME NEW y \in Nodes PROVE \E j \in 1 .. Capacity - 0 : f[j] = y
    <3>1. y + 1 \in 1 .. Capacity - 0 /\ (y + 1) - 1 = y
      BY <1>1 DEF Nodes
    <3> QED
      BY <3>1, <1>4
  <2> QED
    BY <1>5, <1>6, <2>1 DEF Threaded
<1>8. Filled(0, s, f)
  BY <1>4 DEF Init, Filled
<1>9. Traversed(0, s)
  BY DEF Init, Traversed
<1>10. Arranged(0, s, f)
  BY <1>7, <1>8, <1>9 DEF Arranged
<1> QED
  BY <1>1, <1>2, <1>3, <1>10

(* The steps that leave the list and the items as they are. *)
LEMMA SameArranged ==
  ASSUME NEW n, NEW s, NEW f, Arranged(n, s, f), UNCHANGED list, Traversed(n, s)'
  PROVE  Arranged(n, s, f)'
BY DEF Arranged, Threaded, Filled, Strung, list

LEMMA SameTraversed ==
  ASSUME NEW n, NEW s, NEW f, Arranged(n, s, f), UNCHANGED list, UNCHANGED trav
  PROVE  Traversed(n, s)'
BY DEF Arranged, Traversed, Visiting, LessOrEqual, list

LEMMA ArrangedStep == IInv /\ [Next]_vars => IInv'
<1> SUFFICES ASSUME IInv, [Next]_vars, Capacity > 0
             PROVE  (\E n \in 0 .. Capacity :
                       \E s \in [1 .. n -> Nodes], f \in [1 .. Capacity - n -> Nodes] :
                         Arranged(n, s, f))'
  BY TypeStep DEF IInv
<1>1. TypeOK
  BY DEF IInv
<1>2. PICK n \in 0 .. Capacity :
        \E s \in [1 .. n -> Nodes], f \in [1 .. Capacity - n -> Nodes] : Arranged(n, s, f)
  BY DEF IInv
<1>3. PICK s \in [1 .. n -> Nodes], f \in [1 .. Capacity - n -> Nodes] : Arranged(n, s, f)
  BY <1>2
<1> DEFINE Goal == (\E m \in 0 .. Capacity :
                      \E t \in [1 .. m -> Nodes], g \in [1 .. Capacity - m -> Nodes] :
                        Arranged(m, t, g))'
<1>4. ASSUME Arranged(n, s, f)' PROVE Goal
  BY <1>4
<1>5. ASSUME UNCHANGED list, UNCHANGED trav PROVE Goal
  BY <1>3, <1>4, <1>5, SameArranged, SameTraversed
<1>6. ASSUME NEW c \in Callers, NEW x \in Items, Insert(c, x) PROVE Goal
  <2>1. CASE InsertFull(c)
    BY <1>5, <1>6, <2>1 DEF Insert, InsertFull
  <2>2. CASE InsertAtTail(c, x)
    <3>1. PICK m \in 0 .. Capacity - 1 :
            \E u \in [1 .. m -> Nodes], t \in [1 .. m + 1 -> Nodes],
               g \in [1 .. Capacity - (m + 1) -> Nodes] : InsertOrders(x, m, u, t, g)
      BY <1>6, <2>2, InsertArranged
    <3>2. m + 1 \in 0 .. Capacity
      BY CpqAssumption
    <3> QED
      BY <3>1, <3>2 DEF InsertOrders
  <2> QED
    BY <1>6, <2>1, <2>2 DEF Insert
<1>7. ASSUME NEW c \in Callers, PopSingleton(c) PROVE Goal
  <2>1. PICK t, g : t = Without(n, s, 1) /\ g = Pushed(Capacity - (n - 1), f, s[1])
    OBVIOUS
  <2>2. /\ n = 1
        /\ t \in [1 .. n - 1 -> Nodes]
        /\ g \in [1 .. Capacity - (n - 1) -> Nodes]
        /\ Arranged(n - 1, t, g)'
    BY <1>1, <1>3, <1>7, <2>1, SingletonArranged
  <2>3. n - 1 \in 0 .. Capacity
    BY <2>2, CpqAssumption
  <2> QED
    BY <2>2, <2>3
<1>8. ASSUME NEW c \in Callers, PopBegin(c) PROVE Goal
  <2>1. CASE UNCHANGED trav
    BY <1>5, <1>8, <2>1 DEF PopBegin
  <2>2. CASE trav = None /\ head # None /\ next[head] # None /\ trav' = FirstTwo
    BY <1>1, <1>3, <1>4, <1>8, <2>2, BeginArranged, SameArranged DEF PopBegin
  <2> QED
    BY <1>8, <2>1, <2>2 DEF PopBegin
<1>9. ASSUME NEW c \in Callers, PopAdvance(c) PROVE Goal
  BY <1>1, <1>3, <1>4, <1>9, AdvanceArranged, SameArranged DEF PopAdvance
<1>10. ASSUME NEW c \in Callers, PopRemove(c) PROVE Goal
  <2>1. PICK m \in 1 .. Capacity :
          \E u \in [1 .. m -> Nodes], i \in 1 .. m, t \in [1 .. m - 1 -> Nodes],
             g \in [1 .. Capacity - (m - 1) -> Nodes] : RemoveOrders(m, u, i, t, g)
    BY <1>10, RemoveArranged
  <2>2. m - 1 \in 0 .. Capacity
    BY CpqAssumption
  <2> QED
    BY <2>1, <2>2 DEF RemoveOrders
<1>11. ASSUME NEW c \in Callers, PopEmpty(c) \/ PopRobbed(c) PROVE Goal
  BY <1>5, <1>11 DEF PopEmpty, PopRobbed
<1>12. CASE UNCHANGED vars
  BY <1>5, <1>12 DEF vars
<1> QED
  BY <1>6, <1>7, <1>8, <1>9, <1>10, <1>11, <1>12 DEF Next, PopStep

LEMMA Invariance == Spec => []IInv
BY ArrangedInit, ArrangedStep, PTL DEF Spec

----------------------------------------------------------------------------
(* The properties.                                                         *)

(* The nodes from the place k on. *)
LEMMA ChainFrom ==
  ASSUME NEW n \in 0 .. Capacity, NEW s \in [1 .. n -> Nodes], NEW k \in 1 .. n,
         Strung(next, head, n, s)
  PROVE  Chain(s[k]) = {s[i] : i \in k .. n}
<1> DEFINE m == n - k + 1
           t == [i \in 1 .. m |-> s[i + k - 1]]
<1>1. Capacity \in Nat /\ n \in Nat
  BY CpqAssumption
<1>2. m \in 0 .. Capacity /\ m # 0
  BY <1>1
<1>3. \A i \in 1 .. m : i + k - 1 \in 1 .. n /\ i + k - 1 \in k .. n
  OBVIOUS
<1>4. \A i \in k .. n : i - k + 1 \in 1 .. m /\ (i - k + 1) + k - 1 = i
  OBVIOUS
<1>5. t \in [1 .. m -> Nodes] /\ \A i \in 1 .. m : t[i] = s[i + k - 1]
  BY <1>3
<1>6. \A i \in 1 .. m : i + k - 1 = n <=> i = m
  BY <1>1
<1>7. \A i \in 1 .. m : i # m => i + 1 \in 1 .. m /\ (i + 1) + k - 1 = (i + k - 1) + 1
  BY <1>1
<1>8. 1 \in 1 .. m /\ 1 + k - 1 = k
  BY <1>1
<1> HIDE DEF m, t
<1>9. Strung(next, s[k], m, t)
  <2>1. ASSUME NEW i \in 1 .. m, NEW j \in 1 .. m, t[i] = t[j] PROVE i = j
    <3>1. i + k - 1 = j + k - 1
      BY <2>1, <1>3, <1>5 DEF Strung
    <3> QED
      BY <3>1
  <2>2. s[k] = IF m = 0 THEN None ELSE t[1]
    BY <1>2, <1>5, <1>8
  <2>3. ASSUME NEW i \in 1 .. m PROVE next[t[i]] = IF i = m THEN None ELSE t[i + 1]
    <3>1. next[t[i]] = IF i + k - 1 = n THEN None ELSE s[(i + k - 1) + 1]
      BY <1>3, <1>5 DEF Strung
    <3>2. i # m => t[i + 1] = s[(i + k - 1) + 1]
      BY <1>5, <1>7
    <3> QED
      BY <3>1, <3>2, <1>6
  <2> QED
    BY <2>1, <2>2, <2>3 DEF Strung
<1>10. Chain(s[k]) = {t[i] : i \in 1 .. m}
  BY <1>2, <1>5, <1>9, ChainStrung
<1>11. \A i \in k .. n : \E j \in 1 .. m : s[i] = t[j]
  BY <1>4, <1>5
<1>12. \A j \in 1 .. m : \E i \in k .. n : s[i] = t[j]
  BY <1>3, <1>5
<1>13. {t[i] : i \in 1 .. m} = {s[i] : i \in k .. n}
  <2>1. ASSUME NEW j \in 1 .. m PROVE t[j] \in {s[i] : i \in k .. n}
    BY <1>12
  <2>2. ASSUME NEW i \in k .. n PROVE s[i] \in {t[j] : j \in 1 .. m}
    BY <1>11
  <2> QED
    BY <2>1, <2>2
<1> QED
  BY <1>10, <1>13

LEMMA AccountedArranged == IInv => NodesAccounted
<1> SUFFICES ASSUME IInv, Capacity > 0 PROVE NodesAccounted
  BY DEF NodesAccounted
<1>1. PICK n \in 0 .. Capacity :
        \E s \in [1 .. n -> Nodes], f \in [1 .. Capacity - n -> Nodes] : Arranged(n, s, f)
  BY DEF IInv
<1>2. PICK s \in [1 .. n -> Nodes], f \in [1 .. Capacity - n -> Nodes] : Arranged(n, s, f)
  BY <1>1
<1> DEFINE m == Capacity - n
<1>3. n \in Nat /\ m \in 0 .. Capacity /\ None \notin Nodes /\ None \notin Items
  BY CpqAssumption, NoneApart
<1>4. Strung(next, head, n, s) /\ Strung(next, free, m, f)
  BY <1>2 DEF Arranged, Threaded
<1> HIDE DEF m
<1>5. Chain(head) = {s[i] : i \in 1 .. n} /\ Chain(free) = {f[j] : j \in 1 .. m}
  <2>1. f \in [1 .. m -> Nodes]
    BY DEF m
  <2> QED
    BY <2>1, <1>3, <1>4, ChainStrung
<1>6. /\ \A i \in 1 .. n : \A j \in 1 .. m : s[i] # f[j]
      /\ \A x \in Nodes : (\E i \in 1 .. n : s[i] = x) \/ (\E j \in 1 .. m : f[j] = x)
      /\ \A i \in 1 .. n : value[s[i]] \in Items
      /\ \A j \in 1 .. m : value[f[j]] = None
      /\ tail = IF n = 0 THEN None ELSE s[n]
  BY <1>2 DEF Arranged, Threaded, Filled, m
<1>7. Chain(head) \cup Chain(free) = Nodes
  <2>1. \A j \in 1 .. m : f[j] \in Nodes
    BY DEF m
  <2> QED
    BY <1>5, <1>6, <2>1
<1>8. Chain(head) \cap Chain(free) = {}
  BY <1>5, <1>6
<1>9. Chain(head) = {x \in Nodes : value[x] # None}
  <2>1. \A x \in Chain(head) : x \in Nodes /\ value[x] # None
    BY <1>3, <1>5, <1>6
  <2>2. \A x \in Nodes : value[x] # None => x \in Chain(head)
    BY <1>5, <1>6
  <2> QED
    BY <2>1, <2>2
<1>10. head = None <=> tail = None
  <2>1. head = IF n = 0 THEN None ELSE s[1]
    BY <1>4 DEF Strung
  <2>2. n # 0 => 1 \in 1 .. n /\ n \in 1 .. n
    BY <1>3
  <2> QED
    BY <2>1, <2>2, <1>3, <1>6
<1>11. tail # None => tail \in Chain(head) /\ next[tail] = None
  <2>1. n # 0 => n \in 1 .. n
    BY <1>3
  <2> QED
    BY <2>1, <1>4, <1>5, <1>6 DEF Strung
<1>12. QueueLen = Cardinality(Chain(head))
  BY <1>4, <1>5, LengthStrung
<1> QED
  BY <1>7, <1>8, <1>9, <1>10, <1>11, <1>12 DEF NodesAccounted

LEMMA CachedArranged == IInv => CachedMinIsStored
<1> SUFFICES ASSUME IInv PROVE CachedMinIsStored
  OBVIOUS
<1>1. CASE ~(Capacity > 0)
  BY <1>1, NoNodes DEF IInv, CachedMinIsStored
<1>2. CASE Capacity > 0
  <2>1. PICK n \in 0 .. Capacity :
          \E s \in [1 .. n -> Nodes], f \in [1 .. Capacity - n -> Nodes] : Arranged(n, s, f)
    BY <1>2 DEF IInv
  <2>2. PICK s \in [1 .. n -> Nodes], f \in [1 .. Capacity - n -> Nodes] : Arranged(n, s, f)
    BY <2>1
  <2>3. Strung(next, head, n, s) /\ head = IF n = 0 THEN None ELSE s[1]
    BY <2>2 DEF Arranged, Threaded, Strung
  <2>4. Chain(head) = {s[i] : i \in 1 .. n}
    BY <2>3, ChainStrung
  <2>5. IF n = 0 THEN min = None ELSE \E i \in 1 .. n : min = s[i]
    BY <2>2 DEF Arranged, Filled
  <2>6. \A i \in 1 .. n : value[s[i]] \in Items
    BY <2>2 DEF Arranged, Filled
  <2>7. n # 0 => head # None
    <3>1. n # 0 => 1 \in 1 .. n
      BY CpqAssumption
    <3> QED
      BY <3>1, <2>3, NoneApart
  <2>8. CASE n = 0
    BY <2>3, <2>5, <2>8 DEF CachedMinIsStored
  <2>9. CASE n # 0
    <3>1. PICK i \in 1 .. n : min = s[i]
      BY <2>5, <2>9
    <3>2. min \in Chain(head) /\ min # None /\ value[min] \in Items
      BY <3>1, <2>4, <2>6, NoneApart
    <3> QED
      BY <3>2, <2>7, <2>9 DEF CachedMinIsStored, MinRef
  <2> QED
    BY <2>8, <2>9
<1> QED
  BY <1>1, <1>2

LEMMA SoundArranged == IInv => TraversalSound
<1> SUFFICES ASSUME IInv, trav # None PROVE TraversalSound
  BY DEF TraversalSound
<1>1. Capacity > 0
  BY NoNodes DEF IInv
<1>2. PICK n \in 0 .. Capacity :
        \E s \in [1 .. n -> Nodes], f \in [1 .. Capacity - n -> Nodes] : Arranged(n, s, f)
  BY <1>1 DEF IInv
<1>3. PICK s \in [1 .. n -> Nodes], f \in [1 .. Capacity - n -> Nodes] : Arranged(n, s, f)
  BY <1>2
<1>4. n >= 2 /\ \E k, i, j, p \in 1 .. n : Visiting(n, s, k, i, j, p)
  BY <1>3 DEF Arranged, Traversed
<1>5. PICK k \in 1 .. n, i \in 1 .. n, j \in 1 .. n, p \in 1 .. n : Visiting(n, s, k, i, j, p)
  BY <1>4, Zenon
<1>6. /\ trav.cursor = s[k] /\ trav.min = s[i] /\ trav.second = s[j] /\ trav.pred = s[p]
      /\ trav.prev = IF k = 1 THEN s[1] ELSE s[k - 1]
      /\ i <= k \/ i = 2
      /\ \A l \in 1 .. n : l <= k \/ l = 2 => LessOrEqual(value[s[i]], value[s[l]])
      /\ i # j
      /\ i = 1 \/ i = p + 1
  BY <1>5 DEF Visiting
<1>7. 1 \in 1 .. n /\ 2 \in 1 .. n /\ 1 # n /\ 1 + 1 = 2
  BY <1>4
<1>8. /\ Strung(next, head, n, s)
      /\ \A l, m \in 1 .. n : s[l] = s[m] => l = m
      /\ head = s[1]
      /\ \A l \in 1 .. n : next[s[l]] = IF l = n THEN None ELSE s[l + 1]
  BY <1>3, <1>4 DEF Arranged, Threaded, Strung
<1>9. Chain(head) = {s[l] : l \in 1 .. n} /\ Chain(trav.cursor) = {s[l] : l \in k .. n}
  <2>1. Strung(next, head, n, s)
    BY <1>8
  <2>2. Chain(s[k]) = {s[l] : l \in k .. n}
    BY <2>1, ChainFrom
  <2>3. Chain(head) = {s[l] : l \in 1 .. n}
    BY <2>1, ChainStrung
  <2> QED
    BY <2>2, <2>3, <1>6
<1>10. next[head] = s[2]
  BY <1>7, <1>8
<1> DEFINE seen == (Chain(head) \ Chain(trav.cursor)) \cup {trav.cursor, next[head]}
<1>11. ASSUME NEW l \in 1 .. n PROVE s[l] \in seen <=> l <= k \/ l = 2
  <2>1. l \in k .. n <=> l >= k
    OBVIOUS
  <2>2. s[l] \in Chain(trav.cursor) <=> l >= k
    <3>1. \A m \in k .. n : m \in 1 .. n
      OBVIOUS
    <3> QED
      BY <2>1, <3>1, <1>8, <1>9
  <2>3. s[l] = trav.cursor <=> l = k
    BY <1>6, <1>8
  <2>4. s[l] = next[head] <=> l = 2
    BY <1>7, <1>8, <1>10
  <2>5. s[l] \in Chain(head)
    BY <1>9
  <2> QED
    BY <2>2, <2>3, <2>4, <2>5
<1>12. \A x \in seen : \E l \in 1 .. n : x = s[l]
  BY <1>6, <1>7, <1>9, <1>10
<1> HIDE DEF seen
<1>13. k # 1 => k - 1 \in 1 .. n /\ (k - 1) + 1 = k /\ k - 1 # n
  BY <1>4
<1>14. {trav.min, trav.second, trav.cursor, trav.prev, trav.pred} \subseteq Chain(head)
  <2>1. trav.prev \in Chain(head)
    BY <1>6, <1>7, <1>9, <1>13
  <2>2. trav.min \in Chain(head) /\ trav.second \in Chain(head)
        /\ trav.cursor \in Chain(head) /\ trav.pred \in Chain(head)
    BY <1>6, <1>9
  <2> QED
    BY <2>1, <2>2
<1>15. trav.min # trav.second
  BY <1>6, <1>8
<1>16. trav.min \in seen
  BY <1>6, <1>11
<1>17. \A x \in seen : LessOrEqual(value[trav.min], value[x])
  BY <1>6, <1>11, <1>12
<1>18. trav.min = head \/ next[trav.pred] = trav.min
  <2>1. i = p + 1 => p # n
    OBVIOUS
  <2> QED
    BY <2>1, <1>6, <1>8
<1>19. trav.prev = trav.cursor \/ next[trav.prev] = trav.cursor
  <2>1. CASE k = 1
    BY <2>1, <1>6
  <2>2. CASE k # 1
    <3>1. trav.prev = s[k - 1] /\ next[s[k - 1]] = s[k]
      BY <2>2, <1>6, <1>8, <1>13
    <3> QED
      BY <3>1, <1>6
  <2> QED
    BY <2>1, <2>2
<1> QED
  BY <1>14, <1>15, <1>16, <1>17, <1>18, <1>19 DEF TraversalSound, seen

(* No node is leaked or in both lists, whichever preempted pops and        *)
(* inserts came between the critical sections.                             *)
THEOREM Accounting == Spec => []NodesAccounted
<1>1. IInv => NodesAccounted
  BY AccountedArranged
<1> QED
  BY <1>1, Invariance, PTL

(* min never reads an uninitialized or moved value.                        *)
THEOREM CachedMinimum == Spec => []CachedMinIsStored
<1>1. IInv => CachedMinIsStored
  BY CachedArranged
<1> QED
  BY <1>1, Invariance, PTL

(* The shared state of a traversal is sound between any two critical       *)
(* sections: its pointers are nodes of the queue, its minimum is a least   *)
(* item of those visited and is preceded by the node it keeps as such.     *)
THEOREM SoundTraversal == Spec => []TraversalSound
<1>1. IInv => TraversalSound
  BY SoundArranged
<1> QED
  BY <1>1, Invariance, PTL

----------------------------------------------------------------------------
(* The queue of WaitQueue.                                                 *)

LEMMA SameCardinality == \A S : Queue!Cardinality(S) = Cardinality(S)
BY DEF Queue!Cardinality, Cardinality

(* What the queue holds, read off any order of its nodes. *)
StoredAlong ==
  \A n \in 0 .. Capacity : \A s \in [1 .. n -> Nodes] :
    Strung(next, head, n, s) => Stored = {value[s[i]] : i \in 1 .. n}

LEMMA StoredAlongAlways == StoredAlong
BY StoredArranged DEF StoredAlong

LEMMA StoredAlongNext == StoredAlong'
BY StoredAlongAlways, PTL

(* The order of the nodes, whether or not there are any. *)
LEMMA OrderExists ==
  ASSUME IInv
  PROVE  \E n \in 0 .. Capacity : \E s \in [1 .. n -> Nodes] :
           /\ Strung(next, head, n, s)
           /\ Stored = {value[s[i]] : i \in 1 .. n}
           /\ Cardinality(Stored) = n
           /\ (Capacity = 0 \/ free = None) <=> n = Capacity
           /\ n = 0 <=> head = None
<1>0. Capacity \in Nat /\ None \notin Nodes
  BY CpqAssumption, NoneApart
<1>1. CASE ~(Capacity > 0)
  <2> DEFINE s == [i \in 1 .. 0 |-> 0]
  <2>1. s \in [1 .. 0 -> Nodes]
    OBVIOUS
  <2>2. Capacity = 0 /\ 0 \in 0 .. Capacity /\ head = None
    BY <1>0, <1>1, NoNodes DEF IInv
  <2> HIDE DEF s
  <2>3. Strung(next, head, 0, s)
    BY <2>2 DEF Strung
  <2>4. Stored = {value[s[i]] : i \in 1 .. 0}
    BY <2>1, <2>2, <2>3, StoredArranged
  <2>5. Cardinality(Stored) = 0
    <3>1. Stored = {}
      BY <2>4
    <3> QED
      BY <3>1, FS_EmptySet
  <2> QED
    BY <2>1, <2>2, <2>3, <2>4, <2>5
<1>2. CASE Capacity > 0
  <2>1. PICK n \in 0 .. Capacity :
          \E s \in [1 .. n -> Nodes], f \in [1 .. Capacity - n -> Nodes] : Arranged(n, s, f)
    BY <1>2 DEF IInv
  <2>2. PICK s \in [1 .. n -> Nodes], f \in [1 .. Capacity - n -> Nodes] : Arranged(n, s, f)
    BY <2>1
  <2>3. Strung(next, head, n, s) /\ Strung(next, free, Capacity - n, f)
    BY <2>2 DEF Arranged, Threaded
  <2>4. Stored = {value[s[i]] : i \in 1 .. n}
    BY <2>3, StoredArranged
  <2>5. Cardinality(Stored) = n
    <3> DEFINE b == [i \in 1 .. n |-> value[s[i]]]
    <3>1. b \in [1 .. n -> Stored]
      BY <2>4
    <3>2. \A i, j \in 1 .. n : b[i] = b[j] => i = j
      BY <2>2 DEF Arranged, Filled
    <3>3. \A x \in Stored : \E i \in 1 .. n : b[i] = x
      BY <2>4
    <3> HIDE DEF b
    <3>4. ExistsBijection(1 .. n, Stored)
      BY <3>1, <3>2, <3>3 DEF ExistsBijection, Bijection, Injection, Surjection, IsInjective
    <3> QED
      BY <3>4, <1>0, FS_CountingElements
  <2>6. free = None <=> n = Capacity
    <3>1. free = IF Capacity - n = 0 THEN None ELSE f[1]
      BY <2>3 DEF Strung
    <3>2. Capacity - n # 0 => f[1] \in Nodes
      BY <1>0
    <3>3. Capacity - n = 0 <=> n = Capacity
      BY <1>0
    <3> QED
      BY <3>1, <3>2, <3>3, <1>0
  <2>7. n = 0 <=> head = None
    <3>1. head = IF n = 0 THEN None ELSE s[1]
      BY <2>3 DEF Strung
    <3>2. n # 0 => s[1] \in Nodes
      BY <1>0
    <3> QED
      BY <3>1, <3>2, <1>0
  <2>8. Capacity # 0
    BY <1>2
  <2> QED
    BY <2>3, <2>4, <2>5, <2>6, <2>7, <2>8
<1> QED
  BY <1>1, <1>2

LEMMA SameStored ==
  ASSUME IInv, UNCHANGED list
  PROVE  Stored' = Stored
<1>1. PICK n \in 0 .. Capacity : \E s \in [1 .. n -> Nodes] :
        Strung(next, head, n, s) /\ Stored = {value[s[i]] : i \in 1 .. n}
  BY OrderExists
<1>2. PICK s \in [1 .. n -> Nodes] :
        Strung(next, head, n, s) /\ Stored = {value[s[i]] : i \in 1 .. n}
  BY <1>1
<1>3. Strung(next', head', n, s) /\ value' = value
  BY <1>2 DEF list
<1>4. Stored' = {value'[s[i]] : i \in 1 .. n}
  BY <1>3, StoredAlongNext DEF StoredAlong
<1> QED
  BY <1>2, <1>3, <1>4

(* The queue holds items. *)
LEMMA StoredAreItems ==
  ASSUME IInv
  PROVE  Stored \subseteq Items
<1>1. PICK n \in 0 .. Capacity : \E s \in [1 .. n -> Nodes] :
        Strung(next, head, n, s) /\ Stored = {value[s[i]] : i \in 1 .. n}
  BY OrderExists
<1>2. PICK s \in [1 .. n -> Nodes] :
        Strung(next, head, n, s) /\ Stored = {value[s[i]] : i \in 1 .. n}
  BY <1>1
<1>3. CASE ~(Capacity > 0)
  BY <1>2, <1>3, NoNodes DEF IInv
<1>4. CASE Capacity > 0
  <2>1. \A m \in Chain(head) : m \in Nodes /\ value[m] # None
    BY <1>4, AccountedArranged DEF NodesAccounted
  <2>2. \A m \in Nodes : value[m] \in Items \cup {None}
    BY DEF IInv, TypeOK
  <2> QED
    BY <2>1, <2>2 DEF Stored
<1> QED
  BY <1>3, <1>4

LEMMA InsertImplements ==
  ASSUME IInv, NEW c \in Callers, NEW x \in Items, Insert(c, x)
  PROVE  Queue!AddItem(c, x)
<1>0. Capacity \in Nat
  BY CpqAssumption
<1>1. CASE InsertFull(c)
  <2>1. Cardinality(Stored) = Capacity
    BY <1>1, OrderExists DEF InsertFull
  <2>2. Stored' = Stored
    BY <1>1, SameStored DEF InsertFull
  <2>3. Queue!Cardinality(Stored) >= Capacity
    BY <1>0, <2>1, SameCardinality
  <2>4. c \notin inPop /\ x \notin Stored /\ trav' = trav /\ inPop' = inPop
    BY DEF Insert
  <2>5. answer' = [answer EXCEPT ![c] = "queue full"]
    BY <1>1 DEF InsertFull, Returns
  <2> QED
    BY <2>2, <2>3, <2>4, <2>5 DEF Queue!AddItem, Queue!Returns
<1>2. CASE InsertAtTail(c, x)
  <2>0. Capacity > 0 /\ free # None
    BY <1>2 DEF InsertAtTail
  <2>1. PICK n \in 0 .. Capacity - 1 :
          \E s \in [1 .. n -> Nodes], t \in [1 .. n + 1 -> Nodes],
             g \in [1 .. Capacity - (n + 1) -> Nodes] : InsertOrders(x, n, s, t, g)
    BY <1>2, InsertArranged
  <2>2. PICK s \in [1 .. n -> Nodes], t \in [1 .. n + 1 -> Nodes],
             g \in [1 .. Capacity - (n + 1) -> Nodes] : InsertOrders(x, n, s, t, g)
    BY <2>1
  <2>3. n \in 0 .. Capacity /\ n + 1 \in 0 .. Capacity
    BY <1>0
  <2>4. /\ Arranged(n + 1, t, g)'
        /\ \A i \in 1 .. n : value'[t[i]] = value[s[i]]
        /\ value'[t[n + 1]] = x
    BY <2>2 DEF InsertOrders
  <2>5. Stored = {value[s[i]] : i \in 1 .. n}
    BY <2>2, <2>3, StoredArranged DEF InsertOrders
  <2>6. Stored' = {value'[t[i]] : i \in 1 .. n + 1}
    <3>1. Strung(next', head', n + 1, t)
      BY <2>4 DEF Arranged, Threaded
    <3> QED
      BY <3>1, <2>3, StoredAlongNext DEF StoredAlong
  <2>7. Stored' = Stored \cup {x}
    <3>1. \A i \in 1 .. n + 1 : i \in 1 .. n \/ i = n + 1
      OBVIOUS
    <3>2. \A i \in 1 .. n : i \in 1 .. n + 1
      OBVIOUS
    <3>3. n + 1 \in 1 .. n + 1
      BY <1>0
    <3>4. ASSUME NEW y \in Stored' PROVE y \in Stored \cup {x}
      BY <3>1, <2>4, <2>5, <2>6
    <3>5. ASSUME NEW y \in Stored \cup {x} PROVE y \in Stored'
      BY <3>2, <3>3, <2>4, <2>5, <2>6
    <3> QED
      BY <3>4, <3>5
  <2>8. Cardinality(Stored) < Capacity
    <3>1. Cardinality(Stored) \in 0 .. Capacity /\ Cardinality(Stored) # Capacity
      BY <2>0, OrderExists
    <3> QED
      BY <3>1, <1>0
  <2> QED
    BY <1>2, <2>7, <2>8, SameCardinality DEF Insert, InsertAtTail, Returns, Queue!AddItem, Queue!Returns
<1> QED
  BY <1>1, <1>2 DEF Insert

LEMMA TakeAtOnceImplements ==
  ASSUME IInv, NEW c \in Callers, PopEmpty(c) \/ PopSingleton(c)
  PROVE  Queue!TakeAtOnce(c)
<1>1. CASE PopEmpty(c)
  <2>1. Stored = {}
    <3>1. PICK n \in 0 .. Capacity : \E s \in [1 .. n -> Nodes] :
            Stored = {value[s[i]] : i \in 1 .. n} /\ (n = 0 <=> head = None)
      BY OrderExists
    <3> QED
      BY <1>1, <3>1 DEF PopEmpty
  <2>2. Stored' = Stored
    BY <1>1, SameStored DEF PopEmpty
  <2> QED
    BY <1>1, <2>1, <2>2 DEF PopEmpty, Returns, Queue!TakeAtOnce, Queue!Returns
<1>2. CASE PopSingleton(c)
  <2>0. Capacity > 0
    BY <1>2, NoNodes DEF IInv, PopSingleton
  <2>1. PICK n \in 0 .. Capacity :
          \E s \in [1 .. n -> Nodes], f \in [1 .. Capacity - n -> Nodes] : Arranged(n, s, f)
    BY <2>0 DEF IInv
  <2>2. PICK s \in [1 .. n -> Nodes], f \in [1 .. Capacity - n -> Nodes] : Arranged(n, s, f)
    BY <2>1
  <2>3. PICK t, g : t = Without(n, s, 1) /\ g = Pushed(Capacity - (n - 1), f, s[1])
    OBVIOUS
  <2>4. /\ n = 1 /\ head = s[1]
        /\ t \in [1 .. n - 1 -> Nodes]
        /\ Arranged(n - 1, t, g)'
    BY <1>2, <2>2, <2>3, SingletonArranged DEF IInv
  <2>5. Stored = {value[head]}
    <3>1. Stored = {value[s[i]] : i \in 1 .. n}
      BY <2>2, StoredArranged DEF Arranged, Threaded
    <3> QED
      BY <3>1, <2>4
  <2>6. Stored' = {}
    <3>1. Strung(next', head', n - 1, t) /\ n - 1 = 0 /\ n - 1 \in 0 .. Capacity
      BY <2>4, CpqAssumption DEF Arranged, Threaded
    <3>2. Stored' = {value'[t[i]] : i \in 1 .. n - 1}
      BY <3>1, <2>4, StoredAlongNext DEF StoredAlong
    <3> QED
      BY <3>1, <3>2
  <2> QED
    BY <1>2, <2>5, <2>6 DEF PopSingleton, Returns, Queue!TakeAtOnce, Queue!Returns
<1> QED
  BY <1>1, <1>2

LEMMA BeginPopImplements ==
  ASSUME IInv, IInv', NEW c \in Callers, PopBegin(c)
  PROVE  Queue!BeginPop(c)
<1>1. Stored' = Stored
  BY SameStored DEF PopBegin
<1>2. CASE trav # None /\ UNCHANGED trav
  BY <1>1, <1>2 DEF PopBegin, Queue!BeginPop
<1>3. CASE trav = None /\ head # None /\ next[head] # None /\ trav' = FirstTwo
  <2>0. Capacity > 0
    BY <1>3, NoNodes DEF IInv
  <2>1. PICK n \in 0 .. Capacity :
          \E s \in [1 .. n -> Nodes], f \in [1 .. Capacity - n -> Nodes] : Arranged(n, s, f)
    BY <2>0 DEF IInv
  <2>2. PICK s \in [1 .. n -> Nodes], f \in [1 .. Capacity - n -> Nodes] : Arranged(n, s, f)
    BY <2>1
  <2>3. PICK m \in 0 .. Capacity : /\ Cardinality(Stored) = m
                                   /\ \E t \in [1 .. m -> Nodes] : Strung(next, head, m, t)
    BY OrderExists
  <2>4. PICK t \in [1 .. m -> Nodes] : Strung(next, head, m, t)
    BY <2>3
  <2>5. m > 1
    <3>1. head = IF m = 0 THEN None ELSE t[1]
      BY <2>4 DEF Strung
    <3>2. m # 0 /\ head = t[1] /\ 1 \in 1 .. m
      BY <1>3, <3>1, CpqAssumption
    <3>3. next[t[1]] = IF 1 = m THEN None ELSE t[2]
      BY <2>4, <3>2 DEF Strung
    <3> QED
      BY <1>3, <3>2, <3>3
  <2>6. trav' # None
    <3>1. FirstTwo \in Traversal
      <4>1. head \in Nodes /\ next[head] \in Nodes
        BY <1>3 DEF IInv, TypeOK, Pointers
      <4> QED
        BY <4>1 DEF FirstTwo, Traversal
    <3> QED
      BY <1>3, <3>1, NoneApart
  <2> QED
    BY <1>1, <2>3, <2>5, <2>6, SameCardinality DEF PopBegin, Queue!BeginPop
<1> QED
  BY <1>2, <1>3 DEF PopBegin

LEMMA AdvanceImplements ==
  ASSUME IInv, NEW c \in Callers, PopAdvance(c)
  PROVE  UNCHANGED Queue!queueVars
<1>1. Stored' = Stored
  BY SameStored DEF PopAdvance
<1>2. trav # None /\ trav' # None
  <2>1. trav \in Traversal /\ next[trav.cursor] # None
    BY DEF PopAdvance, IInv, TypeOK
  <2>2. next[trav.cursor] \in Nodes
    BY <2>1 DEF IInv, TypeOK, Pointers, Traversal
  <2>3. Visited(next[trav.cursor]) \in Traversal
    BY <2>1, <2>2 DEF Visited, Traversal
  <2>4. trav' \in Traversal
    BY <2>1, <2>2, <2>3 DEF PopAdvance, Traversal
  <2> QED
    BY <2>4, NoneApart DEF PopAdvance
<1> QED
  BY <1>1, <1>2 DEF PopAdvance, Queue!queueVars

LEMMA RemoveImplements ==
  ASSUME IInv, NEW c \in Callers, PopRemove(c)
  PROVE  Queue!TakeMinimum(c)
<1>1. PICK n \in 1 .. Capacity :
        \E s \in [1 .. n -> Nodes], i \in 1 .. n, t \in [1 .. n - 1 -> Nodes],
           g \in [1 .. Capacity - (n - 1) -> Nodes] : RemoveOrders(n, s, i, t, g)
  BY RemoveArranged
<1>2. PICK s \in [1 .. n -> Nodes], i \in 1 .. n, t \in [1 .. n - 1 -> Nodes],
           g \in [1 .. Capacity - (n - 1) -> Nodes] : RemoveOrders(n, s, i, t, g)
  BY <1>1
<1>3. n \in 0 .. Capacity /\ n - 1 \in 0 .. Capacity
  BY CpqAssumption
<1>5. t = Without(n, s, i)
  BY <1>2 DEF RemoveOrders
<1>6. /\ \A l \in 1 .. n : LessOrEqual(value[s[i]], value[s[l]])
      /\ \A l \in 1 .. n - 1 : value'[t[l]] = value[t[l]]
      /\ Arranged(n - 1, t, g)'
  BY <1>2 DEF RemoveOrders
<1>7. Stored = {value[s[l]] : l \in 1 .. n}
  BY <1>2, <1>3, StoredArranged DEF RemoveOrders
<1>8. Stored' = {value[t[l]] : l \in 1 .. n - 1}
  <2>1. Strung(next', head', n - 1, t)
    BY <1>6 DEF Arranged, Threaded
  <2>2. Stored' = {value'[t[l]] : l \in 1 .. n - 1}
    BY <2>1, <1>3, StoredAlongNext DEF StoredAlong
  <2> QED
    BY <2>2, <1>6
<1>9. Stored' = Stored \ {value[s[i]]}
  <2>1. \A l, m \in 1 .. n : value[s[l]] = value[s[m]] => l = m
    BY <1>2 DEF RemoveOrders
  <2>2. ASSUME NEW l \in 1 .. n - 1
        PROVE  \E m \in 1 .. n : m # i /\ t[l] = s[m]
    <3>1. l \in 1 .. n /\ l + 1 \in 1 .. n
      OBVIOUS
    <3>2. CASE l < i
      BY <3>1, <3>2, <1>5 DEF Without
    <3>3. CASE ~(l < i)
      <4>1. l + 1 # i
        BY <3>3
      <4> QED
        BY <3>1, <3>3, <4>1, <1>5 DEF Without
    <3> QED
      BY <3>2, <3>3
  <2>3. ASSUME NEW m \in 1 .. n, m # i
        PROVE  \E l \in 1 .. n - 1 : t[l] = s[m]
    <3>1. CASE m < i
      <4>1. m \in 1 .. n - 1
        BY <3>1
      <4> QED
        BY <3>1, <4>1, <1>5 DEF Without
    <3>2. CASE ~(m < i)
      <4>1. m - 1 \in 1 .. n - 1 /\ ~(m - 1 < i) /\ (m - 1) + 1 = m
        BY <3>2, <2>3
      <4>2. t[m - 1] = s[m]
        BY <4>1, <1>5 DEF Without
      <4> QED
        BY <4>1, <4>2
    <3> QED
      BY <3>1, <3>2
  <2>4. ASSUME NEW y \in Stored' PROVE y \in Stored \ {value[s[i]]}
    BY <1>7, <1>8, <2>1, <2>2
  <2>5. ASSUME NEW y \in Stored, y # value[s[i]] PROVE y \in Stored'
    BY <1>7, <1>8, <2>3, <2>5
  <2> QED
    BY <2>4, <2>5
<1>10. value[s[i]] \in Queue!Minima
  BY <1>6, <1>7 DEF Queue!Minima, LessOrEqual
<1>11. answer' = [answer EXCEPT ![c] = value[s[i]]]
  BY <1>2 DEF PopRemove, Returns, RemoveOrders
<1> QED
  BY <1>9, <1>10, <1>11 DEF PopRemove, EndTraversal, Queue!TakeMinimum, Queue!Returns

LEMMA RobbedImplements ==
  ASSUME IInv, NEW c \in Callers, PopRobbed(c)
  PROVE  Queue!FindRobbed(c)
<1>1. Stored' = Stored
  BY SameStored DEF PopRobbed
<1> QED
  BY <1>1 DEF PopRobbed, Returns, Queue!FindRobbed, Queue!Returns

LEMMA QueueInitImplements == Init => Queue!QueueInit
<1> SUFFICES ASSUME Init PROVE Queue!QueueInit
  OBVIOUS
<1>1. PICK n \in 0 .. Capacity : \E s \in [1 .. n -> Nodes] :
        Stored = {value[s[i]] : i \in 1 .. n} /\ (n = 0 <=> head = None)
  BY ArrangedInit, OrderExists
<1>2. Stored = {}
  BY <1>1 DEF Init
<1> QED
  BY <1>2 DEF Init, Queue!QueueInit

LEMMA QueueStepImplements ==
  IInv /\ IInv' /\ [Next]_vars => [Queue!QueueNext]_(Queue!queueVars)
<1> SUFFICES ASSUME IInv, IInv', [Next]_vars
             PROVE  [Queue!QueueNext]_(Queue!queueVars)
  OBVIOUS
<1>1. ASSUME NEW c \in Callers, NEW x \in Items, Insert(c, x) PROVE Queue!QueueNext
  BY <1>1, InsertImplements DEF Queue!QueueNext
<1>2. ASSUME NEW c \in Callers, PopEmpty(c) \/ PopSingleton(c) PROVE Queue!QueueNext
  BY <1>2, TakeAtOnceImplements DEF Queue!QueueNext
<1>3. ASSUME NEW c \in Callers, PopBegin(c) PROVE Queue!QueueNext
  BY <1>3, BeginPopImplements DEF Queue!QueueNext
<1>4. ASSUME NEW c \in Callers, PopAdvance(c) PROVE UNCHANGED Queue!queueVars
  BY <1>4, AdvanceImplements
<1>5. ASSUME NEW c \in Callers, PopRemove(c) PROVE Queue!QueueNext
  BY <1>5, RemoveImplements DEF Queue!QueueNext
<1>6. ASSUME NEW c \in Callers, PopRobbed(c) PROVE Queue!QueueNext
  BY <1>6, RobbedImplements DEF Queue!QueueNext
<1>7. CASE UNCHANGED vars
  <2>1. Stored' = Stored
    BY <1>7, SameStored DEF vars
  <2> QED
    BY <1>7, <2>1 DEF vars, Queue!queueVars
<1> QED
  BY <1>1, <1>2, <1>3, <1>4, <1>5, <1>6, <1>7 DEF Next, PopStep

(* The linked list, its cached minimum and its shared traversal implement  *)
(* the queue as its callers see it: a pop that ends takes a minimum of     *)
(* what is stored at that moment, whoever carried it on.                   *)
THEOREM QueueImplemented == Spec => ImplementsWaitQueue
<1>1. IInv /\ IInv' /\ [Next]_vars => [Queue!QueueNext]_(Queue!queueVars)
  BY QueueStepImplements
<1> QED
  BY <1>1, QueueInitImplements, Invariance, PTL DEF Spec, ImplementsWaitQueue, Queue!QueueSpec
=============================================================================
