------------------------------- MODULE CpqInv -------------------------------
(***************************************************************************)
(* The inductive invariant of the queue.  The array of nodes holds two     *)
(* lists; the invariant names the nodes of each in their order, and what   *)
(* it says of the pointers and of the traversal it says of places in that  *)
(* order.                                                                  *)
(***************************************************************************)
EXTENDS Cpq

(* From p the links nx lead through the nodes s[1], .., s[n] and end there. *)
Strung(nx, p, n, s) ==
  /\ \A i, j \in 1 .. n : s[i] = s[j] => i = j
  /\ p = IF n = 0 THEN None ELSE s[1]
  /\ \A i \in 1 .. n : nx[s[i]] = IF i = n THEN None ELSE s[i + 1]

(* The queue is s, in the order of insertion; the free list is f; every    *)
(* node is in exactly one of the two.                                      *)
Threaded(n, s, f) ==
  /\ Strung(next, head, n, s)
  /\ Strung(next, free, Capacity - n, f)
  /\ \A i \in 1 .. n : \A j \in 1 .. Capacity - n : s[i] # f[j]
  /\ \A x \in Nodes : \/ \E i \in 1 .. n : s[i] = x
                      \/ \E j \in 1 .. Capacity - n : f[j] = x

(* The nodes of the queue, and no others, hold items, all different; the   *)
(* last is the tail and one of them the cached minimum.                    *)
Filled(n, s, f) ==
  /\ \A i \in 1 .. n : value[s[i]] \in Items
  /\ \A i, j \in 1 .. n : value[s[i]] = value[s[j]] => i = j
  /\ \A j \in 1 .. Capacity - n : value[f[j]] = None
  /\ tail = IF n = 0 THEN None ELSE s[n]
  /\ IF n = 0 THEN min = None ELSE \E i \in 1 .. n : min = s[i]

(* The cursor is at the place k and has seen the places up to k, the       *)
(* second one from the start: i is the place of a least item of those, j   *)
(* is another, p comes before i, unless i is the first, and prev before k. *)
Visiting(n, s, k, i, j, p) ==
  /\ trav.cursor = s[k] /\ trav.min = s[i] /\ trav.second = s[j] /\ trav.pred = s[p]
  /\ trav.prev = IF k = 1 THEN s[1] ELSE s[k - 1]
  /\ i <= k \/ i = 2
  /\ \A l \in 1 .. n : l <= k \/ l = 2 => LessOrEqual(value[s[i]], value[s[l]])
  /\ i # j
  /\ i = 1 \/ i = p + 1

Traversed(n, s) ==
  trav # None => n >= 2 /\ \E k, i, j, p \in 1 .. n : Visiting(n, s, k, i, j, p)

Arranged(n, s, f) == Threaded(n, s, f) /\ Filled(n, s, f) /\ Traversed(n, s)

IInv ==
  /\ TypeOK
  /\ Capacity > 0 =>
       \E n \in 0 .. Capacity :
         \E s \in [1 .. n -> Nodes], f \in [1 .. Capacity - n -> Nodes] : Arranged(n, s, f)
=============================================================================
