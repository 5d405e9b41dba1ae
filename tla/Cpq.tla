-------------------------------- MODULE Cpq --------------------------------
(***************************************************************************)
(* The priority queue of the cpq crate: a singly linked list of the items  *)
(* in the order of their insertion, and a free list, threaded through one  *)
(* array of nodes.  Finding the minimum is a traversal; each of its steps  *)
(* is a critical section, so that a caller is preempted between any two,   *)
(* and its state is shared, so that a preempting pop carries it on.        *)
(***************************************************************************)
EXTENDS Naturals, FiniteSets

CONSTANTS Callers, Items, Key, Capacity, None

Nodes     == 0 .. Capacity - 1
Pointers  == Nodes \cup {None}
Traversal == [min : Nodes, second : Nodes, prev : Nodes, cursor : Nodes, pred : Nodes]

ASSUME CpqAssumption ==
  /\ Capacity \in Nat
  /\ Key \in [Items -> Nat]
  /\ None \notin Items \cup Nat \cup Traversal

VARIABLES
  value,   (* item of a node; None: MaybeUninit not, or no longer, initialized *)
  next,    (* link of a node                                               *)
  head,    (* head_ptr                                                     *)
  tail,    (* tail_ptr                                                     *)
  free,    (* free_ptr                                                     *)
  min,     (* min_ptr, the cached minimum                                  *)
  trav,    (* traversal_state                                              *)
  inPop,   (* callers in the loop of pop                                   *)
  answer   (* what a caller's last operation returned                      *)

list == <<value, next, head, tail, free, min>>
vars == <<list, trav, inPop, answer>>

(* The nodes reached from p in i links. *)
Walk(p) ==
  LET at[i \in Nat] == IF i = 0 THEN p
                       ELSE IF at[i - 1] = None THEN None ELSE next[at[i - 1]]
  IN  at

Chain(p) == {Walk(p)[i] : i \in 0 .. Capacity} \ {None}

(* len counts the links up to the end of the list. *)
QueueLen == Cardinality({i \in 0 .. Capacity : Walk(head)[i] # None})

(* min_ref, and min, which clones what it refers to. *)
MinRef == IF min = None THEN None ELSE value[min]

Stored == {value[n] : n \in Chain(head)}

Less(x, y)      == Key[x] < Key[y]
LessOrEqual(x, y) == Key[x] <= Key[y]

Init ==
  /\ value = [n \in Nodes |-> None]
  /\ next  = [n \in Nodes |-> IF n < Capacity - 1 THEN n + 1 ELSE None]
  /\ head = None /\ tail = None /\ min = None
  /\ free = 0
  /\ trav = None
  /\ inPop = {}
  /\ answer = [c \in Callers |-> None]

Returns(c, r) == answer' = [answer EXCEPT ![c] = r]

(* The first free node goes to the end of the list.                        *)
InsertFull(c) ==
  /\ Capacity = 0 \/ free = None
  /\ Returns(c, "queue full")
  /\ UNCHANGED list

MinAfterInsert(x) == IF tail = None \/ Less(x, value[min]) THEN free ELSE min

InsertAtTail(c, x) ==
  /\ Capacity > 0 /\ free # None
  /\ free'  = next[free]
  /\ next'  = [n \in Nodes |-> IF n = free THEN None
                               ELSE IF n = tail THEN free ELSE next[n]]
  /\ value' = [value EXCEPT ![free] = x]
  /\ head'  = IF tail = None THEN free ELSE head
  /\ min'   = MinAfterInsert(x)
  /\ tail'  = free
  /\ Returns(c, "inserted")

Insert(c, x) ==
  /\ c \notin inPop /\ x \notin Stored
  /\ InsertFull(c) \/ InsertAtTail(c, x)
  /\ UNCHANGED <<trav, inPop>>

(***************************************************************************)
(* pop.  Its first critical section.                                       *)
(***************************************************************************)
(* The value of a node is moved out and the node heads the free list.      *)
MoveOut(n) ==
  /\ value' = [value EXCEPT ![n] = None]
  /\ free'  = n

PopEmpty(c) ==
  /\ c \notin inPop /\ trav = None
  /\ head = None
  /\ Returns(c, None)
  /\ UNCHANGED <<list, trav, inPop>>

PopSingleton(c) ==
  /\ c \notin inPop /\ trav = None
  /\ head # None /\ next[head] = None
  /\ MoveOut(head)
  /\ next' = [next EXCEPT ![head] = free]
  /\ head' = None /\ tail' = None /\ min' = None
  /\ Returns(c, value[head])
  /\ UNCHANGED <<trav, inPop>>

(* Mutant: the second minimum is taken one node too far. *)
FirstAndThird ==
  LET after == next[head]
      first == IF LessOrEqual(value[head], value[after]) THEN head ELSE after
  IN  [min |-> first, second |-> IF first = head THEN next[after] ELSE head,
       prev |-> head, cursor |-> head, pred |-> head]

FirstTwo ==
  LET after == next[head]
      first == IF LessOrEqual(value[head], value[after]) THEN head ELSE after
  IN  [min |-> first, second |-> IF first = head THEN after ELSE head,
       prev |-> head, cursor |-> head, pred |-> head]

PopBegin(c) ==
  /\ c \notin inPop
  /\ \/ trav # None /\ UNCHANGED trav
     \/ trav = None /\ head # None /\ next[head] # None /\ trav' = FirstTwo
  /\ inPop' = inPop \cup {c}
  /\ UNCHANGED <<list, answer>>

(***************************************************************************)
(* A critical section of the loop.                                         *)
(***************************************************************************)
(* Mutant: the predecessor of a new minimum is not kept. *)
VisitedNoPred(n) ==
  IF LessOrEqual(value[n], value[trav.min]) /\ trav.min # n
  THEN [trav EXCEPT !.second = trav.min, !.min = n]
  ELSE trav

(* Mutant: a node equal to the minimum so far counts as the minimum twice. *)
VisitedAgain(n) ==
  IF LessOrEqual(value[n], value[trav.min])
  THEN [trav EXCEPT !.second = trav.min, !.min = n, !.pred = trav.cursor]
  ELSE trav

Visited(n) ==
  IF LessOrEqual(value[n], value[trav.min]) /\ trav.min # n
  THEN [trav EXCEPT !.second = trav.min, !.min = n, !.pred = trav.cursor]
  ELSE trav

(* Mutant: the cursor stays where it is. *)
PopLinger(c) ==
  /\ c \in inPop /\ trav # None
  /\ next[trav.cursor] # None
  /\ trav' = Visited(next[trav.cursor])
  /\ UNCHANGED <<list, inPop, answer>>

PopAdvance(c) ==
  /\ c \in inPop /\ trav # None
  /\ next[trav.cursor] # None
  /\ trav' = [Visited(next[trav.cursor]) EXCEPT !.prev = trav.cursor,
                                               !.cursor = next[trav.cursor]]
  /\ UNCHANGED <<list, inPop, answer>>

(* Mutant: the traversal is left behind. *)
LeaveTraversal == UNCHANGED trav

EndTraversal == trav' = None

(* Mutant: the tail stays when it is popped. *)
TailKept(m) == tail

TailWithout(m) == IF m = tail THEN trav.prev ELSE tail

PopRemove(c) ==
  /\ c \in inPop /\ trav # None
  /\ next[trav.cursor] = None
  /\ LET m == trav.min IN
       /\ MoveOut(m)
       /\ head' = IF m = head THEN next[m] ELSE head
       /\ next' = [n \in Nodes |-> IF n = m THEN free
                                   ELSE IF m # head /\ n = trav.pred THEN next[m]
                                   ELSE next[n]]
       /\ tail' = TailWithout(m)
       /\ Returns(c, value[m])
  /\ min' = trav.second
  /\ EndTraversal
  /\ inPop' = inPop \ {c}

PopRobbed(c) ==
  /\ c \in inPop /\ trav = None
  /\ inPop' = inPop \ {c}
  /\ Returns(c, None)
  /\ UNCHANGED <<list, trav>>

PopStep(c) == PopAdvance(c) \/ PopRemove(c) \/ PopRobbed(c)

Next ==
  \E c \in Callers :
    \/ \E x \in Items : Insert(c, x)
    \/ PopEmpty(c) \/ PopSingleton(c) \/ PopBegin(c)
    \/ PopStep(c)

Spec == Init /\ [][Next]_vars

(* Some pop goes on as long as one is under way; nobody has to begin one. *)
FairSpec == Spec /\ WF_vars(\E c \in Callers : PopStep(c))

----------------------------------------------------------------------------
TypeOK ==
  /\ value \in [Nodes -> Items \cup {None}]
  /\ next \in [Nodes -> Pointers]
  /\ {head, tail, min} \subseteq Pointers
  /\ free \in Pointers \cup {0}
  /\ trav \in Traversal \cup {None}
  /\ inPop \subseteq Callers
  /\ answer \in [Callers -> Items \cup {None, "inserted", "queue full"}]

(* Every node is in exactly one of the two lists, whichever preempted pops *)
(* came between: none is leaked, none is both free and in use, the list    *)
(* ends at its tail, and its nodes are the ones that hold an item.         *)
NodesAccounted ==
  Capacity > 0 =>
    /\ Chain(head) \cup Chain(free) = Nodes
    /\ Chain(head) \cap Chain(free) = {}
    /\ Chain(head) = {n \in Nodes : value[n] # None}
    /\ head = None <=> tail = None
    /\ tail # None => tail \in Chain(head) /\ next[tail] = None
    /\ QueueLen = Cardinality(Chain(head))

(* data[min_ptr] is initialized whenever min_ptr is Some, and min_ptr is   *)
(* Some whenever the queue holds an item: min never reads a moved value.   *)
CachedMinIsStored ==
  IF head = None THEN min = None ELSE min \in Chain(head) /\ MinRef \in Items

(* Between two critical sections of a pop, however many callers carry it   *)
(* on and insert meanwhile, the shared cursors are nodes of the list and   *)
(* the minimum is a least item of those visited, after its predecessor.    *)
TraversalSound ==
  trav # None =>
    LET seen == (Chain(head) \ Chain(trav.cursor)) \cup {trav.cursor, next[head]}
    IN  /\ {trav.min, trav.second, trav.cursor, trav.prev, trav.pred} \subseteq Chain(head)
        /\ trav.min # trav.second
        /\ trav.min \in seen
        /\ \A n \in seen : LessOrEqual(value[trav.min], value[n])
        /\ trav.min = head \/ next[trav.pred] = trav.min
        /\ trav.prev = trav.cursor \/ next[trav.prev] = trav.cursor

(* The linked list implements the queue as its callers see it.             *)
Queue == INSTANCE WaitQueue WITH items <- Stored, popping <- trav # None

ImplementsWaitQueue == Queue!QueueSpec

(* A traversal ends, whoever carries it on and whatever is inserted behind *)
(* its cursor meanwhile: a preempted pop cannot leave the state set for    *)
(* good, where no later pop would look at the head of the list.            *)
TraversalEnds == trav # None ~> trav = None

----------------------------------------------------------------------------
(* Claims of the crate's documentation, which TLC refutes.                 *)

(* min_ref: a reference to the minimum element in the queue.               *)
MinRefIsMinimum ==
  min # None => \A n \in Chain(head) : LessOrEqual(MinRef, value[n])
=============================================================================
