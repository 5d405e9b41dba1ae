----------------------------- MODULE WaitQueue -----------------------------
(***************************************************************************)
(* What the priority queue of the cpq crate promises to callers that       *)
(* preempt each other.  Inserting is atomic.  Popping is not: it begins,   *)
(* may be preempted, and takes a minimum of what the queue holds when it   *)
(* ends.  One pop at a time is under way: a caller that preempts another's *)
(* pop carries it on and takes the item for itself, and the caller it      *)
(* robbed gets nothing.                                                    *)
(*                                                                         *)
(* EdfScheduler uses the queue in these steps.                             *)
(***************************************************************************)
EXTENDS Naturals, FiniteSets

CONSTANTS
  Callers,   (* the contexts that use the queue                            *)
  Items,     (* what they insert                                           *)
  Key,       (* the order of the items: T's PartialOrd                     *)
  Capacity,  (* const generic N                                            *)
  None       (* Option::None                                               *)

VARIABLES
  items,     (* what the queue holds                                       *)
  popping,   (* a pop is under way                                         *)
  inPop,     (* callers between the beginning and the end of their pop     *)
  answer     (* what a caller's last operation returned                    *)

queueVars == <<items, popping, inPop, answer>>

Answers == Items \cup {None, "inserted", "queue full"}

QueueTypeOK ==
  /\ items \subseteq Items
  /\ popping \in BOOLEAN
  /\ inPop \subseteq Callers
  /\ answer \in [Callers -> Answers]

QueueInit ==
  /\ items = {} /\ popping = FALSE /\ inPop = {}
  /\ answer = [c \in Callers |-> None]

Returns(c, r) == answer' = [answer EXCEPT ![c] = r]

Minima == {x \in items : \A y \in items : Key[x] <= Key[y]}

AddItem(c, x) ==
  /\ c \notin inPop /\ x \notin items
  /\ \/ Cardinality(items) < Capacity /\ items' = items \cup {x} /\ Returns(c, "inserted")
     \/ Cardinality(items) >= Capacity /\ Returns(c, "queue full") /\ UNCHANGED items
  /\ UNCHANGED <<popping, inPop>>

TakeAtOnce(c) ==
  /\ c \notin inPop /\ ~popping
  /\ \/ items = {} /\ Returns(c, None) /\ UNCHANGED items
     \/ \E x \in items : items = {x} /\ items' = {} /\ Returns(c, x)
  /\ UNCHANGED <<popping, inPop>>

BeginPop(c) ==
  /\ c \notin inPop
  /\ popping \/ Cardinality(items) > 1
  /\ popping' = TRUE
  /\ inPop' = inPop \cup {c}
  /\ UNCHANGED <<items, answer>>

TakeMinimum(c) ==
  /\ c \in inPop /\ popping
  /\ \E x \in Minima : items' = items \ {x} /\ Returns(c, x)
  /\ popping' = FALSE
  /\ inPop' = inPop \ {c}

FindRobbed(c) ==
  /\ c \in inPop /\ ~popping
  /\ inPop' = inPop \ {c}
  /\ Returns(c, None)
  /\ UNCHANGED <<items, popping>>

QueueNext ==
  \E c \in Callers :
    \/ \E x \in Items : AddItem(c, x)
    \/ TakeAtOnce(c) \/ BeginPop(c) \/ TakeMinimum(c) \/ FindRobbed(c)

QueueSpec == QueueInit /\ [][QueueNext]_queueVars
=============================================================================
