--------------------------- MODULE EdfOnCpqProofs ---------------------------
(***************************************************************************)
(* Proofs about the scheduler on its linked list, for any tasks.           *)
(***************************************************************************)
EXTENDS EdfOnCpq, FiniteSetTheorems, TLAPS

Callers == Tasks \cup {TopLevel}

(* The results about the queue, for the scheduler's callers and jobs.      *)
QP == INSTANCE CpqProofs
        WITH Callers <- Callers, Items <- Jobs,
             Key <- ByDeadline, Capacity <- Cardinality(Tasks)

----------------------------------------------------------------------------
(* The queue is one of those that CpqProofs is about.                      *)

LEMMA QueueConstants == QP!CpqAssumption
<1>1. Cardinality(Tasks) \in Nat
  BY CompositionAssumption, FS_CardinalityType DEF S!ConstantsAssumption, S!IsFiniteSet, IsFiniteSet
<1>2. ByDeadline \in [Jobs -> Nat]
  BY CompositionAssumption DEF S!ConstantsAssumption, ByDeadline, Jobs
<1>3. Q!Traversal = QP!Traversal
  BY DEF Q!Traversal, QP!Traversal, Q!Nodes, QP!Nodes
<1> QED
  BY <1>1, <1>2, <1>3, CompositionAssumption DEF QP!CpqAssumption

LEMMA SameStored == Q!Stored = QP!Stored
BY DEF Q!Stored, QP!Stored, Q!Chain, QP!Chain, Q!Walk, QP!Walk

LEMMA SameInsert ==
  ASSUME NEW c, NEW x
  PROVE  Q!Insert(c, x) <=> QP!Insert(c, x)
BY SameStored
   DEF Q!Insert, QP!Insert, Q!InsertFull, QP!InsertFull, Q!InsertAtTail, QP!InsertAtTail,
       Q!MinAfterInsert, QP!MinAfterInsert, Q!Less, QP!Less, Q!Returns, QP!Returns,
       Q!list, QP!list, Q!Nodes, QP!Nodes

LEMMA SameFirst ==
  ASSUME NEW c
  PROVE  /\ Q!PopEmpty(c) <=> QP!PopEmpty(c)
         /\ Q!PopSingleton(c) <=> QP!PopSingleton(c)
         /\ Q!PopBegin(c) <=> QP!PopBegin(c)
<1>1. Q!PopEmpty(c) <=> QP!PopEmpty(c)
  BY DEF Q!PopEmpty, QP!PopEmpty, Q!Returns, QP!Returns, Q!list, QP!list
<1>2. Q!PopSingleton(c) <=> QP!PopSingleton(c)
  BY DEF Q!PopSingleton, QP!PopSingleton, Q!MoveOut, QP!MoveOut, Q!Returns, QP!Returns
<1>3. Q!PopBegin(c) <=> QP!PopBegin(c)
  BY DEF Q!PopBegin, QP!PopBegin, Q!FirstTwo, QP!FirstTwo, Q!LessOrEqual, QP!LessOrEqual,
         Q!list, QP!list
<1> QED
  BY <1>1, <1>2, <1>3

LEMMA SameLoop ==
  ASSUME NEW c
  PROVE  /\ Q!PopAdvance(c) <=> QP!PopAdvance(c)
         /\ Q!PopRemove(c) <=> QP!PopRemove(c)
         /\ Q!PopRobbed(c) <=> QP!PopRobbed(c)
<1>1. Q!PopAdvance(c) <=> QP!PopAdvance(c)
  BY DEF Q!PopAdvance, QP!PopAdvance, Q!Visited, QP!Visited, Q!LessOrEqual, QP!LessOrEqual,
         Q!list, QP!list
<1>2. Q!PopRemove(c) <=> QP!PopRemove(c)
  BY DEF Q!PopRemove, QP!PopRemove, Q!MoveOut, QP!MoveOut, Q!TailWithout, QP!TailWithout,
         Q!EndTraversal, QP!EndTraversal, Q!Returns, QP!Returns, Q!Nodes, QP!Nodes
<1>3. Q!PopRobbed(c) <=> QP!PopRobbed(c)
  BY DEF Q!PopRobbed, QP!PopRobbed, Q!Returns, QP!Returns, Q!list, QP!list
<1> QED
  BY <1>1, <1>2, <1>3

----------------------------------------------------------------------------
(* The invariant of the composition: the list's own, and that an exit in   *)
(* its closing critical section holds a job or nothing.                    *)

HandsAreJobs == \A t \in Tasks : pc[t] = "dispatch" => answer[t] \in Jobs \cup {None}

IInv ==
  /\ QP!IInv
  /\ uptime \in Nat
  /\ pc \in [Tasks -> S!PcValues]
  /\ HandsAreJobs

(* The date of an arrival, when the addition does not overflow. *)
LEMMA DeadlineFits ==
  ASSUME uptime \in Nat, NEW t \in Tasks, ~S!Overflows(t)
  PROVE  [task |-> t, dl |-> S!Deadline(t)] \in Jobs
<1>1. MaxTimestamp \in Nat /\ RelDeadline[t] \in 0 .. MaxTimestamp
  BY CompositionAssumption DEF S!ConstantsAssumption, S!Timestamp
<1>2. S!Now \in Nat
  BY <1>1 DEF S!Now
<1>3. S!Deadline(t) \in 0 .. MaxTimestamp
  BY <1>1, <1>2 DEF S!Deadline, S!Overflows
<1> QED
  BY <1>3 DEF Jobs

(* Every step is a step of the queue or leaves it alone. *)
LEMMA QueueStep == IInv /\ [Next]_vars => [QP!Next]_(QP!vars)
<1> SUFFICES ASSUME IInv, [Next]_vars PROVE [QP!Next]_(QP!vars)
  OBVIOUS
<1>1. ASSUME UNCHANGED cpq PROVE UNCHANGED QP!vars
  BY <1>1 DEF cpq, QP!vars, QP!list
<1>2. ASSUME NEW t \in Tasks, Timestamper(t) PROVE [QP!Next]_(QP!vars)
  <2>1. CASE UNCHANGED cpq
    BY <1>1, <2>1
  <2>2. CASE ~S!Overflows(t) /\ Insert(TopLevel, [task |-> t, dl |-> S!Deadline(t)])
    <3>1. [task |-> t, dl |-> S!Deadline(t)] \in Jobs
      BY <2>2, DeadlineFits DEF IInv
    <3>2. QP!Insert(TopLevel, [task |-> t, dl |-> S!Deadline(t)])
      BY <2>2, SameInsert DEF Insert
    <3>3. TopLevel \in Callers
      BY DEF Callers
    <3> QED
      BY <3>1, <3>2, <3>3 DEF QP!Next
  <2> QED
    BY <1>2, <2>1, <2>2 DEF Timestamper, PostOrInsert
<1>3. ASSUME NEW t \in Tasks, Pop(t) PROVE [QP!Next]_(QP!vars)
  <2>1. t \in Callers
    BY DEF Callers
  <2>2. CASE PopFirst(t)
    <3>1. QP!PopEmpty(t) \/ QP!PopSingleton(t) \/ QP!PopBegin(t)
      BY <2>2, SameFirst DEF PopFirst
    <3> QED
      BY <2>1, <3>1 DEF QP!Next
  <2>3. CASE PopAgain(t)
    <3>1. QP!PopStep(t)
      BY <2>3, SameLoop DEF PopAgain, QP!PopStep
    <3> QED
      BY <2>1, <3>1 DEF QP!Next
  <2> QED
    BY <1>3, <2>2, <2>3 DEF Pop
<1>4. ASSUME NEW t \in Tasks, DispatchNext(t) PROVE [QP!Next]_(QP!vars)
  <2>1. CASE UNCHANGED cpq
    BY <1>1, <2>1
  <2>2. ASSUME NEW j \in NextTask[t], Insert(t, j) PROVE [QP!Next]_(QP!vars)
    <3>1. pc[t] = "dispatch" /\ j \in {answer[t]} \ {None}
      BY <2>2 DEF NextTask
    <3>2. j \in Jobs
      BY <3>1 DEF IInv, HandsAreJobs
    <3>3. QP!Insert(t, j) /\ t \in Callers
      BY <2>2, SameInsert DEF Insert, Callers
    <3> QED
      BY <3>2, <3>3 DEF QP!Next
  <2> QED
    BY <1>4, <2>1, <2>2 DEF DispatchNext, PostOrInsert
<1>5. ASSUME NEW t \in Tasks, OffList(t) PROVE [QP!Next]_(QP!vars)
  BY <1>1, <1>5 DEF OffList
<1>6. CASE Environment
  BY <1>1, <1>6 DEF Environment
<1>7. CASE UNCHANGED vars
  BY <1>1, <1>7 DEF vars
<1> QED
  BY <1>2, <1>3, <1>4, <1>5, <1>6, <1>7 DEF Next, Cpu

LEMMA InvariantInit == Init => IInv
<1> SUFFICES ASSUME Init PROVE IInv
  OBVIOUS
<1>1. QP!Init
  BY DEF Init, Q!Init, QP!Init, Q!Nodes, QP!Nodes, Callers
<1>2. QP!IInv
  BY <1>1, QueueConstants, QP!ArrangedInit
<1>3. uptime = 0 /\ pc = [t \in Tasks |-> "off"]
  BY DEF Init, S!Init
<1> QED
  BY <1>2, <1>3 DEF IInv, S!PcValues, HandsAreJobs

(* What a pop returns is what a node held, or nothing. *)
LEMMA PopReturns ==
  ASSUME QP!TypeOK, NEW t \in Tasks,
         QP!PopEmpty(t) \/ QP!PopSingleton(t) \/ QP!PopRemove(t) \/ QP!PopRobbed(t)
  PROVE  \E r \in Jobs \cup {None} : answer' = [answer EXCEPT ![t] = r]
<1>1. value \in [QP!Nodes -> Jobs \cup {None}]
  BY DEF QP!TypeOK
<1>2. CASE QP!PopEmpty(t) \/ QP!PopRobbed(t)
  BY <1>2 DEF QP!PopEmpty, QP!PopRobbed, QP!Returns
<1>3. CASE QP!PopSingleton(t)
  <2>1. head \in QP!Nodes
    BY <1>3 DEF QP!PopSingleton, QP!TypeOK, QP!Pointers
  <2> QED
    BY <1>1, <1>3, <2>1 DEF QP!PopSingleton, QP!Returns
<1>4. CASE QP!PopRemove(t)
  <2>1. trav.min \in QP!Nodes
    BY <1>4 DEF QP!PopRemove, QP!TypeOK, QP!Traversal
  <2> QED
    BY <1>1, <1>4, <2>1 DEF QP!PopRemove, QP!Returns
<1> QED
  BY <1>2, <1>3, <1>4

LEMMA InvariantStep == IInv /\ [Next]_vars => IInv'
<1> SUFFICES ASSUME IInv, [Next]_vars PROVE IInv'
  OBVIOUS
<1>0. /\ QP!IInv /\ QP!TypeOK
      /\ answer \in [Callers -> Jobs \cup {None, "inserted", "queue full"}]
      /\ uptime \in Nat /\ pc \in [Tasks -> S!PcValues] /\ HandsAreJobs
  BY DEF IInv, QP!IInv, QP!TypeOK
<1>1. QP!IInv'
  <2>1. [QP!Next]_(QP!vars)
    BY QueueStep
  <2> QED
    BY <1>0, <2>1, QueueConstants, QP!ArrangedStep
<1> DEFINE Rest == uptime' \in Nat /\ pc' \in [Tasks -> S!PcValues] /\ HandsAreJobs'
<1> HIDE DEF Rest
<1>a. Tasks \subseteq Callers /\ TopLevel \in Callers /\ TopLevel \notin Tasks
  BY CompositionAssumption DEF Callers
<1>b. {"off", "exec", "get", "store", "unpend", "unmask", "entry", "traverse", "dispatch"}
        \subseteq S!PcValues
  BY DEF S!PcValues
<1>2. ASSUME NEW t \in Tasks, Timestamper(t) PROVE Rest
  <2>1. uptime' = uptime /\ pc' = pc
    BY <1>2 DEF Timestamper
  <2>2. answer' = answer \/ \E r : answer' = [answer EXCEPT ![TopLevel] = r]
    BY <1>2 DEF Timestamper, PostOrInsert, Insert, Q!Insert, Q!InsertFull, Q!InsertAtTail,
                Q!Returns, cpq
  <2>3. \A u \in Tasks : answer'[u] = answer[u]
    BY <1>0, <1>a, <2>2
  <2> QED
    BY <1>0, <2>1, <2>3 DEF Rest, HandsAreJobs
<1>3. ASSUME NEW t \in Tasks, Pop(t) PROVE Rest
  <2>1. uptime' = uptime
    BY <1>3 DEF Pop
  <2>2. CASE answer' = answer /\ (pc' = pc \/ pc' = [pc EXCEPT ![t] = "traverse"])
    BY <1>0, <1>b, <2>1, <2>2 DEF Rest, HandsAreJobs
  <2>3. CASE /\ pc' = [pc EXCEPT ![t] = "dispatch"]
             /\ \E r \in Jobs \cup {None} : answer' = [answer EXCEPT ![t] = r]
    <3>1. PICK r \in Jobs \cup {None} : answer' = [answer EXCEPT ![t] = r]
      BY <2>3
    <3>2. \A u \in Tasks : answer'[u] = IF u = t THEN r ELSE answer[u]
      BY <1>0, <1>a, <3>1
    <3>3. \A u \in Tasks : pc'[u] = IF u = t THEN "dispatch" ELSE pc[u]
      BY <1>0, <2>3
    <3> QED
      BY <1>0, <1>b, <2>1, <2>3, <3>2, <3>3 DEF Rest, HandsAreJobs
  <2>4. CASE PopFirst(t)
    <3>1. CASE Q!PopBegin(t) /\ S!Goto(t, "traverse")
      BY <2>2, <3>1 DEF Q!PopBegin, S!Goto
    <3>2. CASE (Q!PopEmpty(t) \/ Q!PopSingleton(t)) /\ S!Goto(t, "dispatch")
      BY <1>0, <2>3, <3>2, SameFirst, PopReturns DEF S!Goto
    <3> QED
      BY <2>4, <3>1, <3>2 DEF PopFirst
  <2>5. CASE PopAgain(t)
    <3>1. CASE Q!PopAdvance(t) /\ UNCHANGED pc
      BY <2>2, <3>1 DEF Q!PopAdvance
    <3>2. CASE (Q!PopRemove(t) \/ Q!PopRobbed(t)) /\ S!Goto(t, "dispatch")
      BY <1>0, <2>3, <3>2, SameLoop, PopReturns DEF S!Goto
    <3> QED
      BY <2>5, <3>1, <3>2 DEF PopAgain
  <2> QED
    BY <1>3, <2>4, <2>5 DEF Pop
<1>4. ASSUME NEW t \in Tasks, DispatchNext(t) PROVE Rest
  <2>1. uptime' = uptime /\ pc' = [pc EXCEPT ![t] = "off"]
    BY <1>4 DEF DispatchNext, S!Goto
  <2>2. answer' = answer \/ \E r : answer' = [answer EXCEPT ![t] = r]
    BY <1>4 DEF DispatchNext, PostOrInsert, Insert, Q!Insert, Q!InsertFull, Q!InsertAtTail,
                Q!Returns, cpq
  <2>3. \A u \in Tasks \ {t} : answer'[u] = answer[u] /\ pc'[u] = pc[u]
    BY <1>0, <1>a, <2>1, <2>2
  <2>4. pc'[t] = "off" /\ pc' \in [Tasks -> S!PcValues]
    BY <1>0, <1>b, <2>1
  <2> QED
    BY <1>0, <2>1, <2>3, <2>4 DEF Rest, HandsAreJobs
<1>5. ASSUME NEW t \in Tasks, OffList(t) PROVE Rest
  <2>1. answer' = answer /\ uptime' = uptime
    BY <1>5 DEF OffList, cpq, S!Dispatch, S!CheckMissedDeadline, S!Exec, S!GetPrevDeadline,
                S!RestoreDeadline, S!UnpendTimestamper, S!UnmaskTimestamper, S!env
  <2>2. \/ pc' = pc
        \/ \E v \in S!PcValues \ {"dispatch"} : pc' = [pc EXCEPT ![t] = v]
    <3>1. {"entry", "exec", "get", "store", "unpend", "unmask", "pop"}
            \subseteq S!PcValues \ {"dispatch"}
      BY DEF S!PcValues
    <3> QED
      BY <1>5, <3>1 DEF OffList, S!Dispatch, S!CheckMissedDeadline, S!Exec, S!GetPrevDeadline,
                S!RestoreDeadline, S!UnpendTimestamper, S!UnmaskTimestamper, S!Goto
  <2> QED
    BY <1>0, <2>1, <2>2 DEF Rest, HandsAreJobs
<1>6. ASSUME Environment PROVE Rest
  <2>1. answer' = answer
    BY <1>6 DEF Environment, cpq
  <2>2. pc' = pc /\ (uptime' = uptime \/ uptime' = uptime + 1)
    BY <1>6 DEF Environment, S!Tick, S!Raise, S!Idle, S!Halted, S!vars, S!env
  <2>3. uptime' \in Nat
    <3>1. uptime \in Nat /\ (uptime' = uptime \/ uptime' = uptime + 1)
      BY <1>0, <2>2
    <3> QED
      BY <3>1
  <2> QED
    BY <1>0, <2>1, <2>2, <2>3 DEF Rest, HandsAreJobs
<1>7. ASSUME UNCHANGED vars PROVE Rest
  BY <1>0, <1>7 DEF vars, cpq, Rest, HandsAreJobs
<1>8. Rest
  BY <1>2, <1>3, <1>4, <1>5, <1>6, <1>7 DEF Next, Cpu
<1> QED
  BY <1>1, <1>8 DEF Rest, IInv

LEMMA Invariance == Spec => []IInv
BY InvariantInit, InvariantStep, PTL DEF Spec

----------------------------------------------------------------------------
(* The scheduler on a set of jobs.                                         *)

LEMMA SameStoredNext == (Q!Stored = QP!Stored)'
BY SameStored, PTL

LEMMA SameCardinality ==
  \A X : /\ S!Cardinality(X) = Cardinality(X)
         /\ QP!Cardinality(X) = Cardinality(X)
         /\ QP!Queue!Cardinality(X) = Cardinality(X)
BY DEF S!Cardinality, QP!Cardinality, QP!Queue!Cardinality, Cardinality

(* What waits is unchanged where the list is. *)
LEMMA QueueKept ==
  ASSUME IInv, UNCHANGED cpq
  PROVE  Q!Stored' = Q!Stored /\ (trav # None)' = (trav # None) /\ answer' = answer
<1>1. QP!IInv /\ UNCHANGED QP!list
  BY DEF IInv, cpq, QP!list
<1>2. QP!Stored' = QP!Stored
  BY <1>1, QueueConstants, QP!SameStored
<1> QED
  BY <1>2, SameStored, SameStoredNext DEF cpq

LEMMA HandsKept ==
  ASSUME pc' = pc, \A u \in Tasks : answer'[u] = answer[u]
  PROVE  NextTask' = NextTask
BY DEF NextTask

(* insert, as the scheduler uses it. *)
LEMMA EnqueueImplements ==
  ASSUME IInv, NEW c \in Callers, NEW j \in Jobs, Insert(c, j)
  PROVE  /\ S!Enqueue(j)
         /\ (trav # None)' = (trav # None)
         /\ \A u \in Tasks \ {c} : answer'[u] = answer[u]
<1>0. /\ QP!IInv /\ Tasks \subseteq Callers
      /\ answer \in [Callers -> Jobs \cup {None, "inserted", "queue full"}]
  BY DEF IInv, QP!IInv, QP!TypeOK, Callers
<1>1. QP!Queue!AddItem(c, j)
  BY <1>0, SameInsert, QueueConstants, QP!InsertImplements DEF Insert
<1>2. (trav # None)' = (trav # None)
  BY DEF Insert, Q!Insert
<1>3. \/ /\ Cardinality(QP!Stored) < Cardinality(Tasks)
         /\ QP!Stored' = QP!Stored \cup {j}
         /\ answer' = [answer EXCEPT ![c] = "inserted"]
      \/ /\ Cardinality(QP!Stored) >= Cardinality(Tasks)
         /\ QP!Stored' = QP!Stored
         /\ answer' = [answer EXCEPT ![c] = "queue full"]
  BY <1>1, SameCardinality DEF QP!Queue!AddItem, QP!Queue!Returns
<1>4. panic' = IF answer'[c] = "queue full" THEN "queue full" ELSE panic
  BY DEF Insert
<1>5. Cardinality(QP!Stored) \in Nat /\ Cardinality(Tasks) \in Nat
  <2>1. Cardinality(Tasks) \in Nat
    BY QueueConstants DEF QP!CpqAssumption
  <2>2. PICK n \in 0 .. Cardinality(Tasks) : Cardinality(QP!Stored) = n
    BY <1>0, QueueConstants, QP!OrderExists, SameCardinality
  <2> QED
    BY <2>1, <2>2
<1>6. S!Enqueue(j)
  <2>1. CASE Cardinality(QP!Stored) < Cardinality(Tasks)
    <3>1. ~(Cardinality(QP!Stored) >= Cardinality(Tasks))
      BY <1>5, <2>1
    <3>2. QP!Stored' = QP!Stored \cup {j} /\ panic' = panic
      BY <1>0, <1>3, <1>4, <3>1
    <3> QED
      BY <3>1, <3>2, SameStored, SameStoredNext, SameCardinality DEF S!Enqueue, S!WaitQueueLen
  <2>2. CASE ~(Cardinality(QP!Stored) < Cardinality(Tasks))
    <3>1. Cardinality(QP!Stored) >= Cardinality(Tasks)
      BY <1>5, <2>2
    <3>2. QP!Stored' = QP!Stored /\ panic' = "queue full"
      BY <1>0, <1>3, <1>4, <2>2
    <3> QED
      BY <3>1, <3>2, SameStored, SameStoredNext, SameCardinality DEF S!Enqueue, S!WaitQueueLen
  <2> QED
    BY <2>1, <2>2
<1> QED
  BY <1>0, <1>2, <1>3, <1>6

LEMMA TimestamperImplements ==
  ASSUME IInv, NEW t \in Tasks, Timestamper(t)
  PROVE  S!Timestamper(t)
<1> DEFINE j == [task |-> t, dl |-> S!Deadline(t)]
<1>1. /\ panic = "none" /\ S!TakesTimestamper(t) /\ S!Mask(t)
      /\ latch' = [latch EXCEPT ![t] = line[t]]
      /\ UNCHANGED <<uptime, events, line, pc, prev>>
  BY DEF Timestamper
<1>a. TopLevel \in Callers /\ TopLevel \notin Tasks
  BY CompositionAssumption DEF Callers
<1>2. CASE /\ S!Overflows(t)
           /\ panic' = "deadline overflowed"
           /\ UNCHANGED <<pended, sysDl, rq, jobDl, overtaken, cpq>>
  <2>1. Q!Stored' = Q!Stored /\ (trav # None)' = (trav # None) /\ NextTask' = NextTask
    BY <1>1, <1>2, QueueKept, HandsKept
  <2> QED
    BY <1>1, <1>2, <2>1 DEF S!Timestamper, S!env, S!chain
<1>3. CASE /\ ~S!Overflows(t)
           /\ jobDl' = [jobDl EXCEPT ![t] = S!Deadline(t)]
           /\ S!Preempts(j.dl) /\ S!Execute(j) /\ UNCHANGED <<panic, cpq>>
  <2>1. Q!Stored' = Q!Stored /\ (trav # None)' = (trav # None) /\ NextTask' = NextTask
    BY <1>1, <1>3, QueueKept, HandsKept
  <2> QED
    BY <1>1, <1>3, <2>1 DEF S!Timestamper, S!env
<1>4. CASE /\ ~S!Overflows(t)
           /\ jobDl' = [jobDl EXCEPT ![t] = S!Deadline(t)]
           /\ ~S!Preempts(j.dl) /\ Insert(TopLevel, j)
           /\ UNCHANGED <<pended, sysDl, rq, overtaken>>
  <2>1. j \in Jobs
    BY <1>4, DeadlineFits DEF IInv
  <2>2. /\ S!Enqueue(j) /\ (trav # None)' = (trav # None)
        /\ \A u \in Tasks : answer'[u] = answer[u]
    BY <1>4, <1>a, <2>1, EnqueueImplements
  <2>3. NextTask' = NextTask
    BY <1>1, <2>2, HandsKept
  <2> QED
    BY <1>1, <1>4, <2>2, <2>3 DEF S!Timestamper, S!env, S!chain
<1> QED
  BY <1>2, <1>3, <1>4 DEF Timestamper, PostOrInsert

LEMMA DispatchNextImplements ==
  ASSUME IInv, NEW t \in Tasks, DispatchNext(t)
  PROVE  S!DispatchNext(t)
<1>1. /\ S!At(t, "dispatch") /\ S!Goto(t, "off")
      /\ UNCHANGED <<uptime, events, line, latch, masked, prev, jobDl>>
  BY DEF DispatchNext
<1>2. pc \in [Tasks -> S!PcValues] /\ pc[t] = "dispatch" /\ pc' = [pc EXCEPT ![t] = "off"]
  BY <1>1 DEF IInv, S!At, S!Goto
<1>3. ASSUME \A u \in Tasks \ {t} : answer'[u] = answer[u]
      PROVE  NextTask' = [NextTask EXCEPT ![t] = {}]
  <2>1. \A u \in Tasks : pc'[u] = IF u = t THEN "off" ELSE pc[u]
    BY <1>2
  <2> QED
    BY <1>3, <2>1 DEF NextTask
<1>4. CASE NextTask[t] = {} /\ UNCHANGED <<pended, sysDl, rq, panic, overtaken, cpq>>
  <2>1. Q!Stored' = Q!Stored /\ (trav # None)' = (trav # None)
        /\ NextTask' = [NextTask EXCEPT ![t] = {}]
    BY <1>3, <1>4, QueueKept
  <2> QED
    BY <1>1, <1>4, <2>1 DEF S!DispatchNext, S!env, S!chain
<1>5. ASSUME NEW j \in NextTask[t], S!Preempts(j.dl), S!Execute(j), UNCHANGED <<panic, cpq>>
      PROVE  S!DispatchNext(t)
  <2>1. Q!Stored' = Q!Stored /\ (trav # None)' = (trav # None)
        /\ NextTask' = [NextTask EXCEPT ![t] = {}]
    BY <1>3, <1>5, QueueKept
  <2> QED
    BY <1>1, <1>5, <2>1 DEF S!DispatchNext, S!env
<1>6. ASSUME NEW j \in NextTask[t], ~S!Preempts(j.dl), Insert(t, j),
             UNCHANGED <<pended, sysDl, rq, overtaken>>
      PROVE  S!DispatchNext(t)
  <2>1. j \in Jobs /\ t \in Callers
    BY <1>2, <1>6 DEF IInv, HandsAreJobs, NextTask, Callers
  <2>2. /\ S!Enqueue(j) /\ (trav # None)' = (trav # None)
        /\ \A u \in Tasks \ {t} : answer'[u] = answer[u]
    BY <1>6, <2>1, EnqueueImplements
  <2>3. NextTask' = [NextTask EXCEPT ![t] = {}]
    BY <1>3, <2>2
  <2> QED
    BY <1>1, <1>6, <2>2, <2>3 DEF S!DispatchNext, S!env, S!chain
<1> QED
  BY <1>4, <1>5, <1>6 DEF DispatchNext, PostOrInsert

(* A pop that answers r. *)
LEMMA HandTakes ==
  ASSUME IInv, NEW t \in Tasks, NEW r,
         answer' = [answer EXCEPT ![t] = r], S!Goto(t, "dispatch")
  PROVE  NextTask' = [NextTask EXCEPT ![t] = {r} \ {None}]
<1>1. /\ pc \in [Tasks -> S!PcValues]
      /\ answer \in [Callers -> Jobs \cup {None, "inserted", "queue full"}]
      /\ Tasks \subseteq Callers
  BY DEF IInv, QP!IInv, QP!TypeOK, Callers
<1>2. \A u \in Tasks : pc'[u] = IF u = t THEN "dispatch" ELSE pc[u]
  BY <1>1 DEF S!Goto
<1>3. \A u \in Tasks : answer'[u] = IF u = t THEN r ELSE answer[u]
  BY <1>1
<1> QED
  BY <1>2, <1>3 DEF NextTask

(* One that answers nothing leaves the hands as they were. *)
LEMMA HandStaysEmpty ==
  ASSUME IInv, NEW t \in Tasks, pc[t] # "dispatch",
         answer' = [answer EXCEPT ![t] = None], S!Goto(t, "dispatch")
  PROVE  NextTask' = NextTask
<1>1. NextTask' = [NextTask EXCEPT ![t] = {None} \ {None}]
  BY HandTakes
<1>2. NextTask[t] = {}
  BY DEF NextTask
<1> QED
  BY <1>1, <1>2 DEF NextTask

(* One that goes on, neither. *)
LEMMA HandsGoOn ==
  ASSUME IInv, NEW t \in Tasks, pc[t] # "dispatch",
         answer' = answer, S!Goto(t, "traverse")
  PROVE  NextTask' = NextTask
<1>1. pc \in [Tasks -> S!PcValues]
  BY DEF IInv
<1>2. \A u \in Tasks : pc'[u] = IF u = t THEN "traverse" ELSE pc[u]
  BY <1>1 DEF S!Goto
<1> QED
  BY <1>2 DEF NextTask

LEMMA PopFirstImplements ==
  ASSUME IInv, IInv', NEW t \in Tasks, Pop(t), PopFirst(t)
  PROVE  S!PopBegin(t)
<1>1. /\ S!At(t, "pop") /\ pc[t] = "pop"
      /\ UNCHANGED <<uptime, events, line, latch, masked, pended, prev, sysDl, rq,
                     panic, jobDl, overtaken>>
  BY DEF PopFirst, Pop, S!At
<1>2. /\ QP!IInv /\ QP!IInv' /\ t \in Callers
      /\ QP!Stored \subseteq Jobs /\ None \notin Jobs
  BY CompositionAssumption, QueueConstants, QP!StoredAreItems DEF IInv, Callers
<1>3. CASE (Q!PopEmpty(t) \/ Q!PopSingleton(t)) /\ S!Goto(t, "dispatch")
  <2>1. QP!Queue!TakeAtOnce(t)
    BY <1>2, <1>3, SameFirst, QueueConstants, QP!TakeAtOnceImplements
  <2>2. trav = None /\ trav' = None
    BY <1>3 DEF Q!PopEmpty, Q!PopSingleton
  <2>3. CASE /\ QP!Stored = {} /\ QP!Stored' = QP!Stored
             /\ answer' = [answer EXCEPT ![t] = None]
    <3>1. NextTask' = NextTask
      BY <1>1, <1>3, <2>3, HandStaysEmpty
    <3> QED
      BY <1>1, <1>3, <2>2, <2>3, <3>1, SameStored, SameStoredNext
         DEF S!PopBegin, S!env, S!nvic, S!chain, S!wait
  <2>4. ASSUME NEW x \in QP!Stored, QP!Stored = {x}, QP!Stored' = {},
               answer' = [answer EXCEPT ![t] = x]
        PROVE  S!PopBegin(t)
    <3>1. NextTask' = [NextTask EXCEPT ![t] = {x}]
      <4>1. {x} \ {None} = {x}
        BY <1>2, <2>4
      <4> QED
        BY <1>3, <2>4, <4>1, HandTakes
    <3>2. Q!Stored = {x} /\ Q!Stored' = Q!Stored \ {x}
      BY <2>4, SameStored, SameStoredNext
    <3>3. S!Take(t, x)
      BY <1>3, <3>1, <3>2 DEF S!Take
    <3> QED
      BY <1>1, <2>2, <3>2, <3>3 DEF S!PopBegin, S!env, S!nvic, S!chain
  <2> QED
    BY <2>1, <2>3, <2>4 DEF QP!Queue!TakeAtOnce, QP!Queue!Returns
<1>4. CASE Q!PopBegin(t) /\ S!Goto(t, "traverse")
  <2>1. QP!Queue!BeginPop(t)
    BY <1>2, <1>4, SameFirst, QueueConstants, QP!BeginPopImplements
  <2>2. /\ QP!Stored' = QP!Stored /\ answer' = answer
        /\ (trav # None)' = TRUE
        /\ trav # None \/ Cardinality(QP!Stored) > 1
    BY <2>1, SameCardinality DEF QP!Queue!BeginPop
  <2>3. Cardinality(QP!Stored) > 1 => \E j, k \in QP!Stored : j # k
    <3>1. ASSUME Cardinality(QP!Stored) > 1, ~ \E j, k \in QP!Stored : j # k
          PROVE  FALSE
      <4>1. CASE QP!Stored = {}
        BY <3>1, <4>1, FS_EmptySet
      <4>2. ASSUME NEW x \in QP!Stored PROVE FALSE
        <5>1. QP!Stored = {x}
          BY <3>1, <4>2
        <5>2. Cardinality(QP!Stored) = 1
          BY <5>1, FS_Singleton
        <5> QED
          BY <3>1, <5>2
      <4> QED
        BY <4>1, <4>2
    <3> QED
      BY <3>1
  <2>4. NextTask' = NextTask
    BY <1>1, <1>4, <2>2, HandsGoOn
  <2> QED
    BY <1>1, <1>4, <2>2, <2>3, <2>4, SameStored, SameStoredNext
       DEF S!PopBegin, S!env, S!nvic, S!chain
<1> QED
  BY <1>3, <1>4 DEF PopFirst

LEMMA PopAgainImplements ==
  ASSUME IInv, NEW t \in Tasks, Pop(t), PopAgain(t)
  PROVE  S!PopFinish(t) \/ UNCHANGED S!vars
<1>1. /\ S!At(t, "traverse") /\ pc[t] = "traverse"
      /\ UNCHANGED <<uptime, events, line, latch, masked, pended, prev, sysDl, rq,
                     panic, jobDl, overtaken>>
  BY DEF PopAgain, Pop, S!At
<1>2. QP!IInv /\ t \in Callers /\ QP!Stored \subseteq Jobs /\ None \notin Jobs
  BY CompositionAssumption, QueueConstants, QP!StoredAreItems DEF IInv, Callers
<1>3. CASE Q!PopAdvance(t) /\ UNCHANGED pc
  <2>1. UNCHANGED QP!Queue!queueVars
    BY <1>2, <1>3, SameLoop, QueueConstants, QP!AdvanceImplements
  <2>2. QP!Stored' = QP!Stored /\ (trav # None)' = (trav # None) /\ answer' = answer
    BY <2>1 DEF QP!Queue!queueVars
  <2>3. NextTask' = NextTask
    BY <1>3, <2>2, HandsKept
  <2> QED
    BY <1>1, <1>3, <2>2, <2>3, SameStored, SameStoredNext
       DEF S!vars, S!env, S!nvic, S!chain, S!wait
<1>4. CASE Q!PopRemove(t) /\ S!Goto(t, "dispatch")
  <2>1. QP!Queue!TakeMinimum(t)
    BY <1>2, <1>4, SameLoop, QueueConstants, QP!RemoveImplements
  <2>2. PICK x \in QP!Queue!Minima :
          QP!Stored' = QP!Stored \ {x} /\ answer' = [answer EXCEPT ![t] = x]
    BY <2>1 DEF QP!Queue!TakeMinimum, QP!Queue!Returns
  <2>3. (trav # None) = TRUE /\ (trav # None)' = FALSE
    BY <2>1 DEF QP!Queue!TakeMinimum
  <2>4. x \in QP!Stored /\ \A y \in QP!Stored : ByDeadline[x] <= ByDeadline[y]
    BY <2>2 DEF QP!Queue!Minima
  <2>5. x \in S!Earliest(Q!Stored)
    BY <1>2, <2>4, SameStored DEF S!Earliest, ByDeadline
  <2>6. NextTask' = [NextTask EXCEPT ![t] = {x}]
    <3>1. {x} \ {None} = {x}
      BY <1>2, <2>4
    <3> QED
      BY <1>4, <2>2, <3>1, HandTakes
  <2>7. S!Take(t, x)
    BY <1>4, <2>2, <2>6, SameStored, SameStoredNext DEF S!Take
  <2> QED
    BY <1>1, <2>3, <2>5, <2>7 DEF S!PopFinish, S!env, S!nvic, S!chain
<1>5. CASE Q!PopRobbed(t) /\ S!Goto(t, "dispatch")
  <2>1. QP!Queue!FindRobbed(t)
    BY <1>2, <1>5, SameLoop, QueueConstants, QP!RobbedImplements
  <2>2. /\ (trav # None) = FALSE /\ (trav # None)' = FALSE
        /\ QP!Stored' = QP!Stored /\ answer' = [answer EXCEPT ![t] = None]
    BY <2>1 DEF QP!Queue!FindRobbed, QP!Queue!Returns
  <2>3. NextTask' = NextTask
    BY <1>1, <1>5, <2>2, HandStaysEmpty
  <2> QED
    BY <1>1, <1>5, <2>2, <2>3, SameStored, SameStoredNext
       DEF S!PopFinish, S!env, S!nvic, S!chain, S!wait
<1> QED
  BY <1>3, <1>4, <1>5 DEF PopAgain

LEMMA SchedulerInit == Init => S!Init
<1> SUFFICES ASSUME Init PROVE S!Init
  OBVIOUS
<1>1. QP!Init
  BY DEF Init, Q!Init, QP!Init, Q!Nodes, QP!Nodes, Callers
<1>2. QP!Queue!QueueInit
  BY <1>1, QueueConstants, QP!QueueInitImplements
<1>3. Q!Stored = {} /\ (trav # None) = FALSE
  BY <1>2, SameStored DEF QP!Queue!QueueInit
<1>4. NextTask = [t \in Tasks |-> {}]
  BY DEF Init, S!Init, NextTask
<1> QED
  BY <1>3, <1>4 DEF Init, S!Init

LEMMA SchedulerStep == IInv /\ IInv' /\ [Next]_vars => [S!Next]_(S!vars)
<1> SUFFICES ASSUME IInv, IInv', [Next]_vars PROVE [S!Next]_(S!vars)
  OBVIOUS
<1>1. ASSUME NEW t \in Tasks, Timestamper(t) PROVE S!Next
  BY <1>1, TimestamperImplements DEF S!Next, S!Cpu
<1>2. ASSUME NEW t \in Tasks, Pop(t) PROVE [S!Next]_(S!vars)
  <2>1. S!PopBegin(t) \/ S!PopFinish(t) \/ UNCHANGED S!vars
    BY <1>2, PopFirstImplements, PopAgainImplements DEF Pop
  <2> QED
    BY <2>1 DEF S!Next, S!Cpu, S!DispatcherStep
<1>3. ASSUME NEW t \in Tasks, DispatchNext(t) PROVE S!Next
  BY <1>3, DispatchNextImplements DEF S!Next, S!Cpu, S!DispatcherStep
<1>4. ASSUME NEW t \in Tasks, OffList(t) PROVE S!Next
  BY <1>4 DEF OffList, S!Next, S!Cpu, S!DispatcherStep
<1>5. ASSUME Environment PROVE S!Next
  BY <1>5 DEF Environment, S!Next
<1>6. ASSUME UNCHANGED vars PROVE UNCHANGED S!vars
  <2>1. UNCHANGED cpq /\ pc' = pc
    BY <1>6 DEF vars
  <2>2. Q!Stored' = Q!Stored /\ (trav # None)' = (trav # None) /\ NextTask' = NextTask
    BY <2>1, QueueKept, HandsKept
  <2> QED
    BY <1>6, <2>2 DEF vars, S!vars, S!env, S!nvic, S!chain, S!wait
<1> QED
  BY <1>1, <1>2, <1>3, <1>4, <1>5, <1>6 DEF Next, Cpu

(* Every behaviour of the handlers and exits on the linked list, whatever  *)
(* the timestampers insert and other exits carry on during a pop, is one   *)
(* of the scheduler on a set of jobs, whose pop takes an earliest one.     *)
THEOREM SchedulerImplemented == Spec => ImplementsScheduler
<1>1. IInv /\ IInv' /\ [Next]_vars => [S!Next]_(S!vars)
  BY SchedulerStep
<1> QED
  BY <1>1, SchedulerInit, Invariance, PTL DEF Spec, ImplementsScheduler, S!Spec

----------------------------------------------------------------------------
(* What is proved of the scheduler on a set of jobs holds on the list.     *)

(* Its results, for the state of this module.                              *)
SP == INSTANCE EdfRefinementProofs
        WITH wq <- Q!Stored, traversing <- trav # None, hand <- NextTask

LEMMA SameConstants == SP!ConstantsAssumption
BY CompositionAssumption
   DEF S!ConstantsAssumption, SP!ConstantsAssumption, S!Timestamp, SP!Timestamp,
       S!IsFiniteSet, SP!IsFiniteSet

LEMMA SameInit == S!Init <=> SP!Init
BY DEF S!Init, SP!Init, S!RqSlots, SP!RqSlots, S!RqIdx, SP!RqIdx

LEMMA SameTurn ==
  ASSUME NEW t
  PROVE  /\ S!TakesTimestamper(t) <=> SP!TakesTimestamper(t)
         /\ S!TakesDispatcher(t) <=> SP!TakesDispatcher(t)
         /\ \A at : S!At(t, at) <=> SP!At(t, at)
         /\ \A at : S!Goto(t, at) <=> SP!Goto(t, at)
BY DEF S!TakesTimestamper, SP!TakesTimestamper, S!TakesDispatcher, SP!TakesDispatcher, S!At,
       SP!At, S!Goto, SP!Goto, S!Running, SP!Running, S!Active, SP!Active, S!Eligible,
       SP!Eligible

LEMMA SamePosting ==
  ASSUME NEW j
  PROVE  /\ S!Preempts(j.dl) <=> SP!Preempts(j.dl)
         /\ S!Execute(j) <=> SP!Execute(j)
         /\ S!Enqueue(j) <=> SP!Enqueue(j)
BY DEF S!Preempts, SP!Preempts, S!Execute, SP!Execute, S!HandToDispatcher,
       SP!HandToDispatcher, S!Waiting, SP!Waiting, S!RqIdx, SP!RqIdx, S!Enqueue, SP!Enqueue,
       S!WaitQueueLen, SP!WaitQueueLen, S!Cardinality, SP!Cardinality

LEMMA SameTimestamper ==
  ASSUME NEW t
  PROVE  S!Timestamper(t) <=> SP!Timestamper(t)
<1> USE DEF S!env, SP!env, S!nvic, SP!nvic, S!chain, SP!chain, S!wait, SP!wait
<1>1. /\ S!Mask(t) <=> SP!Mask(t)
      /\ S!Overflows(t) <=> SP!Overflows(t)
      /\ S!Deadline(t) = SP!Deadline(t)
  BY DEF S!Mask, SP!Mask, S!Overflows, SP!Overflows, S!Deadline, SP!Deadline, S!Now, SP!Now
<1> QED
  BY <1>1, SameTurn, SamePosting DEF S!Timestamper, SP!Timestamper

LEMMA SameExit ==
  ASSUME NEW t
  PROVE  /\ S!PopBegin(t) <=> SP!PopBegin(t)
         /\ S!PopFinish(t) <=> SP!PopFinish(t)
         /\ S!DispatchNext(t) <=> SP!DispatchNext(t)
<1> USE DEF S!env, SP!env, S!nvic, SP!nvic, S!chain, SP!chain, S!wait, SP!wait
<1>1. /\ \A j : S!Take(t, j) <=> SP!Take(t, j)
      /\ S!Earliest(Q!Stored) = SP!Earliest(Q!Stored)
  BY SameTurn
     DEF S!Take, SP!Take, S!Earliest, SP!Earliest
<1>2. S!PopBegin(t) <=> SP!PopBegin(t)
  BY <1>1, SameTurn DEF S!PopBegin, SP!PopBegin
<1>3. S!PopFinish(t) <=> SP!PopFinish(t)
  BY <1>1, SameTurn DEF S!PopFinish, SP!PopFinish
<1>4. S!DispatchNext(t) <=> SP!DispatchNext(t)
  BY <1>1, SameTurn, SamePosting DEF S!DispatchNext, SP!DispatchNext
<1> QED
  BY <1>2, <1>3, <1>4

LEMMA SameDispatcher ==
  ASSUME NEW t
  PROVE  /\ S!Dispatch(t) <=> SP!Dispatch(t)
         /\ S!DispatcherStep(t) <=> SP!DispatcherStep(t)
<1> USE DEF S!env, SP!env, S!nvic, SP!nvic, S!chain, SP!chain, S!wait, SP!wait
<1>1. /\ S!Now = SP!Now /\ S!RqIdx(t) = SP!RqIdx(t)
  BY DEF S!Now, SP!Now, S!RqIdx, SP!RqIdx
<1>2. S!Dispatch(t) <=> SP!Dispatch(t)
  BY <1>1, SameTurn DEF S!Dispatch, SP!Dispatch
<1>3. S!CheckMissedDeadline(t) <=> SP!CheckMissedDeadline(t)
  BY <1>1, SameTurn DEF S!CheckMissedDeadline, SP!CheckMissedDeadline
<1>4. S!Exec(t) <=> SP!Exec(t)
  BY <1>1, SameTurn DEF S!Exec, SP!Exec
<1>5. S!GetPrevDeadline(t) <=> SP!GetPrevDeadline(t)
  BY <1>1, SameTurn DEF S!GetPrevDeadline, SP!GetPrevDeadline
<1>6. S!RestoreDeadline(t) <=> SP!RestoreDeadline(t)
  BY <1>1, SameTurn DEF S!RestoreDeadline, SP!RestoreDeadline
<1>7. S!UnpendTimestamper(t) <=> SP!UnpendTimestamper(t)
  BY <1>1, SameTurn DEF S!UnpendTimestamper, SP!UnpendTimestamper
<1>8. S!UnmaskTimestamper(t) <=> SP!UnmaskTimestamper(t)
  BY <1>1, SameTurn DEF S!UnmaskTimestamper, SP!UnmaskTimestamper
<1> QED
  BY <1>2, <1>3, <1>4, <1>5, <1>6, <1>7, <1>8, SameExit
     DEF S!DispatcherStep, SP!DispatcherStep

LEMMA SameNext == [S!Next]_(S!vars) <=> [SP!Next]_(SP!vars)
<1> USE DEF S!env, SP!env, S!nvic, SP!nvic, S!chain, SP!chain, S!wait, SP!wait
<1>1. S!Tick <=> SP!Tick
  BY DEF S!Tick, SP!Tick
<1>2. \A t : S!Raise(t) <=> SP!Raise(t)
  BY DEF S!Raise, SP!Raise
<1>3. S!Idle <=> SP!Idle
  BY DEF S!Idle, SP!Idle, S!Active, SP!Active, S!Eligible, SP!Eligible,
         S!vars, SP!vars
<1>4. S!Halted <=> SP!Halted
  BY DEF S!Halted, SP!Halted, S!vars, SP!vars
<1>5. S!Cpu <=> SP!Cpu
  BY SameTimestamper, SameDispatcher DEF S!Cpu, SP!Cpu
<1>6. UNCHANGED S!vars <=> UNCHANGED SP!vars
  BY DEF S!vars, SP!vars
<1> QED
  BY <1>1, <1>2, <1>3, <1>4, <1>5, <1>6 DEF S!Next, SP!Next

LEMMA SchedulerSpec == Spec => SP!Spec
BY SchedulerImplemented, SameInit, SameNext, PTL DEF ImplementsScheduler, S!Spec, SP!Spec

LEMMA SameProperties ==
  /\ S!OneJobPerTask <=> SP!OneJobPerTask
  /\ S!QueueNeverFull <=> SP!QueueNeverFull
  /\ S!WaitingNotUrgent <=> SP!WaitingNotUrgent
  /\ S!EarliestDeadlineRuns <=> SP!EarliestDeadlineRuns
<1> USE DEF S!Waiting, SP!Waiting
<1>1. S!OneJobPerTask <=> SP!OneJobPerTask
  BY DEF S!OneJobPerTask, SP!OneJobPerTask, S!IsWaiting, SP!IsWaiting, S!Busy, SP!Busy
<1>2. S!QueueNeverFull <=> SP!QueueNeverFull
  BY DEF S!QueueNeverFull, SP!QueueNeverFull
<1>3. S!WaitingNotUrgent <=> SP!WaitingNotUrgent
  BY DEF S!WaitingNotUrgent, SP!WaitingNotUrgent, S!InExit, SP!InExit
<1>4. S!EarliestDeadlineRuns <=> SP!EarliestDeadlineRuns
  BY DEF S!EarliestDeadlineRuns, SP!EarliestDeadlineRuns, S!Running, SP!Running,
         S!Active, SP!Active, S!Eligible, SP!Eligible
<1> QED
  BY <1>1, <1>2, <1>3, <1>4

LEMMA SamePhase == S!Phase = SP!Phase
BY DEF S!Phase, SP!Phase, S!PhaseOf, SP!PhaseOf, S!Busy, SP!Busy, S!IsWaiting, SP!IsWaiting,
       S!Waiting, SP!Waiting

LEMMA SamePhaseNext == (S!Phase = SP!Phase)'
BY SamePhase, PTL

LEMMA SameMachine ==
  /\ S!Machine!MachineInit <=> SP!Machine!MachineInit
  /\ [S!Machine!MachineNext]_(S!Machine!machine) <=> [SP!Machine!MachineNext]_(SP!Machine!machine)
<1> USE SamePhase, SamePhaseNext DEF S!Timestamp, SP!Timestamp
<1>1. S!Machine!MachineInit <=> SP!Machine!MachineInit
  BY DEF S!Machine!MachineInit, SP!Machine!MachineInit
<1>2. UNCHANGED S!Machine!machine <=> UNCHANGED SP!Machine!machine
  BY DEF S!Machine!machine, SP!Machine!machine
<1>3. S!Machine!Posted = SP!Machine!Posted /\ S!Machine!Waits = SP!Machine!Waits
  BY DEF S!Machine!Posted, SP!Machine!Posted, S!Machine!Waits, SP!Machine!Waits
<1>4. ASSUME NEW t
      PROVE  /\ \A p : S!Machine!Becomes(t, p) <=> SP!Machine!Becomes(t, p)
             /\ S!Machine!Arrive(t) <=> SP!Machine!Arrive(t)
             /\ S!Machine!MostUrgent(t) <=> SP!Machine!MostUrgent(t)
  BY <1>3 DEF S!Machine!Becomes, SP!Machine!Becomes, S!Machine!Arrive, SP!Machine!Arrive,
              S!Machine!MostUrgent, SP!Machine!MostUrgent
<1>5. ASSUME NEW t PROVE S!Machine!PostedNow(t) <=> SP!Machine!PostedNow(t)
  BY <1>3, <1>4 DEF S!Machine!PostedNow, SP!Machine!PostedNow
<1>6. ASSUME NEW t
      PROVE  /\ S!Machine!ArriveToWait(t) <=> SP!Machine!ArriveToWait(t)
             /\ S!Machine!ArriveToRun(t) <=> SP!Machine!ArriveToRun(t)
             /\ S!Machine!Post(t) <=> SP!Machine!Post(t)
  BY <1>4, <1>5 DEF S!Machine!ArriveToWait, SP!Machine!ArriveToWait, S!Machine!ArriveToRun,
                    SP!Machine!ArriveToRun, S!Machine!Post, SP!Machine!Post
<1>7. ASSUME NEW t
      PROVE  /\ S!Machine!Start(t) <=> SP!Machine!Start(t)
             /\ S!Machine!Complete(t) <=> SP!Machine!Complete(t)
             /\ S!Machine!Rearm(t) <=> SP!Machine!Rearm(t)
  BY <1>4 DEF S!Machine!Start, SP!Machine!Start, S!Machine!Complete, SP!Machine!Complete,
              S!Machine!Rearm, SP!Machine!Rearm
<1>8. S!Machine!MachineNext <=> SP!Machine!MachineNext
  BY <1>6, <1>7 DEF S!Machine!MachineNext, SP!Machine!MachineNext
<1> QED
  BY <1>1, <1>2, <1>8

(* A task has one job at most, in one place, on the linked list.           *)
THEOREM OneJobOnList == Spec => []S!OneJobPerTask
<1>1. SP!Spec => []SP!OneJobPerTask
  BY SameConstants, SP!OneJob
<1> QED
  BY <1>1, SchedulerSpec, SameProperties, PTL

(* With one node for each task, the queue never runs out of space: neither *)
(* expect of the scheduler panics.                                         *)
THEOREM QueueRoomOnList == Spec => []S!QueueNeverFull
<1>1. SP!Spec => []SP!QueueNeverFull
  BY SameConstants, SP!QueueRoom
<1> QED
  BY <1>1, SchedulerSpec, SameProperties, PTL

(* Once no exit is under way, every job on the list has to wait for a job  *)
(* that is posted.                                                         *)
THEOREM NothingUrgentOnList == Spec => []S!WaitingNotUrgent
<1>1. SP!Spec => []SP!WaitingNotUrgent
  BY SameConstants, SP!NothingUrgentLeft
<1> QED
  BY <1>1, SchedulerSpec, SameProperties, PTL

(* EDF on the linked list, as long as the cycle counter does not wrap and  *)
(* until a job is overtaken.                                               *)
THEOREM EarliestFirstOnList ==
  ASSUME S!NoWrap
  PROVE  Spec => []S!EarliestDeadlineRuns
<1>1. SP!NoWrap
  BY DEF S!NoWrap, SP!NoWrap
<1>2. SP!Spec => []SP!EarliestDeadlineRuns
  BY <1>1, SameConstants, SP!EarliestFirst
<1> QED
  BY <1>2, SchedulerSpec, SameProperties, PTL

(* The whole program, its handlers, its exits and the nodes of its queue,  *)
(* implements preemptive EDF on one job a task.                            *)
THEOREM EdfOnList ==
  ASSUME S!NoWrap
  PROVE  Spec => S!ImplementsEdfMachine
<1>1. SP!NoWrap
  BY DEF S!NoWrap, SP!NoWrap
<1>2. SP!Spec => SP!ImplementsEdfMachine
  BY <1>1, SameConstants, SP!SchedulerIsEdf
<1> QED
  BY <1>2, SchedulerSpec, SameMachine, PTL
     DEF S!ImplementsEdfMachine, SP!ImplementsEdfMachine,
         S!Machine!MachineSpec, SP!Machine!MachineSpec
=============================================================================
