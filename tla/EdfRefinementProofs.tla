------------------------ MODULE EdfRefinementProofs ------------------------
(***************************************************************************)
(* Proof that the scheduler implements EdfMachine, as long as the cycle    *)
(* counter does not wrap.                                                  *)
(***************************************************************************)
EXTENDS EdfRefinement, EdfSchedulerOrderProofs

MNext == Machine!MachineNext

(* What the machine sees changes only where the phase of a task does.      *)
LEMMA OnePhase ==
  ASSUME NEW t \in Tasks, NEW p, PhaseOf(t)' = p,
         \A u \in Tasks : u # t => PhaseOf(u)' = PhaseOf(u)
  PROVE  Phase' = [Phase EXCEPT ![t] = p]
BY DEF Phase

LEMMA SamePhase ==
  ASSUME \A u \in Tasks : PhaseOf(u)' = PhaseOf(u)
  PROVE  Phase' = Phase
BY DEF Phase

(* The phase of a task that is not posted or at work is that of its jobs.  *)
LEMMA PhaseKept ==
  ASSUME NEW u \in Tasks, pended'[u] = pended[u], IsWaiting(u)' <=> IsWaiting(u),
         \/ pc'[u] = pc[u]
         \/ {pc[u], pc'[u]} \subseteq {"get", "store", "unpend", "unmask"}
         \/ {pc[u], pc'[u]} \subseteq {"pop", "traverse", "dispatch", "off"}
         \/ {pc[u], pc'[u]} \subseteq {"entry", "exec"}
  PROVE  PhaseOf(u)' = PhaseOf(u)
<1>1. CASE pc'[u] = pc[u]
  BY <1>1 DEF PhaseOf, Busy
<1>2. CASE {pc[u], pc'[u]} \subseteq {"get", "store", "unpend", "unmask"}
  BY <1>2 DEF PhaseOf, Busy
<1>3. CASE {pc[u], pc'[u]} \subseteq {"pop", "traverse", "dispatch", "off"}
  BY <1>3 DEF PhaseOf, Busy
<1>4. CASE {pc[u], pc'[u]} \subseteq {"entry", "exec"}
  BY <1>4 DEF PhaseOf, Busy
<1> QED
  BY <1>1, <1>2, <1>3, <1>4

(* The machine's posted jobs are on the stack, its waiting jobs wait.      *)
LEMMA PostedOnStack == Machine!Posted \subseteq OnStack
<1>1. \A t \in Tasks : PhaseOf(t) \in {"posted", "running"} => t \in OnStack
  BY DEF PhaseOf, OnStack
<1> QED
  BY <1>1 DEF Machine!Posted, Phase

LEMMA WaitsWait ==
  ASSUME Handover, panic = "none"
  PROVE  \A t \in Tasks : t \in Machine!Waits <=> IsWaiting(t)
<1>1. \A t \in Tasks : IsWaiting(t) => ~pended[t] /\ t \notin Busy
  BY DEF Handover, OneJobPerTask
<1>2. \A t \in Tasks : PhaseOf(t) = "waiting" <=> IsWaiting(t)
  BY <1>1 DEF PhaseOf, Busy
<1> QED
  BY <1>2 DEF Machine!Waits, Phase

(* The waiting jobs of the machine have the deadlines of those that wait.  *)
LEMMA WaitsDates ==
  ASSUME TypeOK, Handover, Dated, panic = "none", NEW d \in Timestamp
  PROVE  (\E w \in Machine!Waits : jobDl[w] < d) <=> (\E k \in Waiting : k.dl < d)
<1>1. \A k \in Waiting : k.task \in Tasks /\ k.dl = jobDl[k.task] /\ IsWaiting(k.task)
  BY Types DEF Dated, JobsKeepDeadline, IsWaiting
<1>2. \A w \in Machine!Waits : w \in Tasks /\ \E k \in Waiting : k.task = w
  BY WaitsWait DEF Machine!Waits, IsWaiting
<1> QED
  BY <1>1, <1>2, WaitsWait

----------------------------------------------------------------------------
(* Until a job is overtaken, a task on the stack above every other job and *)
(* every exit is the most urgent of the machine.                           *)
LEMMA TopIsMostUrgent ==
  ASSUME TypeOK, Handover, Dated, Ordered, panic = "none", NEW t \in OnStack,
         \A u \in OnStack : Prio[u] <= Prio[t],
         \A v \in InExit : Prio[v] <= Prio[t]
  PROVE  Machine!MostUrgent(t)
<1> SUFFICES ASSUME ~overtaken
             PROVE  /\ \A u \in Machine!Posted \ {t} : jobDl[t] < jobDl[u]
                    /\ \A w \in Machine!Waits : jobDl[t] <= jobDl[w]
  BY DEF Machine!MostUrgent
<1>1. InOrder
  BY OrderedIsInOrder
<1>2. t \in Tasks /\ OnStack \subseteq Tasks
  BY DEF OnStack
<1>3. \A u \in OnStack : u # t => jobDl[t] < jobDl[u]
  <2>1. \A u \in OnStack : u # t => Prio[u] < Prio[t]
    BY <1>1, <1>2, Types DEF InOrder, StackOrdered
  <2> QED
    BY <1>1, <1>2, <2>1 DEF InOrder, StackOrdered
<1>4. jobDl[t] = sysDl
  BY <1>1, TopIsSystem DEF InOrder
<1>5. \A v \in InExit : ~AboveStack(v)
  BY <1>2, Types DEF AboveStack, InExit
<1>6. \A k \in Waiting : jobDl[t] <= k.dl
  BY <1>1, <1>4, <1>5 DEF InOrder, ServedAbove
<1>7. ASSUME NEW w \in Machine!Waits PROVE jobDl[t] <= jobDl[w]
  <2>1. PICK k \in Waiting : k.task = w
    BY <1>7, WaitsWait DEF IsWaiting, Machine!Waits
  <2> QED
    BY <1>6, <2>1 DEF Dated, JobsKeepDeadline
<1> QED
  BY <1>3, <1>7, PostedOnStack

(* A job posted by the code is one the machine may post.                   *)
LEMMA PostIsAllowed ==
  ASSUME TypeOK, Handover, Dated, Ordered, panic = "none",
         NEW j, j.dl \in Timestamp, j.task \in Tasks, Preempts(j.dl), Execute(j),
         jobDl'[j.task] = j.dl, Phase' = [Phase EXCEPT ![j.task] = "posted"]
  PROVE  Machine!PostedNow(j.task)
<1>1. overtaken' = (overtaken \/ \E k \in Waiting : k.dl < j.dl)
  BY DEF Execute, HandToDispatcher
<1>2. overtaken' = (overtaken \/ \E w \in Machine!Waits : jobDl[w] < jobDl'[j.task])
  BY <1>1, WaitsDates
<1>3. ASSUME ~overtaken, NEW u \in Machine!Posted PROVE jobDl'[j.task] < jobDl[u]
  <2>1. u \in OnStack /\ u \in Tasks
    BY PostedOnStack DEF OnStack
  <2>2. sysDl <= jobDl[u]
    BY <1>3, <2>1 DEF Ordered, DeadlineChain, IsLeastDeadline
  <2> QED
    BY <2>1, <2>2, Types, ConstantsAssumption DEF Preempts, Timestamp
<1> QED
  BY <1>2, <1>3 DEF Machine!PostedNow, Machine!Becomes

----------------------------------------------------------------------------
(* A step that leaves the jobs where they are is not seen, unless it moves *)
(* a dispatcher from one phase to another.                                 *)
Unseen == Phase' = Phase /\ jobDl' = jobDl /\ overtaken' = overtaken

LEMMA PcStep ==
  ASSUME TypeOK, NEW t \in Tasks, NEW at,
         UNCHANGED <<pended, wq, hand, jobDl, overtaken>>, Goto(t, at),
         \/ {pc[t], at} \subseteq {"get", "store", "unpend", "unmask"}
         \/ {pc[t], at} \subseteq {"pop", "traverse", "dispatch", "off"}
         \/ {pc[t], at} \subseteq {"entry", "exec"}
  PROVE  Unseen
<1>1. pc'[t] = at /\ \A u \in Tasks : u # t => pc'[u] = pc[u]
  BY DEF Goto, TypeOK
<1>2. \A u \in Tasks : IsWaiting(u)' <=> IsWaiting(u)
  BY DEF IsWaiting, Waiting
<1>3. \A u \in Tasks : PhaseOf(u)' = PhaseOf(u)
  BY <1>1, <1>2, PhaseKept
<1> QED
  BY <1>3, SamePhase DEF Unseen

(* A dispatcher starts its job, completes it, and re-arms its timestamper. *)
LEMMA DispatchStarts ==
  ASSUME TypeOK, Handover, Dated, Ordered, NEW t \in Tasks, Dispatch(t)
  PROVE  MNext
<1>1. /\ panic = "none" /\ pended[t] /\ pc' = [pc EXCEPT ![t] = "entry"]
      /\ pended' = [pended EXCEPT ![t] = FALSE]
      /\ UNCHANGED <<wq, hand, jobDl, overtaken>>
  BY DEF Dispatch, TakesDispatcher, Goto, wait
<1>2. \A u \in Tasks : IsWaiting(u)' <=> IsWaiting(u)
  BY <1>1 DEF IsWaiting, Waiting
<1>3. \A u \in Tasks : u # t => PhaseOf(u)' = PhaseOf(u)
  BY <1>1, <1>2, PhaseKept DEF TypeOK
<1>4. PhaseOf(t) = "posted" /\ PhaseOf(t)' = "running"
  BY <1>1 DEF PhaseOf, TypeOK
<1>5. Machine!MostUrgent(t)
  <2>1. t \in OnStack /\ OnStack \subseteq Active \cup {u \in Tasks : pended[u]} /\ InExit \subseteq Active
    BY <1>1 DEF OnStack, InExit, Active
  <2>2. \A u \in Active \cup {v \in Tasks : pended[v]} : Prio[u] <= Prio[t]
    BY Types DEF Dispatch, TakesDispatcher, Active
  <2> QED
    BY <1>1, <2>1, <2>2, TopIsMostUrgent
<1>6. Phase' = [Phase EXCEPT ![t] = "running"] /\ Phase[t] = "posted"
  BY <1>3, <1>4, OnePhase DEF Phase
<1> QED
  BY <1>1, <1>5, <1>6 DEF MNext, Machine!MachineNext, Machine!Start, Machine!Becomes

LEMMA ExecCompletes ==
  ASSUME TypeOK, Handover, Dated, Ordered, NEW t \in Tasks, Exec(t)
  PROVE  MNext
<1>1. /\ panic = "none" /\ Running(t) /\ pc[t] = "exec" /\ pc' = [pc EXCEPT ![t] = "get"]
      /\ UNCHANGED <<pended, wq, hand, jobDl, overtaken>>
  BY DEF Exec, At, Goto, nvic, wait
<1>2. \A u \in Tasks : IsWaiting(u)' <=> IsWaiting(u)
  BY <1>1 DEF IsWaiting, Waiting
<1>3. \A u \in Tasks : u # t => PhaseOf(u)' = PhaseOf(u)
  BY <1>1, <1>2, PhaseKept DEF TypeOK
<1>4. t \in Busy /\ ~pended[t] /\ pc'[t] = "get"
  BY <1>1 DEF Busy, TypeOK, Handover, OneJobPerTask
<1>5. PhaseOf(t) = "running" /\ PhaseOf(t)' = "finished"
  BY <1>1, <1>4 DEF PhaseOf, Busy
<1>6. Machine!MostUrgent(t)
  BY <1>1, RunningOnTop, TopIsMostUrgent DEF OnStack
<1>7. Phase' = [Phase EXCEPT ![t] = "finished"] /\ Phase[t] = "running"
  BY <1>3, <1>5, OnePhase DEF Phase
<1> QED
  BY <1>1, <1>6, <1>7 DEF MNext, Machine!MachineNext, Machine!Complete, Machine!Becomes

LEMMA UnmaskRearms ==
  ASSUME TypeOK, Handover, NEW t \in Tasks, UnmaskTimestamper(t)
  PROVE  MNext
<1>1. /\ panic = "none" /\ pc[t] = "unmask" /\ pc' = [pc EXCEPT ![t] = "pop"]
      /\ UNCHANGED <<pended, wq, hand, jobDl, overtaken>>
  BY DEF UnmaskTimestamper, At, Goto, wait
<1>2. \A u \in Tasks : IsWaiting(u)' <=> IsWaiting(u)
  BY <1>1 DEF IsWaiting, Waiting
<1>3. \A u \in Tasks : u # t => PhaseOf(u)' = PhaseOf(u)
  BY <1>1, <1>2, PhaseKept DEF TypeOK
<1>4. t \in Busy /\ ~pended[t] /\ ~IsWaiting(t) /\ pc'[t] = "pop"
  BY <1>1 DEF Busy, TypeOK, Handover, OneJobPerTask
<1>5. PhaseOf(t) = "finished" /\ PhaseOf(t)' = "armed"
  BY <1>1, <1>2, <1>4 DEF PhaseOf, Busy
<1>6. Phase' = [Phase EXCEPT ![t] = "armed"] /\ Phase[t] = "finished"
  BY <1>3, <1>5, OnePhase DEF Phase
<1> QED
  BY <1>1, <1>6 DEF MNext, Machine!MachineNext, Machine!Rearm, Machine!Becomes

----------------------------------------------------------------------------
(* A pop moves a job from the queue to the hand of its dispatcher.         *)
LEMMA TakeKeepsWaiting ==
  ASSUME TypeOK, NEW t \in Tasks, hand[t] = {}, NEW j \in wq, Take(t, j)
  PROVE  Waiting' = Waiting
<1>1. wq' = wq \ {j} /\ hand' = [hand EXCEPT ![t] = {j}] /\ hand \in [Tasks -> SUBSET Job]
  BY DEF Take, TypeOK
<1>2. hand'[t] = {j} /\ \A u \in Tasks : u # t => hand'[u] = hand[u]
  BY <1>1
<1>3. \A k : k \in Waiting' <=> (k \in wq /\ k # j) \/ k = j \/ \E u \in Tasks : u # t /\ k \in hand[u]
  BY <1>1, <1>2 DEF Waiting
<1>4. \A k : k \in Waiting <=> k \in wq \/ \E u \in Tasks : u # t /\ k \in hand[u]
  BY DEF Waiting
<1> QED
  BY <1>3, <1>4

LEMMA PopUnseen ==
  ASSUME TypeOK, Handover, NEW t \in Tasks, PopBegin(t) \/ PopFinish(t)
  PROVE  Unseen
<1>1. /\ panic = "none" /\ pc[t] \in {"pop", "traverse"}
      /\ Goto(t, "dispatch") \/ Goto(t, "traverse")
      /\ UNCHANGED <<pended, jobDl, overtaken>>
      /\ UNCHANGED <<wq, hand>> \/ \E j \in wq : Take(t, j)
  BY DEF PopBegin, PopFinish, At, Take, nvic, wait, Earliest
<1>2. hand[t] = {}
  BY <1>1 DEF Handover, OneJobPerTask
<1>3. Waiting' = Waiting
  BY <1>1, <1>2, TakeKeepsWaiting DEF Waiting
<1>4. \A u \in Tasks : IsWaiting(u)' <=> IsWaiting(u)
  BY <1>3 DEF IsWaiting
<1>5. \A u \in Tasks : PhaseOf(u)' = PhaseOf(u)
  <2>1. \A u \in Tasks : \/ pc'[u] = pc[u]
                         \/ {pc[u], pc'[u]} \subseteq {"pop", "traverse", "dispatch", "off"}
    BY <1>1 DEF Goto, TypeOK
  <2> QED
    BY <1>1, <1>4, <2>1, PhaseKept
<1> QED
  BY <1>1, <1>5, SamePhase DEF Unseen

(* The end of the exit posts the job in hand, or puts it back.             *)
LEMMA ExitPosts ==
  ASSUME TypeOK, Handover, Handover', Dated, Ordered, NEW t \in Tasks, DispatchNext(t)
  PROVE  MNext \/ Unseen
<1>1. /\ panic = "none" /\ pc[t] = "dispatch" /\ pc' = [pc EXCEPT ![t] = "off"]
      /\ hand' = [hand EXCEPT ![t] = {}] /\ jobDl' = jobDl
  BY DEF DispatchNext, At, Goto
<1>2. hand'[t] = {} /\ \A u \in Tasks : u # t => hand'[u] = hand[u] /\ pc'[u] = pc[u]
  BY <1>1 DEF TypeOK
<1>3. \A u \in Tasks : \/ pc'[u] = pc[u]
                       \/ {pc[u], pc'[u]} \subseteq {"pop", "traverse", "dispatch", "off"}
  BY <1>1, <1>2 DEF TypeOK
<1>4. \A k : k \in Waiting' <=> k \in wq' \/ \E u \in Tasks : u # t /\ k \in hand[u]
  BY <1>2 DEF Waiting
<1>5. \A k : k \in Waiting <=> k \in wq \/ k \in hand[t] \/ \E u \in Tasks : u # t /\ k \in hand[u]
  BY DEF Waiting
<1>6. ASSUME UNCHANGED <<pended, overtaken>>, Waiting' = Waiting PROVE Unseen
  <2>1. \A u \in Tasks : IsWaiting(u)' <=> IsWaiting(u)
    BY <1>6 DEF IsWaiting
  <2> QED
    BY <1>1, <1>3, <1>6, <2>1, PhaseKept, SamePhase DEF Unseen
<1>7. CASE hand[t] = {}
  <2>1. UNCHANGED <<pended, overtaken, wq>>
    BY <1>7 DEF DispatchNext
  <2> QED
    BY <1>4, <1>5, <1>6, <1>7, <2>1
<1>8. ASSUME NEW j \in hand[t], Enqueue(j), UNCHANGED <<pended, overtaken>> PROVE Unseen
  <2>1. panic' # "queue full"
    BY DEF Handover, QueueNeverFull
  <2>2. wq' = wq \cup {j}
    BY <1>8, <2>1 DEF Enqueue
  <2>3. hand[t] = {j}
    BY <1>1, <1>8 DEF Handover, HandHoldsOne
  <2> QED
    BY <1>4, <1>5, <1>6, <1>8, <2>2, <2>3
<1>9. ASSUME NEW j \in hand[t], Preempts(j.dl), Execute(j), wq' = wq PROVE MNext
  <2> DEFINE s == j.task
  <2>1. j \in Waiting /\ j \in Job /\ s \in Tasks /\ j.dl \in Timestamp /\ IsWaiting(s)
    BY <1>9, Types DEF Waiting, Job, IsWaiting
  <2>2. pended' = [pended EXCEPT ![s] = TRUE]
    BY <1>9 DEF Execute, HandToDispatcher
  <2>3. j.dl = jobDl[s] /\ ~pended[s] /\ s \notin Busy
    BY <1>1, <2>1 DEF Dated, JobsKeepDeadline, Handover, OneJobPerTask
  <2>4. \A k : k \in Waiting' <=> k \in Waiting /\ k # j
    <3>1. hand[t] = {j}
      BY <1>1, <1>9 DEF Handover, HandHoldsOne
    <3>2. j \notin wq /\ \A u \in Tasks : u # t => j \notin hand[u]
      BY <1>1, <1>9 DEF Handover, OneJobPerTask
    <3> QED
      BY <1>4, <1>5, <1>9, <3>1, <3>2
  <2>5. \A u \in Tasks : u # s => (IsWaiting(u)' <=> IsWaiting(u))
    BY <2>4 DEF IsWaiting
  <2>6. \A u \in Tasks : u # s => PhaseOf(u)' = PhaseOf(u)
    BY <1>3, <2>1, <2>2, <2>5, PhaseKept DEF TypeOK
  <2>7. PhaseOf(s) = "waiting" /\ PhaseOf(s)' = "posted"
    BY <2>1, <2>2, <2>3 DEF PhaseOf, Busy, TypeOK
  <2>8. Phase' = [Phase EXCEPT ![s] = "posted"] /\ Phase[s] = "waiting"
    BY <2>1, <2>6, <2>7, OnePhase DEF Phase
  <2>9. Machine!PostedNow(s)
    BY <1>1, <1>9, <2>1, <2>3, <2>8, PostIsAllowed
  <2> QED
    BY <1>1, <2>1, <2>8, <2>9 DEF MNext, Machine!MachineNext, Machine!Post
<1> QED
  <2>1. \/ hand[t] = {}
        \/ \E j \in hand[t] : \/ Preempts(j.dl) /\ Execute(j) /\ wq' = wq
                              \/ Enqueue(j) /\ UNCHANGED <<pended, overtaken>>
    BY DEF DispatchNext
  <2> QED
    BY <1>7, <1>8, <1>9, <2>1

(* A timestamper posts its job, or puts it in the queue, or overflows.     *)
LEMMA TimestamperArrives ==
  ASSUME TypeOK, Handover, Handover', Dated, Ordered, NEW t \in Tasks, Timestamper(t)
  PROVE  MNext \/ Unseen
<1> DEFINE j == [task |-> t, dl |-> Deadline(t)]
<1>1. UNCHANGED <<pc, hand>>
  BY DEF Timestamper
<1>2. CASE Overflows(t)
  <2>1. UNCHANGED <<pended, wq, jobDl, overtaken>>
    BY <1>2 DEF Timestamper
  <2>2. \A u \in Tasks : PhaseOf(u)' = PhaseOf(u)
    BY <1>1, <2>1 DEF PhaseOf, Busy, IsWaiting, Waiting
  <2> QED
    BY <2>1, <2>2, SamePhase DEF Unseen
<1>3. CASE ~Overflows(t)
  <2>1. Arrives(t)
    BY <1>3 DEF Arrives
  <2>2. /\ panic = "none" /\ ~IsWaiting(t) /\ t \notin OnStack /\ Deadline(t) \in Timestamp
        /\ jobDl' = [jobDl EXCEPT ![t] = Deadline(t)]
    BY <2>1, ArrivesFresh
  <2>3. ~pended[t] /\ t \notin Busy
    <3>1. ~masked[t]
      BY DEF Timestamper, TakesTimestamper, Eligible
    <3> QED
      BY <2>2, <3>1 DEF Handover, OneJobPerTask
  <2>4. Phase[t] = "armed"
    BY <2>2, <2>3 DEF Phase, PhaseOf, Busy
  <2>5. Machine!Arrive(t)
    BY <2>2, <2>4 DEF Machine!Arrive
  <2>6. ASSUME Preempts(j.dl), Execute(j), wq' = wq PROVE MNext
    <3>1. pended' = [pended EXCEPT ![t] = TRUE]
      BY <2>6 DEF Execute, HandToDispatcher
    <3>2. \A u \in Tasks : IsWaiting(u)' <=> IsWaiting(u)
      BY <1>1, <2>6 DEF IsWaiting, Waiting
    <3>3. \A u \in Tasks : u # t => PhaseOf(u)' = PhaseOf(u)
      BY <1>1, <3>1, <3>2, PhaseKept DEF TypeOK
    <3>4. PhaseOf(t)' = "posted"
      BY <3>1 DEF PhaseOf, TypeOK
    <3>5. Phase' = [Phase EXCEPT ![t] = "posted"]
      BY <3>3, <3>4, OnePhase
    <3>6. j.task = t /\ j.dl = Deadline(t) /\ jobDl'[t] = j.dl
      BY <2>2 DEF TypeOK
    <3>7. Machine!PostedNow(t)
      BY <2>2, <2>6, <3>5, <3>6, PostIsAllowed
    <3> QED
      BY <2>5, <3>7 DEF MNext, Machine!MachineNext, Machine!ArriveToRun
  <2>7. ASSUME Enqueue(j), UNCHANGED <<pended, overtaken>> PROVE MNext
    <3>1. wq' = wq \cup {j}
      BY <2>7 DEF Enqueue, Handover, QueueNeverFull
    <3>2. \A k : k \in Waiting' <=> k \in Waiting \/ k = j
      BY <1>1, <3>1 DEF Waiting
    <3>3. IsWaiting(t)' /\ \A u \in Tasks : u # t => (IsWaiting(u)' <=> IsWaiting(u))
      <4>1. j.task = t /\ j \in Waiting'
        BY <3>2
      <4> HIDE DEF j
      <4> QED
        BY <3>2, <4>1 DEF IsWaiting
    <3>4. \A u \in Tasks : u # t => PhaseOf(u)' = PhaseOf(u)
      BY <1>1, <2>7, <3>3, PhaseKept
    <3>5. PhaseOf(t)' = "waiting"
      BY <1>1, <2>3, <2>7, <3>3 DEF PhaseOf, Busy
    <3>6. Phase' = [Phase EXCEPT ![t] = "waiting"]
      BY <3>4, <3>5, OnePhase
    <3> QED
      BY <2>5, <2>7, <3>6 DEF MNext, Machine!MachineNext, Machine!ArriveToWait, Machine!Becomes
  <2>8. \/ Preempts(j.dl) /\ Execute(j) /\ wq' = wq
        \/ Enqueue(j) /\ UNCHANGED <<pended, overtaken>>
    BY <1>3 DEF Timestamper
  <2> QED
    BY <2>6, <2>7, <2>8
<1> QED
  BY <1>2, <1>3

----------------------------------------------------------------------------
(* As long as the cycle counter does not wrap, the scheduler implements    *)
(* preemptive EDF: every step is one of EdfMachine, or not seen by it.     *)
THEOREM SchedulerIsEdf ==
  ASSUME NoWrap
  PROVE  Spec => ImplementsEdfMachine
<1>1. Init => Machine!MachineInit
  <2> SUFFICES ASSUME Init PROVE Machine!MachineInit
    OBVIOUS
  <2>1. \A t \in Tasks : PhaseOf(t) = "armed"
    BY DEF Init, PhaseOf, Busy, IsWaiting, Waiting
  <2>2. jobDl \in [Tasks -> Timestamp] /\ overtaken = FALSE
    BY ConstantsAssumption DEF Init, Timestamp
  <2> QED
    BY <2>1, <2>2 DEF Machine!MachineInit, Phase
<1>2. IInv /\ IInv' /\ [Next]_vars => [MNext]_(Machine!machine)
  <2> SUFFICES ASSUME IInv, IInv', [Next]_vars PROVE MNext \/ Unseen
    BY DEF Unseen, Machine!machine
  <2>0. TypeOK /\ Handover /\ Handover' /\ Dated /\ Ordered
    BY DEF IInv
  <2>1. CASE Tick \/ (\E t \in Tasks : Raise(t)) \/ Idle \/ Halted \/ UNCHANGED vars
    <3>1. UNCHANGED <<pc, pended, wq, hand, jobDl, overtaken>>
      BY <2>1 DEF Tick, Raise, Idle, Halted, vars, nvic, wait
    <3>2. \A u \in Tasks : PhaseOf(u)' = PhaseOf(u)
      BY <3>1 DEF PhaseOf, Busy, IsWaiting, Waiting
    <3> QED
      BY <3>1, <3>2, SamePhase DEF Unseen
  <2>2. ASSUME NEW t \in Tasks, CheckMissedDeadline(t) PROVE Unseen
    <3>1. pc[t] = "entry" /\ UNCHANGED <<pended, wq, hand, jobDl, overtaken>>
      BY <2>2 DEF CheckMissedDeadline, At, nvic, wait
    <3>2. Goto(t, "exec") \/ Goto(t, "entry")
      BY <2>0, <2>2, <3>1 DEF CheckMissedDeadline, Goto, TypeOK
    <3> QED
      BY <2>0, <3>1, <3>2, PcStep
  <2>3. ASSUME NEW t \in Tasks,
               GetPrevDeadline(t) \/ RestoreDeadline(t) \/ UnpendTimestamper(t)
        PROVE  Unseen
    <3>1. /\ UNCHANGED <<pended, wq, hand, jobDl, overtaken>>
          /\ \E at : Goto(t, at) /\ {pc[t], at} \subseteq {"get", "store", "unpend", "unmask"}
      BY <2>3 DEF GetPrevDeadline, RestoreDeadline, UnpendTimestamper, At, nvic, wait
    <3> QED
      BY <2>0, <3>1, PcStep
  <2>4. ASSUME NEW t \in Tasks, Timestamper(t) \/ Dispatch(t) \/ DispatcherStep(t)
        PROVE  MNext \/ Unseen
    BY <2>0, <2>2, <2>3, <2>4, TimestamperArrives, DispatchStarts, ExecCompletes,
       UnmaskRearms, PopUnseen, ExitPosts DEF DispatcherStep
  <2> QED
    BY <2>1, <2>4 DEF Next, Cpu
<1>3. Spec => []IInv
  BY InvariantHolds
<1> QED
  BY <1>1, <1>2, <1>3, PTL DEF Spec, ImplementsEdfMachine, Machine!MachineSpec, MNext
=============================================================================
