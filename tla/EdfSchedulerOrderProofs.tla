---------------------- MODULE EdfSchedulerOrderProofs ----------------------
(***************************************************************************)
(* Proofs of what the scheduler guarantees of the order of deadlines, as   *)
(* long as the cycle counter does not wrap and no job has been overtaken.  *)
(***************************************************************************)
EXTENDS EdfSchedulerProofs

USE DEF Timestamp

(* What the arithmetic of the proofs needs of the types. *)
LEMMA Types ==
  ASSUME TypeOK
  PROVE  /\ uptime \in Int /\ sysDl \in Int /\ MaxTimestamp \in Int /\ sysDl <= MaxTimestamp
         /\ \A t \in Tasks : /\ Prio[t] \in Int /\ RelDeadline[t] \in Int
                             /\ jobDl[t] \in Int /\ jobDl[t] <= MaxTimestamp
         /\ \A j \in Waiting : j \in Job /\ j.task \in Tasks /\ j.dl \in Int
                               /\ j.dl <= MaxTimestamp
<1>1. \A j \in Waiting : j \in Job
  BY DEF TypeOK, Waiting
<1>2. \A j \in Job : j.task \in Tasks /\ j.dl \in Int /\ j.dl <= MaxTimestamp
  BY ConstantsAssumption DEF Job
<1>3. uptime \in Int /\ sysDl \in Int /\ MaxTimestamp \in Int /\ sysDl <= MaxTimestamp
  BY ConstantsAssumption DEF TypeOK
<1>4. \A t \in Tasks : /\ Prio[t] \in Int /\ RelDeadline[t] \in Int
                       /\ jobDl[t] \in Int /\ jobDl[t] <= MaxTimestamp
  BY ConstantsAssumption DEF TypeOK
<1> QED
  BY <1>1, <1>2, <1>3, <1>4

(* Before its first wrap the counter counts the cycles of the uptime. *)
LEMMA NowIsUptime ==
  ASSUME TypeOK, NoWrap
  PROVE  Now = uptime
<1>1. uptime \in Nat /\ MaxTimestamp \in Nat /\ uptime <= MaxTimestamp
  BY ConstantsAssumption DEF TypeOK, NoWrap
<1> QED
  BY <1>1 DEF Now

(* The counter never runs ahead of the uptime. *)
LEMMA NowNoLater ==
  ASSUME TypeOK
  PROVE  Now <= uptime
<1>1. uptime \in Nat /\ MaxTimestamp \in Nat
  BY ConstantsAssumption DEF TypeOK
<1> QED
  BY <1>1 DEF Now

----------------------------------------------------------------------------
(* The panic and an overtaking are for ever. *)
LEMMA StillGood ==
  ASSUME [Next]_vars
  PROVE  /\ panic' = "none" => panic = "none"
         /\ ~overtaken' /\ overtaken \in BOOLEAN => ~overtaken
<1>1. CASE Tick \/ (\E t \in Tasks : Raise(t)) \/ Idle \/ Halted \/ UNCHANGED vars
  BY <1>1 DEF Tick, Raise, Idle, Halted, vars
<1>2. ASSUME NEW t \in Tasks, Timestamper(t)
      PROVE  panic = "none" /\ (~overtaken' /\ overtaken \in BOOLEAN => ~overtaken)
  <2>1. panic = "none" /\ (UNCHANGED overtaken \/ Execute([task |-> t, dl |-> Deadline(t)]))
    BY <1>2 DEF Timestamper
  <2> QED
    BY <2>1 DEF Execute, HandToDispatcher
<1>3. ASSUME NEW t \in Tasks, DispatchNext(t)
      PROVE  panic = "none" /\ (~overtaken' /\ overtaken \in BOOLEAN => ~overtaken)
  <2>1. panic = "none" /\ (UNCHANGED overtaken \/ \E j \in hand[t] : Execute(j))
    BY <1>3 DEF DispatchNext, At
  <2> QED
    BY <2>1 DEF Execute, HandToDispatcher
<1>4. ASSUME NEW t \in Tasks, Dispatch(t) \/ (DispatcherStep(t) /\ ~DispatchNext(t))
      PROVE  panic = "none" /\ UNCHANGED overtaken
  BY <1>4 DEF DispatcherStep, Dispatch, CheckMissedDeadline, Exec, GetPrevDeadline,
              RestoreDeadline, UnpendTimestamper, UnmaskTimestamper, PopBegin, PopFinish, At
<1> QED
  BY <1>1, <1>2, <1>3, <1>4 DEF Next, Cpu, Idle, Halted

(* A task arrives when it has no job, with a deadline counted from now.    *)
LEMMA ArrivesFresh ==
  ASSUME TypeOK, Handover, NEW t \in Tasks, Arrives(t)
  PROVE  /\ panic = "none" /\ ~IsWaiting(t) /\ t \notin OnStack
         /\ Deadline(t) \in Timestamp
         /\ Deadline(t) = Now + RelDeadline[t]
         /\ jobDl' = [jobDl EXCEPT ![t] = Deadline(t)]
<1>1. panic = "none" /\ ~masked[t]
  BY DEF Arrives, Timestamper, TakesTimestamper, Eligible
<1>2. ~IsWaiting(t) /\ ~pended[t] /\ t \notin Busy
  BY <1>1 DEF Handover, OneJobPerTask
<1>3. t \notin OnStack
  BY <1>2 DEF OnStack, Busy
<1>4. jobDl' = [jobDl EXCEPT ![t] = Deadline(t)]
  BY DEF Arrives, Timestamper
<1>5. Deadline(t) \in Timestamp
  <2>1. uptime \in Nat
    BY ConstantsAssumption DEF TypeOK
  <2> QED
    BY <2>1, NowInRange, ConstantsAssumption DEF Arrives, Overflows, Deadline
<1> QED
  BY <1>1, <1>2, <1>3, <1>4, <1>5 DEF Deadline

(* No job is outstanding when the system starts. *)
THEOREM DatedInit == Init => Dated
<1> SUFFICES ASSUME Init PROVE Dated
  OBVIOUS
<1>1. Waiting = {} /\ OnStack = {}
  BY DEF Init, Waiting, OnStack
<1> QED
  BY <1>1 DEF Dated, JobsKeepDeadline, ArrivedBefore, IsWaiting

(* A job keeps, wherever it is handed, the deadline its arrival gave it,   *)
(* and that deadline is no later than one counted from now.                *)
LEMMA DatedStep == TypeOK /\ Handover /\ Dated /\ [Next]_vars => Dated'
<1> SUFFICES ASSUME TypeOK, Handover, Dated, [Next]_vars, panic' = "none"
             PROVE  JobsKeepDeadline' /\ ArrivedBefore'
  BY DEF Dated
<1>1. panic = "none"
  BY StillGood
<1>2. Frame
  BY FrameStep
<1>3. \A u \in Tasks : IsWaiting(u) \/ u \in OnStack => jobDl'[u] = jobDl[u]
  BY <1>2, ArrivesFresh DEF Frame
<1>4. \A u \in Tasks : Arrives(u) => jobDl'[u] = Deadline(u)
  BY ArrivesFresh DEF TypeOK
<1>5. JobsKeepDeadline'
  <2> SUFFICES ASSUME NEW k \in Waiting' PROVE k.dl = jobDl'[k.task]
    BY DEF JobsKeepDeadline
  <2>1. CASE k \in Waiting
    <3>1. k.task \in Tasks /\ IsWaiting(k.task)
      BY <2>1, Types DEF IsWaiting
    <3> QED
      BY <1>1, <1>3, <2>1, <3>1 DEF Dated, JobsKeepDeadline
  <2>2. ASSUME NEW t \in Tasks, Arrives(t), k = [task |-> t, dl |-> Deadline(t)]
        PROVE  k.dl = jobDl'[k.task]
    BY <1>4, <2>2
  <2> QED
    BY <1>2, <2>1, <2>2 DEF Frame
<1>6. ArrivedBefore'
  <2> SUFFICES ASSUME NEW u \in Tasks, u \in OnStack' \/ IsWaiting(u)'
               PROVE  jobDl'[u] <= uptime' + RelDeadline[u]
    BY DEF ArrivedBefore
  <2>0. /\ uptime \in Int /\ uptime' \in Int /\ uptime <= uptime'
        /\ RelDeadline[u] \in Int /\ jobDl[u] \in Int
    <3>1. TypeOK'
      BY TypeStep
    <3> QED
      BY <1>2, <3>1, Types, ConstantsAssumption DEF Frame, TypeOK
  <2>1. CASE u \in OnStack \/ IsWaiting(u)
    <3>1. jobDl'[u] = jobDl[u] /\ jobDl[u] <= uptime + RelDeadline[u]
      BY <1>1, <1>3, <2>1 DEF Dated, ArrivedBefore
    <3> QED
      BY <2>0, <3>1
  <2>2. CASE Arrives(u)
    <3>1. jobDl'[u] = Now + RelDeadline[u]
      BY <1>4, <2>2, ArrivesFresh
    <3>2. Now \in Int /\ Now <= uptime
      <4>1. uptime \in Nat
        BY ConstantsAssumption DEF TypeOK
      <4> QED
        BY <4>1, NowNoLater, NowInRange, ConstantsAssumption
    <3> QED
      BY <2>0, <3>1, <3>2
  <2>3. u \in OnStack \/ IsWaiting(u) \/ Arrives(u)
    <3>1. ASSUME IsWaiting(u)' PROVE IsWaiting(u) \/ Arrives(u)
      BY <1>2, <3>1 DEF Frame, IsWaiting
    <3>2. ASSUME pended'[u] PROVE pended[u] \/ IsWaiting(u) \/ Arrives(u)
      BY <1>2, <3>2 DEF Frame, IsWaiting
    <3>3. ASSUME pc'[u] \in {"entry", "exec", "get", "store"} PROVE u \in OnStack
      BY <1>2, <3>3 DEF Frame, OnStack
    <3> QED
      BY <3>1, <3>2, <3>3 DEF OnStack
  <2> QED
    BY <2>1, <2>2, <2>3
<1> QED
  BY <1>5, <1>6

----------------------------------------------------------------------------
(* The part of Ordered that holds in a state where no job was overtaken.   *)
InOrder ==
  /\ StackOrdered
  /\ IsLeastDeadline(sysDl, OnStack)
  /\ \A t \in OnStack : IsLeastDeadline(rq[RqIdx(t)], Below(t))
  /\ \A t \in Tasks : pc[t] = "store" => prev[t] = rq[RqIdx(t)]
  /\ UrgentIsHigher /\ HandIsLater /\ ServedAbove

(* The two ways to write the invariant. *)
LEMMA OrderedIsInOrder == Ordered <=> (panic = "none" /\ ~overtaken => InOrder)
BY DEF Ordered, DeadlineChain, InOrder

(* The dispatcher that runs has the highest level of those not off. *)
LEMMA RunningOnTop ==
  ASSUME TypeOK, NEW t \in Tasks, Running(t)
  PROVE  /\ \A u \in OnStack : Prio[u] <= Prio[t]
         /\ \A v \in InExit : Prio[v] <= Prio[t]
<1>1. OnStack \subseteq Active \cup {u \in Tasks : pended[u]} /\ InExit \subseteq Active
  BY DEF OnStack, InExit, Active
<1> QED
  BY <1>1 DEF Running

(* The dispatcher that runs is above the stack if any other is.            *)
LEMMA AboveFromAny ==
  ASSUME TypeOK, NEW t \in Tasks, Running(t), NEW v \in InExit, AboveStack(v)
  PROVE  AboveStack(t)
<1>1. Prio[v] <= Prio[t] /\ v \in Tasks
  BY RunningOnTop DEF InExit
<1>2. \A u \in OnStack : u \in Tasks
  BY DEF OnStack
<1> QED
  BY <1>1, <1>2, Types DEF AboveStack

(* The system deadline is that of the job on top of the stack.             *)
LEMMA TopIsSystem ==
  ASSUME TypeOK, StackOrdered, IsLeastDeadline(sysDl, OnStack),
         NEW t \in OnStack, \A u \in OnStack : Prio[u] <= Prio[t]
  PROVE  jobDl[t] = sysDl
<1>1. OnStack \subseteq Tasks
  BY DEF OnStack
<1>2. \A u \in OnStack : u # t => jobDl[t] < jobDl[u]
  <2>1. \A u \in OnStack : u # t => Prio[u] < Prio[t]
    BY <1>1, Types DEF StackOrdered
  <2> QED
    BY <2>1 DEF StackOrdered
<1>3. sysDl <= jobDl[t]
  BY DEF IsLeastDeadline
<1>4. CASE sysDl = MaxTimestamp
  BY <1>1, <1>3, <1>4, Types
<1>5. ASSUME NEW u \in OnStack, sysDl = jobDl[u] PROVE jobDl[t] = sysDl
  BY <1>1, <1>2, <1>3, <1>5, Types
<1> QED
  BY <1>4, <1>5 DEF IsLeastDeadline

(* A job in a hand waits for the system deadline, or its dispatcher is     *)
(* about to compare it.                                                    *)
LEMMA HandServed ==
  ASSUME TypeOK, Handover, panic = "none", InOrder, NEW v \in Tasks, NEW k \in hand[v]
  PROVE  sysDl <= k.dl \/ (v \in InExit /\ AboveStack(v) /\ WillServe(v, k))
<1>1. pc[v] = "dispatch" /\ v \in InExit
  BY DEF Handover, OneJobPerTask, InExit
<1>2. k \in Waiting
  BY DEF Waiting
<1>3. WillServe(v, k)
  BY <1>1, <1>2, Types DEF WillServe
<1>4. ASSUME NEW u \in OnStack, ~(Prio[u] < Prio[v]) PROVE sysDl <= k.dl
  <2>1. u \in Tasks /\ Prio[u] >= Prio[v]
    BY <1>4, Types DEF OnStack
  <2>2. jobDl[u] <= k.dl /\ sysDl <= jobDl[u]
    BY <2>1 DEF InOrder, HandIsLater, IsLeastDeadline
  <2> QED
    BY <1>2, <2>1, <2>2, Types
<1> QED
  BY <1>1, <1>3, <1>4 DEF AboveStack

(* A step that moves no job and leaves the deadlines as they are.          *)
LEMMA KeepInOrder ==
  ASSUME TypeOK, InOrder, OnStack' = OnStack,
         UNCHANGED <<sysDl, rq, wq, hand, traversing>>,
         \A u \in OnStack : jobDl'[u] = jobDl[u],
         \A t \in Tasks : pc'[t] = "store" =>
           \/ pc[t] = "store" /\ prev'[t] = prev[t]
           \/ prev'[t] = rq[RqIdx(t)],
         \A v \in InExit : \/ pc'[v] = pc[v]
                           \/ {pc[v], pc'[v]} \subseteq {"unpend", "unmask", "pop"}
  PROVE  InOrder'
<1>1. Waiting' = Waiting
  BY DEF Waiting
<1>2. \A t : Below(t)' = Below(t)
  BY DEF Below
<1>3. \A t : Below(t) \subseteq OnStack
  BY DEF Below
<1>4. StackOrdered' /\ IsLeastDeadline(sysDl, OnStack)'
  BY DEF InOrder, StackOrdered, IsLeastDeadline
<1>5. (\A t \in OnStack : IsLeastDeadline(rq[RqIdx(t)], Below(t)))'
  BY <1>2, <1>3 DEF InOrder, IsLeastDeadline, RqIdx
<1>6. (\A t \in Tasks : pc[t] = "store" => prev[t] = rq[RqIdx(t)])'
  BY DEF InOrder, RqIdx
<1>7. UrgentIsHigher' /\ HandIsLater'
  BY <1>1 DEF InOrder, UrgentIsHigher, HandIsLater
<1>8. \A v : AboveStack(v)' <=> AboveStack(v)
  BY DEF AboveStack
<1>9. \A v \in InExit : \A k : WillServe(v, k) => v \in InExit' /\ WillServe(v, k)'
  BY DEF InExit, WillServe
<1>10. ServedAbove'
  BY <1>1, <1>8, <1>9 DEF InOrder, ServedAbove
<1> QED
  BY <1>4, <1>5, <1>6, <1>7, <1>10 DEF InOrder

(* A job more urgent than the system deadline, from a level above the      *)
(* stack, and no less urgent than those that wait, is posted.              *)
LEMMA PushInOrder ==
  ASSUME TypeOK, TypeOK', InOrder, NEW s \in Tasks, s \notin OnStack,
         NEW d \in Timestamp, d < sysDl,
         \A u \in OnStack : Prio[u] < Prio[s],
         OnStack' = OnStack \cup {s}, jobDl'[s] = d,
         \A u \in OnStack : jobDl'[u] = jobDl[u],
         sysDl' = d, rq' = [rq EXCEPT ![RqIdx(s)] = sysDl],
         \A k \in Waiting' : k \in Waiting /\ d <= k.dl,
         \A v \in Tasks : hand'[v] \subseteq hand[v],
         \A t \in Tasks : pc'[t] = "store" => pc[t] = "store",
         UNCHANGED prev
  PROVE  InOrder'
<1>1. OnStack \subseteq Tasks /\ \A t \in OnStack : t # s
  BY DEF OnStack
<1>2. /\ d \in Int /\ sysDl \in Int
      /\ \A u \in OnStack : /\ sysDl <= jobDl[u] /\ jobDl[u] \in Int
                            /\ Prio[u] \in Int /\ Prio[s] \in Int /\ RqIdx(u) # RqIdx(s)
  BY <1>1, Types, ConstantsAssumption DEF InOrder, IsLeastDeadline, RqIdx
<1>3. StackOrdered'
  BY <1>1, <1>2 DEF InOrder, StackOrdered
<1>4. IsLeastDeadline(sysDl, OnStack)'
  BY <1>1, <1>2 DEF IsLeastDeadline
<1>5. /\ Below(s)' = OnStack
      /\ \A t \in OnStack : Below(t)' = Below(t)
  <2>1. Prio[s] \in Int /\ ~(Prio[s] < Prio[s])
    BY Types
  <2>2. Below(s)' = OnStack
    BY <2>1 DEF Below
  <2>3. ASSUME NEW t \in OnStack PROVE Below(t)' = Below(t)
    <3>1. ~(Prio[s] < Prio[t])
      BY <1>2, <2>3
    <3> QED
      BY <3>1 DEF Below
  <2> QED
    BY <2>2, <2>3
<1>6. rq'[RqIdx(s)] = sysDl /\ \A t \in OnStack : rq'[RqIdx(t)] = rq[RqIdx(t)]
  BY <1>1, <1>2 DEF TypeOK, RqSlots
<1>7. (\A t \in OnStack : IsLeastDeadline(rq[RqIdx(t)], Below(t)))'
  <2>1. \A u \in OnStack' : u = s \/ u \in OnStack
    OBVIOUS
  <2>2. IsLeastDeadline(rq[RqIdx(s)], Below(s))'
    BY <1>5, <1>6 DEF InOrder, IsLeastDeadline, RqIdx
  <2>3. ASSUME NEW t \in OnStack PROVE IsLeastDeadline(rq[RqIdx(t)], Below(t))'
    <3>1. Below(t) \subseteq OnStack
      BY DEF Below
    <3> QED
      BY <1>5, <1>6, <3>1 DEF InOrder, IsLeastDeadline, RqIdx
  <2> QED
    BY <2>1, <2>2, <2>3
<1>8. (\A t \in Tasks : pc[t] = "store" => prev[t] = rq[RqIdx(t)])'
  <2> SUFFICES ASSUME NEW t \in Tasks, pc[t] = "store"
               PROVE  prev[t] = rq'[RqIdx(t)]
    BY DEF RqIdx
  <2>1. t \in OnStack
    BY DEF OnStack
  <2> QED
    BY <1>6, <2>1 DEF InOrder
<1>9. UrgentIsHigher' /\ HandIsLater'
  <2>1. ASSUME NEW k \in Waiting', NEW u \in OnStack' PROVE u = s => jobDl'[u] <= k.dl
    BY <2>1
  <2>2. \A k \in Waiting' : k.dl \in Int
    BY Types
  <2>3. UrgentIsHigher'
    BY <1>2, <2>1, <2>2 DEF InOrder, UrgentIsHigher
  <2>4. \A v \in Tasks : \A k \in hand'[v] : k \in Waiting'
    BY DEF Waiting
  <2> QED
    BY <2>1, <2>3, <2>4 DEF InOrder, HandIsLater
<1>10. ServedAbove'
  BY DEF ServedAbove
<1> QED
  BY <1>3, <1>4, <1>7, <1>8, <1>9, <1>10 DEF InOrder

(* A task that arrives more urgent than a job on the stack has a shorter   *)
(* relative deadline, so a higher level.                                   *)
LEMMA ArrivalIsHigher ==
  ASSUME NoWrap, TypeOK, Handover, panic = "none", Dated,
         NEW t \in Tasks, Arrives(t), NEW u \in OnStack, Deadline(t) < jobDl[u]
  PROVE  Prio[u] < Prio[t]
<1>1. u \in Tasks /\ jobDl[u] <= uptime + RelDeadline[u]
  BY DEF OnStack, Dated, ArrivedBefore
<1>2. Deadline(t) = uptime + RelDeadline[t]
  BY NowIsUptime, ArrivesFresh
<1>3. RelDeadline[t] < RelDeadline[u]
  BY <1>1, <1>2, Types
<1> QED
  BY <1>1, <1>3, ConstantsAssumption

(* The stack is empty and the system deadline at rest at the start. *)
THEOREM OrderedInit == Init => Ordered
<1> SUFFICES ASSUME Init PROVE InOrder
  BY OrderedIsInOrder
<1>1. Waiting = {} /\ OnStack = {} /\ \A t \in Tasks : hand[t] = {} /\ pc[t] = "off"
  BY DEF Init, Waiting, OnStack
<1>2. sysDl = MaxTimestamp
  BY DEF Init
<1>3. StackOrdered /\ IsLeastDeadline(sysDl, OnStack)
  BY <1>1, <1>2 DEF StackOrdered, IsLeastDeadline
<1> QED
  BY <1>1, <1>3 DEF InOrder, UrgentIsHigher, HandIsLater, ServedAbove

(* A critical section of a pop that takes no job. *)
LEMMA PopInOrder ==
  ASSUME TypeOK, Handover, panic = "none", InOrder, NEW w \in Tasks, Running(w),
         pc[w] \in {"pop", "traverse"},
         UNCHANGED <<pended, sysDl, rq, prev, jobDl, wq, hand>>,
         \/ pc'    = [pc EXCEPT ![w] = "traverse"] /\ traversing' = TRUE
         \/ pc'    = [pc EXCEPT ![w] = "dispatch"] /\ traversing' = traversing
            /\ (pc[w] = "pop" => wq = {}) /\ (pc[w] = "traverse" => ~traversing)
  PROVE  InOrder'
<1>1. OnStack' = OnStack /\ Waiting' = Waiting
  BY DEF TypeOK, OnStack, Waiting
<1>2. \A t : Below(t)' = Below(t) /\ (AboveStack(t)' <=> AboveStack(t))
  BY <1>1 DEF Below, AboveStack
<1>3. StackOrdered' /\ IsLeastDeadline(sysDl, OnStack)'
  BY <1>1 DEF InOrder, StackOrdered, IsLeastDeadline
<1>4. (\A t \in OnStack : IsLeastDeadline(rq[RqIdx(t)], Below(t)))'
  BY <1>1, <1>2 DEF InOrder, IsLeastDeadline, RqIdx
<1>5. (\A t \in Tasks : pc[t] = "store" => prev[t] = rq[RqIdx(t)])'
  BY DEF TypeOK, InOrder, RqIdx
<1>6. UrgentIsHigher' /\ HandIsLater'
  BY <1>1 DEF InOrder, UrgentIsHigher, HandIsLater
<1>7. \A v \in InExit : \A k : v # w /\ WillServe(v, k) => v \in InExit' /\ WillServe(v, k)'
  BY DEF TypeOK, InExit, WillServe
<1>8. ServedAbove'
  <2> SUFFICES ASSUME NEW k \in Waiting
               PROVE  sysDl <= k.dl \/ \E v \in InExit' : AboveStack(v) /\ WillServe(v, k)'
    BY <1>1, <1>2 DEF ServedAbove
  <2>1. CASE pc' = [pc EXCEPT ![w] = "traverse"] /\ traversing' = TRUE
    <3>1. w \in InExit' /\ WillServe(w, k)'
      BY <2>1 DEF TypeOK, InExit, WillServe
    <3>2. (\E v \in InExit : AboveStack(v)) => AboveStack(w)
      BY AboveFromAny
    <3> QED
      BY <3>1, <3>2 DEF InOrder, ServedAbove
  <2>2. CASE pc[w] = "pop" /\ wq = {}
    <3>1. PICK v \in Tasks : k \in hand[v]
      BY <2>2 DEF Waiting
    <3>2. v # w
      BY <3>1 DEF Handover, OneJobPerTask
    <3> QED
      BY <1>7, <3>1, <3>2, HandServed
  <2>3. CASE pc[w] = "traverse" /\ ~traversing
    <3>1. ~WillServe(w, k)
      BY <2>3 DEF WillServe
    <3> QED
      BY <1>7, <3>1 DEF InOrder, ServedAbove
  <2> QED
    BY <2>1, <2>2, <2>3
<1> QED
  BY <1>3, <1>4, <1>5, <1>6, <1>8 DEF InOrder

(* A critical section of a pop that takes the earliest job. *)
LEMMA TakeInOrder ==
  ASSUME TypeOK, Handover, panic = "none", InOrder, NEW w \in Tasks, Running(w),
         pc[w] \in {"pop", "traverse"},
         UNCHANGED <<pended, sysDl, rq, prev, jobDl>>,
         NEW j \in wq, \A k \in wq : j.dl <= k.dl,
         wq' = wq \ {j}, hand' = [hand EXCEPT ![w] = {j}],
         pc' = [pc EXCEPT ![w] = "dispatch"]
  PROVE  InOrder'
<1>0. hand[w] = {} /\ j \in Waiting
  BY DEF Handover, OneJobPerTask, Waiting
<1>1. OnStack' = OnStack /\ Waiting' = Waiting
  <2>1. \A k : k \in Waiting' <=> k \in Waiting
    BY <1>0 DEF TypeOK, Waiting
  <2> QED
    BY <2>1 DEF TypeOK, OnStack
<1>2. \A t : Below(t)' = Below(t) /\ (AboveStack(t)' <=> AboveStack(t))
  BY <1>1 DEF Below, AboveStack
<1>3. StackOrdered' /\ IsLeastDeadline(sysDl, OnStack)'
  BY <1>1 DEF InOrder, StackOrdered, IsLeastDeadline
<1>4. (\A t \in OnStack : IsLeastDeadline(rq[RqIdx(t)], Below(t)))'
  BY <1>1, <1>2 DEF InOrder, IsLeastDeadline, RqIdx
<1>5. (\A t \in Tasks : pc[t] = "store" => prev[t] = rq[RqIdx(t)])'
  BY DEF TypeOK, InOrder, RqIdx
<1>6. UrgentIsHigher'
  BY <1>1 DEF InOrder, UrgentIsHigher
<1>7. (\E v \in InExit : AboveStack(v)) => AboveStack(w)
  BY AboveFromAny
<1>8. ASSUME NEW u \in OnStack, Prio[u] >= Prio[w] PROVE jobDl[u] <= j.dl
  <2>1. u \in Tasks
    BY DEF OnStack
  <2>2. \A x \in OnStack : x \in Tasks /\ Prio[x] <= Prio[u]
    BY <1>8, <2>1, RunningOnTop, Types DEF OnStack
  <2>3. jobDl[u] = sysDl
    BY <2>2, TopIsSystem DEF InOrder
  <2>4. ~AboveStack(w)
    BY <1>8, <2>1, Types DEF AboveStack
  <2> QED
    BY <1>0, <1>7, <2>3, <2>4 DEF InOrder, ServedAbove
<1>9. HandIsLater'
  <2> SUFFICES ASSUME NEW v \in Tasks, NEW k \in hand'[v], NEW u \in OnStack,
                      Prio[u] >= Prio[v]
               PROVE  jobDl[u] <= k.dl
    BY <1>1 DEF HandIsLater
  <2>1. CASE v = w
    BY <1>8, <2>1 DEF TypeOK
  <2>2. CASE v # w
    BY <2>2 DEF TypeOK, InOrder, HandIsLater
  <2> QED
    BY <2>1, <2>2
<1>10. ServedAbove'
  <2> SUFFICES ASSUME NEW k \in Waiting
               PROVE  sysDl <= k.dl \/ \E v \in InExit' : AboveStack(v) /\ WillServe(v, k)'
    BY <1>1, <1>2 DEF ServedAbove
  <2>1. CASE k \in wq
    <3>1. w \in InExit' /\ WillServe(w, k)'
      BY <2>1 DEF TypeOK, InExit, WillServe
    <3> QED
      BY <1>7, <3>1 DEF InOrder, ServedAbove
  <2>2. ASSUME NEW v \in Tasks, k \in hand[v]
        PROVE  sysDl <= k.dl \/ \E x \in InExit' : AboveStack(x) /\ WillServe(x, k)'
    <3>1. v # w /\ pc[v] = "dispatch"
      BY <1>0, <2>2 DEF Handover, OneJobPerTask
    <3>2. WillServe(v, k) => v \in InExit' /\ WillServe(v, k)'
      BY <3>1 DEF TypeOK, InExit, WillServe
    <3> QED
      BY <2>2, <3>2, HandServed
  <2> QED
    BY <2>1, <2>2 DEF Waiting
<1> QED
  BY <1>3, <1>4, <1>5, <1>6, <1>9, <1>10 DEF InOrder

(* The restore of the system deadline takes the top job off the stack.     *)
LEMMA RestoreInOrder ==
  ASSUME TypeOK, InOrder, NEW t \in Tasks, Running(t), pc[t] = "store", ~pended[t],
         sysDl' = prev[t], pc' = [pc EXCEPT ![t] = "unpend"],
         UNCHANGED <<pended, prev, hand, rq, wq, traversing, jobDl>>
  PROVE  InOrder'
<1>1. t \in OnStack /\ OnStack' = OnStack \ {t} /\ Waiting' = Waiting
  BY DEF TypeOK, OnStack, Waiting
<1>2. \A u \in OnStack' : Prio[u] < Prio[t] /\ u \in Tasks
  <2> SUFFICES ASSUME NEW u \in OnStack' PROVE Prio[u] < Prio[t] /\ u \in Tasks
    OBVIOUS
  <2>1. u \in OnStack /\ u # t /\ u \in Tasks /\ Prio[u] <= Prio[t]
    BY <1>1, RunningOnTop DEF OnStack
  <2>2. Prio[t] # Prio[u]
    BY <1>1, <2>1 DEF InOrder, StackOrdered
  <2> QED
    BY <2>1, <2>2, Types
<1>3. Below(t) = OnStack' /\ \A u \in OnStack' : Below(u)' = Below(u) /\ Below(u) \subseteq OnStack'
  <2>1. ~(Prio[t] < Prio[t]) /\ \A u \in OnStack' : ~(Prio[t] < Prio[u])
    BY <1>2, Types
  <2> QED
    BY <1>1, <1>2, <2>1 DEF Below
<1>4. StackOrdered'
  BY <1>1 DEF InOrder, StackOrdered
<1>5. IsLeastDeadline(sysDl, OnStack)'
  BY <1>1, <1>3 DEF InOrder, IsLeastDeadline
<1>6. (\A u \in OnStack : IsLeastDeadline(rq[RqIdx(u)], Below(u)))'
  BY <1>1, <1>3 DEF InOrder, IsLeastDeadline, RqIdx
<1>7. (\A u \in Tasks : pc[u] = "store" => prev[u] = rq[RqIdx(u)])'
  BY DEF TypeOK, InOrder, RqIdx
<1>8. UrgentIsHigher' /\ HandIsLater'
  BY <1>1 DEF InOrder, UrgentIsHigher, HandIsLater
<1>9. ServedAbove'
  <2>1. t \in InExit' /\ \A k : WillServe(t, k)'
    BY DEF TypeOK, InExit, WillServe
  <2> QED
    BY <1>2, <2>1 DEF ServedAbove, AboveStack
<1> QED
  BY <1>4, <1>5, <1>6, <1>7, <1>8, <1>9 DEF InOrder

(* A job no more urgent than the system deadline joins the wait queue,     *)
(* from its timestamper.                                                   *)
LEMMA ArrivalWaitsInOrder ==
  ASSUME NoWrap, TypeOK, TypeOK', Handover, panic = "none", Dated, InOrder,
         NEW t \in Tasks, Arrives(t), ~Preempts(Deadline(t)),
         NEW j, j.task = t, j.dl = Deadline(t), wq' = wq \cup {j},
         UNCHANGED <<pc, pended, prev, hand, sysDl, rq, traversing>>
  PROVE  InOrder'
<1>1. OnStack' = OnStack /\ \A k : k \in Waiting' <=> k \in Waiting \/ k = j
  BY DEF OnStack, Waiting
<1>2. \A u \in OnStack : jobDl'[u] = jobDl[u]
  BY ArrivesFresh DEF OnStack, TypeOK
<1>3. \A u : Below(u)' = Below(u) /\ Below(u) \subseteq OnStack /\ (AboveStack(u)' <=> AboveStack(u))
  BY <1>1 DEF Below, AboveStack
<1>4. StackOrdered' /\ IsLeastDeadline(sysDl, OnStack)'
  BY <1>1, <1>2 DEF InOrder, StackOrdered, IsLeastDeadline
<1>5. (\A u \in OnStack : IsLeastDeadline(rq[RqIdx(u)], Below(u)))'
  BY <1>1, <1>2, <1>3 DEF InOrder, IsLeastDeadline, RqIdx
<1>6. (\A u \in Tasks : pc[u] = "store" => prev[u] = rq[RqIdx(u)])'
  BY DEF InOrder, RqIdx
<1>7. UrgentIsHigher'
  <2>1. \A u \in OnStack : Deadline(t) < jobDl[u] => Prio[t] > Prio[u]
    BY ArrivalIsHigher
  <2> QED
    BY <1>1, <1>2, <2>1 DEF InOrder, UrgentIsHigher
<1>8. HandIsLater'
  BY <1>1, <1>2 DEF InOrder, HandIsLater
<1>9. ServedAbove'
  <2>1. sysDl <= j.dl
    <3>1. Deadline(t) \in Int
      BY ArrivesFresh, ConstantsAssumption
    <3> QED
      BY <3>1, Types DEF Preempts
  <2>2. \A v \in InExit : \A k : WillServe(v, k) => v \in InExit' /\ WillServe(v, k)'
    BY DEF InExit, WillServe
  <2> QED
    BY <1>1, <1>3, <2>1, <2>2 DEF InOrder, ServedAbove
<1> QED
  BY <1>4, <1>5, <1>6, <1>7, <1>8, <1>9 DEF InOrder

(* The end of an exit that posts nothing.                                  *)
LEMMA ExitInOrder ==
  ASSUME TypeOK, TypeOK', Handover, panic = "none", InOrder,
         NEW w \in Tasks, pc[w] = "dispatch",
         pc' = [pc EXCEPT ![w] = "off"], hand' = [hand EXCEPT ![w] = {}],
         UNCHANGED <<pended, prev, sysDl, rq, traversing, jobDl>>,
         \/ hand[w] = {} /\ wq' = wq
         \/ \E j \in hand[w] : wq' = wq \cup {j} /\ ~Preempts(j.dl)
  PROVE  InOrder'
<1>1. OnStack' = OnStack
  BY DEF TypeOK, OnStack
<1>2. Waiting' = Waiting
  <2>1. \A j, k \in hand[w] : j = k
    BY DEF Handover, HandHoldsOne
  <2>2. \A k : k \in Waiting' <=> k \in Waiting
    BY <2>1 DEF TypeOK, Waiting
  <2> QED
    BY <2>2
<1>3. \A u : Below(u)' = Below(u) /\ (AboveStack(u)' <=> AboveStack(u))
  BY <1>1 DEF Below, AboveStack
<1>4. StackOrdered' /\ IsLeastDeadline(sysDl, OnStack)'
  BY <1>1 DEF InOrder, StackOrdered, IsLeastDeadline
<1>5. (\A u \in OnStack : IsLeastDeadline(rq[RqIdx(u)], Below(u)))'
  BY <1>1, <1>3 DEF InOrder, IsLeastDeadline, RqIdx
<1>6. (\A u \in Tasks : pc[u] = "store" => prev[u] = rq[RqIdx(u)])'
  BY DEF TypeOK, InOrder, RqIdx
<1>7. UrgentIsHigher'
  BY <1>1, <1>2 DEF InOrder, UrgentIsHigher
<1>8. HandIsLater'
  <2>1. \A v \in Tasks : \A k \in hand'[v] : k \in hand[v]
    BY DEF TypeOK
  <2> QED
    BY <1>1, <2>1 DEF InOrder, HandIsLater
<1>9. ServedAbove'
  <2>1. \A v \in InExit : \A k : v # w /\ WillServe(v, k) => v \in InExit' /\ WillServe(v, k)'
    BY DEF TypeOK, InExit, WillServe
  <2>2. ASSUME NEW k \in Waiting, WillServe(w, k) PROVE sysDl <= k.dl
    <3>1. PICK h \in hand[w] : h.dl <= k.dl
      BY <2>2 DEF WillServe
    <3>2. ~Preempts(h.dl) /\ h \in Waiting
      BY <3>1 DEF Handover, HandHoldsOne, Waiting
    <3> QED
      BY <3>1, <3>2, Types DEF Preempts
  <2> QED
    BY <1>2, <1>3, <2>1, <2>2 DEF InOrder, ServedAbove
<1> QED
  BY <1>4, <1>5, <1>6, <1>7, <1>8, <1>9 DEF InOrder

(* Before the counter wraps, every step keeps the deadlines in order. *)
LEMMA OrderedStep ==
  ASSUME NoWrap
  PROVE  TypeOK /\ Handover /\ Dated /\ Ordered /\ [Next]_vars => Ordered'
<1> SUFFICES ASSUME TypeOK, Handover, Dated, Ordered, [Next]_vars,
                    panic' = "none", ~overtaken'
             PROVE  InOrder'
  BY DEF Ordered, DeadlineChain, InOrder
<1> USE DEF env, nvic, chain, wait
<1>a. panic = "none" /\ ~overtaken /\ TypeOK'
  BY StillGood, TypeStep DEF TypeOK
<1>b. InOrder
  BY <1>a, OrderedIsInOrder
<1>1. CASE Tick
  BY <1>1, <1>b, KeepInOrder DEF Tick, OnStack
<1>2. ASSUME NEW t \in Tasks, Raise(t) PROVE InOrder'
  BY <1>2, <1>b, KeepInOrder DEF Raise, OnStack
<1>3. ASSUME NEW t \in Tasks, Timestamper(t) PROVE InOrder'
  <2> DEFINE j == [task |-> t, dl |-> Deadline(t)]
  <2>0. UNCHANGED <<pc, prev, hand, traversing>>
    BY <1>3 DEF Timestamper
  <2>1. Arrives(t)
    BY <1>3, <1>a DEF Timestamper, Arrives
  <2>2. CASE Preempts(Deadline(t))
    <3>1. Execute(j) /\ wq' = wq
      BY <1>3, <2>1, <2>2 DEF Timestamper, Arrives
    <3>2. /\ sysDl' = Deadline(t) /\ rq' = [rq EXCEPT ![RqIdx(t)] = sysDl]
          /\ pended' = [pended EXCEPT ![t] = TRUE]
          /\ \A k \in Waiting : ~(k.dl < Deadline(t))
      BY <1>a, <3>1 DEF Execute, HandToDispatcher
    <3>3. Waiting' = Waiting /\ OnStack' = OnStack \cup {t}
      BY <2>0, <3>1, <3>2 DEF Waiting, OnStack, TypeOK
    <3>4. /\ t \notin OnStack /\ Deadline(t) \in Timestamp /\ Deadline(t) \in Int
          /\ jobDl' = [jobDl EXCEPT ![t] = Deadline(t)]
      BY <2>1, ArrivesFresh, ConstantsAssumption
    <3>5. Deadline(t) < sysDl
      BY <2>2 DEF Preempts
    <3>6. ASSUME NEW u \in OnStack PROVE Prio[u] < Prio[t] /\ jobDl'[u] = jobDl[u]
      <4>1. u \in Tasks /\ sysDl <= jobDl[u]
        BY <1>b DEF OnStack, InOrder, IsLeastDeadline
      <4>2. Deadline(t) < jobDl[u]
        BY <3>4, <3>5, <4>1, Types
      <4> QED
        BY <1>a, <2>1, <3>4, <4>1, <4>2, ArrivalIsHigher DEF TypeOK
    <3>7. \A k \in Waiting' : k \in Waiting /\ Deadline(t) <= k.dl
      BY <3>2, <3>3, <3>4, Types
    <3>8. jobDl'[t] = Deadline(t)
      BY <3>4 DEF TypeOK
    <3> QED
      BY <1>a, <1>b, <2>0, <3>2, <3>3, <3>4, <3>5, <3>6, <3>7, <3>8, PushInOrder
  <2>3. CASE ~Preempts(Deadline(t))
    <3>1. Enqueue(j) /\ UNCHANGED <<pended, sysDl, rq>>
      BY <1>3, <2>1, <2>3 DEF Timestamper, Arrives
    <3>2. wq' = wq \cup {j}
      BY <1>a, <3>1 DEF Enqueue
    <3>3. j.task = t /\ j.dl = Deadline(t)
      OBVIOUS
    <3> HIDE DEF j
    <3> QED
      BY <1>a, <1>b, <2>0, <2>1, <2>3, <3>1, <3>2, <3>3, ArrivalWaitsInOrder
  <2> QED
    BY <2>2, <2>3
<1>4. ASSUME NEW t \in Tasks, Dispatch(t) PROVE InOrder'
  <2>1. /\ pended[t] /\ pended' = [pended EXCEPT ![t] = FALSE] /\ pc' = [pc EXCEPT ![t] = "entry"]
        /\ UNCHANGED <<sysDl, rq, wq, hand, traversing, prev, jobDl>>
        /\ \A u \in Active : Prio[u] < Prio[t]
    BY <1>4 DEF Dispatch, TakesDispatcher, Goto
  <2>2. t \notin Active
    <3>1. ~(Prio[t] < Prio[t])
      BY Types
    <3> QED
      BY <2>1, <3>1
  <2>3. pc[t] = "off" /\ OnStack' = OnStack
    BY <2>1, <2>2 DEF TypeOK, Active, OnStack
  <2>4. \A v \in InExit : pc'[v] = pc[v]
    BY <2>1, <2>3 DEF TypeOK, InExit
  <2>5. \A u \in Tasks : pc'[u] = "store" => pc[u] = "store"
    BY <2>1 DEF TypeOK
  <2> QED
    BY <1>b, <2>1, <2>3, <2>4, <2>5, KeepInOrder
<1>5. ASSUME NEW t \in Tasks, CheckMissedDeadline(t) PROVE InOrder'
  <2>1. /\ pc[t] = "entry" /\ pc' = [pc EXCEPT ![t] = "exec"]
        /\ UNCHANGED <<pended, sysDl, rq, wq, hand, traversing, prev, jobDl>>
    BY <1>5, <1>a DEF CheckMissedDeadline, At, Goto
  <2> QED
    BY <1>b, <2>1, KeepInOrder DEF TypeOK, OnStack, InExit
<1>6. ASSUME NEW t \in Tasks, Exec(t) PROVE InOrder'
  <2>1. /\ pc[t] = "exec" /\ pc' = [pc EXCEPT ![t] = "get"]
        /\ UNCHANGED <<pended, sysDl, rq, wq, hand, traversing, prev, jobDl>>
    BY <1>6 DEF Exec, At, Goto
  <2> QED
    BY <1>b, <2>1, KeepInOrder DEF TypeOK, OnStack, InExit
<1>7. ASSUME NEW t \in Tasks, GetPrevDeadline(t) PROVE InOrder'
  <2>1. /\ pc[t] = "get" /\ pc' = [pc EXCEPT ![t] = "store"]
        /\ prev' = [prev EXCEPT ![t] = rq[RqIdx(t)]]
        /\ UNCHANGED <<pended, sysDl, rq, wq, hand, traversing, jobDl>>
    BY <1>7 DEF GetPrevDeadline, At, Goto
  <2>2. \A u \in Tasks : pc'[u] = "store" =>
          (pc[u] = "store" /\ prev'[u] = prev[u]) \/ prev'[u] = rq[RqIdx(u)]
    BY <2>1 DEF TypeOK
  <2> QED
    BY <1>b, <2>1, <2>2, KeepInOrder DEF TypeOK, OnStack, InExit
<1>8. ASSUME NEW t \in Tasks, RestoreDeadline(t) PROVE InOrder'
  <2>1. /\ Running(t) /\ pc[t] = "store" /\ sysDl' = prev[t] /\ pc' = [pc EXCEPT ![t] = "unpend"]
        /\ UNCHANGED <<pended, prev, hand, rq, wq, traversing, jobDl>>
    BY <1>8 DEF RestoreDeadline, At, Goto
  <2>2. ~pended[t]
    BY <1>a, <2>1 DEF Handover, OneJobPerTask, Busy
  <2> QED
    BY <1>b, <2>1, <2>2, RestoreInOrder
<1>9. ASSUME NEW t \in Tasks, UnpendTimestamper(t) PROVE InOrder'
  <2>1. /\ pc[t] = "unpend" /\ pc' = [pc EXCEPT ![t] = "unmask"]
        /\ UNCHANGED <<pended, sysDl, rq, wq, hand, traversing, prev, jobDl>>
    BY <1>9 DEF UnpendTimestamper, At, Goto
  <2> QED
    BY <1>b, <2>1, KeepInOrder DEF TypeOK, OnStack, InExit
<1>10. ASSUME NEW t \in Tasks, UnmaskTimestamper(t) PROVE InOrder'
  <2>1. /\ pc[t] = "unmask" /\ pc' = [pc EXCEPT ![t] = "pop"]
        /\ UNCHANGED <<pended, sysDl, rq, wq, hand, traversing, prev, jobDl>>
    BY <1>10 DEF UnmaskTimestamper, At, Goto
  <2> QED
    BY <1>b, <2>1, KeepInOrder DEF TypeOK, OnStack, InExit
<1>11. ASSUME NEW t \in Tasks, PopBegin(t) PROVE InOrder'
  <2>1. /\ Running(t) /\ pc[t] = "pop" /\ UNCHANGED <<pended, sysDl, rq, prev, jobDl>>
    BY <1>11 DEF PopBegin, At
  <2>2. CASE \/ wq = {} /\ Goto(t, "dispatch") /\ UNCHANGED <<wait, hand>>
             \/ traversing' = TRUE /\ Goto(t, "traverse") /\ UNCHANGED <<wq, hand>>
    BY <1>a, <1>b, <2>1, <2>2, PopInOrder DEF Goto
  <2>3. ASSUME NEW j \in wq, wq = {j}, Take(t, j) PROVE InOrder'
    <3>1. \A k \in wq : j.dl <= k.dl
      <4>1. j \in Waiting
        BY DEF Waiting
      <4> QED
        BY <2>3, <4>1, Types
    <3> QED
      BY <1>a, <1>b, <2>1, <2>3, <3>1, TakeInOrder DEF Take, Goto
  <2> QED
    BY <1>11, <2>2, <2>3 DEF PopBegin
<1>12. ASSUME NEW t \in Tasks, PopFinish(t) PROVE InOrder'
  <2>1. Running(t) /\ pc[t] = "traverse" /\ UNCHANGED <<pended, sysDl, rq, prev, jobDl>>
    BY <1>12 DEF PopFinish, At
  <2>2. CASE ~traversing /\ Goto(t, "dispatch") /\ UNCHANGED <<wait, hand>>
    BY <1>a, <1>b, <2>1, <2>2, PopInOrder DEF Goto
  <2>3. ASSUME NEW j \in Earliest(wq), Take(t, j) PROVE InOrder'
    BY <1>a, <1>b, <2>1, <2>3, TakeInOrder DEF Take, Goto, Earliest
  <2> QED
    BY <1>12, <2>2, <2>3 DEF PopFinish
<1>13. ASSUME NEW t \in Tasks, DispatchNext(t) PROVE InOrder'
  <2>1. /\ pc[t] = "dispatch" /\ pc' = [pc EXCEPT ![t] = "off"]
        /\ hand' = [hand EXCEPT ![t] = {}] /\ UNCHANGED <<prev, traversing, jobDl>>
    BY <1>13 DEF DispatchNext, At, Goto
  <2>2. CASE hand[t] = {} /\ UNCHANGED <<pended, chain, wq>>
    BY <1>a, <1>b, <2>1, <2>2, ExitInOrder
  <2>3. ASSUME NEW j \in hand[t], ~Preempts(j.dl), Enqueue(j), UNCHANGED <<pended, chain>>
        PROVE  InOrder'
    <3>1. wq' = wq \cup {j}
      BY <1>a, <2>3 DEF Enqueue
    <3> QED
      BY <1>a, <1>b, <2>1, <2>3, <3>1, ExitInOrder
  <2>4. ASSUME NEW j \in hand[t], Preempts(j.dl), Execute(j), wq' = wq
        PROVE  InOrder'
    <3> DEFINE s == j.task
               d == j.dl
    <3>1. /\ sysDl' = d /\ rq' = [rq EXCEPT ![RqIdx(s)] = sysDl]
          /\ pended' = [pended EXCEPT ![s] = TRUE]
          /\ \A k \in Waiting : ~(k.dl < d)
      BY <1>a, <2>4 DEF Execute, HandToDispatcher
    <3>2. j \in Waiting /\ IsWaiting(s)
      BY <2>4 DEF Waiting, IsWaiting
    <3>3. /\ s \in Tasks /\ d \in Timestamp /\ d \in Int /\ s \notin OnStack
          /\ d = jobDl[s]
      <4>1. s \in Tasks /\ d \in Timestamp /\ d \in Int
        BY <3>2, Types DEF Job
      <4>2. ~pended[s] /\ s \notin Busy
        BY <1>a, <3>2, <4>1 DEF Handover, OneJobPerTask
      <4> QED
        BY <1>a, <3>2, <4>1, <4>2 DEF OnStack, Busy, Dated, JobsKeepDeadline
    <3>4. d < sysDl
      BY <2>4 DEF Preempts
    <3>5. OnStack' = OnStack \cup {s}
      BY <2>1, <3>1, <3>3 DEF TypeOK, OnStack
    <3>6. \A u \in OnStack : Prio[u] < Prio[s] /\ jobDl'[u] = jobDl[u]
      <4> SUFFICES ASSUME NEW u \in OnStack PROVE Prio[u] < Prio[s]
        BY <2>1
      <4>1. u \in Tasks /\ sysDl <= jobDl[u]
        BY <1>b DEF OnStack, InOrder, IsLeastDeadline
      <4>2. j.dl < jobDl[u]
        BY <3>3, <3>4, <4>1, Types
      <4> QED
        BY <1>b, <3>2, <3>3, <4>1, <4>2, Types DEF InOrder, UrgentIsHigher
    <3>7. /\ \A k \in Waiting' : k \in Waiting /\ d <= k.dl
          /\ \A v \in Tasks : hand'[v] \subseteq hand[v]
      <4>1. \A v \in Tasks : hand'[v] \subseteq hand[v]
        BY <2>1 DEF TypeOK
      <4>2. \A k \in Waiting' : k \in Waiting
        BY <2>4, <4>1 DEF Waiting
      <4> QED
        BY <3>1, <3>3, <4>1, <4>2, Types
    <3>8. \A u \in Tasks : pc'[u] = "store" => pc[u] = "store"
      BY <2>1 DEF TypeOK
    <3>9. jobDl'[s] = d
      BY <2>1, <3>3
    <3> HIDE DEF s, d
    <3> QED
      BY <1>a, <1>b, <2>1, <3>1, <3>3, <3>4, <3>5, <3>6, <3>7, <3>8, <3>9, PushInOrder
  <2> QED
    BY <1>13, <2>2, <2>3, <2>4 DEF DispatchNext
<1>14. CASE UNCHANGED vars
  BY <1>14, <1>b, KeepInOrder DEF vars, OnStack
<1> QED
  BY <1>1, <1>2, <1>3, <1>4, <1>5, <1>6, <1>7, <1>8, <1>9, <1>10, <1>11, <1>12, <1>13, <1>14
     DEF Next, Cpu, DispatcherStep, Idle, Halted

----------------------------------------------------------------------------
(* The invariant of the scheduler holds as long as the cycle counter does  *)
(* not wrap: what the steps of timestampers and dispatchers, however they  *)
(* preempt each other, keep of the jobs, the lines and the deadlines.      *)
THEOREM InvariantHolds ==
  ASSUME NoWrap
  PROVE  Spec => []IInv
<1>1. Init => IInv
  BY TypeInit, HandoverInit, LineInit, ServedInit, DatedInit, OrderedInit DEF IInv
<1>2. IInv /\ [Next]_vars => IInv'
  BY TypeStep, HandoverStep, LineStep, ServedStep, DatedStep, OrderedStep DEF IInv
<1> QED
  BY <1>1, <1>2, PTL DEF Spec

(* As long as the cycle counter does not wrap, until a job is overtaken:   *)
(* the system deadline and the run queue slots are the stack of the jobs   *)
(* posted, and what an exit restores is the deadline of the job below.     *)
THEOREM DeadlinesStack ==
  ASSUME NoWrap
  PROVE  Spec => []DeadlineChain
<1>1. IInv => DeadlineChain
  BY DEF IInv, Ordered
<1> QED
  BY <1>1, InvariantHolds, PTL

(* EDF: as long as the cycle counter does not wrap, until a job is         *)
(* overtaken, no job that waits is more urgent than the one that runs.     *)
THEOREM EarliestFirst ==
  ASSUME NoWrap
  PROVE  Spec => []EarliestDeadlineRuns
<1>1. IInv => EarliestDeadlineRuns
  <2> SUFFICES ASSUME TypeOK, Ordered, panic = "none", ~overtaken,
                      NEW t \in Tasks, Running(t), pc[t] \in {"entry", "exec"},
                      NEW j \in Waiting
               PROVE  jobDl[t] <= j.dl
    BY DEF EarliestDeadlineRuns, IInv
  <2>1. InOrder
    BY OrderedIsInOrder
  <2>2. t \in OnStack
    BY DEF OnStack
  <2>3. jobDl[t] = sysDl
    BY <2>1, <2>2, RunningOnTop, TopIsSystem DEF InOrder
  <2>4. ASSUME NEW v \in InExit, AboveStack(v) PROVE FALSE
    <3>1. Prio[t] < Prio[v] /\ Prio[v] <= Prio[t] /\ v \in Tasks
      BY <2>2, <2>4, RunningOnTop DEF AboveStack, InExit
    <3> QED
      BY <3>1, Types
  <2> QED
    BY <2>1, <2>3, <2>4 DEF InOrder, ServedAbove
<1> QED
  BY <1>1, InvariantHolds, PTL

(* As long as the cycle counter does not wrap, a job is overtaken only     *)
(* while a dispatcher other than the one that acts is between its restore  *)
(* of the system deadline and the end of its exit.                         *)
THEOREM OvertakingNeedsAnExit ==
  ASSUME NoWrap
  PROVE  Spec => OvertakenOnlyInExit
<1>1. IInv /\ [Next]_vars
      => [~overtaken /\ overtaken' => \E t \in InExit : pc'[t] = pc[t]]_vars
  <2> SUFFICES ASSUME TypeOK, Handover, Ordered, Next, ~overtaken, overtaken'
               PROVE  \E t \in InExit : pc'[t] = pc[t]
    BY DEF vars, IInv
  <2>1. ASSUME NEW j, Execute(j), Preempts(j.dl), j.dl \in Int, panic = "none"
        PROVE  \E k \in Waiting : /\ k.dl < j.dl
                                   /\ \E v \in InExit : AboveStack(v) /\ WillServe(v, k)
    <3>1. PICK k \in Waiting : k.dl < j.dl
      BY <2>1 DEF Execute, HandToDispatcher
    <3>2. InOrder /\ ~(sysDl <= k.dl)
      BY <2>1, <3>1, OrderedIsInOrder, Types DEF Preempts
    <3> QED
      BY <3>1, <3>2 DEF InOrder, ServedAbove
  <2>2. ASSUME NEW t \in Tasks, Timestamper(t) PROVE \E v \in InExit : pc'[v] = pc[v]
    <3> DEFINE j == [task |-> t, dl |-> Deadline(t)]
    <3>1. panic = "none" /\ pc' = pc /\ (overtaken' = overtaken \/ (Preempts(j.dl) /\ Execute(j)))
      BY <2>2 DEF Timestamper
    <3>2. j.dl \in Int
      BY Types, NowInRange, ConstantsAssumption DEF Deadline, TypeOK
    <3> QED
      BY <2>1, <3>1, <3>2
  <2>3. ASSUME NEW t \in Tasks, DispatchNext(t) PROVE \E v \in InExit : pc'[v] = pc[v]
    <3>1. panic = "none" /\ pc[t] = "dispatch" /\ pc' = [pc EXCEPT ![t] = "off"]
      BY <2>3 DEF DispatchNext, At, Goto
    <3>2. PICK j \in hand[t] : Preempts(j.dl) /\ Execute(j)
      BY <2>3 DEF DispatchNext
    <3>3. j \in Waiting /\ j.dl \in Int
      BY Types DEF Waiting
    <3>4. PICK k \in Waiting : /\ k.dl < j.dl
                               /\ \E v \in InExit : AboveStack(v) /\ WillServe(v, k)
      BY <2>1, <3>1, <3>2, <3>3
    <3>5. ~WillServe(t, k)
      <4>1. \A h \in hand[t] : ~(h.dl <= k.dl)
        BY <3>1, <3>3, <3>4, Types DEF Handover, HandHoldsOne
      <4> QED
        BY <3>1, <4>1 DEF WillServe
    <3>6. \A v \in InExit : v # t => pc'[v] = pc[v]
      BY <3>1 DEF TypeOK, InExit
    <3> QED
      BY <3>4, <3>5, <3>6
  <2>4. UNCHANGED overtaken \/ \E t \in Tasks : Timestamper(t) \/ DispatchNext(t)
    BY DEF Next, Cpu, DispatcherStep, Tick, Raise, Idle, Halted, vars, Dispatch,
           CheckMissedDeadline, Exec, GetPrevDeadline, RestoreDeadline, UnpendTimestamper,
           UnmaskTimestamper, PopBegin, PopFinish
  <2> QED
    BY <2>2, <2>3, <2>4
<1> QED
  BY <1>1, InvariantHolds, PTL DEF OvertakenOnlyInExit, Spec

(* As long as the cycle counter does not wrap, until a job is overtaken,   *)
(* the deadline check panics exactly when the task about to run is late.   *)
THEOREM CheckJudgesTheTask ==
  ASSUME NoWrap
  PROVE  Spec => CheckIsExact
<1>1. IInv /\ [Next]_vars
      => [\A t \in Tasks : ~overtaken /\ CheckMissedDeadline(t) =>
            (panic' = "missed deadline" <=> CheckMissed /\ Now > jobDl[t])]_vars
  <2> SUFFICES ASSUME TypeOK, Ordered, NEW t \in Tasks, ~overtaken, CheckMissedDeadline(t)
               PROVE  panic' = "missed deadline" <=> CheckMissed /\ Now > jobDl[t]
    BY DEF IInv
  <2>1. panic = "none" /\ pc[t] = "entry" /\ Running(t)
    BY DEF CheckMissedDeadline, At
  <2>2. jobDl[t] = sysDl
    <3>1. t \in OnStack /\ InOrder
      BY <2>1, OrderedIsInOrder DEF OnStack
    <3> QED
      BY <2>1, <3>1, RunningOnTop, TopIsSystem DEF InOrder
  <2>3. Now \in Int /\ sysDl \in Int
    BY Types, NowInRange, ConstantsAssumption DEF TypeOK
  <2>4. /\ CheckMissed /\ Now > sysDl => panic' = "missed deadline"
        /\ panic' = "missed deadline" => CheckMissed /\ Now > sysDl
    <3>1. \/ CheckMissed /\ Now > sysDl /\ panic' = "missed deadline"
          \/ (~CheckMissed \/ Now <= sysDl) /\ panic' = "none"
      BY <2>1 DEF CheckMissedDeadline
    <3>2. ~(Now > sysDl /\ Now <= sysDl) /\ "none" # "missed deadline"
      BY <2>3
    <3> QED
      BY <3>1, <3>2, Zenon
  <2> QED
    BY <2>2, <2>4
<1> QED
  BY <1>1, InvariantHolds, PTL DEF CheckIsExact, Spec

(* No wake-up is lost: as long as no absolute deadline reaches the largest *)
(* timestamp, until a job is overtaken, an idle processor has an empty     *)
(* queue and the system deadline at rest.                                  *)
THEOREM IdleIsIdle ==
  ASSUME NoWrap, DeadlinesFit
  PROVE  Spec => []IdleMeansNoWork
<1>1. IInv => IdleMeansNoWork
  <2> SUFFICES ASSUME TypeOK, Served, Dated, Ordered, panic = "none", Quiescent, ~overtaken
               PROVE  wq = {} /\ sysDl = MaxTimestamp
    BY DEF IdleMeansNoWork, IInv
  <2>1. OnStack = {} /\ InExit = {}
    BY DEF Quiescent, Active, OnStack, InExit
  <2>2. sysDl = MaxTimestamp
    BY <2>1 DEF Ordered, DeadlineChain, IsLeastDeadline
  <2>3. ASSUME NEW k \in wq PROVE FALSE
    <3>1. k \in Waiting /\ k.task \in Tasks /\ IsWaiting(k.task)
      BY <2>3, Types DEF Waiting, IsWaiting
    <3>2. k.dl <= uptime + RelDeadline[k.task] /\ MaxTimestamp <= k.dl
      BY <2>1, <2>2, <2>3, <3>1 DEF Served, Dated, JobsKeepDeadline, ArrivedBefore
    <3>3. uptime <= MaxUptime /\ MaxUptime \in Int /\ k.dl \in Int
      BY <3>1, Types, ConstantsAssumption DEF TypeOK
    <3> QED
      BY <3>1, <3>2, <3>3, Types DEF DeadlinesFit
  <2> QED
    BY <2>2, <2>3
<1> QED
  BY <1>1, InvariantHolds, PTL
=============================================================================
