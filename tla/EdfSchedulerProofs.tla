------------------------- MODULE EdfSchedulerProofs -------------------------
(***************************************************************************)
(* Proofs about the scheduler, for every application and every bound:      *)
(* type correctness, where each job is, that no urgent job is left behind, *)
(* and the account of the interrupt lines.                                 *)
(***************************************************************************)
EXTENDS EdfSchedulerInv, FiniteSetTheorems, TLAPS

USE DEF Timestamp

(* A reading of the cycle counter is a timestamp. *)
LEMMA NowInRange ==
  ASSUME uptime \in Nat
  PROVE  Now \in Timestamp
BY ConstantsAssumption DEF Now

(* The statics start with values of their types. *)
THEOREM TypeInit == Init => TypeOK
<1> SUFFICES ASSUME Init PROVE TypeOK
  OBVIOUS
<1>1. MaxTimestamp \in Timestamp
  BY ConstantsAssumption
<1>2. prev \in [Tasks -> Timestamp] /\ jobDl \in [Tasks -> Timestamp] /\ sysDl \in Timestamp
  BY <1>1 DEF Init
<1>3. rq \in [RqSlots -> Timestamp]
  BY <1>1 DEF Init
<1>4. pc \in [Tasks -> PcValues] /\ panic \in Panics
  BY DEF Init, PcValues, Panics
<1>5. hand \in [Tasks -> SUBSET Job] /\ wq \subseteq Job
  BY DEF Init
<1>6. uptime \in 0 .. MaxUptime /\ events \in 0 .. MaxEvents
  BY ConstantsAssumption DEF Init
<1>7. /\ line \in [Tasks -> BOOLEAN] /\ latch \in [Tasks -> BOOLEAN]
      /\ masked \in [Tasks -> BOOLEAN] /\ pended \in [Tasks -> BOOLEAN]
      /\ traversing \in BOOLEAN /\ overtaken \in BOOLEAN
  BY DEF Init
<1> QED
  BY <1>2, <1>3, <1>4, <1>5, <1>6, <1>7 DEF TypeOK

(* No handler writes a value outside its type. *)
LEMMA TypeStep == TypeOK /\ [Next]_vars => TypeOK'
<1> SUFFICES ASSUME TypeOK, [Next]_vars PROVE TypeOK'
  OBVIOUS
<1> USE ConstantsAssumption
<1>n. Now \in Timestamp
  BY NowInRange DEF TypeOK
<1>1. CASE Tick
  BY <1>1 DEF Tick, TypeOK, env, nvic, chain, wait
<1>2. ASSUME NEW t \in Tasks, Raise(t) PROVE TypeOK'
  BY <1>2 DEF Raise, TypeOK, env, nvic, chain, wait
<1>3. ASSUME NEW t \in Tasks, Timestamper(t) PROVE TypeOK'
  <2> DEFINE j == [task |-> t, dl |-> Deadline(t)]
  <2> USE DEF TypeOK, env, nvic, chain, wait
  <2>1. masked' \in [Tasks -> BOOLEAN] /\ latch' \in [Tasks -> BOOLEAN]
    BY <1>3 DEF Timestamper, Mask
  <2>2. CASE Overflows(t)
    BY <1>3, <2>1, <2>2 DEF Timestamper, Panics
  <2>3. ASSUME ~Overflows(t)
        PROVE  /\ Deadline(t) \in Timestamp /\ j \in Job
               /\ jobDl' \in [Tasks -> Timestamp]
    <3>1. Deadline(t) \in Timestamp
      BY <1>n, <2>3 DEF Overflows, Deadline
    <3>2. jobDl' = [jobDl EXCEPT ![t] = Deadline(t)]
      BY <1>3, <2>3 DEF Timestamper
    <3> QED
      BY <3>1, <3>2 DEF Job
  <2>4. CASE ~Overflows(t) /\ Preempts(j.dl)
    <3>1. sysDl' \in Timestamp /\ overtaken' \in BOOLEAN
      BY <1>3, <2>3, <2>4 DEF Timestamper, Execute, HandToDispatcher
    <3>2. rq' \in [RqSlots -> Timestamp] /\ pended' \in [Tasks -> BOOLEAN]
      <4>1. rq' = [rq EXCEPT ![RqIdx(t)] = sysDl] /\ pended' = [pended EXCEPT ![t] = TRUE]
        BY <1>3, <2>4 DEF Timestamper, Execute, HandToDispatcher
      <4> QED
        BY <4>1
    <3> QED
      BY <1>3, <2>1, <2>3, <2>4, <3>1, <3>2 DEF Timestamper
  <2>5. CASE ~Overflows(t) /\ ~Preempts(j.dl)
    <3>1. wq' \subseteq Job /\ panic' \in Panics
      BY <1>3, <2>3, <2>5 DEF Timestamper, Enqueue, Panics
    <3> QED
      BY <1>3, <2>1, <2>3, <2>5, <3>1 DEF Timestamper
  <2> QED
    BY <2>2, <2>4, <2>5
<1>4. ASSUME NEW t \in Tasks, Dispatch(t) PROVE TypeOK'
  BY <1>4 DEF Dispatch, Goto, PcValues, TypeOK, env, nvic, chain, wait
<1>5. ASSUME NEW t \in Tasks, CheckMissedDeadline(t) PROVE TypeOK'
  BY <1>5 DEF CheckMissedDeadline, Goto, PcValues, Panics, TypeOK, env, nvic, chain, wait
<1>6. ASSUME NEW t \in Tasks, Exec(t) PROVE TypeOK'
  BY <1>6 DEF Exec, Goto, PcValues, TypeOK, env, nvic, chain, wait
<1>7. ASSUME NEW t \in Tasks, GetPrevDeadline(t) PROVE TypeOK'
  BY <1>7 DEF GetPrevDeadline, Goto, PcValues, RqSlots, RqIdx, TypeOK, env, nvic, chain, wait
<1>8. ASSUME NEW t \in Tasks, RestoreDeadline(t) PROVE TypeOK'
  BY <1>8 DEF RestoreDeadline, Goto, PcValues, TypeOK, env, nvic, chain, wait
<1>9. ASSUME NEW t \in Tasks, UnpendTimestamper(t) PROVE TypeOK'
  BY <1>9 DEF UnpendTimestamper, Goto, PcValues, TypeOK, env, nvic, chain, wait
<1>10. ASSUME NEW t \in Tasks, UnmaskTimestamper(t) PROVE TypeOK'
  BY <1>10 DEF UnmaskTimestamper, Goto, PcValues, TypeOK, env, nvic, chain, wait
<1>11. ASSUME NEW t \in Tasks, PopBegin(t) PROVE TypeOK'
  BY <1>11, ZenonT(60) DEF PopBegin, Take, Goto, PcValues, TypeOK, env, nvic, chain, wait
<1>12. ASSUME NEW t \in Tasks, PopFinish(t) PROVE TypeOK'
  <2> USE DEF TypeOK, env, nvic, chain, wait
  <2>1. pc' \in [Tasks -> PcValues]
    BY <1>12 DEF PopFinish, Take, Goto, PcValues
  <2>2. wq' \subseteq Job /\ hand' \in [Tasks -> SUBSET Job] /\ traversing' \in BOOLEAN
    <3>1. CASE UNCHANGED <<wait, hand>>
      BY <3>1
    <3>2. ASSUME NEW j \in wq, wq' = wq \ {j}, hand' = [hand EXCEPT ![t] = {j}],
                 traversing' = FALSE
          PROVE  wq' \subseteq Job /\ hand' \in [Tasks -> SUBSET Job] /\ traversing' \in BOOLEAN
      BY <3>2
    <3> QED
      BY <1>12, <3>1, <3>2 DEF PopFinish, Take, Earliest
  <2> QED
    BY <1>12, <2>1, <2>2 DEF PopFinish
<1>13. ASSUME NEW t \in Tasks, DispatchNext(t) PROVE TypeOK'
  <2> USE DEF TypeOK, Goto, PcValues, env, nvic, chain, wait
  <2>1. CASE hand[t] = {}
    BY <1>13, <2>1 DEF DispatchNext
  <2>2. ASSUME NEW j \in hand[t], Execute(j), UNCHANGED <<wq, panic>>
        PROVE  TypeOK'
    BY <1>13, <2>2 DEF DispatchNext, Execute, HandToDispatcher, Job, RqIdx, RqSlots
  <2>3. ASSUME NEW j \in hand[t], Enqueue(j), UNCHANGED <<pended, chain, overtaken>>
        PROVE  TypeOK'
    BY <1>13, <2>3 DEF DispatchNext, Enqueue, Panics
  <2> QED
    BY <1>13, <2>1, <2>2, <2>3 DEF DispatchNext
<1>14. CASE UNCHANGED vars
  BY <1>14 DEF TypeOK, vars, env, nvic, chain, wait
<1> QED
  BY <1>1, <1>2, <1>3, <1>4, <1>5, <1>6, <1>7, <1>8, <1>9, <1>10, <1>11, <1>12, <1>13, <1>14
     DEF Next, Cpu, DispatcherStep, Idle, Halted

(* Every static, flag and local of the scheduler keeps to its type; in     *)
(* particular every deadline stored is a timestamp, whatever the relative  *)
(* deadlines, since into_scheduled panics rather than let one wrap.        *)
THEOREM TypeCorrect == Spec => []TypeOK
BY TypeInit, TypeStep, PTL DEF Spec
----------------------------------------------------------------------------
(* The wait queue has room for a task that is not in it: it holds at most  *)
(* one job of each task, and is as long as the list of tasks.              *)
LEMMA RoomForOne ==
  ASSUME NEW W \in SUBSET Job, NEW t \in Tasks,
         \A j, k \in W : j.task = k.task => j = k,
         \A j \in W : j.task # t
  PROVE  ~(Cardinality(W) >= WaitQueueLen)
<1> DEFINE T == Tasks \ {t}
           f == [j \in W |-> j.task]
<1>1. IsFiniteSet(T) /\ Cardinality(T) = Cardinality(Tasks) - 1
  BY ConstantsAssumption, FS_RemoveElement
<1>2. f \in Injection(W, T)
  BY DEF Injection, IsInjective, Job
<1>3. Cardinality(W) <= Cardinality(T)
  <2> HIDE DEF T, f
  <2> QED BY <1>1, <1>2, FS_Injection
<1>4. Cardinality(W) \in Nat /\ Cardinality(Tasks) \in Nat
  <2>1. IsFiniteSet(W)
    <3> HIDE DEF T, f
    <3> QED BY <1>1, <1>2, FS_Injection
  <2> QED BY <2>1, ConstantsAssumption, FS_CardinalityType
<1> QED
  BY <1>1, <1>3, <1>4 DEF WaitQueueLen

(* No task has a job when the system starts. *)
THEOREM HandoverInit == Init => Handover
BY DEF Init, Handover, OneJobPerTask, HandHoldsOne, LevelsDistinct, QueueNeverFull, Active, IsWaiting, Waiting, Busy

(* A step that moves no job, and leaves every dispatcher with its job or   *)
(* without one, keeps the account of the jobs.                             *)
LEMMA HandoverQuiet ==
  ASSUME TypeOK, Handover,
         UNCHANGED <<wq, hand, pended, masked>>,
         Busy' = Busy, Active' = Active, panic' # "queue full",
         panic' = "none" => panic = "none",
         \A t \in Tasks : hand[t] # {} => pc'[t] = pc[t]
  PROVE  Handover'
<1>1. Waiting' = Waiting
  BY DEF Waiting
<1>2. \A t \in Tasks : IsWaiting(t)' <=> IsWaiting(t)
  BY <1>1 DEF IsWaiting
<1>3. QueueNeverFull'
  BY DEF QueueNeverFull
<1>4. OneJobPerTask'
  <2> SUFFICES ASSUME panic = "none", OneJobPerTask,
                      (panic = "none")'
               PROVE  OneJobPerTask'
    BY DEF Handover, OneJobPerTask
  <2>1. \A j, k \in Waiting' : j.task = k.task => j = k
    BY <1>1 DEF OneJobPerTask
  <2>2. /\ \A u, v \in Tasks : u # v => hand'[u] \cap hand'[v] = {}
        /\ \A u \in Tasks : wq' \cap hand'[u] = {}
        /\ \A t \in Tasks : hand'[t] # {} => pc'[t] = "dispatch"
    BY DEF OneJobPerTask
  <2>3. /\ \A t \in Tasks : masked'[t] <=> IsWaiting(t)' \/ pended'[t] \/ t \in Busy'
        /\ \A t \in Tasks : ~(IsWaiting(t)' /\ pended'[t])
        /\ \A t \in Busy' : ~IsWaiting(t)' /\ ~pended'[t]
    BY <1>2 DEF OneJobPerTask, Busy
  <2> QED
    BY <2>1, <2>2, <2>3 DEF OneJobPerTask
<1> QED
  BY <1>3, <1>4 DEF Handover, HandHoldsOne, LevelsDistinct

(* The two outcomes of a critical section of pop.                          *)
LEMMA PopKeepsHandover ==
  ASSUME TypeOK, Handover, NEW t \in Tasks, pc[t] \in {"pop", "traverse"},
         panic = "none", UNCHANGED <<masked, pended, wq, hand, panic>>,
         Goto(t, "dispatch") \/ Goto(t, "traverse")
  PROVE  Handover'
<1>1. Waiting' = Waiting
  BY DEF Waiting
<1>2. \A u \in Tasks : IsWaiting(u)' <=> IsWaiting(u)
  BY <1>1 DEF IsWaiting
<1>3. Busy' = Busy /\ Active' = Active
  BY DEF TypeOK, Goto, Busy, Active
<1>4. \A u \in Tasks : hand'[u] # {} => pc'[u] = "dispatch"
  BY DEF TypeOK, Goto, Handover, OneJobPerTask
<1> QED
  BY <1>1, <1>2, <1>3, <1>4
     DEF Handover, OneJobPerTask, HandHoldsOne, LevelsDistinct, QueueNeverFull, Busy

(* A pop that takes a job moves it from the queue to its caller's hand.    *)
LEMMA TakeKeepsHandover ==
  ASSUME TypeOK, Handover, NEW t \in Tasks, pc[t] \in {"pop", "traverse"},
         panic = "none", UNCHANGED <<masked, pended, panic>>,
         NEW j \in wq, Take(t, j)
  PROVE  Handover'
<1>1. /\ wq' = wq \ {j} /\ hand' = [hand EXCEPT ![t] = {j}]
      /\ pc' = [pc EXCEPT ![t] = "dispatch"]
  BY DEF Take, Goto
<1>2. hand[t] = {} /\ \A u \in Tasks : j \notin hand[u]
  BY DEF Handover, OneJobPerTask
<1>3. Waiting' = Waiting
  BY <1>1, <1>2 DEF Waiting, TypeOK
<1>4. \A u \in Tasks : IsWaiting(u)' <=> IsWaiting(u)
  BY <1>3 DEF IsWaiting
<1>5. Busy' = Busy /\ Active' = Active
  BY <1>1 DEF TypeOK, Busy, Active
<1>6. HandHoldsOne' /\ LevelsDistinct'
  BY <1>1, <1>5 DEF TypeOK, Handover, HandHoldsOne, LevelsDistinct
<1>7. /\ \A u, v \in Tasks : u # v => hand'[u] \cap hand'[v] = {}
      /\ \A u \in Tasks : wq' \cap hand'[u] = {}
      /\ \A u \in Tasks : hand'[u] # {} => pc'[u] = "dispatch"
  BY <1>1, <1>2 DEF TypeOK, Handover, OneJobPerTask
<1> QED
  BY <1>3, <1>4, <1>5, <1>6, <1>7 DEF Handover, OneJobPerTask, QueueNeverFull, Busy

(* Every step keeps each job in one place and the queue below its bound.   *)
LEMMA HandoverStep == TypeOK /\ Handover /\ [Next]_vars => Handover'
<1> SUFFICES ASSUME TypeOK, Handover, [Next]_vars PROVE Handover'
  OBVIOUS
<1> USE ConstantsAssumption
<1> USE DEF TypeOK, Goto, PcValues, env, nvic, chain, wait
<1>1. CASE Tick
  <2>1. Busy' = Busy /\ Active' = Active
    BY <1>1 DEF Tick, Busy, Active
  <2> QED
    BY <1>1, <2>1, HandoverQuiet DEF Tick
<1>2. ASSUME NEW t \in Tasks, Raise(t) PROVE Handover'
  <2>1. Busy' = Busy /\ Active' = Active
    BY <1>2 DEF Raise, Busy, Active
  <2> QED
    BY <1>2, <2>1, HandoverQuiet DEF Raise
<1>5. ASSUME NEW t \in Tasks, CheckMissedDeadline(t) PROVE Handover'
  <2>1. Busy' = Busy /\ Active' = Active
    BY <1>5 DEF CheckMissedDeadline, At, Busy, Active
  <2>2. hand[t] = {}
    BY <1>5 DEF CheckMissedDeadline, At, Handover, OneJobPerTask
  <2> QED
    BY <1>5, <2>1, <2>2, HandoverQuiet DEF CheckMissedDeadline, At
<1>6. ASSUME NEW t \in Tasks, Exec(t) PROVE Handover'
  <2>1. Busy' = Busy /\ Active' = Active
    BY <1>6 DEF Exec, At, Busy, Active
  <2>2. hand[t] = {}
    BY <1>6 DEF Exec, At, Handover, OneJobPerTask
  <2> QED
    BY <1>6, <2>1, <2>2, HandoverQuiet DEF Exec, At
<1>7. ASSUME NEW t \in Tasks, GetPrevDeadline(t) PROVE Handover'
  <2>1. Busy' = Busy /\ Active' = Active
    BY <1>7 DEF GetPrevDeadline, At, Busy, Active
  <2>2. hand[t] = {}
    BY <1>7 DEF GetPrevDeadline, At, Handover, OneJobPerTask
  <2> QED
    BY <1>7, <2>1, <2>2, HandoverQuiet DEF GetPrevDeadline, At
<1>8. ASSUME NEW t \in Tasks, RestoreDeadline(t) PROVE Handover'
  <2>1. Busy' = Busy /\ Active' = Active
    BY <1>8 DEF RestoreDeadline, At, Busy, Active
  <2>2. hand[t] = {}
    BY <1>8 DEF RestoreDeadline, At, Handover, OneJobPerTask
  <2> QED
    BY <1>8, <2>1, <2>2, HandoverQuiet DEF RestoreDeadline, At
<1>9. ASSUME NEW t \in Tasks, UnpendTimestamper(t) PROVE Handover'
  <2>1. Busy' = Busy /\ Active' = Active
    BY <1>9 DEF UnpendTimestamper, At, Busy, Active
  <2>2. hand[t] = {}
    BY <1>9 DEF UnpendTimestamper, At, Handover, OneJobPerTask
  <2> QED
    BY <1>9, <2>1, <2>2, HandoverQuiet DEF UnpendTimestamper, At
<1>14. CASE UNCHANGED vars
  <2>1. Busy' = Busy /\ Active' = Active
    BY <1>14 DEF vars, Busy, Active
  <2> QED
    BY <1>14, <2>1, HandoverQuiet DEF vars, Handover, QueueNeverFull
<1>w. /\ \A k : k \in Waiting <=> k \in wq \/ \E u \in Tasks : k \in hand[u]
      /\ \A k : k \in Waiting' <=> k \in wq' \/ \E u \in Tasks : k \in hand'[u]
  BY DEF Waiting
<1>3. ASSUME NEW t \in Tasks, Timestamper(t) PROVE Handover'
  <2> DEFINE j == [task |-> t, dl |-> Deadline(t)]
  <2>1. /\ panic = "none" /\ ~masked[t] /\ masked' = [masked EXCEPT ![t] = TRUE]
        /\ pc' = pc /\ hand' = hand
    BY <1>3 DEF Timestamper, TakesTimestamper, Eligible, Mask
  <2>2. ~IsWaiting(t) /\ ~pended[t] /\ t \notin Busy /\ hand[t] = hand[t]
    BY <2>1 DEF Handover, OneJobPerTask
  <2>3. Busy' = Busy /\ Active' = Active
    BY <2>1 DEF Busy, Active
  <2>4. HandHoldsOne' /\ LevelsDistinct'
    BY <2>1, <2>3 DEF Handover, HandHoldsOne, LevelsDistinct
  <2>5. CASE Overflows(t)
    <3>1. panic' = "deadline overflowed"
      BY <1>3, <2>5 DEF Timestamper
    <3> QED
      BY <3>1 DEF Handover, OneJobPerTask, QueueNeverFull
  <2>6. CASE ~Overflows(t) /\ Preempts(j.dl)
    <3>1. wq' = wq /\ panic' = panic /\ pended' = [pended EXCEPT ![t] = TRUE]
      BY <1>3, <2>6 DEF Timestamper, Execute, HandToDispatcher
    <3>2. \A u \in Tasks : IsWaiting(u)' <=> IsWaiting(u)
      BY <2>1, <3>1, <1>w DEF IsWaiting
    <3>3. \A u \in Tasks : masked'[u] <=> IsWaiting(u)' \/ pended'[u] \/ u \in Busy'
      BY <2>1, <2>3, <3>1, <3>2 DEF Handover, OneJobPerTask
    <3>4. /\ \A u \in Tasks : ~(IsWaiting(u)' /\ pended'[u])
          /\ \A u \in Busy' : ~IsWaiting(u)' /\ ~pended'[u]
      BY <2>1, <2>2, <2>3, <3>1, <3>2 DEF Handover, OneJobPerTask, Busy
    <3> QED
      BY <2>1, <2>4, <3>1, <3>3, <3>4, <1>w DEF Handover, OneJobPerTask, QueueNeverFull
  <2>7. CASE ~Overflows(t) /\ ~Preempts(j.dl)
    <3>1. \A k \in Waiting : k.task # t
      BY <2>2 DEF IsWaiting
    <3>2. ~(Cardinality(wq) >= WaitQueueLen)
      BY <2>1, <3>1, <1>w, RoomForOne DEF Handover, OneJobPerTask
    <3>3. wq' = wq \cup {j} /\ panic' = panic /\ pended' = pended
      BY <1>3, <2>7, <3>2 DEF Timestamper, Enqueue
    <3>4. \A k : k \in Waiting' <=> k \in Waiting \/ k = j
      BY <2>1, <3>3, <1>w
    <3>5. \A u \in Tasks : IsWaiting(u)' <=> IsWaiting(u) \/ u = t
      <4>1. j.task = t
        OBVIOUS
      <4> HIDE DEF j
      <4> QED
        BY <3>4, <4>1 DEF IsWaiting
    <3>6. \A k, l \in Waiting' : k.task = l.task => k = l
      BY <2>1, <3>1, <3>4 DEF Handover, OneJobPerTask
    <3>7. \A u \in Tasks : wq' \cap hand'[u] = {}
      BY <2>1, <3>1, <3>3, <1>w DEF Handover, OneJobPerTask
    <3>8. \A u \in Tasks : masked'[u] <=> IsWaiting(u)' \/ pended'[u] \/ u \in Busy'
      BY <2>1, <2>3, <3>3, <3>5 DEF Handover, OneJobPerTask
    <3>9. /\ \A u \in Tasks : ~(IsWaiting(u)' /\ pended'[u])
          /\ \A u \in Busy' : ~IsWaiting(u)' /\ ~pended'[u]
      BY <2>1, <2>2, <2>3, <3>3, <3>5 DEF Handover, OneJobPerTask, Busy
    <3> QED
      BY <2>1, <2>4, <3>3, <3>6, <3>7, <3>8, <3>9 DEF Handover, OneJobPerTask, QueueNeverFull
  <2> QED
    BY <2>5, <2>6, <2>7
<1>4. ASSUME NEW t \in Tasks, Dispatch(t) PROVE Handover'
  <2>1. /\ panic = "none" /\ panic' = panic /\ pended[t]
        /\ pended' = [pended EXCEPT ![t] = FALSE] /\ pc' = [pc EXCEPT ![t] = "entry"]
        /\ masked' = masked /\ wq' = wq /\ hand' = hand
        /\ \A u \in Active : Prio[u] < Prio[t]
    BY <1>4 DEF Dispatch, TakesDispatcher
  <2>2. Waiting' = Waiting /\ \A u \in Tasks : IsWaiting(u)' <=> IsWaiting(u)
    BY <2>1 DEF Waiting, IsWaiting
  <2>3. t \notin Active /\ Busy' = Busy \cup {t} /\ Active' = Active \cup {t}
    BY <2>1 DEF Busy, Active
  <2>4. LevelsDistinct'
    BY <2>1, <2>3 DEF Handover, LevelsDistinct, Active
  <2>5. \A u \in Tasks : hand'[u] # {} => pc'[u] = "dispatch"
    BY <2>1, <2>3 DEF Handover, OneJobPerTask, Active
  <2>6. /\ \A u \in Tasks : masked'[u] <=> IsWaiting(u)' \/ pended'[u] \/ u \in Busy'
        /\ \A u \in Tasks : ~(IsWaiting(u)' /\ pended'[u])
        /\ \A u \in Busy' : ~IsWaiting(u)' /\ ~pended'[u]
    BY <2>1, <2>2, <2>3 DEF Handover, OneJobPerTask, Busy
  <2> QED
    BY <2>1, <2>2, <2>4, <2>5, <2>6 DEF Handover, HandHoldsOne, OneJobPerTask, QueueNeverFull
<1>10. ASSUME NEW t \in Tasks, UnmaskTimestamper(t) PROVE Handover'
  <2>1. /\ panic = "none" /\ panic' = panic /\ pc[t] = "unmask"
        /\ masked' = [masked EXCEPT ![t] = FALSE] /\ pc' = [pc EXCEPT ![t] = "pop"]
        /\ pended' = pended /\ wq' = wq /\ hand' = hand
    BY <1>10 DEF UnmaskTimestamper, At
  <2>2. Waiting' = Waiting /\ \A u \in Tasks : IsWaiting(u)' <=> IsWaiting(u)
    BY <2>1 DEF Waiting, IsWaiting
  <2>3. t \in Busy /\ Busy' = Busy \ {t} /\ Active' = Active
    BY <2>1 DEF Busy, Active
  <2>4. hand[t] = {}
    BY <2>1 DEF Handover, OneJobPerTask
  <2>5. /\ \A u \in Tasks : masked'[u] <=> IsWaiting(u)' \/ pended'[u] \/ u \in Busy'
        /\ \A u \in Tasks : ~(IsWaiting(u)' /\ pended'[u])
        /\ \A u \in Busy' : ~IsWaiting(u)' /\ ~pended'[u]
    BY <2>1, <2>2, <2>3 DEF Handover, OneJobPerTask, Busy
  <2> QED
    BY <2>1, <2>2, <2>3, <2>4, <2>5
       DEF Handover, HandHoldsOne, LevelsDistinct, OneJobPerTask, QueueNeverFull
<1>11. ASSUME NEW t \in Tasks, PopBegin(t) PROVE Handover'
  <2>1. /\ panic = "none" /\ panic' = panic /\ pc[t] = "pop"
        /\ masked' = masked /\ pended' = pended
    BY <1>11 DEF PopBegin, At
  <2>2. CASE UNCHANGED <<wq, hand>> /\ (Goto(t, "dispatch") \/ Goto(t, "traverse"))
    BY <2>1, <2>2, PopKeepsHandover
  <2>3. ASSUME NEW j \in wq, Take(t, j) PROVE Handover'
    BY <2>1, <2>3, TakeKeepsHandover
  <2> QED
    BY <1>11, <2>2, <2>3 DEF PopBegin
<1>12. ASSUME NEW t \in Tasks, PopFinish(t) PROVE Handover'
  <2>1. /\ panic = "none" /\ panic' = panic /\ pc[t] = "traverse"
        /\ masked' = masked /\ pended' = pended
    BY <1>12 DEF PopFinish, At
  <2>2. CASE UNCHANGED <<wq, hand>> /\ Goto(t, "dispatch")
    BY <2>1, <2>2, PopKeepsHandover
  <2>3. ASSUME NEW j \in wq, Take(t, j) PROVE Handover'
    BY <2>1, <2>3, TakeKeepsHandover
  <2> QED
    BY <1>12, <2>2, <2>3 DEF PopFinish, Earliest
<1>13. ASSUME NEW t \in Tasks, DispatchNext(t) PROVE Handover'
  <2>1. /\ panic = "none" /\ pc[t] = "dispatch" /\ masked' = masked
        /\ hand' = [hand EXCEPT ![t] = {}] /\ pc' = [pc EXCEPT ![t] = "off"]
    BY <1>13 DEF DispatchNext, At
  <2>2. Busy' = Busy /\ Active' = Active \ {t}
    BY <2>1 DEF Busy, Active
  <2>3. HandHoldsOne' /\ LevelsDistinct'
    BY <2>1, <2>2 DEF Handover, HandHoldsOne, LevelsDistinct
  <2>4. /\ \A u, v \in Tasks : u # v => hand'[u] \cap hand'[v] = {}
        /\ \A u \in Tasks : hand'[u] # {} => pc'[u] = "dispatch"
    BY <2>1 DEF Handover, OneJobPerTask
  <2>5. CASE hand[t] = {} /\ UNCHANGED <<pended, wq, panic>>
    <3>1. hand' = hand
      BY <2>1, <2>5
    <3>2. Waiting' = Waiting /\ \A u \in Tasks : IsWaiting(u)' <=> IsWaiting(u)
      BY <2>5, <3>1 DEF Waiting, IsWaiting
    <3> QED
      BY <2>1, <2>2, <2>3, <2>4, <2>5, <3>1, <3>2 DEF Handover, OneJobPerTask, QueueNeverFull, Busy
  <2>6. ASSUME NEW j \in hand[t], Execute(j), UNCHANGED <<wq, panic>>
        PROVE  Handover'
    <3>1. pended' = [pended EXCEPT ![j.task] = TRUE] /\ wq' = wq /\ panic' = panic
      BY <2>6 DEF Execute, HandToDispatcher
    <3>2. j \in Waiting /\ j \in Job /\ IsWaiting(j.task) /\ hand[t] = {j}
      BY <2>1, <1>w DEF IsWaiting, Handover, HandHoldsOne
    <3>3. \A k : k \in Waiting' <=> k \in Waiting /\ k # j
      BY <2>1, <3>1, <3>2, <1>w DEF Handover, OneJobPerTask
    <3>4. \A u \in Tasks : IsWaiting(u)' <=> IsWaiting(u) /\ u # j.task
      BY <2>1, <3>2, <3>3 DEF Handover, OneJobPerTask, IsWaiting
    <3>5. j.task \in Tasks /\ ~pended[j.task] /\ j.task \notin Busy
      BY <2>1, <3>2 DEF Handover, OneJobPerTask, Job
    <3>6. \A u \in Tasks : masked'[u] <=> IsWaiting(u)' \/ pended'[u] \/ u \in Busy'
      BY <2>1, <2>2, <3>1, <3>2, <3>4, <3>5 DEF Handover, OneJobPerTask
    <3>7. /\ \A u \in Tasks : ~(IsWaiting(u)' /\ pended'[u])
          /\ \A u \in Busy' : ~IsWaiting(u)' /\ ~pended'[u]
      BY <2>1, <2>2, <3>1, <3>4, <3>5 DEF Handover, OneJobPerTask, Busy
    <3>8. \A u \in Tasks : wq' \cap hand'[u] = {}
      BY <2>1, <3>1 DEF Handover, OneJobPerTask
    <3> QED
      BY <2>1, <2>3, <2>4, <3>1, <3>3, <3>6, <3>7, <3>8 DEF Handover, OneJobPerTask, QueueNeverFull
  <2>7. ASSUME NEW j \in hand[t], Enqueue(j), UNCHANGED pended
        PROVE  Handover'
    <3>1. j \in Waiting /\ j \in Job /\ j \notin wq /\ hand[t] = {j}
      BY <2>1, <1>w DEF Handover, OneJobPerTask, HandHoldsOne
    <3>2. \A k \in wq : k.task # j.task
      BY <2>1, <3>1, <1>w DEF Handover, OneJobPerTask
    <3>3. \A k, l \in wq : k.task = l.task => k = l
      BY <2>1, <1>w DEF Handover, OneJobPerTask
    <3>4. ~(Cardinality(wq) >= WaitQueueLen)
      BY <3>1, <3>2, <3>3, RoomForOne DEF Job
    <3>5. wq' = wq \cup {j} /\ panic' = panic
      BY <2>7, <3>4 DEF Enqueue
    <3>6. \A k : k \in Waiting' <=> k \in Waiting
      BY <2>1, <3>1, <3>5, <1>w
    <3>7. \A u \in Tasks : IsWaiting(u)' <=> IsWaiting(u)
      BY <3>6 DEF IsWaiting
    <3>8. \A u \in Tasks : wq' \cap hand'[u] = {}
      BY <2>1, <3>1, <3>5, <1>w DEF Handover, OneJobPerTask
    <3> QED
      BY <2>1, <2>2, <2>3, <2>4, <2>7, <3>5, <3>6, <3>7, <3>8
         DEF Handover, OneJobPerTask, QueueNeverFull, Busy
  <2> QED
    BY <1>13, <2>5, <2>6, <2>7 DEF DispatchNext
<1> QED
  BY <1>1, <1>2, <1>3, <1>4, <1>5, <1>6, <1>7, <1>8, <1>9, <1>10, <1>11, <1>12, <1>13, <1>14
     DEF Next, Cpu, DispatcherStep, Idle, Halted

(* A task is masked exactly as long as it has a job, and the job is in one *)
(* place: the queue, a hand, its dispatcher's pending bit, or running.     *)
THEOREM OneJob == Spec => []OneJobPerTask
<1>1. TypeOK /\ Handover /\ [Next]_vars => TypeOK' /\ Handover'
  BY TypeStep, HandoverStep
<1>2. Handover => OneJobPerTask
  BY DEF Handover
<1> QED
  BY TypeInit, HandoverInit, <1>1, <1>2, PTL DEF Spec

(* Neither caller of insert ever panics with "Queue ran out of space".     *)
THEOREM QueueRoom == Spec => []QueueNeverFull
<1>1. TypeOK /\ Handover /\ [Next]_vars => TypeOK' /\ Handover'
  BY TypeStep, HandoverStep
<1>2. Handover => QueueNeverFull
  BY DEF Handover
<1> QED
  BY TypeInit, HandoverInit, <1>1, <1>2, PTL DEF Spec

----------------------------------------------------------------------------
(* The wait queue starts empty. *)
THEOREM ServedInit == Init => Served
BY DEF Init, Served

(* A step that leaves the wait queue and the exits under way as they are,  *)
(* or only advances an exit towards its pop, and makes the system deadline *)
(* no later.                                                               *)
LEMMA ServedQuiet ==
  ASSUME TypeOK, Served, UNCHANGED <<wq, hand, traversing>>,
         panic' = "none" => panic = "none",
         sysDl' \in Timestamp, sysDl' <= sysDl,
         \A v \in InExit : \/ pc'[v] = pc[v]
                           \/ {pc[v], pc'[v]} \subseteq {"unpend", "unmask", "pop"}
  PROVE  Served'
<1> SUFFICES ASSUME panic = "none", NEW k \in wq
             PROVE  sysDl' <= k.dl \/ \E v \in InExit' : WillServe(v, k)'
  BY DEF Served
<1>1. CASE sysDl <= k.dl
  <2>1. k.dl \in Int /\ sysDl \in Int /\ sysDl' \in Int
    BY ConstantsAssumption DEF TypeOK, Job
  <2> QED
    BY <1>1, <2>1
<1>2. ASSUME NEW v \in InExit, WillServe(v, k) PROVE v \in InExit' /\ WillServe(v, k)'
  BY <1>2 DEF InExit, WillServe
<1> QED
  BY <1>1, <1>2 DEF Served

(* A job no more urgent than the system deadline may join the queue.       *)
LEMMA ServedEnqueue ==
  ASSUME TypeOK, NEW j \in Job, Enqueue(j), ~Preempts(j.dl), UNCHANGED sysDl,
         NEW k \in wq', k \notin wq
  PROVE  sysDl' <= k.dl
<1>1. k = j
  BY DEF Enqueue
<1>2. j.dl \in Int /\ sysDl \in Int
  BY ConstantsAssumption DEF TypeOK, Job
<1> QED
  BY <1>1, <1>2 DEF Preempts

(* A step that leaves an urgent job in the queue leaves an exit that will  *)
(* compare it, or a more urgent one, with the system deadline.             *)
LEMMA ServedStep == TypeOK /\ Handover /\ Served /\ [Next]_vars => Served'
<1> SUFFICES ASSUME TypeOK, Handover, Served, [Next]_vars PROVE Served'
  OBVIOUS
<1> USE DEF env, nvic, chain, wait
<1>a. TypeOK'
  BY TypeStep
<1>b. sysDl \in Timestamp /\ sysDl' \in Timestamp /\ Timestamp \subseteq Int
  BY <1>a, ConstantsAssumption DEF TypeOK
<1>c. sysDl <= sysDl
  BY <1>b
<1>1. CASE Tick
  BY <1>1, <1>b, <1>c, ServedQuiet DEF Tick
<1>2. ASSUME NEW t \in Tasks, Raise(t) PROVE Served'
  BY <1>2, <1>b, <1>c, ServedQuiet DEF Raise
<1>3. ASSUME NEW t \in Tasks, Timestamper(t) PROVE Served'
  <2> DEFINE j == [task |-> t, dl |-> Deadline(t)]
  <2>0. panic = "none" /\ UNCHANGED <<pc, hand, traversing>>
    BY <1>3 DEF Timestamper
  <2>1. CASE Overflows(t)
    BY <1>3, <2>1, <1>b, <1>c, ServedQuiet DEF Timestamper
  <2>2. CASE ~Overflows(t) /\ Preempts(j.dl)
    <3>1. sysDl' = j.dl /\ UNCHANGED <<wq, panic>>
      BY <1>3, <2>2 DEF Timestamper, Execute, HandToDispatcher
    <3>2. sysDl' <= sysDl
      BY <2>2, <3>1, <1>b DEF Preempts
    <3> QED
      BY <2>0, <3>1, <3>2, <1>b, ServedQuiet
  <2>3. CASE ~Overflows(t) /\ ~Preempts(j.dl)
    <3>1. Enqueue(j) /\ UNCHANGED sysDl
      BY <1>3, <2>3 DEF Timestamper
    <3>2. j \in Job
      <4>1. uptime \in Nat
        BY ConstantsAssumption DEF TypeOK
      <4>2. Deadline(t) \in Timestamp
        BY <2>3, <4>1, ConstantsAssumption, NowInRange DEF Overflows, Deadline
      <4> QED
        BY <4>2 DEF Job
    <3>3. ~Preempts(j.dl)
      BY <2>3
    <3> HIDE DEF j
    <3>4. \A k \in wq' : k \in wq \/ sysDl' <= k.dl
      BY <3>1, <3>2, <3>3, ServedEnqueue
    <3>5. \A k \in wq, v \in InExit : WillServe(v, k) => v \in InExit' /\ WillServe(v, k)'
      BY <2>0 DEF InExit, WillServe
    <3> QED
      BY <2>0, <3>1, <3>4, <3>5 DEF Served
  <2> QED
    BY <2>1, <2>2, <2>3
<1>4. ASSUME NEW t \in Tasks, Dispatch(t) PROVE Served'
  <2>1. \A v \in InExit : pc'[v] = pc[v]
    <3>1. t \notin Active
      BY <1>4, ConstantsAssumption DEF Dispatch, TakesDispatcher
    <3> QED
      BY <1>4, <3>1 DEF Dispatch, Goto, InExit, Active, TypeOK
  <2> QED
    BY <1>4, <2>1, <1>b, <1>c, ServedQuiet DEF Dispatch
<1>5. ASSUME NEW t \in Tasks, CheckMissedDeadline(t) PROVE Served'
  <2>1. \A v \in InExit : pc'[v] = pc[v]
    BY <1>5 DEF CheckMissedDeadline, At, Goto, InExit, TypeOK
  <2> QED
    BY <1>5, <2>1, <1>b, <1>c, ServedQuiet DEF CheckMissedDeadline, At
<1>6. ASSUME NEW t \in Tasks, Exec(t) PROVE Served'
  <2>1. \A v \in InExit : pc'[v] = pc[v]
    BY <1>6 DEF Exec, At, Goto, InExit, TypeOK
  <2> QED
    BY <1>6, <2>1, <1>b, <1>c, ServedQuiet DEF Exec
<1>7. ASSUME NEW t \in Tasks, GetPrevDeadline(t) PROVE Served'
  <2>1. \A v \in InExit : pc'[v] = pc[v]
    BY <1>7 DEF GetPrevDeadline, At, Goto, InExit, TypeOK
  <2> QED
    BY <1>7, <2>1, <1>b, <1>c, ServedQuiet DEF GetPrevDeadline
<1>8. ASSUME NEW t \in Tasks, RestoreDeadline(t) PROVE Served'
  <2>1. pc'[t] = "unpend"
    BY <1>8 DEF RestoreDeadline, Goto, TypeOK
  <2>2. t \in InExit' /\ \A k : WillServe(t, k)'
    BY <2>1 DEF InExit, WillServe
  <2> QED
    BY <2>2 DEF Served
<1>9. ASSUME NEW t \in Tasks, UnpendTimestamper(t) PROVE Served'
  <2>1. \A v \in InExit : pc'[v] = pc[v] \/ {pc[v], pc'[v]} \subseteq {"unpend", "unmask", "pop"}
    BY <1>9 DEF UnpendTimestamper, At, Goto, InExit, TypeOK
  <2> QED
    BY <1>9, <2>1, <1>b, <1>c, ServedQuiet DEF UnpendTimestamper
<1>10. ASSUME NEW t \in Tasks, UnmaskTimestamper(t) PROVE Served'
  <2>1. \A v \in InExit : pc'[v] = pc[v] \/ {pc[v], pc'[v]} \subseteq {"unpend", "unmask", "pop"}
    BY <1>10 DEF UnmaskTimestamper, At, Goto, InExit, TypeOK
  <2> QED
    BY <1>10, <2>1, <1>b, <1>c, ServedQuiet DEF UnmaskTimestamper
<1>11. ASSUME NEW t \in Tasks, PopBegin(t) PROVE Served'
  <2>0. pc[t] = "pop" /\ panic = "none" /\ sysDl' = sysDl
    BY <1>11 DEF PopBegin, At
  <2>1. CASE wq' = {}
    BY <2>1 DEF Served
  <2>2. CASE /\ traversing' = TRUE /\ Goto(t, "traverse") /\ UNCHANGED <<wq, hand>>
    <3>1. pc'[t] = "traverse"
      BY <2>2 DEF Goto, TypeOK
    <3>2. t \in InExit' /\ \A k : WillServe(t, k)'
      BY <2>2, <3>1 DEF InExit, WillServe
    <3> QED
      BY <3>2 DEF Served
  <2> QED
    BY <1>11, <2>1, <2>2 DEF PopBegin, Take
<1>12. ASSUME NEW t \in Tasks, PopFinish(t) PROVE Served'
  <2>0. pc[t] = "traverse" /\ panic = "none" /\ sysDl' = sysDl
    BY <1>12 DEF PopFinish, At
  <2>1. CASE ~traversing /\ Goto(t, "dispatch") /\ UNCHANGED <<wait, hand>>
    <3>1. \A k \in wq, v \in InExit : WillServe(v, k) => v \in InExit' /\ WillServe(v, k)'
      BY <2>0, <2>1 DEF InExit, WillServe, Goto, TypeOK
    <3> QED
      BY <2>0, <2>1, <3>1 DEF Served
  <2>2. ASSUME NEW j \in Earliest(wq), Take(t, j) PROVE Served'
    <3>1. pc'[t] = "dispatch" /\ hand'[t] = {j} /\ wq' = wq \ {j}
      BY <2>2 DEF Take, Goto, TypeOK
    <3>2. \A k \in wq' : j.dl <= k.dl
      BY <3>1 DEF Earliest
    <3>3. t \in InExit' /\ \A k \in wq' : WillServe(t, k)'
      BY <3>1, <3>2 DEF InExit, WillServe
    <3> QED
      BY <3>3 DEF Served
  <2> QED
    BY <1>12, <2>1, <2>2 DEF PopFinish
<1>13. ASSUME NEW t \in Tasks, DispatchNext(t) PROVE Served'
  <2>1. /\ panic = "none" /\ pc[t] = "dispatch" /\ UNCHANGED traversing
        /\ hand' = [hand EXCEPT ![t] = {}] /\ pc' = [pc EXCEPT ![t] = "off"]
    BY <1>13 DEF DispatchNext, At, Goto
  <2>2. \A k \in wq, v \in InExit : WillServe(v, k) /\ v # t => v \in InExit' /\ WillServe(v, k)'
    BY <2>1 DEF InExit, WillServe, TypeOK
  <2>3. CASE hand[t] = {} /\ UNCHANGED <<wq, sysDl>>
    <3>1. \A k : ~WillServe(t, k)
      BY <2>1, <2>3 DEF WillServe
    <3> QED
      BY <2>1, <2>2, <2>3, <3>1 DEF Served
  <2>4. ASSUME NEW j \in hand[t] PROVE \A k \in wq : WillServe(t, k) => j.dl <= k.dl
    BY <2>1, <2>4 DEF WillServe, Handover, HandHoldsOne
  <2>5. \A j \in hand[t], k \in wq \cup wq' : j \in Job /\ j.dl \in Int /\ k.dl \in Int
    BY <1>a, ConstantsAssumption DEF TypeOK, Job
  <2>6. ASSUME NEW j \in hand[t], Preempts(j.dl), Execute(j), UNCHANGED wq PROVE Served'
    <3>1. sysDl' = j.dl
      BY <2>6 DEF Execute, HandToDispatcher
    <3>2. \A k \in wq : sysDl <= k.dl \/ WillServe(t, k) => sysDl' <= k.dl
      BY <2>4, <2>5, <2>6, <3>1, <1>b DEF Preempts
    <3> QED
      BY <2>1, <2>2, <2>6, <3>2 DEF Served
  <2>7. ASSUME NEW j \in hand[t], ~Preempts(j.dl), Enqueue(j), UNCHANGED sysDl PROVE Served'
    <3>1. \A k \in wq' : k \in wq \/ sysDl' <= k.dl
      BY <2>5, <2>7, ServedEnqueue
    <3>2. \A k \in wq : WillServe(t, k) => sysDl' <= k.dl
      BY <2>4, <2>5, <2>7, <1>b DEF Preempts
    <3> QED
      BY <2>1, <2>2, <2>7, <3>1, <3>2 DEF Served
  <2> QED
    BY <1>13, <2>3, <2>6, <2>7 DEF DispatchNext
<1>14. CASE UNCHANGED vars
  BY <1>14, <1>b, <1>c, ServedQuiet DEF vars
<1> QED
  BY <1>1, <1>2, <1>3, <1>4, <1>5, <1>6, <1>7, <1>8, <1>9, <1>10, <1>11, <1>12, <1>13, <1>14
     DEF Next, Cpu, DispatcherStep, Idle, Halted

(* When no dispatcher is in its exit, no queued job is more urgent than    *)
(* the system deadline: dispatcher_exit leaves none behind, even when an   *)
(* exit that preempted it takes the job it was about to pop.               *)
THEOREM NothingUrgentLeft == Spec => []WaitingNotUrgent
<1>1. /\ Init => TypeOK /\ Handover /\ Served
      /\ TypeOK /\ Handover /\ Served /\ [Next]_vars => (TypeOK /\ Handover /\ Served)'
  BY TypeInit, HandoverInit, ServedInit, TypeStep, HandoverStep, ServedStep
<1>2. Served => WaitingNotUrgent
  BY DEF Served, WaitingNotUrgent
<1> QED
  BY <1>1, <1>2, PTL DEF Spec

----------------------------------------------------------------------------
(* What a step may do to a job: only a timestamper dates it, only a        *)
(* timestamper adds it to those that wait, and only from there, or straight*)
(* from its timestamper, is it posted.                                     *)
Arrives(t) == Timestamper(t) /\ ~Overflows(t)

PostedBy(t, j) == DispatchNext(t) /\ j \in hand[t] /\ Preempts(j.dl) /\ Execute(j)

Frame ==
  /\ uptime <= uptime'
  /\ \A u \in Tasks : jobDl'[u] # jobDl[u] => Arrives(u) /\ jobDl'[u] = Deadline(u)
  /\ \A k \in Waiting' :
       k \in Waiting \/ \E t \in Tasks : /\ Arrives(t) /\ ~Preempts(Deadline(t))
                                         /\ k = [task |-> t, dl |-> Deadline(t)]
  /\ \A u \in Tasks : pended'[u] =>
       \/ pended[u]
       \/ Arrives(u) /\ Preempts(Deadline(u))
       \/ \E t \in Tasks, j \in Waiting : PostedBy(t, j) /\ j.task = u
  /\ \A u \in Tasks :
       /\ pc'[u] \in {"entry", "exec"} => pended[u] \/ pc[u] \in {"entry", "exec"}
       /\ pc'[u] \in {"get", "store"} => pc[u] \in {"exec", "get", "store"}

(* Every step moves jobs only along the life cycle that Frame states.      *)
LEMMA FrameStep == TypeOK /\ [Next]_vars => Frame
<1> SUFFICES ASSUME TypeOK, [Next]_vars PROVE Frame
  OBVIOUS
<1> USE ConstantsAssumption DEF TypeOK, Goto, PcValues, env, nvic, chain, wait
<1>a. uptime \in Int
  OBVIOUS
<1>b. ASSUME UNCHANGED <<wq, hand>> PROVE Waiting' = Waiting
  BY <1>b DEF Waiting
<1>1. CASE Tick
  BY <1>1, <1>a, <1>b DEF Tick, Frame
<1>2. ASSUME NEW t \in Tasks, Raise(t) PROVE Frame
  BY <1>2, <1>a, <1>b DEF Raise, Frame
<1>3. ASSUME NEW t \in Tasks, Timestamper(t) PROVE Frame
  <2> DEFINE j == [task |-> t, dl |-> Deadline(t)]
  <2>0. UNCHANGED <<uptime, pc, hand>>
    BY <1>3 DEF Timestamper
  <2>1. CASE Overflows(t)
    <3>1. UNCHANGED <<wq, pended, jobDl>>
      BY <1>3, <2>1 DEF Timestamper
    <3> QED
      BY <1>a, <1>b, <2>0, <3>1 DEF Frame
  <2>2. ASSUME ~Overflows(t)
        PROVE  Arrives(t) /\ jobDl' = [jobDl EXCEPT ![t] = Deadline(t)]
    BY <1>3, <2>2 DEF Timestamper, Arrives
  <2>3. CASE ~Overflows(t) /\ Preempts(j.dl)
    <3>1. wq' = wq /\ pended' = [pended EXCEPT ![t] = TRUE]
      BY <1>3, <2>3 DEF Timestamper, Execute, HandToDispatcher
    <3>2. Preempts(Deadline(t))
      BY <2>3
    <3> QED
      BY <1>a, <1>b, <2>0, <2>2, <2>3, <3>1, <3>2 DEF Frame
  <2>4. CASE ~Overflows(t) /\ ~Preempts(j.dl)
    <3>1. pended' = pended /\ wq' \subseteq wq \cup {j}
      BY <1>3, <2>4 DEF Timestamper, Enqueue
    <3>2. \A k \in Waiting' : k \in Waiting \/ k = j
      BY <2>0, <3>1 DEF Waiting
    <3>3. ~Preempts(Deadline(t))
      BY <2>4
    <3> QED
      BY <1>a, <2>0, <2>2, <2>4, <3>1, <3>2, <3>3 DEF Frame
  <2> QED
    BY <2>1, <2>3, <2>4
<1>4. ASSUME NEW t \in Tasks, Dispatch(t) PROVE Frame
  BY <1>4, <1>a, <1>b DEF Dispatch, TakesDispatcher, Frame
<1>5. ASSUME NEW t \in Tasks, CheckMissedDeadline(t) PROVE Frame
  <2>1. /\ pc[t] = "entry" /\ (UNCHANGED pc \/ Goto(t, "exec"))
        /\ UNCHANGED <<uptime, jobDl, pended, wq, hand>>
    BY <1>5 DEF CheckMissedDeadline, At
  <2> QED
    BY <1>a, <1>b, <2>1 DEF Frame
<1>6. ASSUME NEW t \in Tasks, Exec(t) PROVE Frame
  BY <1>6, <1>a, <1>b DEF Exec, At, Frame
<1>7. ASSUME NEW t \in Tasks, GetPrevDeadline(t) PROVE Frame
  BY <1>7, <1>a, <1>b DEF GetPrevDeadline, At, Frame
<1>8. ASSUME NEW t \in Tasks, RestoreDeadline(t) PROVE Frame
  BY <1>8, <1>a, <1>b DEF RestoreDeadline, At, Frame
<1>9. ASSUME NEW t \in Tasks, UnpendTimestamper(t) PROVE Frame
  BY <1>9, <1>a, <1>b DEF UnpendTimestamper, At, Frame
<1>10. ASSUME NEW t \in Tasks, UnmaskTimestamper(t) PROVE Frame
  BY <1>10, <1>a, <1>b DEF UnmaskTimestamper, At, Frame
<1>c. ASSUME NEW t \in Tasks, NEW j \in wq, Take(t, j)
      PROVE  \A k \in Waiting' : k \in Waiting
  BY <1>c DEF Take, Waiting
<1>11. ASSUME NEW t \in Tasks, PopBegin(t) PROVE Frame
  <2>1. \A k \in Waiting' : k \in Waiting
    BY <1>11, <1>b, <1>c DEF PopBegin
  <2>2. /\ UNCHANGED <<uptime, jobDl, pended>>
        /\ Goto(t, "dispatch") \/ Goto(t, "traverse")
    BY <1>11 DEF PopBegin, Take
  <2> QED
    BY <1>a, <2>1, <2>2 DEF Frame
<1>12. ASSUME NEW t \in Tasks, PopFinish(t) PROVE Frame
  <2>1. \A k \in Waiting' : k \in Waiting
    BY <1>12, <1>b, <1>c DEF PopFinish, Earliest
  <2>2. UNCHANGED <<uptime, jobDl, pended>> /\ Goto(t, "dispatch")
    BY <1>12 DEF PopFinish, Take
  <2> QED
    BY <1>a, <2>1, <2>2 DEF Frame
<1>13. ASSUME NEW t \in Tasks, DispatchNext(t) PROVE Frame
  <2>1. /\ UNCHANGED <<uptime, jobDl>> /\ Goto(t, "off")
        /\ hand' = [hand EXCEPT ![t] = {}]
    BY <1>13 DEF DispatchNext
  <2>2. \A j \in hand[t] : j \in Waiting /\ j.task \in Tasks
    BY DEF Waiting, Job
  <2>3. \A k \in Waiting' : k \in Waiting
    <3>1. wq' \subseteq wq \cup hand[t]
      BY <1>13 DEF DispatchNext, Enqueue
    <3> QED
      BY <2>1, <3>1 DEF Waiting
  <2>4. ASSUME NEW u \in Tasks, pended'[u], ~pended[u]
        PROVE  \E j \in Waiting : PostedBy(t, j) /\ j.task = u
    <3>1. PICK j \in hand[t] : Preempts(j.dl) /\ Execute(j)
      BY <1>13, <2>4 DEF DispatchNext
    <3>2. j.task = u
      BY <2>2, <2>4, <3>1 DEF Execute, HandToDispatcher
    <3> QED
      BY <1>13, <2>2, <3>1, <3>2 DEF PostedBy
  <2> QED
    BY <1>a, <2>1, <2>3, <2>4 DEF Frame
<1>14. CASE UNCHANGED vars
  BY <1>14, <1>a, <1>b DEF vars, Frame
<1> QED
  BY <1>1, <1>2, <1>3, <1>4, <1>5, <1>6, <1>7, <1>8, <1>9, <1>10, <1>11, <1>12, <1>13, <1>14
     DEF Next, Cpu, DispatcherStep, Idle, Halted

----------------------------------------------------------------------------
(* No interrupt line is up when the system starts. *)
THEOREM LineInit == Init => LineAccounts
<1> SUFFICES ASSUME Init PROVE LineAccounts
  OBVIOUS
<1>1. Waiting = {}
  BY DEF Init, Waiting
<1> QED
  BY <1>1, ConstantsAssumption DEF Init, LineAccounts, IsWaiting

(* Every step keeps the account of the interrupt lines. *)
LEMMA LineStep == TypeOK /\ Handover /\ LineAccounts /\ [Next]_vars => LineAccounts'
<1> SUFFICES ASSUME TypeOK, Handover, LineAccounts, [Next]_vars,
                    panic' = "none", NEW u \in LevelTriggered
             PROVE  /\ IsWaiting(u)' \/ pended'[u] \/ pc'[u] \in {"entry", "exec"} => line'[u]
                    /\ latch'[u] /\ ~line'[u] => pc'[u] \in {"get", "store", "unpend"}
  BY DEF LineAccounts
<1> DEFINE Outstanding == IsWaiting(u) \/ pended[u] \/ pc[u] \in {"entry", "exec"}
<1> USE DEF TypeOK, Goto, PcValues, env, nvic, chain, wait
<1>0. panic = "none" /\ u \in Tasks
  <2>1. u \in Tasks
    BY ConstantsAssumption
  <2> QED
    BY <2>1 DEF Next, Cpu, DispatcherStep, Tick, Raise, Timestamper, Dispatch, CheckMissedDeadline,
           Exec, GetPrevDeadline, RestoreDeadline, UnpendTimestamper, UnmaskTimestamper,
           PopBegin, PopFinish, DispatchNext, At, Idle, Halted, vars
<1>1. Frame
  BY FrameStep
<1>2. Timestamper(u) => line[u]
  <2> SUFFICES ASSUME Timestamper(u) PROVE line[u]
    OBVIOUS
  <2>1. latch[u] /\ ~masked[u]
    BY DEF Timestamper, TakesTimestamper, Eligible
  <2>2. u \notin Busy
    BY <1>0, <2>1 DEF Handover, OneJobPerTask
  <2> QED
    BY <1>0, <2>1, <2>2 DEF LineAccounts, Busy
<1>3. Outstanding' => Outstanding \/ Timestamper(u)
  <2>1. ASSUME IsWaiting(u)' PROVE IsWaiting(u) \/ Timestamper(u)
    BY <1>1, <2>1 DEF Frame, IsWaiting, Arrives
  <2>2. ASSUME pended'[u] PROVE pended[u] \/ IsWaiting(u) \/ Timestamper(u)
    BY <1>0, <1>1, <2>2 DEF Frame, IsWaiting, Arrives
  <2>3. ASSUME pc'[u] \in {"entry", "exec"} PROVE pended[u] \/ pc[u] \in {"entry", "exec"}
    BY <1>0, <1>1, <2>3 DEF Frame
  <2> QED
    BY <2>1, <2>2, <2>3
<1>4. Outstanding => line[u]
  BY <1>0 DEF LineAccounts
<1>5. latch[u] /\ ~line[u] => pc[u] \in {"get", "store", "unpend"}
  BY <1>0 DEF LineAccounts
<1> HIDE DEF Outstanding
<1>6. CASE /\ UNCHANGED <<line, latch>>
           /\ pc'[u] = pc[u] \/ pc[u] \notin {"get", "store", "unpend"} \/ pc'[u] \in {"store", "unpend"}
  BY <1>2, <1>3, <1>4, <1>5, <1>6 DEF Outstanding
<1>7. CASE Tick
  BY <1>6, <1>7 DEF Tick
<1> DEFINE Goal == /\ Outstanding' => line'[u]
                   /\ latch'[u] /\ ~line'[u] => pc'[u] \in {"get", "store", "unpend"}
<1>8. ASSUME NEW t \in Tasks, Raise(t) PROVE Goal
  <2>1. /\ latch' = [latch EXCEPT ![t] = TRUE]
        /\ line' = [line EXCEPT ![t] = t \in LevelTriggered] /\ pc' = pc
    BY <1>8 DEF Raise
  <2> QED
    BY <1>0, <1>2, <1>3, <1>4, <1>5, <2>1
<1>9. ASSUME NEW t \in Tasks, Timestamper(t) PROVE Goal
  <2>1. latch' = [latch EXCEPT ![t] = line[t]] /\ line' = line /\ pc' = pc
    BY <1>9 DEF Timestamper
  <2> QED
    BY <1>0, <1>2, <1>3, <1>4, <1>5, <2>1
<1>10. ASSUME NEW t \in Tasks, Exec(t) PROVE Goal
  <2>1. /\ line' = [line EXCEPT ![t] = FALSE] /\ latch' = latch /\ pended' = pended
        /\ pc[t] = "exec" /\ pc' = [pc EXCEPT ![t] = "get"] /\ wq' = wq /\ hand' = hand
    BY <1>10 DEF Exec, At
  <2>2. t # u => Goal
    BY <1>0, <1>2, <1>3, <1>4, <1>5, <2>1
  <2>3. CASE t = u
    <3>1. ~IsWaiting(u) /\ ~pended[u]
      BY <1>0, <2>1, <2>3 DEF Handover, OneJobPerTask, Busy
    <3>2. ~IsWaiting(u)'
      BY <2>1, <3>1 DEF IsWaiting, Waiting
    <3> QED
      BY <2>1, <2>3, <3>1, <3>2, <1>0 DEF Outstanding
  <2> QED
    BY <2>2, <2>3
<1>11. ASSUME NEW t \in Tasks, UnpendTimestamper(t) PROVE Goal
  <2>1. latch' = [latch EXCEPT ![t] = line[t]] /\ line' = line /\ pc' = [pc EXCEPT ![t] = "unmask"]
    BY <1>11 DEF UnpendTimestamper
  <2> QED
    BY <1>0, <1>2, <1>3, <1>4, <1>5, <2>1
<1>12. ASSUME NEW t \in Tasks, Dispatch(t) \/ DispatcherStep(t),
              ~Exec(t), ~UnpendTimestamper(t)
       PROVE  Goal
  <2>1. UNCHANGED <<line, latch>>
    BY <1>12 DEF DispatcherStep, Dispatch, CheckMissedDeadline, GetPrevDeadline, RestoreDeadline,
                 UnmaskTimestamper, PopBegin, PopFinish, DispatchNext
  <2>2. \/ pc'[u] = pc[u] \/ pc[u] \notin {"get", "store", "unpend"}
        \/ pc'[u] \in {"store", "unpend"}
    <3>1. CASE Dispatch(t)
      <4>1. t \notin Active
        <5>1. \A v \in Active : Prio[v] < Prio[t]
          BY <3>1 DEF Dispatch, TakesDispatcher
        <5>2. Prio[t] \in Int
          BY ConstantsAssumption
        <5> QED
          BY <5>1, <5>2
      <4> QED
        BY <1>0, <3>1, <4>1 DEF Dispatch, Active
    <3>2. CASE CheckMissedDeadline(t) \/ UnmaskTimestamper(t)
      BY <1>0, <3>2 DEF CheckMissedDeadline, UnmaskTimestamper, At
    <3>3. CASE GetPrevDeadline(t) \/ RestoreDeadline(t)
      BY <1>0, <3>3 DEF GetPrevDeadline, RestoreDeadline, At
    <3>4. CASE PopBegin(t) \/ PopFinish(t)
      BY <1>0, <3>4 DEF PopBegin, PopFinish, Take, At
    <3>5. CASE DispatchNext(t)
      BY <1>0, <3>5 DEF DispatchNext, At
    <3> QED
      BY <1>12, <3>1, <3>2, <3>3, <3>4, <3>5 DEF DispatcherStep
  <2> QED
    BY <1>6, <2>1, <2>2 DEF Outstanding
<1>13. CASE UNCHANGED vars
  BY <1>6, <1>13 DEF vars, Outstanding
<1> QED
  BY <1>7, <1>8, <1>9, <1>10, <1>11, <1>12, <1>13 DEF Next, Cpu, DispatcherStep, Idle, Halted, Outstanding

(* The task of a level-triggered interrupt runs only while its line is up: *)
(* the unpend of dispatcher_exit, before the unmask, discards the pending  *)
(* bit its own event left behind.                                          *)
THEOREM NoneSpurious == Spec => []NoSpuriousRun
<1>1. /\ Init => TypeOK /\ Handover /\ LineAccounts
      /\ TypeOK /\ Handover /\ LineAccounts /\ [Next]_vars => (TypeOK /\ Handover /\ LineAccounts)'
  BY TypeInit, HandoverInit, LineInit, TypeStep, HandoverStep, LineStep
<1>2. TypeOK /\ LineAccounts => NoSpuriousRun
  BY DEF LineAccounts, NoSpuriousRun
<1> QED
  BY <1>1, <1>2, PTL DEF Spec
=============================================================================
