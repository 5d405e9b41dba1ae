---------------------------- MODULE EdfScheduler ----------------------------
(***************************************************************************)
(* The earliest-deadline-first scheduler of rtic-edf-pass, together with   *)
(* the interrupt handlers its code generator emits.                        *)
(*                                                                         *)
(* Every task owns two interrupts.  Its timestamper, at the highest        *)
(* priority in use, stamps an arrival with an absolute deadline and either *)
(* posts the task to its dispatcher or puts it in the wait queue.  Its     *)
(* dispatcher runs the task and then dispatcher_exit: restore the system   *)
(* deadline, re-arm the timestamper, take one task from the wait queue and *)
(* post it if it is more urgent than what is left running.                 *)
(*                                                                         *)
(* A step of a dispatcher is one atomic access or one critical section, so *)
(* that a timestamper can fire between any two of them, as on the machine. *)
(* A timestamper is one step: nothing outranks it.                         *)
(***************************************************************************)
EXTENDS Integers, FiniteSets

CONSTANTS
  Tasks,             (* the tasks of the application                       *)
  RelDeadline,       (* relative deadline of a task, in timer cycles       *)
  Prio,              (* priority of its dispatcher                         *)
  DispatcherVector,  (* vector number of its dispatcher interrupt          *)
  TimestamperVector, (* vector number of its timestamper interrupt         *)
  LevelTriggered,    (* tasks whose interrupt line stays up until the task *)
                     (* acts on the peripheral; the others are pulses      *)
  MaxTimestamp,      (* Timestamp::MAX                                     *)
  CheckMissed,       (* feature "check-missed-deadlines"                   *)
  MaxUptime,         (* bound: cycles a behaviour may last                 *)
  MaxEvents          (* bound: events the peripherals may raise            *)

Timestamp == 0 .. MaxTimestamp

(* The priorities are those of assign_dispatchers_and_priorities: a shorter *)
(* relative deadline is a higher priority, equal deadlines share one.       *)
ASSUME ConstantsAssumption ==
  /\ IsFiniteSet(Tasks)
  /\ MaxTimestamp \in Nat
  /\ RelDeadline \in [Tasks -> Timestamp]
  /\ Prio \in [Tasks -> Nat \ {0}]
  /\ \A t, u \in Tasks : RelDeadline[t] < RelDeadline[u] <=> Prio[t] > Prio[u]
  /\ DispatcherVector \in [Tasks -> Nat]
  /\ TimestamperVector \in [Tasks -> Nat]
  /\ LevelTriggered \subseteq Tasks
  /\ CheckMissed \in BOOLEAN
  /\ MaxUptime \in Nat
  /\ MaxEvents \in Nat

VARIABLES
  uptime,     (* cycles since the counter was started                      *)
  events,     (* events raised so far                                      *)
  line,       (* interrupt lines the peripherals hold up                   *)
  latch,      (* NVIC pending bits of the timestampers                     *)
  masked,     (* NVIC mask of the timestampers                             *)
  pended,     (* NVIC pending bits of the dispatchers                      *)
  pc,         (* where each dispatcher is                                  *)
  prev,       (* dispatcher_exit's local prev_deadline                     *)
  hand,       (* dispatcher_exit's local next_task: at most one job        *)
  sysDl,      (* the system deadline                                       *)
  rq,         (* the run queue: one slot for each priority level           *)
  wq,         (* the jobs in the wait queue                                *)
  traversing, (* a pop of the wait queue is under way                      *)
  panic,      (* the panic that stopped the machine, or "none"             *)
  jobDl,      (* history: absolute deadline of a task's latest job         *)
  overtaken   (* history: a job was posted ahead of a more urgent one      *)

nvic  == <<latch, masked, pended>>
wait  == <<wq, traversing>>
chain == <<sysDl, rq>>
env   == <<uptime, events, line>>
vars  == <<env, nvic, pc, prev, hand, chain, wait, panic, jobDl, overtaken>>

(* A ScheduledTask.  The dispatcher index of the code stands for the task. *)
Job == [task : Tasks, dl : Timestamp]

RqIdx(t) == Prio[t] - 1
RqSlots  == {RqIdx(t) : t \in Tasks}

(* Mutant: the size the comment on wait_queue_len gives. *)
WaitQueueLenOfComment == Cardinality(Tasks) - Cardinality(RqSlots)

WaitQueueLen == Cardinality(Tasks)

(* The 32-bit cycle counter. *)
Now == uptime % (MaxTimestamp + 1)

PcValues == {"off", "entry", "exec", "get", "store", "unpend", "unmask",
             "pop", "traverse", "dispatch"}

Panics == {"none", "deadline overflowed", "queue full", "missed deadline"}

Init ==
  /\ uptime = 0 /\ events = 0
  /\ line   = [t \in Tasks |-> FALSE]
  /\ latch  = [t \in Tasks |-> FALSE]
  /\ masked = [t \in Tasks |-> FALSE]
  /\ pended = [t \in Tasks |-> FALSE]
  /\ pc   = [t \in Tasks |-> "off"]
  /\ prev = [t \in Tasks |-> MaxTimestamp]
  /\ hand = [t \in Tasks |-> {}]
  /\ sysDl = MaxTimestamp
  /\ rq = [i \in RqSlots |-> MaxTimestamp]
  /\ wq = {} /\ traversing = FALSE
  /\ panic = "none"
  /\ jobDl = [t \in Tasks |-> MaxTimestamp]
  /\ overtaken = FALSE

(***************************************************************************)
(* Which code the processor executes.  Priorities are strict: an interrupt *)
(* that is pending, unmasked and above the running one is taken at once.   *)
(***************************************************************************)
Eligible(t) == latch[t] /\ ~masked[t]
Active      == {t \in Tasks : pc[t] # "off"}

TakesTimestamper(t) ==
  /\ Eligible(t)
  /\ \A u \in Tasks : Eligible(u) => TimestamperVector[t] <= TimestamperVector[u]

TakesDispatcher(t) ==
  /\ pended[t]
  /\ \A u \in Tasks : ~Eligible(u)
  /\ \A u \in Active : Prio[u] < Prio[t]
  /\ \A u \in Tasks : pended[u] =>
       \/ Prio[u] < Prio[t]
       \/ Prio[u] = Prio[t] /\ DispatcherVector[t] <= DispatcherVector[u]

Running(t) ==
  /\ t \in Active
  /\ \A u \in Tasks : ~Eligible(u)
  /\ \A u \in Active : Prio[u] <= Prio[t]
  /\ \A u \in Tasks : pended[u] => Prio[u] <= Prio[t]

(* The jobs that arrived and were not posted: queued, or popped and not yet *)
(* compared with the system deadline.                                       *)
Waiting == wq \cup UNION {hand[u] : u \in Tasks}

(* Mutant: any element, not the least. *)
Arbitrary(S) == S

Earliest(S) == {j \in S : \A k \in S : j.dl <= k.dl}

(***************************************************************************)
(* The environment: time passes, peripherals raise their interrupt line.   *)
(***************************************************************************)
Tick ==
  /\ panic = "none" /\ uptime < MaxUptime
  /\ uptime' = uptime + 1
  /\ UNCHANGED <<events, line, nvic, pc, prev, hand, chain, wait, panic,
                 jobDl, overtaken>>

Raise(t) ==
  /\ panic = "none" /\ events < MaxEvents
  /\ events' = events + 1
  /\ latch' = [latch EXCEPT ![t] = TRUE]
  /\ line'  = [line EXCEPT ![t] = t \in LevelTriggered]
  /\ UNCHANGED <<uptime, masked, pended, pc, prev, hand, chain, wait, panic,
                 jobDl, overtaken>>

(***************************************************************************)
(* execute: the job's deadline becomes the system deadline, the former one *)
(* goes to the run queue slot of the job's level, the dispatcher is pended.*)
(***************************************************************************)
HandToDispatcher(j) ==
  /\ sysDl'  = j.dl
  /\ pended' = [pended EXCEPT ![j.task] = TRUE]
  /\ overtaken' = (overtaken \/ \E k \in Waiting : k.dl < j.dl)

(* Mutant: the former deadline is not saved. *)
ExecuteUnsaved(j) == HandToDispatcher(j) /\ UNCHANGED rq

Execute(j) ==
  /\ HandToDispatcher(j)
  /\ rq' = [rq EXCEPT ![RqIdx(j.task)] = sysDl]

(* insert(..).expect("Queue ran out of space") *)
Enqueue(j) ==
  LET full == Cardinality(wq) >= WaitQueueLen
  IN  /\ wq'    = IF full THEN wq ELSE wq \cup {j}
      /\ panic' = IF full THEN "queue full" ELSE panic

(***************************************************************************)
(* The timestamper of t: mask itself, then Scheduler::schedule.  A line    *)
(* still up when the handler returns pends the interrupt again.            *)
(***************************************************************************)
Deadline(t) == Now + RelDeadline[t]

(* Mutant: the addition wraps silently past the assertion. *)
NeverOverflows(t) == FALSE

Overflows(t) == Deadline(t) > MaxTimestamp

(* Mutant: a job is posted only when nothing is. *)
PreemptsIdleOnly(dl) == sysDl = MaxTimestamp

(* Mutant: a job of the same deadline preempts. *)
PreemptsTied(dl) == dl <= sysDl

Preempts(dl) == dl < sysDl

(* Mutant: the timestamper stays armed. *)
LeaveUnmasked(t) == UNCHANGED masked

Mask(t) == masked' = [masked EXCEPT ![t] = TRUE]

Timestamper(t) ==
  /\ panic = "none"
  /\ TakesTimestamper(t)
  /\ Mask(t)
  /\ latch' = [latch EXCEPT ![t] = line[t]]
  /\ LET j == [task |-> t, dl |-> Deadline(t)]
     IN  \/ /\ Overflows(t)
            /\ panic' = "deadline overflowed"
            /\ UNCHANGED <<pended, chain, wq, jobDl, overtaken>>
         \/ /\ ~Overflows(t)
            /\ jobDl' = [jobDl EXCEPT ![t] = Deadline(t)]
            /\ \/ /\ Preempts(j.dl)
                  /\ Execute(j)
                  /\ UNCHANGED <<wq, panic>>
               \/ /\ ~Preempts(j.dl)
                  /\ Enqueue(j)
                  /\ UNCHANGED <<pended, chain, overtaken>>
  /\ UNCHANGED <<env, pc, prev, hand, traversing>>

(***************************************************************************)
(* The dispatcher of t, step by step.                                      *)
(***************************************************************************)
Goto(t, at) == pc' = [pc EXCEPT ![t] = at]

Dispatch(t) ==
  /\ panic = "none"
  /\ TakesDispatcher(t)
  /\ pended' = [pended EXCEPT ![t] = FALSE]
  /\ Goto(t, "entry")
  /\ UNCHANGED <<env, latch, masked, prev, hand, chain, wait, panic, jobDl,
                 overtaken>>

At(t, at) == panic = "none" /\ pc[t] = at /\ Running(t)

(* The check of the feature check-missed-deadlines, as it is written to be: *)
(* the function declares no result and its tail yields a Timestamp, so a   *)
(* build with the feature does not type-check as the code stands.          *)
CheckMissedDeadline(t) ==
  /\ At(t, "entry")
  /\ \/ /\ CheckMissed /\ Now > sysDl
        /\ panic' = "missed deadline"
        /\ UNCHANGED pc
     \/ /\ ~CheckMissed \/ Now <= sysDl
        /\ Goto(t, "exec")
        /\ UNCHANGED panic
  /\ UNCHANGED <<env, nvic, prev, hand, chain, wait, jobDl, overtaken>>

(* The user's code: it acts on the peripheral, which lets go of its line. *)
Exec(t) ==
  /\ At(t, "exec")
  /\ line' = [line EXCEPT ![t] = FALSE]
  /\ Goto(t, "get")
  /\ UNCHANGED <<uptime, events, nvic, prev, hand, chain, wait, panic, jobDl,
                 overtaken>>

GetPrevDeadline(t) ==
  /\ At(t, "get")
  /\ prev' = [prev EXCEPT ![t] = rq[RqIdx(t)]]
  /\ Goto(t, "store")
  /\ UNCHANGED <<env, nvic, hand, chain, wait, panic, jobDl, overtaken>>

(* Mutant: the deadline of the completed job stays. *)
KeepDeadline(t) ==
  /\ At(t, "store")
  /\ Goto(t, "unpend")
  /\ UNCHANGED <<env, nvic, prev, hand, chain, wait, panic, jobDl, overtaken>>

RestoreDeadline(t) ==
  /\ At(t, "store")
  /\ sysDl' = prev[t]
  /\ Goto(t, "unpend")
  /\ UNCHANGED <<env, nvic, prev, hand, rq, wait, panic, jobDl, overtaken>>

(* Mutant: the second pending of the same event is not discarded. *)
KeepPending(t) ==
  /\ At(t, "unpend")
  /\ Goto(t, "unmask")
  /\ UNCHANGED <<env, nvic, prev, hand, chain, wait, panic, jobDl, overtaken>>

(* A line that is up pends its interrupt again. *)
UnpendTimestamper(t) ==
  /\ At(t, "unpend")
  /\ latch' = [latch EXCEPT ![t] = line[t]]
  /\ Goto(t, "unmask")
  /\ UNCHANGED <<env, masked, pended, prev, hand, chain, wait, panic, jobDl,
                 overtaken>>

(* Mutant: the timestamper is not re-armed. *)
KeepMasked(t) ==
  /\ At(t, "unmask")
  /\ Goto(t, "pop")
  /\ UNCHANGED <<env, nvic, prev, hand, chain, wait, panic, jobDl, overtaken>>

UnmaskTimestamper(t) ==
  /\ At(t, "unmask")
  /\ masked' = [masked EXCEPT ![t] = FALSE]
  /\ Goto(t, "pop")
  /\ UNCHANGED <<env, latch, pended, prev, hand, chain, wait, panic, jobDl,
                 overtaken>>

(***************************************************************************)
(* PriorityQueue::pop.  Its first critical section answers at once for a   *)
(* queue of at most one job and otherwise begins a traversal, or joins the *)
(* one a preempted pop has begun.  The traversal advances one node for     *)
(* each critical section, and takes the minimum in the last one; a pop     *)
(* that finds it finished was robbed and returns None.                     *)
(***************************************************************************)
Take(t, j) ==
  /\ wq' = wq \ {j}
  /\ hand' = [hand EXCEPT ![t] = {j}]
  /\ Goto(t, "dispatch")

(* Mutant: dispatcher_exit does not look at the wait queue. *)
SkipPop(t) ==
  /\ At(t, "pop")
  /\ Goto(t, "dispatch")
  /\ UNCHANGED <<env, nvic, prev, hand, chain, wait, panic, jobDl, overtaken>>

PopBegin(t) ==
  /\ At(t, "pop")
  /\ \/ /\ ~traversing /\ wq = {}
        /\ Goto(t, "dispatch")
        /\ UNCHANGED <<wait, hand>>
     \/ /\ ~traversing
        /\ \E j \in wq : wq = {j} /\ Take(t, j)
        /\ UNCHANGED traversing
     \/ /\ traversing \/ \E j, k \in wq : j # k
        /\ traversing' = TRUE
        /\ Goto(t, "traverse")
        /\ UNCHANGED <<wq, hand>>
  /\ UNCHANGED <<env, nvic, prev, chain, panic, jobDl, overtaken>>

PopFinish(t) ==
  /\ At(t, "traverse")
  /\ \/ /\ ~traversing
        /\ Goto(t, "dispatch")
        /\ UNCHANGED <<wait, hand>>
     \/ /\ traversing
        /\ \E j \in Earliest(wq) : Take(t, j)
        /\ traversing' = FALSE
  /\ UNCHANGED <<env, nvic, prev, chain, panic, jobDl, overtaken>>

(* The closing critical section of dispatcher_exit. *)
DispatchNext(t) ==
  /\ At(t, "dispatch")
  /\ \/ /\ hand[t] = {}
        /\ UNCHANGED <<pended, chain, wq, panic, overtaken>>
     \/ \E j \in hand[t] :
          \/ /\ Preempts(j.dl)
             /\ Execute(j)
             /\ UNCHANGED <<wq, panic>>
          \/ /\ ~Preempts(j.dl)
             /\ Enqueue(j)
             /\ UNCHANGED <<pended, chain, overtaken>>
  /\ hand' = [hand EXCEPT ![t] = {}]
  /\ Goto(t, "off")
  /\ UNCHANGED <<env, latch, masked, prev, traversing, jobDl>>

(* Thread mode: the idle task waits for an interrupt. *)
Idle ==
  /\ panic = "none" /\ Active = {}
  /\ \A t \in Tasks : ~Eligible(t) /\ ~pended[t]
  /\ UNCHANGED vars

(* The panic handler does not return. *)
Halted == panic # "none" /\ UNCHANGED vars

DispatcherStep(t) ==
  \/ CheckMissedDeadline(t) \/ Exec(t)
  \/ GetPrevDeadline(t) \/ RestoreDeadline(t)
  \/ UnpendTimestamper(t) \/ UnmaskTimestamper(t)
  \/ PopBegin(t) \/ PopFinish(t) \/ DispatchNext(t)

Cpu == \E t \in Tasks : Timestamper(t) \/ Dispatch(t) \/ DispatcherStep(t)

Next ==
  \/ Tick
  \/ \E t \in Tasks : Raise(t)
  \/ Cpu
  \/ Idle
  \/ Halted

(* The processor never stops executing while it has something to execute; *)
(* nothing is assumed of the peripherals or of the passing of time.       *)
Fairness == WF_vars(Cpu)

Spec     == Init /\ [][Next]_vars
FairSpec == Spec /\ Fairness
=============================================================================
