------------------------- MODULE EdfSchedulerProps -------------------------
(***************************************************************************)
(* What the scheduler is meant to guarantee.                               *)
(***************************************************************************)
EXTENDS EdfScheduler

(* The stack of jobs posted and not yet completed: their dispatcher is     *)
(* pended, or has not yet restored the deadline it found.                  *)
OnStack == {t \in Tasks : pended[t] \/ pc[t] \in {"entry", "exec", "get", "store"}}

(* Dispatchers between that restore and the end of dispatcher_exit. *)
InExit == {t \in Tasks : pc[t] \in {"unpend", "unmask", "pop", "traverse", "dispatch"}}

(* Dispatchers whose job has not yet re-armed its timestamper. *)
Busy == {t \in Tasks : pc[t] \in {"entry", "exec", "get", "store", "unpend", "unmask"}}

(* dl is the least of the deadlines of the jobs of S, or none if S is empty *)
IsLeastDeadline(dl, S) ==
  /\ \A u \in S : dl <= jobDl[u]
  /\ dl = MaxTimestamp \/ \E u \in S : dl = jobDl[u]

Below(t) == {u \in OnStack : Prio[u] < Prio[t]}

Quiescent ==
  /\ Active = {}
  /\ \A t \in Tasks : ~pended[t] /\ ~Eligible(t)

----------------------------------------------------------------------------
TypeOK ==
  /\ uptime \in 0 .. MaxUptime
  /\ events \in 0 .. MaxEvents
  /\ line \in [Tasks -> BOOLEAN]
  /\ latch \in [Tasks -> BOOLEAN]
  /\ masked \in [Tasks -> BOOLEAN]
  /\ pended \in [Tasks -> BOOLEAN]
  /\ pc \in [Tasks -> PcValues]
  /\ prev \in [Tasks -> Timestamp]
  /\ hand \in [Tasks -> SUBSET Job]
  /\ sysDl \in Timestamp
  /\ rq \in [RqSlots -> Timestamp]
  /\ wq \subseteq Job
  /\ traversing \in BOOLEAN
  /\ panic \in Panics
  /\ jobDl \in [Tasks -> Timestamp]
  /\ overtaken \in BOOLEAN

(***************************************************************************)
(* A masked task has exactly one job, in exactly one place (the wait       *)
(* queue, the hand of one dispatcher, pended, or running), and an unmasked *)
(* task has none: no arrival is ever executed twice or lost in hand-over.  *)
(***************************************************************************)
IsWaiting(t) == \E j \in Waiting : j.task = t

OneJobPerTask ==
  panic = "none" =>
    /\ \A j, k \in Waiting : j.task = k.task => j = k
    /\ \A u, v \in Tasks : u # v => hand[u] \cap hand[v] = {}
    /\ \A u \in Tasks : wq \cap hand[u] = {}
    /\ \A t \in Tasks : hand[t] # {} => pc[t] = "dispatch"
    /\ \A t \in Tasks : masked[t] <=> IsWaiting(t) \/ pended[t] \/ t \in Busy
    /\ \A t \in Tasks : ~(IsWaiting(t) /\ pended[t])
    /\ \A t \in Busy : ~IsWaiting(t) /\ ~pended[t]

(* The wait queue never runs out of space, the panic of both callers of    *)
(* insert: it has room for every task, and no task waits twice.            *)
QueueNeverFull == panic # "queue full"

(***************************************************************************)
(* Until a job is overtaken, the system deadline and the run queue slots   *)
(* form a stack: a job further up has a higher priority and an earlier     *)
(* deadline, the system deadline is the deadline of the top job, and the   *)
(* slot of a job's level keeps the deadline of the job below it, which is  *)
(* what dispatcher_exit must restore.                                      *)
(***************************************************************************)
StackOrdered ==
  \A t, u \in OnStack : t # u =>
    /\ Prio[t] # Prio[u]
    /\ Prio[t] < Prio[u] => jobDl[u] < jobDl[t]

DeadlineChain ==
  panic = "none" /\ ~overtaken =>
    /\ StackOrdered
    /\ IsLeastDeadline(sysDl, OnStack)
    /\ \A t \in OnStack : IsLeastDeadline(rq[RqIdx(t)], Below(t))
    /\ \A t \in Tasks : pc[t] = "store" => prev[t] = rq[RqIdx(t)]

(* EDF.  Until a job is overtaken, the task that runs has a deadline no     *)
(* later than that of any job that waits, whatever exits it preempted.      *)
EarliestDeadlineRuns ==
  panic = "none" /\ ~overtaken =>
    \A t \in Tasks : Running(t) /\ pc[t] \in {"entry", "exec"} =>
      \A j \in Waiting : jobDl[t] <= j.dl

(* No dispatcher leaves behind a waiting job that is more urgent than the  *)
(* system deadline: when no exit is under way, every queued job has to     *)
(* wait for a job that is posted.                                          *)
WaitingNotUrgent ==
  panic = "none" /\ InExit = {} => \A j \in wq : sysDl <= j.dl

(* No wake-up is lost: until a job is overtaken, a processor with nothing  *)
(* to execute has an empty wait queue and the system deadline at rest.     *)
IdleMeansNoWork ==
  panic = "none" /\ Quiescent /\ ~overtaken => wq = {} /\ sysDl = MaxTimestamp

(* The task of a level-triggered interrupt is executed only while its line *)
(* is up: dispatcher_exit's unpend discards the second pending of the same *)
(* event, and only that.                                                   *)
NoSpuriousRun ==
  panic = "none" => \A t \in LevelTriggered : pc[t] = "exec" => line[t]

(***************************************************************************)
(* A job can be overtaken only by a timestamper that fires in the exit of  *)
(* a dispatcher, after its restore and before its closing critical section,*)
(* or by a dispatcher that such a timestamper posted.                      *)
(***************************************************************************)
OvertakenOnlyInExit ==
  [][~overtaken /\ overtaken' => \E t \in InExit : pc'[t] = pc[t]]_vars

(* The deadline check judges the task about to run by its own deadline,    *)
(* although it reads the system deadline.                                  *)
CheckIsExact ==
  [][\A t \in Tasks : ~overtaken /\ CheckMissedDeadline(t) =>
        (panic' = "missed deadline" <=> CheckMissed /\ Now > jobDl[t])]_vars

(* When the peripherals have gone quiet, every job has been executed and   *)
(* the system deadline is at rest, unless a job was overtaken.             *)
Drains == <>[](Quiescent /\ wq = {} /\ sysDl = MaxTimestamp) \/ <>overtaken

(* An interrupt line that a peripheral holds up is eventually lowered by   *)
(* the task it is bound to, unless a job was overtaken: no arrival is lost *)
(* while the timestamper is masked.                                        *)
LineServed ==
  \A t \in LevelTriggered : line[t] ~> ~line[t] \/ overtaken

----------------------------------------------------------------------------
(* Claims of the code's own comments and assertions, checked as they are   *)
(* written.  TLC refutes each of them.                                     *)

(* system_deadline.rs: the system deadline is the minimum of the deadlines *)
(* of the tasks that execute.  Left unsettled while an exit is under way.  *)
SystemDeadlineIsMinimum ==
  panic = "none" /\ InExit = {} => IsLeastDeadline(sysDl, OnStack)

(* schedule: a task bypasses the queue once for each priority level, even  *)
(* with a later deadline than the system's, when the level's slot is empty.*)
BypassesWhenSlotEmpty ==
  [][\A t \in Tasks :
       Timestamper(t) /\ panic' = "none" /\ (\A u \in OnStack : Prio[u] # Prio[t])
         => pended'[t]]_vars
=============================================================================
