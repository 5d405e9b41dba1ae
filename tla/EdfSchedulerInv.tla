-------------------------- MODULE EdfSchedulerInv --------------------------
(***************************************************************************)
(* The inductive invariant behind the safety properties of the scheduler.  *)
(* Each part is inductive given the parts before it.                       *)
(***************************************************************************)
EXTENDS EdfSchedulerProps

(* Arrivals all happen before the cycle counter first wraps.               *)
NoWrap == MaxUptime <= MaxTimestamp

(* No absolute deadline reaches the value that stands for "none".          *)
DeadlinesFit == \A t \in Tasks : MaxUptime + RelDeadline[t] < MaxTimestamp

----------------------------------------------------------------------------
(* Where the jobs are. *)
HandHoldsOne == \A t \in Tasks : \A j, k \in hand[t] : j = k

LevelsDistinct == \A t, u \in Active : Prio[t] = Prio[u] => t = u

Handover ==
  /\ OneJobPerTask
  /\ panic = "none" => HandHoldsOne /\ LevelsDistinct
  /\ QueueNeverFull

----------------------------------------------------------------------------
(* A level-triggered task is outstanding only for a line that is up, and a *)
(* stale pending bit is discarded before its timestamper is re-armed.      *)
LineAccounts ==
  panic = "none" => \A t \in LevelTriggered :
    /\ IsWaiting(t) \/ pended[t] \/ pc[t] \in {"entry", "exec"} => line[t]
    /\ latch[t] /\ ~line[t] => pc[t] \in {"get", "store", "unpend"}

----------------------------------------------------------------------------
(* A dispatcher whose exit will still compare a job no later than k with   *)
(* the system deadline.                                                    *)
WillServe(v, k) ==
  \/ pc[v] \in {"unpend", "unmask", "pop"}
  \/ pc[v] = "traverse" /\ traversing
  \/ pc[v] = "dispatch" /\ \E h \in hand[v] : h.dl <= k.dl

(* A queued job that is more urgent than the system deadline is about to   *)
(* be compared with it.                                                    *)
Served ==
  panic = "none" => \A k \in wq : sysDl <= k.dl \/ \E v \in InExit : WillServe(v, k)

----------------------------------------------------------------------------
(* The dates of the jobs that are outstanding. *)
JobsKeepDeadline == \A j \in Waiting : j.dl = jobDl[j.task]

ArrivedBefore ==
  \A t \in Tasks : t \in OnStack \/ IsWaiting(t) => jobDl[t] <= uptime + RelDeadline[t]

Dated == panic = "none" => JobsKeepDeadline /\ ArrivedBefore

----------------------------------------------------------------------------
(* What holds until a job is overtaken. *)

(* A waiting job can be more urgent than a job on the stack only from a    *)
(* higher level: it arrived later, with a shorter relative deadline.       *)
UrgentIsHigher ==
  \A j \in Waiting, u \in OnStack : j.dl < jobDl[u] => Prio[j.task] > Prio[u]

AboveStack(v) == \A u \in OnStack : Prio[u] < Prio[v]

(* A job popped by a dispatcher is no more urgent than what was posted     *)
(* since, at the dispatcher's level or above.                              *)
HandIsLater ==
  \A v \in Tasks : \A j \in hand[v], u \in OnStack :
    Prio[u] >= Prio[v] => jobDl[u] <= j.dl

(* A waiting job more urgent than the system deadline is about to be       *)
(* compared with it by a dispatcher above the stack.                       *)
ServedAbove ==
  \A k \in Waiting :
    sysDl <= k.dl \/ \E v \in InExit : AboveStack(v) /\ WillServe(v, k)

Ordered ==
  /\ DeadlineChain
  /\ panic = "none" /\ ~overtaken => UrgentIsHigher /\ HandIsLater /\ ServedAbove

----------------------------------------------------------------------------
IInv ==
  /\ TypeOK
  /\ Handover
  /\ LineAccounts
  /\ Served
  /\ Dated
  /\ Ordered
=============================================================================
