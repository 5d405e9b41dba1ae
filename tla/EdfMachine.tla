----------------------------- MODULE EdfMachine -----------------------------
(***************************************************************************)
(* What the scheduler promises, without interrupts, priorities, run queue  *)
(* or wait queue.  A task has one job at a time; the job arrives, waits or *)
(* is posted at once, starts, completes, and its task is re-armed.         *)
(*                                                                         *)
(* The promise is preemptive EDF: a job is posted only when it is strictly *)
(* more urgent than every job posted and not completed, and it starts and  *)
(* completes only while nothing that arrived is more urgent.  A post ahead *)
(* of a more urgent job that waits ends it; then only the life of each job *)
(* is promised.                                                            *)
(***************************************************************************)
EXTENDS Integers

CONSTANTS Tasks, Deadlines

VARIABLES
  phase,      (* how far the job of a task has come                        *)
  due,        (* absolute deadline of a task's latest job                  *)
  disordered  (* a job was posted ahead of a more urgent one               *)

machine == <<phase, due, disordered>>

Phases == {"armed", "waiting", "posted", "running", "finished"}

Posted == {t \in Tasks : phase[t] \in {"posted", "running"}}
Waits  == {t \in Tasks : phase[t] = "waiting"}

MachineInit ==
  /\ phase = [t \in Tasks |-> "armed"]
  /\ due \in [Tasks -> Deadlines]
  /\ disordered = FALSE

Becomes(t, p) == phase' = [phase EXCEPT ![t] = p]

Arrive(t) ==
  /\ phase[t] = "armed"
  /\ \E d \in Deadlines : due' = [due EXCEPT ![t] = d]

(* The deadline of the job posted is that of the next state: it may arrive *)
(* in this step.                                                           *)
PostedNow(t) ==
  /\ Becomes(t, "posted")
  /\ disordered \/ \A u \in Posted : due'[t] < due[u]
  /\ disordered' = (disordered \/ \E w \in Waits : due[w] < due'[t])

ArriveToWait(t) == Arrive(t) /\ Becomes(t, "waiting") /\ UNCHANGED disordered
ArriveToRun(t)  == Arrive(t) /\ PostedNow(t)
Post(t)         == phase[t] = "waiting" /\ PostedNow(t) /\ UNCHANGED due

MostUrgent(t) ==
  disordered \/ (/\ \A u \in Posted \ {t} : due[t] < due[u]
                 /\ \A w \in Waits : due[t] <= due[w])

Start(t) ==
  /\ phase[t] = "posted" /\ MostUrgent(t)
  /\ Becomes(t, "running")
  /\ UNCHANGED <<due, disordered>>

Complete(t) ==
  /\ phase[t] = "running" /\ MostUrgent(t)
  /\ Becomes(t, "finished")
  /\ UNCHANGED <<due, disordered>>

Rearm(t) ==
  /\ phase[t] = "finished"
  /\ Becomes(t, "armed")
  /\ UNCHANGED <<due, disordered>>

MachineNext ==
  \E t \in Tasks :
    \/ ArriveToWait(t) \/ ArriveToRun(t) \/ Post(t)
    \/ Start(t) \/ Complete(t) \/ Rearm(t)

MachineSpec == MachineInit /\ [][MachineNext]_machine

(* Every job that arrives is executed, unless the order was broken. *)
EveryJobCompletes ==
  \A t \in Tasks : phase[t] \in {"waiting", "posted", "running"} ~>
                     phase[t] = "finished" \/ disordered
=============================================================================
