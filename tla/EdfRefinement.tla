--------------------------- MODULE EdfRefinement ---------------------------
(***************************************************************************)
(* The scheduler implements EdfMachine.                                    *)
(***************************************************************************)
EXTENDS EdfSchedulerInv

PhaseOf(t) ==
  IF pended[t] THEN "posted"
  ELSE IF pc[t] \in {"entry", "exec"} THEN "running"
  ELSE IF t \in Busy THEN "finished"
  ELSE IF IsWaiting(t) THEN "waiting" ELSE "armed"

Phase == [t \in Tasks |-> PhaseOf(t)]

Machine == INSTANCE EdfMachine
             WITH Deadlines <- Timestamp, phase <- Phase, due <- jobDl,
                  disordered <- overtaken

(* Every behaviour of the handlers, exits and wait queue, whatever the     *)
(* timestampers interrupt, is one of preemptive EDF on one job a task.     *)
ImplementsEdfMachine == Machine!MachineSpec
=============================================================================
