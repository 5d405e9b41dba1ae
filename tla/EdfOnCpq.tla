------------------------------ MODULE EdfOnCpq ------------------------------
(***************************************************************************)
(* The scheduler with the queue it is built on: EdfScheduler where the set *)
(* of waiting jobs is the linked list of Cpq, and the pop of each exit the *)
(* list's traversal, which any timestamper may interrupt to insert and any *)
(* other exit to carry on.  A step that does not touch the list is the one *)
(* of EdfScheduler.                                                        *)
(***************************************************************************)
EXTENDS Integers, FiniteSets

CONSTANTS
  Tasks, RelDeadline, Prio, DispatcherVector, TimestamperVector,
  LevelTriggered, MaxTimestamp, CheckMissed, MaxUptime, MaxEvents,
  None,      (* Option::None                                               *)
  TopLevel   (* the timestampers, which never interrupt one another        *)

VARIABLES
  uptime, events, line, latch, masked, pended, pc, prev, sysDl, rq, panic,
  jobDl, overtaken,
  value, next, head, tail, free, min, trav, inPop, answer

Jobs == [task : Tasks, dl : 0 .. MaxTimestamp]

(* ScheduledTask is ordered by its deadline (PartialOrd). *)
ByDeadline == [j \in Jobs |-> j.dl]

Q == INSTANCE Cpq
       WITH Callers <- Tasks \cup {TopLevel}, Items <- Jobs,
            Key <- ByDeadline, Capacity <- Cardinality(Tasks)

(* dispatcher_exit's next_task is what its pop returned. *)
NextTask ==
  [t \in Tasks |->
     IF pc[t] = "dispatch" THEN {answer[t]} \ {None} ELSE {}]

S == INSTANCE EdfRefinement
       WITH wq <- Q!Stored, traversing <- trav # None, hand <- NextTask

(* A context, a job and the state of a traversal are told apart from None. *)
ASSUME CompositionAssumption ==
  /\ S!ConstantsAssumption
  /\ TopLevel \notin Tasks
  /\ None \notin Jobs \cup Nat \cup Q!Traversal

cpq  == <<value, next, head, tail, free, min, trav, inPop, answer>>
vars == <<uptime, events, line, latch, masked, pended, pc, prev, sysDl, rq,
          panic, jobDl, overtaken, cpq>>

Init == Q!Init /\ S!Init

(***************************************************************************)
(* The steps on the list.                                                  *)
(***************************************************************************)
(* insert(..).expect("Queue ran out of space") *)
Insert(caller, j) ==
  /\ Q!Insert(caller, j)
  /\ panic' = IF answer'[caller] = "queue full" THEN "queue full" ELSE panic

PostOrInsert(caller, j) ==
  \/ S!Preempts(j.dl) /\ S!Execute(j) /\ UNCHANGED <<panic, cpq>>
  \/ ~S!Preempts(j.dl) /\ Insert(caller, j) /\ UNCHANGED <<pended, sysDl, rq, overtaken>>

(* Scheduler::schedule, in the timestamper. *)
Timestamper(t) ==
  /\ panic = "none" /\ S!TakesTimestamper(t)
  /\ S!Mask(t)
  /\ latch' = [latch EXCEPT ![t] = line[t]]
  /\ \/ /\ S!Overflows(t)
        /\ panic' = "deadline overflowed"
        /\ UNCHANGED <<pended, sysDl, rq, jobDl, overtaken, cpq>>
     \/ /\ ~S!Overflows(t)
        /\ jobDl' = [jobDl EXCEPT ![t] = S!Deadline(t)]
        /\ PostOrInsert(TopLevel, [task |-> t, dl |-> S!Deadline(t)])
  /\ UNCHANGED <<uptime, events, line, pc, prev>>

(* Mutant: dispatcher_exit does not look at the queue. *)
PopSkipped(t) ==
  /\ S!At(t, "pop") /\ S!Goto(t, "dispatch")
  /\ answer' = [answer EXCEPT ![t] = None]
  /\ UNCHANGED <<value, next, head, tail, free, min, trav, inPop>>

(* The critical sections of the pop in dispatcher_exit.                    *)
PopFirst(t) ==
  /\ S!At(t, "pop")
  /\ \/ (Q!PopEmpty(t) \/ Q!PopSingleton(t)) /\ S!Goto(t, "dispatch")
     \/ Q!PopBegin(t) /\ S!Goto(t, "traverse")

PopAgain(t) ==
  /\ S!At(t, "traverse")
  /\ \/ Q!PopAdvance(t) /\ UNCHANGED pc
     \/ (Q!PopRemove(t) \/ Q!PopRobbed(t)) /\ S!Goto(t, "dispatch")

Pop(t) ==
  /\ PopFirst(t) \/ PopAgain(t)
  /\ UNCHANGED <<uptime, events, line, latch, masked, pended, prev, sysDl, rq,
                 panic, jobDl, overtaken>>

(* The closing critical section of dispatcher_exit. *)
DispatchNext(t) ==
  /\ S!At(t, "dispatch")
  /\ \/ NextTask[t] = {} /\ UNCHANGED <<pended, sysDl, rq, panic, overtaken, cpq>>
     \/ \E j \in NextTask[t] : PostOrInsert(t, j)
  /\ S!Goto(t, "off")
  /\ UNCHANGED <<uptime, events, line, latch, masked, prev, jobDl>>

(***************************************************************************)
(* The steps that do not touch it.                                         *)
(***************************************************************************)
OffList(t) ==
  /\ UNCHANGED cpq
  /\ \/ S!Dispatch(t) \/ S!CheckMissedDeadline(t) \/ S!Exec(t)
     \/ S!GetPrevDeadline(t) \/ S!RestoreDeadline(t)
     \/ S!UnpendTimestamper(t) \/ S!UnmaskTimestamper(t)

Environment ==
  /\ UNCHANGED cpq
  /\ S!Tick \/ (\E t \in Tasks : S!Raise(t)) \/ S!Idle \/ S!Halted

Cpu == \E t \in Tasks : Timestamper(t) \/ Pop(t) \/ DispatchNext(t) \/ OffList(t)

Next == Cpu \/ Environment

(* As in EdfScheduler, nothing is assumed of the peripherals. *)
Spec     == Init /\ [][Next]_vars
FairSpec == Spec /\ WF_vars(Cpu)

----------------------------------------------------------------------------
(* The scheduler on the linked list behaves as the one on a set of jobs,   *)
(* whatever the timestampers insert and the exits carry on meanwhile; what *)
(* is proved of the latter holds of the program with its real queue.       *)
ImplementsScheduler == S!Spec

(* When the peripherals have gone quiet every job has been executed and    *)
(* the system deadline is at rest, unless a job was overtaken.             *)
Drains == S!Drains

(* A line held up is lowered by its task, unless a job was overtaken.      *)
LineServed == S!LineServed

(* Every job that arrives is executed, unless a job was overtaken.         *)
EveryJobCompletes == S!Machine!EveryJobCompletes
=============================================================================
