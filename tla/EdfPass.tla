------------------------------ MODULE EdfPass ------------------------------
(***************************************************************************)
(* The compiler pass: from the tasks of an application, in the order of    *)
(* their declaration, and its list of dispatcher interrupts, to the static *)
(* configuration of the scheduler: for each task a priority, a run queue   *)
(* index and a dispatcher, and the lengths of the two queues.  A stage is  *)
(* one step; a failed assertion or expect of the code ends it.             *)
(***************************************************************************)
EXTENDS Naturals, Sequences, FiniteSets, SequencesExt

CONSTANTS
  Deadlines,     (* values of the attribute deadline_us                    *)
  Interrupts,    (* names of interrupts                                    *)
  Qualified,     (* a path of several segments                             *)
  MinPriority,   (* MIN_TASK_PRIORITY                                      *)
  MaxPriority,   (* MAX_TASK_PRIORITY, the timestampers' own; a u16        *)
  U16Max,        (* u16::MAX                                               *)
  MaxTasks,      (* bound: tasks of an application                         *)
  None           (* an attribute that is absent                            *)

(* How a pass ends without an application. *)
Refusals == {"dispatcher not a path", "no device", "no cpu_freq", "no deadline",
             "priority found", "no binds", "too few dispatchers", "over u16",
             "not an identifier", "no tasks", "too many priorities",
             "priorities too low", "codegen bug"}

ASSUME PassAssumption ==
  /\ Deadlines \subseteq Nat
  /\ U16Max \in Nat /\ {MinPriority, MaxPriority} \subseteq 0 .. U16Max
  /\ MaxTasks \in Nat
  /\ None \notin Deadlines /\ None \notin Refusals

VARIABLES
  stage,        (* what the pass does next                                 *)
  defs,         (* the task structs, in the order of their declaration     *)
  args,         (* arguments of the app attribute that are well-formed     *)
  dispatchers,  (* the one called so                                       *)
  tasks         (* Vec<EdfTask>, and the defs before they are assigned     *)

input == <<defs, args, dispatchers>>
vars  == <<stage, input, tasks>>

(* A task struct: the attribute deadline_us, what kind of path the         *)
(* attribute binds is, and whether it has the attribute priority.          *)
TaskDef == [deadline : Deadlines \cup {None}, binds : {"absent", "identifier", "path"},
            priority : BOOLEAN]

AllArgs == {"dispatchers", "device", "cpu_freq"}

Init ==
  /\ stage = "parse"
  /\ defs \in SeqOf(TaskDef, MaxTasks)
  /\ args \in {AllArgs} \cup {AllArgs \ {a} : a \in AllArgs}
  /\ dispatchers \in SeqOf(Interrupts \cup {Qualified}, MaxTasks)
  /\ tasks = <<>>

(***************************************************************************)
(* AppParameters::parse, then TaskStructDef::from_struct on each task in   *)
(* turn, then the assertion of App::parse.                                 *)
(***************************************************************************)
Fault(d) ==
  IF d.deadline = None THEN "no deadline"
  ELSE IF d.priority THEN "priority found"
  ELSE IF d.binds = "absent" THEN "no binds" ELSE None

FirstTaskFault ==
  LET faulty == {i \in DOMAIN defs : Fault(defs[i]) # None}
  IN  IF faulty = {} THEN None ELSE Fault(defs[CHOOSE i \in faulty : \A j \in faulty : i <= j])

FirstFault ==
  IF "dispatchers" \notin args THEN "dispatcher not a path"
  ELSE IF "device" \notin args THEN "no device"
  ELSE IF "cpu_freq" \notin args THEN "no cpu_freq" ELSE FirstTaskFault

(* Mutant: the list of dispatchers is not counted. *)
EnoughSlots == TRUE

EnoughDispatchers == Len(dispatchers) >= Len(defs)

Parse ==
  /\ stage = "parse"
  /\ \/ FirstFault # None /\ stage' = FirstFault /\ UNCHANGED tasks
     \/ FirstFault = None /\ ~EnoughDispatchers
        /\ stage' = "too few dispatchers" /\ UNCHANGED tasks
     \/ FirstFault = None /\ EnoughDispatchers
        /\ stage' = "assign"
        /\ tasks' = [i \in DOMAIN defs |-> [def |-> i, deadline |-> defs[i].deadline]]
  /\ UNCHANGED input

(***************************************************************************)
(* assign_dispatchers_and_priorities: a stable sort by deadline, reversed; *)
(* a running count of the changes of deadline along it.                    *)
(***************************************************************************)
Before(u, t) == u.deadline < t.deadline \/ (u.deadline = t.deadline /\ u.def < t.def)

SortedByDeadline(s) ==
  CHOOSE r \in [DOMAIN s -> Range(s)] :
    \A i, j \in DOMAIN s : i < j => Before(r[i], r[j])

(* Mutant: the sorted list is not reversed. *)
EarlierFirst(s) == SortedByDeadline(s)

LaterFirst(s) == Reverse(SortedByDeadline(s))

(* Mutant: every task opens a group. *)
GroupPerTask(s) == [k \in DOMAIN s |-> k]

PrioGroups(s) ==
  LET acc[k \in Nat] ==
        IF k <= 1 THEN k
        ELSE acc[k - 1] + (IF s[k - 1].deadline # s[k].deadline THEN 1 ELSE 0)
  IN  [k \in DOMAIN s |-> acc[k]]

(* Mutant: the priority itself is the index. *)
PriorityAsIdx(prio) == prio

RqIdx(prio) == prio - 1

(* Each index and the count fit in a u16.  A build that does not check the *)
(* count for overflow goes on, to be stopped by analyze: a count that has  *)
(* wrapped has used every priority.                                        *)
FitsU16(groups, placed) == \A k \in placed : k - 1 <= U16Max /\ groups[k] <= U16Max

(* What the pass logs of each task: both paths must be identifiers. *)
Named(t, dispatcher) == defs[t.def].binds = "identifier" /\ dispatcher # Qualified

(* The tasks are zipped with the dispatchers: the shorter list decides. *)
Assign ==
  /\ stage = "assign"
  /\ LET sorted == LaterFirst(tasks)
         groups == PrioGroups(sorted)
         placed == DOMAIN sorted \cap DOMAIN dispatchers
         named  == \A k \in placed : Named(sorted[k], dispatchers[k])
     IN  \/ ~FitsU16(groups, placed) /\ stage' = "over u16" /\ UNCHANGED tasks
         \/ FitsU16(groups, placed) /\ ~named
            /\ stage' = "not an identifier" /\ UNCHANGED tasks
         \/ FitsU16(groups, placed) /\ named
            /\ stage' = "analyze"
            /\ tasks' = [k \in placed |->
                   [def |-> sorted[k].def, deadline |-> sorted[k].deadline,
                    dispatcher_priority |-> groups[k], rq_idx |-> RqIdx(groups[k]),
                    dispatcher_idx |-> k - 1, dispatcher |-> dispatchers[k]]]
  /\ UNCHANGED input

DispatcherPriorities == {tasks[k].dispatcher_priority : k \in DOMAIN tasks}

RunQueueLen == Cardinality(DispatcherPriorities)

BelowTimestampers(p) == p < MaxPriority

(* A pass over no task has no maximum to take.                             *)
Verdict ==
  IF tasks = <<>> THEN "no tasks"
  ELSE IF \E p \in DispatcherPriorities : ~BelowTimestampers(p) THEN "too many priorities"
  ELSE IF \E p \in DispatcherPriorities : p < MinPriority THEN "priorities too low"
  ELSE "generate"

Analyze ==
  /\ stage = "analyze"
  /\ stage' = Verdict
  /\ UNCHANGED <<input, tasks>>

(* The array that a dispatcher_idx is an index of, from 0. *)
EdfDispatchers == [k \in DOMAIN tasks |-> tasks[k].dispatcher]

(* generate_scheduler_impl asserts that the tasks are in the order of      *)
(* their dispatcher indexes.                                               *)
Generate ==
  /\ stage = "generate"
  /\ stage' = IF \A k \in DOMAIN tasks : tasks[k].dispatcher_idx = k - 1
              THEN "done" ELSE "codegen bug"
  /\ UNCHANGED <<input, tasks>>

Finished ==
  /\ stage \in Refusals \cup {"done"}
  /\ UNCHANGED vars

Next == Parse \/ Assign \/ Analyze \/ Generate \/ Finished

Spec == Init /\ [][Next]_vars

----------------------------------------------------------------------------
(* The scheduler's assumption on its constants: the shorter of two         *)
(* relative deadlines has the higher priority, equal ones share one.       *)
ShorterIsHigher ==
  stage = "done" => \A j, k \in DOMAIN tasks :
    tasks[j].deadline < tasks[k].deadline
      <=> tasks[j].dispatcher_priority > tasks[k].dispatcher_priority

(* RunQueue::get and insert do not check their index in a release build:   *)
(* the indexes are exactly those of the generated array, and tasks share   *)
(* a slot only if they share a priority.                                   *)
RunQueueIndexed ==
  stage = "done" =>
    /\ {tasks[k].rq_idx : k \in DOMAIN tasks} = 0 .. RunQueueLen - 1
    /\ \A j, k \in DOMAIN tasks :
         tasks[j].rq_idx = tasks[k].rq_idx => tasks[j].deadline = tasks[k].deadline

(* Every task of the application gets a place of its own in the list of    *)
(* dispatchers, and what schedule pends, EDF_DISPATCHERS[dispatcher_idx],  *)
(* is the interrupt its dispatcher is bound to.  Nothing in the pass asks  *)
(* that the list names no interrupt twice: only if it does not has each    *)
(* task an interrupt of its own.                                           *)
DispatchersOwned ==
  stage = "done" =>
    /\ {tasks[k].def : k \in DOMAIN tasks} = DOMAIN defs
    /\ \A k \in DOMAIN tasks :
         /\ tasks[k].dispatcher_idx + 1 \in DOMAIN EdfDispatchers \cap DOMAIN dispatchers
         /\ EdfDispatchers[tasks[k].dispatcher_idx + 1] = tasks[k].dispatcher
         /\ dispatchers[tasks[k].dispatcher_idx + 1] = tasks[k].dispatcher
    /\ \A j, k \in DOMAIN tasks : tasks[j].dispatcher_idx = tasks[k].dispatcher_idx => j = k
    /\ IsInjective(dispatchers) => IsInjective(EdfDispatchers)

(* A well-formed application that fits the platform is not turned down,    *)
(* and the code generator's own assertion never fails.                     *)
Placeable ==
  /\ Len(defs) - 1 <= U16Max
  /\ \A i \in DOMAIN defs : defs[i].binds = "identifier" /\ dispatchers[i] # Qualified

Fits ==
  /\ defs # <<>> /\ FirstFault = None
  /\ Len(dispatchers) >= Len(defs) /\ Placeable
  /\ MinPriority <= 1
  /\ Cardinality({defs[i].deadline : i \in DOMAIN defs}) < MaxPriority

AcceptsWhatFits ==
  stage \in Refusals \cup {"done"} => (stage = "done" <=> Fits)

=============================================================================
