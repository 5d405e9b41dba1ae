---------------------------- MODULE BenchmarkApp ----------------------------
(***************************************************************************)
(* The benchmark generator in front of the compiler pass: from three       *)
(* settings and the interrupts of the device, an application whose tasks   *)
(* are spread over the deadlines.  The pass compiles it, or one written by *)
(* hand.                                                                   *)
(***************************************************************************)
EXTENDS EdfPass

CONSTANTS
  Devices,         (* INTERRUPT_SOURCES of a device, in the order of their *)
                   (* vectors                                              *)
  TasksPerPriority (* values of the setting tasks_per_priority             *)

ASSUME BenchmarkAssumption ==
  /\ \A device \in Devices : device \in Seq(Range(device)) /\ Qualified \notin Range(device)
  /\ TasksPerPriority \subseteq Nat

VARIABLES
  handlers,    (* the interrupts of the device                            *)
  timings,     (* deadline_timings; None for an application by hand        *)
  perPriority, (* tasks_per_priority                                       *)
  idx,         (* deadline_idx, from 1                                     *)
  count        (* deadline_count                                           *)

settings  == <<handlers, timings, perPriority>>
benchVars == <<vars, settings, idx, count>>

(* Mutant: the odd handler goes to the tasks. *)
HalfRoundedUp == (Len(handlers) + 1) \div 2

Half == Len(handlers) \div 2

ByHand ==
  /\ Init
  /\ handlers = <<>> /\ timings = None /\ perPriority = 0 /\ idx = 1 /\ count = 0

Generated ==
  /\ stage = "settings"
  /\ handlers \in Devices
  /\ timings \in SeqOf(Deadlines, Cardinality(Deadlines))
  /\ perPriority \in TasksPerPriority
  /\ idx = 1 /\ count = 0
  /\ defs = <<>> /\ args = AllArgs /\ tasks = <<>>
  /\ dispatchers = SubSeq(handlers, Half + 1, Len(handlers))

(* Settings::try_from, then the division in generate_app. *)
StrictlyOrdered(s) ==
  \/ \A i \in 1 .. Len(s) - 1 : s[i] < s[i + 1]
  \/ \A i \in 1 .. Len(s) - 1 : s[i] > s[i + 1]

CheckSettings ==
  /\ stage = "settings"
  /\ stage' = IF ~StrictlyOrdered(timings) THEN "timings not ordered"
              ELSE IF timings = <<>> THEN "division by zero" ELSE "distribute"
  /\ UNCHANGED <<input, tasks, settings, idx, count>>

MaxCount ==
  LET share == Half \div Len(timings)
  IN  IF perPriority < share THEN perPriority ELSE share

GeneratedTask == [deadline |-> timings[idx], binds |-> "identifier", priority |-> FALSE]

(* Mutant: the count goes on from one deadline to the next. *)
CountKept(full) == count + 1

CountAfter(full) == IF full THEN 0 ELSE count + 1

(* A handler becomes a task, with the next deadline when this has its share*)
Distribute ==
  /\ stage = "distribute" /\ Len(defs) < Half
  /\ defs' = Append(defs, GeneratedTask)
  /\ LET full == count + 1 >= MaxCount
     IN  /\ count' = CountAfter(full)
         /\ idx' = IF full /\ idx < Len(timings) THEN idx + 1 ELSE idx
         /\ stage' = IF full /\ idx = Len(timings) THEN "parse" ELSE stage
  /\ UNCHANGED <<args, dispatchers, tasks, settings>>

OutOfHandlers ==
  /\ stage = "distribute" /\ Len(defs) = Half
  /\ stage' = "parse"
  /\ UNCHANGED <<input, tasks, settings, idx, count>>

Compile == Next /\ UNCHANGED <<settings, idx, count>>

(* The macro reports an error of its own. *)
Rejected ==
  /\ stage \in {"timings not ordered", "division by zero"}
  /\ UNCHANGED benchVars

BenchInit == ByHand \/ Generated
BenchNext == CheckSettings \/ Distribute \/ OutOfHandlers \/ Compile \/ Rejected
BenchSpec == BenchInit /\ [][BenchNext]_benchVars

----------------------------------------------------------------------------
IsGenerated ==
  timings # None /\ stage \in {"parse", "assign", "analyze", "generate", "done"} \cup Refusals

TasksOf(d) == Cardinality({i \in DOMAIN defs : defs[i].deadline = d})

(* "Equally distribute tasks among available deadlines": those that have   *)
(* tasks have the same number, and one has none only for want of handlers. *)
EquallyDistributed ==
  IsGenerated =>
    LET used == {timings[i] : i \in 1 .. Len(timings)} IN
      /\ \A d, e \in used : TasksOf(d) > 0 /\ TasksOf(e) > 0 => TasksOf(d) = TasksOf(e)
      /\ (\E d \in used : TasksOf(d) = 0) => Half < Len(timings)

(* A generated application compiles, unless it has more deadlines than the *)
(* platform has levels below the timestampers, more tasks than a u16 can   *)
(* index, or no task at all.                                               *)
BenchmarkCompiles ==
  timings # None /\ stage \in Refusals \cup {"done"} =>
    (stage = "done" <=> /\ defs # <<>> /\ Len(defs) - 1 <= U16Max
                        /\ Cardinality({defs[i].deadline : i \in DOMAIN defs}) < MaxPriority)
=============================================================================
