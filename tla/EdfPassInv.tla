----------------------------- MODULE EdfPassInv -----------------------------
(***************************************************************************)
(* The inductive invariant of the compiler pass behind the benchmark       *)
(* generator: what each stage has established for those after it.          *)
(***************************************************************************)
EXTENDS BenchmarkApp

Declarations == [i \in DOMAIN defs |-> [def |-> i, deadline |-> defs[i].deadline]]

(* The tasks after assign_dispatchers_and_priorities: every task once, one *)
(* dispatcher each, and a priority for each deadline, from 1, the shorter  *)
(* deadline the higher.                                                    *)
EachAssigned ==
  \A k \in DOMAIN tasks :
    /\ tasks[k].def \in DOMAIN defs
    /\ tasks[k].deadline = defs[tasks[k].def].deadline /\ tasks[k].deadline \in Nat
    /\ tasks[k].dispatcher_idx = k - 1 /\ tasks[k].dispatcher = dispatchers[k]
    /\ tasks[k].dispatcher_priority \in Nat
    /\ tasks[k].rq_idx = tasks[k].dispatcher_priority - 1

PrioritiesFollow ==
  \A j, k \in DOMAIN tasks :
    /\ tasks[j].deadline < tasks[k].deadline
         <=> tasks[j].dispatcher_priority > tasks[k].dispatcher_priority
    /\ tasks[j].deadline = tasks[k].deadline
         <=> tasks[j].dispatcher_priority = tasks[k].dispatcher_priority

Laid ==
  /\ tasks \in [1 .. Len(defs) -> Range(tasks)]
  /\ EachAssigned
  /\ \A x \in DOMAIN defs : \E k \in DOMAIN tasks : tasks[k].def = x
  /\ PrioritiesFollow
  /\ DispatcherPriorities = 1 .. Cardinality({defs[i].deadline : i \in DOMAIN defs})

PassInv ==
  /\ defs \in Seq(TaskDef)
  /\ dispatchers \in Seq(Range(dispatchers))
  /\ stage \in {"assign", "analyze", "generate", "done"} => FirstFault = None /\ EnoughDispatchers
  /\ stage = "assign" => tasks = Declarations
  /\ stage \in {"analyze", "generate", "done"} => Laid /\ Placeable
  /\ stage \in {"generate", "done"} => Fits
  /\ stage \in Refusals => ~Fits

----------------------------------------------------------------------------
(* The generator. *)
PassStages == {"parse", "assign", "analyze", "generate", "done"} \cup Refusals

HandMade == timings = None /\ stage \in PassStages

(* The tasks of a deadline that has its share. *)
Share == IF MaxCount = 0 THEN 1 ELSE MaxCount

(* The deadlines before the current one have their share, those after it   *)
(* no task.                                                                *)
Spread ==
  /\ idx \in 1 .. Len(timings) /\ count \in 0 .. Share - 1
  /\ \A q \in 1 .. Len(timings) :
       TasksOf(timings[q]) = IF q < idx THEN Share ELSE IF q = idx THEN count ELSE 0
  /\ Len(defs) = (idx - 1) * Share + count

Distributed ==
  LET used == {timings[i] : i \in 1 .. Len(timings)} IN
    /\ \A d, e \in used : TasksOf(d) > 0 /\ TasksOf(e) > 0 => TasksOf(d) = TasksOf(e)
    /\ (\E d \in used : TasksOf(d) = 0) => Half < Len(timings)

WellFormed ==
  \A i \in DOMAIN defs :
    /\ defs[i].deadline \in Deadlines
    /\ Fault(defs[i]) = None /\ defs[i].binds = "identifier"

Automatic ==
  /\ handlers \in Seq(Range(handlers)) /\ perPriority \in Nat
  /\ timings \in Seq(Deadlines)
  /\ args = AllArgs /\ Len(dispatchers) = Len(handlers) - Half
  /\ Qualified \notin Range(dispatchers)
  /\ WellFormed /\ Len(defs) <= Half
  /\ stage = "settings" => defs = <<>> /\ idx = 1 /\ count = 0
  /\ stage \in {"distribute"} \cup PassStages => StrictlyOrdered(timings) /\ timings # <<>>
  /\ stage = "distribute" => Spread
  /\ stage \in PassStages => Distributed

IInv == PassInv /\ (HandMade \/ Automatic)
=============================================================================
