------------------------------- MODULE Runtime -------------------------------
(***************************************************************************)
(* The Cortex-M distribution under the scheduler: what starts the machine  *)
(* (post_init inside the generated interrupt-free function), what wraps    *)
(* every handler (run), and how tasks share resources (lock, by BASEPRI).  *)
(*                                                                         *)
(* A step is one access to a register or one critical section, and an      *)
(* interrupt of sufficient priority may be taken between any two of them.  *)
(***************************************************************************)
EXTENDS Integers, FiniteSets, Sequences, SequencesExt

CONSTANTS
  Handlers,     (* the interrupts in use, timestampers and dispatchers     *)
  Thread,       (* thread mode: main, then the idle task                   *)
  Applications, (* the logical priorities applications give the handlers   *)
  Vector,       (* vector number of a handler                              *)
  Resources,    (* #[shared] resources                                     *)
  Users,        (* the contexts that share a resource                      *)
  Section,      (* names the generated interrupt-free function             *)
  Levels,       (* 1 << NVIC_PRIO_BITS, the logical priorities of the part *)
  MaxEvents,    (* bound: interrupts pended                                *)
  MaxSections   (* bound: calls of the interrupt-free function; main's is 1*)

Contexts == Handlers \cup {Thread}

ASSUME RuntimeAssumption ==
  /\ IsFiniteSet(Handlers) /\ Thread \notin Handlers
  /\ Levels \in {2, 4, 8, 16, 32, 64, 128}
  /\ Applications \subseteq [Handlers -> 0 .. 255]
  /\ Vector \in [Handlers -> Nat]
  /\ \A g, h \in Handlers : g # h => Vector[g] # Vector[h]
  /\ Users \in [Resources -> SUBSET Contexts] /\ Section \notin Resources
  /\ MaxEvents \in Nat /\ MaxSections \in Nat

VARIABLES
  prio,      (* logical priorities of the handlers; they never change       *)
  basepri,   (* BASEPRI: masks priorities from its value on, 0 masks none  *)
  primask,   (* PRIMASK: all interrupts are masked                         *)
  cs,        (* static mut CS                                              *)
  oldCs,     (* static mut OLD_CS                                          *)
  hwPrio,    (* priority registers of the NVIC                             *)
  enabled,   (* its mask: interrupts unmasked                              *)
  pending,   (* its pending bits                                           *)
  pc,        (* where each context is                                      *)
  initial,   (* the local of run                                           *)
  frames,    (* locks and sections a context is in, with the locals of lock*)
  todo,      (* resources a context has still to lock before it returns    *)
  events, sections

cpu  == <<basepri, primask>>
glob == <<cs, oldCs>>
nvic == <<hwPrio, enabled, pending>>
bound == <<events, sections>>
vars == <<prio, cpu, glob, nvic, pc, initial, frames, todo, bound>>

(* 1 << (8 - NVIC_PRIO_BITS) *)
Step == 256 \div Levels

(* Only the upper bits of a priority are implemented. *)
Implemented(v) == v - (v % Step)

(* Mutant: shifted by a byte, in a wider integer. *)
Overshifted(logical) == (Levels - logical) * 256

Logical2Hw(logical) == ((Levels - logical) * Step) % 256

PrioOf(c) == IF c = Thread THEN 0 ELSE prio[c]

(* Mutant: the ceiling is the lowest priority. *)
LowestUser(r) == Min({PrioOf(c) : c \in Users[r]} \cup {Levels})

(* The ceiling rtic-core computes of a resource. *)
Ceiling(r) == Max({PrioOf(c) : c \in Users[r]} \cup {0})

UsedBy(c) == {r \in Resources : c \in Users[r]}

Frame == [of : Resources \cup {Section}, basepri : 0 .. 255, primask : BOOLEAN]

Init ==
  /\ prio \in Applications
  /\ basepri = 0 /\ primask = FALSE
  /\ cs = FALSE /\ oldCs = FALSE
  /\ hwPrio  = [h \in Handlers |-> 0]
  /\ enabled = [h \in Handlers |-> FALSE]
  /\ pending = [h \in Handlers |-> FALSE]
  /\ pc = [c \in Contexts |-> IF c = Thread THEN "reset" ELSE "off"]
  /\ initial = [h \in Handlers |-> 0]
  /\ frames = [c \in Contexts |-> <<>>]
  /\ todo = [c \in Contexts |-> IF c = Thread THEN UsedBy(c) ELSE {}]
  /\ events = 0 /\ sections = 0

(***************************************************************************)
(* Which context executes.                                                 *)
(***************************************************************************)
Active == {h \in Handlers : pc[h] # "off"}

Outranks(g, h) ==
  hwPrio[g] < hwPrio[h] \/ (hwPrio[g] = hwPrio[h] /\ Vector[g] <= Vector[h])

Taken(h) ==
  /\ pending[h] /\ enabled[h] /\ ~primask
  /\ basepri = 0 \/ hwPrio[h] < basepri
  /\ \A g \in Active : hwPrio[h] < hwPrio[g]
  /\ \A g \in Handlers : pending[g] /\ enabled[g] => Outranks(h, g)

Runs(c) ==
  /\ \A h \in Handlers : ~Taken(h)
  /\ IF c = Thread THEN Active = {}
     ELSE c \in Active /\ \A g \in Active : hwPrio[c] <= hwPrio[g]

At(c, at) == pc[c] = at /\ Runs(c)

Goto(c, at) == pc' = [pc EXCEPT ![c] = at]

Pend(h) ==
  /\ events < MaxEvents
  /\ events' = events + 1
  /\ pending' = [pending EXCEPT ![h] = TRUE]
  /\ UNCHANGED <<cpu, glob, hwPrio, enabled, pc, initial, frames, todo, sections>>

(***************************************************************************)
(* The interrupt-free function the macro generates.  No handler runs       *)
(* between its instructions, once interrupts are off.                      *)
(***************************************************************************)
Push(c, f) == frames' = [frames EXCEPT ![c] = Append(@, f)]
Pop(c)     == frames' = [frames EXCEPT ![c] = Front(@)]
Top(c)     == Last(frames[c])

(* Mutant: interrupts stay on. *)
EnterSectionOpen(c) ==
  /\ sections < MaxSections /\ sections' = sections + 1
  /\ oldCs' = cs /\ cs' = TRUE
  /\ Push(c, [of |-> Section, basepri |-> 0, primask |-> FALSE])
  /\ UNCHANGED cpu

EnterSection(c) ==
  /\ sections < MaxSections /\ sections' = sections + 1
  /\ primask' = TRUE
  /\ oldCs' = cs /\ cs' = TRUE
  /\ Push(c, [of |-> Section, basepri |-> 0, primask |-> FALSE])
  /\ UNCHANGED basepri

(* Mutant: CS is tested, not OLD_CS. *)
MaskedByCs == primask /\ cs

MaskedByOldCs == primask /\ oldCs

LeaveSection(c) ==
  /\ frames[c] # <<>> /\ Top(c).of = Section
  /\ primask' = MaskedByOldCs
  /\ Pop(c)
  /\ UNCHANGED <<basepri, glob, sections>>

(***************************************************************************)
(* main: inside the interrupt-free function, post_init gives each          *)
(* interrupt its priority and unmasks it.  Then the idle task runs.        *)
(***************************************************************************)
Start ==
  /\ At(Thread, "reset")
  /\ EnterSection(Thread)
  /\ Goto(Thread, "post_init")
  /\ UNCHANGED <<nvic, initial, todo, events>>

(* Mutant: the priority is left at reset. *)
PriorityAtReset(h) == UNCHANGED hwPrio

SetPriority(h) ==
  hwPrio' = [hwPrio EXCEPT ![h] = Implemented(Logical2Hw(prio[h]))]

PostInit(h) ==
  /\ At(Thread, "post_init") /\ ~enabled[h]
  /\ \/ /\ 0 < prio[h] /\ prio[h] <= Levels
        /\ SetPriority(h)
        /\ enabled' = [enabled EXCEPT ![h] = TRUE]
        /\ UNCHANGED pc
     \/ /\ ~(0 < prio[h] /\ prio[h] <= Levels)
        /\ Goto(Thread, "priority level not supported")
        /\ UNCHANGED <<hwPrio, enabled>>
  /\ UNCHANGED <<cpu, glob, pending, initial, frames, todo, bound>>

EnterIdle ==
  /\ At(Thread, "post_init") /\ \A h \in Handlers : enabled[h]
  /\ LeaveSection(Thread)
  /\ Goto(Thread, "body")
  /\ UNCHANGED <<nvic, initial, todo, events>>

(***************************************************************************)
(* run, around the code of each handler.  It puts BASEPRI back.            *)
(***************************************************************************)
TakeInterrupt(h) ==
  /\ Taken(h)
  /\ pending' = [pending EXCEPT ![h] = FALSE]
  /\ Goto(h, "entry")
  /\ UNCHANGED <<cpu, glob, hwPrio, enabled, initial, frames, todo, bound>>

RunEntry(h) ==
  /\ At(h, "entry")
  /\ initial' = IF prio[h] = 1 THEN initial ELSE [initial EXCEPT ![h] = basepri]
  /\ todo' = [todo EXCEPT ![h] = UsedBy(h)]
  /\ Goto(h, "body")
  /\ UNCHANGED <<cpu, glob, nvic, frames, bound>>

(* Mutant: every handler leaves BASEPRI at zero. *)
BasepriCleared(h) == 0

BasepriOnExit(h) == IF prio[h] = 1 THEN 0 ELSE initial[h]

RunExit(h) ==
  /\ At(h, "body") /\ frames[h] = <<>>
  /\ basepri' = BasepriOnExit(h)
  /\ initial' = [initial EXCEPT ![h] = 0]
  /\ todo' = [todo EXCEPT ![h] = {}]
  /\ Goto(h, "off")
  /\ UNCHANGED <<primask, glob, nvic, frames, bound>>

(***************************************************************************)
(* lock.  A ceiling of the highest level disables interrupts, by           *)
(* cortex_m::interrupt::free; another raises BASEPRI.  Both read what they *)
(* will put back in a step of its own.                                     *)
(***************************************************************************)
ByPrimask(r) == Ceiling(r) = Levels

LockRead(c, r) ==
  /\ At(c, "body") /\ r \in todo[c]
  /\ todo' = [todo EXCEPT ![c] = @ \ {r}]
  /\ Push(c, [of |-> r, basepri |-> basepri, primask |-> primask])
  /\ Goto(c, "raise")
  /\ UNCHANGED <<cpu, glob, nvic, initial, bound>>

(* Mutant: the ceiling is written even if it masks less. *)
Written(v) == Implemented(v)

(* basepri_max::write: the register ignores a value that would mask less. *)
Raised(v) ==
  LET w == Implemented(v)
  IN  IF w # 0 /\ (basepri = 0 \/ w < basepri) THEN w ELSE basepri

LockRaise(c) ==
  /\ At(c, "raise")
  /\ LET r == Top(c).of IN
       \/ ByPrimask(r) /\ primask' = TRUE /\ UNCHANGED basepri
       \/ ~ByPrimask(r) /\ basepri' = Raised(Logical2Hw(Ceiling(r))) /\ UNCHANGED primask
  /\ Goto(c, "body")
  /\ UNCHANGED <<glob, nvic, initial, frames, todo, bound>>

(* Mutant: interrupts come on at the end of each of its critical sections. *)
InterruptsOn(c) == FALSE

PrimaskFound(c) == Top(c).primask

(* A lock ends with what it found; so does the outermost of the idle task, *)
(* which may then lock again.                                              *)
Unlock(c) ==
  /\ At(c, "body") /\ frames[c] # <<>> /\ Top(c).of # Section
  /\ \/ ByPrimask(Top(c).of) /\ primask' = PrimaskFound(c) /\ UNCHANGED basepri
     \/ ~ByPrimask(Top(c).of) /\ basepri' = Top(c).basepri /\ UNCHANGED primask
  /\ Pop(c)
  /\ todo' = IF c = Thread /\ Len(frames[c]) = 1
             THEN [todo EXCEPT ![c] = UsedBy(c)] ELSE todo
  /\ UNCHANGED <<glob, nvic, pc, initial, bound>>

(* Code in a handler or the idle task may call the interrupt-free function.*)
Enter(c) ==
  /\ At(c, "body") /\ EnterSection(c)
  /\ UNCHANGED <<nvic, pc, initial, todo, events>>

Leave(c) ==
  /\ At(c, "body") /\ LeaveSection(c)
  /\ UNCHANGED <<nvic, pc, initial, todo, events>>

Wfi == At(Thread, "body") /\ frames[Thread] = <<>> /\ UNCHANGED vars

Halted == pc[Thread] = "priority level not supported" /\ UNCHANGED vars

Cpu ==
  \/ Start \/ EnterIdle
  \/ \E h \in Handlers : PostInit(h) \/ TakeInterrupt(h) \/ RunEntry(h) \/ RunExit(h)
  \/ \E c \in Contexts : LockRaise(c) \/ Unlock(c) \/ Enter(c) \/ Leave(c)
  \/ \E c \in Contexts, r \in Resources : LockRead(c, r)

Next ==
  /\ Cpu \/ (\E h \in Handlers : Pend(h)) \/ Wfi \/ Halted
  /\ UNCHANGED prio

(* The processor executes as long as there is something to execute. *)
Spec     == Init /\ [][Next]_vars
FairSpec == Spec /\ WF_vars(Cpu /\ UNCHANGED prio)

----------------------------------------------------------------------------
Positions == {"off", "reset", "post_init", "priority level not supported",
              "entry", "body", "raise"}

(* The registers and what run and lock keep of them have only bits that   *)
(* the part implements.                                                    *)
Storable(v) == v % Step = 0

ImplementedBits ==
  /\ Storable(basepri)
  /\ \A h \in Handlers : Storable(hwPrio[h]) /\ Storable(initial[h])
  /\ \A c \in Contexts : \A i \in 1 .. Len(frames[c]) : Storable(frames[c][i].basepri)

TypeOK ==
  /\ prio \in Applications
  /\ basepri \in 0 .. 255 /\ {primask, cs, oldCs} \subseteq BOOLEAN
  /\ hwPrio \in [Handlers -> 0 .. 255] /\ initial \in [Handlers -> 0 .. 255]
  /\ enabled \in [Handlers -> BOOLEAN] /\ pending \in [Handlers -> BOOLEAN]
  /\ pc \in [Contexts -> Positions]
  /\ frames \in [Contexts -> Seq(Frame)]
  /\ todo \in [Contexts -> SUBSET Resources]
  /\ events \in 0 .. MaxEvents /\ sections \in 0 .. MaxSections
  /\ ImplementedBits

(* The resources c is inside of: all it has locked, but one that lock has  *)
(* not masked for yet.                                                     *)
Inside(c) ==
  LET n == Len(frames[c]) - (IF pc[c] = "raise" THEN 1 ELSE 0)
  IN  {frames[c][i].of : i \in 1 .. n} \ {Section}

AllInside == UNION {Inside(c) : c \in Contexts}

(* No two contexts are inside the same resource: lock hands out one &mut.  *)
MutualExclusion ==
  \A c, d \in Contexts : c # d => Inside(c) \cap Inside(d) = {}

(* Inside the interrupt-free function and inside a lock of the highest     *)
(* ceiling interrupts are masked, however the two are nested: neither ends *)
(* what the other began.                                                   *)
MaskedInside ==
  \/ primask
  \/ /\ \A c \in Contexts : \A i \in 1 .. Len(frames[c]) : frames[c][i].of # Section
     /\ \A r \in AllInside : ~ByPrimask(r)

(* BASEPRI is the system ceiling: the highest ceiling of the resources     *)
(* some context is inside of by BASEPRI, or 0, whatever was locked,        *)
(* preempted between the read and the write, and unlocked on the way.      *)
SystemCeiling ==
  LET held == {Ceiling(r) : r \in {s \in AllInside : ~ByPrimask(s)}}
  IN  basepri = IF held = {} THEN 0 ELSE Logical2Hw(Max(held))

(* run: "If the priority of this interrupt is `1` then BASEPRI can only be *)
(* `0`", which is what allows it to write 0 back.                          *)
PriorityOneFindsZero ==
  \A h \in Handlers : prio[h] = 1 /\ At(h, "entry") => basepri = 0

(* The stack resource policy: when a handler is taken, each resource it    *)
(* uses is free; it never waits for a lock.                                *)
LocksNeverWait ==
  \A h \in Active : \A r \in UsedBy(h) : \A c \in Contexts \ {h} :
    r \in Inside(c) => PrioOf(c) > PrioOf(h)

(* No handler runs before post_init has given every interrupt its priority *)
(* and main has left its interrupt-free function.                          *)
ConfiguredFirst ==
  Active # {} =>
    /\ pc[Thread] \in {"body", "raise"}
    /\ \A h \in Handlers : enabled[h] /\ hwPrio[h] = Logical2Hw(prio[h])

(* A pending interrupt is served, unless post_init refused a priority or   *)
(* the interrupt-free function was called after main's.                    *)
PendingServed ==
  \A h \in Handlers : pending[h] ~>
    \/ ~pending[h]
    \/ sections > 1 \/ pc[Thread] = "priority level not supported"

----------------------------------------------------------------------------
(* The macro: "// critical section end", where the generated function      *)
(* gives the interrupts back: outside of every section and every lock of   *)
(* the highest ceiling, they are on.  TLC refutes it for a second call.    *)
SectionEnds ==
  (\A c \in Contexts : frames[c] = <<>>) /\ pc[Thread] = "body" => ~primask
=============================================================================
