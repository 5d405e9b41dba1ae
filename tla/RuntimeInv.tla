----------------------------- MODULE RuntimeInv -----------------------------
(***************************************************************************)
(* The inductive invariant of the runtime.  The contexts that are under    *)
(* way are nested by priority, so their frames form one stack: a frame is  *)
(* beneath another if its context has the lower priority, or if it is the  *)
(* earlier one of the same context.                                        *)
(***************************************************************************)
EXTENDS Runtime

(* The frames of c from 1 to Depth(c) are in force: lock has masked for    *)
(* them.                                                                   *)
Depth(c) == Len(frames[c]) - (IF pc[c] = "raise" THEN 1 ELSE 0)

(* A frame masks all interrupts, or raises BASEPRI to a ceiling. *)
MasksAll(f) == f.of = Section \/ ByPrimask(f.of)
Raises(f)   == f.of # Section /\ ~ByPrimask(f.of) /\ Ceiling(f.of) > 0

Beneath(d, j, c, i) == (d = c /\ j < i) \/ PrioOf(d) < PrioOf(c)

(* Ceilings in force, all of them and those beneath frame i of c. *)
Held ==
  {n \in 0 .. 255 : \E d \in Contexts : \E j \in 1 .. Depth(d) :
     Raises(frames[d][j]) /\ n = Ceiling(frames[d][j].of)}

HeldBeneath(c, i) ==
  {n \in 0 .. 255 : \E d \in Contexts : \E j \in 1 .. Depth(d) :
     Beneath(d, j, c, i) /\ Raises(frames[d][j]) /\ n = Ceiling(frames[d][j].of)}

(* v is the value of BASEPRI for the ceilings of S. *)
MaskOf(v, S) ==
  \/ S = {} /\ v = 0
  \/ \E n \in S : v = Logical2Hw(n) /\ \A m \in S : m <= n

(* Until main has left its interrupt-free function nothing else runs; from *)
(* then on every interrupt has its priority.                               *)
Started == pc[Thread] \in {"body", "raise"}

Configured ==
  /\ \A h \in Handlers : enabled[h] =>
       prio[h] \in 1 .. Levels /\ hwPrio[h] = Logical2Hw(prio[h])
  /\ Started => \A h \in Handlers : enabled[h]
  /\ ~Started => Active = {}
  /\ pc[Thread] = "reset" =>
       /\ ~primask /\ ~cs /\ ~oldCs /\ frames[Thread] = <<>>
       /\ \A h \in Handlers : ~enabled[h]
  /\ pc[Thread] \in {"post_init", "priority level not supported"} =>
       primask /\ Len(frames[Thread]) = 1 /\ frames[Thread][1].of = Section

(* Where contexts are, and what they have locked or have still to lock. *)
Positioned ==
  /\ pc[Thread] \notin {"off", "entry"}
  /\ \A h \in Handlers : pc[h] \in {"off", "entry", "body", "raise"}
  /\ \A h \in Handlers : pc[h] \in {"off", "entry"} => frames[h] = <<>>
  /\ \A g, h \in Active : g # h => prio[g] # prio[h]
  /\ \A c \in Contexts : pc[c] = "raise" => frames[c] # <<>> /\ Top(c).of # Section
  /\ \A c \in Contexts : todo[c] \subseteq UsedBy(c)
  /\ \A c \in Contexts : \A i \in 1 .. Len(frames[c]) :
       frames[c][i].of \in UsedBy(c) \cup {Section}

(* All interrupts are masked inside every frame that masks them; a lock    *)
(* above it found them masked; and once main has left its interrupt-free   *)
(* function, a call of it cannot unmask them.                              *)
Masked ==
  /\ pc[Thread] # "reset" => cs
  /\ \A c \in Contexts : \A i \in 1 .. Len(frames[c]) :
       Started /\ frames[c][i].of = Section => oldCs
  /\ \A d \in Contexts : \A j \in 1 .. Depth(d) : MasksAll(frames[d][j]) =>
       /\ primask
       /\ \A c \in Contexts : \A i \in 1 .. Len(frames[c]) :
            Beneath(d, j, c, i) /\ frames[c][i].of # Section => frames[c][i].primask

(* BASEPRI is that of the ceilings in force, each lock keeps the one of    *)
(* those beneath it, and each handler leaves with that.                    *)
Raised0 == MaskOf(basepri, Held)

Kept ==
  /\ \A c \in Contexts : \A i \in 1 .. Len(frames[c]) :
       frames[c][i].of # Section => MaskOf(frames[c][i].basepri, HeldBeneath(c, i))
  /\ \A h \in Active : prio[h] # 1 /\ pc[h] # "entry" =>
       MaskOf(initial[h], HeldBeneath(h, 1))
  /\ \A h \in Active : prio[h] = 1 => HeldBeneath(h, 1) = {}

IInv ==
  /\ TypeOK /\ Configured /\ Positioned /\ Masked
  /\ Raised0 /\ Kept /\ LocksNeverWait
=============================================================================
