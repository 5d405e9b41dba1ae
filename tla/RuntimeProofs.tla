--------------------------- MODULE RuntimeProofs ---------------------------
(***************************************************************************)
(* Proofs about the runtime, for any handlers, priorities and resources.   *)
(***************************************************************************)
EXTENDS RuntimeInv, LeastNumber, SequenceTheorems

----------------------------------------------------------------------------
(* Priorities and ceilings.                                                *)

(* cortex_logical2hw inverts the order and loses nothing.                  *)
LEMMA HwPriorities ==
  /\ \A p \in 1 .. Levels : /\ Logical2Hw(p) \in 0 .. 255
                            /\ Implemented(Logical2Hw(p)) = Logical2Hw(p)
                            /\ Logical2Hw(p) = 0 <=> p = Levels
  /\ \A p, q \in 1 .. Levels : Logical2Hw(p) < Logical2Hw(q) <=> q < p
  /\ Logical2Hw(0) = 0
<1>1. CASE Levels = 2
  BY <1>1 DEF Logical2Hw, Implemented, Step
<1>2. CASE Levels = 4
  BY <1>2 DEF Logical2Hw, Implemented, Step
<1>3. CASE Levels = 8
  BY <1>3 DEF Logical2Hw, Implemented, Step
<1>4. CASE Levels = 16
  BY <1>4 DEF Logical2Hw, Implemented, Step
<1>5. CASE Levels = 32
  BY <1>5 DEF Logical2Hw, Implemented, Step
<1>6. CASE Levels = 64
  BY <1>6 DEF Logical2Hw, Implemented, Step
<1>7. CASE Levels = 128
  BY <1>7 DEF Logical2Hw, Implemented, Step
<1> QED
  BY <1>1, <1>2, <1>3, <1>4, <1>5, <1>6, <1>7, RuntimeAssumption

(* A set of small numbers has a largest one.                               *)
LEMMA LargestExists ==
  ASSUME NEW S, S \subseteq 0 .. 255, S # {}
  PROVE  /\ Max(S) \in S
         /\ \A n \in S : n <= Max(S)
<1> DEFINE T == {255 - n : n \in S}
<1>1. T \subseteq Nat
  OBVIOUS
<1>2. T # {}
  <2>1. PICK s \in S : TRUE
    OBVIOUS
  <2>2. 255 - s \in T
    OBVIOUS
  <2> QED
    BY <2>2, Zenon
<1>3. PICK m \in T : \A k \in T : m <= k
  BY <1>1, <1>2, LeastExists
<1>4. PICK n \in S : m = 255 - n
  OBVIOUS
<1>5. \A k \in S : k <= n
  <2> SUFFICES ASSUME NEW k \in S PROVE k <= n
    OBVIOUS
  <2>1. 255 - k \in T
    OBVIOUS
  <2>2. m <= 255 - k
    BY <1>3, <2>1, Zenon
  <2> QED
    BY <1>4, <2>2
<1> QED
  BY <1>4, <1>5 DEF Max

LEMMA Priorities ==
  ASSUME TypeOK
  PROVE  /\ prio \in [Handlers -> 0 .. 255]
         /\ \A c \in Contexts : PrioOf(c) \in 0 .. 255
         /\ \A h \in Handlers : h \in Contexts /\ PrioOf(h) = prio[h]
         /\ Thread \in Contexts /\ PrioOf(Thread) = 0
BY RuntimeAssumption DEF TypeOK, PrioOf, Contexts

(* The ceiling of a resource is the highest priority of its users.         *)
LEMMA CeilingMax ==
  ASSUME TypeOK, NEW r \in Resources
  PROVE  /\ Ceiling(r) \in 0 .. 255
         /\ \A c \in Users[r] : PrioOf(c) <= Ceiling(r)
         /\ Ceiling(r) = 0 \/ \E c \in Users[r] : Ceiling(r) = PrioOf(c)
<1> DEFINE S == {PrioOf(c) : c \in Users[r]} \cup {0}
<1>1. Users[r] \subseteq Contexts
  BY RuntimeAssumption
<1>2. S \subseteq 0 .. 255 /\ S # {}
  BY <1>1, Priorities
<1>3. Max(S) \in S /\ \A n \in S : n <= Max(S)
  <2> HIDE DEF S
  <2> QED
    BY <1>2, LargestExists
<1>4. Ceiling(r) = Max(S)
  BY DEF Ceiling
<1> HIDE DEF S
<1>5. \A c \in Users[r] : PrioOf(c) \in S
  BY DEF S
<1>6. Ceiling(r) \in S /\ \A c \in Users[r] : PrioOf(c) <= Ceiling(r)
  BY <1>3, <1>4, <1>5
<1>7. \A n \in S : n = 0 \/ \E c \in Users[r] : n = PrioOf(c)
  BY DEF S
<1> QED
  BY <1>2, <1>6, <1>7

(* Ceilings are those of the priorities, which never change.               *)
LEMMA CeilingKept ==
  ASSUME prio' = prio
  PROVE  /\ \A c : PrioOf(c)' = PrioOf(c)
         /\ \A r : Ceiling(r)' = Ceiling(r) /\ (ByPrimask(r)' <=> ByPrimask(r))
<1>1. \A c : PrioOf(c)' = PrioOf(c)
  BY DEF PrioOf
<1>2. ASSUME NEW r PROVE Ceiling(r)' = Ceiling(r)
  <2>1. {PrioOf(c)' : c \in Users[r]} = {PrioOf(c) : c \in Users[r]}
    BY <1>1
  <2> QED
    BY <2>1 DEF Ceiling
<1> QED
  BY <1>1, <1>2 DEF ByPrimask

----------------------------------------------------------------------------
(* The stack of frames.                                                    *)

(* Every frame of another context is beneath those of c. *)
OnTop(c) ==
  \A d \in Contexts \ {c} :
    frames[d] # <<>> \/ d \in Active => PrioOf(d) < PrioOf(c)

StackOK == TypeOK /\ Positioned

LEMMA DepthType ==
  StackOK => \A c \in Contexts :
    /\ Depth(c) \in Nat /\ Depth(c) <= Len(frames[c])
    /\ Len(frames[c]) - 1 <= Depth(c)
    /\ pc[c] # "raise" => Depth(c) = Len(frames[c])
    /\ \A i \in 1 .. Len(frames[c]) : frames[c][i] \in Frame
BY DEF StackOK, TypeOK, Positioned, Depth

(* Over the top context's frames in force there is nothing more.           *)
LEMMA AboveTop ==
  StackOK => \A c \in Contexts : \A i \in Nat :
    OnTop(c) /\ i > Depth(c) => HeldBeneath(c, i) = Held
<1> SUFFICES ASSUME StackOK, NEW c \in Contexts, NEW i \in Nat, OnTop(c), i > Depth(c)
             PROVE  HeldBeneath(c, i) = Held
  OBVIOUS
<1>1. ASSUME NEW d \in Contexts, NEW j \in 1 .. Depth(d) PROVE Beneath(d, j, c, i)
  BY DepthType DEF OnTop, Beneath
<1> QED
  BY <1>1 DEF HeldBeneath, Held

(* The ceilings in force are that of the top frame and those beneath it.   *)
LEMMA AtTop ==
  StackOK => \A c \in Contexts : \A k \in Nat :
    OnTop(c) /\ k > 0 /\ k = Depth(c) =>
      Held = HeldBeneath(c, k) \cup
             {n \in 0 .. 255 : Raises(frames[c][k]) /\ n = Ceiling(frames[c][k].of)}
<1> SUFFICES ASSUME StackOK, NEW c \in Contexts, NEW k \in Nat,
                    OnTop(c), k > 0, k = Depth(c)
             PROVE  Held = HeldBeneath(c, k) \cup
                           {n \in 0 .. 255 : Raises(frames[c][k]) /\ n = Ceiling(frames[c][k].of)}
  OBVIOUS
<1>0. k \in 1 .. Depth(c)
  BY DepthType
<1>1. ASSUME NEW d \in Contexts, NEW j \in 1 .. Depth(d)
      PROVE  Beneath(d, j, c, k) \/ (d = c /\ j = k)
  BY DepthType DEF OnTop, Beneath
<1>2. ASSUME NEW n \in Held
      PROVE  \/ n \in HeldBeneath(c, k)
             \/ n \in 0 .. 255 /\ Raises(frames[c][k]) /\ n = Ceiling(frames[c][k].of)
  <2>a. PICK d \in Contexts : \E j \in 1 .. Depth(d) :
          Raises(frames[d][j]) /\ n = Ceiling(frames[d][j].of)
    BY DEF Held
  <2>1. PICK j \in 1 .. Depth(d) :
          Raises(frames[d][j]) /\ n = Ceiling(frames[d][j].of)
    BY <2>a
  <2>2. n \in 0 .. 255
    BY DEF Held
  <2> QED
    BY <1>1, <2>1, <2>2 DEF HeldBeneath
<1>3. HeldBeneath(c, k) \subseteq Held
  BY DEF Held, HeldBeneath
<1>4. ASSUME NEW n \in 0 .. 255, Raises(frames[c][k]), n = Ceiling(frames[c][k].of)
      PROVE  n \in Held
  BY <1>0, <1>4 DEF Held
<1> QED
  BY <1>2, <1>3, <1>4

LEMMA AboveTopNext ==
  (StackOK => \A c \in Contexts : \A i \in Nat :
     OnTop(c) /\ i > Depth(c) => HeldBeneath(c, i) = Held)'
BY AboveTop, PTL

LEMMA AtTopNext ==
  (StackOK => \A c \in Contexts : \A k \in Nat :
     OnTop(c) /\ k > 0 /\ k = Depth(c) =>
       Held = HeldBeneath(c, k) \cup
              {n \in 0 .. 255 : Raises(frames[c][k]) /\ n = Ceiling(frames[c][k].of)})'
BY AtTop, PTL

(* What is beneath a frame is kept while frames are pushed and popped      *)
(* above it.                                                               *)
LEMMA BeneathKept ==
  ASSUME prio' = prio, NEW c \in Contexts, NEW d \in Contexts, NEW i \in Nat,
         \A e \in Contexts \ {c} : frames[e]' = frames[e] /\ Depth(e)' = Depth(e),
         d # c => ~ (PrioOf(c) < PrioOf(d)),
         d = c => \A j \in Nat \ {0} : j < i =>
                    /\ j <= Depth(c) <=> j <= Depth(c)'
                    /\ j <= Depth(c) => frames[c]'[j] = frames[c][j],
         \A e \in Contexts : PrioOf(e) \in Nat /\ Depth(e) \in Nat /\ Depth(e)' \in Nat
  PROVE  HeldBeneath(d, i)' = HeldBeneath(d, i)
<1>1. ASSUME NEW e \in Contexts, NEW j \in Nat \ {0}
      PROVE  Beneath(e, j, d, i)' <=> Beneath(e, j, d, i)
  BY CeilingKept DEF Beneath
<1>2. ASSUME NEW e \in Contexts, NEW j \in Nat \ {0}, Beneath(e, j, d, i)
      PROVE  /\ j <= Depth(e) <=> j <= Depth(e)'
             /\ j <= Depth(e) => frames[e]'[j] = frames[e][j]
  <2>1. CASE e # c
    BY <2>1
  <2>2. CASE e = c /\ d = c
    <3>1. j < i
      BY <1>2, <2>2 DEF Beneath
    <3> QED
      BY <2>2, <3>1
  <2>3. CASE e = c /\ d # c
    BY <1>2, <2>3 DEF Beneath
  <2> QED
    BY <2>1, <2>2, <2>3
<1>3. \A f : (Raises(f)' <=> Raises(f)) 
  BY CeilingKept DEF Raises
<1>4. ASSUME NEW n \in 0 .. 255
      PROVE  n \in HeldBeneath(d, i)' <=> n \in HeldBeneath(d, i)
  BY <1>1, <1>2, <1>3, CeilingKept DEF HeldBeneath
<1> QED
  BY <1>4 DEF HeldBeneath

----------------------------------------------------------------------------
(* What the invariant says of the context that runs.                       *)

LEMMA RunsOnTop ==
  ASSUME IInv, NEW c \in Contexts, Runs(c)
  PROVE  OnTop(c)
<1> SUFFICES ASSUME NEW d \in Contexts \ {c}, frames[d] # <<>> \/ d \in Active
             PROVE  PrioOf(d) < PrioOf(c)
  BY DEF OnTop
<1>1. ASSUME c = Thread PROVE FALSE
  BY <1>1 DEF IInv, Runs, Positioned, Active, Contexts
<1>2. CASE c # Thread
  <2>1. c \in Active /\ c \in Handlers /\ \A g \in Active : hwPrio[c] <= hwPrio[g]
    BY <1>2 DEF Runs, Active
  <2>2. Started /\ \A h \in Handlers : prio[h] \in 1 .. Levels /\ hwPrio[h] = Logical2Hw(prio[h])
    BY <2>1 DEF IInv, Configured
  <2>3. CASE d = Thread
    BY <2>1, <2>2, <2>3, Priorities, RuntimeAssumption DEF IInv
  <2>4. CASE d # Thread
    <3>1. d \in Active /\ d \in Handlers /\ prio[c] # prio[d]
      BY <2>1, <2>4 DEF IInv, Positioned, Active, Contexts
    <3>2. ~ (Logical2Hw(prio[d]) < Logical2Hw(prio[c]))
      <4>1. Logical2Hw(prio[c]) \in 0 .. 255 /\ Logical2Hw(prio[d]) \in 0 .. 255
        BY <2>1, <2>2, <3>1, HwPriorities
      <4>2. Logical2Hw(prio[c]) <= Logical2Hw(prio[d])
        BY <2>1, <2>2, <3>1
      <4>3. \A x, y \in 0 .. 255 : x <= y => ~ (y < x)
        OBVIOUS
      <4> QED
        BY <4>1, <4>2, <4>3, Zenon
    <3>3. ~ (prio[c] < prio[d])
      BY <2>1, <2>2, <3>1, <3>2, HwPriorities
    <3> QED
      BY <2>1, <2>2, <3>1, <3>3, RuntimeAssumption DEF PrioOf
  <2> QED
    BY <2>3, <2>4
<1> QED
  BY <1>1, <1>2

LEMMA StartedLevels ==
  ASSUME IInv, Started
  PROVE  /\ \A h \in Handlers : prio[h] \in 1 .. Levels /\ hwPrio[h] = Logical2Hw(prio[h])
         /\ \A r \in Resources : Ceiling(r) \in 0 .. Levels
         /\ \A n \in Held : n \in 1 .. Levels - 1
<1>1. \A h \in Handlers : prio[h] \in 1 .. Levels /\ hwPrio[h] = Logical2Hw(prio[h])
  BY DEF IInv, Configured
<1>2. ASSUME NEW r \in Resources PROVE Ceiling(r) \in 0 .. Levels
  <2>1. \A c \in Users[r] : PrioOf(c) \in 0 .. Levels
    BY <1>1, RuntimeAssumption DEF PrioOf, Contexts
  <2> QED
    BY <2>1, CeilingMax, RuntimeAssumption DEF IInv
<1>3. ASSUME NEW n \in Held PROVE n \in 1 .. Levels - 1
  <2>1. PICK d \in Contexts : \E j \in 1 .. Depth(d) :
          Raises(frames[d][j]) /\ n = Ceiling(frames[d][j].of)
    BY DEF Held
  <2>2. PICK j \in 1 .. Depth(d) : Raises(frames[d][j]) /\ n = Ceiling(frames[d][j].of)
    BY <2>1
  <2>3. frames[d][j] \in Frame
    BY DepthType DEF IInv, StackOK
  <2> QED
    BY <1>2, <2>2, <2>3, RuntimeAssumption DEF Raises, ByPrimask, Frame
<1> QED
  BY <1>1, <1>2, <1>3

----------------------------------------------------------------------------
(* Types.                                                                  *)

LEMMA ImplementedType ==
  ASSUME NEW v \in 0 .. 255
  PROVE  Implemented(v) \in 0 .. 255
<1>1. Step \in {2, 4, 8, 16, 32, 64, 128}
  BY RuntimeAssumption DEF Step
<1> QED
  BY <1>1 DEF Implemented

LEMMA HwType ==
  ASSUME NEW p \in Int
  PROVE  Logical2Hw(p) \in 0 .. 255
<1>1. (Levels - p) * Step \in Int
  BY RuntimeAssumption DEF Step
<1> DEFINE x == (Levels - p) * Step
<1>2. ASSUME NEW y \in Int PROVE y % 256 \in 0 .. 255
  OBVIOUS
<1> QED
  BY <1>1, <1>2 DEF Logical2Hw

LEMMA PopProperties ==
  ASSUME NEW s \in Seq(Frame), s # <<>>
  PROVE  /\ Len(s) \in Nat \ {0}
         /\ Front(s) \in Seq(Frame) /\ Len(Front(s)) = Len(s) - 1
         /\ \A i \in 1 .. Len(s) - 1 : Front(s)[i] = s[i]
         /\ Last(s) = s[Len(s)] /\ Last(s) \in Frame
<1>1. Len(s) \in Nat \ {0}
  OBVIOUS
<1>2. Front(s) = SubSeq(s, 1, Len(s) - 1)
  BY DEF Front
<1>3. /\ Front(s) \in Seq(Frame) /\ Len(Front(s)) = Len(s) - 1
      /\ \A i \in 1 .. Len(s) - 1 : Front(s)[i] = s[i]
  <2> DEFINE n == Len(s) - 1
  <2> HIDE DEF n
  <2>1. n \in Nat /\ n = Len(s) - 1 /\ n <= Len(s)
    BY <1>1 DEF n
  <2>2. /\ SubSeq(s, 1, n) \in Seq(Frame)
        /\ Len(SubSeq(s, 1, n)) = n
        /\ \A i \in 1 .. n : SubSeq(s, 1, n)[i] = s[i]
    BY <2>1
  <2>3. Front(s) = SubSeq(s, 1, n)
    BY <1>2 DEF n
  <2> QED
    BY <2>1, <2>2, <2>3
<1>4. Last(s) = s[Len(s)] /\ Last(s) \in Frame
  BY <1>1 DEF Last
<1> QED
  BY <1>1, <1>3, <1>4

LEMMA PushProperties ==
  ASSUME NEW s \in Seq(Frame), NEW f \in Frame
  PROVE  /\ Len(s) \in Nat
         /\ Append(s, f) \in Seq(Frame) /\ Len(Append(s, f)) = Len(s) + 1
         /\ \A i \in 1 .. Len(s) : Append(s, f)[i] = s[i]
         /\ Append(s, f)[Len(s) + 1] = f
OBVIOUS

LEMMA TopType ==
  ASSUME StackOK, NEW c \in Contexts
  PROVE  /\ frames[c] # <<>> =>
              Top(c) = frames[c][Len(frames[c])] /\ Top(c) \in Frame
         /\ pc[c] = "raise" => Top(c).of \in Resources
<1>1. frames[c] \in Seq(Frame)
  BY DEF StackOK, TypeOK
<1> QED
  BY <1>1, PopProperties, ZenonT(60) DEF StackOK, Positioned, Top, Frame

(* Calls of the interrupt-free function, and its ends, have their types.   *)
LEMMA Bounds == MaxEvents \in Nat /\ MaxSections \in Nat /\ Levels \in 2 .. 128
BY RuntimeAssumption

LEMMA TheContexts ==
  /\ Thread \notin Handlers /\ Thread \in Contexts /\ Handlers \subseteq Contexts
  /\ \A c \in Contexts : c = Thread \/ c \in Handlers
BY RuntimeAssumption DEF Contexts

LEMMA SectionTypes ==
  ASSUME StackOK, NEW c \in Contexts, EnterSection(c) \/ LeaveSection(c)
  PROVE  /\ basepri' \in 0 .. 255 /\ {primask, cs, oldCs}' \subseteq BOOLEAN
         /\ frames' \in [Contexts -> Seq(Frame)] /\ sections' \in 0 .. MaxSections
<1>0. frames \in [Contexts -> Seq(Frame)] /\ frames[c] \in Seq(Frame)
  BY DEF StackOK, TypeOK
<1>1. CASE EnterSection(c)
  <2> DEFINE f == [of |-> Section, basepri |-> 0, primask |-> FALSE]
  <2>1. f \in Frame
    BY DEF Frame
  <2>2. Append(frames[c], f) \in Seq(Frame)
    BY <1>0, <2>1, PushProperties
  <2>3. frames' = [frames EXCEPT ![c] = Append(frames[c], f)]
    BY <1>1 DEF EnterSection, Push
  <2>4. frames' \in [Contexts -> Seq(Frame)]
    BY <1>0, <2>2, <2>3
  <2>5. basepri' \in 0 .. 255 /\ {primask, cs, oldCs}' \subseteq BOOLEAN /\ sections' \in 0 .. MaxSections
    BY <1>1, Bounds DEF StackOK, TypeOK, EnterSection
  <2> QED
    BY <2>4, <2>5
<1>2. CASE LeaveSection(c)
  <2>1. Front(frames[c]) \in Seq(Frame)
    BY <1>0, <1>2, PopProperties DEF LeaveSection
  <2>2. frames' = [frames EXCEPT ![c] = Front(frames[c])]
    BY <1>2 DEF LeaveSection, Pop
  <2>3. frames' \in [Contexts -> Seq(Frame)]
    BY <1>0, <2>1, <2>2
  <2>4. basepri' \in 0 .. 255 /\ {cs, oldCs}' \subseteq BOOLEAN /\ sections' \in 0 .. MaxSections
    BY <1>2 DEF StackOK, TypeOK, LeaveSection, glob
  <2>5. primask' \in BOOLEAN
    BY <1>2 DEF LeaveSection, MaskedByOldCs
  <2> QED
    BY <2>3, <2>4, <2>5
<1> QED
  BY <1>1, <1>2

(* No step brings a bit the part does not implement into a register. *)
LEMMA StorableValues ==
  /\ Storable(0)
  /\ \A v \in 0 .. 255 : Storable(Implemented(v))
<1>1. CASE Levels = 2
  BY <1>1 DEF Storable, Implemented, Step
<1>2. CASE Levels = 4
  BY <1>2 DEF Storable, Implemented, Step
<1>3. CASE Levels = 8
  BY <1>3 DEF Storable, Implemented, Step
<1>4. CASE Levels = 16
  BY <1>4 DEF Storable, Implemented, Step
<1>5. CASE Levels = 32
  BY <1>5 DEF Storable, Implemented, Step
<1>6. CASE Levels = 64
  BY <1>6 DEF Storable, Implemented, Step
<1>7. CASE Levels = 128
  BY <1>7 DEF Storable, Implemented, Step
<1> QED
  BY <1>1, <1>2, <1>3, <1>4, <1>5, <1>6, <1>7, RuntimeAssumption

LEMMA FramesStorable ==
  ASSUME StackOK, NEW c \in Contexts,
         \/ \E f \in Frame : Storable(f.basepri) /\ Push(c, f)
         \/ frames[c] # <<>> /\ Pop(c)
  PROVE  \A d \in Contexts : \A i \in 1 .. Len(frames'[d]) : Storable(frames'[d][i].basepri)
<1>1. frames \in [Contexts -> Seq(Frame)] /\ frames[c] \in Seq(Frame)
  BY DEF StackOK, TypeOK
<1>2. \A d \in Contexts : \A i \in 1 .. Len(frames[d]) : Storable(frames[d][i].basepri)
  BY DEF StackOK, TypeOK, ImplementedBits
<1>3. \A d \in Contexts : d # c => frames'[d] = frames[d]
  BY <1>1 DEF Push, Pop
<1>4. CASE \E f \in Frame : Storable(f.basepri) /\ Push(c, f)
  <2>1. PICK f \in Frame : Storable(f.basepri) /\ Push(c, f)
    BY <1>4
  <2>2. frames'[c] = Append(frames[c], f)
    BY <1>1, <2>1 DEF Push
  <2>3. \A i \in 1 .. Len(frames'[c]) : Storable(frames'[c][i].basepri)
    BY <1>1, <1>2, <2>1, <2>2, PushProperties
  <2> QED
    BY <1>2, <1>3, <2>3
<1>5. CASE frames[c] # <<>> /\ Pop(c)
  <2>1. frames'[c] = Front(frames[c])
    BY <1>1, <1>5 DEF Pop
  <2>2. /\ Len(frames[c]) \in Nat /\ Len(frames'[c]) = Len(frames[c]) - 1
        /\ \A i \in 1 .. Len(frames[c]) - 1 : frames'[c][i] = frames[c][i]
    BY <1>1, <1>5, <2>1, PopProperties
  <2>3. \A i \in 1 .. Len(frames'[c]) : Storable(frames'[c][i].basepri)
    BY <1>2, <2>2
  <2> QED
    BY <1>2, <1>3, <2>3
<1> QED
  BY <1>4, <1>5

LEMMA BitsStep ==
  ASSUME StackOK, [Next]_vars
  PROVE  ImplementedBits'
<1> DEFINE Stacks == \A c \in Contexts : \A i \in 1 .. Len(frames[c]) : Storable(frames[c][i].basepri)
<1>1. /\ Storable(basepri) /\ Stacks
      /\ \A h \in Handlers : Storable(hwPrio[h]) /\ Storable(initial[h])
      /\ hwPrio \in [Handlers -> 0 .. 255] /\ initial \in [Handlers -> 0 .. 255]
      /\ basepri \in 0 .. 255
  BY DEF StackOK, TypeOK, ImplementedBits
<1> DEFINE Registers == Storable(basepri) /\ \A h \in Handlers : Storable(hwPrio[h]) /\ Storable(initial[h])
<1>2. ASSUME Storable(basepri'), UNCHANGED <<hwPrio, initial>> PROVE Registers'
  BY <1>1, <1>2 DEF Storable
<1>3. ASSUME UNCHANGED frames PROVE Stacks'
  BY <1>1, <1>3 DEF Storable
<1>4. ASSUME NEW c \in Contexts, EnterSection(c) \/ LeaveSection(c)
      PROVE  Stacks' /\ Storable(basepri')
  <2>1. CASE EnterSection(c)
    <3> DEFINE f == [of |-> Section, basepri |-> 0, primask |-> FALSE]
    <3>1. f \in Frame /\ Storable(f.basepri)
      BY StorableValues DEF Frame
    <3>2. Push(c, f) /\ basepri' = basepri
      BY <2>1 DEF EnterSection
    <3> QED
      BY <1>1, <3>1, <3>2, FramesStorable DEF Storable
  <2>2. CASE LeaveSection(c)
    BY <1>1, <2>2, FramesStorable DEF LeaveSection, Storable
  <2> QED
    BY <1>4, <2>1, <2>2
<1>5. CASE Start \/ EnterIdle
  <2>1. Stacks' /\ Storable(basepri')
    BY <1>4, <1>5, TheContexts DEF Start, EnterIdle
  <2>2. UNCHANGED <<hwPrio, initial>>
    BY <1>5 DEF Start, EnterIdle, nvic
  <2> QED
    BY <1>2, <2>1, <2>2 DEF ImplementedBits
<1>6. CASE \E h \in Handlers : PostInit(h)
  <2>1. PICK h \in Handlers : PostInit(h)
    BY <1>6
  <2> DEFINE w == Implemented(Logical2Hw(prio[h]))
  <2>2. Storable(w)
    <3>1. prio[h] \in Int
      BY Priorities DEF StackOK
    <3>2. Logical2Hw(prio[h]) \in 0 .. 255
      BY <3>1, HwType
    <3> QED
      BY <3>2, StorableValues
  <2>3. hwPrio' = [hwPrio EXCEPT ![h] = w] \/ hwPrio' = hwPrio
    BY <2>1 DEF PostInit, SetPriority
  <2>4. UNCHANGED <<basepri, initial, frames>>
    BY <2>1 DEF PostInit, cpu
  <2> HIDE DEF w
  <2>5. \A g \in Handlers : hwPrio'[g] = w \/ hwPrio'[g] = hwPrio[g]
    BY <1>1, <2>3
  <2>6. \A g \in Handlers : Storable(hwPrio'[g])
    BY <1>1, <2>2, <2>5
  <2> QED
    BY <1>1, <1>3, <2>4, <2>6 DEF ImplementedBits, Storable
<1>7. CASE \E h \in Handlers : TakeInterrupt(h) \/ RunEntry(h) \/ RunExit(h)
  <2>1. PICK h \in Handlers : TakeInterrupt(h) \/ RunEntry(h) \/ RunExit(h)
    BY <1>7
  <2>2. UNCHANGED <<hwPrio, frames>>
    BY <2>1 DEF TakeInterrupt, RunEntry, RunExit, nvic
  <2>3. basepri' = basepri \/ basepri' = 0 \/ basepri' = initial[h]
    BY <2>1 DEF TakeInterrupt, RunEntry, RunExit, BasepriOnExit, cpu
  <2>4. \/ initial' = initial \/ initial' = [initial EXCEPT ![h] = basepri]
        \/ initial' = [initial EXCEPT ![h] = 0]
    BY <2>1 DEF TakeInterrupt, RunEntry, RunExit
  <2>5. \A g \in Handlers : initial'[g] \in {initial[g], basepri, 0}
    BY <1>1, <2>4
  <2>6. Storable(basepri') /\ \A g \in Handlers : Storable(initial'[g])
    BY <1>1, <2>3, <2>5, StorableValues
  <2> QED
    BY <1>1, <1>3, <2>2, <2>6 DEF ImplementedBits, Storable
<1>8. CASE \E c \in Contexts : LockRaise(c)
  <2>1. PICK c \in Contexts : LockRaise(c)
    BY <1>8
  <2>2. Logical2Hw(Ceiling(Top(c).of)) \in 0 .. 255
    <3>1. Top(c).of \in Resources /\ TypeOK
      BY <2>1, TopType DEF LockRaise, At, StackOK
    <3>2. Ceiling(Top(c).of) \in 0 .. 255
      BY <3>1, CeilingMax
    <3>3. Ceiling(Top(c).of) \in Int
      BY <3>2
    <3> QED
      BY <3>3, HwType, Zenon
  <2>3. Storable(Implemented(Logical2Hw(Ceiling(Top(c).of))))
    BY <2>2, StorableValues
  <2>4. Storable(Raised(Logical2Hw(Ceiling(Top(c).of))))
    BY <1>1, <2>3 DEF Raised
  <2>5. Storable(basepri')
    BY <1>1, <2>1, <2>4 DEF LockRaise
  <2>6. UNCHANGED <<hwPrio, initial, frames>>
    BY <2>1 DEF LockRaise, nvic
  <2> QED
    BY <1>2, <1>3, <2>5, <2>6 DEF ImplementedBits
<1>9. CASE \E c \in Contexts : Unlock(c)
  <2>1. PICK c \in Contexts : Unlock(c)
    BY <1>9
  <2>2. frames[c] # <<>> /\ Pop(c) /\ UNCHANGED <<hwPrio, initial>>
    BY <2>1 DEF Unlock, nvic
  <2>3. Storable(Top(c).basepri)
    <3>1. Top(c) = frames[c][Len(frames[c])] /\ Len(frames[c]) \in 1 .. Len(frames[c])
      BY <2>2, TopType DEF StackOK, TypeOK
    <3> QED
      BY <1>1, <3>1
  <2>4. Storable(basepri')
    BY <1>1, <2>1, <2>3 DEF Unlock
  <2>5. Stacks'
    BY <2>2, FramesStorable DEF Storable
  <2> QED
    BY <1>2, <2>2, <2>4, <2>5 DEF ImplementedBits
<1>10. CASE \E c \in Contexts : Enter(c) \/ Leave(c)
  <2>1. PICK c \in Contexts : Enter(c) \/ Leave(c)
    BY <1>10
  <2>2. Stacks' /\ Storable(basepri')
    BY <1>4, <2>1 DEF Enter, Leave
  <2>3. UNCHANGED <<hwPrio, initial>>
    BY <2>1 DEF Enter, Leave, nvic
  <2> QED
    BY <1>2, <2>2, <2>3 DEF ImplementedBits
<1>11. CASE \E c \in Contexts, r \in Resources : LockRead(c, r)
  <2>1. PICK c \in Contexts, r \in Resources : LockRead(c, r)
    BY <1>11
  <2> DEFINE f == [of |-> r, basepri |-> basepri, primask |-> primask]
  <2>2. f \in Frame /\ Storable(f.basepri)
    BY <1>1 DEF StackOK, TypeOK, Frame
  <2>3. Push(c, f) /\ UNCHANGED <<basepri, hwPrio, initial>>
    BY <2>1 DEF LockRead, cpu, nvic
  <2>4. Stacks'
    BY <2>2, <2>3, FramesStorable DEF Storable
  <2>5. Storable(basepri')
    BY <1>1, <2>3 DEF Storable
  <2> QED
    BY <1>2, <2>3, <2>4, <2>5 DEF ImplementedBits
<1>12. CASE (\E h \in Handlers : Pend(h)) \/ Wfi \/ Halted \/ UNCHANGED vars
  <2>1. UNCHANGED <<basepri, hwPrio, initial, frames>>
    BY <1>12 DEF Pend, Wfi, Halted, vars, cpu, nvic
  <2>2. Storable(basepri')
    BY <1>1, <2>1 DEF Storable
  <2> QED
    BY <1>2, <1>3, <2>1, <2>2 DEF ImplementedBits
<1> QED
  BY <1>5, <1>6, <1>7, <1>8, <1>9, <1>10, <1>11, <1>12 DEF Next, Cpu

LEMMA TypeStep ==
  ASSUME StackOK, [Next]_vars
  PROVE  TypeOK'
<1>0. /\ TypeOK /\ prio' \in Applications /\ Handlers \subseteq Contexts /\ Thread \in Contexts
      /\ ImplementedBits'
  BY BitsStep DEF Next, vars, StackOK, TypeOK, Contexts
<1>1. CASE Start \/ EnterIdle
  BY <1>0, <1>1, SectionTypes, ZenonT(60) DEF Start, EnterIdle, TypeOK, Positions, cpu, glob, nvic, bound, Goto
<1>2. CASE \E h \in Handlers : PostInit(h)
  <2>1. PICK h \in Handlers : PostInit(h)
    BY <1>2
  <2>2. Implemented(Logical2Hw(prio[h])) \in 0 .. 255
    <3>1. prio[h] \in Int
      BY <1>0, <2>1, Priorities
    <3>2. Logical2Hw(prio[h]) \in 0 .. 255
      BY <3>1, HwType
    <3> QED
      BY <3>2, ImplementedType
  <2>3. hwPrio' \in [Handlers -> 0 .. 255]
    <3> DEFINE w == Implemented(Logical2Hw(prio[h]))
    <3>1. hwPrio' = [hwPrio EXCEPT ![h] = w] \/ hwPrio' = hwPrio
      BY <2>1 DEF PostInit, SetPriority
    <3>2. hwPrio \in [Handlers -> 0 .. 255] /\ w \in 0 .. 255
      BY <1>0, <2>2 DEF TypeOK
    <3> HIDE DEF w
    <3> QED
      BY <3>1, <3>2
  <2>4. enabled' \in [Handlers -> BOOLEAN]
    BY <1>0, <2>1 DEF PostInit, TypeOK
  <2>5. pc' \in [Contexts -> Positions]
    BY <1>0, <2>1 DEF PostInit, TypeOK, Goto, Positions
  <2> QED
    BY <1>0, <2>1, <2>3, <2>4, <2>5 DEF PostInit, TypeOK, cpu, glob, bound
<1>3. CASE \E h \in Handlers : TakeInterrupt(h) \/ RunEntry(h) \/ RunExit(h)
  <2>1. PICK h \in Handlers : TakeInterrupt(h) \/ RunEntry(h) \/ RunExit(h)
    BY <1>3
  <2>2. UsedBy(h) \subseteq Resources
    BY DEF UsedBy
  <2>3. BasepriOnExit(h) \in 0 .. 255
    BY <1>0, <2>1 DEF BasepriOnExit, TypeOK
  <2>4. basepri' \in 0 .. 255
    BY <1>0, <2>1, <2>3 DEF TakeInterrupt, RunEntry, RunExit, TypeOK, cpu
  <2>5. initial' \in [Handlers -> 0 .. 255]
    <3>1. CASE TakeInterrupt(h)
      BY <1>0, <3>1 DEF TakeInterrupt, TypeOK
    <3>2. CASE RunEntry(h)
      BY <1>0, <3>2 DEF RunEntry, TypeOK
    <3>3. CASE RunExit(h)
      BY <1>0, <3>3 DEF RunExit, TypeOK
    <3> QED
      BY <2>1, <3>1, <3>2, <3>3
  <2>6. pending' \in [Handlers -> BOOLEAN]
    BY <1>0, <2>1 DEF TakeInterrupt, RunEntry, RunExit, TypeOK, nvic
  <2>7. pc' \in [Contexts -> Positions]
    BY <1>0, <2>1, ZenonT(60) DEF TakeInterrupt, RunEntry, RunExit, TypeOK, Goto, Positions
  <2>8. todo' \in [Contexts -> SUBSET Resources]
    BY <1>0, <2>1, <2>2, ZenonT(60) DEF TakeInterrupt, RunEntry, RunExit, TypeOK
  <2>9. UNCHANGED <<primask, glob, hwPrio, enabled, frames, bound>>
    BY <2>1 DEF TakeInterrupt, RunEntry, RunExit, cpu, nvic
  <2> QED
    BY <1>0, <2>4, <2>5, <2>6, <2>7, <2>8, <2>9 DEF TypeOK, glob, bound
<1>4. CASE \E c \in Contexts : LockRaise(c)
  <2>1. PICK c \in Contexts : LockRaise(c)
    BY <1>4
  <2>2. Ceiling(Top(c).of) \in 0 .. 255
    BY <1>0, <2>1, TopType, CeilingMax DEF LockRaise, At
  <2>3. Raised(Logical2Hw(Ceiling(Top(c).of))) \in 0 .. 255
    <3>1. Logical2Hw(Ceiling(Top(c).of)) \in 0 .. 255
      <4>1. Ceiling(Top(c).of) \in Int
        BY <2>2
      <4> QED
        BY <4>1, HwType, Zenon
    <3>2. Implemented(Logical2Hw(Ceiling(Top(c).of))) \in 0 .. 255
      BY <3>1, ImplementedType
    <3> QED
      BY <1>0, <3>2 DEF Raised, TypeOK
  <2> QED
    BY <1>0, <2>1, <2>3, ZenonT(60) DEF LockRaise, TypeOK, Positions, cpu, glob, nvic, bound, Goto
<1>5. CASE \E c \in Contexts : Unlock(c)
  <2>1. PICK c \in Contexts : Unlock(c)
    BY <1>5
  <2>2. Top(c) \in Frame
    BY <2>1, TopType DEF Unlock
  <2>3. Top(c).basepri \in 0 .. 255 /\ Top(c).primask \in BOOLEAN
    BY <2>2 DEF Frame
  <2>4. Front(frames[c]) \in Seq(Frame)
    BY <1>0, <2>1, PopProperties DEF Unlock, TypeOK
  <2>5. UsedBy(c) \subseteq Resources
    BY DEF UsedBy
  <2> QED
    BY <1>0, <2>1, <2>3, <2>4, <2>5 DEF Unlock, PrimaskFound, Pop, TypeOK, Positions, cpu, glob, nvic, bound, Goto
<1>6. CASE \E c \in Contexts : Enter(c) \/ Leave(c)
  BY <1>0, <1>6, SectionTypes, ZenonT(60) DEF Enter, Leave, TypeOK, Positions, cpu, glob, nvic, bound, Goto
<1>7. CASE \E c \in Contexts, r \in Resources : LockRead(c, r)
  <2>1. PICK c \in Contexts, r \in Resources : LockRead(c, r)
    BY <1>7
  <2>2. [of |-> r, basepri |-> basepri, primask |-> primask] \in Frame
    BY <1>0, <2>1 DEF Frame, TypeOK
  <2>3. Append(frames[c], [of |-> r, basepri |-> basepri, primask |-> primask]) \in Seq(Frame)
    BY <1>0, <2>1, <2>2, PushProperties DEF TypeOK
  <2> QED
    BY <1>0, <2>1, <2>3 DEF LockRead, Push, TypeOK, Positions, cpu, glob, nvic, bound, Goto
<1>8. CASE \E h \in Handlers : Pend(h)
  <2>1. PICK h \in Handlers : Pend(h)
    BY <1>8
  <2>2. events' \in 0 .. MaxEvents
    BY <1>0, <2>1, Bounds DEF Pend, TypeOK
  <2>3. pending' \in [Handlers -> BOOLEAN]
    BY <1>0, <2>1 DEF Pend, TypeOK
  <2>4. UNCHANGED <<cpu, glob, hwPrio, enabled, pc, initial, frames, todo, sections>>
    BY <2>1 DEF Pend
  <2> QED
    BY <1>0, <2>2, <2>3, <2>4 DEF TypeOK, cpu, glob
<1>9. CASE Wfi \/ Halted \/ UNCHANGED vars
  BY <1>0, <1>9, ZenonT(60) DEF Wfi, Halted, vars, TypeOK, Positions, cpu, glob, nvic, bound, Goto
<1> QED
  BY <1>1, <1>2, <1>3, <1>4, <1>5, <1>6, <1>7, <1>8, <1>9 DEF Next, Cpu

----------------------------------------------------------------------------
(* The start of the machine, and where the contexts are.                   *)

(* Steps of the context that runs, once main has started.                  *)
ContextStep(c) ==
  LockRaise(c) \/ Unlock(c) \/ Enter(c) \/ Leave(c) \/ \E r \in Resources : LockRead(c, r)

HandlerStep(h) == TakeInterrupt(h) \/ RunEntry(h) \/ RunExit(h)

LEMMA Steps ==
  ASSUME [Next]_vars
  PROVE  /\ prio' = prio
         /\ \/ Start \/ EnterIdle
            \/ \E h \in Handlers : PostInit(h)
            \/ \E h \in Handlers : HandlerStep(h)
            \/ \E c \in Contexts : ContextStep(c)
            \/ \E h \in Handlers : Pend(h)
            \/ UNCHANGED vars
<1>1. prio' = prio
  BY DEF Next, vars
<1>2. CASE Wfi \/ Halted
  BY <1>1, <1>2 DEF Wfi, Halted
<1> QED
  BY <1>1, <1>2 DEF Next, Cpu, ContextStep, HandlerStep

LEMMA ContextRuns ==
  ASSUME IInv, NEW c \in Contexts, ContextStep(c)
  PROVE  /\ Runs(c) /\ pc[c] \in {"body", "raise"} /\ Started
         /\ c # Thread => c \in Active /\ c \in Handlers
         /\ pc' = [pc EXCEPT ![c] = pc'[c]] /\ pc'[c] \in {"body", "raise"}
         /\ UNCHANGED <<hwPrio, enabled, pending, initial>>
         /\ \A d \in Contexts \ {c} : frames'[d] = frames[d] /\ todo'[d] = todo[d]
<1>1. Runs(c) /\ pc[c] \in {"body", "raise"}
  BY DEF ContextStep, LockRaise, Unlock, Enter, Leave, LockRead, At
<1>2. c # Thread => c \in Active /\ c \in Handlers
  BY <1>1 DEF Active, Contexts
<1>3. Started
  BY <1>1, <1>2 DEF Started, IInv, Configured
<1>4. /\ pc \in [Contexts -> Positions] /\ frames \in [Contexts -> Seq(Frame)]
      /\ todo \in [Contexts -> SUBSET Resources]
  BY DEF IInv, TypeOK
<1>5. pc' = [pc EXCEPT ![c] = pc'[c]] /\ pc'[c] \in {"body", "raise"}
  BY <1>1, <1>4 DEF ContextStep, LockRaise, Unlock, Enter, Leave, LockRead, Goto
<1>6. UNCHANGED <<hwPrio, enabled, pending, initial>>
  BY DEF ContextStep, LockRaise, Unlock, Enter, Leave, LockRead, nvic
<1>7. \A d \in Contexts \ {c} : frames'[d] = frames[d]
  BY <1>4 DEF ContextStep, LockRaise, Unlock, Enter, Leave, LockRead, EnterSection,
              LeaveSection, Push, Pop
<1>8. \A d \in Contexts \ {c} : todo'[d] = todo[d]
  BY <1>4 DEF ContextStep, LockRaise, Unlock, Enter, Leave, LockRead
<1> QED
  BY <1>1, <1>2, <1>3, <1>5, <1>6, <1>7, <1>8

LEMMA HandlerRuns ==
  ASSUME IInv, NEW h \in Handlers, HandlerStep(h)
  PROVE  /\ Started /\ frames[h] = <<>> /\ h # Thread /\ h \in Contexts
         /\ pc' = [pc EXCEPT ![h] = pc'[h]] /\ pc'[h] \in {"off", "entry", "body"}
         /\ pc[h] # "raise"
         /\ UNCHANGED <<hwPrio, enabled, frames, primask, cs, oldCs>>
<1>1. h # Thread /\ h \in Contexts
  BY RuntimeAssumption DEF Contexts
<1>2. pc \in [Contexts -> Positions]
  BY DEF IInv, TypeOK
<1>3. pc' = [pc EXCEPT ![h] = pc'[h]] /\ pc'[h] \in {"off", "entry", "body"}
  BY <1>1, <1>2 DEF HandlerStep, TakeInterrupt, RunEntry, RunExit, Goto
<1>4. UNCHANGED <<hwPrio, enabled, frames, primask, cs, oldCs>>
  BY DEF HandlerStep, TakeInterrupt, RunEntry, RunExit, nvic, cpu, glob
<1>5. CASE TakeInterrupt(h)
  <2>1. h \notin Active
    <3>1. hwPrio \in [Handlers -> 0 .. 255]
      BY DEF IInv, TypeOK
    <3>2. hwPrio[h] \in 0 .. 255
      BY <3>1
    <3>3. ~ (hwPrio[h] < hwPrio[h])
      BY <3>2
    <3> QED
      BY <1>5, <3>3, Zenon DEF TakeInterrupt, Taken
  <2>2. pc[h] = "off" /\ frames[h] = <<>>
    BY <2>1 DEF Active, IInv, Positioned
  <2>3. Started
    <3>1. pc[Thread] \in {"reset", "post_init", "priority level not supported", "body", "raise"}
      BY <1>2, Priorities DEF IInv, Positioned, Positions
    <3>2. ~ primask /\ enabled[h]
      BY <1>5 DEF TakeInterrupt, Taken
    <3> QED
      BY <3>1, <3>2 DEF IInv, Configured, Started
  <2> QED
    BY <1>1, <1>3, <1>4, <2>2, <2>3
<1>6. CASE RunEntry(h) \/ RunExit(h)
  <2>1. h \in Active /\ pc[h] \in {"entry", "body"} /\ frames[h] = <<>>
    BY <1>6 DEF RunEntry, RunExit, At, Active, IInv, Positioned
  <2>2. Started
    BY <2>1 DEF IInv, Configured
  <2> QED
    BY <1>1, <1>3, <1>4, <2>1, <2>2
<1> QED
  BY <1>5, <1>6 DEF HandlerStep

LEMMA Unpacked ==
  ASSUME IInv
  PROVE  /\ TypeOK /\ Configured /\ Positioned /\ Masked /\ Raised0 /\ Kept
         /\ LocksNeverWait /\ StackOK
         /\ pc \in [Contexts -> Positions] /\ Thread \in Contexts
         /\ hwPrio \in [Handlers -> 0 .. 255] /\ enabled \in [Handlers -> BOOLEAN]
         /\ \A h \in Handlers : hwPrio[h] \in 0 .. 255 /\ prio[h] \in 0 .. 255
         /\ frames \in [Contexts -> Seq(Frame)] /\ todo \in [Contexts -> SUBSET Resources]
<1>1. hwPrio \in [Handlers -> 0 .. 255] /\ prio \in [Handlers -> 0 .. 255]
  BY Priorities DEF IInv, TypeOK
<1>2. \A h \in Handlers : hwPrio[h] \in 0 .. 255 /\ prio[h] \in 0 .. 255
  BY <1>1
<1> QED
  BY <1>1, <1>2 DEF IInv, TypeOK, StackOK, Contexts

LEMMA ConfiguredStep ==
  ASSUME IInv, [Next]_vars
  PROVE  Configured'
<1>1. prio' = prio
  BY Steps
<1>2. CASE Start
  <2> DEFINE f == [of |-> Section, basepri |-> 0, primask |-> FALSE]
  <2>1. pc[Thread] = "reset" /\ pc' = [pc EXCEPT ![Thread] = "post_init"]
    BY <1>2 DEF Start, At, Goto
  <2>2. frames[Thread] = <<>> /\ primask' = TRUE
    BY <1>2, <2>1 DEF Start, EnterSection, IInv, Configured
  <2>3. frames'[Thread] = Append(<<>>, f)
    BY <1>2, <2>2, Unpacked DEF Start, EnterSection, Push
  <2>4. Len(frames'[Thread]) = 1 /\ frames'[Thread][1].of = Section
    BY <2>3
  <2>5. pc'[Thread] = "post_init" /\ \A h \in Handlers : pc'[h] = pc[h]
    BY <2>1, Unpacked, TheContexts
  <2>6. Active = {}
    BY <2>1, Unpacked DEF Configured, Started
  <2>7. UNCHANGED <<enabled, hwPrio>>
    BY <1>2 DEF Start, nvic
  <2>8. Active' = {}
    BY <2>5, <2>6 DEF Active
  <2> QED
    BY <1>1, <2>2, <2>4, <2>5, <2>7, <2>8, Unpacked DEF Configured, Started
<1>3. CASE EnterIdle
  <2>1. pc[Thread] = "post_init" /\ pc' = [pc EXCEPT ![Thread] = "body"]
    BY <1>3 DEF EnterIdle, At, Goto
  <2>2. pc'[Thread] = "body" /\ \A h \in Handlers : enabled'[h]
    BY <1>3, <2>1, Unpacked DEF EnterIdle, nvic
  <2>3. UNCHANGED <<enabled, hwPrio>>
    BY <1>3 DEF EnterIdle, nvic
  <2> QED
    BY <1>1, <2>2, <2>3, Unpacked DEF Configured, Started
<1>4. CASE \E h \in Handlers : PostInit(h)
  <2>1. PICK h \in Handlers : PostInit(h)
    BY <1>4
  <2>2. pc[Thread] = "post_init" /\ UNCHANGED <<frames, primask>>
    BY <2>1 DEF PostInit, At, cpu
  <2>3. primask /\ Len(frames[Thread]) = 1 /\ frames[Thread][1].of = Section /\ Active = {}
    BY <2>2, Unpacked DEF Configured, Started
  <2>4. \/ pc' = pc
        \/ pc' = [pc EXCEPT ![Thread] = "priority level not supported"]
    BY <2>1 DEF PostInit, Goto
  <2>5. pc'[Thread] \in {"post_init", "priority level not supported"}
    BY <2>2, <2>4, Unpacked
  <2>6. \A g \in Handlers : pc'[g] = pc[g]
    BY <2>4, Unpacked, TheContexts
  <2>7. Active' = {}
    BY <2>3, <2>6 DEF Active
  <2>8. ASSUME NEW g \in Handlers, enabled'[g]
        PROVE  prio[g] \in 1 .. Levels /\ hwPrio'[g] = Logical2Hw(prio[g])
    <3>1. CASE g = h /\ enabled' = [enabled EXCEPT ![h] = TRUE]
      <4>1. 0 < prio[h] /\ prio[h] <= Levels /\ SetPriority(h)
        BY <2>1, <3>1, Unpacked DEF PostInit
      <4>2. prio[h] \in 1 .. Levels
        <5>1. prio[h] \in 0 .. 255
          BY Unpacked
        <5>2. \A n \in 0 .. 255 : 0 < n /\ n <= Levels => n \in 1 .. Levels
          BY Bounds
        <5> QED
          BY <4>1, <5>1, <5>2
      <4>3. Implemented(Logical2Hw(prio[h])) = Logical2Hw(prio[h])
        BY <4>2, HwPriorities
      <4> QED
        BY <3>1, <4>1, <4>2, <4>3, Unpacked DEF SetPriority
    <3>2. CASE ~ (g = h /\ enabled' = [enabled EXCEPT ![h] = TRUE])
      <4>1. enabled[g] /\ hwPrio'[g] = hwPrio[g]
        BY <2>1, <2>8, <3>2, Unpacked, ZenonT(60) DEF PostInit, SetPriority
      <4> QED
        BY <4>1, Unpacked DEF Configured
    <3> QED
      BY <3>1, <3>2
  <2> QED
    BY <1>1, <2>2, <2>3, <2>5, <2>7, <2>8 DEF Configured, Started
<1>5. CASE \E h \in Handlers : HandlerStep(h)
  <2>1. PICK h \in Handlers : HandlerStep(h)
    BY <1>5
  <2>2. pc'[Thread] = pc[Thread] /\ Started /\ UNCHANGED <<enabled, hwPrio>>
    BY <2>1, HandlerRuns, Unpacked
  <2> QED
    BY <1>1, <2>2, Unpacked, ZenonT(60) DEF Configured, Started
<1>6. CASE \E c \in Contexts : ContextStep(c)
  <2>1. PICK c \in Contexts : ContextStep(c)
    BY <1>6
  <2>2. Started /\ UNCHANGED <<enabled, hwPrio>>
    BY <2>1, ContextRuns
  <2>3. pc'[Thread] \in {"body", "raise"}
    BY <2>1, <2>2, ContextRuns, Unpacked DEF Started
  <2> QED
    BY <1>1, <2>2, <2>3, Unpacked DEF Configured, Started
<1>7. CASE (\E h \in Handlers : Pend(h)) \/ UNCHANGED vars
  <2>1. UNCHANGED <<enabled, hwPrio, pc, primask, cs, oldCs, frames>>
    BY <1>7 DEF Pend, vars, cpu, glob, nvic
  <2> QED
    BY <1>1, <2>1, Unpacked, ZenonT(60) DEF Configured, Started, Active
<1> QED
  BY <1>2, <1>3, <1>4, <1>5, <1>6, <1>7, Steps

LEMMA PositionedStep ==
  ASSUME IInv, [Next]_vars
  PROVE  Positioned'
<1>1. prio' = prio /\ Positioned /\ Thread \notin Handlers /\ Handlers \subseteq Contexts
  BY Steps, Unpacked, RuntimeAssumption DEF Contexts
<1>2. CASE Start \/ EnterIdle \/ \E h \in Handlers : PostInit(h)
  <2>1. pc[Thread] \in {"reset", "post_init"} /\ ~ Started
    BY <1>2 DEF Start, EnterIdle, PostInit, At, Started
  <2>2. pc' = [pc EXCEPT ![Thread] = pc'[Thread]]
    BY <1>2, Unpacked, ZenonT(60) DEF Start, EnterIdle, PostInit, Goto
  <2>3. /\ pc'[Thread] \in {"post_init", "body", "priority level not supported"}
        /\ \A h \in Handlers : pc'[h] = pc[h]
    BY <1>2, <2>1, <2>2, Unpacked, TheContexts, ZenonT(60) DEF Start, EnterIdle, PostInit, Goto, At
  <2>4. Active = {} /\ Active' = {}
    BY <2>1, <2>3, Unpacked, ZenonT(60) DEF Configured, Active
  <2>5. \A h \in Handlers : frames'[h] = frames[h] /\ pc'[h] = "off"
    BY <1>1, <1>2, <2>3, <2>4, Unpacked, ZenonT(60)
       DEF Start, EnterIdle, PostInit, EnterSection, LeaveSection, Push, Pop, Active
  <2>6. todo' = todo
    BY <1>2 DEF Start, EnterIdle, PostInit
  <2>7. \A i \in 1 .. Len(frames'[Thread]) : frames'[Thread][i].of \in UsedBy(Thread) \cup {Section}
    <3> DEFINE f == [of |-> Section, basepri |-> 0, primask |-> FALSE]
    <3>0. frames[Thread] \in Seq(Frame) /\ f \in Frame /\ f.of = Section
      <4>1. f \in Frame /\ f.of = Section
        BY DEF Frame
      <4> HIDE DEF f
      <4> QED
        BY <4>1, Unpacked
    <3>a. \A i \in 1 .. Len(frames[Thread]) : frames[Thread][i].of \in UsedBy(Thread) \cup {Section}
      BY <1>1, TheContexts DEF Positioned
    <3>1. CASE Start
      <4>1. frames'[Thread] = Append(frames[Thread], f)
        BY <3>1, Unpacked DEF Start, EnterSection, Push
      <4> HIDE DEF f
      <4> QED
        BY <3>0, <3>a, <4>1, PushProperties
    <3>2. CASE EnterIdle
      <4>1. frames'[Thread] = Front(frames[Thread]) /\ frames[Thread] # <<>>
        BY <3>2, Unpacked DEF EnterIdle, LeaveSection, Pop
      <4> HIDE DEF f
      <4>2. \A i \in 1 .. Len(frames'[Thread]) :
              i \in 1 .. Len(frames[Thread]) /\ frames'[Thread][i] = frames[Thread][i]
        <5>1. /\ Len(frames[Thread]) \in Nat \ {0} /\ Len(frames'[Thread]) = Len(frames[Thread]) - 1
              /\ \A i \in 1 .. Len(frames[Thread]) - 1 : frames'[Thread][i] = frames[Thread][i]
          BY <3>0, <4>1, PopProperties, Zenon
        <5> QED
          BY <5>1
      <4> QED
        BY <3>a, <4>2
    <3>3. CASE \E h \in Handlers : PostInit(h)
      BY <1>1, <3>3, Unpacked DEF PostInit, Positioned
    <3> QED
      BY <1>2, <3>1, <3>2, <3>3
  <2>8. /\ pc'[Thread] \notin {"off", "entry"}
        /\ \A h \in Handlers : pc'[h] \in {"off", "entry", "body", "raise"}
        /\ \A h \in Handlers : pc'[h] \in {"off", "entry"} => frames'[h] = <<>>
    BY <1>1, <2>3, <2>4, <2>5 DEF Positioned, Active
  <2>9. \A d \in Contexts : pc'[d] # "raise"
    BY <2>3, <2>5, TheContexts
  <2>10. \A d \in Contexts : \A i \in 1 .. Len(frames'[d]) : frames'[d][i].of \in UsedBy(d) \cup {Section}
    BY <1>1, <2>5, <2>7, TheContexts DEF Positioned
  <2> QED
    BY <1>1, <2>4, <2>6, <2>8, <2>9, <2>10 DEF Positioned, UsedBy
<1>3. CASE \E h \in Handlers : HandlerStep(h)
  <2>1. PICK h \in Handlers : HandlerStep(h)
    BY <1>3
  <2>2. /\ pc' = [pc EXCEPT ![h] = pc'[h]] /\ pc'[h] \in {"off", "entry", "body"}
        /\ frames' = frames /\ frames[h] = <<>> /\ h \in Contexts
    BY <2>1, HandlerRuns
  <2>3. \A c \in Contexts \ {h} : pc'[c] = pc[c]
    BY <2>2, Unpacked
  <2>4. \A g, k \in Active' : g # k => prio[g] # prio[k]
    <3>1. CASE TakeInterrupt(h)
      <4>1. \A g \in Active : hwPrio[h] < hwPrio[g]
        BY <3>1 DEF TakeInterrupt, Taken
      <4>2. Started
        BY <2>1, HandlerRuns
      <4>3. \A g \in Handlers : hwPrio[g] = Logical2Hw(prio[g]) /\ hwPrio[g] \in 0 .. 255
        BY <4>2, StartedLevels, Unpacked
      <4>4. \A g \in Active : g \in Handlers /\ prio[g] # prio[h]
        BY <4>1, <4>3 DEF Active
      <4>5. Active' \subseteq Active \cup {h}
        BY <1>1, <2>3 DEF Active
      <4> QED
        BY <1>1, <4>4, <4>5 DEF Positioned
    <3>2. CASE RunEntry(h) \/ RunExit(h)
      <4>1. h \in Active
        BY <3>2 DEF RunEntry, RunExit, At, Active
      <4>2. Active' \subseteq Active
        BY <1>1, <2>3, <4>1 DEF Active
      <4> QED
        BY <1>1, <4>2 DEF Positioned
    <3> QED
      BY <2>1, <3>1, <3>2 DEF HandlerStep
  <2>5. \A c \in Contexts : todo'[c] \subseteq UsedBy(c)
    BY <1>1, <2>1, Unpacked, ZenonT(60) DEF HandlerStep, TakeInterrupt, RunEntry, RunExit, Positioned
  <2>6. /\ pc'[Thread] \notin {"off", "entry"}
        /\ \A g \in Handlers : pc'[g] \in {"off", "entry", "body", "raise"}
        /\ \A g \in Handlers : pc'[g] \in {"off", "entry"} => frames[g] = <<>>
        /\ \A c \in Contexts : pc'[c] = "raise" => frames[c] # <<>> /\ Top(c).of # Section
    <3>1. pc'[Thread] = pc[Thread]
      BY <2>3, TheContexts
    <3>2. pc'[h] = "off" \/ pc'[h] = "entry" \/ pc'[h] = "body"
      BY <2>2
    <3> QED
      BY <1>1, <2>2, <2>3, <3>1, <3>2 DEF Positioned
  <2> QED
    BY <1>1, <2>2, <2>4, <2>5, <2>6 DEF Positioned, UsedBy, Top
<1>4. CASE \E c \in Contexts : ContextStep(c)
  <2>1. PICK c \in Contexts : ContextStep(c)
    BY <1>4
  <2>2. /\ pc[c] \in {"body", "raise"} /\ pc' = [pc EXCEPT ![c] = pc'[c]]
        /\ pc'[c] \in {"body", "raise"}
        /\ \A d \in Contexts \ {c} : frames'[d] = frames[d] /\ todo'[d] = todo[d]
    BY <2>1, ContextRuns
  <2>3. \A d \in Contexts \ {c} : pc'[d] = pc[d]
    BY <2>2, Unpacked
  <2>4. Active' = Active
    BY <1>1, <2>2, <2>3 DEF Active
  <2>5. todo'[c] \subseteq UsedBy(c)
    <3>1. todo'[c] \subseteq todo[c] \/ todo'[c] = UsedBy(c)
      BY <2>1, Unpacked, ZenonT(60) DEF ContextStep, LockRaise, Unlock, Enter, Leave, LockRead
    <3> QED
      BY <1>1, <3>1 DEF Positioned
  <2>6. /\ pc'[c] = "raise" => frames'[c] # <<>> /\ Last(frames'[c]).of # Section
        /\ \A i \in 1 .. Len(frames'[c]) : frames'[c][i].of \in UsedBy(c) \cup {Section}
    <3>0. frames[c] \in Seq(Frame)
      BY Unpacked
    <3>1. CASE LockRaise(c)
      BY <1>1, <3>1, Unpacked DEF LockRaise, Goto, Positioned
    <3>2. CASE Unlock(c) \/ Leave(c)
      <4>1. frames'[c] = Front(frames[c]) /\ frames[c] # <<>> /\ pc'[c] = "body"
        BY <3>2, Unpacked DEF Unlock, Leave, LeaveSection, Pop, At
      <4>2. \A i \in 1 .. Len(frames[c]) : frames[c][i].of \in UsedBy(c) \cup {Section}
        BY <1>1 DEF Positioned
      <4>3. \A i \in 1 .. Len(frames'[c]) :
              i \in 1 .. Len(frames[c]) /\ frames'[c][i] = frames[c][i]
        <5>1. /\ Len(frames[c]) \in Nat \ {0} /\ Len(Front(frames[c])) = Len(frames[c]) - 1
              /\ \A i \in 1 .. Len(frames[c]) - 1 : Front(frames[c])[i] = frames[c][i]
          BY <3>0, <4>1, PopProperties, Zenon
        <5> QED
          BY <4>1, <5>1
      <4> QED
        BY <4>1, <4>2, <4>3
    <3>3. CASE Enter(c)
      <4> DEFINE f == [of |-> Section, basepri |-> 0, primask |-> FALSE]
      <4>1. frames'[c] = Append(frames[c], f) /\ pc'[c] = "body"
        BY <3>3, Unpacked DEF Enter, EnterSection, Push, At
      <4>2. f \in Frame /\ f.of = Section
        BY DEF Frame
      <4> HIDE DEF f
      <4> QED
        BY <1>1, <3>0, <4>1, <4>2, PushProperties DEF Positioned
    <3>4. CASE \E r \in Resources : LockRead(c, r)
      <4>1. PICK r \in Resources : LockRead(c, r)
        BY <3>4
      <4> DEFINE f == [of |-> r, basepri |-> basepri, primask |-> primask]
      <4>2. frames'[c] = Append(frames[c], f)
        BY <4>1, Unpacked DEF LockRead, Push
      <4>3. f \in Frame /\ f.of = r
        BY <4>1, Unpacked DEF Frame, TypeOK
      <4>4. r \in UsedBy(c) /\ r # Section
        BY <1>1, <4>1, RuntimeAssumption DEF LockRead, Positioned
      <4> HIDE DEF f
      <4>5. Last(frames'[c]) = f /\ frames'[c] # <<>>
        BY <3>0, <4>2, <4>3, PushProperties DEF Last
      <4> QED
        BY <1>1, <3>0, <4>2, <4>3, <4>4, <4>5, PushProperties DEF Positioned
    <3> QED
      BY <2>1, <3>1, <3>2, <3>3, <3>4 DEF ContextStep
  <2>7. /\ pc'[Thread] \notin {"off", "entry"}
        /\ \A h \in Handlers : pc'[h] \in {"off", "entry", "body", "raise"}
        /\ \A h \in Handlers : pc'[h] \in {"off", "entry"} => frames'[h] = <<>>
    BY <1>1, <2>2, <2>3, TheContexts DEF Positioned
  <2>8. \A d \in Contexts : pc'[d] = "raise" => frames'[d] # <<>> /\ Last(frames'[d]).of # Section
    BY <1>1, <2>2, <2>3, <2>6 DEF Positioned, Top
  <2>9. \A d \in Contexts : todo'[d] \subseteq UsedBy(d)
    BY <1>1, <2>2, <2>5 DEF Positioned
  <2>10. \A d \in Contexts : \A i \in 1 .. Len(frames'[d]) : frames'[d][i].of \in UsedBy(d) \cup {Section}
    BY <1>1, <2>2, <2>6 DEF Positioned
  <2>11. \A g, h \in Active' : g # h => prio[g] # prio[h]
    BY <1>1, <2>4 DEF Positioned
  <2> QED
    BY <1>1, <2>7, <2>8, <2>9, <2>10, <2>11 DEF Positioned, UsedBy, Top
<1>5. CASE (\E h \in Handlers : Pend(h)) \/ UNCHANGED vars
  <2>1. UNCHANGED <<pc, frames, todo>>
    BY <1>5 DEF Pend, vars
  <2> QED
    BY <1>1, <2>1 DEF Positioned, Active, UsedBy, Top
<1> QED
  BY <1>2, <1>3, <1>4, <1>5, Steps

----------------------------------------------------------------------------
(* What a step does to the stack of frames.                                *)

LEMMA StackStep ==
  ASSUME IInv, [Next]_vars
  PROVE  StackOK'
<1>1. TypeOK'
  BY TypeStep, Unpacked
<1> QED
  BY <1>1, PositionedStep DEF StackOK

(* Steps that lock nothing and unlock nothing.                             *)
Flat == frames' = frames /\ \A c \in Contexts : pc'[c] = "raise" <=> pc[c] = "raise"

LEMMA FlatStep ==
  ASSUME prio' = prio, Flat
  PROVE  /\ \A c \in Contexts : Depth(c)' = Depth(c) /\ Inside(c)' = Inside(c)
         /\ Held' = Held
         /\ \A c \in Contexts : \A i : HeldBeneath(c, i)' = HeldBeneath(c, i)
<1>1. \A c \in Contexts : Depth(c)' = Depth(c)
  BY DEF Flat, Depth
<1>2. \A c \in Contexts : Inside(c)' = Inside(c)
  BY DEF Flat, Inside
<1>3. \A f : Raises(f)' <=> Raises(f)
  BY CeilingKept DEF Raises
<1>4. \A d, j, c, i : Beneath(d, j, c, i)' <=> Beneath(d, j, c, i)
  BY CeilingKept DEF Beneath
<1>5. Held' = Held
  BY <1>1, <1>3, CeilingKept DEF Held, Flat
<1>6. ASSUME NEW c \in Contexts, NEW i PROVE HeldBeneath(c, i)' = HeldBeneath(c, i)
  BY <1>1, <1>3, <1>4, CeilingKept DEF HeldBeneath, Flat
<1> QED
  BY <1>1, <1>2, <1>5, <1>6

LEMMA HandlerIsFlat ==
  ASSUME IInv, NEW h \in Handlers, HandlerStep(h)
  PROVE  Flat
BY HandlerRuns, Unpacked DEF Flat

LEMMA NoneRaises ==
  (\A d \in Contexts : \A j \in 1 .. Depth(d) : frames[d][j].of = Section) =>
    Held = {} /\ \A c, i : HeldBeneath(c, i) = {}
BY DEF Held, HeldBeneath, Raises

(* What each step of the context that runs does to its frames.             *)
LEMMA FrameEffects ==
  ASSUME IInv, NEW c \in Contexts, ContextStep(c), NEW n, n = Len(frames[c])
  PROVE  /\ n \in Nat
         /\ \A r \in Resources : LockRead(c, r) =>
              /\ Depth(c) = n /\ Depth(c)' = n /\ Len(frames'[c]) = n + 1
              /\ \A i \in 1 .. n : frames'[c][i] = frames[c][i]
              /\ frames'[c][n + 1] = [of |-> r, basepri |-> basepri, primask |-> primask]
         /\ Enter(c) =>
              /\ Depth(c) = n /\ Depth(c)' = n + 1 /\ Len(frames'[c]) = n + 1
              /\ \A i \in 1 .. n : frames'[c][i] = frames[c][i]
              /\ frames'[c][n + 1].of = Section
         /\ LockRaise(c) =>
              /\ n > 0 /\ Depth(c) = n - 1 /\ Depth(c)' = n /\ frames' = frames
              /\ Top(c) = frames[c][n] /\ Top(c).of \in Resources
         /\ Unlock(c) \/ Leave(c) =>
              /\ n > 0 /\ Depth(c) = n /\ Depth(c)' = n - 1 /\ Len(frames'[c]) = n - 1
              /\ \A i \in 1 .. n - 1 : frames'[c][i] = frames[c][i]
              /\ Top(c) = frames[c][n] /\ Top(c) \in Frame
<1>1. frames[c] \in Seq(Frame) /\ n \in Nat /\ StackOK
  BY Unpacked
<1>2. ASSUME NEW r \in Resources, LockRead(c, r)
      PROVE  /\ Depth(c) = n /\ Depth(c)' = n /\ Len(frames'[c]) = n + 1
             /\ \A i \in 1 .. n : frames'[c][i] = frames[c][i]
             /\ frames'[c][n + 1] = [of |-> r, basepri |-> basepri, primask |-> primask]
  <2> DEFINE f == [of |-> r, basepri |-> basepri, primask |-> primask]
  <2>1. f \in Frame
    BY Unpacked DEF Frame, TypeOK
  <2>2. frames'[c] = Append(frames[c], f) /\ pc[c] = "body" /\ pc'[c] = "raise"
    BY <1>2, Unpacked DEF LockRead, Push, At, Goto
  <2> HIDE DEF f
  <2>3. /\ Len(frames'[c]) = n + 1 /\ frames'[c][n + 1] = f
        /\ \A i \in 1 .. n : frames'[c][i] = frames[c][i]
    BY <1>1, <2>1, <2>2, PushProperties
  <2>4. Depth(c) = n /\ Depth(c)' = n
    BY <1>1, <2>2, <2>3 DEF Depth
  <2> QED
    BY <2>3, <2>4 DEF f
<1>3. ASSUME Enter(c)
      PROVE  /\ Depth(c) = n /\ Depth(c)' = n + 1 /\ Len(frames'[c]) = n + 1
             /\ \A i \in 1 .. n : frames'[c][i] = frames[c][i]
             /\ frames'[c][n + 1].of = Section
  <2> DEFINE f == [of |-> Section, basepri |-> 0, primask |-> FALSE]
  <2>1. f \in Frame /\ f.of = Section
    BY DEF Frame
  <2>2. frames'[c] = Append(frames[c], f) /\ pc[c] = "body" /\ pc'[c] = "body"
    BY <1>3, Unpacked DEF Enter, EnterSection, Push, At
  <2> HIDE DEF f
  <2>3. /\ Len(frames'[c]) = n + 1 /\ frames'[c][n + 1].of = Section
        /\ \A i \in 1 .. n : frames'[c][i] = frames[c][i]
    BY <1>1, <2>1, <2>2, PushProperties
  <2> QED
    BY <1>1, <2>2, <2>3 DEF Depth
<1>4. ASSUME LockRaise(c)
      PROVE  /\ n > 0 /\ Depth(c) = n - 1 /\ Depth(c)' = n /\ frames' = frames
             /\ Top(c) = frames[c][n] /\ Top(c).of \in Resources
  <2>1. pc[c] = "raise" /\ pc'[c] = "body" /\ frames' = frames
    BY <1>4, Unpacked DEF LockRaise, At, Goto
  <2>2. frames[c] # <<>>
    BY <2>1, Unpacked DEF Positioned
  <2> QED
    BY <1>1, <2>1, <2>2, TopType DEF Depth
<1>5. ASSUME Unlock(c) \/ Leave(c)
      PROVE  /\ n > 0 /\ Depth(c) = n /\ Depth(c)' = n - 1 /\ Len(frames'[c]) = n - 1
             /\ \A i \in 1 .. n - 1 : frames'[c][i] = frames[c][i]
             /\ Top(c) = frames[c][n] /\ Top(c) \in Frame
  <2>1. /\ frames'[c] = Front(frames[c]) /\ frames[c] # <<>>
        /\ pc[c] = "body" /\ pc'[c] = "body"
    BY <1>5, Unpacked DEF Unlock, Leave, LeaveSection, Pop, At
  <2>2. /\ n > 0 /\ Len(frames'[c]) = n - 1
        /\ \A i \in 1 .. n - 1 : frames'[c][i] = frames[c][i]
    BY <1>1, <2>1, PopProperties
  <2> QED
    BY <1>1, <2>1, <2>2, TopType DEF Depth
<1> QED
  BY <1>1, <1>2, <1>3, <1>4, <1>5

(* While c runs, what is beneath the other contexts' frames is kept, and   *)
(* so is what is beneath those of c that the step leaves.                  *)
LEMMA BeneathStep ==
  ASSUME IInv, [Next]_vars, NEW c \in Contexts, ContextStep(c)
  PROVE  /\ OnTop(c) /\ OnTop(c)' /\ Active' = Active
         /\ \A d \in Contexts \ {c} : Depth(d)' = Depth(d)
         /\ \A i \in Nat : i <= Len(frames'[c]) \/ i = Len(frames[c]) \/ i = 1 =>
              HeldBeneath(c, i)' = HeldBeneath(c, i)
         /\ \A d \in Contexts \ {c} : frames[d] # <<>> \/ d \in Active =>
              \A i \in Nat : HeldBeneath(d, i)' = HeldBeneath(d, i)
<1>1. OnTop(c) /\ prio' = prio
  BY ContextRuns, RunsOnTop, Steps
<1>2. /\ \A d \in Contexts \ {c} : frames'[d] = frames[d] /\ pc'[d] = pc[d]
      /\ pc[c] \in {"body", "raise"} /\ pc'[c] \in {"body", "raise"}
  BY ContextRuns, Unpacked
<1>3. \A d \in Contexts \ {c} : Depth(d)' = Depth(d)
  BY <1>2 DEF Depth
<1>4. Active' = Active
  BY <1>2, TheContexts DEF Active
<1>5. OnTop(c)'
  BY <1>1, <1>2, <1>4, CeilingKept DEF OnTop
<1>6. \A d \in Contexts : Depth(d) \in Nat /\ Depth(d)' \in Nat
  <2>1. (\A d \in Contexts : Depth(d) \in Nat)
    BY DepthType, Unpacked
  <2>2. Depth(c)' \in Nat
    <3> DEFINE n == Len(frames[c])
    <3>1. /\ n \in Nat /\ (LockRaise(c) => Depth(c)' = n) /\ (Enter(c) => Depth(c)' = n + 1)
          /\ (Unlock(c) \/ Leave(c) => n > 0 /\ Depth(c)' = n - 1)
          /\ \A r \in Resources : LockRead(c, r) => Depth(c)' = n
      BY FrameEffects
    <3> QED
      BY <3>1 DEF ContextStep
  <2> QED
    BY <1>3, <2>1, <2>2
<1>7. \A d \in Contexts : PrioOf(d) \in Nat
  <2>1. \A d \in Contexts : PrioOf(d) \in 0 .. 255
    BY Priorities, Unpacked
  <2> QED
    BY <2>1
<1>8. ASSUME NEW i \in Nat, i <= Len(frames'[c]) \/ i = Len(frames[c]) \/ i = 1
      PROVE  HeldBeneath(c, i)' = HeldBeneath(c, i)
  <2> DEFINE n == Len(frames[c])
  <2>1. \A j \in Nat \ {0} : j < i =>
          /\ j <= Depth(c) <=> j <= Depth(c)'
          /\ j <= Depth(c) => frames[c]'[j] = frames[c][j]
    <3>1. n \in Nat /\ n = Len(frames[c])
      BY FrameEffects
    <3> HIDE DEF n
    <3>2. CASE Enter(c)
      BY <1>8, <3>1, <3>2, FrameEffects
    <3>3. CASE LockRaise(c)
      BY <1>8, <3>1, <3>3, FrameEffects
    <3>4. CASE Unlock(c) \/ Leave(c)
      BY <1>8, <3>1, <3>4, FrameEffects
    <3>5. CASE \E r \in Resources : LockRead(c, r)
      <4>1. PICK r \in Resources : LockRead(c, r)
        BY <3>5
      <4>2. Depth(c) = n /\ Depth(c)' = n /\ \A j \in 1 .. n : frames'[c][j] = frames[c][j]
        BY <3>1, <4>1, FrameEffects
      <4> QED
        BY <3>1, <4>2
    <3> QED
      BY <3>2, <3>3, <3>4, <3>5 DEF ContextStep
  <2> QED
    BY <1>1, <1>2, <1>3, <1>6, <1>7, <2>1, BeneathKept
<1>9. ASSUME NEW d \in Contexts \ {c}, frames[d] # <<>> \/ d \in Active, NEW i \in Nat
      PROVE  HeldBeneath(d, i)' = HeldBeneath(d, i)
  <2>1. ~ (PrioOf(c) < PrioOf(d))
    BY <1>1, <1>7, <1>9 DEF OnTop
  <2> QED
    BY <1>1, <1>2, <1>3, <1>6, <1>7, <2>1, BeneathKept
<1> QED
  BY <1>1, <1>3, <1>4, <1>5, <1>8, <1>9

(* The ceilings in force before and after a step of the context that runs. *)
LEMMA HeldStep ==
  ASSUME IInv, [Next]_vars, NEW c \in Contexts, ContextStep(c), NEW n, n = Len(frames[c])
  PROVE  /\ \A r \in Resources : LockRead(c, r) =>
              Held' = Held /\ HeldBeneath(c, n + 1)' = Held
         /\ Enter(c) => Held' = Held
         /\ LockRaise(c) =>
              Held' = Held \cup {m \in 0 .. 255 : /\ Raises(Top(c))
                                                  /\ m = Ceiling(Top(c).of)}
         /\ Unlock(c) \/ Leave(c) =>
              /\ Held' = HeldBeneath(c, n)
              /\ Held = HeldBeneath(c, n) \cup {m \in 0 .. 255 : /\ Raises(Top(c))
                                                                /\ m = Ceiling(Top(c).of)}
<1>1. OnTop(c) /\ OnTop(c)' /\ StackOK /\ StackOK' /\ n \in Nat /\ prio' = prio
  BY BeneathStep, StackStep, Unpacked, FrameEffects, Steps
<1>2. \A i \in Nat : i > Depth(c) => HeldBeneath(c, i) = Held
  BY <1>1, AboveTop
<1>3. \A i \in Nat : i > Depth(c)' => HeldBeneath(c, i)' = Held'
  BY <1>1, AboveTopNext
<1>4. \A k \in Nat : k > 0 /\ k = Depth(c) =>
        Held = HeldBeneath(c, k) \cup
               {m \in 0 .. 255 : Raises(frames[c][k]) /\ m = Ceiling(frames[c][k].of)}
  BY <1>1, AtTop
<1>5. \A k \in Nat : k > 0 /\ k = Depth(c)' =>
        Held' = HeldBeneath(c, k)' \cup
               {m \in 0 .. 255 : Raises(frames[c][k])' /\ m = Ceiling(frames[c][k].of)'}
  BY <1>1, AtTopNext
<1>6. \A i \in Nat : i <= Len(frames'[c]) \/ i = n \/ i = 1 =>
        HeldBeneath(c, i)' = HeldBeneath(c, i)
  BY BeneathStep
<1>7. \A f : (Raises(f)' <=> Raises(f)) /\ Ceiling(f.of)' = Ceiling(f.of)
  BY <1>1, CeilingKept DEF Raises
<1>8. ASSUME NEW r \in Resources, LockRead(c, r)
      PROVE  Held' = Held /\ HeldBeneath(c, n + 1)' = Held
  <2>1. Depth(c) = n /\ Depth(c)' = n /\ Len(frames'[c]) = n + 1
    BY <1>8, FrameEffects
  <2> QED
    BY <1>1, <1>2, <1>3, <1>6, <2>1
<1>9. ASSUME Enter(c) PROVE Held' = Held
  <2>1. Depth(c) = n /\ Depth(c)' = n + 1 /\ Len(frames'[c]) = n + 1 /\ frames'[c][n + 1].of = Section
    BY <1>9, FrameEffects
  <2>2. HeldBeneath(c, n + 1)' = Held
    BY <1>1, <1>2, <1>6, <2>1
  <2>3. ~ Raises(frames[c][n + 1])'
    BY <2>1 DEF Raises
  <2>4. n + 1 \in Nat /\ n + 1 > 0
    BY <1>1
  <2>5. Held' = HeldBeneath(c, n + 1)' \cup
                {m \in 0 .. 255 : /\ Raises(frames[c][n + 1])'
                                 /\ m = Ceiling(frames[c][n + 1].of)'}
    BY <1>5, <2>1, <2>4
  <2> QED
    BY <2>2, <2>3, <2>5
<1>10. ASSUME LockRaise(c)
       PROVE  Held' = Held \cup {m \in 0 .. 255 : Raises(Top(c)) /\ m = Ceiling(Top(c).of)}
  <2>1. n > 0 /\ Depth(c) = n - 1 /\ Depth(c)' = n /\ frames' = frames /\ Top(c) = frames[c][n]
    BY <1>10, FrameEffects
  <2>2. HeldBeneath(c, n)' = Held
    BY <1>1, <1>2, <1>6, <2>1
  <2> QED
    BY <1>1, <1>5, <1>7, <2>1, <2>2
<1>11. ASSUME Unlock(c) \/ Leave(c)
       PROVE  /\ Held' = HeldBeneath(c, n)
              /\ Held = HeldBeneath(c, n) \cup
                        {m \in 0 .. 255 : Raises(Top(c)) /\ m = Ceiling(Top(c).of)}
  <2>1. n > 0 /\ Depth(c) = n /\ Depth(c)' = n - 1 /\ Top(c) = frames[c][n]
    BY <1>11, FrameEffects
  <2>2. Held' = HeldBeneath(c, n)
    BY <1>1, <1>3, <1>6, <2>1
  <2> QED
    BY <1>1, <1>4, <2>1, <2>2
<1> QED
  BY <1>8, <1>9, <1>10, <1>11

----------------------------------------------------------------------------
(* BASEPRI.                                                                *)

(* basepri_max gives BASEPRI the value for one more ceiling.               *)
LEMMA RaiseMask ==
  ASSUME NEW S, S \subseteq 1 .. Levels - 1, NEW k \in 0 .. Levels - 1, MaskOf(basepri, S)
  PROVE  MaskOf(Raised(Logical2Hw(k)), S \cup {m \in 0 .. 255 : k > 0 /\ m = k})
<1> DEFINE T == S \cup {m \in 0 .. 255 : k > 0 /\ m = k}
<1>1. CASE k = 0
  <2>1. Implemented(0) = 0
    <3>1. Step \in Nat \ {0}
      BY RuntimeAssumption DEF Step
    <3> QED
      BY <3>1 DEF Implemented
  <2>2. Raised(Logical2Hw(k)) = basepri
    BY <1>1, <2>1, HwPriorities DEF Raised
  <2>3. T = S
    BY <1>1
  <2> QED
    BY <2>2, <2>3
<1>2. CASE k > 0
  <2> DEFINE w == Logical2Hw(k)
  <2>1. k \in 1 .. Levels /\ k # Levels /\ T = S \cup {k}
    BY <1>2, Bounds
  <2>2. w \in 0 .. 255 /\ Implemented(w) = w /\ w # 0
    BY <2>1, HwPriorities
  <2>3. Raised(w) = IF basepri = 0 \/ w < basepri THEN w ELSE basepri
    BY <2>2 DEF Raised
  <2>4. CASE S = {} /\ basepri = 0
    BY <2>1, <2>3, <2>4 DEF MaskOf
  <2>5. CASE \E n \in S : basepri = Logical2Hw(n) /\ \A m \in S : m <= n
    <3>1. PICK n \in S : basepri = Logical2Hw(n) /\ \A m \in S : m <= n
      BY <2>5
    <3>2. n \in 1 .. Levels /\ n # Levels
      BY Bounds
    <3>3. basepri # 0 /\ (w < basepri <=> n < k)
      BY <2>1, <3>1, <3>2, HwPriorities
    <3>4. CASE n < k
      <4>1. \A m \in T : m <= k
        BY <2>1, <3>1, <3>4, Bounds
      <4> QED
        BY <2>1, <2>3, <3>3, <3>4, <4>1 DEF MaskOf
    <3>5. CASE ~ (n < k)
      <4>1. \A m \in T : m <= n
        BY <2>1, <3>1, <3>2, <3>5
      <4> QED
        BY <2>1, <2>3, <3>1, <3>3, <3>5, <4>1 DEF MaskOf
    <3> QED
      BY <3>4, <3>5
  <2> QED
    BY <2>4, <2>5 DEF MaskOf
<1> QED
  BY <1>1, <1>2

(* Before main starts the idle task there is nothing but its section.      *)
LEMMA BootStep ==
  ASSUME IInv, [Next]_vars, Start \/ EnterIdle \/ \E h \in Handlers : PostInit(h)
  PROVE  /\ Active = {} /\ Active' = {} /\ Held' = {} /\ basepri' = basepri
         /\ Held = {}
         /\ \A c, i : HeldBeneath(c, i)' = {}
         /\ \A d \in Contexts : \A j \in 1 .. Len(frames'[d]) : frames'[d][j].of = Section
<1>1. pc[Thread] \in {"reset", "post_init"} /\ ~ Started
  BY DEF Start, EnterIdle, PostInit, At, Started
<1>2. pc' = [pc EXCEPT ![Thread] = pc'[Thread]] /\ pc'[Thread] # "raise"
  BY <1>1, Unpacked, ZenonT(60) DEF Start, EnterIdle, PostInit, Goto
<1>3. Active = {}
  BY <1>1, Unpacked DEF Configured
<1>4. Active' = {}
  BY <1>2, <1>3, TheContexts, Unpacked DEF Active
<1>5. basepri' = basepri
  BY DEF Start, EnterIdle, PostInit, EnterSection, LeaveSection, cpu
<1>6. \A h \in Handlers : frames[h] = <<>> /\ frames'[h] = frames[h] /\ pc'[h] = "off"
  BY <1>2, <1>3, TheContexts, Unpacked
     DEF Active, Positioned, Start, EnterIdle, PostInit, EnterSection, LeaveSection, Push, Pop
<1>7. /\ \A j \in 1 .. Len(frames[Thread]) : frames[Thread][j].of = Section
      /\ \A j \in 1 .. Len(frames'[Thread]) : frames'[Thread][j].of = Section
  <2> DEFINE f == [of |-> Section, basepri |-> 0, primask |-> FALSE]
  <2>a. f \in Frame /\ f.of = Section
    BY DEF Frame
  <2> HIDE DEF f
  <2>0. f \in Frame /\ f.of = Section /\ frames[Thread] \in Seq(Frame)
    BY <2>a, Unpacked
  <2>1. CASE Start
    <3>1. pc[Thread] = "reset" /\ frames[Thread] = <<>>
      BY <2>1, Unpacked DEF Start, At, Configured
    <3>2. frames'[Thread] = Append(<<>>, f)
      BY <2>1, <3>1, Unpacked DEF Start, EnterSection, Push, f
    <3>3. Len(frames'[Thread]) = 1 /\ frames'[Thread][1] = f
      BY <2>0, <3>2
    <3> QED
      BY <2>0, <3>1, <3>3
  <2>2. CASE EnterIdle \/ \E h \in Handlers : PostInit(h)
    <3>1. pc[Thread] = "post_init"
      BY <2>2 DEF EnterIdle, PostInit, At
    <3>2. Len(frames[Thread]) = 1 /\ frames[Thread][1].of = Section
      BY <3>1, Unpacked DEF Configured
    <3>3. frames'[Thread] = frames[Thread] \/ frames'[Thread] = Front(frames[Thread])
      BY <2>2, Unpacked DEF EnterIdle, PostInit, LeaveSection, Pop
    <3>4. frames[Thread] # <<>>
      BY <3>2
    <3>5. frames'[Thread] = frames[Thread] \/ Len(frames'[Thread]) = 0
      BY <2>0, <3>2, <3>3, <3>4, PopProperties
    <3> QED
      BY <3>2, <3>5
  <2> QED
    BY <2>1, <2>2
<1>8. /\ \A d \in Contexts : \A j \in 1 .. Len(frames[d]) : frames[d][j].of = Section
      /\ \A d \in Contexts : \A j \in 1 .. Len(frames'[d]) : frames'[d][j].of = Section
  BY <1>6, <1>7, TheContexts
<1>9. /\ \A d \in Contexts : Depth(d) <= Len(frames[d])
      /\ \A d \in Contexts : Depth(d)' = Len(frames'[d])
  <2>1. \A d \in Contexts : pc'[d] # "raise"
    BY <1>2, <1>6, TheContexts
  <2>2. \A d \in Contexts : Len(frames'[d]) \in Nat
    BY StackStep DEF StackOK, TypeOK
  <2>3. \A d \in Contexts : Depth(d)' = Len(frames'[d])
    <3> SUFFICES ASSUME NEW d \in Contexts PROVE Depth(d)' = Len(frames'[d])
      OBVIOUS
    <3>1. Len(frames'[d]) \in Nat /\ pc'[d] # "raise"
      BY <2>1, <2>2
    <3> QED
      BY <3>1 DEF Depth
  <2>4. \A d \in Contexts : Depth(d) <= Len(frames[d])
    BY DepthType, Unpacked
  <2> QED
    BY <2>3, <2>4
<1>10. Held = {}
  BY <1>8, <1>9, DepthType, NoneRaises, Unpacked
<1>11. Held' = {} /\ \A c, i : HeldBeneath(c, i)' = {}
  BY <1>8, <1>9 DEF Held, HeldBeneath, Raises
<1> QED
  BY <1>3, <1>4, <1>5, <1>8, <1>10, <1>11

(* The value BASEPRI has when a handler at the top leaves is that for the  *)
(* ceilings in force beneath it.                                           *)
LEMMA HandlerHeld ==
  ASSUME IInv, NEW h \in Handlers, At(h, "entry") \/ RunEntry(h) \/ RunExit(h)
  PROVE  Held = HeldBeneath(h, 1) /\ h \in Active
<1>1. Runs(h) /\ h \in Active /\ h \in Contexts /\ frames[h] = <<>>
  BY TheContexts, Unpacked DEF RunEntry, RunExit, At, Active, Positioned
<1>2. OnTop(h) /\ Depth(h) <= 0
  BY <1>1, RunsOnTop, DepthType, Unpacked
<1> QED
  BY <1>1, <1>2, AboveTop, DepthType, Unpacked

LEMMA Raised0Step ==
  ASSUME IInv, [Next]_vars
  PROVE  Raised0'
<1>0. MaskOf(basepri, Held) /\ prio' = prio
  BY Unpacked, Steps DEF Raised0
<1>a. basepri' = basepri /\ Held' = Held => Raised0'
  BY <1>0 DEF Raised0, MaskOf
<1>1. CASE Start \/ EnterIdle \/ \E h \in Handlers : PostInit(h)
  BY <1>1, <1>a, BootStep
<1>2. CASE \E h \in Handlers : HandlerStep(h)
  <2>1. PICK h \in Handlers : HandlerStep(h)
    BY <1>2
  <2>2. Held' = Held
    BY <1>0, <2>1, HandlerIsFlat, FlatStep
  <2>3. CASE TakeInterrupt(h) \/ RunEntry(h)
    BY <1>a, <2>2, <2>3 DEF TakeInterrupt, RunEntry, cpu
  <2>4. CASE RunExit(h)
    <3>1. Held = HeldBeneath(h, 1) /\ h \in Active
      BY <2>4, HandlerHeld
    <3>2. basepri' = BasepriOnExit(h) /\ pc[h] # "entry"
      BY <2>4 DEF RunExit, At
    <3>3. MaskOf(BasepriOnExit(h), HeldBeneath(h, 1))
      BY <3>1, <3>2, Unpacked DEF Kept, BasepriOnExit, MaskOf
    <3> QED
      BY <2>2, <3>1, <3>2, <3>3 DEF Raised0, MaskOf
  <2> QED
    BY <2>1, <2>3, <2>4 DEF HandlerStep
<1>3. CASE \E c \in Contexts : ContextStep(c)
  <2>1. PICK c \in Contexts : ContextStep(c)
    BY <1>3
  <2> DEFINE n == Len(frames[c])
  <2>2. n \in Nat /\ Started
    BY <2>1, FrameEffects, ContextRuns
  <2>3. CASE Enter(c) \/ \E r \in Resources : LockRead(c, r)
    BY <1>a, <2>1, <2>3, HeldStep DEF Enter, EnterSection, LockRead, cpu
  <2>4. CASE LockRaise(c)
    <3> DEFINE r == Top(c).of
               k == Ceiling(r)
    <3>1. r \in Resources /\ r # Section /\ k \in 0 .. Levels
      BY <2>1, <2>2, <2>4, FrameEffects, StartedLevels, RuntimeAssumption
    <3>2. Held' = Held \cup {m \in 0 .. 255 : Raises(Top(c)) /\ m = k}
      BY <2>1, <2>4, HeldStep
    <3>3. CASE ByPrimask(r)
      <4>1. basepri' = basepri \/ ~ ByPrimask(r)
        BY <2>4 DEF LockRaise
      <4>2. Held' = Held
        BY <3>2, <3>3 DEF Raises
      <4> QED
        BY <1>a, <3>3, <4>1, <4>2
    <3>4. CASE ~ ByPrimask(r)
      <4>1. basepri' = Raised(Logical2Hw(k))
        BY <2>4, <3>4 DEF LockRaise
      <4>2. k \in 0 .. Levels - 1
        BY <3>1, <3>4, Bounds DEF ByPrimask
      <4>3. Held \subseteq 1 .. Levels - 1
        BY <2>2, StartedLevels
      <4>4. Raises(Top(c)) <=> k > 0
        BY <3>1, <3>4 DEF Raises
      <4>5. MaskOf(Raised(Logical2Hw(k)), Held \cup {m \in 0 .. 255 : k > 0 /\ m = k})
        <5> HIDE DEF k
        <5> QED
          BY <1>0, <4>2, <4>3, RaiseMask, ZenonT(60)
      <4>6. Held' = Held \cup {m \in 0 .. 255 : k > 0 /\ m = k}
        BY <3>2, <4>4
      <4> QED
        BY <4>1, <4>5, <4>6 DEF Raised0, MaskOf
    <3> QED
      BY <3>3, <3>4
  <2>5. CASE Unlock(c) \/ Leave(c)
    <3>1. /\ Held' = HeldBeneath(c, n) /\ n > 0 /\ Top(c) = frames[c][n]
          /\ Held = HeldBeneath(c, n) \cup {m \in 0 .. 255 : /\ Raises(Top(c))
                                                           /\ m = Ceiling(Top(c).of)}
      BY <2>1, <2>5, HeldStep, FrameEffects, ZenonT(60)
    <3>2. CASE basepri' = basepri /\ ~ Raises(Top(c))
      BY <1>a, <3>1, <3>2
    <3>3. CASE Unlock(c) /\ ~ ByPrimask(Top(c).of)
      <4>1. basepri' = Top(c).basepri /\ Top(c).of # Section
        BY <3>3 DEF Unlock
      <4>2. MaskOf(Top(c).basepri, HeldBeneath(c, n))
        BY <2>2, <3>1, <4>1, Unpacked, SMTT(60) DEF Kept
      <4> QED
        BY <3>1, <4>1, <4>2 DEF Raised0, MaskOf
    <3> QED
      BY <2>5, <3>2, <3>3 DEF Unlock, Leave, LeaveSection, Raises
  <2> QED
    BY <2>1, <2>3, <2>4, <2>5 DEF ContextStep
<1>4. CASE (\E h \in Handlers : Pend(h)) \/ UNCHANGED vars
  <2>1. UNCHANGED <<basepri, frames, pc>>
    BY <1>4 DEF Pend, vars, cpu
  <2> QED
    BY <1>0, <1>a, <2>1, FlatStep DEF Flat
<1> QED
  BY <1>1, <1>2, <1>3, <1>4, Steps

(* A handler is taken only if its priority is above every ceiling in force.*)
LEMMA TakenAbove ==
  ASSUME IInv, NEW h \in Handlers, Taken(h), Started
  PROVE  \A n \in Held : n < prio[h]
<1>1. /\ \A n \in Held : n \in 1 .. Levels - 1
      /\ prio[h] \in 1 .. Levels /\ hwPrio[h] = Logical2Hw(prio[h])
  BY StartedLevels
<1>2. CASE Held = {}
  BY <1>2
<1>3. CASE \E n \in Held : basepri = Logical2Hw(n) /\ \A m \in Held : m <= n
  <2>1. PICK n \in Held : basepri = Logical2Hw(n) /\ \A m \in Held : m <= n
    BY <1>3
  <2>2. n \in 1 .. Levels /\ n # Levels
    BY <1>1, Bounds
  <2>3. basepri # 0
    BY <2>1, <2>2, HwPriorities
  <2>4. Logical2Hw(prio[h]) < Logical2Hw(n)
    BY <1>1, <2>1, <2>3 DEF Taken
  <2>5. n < prio[h]
    BY <1>1, <2>2, <2>4, HwPriorities
  <2> QED
    <3> SUFFICES ASSUME NEW m \in Held PROVE m < prio[h]
      OBVIOUS
    <3>1. m \in Int /\ n \in Int /\ prio[h] \in Int /\ m <= n
      BY <1>1, <2>1
    <3> QED
      BY <2>5, <3>1
<1> QED
  BY <1>2, <1>3, Unpacked DEF Raised0, MaskOf

LEMMA KeptStep ==
  ASSUME IInv, [Next]_vars
  PROVE  Kept'
<1>0. Kept /\ prio' = prio
  BY Unpacked, Steps
<1>1. CASE Start \/ EnterIdle \/ \E h \in Handlers : PostInit(h)
  BY <1>1, BootStep DEF Kept
<1>2. CASE \E h \in Handlers : HandlerStep(h)
  <2>1. PICK h \in Handlers : HandlerStep(h)
    BY <1>2
  <2>2. /\ frames' = frames /\ Held' = Held
        /\ \A c \in Contexts : \A i : HeldBeneath(c, i)' = HeldBeneath(c, i)
    BY <1>0, <2>1, HandlerIsFlat, FlatStep DEF Flat
  <2>3. \A c \in Contexts : \A i \in 1 .. Len(frames'[c]) : frames'[c][i].of # Section =>
          MaskOf(frames'[c][i].basepri, HeldBeneath(c, i)')
    BY <1>0, <2>2 DEF Kept
  <2>4. /\ Active' \subseteq Active \cup {h}
        /\ \A g \in Handlers \ {h} : pc'[g] = pc[g] /\ initial'[g] = initial[g]
    <3>1. \A c \in Contexts \ {h} : pc'[c] = pc[c]
      BY <2>1, HandlerRuns, Unpacked
    <3>2. \A g \in Handlers \ {h} : initial'[g] = initial[g]
      BY <2>1, Unpacked DEF HandlerStep, TakeInterrupt, RunEntry, RunExit, TypeOK
    <3> QED
      BY <3>1, <3>2, TheContexts DEF Active
  <2>5. ASSUME NEW g \in Active', prio[g] # 1, pc'[g] # "entry"
        PROVE  MaskOf(initial'[g], HeldBeneath(g, 1)')
    <3>0. g \in Handlers /\ g \in Contexts
      BY TheContexts DEF Active
    <3>1. CASE g # h
      BY <1>0, <2>2, <2>4, <2>5, <3>0, <3>1 DEF Kept
    <3>2. CASE g = h
      <4>1. RunEntry(h)
        BY <2>1, <2>5, <3>2, Unpacked, TheContexts
           DEF HandlerStep, TakeInterrupt, RunExit, Goto, Active
      <4>2. initial'[h] = basepri
        BY <2>5, <3>2, <4>1, Unpacked DEF RunEntry, TypeOK
      <4>3. Held = HeldBeneath(h, 1) /\ MaskOf(basepri, Held)
        BY <4>1, HandlerHeld, Unpacked DEF Raised0
      <4> QED
        BY <2>2, <3>0, <3>2, <4>2, <4>3
    <3> QED
      BY <3>1, <3>2
  <2>6. ASSUME NEW g \in Active', prio[g] = 1
        PROVE  HeldBeneath(g, 1)' = {}
    <3>0. g \in Handlers /\ g \in Contexts
      BY TheContexts DEF Active
    <3>1. CASE g \in Active
      BY <1>0, <2>2, <2>6, <3>0, <3>1 DEF Kept
    <3>2. CASE g \notin Active
      <4>1. g = h /\ TakeInterrupt(h)
        BY <2>1, <2>4, <3>2, HandlerHeld DEF HandlerStep
      <4>2. Taken(h) /\ Started
        BY <2>1, <4>1, HandlerRuns DEF TakeInterrupt
      <4>3. \A n \in Held : n < 1 /\ n \in 1 .. Levels - 1
        BY <2>6, <4>1, <4>2, TakenAbove, StartedLevels
      <4>4. Held = {}
        BY <4>3, Bounds
      <4>5. HeldBeneath(h, 1) \subseteq Held
        BY DEF HeldBeneath, Held
      <4> QED
        BY <2>2, <3>0, <4>1, <4>4, <4>5
    <3> QED
      BY <3>1, <3>2
  <2> QED
    BY <1>0, <2>3, <2>5, <2>6 DEF Kept
<1>3. CASE \E c \in Contexts : ContextStep(c)
  <2>1. PICK c \in Contexts : ContextStep(c)
    BY <1>3
  <2> DEFINE n == Len(frames[c])
  <2>2. n \in Nat /\ initial' = initial /\ Active' = Active
    BY <2>1, FrameEffects, ContextRuns, BeneathStep
  <2>3. ASSUME NEW d \in Contexts, NEW i \in 1 .. Len(frames'[d]), frames'[d][i].of # Section
        PROVE  MaskOf(frames'[d][i].basepri, HeldBeneath(d, i)')
    <3>1. CASE d # c
      <4>1. frames'[d] = frames[d] /\ frames[d] \in Seq(Frame)
        BY <2>1, <3>1, ContextRuns, Unpacked
      <4>2. frames[d] # <<>> /\ i \in Nat
        BY <4>1
      <4>3. HeldBeneath(d, i)' = HeldBeneath(d, i)
        BY <2>1, <3>1, <4>2, BeneathStep
      <4> QED
        BY <1>0, <2>3, <4>1, <4>3 DEF Kept
    <3>2. CASE d = c
      <4>1. i \in Nat \ {0} /\ i <= Len(frames'[c])
        BY <3>2, StackStep DEF StackOK, TypeOK
      <4>2. HeldBeneath(c, i)' = HeldBeneath(c, i)
        BY <2>1, <4>1, BeneathStep
      <4>3. CASE i <= n /\ frames'[c][i] = frames[c][i]
        BY <1>0, <2>2, <2>3, <3>2, <4>1, <4>2, <4>3 DEF Kept
      <4>4. CASE \E r \in Resources : LockRead(c, r) /\ i = n + 1
        <5>1. PICK r \in Resources : LockRead(c, r) /\ i = n + 1
          BY <4>4
        <5>2. frames'[c][i] = [of |-> r, basepri |-> basepri, primask |-> primask]
          BY <2>1, <5>1, FrameEffects
        <5>3. HeldBeneath(c, i)' = Held
          BY <2>1, <5>1, HeldStep, ZenonT(60)
        <5>4. MaskOf(basepri, Held)
          BY Unpacked DEF Raised0
        <5> QED
          BY <3>2, <5>2, <5>3, <5>4
      <4>5. \/ i <= n /\ frames'[c][i] = frames[c][i]
            \/ \E r \in Resources : LockRead(c, r) /\ i = n + 1
        <5>1. CASE Enter(c)
          BY <2>1, <2>2, <2>3, <3>2, <4>1, <5>1, FrameEffects
        <5>2. CASE LockRaise(c)
          BY <2>1, <2>2, <4>1, <5>2, FrameEffects
        <5>3. CASE Unlock(c) \/ Leave(c)
          BY <2>1, <2>2, <4>1, <5>3, FrameEffects
        <5>4. CASE \E r \in Resources : LockRead(c, r)
          <6>1. PICK r \in Resources : LockRead(c, r)
            BY <5>4
          <6>2. Len(frames'[c]) = n + 1 /\ \A k \in 1 .. n : frames'[c][k] = frames[c][k]
            BY <2>1, <6>1, FrameEffects
          <6> QED
            BY <2>2, <4>1, <6>1, <6>2
        <5> QED
          BY <2>1, <5>1, <5>2, <5>3, <5>4 DEF ContextStep
      <4> QED
        BY <4>3, <4>4, <4>5
    <3> QED
      BY <3>1, <3>2
  <2>4. ASSUME NEW h \in Active'
        PROVE  HeldBeneath(h, 1)' = HeldBeneath(h, 1) /\ h \in Active /\ h \in Handlers
    <3>1. h \in Active /\ h \in Handlers /\ h \in Contexts
      BY <2>2, TheContexts DEF Active
    <3> QED
      BY <2>1, <3>1, BeneathStep
  <2>5. ASSUME NEW h \in Active', pc'[h] # "entry" PROVE pc[h] # "entry"
    <3>1. \A d \in Contexts \ {c} : pc'[d] = pc[d]
      BY <2>1, ContextRuns, Unpacked
    <3>2. pc[c] # "entry"
      BY <2>1, ContextRuns
    <3> QED
      BY <2>4, <2>5, <3>1, <3>2, TheContexts
  <2> QED
    BY <1>0, <2>2, <2>3, <2>4, <2>5 DEF Kept
<1>4. CASE (\E h \in Handlers : Pend(h)) \/ UNCHANGED vars
  <2>1. UNCHANGED <<basepri, frames, pc, initial>>
    BY <1>4 DEF Pend, vars, cpu
  <2>2. \A c \in Contexts : \A i : HeldBeneath(c, i)' = HeldBeneath(c, i)
    BY <1>0, <2>1, FlatStep DEF Flat
  <2> QED
    BY <1>0, <2>1, <2>2, TheContexts DEF Kept, Active
<1> QED
  BY <1>1, <1>2, <1>3, <1>4, Steps

----------------------------------------------------------------------------
(* Interrupts are masked.                                                  *)

LEMMA MaskedStep ==
  ASSUME IInv, [Next]_vars
  PROVE  Masked'
<1>0. Masked /\ prio' = prio
  BY Unpacked, Steps
<1>m. \A f : MasksAll(f)' <=> MasksAll(f)
  BY <1>0, CeilingKept DEF MasksAll
<1>b. \A d, j, c, i : Beneath(d, j, c, i)' <=> Beneath(d, j, c, i)
  BY <1>0, CeilingKept DEF Beneath
<1>a. ASSUME Flat, UNCHANGED <<primask, cs, oldCs>>, pc[Thread] # "reset", Started' <=> Started
      PROVE  Masked'
  <2>1. \A c \in Contexts : Depth(c)' = Depth(c)
    BY <1>0, <1>a, FlatStep
  <2> QED
    BY <1>0, <1>m, <1>b, <1>a, <2>1 DEF Masked, Flat
<1>1. CASE Start
  <2>1. cs' = TRUE /\ pc'[Thread] = "post_init" /\ primask' = TRUE
    BY <1>1, Unpacked DEF Start, EnterSection, Goto
  <2>2. \A d \in Contexts : \A j \in 1 .. Len(frames'[d]) : frames'[d][j].of = Section
    BY <1>1, BootStep
  <2> QED
    BY <2>1, <2>2 DEF Masked, Started
<1>2. CASE EnterIdle
  <2>1. cs' /\ pc'[Thread] = "body"
    BY <1>2, Unpacked DEF EnterIdle, LeaveSection, Goto, At, glob, Masked
  <2>2. \A d \in Contexts : frames'[d] = <<>>
    <3>1. \A h \in Handlers : frames[h] = <<>> /\ frames'[h] = frames[h]
      BY <1>2, BootStep, Unpacked, TheContexts
         DEF Positioned, Active, EnterIdle, LeaveSection, Pop
    <3>a. pc[Thread] = "post_init"
      BY <1>2 DEF EnterIdle, At
    <3>b. Len(frames[Thread]) = 1
      BY <3>a, Unpacked DEF Configured
    <3>2. Len(frames[Thread]) = 1 /\ frames[Thread] \in Seq(Frame) /\ frames[Thread] # <<>>
      <4>1. frames[Thread] \in Seq(Frame)
        BY Unpacked
      <4> QED
        BY <3>b, <4>1
    <3>3. frames'[Thread] = Front(frames[Thread])
      BY <1>2, Unpacked DEF EnterIdle, LeaveSection, Pop
    <3>4. Len(frames'[Thread]) = 0 /\ frames'[Thread] \in Seq(Frame)
      BY <3>2, <3>3, PopProperties
    <3> QED
      BY <3>1, <3>4, TheContexts
  <2>3. \A d \in Contexts : 1 .. Depth(d)' = {}
    <3> SUFFICES ASSUME NEW d \in Contexts PROVE 1 .. Depth(d)' = {}
      OBVIOUS
    <3>1. frames'[d] = <<>> /\ Len(<<>>) = 0
      BY <2>2
    <3>2. Depth(d)' = 0 \/ Depth(d)' = -1
      BY <3>1 DEF Depth
    <3> QED
      BY <3>2
  <2> QED
    BY <2>1, <2>2, <2>3 DEF Masked
<1>3. CASE \E h \in Handlers : PostInit(h)
  <2>1. Flat /\ UNCHANGED <<primask, cs, oldCs>> /\ pc[Thread] = "post_init"
    BY <1>3, Unpacked, TheContexts, ZenonT(60) DEF PostInit, Flat, cpu, glob, At, Goto
  <2>2. ~ Started /\ ~ Started'
    BY <1>3, <2>1, Unpacked DEF PostInit, Goto, Started
  <2> QED
    BY <1>a, <2>1, <2>2
<1>4. CASE \E h \in Handlers : HandlerStep(h)
  <2>1. PICK h \in Handlers : HandlerStep(h)
    BY <1>4
  <2>2. Flat /\ UNCHANGED <<primask, cs, oldCs>> /\ Started /\ pc'[Thread] = pc[Thread]
    BY <2>1, HandlerIsFlat, HandlerRuns, Unpacked
  <2> QED
    BY <1>a, <2>2 DEF Started
<1>5. CASE \E c \in Contexts : ContextStep(c)
  <2>1. PICK c \in Contexts : ContextStep(c)
    BY <1>5
  <2> DEFINE n == Len(frames[c])
  <2>2. /\ n \in Nat /\ Started /\ OnTop(c)
        /\ \A d \in Contexts \ {c} : frames'[d] = frames[d] /\ Depth(d)' = Depth(d)
    BY <2>1, FrameEffects, ContextRuns, BeneathStep
  <2>3. cs /\ cs' /\ (oldCs => oldCs') /\ (Enter(c) => oldCs' /\ primask')
    <3>1. cs
      BY <1>0, <2>2 DEF Masked, Started
    <3>2. CASE Enter(c)
      BY <3>1, <3>2 DEF Enter, EnterSection
    <3>3. CASE ~ Enter(c)
      <4>1. cs' = cs /\ oldCs' = oldCs
        BY <2>1, <3>3 DEF ContextStep, LockRaise, Unlock, Leave, LockRead, LeaveSection, glob
      <4> QED
        BY <3>1, <3>3, <4>1
    <3> QED
      BY <3>2, <3>3
  <2>4. \A d \in Contexts : \A i \in 1 .. Len(frames'[d]) :
          \/ i <= Len(frames[d]) /\ frames'[d][i] = frames[d][i]
          \/ d = c /\ i = n + 1 /\ Enter(c) /\ frames'[d][i].of = Section
          \/ /\ d = c /\ i = n + 1
             /\ \E r \in Resources : LockRead(c, r) /\ frames'[d][i].of = r
             /\ frames'[d][i].primask = primask
    <3> SUFFICES ASSUME NEW d \in Contexts, NEW i \in 1 .. Len(frames'[d])
                 PROVE  \/ i <= Len(frames[d]) /\ frames'[d][i] = frames[d][i]
                        \/ d = c /\ i = n + 1 /\ Enter(c) /\ frames'[d][i].of = Section
                        \/ /\ d = c /\ i = n + 1
                           /\ \E r \in Resources : LockRead(c, r) /\ frames'[d][i].of = r
                           /\ frames'[d][i].primask = primask
      OBVIOUS
    <3>1. CASE d # c
      BY <2>2, <3>1
    <3>2. CASE d = c /\ Enter(c)
      BY <2>1, <2>2, <3>2, FrameEffects
    <3>3. CASE d = c /\ LockRaise(c)
      BY <2>1, <2>2, <3>3, FrameEffects
    <3>4. CASE d = c /\ (Unlock(c) \/ Leave(c))
      BY <2>1, <2>2, <3>4, FrameEffects
    <3>5. CASE d = c /\ \E r \in Resources : LockRead(c, r)
      <4>1. PICK r \in Resources : LockRead(c, r)
        BY <3>5
      <4>2. /\ Len(frames'[c]) = n + 1
            /\ \A k \in 1 .. n : frames'[c][k] = frames[c][k]
            /\ frames'[c][n + 1] = [of |-> r, basepri |-> basepri, primask |-> primask]
        BY <2>1, <4>1, FrameEffects
      <4>3. CASE i <= n
        BY <2>2, <3>5, <4>2, <4>3
      <4>4. CASE i = n + 1
        BY <3>5, <4>1, <4>2, <4>4
      <4> QED
        BY <2>2, <3>5, <4>2, <4>3, <4>4
    <3> QED
      BY <2>1, <3>1, <3>2, <3>3, <3>4, <3>5 DEF ContextStep
  (* A frame that masks all interrupts, after the step. *)
  <2>5. ASSUME NEW d \in Contexts, NEW j \in 1 .. Depth(d)', MasksAll(frames[d][j])'
        PROVE  \/ j <= Depth(d) /\ frames'[d][j] = frames[d][j]
               \/ d = c /\ j = Depth(c)' /\ j >= Len(frames'[c]) /\ primask'
    <3>1. CASE d # c
      BY <2>2, <3>1
    <3>2. CASE d = c /\ Enter(c)
      BY <2>1, <2>2, <2>3, <3>2, FrameEffects
    <3>3. CASE d = c /\ LockRaise(c)
      <4>1. /\ n > 0 /\ Depth(c) = n - 1 /\ Depth(c)' = n /\ frames' = frames
            /\ Top(c) = frames[c][n] /\ Top(c).of \in Resources
        BY <2>1, <3>3, FrameEffects
      <4>2. CASE j <= n - 1
        BY <3>3, <4>1, <4>2
      <4>3. CASE j = n
        <5>1. MasksAll(Top(c))
          BY <1>m, <2>5, <3>3, <4>1, <4>3
        <5>2. ByPrimask(Top(c).of)
          BY <4>1, <5>1, RuntimeAssumption DEF MasksAll
        <5>3. primask'
          BY <3>3, <5>2 DEF LockRaise
        <5> QED
          BY <2>2, <3>3, <4>1, <4>3, <5>3
      <4> QED
        BY <2>2, <3>3, <4>1, <4>2, <4>3
    <3>4. CASE d = c /\ (Unlock(c) \/ Leave(c))
      BY <2>1, <2>2, <3>4, FrameEffects
    <3>5. CASE d = c /\ \E r \in Resources : LockRead(c, r)
      <4>1. PICK r \in Resources : LockRead(c, r)
        BY <3>5
      <4>2. Depth(c) = n /\ Depth(c)' = n /\ \A k \in 1 .. n : frames'[c][k] = frames[c][k]
        BY <2>1, <4>1, FrameEffects
      <4> QED
        BY <2>2, <3>5, <4>2
    <3> QED
      BY <2>1, <3>1, <3>2, <3>3, <3>4, <3>5 DEF ContextStep
  (* One that masked them before still does. *)
  <2>6. ASSUME NEW d \in Contexts, NEW j \in 1 .. Depth(d)', MasksAll(frames[d][j])',
               j <= Depth(d) /\ frames'[d][j] = frames[d][j]
        PROVE  primask /\ primask'
    <3>1. j \in 1 .. Depth(d) /\ MasksAll(frames[d][j])
      BY <1>m, <2>6, DepthType, Unpacked
    <3>2. primask
      BY <1>0, <3>1 DEF Masked
    <3>3. CASE Leave(c)
      <4>1. Top(c).of = Section /\ Top(c) = frames[c][n] /\ n > 0
        BY <2>1, <3>3, FrameEffects DEF Leave, LeaveSection
      <4>2. oldCs
        BY <1>0, <2>2, <4>1 DEF Masked
      <4> QED
        BY <3>2, <3>3, <4>2 DEF Leave, LeaveSection, MaskedByOldCs
    <3>4. CASE Unlock(c)
      <4>1. /\ Top(c).of # Section /\ Top(c) = frames[c][n] /\ n > 0
            /\ Depth(c) = n /\ Depth(c)' = n - 1
        BY <2>1, <3>4, FrameEffects DEF Unlock
      <4>2. Beneath(d, j, c, n)
        <5>1. CASE d = c
          BY <2>2, <4>1, <5>1 DEF Beneath
        <5>2. CASE d # c
          <6>1. frames[d] # <<>>
            BY <3>1, DepthType, Unpacked
          <6> QED
            BY <2>2, <5>2, <6>1 DEF Beneath, OnTop
        <5> QED
          BY <5>1, <5>2
      <4>3. Top(c).primask
        BY <1>0, <2>2, <3>1, <4>1, <4>2 DEF Masked
      <4> QED
        BY <3>2, <3>4, <4>3 DEF Unlock, PrimaskFound
    <3>5. CASE LockRaise(c) \/ Enter(c) \/ \E r \in Resources : LockRead(c, r)
      BY <3>2, <3>5 DEF LockRaise, Enter, EnterSection, LockRead, cpu
    <3> QED
      BY <2>1, <3>2, <3>3, <3>4, <3>5 DEF ContextStep
  <2>7. ASSUME NEW d \in Contexts, NEW j \in 1 .. Depth(d)', MasksAll(frames[d][j])',
               NEW e \in Contexts, NEW i \in 1 .. Len(frames'[e]),
               Beneath(d, j, e, i), frames'[e][i].of # Section
        PROVE  frames'[e][i].primask
    <3>1. CASE j <= Depth(d) /\ frames'[d][j] = frames[d][j]
      <4>1. primask
        BY <2>6, <2>7, <3>1
      <4>2. j \in 1 .. Depth(d) /\ MasksAll(frames[d][j])
        BY <1>m, <2>7, <3>1, DepthType, Unpacked
      <4>3. CASE i <= Len(frames[e]) /\ frames'[e][i] = frames[e][i]
        BY <1>0, <2>7, <4>2, <4>3 DEF Masked
      <4>4. CASE ~ (i <= Len(frames[e]) /\ frames'[e][i] = frames[e][i])
        BY <2>4, <2>7, <4>1, <4>4
      <4> QED
        BY <4>3, <4>4
    <3>2. CASE d = c /\ j = Depth(c)' /\ j >= Len(frames'[c])
      <4>0. /\ PrioOf(c) \in 0 .. 255 /\ PrioOf(e) \in 0 .. 255
            /\ frames'[e] \in Seq(Frame) /\ i \in Nat \ {0} /\ i <= Len(frames'[e])
        <5>1. PrioOf(c) \in 0 .. 255 /\ PrioOf(e) \in 0 .. 255
          BY Priorities, Unpacked
        <5>2. frames' \in [Contexts -> Seq(Frame)]
          BY StackStep DEF StackOK, TypeOK
        <5> QED
          BY <5>1, <5>2
      <4>1. e # c
        <5>1. CASE e = c
          <6>1. j \in Nat
            BY StackStep, <3>2 DEF StackOK, TypeOK
          <6>2. ~ (j < i)
            BY <3>2, <4>0, <5>1, <6>1
          <6>3. ~ (PrioOf(c) < PrioOf(c))
            <7>1. \A x \in 0 .. 255 : ~ (x < x)
              OBVIOUS
            <7> QED
              BY <4>0, <7>1, Zenon
          <6> QED
            BY <2>7, <3>2, <5>1, <6>2, <6>3 DEF Beneath
        <5> QED
          BY <5>1
      <4>2. frames[e] # <<>>
        BY <2>2, <4>0, <4>1
      <4>3. PrioOf(e) < PrioOf(c)
        BY <2>2, <4>1, <4>2 DEF OnTop
      <4>4. ~ (PrioOf(c) < PrioOf(e))
        <5>1. \A x, y \in 0 .. 255 : x < y => ~ (y < x)
          OBVIOUS
        <5> QED
          BY <4>0, <4>3, <5>1, Zenon
      <4> QED
        BY <2>7, <3>2, <4>1, <4>4 DEF Beneath
    <3> QED
      BY <2>5, <2>7, <3>1, <3>2
  <2>8. \A d \in Contexts : \A j \in 1 .. Depth(d)' : MasksAll(frames[d][j])' => primask'
    BY <2>5, <2>6
  <2>9. \A d \in Contexts : \A i \in 1 .. Len(frames'[d]) : frames'[d][i].of = Section => oldCs'
    <3> SUFFICES ASSUME NEW d \in Contexts, NEW i \in 1 .. Len(frames'[d]),
                        frames'[d][i].of = Section
                 PROVE  oldCs'
      OBVIOUS
    <3>1. CASE i <= Len(frames[d]) /\ frames'[d][i] = frames[d][i]
      BY <1>0, <2>2, <2>3, <3>1 DEF Masked
    <3>2. CASE ~ (i <= Len(frames[d]) /\ frames'[d][i] = frames[d][i])
      BY <2>3, <2>4, <3>2, RuntimeAssumption
    <3> QED
      BY <3>1, <3>2
  <2> QED
    BY <1>b, <2>3, <2>7, <2>8, <2>9 DEF Masked
<1>6. CASE (\E h \in Handlers : Pend(h)) \/ UNCHANGED vars
  <2>1. UNCHANGED <<primask, cs, oldCs, frames, pc>>
    BY <1>6 DEF Pend, vars, cpu, glob
  <2>2. \A c \in Contexts : Depth(c)' = Depth(c)
    BY <1>0, <2>1, FlatStep DEF Flat
  <2> QED
    BY <1>0, <1>m, <1>b, <2>1, <2>2 DEF Masked, Started
<1> QED
  BY <1>1, <1>2, <1>3, <1>4, <1>5, <1>6, Steps

----------------------------------------------------------------------------
(* Locks.                                                                  *)

LEMMA InsideForce ==
  ASSUME IInv, NEW c \in Contexts, NEW r \in Inside(c)
  PROVE  /\ \E i \in 1 .. Depth(c) : frames[c][i].of = r
         /\ r \in Resources /\ r \in UsedBy(c) /\ r # Section /\ frames[c] # <<>>
<1>1. PICK i \in 1 .. Depth(c) : frames[c][i].of = r
  BY DEF Inside, Depth
<1>2. r # Section
  BY DEF Inside
<1>3. i \in 1 .. Len(frames[c]) /\ frames[c] # <<>>
  BY DepthType, Unpacked
<1>4. frames[c][i].of \in UsedBy(c) \cup {Section}
  BY <1>3, Unpacked DEF Positioned
<1> QED
  BY <1>1, <1>2, <1>3, <1>4 DEF UsedBy

LEMMA LocksNeverWaitStep ==
  ASSUME IInv, [Next]_vars
  PROVE  LocksNeverWait'
<1>0. LocksNeverWait /\ prio' = prio /\ \A c : PrioOf(c)' = PrioOf(c)
  BY Unpacked, Steps, CeilingKept
<1>1. CASE Start \/ EnterIdle \/ \E h \in Handlers : PostInit(h)
  BY <1>1, BootStep DEF LocksNeverWait
<1>2. CASE \E h \in Handlers : HandlerStep(h)
  <2>1. PICK h \in Handlers : HandlerStep(h)
    BY <1>2
  <2>2. \A c \in Contexts : Inside(c)' = Inside(c)
    BY <1>0, <2>1, HandlerIsFlat, FlatStep
  <2>3. Active' \subseteq Active \cup {h}
    BY <2>1, HandlerRuns, Unpacked, TheContexts DEF Active
  <2>4. ASSUME h \in Active', h \notin Active,
               NEW r \in UsedBy(h), NEW c \in Contexts \ {h}, r \in Inside(c)
        PROVE  FALSE
    <3>1. Taken(h) /\ Started /\ ~ primask
      BY <2>1, <2>4, HandlerHeld, HandlerRuns DEF HandlerStep, TakeInterrupt, Taken
    <3>2. PICK i \in 1 .. Depth(c) : frames[c][i].of = r
      BY <2>4, InsideForce
    <3>3. r \in Resources /\ r # Section /\ h \in Users[r]
      BY <2>4, InsideForce DEF UsedBy
    <3>4. prio[h] \in 1 .. Levels /\ Ceiling(r) \in 0 .. 255 /\ prio[h] <= Ceiling(r)
      <4>1. PrioOf(h) = prio[h]
        BY TheContexts DEF PrioOf
      <4> QED
        BY <3>1, <3>3, <4>1, StartedLevels, CeilingMax, Unpacked
    <3>5. ~ ByPrimask(r)
      BY <3>1, <3>2, Unpacked DEF Masked, MasksAll
    <3>6. Ceiling(r) \in Held
      BY <3>2, <3>3, <3>4, <3>5 DEF Held, Raises
    <3>7. Ceiling(r) < prio[h]
      BY <3>1, <3>6, TakenAbove
    <3> QED
      BY <3>4, <3>7, Bounds
  <2> QED
    BY <1>0, <2>2, <2>3, <2>4 DEF LocksNeverWait, UsedBy
<1>3. CASE \E c \in Contexts : ContextStep(c)
  <2>1. PICK c \in Contexts : ContextStep(c)
    BY <1>3
  <2>2. /\ OnTop(c) /\ Active' = Active
        /\ \A d \in Contexts \ {c} : frames'[d] = frames[d] /\ Depth(d)' = Depth(d)
    BY <2>1, BeneathStep, ContextRuns
  <2>3. \A d \in Contexts \ {c} : Inside(d)' = Inside(d)
    <3>1. \A d \in Contexts \ {c} : pc'[d] = pc[d]
      BY <2>1, ContextRuns, Unpacked
    <3> QED
      BY <2>2, <3>1 DEF Inside
  <2>4. \A h \in Active \ {c} : PrioOf(c) > PrioOf(h)
    BY <2>2, TheContexts, Priorities, Unpacked DEF OnTop, Active
  <2> QED
    BY <1>0, <2>2, <2>3, <2>4 DEF LocksNeverWait, UsedBy
<1>4. CASE (\E h \in Handlers : Pend(h)) \/ UNCHANGED vars
  <2>1. UNCHANGED <<frames, pc>>
    BY <1>4 DEF Pend, vars
  <2> QED
    BY <1>0, <2>1 DEF LocksNeverWait, UsedBy, Inside, Active
<1> QED
  BY <1>1, <1>2, <1>3, <1>4, Steps

----------------------------------------------------------------------------
(* The theorems.                                                           *)

LEMMA InitHolds ==
  ASSUME Init
  PROVE  IInv
<1>1. TypeOK
  <2>1. \A c \in Contexts : UsedBy(c) \subseteq Resources
    BY DEF UsedBy
  <2>2. todo \in [Contexts -> SUBSET Resources]
    BY <2>1 DEF Init
  <2>3. frames \in [Contexts -> Seq(Frame)] /\ pc \in [Contexts -> Positions]
    BY DEF Init, Positions
  <2>4. /\ hwPrio \in [Handlers -> 0 .. 255] /\ initial \in [Handlers -> 0 .. 255]
        /\ enabled \in [Handlers -> BOOLEAN] /\ pending \in [Handlers -> BOOLEAN]
    BY DEF Init
  <2>5. /\ prio \in Applications /\ basepri \in 0 .. 255 /\ {primask, cs, oldCs} \subseteq BOOLEAN
        /\ events \in 0 .. MaxEvents /\ sections \in 0 .. MaxSections
    <3>1. prio \in Applications /\ basepri \in 0 .. 255 /\ {primask, cs, oldCs} \subseteq BOOLEAN
      <4>1. prio \in Applications /\ basepri = 0
        BY DEF Init
      <4>2. primask = FALSE /\ cs = FALSE /\ oldCs = FALSE
        BY DEF Init
      <4>3. {primask, cs, oldCs} \subseteq BOOLEAN
        BY <4>2
      <4>4. basepri \in 0 .. 255
        BY <4>1
      <4> QED
        BY <4>1, <4>3, <4>4
    <3>2. events = 0 /\ sections = 0
      BY DEF Init
    <3> QED
      BY <3>1, <3>2, Bounds
  <2>6. ImplementedBits
    BY StorableValues DEF Init, ImplementedBits
  <2> QED
    BY <2>2, <2>3, <2>4, <2>5, <2>6 DEF TypeOK
<1>2. /\ pc[Thread] = "reset" /\ \A c \in Contexts : frames[c] = <<>> /\ pc[c] # "raise"
      /\ \A h \in Handlers : pc[h] = "off" /\ ~ enabled[h]
      /\ Active = {} /\ ~ Started
  BY TheContexts DEF Init, Active, Started
<1>3. \A c \in Contexts : 1 .. Depth(c) = {} /\ 1 .. Len(frames[c]) = {}
  <2> SUFFICES ASSUME NEW c \in Contexts PROVE 1 .. Depth(c) = {} /\ 1 .. Len(frames[c]) = {}
    OBVIOUS
  <2>1. Len(frames[c]) = 0 /\ pc[c] # "raise"
    BY <1>2
  <2>2. Depth(c) = Len(frames[c]) - 0
    BY <2>1, Zenon DEF Depth
  <2> QED
    BY <2>1, <2>2
<1>4. Held = {}
  BY <1>3 DEF Held
<1>5. Configured
  BY <1>2, TheContexts DEF Configured, Init
<1>6. Positioned
  <2>1. \A c \in Contexts : todo[c] \subseteq UsedBy(c)
    BY DEF Init
  <2> QED
    BY <1>2, <1>3, <2>1, TheContexts DEF Positioned
<1>7. Masked
  BY <1>2, <1>3 DEF Masked
<1>8. Raised0
  BY <1>4 DEF Raised0, MaskOf, Init
<1>9. Kept /\ LocksNeverWait
  BY <1>2, <1>3 DEF Kept, LocksNeverWait
<1> QED
  BY <1>1, <1>5, <1>6, <1>7, <1>8, <1>9 DEF IInv

(* The invariant of the runtime is inductive.                              *)
THEOREM Invariance == Spec => []IInv
<1>1. Init => IInv
  BY InitHolds
<1>2. IInv /\ [Next]_vars => IInv'
  <2> SUFFICES ASSUME IInv, [Next]_vars PROVE IInv'
    OBVIOUS
  <2>1. StackOK' /\ TypeOK' /\ Positioned'
    BY StackStep DEF StackOK
  <2>2. Configured' /\ Masked' /\ Raised0' /\ Kept' /\ LocksNeverWait'
    BY ConfiguredStep, MaskedStep, Raised0Step, KeptStep, LocksNeverWaitStep
  <2> QED
    BY <2>1, <2>2 DEF IInv
<1> QED
  BY <1>1, <1>2, PTL DEF Spec

(* Registers and stacks of frames keep their types, and registers and saved*)
(* values only the bits the part implements.                               *)
THEOREM RuntimeTypes == Spec => []TypeOK
<1>1. IInv => TypeOK
  BY DEF IInv
<1> QED
  BY <1>1, Invariance, PTL

(* The stack resource policy: once a handler is taken, every resource it   *)
(* uses is free, or held by a context above it that will end first.        *)
THEOREM NoLockWaits == Spec => []LocksNeverWait
<1>1. IInv => LocksNeverWait
  BY DEF IInv
<1> QED
  BY <1>1, Invariance, PTL

(* lock hands a resource to one context at a time, for any priorities and  *)
(* any nesting of locks, preemptions and interrupt-free sections.          *)
THEOREM LockExcludes == Spec => []MutualExclusion
<1>1. IInv => MutualExclusion
  <2> SUFFICES ASSUME IInv, NEW c \in Contexts, NEW d \in Contexts, c # d,
                      NEW r \in Inside(c), r \in Inside(d)
               PROVE  FALSE
    BY DEF MutualExclusion
  <2>1. r \in UsedBy(c) /\ r \in UsedBy(d) /\ frames[c] # <<>> /\ frames[d] # <<>>
    BY InsideForce
  <2>2. \A e \in {c, d} : e # Thread => e \in Active
    BY <2>1, TheContexts, Unpacked DEF Positioned, Active
  <2>3. PrioOf(c) \in 0 .. 255 /\ PrioOf(d) \in 0 .. 255
    BY Priorities, Unpacked
  <2>4. c # Thread => PrioOf(d) > PrioOf(c)
    BY <2>1, <2>2, Unpacked DEF LocksNeverWait
  <2>5. d # Thread => PrioOf(c) > PrioOf(d)
    BY <2>1, <2>2, Unpacked DEF LocksNeverWait
  <2>6. c = Thread => PrioOf(c) = 0
    BY DEF PrioOf
  <2>7. d = Thread => PrioOf(d) = 0
    BY DEF PrioOf
  <2>8. CASE c = Thread
    BY <2>3, <2>5, <2>6, <2>8
  <2>9. CASE c # Thread
    <3>1. PrioOf(d) > PrioOf(c)
      BY <2>4, <2>9
    <3>2. d # Thread
      BY <2>3, <2>7, <3>1
    <3>3. PrioOf(c) > PrioOf(d)
      BY <2>5, <3>2
    <3>4. \A x, y \in 0 .. 255 : x > y => ~ (y > x)
      OBVIOUS
    <3> QED
      BY <2>3, <3>1, <3>3, <3>4, Zenon
  <2> QED
    BY <2>8, <2>9
<1> QED
  BY <1>1, Invariance, PTL

(* Interrupts are masked in every interrupt-free section and every lock of *)
(* the highest ceiling, however they are nested.                           *)
THEOREM SectionsMask == Spec => []MaskedInside
<1>1. IInv => MaskedInside
  <2> SUFFICES ASSUME IInv, ~ primask PROVE MaskedInside
    BY DEF MaskedInside
  <2>1. \A c \in Contexts : \A i \in 1 .. Depth(c) :
          frames[c][i].of # Section /\ ~ ByPrimask(frames[c][i].of)
    BY Unpacked DEF Masked, MasksAll
  <2>2. ASSUME NEW c \in Contexts, NEW i \in 1 .. Len(frames[c]) PROVE frames[c][i].of # Section
    <3>1. CASE i <= Depth(c)
      BY <2>1, <3>1, DepthType, Unpacked
    <3>2. CASE ~ (i <= Depth(c))
      <4>1. i = Len(frames[c]) /\ pc[c] = "raise"
        BY <3>2, DepthType, Unpacked
      <4>2. Top(c).of # Section /\ frames[c] # <<>>
        BY <4>1, Unpacked DEF Positioned
      <4> QED
        BY <4>1, <4>2, TopType, Unpacked
    <3> QED
      BY <3>1, <3>2
  <2>3. \A r \in AllInside : ~ ByPrimask(r)
    BY <2>1, InsideForce DEF AllInside
  <2> QED
    BY <2>2, <2>3 DEF MaskedInside
<1> QED
  BY <1>1, Invariance, PTL

(* BASEPRI is the system ceiling, whatever was locked, preempted between   *)
(* the read and the write of lock, and unlocked on the way.                *)
THEOREM BasepriIsCeiling == Spec => []SystemCeiling
<1>1. IInv => SystemCeiling
  <2> SUFFICES ASSUME IInv PROVE SystemCeiling
    OBVIOUS
  <2> DEFINE held == {Ceiling(r) : r \in {s \in AllInside : ~ ByPrimask(s)}}
  <2>1. \A n \in Held : n \in held /\ n > 0 /\ n \in 0 .. 255
    <3> SUFFICES ASSUME NEW n \in Held PROVE n \in held /\ n > 0 /\ n \in 0 .. 255
      OBVIOUS
    <3>1. PICK c \in Contexts : \E j \in 1 .. Depth(c) :
            Raises(frames[c][j]) /\ n = Ceiling(frames[c][j].of)
      BY DEF Held
    <3>2. PICK j \in 1 .. Depth(c) : Raises(frames[c][j]) /\ n = Ceiling(frames[c][j].of)
      BY <3>1
    <3>3. frames[c][j].of \in Inside(c)
      BY <3>2 DEF Inside, Depth, Raises
    <3>4. frames[c][j].of \in AllInside /\ ~ ByPrimask(frames[c][j].of)
      BY <3>2, <3>3 DEF AllInside, Raises
    <3> QED
      BY <3>2, <3>4 DEF Held, Raises
  <2>2. \A n \in held : n \in 0 .. 255 /\ (n > 0 => n \in Held)
    <3> SUFFICES ASSUME NEW c \in Contexts, NEW r \in Inside(c), ~ ByPrimask(r)
                 PROVE  Ceiling(r) \in 0 .. 255 /\ (Ceiling(r) > 0 => Ceiling(r) \in Held)
      BY DEF AllInside
    <3>1. PICK i \in 1 .. Depth(c) : frames[c][i].of = r
      BY InsideForce
    <3>2. r \in Resources /\ r # Section
      BY InsideForce
    <3>3. Ceiling(r) \in 0 .. 255
      BY <3>2, CeilingMax, Unpacked
    <3> QED
      BY <3>1, <3>2, <3>3 DEF Held, Raises
  <2>3. MaskOf(basepri, Held)
    BY Unpacked DEF Raised0
  <2>4. basepri = IF held = {} THEN 0 ELSE Logical2Hw(Max(held))
    <3> HIDE DEF held
    <3>1. held \subseteq 0 .. 255
      BY <2>2
    <3>2. held # {} => Max(held) \in held /\ \A n \in held : n <= Max(held)
      BY <3>1, LargestExists
    <3>3. CASE Held = {} /\ basepri = 0
      <4>1. held # {} => Max(held) = 0
        BY <2>2, <3>2, <3>3
      <4> QED
        BY <3>3, <4>1, HwPriorities
    <3>4. CASE \E n \in Held : basepri = Logical2Hw(n) /\ \A m \in Held : m <= n
      <4>1. PICK n \in Held : basepri = Logical2Hw(n) /\ \A m \in Held : m <= n
        BY <3>4
      <4>2. n \in held /\ n > 0 /\ n \in 0 .. 255
        BY <2>1
      <4>3. Max(held) \in held /\ n <= Max(held) /\ Max(held) \in 0 .. 255
        BY <3>1, <3>2, <4>2
      <4>4. Max(held) \in Held
        BY <2>2, <4>2, <4>3
      <4>5. Max(held) <= n
        BY <4>1, <4>4
      <4>6. Max(held) = n
        BY <4>2, <4>3, <4>5
      <4> QED
        BY <4>1, <4>2, <4>6
    <3> QED
      BY <2>3, <3>3, <3>4 DEF MaskOf
  <2> QED
    BY <2>4 DEF SystemCeiling
<1> QED
  BY <1>1, Invariance, PTL

(* "If the priority of this interrupt is `1` then BASEPRI can only be `0`".*)
THEOREM PriorityOneLeavesZero == Spec => []PriorityOneFindsZero
<1>1. IInv => PriorityOneFindsZero
  <2> SUFFICES ASSUME IInv, NEW h \in Handlers, prio[h] = 1, At(h, "entry") PROVE basepri = 0
    BY DEF PriorityOneFindsZero
  <2>1. Held = HeldBeneath(h, 1) /\ h \in Active
    BY HandlerHeld
  <2>2. HeldBeneath(h, 1) = {}
    BY <2>1, Unpacked DEF Kept
  <2> QED
    BY <2>1, <2>2, Unpacked DEF Raised0, MaskOf
<1> QED
  BY <1>1, Invariance, PTL

(* No handler runs before post_init has configured every interrupt.        *)
THEOREM ConfiguredBeforeHandlers == Spec => []ConfiguredFirst
<1>1. IInv => ConfiguredFirst
  <2> SUFFICES ASSUME IInv, Active # {} PROVE ConfiguredFirst
    BY DEF ConfiguredFirst
  <2>1. Started
    BY Unpacked DEF Configured
  <2>2. \A h \in Handlers : enabled[h] /\ hwPrio[h] = Logical2Hw(prio[h])
    BY <2>1, Unpacked DEF Configured
  <2> QED
    BY <2>1, <2>2 DEF ConfiguredFirst, Started
<1> QED
  BY <1>1, Invariance, PTL
=============================================================================
