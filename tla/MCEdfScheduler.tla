--------------------------- MODULE MCEdfScheduler ---------------------------
(* Small applications for the model checker. *)
EXTENDS EdfRefinement, TLC

CONSTANTS a, b, c, d

(* Two tasks of one deadline and a slower one. *)
RelPair == a :> 2 @@ b :> 2 @@ c :> 3
PrioPair == a :> 2 @@ b :> 2 @@ c :> 1

(* Three levels, and enough tasks for one exit to preempt the pop of       *)
(* another and take its job.                                               *)
RelFour  == a :> 1 @@ b :> 2 @@ c :> 2 @@ d :> 3
PrioFour == a :> 3 @@ b :> 2 @@ c :> 2 @@ d :> 1

(* Vector numbers in the order of the declarations, and against it. *)
Vectors    == a :> 1 @@ b :> 2 @@ c :> 3
VectorsRev == a :> 3 @@ b :> 2 @@ c :> 1

VectorsFour    == a :> 1 @@ b :> 2 @@ c :> 3 @@ d :> 4
VectorsFourRev == a :> 4 @@ b :> 3 @@ c :> 2 @@ d :> 1
=============================================================================
