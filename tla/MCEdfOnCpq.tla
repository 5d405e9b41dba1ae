----------------------------- MODULE MCEdfOnCpq -----------------------------
(* A small application on the real queue. *)
EXTENDS EdfOnCpq, TLC

CONSTANTS a, b, c, d

(* Three levels, two tasks of one deadline. *)
RelFour  == a :> 1 @@ b :> 2 @@ c :> 2 @@ d :> 3
PrioFour == a :> 3 @@ b :> 2 @@ c :> 2 @@ d :> 1

VectorsFour    == a :> 1 @@ b :> 2 @@ c :> 3 @@ d :> 4
VectorsFourRev == a :> 4 @@ b :> 3 @@ c :> 2 @@ d :> 1
=============================================================================
