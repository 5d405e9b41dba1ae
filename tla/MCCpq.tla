------------------------------- MODULE MCCpq -------------------------------
(* A small queue for the model checker: two of its items compare equal.    *)
EXTENDS Cpq, TLC

CONSTANTS w, x, y, z

KeysTied == w :> 1 @@ x :> 1 @@ y :> 2 @@ z :> 3
KeysDistinct == x :> 1 @@ y :> 2 @@ z :> 3
=============================================================================
