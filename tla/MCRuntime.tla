------------------------------ MODULE MCRuntime ------------------------------
(* Three handlers over an idle task, on a part with four priorities.       *)
EXTENDS RuntimeInv, TLC

CONSTANTS low, mid, top, idle, uart, gpio, log

(* low and mid stand for dispatchers, top for a timestamper; dispatchers   *)
(* that share a level; a priority more than the part has.                  *)
Apps == {low :> 1 @@ mid :> 2 @@ top :> 4,
         low :> 2 @@ mid :> 2 @@ top :> 3,
         low :> 1 @@ mid :> 2 @@ top :> 5}
Vectors == low :> 1 @@ mid :> 2 @@ top :> 3

(* uart is locked at the level of mid, log at that of low, gpio by masking*)
(* all interrupts.                                                         *)
Shared == uart :> {idle, low, mid} @@ log :> {idle, low} @@ gpio :> {low, top}
=============================================================================
