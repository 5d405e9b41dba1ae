----------------------------- MODULE MCEdfPass -----------------------------
(* Applications of up to three tasks by hand, of up to five generated ones *)
(* on devices of eleven, nine and five interrupts; a u16 reaches up to 3.  *)
EXTENDS BenchmarkApp, TLC

CONSTANTS A, B, C, D, E, F, G, H, I, J, K

Sources == {<<A, B, C, D, E, F, G, H, I, J, K>>, <<A, B, C, D, E, F, G, H, I>>, <<A, B, C, D, E>>}
=============================================================================
