--------------------------- MODULE MCManualSpans ---------------------------
(* Instances of ManualSpans for TLC. *)
EXTENDS ManualSpans, TLC

CONSTANTS t1, t2, k1, v1, v2

Symmetric == Permutations(Thread)
=============================================================================
