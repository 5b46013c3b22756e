-------------------------- MODULE MCSpanExpansion --------------------------
(* Instances of SpanExpansion: the bounds are in the configurations.  A     *)
(* limit of one millisecond separates a node that has not ended from a     *)
(* slow one, as ten do.                                                    *)
EXTENDS SpanExpansion
=============================================================================
