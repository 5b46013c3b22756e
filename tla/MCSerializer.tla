----------------------------- MODULE MCSerializer -----------------------------
(* An instance of Serializer for TLC: of three arrays, the first has up to   *)
(* two items, the second up to four, the third one at most.                  *)
EXTENDS Serializer

CONSTANT x

ItemsOf(a) == [named : BOOLEAN, value : Plain \cup (a + 1)..3]
UpTo(n, S) == UNION {[1..k -> S] : k \in 0..n}
SmallHeaps ==
  {<<f, g, h>> : f \in UpTo(2, ItemsOf(1)), g \in UpTo(4, ItemsOf(2)), h \in UpTo(1, ItemsOf(3))}
=============================================================================
