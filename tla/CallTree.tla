------------------------------ MODULE CallTree ------------------------------
(***************************************************************************)
(* What the collector promises: while profiling is on, a tree of calls in  *)
(* which a new call is a child of the innermost open one, calls close from *)
(* the innermost outwards, and operations outside any call get a node that *)
(* stays open.  Switching profiling on starts a new tree.                  *)
(***************************************************************************)
EXTENDS Naturals, Sequences

VARIABLES
  nodes,  \* the tree, oldest node first: [parent: position or 0, open: BOOLEAN]
  on      \* whether profiling is on

vars == <<nodes, on>>

Opened(t) == {i \in DOMAIN t : t[i].open}

\* The innermost open node of t is the newest one; 0 when there is none.
IsInnermost(t, p) ==
  /\ p \in Opened(t) \cup {0}
  /\ \A i \in Opened(t) : i <= p

AddTo(t, p) == Append(t, [parent |-> p, open |-> TRUE])
Close(t, p) == [t EXCEPT ![p].open = FALSE]

Init == nodes = <<>> /\ on = FALSE

\* A call begins, or operations outside any call need a node.
Enter ==
  /\ on
  /\ \E p \in DOMAIN nodes \cup {0} : IsInnermost(nodes, p) /\ nodes' = AddTo(nodes, p)
  /\ UNCHANGED on

\* A call ends.
Leave ==
  /\ on
  /\ \E p \in DOMAIN nodes : IsInnermost(nodes, p) /\ nodes' = Close(nodes, p)
  /\ UNCHANGED on

\* The outermost call ends and its operations need a node.
LeaveAndHold ==
  /\ on
  /\ \E p \in DOMAIN nodes :
       /\ IsInnermost(nodes, p)
       /\ Opened(nodes) = {p}
       /\ nodes' = AddTo(Close(nodes, p), 0)
  /\ UNCHANGED on

\* Profiling is switched on (also when it is on), or off, or a request ends.
Restart == nodes' = <<>> /\ on' \in BOOLEAN
Stop    == on' = FALSE /\ UNCHANGED nodes

Next == Enter \/ Leave \/ LeaveAndHold \/ Restart \/ Stop

Spec == Init /\ [][Next]_vars
----------------------------------------------------------------------------
\* The shape of the tree.
TypeOK ==
  /\ nodes \in Seq([parent : Nat, open : BOOLEAN])
  /\ on \in BOOLEAN

\* A call is younger than its parent and never outlives it.
WellNested ==
  \A i \in DOMAIN nodes :
    nodes[i].parent # 0 =>
      /\ nodes[i].parent \in DOMAIN nodes
      /\ nodes[i].parent < i
      /\ nodes[i].open => nodes[nodes[i].parent].open
=============================================================================
