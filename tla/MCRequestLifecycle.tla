------------------------- MODULE MCRequestLifecycle -------------------------
(* Instances of RequestLifecycle for TLC. *)
EXTENDS RequestLifecycle

CONSTANTS t1, agent, ip, zero

\* Agents at equal ports, one given by address and one by name.
At1(host) == [host |-> host, port |-> 1, colon |-> TRUE]
Agents    == {At1(ip), At1(agent)}
=============================================================================
