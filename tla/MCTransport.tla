--------------------------- MODULE MCTransport ---------------------------
(* Instances of Transport for TLC. *)
EXTENDS Transport

CONSTANTS t1, t2, agent, ip, zero

ByName      == [host |-> agent, port |-> 1, colon |-> TRUE]
Unreachable == [host |-> zero, port |-> 2, colon |-> TRUE]
TwoAgents   == {ByName, Unreachable}
=============================================================================
