------------------------------ MODULE MCSessions ------------------------------
(* A user with two sessions and two connections. *)
EXTENDS Sessions

CONSTANTS u1, s1, s2

Owners == [s \in Session |-> u1]
=============================================================================
