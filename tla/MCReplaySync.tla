---------------------------- MODULE MCReplaySync ----------------------------
(* Small instances of ReplaySync. *)
EXTENDS ReplaySync

CONSTANTS c1, c2

\* How much goes wrong: handlers interleave less when the buffer is in memory.
Mishaps == [s \in BOOLEAN |-> IF s THEN 1 ELSE 2]
Trouble == [s \in BOOLEAN |-> 3]
=============================================================================
