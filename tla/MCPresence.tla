----------------------------- MODULE MCPresence -----------------------------
(* A user with two devices and one with one. *)
EXTENDS Presence, TLC

CONSTANTS u1, u2, k1, k2, k3

Owners == k1 :> u1 @@ k2 :> u1 @@ k3 :> u2
Devices == Permutations({k1, k2})
=============================================================================
