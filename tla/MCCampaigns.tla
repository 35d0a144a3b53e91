----------------------------- MODULE MCCampaigns -----------------------------
(* A small campaign. *)
EXTENDS Campaigns, TLC

CONSTANTS u1, u2, u3, c1

Owners == c1 :> u2
=============================================================================
