---- MODULE MCRecordingCapture ----
(* Small instances of RecordingCapture: who publishes which track, and which calls may go wrong. *)
EXTENDS RecordingCapture, TLC

CONSTANTS u1, t1, t2

\* One player, with one track, or with one that is published again under a new sid.
OneTrack  == t1 :> u1
TwoTracks == t1 :> u1 @@ t2 :> u1

\* LiveKit refuses a call, or does not finish a file in time.
Refusals == ({"start", "stop", "list", "result"} \X {"rejected"}) \cup {<<"result", "slow">>}

\* Everything that may go wrong with an awaited call, and an egress that breaks.
AllFaults ==
  Refusals \cup ({"db"} \X {"rejected", "lost"}) \cup {<<"start", "lost">>, <<"egress", "failed">>}
=============================================================================
