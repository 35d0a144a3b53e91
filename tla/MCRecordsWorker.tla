--------------------------- MODULE MCRecordsWorker ---------------------------
(* Small instances of RecordsWorker. *)
EXTENDS RecordsWorker

CONSTANTS w1, w2, t1, t2, p1

NoFaults == {}
AllFaults == Models \cup {<<"db", "rejected">>, <<"db", "lost">>, <<"heartbeat", "rejected">>,
                          <<"command", "rejected">>}
=============================================================================
