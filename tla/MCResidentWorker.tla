-------------------------- MODULE MCResidentWorker --------------------------
(* ResidentWorker with three requests, two of them for the same track: one  *)
(* may time out or leave, one follow, one ask for the other track.          *)
EXTENDS ResidentWorker, TLC

CONSTANTS r1, r2, r3, t1, t2

MCRequests == {r1, r2, r3}
MCTracks == {t1, t2}
MCWanted == (r1 :> t1) @@ (r2 :> t1) @@ (r3 :> t2)
=============================================================================
