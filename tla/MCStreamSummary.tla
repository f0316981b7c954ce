-------------------------- MODULE MCStreamSummary --------------------------
(* Small instances of StreamSummary for TLC.                               *)
EXTENDS StreamSummary, TLC

CONSTANTS k1, k2, k3, k4, k5
=============================================================================
