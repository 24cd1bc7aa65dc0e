------------------------- MODULE MCCheckpointWorker -------------------------
(* Two generations of one request and a restore attempt of the first. *)
EXTENDS CheckpointWorker, TLC

CONSTANTS k1, k2, l1

MCRequests == {{k1, k2}}
MCKeyOf == l1 :> k1

=============================================================================
