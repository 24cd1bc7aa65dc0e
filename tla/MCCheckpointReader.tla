------------------------- MODULE MCCheckpointReader -------------------------
(* One publication of two windows, read while it is spilled and evicted. *)
EXTENDS CheckpointReader, TLC

CONSTANTS r1, a1, a2, b1, b2, i1

MCIdOf == r1 :> i1
MCRequests == {{i1}}
MCUnits == (a1 :> {1}) @@ (a2 :> {2}) @@ (b1 :> {3}) @@ (b2 :> {4})
MCSource == r1 :> (0 :> <<a1, a2>> @@ 1 :> <<b1, b2>>)
MCPrefix == r1 :> {}

=============================================================================
