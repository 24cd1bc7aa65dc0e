----------------------- MODULE MCCheckpointWriteback -----------------------
(* Two publications of one request that share the page of group 0. *)
EXTENDS CheckpointWriteback, TLC

CONSTANTS r1, r2, a0, a1, b1, i1, i2

MCSameId == (r1 :> i1) @@ (r2 :> i1)
MCOneRequest == {{i1}}
MCUnits == (a0 :> {1, 2}) @@ (a1 :> {3}) @@ (b1 :> {4})
MCSource == (r1 :> (0 :> <<a0>> @@ 1 :> <<a1>>)) @@ (r2 :> (0 :> <<a0>> @@ 1 :> <<b1>>))
MCPrefix == (r1 :> {}) @@ (r2 :> {a0})

\* One publication alone.
MCIdOne == r1 :> i1
MCSourceOne == r1 :> (0 :> <<a0>> @@ 1 :> <<a1>>)
MCPrefixOne == r1 :> {}
MCUnitsOne == (a0 :> {1, 2}) @@ (a1 :> {3})

=============================================================================
