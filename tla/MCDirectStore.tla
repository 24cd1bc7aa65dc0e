--------------------------- MODULE MCDirectStore ---------------------------
(* Requests that fill the decoder's cache: one that computes its prompt, one the
   tail of which is missing for both groups, for one, or for none; one that offers
   its live pages; a plain one with a tail, which the store worker may serve, and
   one whose later steps address their own pages only. *)
EXTENDS DirectStore, TLC

CONSTANTS f, u, l, p, q

MCPrompt == f :> 3 @@ u :> 2 @@ l :> 3 @@ p :> 2 @@ q :> 2
MCFull == f :> 2 @@ u :> 1 @@ l :> 2 @@ p :> 1 @@ q :> 2
MCPrior == f :> 1 @@ u :> 1 @@ l :> 0 @@ p :> 0 @@ q :> 0
MCBases == f :> {0, 1} @@ u :> {1, 2} @@ l :> {0} @@ p :> {0, 1} @@ q :> {0, 1}
MCMode == f :> "remote" @@ u :> "remote" @@ l :> "live" @@ p :> "plain" @@ q :> "plain"
Alone(r, found, spent, calls) == [active |-> {r}, found |-> found, faults |-> spent, stores |-> calls]
MCScenarios ==
  {Alone(u, found, 0, 2) : found \in {{}, {<<0, 2>>}, {<<1, 2>>}, {<<0, 2>>, <<1, 2>>}}}
  \cup {Alone(f, {}, 1, 2), Alone(l, {}, 1, 2), Alone(p, {}, 0, 2), Alone(p, {}, 1, 1), Alone(q, {}, 1, 2)}
MCPlain == {Alone(p, {}, 0, 2)}
=============================================================================
