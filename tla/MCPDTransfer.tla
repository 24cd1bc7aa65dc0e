---------------------------- MODULE MCPDTransfer ----------------------------
(* Put tasks with chunks in common, of one prefiller or of two. *)
EXTENDS PDTransfer, TLC

CONSTANTS s1, s2, t1, t2, t3, k1, k2

MCThreeKeys == t1 :> {k1, k2} @@ t2 :> {k1} @@ t3 :> {k2}
MCThreeOfTwo == t1 :> s1 @@ t2 :> s1 @@ t3 :> s2

MCAllFaults == [push |-> {"alloc", "transfer"}, eager |-> {"alloc", "transfer", "lost", "ttl"},
                delay |-> {"ttl"}]
=============================================================================
