---------------------------- MODULE MCRemoteFill ----------------------------
(* A transfer that repairs its prefix and then pushes a suffix of two windows,
   alone with three adverse events; and two transfers of the same page, one
   after a probe of another page, without any. *)
EXTENDS RemoteFillCoordinator, TLC

CONSTANTS q1, q2, q3, k1, k2

MCPages == q1 :> <<{k1}, {k2}>> @@ q2 :> <<{k2}, {k1}>> @@ q3 :> <<{k1}>>
MCBatches == q1 :> <<[kind |-> "prefix", from |-> 1, to |-> 1], [kind |-> "push", from |-> 2, to |-> 2]>>
          @@ q2 :> <<[kind |-> "probe", from |-> 1, to |-> 1], [kind |-> "push", from |-> 2, to |-> 2]>>
          @@ q3 :> <<[kind |-> "push", from |-> 1, to |-> 1]>>
MCScenarios == {[active |-> {q1}, spent |-> 0], [active |-> {q2, q3}, spent |-> 3]}

=============================================================================
