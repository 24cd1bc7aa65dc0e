--------------------------- MODULE MCPeerTransfer ---------------------------
(* Two lookups of two chunks each, over the channels in their modes. *)
EXTENDS PeerTransfer

MCLookups == {1, 2}
MCSetups == {<<"push", "hccl">>, <<"eager", "hixl">>, <<"delay", "hcomm">>}
MCFound == [push |-> {0, 1}, eager |-> {1}, delay |-> {2}]
MCHixlDelay == {<<"delay", "hixl">>}

=============================================================================
