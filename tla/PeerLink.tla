------------------------------ MODULE PeerLink ------------------------------
(***************************************************************************)
(* How one peer's transfer channel connects to another's,                  *)
(* lmcache_ascend/v1/transfer_channel: async_lazy_init_peer_connection on  *)
(* the client's loop, _handle_init_msg on the server's init socket and the *)
(* thread the server starts to accept.  "hccl" goes from connecting        *)
(* straight to the exchange of memory handles; "hixl" and "hcomm" first    *)
(* ask whether the server's thread is ready; "hcomm" keeps a connection    *)
(* it has.                                                                 *)
(***************************************************************************)
EXTENDS Integers

VARIABLES
  channel,    \* config.transfer_channel: hccl, hixl, hcomm
  link,       \* the client: down, init, connect, ready, mem, up, raised; or stuck:
              \* it waits for an answer the server will never send
  cpeer,      \* the server is in the client's table of peers
  speer,      \* the client is in the server's
  accepting   \* the server's handshake thread runs

linkVars == <<link, cpeer, speer, accepting>>

LinkInit ==
  /\ link = "down" /\ cpeer = FALSE /\ speer = FALSE /\ accepting = FALSE

\* _ensure_peer_connection begins a handshake.
Dialling == link' = "init"

-----------------------------------------------------------------------------
(* The init request: the server answers once its thread has started. *)

HcclInit == channel = "hccl" /\ link' = "connect" /\ accepting' = TRUE /\ UNCHANGED speer

HixlInit == channel = "hixl" /\ link' = "connect" /\ accepting' = TRUE /\ UNCHANGED speer

\* A client that has the peer only asks for its lookup address.
HcommKnown == channel = "hcomm" /\ cpeer /\ link' = "up" /\ UNCHANGED <<speer, accepting>>

\* What the server has of an earlier connection is dropped first.
HcommInit ==
  channel = "hcomm" /\ ~cpeer /\ link' = "connect" /\ accepting' = TRUE /\ speer' = FALSE

InitRequest ==
  /\ link = "init"
  /\ HcclInit \/ HixlInit \/ HcommKnown \/ HcommInit
  /\ UNCHANGED <<channel, cpeer>>

-----------------------------------------------------------------------------
(* Both sides connect. *)

\* complete_handshake, complete_connection, _setup_server_comm: the server's thread
\* enters the connection in the table, or logs its failure.
Accepted(fails) ==
  /\ accepting
  /\ accepting' = FALSE
  /\ speer' = (IF fails THEN speer ELSE TRUE)
  /\ UNCHANGED <<channel, link, cpeer>>

HcclAfter == channel = "hccl" /\ link' = "mem"
HixlAfter == channel = "hixl" /\ link' = "ready"
HcommAfter == channel = "hcomm" /\ link' = "ready"

\* The client's own connect, and the request it sends next.
Connected(fails) ==
  /\ link = "connect"
  /\ IF fails THEN link' = "raised" ELSE HcclAfter \/ HixlAfter \/ HcommAfter
  /\ cpeer' = (IF fails THEN cpeer ELSE TRUE)
  /\ UNCHANGED <<channel, speer, accepting>>

-----------------------------------------------------------------------------
(* Is the server ready?  It polls its table for 120 s, longer than its thread may take. *)

HixlReady == channel = "hixl" /\ link' = IF speer THEN "mem" ELSE "raised"
HcommReady == channel = "hcomm" /\ link' = IF speer THEN "up" ELSE "raised"

ReadyRequest ==
  /\ link = "ready" /\ (speer \/ ~accepting)
  /\ HixlReady \/ HcommReady
  /\ UNCHANGED <<channel, cpeer, speer, accepting>>

-----------------------------------------------------------------------------
(* The memory handles *)

\* The asynchronous init loop of hccl logs what its handler raises and sends nothing;
\* the client's socket has no timeout.
HcclNoAnswer == link' = "stuck"

\* The handler looks the connection up, which the thread may not have entered yet.
HcclMem == channel = "hccl" /\ IF speer THEN link' = "up" ELSE HcclNoAnswer

HixlMem == channel = "hixl" /\ link' = "up"

MemRequest ==
  /\ link = "mem"
  /\ HcclMem \/ HixlMem
  /\ UNCHANGED <<channel, cpeer, speer, accepting>>

LinkStep == InitRequest \/ ReadyRequest \/ MemRequest

=============================================================================
