---------------------------- MODULE PeerTransfer ----------------------------
(***************************************************************************)
(* lmcache_ascend/v1/storage_backend/p2p_backend.py: one peer asks another *)
(* for the chunks of a lookup.  In push mode the server writes them into   *)
(* the client's pages; in pull mode it pins its own pages under the lookup *)
(* id and the client reads them at once ("eager") or through proxies when  *)
(* a request needs them ("delay"), then sends a Done.  The client's        *)
(* lookups are coroutines that share one socket; on the server the request *)
(* handler, the done handler and the sweep run on one loop.  The channels' *)
(* handshake is PeerLink, the load of proxies PullPipeline.                *)
(***************************************************************************)
EXTENDS PeerLink, PullPipeline, FiniteSets

CONSTANTS
  Lookups,    \* calls of batched_get_non_blocking, numbered as a request has their chunks
  Chunks,     \* keys of a lookup
  Found,      \* Found[m]: how many of them the server may have, in mode m
  Setups,     \* pairs <<mode, channel>>; mode is push, eager or delay
  MaxTries,   \* p2p_max_retry_count
  MaxFaults,  \* timeouts, losses, failures and restarts in a behaviour
  None

ASSUME PeerAssumption ==
  /\ Lookups \subseteq Nat /\ IsFiniteSet(Lookups) /\ None \notin Lookups
  /\ Chunks \in Nat \ {0}
  /\ Found \in [{"push", "eager", "delay"} -> SUBSET (0..Chunks)]
  /\ MaxTries \in Nat \ {0} /\ MaxFaults \in Nat
  /\ Setups \subseteq {"push", "eager", "delay"} \X {"hccl", "hixl", "hcomm"}

VARIABLES
  mode,
  faults,
  st,       \* of a lookup: new, send, wait, timedout, refused, read, done, failed,
            \* proxies, load, returned, gaveup, raised
  tries,    \* requests it has sent
  bufs,     \* pages the client holds for it
  hits,     \* num_hit_chunks of the answer it got
  reqs,     \* <<l, n>>: n-th requests of lookups, at the server's socket
  answer,   \* the answer on its way: [to, try, kind, hits]
  srv,      \* the request handler: [pc, lookup, try, hits]
  holds,    \* holds[l]: how often the server's pages for l are referenced and pinned
  pending,  \* lookups in pending_pull_resources
  dones,    \* dones[l]: Done signals at the server's done socket
  lapsed    \* lookups whose pages the server dropped without a Done: sweep, restart

clientVars == <<st, tries, bufs, hits>>
netVars == <<reqs, answer, dones>>
serverVars == <<srv, holds, pending, lapsed>>
vars == <<channel, mode, faults, linkVars, clientVars, netVars, serverVars, pipeVars>>

SrvIdle == [pc |-> "idle", lookup |-> None, try |-> 0, hits |-> 0]
NoAnswer == [to |-> None, try |-> 0, kind |-> "none", hits |-> 0]

Fault == faults < MaxFaults /\ faults' = faults + 1
Perhaps(fails) == IF fails THEN Fault ELSE UNCHANGED faults

Go(l, where) == st' = [st EXCEPT ![l] = where]
Keep(l, n) == bufs' = [bufs EXCEPT ![l] = n]
Streamed == channel # "hixl"

\* A lookup inside the exchange holds lookup_lock.
Exchanging(l) == st[l] \in {"wait", "timedout", "refused"}

-----------------------------------------------------------------------------
(* The handshake *)

\* The first connection, made when a lookup is routed to the peer.
Connect ==
  /\ link = "down"
  /\ Dialling
  /\ UNCHANGED <<channel, mode, faults, cpeer, speer, accepting, clientVars, netVars, serverVars,
                 pipeVars>>

Handshake ==
  /\ \/ LinkStep /\ UNCHANGED faults
     \/ \E fails \in BOOLEAN : (Accepted(fails) \/ Connected(fails)) /\ Perhaps(fails)
  /\ UNCHANGED <<mode, clientVars, netVars, serverVars, pipeVars>>

\* A handshake no lookup waits for raised: the peer is tried again later.
ConnectRaised ==
  /\ link = "raised" /\ \A l \in Lookups : ~Exchanging(l)
  /\ link' = "down"
  /\ UNCHANGED <<channel, mode, faults, cpeer, speer, accepting, clientVars, netVars, serverVars,
                 pipeVars>>

-----------------------------------------------------------------------------
(* The client: batched_get_non_blocking *)

\* Pages for all keys, or none; proxies need none.
Start(l) ==
  /\ st[l] = "new" /\ link = "up"
  /\ \/ /\ Go(l, "send") /\ Keep(l, IF mode = "delay" THEN 0 ELSE Chunks)
        /\ UNCHANGED faults
     \/ /\ mode # "delay" /\ Fault
        /\ Go(l, "gaveup") /\ UNCHANGED bufs
  /\ UNCHANGED <<channel, mode, linkVars, tries, hits, netVars, serverVars, pipeVars>>

Send(l) ==
  /\ st[l] = "send" /\ \A o \in Lookups : ~Exchanging(o)
  /\ Go(l, "wait")
  /\ tries' = [tries EXCEPT ![l] = @ + 1]
  /\ reqs' = reqs \cup {<<l, tries[l] + 1>>}
  /\ UNCHANGED <<channel, mode, faults, linkVars, bufs, hits, answer, dones, serverVars, pipeVars>>

\* Nothing will answer the request: it or its answer is gone.
Lost(l) ==
  <<l, tries[l]>> \notin reqs \cup {<<srv.lookup, srv.try>>, <<answer.to, answer.try>>}

\* The socket timed out: the peer is connected anew, whatever became of the request.
TimesOut(l) ==
  /\ st[l] = "wait" /\ Perhaps(~Lost(l))
  /\ Go(l, "timedout") /\ Dialling
  /\ \E lost \in BOOLEAN : reqs' = IF lost THEN reqs \ {<<l, tries[l]>>} ELSE reqs
  /\ answer' = NoAnswer
  /\ UNCHANGED <<channel, mode, cpeer, speer, accepting, tries, bufs, hits, dones, serverVars,
                 pipeVars>>

\* After the new connection the request is sent again, or the lookup gives up.  A
\* handshake that raises leaves through the handler of the socket error and the pages
\* stay allocated; on the other path it is caught.
Reconnected(l) ==
  /\ st[l] \in {"timedout", "refused"} /\ link \in {"up", "raised"}
  /\ \/ /\ link = "up" /\ tries[l] < MaxTries
        /\ Go(l, "send") /\ UNCHANGED bufs
     \/ /\ link = "raised" /\ st[l] = "timedout"
        /\ Go(l, "raised") /\ UNCHANGED bufs
     \/ /\ IF link = "up" THEN tries[l] = MaxTries ELSE st[l] = "refused"
        /\ Go(l, "gaveup") /\ Keep(l, 0)
  /\ link' = (IF link = "raised" THEN "down" ELSE link)
  /\ UNCHANGED <<channel, mode, faults, cpeer, speer, accepting, tries, hits, netVars, serverVars,
                 pipeVars>>

\* Mutant: pages of chunks the peer does not have stay allocated.
KeepTail(l, n) == UNCHANGED bufs

\* release_memory_objects(mem_objs[num_hit_chunks:])
Trim(l, n) == Keep(l, n)

\* Where the answer leads.
Arrived(l) ==
  LET n == answer.hits
  IN  /\ st[l] = "wait" /\ answer.to = l /\ answer.try = tries[l]
      /\ answer' = NoAnswer
      /\ hits' = [hits EXCEPT ![l] = n]
      /\ \/ /\ answer.kind = "unknown"
            /\ Go(l, "refused") /\ Dialling /\ UNCHANGED bufs
         \/ /\ answer.kind = "error"
            /\ Go(l, "gaveup") /\ Keep(l, 0) /\ UNCHANGED link
         \/ /\ answer.kind = "ok" /\ (mode = "push" \/ n = 0)
            /\ Go(l, "returned") /\ Trim(l, n) /\ UNCHANGED link
         \/ /\ answer.kind = "ok" /\ mode # "push" /\ n > 0
            /\ Go(l, IF mode = "eager" THEN "read" ELSE "proxies")
            /\ UNCHANGED <<bufs, link>>
      /\ UNCHANGED <<channel, mode, faults, cpeer, speer, accepting, tries, reqs, dones,
                     serverVars, pipeVars>>

\* _handle_pull_mode_transfer: the read ends, well or not.
ReadEnd(l) ==
  /\ st[l] = "read"
  /\ \/ Go(l, "done") /\ UNCHANGED faults
     \/ Go(l, "failed") /\ Fault
  /\ UNCHANGED <<channel, mode, linkVars, tries, bufs, hits, netVars, serverVars, pipeVars>>

\* _send_done_signal: the signal arrives, or is lost after all attempts, or a lost
\* acknowledgement makes it arrive twice.
SendDone(l) ==
  \E n \in 0..2 : Perhaps(n # 1) /\ dones' = [dones EXCEPT ![l] = @ + n]

\* _ensure_done_peer_connection(force): after a socket error, with the signal
\* arrived or not, the reconnection raises inside the handler of that error and
\* leaves with the pages still allocated.
DoneRaises(l) ==
  /\ Fault /\ Go(l, "raised") /\ UNCHANGED bufs
  /\ \E n \in 0..1 : dones' = [dones EXCEPT ![l] = @ + n]

\* The Done is sent whether or not the read succeeded.
Finish(l) ==
  /\ st[l] \in {"done", "failed"}
  /\ \/ /\ SendDone(l)
        /\ IF st[l] = "done" THEN Go(l, "returned") /\ Trim(l, hits[l])
           ELSE Go(l, "gaveup") /\ Keep(l, 0)
     \/ DoneRaises(l)
  /\ UNCHANGED <<channel, mode, linkVars, tries, hits, reqs, answer, serverVars, pipeVars>>

ClientStep(l) ==
  Send(l) \/ TimesOut(l) \/ Reconnected(l) \/ Arrived(l) \/ ReadEnd(l) \/ Finish(l)

-----------------------------------------------------------------------------
(* The client: a request loads proxies *)

\* The proxies of a set of lookups, one lookup after the other.
Proxies(S) ==
  LET all == {x \in S \X (1..Chunks) : x[2] <= hits[x[1]]}
      Before(x, y) == x[1] < y[1] \/ (x[1] = y[1] /\ x[2] < y[2])
  IN  {f \in [1..Cardinality(all) -> all] :
         \A i, j \in DOMAIN f : i < j => Before(f[i], f[j])}

Loading == {l \in Lookups : st[l] = "load"}

\* Proxies whose pages the peer still holds.
Backed == {x \in Lookups \X (1..Chunks) : holds[x[1]] > 0}

LoadBegin(S) ==
  /\ S # {} /\ \A l \in S : st[l] = "proxies"
  /\ \E items \in Proxies(S), fails \in BOOLEAN : PipeBegin(items, fails) /\ Perhaps(fails)
  /\ st' = [l \in Lookups |-> IF l \in S THEN "load" ELSE st[l]]
  /\ UNCHANGED <<channel, mode, linkVars, tries, bufs, hits, netVars, serverVars>>

LoadStep ==
  /\ \/ SubmitRead(Streamed, Backed) /\ UNCHANGED faults
     \/ ReadRaises /\ Fault
     \/ (SubmitScatter(Streamed) \/ RunRead(Backed) \/ RunScatter) /\ UNCHANGED faults
  /\ UNCHANGED <<channel, mode, linkVars, clientVars, netVars, serverVars>>

\* The contexts' send_done_now, after the pools were given back.
LoadEnd ==
  /\ PipeEnd
  /\ st' = [l \in Lookups |-> IF l \in Loading THEN "returned" ELSE st[l]]
  /\ \/ dones' = [l \in Lookups |-> dones[l] + (IF l \in Loading THEN 1 ELSE 0)]
        /\ UNCHANGED faults
     \/ \E l \in Loading :
          /\ dones' = [o \in Lookups |-> dones[o] + (IF o \in Loading \ {l} THEN 1 ELSE 0)]
          /\ Fault
  /\ UNCHANGED <<channel, mode, linkVars, tries, bufs, hits, reqs, answer, serverVars>>

-----------------------------------------------------------------------------
(* The server *)

\* _handle_peer_requests takes the next message; a client the channel does not know
\* is told so.
Receive(r) ==
  /\ srv.pc = "idle" /\ r \in reqs
  /\ reqs' = reqs \ {r}
  /\ srv' = [SrvIdle EXCEPT !.pc = IF speer THEN "lookup" ELSE "unknown",
                            !.lookup = r[1], !.try = r[2]]
  /\ UNCHANGED <<channel, mode, faults, linkVars, clientVars, answer, dones, holds, pending, lapsed,
                 pipeVars>>

Hold(l, n) == holds' = [holds EXCEPT ![l] = @ + n]

\* pending_pull_resources[lookup_id] = (now, mem_objs): what was there is overwritten.
Register(l) == Hold(l, 1) /\ pending' = pending \cup {l}

\* batched_async_contains pins the prefix it has, batched_get_non_blocking references
\* it.
Look ==
  /\ srv.pc = "lookup"
  /\ \/ \E n \in Found[mode] :
          /\ srv' = [srv EXCEPT !.hits = n, !.pc = IF mode = "push" THEN "write" ELSE "ok"]
          /\ IF n = 0 THEN UNCHANGED <<holds, pending>>
             ELSE IF mode = "push" THEN Hold(srv.lookup, 1) /\ UNCHANGED pending
             ELSE Register(srv.lookup)
          /\ UNCHANGED faults
     \/ Fault /\ srv' = [srv EXCEPT !.pc = "error"] /\ UNCHANGED <<holds, pending>>
  /\ UNCHANGED <<channel, mode, linkVars, clientVars, netVars, lapsed, pipeVars>>

\* The finally clause: release_memory_objects(mem_objs, unpin=True)
ReleaseWritten(fails) == IF srv.hits > 0 THEN Hold(srv.lookup, -1) ELSE UNCHANGED holds

\* Push mode: async_batched_write into the client's pages ends or raises.
WriteEnd ==
  /\ srv.pc = "write"
  /\ \E fails \in BOOLEAN :
       /\ Perhaps(fails) /\ ReleaseWritten(fails)
       /\ srv' = [srv EXCEPT !.pc = IF fails THEN "error" ELSE "ok"]
  /\ UNCHANGED <<channel, mode, linkVars, clientVars, netVars, pending, lapsed, pipeVars>>

\* The answer goes to the socket the request came from; a client that has connected
\* anew does not get it.
Answer ==
  /\ srv.pc \in {"unknown", "error", "ok"}
  /\ answer' = IF st[srv.lookup] = "wait" /\ tries[srv.lookup] = srv.try
               THEN [to |-> srv.lookup, try |-> srv.try, kind |-> srv.pc, hits |-> srv.hits]
               ELSE answer
  /\ srv' = SrvIdle
  /\ UNCHANGED <<channel, mode, faults, linkVars, clientVars, reqs, dones, holds, pending, lapsed,
                 pipeVars>>

HandlerStep == (\E r \in reqs : Receive(r)) \/ Look \/ WriteEnd \/ Answer

\* pop, release_memory_objects(mem_objs, unpin=True)
Pop(l) == pending' = pending \ {l} /\ Hold(l, -1)

\* _handle_batched_lookup_and_get_done; an unknown lookup id is only logged.
HandleDone(l) ==
  /\ dones[l] > 0
  /\ dones' = [dones EXCEPT ![l] = @ - 1]
  /\ IF l \in pending THEN Pop(l) ELSE UNCHANGED <<holds, pending>>
  /\ UNCHANGED <<channel, mode, faults, linkVars, clientVars, reqs, answer, srv, lapsed, pipeVars>>

\* Mutant: only what a lookup returned with is looked at.
ExpiredReturned(l) == st[l] = "returned"

\* now - ts > _pull_pending_ttl: its 360 s are longer than an exchange and an eager
\* read can take, not longer than a request may leave its proxies alone.
Expired(l) == st[l] \notin {"send", "wait", "timedout", "refused", "read"}

\* _sweep_expired_pending_pull_resources
Sweep(l) ==
  /\ l \in pending /\ Expired(l)
  /\ Pop(l)
  /\ lapsed' = lapsed \cup {l}
  /\ UNCHANGED <<channel, mode, faults, linkVars, clientVars, netVars, srv, pipeVars>>

\* The server's process is replaced: its pages, its tables and what was sent to it go.
Restart ==
  /\ Fault /\ link = "up"
  /\ srv' = SrvIdle /\ speer' = FALSE /\ accepting' = FALSE
  /\ reqs' = {} /\ dones' = [l \in Lookups |-> 0]
  /\ lapsed' = lapsed \cup {l \in Lookups : holds[l] > 0}
  /\ holds' = [l \in Lookups |-> 0] /\ pending' = {}
  /\ UNCHANGED <<channel, mode, link, cpeer, clientVars, answer, pipeVars>>

-----------------------------------------------------------------------------
Init ==
  /\ \E s \in Setups : mode = s[1] /\ channel = s[2]
  /\ faults = 0 /\ LinkInit /\ PipeInit
  /\ st = [l \in Lookups |-> "new"] /\ tries = [l \in Lookups |-> 0]
  /\ bufs = [l \in Lookups |-> 0] /\ hits = [l \in Lookups |-> 0]
  /\ reqs = {} /\ answer = NoAnswer /\ dones = [l \in Lookups |-> 0]
  /\ srv = SrvIdle /\ holds = [l \in Lookups |-> 0] /\ pending = {} /\ lapsed = {}

Client == \/ Handshake \/ ConnectRaised
          \/ \E l \in Lookups : ClientStep(l)
          \/ LoadStep \/ LoadEnd
Server == HandlerStep \/ \E l \in Lookups : HandleDone(l) \/ Sweep(l)

Next ==
  \/ Connect \/ Client \/ Server \/ Restart
  \/ \E l \in Lookups : Start(l)
  \/ \E S \in SUBSET Lookups : LoadBegin(S)

Spec == Init /\ [][Next]_vars

\* Both loops, the server's threads and the streams run; sockets time out.  Nothing
\* makes a caller start a lookup or load its proxies.
FairSpec == Spec /\ WF_vars(Client) /\ WF_vars(Server)

-----------------------------------------------------------------------------
(* Properties *)

One(b) == IF b THEN 1 ELSE 0

\* The server's pages for a lookup are referenced by the handler that writes them or
\* by the entry of pending_pull_resources, and by nothing else, whatever is lost,
\* repeated or fails.  A pull lookup that was sent again is the exception: its second
\* entry overwrites the first, whose pages stay pinned.
HoldsExact ==
  \A l \in Lookups :
    LET owners == One(srv.pc = "write" /\ srv.lookup = l /\ srv.hits > 0) + One(l \in pending)
    IN  holds[l] >= owners /\ (mode = "push" \/ tries[l] <= 1 => holds[l] = owners)

\* Pages are read from the peer only while the peer holds them: a Done, repeated or
\* not, never overtakes the reads it is about, on the loop or on the transport stream.
\* Excluded are pages the sweep or a restart took, and the reads a load leaves on the
\* stream when a later one raises.
ReadsHeld ==
  \A l \in Lookups \ lapsed :
    (\/ st[l] = "read"
     \/ ~pipe.raised /\ \E i \in DOMAIN transport, c \in 1..Chunks : <<l, c>> \in transport[i].batch)
      => holds[l] > 0

\* npu_connectors.py:1622-1624: "Per-pool scatter-done events: prevent the next RDMA
\* write into a pool from racing with a scatter that is still reading from the same
\* pool on load_stream."  The KV blocks of a proxy get the pages of that proxy.
PoolsIntact == \A x \in wrong : x[1] \in lapsed

\* The client holds the pages of the chunks it returned, all pages of a lookup under
\* way and none of one that gave up; the pools go back however a load ends.  Only a
\* lookup that left through an exception keeps its pages.
BuffersExact ==
  /\ \A l \in Lookups :
       bufs[l] = IF mode = "delay" \/ st[l] \in {"new", "gaveup"} THEN 0
                 ELSE IF st[l] = "returned" THEN hits[l] ELSE Chunks
  /\ pipe.pc = "idle" => pipe.pools = 0

\* The pages of an exchange are accounted for on both sides.
PagesExact == HoldsExact /\ BuffersExact

\* A lookup ends and the server's pages come back, whether its Done arrives, is lost or
\* is never sent, unless an hccl handshake got stuck; pages overwritten by a repeated
\* lookup do not come back.
PeerSettles ==
  \A l \in Lookups :
    /\ st[l] \in {"send", "wait", "timedout", "refused", "read", "done", "failed", "load"}
         ~> (st[l] \in {"proxies", "returned", "gaveup", "raised"} \/ link = "stuck")
    /\ holds[l] > 0 ~> (holds[l] = 0 \/ tries[l] > 1)

=============================================================================
