-------------------------- MODULE LayerwisePrefill --------------------------
(***************************************************************************)
(* Forced layer-wise prefill as the cache engine and the vLLM adapter run  *)
(* it on top of PrefillBanks.  One forward step computes one chunk of each *)
(* request of a batch: store_layer plans and allocates the chunk's page,   *)
(* the loads of earlier chunks rotate through the banks, every layer is    *)
(* saved behind its attention, and the page is published before its bytes  *)
(* have arrived: to the local cache at once, to the remote store behind    *)
(* the connector's fences, through the bounded LayerwisePutQueue.          *)
(***************************************************************************)
EXTENDS PrefillBanks

CONSTANTS MaxBatches,   \* LayerwisePutQueue.max_batches
          MaxPuts,      \* bound: puts ever submitted
          MaxFaults,    \* bound: failures, evictions and preemptions
          Batches,      \* Batches: the batches the scheduler forms
          Filling,      \* requests whose pages are offered to a remote fill
          Scenarios     \* which requests there are, what earlier ones left in the
                        \* cache, what the remote store lost of it since, and the
                        \* faults already spent

ASSUME PrefillAssumption == MaxBatches \in Nat \ {0} /\ {MaxPuts, MaxFaults} \subseteq Nat

VARIABLES host,     \* the worker thread: the step it is in
          st,       \* st[r]: where the request is, chunks computed, chunks owed
          hold,     \* hold[p]: who keeps a reference to page p
          cache,    \* LocalCPUBackend: key -> page
          puts,     \* every remote put: key, page, fences, outcome
          queue,    \* the LayerwisePutQueue
          durable,  \* keys the remote store holds whole
          async,    \* _layerwise_prefill_async_store_supported
          fills,    \* leases for remote fills: waiting for the batch's end, and out
          faults

vars == <<dev, done, cell, saved, conn, host, st, hold, cache, puts, queue, durable, async,
          fills, faults>>
storeVars == <<puts, queue, durable, cache, fills>>

Fault == faults < MaxFaults /\ faults' = faults + 1
Fine == UNCHANGED faults
AllKeys == UNION {{Prompt[r][i] : i \in Positions(r)} : r \in Reqs}
NoPage == <<>>
Idle == [pc |-> "idle", batch |-> <<>>, l |-> 0, storing |-> {}, todo |-> {}, src |-> <<>>]
State == [dev |-> dev, conn |-> conn]
Becomes(x) == dev' = x.dev /\ conn' = x.conn
Chunk(r) == st[r].at + 1
PageOf(r) == <<r, Chunk(r)>>
\* _layerwise_prefill_async_store_supported: whether every backend takes the
\* fences along with a put.  Decided once and cached.
AsyncSupport == BOOLEAN
InBatch(h) == {h.batch[i] : i \in DOMAIN h.batch}

Init ==
  /\ dev = NoWork /\ done = [s \in Streams |-> 0] /\ cell = EmptyBanks /\ conn = NoEvents
  /\ host = Idle
  /\ \E sc \in Scenarios :
       /\ faults = sc.faults
       /\ st = [r \in Reqs |-> [is |-> IF r \in sc.active THEN "waiting" ELSE "gone", at |-> 0,
                                went |-> FALSE]]
       /\ saved = [p \in Pages |-> IF p \in sc.warm THEN Layers ELSE {}]
       /\ hold = [p \in Pages |-> IF p \in sc.warm THEN {<<"cache", "">>} ELSE {}]
       /\ cache = [k \in AllKeys |-> IF \E p \in sc.warm : KeyOf(p) = k
                                     THEN CHOOSE p \in sc.warm : KeyOf(p) = k ELSE NoPage]
       /\ durable = {KeyOf(p) : p \in sc.warm} \ sc.lost
  /\ puts = <<>>
  /\ queue = [pend |-> {}, err |-> FALSE, byReq |-> [r \in Reqs |-> {}],
              byKey |-> [k \in AllKeys |-> {}]]
  /\ async \in AsyncSupport /\ fills = [queued |-> {}, out |-> {}]

-----------------------------------------------------------------------------
(* LayerwisePutQueue.  The first failure it meets is kept and raised by     *)
(* every later poll.                                                       *)
Finished == {n \in DOMAIN puts : puts[n].st # "pending"}
Broken(q) == q.err \/ \E n \in q.pend : puts[n].st = "failed"
PolledErrorOnly(q) == q
Polled(q) ==
  LET ended == q.pend \cap Finished
  IN [q EXCEPT !.pend = @ \ ended,
               !.byReq = [r \in Reqs |-> @[r] \ ended],
               !.byKey = [k \in AllKeys |-> @[k] \ ended]]
TrackNothing(q, r, k) == q
Track(q, r, k) == [q EXCEPT !.byReq[r] = @ \cup q.byKey[k]]
RoomFor(q) == Cardinality(q.pend) < MaxBatches
Waited(q, r) == q.byReq[r] \subseteq Finished
Added(q, n, r, k) ==
  [q EXCEPT !.pend = @ \cup {n}, !.byReq[r] = @ \cup {n}, !.byKey[k] = @ \cup {n}]

\* poll_layerwise_prefill_puts(final) for a set of requests: their puts and
\* the device events of their saves.  A put that does not end in time, or one
\* that failed, leaves the queue in error.
DrainReady(rs) == \A r \in rs : Waited(queue, r)
DrainFails(rs) == \/ Broken(queue) /\ Fine
                  \/ ~Broken(queue) /\ ~DrainReady(rs) /\ Fault
DrainRaises(rs) == DrainFails(rs) /\ queue' = [queue EXCEPT !.err = TRUE]
Drain(rs) == ~Broken(queue) /\ DrainReady(rs) /\ queue' = Polled(queue)

-----------------------------------------------------------------------------
(* A step begins.  A request starts at the prefix the local cache holds;   *)
(* the keys it reuses make it wait for the puts of those who wrote them.   *)
Hits(r) == CHOOSE n \in 0 .. Len(Prompt[r]) - 1 :
             /\ \A i \in 1 .. n : cache[Prompt[r][i]] # NoPage
             /\ n = Len(Prompt[r]) - 1 \/ cache[Prompt[r][n + 1]] = NoPage
FullyStored(k) == cache[k] # NoPage \/ k \in durable
\* The pages of r's earlier chunks: the local ones, else fetched ones.
Fetched(r) == {<<r, i>> : i \in {i \in 1 .. st[r].at : cache[Prompt[r][i]] = NoPage}}
Sources(r) == [i \in 1 .. st[r].at |->
                 IF <<r, i>> \in Fetched(r) THEN <<r, i>> ELSE cache[Prompt[r][i]]]

\* Cache lookup and retrieve plan: start at the prefix hit, track its keys.
TrackPrefix(q, r) == FoldLeft(LAMBDA acc, i : Track(acc, r, Prompt[r][i]), q, [i \in 1 .. Hits(r) |-> i])
Admit(r) ==
  /\ host.pc = "idle" /\ st[r].is = "waiting" /\ ~queue.err
  /\ st' = [st EXCEPT ![r] = [is |-> "running", at |-> Hits(r), went |-> FALSE]]
  /\ queue' = TrackPrefix(queue, r)
  /\ hold' = [p \in Pages |-> IF \E i \in 1 .. Hits(r) : cache[Prompt[r][i]] = p
                              THEN hold[p] \cup {<<"pin", r>>} ELSE hold[p]]
  /\ Fine /\ UNCHANGED <<dev, done, cell, saved, conn, host, cache, puts, durable, async, fills>>

Ready(b) == /\ host.pc = "idle" /\ ~queue.err
            /\ \A i \in DOMAIN b : st[b[i]].is = "running"
            /\ \A r \in Reqs : st[r].is # "aborted"
StartRaises(b) ==
  /\ Ready(b) /\ Broken(queue) /\ Fine
  /\ queue' = [queue EXCEPT !.err = TRUE]
  /\ UNCHANGED <<dev, done, cell, saved, conn, host, st, hold, cache, puts, durable, async, fills>>

\* _layerwise_prefill_store_plan and the allocation in store_layer, and the
\* first Banks loads of every request that has a prefix.
Prime(x, b) ==
  FoldLeft(LAMBDA y, r :
             IF st[r].at = 0 THEN y
             ELSE FoldLeft(LAMBDA z, l : LoadLayer(z, l - 1, r, Sources(r)), y,
                           [l \in 1 .. (IF Banks < NLayers THEN Banks ELSE NLayers) |-> l]),
           x, b)
PlanTracked(q, b) == FoldLeft(LAMBDA acc, r : Track(acc, r, Prompt[r][Chunk(r)]), q, b)
StartStep(b) ==
  LET batch == {b[i] : i \in DOMAIN b}
      storing == {r \in batch : ~FullyStored(Prompt[r][Chunk(r)])}
      new == {PageOf(r) : r \in storing}
      fetched == UNION {Fetched(r) : r \in batch}
      placed == {p \in fetched : \A o \in fetched : KeyOf(o) = KeyOf(p) => o = p \/ p[1] = b[1]}
  IN /\ Ready(b) /\ ~Broken(queue) /\ Fine
     /\ queue' = PlanTracked(Polled(queue), b)
     /\ host' = [pc |-> "forward", batch |-> b, l |-> 0, storing |-> storing, todo |-> storing,
                 src |-> [r \in batch |-> Sources(r)]]
     /\ st' = [r \in Reqs |-> [st[r] EXCEPT !.went = @ \/ r \in batch]]
     /\ saved' = [p \in Pages |-> IF p \in new THEN {} ELSE IF p \in fetched THEN Layers ELSE saved[p]]
     /\ cache' = [k \in AllKeys |-> IF \E p \in placed : KeyOf(p) = k
                                    THEN CHOOSE p \in placed : KeyOf(p) = k ELSE cache[k]]
     /\ hold' = [p \in Pages |-> hold[p] \cup {<<t, p[1]>> : t \in IF p \in new THEN {"store", "own"} ELSE {}}
                                         \cup (IF p \in placed THEN {<<"cache", "">>} ELSE {})
                                         \cup {<<"load", r>> : r \in {r \in batch : p \in Range(Sources(r))}}]
     /\ Becomes(Prime(State, b))
     /\ UNCHANGED <<done, cell, puts, durable, async, fills>>

\* No page can be allocated: pages already allocated are given back.
AllocRaises(b) ==
  /\ Ready(b) /\ ~Broken(queue) /\ Fault
  /\ queue' = PlanTracked(Polled(queue), b)
  /\ st' = [r \in Reqs |-> IF r \in {b[i] : i \in DOMAIN b} THEN [st[r] EXCEPT !.is = "aborted"] ELSE st[r]]
  /\ UNCHANGED <<dev, done, cell, saved, conn, host, hold, cache, puts, durable, async, fills>>

-----------------------------------------------------------------------------
(* One layer: attention behind its loads, saves behind the attention, the  *)
(* loads of the layer that takes the bank next.                            *)
Forward ==
  /\ host.pc = "forward"
  /\ Becomes(AttendLayer(WaitForLoad(State, host.l), host.l, {PageOf(r) : r \in InBatch(host)}))
  /\ host' = [host EXCEPT !.pc = "save"]
  /\ Fine /\ UNCHANGED <<done, cell, saved, st, hold, storeVars, async>>

SaveStep ==
  /\ host.pc = "save" /\ (host.storing # {} => RequireUse(State, host.l))
  /\ Becomes(FoldLeft(LAMBDA y, r : IF r \in host.storing
                                    THEN SaveLayer(y, host.l, PageOf(r)) ELSE y,
                      State, host.batch))
  /\ host' = [host EXCEPT !.pc = "advance"]
  /\ Fine /\ UNCHANGED <<done, cell, saved, st, hold, storeVars, async>>

LoadNext(x, l) ==
  FoldLeft(LAMBDA y, r : IF st[r].at = 0 THEN y ELSE LoadLayer(y, l, r, host.src[r]), x, host.batch)
Advance ==
  LET next == host.l + Banks
  IN /\ host.pc = "advance" /\ (next < NLayers => MayLoad(State, next))
     /\ Becomes(IF next < NLayers THEN LoadNext(State, next) ELSE State)
     /\ host' = IF host.l + 1 < NLayers THEN [host EXCEPT !.pc = "forward", !.l = @ + 1]
                ELSE [host EXCEPT !.pc = "publish"]
     /\ Fine /\ UNCHANGED <<done, cell, saved, st, hold, storeVars, async>>

\* A copy raises after work was queued: the load's stream is remembered as
\* unfenced; the storers' clean-up waits for the DMA streams and gives back
\* the references that no put has taken.
DropStore(rs) == [p \in Pages |-> IF p \in {PageOf(r) : r \in rs} THEN hold[p] \ {<<"store", p[1]>>} ELSE hold[p]]
Aborted(rs) == [r \in Reqs |-> IF r \in rs THEN [st[r] EXCEPT !.is = "aborted"] ELSE st[r]]
Unleased(h, ps) == [p \in Pages |-> IF p \in ps THEN h[p] \ {<<"fill", p[1]>>} ELSE h[p]]
LoadRaises ==
  LET next == host.l + Banks
  IN /\ host.pc = "advance" /\ next < NLayers /\ Fault
     /\ \E r \in InBatch(host) : /\ st[r].at > 0
                                 /\ Becomes(RetainUnfenced(SubmitLoad(State, next, r, host.src[r]), next, r))
     /\ host' = [host EXCEPT !.pc = "abort"]
     /\ UNCHANGED <<done, cell, saved, st, hold, storeVars, async>>
SaveRaises ==
  /\ host.pc = "save" /\ host.storing # {} /\ Fault
  /\ \E r \in host.storing : Becomes([State EXCEPT !.dev = Enqueue(@, Bank(host.l), Save(host.l, PageOf(r)))])
  /\ host' = [host EXCEPT !.pc = "abort"]
  /\ UNCHANGED <<done, cell, saved, st, hold, storeVars, async>>
CloseStorers ==
  /\ host.pc = "abort" /\ (host.storing # {} => BanksDrained)
  /\ hold' = Unleased(DropStore(host.todo), fills.queued)
  /\ st' = Aborted(InBatch(host)) /\ host' = Idle
  /\ fills' = [fills EXCEPT !.queued = {}]
  /\ Fine /\ UNCHANGED <<dev, done, cell, saved, conn, cache, puts, queue, durable, async>>

-----------------------------------------------------------------------------
(* Publication: room in the queue, the fences, the local cache at once.    *)
Published(p) ==
  [q \in Pages |->
     IF q = p THEN (hold[p] \ {<<"store", p[1]>>}) \cup {<<"put", p[1]>>}
                   \cup (IF cache[KeyOf(p)] = NoPage THEN {<<"cache", "">>} ELSE {})
                   \cup (IF p[1] \in Filling THEN {<<"fill", p[1]>>} ELSE {})
     ELSE hold[q]]
Fences == IF async THEN StoreFences(State) ELSE {}
Publish(r) ==
  LET p == PageOf(r)
  IN /\ host.pc = "publish" /\ r \in host.todo /\ ~Broken(queue) /\ Len(puts) < MaxPuts
     /\ async \/ AllDone(LastStoreEvents(State, p))
     /\ RoomFor(Polled(queue))
     /\ Becomes(IF async THEN FinishAsyncStore(State, r, p) ELSE State)
     /\ puts' = Append(puts, [k |-> KeyOf(p), p |-> p, fences |-> Fences, st |-> "pending"])
     /\ queue' = Added(Polled(queue), Len(puts) + 1, r, KeyOf(p))
     /\ hold' = Published(p)
     /\ cache' = [cache EXCEPT ![KeyOf(p)] = IF @ = NoPage THEN p ELSE @]
     /\ fills' = [fills EXCEPT !.queued = IF r \in Filling THEN @ \cup {p} ELSE @]
     /\ host' = [host EXCEPT !.todo = @ \ {r}]
     /\ Fine /\ UNCHANGED <<done, cell, saved, st, durable, async>>
\* The queue is in error, a wait for room times out, or the put is refused.
PublishRaises(r) ==
  /\ host.pc = "publish" /\ r \in host.todo
  /\ async \/ AllDone(LastStoreEvents(State, PageOf(r)))
  /\ (Broken(queue) /\ Fine) \/ Fault
  /\ queue' = [queue EXCEPT !.err = TRUE]
  /\ host' = [host EXCEPT !.pc = "abort"]
  /\ UNCHANGED <<dev, done, cell, saved, conn, st, hold, cache, puts, durable, async, fills>>

\* _finish_layerwise_prefill_batch: a request whose last chunk this was is
\* reported only after its puts and its device events.
Final(r) == Chunk(r) = Len(Prompt[r])
Finals == {r \in InBatch(host) : Final(r)}
Advanced(rs) == [r \in Reqs |-> IF r \in rs
                                THEN [st[r] EXCEPT !.at = @ + 1, !.is = IF Final(r) THEN "finished" ELSE @]
                                ELSE st[r]]
SubmitFills ==
  \/ fills' = [queued |-> {}, out |-> fills.out \cup fills.queued] /\ UNCHANGED hold
  \/ fills.queued # {} /\ fills' = [fills EXCEPT !.queued = {}] /\ hold' = Unleased(hold, fills.queued)
Owing == Finals \cap Filling
FinishBatch ==
  /\ host.pc = "publish" /\ host.todo = {} /\ SubmitFills
  /\ Drain(Finals) /\ \A r \in Finals : StoresWaited(r)
  /\ \/ Owing = {} /\ st' = Advanced(InBatch(host)) /\ host' = Idle
     \/ Owing # {} /\ UNCHANGED st /\ host' = [host EXCEPT !.pc = "handoff", !.todo = Owing]
  /\ Fine /\ UNCHANGED <<dev, done, cell, saved, conn, cache, puts, durable, async>>
FinishRaises ==
  /\ host.pc = "publish" /\ host.todo = {} /\ SubmitFills /\ DrainRaises(Finals)
  /\ st' = Aborted(InBatch(host)) /\ host' = Idle
  /\ UNCHANGED <<dev, done, cell, saved, conn, cache, puts, durable, async>>

\* finish_layerwise_prefill_store: a request whose pages go to a decoder is
\* handed over only when its receipts reach its end.  One that reused cached
\* pages has none for its last chunks: it waits for the puts of those keys,
\* looks them up in the remote store and puts again, from the local cache,
\* what is missing there.
Committed(r) == {i \in Positions(r) : <<"own", r>> \in hold[<<r, i>>]}
Unproved(r) == {i \in Positions(r) : \A j \in Committed(r) : j < i}
Inherited(q, r) == FoldLeft(LAMBDA acc, i : IF i \in Unproved(r) THEN Track(acc, r, Prompt[r][i]) ELSE acc,
                            q, [i \in Positions(r) |-> i])
Missing(r) == {Prompt[r][i] : i \in Unproved(r)} \ durable
Republished(r) == {k \in Missing(r) : cache[k] # NoPage /\ saved[cache[k]] = Layers}
HandedOver(r) ==
  /\ host' = IF host.todo = {r} THEN Idle ELSE [host EXCEPT !.todo = @ \ {r}]
  /\ st' = IF host.todo = {r} THEN Advanced(InBatch(host)) ELSE st
Handoff(r) ==
  LET q == Inherited(queue, r)
  IN /\ host.pc = "handoff" /\ r \in host.todo /\ ~Broken(queue) /\ Waited(q, r)
     /\ \A k \in Missing(r) : cache[k] # NoPage
     /\ durable' = durable \cup Republished(r) /\ queue' = Polled(q)
     /\ HandedOver(r)
     /\ Fine /\ UNCHANGED <<dev, done, cell, saved, conn, hold, cache, puts, async, fills>>
\* A put of a reused key failed or is late; a page is nowhere any more; the
\* repair fails.
NowhereLeft(r) == \E k \in Missing(r) : cache[k] = NoPage
HandoffRaises(r) ==
  LET q == Inherited(queue, r)
  IN /\ host.pc = "handoff" /\ r \in host.todo
     /\ \/ queue' = [q EXCEPT !.err = TRUE] /\ ((Broken(queue) /\ Fine) \/ (~Waited(q, r) /\ Fault))
        \/ /\ queue' = Polled(q) /\ ~Broken(queue) /\ Waited(q, r)
           /\ ((NowhereLeft(r) /\ Fine) \/ (Missing(r) # {} /\ Fault))
     /\ st' = Aborted(InBatch(host)) /\ host' = Idle
     /\ UNCHANGED <<dev, done, cell, saved, conn, hold, cache, puts, durable, async, fills>>

-----------------------------------------------------------------------------
(* Requests leave: finished, aborted or preempted ones, and all on close.  *)
Let(r) == [p \in Pages |-> hold[p] \ {<<"own", r>>, <<"load", r>>, <<"pin", r>>}]
Leave(r, to) ==
  /\ ReleaseReady(r)
  /\ Becomes(ReleaseDmaCache(State, r)) /\ hold' = Let(r)
  /\ st' = [st EXCEPT ![r] = [is |-> to, at |-> IF to = "waiting" THEN 0 ELSE @.at, went |-> FALSE]]
  /\ UNCHANGED <<done, cell, saved, host, cache, puts, durable, async, fills>>
Release(r) ==
  /\ host.pc = "idle" /\ st[r].is \in {"finished", "aborted"}
  /\ Drain({r}) /\ StoresWaited(r) /\ Fine
  /\ Leave(r, "gone")
Preempt(r) ==
  /\ host.pc = "idle" /\ st[r].is = "running" /\ st[r].went
  /\ Drain({r}) /\ StoresWaited(r) /\ Fault
  /\ Leave(r, "waiting")
ReleaseRaises(r) ==
  /\ host.pc = "idle" /\ st[r].is \in {"finished", "aborted"} /\ ~queue.err /\ DrainRaises({r})
  /\ UNCHANGED <<dev, done, cell, saved, conn, host, st, hold, cache, puts, durable, async, fills>>
Close(r) ==
  /\ host.pc = "idle" /\ queue.err /\ st[r].is # "gone" /\ Fine
  /\ Leave(r, "gone") /\ UNCHANGED queue

\* reset_layerwise_prefill_transfer_state(synchronize=True) by the caller of
\* an aborted step.
Reset ==
  /\ host.pc = "idle" /\ (conn.load # {} \/ \E r \in Reqs : st[r].is = "aborted")
  /\ BanksDrained /\ (conn.load # {} \/ \E b \in BankIds : conn.uses[b] # NoUse)
  /\ Becomes(ResetTransfers(State))
  /\ Fine /\ UNCHANGED <<done, cell, saved, host, st, hold, storeVars, async>>

-----------------------------------------------------------------------------
(* The device, the put threads, the fill future, and eviction.             *)
Run(s) == RunStream(s) /\ Fine /\ UNCHANGED <<host, st, hold, storeVars, async>>
Ends(n, how) ==
  /\ puts[n].st = "pending" /\ AllDone(puts[n].fences)
  /\ puts' = [puts EXCEPT ![n].st = how]
  /\ hold' = [hold EXCEPT ![puts[n].p] = @ \ {<<"put", puts[n].p[1]>>}]
  /\ UNCHANGED <<dev, done, cell, saved, conn, host, st, cache, queue, async, fills>>
PutDone(n) == /\ Ends(n, "done") /\ Fine
              /\ durable' = IF saved[puts[n].p] = Layers THEN durable \cup {puts[n].k} ELSE durable
PutFails(n) == Ends(n, "failed") /\ Fault /\ UNCHANGED durable
\* A fatal fill error keeps the lease for ever: the peer may still read.
FillEnds(p) ==
  /\ p \in fills.out /\ fills' = [fills EXCEPT !.out = @ \ {p}]
  /\ \/ Fine /\ hold' = Unleased(hold, {p})
     \/ Fault /\ UNCHANGED hold
  /\ UNCHANGED <<dev, done, cell, saved, conn, host, st, cache, puts, queue, durable, async>>
Evict(k) ==
  /\ cache[k] # NoPage /\ hold[cache[k]] = {<<"cache", "">>} /\ Fault
  /\ hold' = [hold EXCEPT ![cache[k]] = {}] /\ cache' = [cache EXCEPT ![k] = NoPage]
  /\ UNCHANGED <<dev, done, cell, saved, conn, host, st, puts, queue, durable, async, fills>>

Progress ==
  \/ \E r \in Reqs : Admit(r) \/ Publish(r) \/ Handoff(r) \/ Release(r) \/ Close(r)
  \/ \E r \in Reqs : NowhereLeft(r) /\ HandoffRaises(r)
  \/ \E b \in Batches : StartStep(b) \/ StartRaises(b)
  \/ Broken(queue) /\ (FinishRaises \/ \E r \in Reqs : PublishRaises(r) \/ HandoffRaises(r) \/ ReleaseRaises(r))
  \/ Forward \/ SaveStep \/ Advance \/ CloseStorers \/ FinishBatch \/ Reset
  \/ \E s \in Streams : Run(s)
  \/ \E n \in DOMAIN puts : PutDone(n)
  \/ \E p \in Pages : FillEnds(p)
Trouble ==
  \/ \E b \in Batches : AllocRaises(b)
  \/ LoadRaises \/ SaveRaises \/ FinishRaises
  \/ \E r \in Reqs : PublishRaises(r) \/ HandoffRaises(r) \/ ReleaseRaises(r) \/ Preempt(r)
  \/ \E n \in DOMAIN puts : PutFails(n)
  \/ \E k \in AllKeys : Evict(k)
Next == Progress \/ Trouble
Spec == Init /\ [][Next]_vars /\ WF_vars(Progress)

-----------------------------------------------------------------------------
(* Properties. *)

\* No page is freed while the device may still read or write it or a put
\* still has to send it.
PagesHeld ==
  /\ \A o \in PendingOps : \A p \in HostPages(o) : hold[p] # {}
  /\ \A n \in DOMAIN puts : puts[n].st = "pending" => hold[puts[n].p] # {}

\* A request is reported as prefilled only when the remote store holds every
\* page of its prompt whole, the pages other requests wrote included.
FinishedIsDurable ==
  \A r \in Reqs : st[r].is = "finished" => \A i \in Positions(r) : Prompt[r][i] \in durable

\* Every request leaves with all its pages released, whatever fails.
PrefillEnds == <>(\A r \in Reqs : st[r].is = "gone" /\ \A p \in Pages : hold[p] \cap {<<"own", r>>, <<"load", r>>} = {})
=============================================================================
