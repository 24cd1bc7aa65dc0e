# Verification of LMCache-Ascend

LMCache-Ascend keeps the KV cache of vLLM on Ascend NPUs: it captures, stores,
moves and restores KV pages between NPU memory, a registered CPU heap, peers and
the Mooncake store. Most of its own logic is about *who owns a page when*: pages
are reference counted by hand, native transfers read or write them behind
Python's back, and several threads and processes hand them on. This project
models that ownership logic in TLA+, model-checks it with TLC and proves its
central invariants with TLAPS.

Paths below are relative to `lmcache_ascend/v1/` unless they start with a
directory of the repository.

## 1. Inventory

| Component | State | Operations | Interacts with | What is hard | What makes it correct |
|---|---|---|---|---|---|
| Checkpoint write-back store (`checkpoint_writeback.py`) | manifests, records, charges, used bytes, wake event, quarantine | publish, forget, restore_event, acquire, available, monitor/spill, close | executor of the checkpoint worker, lookup server, LocalCPU cache, Mooncake | four threads, a lock that is dropped during native I/O, unknown transfer outcomes | exact charges and references; local pages go only when durable; close drains all but a forget it overtakes |
| Local checkpoint store (`local_checkpoint.py`) | manifests | publish, acquire, build_page, normalize, release | cache engine, LocalCPU cache | pages vanish between lookup and use | paired coverage of both KV groups; no leaked reference |
| Capture and publication (`preemption_checkpoint.py`) | jobs, results, restore owners, executor queue | capture, seal, poll, cancel, hold/release restore, close | vLLM adapter, lookup server, store above | flags shared without a lock, deadlines against late futures, fences that fail | buffers have exactly their owners; a cancelled job leaves no offer; "ready" is final |
| Prefill/decode disaggregation (`storage_backend/pd/`) | pinned pages, pending pulls, early Dones, backpressure count, circuit breaker; the decoder's data store | put task (push, eager pull, delayed pull), Done listener, TTL sweep, allocation loop | peers over ZMQ, NPU connector | REQ/REP answer and Done on different sockets and threads, refused allocations, lost Done | pages are freed once and eventually; reads only hit pinned pages |
| Proxy objects and transfer contexts (`proxy_memory_obj.py`, `transfer_context.py`) | consumed flags, reference count, done-sent flag, ping-pong buffers | resolve, mark_consumed, send_done_now | PD and P2P backends, NPU connector | Done exactly once, not too early | Done after the last read |
| NPU connectors (`npu_connector/`) | streams, events, banks, DMA plans and bound addresses, ping-pong pools | bank rotation, load and save of a layer, plan, bind, pull pipeline, reset, release | engine, native kernels | cross-stream ordering, plans reused after their inputs moved, pipelines that fail half-way | a bank, page or pool is reused only after its copies ended; rows move exactly the tokens asked for |
| Cache engine (`cache_engine.py`) | direct-store states and futures, store queue, live-source builders, rank mailbox, shared envelopes | store, direct prefill store with repair and replay, layer-wise store, shared retrieve, agreement of TP ranks, close | everything | completion callbacks, collectives across ranks, asynchronous store, shutdown order | blocks are freed unread; what is recorded as saved is stored; ranks decide alike; nobody waits for a rank that left |
| Remote fill (`remote_fill.py`, `remote_fill_producer.py`, `remote_fill_coordinator.py`) | hidden pages, reservations, windows, armed attempts; producer sessions; queue counters, circuit breaker | prepare, arm, native write, report, finish, abort, status, expiry; submit, wait, finish, release, close | producer and decoder over RPC, native one-sided writes, cache engine | lost replies, requests served late, ambiguous completions, commit against release, jobs that wait inside a bounded pool | a page is committed or released once, never under a native write; every job ends |
| P2P backend (`storage_backend/p2p_backend.py`) | pinned lookups, TTLs | lookup, pull, Done | peers | as in PD, on an event loop | as in PD |
| Layer-wise CPU fill (`layerwise_cpu_fill.py`) | bounded put queue, failure latch | put, drain, close | engine, LocalCPU cache | producer and consumer stop in either order | nothing lost, nobody blocked |
| vLLM adapter (`integration/vllm/vllm_v1_adapter.py`) | request trackers, load generations | step hooks, preemption, restore | scheduler and workers | order of its calls across steps | each restore acknowledged once |
| Transfer channels (`transfer_channel/`) | peers, registered buffers, streams | handshake, batched_read, batched_write | native agents | handshake in both directions | a peer is used only when ready |

Stateless or purely numerical parts (KV formats, token hashing, blending,
diagnostics, patches, native kernels, the MindSpore port) are listed in
`PROJECT.json` with the reason they are left out. `PROJECT.json` also lists the
hazards of the code, each at its line, with the properties that guard it.

## 2. Modules

| Module | Models |
|---|---|
| `CheckpointWriteback` | the retention store: publication, budget, forget, restore events, monitor, spill, retirement, close |
| `CheckpointLifecycle` | its abstract specification: what may become of one publication |
| `CheckpointReader` | a lookup or restore that reads page by page; extends the store |
| `CheckpointWritebackProofs`, `CheckpointReaderProofs` | theorems about the store: types, ledger, durability, the refinement, references and shutdown; the reader beside it |
| `CheckpointWorker` | capture, seal, publication, poll, cancel, restore owners, close |
| `CheckpointWorkerProofs` | theorems about it |
| `PDTransfer` | prefillers and a decoder in push, eager-pull and delayed-pull mode |
| `PDTransferProofs` | theorems about it |
| `RemoteFillDecoder` | remote fill on the decoder: hidden pages, windows, admission, the service thread |
| `RemoteFillSession` | the producer's session with the decoder; extends it |
| `RemoteFillCoordinator` | jobs, queue limits, circuit breaker and teardown of all sessions; extends both |
| `RemoteFillProofs` | theorems about the three of them together |
| `RemoteWindows`, `LiveSource` | operators: the windows and live descriptors a prefill step offers to a decoder |
| `DirectStore` | the engine's store side: direct puts, CPU repair, store worker, finished and preempted requests; uses both of the above |
| `DirectStoreProofs` | a theorem about it |
| `PrefillBanks` | the connector's bank streams and events for layer-wise prefill |
| `LayerwisePrefill` | engine and adapter on top of it: steps, pages, put queue, handoff; extends it |
| `DmaPlans` | DMA plans, source addresses and bound rows that are reused between steps |
| `LayerwiseConnector` | the two side by side; composes `LayerwisePrefill` and `DmaPlans` |
| `RankMailbox` | the ordered channel and the agreements of tensor-parallel ranks |
| `SharedRetrieve` | shared page loads of all ranks; extends it |
| `SharedRetrieveProofs` | theorems about it |
| `PeerLink` | the handshake of two transfer channels (hccl, hixl, hcomm) |
| `PullPipeline` | the two-pool pull pipeline of the NPU connector |
| `PeerTransfer` | the P2P backend; composes `PeerLink` and `PullPipeline` |
| `PeerTransferProofs` | theorems about it |
| `MC*` | instances for TLC: small constants, no behaviour |

Some definitions come with a twin marked `Mutant:` (or called a slip), the same
idea with a plausible bug. No specification uses the twins; replacing the
original by its twin must make TLC report the property named for it in
`PROJECT.json`.

From `RemoteFillDecoder` on, adverse events (timeouts, losses, failures,
evictions, preemptions) are guarded by `Fault` (`Fail` in
`SharedRetrieve`), which counts them up to
`MaxFaults`; where a module has `Scenarios`, `Init` chooses which requests take
part and how much of that bound is already spent.

### CheckpointWriteback

A *publication* `r` stands for one `Retention` object and its manifest; `IdOf`
gives its (request, generation). A page is a CPU page object; `Units` gives the
heap units it occupies, so `Bytes` is `get_physical_size` summed over distinct
pages. A checkpoint covers `W` canonical windows in each of two KV groups;
`Source` says which page holds a window.

| Variable | Code |
|---|---|
| `refs`, `cache` | `ref_count` of a page; pages with an alias in the LocalCPU cache |
| `jobs`, `jobHeld` | the capture job and the pages it owns |
| `manifests`, `records`, `remote`, `cancelled`, `backoff`, `attempts` | the dictionaries of the store and the fields of `Retention` |
| `call`, `stranded` | the calls of the worker thread and of the lookup server: identities of a completed restore whose `forget` is to come, and popped records not handed to the executor yet; records whose `_retire` a shut-down executor refused |
| `owned` | where charged references sit: a record, a call or queued `_retire`, a running one, the monitor's copy, the batch taken over at a confirmation |
| `charges`, `used` | the ledger |
| `tasks`, `exec` | queue and thread of the one-worker executor |
| `mon`, `draining`, `wake` | the `checkpoint-spill` thread, its hysteresis and its event |
| `main` | the worker thread in `close()` |

One action is one critical section of `self.lock`, or one stretch of code
between two of them. The threads are the executor (`PublishStart` to
`RetireUncharge`), the monitor (`MonitorTop` to `MonitorUncharge`), the worker
(`Seal`, `PollRelease`, `Close*`) and the two callers of `forget` and
`restore_event`, the worker and the lookup server. `Forget` pops the records under
the lock (`Pop`); `HandOver` submits one `_retire` each after the lock is released,
and what it has not handed over is `stranded` when `close()` shut the executor down
in between. The forget at the end of a completed restore is a critical section of
its own (`CompletedForget`). Cancellation of jobs is left to `CheckpointWorker`.
Abstractions: token ranges are windows; whether the heap is below its reserve is
any Boolean (it depends on every user of the heap); a PUT ends in success, known
failure or unknown outcome; a failing `Thread.start` is included.

### CheckpointReader

`rd` is one reading thread. `Snapshot`, `ReadLocal`, `ReadLocalEnd`, `Recheck`,
`Gather`, `Fetch` and `Release` are the stretches of `_acquire` between which the
store may move on; pages are read one at a time.

### CheckpointWorker

A *key* is one (request, generation). `stage` combines the job table with the
life of its future; `cancelled` is `job.cancelled`; `offers` is the plain offer
table. `cancel()` is two steps, as in the code: forget, then mark. The capture's
device work is one step that is refused, succeeds, or fails with a fence that
fails too, which quarantines the job. `late` says the deadline has passed.
`Repeats` bounds the results that duplicate captures may add.

### PDTransfer

A *task* is one `batched_submit_put_task` with its pull id. `refs[t][k]` counts
references to the prefiller's page, `rrefs[t][k]` to the decoder's; `inbox`,
`reply` and `dones` are the three message paths. The put thread
(`Begin` ... `Register`/`Write`), the Done listener (`HandleDone`, `Sweep`), the
decoder's allocation loop (`Receive` ... `PostAckDone`) and the NPU connector
(`Load`, `LoadEnd`) interleave freely. `mode` is the configuration, chosen from
`Modes` at the start and never changed; `Faults` gives the failures that occur in
each mode. A request loads any of the chunks the store offers, of one batch or of
several, whether or not they are answered yet, and may remove a key it does not
hold. `lapsed` and `twice` are history: delayed batches the sweep gave up, and
pages a roll-back released although a request had removed their key. The caller's `ref_count_down` after the call, the paged allocator
and `remove()` belong to upstream LMCache and are modelled from their use here.

### RemoteFillDecoder, RemoteFillSession, RemoteFillCoordinator

One *transfer* is one prefill request with a handoff; its windows carry sets of
pages. On the decoder, `hidden` are reserved pages (pinned, one reference),
`written` those whose content arrived, `writing` the native pushes that may still
touch memory, `win` and `tx` the states of windows and transactions in
`RemoteFillStateCore`, which belongs to LMCache and is modelled from how the page
lifecycle and the producer use it. `rpc[q]` is the one control request in flight;
a request whose client gave up moves to `late` and may be served much later.
`Serve*` are the handlers, `Maintain` the expiry of leases, `StopHost` and
`ShutdownService` the close.

The session runs `negotiate`, `open`, probe, reserve, ARM, native write, report,
finish or abort. Before ARM a lost reply only costs the direct path
(`PrearmUnknown`); after it, what STATUS cannot prove is `Fatal`. The coordinator
adds `job` and `pool` (futures on the shared executor, each waiting for its
predecessor), `req[q]` with the window and byte charges, `total` for
`_queued_bytes`, the circuit breaker and the paired-restart latch.

`OnItsWay` gives a request in flight priority: no other step reads it, so an
interleaving in between is the same as one before it. The connection and the
codecs are left out, digests and layouts are identities.

### DirectStore, RemoteWindows, LiveSource

The worker thread of vLLM is `main`, one call at a time; `step` is the open save
of a forward step. Puts (`job`, with their futures) end on backend threads and
their callbacks (`Callback`) run on their own; the store worker (`queue`, `busy`)
is a third thread. `st[r]` is `_direct_store_states`: submitted and committed
ends per group, futures, the accepted end. `cnt` is `_pending_store_reqs`,
`stored` the external store with the path by which each page came there (`prior`,
`put`, `cpu`...), `said` what the adapter was told is saved.

The calls are `EarlyCall`, `BatchCall`, `StoreCall`, `Finish`, `Preempt` and the
close; what follows each is one action per stretch between two waits: room in the
job table, lookup, plan per group, submission, tail, final mark, wait, replay,
repair, finalize, report. `RemoteWindows` gives the windows a step plans for a
remote fill and how they are deferred until the producer fence comes;
`LiveSource` the builder that describes a request's HBM pages. Positions are
counted in pages, both groups are driven in step by the calls but planned,
rejected and repaired apart.

`main.from` is the committed end that `store_direct_prefill` read before
`wait_for_direct_stores`: `RepairGroup` stores from that end, raises when the step
cannot address the pages between, and resets the frontier to where it stopped, as
the code does, although the wait may have moved the frontier on. `fill[r]` is what
`ProducerRequestState` says of the windows: the end probed (`probe`), sources that
wait for their fence (`deferred`), last windows kept back to go out with the tail
(`held`, released as one or as several in `DrainWindows`), a tail that is only probed
because the step cannot address it (`tail`), the source of the prefix (`source`) and
the outcome of FINISH (`terminal`). A fill is given up where the code gives it up:
a prefix nobody can supply, a missing tail that cannot be addressed, a window without
a fence at the end, a refused window. When all
ends are committed `FinalizeDirectStore` asks FINISH once; `PERSISTENCE_FAILED`,
`FATAL_RESTART` or no answer raises, and the save step is aborted.

### PrefillBanks, LayerwisePrefill

A stream is the sequence of all operations ever submitted to it, `done` how many
have run, an event a place in a stream; `wait_event` becomes part of the next
operation of the waiting stream. Layer `l` uses bank `l % Banks`. `cell` says
which layer's KV a bank holds for a chunk and `saved` which layers of a host page
hold their own KV, so that a copy that ran too early or too late is visible as
wrong content. `conn` are the connector's event tables.

`LayerwisePrefill` is the worker thread (`host`): admission, `StartStep` (plan,
allocate, first loads), `Forward`, `SaveStep`, `Advance` for each layer,
`CloseStorers`, `Publish`, `FinishBatch`, `Handoff`, `Release`, and each of these
raising. `hold[p]` names the owners of a page, `puts` the remote puts with their
fences, `queue` the `LayerwisePutQueue` with its sticky error and its proofs of
persistence by request and by key, `durable` what the remote store really has.
Only the bank mode with `prefill_dma` is modelled; after a sticky error of the
queue pages are kept until close.

### DmaPlans, LayerwiseConnector

`plans`, `tables`, `sources` and `bound` are the four caches of a request, per
bank; `sent` what was submitted last. `PlanIncremental` and `BindIncremental`
reuse the unchanged prefix in place, as the code does; `PlanBlockIdRanges`,
`PlanRanges` and `PlanBundleCopies` are the three planners. A step may fail after
the plan of one bank or the copies of one bank.

`LayerwiseConnector` puts both sides of the connector together. No step of the one
reads what the other writes, so plans are explored where no request runs.

### RankMailbox, SharedRetrieve

`wire[p]` are envelopes broadcast to rank `p`, `box[p]` those read and waiting
for their thread, `reader[p]` the thread that read a marker and joins the
all-reduce for the rank. `calls[k]` are the all-reduces rank `k` entered, paired
by their order. `SharedRetrieve` has one thread per rank, request and KV group;
`pc[t]` names the stretch: restore, agreement, find, probe, capacity, fetch, pin,
prepare, publish and move per layer, final. `refs`, `pins`, `cached` and `known`
are per thread. A leader may fail at any place where the code can raise, told by
an envelope where the code sends one and untold where it does not.

### PeerLink, PullPipeline, PeerTransfer

`link` is the client's handshake, `cpeer` and `speer` the two peer tables. A
lookup is a coroutine `st[l]` that shares one socket under `lookup_lock`; the
server's request handler (`srv`), Done handler and sweep run on one loop.
`holds[l]` counts the server's references and pins, `pending` is
`pending_pull_resources`. A timed-out request may be sent again (`tries`), the
peer may restart. `PullPipeline` has the host and two streams: `transport` (reads)
and `scatters`; `content` says whose pages a pool holds and `wrong` collects
proxies whose KV blocks received others. Without a transport stream (hixl) reads
are synchronous.

## 3. What is checked

| Run | Instance | Shows | Distinct states |
|---|---|---|---|
| `writeback` | 2 publications under one identity that share a page, budget below their sum, one restore attempt, eviction | `TypeOK`, `OwnersReachable`, `LedgerExact`, `BudgetRespected`, `ReleasedOnlyWhenDurable`, `ShutdownSafe`, `OwnershipExact`, refinement of `CheckpointLifecycle` | 1,175,908 |
| `writeback_close` | 1 publication, freezes, alias removal, fairness | `CloseTerminates`, `OwnersSettle` | 216,878 |
| `reader_spill` | 1 publication of 2 windows, a reader, eviction | `NoFalseMiss`, `ReaderRefsExact` | 1,563,398 |
| `worker_owners` | 2 generations, 1 restore, a single staging slot, fairness | `StagingSettled`, `CancelIsFinal`, `SealedIsSettled` | 283,084 |
| `pd` | 3 tasks of 2 prefillers, 2 chunks, every mode with its faults, fairness | `SenderExact`, `ReceiverExact`, `ReadsPinned`, `PagesReturned` | 293,493 |
| `remote_fill` | a transfer with a prefix and a push window and 3 adverse events; two transfers of one page without any | `PushOwnsPages`, `AdmittedIsComplete`, `QueueExact`, `FillSettles` | 164,954 |
| `engine_store` | two filling, a live and two plain requests of 2 or 3 pages, at most 4 direct puts, queue limits of 1 | `FreedUnread`, `SavedIsStored`, `OffersWhole`, `EngineSettles` | 203,384 |
| `saved_whole` | the plain request with a tail | `SavedIsWhole` is **violated** | |
| `layerwise_prefill` | 3 layers on 2 banks; two requests with a common prefix; one alone with 2 adverse events; one that finds its prompt cached, the remote copy possibly lost; without a request: blocks of 2, chunks of 4, bundles of 6 tokens, 8 requests, 3 pairs of block tables, 4 steps | `BanksIntact`, `PagesHeld`, `FinishedIsDurable`, `PrefillEnds`, `PlansExact` | 149,925 |
| `retrieve` | 2 ranks, 2 pages, 2 layers, 2 adverse events; a checkpoint beside a remote fill, a plain load, a direct one (1 adverse event) | `AgreementExact`, `ViewsBacked`, `PagesBalanced`, `LoadsEnd` | 430,031 |
| `peer` | 2 lookups of 2 chunks, push over hccl, eager pull over hixl, delayed pull over hcomm, 2 tries, 2 adverse events | `PagesExact`, `ReadsHeld`, `PoolsIntact`, `PeerSettles` | 281,940 |
| `hixl_pools` | delayed pull over hixl, no adverse event | `PoolsIntact` is **violated** | |

Some properties join two parts that are stated apart in their module:
`OwnershipExact` is `RefsExact` and `InFlightOwned`; `OwnersSettle` is
`CancelledOwnersReleased` and `RestoredIsRetired`; `StagingSettled` is
`StagingExact` and `ClosedClean`; `CancelIsFinal` is `NoOrphanOffer` and
`ReadyIsFinal`; `SenderExact` is `SenderRefsExact` and `PinnedBounded`;
`ReceiverExact` is `ReceiverRefsExact` and `VisibleIsBeingWritten`; `PagesExact`
is `HoldsExact` and `BuffersExact`; `OffersWhole` is `WindowsCover` and
`SourcesWhole`; `EngineSettles` is `FinishedIsFreed` and `CallsReturn`; `PlansExact` is `RowsExact` and `PlannersAgree`.

**Bounds.** Sharing needs two publications with a page in common, displacement
two under one identity, and a partial spill two windows (one per group); budget
`Limit` lies between one and two checkpoints, so that both acceptance and refusal
occur. A single staging slot makes `capture` meet a busy table. In PD, three
tasks of two prefillers with overlapping chunks give "already sent" answers across
prefillers, a full buffer and a high-water mark (2 of 4 pages) that one batch of
two fills. In remote fill a lost reply, a late service of the lost request and a
third event suffice for every pair of failures to meet; a decoder cache of two
pages with one of them filled makes reservations evict. Direct store: a queue of
one makes every submission wait for an earlier one, two full pages and a tail give
holes below a stored page. `f` computes two of its three pages with one adverse event
left; `u` has one full page stored and a tail that is stored for both groups, for one
or for none, and may come with a base past it; `l` offers its live pages; `p`, a page
and a tail, meets two adverse events, or one and a store of the store worker; `q` is two
full pages, stored in a step that may address the last one only. Two banks and three layers are the smallest instance
in which a bank is reused within a step and the order of reuse wraps. Two
passive-side threads per request and two agreements in flight are what the
mailbox needs to mix them up; two layers give a failure between layers. Four
proxies in pools of one page make each pool go round twice. Deadlock checking is
off: after `close()`, or when all requests are done, the system may stop; that
nobody is left waiting is what the liveness properties say.

**Fairness.** Weak fairness of the executor, the monitor, the Done listener, the
allocation loop, put calls, `close()` and a `forget` that has begun (`CallStep`): all
are threads that run while they can, every wait in them has a timeout or is woken, and native transfers end or
report an unknown outcome. `poll()` has strong fairness in `CheckpointWorker`:
vLLM calls it at the end of every worker step while a job exists, however many
other calls the step carries, so `cancel` cannot starve it. The later modules
assume one weak-fairness condition over `Progress`, the disjunction of what
threads, streams, sockets and maintenance do by themselves (`PeerTransfer`: one
for the client's and one for the server's side; `SharedRetrieve`: `Next`, all of
whose steps belong to running threads, so that it only says the system does not
stop while a thread can go on). That is weaker than fairness of each step. Publications, forgets,
restores, loads, preemptions, shutdowns and lost messages are never assumed.

**Assumptions the code makes, and the models with it.** In PD no deadline is
assumed: the TTL of pinned pages may pass at any moment, also in delayed mode,
and `ReadsPinned` names the batches it passed for. In `PeerTransfer` the TTL is
longer than an exchange and an eager read; a receive timeout is longer than a load; a timed-out push of the peer has stopped writing. The peer's
handshake sockets have no timeouts. A peer restarts only while the link is up,
and a load begins when reads left behind by an earlier one have run. A rank's
indexer thread passes its gate when the latent thread has ended. Remote copies
are lost only before a request starts.

### Disagreements with documentation

`hixl_pools` checks what a comment says and TLC refutes it:
`npu_connectors.py:1622-1624` says the per-pool scatter events "prevent the next
RDMA write into a pool from racing with a scatter that is still reading from the
same pool". The wait on the event needs the channel's transport stream, which the
hixl channel does not have; its synchronous read of batch `i + 2` overwrites the
pool before the scatter of batch `i` has run.

`saved_whole`: `cache_engine.py:4150` calls the ends that the adapter records
"successfully persisted group frontiers", and lines 3603-3604 say "Existing pages
between missing pages are part of the same contiguous committed prefix". When the
planner rejects the full pages of a final call and the CPU repair stores less than
all of them, the tail is planned from past them and put alone, and line 4093 commits
over the hole. `SavedIsStored` names that hole (`PassedOver`): full pages nobody
submitted, below a tail page of their group that was put.

The others met while modelling are excluded by name from the property
that would see them, or noted at their hazard in `PROJECT.json`:

* `docs/local_preemption_checkpoints.md:83`, "Cancellation during publication
  cannot resurrect an offer." The flag is tested before the pages are submitted
  and the offer made; a cancel in between is followed by the offer. `poll()`
  removes it, which `NoOrphanOffer` confirms.
* `checkpoint_writeback.py:188`, `close()` drains "native owners before allocator
  shutdown". A forget of the lookup server that popped its records before `close()`
  listed the manifests, and submits their retirement after the executor was shut
  down, raises; the popped pages stay charged and referenced. `ShutdownSafe`
  (`Overtaken`) and `CancelledOwnersReleased` (`stranded`) name exactly those pages.
* `transfer_context.py:15`, "exactly once when all proxies are consumed". The
  connector sends Done for every context a load touched; proxies of the batch that
  were not loaded stay on offer and point at pages the prefiller frees.
  `ReadsPinned` names them (`Leftover`).
* `receiver_mixin.py:99-100`, "undo already-stored chunks". A key is visible as soon
  as it is put; when a request removed it before the batch is rolled back, its page
  is released a second time. `ReceiverRefsExact` counts those releases (`twice`).
* `sender_mixin.py:237`, "Main thread hasn't registered yet". The Done of a batch
  whose chunks were all present arrives after the batch was processed and is
  remembered for ever.
* `sender_mixin.py:439-440`, "this will eventually unblock". Not for a batch
  larger than the high-water mark; the instance has none.
* `cache_engine.py:11175-11179` relies on the reader of a marker to report. When
  the leader's preflight raised without an envelope, the passive latent thread
  reads the marker of its own request and waits (line 11180) for its indexer,
  which waits for the gate that only the latent thread opens (`Wedged`).
* `p2p_backend.py:449`: a lookup that is sent again under its id overwrites the
  pending entry of the first answer, whose pages stay pinned.
* `hccl_channel.py:324`: memory registration handled before the accepting thread
  stored its handle raises; no reply is sent and the client waits for ever.

## 4. What is proved

Every theorem holds for all values of the constants that satisfy the named
assumption of its module: finite sets where something is counted, positive sizes,
marker values outside the sets they mark. Nothing bounds the number of requests,
pages, ranks, layers, lookups or adverse events. Where a theorem has a hypothesis
of its own it is named below, with the reason. TLC checked each inductive
invariant on the run of its module before it was proved.

### The retention store (`ConstantsAssumption`: pages do not overlap on the heap)

* `TypeCorrect`: `Spec => []TypeOK`. Inductive as it stands, because `TypeOK`
  says which thread states name a publication and how far a spill may count.
* `OwnersAlwaysReachable`: `Spec => []OwnersReachable`. Needs `Shape`, that is
  `TypeOK`, `PublishOnce` (a publication is queued, running or finished, never
  two of these, so a record is created once), `OwnersReachable` and `Batches`
  (which holder sites are empty in which thread state).
* `LedgerCorrect`: `Spec => [](LedgerExact /\ BudgetRespected)`, from `Shape`.
  The argument counts sites: filling an empty site adds one charge per page,
  emptying it takes one away, and moving pages from one site to an empty one
  changes nothing. That the target sites are empty is what `Shape` supplies.
  `BudgetNeverExceeded` states the budget alone.
* `DurableBeforeRelease`: `Spec => []ReleasedOnlyWhenDurable`, with
  `SpillProgress` (the windows a spill counts as written are stored).
* `OwnershipAlwaysExact` and `ShutdownAlwaysSafe`. The reference count of a page is the number of its
  *live* sites (jobs, charged references, the cache, a thread between acquiring
  and charging), so each step has to be balanced: it changes the count of a page
  and the set of its live sites alike. `Ownership` adds to that what each thread
  has in hand, that a spill keeps its record whole, that popped pages are with the
  call that popped them, behind a queued retirement or stranded (`RetireQueued`), and
  how far `close()` has come. `ShutdownSafe` follows: with queue, records and threads
  empty only the cache is left as a site, and the pages of a forget that `close()`
  overtook. That those are the only ones needs that the worker's own
  forgets end before the executor goes.
* `StoreImplementsLifecycle`: `Spec => ImplementsLifecycle`, the refinement of
  `CheckpointLifecycle`. Needs `OfferOnce` (a visible manifest has finished its
  publication; remote copies belong to known records) besides `Shape` and
  `SpillProgress`.

* `NeverFalseMiss` and `ReaderRefsAlwaysExact`, in `CheckpointReaderProofs`, for
  the specification with the reading thread. The reader changes references and its
  own state only, so everything proved of the store carries over (`StoreUntouched`).
  What the reader relies on is that the store goes one way (`OneWay`): a record
  leaves only by being cancelled, and neither a cancellation nor a confirmation is
  taken back. Hence `ReadRecord`: a read that misses a page locally does so because
  its record was cancelled or confirmed meanwhile, and it gathers only what was
  confirmed, which is on the remote side as a whole (`RemoteStored`). References
  balance because each step changes the count of a page and the number of its
  holders alike (`Moved`); slots may share a page, so a release lowers it once for
  each slot that holds it.

### The checkpoint worker (`WorkerAssumption`)

`StagingAlwaysSettled` and `CancellationIsFinal` come from one invariant,
`WorkerInv`. Neither property is inductive: that a cancelled key has no offer
depends on the offer being withdrawn by the poll that still has to come, hence
`NotYetPublic` (a job whose publication has not ended has no offer) and `ToldInOrder`
(of a job that lives only "captured" was said, and "ready" is said when it is
removed); that nothing is left after `close()` depends on `QueueOnce` (the executor
holds each waiting publication once) and `ClosingSettled` (no restore is under way
once `close()` began).

### Prefill/decode disaggregation (`PDAssumption`)

`PDInv` has three parts. The prefiller's relates references and the pinned counter
to a task's place in the exchange (`Answered`: which answer can be under way in
which state; `RoomKept`: the room the back-pressure wait found is there until the pages
are registered; `AwaitDone`: which pages may await a Done).
The decoder's splits a batch into what is stored, allocated and rolled back. The
proxies' says when a Done may exist. None of the three theorems has a hypothesis.

* `SenderAlwaysExact`: the whole of the prefiller's part.
* `ReceiverAlwaysExact` needs `TakenOnce`: what a push request put is still its own
  or was removed by a request, and a batch that was taken back is answered and
  never served again, so that a page is released at most once too often.
* `ReadsAlwaysPinned` needs `DonesSent` (a Done the prefiller sees was sent by the
  batch's context), `LoadsFresh` (a proxy under load is one of a batch that is
  served or was granted, and no request consumed it) and `StaysPinned` (without a
  Done and a sweep a granted batch awaits its Done with all its pages).

### Remote fill (`DecoderAssumption`, `CoordinatorAssumption`)

The theorems are about decoder, sessions and coordinator together, with every
adverse event any number of times. One invariant, `IInv`, serves them all. It
speaks of one transfer at a time, except for the cache, the pool and the sum of the
bytes; a step moves one transfer, or the decoder moves all in the same way.

* `TypesAlwaysHold`: `Spec => []TypeOK`. Needs that the windows and jobs that are
  touched exist, which the session's own invariants say.
* `PushAlwaysOwnsPages`. That a push ends before its pages go is not inductive: it
  rests on who may move the session (`SessionOwned`: the one job whose turn it is,
  `finish()` or `abort()`; a session that was raised is never released), on which
  request may be under way (`CallMatches`), on what RESERVE answered being what is
  hidden (`Reservation`), and on the proof of ARM being true when it is used
  (`PushArmed`). Requests that were given up and are served much later need no
  clause of their own: they reserve a window nobody reserved or arm one that is
  reserved, which these clauses allow at any time.
* `AdmittedAlwaysComplete`, with `SuccessWritten` (success is reported of pages that
  were written, and what such a window keeps hidden was written) and
  `LocalCommitted` (a committed transfer stays so).
* `QueueAlwaysExact`, with `JobsAwaited`, `PoolQueued` (a job waits in the pool once)
  and `ChargeExact`. Charges are cardinalities of sets of (job, page) pairs, so a
  step that takes or gives back the charge of one job is a union with, or the
  difference of, a disjoint set.

### The direct store (`StoreAssumption`)

`FreedAlwaysUnread`: `Spec => []FreedUnread`. Blocks are given back when a
request's count is zero, so the invariant relates the count to what reads:

* `Covers`: the count of a request is at least the number of its unsettled puts,
  its stores about to enter, in and behind the queue, and its final wait. It is
  not equal, because a worker thread that dies leaves its own share behind; only
  this direction matters to the blocks. Each step moves one item or takes it away
  with the count, and two threads may settle a put, but only the first lowers the
  count (`SettledKeeps`).
* `PutsKnown`: a put that is settled has ended, and every put in flight is among the
  futures of its request until the worker thread dies. A wait that has emptied the
  futures therefore leaves nothing in flight, which is what `close()` relies on.
* `Failures`: the failed puts a wait has met are not settled before the replay
  settles them all. A count lowered twice for them would free blocks early.
* `Phases`: a call is made for a running request only and stays with it until it
  ends, so nothing is submitted or queued for blocks that were given back.

### Shared retrieval (`RetrieveAssumption`)

* `PagesAlwaysBalanced`, from `LoadsHeld`: for each place `pc[t]` of a thread, on
  the owner's and on the view side, how references, pins, views and cache entries
  relate. A step concerns its own thread only (`OthersSame`), so one lemma per
  action suffices.
* `AgreementsAlwaysExact`, from `AgreementInv`. All-reduces are paired by order and
  a rank may join through a thread that reads another thread's marker; the
  invariant therefore says that the leader announces one agreement at a time
  (`LockHeld`, `LeaderOnce`), that every rank's n-th call is for the leader's n-th
  agreement and at most the last one is missing (`Aligned`), that at most one marker
  is under way to a rank, for the call it misses (`OneMarker`), and that outcomes and
  results carry what all ranks brought
  (`CallsBrought`, `ResultsBrought`, `OutcomesTold`, `AgreedTold`).
* `ViewsAlwaysBacked`, from `ViewsInv`: envelopes tell the truth about the owner's
  progress (`Posted`), and a rank with views is behind its owner (`Followed`,
  `CompactPast`); that an owner past its preflight holds its pages is `LoadsHeld`.

### Peers (`PeerAssumption`, `PipelineAssumption`)

* `PagesAlwaysExact`: `HoldsExact` needs `FirstOnly` (the server has no entry of a
  lookup whose only request it has not looked up yet), and that only what was sent
  is received (`Asked`).
* `ReadsAlwaysHeld`: `EntriesInv` says that the server has an entry while an
  answer with hits is on its way to a lookup that still waits for it and while the
  lookup uses it, and that a Done exists only for lookups that are over. For the
  reads queued on the transport stream `PipeInv` gives the place of every batch:
  queued operations are consecutive, and a load that did not raise leaves nothing
  behind.
* `PoolsAlwaysIntact`: `Queued` fixes the event of each queued operation, hence a
  scatter never runs before its read nor a read before the scatter before last, and
  `Filled` (a pool has its batch between the two) is inductive. The hypothesis
  `<<"delay", "hixl">> \notin Setups` leaves out the combination for which run
  `hixl_pools` refutes the property.

### What is only model-checked

Liveness (`CloseTerminates`, `OwnersSettle`, `SealedIsSettled`, `PagesReturned`,
`FillSettles`, `EngineSettles`, `PrefillEnds`, `LoadsEnd`, `PeerSettles`): fairness
and `ENABLED` are beyond the prover. What the direct store records as saved and
offers to a decoder (`SavedIsStored`, `OffersWhole`), layer-wise prefill and DMA
plans: not proved. `DmaPlans` compares planners that walk over
their input, which would need induction over data.

## 5. Not modelled

Tensor contents, copies and layouts beyond which page is where; token hashing;
KV-format detection; blending; logging, timing and diagnostics; import-time
patches; the MindSpore port; native kernels. Process crashes of the checkpoint
parts (their state is in memory only and dies with the process).

Of partly modelled components:

* *Remote fill*: the decoder registry shared by several ranks, the wire codecs,
  negotiation beyond its outcome.
* *Cache engine*: token-wise store and retrieve of the base class, lookups,
  metrics, the store of shared CPU pages by one rank for all; the path that sends
  one handle per layer without a final status.
* *NPU connectors*: tensor gathers and scatters, sparse graphs, layer-wise
  overlap without banks.
* *Transfer channels*: native agents, what a transfer does on the wire.
* *vLLM adapter*: building requests from scheduler output.
* *Direct store planning*: address arithmetic of the copies; the planner's
  verdict is any accepted subset of pages.

Two numbers are abstracted to their outcome: the free-bytes credit of the
monitor, and elapsed time (deadlines, TTLs and back-offs may pass at any moment,
or not). In PD a task is not retried, each prefiller has one put
thread, and there is one decoder.

## 6. Plan

Modelling and proofs are complete as far as sections 4 and 5 go. What could come
next, in this order:

1. theorems for `BanksIntact` of `PrefillBanks`, `PagesHeld` and
   `FinishedIsDurable` of `LayerwisePrefill`;
2. theorems for `SavedIsStored` and `OffersWhole` of `DirectStore`;
3. the planners of `DmaPlans`, once induction over data can be used.
