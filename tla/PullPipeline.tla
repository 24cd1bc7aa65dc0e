---------------------------- MODULE PullPipeline ----------------------------
(***************************************************************************)
(* _remote_batched_to_gpu of npu_connectors.py: the proxies of a load are  *)
(* read from the peer into two pools of registered buffers in turn, on the *)
(* channel's transport stream, while the batch before is scattered into    *)
(* the KV cache on the load stream.  A stream runs its operations in       *)
(* order; only events order one stream after the other, and the host runs  *)
(* ahead of both.  A channel without a transport stream (hixl) reads       *)
(* synchronously.                                                          *)
(***************************************************************************)
EXTENDS Integers, Sequences

CONSTANT BufferPages  \* pages of the registered buffer the pools are taken from

ASSUME PipelineAssumption == BufferPages \in Nat \ {0}

VARIABLES
  pipe,       \* the host: [pc, items, next, events, pools, raised]; next is the batch
              \* to read, events[p] the scatter last recorded for pool p (0: none)
  transport,  \* reads submitted and not run: [batch, pool, after]
  scatters,   \* scatters submitted and not run: [batch, pool, after]
  ran,        \* [read, scatter]: how many of this load's operations have run
  content,    \* content[p]: the proxies whose pages are in pool p
  wrong       \* proxies whose KV blocks were filled with something else

pipeVars == <<pipe, transport, scatters, ran, content, wrong>>

\* max_pipeline_depth: half of the buffer, but at least one page
Depth == IF BufferPages < 2 THEN 1 ELSE BufferPages \div 2

Batches(items) == (Len(items) + Depth - 1) \div Depth

Batch(b) == {pipe.items[j] : j \in {n \in 1..Len(pipe.items) : (n - 1) \div Depth = b - 1}}

PoolOf(b) == b % 2

PipeIdle == [pc |-> "idle", items |-> <<>>, next |-> 0, events |-> [p \in {0, 1} |-> 0],
             pools |-> 0, raised |-> FALSE]

PipeInit ==
  /\ pipe = PipeIdle /\ transport = <<>> /\ scatters = <<>>
  /\ ran = [read |-> 0, scatter |-> 0] /\ content = [p \in {0, 1} |-> {}] /\ wrong = {}

\* A load of proxies begins: both pools are allocated, or an allocation raises and
\* the finally clause follows at once.  Reads a load left behind when it raised have
\* run by then.
PipeBegin(items, fails) ==
  /\ pipe.pc = "idle" /\ transport = <<>> /\ items # <<>>
  /\ pipe' = [PipeIdle EXCEPT !.pc = IF fails THEN "finally" ELSE "read",
                              !.items = items, !.next = 1, !.raised = fails,
                              !.pools = IF fails THEN 0 ELSE 2]
  /\ ran' = [read |-> 0, scatter |-> 0]
  /\ UNCHANGED <<transport, scatters, content, wrong>>

\* Mutant: the read does not wait for the scatter that still uses its pool.
NoWait(p) == 0

\* transport_stream.wait_event(pool_scatter_events[p])
AwaitScatter(p) == pipe.events[p]

\* submit_resolve_batch: a read on the transport stream, or at once without one;
\* good is what the peer's pages hold.
SubmitRead(streamed, good) ==
  LET b == pipe.next  p == PoolOf(pipe.next)
  IN  /\ pipe.pc = "read"
      /\ IF streamed
         THEN /\ transport' = Append(transport, [batch |-> Batch(b), pool |-> p,
                                                 after |-> AwaitScatter(p)])
              /\ UNCHANGED content
         ELSE content' = [content EXCEPT ![p] = Batch(b) \cap good] /\ UNCHANGED transport
      /\ pipe' = [pipe EXCEPT !.pc = IF b > 1 THEN "scatter"
                                     ELSE IF b = Batches(pipe.items) THEN "last" ELSE "read",
                              !.next = b + 1]
      /\ UNCHANGED <<scatters, ran, wrong>>

\* The read raises.  What was submitted before it stays on its stream.
ReadRaises ==
  /\ pipe.pc = "read"
  /\ pipe' = [pipe EXCEPT !.pc = "finally", !.raised = TRUE]
  /\ UNCHANGED <<transport, scatters, ran, content, wrong>>

\* _scatter_proxy_batch of the batch before the one just read, or of the last one,
\* after its read event; the scatter's own event is recorded for the pool.
SubmitScatter(streamed) ==
  LET b == IF pipe.pc = "scatter" THEN pipe.next - 2 ELSE pipe.next - 1
      left == pipe.next <= Batches(pipe.items)
  IN  /\ pipe.pc \in {"scatter", "last"}
      /\ scatters' = Append(scatters, [batch |-> Batch(b), pool |-> PoolOf(b),
                                       after |-> IF streamed THEN b ELSE 0])
      /\ pipe' = IF pipe.pc = "last" THEN [pipe EXCEPT !.pc = "finally"]
                 ELSE [pipe EXCEPT !.events[PoolOf(b)] = b,
                                   !.pc = IF left THEN "read" ELSE "last"]
      /\ UNCHANGED <<transport, ran, content, wrong>>

\* The transport stream runs its next read.
RunRead(good) ==
  /\ transport # <<>> /\ Head(transport).after <= ran.scatter
  /\ content' = [content EXCEPT ![Head(transport).pool] = Head(transport).batch \cap good]
  /\ transport' = Tail(transport)
  /\ ran' = [ran EXCEPT !.read = @ + 1]
  /\ UNCHANGED <<pipe, scatters, wrong>>

\* The load stream runs its next scatter: the blocks of its batch get what the pool
\* holds now.
RunScatter ==
  /\ scatters # <<>> /\ Head(scatters).after <= ran.read
  /\ wrong' = wrong \cup (Head(scatters).batch \ content[Head(scatters).pool])
  /\ scatters' = Tail(scatters)
  /\ ran' = [ran EXCEPT !.scatter = @ + 1]
  /\ UNCHANGED <<pipe, transport, content>>

\* Mutant: the host does not wait for the streams.
AtOnce == TRUE

\* load_stream.synchronize()
StreamsEnded == scatters = <<>>

\* The finally clause: the load stream is synchronised, the pools released and the
\* proxies consumed.
PipeEnd ==
  /\ pipe.pc = "finally" /\ StreamsEnded
  /\ pipe' = [pipe EXCEPT !.pc = "idle", !.pools = 0]
  /\ UNCHANGED <<transport, scatters, ran, content, wrong>>

=============================================================================
