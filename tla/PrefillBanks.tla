---------------------------- MODULE PrefillBanks ----------------------------
(***************************************************************************)
(* The NPU connector's side of layer-wise prefill.  HBM holds only Banks   *)
(* layers of a KV group: layer l uses bank l % Banks, and every bank has a *)
(* DMA stream of its own on which its host-to-device loads and its         *)
(* device-to-host saves are queued in order.  The host thread only submits *)
(* work; the device runs the streams concurrently, ordered by events.      *)
(*                                                                         *)
(* A stream is the sequence of all operations ever submitted to it, and    *)
(* done[s] counts those it has run.  An event is the place <<s, n>> after  *)
(* operation n of stream s.  A wait_event becomes part of the operation    *)
(* submitted next to the waiting stream.                                   *)
(***************************************************************************)
EXTENDS Integers, FiniteSets, SequencesExt

CONSTANTS Reqs,     \* requests
          Prompt,   \* Prompt[r]: the keys of r's pages, one page a chunk
          NLayers,  \* layers of the KV group
          Banks     \* layerwise_prefill_bank_count

ASSUME BanksAssumption ==
  /\ NLayers \in Nat \ {0} /\ Banks \in Nat \ {0}
  /\ \A r \in Reqs : Prompt[r] \in Seq(STRING) /\ Prompt[r] # <<>>

VARIABLES dev,      \* what the host submitted: the streams and their barriers
          done,     \* operations each stream has run
          cell,     \* cell[r][b][i]: the layer whose KV of chunk i bank b holds
          saved,    \* saved[p]: the layers of host page p that hold their own KV
          conn      \* the connector's event tables

bankVars == <<dev, done, cell, saved, conn>>

Layers == 0 .. NLayers - 1
BankIds == 0 .. Banks - 1
Compute == -1                       \* torch.npu.current_stream()
Streams == {Compute} \cup BankIds
Positions(r) == 1 .. Len(Prompt[r])
Pages == UNION {{<<r, i>> : i \in Positions(r)} : r \in Reqs}
KeyOf(p) == Prompt[p[1]][p[2]]
Bank(l) == l % Banks

(* Streams and events. *)
Done(e) == done[e[1]] >= e[2]
AllDone(es) == \A e \in es : Done(e)
Drained(s) == done[s] = Len(dev.q[s])
BanksDrained == \A b \in BankIds : Drained(b)
Tip(d, s) == <<s, Len(d.q[s])>>
Enqueue(d, s, op) ==
  [d EXCEPT !.q[s] = Append(@, [op |-> op, waits |-> d.bar[s]]), !.bar[s] = {}]
WaitEvents(d, s, es) == [d EXCEPT !.bar[s] = @ \cup es]

Attend(l, work) == [k |-> "attend", l |-> l, work |-> work]
Load(l, r, src) == [k |-> "load", l |-> l, r |-> r, src |-> src]
Save(l, p) == [k |-> "save", l |-> l, p |-> p]

NoUse == [gen |-> -1, l |-> -1]
NoTail == [gen |-> -1, ev |-> <<Compute, 0>>]
NoRequest == [owners |-> {}, loads |-> {}, stores |-> {}, unfenced |-> {}]

NoWork == [q |-> [s \in Streams |-> <<>>], bar |-> [s \in Streams |-> {}]]
EmptyBanks == [r \in Reqs |-> [b \in BankIds |-> [i \in Positions(r) |-> -1]]]
NoEvents == [gen |-> 0, uses |-> [b \in BankIds |-> NoUse], tails |-> [b \in BankIds |-> NoTail],
             load |-> {}, req |-> [r \in Reqs |-> NoRequest]]

-----------------------------------------------------------------------------
(* The host's calls, as operators on x = [dev, conn]. *)

\* batched_to_gpu, one layer: the bank's FIFO orders the load behind the
\* bank's last use, its source pages are owned until the request is released.
RequireUse(x, l) == x.conn.uses[Bank(l)] = [gen |-> x.conn.gen, l |-> l]
MayLoad(x, l) == l >= Banks => RequireUse(x, l - Banks)
OwnSources(x, r, src) ==
  [x EXCEPT !.conn.req[r].owners = @ \cup {src[i] : i \in DOMAIN src}]
SubmitLoad(x, l, r, src) == [x EXCEPT !.dev = Enqueue(@, Bank(l), Load(l, r, src))]
RecordLoad(x, l, r) ==
  LET e == Tip(x.dev, Bank(l))
  IN [x EXCEPT !.conn.load = @ \cup {[l |-> l, r |-> r, ev |-> e, gen |-> x.conn.gen]},
               !.conn.req[r].loads = @ \cup {e}]
LoadLayer(x, l, r, src) == RecordLoad(SubmitLoad(OwnSources(x, r, src), l, r, src), l, r)
RetainUnfenced(x, l, r) == [x EXCEPT !.conn.req[r].unfenced = @ \cup {Bank(l)}]

\* wait_for_layerwise_prefill_load: the layer's row of load events is
\* consumed; without one the bank's tail of this generation is waited for.
RowOf(x, l) == {e \in x.conn.load : e.l = l}
TailWait(x, b) == IF x.conn.tails[b].gen = x.conn.gen THEN {x.conn.tails[b].ev} ELSE {}
WaitForLoad(x, l) ==
  LET row == RowOf(x, l)
      events == IF row = {} THEN TailWait(x, Bank(l)) ELSE {e.ev : e \in row}
  IN [x EXCEPT !.conn.load = @ \ row, !.dev = WaitEvents(@, Compute, events)]

\* record_layerwise_prefill_bank_use, after the layer's attention was queued.
RecordUseOnly(x, l, e) == [x EXCEPT !.conn.uses[Bank(l)] = [gen |-> x.conn.gen, l |-> l]]
RecordUse(x, l, e) ==
  [x EXCEPT !.dev = WaitEvents(@, Bank(l), {e}), !.conn.uses[Bank(l)] = [gen |-> x.conn.gen, l |-> l]]
AttendLayer(x, l, work) ==
  LET y == [x EXCEPT !.dev = Enqueue(@, Compute, Attend(l, work))]
  IN RecordUse(y, l, Tip(y.dev, Compute))

\* batched_from_gpu, one layer.
SaveLayer(x, l, p) ==
  LET y == [x EXCEPT !.dev = Enqueue(@, Bank(l), Save(l, p))]
  IN [y EXCEPT !.conn.tails[Bank(l)] = [gen |-> y.conn.gen, ev |-> Tip(y.dev, Bank(l))]]

\* The last event of every bank that saved a layer of the page.
LastStoreEvents(x, p) ==
  {<<b, n>> \in UNION {{b} \X (1 .. Len(x.dev.q[b])) : b \in BankIds} :
     /\ x.dev.q[b][n].op.k = "save" /\ x.dev.q[b][n].op.p = p
     /\ \A m \in n + 1 .. Len(x.dev.q[b]) :
          ~(x.dev.q[b][m].op.k = "save" /\ x.dev.q[b][m].op.p = p)}
FinishAsyncStore(x, r, p) == [x EXCEPT !.conn.req[r].stores = LastStoreEvents(x, p)]

\* layerwise_prefill_store_fences: the tails of this generation.
StoreFences(x) == {x.conn.tails[b].ev : b \in {b \in BankIds : x.conn.tails[b].gen = x.conn.gen}}

\* reset_layerwise_prefill_transfer_state, the streams synchronized.
ResetTransfers(x) ==
  [x EXCEPT !.conn.gen = @ + 1, !.conn.load = {}, !.conn.uses = [b \in BankIds |-> NoUse]]

\* release_layerwise_prefill_dma_cache blocks until nothing the request
\* started can touch its pages, then gives up the sources it owned.
StoresWaited(r) == AllDone(conn.req[r].stores)
ReleaseFenced(r) == StoresWaited(r) /\ AllDone(conn.req[r].loads)
ReleaseReady(r) ==
  /\ \A b \in conn.req[r].unfenced : Drained(b)
  /\ StoresWaited(r)
  /\ AllDone(conn.req[r].loads)
ReleaseDmaCache(x, r) == [x EXCEPT !.conn.req[r] = NoRequest]

-----------------------------------------------------------------------------
(* The device: every stream runs its next operation when its waits are over. *)
Runnable(s) == done[s] < Len(dev.q[s]) /\ AllDone(dev.q[s][done[s] + 1].waits)
HeadOp(s) == dev.q[s][done[s] + 1].op

RunAttend(op) ==
  /\ cell' = [r \in Reqs |-> [b \in BankIds |-> [i \in Positions(r) |->
                IF b = Bank(op.l) /\ <<r, i>> \in op.work THEN op.l ELSE cell[r][b][i]]]]
  /\ UNCHANGED saved
RunLoad(op) ==
  /\ cell' = [cell EXCEPT ![op.r][Bank(op.l)] = [i \in Positions(op.r) |->
                IF i \in DOMAIN op.src
                THEN IF op.l \in saved[op.src[i]] THEN op.l ELSE -1
                ELSE @[i]]]
  /\ UNCHANGED saved
RunSave(op) ==
  LET good == cell[op.p[1]][Bank(op.l)][op.p[2]] = op.l
  IN /\ saved' = [saved EXCEPT ![op.p] = IF good THEN @ \cup {op.l} ELSE @ \ {op.l}]
     /\ UNCHANGED cell
RunStream(s) ==
  /\ Runnable(s)
  /\ LET op == HeadOp(s)
     IN \/ op.k = "attend" /\ RunAttend(op)
        \/ op.k = "load" /\ RunLoad(op)
        \/ op.k = "save" /\ RunSave(op)
  /\ done' = [done EXCEPT ![s] = @ + 1]
  /\ UNCHANGED <<dev, conn>>

(* What an operation touches: the cells of a bank and the host pages. *)
Cells(op) == IF op.k = "attend"
             THEN UNION {{<<w[1], Bank(op.l), i>> : i \in 1 .. w[2]} : w \in op.work}
             ELSE IF op.k = "load" THEN {<<op.r, Bank(op.l), i>> : i \in DOMAIN op.src}
             ELSE {<<op.p[1], Bank(op.l), op.p[2]>>}
HostPages(op) == IF op.k = "load" THEN {op.src[i] : i \in DOMAIN op.src}
                 ELSE IF op.k = "save" THEN {op.p} ELSE {}
Conflict(o, p) == \/ Cells(o) \cap Cells(p) # {} /\ {o.k, p.k} # {"save"}
                  \/ HostPages(o) \cap HostPages(p) # {} /\ o.l = p.l /\ {o.k, p.k} # {"load"}
PendingOps == UNION {{dev.q[s][n].op : n \in done[s] + 1 .. Len(dev.q[s])} : s \in Streams}

\* Two streams never run operations on the same bank rows or host page layer
\* at once, and attention always finds the rows of its own layer: the KV of
\* every earlier chunk as the host page keeps it, neither the layer that used
\* the bank before nor the one loaded next.
BanksIntact ==
  \A s \in Streams : Runnable(s) =>
    /\ \A t \in Streams \ {s} : Runnable(t) => ~Conflict(HeadOp(s), HeadOp(t))
    /\ HeadOp(s).k = "attend" =>
         \A w \in HeadOp(s).work : \A i \in 1 .. w[2] - 1 :
           cell[w[1]][Bank(HeadOp(s).l)][i] = HeadOp(s).l
=============================================================================
