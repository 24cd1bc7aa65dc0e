----------------------------- MODULE PDTransfer -----------------------------
(***************************************************************************)
(* Prefill/decode disaggregation, lmcache_ascend/v1/storage_backend/pd:    *)
(* prefillers hand KV chunks to one decoder.  In push mode the decoder     *)
(* allocates pages and the prefiller writes them; in the pull modes the    *)
(* prefiller pins its pages and advertises them, and the decoder reads     *)
(* them at once ("eager") or when a request needs them ("delay"), then     *)
(* sends a Done signal.  Per prefiller a put thread and a done-listener    *)
(* run; on the decoder the allocation loop and the NPU connector.          *)
(***************************************************************************)
EXTENDS Integers, FiniteSets

CONSTANTS
  Senders,   \* prefillers
  Tasks,     \* calls of batched_submit_put_task
  SenderOf,  \* the prefiller that makes the call
  KeysOf,    \* its chunk keys
  Keys,
  Modes,     \* "push", "eager" (pd_pull_mode), "delay" (and pd_delay_pull)
  Total,     \* pages of a prefiller's registered buffer
  Reserve,   \* pd_pull_backpressure_reserve_pct
  Faults,    \* Faults[m]: what fails in mode m
  None

\* _pull_pending_hwm
Hwm == (Total * (100 - Reserve)) \div 100

ASSUME PDAssumption ==
  /\ IsFiniteSet(Tasks) /\ IsFiniteSet(Keys) /\ None \notin Tasks
  /\ SenderOf \in [Tasks -> Senders] /\ KeysOf \in [Tasks -> (SUBSET Keys) \ {{}}]
  /\ Modes \subseteq {"push", "eager", "delay"}
  /\ Total \in Nat /\ Reserve \in 0..100
  /\ \A t \in Tasks : Cardinality(KeysOf[t]) <= Total
  /\ Faults \in [Modes -> SUBSET {"alloc", "transfer", "lost", "ttl"}]

VARIABLES
  mode,      \* how prefillers and decoder are configured
  state,     \* of a task: new, wait, reply, register, write, returned, raised
  refs,      \* refs[t][k]: ref_count of the prefiller's page for k in task t
  pending,   \* _pull_pending: pages of a task that await their Done
  count,     \* _pull_pending_pinned_count
  early,     \* _early_pull_done
  backoff,   \* prefillers whose circuit breaker is open
  lapsed,    \* history: delayed batches the TTL sweep released
  inbox,     \* requests on their way to the decoder's REP socket
  reply,     \* reply[t]: [kind, sent] once the decoder answered
  dones,     \* PullDoneSignals on their way
  rx,        \* the decoder's _mem_alloc_loop: [pc, task, todo, sent, new]
  data,      \* the decoder's store: the task that put each key, or None
  full,      \* <<t, k>>: decoder pages whose content has arrived
  rrefs,     \* rrefs[t][k]: ref_count of the decoder's page
  consumed,  \* <<t, k>>: proxies marked consumed
  doneSent,  \* batches whose transfer context sent its Done
  twice,     \* history: <<t, k>>: decoder pages a roll-back released a second time
  con        \* the NPU connector: [pc, items]

senderVars == <<state, refs, pending, count, early, backoff, lapsed>>
netVars == <<inbox, reply, dones>>
storeVars == <<data, full, rrefs, consumed, doneSent, twice>>
vars == <<mode, senderVars, netVars, rx, storeVars, con>>

Pull == mode # "push"
Fails(fault) == fault \in Faults[mode]
Active(t) == state[t] \in {"wait", "reply", "register", "write"}
Free(s) == \A t \in Tasks : SenderOf[t] = s => ~Active(t)
Go(t, where) == state' = [state EXCEPT ![t] = where]

\* n references more (or fewer) to the pages of S in task t
Count(ref, t, S, n) == [ref EXCEPT ![t] = [k \in Keys |-> @[k] + (IF k \in S THEN n ELSE 0)]]

-----------------------------------------------------------------------------
(* The prefiller's put thread: batched_submit_put_task *)

LivePages(s) == {page \in Tasks \X Keys : SenderOf[page[1]] = s /\ refs[page[1]][page[2]] > 0}

\* Lines 319-328: only the caller drops its references.
SkipTransfer(t) == UNCHANGED refs

\* The engine has filled pages of the buffer and calls the backend.  While the
\* circuit breaker is open nothing is sent and the caller drops the pages.
Begin(t) ==
  LET s == SenderOf[t]
  IN  /\ state[t] = "new" /\ Free(s)
      /\ Cardinality(LivePages(s)) + Cardinality(KeysOf[t]) <= Total
      /\ IF s \in backoff
         THEN Go(t, "returned") /\ SkipTransfer(t)
         ELSE Go(t, "wait") /\ refs' = Count(refs, t, KeysOf[t], 1)
      /\ UNCHANGED <<mode, pending, count, early, backoff, lapsed, netVars, rx, storeVars, con>>

\* _wait_for_backpressure
Room(t) == count[SenderOf[t]] + Cardinality(KeysOf[t]) <= Hwm

\* The pages are pinned and the request is sent.
Submit(t) ==
  /\ state[t] = "wait" /\ (Pull => Room(t))
  /\ refs' = Count(refs, t, KeysOf[t], 1)
  /\ inbox' = inbox \cup {t}
  /\ Go(t, "reply")
  /\ UNCHANGED <<mode, pending, count, early, backoff, lapsed, reply, dones, rx, storeVars, con>>

\* Mutant: a refused task keeps its pins.
DropCallerOnly(t) == refs' = Count(refs, t, KeysOf[t], -1)

\* The pins, and the caller's own references when the call returns.
DropAll(t) == refs' = Count(refs, t, KeysOf[t], -2)

\* The answer: a refusal opens the circuit breaker, an undecodable reply raises
\* with the pages pinned, and otherwise pages the decoder had are released.
Answer(t) ==
  /\ state[t] = "reply" /\ reply[t].kind # "none"
  /\ \/ /\ reply[t].kind = "failed"
        /\ DropAll(t) /\ Go(t, "returned")
        /\ backoff' = backoff \cup {SenderOf[t]}
     \/ /\ reply[t].kind = "error"
        /\ Go(t, "raised") /\ UNCHANGED <<refs, backoff>>
     \/ /\ reply[t].kind = "ok"
        /\ refs' = Count(refs, t, reply[t].sent, -1)
        /\ Go(t, IF Pull THEN "register" ELSE "write")
        /\ UNCHANGED backoff
  /\ UNCHANGED <<mode, pending, count, early, lapsed, netVars, rx, storeVars, con>>

\* Line 535
CameEarly(t) == t \in early

\* Registration under _pull_pending_lock; a Done that came first releases the
\* pages at once.  The caller's references go when the call returns.
Register(t) ==
  LET left == KeysOf[t] \ reply[t].sent
  IN  /\ state[t] = "register"
      /\ IF left = {} \/ CameEarly(t)
         THEN /\ early' = early \ {t}
              /\ refs' = Count(Count(refs, t, left, -1), t, KeysOf[t], -1)
              /\ UNCHANGED <<pending, count>>
         ELSE /\ pending' = [pending EXCEPT ![t] = left]
              /\ count' = [count EXCEPT ![SenderOf[t]] = @ + Cardinality(left)]
              /\ refs' = Count(refs, t, KeysOf[t], -1)
              /\ UNCHANGED early
      /\ Go(t, "returned")
      /\ UNCHANGED <<mode, backoff, lapsed, netVars, rx, storeVars, con>>

\* Push mode: batched_write fills the decoder's pages, or raises.
Write(t) ==
  LET left == KeysOf[t] \ reply[t].sent
  IN  /\ state[t] = "write"
      /\ \/ /\ full' = full \cup ({t} \X left)
            /\ refs' = Count(Count(refs, t, left, -1), t, KeysOf[t], -1)
            /\ Go(t, "returned")
         \/ /\ Fails("transfer") /\ left # {}
            /\ Go(t, "raised") /\ UNCHANGED <<full, refs>>
      /\ UNCHANGED <<mode, pending, count, early, backoff, lapsed, netVars, rx, data, rrefs,
                     consumed, doneSent, twice, con>>

BackoffExpires(s) ==
  /\ s \in backoff
  /\ backoff' = backoff \ {s}
  /\ UNCHANGED <<mode, state, refs, pending, count, early, lapsed, netVars, rx, storeVars, con>>

-----------------------------------------------------------------------------
(* The prefiller's listener: _handle_pull_done and the TTL sweep *)

\* Mutant: the pages are released but not taken off the count.
PopUncounted(t) ==
  /\ pending' = [pending EXCEPT ![t] = {}]
  /\ UNCHANGED count
  /\ refs' = Count(refs, t, pending[t], -1)

Pop(t) ==
  /\ pending' = [pending EXCEPT ![t] = {}]
  /\ count' = [count EXCEPT ![SenderOf[t]] = @ - Cardinality(pending[t])]
  /\ refs' = Count(refs, t, pending[t], -1)

HandleDone(t) ==
  /\ t \in dones
  /\ dones' = dones \ {t}
  /\ IF pending[t] # {} THEN Pop(t) /\ UNCHANGED early
     ELSE early' = early \cup {t} /\ UNCHANGED <<pending, count, refs>>
  /\ UNCHANGED <<mode, state, backoff, lapsed, inbox, reply, rx, storeVars, con>>

Sweep(t) ==
  /\ Fails("ttl") /\ pending[t] # {}
  /\ Pop(t)
  /\ lapsed' = IF mode = "delay" THEN lapsed \cup {t} ELSE lapsed
  /\ UNCHANGED <<mode, state, early, backoff, netVars, rx, storeVars, con>>

-----------------------------------------------------------------------------
(* The decoder's _mem_alloc_loop *)

RxIdle == [pc |-> "idle", task |-> None, todo |-> {}, sent |-> {}, new |-> {}]

Receive(t) ==
  /\ rx.pc = "idle" /\ t \in inbox
  /\ inbox' = inbox \ {t}
  /\ rx' = [RxIdle EXCEPT !.pc = "partition", !.task = t, !.todo = KeysOf[t]]
  /\ UNCHANGED <<mode, reply, dones, senderVars, storeVars, con>>

\* Mutant: a consumed proxy still counts as present.
PresentAnyway(k) == data[k] # None

\* _lookup: a consumed proxy counts as absent.
Present(k) == data[k] # None /\ <<data[k], k>> \notin consumed

\* One key of _partition_keys, under data_lock.  ref_count_up is a no-op on a
\* proxy.
Partition(k) ==
  /\ rx.pc = "partition" /\ k \in rx.todo
  /\ rx' = [rx EXCEPT !.todo = @ \ {k},
                      !.sent = IF Present(k) THEN @ \cup {<<data[k], k>>} ELSE @,
                      !.new = IF Present(k) THEN @ ELSE @ \cup {k}]
  /\ data' = [data EXCEPT ![k] = IF Present(k) THEN @ ELSE None]
  /\ rrefs' = IF Present(k) /\ mode # "delay" THEN Count(rrefs, data[k], {k}, 1) ELSE rrefs
  /\ UNCHANGED <<mode, full, consumed, doneSent, twice, senderVars, netVars, con>>

\* Eager: pages are allocated for all new keys, then read from the prefiller.
EagerRead ==
  /\ mode = "eager" /\ rx.pc = "partition" /\ rx.todo = {}
  /\ rx' = [rx EXCEPT !.pc = "read"]
  /\ rrefs' = Count(rrefs, rx.task, rx.new, 1)
  /\ UNCHANGED <<mode, data, full, consumed, doneSent, twice, senderVars, netVars, con>>

EagerReadEnd ==
  /\ rx.pc = "read"
  /\ rx' = [rx EXCEPT !.pc = "store", !.todo = rx.new]
  /\ full' = full \cup ({rx.task} \X rx.new)
  /\ UNCHANGED <<mode, data, rrefs, consumed, doneSent, twice, senderVars, netVars, con>>

\* Push: pages are allocated and put one by one.  Delay: proxies are.
StoreBegin ==
  /\ mode # "eager" /\ rx.pc = "partition" /\ rx.todo = {}
  /\ rx' = [rx EXCEPT !.pc = "store", !.todo = rx.new]
  /\ UNCHANGED <<mode, storeVars, senderVars, netVars, con>>

Store(k) ==
  /\ rx.pc = "store" /\ k \in rx.todo
  /\ rx' = [rx EXCEPT !.todo = @ \ {k}]
  /\ data' = [data EXCEPT ![k] = rx.task]
  /\ rrefs' = IF mode = "push" THEN Count(rrefs, rx.task, {k}, 1) ELSE rrefs
  /\ UNCHANGED <<mode, full, consumed, doneSent, twice, senderVars, netVars, con>>

\* Pages the handler pinned, as a change of rrefs.
Unpin(ref) ==
  IF mode = "delay" THEN ref
  ELSE [t \in Tasks |-> [k \in Keys |-> ref[t][k] - (IF <<t, k>> \in rx.sent THEN 1 ELSE 0)]]

SentKeys == {pair[2] : pair \in rx.sent}

ReleaseOnFailure(ref) == Unpin(ref)

\* Mutant: keys whose pages are freed stay visible.
KeepVisible(S) == data

\* Lines 109-111
TakeBack(S) == [k \in Keys |-> IF k \in S THEN None ELSE data[k]]

\* Allocation timed out: what this request put is taken back and freed, also
\* the page whose key a request of the decoder has removed (and freed) meanwhile.
AllocFails ==
  LET mine == IF mode = "push" THEN rx.new \ rx.todo ELSE {}
  IN  /\ Fails("alloc") /\ mode # "delay" /\ rx.new # {}
      /\ \/ mode = "push" /\ rx.pc = "store" /\ rx.todo # {}
         \/ mode = "eager" /\ rx.pc = "partition" /\ rx.todo = {}
      /\ data' = TakeBack(mine)
      /\ twice' = twice \cup {<<rx.task, k>> : k \in {j \in mine : data[j] # rx.task}}
      /\ rrefs' = ReleaseOnFailure(Count(rrefs, rx.task, mine, -1))
      /\ reply' = [reply EXCEPT ![rx.task] = [kind |-> "failed", sent |-> SentKeys]]
      /\ rx' = RxIdle
      /\ UNCHANGED <<mode, inbox, dones, full, consumed, doneSent, senderVars, con>>

\* batched_read raised: the loop answers with an empty message and neither the
\* new pages nor the pins are released.
ReadFails ==
  /\ Fails("transfer") /\ rx.pc = "read" /\ rx.new # {}
  /\ reply' = [reply EXCEPT ![rx.task] = [kind |-> "error", sent |-> {}]]
  /\ rx' = RxIdle
  /\ UNCHANGED <<mode, inbox, dones, storeVars, senderVars, con>>

\* The pins are released and the answer sent; eager mode then sends its Done.
Reply ==
  /\ rx.pc = "store" /\ rx.todo = {}
  /\ rrefs' = Unpin(rrefs)
  /\ reply' = [reply EXCEPT ![rx.task] = [kind |-> "ok", sent |-> SentKeys]]
  /\ rx' = IF mode = "eager" THEN [rx EXCEPT !.pc = "ack"] ELSE RxIdle
  /\ UNCHANGED <<mode, inbox, dones, data, full, consumed, doneSent, twice, senderVars, con>>

\* _send_pull_done_to_sender; a failure to send is only logged.
Deliver(S) == dones' = dones \cup S \/ (Fails("lost") /\ UNCHANGED dones)

PostAckDone ==
  /\ rx.pc = "ack"
  /\ Deliver({rx.task})
  /\ rx' = RxIdle
  /\ UNCHANGED <<mode, inbox, reply, storeVars, senderVars, con>>

-----------------------------------------------------------------------------
(* The decoder's requests: the NPU connector's batched_to_gpu *)

\* A request loads the keys of S, some or all of the chunks a batch brought and
\* whether or not that batch is answered yet.
Load(S) ==
  LET items == {<<data[k], k>> : k \in S}
  IN  /\ con.pc = "idle" /\ S # {} /\ \A k \in S : Present(k)
      /\ con' = [pc |-> "read", items |-> items]
      /\ rrefs' = IF mode = "delay" THEN rrefs
                  ELSE [t \in Tasks |-> [k \in Keys |->
                          rrefs[t][k] + (IF <<t, k>> \in items THEN 1 ELSE 0)]]
      /\ UNCHANGED <<mode, data, full, consumed, doneSent, twice, senderVars, netVars, rx>>

MarkConsumed(items) == consumed \cup items

\* send_done_now: at most once per context.
Unsent(S) == S \ doneSent

\* The pipeline ended, normally or not: proxies are consumed and the Done of
\* every context that was touched is sent.
LoadEnd ==
  LET touched == {pair[1] : pair \in con.items}
  IN  /\ con.pc = "read"
      /\ con' = [pc |-> "idle", items |-> {}]
      /\ IF mode = "delay"
         THEN /\ consumed' = MarkConsumed(con.items)
              /\ doneSent' = doneSent \cup touched
              /\ Deliver(Unsent(touched))
              /\ UNCHANGED rrefs
         ELSE /\ rrefs' = [t \in Tasks |-> [k \in Keys |->
                             rrefs[t][k] - (IF <<t, k>> \in con.items THEN 1 ELSE 0)]]
              /\ UNCHANGED <<consumed, doneSent, dones>>
      /\ UNCHANGED <<mode, data, full, twice, senderVars, inbox, reply, rx>>

\* The backend's remove(): a key nobody holds leaves the store.
Remove(k) ==
  /\ data[k] # None
  /\ mode # "delay" => rrefs[data[k]][k] = 1
  /\ data' = [data EXCEPT ![k] = None]
  /\ rrefs' = IF mode = "delay" THEN rrefs ELSE Count(rrefs, data[k], {k}, -1)
  /\ UNCHANGED <<mode, full, consumed, doneSent, twice, senderVars, netVars, rx, con>>

-----------------------------------------------------------------------------
Zero == [t \in Tasks |-> [k \in Keys |-> 0]]

Init ==
  /\ mode \in Modes
  /\ state = [t \in Tasks |-> "new"] /\ refs = Zero
  /\ pending = [t \in Tasks |-> {}] /\ count = [s \in Senders |-> 0]
  /\ early = {} /\ backoff = {} /\ lapsed = {} /\ inbox = {} /\ dones = {}
  /\ reply = [t \in Tasks |-> [kind |-> "none", sent |-> {}]]
  /\ rx = RxIdle /\ data = [k \in Keys |-> None] /\ full = {} /\ rrefs = Zero
  /\ consumed = {} /\ doneSent = {} /\ twice = {} /\ con = [pc |-> "idle", items |-> {}]

PutStep(t) == Submit(t) \/ Answer(t) \/ Register(t) \/ Write(t)

ListenStep == \E t \in Tasks : HandleDone(t) \/ Sweep(t)

RxStep == \/ \E t \in Tasks : Receive(t)
          \/ \E k \in Keys : Partition(k) \/ Store(k)
          \/ EagerRead \/ EagerReadEnd \/ StoreBegin \/ AllocFails \/ ReadFails
          \/ Reply \/ PostAckDone

Next ==
  \/ \E t \in Tasks : Begin(t) \/ PutStep(t)
  \/ \E s \in Senders : BackoffExpires(s)
  \/ ListenStep \/ RxStep
  \/ \E S \in SUBSET Keys : Load(S)
  \/ LoadEnd \/ \E k \in Keys : Remove(k)

Spec == Init /\ [][Next]_vars

\* The put thread, the listener and the allocation loop run while they can;
\* a load that was begun ends.  Requests come when they like.
FairSpec == /\ Spec /\ WF_vars(ListenStep) /\ WF_vars(RxStep) /\ WF_vars(LoadEnd)
            /\ \A s \in Senders : WF_vars(\E t \in Tasks : SenderOf[t] = s /\ PutStep(t))

-----------------------------------------------------------------------------
(* Properties *)

One(b) == IF b THEN 1 ELSE 0

\* A prefiller's page has one reference for the caller while the call runs and
\* one pin until its Done, its TTL or a refusal; a call that raised keeps both.
SenderRefsExact ==
  \A t \in Tasks : \A k \in KeysOf[t] :
    refs[t][k] = One(Active(t) \/ state[t] = "raised")
      + One(\/ state[t] = "reply" \/ k \in pending[t]
            \/ state[t] \in {"register", "write", "raised"} /\ k \notin reply[t].sent)

\* The backpressure counter is the number of pages that await a Done, and never
\* passes the high-water mark, although the check and the registration are two
\* critical sections with a round trip to the decoder between them.
PinnedBounded ==
  \A s \in Senders :
    /\ count[s] = Cardinality({page \in Tasks \X Keys :
                                 SenderOf[page[1]] = s /\ page[2] \in pending[page[1]]})
    /\ count[s] <= Hwm

\* References and backpressure counter of a prefiller are exact.
SenderExact == SenderRefsExact /\ PinnedBounded

\* A decoder page is owned by the store, by the handler that pinned or has just
\* read it and by a request that loads it.  Only a read that raised leaks it, and
\* only a page of a batch that was taken back after a request had removed its key
\* (receiver_mixin.py:109-112) is released once more than it was taken.
ReceiverRefsExact ==
  (mode # "delay" /\ \A t \in Tasks : reply[t].kind # "error") =>
    \A t \in Tasks, k \in Keys :
      rrefs[t][k] = One(data[k] = t) + One(<<t, k>> \in rx.sent /\ rx.pc # "ack")
        + One(<<t, k>> \in con.items)
        + One(rx.task = t /\ k \in rx.new
              /\ (rx.pc = "read" \/ (mode = "eager" /\ rx.pc = "store" /\ k \in rx.todo)))
        - One(<<t, k>> \in twice)

\* A proxy that no request consumed although the Done of its batch was sent, because
\* an earlier request loaded other chunks of the batch (npu_connectors.py:1694).
Leftover(t, k) == t \in doneSent /\ <<t, k>> \notin consumed

\* A proxy is read only while its prefiller keeps the page alive, however Done,
\* answer, registration and repeated requests are ordered: the first load of a batch
\* finds all its pages, and a consumed proxy is never read again.  Unprotected are
\* the chunks an earlier load of the batch left over, and a batch whose TTL passed.
ReadsPinned ==
  mode = "delay" => \A pair \in con.items :
    refs[pair[1]][pair[2]] > 0 \/ Leftover(pair[1], pair[2]) \/ pair[1] \in lapsed

\* A key that is visible at a push decoder without its content belongs to a task
\* whose prefiller still waits for the answer or writes, or whose write raised: a
\* task that was refused half-way leaves nothing behind, and one that returned has
\* written what it made visible.
VisibleIsBeingWritten ==
  mode = "push" =>
    \A k \in Keys :
      data[k] # None /\ <<data[k], k>> \notin full => state[data[k]] \in {"reply", "write", "raised"}

\* The decoder's pages have exactly their owners and its visible keys their writers.
ReceiverExact == ReceiverRefsExact /\ VisibleIsBeingWritten

\* Pages of a prefiller's buffer are given back, whatever the order of answer, Done
\* and registration and although a Done may be lost: the sweep makes up for it, so a
\* call that waits for room (sender_mixin.py:439-440, "this will eventually unblock")
\* goes on.  Only a call that raised keeps its pages.  A delayed pull waits for its
\* request, which may never come.
PagesReturned ==
  \A t \in Tasks :
    (mode # "delay" /\ \E k \in Keys : refs[t][k] > 0)
      ~> (state[t] = "raised" \/ \A k \in Keys : refs[t][k] = 0)

=============================================================================
