---------------------------- MODULE SharedRetrieve ----------------------------
(***************************************************************************)
(* The loads of a request's KV pages by the tensor-parallel ranks of one   *)
(* engine.  Group 0 (latent) and group 1 (indexer) are loaded by a thread  *)
(* each.  The leader takes references and pins on the pages in shared host *)
(* memory, publishes handles, one compact batch or one envelope per layer, *)
(* and moves the layers to the device; the other ranks make views from the *)
(* handles and move the same layers.  A compact batch is followed by a     *)
(* final envelope that commits or fails it.                                *)
(*                                                                         *)
(* A checkpointed request first restores its checkpoint (latent thread)    *)
(* and reads the indexer prefix directly (indexer thread), and the ranks   *)
(* agree on that prefix before the indexer tail is loaded.  A "fill"       *)
(* request only agrees, on whether all ranks materialized a remote fill.   *)
(***************************************************************************)
EXTENDS RankMailbox

CONSTANTS Scenarios,   \* [kind, spent]: the kinds of the requests there are, and the
                       \* failures left out
          Chunks,      \* pages of a request's group
          Prefixes,    \* pages its cache may hold before the load
          Layers,      \* layers of one load
          MaxFaults    \* bound on the failures of one behaviour

ASSUME RetrieveAssumption ==
    /\ \A s \in Scenarios : /\ s.kind \in Seq({"checkpoint", "plain", "direct", "fill"})
                            /\ s.spent \in Nat
    /\ Chunks \in Nat /\ Prefixes \subseteq 0..Chunks
    /\ Layers \in Nat \ {0}
    /\ NoOne \notin Ranks \X Nat \X {0, 1}

VARIABLES kind,     \* kind[r]: "checkpoint", "plain", "direct" or "fill"
          pc,       \* pc[t]: where the thread is
          layer,    \* layer[t]: the layer it works on
          prefix,   \* prefix[r]: pages of each group cached before the load
          known,    \* known[t]: chunks whose keys and ranges its cache holds
          cached,   \* cached[t]: pages in the request's cache on this rank
          refs,     \* refs[t]: references the load took and did not drop
          pins,     \* pins[t]: pins it took and did not drop
          due,      \* due[t]: pages on the list its failure path releases
          compact,  \* loads whose handles go out as one batch
          sent,     \* the ones whose batch was broadcast
          ready,    \* ready[t]: the local result brought to the agreement
          agreed,   \* agreed[t]: the outcome the thread was given
          preflight,\* preflight[r]: the group whose preflight failed first
          faults

loadVars == <<kind, prefix, known, cached, pc, layer, refs, pins, due, compact, sent, ready,
              agreed, preflight, faults>>
vars == <<mailboxVars, loadVars>>

-----------------------------------------------------------------------------
(***************************************************************************)
(* Threads.                                                                *)
(***************************************************************************)

Requests == DOMAIN kind
Groups(r) == IF kind[r] = "fill" THEN {1} ELSE {0, 1}

Threads == {t \in Ranks \X Requests \X {0, 1} : t[3] \in Groups(t[2])}

Rank(t) == t[1]
Req(t) == t[2]
Group(t) == t[3]
Load(t) == <<Req(t), Group(t)>>
Peer(t) == <<Rank(t), Req(t), 1 - Group(t)>>

Leads(t) == Rank(t) = Leader

Ended(t) == pc[t] \in {"done", "failed"}

\* Direct group-1 loads belong to each rank alone.
Shared(t) == ~(kind[Req(t)] = "direct" /\ Group(t) = 1)

Goto(t, where) == pc' = [pc EXCEPT ![t] = where]

Fail == /\ faults < MaxFaults
        /\ faults' = faults + 1

IsPassive(t) == Shared(t) /\ ~Leads(t)

\* A passive rank counts the chunks of the tokens, the owner those it found.
Required(t) == IF IsPassive(t) THEN Chunks ELSE known[t]

\* The pages that the cache does not hold yet are the ones to load.
Missing(t) == Required(t) - prefix[Req(t)]

StartOf(t) ==
    IF ~IsPassive(t) THEN "find"
    ELSE IF Missing(t) = 0 THEN "move" ELSE "receive"

FirstPc(t) ==
    CASE kind[Req(t)] = "fill" -> "decide"
      [] kind[Req(t)] # "fill" /\ Group(t) = 0 -> "queued"
      [] kind[Req(t)] = "checkpoint" /\ Group(t) = 1 -> "gate"
      [] OTHER -> StartOf(t)

Init ==
    /\ MailboxInit
    /\ \E s \in Scenarios : kind = s.kind /\ faults = s.spent
    /\ prefix \in {f \in [Requests -> Prefixes] :
                   \A r \in Requests : kind[r] # "plain" => f[r] = 0}
    /\ cached = [t \in Threads |-> prefix[Req(t)]]
    /\ known = cached
    /\ pc = [t \in Threads |-> FirstPc(t)]
    /\ layer = [t \in Threads |-> 0]
    /\ refs = [t \in Threads |-> 0]
    /\ pins = [t \in Threads |-> 0]
    /\ due = [t \in Threads |-> 0]
    /\ compact = {}
    /\ sent = {}
    /\ ready = [t \in Threads |-> FALSE]
    /\ agreed = [t \in Threads |-> "none"]
    /\ preflight = [r \in Requests |-> NoOne]

Envelope(t, phase, l, status) ==
    [id |-> <<Req(t), phase, l, Group(t)>>, status |-> status, pages |-> Missing(t)]

-----------------------------------------------------------------------------
(***************************************************************************)
(* The latent thread of a checkpointed request.                            *)
(***************************************************************************)

\* Latent loads of a rank run in request order; an older failure is ignored.
Dequeue(t) ==
    /\ pc[t] = "queued"
    /\ \A u \in Threads :
         Rank(u) = Rank(t) /\ Group(u) = 0 /\ Req(u) < Req(t) => Ended(u)
    /\ Goto(t, IF kind[Req(t)] = "checkpoint" THEN "restore" ELSE StartOf(t))
    /\ UNCHANGED <<mailboxVars, kind, prefix, known, cached, layer, refs, pins, due, compact, sent, ready,
                   agreed, preflight, faults>>

\* The leader normalizes the checkpoint and tells the outcome, a miss or an
\* error included, before it goes on or fails.
PrepareRestore(t) ==
    /\ pc[t] = "restore"
    /\ Leads(t)
    /\ \/ /\ Broadcast(Envelope(t, "restore", 0, "skipped"))
          /\ Goto(t, StartOf(t))
          /\ UNCHANGED faults
       \/ /\ Fail
          /\ \E s \in {"miss", "error"} : Broadcast(Envelope(t, "restore", 0, s))
          /\ Goto(t, "failed")
    /\ UNCHANGED <<box, reader, marker, lock, results, calls, kind, prefix, known, cached, layer, refs,
                   pins, due, compact, sent, ready, agreed, preflight>>

ReceiveRestore(t) ==
    LET id == Envelope(t, "restore", 0, "ok").id IN
    /\ pc[t] = "restore"
    /\ ~Leads(t)
    /\ \/ /\ Read(t, Rank(t), id)
          /\ UNCHANGED pc
       \/ /\ Take(Rank(t), id)
          /\ Goto(t, IF TheEnvelope(Rank(t), id).status = "skipped"
                     THEN StartOf(t) ELSE "failed")
          /\ UNCHANGED <<wire, reader, marker, lock, results, calls>>
    /\ UNCHANGED <<kind, prefix, known, cached, layer, refs, pins, due, compact, sent, ready, agreed,
                   preflight, faults>>

-----------------------------------------------------------------------------
(***************************************************************************)
(* The indexer thread of a checkpointed request and the fill's thread: a   *)
(* local result, then the agreement.                                       *)
(***************************************************************************)

AgreementId(t) ==
    <<Req(t), IF kind[Req(t)] = "fill" THEN "fill" ELSE "prefix", 0, Group(t)>>

\* The gate opens when the latent thread of the rank has ended (its failure
\* is passed on); the prefix is then read directly, and may fail.  A fill's
\* result is whatever this rank materialized.
Outcome(t) ==
    \/ ready' = [ready EXCEPT ![t] = TRUE] /\ UNCHANGED faults
    \/ ready' = [ready EXCEPT ![t] = FALSE] /\ Fail

ReadPrefix(t) == Outcome(t)

Decide(t) ==
    /\ \/ /\ pc[t] = "gate"
          /\ Ended(Peer(t))
          /\ IF pc[Peer(t)] = "failed"
             THEN ready' = [ready EXCEPT ![t] = FALSE] /\ UNCHANGED faults
             ELSE ReadPrefix(t)
       \/ pc[t] = "decide" /\ Outcome(t)
    /\ Goto(t, "agree")
    /\ UNCHANGED <<mailboxVars, kind, prefix, known, cached, layer, refs, pins, due, compact, sent, agreed,
                   preflight>>

\* After the agreement: the tail load, or the end.
AfterAgreement(t, outcome) ==
    IF ~(ready[t] /\ outcome) THEN "failed"
    ELSE IF kind[Req(t)] = "fill" THEN "done" ELSE StartOf(t)

Settle(t, outcome) ==
    /\ agreed' = [agreed EXCEPT ![t] = IF outcome THEN "yes" ELSE "no"]
    /\ Goto(t, AfterAgreement(t, outcome))

LeaderAgree(t) ==
    /\ Leads(t)
    /\ \/ /\ pc[t] = "agree"
          /\ Announce(t, AgreementId(t))
          /\ Goto(t, "announced")
          /\ UNCHANGED agreed
       \/ /\ pc[t] = "announced"
          /\ LeaderReduce(AgreementId(t), ready[t])
          /\ Goto(t, "reducing")
          /\ UNCHANGED agreed
       \/ /\ pc[t] = "reducing"
          /\ LeaderReduced(AgreementId(t))
          /\ Settle(t, AllTrue(CallOf(Leader, AgreementId(t))))
    /\ UNCHANGED <<kind, prefix, known, cached, layer, refs, pins, due, compact, sent, ready, preflight, faults>>

PassiveAgree(t) ==
    /\ ~Leads(t)
    /\ \/ /\ pc[t] = "agree"
          /\ PublishResult(Rank(t), AgreementId(t), ready[t])
          /\ Goto(t, "awaiting")
          /\ UNCHANGED agreed
       \/ /\ pc[t] = "awaiting"
          /\ Read(t, Rank(t), AgreementId(t))
          /\ UNCHANGED <<pc, agreed>>
       \/ /\ pc[t] = "awaiting"
          /\ TakeOutcome(Rank(t), AgreementId(t))
          /\ Settle(t, Agreed(Rank(t), AgreementId(t)))
    /\ UNCHANGED <<kind, prefix, known, cached, layer, refs, pins, due, compact, sent, ready, preflight, faults>>

\* The reader of a passive rank serves an agreement it met.
ServeAgreement(p) ==
    /\ JoinReduction(p) \/ LeaveReduction(p)
    /\ UNCHANGED loadVars

-----------------------------------------------------------------------------
(***************************************************************************)
(* The rank that owns the pages: the leader of a shared load, or the one   *)
(* rank of a direct load whose pages are not read directly.  Preflight:    *)
(* everything that happens before a handle is published.                   *)
(***************************************************************************)

Publishes(t) == Shared(t) /\ Missing(t) > 0

\* The request's cache grows with the load and is cut back to what it was,
\* chunks and pages alike, when the load does not commit.
AppendToCache(t, n) == cached' = [cached EXCEPT ![t] = @ + n]

Rollback(t) ==
    /\ cached' = [cached EXCEPT ![t] = prefix[Req(t)]]
    /\ known' = [known EXCEPT ![t] = prefix[Req(t)]]

\* The generator raises and its guard rolls back.
Raise(t) == Rollback(t) /\ Goto(t, "failed")

\* A preflight failure that the other ranks must hear of is recorded for
\* the other group of the request, and broadcast.
Refuse(t) ==
    IF Publishes(t)
    THEN /\ preflight' = [preflight EXCEPT ![Req(t)] = IF @ = NoOne THEN Group(t) ELSE @]
         /\ Goto(t, "refuse")
         /\ UNCHANGED <<known, cached>>
    ELSE /\ Raise(t)
         /\ UNCHANGED preflight

\* References are dropped with the pins that came with them, and the list
\* of what is to be released is emptied.
DropDue(t, pinned) ==
    /\ refs' = [refs EXCEPT ![t] = @ - due[t]]
    /\ pins' = [pins EXCEPT ![t] = @ - pinned]
    /\ due' = [due EXCEPT ![t] = 0]

DropUnlisted(t, pinned) ==
    /\ refs' = [refs EXCEPT ![t] = @ - due[t]]
    /\ pins' = [pins EXCEPT ![t] = @ - pinned]
    /\ UNCHANGED due

Release(t, pinned) == DropDue(t, pinned)

\* The keys of a cached prefix are kept; what follows it is hashed anew.
Candidates(t) == prefix[Req(t)]..Chunks

\* The chunks found, up to the first that is in no backend; a lookup that
\* is sampled, and a plan kept by a remote fill, take them all.
Located(t) == {n \in Candidates(t) : n < Chunks => faults < MaxFaults}

\* Their keys and ranges enter the request's cache.
RecordChunks(t, n) == known' = [known EXCEPT ![t] = n]

\* The chunks are looked up where the cache does not hold them all.  An
\* engine that is not healthy loads nothing, and nobody is told.
FindChunks(t) ==
    /\ pc[t] = "find"
    /\ \/ \E n \in Located(t) :
            /\ RecordChunks(t, n)
            /\ faults' = faults + (IF n = Chunks THEN 0 ELSE 1)
            /\ Goto(t, IF n = prefix[Req(t)] THEN "publish"
                       ELSE IF Shared(t) THEN "probe" ELSE "direct")
            /\ UNCHANGED cached
       \/ Fail /\ Raise(t)
    /\ UNCHANGED <<mailboxVars, kind, prefix, layer, refs, pins, due, compact, sent, ready,
                   agreed, preflight>>

\* Probe the local backend: the prefix found is referenced.  A chunk found
\* nowhere is refused.
Probe(t) ==
    /\ pc[t] = "probe"
    /\ \/ /\ \E n \in {0, Missing(t)} :
               /\ refs' = [refs EXCEPT ![t] = @ + n]
               /\ due' = [due EXCEPT ![t] = n]
          /\ Goto(t, "capacity")
          /\ UNCHANGED <<known, cached, preflight, faults>>
       \/ /\ Fail
          /\ Refuse(t)
          /\ UNCHANGED <<refs, due>>
    /\ UNCHANGED <<mailboxVars, kind, prefix, layer, pins, compact, sent, ready, agreed>>

\* The runtime capacity check: in page mode the probed prefix is released
\* before the pages are resolved.  The check itself may raise, and then no
\* envelope tells the other ranks.
Capacity(t) ==
    /\ pc[t] = "capacity"
    /\ Release(t, 0)
    /\ \/ Goto(t, "fetch") /\ UNCHANGED <<known, cached, preflight, faults>>
       \/ Fail /\ Refuse(t)
       \/ Fail /\ Raise(t) /\ UNCHANGED preflight
    /\ UNCHANGED <<mailboxVars, kind, prefix, layer, compact, sent, ready, agreed>>

\* Pages of the prefix that are in the local or the remote backend.
FetchPages(t) ==
    /\ pc[t] = "fetch"
    /\ \E n \in 0..Missing(t) :
         /\ refs' = [refs EXCEPT ![t] = @ + n]
         /\ due' = [due EXCEPT ![t] = n]
    /\ Goto(t, "pin")
    /\ UNCHANGED <<mailboxVars, kind, prefix, known, cached, layer, pins, compact, sent, ready, agreed,
                   preflight, faults>>

\* The rest is resolved layer by layer, referenced and pinned; then the
\* fetched pages are pinned, all or none.  A failure unpins what was pinned
\* and drops every reference taken.
PinPages(t) ==
    LET tail == Missing(t) - due[t] IN
    /\ pc[t] = "pin"
    /\ \/ /\ refs' = [refs EXCEPT ![t] = @ + tail]
          /\ pins' = [pins EXCEPT ![t] = @ + Missing(t)]
          /\ due' = [due EXCEPT ![t] = Missing(t)]
          /\ Goto(t, "prepare")
          /\ UNCHANGED <<known, cached, preflight, faults>>
       \/ /\ Fail
          /\ Release(t, 0)
          /\ Refuse(t)
    /\ UNCHANGED <<mailboxVars, kind, prefix, layer, compact, sent, ready, agreed>>

FailedElsewhere(t) ==
    /\ Publishes(t)
    /\ preflight[Req(t)] \notin {NoOne, Group(t)}

\* The pages enter the request's cache and the handles are made: as one
\* compact batch, or layer by layer.  A failure of the other group's
\* preflight, or of this step, gives the pages back.
Prepare(t) ==
    /\ pc[t] = "prepare"
    /\ \/ /\ ~FailedElsewhere(t)
          /\ AppendToCache(t, Missing(t))
          /\ Goto(t, "publish")
          /\ \/ Publishes(t) /\ compact' = compact \union {Load(t)}
             \/ UNCHANGED compact
          /\ UNCHANGED <<known, refs, pins, due, preflight, faults>>
       \/ /\ FailedElsewhere(t) \/ faults < MaxFaults
          /\ faults' = faults + (IF FailedElsewhere(t) THEN 0 ELSE 1)
          /\ Release(t, due[t])
          /\ Refuse(t)
          /\ UNCHANGED compact
    /\ UNCHANGED <<mailboxVars, kind, prefix, layer, sent, ready, agreed>>

\* The refusal goes out once everything is given back.
BroadcastRefusal(t) ==
    /\ pc[t] = "refuse"
    /\ Broadcast(Envelope(t, "load", 0, "error"))
    /\ Raise(t)
    /\ UNCHANGED <<box, reader, marker, lock, results, calls, kind, prefix, layer, refs,
                   pins, due, compact, sent, ready, agreed, preflight, faults>>

-----------------------------------------------------------------------------
(***************************************************************************)
(* The owner's layer loop.                                                 *)
(***************************************************************************)

IsCompact(t) == Load(t) \in compact

\* The two groups of a sparse request are driven in step: no group
\* publishes before the other has finished its preflight.
InPreflight(t) == pc[t] \in {"find", "probe", "capacity", "fetch", "pin", "prepare"}

Driven(t) ==
    \/ kind[Req(t)] = "checkpoint"
    \/ layer[t] > 0
    \/ ~Shared(Peer(t))
    \/ ~(InPreflight(Peer(t)) \/ pc[Peer(t)] = "queued")

Sent(t) == Load(t) \in sent

PublishLayer(t) ==
    /\ pc[t] = "publish"
    /\ Driven(t)
    /\ \/ /\ ~FailedElsewhere(t)
          /\ IF Publishes(t) /\ ~Sent(t)
             THEN Broadcast(Envelope(t, "load", layer[t],
                              IF IsCompact(t) THEN "batch" ELSE "handles"))
             ELSE UNCHANGED wire
          /\ sent' = sent \union ({Load(t)} \intersect compact)
          /\ Goto(t, "move")
          /\ UNCHANGED <<refs, pins, due, faults>>
       \/ /\ FailedElsewhere(t)
          /\ Release(t, due[t])
          /\ IF Sent(t) THEN UNCHANGED wire
                        ELSE Broadcast(Envelope(t, "load", 0, "error"))
          /\ Goto(t, "closing")
          /\ UNCHANGED <<sent, faults>>
       \/ /\ Publishes(t) /\ ~Sent(t)
          /\ Fail
          /\ Broadcast(Envelope(t, "load", layer[t], "error"))
          /\ Goto(t, "closing")
          /\ UNCHANGED <<sent, refs, pins, due>>
    /\ UNCHANGED <<box, reader, marker, lock, results, calls, kind, prefix, known, cached, layer, compact,
                   ready, agreed, preflight>>

\* The layer is moved to the device.  In a load without a batch, nobody is
\* told of a failure.
MoveLayer(t) ==
    /\ pc[t] = "move"
    /\ ~IsPassive(t)
    /\ \/ /\ layer' = [layer EXCEPT ![t] = @ + 1]
          /\ Goto(t, IF layer[t] + 1 = Layers THEN "finish" ELSE "publish")
          /\ UNCHANGED faults
       \/ /\ Fail
          /\ Goto(t, "closing")
          /\ UNCHANGED layer
    /\ UNCHANGED <<mailboxVars, kind, prefix, known, cached, refs, pins, due, compact, sent, ready, agreed,
                   preflight>>

\* The failure of a batch that went out is told by its final envelope.
FinalError(t) == Broadcast(Envelope(t, "load", Layers, "error"))

\* The loop's exception and clean-up blocks.
CloseLoad(t) ==
    /\ pc[t] = "closing"
    /\ IF Sent(t) THEN FinalError(t) ELSE UNCHANGED wire
    /\ Release(t, due[t])
    /\ Raise(t)
    /\ UNCHANGED <<box, reader, marker, lock, results, calls, kind, prefix, layer, compact,
                   sent, ready, agreed, preflight, faults>>

\* The commit of a batch is broadcast, and only then do the pages belong to
\* the request's cache: nothing remains to be released.
FinishLoad(t) ==
    /\ pc[t] = "finish"
    /\ ~IsPassive(t)
    /\ IF Publishes(t) /\ IsCompact(t)
       THEN Broadcast(Envelope(t, "load", Layers, "commit"))
       ELSE UNCHANGED wire
    /\ due' = [due EXCEPT ![t] = 0]
    /\ Goto(t, "done")
    /\ UNCHANGED <<box, reader, marker, lock, results, calls, kind, prefix, known, cached, layer, refs,
                   pins, compact, sent, ready, agreed, preflight, faults>>

\* A direct load reads the pages straight into the device; when the layout
\* cannot be planned, or the read fails, the rank resolves the pages itself.
LoadDirect(t) ==
    /\ pc[t] = "direct"
    /\ \/ Goto(t, "done") /\ UNCHANGED <<known, cached, faults>>
       \/ Goto(t, "fetch") /\ UNCHANGED <<known, cached, faults>>
       \/ Fail /\ Raise(t)
    /\ UNCHANGED <<mailboxVars, kind, prefix, layer, refs, pins, due, compact, sent, ready,
                   agreed, preflight>>

-----------------------------------------------------------------------------
(***************************************************************************)
(* The other ranks of a shared load.  Their pages are views of the         *)
(* leader's, counted by refs and due.                                      *)
(***************************************************************************)

\* Views of the pages behind the handles, put on the list of the failure
\* path; the keys and ranges enter the cache with the first envelope.
MakeViews(t) ==
    /\ RecordChunks(t, Chunks)
    /\ refs' = [refs EXCEPT ![t] = @ + Missing(t)]
    /\ due' = [due EXCEPT ![t] = @ + Missing(t)]

\* The envelope of the layer arrives.  Views are made from its handles; if
\* that fails, or they are not those of the missing pages, they are dropped,
\* and a rank that has seen a batch first waits for its final envelope.
Unusable(t, e) ==
    IF e.pages = Missing(t) THEN Fail ELSE UNCHANGED faults

ReceiveLayer(t) ==
    LET p == Rank(t)
        id == Envelope(t, "load", layer[t], "ok").id
        got == TheEnvelope(p, id)
    IN
    /\ pc[t] = "receive"
    /\ \/ /\ Read(t, p, id)
          /\ UNCHANGED <<pc, known, cached, refs, pins, due, faults>>
       \/ /\ Take(p, id)
          /\ UNCHANGED <<wire, reader, marker, lock, results, calls>>
          /\ \/ /\ got.status # "error"
                /\ got.pages = Missing(t)
                /\ MakeViews(t)
                /\ Goto(t, "move")
                /\ UNCHANGED <<cached, pins, faults>>
             \/ /\ got.status = "batch"
                /\ Unusable(t, got)
                /\ Goto(t, "drain")
                /\ UNCHANGED <<known, cached, refs, pins, due>>
             \/ /\ got.status = "handles"
                /\ Unusable(t, got)
                /\ Release(t, 0)
                /\ Raise(t)
             \/ /\ got.status = "error"
                /\ Release(t, 0)
                /\ Raise(t)
                /\ UNCHANGED faults
    /\ UNCHANGED <<kind, prefix, layer, compact, sent, ready, agreed, preflight>>

MoveView(t) ==
    /\ pc[t] = "move"
    /\ IsPassive(t)
    /\ \/ /\ layer' = [layer EXCEPT ![t] = @ + 1]
          /\ Goto(t, IF layer[t] + 1 = Layers THEN IF IsCompact(t) THEN "final" ELSE "commit"
                     ELSE IF IsCompact(t) \/ Missing(t) = 0 THEN "move" ELSE "receive")
          /\ UNCHANGED <<known, cached, refs, pins, due, faults>>
       \/ /\ Fail
          /\ UNCHANGED layer
          /\ IF IsCompact(t)
             THEN Goto(t, "drain") /\ UNCHANGED <<known, cached, refs, pins, due>>
             ELSE Raise(t) /\ Release(t, 0)
    /\ UNCHANGED <<mailboxVars, kind, prefix, compact, sent, ready, agreed, preflight>>

\* Only the commit envelope lets a batch's views into the cache.
CommitStatus(status) == status = "commit"
AnyStatus(status) == status \in {"commit", "error"}

IsCommit(status) == CommitStatus(status)

ReceiveFinal(t) ==
    LET p == Rank(t)
        id == Envelope(t, "load", Layers, "ok").id
    IN
    /\ pc[t] \in {"final", "drain"}
    /\ \/ /\ Read(t, p, id)
          /\ UNCHANGED <<pc, known, cached, refs, pins, due>>
       \/ /\ Take(p, id)
          /\ UNCHANGED <<wire, reader, marker, lock, results, calls>>
          /\ IF pc[t] = "final" /\ IsCommit(TheEnvelope(p, id).status)
             THEN Goto(t, "commit") /\ UNCHANGED <<known, cached, refs, pins, due>>
             ELSE Raise(t) /\ Release(t, 0)
    /\ UNCHANGED <<kind, prefix, layer, compact, sent, ready, agreed, preflight, faults>>

\* The views enter the request's cache and are not released any more.
CommitViews(t) ==
    /\ pc[t] = "commit"
    /\ \/ /\ AppendToCache(t, Missing(t))
          /\ due' = [due EXCEPT ![t] = 0]
          /\ Goto(t, "done")
          /\ UNCHANGED <<known, refs, pins, faults>>
       \/ /\ Fail
          /\ Release(t, 0)
          /\ Raise(t)
    /\ UNCHANGED <<mailboxVars, kind, prefix, layer, compact, sent, ready, agreed, preflight>>

\* The receive timeout.  It is taken to be longer than any load, so that it
\* only ends a wait for an envelope nobody will send; a thread inside an
\* agreement as its reader has left the timed wait.
Awaited(t) ==
    CASE pc[t] = "restore" -> <<Req(t), "restore", 0, 0>>
      [] pc[t] = "receive" -> <<Req(t), "load", layer[t], Group(t)>>
      [] OTHER -> <<Req(t), "load", Layers, Group(t)>>

NeverComes(p, id) ==
    /\ pc[<<Leader, id[1], id[4]>>] \in {"done", "failed"}
    /\ ~Buffered(p, id)
    /\ \A n \in 1..Len(wire[p]) : wire[p][n].id # id

GiveUp(t) ==
    /\ IsPassive(t)
    /\ pc[t] \in {"restore", "receive", "final", "drain"}
    /\ reader[Rank(t)] # t
    /\ NeverComes(Rank(t), Awaited(t))
    /\ Release(t, 0)
    /\ Raise(t)
    /\ UNCHANGED <<mailboxVars, kind, prefix, layer, compact, sent, ready, agreed, preflight, faults>>

-----------------------------------------------------------------------------

Step(t) ==
    \/ Dequeue(t) \/ PrepareRestore(t) \/ ReceiveRestore(t)
    \/ Decide(t) \/ LeaderAgree(t) \/ PassiveAgree(t)
    \/ FindChunks(t) \/ Probe(t) \/ Capacity(t) \/ FetchPages(t) \/ PinPages(t)
    \/ Prepare(t) \/ BroadcastRefusal(t)
    \/ PublishLayer(t) \/ MoveLayer(t) \/ CloseLoad(t)
    \/ FinishLoad(t) \/ LoadDirect(t)
    \/ ReceiveLayer(t) \/ MoveView(t) \/ ReceiveFinal(t) \/ CommitViews(t)
    \/ GiveUp(t)

Next ==
    \/ \E t \in Threads : Step(t)
    \/ \E p \in Passives : ServeAgreement(p)

\* Every step of a thread runs to its end unless it waits for another.
Spec == Init /\ [][Next]_vars /\ WF_vars(Next)

-----------------------------------------------------------------------------
(***************************************************************************)
(* Properties.                                                             *)
(***************************************************************************)

\* What a rank is told of an agreement is what all ranks brought to that
\* same agreement: two agreements in flight never exchange their results.
AgreementExact ==
    \A t \in Threads : agreed[t] # "none" =>
        (agreed[t] = "yes") =
            (\A k \in Ranks : ready[<<k, Req(t), Group(t)>>])

\* A rank keeps the views of a compact batch only if the leader committed
\* that batch and still holds, referenced and pinned, every page behind it.
ViewsBacked ==
    \A t \in Threads :
        LET owner == <<Leader, Req(t), Group(t)>> IN
        IsPassive(t) /\ IsCompact(t) /\ pc[t] = "done" =>
            /\ pc[owner] = "done"
            /\ refs[owner] = Missing(owner)
            /\ pins[owner] = Missing(owner)

\* A load that failed has given back every reference, pin and view it took,
\* once, and left the request's cache as it was, its chunks and its pages.
\* One that succeeded holds a page for every entry it put there, and its
\* cache has pages for all its chunks unless they were read directly.
PagesBalanced ==
    \A t \in Threads :
        /\ refs[t] >= 0 /\ pins[t] >= 0
        /\ pc[t] = "failed" =>
             /\ refs[t] = 0 /\ pins[t] = 0
             /\ cached[t] = prefix[Req(t)] /\ known[t] = prefix[Req(t)]
        /\ pc[t] = "done" /\ cached[t] > prefix[Req(t)] =>
             refs[t] >= cached[t] - prefix[Req(t)]
        /\ pc[t] = "done" /\ Shared(t) => cached[t] = known[t]

\* A latent thread has read the marker of its own request's agreement while
\* it still waits for the pages its leader left out by failing untold.
\* It now waits for the result of its indexer, and the indexer for the
\* gate that opens when the latent thread has ended.
Wedged ==
    \E p \in Passives :
        /\ reader[p] # NoOne
        /\ Group(reader[p]) = 0
        /\ pc[reader[p]] = "receive"
        /\ marker[p].id[1] = Req(reader[p])
        /\ pc[Peer(reader[p])] = "gate"

\* Every thread ends: no rank waits for ever for an envelope, for a result
\* of its own indexer, or inside an all-reduce, unless a passive rank is
\* wedged in the one circular wait the code allows.
LoadsEnd == <>(Wedged \/ \A t \in Threads : Ended(t))

=============================================================================
