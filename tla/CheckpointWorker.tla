-------------------------- MODULE CheckpointWorker --------------------------
(***************************************************************************)
(* Capture, sealing and publication of preemption checkpoints:             *)
(* lmcache_ascend/v1/preemption_checkpoint.py with the plain offer table   *)
(* of local_checkpoint.py.  The worker thread captures, seals, cancels,    *)
(* polls and closes; the one-worker "checkpoint-store" executor publishes; *)
(* the lookup server forgets finished requests at any time.  The flag      *)
(* job.cancelled and the offer table are shared without a common lock.     *)
(***************************************************************************)
EXTENDS Integers, Sequences, FiniteSets

CONSTANTS
  Keys,      \* captures, identified by (req_id, generation)
  Requests,  \* for each request, the set of its keys
  Loads,     \* restore attempts (req_id, generation, load_generation)
  KeyOf,     \* the checkpoint a restore attempt reads
  MaxJobs,   \* store_async_max_queue_size
  Repeats    \* bound: results a key may collect from duplicate captures

ASSUME WorkerAssumption ==
  /\ IsFiniteSet(Keys) /\ IsFiniteSet(Loads)
  /\ Requests \subseteq SUBSET Keys /\ KeyOf \in [Loads -> Keys]
  /\ MaxJobs \in Nat \ {0} /\ Repeats \in Nat

VARIABLES
  stage,     \* progress of a key's job and of its future
  cancelled, \* jobs with .cancelled
  late,      \* jobs older than blocking_timeout_secs
  offers,    \* keys with a manifest in LocalCheckpointStore.manifests
  cached,    \* keys whose fragments the LocalCPU cache holds
  refs,      \* ref_count of a key's fragments
  restores,  \* restore_owners: "none", "begun", "held" or "acked"
  queue,     \* the executor's queue
  told,      \* statuses appended to self.results, per key
  frozen,    \* engine.is_frozen()
  main,      \* the worker thread: [pc, keys, left]
  raised     \* poll() or capture() has raised: a restart is required

vars == <<stage, cancelled, late, offers, cached, refs, restores, queue, told, frozen,
          main, raised>>

\* "captured" has no future; "queued" to "error" are the life of the future;
\* a "fenced" job is quarantined.
InJobs == {k \in Keys : stage[k] \in {"captured", "queued", "running", "submitted",
                                      "done", "error", "fenced"}}

NoFuture == {k \in Keys : stage[k] = "captured"}

\* Mutant: a publication that raised is not taken for finished.
Succeeded == {k \in Keys : stage[k] = "done"}

FutureDone == {k \in Keys : stage[k] \in {"done", "error"}}

Fenced == {k \in Keys : stage[k] = "fenced"}

Idle == main.pc = "idle"

Tell(S, status) ==
  told' = [k \in Keys |-> IF k \in S THEN Append(told[k], status[k]) ELSE told[k]]

\* Mutant: the buffers of a removed job are not released.
RemoveLeak(S) ==
  /\ stage' = [k \in Keys |-> IF k \in S THEN "removed" ELSE stage[k]]
  /\ UNCHANGED refs

\* _release and del self.jobs[key]: once, and never for a quarantined job.
Remove(S) ==
  /\ stage' = [k \in Keys |-> IF k \in S THEN "removed" ELSE stage[k]]
  /\ refs' = [k \in Keys |-> refs[k] - (IF k \in S THEN 1 ELSE 0)]

-----------------------------------------------------------------------------
(* The worker thread *)

\* capture of a key that already has a job only repeats what is known.
CaptureDuplicate(k) ==
  /\ Idle /\ k \in InJobs /\ Len(told[k]) < Repeats
  /\ Tell({k}, [q \in {k} |-> IF k \in cancelled THEN "failed" ELSE "captured"])
  /\ UNCHANGED <<stage, cancelled, late, offers, cached, refs, restores, queue, frozen,
                 main, raised>>

StagingBusy == Cardinality(InJobs) >= MaxJobs

\* capture: refused (frozen, busy, invalid, no memory, failed copy), done, or
\* failed in a way that not even the fence could settle, which ends the worker's
\* step with an exception.
Capture(k) ==
  /\ Idle /\ stage[k] = "new" /\ ~raised
  /\ \/ /\ stage' = [stage EXCEPT ![k] = "removed"]
        /\ Tell({k}, [q \in {k} |-> "failed"])
        /\ UNCHANGED <<refs, raised>>
     \/ /\ ~frozen /\ ~StagingBusy
        /\ refs' = [refs EXCEPT ![k] = 1]
        /\ \/ /\ stage' = [stage EXCEPT ![k] = "captured"]
              /\ Tell({k}, [q \in {k} |-> "captured"])
              /\ UNCHANGED raised
           \/ /\ stage' = [stage EXCEPT ![k] = "fenced"]
              /\ raised' = TRUE
              /\ UNCHANGED told
  /\ UNCHANGED <<cancelled, late, offers, cached, restores, queue, frozen, main>>

\* seal with a frontier the capture covers queues the publication; with any
\* other it cancels the job.  Other jobs ignore it.
Seal(k) ==
  /\ Idle /\ stage[k] = "captured" /\ k \notin cancelled
  /\ \/ /\ stage' = [stage EXCEPT ![k] = "queued"]
        /\ queue' = Append(queue, k)
        /\ UNCHANGED <<cancelled, offers, refs, told>>
     \/ /\ offers' = offers \ {k}
        /\ cancelled' = cancelled \cup {k}
        /\ Remove({k})
        /\ Tell({k}, [q \in {k} |-> "failed"])
        /\ UNCHANGED queue
  /\ UNCHANGED <<late, cached, restores, frozen, main, raised>>

\* cancel, first half: the offers are forgotten under the store's lock.
CancelForget(S) ==
  /\ Idle
  /\ offers' = offers \ S
  /\ main' = [main EXCEPT !.pc = "mark", !.keys = S]
  /\ UNCHANGED <<stage, cancelled, late, cached, refs, restores, queue, told, frozen, raised>>

\* cancel, second half: the jobs are marked; one without a future is released.
Mark(from, to) ==
  /\ main.pc = from
  /\ cancelled' = cancelled \cup (main.keys \cap InJobs)
  /\ Remove(main.keys \cap NoFuture)
  /\ main' = [main EXCEPT !.pc = to, !.keys = {}]
  /\ UNCHANGED <<late, offers, cached, restores, queue, told, frozen, raised>>

CancelMark == Mark("mark", "idle")

\* Mutant: a publication that finished after its cancellation stays offered.
KeepOffers(S) == UNCHANGED offers

\* Lines 409-410
ForgetPublished(S) == offers' = offers \ S

\* Lines 380 and 403
Reported(done) == done \ cancelled

\* One job in poll: a finished future is reported unless cancelled and its
\* buffers released; an overdue job fails and waits for its future, if any.
Settle(S) ==
  LET done == S \cap FutureDone
      overdue == {k \in S \ done : k \in late \ cancelled}
  IN  /\ ForgetPublished(done \cap cancelled)
      /\ Remove(done \cup (overdue \cap NoFuture))
      /\ cancelled' = cancelled \cup overdue
      /\ Tell(Reported(done) \cup overdue,
              [k \in Keys |-> IF stage[k] = "done" THEN "ready" ELSE "failed"])

\* poll.  At a quarantined job it raises; the jobs before that were settled.  A
\* future that completes while the loop runs is left to the next poll.
Poll ==
  /\ Idle /\ InJobs # {}
  /\ IF Fenced = {} THEN Settle(InJobs) /\ UNCHANGED raised
     ELSE raised' = TRUE /\ \E S \in SUBSET (InJobs \ Fenced) : Settle(S)
  /\ UNCHANGED <<late, cached, restores, queue, frozen, main>>

\* begin_restore, hold_restore and release_restore of one attempt.
BeginRestore(l) ==
  /\ Idle /\ restores[l] = "none"
  /\ restores' = [restores EXCEPT ![l] = "begun"]
  /\ UNCHANGED <<stage, cancelled, late, offers, cached, refs, queue, told, frozen, main, raised>>

HoldRestore(l) ==
  /\ Idle /\ restores[l] = "begun" /\ KeyOf[l] \in offers \cap cached
  /\ restores' = [restores EXCEPT ![l] = "held"]
  /\ refs' = [refs EXCEPT ![KeyOf[l]] = @ + 1]
  /\ UNCHANGED <<stage, cancelled, late, offers, cached, queue, told, frozen, main, raised>>

RestoreOwned(l) == IF restores[l] = "held" THEN 1 ELSE 0

ReleaseRestore(l) ==
  /\ Idle /\ restores[l] \in {"begun", "held"}
  /\ restores' = [restores EXCEPT ![l] = "acked"]
  /\ refs' = [refs EXCEPT ![KeyOf[l]] = @ - RestoreOwned(l)]
  /\ UNCHANGED <<stage, cancelled, late, offers, cached, queue, told, frozen, main, raised>>

-----------------------------------------------------------------------------
(* close *)

RestoresSettled == \A l \in Loads : restores[l] \in {"none", "acked"}

\* close is refused while a restore awaits its acknowledgement.
CloseBegin ==
  /\ Idle /\ RestoresSettled
  /\ main' = IF InJobs = {} THEN [main EXCEPT !.pc = "drain"]
             ELSE [main EXCEPT !.pc = "closing", !.left = InJobs]
  /\ UNCHANGED <<stage, cancelled, late, offers, cached, refs, restores, queue, told, frozen,
                 raised>>

\* One cancel of the loop: its forget, and its mark as in CancelMark.
CloseCancel(k) ==
  /\ main.pc = "closing" /\ k \in main.left
  /\ offers' = offers \ {k}
  /\ main' = [main EXCEPT !.pc = "closemark", !.keys = {k}, !.left = @ \ {k}]
  /\ UNCHANGED <<stage, cancelled, late, cached, refs, restores, queue, told, frozen, raised>>

CloseMark == Mark("closemark", IF main.left = {} THEN "drain" ELSE "closing")

\* executor.shutdown(wait=True), then the last poll.
CloseShutdown ==
  /\ main.pc = "drain" /\ queue = <<>> /\ \A k \in InJobs : k \in FutureDone \cup Fenced
  /\ IF Fenced = {} THEN Settle(InJobs) /\ UNCHANGED raised
     ELSE raised' = TRUE /\ \E S \in SUBSET (InJobs \ Fenced) : Settle(S)
  /\ main' = [main EXCEPT !.pc = IF Fenced = {} THEN "down" ELSE "failed"]
  /\ UNCHANGED <<late, cached, restores, queue, frozen>>

-----------------------------------------------------------------------------
(* The executor: _publish_local *)

\* A frozen cache fails the publication, a cancelled job publishes nothing.
PublishStart ==
  /\ queue # <<>> /\ \A k \in Keys : stage[k] \notin {"running", "submitted"}
  /\ queue' = Tail(queue)
  /\ stage' = [stage EXCEPT ![Head(queue)] =
                 IF frozen THEN "error" ELSE IF Head(queue) \in cancelled THEN "done" ELSE "running"]
  /\ UNCHANGED <<cancelled, late, offers, cached, refs, restores, told, frozen, main, raised>>

\* batched_submit_layer_pages: the cache takes a reference of its own.
PublishPages(k) ==
  /\ stage[k] = "running"
  /\ stage' = [stage EXCEPT ![k] = "submitted"]
  /\ cached' = cached \cup {k}
  /\ refs' = [refs EXCEPT ![k] = @ + 1]
  /\ UNCHANGED <<cancelled, late, offers, restores, queue, told, frozen, main, raised>>

PublishOffer(k) ==
  /\ stage[k] = "submitted"
  /\ stage' = [stage EXCEPT ![k] = "done"]
  /\ offers' = offers \cup {k}
  /\ UNCHANGED <<cancelled, late, cached, refs, restores, queue, told, frozen, main, raised>>

-----------------------------------------------------------------------------
(* The engine around the worker *)

\* The lookup server forgets a finished request's offers.
LookupForget(S) ==
  /\ main.pc # "down" /\ offers \cap S # {}
  /\ offers' = offers \ S
  /\ UNCHANGED <<stage, cancelled, late, cached, refs, restores, queue, told, frozen, main, raised>>

Deadline(k) ==
  /\ k \in InJobs \ late
  /\ late' = late \cup {k}
  /\ UNCHANGED <<stage, cancelled, offers, cached, refs, restores, queue, told, frozen, main, raised>>

Evict(k) ==
  /\ k \in cached /\ refs[k] = 1
  /\ cached' = cached \ {k}
  /\ refs' = [refs EXCEPT ![k] = 0]
  /\ UNCHANGED <<stage, cancelled, late, offers, restores, queue, told, frozen, main, raised>>

ToggleFreeze ==
  /\ frozen' = ~frozen
  /\ UNCHANGED <<stage, cancelled, late, offers, cached, refs, restores, queue, told, main, raised>>

-----------------------------------------------------------------------------
Init ==
  /\ stage = [k \in Keys |-> "new"] /\ cancelled = {} /\ late = {} /\ offers = {}
  /\ cached = {} /\ refs = [k \in Keys |-> 0] /\ restores = [l \in Loads |-> "none"]
  /\ queue = <<>> /\ told = [k \in Keys |-> <<>>] /\ frozen = FALSE /\ raised = FALSE
  /\ main = [pc |-> "idle", keys |-> {}, left |-> {}]

ExecStep == PublishStart \/ \E k \in Keys : PublishPages(k) \/ PublishOffer(k)

CloseStep == CancelMark \/ (\E k \in Keys : CloseCancel(k)) \/ CloseMark \/ CloseShutdown

CancelArguments == {{k} : k \in Keys} \cup Requests

Next ==
  \/ \E k \in Keys : CaptureDuplicate(k) \/ Capture(k) \/ Seal(k) \/ Deadline(k) \/ Evict(k)
  \/ \E S \in CancelArguments : CancelForget(S) \/ LookupForget(S)
  \/ \E l \in Loads : BeginRestore(l) \/ HoldRestore(l) \/ ReleaseRestore(l)
  \/ Poll \/ CloseBegin \/ CloseStep \/ ExecStep \/ ToggleFreeze

Spec == Init /\ [][Next]_vars

\* The executor's thread runs, and cancel() and close() run to their end.  vLLM
\* polls at the end of every worker step while a job exists, however many
\* cancels, captures and seals that step carried: strong fairness.
FairSpec == Spec /\ WF_vars(ExecStep) /\ SF_vars(Poll) /\ WF_vars(CloseStep)

-----------------------------------------------------------------------------
(* Properties *)

\* The fragments' reference count is the number of their owners: the job until
\* it is removed, the cache, and each restore that holds them.
StagingExact ==
  \A k \in Keys :
    refs[k] = (IF k \in InJobs THEN 1 ELSE 0) + (IF k \in cached THEN 1 ELSE 0)
              + Cardinality({l \in Loads : KeyOf[l] = k /\ restores[l] = "held"})

\* A job that was cancelled, by the scheduler, by its deadline or by close,
\* leaves no offer behind when it leaves the table.
NoOrphanOffer == \A k \in cancelled : stage[k] = "removed" => k \notin offers

\* The scheduler is never told "ready" for a generation it cancelled or was
\* told had failed, and at most once.
ReadyIsFinal ==
  \A k \in Keys : \A i \in DOMAIN told[k] :
    told[k][i] = "ready" => /\ k \notin cancelled
                            /\ \A j \in DOMAIN told[k] : j # i => told[k][j] = "captured"

\* A generation that was cancelled or reported failed stays so: it leaves no offer
\* and is never reported ready, whatever its publication still does.
CancelIsFinal == NoOrphanOffer /\ ReadyIsFinal

\* When close() returns, no job, queued publication or restore is left, and
\* only the cache owns pages.  A quarantined capture prevents it.
ClosedClean ==
  main.pc = "down" =>
    /\ InJobs = {} /\ queue = <<>>
    /\ \A k \in Keys : refs[k] = (IF k \in cached THEN 1 ELSE 0)

\* Fragments have exactly their owners, and none but the cache after close().
StagingSettled == StagingExact /\ ClosedClean

\* A job that was sealed is settled: the executor and poll() get to it, or
\* the worker has reported that a restart is required.
SealedIsSettled ==
  \A k \in Keys : stage[k] = "queued" ~> stage[k] = "removed" \/ raised

=============================================================================
