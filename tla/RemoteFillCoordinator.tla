------------------------ MODULE RemoteFillCoordinator ------------------------
(***************************************************************************)
(* Remote fill, coordinator (remote_fill_coordinator.py, driven by the     *)
(* cache engine): the store thread submits batches of windows to a shared  *)
(* pool of workers under per-request and global queue limits, each job     *)
(* waits for the previous one of its request, and the store thread then    *)
(* finishes or releases the request.  A circuit breaker keeps requests off *)
(* a decoder that fails.                                                   *)
(***************************************************************************)
EXTENDS RemoteFillSession

CONSTANTS
  Batches,     \* Batches[q]: sequence of [kind, from, to]: windows of a submission
  Workers,     \* remote_fill_direct_worker_count
  MaxWindows,  \* remote_fill_max_inflight_windows_per_request
  MaxBytes,    \* remote_fill_max_inflight_bytes, in pages
  Threshold,   \* remote_fill_circuit_breaker_failure_threshold
  Scenarios    \* [active, spent]: transfers that take place, adverse events left out

ASSUME CoordinatorAssumption ==
  /\ \A q \in Transfers : Batches[q] \in Seq([kind : {"probe", "prefix", "push"}, from : Nat, to : Nat])
  /\ \A q \in Transfers : \A b \in DOMAIN Batches[q] :
       /\ Batches[q][b].from \in 1..Batches[q][b].to
       /\ Batches[q][b].to <= Len(PagesOf[q])
  /\ {Workers, MaxWindows, MaxBytes, Threshold} \subseteq Nat \ {0}
  /\ Scenarios \subseteq [active : SUBSET Transfers, spent : 0..MaxFaults]

VARIABLES
  req,      \* req[q]: [phase, next, disabled, futures, windows, bytes, extra]
  job,      \* job[q][b]: none, queued, running, done, fatal
  pool,     \* jobs the executor has not started, in submission order
  total,    \* _queued_bytes
  fails,    \* _circuit_failures
  circuit,  \* closed or open
  latched   \* transfers reported to _remote_fill_require_paired_restart

coordVars == <<req, job, pool, total, fails, circuit, latched>>
vars == <<decoderVars, sessionVars, coordVars>>

Jobs == UNION {{<<q, b>> : b \in DOMAIN Batches[q]} : q \in Transfers}
Batch(j) == Batches[j[1]][j[2]]
RunningJobs == {j \in Jobs : job[j[1]][j[2]] = "running"}
JobPages(j) ==
  IF Batch(j).kind = "push"
  THEN {p \in (Batch(j).from .. Batch(j).to) \X Keys : p[2] \in PagesOf[j[1]][p[1]]} ELSE {}
JobBytes(j) == Cardinality(JobPages(j))

Phase(q, phase) == req' = [req EXCEPT ![q].phase = phase]
Apart == UNCHANGED <<cacheVars, writing, win, tx, host, rpc, late, terminal, negotiated>>
Elsewhere == Apart /\ Fine

-----------------------------------------------------------------------------
(* The store thread: prepare_request and the submissions *)

\* The engine's forward thread makes all these calls; wait(), finish() and
\* abort() block it.
ThreadFree == \A q \in Transfers : req[q].phase \notin {"wait", "finish", "abort", "closing"}

\* _record_failure
RecordFailure ==
  /\ fails' = IF fails < Threshold THEN fails + 1 ELSE fails
  /\ circuit' = IF fails + 1 >= Threshold THEN "open" ELSE circuit

\* _circuit_allows: the first request after the cooldown closes the breaker.
CircuitAllows ==
  \/ circuit = "closed" /\ UNCHANGED <<fails, circuit>>
  \/ circuit = "open" /\ fails' = 0 /\ circuit' = "closed"

\* A handoff that does not parse, or belongs to another topology.
HandoffInvalid == Fault /\ UNCHANGED <<fails, circuit>>

\* prepare_request: an open breaker or an invalid handoff leaves the persistent
\* store only.
Prepare(q) ==
  /\ req[q].phase = "new" /\ ThreadFree
  /\ \/ CircuitAllows /\ Fine /\ Phase(q, "submit")
     \/ /\ HandoffInvalid \/ (circuit = "open" /\ Fine /\ UNCHANGED <<fails, circuit>>)
        /\ req' = [req EXCEPT ![q].phase = "submit", ![q].disabled = TRUE]
  /\ Apart /\ UNCHANGED <<ses, job, pool, total, latched>>

\* _acquire_queue_capacity
Fits(q, windows, bytes) ==
  /\ req[q].windows + windows <= MaxWindows
  /\ req[q].bytes + bytes <= MaxBytes /\ total + bytes <= MaxBytes

CanSubmit(q) ==
  req[q].phase = "submit" /\ req[q].next <= Len(Batches[q]) /\ ~req[q].disabled /\ ThreadFree
NextBatch(q) == <<q, req[q].next>>

\* The job is charged, given to the executor and chained to the previous one;
\* without capacity the request loses the direct path.
Enqueue(q, bytes) ==
  /\ IF Fits(q, 1, bytes)
     THEN /\ req' = [req EXCEPT ![q].next = @ + 1, ![q].futures = Append(@, req[q].next),
                                ![q].windows = @ + 1, ![q].bytes = @ + bytes]
          /\ total' = total + bytes
          /\ job' = [job EXCEPT ![q][req[q].next] = "queued"]
          /\ pool' = Append(pool, NextBatch(q))
     ELSE /\ req' = [req EXCEPT ![q].next = @ + 1, ![q].disabled = TRUE]
          /\ UNCHANGED <<total, job, pool>>
  /\ Elsewhere /\ UNCHANGED <<ses, fails, circuit, latched>>

\* submit_probe: pages of the cached prefix, charged with a window and no bytes
SubmitProbe(q) ==
  CanSubmit(q) /\ Batch(NextBatch(q)).kind \in {"probe", "prefix"} /\ Enqueue(q, 0)

\* submit_batch: pages of the suffix with their sources
SubmitBatch(q) ==
  CanSubmit(q) /\ Batch(NextBatch(q)).kind = "push" /\ Enqueue(q, JobBytes(NextBatch(q)))

\* Control pages or source plans that cannot be built, or an executor that
\* refuses: nothing stays charged.
RejectSourceBatch(q) ==
  /\ CanSubmit(q) /\ Fault /\ RecordFailure
  /\ req' = [req EXCEPT ![q].next = @ + 1, ![q].disabled = TRUE]
  /\ Apart /\ UNCHANGED <<ses, job, pool, total, latched>>

-----------------------------------------------------------------------------
(* A worker: run() of a job *)

\* The executor starts jobs in the order of their submission ...
NextJob == Head(pool)

\* ... while it has threads.
StartJob ==
  /\ pool # <<>> /\ Cardinality(RunningJobs) < Workers
  /\ job' = [job EXCEPT ![NextJob[1]][NextJob[2]] = "running"]
  /\ pool' = Tail(pool)
  /\ UNCHANGED <<decoderVars, sessionVars, req, total, fails, circuit, latched>>

PreviousOf(q, b) == {c \in DOMAIN Batches[q] : c < b /\ job[q][c] # "none"}

\* Mutant: a job looks up the last future when it runs, not when it is submitted.
LatestDone(q, b) ==
  \A c \in DOMAIN Batches[q] \ {b} : job[q][c] \in {"none", "done", "fatal"}

PreviousDone(q, b) == \A c \in PreviousOf(q, b) : job[q][c] \in {"done", "fatal"}
PreviousRaised(q, b) == \E c \in PreviousOf(q, b) : job[q][c] = "fatal"

\* Mutant: a job that ends early keeps its charge.
KeepCharge(q, b) == UNCHANGED <<req, total>>

\* The finally clause: the job's window slot and bytes.
ReleaseCapacity(q, b) ==
  /\ req' = [req EXCEPT ![q].windows = @ - 1, ![q].bytes = @ - JobBytes(<<q, b>>)]
  /\ total' = total - JobBytes(<<q, b>>)

\* Waiting for the previous future occupies the worker.  Then the session is
\* created, once, and the first window begins; a session that is no longer
\* viable ends the job.
BeginJob(q, b) ==
  /\ job[q][b] = "running" /\ PreviousDone(q, b) /\ ses[q].pc \in {"none", "idle"}
  /\ \/ /\ ~PreviousRaised(q, b) /\ ses[q].viable
        /\ ses' = [ses EXCEPT ![q].pc = "window", ![q].w = Batch(<<q, b>>).from,
                              ![q].probe = (Batch(<<q, b>>).kind = "probe")]
        /\ UNCHANGED <<req, job, total, fails, circuit>>
     \/ /\ ~PreviousRaised(q, b) /\ ~ses[q].viable
        /\ job' = [job EXCEPT ![q][b] = "done"] /\ ReleaseCapacity(q, b)
        /\ UNCHANGED <<ses, fails, circuit>>
  /\ Elsewhere /\ UNCHANGED <<pool, latched>>

\* _create_session raises: hash identity changed, or no client.
SessionFails(q, b) ==
  /\ job[q][b] = "running" /\ PreviousDone(q, b) /\ ~PreviousRaised(q, b)
  /\ ses[q].pc = "none" /\ Fault /\ RecordFailure
  /\ job' = [job EXCEPT ![q][b] = "done"]
  /\ req' = [req EXCEPT ![q].windows = @ - 1, ![q].bytes = @ - JobBytes(<<q, b>>),
                        ![q].disabled = TRUE]
  /\ total' = total - JobBytes(<<q, b>>)
  /\ Apart /\ UNCHANGED <<ses, pool, latched>>

\* previous.result() raises the fatal error of the previous job.
InheritFatal(q, b) ==
  /\ job[q][b] = "running" /\ PreviousDone(q, b) /\ PreviousRaised(q, b)
  /\ job' = [job EXCEPT ![q][b] = "fatal"] /\ latched' = latched \cup {q}
  /\ ReleaseCapacity(q, b)
  /\ Elsewhere /\ UNCHANGED <<ses, pool, fails, circuit>>

\* prepare_sources of a prefix job: the pages the decoder lacks are charged
\* while their window is pushed, without a window slot; no capacity abandons.
SelectSources(q) ==
  LET b == CHOOSE c \in DOMAIN Batches[q] :
             job[q][c] = "running" /\ \A d \in 1 .. c - 1 : job[q][d] # "running"
      bytes == Cardinality(ses[q].made)
  IN  /\ ses[q].pc = "select"
      /\ \/ /\ Batch(<<q, b>>).kind # "prefix"
            /\ Selected(q) /\ UNCHANGED coordVars
         \/ /\ Batch(<<q, b>>).kind = "prefix" /\ Fits(q, 0, bytes)
            /\ Selected(q)
            /\ req' = [req EXCEPT ![q].extra = bytes, ![q].bytes = @ + bytes]
            /\ total' = total + bytes
            /\ UNCHANGED <<job, pool, fails, circuit, latched>>
         \/ /\ Batch(<<q, b>>).kind = "prefix" /\ ~Fits(q, 0, bytes)
            /\ Abandoned(q) /\ Elsewhere /\ UNCHANGED coordVars

\* The result of a window: the next one follows a success, anything else ends
\* the job and the direct path.  Reasons that are not the decoder's fault are
\* not counted by the breaker.
WindowSatisfied(q, b) ==
  /\ job[q][b] = "running" /\ PreviousDone(q, b) /\ ses[q].pc = "satisfied"
  /\ IF ses[q].w < Batch(<<q, b>>).to
     THEN /\ ses' = [ses EXCEPT ![q].pc = "window", ![q].w = @ + 1, ![q].made = {}]
          /\ req' = [req EXCEPT ![q].extra = 0, ![q].bytes = @ - req[q].extra]
          /\ total' = total - req[q].extra
          /\ UNCHANGED job
     ELSE /\ ses' = [ses EXCEPT ![q].pc = "idle", ![q].made = {}]
          /\ req' = [req EXCEPT ![q].extra = 0, ![q].windows = @ - 1,
                                ![q].bytes = @ - req[q].extra - JobBytes(<<q, b>>)]
          /\ total' = total - req[q].extra - JobBytes(<<q, b>>)
          /\ job' = [job EXCEPT ![q][b] = "done"]
  /\ Elsewhere /\ UNCHANGED <<pool, fails, circuit, latched>>

WindowFailed(q, b) ==
  /\ job[q][b] = "running" /\ PreviousDone(q, b) /\ ses[q].pc = "failed"
  /\ ses' = [ses EXCEPT ![q].pc = "idle", ![q].made = {}]
  /\ req' = [req EXCEPT ![q].disabled = TRUE, ![q].extra = 0, ![q].windows = @ - 1,
                        ![q].bytes = @ - req[q].extra - JobBytes(<<q, b>>)]
  /\ total' = total - req[q].extra - JobBytes(<<q, b>>)
  /\ job' = [job EXCEPT ![q][b] = "done"]
  /\ RecordFailure \/ UNCHANGED <<fails, circuit>>
  /\ Elsewhere /\ UNCHANGED <<pool, latched>>

JobRaised(q, b) ==
  /\ job[q][b] = "running" /\ PreviousDone(q, b) /\ ses[q].pc = "raised"
  /\ job' = [job EXCEPT ![q][b] = "fatal"] /\ latched' = latched \cup {q}
  /\ req' = [req EXCEPT ![q].extra = 0, ![q].windows = @ - 1,
                        ![q].bytes = @ - req[q].extra - JobBytes(<<q, b>>)]
  /\ total' = total - req[q].extra - JobBytes(<<q, b>>)
  /\ Elsewhere /\ UNCHANGED <<ses, pool, fails, circuit>>

-----------------------------------------------------------------------------
(* The store thread: finish(), release() *)

\* wait(): the futures in order; a fatal one raises and leaves the rest.
Wait(q) ==
  /\ req[q].phase \in {"wait", "abandoned"} /\ req[q].futures # <<>>
  /\ job[q][Head(req[q].futures)] \in {"done", "fatal"}
  /\ IF job[q][Head(req[q].futures)] = "fatal"
     THEN /\ req' = [req EXCEPT ![q].phase = "raised", ![q].futures = Tail(@)]
          /\ latched' = latched \cup {q}
     ELSE req' = [req EXCEPT ![q].futures = Tail(@)] /\ UNCHANGED latched
  /\ Elsewhere /\ UNCHANGED <<ses, job, pool, total, fails, circuit>>

FinishRequest(q) ==
  /\ req[q].phase = "submit" /\ (req[q].next > Len(Batches[q]) \/ req[q].disabled)
  /\ ThreadFree
  /\ Phase(q, "wait")
  /\ Elsewhere /\ UNCHANGED <<ses, job, pool, total, fails, circuit, latched>>

\* session.finish, or PERSISTENT_ONLY when no session was created
FinishSession(q) ==
  /\ req[q].phase = "wait" /\ req[q].futures = <<>>
  /\ IF ses[q].pc = "none"
     THEN /\ terminal' = [terminal EXCEPT ![q] = "PERSISTENT"]
          /\ Phase(q, "finished") /\ UNCHANGED ses
     ELSE Phase(q, "finish") /\ Goto(q, "finishing") /\ UNCHANGED terminal
  /\ UNCHANGED <<decoderVars, negotiated, job, pool, total, fails, circuit, latched>>

\* A direct success closes the breaker.
FinishReturns(q) ==
  /\ req[q].phase = "finish"
  /\ \/ /\ ses[q].pc = "ended" /\ Phase(q, "finished")
        /\ IF terminal[q] = "LOCAL" THEN fails' = 0 /\ circuit' = "closed"
                                    ELSE UNCHANGED <<fails, circuit>>
        /\ UNCHANGED latched
     \/ /\ ses[q].pc = "raised" /\ Phase(q, "raised") /\ latched' = latched \cup {q}
        /\ UNCHANGED <<fails, circuit>>
  /\ Elsewhere /\ UNCHANGED <<ses, job, pool, total>>

LastDone(q) == \A b \in DOMAIN Batches[q] : job[q][b] \in {"none", "done", "fatal"}

\* A fatal session is never released: release() latches and raises.  Otherwise
\* it waits for futures nobody collected and for the last one.
ReleaseAllowed(q) == ~ses[q].fatal /\ req[q].futures = <<>> /\ LastDone(q)

\* release(): before FINISH the session is aborted.  The request's sources are
\* freed once it returns True.
Release(q) ==
  /\ req[q].phase \in {"submit", "abandoned", "finished", "raised"} /\ ThreadFree
  /\ ReleaseAllowed(q)
  /\ IF ses[q].pc = "none" \/ terminal[q] # "none" \/ ses[q].pc \in {"closed", "ended", "raised"}
     THEN Phase(q, "released") /\ UNCHANGED ses
     ELSE Phase(q, "abort") /\ Goto(q, "aborting")
  /\ Elsewhere /\ UNCHANGED <<job, pool, total, fails, circuit, latched>>

ReleaseReturns(q) ==
  /\ req[q].phase = "abort" /\ ses[q].pc \in {"closed", "raised"}
  /\ IF ses[q].pc = "closed" THEN Phase(q, "released") /\ UNCHANGED latched
     ELSE Phase(q, "raised") /\ latched' = latched \cup {q}
  /\ Elsewhere /\ UNCHANGED <<ses, job, pool, total, fails, circuit>>

\* An aborted request is not finished; it is released once wait() has collected
\* its futures.
Abandon(q) ==
  /\ req[q].phase = "submit" /\ ThreadFree
  /\ req' = [req EXCEPT ![q].phase = "abandoned", ![q].disabled = TRUE]
  /\ Elsewhere /\ UNCHANGED <<ses, job, pool, total, fails, circuit, latched>>

\* close(): the futures of a request until the hard timeout, then the session,
\* without an ABORT; a fatal request, or a future that is late, is latched.
Close(q) ==
  /\ req[q].phase \in {"submit", "finished"} /\ ThreadFree
  /\ req' = [req EXCEPT ![q].phase = "closing", ![q].disabled = TRUE]
  /\ Elsewhere /\ UNCHANGED <<ses, job, pool, total, fails, circuit, latched>>

CloseWait(q) ==
  /\ req[q].phase = "closing"
  /\ \/ /\ req[q].futures # <<>> /\ job[q][Head(req[q].futures)] = "done"
        /\ req' = [req EXCEPT ![q].futures = Tail(@)] /\ UNCHANGED latched /\ Fine
     \/ /\ req[q].futures # <<>> /\ job[q][Head(req[q].futures)] = "fatal"
        /\ Phase(q, "raised") /\ UNCHANGED latched /\ Fine
     \/ /\ req[q].futures # <<>> /\ job[q][Head(req[q].futures)] \in {"queued", "running"}
        /\ Phase(q, "raised") /\ latched' = latched \cup {q} /\ Fault
     \/ /\ req[q].futures = <<>> /\ ses[q].fatal
        /\ Phase(q, "raised") /\ latched' = latched \cup {q} /\ Fine
     \/ /\ req[q].futures = <<>> /\ ~ses[q].fatal
        /\ Phase(q, "released") /\ UNCHANGED latched /\ Fine
  /\ Apart /\ UNCHANGED <<ses, job, pool, total, fails, circuit>>

-----------------------------------------------------------------------------
Init ==
  /\ DecoderInit /\ SessionInit
  /\ \E scenario \in Scenarios :
       /\ faults = scenario.spent
       /\ req = [q \in Transfers |->
            [phase |-> IF q \in scenario.active THEN "new" ELSE "absent", next |-> 1, disabled |-> FALSE,
             futures |-> <<>>, windows |-> 0, bytes |-> 0, extra |-> 0]]
  /\ job = [q \in Transfers |-> [b \in DOMAIN Batches[q] |-> "none"]]
  /\ pool = <<>> /\ total = 0 /\ fails = 0 /\ circuit = "closed" /\ latched = {}

\* What running threads do of themselves ...
JobStep(q) ==
  \/ SessionStep(q) /\ UNCHANGED coordVars
  \/ SelectSources(q)
  \/ \E b \in DOMAIN Batches[q] : BeginJob(q, b) \/ SessionFails(q, b) \/ InheritFatal(q, b)
                                  \/ WindowSatisfied(q, b) \/ WindowFailed(q, b) \/ JobRaised(q, b)

CallerStep(q) == Wait(q) \/ FinishSession(q) \/ FinishReturns(q) \/ ReleaseReturns(q) \/ CloseWait(q)

HostServe(q) == Serve(q) /\ UNCHANGED <<sessionVars, coordVars>>

\* A timeout of a transfer whose job is at work is an adverse event.
HostMaintain(q) ==
  /\ Maintain(q)
  /\ IF \E b \in DOMAIN Batches[q] : job[q][b] \in {"queued", "running"} THEN Fault ELSE Fine
  /\ UNCHANGED <<sessionVars, coordVars>>
GiveUp(q) == Lose(q) /\ UNCHANGED <<sessionVars, coordVars>>
Shutdown == ShutdownService /\ UNCHANGED <<sessionVars, coordVars>>

\* A request on its way is served or lost before anything else happens: no other
\* step reads it, so what could come in between can as well come before it, and
\* requests that are served much later are in late.
OnItsWay == \E q \in Transfers : rpc[q].st = "sent"

\* ... and what callers, the network and the decoder's own work add.
Next ==
  \/ \E q \in Transfers : HostServe(q) \/ GiveUp(q)
  \/ /\ ~OnItsWay
     /\ \/ \E q \in Transfers : JobStep(q) \/ CallerStep(q) \/ HostMaintain(q)
        \/ \E q \in Transfers : Prepare(q) \/ SubmitProbe(q) \/ SubmitBatch(q) \/ RejectSourceBatch(q)
        \/ \E q \in Transfers : FinishRequest(q) \/ Release(q) \/ Abandon(q) \/ Close(q)
        \/ StartJob \/ Shutdown
        \/ /\ \/ \E q \in Transfers : \E w \in Windows(q) : ServeLate(q, w)
              \/ StopHost
              \/ \E k \in Keys : Evict(k)
           /\ UNCHANGED <<sessionVars, coordVars>>

\* Threads run, sockets time out and maintenance comes round every 0.1 s.  One
\* condition for all of them is weaker than one each, and enough.
Progress ==
  \/ \E q \in Transfers : HostServe(q) \/ (host # "up" /\ GiveUp(q))
  \/ /\ ~OnItsWay
     /\ \/ \E q \in Transfers : JobStep(q) \/ CallerStep(q) \/ HostMaintain(q)
        \/ StartJob \/ Shutdown

Spec == Init /\ [][Next]_vars /\ WF_vars(Progress)

-----------------------------------------------------------------------------
(* Properties *)

\* While a native push may run, its destination pages are still hidden on the
\* decoder (neither freed nor admitted) and the prefiller has not released the
\* request that owns the sources: _HiddenPage.release, release() and the rule
\* that an unproved ARM is fatal.
PushOwnsPages ==
  \A q \in Transfers : \A w \in Windows(q) :
    <<q, w>> \in writing =>
      /\ {<<q, w, k>> : k \in ses[q].made} \subseteq hidden
      /\ req[q].phase # "released"

\* commit_pages admits completely written pages only, and a request that was told
\* LOCAL is one the decoder committed: a lost FINISH, REPORT or ARM reply never
\* turns a failed or short push into a cached page.
AdmittedIsComplete ==
  /\ \A k \in Keys : cache[k] # "partial"
  /\ \A q \in Transfers : terminal[q] = "LOCAL" => tx[q] = "local"

Held(q) == {b \in DOMAIN Batches[q] : job[q][b] \in {"queued", "running"}}
HeldPages(q) == UNION {{b} \X JobPages(<<q, b>>) : b \in Held(q)}
Charged == UNION {{q} \X (1 .. req[q].bytes) : q \in Transfers}

\* The queue accounting is exact: each job that has not ended holds one window
\* slot and its bytes, a prefix window in flight the pages it charged, and the
\* global count is the sum; so every exit of run() releases exactly once.
QueueExact ==
  /\ \A q \in Transfers : /\ req[q].windows = Cardinality(Held(q))
                          /\ req[q].bytes = req[q].extra + Cardinality(HeldPages(q))
  /\ total = Cardinality(Charged) /\ total <= MaxBytes

\* Every submitted job ends although jobs occupy workers while they wait for their
\* predecessors, and every reserved page is admitted, released or declared unsafe,
\* whatever replies are lost.
Settled ==
  /\ \A j \in Jobs : job[j[1]][j[2]] \in {"none", "done", "fatal"}
  /\ \A q \in Transfers : HiddenOf(q) = {} \/ tx[q] = "unsafe"
FillSettles == <>[]Settled

=============================================================================
