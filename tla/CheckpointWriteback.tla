------------------------ MODULE CheckpointWriteback ------------------------
(***************************************************************************)
(* The retention store of lmcache_ascend/v1/checkpoint_writeback.py: it    *)
(* charges the CPU pages of waiting checkpoints to a byte budget, copies   *)
(* them to Mooncake under pressure and releases them.  Four threads share  *)
(* it: the one-worker "checkpoint-store" executor (publications and        *)
(* _retire tasks), the "checkpoint-spill" monitor, the worker thread that  *)
(* seals, polls and closes, and the lookup server, which with the worker   *)
(* forgets requests and reports restore events.  A step is one critical    *)
(* section of the store's lock, or one stretch of code between two.        *)
(***************************************************************************)
EXTENDS Integers, Sequences, FiniteSets

CONSTANTS
  Rets,      \* publications: one Retention / manifest object each
  Ids,       \* identities (req_id, generation)
  IdOf,      \* the identity a publication is made under
  Requests,  \* for each request, the set of its identities
  Pages,     \* CPU page objects of the registered heap
  Heap,      \* allocation units of that heap
  Units,     \* Units[p]: the units page p occupies (get_physical_size)
  W,         \* canonical windows in a checkpoint
  Source,    \* Source[r][g][k]: page that holds window k of group g
  Prefix,    \* pages of r that older captures own (prefix_sources)
  Aligned,   \* pages that are complete canonical pages already
  Limit,     \* decode_checkpoint_retention_max_bytes
  Attempts,  \* load generations of restores
  Engine,    \* engine events that occur: a subset of {"evict", "alias", "freeze"}
  None, Scratch

Groups == {0, 1}
Windows == 1..W
PagesOf(r) == {Source[r][g][k] : g \in Groups, k \in Windows}
Fresh(r) == PagesOf(r) \ Prefix[r]

ASSUME ConstantsAssumption ==
  /\ IsFiniteSet(Rets) /\ IsFiniteSet(Pages) /\ IsFiniteSet(Heap)
  /\ IdOf \in [Rets -> Ids]
  /\ Requests \subseteq SUBSET Ids
  /\ Units \in [Pages -> SUBSET Heap]
  /\ \A p, q \in Pages : p # q => Units[p] \cap Units[q] = {}
  /\ W \in Nat \ {0}
  /\ Source \in [Rets -> [Groups -> [Windows -> Pages]]]
  /\ Prefix \in [Rets -> SUBSET Pages]
  /\ Limit \in Nat \ {0} /\ Engine \subseteq {"evict", "alias", "freeze"}
  /\ None \notin Rets \cup Pages /\ Scratch \notin Pages /\ Scratch # None

\* Holders of retained pages: a record's groups, the groups a forget handed
\* to the executor, the batch _retire works on, the monitor's own copy of the
\* groups it spills and the batch it took over from a confirmed record.
Sites == ({"rec", "task"} \X Rets) \cup ({"run", "spill", "swap"} \X {None})
RunSite == <<"run", None>>
SpillSite == <<"spill", None>>
SwapSite == <<"swap", None>>

Events == {"begin", "admitted", "ack", "failed"}

\* Threads that call forget: the worker thread (cancel, poll, close and the restore
\* events it reports) and the lookup server (a finished request, an admitted restore).
Callers == {"worker", "lookup"}

\* A call under way: the identities of a restore it found completed, whose forget is
\* to come, and the records it popped and has not handed to the executor.
NoCall == [join |-> {}, dead |-> {}]

VARIABLES
  refs,       \* ref_count of every page
  cache,      \* pages the LocalCPU cache holds under an alias
  jobs,       \* the CaptureJob of each publication
  jobHeld,    \* pages that job owns (fragments and prefix_owners)
  manifests,  \* publications whose manifest is visible
  records,    \* publications with a Retention in self.records
  remote,     \* Retentions whose .remote is set
  cancelled,  \* Retentions whose .cancelled is set
  backoff,    \* Retentions whose retry_at lies in the future
  attempts,   \* attempts[r][a]: events of attempt a, {} if there is none
  call,       \* what each caller has under way
  stranded,   \* records whose pages the shut-down executor refused
  owned,      \* pages each site holds a charged reference to
  charges,    \* self.charges: number of charges of a page
  used,       \* self.used
  tasks,      \* the executor's queue
  exec,       \* the executor's thread: [pc, ret]
  held,       \* pages publish() acquired and has not placed
  mon,        \* the monitor's thread: [pc, rec, pos, page, low, active]
  draining,   \* the monitor's hysteresis flag
  wake,       \* self.wake
  closed,     \* self.closed
  fatal,      \* self.fatal is set
  frozen,     \* engine.is_frozen()
  stored,     \* canonical pages Mooncake acknowledged
  main        \* the worker thread in close(): [pc, todo]

pageVars == <<refs, cache, jobs, jobHeld, held>>
callVars == <<call, stranded>>
offerVars == <<manifests, records, remote, cancelled, backoff, attempts, callVars>>
ledgerVars == <<owned, charges, used>>
execVars == <<tasks, exec>>
monVars == <<mon, draining, stored, fatal>>
flagVars == <<wake, closed, frozen, main>>
vars == <<pageVars, offerVars, ledgerVars, execVars, monVars, flagVars>>

-----------------------------------------------------------------------------
(* References, charges and the ledger *)

Up(S) == [p \in Pages |-> refs[p] + (IF p \in S THEN 1 ELSE 0)]
Down(S) == [p \in Pages |-> refs[p] - (IF p \in S THEN 1 ELSE 0)]

Bytes(S) == Cardinality(UNION {Units[p] : p \in S})

\* _charge_locked: a page is paid for once, however many sites hold it.
Charge(S) ==
  /\ used' = used + Bytes({p \in S : charges[p] = 0})
  /\ charges' = [p \in Pages |-> charges[p] + (IF p \in S THEN 1 ELSE 0)]

\* Mutant: the entry is deleted although other sites still charge the page.
UnchargeWhole(S) ==
  /\ used' = used - Bytes({p \in S : charges[p] > 0})
  /\ charges' = [p \in Pages |-> IF p \in S THEN 0 ELSE charges[p]]

\* _uncharge_locked
Uncharge(S) ==
  /\ used' = used - Bytes({p \in S : charges[p] = 1})
  /\ charges' = [p \in Pages |-> charges[p] - (IF p \in S THEN 1 ELSE 0)]

\* LocalCheckpointStore.acquire when the pages in S can be had: the windows
\* from the first on that both groups have.
Leading(r, S) ==
  LET Paired(k) == \A g \in Groups, j \in 1..k : Source[r][g][j] \in S
  IN  {Source[r][g][k] : g \in Groups, k \in {j \in Windows : Paired(j)}}

SameIdentity(r) == {q \in Rets : IdOf[q] = IdOf[r]}

\* The worker thread is between two calls, the lookup server between two requests.
Ready(c) == call[c] = NoCall /\ (IF c = "worker" THEN main.pc = "idle" ELSE main.pc # "down")

-----------------------------------------------------------------------------
(* The executor: _publish_local / publish, and _retire *)

\* capture + seal: the job owns its fragments and the prefix pages that are
\* still cached, and its publication is queued.
Seal(r) ==
  LET pages == Fresh(r) \cup (Prefix[r] \cap cache)
  IN  /\ Ready("worker") /\ jobs[r] = "new" /\ ~fatal
      /\ jobs' = [jobs EXCEPT ![r] = "sealed"]
      /\ jobHeld' = [jobHeld EXCEPT ![r] = pages]
      /\ refs' = Up(pages)
      /\ tasks' = Append(tasks, [kind |-> "publish", ret |-> r])
      /\ UNCHANGED <<cache, held, exec, offerVars, ledgerVars, monVars, flagVars>>

\* _publish_local admits the fragments to the cache unless it is frozen.
PublishStart ==
  /\ exec.pc = "idle" /\ tasks # <<>> /\ Head(tasks).kind = "publish"
  /\ tasks' = Tail(tasks)
  /\ LET r == Head(tasks).ret
     IN  IF frozen
         THEN /\ jobs' = [jobs EXCEPT ![r] = "done"]
              /\ UNCHANGED <<refs, cache, exec>>
         ELSE /\ cache' = cache \cup Fresh(r)
              /\ refs' = Up(Fresh(r) \ cache)
              /\ exec' = [pc |-> "acquire", ret |-> r]
              /\ jobs' = [jobs EXCEPT ![r] = "running"]
  /\ UNCHANGED <<jobHeld, held, offerVars, ledgerVars, monVars, flagVars>>

\* publish, line 75: the new retention_id has no record, so only the cache
\* can supply pages.
PublishAcquire ==
  LET pages == Leading(exec.ret, cache)
  IN  /\ exec.pc = "acquire"
      /\ exec' = [exec EXCEPT !.pc = "commit"]
      /\ held' = pages
      /\ refs' = Up(pages)
      /\ UNCHANGED <<cache, jobs, jobHeld, tasks, offerVars, ledgerVars, monVars, flagVars>>

\* Mutant: the pages about to be added are not counted.
FitsBeforeAdding(r) == held = PagesOf(r) /\ used <= Limit

RetentionFits(r) ==
  /\ held = PagesOf(r)
  /\ used + Bytes({p \in held : charges[p] = 0}) <= Limit

\* Mutant: a second publication under a retained identity is let through.
RefusedWhenClosed(r) == closed

\* Lines 79-82: nothing is published, not even the manifest.
Refused(r) == closed \/ records \cap SameIdentity(r) # {}

\* publish under the lock.  An accepted publication moves the acquired pages
\* to a record and starts the monitor once; a start that fails is undone.
PublishCommit ==
  LET r == exec.ret
      Refuse == UNCHANGED <<records, held, owned, charges, used, mon>>
      Accept == /\ records' = (records \ SameIdentity(r)) \cup {r}
                /\ owned' = [owned EXCEPT ![<<"rec", r>>] = held]
                /\ Charge(held)
                /\ held' = {}
                /\ mon' = [mon EXCEPT !.pc = IF @ = "none" THEN "top" ELSE @]
  IN  /\ exec.pc = "commit"
      /\ exec' = [exec EXCEPT !.pc = "finish"]
      /\ IF Refused(r)
         THEN Refuse /\ UNCHANGED manifests
         ELSE /\ manifests' = (manifests \ SameIdentity(r)) \cup {r}
              /\ \/ RetentionFits(r) /\ Accept
                 \/ (RetentionFits(r) => mon.pc = "none") /\ Refuse
      /\ UNCHANGED <<refs, cache, jobs, jobHeld, remote, cancelled, backoff, attempts,
                     callVars, tasks, draining, stored, fatal, flagVars>>

\* publish, finally: a refused publication gives its pages back.
PublishFinish ==
  /\ exec.pc = "finish"
  /\ refs' = Down(held) /\ held' = {}
  /\ jobs' = [jobs EXCEPT ![exec.ret] = "done"]
  /\ exec' = [pc |-> "idle", ret |-> None]
  /\ wake' = TRUE
  /\ UNCHANGED <<cache, jobHeld, tasks, closed, frozen, main, offerVars, ledgerVars, monVars>>

\* _retire on the executor: release the references, then uncharge.
RetireRelease ==
  /\ exec.pc = "idle" /\ tasks # <<>> /\ Head(tasks).kind = "retire"
  /\ tasks' = Tail(tasks)
  /\ LET site == <<"task", Head(tasks).ret>>
     IN  /\ refs' = Down(owned[site])
         /\ owned' = [owned EXCEPT ![RunSite] = owned[site], ![site] = {}]
  /\ exec' = [pc |-> "uncharge", ret |-> None]
  /\ UNCHANGED <<cache, jobs, jobHeld, held, charges, used, offerVars, monVars, flagVars>>

RetireUncharge ==
  /\ exec.pc = "uncharge"
  /\ Uncharge(owned[RunSite])
  /\ owned' = [owned EXCEPT ![RunSite] = {}]
  /\ exec' = [pc |-> "idle", ret |-> None]
  /\ UNCHANGED <<tasks, pageVars, offerVars, monVars, flagVars>>

\* poll: a finished publication's job gives its own references back.
PollRelease(r) ==
  /\ Ready("worker") /\ ~fatal /\ jobs[r] = "done"
  /\ jobs' = [jobs EXCEPT ![r] = "gone"]
  /\ jobHeld' = [jobHeld EXCEPT ![r] = {}]
  /\ refs' = Down(jobHeld[r])
  /\ UNCHANGED <<cache, held, offerVars, ledgerVars, execVars, monVars, flagVars>>

-----------------------------------------------------------------------------
(* forget and restore_event *)

\* Lines 123-132: under the lock every visible manifest under keys is popped with its
\* record, whose pages the caller now owns (site "task").  Only manifests are searched
\* for.  A popped Retention's attempts are forgotten with it: only a spill can still
\* read them, and it stops on cancelled first.  Without a record the call ends here.
Pop(c, keys) ==
  LET gone == {r \in manifests : IdOf[r] \in keys}
      dead == gone \cap records
  IN  /\ manifests' = manifests \ gone
      /\ records' = records \ dead
      /\ cancelled' = cancelled \cup dead
      /\ owned' = [s \in Sites |->
                     IF s[1] = "rec" /\ s[2] \in dead THEN {}
                     ELSE IF s[1] = "task" /\ s[2] \in dead THEN owned[<<"rec", s[2]>>]
                     ELSE owned[s]]
      /\ attempts' = [r \in Rets |-> IF r \in dead THEN [a \in Attempts |-> {}] ELSE attempts[r]]
      /\ call' = [call EXCEPT ![c] = [join |-> {}, dead |-> dead]]
      /\ wake' = (wake \/ dead = {})
      /\ UNCHANGED <<remote, backoff, stranded, charges, used>>

ForgetArguments(c) == Requests \cup (IF c = "worker" THEN {{i} : i \in Ids} ELSE {})

Forget(c, keys) ==
  /\ Ready(c)
  /\ Pop(c, keys)
  /\ UNCHANGED <<pageVars, execVars, monVars, closed, frozen, main>>

\* The executor takes no more tasks once close() has begun to shut it down.
ExecutorDown == main.pc \in {"drain", "down"}

\* Mutant: the popped groups are never handed over.
SubmitNothing(r) == UNCHANGED tasks

\* One executor.submit(self._retire, groups) per popped record.
SubmitRetire(r) == tasks' = Append(tasks, [kind |-> "retire", ret |-> r])

\* Lines 133-135, after the lock is released.  An executor that was shut down
\* meanwhile raises, and the call leaves all it had not handed over behind.
HandOver(c, r) ==
  /\ r \in call[c].dead
  /\ \/ /\ ~ExecutorDown
        /\ SubmitRetire(r)
        /\ call' = [call EXCEPT ![c].dead = @ \ {r}]
        /\ wake' = (wake \/ call[c].dead = {r})
        /\ UNCHANGED stranded
     \/ /\ ExecutorDown
        /\ stranded' = stranded \cup call[c].dead
        /\ call' = [call EXCEPT ![c] = NoCall]
        /\ UNCHANGED <<tasks, wake>>
  /\ UNCHANGED <<manifests, records, remote, cancelled, backoff, attempts, pageVars,
                 ledgerVars, exec, monVars, closed, frozen, main>>

\* Line 151
Completed(events) == {"admitted", "ack"} \subseteq events /\ "failed" \notin events

\* checkpoint_resume_admitted is served by the lookup server; a failed restore may
\* be reported by a load thread, and never completes.
Reporter(event) == IF event = "admitted" THEN "lookup" ELSE "worker"

\* restore_event under the lock.  An event of an unknown attempt is dropped,
\* a failed and acknowledged attempt is deleted, and a completed restore
\* calls forget after the lock is released.
RestoreEvent(i, a, event) ==
  LET known == {r \in records : IdOf[r] = i /\ (event = "begin" \/ attempts[r][a] # {})}
      Heard(r) == attempts[r][a] \cup {event}
      ended == {IdOf[r] : r \in {q \in known : Completed(Heard(q))}}
      c == Reporter(event)
  IN  /\ main.pc # "down" /\ known # {}
      /\ event # "failed" => Ready(c)
      /\ attempts' = [r \in Rets |->
           IF r \notin known THEN attempts[r]
           ELSE [attempts[r] EXCEPT ![a] =
                   IF {"failed", "ack"} \subseteq Heard(r) THEN {} ELSE Heard(r)]]
      /\ call' = [call EXCEPT ![c].join = @ \cup ended]
      /\ wake' = (wake \/ ended = {})
      /\ UNCHANGED <<pageVars, manifests, records, remote, cancelled, backoff, stranded,
                     ledgerVars, execVars, monVars, closed, frozen, main>>

\* Line 155
CompletedForget(c) ==
  /\ call[c].join # {}
  /\ Pop(c, call[c].join)
  /\ UNCHANGED <<pageVars, execVars, monVars, closed, frozen, main>>

CallStep(c) == CompletedForget(c) \/ \E r \in Rets : HandOver(c, r)

-----------------------------------------------------------------------------
(* The monitor: _monitor and _spill *)

MonitorGo(pc) == mon' = [mon EXCEPT !.pc = pc]

\* Lines 241-244: active records are watched with a timeout.
MonitorTop ==
  /\ mon.pc = "top"
  /\ mon' = [mon EXCEPT !.pc = IF closed \/ fatal THEN "dead" ELSE "wait",
                        !.active = ~closed /\ \E r \in records : owned[<<"rec", r>>] # {}]
  /\ UNCHANGED <<draining, stored, fatal, pageVars, offerVars, ledgerVars, execVars, flagVars>>

MonitorWait ==
  /\ mon.pc = "wait" /\ (wake \/ mon.active)
  /\ mon' = [mon EXCEPT !.pc = "clear", !.active = FALSE]
  /\ UNCHANGED <<draining, stored, fatal, pageVars, offerVars, ledgerVars, execVars, flagVars>>

MonitorClear ==
  /\ mon.pc = "clear"
  /\ MonitorGo("sample")
  /\ wake' = FALSE
  /\ UNCHANGED <<draining, stored, fatal, pageVars, offerVars, ledgerVars, execVars,
                 closed, frozen, main>>

\* Lines 247-262.  Whether free bytes plus the credit of the last second reach
\* the reserve is decided by every user of the heap, so low is any Boolean.
\* The capacity query may raise, which ends the thread through _run.
MonitorSample ==
  /\ mon.pc = "sample"
  /\ \/ /\ closed /\ MonitorGo("dead") /\ UNCHANGED fatal
     \/ /\ ~closed /\ frozen /\ MonitorGo("top") /\ UNCHANGED fatal
     \/ /\ ~closed /\ ~frozen /\ UNCHANGED fatal
        /\ \E low \in BOOLEAN : mon' = [mon EXCEPT !.pc = "select", !.low = low]
     \/ /\ ~closed /\ ~frozen /\ MonitorGo("dead") /\ fatal' = TRUE
  /\ UNCHANGED <<draining, stored, pageVars, offerVars, ledgerVars, execVars, flagVars>>

UnderPressure == used * 10 >= Limit * (IF draining THEN 6 ELSE 8)

Eligible == {r \in records : /\ r \notin remote \cup cancelled \cup backoff
                             /\ \A a \in Attempts : attempts[r][a] = {}}

\* Lines 280-284
CopyForSpill(pages) ==
  Charge(pages) /\ refs' = Up(pages) /\ owned' = [owned EXCEPT ![SpillSite] = pages]

\* Lines 263-284: a selected record's groups are copied and charged once more,
\* so that a forget cannot release them under the transfer.
MonitorSelect ==
  /\ mon.pc = "select"
  /\ draining' = UnderPressure
  /\ \/ /\ (~draining' /\ ~mon.low) \/ Eligible = {}
        /\ mon' = [mon EXCEPT !.pc = "top", !.low = FALSE]
        /\ UNCHANGED <<refs, ledgerVars>>
     \/ /\ draining' \/ mon.low
        /\ \E r \in Eligible :
             /\ mon' = [mon EXCEPT !.pc = "window", !.rec = r, !.low = FALSE]
             /\ CopyForSpill(owned[<<"rec", r>>])
  /\ UNCHANGED <<cache, jobs, jobHeld, held, stored, fatal, offerVars, execVars, flagVars>>

Spilling == {"window", "build", "put", "flight", "confirm", "retire", "settle",
             "release", "return", "quarantined"}

Withdrawn == \/ mon.rec \in cancelled
             \/ \E a \in Attempts : attempts[mon.rec][a] # {}
             \/ closed \/ frozen

\* Windows are persisted one by one, group 0 before group 1.
SpillSource == IF mon.pos < W THEN Source[mon.rec][0][mon.pos + 1]
                              ELSE Source[mon.rec][1][mon.pos - W + 1]

\* Mutant: off by one.
OneWindowMore == mon.pos <= 2 * W

WindowsLeft == mon.pos < 2 * W

\* Head of the window loop of _spill: stop, finish, or go on.
SpillWindow ==
  /\ mon.pc = "window"
  /\ MonitorGo(IF WindowsLeft /\ ~Withdrawn THEN "build" ELSE "confirm")
  /\ UNCHANGED <<draining, stored, fatal, pageVars, offerVars, ledgerVars, execVars, flagVars>>

\* build_page: a canonical source is reused by reference, any other window is
\* assembled in scratch memory, which the heap may refuse.
SpillBuild ==
  /\ mon.pc = "build"
  /\ LET page == IF SpillSource \in Aligned THEN SpillSource ELSE Scratch
     IN  \/ /\ mon' = [mon EXCEPT !.pc = "put", !.page = page]
            /\ refs' = Up({page})
            /\ UNCHANGED backoff
         \/ /\ page = Scratch /\ MonitorGo("release")
            /\ backoff' = backoff \cup {mon.rec}
            /\ UNCHANGED refs
  /\ UNCHANGED <<cache, jobs, jobHeld, held, manifests, records, remote, cancelled, attempts,
                 callVars, draining, stored, fatal, ledgerVars, execVars, flagVars>>

\* Mutant: the page build_page returned is not given back.
KeepPage(pc, done) ==
  /\ mon' = [mon EXCEPT !.pc = pc, !.page = None, !.pos = @ + done]
  /\ UNCHANGED refs

\* Line 375: page.ref_count_down()
DropPage(pc, done) ==
  /\ mon' = [mon EXCEPT !.pc = pc, !.page = None, !.pos = @ + done]
  /\ refs' = Down({mon.page})

\* Lines 360-369: the flags are read again, then the native PUT is submitted.
SpillSubmit ==
  /\ mon.pc = "put"
  /\ \/ Withdrawn /\ DropPage("confirm", 0)
     \/ ~Withdrawn /\ MonitorGo("flight") /\ UNCHANGED refs
  /\ UNCHANGED <<cache, jobs, jobHeld, held, draining, stored, fatal, offerVars, ledgerVars,
                 execVars, flagVars>>

\* .result(): success, a known failure (retried after one second), or an
\* unknown outcome that quarantines every owner and ends the thread.
SpillResult ==
  /\ mon.pc = "flight"
  /\ \/ /\ DropPage("window", 1)
        /\ stored' = stored \cup {SpillSource}
        /\ UNCHANGED <<backoff, fatal>>
     \/ /\ DropPage("release", 0)
        /\ backoff' = backoff \cup {mon.rec}
        /\ UNCHANGED <<stored, fatal>>
     \/ /\ MonitorGo("quarantined")
        /\ fatal' = TRUE
        /\ UNCHANGED <<stored, refs, backoff>>
  /\ UNCHANGED <<cache, jobs, jobHeld, held, manifests, records, remote, cancelled, attempts,
                 callVars, draining, ledgerVars, execVars, flagVars>>

\* Mutant: one group is taken for both.
OneGroupPersisted == mon.pos >= W /\ mon.rec \notin cancelled

Persisted == mon.pos = 2 * W /\ mon.rec \notin cancelled

\* Lines 287-292: only complete coverage of a live record ends its protection.
SpillConfirm ==
  /\ mon.pc = "confirm"
  /\ IF Persisted
     THEN /\ remote' = remote \cup {mon.rec}
          /\ owned' = [owned EXCEPT ![SwapSite] = owned[<<"rec", mon.rec>>],
                                    ![<<"rec", mon.rec>>] = {}]
     ELSE UNCHANGED <<remote, owned>>
  /\ MonitorGo("retire")
  /\ UNCHANGED <<manifests, records, cancelled, backoff, attempts, callVars, charges, used,
                 draining, stored, fatal, pageVars, execVars, flagVars>>

\* _retire(retired), then _retire(groups) in the finally clause.
MonitorRelease(from, to, site) ==
  /\ mon.pc = from
  /\ refs' = Down(owned[site])
  /\ MonitorGo(to)
  /\ UNCHANGED <<cache, jobs, jobHeld, held, draining, stored, fatal, offerVars, ledgerVars,
                 execVars, flagVars>>

MonitorUncharge(from, to, site) ==
  /\ mon.pc = from
  /\ Uncharge(owned[site])
  /\ owned' = [owned EXCEPT ![site] = {}]
  /\ mon' = [mon EXCEPT !.pc = to, !.rec = IF to = "top" THEN None ELSE @,
                        !.pos = IF to = "top" THEN 0 ELSE @]
  /\ UNCHANGED <<draining, stored, fatal, pageVars, offerVars, execVars, flagVars>>

MonitorStep ==
  \/ MonitorTop \/ MonitorWait \/ MonitorClear \/ MonitorSample \/ MonitorSelect
  \/ SpillWindow \/ SpillBuild \/ SpillSubmit \/ SpillResult \/ SpillConfirm
  \/ MonitorRelease("retire", "settle", SwapSite)
  \/ MonitorUncharge("settle", "release", SwapSite)
  \/ MonitorRelease("release", "return", SpillSite)
  \/ MonitorUncharge("return", "top", SpillSite)

\* retry_at passes.
BackoffExpires(r) ==
  /\ r \in backoff
  /\ backoff' = backoff \ {r}
  /\ UNCHANGED <<manifests, records, remote, cancelled, attempts, callVars, pageVars,
                 ledgerVars, execVars, monVars, flagVars>>

-----------------------------------------------------------------------------
(* close, and the executor's shutdown that follows it *)

CloseBegin ==
  /\ Ready("worker")
  /\ closed' = TRUE
  /\ main' = [pc |-> "closing", todo |-> {IdOf[r] : r \in manifests}]
  /\ UNCHANGED <<wake, frozen, pageVars, offerVars, ledgerVars, execVars, monVars>>

CloseForget(i) ==
  /\ main.pc = "closing" /\ i \in main.todo /\ call["worker"] = NoCall
  /\ Pop("worker", {i})
  /\ main' = [main EXCEPT !.todo = @ \ {i}]
  /\ UNCHANGED <<pageVars, execVars, monVars, closed, frozen>>

\* Mutant: close relies on the wake-ups of its forgets.
NoWake == UNCHANGED wake

\* Line 194
SetWake == wake' = TRUE

CloseWake ==
  /\ main.pc = "closing" /\ main.todo = {} /\ call["worker"] = NoCall
  /\ SetWake
  /\ main' = [main EXCEPT !.pc = "join"]
  /\ UNCHANGED <<closed, frozen, pageVars, offerVars, ledgerVars, execVars, monVars>>

\* Mutant: the thread is not joined.
NotJoined == TRUE

MonitorEnded == mon.pc \in {"none", "dead", "quarantined"}

\* thread.join(), then the fatal error is raised or the executor shut down: it takes
\* no more tasks and finishes those it has.
CloseJoin ==
  /\ main.pc = "join" /\ MonitorEnded
  /\ main' = [main EXCEPT !.pc = IF fatal THEN "failed" ELSE "drain"]
  /\ UNCHANGED <<wake, closed, frozen, pageVars, offerVars, ledgerVars, execVars, monVars>>

\* executor.shutdown(wait=True), then poll() releases the remaining jobs.
CloseShutdown ==
  /\ main.pc = "drain" /\ exec.pc = "idle" /\ tasks = <<>>
  /\ main' = [main EXCEPT !.pc = "down"]
  /\ jobs' = [r \in Rets |-> IF jobs[r] = "done" THEN "gone" ELSE jobs[r]]
  /\ refs' = [p \in Pages |-> refs[p] - Cardinality({r \in Rets : p \in jobHeld[r]})]
  /\ jobHeld' = [r \in Rets |-> {}]
  /\ UNCHANGED <<cache, held, wake, closed, frozen, offerVars, ledgerVars, execVars, monVars>>

-----------------------------------------------------------------------------
(* The engine around the store *)

\* LocalCPU evicts a page nobody but the cache owns.
Evict(p) ==
  /\ "evict" \in Engine /\ p \in cache /\ refs[p] = 1
  /\ cache' = cache \ {p}
  /\ refs' = Down({p})
  /\ UNCHANGED <<jobs, jobHeld, held, offerVars, ledgerVars, execVars, monVars, flagVars>>

\* normalize, in a restore attempt, removes the alias of a checkpoint page.
RemoveAlias(p) ==
  /\ "alias" \in Engine /\ p \in cache
  /\ \E r \in records, a \in Attempts : attempts[r][a] # {} /\ p \in Fresh(r)
  /\ cache' = cache \ {p}
  /\ refs' = Down({p})
  /\ UNCHANGED <<jobs, jobHeld, held, offerVars, ledgerVars, execVars, monVars, flagVars>>

ToggleFreeze ==
  /\ "freeze" \in Engine
  /\ frozen' = ~frozen
  /\ UNCHANGED <<wake, closed, main, pageVars, offerVars, ledgerVars, execVars, monVars>>

-----------------------------------------------------------------------------
Init ==
  /\ refs = [p \in Pages |-> 0] /\ cache = {}
  /\ jobs = [r \in Rets |-> "new"] /\ jobHeld = [r \in Rets |-> {}]
  /\ manifests = {} /\ records = {} /\ remote = {} /\ cancelled = {} /\ backoff = {}
  /\ attempts = [r \in Rets |-> [a \in Attempts |-> {}]]
  /\ call = [c \in Callers |-> NoCall] /\ stranded = {}
  /\ owned = [s \in Sites |-> {}] /\ charges = [p \in Pages |-> 0] /\ used = 0
  /\ tasks = <<>> /\ exec = [pc |-> "idle", ret |-> None] /\ held = {}
  /\ mon = [pc |-> "none", rec |-> None, pos |-> 0, page |-> None,
            low |-> FALSE, active |-> FALSE]
  /\ draining = FALSE /\ stored = {} /\ fatal = FALSE
  /\ wake = FALSE /\ closed = FALSE /\ frozen = FALSE
  /\ main = [pc |-> "idle", todo |-> {}]

ExecStep == \/ PublishStart \/ PublishAcquire \/ PublishCommit \/ PublishFinish
            \/ RetireRelease \/ RetireUncharge

CloseStep == \/ \E i \in Ids : CloseForget(i)
             \/ CloseWake \/ CloseJoin \/ CloseShutdown

Next ==
  \/ \E r \in Rets : Seal(r) \/ PollRelease(r) \/ BackoffExpires(r)
  \/ \E c \in Callers : CallStep(c) \/ \E keys \in ForgetArguments(c) : Forget(c, keys)
  \/ \E i \in Ids, a \in Attempts, e \in Events : RestoreEvent(i, a, e)
  \/ ExecStep \/ MonitorStep
  \/ CloseBegin \/ CloseStep
  \/ \E p \in Pages : Evict(p) \/ RemoveAlias(p)
  \/ ToggleFreeze

Spec == Init /\ [][Next]_vars

\* The executor and the monitor are threads that run whenever they can (every
\* wait of theirs has a timeout or is woken, and native transfers terminate
\* or report an unknown outcome); close() and a forget, also the one at the end
\* of restore_event, go on once their callers got there.
Fairness == /\ WF_vars(ExecStep) /\ WF_vars(MonitorStep) /\ WF_vars(CloseStep)
            /\ \A c \in Callers : WF_vars(CallStep(c))

FairSpec == Spec /\ Fairness

-----------------------------------------------------------------------------
(* Properties *)

Task == [kind : {"publish", "retire"}, ret : Rets]

PageTypes ==
  /\ refs \in [Pages -> Int] /\ cache \subseteq Pages
  /\ jobs \in [Rets -> {"new", "sealed", "running", "done", "gone"}]
  /\ jobHeld \in [Rets -> SUBSET Pages] /\ held \subseteq Pages
OfferTypes ==
  /\ manifests \subseteq Rets /\ records \subseteq Rets /\ remote \subseteq Rets
  /\ cancelled \subseteq Rets /\ backoff \subseteq Rets
  /\ attempts \in [Rets -> [Attempts -> SUBSET Events]]
  /\ call \in [Callers -> [join : SUBSET Ids, dead : SUBSET Rets]] /\ stranded \subseteq Rets
LedgerTypes ==
  owned \in [Sites -> SUBSET Pages] /\ charges \in [Pages -> Int] /\ used \in Int
ExecTypes ==
  /\ tasks \in Seq(Task)
  /\ exec \in [pc : {"idle", "acquire", "commit", "finish", "uncharge"}, ret : Rets \cup {None}]
  /\ exec.pc \in {"acquire", "commit", "finish"} => exec.ret \in Rets
MonitorTypes ==
  /\ mon \in [pc : {"none", "top", "wait", "clear", "sample", "select", "dead"} \cup Spilling,
              rec : Rets \cup {None}, pos : 0..(2 * W),
              page : Pages \cup {Scratch, None}, low : BOOLEAN, active : BOOLEAN]
  /\ mon.pc \in Spilling => mon.rec \in Rets
  /\ mon.pc \in {"build", "put", "flight"} => mon.pos < 2 * W
  /\ draining \in BOOLEAN /\ stored \subseteq Pages /\ fatal \in BOOLEAN
FlagTypes ==
  /\ wake \in BOOLEAN /\ closed \in BOOLEAN /\ frozen \in BOOLEAN
  /\ main \in [pc : {"idle", "closing", "join", "drain", "failed", "down"}, todo : SUBSET Ids]

\* Every variable stays in the domain its Python counterpart has; a thread that
\* works on a publication names one, and a spill never runs past its windows.
TypeOK ==
  PageTypes /\ OfferTypes /\ LedgerTypes /\ ExecTypes /\ MonitorTypes /\ FlagTypes

\* The number of charges on a page is the number of places that hold it for
\* retention, across publication, forget, spill, confirmation and _retire.
LedgerExact == \A p \in Pages : charges[p] = Cardinality({s \in Sites : p \in owned[s]})

\* self.used is the physical size of the charged pages, each counted once, and
\* it never exceeds decode_checkpoint_retention_max_bytes.
BudgetRespected ==
  /\ used = Bytes({p \in Pages : charges[p] > 0})
  /\ used <= Limit

\* Sites that still hold their references: _retire gives them back before it
\* uncharges.
LiveSites == Sites \ ({RunSite} \cup (IF mon.pc = "settle" THEN {SwapSite} ELSE {})
                                \cup (IF mon.pc = "return" THEN {SpillSite} ELSE {}))
Holders(p) ==
  Cardinality({s \in LiveSites : p \in owned[s]}) + Cardinality({r \in Rets : p \in jobHeld[r]})
    + (IF p \in cache THEN 1 ELSE 0) + (IF p \in held THEN 1 ELSE 0)
    + (IF p = mon.page THEN 1 ELSE 0)

\* A page's reference count is the number of its owners: no path releases a
\* reference twice or leaks one.
RefsExact == \A p \in Pages : refs[p] = Holders(p)

\* forget and close search the manifests only, so every record that holds pages
\* must have its manifest there, one per identity; otherwise its charge leaks.
OwnersReachable ==
  /\ records \subseteq manifests
  /\ \A r, q \in manifests : IdOf[r] = IdOf[q] => r = q
  /\ \A r \in Rets : owned[<<"rec", r>>] # {} => r \in records

\* A waiting checkpoint loses its local protection only when Mooncake has
\* acknowledged every window of both groups.
ReleasedOnlyWhenDurable ==
  \A r \in records : owned[<<"rec", r>>] = {} => r \in remote /\ PagesOf(r) \subseteq stored

\* The source of a PUT that is in flight, or whose outcome is unknown, is still
\* referenced and charged, whatever was cancelled or closed meanwhile.
InFlightOwned ==
  mon.pc \in {"flight", "quarantined"} =>
    /\ owned[SpillSite] = PagesOf(mon.rec)
    /\ \A p \in owned[SpillSite] : refs[p] > 0 /\ charges[p] > 0

\* Both: pages have exactly their owners, a PUT among them while it reads.
OwnershipExact == RefsExact /\ InFlightOwned

\* Records a forget of the lookup server popped before close() and had not handed over
\* when the executor was shut down.
Overtaken == stranded \cup call["lookup"].dead

\* close() only lets the allocator go when no PUT is in flight or quarantined, nothing
\* is queued, and the cache is the only owner left; still charged and referenced are
\* only the pages of a forget that close() overtook.
ShutdownSafe ==
  main.pc = "down" =>
    /\ records = {} /\ tasks = <<>> /\ exec.pc = "idle"
    /\ mon.pc \in {"none", "dead"} /\ ~fatal
    /\ LET left == UNION {owned[<<"task", r>>] : r \in Overtaken}
       IN  used = Bytes(left) /\ \A p \in Pages : refs[p] > 0 => p \in cache \cup left

\* close() ends: the wake-up is not lost and the monitor leaves its wait.
CloseTerminates == main.pc = "closing" ~> main.pc \in {"failed", "down"}

\* A restore that was admitted and acknowledged by all workers, and did not
\* fail, ends the waiting ownership of its checkpoint.
RestoredIsRetired ==
  \A r \in Rets, a \in Attempts :
    (attempts[r][a] = {"begin", "admitted", "ack"}) ~> (r \notin records)

\* The owners of a cancelled record are released, by the executor or by the
\* monitor, unless an unknown transfer quarantined them or close() overtook the forget.
CancelledOwnersReleased ==
  \A r \in Rets : (r \in cancelled) ~>
    (fatal \/ r \in stranded \/ (mon.rec # r /\ owned[<<"task", r>>] = {} /\ owned[<<"rec", r>>] = {}))

\* Whichever way a checkpoint leaves, its owners are released.
OwnersSettle == CancelledOwnersReleased /\ RestoredIsRetired

\* What became of a publication, as CheckpointLifecycle has it.
Phase == [r \in Rets |->
  IF r \in records THEN IF r \in remote THEN "remote" ELSE "protected"
  ELSE IF r \in manifests THEN "offered"
  ELSE IF jobs[r] \in {"done", "gone"} \/ (exec.pc = "finish" /\ exec.ret = r) THEN "gone"
  ELSE "none"]
Content == [r \in Rets |-> PagesOf(r)]

Life == INSTANCE CheckpointLifecycle WITH phase <- Phase, durable <- stored

\* The store implements the lifecycle: publish, forget and the confirmation of
\* a spill each take effect in one step, whatever the threads do in between.
ImplementsLifecycle == Life!LifeSpec

=============================================================================
