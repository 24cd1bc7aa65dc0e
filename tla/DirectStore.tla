---------------------------- MODULE DirectStore ----------------------------
(***************************************************************************)
(* The store side of the cache engine as the vLLM worker drives it: pages  *)
(* are written from HBM by native puts (store_direct_prefill), by the CPU  *)
(* repair path, or by the background store worker, and a request's HBM     *)
(* blocks may be freed only when none of them reads any more.  The worker  *)
(* thread of vLLM is `main', one call at a time; puts complete on backend  *)
(* threads, whose callbacks run on their own; the store worker is a third  *)
(* thread.  Positions are counted in pages; a base inside a page, below    *)
(* which nothing is addressable, counts as the end of that page, and what  *)
(* was verified of a page only in part does not count.                     *)
(***************************************************************************)
EXTENDS RemoteWindows, LiveSource, Integers, FiniteSets, SequencesExt

CONSTANTS Reqs,         \* requests
          Prompt,       \* Prompt[r]: pages of r's prompt, the tail included
          Full,         \* Full[r]: the full ones among them
          Prior,        \* Prior[r]: pages found stored when r was scheduled
          Bases,        \* Bases[r]: the slot_mapping_base a step may come with
          Mode,         \* Mode[r]: "plain", "live" or "remote"
          Submission,   \* remote_fill_submission_mode
          Limit,        \* bound of the direct-store and of the store queue
          MaxJobs,      \* bound: direct puts ever submitted
          MaxStores,    \* bound: store() calls
          MaxFaults,    \* bound: adverse events
          Scenarios     \* which requests there are, what else is stored for them,
                        \* and what of the bounds is spent

None == "none"

ASSUME StoreAssumption ==
  /\ \A r \in Reqs : /\ Full[r] \in Nat /\ Prompt[r] \in (Full[r] .. Full[r] + 1) \ {0}
                     /\ Prior[r] \in 0 .. Prompt[r] /\ Bases[r] \subseteq 0 .. Prompt[r]
                     /\ Mode[r] \in {"plain", "live", "remote"}
  /\ Reqs \cap {None, "pill"} = {}
  /\ Submission \in {"per_chunk", "final_deferred"}
  /\ Limit \in Nat \ {0} /\ {MaxJobs, MaxStores, MaxFaults} \subseteq Nat

VARIABLES main,     \* the call the worker thread is in
          step,     \* the forward step whose save is open, or Idle
          st,       \* _direct_store_states
          job,      \* the puts submitted so far, with their futures
          jobs,     \* _direct_store_jobs
          cnt,      \* _pending_store_reqs
          stored,   \* the external store: how each page came there
          fill,     \* st.remote_fill: the windows planned
          live,     \* _live_source_builders
          ready,    \* _completed_live_sources, _live_source_ready_fences
          queue, busy, stores,  \* _store_queue, the worker's job, calls so far
          phase,    \* what the scheduler thinks of a request
          asked,    \* finished ids the worker was told of, and answers owed
          said,     \* what was recorded as saved: the committed ends
          faults

vars == <<main, step, st, job, jobs, cnt, stored, fill, live, ready, queue, busy,
          stores, phase, asked, said, faults>>

Fault == faults < MaxFaults /\ faults' = faults + 1
Fine == UNCHANGED faults

Frontier(n) == [g \in Groups |-> n]
Idle == [pc |-> "idle", r |-> None, e |-> 0, base |-> 0, final |-> FALSE, todo |-> <<>>,
         cand |-> {}, missing |-> {}, batch |-> {}, window |-> {}, from |-> 0, log |-> <<>>,
         bad |-> {}, ver |-> Frontier(0), cont |-> None, marked |-> FALSE]
NoState == [exists |-> FALSE, sub |-> Frontier(-1), com |-> Frontier(-1), planned |-> 0,
            acc |-> 0, done |-> FALSE, ready |-> 0, hand |-> 0, futures |-> <<>>, pend |-> {}]
NoDescriptor == [made |-> FALSE, fence |-> FALSE, final |-> FALSE, out |-> FALSE, covers |-> NoBuilder]
Upper(a, b) == IF a > b THEN a ELSE b
Least(a, b) == IF a < b THEN a ELSE b

Init ==
  /\ main = Idle /\ step = Idle /\ st = [r \in Reqs |-> NoState]
  /\ job = <<>> /\ jobs = <<>> /\ cnt = [r \in Reqs |-> 0]
  /\ fill = [r \in Reqs |-> [NoFill EXCEPT !.on = Mode[r] = "remote"]]
  /\ live = [r \in Reqs |-> NoBuilder]
  /\ ready = [r \in Reqs |-> NoDescriptor]
  /\ queue = <<>> /\ busy = None
  /\ \E sc \in Scenarios :
       /\ faults = sc.faults /\ stores = sc.stores
       /\ stored = [r \in Reqs |-> [p \in PagesUpTo(Prompt[r]) |->
                      IF p[2] <= Prior[r] \/ (r \in sc.active /\ p \in sc.found) THEN "prior" ELSE "no"]]
       /\ phase = [r \in Reqs |-> [is |-> IF r \in sc.active THEN "running" ELSE "away",
                               at |-> Least(Prior[r], Prompt[r] - 1), base |-> 0]]
  /\ asked = [deferred |-> {}, reported |-> {}]
  /\ said = [r \in Reqs |-> Frontier(0)]

At(pc) == main.pc = pc
Goto(pc) == main' = [main EXCEPT !.pc = pc]

(*************************** the ledger of a request **********************)
CountUp(r) == cnt' = [cnt EXCEPT ![r] = @ + 1]
Decrement(c, r, n) == [c EXCEPT ![r] = IF @ > n THEN @ - n ELSE 0]

Discharged(j) == job[j].called
InFlight(j) == job[j].is \in {"run", "lost"}
Running(r) == {j \in 1 .. Len(job) : job[j].r = r /\ InFlight(j)}

(* _direct_store_done, on the callback's thread and again on the waiter's:
   the first of the two settles the put, a failed put is left to the repair. *)
SettlesTwice(j) == job[j].is = "ok"     \* a slip: both threads settle it
Settles(j) == ~Discharged(j) /\ job[j].is = "ok"
DirectStoreDone(j) ==
  /\ st' = IF Settles(j) THEN [st EXCEPT ![job[j].r].pend = @ \ job[j].pages] ELSE st
  /\ cnt' = IF Settles(j) THEN Decrement(cnt, job[j].r, 1) ELSE cnt

Callback(j) ==
  /\ ~job[j].back /\ job[j].is \in {"ok", "bad"}
  /\ job' = [job EXCEPT ![j].back = TRUE, ![j].called = @ \/ Settles(j)]
  /\ DirectStoreDone(j) /\ Fine
  /\ UNCHANGED <<main, step, jobs, stored, fill, live, ready, queue, busy, stores, phase, asked, said>>

(* The backend's put: the pages reach the store, or the put fails, or its
   native transfer is past its hard deadline and may go on for ever. *)
PutPages(j) ==
  /\ job[j].is = "run"
  /\ \/ /\ job' = [job EXCEPT ![j].is = "ok"] /\ Fine
        /\ stored' = [stored EXCEPT ![job[j].r] = [p \in job[j].pages |-> "put"] @@ @]
     \/ /\ \E is \in {"bad", "lost"} : job' = [job EXCEPT ![j].is = is]
        /\ Fault /\ UNCHANGED stored
  /\ UNCHANGED <<main, step, st, jobs, cnt, fill, live, ready, queue, busy, stores, phase, asked, said>>

(* _submit_direct_page_batch and _track_direct_batch, once there is room. *)
Room == Len(jobs) < Limit
Track(r, pages, ends) ==
  /\ Len(job) < MaxJobs
  /\ job' = Append(job, [r |-> r, pages |-> pages, ends |-> ends, base |-> main.base,
                         is |-> "run", called |-> FALSE, back |-> FALSE])
  /\ jobs' = Append(jobs, Len(job) + 1)
  /\ CountUp(r)

(* _wait_direct_backpressure: the oldest put makes room when its future has ended. *)
MakeRoom ==
  /\ ((At("plan") /\ main.todo = <<>>) \/ At("tail")) /\ ~Room /\ job[Head(jobs)].is # "run"
  /\ jobs' = Tail(jobs) /\ Fine
  /\ UNCHANGED <<main, step, st, job, cnt, stored, fill, live, ready, queue, busy, stores, phase, asked, said>>

(*********************** CPU repair and its outcomes *********************)
(* _store_direct_cpu_group: the pages from `start' are stored layer by
   layer.  A store that ends short may have written some of them, and commits
   none. *)
CpuReach(start, e, short) ==
  IF start >= e THEN {start} ELSE IF short THEN start .. e - 1 ELSE {e}
CpuEnd(start, e, short) == IF start >= e \/ short THEN start ELSE e
CpuPages(g, start, end) == {g} \X (start + 1 .. end)
ByCpu(r, pages) == stored' = [stored EXCEPT ![r] = [p \in pages |-> "cpu"] @@ @]
Unaddressable(start, e, base) == start < e /\ start < base

(* An exception leaves the call: the save step is aborted, which waits for
   the request's puts and drops its state; a preemption has no handler. *)
RaiseTo(m) ==
  CASE m.cont \in {"preempt", "close"} -> [Idle EXCEPT !.pc = "dead"]
    [] m.cont = "abort" -> [m EXCEPT !.pc = "drop", !.marked = FALSE]
    [] OTHER -> [m EXCEPT !.pc = "wait", !.cont = "abort", !.marked = FALSE, !.log = <<>>]
UnmarkedBy(c, m) == IF m.marked THEN Decrement(c, m.r, 1) ELSE c

Raise ==
  /\ main' = RaiseTo(main) /\ cnt' = UnmarkedBy(cnt, main)
  /\ UNCHANGED <<step, st, job, jobs, stored, fill, live, ready, queue, busy, stores, phase, asked, said>>

(* Back in the adapter: the early call ends, or the batch goes on to report. *)
Back(r, e) == IF e = Prompt[r] THEN [Idle EXCEPT !.pc = "wait", !.r = r, !.cont = "report"] ELSE Idle
Return(m) == IF step.pc = "batch" THEN Back(m.r, m.e) ELSE Idle
StepAfter(m) == IF step.pc = "batch" /\ m.e # Prompt[m.r] THEN Idle ELSE step

(************************** store_direct_prefill *************************)
Covered(f, n) == [g \in Groups |-> IF f[g] = -1 THEN n ELSE f[g]]
RemoteFence(s, e) == s.hand >= e

(* The event the forward pass recorded for the pages up to e, if any. *)
Remember(s, e, ev) ==
  [s EXCEPT !.ready = IF ev = "none" THEN @ ELSE e,
            !.hand = IF ev = "handoff" THEN e ELSE @]

(* _direct_suffix_plans: from the frontier planned last, or from the start. *)
PlanBase(s, fullEnd) ==
  IF s.planned <= fullEnd /\ \A g \in Groups : s.sub[g] >= s.planned THEN s.planned ELSE 0
Planned(s, fullEnd) ==
  IF \A g \in Groups : s.sub[g] >= fullEnd THEN {}
  ELSE {p \in PagesUpTo(fullEnd) : p[2] > PlanBase(s, fullEnd)}
Candidates(s, fullEnd) == {p \in Planned(s, fullEnd) : p[2] > s.sub[p[1]]}

(* A prefix to be probed that the plan does not list is planned by itself, and
   the planned end is then the end of the prefix. *)
PlannedEnd(s, fullEnd, probed, prefix) ==
  CASE ~(probed \subseteq Planned(s, fullEnd)) -> prefix
    [] probed = {} /\ Planned(s, fullEnd) = {} -> s.planned
    [] OTHER -> fullEnd

(* Validation, readiness, the remote-fill opening, the first frontier, the plan. *)
Prefix(r, base) == Least(Least(base, Prior[r]), Full[r])
OpenCall(r, e, base, final, ev, planned, taken, mapped) ==
  LET prefix  == Prefix(r, base)
      fullEnd == Least(e, Full[r])
      fresh   == Remember([st[r] EXCEPT !.exists = TRUE, !.acc = e,
                                        !.sub = Covered(@, prefix), !.com = Covered(@, prefix)], e, ev)
      fenced  == Fenced(RemoteFence(fresh, e), final, Submission)
      w       == Sourced(fill[r], prefix, mapped)
      probed  == IF Probes(Opening(w, fenced, final, base < e, taken), fenced, prefix)
                 THEN PagesUpTo(prefix) \ PagesUpTo(fill[r].probe) ELSE {}
      opened  == [fresh EXCEPT !.planned = PlannedEnd(fresh, fullEnd, probed, prefix)]
      again   == final /\ st[r].done
  IN /\ e >= st[r].acc /\ base <= e
     /\ st' = [st EXCEPT ![r] = IF again THEN [@ EXCEPT !.acc = e] ELSE opened]
     /\ fill' = [fill EXCEPT ![r] = IF again THEN @
                    ELSE OpenStep(w, fenced, final, base < e, prefix, planned, taken)]
     /\ main' = IF again THEN Back(r, e)
                 ELSE [Idle EXCEPT !.pc = "look", !.r = r, !.e = e, !.base = base, !.final = final,
                                   !.cand = Candidates(fresh, fullEnd)]

(* The live-source half of _submit_direct_prefill_requests. *)
OpenLive(r, e, ev, plan, latent) ==
  LET begun    == BeginDescriptor(live[r], Groups)
      captured == IF ready[r].made THEN live[r] ELSE CaptureStep(begun, e, plan, latent)
      blind    == e = Prompt[r] /\ ev = "none"
      whole    == e = Prompt[r] /\ ~blind /\ Complete(captured, e)
  IN IF Mode[r] # "live" THEN UNCHANGED <<live, ready>>
     ELSE /\ live' = [live EXCEPT ![r] = IF e = Prompt[r] THEN NoBuilder ELSE captured]
          /\ ready' = [ready EXCEPT ![r] =
               IF whole THEN [@ EXCEPT !.made = TRUE, !.fence = TRUE, !.final = TRUE, !.covers = captured]
               ELSE IF blind THEN [@ EXCEPT !.made = FALSE] ELSE @]

Skipped(r) == ready[r].fence \/ ready[r].final
NextEnds(r) == phase[r].at + 1 .. Prompt[r]
NextBases(r) == {base \in Bases[r] : base >= phase[r].base}
Events == {"none", "layer", "handoff"}

(* save_kv_layer after the last layer of a forward step, for a request the
   windows of which need not wait for the end of the step. *)
EarlyCall(r) ==
  /\ At("idle") /\ step.pc = "idle" /\ phase[r].is = "running"
  /\ Mode[r] # "remote" /\ ~Skipped(r)
  /\ \E e \in NextEnds(r), base \in NextBases(r), ev \in {"none", "layer"},
       plan \in {"runs", "segments", "no"}, latent \in BOOLEAN :
       /\ IF ev = "none" \/ (Mode[r] = "live" /\ plan = "no") THEN Fault ELSE Fine
       /\ Mode[r] # "live" => plan = "no" /\ ~latent
       /\ OpenCall(r, e, base, e = Prompt[r], ev, TRUE, TRUE, FALSE)
       /\ OpenLive(r, e, ev, plan, latent)
       /\ step' = [Idle EXCEPT !.pc = "open", !.r = r, !.e = e, !.base = base]
  /\ phase' = [phase EXCEPT ![r].at = step'.e, ![r].base = step'.base]
  /\ UNCHANGED <<job, jobs, cnt, stored, queue, busy, stores, asked, said>>

(* _finish_save_batch: the same step again, with the handoff's event. *)
BatchOf(r, e, base) == [Idle EXCEPT !.pc = "batch", !.r = r, !.e = e, !.base = base]
BatchStep(r, e, base) ==
  /\ phase' = [phase EXCEPT ![r].at = e, ![r].base = base]
  /\ UNCHANGED <<job, jobs, cnt, stored, queue, busy, stores, asked, said>>
  /\ IF Skipped(r)
     THEN /\ main' = Back(r, e)
          /\ step' = IF e = Prompt[r] THEN BatchOf(r, e, base) ELSE Idle
          /\ UNCHANGED <<st, fill, live, ready>> /\ Fine
     ELSE /\ step' = BatchOf(r, e, base)
          /\ \E ev \in Events, planned, taken, mapped, latent \in BOOLEAN, plan \in {"runs", "segments", "no"} :
               /\ IF ev = "none" \/ ~planned \/ ~taken THEN Fault ELSE Fine
               /\ Mode[r] # "live" => plan = "no" /\ ~latent
               /\ Mode[r] # "remote" => planned /\ taken /\ ~mapped /\ ev # "layer"
               /\ OpenCall(r, e, base, e = Prompt[r], ev, planned, taken, mapped)
               /\ OpenLive(r, e, ev, plan, latent)

BatchCall(r) ==
  /\ At("idle") /\ phase[r].is = "running"
  /\ \/ step.pc = "open" /\ step.r = r /\ BatchStep(r, step.e, step.base)
     \/ step.pc = "idle" /\ \E e \in NextEnds(r), base \in NextBases(r) : BatchStep(r, e, base)

OfGroup(pages, g) == {p \in pages : p[1] = g}
EndOf(pages, g, otherwise) ==
  IF OfGroup(pages, g) = {} THEN otherwise ELSE Max({p[2] : p \in OfGroup(pages, g)})
Present(r, p) == stored[r][p] # "no"

(* The lookup: groups without a missing page are advanced at once. *)
Advance(s, cand, missing) ==
  LET held(g) == \E p \in missing : p[1] = g
      sub == [g \in Groups |-> IF held(g) THEN s.sub[g] ELSE Upper(s.sub[g], EndOf(cand, g, 0))]
  IN [s EXCEPT !.sub = sub,
               !.com = IF s.futures = <<>>
                       THEN [g \in Groups |-> IF held(g) THEN @[g] ELSE Upper(@[g], sub[g])] ELSE @]

LookUp ==
  LET r == main.r
      missing == {p \in main.cand : ~Present(r, p)}
  IN /\ At("look")
     /\ \/ /\ \E p \in missing : p[2] - 1 < main.base
           /\ main' = RaiseTo(main) /\ Fine /\ UNCHANGED st
        \/ /\ \A p \in missing : p[2] - 1 >= main.base
           /\ st' = [st EXCEPT ![r] = Advance(@, main.cand, missing)] /\ Fine
           /\ main' = [main EXCEPT !.pc = "plan", !.missing = missing,
                                   !.todo = SetToSortSeq(Groups, LAMBDA a, b : a < b)]
        \/ /\ main' = [main EXCEPT !.pc = "wait", !.cont = "all"]
           /\ Fault /\ UNCHANGED st
     /\ UNCHANGED <<step, job, jobs, cnt, stored, fill, live, ready, queue, busy, stores, phase, asked, said>>

(* One group of the plan: its pages join the batch and the window, or the
   planner rejects them and the group goes through the CPU, from the frontier
   that was committed before the wait for the puts. *)
PlanGroup ==
  LET r == main.r
      g == Head(main.todo)
      persist == OfGroup(main.missing, g) \ st[r].pend
      cut == Enabled(fill[r]) /\ \E p \in OfGroup(main.cand, g) : p[2] - 1 < main.base
      collect == Enabled(fill[r]) /\ ~cut
      full == IF collect THEN OfGroup(main.cand, g) ELSE persist
      next == [main EXCEPT !.todo = Tail(@)]
  IN /\ At("plan") /\ main.todo # <<>>
     /\ \/ /\ fill' = [fill EXCEPT ![r] = IF cut THEN Disable(@) ELSE @]
           /\ live' = [live EXCEPT ![r] = IF persist = {} \/ ~@.exists THEN @
                         ELSE RecordSegments(@, g, Min({p[2] : p \in persist}) - 1, EndOf(persist, g, 0))]
           /\ main' = [next EXCEPT !.batch = @ \cup persist,
                                   !.window = @ \cup (IF collect THEN full ELSE {})]
           /\ Fine
        \/ /\ full # {} /\ Fault
           /\ fill' = [fill EXCEPT ![r] = IF collect \/ cut THEN Disable(@) ELSE @]
           /\ main' = IF persist = {} THEN next
                     ELSE [main EXCEPT !.pc = "wait", !.cont = "group", !.from = st[r].com[g]]
           /\ UNCHANGED live
     /\ UNCHANGED <<step, st, job, jobs, cnt, stored, ready, queue, busy, stores, phase, asked, said>>

(* The persistent batch, then the window; without a producer's event the
   call fails, a refused put sends the whole request through the CPU. *)
Ends(pages, of) == [g \in {p[1] : p \in pages} |-> EndOf(of, g, 0)]
Submitted(s, pages, ends) ==
  [s EXCEPT !.pend = @ \cup pages, !.futures = Append(@, Len(job) + 1),
            !.sub = [g \in Groups |-> IF g \in DOMAIN ends THEN Upper(@[g], ends[g]) ELSE @[g]]]

SubmitBatch ==
  LET r == main.r
      batch == main.batch
      ends == Ends(batch, main.cand)
      blind == (batch # {} \/ (Enabled(fill[r]) /\ ~fill[r].deferring /\ main.window # {}))
               /\ st[r].ready < main.e
      fenced == Fenced(RemoteFence(st[r], main.e), main.final, Submission)
      after == IF main.final THEN [main EXCEPT !.pc = "tail"] ELSE Return(main)
  IN /\ At("plan") /\ main.todo = <<>>
     /\ \/ blind /\ Raise /\ Fine
        \/ /\ ~blind /\ (batch = {} \/ Room)
           /\ \E taken, hold \in BOOLEAN :
                /\ IF taken THEN Fine ELSE Fault /\ Enabled(fill[r])
                /\ hold => main.final /\ Submission = "per_chunk" /\ Prompt[r] > Full[r]
                /\ fill' = [fill EXCEPT ![r] = CollectWindow(@, main.window, fenced, hold, taken)]
           /\ IF batch = {} THEN UNCHANGED <<job, jobs, cnt, st>>
              ELSE Track(r, batch, ends) /\ st' = [st EXCEPT ![r] = Submitted(@, batch, ends)]
           /\ main' = after /\ step' = IF main.final THEN step ELSE StepAfter(main)
           /\ UNCHANGED <<stored, live, ready, queue, busy, stores, phase, asked, said>>
        \/ /\ ~blind /\ batch # {} /\ Fault
           /\ main' = [main EXCEPT !.pc = "wait", !.cont = "all"]
           /\ UNCHANGED <<step, st, job, jobs, cnt, stored, fill, live, ready, queue, busy, stores, phase, asked, said>>

(* _submit_direct_tail: the partial page of the groups that lack it.  Its
   failures are swallowed: the repair after the wait makes up for them. *)
HasTail(s, r) == Prompt[r] > Full[r] /\ s.planned = Full[r]
TailsStored(s, r, gs) ==
  [s EXCEPT !.sub = [g \in Groups |-> IF g \in gs THEN Prompt[r] ELSE @[g]],
            !.com = [g \in Groups |-> IF g \in gs /\ s.futures = <<>> THEN Prompt[r] ELSE @[g]]]

TailPut(r, keys, marked) ==
  IF keys = {} THEN st' = [st EXCEPT ![r] = marked] /\ UNCHANGED <<job, jobs, cnt>>
  ELSE /\ Room /\ st[r].ready >= main.e
       /\ Track(r, keys, Ends(keys, keys)) /\ st' = [st EXCEPT ![r] = Submitted(marked, keys, Ends(keys, keys))]

(* A tail page that begins below the base is not addressable.  The sources of
   the others are planned: accepted; without a producer's event; rejected for a
   group that is stored; rejected or failed for one that is not. *)
SubmitTail ==
  LET r == main.r
      tail == Groups \X {Prompt[r]}
      fenced == RemoteFence(st[r], main.e)
      remote == Enabled(fill[r]) /\ fenced
      groups == IF remote THEN Groups ELSE {g \in Groups : st[r].sub[g] < Prompt[r]}
      here == {g \in groups : Present(r, <<g, Prompt[r]>>)}
      keys == (groups \ here) \X {Prompt[r]}
      marked == TailsStored(st[r], r, here)
      low == Prompt[r] - 1 < main.base
      unfenced == IF Enabled(fill[r]) /\ ~fenced THEN Disable(fill[r]) ELSE fill[r]
  IN /\ At("tail") /\ main' = [main EXCEPT !.pc = "mark"]
     /\ \/ /\ ~HasTail(st[r], r) /\ Fine /\ UNCHANGED <<st, job, jobs, cnt, fill>>
        \/ /\ HasTail(st[r], r) /\ (~low \/ (~remote /\ keys = {})) /\ TailPut(r, keys, marked)
           /\ \E taken \in BOOLEAN :
                /\ IF taken THEN Fine ELSE Fault /\ remote
                /\ fill' = [fill EXCEPT ![r] = CollectTail(@, IF remote THEN tail ELSE {}, fenced, taken)]
        \/ /\ HasTail(st[r], r) /\ low /\ remote
           /\ \E taken \in BOOLEAN :
                /\ IF taken THEN Fine ELSE Fault /\ keys = {}
                /\ fill' = [fill EXCEPT ![r] = ProbeTail(@, tail, keys = {}, taken)]
           /\ st' = [st EXCEPT ![r] = marked] /\ UNCHANGED <<job, jobs, cnt>>
        \/ /\ HasTail(st[r], r) /\ low /\ ~remote /\ keys # {} /\ Fine
           /\ fill' = [fill EXCEPT ![r] = unfenced]
           /\ \E n \in SUBSET here : st' = [st EXCEPT ![r] = TailsStored(@, r, n)]
           /\ UNCHANGED <<job, jobs, cnt>>
        \/ /\ HasTail(st[r], r) /\ ~low /\ keys # {} /\ st[r].ready < main.e /\ Fine
           /\ fill' = [fill EXCEPT ![r] = unfenced]
           /\ st' = [st EXCEPT ![r] = marked] /\ UNCHANGED <<job, jobs, cnt>>
        \/ /\ HasTail(st[r], r) /\ ~low /\ remote /\ here # {} /\ Fault
           /\ fill' = [fill EXCEPT ![r] = Disable(@)] /\ TailPut(r, keys, marked)
        \/ /\ HasTail(st[r], r) /\ groups # {} /\ Fault
           /\ \E rejected \in BOOLEAN : fill' = [fill EXCEPT ![r] = IF rejected THEN Disable(@) ELSE unfenced]
           /\ \E n \in SUBSET here : (low => n # groups) /\ st' = [st EXCEPT ![r] = TailsStored(@, r, n)]
           /\ UNCHANGED <<job, jobs, cnt>>
     /\ UNCHANGED <<step, stored, live, ready, queue, busy, stores, phase, asked, said>>

(* Held windows go out, as one or apart.  The final wait holds one more count,
   so that no poll frees the blocks. *)
MarkFinal ==
  LET w == fill[main.r]
  IN /\ At("mark") /\ CountUp(main.r)
     /\ main' = [main EXCEPT !.pc = "wait", !.cont = "final", !.marked = TRUE]
     /\ \E windows \in {w.held, HeldAsOne(w)} : \E n \in 0 .. Len(windows) :
          /\ IF n = Len(windows) \/ ~Enabled(w) THEN Fine ELSE Fault
          /\ fill' = [fill EXCEPT ![main.r] = ReleaseHeld(@, windows, n)]
     /\ UNCHANGED <<step, st, job, jobs, stored, live, ready, queue, busy, stores, phase, asked, said>>

(************************* wait_for_direct_stores ************************)
(* The futures in submission order; a transfer past its deadline is fatal. *)
WaitPop ==
  LET r == main.r
      j == Head(st[r].futures)
      popped == [st EXCEPT ![r].futures = Tail(@)]
  IN /\ At("wait") /\ st[r].futures # <<>> /\ job[j].is # "run" /\ Fine
     /\ \/ /\ job[j].is = "lost" /\ main' = [Idle EXCEPT !.pc = "dead"]
           /\ UNCHANGED <<job, cnt, st>>
        \/ /\ job[j].is # "lost"
           /\ main' = [main EXCEPT !.log = Append(@, j),
                                   !.bad = IF job[j].is = "bad" THEN @ \cup {j} ELSE @]
           /\ job' = [job EXCEPT ![j].called = @ \/ Settles(j)]
           /\ st' = IF Settles(j) THEN [popped EXCEPT ![r].pend = @ \ job[j].pages] ELSE popped
           /\ cnt' = IF Settles(j) THEN Decrement(cnt, r, 1) ELSE cnt
     /\ UNCHANGED <<step, jobs, stored, fill, live, ready, queue, busy, stores, phase, asked, said>>

(* No put failed: what was submitted is committed.  Else the replay. *)
Drained(m) == [m EXCEPT !.pc = "drain", !.log = <<>>, !.ver = Frontier(0), !.bad = {}]
WaitDone ==
  LET r == main.r
  IN /\ At("wait") /\ st[r].futures = <<>> /\ Fine
     /\ \/ /\ main.bad = {} /\ main' = Drained(main)
           /\ st' = [st EXCEPT ![r].com = [g \in Groups |-> Upper(@[g], st[r].sub[g])]]
        \/ /\ main.bad # {} /\ UNCHANGED st
           /\ main' = [main EXCEPT !.pc = "replay", !.ver = st[r].com]
     /\ UNCHANGED <<step, job, jobs, cnt, stored, fill, live, ready, queue, busy, stores, phase, asked, said>>

(* The jobs again, in the order they were submitted: those that succeeded
   advance the verified frontier, the window of one that failed is repaired. *)
VerifiedByLater(ver, ends) == [g \in Groups |-> st[main.r].sub[g]]     \* a slip: later jobs vouch for a failed one
Verified(ver, ends) == [g \in Groups |-> IF g \in DOMAIN ends THEN Upper(ver[g], ends[g]) ELSE ver[g]]
Replay ==
  LET j == Head(main.log)
      ends == job[j].ends
      low == \E g \in DOMAIN ends : main.ver[g] < job[j].base
      passed == [main EXCEPT !.log = Tail(@), !.ver = Verified(@, ends)]
      broken == [main EXCEPT !.pc = "broken"]
  IN /\ At("replay") /\ main.log # <<>>
     /\ \/ low /\ Fine /\ UNCHANGED stored /\ main' = broken
        \/ ~low /\ job[j].is = "ok" /\ Fine /\ UNCHANGED stored /\ main' = passed
        \/ /\ ~low /\ job[j].is = "bad" /\ Fine /\ main' = passed
           /\ ByCpu(main.r, UNION {CpuPages(g, main.ver[g], ends[g]) : g \in DOMAIN ends})
        \/ /\ ~low /\ job[j].is = "bad" /\ \E g \in DOMAIN ends : main.ver[g] < ends[g]
           /\ Fault /\ UNCHANGED stored /\ main' = broken
     /\ UNCHANGED <<step, st, job, jobs, cnt, fill, live, ready, queue, busy, stores, phase, asked, said>>

(* Repaired, the later jobs' frontier is safe too; in either case the failed
   puts are settled. *)
RepairedEnds(r) == [g \in Groups |-> Upper(main.ver[g], st[r].sub[g])]
ReplayEnd ==
  LET r == main.r
      settled == Decrement(cnt, r, Cardinality(main.bad))
      left == st[r].pend \ UNION {job[j].pages : j \in main.bad}
  IN /\ \/ /\ At("replay") /\ main.log = <<>> /\ main' = Drained(main) /\ cnt' = settled
           /\ st' = [st EXCEPT ![r].pend = left, ![r].com = RepairedEnds(r)]
        \/ /\ At("broken") /\ main' = RaiseTo([main EXCEPT !.bad = {}, !.log = <<>>])
           /\ cnt' = UnmarkedBy(settled, main) /\ st' = [st EXCEPT ![r].pend = left]
     /\ job' = [j \in 1 .. Len(job) |-> [job[j] EXCEPT !.called = @ \/ j \in main.bad]]
     /\ Fine
     /\ UNCHANGED <<step, jobs, stored, fill, live, ready, queue, busy, stores, phase, asked, said>>

(* _wait_remote_fill_windows: a window that ended in an unknown native state
   is fatal for the request's fill. *)
Offered(w) == w.sent # <<>> \/ w.probe > 0 \/ w.tail # {}
DrainWindows ==
  LET r == main.r
  IN /\ At("drain")
     /\ \/ Goto(main.cont) /\ Fine /\ UNCHANGED <<fill, cnt>>
        \/ /\ Offered(fill[r]) /\ Fault /\ fill' = [fill EXCEPT ![r].terminal = "fatal"]
           /\ main' = RaiseTo(main) /\ cnt' = UnmarkedBy(cnt, main)
     /\ UNCHANGED <<step, st, job, jobs, stored, live, ready, queue, busy, stores, phase, asked, said>>

(************************ what follows the wait **************************)
(* _retry_direct_cpu of all groups, or the one group the planner rejected: each
   from `start', and what it commits replaces the frontier. *)
CpuRepair(r, gs, start, reach, ends) ==
  /\ ByCpu(r, UNION {CpuPages(g, start[g], reach[g]) : g \in gs})
  /\ st' = [st EXCEPT ![r].com = [g \in Groups |-> IF g \in gs THEN ends[g] ELSE @[g]],
                      ![r].sub = [g \in Groups |-> IF g \in gs THEN ends[g] ELSE @[g]]]

(* For each group in turn the repair commits everything, or stops short. *)
Repairing(gs, start, next) ==
  LET r == main.r
      e == main.e
  IN \/ /\ \E g \in gs : Unaddressable(start[g], e, main.base)
        /\ Raise /\ Fine
     \/ /\ \A g \in gs : ~Unaddressable(start[g], e, main.base)
        /\ \E short \in SUBSET gs, reach \in [Groups -> 0 .. e] :
             /\ IF short = {} THEN Fine ELSE Fault
             /\ \A g \in gs : reach[g] \in CpuReach(start[g], e, g \in short)
             /\ \A g \in Groups \ gs : reach[g] = 0
             /\ CpuRepair(r, gs, start, reach, [g \in gs |-> CpuEnd(start[g], e, g \in short)])
        /\ main' = next
        /\ UNCHANGED <<step, job, jobs, cnt, fill, live, ready, queue, busy, stores, phase, asked, said>>

RepairAll == At("all") /\ Repairing(Groups, st[main.r].com, [main EXCEPT !.pc = "finalize"])
RepairGroup ==
  /\ At("group")
  /\ Repairing({Head(main.todo)}, Frontier(main.from),
               [main EXCEPT !.pc = "plan", !.todo = Tail(@), !.cont = None])
RepairFinal ==
  /\ At("final")
  /\ Repairing({g \in Groups : st[main.r].com[g] < main.e}, st[main.r].com, [main EXCEPT !.pc = "finalize"])

(* _finalize_direct_store, and the return to the adapter.  _finish_remote_fill
   sends FINISH once: its outcome may be PERSISTENCE_FAILED or FATAL_RESTART, with
   which the request is not forwarded, and an answer without one raises. *)
AllCommitted(s) == \A g \in Groups : s.com[g] = s.acc
Finalized(r) ==
  /\ st' = [st EXCEPT ![r].done = @ \/ main.final]
  /\ cnt' = UnmarkedBy(cnt, main)
  /\ main' = Return(main) /\ step' = StepAfter(main)
  /\ UNCHANGED <<job, jobs, stored, live, ready, queue, busy, stores, phase, asked, said>>
NotFinalized(r) ==
  /\ main' = RaiseTo(main) /\ cnt' = UnmarkedBy(cnt, main)
  /\ UNCHANGED <<step, st, job, jobs, stored, live, ready, queue, busy, stores, phase, asked, said>>

FinalizeDirectStore ==
  LET r == main.r
      w == fill[r]
      asks == main.final /\ ~st[r].done
      passes == asks /\ AllCommitted(st[r]) /\ w.on /\ w.terminal \in {"none", "accepted"}
  IN /\ At("finalize")
     /\ \/ asks /\ ~AllCommitted(st[r]) /\ NotFinalized(r) /\ Fine /\ UNCHANGED fill
        \/ ~asks /\ Finalized(r) /\ Fine /\ UNCHANGED fill
        \/ asks /\ AllCommitted(st[r]) /\ ~w.on /\ Finalized(r) /\ Fine /\ UNCHANGED fill
        \/ passes /\ Finalized(r) /\ Fine /\ fill' = [fill EXCEPT ![r].terminal = "accepted"]
        \/ /\ passes /\ w.terminal = "none" /\ Offered(w) /\ NotFinalized(r) /\ Fault
           /\ \E outcome \in {"none", "failed", "fatal"} : fill' = [fill EXCEPT ![r].terminal = outcome]
        \/ /\ asks /\ AllCommitted(st[r]) /\ w.on /\ w.terminal \notin {"none", "accepted"}
           /\ NotFinalized(r) /\ Fine /\ UNCHANGED fill

(* The end of _finish_save_batch: what is committed is recorded as saved. *)
Report ==
  /\ At("report") /\ main' = Idle /\ step' = Idle /\ Fine
  /\ said' = [said EXCEPT ![main.r] = [g \in Groups |-> Upper(0, st[main.r].com[g])]]
  /\ UNCHANGED <<st, job, jobs, cnt, stored, fill, live, ready, queue, busy, stores, phase, asked>>

(* drop_direct_store_states: a state that still owns puts stays, and one whose
   fill ended fatally is never released: the call raises. *)
Releasable(r) == st[r].futures = <<>> /\ st[r].pend = {} /\ fill[r].terminal # "fatal"
Dropped(r) ==
  /\ st' = [st EXCEPT ![r] = IF Releasable(r) THEN NoState ELSE @]
  /\ fill' = [fill EXCEPT ![r] = IF Releasable(r) THEN [NoFill EXCEPT !.on = Mode[r] = "remote"] ELSE @]
  /\ live' = [live EXCEPT ![r] = NoBuilder]

AbortSaveStep ==
  /\ main.pc \in {"abort", "drop"} /\ Dropped(main.r) /\ step' = Idle /\ Fine
  /\ main' = IF fill[main.r].terminal = "fatal" THEN [Idle EXCEPT !.pc = "dead"] ELSE Idle
  /\ ready' = [ready EXCEPT ![main.r] = [@ EXCEPT !.made = FALSE, !.fence = FALSE, !.final = FALSE]]
  /\ UNCHANGED <<job, jobs, cnt, stored, queue, busy, stores, phase, asked, said>>

(***************** the store worker, finishing and preemption *************)
(* store(): the count goes up before the queue takes the job, which may
   block the caller. *)
StoreCall(r) ==
  /\ At("idle") /\ step.pc = "idle" /\ phase[r].is = "running" /\ stores < MaxStores
  /\ stores' = stores + 1 /\ CountUp(r) /\ main' = [Idle EXCEPT !.pc = "put", !.r = r] /\ Fine
  /\ UNCHANGED <<step, st, job, jobs, stored, fill, live, ready, queue, busy, phase, asked, said>>
EnqueueStore ==
  /\ At("put") /\ Len(queue) < Limit /\ queue' = Append(queue, main.r) /\ main' = Idle /\ Fine
  /\ UNCHANGED <<step, st, job, jobs, cnt, stored, fill, live, ready, busy, stores, phase, asked, said>>

(* _store_worker_loop: a job, which reads the request's blocks, or the pill. *)
WorkerTake ==
  /\ busy = None /\ queue # <<>> /\ busy' = Head(queue) /\ queue' = Tail(queue) /\ Fine
  /\ UNCHANGED <<main, step, st, job, jobs, cnt, stored, fill, live, ready, stores, phase, asked, said>>
WorkerDone ==
  /\ busy \in Reqs /\ busy' = None /\ cnt' = Decrement(cnt, busy, 1) /\ Fine
  /\ UNCHANGED <<main, step, st, job, jobs, stored, fill, live, ready, queue, stores, phase, asked, said>>

Finish(r) ==
  /\ phase[r].is = "running" /\ At("idle") /\ step.pc = "idle"
  /\ phase' = [phase EXCEPT ![r].is = "finished"] /\ Fine
  /\ UNCHANGED <<main, step, st, job, jobs, cnt, stored, fill, live, ready, queue, busy, stores, asked, said>>

(* get_finished_stores, with the ids that finished since the last call, and
   the release of those it names: their blocks are free from now on. *)
Pending(r) == cnt[r] > 0
ReportableOnce(r, new) == r \in new /\ ~Pending(r)     \* a slip: a deferred id is not asked about again
Reportable(r, new) ==
  \/ r \in asked.deferred /\ ~Pending(r)
  \/ r \in new /\ ~Pending(r) /\ r \notin asked.reported \cap new
GetFinishedStores ==
  LET new == {r \in Reqs : phase[r].is = "finished"}
      out == {r \in Reqs : Reportable(r, new)}
  IN /\ At("idle") /\ new \cup out # {} /\ Fine
     /\ asked' = [deferred |-> (asked.deferred \cup {r \in new : Pending(r)}) \ out,
                  reported |-> (asked.reported \cap new) \cup out]
     /\ phase' = [r \in Reqs |-> IF r \in out THEN [phase[r] EXCEPT !.is = "freed"]
                                 ELSE IF r \in new THEN [phase[r] EXCEPT !.is = "told"] ELSE phase[r]]
     /\ st' = [r \in Reqs |-> IF r \in out /\ st[r].futures = <<>> /\ st[r].pend = {} THEN NoState ELSE st[r]]
     /\ live' = [r \in Reqs |-> IF r \in out THEN NoBuilder ELSE live[r]]
     /\ ready' = [r \in Reqs |-> IF r \in out THEN [ready[r] EXCEPT !.made = FALSE, !.final = FALSE] ELSE ready[r]]
     /\ UNCHANGED <<main, step, job, jobs, cnt, stored, fill, queue, busy, stores, said>>

(* handle_preemptions: wait_for_pending_stores, then the blocks are reused. *)
Preempt(r) ==
  /\ At("idle") /\ step.pc = "idle" /\ phase[r].is = "running" /\ Fine
  /\ main' = [Idle EXCEPT !.pc = "wait", !.r = r, !.cont = "preempt"]
  /\ UNCHANGED <<step, st, job, jobs, cnt, stored, fill, live, ready, queue, busy, stores, phase, asked, said>>
PreemptDrained ==
  /\ At("preempt") /\ ~Pending(main.r) /\ Dropped(main.r) /\ main' = Idle /\ Fine
  /\ phase' = [phase EXCEPT ![main.r].is = "freed"]
  /\ ready' = [ready EXCEPT ![main.r] = [@ EXCEPT !.made = FALSE, !.fence = FALSE, !.final = FALSE]]
  /\ UNCHANGED <<step, job, jobs, cnt, stored, queue, busy, stores, asked, said>>

(* build_connector_worker_meta: the fences are waited for, then everything
   completed goes to the scheduler. *)
WorkerMeta ==
  /\ At("idle") /\ \E r \in Reqs : ready[r].made \/ ready[r].fence
  /\ ready' = [r \in Reqs |-> [ready[r] EXCEPT !.out = @ \/ ready[r].made, !.made = FALSE, !.fence = FALSE]]
  /\ Fine
  /\ UNCHANGED <<main, step, st, job, jobs, cnt, stored, fill, live, queue, busy, stores, phase, asked, said>>

(* close(): every request's puts, then the worker; a worker that does not
   end in time is left behind. *)
CloseWait ==
  /\ At("idle") /\ step.pc = "idle" /\ (\A r \in Reqs : phase[r].is # "running") /\ Fine
  /\ \/ \E r \in Reqs : st[r].futures # <<>> /\ main' = [Idle EXCEPT !.pc = "wait", !.r = r, !.cont = "close"]
     \/ (\A r \in Reqs : st[r].futures = <<>>) /\ Goto("pill")
  /\ UNCHANGED <<step, st, job, jobs, cnt, stored, fill, live, ready, queue, busy, stores, phase, asked, said>>
CloseNext ==
  /\ At("close") /\ main' = Idle /\ Fine
  /\ UNCHANGED <<step, st, job, jobs, cnt, stored, fill, live, ready, queue, busy, stores, phase, asked, said>>
ClosePill ==
  /\ At("pill") /\ Len(queue) < Limit /\ queue' = Append(queue, "pill") /\ Goto("join")
  /\ st' = [r \in Reqs |-> NoState] /\ Fine
  /\ UNCHANGED <<step, job, jobs, cnt, stored, fill, live, ready, busy, stores, phase, asked, said>>
CloseJoin ==
  /\ At("join") /\ Goto("closed") /\ IF busy = "pill" THEN Fine ELSE Fault
  /\ UNCHANGED <<step, st, job, jobs, cnt, stored, fill, live, ready, queue, busy, stores, phase, asked, said>>

(****************************** specification *****************************)
Calls == \E r \in Reqs : EarlyCall(r) \/ StoreCall(r) \/ Finish(r) \/ Preempt(r)
         \/ (step.pc = "idle" /\ BatchCall(r))
Progress ==
  \/ \E j \in 1 .. Len(job) : Callback(j) \/ PutPages(j)
  \/ \E r \in Reqs : step.pc = "open" /\ BatchCall(r)
  \/ MakeRoom \/ LookUp \/ PlanGroup \/ SubmitBatch \/ SubmitTail \/ MarkFinal
  \/ WaitPop \/ WaitDone \/ Replay \/ ReplayEnd \/ DrainWindows
  \/ RepairAll \/ RepairGroup \/ RepairFinal \/ FinalizeDirectStore \/ Report \/ AbortSaveStep
  \/ EnqueueStore \/ WorkerTake \/ WorkerDone
  \/ GetFinishedStores \/ PreemptDrained \/ WorkerMeta \/ CloseNext \/ ClosePill \/ CloseJoin
Next == Calls \/ CloseWait \/ Progress
Spec == Init /\ [][Next]_vars /\ WF_vars(Progress)

(******************************* properties *******************************)
Freed(r) == phase[r].is = "freed"
Reads(r) == Running(r) # {} \/ busy = r \/ \E i \in 1 .. Len(queue) : queue[i] = r

(* Blocks that were given back, through get_finished_stores, a preemption or
   close, are read by no put and no background store any more. *)
FreedUnread ==
  /\ \A r \in Reqs : Freed(r) => ~Reads(r)
  /\ At("closed") => \A r \in Reqs : Running(r) = {}

(* What the adapter records as saved is in the external store, page by page,
   whatever puts failed, were repaired or were replayed on the way.  The code does
   not keep this: see PassedOver. *)
SavedIsWhole == \A r \in Reqs, g \in Groups : \A i \in 1 .. said[r][g] : Present(r, <<g, i>>)

(* The same, but for the one hole it leaves: full pages nobody submitted, of a group
   the planner rejected and the CPU did not store in full, below a tail that was put
   alone. *)
PassedOver(r, p) ==
  /\ p[2] <= Full[r] /\ Full[r] < Prompt[r]
  /\ \A j \in 1 .. Len(job) : job[j].r = r => p \notin job[j].pages
  /\ \E j \in 1 .. Len(job) : job[j].r = r /\ <<p[1], Prompt[r]>> \in job[j].pages
SavedIsStored ==
  \A r \in Reqs, g \in Groups :
    \A i \in 1 .. said[r][g] : Present(r, <<g, i>>) \/ PassedOver(r, <<g, i>>)

(* When the request is finalized and its fill was not given up, every page is in a
   window or was probed, except the ones the CPU repair stored and a stored tail
   the planning of which raised, which is then missing as a whole. *)
Offers(r) == SentPages(fill[r]) \cup Probed(fill[r])
TailLeftOut(r, p) ==
  /\ p[2] > Full[r] /\ p[2] > phase[r].base /\ stored[r][p] = "prior"
  /\ \A q \in Offers(r) : q[2] <= Full[r]
WindowsCover ==
  \A r \in Reqs : st[r].done /\ Enabled(fill[r]) =>
    \A p \in PagesUpTo(st[r].acc) :
      p \in Offers(r) \/ stored[r][p] = "cpu" \/ TailLeftOut(r, p)

(* A descriptor that reaches the scheduler covers the whole prompt in each of
   its groups, and none is left over for blocks that are free. *)
SourcesWhole ==
  \A r \in Reqs : /\ ready[r].out => \A g \in ready[r].covers.groups : ready[r].covers.ends[g] = Prompt[r]
                  /\ ready[r].made => ~Freed(r)

(* What is offered to the decoder, as windows or as a live descriptor, is whole. *)
OffersWhole == WindowsCover /\ SourcesWhole

(* A finished request's blocks are given back, unless the worker died or was
   closed, or one of its puts failed and no later wait repaired it. *)
Unrepaired(r) == \E j \in 1 .. Len(job) : job[j].r = r /\ job[j].is \in {"bad", "lost"} /\ ~job[j].called
FinishedIsFreed ==
  \A r \in Reqs : phase[r].is \in {"finished", "told"} ~>
    (Freed(r) \/ Unrepaired(r) \/ main.pc \in {"dead", "pill", "join", "closed"})

(* Every call of the worker thread returns or raises: no wait for puts, for room
   or for the store worker is for ever. *)
CallsReturn == []<>(main.pc \in {"idle", "dead", "closed"})

(* Together: whatever puts fail, the engine comes to rest. *)
EngineSettles == FinishedIsFreed /\ CallsReturn
=============================================================================
