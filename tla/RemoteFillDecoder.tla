-------------------------- MODULE RemoteFillDecoder --------------------------
(***************************************************************************)
(* Remote fill, decoder side (lmcache_ascend/v1/remote_fill.py): hidden    *)
(* pages are reserved for a window of a transfer, written by the           *)
(* prefiller's native push while the window is armed, and admitted to the  *)
(* local cache when the transfer finishes.  The service thread serves one  *)
(* control request at a time and runs maintenance in between.  The         *)
(* transaction core behind it (RemoteFillStateCore of LMCache) is external *)
(* and modelled from how the page lifecycle and the producer use it.       *)
(***************************************************************************)
EXTENDS Integers, FiniteSets, Sequences

CONSTANTS
  Transfers,  \* one per prefill request with a handoff
  Keys,       \* chunk pages
  PagesOf,    \* PagesOf[q]: the control pages of each window of q
  Stored,     \* pages the cache may hold before the first transfer
  Capacity,   \* pages of the decoder's local cache
  MaxFaults   \* bound: adverse events in a behaviour

ASSUME DecoderAssumption ==
  /\ IsFiniteSet(Transfers) /\ IsFiniteSet(Keys)
  /\ PagesOf \in [Transfers -> Seq((SUBSET Keys) \ {{}})]
  /\ Stored \subseteq Keys /\ Cardinality(Stored) <= Capacity
  /\ Capacity \in Nat /\ MaxFaults \in Nat

Windows(q) == DOMAIN PagesOf[q]

VARIABLES
  cache,    \* cache[k]: "absent", "full", or "partial" (admitted without its content)
  hidden,   \* <<q, w, k>>: reserved pages, pinned and with one reference
  written,  \* <<q, w, k>>: pages whose content arrived completely
  writing,  \* <<q, w>>: native pushes that may still touch their pages
  win,      \* win[q][w]: none, reserved, armed, success, failure
  tx,       \* tx[q]: none, open, local, persistent, cancelled, unsafe
  host,     \* the service thread: up, stopping, closed
  rpc,      \* rpc[q]: [op, w, arg, st, reply], the control request in flight
  late,     \* requests given up on that may still be served
  faults    \* adverse events so far

cacheVars == <<cache, hidden, written>>
netVars == <<rpc, late, faults>>
decoderVars == <<cacheVars, writing, win, tx, host, netVars>>

\* Something goes wrong: at most MaxFaults times.
Fault == faults < MaxFaults /\ faults' = faults + 1
Fine == UNCHANGED faults

Cached == {k \in Keys : cache[k] # "absent"}
Room == Capacity - Cardinality(Cached) - Cardinality(hidden)
HiddenOf(q) == {p \in hidden : p[1] = q}
HiddenIn(q, w) == {p \in hidden : p[1] = q /\ p[2] = w}
Armed(q) == {w \in Windows(q) : win[q][w] = "armed"}
Reply(code, hole, made, seen) == [code |-> code, hole |-> hole, made |-> made, seen |-> seen]
NoReply == Reply("none", FALSE, {}, "none")
Idle == [op |-> "none", w |-> 0, arg |-> "none", st |-> "idle", reply |-> NoReply]

-----------------------------------------------------------------------------
(* Page lifecycle: prepare, release and commit *)

\* contains() for every page, before and again after a reclaim
Missing(q, w) == {k \in PagesOf[q][w] : cache[k] = "absent"}

\* Allocation of every direct group, the pin and the handles, all or nothing.
Allocate(q, w, missing) ==
  /\ hidden' = hidden \cup {<<q, w, k>> : k \in missing}
  /\ win' = [win EXCEPT ![q][w] = "reserved"]
  /\ rpc' = [rpc EXCEPT ![q].st = "served", ![q].reply = Reply("ok", FALSE, missing, "reserved")]

\* The reclaimer evicts cached pages, possibly the window's own.
Reclaim(evicted) == [k \in Keys |-> IF k \in evicted THEN "absent" ELSE cache[k]]

\* A manifest with a foreign layout, a duplicate or a wrong group, and an
\* allocation that fails part-way and is given back, raise in the core.
RejectReserve(q) ==
  /\ rpc' = [rpc EXCEPT ![q].st = "served", ![q].reply = Reply("reject", FALSE, {}, "none")]
  /\ UNCHANGED <<cache, hidden, win>>

\* Pages are classified, and again after a reclaim; without room the missing ones
\* are reported as such and nothing is allocated.
PreparePages(q, w) ==
  \/ /\ Cardinality(Missing(q, w)) <= Room
     /\ Allocate(q, w, Missing(q, w)) /\ UNCHANGED cache /\ Fine
  \/ /\ Cardinality(Missing(q, w)) > Room /\ Fine
     /\ \E evicted \in SUBSET Cached :
          LET missing == {k \in PagesOf[q][w] : Reclaim(evicted)[k] = "absent"}
          IN  /\ cache' = Reclaim(evicted)
              /\ IF Cardinality(missing) <= Room + Cardinality(evicted)
                 THEN Allocate(q, w, missing)
                 ELSE /\ win' = [win EXCEPT ![q][w] = "reserved"]
                      /\ rpc' = [rpc EXCEPT ![q].st = "served",
                                            ![q].reply = Reply("ok", TRUE, {}, "reserved")]
                      /\ UNCHANGED hidden
  \/ RejectReserve(q) /\ Fault

\* release_pages: every hidden page exactly once, armed windows excepted
Releasable(q) == {p \in HiddenOf(q) : win[q][p[2]] # "armed"}
ReleasePages(q) == hidden' = hidden \ Releasable(q)

\* Every required page was pushed successfully or found in the cache.
AllSatisfied(q) ==
  \A w \in Windows(q) : win[q][w] = "success" \/ (win[q][w] = "reserved" /\ HiddenIn(q, w) = {})

\* commit_external_*_prefix_if_absent: pages absent from the cache are admitted
\* with their references, pages another writer admitted first are dropped.
CommitPages(q) ==
  /\ cache' = [k \in Keys |->
       IF cache[k] = "absent" /\ \E p \in HiddenOf(q) : p[3] = k
       THEN IF \E p \in HiddenOf(q) \cap written : p[3] = k THEN "full" ELSE "partial"
       ELSE cache[k]]
  /\ hidden' = hidden \ HiddenOf(q)

\* Required pages that were in the cache at RESERVE and were evicted since.
Evicted(q) == {k \in Keys : cache[k] = "absent" /\ (\E w \in Windows(q) : k \in PagesOf[q][w])
                            /\ ~ \E p \in HiddenOf(q) : p[3] = k}

-----------------------------------------------------------------------------
(* The service: one request at a time *)

\* Every answer of an unsafe transaction says fatal_restart_required.
Answer(q, reply) ==
  rpc' = [rpc EXCEPT ![q].st = "served",
                     ![q].reply = IF tx[q] = "unsafe" THEN [reply EXCEPT !.code = "fatal"] ELSE reply]

\* NEGOTIATE and OPEN: accepted, or refused for layout, epoch or generation.
ServeOpen(q) ==
  /\ \/ /\ Answer(q, Reply("ok", FALSE, {}, "open"))
        /\ tx' = IF rpc[q].op = "open" /\ tx[q] = "none" THEN [tx EXCEPT ![q] = "open"] ELSE tx
        /\ Fine
     \/ Answer(q, Reply("reject", FALSE, {}, "none")) /\ UNCHANGED tx /\ Fault
  /\ UNCHANGED <<cacheVars, win>>

\* RESERVE_WINDOW without reserve_missing: classification only.
ServeProbe(q) ==
  LET w == rpc[q].w
  IN  /\ IF tx[q] = "open"
         THEN /\ Answer(q, Reply("ok", Missing(q, w) # {}, {}, "reserved"))
              /\ win' = [win EXCEPT ![q][w] = "reserved"]
         ELSE Answer(q, Reply("reject", FALSE, {}, "none")) /\ UNCHANGED win
      /\ UNCHANGED <<cacheVars, tx>> /\ Fine

ServeReserve(q) ==
  LET w == rpc[q].w
  IN  /\ IF tx[q] = "open" /\ win[q][w] = "none"
         THEN PreparePages(q, w)
         ELSE Answer(q, Reply("reject", FALSE, {}, "none")) /\ UNCHANGED <<cache, hidden, win>> /\ Fine
      /\ UNCHANGED <<written, tx>>

ServeArm(q) ==
  LET w == rpc[q].w
      ok == tx[q] = "open" /\ win[q][w] = "reserved"
  IN  /\ win' = IF ok THEN [win EXCEPT ![q][w] = "armed"] ELSE win
      /\ Answer(q, Reply(IF ok THEN "ok" ELSE "reject", FALSE, {}, "armed"))
      /\ UNCHANGED <<cacheVars, tx>> /\ Fine

\* REPORT_TRANSFER_COMPLETE: a failed window's pages are released.
ServeReport(q) ==
  LET w == rpc[q].w
      result == IF rpc[q].arg = "success" THEN "success" ELSE "failure"
  IN  /\ IF win[q][w] = "armed"
         THEN /\ win' = [win EXCEPT ![q][w] = result]
              /\ hidden' = IF result = "failure" THEN hidden \ HiddenIn(q, w) ELSE hidden
              /\ Answer(q, Reply("ok", FALSE, {}, result))
         ELSE Answer(q, Reply("reject", FALSE, {}, win[q][w])) /\ UNCHANGED <<win, hidden>>
      /\ UNCHANGED <<cache, written, tx>> /\ Fine

\* STATUS: of one window, or of the transaction when w = 0
ServeStatus(q) ==
  LET w == rpc[q].w
      seen == IF w # 0 THEN win[q][w] ELSE IF Armed(q) # {} THEN "armed" ELSE tx[q]
  IN  Answer(q, Reply("ok", FALSE, {}, seen)) /\ UNCHANGED <<cacheVars, win, tx>> /\ Fine

\* FINISH commits when everything required is there, otherwise releases.  The
\* admission is refused when a page found at RESERVE has been evicted, and its
\* rollback may fail, which leaves the page lifecycle unsafe.
ServeFinish(q) ==
  /\ \/ tx[q] # "open" /\ UNCHANGED <<cache, hidden, tx>> /\ Fine
     \/ /\ tx[q] = "open" /\ Armed(q) = {} /\ AllSatisfied(q) /\ Evicted(q) = {}
        /\ CommitPages(q) /\ tx' = [tx EXCEPT ![q] = "local"] /\ Fine
     \/ /\ tx[q] = "open" /\ Armed(q) = {} /\ (~AllSatisfied(q) \/ Evicted(q) # {})
        /\ ReleasePages(q) /\ tx' = [tx EXCEPT ![q] = "persistent"] /\ UNCHANGED cache /\ Fine
     \/ /\ tx[q] = "open" /\ (Armed(q) # {} \/ HiddenOf(q) # {})
        /\ tx' = [tx EXCEPT ![q] = "unsafe"] /\ UNCHANGED <<cache, hidden>> /\ Fault
  /\ Answer(q, Reply(IF tx'[q] = "unsafe" THEN "fatal" ELSE "ok", FALSE, {}, tx'[q]))
  /\ UNCHANGED <<written, win>>

\* ABORT keeps what a native push may still write.
ServeAbort(q) ==
  /\ ReleasePages(q)
  /\ tx' = IF tx[q] \in {"none", "open"} THEN [tx EXCEPT ![q] = "cancelled"] ELSE tx
  /\ Answer(q, Reply("ok", FALSE, {}, "cancelled"))
  /\ UNCHANGED <<cache, written, win>> /\ Fine

Handle(q) ==
  \/ rpc[q].op \in {"negotiate", "open"} /\ ServeOpen(q)
  \/ rpc[q].op = "probe" /\ ServeProbe(q)
  \/ rpc[q].op = "reserve" /\ ServeReserve(q)
  \/ rpc[q].op = "arm" /\ ServeArm(q)
  \/ rpc[q].op = "report" /\ ServeReport(q)
  \/ rpc[q].op = "status" /\ ServeStatus(q)
  \/ rpc[q].op = "finish" /\ ServeFinish(q)
  \/ rpc[q].op = "abort" /\ ServeAbort(q)

\* server.serve_once
Serve(q) ==
  /\ host = "up" /\ rpc[q].st = "sent"
  /\ Handle(q)
  /\ UNCHANGED <<writing, host, late>>

\* A request the producer gave up on, served afterwards: it can still reserve
\* pages or arm a window; the core drops operations of an ended transaction.
ServeLate(q, w) ==
  /\ host = "up"
  /\ \/ /\ <<q, "reserve", w>> \in late
        /\ IF tx[q] = "open" /\ win[q][w] = "none" /\ Cardinality(Missing(q, w)) <= Room
           THEN /\ hidden' = hidden \cup {<<q, w, k>> : k \in Missing(q, w)}
                /\ win' = [win EXCEPT ![q][w] = "reserved"]
           ELSE UNCHANGED <<hidden, win>>
        /\ late' = late \ {<<q, "reserve", w>>}
     \/ /\ <<q, "arm", w>> \in late
        /\ win' = IF tx[q] = "open" /\ win[q][w] = "reserved"
                  THEN [win EXCEPT ![q][w] = "armed"] ELSE win
        /\ late' = late \ {<<q, "arm", w>>}
        /\ UNCHANGED hidden
  /\ UNCHANGED <<cache, written, writing, tx, host, rpc, faults>>

\* A timeout, after the one retry of _execute, before or after the request was
\* served.  When the host is down every request ends like this.
Lose(q) ==
  /\ rpc[q].st \in {"sent", "served"}
  /\ Fault \/ (host # "up" /\ Fine)
  /\ late' = IF rpc[q].st = "sent" /\ rpc[q].op \in {"reserve", "arm"}
             THEN late \cup {<<q, rpc[q].op, rpc[q].w>>} ELSE late
  /\ rpc' = [rpc EXCEPT ![q].st = "lost"]
  /\ UNCHANGED <<cacheVars, writing, win, tx, host>>

\* run_maintenance: a transaction past its TTL gives its unarmed pages back; an
\* armed window past the hard timeout is fatal and stops the host.
Maintain(q) ==
  /\ host = "up"
  /\ \/ /\ tx[q] = "open" /\ Armed(q) = {}
        /\ ReleasePages(q)
        /\ tx' = [tx EXCEPT ![q] = "cancelled"]
        /\ UNCHANGED host
     \/ /\ Armed(q) # {} \/ tx[q] = "unsafe"
        /\ tx' = [tx EXCEPT ![q] = "unsafe"]
        /\ host' = "stopping"
        /\ UNCHANGED hidden
  /\ UNCHANGED <<cache, written, writing, win, rpc, late>>

\* close() or a failing loop stops the thread ...
StopHost ==
  /\ host = "up" /\ host' = "stopping" /\ Fault
  /\ UNCHANGED <<cacheVars, writing, win, tx, rpc, late>>

\* service.shutdown releases what no native push may touch.
ReleaseAtShutdown == hidden' = {p \in hidden : win[p[1]][p[2]] = "armed" \/ tx[p[1]] = "unsafe"}

\* ... and its finally clause shuts the service down, once; transfers it had to
\* leave armed are reported as fatal.
ShutdownService ==
  /\ host = "stopping" /\ host' = "closed"
  /\ ReleaseAtShutdown
  /\ tx' = [q \in Transfers |-> IF Armed(q) # {} THEN "unsafe"
                                ELSE IF tx[q] = "open" THEN "cancelled" ELSE tx[q]]
  /\ UNCHANGED <<cache, written, writing, win, netVars>>

\* The decoder's cache evicts a page to make room for something else.
Evict(k) ==
  /\ cache[k] # "absent" /\ cache' = [cache EXCEPT ![k] = "absent"] /\ Fault
  /\ UNCHANGED <<hidden, written, writing, win, tx, host, rpc, late>>

DecoderInit ==
  /\ \E stored \in SUBSET Stored :
       cache = [k \in Keys |-> IF k \in stored THEN "full" ELSE "absent"]
  /\ hidden = {} /\ written = {} /\ writing = {}
  /\ win = [q \in Transfers |-> [w \in Windows(q) |-> "none"]]
  /\ tx = [q \in Transfers |-> "none"]
  /\ host = "up"
  /\ rpc = [q \in Transfers |-> Idle]
  /\ late = {}

=============================================================================
