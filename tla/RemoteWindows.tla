--------------------------- MODULE RemoteWindows ---------------------------
(***************************************************************************)
(* What a prefill step of the producer puts into the windows it pushes to  *)
(* the decoder: the remote-fill half of store_direct_prefill and           *)
(* _submit_direct_tail.  The modules RemoteFill* take over where a window  *)
(* is handed to the coordinator.  A page is <<group, index>>, a window a   *)
(* set of pages.                                                           *)
(***************************************************************************)
EXTENDS Naturals, Sequences

CONSTANT Groups         \* the KV groups, numbered from 0
ASSUME GroupsAssumption == Groups \subseteq Nat /\ 0 \in Groups

(* ProducerRequestState, as far as the planning of windows reads it: `source' is
   whether a hole in the probed prefix could be filled from this side, `held' are
   the last windows of a request, kept back to go out together, `tail' the pages
   of the tail that are only probed, `terminal' what FINISH made of the request. *)
NoFill == [on |-> FALSE, off |-> FALSE, deferring |-> FALSE, deferred |-> {}, sent |-> <<>>,
           probe |-> 0, source |-> FALSE, held |-> <<>>, tail |-> {}, terminal |-> "none"]

PagesUpTo(n) == Groups \X (1 .. n)
Enabled(w) == w.on /\ ~w.off
Disable(w) == [w EXCEPT !.off = TRUE]

(* _schedule_remote_fill_batch: the coordinator may refuse the window. *)
Scheduled(w, window, taken) ==
  IF taken THEN [w EXCEPT !.sent = Append(@, window)] ELSE Disable(w)

(* Whether the fence the forward pass handed over covers the tokens so far. *)
Fenced(ready, final, mode) == ready /\ (final \/ mode = "per_chunk")

(* The producer fence is missing: the sources wait, or are given up. *)
WithoutFence(w, final) ==
  IF final THEN [Disable(w) EXCEPT !.deferred = {}, !.deferring = FALSE]
  ELSE [w EXCEPT !.deferring = TRUE]

(* merge_deferred_remote_fill_batches: the batches of several steps as one. *)
Merged(batches) == UNION batches

(* The fence has come: what was deferred goes out as one merged window; and a
   slip: it is forgotten. *)
ForgetDeferred(w, taken) == [w EXCEPT !.deferred = {}, !.deferring = FALSE]
ReleaseDeferred(w, taken) ==
  LET sent == IF w.deferred = {} THEN w ELSE Scheduled(w, Merged(w.deferred), taken)
  IN IF w.deferring THEN [sent EXCEPT !.deferred = {}, !.deferring = FALSE] ELSE w

(* The pages the request did not compute are only probed on the decoder. *)
Probe(w, prefix, planned) == IF planned THEN [w EXCEPT !.probe = prefix] ELSE Disable(w)

(* The slots of the prefix came with the call, and are kept as its source. *)
Sourced(w, prefix, mapped) == IF Enabled(w) /\ prefix > 0 /\ mapped THEN [w EXCEPT !.source = TRUE] ELSE w

(* Nothing was offered yet, and the last page is outside of what the step can
   address (no_addressable_source_page). *)
Pointless(w, addressable) ==
  ~addressable /\ ~w.source /\ w.sent = <<>> /\ w.probe = 0 /\ w.deferred = {}

(* The opening of store_direct_prefill: first what was deferred, then the probe
   of the prefix, each only behind a fence. *)
Opening(w, fenced, final, addressable, taken) ==
  CASE ~Enabled(w) -> w
    [] Enabled(w) /\ Pointless(w, addressable) -> Disable(w)
    [] Enabled(w) /\ ~Pointless(w, addressable) /\ fenced -> ReleaseDeferred(w, taken)
    [] OTHER -> WithoutFence(w, final)
Probes(w, fenced, prefix) == Enabled(w) /\ fenced /\ w.probe < prefix
OpenStep(w, fenced, final, addressable, prefix, planned, taken) ==
  LET opened == Opening(w, fenced, final, addressable, taken)
  IN IF Probes(opened, fenced, prefix) THEN Probe(opened, prefix, planned) ELSE opened

(* Only the presence of every group is tested: an uneven window passes. *)
AllGroups(window) == {p[1] : p \in window} = Groups

(* The windows of one step, after its persistent batch went out.  The last full
   window of a request may be held for the tail, when one job is left in the queue. *)
CollectWindow(w, window, fenced, hold, taken) ==
  CASE ~Enabled(w) \/ window = {} -> w
    [] Enabled(w) /\ window # {} /\ ~AllGroups(window) -> Disable(w)
    [] Enabled(w) /\ window # {} /\ AllGroups(window) /\ ~fenced ->
         [w EXCEPT !.deferred = @ \cup {window}]
    [] OTHER -> IF hold THEN [w EXCEPT !.held = Append(@, window)] ELSE Scheduled(w, window, taken)

(* _submit_direct_tail: one partial page of every group, or nothing; it joins a
   window that is held. *)
CollectTail(w, tail, fenced, taken) ==
  IF Enabled(w) /\ ~fenced THEN Disable(w) ELSE CollectWindow(w, tail, TRUE, w.held # <<>>, taken)

(* A tail outside of what the step can address is probed when all its pages are
   stored; a missing one ends the fill (unaddressable_partial_source). *)
ProbeTail(w, tail, whole, taken) ==
  CASE whole /\ taken -> [w EXCEPT !.tail = tail]
    [] whole /\ ~taken -> Disable([w EXCEPT !.tail = tail])
    [] OTHER -> Disable(w)

(* What is held goes out as one window, or as several when that would be too
   large; `n' of them are admitted. *)
ReleaseHeld(w, windows, n) ==
  LET w0 == [w EXCEPT !.held = <<>>]
  IN IF ~Enabled(w) \/ windows = <<>> THEN w0
     ELSE [w0 EXCEPT !.sent = @ \o SubSeq(windows, 1, n), !.off = n < Len(windows)]
HeldAsOne(w) == IF w.held = <<>> THEN <<>> ELSE <<Merged({w.held[i] : i \in 1 .. Len(w.held)})>>

SentPages(w) == UNION {w.sent[i] : i \in 1 .. Len(w.sent)}
Probed(w) == PagesUpTo(w.probe) \cup w.tail
=============================================================================
