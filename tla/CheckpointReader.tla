-------------------------- MODULE CheckpointReader --------------------------
(***************************************************************************)
(* A lookup (available) or a restore (acquire) reading a checkpoint from   *)
(* the store of CheckpointWriteback while it is spilled, forgotten,        *)
(* evicted or frozen: CheckpointWritebackStore._acquire, page by page.     *)
(***************************************************************************)
EXTENDS CheckpointWriteback

VARIABLE rd  \* the reading thread

readVars == <<vars, rd>>

Idle == [pc |-> "idle", ret |-> None, rec |-> None, probe |-> FALSE, thawed |-> TRUE,
         at |-> 0, got |-> {}, full |-> FALSE, excused |-> FALSE]

Slots == Groups \X Windows
SlotAt(n) == <<n \div W, (n % W) + 1>>
PageAt(slot) == Source[rd.ret][slot[1]][slot[2]]

\* release: one ref_count_down for every slot, whichever pages they name.
Drop(S) == [p \in Pages |-> refs[p] - Cardinality({slot \in S : PageAt(slot) = p})]

\* The windows that both groups cover from the first on.
Paired(S) == {slot \in S : \A g \in Groups, k \in 1..slot[2] : <<g, k>> \in S}

storeVars == <<cache, jobs, jobHeld, held, offerVars, ledgerVars, execVars, monVars, flagVars>>

\* get_page: a retained owner, also one without a cache alias, or the cache.
Found(p) == p \in cache \/ (rd.ret \in records /\ p \in owned[<<"rec", rd.ret>>])

Lookup(r, probe) ==
  /\ rd.pc = "idle" /\ main.pc # "down" /\ r \in manifests
  /\ rd' = [Idle EXCEPT !.pc = "snapshot", !.ret = r, !.probe = probe]
  /\ UNCHANGED vars

\* Lines 385-399: the record of this very publication, and where to read.
Snapshot ==
  /\ rd.pc = "snapshot"
  /\ rd' = [rd EXCEPT !.rec = IF rd.ret \in records THEN rd.ret ELSE None,
                      !.thawed = ~frozen,
                      !.pc = IF ~frozen /\ rd.ret \in records \cap remote
                             THEN "gather" ELSE "local"]
  /\ UNCHANGED vars

\* LocalCheckpointStore.acquire: a group ends at its first missing page.
ReadLocal ==
  LET slot == SlotAt(rd.at)
      take == Found(PageAt(slot)) /\ (slot[2] = 1 \/ <<slot[1], slot[2] - 1>> \in rd.got)
  IN  /\ rd.pc = "local" /\ rd.at < 2 * W
      /\ rd' = [rd EXCEPT !.at = @ + 1, !.got = IF take THEN @ \cup {slot} ELSE @]
      /\ refs' = IF take THEN Up({PageAt(slot)}) ELSE refs
      /\ UNCHANGED storeVars

\* Mutant: pages beyond the paired prefix are dropped without a release.
TrimLeak(kept) == UNCHANGED refs

\* Lines 93-95 of local_checkpoint.py, 483-485 here.
Trim(kept) == refs' = Drop(rd.got \ kept)

\* The paired prefix is kept.  A frozen cache or full coverage ends the read.
ReadLocalEnd ==
  LET kept == Paired(rd.got)
  IN  /\ rd.pc = "local" /\ rd.at = 2 * W
      /\ Trim(kept)
      /\ rd' = [rd EXCEPT !.got = kept, !.at = 0, !.full = kept = Slots,
                          !.pc = IF kept = Slots \/ ~rd.thawed THEN "done" ELSE "recheck"]
      /\ UNCHANGED storeVars

\* Mutant: the first snapshot is trusted.
NeverMoved == FALSE

MovedRemote == rd.rec # None /\ rd.rec \in records \cap remote

\* Lines 403-414: a spill confirmed meanwhile has moved the data.
Recheck ==
  /\ rd.pc = "recheck"
  /\ IF MovedRemote
     THEN /\ rd' = [rd EXCEPT !.pc = "gather", !.got = {}]
          /\ refs' = Drop(rd.got)
     ELSE /\ rd' = [rd EXCEPT !.pc = "done"]
          /\ UNCHANGED refs
  /\ UNCHANGED storeVars

\* Lines 419-444: every window is decided on its own.
Gather ==
  LET slot == SlotAt(rd.at)
      take == Found(PageAt(slot))
  IN  /\ rd.pc = "gather" /\ rd.at < 2 * W
      /\ rd' = [rd EXCEPT !.at = @ + 1, !.got = IF take THEN @ \cup {slot} ELSE @]
      /\ refs' = IF take THEN Up({PageAt(slot)}) ELSE refs
      /\ UNCHANGED storeVars

\* Lines 445-486: Mooncake is asked for the missing windows and may have
\* evicted any of them; a restore also loads them, which memory may refuse.
Fetch ==
  LET missing == Slots \ rd.got
  IN  /\ rd.pc = "gather" /\ rd.at = 2 * W
      /\ \E exists \in SUBSET {slot \in missing : PageAt(slot) \in stored} :
         \E loaded \in SUBSET exists :
           LET kept == Paired(rd.got \cup loaded)
           IN  /\ rd.probe => loaded = exists
               /\ Trim(kept)
               /\ rd' = [rd EXCEPT !.pc = "done", !.full = kept = Slots, !.got = @ \cap kept,
                                   !.excused = loaded # {slot \in missing : PageAt(slot) \in stored}]
      /\ UNCHANGED storeVars

Release ==
  /\ rd.pc = "done"
  /\ refs' = Drop(rd.got)
  /\ rd' = Idle
  /\ UNCHANGED storeVars

ReadStep == \/ Snapshot \/ ReadLocal \/ ReadLocalEnd \/ Recheck \/ Gather \/ Fetch \/ Release

ReadInit == Init /\ rd = Idle

ReadNext == \/ \E r \in Rets, probe \in BOOLEAN : Lookup(r, probe)
            \/ ReadStep
            \/ Next /\ UNCHANGED rd

ReadSpec == ReadInit /\ [][ReadNext]_readVars

-----------------------------------------------------------------------------
(* Properties *)

\* A read that found the record of its publication only comes back short when
\* the checkpoint was cancelled, the cache was frozen, or Mooncake or the heap
\* refused a window: releasing the local pages at the confirmation of a spill
\* is never mistaken for a miss.
NoFalseMiss ==
  rd.pc = "done" /\ ~rd.full /\ rd.rec # None =>
    rd.rec \in cancelled \/ ~rd.thawed \/ rd.excused

\* Reference counts stay exact with a reader that takes, trims, drops and
\* takes again; in particular nothing it holds can be evicted.
ReaderRefsExact ==
  \A p \in Pages :
    refs[p] = Holders(p) + Cardinality({slot \in rd.got : PageAt(slot) = p})

=============================================================================
