------------------------------ MODULE DmaPlans ------------------------------
(***************************************************************************)
(* How the connector turns the pages of a request into DMA copies.  A plan *)
(* cuts the token ranges of the pages into segments that are contiguous in *)
(* HBM; binding attaches the pages' addresses.  Both are kept per request  *)
(* and bank and extended as the prompt grows: the unchanged prefix of the  *)
(* plan, of the source addresses and of the bound rows is reused in place. *)
(* Chunks are numbered from 0, as in the code; sequences from 1.           *)
(***************************************************************************)
EXTENDS Integers, FiniteSets, SequencesExt

CONSTANTS BlockSize,    \* prefill_dma_block_size
          ChunkTokens,  \* DmaCycle.chunk_tokens
          BundleTokens, \* DmaCycle.bundle_tokens
          Offsets,      \* internal offsets of a bundle
          Capacity,     \* slots of an NPU bank
          Requests,     \* [starts, ends, owners]: what a step asks to load
          MapPairs,     \* <<m0, m1>>: the block ids of the two banks
          MaxSteps      \* bound: steps

ASSUME DmaAssumption ==
  /\ {BlockSize, ChunkTokens, BundleTokens} \subseteq Nat \ {0}
  /\ Capacity \in Nat /\ MaxSteps \in Nat /\ Offsets \subseteq 0 .. BundleTokens - 1

VARIABLES plans,    \* _prefill_dma_plan_cache, one state per bank
          tables,   \* the CPU tables those states share
          sources,  \* _prefill_dma_source_cache, for the layer loaded into each bank
          bound,    \* _prefill_dma_bound_loads
          sent,     \* the copies last submitted for a bank, and what was asked
          steps,    \* steps so far, of MaxSteps
          failed    \* the end a failed step asked for, or 0

planVars == <<plans, tables, sources, bound, sent, steps, failed>>

PlanBanks == {0, 1}
Ascending(S) == [i \in 1 .. Cardinality(S) |-> CHOOSE n \in S : Cardinality({m \in S : m < n}) = i - 1]
Upper(S) == CHOOSE n \in S : \A m \in S : m <= n
\* torch.searchsorted: how many values of an ascending sequence are below n,
\* or at most n.
Below(s, n) == Cardinality({i \in DOMAIN s : s[i] < n})
UpTo(s, n) == Cardinality({i \in DOMAIN s : s[i] <= n})

-----------------------------------------------------------------------------
(* Planning. *)
Period == CHOOSE n \in 1 .. BundleTokens * ChunkTokens :
            /\ n % BundleTokens = 0 /\ n % ChunkTokens = 0
            /\ \A m \in 1 .. n - 1 : m % BundleTokens # 0 \/ m % ChunkTokens # 0
Boundaries == {t \in 0 .. Period - 1 : \/ t % ChunkTokens = 0
                                       \/ \E o \in Offsets \cup {0} : t % BundleTokens = o}
Periodic(from, to) == {t \in (from \div Period) * Period .. to + Period :
                         t % Period \in Boundaries /\ t < ((to + Period - 1) \div Period) * Period}

\* The segments between consecutive edges that lie inside one range.
Segments(edges, starts, ends, slot(_)) ==
  LET e == Ascending(edges)
      all == [i \in 1 .. Len(e) - 1 |-> [from |-> e[i], to |-> e[i + 1], chunk |-> UpTo(ends, e[i])]]
      inside(s) == s.chunk < Len(starts) /\ s.from >= starts[s.chunk + 1] /\ s.to <= ends[s.chunk + 1]
      kept == SelectSeq(all, inside)
  IN [i \in DOMAIN kept |-> [chunk |-> kept[i].chunk, slot |-> slot(kept[i].from),
                             tok |-> kept[i].from - starts[kept[i].chunk + 1],
                             n |-> kept[i].to - kept[i].from]]

\* DmaCycle.plan_block_id_ranges: blocks[1] is block number `first'.
Gaps(blocks, first) == {(first + i - 1) * BlockSize : i \in {i \in 2 .. Len(blocks) : blocks[i] # blocks[i - 1] + 1}}
PlanBlockIdRanges(blocks, starts, ends, first) ==
  IF blocks = <<>> \/ starts = <<>> THEN <<>>
  ELSE LET edges == {t \in Periodic(starts[1], ends[Len(ends)]) \cup Range(starts) \cup Range(ends)
                             \cup Gaps(blocks, first) : starts[1] <= t /\ t <= ends[Len(ends)]}
       IN Segments(edges, starts, ends,
                   LAMBDA t : blocks[t \div BlockSize - first + 1] * BlockSize + (t % BlockSize))

\* DmaCycle.plan_ranges and plan_bundle_copies work from slots, not blocks.
PlanRanges(slots, starts, ends) ==
  Segments({t \in Periodic(starts[1], ends[Len(ends)]) \cup Range(starts) \cup Range(ends) :
              starts[1] <= t /\ t <= ends[Len(ends)]}, starts, ends, LAMBDA t : slots[t + 1])
PlanBundleCopies(slots, sizes) ==
  LET ends == [i \in DOMAIN sizes |-> FoldLeft(LAMBDA a, b : a + b, 0, SubSeq(sizes, 1, i))]
      starts == [i \in DOMAIN sizes |-> ends[i] - sizes[i]]
      jumps == {i \in 1 .. Len(slots) - 1 : slots[i + 1] # slots[i] + 1 \/ slots[i + 1] % BundleTokens = 0}
  IN Segments({0} \cup Range(ends) \cup jumps, starts, ends, LAMBDA t : slots[t + 1])

\* _reusable_range_chunks: the chunks whose ranges are those of before; the
\* last one may only have grown, and is then planned anew.
ReusableChunks(starts, ends, oldStarts, oldEnds) ==
  LET n == Len(oldStarts)
      prefix == /\ n > 0 /\ n <= Len(starts)
                /\ SubSeq(starts, 1, n) = oldStarts
                /\ SubSeq(ends, 1, n - 1) = SubSeq(oldEnds, 1, n - 1)
  IN IF ~prefix THEN 0
     ELSE IF ends[n] = oldEnds[n] THEN n
     ELSE IF ends[n] > oldEnds[n] THEN n - 1 ELSE 0

\* _append_cpu_columns: the table grows by doubling into a new one, else the
\* columns after `keep' are overwritten in the table others may share.
Doubled(cap, need) == CHOOSE c \in {cap * k : k \in {1, 2, 4, 8, 16, 32}} :
                        c >= need /\ \A d \in {cap * k : k \in {1, 2, 4, 8, 16, 32}} : d >= need => c <= d
Unused == [chunk |-> -1, slot |-> -1, tok |-> -1, n |-> 0]
AppendColumns(table, keep, suffix) ==
  LET need == keep + Len(suffix)
      grows == table = <<>> \/ need > Len(table)
      cap == IF ~grows THEN Len(table) ELSE IF table = <<>> THEN Doubled(4, need) ELSE Doubled(Len(table), need)
  IN [table |-> [i \in 1 .. cap |-> IF i <= keep THEN table[i]
                                    ELSE IF i <= need THEN suffix[i - keep]
                                    ELSE IF grows THEN Unused ELSE table[i]],
      inplace |-> ~grows]

NoPlan == [is |-> FALSE, blocks |-> <<>>, starts |-> <<>>, ends |-> <<>>, count |-> 0, tail |-> 0,
           changed |-> FALSE, top |-> 0]
\* Mutant: a map of the same length is taken for the same map.
SameMapLength(prev, blocks) == prev.is /\ Len(blocks) >= Len(prev.blocks)
\* plan_block_id_ranges_incremental: the new state, the table it uses, and
\* whether that is the table of the state before, written in place.
SameMap(prev, blocks) == /\ prev.is /\ Len(blocks) >= Len(prev.blocks)
                         /\ SubSeq(blocks, 1, Len(prev.blocks)) = prev.blocks
PlanIncremental(prev, table, ids, starts, ends) ==
  LET blocks == SubSeq(ids, 1, (ends[Len(ends)] + BlockSize - 1) \div BlockSize)
      same == SameMap(prev, blocks)
      keep == IF same THEN ReusableChunks(starts, ends, prev.starts, prev.ends) ELSE 0
      segs == IF keep = 0 THEN 0 ELSE IF keep = Len(prev.starts) THEN prev.count ELSE prev.tail
      first == starts[keep + 1] \div BlockSize
      suffix == PlanBlockIdRanges(SubSeq(blocks, first + 1, Len(blocks)), SubSeq(starts, keep + 1, Len(starts)),
                                  SubSeq(ends, keep + 1, Len(ends)), first)
      columns == [i \in DOMAIN suffix |-> [suffix[i] EXCEPT !.chunk = @ + keep]]
      top == Upper({0, IF keep > 0 THEN prev.top ELSE 0} \cup {suffix[i].slot + suffix[i].n : i \in DOMAIN suffix})
      grown == AppendColumns(IF keep > 0 THEN table ELSE <<>>, segs, columns)
  IN IF same /\ keep = Len(starts)
     THEN [ok |-> TRUE, inplace |-> TRUE, table |-> table,
           st |-> [prev EXCEPT !.blocks = blocks, !.starts = starts, !.ends = ends, !.changed = FALSE]]
     ELSE [ok |-> top <= Capacity, inplace |-> grown.inplace, table |-> grown.table,
           st |-> [is |-> TRUE, blocks |-> blocks, starts |-> starts, ends |-> ends,
                   count |-> segs + Len(suffix),
                   tail |-> segs + Below([i \in DOMAIN suffix |-> suffix[i].chunk], Len(starts) - keep - 1),
                   changed |-> prev.is /\ ~same, top |-> top]]
PlanOf(st, table) == SubSeq(table, 1, st.count)

-----------------------------------------------------------------------------
(* Binding. *)
NoSources == [owners |-> <<>>, starts |-> <<>>, ends |-> <<>>, addr |-> <<>>]
\* prepare_source_addresses: addresses of the chunks whose page is the same.
SourceAddresses(prev, q) ==
  LET n == ReusableChunks(q.starts, q.ends, prev.starts, prev.ends)
      keep == IF n > 0 /\ SubSeq(q.owners, 1, n) # SubSeq(prev.owners, 1, n)
              THEN IF SubSeq(q.owners, 1, n - 1) = SubSeq(prev.owners, 1, n - 1) THEN n - 1 ELSE 0
              ELSE n
  IN [owners |-> q.owners, starts |-> q.starts, ends |-> q.ends,
      addr |-> [i \in DOMAIN q.owners |-> IF i <= keep THEN prev.addr[i] ELSE q.owners[i]]]

\* bind_copy_addresses, one plane: segment by segment, the page's address
\* advanced by the tokens before the segment.
BindRows(segs, addr) ==
  [i \in DOMAIN segs |-> [slot |-> segs[i].slot, page |-> addr[segs[i].chunk + 1], tok |-> segs[i].tok,
                          n |-> segs[i].n]]

NoBound == [is |-> FALSE, owners |-> <<>>, starts |-> <<>>, ends |-> <<>>, rows |-> <<>>, tail |-> 0]
\* bind_incremental_copy_addresses: rows of an unchanged prefix are kept.
StablePrefix(prev, q) ==
  LET n == Len(prev.owners)
  IN IF ~prev.is \/ n = 0 \/ n > Len(q.owners) THEN 0
     ELSE IF \/ SubSeq(q.owners, 1, n - 1) # SubSeq(prev.owners, 1, n - 1)
             \/ SubSeq(q.starts, 1, n - 1) # SubSeq(prev.starts, 1, n - 1)
             \/ SubSeq(q.ends, 1, n - 1) # SubSeq(prev.ends, 1, n - 1) THEN 0
     ELSE IF q.owners[n] = prev.owners[n] /\ q.starts[n] = prev.starts[n] /\ q.ends[n] = prev.ends[n] THEN n
     ELSE n - 1
BindIncremental(prev, segs, src, q) ==
  LET begin == StablePrefix(prev, q)
      chunks == [i \in DOMAIN segs |-> segs[i].chunk]
      first == Below(chunks, begin)
      old == IF begin = 0 THEN 0 ELSE IF begin = Len(prev.owners) THEN Len(prev.rows) ELSE prev.tail
  IN [is |-> TRUE, owners |-> q.owners, starts |-> q.starts, ends |-> q.ends,
      rows |-> SubSeq(prev.rows, 1, old) \o BindRows(SubSeq(segs, first + 1, Len(segs)), src.addr),
      tail |-> Below(chunks, Len(q.owners) - 1)]

-----------------------------------------------------------------------------
(* A step of the request: plan both banks, then bind and submit each.      *)
PlanInit ==
  /\ plans = [b \in PlanBanks |-> NoPlan] /\ tables = [b \in PlanBanks |-> <<>>]
  /\ sources = [b \in PlanBanks |-> NoSources] /\ bound = [b \in PlanBanks |-> NoBound]
  /\ sent = [b \in PlanBanks |-> {}] /\ steps \in {0, MaxSteps} /\ failed = 0

\* A step that failed is repeated, with the same range or a longer one.
Allowed(q) == q.ends[Len(q.ends)] >= failed

Plan(q, maps) == [b \in PlanBanks |-> PlanIncremental(plans[b], tables[b], maps[b + 1], q.starts, q.ends)]
\* _prefill_dma_plans commits the states of both banks together; a table
\* extended in place has been written by then.
PlanFails(q, p) ==
  /\ p[0].ok /\ ~p[1].ok
  /\ tables' = [tables EXCEPT ![0] = IF p[0].inplace THEN p[0].table ELSE @]
  /\ failed' = q.ends[Len(q.ends)] /\ UNCHANGED <<plans, sources, bound, sent>>

Unmapped(p) == [b \in PlanBanks |-> IF p[b].st.changed THEN NoBound ELSE bound[b]]
\* Both plans are committed; the step may still fail after n banks' copies.
Submits(q, maps, p, n) ==
  LET done == {b \in PlanBanks : b < n}
      addresses == [b \in PlanBanks |-> SourceAddresses(sources[b], q)]
      binding == [b \in PlanBanks |-> BindIncremental(Unmapped(p)[b], PlanOf(p[b].st, p[b].table), addresses[b], q)]
  IN /\ \A b \in PlanBanks : p[b].ok
     /\ plans' = [b \in PlanBanks |-> p[b].st] /\ tables' = [b \in PlanBanks |-> p[b].table]
     /\ sources' = [b \in PlanBanks |-> IF b \in done THEN addresses[b] ELSE sources[b]]
     /\ bound' = [b \in PlanBanks |-> IF b \in done THEN binding[b] ELSE Unmapped(p)[b]]
     /\ sent' = [b \in PlanBanks |-> IF b \in done THEN {[q |-> q, map |-> maps[b + 1], rows |-> binding[b].rows]}
                                   ELSE {}]
     /\ failed' = IF done = PlanBanks THEN 0 ELSE q.ends[Len(q.ends)]
\* A release or a reset of the transfer state forgets everything.
Forget ==
  /\ steps < MaxSteps /\ steps' = steps + 1 /\ plans # [b \in PlanBanks |-> NoPlan]
  /\ plans' = [b \in PlanBanks |-> NoPlan] /\ tables' = [b \in PlanBanks |-> <<>>]
  /\ sources' = [b \in PlanBanks |-> NoSources] /\ bound' = [b \in PlanBanks |-> NoBound]
  /\ sent' = [b \in PlanBanks |-> {}] /\ failed' = 0

LoadRanges(q, maps) ==
  /\ steps < MaxSteps /\ steps' = steps + 1 /\ Allowed(q)
  /\ LET p == Plan(q, maps)
     IN PlanFails(q, p) \/ \E n \in {1, 2} : Submits(q, maps, p, n)
PlanNext == Forget \/ \E q \in Requests, maps \in MapPairs : LoadRanges(q, maps)

-----------------------------------------------------------------------------
(* Properties. *)
Copies(rows) == UNION {{<<rows[i].slot + k, rows[i].page, rows[i].tok + k>> : k \in 0 .. rows[i].n - 1} : i \in DOMAIN rows}
SlotOf(map, t) == map[t \div BlockSize + 1] * BlockSize + (t % BlockSize)
Asked(s) == UNION {{<<SlotOf(s.map, t), s.q.owners[c], t - s.q.starts[c]>> : t \in s.q.starts[c] .. s.q.ends[c] - 1}
                   : c \in DOMAIN s.q.starts}

\* The copies submitted for a step, most of them planned and bound for an
\* earlier one, move each token of the asked pages from its place in its page
\* to its slot in the bank, and no other token.
RowsExact == \A b \in PlanBanks : \A s \in sent[b] : Copies(s.rows) = Asked(s)

\* The planners that start from slots agree with the one that starts from
\* block ids, where the ranges leave no hole and the blocks are consecutive.
TokensOf(segs) == Copies(BindRows(segs, [i \in 1 .. 8 |-> i]))
PlannersAgree ==
  \A b \in PlanBanks : \A s \in sent[b] :
    LET q == s.q
        to == q.ends[Len(q.ends)]
        slots == [t \in 1 .. to |-> SlotOf(s.map, t - 1)]
        whole == q.starts[1] = 0 /\ \A c \in 1 .. Len(q.starts) - 1 : q.ends[c] = q.starts[c + 1]
        straight == Gaps(SubSeq(s.map, 1, (to + BlockSize - 1) \div BlockSize), 0) = {}
        direct == TokensOf(PlanBlockIdRanges(s.map, q.starts, q.ends, 0))
    IN whole => /\ TokensOf(PlanBundleCopies(slots, [c \in DOMAIN q.starts |-> q.ends[c] - q.starts[c]])) = direct
                /\ straight => TokensOf(PlanRanges(slots, q.starts, q.ends)) = direct

\* Every way to plan a step's copies asks for the same tokens, and what is submitted
\* moves them.
PlansExact == RowsExact /\ PlannersAgree
=============================================================================
