----------------------------- MODULE LiveSource -----------------------------
(***************************************************************************)
(* The descriptor of a request's live HBM pages, which lets the decoder    *)
(* read them in place: the builder that every prefill step extends (begin, *)
(* capture and finalize) as a record.  Addresses, owners and byte counts   *)
(* are left out; a layout is the end it covers and the form it was         *)
(* recorded in.                                                            *)
(***************************************************************************)
EXTENDS Naturals, FiniteSets

NoBuilder == [exists |-> FALSE, groups |-> {}, ends |-> [g \in {0, 1} |-> 0],
              form |-> [g \in {0, 1} |-> "none"], invalid |-> FALSE, planned |-> 0]

(* begin_live_source_descriptor: setdefault, an open builder is kept. *)
BeginDescriptor(b, groups) ==
  IF b.exists THEN b ELSE [NoBuilder EXCEPT !.exists = TRUE, !.groups = groups]

(* _record_live_source_layout: group 1 as token runs, from where it stopped. *)
RecordRuns(b, start, end) ==
  CASE 1 \notin b.groups -> b
    [] 1 \in b.groups /\ (\/ \E g \in {0, 1} : b.form[g] = "segments"
                          \/ start # b.ends[1] \/ end <= start)
         -> [b EXCEPT !.invalid = TRUE]
    [] OTHER -> [b EXCEPT !.ends[1] = end, !.form[1] = "runs"]

(* _record_live_latent_source_layout: group 0 as pages of token runs. *)
RecordLatent(b, start, end) ==
  CASE 0 \notin b.groups -> b
    [] 0 \in b.groups /\ (start # b.ends[0] \/ end <= start) -> [b EXCEPT !.invalid = TRUE]
    [] OTHER -> [b EXCEPT !.ends[0] = end, !.form[0] = "runs"]

(* _record_live_source_pages: the segments of whole pages.  Pages already
   covered are skipped; the others must go on where the coverage ends. *)
RecordSegments(b, g, start, end) ==
  CASE g \notin b.groups \/ b.form[g] = "runs" \/ end <= b.ends[g] -> b
    [] /\ g \in b.groups /\ b.form[g] # "runs" /\ end > b.ends[g]
       /\ start > b.ends[g] -> [b EXCEPT !.invalid = TRUE]
    [] OTHER -> [b EXCEPT !.ends[g] = end, !.form[g] = "segments"]

(* _disable_live_latent_group *)
WithoutLatent(b) ==
  [b EXCEPT !.groups = @ \ {0}, !.ends[0] = 0, !.form[0] = "none", !.invalid = FALSE]

(* The latent group of a step: dropped alone when it cannot be described. *)
CaptureLatent(b, end, latentPlan) ==
  LET recorded == RecordLatent(b, b.planned, end)
  IN CASE 0 \notin b.groups -> b
       [] 0 \in b.groups /\ ( \/ \E g \in {0, 1} : b.form[g] = "segments"
                             \/ ~latentPlan \/ recorded.invalid) -> WithoutLatent(b)
       [] OTHER -> recorded

(* The indexer group: runs, else whole pages, else the builder is given up. *)
CaptureIndexer(b, end, plan) ==
  CASE plan = "runs" -> RecordRuns(b, b.planned, end)
    [] plan = "segments" -> RecordSegments(b, 1, b.planned, end)
    [] OTHER -> [b EXCEPT !.invalid = TRUE]

(* capture_live_source_step *)
CaptureStep(b, end, plan, latentPlan) ==
  LET indexed == CaptureIndexer(b, end, plan)
      both    == CaptureLatent(indexed, end, latentPlan)
  IN CASE b.planned = end -> b
       [] b.planned # end /\ (b.planned > end \/ indexed.invalid) -> NoBuilder
       [] OTHER -> [both EXCEPT !.planned = end]

(* finalize_live_source_descriptor *)
Complete(b, end) ==
  b.exists /\ ~b.invalid /\ \A g \in b.groups : b.ends[g] = end
=============================================================================
