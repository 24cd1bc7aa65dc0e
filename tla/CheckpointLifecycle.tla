------------------------ MODULE CheckpointLifecycle ------------------------
(***************************************************************************)
(* What the retention store promises about a publication, with its         *)
(* threads, queues, references and charges left out: an offer is made at   *)
(* most once and withdrawn for good, at most one offer is live under an    *)
(* identity, a protected one is never displaced, and its protection is     *)
(* exchanged for a remote copy only when that copy is complete.            *)
(***************************************************************************)
CONSTANTS Rets, Ids, IdOf, Content

VARIABLES phase,   \* what became of each publication
          durable  \* pages with an acknowledged remote copy

Live(r) == phase[r] \in {"offered", "protected", "remote"}
Guarded(r) == phase[r] \in {"protected", "remote"}

LifeInit == phase = [r \in Rets |-> "none"] /\ durable = {}

\* A newer offer displaces an unprotected one of the same identity.
Offer(r, as) ==
  /\ phase[r] = "none"
  /\ \A q \in Rets : IdOf[q] = IdOf[r] => ~Guarded(q)
  /\ phase' = [q \in Rets |-> IF q = r THEN as
                              ELSE IF IdOf[q] = IdOf[r] /\ phase[q] = "offered" THEN "gone"
                              ELSE phase[q]]
  /\ UNCHANGED durable

Refuse(r) ==
  /\ phase[r] = "none"
  /\ phase' = [phase EXCEPT ![r] = "gone"]
  /\ UNCHANGED durable

Withdraw(keys) ==
  /\ phase' = [r \in Rets |-> IF Live(r) /\ IdOf[r] \in keys THEN "gone" ELSE phase[r]]
  /\ UNCHANGED durable

Persist(p) ==
  /\ durable' = durable \cup {p}
  /\ UNCHANGED phase

MoveRemote(r) ==
  /\ phase[r] = "protected" /\ Content[r] \subseteq durable
  /\ phase' = [phase EXCEPT ![r] = "remote"]
  /\ UNCHANGED durable

LifeNext ==
  \/ \E r \in Rets : \/ \E as \in {"offered", "protected"} : Offer(r, as)
                     \/ Refuse(r) \/ MoveRemote(r)
                     \/ \E p \in Content[r] : Persist(p)
  \/ \E keys \in SUBSET Ids : Withdraw(keys)

LifeSpec == LifeInit /\ [][LifeNext]_<<phase, durable>>

=============================================================================
