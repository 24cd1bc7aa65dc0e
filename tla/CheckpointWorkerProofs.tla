----------------------- MODULE CheckpointWorkerProofs -----------------------
(***************************************************************************)
(* Proofs about CheckpointWorker, for any number of captures, restores and *)
(* staging slots: fragments have exactly their owners, a cancelled or      *)
(* failed generation stays so, and close() leaves only the cache's pages.  *)
(***************************************************************************)
EXTENDS CheckpointWorker, FiniteSetTheorems, SequenceTheorems, TLAPS

Stages == {"new", "captured", "queued", "running", "submitted", "done", "error", "fenced",
           "removed"}
Statuses == {"captured", "failed", "ready"}

WorkerTypes ==
  /\ stage \in [Keys -> Stages]
  /\ cancelled \subseteq Keys /\ offers \subseteq Keys /\ cached \subseteq Keys
  /\ refs \in [Keys -> Int]
  /\ restores \in [Loads -> {"none", "begun", "held", "acked"}]
  /\ queue \in Seq(Keys)
  /\ told \in [Keys -> Seq(Statuses)]

MainType ==
  main \in [pc : {"idle", "mark", "closing", "closemark", "drain", "down", "failed"},
           keys : SUBSET Keys, left : SUBSET Keys]

\* The executor's queue holds each publication that waits, once.
QueueOnce ==
  /\ \A i \in 1..Len(queue) : stage[queue[i]] = "queued"
  /\ \A i, j \in 1..Len(queue) : queue[i] = queue[j] => i = j

HeldBy(k) == {l \in Loads : KeyOf[l] = k /\ restores[l] = "held"}

\* Nobody but its job knows the fragments before the cache takes them, and no
\* offer names them before the publication has ended.
NotYetPublic ==
  \A k \in Keys :
    /\ stage[k] \in {"new", "captured", "queued", "running"} => k \notin cached /\ HeldBy(k) = {}
    /\ stage[k] \in {"new", "captured", "queued", "running", "submitted", "error", "fenced"}
         => k \notin offers
    /\ stage[k] = "new" => k \notin cancelled

\* Only "captured" was said of a job that is neither cancelled nor removed, and
\* "ready" is said when the job is removed.
ToldInOrder ==
  \A k \in Keys :
    /\ k \notin cancelled /\ stage[k] # "removed" =>
         \A i \in 1..Len(told[k]) : told[k][i] = "captured"
    /\ stage[k] # "removed" => \A i \in 1..Len(told[k]) : told[k][i] # "ready"
    /\ stage[k] = "new" => told[k] = <<>>

\* close() begins when no restore is under way, and none begins after it.
ClosingSettled ==
  /\ main.pc \in {"closing", "closemark", "drain", "down", "failed"} => RestoresSettled
  /\ main.pc = "down" => InJobs = {} /\ queue = <<>>

WorkerInv ==
  /\ WorkerTypes /\ MainType /\ QueueOnce /\ NotYetPublic /\ StagingExact
  /\ NoOrphanOffer /\ ToldInOrder /\ ReadyIsFinal /\ ClosingSettled

-----------------------------------------------------------------------------
(* What the operators the actions share do *)

\* The keys a cancel may name are captures.
LEMMA CancelKeys == \A S \in CancelArguments : S \subseteq Keys
BY WorkerAssumption DEF CancelArguments

\* Finitely many restores hold a key's fragments.
LEMMA HeldFinite ==
  ASSUME NEW k
  PROVE  /\ IsFiniteSet(HeldBy(k)) /\ Cardinality(HeldBy(k)) \in Nat
         /\ HeldBy(k) = {} => Cardinality(HeldBy(k)) = 0
<1>1. HeldBy(k) \subseteq Loads  BY DEF HeldBy
<1>2. IsFiniteSet(HeldBy(k))  BY <1>1, FS_Subset, WorkerAssumption
<1> QED  BY <1>2, FS_CardinalityType, FS_EmptySet

\* StagingExact with a key's holders named.
Exact(k) == refs[k] = (IF k \in InJobs THEN 1 ELSE 0) + (IF k \in cached THEN 1 ELSE 0)
                      + Cardinality(HeldBy(k))

\* The two forms say the same.
LEMMA ExactForm ==
  /\ StagingExact <=> \A k \in Keys : Exact(k)
  /\ StagingExact' <=> \A k \in Keys : Exact(k)'
BY DEF StagingExact, Exact, HeldBy

\* Tell appends one status to what was said of each key of S, and to no other.
LEMMA TellFacts ==
  ASSUME told \in [Keys -> Seq(Statuses)], NEW S \in SUBSET Keys,
         NEW status, \A k \in S : status[k] \in Statuses, Tell(S, status)
  PROVE  /\ told' \in [Keys -> Seq(Statuses)]
         /\ \A k \in Keys \ S : told'[k] = told[k]
         /\ \A k \in S : /\ Len(told'[k]) = Len(told[k]) + 1
                         /\ told'[k][Len(told[k]) + 1] = status[k]
                         /\ \A i \in 1..Len(told[k]) : told'[k][i] = told[k][i]
<1>1. \A k \in S : /\ Append(told[k], status[k]) \in Seq(Statuses)
                   /\ Len(Append(told[k], status[k])) = Len(told[k]) + 1
                   /\ Append(told[k], status[k])[Len(told[k]) + 1] = status[k]
                   /\ \A i \in 1..Len(told[k]) : Append(told[k], status[k])[i] = told[k][i]
  <2> TAKE k \in S
  <2>1. told[k] \in Seq(Statuses) /\ status[k] \in Statuses  OBVIOUS
  <2> QED  BY <2>1, AppendProperties
<1>2. \A k \in Keys : told'[k] = IF k \in S THEN Append(told[k], status[k]) ELSE told[k]
  BY DEF Tell
<1>3. told' = [k \in Keys |-> IF k \in S THEN Append(told[k], status[k]) ELSE told[k]]
  BY DEF Tell
<1>4. \A k \in Keys : (IF k \in S THEN Append(told[k], status[k]) ELSE told[k]) \in Seq(Statuses)
  BY <1>1
<1> QED  BY <1>1, <1>2, <1>3, <1>4

\* A report is in order when what was said before is, and it is said in time.
LEMMA TellInOrder ==
  ASSUME WorkerInv, NEW S \in SUBSET Keys, NEW status, \A k \in S : status[k] \in Statuses,
         Tell(S, status),
         \A k \in Keys : stage'[k] # stage[k] => stage'[k] # "new",
         \A k \in Keys : stage'[k] # "removed" => stage[k] # "removed",
         cancelled \subseteq cancelled',
         \A k \in S : stage'[k] # "new",
         \A k \in S : k \notin cancelled' /\ stage'[k] # "removed" => status[k] = "captured",
         \A k \in S : stage'[k] # "removed" => status[k] # "ready"
  PROVE  ToldInOrder'
<1> USE DEF WorkerInv, WorkerTypes
<1>1. \A k \in Keys \ S : told'[k] = told[k]
  BY TellFacts
<1>2. \A k \in S : /\ Len(told'[k]) = Len(told[k]) + 1
                   /\ told'[k][Len(told[k]) + 1] = status[k]
                   /\ \A i \in 1..Len(told[k]) : told'[k][i] = told[k][i]
  BY TellFacts
<1>3. \A k \in Keys : Len(told[k]) \in Nat
  BY LenProperties
<1> SUFFICES ASSUME NEW k \in Keys
    PROVE  /\ k \notin cancelled' /\ stage'[k] # "removed" =>
                \A i \in 1..Len(told'[k]) : told'[k][i] = "captured"
           /\ stage'[k] # "removed" => \A i \in 1..Len(told'[k]) : told'[k][i] # "ready"
           /\ stage'[k] = "new" => told'[k] = <<>>
  BY DEF ToldInOrder
<1>4. CASE k \notin S
  BY <1>1, <1>4 DEF ToldInOrder
<1>5. CASE k \in S
  <2>1. \A i \in 1..Len(told'[k]) : i \in 1..Len(told[k]) \/ i = Len(told[k]) + 1
    BY <1>2, <1>3, <1>5
  <2>2. ASSUME k \notin cancelled', stage'[k] # "removed", NEW i \in 1..Len(told'[k])
        PROVE  told'[k][i] = "captured"
    <3>1. \A j \in 1..Len(told[k]) : told[k][j] = "captured"
      BY <2>2 DEF ToldInOrder
    <3> QED  BY <1>2, <1>5, <2>1, <2>2, <3>1, ZenonT(40)
  <2>3. ASSUME stage'[k] # "removed", NEW i \in 1..Len(told'[k])
        PROVE  told'[k][i] # "ready"
    <3>1. \A j \in 1..Len(told[k]) : told[k][j] # "ready"
      BY <2>3 DEF ToldInOrder
    <3>2. CASE i \in 1..Len(told[k])
      BY <1>2, <1>5, <3>1, <3>2
    <3>3. CASE i = Len(told[k]) + 1
      <4>1. status[k] # "ready"
        BY <1>5, <2>3
      <4> QED  BY <1>2, <1>5, <3>3, <4>1
    <3> QED  BY <2>1, <3>2, <3>3
  <2> QED  BY <1>5, <2>2, <2>3
<1> QED  BY <1>4, <1>5

\* "ready" stays final when it is said at most of jobs that were neither removed
\* nor cancelled before the step, and nothing is said of a removed one.
LEMMA TellReady ==
  ASSUME WorkerInv, NEW S \in SUBSET Keys, NEW status, \A k \in S : status[k] \in Statuses,
         Tell(S, status),
         \A k \in S : stage[k] # "removed",
         \A k \in S : status[k] = "ready" => k \notin cancelled /\ k \notin cancelled',
         \A k \in cancelled' \ cancelled : k \in Keys /\ stage[k] # "removed"
  PROVE  ReadyIsFinal'
<1> USE DEF WorkerInv, WorkerTypes
<1>1. \A k \in Keys \ S : told'[k] = told[k]
  BY TellFacts
<1>2. \A k \in S : /\ Len(told'[k]) = Len(told[k]) + 1
                   /\ told'[k][Len(told[k]) + 1] = status[k]
                   /\ \A i \in 1..Len(told[k]) : told'[k][i] = told[k][i]
  BY TellFacts
<1>3. \A k \in Keys : /\ Len(told[k]) \in Nat /\ DOMAIN told[k] = 1..Len(told[k])
                      /\ DOMAIN told'[k] = 1..Len(told'[k])
  BY TellFacts, LenProperties
<1> SUFFICES ASSUME NEW k \in Keys, NEW i \in DOMAIN told'[k], told'[k][i] = "ready"
    PROVE  /\ k \notin cancelled'
           /\ \A j \in DOMAIN told'[k] : j # i => told'[k][j] = "captured"
  BY DEF ReadyIsFinal
<1>4. CASE k \notin S
  BY <1>1, <1>3, <1>4 DEF ReadyIsFinal, ToldInOrder
<1>5. CASE k \in S
  <2>1. \A j \in 1..Len(told'[k]) : j \in 1..Len(told[k]) \/ j = Len(told[k]) + 1
    BY <1>2, <1>3, <1>5
  <2>2. \A j \in 1..Len(told[k]) : told[k][j] # "ready"
    BY <1>5 DEF ToldInOrder
  <2>3. i = Len(told[k]) + 1 /\ status[k] = "ready"
    BY <1>2, <1>3, <1>5, <2>1, <2>2
  <2>4. \A j \in 1..Len(told[k]) : told[k][j] = "captured"
    BY <1>5, <2>3 DEF ToldInOrder
  <2> QED  BY <1>2, <1>3, <1>5, <2>1, <2>3, <2>4
<1> QED  BY <1>4, <1>5

\* Remove takes the jobs of S out of the table and one reference from each.
LEMMA RemoveFacts ==
  ASSUME WorkerTypes, NEW S \in SUBSET Keys, Remove(S)
  PROVE  /\ stage' \in [Keys -> Stages] /\ refs' \in [Keys -> Int]
         /\ \A k \in S : stage'[k] = "removed" /\ refs'[k] = refs[k] - 1
         /\ \A k \in Keys \ S : stage'[k] = stage[k] /\ refs'[k] = refs[k]
BY DEF WorkerTypes, Remove, Stages

\* Removing jobs keeps the counts exact and the queue in order, if none waits in it.
LEMMA RemoveKeeps ==
  ASSUME WorkerInv, NEW S \in SUBSET InJobs, \A k \in S : stage[k] # "queued", Remove(S),
         UNCHANGED <<cached, restores, queue>>
  PROVE  StagingExact' /\ QueueOnce'
<1> USE DEF WorkerInv, WorkerTypes
<1>1. S \in SUBSET Keys  BY DEF InJobs
<1>2. \A k \in S : stage'[k] = "removed" /\ refs'[k] = refs[k] - 1
  BY <1>1, RemoveFacts
<1>3. \A k \in Keys \ S : stage'[k] = stage[k] /\ refs'[k] = refs[k]
  BY <1>1, RemoveFacts
<1>4. ASSUME NEW k \in Keys PROVE Exact(k)'
  <2>1. Exact(k)  BY ExactForm
  <2>2. HeldBy(k)' = HeldBy(k) /\ Cardinality(HeldBy(k)) \in Nat  BY HeldFinite DEF HeldBy
  <2>3. k \in InJobs' <=> k \in InJobs /\ k \notin S  BY <1>2, <1>3 DEF InJobs
  <2>4. k \in cached' <=> k \in cached  OBVIOUS
  <2>5. refs'[k] = refs[k] - (IF k \in S THEN 1 ELSE 0)  BY <1>2, <1>3
  <2> QED  BY <2>1, <2>2, <2>3, <2>4, <2>5 DEF Exact
<1>5. QueueOnce'
  <2>1. \A i \in 1..Len(queue) : queue[i] \in Keys /\ queue[i] \notin S
    BY ElementOfSeq DEF QueueOnce
  <2> QED  BY <1>3, <2>1 DEF QueueOnce
<1> QED  BY <1>4, <1>5, ExactForm

\* What one pass of poll() over the jobs S does to the table and the reports.
LEMMA SettleKeeps ==
  ASSUME WorkerInv, NEW S \in SUBSET InJobs, S \cap Fenced = {}, Settle(S),
         UNCHANGED <<cached, restores, queue>>
  PROVE  /\ WorkerTypes' /\ QueueOnce' /\ NotYetPublic' /\ StagingExact'
         /\ NoOrphanOffer' /\ ToldInOrder' /\ ReadyIsFinal'
<1> DEFINE done == S \cap FutureDone
           overdue == {k \in S \ done : k \in late \ cancelled}
           gone == done \cup (overdue \cap NoFuture)
           said == (done \ cancelled) \cup overdue
           status == [k \in Keys |-> IF stage[k] = "done" THEN "ready" ELSE "failed"]
<1> USE DEF WorkerInv, WorkerTypes
<1>1. /\ offers' = offers \ (done \cap cancelled) /\ Remove(gone)
      /\ cancelled' = cancelled \cup overdue /\ Tell(said, status)
  BY DEF Settle, ForgetPublished, Reported
<1>2. /\ gone \in SUBSET InJobs /\ gone \in SUBSET Keys /\ said \in SUBSET Keys
      /\ overdue \in SUBSET Keys
      /\ \A k \in gone : stage[k] \in {"done", "error", "captured"}
      /\ \A k \in said : status[k] \in Statuses /\ (status[k] = "ready" <=> stage[k] = "done")
      /\ \A k \in S : stage[k] # "new" /\ stage[k] # "removed" /\ k \in Keys
  BY DEF InJobs, FutureDone, NoFuture, Statuses
<1>3. /\ stage' \in [Keys -> Stages] /\ refs' \in [Keys -> Int]
      /\ \A k \in gone : stage'[k] = "removed"
      /\ \A k \in Keys \ gone : stage'[k] = stage[k]
  BY <1>1, <1>2, RemoveFacts
<1>4. WorkerTypes'
  <2>1. told' \in [Keys -> Seq(Statuses)]
    BY <1>1, <1>2, TellFacts
  <2> QED  BY <1>1, <1>2, <1>3, <2>1
<1>5. QueueOnce' /\ StagingExact'
  BY <1>1, <1>2, RemoveKeeps
<1>6. NotYetPublic'
  BY <1>1, <1>2, <1>3 DEF NotYetPublic, HeldBy
<1>7. NoOrphanOffer'
  <2> SUFFICES ASSUME NEW k \in cancelled', stage'[k] = "removed", k \in offers' PROVE FALSE
    BY DEF NoOrphanOffer
  <2>1. k \in Keys /\ k \in offers /\ ~(k \in done /\ k \in cancelled)
    BY <1>1, <1>2
  <2>2. CASE k \in gone
    <3>1. k \in overdue \cap NoFuture
      BY <1>1, <2>1, <2>2
    <3> QED  BY <2>1, <3>1 DEF NotYetPublic, NoFuture
  <2>3. CASE k \notin gone
    <3>1. stage[k] = "removed"
      BY <1>3, <2>1, <2>3
    <3>2. k \in cancelled
      BY <1>1, <1>2, <3>1
    <3> QED  BY <2>1, <3>1, <3>2 DEF NoOrphanOffer
  <2> QED  BY <2>2, <2>3
<1>8. \A k \in said : stage'[k] = "removed" \/ (k \in cancelled' /\ stage[k] # "done")
  BY <1>1, <1>2, <1>3 DEF FutureDone
<1>9. /\ \A k \in said : stage[k] # "removed" /\ stage[k] # "new" /\ stage'[k] # "new"
      /\ \A k \in Keys : stage'[k] # stage[k] => stage'[k] # "new"
      /\ \A k \in Keys : stage'[k] # "removed" => stage[k] # "removed"
      /\ cancelled \subseteq cancelled'
      /\ \A k \in cancelled' \ cancelled : k \in Keys /\ stage[k] # "removed"
      /\ \A k \in said : stage[k] = "done" => k \notin cancelled /\ k \notin cancelled'
  BY <1>1, <1>2, <1>3 DEF FutureDone
<1>12. WorkerInv  OBVIOUS
<1> HIDE DEF status, said, gone, overdue, done, WorkerInv, WorkerTypes
<1>10. ToldInOrder'
  <2>1. \A k \in said : k \notin cancelled' /\ stage'[k] # "removed" => status[k] = "captured"
    BY <1>8
  <2>2. \A k \in said : stage'[k] # "removed" => status[k] # "ready"
    BY <1>2, <1>8
  <2>3. /\ \A k \in said : status[k] \in Statuses
        /\ \A k \in said : stage'[k] # "new"
    BY <1>2, <1>9
  <2> QED  BY <1>1, <1>2, <1>9, <1>12, <2>1, <2>2, <2>3, TellInOrder
<1>11. ReadyIsFinal'
  <2>1. \A k \in said : status[k] = "ready" => k \notin cancelled /\ k \notin cancelled'
    BY <1>2, <1>9
  <2>2. /\ \A k \in said : status[k] \in Statuses
        /\ \A k \in said : stage[k] # "removed"
    BY <1>2, <1>9
  <2> QED  BY <1>1, <1>2, <1>9, <1>12, <2>1, <2>2, TellReady
<1> QED  BY <1>4, <1>5, <1>6, <1>7, <1>10, <1>11

\* poll() and the last poll of close() settle jobs that are not quarantined.
LEMMA PollKeeps ==
  ASSUME WorkerInv, Poll \/ CloseShutdown
  PROVE  /\ WorkerTypes' /\ QueueOnce' /\ NotYetPublic' /\ StagingExact'
         /\ NoOrphanOffer' /\ ToldInOrder' /\ ReadyIsFinal'
<1>1. UNCHANGED <<cached, restores, queue>>
  BY DEF Poll, CloseShutdown
<1>2. PICK S \in SUBSET InJobs : S \cap Fenced = {} /\ Settle(S)
  <2>1. CASE Fenced = {}
    <3>1. InJobs \in SUBSET InJobs /\ InJobs \cap Fenced = {} /\ Settle(InJobs)
      BY <2>1 DEF Poll, CloseShutdown
    <3> QED  BY <3>1
  <2>2. CASE Fenced # {}
    <3>1. PICK S \in SUBSET (InJobs \ Fenced) : Settle(S)
      BY <2>2 DEF Poll, CloseShutdown
    <3> QED  BY <3>1
  <2> QED  BY <2>1, <2>2
<1> QED  BY <1>1, <1>2, SettleKeeps

\* Marking cancelled jobs, and releasing those without a future.
LEMMA MarkKeeps ==
  ASSUME WorkerInv, NEW from, NEW to, Mark(from, to)
  PROVE  /\ WorkerTypes' /\ QueueOnce' /\ NotYetPublic' /\ StagingExact'
         /\ NoOrphanOffer' /\ ToldInOrder' /\ ReadyIsFinal'
<1> USE DEF WorkerInv, WorkerTypes, Mark
<1> DEFINE gone == main.keys \cap NoFuture
<1>1. /\ gone \in SUBSET InJobs /\ gone \in SUBSET Keys
      /\ \A k \in gone : stage[k] = "captured"
      /\ cancelled' = cancelled \cup (main.keys \cap InJobs)
      /\ \A k \in cancelled' \ cancelled : k \in Keys /\ stage[k] # "removed" /\ stage[k] # "new"
  BY DEF InJobs, NoFuture
<1>2. /\ stage' \in [Keys -> Stages] /\ refs' \in [Keys -> Int]
      /\ \A k \in gone : stage'[k] = "removed"
      /\ \A k \in Keys \ gone : stage'[k] = stage[k]
  BY <1>1, RemoveFacts
<1>3. WorkerTypes'
  BY <1>1, <1>2
<1>4. QueueOnce' /\ StagingExact'
  BY <1>1, RemoveKeeps
<1>5. NotYetPublic'
  BY <1>1, <1>2 DEF NotYetPublic, HeldBy
<1>6. NoOrphanOffer'
  BY <1>1, <1>2 DEF NoOrphanOffer, NotYetPublic
<1>7. ToldInOrder'
  BY <1>1, <1>2 DEF ToldInOrder
<1>8. ReadyIsFinal'
  <2>1. told' = told /\ \A k \in Keys : DOMAIN told[k] = 1..Len(told[k])
    BY LenProperties
  <2>2. \A k \in Keys : stage[k] # "removed" => \A i \in DOMAIN told[k] : told[k][i] # "ready"
    BY <2>1 DEF ToldInOrder
  <2> QED  BY <1>1, <2>1, <2>2 DEF ReadyIsFinal
<1> QED  BY <1>3, <1>4, <1>5, <1>6, <1>7, <1>8

\* capture: the three outcomes for a new key.
LEMMA CaptureKeeps ==
  ASSUME WorkerInv, NEW k \in Keys, Capture(k)
  PROVE  /\ WorkerTypes' /\ StagingExact' /\ ToldInOrder' /\ ReadyIsFinal'
<1> DEFINE status(w) == [q \in {k} |-> w]
<1>1. /\ WorkerTypes /\ stage \in [Keys -> Stages] /\ refs \in [Keys -> Int]
      /\ told \in [Keys -> Seq(Statuses)] /\ stage[k] = "new"
      /\ UNCHANGED <<cancelled, offers, cached, restores, queue>>
      /\ {k} \in SUBSET Keys
  BY DEF WorkerInv, WorkerTypes, Capture
<1>2. k \notin cached /\ HeldBy(k) = {} /\ k \notin cancelled /\ k \notin InJobs /\ told[k] = <<>>
  BY <1>1 DEF WorkerInv, NotYetPublic, ToldInOrder, InJobs
<1>3. refs[k] = 0
  BY <1>2, HeldFinite, ExactForm DEF WorkerInv, Exact
<1>4. PICK w \in Stages :
        /\ stage' = [stage EXCEPT ![k] = w]
        /\ \/ w = "removed" /\ UNCHANGED refs /\ Tell({k}, status("failed"))
           \/ w = "captured" /\ refs' = [refs EXCEPT ![k] = 1] /\ Tell({k}, status("captured"))
           \/ w = "fenced" /\ refs' = [refs EXCEPT ![k] = 1] /\ UNCHANGED told
  BY DEF Capture, Stages
<1>5. /\ stage'[k] = w /\ w # "new" /\ \A q \in Keys \ {k} : stage'[q] = stage[q]
      /\ stage' \in [Keys -> Stages]
      /\ refs' \in [Keys -> Int] /\ \A q \in Keys \ {k} : refs'[q] = refs[q]
      /\ refs'[k] = IF w = "removed" THEN 0 ELSE 1
  BY <1>1, <1>3, <1>4
<1>6. StagingExact'
  <2> SUFFICES ASSUME NEW q \in Keys PROVE Exact(q)'
    BY ExactForm
  <2>1. HeldBy(q)' = HeldBy(q) /\ Cardinality(HeldBy(q)) \in Nat
    BY <1>1, HeldFinite DEF HeldBy
  <2>2. Exact(q)
    BY ExactForm DEF WorkerInv
  <2>3. CASE q = k
    <3>1. Cardinality(HeldBy(q)) = 0
      BY <1>2, <2>3, HeldFinite
    <3>2. q \in InJobs' <=> w # "removed"
      BY <1>4, <1>5, <2>3 DEF InJobs
    <3> QED  BY <1>1, <1>2, <1>5, <2>1, <2>3, <3>1, <3>2 DEF Exact
  <2>4. CASE q # k
    <3>1. q \in InJobs' <=> q \in InJobs
      BY <1>5, <2>4 DEF InJobs
    <3> QED  BY <1>1, <1>5, <2>1, <2>2, <2>4, <3>1 DEF Exact
  <2> QED  BY <2>3, <2>4
<1>7. ASSUME UNCHANGED told PROVE WorkerTypes' /\ ToldInOrder' /\ ReadyIsFinal'
  <2>1. WorkerTypes'
    BY <1>1, <1>5, <1>7 DEF WorkerTypes
  <2>2. ToldInOrder'
    BY <1>1, <1>2, <1>5, <1>7 DEF ToldInOrder, WorkerInv
  <2>3. ReadyIsFinal'
    BY <1>1, <1>7 DEF ReadyIsFinal, WorkerInv
  <2> QED  BY <2>1, <2>2, <2>3
<1>8. ASSUME NEW v \in {"failed", "captured"}, Tell({k}, status(v)), v = "failed" <=> w = "removed"
      PROVE  WorkerTypes' /\ ToldInOrder' /\ ReadyIsFinal'
  <2>1. /\ \A q \in {k} : status(v)[q] = v
        /\ \A q \in {k} : status(v)[q] \in Statuses
    BY DEF Statuses
  <2>2. told' \in [Keys -> Seq(Statuses)]
    BY <1>1, <1>8, <2>1, TellFacts
  <2>3. WorkerTypes'
    BY <1>1, <1>5, <2>2 DEF WorkerTypes
  <2> HIDE DEF status
  <2>4. ToldInOrder'
    <3>1. /\ \A q \in Keys : stage'[q] # stage[q] => stage'[q] # "new"
          /\ \A q \in Keys : stage'[q] # "removed" => stage[q] # "removed"
          /\ cancelled \subseteq cancelled'
          /\ \A q \in {k} : stage'[q] # "new"
      BY <1>1, <1>5
    <3>2. /\ \A q \in {k} : q \notin cancelled' /\ stage'[q] # "removed" => status(v)[q] = "captured"
          /\ \A q \in {k} : stage'[q] # "removed" => status(v)[q] # "ready"
      BY <1>5, <1>8, <2>1
    <3> QED  BY <1>1, <1>8, <2>1, <3>1, <3>2, TellInOrder
  <2>5. ReadyIsFinal'
    <3>1. /\ \A q \in {k} : stage[q] # "removed"
          /\ \A q \in {k} : status(v)[q] = "ready" => q \notin cancelled /\ q \notin cancelled'
          /\ \A q \in cancelled' \ cancelled : q \in Keys /\ stage[q] # "removed"
      BY <1>1, <2>1
    <3> QED  BY <1>1, <1>8, <2>1, <3>1, TellReady
  <2> QED  BY <2>3, <2>4, <2>5
<1>9. CASE w = "fenced"
  BY <1>4, <1>6, <1>7, <1>9
<1>10. CASE w = "captured"
  BY <1>4, <1>6, <1>8, <1>10
<1>11. CASE w = "removed"
  BY <1>4, <1>6, <1>8, <1>11
<1> QED  BY <1>4, <1>9, <1>10, <1>11

\* seal: the publication joins the queue, or the job is cancelled and released.
LEMMA SealKeeps ==
  ASSUME WorkerInv, NEW k \in Keys, Seal(k)
  PROVE  /\ WorkerTypes' /\ QueueOnce' /\ NotYetPublic' /\ StagingExact'
         /\ NoOrphanOffer' /\ ToldInOrder' /\ ReadyIsFinal'
<1>1. /\ WorkerTypes /\ stage \in [Keys -> Stages] /\ queue \in Seq(Keys)
      /\ told \in [Keys -> Seq(Statuses)] /\ cancelled \subseteq Keys /\ offers \subseteq Keys
      /\ stage[k] = "captured" /\ k \notin cancelled /\ k \in InJobs
      /\ UNCHANGED <<cached, restores>>
  BY DEF WorkerInv, WorkerTypes, Seal, InJobs
<1>2. CASE stage' = [stage EXCEPT ![k] = "queued"] /\ queue' = Append(queue, k)
           /\ UNCHANGED <<cancelled, offers, refs, told>>
  <2>1. /\ stage'[k] = "queued" /\ \A q \in Keys \ {k} : stage'[q] = stage[q]
        /\ stage' \in [Keys -> Stages] /\ InJobs' = InJobs
    BY <1>1, <1>2 DEF Stages, InJobs
  <2>2. /\ queue' \in Seq(Keys) /\ Len(queue') = Len(queue) + 1
        /\ queue'[Len(queue) + 1] = k /\ \A i \in 1..Len(queue) : queue'[i] = queue[i]
        /\ Len(queue) \in Nat
    BY <1>1, <1>2, AppendProperties, LenProperties
  <2>3. WorkerTypes'
    BY <1>1, <1>2, <2>1, <2>2 DEF WorkerTypes
  <2>4. QueueOnce'
    <3>1. \A i \in 1..Len(queue') : i \in 1..Len(queue) \/ i = Len(queue) + 1
      BY <2>2
    <3>2. \A i \in 1..Len(queue) : queue[i] \in Keys /\ queue[i] # k /\ stage[queue[i]] = "queued"
      BY <1>1, ElementOfSeq DEF WorkerInv, QueueOnce
    <3>3. \A i \in 1..Len(queue') : stage'[queue'[i]] = "queued"
      BY <2>1, <2>2, <3>1, <3>2
    <3>4. \A i, j \in 1..Len(queue) : queue[i] = queue[j] => i = j
      BY DEF WorkerInv, QueueOnce
    <3>5. \A i, j \in 1..Len(queue') : queue'[i] = queue'[j] => i = j
      BY <2>2, <3>1, <3>2, <3>4
    <3> QED  BY <3>3, <3>5 DEF QueueOnce
  <2>5. NotYetPublic'
    BY <1>1, <1>2, <2>1 DEF WorkerInv, NotYetPublic, HeldBy
  <2>6. StagingExact'
    BY <1>1, <1>2, <2>1 DEF WorkerInv, StagingExact
  <2>7. NoOrphanOffer' /\ ReadyIsFinal'
    BY <1>1, <1>2, <2>1 DEF WorkerInv, NoOrphanOffer, ReadyIsFinal
  <2>8. ToldInOrder'
    BY <1>1, <1>2, <2>1 DEF WorkerInv, ToldInOrder
  <2> QED  BY <2>3, <2>4, <2>5, <2>6, <2>7, <2>8
<1>3. CASE /\ offers' = offers \ {k} /\ cancelled' = cancelled \cup {k} /\ Remove({k})
           /\ Tell({k}, [q \in {k} |-> "failed"]) /\ UNCHANGED queue
  <2> DEFINE status == [q \in {k} |-> "failed"]
  <2>1. {k} \in SUBSET Keys /\ {k} \in SUBSET InJobs /\ \A q \in {k} : stage[q] # "queued"
    BY <1>1
  <2>2. /\ stage' \in [Keys -> Stages] /\ refs' \in [Keys -> Int]
        /\ stage'[k] = "removed" /\ \A q \in Keys \ {k} : stage'[q] = stage[q]
    BY <1>1, <1>3, <2>1, RemoveFacts
  <2>3. \A q \in {k} : status[q] \in Statuses /\ status[q] = "failed"
    BY DEF Statuses
  <2>4. told' \in [Keys -> Seq(Statuses)]
    BY <1>1, <1>3, <2>1, <2>3, TellFacts
  <2>5. WorkerTypes'
    BY <1>1, <1>3, <2>2, <2>4 DEF WorkerTypes
  <2>6. QueueOnce' /\ StagingExact'
    BY <1>1, <1>3, <2>1, RemoveKeeps
  <2>7. NotYetPublic'
    BY <1>1, <1>3, <2>2 DEF WorkerInv, NotYetPublic, HeldBy
  <2>8. NoOrphanOffer'
    BY <1>1, <1>3, <2>2 DEF WorkerInv, NoOrphanOffer
  <2>9. Tell({k}, status)
    BY <1>3
  <2> HIDE DEF status
  <2>10. /\ \A q \in {k} : status[q] \in Statuses
         /\ \A q \in Keys : stage'[q] # stage[q] => stage'[q] # "new"
         /\ \A q \in Keys : stage'[q] # "removed" => stage[q] # "removed"
         /\ cancelled \subseteq cancelled'
         /\ \A q \in {k} : stage'[q] # "new"
         /\ \A q \in {k} : q \notin cancelled' /\ stage'[q] # "removed" => status[q] = "captured"
         /\ \A q \in {k} : stage'[q] # "removed" => status[q] # "ready"
    BY <1>1, <1>3, <2>2, <2>3
  <2>11. ToldInOrder'
    BY <2>1, <2>9, <2>10, TellInOrder
  <2>12. /\ \A q \in {k} : stage[q] # "removed"
         /\ \A q \in {k} : status[q] = "ready" => q \notin cancelled /\ q \notin cancelled'
         /\ \A q \in cancelled' \ cancelled : q \in Keys /\ stage[q] # "removed"
    BY <1>1, <1>3, <2>3
  <2>13. ReadyIsFinal'
    BY <2>1, <2>9, <2>10, <2>12, TellReady
  <2> QED  BY <2>5, <2>6, <2>7, <2>8, <2>11, <2>13
<1> QED  BY <1>2, <1>3 DEF Seal

\* The executor takes the first publication of the queue.
LEMMA StartKeeps ==
  ASSUME WorkerInv, PublishStart
  PROVE  WorkerTypes' /\ QueueOnce' /\ NotYetPublic' /\ StagingExact' /\ ToldInOrder'
<1> DEFINE k == Head(queue)
<1>1. /\ WorkerTypes /\ stage \in [Keys -> Stages] /\ queue \in Seq(Keys) /\ queue # <<>>
      /\ queue' = Tail(queue)
      /\ UNCHANGED <<cancelled, offers, cached, refs, restores, told>>
  BY DEF WorkerInv, WorkerTypes, PublishStart
<1>2. /\ k = queue[1] /\ k \in Keys /\ queue' \in Seq(Keys) /\ Len(queue') = Len(queue) - 1
      /\ Len(queue) \in Nat /\ Len(queue) > 0
      /\ \A i \in 1..Len(queue') : i + 1 \in 1..Len(queue) /\ queue'[i] = queue[i + 1]
  BY <1>1, HeadTailProperties, EmptySeq, LenProperties, ElementOfSeq
<1>3. stage[k] = "queued"
  BY <1>2 DEF WorkerInv, QueueOnce
<1>4. PICK w \in {"error", "done", "running"} :
        stage' = [stage EXCEPT ![k] = w] /\ (w = "done" => k \in cancelled)
  BY DEF PublishStart
<1> HIDE DEF k
<1>5. /\ stage' \in [Keys -> Stages] /\ stage'[k] = w
      /\ \A q \in Keys \ {k} : stage'[q] = stage[q]
  BY <1>1, <1>2, <1>4 DEF Stages
<1>6. WorkerTypes'
  BY <1>1, <1>2, <1>5 DEF WorkerTypes
<1>7. QueueOnce'
  <2>1. \A i \in 1..Len(queue') : queue'[i] # k /\ stage[queue'[i]] = "queued" /\ queue'[i] \in Keys
    BY <1>1, <1>2, ElementOfSeq DEF WorkerInv, QueueOnce
  <2>2. \A i, j \in 1..Len(queue') : queue'[i] = queue'[j] => i = j
    BY <1>2, SMTT(30) DEF WorkerInv, QueueOnce
  <2> QED  BY <1>5, <2>1, <2>2 DEF QueueOnce
<1>8. NotYetPublic'
  BY <1>1, <1>2, <1>3, <1>5 DEF WorkerInv, NotYetPublic, HeldBy
<1>9. StagingExact'
  <2>1. InJobs' = InJobs
    BY <1>2, <1>3, <1>5 DEF InJobs
  <2> QED  BY <1>1, <2>1 DEF WorkerInv, StagingExact
<1>10. ToldInOrder'
  BY <1>1, <1>2, <1>3, <1>5 DEF WorkerInv, ToldInOrder
<1> QED  BY <1>6, <1>7, <1>8, <1>9, <1>10

\* A step that touches the owners of one key only has that key to account for.
LEMMA ExactAt ==
  ASSUME StagingExact, NEW k \in Keys, Exact(k)',
         \A q \in Keys \ {k} : /\ refs'[q] = refs[q] /\ (q \in InJobs' <=> q \in InJobs)
                                /\ (q \in cached' <=> q \in cached) /\ HeldBy(q)' = HeldBy(q)
  PROVE  StagingExact'
<1> SUFFICES ASSUME NEW q \in Keys \ {k} PROVE Exact(q)'
  BY ExactForm
<1>1. Exact(q)  BY ExactForm
<1>2. HeldBy(q)' = HeldBy(q)  OBVIOUS
<1> QED  BY <1>1, <1>2 DEF Exact

\* The eviction of fragments that only the cache owns.
LEMMA EvictExact ==
  ASSUME WorkerInv, NEW k \in Keys, Evict(k)
  PROVE  StagingExact'
<1>1. /\ refs \in [Keys -> Int] /\ k \in cached /\ refs[k] = 1 /\ cached' = cached \ {k}
      /\ refs' = [refs EXCEPT ![k] = 0] /\ InJobs' = InJobs /\ \A q : HeldBy(q)' = HeldBy(q)
  BY DEF WorkerInv, WorkerTypes, Evict, InJobs, HeldBy
<1>2. Exact(k) /\ Cardinality(HeldBy(k)) \in Nat
  BY ExactForm, HeldFinite DEF WorkerInv
<1>3. k \notin InJobs /\ Cardinality(HeldBy(k)) = 0
  BY <1>1, <1>2 DEF Exact
<1>4. Exact(k)'
  <2>1. HeldBy(k)' = HeldBy(k) /\ k \notin cached' /\ k \notin InJobs' /\ refs'[k] = 0
    BY <1>1, <1>3
  <2> QED  BY <1>3, <2>1 DEF Exact
<1> QED  BY <1>1, <1>4, ExactAt DEF WorkerInv

\* The cache takes a reference to the fragments it is given.
LEMMA PagesExact ==
  ASSUME WorkerInv, NEW k \in Keys, PublishPages(k)
  PROVE  StagingExact'
<1>1. /\ refs \in [Keys -> Int] /\ stage[k] = "running" /\ cached' = cached \cup {k}
      /\ refs' = [refs EXCEPT ![k] = @ + 1] /\ \A q : HeldBy(q)' = HeldBy(q)
  BY DEF WorkerInv, WorkerTypes, PublishPages, HeldBy
<1>2. InJobs' = InJobs /\ k \in InJobs /\ k \notin cached
  BY <1>1 DEF WorkerInv, WorkerTypes, PublishPages, InJobs, NotYetPublic
<1>3. Exact(k) /\ Cardinality(HeldBy(k)) \in Nat
  BY ExactForm, HeldFinite DEF WorkerInv
<1>4. Exact(k)'
  <2>1. /\ HeldBy(k)' = HeldBy(k) /\ k \in cached' /\ k \in InJobs'
        /\ refs'[k] = refs[k] + 1
    BY <1>1, <1>2
  <2> QED  BY <1>2, <1>3, <2>1 DEF Exact
<1> QED  BY <1>1, <1>2, <1>4, ExactAt DEF WorkerInv

\* A restore that holds fragments, or lets them go, is one owner more or less.
LEMMA RestoreExact ==
  ASSUME WorkerInv, NEW l \in Loads, HoldRestore(l) \/ ReleaseRestore(l)
  PROVE  StagingExact'
<1> DEFINE k == KeyOf[l]
           H == HeldBy(k)
<1>1. /\ k \in Keys /\ refs \in [Keys -> Int] /\ UNCHANGED <<stage, cached>>
      /\ restores \in [Loads -> {"none", "begun", "held", "acked"}]
  BY WorkerAssumption DEF WorkerInv, WorkerTypes, HoldRestore, ReleaseRestore
<1>2. Exact(k) /\ Cardinality(H) \in Nat /\ IsFiniteSet(H)
  BY <1>1, ExactForm, HeldFinite DEF WorkerInv
<1>3. CASE HoldRestore(l)
  <2>1. refs'[k] = refs[k] + 1 /\ \A q \in Keys \ {k} : refs'[q] = refs[q]
    BY <1>1, <1>3 DEF HoldRestore
  <2>2. /\ HeldBy(k)' = H \cup {l} /\ l \notin H
        /\ \A q \in Keys \ {k} : HeldBy(q)' = HeldBy(q)
    BY <1>1, <1>3 DEF HoldRestore, HeldBy
  <2>3. Cardinality(H \cup {l}) = Cardinality(H) + 1
    BY <1>2, <2>2, FS_AddElement
  <2> HIDE DEF H, k
  <2>4. Cardinality(HeldBy(k)') = Cardinality(H) + 1 /\ InJobs' = InJobs /\ cached' = cached
    BY <1>1, <2>2, <2>3 DEF InJobs
  <2>5. Exact(k)'
    BY <1>2, <2>1, <2>4 DEF Exact, H
  <2> QED  BY <1>1, <2>1, <2>2, <2>4, <2>5, ExactAt DEF WorkerInv
<1>4. CASE ReleaseRestore(l)
  <2>1. /\ refs'[k] = refs[k] - RestoreOwned(l) /\ \A q \in Keys \ {k} : refs'[q] = refs[q]
        /\ RestoreOwned(l) = IF l \in H THEN 1 ELSE 0
    BY <1>1, <1>4 DEF ReleaseRestore, RestoreOwned, HeldBy
  <2>2. HeldBy(k)' = H \ {l} /\ \A q \in Keys \ {k} : HeldBy(q)' = HeldBy(q)
    BY <1>1, <1>4 DEF ReleaseRestore, HeldBy
  <2>3. Cardinality(H \ {l}) = IF l \in H THEN Cardinality(H) - 1 ELSE Cardinality(H)
    BY <1>2, FS_RemoveElement
  <2> HIDE DEF H, k
  <2>4. /\ Cardinality(HeldBy(k)') = Cardinality(H) - RestoreOwned(l)
        /\ RestoreOwned(l) \in Int /\ InJobs' = InJobs /\ cached' = cached
    BY <1>1, <1>2, <2>1, <2>2, <2>3 DEF InJobs
  <2>5. Exact(k)'
    BY <1>1, <1>2, <2>1, <2>4 DEF Exact, H
  <2> QED  BY <1>1, <2>1, <2>2, <2>4, <2>5, ExactAt DEF WorkerInv
<1> QED  BY <1>3, <1>4

\* A capture that is repeated says again what is known.
LEMMA DuplicateReady ==
  ASSUME WorkerInv, NEW k \in Keys, CaptureDuplicate(k)
  PROVE  ReadyIsFinal'
<1> DEFINE status == [q \in {k} |-> IF k \in cancelled THEN "failed" ELSE "captured"]
<1>1. /\ {k} \in SUBSET Keys /\ \A q \in {k} : status[q] \in Statuses
      /\ \A q \in {k} : status[q] # "ready"
  BY DEF Statuses
<1>2. Tell({k}, status) /\ \A q \in {k} : stage[q] # "removed"
  BY DEF CaptureDuplicate, InJobs
<1>3. cancelled' = cancelled
  BY DEF CaptureDuplicate
<1> HIDE DEF status
<1> QED  BY <1>1, <1>2, <1>3, TellReady

\* The shutdown of a close() that quarantined nothing empties the table.
LEMMA ShutdownEmpties ==
  ASSUME WorkerInv, CloseShutdown, Fenced = {}
  PROVE  InJobs' = {} /\ queue' = <<>>
<1>1. /\ Settle(InJobs) /\ queue' = <<>>
      /\ InJobs \cap FutureDone = InJobs
  BY DEF CloseShutdown
<1>2. PICK T : Remove(T) /\ InJobs \subseteq T
  BY <1>1 DEF Settle
<1> QED  BY <1>1, <1>2 DEF Remove, InJobs

-----------------------------------------------------------------------------
(* One lemma per part of the invariant: no step breaks it *)

\* Every step keeps the types of the job table, the offers and the reports.
LEMMA WorkerTypesStep == WorkerInv /\ [Next]_vars => WorkerTypes'
<1> SUFFICES ASSUME WorkerInv, [Next]_vars PROVE WorkerTypes'
  OBVIOUS
<1> USE WorkerAssumption DEF WorkerInv, WorkerTypes, Stages, Statuses, InJobs, Idle
<1>1. ASSUME NEW k \in Keys, CaptureDuplicate(k) PROVE WorkerTypes'
  BY <1>1 DEF CaptureDuplicate, Tell
<1>2. ASSUME NEW k \in Keys, Capture(k) PROVE WorkerTypes'
  BY <1>2, CaptureKeeps
<1>3. ASSUME NEW k \in Keys, Seal(k) PROVE WorkerTypes'
  BY <1>3, SealKeeps
<1>4. ASSUME NEW k \in Keys, Deadline(k) PROVE WorkerTypes'
  BY <1>4 DEF Deadline
<1>5. ASSUME NEW k \in Keys, Evict(k) PROVE WorkerTypes'
  BY <1>5 DEF Evict
<1>6. ASSUME NEW S \in CancelArguments, CancelForget(S) PROVE WorkerTypes'
  BY <1>6, CancelKeys DEF CancelForget
<1>7. ASSUME NEW S \in CancelArguments, LookupForget(S) PROVE WorkerTypes'
  BY <1>7, CancelKeys DEF LookupForget
<1>8. ASSUME NEW l \in Loads, BeginRestore(l) PROVE WorkerTypes'
  BY <1>8 DEF BeginRestore
<1>9. ASSUME NEW l \in Loads, HoldRestore(l) PROVE WorkerTypes'
  BY <1>9 DEF HoldRestore
<1>10. ASSUME NEW l \in Loads, ReleaseRestore(l) PROVE WorkerTypes'
  BY <1>10 DEF ReleaseRestore, RestoreOwned
<1>11. ASSUME Poll PROVE WorkerTypes'
  BY <1>11, PollKeeps
<1>12. ASSUME CloseBegin PROVE WorkerTypes'
  BY <1>12 DEF CloseBegin
<1>13. ASSUME CancelMark PROVE WorkerTypes'
  BY <1>13, MarkKeeps DEF CancelMark
<1>14. ASSUME NEW k \in Keys, CloseCancel(k) PROVE WorkerTypes'
  BY <1>14 DEF CloseCancel
<1>15. ASSUME CloseMark PROVE WorkerTypes'
  BY <1>15, MarkKeeps DEF CloseMark
<1>16. ASSUME CloseShutdown PROVE WorkerTypes'
  BY <1>16, PollKeeps
<1>17. ASSUME PublishStart PROVE WorkerTypes'
  BY <1>17, StartKeeps
<1>18. ASSUME NEW k \in Keys, PublishPages(k) PROVE WorkerTypes'
  BY <1>18 DEF PublishPages
<1>19. ASSUME NEW k \in Keys, PublishOffer(k) PROVE WorkerTypes'
  BY <1>19 DEF PublishOffer
<1>20. ASSUME ToggleFreeze PROVE WorkerTypes'
  BY <1>20 DEF ToggleFreeze
<1>21. CASE UNCHANGED vars
  BY <1>21 DEF vars
<1> QED
  BY <1>1, <1>2, <1>3, <1>4, <1>5, <1>6, <1>7, <1>8, <1>9, <1>10, <1>11, <1>12, <1>13,
     <1>14, <1>15, <1>16, <1>17, <1>18, <1>19, <1>20, <1>21 DEF Next, CloseStep, ExecStep

\* Every step keeps the worker thread's own state well formed.
LEMMA MainTypeStep == WorkerInv /\ [Next]_vars => MainType'
<1> SUFFICES ASSUME WorkerInv, [Next]_vars PROVE MainType'
  OBVIOUS
<1> USE WorkerAssumption DEF WorkerInv, WorkerTypes, MainType, InJobs, Idle
<1>1. ASSUME NEW k \in Keys, CaptureDuplicate(k) PROVE MainType'
  BY <1>1 DEF CaptureDuplicate, Tell
<1>2. ASSUME NEW k \in Keys, Capture(k) PROVE MainType'
  BY <1>2 DEF Capture, Tell
<1>3. ASSUME NEW k \in Keys, Seal(k) PROVE MainType'
  BY <1>3 DEF Seal
<1>4. ASSUME NEW k \in Keys, Deadline(k) PROVE MainType'
  BY <1>4 DEF Deadline
<1>5. ASSUME NEW k \in Keys, Evict(k) PROVE MainType'
  BY <1>5 DEF Evict
<1>6. ASSUME NEW S \in CancelArguments, CancelForget(S) PROVE MainType'
  BY <1>6, CancelKeys DEF CancelForget
<1>7. ASSUME NEW S \in CancelArguments, LookupForget(S) PROVE MainType'
  BY <1>7, CancelKeys DEF LookupForget
<1>8. ASSUME NEW l \in Loads, BeginRestore(l) PROVE MainType'
  BY <1>8 DEF BeginRestore
<1>9. ASSUME NEW l \in Loads, HoldRestore(l) PROVE MainType'
  BY <1>9 DEF HoldRestore
<1>10. ASSUME NEW l \in Loads, ReleaseRestore(l) PROVE MainType'
  BY <1>10 DEF ReleaseRestore, RestoreOwned
<1>11. ASSUME Poll PROVE MainType'
  BY <1>11 DEF Poll
<1>12. ASSUME CloseBegin PROVE MainType'
  BY <1>12 DEF CloseBegin
<1>13. ASSUME CancelMark PROVE MainType'
  BY <1>13 DEF CancelMark, Mark
<1>14. ASSUME NEW k \in Keys, CloseCancel(k) PROVE MainType'
  BY <1>14 DEF CloseCancel
<1>15. ASSUME CloseMark PROVE MainType'
  BY <1>15 DEF CloseMark, Mark
<1>16. ASSUME CloseShutdown PROVE MainType'
  BY <1>16 DEF CloseShutdown
<1>17. ASSUME PublishStart PROVE MainType'
  BY <1>17 DEF PublishStart
<1>18. ASSUME NEW k \in Keys, PublishPages(k) PROVE MainType'
  BY <1>18 DEF PublishPages
<1>19. ASSUME NEW k \in Keys, PublishOffer(k) PROVE MainType'
  BY <1>19 DEF PublishOffer
<1>20. ASSUME ToggleFreeze PROVE MainType'
  BY <1>20 DEF ToggleFreeze
<1>21. CASE UNCHANGED vars
  BY <1>21 DEF vars
<1> QED
  BY <1>1, <1>2, <1>3, <1>4, <1>5, <1>6, <1>7, <1>8, <1>9, <1>10, <1>11, <1>12, <1>13,
     <1>14, <1>15, <1>16, <1>17, <1>18, <1>19, <1>20, <1>21 DEF Next, CloseStep, ExecStep

\* Every step keeps the executor's queue free of repetitions.
LEMMA QueueOnceStep == WorkerInv /\ [Next]_vars => QueueOnce'
<1> SUFFICES ASSUME WorkerInv, [Next]_vars PROVE QueueOnce'
  OBVIOUS
<1> USE WorkerAssumption DEF WorkerInv, WorkerTypes, QueueOnce, InJobs, Idle
<1>1. ASSUME NEW k \in Keys, CaptureDuplicate(k) PROVE QueueOnce'
  BY <1>1 DEF CaptureDuplicate, Tell
<1>2. ASSUME NEW k \in Keys, Capture(k) PROVE QueueOnce'
  BY <1>2 DEF Capture, Tell
<1>3. ASSUME NEW k \in Keys, Seal(k) PROVE QueueOnce'
  BY <1>3, SealKeeps
<1>4. ASSUME NEW k \in Keys, Deadline(k) PROVE QueueOnce'
  BY <1>4 DEF Deadline
<1>5. ASSUME NEW k \in Keys, Evict(k) PROVE QueueOnce'
  BY <1>5 DEF Evict
<1>6. ASSUME NEW S \in CancelArguments, CancelForget(S) PROVE QueueOnce'
  BY <1>6, CancelKeys DEF CancelForget
<1>7. ASSUME NEW S \in CancelArguments, LookupForget(S) PROVE QueueOnce'
  BY <1>7, CancelKeys DEF LookupForget
<1>8. ASSUME NEW l \in Loads, BeginRestore(l) PROVE QueueOnce'
  BY <1>8 DEF BeginRestore
<1>9. ASSUME NEW l \in Loads, HoldRestore(l) PROVE QueueOnce'
  BY <1>9 DEF HoldRestore
<1>10. ASSUME NEW l \in Loads, ReleaseRestore(l) PROVE QueueOnce'
  BY <1>10 DEF ReleaseRestore, RestoreOwned
<1>11. ASSUME Poll PROVE QueueOnce'
  BY <1>11, PollKeeps
<1>12. ASSUME CloseBegin PROVE QueueOnce'
  BY <1>12 DEF CloseBegin
<1>13. ASSUME CancelMark PROVE QueueOnce'
  BY <1>13, MarkKeeps DEF CancelMark
<1>14. ASSUME NEW k \in Keys, CloseCancel(k) PROVE QueueOnce'
  BY <1>14 DEF CloseCancel
<1>15. ASSUME CloseMark PROVE QueueOnce'
  BY <1>15, MarkKeeps DEF CloseMark
<1>16. ASSUME CloseShutdown PROVE QueueOnce'
  BY <1>16, PollKeeps
<1>17. ASSUME PublishStart PROVE QueueOnce'
  BY <1>17, StartKeeps
<1>18. ASSUME NEW k \in Keys, PublishPages(k) PROVE QueueOnce'
  BY <1>18 DEF PublishPages
<1>19. ASSUME NEW k \in Keys, PublishOffer(k) PROVE QueueOnce'
  BY <1>19 DEF PublishOffer
<1>20. ASSUME ToggleFreeze PROVE QueueOnce'
  BY <1>20 DEF ToggleFreeze
<1>21. CASE UNCHANGED vars
  BY <1>21 DEF vars
<1> QED
  BY <1>1, <1>2, <1>3, <1>4, <1>5, <1>6, <1>7, <1>8, <1>9, <1>10, <1>11, <1>12, <1>13,
     <1>14, <1>15, <1>16, <1>17, <1>18, <1>19, <1>20, <1>21 DEF Next, CloseStep, ExecStep

\* No step makes fragments public before their publication.
LEMMA NotYetPublicStep == WorkerInv /\ [Next]_vars => NotYetPublic'
<1> SUFFICES ASSUME WorkerInv, [Next]_vars PROVE NotYetPublic'
  OBVIOUS
<1> USE WorkerAssumption DEF WorkerInv, WorkerTypes, NotYetPublic, HeldBy, InJobs, Idle
<1>1. ASSUME NEW k \in Keys, CaptureDuplicate(k) PROVE NotYetPublic'
  BY <1>1 DEF CaptureDuplicate, Tell
<1>2. ASSUME NEW k \in Keys, Capture(k) PROVE NotYetPublic'
  BY <1>2 DEF Capture, Tell
<1>3. ASSUME NEW k \in Keys, Seal(k) PROVE NotYetPublic'
  BY <1>3, SealKeeps
<1>4. ASSUME NEW k \in Keys, Deadline(k) PROVE NotYetPublic'
  BY <1>4 DEF Deadline
<1>5. ASSUME NEW k \in Keys, Evict(k) PROVE NotYetPublic'
  BY <1>5 DEF Evict
<1>6. ASSUME NEW S \in CancelArguments, CancelForget(S) PROVE NotYetPublic'
  BY <1>6, CancelKeys DEF CancelForget
<1>7. ASSUME NEW S \in CancelArguments, LookupForget(S) PROVE NotYetPublic'
  BY <1>7, CancelKeys DEF LookupForget
<1>8. ASSUME NEW l \in Loads, BeginRestore(l) PROVE NotYetPublic'
  BY <1>8 DEF BeginRestore
<1>9. ASSUME NEW l \in Loads, HoldRestore(l) PROVE NotYetPublic'
  BY <1>9 DEF HoldRestore
<1>10. ASSUME NEW l \in Loads, ReleaseRestore(l) PROVE NotYetPublic'
  BY <1>10 DEF ReleaseRestore, RestoreOwned
<1>11. ASSUME Poll PROVE NotYetPublic'
  BY <1>11, PollKeeps
<1>12. ASSUME CloseBegin PROVE NotYetPublic'
  BY <1>12 DEF CloseBegin
<1>13. ASSUME CancelMark PROVE NotYetPublic'
  BY <1>13, MarkKeeps DEF CancelMark
<1>14. ASSUME NEW k \in Keys, CloseCancel(k) PROVE NotYetPublic'
  BY <1>14 DEF CloseCancel
<1>15. ASSUME CloseMark PROVE NotYetPublic'
  BY <1>15, MarkKeeps DEF CloseMark
<1>16. ASSUME CloseShutdown PROVE NotYetPublic'
  BY <1>16, PollKeeps
<1>17. ASSUME PublishStart PROVE NotYetPublic'
  BY <1>17, StartKeeps
<1>18. ASSUME NEW k \in Keys, PublishPages(k) PROVE NotYetPublic'
  BY <1>18 DEF PublishPages
<1>19. ASSUME NEW k \in Keys, PublishOffer(k) PROVE NotYetPublic'
  BY <1>19 DEF PublishOffer
<1>20. ASSUME ToggleFreeze PROVE NotYetPublic'
  BY <1>20 DEF ToggleFreeze
<1>21. CASE UNCHANGED vars
  BY <1>21 DEF vars
<1> QED
  BY <1>1, <1>2, <1>3, <1>4, <1>5, <1>6, <1>7, <1>8, <1>9, <1>10, <1>11, <1>12, <1>13,
     <1>14, <1>15, <1>16, <1>17, <1>18, <1>19, <1>20, <1>21 DEF Next, CloseStep, ExecStep

\* Every step moves the fragments' reference counts with their owners.
LEMMA StagingExactStep == WorkerInv /\ [Next]_vars => StagingExact'
<1> SUFFICES ASSUME WorkerInv, [Next]_vars PROVE StagingExact'
  OBVIOUS
<1> USE WorkerAssumption DEF WorkerInv, WorkerTypes, StagingExact, Exact, InJobs, Idle
<1>1. ASSUME NEW k \in Keys, CaptureDuplicate(k) PROVE StagingExact'
  BY <1>1 DEF CaptureDuplicate, Tell
<1>2. ASSUME NEW k \in Keys, Capture(k) PROVE StagingExact'
  BY <1>2, CaptureKeeps
<1>3. ASSUME NEW k \in Keys, Seal(k) PROVE StagingExact'
  BY <1>3, SealKeeps
<1>4. ASSUME NEW k \in Keys, Deadline(k) PROVE StagingExact'
  BY <1>4 DEF Deadline
<1>5. ASSUME NEW k \in Keys, Evict(k) PROVE StagingExact'
  BY <1>5, EvictExact
<1>6. ASSUME NEW S \in CancelArguments, CancelForget(S) PROVE StagingExact'
  BY <1>6, CancelKeys DEF CancelForget
<1>7. ASSUME NEW S \in CancelArguments, LookupForget(S) PROVE StagingExact'
  BY <1>7, CancelKeys DEF LookupForget
<1>8. ASSUME NEW l \in Loads, BeginRestore(l) PROVE StagingExact'
  BY <1>8 DEF BeginRestore
<1>9. ASSUME NEW l \in Loads, HoldRestore(l) PROVE StagingExact'
  BY <1>9, RestoreExact
<1>10. ASSUME NEW l \in Loads, ReleaseRestore(l) PROVE StagingExact'
  BY <1>10, RestoreExact
<1>11. ASSUME Poll PROVE StagingExact'
  BY <1>11, PollKeeps
<1>12. ASSUME CloseBegin PROVE StagingExact'
  BY <1>12 DEF CloseBegin
<1>13. ASSUME CancelMark PROVE StagingExact'
  BY <1>13, MarkKeeps DEF CancelMark
<1>14. ASSUME NEW k \in Keys, CloseCancel(k) PROVE StagingExact'
  BY <1>14 DEF CloseCancel
<1>15. ASSUME CloseMark PROVE StagingExact'
  BY <1>15, MarkKeeps DEF CloseMark
<1>16. ASSUME CloseShutdown PROVE StagingExact'
  BY <1>16, PollKeeps
<1>17. ASSUME PublishStart PROVE StagingExact'
  BY <1>17, StartKeeps
<1>18. ASSUME NEW k \in Keys, PublishPages(k) PROVE StagingExact'
  BY <1>18, PagesExact
<1>19. ASSUME NEW k \in Keys, PublishOffer(k) PROVE StagingExact'
  BY <1>19 DEF PublishOffer
<1>20. ASSUME ToggleFreeze PROVE StagingExact'
  BY <1>20 DEF ToggleFreeze
<1>21. CASE UNCHANGED vars
  BY <1>21 DEF vars
<1> QED
  BY <1>1, <1>2, <1>3, <1>4, <1>5, <1>6, <1>7, <1>8, <1>9, <1>10, <1>11, <1>12, <1>13,
     <1>14, <1>15, <1>16, <1>17, <1>18, <1>19, <1>20, <1>21 DEF Next, CloseStep, ExecStep

\* No step leaves the offer of a cancelled job behind.
LEMMA NoOrphanOfferStep == WorkerInv /\ [Next]_vars => NoOrphanOffer'
<1> SUFFICES ASSUME WorkerInv, [Next]_vars PROVE NoOrphanOffer'
  OBVIOUS
<1> USE WorkerAssumption DEF WorkerInv, WorkerTypes, NoOrphanOffer, NotYetPublic, InJobs, Idle
<1>1. ASSUME NEW k \in Keys, CaptureDuplicate(k) PROVE NoOrphanOffer'
  BY <1>1 DEF CaptureDuplicate, Tell
<1>2. ASSUME NEW k \in Keys, Capture(k) PROVE NoOrphanOffer'
  BY <1>2 DEF Capture, Tell
<1>3. ASSUME NEW k \in Keys, Seal(k) PROVE NoOrphanOffer'
  BY <1>3, SealKeeps
<1>4. ASSUME NEW k \in Keys, Deadline(k) PROVE NoOrphanOffer'
  BY <1>4 DEF Deadline
<1>5. ASSUME NEW k \in Keys, Evict(k) PROVE NoOrphanOffer'
  BY <1>5 DEF Evict
<1>6. ASSUME NEW S \in CancelArguments, CancelForget(S) PROVE NoOrphanOffer'
  BY <1>6, CancelKeys DEF CancelForget
<1>7. ASSUME NEW S \in CancelArguments, LookupForget(S) PROVE NoOrphanOffer'
  BY <1>7, CancelKeys DEF LookupForget
<1>8. ASSUME NEW l \in Loads, BeginRestore(l) PROVE NoOrphanOffer'
  BY <1>8 DEF BeginRestore
<1>9. ASSUME NEW l \in Loads, HoldRestore(l) PROVE NoOrphanOffer'
  BY <1>9 DEF HoldRestore
<1>10. ASSUME NEW l \in Loads, ReleaseRestore(l) PROVE NoOrphanOffer'
  BY <1>10 DEF ReleaseRestore, RestoreOwned
<1>11. ASSUME Poll PROVE NoOrphanOffer'
  BY <1>11, PollKeeps
<1>12. ASSUME CloseBegin PROVE NoOrphanOffer'
  BY <1>12 DEF CloseBegin
<1>13. ASSUME CancelMark PROVE NoOrphanOffer'
  BY <1>13, MarkKeeps DEF CancelMark
<1>14. ASSUME NEW k \in Keys, CloseCancel(k) PROVE NoOrphanOffer'
  BY <1>14 DEF CloseCancel
<1>15. ASSUME CloseMark PROVE NoOrphanOffer'
  BY <1>15, MarkKeeps DEF CloseMark
<1>16. ASSUME CloseShutdown PROVE NoOrphanOffer'
  BY <1>16, PollKeeps
<1>17. ASSUME PublishStart PROVE NoOrphanOffer'
  BY <1>17 DEF PublishStart
<1>18. ASSUME NEW k \in Keys, PublishPages(k) PROVE NoOrphanOffer'
  BY <1>18 DEF PublishPages
<1>19. ASSUME NEW k \in Keys, PublishOffer(k) PROVE NoOrphanOffer'
  BY <1>19 DEF PublishOffer
<1>20. ASSUME ToggleFreeze PROVE NoOrphanOffer'
  BY <1>20 DEF ToggleFreeze
<1>21. CASE UNCHANGED vars
  BY <1>21 DEF vars
<1> QED
  BY <1>1, <1>2, <1>3, <1>4, <1>5, <1>6, <1>7, <1>8, <1>9, <1>10, <1>11, <1>12, <1>13,
     <1>14, <1>15, <1>16, <1>17, <1>18, <1>19, <1>20, <1>21 DEF Next, CloseStep, ExecStep

\* Every step reports to the scheduler in order.
LEMMA ToldInOrderStep == WorkerInv /\ [Next]_vars => ToldInOrder'
<1> SUFFICES ASSUME WorkerInv, [Next]_vars PROVE ToldInOrder'
  OBVIOUS
<1> USE WorkerAssumption DEF WorkerInv, WorkerTypes, ToldInOrder, InJobs, Idle
<1>1. ASSUME NEW k \in Keys, CaptureDuplicate(k) PROVE ToldInOrder'
  BY <1>1 DEF CaptureDuplicate, Tell
<1>2. ASSUME NEW k \in Keys, Capture(k) PROVE ToldInOrder'
  BY <1>2, CaptureKeeps
<1>3. ASSUME NEW k \in Keys, Seal(k) PROVE ToldInOrder'
  BY <1>3, SealKeeps
<1>4. ASSUME NEW k \in Keys, Deadline(k) PROVE ToldInOrder'
  BY <1>4 DEF Deadline
<1>5. ASSUME NEW k \in Keys, Evict(k) PROVE ToldInOrder'
  BY <1>5 DEF Evict
<1>6. ASSUME NEW S \in CancelArguments, CancelForget(S) PROVE ToldInOrder'
  BY <1>6, CancelKeys DEF CancelForget
<1>7. ASSUME NEW S \in CancelArguments, LookupForget(S) PROVE ToldInOrder'
  BY <1>7, CancelKeys DEF LookupForget
<1>8. ASSUME NEW l \in Loads, BeginRestore(l) PROVE ToldInOrder'
  BY <1>8 DEF BeginRestore
<1>9. ASSUME NEW l \in Loads, HoldRestore(l) PROVE ToldInOrder'
  BY <1>9 DEF HoldRestore
<1>10. ASSUME NEW l \in Loads, ReleaseRestore(l) PROVE ToldInOrder'
  BY <1>10 DEF ReleaseRestore, RestoreOwned
<1>11. ASSUME Poll PROVE ToldInOrder'
  BY <1>11, PollKeeps
<1>12. ASSUME CloseBegin PROVE ToldInOrder'
  BY <1>12 DEF CloseBegin
<1>13. ASSUME CancelMark PROVE ToldInOrder'
  BY <1>13, MarkKeeps DEF CancelMark
<1>14. ASSUME NEW k \in Keys, CloseCancel(k) PROVE ToldInOrder'
  BY <1>14 DEF CloseCancel
<1>15. ASSUME CloseMark PROVE ToldInOrder'
  BY <1>15, MarkKeeps DEF CloseMark
<1>16. ASSUME CloseShutdown PROVE ToldInOrder'
  BY <1>16, PollKeeps
<1>17. ASSUME PublishStart PROVE ToldInOrder'
  BY <1>17, StartKeeps
<1>18. ASSUME NEW k \in Keys, PublishPages(k) PROVE ToldInOrder'
  BY <1>18 DEF PublishPages
<1>19. ASSUME NEW k \in Keys, PublishOffer(k) PROVE ToldInOrder'
  BY <1>19 DEF PublishOffer
<1>20. ASSUME ToggleFreeze PROVE ToldInOrder'
  BY <1>20 DEF ToggleFreeze
<1>21. CASE UNCHANGED vars
  BY <1>21 DEF vars
<1> QED
  BY <1>1, <1>2, <1>3, <1>4, <1>5, <1>6, <1>7, <1>8, <1>9, <1>10, <1>11, <1>12, <1>13,
     <1>14, <1>15, <1>16, <1>17, <1>18, <1>19, <1>20, <1>21 DEF Next, CloseStep, ExecStep

\* No step says "ready" of a cancelled or failed generation, or twice.
LEMMA ReadyIsFinalStep == WorkerInv /\ [Next]_vars => ReadyIsFinal'
<1> SUFFICES ASSUME WorkerInv, [Next]_vars PROVE ReadyIsFinal'
  OBVIOUS
<1> USE WorkerAssumption DEF WorkerInv, WorkerTypes, ReadyIsFinal, ToldInOrder, InJobs, Idle
<1>1. ASSUME NEW k \in Keys, CaptureDuplicate(k) PROVE ReadyIsFinal'
  BY <1>1, DuplicateReady
<1>2. ASSUME NEW k \in Keys, Capture(k) PROVE ReadyIsFinal'
  BY <1>2, CaptureKeeps
<1>3. ASSUME NEW k \in Keys, Seal(k) PROVE ReadyIsFinal'
  BY <1>3, SealKeeps
<1>4. ASSUME NEW k \in Keys, Deadline(k) PROVE ReadyIsFinal'
  BY <1>4 DEF Deadline
<1>5. ASSUME NEW k \in Keys, Evict(k) PROVE ReadyIsFinal'
  BY <1>5 DEF Evict
<1>6. ASSUME NEW S \in CancelArguments, CancelForget(S) PROVE ReadyIsFinal'
  BY <1>6, CancelKeys DEF CancelForget
<1>7. ASSUME NEW S \in CancelArguments, LookupForget(S) PROVE ReadyIsFinal'
  BY <1>7, CancelKeys DEF LookupForget
<1>8. ASSUME NEW l \in Loads, BeginRestore(l) PROVE ReadyIsFinal'
  BY <1>8 DEF BeginRestore
<1>9. ASSUME NEW l \in Loads, HoldRestore(l) PROVE ReadyIsFinal'
  BY <1>9 DEF HoldRestore
<1>10. ASSUME NEW l \in Loads, ReleaseRestore(l) PROVE ReadyIsFinal'
  BY <1>10 DEF ReleaseRestore, RestoreOwned
<1>11. ASSUME Poll PROVE ReadyIsFinal'
  BY <1>11, PollKeeps
<1>12. ASSUME CloseBegin PROVE ReadyIsFinal'
  BY <1>12 DEF CloseBegin
<1>13. ASSUME CancelMark PROVE ReadyIsFinal'
  BY <1>13, MarkKeeps DEF CancelMark
<1>14. ASSUME NEW k \in Keys, CloseCancel(k) PROVE ReadyIsFinal'
  BY <1>14 DEF CloseCancel
<1>15. ASSUME CloseMark PROVE ReadyIsFinal'
  BY <1>15, MarkKeeps DEF CloseMark
<1>16. ASSUME CloseShutdown PROVE ReadyIsFinal'
  BY <1>16, PollKeeps
<1>17. ASSUME PublishStart PROVE ReadyIsFinal'
  BY <1>17 DEF PublishStart
<1>18. ASSUME NEW k \in Keys, PublishPages(k) PROVE ReadyIsFinal'
  BY <1>18 DEF PublishPages
<1>19. ASSUME NEW k \in Keys, PublishOffer(k) PROVE ReadyIsFinal'
  BY <1>19 DEF PublishOffer
<1>20. ASSUME ToggleFreeze PROVE ReadyIsFinal'
  BY <1>20 DEF ToggleFreeze
<1>21. CASE UNCHANGED vars
  BY <1>21 DEF vars
<1> QED
  BY <1>1, <1>2, <1>3, <1>4, <1>5, <1>6, <1>7, <1>8, <1>9, <1>10, <1>11, <1>12, <1>13,
     <1>14, <1>15, <1>16, <1>17, <1>18, <1>19, <1>20, <1>21 DEF Next, CloseStep, ExecStep

\* No restore begins after close() has, and nothing is left at its end.
LEMMA ClosingSettledStep == WorkerInv /\ [Next]_vars => ClosingSettled'
<1> SUFFICES ASSUME WorkerInv, [Next]_vars PROVE ClosingSettled'
  OBVIOUS
<1> USE WorkerAssumption DEF WorkerInv, WorkerTypes, ClosingSettled, RestoresSettled, InJobs, Idle
<1>1. ASSUME NEW k \in Keys, CaptureDuplicate(k) PROVE ClosingSettled'
  BY <1>1 DEF CaptureDuplicate, Tell
<1>2. ASSUME NEW k \in Keys, Capture(k) PROVE ClosingSettled'
  BY <1>2 DEF Capture, Tell
<1>3. ASSUME NEW k \in Keys, Seal(k) PROVE ClosingSettled'
  BY <1>3 DEF Seal
<1>4. ASSUME NEW k \in Keys, Deadline(k) PROVE ClosingSettled'
  BY <1>4 DEF Deadline
<1>5. ASSUME NEW k \in Keys, Evict(k) PROVE ClosingSettled'
  BY <1>5 DEF Evict
<1>6. ASSUME NEW S \in CancelArguments, CancelForget(S) PROVE ClosingSettled'
  BY <1>6, CancelKeys DEF CancelForget
<1>7. ASSUME NEW S \in CancelArguments, LookupForget(S) PROVE ClosingSettled'
  BY <1>7, CancelKeys DEF LookupForget
<1>8. ASSUME NEW l \in Loads, BeginRestore(l) PROVE ClosingSettled'
  BY <1>8 DEF BeginRestore
<1>9. ASSUME NEW l \in Loads, HoldRestore(l) PROVE ClosingSettled'
  BY <1>9 DEF HoldRestore
<1>10. ASSUME NEW l \in Loads, ReleaseRestore(l) PROVE ClosingSettled'
  BY <1>10 DEF ReleaseRestore, RestoreOwned
<1>11. ASSUME Poll PROVE ClosingSettled'
  BY <1>11 DEF Poll
<1>12. ASSUME CloseBegin PROVE ClosingSettled'
  BY <1>12 DEF CloseBegin
<1>13. ASSUME CancelMark PROVE ClosingSettled'
  BY <1>13 DEF CancelMark, Mark, Remove, NoFuture
<1>14. ASSUME NEW k \in Keys, CloseCancel(k) PROVE ClosingSettled'
  BY <1>14 DEF CloseCancel
<1>15. ASSUME CloseMark PROVE ClosingSettled'
  BY <1>15 DEF CloseMark, Mark, Remove, NoFuture
<1>16. ASSUME CloseShutdown PROVE ClosingSettled'
  <2>1. RestoresSettled'
    BY <1>16 DEF CloseShutdown
  <2>2. main'.pc = "down" => Fenced = {}
    BY <1>16 DEF CloseShutdown, MainType
  <2> QED
    BY <1>16, <2>1, <2>2, ShutdownEmpties
<1>17. ASSUME PublishStart PROVE ClosingSettled'
  BY <1>17 DEF PublishStart
<1>18. ASSUME NEW k \in Keys, PublishPages(k) PROVE ClosingSettled'
  BY <1>18 DEF PublishPages
<1>19. ASSUME NEW k \in Keys, PublishOffer(k) PROVE ClosingSettled'
  BY <1>19 DEF PublishOffer
<1>20. ASSUME ToggleFreeze PROVE ClosingSettled'
  BY <1>20 DEF ToggleFreeze
<1>21. CASE UNCHANGED vars
  BY <1>21 DEF vars
<1> QED
  BY <1>1, <1>2, <1>3, <1>4, <1>5, <1>6, <1>7, <1>8, <1>9, <1>10, <1>11, <1>12, <1>13,
     <1>14, <1>15, <1>16, <1>17, <1>18, <1>19, <1>20, <1>21 DEF Next, CloseStep, ExecStep

-----------------------------------------------------------------------------
(* The theorems *)

\* The worker starts with an empty table.
LEMMA WorkerInit == Init => WorkerInv
<1> SUFFICES ASSUME Init PROVE WorkerInv
  OBVIOUS
<1>1. WorkerTypes /\ MainType
  BY DEF Init, WorkerTypes, MainType, Stages, Statuses
<1>2. \A k \in Keys : HeldBy(k) = {} /\ k \notin InJobs /\ k \notin cached /\ refs[k] = 0
  BY DEF Init, HeldBy, InJobs
<1>3. StagingExact
  <2> SUFFICES ASSUME NEW k \in Keys PROVE Exact(k)
    BY ExactForm
  <2>1. Cardinality(HeldBy(k)) = 0
    BY <1>2, HeldFinite
  <2> QED  BY <1>2, <2>1 DEF Exact
<1>4. QueueOnce /\ ToldInOrder /\ ReadyIsFinal
  <2>1. \A k \in Keys : told[k] = <<>> /\ DOMAIN told[k] = {}
    BY DEF Init
  <2> QED  BY <2>1 DEF Init, QueueOnce, ToldInOrder, ReadyIsFinal
<1>5. NotYetPublic /\ NoOrphanOffer /\ ClosingSettled
  BY <1>2 DEF Init, NotYetPublic, NoOrphanOffer, ClosingSettled
<1> QED  BY <1>1, <1>3, <1>4, <1>5 DEF WorkerInv

\* The parts of the invariant hold together in every reachable state.
LEMMA WorkerCorrect == Spec => []WorkerInv
<1>1. WorkerInv /\ [Next]_vars => WorkerInv'
  <2> SUFFICES ASSUME WorkerInv, [Next]_vars PROVE WorkerInv'
    OBVIOUS
  <2>1. WorkerTypes' /\ MainType' /\ QueueOnce' /\ NotYetPublic' /\ StagingExact'
    BY WorkerTypesStep, MainTypeStep, QueueOnceStep, NotYetPublicStep, StagingExactStep
  <2>2. NoOrphanOffer' /\ ToldInOrder' /\ ReadyIsFinal' /\ ClosingSettled'
    BY NoOrphanOfferStep, ToldInOrderStep, ReadyIsFinalStep, ClosingSettledStep
  <2> QED  BY <2>1, <2>2 DEF WorkerInv
<1> QED  BY <1>1, WorkerInit, PTL DEF Spec

\* In every reachable state fragments have exactly their owners, and after close()
\* the cache is the only one: whatever captures, cancellations, deadlines, polls,
\* restores and evictions came between.
THEOREM StagingAlwaysSettled == Spec => []StagingSettled
<1>1. WorkerInv => StagingSettled
  <2> SUFFICES ASSUME WorkerInv PROVE StagingSettled
    OBVIOUS
  <2>1. StagingExact
    BY DEF WorkerInv
  <2>2. ClosedClean
    <3> SUFFICES ASSUME main.pc = "down", NEW k \in Keys
        PROVE InJobs = {} /\ queue = <<>> /\ refs[k] = IF k \in cached THEN 1 ELSE 0
      BY DEF ClosedClean, WorkerInv, ClosingSettled
    <3>1. InJobs = {} /\ queue = <<>> /\ RestoresSettled
      BY DEF WorkerInv, ClosingSettled
    <3>2. HeldBy(k) = {}
      BY <3>1 DEF RestoresSettled, HeldBy
    <3>3. Exact(k) /\ Cardinality(HeldBy(k)) = 0
      BY <2>1, <3>2, ExactForm, HeldFinite
    <3> QED  BY <3>1, <3>3 DEF Exact
  <2> QED  BY <2>1, <2>2 DEF StagingSettled
<1> QED  BY <1>1, WorkerCorrect, PTL

\* In every reachable state a generation that was cancelled or reported failed has
\* no offer once its job is gone and was not reported ready, and "ready" is said once.
THEOREM CancellationIsFinal == Spec => []CancelIsFinal
<1>1. WorkerInv => CancelIsFinal
  BY DEF WorkerInv, CancelIsFinal
<1> QED  BY <1>1, WorkerCorrect, PTL

=============================================================================
