------------------------ MODULE SharedRetrieveProofs ------------------------
(***************************************************************************)
(* Theorems about the shared loads: pages, pins, views and cache entries   *)
(* balance on every path; an agreement tells every rank what all ranks     *)
(* brought to it; and the views a rank keeps are backed by its leader.     *)
(***************************************************************************)
EXTENDS SharedRetrieve, Integers, TLAPS

-----------------------------------------------------------------------------
(***************************************************************************)
(* Threads.                                                                *)
(***************************************************************************)

\* A thread is one of a rank, a request and a group; all ranks have it.
LEMMA ThreadParts ==
    ASSUME NEW t \in Threads
    PROVE  /\ Rank(t) \in Ranks /\ Req(t) \in Requests /\ Group(t) \in {0, 1}
           /\ t = <<Rank(t), Req(t), Group(t)>>
           /\ \A k \in Ranks : <<k, Req(t), Group(t)>> \in Threads
BY DEF Threads, Rank, Req, Group

\* No step changes which requests there are, or what their caches held.
LEMMA RequestsFixed ==
    ASSUME [Next]_vars
    PROVE  UNCHANGED <<kind, prefix>>
<1>1. ASSUME NEW t \in Threads, Step(t) PROVE UNCHANGED <<kind, prefix>>
  <2>1. CASE Dequeue(t) \/ PrepareRestore(t) \/ ReceiveRestore(t) \/ Decide(t) \/ LeaderAgree(t)
             \/ PassiveAgree(t)
    BY <2>1 DEF Dequeue, PrepareRestore, ReceiveRestore, Decide, LeaderAgree, PassiveAgree
  <2>2. CASE FindChunks(t) \/ Probe(t) \/ Capacity(t) \/ FetchPages(t) \/ PinPages(t) \/ Prepare(t)
             \/ BroadcastRefusal(t)
    BY <2>2 DEF FindChunks, Probe, Capacity, FetchPages, PinPages, Prepare, BroadcastRefusal
  <2>3. CASE PublishLayer(t) \/ MoveLayer(t) \/ CloseLoad(t) \/ FinishLoad(t) \/ LoadDirect(t)
    BY <2>3 DEF PublishLayer, MoveLayer, CloseLoad, FinishLoad, LoadDirect
  <2>4. CASE ReceiveLayer(t) \/ MoveView(t) \/ ReceiveFinal(t) \/ CommitViews(t) \/ GiveUp(t)
    BY <2>4 DEF ReceiveLayer, MoveView, ReceiveFinal, CommitViews, GiveUp
  <2> QED
    BY <1>1, <2>1, <2>2, <2>3, <2>4 DEF Step
<1>2. ASSUME NEW p \in Passives, ServeAgreement(p) PROVE UNCHANGED <<kind, prefix>>
  BY <1>2 DEF ServeAgreement, loadVars
<1>3. CASE UNCHANGED vars
  BY <1>3 DEF vars, loadVars
<1> QED
  BY <1>1, <1>2, <1>3 DEF Next

\* Hence the threads and their parts stay.
LEMMA ThreadsFixed ==
    ASSUME UNCHANGED <<kind, prefix>>
    PROVE  /\ Threads' = Threads /\ Requests' = Requests
           /\ \A t : Shared(t)' = Shared(t) /\ IsPassive(t)' = IsPassive(t)
BY DEF Threads, Requests, Groups, Shared, IsPassive, Req, Group, Leads, Rank

-----------------------------------------------------------------------------
(***************************************************************************)
(* Types of what a thread keeps for itself.                                *)
(***************************************************************************)

Early == {"queued", "gate", "decide", "agree", "announced", "reducing", "awaiting", "restore"}
OwnerOnly == {"find", "probe", "capacity", "fetch", "pin", "prepare", "refuse", "direct", "publish",
              "finish", "closing"}
ViewOnly == {"receive", "final", "drain", "commit"}

LoadTypes ==
    /\ kind \in Seq({"checkpoint", "plain", "direct", "fill"})
    /\ prefix \in [Requests -> 0..Chunks]
    /\ DOMAIN pc = Threads /\ DOMAIN layer = Threads
    /\ DOMAIN known = Threads /\ DOMAIN cached = Threads
    /\ DOMAIN refs = Threads /\ DOMAIN pins = Threads /\ DOMAIN due = Threads
    /\ ready \in [Threads -> BOOLEAN] /\ DOMAIN agreed = Threads

\* Every step keeps them.
LEMMA LoadTypesStep ==
    ASSUME LoadTypes, [Next]_vars
    PROVE  LoadTypes'
<1>0. UNCHANGED <<kind, prefix>> /\ Threads' = Threads /\ Requests' = Requests
  BY RequestsFixed, ThreadsFixed
<1>1. ASSUME NEW t \in Threads, Step(t) PROVE LoadTypes'
  <2>1. CASE Dequeue(t)
    BY <1>0, <2>1 DEF LoadTypes, Dequeue, Goto
  <2>2. CASE PrepareRestore(t)
    BY <1>0, <2>2 DEF LoadTypes, PrepareRestore, Goto, Fail
  <2>3. CASE ReceiveRestore(t)
    BY <1>0, <2>3 DEF LoadTypes, ReceiveRestore, Goto
  <2>4. CASE Decide(t)
    BY <1>0, <2>4 DEF LoadTypes, Decide, Goto, Outcome, ReadPrefix, Fail
  <2>5. CASE LeaderAgree(t)
    BY <1>0, <2>5 DEF LoadTypes, LeaderAgree, Goto, Settle, AfterAgreement, Announce,
       LeaderReduce, LeaderReduced, EnterReduction
  <2>6. CASE PassiveAgree(t)
    BY <1>0, <2>6 DEF LoadTypes, PassiveAgree, Goto, Settle, AfterAgreement
  <2>7. CASE FindChunks(t)
    BY <1>0, <2>7 DEF LoadTypes, FindChunks, Goto, RecordChunks, Fail, Raise, Rollback
  <2>8. CASE Probe(t)
    BY <1>0, <2>8 DEF LoadTypes, Probe, Goto, Fail, Refuse, Raise, Rollback
  <2>9. CASE Capacity(t)
    BY <1>0, <2>9 DEF LoadTypes, Capacity, Goto, Fail, Refuse, Raise, Rollback, Release,
       DropDue
  <2>10. CASE FetchPages(t)
    BY <1>0, <2>10 DEF LoadTypes, FetchPages, Goto
  <2>11. CASE PinPages(t)
    BY <1>0, <2>11 DEF LoadTypes, PinPages, Goto, Fail, Refuse, Raise, Rollback, Release,
       DropDue
  <2>12. CASE Prepare(t)
    BY <1>0, <2>12 DEF LoadTypes, Prepare, Goto, AppendToCache, Refuse, Raise, Rollback,
       Release, DropDue
  <2>13. CASE BroadcastRefusal(t)
    BY <1>0, <2>13 DEF LoadTypes, BroadcastRefusal, Goto, Raise, Rollback
  <2>14. CASE PublishLayer(t)
    BY <1>0, <2>14 DEF LoadTypes, PublishLayer, Goto, Release, DropDue, Fail
  <2>15. CASE MoveLayer(t)
    BY <1>0, <2>15 DEF LoadTypes, MoveLayer, Goto, Fail
  <2>16. CASE CloseLoad(t)
    BY <1>0, <2>16 DEF LoadTypes, CloseLoad, Goto, Release, DropDue, Raise, Rollback
  <2>17. CASE FinishLoad(t)
    BY <1>0, <2>17 DEF LoadTypes, FinishLoad, Goto
  <2>18. CASE LoadDirect(t)
    BY <1>0, <2>18 DEF LoadTypes, LoadDirect, Goto, Fail, Raise, Rollback
  <2>19. CASE ReceiveLayer(t)
    BY <1>0, <2>19 DEF LoadTypes, ReceiveLayer, Goto, MakeViews, RecordChunks, Release,
       DropDue, Raise, Rollback, Unusable, Fail
  <2>20. CASE MoveView(t)
    BY <1>0, <2>20 DEF LoadTypes, MoveView, Goto, Release, DropDue, Raise, Rollback, Fail
  <2>21. CASE ReceiveFinal(t)
    BY <1>0, <2>21 DEF LoadTypes, ReceiveFinal, Goto, Release, DropDue, Raise, Rollback
  <2>22. CASE CommitViews(t)
    BY <1>0, <2>22 DEF LoadTypes, CommitViews, Goto, AppendToCache, Release, DropDue, Raise,
       Rollback, Fail
  <2>23. CASE GiveUp(t)
    BY <1>0, <2>23 DEF LoadTypes, GiveUp, Goto, Release, DropDue, Raise, Rollback
  <2> QED
    BY <1>1, <2>1, <2>2, <2>3, <2>4, <2>5, <2>6, <2>7, <2>8, <2>9, <2>10, <2>11, <2>12, <2>13,
       <2>14, <2>15, <2>16, <2>17, <2>18, <2>19, <2>20, <2>21, <2>22, <2>23 DEF Step
<1>2. ASSUME NEW p \in Passives, ServeAgreement(p) PROVE LoadTypes'
  BY <1>0, <1>2 DEF ServeAgreement, loadVars, LoadTypes
<1>3. CASE UNCHANGED vars
  BY <1>0, <1>3 DEF vars, loadVars, LoadTypes
<1> QED
  BY <1>1, <1>2, <1>3 DEF Next

-----------------------------------------------------------------------------
(***************************************************************************)
(* A thread changes only what it keeps for itself.                         *)
(***************************************************************************)

Same(u) ==
    /\ pc'[u] = pc[u] /\ layer'[u] = layer[u]
    /\ known'[u] = known[u] /\ cached'[u] = cached[u]
    /\ refs'[u] = refs[u] /\ pins'[u] = pins[u] /\ due'[u] = due[u]
    /\ ready'[u] = ready[u] /\ agreed'[u] = agreed[u]

\* A step of one thread leaves the records of all others alone.
LEMMA OthersSame ==
    ASSUME LoadTypes, NEW t \in Threads, Step(t), NEW u \in Threads, u # t
    PROVE  Same(u)
<1>1. CASE Dequeue(t)
  BY <1>1 DEF LoadTypes, Same, Dequeue, Goto
<1>2. CASE PrepareRestore(t)
  BY <1>2 DEF LoadTypes, Same, PrepareRestore, Goto, Fail
<1>3. CASE ReceiveRestore(t)
  BY <1>3 DEF LoadTypes, Same, ReceiveRestore, Goto
<1>4. CASE Decide(t)
  BY <1>4 DEF LoadTypes, Same, Decide, Goto, Outcome, ReadPrefix, Fail
<1>5. CASE LeaderAgree(t)
  BY <1>5 DEF LoadTypes, Same, LeaderAgree, Goto, Settle, AfterAgreement, Announce,
     LeaderReduce, LeaderReduced, EnterReduction
<1>6. CASE PassiveAgree(t)
  BY <1>6 DEF LoadTypes, Same, PassiveAgree, Goto, Settle, AfterAgreement
<1>7. CASE FindChunks(t)
  BY <1>7 DEF LoadTypes, Same, FindChunks, Goto, RecordChunks, Fail, Raise, Rollback
<1>8. CASE Probe(t)
  BY <1>8 DEF LoadTypes, Same, Probe, Goto, Fail, Refuse, Raise, Rollback
<1>9. CASE Capacity(t)
  BY <1>9 DEF LoadTypes, Same, Capacity, Goto, Fail, Refuse, Raise, Rollback, Release, DropDue
<1>10. CASE FetchPages(t)
  BY <1>10 DEF LoadTypes, Same, FetchPages, Goto
<1>11. CASE PinPages(t)
  BY <1>11 DEF LoadTypes, Same, PinPages, Goto, Fail, Refuse, Raise, Rollback, Release,
     DropDue
<1>12. CASE Prepare(t)
  BY <1>12 DEF LoadTypes, Same, Prepare, Goto, AppendToCache, Refuse, Raise, Rollback,
     Release, DropDue
<1>13. CASE BroadcastRefusal(t)
  BY <1>13 DEF LoadTypes, Same, BroadcastRefusal, Goto, Raise, Rollback
<1>14. CASE PublishLayer(t)
  BY <1>14 DEF LoadTypes, Same, PublishLayer, Goto, Release, DropDue, Fail
<1>15. CASE MoveLayer(t)
  BY <1>15 DEF LoadTypes, Same, MoveLayer, Goto, Fail
<1>16. CASE CloseLoad(t)
  BY <1>16 DEF LoadTypes, Same, CloseLoad, Goto, Release, DropDue, Raise, Rollback
<1>17. CASE FinishLoad(t)
  BY <1>17 DEF LoadTypes, Same, FinishLoad, Goto
<1>18. CASE LoadDirect(t)
  BY <1>18 DEF LoadTypes, Same, LoadDirect, Goto, Fail, Raise, Rollback
<1>19. CASE ReceiveLayer(t)
  BY <1>19 DEF LoadTypes, Same, ReceiveLayer, Goto, MakeViews, RecordChunks, Release, DropDue,
     Raise, Rollback, Unusable, Fail
<1>20. CASE MoveView(t)
  BY <1>20 DEF LoadTypes, Same, MoveView, Goto, Release, DropDue, Raise, Rollback, Fail
<1>21. CASE ReceiveFinal(t)
  BY <1>21 DEF LoadTypes, Same, ReceiveFinal, Goto, Release, DropDue, Raise, Rollback
<1>22. CASE CommitViews(t)
  BY <1>22 DEF LoadTypes, Same, CommitViews, Goto, AppendToCache, Release, DropDue, Raise,
     Rollback, Fail
<1>23. CASE GiveUp(t)
  BY <1>23 DEF LoadTypes, Same, GiveUp, Goto, Release, DropDue, Raise, Rollback
<1> QED
  BY <1>1, <1>2, <1>3, <1>4, <1>5, <1>6, <1>7, <1>8, <1>9, <1>10, <1>11, <1>12, <1>13, <1>14,
     <1>15, <1>16, <1>17, <1>18, <1>19, <1>20, <1>21, <1>22, <1>23 DEF Step

-----------------------------------------------------------------------------
(***************************************************************************)
(* References, pins, views and cache entries, by where the thread is.      *)
(***************************************************************************)

\* Passive ranks of a shared load never walk the owner's path, nor owners theirs.
Role(t) ==
    /\ pc[t] \notin (IF IsPassive(t) THEN OwnerOnly ELSE ViewOnly)
    /\ pc[t] = "direct" => ~Shared(t)

Nothing(t) == refs[t] = 0 /\ pins[t] = 0 /\ due[t] = 0

Counted(t) ==
    /\ known[t] \in Int /\ cached[t] \in Int /\ layer[t] \in Nat
    /\ refs[t] \in Nat /\ pins[t] \in Nat /\ due[t] \in Nat
    /\ prefix[Req(t)] <= known[t] /\ known[t] <= Chunks

\* What an owner, or a rank that has loaded nothing, holds.
OwnerHeld(t) ==
    LET found == known[t] - prefix[Req(t)] IN
    /\ pc[t] \in Early \union {"find", "failed"} =>
         Nothing(t) /\ cached[t] = prefix[Req(t)] /\ known[t] = prefix[Req(t)]
    /\ pc[t] \in {"probe", "fetch", "direct", "refuse"} =>
         Nothing(t) /\ cached[t] = prefix[Req(t)]
    /\ pc[t] \in {"capacity", "pin"} =>
         /\ refs[t] = due[t] /\ pins[t] = 0 /\ cached[t] = prefix[Req(t)]
         /\ 0 <= due[t] /\ due[t] <= found
    /\ pc[t] = "prepare" =>
         refs[t] = found /\ pins[t] = found /\ due[t] = found /\ cached[t] = prefix[Req(t)]
    /\ pc[t] \in {"publish", "finish"} \/ (pc[t] = "move" /\ ~IsPassive(t)) =>
         refs[t] = found /\ pins[t] = found /\ due[t] = found /\ cached[t] = known[t]
    /\ pc[t] = "closing" => refs[t] = due[t] /\ pins[t] = due[t]

\* What a passive rank holds of the views it made.
ViewsHeld(t) ==
    /\ pc[t] \in ViewOnly \/ (pc[t] = "move" /\ IsPassive(t)) =>
         refs[t] = due[t] /\ due[t] >= 0 /\ pins[t] = 0 /\ cached[t] = prefix[Req(t)]
    /\ pc[t] \in {"final", "commit"} \/ (pc[t] = "move" /\ IsPassive(t)) =>
         known[t] = Chunks /\ due[t] >= Chunks - prefix[Req(t)]

\* What is left when the load has succeeded.
DoneHeld(t) ==
    pc[t] = "done" =>
      /\ cached[t] >= prefix[Req(t)] /\ refs[t] >= cached[t] - prefix[Req(t)] /\ pins[t] >= 0
      /\ Shared(t) => cached[t] = known[t]
      /\ Shared(t) /\ ~IsPassive(t) =>
           refs[t] = known[t] - prefix[Req(t)] /\ pins[t] = known[t] - prefix[Req(t)]

Held(t) == Counted(t) /\ OwnerHeld(t) /\ ViewsHeld(t) /\ DoneHeld(t)

LoadsHeld == \A t \in Threads : Role(t) /\ Held(t)

\* The counters of t stay.
Kept(t) ==
    /\ known'[t] = known[t] /\ cached'[t] = cached[t] /\ layer'[t] = layer[t]
    /\ refs'[t] = refs[t] /\ pins'[t] = pins[t] /\ due'[t] = due[t]

\* A thread's own step keeps its record balanced, whatever path it takes.
LEMMA HeldStep ==
    ASSUME LoadTypes, [Next]_vars, NEW t \in Threads, Step(t), Role(t), Held(t)
    PROVE  Role(t)' /\ Held(t)'
<1>0. /\ UNCHANGED <<kind, prefix>> /\ IsPassive(t)' = IsPassive(t) /\ Shared(t)' = Shared(t)
      /\ Req(t) \in Requests /\ prefix[Req(t)] \in Nat /\ prefix[Req(t)] <= Chunks
      /\ Chunks \in Nat /\ (IsPassive(t) => Shared(t)) /\ Layers \in Nat
  BY RequestsFixed, ThreadsFixed, ThreadParts, RetrieveAssumption DEF LoadTypes, IsPassive
<1>h. Role(t) /\ Counted(t) /\ OwnerHeld(t) /\ ViewsHeld(t) /\ DoneHeld(t)
  BY DEF Held
<1> SUFFICES Role(t)' /\ Counted(t)' /\ OwnerHeld(t)' /\ ViewsHeld(t)' /\ DoneHeld(t)'
  BY DEF Held
<1>s. /\ ~IsPassive(t) => StartOf(t) = "find"
      /\ IsPassive(t) => \/ StartOf(t) = "receive"
                         \/ StartOf(t) = "move" /\ prefix[Req(t)] = Chunks
  BY <1>0 DEF StartOf, Missing, Required
<1>c. /\ known[t] \in Int /\ cached[t] \in Int /\ layer[t] \in Nat
      /\ refs[t] \in Nat /\ pins[t] \in Nat /\ due[t] \in Nat
      /\ prefix[Req(t)] <= known[t] /\ known[t] <= Chunks
  BY <1>h DEF Counted
<1>m. /\ Missing(t) \in Int
      /\ pc[t] \in OwnerOnly => ~IsPassive(t) /\ Missing(t) = known[t] - prefix[Req(t)]
      /\ IsPassive(t) => Missing(t) = Chunks - prefix[Req(t)]
      /\ pc[t] \in ViewOnly => IsPassive(t)
  BY <1>0, <1>h DEF Role, Missing, Required, Counted
<1>1. CASE Dequeue(t)
  <2>1. pc[t] = "queued" /\ Kept(t) /\ pc'[t] \in {StartOf(t), "restore"}
    BY <1>0, <1>h, <1>m, <1>1 DEF LoadTypes, Counted, Kept, OwnerOnly, ViewOnly, Dequeue, Goto
  <2> QED
    BY <1>0, <1>h, <1>s, <1>m, <2>1 DEF Kept, Role, Nothing, Counted, OwnerHeld, ViewsHeld,
       DoneHeld, Early, OwnerOnly, ViewOnly
<1>2. CASE PrepareRestore(t)
  <2>1. pc[t] = "restore" /\ Kept(t) /\ pc'[t] \in {StartOf(t), "failed"}
    BY <1>0, <1>h, <1>m, <1>2 DEF LoadTypes, Counted, Kept, OwnerOnly, ViewOnly, PrepareRestore,
       Goto, Fail
  <2> QED
    BY <1>0, <1>h, <1>s, <1>m, <2>1 DEF Kept, Role, Nothing, Counted, OwnerHeld, ViewsHeld,
       DoneHeld, Early, OwnerOnly, ViewOnly
<1>3. CASE ReceiveRestore(t)
  <2>1. Kept(t) /\ (pc'[t] = pc[t] \/ (pc[t] = "restore" /\ pc'[t] \in {StartOf(t), "failed"}))
    BY <1>0, <1>h, <1>m, <1>3 DEF LoadTypes, Counted, Kept, OwnerOnly, ViewOnly, ReceiveRestore,
       Goto
  <2> QED
    BY <1>0, <1>h, <1>s, <1>m, <2>1 DEF Kept, Role, Nothing, Counted, OwnerHeld, ViewsHeld,
       DoneHeld, Early, OwnerOnly, ViewOnly
<1>4. CASE Decide(t)
  BY <1>0, <1>h, <1>s, <1>m, <1>4 DEF LoadTypes, Role, Nothing, Counted, OwnerHeld, ViewsHeld,
     DoneHeld, Early, OwnerOnly, ViewOnly, Decide, Goto, Outcome, ReadPrefix, Fail
<1>5. CASE LeaderAgree(t)
  <2>1. /\ Kept(t) /\ pc[t] \in {"agree", "announced", "reducing"}
      /\ pc'[t] \in {"announced", "reducing", "done", "failed", StartOf(t)}
    BY <1>0, <1>h, <1>m, <1>5 DEF LoadTypes, Counted, Kept, OwnerOnly, ViewOnly, LeaderAgree,
       Goto, Settle, AfterAgreement, Announce, LeaderReduce, LeaderReduced, EnterReduction
  <2> QED
    BY <1>0, <1>h, <1>s, <1>m, <2>1 DEF Kept, Role, Nothing, Counted, OwnerHeld, ViewsHeld,
       DoneHeld, Early, OwnerOnly, ViewOnly
<1>6. CASE PassiveAgree(t)
  <2>1. /\ Kept(t) /\ pc[t] \in {"agree", "awaiting"}
      /\ pc'[t] \in {"awaiting", "done", "failed", StartOf(t)}
    BY <1>0, <1>h, <1>m, <1>6 DEF LoadTypes, Counted, Kept, OwnerOnly, ViewOnly, PassiveAgree,
       Goto, Settle, AfterAgreement
  <2> QED
    BY <1>0, <1>h, <1>s, <1>m, <2>1 DEF Kept, Role, Nothing, Counted, OwnerHeld, ViewsHeld,
       DoneHeld, Early, OwnerOnly, ViewOnly
<1>7. CASE FindChunks(t)
  <2>1. /\ pc[t] = "find" /\ UNCHANGED <<layer, refs, pins, due>>
      /\ \/ /\ known'[t] \in prefix[Req(t)]..Chunks /\ cached'[t] = cached[t]
            /\ \/ pc'[t] = "publish" /\ known'[t] = prefix[Req(t)]
               \/ pc'[t] = "probe" \/ (pc'[t] = "direct" /\ ~Shared(t))
         \/ pc'[t] = "failed" /\ known'[t] = prefix[Req(t)] /\ cached'[t] = prefix[Req(t)]
    BY <1>0, <1>h, <1>m, <1>7 DEF LoadTypes, Counted, Kept, OwnerOnly, ViewOnly, FindChunks,
       Goto, RecordChunks, Fail, Raise, Rollback, Located, Candidates
  <2>2. /\ ~IsPassive(t) /\ Nothing(t) /\ cached[t] = prefix[Req(t)]
        /\ Missing(t) = known[t] - prefix[Req(t)]
    BY <1>0, <1>h, <1>m, <2>1 DEF Role, Nothing, OwnerHeld, ViewsHeld, OwnerOnly, ViewOnly
  <2>3. Role(t)'
    BY <1>0, <2>1, <2>2 DEF Role, Kept, OwnerOnly, ViewOnly
  <2>4. Counted(t)'
    BY <1>0, <1>c, <2>1, <2>2 DEF Kept, Counted, Nothing
  <2>5. OwnerHeld(t)'
    BY <1>0, <1>c, <2>1, <2>2 DEF Kept, OwnerHeld, Nothing, Early
  <2>6. ViewsHeld(t)'
    BY <1>0, <1>c, <2>1, <2>2 DEF Kept, ViewsHeld, Nothing, ViewOnly
  <2>7. DoneHeld(t)'
    BY <1>0, <1>c, <2>1, <2>2 DEF Kept, DoneHeld, Nothing
  <2> QED
    BY <2>3, <2>4, <2>5, <2>6, <2>7
<1>8. CASE Probe(t)
  <2>1. /\ pc[t] = "probe" /\ UNCHANGED <<layer, pins>>
      /\ \/ /\ pc'[t] = "capacity" /\ known'[t] = known[t] /\ cached'[t] = cached[t]
            /\ refs'[t] = refs[t] + due'[t] /\ due'[t] \in {0, known[t] - prefix[Req(t)]}
         \/ /\ refs' = refs /\ due' = due
            /\ \/ pc'[t] = "refuse" /\ known'[t] = known[t] /\ cached'[t] = cached[t]
               \/ pc'[t] = "failed" /\ known'[t] = prefix[Req(t)] /\ cached'[t] = prefix[Req(t)]
    BY <1>0, <1>h, <1>m, <1>8 DEF LoadTypes, Counted, Kept, OwnerOnly, ViewOnly, Probe, Goto,
       Fail, Refuse, Raise, Rollback
  <2>2. /\ ~IsPassive(t) /\ Nothing(t) /\ cached[t] = prefix[Req(t)]
        /\ Missing(t) = known[t] - prefix[Req(t)]
    BY <1>0, <1>h, <1>m, <2>1 DEF Role, Nothing, OwnerHeld, ViewsHeld, OwnerOnly, ViewOnly
  <2>3. Role(t)'
    BY <1>0, <2>1, <2>2 DEF Role, Kept, OwnerOnly, ViewOnly
  <2>4. Counted(t)'
    BY <1>0, <1>c, <2>1, <2>2 DEF Kept, Counted, Nothing
  <2>5. OwnerHeld(t)'
    BY <1>0, <1>c, <2>1, <2>2 DEF Kept, OwnerHeld, Nothing, Early
  <2>6. ViewsHeld(t)'
    BY <1>0, <1>c, <2>1, <2>2 DEF Kept, ViewsHeld, Nothing, ViewOnly
  <2>7. DoneHeld(t)'
    BY <1>0, <1>c, <2>1, <2>2 DEF Kept, DoneHeld, Nothing
  <2> QED
    BY <2>3, <2>4, <2>5, <2>6, <2>7
<1>9. CASE Capacity(t)
  <2>1. /\ pc[t] = "capacity" /\ UNCHANGED layer
      /\ refs'[t] = refs[t] - due[t] /\ pins'[t] = pins[t] - 0 /\ due'[t] = 0
      /\ \/ pc'[t] = "fetch" /\ known'[t] = known[t] /\ cached'[t] = cached[t]
         \/ pc'[t] = "refuse" /\ known'[t] = known[t] /\ cached'[t] = cached[t]
         \/ pc'[t] = "failed" /\ known'[t] = prefix[Req(t)] /\ cached'[t] = prefix[Req(t)]
    BY <1>0, <1>h, <1>m, <1>9 DEF LoadTypes, Counted, Kept, OwnerOnly, ViewOnly, Capacity, Goto,
       Fail, Refuse, Raise, Rollback, Release, DropDue
  <2>2. /\ ~IsPassive(t) /\ refs[t] = due[t] /\ pins[t] = 0 /\ cached[t] = prefix[Req(t)]
        /\ 0 <= due[t] /\ due[t] <= known[t] - prefix[Req(t)]
        /\ Missing(t) = known[t] - prefix[Req(t)]
    BY <1>0, <1>h, <1>m, <2>1 DEF Role, Nothing, OwnerHeld, ViewsHeld, OwnerOnly, ViewOnly
  <2>3. Role(t)'
    BY <1>0, <2>1, <2>2 DEF Role, Kept, OwnerOnly, ViewOnly
  <2>4. Counted(t)'
    BY <1>0, <1>c, <2>1, <2>2 DEF Kept, Counted, Nothing
  <2>5. OwnerHeld(t)'
    BY <1>0, <1>c, <2>1, <2>2 DEF Kept, OwnerHeld, Nothing, Early
  <2>6. ViewsHeld(t)'
    BY <1>0, <1>c, <2>1, <2>2 DEF Kept, ViewsHeld, Nothing, ViewOnly
  <2>7. DoneHeld(t)'
    BY <1>0, <1>c, <2>1, <2>2 DEF Kept, DoneHeld, Nothing
  <2> QED
    BY <2>3, <2>4, <2>5, <2>6, <2>7
<1>10. CASE FetchPages(t)
  BY <1>0, <1>h, <1>s, <1>m, <1>10 DEF LoadTypes, Role, Nothing, Counted, OwnerHeld,
     ViewsHeld, DoneHeld, Early, OwnerOnly, ViewOnly, FetchPages, Goto
<1>11. CASE PinPages(t)
  <2>1. /\ pc[t] = "pin" /\ UNCHANGED layer
      /\ \/ /\ pc'[t] = "prepare" /\ UNCHANGED <<known, cached>>
            /\ refs'[t] = refs[t] + (Missing(t) - due[t])
            /\ pins'[t] = pins[t] + Missing(t) /\ due'[t] = Missing(t)
         \/ /\ refs'[t] = refs[t] - due[t] /\ pins'[t] = pins[t] - 0 /\ due'[t] = 0
            /\ \/ pc'[t] = "refuse" /\ known'[t] = known[t] /\ cached'[t] = cached[t]
               \/ pc'[t] = "failed" /\ known'[t] = prefix[Req(t)] /\ cached'[t] = prefix[Req(t)]
    BY <1>0, <1>h, <1>m, <1>11 DEF LoadTypes, Counted, Kept, OwnerOnly, ViewOnly, PinPages, Goto,
       Fail, Refuse, Raise, Rollback, Release, DropDue
  <2>2. /\ ~IsPassive(t) /\ refs[t] = due[t] /\ pins[t] = 0 /\ cached[t] = prefix[Req(t)]
        /\ 0 <= due[t] /\ due[t] <= known[t] - prefix[Req(t)]
        /\ Missing(t) = known[t] - prefix[Req(t)]
    BY <1>0, <1>h, <1>m, <2>1 DEF Role, Nothing, OwnerHeld, ViewsHeld, OwnerOnly, ViewOnly
  <2>3. Role(t)'
    BY <1>0, <2>1, <2>2 DEF Role, Kept, OwnerOnly, ViewOnly
  <2>r. \/ /\ pc'[t] = "prepare" /\ known'[t] = known[t] /\ cached'[t] = prefix[Req(t)]
           /\ refs'[t] = known[t] - prefix[Req(t)] /\ pins'[t] = known[t] - prefix[Req(t)]
           /\ due'[t] = known[t] - prefix[Req(t)]
        \/ /\ pc'[t] \in {"refuse", "failed"} /\ Nothing(t)' /\ cached'[t] = prefix[Req(t)]
           /\ pc'[t] = "failed" => known'[t] = prefix[Req(t)]
    BY <1>c, <2>1, <2>2 DEF Nothing
  <2>4. Counted(t)'
    BY <1>0, <1>c, <2>1, <2>2 DEF Kept, Counted, Nothing
  <2>5. OwnerHeld(t)'
    BY <1>0, <1>c, <2>r DEF Kept, OwnerHeld, Early
  <2>6. ViewsHeld(t)'
    BY <1>0, <1>c, <2>1, <2>2 DEF Kept, ViewsHeld, Nothing, ViewOnly
  <2>7. DoneHeld(t)'
    BY <1>0, <1>c, <2>1, <2>2 DEF Kept, DoneHeld, Nothing
  <2> QED
    BY <2>3, <2>4, <2>5, <2>6, <2>7
<1>12. CASE Prepare(t)
  <2>1. /\ pc[t] = "prepare" /\ UNCHANGED layer
      /\ \/ /\ pc'[t] = "publish" /\ UNCHANGED <<known, refs, pins, due>>
            /\ cached'[t] = cached[t] + (known[t] - prefix[Req(t)])
         \/ /\ refs'[t] = refs[t] - due[t] /\ pins'[t] = pins[t] - due[t] /\ due'[t] = 0
            /\ \/ pc'[t] = "refuse" /\ known'[t] = known[t] /\ cached'[t] = cached[t]
               \/ pc'[t] = "failed" /\ known'[t] = prefix[Req(t)] /\ cached'[t] = prefix[Req(t)]
    BY <1>0, <1>h, <1>m, <1>12, SMTT(30) DEF LoadTypes, Counted, Kept, OwnerOnly, ViewOnly,
       Prepare, Goto, AppendToCache, Refuse, Raise, Rollback, Release, DropDue
  <2>2. /\ ~IsPassive(t)
        /\ refs[t] = known[t] - prefix[Req(t)] /\ cached[t] = prefix[Req(t)]
        /\ pins[t] = known[t] - prefix[Req(t)] /\ due[t] = known[t] - prefix[Req(t)]
        /\ Missing(t) = known[t] - prefix[Req(t)]
    BY <1>0, <1>h, <1>m, <2>1 DEF Role, Nothing, OwnerHeld, ViewsHeld, OwnerOnly, ViewOnly
  <2>3. Role(t)'
    BY <1>0, <2>1, <2>2 DEF Role, Kept, OwnerOnly, ViewOnly
  <2>r. /\ pc'[t] # "publish" => Nothing(t)'
        /\ pc'[t] = "publish" => cached'[t] = known[t]
    BY <1>c, <2>1, <2>2 DEF Nothing
  <2>4. Counted(t)'
    BY <1>0, <1>c, <2>1, <2>2 DEF Kept, Counted, Nothing
  <2>5. OwnerHeld(t)'
    BY <1>0, <1>c, <2>1, <2>2, <2>r DEF Kept, OwnerHeld, Early
  <2>6. ViewsHeld(t)'
    BY <1>0, <1>c, <2>1, <2>2 DEF Kept, ViewsHeld, Nothing, ViewOnly
  <2>7. DoneHeld(t)'
    BY <1>0, <1>c, <2>1, <2>2 DEF Kept, DoneHeld, Nothing
  <2> QED
    BY <2>3, <2>4, <2>5, <2>6, <2>7
<1>13. CASE BroadcastRefusal(t)
  BY <1>0, <1>h, <1>s, <1>m, <1>13 DEF LoadTypes, Role, Nothing, Counted, OwnerHeld,
     ViewsHeld, DoneHeld, Early, OwnerOnly, ViewOnly, BroadcastRefusal, Goto, Raise, Rollback
<1>14. CASE PublishLayer(t)
  BY <1>0, <1>h, <1>s, <1>m, <1>14 DEF LoadTypes, Role, Nothing, Counted, OwnerHeld,
     ViewsHeld, DoneHeld, Early, OwnerOnly, ViewOnly, PublishLayer, Goto, Release, DropDue,
     Fail
<1>15. CASE MoveLayer(t)
  BY <1>0, <1>h, <1>s, <1>m, <1>15, SMTT(30) DEF LoadTypes, Role, Nothing, Counted, OwnerHeld,
     ViewsHeld, DoneHeld, Early, OwnerOnly, ViewOnly, MoveLayer, Goto, Fail
<1>16. CASE CloseLoad(t)
  BY <1>0, <1>h, <1>s, <1>m, <1>16 DEF LoadTypes, Role, Nothing, Counted, OwnerHeld,
     ViewsHeld, DoneHeld, Early, OwnerOnly, ViewOnly, CloseLoad, Goto, Release, DropDue,
     Raise, Rollback
<1>17. CASE FinishLoad(t)
  BY <1>0, <1>h, <1>s, <1>m, <1>17 DEF LoadTypes, Role, Nothing, Counted, OwnerHeld,
     ViewsHeld, DoneHeld, Early, OwnerOnly, ViewOnly, FinishLoad, Goto
<1>18. CASE LoadDirect(t)
  <2>1. /\ pc[t] = "direct" /\ UNCHANGED <<layer, refs, pins, due>>
      /\ \/ pc'[t] \in {"done", "fetch"} /\ UNCHANGED <<known, cached>>
         \/ pc'[t] = "failed" /\ known'[t] = prefix[Req(t)] /\ cached'[t] = prefix[Req(t)]
    BY <1>0, <1>h, <1>m, <1>18 DEF LoadTypes, Counted, Kept, OwnerOnly, ViewOnly, LoadDirect,
       Goto, Fail, Raise, Rollback
  <2>2. /\ ~IsPassive(t) /\ ~Shared(t) /\ Nothing(t) /\ cached[t] = prefix[Req(t)]
        /\ Missing(t) = known[t] - prefix[Req(t)]
    BY <1>0, <1>h, <1>m, <2>1 DEF Role, Nothing, OwnerHeld, ViewsHeld, OwnerOnly, ViewOnly
  <2>3. Role(t)'
    BY <1>0, <2>1, <2>2 DEF Role, Kept, OwnerOnly, ViewOnly
  <2>4. Counted(t)'
    BY <1>0, <1>c, <2>1, <2>2 DEF Kept, Counted, Nothing
  <2>5. OwnerHeld(t)'
    BY <1>0, <1>c, <2>1, <2>2 DEF Kept, OwnerHeld, Nothing, Early
  <2>6. ViewsHeld(t)'
    BY <1>0, <1>c, <2>1, <2>2 DEF Kept, ViewsHeld, Nothing, ViewOnly
  <2>7. DoneHeld(t)'
    BY <1>0, <1>c, <2>1, <2>2 DEF Kept, DoneHeld, Nothing
  <2> QED
    BY <2>3, <2>4, <2>5, <2>6, <2>7
<1>19. CASE ReceiveLayer(t)
  <2>1. /\ pc[t] = "receive" /\ UNCHANGED layer
      /\ \/ pc'[t] \in {"receive", "drain"} /\ Kept(t)
         \/ /\ pc'[t] = "move" /\ known'[t] = Chunks /\ UNCHANGED <<cached, pins>>
            /\ refs'[t] = refs[t] + Missing(t) /\ due'[t] = due[t] + Missing(t)
         \/ /\ pc'[t] = "failed" /\ known'[t] = prefix[Req(t)] /\ cached'[t] = prefix[Req(t)]
            /\ refs'[t] = refs[t] - due[t] /\ pins'[t] = pins[t] - 0 /\ due'[t] = 0
    BY <1>0, <1>h, <1>m, <1>19, SMTT(30) DEF LoadTypes, Counted, Kept, OwnerOnly, ViewOnly,
       ReceiveLayer, Goto, MakeViews, RecordChunks, Release, DropDue, Raise, Rollback, Unusable,
       Fail
  <2>2. /\ IsPassive(t) /\ refs[t] = due[t] /\ due[t] >= 0 /\ pins[t] = 0
        /\ cached[t] = prefix[Req(t)]
        /\ Missing(t) = Chunks - prefix[Req(t)]
    BY <1>0, <1>h, <1>m, <2>1 DEF Role, Nothing, OwnerHeld, ViewsHeld, OwnerOnly, ViewOnly
  <2>3. Role(t)'
    BY <1>0, <2>1, <2>2 DEF Role, Kept, OwnerOnly, ViewOnly
  <2>r. pc'[t] = "failed" => Nothing(t)'
    BY <1>c, <2>1, <2>2 DEF Nothing
  <2>4. Counted(t)'
    <3>1. /\ known'[t] \in Int /\ cached'[t] \in Int
          /\ prefix[Req(t)] <= known'[t] /\ known'[t] <= Chunks
      BY <1>0, <1>c, <2>1 DEF Kept
    <3>2. refs'[t] \in Nat /\ pins'[t] \in Nat /\ due'[t] \in Nat /\ layer'[t] \in Nat
      <4>1. Missing(t) \in Nat /\ pins[t] - 0 = 0 /\ refs[t] - due[t] = 0
        BY <1>0, <1>c, <2>2
      <4>2. layer'[t] = layer[t]
        BY <2>1
      <4>3. \/ refs'[t] = refs[t] /\ pins'[t] = pins[t] /\ due'[t] = due[t]
            \/ /\ refs'[t] = refs[t] + Missing(t) /\ pins'[t] = pins[t]
               /\ due'[t] = due[t] + Missing(t)
            \/ refs'[t] = 0 /\ pins'[t] = 0 /\ due'[t] = 0
        BY <2>1, <4>1 DEF Kept
      <4> QED
        BY <1>c, <4>1, <4>2, <4>3
    <3>3. prefix' = prefix
      BY <1>0
    <3> QED
      BY <3>1, <3>2, <3>3 DEF Counted
  <2>5. OwnerHeld(t)'
    BY <1>0, <1>c, <2>1, <2>2, <2>r DEF Kept, OwnerHeld, Early
  <2>6. ViewsHeld(t)'
    BY <1>0, <1>c, <2>1, <2>2 DEF Kept, ViewsHeld, Nothing, ViewOnly
  <2>7. DoneHeld(t)'
    BY <1>0, <1>c, <2>1, <2>2 DEF Kept, DoneHeld, Nothing
  <2> QED
    BY <2>3, <2>4, <2>5, <2>6, <2>7
<1>20. CASE MoveView(t)
  BY <1>0, <1>h, <1>s, <1>m, <1>20, SMTT(30) DEF LoadTypes, Role, Nothing, Counted, OwnerHeld,
     ViewsHeld, DoneHeld, Early, OwnerOnly, ViewOnly, MoveView, Goto, Release, DropDue, Raise,
     Rollback, Fail
<1>21. CASE ReceiveFinal(t)
  <2>1. /\ pc[t] \in {"final", "drain"} /\ UNCHANGED layer
      /\ \/ pc'[t] = pc[t] /\ Kept(t)
         \/ pc[t] = "final" /\ pc'[t] = "commit" /\ Kept(t)
         \/ /\ pc'[t] = "failed" /\ known'[t] = prefix[Req(t)] /\ cached'[t] = prefix[Req(t)]
            /\ refs'[t] = refs[t] - due[t] /\ pins'[t] = pins[t] - 0 /\ due'[t] = 0
    BY <1>0, <1>h, <1>m, <1>21 DEF LoadTypes, Counted, Kept, OwnerOnly, ViewOnly, ReceiveFinal,
       Goto, Release, DropDue, Raise, Rollback
  <2>2. /\ IsPassive(t) /\ refs[t] = due[t] /\ due[t] >= 0 /\ pins[t] = 0
        /\ cached[t] = prefix[Req(t)]
        /\ pc[t] = "final" => known[t] = Chunks /\ due[t] >= Chunks - prefix[Req(t)]
        /\ Missing(t) = Chunks - prefix[Req(t)]
    BY <1>0, <1>h, <1>m, <2>1 DEF Role, Nothing, OwnerHeld, ViewsHeld, OwnerOnly, ViewOnly
  <2>3. Role(t)'
    BY <1>0, <2>1, <2>2 DEF Role, Kept, OwnerOnly, ViewOnly
  <2>4. Counted(t)'
    BY <1>0, <1>c, <2>1, <2>2 DEF Kept, Counted, Nothing
  <2>5. OwnerHeld(t)'
    BY <1>0, <1>c, <2>1, <2>2 DEF Kept, OwnerHeld, Nothing, Early
  <2>6. ViewsHeld(t)'
    BY <1>0, <1>c, <2>1, <2>2 DEF Kept, ViewsHeld, Nothing, ViewOnly
  <2>7. DoneHeld(t)'
    BY <1>0, <1>c, <2>1, <2>2 DEF Kept, DoneHeld, Nothing
  <2> QED
    BY <2>3, <2>4, <2>5, <2>6, <2>7
<1>22. CASE CommitViews(t)
  <2>1. /\ pc[t] = "commit" /\ UNCHANGED layer
      /\ \/ /\ pc'[t] = "done" /\ UNCHANGED <<known, refs, pins>> /\ due'[t] = 0
            /\ cached'[t] = cached[t] + Missing(t)
         \/ /\ pc'[t] = "failed" /\ known'[t] = prefix[Req(t)] /\ cached'[t] = prefix[Req(t)]
            /\ refs'[t] = refs[t] - due[t] /\ pins'[t] = pins[t] - 0 /\ due'[t] = 0
    BY <1>0, <1>h, <1>m, <1>22, SMTT(30) DEF LoadTypes, Counted, Kept, OwnerOnly, ViewOnly,
       CommitViews, Goto, AppendToCache, Release, DropDue, Raise, Rollback, Fail
  <2>2. /\ IsPassive(t) /\ refs[t] = due[t] /\ due[t] >= 0 /\ pins[t] = 0
        /\ cached[t] = prefix[Req(t)]
        /\ known[t] = Chunks /\ due[t] >= Chunks - prefix[Req(t)]
        /\ Missing(t) = Chunks - prefix[Req(t)]
    BY <1>0, <1>h, <1>m, <2>1 DEF Role, Nothing, OwnerHeld, ViewsHeld, OwnerOnly, ViewOnly
  <2>3. Role(t)'
    BY <1>0, <2>1, <2>2 DEF Role, Kept, OwnerOnly, ViewOnly
  <2>4. Counted(t)'
    BY <1>0, <1>c, <2>1, <2>2 DEF Kept, Counted, Nothing
  <2>5. OwnerHeld(t)'
    BY <1>0, <1>c, <2>1, <2>2 DEF Kept, OwnerHeld, Nothing, Early
  <2>6. ViewsHeld(t)'
    BY <1>0, <1>c, <2>1, <2>2 DEF Kept, ViewsHeld, Nothing, ViewOnly
  <2>7. DoneHeld(t)'
    BY <1>0, <1>c, <2>1, <2>2 DEF Kept, DoneHeld, Nothing
  <2> QED
    BY <2>3, <2>4, <2>5, <2>6, <2>7
<1>23. CASE GiveUp(t)
  BY <1>0, <1>h, <1>s, <1>m, <1>23 DEF LoadTypes, Role, Nothing, Counted, OwnerHeld,
     ViewsHeld, DoneHeld, Early, OwnerOnly, ViewOnly, GiveUp, Goto, Release, DropDue, Raise,
     Rollback
<1> QED
  BY <1>1, <1>2, <1>3, <1>4, <1>5, <1>6, <1>7, <1>8, <1>9, <1>10, <1>11, <1>12, <1>13, <1>14,
     <1>15, <1>16, <1>17, <1>18, <1>19, <1>20, <1>21, <1>22, <1>23 DEF Step

\* A record follows from the counters, the thread's place and the request alone.
LEMMA HeldSame ==
    ASSUME UNCHANGED <<kind, prefix>>, NEW u \in Threads, Role(u), Held(u), Same(u)
    PROVE  Role(u)' /\ Held(u)'
<1>1. IsPassive(u)' = IsPassive(u) /\ Shared(u)' = Shared(u)
  BY ThreadsFixed
<1> QED
  BY <1>1 DEF Role, Held, Counted, OwnerHeld, ViewsHeld, DoneHeld, Nothing, Same

\* No request has loaded anything at the start.
LEMMA LoadsInit == Init => LoadTypes /\ LoadsHeld
<1> SUFFICES ASSUME Init PROVE LoadTypes /\ LoadsHeld
  OBVIOUS
<1>1. kind \in Seq({"checkpoint", "plain", "direct", "fill"})
  BY RetrieveAssumption DEF Init
<1>2. prefix \in [Requests -> 0..Chunks] /\ Chunks \in Nat
  BY RetrieveAssumption DEF Init
<1>3. LoadTypes
  BY <1>1, <1>2 DEF Init, LoadTypes
<1>4. ASSUME NEW t \in Threads PROVE Role(t) /\ Held(t)
  <2>1. prefix[Req(t)] \in 0..Chunks /\ Req(t) \in Requests /\ Group(t) \in {0, 1}
    BY <1>2, ThreadParts
  <2>2. /\ pc[t] = FirstPc(t) /\ layer[t] = 0 /\ cached[t] = prefix[Req(t)]
        /\ known[t] = prefix[Req(t)] /\ refs[t] = 0 /\ pins[t] = 0 /\ due[t] = 0
    BY DEF Init
  <2>3. /\ ~IsPassive(t) => StartOf(t) = "find"
        /\ IsPassive(t) => \/ StartOf(t) = "receive"
                           \/ StartOf(t) = "move" /\ prefix[Req(t)] = Chunks
    BY <2>1, <1>2 DEF StartOf, Missing, Required
  <2>4. pc[t] \in {"decide", "queued", "gate", StartOf(t)}
    BY <2>2 DEF FirstPc
  <2> QED
    BY <1>2, <2>1, <2>2, <2>3, <2>4
       DEF Role, Held, Counted, OwnerHeld, ViewsHeld, DoneHeld, Nothing, Early, OwnerOnly, ViewOnly
<1> QED
  BY <1>3, <1>4 DEF LoadsHeld

\* The records of all threads stay balanced.
LEMMA LoadsNext ==
    ASSUME LoadTypes, LoadsHeld, [Next]_vars
    PROVE  LoadTypes' /\ LoadsHeld'
<1>0. LoadTypes' /\ UNCHANGED <<kind, prefix>> /\ Threads' = Threads
  BY LoadTypesStep, RequestsFixed, ThreadsFixed
<1>1. ASSUME NEW t \in Threads, Step(t), NEW u \in Threads PROVE Role(u)' /\ Held(u)'
  <2>1. CASE u = t
    BY <1>1, <2>1, HeldStep DEF LoadsHeld
  <2>2. CASE u # t
    BY <1>0, <1>1, <2>2, OthersSame, HeldSame DEF LoadsHeld
  <2> QED
    BY <2>1, <2>2
<1>2. ASSUME NEW p \in Passives, ServeAgreement(p), NEW u \in Threads PROVE Role(u)' /\ Held(u)'
  <2>1. Same(u)
    BY <1>2 DEF ServeAgreement, loadVars, Same
  <2> QED
    BY <1>0, <2>1, HeldSame DEF LoadsHeld
<1>3. ASSUME UNCHANGED vars, NEW u \in Threads PROVE Role(u)' /\ Held(u)'
  <2>1. Same(u)
    BY <1>3 DEF vars, loadVars, Same
  <2> QED
    BY <1>0, <2>1, HeldSame DEF LoadsHeld
<1>4. ASSUME NEW u \in Threads PROVE Role(u)' /\ Held(u)'
  BY <1>1, <1>2, <1>3 DEF Next
<1> QED
  BY <1>0, <1>4 DEF LoadsHeld

\* Every load's record is balanced in every reachable state.
LEMMA LoadsAlwaysHeld == Spec => [](LoadTypes /\ LoadsHeld)
<1>1. LoadTypes /\ LoadsHeld /\ [Next]_vars => (LoadTypes /\ LoadsHeld)'
  BY LoadsNext
<1> QED
  BY <1>1, LoadsInit, PTL DEF Spec

\* References, pins, views and cache entries of a load balance on every path: a load
\* that failed has given everything back once, one that succeeded holds a page for every
\* entry it made (cache_engine.py, retrieve of shared layers, its except and finally blocks).
THEOREM PagesAlwaysBalanced == Spec => []PagesBalanced
<1>1. LoadTypes /\ LoadsHeld => PagesBalanced
  <2> SUFFICES ASSUME LoadTypes, LoadsHeld, NEW t \in Threads
               PROVE  /\ refs[t] >= 0 /\ pins[t] >= 0
                      /\ pc[t] = "failed" =>
                           /\ refs[t] = 0 /\ pins[t] = 0
                           /\ cached[t] = prefix[Req(t)] /\ known[t] = prefix[Req(t)]
                      /\ pc[t] = "done" /\ cached[t] > prefix[Req(t)] =>
                           refs[t] >= cached[t] - prefix[Req(t)]
                      /\ pc[t] = "done" /\ Shared(t) => cached[t] = known[t]
    BY DEF PagesBalanced
  <2>1. Counted(t) /\ OwnerHeld(t) /\ ViewsHeld(t) /\ DoneHeld(t) /\ prefix[Req(t)] \in Nat
    BY ThreadParts, RetrieveAssumption DEF LoadsHeld, Held, LoadTypes
  <2> QED
    BY <2>1 DEF Counted, OwnerHeld, ViewsHeld, DoneHeld, Nothing, Early, ViewOnly
<1> QED
  BY <1>1, LoadsAlwaysHeld, PTL

-----------------------------------------------------------------------------
(***************************************************************************)
(* The mailbox and the agreements.                                         *)
(***************************************************************************)

Ids == Nat \X {"restore", "load", "prefix", "fill"} \X Nat \X {0, 1}
Statuses == {"ok", "skipped", "error", "miss", "batch", "handles", "commit"}
Mail == [id : Ids, status : Statuses] \union [id : Ids, status : Statuses, pages : Int]

MailTypes ==
    /\ DOMAIN wire = Passives /\ DOMAIN box = Passives /\ DOMAIN reader = Passives
    /\ DOMAIN marker = Passives /\ DOMAIN results = Passives /\ DOMAIN calls = Ranks
    /\ \A p \in Passives :
         /\ wire[p] \in Seq(Mail)
         /\ reader[p] # NoOne => marker[p] \in Mail /\ Marker(marker[p])
    /\ \A k \in Ranks : calls[k] \in Seq([id : Ids, ready : BOOLEAN])
    /\ \A p \in Passives : results[p] \subseteq [id : Ids, ready : BOOLEAN]

Undecided == {"gate", "decide"}

\* The thread of rank k that takes part in the agreement id.
Party(k, id) == <<k, id[1], id[4]>>

\* Rank k brought the result r to the agreement id, for good.
Brought(k, id, r) ==
    /\ Party(k, id) \in Threads /\ id = AgreementId(Party(k, id))
    /\ pc[Party(k, id)] \notin Undecided /\ r = ready[Party(k, id)]

CallsBrought ==
    \A k \in Ranks : \A n \in 1..Len(calls[k]) : Brought(k, calls[k][n].id, calls[k][n].ready)

ResultsBrought == \A p \in Passives : \A r \in results[p] : Brought(p, r.id, r.ready)

\* The leader's mailbox lock is held from the announcement to the end of the all-reduce.
Announced == lock # NoOne /\ pc[lock] = "announced"

LockHeld ==
    /\ lock # NoOne => lock \in Threads /\ Leads(lock) /\ pc[lock] \in {"announced", "reducing"}
    /\ \A t \in Threads : Leads(t) /\ pc[t] \in {"announced", "reducing"} => lock = t

\* The leader enters an all-reduce once, and the last one is the one it waits for.
LeaderOnce ==
    /\ \A n \in 1..Len(calls[Leader]) :
         /\ pc[Party(Leader, calls[Leader][n].id)] \notin {"agree", "announced"}
         /\ pc[Party(Leader, calls[Leader][n].id)] = "reducing" => n = Len(calls[Leader])
    /\ lock # NoOne /\ pc[lock] = "reducing" =>
         /\ Len(calls[Leader]) > 0
         /\ calls[Leader][Len(calls[Leader])].id = AgreementId(lock)

\* Agreements announced so far.
Round == Len(calls[Leader]) + (IF Announced THEN 1 ELSE 0)

\* The all-reduces of a passive rank pair with the leader's: none is left out, swapped or
\* joined for another agreement, and at most the last one is still missing.
Aligned ==
    \A p \in Passives :
      /\ Len(calls[p]) = Round \/ (lock # NoOne /\ Len(calls[p]) = Round - 1)
      /\ \A n \in 1..Len(calls[p]) :
           \/ n <= Len(calls[Leader]) /\ calls[p][n].id = calls[Leader][n].id
           \/ n = Round /\ Announced /\ calls[p][n].id = AgreementId(lock)

\* The reader of rank p holds a marker whose all-reduce the rank has not joined.
Unjoined(p) == reader[p] # NoOne /\ \A n \in 1..Len(calls[p]) : calls[p][n].id # marker[p].id

\* The missing all-reduce is the one announced as id.
Missed(p, id) == lock # NoOne /\ id = AgreementId(lock) /\ Len(calls[p]) = Round - 1

\* There is at most one marker on its way to a rank, of the missing all-reduce.
OneMarker ==
    \A p \in Passives :
      /\ Unjoined(p) => Missed(p, marker[p].id)
      /\ \A i \in 1..Len(wire[p]) :
           Marker(wire[p][i]) =>
             /\ Missed(p, wire[p][i].id) /\ ~Unjoined(p)
             /\ \A j \in 1..Len(wire[p]) : Marker(wire[p][j]) => i = j

\* An outcome is the conjunction of what all ranks brought.
Told(id, ok) ==
    /\ \A k \in Ranks : Party(k, id) \in Threads /\ pc[Party(k, id)] \notin Undecided
    /\ ok <=> \A k \in Ranks : ready[Party(k, id)]

OutcomesTold ==
    \A p \in Passives : \A e \in box[p] : Marker(e) => Told(e.id, e.status = "skipped")

AgreedTold == \A t \in Threads : agreed[t] # "none" => Told(AgreementId(t), agreed[t] = "yes")

AgreementInv ==
    /\ CallsBrought /\ ResultsBrought /\ LockHeld /\ LeaderOnce /\ Aligned /\ OneMarker
    /\ OutcomesTold /\ AgreedTold

\* A step of t that takes no part in an agreement, apart from bringing its result: it may
\* broadcast, take or read an envelope.
Calm(t) ==
    /\ UNCHANGED <<kind, lock, calls, results, agreed>>
    /\ pc[t] \notin {"agree", "announced", "reducing"}
    /\ pc'[t] \notin Undecided \union {"announced", "reducing"}
    /\ pc'[t] = "agree" => pc[t] \in Undecided
    /\ pc[t] \in Undecided \/ ready'[t] = ready[t]
    /\ \A u \in Threads : u # t => pc'[u] = pc[u] /\ ready'[u] = ready[u]
    /\ \/ UNCHANGED <<wire, box, reader, marker>>
       \/ \E e \in Mail : Broadcast(e) /\ ~Marker(e) /\ UNCHANGED <<box, reader, marker>>
       \/ \E p \in Passives, id \in Ids : Take(p, id) /\ UNCHANGED <<wire, reader, marker>>
       \/ \E p \in Passives, id \in Ids : Read(t, p, id)

\* An agreement is known by its request: all its threads share its identity.
LEMMA Parties ==
    ASSUME NEW t \in Threads
    PROVE  /\ Party(Rank(t), AgreementId(t)) = t
           /\ \A k \in Ranks : /\ Party(k, AgreementId(t)) = <<k, Req(t), Group(t)>>
                               /\ Party(k, AgreementId(t)) \in Threads
                               /\ AgreementId(Party(k, AgreementId(t))) = AgreementId(t)
           /\ \A s : Marker([id |-> AgreementId(t), status |-> s])
BY ThreadParts DEF Party, AgreementId, Marker, Req, Group, Rank

\* Identities, statuses and envelopes are well formed.
LEMMA Identities ==
    ASSUME LoadTypes, LoadsHeld, NEW t \in Threads
    PROVE  /\ AgreementId(t) \in Ids
           /\ \A phase \in {"restore", "load"}, l \in Nat, s \in Statuses :
                /\ Envelope(t, phase, l, s) \in Mail /\ Envelope(t, phase, l, s).id \in Ids
                /\ ~Marker(Envelope(t, phase, l, s))
<1>1. Req(t) \in Nat /\ Group(t) \in {0, 1} /\ Missing(t) \in Int
  BY ThreadParts, RetrieveAssumption
     DEF LoadTypes, LoadsHeld, Held, Counted, Requests, Missing, Required
<1>2. AgreementId(t) \in Ids
  BY <1>1 DEF AgreementId, Ids
<1>3. ASSUME NEW phase \in {"restore", "load"}, NEW l \in Nat, NEW s \in Statuses
      PROVE  /\ Envelope(t, phase, l, s) \in Mail /\ Envelope(t, phase, l, s).id \in Ids
             /\ ~Marker(Envelope(t, phase, l, s))
  BY <1>1, <1>3 DEF Envelope, Mail, Ids, Marker
<1> QED
  BY <1>2, <1>3

\* All steps but those of the agreements are calm.
LEMMA CalmSteps ==
    ASSUME LoadTypes, LoadsHeld, [Next]_vars, NEW t \in Threads, Step(t),
           ~LeaderAgree(t), ~PassiveAgree(t)
    PROVE  Calm(t)
<1>0. /\ UNCHANGED <<kind, prefix>> /\ layer[t] \in Nat /\ Layers \in Nat /\ 0 \in Nat
      /\ StartOf(t) \in {"find", "move", "receive"} /\ t \in Threads
      /\ IsPassive(t) \/ ~Leads(t) => Rank(t) \in Passives
  BY RequestsFixed, ThreadParts, RetrieveAssumption
     DEF StartOf, IsPassive, Leads, Ranks, LoadsHeld, Held, Counted
<1>i. \A phase \in {"restore", "load"}, l \in Nat, s \in Statuses :
        /\ Envelope(t, phase, l, s) \in Mail /\ Envelope(t, phase, l, s).id \in Ids
        /\ ~Marker(Envelope(t, phase, l, s))
  BY Identities
<1>u. \A u \in Threads : u # t => pc'[u] = pc[u] /\ ready'[u] = ready[u]
  BY OthersSame DEF Same
<1>1. CASE Dequeue(t)
  BY <1>0, <1>i, <1>u, <1>1 DEF Calm, LoadTypes, Undecided, mailboxVars, Dequeue, Goto
<1>2. CASE PrepareRestore(t)
  BY <1>0, <1>i, <1>u, <1>2 DEF Calm, LoadTypes, Undecided, mailboxVars, PrepareRestore, Goto,
     Fail, Statuses
<1>3. CASE ReceiveRestore(t)
  <2>1. /\ UNCHANGED <<kind, lock, calls, results, agreed, ready>>
        /\ pc[t] \notin {"agree", "announced", "reducing"} \union Undecided
        /\ pc'[t] \notin Undecided \union {"agree", "announced", "reducing"}
    BY <1>0, <1>3 DEF LoadTypes, Undecided, ReceiveRestore, Goto, Raise, Read
  <2>2. PICK id \in Ids : id = Envelope(t, "restore", 0, "ok").id
    BY <1>0, <1>i DEF Statuses
  <2>3. Rank(t) \in Passives
    BY <1>0, <1>3 DEF ReceiveRestore, LoadsHeld, Role, OwnerOnly, ViewOnly
  <2>4. \/ Take(Rank(t), id) /\ UNCHANGED <<wire, reader, marker>>
        \/ Read(t, Rank(t), id)
    BY <2>2, <1>3 DEF ReceiveRestore
  <2> QED
    BY <1>u, <2>1, <2>2, <2>3, <2>4 DEF Calm
<1>4. CASE Decide(t)
  BY <1>0, <1>i, <1>u, <1>4 DEF Calm, LoadTypes, Undecided, mailboxVars, Decide, Goto,
     Outcome, ReadPrefix
<1>5. CASE FindChunks(t)
  BY <1>0, <1>i, <1>u, <1>5 DEF Calm, LoadTypes, Undecided, mailboxVars, FindChunks, Goto,
     Raise
<1>6. CASE Probe(t)
  BY <1>0, <1>i, <1>u, <1>6 DEF Calm, LoadTypes, Undecided, mailboxVars, Probe, Goto, Refuse,
     Raise
<1>7. CASE Capacity(t)
  BY <1>0, <1>i, <1>u, <1>7 DEF Calm, LoadTypes, Undecided, mailboxVars, Capacity, Goto,
     Refuse, Raise
<1>8. CASE FetchPages(t)
  BY <1>0, <1>i, <1>u, <1>8 DEF Calm, LoadTypes, Undecided, mailboxVars, FetchPages, Goto
<1>9. CASE PinPages(t)
  BY <1>0, <1>i, <1>u, <1>9 DEF Calm, LoadTypes, Undecided, mailboxVars, PinPages, Goto,
     Refuse, Raise
<1>10. CASE Prepare(t)
  BY <1>0, <1>i, <1>u, <1>10 DEF Calm, LoadTypes, Undecided, mailboxVars, Prepare, Goto,
     Refuse, Raise
<1>11. CASE BroadcastRefusal(t)
  BY <1>0, <1>i, <1>u, <1>11 DEF Calm, LoadTypes, Undecided, mailboxVars, BroadcastRefusal,
     Goto, Raise, Statuses
<1>12. CASE PublishLayer(t)
  BY <1>0, <1>i, <1>u, <1>12 DEF Calm, LoadTypes, Undecided, mailboxVars, PublishLayer, Goto,
     Statuses, Fail
<1>13. CASE MoveLayer(t)
  BY <1>0, <1>i, <1>u, <1>13 DEF Calm, LoadTypes, Undecided, mailboxVars, MoveLayer, Goto
<1>14. CASE CloseLoad(t)
  BY <1>0, <1>i, <1>u, <1>14 DEF Calm, LoadTypes, Undecided, mailboxVars, CloseLoad, Goto,
     FinalError, Raise, Statuses
<1>15. CASE FinishLoad(t)
  BY <1>0, <1>i, <1>u, <1>15 DEF Calm, LoadTypes, Undecided, mailboxVars, FinishLoad, Goto,
     Statuses
<1>16. CASE LoadDirect(t)
  BY <1>0, <1>i, <1>u, <1>16 DEF Calm, LoadTypes, Undecided, mailboxVars, LoadDirect, Goto,
     Raise
<1>17. CASE ReceiveLayer(t)
  <2>1. /\ UNCHANGED <<kind, lock, calls, results, agreed, ready>>
        /\ pc[t] \notin {"agree", "announced", "reducing"} \union Undecided
        /\ pc'[t] \notin Undecided \union {"agree", "announced", "reducing"}
    BY <1>0, <1>17 DEF LoadTypes, Undecided, ReceiveLayer, Goto, Raise, Read
  <2>2. PICK id \in Ids : id = Envelope(t, "load", layer[t], "ok").id
    BY <1>0, <1>i DEF Statuses
  <2>3. Rank(t) \in Passives
    BY <1>0, <1>17 DEF ReceiveLayer, LoadsHeld, Role, OwnerOnly, ViewOnly
  <2>4. \/ Take(Rank(t), id) /\ UNCHANGED <<wire, reader, marker>>
        \/ Read(t, Rank(t), id)
    BY <2>2, <1>17 DEF ReceiveLayer
  <2> QED
    BY <1>u, <2>1, <2>2, <2>3, <2>4 DEF Calm
<1>18. CASE MoveView(t)
  BY <1>0, <1>i, <1>u, <1>18 DEF Calm, LoadTypes, Undecided, mailboxVars, MoveView, Goto,
     Raise
<1>19. CASE ReceiveFinal(t)
  <2>1. /\ UNCHANGED <<kind, lock, calls, results, agreed, ready>>
        /\ pc[t] \notin {"agree", "announced", "reducing"} \union Undecided
        /\ pc'[t] \notin Undecided \union {"agree", "announced", "reducing"}
    BY <1>0, <1>19 DEF LoadTypes, Undecided, ReceiveFinal, Goto, Raise, Read
  <2>2. PICK id \in Ids : id = Envelope(t, "load", Layers, "ok").id
    BY <1>0, <1>i DEF Statuses
  <2>3. Rank(t) \in Passives
    BY <1>0, <1>19 DEF ReceiveFinal, LoadsHeld, Role, OwnerOnly, ViewOnly
  <2>4. \/ Take(Rank(t), id) /\ UNCHANGED <<wire, reader, marker>>
        \/ Read(t, Rank(t), id)
    BY <2>2, <1>19 DEF ReceiveFinal
  <2> QED
    BY <1>u, <2>1, <2>2, <2>3, <2>4 DEF Calm
<1>20. CASE CommitViews(t)
  BY <1>0, <1>i, <1>u, <1>20 DEF Calm, LoadTypes, Undecided, mailboxVars, CommitViews, Goto,
     Raise
<1>21. CASE GiveUp(t)
  BY <1>0, <1>i, <1>u, <1>21 DEF Calm, LoadTypes, Undecided, mailboxVars, GiveUp, Goto, Raise
<1> QED
  BY <1>1, <1>2, <1>3, <1>4, <1>5, <1>6, <1>7, <1>8, <1>9, <1>10, <1>11, <1>12, <1>13, <1>14,
     <1>15, <1>16, <1>17, <1>18, <1>19, <1>20, <1>21 DEF Step

\* Reading an envelope keeps the types of the mailbox.
LEMMA ReadTypes ==
    ASSUME MailTypes, NEW t, NEW p \in Passives, NEW id, Read(t, p, id)
    PROVE  MailTypes'
<1>1. wire[p] \in Seq(Mail) /\ wire[p] # <<>>
  BY DEF MailTypes, Read
<1>2. Head(wire[p]) \in Mail /\ Tail(wire[p]) \in Seq(Mail)
  BY <1>1
<1> QED
  BY <1>2 DEF MailTypes, Read

\* So does a broadcast.
LEMMA BroadcastTypes ==
    ASSUME MailTypes, NEW e \in Mail, Broadcast(e)
    PROVE  /\ DOMAIN wire' = Passives
           /\ \A p \in Passives : wire'[p] = Append(wire[p], e) /\ wire'[p] \in Seq(Mail)
<1>1. DOMAIN wire' = Passives /\ \A p \in Passives : wire'[p] = Append(wire[p], e)
  BY DEF MailTypes, Broadcast
<1>2. ASSUME NEW p \in Passives PROVE Append(wire[p], e) \in Seq(Mail)
  BY DEF MailTypes
<1> QED
  BY <1>1, <1>2

\* And entering an all-reduce.
LEMMA EnterTypes ==
    ASSUME MailTypes, NEW k \in Ranks, NEW id \in Ids, NEW r \in BOOLEAN, EnterReduction(k, id, r)
    PROVE  /\ DOMAIN calls' = Ranks
           /\ calls'[k] = Append(calls[k], [id |-> id, ready |-> r])
           /\ \A j \in Ranks : /\ calls'[j] \in Seq([id : Ids, ready : BOOLEAN])
                               /\ j # k => calls'[j] = calls[j]
<1>1. /\ DOMAIN calls' = Ranks /\ calls'[k] = Append(calls[k], [id |-> id, ready |-> r])
      /\ \A j \in Ranks : j # k => calls'[j] = calls[j]
  BY DEF MailTypes, EnterReduction
<1>2. [id |-> id, ready |-> r] \in [id : Ids, ready : BOOLEAN]
  OBVIOUS
<1>3. Append(calls[k], [id |-> id, ready |-> r]) \in Seq([id : Ids, ready : BOOLEAN])
  <2>1. calls[k] \in Seq([id : Ids, ready : BOOLEAN])
    BY DEF MailTypes
  <2> QED
    BY <1>2, <2>1
<1> QED
  BY <1>1, <1>3 DEF MailTypes

\* The mailbox keeps its types.
LEMMA MailTypesStep ==
    ASSUME LoadTypes, LoadsHeld, MailTypes, [Next]_vars
    PROVE  MailTypes'
<1>1. ASSUME NEW t \in Threads, Calm(t) PROVE MailTypes'
  <2>0. UNCHANGED <<calls, results>>
    BY <1>1 DEF Calm
  <2>1. CASE UNCHANGED <<wire, box, reader, marker>>
    BY <2>0, <2>1 DEF MailTypes
  <2>2. CASE \E e \in Mail : Broadcast(e) /\ ~Marker(e) /\ UNCHANGED <<box, reader, marker>>
    BY <2>0, <2>2, BroadcastTypes DEF MailTypes
  <2>3. CASE \E p \in Passives, id \in Ids : Take(p, id) /\ UNCHANGED <<wire, reader, marker>>
    BY <2>0, <2>3 DEF MailTypes, Take
  <2>4. CASE \E p \in Passives, id \in Ids : Read(t, p, id)
    BY <2>0, <2>4, ReadTypes
  <2> QED
    BY <1>1, <2>1, <2>2, <2>3, <2>4 DEF Calm
<1>2. ASSUME NEW t \in Threads, LeaderAgree(t) PROVE MailTypes'
  <2>0. AgreementId(t) \in Ids /\ ready[t] \in BOOLEAN /\ Leader \in Ranks
    BY Identities DEF LoadTypes, LoadsHeld, Held, Counted, Ranks
  <2>1. CASE Announce(t, AgreementId(t))
    <3>1. [id |-> AgreementId(t), status |-> "skipped"] \in Mail
      BY <2>0 DEF Mail, Statuses
    <3> QED
      BY <2>1, <3>1, BroadcastTypes DEF MailTypes, Announce
  <2>2. CASE LeaderReduce(AgreementId(t), ready[t])
    BY <2>0, <2>2, EnterTypes DEF MailTypes, LeaderReduce
  <2>3. CASE LeaderReduced(AgreementId(t))
    BY <2>3 DEF MailTypes, LeaderReduced
  <2> QED
    BY <1>2, <2>1, <2>2, <2>3 DEF LeaderAgree
<1>3. ASSUME NEW t \in Threads, PassiveAgree(t) PROVE MailTypes'
  <2>0. AgreementId(t) \in Ids /\ ready[t] \in BOOLEAN /\ Rank(t) \in Passives
    BY <1>3, Identities, ThreadParts
       DEF LoadTypes, LoadsHeld, Held, Counted, PassiveAgree, Leads, Ranks
  <2>1. CASE PublishResult(Rank(t), AgreementId(t), ready[t])
    <3>1. [id |-> AgreementId(t), ready |-> ready[t]] \in [id : Ids, ready : BOOLEAN]
      BY <2>0
    <3>2. ASSUME NEW p \in Passives PROVE results'[p] \subseteq [id : Ids, ready : BOOLEAN]
      BY <2>0, <2>1, <3>1 DEF MailTypes, PublishResult
    <3> QED
      BY <2>1, <3>2 DEF MailTypes, PublishResult
  <2>2. CASE Read(t, Rank(t), AgreementId(t))
    BY <2>0, <2>2, ReadTypes DEF Read
  <2>3. CASE TakeOutcome(Rank(t), AgreementId(t))
    BY <2>0, <2>3 DEF MailTypes, TakeOutcome, Take
  <2> QED
    BY <1>3, <2>1, <2>2, <2>3 DEF PassiveAgree
<1>4. ASSUME NEW p \in Passives, ServeAgreement(p) PROVE MailTypes'
  <2>1. CASE JoinReduction(p)
    <3>1. PICK r \in results[p] : EnterReduction(p, r.id, r.ready)
      BY <2>1 DEF JoinReduction
    <3>2. r.id \in Ids /\ r.ready \in BOOLEAN /\ p \in Ranks
      BY <3>1 DEF MailTypes, Ranks
    <3> QED
      BY <2>1, <3>1, <3>2, EnterTypes DEF MailTypes, JoinReduction
  <2>2. CASE LeaveReduction(p)
    BY <2>2 DEF MailTypes, LeaveReduction
  <2> QED
    BY <1>4, <2>1, <2>2 DEF ServeAgreement
<1>5. ASSUME UNCHANGED vars PROVE MailTypes'
  BY <1>5 DEF vars, mailboxVars, MailTypes
<1>6. ASSUME NEW t \in Threads, Step(t) PROVE MailTypes'
  BY <1>1, <1>2, <1>3, <1>6, CalmSteps
<1> QED
  BY <1>4, <1>5, <1>6 DEF Next

\* A reader takes the marker off the wire and keeps it until its rank has joined.
LEMMA ReadMarker ==
    ASSUME LoadTypes, MailTypes, OneMarker, OutcomesTold, NEW t \in Threads, NEW p \in Passives,
           NEW id, Read(t, p, id), UNCHANGED calls,
           UNCHANGED lock, AgreementId(lock)' = AgreementId(lock), Round' = Round,
           \A i, ok : Told(i, ok) => Told(i, ok)'
    PROVE  OneMarker' /\ OutcomesTold'
<1>0. \A i : \A q \in Passives : Missed(q, i)' <=> Missed(q, i)
  BY DEF Missed
<1>1. /\ wire[p] \in Seq(Mail) /\ wire[p] # <<>> /\ reader[p] = NoOne
      /\ wire'[p] = Tail(wire[p]) /\ \A q \in Passives : q # p => wire'[q] = wire[q]
  BY DEF MailTypes, Read
<1>2. /\ Head(wire[p]) = wire[p][1] /\ 1 \in 1..Len(wire[p])
      /\ \A i \in 1..Len(wire'[p]) : i + 1 \in 1..Len(wire[p]) /\ wire'[p][i] = wire[p][i + 1]
  BY <1>1
<1>3. \A q \in Passives : q # p => /\ reader'[q] = reader[q] /\ marker'[q] = marker[q]
                                   /\ box'[q] = box[q]
  BY DEF MailTypes, Read
<1>4. CASE Marker(Head(wire[p]))
  <2>1. reader'[p] = t /\ marker'[p] = wire[p][1] /\ box' = box
    BY <1>2, <1>4 DEF MailTypes, Read
  <2>3. \A i \in 1..Len(wire'[p]) : ~Marker(wire'[p][i])
    <3> SUFFICES ASSUME NEW i \in 1..Len(wire'[p]), Marker(wire'[p][i]) PROVE FALSE
      OBVIOUS
    <3>1. i + 1 \in 1..Len(wire[p]) /\ Marker(wire[p][i + 1]) /\ i \in Nat /\ i # 0
      BY <1>1, <1>2
    <3>2. 1 = i + 1
      BY <1>2, <1>4, <3>1 DEF OneMarker
    <3> QED
      BY <3>1, <3>2
  <2>4. Missed(p, wire[p][1].id)
    BY <1>2, <1>4 DEF OneMarker
  <2>5. \A q \in Passives : q # p => (Unjoined(q)' <=> Unjoined(q))
    BY <1>3 DEF Unjoined
  <2>6. OneMarker'
    <3> SUFFICES ASSUME NEW q \in Passives
                 PROVE  /\ Unjoined(q)' => Missed(q, marker[q].id)'
                        /\ \A i \in 1..Len(wire'[q]) :
                             Marker(wire'[q][i]) =>
                               /\ Missed(q, wire[q][i].id)' /\ ~Unjoined(q)'
                               /\ \A j \in 1..Len(wire'[q]) : Marker(wire'[q][j]) => i = j
      BY DEF OneMarker
    <3>1. CASE q # p
      BY <1>1, <1>3, <2>5, <3>1 DEF OneMarker, Missed
    <3>2. CASE q = p
      BY <2>1, <2>3, <2>4, <3>2 DEF Missed
    <3> QED
      BY <3>1, <3>2
  <2> QED
    BY <2>1, <2>6 DEF OutcomesTold
<1>5. CASE ~Marker(Head(wire[p]))
  <2>1. UNCHANGED <<reader, marker>> /\ box'[p] = box[p] \union {Head(wire[p])}
    BY <1>5 DEF MailTypes, Read
  <2>2. \A q \in Passives : Unjoined(q)' <=> Unjoined(q)
    BY <2>1 DEF Unjoined
  <2>3. OneMarker'
    <3> SUFFICES ASSUME NEW q \in Passives
                 PROVE  /\ Unjoined(q)' => Missed(q, marker[q].id)
                        /\ \A i \in 1..Len(wire'[q]) :
                             Marker(wire'[q][i]) =>
                               /\ Missed(q, wire'[q][i].id) /\ ~Unjoined(q)'
                               /\ \A j \in 1..Len(wire'[q]) : Marker(wire'[q][j]) => i = j
      BY <1>0, <2>1 DEF OneMarker
    <3>1. CASE q # p
      BY <1>1, <2>2, <3>1 DEF OneMarker
    <3>2. CASE q = p
      <4>1. Unjoined(p)' => Missed(p, marker[p].id)
        BY <2>2 DEF OneMarker
      <4>2. ASSUME NEW i \in 1..Len(wire'[p]), Marker(wire'[p][i])
            PROVE  /\ Missed(p, wire'[p][i].id) /\ ~Unjoined(p)'
                   /\ \A j \in 1..Len(wire'[p]) : Marker(wire'[p][j]) => i = j
        <5>1. i + 1 \in 1..Len(wire[p]) /\ Marker(wire[p][i + 1])
          BY <1>2, <4>2
        <5>2. \A j \in 1..Len(wire'[p]) : Marker(wire'[p][j]) => i + 1 = j + 1
          BY <1>2, <5>1 DEF OneMarker
        <5>3. \A j \in 1..Len(wire'[p]) : i + 1 = j + 1 => i = j
          BY <1>1
        <5> QED
          BY <1>2, <2>2, <5>1, <5>2, <5>3 DEF OneMarker
      <4> QED
        BY <3>2, <4>1, <4>2
    <3> QED
      BY <3>1, <3>2
  <2> QED
    BY <1>3, <1>5, <2>1, <2>3 DEF OutcomesTold
<1> QED
  BY <1>4, <1>5

\* A result that was brought, and an outcome that was told, stay.
LEMMA Kept2 ==
    ASSUME UNCHANGED <<kind, prefix>>,
           \A u \in Threads : pc[u] \notin Undecided =>
                                pc'[u] \notin Undecided /\ ready'[u] = ready[u]
    PROVE  /\ \A k, id, r : Brought(k, id, r) => Brought(k, id, r)'
           /\ \A id, ok : Told(id, ok) => Told(id, ok)'
           /\ \A u : AgreementId(u)' = AgreementId(u)
<1>1. Threads' = Threads /\ \A u : AgreementId(u)' = AgreementId(u)
  BY ThreadsFixed DEF AgreementId, Req, Group
<1>2. ASSUME NEW k, NEW id, NEW r, Brought(k, id, r) PROVE Brought(k, id, r)'
  BY <1>1, <1>2 DEF Brought, Party
<1>3. ASSUME NEW id, NEW ok, Told(id, ok) PROVE Told(id, ok)'
  <2>1. \A k \in Ranks : /\ Party(k, id) \in Threads /\ pc[Party(k, id)] \notin Undecided
                         /\ Party(k, id)' = Party(k, id)
    BY <1>3 DEF Told, Party
  <2> QED
    BY <1>1, <1>3, <2>1 DEF Told
<1> QED
  BY <1>1, <1>2, <1>3

\* Calm steps disturb no agreement.
LEMMA AgreementCalm ==
    ASSUME LoadTypes, MailTypes, AgreementInv, UNCHANGED <<kind, prefix>>,
           NEW t \in Threads, Calm(t)
    PROVE  AgreementInv'
<1>0. /\ CallsBrought /\ ResultsBrought /\ LockHeld /\ LeaderOnce /\ Aligned /\ OneMarker
      /\ OutcomesTold /\ AgreedTold
  BY DEF AgreementInv
<1>1. /\ UNCHANGED <<kind, lock, calls, results, agreed>> /\ Threads' = Threads
      /\ pc[t] \notin {"agree", "announced", "reducing"}
      /\ pc'[t] \notin Undecided \union {"announced", "reducing"}
      /\ pc'[t] = "agree" => pc[t] \in Undecided
      /\ pc[t] \in Undecided \/ ready'[t] = ready[t]
      /\ \A u \in Threads : u # t => pc'[u] = pc[u] /\ ready'[u] = ready[u]
  BY ThreadsFixed DEF Calm
<1>2. /\ \A k, id, r : Brought(k, id, r) => Brought(k, id, r)'
      /\ \A id, ok : Told(id, ok) => Told(id, ok)'
      /\ \A u : AgreementId(u)' = AgreementId(u)
  BY <1>1, Kept2
<1>3. CallsBrought' /\ ResultsBrought' /\ AgreedTold'
  BY <1>0, <1>1, <1>2 DEF CallsBrought, ResultsBrought, AgreedTold
<1>4. LockHeld'
  BY <1>0, <1>1 DEF LockHeld, Leads, Rank
<1>5. LeaderOnce'
  <2>1. \A n \in 1..Len(calls[Leader]) :
          /\ Party(Leader, calls[Leader][n].id) \in Threads
          /\ pc[Party(Leader, calls[Leader][n].id)] \notin Undecided
    BY <1>0 DEF CallsBrought, Brought, Ranks
  <2>2. lock # NoOne => lock \in Threads /\ lock # t
    BY <1>0, <1>1 DEF LockHeld
  <2> QED
    BY <1>0, <1>1, <1>2, <2>1, <2>2 DEF LeaderOnce, Party
<1>6. (Announced' <=> Announced) /\ Round' = Round
  BY <1>0, <1>1 DEF LockHeld, Announced, Round
<1>7. Aligned'
  BY <1>0, <1>1, <1>2, <1>6 DEF Aligned
<1>8. \A id : \A p \in Passives : Missed(p, id)' <=> Missed(p, id)
  BY <1>1, <1>2, <1>6 DEF Missed
<1>9. OneMarker' /\ OutcomesTold'
  <2>1. CASE UNCHANGED <<wire, box, reader, marker>>
    BY <1>0, <1>1, <1>2, <1>8, <2>1 DEF OneMarker, OutcomesTold, Unjoined
  <2>2. CASE \E e \in Mail : Broadcast(e) /\ ~Marker(e) /\ UNCHANGED <<box, reader, marker>>
    <3>1. PICK e \in Mail : Broadcast(e) /\ ~Marker(e) /\ UNCHANGED <<box, reader, marker>>
      BY <2>2
    <3>2. \A p \in Passives : wire[p] \in Seq(Mail) /\ wire'[p] = Append(wire[p], e)
      BY <3>1, BroadcastTypes DEF MailTypes
    <3>3. \A p \in Passives : \A i \in 1..Len(wire'[p]) :
            Marker(wire'[p][i]) => i \in 1..Len(wire[p]) /\ wire'[p][i] = wire[p][i]
      BY <3>1, <3>2
    <3>4. \A p \in Passives : Unjoined(p)' <=> Unjoined(p)
      BY <1>1, <3>1 DEF Unjoined
    <3>5. marker' = marker
      BY <3>1
    <3>6. ASSUME NEW p \in Passives, Unjoined(p)' PROVE Missed(p, marker[p].id)'
      BY <1>0, <1>8, <3>4, <3>5, <3>6 DEF OneMarker
    <3>7. ASSUME NEW p \in Passives, NEW i \in 1..Len(wire'[p]), Marker(wire'[p][i])
          PROVE  /\ Missed(p, wire[p][i].id)' /\ ~Unjoined(p)'
                 /\ \A j \in 1..Len(wire'[p]) : Marker(wire'[p][j]) => i = j
      BY <1>0, <1>8, <3>3, <3>4, <3>7 DEF OneMarker
    <3>8. OneMarker'
      BY <3>6, <3>7 DEF OneMarker, Marker
    <3> QED
      BY <1>0, <1>2, <3>1, <3>8 DEF OutcomesTold
  <2>3. CASE \E p \in Passives, id \in Ids : Take(p, id) /\ UNCHANGED <<wire, reader, marker>>
    <3>1. \A q \in Passives : box'[q] \subseteq box[q]
      BY <2>3 DEF MailTypes, Take
    <3> QED
      BY <1>0, <1>1, <1>2, <1>8, <2>3, <3>1 DEF OneMarker, OutcomesTold, Unjoined
  <2>4. CASE \E p \in Passives, id \in Ids : Read(t, p, id)
    BY <1>0, <1>1, <1>2, <1>6, <2>4, ReadMarker
  <2> QED
    BY <2>1, <2>2, <2>3, <2>4 DEF Calm
<1> QED
  BY <1>3, <1>4, <1>5, <1>7, <1>9 DEF AgreementInv

\* A thread is not the name of no thread.
LEMMA ThreadNotNoOne ==
    ASSUME LoadTypes, NEW t \in Threads
    PROVE  t # NoOne
BY ThreadParts, RetrieveAssumption DEF LoadTypes, Requests

\* What every step that keeps results and decided threads keeps of the agreements.
LEMMA AgreementFrame ==
    ASSUME LoadTypes, LoadsHeld, NEW t \in Threads, Step(t), UNCHANGED <<kind, prefix>>,
           pc[t] \notin Undecided, pc'[t] \notin Undecided, ready'[t] = ready[t]
    PROVE  /\ Threads' = Threads
           /\ \A u \in Threads : u # t => /\ pc'[u] = pc[u] /\ ready'[u] = ready[u]
                                          /\ agreed'[u] = agreed[u]
           /\ \A k, id, r : Brought(k, id, r) => Brought(k, id, r)'
           /\ \A id, ok : Told(id, ok) => Told(id, ok)'
           /\ \A u : AgreementId(u)' = AgreementId(u)
<1>1. \A u \in Threads : u # t => pc'[u] = pc[u] /\ ready'[u] = ready[u] /\ agreed'[u] = agreed[u]
  BY OthersSame DEF Same
<1>2. \A u \in Threads : pc[u] \notin Undecided =>
                           pc'[u] \notin Undecided /\ ready'[u] = ready[u]
  BY <1>1
<1> QED
  BY <1>1, <1>2, Kept2, ThreadsFixed

\* The all-reduces that all ranks have entered under the same number are the same, so their
\* result is what all ranks brought to that agreement.
LEMMA ReductionTold ==
    ASSUME MailTypes, CallsBrought, Aligned, LockHeld, NEW k \in Ranks,
           NEW n \in 1..Len(calls[k]), Reduced(n)
    PROVE  Told(calls[k][n].id, AllTrue(n))
<1>1. \A j \in Ranks : n \in 1..Len(calls[j])
  BY DEF Reduced, MailTypes
<1>2. \A j \in Ranks : calls[j][n].id = calls[Leader][n].id
  <2> SUFFICES ASSUME NEW j \in Passives PROVE calls[j][n].id = calls[Leader][n].id
    BY DEF Ranks
  <2>1. n \in 1..Len(calls[j]) /\ n \in 1..Len(calls[Leader]) /\ Len(calls[Leader]) \in Nat
    BY <1>1 DEF Ranks, MailTypes
  <2>2. Announced => Round = Len(calls[Leader]) + 1
    BY DEF Round
  <2>3. \/ n <= Len(calls[Leader]) /\ calls[j][n].id = calls[Leader][n].id
        \/ n = Round /\ Announced
    BY <2>1 DEF Aligned
  <2> QED
    BY <2>1, <2>2, <2>3
<1>3. \A j \in Ranks : /\ Party(j, calls[k][n].id) \in Threads
                       /\ pc[Party(j, calls[k][n].id)] \notin Undecided
                       /\ calls[j][n].ready = ready[Party(j, calls[k][n].id)]
  BY <1>1, <1>2 DEF CallsBrought, Brought
<1> QED
  BY <1>3 DEF Told, AllTrue

\* The leader announces, enters and leaves an all-reduce.
LEMMA AgreementLeader ==
    ASSUME LoadTypes, LoadsHeld, MailTypes, MailTypes', AgreementInv, UNCHANGED <<kind, prefix>>,
           NEW t \in Threads, Step(t), LeaderAgree(t)
    PROVE  AgreementInv'
<1>0. /\ CallsBrought /\ ResultsBrought /\ LockHeld /\ LeaderOnce /\ Aligned /\ OneMarker
      /\ OutcomesTold /\ AgreedTold
  BY DEF AgreementInv
<1>1. /\ Leads(t) /\ Rank(t) = Leader /\ Leader \in Ranks /\ Leader \notin Passives
      /\ UNCHANGED ready
      /\ AgreementId(t) \in Ids /\ Party(Leader, AgreementId(t)) = t
      /\ Party(Leader, AgreementId(t)) \in Threads
      /\ Marker([id |-> AgreementId(t), status |-> "skipped"])
      /\ StartOf(t) \in {"find", "move", "receive"}
  BY Parties, Identities, RanksAssumption DEF LeaderAgree, Leads, Ranks, StartOf
<1>2. pc[t] \in {"agree", "announced", "reducing"} /\ pc'[t] \notin Undecided
  BY <1>1 DEF LeaderAgree, LoadTypes, Goto, Settle, AfterAgreement, Undecided
<1>3. /\ Threads' = Threads
      /\ \A u \in Threads : u # t => /\ pc'[u] = pc[u] /\ ready'[u] = ready[u]
                                     /\ agreed'[u] = agreed[u]
      /\ \A k, id, r : Brought(k, id, r) => Brought(k, id, r)'
      /\ \A id, ok : Told(id, ok) => Told(id, ok)'
      /\ \A u : AgreementId(u)' = AgreementId(u)
  BY <1>1, <1>2, AgreementFrame DEF Undecided
<1>4. Len(calls[Leader]) \in Nat /\ \A p \in Passives : Len(calls[p]) \in Nat
  BY DEF MailTypes, Ranks
<1>5. \A n \in 1..Len(calls[Leader]) : Party(Leader, calls[Leader][n].id) \in Threads
  BY <1>1, <1>0 DEF CallsBrought, Brought
<1>6. CASE /\ pc[t] = "agree" /\ Announce(t, AgreementId(t))
           /\ Goto(t, "announced") /\ UNCHANGED agreed
  <2>1. /\ lock = NoOne /\ lock' = t /\ t # NoOne /\ pc'[t] = "announced"
        /\ UNCHANGED <<box, reader, marker, results, calls>>
        /\ \A p \in Passives :
             wire'[p] = Append(wire[p], [id |-> AgreementId(t), status |-> "skipped"])
    BY <1>1, <1>6, ThreadNotNoOne
       DEF Announce, Broadcast, HoldMailbox, KeepMailbox, Goto, LoadTypes, MailTypes
  <2>2. CallsBrought' /\ ResultsBrought' /\ OutcomesTold' /\ AgreedTold'
    BY <1>0, <1>3, <1>6, <2>1 DEF CallsBrought, ResultsBrought, OutcomesTold, AgreedTold
  <2>3. LockHeld'
    <3>1. \A u \in Threads : Leads(u) => pc[u] \notin {"announced", "reducing"}
      BY <1>0, <2>1, ThreadNotNoOne DEF LockHeld
    <3> QED
      BY <1>1, <1>3, <2>1, <3>1 DEF LockHeld, Leads, Rank
  <2>4. LeaderOnce'
    BY <1>0, <1>3, <1>5, <1>6, <2>1 DEF LeaderOnce, Party
  <2>5. ~Announced /\ Announced' /\ Round = Len(calls[Leader]) /\ Round' = Len(calls[Leader]) + 1
    BY <1>4, <2>1 DEF Announced, Round
  <2>6. \A p \in Passives : Len(calls[p]) = Len(calls[Leader])
    BY <1>0, <2>1, <2>5 DEF Aligned
  <2>7. Aligned'
    BY <1>0, <1>4, <2>1, <2>5, <2>6 DEF Aligned
  <2>8. \A p \in Passives : ~Unjoined(p) /\ \A i \in 1..Len(wire[p]) : ~Marker(wire[p][i])
    BY <1>0, <2>1 DEF OneMarker, Missed
  <2>9. \A p \in Passives : ~Unjoined(p)' /\ Missed(p, AgreementId(t))'
    BY <1>3, <1>4, <2>1, <2>5, <2>6, <2>8 DEF Unjoined, Missed
  <2>10. \A p \in Passives : \A i \in 1..Len(wire'[p]) :
           Marker(wire'[p][i]) => i = Len(wire[p]) + 1 /\ wire'[p][i].id = AgreementId(t)
    <3>1. \A p \in Passives : wire[p] \in Seq(Mail)
      BY DEF MailTypes
    <3> QED
      BY <2>1, <2>8, <3>1
  <2>11. OneMarker'
    <3>1. \A p \in Passives : \A i \in 1..Len(wire'[p]) :
            Marker(wire'[p][i]) => Missed(p, wire[p][i].id)'
      BY <1>3, <2>9, <2>10 DEF Missed
    <3> QED
      BY <2>9, <2>10, <3>1 DEF OneMarker
  <2> QED
    BY <2>2, <2>3, <2>4, <2>7, <2>11 DEF AgreementInv
<1>7. CASE /\ pc[t] = "announced" /\ LeaderReduce(AgreementId(t), ready[t]) /\ Goto(t, "reducing")
           /\ UNCHANGED agreed
  <2> DEFINE e == [id |-> AgreementId(t), ready |-> ready[t]]
  <2>1. /\ lock = t /\ t # NoOne /\ pc'[t] = "reducing"
        /\ UNCHANGED <<wire, box, reader, marker, lock, results>>
        /\ calls'[Leader] = Append(calls[Leader], e)
        /\ \A p \in Passives : calls'[p] = calls[p]
    BY <1>0, <1>1, <1>7, ThreadNotNoOne
       DEF LeaderReduce, EnterReduction, Goto, LoadTypes, MailTypes, LockHeld, Ranks
  <2>2. /\ Len(calls'[Leader]) = Len(calls[Leader]) + 1
        /\ calls'[Leader][Len(calls[Leader]) + 1] = e
        /\ \A n \in 1..Len(calls[Leader]) : calls'[Leader][n] = calls[Leader][n]
    <3>1. calls[Leader] \in Seq([id : Ids, ready : BOOLEAN]) /\ e \in [id : Ids, ready : BOOLEAN]
      BY <1>1 DEF MailTypes, LoadTypes
    <3> QED
      BY <2>1, <3>1
  <2>3. /\ t \in Threads' /\ pc'[t] \notin Undecided /\ ready'[t] = ready[t]
        /\ Party(Leader, e.id) = t /\ e.id = AgreementId(t)' /\ e.ready = ready[t]
    BY <1>1, <1>2, <1>3
  <2>4. CallsBrought'
    <3> SUFFICES ASSUME NEW k \in Ranks, NEW n \in 1..Len(calls'[k])
                 PROVE  Brought(k, calls[k][n].id, calls[k][n].ready)'
      BY DEF CallsBrought
    <3>1. CASE k # Leader
      BY <1>0, <1>3, <2>1, <3>1 DEF CallsBrought, Ranks
    <3>2. CASE k = Leader /\ n \in 1..Len(calls[Leader])
      BY <1>0, <1>1, <1>3, <2>2, <3>2 DEF CallsBrought
    <3>3. CASE k = Leader /\ n = Len(calls[Leader]) + 1
      <4>1. calls'[k][n] = e
        BY <2>2, <3>3
      <4>2. Party(k, calls'[k][n].id) = t
        BY <2>3, <3>3, <4>1
      <4> HIDE DEF e
      <4> QED
        BY <2>3, <4>1, <4>2 DEF Brought, Party
    <3> QED
      BY <1>4, <2>2, <3>1, <3>2, <3>3
  <2>5. ResultsBrought' /\ OutcomesTold' /\ AgreedTold'
    BY <1>0, <1>3, <1>7, <2>1 DEF ResultsBrought, OutcomesTold, AgreedTold
  <2>6. LockHeld'
    BY <1>0, <1>1, <1>3, <2>1 DEF LockHeld, Leads, Rank
  <2>7. LeaderOnce'
    <3>1. \A n \in 1..Len(calls[Leader]) :
            /\ Party(Leader, calls[Leader][n].id) # t
            /\ pc[Party(Leader, calls[Leader][n].id)] \notin {"agree", "announced", "reducing"}
      <4> SUFFICES ASSUME NEW n \in 1..Len(calls[Leader])
                   PROVE  /\ Party(Leader, calls[Leader][n].id) # t
                          /\ pc[Party(Leader, calls[Leader][n].id)] \notin
                               {"agree", "announced", "reducing"}
        OBVIOUS
      <4>1. Leads(Party(Leader, calls[Leader][n].id))
        BY DEF Party, Leads, Rank
      <4> QED
        BY <1>0, <1>5, <1>7, <2>1, <4>1 DEF LeaderOnce, LockHeld
    <3>2. ASSUME NEW n \in 1..Len(calls'[Leader])
          PROVE  /\ pc'[Party(Leader, calls'[Leader][n].id)] \notin {"agree", "announced"}
                 /\ pc'[Party(Leader, calls'[Leader][n].id)] = "reducing" => n = Len(calls'[Leader])
      <4>1. CASE n \in 1..Len(calls[Leader])
        BY <1>3, <1>5, <2>2, <3>1, <4>1
      <4>2. CASE n = Len(calls[Leader]) + 1
        BY <1>1, <2>1, <2>2, <4>2
      <4> QED
        BY <1>4, <2>2, <4>1, <4>2
    <3>3. Len(calls'[Leader]) > 0 /\ calls'[Leader][Len(calls'[Leader])].id = AgreementId(lock)'
      BY <1>3, <1>4, <2>1, <2>2
    <3> QED
      BY <3>2, <3>3 DEF LeaderOnce, Party
  <2>8. /\ Announced /\ ~Announced'
        /\ Round = Len(calls[Leader]) + 1 /\ Round' = Len(calls[Leader]) + 1
    <3>1. Announced /\ ~Announced'
      BY <1>7, <2>1 DEF Announced
    <3> QED
      BY <1>4, <2>2, <3>1 DEF Round
  <2>9. Aligned'
    <3> SUFFICES ASSUME NEW p \in Passives
                 PROVE  /\ Len(calls[p]) = Round \/ (lock # NoOne /\ Len(calls[p]) = Round - 1)
                        /\ \A n \in 1..Len(calls[p]) :
                             n <= Len(calls'[Leader]) /\ calls[p][n].id = calls'[Leader][n].id
      BY <2>1, <2>8 DEF Aligned
    <3>1. ASSUME NEW n \in 1..Len(calls[p])
          PROVE  n <= Len(calls'[Leader]) /\ calls[p][n].id = calls'[Leader][n].id
      <4>1. \/ n <= Len(calls[Leader]) /\ calls[p][n].id = calls[Leader][n].id
            \/ n = Len(calls[Leader]) + 1 /\ calls[p][n].id = AgreementId(t)
        BY <1>0, <2>1, <2>8 DEF Aligned
      <4> QED
        BY <1>4, <2>2, <4>1
    <3> QED
      BY <1>0, <3>1 DEF Aligned
  <2>10. OneMarker'
    BY <1>0, <1>3, <2>1, <2>8, SMTT(30) DEF OneMarker, Unjoined, Missed
  <2> QED
    BY <2>4, <2>5, <2>6, <2>7, <2>9, <2>10 DEF AgreementInv
<1>8. CASE /\ pc[t] = "reducing" /\ LeaderReduced(AgreementId(t))
           /\ Settle(t, AllTrue(CallOf(Leader, AgreementId(t))))
  <2> DEFINE m == CallOf(Leader, AgreementId(t))
  <2>1. /\ lock = t /\ t # NoOne /\ lock' = NoOne /\ Reduced(m)
        /\ UNCHANGED <<wire, box, reader, marker, results, calls>>
        /\ pc'[t] \in {"failed", "done", "find", "move", "receive"}
        /\ agreed'[t] = (IF AllTrue(m) THEN "yes" ELSE "no")
    BY <1>0, <1>1, <1>8, ThreadNotNoOne
       DEF LeaderReduced, Settle, AfterAgreement, Goto, LoadTypes, LockHeld
  <2>2. m \in 1..Len(calls[Leader]) /\ calls[Leader][m].id = AgreementId(t)
    <3>1. \E n \in 1..Len(calls[Leader]) : calls[Leader][n].id = AgreementId(t)
      BY <1>0, <1>4, <1>8, <2>1 DEF LeaderOnce
    <3> QED
      BY <3>1 DEF CallOf
  <2>3. m = Len(calls[Leader])
    BY <1>0, <1>1, <1>8, <2>2 DEF LeaderOnce
  <2>4. Told(AgreementId(t), AllTrue(m))
    BY <1>0, <1>1, <2>1, <2>2, ReductionTold
  <2>5. AgreedTold'
    <3>1. PICK ok \in BOOLEAN : ok <=> AllTrue(m)
      OBVIOUS
    <3>2. PICK id : id = AgreementId(t)
      OBVIOUS
    <3>3. Told(id, ok)'
      BY <1>3, <2>4, <3>1, <3>2 DEF Told
    <3>4. agreed'[t] = "yes" <=> ok
      BY <2>1, <3>1
    <3>5. Told(AgreementId(t), agreed[t] = "yes")'
      BY <1>3, <3>2, <3>3, <3>4 DEF Told
    <3>6. ASSUME NEW u \in Threads, u # t, agreed'[u] # "none"
          PROVE  Told(AgreementId(u), agreed[u] = "yes")'
      BY <1>0, <1>3, <3>6 DEF AgreedTold
    <3> QED
      BY <1>3, <3>5, <3>6 DEF AgreedTold
  <2>6. CallsBrought' /\ ResultsBrought' /\ OutcomesTold'
    BY <1>0, <1>3, <2>1 DEF CallsBrought, ResultsBrought, OutcomesTold
  <2>7. LockHeld'
    BY <1>0, <1>3, <2>1 DEF LockHeld, Leads, Rank
  <2>8. LeaderOnce'
    BY <1>0, <1>3, <1>5, <2>1 DEF LeaderOnce, Party
  <2>9. Round = Len(calls[Leader]) /\ ~Announced' /\ ~Announced /\ Round' = Len(calls[Leader])
    <3>1. ~Announced /\ ~Announced'
      BY <1>8, <2>1 DEF Announced
    <3> QED
      BY <1>4, <2>1, <3>1 DEF Round
  <2>10. \A p \in Passives : Len(calls[p]) = Round
    BY <1>0, <1>4, <2>1, <2>3, <2>9 DEF Aligned, Reduced, Ranks
  <2>11. Aligned'
    BY <1>0, <2>1, <2>9, <2>10 DEF Aligned
  <2>12. \A p \in Passives : ~Unjoined(p) /\ \A i \in 1..Len(wire[p]) : ~Marker(wire[p][i])
    BY <1>0, <1>4, <2>9, <2>10 DEF OneMarker, Missed
  <2>13. OneMarker'
    BY <2>1, <2>12 DEF OneMarker, Unjoined
  <2> QED
    BY <2>5, <2>6, <2>7, <2>8, <2>11, <2>13 DEF AgreementInv
<1> QED
  BY <1>6, <1>7, <1>8 DEF LeaderAgree

\* A passive rank publishes its result, reads, and takes the outcome.
LEMMA AgreementPassive ==
    ASSUME LoadTypes, LoadsHeld, MailTypes, AgreementInv, UNCHANGED <<kind, prefix>>,
           NEW t \in Threads, Step(t), PassiveAgree(t)
    PROVE  AgreementInv'
<1>0. /\ CallsBrought /\ ResultsBrought /\ LockHeld /\ LeaderOnce /\ Aligned /\ OneMarker
      /\ OutcomesTold /\ AgreedTold
  BY DEF AgreementInv
<1>1. /\ ~Leads(t) /\ Rank(t) \in Passives /\ UNCHANGED ready
      /\ AgreementId(t) \in Ids /\ Party(Rank(t), AgreementId(t)) = t
      /\ StartOf(t) \in {"find", "move", "receive"}
      /\ Leader \in Ranks /\ Rank(t) # Leader
  BY Parties, Identities, ThreadParts DEF PassiveAgree, Leads, Ranks, StartOf
<1>2. /\ pc[t] \in {"agree", "awaiting"}
      /\ pc'[t] \in {"awaiting", "done", "failed", "find", "move", "receive"}
  BY <1>1 DEF PassiveAgree, LoadTypes, Goto, Settle, AfterAgreement
<1>3. /\ Threads' = Threads
      /\ \A u \in Threads : u # t => /\ pc'[u] = pc[u] /\ ready'[u] = ready[u]
                                     /\ agreed'[u] = agreed[u]
      /\ \A k, id, r : Brought(k, id, r) => Brought(k, id, r)'
      /\ \A id, ok : Told(id, ok) => Told(id, ok)'
      /\ \A u : AgreementId(u)' = AgreementId(u)
  BY <1>1, <1>2, AgreementFrame DEF Undecided
<1>4. UNCHANGED <<lock, calls>>
  BY DEF PassiveAgree, PublishResult, Read, TakeOutcome
<1>5. CallsBrought' /\ LockHeld'
  BY <1>0, <1>1, <1>3, <1>4 DEF CallsBrought, LockHeld, Leads, Rank
<1>6. lock # t /\ (lock # NoOne => lock \in Threads)
  BY <1>0, <1>1, ThreadNotNoOne DEF LockHeld
<1>7. (Announced' <=> Announced) /\ Round' = Round
  BY <1>3, <1>4, <1>6 DEF Announced, Round
<1>8. LeaderOnce'
  <2>1. \A n \in 1..Len(calls[Leader]) :
          /\ Party(Leader, calls[Leader][n].id) \in Threads
          /\ Party(Leader, calls[Leader][n].id) # t
    BY <1>0, <1>1 DEF CallsBrought, Brought, Party, Rank
  <2> QED
    BY <1>0, <1>3, <1>4, <1>6, <2>1 DEF LeaderOnce, Party
<1>9. Aligned'
  BY <1>0, <1>3, <1>4, <1>7 DEF Aligned
<1>10. \A id : \A p \in Passives : Missed(p, id)' <=> Missed(p, id)
  BY <1>3, <1>4, <1>7 DEF Missed
<1>11. CASE PublishResult(Rank(t), AgreementId(t), ready[t]) /\ UNCHANGED agreed
  <2>1. UNCHANGED <<wire, box, reader, marker>>
    BY <1>11 DEF PublishResult
  <2>2. OneMarker' /\ OutcomesTold' /\ AgreedTold'
    BY <1>0, <1>3, <1>4, <1>10, <1>11, <2>1 DEF OneMarker, Unjoined, OutcomesTold, AgreedTold
  <2>3. ResultsBrought'
    <3>1. \A p \in Passives : \A r \in results'[p] :
            r \in results[p] \/ (p = Rank(t) /\ r.id = AgreementId(t) /\ r.ready = ready[t])
      BY <1>1, <1>11 DEF PublishResult, MailTypes
    <3>2. /\ t \in Threads' /\ pc'[t] \notin Undecided /\ ready'[t] = ready[t]
          /\ AgreementId(t)' = AgreementId(t)
      BY <1>1, <1>2, <1>3 DEF Undecided
    <3> SUFFICES ASSUME NEW p \in Passives, NEW r \in results'[p]
                 PROVE  Brought(p, r.id, r.ready)'
      BY DEF ResultsBrought
    <3>3. CASE r \in results[p]
      BY <1>0, <1>3, <3>3 DEF ResultsBrought
    <3>4. CASE p = Rank(t) /\ r.id = AgreementId(t) /\ r.ready = ready[t]
      <4>1. Party(p, r.id) = t
        BY <1>1, <3>4
      <4> QED
        BY <3>2, <3>4, <4>1 DEF Brought, Party
    <3> QED
      BY <3>1, <3>3, <3>4
  <2> QED
    BY <1>5, <1>8, <1>9, <2>2, <2>3 DEF AgreementInv
<1>12. CASE Read(t, Rank(t), AgreementId(t)) /\ UNCHANGED agreed
  <2>1. UNCHANGED results
    BY <1>12 DEF Read
  <2>2. OneMarker' /\ OutcomesTold'
    BY <1>0, <1>1, <1>3, <1>4, <1>7, <1>12, ReadMarker
  <2>3. ResultsBrought' /\ AgreedTold'
    BY <1>0, <1>3, <1>12, <2>1 DEF ResultsBrought, AgreedTold
  <2> QED
    BY <1>5, <1>8, <1>9, <2>2, <2>3 DEF AgreementInv
<1>13. CASE TakeOutcome(Rank(t), AgreementId(t)) /\ Settle(t, Agreed(Rank(t), AgreementId(t)))
  <2> DEFINE e == TheEnvelope(Rank(t), AgreementId(t))
  <2>1. e \in box[Rank(t)] /\ e.id = AgreementId(t)
    <3>1. \E x \in box[Rank(t)] : x.id = AgreementId(t)
      BY <1>13 DEF TakeOutcome, Take, Buffered
    <3> QED
      BY <3>1 DEF TheEnvelope
  <2>2. Told(AgreementId(t), e.status = "skipped")
    <3>1. Marker(e)
      BY <2>1, Parties, <1>1 DEF Marker, AgreementId
    <3> QED
      BY <1>0, <1>1, <2>1, <3>1 DEF OutcomesTold, Told
  <2>3. /\ agreed'[t] = (IF e.status = "skipped" THEN "yes" ELSE "no")
        /\ UNCHANGED <<wire, reader, marker>>
        /\ \A p \in Passives : box'[p] \subseteq box[p] /\ results'[p] \subseteq results[p]
    BY <1>13 DEF TakeOutcome, Take, Settle, Agreed, LoadTypes, MailTypes
  <2>4. AgreedTold'
    <3>1. PICK ok \in BOOLEAN : ok <=> e.status = "skipped"
      OBVIOUS
    <3>2. PICK id : id = AgreementId(t)
      OBVIOUS
    <3>3. Told(id, ok)'
      BY <1>3, <2>2, <3>1, <3>2 DEF Told
    <3>4. agreed'[t] = "yes" <=> ok
      BY <2>3, <3>1
    <3>5. Told(AgreementId(t), agreed[t] = "yes")'
      BY <1>3, <3>2, <3>3, <3>4 DEF Told
    <3>6. ASSUME NEW u \in Threads, u # t, agreed'[u] # "none"
          PROVE  Told(AgreementId(u), agreed[u] = "yes")'
      BY <1>0, <1>3, <3>6 DEF AgreedTold
    <3> QED
      BY <1>3, <3>5, <3>6 DEF AgreedTold
  <2>5. ResultsBrought' /\ OutcomesTold'
    BY <1>0, <1>3, <2>3 DEF ResultsBrought, OutcomesTold
  <2>6. OneMarker'
    BY <1>0, <1>4, <1>10, <2>3 DEF OneMarker, Unjoined
  <2> QED
    BY <1>5, <1>8, <1>9, <2>4, <2>5, <2>6 DEF AgreementInv
<1> QED
  BY <1>11, <1>12, <1>13 DEF PassiveAgree

\* The reader of a passive rank joins the missing all-reduce and leaves it with the outcome.
LEMMA AgreementServe ==
    ASSUME LoadTypes, MailTypes, AgreementInv, NEW p \in Passives, ServeAgreement(p)
    PROVE  AgreementInv'
<1>0. /\ CallsBrought /\ ResultsBrought /\ LockHeld /\ LeaderOnce /\ Aligned /\ OneMarker
      /\ OutcomesTold /\ AgreedTold
  BY DEF AgreementInv
<1>1. UNCHANGED <<kind, prefix, pc, ready, agreed, wire, lock, results>>
  BY DEF ServeAgreement, loadVars, JoinReduction, LeaveReduction
<1>2. /\ \A k, id, r : Brought(k, id, r) => Brought(k, id, r)'
      /\ \A id, ok : Told(id, ok) => Told(id, ok)'
      /\ \A u : AgreementId(u)' = AgreementId(u)
  BY <1>1, Kept2
<1>3. Threads' = Threads /\ Leader \in Ranks /\ p \in Ranks /\ p # Leader
  BY <1>1, ThreadsFixed, RanksAssumption DEF Ranks
<1>4. LockHeld' /\ ResultsBrought' /\ AgreedTold'
  BY <1>0, <1>1, <1>2, <1>3 DEF LockHeld, Leads, Rank, ResultsBrought, AgreedTold
<1>5. CASE JoinReduction(p)
  <2>1. /\ UNCHANGED <<box, reader, marker>> /\ Unjoined(p)
    BY <1>5 DEF JoinReduction, Unjoined
  <2>2. PICK r \in results[p] : r.id = marker[p].id /\ EnterReduction(p, r.id, r.ready)
    BY <1>5 DEF JoinReduction
  <2>3. r.id \in Ids /\ r.ready \in BOOLEAN /\ Brought(p, r.id, r.ready)
    BY <1>0 DEF MailTypes, ResultsBrought
  <2> DEFINE e == [id |-> r.id, ready |-> r.ready]
  <2>4. calls'[p] = Append(calls[p], e) /\ \A k \in Ranks : k # p => calls'[k] = calls[k]
    BY <1>3, <2>2, <2>3, EnterTypes
  <2>5. /\ Len(calls[p]) \in Nat /\ Len(calls'[p]) = Len(calls[p]) + 1
        /\ calls'[p][Len(calls[p]) + 1] = e
        /\ \A n \in 1..Len(calls[p]) : calls'[p][n] = calls[p][n]
    <3>1. calls[p] \in Seq([id : Ids, ready : BOOLEAN]) /\ e \in [id : Ids, ready : BOOLEAN]
      BY <1>3, <2>3 DEF MailTypes
    <3> QED
      BY <2>4, <3>1
  <2>6. /\ calls'[Leader] = calls[Leader] /\ (Announced' <=> Announced) /\ Round' = Round
        /\ Len(calls[Leader]) \in Nat
    <3>1. calls'[Leader] = calls[Leader]
      BY <1>3, <2>4
    <3>2. Announced' <=> Announced
      BY <1>1 DEF Announced
    <3>3. Round' = Round
      BY <3>1, <3>2 DEF Round
    <3>4. calls[Leader] \in Seq([id : Ids, ready : BOOLEAN])
      BY <1>3 DEF MailTypes
    <3> QED
      BY <3>1, <3>2, <3>3, <3>4
  <2>7. lock # NoOne /\ r.id = AgreementId(lock) /\ Len(calls[p]) = Round - 1 /\ Round \in Nat
    <3>1. Missed(p, marker[p].id)
      BY <1>0, <2>1 DEF OneMarker
    <3>2. Round \in Nat
      <4>1. Len(calls[Leader]) + 0 \in Nat /\ Len(calls[Leader]) + 1 \in Nat
        BY <2>6
      <4>2. CASE Announced
        BY <4>1, <4>2 DEF Round
      <4>3. CASE ~Announced
        BY <4>1, <4>3 DEF Round
      <4> QED
        BY <4>2, <4>3
    <3> QED
      BY <2>2, <3>1, <3>2 DEF Missed
  <2>8. CallsBrought'
    <3> SUFFICES ASSUME NEW k \in Ranks, NEW n \in 1..Len(calls'[k])
                 PROVE  Brought(k, calls[k][n].id, calls[k][n].ready)'
      BY DEF CallsBrought
    <3>1. CASE k # p
      BY <1>0, <1>2, <2>4, <3>1 DEF CallsBrought
    <3>2. CASE k = p /\ n \in 1..Len(calls[p])
      BY <1>0, <1>2, <1>3, <2>5, <3>2 DEF CallsBrought
    <3>3. CASE k = p /\ n = Len(calls[p]) + 1
      <4>1. Brought(p, r.id, r.ready)'
        BY <1>2, <2>3
      <4>2. calls'[k][n].id = r.id /\ calls'[k][n].ready = r.ready
        BY <2>5, <3>3
      <4> QED
        BY <3>3, <4>1, <4>2
    <3> QED
      BY <2>5, <3>1, <3>2, <3>3
  <2>9. LeaderOnce'
    BY <1>0, <1>1, <1>2, <2>6 DEF LeaderOnce, Party
  <2>10. Aligned'
    <3>1. \/ Round <= Len(calls[Leader]) /\ calls[Leader][Round].id = r.id
          \/ Announced /\ r.id = AgreementId(lock)
      <4>1. CASE Announced
        BY <2>7, <4>1
      <4>2. CASE ~Announced
        <5>1. Round = Len(calls[Leader])
          BY <4>2 DEF Round
        <5>2. lock \in Threads /\ pc[lock] = "reducing"
          BY <1>0, <2>7, <4>2 DEF LockHeld, Announced
        <5>3. calls[Leader][Len(calls[Leader])].id = AgreementId(lock)
          BY <1>0, <2>7, <5>2 DEF LeaderOnce
        <5> QED
          BY <2>6, <2>7, <5>1, <5>3
      <4> QED
        BY <4>1, <4>2
    <3> SUFFICES ASSUME NEW q \in Passives
                 PROVE  /\ \/ Len(calls'[q]) = Round
                           \/ lock # NoOne /\ Len(calls'[q]) = Round - 1
                        /\ \A n \in 1..Len(calls'[q]) :
                             \/ n <= Len(calls[Leader]) /\ calls'[q][n].id = calls[Leader][n].id
                             \/ n = Round /\ Announced /\ calls'[q][n].id = AgreementId(lock)
      BY <1>1, <1>2, <2>6 DEF Aligned
    <3>2. CASE q # p
      <4>1. calls'[q] = calls[q]
        BY <2>4, <3>2 DEF Ranks
      <4> QED
        BY <1>0, <4>1 DEF Aligned
    <3>3. CASE q = p
      <4>1. Len(calls'[p]) = Round
        BY <2>5, <2>7
      <4>2. ASSUME NEW n \in 1..Len(calls[p])
            PROVE  \/ n <= Len(calls[Leader]) /\ calls'[p][n].id = calls[Leader][n].id
                   \/ n = Round /\ Announced /\ calls'[p][n].id = AgreementId(lock)
        BY <1>0, <2>5 DEF Aligned
      <4>3. calls'[p][Round].id = r.id
        BY <2>5, <2>7
      <4> QED
        BY <2>5, <2>7, <3>1, <3>3, <4>1, <4>2, <4>3
    <3> QED
      BY <3>2, <3>3
  <2>11. OneMarker'
    <3>1. ~Unjoined(p)'
      <4>1. /\ Len(calls[p]) + 1 \in 1..Len(calls'[p])
            /\ calls'[p][Len(calls[p]) + 1].id = marker[p].id
        BY <2>2, <2>5
      <4> QED
        BY <2>1, <4>1 DEF Unjoined
    <3>2. \A i \in 1..Len(wire[p]) : ~Marker(wire[p][i])
      BY <1>0, <2>1 DEF OneMarker
    <3>3. \A q \in Passives : q # p => calls'[q] = calls[q]
      BY <2>4 DEF Ranks
    <3> QED
      <4> SUFFICES ASSUME NEW q \in Passives
                   PROVE  /\ \A i \in 1..Len(wire[q]) : Marker(wire[q][i]) =>
                               /\ ~Unjoined(q)' /\ Missed(q, wire[q][i].id)'
                               /\ \A j \in 1..Len(wire[q]) : Marker(wire[q][j]) => i = j
                          /\ Unjoined(q)' => Missed(q, marker[q].id)'
        BY <1>1, <2>1 DEF OneMarker, Marker
      <4>1. CASE q = p
        BY <3>1, <3>2, <4>1
      <4>2. CASE q # p
        BY <1>0, <1>1, <1>2, <2>1, <2>6, <3>3, <4>2 DEF OneMarker, Unjoined, Missed
      <4> QED
        BY <4>1, <4>2
  <2>12. OutcomesTold'
    BY <1>0, <1>2, <2>1 DEF OutcomesTold
  <2> QED
    BY <1>4, <2>8, <2>9, <2>10, <2>11, <2>12 DEF AgreementInv
<1>6. CASE LeaveReduction(p)
  <2>1. UNCHANGED calls /\ reader[p] # NoOne /\ reader'[p] = NoOne
        /\ \A q \in Passives : q # p => /\ reader'[q] = reader[q] /\ marker'[q] = marker[q]
                                        /\ box'[q] = box[q]
    BY <1>6 DEF LeaveReduction, MailTypes
  <2>2. PICK n \in 1..Len(calls[p]) :
          /\ calls[p][n].id = marker[p].id /\ Reduced(n)
          /\ box'[p] = box[p] \union
               {[marker[p] EXCEPT !.status = IF AllTrue(n) THEN "skipped" ELSE "error"]}
    BY <1>6 DEF LeaveReduction, MailTypes
  <2> DEFINE out == [marker[p] EXCEPT !.status = IF AllTrue(n) THEN "skipped" ELSE "error"]
  <2>3. out.id = marker[p].id /\ (out.status = "skipped" <=> AllTrue(n))
    <3>1. marker[p] \in Mail
      BY <2>1 DEF MailTypes
    <3> QED
      BY <3>1 DEF Mail
  <2>4. Told(marker[p].id, AllTrue(n))
    BY <1>0, <1>3, <2>2, ReductionTold
  <2>5. Told(out.id, out.status = "skipped")
    BY <2>3, <2>4 DEF Told
  <2>6. OutcomesTold'
    <3> HIDE DEF out
    <3>1. ASSUME NEW q \in Passives, NEW m \in box'[q], Marker(m)
          PROVE  Told(m.id, m.status = "skipped")
      BY <1>0, <2>1, <2>2, <2>5, <3>1 DEF OutcomesTold, out
    <3> QED
      BY <1>2, <3>1 DEF OutcomesTold
  <2>7. CallsBrought' /\ LeaderOnce'
    BY <1>0, <1>1, <1>2, <2>1 DEF CallsBrought, LeaderOnce, Party
  <2>8. (Announced' <=> Announced) /\ Round' = Round
    BY <1>1, <2>1 DEF Announced, Round
  <2>9. Aligned'
    BY <1>0, <1>1, <1>2, <2>1, <2>8 DEF Aligned
  <2>10. OneMarker'
    BY <1>0, <1>1, <1>2, <2>1, <2>8 DEF OneMarker, Unjoined, Missed
  <2> QED
    BY <1>4, <2>6, <2>7, <2>9, <2>10 DEF AgreementInv
<1> QED
  BY <1>5, <1>6 DEF ServeAgreement

\* Nothing is in flight at the start.
LEMMA AgreementInit == Init => MailTypes /\ AgreementInv
<1> SUFFICES ASSUME Init PROVE MailTypes /\ AgreementInv
  OBVIOUS
<1>1. /\ wire = [p \in Passives |-> <<>>] /\ box = [p \in Passives |-> {}]
      /\ reader = [p \in Passives |-> NoOne] /\ results = [p \in Passives |-> {}]
      /\ marker = [p \in Passives |-> NoEnvelope] /\ lock = NoOne
      /\ calls = [k \in Ranks |-> <<>>]
  BY DEF Init, MailboxInit
<1>2. MailTypes
  BY <1>1 DEF MailTypes
<1>3. CallsBrought /\ ResultsBrought /\ LeaderOnce /\ OutcomesTold
  BY <1>1 DEF CallsBrought, ResultsBrought, LeaderOnce, OutcomesTold, Ranks
<1>4. LockHeld
  <2>1. \A t \in Threads : pc[t] \in {"decide", "queued", "gate", "find", "move", "receive"}
    BY DEF Init, FirstPc, StartOf
  <2> QED
    BY <1>1, <2>1 DEF LockHeld
<1>5. Aligned /\ OneMarker
  BY <1>1 DEF Aligned, OneMarker, Unjoined, Announced, Round, Ranks
<1>6. AgreedTold
  BY DEF Init, AgreedTold
<1> QED
  BY <1>2, <1>3, <1>4, <1>5, <1>6 DEF AgreementInv

\* Stuttering changes no agreement.
LEMMA AgreementStutter ==
    ASSUME AgreementInv, UNCHANGED vars
    PROVE  AgreementInv'
<1>1. UNCHANGED <<wire, box, reader, marker, lock, results, calls, kind, prefix, pc, ready, agreed>>
  BY DEF vars, mailboxVars, loadVars
<1>2. Threads' = Threads /\ \A u : AgreementId(u)' = AgreementId(u)
  BY <1>1, ThreadsFixed DEF AgreementId, Req, Group
<1>3. /\ \A k, id, r : Brought(k, id, r) => Brought(k, id, r)'
      /\ \A id, ok : Told(id, ok) => Told(id, ok)'
  BY <1>1, Kept2
<1>4. (Announced' <=> Announced) /\ Round' = Round
  BY <1>1 DEF Announced, Round
<1>5. CallsBrought' /\ ResultsBrought' /\ OutcomesTold' /\ AgreedTold'
  BY <1>1, <1>2, <1>3 DEF AgreementInv, CallsBrought, ResultsBrought, OutcomesTold, AgreedTold
<1>6. LockHeld' /\ LeaderOnce'
  BY <1>1, <1>2 DEF AgreementInv, LockHeld, LeaderOnce, Leads, Rank, Party
<1>7. Aligned' /\ OneMarker'
  BY <1>1, <1>2, <1>4 DEF AgreementInv, Aligned, OneMarker, Unjoined, Missed
<1> QED
  BY <1>5, <1>6, <1>7 DEF AgreementInv

\* The agreements stay exact in every step.
LEMMA AgreementNext ==
    ASSUME LoadTypes, LoadsHeld, MailTypes, AgreementInv, [Next]_vars
    PROVE  MailTypes' /\ AgreementInv'
<1>0. MailTypes' /\ UNCHANGED <<kind, prefix>>
  BY MailTypesStep, RequestsFixed
<1>1. ASSUME NEW t \in Threads, Step(t) PROVE AgreementInv'
  <2>1. CASE LeaderAgree(t)
    BY <1>0, <1>1, <2>1, AgreementLeader
  <2>2. CASE PassiveAgree(t)
    BY <1>0, <1>1, <2>2, AgreementPassive
  <2>3. CASE ~LeaderAgree(t) /\ ~PassiveAgree(t)
    BY <1>0, <1>1, <2>3, CalmSteps, AgreementCalm
  <2> QED
    BY <2>1, <2>2, <2>3
<1>2. ASSUME NEW p \in Passives, ServeAgreement(p) PROVE AgreementInv'
  BY <1>2, AgreementServe
<1>3. ASSUME UNCHANGED vars PROVE AgreementInv'
  BY <1>3, AgreementStutter
<1> QED
  BY <1>0, <1>1, <1>2, <1>3 DEF Next

\* All agreements are exact in every reachable state.
LEMMA AgreementAlways == Spec => [](MailTypes /\ AgreementInv)
<1>1. LoadTypes /\ LoadsHeld /\ MailTypes /\ AgreementInv /\ [Next]_vars
        => (MailTypes /\ AgreementInv)'
  BY AgreementNext
<1> QED
  BY <1>1, AgreementInit, LoadsAlwaysHeld, PTL DEF Spec

\* What a rank is told of an agreement is the conjunction of what all ranks brought to
\* that agreement, although another thread of the rank may have read the marker and joined
\* the all-reduce, and all-reduces pair by nothing but their order (cache_engine.py, the
\* shared prefix and fill agreements).
THEOREM AgreementsAlwaysExact == Spec => []AgreementExact
<1>1. AgreementInv => AgreementExact
  <2> SUFFICES ASSUME AgreementInv, NEW t \in Threads, agreed[t] # "none"
               PROVE  (agreed[t] = "yes") = (\A k \in Ranks : ready[<<k, Req(t), Group(t)>>])
    BY DEF AgreementExact
  <2>1. Told(AgreementId(t), agreed[t] = "yes")
    BY DEF AgreementInv, AgreedTold
  <2>2. \A k \in Ranks : Party(k, AgreementId(t)) = <<k, Req(t), Group(t)>>
    BY Parties
  <2> QED
    BY <2>1, <2>2 DEF Told
<1> QED
  BY <1>1, AgreementAlways, PTL

-----------------------------------------------------------------------------
(***************************************************************************)
(* The views of the passive ranks.                                         *)
(***************************************************************************)

\* The thread of the leader that owns the pages of t's load.
Owner(t) == <<Leader, Req(t), Group(t)>>

\* An owner is past its preflight.
Past == {"publish", "move", "finish", "closing", "done", "failed"}

\* A passive rank has seen a batch or handles of the load; it has seen all of it.
Viewing == {"move", "final", "drain", "commit", "done"}
Viewed == {"commit", "done"}

AgreementOnly == {"decide", "agree", "announced", "reducing", "awaiting", "done", "failed"}

\* A fill loads nothing.
FillsOnlyAgree == \A t \in Threads : kind[Req(t)] = "fill" => pc[t] \in AgreementOnly

\* Only a load whose owner is past its preflight has a batch, and it has pages to load.
CompactPast ==
    \A t \in Threads : IsCompact(t) =>
      pc[Owner(t)] \in Past /\ prefix[Req(t)] < Chunks /\ kind[Req(t)] # "fill"

\* An envelope of a load tells of an owner past its preflight; a commit, of one that is done.
OwnerOf(e) == <<Leader, e.id[1], e.id[4]>>

Honest(e) ==
    e.id[2] = "load" /\ e.status # "error" =>
      /\ OwnerOf(e) \in Threads /\ pc[OwnerOf(e)] \in Past
      /\ e.status = "commit" => pc[OwnerOf(e)] = "done"

Posted ==
    \A p \in Passives : /\ \A e \in box[p] : Honest(e)
                        /\ \A n \in 1..Len(wire[p]) : Honest(wire[p][n])

\* A passive rank that has views is behind its owner, and keeps those of a batch only
\* when the owner is done.
Followed ==
    \A t \in Threads : IsPassive(t) /\ prefix[Req(t)] < Chunks /\ kind[Req(t)] # "fill" =>
      /\ pc[t] \in Viewing => pc[Owner(t)] \in Past
      /\ pc[t] \in Viewed /\ IsCompact(t) => pc[Owner(t)] = "done"

ViewsInv == FillsOnlyAgree /\ CompactPast /\ Posted /\ Followed

\* A passive rank takes the envelope e of the load of t.
OfLoad(e, t) == e.id[1] = Req(t) /\ e.id[2] = "load" /\ e.id[4] = Group(t)

\* Where a step of t leads: an owner never comes back before its preflight, a passive rank
\* goes on only with an envelope, and only an owner in its last preflight step makes a batch.
OwnerAdvances(t) ==
    Leads(t) => /\ pc[t] \in Past => pc'[t] \in Past
                /\ pc[t] = "done" => pc'[t] = "done"

ViewAdvances(t) ==
    IsPassive(t) /\ prefix[Req(t)] < Chunks /\ kind[Req(t)] # "fill" =>
      /\ pc'[t] \in Viewing =>
           \/ pc[t] \in Viewing
           \/ \E e \in box[Rank(t)] : OfLoad(e, t) /\ e.status # "error"
      /\ pc'[t] \in Viewed =>
           \/ pc[t] \in Viewed \/ ~IsCompact(t)
           \/ \E e \in box[Rank(t)] : OfLoad(e, t) /\ e.status = "commit"

BatchMade(t) ==
    \/ UNCHANGED compact
    \/ /\ compact' = compact \union {Load(t)}
       /\ pc[t] = "prepare" /\ pc'[t] = "publish" /\ Leads(t) /\ Shared(t)
       /\ prefix[Req(t)] < Chunks /\ kind[Req(t)] # "fill"

FillAgrees(t) == kind[Req(t)] = "fill" => pc'[t] \in AgreementOnly

\* The envelope a thread takes is the one of its identity.
LEMMA Taken ==
    ASSUME NEW p, NEW id, Take(p, id)
    PROVE  TheEnvelope(p, id) \in box[p] /\ TheEnvelope(p, id).id = id
<1>1. \E x \in box[p] : x.id = id
  BY DEF Take, Buffered
<1> QED
  BY <1>1 DEF TheEnvelope

\* No step of a thread leaves these paths.
LEMMA PathStep ==
    ASSUME LoadTypes, LoadsHeld, FillsOnlyAgree, [Next]_vars, NEW t \in Threads, Step(t)
    PROVE  OwnerAdvances(t) /\ ViewAdvances(t) /\ BatchMade(t) /\ FillAgrees(t)
<1>0. /\ UNCHANGED <<kind, prefix>> /\ prefix[Req(t)] \in Nat /\ Chunks \in Nat
      /\ Leads(t) => ~IsPassive(t)
      /\ StartOf(t) \in {"find", "move", "receive"}
      /\ ~IsPassive(t) => StartOf(t) = "find"
      /\ IsPassive(t) /\ prefix[Req(t)] < Chunks => StartOf(t) = "receive"
  BY RequestsFixed, ThreadParts, RetrieveAssumption
     DEF LoadTypes, IsPassive, StartOf, Missing, Required
<1>r. /\ IsPassive(t) => pc[t] \notin OwnerOnly
      /\ ~IsPassive(t) => pc[t] \notin ViewOnly
      /\ kind[Req(t)] = "fill" => pc[t] \in AgreementOnly
  BY DEF LoadsHeld, Role, FillsOnlyAgree
<1>p. Publishes(t) /\ pc[t] \in OwnerOnly => Leads(t) /\ Shared(t) /\ prefix[Req(t)] < Chunks
  <2>1. known[t] \in Int /\ known[t] <= Chunks
    BY DEF LoadsHeld, Held, Counted
  <2> QED
    BY <1>0, <1>r, <2>1 DEF Publishes, Missing, Required, IsPassive
<1>1. CASE Dequeue(t)
  BY <1>0, <1>r, <1>1 DEF LoadTypes, OwnerAdvances, ViewAdvances, BatchMade, FillAgrees, Past,
     Viewing, Viewed, AgreementOnly, OwnerOnly, ViewOnly, Dequeue, Goto
<1>2. CASE PrepareRestore(t)
  BY <1>0, <1>r, <1>2 DEF LoadTypes, OwnerAdvances, ViewAdvances, BatchMade, FillAgrees, Past,
     Viewing, Viewed, AgreementOnly, OwnerOnly, ViewOnly, PrepareRestore, Goto, Fail
<1>3. CASE ReceiveRestore(t)
  BY <1>0, <1>r, <1>3 DEF LoadTypes, OwnerAdvances, ViewAdvances, BatchMade, FillAgrees, Past,
     Viewing, Viewed, AgreementOnly, OwnerOnly, ViewOnly, ReceiveRestore, Goto
<1>4. CASE Decide(t)
  BY <1>0, <1>r, <1>4 DEF LoadTypes, OwnerAdvances, ViewAdvances, BatchMade, FillAgrees, Past,
     Viewing, Viewed, AgreementOnly, OwnerOnly, ViewOnly, Decide, Goto, Outcome, ReadPrefix,
     Fail
<1>5. CASE LeaderAgree(t)
  BY <1>0, <1>r, <1>5 DEF LoadTypes, OwnerAdvances, ViewAdvances, BatchMade, FillAgrees, Past,
     Viewing, Viewed, AgreementOnly, OwnerOnly, ViewOnly, LeaderAgree, Goto, Settle,
     AfterAgreement, Announce, LeaderReduce, LeaderReduced, EnterReduction
<1>6. CASE PassiveAgree(t)
  BY <1>0, <1>r, <1>6 DEF LoadTypes, OwnerAdvances, ViewAdvances, BatchMade, FillAgrees, Past,
     Viewing, Viewed, AgreementOnly, OwnerOnly, ViewOnly, PassiveAgree, Goto, Settle,
     AfterAgreement
<1>7. CASE FindChunks(t)
  BY <1>0, <1>r, <1>7 DEF LoadTypes, OwnerAdvances, ViewAdvances, BatchMade, FillAgrees, Past,
     Viewing, Viewed, AgreementOnly, OwnerOnly, ViewOnly, FindChunks, Goto, RecordChunks,
     Fail, Raise, Rollback, Located, Candidates
<1>8. CASE Probe(t)
  BY <1>0, <1>r, <1>8 DEF LoadTypes, OwnerAdvances, ViewAdvances, BatchMade, FillAgrees, Past,
     Viewing, Viewed, AgreementOnly, OwnerOnly, ViewOnly, Probe, Goto, Fail, Refuse, Raise,
     Rollback
<1>9. CASE Capacity(t)
  BY <1>0, <1>r, <1>9 DEF LoadTypes, OwnerAdvances, ViewAdvances, BatchMade, FillAgrees, Past,
     Viewing, Viewed, AgreementOnly, OwnerOnly, ViewOnly, Capacity, Goto, Fail, Refuse, Raise,
     Rollback, Release, DropDue
<1>10. CASE FetchPages(t)
  BY <1>0, <1>r, <1>10 DEF LoadTypes, OwnerAdvances, ViewAdvances, BatchMade, FillAgrees,
     Past, Viewing, Viewed, AgreementOnly, OwnerOnly, ViewOnly, FetchPages, Goto
<1>11. CASE PinPages(t)
  BY <1>0, <1>r, <1>11 DEF LoadTypes, OwnerAdvances, ViewAdvances, BatchMade, FillAgrees,
     Past, Viewing, Viewed, AgreementOnly, OwnerOnly, ViewOnly, PinPages, Goto, Fail, Refuse,
     Raise, Rollback, Release, DropDue
<1>12. CASE Prepare(t)
  BY <1>0, <1>r, <1>p, <1>12 DEF LoadTypes, OwnerAdvances, ViewAdvances, BatchMade,
     FillAgrees, Past, Viewing, Viewed, AgreementOnly, OwnerOnly, ViewOnly, Prepare, Goto,
     AppendToCache, Refuse, Raise, Rollback, Release, DropDue
<1>13. CASE BroadcastRefusal(t)
  BY <1>0, <1>r, <1>13 DEF LoadTypes, OwnerAdvances, ViewAdvances, BatchMade, FillAgrees,
     Past, Viewing, Viewed, AgreementOnly, OwnerOnly, ViewOnly, BroadcastRefusal, Goto, Raise,
     Rollback
<1>14. CASE PublishLayer(t)
  BY <1>0, <1>r, <1>14 DEF LoadTypes, OwnerAdvances, ViewAdvances, BatchMade, FillAgrees,
     Past, Viewing, Viewed, AgreementOnly, OwnerOnly, ViewOnly, PublishLayer, Goto, Release,
     DropDue, Fail
<1>15. CASE MoveLayer(t)
  BY <1>0, <1>r, <1>15 DEF LoadTypes, OwnerAdvances, ViewAdvances, BatchMade, FillAgrees,
     Past, Viewing, Viewed, AgreementOnly, OwnerOnly, ViewOnly, MoveLayer, Goto, Fail
<1>16. CASE CloseLoad(t)
  BY <1>0, <1>r, <1>16 DEF LoadTypes, OwnerAdvances, ViewAdvances, BatchMade, FillAgrees,
     Past, Viewing, Viewed, AgreementOnly, OwnerOnly, ViewOnly, CloseLoad, Goto, Release,
     DropDue, Raise, Rollback
<1>17. CASE FinishLoad(t)
  BY <1>0, <1>r, <1>17 DEF LoadTypes, OwnerAdvances, ViewAdvances, BatchMade, FillAgrees,
     Past, Viewing, Viewed, AgreementOnly, OwnerOnly, ViewOnly, FinishLoad, Goto
<1>18. CASE LoadDirect(t)
  BY <1>0, <1>r, <1>18 DEF LoadTypes, OwnerAdvances, ViewAdvances, BatchMade, FillAgrees,
     Past, Viewing, Viewed, AgreementOnly, OwnerOnly, ViewOnly, LoadDirect, Goto, Fail, Raise,
     Rollback
<1>19. CASE ReceiveLayer(t)
  <2>1. pc[t] = "receive" /\ UNCHANGED compact /\ pc'[t] \in {"receive", "move", "drain", "failed"}
    BY <1>0, <1>19 DEF LoadTypes, ReceiveLayer, Goto, Raise
  <2>2. ASSUME pc'[t] \in {"move", "drain"}
        PROVE  \E e \in box[Rank(t)] : OfLoad(e, t) /\ e.status # "error"
    <3> DEFINE id == Envelope(t, "load", layer[t], "ok").id
    <3>1. Take(Rank(t), id) /\ TheEnvelope(Rank(t), id).status # "error"
      BY <1>0, <1>19, <2>1, <2>2 DEF LoadTypes, ReceiveLayer, Goto, Raise
    <3>2. OfLoad(TheEnvelope(Rank(t), id), t)
      BY <3>1, Taken DEF OfLoad, Envelope
    <3> QED
      BY <3>1, <3>2, Taken
  <2> QED
    BY <1>0, <1>r, <2>1, <2>2 DEF OwnerAdvances, ViewAdvances, BatchMade, FillAgrees, Past,
       Viewing, Viewed, AgreementOnly
<1>20. CASE MoveView(t)
  BY <1>0, <1>r, <1>20 DEF LoadTypes, OwnerAdvances, ViewAdvances, BatchMade, FillAgrees,
     Past, Viewing, Viewed, AgreementOnly, OwnerOnly, ViewOnly, MoveView, Goto, Release,
     DropDue, Raise, Rollback, Fail
<1>21. CASE ReceiveFinal(t)
  <2>1. /\ pc[t] \in {"final", "drain"} /\ UNCHANGED compact
        /\ pc'[t] \in {pc[t], "commit", "failed"}
    BY <1>0, <1>21 DEF LoadTypes, ReceiveFinal, Goto, Raise
  <2>2. ASSUME pc'[t] = "commit"
        PROVE  \E e \in box[Rank(t)] : OfLoad(e, t) /\ e.status = "commit"
    <3> DEFINE id == Envelope(t, "load", Layers, "ok").id
    <3>1. Take(Rank(t), id) /\ TheEnvelope(Rank(t), id).status = "commit"
      BY <1>0, <1>21, <2>1, <2>2 DEF LoadTypes, ReceiveFinal, Goto, Raise, IsCommit, CommitStatus
    <3>2. OfLoad(TheEnvelope(Rank(t), id), t)
      BY <3>1, Taken DEF OfLoad, Envelope
    <3> QED
      BY <3>1, <3>2, Taken
  <2> QED
    BY <1>0, <1>r, <2>1, <2>2 DEF OwnerAdvances, ViewAdvances, BatchMade, FillAgrees, Past,
       Viewing, Viewed, AgreementOnly
<1>22. CASE CommitViews(t)
  BY <1>0, <1>r, <1>22 DEF LoadTypes, OwnerAdvances, ViewAdvances, BatchMade, FillAgrees,
     Past, Viewing, Viewed, AgreementOnly, OwnerOnly, ViewOnly, CommitViews, Goto,
     AppendToCache, Release, DropDue, Raise, Rollback, Fail
<1>23. CASE GiveUp(t)
  BY <1>0, <1>r, <1>23 DEF LoadTypes, OwnerAdvances, ViewAdvances, BatchMade, FillAgrees,
     Past, Viewing, Viewed, AgreementOnly, OwnerOnly, ViewOnly, GiveUp, Goto, Release,
     DropDue, Raise, Rollback
<1> QED
  BY <1>1, <1>2, <1>3, <1>4, <1>5, <1>6, <1>7, <1>8, <1>9, <1>10, <1>11, <1>12, <1>13, <1>14,
     <1>15, <1>16, <1>17, <1>18, <1>19, <1>20, <1>21, <1>22, <1>23 DEF Step

\* What an envelope tells stays true.
LEMMA HonestKept ==
    ASSUME LoadTypes, UNCHANGED <<kind, prefix>>, NEW t \in Threads, OwnerAdvances(t),
           \A u \in Threads : u # t => pc'[u] = pc[u]
    PROVE  \A e : Honest(e) => Honest(e)'
<1>1. Threads' = Threads
  BY ThreadsFixed
<1> SUFFICES ASSUME NEW e, Honest(e) PROVE Honest(e)'
  OBVIOUS
<1>2. CASE OwnerOf(e) = t
  <2>1. Leads(t)
    BY <1>2 DEF Leads, Rank, OwnerOf
  <2> QED
    BY <1>1, <1>2, <2>1 DEF Honest, OwnerAdvances, OwnerOf
<1>3. CASE OwnerOf(e) # t
  BY <1>1, <1>3 DEF Honest, OwnerOf
<1> QED
  BY <1>2, <1>3

\* All envelopes stay honest while honest ones are sent, read and taken.
LEMMA PostedKept ==
    ASSUME MailTypes, Posted, \A e : Honest(e) => Honest(e)',
           \/ UNCHANGED <<wire, box>>
           \/ \E e : Broadcast(e) /\ Honest(e)' /\ UNCHANGED box
           \/ \E p \in Passives : \E id : Take(p, id) /\ UNCHANGED wire
           \/ \E u : \E p \in Passives : \E id : Read(u, p, id)
    PROVE  Posted'
<1>1. CASE UNCHANGED <<wire, box>>
  BY <1>1 DEF Posted
<1>2. CASE \E e : Broadcast(e) /\ Honest(e)' /\ UNCHANGED box
  <2>1. PICK e : Broadcast(e) /\ Honest(e)' /\ UNCHANGED box
    BY <1>2
  <2>2. ASSUME NEW p \in Passives, NEW n \in 1..Len(wire'[p]) PROVE Honest(wire[p][n])'
    <3>1. wire[p] \in Seq(Mail) /\ wire'[p] = Append(wire[p], e)
      BY <2>1 DEF MailTypes, Broadcast
    <3>2. Len(wire'[p]) = Len(wire[p]) + 1 /\ Len(wire[p]) \in Nat
      BY <3>1
    <3>3. CASE n \in 1..Len(wire[p])
      <4>1. wire'[p][n] = wire[p][n]
        BY <3>1, <3>3
      <4>2. Honest(wire[p][n])
        BY <3>3 DEF Posted
      <4> QED
        BY <4>1, <4>2
    <3>4. CASE n = Len(wire[p]) + 1
      <4>1. wire'[p][n] = e
        BY <3>1, <3>2, <3>4
      <4> QED
        BY <2>1, <4>1
    <3> QED
      BY <3>2, <3>3, <3>4
  <2> QED
    BY <2>1, <2>2 DEF Posted
<1>3. CASE \E p \in Passives : \E id : Take(p, id) /\ UNCHANGED wire
  <2>1. \A p \in Passives : box'[p] \subseteq box[p]
    BY <1>3 DEF Take, MailTypes
  <2> QED
    BY <1>3, <2>1 DEF Posted
<1>4. CASE \E u : \E p \in Passives : \E id : Read(u, p, id)
  <2>1. PICK p \in Passives : \E u : \E id : Read(u, p, id)
    BY <1>4
  <2>2. /\ wire[p] \in Seq(Mail) /\ wire[p] # <<>>
        /\ wire'[p] = Tail(wire[p]) /\ \A q \in Passives : q # p => wire'[q] = wire[q]
        /\ \A q \in Passives :
             box'[q] \subseteq box[q] \union (IF q = p THEN {Head(wire[p])} ELSE {})
    BY <2>1 DEF MailTypes, Read
  <2>3. /\ Head(wire[p]) = wire[p][1] /\ 1 \in 1..Len(wire[p])
        /\ \A i \in 1..Len(wire'[p]) : i + 1 \in 1..Len(wire[p]) /\ wire'[p][i] = wire[p][i + 1]
    BY <2>2
  <2>4. Honest(Head(wire[p]))
    BY <2>3 DEF Posted
  <2>5. ASSUME NEW q \in Passives, NEW n \in 1..Len(wire'[q]) PROVE Honest(wire[q][n])'
    BY <2>2, <2>3, ZenonT(40) DEF Posted
  <2>6. ASSUME NEW q \in Passives, NEW e \in box'[q] PROVE Honest(e)'
    BY <2>2, <2>4 DEF Posted
  <2> QED
    BY <2>5, <2>6 DEF Posted
<1> QED
  BY <1>1, <1>2, <1>3, <1>4

\* Every step of a thread keeps the envelopes honest.
LEMMA PostedStep ==
    ASSUME LoadTypes, LoadsHeld, MailTypes, Posted, UNCHANGED <<kind, prefix>>,
           NEW t \in Threads, Step(t), \A e : Honest(e) => Honest(e)'
    PROVE  Posted'
<1>0. /\ t = <<Rank(t), Req(t), Group(t)>> /\ t \in Threads /\ Threads' = Threads
      /\ Publishes(t) /\ pc[t] \in OwnerOnly => Rank(t) = Leader
      /\ IsPassive(t) \/ ~Leads(t) => Rank(t) \in Passives
      /\ pc[t] \in ViewOnly => IsPassive(t)
  BY ThreadParts, ThreadsFixed
     DEF LoadsHeld, Role, Publishes, IsPassive, Leads, Ranks
<1>1. CASE Dequeue(t)
  BY <1>1, PostedKept DEF Dequeue, mailboxVars
<1>2. CASE PrepareRestore(t)
  <2>1. PICK e : /\ \E s : e = Envelope(t, "restore", 0, s)
                 /\ Broadcast(e) /\ UNCHANGED box
    BY <1>2 DEF PrepareRestore
  <2>2. Honest(e)'
    BY <2>1 DEF Honest, Envelope
  <2> QED
    BY <2>1, <2>2, PostedKept
<1>3. CASE ReceiveRestore(t)
  <2>1. Rank(t) \in Passives
    BY <1>0, <1>3 DEF ReceiveRestore, ViewOnly
  <2> DEFINE id == Envelope(t, "restore", 0, "ok").id
  <2>2. Read(t, Rank(t), id) \/ (Take(Rank(t), id) /\ UNCHANGED wire)
    BY <1>3 DEF ReceiveRestore
  <2> HIDE DEF id
  <2> QED
    BY <2>1, <2>2, PostedKept
<1>4. CASE Decide(t)
  BY <1>4, PostedKept DEF Decide, mailboxVars
<1>5. CASE LeaderAgree(t)
  <2>1. CASE Announce(t, AgreementId(t))
    <3>1. PICK e : e = [id |-> AgreementId(t), status |-> "skipped"]
      OBVIOUS
    <3>2. Honest(e)' /\ Broadcast(e) /\ UNCHANGED box
      BY <2>1, <3>1 DEF Honest, AgreementId, Announce
    <3> QED
      BY <3>2, PostedKept
  <2>2. CASE UNCHANGED <<wire, box>>
    BY <2>2, PostedKept
  <2> QED
    BY <1>5, <2>1, <2>2 DEF LeaderAgree, LeaderReduce, LeaderReduced
<1>6. CASE PassiveAgree(t)
  <2>1. Rank(t) \in Passives
    BY <1>0, <1>6 DEF PassiveAgree
  <2> QED
    BY <1>6, <2>1, PostedKept DEF PassiveAgree, PublishResult, TakeOutcome
<1>7. CASE FindChunks(t)
  BY <1>7, PostedKept DEF FindChunks, mailboxVars
<1>8. CASE Probe(t)
  BY <1>8, PostedKept DEF Probe, mailboxVars
<1>9. CASE Capacity(t)
  BY <1>9, PostedKept DEF Capacity, mailboxVars
<1>10. CASE FetchPages(t)
  BY <1>10, PostedKept DEF FetchPages, mailboxVars
<1>11. CASE PinPages(t)
  BY <1>11, PostedKept DEF PinPages, mailboxVars
<1>12. CASE Prepare(t)
  BY <1>12, PostedKept DEF Prepare, mailboxVars
<1>13. CASE BroadcastRefusal(t)
  <2>1. PICK e : /\ e = Envelope(t, "load", 0, "error")
                 /\ Broadcast(e) /\ UNCHANGED box
    BY <1>13 DEF BroadcastRefusal
  <2>2. Honest(e)'
    BY <2>1 DEF Honest, Envelope
  <2> QED
    BY <2>1, <2>2, PostedKept
<1>14. CASE PublishLayer(t)
  <2>1. UNCHANGED box /\ pc[t] = "publish"
    BY <1>14 DEF PublishLayer
  <2>2. CASE UNCHANGED wire
    BY <2>1, <2>2, PostedKept
  <2>3. CASE \E l : Broadcast(Envelope(t, "load", l, "error"))
    <3>1. PICK e : Broadcast(e) /\ e.status = "error"
      BY <2>3 DEF Envelope
    <3>2. Honest(e)'
      BY <3>1 DEF Honest
    <3> QED
      BY <2>1, <3>1, <3>2, PostedKept
  <2>4. CASE /\ Publishes(t) /\ pc'[t] = "move"
             /\ \E s \in {"batch", "handles"} : Broadcast(Envelope(t, "load", layer[t], s))
    <3>1. PICK s \in {"batch", "handles"} : Broadcast(Envelope(t, "load", layer[t], s))
      BY <2>4
    <3>2. PICK e : e = Envelope(t, "load", layer[t], s) /\ Broadcast(e)
      BY <3>1
    <3>3. OwnerOf(e) = t /\ e.status = s
      BY <1>0, <2>1, <2>4, <3>2 DEF OwnerOnly, OwnerOf, Envelope
    <3>4. Honest(e)'
      BY <1>0, <2>4, <3>1, <3>3 DEF Honest, OwnerOf, Past
    <3> QED
      BY <2>1, <3>2, <3>4, PostedKept
  <2>5. \/ UNCHANGED wire
        \/ \E l : Broadcast(Envelope(t, "load", l, "error"))
        \/ /\ Publishes(t) /\ pc'[t] = "move"
           /\ \E s \in {"batch", "handles"} : Broadcast(Envelope(t, "load", layer[t], s))
    BY <1>14 DEF PublishLayer, Goto, LoadTypes
  <2> QED
    BY <2>2, <2>3, <2>4, <2>5
<1>15. CASE MoveLayer(t)
  BY <1>15, PostedKept DEF MoveLayer, mailboxVars
<1>16. CASE CloseLoad(t)
  <2>1. CASE Sent(t)
    <3>1. PICK e : /\ e = Envelope(t, "load", Layers, "error")
                   /\ Broadcast(e) /\ UNCHANGED box
      BY <1>16, <2>1 DEF CloseLoad, FinalError
    <3>2. Honest(e)'
      BY <3>1 DEF Honest, Envelope
    <3> QED
      BY <3>1, <3>2, PostedKept
  <2>2. CASE ~Sent(t)
    BY <1>16, <2>2, PostedKept DEF CloseLoad
  <2> QED
    BY <2>1, <2>2
<1>17. CASE FinishLoad(t)
  <2>1. UNCHANGED box /\ pc[t] = "finish" /\ pc'[t] = "done"
    BY <1>17 DEF FinishLoad, Goto, LoadTypes
  <2>2. CASE Publishes(t) /\ Broadcast(Envelope(t, "load", Layers, "commit"))
    <3>1. PICK e : e = Envelope(t, "load", Layers, "commit")
      OBVIOUS
    <3>2. OwnerOf(e) = t /\ Broadcast(e)
      BY <1>0, <2>1, <2>2, <3>1 DEF OwnerOnly, OwnerOf, Envelope
    <3>3. Honest(e)'
      BY <1>0, <2>1, <3>2 DEF Honest, OwnerOf, Past
    <3> QED
      BY <2>1, <3>2, <3>3, PostedKept
  <2>3. CASE UNCHANGED wire
    BY <2>1, <2>3, PostedKept
  <2> QED
    BY <1>17, <2>2, <2>3 DEF FinishLoad
<1>18. CASE LoadDirect(t)
  BY <1>18, PostedKept DEF LoadDirect, mailboxVars
<1>19. CASE ReceiveLayer(t)
  <2>1. Rank(t) \in Passives
    BY <1>0, <1>19 DEF ReceiveLayer, ViewOnly
  <2> DEFINE id == Envelope(t, "load", layer[t], "ok").id
  <2>2. Read(t, Rank(t), id) \/ (Take(Rank(t), id) /\ UNCHANGED wire)
    BY <1>19 DEF ReceiveLayer
  <2> HIDE DEF id
  <2> QED
    BY <2>1, <2>2, PostedKept
<1>20. CASE MoveView(t)
  BY <1>20, PostedKept DEF MoveView, mailboxVars
<1>21. CASE ReceiveFinal(t)
  <2>1. Rank(t) \in Passives
    BY <1>0, <1>21 DEF ReceiveFinal, ViewOnly
  <2> DEFINE id == Envelope(t, "load", Layers, "ok").id
  <2>2. Read(t, Rank(t), id) \/ (Take(Rank(t), id) /\ UNCHANGED wire)
    BY <1>21 DEF ReceiveFinal
  <2> HIDE DEF id
  <2> QED
    BY <2>1, <2>2, PostedKept
<1>22. CASE CommitViews(t)
  BY <1>22, PostedKept DEF CommitViews, mailboxVars
<1>23. CASE GiveUp(t)
  BY <1>23, PostedKept DEF GiveUp, mailboxVars
<1> QED
  BY <1>1, <1>2, <1>3, <1>4, <1>5, <1>6, <1>7, <1>8, <1>9, <1>10, <1>11, <1>12, <1>13, <1>14,
     <1>15, <1>16, <1>17, <1>18, <1>19, <1>20, <1>21, <1>22, <1>23 DEF Step

\* Every step of a thread keeps the views behind their owners.
LEMMA ViewsStep ==
    ASSUME LoadTypes, LoadsHeld, MailTypes, ViewsInv, [Next]_vars, NEW t \in Threads, Step(t)
    PROVE  ViewsInv'
<1>0. /\ UNCHANGED <<kind, prefix>> /\ Threads' = Threads
      /\ \A u : IsPassive(u)' = IsPassive(u)
      /\ FillsOnlyAgree /\ CompactPast /\ Posted /\ Followed
  BY RequestsFixed, ThreadsFixed DEF ViewsInv
<1>1. OwnerAdvances(t) /\ ViewAdvances(t) /\ BatchMade(t) /\ FillAgrees(t)
  BY <1>0, PathStep
<1>2. \A u \in Threads : u # t => pc'[u] = pc[u]
  BY OthersSame DEF Same
<1>3. Posted'
  <2>1. \A e : Honest(e) => Honest(e)'
    BY <1>0, <1>1, <1>2, HonestKept
  <2> QED
    BY <1>0, <2>1, PostedStep
<1>4. FillsOnlyAgree'
  BY <1>0, <1>1, <1>2 DEF FillsOnlyAgree, FillAgrees, Req
<1>5. ASSUME NEW u \in Threads
      PROVE  /\ Owner(u) \in Threads /\ Rank(Owner(u)) = Leader
             /\ pc[Owner(u)] \in Past => pc'[Owner(u)] \in Past
             /\ pc[Owner(u)] = "done" => pc'[Owner(u)] = "done"
  <2>1. Owner(u) \in Threads /\ Rank(Owner(u)) = Leader
    BY ThreadParts DEF Owner, Ranks, Rank
  <2> QED
    BY <1>1, <1>2, <2>1 DEF OwnerAdvances, Leads
<1>6. ASSUME NEW u \in Threads, IsCompact(u)', ~IsCompact(u)
      PROVE  /\ Owner(u) = t /\ pc[t] = "prepare" /\ pc'[t] = "publish"
             /\ prefix[Req(u)] < Chunks /\ kind[Req(u)] # "fill"
  <2>1. /\ compact' = compact \union {Load(t)} /\ Leads(t)
        /\ pc[t] = "prepare" /\ pc'[t] = "publish" /\ prefix[Req(t)] < Chunks
        /\ kind[Req(t)] # "fill"
    BY <1>1, <1>6 DEF BatchMade, IsCompact, Load, Req, Group
  <2>2. Load(u) = Load(t)
    BY <1>6, <2>1 DEF IsCompact, Load, Req, Group
  <2>3. Req(u) = Req(t) /\ Group(u) = Group(t)
    BY <2>2 DEF Load
  <2>4. Owner(u) = t
    BY <2>1, <2>3, ThreadParts DEF Owner, Leads
  <2> QED
    BY <2>1, <2>3, <2>4
<1>7. CompactPast'
  <2> SUFFICES ASSUME NEW u \in Threads, IsCompact(u)'
               PROVE  pc'[Owner(u)] \in Past /\ prefix[Req(u)] < Chunks /\ kind[Req(u)] # "fill"
    BY <1>0 DEF CompactPast, Owner, Req, Group
  <2>1. CASE IsCompact(u)
    BY <1>0, <1>5, <2>1 DEF CompactPast
  <2>2. CASE ~IsCompact(u)
    BY <1>6, <2>2 DEF Past
  <2> QED
    BY <2>1, <2>2
<1>8. Followed'
  <2> SUFFICES ASSUME NEW u \in Threads, IsPassive(u), prefix[Req(u)] < Chunks,
                      kind[Req(u)] # "fill"
               PROVE  /\ pc'[u] \in Viewing => pc'[Owner(u)] \in Past
                      /\ pc'[u] \in Viewed /\ IsCompact(u)' => pc'[Owner(u)] = "done"
    BY <1>0 DEF Followed, Owner, Req, Group
  <2>0. /\ pc[u] \in Viewing => pc[Owner(u)] \in Past
        /\ pc[u] \in Viewed /\ IsCompact(u) => pc[Owner(u)] = "done"
    BY <1>0 DEF Followed
  <2>1. CASE u # t
    <3>1. pc[u] \in Viewed /\ IsCompact(u)' => IsCompact(u)
      BY <1>6, <2>0 DEF Viewed, Viewing, Past
    <3> QED
      BY <1>2, <1>5, <2>0, <2>1, <3>1
  <2>2. CASE u = t
    <3>1. Owner(t) # t /\ IsCompact(t)' = IsCompact(t)
      <4>1. ~Leads(t)
        BY <2>2 DEF IsPassive
      <4>2. Owner(t) # t
        BY <1>5, <4>1 DEF Leads
      <4>3. UNCHANGED compact
        BY <1>1, <4>1 DEF BatchMade
      <4> QED
        BY <4>2, <4>3 DEF IsCompact, Load, Req, Group
    <3>2. Rank(t) \in Passives
      BY <2>2, ThreadParts DEF IsPassive, Leads, Ranks
    <3>3. ASSUME NEW e \in box[Rank(t)], OfLoad(e, t), e.status # "error"
          PROVE  /\ pc[Owner(t)] \in Past
                 /\ e.status = "commit" => pc[Owner(t)] = "done"
      <4>1. Honest(e)
        BY <1>0, <3>2 DEF Posted
      <4>2. OwnerOf(e) = Owner(t)
        BY <3>3 DEF OwnerOf, Owner, OfLoad
      <4> QED
        BY <3>3, <4>1, <4>2 DEF Honest, OfLoad
    <3>4. pc'[t] \in Viewing => pc[Owner(t)] \in Past
      BY <1>1, <2>0, <2>2, <3>3 DEF ViewAdvances
    <3>5. pc'[t] \in Viewed /\ IsCompact(t) => pc[Owner(t)] = "done"
      BY <1>1, <2>0, <2>2, <3>3 DEF ViewAdvances
    <3> QED
      BY <1>5, <2>2, <3>1, <3>4, <3>5
  <2> QED
    BY <2>1, <2>2
<1> QED
  BY <1>3, <1>4, <1>7, <1>8 DEF ViewsInv

\* A reader that leaves its all-reduce buffers no envelope of a load.
LEMMA ViewsServe ==
    ASSUME LoadTypes, MailTypes, ViewsInv, NEW p \in Passives, ServeAgreement(p)
    PROVE  ViewsInv'
<1>1. UNCHANGED <<kind, prefix, pc, compact, wire>>
  BY DEF ServeAgreement, loadVars, JoinReduction, LeaveReduction
<1>2. /\ Threads' = Threads /\ \A u : IsPassive(u)' = IsPassive(u)
      /\ \A e : Honest(e)' <=> Honest(e)
  BY <1>1, ThreadsFixed DEF Honest, OwnerOf
<1>3. FillsOnlyAgree' /\ CompactPast' /\ Followed'
  BY <1>1, <1>2 DEF ViewsInv, FillsOnlyAgree, CompactPast, Followed, IsCompact, Load, Req, Group,
     Owner
<1>4. ASSUME NEW q \in Passives, NEW e \in box'[q] PROVE e \in box[q] \/ e.id[2] # "load"
  <2>1. CASE JoinReduction(p)
    BY <2>1, <1>4 DEF JoinReduction
  <2>2. CASE LeaveReduction(p)
    <3>1. marker[p] \in Mail /\ Marker(marker[p])
      BY <2>2 DEF LeaveReduction, MailTypes
    <3>2. e \in box[q] \/ \E s : e = [marker[p] EXCEPT !.status = s]
      <4>1. PICK x : /\ \E s : x = [marker[p] EXCEPT !.status = s]
                     /\ box' = [box EXCEPT ![p] = @ \union {x}]
        BY <2>2 DEF LeaveReduction
      <4> QED
        BY <1>4, <4>1 DEF MailTypes
    <3>3. \A s : [marker[p] EXCEPT !.status = s].id = marker[p].id
      BY <3>1 DEF Mail
    <3> QED
      BY <3>1, <3>2, <3>3 DEF Marker
  <2> QED
    BY <2>1, <2>2 DEF ServeAgreement
<1>5. Posted'
  BY <1>1, <1>2, <1>4 DEF ViewsInv, Posted, Honest
<1> QED
  BY <1>3, <1>5 DEF ViewsInv

\* No rank has seen a batch at the start.
LEMMA ViewsInit == Init => ViewsInv
<1> SUFFICES ASSUME Init PROVE ViewsInv
  OBVIOUS
<1>1. /\ wire = [p \in Passives |-> <<>>] /\ box = [p \in Passives |-> {}] /\ compact = {}
  BY DEF Init, MailboxInit
<1>2. Posted /\ CompactPast
  BY <1>1 DEF Posted, CompactPast, IsCompact
<1>3. FillsOnlyAgree
  BY DEF Init, FillsOnlyAgree, FirstPc, AgreementOnly
<1>4. Followed
  <2> SUFFICES ASSUME NEW t \in Threads, IsPassive(t), prefix[Req(t)] < Chunks
               PROVE  pc[t] \notin Viewing
    BY DEF Followed, Viewing, Viewed
  <2>1. prefix[Req(t)] \in Nat /\ Chunks \in Nat
    BY LoadsInit, ThreadParts, RetrieveAssumption DEF LoadTypes
  <2>2. StartOf(t) = "receive"
    BY <2>1 DEF StartOf, Missing, Required
  <2> QED
    BY <2>2 DEF Init, FirstPc, Viewing
<1> QED
  BY <1>2, <1>3, <1>4 DEF ViewsInv

\* Views stay behind their owners in every step.
LEMMA ViewsNext ==
    ASSUME LoadTypes, LoadsHeld, MailTypes, ViewsInv, [Next]_vars
    PROVE  ViewsInv'
<1>1. ASSUME NEW t \in Threads, Step(t) PROVE ViewsInv'
  BY <1>1, ViewsStep
<1>2. ASSUME NEW p \in Passives, ServeAgreement(p) PROVE ViewsInv'
  BY <1>2, ViewsServe
<1>3. ASSUME UNCHANGED vars PROVE ViewsInv'
  <2>1. UNCHANGED <<kind, prefix, pc, compact, wire, box>>
    BY <1>3 DEF vars, loadVars, mailboxVars
  <2>2. Threads' = Threads /\ \A u : IsPassive(u)' = IsPassive(u)
    BY <2>1, ThreadsFixed
  <2> QED
    BY <2>1, <2>2 DEF ViewsInv, FillsOnlyAgree, CompactPast, Followed, Posted, Honest, OwnerOf,
       Owner, IsCompact, Load, Req, Group
<1> QED
  BY <1>1, <1>2, <1>3 DEF Next

\* A rank keeps the views of a compact batch only if the leader committed that batch and
\* still holds, referenced and pinned, every page behind it (cache_engine.py, the compact
\* handles of retrieve and their final envelope).
THEOREM ViewsAlwaysBacked == Spec => []ViewsBacked
<1>1. LoadTypes /\ LoadsHeld /\ ViewsInv => ViewsBacked
  <2> SUFFICES ASSUME LoadTypes, LoadsHeld, ViewsInv,
                      NEW t \in Threads, IsPassive(t), IsCompact(t), pc[t] = "done"
               PROVE  /\ pc[Owner(t)] = "done"
                      /\ refs[Owner(t)] = Missing(Owner(t))
                      /\ pins[Owner(t)] = Missing(Owner(t))
    BY DEF ViewsBacked, Owner
  <2>1. prefix[Req(t)] < Chunks /\ kind[Req(t)] # "fill"
    BY DEF ViewsInv, CompactPast
  <2>2. pc[Owner(t)] = "done"
    BY <2>1 DEF ViewsInv, Followed, Viewed
  <2>3. Owner(t) \in Threads /\ Shared(Owner(t)) /\ ~IsPassive(Owner(t))
    BY ThreadParts DEF Owner, Ranks, Shared, IsPassive, Leads, Rank, Req, Group
  <2> QED
    BY <2>2, <2>3 DEF LoadsHeld, Held, DoneHeld, Missing, Required
<1>2. Spec => [](LoadTypes /\ LoadsHeld /\ MailTypes /\ ViewsInv)
  <2>1. LoadTypes /\ LoadsHeld /\ MailTypes /\ ViewsInv /\ [Next]_vars
          => (LoadTypes /\ LoadsHeld /\ MailTypes /\ ViewsInv)'
    BY LoadsNext, MailTypesStep, ViewsNext
  <2> QED
    BY <2>1, LoadsInit, AgreementInit, ViewsInit, PTL DEF Spec
<1> QED
  BY <1>1, <1>2, PTL

=============================================================================
