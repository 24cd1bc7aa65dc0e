-------------------------- MODULE PDTransferProofs --------------------------
(***************************************************************************)
(* Proofs about PDTransfer, for any number of prefillers, calls and chunks *)
(* and any buffer size: the references and the backpressure counter of a   *)
(* prefiller are exact and bounded, the decoder's pages have exactly their *)
(* owners, and a delayed pull reads pinned pages only.                     *)
(***************************************************************************)
EXTENDS PDTransfer, FiniteSetTheorems, TLAPS

-----------------------------------------------------------------------------
(* The inductive invariant *)

TaskStates == {"new", "wait", "reply", "register", "write", "returned", "raised"}
Answers == [kind : {"none", "ok", "failed", "error"}, sent : SUBSET Keys]
RxStates == [pc : {"idle", "partition", "read", "store", "ack"}, task : Tasks \cup {None},
             todo : SUBSET Keys, sent : SUBSET (Tasks \X Keys), new : SUBSET Keys]

SenderTypes ==
  /\ mode \in Modes
  /\ state \in [Tasks -> TaskStates]
  /\ refs \in [Tasks -> [Keys -> Int]]
  /\ pending \in [Tasks -> SUBSET Keys]
  /\ count \in [Senders -> Int]
  /\ early \subseteq Tasks
  /\ backoff \subseteq Senders
  /\ lapsed \subseteq Tasks

NetTypes ==
  /\ inbox \subseteq Tasks
  /\ dones \subseteq Tasks
  /\ reply \in [Tasks -> Answers]

StoreTypes ==
  /\ rx \in RxStates
  /\ data \in [Keys -> Tasks \cup {None}]
  /\ full \subseteq Tasks \X Keys
  /\ rrefs \in [Tasks -> [Keys -> Int]]
  /\ consumed \subseteq Tasks \X Keys
  /\ doneSent \subseteq Tasks
  /\ twice \subseteq Tasks \X Keys
  /\ con \in [pc : {"idle", "read"}, items : SUBSET (Tasks \X Keys)]

\* The loop works on a request that has no answer yet.
Serving == rx.pc \in {"partition", "read", "store"}

\* A request is in one place: on its way, at the loop, or answered.
AtLoop ==
  /\ rx.pc = "idle" => rx = RxIdle
  /\ rx.pc # "idle" => rx.task \in Tasks
  /\ Serving => state[rx.task] = "reply" /\ reply[rx.task].kind = "none"
  /\ rx.pc = "ack" => mode = "eager" /\ reply[rx.task].kind = "ok"
  /\ rx.pc = "read" => mode = "eager"
  /\ \A t \in inbox : state[t] = "reply" /\ reply[t].kind = "none" /\ rx.task # t

\* What a call may still do agrees with the answer it got.
Answered ==
  \A t \in Tasks :
    /\ state[t] \in {"new", "wait"} => reply[t].kind = "none"
    /\ state[t] = "register" => Pull /\ reply[t].kind = "ok"
    /\ state[t] = "write" => ~Pull /\ reply[t].kind = "ok"
    /\ reply[t].kind = "ok" => state[t] \in {"reply", "register", "write", "returned", "raised"}
    /\ reply[t].kind = "failed" => state[t] \in {"reply", "returned"}
    /\ reply[t].kind = "error" => state[t] \in {"reply", "raised"} /\ reply[t].sent = {}
    /\ reply[t].sent \subseteq KeysOf[t]

\* A prefiller has one call at a time.
OneCall ==
  \A t, u \in Tasks : SenderOf[t] = SenderOf[u] /\ Active(t) /\ Active(u) => t = u

\* The room _wait_for_backpressure found is there until the pages are registered.
RoomKept == \A t \in Tasks : Pull /\ state[t] \in {"reply", "register"} => Room(t)

\* Pages await a Done only after a call that returned, and only those it sent.
AwaitDone ==
  \A t \in Tasks : pending[t] # {} =>
    /\ Pull /\ state[t] = "returned" /\ reply[t].kind = "ok"
    /\ pending[t] \subseteq KeysOf[t] \ reply[t].sent

\* The keys of the request that is served are still to be looked up, present or new.
Split ==
  /\ rx.pc # "idle" => rx.todo \cup rx.new \subseteq KeysOf[rx.task]
  /\ \A page \in rx.sent : page[2] \in KeysOf[rx.task] /\ page[2] \notin rx.new
  /\ rx.pc = "partition" => rx.todo \cap rx.new = {} /\ \A page \in rx.sent : page[2] \notin rx.todo
  /\ rx.pc \in {"store", "ack"} => rx.todo \subseteq rx.new
  /\ rx.pc = "ack" => rx.todo = {}

\* Without proxies nothing is consumed, and a new key stays absent until it is put.
Fresh ==
  mode # "delay" =>
    /\ consumed = {} /\ doneSent = {}
    /\ rx.pc \in {"partition", "read"} => \A k \in rx.new : data[k] = None
    /\ rx.pc = "store" => \A k \in rx.todo : data[k] = None

\* The connector holds proxies or pages only while it reads.
Idling == con.pc = "idle" => con.items = {}

\* What is in the store was put for the request that is served, or for one that was granted.
Stored ==
  \A k \in Keys : data[k] # None =>
    \/ rx.pc = "store" /\ data[k] = rx.task /\ k \in rx.new \ rx.todo
    \/ reply[data[k]].kind = "ok" /\ k \in KeysOf[data[k]] \ reply[data[k]].sent

\* A key that was put in push mode is in the store or was removed by a request, and a
\* batch is taken back once.
TakenOnce ==
  /\ mode = "push" /\ rx.pc = "store" => \A k \in rx.new \ rx.todo : data[k] \in {rx.task, None}
  /\ \A page \in twice : reply[page[1]].kind = "failed"

\* A Done the prefiller sees was sent by the batch's transfer context.
DonesSent == mode = "delay" => dones \cup early \subseteq doneSent

\* A proxy under load was put for the request that is served, or for one that was
\* granted, and no request consumed it.
LoadsFresh ==
  mode = "delay" => \A page \in con.items :
    /\ page \notin consumed
    /\ \/ rx.pc = "store" /\ page[1] = rx.task /\ page[2] \in rx.new \ rx.todo
       \/ reply[page[1]].kind = "ok" /\ page[2] \in KeysOf[page[1]] \ reply[page[1]].sent

\* Without a Done or a sweep the prefiller keeps every page it advertised.
StaysPinned ==
  mode = "delay" => \A t \in Tasks \ (doneSent \cup lapsed) :
    state[t] = "returned" /\ reply[t].kind = "ok" => pending[t] = KeysOf[t] \ reply[t].sent

Types == SenderTypes /\ NetTypes /\ StoreTypes

PrefillerInv == Answered /\ OneCall /\ RoomKept /\ AwaitDone /\ SenderRefsExact /\ PinnedBounded

DecoderInv ==
  /\ AtLoop /\ Split /\ Fresh /\ Idling /\ Stored /\ TakenOnce
  /\ ReceiverRefsExact /\ VisibleIsBeingWritten

ProxyInv == DonesSent /\ LoadsFresh /\ StaysPinned

\* The inductive invariant.
PDInv == Types /\ PrefillerInv /\ DecoderInv /\ ProxyInv

-----------------------------------------------------------------------------
(* Types *)

\* Count changes the references of the given pages of one task.
LEMMA CountFacts ==
  ASSUME NEW ref \in [Tasks -> [Keys -> Int]], NEW t \in Tasks, NEW S, NEW n \in Int
  PROVE  /\ Count(ref, t, S, n) \in [Tasks -> [Keys -> Int]]
         /\ \A u \in Tasks, k \in Keys :
              Count(ref, t, S, n)[u][k] = ref[u][k] + IF u = t /\ k \in S THEN n ELSE 0
<1>1. [k \in Keys |-> ref[t][k] + (IF k \in S THEN n ELSE 0)] \in [Keys -> Int]
  OBVIOUS
<1>2. Count(ref, t, S, n) \in [Tasks -> [Keys -> Int]]
  BY <1>1 DEF Count
<1>3. ASSUME NEW u \in Tasks, NEW k \in Keys
      PROVE  Count(ref, t, S, n)[u][k] = ref[u][k] + IF u = t /\ k \in S THEN n ELSE 0
  <2>1. CASE u = t
    BY <2>1 DEF Count
  <2>2. CASE u # t
    BY <2>2 DEF Count
  <2> QED
    BY <2>1, <2>2
<1> QED
  BY <1>2, <1>3

\* A task's keys are keys, and finitely many.
LEMMA KeysFinite ==
  ASSUME NEW t \in Tasks, NEW S \in SUBSET KeysOf[t]
  PROVE  /\ KeysOf[t] \subseteq Keys
         /\ IsFiniteSet(KeysOf[t]) /\ Cardinality(KeysOf[t]) \in Nat
         /\ IsFiniteSet(S) /\ Cardinality(S) \in Nat
         /\ Cardinality(S) <= Cardinality(KeysOf[t])
<1>1. KeysOf[t] \subseteq Keys /\ IsFiniteSet(Keys)
  BY PDAssumption
<1> QED
  BY <1>1, FS_Subset, FS_CardinalityType

\* The pages of a task that await their Done are finitely many.
LEMMA PendingFinite ==
  ASSUME SenderTypes, NEW t \in Tasks
  PROVE  IsFiniteSet(pending[t]) /\ Cardinality(pending[t]) \in Nat
<1>1. pending[t] \subseteq Keys /\ IsFiniteSet(Keys)
  BY PDAssumption DEF SenderTypes
<1> QED
  BY <1>1, FS_Subset, FS_CardinalityType

\* Unpin takes one reference from every page the handler pinned.
LEMMA UnpinFacts ==
  ASSUME NEW ref \in [Tasks -> [Keys -> Int]]
  PROVE  /\ Unpin(ref) \in [Tasks -> [Keys -> Int]]
         /\ mode # "delay" => \A u \in Tasks, k \in Keys :
              Unpin(ref)[u][k] = ref[u][k] - IF <<u, k>> \in rx.sent THEN 1 ELSE 0
BY DEF Unpin

\* The keys of the pages that were present are keys.
LEMMA SentAreKeys ==
  ASSUME StoreTypes
  PROVE  SentKeys \subseteq Keys
BY DEF StoreTypes, RxStates, SentKeys

\* Every step keeps the types of the prefillers.
LEMMA SenderTypesStep ==
  ASSUME SenderTypes, [Next]_vars
  PROVE  SenderTypes'
<1>q. ASSUME UNCHANGED <<mode, state, refs, pending, count, early, backoff, lapsed>> PROVE SenderTypes'
  BY <1>q DEF SenderTypes
<1>1. ASSUME NEW t \in Tasks, Begin(t) PROVE SenderTypes'
  <2>1. refs' \in [Tasks -> [Keys -> Int]]
    BY <1>1, PDAssumption, CountFacts DEF SenderTypes, Begin, SkipTransfer
  <2> QED
    BY <1>1, <2>1, PDAssumption DEF SenderTypes, TaskStates, Go, Begin
<1>2. ASSUME NEW t \in Tasks, Submit(t) PROVE SenderTypes'
  BY <1>2, PDAssumption, CountFacts DEF SenderTypes, TaskStates, Go, Submit
<1>3. ASSUME NEW t \in Tasks, Answer(t) PROVE SenderTypes'
  <2>1. refs' \in [Tasks -> [Keys -> Int]]
    BY <1>3, PDAssumption, CountFacts DEF SenderTypes, Answer, DropAll
  <2>2. state' \in [Tasks -> TaskStates]
    BY <1>3 DEF SenderTypes, TaskStates, Go, Answer, Pull
  <2>3. backoff' \subseteq Senders
    BY <1>3, PDAssumption DEF SenderTypes, Answer
  <2> QED
    BY <1>3, <2>1, <2>2, <2>3 DEF SenderTypes, Answer
<1>4. ASSUME NEW t \in Tasks, Register(t) PROVE SenderTypes'
  <2>1. refs' \in [Tasks -> [Keys -> Int]]
    <3> DEFINE left == KeysOf[t] \ reply[t].sent
    <3> DEFINE once == Count(refs, t, left, -1)
    <3> HIDE DEF left
    <3>1. refs \in [Tasks -> [Keys -> Int]] /\ -1 \in Int
      BY DEF SenderTypes
    <3>2. once \in [Tasks -> [Keys -> Int]]
      BY ONLY <3>1, CountFacts, t \in Tasks
    <3> HIDE DEF once
    <3>3. Count(once, t, KeysOf[t], -1) \in [Tasks -> [Keys -> Int]]
      BY ONLY <3>1, <3>2, CountFacts, t \in Tasks
    <3>4. Count(refs, t, KeysOf[t], -1) \in [Tasks -> [Keys -> Int]]
      BY ONLY <3>1, CountFacts, t \in Tasks
    <3> QED
      BY <1>4, <3>1, <3>3, <3>4 DEF Register, once, left
  <2>2. KeysOf[t] \ reply[t].sent \in SUBSET KeysOf[t] /\ SenderOf[t] \in Senders
    BY PDAssumption
  <2>3. count' \in [Senders -> Int]
    BY <1>4, <2>2, KeysFinite, SMTT(30) DEF SenderTypes, Register
  <2>4. pending' \in [Tasks -> SUBSET Keys]
    BY <1>4, <2>2, KeysFinite DEF SenderTypes, Register
  <2> QED
    BY <1>4, <2>1, <2>3, <2>4 DEF SenderTypes, TaskStates, Go, Register
<1>5. ASSUME NEW t \in Tasks, Write(t) PROVE SenderTypes'
  <2>1. refs' \in [Tasks -> [Keys -> Int]]
    <3> DEFINE left == KeysOf[t] \ reply[t].sent
    <3> DEFINE once == Count(refs, t, left, -1)
    <3> HIDE DEF left
    <3>1. refs \in [Tasks -> [Keys -> Int]] /\ -1 \in Int
      BY DEF SenderTypes
    <3>2. once \in [Tasks -> [Keys -> Int]]
      BY ONLY <3>1, CountFacts, t \in Tasks
    <3> HIDE DEF once
    <3>3. Count(once, t, KeysOf[t], -1) \in [Tasks -> [Keys -> Int]]
      BY ONLY <3>1, <3>2, CountFacts, t \in Tasks
    <3>4. Count(refs, t, KeysOf[t], -1) \in [Tasks -> [Keys -> Int]]
      BY ONLY <3>1, CountFacts, t \in Tasks
    <3> QED
      BY <1>5, <3>1, <3>3, <3>4 DEF Write, once, left
  <2> QED
    BY <1>5, <2>1, PDAssumption DEF SenderTypes, TaskStates, Go, Write
<1>6. ASSUME NEW t \in Tasks, HandleDone(t) PROVE SenderTypes'
  <2>1. refs' \in [Tasks -> [Keys -> Int]]
    BY <1>6, CountFacts DEF SenderTypes, HandleDone, Pop
  <2>2. SenderOf[t] \in Senders /\ Cardinality(pending[t]) \in Int
    BY PDAssumption, PendingFinite
  <2>3. count' \in [Senders -> Int]
    BY <1>6, <2>2 DEF SenderTypes, HandleDone, Pop
  <2> QED
    BY <1>6, <2>1, <2>3 DEF SenderTypes, HandleDone, Pop
<1>7. ASSUME NEW t \in Tasks, Sweep(t) PROVE SenderTypes'
  <2>1. refs' \in [Tasks -> [Keys -> Int]]
    BY <1>7, CountFacts DEF SenderTypes, Sweep, Pop
  <2>2. SenderOf[t] \in Senders /\ Cardinality(pending[t]) \in Int
    BY PDAssumption, PendingFinite
  <2>3. count' \in [Senders -> Int]
    BY <1>7, <2>2 DEF SenderTypes, Sweep, Pop
  <2> QED
    BY <1>7, <2>1, <2>3 DEF SenderTypes, Sweep, Pop
<1>8. ASSUME NEW s \in Senders, BackoffExpires(s) PROVE SenderTypes'
  BY <1>8, PDAssumption, CountFacts DEF SenderTypes, TaskStates, Go, BackoffExpires
<1>9. ASSUME NEW t \in Tasks, Receive(t) PROVE SenderTypes'
  BY <1>9, <1>q DEF senderVars, netVars, storeVars, Receive
<1>10. ASSUME NEW k \in Keys, Partition(k) \/ Store(k) \/ Remove(k) PROVE SenderTypes'
  BY <1>10, <1>q DEF senderVars, netVars, storeVars, Partition, Store, Remove
<1>11. ASSUME NEW S \in SUBSET Keys, Load(S) PROVE SenderTypes'
  BY <1>11, <1>q DEF senderVars, netVars, storeVars, Load
<1>12. CASE \/ EagerRead \/ EagerReadEnd \/ StoreBegin \/ AllocFails \/ ReadFails \/ Reply
            \/ PostAckDone \/ LoadEnd \/ UNCHANGED vars
  BY <1>12, <1>q DEF vars, senderVars, netVars, storeVars, EagerRead, EagerReadEnd, StoreBegin,
     AllocFails, ReadFails, Reply, PostAckDone, LoadEnd
<1> QED
  BY <1>1, <1>2, <1>3, <1>4, <1>5, <1>6, <1>7, <1>8, <1>9, <1>10, <1>11, <1>12 DEF Next,
     PutStep, ListenStep, RxStep

\* Every step keeps the types of what is on its way.
LEMMA NetTypesStep ==
  ASSUME NetTypes, StoreTypes, AtLoop, [Next]_vars
  PROVE  NetTypes'
<1>q. ASSUME UNCHANGED <<inbox, reply, dones>> PROVE NetTypes'
  BY <1>q DEF NetTypes
<1>1. ASSUME NEW t \in Tasks, Submit(t) PROVE NetTypes'
  BY <1>1 DEF NetTypes, Answers, Submit
<1>2. ASSUME NEW t \in Tasks, HandleDone(t) PROVE NetTypes'
  BY <1>2 DEF NetTypes, Answers, HandleDone
<1>3. ASSUME NEW t \in Tasks, Receive(t) PROVE NetTypes'
  BY <1>3 DEF NetTypes, Answers, Receive
<1>4. ASSUME AllocFails PROVE NetTypes'
  BY <1>4, SentAreKeys DEF NetTypes, Answers, AllocFails
<1>5. ASSUME ReadFails PROVE NetTypes'
  BY <1>5 DEF NetTypes, Answers, ReadFails
<1>6. ASSUME Reply PROVE NetTypes'
  BY <1>6, SentAreKeys DEF NetTypes, Answers, Reply
<1>7. ASSUME PostAckDone PROVE NetTypes'
  BY <1>7 DEF NetTypes, AtLoop, PostAckDone, Deliver
<1>8. ASSUME LoadEnd PROVE NetTypes'
  BY <1>8 DEF NetTypes, StoreTypes, LoadEnd, Deliver, Unsent
<1>9. ASSUME NEW t \in Tasks, Begin(t) \/ Answer(t) \/ Register(t) \/ Write(t) \/ Sweep(t)
      PROVE  NetTypes'
  BY <1>9, <1>q DEF senderVars, netVars, storeVars, Begin, Answer, Register, Write, Sweep
<1>10. ASSUME NEW s \in Senders, BackoffExpires(s) PROVE NetTypes'
  BY <1>10, <1>q DEF senderVars, netVars, storeVars, BackoffExpires
<1>11. ASSUME NEW k \in Keys, Partition(k) \/ Store(k) \/ Remove(k) PROVE NetTypes'
  BY <1>11, <1>q DEF senderVars, netVars, storeVars, Partition, Store, Remove
<1>12. ASSUME NEW S \in SUBSET Keys, Load(S) PROVE NetTypes'
  BY <1>12, <1>q DEF senderVars, netVars, storeVars, Load
<1>13. CASE EagerRead \/ EagerReadEnd \/ StoreBegin \/ UNCHANGED vars
  BY <1>13, <1>q DEF vars, senderVars, netVars, storeVars, EagerRead, EagerReadEnd, StoreBegin
<1> QED
  BY <1>1, <1>2, <1>3, <1>4, <1>5, <1>6, <1>7, <1>8, <1>9, <1>10, <1>11, <1>12, <1>13 DEF Next,
     PutStep, ListenStep, RxStep

\* Every step keeps the types of the decoder.
LEMMA StoreTypesStep ==
  ASSUME SenderTypes, NetTypes, StoreTypes, AtLoop, [Next]_vars
  PROVE  StoreTypes'
<1>q. ASSUME UNCHANGED <<rx, data, full, rrefs, consumed, doneSent, twice, con>> PROVE StoreTypes'
  BY <1>q DEF StoreTypes
<1>1. ASSUME NEW t \in Tasks, Write(t) PROVE StoreTypes'
  BY <1>1, PDAssumption DEF StoreTypes, Write
<1>2. ASSUME NEW t \in Tasks, Receive(t) PROVE StoreTypes'
  <2>1. rx' \in RxStates
    BY <1>2, PDAssumption DEF StoreTypes, RxStates, RxIdle, AtLoop, Receive
  <2> QED
    BY <1>2, <2>1 DEF StoreTypes, storeVars, Receive
<1>3. ASSUME NEW k \in Keys, Partition(k) PROVE StoreTypes'
  <2>0. Present(k) => <<data[k], k>> \in Tasks \X Keys
    BY DEF StoreTypes, Present
  <2>1. rx' \in RxStates
    BY <1>3, <2>0 DEF StoreTypes, RxStates, Partition
  <2>2. rrefs' \in [Tasks -> [Keys -> Int]]
    BY <1>3, CountFacts DEF StoreTypes, AtLoop, Partition, Present
  <2> QED
    BY <1>3, <2>1, <2>2 DEF StoreTypes, storeVars, Partition
<1>4. ASSUME NEW k \in Keys, Store(k) PROVE StoreTypes'
  <2>1. rx' \in RxStates
    BY <1>4, PDAssumption DEF StoreTypes, RxStates, RxIdle, AtLoop, Store
  <2>2. rrefs' \in [Tasks -> [Keys -> Int]]
    BY <1>4, CountFacts DEF StoreTypes, AtLoop, Store
  <2> QED
    BY <1>4, <2>1, <2>2 DEF StoreTypes, storeVars, Store, AtLoop
<1>5. ASSUME NEW k \in Keys, Remove(k) PROVE StoreTypes'
  <2>2. rrefs' \in [Tasks -> [Keys -> Int]]
    BY <1>5, CountFacts DEF StoreTypes, AtLoop, Remove
  <2> QED
    BY <1>5, <2>2 DEF StoreTypes, storeVars, Remove, RxStates
<1>6. ASSUME EagerRead PROVE StoreTypes'
  <2>1. rx' \in RxStates
    BY <1>6, PDAssumption DEF StoreTypes, RxStates, RxIdle, AtLoop, EagerRead
  <2>2. rrefs' \in [Tasks -> [Keys -> Int]]
    BY <1>6, CountFacts DEF StoreTypes, AtLoop, EagerRead
  <2> QED
    BY <1>6, <2>1, <2>2 DEF StoreTypes, storeVars, EagerRead
<1>7. ASSUME EagerReadEnd PROVE StoreTypes'
  <2>1. rx' \in RxStates
    BY <1>7, PDAssumption DEF StoreTypes, RxStates, RxIdle, AtLoop, EagerReadEnd
  <2>2. {rx.task} \X rx.new \subseteq Tasks \X Keys
    BY <1>7 DEF StoreTypes, RxStates, AtLoop, EagerReadEnd
  <2> QED
    BY <1>7, <2>1, <2>2 DEF StoreTypes, storeVars, EagerReadEnd
<1>8. ASSUME StoreBegin PROVE StoreTypes'
  <2>1. rx' \in RxStates
    BY <1>8, PDAssumption DEF StoreTypes, RxStates, RxIdle, AtLoop, StoreBegin
  <2> QED
    BY <1>8, <2>1 DEF StoreTypes, storeVars, StoreBegin
<1>9. ASSUME AllocFails PROVE StoreTypes'
  <2>1. rx' \in RxStates
    BY <1>9, PDAssumption DEF StoreTypes, RxStates, RxIdle, AtLoop, AllocFails
  <2>2. Count(rrefs, rx.task, IF mode = "push" THEN rx.new \ rx.todo ELSE {}, -1)
          \in [Tasks -> [Keys -> Int]]
    BY <1>9, CountFacts DEF StoreTypes, AtLoop, AllocFails
  <2>3. rrefs' \in [Tasks -> [Keys -> Int]]
    BY <1>9, <2>2, UnpinFacts DEF AllocFails, ReleaseOnFailure
  <2> QED
    <3>1. UNCHANGED <<full, consumed, doneSent, con>> /\ data' \in [Keys -> Tasks \cup {None}]
      BY <1>9 DEF AllocFails, TakeBack, StoreTypes
    <3>2. rx.new \subseteq Keys /\ rx.task \in Tasks
      BY <1>9 DEF AllocFails, AtLoop, StoreTypes, RxStates
    <3>3. twice' \subseteq Tasks \X Keys
      BY <1>9, <3>2 DEF AllocFails, StoreTypes
    <3> QED
      BY <2>1, <2>3, <3>1, <3>3 DEF StoreTypes
<1>10. ASSUME ReadFails PROVE StoreTypes'
  <2>1. rx' \in RxStates
    BY <1>10, PDAssumption DEF StoreTypes, RxStates, RxIdle, AtLoop, ReadFails
  <2> QED
    BY <1>10, <2>1 DEF StoreTypes, storeVars, ReadFails
<1>11. ASSUME Reply PROVE StoreTypes'
  <2>1. rx' \in RxStates
    BY <1>11, PDAssumption DEF StoreTypes, RxStates, RxIdle, AtLoop, Reply
  <2>2. rrefs' \in [Tasks -> [Keys -> Int]]
    BY <1>11, UnpinFacts DEF StoreTypes, Reply
  <2> QED
    BY <1>11, <2>1, <2>2 DEF StoreTypes, storeVars, Reply
<1>12. ASSUME PostAckDone PROVE StoreTypes'
  <2>1. rx' \in RxStates
    BY <1>12, PDAssumption DEF StoreTypes, RxStates, RxIdle, AtLoop, PostAckDone
  <2> QED
    BY <1>12, <2>1 DEF StoreTypes, storeVars, PostAckDone
<1>13. ASSUME NEW S \in SUBSET Keys, Load(S) PROVE StoreTypes'
  <2>1. {<<data[k], k>> : k \in S} \subseteq Tasks \X Keys
    BY <1>13 DEF StoreTypes, Load, Present
  <2> QED
    BY <1>13, <2>1 DEF StoreTypes, storeVars, Load
<1>14. ASSUME LoadEnd PROVE StoreTypes'
  <2>1. {page[1] : page \in con.items} \subseteq Tasks
    BY DEF StoreTypes
  <2>2. rrefs' \in [Tasks -> [Keys -> Int]]
    <3>1. CASE mode = "delay"
      BY <1>14, <3>1 DEF StoreTypes, LoadEnd
    <3>2. CASE mode # "delay"
      <4>1. rrefs' = [t \in Tasks |-> [k \in Keys |->
                        rrefs[t][k] - (IF <<t, k>> \in con.items THEN 1 ELSE 0)]]
        BY <1>14, <3>2 DEF LoadEnd
      <4> QED
        BY <4>1 DEF StoreTypes
    <3> QED
      BY <3>1, <3>2
  <2>3. consumed' \subseteq Tasks \X Keys /\ doneSent' \subseteq Tasks
    BY <1>14, <2>1 DEF StoreTypes, LoadEnd, MarkConsumed
  <2> QED
    BY <1>14, <2>2, <2>3 DEF StoreTypes, storeVars, LoadEnd
<1>15. ASSUME NEW t \in Tasks, Begin(t) \/ Submit(t) \/ Answer(t) \/ Register(t)
              \/ HandleDone(t) \/ Sweep(t)
       PROVE  StoreTypes'
  BY <1>15, <1>q DEF senderVars, netVars, storeVars, Begin, Submit, Answer, Register,
     HandleDone, Sweep
<1>16. ASSUME NEW s \in Senders, BackoffExpires(s) PROVE StoreTypes'
  BY <1>16, <1>q DEF senderVars, netVars, storeVars, BackoffExpires
<1>17. CASE UNCHANGED vars
  BY <1>17, <1>q DEF vars, senderVars, netVars, storeVars
<1> QED
  BY <1>1, <1>2, <1>3, <1>4, <1>5, <1>6, <1>7, <1>8, <1>9, <1>10, <1>11, <1>12, <1>13, <1>14,
     <1>15, <1>16, <1>17 DEF Next, PutStep, ListenStep, RxStep

-----------------------------------------------------------------------------
(* What the steps do, for the proofs below *)

\* The put thread moves its own call only.
LEMMA PutMoves ==
  ASSUME SenderTypes, NEW t \in Tasks,
         Begin(t) \/ Submit(t) \/ Answer(t) \/ Register(t) \/ Write(t)
  PROVE  /\ mode' = mode /\ rx' = rx /\ reply' = reply
         /\ inbox' = IF state[t] = "wait" THEN inbox \cup {t} ELSE inbox
         /\ \A u \in Tasks : u # t => state'[u] = state[u]
         /\ \/ state[t] = "new" /\ state'[t] \in {"wait", "returned"}
            \/ state[t] = "wait" /\ state'[t] = "reply"
            \/ state[t] = "reply" /\ reply[t].kind = "failed" /\ state'[t] = "returned"
            \/ state[t] = "reply" /\ reply[t].kind = "error" /\ state'[t] = "raised"
            \/ state[t] = "reply" /\ reply[t].kind = "ok" /\ Pull /\ state'[t] = "register"
            \/ state[t] = "reply" /\ reply[t].kind = "ok" /\ ~Pull /\ state'[t] = "write"
            \/ state[t] = "register" /\ state'[t] = "returned"
            \/ state[t] = "write" /\ state'[t] \in {"returned", "raised"}
<1>1. CASE Begin(t)
  BY <1>1 DEF SenderTypes, Begin, Go, netVars
<1>2. CASE Submit(t)
  BY <1>2 DEF SenderTypes, Submit, Go
<1>3. CASE Answer(t)
  BY <1>3 DEF SenderTypes, Answer, Go, netVars
<1>4. CASE Register(t)
  BY <1>4 DEF SenderTypes, Register, Go, netVars
<1>5. CASE Write(t)
  BY <1>5 DEF SenderTypes, Write, Go, netVars
<1> QED
  BY <1>1, <1>2, <1>3, <1>4, <1>5

\* The allocation loop's steps within one request.
LEMMA LoopMoves ==
  ASSUME StoreTypes
  PROVE  /\ \A k \in Keys : Partition(k) =>
              /\ rx.pc = "partition" /\ rx'.pc = "partition" /\ k \in rx.todo
              /\ rx'.task = rx.task /\ rx'.todo = rx.todo \ {k}
              /\ Present(k) => rx'.sent = rx.sent \cup {<<data[k], k>>} /\ rx'.new = rx.new
              /\ ~Present(k) => rx'.sent = rx.sent /\ rx'.new = rx.new \cup {k}
         /\ \A k \in Keys : Store(k) =>
              /\ rx.pc = "store" /\ rx'.pc = "store" /\ k \in rx.todo
              /\ rx'.task = rx.task /\ rx'.todo = rx.todo \ {k}
              /\ rx'.sent = rx.sent /\ rx'.new = rx.new
         /\ EagerRead =>
              /\ mode = "eager" /\ rx.pc = "partition" /\ rx'.pc = "read" /\ rx.todo = {}
              /\ rx'.task = rx.task /\ rx'.todo = {} /\ rx'.sent = rx.sent /\ rx'.new = rx.new
         /\ EagerReadEnd \/ StoreBegin =>
              /\ rx.pc \in {"read", "partition"} /\ rx'.pc = "store"
              /\ rx.pc = "partition" => rx.todo = {}
              /\ rx'.task = rx.task /\ rx'.todo = rx.new /\ rx'.sent = rx.sent /\ rx'.new = rx.new
         /\ Reply =>
              /\ rx.pc = "store" /\ rx.todo = {}
              /\ mode = "eager" => rx' = [rx EXCEPT !.pc = "ack"]
              /\ mode # "eager" => rx' = RxIdle
         /\ AllocFails \/ ReadFails \/ PostAckDone => rx' = RxIdle
<1>1. ASSUME NEW k \in Keys, Partition(k)
      PROVE  /\ rx.pc = "partition" /\ rx'.pc = "partition" /\ k \in rx.todo
             /\ rx'.task = rx.task /\ rx'.todo = rx.todo \ {k}
             /\ Present(k) => rx'.sent = rx.sent \cup {<<data[k], k>>} /\ rx'.new = rx.new
             /\ ~Present(k) => rx'.sent = rx.sent /\ rx'.new = rx.new \cup {k}
  BY <1>1 DEF StoreTypes, RxStates, Partition
<1>2. ASSUME NEW k \in Keys, Store(k)
      PROVE  /\ rx.pc = "store" /\ rx'.pc = "store" /\ k \in rx.todo
             /\ rx'.task = rx.task /\ rx'.todo = rx.todo \ {k}
             /\ rx'.sent = rx.sent /\ rx'.new = rx.new
  BY <1>2 DEF StoreTypes, RxStates, Store
<1>3. EagerRead =>
        /\ mode = "eager" /\ rx.pc = "partition" /\ rx'.pc = "read" /\ rx.todo = {}
        /\ rx'.task = rx.task /\ rx'.todo = {} /\ rx'.sent = rx.sent /\ rx'.new = rx.new
  BY DEF StoreTypes, RxStates, EagerRead
<1>4. EagerReadEnd \/ StoreBegin =>
        /\ rx.pc \in {"read", "partition"} /\ rx'.pc = "store"
        /\ rx.pc = "partition" => rx.todo = {}
        /\ rx'.task = rx.task /\ rx'.todo = rx.new /\ rx'.sent = rx.sent /\ rx'.new = rx.new
  BY DEF StoreTypes, RxStates, EagerReadEnd, StoreBegin
<1>5. Reply => /\ rx.pc = "store" /\ rx.todo = {}
               /\ mode = "eager" => rx' = [rx EXCEPT !.pc = "ack"]
               /\ mode # "eager" => rx' = RxIdle
  BY DEF Reply
<1>6. AllocFails \/ ReadFails \/ PostAckDone => rx' = RxIdle
  BY DEF AllocFails, ReadFails, PostAckDone
<1> QED
  BY <1>1, <1>2, <1>3, <1>4, <1>5, <1>6

-----------------------------------------------------------------------------
(* Requests and answers *)

\* A request is in one place: on its way, at the loop, or answered.
LEMMA AtLoopStep ==
  ASSUME SenderTypes, NetTypes, StoreTypes, AtLoop, Answered, [Next]_vars
  PROVE  AtLoop'
<1>q. ASSUME UNCHANGED <<mode, rx, state, reply, inbox>> PROVE AtLoop'
  BY <1>q DEF AtLoop, Serving
<1>1. ASSUME NEW t \in Tasks, Begin(t) \/ Submit(t) \/ Answer(t) \/ Register(t) \/ Write(t)
      PROVE  AtLoop'
  <2>1. /\ mode' = mode /\ rx' = rx /\ reply' = reply
        /\ \A u \in Tasks : u # t => state'[u] = state[u]
        /\ state[t] = "reply" => reply[t].kind # "none"
        /\ state[t] # "wait" => inbox' = inbox
        /\ state[t] = "wait" => inbox' = inbox \cup {t} /\ state'[t] = "reply"
    BY <1>1, PutMoves
  <2>2. rx.task = t => rx.pc = "ack" \/ (state[t] = "reply" /\ reply[t].kind = "none")
    BY PDAssumption DEF AtLoop, Serving, RxIdle, StoreTypes, RxStates
  <2>3. state[t] = "wait" => rx.task # t /\ reply[t].kind = "none"
    BY <2>2 DEF AtLoop, Answered
  <2>4. Serving' => Serving /\ rx.task \in Tasks /\ rx.task # t
    BY <2>1, <2>2 DEF AtLoop, Serving
  <2>5. \A u \in inbox' : state'[u] = "reply" /\ reply'[u].kind = "none" /\ rx'.task # u
    BY <2>1, <2>3 DEF AtLoop, NetTypes
  <2> QED
    BY <2>1, <2>4, <2>5 DEF AtLoop, RxIdle, Serving
<1>2. ASSUME NEW t \in Tasks, Receive(t) PROVE AtLoop'
  BY <1>2, PDAssumption DEF AtLoop, Serving, RxIdle, NetTypes, StoreTypes, RxStates, senderVars,
     Receive
<1>3. ASSUME NEW k \in Keys, Partition(k) PROVE AtLoop'
  <2>1. UNCHANGED <<mode, state, reply, inbox>>
    BY <1>3 DEF Partition, senderVars, netVars
  <2>2. rx.pc = "partition" /\ rx'.pc = "partition" /\ rx'.task = rx.task
    BY <1>3, LoopMoves
  <2> QED
    BY <2>1, <2>2 DEF AtLoop, Serving
<1>4. ASSUME NEW k \in Keys, Store(k) PROVE AtLoop'
  BY <1>4, LoopMoves, PDAssumption DEF AtLoop, Serving, senderVars, netVars, Store
<1>5. ASSUME EagerRead PROVE AtLoop'
  BY <1>5, LoopMoves, PDAssumption DEF AtLoop, Serving, senderVars, netVars, EagerRead
<1>6. ASSUME EagerReadEnd PROVE AtLoop'
  BY <1>6, LoopMoves, PDAssumption DEF AtLoop, Serving, senderVars, netVars, EagerReadEnd
<1>7. ASSUME StoreBegin PROVE AtLoop'
  BY <1>7, LoopMoves, PDAssumption DEF AtLoop, Serving, senderVars, netVars, StoreBegin
<1>8. ASSUME AllocFails PROVE AtLoop'
  BY <1>8, LoopMoves, PDAssumption DEF AtLoop, Serving, RxIdle, NetTypes, StoreTypes, RxStates,
     Answers, senderVars, netVars, AllocFails
<1>9. ASSUME ReadFails PROVE AtLoop'
  BY <1>9, LoopMoves, PDAssumption DEF AtLoop, Serving, RxIdle, NetTypes, StoreTypes, RxStates,
     Answers, senderVars, netVars, ReadFails
<1>10. ASSUME Reply PROVE AtLoop'
  BY <1>10, LoopMoves, PDAssumption DEF AtLoop, Serving, RxIdle, NetTypes, StoreTypes, RxStates,
     Answers, senderVars, netVars, Reply
<1>11. ASSUME PostAckDone PROVE AtLoop'
  BY <1>11, LoopMoves, PDAssumption DEF AtLoop, Serving, RxIdle, NetTypes, StoreTypes, RxStates,
     Answers, senderVars, netVars, PostAckDone
<1>12. ASSUME NEW t \in Tasks, HandleDone(t) \/ Sweep(t) PROVE AtLoop'
  BY <1>12, <1>q DEF senderVars, netVars, storeVars, HandleDone, Sweep
<1>13. ASSUME NEW s \in Senders, BackoffExpires(s) PROVE AtLoop'
  BY <1>13, <1>q DEF senderVars, netVars, storeVars, BackoffExpires
<1>14. ASSUME NEW k \in Keys, Remove(k) PROVE AtLoop'
  BY <1>14, <1>q DEF senderVars, netVars, storeVars, Remove
<1>15. ASSUME NEW S \in SUBSET Keys, Load(S) PROVE AtLoop'
  BY <1>15, <1>q DEF senderVars, netVars, storeVars, Load
<1>16. CASE LoadEnd \/ UNCHANGED vars
  BY <1>16, <1>q DEF vars, senderVars, netVars, storeVars, LoadEnd
<1> QED
  BY <1>1, <1>2, <1>3, <1>4, <1>5, <1>6, <1>7, <1>8, <1>9, <1>10, <1>11, <1>12, <1>13, <1>14,
     <1>15, <1>16 DEF Next, PutStep, ListenStep, RxStep

\* What a call may still do agrees with the answer it got.
LEMMA AnsweredStep ==
  ASSUME SenderTypes, NetTypes, StoreTypes, AtLoop, Answered, Split, [Next]_vars
  PROVE  Answered'
<1>q. ASSUME UNCHANGED <<mode, state, reply>> PROVE Answered'
  BY <1>q DEF Answered, Pull
<1>1. ASSUME NEW t \in Tasks, Begin(t) \/ Submit(t) \/ Answer(t) \/ Register(t) \/ Write(t)
      PROVE  Answered'
  BY <1>1, PutMoves DEF Answered, Pull, NetTypes
<1>2. ASSUME AllocFails PROVE Answered'
  <2>1. SentKeys \subseteq KeysOf[rx.task] /\ rx.task \in Tasks /\ state[rx.task] = "reply"
    BY <1>2 DEF Split, SentKeys, AtLoop, Serving, AllocFails
  <2> QED
    BY <1>2, <2>1 DEF Answered, Pull, NetTypes, Answers, senderVars, AllocFails
<1>3. ASSUME ReadFails PROVE Answered'
  <2>1. rx.task \in Tasks /\ state[rx.task] = "reply"
    BY <1>3 DEF AtLoop, Serving, ReadFails
  <2> QED
    BY <1>3, <2>1 DEF Answered, Pull, NetTypes, Answers, senderVars, ReadFails
<1>4. ASSUME Reply PROVE Answered'
  <2>1. SentKeys \subseteq KeysOf[rx.task] /\ rx.task \in Tasks /\ state[rx.task] = "reply"
    BY <1>4 DEF Split, SentKeys, AtLoop, Serving, Reply
  <2> QED
    BY <1>4, <2>1 DEF Answered, Pull, NetTypes, Answers, senderVars, Reply
<1>5. ASSUME NEW t \in Tasks, HandleDone(t) \/ Sweep(t) \/ Receive(t) PROVE Answered'
  BY <1>5, <1>q DEF senderVars, netVars, storeVars, HandleDone, Sweep, Receive
<1>6. ASSUME NEW s \in Senders, BackoffExpires(s) PROVE Answered'
  BY <1>6, <1>q DEF senderVars, netVars, storeVars, BackoffExpires
<1>7. ASSUME NEW k \in Keys, Partition(k) \/ Store(k) \/ Remove(k) PROVE Answered'
  BY <1>7, <1>q DEF senderVars, netVars, storeVars, Partition, Store, Remove
<1>8. ASSUME NEW S \in SUBSET Keys, Load(S) PROVE Answered'
  BY <1>8, <1>q DEF senderVars, netVars, storeVars, Load
<1>9. CASE EagerRead \/ EagerReadEnd \/ StoreBegin \/ PostAckDone \/ LoadEnd \/ UNCHANGED vars
  BY <1>9, <1>q DEF vars, senderVars, netVars, storeVars, EagerRead, EagerReadEnd, StoreBegin,
     PostAckDone, LoadEnd
<1> QED
  BY <1>1, <1>2, <1>3, <1>4, <1>5, <1>6, <1>7, <1>8, <1>9 DEF Next, PutStep, ListenStep, RxStep

-----------------------------------------------------------------------------
(* The prefiller's side *)

\* An answer is written once, for the request that is being served.
LEMMA ReplyMoves ==
  ASSUME NetTypes, AtLoop, AllocFails \/ ReadFails \/ Reply
  PROVE  /\ rx.task \in Tasks /\ state[rx.task] = "reply"
         /\ reply[rx.task].kind = "none" /\ reply'[rx.task].kind # "none"
         /\ \A u \in Tasks : u # rx.task => reply'[u] = reply[u]
         /\ UNCHANGED <<mode, state, refs, pending, count, early, backoff, inbox, dones>>
<1>1. rx.task \in Tasks /\ state[rx.task] = "reply" /\ reply[rx.task].kind = "none"
  BY DEF AtLoop, Serving, AllocFails, ReadFails, Reply
<1>2. PICK a \in [kind : {"ok", "failed", "error"}, sent : {{}, SentKeys}] :
        reply' = [reply EXCEPT ![rx.task] = a]
  BY DEF AllocFails, ReadFails, Reply
<1>3. UNCHANGED <<mode, state, refs, pending, count, early, backoff, inbox, dones>>
  BY DEF AllocFails, ReadFails, Reply, senderVars
<1> QED
  BY <1>1, <1>2, <1>3 DEF NetTypes

\* The high-water mark is a natural number.
LEMMA HwmType == Hwm \in Nat
BY PDAssumption DEF Hwm

\* A call begins only when its prefiller is free.
LEMMA OneCallStep ==
  ASSUME SenderTypes, OneCall, [Next]_vars
  PROVE  OneCall'
<1>q. ASSUME UNCHANGED <<state>> PROVE OneCall'
  BY <1>q DEF OneCall, Active
<1>1. ASSUME NEW t \in Tasks, Begin(t) PROVE OneCall'
  BY <1>1, PutMoves DEF OneCall, Active, Begin, Free
<1>2. ASSUME NEW t \in Tasks, Submit(t) \/ Answer(t) \/ Register(t) \/ Write(t) PROVE OneCall'
  <2>1. state[t] # "new"
    BY <1>2 DEF Submit, Answer, Register, Write
  <2>2. \A u \in Tasks : Active(u)' => Active(u)
    BY <1>2, <2>1, PutMoves DEF Active
  <2> QED
    BY <2>2 DEF OneCall
<1>3. ASSUME NEW t \in Tasks, HandleDone(t) \/ Sweep(t) \/ Receive(t) PROVE OneCall'
  BY <1>3, <1>q DEF senderVars, netVars, storeVars, HandleDone, Sweep, Receive
<1>4. ASSUME NEW s \in Senders, BackoffExpires(s) PROVE OneCall'
  BY <1>4, <1>q DEF senderVars, netVars, storeVars, BackoffExpires
<1>5. ASSUME NEW k \in Keys, Partition(k) \/ Store(k) \/ Remove(k) PROVE OneCall'
  BY <1>5, <1>q DEF senderVars, netVars, storeVars, Partition, Store, Remove
<1>6. ASSUME NEW S \in SUBSET Keys, Load(S) PROVE OneCall'
  BY <1>6, <1>q DEF senderVars, netVars, storeVars, Load
<1>7. CASE \/ EagerRead \/ EagerReadEnd \/ StoreBegin \/ AllocFails \/ ReadFails \/ Reply
           \/ PostAckDone \/ LoadEnd \/ UNCHANGED vars
  BY <1>7, <1>q DEF vars, senderVars, netVars, storeVars, EagerRead, EagerReadEnd, StoreBegin,
     AllocFails, ReadFails, Reply, PostAckDone, LoadEnd
<1> QED
  BY <1>1, <1>2, <1>3, <1>4, <1>5, <1>6, <1>7 DEF Next, PutStep, ListenStep, RxStep

\* Nobody else takes the room a call was given.
LEMMA RoomKeptStep ==
  ASSUME SenderTypes, Answered, OneCall, RoomKept, [Next]_vars
  PROVE  RoomKept'
<1>q. ASSUME UNCHANGED <<mode, state, count>> PROVE RoomKept'
  BY <1>q DEF RoomKept, Room, Pull
<1>1. ASSUME NEW t \in Tasks, Begin(t) \/ Answer(t) \/ Write(t) PROVE RoomKept'
  <2>1. count' = count /\ state[t] # "wait"
    BY <1>1 DEF Begin, Answer, Write
  <2>2. mode' = mode /\ \A u \in Tasks :
          Pull /\ state'[u] \in {"reply", "register"} => state[u] \in {"reply", "register"}
    BY <1>1, <2>1, PutMoves DEF SenderTypes, Pull
  <2> QED
    BY <2>1, <2>2 DEF RoomKept, Room, Pull
<1>2. ASSUME NEW t \in Tasks, Submit(t) PROVE RoomKept'
  <2>1. count' = count /\ (Pull => Room(t))
    BY <1>2 DEF Submit
  <2>2. mode' = mode /\ \A u \in Tasks : u # t => state'[u] = state[u]
    BY <1>2, PutMoves
  <2> QED
    BY <2>1, <2>2 DEF RoomKept, Room, Pull
<1>3. ASSUME NEW t \in Tasks, Register(t) PROVE RoomKept'
  <2>1. /\ state[t] = "register" /\ state' = [state EXCEPT ![t] = "returned"] /\ mode' = mode
        /\ \A s \in Senders : s # SenderOf[t] => count'[s] = count[s]
    BY <1>3 DEF Register, Go, SenderTypes
  <2>2. \A u \in Tasks : state'[u] \in {"reply", "register"} =>
          state[u] \in {"reply", "register"} /\ SenderOf[u] # SenderOf[t]
    BY <2>1 DEF OneCall, Active, SenderTypes
  <2> QED
    BY <2>1, <2>2, PDAssumption DEF RoomKept, Room, Pull
<1>4. ASSUME NEW t \in Tasks, HandleDone(t) \/ Sweep(t) PROVE RoomKept'
  <2>1. /\ mode' = mode /\ state' = state
        /\ count' = count \/ count' = [count EXCEPT ![SenderOf[t]] = @ - Cardinality(pending[t])]
    BY <1>4 DEF HandleDone, Sweep, Pop
  <2>2. \A s \in Senders : count'[s] <= count[s] /\ count'[s] \in Int /\ count[s] \in Int
    BY <2>1, PendingFinite DEF SenderTypes
  <2>3. \A u \in Tasks : SenderOf[u] \in Senders /\ Cardinality(KeysOf[u]) \in Nat
    BY PDAssumption, KeysFinite
  <2> QED
    BY <2>1, <2>2, <2>3, HwmType DEF RoomKept, Room, Pull
<1>5. ASSUME NEW t \in Tasks, Receive(t) PROVE RoomKept'
  BY <1>5, <1>q DEF senderVars, netVars, storeVars, Receive
<1>6. ASSUME NEW s \in Senders, BackoffExpires(s) PROVE RoomKept'
  BY <1>6, <1>q DEF senderVars, netVars, storeVars, BackoffExpires
<1>7. ASSUME NEW k \in Keys, Partition(k) \/ Store(k) \/ Remove(k) PROVE RoomKept'
  BY <1>7, <1>q DEF senderVars, netVars, storeVars, Partition, Store, Remove
<1>8. ASSUME NEW S \in SUBSET Keys, Load(S) PROVE RoomKept'
  BY <1>8, <1>q DEF senderVars, netVars, storeVars, Load
<1>9. CASE \/ EagerRead \/ EagerReadEnd \/ StoreBegin \/ AllocFails \/ ReadFails \/ Reply
           \/ PostAckDone \/ LoadEnd \/ UNCHANGED vars
  BY <1>9, <1>q DEF vars, senderVars, netVars, storeVars, EagerRead, EagerReadEnd, StoreBegin,
     AllocFails, ReadFails, Reply, PostAckDone, LoadEnd
<1> QED
  BY <1>1, <1>2, <1>3, <1>4, <1>5, <1>6, <1>7, <1>8, <1>9 DEF Next, PutStep, ListenStep, RxStep

\* Pages await a Done only once their call has returned.
LEMMA AwaitDoneStep ==
  ASSUME SenderTypes, NetTypes, AtLoop, Answered, AwaitDone, [Next]_vars
  PROVE  AwaitDone'
<1>q. ASSUME UNCHANGED <<mode, state, reply, pending>> PROVE AwaitDone'
  BY <1>q DEF AwaitDone, Pull
<1>1. ASSUME NEW t \in Tasks, Begin(t) \/ Submit(t) \/ Answer(t) \/ Write(t) PROVE AwaitDone'
  <2>1. pending' = pending
    BY <1>1 DEF Begin, Submit, Answer, Write
  <2>2. mode' = mode /\ reply' = reply /\ state[t] # "returned"
        /\ \A u \in Tasks : u # t => state'[u] = state[u]
    BY <1>1, PutMoves
  <2> QED
    BY <2>1, <2>2 DEF AwaitDone, Pull
<1>2. ASSUME NEW t \in Tasks, Register(t) PROVE AwaitDone'
  <2>1. /\ state[t] = "register" /\ state' = [state EXCEPT ![t] = "returned"]
        /\ UNCHANGED <<mode, reply>>
        /\ pending' = pending \/ pending' = [pending EXCEPT ![t] = KeysOf[t] \ reply[t].sent]
    BY <1>2 DEF Register, Go, netVars
  <2> QED
    BY <2>1 DEF AwaitDone, Answered, SenderTypes, Pull
<1>3. ASSUME NEW t \in Tasks, HandleDone(t) \/ Sweep(t) PROVE AwaitDone'
  <2>1. /\ UNCHANGED <<mode, state, reply>>
        /\ pending' = pending \/ pending' = [pending EXCEPT ![t] = {}]
    BY <1>3 DEF HandleDone, Sweep, Pop, netVars
  <2> QED
    BY <2>1 DEF AwaitDone, SenderTypes, Pull
<1>4. ASSUME AllocFails \/ ReadFails \/ Reply PROVE AwaitDone'
  BY <1>4, ReplyMoves DEF AwaitDone, Pull
<1>5. ASSUME NEW t \in Tasks, Receive(t) PROVE AwaitDone'
  BY <1>5, <1>q DEF senderVars, netVars, storeVars, Receive
<1>6. ASSUME NEW s \in Senders, BackoffExpires(s) PROVE AwaitDone'
  BY <1>6, <1>q DEF senderVars, netVars, storeVars, BackoffExpires
<1>7. ASSUME NEW k \in Keys, Partition(k) \/ Store(k) \/ Remove(k) PROVE AwaitDone'
  BY <1>7, <1>q DEF senderVars, netVars, storeVars, Partition, Store, Remove
<1>8. ASSUME NEW S \in SUBSET Keys, Load(S) PROVE AwaitDone'
  BY <1>8, <1>q DEF senderVars, netVars, storeVars, Load
<1>9. CASE EagerRead \/ EagerReadEnd \/ StoreBegin \/ PostAckDone \/ LoadEnd \/ UNCHANGED vars
  BY <1>9, <1>q DEF vars, senderVars, netVars, storeVars, EagerRead, EagerReadEnd, StoreBegin,
     PostAckDone, LoadEnd
<1> QED
  BY <1>1, <1>2, <1>3, <1>4, <1>5, <1>6, <1>7, <1>8, <1>9 DEF Next, PutStep, ListenStep, RxStep

-----------------------------------------------------------------------------
(* References and backpressure *)

Awaiting(pend, s) ==
  {page \in Tasks \X Keys : SenderOf[page[1]] = s /\ page[2] \in pend[page[1]]}

\* Giving a task pages that await their Done adds them to its prefiller's.
LEMMA AwaitingAdd ==
  ASSUME NEW pend \in [Tasks -> SUBSET Keys], NEW t \in Tasks, pend[t] = {},
         NEW new \in [Tasks -> SUBSET Keys], NEW L, new[t] = L,
         \A u \in Tasks : u # t => new[u] = pend[u], NEW s
  PROVE  /\ Cardinality(Awaiting(pend, s)) \in Nat
         /\ SenderOf[t] = s =>
              Cardinality(Awaiting(new, s)) = Cardinality(Awaiting(pend, s)) + Cardinality(L)
         /\ SenderOf[t] # s => Awaiting(new, s) = Awaiting(pend, s)
<1> DEFINE old == Awaiting(pend, s)
           more == {t} \X L
<1>1. IsFiniteSet(Tasks \X Keys)
  BY PDAssumption, FS_Product
<1>2. IsFiniteSet(old) /\ Cardinality(old) \in Nat
  <2>1. old \subseteq Tasks \X Keys
    BY DEF Awaiting
  <2> QED
    BY <1>1, <2>1, FS_Subset, FS_CardinalityType
<1>3. IsFiniteSet(L) /\ Cardinality(L) \in Nat
  BY PDAssumption, FS_Subset, FS_CardinalityType
<1>4. IsFiniteSet(more) /\ Cardinality(more) = Cardinality(L)
  <2>1. IsFiniteSet({t}) /\ Cardinality({t}) = 1
    BY FS_Singleton
  <2>2. IsFiniteSet(more) /\ Cardinality(more) = Cardinality({t}) * Cardinality(L)
    BY <1>3, <2>1, FS_Product
  <2> QED
    BY <1>3, <2>1, <2>2
<1>5. CASE SenderOf[t] = s
  <2>1. Awaiting(new, s) = old \cup more
    BY <1>5 DEF Awaiting
  <2>2. old \cap more = {}
    BY DEF Awaiting
  <2> HIDE DEF old, more
  <2>3. Cardinality(old \cap more) = 0
    BY <2>2, FS_EmptySet
  <2>4. Cardinality(old \cup more) = Cardinality(old) + Cardinality(more) - Cardinality(old \cap more)
    BY <1>2, <1>4, FS_Union
  <2>5. Cardinality(Awaiting(new, s)) = Cardinality(old) + Cardinality(L)
    <3>1. Cardinality(old \cup more) = Cardinality(old) + Cardinality(L)
      BY <1>2, <1>3, <1>4, <2>3, <2>4
    <3> QED
      BY <2>1, <3>1
  <2> QED
    BY <1>2, <1>5, <2>5 DEF old
<1>6. CASE SenderOf[t] # s
  <2>1. Awaiting(new, s) = old
    BY <1>6 DEF Awaiting
  <2> QED
    BY <1>2, <1>6, <2>1
<1> QED
  BY <1>5, <1>6

\* The counter, before and after a step.
LEMMA PinnedForm ==
  /\ PinnedBounded <=> \A s \in Senders : count[s] = Cardinality(Awaiting(pending, s)) /\ count[s] <= Hwm
  /\ PinnedBounded' <=>
       \A s \in Senders : count'[s] = Cardinality(Awaiting(pending', s)) /\ count'[s] <= Hwm
BY DEF PinnedBounded, Awaiting

\* The counter is exact and bounded.
LEMMA PinnedStep ==
  ASSUME SenderTypes, Answered, RoomKept, AwaitDone, PinnedBounded, [Next]_vars
  PROVE  PinnedBounded'
<1>a. PinnedBounded
  OBVIOUS
<1>q. ASSUME UNCHANGED <<pending, count>> PROVE PinnedBounded'
  BY <1>a, <1>q, PinnedForm
<1>1. ASSUME NEW t \in Tasks, Register(t) PROVE PinnedBounded'
  <2>3. PICK left : left = KeysOf[t] \ reply[t].sent
    OBVIOUS
  <2>0. /\ left \in SUBSET Keys /\ left \in SUBSET KeysOf[t] /\ SenderOf[t] \in Senders
        /\ Cardinality(left) \in Nat /\ Cardinality(left) <= Cardinality(KeysOf[t])
        /\ Cardinality(KeysOf[t]) \in Nat
    BY <2>3, PDAssumption, KeysFinite
  <2>1. CASE pending' = pending /\ count' = count
    BY <1>a, <2>1, PinnedForm
  <2>2. CASE /\ pending' = [pending EXCEPT ![t] = left]
             /\ count' = [count EXCEPT ![SenderOf[t]] = @ + Cardinality(left)]
    <3>1. state[t] = "register" /\ Room(t) /\ pending[t] = {}
      BY <1>1 DEF Register, RoomKept, AwaitDone, Answered
    <3>2. ASSUME NEW s \in Senders
          PROVE  count'[s] = Cardinality(Awaiting(pending', s)) /\ count'[s] <= Hwm
      <4>1. /\ Cardinality(Awaiting(pending, s)) \in Nat
            /\ SenderOf[t] = s => Cardinality(Awaiting(pending', s)) =
                                    Cardinality(Awaiting(pending, s)) + Cardinality(left)
            /\ SenderOf[t] # s => Awaiting(pending', s) = Awaiting(pending, s)
        <5>1. pending \in [Tasks -> SUBSET Keys]
          BY DEF SenderTypes
        <5>2. /\ pending[t] = {} /\ pending' \in [Tasks -> SUBSET Keys] /\ pending'[t] = left
              /\ \A u \in Tasks : u # t => pending'[u] = pending[u]
          BY <2>0, <2>2, <3>1, <5>1
        <5> QED
          BY <5>1, <5>2, AwaitingAdd
      <4>2. count'[s] = count[s] + IF SenderOf[t] = s THEN Cardinality(left) ELSE 0
        BY <2>0, <2>2 DEF SenderTypes
      <4>3. count[s] = Cardinality(Awaiting(pending, s)) /\ count[s] <= Hwm
            /\ (SenderOf[t] = s => count[s] + Cardinality(KeysOf[t]) <= Hwm)
        BY <1>a, <3>1, PinnedForm DEF Room
      <4> QED
        BY <2>0, <4>1, <4>2, <4>3, HwmType
    <3> QED
      BY <3>2, PinnedForm
  <2> QED
    BY <1>1, <2>1, <2>2, <2>3 DEF Register
<1>2. ASSUME NEW t \in Tasks, HandleDone(t) \/ Sweep(t) PROVE PinnedBounded'
  <2>1. CASE pending' = pending /\ count' = count
    BY <1>a, <2>1, PinnedForm
  <2>2. CASE /\ pending' = [pending EXCEPT ![t] = {}]
             /\ count' = [count EXCEPT ![SenderOf[t]] = @ - Cardinality(pending[t])]
    <3>1. /\ pending' \in [Tasks -> SUBSET Keys] /\ pending'[t] = {} /\ pending[t] \in SUBSET Keys
          /\ \A u \in Tasks : u # t => pending[u] = pending'[u]
          /\ SenderOf[t] \in Senders /\ pending \in [Tasks -> SUBSET Keys]
      BY <2>2, PDAssumption DEF SenderTypes
    <3>2. ASSUME NEW s \in Senders
          PROVE  count'[s] = Cardinality(Awaiting(pending', s)) /\ count'[s] <= count[s]
      <4>1. /\ Cardinality(Awaiting(pending', s)) \in Nat
            /\ Cardinality(Awaiting(pending, s)) = Cardinality(Awaiting(pending', s))
                  + IF SenderOf[t] = s THEN Cardinality(pending[t]) ELSE 0
        BY <3>1, AwaitingAdd
      <4>2. count'[s] = count[s] - IF SenderOf[t] = s THEN Cardinality(pending[t]) ELSE 0
        BY <2>2, <3>1, PendingFinite DEF SenderTypes
      <4>3. count[s] = Cardinality(Awaiting(pending, s)) /\ count[s] \in Int
            /\ Cardinality(pending[t]) \in Nat
        BY <1>a, PinnedForm, PendingFinite DEF SenderTypes
      <4> QED
        BY <4>1, <4>2, <4>3
    <3>3. count' \in [Senders -> Int]
      BY <2>2, <3>1, PendingFinite DEF SenderTypes
    <3>4. \A s \in Senders : count'[s] <= Hwm
      BY <1>a, <3>2, <3>3, PinnedForm, HwmType DEF SenderTypes
    <3> QED
      BY <3>2, <3>4, PinnedForm
  <2> QED
    BY <1>2, <2>1, <2>2 DEF HandleDone, Sweep, Pop
<1>3. ASSUME NEW t \in Tasks, Begin(t) \/ Submit(t) \/ Answer(t) \/ Write(t) \/ Receive(t)
      PROVE  PinnedBounded'
  BY <1>3, <1>q DEF senderVars, netVars, storeVars, Begin, Submit, Answer, Write, Receive
<1>4. ASSUME NEW s \in Senders, BackoffExpires(s) PROVE PinnedBounded'
  BY <1>4, <1>q DEF senderVars, netVars, storeVars, BackoffExpires
<1>5. ASSUME NEW k \in Keys, Partition(k) \/ Store(k) \/ Remove(k) PROVE PinnedBounded'
  BY <1>5, <1>q DEF senderVars, netVars, storeVars, Partition, Store, Remove
<1>6. ASSUME NEW S \in SUBSET Keys, Load(S) PROVE PinnedBounded'
  BY <1>6, <1>q DEF senderVars, netVars, storeVars, Load
<1>7. CASE \/ EagerRead \/ EagerReadEnd \/ StoreBegin \/ AllocFails \/ ReadFails \/ Reply
           \/ PostAckDone \/ LoadEnd \/ UNCHANGED vars
  BY <1>7, <1>q DEF vars, senderVars, netVars, storeVars, EagerRead, EagerReadEnd, StoreBegin,
     AllocFails, ReadFails, Reply, PostAckDone, LoadEnd
<1> QED
  BY <1>1, <1>2, <1>3, <1>4, <1>5, <1>6, <1>7 DEF Next, PutStep, ListenStep, RxStep


\* The references to a page that SenderRefsExact asks for.
Owed(st, pend, sent, k) ==
  One(st \in {"wait", "reply", "register", "write", "raised"})
    + One(\/ st = "reply" \/ k \in pend
          \/ st \in {"register", "write", "raised"} /\ k \notin sent)

\* SenderRefsExact, before and after a step.
LEMMA SenderRefsForm ==
  /\ SenderRefsExact <=> \A t \in Tasks : \A k \in KeysOf[t] :
       refs[t][k] = Owed(state[t], pending[t], reply[t].sent, k)
  /\ SenderRefsExact' <=> \A t \in Tasks : \A k \in KeysOf[t] :
       refs'[t][k] = Owed(state'[t], pending'[t], reply'[t].sent, k)
BY DEF SenderRefsExact, Owed, Active, One

\* Every step keeps the references exact.
LEMMA SenderRefsStep ==
  ASSUME SenderTypes, NetTypes, AtLoop, Answered, AwaitDone, SenderRefsExact, [Next]_vars
  PROVE  SenderRefsExact'
<1>a. \A t \in Tasks : \A k \in KeysOf[t] :
        refs[t][k] = Owed(state[t], pending[t], reply[t].sent, k)
  BY SenderRefsForm
<1>b. ASSUME NEW t \in Tasks,
             \A k \in KeysOf[t] : refs'[t][k] = Owed(state'[t], pending'[t], reply'[t].sent, k),
             \A u \in Tasks : u # t => /\ state'[u] = state[u] /\ pending'[u] = pending[u]
                                       /\ reply'[u] = reply[u]
                                       /\ \A k \in KeysOf[u] : refs'[u][k] = refs[u][k]
      PROVE  SenderRefsExact'
  BY <1>a, <1>b, SenderRefsForm
<1>c. \A t \in Tasks, k \in Keys : refs[t][k] \in Int
  BY DEF SenderTypes
<1>r. refs \in [Tasks -> [Keys -> Int]] /\ state \in [Tasks -> TaskStates] /\ 1 \in Int /\ -1 \in Int
  BY DEF SenderTypes
<1>d. \A t \in Tasks : KeysOf[t] \subseteq Keys
  BY PDAssumption
<1>q. ASSUME UNCHANGED <<state, refs, pending, reply>> PROVE SenderRefsExact'
  BY <1>q, SenderRefsForm
<1>1. ASSUME NEW t \in Tasks, Begin(t) PROVE SenderRefsExact'
  <2>1. /\ state[t] = "new" /\ pending[t] = {} /\ UNCHANGED <<pending, reply>>
    BY <1>1 DEF Begin, netVars, AwaitDone
  <2>2. \/ state' = [state EXCEPT ![t] = "returned"] /\ refs' = refs
        \/ state' = [state EXCEPT ![t] = "wait"] /\ refs' = Count(refs, t, KeysOf[t], 1)
    BY <1>1 DEF Begin, Go, SkipTransfer
  <2>3. \A k \in KeysOf[t] : refs'[t][k] = Owed(state'[t], pending'[t], reply'[t].sent, k)
    <3>1. CASE state'[t] = "returned"
      BY <1>a, <1>r, <2>1, <2>2, <3>1 DEF Owed, One
    <3>2. CASE state'[t] = "wait"
      <4>1. \A k \in KeysOf[t] : refs'[t][k] = refs[t][k] + 1
        BY <1>r, <1>d, <2>2, <3>2, CountFacts
      <4> QED
        BY <1>a, <1>c, <1>d, <2>1, <3>2, <4>1 DEF Owed, One
    <3> QED
      BY <1>r, <2>2, <3>1, <3>2
  <2> QED
    BY <1>b, <1>d, <2>1, <2>2, <2>3, CountFacts DEF SenderTypes
<1>2. ASSUME NEW t \in Tasks, Submit(t) PROVE SenderRefsExact'
  <2>1. /\ state[t] = "wait" /\ pending[t] = {} /\ UNCHANGED <<pending, reply>>
        /\ state' = [state EXCEPT ![t] = "reply"] /\ refs' = Count(refs, t, KeysOf[t], 1)
    BY <1>2 DEF Submit, Go, AwaitDone
  <2>3. \A k \in KeysOf[t] : refs'[t][k] = Owed(state'[t], pending'[t], reply'[t].sent, k)
    <3>1. \A k \in KeysOf[t] : refs'[t][k] = refs[t][k] + 1
      BY <1>d, <2>1, CountFacts DEF SenderTypes
    <3>2. \A k \in KeysOf[t] : refs[t][k] = Owed("wait", {}, reply[t].sent, k)
      BY <1>a, <2>1
    <3>3. state'[t] = "reply" /\ pending'[t] = {}
      BY <2>1 DEF SenderTypes
    <3> QED
      BY <1>c, <1>d, <3>1, <3>2, <3>3 DEF Owed, One
  <2>4. \A u \in Tasks : u # t => /\ state'[u] = state[u] /\ pending'[u] = pending[u]
                                 /\ reply'[u] = reply[u]
    BY <2>1 DEF SenderTypes
  <2>5. \A u \in Tasks : u # t => \A k \in Keys : refs'[u][k] = refs[u][k]
    BY <1>c, <2>1, CountFacts DEF SenderTypes
  <2> QED
    BY <1>b, <1>d, <2>3, <2>4, <2>5
<1>3. ASSUME NEW t \in Tasks, Answer(t) PROVE SenderRefsExact'
  <2>1. state[t] = "reply" /\ pending[t] = {} /\ UNCHANGED <<pending, reply>>
    BY <1>3 DEF Answer, netVars, AwaitDone
  <2>2. \/ state' = [state EXCEPT ![t] = "returned"] /\ refs' = Count(refs, t, KeysOf[t], -2)
        \/ state' = [state EXCEPT ![t] = "raised"] /\ refs' = refs /\ reply[t].kind = "error"
        \/ /\ \E w \in {"register", "write"} : state' = [state EXCEPT ![t] = w]
           /\ refs' = Count(refs, t, reply[t].sent, -1)
    BY <1>3 DEF Answer, Go, DropAll
  <2>3. reply[t].kind = "error" => reply[t].sent = {}
    BY DEF Answered
  <2>4. \A k \in KeysOf[t] : refs'[t][k] = Owed(state'[t], pending'[t], reply'[t].sent, k)
    BY <1>a, <1>c, <1>d, <2>1, <2>2, <2>3, CountFacts DEF Owed, One, SenderTypes
  <2> QED
    BY <1>b, <1>d, <2>1, <2>2, <2>4, CountFacts DEF SenderTypes
<1>4. ASSUME NEW t \in Tasks, Register(t) PROVE SenderRefsExact'
  <2> DEFINE left == KeysOf[t] \ reply[t].sent
             once == Count(refs, t, left, -1)
  <2>1. /\ state[t] = "register" /\ pending[t] = {} /\ UNCHANGED reply
        /\ state' = [state EXCEPT ![t] = "returned"]
    BY <1>4 DEF Register, netVars, Go, AwaitDone
  <2>2. \/ pending' = [pending EXCEPT ![t] = left] /\ refs' = Count(refs, t, KeysOf[t], -1)
        \/ pending' = pending /\ refs' = Count(once, t, KeysOf[t], -1)
    BY <1>4 DEF Register
  <2>3. once \in [Tasks -> [Keys -> Int]] /\ \A u \in Tasks, k \in Keys :
          once[u][k] = refs[u][k] + IF u = t /\ k \in left THEN -1 ELSE 0
    BY <1>r, CountFacts
  <2> HIDE DEF once
  <2>4. \A u \in Tasks, k \in Keys :
          Count(once, t, KeysOf[t], -1)[u][k] = once[u][k] + IF u = t /\ k \in KeysOf[t] THEN -1 ELSE 0
    BY <2>3, CountFacts
  <2>8. \A u \in Tasks, k \in Keys :
          Count(refs, t, KeysOf[t], -1)[u][k] = refs[u][k] + IF u = t /\ k \in KeysOf[t] THEN -1 ELSE 0
    BY CountFacts DEF SenderTypes
  <2>5. \A k \in KeysOf[t] : refs'[t][k] = Owed(state'[t], pending'[t], reply'[t].sent, k)
    <3>1. state'[t] = "returned"
      BY <2>1 DEF SenderTypes
    <3>2. \A k \in KeysOf[t] : refs[t][k] = Owed("register", {}, reply[t].sent, k)
      BY <1>a, <2>1
    <3>3. CASE pending' = [pending EXCEPT ![t] = left] /\ refs' = Count(refs, t, KeysOf[t], -1)
      <4>1. pending'[t] = left
        BY <3>3 DEF SenderTypes
      <4>2. \A k \in KeysOf[t] : refs'[t][k] = refs[t][k] - 1
        BY <1>c, <1>d, <2>8, <3>3
      <4> QED
        BY <1>c, <1>d, <2>1, <3>1, <3>2, <4>1, <4>2 DEF Owed, One
    <3>4. CASE pending' = pending /\ refs' = Count(once, t, KeysOf[t], -1)
      <4>1. pending'[t] = {}
        BY <2>1, <3>4
      <4>2. \A k \in KeysOf[t] : refs'[t][k] = refs[t][k] - 1 - IF k \in left THEN 1 ELSE 0
        BY <1>c, <1>d, <2>3, <2>4, <3>4
      <4> QED
        BY <1>c, <1>d, <2>1, <3>1, <3>2, <4>1, <4>2 DEF Owed, One
    <3> QED
      BY <2>2, <3>3, <3>4
  <2>6. \A u \in Tasks : u # t => state'[u] = state[u] /\ pending'[u] = pending[u]
    BY <2>1, <2>2 DEF SenderTypes
  <2>7. \A u \in Tasks, k \in Keys : u # t => refs'[u][k] = refs[u][k]
    BY <2>2, <2>3, <2>4, <2>8 DEF SenderTypes
  <2> QED
    BY <1>b, <1>d, <2>1, <2>5, <2>6, <2>7
<1>5. ASSUME NEW t \in Tasks, Write(t) PROVE SenderRefsExact'
  <2> DEFINE left == KeysOf[t] \ reply[t].sent
             once == Count(refs, t, left, -1)
  <2>1. state[t] = "write" /\ pending[t] = {} /\ UNCHANGED <<pending, reply>>
    BY <1>5 DEF Write, netVars, AwaitDone
  <2>2. \/ state' = [state EXCEPT ![t] = "returned"] /\ refs' = Count(once, t, KeysOf[t], -1)
        \/ state' = [state EXCEPT ![t] = "raised"] /\ refs' = refs
    BY <1>5 DEF Write, Go
  <2>3. once \in [Tasks -> [Keys -> Int]] /\ \A u \in Tasks, k \in Keys :
          once[u][k] = refs[u][k] + IF u = t /\ k \in left THEN -1 ELSE 0
    BY <1>r, CountFacts
  <2> HIDE DEF once
  <2>4. \A u \in Tasks, k \in Keys :
          Count(once, t, KeysOf[t], -1)[u][k] = once[u][k] + IF u = t /\ k \in KeysOf[t] THEN -1 ELSE 0
    BY <2>3, CountFacts
  <2>5. \A k \in KeysOf[t] : refs'[t][k] = Owed(state'[t], pending'[t], reply'[t].sent, k)
    BY <1>a, <1>c, <1>d, <2>1, <2>2, <2>3, <2>4 DEF Owed, One, SenderTypes
  <2>6. \A u \in Tasks : u # t => state'[u] = state[u]
    BY <2>2 DEF SenderTypes
  <2>7. \A u \in Tasks, k \in Keys : u # t => refs'[u][k] = refs[u][k]
    BY <2>2, <2>3, <2>4 DEF SenderTypes
  <2> QED
    BY <1>b, <1>d, <2>1, <2>5, <2>6, <2>7
<1>6. ASSUME NEW t \in Tasks, HandleDone(t) \/ Sweep(t) PROVE SenderRefsExact'
  <2>1. UNCHANGED <<state, reply>>
    BY <1>6 DEF HandleDone, Sweep, netVars
  <2>2. CASE pending' = pending /\ refs' = refs
    BY <1>q, <2>1, <2>2
  <2>3. CASE /\ pending[t] # {} /\ pending' = [pending EXCEPT ![t] = {}]
             /\ refs' = Count(refs, t, pending[t], -1)
    <3>1. state[t] = "returned"
      BY <2>3 DEF AwaitDone
    <3>2. \A k \in KeysOf[t] : refs'[t][k] = Owed(state'[t], pending'[t], reply'[t].sent, k)
      BY <1>a, <1>c, <1>d, <2>1, <2>3, <3>1, CountFacts, SMTT(30) DEF Owed, One, SenderTypes
    <3> QED
      BY <1>b, <1>d, <2>1, <2>3, <3>2, CountFacts DEF SenderTypes
  <2> QED
    BY <1>6, <2>2, <2>3 DEF HandleDone, Sweep, Pop
<1>7. ASSUME AllocFails \/ ReadFails \/ Reply PROVE SenderRefsExact'
  <2>1. /\ rx.task \in Tasks /\ state[rx.task] = "reply" /\ UNCHANGED <<state, refs, pending>>
        /\ \A u \in Tasks : u # rx.task => reply'[u] = reply[u]
    BY <1>7, ReplyMoves
  <2>2. \A k \in KeysOf[rx.task] :
          refs'[rx.task][k] = Owed(state'[rx.task], pending'[rx.task], reply'[rx.task].sent, k)
    BY <1>a, <2>1 DEF Owed
  <2> QED
    BY <1>b, <2>1, <2>2
<1>8. ASSUME NEW t \in Tasks, Receive(t) PROVE SenderRefsExact'
  BY <1>8, <1>q DEF senderVars, netVars, storeVars, Receive
<1>9. ASSUME NEW s \in Senders, BackoffExpires(s) PROVE SenderRefsExact'
  BY <1>9, <1>q DEF senderVars, netVars, storeVars, BackoffExpires
<1>10. ASSUME NEW k \in Keys, Partition(k) \/ Store(k) \/ Remove(k) PROVE SenderRefsExact'
  BY <1>10, <1>q DEF senderVars, netVars, storeVars, Partition, Store, Remove
<1>11. ASSUME NEW S \in SUBSET Keys, Load(S) PROVE SenderRefsExact'
  BY <1>11, <1>q DEF senderVars, netVars, storeVars, Load
<1>12. CASE EagerRead \/ EagerReadEnd \/ StoreBegin \/ PostAckDone \/ LoadEnd \/ UNCHANGED vars
  BY <1>12, <1>q DEF vars, senderVars, netVars, storeVars, EagerRead, EagerReadEnd, StoreBegin,
     PostAckDone, LoadEnd
<1> QED
  BY <1>1, <1>2, <1>3, <1>4, <1>5, <1>6, <1>7, <1>8, <1>9, <1>10, <1>11, <1>12 DEF Next,
     PutStep, ListenStep, RxStep

-----------------------------------------------------------------------------
(* The decoder's side *)

\* The loop keeps apart what is present and what is new.
LEMMA SplitStep ==
  ASSUME StoreTypes, AtLoop, Split, [Next]_vars
  PROVE  Split'
<1>q. ASSUME UNCHANGED <<rx>> PROVE Split'
  BY <1>q DEF Split
<1>1. ASSUME NEW t \in Tasks, Receive(t) PROVE Split'
  BY <1>1 DEF Split, Receive, RxIdle
<1>2. ASSUME NEW k \in Keys, Partition(k) PROVE Split'
  BY <1>2, LoopMoves DEF Split
<1>3. ASSUME NEW k \in Keys, Store(k) PROVE Split'
  BY <1>3, LoopMoves DEF Split
<1>4. ASSUME EagerRead PROVE Split'
  BY <1>4, LoopMoves DEF Split
<1>5. ASSUME EagerReadEnd \/ StoreBegin PROVE Split'
  BY <1>5, LoopMoves DEF Split
<1>6. ASSUME AllocFails \/ ReadFails \/ PostAckDone PROVE Split'
  BY <1>6, LoopMoves DEF Split, RxIdle
<1>7. ASSUME Reply PROVE Split'
  BY <1>7, LoopMoves, SMTT(30) DEF Split, RxIdle, StoreTypes, RxStates
<1>8. ASSUME NEW t \in Tasks, Begin(t) \/ Submit(t) \/ Answer(t) \/ Register(t) \/ Write(t)
             \/ HandleDone(t) \/ Sweep(t)
      PROVE  Split'
  BY <1>8, <1>q DEF senderVars, netVars, storeVars, Begin, Submit, Answer, Register, Write,
     HandleDone, Sweep
<1>9. ASSUME NEW s \in Senders, BackoffExpires(s) PROVE Split'
  BY <1>9, <1>q DEF senderVars, netVars, storeVars, BackoffExpires
<1>10. ASSUME NEW k \in Keys, Remove(k) PROVE Split'
  BY <1>10, <1>q DEF senderVars, netVars, storeVars, Remove
<1>11. ASSUME NEW S \in SUBSET Keys, Load(S) PROVE Split'
  BY <1>11, <1>q DEF senderVars, netVars, storeVars, Load
<1>12. CASE LoadEnd \/ UNCHANGED vars
  BY <1>12, <1>q DEF vars, senderVars, netVars, storeVars, LoadEnd
<1> QED
  BY <1>1, <1>2, <1>3, <1>4, <1>5, <1>6, <1>7, <1>8, <1>9, <1>10, <1>11, <1>12 DEF Next,
     PutStep, ListenStep, RxStep

\* A key the loop found absent is put by nobody else.
LEMMA FreshStep ==
  ASSUME StoreTypes, AtLoop, Split, Fresh, [Next]_vars
  PROVE  Fresh'
<1>q. ASSUME UNCHANGED <<mode, rx, data, consumed, doneSent>> PROVE Fresh'
  BY <1>q DEF Fresh
<1>1. ASSUME NEW t \in Tasks, Receive(t) PROVE Fresh'
  BY <1>1 DEF Fresh, Receive, RxIdle, storeVars
<1>2. ASSUME NEW k \in Keys, Partition(k) PROVE Fresh'
  <2>1. UNCHANGED <<mode, consumed, doneSent>>
    BY <1>2 DEF Partition, storeVars
  <2>2. data' = [data EXCEPT ![k] = IF Present(k) THEN @ ELSE None]
    BY <1>2 DEF Partition
  <2>3. mode # "delay" /\ ~Present(k) => data'[k] = None
    BY <2>2 DEF StoreTypes
  <2>4. /\ rx'.pc = "partition" /\ rx.pc = "partition"
        /\ rx'.new = IF Present(k) THEN rx.new ELSE rx.new \cup {k}
    BY <1>2, LoopMoves
  <2>5. \A x \in Keys : data[x] = None => data'[x] = None
    BY <2>2 DEF StoreTypes
  <2> QED
    BY <2>1, <2>3, <2>4, <2>5 DEF Fresh, StoreTypes, RxStates
<1>3. ASSUME NEW k \in Keys, Store(k) PROVE Fresh'
  <2>1. UNCHANGED <<mode, consumed, doneSent>>
    BY <1>3 DEF Store, storeVars
  <2>2. data' = [data EXCEPT ![k] = rx.task]
    BY <1>3 DEF Store
  <2>3. rx.pc = "store" /\ rx'.pc = "store" /\ rx'.todo = rx.todo \ {k}
    BY <1>3, LoopMoves
  <2> QED
    BY <2>1, <2>2, <2>3 DEF Fresh, StoreTypes, RxStates
<1>4. ASSUME NEW k \in Keys, Remove(k) PROVE Fresh'
  BY <1>4 DEF Fresh, Remove, StoreTypes, RxStates
<1>5. ASSUME EagerRead PROVE Fresh'
  <2>1. UNCHANGED <<mode, consumed, doneSent>>
    BY <1>5 DEF EagerRead, storeVars
  <2> QED
    BY <1>5, <2>1, LoopMoves DEF Fresh, EagerRead
<1>6. ASSUME EagerReadEnd \/ StoreBegin PROVE Fresh'
  <2>1. UNCHANGED <<mode, consumed, doneSent>>
    BY <1>6 DEF EagerReadEnd, StoreBegin, storeVars
  <2>2. UNCHANGED data
    BY <1>6 DEF EagerReadEnd, StoreBegin, storeVars
  <2> QED
    BY <1>6, <2>1, <2>2, LoopMoves DEF Fresh
<1>7. ASSUME AllocFails \/ ReadFails \/ PostAckDone PROVE Fresh'
  <2>1. UNCHANGED <<mode, consumed, doneSent>>
    BY <1>7 DEF AllocFails, ReadFails, PostAckDone, storeVars
  <2> QED
    BY <1>7, <2>1, LoopMoves DEF Fresh, RxIdle
<1>8. ASSUME Reply PROVE Fresh'
  <2>1. UNCHANGED <<mode, consumed, doneSent>>
    BY <1>8 DEF Reply, storeVars
  <2> QED
    BY <1>8, <2>1, LoopMoves DEF Fresh, RxIdle, StoreTypes, RxStates
<1>9. ASSUME LoadEnd PROVE Fresh'
  BY <1>9 DEF Fresh, LoadEnd
<1>10. ASSUME NEW t \in Tasks, Begin(t) \/ Submit(t) \/ Answer(t) \/ Register(t) \/ Write(t)
              \/ HandleDone(t) \/ Sweep(t)
       PROVE  Fresh'
  BY <1>10, <1>q DEF senderVars, netVars, storeVars, Begin, Submit, Answer, Register, Write,
     HandleDone, Sweep
<1>11. ASSUME NEW s \in Senders, BackoffExpires(s) PROVE Fresh'
  BY <1>11, <1>q DEF senderVars, netVars, storeVars, BackoffExpires
<1>12. ASSUME NEW S \in SUBSET Keys, Load(S) PROVE Fresh'
  BY <1>12, <1>q DEF senderVars, netVars, storeVars, Load
<1>13. CASE UNCHANGED vars
  BY <1>13, <1>q DEF vars, senderVars, netVars, storeVars
<1> QED
  BY <1>1, <1>2, <1>3, <1>4, <1>5, <1>6, <1>7, <1>8, <1>9, <1>10, <1>11, <1>12, <1>13 DEF Next,
     PutStep, ListenStep, RxStep

\* An idle connector holds nothing.
LEMMA IdlingStep ==
  ASSUME Idling, [Next]_vars
  PROVE  Idling'
<1>q. ASSUME UNCHANGED <<con>> PROVE Idling'
  BY <1>q DEF Idling
<1>1. ASSUME NEW S \in SUBSET Keys, Load(S) PROVE Idling'
  BY <1>1 DEF Idling, Load
<1>2. ASSUME LoadEnd PROVE Idling'
  BY <1>2 DEF Idling, LoadEnd
<1>3. ASSUME NEW t \in Tasks, Begin(t) \/ Submit(t) \/ Answer(t) \/ Register(t) \/ Write(t)
             \/ HandleDone(t) \/ Sweep(t) \/ Receive(t)
      PROVE  Idling'
  BY <1>3, <1>q DEF senderVars, netVars, storeVars, Begin, Submit, Answer, Register, Write,
     HandleDone, Sweep, Receive
<1>4. ASSUME NEW s \in Senders, BackoffExpires(s) PROVE Idling'
  BY <1>4, <1>q DEF senderVars, netVars, storeVars, BackoffExpires
<1>5. ASSUME NEW k \in Keys, Partition(k) \/ Store(k) \/ Remove(k) PROVE Idling'
  BY <1>5, <1>q DEF senderVars, netVars, storeVars, Partition, Store, Remove
<1>6. CASE \/ EagerRead \/ EagerReadEnd \/ StoreBegin \/ AllocFails \/ ReadFails \/ Reply
           \/ PostAckDone \/ UNCHANGED vars
  BY <1>6, <1>q DEF vars, senderVars, netVars, storeVars, EagerRead, EagerReadEnd, StoreBegin,
     AllocFails, ReadFails, Reply, PostAckDone
<1> QED
  BY <1>1, <1>2, <1>3, <1>4, <1>5, <1>6 DEF Next, PutStep, ListenStep, RxStep

\* What is in the store was put by a request that is served or was granted.
LEMMA StoredStep ==
  ASSUME NetTypes, StoreTypes, AtLoop, Split, Stored, [Next]_vars
  PROVE  Stored'
<1>q. ASSUME UNCHANGED <<rx, data, reply>> PROVE Stored'
  BY <1>q DEF Stored
<1>1. ASSUME NEW t \in Tasks, Receive(t) PROVE Stored'
  <2>1. UNCHANGED <<data, reply>> /\ rx.pc = "idle"
    BY <1>1 DEF Receive, storeVars
  <2> QED
    BY <2>1 DEF Stored
<1>2. ASSUME NEW k \in Keys, Partition(k) PROVE Stored'
  <2>1. /\ reply' = reply /\ rx.pc = "partition" /\ rx'.pc = "partition"
        /\ data' = [data EXCEPT ![k] = IF Present(k) THEN @ ELSE None]
    BY <1>2, LoopMoves DEF Partition, netVars
  <2>2. \A x \in Keys : data'[x] \in {data[x], None}
    BY <2>1 DEF StoreTypes
  <2> QED
    BY <2>1, <2>2 DEF Stored
<1>3. ASSUME NEW k \in Keys, Store(k) PROVE Stored'
  <2>1. reply' = reply /\ data' = [data EXCEPT ![k] = rx.task]
    BY <1>3 DEF Store, netVars
  <2>2. /\ rx.pc = "store" /\ rx'.pc = "store" /\ rx'.task = rx.task /\ k \in rx.todo
        /\ rx'.todo = rx.todo \ {k} /\ rx'.new = rx.new /\ rx.todo \subseteq rx.new
    BY <1>3, LoopMoves DEF Split
  <2> QED
    BY <2>1, <2>2 DEF Stored, StoreTypes
<1>4. ASSUME NEW k \in Keys, Remove(k) PROVE Stored'
  <2>1. /\ UNCHANGED <<rx, reply>> /\ data' = [data EXCEPT ![k] = None]
    BY <1>4 DEF Remove, netVars
  <2> QED
    BY <2>1 DEF Stored, StoreTypes
<1>5. ASSUME EagerRead PROVE Stored'
  <2>1. UNCHANGED <<data, reply>> /\ rx.pc = "partition"
    BY <1>5 DEF EagerRead, netVars
  <2> QED
    BY <2>1 DEF Stored
<1>6. ASSUME EagerReadEnd \/ StoreBegin PROVE Stored'
  <2>1. UNCHANGED <<data, reply>> /\ rx.pc \in {"partition", "read"}
    BY <1>6 DEF EagerReadEnd, StoreBegin, netVars, storeVars
  <2> QED
    BY <2>1 DEF Stored
<1>7. ASSUME AllocFails PROVE Stored'
  <2>1. /\ rx.task \in Tasks /\ reply[rx.task].kind = "none"
        /\ \A u \in Tasks : u # rx.task => reply'[u] = reply[u]
    BY <1>7, ReplyMoves
  <2>2. \A k \in Keys : data'[k] \in {data[k], None} /\ data'[k] # rx.task
    BY <1>7, <2>1, PDAssumption DEF AllocFails, TakeBack, Stored
  <2> QED
    BY <2>1, <2>2 DEF Stored, StoreTypes
<1>8. ASSUME ReadFails PROVE Stored'
  <2>1. /\ rx.task \in Tasks /\ reply[rx.task].kind = "none" /\ data' = data /\ rx.pc = "read"
        /\ \A u \in Tasks : u # rx.task => reply'[u] = reply[u]
    BY <1>8, ReplyMoves DEF ReadFails, storeVars
  <2> QED
    BY <2>1 DEF Stored, StoreTypes
<1>9. ASSUME Reply PROVE Stored'
  <2>1. /\ rx.task \in Tasks /\ reply[rx.task].kind = "none" /\ data' = data /\ rx.pc = "store"
        /\ \A u \in Tasks : u # rx.task => reply'[u] = reply[u]
        /\ reply'[rx.task] = [kind |-> "ok", sent |-> SentKeys]
    BY <1>9, ReplyMoves DEF Reply, NetTypes
  <2>2. \A k \in rx.new : k \in KeysOf[rx.task] \ SentKeys
    BY <2>1 DEF Split, SentKeys
  <2> QED
    BY <2>1, <2>2 DEF Stored, StoreTypes
<1>10. ASSUME PostAckDone PROVE Stored'
  <2>1. UNCHANGED <<data, reply>> /\ rx.pc = "ack"
    BY <1>10 DEF PostAckDone, storeVars
  <2> QED
    BY <2>1 DEF Stored
<1>11. ASSUME NEW t \in Tasks, Begin(t) \/ Submit(t) \/ Answer(t) \/ Register(t) \/ Write(t)
              \/ HandleDone(t) \/ Sweep(t)
       PROVE  Stored'
  BY <1>11, <1>q DEF senderVars, netVars, storeVars, Begin, Submit, Answer, Register, Write,
     HandleDone, Sweep
<1>12. ASSUME NEW s \in Senders, BackoffExpires(s) PROVE Stored'
  BY <1>12, <1>q DEF senderVars, netVars, storeVars, BackoffExpires
<1>13. ASSUME NEW S \in SUBSET Keys, Load(S) PROVE Stored'
  BY <1>13, <1>q DEF senderVars, netVars, storeVars, Load
<1>14. CASE LoadEnd \/ UNCHANGED vars
  BY <1>14, <1>q DEF vars, senderVars, netVars, storeVars, LoadEnd
<1> QED
  BY <1>1, <1>2, <1>3, <1>4, <1>5, <1>6, <1>7, <1>8, <1>9, <1>10, <1>11, <1>12, <1>13, <1>14 DEF
     Next, PutStep, ListenStep, RxStep

\* What a request put is still its own or gone, and its roll-back ends it.
LEMMA TakenOnceStep ==
  ASSUME NetTypes, StoreTypes, AtLoop, Split, TakenOnce, [Next]_vars
  PROVE  TakenOnce'
<1>q. ASSUME UNCHANGED <<mode, rx, data, twice, reply>> PROVE TakenOnce'
  BY <1>q DEF TakenOnce
<1>1. ASSUME NEW t \in Tasks, Receive(t) PROVE TakenOnce'
  BY <1>1 DEF TakenOnce, Receive, RxIdle, storeVars
<1>2. ASSUME NEW k \in Keys, Partition(k) PROVE TakenOnce'
  BY <1>2, LoopMoves DEF TakenOnce, Partition, netVars
<1>3. ASSUME NEW k \in Keys, Store(k) PROVE TakenOnce'
  <2>1. UNCHANGED <<mode, twice, reply>> /\ data' = [data EXCEPT ![k] = rx.task]
    BY <1>3 DEF Store, netVars
  <2>2. /\ rx.pc = "store" /\ rx'.pc = "store" /\ rx'.task = rx.task /\ k \in rx.todo
        /\ rx'.todo = rx.todo \ {k} /\ rx'.new = rx.new /\ rx.new \subseteq Keys
    BY <1>3, LoopMoves DEF StoreTypes, RxStates
  <2> QED
    BY <2>1, <2>2 DEF TakenOnce, StoreTypes
<1>4. ASSUME NEW k \in Keys, Remove(k) PROVE TakenOnce'
  <2>1. /\ UNCHANGED <<mode, rx, twice, reply>> /\ data' = [data EXCEPT ![k] = None]
    BY <1>4 DEF Remove, netVars
  <2> QED
    BY <2>1 DEF TakenOnce, StoreTypes, RxStates
<1>5. ASSUME EagerRead PROVE TakenOnce'
  BY <1>5, LoopMoves DEF TakenOnce, EagerRead, netVars
<1>6. ASSUME EagerReadEnd \/ StoreBegin PROVE TakenOnce'
  <2>1. UNCHANGED <<mode, data, twice, reply>>
    BY <1>6 DEF EagerReadEnd, StoreBegin, netVars, storeVars
  <2>2. rx'.todo = rx'.new
    BY <1>6, LoopMoves
  <2> QED
    BY <2>1, <2>2 DEF TakenOnce
<1>7. ASSUME AllocFails PROVE TakenOnce'
  <2>1. rx'.pc = "idle"
    BY <1>7 DEF AllocFails, RxIdle
  <2>2. /\ rx.task \in Tasks /\ reply[rx.task].kind = "none"
        /\ \A u \in Tasks : u # rx.task => reply'[u] = reply[u]
    BY <1>7, ReplyMoves
  <2>3. reply'[rx.task].kind = "failed" /\ \A page \in twice' : page \in twice \/ page[1] = rx.task
    BY <1>7, <2>2 DEF AllocFails, NetTypes
  <2> QED
    BY <2>1, <2>2, <2>3 DEF TakenOnce, StoreTypes
<1>8. ASSUME ReadFails \/ Reply PROVE TakenOnce'
  <2>1. rx'.pc # "store" /\ twice' = twice
    BY <1>8, LoopMoves DEF ReadFails, Reply, RxIdle, StoreTypes, RxStates, storeVars
  <2>2. /\ rx.task \in Tasks /\ reply[rx.task].kind = "none"
        /\ \A u \in Tasks : u # rx.task => reply'[u] = reply[u]
    BY <1>8, ReplyMoves
  <2> QED
    BY <2>1, <2>2 DEF TakenOnce, StoreTypes
<1>9. ASSUME PostAckDone PROVE TakenOnce'
  BY <1>9, LoopMoves DEF TakenOnce, RxIdle, PostAckDone, storeVars
<1>10. ASSUME NEW t \in Tasks, Begin(t) \/ Submit(t) \/ Answer(t) \/ Register(t) \/ Write(t)
              \/ HandleDone(t) \/ Sweep(t)
       PROVE  TakenOnce'
  BY <1>10, <1>q DEF senderVars, netVars, storeVars, Begin, Submit, Answer, Register, Write,
     HandleDone, Sweep
<1>11. ASSUME NEW s \in Senders, BackoffExpires(s) PROVE TakenOnce'
  BY <1>11, <1>q DEF senderVars, netVars, storeVars, BackoffExpires
<1>12. ASSUME NEW S \in SUBSET Keys, Load(S) PROVE TakenOnce'
  BY <1>12, <1>q DEF senderVars, netVars, storeVars, Load
<1>13. CASE LoadEnd \/ UNCHANGED vars
  BY <1>13, <1>q DEF vars, senderVars, netVars, storeVars, LoadEnd
<1> QED
  BY <1>1, <1>2, <1>3, <1>4, <1>5, <1>6, <1>7, <1>8, <1>9, <1>10, <1>11, <1>12, <1>13 DEF Next,
     PutStep, ListenStep, RxStep

-----------------------------------------------------------------------------
(* Delayed pulls *)

\* The Done of a batch comes from its context.
LEMMA DonesSentStep ==
  ASSUME StoreTypes, AtLoop, DonesSent, [Next]_vars
  PROVE  DonesSent'
<1>q. ASSUME UNCHANGED <<mode, dones, early, doneSent>> PROVE DonesSent'
  BY <1>q DEF DonesSent
<1>1. ASSUME NEW t \in Tasks, Register(t) PROVE DonesSent'
  BY <1>1 DEF DonesSent, Register, netVars, storeVars
<1>2. ASSUME NEW t \in Tasks, HandleDone(t) PROVE DonesSent'
  BY <1>2 DEF DonesSent, HandleDone, netVars, storeVars
<1>3. ASSUME PostAckDone PROVE DonesSent'
  <2>1. mode = "eager" /\ mode' = mode
    BY <1>3 DEF PostAckDone, AtLoop
  <2> QED
    BY <2>1 DEF DonesSent
<1>4. ASSUME LoadEnd PROVE DonesSent'
  BY <1>4 DEF DonesSent, LoadEnd, Deliver, Unsent, senderVars
<1>5. ASSUME NEW t \in Tasks, Begin(t) \/ Submit(t) \/ Answer(t) \/ Write(t) \/ Sweep(t)
             \/ Receive(t)
      PROVE  DonesSent'
  BY <1>5, <1>q DEF senderVars, netVars, storeVars, Begin, Submit, Answer, Write, Sweep, Receive
<1>6. ASSUME NEW s \in Senders, BackoffExpires(s) PROVE DonesSent'
  BY <1>6, <1>q DEF senderVars, netVars, storeVars, BackoffExpires
<1>7. ASSUME NEW k \in Keys, Partition(k) \/ Store(k) \/ Remove(k) PROVE DonesSent'
  BY <1>7, <1>q DEF senderVars, netVars, storeVars, Partition, Store, Remove
<1>8. ASSUME NEW S \in SUBSET Keys, Load(S) PROVE DonesSent'
  BY <1>8, <1>q DEF senderVars, netVars, storeVars, Load
<1>9. CASE \/ EagerRead \/ EagerReadEnd \/ StoreBegin \/ AllocFails \/ ReadFails \/ Reply
           \/ UNCHANGED vars
  BY <1>9, <1>q DEF vars, senderVars, netVars, storeVars, EagerRead, EagerReadEnd, StoreBegin,
     AllocFails, ReadFails, Reply
<1> QED
  BY <1>1, <1>2, <1>3, <1>4, <1>5, <1>6, <1>7, <1>8, <1>9 DEF Next, PutStep, ListenStep, RxStep

\* A proxy under load is one of a batch that is served or was granted.
LEMMA LoadsFreshStep ==
  ASSUME NetTypes, StoreTypes, AtLoop, Split, Stored, LoadsFresh, [Next]_vars
  PROVE  LoadsFresh'
<1>q. ASSUME UNCHANGED <<mode, rx, reply, consumed, con>> PROVE LoadsFresh'
  BY <1>q DEF LoadsFresh
<1>1. ASSUME NEW k \in Keys, Remove(k) PROVE LoadsFresh'
  BY <1>1, <1>q DEF Remove, netVars
<1>2. ASSUME NEW k \in Keys, Partition(k) PROVE LoadsFresh'
  BY <1>2, LoopMoves DEF LoadsFresh, Partition, netVars
<1>3. ASSUME NEW k \in Keys, Store(k) PROVE LoadsFresh'
  <2>1. UNCHANGED <<mode, reply, consumed, con>>
    BY <1>3 DEF Store, netVars
  <2>2. /\ rx.pc = "store" /\ rx'.pc = "store" /\ rx'.task = rx.task
        /\ rx'.todo = rx.todo \ {k} /\ rx'.new = rx.new
    BY <1>3, LoopMoves
  <2> QED
    BY <2>1, <2>2 DEF LoadsFresh
<1>4. ASSUME AllocFails \/ ReadFails \/ EagerRead \/ EagerReadEnd PROVE LoadsFresh'
  BY <1>4 DEF LoadsFresh, AllocFails, ReadFails, EagerRead, EagerReadEnd, AtLoop
<1>5. ASSUME Reply PROVE LoadsFresh'
  <2>1. /\ rx.task \in Tasks /\ reply[rx.task].kind = "none" /\ rx.pc = "store"
        /\ \A u \in Tasks : u # rx.task => reply'[u] = reply[u]
        /\ reply'[rx.task] = [kind |-> "ok", sent |-> SentKeys]
    BY <1>5, ReplyMoves DEF Reply, NetTypes
  <2>2. UNCHANGED <<mode, consumed, con>>
    BY <1>5 DEF Reply
  <2>3. \A k \in rx.new : k \in KeysOf[rx.task] \ SentKeys
    BY <2>1 DEF Split, SentKeys
  <2> QED
    BY <2>1, <2>2, <2>3 DEF LoadsFresh, StoreTypes
<1>6. ASSUME NEW S \in SUBSET Keys, Load(S) PROVE LoadsFresh'
  <2> SUFFICES ASSUME NEW k \in S
               PROVE  /\ <<data[k], k>> \notin consumed'
                      /\ \/ rx'.pc = "store" /\ data[k] = rx'.task /\ k \in rx'.new \ rx'.todo
                         \/ reply'[data[k]].kind = "ok" /\ k \in KeysOf[data[k]] \ reply'[data[k]].sent
    BY <1>6 DEF LoadsFresh, Load
  <2>1. UNCHANGED <<rx, reply, consumed>> /\ Present(k)
    BY <1>6 DEF Load, netVars
  <2> QED
    BY <2>1 DEF Present, Stored
<1>7. ASSUME LoadEnd PROVE LoadsFresh'
  BY <1>7 DEF LoadsFresh, LoadEnd
<1>8. ASSUME NEW t \in Tasks, Begin(t) \/ Submit(t) \/ Answer(t) \/ Register(t) \/ Write(t)
             \/ HandleDone(t) \/ Sweep(t)
      PROVE  LoadsFresh'
  BY <1>8, <1>q DEF senderVars, netVars, storeVars, Begin, Submit, Answer, Register, Write,
     HandleDone, Sweep
<1>9. ASSUME NEW t \in Tasks, Receive(t) PROVE LoadsFresh'
  BY <1>9 DEF LoadsFresh, Receive, storeVars
<1>10. ASSUME NEW s \in Senders, BackoffExpires(s) PROVE LoadsFresh'
  BY <1>10, <1>q DEF senderVars, netVars, storeVars, BackoffExpires
<1>11. CASE StoreBegin
  BY <1>11, LoopMoves DEF LoadsFresh, StoreBegin, netVars, storeVars
<1>12. CASE PostAckDone
  BY <1>12 DEF LoadsFresh, PostAckDone, AtLoop
<1>13. CASE UNCHANGED vars
  BY <1>13, <1>q DEF vars, netVars, storeVars
<1> QED
  BY <1>1, <1>2, <1>3, <1>4, <1>5, <1>6, <1>7, <1>8, <1>9, <1>10, <1>11, <1>12, <1>13 DEF Next,
     PutStep, ListenStep, RxStep

\* Without its Done a batch stays pinned.
LEMMA StaysPinnedStep ==
  ASSUME SenderTypes, NetTypes, StoreTypes, AtLoop, Answered, AwaitDone, DonesSent, StaysPinned, [Next]_vars
  PROVE  StaysPinned'
<1>q. ASSUME UNCHANGED <<mode, state, reply, pending, doneSent, lapsed>> PROVE StaysPinned'
  BY <1>q DEF StaysPinned
<1>1. ASSUME NEW t \in Tasks, Begin(t) \/ Submit(t) \/ Answer(t) \/ Write(t) PROVE StaysPinned'
  <2>1. UNCHANGED <<pending, doneSent, lapsed>>
    BY <1>1 DEF Begin, Submit, Answer, Write, storeVars, senderVars
  <2>2. /\ mode' = mode /\ reply' = reply /\ \A u \in Tasks : u # t => state'[u] = state[u]
        /\ state'[t] = "returned" => state[t] = "new" \/ reply[t].kind = "failed" \/ ~Pull
    BY <1>1, PutMoves DEF Answered, Begin, Submit, Answer, Write
  <2> QED
    BY <2>1, <2>2 DEF StaysPinned, Answered, Pull
<1>2. ASSUME NEW t \in Tasks, Register(t) PROVE StaysPinned'
  <2> DEFINE left == KeysOf[t] \ reply[t].sent
  <2>1. /\ UNCHANGED <<mode, reply, doneSent, lapsed>> /\ state' = [state EXCEPT ![t] = "returned"]
        /\ \/ pending' = [pending EXCEPT ![t] = left]
           \/ pending' = pending /\ (left = {} \/ t \in early)
        /\ state[t] = "register"
    BY <1>2 DEF Register, CameEarly, Go, netVars, storeVars
  <2>2. pending[t] = {}
    BY <2>1 DEF AwaitDone
  <2>3. mode = "delay" /\ t \in early => t \in doneSent
    BY DEF DonesSent
  <2> QED
    BY <2>1, <2>2, <2>3 DEF StaysPinned, SenderTypes
<1>3. ASSUME NEW t \in Tasks, HandleDone(t) PROVE StaysPinned'
  <2>1. /\ UNCHANGED <<mode, state, reply, doneSent, lapsed>> /\ t \in dones
        /\ pending' = pending \/ pending' = [pending EXCEPT ![t] = {}]
    BY <1>3 DEF HandleDone, Pop, storeVars
  <2>2. mode = "delay" => t \in doneSent
    BY <2>1 DEF DonesSent
  <2> QED
    BY <2>1, <2>2 DEF StaysPinned, SenderTypes
<1>4. ASSUME NEW t \in Tasks, Sweep(t) PROVE StaysPinned'
  <2>1. /\ UNCHANGED <<mode, state, reply, doneSent>> /\ pending' = [pending EXCEPT ![t] = {}]
        /\ mode = "delay" => lapsed' = lapsed \cup {t}
    BY <1>4 DEF Sweep, Pop, netVars, storeVars
  <2> QED
    BY <2>1 DEF StaysPinned, SenderTypes
<1>5. ASSUME AllocFails \/ ReadFails \/ Reply PROVE StaysPinned'
  <2>1. /\ rx.task \in Tasks /\ state[rx.task] = "reply" /\ UNCHANGED <<mode, state, pending>>
        /\ \A u \in Tasks : u # rx.task => reply'[u] = reply[u]
    BY <1>5, ReplyMoves
  <2>2. UNCHANGED <<doneSent, lapsed>>
    BY <1>5 DEF AllocFails, ReadFails, Reply, storeVars, senderVars
  <2> QED
    BY <2>1, <2>2 DEF StaysPinned
<1>6. ASSUME LoadEnd PROVE StaysPinned'
  <2>1. UNCHANGED <<mode, state, reply, pending, lapsed>> /\ doneSent \subseteq doneSent'
    BY <1>6 DEF LoadEnd, senderVars
  <2> QED
    BY <2>1 DEF StaysPinned
<1>7. ASSUME NEW t \in Tasks, Receive(t) PROVE StaysPinned'
  BY <1>7, <1>q DEF senderVars, netVars, storeVars, Receive
<1>8. ASSUME NEW s \in Senders, BackoffExpires(s) PROVE StaysPinned'
  BY <1>8, <1>q DEF senderVars, netVars, storeVars, BackoffExpires
<1>9. ASSUME NEW k \in Keys, Partition(k) \/ Store(k) \/ Remove(k) PROVE StaysPinned'
  BY <1>9, <1>q DEF senderVars, netVars, storeVars, Partition, Store, Remove
<1>10. ASSUME NEW S \in SUBSET Keys, Load(S) PROVE StaysPinned'
  BY <1>10, <1>q DEF senderVars, netVars, storeVars, Load
<1>11. CASE EagerRead \/ EagerReadEnd \/ StoreBegin \/ PostAckDone \/ UNCHANGED vars
  BY <1>11, <1>q DEF vars, senderVars, netVars, storeVars, EagerRead, EagerReadEnd, StoreBegin,
     PostAckDone
<1> QED
  BY <1>1, <1>2, <1>3, <1>4, <1>5, <1>6, <1>7, <1>8, <1>9, <1>10, <1>11 DEF Next, PutStep,
     ListenStep, RxStep

\* What a request reads is still pinned at the prefiller.
LEMMA PinnedWhileRead ==
  ASSUME SenderTypes, NetTypes, StoreTypes, AtLoop, Answered, Split, SenderRefsExact, LoadsFresh,
         StaysPinned
  PROVE  ReadsPinned
<1> SUFFICES ASSUME mode = "delay", NEW page \in con.items,
                    ~Leftover(page[1], page[2]), page[1] \notin lapsed
             PROVE  refs[page[1]][page[2]] > 0
  BY DEF ReadsPinned
<1>1. PICK t \in Tasks, k \in Keys : page = <<t, k>>
  BY DEF StoreTypes
<1>2. t \notin doneSent /\ t \notin lapsed
  BY <1>1 DEF LoadsFresh, Leftover
<1>3. CASE rx.pc = "store" /\ t = rx.task /\ k \in rx.new
  <2>1. state[t] = "reply" /\ k \in KeysOf[t]
    BY <1>3 DEF AtLoop, Serving, Split
  <2>2. refs[t][k] = Owed(state[t], pending[t], reply[t].sent, k)
    BY <2>1, SenderRefsForm
  <2>3. Owed(state[t], pending[t], reply[t].sent, k) > 0
    BY <2>1 DEF Owed, One
  <2> QED
    BY <1>1, <2>2, <2>3
<1>4. CASE reply[t].kind = "ok" /\ k \in KeysOf[t] \ reply[t].sent
  <2>1. state[t] \in {"reply", "register", "write", "returned", "raised"}
    BY <1>4 DEF Answered
  <2>2. state[t] = "returned" => k \in pending[t]
    BY <1>2, <1>4 DEF StaysPinned
  <2>3. refs[t][k] = Owed(state[t], pending[t], reply[t].sent, k)
    BY <1>4, SenderRefsForm
  <2>4. Owed(state[t], pending[t], reply[t].sent, k) > 0
    BY <1>4, <2>1, <2>2 DEF Owed, One
  <2> QED
    BY <1>1, <2>3, <2>4
<1> QED
  BY <1>1, <1>3, <1>4 DEF LoadsFresh

-----------------------------------------------------------------------------
(* The decoder's pages *)

Calm(m, answers) == m # "delay" /\ \A t \in Tasks : answers[t].kind # "error"

\* The references to a decoder page that ReceiverRefsExact asks for.
Owners(d, r, items, m, two, t, k) ==
  One(d[k] = t) + One(<<t, k>> \in r.sent /\ r.pc # "ack") + One(<<t, k>> \in items)
    + One(r.task = t /\ k \in r.new
          /\ (r.pc = "read" \/ (m = "eager" /\ r.pc = "store" /\ k \in r.todo)))
    - One(<<t, k>> \in two)

\* ReceiverRefsExact, before and after a step.
LEMMA ReceiverForm ==
  /\ ReceiverRefsExact <=> (Calm(mode, reply) =>
       \A t \in Tasks, k \in Keys : rrefs[t][k] = Owners(data, rx, con.items, mode, twice, t, k))
  /\ ReceiverRefsExact' <=> (Calm(mode', reply') =>
       \A t \in Tasks, k \in Keys : rrefs'[t][k] = Owners(data', rx', con'.items, mode', twice', t, k))
BY DEF ReceiverRefsExact, Calm, Owners, One

\* Owners counts.
LEMMA OwnersType == \A d, r, items, m, two, t, k : Owners(d, r, items, m, two, t, k) \in Int
BY DEF Owners, One

\* An answer that reports an error stays.
LEMMA CalmBefore ==
  ASSUME NetTypes, AtLoop, [Next]_vars, Calm(mode', reply')
  PROVE  Calm(mode, reply)
<1>1. CASE AllocFails \/ ReadFails \/ Reply
  BY <1>1, ReplyMoves DEF Calm
<1>2. CASE UNCHANGED <<mode, reply>>
  BY <1>2 DEF Calm
<1>3. ASSUME NEW t \in Tasks, Begin(t) \/ Submit(t) \/ Answer(t) \/ Register(t) \/ Write(t)
                              \/ HandleDone(t) \/ Sweep(t) \/ Receive(t)
      PROVE  UNCHANGED <<mode, reply>>
  BY <1>3 DEF Begin, Submit, Answer, Register, Write, HandleDone, Sweep, Receive, netVars
<1>4. ASSUME NEW k \in Keys, Partition(k) \/ Store(k) \/ Remove(k) PROVE UNCHANGED <<mode, reply>>
  BY <1>4 DEF Partition, Store, Remove, netVars
<1>5. ASSUME NEW s, BackoffExpires(s) \/ Load(s) PROVE UNCHANGED <<mode, reply>>
  BY <1>5 DEF BackoffExpires, Load, netVars
<1>6. ASSUME \/ EagerRead \/ EagerReadEnd \/ StoreBegin \/ PostAckDone \/ LoadEnd
             \/ UNCHANGED vars
      PROVE  UNCHANGED <<mode, reply>>
  BY <1>6 DEF EagerRead, EagerReadEnd, StoreBegin, PostAckDone, LoadEnd, vars, netVars
<1> QED
  BY <1>1, <1>2, <1>3, <1>4, <1>5, <1>6 DEF Next, PutStep, ListenStep, RxStep

\* Every step keeps the owners of the decoder's pages exact.
LEMMA ReceiverRefsStep ==
  ASSUME SenderTypes, NetTypes, StoreTypes, AtLoop, Split, Fresh, Idling, Stored, TakenOnce,
         ReceiverRefsExact, [Next]_vars
  PROVE  ReceiverRefsExact'
<1>a. Calm(mode, reply) =>
        \A u \in Tasks, x \in Keys :
          /\ rrefs[u][x] = Owners(data, rx, con.items, mode, twice, u, x)
          /\ rrefs[u][x] \in Int
  BY ReceiverForm DEF StoreTypes
<1>b. StoreTypes'
  BY StoreTypesStep
<1>c. \A u \in Tasks, x \in Keys : rrefs'[u][x] \in Int
  BY <1>b DEF StoreTypes
<1>f. ASSUME Calm(mode, reply) => \A u \in Tasks, x \in Keys :
               rrefs'[u][x] - rrefs[u][x] = Owners(data', rx', con'.items, mode', twice', u, x)
                                            - Owners(data, rx, con.items, mode, twice, u, x)
      PROVE  ReceiverRefsExact'
  <2> SUFFICES ASSUME Calm(mode', reply'), NEW u \in Tasks, NEW x \in Keys
               PROVE  rrefs'[u][x] = Owners(data', rx', con'.items, mode', twice', u, x)
    BY ReceiverForm
  <2>1. Calm(mode, reply)
    BY CalmBefore
  <2>2. /\ rrefs'[u][x] - rrefs[u][x] = Owners(data', rx', con'.items, mode', twice', u, x)
                                        - Owners(data, rx, con.items, mode, twice, u, x)
        /\ rrefs[u][x] = Owners(data, rx, con.items, mode, twice, u, x)
        /\ rrefs[u][x] \in Int /\ rrefs'[u][x] \in Int
    BY <1>f, <1>a, <1>c, <2>1
  <2> QED
    BY <2>2, OwnersType
<1>g. ASSUME rrefs' = rrefs, \A u \in Tasks, x \in Keys :
               Owners(data', rx', con'.items, mode', twice', u, x) = Owners(data, rx, con.items, mode, twice, u, x)
      PROVE  ReceiverRefsExact'
  <2> SUFFICES ASSUME Calm(mode', reply'), NEW u \in Tasks, NEW x \in Keys
               PROVE  rrefs'[u][x] = Owners(data', rx', con'.items, mode', twice', u, x)
    BY ReceiverForm
  <2> QED
    BY <1>a, <1>g, CalmBefore
<1>q. ASSUME UNCHANGED <<mode, rx, data, rrefs, twice, con>> PROVE ReceiverRefsExact'
  BY <1>g, <1>q
<1>1. ASSUME NEW t \in Tasks, Receive(t) PROVE ReceiverRefsExact'
  <2>1. UNCHANGED <<mode, twice, con, data, rrefs>> /\ rx = RxIdle
    BY <1>1 DEF Receive, storeVars, AtLoop
  <2>2. rx'.pc = "partition" /\ rx'.sent = {}
    BY <1>1 DEF Receive, RxIdle
  <2>3. \A u \in Tasks, x \in Keys :
          Owners(data', rx', con'.items, mode', twice', u, x) = Owners(data, rx, con.items, mode, twice, u, x)
    BY <2>1, <2>2 DEF Owners, One, RxIdle
  <2> QED
    BY <1>g, <2>1, <2>3
<1>2. ASSUME NEW k \in Keys, Partition(k) PROVE ReceiverRefsExact'
  <2>1. /\ UNCHANGED <<mode, twice, con>> /\ rx.pc = "partition" /\ rx'.pc = "partition" /\ k \in rx.todo
        /\ Present(k) => rx'.sent = rx.sent \cup {<<data[k], k>>}
        /\ ~Present(k) => rx'.sent = rx.sent
        /\ data' = [data EXCEPT ![k] = IF Present(k) THEN @ ELSE None]
        /\ rrefs' = IF Present(k) /\ mode # "delay" THEN Count(rrefs, data[k], {k}, 1) ELSE rrefs
    BY <1>2, LoopMoves DEF Partition
  <2> SUFFICES ASSUME Calm(mode, reply), NEW u \in Tasks, NEW x \in Keys
               PROVE  rrefs'[u][x] - rrefs[u][x] = Owners(data', rx', con'.items, mode', twice', u, x)
                                                    - Owners(data, rx, con.items, mode, twice, u, x)
    BY <1>f
  <2>2. mode # "delay" /\ consumed = {} /\ (Present(k) <=> data[k] # None)
    BY DEF Calm, Fresh, Present
  <2>3. data' = data
    BY <2>1, <2>2 DEF StoreTypes
  <2>4. <<data[k], k>> \notin rx.sent
    BY <2>1 DEF Split
  <2>5. CASE Present(k)
    <3>1. rrefs'[u][x] = rrefs[u][x] + IF u = data[k] /\ x \in {k} THEN 1 ELSE 0
      <4>1. data[k] \in Tasks /\ rrefs' = Count(rrefs, data[k], {k}, 1) /\ 1 \in Int
        BY <2>1, <2>2, <2>5 DEF StoreTypes
      <4> QED
        BY <4>1, CountFacts DEF StoreTypes
    <3>2. One(<<u, x>> \in rx'.sent) = One(<<u, x>> \in rx.sent) + IF u = data[k] /\ x = k THEN 1 ELSE 0
      BY <2>1, <2>4, <2>5 DEF One
    <3> QED
      BY <2>1, <2>3, <3>1, <3>2 DEF Owners, One, StoreTypes
  <2>6. CASE ~Present(k)
    BY <2>1, <2>3, <2>6 DEF Owners, One, StoreTypes
  <2> QED
    BY <2>5, <2>6
<1>3. ASSUME NEW k \in Keys, Store(k) PROVE ReceiverRefsExact'
  <2>1. /\ UNCHANGED <<mode, twice, con>> /\ rx.pc = "store" /\ rx'.pc = "store" /\ k \in rx.todo
        /\ rx'.task = rx.task /\ rx'.todo = rx.todo \ {k} /\ rx'.sent = rx.sent /\ rx'.new = rx.new
        /\ data' = [data EXCEPT ![k] = rx.task] /\ k \in rx.new /\ rx.task \in Tasks
        /\ rrefs' = IF mode = "push" THEN Count(rrefs, rx.task, {k}, 1) ELSE rrefs
    BY <1>3, LoopMoves DEF Store, Split, AtLoop
  <2> SUFFICES ASSUME Calm(mode, reply), NEW u \in Tasks, NEW x \in Keys
               PROVE  rrefs'[u][x] - rrefs[u][x] = Owners(data', rx', con'.items, mode', twice', u, x)
                                                    - Owners(data, rx, con.items, mode, twice, u, x)
    BY <1>f
  <2>2. mode \in {"push", "eager"} /\ data[k] = None
    BY <2>1, PDAssumption DEF Calm, Fresh, SenderTypes
  <2>3. One(data'[x] = u) = One(data[x] = u) + IF u = rx.task /\ x = k THEN 1 ELSE 0
    BY <2>1, <2>2, PDAssumption DEF One, StoreTypes
  <2>4. CASE mode = "push"
    <3>1. rrefs'[u][x] = rrefs[u][x] + IF u = rx.task /\ x \in {k} THEN 1 ELSE 0
      BY <2>1, <2>4, CountFacts DEF StoreTypes
    <3> QED
      BY <2>1, <2>3, <2>4, <3>1 DEF Owners, One, StoreTypes
  <2>5. CASE mode = "eager"
    BY <2>1, <2>3, <2>5 DEF Owners, One, StoreTypes
  <2> QED
    BY <2>2, <2>4, <2>5
<1>4. ASSUME NEW k \in Keys, Remove(k) PROVE ReceiverRefsExact'
  <2>1. /\ UNCHANGED <<mode, twice, con, rx>> /\ data[k] # None /\ data[k] \in Tasks
        /\ data' = [data EXCEPT ![k] = None]
        /\ rrefs' = IF mode = "delay" THEN rrefs ELSE Count(rrefs, data[k], {k}, -1)
    BY <1>4 DEF Remove, StoreTypes
  <2> SUFFICES ASSUME Calm(mode, reply), NEW u \in Tasks, NEW x \in Keys
               PROVE  rrefs'[u][x] - rrefs[u][x] = Owners(data', rx', con'.items, mode', twice', u, x)
                                                    - Owners(data, rx, con.items, mode, twice, u, x)
    BY <1>f
  <2>2. rrefs'[u][x] = rrefs[u][x] + IF u = data[k] /\ x \in {k} THEN -1 ELSE 0
    BY <2>1, CountFacts DEF StoreTypes, Calm
  <2>3. One(data'[x] = u) = One(data[x] = u) - IF u = data[k] /\ x = k THEN 1 ELSE 0
    BY <2>1, PDAssumption DEF One, StoreTypes
  <2> QED
    BY <2>1, <2>2, <2>3 DEF Owners, One, StoreTypes
<1>5. ASSUME EagerRead PROVE ReceiverRefsExact'
  <2>1. /\ UNCHANGED <<mode, twice, con, data>> /\ rx.pc = "partition" /\ rx'.pc = "read"
        /\ rx'.task = rx.task /\ rx'.sent = rx.sent /\ rx'.new = rx.new /\ rx.task \in Tasks
        /\ rrefs' = Count(rrefs, rx.task, rx.new, 1)
    BY <1>5, LoopMoves DEF EagerRead, AtLoop
  <2>2. ASSUME NEW u \in Tasks, NEW x \in Keys
        PROVE  rrefs'[u][x] - rrefs[u][x] = Owners(data', rx', con'.items, mode', twice', u, x)
                                            - Owners(data, rx, con.items, mode, twice, u, x)
    <3>1. rrefs'[u][x] = rrefs[u][x] + IF u = rx.task /\ x \in rx.new THEN 1 ELSE 0
      BY <2>1, CountFacts DEF StoreTypes
    <3> QED
      BY <2>1, <3>1 DEF Owners, One, StoreTypes
  <2> QED
    BY <1>f, <2>2
<1>6. ASSUME EagerReadEnd PROVE ReceiverRefsExact'
  <2>1. /\ UNCHANGED <<mode, twice, con, data, rrefs>> /\ rx.pc = "read" /\ rx'.pc = "store" /\ mode = "eager"
        /\ rx'.task = rx.task /\ rx'.sent = rx.sent /\ rx'.new = rx.new /\ rx'.todo = rx.new
    BY <1>6, LoopMoves DEF EagerReadEnd, AtLoop
  <2>2. \A u \in Tasks, x \in Keys :
          Owners(data', rx', con'.items, mode', twice', u, x) = Owners(data, rx, con.items, mode, twice, u, x)
    BY <2>1 DEF Owners, One
  <2> QED
    BY <1>g, <2>1, <2>2
<1>7. ASSUME StoreBegin PROVE ReceiverRefsExact'
  <2>1. /\ UNCHANGED <<mode, twice, con, data, rrefs>> /\ rx.pc = "partition" /\ rx'.pc = "store"
        /\ mode # "eager" /\ rx'.sent = rx.sent
    BY <1>7, LoopMoves DEF StoreBegin, storeVars
  <2>2. \A u \in Tasks, x \in Keys :
          Owners(data', rx', con'.items, mode', twice', u, x) = Owners(data, rx, con.items, mode, twice, u, x)
    BY <2>1 DEF Owners, One
  <2> QED
    BY <1>g, <2>1, <2>2
<1>8. ASSUME AllocFails PROVE ReceiverRefsExact'
  <2> DEFINE mine == IF mode = "push" THEN rx.new \ rx.todo ELSE {}
  <2>1. /\ UNCHANGED <<mode, con>> /\ rx' = RxIdle /\ rx.pc \in {"partition", "store"}
        /\ rx.pc = "store" => mode = "push"
        /\ mode = "push" => rx.pc = "store"
        /\ data' = [k \in Keys |-> IF k \in mine THEN None ELSE data[k]]
        /\ rrefs' = Unpin(Count(rrefs, rx.task, mine, -1)) /\ rx.task \in Tasks
    BY <1>8 DEF AllocFails, TakeBack, ReleaseOnFailure, AtLoop
  <2> SUFFICES ASSUME Calm(mode, reply), NEW u \in Tasks, NEW x \in Keys
               PROVE  rrefs'[u][x] - rrefs[u][x] = Owners(data', rx', con'.items, mode', twice', u, x)
                                                    - Owners(data, rx, con.items, mode, twice, u, x)
    BY <1>f
  <2>2. \A k \in mine : data[k] \in {rx.task, None}
    BY <2>1 DEF TakenOnce
  <2>a. twice' = twice \cup {<<rx.task, k>> : k \in {j \in mine : data[j] # rx.task}}
    BY <1>8 DEF AllocFails
  <2>b. <<rx.task, x>> \notin twice
    <3>1. reply[rx.task].kind = "none"
      BY <2>1 DEF AtLoop, Serving
    <3> QED
      BY <3>1 DEF TakenOnce
  <2>c. <<u, x>> \in twice' <=> <<u, x>> \in twice \/ (u = rx.task /\ x \in mine /\ data[x] # rx.task)
    BY <2>a
  <2>3. rrefs'[u][x] = rrefs[u][x] - (IF u = rx.task /\ x \in mine THEN 1 ELSE 0)
                                   - (IF <<u, x>> \in rx.sent THEN 1 ELSE 0)
    <3> DEFINE once == Count(rrefs, rx.task, mine, -1)
    <3> HIDE DEF mine
    <3>1. once \in [Tasks -> [Keys -> Int]]
          /\ once[u][x] = rrefs[u][x] + IF u = rx.task /\ x \in mine THEN -1 ELSE 0
      BY <2>1, CountFacts DEF StoreTypes
    <3> HIDE DEF once
    <3>2. Unpin(once)[u][x] = once[u][x] - IF <<u, x>> \in rx.sent THEN 1 ELSE 0
      BY <3>1, UnpinFacts DEF Calm
    <3> QED
      BY <2>1, <3>1, <3>2 DEF StoreTypes, once
  <2>4. One(data'[x] = u) - One(<<u, x>> \in twice')
          = One(data[x] = u) - One(<<u, x>> \in twice) - IF u = rx.task /\ x \in mine THEN 1 ELSE 0
    <3> HIDE DEF mine
    <3>1. data'[x] = IF x \in mine THEN None ELSE data[x]
      BY <2>1
    <3>2. CASE u = rx.task /\ x \in mine
      <4>1. data'[x] # u /\ <<u, x>> \notin twice
        BY <2>b, <3>1, <3>2, PDAssumption
      <4>2. CASE data[x] = u
        BY <2>c, <3>2, <4>1, <4>2 DEF One
      <4>3. CASE data[x] # u
        BY <2>c, <3>2, <4>1, <4>3 DEF One
      <4> QED
        BY <4>2, <4>3
    <3>3. CASE ~(u = rx.task /\ x \in mine)
      <4>1. <<u, x>> \in twice' <=> <<u, x>> \in twice
        BY <2>c, <3>3
      <4>2. (data'[x] = u) <=> (data[x] = u)
        BY <2>2, <3>1, <3>3, PDAssumption
      <4> QED
        BY <3>3, <4>1, <4>2 DEF One
    <3> QED
      BY <3>2, <3>3
  <2> HIDE DEF mine
  <2> QED
    BY <2>1, <2>3, <2>4 DEF Owners, One, StoreTypes, RxIdle
<1>9. ASSUME ReadFails PROVE ReceiverRefsExact'
  <2>1. ~Calm(mode', reply')
    <3>1. rx.task \in Tasks /\ reply' = [reply EXCEPT ![rx.task] = [kind |-> "error", sent |-> {}]]
      BY <1>9 DEF ReadFails, AtLoop
    <3> QED
      BY <3>1 DEF Calm, NetTypes
  <2> QED
    BY <2>1, ReceiverForm
<1>10. ASSUME Reply PROVE ReceiverRefsExact'
  <2>1. /\ UNCHANGED <<mode, twice, con, data>> /\ rx.pc = "store" /\ rx.todo = {}
        /\ rx'.sent = {} \/ rx'.pc = "ack"
        /\ rx'.pc \in {"ack", "idle"} /\ rrefs' = Unpin(rrefs)
    BY <1>10, LoopMoves DEF Reply, RxIdle, StoreTypes, RxStates
  <2> SUFFICES ASSUME Calm(mode, reply), NEW u \in Tasks, NEW x \in Keys
               PROVE  rrefs'[u][x] - rrefs[u][x] = Owners(data', rx', con'.items, mode', twice', u, x)
                                                    - Owners(data, rx, con.items, mode, twice, u, x)
    BY <1>f
  <2>2. rrefs'[u][x] = rrefs[u][x] - IF <<u, x>> \in rx.sent THEN 1 ELSE 0
    BY <2>1, UnpinFacts DEF StoreTypes, Calm
  <2> QED
    BY <2>1, <2>2 DEF Owners, One, StoreTypes
<1>11. ASSUME PostAckDone PROVE ReceiverRefsExact'
  <2>1. /\ UNCHANGED <<mode, twice, con, data, rrefs>> /\ rx.pc = "ack" /\ rx'.pc = "idle" /\ rx'.sent = {}
    BY <1>11 DEF PostAckDone, storeVars, RxIdle
  <2>2. \A u \in Tasks, x \in Keys :
          Owners(data', rx', con'.items, mode', twice', u, x) = Owners(data, rx, con.items, mode, twice, u, x)
    BY <2>1 DEF Owners, One
  <2> QED
    BY <1>g, <2>1, <2>2
<1>12. ASSUME NEW S \in SUBSET Keys, Load(S) PROVE ReceiverRefsExact'
  <2>1. /\ UNCHANGED <<mode, twice, rx, data>> /\ con.items = {}
        /\ mode # "delay" => rrefs' = [t \in Tasks |-> [k \in Keys |->
                               rrefs[t][k] + (IF <<t, k>> \in con'.items THEN 1 ELSE 0)]]
    BY <1>12 DEF Load, Idling
  <2> SUFFICES ASSUME Calm(mode, reply), NEW u \in Tasks, NEW x \in Keys
               PROVE  rrefs'[u][x] - rrefs[u][x] = Owners(data', rx', con'.items, mode', twice', u, x)
                                                    - Owners(data, rx, con.items, mode, twice, u, x)
    BY <1>f
  <2>2. rrefs'[u][x] = rrefs[u][x] + IF <<u, x>> \in con'.items THEN 1 ELSE 0
    BY <2>1 DEF Calm
  <2> QED
    BY <2>1, <2>2 DEF Owners, One, StoreTypes
<1>13. ASSUME LoadEnd PROVE ReceiverRefsExact'
  <2>1. /\ UNCHANGED <<mode, twice, rx, data>> /\ con'.items = {}
        /\ mode # "delay" => rrefs' = [t \in Tasks |-> [k \in Keys |->
                               rrefs[t][k] - (IF <<t, k>> \in con.items THEN 1 ELSE 0)]]
    BY <1>13 DEF LoadEnd
  <2> SUFFICES ASSUME Calm(mode, reply), NEW u \in Tasks, NEW x \in Keys
               PROVE  rrefs'[u][x] - rrefs[u][x] = Owners(data', rx', con'.items, mode', twice', u, x)
                                                    - Owners(data, rx, con.items, mode, twice, u, x)
    BY <1>f
  <2>2. rrefs'[u][x] = rrefs[u][x] - IF <<u, x>> \in con.items THEN 1 ELSE 0
    BY <2>1 DEF Calm
  <2> QED
    BY <2>1, <2>2 DEF Owners, One, StoreTypes
<1>14. ASSUME NEW t \in Tasks, Begin(t) \/ Submit(t) \/ Answer(t) \/ Register(t) \/ Write(t)
              \/ HandleDone(t) \/ Sweep(t)
       PROVE  ReceiverRefsExact'
  BY <1>14, <1>q DEF senderVars, netVars, storeVars, Begin, Submit, Answer, Register, Write,
     HandleDone, Sweep
<1>15. ASSUME NEW s \in Senders, BackoffExpires(s) PROVE ReceiverRefsExact'
  BY <1>15, <1>q DEF senderVars, netVars, storeVars, BackoffExpires
<1>16. CASE UNCHANGED vars
  BY <1>16, <1>q DEF vars, senderVars, netVars, storeVars
<1> QED
  BY <1>1, <1>2, <1>3, <1>4, <1>5, <1>6, <1>7, <1>8, <1>9, <1>10, <1>11, <1>12, <1>13, <1>14,
     <1>15, <1>16 DEF Next, PutStep, ListenStep, RxStep

\* A key without content belongs to a call that is still at work, or raised.
LEMMA VisibleStep ==
  ASSUME SenderTypes, NetTypes, StoreTypes, AtLoop, Answered, Stored, VisibleIsBeingWritten, [Next]_vars
  PROVE  VisibleIsBeingWritten'
<1>q. ASSUME UNCHANGED <<mode, state, data, full>> PROVE VisibleIsBeingWritten'
  BY <1>q DEF VisibleIsBeingWritten
<1>1. ASSUME NEW t \in Tasks, Begin(t) \/ Submit(t) \/ Answer(t) \/ Register(t)
      PROVE  VisibleIsBeingWritten'
  <2>1. UNCHANGED <<data, full>>
    BY <1>1 DEF Begin, Submit, Answer, Register, storeVars
  <2>2. \A k \in Keys : data[k] = t /\ data[k] # None => reply[t].kind \in {"none", "ok"} /\ state[t] # "new"
    BY DEF Stored, AtLoop, Serving, Answered
  <2>3. /\ mode' = mode /\ \A u \in Tasks : u # t => state'[u] = state[u]
        /\ state'[t] \in {"reply", "write", "raised"} \/ state[t] = "new"
           \/ reply[t].kind = "failed" \/ Pull
    BY <1>1, PutMoves DEF Answered, Begin, Submit, Answer, Register
  <2> QED
    BY <2>1, <2>2, <2>3 DEF VisibleIsBeingWritten, StoreTypes, Pull
<1>2. ASSUME NEW t \in Tasks, Write(t) PROVE VisibleIsBeingWritten'
  <2>1. /\ UNCHANGED <<mode, data>> /\ state[t] = "write"
        /\ \/ full' = full \cup ({t} \X (KeysOf[t] \ reply[t].sent))
              /\ state' = [state EXCEPT ![t] = "returned"]
           \/ full' = full /\ state' = [state EXCEPT ![t] = "raised"]
    BY <1>2 DEF Write, Go
  <2>2. \A k \in Keys : data[k] = t /\ data[k] # None => k \in KeysOf[t] \ reply[t].sent
    BY <2>1 DEF Stored, AtLoop, Serving
  <2> QED
    BY <2>1, <2>2 DEF VisibleIsBeingWritten, StoreTypes, SenderTypes
<1>3. ASSUME NEW k \in Keys, Partition(k) \/ Remove(k) PROVE VisibleIsBeingWritten'
  <2>1. UNCHANGED <<mode, state, full>>
    BY <1>3 DEF Partition, Remove, senderVars
  <2>2. \A x \in Keys : data'[x] \in {data[x], None}
    BY <1>3 DEF Partition, Remove, StoreTypes
  <2> QED
    BY <2>1, <2>2 DEF VisibleIsBeingWritten
<1>4. ASSUME NEW k \in Keys, Store(k) PROVE VisibleIsBeingWritten'
  <2>1. UNCHANGED <<mode, state, full>> /\ data' = [data EXCEPT ![k] = rx.task] /\ rx.pc = "store"
    BY <1>4 DEF Store, senderVars
  <2>2. state[rx.task] = "reply"
    BY <2>1 DEF AtLoop, Serving
  <2> QED
    BY <2>1, <2>2 DEF VisibleIsBeingWritten, StoreTypes
<1>5. ASSUME EagerReadEnd PROVE VisibleIsBeingWritten'
  BY <1>5 DEF VisibleIsBeingWritten, EagerReadEnd, senderVars
<1>6. ASSUME AllocFails PROVE VisibleIsBeingWritten'
  <2>1. UNCHANGED <<mode, state, full>>
    BY <1>6 DEF AllocFails, senderVars
  <2>2. \A x \in Keys : data'[x] \in {data[x], None}
    BY <1>6 DEF AllocFails, TakeBack
  <2> QED
    BY <2>1, <2>2 DEF VisibleIsBeingWritten
<1>7. ASSUME NEW t \in Tasks, HandleDone(t) \/ Sweep(t) \/ Receive(t) PROVE VisibleIsBeingWritten'
  BY <1>7, <1>q DEF senderVars, netVars, storeVars, HandleDone, Sweep, Receive
<1>8. ASSUME NEW s \in Senders, BackoffExpires(s) PROVE VisibleIsBeingWritten'
  BY <1>8, <1>q DEF senderVars, netVars, storeVars, BackoffExpires
<1>9. ASSUME NEW S \in SUBSET Keys, Load(S) PROVE VisibleIsBeingWritten'
  BY <1>9, <1>q DEF senderVars, netVars, storeVars, Load
<1>10. CASE \/ EagerRead \/ StoreBegin \/ ReadFails \/ Reply \/ PostAckDone \/ LoadEnd
            \/ UNCHANGED vars
  BY <1>10, <1>q DEF vars, senderVars, netVars, storeVars, EagerRead, StoreBegin, ReadFails,
     Reply, PostAckDone, LoadEnd
<1> QED
  BY <1>1, <1>2, <1>3, <1>4, <1>5, <1>6, <1>7, <1>8, <1>9, <1>10 DEF Next, PutStep, ListenStep,
     RxStep

-----------------------------------------------------------------------------
(* The invariant holds *)

\* The initial states satisfy the invariant.
LEMMA InitPDInv == Init => PDInv
<1> SUFFICES ASSUME Init
             PROVE  PDInv
  OBVIOUS
<1>1. SenderTypes /\ NetTypes /\ StoreTypes
  BY PDAssumption DEF Init, Zero, RxIdle, SenderTypes, NetTypes, StoreTypes, TaskStates,
     Answers, RxStates
<1>2. AtLoop /\ Answered
  BY DEF Init, RxIdle, AtLoop, Answered, Serving
<1>3. OneCall /\ RoomKept /\ AwaitDone
  BY DEF Init, OneCall, RoomKept, AwaitDone, Active
<1>4. SenderRefsExact
  BY PDAssumption DEF Init, Zero, SenderRefsExact, Active, One
<1>5. PinnedBounded
  <2>1. \A s \in Senders : Awaiting(pending, s) = {} /\ count[s] = 0
    BY DEF Init, Awaiting
  <2> QED
    BY <2>1, FS_EmptySet, HwmType, PinnedForm
<1>6. Split /\ Fresh /\ Idling /\ Stored /\ TakenOnce
  BY DEF Init, RxIdle, Split, Fresh, Idling, Stored, TakenOnce
<1>7. ReceiverRefsExact /\ VisibleIsBeingWritten
  BY PDAssumption DEF Init, Zero, RxIdle, ReceiverRefsExact, One, VisibleIsBeingWritten
<1>8. DonesSent /\ LoadsFresh /\ StaysPinned
  BY DEF Init, DonesSent, LoadsFresh, StaysPinned
<1> QED
  BY <1>1, <1>2, <1>3, <1>4, <1>5, <1>6, <1>7, <1>8 DEF PDInv, Types, PrefillerInv, DecoderInv,
     ProxyInv

\* Every step keeps the invariant.
LEMMA PDInvStep == PDInv /\ [Next]_vars => PDInv'
<1> SUFFICES ASSUME PDInv, [Next]_vars
             PROVE  PDInv'
  OBVIOUS
<1>a. /\ SenderTypes /\ NetTypes /\ StoreTypes
      /\ Answered /\ OneCall /\ RoomKept /\ AwaitDone /\ SenderRefsExact /\ PinnedBounded
      /\ AtLoop /\ Split /\ Fresh /\ Idling /\ Stored /\ TakenOnce
      /\ ReceiverRefsExact /\ VisibleIsBeingWritten
      /\ DonesSent /\ LoadsFresh /\ StaysPinned
  BY DEF PDInv, Types, PrefillerInv, DecoderInv, ProxyInv
<1>1. Types'
  BY <1>a, SenderTypesStep, NetTypesStep, StoreTypesStep DEF Types
<1>2. PrefillerInv'
  BY <1>a, AnsweredStep, OneCallStep, RoomKeptStep, AwaitDoneStep, SenderRefsStep, PinnedStep
     DEF PrefillerInv
<1>3. DecoderInv'
  BY <1>a, AtLoopStep, SplitStep, FreshStep, IdlingStep, StoredStep, TakenOnceStep,
     ReceiverRefsStep, VisibleStep DEF DecoderInv
<1>4. ProxyInv'
  BY <1>a, DonesSentStep, LoadsFreshStep, StaysPinnedStep DEF ProxyInv
<1> QED
  BY <1>1, <1>2, <1>3, <1>4 DEF PDInv

\* The invariant holds in every reachable state.
LEMMA PDInvAlways == Spec => []PDInv
<1>1. PDInv /\ UNCHANGED vars => PDInv'
  BY PDInvStep
<1> QED
  BY InitPDInv, PDInvStep, PTL DEF Spec

-----------------------------------------------------------------------------
(* Theorems *)

\* Whatever the order of answer, Done, registration, sweep and refusal, a page of a
\* prefiller has exactly the references of its call and of its pin, the counter is the
\* number of pages that await a Done, and it never passes the high-water mark, in every
\* mode and with every fault (sender_mixin.py).
THEOREM SenderAlwaysExact == Spec => []SenderExact
<1>1. PDInv => SenderExact
  BY DEF PDInv, PrefillerInv, SenderExact
<1> QED
  BY <1>1, PDInvAlways, PTL

\* The decoder's pages have exactly their owners, and a key that is visible without its
\* content has a writer, in push and in eager mode, also when requests load and remove
\* keys of a batch that is still being put; the pages that the roll-back of such a batch
\* releases once more (receiver_mixin.py:109-112) are counted as what they are.
THEOREM ReceiverAlwaysExact == Spec => []ReceiverExact
<1>1. PDInv => ReceiverExact
  BY DEF PDInv, DecoderInv, ReceiverExact
<1> QED
  BY <1>1, PDInvAlways, PTL

\* A delayed pull reads only pages its prefiller still holds, however requests choose
\* their chunks and Done signals are lost, delayed or come before the registration; the
\* chunks that an earlier load of their batch left over and the batches whose TTL passed
\* are the only ones without protection.
THEOREM ReadsAlwaysPinned == Spec => []ReadsPinned
<1>1. PDInv => ReadsPinned
  BY PinnedWhileRead DEF PDInv, Types, PrefillerInv, DecoderInv, ProxyInv
<1> QED
  BY <1>1, PDInvAlways, PTL

=============================================================================
