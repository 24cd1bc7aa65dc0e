----------------------- MODULE CheckpointReaderProofs -----------------------
(***************************************************************************)
(* Proofs about CheckpointReader, for any number of publications, windows  *)
(* and pages: a read that runs against spills, forgets and evictions never *)
(* takes the release of local pages for a miss, and reference counts stay  *)
(* exact while it takes, trims and drops pages.                            *)
(***************************************************************************)
EXTENDS CheckpointWritebackProofs, CheckpointReader

-----------------------------------------------------------------------------
(* What is left of a finite set *)

LEMMA Without ==
  ASSUME NEW A, NEW B, IsFiniteSet(A), B \subseteq A
  PROVE  Cardinality(A \ B) = Cardinality(A) - Cardinality(B)
<1>1. Cardinality(A \ B) = Cardinality(A) - Cardinality(A \cap B)
  BY FS_Difference, Zenon
<1>2. A \cap B = B
  OBVIOUS
<1> QED
  BY <1>1, <1>2

-----------------------------------------------------------------------------
(* The slots of a checkpoint, in the order a read visits them *)

Positions == 0..(2 * W - 1)

\* Division by W tells the groups apart.
LEMMA SlotForm ==
  ASSUME NEW n \in Positions
  PROVE  SlotAt(n) = IF n < W THEN <<0, n + 1>> ELSE <<1, n - W + 1>>
<1>1. W \in Nat /\ W > 0 /\ n \in Int /\ 0 <= n /\ n < 2 * W
  BY ConstantsAssumption DEF Positions
<1>2. n < W => n \div W = 0 /\ n % W = n
  BY <1>1
<1>3. n >= W => n \div W = 1 /\ n % W = n - W
  BY <1>1
<1> QED
  BY <1>1, <1>2, <1>3 DEF SlotAt

\* Every slot is visited, once, and after the window before it.
LEMMA SlotOrder ==
  /\ \A n \in Positions : SlotAt(n) \in Slots
  /\ \A m, n \in Positions : SlotAt(m) = SlotAt(n) => m = n
  /\ \A slot \in Slots : \E n \in Positions : SlotAt(n) = slot
  /\ \A n \in Positions :
       SlotAt(n)[2] # 1 => n - 1 \in Positions /\ SlotAt(n - 1) = <<SlotAt(n)[1], SlotAt(n)[2] - 1>>
<1>1. W \in Nat /\ W > 0
  BY ConstantsAssumption
<1>2. ASSUME NEW n \in Positions PROVE SlotAt(n) \in Slots
  <2>1. n \in Int /\ 0 <= n /\ n < 2 * W
    BY <1>1 DEF Positions
  <2> QED
    BY <1>1, <2>1, SlotForm DEF Slots, Groups, Windows
<1>3. ASSUME NEW m \in Positions, NEW n \in Positions, SlotAt(m) = SlotAt(n) PROVE m = n
  <2>1. m \in Int /\ n \in Int
    BY <1>1 DEF Positions
  <2>2. SlotAt(m) = IF m < W THEN <<0, m + 1>> ELSE <<1, m - W + 1>>
    BY SlotForm
  <2>3. SlotAt(n) = IF n < W THEN <<0, n + 1>> ELSE <<1, n - W + 1>>
    BY SlotForm
  <2>4. /\ SlotAt(m)[1] = (IF m < W THEN 0 ELSE 1)
        /\ SlotAt(m)[2] = (IF m < W THEN m + 1 ELSE m - W + 1)
    BY <2>2
  <2>5. /\ SlotAt(n)[1] = (IF n < W THEN 0 ELSE 1)
        /\ SlotAt(n)[2] = (IF n < W THEN n + 1 ELSE n - W + 1)
    BY <2>3
  <2> QED
    BY <1>1, <1>3, <2>1, <2>4, <2>5
<1>4. ASSUME NEW slot \in Slots PROVE \E n \in Positions : SlotAt(n) = slot
  <2>1. PICK g \in Groups, k \in Windows : slot = <<g, k>>
    BY DEF Slots
  <2>2. k \in Int /\ 1 <= k /\ k <= W
    BY <1>1 DEF Windows
  <2>3. CASE g = 0
    <3>1. PICK n \in Positions : n < W /\ n + 1 = k
      BY <1>1, <2>2 DEF Positions
    <3> QED
      BY <2>1, <2>3, <3>1, SlotForm
  <2>4. CASE g = 1
    <3>1. PICK n \in Positions : ~(n < W) /\ n - W + 1 = k
      <4>1. W + k - 1 \in Positions /\ ~(W + k - 1 < W) /\ (W + k - 1) - W + 1 = k
        BY <1>1, <2>2 DEF Positions
      <4> QED
        BY <4>1
    <3> QED
      BY <2>1, <2>4, <3>1, SlotForm
  <2> QED
    BY <2>3, <2>4 DEF Groups
<1>5. ASSUME NEW n \in Positions, SlotAt(n)[2] # 1
      PROVE  n - 1 \in Positions /\ SlotAt(n - 1) = <<SlotAt(n)[1], SlotAt(n)[2] - 1>>
  <2>1. n \in Int /\ 0 <= n /\ n < 2 * W
    BY <1>1 DEF Positions
  <2>2. SlotAt(n) = IF n < W THEN <<0, n + 1>> ELSE <<1, n - W + 1>>
    BY SlotForm
  <2>3. n # 0 /\ n # W
    BY <1>1, <1>5, <2>1, <2>2
  <2>4. n - 1 \in Positions
    BY <1>1, <2>1, <2>3 DEF Positions
  <2>5. SlotAt(n - 1) = IF n - 1 < W THEN <<0, n - 1 + 1>> ELSE <<1, n - 1 - W + 1>>
    BY <2>4, SlotForm
  <2> QED
    BY <1>1, <2>1, <2>2, <2>3, <2>4, <2>5
<1> QED
  BY <1>2, <1>3, <1>4, <1>5

\* There are finitely many slots, and each names a page of the publication.
LEMMA SlotPages ==
  /\ IsFiniteSet(Slots)
  /\ \A r \in Rets : \A slot \in Slots : /\ Source[r][slot[1]][slot[2]] \in PagesOf(r)
                                         /\ Source[r][slot[1]][slot[2]] \in Pages
<1>1. IsFiniteSet(Windows)
  BY ConstantsAssumption, FS_Interval DEF Windows
<1>2. IsFiniteSet(Groups)
  <2>1. IsFiniteSet({0}) /\ Groups = {0} \cup {1}
    BY FS_Singleton DEF Groups
  <2> QED
    BY <2>1, FS_AddElement
<1>3. IsFiniteSet(Slots)
  BY <1>1, <1>2, FS_Product DEF Slots
<1>4. ASSUME NEW r \in Rets, NEW slot \in Slots
      PROVE  /\ Source[r][slot[1]][slot[2]] \in PagesOf(r)
             /\ Source[r][slot[1]][slot[2]] \in Pages
  <2>1. slot[1] \in Groups /\ slot[2] \in Windows
    BY DEF Slots
  <2> QED
    BY <2>1, ConstantsAssumption DEF PagesOf
<1> QED
  BY <1>3, <1>4

\* Pairing only drops slots, and none of a complete checkpoint.
LEMMA PairedFacts ==
  /\ \A S : Paired(S) \subseteq S
  /\ Paired(Slots) = Slots
<1>1. ASSUME NEW slot \in Slots, NEW g \in Groups, NEW k \in 1..slot[2] PROVE <<g, k>> \in Slots
  <2>1. slot[2] \in 1..W
    BY DEF Slots, Windows
  <2>2. k \in 1..W
    BY <2>1, ConstantsAssumption
  <2> QED
    BY <2>2 DEF Slots, Windows
<1> QED
  BY <1>1 DEF Paired

-----------------------------------------------------------------------------
(* What the store's own proofs say while a reader runs *)

Store == Shape /\ InHand /\ Durable

\* A reader moves references and its own state, nothing the store's invariants
\* speak of.
LEMMA StoreUntouched ==
  ASSUME Store, UNCHANGED storeVars, refs' \in [Pages -> Int]
  PROVE  Store'
<1>1. /\ UNCHANGED <<cache, jobs, jobHeld, held>> /\ UNCHANGED offerVars /\ UNCHANGED ledgerVars
      /\ UNCHANGED execVars /\ UNCHANGED monVars /\ UNCHANGED flagVars
  BY DEF storeVars
<1>2. TypeOK'
  <2>1. PageTypes'
    BY <1>1 DEF Store, Shape, TypeOK, PageTypes
  <2> QED
    BY <1>1, <2>1, TypeFrame DEF Store, Shape, TypeOK
<1>3. PublishOnce' /\ OwnersReachable' /\ Batches'
  BY <1>1 DEF Store, Shape, PublishOnce, OwnersReachable, Batches, offerVars, ledgerVars, execVars,
              monVars
<1>4. InHand'
  BY <1>1 DEF Store, InHand, execVars, monVars
<1>5. Durable'
  BY <1>1 DEF Store, Durable, SpillProgress, ReleasedOnlyWhenDurable, offerVars, ledgerVars, monVars
<1> QED
  BY <1>2, <1>3, <1>4, <1>5 DEF Store, Shape

\* Every step of the store keeps them.
LEMMA StoreStep == Store /\ [Next]_vars => Store'
BY TypeStep, OnceStep, ShapeStep, InHandStep, ProgressKept, DurableKept DEF Store, Shape, Durable

\* A confirmed checkpoint is on the remote side as a whole.
RemoteStored == \A r \in remote : PagesOf(r) \subseteq stored

\* The store goes one way: a record leaves only by being cancelled, and neither
\* a cancellation, a confirmation nor a stored page is ever taken back.
OneWay ==
  /\ records \subseteq records' \cup cancelled'
  /\ cancelled \subseteq cancelled' /\ remote \subseteq remote' /\ stored \subseteq stored'

\* Every step of the store goes that way, and confirms only complete checkpoints.
LEMMA OneWayStep == Store /\ RemoteStored /\ [Next]_vars => OneWay /\ RemoteStored'
<1> SUFFICES ASSUME Store, RemoteStored, [Next]_vars
             PROVE  OneWay /\ RemoteStored'
  OBVIOUS
<1>1. ASSUME UNCHANGED <<records, cancelled, remote, stored>> PROVE OneWay /\ RemoteStored'
  BY <1>1 DEF OneWay, RemoteStored
<1>2. ASSUME UNCHANGED offerVars, stored \subseteq stored' PROVE OneWay /\ RemoteStored'
  BY <1>2 DEF OneWay, RemoteStored, offerVars
<1>3. ASSUME NEW r \in Rets, Seal(r) \/ PollRelease(r) \/ BackoffExpires(r)
      PROVE  OneWay /\ RemoteStored'
  BY <1>1, <1>3 DEF Seal, PollRelease, BackoffExpires, offerVars, monVars
<1>4. CASE PublishStart \/ PublishAcquire \/ PublishFinish \/ RetireRelease \/ RetireUncharge
  BY <1>2, <1>4 DEF PublishStart, PublishAcquire, PublishFinish, RetireRelease, RetireUncharge, monVars
<1>5. CASE PublishCommit
  <2>1. records \subseteq records' /\ UNCHANGED <<cancelled, remote, stored>>
    BY <1>5 DEF PublishCommit, Refused
  <2> QED
    BY <2>1 DEF OneWay, RemoteStored
<1>6. ASSUME NEW c \in Callers, NEW keys, Pop(c, keys), UNCHANGED stored PROVE OneWay /\ RemoteStored'
  <2>1. /\ records \ records' \subseteq cancelled' /\ cancelled \subseteq cancelled'
        /\ remote' = remote
    BY <1>6 DEF Pop
  <2> QED
    BY <1>6, <2>1 DEF OneWay, RemoteStored
<1>7. ASSUME NEW c \in Callers, NEW keys, Forget(c, keys) PROVE OneWay /\ RemoteStored'
  BY <1>6, <1>7 DEF Forget, execVars, monVars
<1>8. ASSUME NEW i, CloseForget(i) PROVE OneWay /\ RemoteStored'
  BY <1>6, <1>8 DEF CloseForget, Callers, execVars, monVars
<1>j. ASSUME NEW c \in Callers, CompletedForget(c) PROVE OneWay /\ RemoteStored'
  BY <1>6, <1>j DEF CompletedForget, execVars, monVars
<1>9. ASSUME NEW i, NEW a, NEW e, RestoreEvent(i, a, e) PROVE OneWay /\ RemoteStored'
  BY <1>1, <1>9 DEF RestoreEvent, monVars
<1>h. ASSUME NEW c, NEW r, HandOver(c, r) PROVE OneWay /\ RemoteStored'
  BY <1>1, <1>h DEF HandOver, monVars
<1>10. CASE MonitorTop \/ MonitorWait \/ MonitorClear \/ MonitorSample \/ MonitorSelect \/ SpillWindow
  BY <1>2, <1>10 DEF MonitorTop, MonitorWait, MonitorClear, MonitorSample, MonitorSelect, SpillWindow
<1>11. CASE SpillBuild \/ SpillSubmit
  BY <1>1, <1>11 DEF SpillBuild, SpillSubmit, offerVars
<1>12. CASE SpillResult
  <2>1. UNCHANGED <<records, cancelled, remote>> /\ stored \subseteq stored'
    BY <1>12 DEF SpillResult
  <2> QED
    BY <2>1 DEF OneWay, RemoteStored
<1>13. CASE SpillConfirm
  <2>1. UNCHANGED <<records, cancelled, stored>> /\ mon.pc = "confirm"
    BY <1>13 DEF SpillConfirm
  <2>2. CASE Persisted /\ remote' = remote \cup {mon.rec}
    <3>1. PagesOf(mon.rec) \subseteq stored
      BY <2>1, <2>2, AllWindowsStored DEF Store, Durable, Persisted, Spilling
    <3> QED
      BY <2>1, <2>2, <3>1 DEF OneWay, RemoteStored
  <2>3. CASE remote' = remote
    BY <1>1, <2>1, <2>3
  <2> QED
    BY <1>13, <2>2, <2>3 DEF SpillConfirm
<1>14. CASE \/ MonitorRelease("retire", "settle", SwapSite)
            \/ MonitorUncharge("settle", "release", SwapSite)
            \/ MonitorRelease("release", "return", SpillSite)
            \/ MonitorUncharge("return", "top", SpillSite)
  BY <1>2, <1>14 DEF MonitorRelease, MonitorUncharge
<1>15. CASE CloseBegin \/ CloseWake \/ CloseJoin \/ CloseShutdown
  BY <1>2, <1>15 DEF CloseBegin, CloseWake, CloseJoin, CloseShutdown, monVars
<1>16. ASSUME NEW p, Evict(p) \/ RemoveAlias(p) PROVE OneWay /\ RemoteStored'
  BY <1>2, <1>16 DEF Evict, RemoveAlias, monVars
<1>17. CASE ToggleFreeze \/ UNCHANGED vars
  BY <1>2, <1>17 DEF ToggleFreeze, vars, monVars
<1> QED
  BY <1>h, <1>j, <1>3, <1>4, <1>5, <1>7, <1>8, <1>9, <1>10, <1>11, <1>12, <1>13, <1>14, <1>15, <1>16, <1>17
     DEF Next, CallStep, ExecStep, CloseStep, MonitorStep

-----------------------------------------------------------------------------
(* The invariant of a read *)

ReadTypes ==
  /\ rd \in [pc : {"idle", "snapshot", "local", "recheck", "gather", "done"},
             ret : Rets \cup {None}, rec : Rets \cup {None}, probe : BOOLEAN, thawed : BOOLEAN,
             at : 0..(2 * W), got : SUBSET Slots, full : BOOLEAN, excused : BOOLEAN]
  /\ rd.pc # "idle" => rd.ret \in Rets

\* A read only holds pages of slots it has visited.
ReadPlace ==
  /\ rd.pc \in {"idle", "snapshot"} => rd.got = {} /\ rd.at = 0
  /\ rd.pc = "recheck" => rd.at = 0
  /\ rd.pc \in {"local", "gather"} =>
       \A slot \in rd.got : \E n \in Positions : n < rd.at /\ slot = SlotAt(n)

\* The record a read found stays or is cancelled.  While it reads locally it
\* misses nothing unless the record was cancelled or confirmed meanwhile, and
\* it gathers only what was confirmed.
ReadRecord ==
  /\ rd.rec # None => rd.rec = rd.ret /\ rd.rec \in records \cup cancelled
  /\ rd.pc = "local" /\ rd.rec # None =>
       \/ rd.rec \in cancelled \cup remote
       \/ \A n \in Positions : n < rd.at => SlotAt(n) \in rd.got
  /\ rd.pc = "recheck" /\ rd.rec # None => rd.rec \in cancelled \cup remote
  /\ rd.pc = "gather" => rd.rec # None /\ rd.rec \in remote

ReadInv == ReadTypes /\ ReadPlace /\ ReadRecord /\ NoFalseMiss

\* A page of a record that is neither cancelled nor confirmed is always found.
LEMMA RetainedFound ==
  ASSUME Store, ReadTypes, rd.pc = "local", rd.rec # None, rd.rec = rd.ret,
         rd.rec \in records \cup cancelled, rd.rec \notin cancelled \cup remote,
         NEW slot \in Slots
  PROVE  Found(PageAt(slot))
<1>1. rd.ret \in Rets /\ rd.ret \in records /\ rd.ret \notin remote
  BY DEF ReadTypes
<1>2. owned[<<"rec", rd.ret>>] # {}
  BY <1>1 DEF Store, Durable, ReleasedOnlyWhenDurable
<1>3. owned[<<"rec", rd.ret>>] = PagesOf(rd.ret)
  BY <1>1, <1>2 DEF Store, Shape, Batches
<1>4. PageAt(slot) \in PagesOf(rd.ret)
  BY <1>1, SlotPages DEF PageAt
<1> QED
  BY <1>1, <1>3, <1>4 DEF Found

\* Steps of the store leave the read's invariant alone.
LEMMA ReadUnmoved ==
  ASSUME ReadInv, OneWay, UNCHANGED rd
  PROVE  ReadInv'
<1>1. ReadTypes' /\ ReadPlace'
  BY DEF ReadInv, ReadTypes, ReadPlace, SlotAt
<1>2. ReadRecord'
  BY DEF ReadInv, ReadRecord, OneWay, SlotAt
<1>3. NoFalseMiss'
  BY DEF ReadInv, NoFalseMiss, OneWay
<1> QED
  BY <1>1, <1>2, <1>3 DEF ReadInv

\* A read starts.
LEMMA LookupKeeps ==
  ASSUME Store, ReadInv, NEW r \in Rets, NEW probe \in BOOLEAN, Lookup(r, probe)
  PROVE  ReadInv'
<1>1. /\ rd'.pc = "snapshot" /\ rd'.got = {} /\ rd'.at = 0 /\ rd'.ret = r /\ rd'.rec = None
      /\ rd' = [pc |-> "snapshot", ret |-> r, rec |-> None, probe |-> probe, thawed |-> TRUE,
                at |-> 0, got |-> {}, full |-> FALSE, excused |-> FALSE]
  BY DEF Lookup, Idle
<1>2. 0 \in 0..(2 * W)
  BY ConstantsAssumption
<1> QED
  BY <1>1, <1>2 DEF ReadInv, ReadTypes, ReadPlace, ReadRecord, NoFalseMiss

\* The record is looked up and the side to read from chosen.
LEMMA SnapshotKeeps ==
  ASSUME Store, ReadInv, Snapshot
  PROVE  ReadInv'
<1>1. /\ rd.pc = "snapshot" /\ rd.ret \in Rets /\ rd.got = {} /\ rd.at = 0
      /\ UNCHANGED <<records, cancelled, remote>>
  BY DEF ReadInv, ReadTypes, ReadPlace, Snapshot, vars, offerVars
<1>2. frozen \in BOOLEAN
  BY DEF Store, Shape, TypeOK, FlagTypes
<1>3. /\ rd'.ret = rd.ret /\ rd'.got = rd.got /\ rd'.at = rd.at
      /\ rd'.rec = IF rd.ret \in records THEN rd.ret ELSE None
      /\ rd'.pc = IF ~frozen /\ rd.ret \in records \cap remote THEN "gather" ELSE "local"
  BY DEF ReadInv, ReadTypes, Snapshot
<1>4. ReadTypes'
  BY <1>1, <1>2 DEF ReadInv, ReadTypes, Snapshot
<1>5. \A n \in Positions : ~(n < 0)
  BY DEF Positions
<1>6. ReadPlace' /\ ReadRecord' /\ NoFalseMiss'
  BY <1>1, <1>3, <1>5, ConstantsAssumption DEF ReadPlace, ReadRecord, NoFalseMiss
<1> QED
  BY <1>4, <1>6 DEF ReadInv

\* One more page, taken if it is found.
LEMMA VisitKeeps ==
  ASSUME Store, ReadInv, NEW take \in BOOLEAN, rd.at < 2 * W, rd.pc \in {"local", "gather"},
         rd' = [rd EXCEPT !.at = @ + 1,
                          !.got = IF take THEN @ \cup {SlotAt(rd.at)} ELSE @]
  PROVE  /\ ReadTypes' /\ ReadPlace'
         /\ rd.at \in Positions
         /\ rd'.pc = rd.pc /\ rd'.rec = rd.rec /\ rd'.ret = rd.ret /\ rd'.at = rd.at + 1
         /\ rd'.got = IF take THEN rd.got \cup {SlotAt(rd.at)} ELSE rd.got
<1>1. rd.at \in Positions /\ rd.at + 1 \in 0..(2 * W)
  BY ConstantsAssumption DEF ReadInv, ReadTypes, Positions
<1>2. SlotAt(rd.at) \in Slots
  BY <1>1, SlotOrder
<1>3. /\ rd'.pc = rd.pc /\ rd'.rec = rd.rec /\ rd'.ret = rd.ret /\ rd'.at = rd.at + 1
      /\ rd'.got = IF take THEN rd.got \cup {SlotAt(rd.at)} ELSE rd.got
  BY DEF ReadInv, ReadTypes
<1>4. ReadTypes'
  BY <1>1, <1>2 DEF ReadInv, ReadTypes
<1>5. ReadPlace'
  <2>1. ASSUME NEW slot \in rd'.got
        PROVE  \E n \in Positions : n < rd.at + 1 /\ slot = SlotAt(n)
    <3>1. CASE slot = SlotAt(rd.at)
      BY <1>1, <3>1 DEF Positions
    <3>2. CASE slot \in rd.got
      <4>1. PICK n \in Positions : n < rd.at /\ slot = SlotAt(n)
        BY <3>2 DEF ReadInv, ReadPlace
      <4>2. n < rd.at + 1
        BY <1>1, <4>1 DEF Positions
      <4> QED
        BY <4>1, <4>2
    <3> QED
      BY <1>3, <2>1, <3>1, <3>2
  <2> QED
    BY <1>3, <2>1 DEF ReadPlace, SlotAt
<1> QED
  BY <1>1, <1>3, <1>4, <1>5

\* A local read misses no page of a record that is neither cancelled nor confirmed.
LEMMA ReadLocalKeeps ==
  ASSUME Store, ReadInv, ReadLocal
  PROVE  ReadInv'
<1> DEFINE slot == SlotAt(rd.at)
           take == Found(PageAt(slot)) /\ (slot[2] = 1 \/ <<slot[1], slot[2] - 1>> \in rd.got)
<1>1. /\ rd.pc = "local" /\ rd.at < 2 * W /\ UNCHANGED <<records, cancelled, remote>>
      /\ rd' = [rd EXCEPT !.at = @ + 1, !.got = IF take THEN @ \cup {slot} ELSE @]
  BY DEF ReadLocal, storeVars, offerVars
<1>2. /\ ReadTypes' /\ ReadPlace' /\ rd.at \in Positions
      /\ rd'.pc = rd.pc /\ rd'.rec = rd.rec /\ rd'.ret = rd.ret /\ rd'.at = rd.at + 1
      /\ rd'.got = IF take THEN rd.got \cup {slot} ELSE rd.got
  <2>1. take \in BOOLEAN
    OBVIOUS
  <2> QED
    BY <1>1, <2>1, VisitKeeps
<1>3. ASSUME rd.rec # None, rd.rec \notin cancelled \cup remote,
             NEW n \in Positions, n < rd.at + 1
      PROVE  SlotAt(n) \in rd'.got
  <2>1. \A m \in Positions : m < rd.at => SlotAt(m) \in rd.got
    BY <1>1, <1>3 DEF ReadInv, ReadRecord
  <2>2. CASE n < rd.at
    BY <1>2, <2>1, <2>2
  <2>3. CASE n = rd.at
    <3>1. slot \in Slots
      BY <1>2, SlotOrder
    <3>2. Found(PageAt(slot))
      BY <1>1, <1>3, <3>1, RetainedFound DEF ReadInv, ReadRecord
    <3>3. slot[2] = 1 \/ <<slot[1], slot[2] - 1>> \in rd.got
      <4>1. SUFFICES ASSUME slot[2] # 1 PROVE <<slot[1], slot[2] - 1>> \in rd.got
        OBVIOUS
      <4>2. rd.at - 1 \in Positions /\ SlotAt(rd.at - 1) = <<slot[1], slot[2] - 1>>
        BY <1>2, <4>1, SlotOrder
      <4>3. rd.at - 1 < rd.at
        BY <1>2 DEF Positions
      <4> QED
        BY <2>1, <4>2, <4>3
    <3> QED
      BY <1>2, <2>3, <3>2, <3>3
  <2>4. n < rd.at \/ n = rd.at
    BY <1>2, <1>3 DEF Positions
  <2> QED
    BY <2>2, <2>3, <2>4
<1> HIDE DEF take, slot
<1>4. ReadRecord'
  <2>1. rd'.rec # None => rd'.rec = rd'.ret /\ rd'.rec \in records' \cup cancelled'
    BY <1>1, <1>2 DEF ReadInv, ReadRecord
  <2>2. rd'.rec # None => \/ rd'.rec \in cancelled' \cup remote'
                          \/ \A n \in Positions : n < rd'.at => SlotAt(n) \in rd'.got
    BY <1>1, <1>2, <1>3
  <2> QED
    BY <1>1, <1>2, <2>1, <2>2 DEF ReadRecord
<1>5. NoFalseMiss'
  BY <1>1, <1>2 DEF NoFalseMiss
<1> QED
  BY <1>2, <1>4, <1>5 DEF ReadInv

\* The local read ends complete, frozen, or with a record that was moved or cancelled.
LEMMA ReadLocalEndKeeps ==
  ASSUME Store, ReadInv, ReadLocalEnd
  PROVE  ReadInv'
<1> DEFINE kept == Paired(rd.got)
<1>1. /\ rd.pc = "local" /\ rd.at = 2 * W /\ rd.got \subseteq Slots /\ kept \subseteq rd.got
      /\ UNCHANGED <<records, cancelled, remote>>
      /\ rd.thawed \in BOOLEAN /\ 0 \in 0..(2 * W) /\ (kept = Slots) \in BOOLEAN
  BY PairedFacts, ConstantsAssumption DEF ReadInv, ReadTypes, ReadLocalEnd, storeVars, offerVars
<1>2. rd.got = Slots => kept = Slots
  BY PairedFacts
<1>3. rd' = [rd EXCEPT !.got = kept, !.at = 0, !.full = kept = Slots,
                       !.pc = IF kept = Slots \/ ~rd.thawed THEN "done" ELSE "recheck"]
  BY DEF ReadLocalEnd
<1> HIDE DEF kept
<1>4. ReadTypes'
  BY <1>1, <1>3 DEF ReadInv, ReadTypes
<1>5. /\ rd'.got = kept /\ rd'.at = 0 /\ rd'.full = (kept = Slots)
      /\ rd'.pc = (IF kept = Slots \/ ~rd.thawed THEN "done" ELSE "recheck")
      /\ rd'.rec = rd.rec /\ rd'.ret = rd.ret /\ rd'.thawed = rd.thawed
  BY <1>3 DEF ReadInv, ReadTypes
<1>6. rd.rec # None => rd.rec \in cancelled \cup remote \/ rd.got = Slots
  <2>1. ASSUME \A n \in Positions : n < rd.at => SlotAt(n) \in rd.got
        PROVE  rd.got = Slots
    <3>1. \A n \in Positions : n < 2 * W
      BY ConstantsAssumption DEF Positions
    <3>2. ASSUME NEW slot \in Slots PROVE slot \in rd.got
      <4>1. PICK n \in Positions : SlotAt(n) = slot
        BY SlotOrder
      <4> QED
        BY <1>1, <2>1, <3>1, <4>1
    <3> QED
      BY <1>1, <3>2
  <2> QED
    BY <1>1, <2>1 DEF ReadInv, ReadRecord
<1>7. ReadPlace' /\ ReadRecord' /\ NoFalseMiss'
  BY <1>1, <1>2, <1>5, <1>6 DEF ReadInv, ReadRecord, ReadPlace, NoFalseMiss
<1> QED
  BY <1>4, <1>7 DEF ReadInv

\* The record is looked up again: it has moved, or it was cancelled.
LEMMA RecheckKeeps ==
  ASSUME Store, ReadInv, Recheck
  PROVE  ReadInv'
<1>1. rd.pc = "recheck" /\ rd.at = 0 /\ UNCHANGED <<records, cancelled, remote>>
  BY DEF ReadInv, ReadPlace, Recheck, storeVars, offerVars
<1>2. CASE MovedRemote
  <2>1. rd' = [rd EXCEPT !.pc = "gather", !.got = {}]
    BY <1>2 DEF Recheck
  <2>2. ReadTypes'
    BY <1>1, <2>1 DEF ReadInv, ReadTypes
  <2>3. rd'.pc = "gather" /\ rd'.got = {} /\ rd'.rec = rd.rec /\ rd'.ret = rd.ret
    BY <2>1 DEF ReadInv, ReadTypes
  <2> QED
    BY <1>1, <1>2, <2>2, <2>3 DEF ReadInv, ReadPlace, ReadRecord, NoFalseMiss, MovedRemote
<1>3. CASE ~MovedRemote
  <2>1. rd' = [rd EXCEPT !.pc = "done"]
    BY <1>3 DEF Recheck
  <2>2. ReadTypes'
    BY <1>1, <2>1 DEF ReadInv, ReadTypes
  <2>3. rd'.pc = "done" /\ rd'.rec = rd.rec /\ rd'.ret = rd.ret
    BY <2>1 DEF ReadInv, ReadTypes
  <2> QED
    BY <1>1, <1>3, <2>2, <2>3 DEF ReadInv, ReadPlace, ReadRecord, NoFalseMiss, MovedRemote
<1> QED
  BY <1>2, <1>3

\* Gathering takes pages window by window.
LEMMA GatherKeeps ==
  ASSUME Store, ReadInv, Gather
  PROVE  ReadInv'
<1> DEFINE take == Found(PageAt(SlotAt(rd.at)))
<1>1. /\ rd.pc = "gather" /\ rd.at < 2 * W /\ UNCHANGED <<records, cancelled, remote>>
      /\ rd' = [rd EXCEPT !.at = @ + 1, !.got = IF take THEN @ \cup {SlotAt(rd.at)} ELSE @]
  BY DEF Gather, storeVars, offerVars
<1>2. ReadTypes' /\ ReadPlace' /\ rd'.pc = rd.pc /\ rd'.rec = rd.rec /\ rd'.ret = rd.ret
  <2>1. take \in BOOLEAN
    BY DEF Found
  <2> QED
    BY <1>1, <2>1, VisitKeeps
<1> QED
  BY <1>1, <1>2 DEF ReadInv, ReadRecord, NoFalseMiss

\* Mooncake has every window of a confirmed record, so only a refusal falls short.
LEMMA FetchKeeps ==
  ASSUME Store, RemoteStored, ReadInv, Fetch
  PROVE  ReadInv'
<1> DEFINE missing == Slots \ rd.got
           asked == {slot \in missing : PageAt(slot) \in stored}
<1>1. /\ rd.pc = "gather" /\ rd.got \subseteq Slots /\ rd.ret \in Rets /\ rd.rec # None
      /\ rd.rec = rd.ret /\ rd.rec \in remote /\ UNCHANGED <<records, cancelled, remote>>
  BY DEF ReadInv, ReadTypes, ReadRecord, Fetch, storeVars, offerVars
<1>2. PICK loaded \in SUBSET asked :
        rd' = [rd EXCEPT !.pc = "done", !.full = Paired(rd.got \cup loaded) = Slots,
                         !.got = @ \cap Paired(rd.got \cup loaded),
                         !.excused = loaded # asked]
  BY DEF Fetch
<1> DEFINE kept == Paired(rd.got \cup loaded)
<1>3. asked = missing
  <2>1. \A slot \in Slots : PageAt(slot) \in PagesOf(rd.ret)
    BY <1>1, SlotPages DEF PageAt
  <2> QED
    BY <1>1, <2>1 DEF RemoteStored
<1>4. loaded = asked => kept = Slots
  <2>1. missing \cup rd.got = Slots
    BY <1>1
  <2> QED
    BY <1>3, <2>1, PairedFacts
<1>5. rd' = [rd EXCEPT !.pc = "done", !.full = kept = Slots, !.got = @ \cap kept,
                       !.excused = loaded # asked]
  BY <1>2
<1> HIDE DEF kept, asked
<1>6. ReadTypes'
  BY <1>1, <1>5 DEF ReadInv, ReadTypes
<1>7. /\ rd'.pc = "done" /\ rd'.rec = rd.rec /\ rd'.ret = rd.ret
      /\ rd'.full = (kept = Slots) /\ rd'.excused = (loaded # asked)
  BY <1>5 DEF ReadInv, ReadTypes
<1>8. ReadPlace' /\ ReadRecord' /\ NoFalseMiss'
  BY <1>1, <1>4, <1>7 DEF ReadInv, ReadPlace, ReadRecord, NoFalseMiss
<1> QED
  BY <1>6, <1>8 DEF ReadInv

\* The state before a read satisfies its invariant.
LEMMA IdleReads == rd = Idle => ReadInv
<1>1. 0 \in 0..(2 * W)
  BY ConstantsAssumption
<1> QED
  BY <1>1 DEF Idle, ReadInv, ReadTypes, ReadPlace, ReadRecord, NoFalseMiss

\* The same after a step.
LEMMA IdleReadsNext == rd' = Idle => ReadInv'
<1>1. 0 \in 0..(2 * W)
  BY ConstantsAssumption
<1> QED
  BY <1>1 DEF Idle, ReadInv, ReadTypes, ReadPlace, ReadRecord, NoFalseMiss

-----------------------------------------------------------------------------
(* The references of a read *)

\* The owners the store knows of do not change under the reader's steps.
LEMMA HoldersUntouched ==
  ASSUME UNCHANGED storeVars
  PROVE  \A p : Holders(p)' = Holders(p)
BY DEF storeVars, Holders, LiveSites, ledgerVars, monVars

\* Slots of one page are finitely many.
LEMMA SlotCount ==
  ASSUME NEW S \in SUBSET Slots, NEW p
  PROVE  /\ IsFiniteSet({slot \in S : PageAt(slot) = p})
         /\ Cardinality({slot \in S : PageAt(slot) = p}) \in Nat
<1>1. {slot \in S : PageAt(slot) = p} \subseteq Slots
  OBVIOUS
<1> QED
  BY <1>1, SlotPages, FS_Subset, FS_CardinalityType

\* Slots that are given back with their references.
LEMMA ReaderGives ==
  ASSUME Store, ReadInv, ReaderRefsExact, UNCHANGED storeVars, NEW S \in SUBSET rd.got,
         refs' = Drop(S), rd'.got = rd.got \ S, rd'.got = {} \/ rd'.ret = rd.ret
  PROVE  refs' \in [Pages -> Int] /\ ReaderRefsExact'
<1>1. rd.got \in SUBSET Slots /\ refs \in [Pages -> Int]
  BY DEF ReadInv, ReadTypes, Store, Shape, TypeOK, PageTypes
<1>2. \A p \in Pages : refs'[p] = refs[p] - Cardinality({slot \in S : PageAt(slot) = p})
  BY DEF Drop
<1>3. refs' \in [Pages -> Int]
  <2>1. \A p \in Pages : Cardinality({slot \in S : PageAt(slot) = p}) \in Nat
    BY <1>1, SlotCount
  <2> QED
    BY <1>1, <2>1 DEF Drop
<1>4. ASSUME NEW p \in Pages
      PROVE  refs'[p] = Holders(p)' + Cardinality({slot \in rd'.got : PageAt(slot)' = p})
  <2> DEFINE A == {slot \in rd.got : PageAt(slot) = p}
             B == {slot \in S : PageAt(slot) = p}
  <2>1. {slot \in rd'.got : PageAt(slot)' = p} = A \ B
    BY DEF PageAt
  <2>2. A \cap B = B
    OBVIOUS
  <2>3. IsFiniteSet(A) /\ Cardinality(A) \in Nat /\ Cardinality(B) \in Nat
    BY <1>1, SlotCount
  <2>4. refs[p] = Holders(p) + Cardinality(A) /\ refs'[p] = refs[p] - Cardinality(B)
    BY <1>2 DEF ReaderRefsExact
  <2> HIDE DEF A, B
  <2>5. Cardinality(A \ B) = Cardinality(A) - Cardinality(B)
    <3>1. B \subseteq A
      BY <2>2
    <3> QED
      BY <2>3, <3>1, Without
  <2>6. Holders(p)' = Holders(p) /\ Holders(p) \in Nat
    BY HoldersUntouched, HoldersType
  <2> QED
    BY <2>1, <2>3, <2>4, <2>5, <2>6
<1> QED
  BY <1>3, <1>4 DEF ReaderRefsExact

\* A slot that is taken with a reference.
LEMMA ReaderTakes ==
  ASSUME Store, ReadInv, ReaderRefsExact, UNCHANGED storeVars,
         NEW new \in Slots, new \notin rd.got,
         refs' = Up({PageAt(new)}), rd'.got = rd.got \cup {new}, rd'.ret = rd.ret
  PROVE  refs' \in [Pages -> Int] /\ ReaderRefsExact'
<1>1. rd.got \in SUBSET Slots /\ refs \in [Pages -> Int]
  BY DEF ReadInv, ReadTypes, Store, Shape, TypeOK, PageTypes
<1>2. \A p \in Pages : refs'[p] = refs[p] + (IF p = PageAt(new) THEN 1 ELSE 0)
  BY DEF Up
<1>3. refs' \in [Pages -> Int]
  BY <1>1 DEF Up
<1>4. ASSUME NEW p \in Pages
      PROVE  refs'[p] = Holders(p)' + Cardinality({slot \in rd'.got : PageAt(slot)' = p})
  <2> DEFINE A == {slot \in rd.got : PageAt(slot) = p}
  <2>1. {slot \in rd'.got : PageAt(slot)' = p} = IF p = PageAt(new) THEN A \cup {new} ELSE A
    BY DEF PageAt
  <2>2. IsFiniteSet(A) /\ Cardinality(A) \in Nat /\ new \notin A
    BY <1>1, SlotCount
  <2>3. refs[p] = Holders(p) + Cardinality(A)
    BY DEF ReaderRefsExact
  <2> HIDE DEF A
  <2>4. Cardinality(A \cup {new}) = Cardinality(A) + 1
    BY <2>2, FS_AddElement
  <2>5. Holders(p)' = Holders(p) /\ Holders(p) \in Nat
    BY HoldersUntouched, HoldersType
  <2> DEFINE C == {slot \in rd'.got : PageAt(slot)' = p}
  <2>a. C = IF p = PageAt(new) THEN A \cup {new} ELSE A
    BY <2>1
  <2>b. refs[p] \in Int /\ refs'[p] = refs[p] + (IF p = PageAt(new) THEN 1 ELSE 0)
    BY <1>1, <1>2
  <2> SUFFICES refs'[p] = Holders(p)' + Cardinality(C)
    OBVIOUS
  <2> HIDE DEF C
  <2>6. CASE p = PageAt(new)
    BY <2>2, <2>3, <2>4, <2>5, <2>6, <2>a, <2>b
  <2>7. CASE p # PageAt(new)
    BY <2>2, <2>3, <2>5, <2>7, <2>a, <2>b
  <2> QED
    BY <2>6, <2>7
<1> QED
  BY <1>3, <1>4 DEF ReaderRefsExact

\* A step of the read that moves no reference.
LEMMA ReaderKeeps ==
  ASSUME Store, ReaderRefsExact, UNCHANGED storeVars, UNCHANGED refs, rd'.got = rd.got,
         rd.got = {} \/ rd'.ret = rd.ret
  PROVE  refs' \in [Pages -> Int] /\ ReaderRefsExact'
<1>1. refs' \in [Pages -> Int]
  BY DEF Store, Shape, TypeOK, PageTypes
<1>2. \A p : {slot \in rd'.got : PageAt(slot)' = p} = {slot \in rd.got : PageAt(slot) = p}
  BY DEF PageAt
<1> QED
  BY <1>1, <1>2, HoldersUntouched DEF ReaderRefsExact

\* The store moves references with its own owners only.
LEMMA ReaderUnmoved ==
  ASSUME Store, ReadInv, ReaderRefsExact, [Next]_vars, UNCHANGED rd
  PROVE  ReaderRefsExact'
<1> SUFFICES ASSUME NEW p \in Pages
             PROVE  refs'[p] = Holders(p)' + Cardinality({slot \in rd'.got : PageAt(slot)' = p})
  BY DEF ReaderRefsExact
<1> DEFINE A == {slot \in rd.got : PageAt(slot) = p}
<1>1. {slot \in rd'.got : PageAt(slot)' = p} = A
  BY DEF PageAt
<1>2. refs'[p] - refs[p] = Holders(p)' - Holders(p)
  BY ReferencesMove DEF Store, Moved
<1>3. refs[p] = Holders(p) + Cardinality(A)
  BY DEF ReaderRefsExact
<1>4. Cardinality(A) \in Nat
  BY SlotCount DEF ReadInv, ReadTypes
<1>5. Holders(p) \in Nat /\ Holders(p)' \in Nat /\ refs'[p] \in Int
  BY StoreStep, HoldersType DEF Store, Shape, TypeOK, PageTypes
<1> SUFFICES refs'[p] = Holders(p)' + Cardinality(A)
  BY <1>1
<1> HIDE DEF A
<1> QED
  BY <1>2, <1>3, <1>4, <1>5

\* A read visits slots in order, so the next one is not held yet.
LEMMA NextSlotNew ==
  ASSUME ReadInv, rd.pc \in {"local", "gather"}, rd.at < 2 * W
  PROVE  SlotAt(rd.at) \in Slots /\ SlotAt(rd.at) \notin rd.got
<1>1. rd.at \in Positions
  BY ConstantsAssumption DEF ReadInv, ReadTypes, Positions
<1>2. ASSUME SlotAt(rd.at) \in rd.got PROVE FALSE
  <2>1. PICK n \in Positions : n < rd.at /\ SlotAt(rd.at) = SlotAt(n)
    BY <1>2 DEF ReadInv, ReadPlace
  <2>2. n = rd.at
    BY <1>1, <2>1, SlotOrder
  <2> QED
    BY <1>1, <2>1, <2>2 DEF Positions
<1> QED
  BY <1>1, <1>2, SlotOrder

\* Every step of the read takes and gives references with its pages.
LEMMA ReaderStep ==
  ASSUME Store, ReadInv, ReaderRefsExact,
         ReadStep \/ \E r \in Rets, probe \in BOOLEAN : Lookup(r, probe)
  PROVE  UNCHANGED storeVars /\ refs' \in [Pages -> Int] /\ ReaderRefsExact'
<1>0. rd.got \in SUBSET Slots
  BY DEF ReadInv, ReadTypes
<1>a. /\ rd.pc \in {"idle", "snapshot"} => rd.got = {}
  BY DEF ReadInv, ReadPlace
<1>1. ASSUME NEW r \in Rets, NEW probe \in BOOLEAN, Lookup(r, probe)
      PROVE  UNCHANGED storeVars /\ refs' \in [Pages -> Int] /\ ReaderRefsExact'
  <2>1. UNCHANGED storeVars /\ UNCHANGED refs /\ rd'.got = {} /\ rd.got = {}
    BY <1>1, <1>a DEF Lookup, Idle, vars, storeVars, pageVars
  <2> QED
    BY <2>1, ReaderKeeps
<1>2. CASE Snapshot
  <2>1. UNCHANGED storeVars /\ UNCHANGED refs
    BY <1>2 DEF Snapshot, vars, storeVars, pageVars
  <2>2. rd'.got = rd.got /\ rd'.ret = rd.ret
    BY <1>2 DEF Snapshot, ReadInv, ReadTypes
  <2> QED
    BY <2>1, <2>2, ReaderKeeps
<1>3. CASE ReadLocal \/ Gather
  <2>1. /\ UNCHANGED storeVars /\ rd.pc \in {"local", "gather"} /\ rd.at < 2 * W
        /\ \E take \in BOOLEAN :
             /\ rd' = [rd EXCEPT !.at = @ + 1, !.got = IF take THEN @ \cup {SlotAt(rd.at)} ELSE @]
             /\ refs' = IF take THEN Up({PageAt(SlotAt(rd.at))}) ELSE refs
    <3>1. CASE ReadLocal
      <4> DEFINE slot == SlotAt(rd.at)
                 take == Found(PageAt(slot)) /\ (slot[2] = 1 \/ <<slot[1], slot[2] - 1>> \in rd.got)
      <4>1. take \in BOOLEAN
        OBVIOUS
      <4> QED
        BY <3>1, <4>1 DEF ReadLocal
    <3>2. CASE Gather
      <4>1. Found(PageAt(SlotAt(rd.at))) \in BOOLEAN
        BY DEF Found
      <4> QED
        BY <3>2, <4>1 DEF Gather
    <3> QED
      BY <1>3, <3>1, <3>2
  <2>2. PICK take \in BOOLEAN :
          /\ rd' = [rd EXCEPT !.at = @ + 1, !.got = IF take THEN @ \cup {SlotAt(rd.at)} ELSE @]
          /\ refs' = IF take THEN Up({PageAt(SlotAt(rd.at))}) ELSE refs
    BY <2>1
  <2>3. rd'.ret = rd.ret /\ rd'.got = IF take THEN rd.got \cup {SlotAt(rd.at)} ELSE rd.got
    BY <2>2 DEF ReadInv, ReadTypes
  <2>4. CASE take
    BY <2>1, <2>2, <2>3, <2>4, NextSlotNew, ReaderTakes
  <2>5. CASE ~take
    BY <2>1, <2>2, <2>3, <2>5, ReaderKeeps
  <2> QED
    BY <2>1, <2>4, <2>5
<1>4. ASSUME NEW kept \in SUBSET rd.got, UNCHANGED storeVars, Trim(kept),
             rd'.got = kept, rd'.ret = rd.ret
      PROVE  refs' \in [Pages -> Int] /\ ReaderRefsExact'
  <2>1. rd'.got = rd.got \ (rd.got \ kept)
    BY <1>4
  <2>2. refs' = Drop(rd.got \ kept)
    BY <1>4 DEF Trim
  <2> QED
    BY <1>4, <2>1, <2>2, ReaderGives
<1>5. CASE ReadLocalEnd
  <2>1. Paired(rd.got) \in SUBSET rd.got
    BY PairedFacts
  <2>2. UNCHANGED storeVars /\ Trim(Paired(rd.got))
    BY <1>5 DEF ReadLocalEnd
  <2>3. rd'.got = Paired(rd.got) /\ rd'.ret = rd.ret
    BY <1>5 DEF ReadLocalEnd, ReadInv, ReadTypes
  <2> QED
    BY <1>4, <2>1, <2>2, <2>3
<1>6. CASE Recheck
  <2>1. UNCHANGED storeVars
    BY <1>6 DEF Recheck
  <2>2. CASE refs' = Drop(rd.got) /\ rd' = [rd EXCEPT !.pc = "gather", !.got = {}]
    <3>1. rd'.got = {} /\ rd'.got = rd.got \ rd.got
      BY <2>2 DEF ReadInv, ReadTypes
    <3> QED
      BY <2>1, <2>2, <3>1, ReaderGives
  <2>3. CASE UNCHANGED refs /\ rd' = [rd EXCEPT !.pc = "done"]
    <3>1. rd'.got = rd.got /\ rd'.ret = rd.ret
      BY <2>3 DEF ReadInv, ReadTypes
    <3> QED
      BY <2>1, <2>3, <3>1, ReaderKeeps
  <2> QED
    BY <1>6, <2>1, <2>2, <2>3 DEF Recheck
<1>7. CASE Fetch
  <2>1. /\ UNCHANGED storeVars
        /\ \E kept : /\ Trim(kept)
                     /\ rd'.got = rd.got \cap kept /\ rd'.ret = rd.ret
    BY <1>7 DEF Fetch, ReadInv, ReadTypes
  <2>2. PICK kept : Trim(kept) /\ rd'.got = rd.got \cap kept /\ rd'.ret = rd.ret
    BY <2>1
  <2>3. refs' = Drop(rd.got \ kept) /\ rd'.got = rd.got \ (rd.got \ kept)
    BY <2>2 DEF Trim
  <2> QED
    BY <2>1, <2>2, <2>3, ReaderGives
<1>8. CASE Release
  <2>1. UNCHANGED storeVars /\ refs' = Drop(rd.got) /\ rd'.got = {} /\ rd'.got = rd.got \ rd.got
    BY <1>8 DEF Release, Idle
  <2> QED
    BY <2>1, ReaderGives
<1> QED
  BY <1>1, <1>2, <1>3, <1>5, <1>6, <1>7, <1>8 DEF ReadStep

-----------------------------------------------------------------------------
(* The theorems *)

Reading == Store /\ RemoteStored /\ ReadInv /\ ReaderRefsExact

\* The invariant holds before anything is published or read.
LEMMA ReadingInit == ReadInit => Reading
<1> SUFFICES ASSUME ReadInit PROVE Reading
  OBVIOUS
<1>1. Init /\ rd = Idle
  BY DEF ReadInit
<1>2. Shape
  BY <1>1, ShapeInit
<1>3. Ownership
  BY <1>1, OwnershipInit
<1>4. Durable /\ RemoteStored
  BY <1>1, DurableInit DEF Init, RemoteStored
<1>5. ReadInv
  BY <1>1, IdleReads
<1>6. ReaderRefsExact
  <2>1. \A p : {slot \in rd.got : PageAt(slot) = p} = {}
    BY <1>1 DEF Idle
  <2>2. Cardinality({}) = 0
    BY FS_EmptySet
  <2>3. \A p \in Pages : refs[p] = Holders(p) /\ Holders(p) + 0 = Holders(p)
    BY <1>3, HoldersType DEF Ownership, RefsExact
  <2> QED
    BY <2>1, <2>2, <2>3 DEF ReaderRefsExact
<1> QED
  BY <1>2, <1>3, <1>4, <1>5, <1>6 DEF Reading, Store, Ownership

\* Every step of the store or of the read keeps it.
LEMMA ReadingStep == Reading /\ [ReadNext]_readVars => Reading'
<1> SUFFICES ASSUME Reading, [ReadNext]_readVars PROVE Reading'
  OBVIOUS
<1>a. Store /\ RemoteStored /\ ReadInv /\ ReaderRefsExact
  BY DEF Reading
<1>1. ASSUME [Next]_vars, UNCHANGED rd PROVE Reading'
  BY <1>a, <1>1, StoreStep, OneWayStep, ReadUnmoved, ReaderUnmoved DEF Reading
<1>2. ASSUME ReadStep \/ \E r \in Rets, probe \in BOOLEAN : Lookup(r, probe)
      PROVE  Reading'
  <2>1. UNCHANGED storeVars /\ refs' \in [Pages -> Int] /\ ReaderRefsExact'
    BY <1>a, <1>2, ReaderStep
  <2>2. Store' /\ RemoteStored'
    BY <1>a, <2>1, StoreUntouched DEF RemoteStored, storeVars, offerVars, monVars
  <2>3. ReadInv'
    <3>1. ASSUME Release PROVE ReadInv'
      BY <3>1, IdleReadsNext DEF Release
    <3> QED
      BY <1>a, <1>2, <3>1, LookupKeeps, SnapshotKeeps, ReadLocalKeeps, ReadLocalEndKeeps,
         RecheckKeeps, GatherKeeps, FetchKeeps DEF ReadStep
  <2> QED
    BY <2>1, <2>2, <2>3 DEF Reading
<1> QED
  BY <1>1, <1>2 DEF ReadNext, readVars

\* In every reachable state of the store with its reader the invariant holds.
LEMMA ReadingCorrect == ReadSpec => []Reading
BY ReadingInit, ReadingStep, PTL DEF ReadSpec

\* A lookup or restore that found its record only comes back short when the
\* checkpoint was cancelled, the cache was frozen, or Mooncake or the heap
\* refused a window; a spill that moves the pages meanwhile is never a miss.
THEOREM NeverFalseMiss == ReadSpec => []NoFalseMiss
<1>1. Reading => NoFalseMiss
  BY DEF Reading, ReadInv
<1> QED
  BY <1>1, ReadingCorrect, PTL

\* While a read takes, trims and drops pages, the reference count of a page is
\* the number of the store's owners and of the slots the read holds it for.
THEOREM ReaderRefsAlwaysExact == ReadSpec => []ReaderRefsExact
<1>1. Reading => ReaderRefsExact
  BY DEF Reading
<1> QED
  BY <1>1, ReadingCorrect, PTL

=============================================================================
