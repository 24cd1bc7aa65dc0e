--------------------- MODULE CheckpointWritebackProofs ---------------------
(***************************************************************************)
(* Proofs about CheckpointWriteback, for any number of publications and    *)
(* pages: the charge ledger is exact, the budget is respected, no charged  *)
(* record is out of reach of forget, protection ends only with a complete  *)
(* remote copy, and the store implements CheckpointLifecycle: every step   *)
(* of its threads is a step of the offers' lifecycle, or invisible there.  *)
(* The reference count of a page is the number of its owners, a PUT in     *)
(* flight or of unknown outcome owns what it reads, and close() lets the   *)
(* allocator go only when the cache is the one owner left.                 *)
(***************************************************************************)
EXTENDS CheckpointWriteback, FiniteSetTheorems, FunctionTheorems, SequenceTheorems, TLAPS

-----------------------------------------------------------------------------
(* Counting sites and bytes *)

Count(o, p) == Cardinality({s \in Sites : p \in o[s]})

\* There are finitely many sites.
LEMMA SitesFinite == IsFiniteSet(Sites)
<1>1. IsFiniteSet({"rec", "task"}) /\ IsFiniteSet({"run", "spill", "swap"}) /\ IsFiniteSet({None})
  <2>1. \A x : IsFiniteSet({x})
    BY FS_Singleton
  <2>2. \A x, y : IsFiniteSet({x} \cup {y})
    BY <2>1, FS_Union
  <2>3. \A x, y, z : IsFiniteSet(({x} \cup {y}) \cup {z})
    BY <2>1, <2>2, FS_Union
  <2>4. {"rec", "task"} = {"rec"} \cup {"task"}
    OBVIOUS
  <2>5. {"run", "spill", "swap"} = ({"run"} \cup {"spill"}) \cup {"swap"}
    OBVIOUS
  <2>6. IsFiniteSet({"rec", "task"})
    BY <2>2, <2>4, Zenon
  <2>7. IsFiniteSet({"run", "spill", "swap"})
    <3>1. IsFiniteSet(({"run"} \cup {"spill"}) \cup {"swap"})
      BY <2>3, Zenon
    <3> QED
      BY <2>5, <3>1, Zenon
  <2> QED
    BY <2>1, <2>6, <2>7, Zenon
<1>2. IsFiniteSet({"rec", "task"} \X Rets) /\ IsFiniteSet({"run", "spill", "swap"} \X {None})
  BY <1>1, FS_Product, ConstantsAssumption
<1> QED  BY <1>2, FS_Union DEF Sites

\* The number of sites that hold a page is a natural number, positive when
\* some site holds it.
LEMMA CountType ==
  ASSUME NEW o, NEW p
  PROVE  /\ IsFiniteSet({s \in Sites : p \in o[s]})
         /\ Count(o, p) \in Nat
         /\ \A s \in Sites : p \in o[s] => Count(o, p) > 0
<1> DEFINE T == {s \in Sites : p \in o[s]}
<1>1. IsFiniteSet(T)  BY SitesFinite, FS_Subset
<1>2. Cardinality(T) \in Nat  BY <1>1, FS_CardinalityType
<1>3. Cardinality(T) = 0 <=> T = {}  BY <1>1, FS_EmptySet
<1> QED  BY <1>1, <1>2, <1>3 DEF Count

\* Filling an empty site adds one holder to each of the pages.
LEMMA CountFill ==
  ASSUME NEW o \in [Sites -> SUBSET Pages], NEW o2 \in [Sites -> SUBSET Pages],
         NEW t \in Sites, NEW p,
         o[t] = {}, \A s \in Sites : s # t => o2[s] = o[s]
  PROVE  Count(o2, p) = Count(o, p) + (IF p \in o2[t] THEN 1 ELSE 0)
<1> DEFINE A == {s \in Sites : p \in o[s]}
           B == {s \in Sites : p \in o2[s]}
<1>1. IsFiniteSet(A) /\ t \notin A  BY CountType
<1>2. B = IF p \in o2[t] THEN A \cup {t} ELSE A  OBVIOUS
<1>3. Cardinality(A \cup {t}) = Cardinality(A) + 1  BY <1>1, FS_AddElement
<1>4. Cardinality(A) \in Nat  BY CountType DEF Count
<1> HIDE DEF A, B
<1>5. Cardinality(B) = Cardinality(A) + (IF p \in o2[t] THEN 1 ELSE 0)  BY <1>2, <1>3, <1>4
<1> QED  BY <1>5 DEF Count, A, B

\* Emptying a site takes one holder from each of its pages.
LEMMA CountClear ==
  ASSUME NEW o \in [Sites -> SUBSET Pages], NEW t \in Sites, NEW p
  PROVE  Count([o EXCEPT ![t] = {}], p) = Count(o, p) - (IF p \in o[t] THEN 1 ELSE 0)
<1> DEFINE A == {s \in Sites : p \in o[s]}
           B == {s \in Sites : p \in [o EXCEPT ![t] = {}][s]}
<1>1. IsFiniteSet(A)  BY CountType
<1>2. B = A \ {t} /\ (t \in A <=> p \in o[t])  OBVIOUS
<1>3. Cardinality(A \ {t}) = IF t \in A THEN Cardinality(A) - 1 ELSE Cardinality(A)
  BY <1>1, FS_RemoveElement
<1>4. Cardinality(A) \in Nat  BY CountType DEF Count
<1> HIDE DEF A, B
<1>5. Cardinality(B) = Cardinality(A) - (IF p \in o[t] THEN 1 ELSE 0)  BY <1>2, <1>3, <1>4
<1> QED  BY <1>5 DEF Count, A, B

\* Exchanging the contents of sites leaves every count as it was.
LEMMA CountExchange ==
  ASSUME NEW o, NEW o2, NEW f \in [Sites -> Sites],
         \A s \in Sites : f[f[s]] = s,
         \A s \in Sites : o2[s] = o[f[s]],
         NEW p
  PROVE  Count(o2, p) = Count(o, p)
<1> DEFINE A == {s \in Sites : p \in o[s]}
           B == {s \in Sites : p \in o2[s]}
           h == [s \in A |-> f[s]]
<1>1. IsFiniteSet(A)  BY CountType
<1>2. h \in [A -> B]  OBVIOUS
<1>3. \A x, y \in A : h[x] = h[y] => x = y
  <2> SUFFICES ASSUME NEW x \in A, NEW y \in A, f[x] = f[y] PROVE x = y  OBVIOUS
  <2>1. x = f[f[x]] /\ y = f[f[y]]  OBVIOUS
  <2> QED  BY <2>1
<1>4. \A t \in B : \E s \in A : h[s] = t
  <2> TAKE t \in B
  <2>1. f[t] \in A /\ f[f[t]] = t  OBVIOUS
  <2> QED  BY <2>1
<1>5. h \in Bijection(A, B)  BY <1>2, <1>3, <1>4, Fun_IsBij
<1>6. ExistsBijection(A, B)  BY <1>5, Fun_ExistsBij
<1> QED  BY <1>1, <1>6, FS_Bijection DEF Count

\* A set of pages has a natural number of bytes, and none when it is empty.
LEMMA BytesType ==
  ASSUME NEW S \in SUBSET Pages
  PROVE  /\ IsFiniteSet(UNION {Units[p] : p \in S})
         /\ Bytes(S) \in Nat
         /\ S = {} => Bytes(S) = 0
<1>1. UNION {Units[p] : p \in S} \in SUBSET Heap  BY ConstantsAssumption
<1>2. IsFiniteSet(UNION {Units[p] : p \in S})  BY <1>1, FS_Subset, ConstantsAssumption
<1>3. S = {} => UNION {Units[p] : p \in S} = {}  OBVIOUS
<1> QED  BY <1>2, <1>3, FS_CardinalityType, FS_EmptySet DEF Bytes

\* Pages occupy disjoint parts of the heap, so bytes add up.
LEMMA BytesAdd ==
  ASSUME NEW S \in SUBSET Pages, NEW T \in SUBSET Pages, S \cap T = {}
  PROVE  Bytes(S \cup T) = Bytes(S) + Bytes(T)
<1> DEFINE U(X) == UNION {Units[p] : p \in X}
<1>1. U(S \cup T) = U(S) \cup U(T)  OBVIOUS
<1>2. U(S) \cap U(T) = {}  BY ConstantsAssumption
<1>3. IsFiniteSet(U(S)) /\ IsFiniteSet(U(T))  BY BytesType
<1>4. Cardinality(U(S)) \in Nat /\ Cardinality(U(T)) \in Nat  BY BytesType DEF Bytes
<1>5. Cardinality({}) = 0  BY FS_EmptySet
<1>6. Cardinality(U(S) \cup U(T))
        = Cardinality(U(S)) + Cardinality(U(T)) - Cardinality(U(S) \cap U(T))
  BY <1>3, FS_Union
<1>7. Cardinality(U(S \cup T)) = Cardinality(U(S)) + Cardinality(U(T)) - Cardinality({})
  BY <1>1, <1>2, <1>6
<1> QED
  BY <1>4, <1>5, <1>7 DEF Bytes

-----------------------------------------------------------------------------
(* Type correctness *)

\* Pages of a publication are pages; references stay integers.
LEMMA PagesTyped ==
  ASSUME TypeOK
  PROVE  /\ \A r \in Rets : PagesOf(r) \in SUBSET Pages /\ Fresh(r) \in SUBSET Pages
         /\ \A r \in Rets : \A S : Leading(r, S) \in SUBSET Pages
         /\ \A S : Up(S) \in [Pages -> Int] /\ Down(S) \in [Pages -> Int]
<1>1. \A r \in Rets, g \in Groups, k \in Windows : Source[r][g][k] \in Pages
  BY ConstantsAssumption
<1>2. \A r \in Rets : PagesOf(r) \in SUBSET Pages /\ Fresh(r) \in SUBSET Pages
  BY <1>1 DEF PagesOf, Fresh
<1>3. \A r \in Rets : \A S : Leading(r, S) \in SUBSET Pages
  BY <1>1 DEF Leading
<1>4. \A S : Up(S) \in [Pages -> Int] /\ Down(S) \in [Pages -> Int]
  BY DEF TypeOK, PageTypes, Up, Down
<1> QED
  BY <1>2, <1>3, <1>4

\* Charging and uncharging pages keeps the ledger's types.
LEMMA LedgerTyped ==
  ASSUME TypeOK, NEW S \in SUBSET Pages, Charge(S) \/ Uncharge(S)
  PROVE  charges' \in [Pages -> Int] /\ used' \in Int
<1>1. Bytes({p \in S : charges[p] = 0}) \in Nat /\ Bytes({p \in S : charges[p] = 1}) \in Nat
  BY BytesType
<1>2. charges \in [Pages -> Int] /\ used \in Int
  BY DEF TypeOK, LedgerTypes
<1> QED
  BY <1>1, <1>2 DEF Charge, Uncharge

\* The source of a window that is being spilled is a page.
LEMMA SpillSourceType ==
  ASSUME TypeOK, mon.pc \in {"build", "put", "flight"}
  PROVE  SpillSource \in Pages
<1>1. mon.rec \in Rets /\ mon.pos \in 0..(2 * W) /\ mon.pos < 2 * W
  BY DEF TypeOK, MonitorTypes, Spilling
<1>2. W \in Nat \ {0}
  BY ConstantsAssumption
<1>3. Source[mon.rec] \in [{0, 1} -> [1..W -> Pages]]
  BY <1>1, ConstantsAssumption DEF Groups, Windows
<1>4. CASE mon.pos < W
  BY <1>1, <1>2, <1>3, <1>4 DEF SpillSource
<1>5. CASE ~(mon.pos < W)
  <2>1. mon.pos - W + 1 \in 1..W
    BY <1>1, <1>2, <1>5
  <2> QED
    BY <1>3, <1>5, <2>1 DEF SpillSource
<1> QED
  BY <1>4, <1>5

\* A call hands a record's pages over as one more task of the executor, or leaves
\* what it has not handed over to no one.
LEMMA HandOverQueue ==
  ASSUME TypeOK, NEW c \in Callers, NEW r \in Rets, HandOver(c, r)
  PROVE  \/ /\ tasks' \in Seq(Task) /\ Len(tasks) \in Nat /\ Len(tasks') = Len(tasks) + 1
            /\ \A i \in 1..Len(tasks) : tasks'[i] = tasks[i]
            /\ tasks'[Len(tasks) + 1] = [kind |-> "retire", ret |-> r]
            /\ call' = [call EXCEPT ![c].dead = @ \ {r}] /\ stranded' = stranded
         \/ /\ tasks' = tasks /\ stranded' = stranded \cup call[c].dead
            /\ call' = [call EXCEPT ![c] = NoCall]
<1> DEFINE t == [kind |-> "retire", ret |-> r]
<1>1. t \in Task /\ tasks \in Seq(Task)
  BY DEF TypeOK, ExecTypes, Task
<1>2. /\ Append(tasks, t) \in Seq(Task) /\ Len(Append(tasks, t)) = Len(tasks) + 1
      /\ \A i \in 1..Len(tasks) : Append(tasks, t)[i] = tasks[i]
      /\ Append(tasks, t)[Len(tasks) + 1] = t /\ Len(tasks) \in Nat
  BY <1>1, AppendProperties, LenProperties
<1> QED
  BY <1>2 DEF HandOver, SubmitRetire

\* forget keeps the types of everything else it changes.
LEMMA ForgetTyped ==
  ASSUME TypeOK, NEW c \in Callers, NEW keys, Pop(c, keys)
  PROVE  /\ manifests' \subseteq Rets /\ records' \subseteq Rets /\ cancelled' \subseteq Rets
         /\ owned' \in [Sites -> SUBSET Pages]
         /\ attempts' \in [Rets -> [Attempts -> SUBSET Events]]
         /\ call' \in [Callers -> [join : SUBSET Ids, dead : SUBSET Rets]]
         /\ wake' \in BOOLEAN /\ UNCHANGED <<remote, backoff, stranded, charges, used>>
<1> DEFINE dead == {r \in manifests : IdOf[r] \in keys} \cap records
<1>1. manifests' \subseteq Rets /\ records' \subseteq Rets /\ cancelled' \subseteq Rets /\ wake' \in BOOLEAN
  BY DEF TypeOK, OfferTypes, Pop
<1>2. owned' \in [Sites -> SUBSET Pages]
  <2>1. \A s \in Sites : s[1] = "task" /\ s[2] \in dead => <<"rec", s[2]>> \in Sites
    BY DEF Sites, TypeOK, OfferTypes
  <2> QED
    BY <2>1 DEF TypeOK, LedgerTypes, Pop
<1>3. attempts' \in [Rets -> [Attempts -> SUBSET Events]]
  BY DEF TypeOK, OfferTypes, Pop
<1>4. call' \in [Callers -> [join : SUBSET Ids, dead : SUBSET Rets]]
  <2>1. call' = [call EXCEPT ![c] = [join |-> {}, dead |-> dead]] /\ dead \subseteq Rets
    BY DEF TypeOK, OfferTypes, Pop
  <2> HIDE DEF dead
  <2>2. [join |-> {}, dead |-> dead] \in [join : SUBSET Ids, dead : SUBSET Rets]
    BY <2>1
  <2> QED
    BY <2>1, <2>2 DEF TypeOK, OfferTypes
<1>5. UNCHANGED <<remote, backoff, stranded, charges, used>>
  BY DEF Pop
<1> QED
  BY <1>1, <1>2, <1>3, <1>4, <1>5

\* A group of variables that a step leaves alone keeps its types.
LEMMA TypeFrame ==
  ASSUME TypeOK
  PROVE  /\ UNCHANGED pageVars => PageTypes'
         /\ UNCHANGED offerVars => OfferTypes'
         /\ UNCHANGED ledgerVars => LedgerTypes'
         /\ UNCHANGED execVars => ExecTypes'
         /\ UNCHANGED monVars => MonitorTypes'
         /\ UNCHANGED flagVars => FlagTypes'
<1>1. UNCHANGED pageVars => PageTypes'
  BY DEF TypeOK, PageTypes, pageVars
<1>2. UNCHANGED offerVars => OfferTypes'
  BY DEF TypeOK, OfferTypes, offerVars, callVars
<1>3. UNCHANGED ledgerVars => LedgerTypes'
  BY DEF TypeOK, LedgerTypes, ledgerVars
<1>4. UNCHANGED execVars => ExecTypes'
  BY DEF TypeOK, ExecTypes, execVars
<1>5. UNCHANGED monVars => MonitorTypes'
  BY DEF TypeOK, MonitorTypes, monVars
<1>6. UNCHANGED flagVars => FlagTypes'
  BY DEF TypeOK, FlagTypes, flagVars
<1> QED
  BY <1>1, <1>2, <1>3, <1>4, <1>5, <1>6

\* Every action keeps the types of the groups of variables it changes.
LEMMA TypeStep == TypeOK /\ [Next]_vars => TypeOK'
<1> SUFFICES ASSUME TypeOK, [Next]_vars
             PROVE  TypeOK'
  OBVIOUS
<1>1. ASSUME NEW r \in Rets, Seal(r) PROVE TypeOK'
  <2>1. PageTypes'
    BY <1>1, PagesTyped DEF TypeOK, PageTypes, Seal
  <2>2. ExecTypes'
    BY <1>1 DEF TypeOK, ExecTypes, Task, Seal
  <2>3. UNCHANGED offerVars /\ UNCHANGED ledgerVars /\ UNCHANGED monVars /\ UNCHANGED flagVars
    BY <1>1 DEF Seal, offerVars, ledgerVars, monVars, flagVars
  <2> QED
    BY <2>1, <2>2, <2>3, TypeFrame DEF TypeOK
<1>2. CASE PublishStart
  <2>0. Head(tasks).ret \in Rets /\ Tail(tasks) \in Seq(Task)
    <3>1. Head(tasks) \in Task /\ Tail(tasks) \in Seq(Task)
      BY <1>2, HeadTailProperties DEF TypeOK, ExecTypes, PublishStart
    <3> QED
      BY <3>1 DEF Task
  <2>1. PageTypes'
    BY <1>2, <2>0, PagesTyped DEF TypeOK, PageTypes, PublishStart
  <2>2. ExecTypes'
    BY <1>2, <2>0 DEF TypeOK, ExecTypes, PublishStart
  <2>3. UNCHANGED offerVars /\ UNCHANGED ledgerVars /\ UNCHANGED monVars /\ UNCHANGED flagVars
    BY <1>2 DEF PublishStart, offerVars, ledgerVars, monVars, flagVars
  <2> QED
    BY <2>1, <2>2, <2>3, TypeFrame DEF TypeOK
<1>3. CASE PublishAcquire
  <2>1. PageTypes'
    BY <1>3, PagesTyped DEF TypeOK, PageTypes, ExecTypes, PublishAcquire
  <2>2. ExecTypes'
    BY <1>3 DEF TypeOK, ExecTypes, PublishAcquire
  <2>3. UNCHANGED offerVars /\ UNCHANGED ledgerVars /\ UNCHANGED monVars /\ UNCHANGED flagVars
    BY <1>3 DEF PublishAcquire, offerVars, ledgerVars, monVars, flagVars
  <2> QED
    BY <2>1, <2>2, <2>3, TypeFrame DEF TypeOK
<1>4. CASE PublishCommit
  <2>0. exec.ret \in Rets /\ <<"rec", exec.ret>> \in Sites
    BY <1>4 DEF TypeOK, ExecTypes, PublishCommit, Sites
  <2>1. PageTypes'
    BY <1>4 DEF TypeOK, PageTypes, PublishCommit
  <2>2. OfferTypes'
    BY <1>4 DEF TypeOK, OfferTypes, ExecTypes, SameIdentity, PublishCommit, callVars
  <2>3. LedgerTypes'
    BY <1>4, <2>0, LedgerTyped DEF TypeOK, LedgerTypes, ExecTypes, PageTypes, PublishCommit
  <2>4. ExecTypes'
    BY <1>4 DEF TypeOK, ExecTypes, PublishCommit
  <2>5. MonitorTypes'
    BY <1>4 DEF TypeOK, MonitorTypes, Spilling, PublishCommit
  <2>6. UNCHANGED flagVars
    BY <1>4 DEF PublishCommit, flagVars
  <2> QED
    BY <2>1, <2>2, <2>3, <2>4, <2>5, <2>6, TypeFrame DEF TypeOK
<1>5. CASE PublishFinish
  <2>1. PageTypes'
    BY <1>5, PagesTyped DEF TypeOK, PageTypes, PublishFinish
  <2>2. ExecTypes'
    BY <1>5 DEF TypeOK, ExecTypes, PublishFinish
  <2>3. FlagTypes'
    BY <1>5 DEF TypeOK, FlagTypes, PublishFinish
  <2>4. UNCHANGED offerVars /\ UNCHANGED ledgerVars /\ UNCHANGED monVars
    BY <1>5 DEF PublishFinish, offerVars, ledgerVars, monVars
  <2> QED
    BY <2>1, <2>2, <2>3, <2>4, TypeFrame DEF TypeOK
<1>6. CASE RetireRelease
  <2>0. Head(tasks).ret \in Rets /\ Tail(tasks) \in Seq(Task)
    <3>1. Head(tasks) \in Task /\ Tail(tasks) \in Seq(Task)
      BY <1>6, HeadTailProperties DEF TypeOK, ExecTypes, RetireRelease
    <3> QED
      BY <3>1 DEF Task
  <2>1. PageTypes'
    BY <1>6, PagesTyped DEF TypeOK, PageTypes, RetireRelease
  <2>2. LedgerTypes'
    BY <1>6, <2>0 DEF TypeOK, LedgerTypes, Sites, RunSite, RetireRelease
  <2>3. ExecTypes'
    BY <1>6, <2>0 DEF TypeOK, ExecTypes, RetireRelease
  <2>4. UNCHANGED offerVars /\ UNCHANGED monVars /\ UNCHANGED flagVars
    BY <1>6 DEF RetireRelease, offerVars, monVars, flagVars
  <2> QED
    BY <2>1, <2>2, <2>3, <2>4, TypeFrame DEF TypeOK
<1>7. CASE RetireUncharge
  <2>0. RunSite \in Sites
    BY DEF Sites, RunSite
  <2>1. LedgerTypes'
    BY <1>7, <2>0, LedgerTyped DEF TypeOK, LedgerTypes, RetireUncharge
  <2>2. ExecTypes'
    BY <1>7 DEF TypeOK, ExecTypes, RetireUncharge
  <2>3. UNCHANGED pageVars /\ UNCHANGED offerVars /\ UNCHANGED monVars /\ UNCHANGED flagVars
    BY <1>7 DEF RetireUncharge, pageVars, offerVars, monVars, flagVars
  <2> QED
    BY <2>1, <2>2, <2>3, TypeFrame DEF TypeOK
<1>8. ASSUME NEW r \in Rets, PollRelease(r) PROVE TypeOK'
  <2>1. PageTypes'
    BY <1>8, PagesTyped DEF TypeOK, PageTypes, PollRelease
  <2>2. UNCHANGED offerVars /\ UNCHANGED ledgerVars /\ UNCHANGED execVars /\ UNCHANGED monVars /\ UNCHANGED flagVars
    BY <1>8 DEF PollRelease, offerVars, ledgerVars, execVars, monVars, flagVars
  <2> QED
    BY <2>1, <2>2, TypeFrame DEF TypeOK
<1>9. ASSUME NEW c \in Callers, NEW keys, Pop(c, keys), FlagTypes',
             UNCHANGED <<pageVars, execVars, monVars>>
      PROVE  TypeOK'
  <2>1. OfferTypes'
    BY <1>9, ForgetTyped DEF TypeOK, OfferTypes
  <2>2. LedgerTypes'
    BY <1>9, ForgetTyped DEF TypeOK, LedgerTypes
  <2> QED
    BY <1>9, <2>1, <2>2, TypeFrame DEF TypeOK
<1>10. ASSUME NEW c \in Callers, NEW keys, Forget(c, keys) PROVE TypeOK'
  <2>1. FlagTypes'
    BY <1>10, ForgetTyped DEF TypeOK, FlagTypes, Forget
  <2> QED
    BY <1>9, <1>10, <2>1 DEF Forget
<1>11. ASSUME NEW i \in Ids, CloseForget(i) PROVE TypeOK'
  <2>1. FlagTypes'
    BY <1>11, ForgetTyped DEF TypeOK, FlagTypes, CloseForget, Callers
  <2> QED
    BY <1>9, <1>11, <2>1 DEF CloseForget, Callers
<1>j. ASSUME NEW c \in Callers, CompletedForget(c) PROVE TypeOK'
  <2>1. FlagTypes'
    BY <1>j, ForgetTyped DEF TypeOK, FlagTypes, CompletedForget
  <2> QED
    BY <1>9, <1>j, <2>1 DEF CompletedForget
<1>h. ASSUME NEW c \in Callers, NEW r \in Rets, HandOver(c, r) PROVE TypeOK'
  <2>1. call \in [Callers -> [join : SUBSET Ids, dead : SUBSET Rets]] /\ stranded \subseteq Rets
    BY DEF TypeOK, OfferTypes
  <2>0. NoCall \in [join : SUBSET Ids, dead : SUBSET Rets] /\ call[c].dead \subseteq Rets
    BY <2>1 DEF NoCall
  <2>2. /\ tasks' \in Seq(Task) /\ stranded' \subseteq Rets
        /\ call' \in [Callers -> [join : SUBSET Ids, dead : SUBSET Rets]]
    <3>1. tasks \in Seq(Task)
      BY DEF TypeOK, ExecTypes
    <3>2. CASE call' = [call EXCEPT ![c] = NoCall]
      BY <1>h, <2>0, <2>1, <3>1, <3>2, HandOverQueue
    <3>3. CASE call' = [call EXCEPT ![c].dead = @ \ {r}]
      BY <1>h, <2>0, <2>1, <3>1, <3>3, HandOverQueue
    <3> QED
      BY <1>h, <3>2, <3>3, HandOverQueue
  <2>3. OfferTypes' /\ ExecTypes'
    BY <1>h, <2>2 DEF TypeOK, OfferTypes, ExecTypes, HandOver
  <2>4. FlagTypes'
    BY <1>h DEF TypeOK, FlagTypes, HandOver
  <2>5. UNCHANGED pageVars /\ UNCHANGED ledgerVars /\ UNCHANGED monVars
    BY <1>h DEF HandOver
  <2> QED
    BY <2>3, <2>4, <2>5, TypeFrame DEF TypeOK
<1>12. ASSUME NEW i \in Ids, NEW a \in Attempts, NEW e \in Events, RestoreEvent(i, a, e) PROVE TypeOK'
  <2>0. /\ call' \in [Callers -> [join : SUBSET Ids, dead : SUBSET Rets]]
        /\ attempts' \in [Rets -> [Attempts -> SUBSET Events]]
    <3>1. call' \in [Callers -> [join : SUBSET Ids, dead : SUBSET Rets]]
      <4>1. PICK ended \in SUBSET Ids : call' = [call EXCEPT ![Reporter(e)].join = @ \cup ended]
        BY <1>12, ConstantsAssumption DEF TypeOK, OfferTypes, RestoreEvent
      <4> QED
        BY <4>1 DEF TypeOK, OfferTypes, Reporter, Callers
    <3>2. attempts' \in [Rets -> [Attempts -> SUBSET Events]]
      BY <1>12 DEF TypeOK, OfferTypes, RestoreEvent
    <3> QED
      BY <3>1, <3>2
  <2>1. OfferTypes'
    BY <1>12, <2>0 DEF TypeOK, OfferTypes, RestoreEvent
  <2>2. FlagTypes'
    BY <1>12 DEF TypeOK, FlagTypes, RestoreEvent
  <2>3. UNCHANGED pageVars /\ UNCHANGED ledgerVars /\ UNCHANGED execVars /\ UNCHANGED monVars
    BY <1>12 DEF RestoreEvent, pageVars, ledgerVars, execVars, monVars
  <2> QED
    BY <2>1, <2>2, <2>3, TypeFrame DEF TypeOK
<1>13. CASE MonitorTop
  <2>1. MonitorTypes'
    BY <1>13 DEF TypeOK, MonitorTypes, Spilling, MonitorTop
  <2>2. UNCHANGED pageVars /\ UNCHANGED offerVars /\ UNCHANGED ledgerVars /\ UNCHANGED execVars /\ UNCHANGED flagVars
    BY <1>13 DEF MonitorTop, pageVars, offerVars, ledgerVars, execVars, flagVars
  <2> QED
    BY <2>1, <2>2, TypeFrame DEF TypeOK
<1>14. CASE MonitorWait
  <2>1. MonitorTypes'
    BY <1>14 DEF TypeOK, MonitorTypes, Spilling, MonitorWait
  <2>2. UNCHANGED pageVars /\ UNCHANGED offerVars /\ UNCHANGED ledgerVars /\ UNCHANGED execVars /\ UNCHANGED flagVars
    BY <1>14 DEF MonitorWait, pageVars, offerVars, ledgerVars, execVars, flagVars
  <2> QED
    BY <2>1, <2>2, TypeFrame DEF TypeOK
<1>15. CASE MonitorClear
  <2>1. MonitorTypes'
    BY <1>15 DEF TypeOK, MonitorTypes, Spilling, MonitorGo, MonitorClear
  <2>2. FlagTypes'
    BY <1>15 DEF TypeOK, FlagTypes, MonitorClear
  <2>3. UNCHANGED pageVars /\ UNCHANGED offerVars /\ UNCHANGED ledgerVars /\ UNCHANGED execVars
    BY <1>15 DEF MonitorClear, pageVars, offerVars, ledgerVars, execVars
  <2> QED
    BY <2>1, <2>2, <2>3, TypeFrame DEF TypeOK
<1>16. CASE MonitorSample
  <2>1. MonitorTypes'
    BY <1>16 DEF TypeOK, MonitorTypes, Spilling, MonitorGo, MonitorSample
  <2>2. UNCHANGED pageVars /\ UNCHANGED offerVars /\ UNCHANGED ledgerVars /\ UNCHANGED execVars /\ UNCHANGED flagVars
    BY <1>16 DEF MonitorSample, pageVars, offerVars, ledgerVars, execVars, flagVars
  <2> QED
    BY <2>1, <2>2, TypeFrame DEF TypeOK
<1>17. CASE MonitorSelect
  <2>00. \/ mon' = [mon EXCEPT !.pc = "top", !.low = FALSE] /\ UNCHANGED <<refs, ledgerVars>>
         \/ \E r \in Eligible :
              /\ mon' = [mon EXCEPT !.pc = "window", !.rec = r, !.low = FALSE]
              /\ CopyForSpill(owned[<<"rec", r>>])
    BY <1>17 DEF MonitorSelect
  <2>01. draining' \in BOOLEAN /\ UNCHANGED <<stored, fatal>> /\ Eligible \subseteq Rets
    <3>1. UnderPressure \in BOOLEAN
      BY DEF UnderPressure
    <3>2. draining' \in BOOLEAN
      BY <1>17, <3>1 DEF MonitorSelect
    <3> QED
      BY <1>17, <3>2 DEF TypeOK, OfferTypes, MonitorSelect, Eligible
  <2>0. /\ SpillSite \in Sites
        /\ \A r \in Eligible : owned[<<"rec", r>>] \in SUBSET Pages
    BY DEF TypeOK, OfferTypes, LedgerTypes, Sites, SpillSite, Eligible
  <2>1. PageTypes'
    <3>0. refs' = refs \/ \E r \in Eligible : refs' = Up(owned[<<"rec", r>>])
      BY <2>00 DEF CopyForSpill
    <3>1. refs' \in [Pages -> Int]
      BY <3>0, PagesTyped DEF TypeOK, PageTypes
    <3> QED
      BY <1>17, <3>1 DEF TypeOK, PageTypes, MonitorSelect
  <2>2. LedgerTypes'
    BY <1>17, <2>0, <2>00, LedgerTyped DEF TypeOK, LedgerTypes, CopyForSpill, ledgerVars, MonitorSelect
  <2>3. MonitorTypes'
    BY <1>17, <2>00, <2>01 DEF TypeOK, MonitorTypes, Spilling, MonitorSelect
  <2>4. UNCHANGED offerVars /\ UNCHANGED execVars /\ UNCHANGED flagVars
    BY <1>17 DEF MonitorSelect, offerVars, execVars, flagVars
  <2> QED
    BY <2>1, <2>2, <2>3, <2>4, TypeFrame DEF TypeOK
<1>18. CASE SpillWindow
  <2>1. MonitorTypes'
    BY <1>18 DEF TypeOK, MonitorTypes, Spilling, MonitorGo, WindowsLeft, SpillWindow
  <2>2. UNCHANGED pageVars /\ UNCHANGED offerVars /\ UNCHANGED ledgerVars /\ UNCHANGED execVars /\ UNCHANGED flagVars
    BY <1>18 DEF SpillWindow, pageVars, offerVars, ledgerVars, execVars, flagVars
  <2> QED
    BY <2>1, <2>2, TypeFrame DEF TypeOK
<1>19. CASE SpillBuild
  <2>1. PageTypes'
    BY <1>19, PagesTyped DEF TypeOK, PageTypes, SpillBuild
  <2>2. OfferTypes'
    BY <1>19 DEF TypeOK, OfferTypes, MonitorTypes, Spilling, SpillBuild, callVars
  <2>3. MonitorTypes'
    BY <1>19, SpillSourceType DEF TypeOK, MonitorTypes, Spilling, MonitorGo, SpillBuild
  <2>4. UNCHANGED ledgerVars /\ UNCHANGED execVars /\ UNCHANGED flagVars
    BY <1>19 DEF SpillBuild, ledgerVars, execVars, flagVars
  <2> QED
    BY <2>1, <2>2, <2>3, <2>4, TypeFrame DEF TypeOK
<1>20. CASE SpillSubmit
  <2>0. \/ mon' = [mon EXCEPT !.pc = "confirm", !.page = None, !.pos = @ + 0]
        \/ mon' = [mon EXCEPT !.pc = "flight"]
    BY <1>20 DEF SpillSubmit, DropPage, MonitorGo
  <2>1. PageTypes'
    BY <1>20, PagesTyped DEF TypeOK, PageTypes, DropPage, SpillSubmit
  <2>2. MonitorTypes'
    <3>1. mon.pos + 0 = mon.pos /\ mon.pos < 2 * W /\ mon.rec \in Rets
      BY <1>20, ConstantsAssumption DEF TypeOK, MonitorTypes, SpillSubmit, Spilling
    <3>2. UNCHANGED <<draining, stored, fatal>>
      BY <1>20 DEF SpillSubmit
    <3> QED
      BY <2>0, <3>1, <3>2 DEF TypeOK, MonitorTypes, Spilling
  <2>3. UNCHANGED offerVars /\ UNCHANGED ledgerVars /\ UNCHANGED execVars /\ UNCHANGED flagVars
    BY <1>20 DEF SpillSubmit, offerVars, ledgerVars, execVars, flagVars
  <2> QED
    BY <2>1, <2>2, <2>3, TypeFrame DEF TypeOK
<1>21. CASE SpillResult
  <2>0. \/ mon' = [mon EXCEPT !.pc = "window", !.page = None, !.pos = @ + 1]
        \/ mon' = [mon EXCEPT !.pc = "release", !.page = None, !.pos = @ + 0]
        \/ mon' = [mon EXCEPT !.pc = "quarantined"]
    BY <1>21 DEF SpillResult, DropPage, MonitorGo
  <2>00. /\ stored' \subseteq Pages /\ fatal' \in BOOLEAN /\ draining' = draining
         /\ mon.pc = "flight"
    BY <1>21, SpillSourceType DEF TypeOK, MonitorTypes, SpillResult
  <2>1. PageTypes'
    BY <1>21, PagesTyped DEF TypeOK, PageTypes, DropPage, SpillResult
  <2>2. OfferTypes'
    BY <1>21 DEF TypeOK, OfferTypes, MonitorTypes, Spilling, SpillResult, callVars
  <2>3. MonitorTypes'
    <3>1. /\ mon.pos + 0 = mon.pos /\ mon.pos < 2 * W /\ mon.rec \in Rets
          /\ mon.pos + 1 \in 0..(2 * W)
      BY <2>00, ConstantsAssumption DEF TypeOK, MonitorTypes, Spilling
    <3> QED
      BY <2>0, <2>00, <3>1 DEF TypeOK, MonitorTypes, Spilling
  <2>4. UNCHANGED ledgerVars /\ UNCHANGED execVars /\ UNCHANGED flagVars
    BY <1>21 DEF SpillResult, ledgerVars, execVars, flagVars
  <2> QED
    BY <2>1, <2>2, <2>3, <2>4, TypeFrame DEF TypeOK
<1>22. CASE SpillConfirm
  <2>1. OfferTypes'
    BY <1>22 DEF TypeOK, OfferTypes, MonitorTypes, Spilling, SpillConfirm, callVars
  <2>2. LedgerTypes'
    BY <1>22 DEF TypeOK, LedgerTypes, MonitorTypes, Spilling, Sites, SwapSite, SpillConfirm
  <2>3. MonitorTypes'
    BY <1>22 DEF TypeOK, MonitorTypes, Spilling, MonitorGo, SpillConfirm
  <2>4. UNCHANGED pageVars /\ UNCHANGED execVars /\ UNCHANGED flagVars
    BY <1>22 DEF SpillConfirm, pageVars, execVars, flagVars
  <2> QED
    BY <2>1, <2>2, <2>3, <2>4, TypeFrame DEF TypeOK
<1>23. ASSUME NEW from \in Spilling, NEW to \in {"settle", "return"}, NEW site, MonitorRelease(from, to, site) PROVE TypeOK'
  <2>1. PageTypes'
    BY <1>23, PagesTyped DEF TypeOK, PageTypes, MonitorRelease
  <2>2. MonitorTypes'
    BY <1>23 DEF TypeOK, MonitorTypes, Spilling, MonitorGo, MonitorRelease
  <2>3. UNCHANGED offerVars /\ UNCHANGED ledgerVars /\ UNCHANGED execVars /\ UNCHANGED flagVars
    BY <1>23 DEF MonitorRelease, offerVars, ledgerVars, execVars, flagVars
  <2> QED
    BY <2>1, <2>2, <2>3, TypeFrame DEF TypeOK
<1>24. ASSUME NEW from \in Spilling, NEW to \in {"release", "top"}, NEW site \in Sites, MonitorUncharge(from, to, site) PROVE TypeOK'
  <2>0. \/ mon' = [mon EXCEPT !.pc = "release"] /\ mon.pc \in Spilling
        \/ mon' = [mon EXCEPT !.pc = "top", !.rec = None, !.pos = 0]
    BY <1>24 DEF TypeOK, MonitorTypes, MonitorUncharge
  <2>1. LedgerTypes'
    BY <1>24, LedgerTyped DEF TypeOK, LedgerTypes, MonitorUncharge
  <2>2. MonitorTypes'
    <3>1. 0 \in 0..(2 * W) /\ UNCHANGED <<draining, stored, fatal>>
      BY <1>24, ConstantsAssumption DEF MonitorUncharge
    <3> QED
      BY <2>0, <3>1, ZenonT(40) DEF TypeOK, MonitorTypes, Spilling
  <2>3. UNCHANGED pageVars /\ UNCHANGED offerVars /\ UNCHANGED execVars /\ UNCHANGED flagVars
    BY <1>24 DEF MonitorUncharge, pageVars, offerVars, execVars, flagVars
  <2> QED
    BY <2>1, <2>2, <2>3, TypeFrame DEF TypeOK
<1>25. ASSUME NEW r \in Rets, BackoffExpires(r) PROVE TypeOK'
  <2>1. OfferTypes'
    BY <1>25 DEF TypeOK, OfferTypes, BackoffExpires, callVars
  <2>2. UNCHANGED pageVars /\ UNCHANGED ledgerVars /\ UNCHANGED execVars /\ UNCHANGED monVars /\ UNCHANGED flagVars
    BY <1>25 DEF BackoffExpires, pageVars, ledgerVars, execVars, monVars, flagVars
  <2> QED
    BY <2>1, <2>2, TypeFrame DEF TypeOK
<1>26. CASE CloseBegin
  <2>1. FlagTypes'
    BY <1>26, ConstantsAssumption DEF TypeOK, FlagTypes, OfferTypes, CloseBegin
  <2>2. UNCHANGED pageVars /\ UNCHANGED offerVars /\ UNCHANGED ledgerVars /\ UNCHANGED execVars /\ UNCHANGED monVars
    BY <1>26 DEF CloseBegin, pageVars, offerVars, ledgerVars, execVars, monVars
  <2> QED
    BY <2>1, <2>2, TypeFrame DEF TypeOK
<1>27. CASE CloseWake
  <2>1. FlagTypes'
    BY <1>27 DEF TypeOK, FlagTypes, SetWake, CloseWake
  <2>2. UNCHANGED pageVars /\ UNCHANGED offerVars /\ UNCHANGED ledgerVars /\ UNCHANGED execVars /\ UNCHANGED monVars
    BY <1>27 DEF CloseWake, pageVars, offerVars, ledgerVars, execVars, monVars
  <2> QED
    BY <2>1, <2>2, TypeFrame DEF TypeOK
<1>28. CASE CloseJoin
  <2>1. FlagTypes'
    BY <1>28 DEF TypeOK, FlagTypes, CloseJoin
  <2>2. UNCHANGED pageVars /\ UNCHANGED offerVars /\ UNCHANGED ledgerVars /\ UNCHANGED execVars /\ UNCHANGED monVars
    BY <1>28 DEF CloseJoin, pageVars, offerVars, ledgerVars, execVars, monVars
  <2> QED
    BY <2>1, <2>2, TypeFrame DEF TypeOK
<1>29. CASE CloseShutdown
  <2>0. \A p \in Pages : Cardinality({r \in Rets : p \in jobHeld[r]}) \in Nat
    BY FS_Subset, FS_CardinalityType, ConstantsAssumption
  <2>1. PageTypes'
    BY <1>29, <2>0 DEF TypeOK, PageTypes, CloseShutdown
  <2>2. FlagTypes'
    BY <1>29 DEF TypeOK, FlagTypes, CloseShutdown
  <2>3. UNCHANGED offerVars /\ UNCHANGED ledgerVars /\ UNCHANGED execVars /\ UNCHANGED monVars
    BY <1>29 DEF CloseShutdown, offerVars, ledgerVars, execVars, monVars
  <2> QED
    BY <2>1, <2>2, <2>3, TypeFrame DEF TypeOK
<1>30. ASSUME NEW p \in Pages, Evict(p) PROVE TypeOK'
  <2>1. PageTypes'
    BY <1>30, PagesTyped DEF TypeOK, PageTypes, Evict
  <2>2. UNCHANGED offerVars /\ UNCHANGED ledgerVars /\ UNCHANGED execVars /\ UNCHANGED monVars /\ UNCHANGED flagVars
    BY <1>30 DEF Evict, offerVars, ledgerVars, execVars, monVars, flagVars
  <2> QED
    BY <2>1, <2>2, TypeFrame DEF TypeOK
<1>31. ASSUME NEW p \in Pages, RemoveAlias(p) PROVE TypeOK'
  <2>1. PageTypes'
    BY <1>31, PagesTyped DEF TypeOK, PageTypes, RemoveAlias
  <2>2. UNCHANGED offerVars /\ UNCHANGED ledgerVars /\ UNCHANGED execVars /\ UNCHANGED monVars /\ UNCHANGED flagVars
    BY <1>31 DEF RemoveAlias, offerVars, ledgerVars, execVars, monVars, flagVars
  <2> QED
    BY <2>1, <2>2, TypeFrame DEF TypeOK
<1>32. CASE ToggleFreeze
  <2>1. FlagTypes'
    BY <1>32 DEF TypeOK, FlagTypes, ToggleFreeze
  <2>2. UNCHANGED pageVars /\ UNCHANGED offerVars /\ UNCHANGED ledgerVars /\ UNCHANGED execVars /\ UNCHANGED monVars
    BY <1>32 DEF ToggleFreeze, pageVars, offerVars, ledgerVars, execVars, monVars
  <2> QED
    BY <2>1, <2>2, TypeFrame DEF TypeOK
<1>33. CASE UNCHANGED vars
  BY <1>33, TypeFrame DEF vars, TypeOK
<1>34. SwapSite \in Sites /\ SpillSite \in Sites
  BY DEF Sites, SwapSite, SpillSite
<1>35. ASSUME MonitorStep PROVE TypeOK'
  BY <1>35, <1>13, <1>14, <1>15, <1>16, <1>17, <1>18, <1>19, <1>20, <1>21, <1>22, <1>23, <1>24, <1>34
  DEF MonitorStep, Spilling
<1> QED
  BY <1>1, <1>2, <1>3, <1>4, <1>5, <1>6, <1>7, <1>8, <1>10, <1>11, <1>j, <1>12, <1>h, <1>25, <1>26, <1>27, <1>28, <1>29, <1>30, <1>31, <1>32, <1>33, <1>35
  DEF Next, CallStep, ExecStep, CloseStep

\* The initial state has the types.
LEMMA TypeInit == Init => TypeOK
<1> SUFFICES ASSUME Init PROVE TypeOK
  OBVIOUS
<1>1. PageTypes
  BY DEF Init, PageTypes
<1>2. OfferTypes
  BY DEF Init, OfferTypes, NoCall
<1>3. FlagTypes
  BY DEF Init, FlagTypes
<1>4. LedgerTypes /\ ExecTypes
  BY DEF Init, LedgerTypes, ExecTypes
<1>5. MonitorTypes
  <2>1. 0 \in 0..(2 * W)
    BY ConstantsAssumption
  <2> QED
    BY <2>1 DEF Init, MonitorTypes, Spilling
<1> QED
  BY <1>1, <1>2, <1>3, <1>4, <1>5 DEF TypeOK

\* The store's variables keep their types in every behaviour.
THEOREM TypeCorrect == Spec => []TypeOK
  BY TypeInit, TypeStep, PTL DEF Spec

-----------------------------------------------------------------------------
(* The inductive invariant *)

\* A batch of pages is all of a record's pages and is where the threads' program
\* counters say it is.
Batches ==
  /\ \A r \in Rets : owned[<<"rec", r>>] \in {{}, PagesOf(r)}
  /\ \A r \in Rets : owned[<<"task", r>>] # {} => r \in cancelled
  /\ exec.pc # "uncharge" => owned[RunSite] = {}
  /\ mon.pc \notin {"retire", "settle"} => owned[SwapSite] = {}
  /\ mon.pc \notin Spilling => owned[SpillSite] = {}

\* A publication is queued and runs at most once, so a record that was
\* forgotten never comes back.
PublishOnce ==
  /\ records \cap cancelled = {}
  /\ \A r \in records \cup cancelled : jobs[r] \in {"running", "done", "gone"}
  /\ \A i \in 1..Len(tasks) : tasks[i].kind = "publish" => jobs[tasks[i].ret] = "sealed"
  /\ \A i, j \in 1..Len(tasks) :
       /\ tasks[i].kind = "publish" /\ tasks[j].kind = "publish"
       /\ tasks[i].ret = tasks[j].ret
       => i = j
  /\ exec.pc \in {"acquire", "commit", "finish"} => jobs[exec.ret] = "running"
  /\ exec.pc \in {"acquire", "commit"} => exec.ret \notin records \cup cancelled

Shape == TypeOK /\ PublishOnce /\ OwnersReachable /\ Batches

\* Queued tasks name publications.
LEMMA QueueElements ==
  ASSUME TypeOK
  PROVE  \A i \in 1..Len(tasks) : tasks[i].ret \in Rets
<1>1. \A i \in 1..Len(tasks) : tasks[i] \in Task
  BY ElementOfSeq DEF TypeOK, ExecTypes
<1> QED
  BY <1>1 DEF Task

\* The queue without its head.
LEMMA QueueTail ==
  ASSUME TypeOK, tasks # <<>>, tasks' = Tail(tasks)
  PROVE  /\ Len(tasks) \in Nat \ {0} /\ Head(tasks) = tasks[1] /\ Head(tasks).ret \in Rets
         /\ Len(tasks') = Len(tasks) - 1
         /\ \A i \in 1..Len(tasks') : tasks'[i] = tasks[i + 1]
<1>1. tasks \in Seq(Task)
  BY DEF TypeOK, ExecTypes
<1>2. Len(tasks) \in Nat \ {0} /\ Head(tasks) = tasks[1]
  BY <1>1, EmptySeq
<1>3. Head(tasks) \in Task
  BY <1>1, HeadTailProperties
<1> QED
  BY <1>1, <1>2, <1>3, HeadTailProperties DEF Task

\* What forget does to the sites: every popped record's pages move to its task.
LEMMA ForgetSites ==
  ASSUME TypeOK, NEW c \in Callers, NEW keys, Pop(c, keys)
  PROVE  LET dead == {r \in manifests : IdOf[r] \in keys} \cap records
         IN  /\ \A r \in Rets : owned'[<<"rec", r>>] = IF r \in dead THEN {} ELSE owned[<<"rec", r>>]
             /\ \A r \in Rets : owned'[<<"task", r>>] =
                  IF r \in dead THEN owned[<<"rec", r>>] ELSE owned[<<"task", r>>]
             /\ \A s \in {RunSite, SpillSite, SwapSite} : owned'[s] = owned[s]
<1> DEFINE dead == {r \in manifests : IdOf[r] \in keys} \cap records
<1>1. owned' = [s \in Sites |->
                  IF s[1] = "rec" /\ s[2] \in dead THEN {}
                  ELSE IF s[1] = "task" /\ s[2] \in dead THEN owned[<<"rec", s[2]>>]
                  ELSE owned[s]]
  BY DEF Pop
<1>2. \A r \in Rets : <<"rec", r>> \in Sites /\ <<"task", r>> \in Sites
  BY DEF Sites
<1>3. RunSite \in Sites /\ SpillSite \in Sites /\ SwapSite \in Sites
  BY DEF Sites, RunSite, SpillSite, SwapSite
<1> HIDE DEF dead
<1>4. \A s \in {RunSite, SpillSite, SwapSite} : owned'[s] = owned[s]
  <2>1. RunSite[1] = "run" /\ SpillSite[1] = "spill" /\ SwapSite[1] = "swap"
    BY DEF RunSite, SpillSite, SwapSite
  <2> QED
    BY <1>1, <1>3, <2>1
<1> QED
  BY <1>1, <1>2, <1>4 DEF dead

\* A publication is queued and run at most once: each action keeps it.
LEMMA OnceStep == Shape /\ [Next]_vars => PublishOnce'
<1> SUFFICES ASSUME Shape, [Next]_vars
             PROVE  PublishOnce'
  OBVIOUS
<1>0. TypeOK /\ PublishOnce
  BY DEF Shape
<1> USE DEF ExecTypes, PageTypes
<1>1. ASSUME NEW r \in Rets, Seal(r) PROVE PublishOnce'
  <2> DEFINE t == [kind |-> "publish", ret |-> r]
  <2>1. t \in Task /\ tasks \in Seq(Task)
    BY <1>0 DEF TypeOK, Task
  <2>2. /\ Len(tasks) \in Nat /\ Len(tasks') = Len(tasks) + 1
        /\ \A i \in 1..Len(tasks) : tasks'[i] = tasks[i]
        /\ tasks'[Len(tasks) + 1] = t
    BY <1>1, <2>1, AppendProperties, LenProperties DEF Seal
  <2>3. \A i \in 1..Len(tasks') : tasks'[i] = t \/ (i \in 1..Len(tasks) /\ tasks'[i] = tasks[i])
    BY <2>2
  <2>4. /\ jobs[r] = "new" /\ jobs' = [jobs EXCEPT ![r] = "sealed"]
        /\ UNCHANGED <<records, cancelled, exec>>
    BY <1>1 DEF Seal, offerVars
  <2>5. \A i \in 1..Len(tasks) : tasks[i].ret \in Rets
    BY <1>0, QueueElements
  <2>6. \A i \in 1..Len(tasks) : tasks[i].kind = "publish" => tasks[i].ret # r
    BY <1>0, <2>4 DEF PublishOnce
  <2>7. records \subseteq Rets /\ cancelled \subseteq Rets /\ jobs \in [Rets -> {"new", "sealed", "running", "done", "gone"}]
    BY <1>0 DEF TypeOK, OfferTypes
  <2>8. \A i \in 1..Len(tasks') : tasks'[i].kind = "publish" => jobs'[tasks'[i].ret] = "sealed"
    BY <1>0, <2>3, <2>4, <2>5, <2>7 DEF PublishOnce
  <2>9. \A i, j \in 1..Len(tasks') :
          tasks'[i].kind = "publish" /\ tasks'[j].kind = "publish" /\ tasks'[i].ret = tasks'[j].ret
          => i = j
    BY <1>0, <2>2, <2>6 DEF PublishOnce
  <2> QED
    BY <1>0, <2>4, <2>7, <2>8, <2>9 DEF PublishOnce, TypeOK
<1>2. CASE PublishStart
  <2>1. /\ tasks # <<>> /\ tasks' = Tail(tasks) /\ Head(tasks).kind = "publish"
        /\ \E s \in {"done", "running"} : jobs' = [jobs EXCEPT ![Head(tasks).ret] = s]
        /\ exec.pc = "idle"
        /\ exec' = exec \/ (/\ exec' = [pc |-> "acquire", ret |-> Head(tasks).ret]
                            /\ jobs' = [jobs EXCEPT ![Head(tasks).ret] = "running"])
        /\ UNCHANGED <<records, cancelled>>
    BY <1>2 DEF PublishStart, offerVars
  <2>2. /\ Len(tasks) \in Nat \ {0} /\ Head(tasks) = tasks[1] /\ Head(tasks).ret \in Rets
        /\ Len(tasks') = Len(tasks) - 1
        /\ \A i \in 1..Len(tasks') : tasks'[i] = tasks[i + 1]
    BY <1>0, <2>1, QueueTail
  <2>3. jobs[Head(tasks).ret] = "sealed"
    BY <1>0, <2>1, <2>2 DEF PublishOnce
  <2>4. \A i \in 1..Len(tasks') : tasks'[i].kind = "publish" => tasks'[i].ret # Head(tasks).ret
    BY <1>0, <2>1, <2>2 DEF PublishOnce
  <2>5. records \subseteq Rets /\ cancelled \subseteq Rets /\ jobs \in [Rets -> {"new", "sealed", "running", "done", "gone"}]
    BY <1>0 DEF TypeOK, OfferTypes
  <2>6. \A i \in 1..Len(tasks') : tasks'[i].kind = "publish" => tasks'[i].ret \in Rets
    <3>1. \A i \in 1..Len(tasks) : tasks[i] \in Task
      BY <1>0, ElementOfSeq DEF TypeOK
    <3> QED
      BY <2>2, <3>1 DEF Task
  <2>7. \A i \in 1..Len(tasks') : tasks'[i].kind = "publish" => jobs'[tasks'[i].ret] = "sealed"
    BY <1>0, <2>1, <2>2, <2>4, <2>5, <2>6 DEF PublishOnce
  <2>8. \A i, j \in 1..Len(tasks') :
          tasks'[i].kind = "publish" /\ tasks'[j].kind = "publish" /\ tasks'[i].ret = tasks'[j].ret
          => i = j
    <3>1. \A i \in 1..Len(tasks') : i + 1 \in 1..Len(tasks)
      BY <2>2
    <3> SUFFICES ASSUME NEW i \in 1..Len(tasks'), NEW j \in 1..Len(tasks'),
                        tasks[i + 1].kind = "publish" /\ tasks[j + 1].kind = "publish",
                        tasks[i + 1].ret = tasks[j + 1].ret
                 PROVE  i = j
      BY <2>2
    <3>2. i + 1 = j + 1
      BY <1>0, <3>1 DEF PublishOnce
    <3> QED
      BY <3>2
  <2>9. Head(tasks).ret \notin records \cup cancelled
    BY <1>0, <2>3 DEF PublishOnce
  <2> QED
    BY <1>0, <2>1, <2>2, <2>5, <2>7, <2>8, <2>9 DEF PublishOnce
<1>3. CASE PublishAcquire
  BY <1>0, <1>3 DEF PublishOnce, PublishAcquire, offerVars, TypeOK
<1>4. CASE PublishCommit
  <2>1. /\ exec.pc = "commit" /\ exec' = [exec EXCEPT !.pc = "finish"]
        /\ records' = records \/ records' = (records \ SameIdentity(exec.ret)) \cup {exec.ret}
        /\ UNCHANGED <<jobs, tasks, cancelled>>
    BY <1>4 DEF PublishCommit
  <2> QED
    BY <1>0, <2>1 DEF PublishOnce, TypeOK
<1>5. CASE PublishFinish
  <2>1. jobs[exec.ret] = "running" /\ exec.ret \in Rets
    BY <1>0, <1>5 DEF PublishOnce, PublishFinish, TypeOK
  <2>2. \A i \in 1..Len(tasks) : tasks[i].kind = "publish" => tasks[i].ret # exec.ret
    BY <1>0, <2>1 DEF PublishOnce
  <2>3. \A i \in 1..Len(tasks) : tasks[i].ret \in Rets
    BY <1>0, QueueElements
  <2>4. records \subseteq Rets /\ cancelled \subseteq Rets /\ jobs \in [Rets -> {"new", "sealed", "running", "done", "gone"}]
    BY <1>0 DEF TypeOK, OfferTypes
  <2> QED
    BY <1>0, <1>5, <2>2, <2>3, <2>4 DEF PublishOnce, PublishFinish, offerVars
<1>6. CASE RetireRelease
  <2>1. /\ tasks # <<>> /\ tasks' = Tail(tasks) /\ exec'.pc = "uncharge"
        /\ UNCHANGED <<jobs, records, cancelled>>
    BY <1>6 DEF RetireRelease, offerVars
  <2>2. /\ Len(tasks) \in Nat \ {0}
        /\ Len(tasks') = Len(tasks) - 1
        /\ \A i \in 1..Len(tasks') : tasks'[i] = tasks[i + 1]
    BY <1>0, <2>1, QueueTail
  <2> QED
    BY <1>0, <2>1, <2>2 DEF PublishOnce
<1>7. CASE RetireUncharge
  BY <1>0, <1>7 DEF PublishOnce, RetireUncharge, offerVars, pageVars
<1>8. ASSUME jobs' = [r \in Rets |-> IF jobs[r] = "done" THEN jobs'[r] ELSE jobs[r]],
             \A r \in Rets : jobs[r] = "done" => jobs'[r] \in {"done", "gone"},
             UNCHANGED <<records, cancelled, tasks, exec>>
      PROVE  PublishOnce'
  <2>1. \A i \in 1..Len(tasks) : tasks[i].ret \in Rets
    BY <1>0, QueueElements
  <2>2. records \subseteq Rets /\ cancelled \subseteq Rets
    BY <1>0 DEF TypeOK, OfferTypes
  <2> QED
    BY <1>0, <1>8, <2>1, <2>2 DEF PublishOnce, TypeOK
<1>9. ASSUME NEW r \in Rets, PollRelease(r) PROVE PublishOnce'
  BY <1>0, <1>8, <1>9 DEF PollRelease, TypeOK, offerVars, execVars
<1>10. CASE CloseShutdown
  BY <1>0, <1>8, <1>10 DEF CloseShutdown, TypeOK, offerVars, execVars
<1>11. ASSUME NEW c \in Callers, NEW keys, Pop(c, keys), UNCHANGED <<jobs, tasks, exec>> PROVE PublishOnce'
  <2>1. /\ records' \subseteq records /\ records \subseteq records' \cup cancelled'
        /\ cancelled \subseteq cancelled' /\ cancelled' \subseteq records \cup cancelled
        /\ records' \cap cancelled' = {}
    BY <1>0, <1>11 DEF Pop, PublishOnce
  <2> QED
    BY <1>0, <1>11, <2>1 DEF PublishOnce
<1>12. ASSUME NEW c \in Callers, NEW keys, Forget(c, keys) PROVE PublishOnce'
  BY <1>11, <1>12 DEF Forget, pageVars, execVars
<1>13. ASSUME NEW i, CloseForget(i) PROVE PublishOnce'
  BY <1>11, <1>13 DEF CloseForget, Callers, pageVars, execVars
<1>j. ASSUME NEW c \in Callers, CompletedForget(c) PROVE PublishOnce'
  BY <1>11, <1>j DEF CompletedForget, pageVars, execVars
<1>14. ASSUME UNCHANGED <<records, cancelled, jobs, tasks, exec>> PROVE PublishOnce'
  BY <1>0, <1>14 DEF PublishOnce
<1>15. ASSUME NEW i, NEW a, NEW e, RestoreEvent(i, a, e) PROVE PublishOnce'
  BY <1>14, <1>15 DEF RestoreEvent, pageVars, execVars
<1>h. ASSUME NEW c \in Callers, NEW r \in Rets, HandOver(c, r) PROVE PublishOnce'
  <2>1. UNCHANGED <<records, cancelled, jobs, exec>>
    BY <1>h DEF HandOver, pageVars
  <2>2. CASE tasks' = tasks
    BY <1>14, <2>1, <2>2
  <2>3. CASE /\ Len(tasks) \in Nat /\ Len(tasks') = Len(tasks) + 1
             /\ \A i \in 1..Len(tasks) : tasks'[i] = tasks[i]
             /\ tasks'[Len(tasks) + 1] = [kind |-> "retire", ret |-> r]
    <3>1. tasks'[Len(tasks) + 1].kind = "retire"
      BY <2>3
    <3>2. \A i \in 1..Len(tasks') : tasks'[i].kind = "publish" => i \in 1..Len(tasks) /\ tasks'[i] = tasks[i]
      BY <2>3, <3>1
    <3> QED
      BY <1>0, <2>1, <3>2 DEF PublishOnce
  <2> QED
    BY <1>0, <1>h, <2>2, <2>3, HandOverQueue
<1>16. ASSUME MonitorStep PROVE PublishOnce'
  <2>1. MonitorTop \/ MonitorWait \/ MonitorClear \/ MonitorSample => UNCHANGED <<records, cancelled, jobs, tasks, exec>>
    BY DEF MonitorTop, MonitorWait, MonitorClear, MonitorSample, pageVars, offerVars, execVars
  <2>2. MonitorSelect \/ SpillWindow \/ SpillBuild \/ SpillSubmit => UNCHANGED <<records, cancelled, jobs, tasks, exec>>
    BY DEF MonitorSelect, SpillWindow, SpillBuild, SpillSubmit, pageVars, offerVars, execVars
  <2>3. SpillResult \/ SpillConfirm => UNCHANGED <<records, cancelled, jobs, tasks, exec>>
    BY DEF SpillResult, SpillConfirm, pageVars, execVars
  <2>4. \A f, t, s : MonitorRelease(f, t, s) \/ MonitorUncharge(f, t, s)
                     => UNCHANGED <<records, cancelled, jobs, tasks, exec>>
    BY DEF MonitorRelease, MonitorUncharge, pageVars, offerVars, execVars
  <2> QED
    BY <1>14, <1>16, <2>1, <2>2, <2>3, <2>4 DEF MonitorStep
<1>17. ASSUME NEW r, BackoffExpires(r) PROVE PublishOnce'
  BY <1>14, <1>17 DEF BackoffExpires, pageVars, execVars
<1>18. ASSUME CloseBegin \/ CloseWake \/ CloseJoin PROVE PublishOnce'
  BY <1>14, <1>18 DEF CloseBegin, CloseWake, CloseJoin, pageVars, offerVars, execVars
<1>19. ASSUME NEW p, Evict(p) \/ RemoveAlias(p) PROVE PublishOnce'
  BY <1>14, <1>19 DEF Evict, RemoveAlias, offerVars, execVars
<1>20. CASE ToggleFreeze \/ UNCHANGED vars
  BY <1>14, <1>20 DEF ToggleFreeze, vars, pageVars, offerVars, execVars
<1> QED
  BY <1>j, <1>1, <1>2, <1>3, <1>4, <1>5, <1>6, <1>7, <1>9, <1>10, <1>12, <1>13, <1>h, <1>15, <1>16,
     <1>17, <1>18, <1>19, <1>20 DEF Next, CallStep, ExecStep, CloseStep

\* OwnersReachable and Batches are kept by every action.
LEMMA ShapeStep == Shape /\ [Next]_vars => OwnersReachable' /\ Batches'
<1> SUFFICES ASSUME Shape, [Next]_vars
             PROVE  OwnersReachable' /\ Batches'
  OBVIOUS
<1>0. TypeOK /\ PublishOnce /\ OwnersReachable /\ Batches
  BY DEF Shape
<1>a. \A r \in Rets : <<"rec", r>> \in Sites /\ <<"task", r>> \in Sites
  BY DEF Sites
<1>b. RunSite \in Sites /\ SpillSite \in Sites /\ SwapSite \in Sites
  BY DEF Sites, RunSite, SpillSite, SwapSite
<1>c. \A r \in Rets : /\ <<"rec", r>> \notin {RunSite, SpillSite, SwapSite}
                      /\ <<"task", r>> \notin {RunSite, SpillSite, SwapSite}
                      /\ \A q \in Rets : /\ <<"rec", r>> # <<"task", q>>
                                         /\ <<"rec", r>> = <<"rec", q>> => r = q
                                         /\ <<"task", r>> = <<"task", q>> => r = q
  BY DEF RunSite, SpillSite, SwapSite
<1>d. RunSite # SpillSite /\ RunSite # SwapSite /\ SpillSite # SwapSite
  BY DEF RunSite, SpillSite, SwapSite
<1>e. owned \in [Sites -> SUBSET Pages] /\ records \subseteq Rets /\ manifests \subseteq Rets
  BY <1>0 DEF TypeOK, LedgerTypes, OfferTypes
\* Steps that keep the offers and the sites, and move a thread harmlessly.
<1>1. ASSUME UNCHANGED <<manifests, records, cancelled, owned>>,
             exec'.pc # "uncharge" => exec.pc # "uncharge",
             mon'.pc \notin {"retire", "settle"} => mon.pc \notin {"retire", "settle"},
             mon'.pc \notin Spilling => mon.pc \notin Spilling
      PROVE  OwnersReachable' /\ Batches'
  BY <1>0, <1>1 DEF OwnersReachable, Batches
<1>2. ASSUME NEW r \in Rets, Seal(r) \/ PollRelease(r) \/ BackoffExpires(r)
      PROVE  OwnersReachable' /\ Batches'
  BY <1>1, <1>2 DEF Seal, PollRelease, BackoffExpires, offerVars, ledgerVars, execVars, monVars
<1>3. CASE PublishStart \/ PublishAcquire \/ PublishFinish
  BY <1>1, <1>3 DEF PublishStart, PublishAcquire, PublishFinish, offerVars, ledgerVars, monVars
<1>4. CASE PublishCommit
  <2> DEFINE r == exec.ret
  <2>1. /\ r \in Rets /\ exec.pc = "commit" /\ exec'.pc = "finish" /\ cancelled' = cancelled
        /\ mon'.pc = mon.pc \/ (mon.pc = "none" /\ mon'.pc = "top")
    BY <1>0, <1>4 DEF PublishCommit, TypeOK, ExecTypes, MonitorTypes
  <2>2. CASE Refused(r)
    BY <1>0, <1>4, <2>1, <2>2 DEF PublishCommit, OwnersReachable, Batches, Spilling
  <2>3. CASE ~Refused(r)
    <3>1. /\ records \cap SameIdentity(r) = {} /\ r \in SameIdentity(r)
          /\ manifests' = (manifests \ SameIdentity(r)) \cup {r}
          /\ \/ records' = records /\ owned' = owned
             \/ /\ records' = (records \ SameIdentity(r)) \cup {r}
                /\ owned' = [owned EXCEPT ![<<"rec", r>>] = held] /\ held = PagesOf(r)
      BY <1>4, <2>1, <2>3 DEF PublishCommit, Refused, SameIdentity, RetentionFits
    <3>2. OwnersReachable'
      <4>1. records' \subseteq manifests'
        BY <1>0, <3>1 DEF OwnersReachable
      <4>2. \A x, y \in manifests' : IdOf[x] = IdOf[y] => x = y
        BY <1>0, <1>e, <2>1, <3>1 DEF OwnersReachable, SameIdentity
      <4>3. \A x \in Rets : owned'[<<"rec", x>>] # {} => x \in records'
        BY <1>0, <1>a, <1>c, <1>e, <2>1, <3>1 DEF OwnersReachable
      <4> QED
        BY <4>1, <4>2, <4>3 DEF OwnersReachable
    <3>3. Batches'
      <4>1. \A x \in Rets : owned'[<<"rec", x>>] \in {{}, PagesOf(x)}
        BY <1>0, <1>a, <1>c, <1>e, <2>1, <3>1 DEF Batches
      <4>2. \A x \in Rets : owned'[<<"task", x>>] = owned[<<"task", x>>]
        BY <1>a, <1>c, <1>e, <2>1, <3>1
      <4>3. \A s \in {RunSite, SpillSite, SwapSite} : owned'[s] = owned[s]
        BY <1>b, <1>c, <1>e, <2>1, <3>1
      <4> QED
        BY <1>0, <2>1, <4>1, <4>2, <4>3 DEF Batches, Spilling
    <3> QED
      BY <3>2, <3>3
  <2> QED
    BY <2>2, <2>3
<1>5. CASE RetireRelease
  <2> DEFINE t == <<"task", Head(tasks).ret>>
  <2>1. /\ Head(tasks).ret \in Rets
        /\ owned' = [owned EXCEPT ![RunSite] = owned[t], ![t] = {}]
        /\ exec'.pc = "uncharge"
        /\ UNCHANGED <<manifests, records, cancelled, mon>>
    BY <1>0, <1>5, QueueTail DEF RetireRelease, offerVars, monVars
  <2>2. \A x \in Rets : owned'[<<"rec", x>>] = owned[<<"rec", x>>]
    BY <1>a, <1>c, <1>e, <2>1
  <2>3. \A x \in Rets : owned'[<<"task", x>>] \in {{}, owned[<<"task", x>>]}
    BY <1>a, <1>c, <1>e, <2>1
  <2>4. owned'[SpillSite] = owned[SpillSite] /\ owned'[SwapSite] = owned[SwapSite]
    BY <1>a, <1>b, <1>c, <1>d, <1>e, <2>1
  <2> QED
    BY <1>0, <2>1, <2>2, <2>3, <2>4 DEF OwnersReachable, Batches
<1>6. ASSUME NEW site \in {RunSite, SpillSite, SwapSite},
             owned' = [owned EXCEPT ![site] = {}],
             UNCHANGED <<manifests, records, cancelled>>,
             exec'.pc # "uncharge" => exec.pc # "uncharge" \/ site = RunSite,
             mon'.pc \notin {"retire", "settle"} => mon.pc \notin {"retire", "settle"} \/ site = SwapSite,
             mon'.pc \notin Spilling => mon.pc \notin Spilling \/ site = SpillSite
      PROVE  OwnersReachable' /\ Batches'
  <2>1. \A x \in Rets : owned'[<<"rec", x>>] = owned[<<"rec", x>>] /\ owned'[<<"task", x>>] = owned[<<"task", x>>]
    BY <1>a, <1>b, <1>c, <1>e, <1>6
  <2>2. \A s \in {RunSite, SpillSite, SwapSite} : owned'[s] = IF s = site THEN {} ELSE owned[s]
    BY <1>b, <1>e, <1>6
  <2> QED
    BY <1>0, <1>6, <2>1, <2>2 DEF OwnersReachable, Batches
<1>7. CASE RetireUncharge
  BY <1>6, <1>7 DEF RetireUncharge, offerVars, monVars
<1>8. ASSUME NEW c \in Callers, NEW keys, Pop(c, keys), UNCHANGED <<exec, mon>>
      PROVE  OwnersReachable' /\ Batches'
  <2> DEFINE dead == {r \in manifests : IdOf[r] \in keys} \cap records
  <2>1. /\ manifests' = manifests \ {r \in manifests : IdOf[r] \in keys}
        /\ records' = records \ dead /\ cancelled' = cancelled \cup dead
    BY <1>8 DEF Pop
  <2>2. /\ \A r \in Rets : owned'[<<"rec", r>>] = IF r \in dead THEN {} ELSE owned[<<"rec", r>>]
        /\ \A r \in Rets : owned'[<<"task", r>>] =
             IF r \in dead THEN owned[<<"rec", r>>] ELSE owned[<<"task", r>>]
        /\ \A s \in {RunSite, SpillSite, SwapSite} : owned'[s] = owned[s]
    BY <1>0, <1>8, ForgetSites
  <2> QED
    BY <1>0, <1>8, <2>1, <2>2 DEF OwnersReachable, Batches
<1>9. ASSUME NEW c \in Callers, NEW keys, Forget(c, keys) PROVE OwnersReachable' /\ Batches'
  BY <1>8, <1>9 DEF Forget, execVars, monVars
<1>10. ASSUME NEW i, CloseForget(i) PROVE OwnersReachable' /\ Batches'
  BY <1>8, <1>10 DEF CloseForget, Callers, execVars, monVars
<1>j. ASSUME NEW c \in Callers, CompletedForget(c) PROVE OwnersReachable' /\ Batches'
  BY <1>8, <1>j DEF CompletedForget, execVars, monVars
<1>11. ASSUME NEW i, NEW a, NEW e, RestoreEvent(i, a, e) PROVE OwnersReachable' /\ Batches'
  BY <1>1, <1>11 DEF RestoreEvent, ledgerVars, execVars, monVars
<1>h. ASSUME NEW c, NEW r, HandOver(c, r) PROVE OwnersReachable' /\ Batches'
  BY <1>1, <1>h DEF HandOver, ledgerVars, monVars
<1>12. CASE MonitorTop \/ MonitorWait \/ MonitorClear \/ MonitorSample
  <2>1. mon.pc \notin Spilling /\ mon'.pc \notin {"retire", "settle"} /\ mon.pc \notin {"retire", "settle"}
    BY <1>0, <1>12 DEF MonitorTop, MonitorWait, MonitorClear, MonitorSample, MonitorGo, Spilling,
                       TypeOK, MonitorTypes
  <2> QED
    BY <1>1, <1>12, <2>1 DEF MonitorTop, MonitorWait, MonitorClear, MonitorSample,
                             offerVars, ledgerVars, execVars
<1>13. CASE MonitorSelect
  <2>1. UNCHANGED <<manifests, records, cancelled, exec>> /\ mon.pc = "select"
    BY <1>13 DEF MonitorSelect, offerVars, execVars
  <2>2. \/ mon'.pc = "top" /\ owned' = owned
        \/ mon'.pc = "window" /\ \E S : owned' = [owned EXCEPT ![SpillSite] = S]
    BY <1>0, <1>13 DEF MonitorSelect, CopyForSpill, ledgerVars, TypeOK, MonitorTypes
  <2>3. CASE mon'.pc = "top" /\ owned' = owned
    BY <1>1, <2>1, <2>3 DEF Spilling
  <2>4. CASE mon'.pc = "window" /\ \E S : owned' = [owned EXCEPT ![SpillSite] = S]
    <3>1. \A x \in Rets : owned'[<<"rec", x>>] = owned[<<"rec", x>>] /\ owned'[<<"task", x>>] = owned[<<"task", x>>]
      BY <1>a, <1>b, <1>c, <1>e, <2>4
    <3>2. owned'[RunSite] = owned[RunSite] /\ owned'[SwapSite] = owned[SwapSite]
      BY <1>b, <1>d, <1>e, <2>4
    <3> QED
      BY <1>0, <2>1, <2>4, <3>1, <3>2 DEF OwnersReachable, Batches, Spilling
  <2> QED
    BY <2>2, <2>3, <2>4
<1>14. CASE SpillWindow \/ SpillBuild \/ SpillSubmit \/ SpillResult
  <2>1. /\ mon.pc \in Spilling /\ mon'.pc \in Spilling
        /\ mon.pc \notin {"retire", "settle"}
    BY <1>0, <1>14 DEF SpillWindow, SpillBuild, SpillSubmit, SpillResult, DropPage, MonitorGo,
                       Spilling, TypeOK, MonitorTypes
  <2> QED
    BY <1>1, <1>14, <2>1 DEF SpillWindow, SpillBuild, SpillSubmit, SpillResult,
                             offerVars, ledgerVars, execVars
<1>15. CASE SpillConfirm
  <2>1. /\ mon.rec \in Rets /\ mon.pc = "confirm" /\ mon'.pc = "retire"
        /\ UNCHANGED <<manifests, records, cancelled, exec>>
    BY <1>0, <1>15 DEF SpillConfirm, MonitorGo, TypeOK, MonitorTypes, Spilling, execVars
  <2> DEFINE s == <<"rec", mon.rec>>
  <2>2. owned' = owned \/ owned' = [owned EXCEPT ![SwapSite] = owned[s], ![s] = {}]
    BY <1>15 DEF SpillConfirm
  <2>3. \A x \in Rets : /\ owned'[<<"rec", x>>] \in {{}, owned[<<"rec", x>>]}
                        /\ owned'[<<"task", x>>] = owned[<<"task", x>>]
    BY <1>a, <1>b, <1>c, <1>e, <2>1, <2>2
  <2>4. owned'[RunSite] = owned[RunSite] /\ owned'[SpillSite] = owned[SpillSite]
    BY <1>a, <1>b, <1>c, <1>d, <1>e, <2>1, <2>2
  <2> QED
    BY <1>0, <2>1, <2>3, <2>4 DEF OwnersReachable, Batches, Spilling
<1>16. CASE \/ MonitorRelease("retire", "settle", SwapSite)
            \/ MonitorRelease("release", "return", SpillSite)
  <2>1. \/ mon.pc = "retire" /\ mon'.pc = "settle"
        \/ mon.pc = "release" /\ mon'.pc = "return"
    BY <1>0, <1>16 DEF MonitorRelease, MonitorGo, TypeOK, MonitorTypes
  <2> QED
    BY <1>1, <1>16, <2>1 DEF MonitorRelease, Spilling, offerVars, ledgerVars, execVars
<1>17. CASE MonitorUncharge("settle", "release", SwapSite)
  <2>1. mon.pc = "settle" /\ mon'.pc = "release"
    BY <1>0, <1>17 DEF MonitorUncharge, TypeOK, MonitorTypes
  <2> QED
    BY <1>6, <1>17, <2>1 DEF MonitorUncharge, Spilling, offerVars, execVars
<1>18. CASE MonitorUncharge("return", "top", SpillSite)
  <2>1. mon.pc = "return" /\ mon'.pc = "top"
    BY <1>0, <1>18 DEF MonitorUncharge, TypeOK, MonitorTypes
  <2> QED
    BY <1>6, <1>18, <2>1 DEF MonitorUncharge, Spilling, offerVars, execVars
<1>19. ASSUME CloseBegin \/ CloseWake \/ CloseJoin \/ CloseShutdown PROVE OwnersReachable' /\ Batches'
  BY <1>1, <1>19 DEF CloseBegin, CloseWake, CloseJoin, CloseShutdown, offerVars, ledgerVars,
                     execVars, monVars
<1>20. ASSUME NEW p, Evict(p) \/ RemoveAlias(p) PROVE OwnersReachable' /\ Batches'
  BY <1>1, <1>20 DEF Evict, RemoveAlias, offerVars, ledgerVars, execVars, monVars
<1>21. CASE ToggleFreeze \/ UNCHANGED vars
  BY <1>1, <1>21 DEF ToggleFreeze, vars, offerVars, ledgerVars, execVars, monVars
<1> QED
  BY <1>j, <1>h, <1>2, <1>3, <1>4, <1>5, <1>7, <1>9, <1>10, <1>11, <1>12, <1>13, <1>14, <1>15, <1>16, <1>17,
     <1>18, <1>19, <1>20, <1>21 DEF Next, CallStep, ExecStep, CloseStep, MonitorStep

\* The records, the sites and the queue agree before anything is published.
LEMMA ShapeInit == Init => Shape
<1> SUFFICES ASSUME Init PROVE Shape
  OBVIOUS
<1>1. \A s \in Sites : owned[s] = {}
  BY DEF Init
<1>2. \A r \in Rets : owned[<<"rec", r>>] = {} /\ owned[<<"task", r>>] = {}
  BY <1>1 DEF Sites
<1>3. owned[RunSite] = {} /\ owned[SpillSite] = {} /\ owned[SwapSite] = {}
  BY <1>1 DEF Sites, RunSite, SpillSite, SwapSite
<1>4. Batches /\ OwnersReachable
  BY <1>2, <1>3 DEF Init, Batches, OwnersReachable
<1>5. PublishOnce
  BY DEF Init, PublishOnce
<1> QED
  BY <1>4, <1>5, TypeInit DEF Shape

\* They agree in every reachable state.
LEMMA ShapeCorrect == Spec => []Shape
<1>1. Shape /\ [Next]_vars => Shape'
  BY TypeStep, OnceStep, ShapeStep DEF Shape
<1> QED
  BY <1>1, ShapeInit, PTL DEF Spec

\* Every record that holds pages can be found by forget and by close, whatever
\* publications, cancellations and spills raced.
THEOREM OwnersAlwaysReachable == Spec => []OwnersReachable
<1>1. Shape => OwnersReachable
  BY DEF Shape
<1> QED
  BY <1>1, ShapeCorrect, PTL

-----------------------------------------------------------------------------
(* The ledger and the budget *)

\* Charging pages adds exactly the bytes of those that were not charged.
LEMMA ChargeBudget ==
  ASSUME TypeOK, LedgerExact, BudgetRespected, NEW S \in SUBSET Pages, Charge(S)
  PROVE  /\ used' = used + Bytes({p \in S : charges[p] = 0})
         /\ used' = Bytes({p \in Pages : charges'[p] > 0})
<1> DEFINE C == {p \in Pages : charges[p] > 0}
           D == {p \in S : charges[p] = 0}
<1>0. \A p \in Pages : charges[p] = Count(owned, p)
  BY DEF LedgerExact, Count
<1>1. charges \in [Pages -> Int] /\ \A p \in Pages : charges[p] >= 0
  <2>1. \A p : Count(owned, p) \in Nat
    BY CountType, Zenon
  <2> QED
    BY <1>0, <2>1 DEF TypeOK, LedgerTypes
<1>2. {p \in Pages : charges'[p] > 0} = C \cup D
  BY <1>1 DEF Charge
<1>3. Bytes(C \cup D) = Bytes(C) + Bytes(D)
  BY BytesAdd
<1> QED
  BY <1>2, <1>3 DEF Charge, BudgetRespected

\* Uncharging charged pages takes back exactly the bytes no other site pays for.
LEMMA UnchargeBudget ==
  ASSUME TypeOK, LedgerExact, BudgetRespected, NEW S \in SUBSET Pages, Uncharge(S),
         \A p \in S : charges[p] > 0
  PROVE  BudgetRespected'
<1> DEFINE C == {p \in Pages : charges'[p] > 0}
           D == {p \in S : charges[p] = 1}
<1>0. \A p \in Pages : charges[p] = Count(owned, p)
  BY DEF LedgerExact, Count
<1>1. charges \in [Pages -> Int] /\ \A p \in Pages : charges[p] >= 0
  <2>1. \A p : Count(owned, p) \in Nat
    BY CountType, Zenon
  <2> QED
    BY <1>0, <2>1 DEF TypeOK, LedgerTypes
<1>2. {p \in Pages : charges[p] > 0} = C \cup D /\ C \cap D = {}
  BY <1>1 DEF Uncharge
<1>3. Bytes(C \cup D) = Bytes(C) + Bytes(D)
  BY <1>2, BytesAdd
<1>4. Bytes(C) \in Nat /\ Bytes(D) \in Nat
  BY BytesType
<1>5. used = Bytes(C) + Bytes(D) /\ used <= Limit /\ used' = used - Bytes(D)
  BY <1>2, <1>3 DEF Uncharge, BudgetRespected
<1>6. Limit \in Nat
  BY ConstantsAssumption
<1> HIDE DEF C, D
<1>7. used' = Bytes(C) /\ used' <= Limit
  BY <1>4, <1>5, <1>6
<1> QED
  BY <1>7 DEF BudgetRespected, C

\* Emptying one site and uncharging its pages keeps ledger and budget.
LEMMA SiteUncharged ==
  ASSUME TypeOK, LedgerExact, BudgetRespected, NEW t \in Sites,
         Uncharge(owned[t]), owned' = [owned EXCEPT ![t] = {}]
  PROVE  LedgerExact' /\ BudgetRespected'
<1>1. owned \in [Sites -> SUBSET Pages] /\ charges \in [Pages -> Int] /\ owned[t] \in SUBSET Pages
  BY DEF TypeOK, LedgerTypes
<1>2. \A p \in Pages : charges[p] = Count(owned, p)
  BY DEF LedgerExact, Count
<1>3. \A p \in owned[t] : charges[p] > 0
  BY <1>1, <1>2, CountType
<1>4. \A p \in Pages : Count(owned', p) = Count(owned, p) - (IF p \in owned[t] THEN 1 ELSE 0)
  BY <1>1, CountClear
<1>5. \A p \in Pages : charges'[p] = Count(owned', p)
  BY <1>2, <1>4 DEF Uncharge
<1>6. LedgerExact'
  BY <1>5 DEF LedgerExact, Count
<1> QED
  BY <1>1, <1>3, <1>6, UnchargeBudget

\* Filling an empty site and charging its pages keeps the ledger.
LEMMA SiteCharged ==
  ASSUME TypeOK, LedgerExact, NEW t \in Sites, owned[t] = {}, NEW S \in SUBSET Pages,
         Charge(S), owned' = [owned EXCEPT ![t] = S]
  PROVE  LedgerExact'
<1>1. owned \in [Sites -> SUBSET Pages]
  BY DEF TypeOK, LedgerTypes
<1>2. \A p \in Pages : charges[p] = Count(owned, p)
  BY DEF LedgerExact, Count
<1>3. \A p \in Pages : Count(owned', p) = Count(owned, p) + (IF p \in S THEN 1 ELSE 0)
  <2>1. owned' \in [Sites -> SUBSET Pages] /\ owned'[t] = S
    BY <1>1
  <2>2. \A s \in Sites : s # t => owned'[s] = owned[s]
    BY <1>1
  <2> QED
    BY <1>1, <2>1, <2>2, CountFill
<1>4. \A p \in Pages : charges'[p] = Count(owned', p)
  BY <1>2, <1>3 DEF Charge
<1> QED
  BY <1>4 DEF LedgerExact, Count

\* Moving pages between sites, with the charges left alone, keeps both.
LEMMA SitesExchanged ==
  ASSUME LedgerExact, BudgetRespected, UNCHANGED <<charges, used>>,
         NEW f \in [Sites -> Sites],
         \A s \in Sites : f[f[s]] = s,
         \A s \in Sites : owned'[s] = owned[f[s]]
  PROVE  LedgerExact' /\ BudgetRespected'
<1>1. \A p : Count(owned', p) = Count(owned, p)
  BY CountExchange
<1>2. \A p \in Pages : charges'[p] = Count(owned', p)
  BY <1>1 DEF LedgerExact, Count
<1> QED
  BY <1>2 DEF LedgerExact, BudgetRespected, Count

\* Moving one site's pages to an empty site keeps both.
LEMMA SiteMoved ==
  ASSUME TypeOK, LedgerExact, BudgetRespected, UNCHANGED <<charges, used>>,
         NEW s \in Sites, NEW t \in Sites, s # t, owned[t] = {},
         owned' = [owned EXCEPT ![t] = owned[s], ![s] = {}]
  PROVE  LedgerExact' /\ BudgetRespected'
<1> DEFINE f == [x \in Sites |-> IF x = s THEN t ELSE IF x = t THEN s ELSE x]
<1>1. owned \in [Sites -> SUBSET Pages]
  BY DEF TypeOK, LedgerTypes
<1>2. f \in [Sites -> Sites] /\ \A x \in Sites : f[f[x]] = x
  OBVIOUS
<1>3. \A x \in Sites : owned'[x] = owned[f[x]]
  BY <1>1
<1> HIDE DEF f
<1> QED
  BY <1>2, <1>3, SitesExchanged

\* forget moves the pages of every popped record to its retire task.
LEMMA ForgetLedger ==
  ASSUME Shape, LedgerExact, BudgetRespected, NEW c \in Callers, NEW keys, Pop(c, keys)
  PROVE  LedgerExact' /\ BudgetRespected'
<1> DEFINE dead == {r \in manifests : IdOf[r] \in keys} \cap records
           f == [s \in Sites |->
                   IF s[1] = "rec" /\ s[2] \in dead THEN <<"task", s[2]>>
                   ELSE IF s[1] = "task" /\ s[2] \in dead THEN <<"rec", s[2]>>
                   ELSE s]
<1>1. dead \subseteq Rets /\ \A r \in dead : owned[<<"task", r>>] = {}
  BY DEF Shape, TypeOK, OfferTypes, PublishOnce, Batches
<1>2. owned' = [s \in Sites |->
                  IF s[1] = "rec" /\ s[2] \in dead THEN {}
                  ELSE IF s[1] = "task" /\ s[2] \in dead THEN owned[<<"rec", s[2]>>]
                  ELSE owned[s]]
  BY DEF Pop
<1>3. UNCHANGED <<charges, used>>
  BY DEF Pop
<1> HIDE DEF dead
<1>4. \A r \in Rets : <<"rec", r>> \in Sites /\ <<"task", r>> \in Sites
  BY DEF Sites
<1>5. f \in [Sites -> Sites]
  BY <1>1, <1>4
<1>6. \A s \in Sites : (s[1] \in {"rec", "task"} => s = <<s[1], s[2]>>)
  BY DEF Sites
<1>7. \A s \in Sites : f[f[s]] = s
  <2> TAKE s \in Sites
  <2>1. CASE s[1] = "rec" /\ s[2] \in dead
    BY <1>1, <1>4, <1>6, <2>1
  <2>2. CASE s[1] = "task" /\ s[2] \in dead
    BY <1>1, <1>4, <1>6, <2>2
  <2> QED
    BY <2>1, <2>2
<1>8. \A s \in Sites : owned'[s] = owned[f[s]]
  BY <1>1, <1>2
<1> HIDE DEF f
<1> QED
  BY <1>3, <1>5, <1>7, <1>8, SitesExchanged

\* Every action keeps ledger and budget.
LEMMA LedgerStep == Shape /\ LedgerExact /\ BudgetRespected /\ [Next]_vars
                    => LedgerExact' /\ BudgetRespected'
<1> SUFFICES ASSUME Shape, LedgerExact, BudgetRespected, [Next]_vars
             PROVE  LedgerExact' /\ BudgetRespected'
  OBVIOUS
<1>0. TypeOK /\ PublishOnce /\ OwnersReachable /\ Batches
  BY DEF Shape
<1>a. \A r \in Rets : <<"rec", r>> \in Sites /\ <<"task", r>> \in Sites
  BY DEF Sites
<1>b. RunSite \in Sites /\ SpillSite \in Sites /\ SwapSite \in Sites
  BY DEF Sites, RunSite, SpillSite, SwapSite
<1>1. ASSUME UNCHANGED <<owned, charges, used>> PROVE LedgerExact' /\ BudgetRespected'
  BY <1>1 DEF LedgerExact, BudgetRespected
<1>2. ASSUME NEW r \in Rets, Seal(r) \/ PollRelease(r) \/ BackoffExpires(r)
      PROVE  LedgerExact' /\ BudgetRespected'
  BY <1>1, <1>2 DEF Seal, PollRelease, BackoffExpires, ledgerVars
<1>3. CASE PublishStart \/ PublishAcquire \/ PublishFinish
  BY <1>1, <1>3 DEF PublishStart, PublishAcquire, PublishFinish, ledgerVars
<1>4. CASE PublishCommit
  <2> DEFINE r == exec.ret
             t == <<"rec", r>>
  <2>1. r \in Rets /\ r \notin records
    BY <1>0, <1>4 DEF PublishCommit, TypeOK, ExecTypes, PublishOnce
  <2>2. \/ UNCHANGED <<owned, charges, used>>
        \/ RetentionFits(r) /\ Charge(held) /\ owned' = [owned EXCEPT ![t] = held]
    BY <1>4 DEF PublishCommit
  <2>3. CASE UNCHANGED <<owned, charges, used>>
    BY <1>1, <2>3
  <2>4. CASE RetentionFits(r) /\ Charge(held) /\ owned' = [owned EXCEPT ![t] = held]
    <3>1. held \in SUBSET Pages /\ owned[t] = {} /\ t \in Sites
      BY <1>0, <1>a, <2>1 DEF TypeOK, PageTypes, OwnersReachable
    <3>2. LedgerExact'
      BY <1>0, <2>4, <3>1, SiteCharged
    <3>3. /\ used' = used + Bytes({p \in held : charges[p] = 0})
          /\ used' = Bytes({p \in Pages : charges'[p] > 0})
      BY <1>0, <2>4, <3>1, ChargeBudget
    <3> QED
      BY <2>4, <3>2, <3>3 DEF RetentionFits, BudgetRespected
  <2> QED
    BY <2>2, <2>3, <2>4
<1>5. CASE RetireRelease
  <2> DEFINE s == <<"task", Head(tasks).ret>>
  <2>1. /\ Head(tasks).ret \in Rets
        /\ owned' = [owned EXCEPT ![RunSite] = owned[s], ![s] = {}]
        /\ UNCHANGED <<charges, used>>
        /\ owned[RunSite] = {}
    BY <1>0, <1>5, QueueTail DEF RetireRelease, Batches
  <2>2. s \in Sites /\ s # RunSite
    BY <1>a, <2>1 DEF RunSite
  <2> QED
    BY <1>0, <1>b, <2>1, <2>2, SiteMoved
<1>6. CASE RetireUncharge
  BY <1>0, <1>6, <1>b, SiteUncharged DEF RetireUncharge
<1>7. ASSUME NEW c \in Callers, NEW keys, Forget(c, keys) PROVE LedgerExact' /\ BudgetRespected'
  BY <1>7, ForgetLedger DEF Forget
<1>8. ASSUME NEW i, CloseForget(i) PROVE LedgerExact' /\ BudgetRespected'
  BY <1>8, ForgetLedger DEF CloseForget, Callers
<1>j. ASSUME NEW c \in Callers, CompletedForget(c) PROVE LedgerExact' /\ BudgetRespected'
  BY <1>j, ForgetLedger DEF CompletedForget
<1>9. ASSUME NEW i, NEW a, NEW e, RestoreEvent(i, a, e) PROVE LedgerExact' /\ BudgetRespected'
  BY <1>1, <1>9 DEF RestoreEvent, ledgerVars
<1>h. ASSUME NEW c, NEW r, HandOver(c, r) PROVE LedgerExact' /\ BudgetRespected'
  BY <1>1, <1>h DEF HandOver, ledgerVars
<1>10. CASE MonitorTop \/ MonitorWait \/ MonitorClear \/ MonitorSample
  BY <1>1, <1>10 DEF MonitorTop, MonitorWait, MonitorClear, MonitorSample, ledgerVars
<1>11. CASE MonitorSelect
  <2>1. \/ UNCHANGED <<owned, charges, used>>
        \/ \E r \in records : CopyForSpill(owned[<<"rec", r>>])
    BY <1>11 DEF MonitorSelect, Eligible, ledgerVars
  <2>2. ASSUME NEW r \in records, CopyForSpill(owned[<<"rec", r>>])
        PROVE  LedgerExact' /\ BudgetRespected'
    <3> DEFINE S == owned[<<"rec", r>>]
    <3>1. <<"rec", r>> \in Sites /\ S \in SUBSET Pages
      BY <1>0, <1>a DEF TypeOK, LedgerTypes, OfferTypes
    <3>2. owned[SpillSite] = {}
      BY <1>0, <1>11 DEF MonitorSelect, Batches, Spilling
    <3>3. Charge(S) /\ owned' = [owned EXCEPT ![SpillSite] = S]
      BY <2>2 DEF CopyForSpill
    <3>4. \A p \in S : charges[p] # 0
      <4>1. \A p \in Pages : charges[p] = Count(owned, p)
        BY DEF LedgerExact, Count
      <4>2. \A p, s : s \in Sites /\ p \in owned[s] => Count(owned, p) > 0
        BY CountType, Zenon
      <4> QED
        BY <3>1, <4>1, <4>2
    <3> HIDE DEF S
    <3>5. LedgerExact'
      BY <1>0, <1>b, <3>1, <3>2, <3>3, SiteCharged
    <3>6. /\ used' = used + Bytes({p \in S : charges[p] = 0})
          /\ used' = Bytes({p \in Pages : charges'[p] > 0})
      BY <1>0, <3>1, <3>3, ChargeBudget
    <3>7. Bytes({p \in S : charges[p] = 0}) = 0
      BY <3>1, <3>4, BytesType
    <3>8. used \in Int
      BY <1>0 DEF TypeOK, LedgerTypes
    <3> QED
      BY <3>5, <3>6, <3>7, <3>8 DEF BudgetRespected
  <2> QED
    BY <1>1, <2>1, <2>2
<1>12. CASE SpillWindow \/ SpillBuild \/ SpillSubmit \/ SpillResult
  BY <1>1, <1>12 DEF SpillWindow, SpillBuild, SpillSubmit, SpillResult, ledgerVars
<1>13. CASE SpillConfirm
  <2> DEFINE s == <<"rec", mon.rec>>
  <2>1. mon.rec \in Rets /\ owned[SwapSite] = {} /\ UNCHANGED <<charges, used>>
    BY <1>0, <1>13 DEF SpillConfirm, TypeOK, MonitorTypes, Batches, Spilling
  <2>2. s \in Sites /\ s # SwapSite
    BY <1>a, <2>1 DEF SwapSite
  <2>3. owned' = owned \/ owned' = [owned EXCEPT ![SwapSite] = owned[s], ![s] = {}]
    BY <1>13 DEF SpillConfirm
  <2> QED
    BY <1>0, <1>1, <1>b, <2>1, <2>2, <2>3, SiteMoved
<1>14. ASSUME NEW x, NEW y, NEW z, MonitorRelease(x, y, z) PROVE LedgerExact' /\ BudgetRespected'
  BY <1>1, <1>14 DEF MonitorRelease, ledgerVars
<1>15. ASSUME NEW x, NEW y, NEW z \in Sites, MonitorUncharge(x, y, z)
       PROVE  LedgerExact' /\ BudgetRespected'
  BY <1>0, <1>15, SiteUncharged DEF MonitorUncharge
<1>16. CASE CloseBegin \/ CloseWake \/ CloseJoin \/ CloseShutdown
  BY <1>1, <1>16 DEF CloseBegin, CloseWake, CloseJoin, CloseShutdown, ledgerVars
<1>17. ASSUME NEW p, Evict(p) \/ RemoveAlias(p) PROVE LedgerExact' /\ BudgetRespected'
  BY <1>1, <1>17 DEF Evict, RemoveAlias, ledgerVars
<1>18. CASE ToggleFreeze \/ UNCHANGED vars
  BY <1>1, <1>18 DEF ToggleFreeze, vars, ledgerVars
<1> QED
  BY <1>j, <1>h, <1>2, <1>3, <1>4, <1>5, <1>6, <1>7, <1>8, <1>9, <1>10, <1>11, <1>12, <1>13, <1>14, <1>15,
     <1>16, <1>17, <1>18, <1>b DEF Next, CallStep, ExecStep, CloseStep, MonitorStep

\* The budget is respected, and every charge on a page is accounted for by a
\* place that holds it, with any number of publications, forgets and spills.
THEOREM LedgerCorrect == Spec => [](LedgerExact /\ BudgetRespected)
<1>1. Init => LedgerExact /\ BudgetRespected
  <2> SUFFICES ASSUME Init PROVE LedgerExact /\ BudgetRespected
    OBVIOUS
  <2>1. \A p \in Pages : {s \in Sites : p \in owned[s]} = {}
    BY DEF Init
  <2>2. LedgerExact
    BY <2>1, FS_EmptySet DEF Init, LedgerExact
  <2>3. {p \in Pages : charges[p] > 0} = {} /\ used = 0
    BY DEF Init
  <2>4. used = Bytes({p \in Pages : charges[p] > 0})
    BY <2>3, BytesType
  <2> QED
    BY <2>2, <2>3, <2>4, ConstantsAssumption DEF BudgetRespected
<1> DEFINE Inv == LedgerExact /\ BudgetRespected
<1>2. Shape /\ Inv /\ [Next]_vars => Inv'
  BY LedgerStep
<1>3. Init => Inv
  BY <1>1
<1> HIDE DEF Inv
<1>4. Spec => []Inv
  BY <1>2, <1>3, ShapeCorrect, PTL DEF Spec
<1> QED
  BY <1>4, PTL DEF Inv

\* The bytes retention holds never exceed decode_checkpoint_retention_max_bytes,
\* and are the size of the charged pages, each counted once.
THEOREM BudgetNeverExceeded == Spec => []BudgetRespected
  BY LedgerCorrect, PTL

-----------------------------------------------------------------------------
(* Protection ends only with a complete remote copy *)

\* What a spill has achieved when it counts pos windows as written.
SpillProgress ==
  /\ mon.pc \notin Spilling => mon.pos = 0
  /\ mon.pc \in Spilling => \A k \in Windows :
       /\ k <= mon.pos => Source[mon.rec][0][k] \in stored
       /\ k + W <= mon.pos => Source[mon.rec][1][k] \in stored

Durable == SpillProgress /\ ReleasedOnlyWhenDurable

\* One acknowledged PUT is one window of progress.
LEMMA ProgressStep ==
  ASSUME Shape, SpillProgress, mon.pc = "flight", stored' = stored \cup {SpillSource},
         mon'.pc = "window", mon'.rec = mon.rec, mon'.pos = mon.pos + 1
  PROVE  SpillProgress'
<1>1. mon.pos \in Nat /\ mon.pos < 2 * W /\ W \in Nat
  BY ConstantsAssumption DEF Shape, TypeOK, MonitorTypes
<1> SUFFICES ASSUME NEW k \in Windows
             PROVE  /\ k <= mon.pos + 1 => Source[mon.rec][0][k] \in stored'
                    /\ k + W <= mon.pos + 1 => Source[mon.rec][1][k] \in stored'
  BY DEF SpillProgress, Spilling
<1>2. k \in Nat /\ k >= 1 /\ k <= W
  BY <1>1 DEF Windows
<1>3. /\ k <= mon.pos => Source[mon.rec][0][k] \in stored
      /\ k + W <= mon.pos => Source[mon.rec][1][k] \in stored
  BY DEF SpillProgress, Spilling
<1>4. k = mon.pos + 1 => Source[mon.rec][0][k] = SpillSource
  BY <1>1, <1>2 DEF SpillSource
<1>5. k + W = mon.pos + 1 => Source[mon.rec][1][k] = SpillSource
  <2> SUFFICES ASSUME k + W = mon.pos + 1 PROVE Source[mon.rec][1][k] = SpillSource
    OBVIOUS
  <2>1. ~(mon.pos < W) /\ mon.pos - W + 1 = k
    BY <1>1, <1>2
  <2> QED
    BY <2>1 DEF SpillSource
<1> QED
  BY <1>1, <1>2, <1>3, <1>4, <1>5

\* A spill that counted all windows has stored every page of the checkpoint.
LEMMA AllWindowsStored ==
  ASSUME Shape, SpillProgress, mon.pc \in Spilling, mon.pos = 2 * W
  PROVE  PagesOf(mon.rec) \subseteq stored
<1>1. W \in Nat
  BY ConstantsAssumption
<1>2. \A k \in Windows : k <= 2 * W /\ k + W <= 2 * W
  BY <1>1 DEF Windows
<1>3. \A k \in Windows : Source[mon.rec][0][k] \in stored /\ Source[mon.rec][1][k] \in stored
  BY <1>2 DEF SpillProgress
<1> QED
  BY <1>3 DEF PagesOf, Groups

\* Every action keeps the spill's progress.
LEMMA ProgressKept == Shape /\ SpillProgress /\ [Next]_vars => SpillProgress'
<1> SUFFICES ASSUME Shape, SpillProgress, [Next]_vars
             PROVE  SpillProgress'
  OBVIOUS
<1>0. TypeOK
  BY DEF Shape
<1>1. ASSUME UNCHANGED <<mon, stored>> PROVE SpillProgress'
  BY <1>1 DEF SpillProgress
<1>c. mon.pos \in Nat /\ mon.pos + 0 = mon.pos
  BY <1>0, ConstantsAssumption DEF TypeOK, MonitorTypes
\* The monitor moves on without writing anything.
<1>2. ASSUME mon.pc \in Spilling <=> mon'.pc \in Spilling,
             mon'.pos = mon.pos, mon'.rec = mon.rec, stored \subseteq stored'
      PROVE  SpillProgress'
  BY <1>2 DEF SpillProgress
<1>3. ASSUME NEW r \in Rets, Seal(r) \/ PollRelease(r) \/ BackoffExpires(r) PROVE SpillProgress'
  BY <1>1, <1>3 DEF Seal, PollRelease, BackoffExpires, monVars
<1>4. CASE PublishStart \/ PublishAcquire \/ PublishFinish \/ RetireRelease \/ RetireUncharge
  BY <1>1, <1>4 DEF PublishStart, PublishAcquire, PublishFinish, RetireRelease, RetireUncharge, monVars
<1>5. CASE PublishCommit
  <2>1. /\ mon' = mon \/ mon' = [mon EXCEPT !.pc = IF @ = "none" THEN "top" ELSE @]
        /\ stored' = stored
    BY <1>5 DEF PublishCommit
  <2>2. /\ mon.pc \in Spilling <=> mon'.pc \in Spilling
        /\ mon'.pos = mon.pos /\ mon'.rec = mon.rec
    BY <1>0, <2>1 DEF TypeOK, MonitorTypes, Spilling
  <2> QED
    BY <1>2, <2>1, <2>2
<1>6. ASSUME NEW c \in Callers, NEW keys, Forget(c, keys) PROVE SpillProgress'
  BY <1>1, <1>6 DEF Forget, execVars, monVars
<1>7. ASSUME NEW i, CloseForget(i) PROVE SpillProgress'
  BY <1>1, <1>7 DEF CloseForget, Callers, execVars, monVars
<1>j. ASSUME NEW c \in Callers, CompletedForget(c) PROVE SpillProgress'
  BY <1>1, <1>j DEF CompletedForget, execVars, monVars
<1>8. ASSUME NEW i, NEW a, NEW e, RestoreEvent(i, a, e) PROVE SpillProgress'
  BY <1>1, <1>8 DEF RestoreEvent, monVars
<1>h. ASSUME NEW c, NEW r, HandOver(c, r) PROVE SpillProgress'
  BY <1>1, <1>h DEF HandOver, monVars
<1>9. CASE MonitorTop \/ MonitorWait \/ MonitorClear \/ MonitorSample
  <2>1. /\ mon.pc \notin Spilling /\ mon'.pc \notin Spilling
        /\ mon'.pos = mon.pos /\ mon'.rec = mon.rec
        /\ stored' = stored
    BY <1>0, <1>9, ZenonT(40) DEF MonitorTop, MonitorWait, MonitorClear, MonitorSample, MonitorGo,
       Spilling, TypeOK, MonitorTypes
  <2> QED
    BY <1>2, <2>1
<1>10. CASE MonitorSelect
  <2>1. mon.pc \notin Spilling /\ mon'.pos = mon.pos
    BY <1>0, <1>10 DEF MonitorSelect, Spilling, TypeOK, MonitorTypes
  <2>2. mon'.pos = 0
    BY <2>1 DEF SpillProgress
  <2>3. \A k \in Windows : ~(k <= 0) /\ ~(k + W <= 0)
    BY ConstantsAssumption DEF Windows
  <2> QED
    BY <2>2, <2>3 DEF SpillProgress
<1>11. CASE SpillWindow \/ SpillBuild \/ SpillSubmit
  <2>1. /\ mon.pc \in Spilling /\ mon'.pc \in Spilling
        /\ mon'.pos = mon.pos /\ mon'.rec = mon.rec
        /\ stored' = stored
    <3>1. CASE SpillWindow \/ SpillBuild
      BY <1>0, <3>1 DEF SpillWindow, SpillBuild, MonitorGo, Spilling, TypeOK, MonitorTypes
    <3>2. CASE SpillSubmit
      BY <1>0, <1>c, <3>2 DEF SpillSubmit, DropPage, MonitorGo, Spilling, TypeOK, MonitorTypes
    <3> QED
      BY <1>11, <3>1, <3>2
  <2> QED
    BY <1>2, <2>1
<1>12. CASE SpillResult
  <2>1. mon.pc = "flight"
    BY <1>12 DEF SpillResult
  <2>2. CASE DropPage("window", 1) /\ stored' = stored \cup {SpillSource}
    <3>1. mon'.pc = "window" /\ mon'.rec = mon.rec /\ mon'.pos = mon.pos + 1
      BY <1>0, <2>2 DEF DropPage, TypeOK, MonitorTypes
    <3> QED
      BY <2>1, <2>2, <3>1, ProgressStep
  <2>3. CASE (DropPage("release", 0) \/ MonitorGo("quarantined")) /\ stored' = stored
    <3>1. /\ mon.pc \in Spilling /\ mon'.pc \in Spilling
          /\ mon'.pos = mon.pos /\ mon'.rec = mon.rec
      BY <1>0, <1>c, <2>1, <2>3 DEF DropPage, MonitorGo, TypeOK, MonitorTypes, Spilling
    <3> QED
      BY <1>2, <2>3, <3>1
  <2> QED
    BY <1>12, <2>2, <2>3 DEF SpillResult
<1>13. CASE SpillConfirm
  <2>1. /\ mon.pc \in Spilling /\ mon'.pc \in Spilling
        /\ mon'.pos = mon.pos /\ mon'.rec = mon.rec
        /\ stored' = stored
    BY <1>0, <1>13 DEF SpillConfirm, MonitorGo, Spilling, TypeOK, MonitorTypes
  <2> QED
    BY <1>2, <2>1
<1>14. CASE \/ MonitorRelease("retire", "settle", SwapSite)
            \/ MonitorRelease("release", "return", SpillSite)
            \/ MonitorUncharge("settle", "release", SwapSite)
  <2>1. /\ mon.pc \in Spilling /\ mon'.pc \in Spilling
        /\ mon'.pos = mon.pos /\ mon'.rec = mon.rec
        /\ stored' = stored
    BY <1>0, <1>14 DEF MonitorRelease, MonitorUncharge, MonitorGo, Spilling, TypeOK, MonitorTypes
  <2> QED
    BY <1>2, <2>1
<1>15. CASE MonitorUncharge("return", "top", SpillSite)
  <2>1. mon'.pc = "top" /\ mon'.pos = 0
    BY <1>0, <1>15 DEF MonitorUncharge, TypeOK, MonitorTypes
  <2> QED
    BY <2>1 DEF SpillProgress, Spilling
<1>16. CASE CloseBegin \/ CloseWake \/ CloseJoin \/ CloseShutdown
  BY <1>1, <1>16 DEF CloseBegin, CloseWake, CloseJoin, CloseShutdown, monVars
<1>17. ASSUME NEW p, Evict(p) \/ RemoveAlias(p) PROVE SpillProgress'
  BY <1>1, <1>17 DEF Evict, RemoveAlias, monVars
<1>18. CASE ToggleFreeze \/ UNCHANGED vars
  BY <1>1, <1>18 DEF ToggleFreeze, vars, monVars
<1> QED
  BY <1>j, <1>h, <1>3, <1>4, <1>5, <1>6, <1>7, <1>8, <1>9, <1>10, <1>11, <1>12, <1>13, <1>14, <1>15, <1>16,
     <1>17, <1>18 DEF Next, CallStep, ExecStep, CloseStep, MonitorStep

\* No action takes the local owners of a record whose remote copy is incomplete.
LEMMA DurableKept ==
  Shape /\ SpillProgress /\ ReleasedOnlyWhenDurable /\ [Next]_vars => ReleasedOnlyWhenDurable'
<1> SUFFICES ASSUME Shape, SpillProgress, ReleasedOnlyWhenDurable, [Next]_vars
             PROVE  ReleasedOnlyWhenDurable'
  OBVIOUS
<1>0. TypeOK
  BY DEF Shape
<1>a. \A r \in Rets : /\ <<"rec", r>> \in Sites
                      /\ <<"rec", r>> \notin {RunSite, SpillSite, SwapSite}
                      /\ \A q \in Rets : /\ <<"rec", r>> # <<"task", q>>
                                         /\ <<"rec", r>> = <<"rec", q>> => r = q
  BY DEF Sites, RunSite, SpillSite, SwapSite
<1>b. owned \in [Sites -> SUBSET Pages] /\ records \subseteq Rets
  BY <1>0 DEF TypeOK, LedgerTypes, OfferTypes
\* Steps that keep every record's own pages.
<1>1. ASSUME records' \subseteq records, remote \subseteq remote', stored \subseteq stored',
             \A r \in records' : owned'[<<"rec", r>>] = owned[<<"rec", r>>]
      PROVE  ReleasedOnlyWhenDurable'
  BY <1>1 DEF ReleasedOnlyWhenDurable
<1>2. ASSUME UNCHANGED <<records, remote, owned>>, stored \subseteq stored'
      PROVE  ReleasedOnlyWhenDurable'
  BY <1>1, <1>2
<1>3. ASSUME NEW r \in Rets, Seal(r) \/ PollRelease(r) \/ BackoffExpires(r)
      PROVE  ReleasedOnlyWhenDurable'
  BY <1>2, <1>3 DEF Seal, PollRelease, BackoffExpires, monVars, ledgerVars, offerVars
<1>4. CASE PublishStart \/ PublishAcquire \/ PublishFinish
  BY <1>2, <1>4 DEF PublishStart, PublishAcquire, PublishFinish, monVars, ledgerVars, offerVars
<1>5. CASE PublishCommit
  <2> DEFINE r == exec.ret
  <2>1. r \in Rets /\ UNCHANGED <<remote, stored>>
    BY <1>0, <1>5 DEF PublishCommit, TypeOK, ExecTypes
  <2>2. \/ records' = records /\ owned' = owned
        \/ /\ records' \subseteq records \cup {r} /\ held = PagesOf(r)
           /\ owned' = [owned EXCEPT ![<<"rec", r>>] = held]
    BY <1>5 DEF PublishCommit, RetentionFits
  <2>3. PagesOf(r) # {}
    <3>1. 1 \in Windows /\ 0 \in Groups
      BY ConstantsAssumption DEF Windows, Groups
    <3>2. Source[r][0][1] \in PagesOf(r)
      BY <3>1 DEF PagesOf
    <3> QED
      BY <3>2
  <2>4. CASE records' = records /\ owned' = owned
    BY <1>2, <2>1, <2>4
  <2>5. CASE /\ records' \subseteq records \cup {r} /\ held = PagesOf(r)
             /\ owned' = [owned EXCEPT ![<<"rec", r>>] = held]
    <3>1. owned'[<<"rec", r>>] # {}
      BY <1>a, <1>b, <2>1, <2>3, <2>5
    <3>2. \A q \in records : q # r => owned'[<<"rec", q>>] = owned[<<"rec", q>>]
      BY <1>a, <1>b, <2>1, <2>5
    <3> QED
      BY <2>1, <2>5, <3>1, <3>2 DEF ReleasedOnlyWhenDurable
  <2> QED
    BY <2>2, <2>4, <2>5
<1>6. CASE RetireRelease
  <2>1. /\ Head(tasks).ret \in Rets /\ UNCHANGED <<records, remote, stored>>
        /\ owned' = [owned EXCEPT ![RunSite] = owned[<<"task", Head(tasks).ret>>],
                                  ![<<"task", Head(tasks).ret>>] = {}]
    BY <1>0, <1>6, QueueTail DEF RetireRelease, offerVars, monVars
  <2>2. \A r \in records : owned'[<<"rec", r>>] = owned[<<"rec", r>>]
    BY <1>a, <1>b, <2>1
  <2> QED
    BY <1>1, <2>1, <2>2
<1>7. ASSUME NEW s \in {RunSite, SpillSite, SwapSite}, NEW S, owned' = [owned EXCEPT ![s] = S],
             UNCHANGED <<records, remote, stored>>
      PROVE  ReleasedOnlyWhenDurable'
  <2>1. \A r \in records : owned'[<<"rec", r>>] = owned[<<"rec", r>>]
    BY <1>a, <1>b, <1>7
  <2> QED
    BY <1>1, <1>7, <2>1
<1>8. CASE RetireUncharge
  BY <1>7, <1>8 DEF RetireUncharge, offerVars, monVars
<1>9. ASSUME NEW c \in Callers, NEW keys, Pop(c, keys), stored' = stored PROVE ReleasedOnlyWhenDurable'
  <2> DEFINE dead == {r \in manifests : IdOf[r] \in keys} \cap records
  <2>1. records' = records \ dead /\ remote' = remote
    BY <1>9 DEF Pop
  <2>2. \A r \in Rets : owned'[<<"rec", r>>] = IF r \in dead THEN {} ELSE owned[<<"rec", r>>]
    BY <1>0, <1>9, ForgetSites
  <2>3. \A r \in records' : owned'[<<"rec", r>>] = owned[<<"rec", r>>]
    BY <1>b, <2>1, <2>2
  <2> QED
    BY <1>1, <1>9, <2>1, <2>3
<1>10. ASSUME NEW c \in Callers, NEW keys, Forget(c, keys) PROVE ReleasedOnlyWhenDurable'
  BY <1>9, <1>10 DEF Forget, execVars, monVars
<1>11. ASSUME NEW i, CloseForget(i) PROVE ReleasedOnlyWhenDurable'
  BY <1>9, <1>11 DEF CloseForget, Callers, execVars, monVars
<1>j. ASSUME NEW c \in Callers, CompletedForget(c) PROVE ReleasedOnlyWhenDurable'
  BY <1>9, <1>j DEF CompletedForget, execVars, monVars
<1>12. ASSUME NEW i, NEW a, NEW e, RestoreEvent(i, a, e) PROVE ReleasedOnlyWhenDurable'
  BY <1>2, <1>12 DEF RestoreEvent, monVars, ledgerVars
<1>h. ASSUME NEW c, NEW r, HandOver(c, r) PROVE ReleasedOnlyWhenDurable'
  BY <1>2, <1>h DEF HandOver, monVars, ledgerVars
<1>13. CASE MonitorTop \/ MonitorWait \/ MonitorClear \/ MonitorSample
  BY <1>2, <1>13 DEF MonitorTop, MonitorWait, MonitorClear, MonitorSample, offerVars, ledgerVars
<1>14. CASE MonitorSelect
  <2>1. UNCHANGED <<records, remote, stored>>
    BY <1>14 DEF MonitorSelect, offerVars
  <2>2. owned' = owned \/ \E S : owned' = [owned EXCEPT ![SpillSite] = S]
    BY <1>14 DEF MonitorSelect, CopyForSpill, ledgerVars
  <2> QED
    BY <1>2, <1>7, <2>1, <2>2
<1>15. CASE SpillWindow \/ SpillBuild \/ SpillSubmit \/ SpillResult
  BY <1>2, <1>15 DEF SpillWindow, SpillBuild, SpillSubmit, SpillResult, offerVars, ledgerVars
<1>16. CASE SpillConfirm
  <2>1. /\ mon.pc = "confirm" /\ mon.rec \in Rets
        /\ UNCHANGED <<records, stored>>
    BY <1>0, <1>16 DEF SpillConfirm, TypeOK, MonitorTypes, Spilling
  <2>2. CASE ~Persisted
    BY <1>2, <1>16, <2>1, <2>2 DEF SpillConfirm
  <2>3. CASE Persisted
    <3>1. /\ remote' = remote \cup {mon.rec}
          /\ owned' = [owned EXCEPT ![SwapSite] = owned[<<"rec", mon.rec>>],
                                    ![<<"rec", mon.rec>>] = {}]
      BY <1>16, <2>3 DEF SpillConfirm
    <3>2. PagesOf(mon.rec) \subseteq stored
      BY <2>1, <2>3, AllWindowsStored DEF Persisted, Spilling
    <3>3. \A q \in records : q # mon.rec => owned'[<<"rec", q>>] = owned[<<"rec", q>>]
      BY <1>a, <1>b, <2>1, <3>1
    <3> QED
      BY <2>1, <3>1, <3>2, <3>3 DEF ReleasedOnlyWhenDurable
  <2> QED
    BY <2>2, <2>3
<1>17. ASSUME NEW x, NEW y, NEW z, MonitorRelease(x, y, z) PROVE ReleasedOnlyWhenDurable'
  BY <1>2, <1>17 DEF MonitorRelease, offerVars, ledgerVars
<1>18. ASSUME NEW x, NEW y, NEW z \in {RunSite, SpillSite, SwapSite}, MonitorUncharge(x, y, z)
       PROVE  ReleasedOnlyWhenDurable'
  BY <1>7, <1>18 DEF MonitorUncharge, offerVars
<1>19. CASE CloseBegin \/ CloseWake \/ CloseJoin \/ CloseShutdown
  BY <1>2, <1>19 DEF CloseBegin, CloseWake, CloseJoin, CloseShutdown, monVars, offerVars, ledgerVars
<1>20. ASSUME NEW p, Evict(p) \/ RemoveAlias(p) PROVE ReleasedOnlyWhenDurable'
  BY <1>2, <1>20 DEF Evict, RemoveAlias, monVars, offerVars, ledgerVars
<1>21. CASE ToggleFreeze \/ UNCHANGED vars
  BY <1>2, <1>21 DEF ToggleFreeze, vars, monVars, offerVars, ledgerVars
<1> QED
  BY <1>j, <1>h, <1>3, <1>4, <1>5, <1>6, <1>8, <1>10, <1>11, <1>12, <1>13, <1>14, <1>15, <1>16, <1>17, <1>18,
     <1>19, <1>20, <1>21 DEF Next, CallStep, ExecStep, CloseStep, MonitorStep

\* No spill has started and nothing is released at first.
LEMMA DurableInit == Init => Durable
BY DEF Init, Durable, SpillProgress, ReleasedOnlyWhenDurable, Spilling

\* A waiting checkpoint gives up its local pages only after every window of both
\* groups was acknowledged by Mooncake.
THEOREM DurableBeforeRelease == Spec => []ReleasedOnlyWhenDurable
<1>1. Shape /\ Durable /\ [Next]_vars => Durable'
  BY ProgressKept, DurableKept DEF Durable
<1>2. Durable => ReleasedOnlyWhenDurable
  BY DEF Durable
<1> QED
  BY <1>1, <1>2, DurableInit, ShapeCorrect, PTL DEF Spec

-----------------------------------------------------------------------------
(* The store implements CheckpointLifecycle *)

\* A visible manifest is one whose publication got through publish(); only
\* published records are spilled or have a remote copy.
OfferOnce ==
  /\ \A r \in manifests : jobs[r] \in {"done", "gone"} \/ (exec.pc = "finish" /\ exec.ret = r)
  /\ remote \subseteq records \cup cancelled
  /\ mon.pc \in Spilling => mon.rec \in records \cup cancelled

\* Every action keeps OfferOnce.
LEMMA OfferOnceStep == Shape /\ OfferOnce /\ [Next]_vars => OfferOnce'
<1> SUFFICES ASSUME Shape, OfferOnce, [Next]_vars
             PROVE  OfferOnce'
  OBVIOUS
<1>0. TypeOK /\ PublishOnce /\ OwnersReachable
  BY DEF Shape
<1>a. manifests \subseteq Rets /\ jobs \in [Rets -> {"new", "sealed", "running", "done", "gone"}]
  BY <1>0 DEF TypeOK, OfferTypes, PageTypes
\* Steps that leave the offers and both threads' places alone.
<1>1. ASSUME UNCHANGED <<manifests, records, remote, cancelled, exec, mon>>,
             \A r \in Rets : jobs[r] \in {"done", "gone"} => jobs'[r] \in {"done", "gone"}
      PROVE  OfferOnce'
  BY <1>1, <1>a DEF OfferOnce
<1>2. ASSUME NEW r \in Rets, Seal(r) PROVE OfferOnce'
  BY <1>1, <1>2, <1>a DEF Seal, offerVars, monVars
<1>3. ASSUME NEW r \in Rets, PollRelease(r) PROVE OfferOnce'
  BY <1>1, <1>3, <1>a DEF PollRelease, offerVars, execVars, monVars
<1>4. ASSUME NEW r \in Rets, BackoffExpires(r) PROVE OfferOnce'
  BY <1>1, <1>4 DEF BackoffExpires, pageVars, execVars, monVars
<1>5. CASE PublishStart
  <2>1. /\ Head(tasks).ret \in Rets /\ exec.pc = "idle"
        /\ \A q \in Rets : jobs[q] \in {"done", "gone"} => jobs'[q] \in {"done", "gone"}
    <3>1. Len(tasks) \in Nat \ {0} /\ Head(tasks) = tasks[1] /\ Head(tasks).ret \in Rets
      BY <1>0, <1>5, QueueTail DEF PublishStart
    <3>2. jobs[Head(tasks).ret] = "sealed"
      BY <1>0, <1>5, <3>1 DEF PublishOnce, PublishStart
    <3> QED
      BY <1>5, <1>a, <3>1, <3>2 DEF PublishStart
  <2>2. UNCHANGED <<manifests, records, remote, cancelled, mon>>
    BY <1>5 DEF PublishStart, offerVars, monVars
  <2> QED
    BY <1>a, <2>1, <2>2 DEF OfferOnce
<1>6. CASE PublishAcquire
  <2>1. exec.pc = "acquire" /\ UNCHANGED <<manifests, records, remote, cancelled, mon, jobs>>
    BY <1>6 DEF PublishAcquire, offerVars, monVars
  <2> QED
    BY <2>1 DEF OfferOnce
<1>7. CASE PublishCommit
  <2>1. /\ exec.pc = "commit" /\ exec'.pc = "finish" /\ exec'.ret = exec.ret /\ exec.ret \in Rets
        /\ UNCHANGED <<remote, cancelled, jobs>>
        /\ manifests' \subseteq manifests \cup {exec.ret}
    BY <1>0, <1>7 DEF PublishCommit, TypeOK, ExecTypes
  <2>2. records \subseteq records'
    BY <1>7 DEF PublishCommit, Refused
  <2>3. mon'.pc \in Spilling => mon.pc \in Spilling /\ mon'.rec = mon.rec
    BY <1>0, <1>7 DEF PublishCommit, TypeOK, MonitorTypes, Spilling
  <2> QED
    BY <2>1, <2>2, <2>3 DEF OfferOnce
<1>8. CASE PublishFinish
  <2>1. /\ exec.pc = "finish" /\ exec.ret \in Rets
        /\ UNCHANGED <<manifests, records, remote, cancelled, mon>>
        /\ jobs' = [jobs EXCEPT ![exec.ret] = "done"]
    BY <1>0, <1>8 DEF PublishFinish, TypeOK, ExecTypes, offerVars, monVars
  <2>2. \A q \in manifests : jobs'[q] \in {"done", "gone"}
    BY <1>a, <2>1 DEF OfferOnce
  <2> QED
    BY <2>1, <2>2 DEF OfferOnce
<1>9. CASE RetireRelease \/ RetireUncharge
  <2>1. exec.pc # "finish" /\ UNCHANGED <<manifests, records, remote, cancelled, mon, jobs>>
    BY <1>9 DEF RetireRelease, RetireUncharge, pageVars, offerVars, monVars
  <2> QED
    BY <2>1 DEF OfferOnce
<1>10. ASSUME NEW c \in Callers, NEW keys, Pop(c, keys), UNCHANGED <<jobs, exec, mon>> PROVE OfferOnce'
  <2>1. /\ manifests' \subseteq manifests /\ remote' = remote
        /\ records \cup cancelled \subseteq records' \cup cancelled'
    BY <1>10 DEF Pop
  <2> QED
    BY <1>10, <2>1 DEF OfferOnce
<1>11. ASSUME NEW c \in Callers, NEW keys, Forget(c, keys) PROVE OfferOnce'
  BY <1>10, <1>11 DEF Forget, pageVars, execVars, monVars
<1>12. ASSUME NEW i, CloseForget(i) PROVE OfferOnce'
  BY <1>10, <1>12 DEF CloseForget, Callers, pageVars, execVars, monVars
<1>j. ASSUME NEW c \in Callers, CompletedForget(c) PROVE OfferOnce'
  BY <1>10, <1>j DEF CompletedForget, pageVars, execVars, monVars
<1>13. ASSUME NEW i, NEW a, NEW e, RestoreEvent(i, a, e) PROVE OfferOnce'
  BY <1>1, <1>13 DEF RestoreEvent, pageVars, execVars, monVars
<1>h. ASSUME NEW c, NEW r, HandOver(c, r) PROVE OfferOnce'
  BY <1>1, <1>h DEF HandOver, pageVars, monVars
\* The monitor's steps, but for its choice of a record and its confirmation.
<1>14. ASSUME UNCHANGED <<manifests, records, remote, cancelled, exec, jobs>>,
              mon'.pc \in Spilling => mon.pc \in Spilling /\ mon'.rec = mon.rec
       PROVE  OfferOnce'
  BY <1>14 DEF OfferOnce
<1>15. CASE MonitorTop \/ MonitorWait \/ MonitorClear \/ MonitorSample
  <2>1. mon'.pc \notin Spilling
    BY <1>0, <1>15 DEF MonitorTop, MonitorWait, MonitorClear, MonitorSample, MonitorGo, Spilling,
                       TypeOK, MonitorTypes
  <2> QED
    BY <1>14, <1>15, <2>1 DEF MonitorTop, MonitorWait, MonitorClear, MonitorSample, pageVars,
                              offerVars, execVars
<1>16. CASE MonitorSelect
  <2>1. UNCHANGED <<manifests, records, remote, cancelled, exec, jobs>>
    BY <1>16 DEF MonitorSelect, offerVars, execVars
  <2>2. mon'.pc \in Spilling => mon'.rec \in records
    BY <1>0, <1>16, ZenonT(40) DEF MonitorSelect, Eligible, Spilling, TypeOK, MonitorTypes
  <2> QED
    BY <2>1, <2>2 DEF OfferOnce
<1>17. CASE SpillWindow \/ SpillBuild \/ SpillSubmit \/ SpillResult
  <2>1. mon.pc \in Spilling /\ mon'.rec = mon.rec
    BY <1>0, <1>17 DEF SpillWindow, SpillBuild, SpillSubmit, SpillResult, DropPage, MonitorGo,
                       Spilling, TypeOK, MonitorTypes
  <2> QED
    BY <1>14, <1>17, <2>1 DEF SpillWindow, SpillBuild, SpillSubmit, SpillResult, pageVars,
                              offerVars, execVars
<1>18. CASE SpillConfirm
  <2>1. /\ mon.pc \in Spilling /\ mon'.rec = mon.rec
        /\ UNCHANGED <<manifests, records, cancelled, exec, jobs>>
        /\ remote' \subseteq remote \cup {mon.rec}
    BY <1>0, <1>18 DEF SpillConfirm, MonitorGo, Spilling, TypeOK, MonitorTypes, pageVars, execVars
  <2> QED
    BY <2>1 DEF OfferOnce
<1>19. ASSUME NEW x \in Spilling, NEW y \in {"settle", "return"}, NEW z, MonitorRelease(x, y, z)
       PROVE  OfferOnce'
  <2>1. mon.pc \in Spilling /\ mon'.rec = mon.rec
    BY <1>0, <1>19 DEF MonitorRelease, MonitorGo, TypeOK, MonitorTypes
  <2> QED
    BY <1>14, <1>19, <2>1 DEF MonitorRelease, offerVars, execVars
<1>20. ASSUME NEW x \in Spilling, NEW y \in {"release", "top"}, NEW z, MonitorUncharge(x, y, z)
       PROVE  OfferOnce'
  <2>1. mon.pc \in Spilling /\ (mon'.pc \in Spilling => mon'.rec = mon.rec)
    BY <1>0, <1>20 DEF MonitorUncharge, TypeOK, MonitorTypes, Spilling
  <2> QED
    BY <1>14, <1>20, <2>1 DEF MonitorUncharge, pageVars, offerVars, execVars
<1>21. CASE CloseBegin \/ CloseWake \/ CloseJoin
  BY <1>1, <1>21 DEF CloseBegin, CloseWake, CloseJoin, pageVars, offerVars, execVars, monVars
<1>22. CASE CloseShutdown
  <2>1. \A r \in Rets : jobs[r] \in {"done", "gone"} => jobs'[r] \in {"done", "gone"}
    BY <1>22 DEF CloseShutdown
  <2> QED
    BY <1>1, <1>22, <2>1 DEF CloseShutdown, offerVars, execVars, monVars
<1>23. ASSUME NEW p, Evict(p) \/ RemoveAlias(p) PROVE OfferOnce'
  BY <1>1, <1>23 DEF Evict, RemoveAlias, offerVars, execVars, monVars
<1>24. CASE ToggleFreeze \/ UNCHANGED vars
  BY <1>1, <1>24 DEF ToggleFreeze, vars, pageVars, offerVars, execVars, monVars
<1> QED
  BY <1>j, <1>h, <1>2, <1>3, <1>4, <1>5, <1>6, <1>7, <1>8, <1>9, <1>11, <1>12, <1>13, <1>15, <1>16, <1>17,
     <1>18, <1>19, <1>20, <1>21, <1>22, <1>23, <1>24
     DEF Next, CallStep, ExecStep, CloseStep, MonitorStep, Spilling


-----------------------------------------------------------------------------
(* Every step is a step of the lifecycle, or changes nothing there *)

Settled(r) == jobs[r] \in {"done", "gone"} \/ (exec.pc = "finish" /\ exec.ret = r)

\* A publication's phase.
LEMMA PhaseOf ==
  ASSUME NEW r \in Rets
  PROVE  Phase[r] = IF r \in records THEN IF r \in remote THEN "remote" ELSE "protected"
                    ELSE IF r \in manifests THEN "offered"
                    ELSE IF Settled(r) THEN "gone" ELSE "none"
BY DEF Phase, Settled

\* A step that touches neither offers, remote copies nor the end of a
\* publication is invisible in the lifecycle.
LEMMA Invisible ==
  ASSUME UNCHANGED <<manifests, records, remote, stored>>,
         \A r \in Rets : Settled(r)' <=> Settled(r)
  PROVE  UNCHANGED <<Phase, stored>>
<1>1. \A r \in Rets : Phase'[r] = Phase[r]
  BY DEF Phase, Settled
<1>2. Phase' = Phase
  BY <1>1 DEF Phase
<1> QED
  BY <1>2

\* forget is a withdrawal.
LEMMA ForgetWithdraws ==
  ASSUME Shape, OfferOnce, NEW c \in Callers, NEW keys, Pop(c, keys), UNCHANGED <<jobs, exec, stored>>
  PROVE  Life!Withdraw(keys \cap Ids)
<1>1. /\ manifests' = {r \in manifests : IdOf[r] \notin keys}
      /\ records' = {r \in records : ~(r \in manifests /\ IdOf[r] \in keys)}
      /\ remote' = remote
  BY DEF Pop
<1>2. records \subseteq manifests /\ manifests \subseteq Rets
  BY DEF Shape, OwnersReachable, TypeOK, OfferTypes
<1>3. \A r \in Rets : Phase'[r] = IF Phase[r] \in {"offered", "protected", "remote"} /\ IdOf[r] \in keys \cap Ids
                                  THEN "gone" ELSE Phase[r]
  <2> SUFFICES ASSUME NEW r \in Rets
               PROVE  Phase'[r] = IF Phase[r] \in {"offered", "protected", "remote"} /\ IdOf[r] \in keys \cap Ids
                                  THEN "gone" ELSE Phase[r]
    OBVIOUS
  <2>1. IdOf[r] \in Ids
    BY ConstantsAssumption
  <2>2. /\ r \in manifests' <=> r \in manifests /\ IdOf[r] \notin keys
        /\ r \in records' <=> r \in records /\ IdOf[r] \notin keys
    BY <1>1, <1>2
  <2>3. Settled(r)' <=> Settled(r)
    BY DEF Settled
  <2>4. r \in manifests => Settled(r)
    BY DEF OfferOnce, Settled
  <2> QED
    BY <1>1, <1>2, <2>1, <2>2, <2>3, <2>4 DEF Phase, Settled
<1>4. Phase' = [r \in Rets |-> IF Phase[r] \in {"offered", "protected", "remote"} /\ IdOf[r] \in keys \cap Ids
                               THEN "gone" ELSE Phase[r]]
  BY <1>3 DEF Phase
<1> QED
  BY <1>4 DEF Life!Withdraw, Life!Live

\* publish under the lock either makes an offer or refuses one.
LEMMA CommitOffers ==
  ASSUME Shape, OfferOnce, PublishCommit
  PROVE  \E r \in Rets : Life!Refuse(r) \/ \E as \in {"offered", "protected"} : Life!Offer(r, as)
<1> DEFINE r == exec.ret
<1>1. /\ r \in Rets /\ exec.pc = "commit" /\ exec'.pc = "finish" /\ exec'.ret = r
      /\ UNCHANGED <<remote, jobs, stored>>
  BY DEF PublishCommit, Shape, TypeOK, ExecTypes
<1>2. /\ manifests \subseteq Rets /\ records \subseteq manifests
      /\ r \notin records \cup cancelled /\ jobs[r] = "running"
  BY <1>1 DEF Shape, TypeOK, OfferTypes, OwnersReachable, PublishOnce
<1>3. r \notin manifests /\ r \notin remote
  BY <1>1, <1>2 DEF OfferOnce
<1>4. /\ Settled(r)' /\ ~Settled(r)
      /\ \A q \in Rets \ {r} : Settled(q)' <=> Settled(q)
  BY <1>1, <1>2 DEF Settled
<1>5. Phase[r] = "none"
  BY <1>1, <1>2, <1>3, <1>4, PhaseOf
<1>6. CASE Refused(r)
  <2>1. UNCHANGED <<records, manifests>>
    BY <1>6 DEF PublishCommit
  <2>2. \A q \in Rets : Phase'[q] = IF q = r THEN "gone" ELSE Phase[q]
    BY <1>1, <1>2, <1>3, <1>4, <2>1 DEF Phase, Settled
  <2>3. Phase' = [Phase EXCEPT ![r] = "gone"]
    BY <1>1, <2>2 DEF Phase
  <2>4. Life!Refuse(r)
    BY <1>1, <1>5, <2>3 DEF Life!Refuse
  <2> QED
    BY <1>1, <2>4
<1>7. CASE ~Refused(r)
  <2>1. /\ manifests' = (manifests \ SameIdentity(r)) \cup {r}
        /\ records \cap SameIdentity(r) = {}
        /\ \/ records' = (records \ SameIdentity(r)) \cup {r}
           \/ records' = records
    BY <1>7 DEF PublishCommit, Refused
  <2>2. PICK as \in {"offered", "protected"} : as = IF r \in records' THEN "protected" ELSE "offered"
    OBVIOUS
  <2>3. ASSUME NEW q \in Rets
        PROVE  /\ IdOf[q] = IdOf[r] => Phase[q] \notin {"protected", "remote"}
               /\ Phase'[q] = IF q = r THEN as
                              ELSE IF IdOf[q] = IdOf[r] /\ Phase[q] = "offered" THEN "gone"
                              ELSE Phase[q]
    <3>1. q \in SameIdentity(r) <=> IdOf[q] = IdOf[r]
      BY DEF SameIdentity
    <3>2. r \in SameIdentity(r)
      BY <1>1 DEF SameIdentity
    <3>3. /\ q \in manifests' <=> q = r \/ (q \in manifests /\ IdOf[q] # IdOf[r])
          /\ IdOf[q] = IdOf[r] => q \notin records
          /\ q # r => (q \in records' <=> q \in records)
      BY <2>1, <3>1, <3>2
    <3>4. q \in manifests => Settled(q)
      BY DEF OfferOnce, Settled
    <3>5. Phase[q] = IF q \in records THEN IF q \in remote THEN "remote" ELSE "protected"
                     ELSE IF q \in manifests THEN "offered"
                     ELSE IF Settled(q) THEN "gone" ELSE "none"
      BY PhaseOf
    <3>6. Phase'[q] = IF q \in records' THEN IF q \in remote THEN "remote" ELSE "protected"
                      ELSE IF q \in manifests' THEN "offered"
                      ELSE IF Settled(q)' THEN "gone" ELSE "none"
      BY <1>1 DEF Phase, Settled
    <3> QED
      BY <1>1, <1>2, <1>3, <1>4, <2>2, <3>3, <3>4, <3>5, <3>6
  <2>4. Phase' = [q \in Rets |-> IF q = r THEN as
                                 ELSE IF IdOf[q] = IdOf[r] /\ Phase[q] = "offered" THEN "gone"
                                 ELSE Phase[q]]
    BY <2>3 DEF Phase
  <2>5. Life!Offer(r, as)
    BY <1>1, <1>5, <2>3, <2>4 DEF Life!Offer, Life!Guarded
  <2> QED
    BY <1>1, <2>5
<1> QED
  BY <1>6, <1>7

\* The confirmation of a spill exchanges protection for a complete copy.
LEMMA ConfirmMoves ==
  ASSUME Shape, OfferOnce, SpillProgress, SpillConfirm
  PROVE  UNCHANGED <<Phase, stored>> \/ \E r \in Rets : Life!MoveRemote(r)
<1> DEFINE r == mon.rec
<1>1. /\ r \in Rets /\ mon.pc \in Spilling
      /\ UNCHANGED <<manifests, records, jobs, exec, stored>>
  BY DEF SpillConfirm, Shape, TypeOK, MonitorTypes, Spilling, pageVars, execVars
<1>2. \A q \in Rets : Settled(q)' <=> Settled(q)
  BY <1>1 DEF Settled
<1>3. CASE Persisted /\ r \notin remote
  <2>1. remote' = remote \cup {r} /\ mon.pos = 2 * W /\ r \in records
    BY <1>1, <1>3 DEF SpillConfirm, Persisted, OfferOnce
  <2>2. PagesOf(r) \subseteq stored
    BY <1>1, <2>1, AllWindowsStored
  <2>3. Phase[r] = "protected"
    BY <1>1, <1>3, <2>1, PhaseOf
  <2>4. \A q \in Rets : Phase'[q] = IF q = r THEN "remote" ELSE Phase[q]
    BY <1>1, <1>2, <2>1 DEF Phase, Settled
  <2>5. Phase' = [Phase EXCEPT ![r] = "remote"]
    BY <1>1, <2>4 DEF Phase
  <2>6. Life!MoveRemote(r)
    BY <1>1, <2>2, <2>3, <2>5 DEF Life!MoveRemote, Content
  <2> QED
    BY <1>1, <2>6
<1>4. CASE ~(Persisted /\ r \notin remote)
  <2>1. remote' = remote
    BY <1>4 DEF SpillConfirm
  <2> QED
    BY <1>1, <1>2, <2>1, Invisible
<1> QED
  BY <1>3, <1>4

\* Every step of the store's threads is a step of the lifecycle or invisible.
LEMMA LifecycleStep ==
  Shape /\ OfferOnce /\ SpillProgress /\ [Next]_vars => [Life!LifeNext]_<<Phase, stored>>
<1> SUFFICES ASSUME Shape, OfferOnce, SpillProgress, [Next]_vars
             PROVE  Life!LifeNext \/ UNCHANGED <<Phase, stored>>
  OBVIOUS
<1>0. /\ TypeOK /\ PublishOnce
      /\ manifests \subseteq Rets /\ jobs \in [Rets -> {"new", "sealed", "running", "done", "gone"}]
  BY DEF Shape, TypeOK, OfferTypes, PageTypes
<1>1. ASSUME UNCHANGED <<manifests, records, remote, stored>>,
             UNCHANGED exec \/ (exec.pc # "finish" /\ exec'.pc # "finish"),
             \A r \in Rets : jobs'[r] \in {"done", "gone"} <=> jobs[r] \in {"done", "gone"}
      PROVE  UNCHANGED <<Phase, stored>>
  BY <1>1, Invisible DEF Settled
<1>2. ASSUME NEW r \in Rets, Seal(r) \/ PollRelease(r) \/ BackoffExpires(r)
      PROVE  UNCHANGED <<Phase, stored>>
  BY <1>0, <1>1, <1>2 DEF Seal, PollRelease, BackoffExpires, pageVars, offerVars, execVars, monVars
<1>3. CASE PublishStart
  <2>0. Len(tasks) \in Nat \ {0} /\ Head(tasks) = tasks[1] /\ Head(tasks).ret \in Rets
    BY <1>0, <1>3, QueueTail DEF PublishStart
  <2>1. PICK r \in Rets : r = Head(tasks).ret
    BY <2>0
  <2>2. jobs[r] = "sealed"
    BY <1>0, <1>3, <2>0, <2>1 DEF PublishOnce, PublishStart
  <2>3. exec.pc = "idle" /\ UNCHANGED <<manifests, records, remote, stored>>
    BY <1>3 DEF PublishStart, offerVars, monVars
  <2>4. CASE ~frozen
    <3>1. jobs' = [jobs EXCEPT ![r] = "running"] /\ exec'.pc = "acquire"
      BY <1>3, <2>1, <2>4 DEF PublishStart
    <3> QED
      BY <1>0, <1>1, <2>1, <2>2, <2>3, <3>1
  <2>5. CASE frozen
    <3>1. jobs' = [jobs EXCEPT ![r] = "done"] /\ exec' = exec
      BY <1>3, <2>1, <2>5 DEF PublishStart
    <3>2. /\ Settled(r)' /\ ~Settled(r)
          /\ \A q \in Rets \ {r} : Settled(q)' <=> Settled(q)
      BY <1>0, <2>1, <2>2, <2>3, <3>1 DEF Settled
    <3>3. r \notin records /\ r \notin manifests
      BY <1>0, <2>1, <2>2, <2>3 DEF PublishOnce, OfferOnce
    <3>4. \A q \in Rets : Phase'[q] = IF q = r THEN "gone" ELSE Phase[q]
      BY <2>1, <2>3, <3>2, <3>3 DEF Phase, Settled
    <3>5. Phase' = [Phase EXCEPT ![r] = "gone"]
      BY <2>1, <3>4 DEF Phase
    <3>6. Life!Refuse(r)
      BY <2>1, <2>3, <3>2, <3>3, <3>5, PhaseOf DEF Life!Refuse
    <3> QED
      BY <2>1, <3>6 DEF Life!LifeNext
  <2> QED
    BY <2>4, <2>5
<1>4. CASE PublishAcquire
  BY <1>1, <1>4 DEF PublishAcquire, offerVars, monVars
<1>5. CASE PublishCommit
  BY <1>5, CommitOffers DEF Life!LifeNext
<1>6. CASE PublishFinish
  <2>1. /\ exec.pc = "finish" /\ exec'.pc = "idle" /\ exec.ret \in Rets
        /\ UNCHANGED <<manifests, records, remote, stored>>
        /\ jobs' = [jobs EXCEPT ![exec.ret] = "done"]
    BY <1>0, <1>6 DEF PublishFinish, TypeOK, ExecTypes, offerVars, monVars
  <2> QED
    BY <1>0, <2>1, Invisible DEF Settled
<1>7. CASE RetireRelease \/ RetireUncharge
  BY <1>1, <1>7 DEF RetireRelease, RetireUncharge, pageVars, offerVars, monVars
<1>8. ASSUME NEW c \in Callers, NEW keys, Pop(c, keys), UNCHANGED <<jobs, exec, stored>>
      PROVE  Life!LifeNext
  BY <1>8, ForgetWithdraws DEF Life!LifeNext
<1>9. ASSUME NEW c \in Callers, NEW keys, Forget(c, keys) PROVE Life!LifeNext
  BY <1>8, <1>9 DEF Forget, pageVars, execVars, monVars
<1>10. ASSUME NEW i, CloseForget(i) PROVE Life!LifeNext
  BY <1>8, <1>10 DEF CloseForget, Callers, pageVars, execVars, monVars
<1>j. ASSUME NEW c \in Callers, CompletedForget(c) PROVE Life!LifeNext
  BY <1>8, <1>j DEF CompletedForget, pageVars, execVars, monVars
<1>11. ASSUME NEW i, NEW a, NEW e, RestoreEvent(i, a, e) PROVE UNCHANGED <<Phase, stored>>
  BY <1>1, <1>11 DEF RestoreEvent, pageVars, execVars, monVars
<1>h. ASSUME NEW c, NEW r, HandOver(c, r) PROVE UNCHANGED <<Phase, stored>>
  BY <1>1, <1>h DEF HandOver, pageVars, monVars
<1>12. CASE MonitorTop \/ MonitorWait \/ MonitorClear \/ MonitorSample \/ MonitorSelect
  BY <1>1, <1>12 DEF MonitorTop, MonitorWait, MonitorClear, MonitorSample, MonitorSelect, pageVars,
                     offerVars, execVars
<1>13. CASE SpillWindow \/ SpillBuild \/ SpillSubmit
  BY <1>1, <1>13 DEF SpillWindow, SpillBuild, SpillSubmit, pageVars, offerVars, execVars
<1>14. CASE SpillResult
  <2>1. /\ mon.pc = "flight" /\ mon.rec \in Rets /\ mon.pos \in Nat /\ mon.pos < 2 * W
        /\ UNCHANGED <<manifests, records, remote, jobs, exec>>
    BY <1>0, <1>14, ConstantsAssumption DEF SpillResult, TypeOK, MonitorTypes, Spilling, execVars
  <2>2. stored' = stored \/ stored' = stored \cup {SpillSource}
    BY <1>14 DEF SpillResult
  <2>3. SpillSource \in Content[mon.rec]
    <3>1. W \in Nat /\ W # 0
      BY ConstantsAssumption
    <3>2. CASE mon.pos < W
      <4>1. mon.pos + 1 \in Windows /\ SpillSource = Source[mon.rec][0][mon.pos + 1]
        BY <2>1, <3>1, <3>2 DEF SpillSource, Windows
      <4> QED
        BY <2>1, <4>1 DEF Content, PagesOf, Groups
    <3>3. CASE ~(mon.pos < W)
      <4>1. mon.pos - W + 1 \in Windows /\ SpillSource = Source[mon.rec][1][mon.pos - W + 1]
        BY <2>1, <3>1, <3>3 DEF SpillSource, Windows
      <4> QED
        BY <2>1, <4>1 DEF Content, PagesOf, Groups
    <3> QED
      BY <3>2, <3>3
  <2>4. Phase' = Phase
    BY <2>1 DEF Phase
  <2> QED
    BY <2>1, <2>2, <2>3, <2>4 DEF Life!LifeNext, Life!Persist
<1>15. CASE SpillConfirm
  BY <1>15, ConfirmMoves DEF Life!LifeNext
<1>16. ASSUME NEW x, NEW y, NEW z, MonitorRelease(x, y, z) \/ MonitorUncharge(x, y, z)
       PROVE  UNCHANGED <<Phase, stored>>
  BY <1>1, <1>16 DEF MonitorRelease, MonitorUncharge, pageVars, offerVars, execVars
<1>17. CASE CloseBegin \/ CloseWake \/ CloseJoin
  BY <1>1, <1>17 DEF CloseBegin, CloseWake, CloseJoin, pageVars, offerVars, execVars, monVars
<1>18. CASE CloseShutdown
  <2>1. \A r \in Rets : jobs'[r] \in {"done", "gone"} <=> jobs[r] \in {"done", "gone"}
    BY <1>18 DEF CloseShutdown
  <2> QED
    BY <1>1, <1>18, <2>1 DEF CloseShutdown, offerVars, execVars, monVars
<1>19. ASSUME NEW p, Evict(p) \/ RemoveAlias(p) PROVE UNCHANGED <<Phase, stored>>
  BY <1>1, <1>19 DEF Evict, RemoveAlias, offerVars, execVars, monVars
<1>20. CASE ToggleFreeze \/ UNCHANGED vars
  BY <1>1, <1>20 DEF ToggleFreeze, vars, pageVars, offerVars, execVars, monVars
<1> QED
  BY <1>j, <1>h, <1>2, <1>3, <1>4, <1>5, <1>6, <1>7, <1>9, <1>10, <1>11, <1>12, <1>13, <1>14, <1>15, <1>16,
     <1>17, <1>18, <1>19, <1>20
     DEF Next, CallStep, ExecStep, CloseStep, MonitorStep

\* The store implements the lifecycle of offers: publish, forget and the
\* confirmation of a spill each take effect in one step, offers are made once
\* and withdrawn for good, and protection is exchanged only for a complete copy.
THEOREM StoreImplementsLifecycle == Spec => ImplementsLifecycle
<1>1. Init => Life!LifeInit /\ OfferOnce /\ SpillProgress
  <2> SUFFICES ASSUME Init PROVE Life!LifeInit /\ OfferOnce /\ SpillProgress
    OBVIOUS
  <2>1. OfferOnce /\ SpillProgress
    BY DEF Init, OfferOnce, SpillProgress, Spilling
  <2>2. \A r \in Rets : Phase[r] = "none"
    BY DEF Init, Phase
  <2>3. Phase = [r \in Rets |-> "none"]
    BY <2>2 DEF Phase
  <2> QED
    BY <2>1, <2>3 DEF Init, Life!LifeInit
<1>2. Shape /\ OfferOnce /\ [Next]_vars => OfferOnce'
  BY OfferOnceStep
<1>3. Shape /\ SpillProgress /\ [Next]_vars => SpillProgress'
  BY ProgressKept
<1>4. Shape /\ OfferOnce /\ SpillProgress /\ [Next]_vars => [Life!LifeNext]_<<Phase, stored>>
  BY LifecycleStep
<1> QED
  BY <1>1, <1>2, <1>3, <1>4, ShapeCorrect, PTL DEF Spec, ImplementsLifecycle, Life!LifeSpec

-----------------------------------------------------------------------------
(* Owners of a page, in a form that counts easily *)

\* The pages each site holds a reference to: like owned, without the batches
\* whose references _retire has given back already.
Live == [s \in Sites |-> IF s \in LiveSites THEN owned[s] ELSE {}]

JobCount(h, p) == Cardinality({r \in Rets : p \in h[r]})

One(b) == IF b THEN 1 ELSE 0

Balanced(n, live, jobPages, c, h, page, p) ==
  n[p] = Count(live, p) + JobCount(jobPages, p) + One(p \in c) + One(p \in h) + One(p = page)

\* The owners of a page in that form, before and after a step.
LEMMA HoldersForm ==
  /\ \A p : Holders(p) = Count(Live, p) + JobCount(jobHeld, p) + One(p \in cache)
                         + One(p \in held) + One(p = mon.page)
  /\ \A p : Holders(p)' = Count(Live', p) + JobCount(jobHeld', p) + One(p \in cache')
                          + One(p \in held') + One(p = mon'.page)
<1>1. LiveSites \subseteq Sites /\ LiveSites' \subseteq Sites
  BY DEF LiveSites
<1>2. \A p : {s \in LiveSites : p \in owned[s]} = {s \in Sites : p \in Live[s]}
  BY <1>1 DEF Live
<1>3. \A p : {s \in LiveSites' : p \in owned'[s]} = {s \in Sites : p \in Live'[s]}
  BY <1>1 DEF Live
<1>4. \A p : Holders(p) = Count(Live, p) + JobCount(jobHeld, p) + One(p \in cache)
                          + One(p \in held) + One(p = mon.page)
  BY <1>2 DEF Holders, Count, JobCount, One
<1>5. \A p : Holders(p)' = Count(Live', p) + JobCount(jobHeld', p) + One(p \in cache')
                           + One(p \in held') + One(p = mon'.page)
  BY <1>3 DEF Holders, Count, JobCount, One
<1> QED
  BY <1>4, <1>5

\* RefsExact says that every page is balanced.
LEMMA RefsForm ==
  RefsExact <=> \A p \in Pages : Balanced(refs, Live, jobHeld, cache, held, mon.page, p)
BY HoldersForm DEF RefsExact, Balanced

\* Every site's pages are pages.
LEMMA LiveType ==
  ASSUME TypeOK
  PROVE  /\ Live \in [Sites -> SUBSET Pages]
         /\ \A s \in Sites : s \in LiveSites => Live[s] = owned[s]
         /\ \A s \in Sites : s \notin LiveSites => Live[s] = {}
BY DEF TypeOK, LedgerTypes, Live

\* The same after a step.
LEMMA LiveTypeNext ==
  ASSUME TypeOK'
  PROVE  /\ Live' \in [Sites -> SUBSET Pages]
         /\ \A s \in Sites : s \in LiveSites' => Live'[s] = owned'[s]
         /\ \A s \in Sites : s \notin LiveSites' => Live'[s] = {}
BY DEF TypeOK, LedgerTypes, Live

\* Sites are told apart by their names.
LEMMA SiteNames ==
  /\ \A r \in Rets : <<"rec", r>> \in Sites /\ <<"task", r>> \in Sites
  /\ RunSite \in Sites /\ SpillSite \in Sites /\ SwapSite \in Sites
  /\ \A r \in Rets : /\ <<"rec", r>> \notin {RunSite, SpillSite, SwapSite}
                     /\ <<"task", r>> \notin {RunSite, SpillSite, SwapSite}
                     /\ \A q \in Rets : /\ <<"rec", r>> # <<"task", q>>
                                        /\ <<"rec", r>> = <<"rec", q>> => r = q
                                        /\ <<"task", r>> = <<"task", q>> => r = q
  /\ RunSite # SpillSite /\ RunSite # SwapSite /\ SpillSite # SwapSite
BY DEF Sites, RunSite, SpillSite, SwapSite

\* Where LiveSites differs from Sites.
LEMMA LiveSitesFacts ==
  \A s \in Sites :
    s \in LiveSites <=> /\ s # RunSite
                        /\ mon.pc = "settle" => s # SwapSite
                        /\ mon.pc = "return" => s # SpillSite
BY SiteNames DEF LiveSites

\* The same after a step.
LEMMA LiveSitesNext ==
  \A s \in Sites :
    s \in LiveSites' <=> /\ s # RunSite
                         /\ mon'.pc = "settle" => s # SwapSite
                         /\ mon'.pc = "return" => s # SpillSite
BY SiteNames DEF LiveSites

\* Jobs that own a page are counted by a natural number.
LEMMA JobCountType ==
  ASSUME NEW h, NEW p
  PROVE  /\ IsFiniteSet({r \in Rets : p \in h[r]}) /\ JobCount(h, p) \in Nat
         /\ (\A r \in Rets : h[r] = {}) => JobCount(h, p) = 0
<1> DEFINE T == {r \in Rets : p \in h[r]}
<1>1. IsFiniteSet(T)  BY ConstantsAssumption, FS_Subset
<1>2. Cardinality(T) \in Nat  BY <1>1, FS_CardinalityType
<1>3. T = {} => Cardinality(T) = 0  BY FS_EmptySet
<1> QED  BY <1>1, <1>2, <1>3 DEF JobCount

\* A job that takes pages counts once for each of them.
LEMMA JobTakes ==
  ASSUME NEW h \in [Rets -> SUBSET Pages], NEW r \in Rets, NEW S, NEW p, h[r] = {}
  PROVE  JobCount([h EXCEPT ![r] = S], p) = JobCount(h, p) + One(p \in S)
<1> DEFINE A == {q \in Rets : p \in h[q]}
           B == {q \in Rets : p \in [h EXCEPT ![r] = S][q]}
<1>1. IsFiniteSet(A) /\ r \notin A  BY JobCountType
<1>2. B = IF p \in S THEN A \cup {r} ELSE A  OBVIOUS
<1>3. Cardinality(A \cup {r}) = Cardinality(A) + 1  BY <1>1, FS_AddElement
<1>4. Cardinality(A) \in Nat  BY JobCountType DEF JobCount
<1> HIDE DEF A, B
<1>5. Cardinality(B) = Cardinality(A) + (IF p \in S THEN 1 ELSE 0)  BY <1>2, <1>3, <1>4
<1> QED  BY <1>5 DEF JobCount, One, A, B

\* A job that gives its pages back no longer counts for them.
LEMMA JobGives ==
  ASSUME NEW h \in [Rets -> SUBSET Pages], NEW r \in Rets, NEW p
  PROVE  JobCount([h EXCEPT ![r] = {}], p) = JobCount(h, p) - One(p \in h[r])
<1> DEFINE A == {q \in Rets : p \in h[q]}
           B == {q \in Rets : p \in [h EXCEPT ![r] = {}][q]}
<1>1. IsFiniteSet(A)  BY JobCountType
<1>2. B = A \ {r} /\ (r \in A <=> p \in h[r])  OBVIOUS
<1>3. Cardinality(A \ {r}) = IF r \in A THEN Cardinality(A) - 1 ELSE Cardinality(A)
  BY <1>1, FS_RemoveElement
<1>4. Cardinality(A) \in Nat  BY JobCountType DEF JobCount
<1> HIDE DEF A, B
<1>5. Cardinality(B) = Cardinality(A) - (IF p \in h[r] THEN 1 ELSE 0)  BY <1>2, <1>3, <1>4
<1> QED  BY <1>5 DEF JobCount, One, A, B

\* Owners are counted by natural numbers.
LEMMA HoldersType == \A p : Holders(p) \in Nat /\ Holders(p)' \in Nat
<1> TAKE p
<1>1. /\ Count(Live, p) \in Nat /\ JobCount(jobHeld, p) \in Nat
      /\ Count(Live', p) \in Nat /\ JobCount(jobHeld', p) \in Nat
  BY CountType, JobCountType
<1>2. \A b : One(b) \in {0, 1}
  BY DEF One
<1> QED
  BY <1>1, <1>2, HoldersForm

\* The numbers a balance is made of are integers.
LEMMA BalanceTypes ==
  ASSUME TypeOK, NEW p \in Pages
  PROVE  /\ refs[p] \in Int /\ Count(Live, p) \in Nat /\ JobCount(jobHeld, p) \in Nat
         /\ \A b : One(b) \in {0, 1}
BY CountType, JobCountType DEF TypeOK, PageTypes, One

-----------------------------------------------------------------------------
(* The inductive invariant *)

\* Pages are in hand only while a thread works with them.
InHand ==
  /\ \A r \in Rets : jobs[r] = "new" => jobHeld[r] = {}
  /\ exec.pc \notin {"commit", "finish"} => held = {}
  /\ mon.pc \notin {"put", "flight", "quarantined"} => mon.page = None

\* A spill has its own reference to and charge on every page of its checkpoint.
SpillWhole == mon.pc \in Spilling => owned[SpillSite] = PagesOf(mon.rec)

\* Pages that forget took from a record are with the call that popped it, behind a
\* task of the executor, or stranded; a call hands nothing over before it popped.
Queued(r) == \E i \in 1..Len(tasks) : tasks[i] = [kind |-> "retire", ret |-> r]
InCall(r) == \E c \in Callers : r \in call[c].dead
RetireQueued ==
  /\ \A r \in Rets : owned[<<"task", r>>] # {} => Queued(r) \/ InCall(r) \/ r \in stranded
  /\ \A c \in Callers : call[c].join # {} => call[c].dead = {}

\* What close() has achieved when the worker thread gets to each of its steps.
CloseProgress ==
  /\ main.pc # "idle" => closed
  /\ main.pc = "closing" => \A r \in manifests : IdOf[r] \in main.todo
  /\ main.pc \in {"join", "drain", "failed", "down"} => manifests = {} /\ call["worker"] = NoCall
  /\ mon.pc = "quarantined" => fatal
  /\ main.pc \in {"drain", "down"} => mon.pc \in {"none", "dead"} /\ ~fatal
  /\ main.pc = "down" => tasks = <<>> /\ exec.pc = "idle" /\ \A r \in Rets : jobHeld[r] = {}

-----------------------------------------------------------------------------
(* Every action moves references with their owners *)

\* References come and go with the store's owners, whoever else holds a page.
Moved == \A p \in Pages : refs'[p] - refs[p] = Holders(p)' - Holders(p)

\* A step that leaves every owner where it is.
LEMMA OwnersKept ==
  ASSUME TypeOK, UNCHANGED <<refs, jobHeld, cache, held>>, Live' = Live, mon'.page = mon.page
  PROVE  Moved
<1> SUFFICES ASSUME NEW p \in Pages
             PROVE  refs'[p] - refs[p] = Holders(p)' - Holders(p)
  BY DEF Moved
<1>1. Holders(p)' = Holders(p)
  BY HoldersForm
<1>2. refs[p] \in Int /\ Holders(p) \in Int
  <2>1. Holders(p) = Count(Live, p) + JobCount(jobHeld, p) + One(p \in cache)
                     + One(p \in held) + One(p = mon.page)
    BY HoldersForm
  <2> QED
    BY <2>1, BalanceTypes
<1> QED
  BY <1>1, <1>2

\* A step that changes what the sites hold, and nothing else but references.
LEMMA SitesBalance ==
  ASSUME TypeOK, UNCHANGED <<jobHeld, cache, held>>, mon'.page = mon.page,
         \A p \in Pages : \E d \in Int : /\ Count(Live', p) = Count(Live, p) + d
                                         /\ refs'[p] = refs[p] + d
  PROVE  Moved
<1> SUFFICES ASSUME NEW p \in Pages
             PROVE  refs'[p] - refs[p] = Holders(p)' - Holders(p)
  BY DEF Moved
<1>1. /\ Holders(p) = Count(Live, p) + JobCount(jobHeld, p) + One(p \in cache)
                      + One(p \in held) + One(p = mon.page)
      /\ Holders(p)' = Count(Live', p) + JobCount(jobHeld, p) + One(p \in cache)
                       + One(p \in held) + One(p = mon.page)
  BY HoldersForm
<1>2. PICK d \in Int : Count(Live', p) = Count(Live, p) + d /\ refs'[p] = refs[p] + d
  OBVIOUS
<1>3. /\ refs[p] \in Int /\ Count(Live, p) \in Nat /\ JobCount(jobHeld, p) \in Nat
      /\ One(p \in cache) \in {0, 1} /\ One(p \in held) \in {0, 1} /\ One(p = mon.page) \in {0, 1}
  BY BalanceTypes
<1> QED
  BY <1>1, <1>2, <1>3

\* A step that leaves the sites alone and moves references with the job, the cache,
\* publish() or the page under construction.
LEMMA OthersBalance ==
  ASSUME TypeOK, Live' = Live,
         \A p \in Pages :
           refs'[p] - refs[p] = (JobCount(jobHeld', p) - JobCount(jobHeld, p))
                                + (One(p \in cache') - One(p \in cache))
                                + (One(p \in held') - One(p \in held))
                                + (One(p = mon'.page) - One(p = mon.page))
  PROVE  Moved
<1> SUFFICES ASSUME NEW p \in Pages
             PROVE  refs'[p] - refs[p] = Holders(p)' - Holders(p)
  BY DEF Moved
<1>1. /\ Holders(p) = Count(Live, p) + JobCount(jobHeld, p) + One(p \in cache)
                      + One(p \in held) + One(p = mon.page)
      /\ Holders(p)' = Count(Live, p) + JobCount(jobHeld', p) + One(p \in cache')
                       + One(p \in held') + One(p = mon'.page)
  BY HoldersForm
<1>2. Count(Live, p) \in Nat /\ JobCount(jobHeld, p) \in Nat /\ JobCount(jobHeld', p) \in Nat
  BY CountType, JobCountType
<1>3. \A b : One(b) \in {0, 1}
  BY DEF One
<1> QED
  BY <1>1, <1>2, <1>3

\* The thread of the monitor may move on without touching a site.
LEMMA LiveSame ==
  ASSUME TypeOK, owned' = owned,
         mon.pc = "settle" <=> mon'.pc = "settle", mon.pc = "return" <=> mon'.pc = "return"
  PROVE  Live' = Live
BY DEF Live, LiveSites

\* A site is filled with pages whose references were taken for it.
LEMMA SiteFilled ==
  ASSUME TypeOK, TypeOK', NEW t \in LiveSites, owned[t] = {}, NEW S \in SUBSET Pages,
         owned' = [owned EXCEPT ![t] = S],
         mon.pc = "settle" <=> mon'.pc = "settle", mon.pc = "return" <=> mon'.pc = "return"
  PROVE  \A p \in Pages : Count(Live', p) = Count(Live, p) + One(p \in S)
<1>1. t \in Sites /\ LiveSites' = LiveSites
  BY DEF LiveSites
<1>2. Live \in [Sites -> SUBSET Pages] /\ Live' \in [Sites -> SUBSET Pages] /\ Live[t] = {}
  BY <1>1, LiveType, LiveTypeNext
<1>3. Live'[t] = S /\ \A s \in Sites : s # t => Live'[s] = Live[s]
  BY <1>1 DEF Live, TypeOK, LedgerTypes
<1> QED
  BY <1>1, <1>2, <1>3, CountFill DEF One

\* A live site whose references are given back no longer counts, whether its
\* pages stay charged to it or not.
LEMMA SiteReleased ==
  ASSUME TypeOK, NEW t \in LiveSites,
         \A s \in Sites : Live'[s] = IF s = t THEN {} ELSE Live[s]
  PROVE  \A p \in Pages : Count(Live', p) = Count(Live, p) - One(p \in owned[t])
<1>1. t \in Sites /\ Live \in [Sites -> SUBSET Pages] /\ Live[t] = owned[t]
  BY LiveType DEF LiveSites
<1>2. Live' = [Live EXCEPT ![t] = {}]
  BY <1>1 DEF Live
<1> QED
  BY <1>1, <1>2, CountClear DEF One

\* Sites exchange their pages.
LEMMA SitesSwapped ==
  ASSUME TypeOK, NEW f \in [Sites -> Sites], \A s \in Sites : f[f[s]] = s,
         \A s \in Sites : Live'[s] = Live[f[s]]
  PROVE  \A p \in Pages : Count(Live', p) = Count(Live, p)
BY CountExchange

\* forget moves references with the pages, from records to retire tasks.
LEMMA ForgetRefs ==
  ASSUME Shape, NEW c \in Callers, NEW keys, Pop(c, keys),
         UNCHANGED <<refs, jobHeld, cache, held, mon>>
  PROVE  Moved
<1> DEFINE dead == {r \in manifests : IdOf[r] \in keys} \cap records
           f == [s \in Sites |->
                   IF s[1] = "rec" /\ s[2] \in dead THEN <<"task", s[2]>>
                   ELSE IF s[1] = "task" /\ s[2] \in dead THEN <<"rec", s[2]>>
                   ELSE s]
<1>1. TypeOK /\ dead \subseteq Rets /\ \A r \in dead : owned[<<"task", r>>] = {}
  BY DEF Shape, TypeOK, OfferTypes, PublishOnce, Batches
<1>2. owned' = [s \in Sites |->
                  IF s[1] = "rec" /\ s[2] \in dead THEN {}
                  ELSE IF s[1] = "task" /\ s[2] \in dead THEN owned[<<"rec", s[2]>>]
                  ELSE owned[s]]
  BY DEF Pop
<1> HIDE DEF dead
<1>3. f \in [Sites -> Sites]
  BY <1>1, SiteNames
<1>4. \A s \in Sites : (s[1] \in {"rec", "task"} => s = <<s[1], s[2]>>)
  BY DEF Sites
<1>5. \A s \in Sites : f[f[s]] = s
  <2> TAKE s \in Sites
  <2>1. CASE s[1] = "rec" /\ s[2] \in dead
    BY <1>1, <1>4, <2>1, SiteNames
  <2>2. CASE s[1] = "task" /\ s[2] \in dead
    BY <1>1, <1>4, <2>2, SiteNames
  <2> QED
    BY <2>1, <2>2
<1>6. \A s \in Sites : owned'[s] = owned[f[s]]
  BY <1>1, <1>2
<1>7. \A s \in Sites : s \in LiveSites <=> f[s] \in LiveSites
  <2>1. \A r \in Rets : <<"rec", r>> \in LiveSites /\ <<"task", r>> \in LiveSites
    BY SiteNames, LiveSitesFacts
  <2>2. \A s \in Sites : f[s] = s \/ (s[1] \in {"rec", "task"} /\ s[2] \in dead
                                      /\ f[s] \in {<<"rec", s[2]>>, <<"task", s[2]>>})
    OBVIOUS
  <2> QED
    BY <1>1, <1>4, <2>1, <2>2
<1>8. \A s \in Sites : Live'[s] = Live[f[s]]
  <2>1. LiveSites' = LiveSites
    BY DEF LiveSites
  <2> HIDE DEF f
  <2> QED
    BY <1>3, <1>6, <1>7, <2>1 DEF Live
<1> HIDE DEF f
<1>9. \A p \in Pages : Count(Live', p) = Count(Live, p)
  BY <1>1, <1>3, <1>5, <1>8, SitesSwapped
<1>10. \A p \in Pages : Count(Live, p) \in Nat /\ refs[p] \in Int
  BY <1>1, BalanceTypes
<1>11. \A p \in Pages : Count(Live', p) = Count(Live, p) + 0 /\ refs'[p] = refs[p] + 0
  BY <1>9, <1>10
<1> QED
  BY <1>1, <1>11, SitesBalance

\* Every action gives or takes a reference where an owner comes or goes.
LEMMA ReferencesMove == Shape /\ InHand /\ [Next]_vars => Moved
<1> SUFFICES ASSUME Shape, InHand, [Next]_vars
             PROVE  Moved
  OBVIOUS
<1>a. TypeOK /\ TypeOK' /\ PublishOnce /\ OwnersReachable /\ Batches
  BY TypeStep DEF Shape
<1>b. owned \in [Sites -> SUBSET Pages] /\ refs \in [Pages -> Int] /\ refs' \in [Pages -> Int]
  BY <1>a DEF TypeOK, LedgerTypes, PageTypes
<1>c. jobHeld \in [Rets -> SUBSET Pages] /\ cache \subseteq Pages /\ held \subseteq Pages
  BY <1>a DEF TypeOK, PageTypes
<1>d. \A p \in Pages : /\ refs[p] \in Int /\ Count(Live, p) \in Nat /\ JobCount(jobHeld, p) \in Nat
  BY <1>a, BalanceTypes
<1>e. None \notin Pages /\ Scratch \notin Pages
  BY ConstantsAssumption
\* Steps that keep every owner.
<1>1. ASSUME UNCHANGED <<refs, jobHeld, cache, held, owned>>, mon'.page = mon.page,
             mon.pc = "settle" <=> mon'.pc = "settle", mon.pc = "return" <=> mon'.pc = "return"
      PROVE  Moved
  BY <1>1, <1>a, LiveSame, OwnersKept
<1>2. ASSUME NEW r \in Rets, Seal(r) PROVE Moved
  <2> DEFINE S == Fresh(r) \cup (Prefix[r] \cap cache)
  <2>1. /\ jobHeld' = [jobHeld EXCEPT ![r] = S] /\ refs' = Up(S)
        /\ UNCHANGED <<cache, held, owned, mon>> /\ jobHeld[r] = {}
    BY <1>2 DEF Seal, ledgerVars, monVars, InHand
  <2> HIDE DEF S
  <2>2. \A p \in Pages : JobCount(jobHeld', p) = JobCount(jobHeld, p) + One(p \in S)
    <3> TAKE p \in Pages
    <3>1. JobCount([jobHeld EXCEPT ![r] = S], p) = JobCount(jobHeld, p) + One(p \in S)
      BY <1>c, <2>1, JobTakes, ZenonT(40)
    <3> QED
      BY <2>1, <3>1
  <2>3. \A p \in Pages : refs'[p] = refs[p] + One(p \in S)
    BY <2>1 DEF Up, One
  <2>4. \A p \in Pages : One(p \in S) \in {0, 1} /\ One(p \in cache) \in {0, 1}
                         /\ One(p \in held) \in {0, 1} /\ One(p = mon.page) \in {0, 1}
    BY DEF One
  <2>5. \A p \in Pages :
           refs'[p] - refs[p] = (JobCount(jobHeld', p) - JobCount(jobHeld, p))
                                + (One(p \in cache') - One(p \in cache))
                                + (One(p \in held') - One(p \in held))
                                + (One(p = mon'.page) - One(p = mon.page))
    <3> TAKE p \in Pages
    <3>1. One(p \in cache') = One(p \in cache) /\ One(p \in held') = One(p \in held)
          /\ One(p = mon'.page) = One(p = mon.page)
      BY <2>1
    <3> QED
      BY <1>d, <2>2, <2>3, <2>4, <3>1
  <2>6. Live' = Live
    BY <1>a, <2>1, LiveSame
  <2> QED
    BY <1>a, <1>b, <2>5, <2>6, OthersBalance
<1>3. CASE PublishStart
  <2>1. UNCHANGED <<jobHeld, held, owned, mon>>
    BY <1>3 DEF PublishStart, ledgerVars, monVars
  <2>2. CASE UNCHANGED <<refs, cache>>
    BY <1>1, <2>1, <2>2
  <2>3. CASE \E r \in Rets : cache' = cache \cup Fresh(r) /\ refs' = Up(Fresh(r) \ cache)
    <3>1. \A p \in Pages :
           refs'[p] - refs[p] = (JobCount(jobHeld', p) - JobCount(jobHeld, p))
                                + (One(p \in cache') - One(p \in cache))
                                + (One(p \in held') - One(p \in held))
                                + (One(p = mon'.page) - One(p = mon.page))
      BY <1>d, <2>1, <2>3 DEF Up, One
    <3>2. Live' = Live
      BY <1>a, <2>1, LiveSame
    <3> QED
      BY <1>a, <1>b, <3>1, <3>2, OthersBalance
  <2>4. Head(tasks).ret \in Rets
    BY <1>3, <1>a, QueueTail DEF PublishStart
  <2> QED
    BY <1>3, <2>2, <2>3, <2>4 DEF PublishStart
<1>4. CASE PublishAcquire
  <2>1. /\ UNCHANGED <<jobHeld, cache, owned, mon>> /\ held = {} /\ refs' = Up(held')
    BY <1>4 DEF PublishAcquire, ledgerVars, monVars, InHand
  <2>2. \A p \in Pages :
         refs'[p] - refs[p] = (JobCount(jobHeld', p) - JobCount(jobHeld, p))
                              + (One(p \in cache') - One(p \in cache))
                              + (One(p \in held') - One(p \in held))
                              + (One(p = mon'.page) - One(p = mon.page))
    BY <1>d, <2>1 DEF Up, One
  <2>3. Live' = Live
    BY <1>a, <2>1, LiveSame
  <2> QED
    BY <1>a, <1>b, <2>2, <2>3, OthersBalance
<1>5. CASE PublishCommit
  <2> DEFINE r == exec.ret
             t == <<"rec", r>>
  <2>1. r \in Rets /\ r \notin records /\ UNCHANGED <<refs, jobHeld, cache>>
    BY <1>5, <1>a DEF PublishCommit, TypeOK, ExecTypes, PublishOnce
  <2>2. \/ UNCHANGED <<owned, held, mon>>
        \/ /\ held' = {} /\ owned' = [owned EXCEPT ![t] = held]
           /\ mon' = [mon EXCEPT !.pc = IF @ = "none" THEN "top" ELSE @]
    BY <1>5 DEF PublishCommit
  <2>3. CASE UNCHANGED <<owned, held, mon>>
    BY <1>1, <2>1, <2>3
  <2>4. CASE /\ held' = {} /\ owned' = [owned EXCEPT ![t] = held]
             /\ mon' = [mon EXCEPT !.pc = IF @ = "none" THEN "top" ELSE @]
    <3>1. /\ mon.pc = "settle" <=> mon'.pc = "settle"
          /\ mon.pc = "return" <=> mon'.pc = "return"
          /\ mon'.page = mon.page
      BY <1>a, <2>4 DEF TypeOK, MonitorTypes
    <3>2. t \in LiveSites /\ owned[t] = {}
      BY <1>a, <2>1, SiteNames, LiveSitesFacts DEF OwnersReachable
    <3>3. \A p \in Pages : Count(Live', p) = Count(Live, p) + One(p \in held)
      BY <1>a, <1>c, <2>4, <3>1, <3>2, SiteFilled
    <3> SUFFICES ASSUME NEW p \in Pages
                 PROVE  refs'[p] - refs[p] = Holders(p)' - Holders(p)
      BY DEF Moved
    <3>4. /\ Holders(p) = Count(Live, p) + JobCount(jobHeld, p) + One(p \in cache)
                          + One(p \in held) + One(p = mon.page)
          /\ Holders(p)' = Count(Live', p) + JobCount(jobHeld, p) + One(p \in cache)
                           + One(p \in held') + One(p = mon.page)
      BY <2>1, <3>1, HoldersForm
    <3>5. One(p \in held') = 0 /\ \A b : One(b) \in {0, 1}
      BY <2>4 DEF One
    <3> QED
      BY <1>d, <2>1, <3>3, <3>4, <3>5
  <2> QED
    BY <2>2, <2>3, <2>4
<1>6. CASE PublishFinish
  <2>1. UNCHANGED <<jobHeld, cache, owned, mon>> /\ held' = {} /\ refs' = Down(held)
    BY <1>6 DEF PublishFinish, ledgerVars, monVars
  <2>2. \A p \in Pages :
         refs'[p] - refs[p] = (JobCount(jobHeld', p) - JobCount(jobHeld, p))
                              + (One(p \in cache') - One(p \in cache))
                              + (One(p \in held') - One(p \in held))
                              + (One(p = mon'.page) - One(p = mon.page))
    BY <1>d, <2>1 DEF Down, One
  <2>3. Live' = Live
    BY <1>a, <2>1, LiveSame
  <2> QED
    BY <1>a, <1>b, <2>2, <2>3, OthersBalance
\* Steps that give a site's references back.
<1>7. ASSUME NEW t \in LiveSites, refs' = Down(owned[t]),
             \A s \in Sites : Live'[s] = IF s = t THEN {} ELSE Live[s],
             UNCHANGED <<jobHeld, cache, held>>, mon'.page = mon.page
      PROVE  Moved
  <2>1. \A p \in Pages : Count(Live', p) = Count(Live, p) - One(p \in owned[t])
    BY <1>7, <1>a, SiteReleased
  <2>2. \A p \in Pages : refs'[p] = refs[p] - One(p \in owned[t]) /\ One(p \in owned[t]) \in {0, 1}
    BY <1>7 DEF Down, One
  <2>3. \A p \in Pages : /\ 0 - One(p \in owned[t]) \in Int
                         /\ Count(Live', p) = Count(Live, p) + (0 - One(p \in owned[t]))
                         /\ refs'[p] = refs[p] + (0 - One(p \in owned[t]))
    BY <1>d, <2>1, <2>2
  <2> QED
    BY <1>7, <1>a, <2>3, SitesBalance
<1>8. CASE RetireRelease
  <2> DEFINE t == <<"task", Head(tasks).ret>>
  <2>1. /\ Head(tasks).ret \in Rets
        /\ owned' = [owned EXCEPT ![RunSite] = owned[t], ![t] = {}] /\ refs' = Down(owned[t])
        /\ UNCHANGED <<jobHeld, cache, held, mon>>
    BY <1>8, <1>a, QueueTail DEF RetireRelease, monVars
  <2>2. t \in LiveSites /\ t # RunSite /\ t \in Sites
    BY <2>1, SiteNames, LiveSitesFacts
  <2>3. LiveSites' = LiveSites /\ RunSite \notin LiveSites
    BY <2>1, SiteNames, LiveSitesFacts DEF LiveSites
  <2>4. \A s \in Sites : s \in LiveSites => owned'[s] = IF s = t THEN {} ELSE owned[s]
    BY <1>b, <2>1, <2>2, <2>3
  <2>5. \A s \in Sites : Live'[s] = IF s = t THEN {} ELSE Live[s]
    BY <2>2, <2>3, <2>4 DEF Live
  <2> QED
    BY <1>7, <2>1, <2>2, <2>5
<1>9. ASSUME NEW s \in Sites, s \notin LiveSites, owned' = [owned EXCEPT ![s] = {}],
             \A x \in Sites : x # s => (x \in LiveSites <=> x \in LiveSites'),
             UNCHANGED <<refs, jobHeld, cache, held>>, mon'.page = mon.page
      PROVE  Moved
  <2>1. \A x \in Sites : Live'[x] = Live[x]
    BY <1>b, <1>9 DEF Live
  <2>2. Live' = Live
    BY <2>1 DEF Live
  <2> QED
    BY <1>a, <1>9, <2>2, OwnersKept
<1>10. CASE RetireUncharge
  <2>1. /\ owned' = [owned EXCEPT ![RunSite] = {}]
        /\ UNCHANGED <<refs, jobHeld, cache, held, mon>>
    BY <1>10 DEF RetireUncharge, pageVars, monVars
  <2>2. LiveSites' = LiveSites /\ RunSite \notin LiveSites
    BY <2>1, SiteNames, LiveSitesFacts DEF LiveSites
  <2> QED
    BY <1>9, <2>1, <2>2, SiteNames
<1>11. ASSUME NEW r \in Rets, PollRelease(r) PROVE Moved
  <2>1. /\ jobHeld' = [jobHeld EXCEPT ![r] = {}] /\ refs' = Down(jobHeld[r])
        /\ UNCHANGED <<cache, held, owned, mon>>
    BY <1>11 DEF PollRelease, ledgerVars, monVars
  <2>2. \A p \in Pages : JobCount(jobHeld', p) = JobCount(jobHeld, p) - One(p \in jobHeld[r])
    BY <1>c, <2>1, JobGives
  <2>3. \A p \in Pages : refs'[p] = refs[p] - One(p \in jobHeld[r])
    BY <2>1 DEF Down, One
  <2>4. \A p \in Pages : One(p \in jobHeld[r]) \in {0, 1} /\ One(p \in cache) \in {0, 1}
                         /\ One(p \in held) \in {0, 1} /\ One(p = mon.page) \in {0, 1}
    BY DEF One
  <2>5. \A p \in Pages :
           refs'[p] - refs[p] = (JobCount(jobHeld', p) - JobCount(jobHeld, p))
                                + (One(p \in cache') - One(p \in cache))
                                + (One(p \in held') - One(p \in held))
                                + (One(p = mon'.page) - One(p = mon.page))
    <3> TAKE p \in Pages
    <3>1. One(p \in cache') = One(p \in cache) /\ One(p \in held') = One(p \in held)
          /\ One(p = mon'.page) = One(p = mon.page)
      BY <2>1
    <3> QED
      BY <1>d, <2>2, <2>3, <2>4, <3>1
  <2>6. Live' = Live
    BY <1>a, <2>1, LiveSame
  <2> QED
    BY <1>a, <1>b, <2>5, <2>6, OthersBalance
<1>12. CASE CloseShutdown
  <2>1. /\ \A r \in Rets : jobHeld'[r] = {}
        /\ \A p \in Pages : refs'[p] = refs[p] - JobCount(jobHeld, p)
        /\ UNCHANGED <<cache, held, owned, mon>>
    BY <1>12 DEF CloseShutdown, ledgerVars, monVars, JobCount
  <2>2. \A p \in Pages : JobCount(jobHeld', p) = 0
    BY <2>1, JobCountType
  <2>3. \A p \in Pages : One(p \in cache) \in {0, 1}
                         /\ One(p \in held) \in {0, 1} /\ One(p = mon.page) \in {0, 1}
    BY DEF One
  <2>4. \A p \in Pages :
           refs'[p] - refs[p] = (JobCount(jobHeld', p) - JobCount(jobHeld, p))
                                + (One(p \in cache') - One(p \in cache))
                                + (One(p \in held') - One(p \in held))
                                + (One(p = mon'.page) - One(p = mon.page))
    BY <1>d, <2>1, <2>2, <2>3
  <2>5. Live' = Live
    BY <1>a, <2>1, LiveSame
  <2> QED
    BY <1>a, <1>b, <2>4, <2>5, OthersBalance
<1>13. ASSUME NEW c \in Callers, NEW keys, Forget(c, keys) PROVE Moved
  BY <1>13, ForgetRefs DEF Forget, pageVars, execVars, monVars
<1>14. ASSUME NEW i, CloseForget(i) PROVE Moved
  BY <1>14, ForgetRefs DEF CloseForget, Callers, pageVars, monVars
<1>j. ASSUME NEW c \in Callers, CompletedForget(c) PROVE Moved
  BY <1>j, ForgetRefs DEF CompletedForget, pageVars, monVars
<1>15. ASSUME NEW i, NEW a, NEW e, RestoreEvent(i, a, e) PROVE Moved
  BY <1>1, <1>15 DEF RestoreEvent, pageVars, ledgerVars, monVars
<1>h. ASSUME NEW c, NEW r, HandOver(c, r) PROVE Moved
  BY <1>1, <1>h DEF HandOver, pageVars, ledgerVars, monVars
<1>16. CASE MonitorTop \/ MonitorWait \/ MonitorClear \/ MonitorSample \/ SpillWindow
  <2>1. /\ mon.pc \notin {"settle", "return"} /\ mon'.pc \notin {"settle", "return"}
        /\ mon'.page = mon.page
    BY <1>16, <1>a DEF MonitorTop, MonitorWait, MonitorClear, MonitorSample, SpillWindow, MonitorGo,
                       TypeOK, MonitorTypes
  <2> QED
    BY <1>1, <1>16, <2>1 DEF MonitorTop, MonitorWait, MonitorClear, MonitorSample, SpillWindow,
                             pageVars, ledgerVars
<1>17. CASE MonitorSelect
  <2>1. mon.pc = "select" /\ UNCHANGED <<jobHeld, cache, held>>
    BY <1>17 DEF MonitorSelect
  <2>2. \/ UNCHANGED <<refs, owned>> /\ mon' = [mon EXCEPT !.pc = "top", !.low = FALSE]
        \/ \E r \in records : /\ mon' = [mon EXCEPT !.pc = "window", !.rec = r, !.low = FALSE]
                              /\ CopyForSpill(owned[<<"rec", r>>])
    BY <1>17 DEF MonitorSelect, Eligible, ledgerVars
  <2>3. CASE UNCHANGED <<refs, owned>> /\ mon' = [mon EXCEPT !.pc = "top", !.low = FALSE]
    <3>1. mon'.pc = "top" /\ mon'.page = mon.page
      BY <1>a, <2>3 DEF TypeOK, MonitorTypes
    <3> QED
      BY <1>1, <2>1, <2>3, <3>1
  <2>4. ASSUME NEW r \in records, mon' = [mon EXCEPT !.pc = "window", !.rec = r, !.low = FALSE],
               CopyForSpill(owned[<<"rec", r>>])
        PROVE  Moved
    <3> DEFINE S == owned[<<"rec", r>>]
    <3>1. mon'.pc = "window" /\ mon'.page = mon.page
      BY <1>a, <2>4 DEF TypeOK, MonitorTypes
    <3>2. S \in SUBSET Pages /\ owned[SpillSite] = {} /\ SpillSite \in LiveSites
      BY <1>a, <1>b, <2>1, SiteNames, LiveSitesFacts DEF Batches, Spilling, TypeOK, OfferTypes
    <3>3. refs' = Up(S) /\ owned' = [owned EXCEPT ![SpillSite] = S]
      BY <2>4 DEF CopyForSpill
    <3> HIDE DEF S
    <3>4. \A p \in Pages : Count(Live', p) = Count(Live, p) + One(p \in S)
      BY <1>a, <2>1, <3>1, <3>2, <3>3, SiteFilled
    <3>5. \A p \in Pages : refs'[p] = refs[p] + One(p \in S) /\ One(p \in S) \in Int
      BY <3>3 DEF Up, One
    <3> QED
      BY <1>a, <2>1, <3>1, <3>4, <3>5, SitesBalance
  <2> QED
    BY <2>2, <2>3, <2>4
\* Steps that take or give back the page under construction.
<1>18. ASSUME UNCHANGED <<jobHeld, cache, held, owned>>,
              mon.pc \notin {"settle", "return"}, mon'.pc \notin {"settle", "return"},
              \/ mon.page = None /\ refs' = Up({mon'.page})
              \/ mon'.page = None /\ refs' = Down({mon.page})
       PROVE  Moved
  <2>1. \A p \in Pages :
         refs'[p] - refs[p] = (JobCount(jobHeld', p) - JobCount(jobHeld, p))
                              + (One(p \in cache') - One(p \in cache))
                              + (One(p \in held') - One(p \in held))
                              + (One(p = mon'.page) - One(p = mon.page))
    <3>1. CASE mon.page = None /\ refs' = Up({mon'.page})
      BY <1>d, <1>e, <1>18, <3>1 DEF Up, One
    <3>2. CASE mon'.page = None /\ refs' = Down({mon.page})
      BY <1>d, <1>e, <1>18, <3>2 DEF Down, One
    <3> QED
      BY <1>18, <3>1, <3>2
  <2>2. Live' = Live
    BY <1>a, <1>18, LiveSame
  <2> QED
    BY <1>a, <1>b, <2>1, <2>2, OthersBalance
<1>19. CASE SpillBuild
  <2>1. mon.pc = "build" /\ mon.page = None /\ UNCHANGED <<jobHeld, cache, held, owned>>
    BY <1>19 DEF SpillBuild, ledgerVars, InHand
  <2>2. \/ mon'.pc = "put" /\ refs' = Up({mon'.page})
        \/ mon'.pc = "release" /\ UNCHANGED refs /\ mon'.page = mon.page
    <3> DEFINE page == IF SpillSource \in Aligned THEN SpillSource ELSE Scratch
    <3>1. \/ mon' = [mon EXCEPT !.pc = "put", !.page = page] /\ refs' = Up({page})
          \/ mon' = [mon EXCEPT !.pc = "release"] /\ UNCHANGED refs
      BY <1>19 DEF SpillBuild, MonitorGo
    <3> HIDE DEF page
    <3> QED
      BY <1>a, <3>1 DEF TypeOK, MonitorTypes
  <2> QED
    BY <1>1, <1>18, <2>1, <2>2
<1>20. CASE SpillSubmit \/ SpillResult
  <2>1. mon.pc \in {"put", "flight"} /\ UNCHANGED <<jobHeld, cache, held, owned>>
    BY <1>20 DEF SpillSubmit, SpillResult, ledgerVars
  <2>2. \/ \E pc \in {"confirm", "window", "release"}, n \in {0, 1} : DropPage(pc, n)
        \/ \E pc \in {"flight", "quarantined"} : MonitorGo(pc) /\ UNCHANGED refs
    BY <1>20 DEF SpillSubmit, SpillResult
  <2>3. ASSUME NEW pc \in {"confirm", "window", "release"}, NEW n \in {0, 1}, DropPage(pc, n)
        PROVE  Moved
    <3>1. mon'.pc = pc /\ mon'.page = None /\ refs' = Down({mon.page})
      BY <1>a, <2>3 DEF DropPage, TypeOK, MonitorTypes
    <3> QED
      BY <1>18, <2>1, <3>1
  <2>4. ASSUME NEW pc \in {"flight", "quarantined"}, MonitorGo(pc), UNCHANGED refs
        PROVE  Moved
    <3>1. mon'.pc = pc /\ mon'.page = mon.page
      BY <1>a, <2>4 DEF MonitorGo, TypeOK, MonitorTypes
    <3> QED
      BY <1>1, <2>1, <2>4, <3>1
  <2> QED
    BY <2>2, <2>3, <2>4
<1>21. CASE SpillConfirm
  <2> DEFINE s == <<"rec", mon.rec>>
  <2>1. /\ mon.rec \in Rets /\ owned[SwapSite] = {} /\ mon.pc = "confirm" /\ mon'.pc = "retire"
        /\ mon'.page = mon.page /\ UNCHANGED <<refs, jobHeld, cache, held>>
    BY <1>21, <1>a DEF SpillConfirm, MonitorGo, TypeOK, MonitorTypes, Batches, Spilling, pageVars
  <2>2. owned' = owned \/ owned' = [owned EXCEPT ![SwapSite] = owned[s], ![s] = {}]
    BY <1>21 DEF SpillConfirm
  <2>3. CASE owned' = owned
    BY <1>1, <2>1, <2>3
  <2>4. CASE owned' = [owned EXCEPT ![SwapSite] = owned[s], ![s] = {}]
    <3> DEFINE f == [x \in Sites |-> IF x = s THEN SwapSite ELSE IF x = SwapSite THEN s ELSE x]
    <3>1. s \in Sites /\ SwapSite \in Sites /\ s # SwapSite
      BY <2>1, SiteNames
    <3>2. s \in LiveSites /\ SwapSite \in LiveSites /\ LiveSites' = LiveSites
      BY <2>1, SiteNames, LiveSitesFacts DEF LiveSites
    <3>3. f \in [Sites -> Sites] /\ \A x \in Sites : f[f[x]] = x
      BY <3>1
    <3>4. \A x \in Sites : owned'[x] = owned[f[x]]
      BY <1>b, <2>1, <2>4, <3>1
    <3>5. \A x \in Sites : x \in LiveSites <=> f[x] \in LiveSites
      BY <3>2
    <3> HIDE DEF f
    <3>6. \A x \in Sites : Live'[x] = Live[f[x]]
      BY <3>2, <3>3, <3>4, <3>5 DEF Live
    <3>7. \A p \in Pages : Count(Live', p) = Count(Live, p)
      BY <1>a, <3>3, <3>6, SitesSwapped
    <3>8. \A p \in Pages : Count(Live', p) = Count(Live, p) + 0 /\ refs'[p] = refs[p] + 0
      BY <1>d, <2>1, <3>7
    <3> QED
      BY <1>a, <2>1, <3>8, SitesBalance
  <2> QED
    BY <2>2, <2>3, <2>4
<1>22. CASE MonitorRelease("retire", "settle", SwapSite)
  <2>1. /\ mon.pc = "retire" /\ mon'.pc = "settle" /\ mon'.page = mon.page
        /\ refs' = Down(owned[SwapSite]) /\ UNCHANGED <<jobHeld, cache, held, owned>>
    BY <1>22, <1>a DEF MonitorRelease, MonitorGo, TypeOK, MonitorTypes, ledgerVars
  <2>2. SwapSite \in LiveSites
        /\ \A s \in Sites : s \in LiveSites' <=> s \in LiveSites /\ s # SwapSite
    BY <2>1, SiteNames, LiveSitesFacts, LiveSitesNext
  <2>3. \A s \in Sites : Live'[s] = IF s = SwapSite THEN {} ELSE Live[s]
    BY <2>1, <2>2 DEF Live
  <2> QED
    BY <1>7, <2>1, <2>2, <2>3
<1>23. CASE MonitorRelease("release", "return", SpillSite)
  <2>1. /\ mon.pc = "release" /\ mon'.pc = "return" /\ mon'.page = mon.page
        /\ refs' = Down(owned[SpillSite]) /\ UNCHANGED <<jobHeld, cache, held, owned>>
    BY <1>23, <1>a DEF MonitorRelease, MonitorGo, TypeOK, MonitorTypes, ledgerVars
  <2>2. SpillSite \in LiveSites
        /\ \A s \in Sites : s \in LiveSites' <=> s \in LiveSites /\ s # SpillSite
    BY <2>1, SiteNames, LiveSitesFacts, LiveSitesNext
  <2>3. \A s \in Sites : Live'[s] = IF s = SpillSite THEN {} ELSE Live[s]
    BY <2>1, <2>2 DEF Live
  <2> QED
    BY <1>7, <2>1, <2>2, <2>3
<1>24. CASE \/ MonitorUncharge("settle", "release", SwapSite)
            \/ MonitorUncharge("return", "top", SpillSite)
  <2>1. PICK s \in {SwapSite, SpillSite} :
          /\ s = SwapSite => mon.pc = "settle" /\ mon'.pc = "release"
          /\ s = SpillSite => mon.pc = "return" /\ mon'.pc = "top"
          /\ owned' = [owned EXCEPT ![s] = {}] /\ mon'.page = mon.page
          /\ UNCHANGED <<refs, jobHeld, cache, held>>
    <3>1. CASE MonitorUncharge("settle", "release", SwapSite)
      <4>1. mon.pc = "settle" /\ mon'.pc = "release" /\ mon'.page = mon.page
        BY <1>a, <3>1 DEF MonitorUncharge, TypeOK, MonitorTypes
      <4> QED
        BY <3>1, <4>1, SiteNames DEF MonitorUncharge, pageVars
    <3>2. CASE MonitorUncharge("return", "top", SpillSite)
      <4>1. mon.pc = "return" /\ mon'.pc = "top" /\ mon'.page = mon.page
        BY <1>a, <3>2 DEF MonitorUncharge, TypeOK, MonitorTypes
      <4> QED
        BY <3>2, <4>1, SiteNames DEF MonitorUncharge, pageVars
    <3> QED
      BY <1>24, <3>1, <3>2
  <2>2. /\ s \in Sites /\ s \notin LiveSites
        /\ \A x \in Sites : x # s => (x \in LiveSites <=> x \in LiveSites')
    BY <2>1, SiteNames, LiveSitesFacts, LiveSitesNext
  <2> QED
    BY <1>9, <2>1, <2>2
<1>25. CASE CloseBegin \/ CloseWake \/ CloseJoin \/ ToggleFreeze \/ UNCHANGED vars
  BY <1>1, <1>25 DEF CloseBegin, CloseWake, CloseJoin, ToggleFreeze, vars, pageVars, ledgerVars, monVars
<1>26. ASSUME NEW r, BackoffExpires(r) PROVE Moved
  BY <1>1, <1>26 DEF BackoffExpires, pageVars, ledgerVars, monVars
<1>27. ASSUME NEW p \in Pages, Evict(p) \/ RemoveAlias(p) PROVE Moved
  <2>1. /\ p \in cache /\ cache' = cache \ {p} /\ refs' = Down({p})
        /\ UNCHANGED <<jobHeld, held, owned, mon>>
    BY <1>27 DEF Evict, RemoveAlias, ledgerVars, monVars
  <2>2. \A q \in Pages :
         refs'[q] - refs[q] = (JobCount(jobHeld', q) - JobCount(jobHeld, q))
                              + (One(q \in cache') - One(q \in cache))
                              + (One(q \in held') - One(q \in held))
                              + (One(q = mon'.page) - One(q = mon.page))
    BY <1>d, <2>1 DEF Down, One
  <2>3. Live' = Live
    BY <1>a, <2>1, LiveSame
  <2> QED
    BY <1>a, <1>b, <2>2, <2>3, OthersBalance
<1> QED
  BY <1>j, <1>h, <1>2, <1>3, <1>4, <1>5, <1>6, <1>8, <1>10, <1>11, <1>12, <1>13, <1>14, <1>15, <1>16, <1>17,
     <1>19, <1>20, <1>21, <1>22, <1>23, <1>24, <1>25, <1>26, <1>27
     DEF Next, CallStep, ExecStep, CloseStep, MonitorStep

\* So exact counts stay exact.
LEMMA RefsStep == Shape /\ InHand /\ RefsExact /\ [Next]_vars => RefsExact'
<1> SUFFICES ASSUME Shape, InHand, RefsExact, [Next]_vars, NEW p \in Pages
             PROVE  refs'[p] = Holders(p)'
  BY DEF RefsExact
<1>1. refs'[p] - refs[p] = Holders(p)' - Holders(p) /\ refs[p] = Holders(p)
  BY ReferencesMove DEF Moved, RefsExact
<1>2. refs'[p] \in Int /\ refs[p] \in Int /\ Holders(p)' \in Int
  BY TypeStep, HoldersType DEF Shape, TypeOK, PageTypes
<1> QED
  BY <1>1, <1>2

-----------------------------------------------------------------------------
(* The other parts of the invariant *)

\* Every action leaves pages in hand only while its thread works with them.
LEMMA InHandStep == Shape /\ InHand /\ [Next]_vars => InHand'
<1> SUFFICES ASSUME Shape, InHand, [Next]_vars
             PROVE  InHand'
  OBVIOUS
<1>a. TypeOK
  BY DEF Shape
<1>b. /\ jobs \in [Rets -> {"new", "sealed", "running", "done", "gone"}]
      /\ jobHeld \in [Rets -> SUBSET Pages]
  BY <1>a DEF TypeOK, PageTypes
\* Steps of the other threads.
<1>1. ASSUME UNCHANGED <<jobs, jobHeld, held, exec>>,
             mon'.pc \notin {"put", "flight", "quarantined"} => mon'.page = None
      PROVE  InHand'
  BY <1>1 DEF InHand
<1>2. ASSUME UNCHANGED <<jobs, jobHeld, held, exec, mon>> PROVE InHand'
  BY <1>2 DEF InHand
<1>3. ASSUME NEW r \in Rets, Seal(r) \/ PollRelease(r) PROVE InHand'
  <2>1. /\ \E s \in {"sealed", "gone"} : jobs' = [jobs EXCEPT ![r] = s]
        /\ \E S : jobHeld' = [jobHeld EXCEPT ![r] = S]
        /\ UNCHANGED <<held, exec, mon>>
    BY <1>3 DEF Seal, PollRelease, monVars, execVars
  <2> QED
    BY <1>b, <2>1 DEF InHand
<1>4. CASE PublishStart
  <2>1. Head(tasks).ret \in Rets
    BY <1>4, <1>a, QueueTail DEF PublishStart
  <2>2. /\ \E s \in {"done", "running"} : jobs' = [jobs EXCEPT ![Head(tasks).ret] = s]
        /\ exec.pc = "idle" /\ (exec' = exec \/ exec'.pc = "acquire")
        /\ UNCHANGED <<jobHeld, held, mon>>
    BY <1>4 DEF PublishStart, monVars
  <2> QED
    BY <1>b, <2>1, <2>2 DEF InHand
<1>5. CASE PublishAcquire
  BY <1>5, <1>a DEF InHand, PublishAcquire, TypeOK, ExecTypes, monVars
<1>6. CASE PublishCommit
  <2>1. /\ exec'.pc = "finish" /\ UNCHANGED <<jobs, jobHeld>> /\ mon'.page = mon.page
        /\ mon'.pc = mon.pc \/ (mon.pc = "none" /\ mon'.pc = "top")
    BY <1>6, <1>a DEF PublishCommit, TypeOK, ExecTypes, MonitorTypes
  <2> QED
    BY <2>1 DEF InHand
<1>7. CASE PublishFinish
  <2>1. /\ exec.ret \in Rets /\ jobs' = [jobs EXCEPT ![exec.ret] = "done"] /\ held' = {}
        /\ UNCHANGED <<jobHeld, mon>>
    BY <1>7, <1>a DEF PublishFinish, TypeOK, ExecTypes, monVars
  <2> QED
    BY <1>b, <2>1 DEF InHand
<1>8. CASE RetireRelease \/ RetireUncharge
  <2>1. exec.pc \in {"idle", "uncharge"} /\ UNCHANGED <<jobs, jobHeld, held, mon>>
    BY <1>8 DEF RetireRelease, RetireUncharge, pageVars, monVars
  <2> QED
    BY <2>1 DEF InHand
<1>9. ASSUME NEW c \in Callers, NEW keys, Forget(c, keys) PROVE InHand'
  BY <1>2, <1>9 DEF Forget, pageVars, execVars, monVars
<1>10. ASSUME NEW i, CloseForget(i) PROVE InHand'
  BY <1>2, <1>10 DEF CloseForget, Callers, pageVars, execVars, monVars
<1>j. ASSUME NEW c \in Callers, CompletedForget(c) PROVE InHand'
  BY <1>2, <1>j DEF CompletedForget, pageVars, execVars, monVars
<1>11. ASSUME NEW i, NEW a, NEW e, RestoreEvent(i, a, e) PROVE InHand'
  BY <1>2, <1>11 DEF RestoreEvent, pageVars, execVars, monVars
<1>h. ASSUME NEW c, NEW r, HandOver(c, r) PROVE InHand'
  BY <1>2, <1>h DEF HandOver, pageVars, monVars
<1>12. CASE MonitorTop \/ MonitorWait \/ MonitorClear \/ MonitorSample
  <2>1. mon'.page = mon.page /\ mon.page = None
    BY <1>12, <1>a DEF MonitorTop, MonitorWait, MonitorClear, MonitorSample, MonitorGo,
                       TypeOK, MonitorTypes, InHand
  <2> QED
    BY <1>1, <1>12, <2>1 DEF MonitorTop, MonitorWait, MonitorClear, MonitorSample, pageVars, execVars
<1>13. CASE MonitorSelect \/ SpillWindow \/ SpillConfirm
  <2>1. mon'.page = mon.page /\ mon.page = None
    BY <1>13, <1>a DEF MonitorSelect, SpillWindow, SpillConfirm, MonitorGo,
                       TypeOK, MonitorTypes, InHand
  <2> QED
    BY <1>1, <1>13, <2>1 DEF MonitorSelect, SpillWindow, SpillConfirm, pageVars, execVars
<1>14. CASE SpillBuild
  <2>1. mon.page = None
    BY <1>14 DEF SpillBuild, InHand
  <2>2. mon'.pc = "put" \/ mon'.page = mon.page
    BY <1>14, <1>a DEF SpillBuild, MonitorGo, TypeOK, MonitorTypes
  <2> QED
    BY <1>1, <1>14, <2>1, <2>2 DEF SpillBuild, execVars
<1>15. CASE SpillSubmit \/ SpillResult
  <2>1. mon'.pc \in {"flight", "quarantined"} \/ mon'.page = None
    BY <1>15, <1>a DEF SpillSubmit, SpillResult, DropPage, MonitorGo, TypeOK, MonitorTypes
  <2> QED
    BY <1>1, <1>15, <2>1 DEF SpillSubmit, SpillResult, execVars
<1>16. CASE \/ MonitorRelease("retire", "settle", SwapSite)
            \/ MonitorRelease("release", "return", SpillSite)
  <2>1. mon'.page = mon.page /\ mon.page = None
    BY <1>16, <1>a DEF MonitorRelease, MonitorGo, TypeOK, MonitorTypes, InHand
  <2> QED
    BY <1>1, <1>16, <2>1 DEF MonitorRelease, execVars
<1>17. CASE \/ MonitorUncharge("settle", "release", SwapSite)
            \/ MonitorUncharge("return", "top", SpillSite)
  <2>1. mon'.page = mon.page /\ mon.page = None
    BY <1>17, <1>a DEF MonitorUncharge, TypeOK, MonitorTypes, InHand
  <2> QED
    BY <1>1, <1>17, <2>1 DEF MonitorUncharge, pageVars, execVars
<1>18. CASE CloseBegin \/ CloseWake \/ CloseJoin \/ ToggleFreeze \/ UNCHANGED vars
  BY <1>2, <1>18 DEF CloseBegin, CloseWake, CloseJoin, ToggleFreeze, vars, pageVars, execVars, monVars
<1>19. CASE CloseShutdown
  BY <1>19 DEF CloseShutdown, InHand, execVars, monVars
<1>20. ASSUME NEW r, BackoffExpires(r) PROVE InHand'
  BY <1>2, <1>20 DEF BackoffExpires, pageVars, execVars, monVars
<1>21. ASSUME NEW p, Evict(p) \/ RemoveAlias(p) PROVE InHand'
  BY <1>2, <1>21 DEF Evict, RemoveAlias, execVars, monVars
<1> QED
  BY <1>j, <1>h, <1>3, <1>4, <1>5, <1>6, <1>7, <1>8, <1>9, <1>10, <1>11, <1>12, <1>13, <1>14, <1>15, <1>16,
     <1>17, <1>18, <1>19, <1>20, <1>21 DEF Next, CallStep, ExecStep, CloseStep, MonitorStep

\* A spill starts with all pages of a record and keeps them to its end.
LEMMA SpillWholeStep ==
  Shape /\ ReleasedOnlyWhenDurable /\ SpillWhole /\ [Next]_vars => SpillWhole'
<1> SUFFICES ASSUME Shape, ReleasedOnlyWhenDurable, SpillWhole, [Next]_vars
             PROVE  SpillWhole'
  OBVIOUS
<1>a. TypeOK /\ Batches
  BY DEF Shape
<1>b. owned \in [Sites -> SUBSET Pages]
  BY <1>a DEF TypeOK, LedgerTypes
<1>1. ASSUME owned'[SpillSite] = owned[SpillSite],
             mon'.pc \in Spilling => mon.pc \in Spilling /\ mon'.rec = mon.rec
      PROVE  SpillWhole'
  BY <1>1 DEF SpillWhole
<1>2. ASSUME UNCHANGED <<owned, mon>> PROVE SpillWhole'
  BY <1>2 DEF SpillWhole
<1>3. ASSUME NEW r, Seal(r) \/ PollRelease(r) \/ BackoffExpires(r) PROVE SpillWhole'
  BY <1>2, <1>3 DEF Seal, PollRelease, BackoffExpires, ledgerVars, monVars
<1>4. CASE PublishStart \/ PublishAcquire \/ PublishFinish
  BY <1>2, <1>4 DEF PublishStart, PublishAcquire, PublishFinish, ledgerVars, monVars
<1>5. CASE PublishCommit
  <2>1. /\ exec.ret \in Rets /\ mon'.rec = mon.rec
        /\ mon'.pc = mon.pc \/ (mon.pc = "none" /\ mon'.pc = "top")
        /\ owned' = owned \/ owned' = [owned EXCEPT ![<<"rec", exec.ret>>] = held]
    BY <1>5, <1>a DEF PublishCommit, TypeOK, ExecTypes, MonitorTypes
  <2>2. owned'[SpillSite] = owned[SpillSite]
    BY <1>b, <2>1, SiteNames
  <2> QED
    BY <1>1, <2>1, <2>2 DEF Spilling
<1>6. CASE RetireRelease
  <2>1. /\ Head(tasks).ret \in Rets /\ mon' = mon
        /\ owned' = [owned EXCEPT ![RunSite] = owned[<<"task", Head(tasks).ret>>],
                                  ![<<"task", Head(tasks).ret>>] = {}]
    BY <1>6, <1>a, QueueTail DEF RetireRelease, monVars
  <2>2. owned'[SpillSite] = owned[SpillSite]
    BY <1>b, <2>1, SiteNames
  <2> QED
    BY <1>1, <2>1, <2>2
<1>7. CASE RetireUncharge
  <2>1. owned' = [owned EXCEPT ![RunSite] = {}] /\ mon' = mon
    BY <1>7 DEF RetireUncharge, monVars
  <2> QED
    BY <1>1, <1>b, <2>1, SiteNames
<1>8. ASSUME NEW c \in Callers, NEW keys, Pop(c, keys), mon' = mon PROVE SpillWhole'
  BY <1>1, <1>8, <1>a, ForgetSites
<1>9. ASSUME NEW c \in Callers, NEW keys, Forget(c, keys) PROVE SpillWhole'
  BY <1>8, <1>9 DEF Forget, execVars, monVars
<1>10. ASSUME NEW i, CloseForget(i) PROVE SpillWhole'
  BY <1>8, <1>10 DEF CloseForget, Callers, execVars, monVars
<1>j. ASSUME NEW c \in Callers, CompletedForget(c) PROVE SpillWhole'
  BY <1>8, <1>j DEF CompletedForget, execVars, monVars
<1>11. ASSUME NEW i, NEW a, NEW e, RestoreEvent(i, a, e) PROVE SpillWhole'
  BY <1>2, <1>11 DEF RestoreEvent, ledgerVars, monVars
<1>h. ASSUME NEW c, NEW r, HandOver(c, r) PROVE SpillWhole'
  BY <1>2, <1>h DEF HandOver, ledgerVars, monVars
<1>12. CASE MonitorTop \/ MonitorWait \/ MonitorClear \/ MonitorSample
  <2>1. mon'.pc \notin Spilling
    BY <1>12, <1>a DEF MonitorTop, MonitorWait, MonitorClear, MonitorSample, MonitorGo, Spilling,
                       TypeOK, MonitorTypes
  <2> QED
    BY <2>1 DEF SpillWhole
<1>13. CASE MonitorSelect
  <2>1. \/ mon'.pc = "top"
        \/ \E r \in Eligible : /\ mon' = [mon EXCEPT !.pc = "window", !.rec = r, !.low = FALSE]
                               /\ CopyForSpill(owned[<<"rec", r>>])
    BY <1>13, <1>a DEF MonitorSelect, TypeOK, MonitorTypes
  <2>2. CASE mon'.pc = "top"
    BY <2>2 DEF SpillWhole, Spilling
  <2>3. ASSUME NEW r \in Eligible, mon' = [mon EXCEPT !.pc = "window", !.rec = r, !.low = FALSE],
               CopyForSpill(owned[<<"rec", r>>])
        PROVE  SpillWhole'
    <3>1. r \in Rets /\ r \in records /\ r \notin remote
      BY <1>a DEF Eligible, TypeOK, OfferTypes
    <3>2. owned[<<"rec", r>>] = PagesOf(r)
      BY <1>a, <3>1 DEF Batches, ReleasedOnlyWhenDurable
    <3>3. owned'[SpillSite] = owned[<<"rec", r>>]
      BY <1>b, <2>3, SiteNames DEF CopyForSpill
    <3>4. mon'.rec = r
      BY <1>a, <2>3 DEF TypeOK, MonitorTypes
    <3> QED
      BY <3>2, <3>3, <3>4 DEF SpillWhole
  <2> QED
    BY <2>1, <2>2, <2>3
<1>14. CASE SpillWindow \/ SpillBuild \/ SpillSubmit \/ SpillResult
  <2>1. mon.pc \in Spilling /\ mon'.rec = mon.rec
    BY <1>14, <1>a DEF SpillWindow, SpillBuild, SpillSubmit, SpillResult, DropPage, MonitorGo,
                       Spilling, TypeOK, MonitorTypes
  <2> QED
    BY <1>1, <1>14, <2>1 DEF SpillWindow, SpillBuild, SpillSubmit, SpillResult, ledgerVars
<1>15. CASE SpillConfirm
  <2>1. /\ mon.rec \in Rets /\ mon.pc \in Spilling /\ mon'.rec = mon.rec
        /\ \/ owned' = owned
           \/ owned' = [owned EXCEPT ![SwapSite] = owned[<<"rec", mon.rec>>],
                                     ![<<"rec", mon.rec>>] = {}]
    BY <1>15, <1>a DEF SpillConfirm, MonitorGo, Spilling, TypeOK, MonitorTypes
  <2>2. owned'[SpillSite] = owned[SpillSite]
    BY <1>b, <2>1, SiteNames
  <2> QED
    BY <1>1, <2>1, <2>2
<1>16. CASE \/ MonitorRelease("retire", "settle", SwapSite)
            \/ MonitorRelease("release", "return", SpillSite)
  <2>1. mon.pc \in Spilling /\ mon'.rec = mon.rec
    BY <1>16, <1>a DEF MonitorRelease, MonitorGo, Spilling, TypeOK, MonitorTypes
  <2> QED
    BY <1>1, <1>16, <2>1 DEF MonitorRelease, ledgerVars
<1>17. CASE MonitorUncharge("settle", "release", SwapSite)
  <2>1. mon.pc \in Spilling /\ mon'.rec = mon.rec /\ owned' = [owned EXCEPT ![SwapSite] = {}]
    BY <1>17, <1>a DEF MonitorUncharge, Spilling, TypeOK, MonitorTypes
  <2> QED
    BY <1>1, <1>b, <2>1, SiteNames
<1>18. CASE MonitorUncharge("return", "top", SpillSite)
  <2>1. mon'.pc = "top"
    BY <1>18, <1>a DEF MonitorUncharge, TypeOK, MonitorTypes
  <2> QED
    BY <2>1 DEF SpillWhole, Spilling
<1>19. CASE CloseBegin \/ CloseWake \/ CloseJoin \/ CloseShutdown \/ ToggleFreeze \/ UNCHANGED vars
  BY <1>2, <1>19 DEF CloseBegin, CloseWake, CloseJoin, CloseShutdown, ToggleFreeze, vars,
                     ledgerVars, monVars
<1>20. ASSUME NEW p, Evict(p) \/ RemoveAlias(p) PROVE SpillWhole'
  BY <1>2, <1>20 DEF Evict, RemoveAlias, ledgerVars, monVars
<1> QED
  BY <1>j, <1>h, <1>3, <1>4, <1>5, <1>6, <1>7, <1>9, <1>10, <1>11, <1>12, <1>13, <1>14, <1>15, <1>16, <1>17,
     <1>18, <1>19, <1>20 DEF Next, CallStep, ExecStep, CloseStep, MonitorStep

\* Forgotten pages stay behind a task until the executor runs it.
LEMMA RetireQueuedStep == Shape /\ RetireQueued /\ [Next]_vars => RetireQueued'
<1> SUFFICES ASSUME Shape, RetireQueued, [Next]_vars
             PROVE  RetireQueued'
  OBVIOUS
<1>a. TypeOK
  BY DEF Shape
<1>c. call \in [Callers -> [join : SUBSET Ids, dead : SUBSET Rets]]
  BY <1>a DEF TypeOK, OfferTypes
<1>b. owned \in [Sites -> SUBSET Pages] /\ tasks \in Seq(Task) /\ Len(tasks) \in Nat
  BY <1>a, LenProperties DEF TypeOK, LedgerTypes, ExecTypes
\* Steps that keep the queue and the tasks' pages.
<1>1. ASSUME \A r \in Rets : owned'[<<"task", r>>] = owned[<<"task", r>>], tasks' = tasks,
             UNCHANGED <<call, stranded>>
      PROVE  RetireQueued'
  BY <1>1 DEF RetireQueued, Queued, InCall
<1>2. ASSUME UNCHANGED <<owned, tasks, call, stranded>> PROVE RetireQueued'
  BY <1>1, <1>2
\* Tasks that stay in the queue.
<1>3. ASSUME Len(tasks') >= Len(tasks), Len(tasks') \in Nat,
             \A i \in 1..Len(tasks) : tasks'[i] = tasks[i], NEW r, Queued(r)
      PROVE  Queued(r)'
  <2>1. \A i \in 1..Len(tasks) : i \in 1..Len(tasks')
    BY <1>3, <1>b
  <2> QED
    BY <1>3, <2>1 DEF Queued
<1>4. ASSUME NEW r \in Rets, Seal(r) PROVE RetireQueued'
  <2> DEFINE t == [kind |-> "publish", ret |-> r]
  <2>1. t \in Task /\ tasks' = Append(tasks, t) /\ UNCHANGED <<owned, call, stranded>>
    BY <1>4 DEF Seal, Task, ledgerVars, offerVars, callVars
  <2>2. Len(tasks') = Len(tasks) + 1 /\ \A i \in 1..Len(tasks) : tasks'[i] = tasks[i]
    BY <1>b, <2>1, AppendProperties
  <2>3. Len(tasks') >= Len(tasks) /\ Len(tasks') \in Nat
    BY <1>b, <2>2
  <2> QED
    BY <1>3, <2>1, <2>2, <2>3 DEF RetireQueued, InCall
<1>5. CASE PublishStart \/ RetireRelease
  <2>1. tasks # <<>> /\ tasks' = Tail(tasks) /\ UNCHANGED <<call, stranded>>
    BY <1>5 DEF PublishStart, RetireRelease, offerVars, callVars
  <2>2. /\ Len(tasks) \in Nat \ {0} /\ Head(tasks) = tasks[1] /\ Head(tasks).ret \in Rets
        /\ Len(tasks') = Len(tasks) - 1
        /\ \A i \in 1..Len(tasks') : tasks'[i] = tasks[i + 1]
    BY <1>a, <2>1, QueueTail
  <2>3. ASSUME NEW r, Queued(r), Head(tasks) # [kind |-> "retire", ret |-> r] PROVE Queued(r)'
    <3>1. PICK i \in 1..Len(tasks) : tasks[i] = [kind |-> "retire", ret |-> r]
      BY <2>3 DEF Queued
    <3>2. i # 1
      BY <2>2, <2>3, <3>1
    <3>3. i - 1 \in 1..Len(tasks') /\ (i - 1) + 1 = i
      BY <2>2, <3>2
    <3>4. tasks'[i - 1] = tasks[i]
      BY <2>2, <3>3
    <3> QED
      BY <3>1, <3>3, <3>4 DEF Queued
  <2>4. CASE PublishStart
    <3>1. owned' = owned /\ Head(tasks).kind = "publish"
      BY <2>4 DEF PublishStart, ledgerVars
    <3>2. \A r : Head(tasks) # [kind |-> "retire", ret |-> r]
      BY <3>1
    <3> QED
      BY <2>1, <2>3, <3>1, <3>2 DEF RetireQueued, InCall
  <2>5. CASE RetireRelease
    <3> DEFINE q == Head(tasks).ret
    <3>1. owned' = [owned EXCEPT ![RunSite] = owned[<<"task", q>>], ![<<"task", q>>] = {}]
      BY <2>5 DEF RetireRelease
    <3>2. \A r \in Rets : owned'[<<"task", r>>] = IF r = q THEN {} ELSE owned[<<"task", r>>]
      BY <1>b, <2>2, <3>1, SiteNames
    <3>3. \A r \in Rets : r # q => Head(tasks) # [kind |-> "retire", ret |-> r]
      OBVIOUS
    <3> QED
      BY <2>1, <2>3, <3>2, <3>3 DEF RetireQueued, InCall
  <2> QED
    BY <1>5, <2>4, <2>5
<1>6. CASE PublishAcquire \/ PublishFinish
  BY <1>2, <1>6 DEF PublishAcquire, PublishFinish, ledgerVars, offerVars, callVars
<1>7. CASE PublishCommit
  <2>1. /\ exec.ret \in Rets /\ tasks' = tasks /\ UNCHANGED <<call, stranded>>
        /\ owned' = owned \/ owned' = [owned EXCEPT ![<<"rec", exec.ret>>] = held]
    BY <1>7, <1>a DEF PublishCommit, TypeOK, ExecTypes, callVars
  <2>2. \A r \in Rets : owned'[<<"task", r>>] = owned[<<"task", r>>]
    BY <1>b, <2>1, SiteNames
  <2> QED
    BY <1>1, <2>1, <2>2
\* Steps on a site that belongs to a thread.
<1>8. ASSUME NEW s \in {RunSite, SpillSite, SwapSite}, NEW S, owned' = [owned EXCEPT ![s] = S],
             tasks' = tasks, UNCHANGED <<call, stranded>>
      PROVE  RetireQueued'
  <2>1. \A r \in Rets : owned'[<<"task", r>>] = owned[<<"task", r>>]
    BY <1>b, <1>8, SiteNames
  <2> QED
    BY <1>1, <1>8, <2>1
<1>9. CASE RetireUncharge
  BY <1>8, <1>9 DEF RetireUncharge, offerVars, callVars
<1>10. ASSUME NEW c \in Callers, NEW keys, Pop(c, keys), call[c].dead = {}, tasks' = tasks
       PROVE  RetireQueued'
  <2> DEFINE dead == {q \in manifests : IdOf[q] \in keys} \cap records
  <2>1. \A r \in Rets : owned'[<<"task", r>>] =
          IF r \in dead THEN owned[<<"rec", r>>] ELSE owned[<<"task", r>>]
    BY <1>10, <1>a, ForgetSites
  <2>2. call' = [call EXCEPT ![c] = [join |-> {}, dead |-> dead]] /\ stranded' = stranded
    BY <1>10 DEF Pop
  <2> HIDE DEF dead
  <2>3. call'[c].dead = dead /\ call'[c].join = {}
    BY <1>c, <2>2
  <2>4. \A d \in Callers : d # c => call'[d] = call[d]
    BY <1>c, <2>2
  <2>5. \A r : (Queued(r) => Queued(r)') /\ (InCall(r) => InCall(r)') /\ (r \in dead => InCall(r)')
    BY <1>10, <2>3, <2>4 DEF Queued, InCall
  <2>6. \A d \in Callers : call'[d].join # {} => call'[d].dead = {}
    BY <2>3, <2>4 DEF RetireQueued
  <2> QED
    BY <2>1, <2>2, <2>5, <2>6 DEF RetireQueued
<1>11. ASSUME NEW c \in Callers, NEW keys, Forget(c, keys) PROVE RetireQueued'
  BY <1>10, <1>11 DEF Forget, Ready, NoCall, execVars
<1>12. ASSUME NEW i, CloseForget(i) PROVE RetireQueued'
  BY <1>10, <1>12 DEF CloseForget, NoCall, Callers, execVars
<1>j. ASSUME NEW c \in Callers, CompletedForget(c) PROVE RetireQueued'
  BY <1>10, <1>j DEF CompletedForget, RetireQueued, execVars
<1>13. ASSUME NEW i, NEW a, NEW e \in Events, RestoreEvent(i, a, e) PROVE RetireQueued'
  <2> DEFINE c == Reporter(e)
  <2>1. c \in Callers
    BY DEF Reporter, Callers
  <2>2. /\ UNCHANGED <<owned, tasks, stranded>>
        /\ \E ended : call' = [call EXCEPT ![c].join = @ \cup ended]
        /\ call' = call \/ call[c] = NoCall
    <3>1. UNCHANGED <<owned, tasks, stranded>> /\ \E ended : call' = [call EXCEPT ![c].join = @ \cup ended]
      BY <1>13 DEF RestoreEvent, ledgerVars, execVars
    <3>2. CASE e # "failed"
      BY <1>13, <3>1, <3>2 DEF RestoreEvent, Ready
    <3>3. CASE e = "failed"
      <4>1. call' = [call EXCEPT ![c].join = @ \cup {}]
        BY <1>13, <3>3 DEF RestoreEvent, Completed
      <4>2. call[c] \in [join : SUBSET Ids, dead : SUBSET Rets]
        BY <1>c, <2>1
      <4> QED
        BY <1>c, <2>1, <3>1, <4>1, <4>2
    <3> QED
      BY <3>1, <3>2, <3>3
  <2>3. \A d \in Callers : call'[d].dead = call[d].dead /\ (d # c => call'[d] = call[d])
    BY <1>c, <2>1, <2>2
  <2>4. call' = call \/ call[c].dead = {}
    BY <2>2 DEF NoCall
  <2> QED
    BY <2>1, <2>2, <2>3, <2>4 DEF RetireQueued, Queued, InCall
<1>h. ASSUME NEW c \in Callers, NEW r \in Rets, HandOver(c, r) PROVE RetireQueued'
  <2>0. owned' = owned
    BY <1>h DEF HandOver, ledgerVars
  <2>1. CASE /\ tasks' \in Seq(Task) /\ Len(tasks') = Len(tasks) + 1
             /\ \A i \in 1..Len(tasks) : tasks'[i] = tasks[i]
             /\ tasks'[Len(tasks) + 1] = [kind |-> "retire", ret |-> r]
             /\ call' = [call EXCEPT ![c].dead = @ \ {r}] /\ stranded' = stranded
    <3>1. Len(tasks') >= Len(tasks) /\ Len(tasks') \in Nat /\ Len(tasks) + 1 \in 1..Len(tasks')
      BY <1>b, <2>1
    <3>2. Queued(r)' /\ \A q : Queued(q) => Queued(q)'
      BY <1>3, <2>1, <3>1 DEF Queued
    <3>3. \A d \in Callers : /\ call'[d].join = call[d].join
                             /\ call'[d].dead = IF d = c THEN call[d].dead \ {r} ELSE call[d].dead
      BY <1>c, <2>1
    <3> QED
      BY <2>0, <2>1, <3>2, <3>3 DEF RetireQueued, InCall
  <2>2. CASE /\ tasks' = tasks /\ stranded' = stranded \cup call[c].dead
             /\ call' = [call EXCEPT ![c] = NoCall]
    <3>1. \A d \in Callers : call'[d] = IF d = c THEN NoCall ELSE call[d]
      BY <1>c, <2>2
    <3>2. \A q : (Queued(q) => Queued(q)') /\ (InCall(q) => InCall(q)' \/ q \in call[c].dead)
      BY <2>2, <3>1 DEF Queued, InCall
    <3>3. \A d \in Callers : call'[d].join # {} => call'[d].dead = {}
      BY <3>1 DEF RetireQueued, NoCall
    <3> QED
      BY <2>0, <2>2, <3>2, <3>3 DEF RetireQueued
  <2> QED
    BY <1>a, <1>h, <2>1, <2>2, HandOverQueue
<1>14. CASE MonitorTop \/ MonitorWait \/ MonitorClear \/ MonitorSample
  BY <1>2, <1>14 DEF MonitorTop, MonitorWait, MonitorClear, MonitorSample, ledgerVars, execVars, offerVars, callVars
<1>15. CASE MonitorSelect
  <2>1. tasks' = tasks /\ UNCHANGED <<call, stranded>> /\ (owned' = owned \/ \E S : owned' = [owned EXCEPT ![SpillSite] = S])
    BY <1>15 DEF MonitorSelect, CopyForSpill, ledgerVars, execVars, offerVars, callVars
  <2> QED
    BY <1>2, <1>8, <2>1
<1>16. CASE SpillWindow \/ SpillBuild \/ SpillSubmit \/ SpillResult
  BY <1>2, <1>16 DEF SpillWindow, SpillBuild, SpillSubmit, SpillResult, ledgerVars, execVars, offerVars, callVars
<1>17. CASE SpillConfirm
  <2>1. /\ mon.rec \in Rets /\ tasks' = tasks /\ UNCHANGED <<call, stranded>>
        /\ \/ owned' = owned
           \/ owned' = [owned EXCEPT ![SwapSite] = owned[<<"rec", mon.rec>>],
                                     ![<<"rec", mon.rec>>] = {}]
    BY <1>17, <1>a DEF SpillConfirm, Spilling, TypeOK, MonitorTypes, execVars, offerVars, callVars
  <2>2. \A r \in Rets : owned'[<<"task", r>>] = owned[<<"task", r>>]
    BY <1>b, <2>1, SiteNames
  <2> QED
    BY <1>1, <2>1, <2>2
<1>18. ASSUME NEW x, NEW y, NEW z, MonitorRelease(x, y, z) PROVE RetireQueued'
  BY <1>2, <1>18 DEF MonitorRelease, ledgerVars, execVars, offerVars, callVars
<1>19. ASSUME NEW x, NEW y, NEW z \in {RunSite, SpillSite, SwapSite}, MonitorUncharge(x, y, z)
       PROVE  RetireQueued'
  BY <1>8, <1>19 DEF MonitorUncharge, execVars, offerVars, callVars
<1>20. CASE CloseBegin \/ CloseWake \/ CloseJoin \/ CloseShutdown \/ ToggleFreeze \/ UNCHANGED vars
  BY <1>2, <1>20 DEF CloseBegin, CloseWake, CloseJoin, CloseShutdown, ToggleFreeze, vars,
                     ledgerVars, execVars, offerVars, callVars
<1>21. ASSUME NEW p, Evict(p) \/ RemoveAlias(p) PROVE RetireQueued'
  BY <1>2, <1>21 DEF Evict, RemoveAlias, ledgerVars, execVars, offerVars, callVars
<1>22. ASSUME NEW r, PollRelease(r) \/ BackoffExpires(r) PROVE RetireQueued'
  BY <1>2, <1>22 DEF PollRelease, BackoffExpires, ledgerVars, execVars, offerVars, callVars
<1> QED
  BY <1>4, <1>5, <1>6, <1>7, <1>9, <1>11, <1>12, <1>j, <1>13, <1>h, <1>14, <1>15, <1>16, <1>17, <1>18, <1>19,
     <1>20, <1>21, <1>22 DEF Next, CallStep, ExecStep, CloseStep, MonitorStep

\* After close() has begun nothing new is retained, and what it waited for stays.
LEMMA CloseProgressStep == Shape /\ CloseProgress /\ [Next]_vars => CloseProgress'
<1> SUFFICES ASSUME Shape, CloseProgress, [Next]_vars
             PROVE  CloseProgress'
  OBVIOUS
<1>a. TypeOK /\ OwnersReachable
  BY DEF Shape
<1>b. /\ main \in [pc : {"idle", "closing", "join", "drain", "failed", "down"}, todo : SUBSET Ids]
      /\ fatal \in BOOLEAN
  BY <1>a DEF TypeOK, FlagTypes, MonitorTypes
\* Steps that do not touch what close() waits for.
<1>1. ASSUME UNCHANGED <<manifests, call, mon, fatal, closed, main, tasks, exec, jobHeld>>
      PROVE  CloseProgress'
  BY <1>1 DEF CloseProgress
\* Steps of the worker and the executor that are over when the store is down.
<1>2. ASSUME UNCHANGED <<manifests, call, mon, fatal, closed, main>>, main.pc # "down"
      PROVE  CloseProgress'
  BY <1>2 DEF CloseProgress
<1>3. ASSUME NEW r, Seal(r) \/ PollRelease(r) PROVE CloseProgress'
  BY <1>2, <1>3 DEF Seal, PollRelease, Ready, offerVars, callVars, monVars, flagVars
<1>4. CASE PublishStart \/ PublishAcquire \/ PublishFinish \/ RetireRelease \/ RetireUncharge
  <2>1. main.pc # "down"
    BY <1>4 DEF CloseProgress, PublishStart, PublishAcquire, PublishFinish, RetireRelease,
                RetireUncharge
  <2> QED
    BY <1>2, <1>4, <2>1 DEF PublishStart, PublishAcquire, PublishFinish, RetireRelease,
                            RetireUncharge, offerVars, callVars, monVars, flagVars
<1>5. CASE PublishCommit
  <2>1. main.pc # "down" /\ UNCHANGED <<fatal, closed, main>>
    BY <1>5 DEF CloseProgress, PublishCommit, flagVars
  <2>2. CASE closed
    <3>1. UNCHANGED <<manifests, call, mon>>
      BY <1>5, <2>2 DEF PublishCommit, Refused, callVars
    <3> QED
      BY <1>2, <2>1, <3>1
  <2>3. CASE ~closed
    <3>1. main.pc = "idle" /\ main'.pc = "idle"
      BY <2>1, <2>3 DEF CloseProgress
    <3>2. mon'.pc = mon.pc \/ (mon.pc = "none" /\ mon'.pc = "top")
      BY <1>5, <1>a DEF PublishCommit, TypeOK, MonitorTypes
    <3> QED
      BY <2>1, <3>1, <3>2 DEF CloseProgress
  <2> QED
    BY <2>2, <2>3
<1>6. ASSUME NEW c \in Callers, NEW keys, Pop(c, keys),
             UNCHANGED <<mon, fatal, closed, tasks, exec, jobHeld>>,
             main.pc \in {"join", "drain", "failed", "down"} => c = "lookup",
             main' = main \/ (/\ main.pc = "closing" /\ main'.pc = "closing"
                              /\ \A i \in main.todo : i \in main'.todo \/ i \in keys)
      PROVE  CloseProgress'
  <2>1. manifests' = {r \in manifests : IdOf[r] \notin keys}
    BY <1>6 DEF Pop
  <2>2. main'.pc = main.pc
    BY <1>6
  <2>3. main'.pc = "closing" => \A r \in manifests' : IdOf[r] \in main'.todo
    BY <1>6, <2>1 DEF CloseProgress
  <2>4. c = "lookup" => call'["worker"] = call["worker"]
    BY <1>6 DEF Pop
  <2> QED
    BY <1>6, <2>1, <2>2, <2>3, <2>4 DEF CloseProgress
<1>7. ASSUME NEW c \in Callers, NEW keys, Forget(c, keys) PROVE CloseProgress'
  BY <1>6, <1>7 DEF Forget, Ready, Callers, pageVars, execVars, monVars
<1>8. ASSUME NEW c \in Callers, CompletedForget(c) PROVE CloseProgress'
  <2>1. main.pc \in {"join", "drain", "failed", "down"} => c = "lookup"
    BY <1>8 DEF CompletedForget, CloseProgress, Callers, NoCall
  <2> QED
    BY <1>6, <1>8, <2>1 DEF CompletedForget, pageVars, execVars, monVars
<1>9. ASSUME NEW i, CloseForget(i) PROVE CloseProgress'
  <2>1. /\ Pop("worker", {i}) /\ main.pc = "closing" /\ main' = [main EXCEPT !.todo = @ \ {i}]
        /\ UNCHANGED <<mon, fatal, closed, tasks, exec, jobHeld>>
    BY <1>9 DEF CloseForget, pageVars, execVars, monVars
  <2>2. main'.pc = "closing" /\ \A j \in main.todo : j \in main'.todo \/ j \in {i}
    BY <1>b, <2>1
  <2> QED
    BY <1>6, <2>1, <2>2 DEF Callers
<1>10. ASSUME NEW i, NEW a, NEW e \in Events, RestoreEvent(i, a, e) PROVE CloseProgress'
  <2>1. main.pc # "down" /\ UNCHANGED <<manifests, mon, fatal, closed, main>>
    BY <1>10 DEF RestoreEvent, monVars
  <2>2. main.pc \in {"join", "drain", "failed"} => call'["worker"] = call["worker"]
    <3>1. CASE Reporter(e) = "lookup"
      BY <1>10, <3>1 DEF RestoreEvent
    <3>2. CASE Reporter(e) # "lookup" /\ e # "failed"
      BY <1>10, <3>2 DEF RestoreEvent, Reporter, Ready
    <3>3. CASE e = "failed"
      <4>1. call' = [call EXCEPT !["worker"].join = @ \cup {}]
        BY <1>10, <3>3 DEF RestoreEvent, Completed, Reporter
      <4>2. call \in [Callers -> [join : SUBSET Ids, dead : SUBSET Rets]] /\ "worker" \in Callers
        BY <1>a DEF TypeOK, OfferTypes, Callers
      <4>3. call["worker"] \in [join : SUBSET Ids, dead : SUBSET Rets]
        BY <4>2
      <4> QED
        BY <4>1, <4>2, <4>3
    <3> QED
      BY <3>1, <3>2, <3>3
  <2> QED
    BY <2>1, <2>2 DEF CloseProgress
<1>h. ASSUME NEW c \in Callers, NEW r \in Rets, HandOver(c, r) PROVE CloseProgress'
  <2>1. UNCHANGED <<manifests, mon, fatal, closed, main, exec, jobHeld>>
    BY <1>h DEF HandOver, pageVars, monVars
  <2>2. main.pc = "down" => tasks' = tasks
    BY <1>h DEF HandOver, ExecutorDown
  <2>3. main.pc \in {"join", "drain", "failed", "down"} => call'["worker"] = call["worker"]
    <3>1. call["worker"] = NoCall => c = "lookup"
      BY <1>h DEF HandOver, NoCall, Callers
    <3>2. c = "lookup" => call'["worker"] = call["worker"]
      BY <1>a, <1>h DEF HandOver, TypeOK, OfferTypes, Callers
    <3> QED
      BY <3>1, <3>2 DEF CloseProgress
  <2> QED
    BY <2>1, <2>2, <2>3 DEF CloseProgress
\* Steps of the monitor: it is still alive, so close() waits for it.
<1>11. ASSUME mon.pc \notin {"none", "dead", "quarantined"},
              fatal => fatal', mon'.pc = "quarantined" => fatal',
              UNCHANGED <<manifests, call, closed, main, tasks, exec, jobHeld>>
       PROVE  CloseProgress'
  BY <1>11 DEF CloseProgress
<1>12. CASE MonitorTop \/ MonitorWait \/ MonitorClear \/ MonitorSample
  <2>1. mon.pc \notin {"none", "dead", "quarantined"} /\ mon'.pc # "quarantined"
    BY <1>12, <1>a DEF MonitorTop, MonitorWait, MonitorClear, MonitorSample, MonitorGo, TypeOK,
                       MonitorTypes
  <2>2. fatal => fatal'
    BY <1>12 DEF MonitorTop, MonitorWait, MonitorClear, MonitorSample
  <2> QED
    BY <1>11, <1>12, <2>1, <2>2 DEF MonitorTop, MonitorWait, MonitorClear, MonitorSample,
                                    pageVars, offerVars, callVars, execVars, flagVars
<1>13. CASE MonitorSelect \/ SpillWindow \/ SpillBuild \/ SpillSubmit \/ SpillConfirm
  <2>1. mon.pc \notin {"none", "dead", "quarantined"} /\ mon'.pc # "quarantined"
    BY <1>13, <1>a DEF MonitorSelect, SpillWindow, SpillBuild, SpillSubmit, SpillConfirm, DropPage,
                       MonitorGo, TypeOK, MonitorTypes
  <2> QED
    BY <1>11, <1>13, <2>1 DEF MonitorSelect, SpillWindow, SpillBuild, SpillSubmit, SpillConfirm,
                              pageVars, offerVars, callVars, execVars, flagVars
<1>14. CASE SpillResult
  <2>1. mon.pc \notin {"none", "dead", "quarantined"}
        /\ (mon'.pc = "quarantined" => fatal') /\ (fatal => fatal')
    BY <1>14, <1>a DEF SpillResult, DropPage, MonitorGo, TypeOK, MonitorTypes
  <2> QED
    BY <1>11, <1>14, <2>1 DEF SpillResult, callVars, execVars, flagVars
<1>15. CASE \/ MonitorRelease("retire", "settle", SwapSite)
            \/ MonitorRelease("release", "return", SpillSite)
  <2>1. mon.pc \notin {"none", "dead", "quarantined"} /\ mon'.pc # "quarantined"
    BY <1>15, <1>a DEF MonitorRelease, MonitorGo, TypeOK, MonitorTypes
  <2> QED
    BY <1>11, <1>15, <2>1 DEF MonitorRelease, offerVars, callVars, execVars, flagVars
<1>16. CASE \/ MonitorUncharge("settle", "release", SwapSite)
            \/ MonitorUncharge("return", "top", SpillSite)
  <2>1. mon.pc \notin {"none", "dead", "quarantined"} /\ mon'.pc # "quarantined"
    BY <1>16, <1>a DEF MonitorUncharge, TypeOK, MonitorTypes
  <2> QED
    BY <1>11, <1>16, <2>1 DEF MonitorUncharge, pageVars, offerVars, callVars, execVars, flagVars
<1>17. CASE CloseBegin
  <2>1. /\ main.pc = "idle" /\ call["worker"] = NoCall /\ closed' = TRUE /\ main'.pc = "closing"
        /\ main'.todo = {IdOf[r] : r \in manifests}
        /\ UNCHANGED <<manifests, call, mon, fatal, tasks, exec, jobHeld>>
    BY <1>17 DEF CloseBegin, Ready, pageVars, offerVars, callVars, execVars, monVars
  <2> QED
    BY <2>1 DEF CloseProgress
<1>18. CASE CloseWake
  <2>1. /\ main.pc = "closing" /\ main.todo = {} /\ main'.pc = "join" /\ call["worker"] = NoCall
        /\ UNCHANGED <<manifests, call, mon, fatal, closed, tasks, exec, jobHeld>>
    BY <1>18, <1>b DEF CloseWake, pageVars, offerVars, callVars, execVars, monVars
  <2> QED
    BY <2>1 DEF CloseProgress
<1>19. CASE CloseJoin
  <2>1. /\ main.pc = "join" /\ MonitorEnded /\ main'.pc = IF fatal THEN "failed" ELSE "drain"
        /\ UNCHANGED <<manifests, call, mon, fatal, closed, tasks, exec, jobHeld>>
    BY <1>19, <1>b DEF CloseJoin, pageVars, offerVars, callVars, execVars, monVars
  <2> QED
    BY <2>1 DEF CloseProgress, MonitorEnded
<1>20. CASE CloseShutdown
  <2>1. /\ main.pc = "drain" /\ main'.pc = "down" /\ exec.pc = "idle" /\ tasks = <<>>
        /\ \A r \in Rets : jobHeld'[r] = {}
        /\ UNCHANGED <<manifests, call, mon, fatal, closed, tasks, exec>>
    BY <1>20, <1>b DEF CloseShutdown, offerVars, callVars, execVars, monVars
  <2> QED
    BY <2>1 DEF CloseProgress
<1>21. CASE ToggleFreeze \/ UNCHANGED vars
  BY <1>1, <1>21 DEF ToggleFreeze, vars, pageVars, offerVars, callVars, execVars, monVars, flagVars
<1>22. ASSUME NEW p, Evict(p) \/ RemoveAlias(p) PROVE CloseProgress'
  BY <1>1, <1>22 DEF Evict, RemoveAlias, offerVars, callVars, execVars, monVars, flagVars
<1>23. ASSUME NEW r, BackoffExpires(r) PROVE CloseProgress'
  BY <1>1, <1>23 DEF BackoffExpires, callVars, pageVars, execVars, monVars, flagVars
<1> QED
  BY <1>3, <1>4, <1>5, <1>7, <1>8, <1>9, <1>10, <1>h, <1>12, <1>13, <1>14, <1>15, <1>16, <1>17, <1>18,
     <1>19, <1>20, <1>21, <1>22, <1>23 DEF Next, CallStep, ExecStep, CloseStep, MonitorStep

-----------------------------------------------------------------------------
(* The theorems *)

Ownership == InHand /\ RefsExact /\ SpillWhole /\ RetireQueued /\ CloseProgress

\* The store starts without owners.
LEMMA OwnershipInit == Init => Ownership
<1> SUFFICES ASSUME Init PROVE Ownership
  OBVIOUS
<1>1. TypeOK
  BY TypeInit
<1>2. InHand /\ SpillWhole /\ CloseProgress
  BY DEF Init, InHand, SpillWhole, CloseProgress, Spilling
<1>3. RetireQueued
  <2>1. \A r \in Rets : owned[<<"task", r>>] = {}
    BY SiteNames DEF Init
  <2>2. \A c \in Callers : call[c].join = {}
    BY DEF Init, NoCall
  <2> QED
    BY <2>1, <2>2 DEF RetireQueued
<1>4. RefsExact
  <2> SUFFICES ASSUME NEW p \in Pages
               PROVE  Balanced(refs, Live, jobHeld, cache, held, mon.page, p)
    BY RefsForm
  <2>1. {s \in Sites : p \in Live[s]} = {}
    BY DEF Init, Live
  <2>2. Count(Live, p) = 0
    BY <2>1, FS_EmptySet DEF Count
  <2>3. JobCount(jobHeld, p) = 0
    BY JobCountType DEF Init
  <2>4. One(p \in cache) = 0 /\ One(p \in held) = 0 /\ One(p = mon.page) = 0 /\ refs[p] = 0
    BY ConstantsAssumption DEF Init, One
  <2> QED
    BY <2>2, <2>3, <2>4 DEF Balanced
<1> QED
  BY <1>2, <1>3, <1>4 DEF Ownership

\* Owners, references and the phases of close() agree in every reachable state.
LEMMA OwnershipCorrect == Spec => []Ownership
<1>1. Shape /\ ReleasedOnlyWhenDurable /\ Ownership /\ [Next]_vars => Ownership'
  <2> SUFFICES ASSUME Shape, ReleasedOnlyWhenDurable, Ownership, [Next]_vars
               PROVE  Ownership'
    OBVIOUS
  <2>1. InHand' /\ RefsExact'
    BY InHandStep, RefsStep DEF Ownership
  <2>2. SpillWhole' /\ RetireQueued' /\ CloseProgress'
    BY SpillWholeStep, RetireQueuedStep, CloseProgressStep DEF Ownership
  <2> QED
    BY <2>1, <2>2 DEF Ownership
<1> QED
  BY <1>1, OwnershipInit, ShapeCorrect, DurableBeforeRelease, PTL DEF Spec

\* In every reachable state the reference count of a page is the number of its
\* owners, and a PUT that is in flight or of unknown outcome is one of them.
THEOREM OwnershipAlwaysExact == Spec => []OwnershipExact
<1>1. Shape /\ LedgerExact /\ Ownership => OwnershipExact
  <2> SUFFICES ASSUME Shape, LedgerExact, Ownership
               PROVE  OwnershipExact
    OBVIOUS
  <2>1. TypeOK /\ RefsExact /\ SpillWhole
    BY DEF Shape, Ownership
  <2>2. ASSUME mon.pc \in {"flight", "quarantined"}
        PROVE  /\ owned[SpillSite] = PagesOf(mon.rec)
               /\ \A p \in owned[SpillSite] : refs[p] > 0 /\ charges[p] > 0
    <3>1. owned[SpillSite] = PagesOf(mon.rec)
      BY <2>1, <2>2 DEF SpillWhole, Spilling
    <3>2. /\ SpillSite \in Sites /\ SpillSite \in LiveSites /\ Live[SpillSite] = owned[SpillSite]
          /\ owned[SpillSite] \in SUBSET Pages
      BY <2>1, <2>2, SiteNames, LiveSitesFacts, LiveType DEF TypeOK, LedgerTypes
    <3>3. ASSUME NEW p \in owned[SpillSite] PROVE refs[p] > 0 /\ charges[p] > 0
      <4>1. Count(Live, p) > 0 /\ Count(owned, p) > 0
        BY <3>2, CountType
      <4>2. charges[p] = Count(owned, p)
        BY <3>2 DEF LedgerExact, Count
      <4>3. Balanced(refs, Live, jobHeld, cache, held, mon.page, p) /\ p \in Pages
        BY <2>1, <3>2, RefsForm
      <4>4. /\ Count(Live, p) \in Nat /\ JobCount(jobHeld, p) \in Nat
            /\ One(p \in cache) \in {0, 1} /\ One(p \in held) \in {0, 1}
            /\ One(p = mon.page) \in {0, 1}
        BY <2>1, <4>3, BalanceTypes
      <4> QED
        BY <4>1, <4>2, <4>3, <4>4 DEF Balanced
    <3> QED
      BY <3>1, <3>3
  <2> QED
    BY <2>1, <2>2 DEF OwnershipExact, InFlightOwned
<1> QED
  BY <1>1, ShapeCorrect, LedgerCorrect, OwnershipCorrect, PTL

\* When close() returns no transfer is pending and nothing is queued; what is charged
\* or referenced, but for the cache, are the pages of a forget that close() overtook.
THEOREM ShutdownAlwaysSafe == Spec => []ShutdownSafe
<1>1. Shape /\ LedgerExact /\ BudgetRespected /\ Ownership => ShutdownSafe
  <2> DEFINE left == UNION {owned[<<"task", r>>] : r \in Overtaken}
  <2> SUFFICES ASSUME Shape, LedgerExact, BudgetRespected, Ownership, main.pc = "down"
               PROVE  /\ records = {} /\ tasks = <<>> /\ exec.pc = "idle"
                      /\ mon.pc \in {"none", "dead"} /\ ~fatal
                      /\ used = Bytes(left) /\ \A p \in Pages : refs[p] > 0 => p \in cache \cup left
    BY DEF ShutdownSafe
  <2>1. TypeOK /\ OwnersReachable /\ Batches /\ InHand /\ RefsExact /\ RetireQueued
    BY DEF Shape, Ownership
  <2>2. /\ manifests = {} /\ tasks = <<>> /\ exec.pc = "idle" /\ mon.pc \in {"none", "dead"}
        /\ ~fatal /\ call["worker"] = NoCall /\ \A r \in Rets : jobHeld[r] = {}
    BY DEF Ownership, CloseProgress
  <2>3. records = {} /\ \A r \in Rets : owned[<<"rec", r>>] = {}
    BY <2>1, <2>2 DEF OwnersReachable
  <2>4. Overtaken \subseteq Rets /\ \A r \in Rets : owned[<<"task", r>>] # {} => r \in Overtaken
    <3>1. \A r : ~Queued(r)
      BY <2>2 DEF Queued
    <3>2. \A r : InCall(r) => r \in call["lookup"].dead
      BY <2>2 DEF InCall, Callers, NoCall
    <3>3. call["lookup"].dead \subseteq Rets /\ stranded \subseteq Rets
      BY <2>1 DEF TypeOK, OfferTypes, Callers
    <3> QED
      BY <2>1, <3>1, <3>2, <3>3 DEF RetireQueued, Overtaken
  <2>5. owned[RunSite] = {} /\ owned[SpillSite] = {} /\ owned[SwapSite] = {}
    BY <2>1, <2>2 DEF Batches, Spilling
  <2>6. \A s \in Sites : owned[s] \subseteq left
    <3>1. \A s \in Sites : s \in {RunSite, SpillSite, SwapSite}
                           \/ \E r \in Rets : s = <<"rec", r>> \/ s = <<"task", r>>
      BY DEF Sites, RunSite, SpillSite, SwapSite
    <3>2. \A r \in Rets : owned[<<"task", r>>] \subseteq left
      BY <2>4
    <3> QED
      BY <2>3, <2>5, <3>1, <3>2
  <2>7. \A r \in Overtaken : <<"task", r>> \in Sites /\ owned[<<"task", r>>] \in SUBSET Pages
    BY <2>1, <2>4, SiteNames DEF TypeOK, LedgerTypes
  <2> HIDE DEF left
  <2>8. \A p \in Pages : charges[p] > 0 <=> p \in left
    <3> SUFFICES ASSUME NEW p \in Pages PROVE charges[p] > 0 <=> p \in left
      OBVIOUS
    <3>1. charges[p] = Count(owned, p)
      BY DEF LedgerExact, Count
    <3>2. CASE p \in left
      <4>1. PICK r \in Overtaken : p \in owned[<<"task", r>>]
        BY <3>2 DEF left
      <4> QED
        BY <2>7, <3>1, <3>2, <4>1, CountType
    <3>3. CASE p \notin left
      <4>1. {s \in Sites : p \in owned[s]} = {}
        BY <2>6, <3>3
      <4>2. Count(owned, p) = 0
        BY <4>1, FS_EmptySet DEF Count
      <4> QED
        BY <3>1, <3>3, <4>2
    <3> QED
      BY <3>2, <3>3
  <2>9. used = Bytes(left)
    <3>1. {p \in Pages : charges[p] > 0} = left
      BY <2>7, <2>8 DEF left
    <3> QED
      BY <3>1 DEF BudgetRespected
  <2>10. ASSUME NEW p \in Pages, refs[p] > 0, p \notin left PROVE p \in cache
    <3>1. Balanced(refs, Live, jobHeld, cache, held, mon.page, p)
      BY <2>1, RefsForm
    <3>2. JobCount(jobHeld, p) = 0
      BY <2>2, JobCountType
    <3>3. One(p \in held) = 0 /\ One(p = mon.page) = 0
      BY <2>1, <2>2, ConstantsAssumption DEF InHand, One
    <3>4. Count(Live, p) = 0
      <4>1. {s \in Sites : p \in Live[s]} = {}
        BY <2>6, <2>10 DEF Live
      <4> QED
        BY <4>1, FS_EmptySet DEF Count
    <3>5. refs[p] = 0 + 0 + One(p \in cache) + 0 + 0
      BY <3>1, <3>2, <3>3, <3>4 DEF Balanced
    <3> QED
      BY <2>10, <3>5 DEF One
  <2> QED
    BY <2>2, <2>3, <2>9, <2>10
<1> QED
  BY <1>1, ShapeCorrect, LedgerCorrect, OwnershipCorrect, PTL

=============================================================================
