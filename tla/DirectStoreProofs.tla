------------------------- MODULE DirectStoreProofs -------------------------
(***************************************************************************)
(* The store side of the engine, proved for any number of requests, puts   *)
(* and adverse events: the blocks of a request are given back only when no *)
(* put and no background store reads them any more.                        *)
(***************************************************************************)
EXTENDS DirectStore, FiniteSetTheorems, SequenceTheorems, TLAPS

-----------------------------------------------------------------------------
(* Types, as far as the blocks of a request depend on them *)

Waits == {"wait", "replay", "broken", "drain"}
Failing == {"wait", "replay", "broken"}
Calling == {"look", "plan", "tail", "mark", "all", "group", "final", "finalize", "put",
            "report", "abort", "drop", "preempt"}
Ended == {"pill", "join", "closed"}
Targets == {"all", "group", "final", "report", "abort", "preempt", "close"}

IsSeq(s) == \E S : s \in Seq(S)

Places == Waits \cup Calling \cup Ended \cup {"idle", "close", "dead"}
MainTypes ==
  /\ DOMAIN main = DOMAIN Idle /\ main.pc \in Places /\ main.marked \in BOOLEAN
  /\ main.pc \in Waits \cup Calling => main.r \in Reqs
  /\ main.pc \in Waits => main.cont \in Targets

StateTypes == DOMAIN st = Reqs /\ \A r \in Reqs : DOMAIN st[r] = DOMAIN NoState /\ st[r].futures \in Seq(Nat)

JobTypes ==
  /\ IsSeq(job)
  /\ \A j \in 1 .. Len(job) :
       /\ DOMAIN job[j] = {"r", "pages", "ends", "base", "is", "called", "back"}
       /\ job[j].r \in Reqs /\ job[j].called \in BOOLEAN /\ job[j].is \in {"run", "ok", "bad", "lost"}

PhaseTypes ==
  /\ DOMAIN phase = Reqs /\ \A r \in Reqs : DOMAIN phase[r] = {"is", "at", "base"}
  /\ asked.deferred \subseteq Reqs

QueueTypes == queue \in Seq(Reqs \cup {"pill"}) /\ busy \in Reqs \cup {None, "pill"}

Types == MainTypes /\ StateTypes /\ JobTypes /\ PhaseTypes /\ QueueTypes /\ cnt \in [Reqs -> Nat]

-----------------------------------------------------------------------------
(* The count of a request *)

Bit(b) == IF b THEN 1 ELSE 0
Unsettled(r) == {j \in 1 .. Len(job) : job[j].r = r /\ ~job[j].called}
Waiting(r) == {i \in 1 .. Len(queue) : queue[i] = r}
Puts(r) == Cardinality(Unsettled(r))
Stores(r) == Cardinality(Waiting(r))
Putting(r) == main.pc = "put" /\ main.r = r
Marked(r) == main.marked /\ main.r = r

\* What a request is counted for: its unsettled puts, its stores before, in and
\* behind the queue, and the final wait.  The count is never below it.
Covers == \A r \in Reqs : cnt[r] >= Puts(r) + Stores(r) + Bit(busy = r) + Bit(Putting(r)) + Bit(Marked(r))

-----------------------------------------------------------------------------
(* Puts, futures and the repair *)

Among(j, s) == \E i \in 1 .. Len(s) : s[i] = j

\* A put that is settled has ended; a failed one is settled by the repair only,
\* after it left the futures.  Until the worker thread dies every put in flight is
\* among its request's futures, and none is left when close() is past the puts.
PutsKnown ==
  /\ \A j \in 1 .. Len(job) : job[j].called => job[j].is \in {"ok", "bad"}
  /\ \A r \in Reqs : \A i \in 1 .. Len(st[r].futures) :
       LET j == st[r].futures[i]
       IN j \in 1 .. Len(job) /\ job[j].r = r /\ ~(job[j].called /\ job[j].is = "bad")
  /\ main.pc # "dead" => \A j \in 1 .. Len(job) : InFlight(j) => Among(j, st[job[j].r].futures)
  /\ main.pc \in Ended => \A j \in 1 .. Len(job) : ~InFlight(j)

\* The failed puts a wait has met so far are still counted.
Failures ==
  /\ main.bad # {} => main.pc \in Failing
  /\ main.pc \in {"replay", "broken"} => st[main.r].futures = <<>>
  /\ \A j \in main.bad : /\ j \in 1 .. Len(job) /\ job[j].r = main.r
                         /\ job[j].is = "bad" /\ ~job[j].called

-----------------------------------------------------------------------------
(* Phases *)

Told(r) == phase[r].is = "told"

\* A call is made for a running request only, and stays with it until it ends.
Phases ==
  /\ main.pc \in Calling \/ (main.pc \in Waits /\ main.cont # "close") => phase[main.r].is = "running"
  /\ \A r \in asked.deferred : Told(r)
  /\ \A r \in Reqs : Freed(r) => Unsettled(r) = {} /\ Waiting(r) = {} /\ busy # r

IInv == Types /\ Covers /\ PutsKnown /\ Failures /\ Phases

-----------------------------------------------------------------------------
(* Sequences and cardinalities *)

\* A function on the positions of a sequence is one.
LEMMA SeqUpdate ==
  ASSUME NEW s, IsSeq(s), NEW t, DOMAIN t = 1 .. Len(s), t = [i \in 1 .. Len(s) |-> t[i]]
  PROVE  IsSeq(t) /\ Len(t) = Len(s)
<1>1. PICK S : s \in Seq(S)
  BY DEF IsSeq
<1>2. Len(s) \in Nat
  BY <1>1
<1> DEFINE T == {t[i] : i \in 1 .. Len(s)}
<1>3. t \in [1 .. Len(s) -> T]
  OBVIOUS
<1> HIDE DEF T
<1>4. t \in Seq(T) /\ Len(t) = Len(s)
  BY <1>2, <1>3
<1> QED
  BY <1>4 DEF IsSeq

LEMMA SeqAppend ==
  ASSUME NEW s, IsSeq(s), NEW x
  PROVE  /\ IsSeq(Append(s, x)) /\ Len(s) \in Nat /\ Len(Append(s, x)) = Len(s) + 1
         /\ Append(s, x)[Len(s) + 1] = x
         /\ \A i \in 1 .. Len(s) : Append(s, x)[i] = s[i]
<1>1. PICK S : s \in Seq(S)
  BY DEF IsSeq
<1>2. s \in Seq(S \cup {x}) /\ x \in S \cup {x}
  BY <1>1
<1>3. Append(s, x) \in Seq(S \cup {x})
  BY <1>2
<1> QED
  BY <1>2, <1>3 DEF IsSeq

LEMMA JobLen == JobTypes => Len(job) \in Nat
BY DEF JobTypes, IsSeq

\* What is counted is finite.
LEMMA Counted ==
  ASSUME Types, NEW r \in Reqs
  PROVE  /\ IsFiniteSet(Unsettled(r)) /\ Puts(r) \in Nat
         /\ IsFiniteSet(Waiting(r)) /\ Stores(r) \in Nat
         /\ Puts(r) = 0 => Unsettled(r) = {}
         /\ Stores(r) = 0 => Waiting(r) = {}
<1>1. Len(job) \in Nat /\ Len(queue) \in Nat
  BY JobLen DEF Types, QueueTypes
<1>2. IsFiniteSet(1 .. Len(job)) /\ IsFiniteSet(1 .. Len(queue))
  BY <1>1, FS_Interval
<1>3. Unsettled(r) \subseteq 1 .. Len(job) /\ Waiting(r) \subseteq 1 .. Len(queue)
  BY DEF Unsettled, Waiting
<1>4. IsFiniteSet(Unsettled(r)) /\ IsFiniteSet(Waiting(r))
  BY <1>2, <1>3, FS_Subset
<1>5. Puts(r) \in Nat /\ Stores(r) \in Nat
  BY <1>4, FS_CardinalityType DEF Puts, Stores
<1>6. (Puts(r) = 0 => Unsettled(r) = {}) /\ (Stores(r) = 0 => Waiting(r) = {})
  BY <1>4, FS_EmptySet DEF Puts, Stores
<1> QED
  BY <1>4, <1>5, <1>6

\* A request with no count left is not read.
LEMMA Uncounted ==
  ASSUME Types, Covers, NEW r \in Reqs, cnt[r] = 0
  PROVE  Unsettled(r) = {} /\ Waiting(r) = {} /\ busy # r
<1>1. Puts(r) \in Nat /\ Stores(r) \in Nat /\ cnt[r] >= Puts(r) + Stores(r) + Bit(busy = r) + Bit(Putting(r)) + Bit(Marked(r))
  BY Counted DEF Covers
<1>2. Bit(busy = r) \in {0, 1} /\ Bit(Putting(r)) \in {0, 1} /\ Bit(Marked(r)) \in {0, 1}
  BY DEF Bit
<1>3. Puts(r) = 0 /\ Stores(r) = 0 /\ Bit(busy = r) = 0
  BY <1>1, <1>2
<1> QED
  BY <1>3, Counted DEF Bit

-----------------------------------------------------------------------------
(* Steps that leave the puts and the queue alone *)

SameStates ==
  /\ DOMAIN st' = Reqs
  /\ \A r \in Reqs : DOMAIN st'[r] = DOMAIN NoState /\ st'[r].futures = st[r].futures

\* The count goes down for the final wait only.
CountKept == cnt' = cnt \/ (cnt' = UnmarkedBy(cnt, main) /\ ~main'.marked)

LEMMA QuietCount ==
  ASSUME Types, Covers, UNCHANGED <<job, queue, busy>>, CountKept, main'.pc # "put",
         main'.marked => main.marked /\ main'.r = main.r
  PROVE  Covers' /\ cnt' \in [Reqs -> Nat]
<1> USE DEF Types
<1>1. cnt' \in [Reqs -> Nat]
  BY DEF CountKept, UnmarkedBy, Decrement
<1>2. ASSUME NEW r \in Reqs
      PROVE  cnt'[r] >= Puts(r)' + Stores(r)' + Bit(busy' = r) + Bit(Putting(r)') + Bit(Marked(r)')
  <2>1. Puts(r)' = Puts(r) /\ Stores(r)' = Stores(r)
    BY DEF Puts, Stores, Unsettled, Waiting
  <2>2. Puts(r) \in Nat /\ Stores(r) \in Nat
    BY Counted
  <2>3. cnt[r] >= Puts(r) + Stores(r) + Bit(busy = r) + Bit(Putting(r)) + Bit(Marked(r)) /\ cnt[r] \in Nat
    BY DEF Covers
  <2>4. Bit(Putting(r)') = 0 /\ Bit(Putting(r)) \in {0, 1} /\ Bit(busy = r) \in {0, 1}
    BY DEF Bit, Putting
  <2>5. CASE cnt' = cnt
    <3>1. Bit(Marked(r)') \in {0, 1} /\ (Bit(Marked(r)') = 1 => Bit(Marked(r)) = 1) /\ Bit(Marked(r)) \in {0, 1}
      BY DEF Bit, Marked
    <3> QED
      BY <2>1, <2>2, <2>3, <2>4, <2>5, <3>1
  <2>6. CASE cnt' = UnmarkedBy(cnt, main) /\ ~main'.marked
    <3>1. Bit(Marked(r)') = 0 /\ Bit(Marked(r)) = IF main.marked /\ main.r = r THEN 1 ELSE 0
      BY <2>6 DEF Bit, Marked
    <3>2. cnt'[r] = IF main.marked /\ main.r = r THEN (IF cnt[r] > 1 THEN cnt[r] - 1 ELSE 0) ELSE cnt[r]
      BY <2>6 DEF UnmarkedBy, Decrement
    <3> QED
      BY <2>1, <2>2, <2>3, <2>4, <3>1, <3>2
  <2> QED
    BY <2>5, <2>6 DEF CountKept
<1> QED
  BY <1>1, <1>2 DEF Covers

LEMMA QuietStep ==
  ASSUME IInv, UNCHANGED <<job, queue, busy>>, SameStates, CountKept,
         MainTypes', main'.pc # "put", main.pc # "dead",
         main'.marked => main.marked /\ main'.r = main.r,
         main'.pc \in Ended => main.pc \in Ended \/ \A r \in Reqs : st[r].futures = <<>>,
         main'.bad = {} \/ (main'.bad = main.bad /\ main'.r = main.r /\ main'.pc \in Failing),
         main'.pc \in {"replay", "broken"} => st[main'.r].futures = <<>>,
         PhaseTypes', Phases'
  PROVE  IInv'
<1>1. Covers' /\ cnt' \in [Reqs -> Nat]
  BY QuietCount DEF IInv
<1>2. StateTypes' /\ JobTypes' /\ QueueTypes'
  BY DEF IInv, Types, StateTypes, JobTypes, QueueTypes, SameStates, IsSeq
<1>3. PutsKnown'
  <2>1. \A r \in Reqs : \A j : Among(j, st'[r].futures) <=> Among(j, st[r].futures)
    BY DEF SameStates
  <2>2. \A j \in 1 .. Len(job) : job[j].r \in Reqs /\ (InFlight(j)' <=> InFlight(j))
    BY DEF IInv, Types, JobTypes, InFlight
  <2>3. main'.pc \in Ended => \A j \in 1 .. Len(job) : ~InFlight(j)
    <3>1. CASE \A r \in Reqs : st[r].futures = <<>>
      <4>1. \A r \in Reqs : \A j : ~Among(j, st[r].futures)
        BY <3>1 DEF Among
      <4> QED
        BY <2>2, <4>1 DEF IInv, PutsKnown
    <3> QED
      BY <3>1 DEF IInv, PutsKnown
  <2>4. \A r \in Reqs : \A i \in 1 .. Len(st'[r].futures) :
          LET j == st'[r].futures[i]
          IN j \in 1 .. Len(job) /\ job[j].r = r /\ ~(job[j].called /\ job[j].is = "bad")
    BY DEF IInv, PutsKnown, SameStates
  <2>5. main'.pc # "dead" => \A j \in 1 .. Len(job) : InFlight(j)' => Among(j, st'[job[j].r].futures)
    BY <2>1, <2>2 DEF IInv, PutsKnown
  <2>6. \A j \in 1 .. Len(job) : job[j].called => job[j].is \in {"ok", "bad"}
    BY DEF IInv, PutsKnown
  <2> QED
    BY <2>2, <2>3, <2>4, <2>5, <2>6 DEF PutsKnown
<1>4. Failures'
  <2>1. main'.bad # {} => main'.pc \in Failing
    OBVIOUS
  <2>2. main'.pc \in {"replay", "broken"} => st'[main'.r].futures = <<>>
    BY DEF MainTypes, Waits, SameStates
  <2>3. ASSUME NEW j \in main'.bad
        PROVE  j \in 1 .. Len(job) /\ job[j].r = main'.r /\ job[j].is = "bad" /\ ~job[j].called
    BY <2>3 DEF IInv, Failures, Failing
  <2> QED
    BY <2>1, <2>2, <2>3 DEF Failures, Failing
<1> QED
  BY <1>1, <1>2, <1>3, <1>4 DEF IInv, Types

-----------------------------------------------------------------------------
(* The steps of a call *)

OnCall == main.pc \in Calling \/ (main.pc \in Waits /\ main.cont # "close")

\* The call goes on, or it ends.
GoesOn ==
  /\ main'.r = main.r /\ main'.pc \in (Waits \cup Calling) \ {"put"}
  /\ main'.bad = {} \/ (main'.bad = main.bad /\ main'.pc \in Failing)
  /\ main'.pc \in Waits => main'.cont \in Targets
  /\ main'.pc \in {"replay", "broken"} => st[main.r].futures = <<>>
  /\ OnCall \/ (main'.pc \in Waits /\ main'.cont = "close")
Leaves == main'.pc \in {"idle", "close", "dead"} /\ main'.bad = {} /\ (main'.marked => main'.r = main.r)

LEMMA CallStep ==
  ASSUME IInv, UNCHANGED <<job, queue, busy, phase, asked>>, SameStates, CountKept,
         main.pc \in Waits \cup Calling, DOMAIN main' = DOMAIN Idle,
         main'.marked \in BOOLEAN, main'.marked => main.marked,
         GoesOn \/ Leaves
  PROVE  IInv'
<1>1. MainTypes'
  BY DEF MainTypes, GoesOn, Failing, Leaves, Places, IInv, Types, Waits, Calling, Ended
<1>2. main'.pc # "put" /\ main.pc # "dead" /\ main'.pc \notin Ended
  BY DEF GoesOn, Failing, Leaves, Waits, Calling, Ended
<1>3. /\ main'.marked => main.marked /\ main'.r = main.r
      /\ main'.bad = {} \/ (main'.bad = main.bad /\ main'.r = main.r /\ main'.pc \in Failing)
      /\ main'.pc \in {"replay", "broken"} => st[main'.r].futures = <<>>
  BY DEF GoesOn, Failing, Leaves
<1>4. PhaseTypes'
  BY DEF IInv, Types, PhaseTypes
<1>5. Phases'
  <2>1. OnCall' => OnCall /\ main'.r = main.r
    BY DEF OnCall, GoesOn, Failing, Leaves, Waits, Calling
  <2>2. OnCall => phase[main.r].is = "running"
    BY DEF IInv, Phases, OnCall
  <2> QED
    BY <2>1, <2>2 DEF IInv, Phases, OnCall, Told, Freed, Unsettled, Waiting
<1> QED
  BY <1>1, <1>2, <1>3, <1>4, <1>5, QuietStep

\* States that are written without their futures.
LEMMA StateKept ==
  ASSUME StateTypes, NEW r \in Reqs, NEW s, st' = [st EXCEPT ![r] = s],
         DOMAIN s = DOMAIN NoState, s.futures = st[r].futures
  PROVE  SameStates
BY DEF StateTypes, SameStates

LEMMA StatesKept == StateTypes /\ UNCHANGED st => SameStates
BY DEF StateTypes, SameStates

\* An exception: its handler waits for the puts, drops the state or is missing.
LEMMA RaiseTyped ==
  ASSUME NEW m, DOMAIN m = DOMAIN Idle, m.marked \in BOOLEAN
  PROVE  /\ DOMAIN RaiseTo(m) = DOMAIN Idle /\ ~RaiseTo(m).marked /\ RaiseTo(m).marked \in BOOLEAN
         /\ \/ RaiseTo(m).pc = "dead" /\ RaiseTo(m).bad = {}
            \/ /\ m.cont \notin {"preempt", "close"}
               /\ RaiseTo(m).r = m.r /\ RaiseTo(m).bad = m.bad
               /\ \/ RaiseTo(m).pc = "drop"
                  \/ RaiseTo(m).pc = "wait" /\ RaiseTo(m).cont = "abort"
BY DEF RaiseTo, Idle

\* Outside a wait nothing has failed yet.
LEMMA RaiseGoes ==
  ASSUME IInv, main.pc \in Calling, main' = RaiseTo(main)
  PROVE  /\ DOMAIN main' = DOMAIN Idle /\ ~main'.marked /\ main'.marked \in BOOLEAN
         /\ GoesOn \/ Leaves
<1>1. DOMAIN main = DOMAIN Idle /\ main.marked \in BOOLEAN /\ main.bad = {}
  BY DEF IInv, Types, MainTypes, Failures, Failing, Calling, Waits
<1> QED
  BY <1>1, RaiseTyped DEF GoesOn, Failing, Leaves, OnCall, Waits, Calling, Targets

LEMMA RaisedKeeps ==
  ASSUME IInv, main.pc \in Calling, main' = RaiseTo(main), cnt' = UnmarkedBy(cnt, main),
         UNCHANGED <<st, job, queue, busy, phase, asked>>
  PROVE  IInv'
<1>1. /\ DOMAIN main' = DOMAIN Idle /\ ~main'.marked /\ main'.marked \in BOOLEAN
      /\ GoesOn \/ Leaves
  BY RaiseGoes
<1>2. SameStates /\ CountKept
  BY <1>1, StatesKept DEF CountKept, IInv, Types
<1> QED
  BY <1>1, <1>2, CallStep

LEMMA RaiseKeeps ==
  ASSUME IInv, main.pc \in Calling, Raise
  PROVE  IInv'
BY RaisedKeeps DEF Raise

-----------------------------------------------------------------------------
(* How calls begin *)

PhaseSame ==
  /\ DOMAIN phase' = Reqs
  /\ \A q \in Reqs : DOMAIN phase'[q] = {"is", "at", "base"} /\ phase'[q].is = phase[q].is

LEMMA StartStep ==
  ASSUME IInv, main.pc = "idle", UNCHANGED <<job, queue, busy, cnt, asked>>, SameStates, PhaseSame,
         DOMAIN main' = DOMAIN Idle, main'.pc \in {"idle", "look", "wait", "pill"},
         main'.marked => main.marked /\ main'.r = main.r, main'.marked \in BOOLEAN, main'.bad = {},
         main'.pc \in {"look", "wait"} => main'.r \in Reqs,
         main'.pc = "wait" => main'.cont \in Targets,
         main'.pc = "look" \/ (main'.pc = "wait" /\ main'.cont # "close") => phase[main'.r].is = "running",
         main'.pc = "pill" => \A r \in Reqs : st[r].futures = <<>>
  PROVE  IInv'
<1>1. MainTypes'
  BY DEF MainTypes, Places, IInv, Types, Waits, Calling, Ended
<1>2. /\ main'.pc # "put" /\ main.pc # "dead" /\ main'.pc \notin {"replay", "broken"}
      /\ main'.pc \in Ended => main'.pc = "pill"
  BY DEF Ended
<1>3. PhaseTypes' /\ CountKept
  BY DEF IInv, Types, PhaseTypes, PhaseSame, CountKept
<1>4. Phases'
  <2>1. \A r \in Reqs : (Told(r)' <=> Told(r)) /\ (Freed(r)' <=> Freed(r))
    BY DEF Told, Freed, PhaseSame
  <2>2. \A r \in Reqs : Unsettled(r)' = Unsettled(r) /\ Waiting(r)' = Waiting(r)
    BY DEF Unsettled, Waiting
  <2>3. OnCall' => phase'[main'.r].is = "running"
    BY DEF OnCall, Waits, Calling, PhaseSame
  <2>4. asked.deferred \subseteq Reqs
    BY DEF IInv, Types, PhaseTypes
  <2> QED
    BY <2>1, <2>2, <2>3, <2>4 DEF IInv, Phases, OnCall
<1> QED
  BY <1>1, <1>2, <1>3, <1>4, QuietStep

LEMMA BackTyped ==
  ASSUME NEW r, NEW e
  PROVE  /\ DOMAIN Back(r, e) = DOMAIN Idle /\ Back(r, e).marked = FALSE /\ Back(r, e).bad = {}
         /\ \/ Back(r, e).pc = "idle"
            \/ Back(r, e).pc = "wait" /\ Back(r, e).r = r /\ Back(r, e).cont = "report"
BY DEF Back, Idle

\* store_direct_prefill begins; a final call that was answered before ends at once.
LEMMA OpenKeeps ==
  ASSUME IInv, At("idle"), NEW r \in Reqs, phase[r].is = "running",
         NEW e, NEW base, NEW final, NEW ev, NEW planned, NEW taken, NEW mapped,
         OpenCall(r, e, base, final, ev, planned, taken, mapped),
         UNCHANGED <<job, queue, busy, cnt, asked>>, PhaseSame
  PROVE  IInv'
<1>1. StateTypes /\ main.pc = "idle"
  BY DEF IInv, Types, At
<1>2. SameStates
  <2> DEFINE begun == [st[r] EXCEPT !.exists = TRUE, !.acc = e, !.sub = Covered(@, Prefix(r, base)),
                                    !.com = Covered(@, Prefix(r, base))]
             fresh == Remember(begun, e, ev)
             again == [st[r] EXCEPT !.acc = e]
  <2>1. DOMAIN st[r] = DOMAIN NoState
    BY <1>1 DEF StateTypes
  <2>2. DOMAIN begun = DOMAIN NoState /\ begun.futures = st[r].futures
    BY <2>1 DEF NoState
  <2>3. st' = [st EXCEPT ![r] = again] \/ \E n : st' = [st EXCEPT ![r] = [fresh EXCEPT !.planned = n]]
    BY DEF OpenCall
  <2> HIDE DEF begun
  <2>4. DOMAIN fresh = DOMAIN NoState /\ fresh.futures = st[r].futures
    BY <2>2 DEF Remember, NoState
  <2>5. DOMAIN again = DOMAIN NoState /\ again.futures = st[r].futures
    BY <2>1 DEF NoState
  <2> HIDE DEF fresh, again
  <2>6. ASSUME NEW n, st' = [st EXCEPT ![r] = [fresh EXCEPT !.planned = n]]
        PROVE  SameStates
    <3>1. DOMAIN [fresh EXCEPT !.planned = n] = DOMAIN NoState /\ [fresh EXCEPT !.planned = n].futures = st[r].futures
      BY <2>4 DEF NoState
    <3> QED
      BY <1>1, <2>6, <3>1, StateKept
  <2> QED
    BY <1>1, <2>3, <2>5, <2>6, StateKept
<1>3. /\ DOMAIN main' = DOMAIN Idle /\ main'.marked = FALSE /\ main'.bad = {}
      /\ \/ main'.pc = "idle"
         \/ main'.pc = "look" /\ main'.r = r
         \/ main'.pc = "wait" /\ main'.r = r /\ main'.cont = "report"
  <2>1. CASE main' = Back(r, e)
    <3>1. /\ DOMAIN Back(r, e) = DOMAIN Idle /\ Back(r, e).marked = FALSE /\ Back(r, e).bad = {}
          /\ \/ Back(r, e).pc = "idle"
             \/ Back(r, e).pc = "wait" /\ Back(r, e).r = r /\ Back(r, e).cont = "report"
      BY DEF Back, Idle
    <3> QED
      BY <2>1, <3>1
  <2>2. ASSUME NEW cand, main' = [Idle EXCEPT !.pc = "look", !.r = r, !.e = e, !.base = base, !.final = final,
                                              !.cand = cand]
        PROVE  DOMAIN main' = DOMAIN Idle /\ main'.marked = FALSE /\ main'.bad = {} /\ main'.pc = "look" /\ main'.r = r
    BY <2>2 DEF Idle
  <2>3. \/ main' = Back(r, e)
        \/ \E cand : main' = [Idle EXCEPT !.pc = "look", !.r = r, !.e = e, !.base = base, !.final = final,
                                          !.cand = cand]
    BY DEF OpenCall
  <2> QED
    BY <2>1, <2>2, <2>3
<1> QED
  BY <1>1, <1>2, <1>3, StartStep DEF Targets

LEMMA PhaseMoved ==
  ASSUME PhaseTypes, NEW r \in Reqs, NEW at, NEW base, phase' = [phase EXCEPT ![r].at = at, ![r].base = base]
  PROVE  PhaseSame
BY DEF PhaseTypes, PhaseSame

LEMMA EarlyCallKeeps ==
  ASSUME IInv, NEW r \in Reqs, EarlyCall(r)
  PROVE  IInv'
<1>1. PhaseSame
  BY PhaseMoved DEF EarlyCall, IInv, Types
<1>2. PICK e, base, ev : OpenCall(r, e, base, e = Prompt[r], ev, TRUE, TRUE, FALSE)
  BY DEF EarlyCall
<1> QED
  BY <1>1, <1>2, OpenKeeps DEF EarlyCall

LEMMA BatchCallKeeps ==
  ASSUME IInv, NEW r \in Reqs, BatchCall(r)
  PROVE  IInv'
<1>1. PICK e, base : BatchStep(r, e, base)
  BY DEF BatchCall
<1>2. PhaseSame /\ main.pc = "idle" /\ phase[r].is = "running"
  BY <1>1, PhaseMoved DEF BatchStep, BatchCall, At, IInv, Types
<1>3. CASE Skipped(r)
  <2>1. main' = Back(r, e) /\ UNCHANGED <<st, job, queue, busy, cnt, asked>>
    BY <1>1, <1>3 DEF BatchStep
  <2>2. SameStates
    BY <2>1, StatesKept DEF IInv, Types
  <2>3. /\ DOMAIN main' = DOMAIN Idle /\ main'.marked = FALSE /\ main'.bad = {}
        /\ \/ main'.pc = "idle"
           \/ main'.pc = "wait" /\ main'.r = r /\ main'.cont = "report"
    <3>1. /\ DOMAIN Back(r, e) = DOMAIN Idle /\ Back(r, e).marked = FALSE /\ Back(r, e).bad = {}
          /\ \/ Back(r, e).pc = "idle"
             \/ Back(r, e).pc = "wait" /\ Back(r, e).r = r /\ Back(r, e).cont = "report"
      BY DEF Back, Idle
    <3> QED
      BY <2>1, <3>1
  <2> QED
    BY <1>2, <2>1, <2>2, <2>3, StartStep DEF Targets
<1>4. CASE ~Skipped(r)
  <2>1. PICK ev, planned, taken, mapped : OpenCall(r, e, base, e = Prompt[r], ev, planned, taken, mapped)
    BY <1>1, <1>4 DEF BatchStep
  <2>2. UNCHANGED <<job, queue, busy, cnt, asked>>
    BY <1>1 DEF BatchStep
  <2> QED
    BY <1>2, <2>1, <2>2, OpenKeeps DEF At
<1> QED
  BY <1>3, <1>4

-----------------------------------------------------------------------------
(* Look-up and plan *)

\* In the middle of a call outside its waits.
LEMMA InCall ==
  ASSUME IInv, main.pc \in Calling
  PROVE  /\ main.r \in Reqs /\ OnCall /\ main.bad = {} /\ DOMAIN main = DOMAIN Idle /\ main.marked \in BOOLEAN
         /\ main.pc # "dead" /\ main.pc \notin Ended /\ phase[main.r].is = "running" /\ ~Freed(main.r)
BY DEF IInv, Types, MainTypes, Failures, Failing, Phases, OnCall, Waits, Calling, Ended, Freed

LEMMA MakeRoomKeeps ==
  ASSUME IInv, MakeRoom
  PROVE  IInv'
<1>1. main.pc \in Calling /\ UNCHANGED <<main, st, job, queue, busy, cnt, phase, asked>>
  BY DEF MakeRoom, At, Calling
<1>2. SameStates /\ CountKept
  BY <1>1, StatesKept DEF IInv, Types, CountKept
<1>3. main.pc # "put"
  BY DEF MakeRoom, At
<1>4. GoesOn
  BY <1>1, <1>3, InCall DEF GoesOn, Failing, Calling, Waits
<1> QED
  BY <1>1, <1>2, <1>4, InCall, CallStep

LEMMA LookUpKeeps ==
  ASSUME IInv, LookUp
  PROVE  IInv'
<1>1. main.pc \in Calling /\ UNCHANGED <<job, queue, busy, cnt, phase, asked>>
  BY DEF LookUp, At, Calling
<1>2. SameStates
  <2> DEFINE r == main.r
             missing == {p \in main.cand : ~Present(r, p)}
             advanced == Advance(st[r], main.cand, missing)
  <2>1. DOMAIN st[r] = DOMAIN NoState /\ r \in Reqs /\ StateTypes
    BY <1>1, InCall DEF IInv, Types, StateTypes
  <2>2. UNCHANGED st \/ st' = [st EXCEPT ![r] = advanced]
    BY DEF LookUp
  <2> HIDE DEF missing
  <2>3. DOMAIN advanced = DOMAIN NoState /\ advanced.futures = st[r].futures
    BY <2>1 DEF Advance, NoState
  <2> HIDE DEF advanced, r
  <2> QED
    BY <2>1, <2>2, <2>3, StateKept, StatesKept
<1>3. /\ DOMAIN main' = DOMAIN Idle /\ main'.marked \in BOOLEAN /\ (main'.marked => main.marked)
      /\ GoesOn \/ Leaves
  <2>1. CASE main' = RaiseTo(main)
    BY <1>1, <2>1, RaiseGoes
  <2>2. CASE main' # RaiseTo(main)
    <3>1. /\ DOMAIN main' = DOMAIN Idle /\ main'.marked = main.marked /\ main'.r = main.r /\ main'.bad = main.bad
          /\ main'.pc = "plan" \/ (main'.pc = "wait" /\ main'.cont = "all")
      BY <1>1, <2>2, InCall DEF LookUp, Idle
    <3> QED
      BY <1>1, <3>1, InCall DEF GoesOn, Failing, Waits, Calling, Targets
  <2> QED
    BY <2>1, <2>2
<1> QED
  BY <1>1, <1>2, <1>3, CallStep DEF CountKept

LEMMA PlanGroupKeeps ==
  ASSUME IInv, PlanGroup
  PROVE  IInv'
<1>1. main.pc \in Calling /\ UNCHANGED <<st, job, queue, busy, cnt, phase, asked>>
  BY DEF PlanGroup, At, Calling
<1>2. SameStates /\ CountKept
  BY <1>1, StatesKept DEF IInv, Types, CountKept
<1>3. /\ DOMAIN main' = DOMAIN Idle /\ main'.marked = main.marked /\ main'.r = main.r /\ main'.bad = main.bad
      /\ main'.pc = "plan" \/ (main'.pc = "wait" /\ main'.cont = "group")
  <2> DEFINE next == [main EXCEPT !.todo = Tail(@)]
  <2>1. main.pc = "plan" /\ DOMAIN main = DOMAIN Idle
    BY <1>1, InCall DEF PlanGroup, At
  <2>2. /\ DOMAIN next = DOMAIN Idle /\ next.marked = main.marked /\ next.r = main.r /\ next.bad = main.bad
        /\ next.pc = "plan"
    BY <2>1 DEF Idle
  <2> HIDE DEF next
  <2>3. \/ \E batch, window : main' = [next EXCEPT !.batch = batch, !.window = window]
        \/ main' = next
        \/ \E n : main' = [main EXCEPT !.pc = "wait", !.cont = "group", !.from = n]
    BY DEF PlanGroup, next
  <2>4. CASE \E batch, window : main' = [next EXCEPT !.batch = batch, !.window = window]
    BY <2>2, <2>4 DEF Idle
  <2>5. CASE \E n : main' = [main EXCEPT !.pc = "wait", !.cont = "group", !.from = n]
    BY <2>1, <2>5 DEF Idle
  <2> QED
    BY <2>2, <2>3, <2>4, <2>5
<1>4. GoesOn
  BY <1>1, <1>3, InCall DEF GoesOn, Failing, Waits, Calling, Targets
<1> QED
  BY <1>1, <1>2, <1>3, <1>4, InCall, CallStep

-----------------------------------------------------------------------------
(* Submission *)

\* A put that is submitted is counted before it can end, and its future is the
\* last one of its request.
LEMMA TrackKeeps ==
  ASSUME IInv, main.pc \in Calling, NEW pages, NEW ends, Track(main.r, pages, ends),
         StateTypes', \A r \in Reqs \ {main.r} : st'[r].futures = st[r].futures,
         st'[main.r].futures = Append(st[main.r].futures, Len(job) + 1),
         UNCHANGED <<queue, busy, phase, asked>>,
         DOMAIN main' = DOMAIN Idle, main'.marked \in BOOLEAN, main'.marked => main.marked /\ main'.r = main.r,
         main'.bad = {},
         \/ main'.pc \in Calling \ {"put"} /\ main'.r = main.r
         \/ main'.pc = "wait" /\ main'.r = main.r /\ main'.cont = "report"
         \/ main'.pc = "idle"
  PROVE  IInv'
<1> DEFINE n == Len(job) + 1
           R == main.r
<1>1. R \in Reqs /\ Len(job) \in Nat /\ Types
  BY InCall, JobLen DEF IInv, Types
<1>2. /\ IsSeq(job') /\ Len(job') = n
      /\ job'[n] = [r |-> R, pages |-> pages, ends |-> ends, base |-> main.base,
                    is |-> "run", called |-> FALSE, back |-> FALSE]
      /\ \A j \in 1 .. Len(job) : job'[j] = job[j]
  BY <1>1, SeqAppend DEF Track, Types, JobTypes
<1>a. /\ DOMAIN job'[n] = {"r", "pages", "ends", "base", "is", "called", "back"}
      /\ job'[n].r = R /\ job'[n].is = "run" /\ job'[n].called = FALSE
  BY <1>2
<1>3. \A j \in 1 .. Len(job') : j \in 1 .. Len(job) \/ j = n
  BY <1>1, <1>2
<1>4. MainTypes'
  BY <1>1 DEF MainTypes, Places, Waits, Calling, Targets
<1>5. JobTypes'
  <2>1. \A j \in 1 .. Len(job) : /\ DOMAIN job[j] = {"r", "pages", "ends", "base", "is", "called", "back"}
                                 /\ job[j].r \in Reqs /\ job[j].called \in BOOLEAN
                                 /\ job[j].is \in {"run", "ok", "bad", "lost"}
    BY <1>1 DEF Types, JobTypes
  <2>2. \A j \in 1 .. Len(job') : /\ DOMAIN job'[j] = {"r", "pages", "ends", "base", "is", "called", "back"}
                                  /\ job'[j].r \in Reqs /\ job'[j].called \in BOOLEAN
                                  /\ job'[j].is \in {"run", "ok", "bad", "lost"}
    <3> SUFFICES ASSUME NEW j \in 1 .. Len(job')
                 PROVE  /\ DOMAIN job'[j] = {"r", "pages", "ends", "base", "is", "called", "back"}
                        /\ job'[j].r \in Reqs /\ job'[j].called \in BOOLEAN
                        /\ job'[j].is \in {"run", "ok", "bad", "lost"}
      OBVIOUS
    <3>1. CASE j = n
      BY <1>1, <1>a, <3>1
    <3>2. CASE j \in 1 .. Len(job)
      BY <1>2, <2>1, <3>2
    <3> QED
      BY <1>3, <3>1, <3>2
  <2> QED
    BY <1>2, <2>2 DEF JobTypes
<1>6. PhaseTypes' /\ QueueTypes' /\ cnt' \in [Reqs -> Nat]
  BY <1>1 DEF Types, PhaseTypes, QueueTypes, Track, CountUp
<1>7. \A r \in Reqs : Unsettled(r)' = IF r = R THEN Unsettled(r) \cup {n} ELSE Unsettled(r)
  BY <1>1, <1>2, <1>3 DEF Unsettled
<1>8. Covers'
  <2>1. ASSUME NEW r \in Reqs
        PROVE  cnt'[r] >= Puts(r)' + Stores(r)' + Bit(busy' = r) + Bit(Putting(r)') + Bit(Marked(r)')
    <3>1. /\ Puts(r) \in Nat /\ Stores(r) \in Nat /\ cnt[r] \in Nat /\ IsFiniteSet(Unsettled(r))
          /\ cnt[r] >= Puts(r) + Stores(r) + Bit(busy = r) + Bit(Putting(r)) + Bit(Marked(r))
      BY <1>1, Counted DEF Types, IInv, Covers
    <3>2. n \notin Unsettled(r)
      BY <1>1 DEF Unsettled
    <3>3. Puts(r)' = IF r = R THEN Puts(r) + 1 ELSE Puts(r)
      <4>1. Cardinality(Unsettled(r) \cup {n}) = Cardinality(Unsettled(r)) + 1
        BY <3>1, <3>2, FS_AddElement
      <4> QED
        BY <1>7, <4>1 DEF Puts
    <3>4. Stores(r)' = Stores(r)
      BY DEF Stores, Waiting
    <3>5. cnt'[r] = IF r = R THEN cnt[r] + 1 ELSE cnt[r]
      BY <1>1 DEF Track, CountUp, Types
    <3>6. /\ Bit(Putting(r)') = 0 /\ Bit(Putting(r)) \in {0, 1} /\ Bit(busy = r) \in {0, 1}
          /\ Bit(Marked(r)') \in {0, 1} /\ Bit(Marked(r)) \in {0, 1} /\ (Bit(Marked(r)') = 1 => Bit(Marked(r)) = 1)
      BY DEF Bit, Putting, Marked
    <3> HIDE DEF R, n
    <3>7. CASE r = R
      BY <3>1, <3>3, <3>4, <3>5, <3>6, <3>7
    <3>8. CASE r # R
      BY <3>1, <3>3, <3>4, <3>5, <3>6, <3>8
    <3> QED
      BY <3>7, <3>8
  <2> QED
    BY <2>1 DEF Covers
<1>9. PutsKnown'
  <2>1. \A r \in Reqs : st[r].futures \in Seq(Nat)
    BY <1>1 DEF Types, StateTypes
  <2>2. /\ Len(st'[R].futures) = Len(st[R].futures) + 1 /\ st'[R].futures[Len(st[R].futures) + 1] = n
        /\ \A i \in 1 .. Len(st[R].futures) : st'[R].futures[i] = st[R].futures[i]
        /\ Len(st[R].futures) \in Nat
    BY <1>1, <2>1
  <2>3. \A r \in Reqs : \A j : Among(j, st[r].futures) => Among(j, st'[r].futures)
    <3>1. ASSUME NEW j, Among(j, st[R].futures) PROVE Among(j, st'[R].futures)
      <4>1. PICK i \in 1 .. Len(st[R].futures) : st[R].futures[i] = j
        BY <3>1 DEF Among
      <4>2. i \in 1 .. Len(st'[R].futures) /\ st'[R].futures[i] = j
        BY <2>2, <4>1
      <4> QED
        BY <4>2 DEF Among
    <3>2. \A r \in Reqs : r # R => st'[r].futures = st[r].futures
      OBVIOUS
    <3> QED
      BY <3>1, <3>2
  <2>4. Among(n, st'[R].futures)
    <3>1. Len(st[R].futures) + 1 \in 1 .. Len(st'[R].futures)
      BY <2>2
    <3> QED
      BY <2>2, <3>1 DEF Among
  <2>5. \A j \in 1 .. Len(job) : job'[j].called => job'[j].is \in {"ok", "bad"}
    BY <1>2 DEF IInv, PutsKnown
  <2>6. ASSUME NEW r \in Reqs, NEW i \in 1 .. Len(st'[r].futures)
        PROVE  LET j == st'[r].futures[i]
               IN j \in 1 .. Len(job') /\ job'[j].r = r /\ ~(job'[j].called /\ job'[j].is = "bad")
    <3>1. CASE r = R /\ i = Len(st[R].futures) + 1
      <4>1. st'[r].futures[i] = n /\ n \in 1 .. Len(job')
        BY <1>1, <1>2, <2>2, <3>1
      <4> QED
        BY <1>a, <3>1, <4>1
    <3>2. CASE ~(r = R /\ i = Len(st[R].futures) + 1)
      <4>1. i \in 1 .. Len(st[r].futures) /\ st'[r].futures[i] = st[r].futures[i]
        <5>1. CASE r = R
          <6>1. i \in 1 .. Len(st'[R].futures) /\ i # Len(st[R].futures) + 1
            BY <3>2, <5>1
          <6>2. i \in 1 .. Len(st[R].futures)
            BY <2>2, <6>1
          <6> QED
            BY <2>2, <5>1, <6>2
        <5>2. CASE r # R
          BY <5>2
        <5> QED
          BY <5>1, <5>2
      <4>2. st[r].futures[i] \in 1 .. Len(job) /\ job[st[r].futures[i]].r = r
            /\ ~(job[st[r].futures[i]].called /\ job[st[r].futures[i]].is = "bad")
        BY <4>1 DEF IInv, PutsKnown
      <4>3. st[r].futures[i] \in 1 .. Len(job')
        BY <1>1, <1>2, <4>2
      <4> QED
        BY <1>2, <4>1, <4>2, <4>3
    <3> QED
      BY <3>1, <3>2
  <2>7. ASSUME NEW j \in 1 .. Len(job'), InFlight(j)'
        PROVE  Among(j, st'[job'[j].r].futures)
    <3>1. CASE j = n
      BY <1>a, <2>4, <3>1
    <3>2. CASE j \in 1 .. Len(job)
      <4>1. InFlight(j) /\ job'[j].r = job[j].r /\ job[j].r \in Reqs
        BY <1>1, <1>2, <2>7, <3>2 DEF InFlight, Types, JobTypes
      <4>2. Among(j, st[job[j].r].futures)
        BY <3>2, <4>1, InCall DEF IInv, PutsKnown
      <4> QED
        BY <2>3, <4>1, <4>2
    <3> QED
      BY <1>3, <3>1, <3>2
  <2>8. main'.pc \notin Ended
    BY DEF Calling, Ended
  <2>9. \A j \in 1 .. Len(job') : job'[j].called => job'[j].is \in {"ok", "bad"}
    BY <1>2, <1>3, <2>5
  <2> QED
    BY <2>6, <2>7, <2>8, <2>9 DEF PutsKnown
<1>10. Failures'
  BY DEF Failures, Failing, Calling
<1>11. Phases'
  <2>1. OnCall' => main'.r = R
    BY DEF OnCall, Calling, Waits
  <2>2. phase[R].is = "running" /\ ~Freed(R)
    BY InCall
  <2>3. \A r \in Reqs : Freed(r)' => Freed(r) /\ r # R
    BY <2>2 DEF Freed
  <2>4. \A r \in Reqs : r # R => Unsettled(r)' = Unsettled(r)
    BY <1>7
  <2>5. \A r \in Reqs : Freed(r)' => Unsettled(r)' = {} /\ Waiting(r)' = {} /\ busy' # r
    BY <2>3, <2>4 DEF IInv, Phases, Waiting
  <2>6. \A r \in asked'.deferred : Told(r)'
    BY DEF IInv, Phases, Told
  <2> QED
    BY <2>1, <2>2, <2>5, <2>6 DEF Phases, OnCall
<1> QED
  BY <1>4, <1>5, <1>6, <1>8, <1>9, <1>10, <1>11 DEF IInv, Types

LEMMA ReturnTyped ==
  ASSUME NEW m
  PROVE  /\ DOMAIN Return(m) = DOMAIN Idle /\ Return(m).marked = FALSE /\ Return(m).bad = {}
         /\ \/ Return(m).pc = "idle"
            \/ Return(m).pc = "wait" /\ Return(m).r = m.r /\ Return(m).cont = "report"
BY DEF Return, Back, Idle

\* What is remembered of a submission: its future at the end of the others.
LEMMA SubmittedTyped ==
  ASSUME NEW s, DOMAIN s = DOMAIN NoState, NEW pages, NEW ends
  PROVE  /\ DOMAIN Submitted(s, pages, ends) = DOMAIN NoState
         /\ Submitted(s, pages, ends).futures = Append(s.futures, Len(job) + 1)
BY DEF Submitted, NoState

LEMMA SubmitStates ==
  ASSUME Types, NEW s, DOMAIN s = DOMAIN NoState, s.futures = st[main.r].futures, main.r \in Reqs,
         NEW pages, NEW ends, st' = [st EXCEPT ![main.r] = Submitted(s, pages, ends)]
  PROVE  /\ StateTypes' /\ \A r \in Reqs \ {main.r} : st'[r].futures = st[r].futures
         /\ st'[main.r].futures = Append(st[main.r].futures, Len(job) + 1)
<1> DEFINE t == Submitted(s, pages, ends)
<1>1. DOMAIN t = DOMAIN NoState /\ t.futures = Append(st[main.r].futures, Len(job) + 1)
  BY SubmittedTyped
<1>2. Len(job) + 1 \in Nat /\ st[main.r].futures \in Seq(Nat)
  BY JobLen DEF Types, StateTypes
<1>3. t.futures \in Seq(Nat)
  BY <1>1, <1>2
<1> HIDE DEF t
<1>4. st' = [st EXCEPT ![main.r] = t] /\ StateTypes
  BY DEF t, Types
<1> QED
  BY <1>1, <1>3, <1>4 DEF StateTypes

LEMMA SubmitBatchKeeps ==
  ASSUME IInv, SubmitBatch
  PROVE  IInv'
<1> DEFINE R == main.r
           ends == Ends(main.batch, main.cand)
           blind == (main.batch # {} \/ (Enabled(fill[R]) /\ ~fill[R].deferring /\ main.window # {}))
                    /\ st[R].ready < main.e
           after == IF main.final THEN [main EXCEPT !.pc = "tail"] ELSE Return(main)
<1>1. main.pc \in Calling /\ main.pc = "plan"
  BY DEF SubmitBatch, At, Calling
<1>2. /\ R \in Reqs /\ OnCall /\ main.bad = {} /\ DOMAIN main = DOMAIN Idle /\ main.marked \in BOOLEAN
      /\ Types /\ StateTypes /\ DOMAIN st[R] = DOMAIN NoState
  BY <1>1, InCall DEF IInv, Types, StateTypes
<1>3. /\ DOMAIN after = DOMAIN Idle /\ after.marked \in BOOLEAN /\ (after.marked => main.marked /\ after.r = R)
      /\ after.bad = {}
      /\ \/ after.pc = "tail" /\ after.r = R
         \/ after.pc = "idle"
         \/ after.pc = "wait" /\ after.r = R /\ after.cont = "report"
  <2>1. CASE main.final
    BY <1>2, <2>1 DEF Idle
  <2>2. CASE ~main.final
    <3>1. /\ DOMAIN Return(main) = DOMAIN Idle /\ Return(main).marked = FALSE /\ Return(main).bad = {}
          /\ \/ Return(main).pc = "idle"
             \/ Return(main).pc = "wait" /\ Return(main).r = main.r /\ Return(main).cont = "report"
      BY ReturnTyped
    <3> QED
      BY <2>2, <3>1
  <2> QED
    BY <2>1, <2>2
<1> HIDE DEF after, blind, ends
<1>4. CASE blind /\ Raise
  BY <1>1, <1>4, RaiseKeeps
<1>5. CASE /\ main' = after /\ main.batch = {}
           /\ UNCHANGED <<st, job, cnt, queue, busy, phase, asked>>
  <2>1. SameStates /\ CountKept
    BY <1>2, <1>5, StatesKept DEF CountKept
  <2>2. GoesOn \/ Leaves
    BY <1>2, <1>3, <1>5 DEF GoesOn, Failing, Leaves, Calling, Waits, Targets
  <2> QED
    BY <1>1, <1>3, <1>5, <2>1, <2>2, CallStep
<1>6. CASE /\ main' = after /\ main.batch # {} /\ Track(R, main.batch, ends)
           /\ st' = [st EXCEPT ![R] = Submitted(st[R], main.batch, ends)]
           /\ UNCHANGED <<queue, busy, phase, asked>>
  <2>1. /\ StateTypes' /\ \A r \in Reqs \ {R} : st'[r].futures = st[r].futures
        /\ st'[R].futures = Append(st[R].futures, Len(job) + 1)
    BY <1>2, <1>6, SubmitStates
  <2>2. \/ main'.pc \in Calling \ {"put"} /\ main'.r = R
        \/ main'.pc = "wait" /\ main'.r = R /\ main'.cont = "report"
        \/ main'.pc = "idle"
    BY <1>3, <1>6 DEF Calling
  <2> QED
    BY <1>1, <1>3, <1>6, <2>1, <2>2, TrackKeeps
<1>7. CASE /\ main' = [main EXCEPT !.pc = "wait", !.cont = "all"]
           /\ UNCHANGED <<st, job, cnt, queue, busy, phase, asked>>
  <2>1. SameStates /\ CountKept
    BY <1>2, <1>7, StatesKept DEF CountKept
  <2>2. DOMAIN main' = DOMAIN Idle /\ main'.marked = main.marked /\ main'.r = R /\ main'.bad = {}
        /\ main'.pc = "wait" /\ main'.cont = "all"
    BY <1>2, <1>7 DEF Idle
  <2>3. GoesOn
    BY <1>2, <2>2 DEF GoesOn, Failing, Calling, Waits, Targets
  <2> QED
    BY <1>1, <1>2, <1>7, <2>1, <2>2, <2>3, CallStep
<1> QED
  BY <1>4, <1>5, <1>6, <1>7 DEF SubmitBatch, after, blind, ends

LEMMA TailsTyped ==
  ASSUME NEW s, DOMAIN s = DOMAIN NoState, NEW r, NEW gs
  PROVE  DOMAIN TailsStored(s, r, gs) = DOMAIN NoState /\ TailsStored(s, r, gs).futures = s.futures
BY DEF TailsStored, NoState

LEMMA SubmitTailKeeps ==
  ASSUME IInv, SubmitTail
  PROVE  IInv'
<1> DEFINE R == main.r
           remote == Enabled(fill[R]) /\ RemoteFence(st[R], main.e)
           groups == IF remote THEN Groups ELSE {g \in Groups : st[R].sub[g] < Prompt[R]}
           here == {g \in groups : Present(R, <<g, Prompt[R]>>)}
           keys == (groups \ here) \X {Prompt[R]}
           ends == Ends(keys, keys)
           marked == TailsStored(st[R], R, here)
<1>1. main.pc \in Calling /\ main.pc = "tail" /\ UNCHANGED <<queue, busy, phase, asked>>
  BY DEF SubmitTail, At, Calling
<1>2. /\ R \in Reqs /\ OnCall /\ main.bad = {} /\ DOMAIN main = DOMAIN Idle /\ main.marked \in BOOLEAN
      /\ Types /\ StateTypes /\ DOMAIN st[R] = DOMAIN NoState
  BY <1>1, InCall DEF IInv, Types, StateTypes
<1>3. /\ DOMAIN main' = DOMAIN Idle /\ main'.marked = main.marked /\ main'.r = R /\ main'.bad = {} /\ main'.pc = "mark"
  BY <1>2 DEF SubmitTail, Idle
<1>4. DOMAIN marked = DOMAIN NoState /\ marked.futures = st[R].futures
  BY <1>2, TailsTyped
<1> HIDE DEF marked, keys, ends, here
<1>5. ASSUME UNCHANGED <<job, cnt>>, SameStates
      PROVE  IInv'
  <2>1. GoesOn /\ CountKept
    BY <1>2, <1>3, <1>5 DEF GoesOn, Failing, CountKept, Calling, Waits
  <2> QED
    BY <1>1, <1>2, <1>3, <1>5, <2>1, CallStep
<1>6. CASE UNCHANGED <<st, job, cnt>>
  BY <1>2, <1>5, <1>6, StatesKept
<1>7. CASE UNCHANGED <<job, cnt>> /\ st' = [st EXCEPT ![R] = marked]
  <2>1. SameStates
    BY <1>2, <1>4, <1>7, StateKept
  <2> QED
    BY <1>5, <1>7, <2>1
<1>8. CASE UNCHANGED <<job, cnt>> /\ \E n \in SUBSET here : st' = [st EXCEPT ![R] = TailsStored(st[R], R, n)]
  <2>1. PICK n : st' = [st EXCEPT ![R] = TailsStored(st[R], R, n)]
    BY <1>8
  <2>2. DOMAIN TailsStored(st[R], R, n) = DOMAIN NoState /\ TailsStored(st[R], R, n).futures = st[R].futures
    BY <1>2, TailsTyped
  <2>3. SameStates
    BY <1>2, <2>1, <2>2, StateKept
  <2> QED
    BY <1>5, <1>8, <2>3
<1>9. CASE Track(R, keys, ends) /\ st' = [st EXCEPT ![R] = Submitted(marked, keys, ends)]
  <2>1. /\ StateTypes' /\ \A r \in Reqs \ {R} : st'[r].futures = st[r].futures
        /\ st'[R].futures = Append(st[R].futures, Len(job) + 1)
    BY <1>2, <1>4, <1>9, SubmitStates
  <2> QED
    BY <1>1, <1>2, <1>3, <1>9, <2>1, TrackKeeps DEF Calling
<1> QED
  BY <1>6, <1>7, <1>8, <1>9 DEF SubmitTail, TailPut, marked, keys, ends, here

\* The final wait is counted once more.
LEMMA MarkFinalKeeps ==
  ASSUME IInv, MarkFinal
  PROVE  IInv'
<1>1. main.pc \in Calling /\ main.pc = "mark" /\ UNCHANGED <<st, job, queue, busy, phase, asked>>
  BY DEF MarkFinal, At, Calling
<1>2. /\ main.r \in Reqs /\ OnCall /\ main.bad = {} /\ DOMAIN main = DOMAIN Idle /\ Types
  BY <1>1, InCall DEF IInv
<1>3. /\ DOMAIN main' = DOMAIN Idle /\ main'.marked = TRUE /\ main'.r = main.r /\ main'.bad = {}
      /\ main'.pc = "wait" /\ main'.cont = "final"
  BY <1>2 DEF MarkFinal, Idle
<1>4. cnt' = [cnt EXCEPT ![main.r] = cnt[main.r] + 1]
  BY DEF MarkFinal, CountUp
<1>5. MainTypes'
  BY <1>2, <1>3 DEF MainTypes, Places, Waits, Calling, Ended, Targets
<1>6. cnt' \in [Reqs -> Nat]
  BY <1>2, <1>4 DEF Types
<1>7. Covers'
  <2>1. ASSUME NEW r \in Reqs
        PROVE  cnt'[r] >= Puts(r)' + Stores(r)' + Bit(busy' = r) + Bit(Putting(r)') + Bit(Marked(r)')
    <3>1. /\ Puts(r) \in Nat /\ Stores(r) \in Nat /\ cnt[r] \in Nat
          /\ cnt[r] >= Puts(r) + Stores(r) + Bit(busy = r) + Bit(Putting(r)) + Bit(Marked(r))
      BY <1>2, Counted DEF Types, IInv, Covers
    <3>2. Puts(r)' = Puts(r) /\ Stores(r)' = Stores(r)
      BY <1>1 DEF Puts, Stores, Unsettled, Waiting
    <3>3. cnt'[r] = IF r = main.r THEN cnt[r] + 1 ELSE cnt[r]
      BY <1>2, <1>4 DEF Types
    <3>4. /\ Bit(Putting(r)') = 0 /\ Bit(Putting(r)) \in {0, 1} /\ Bit(busy' = r) = Bit(busy = r)
          /\ Bit(busy = r) \in {0, 1}
          /\ Bit(Marked(r)') = (IF r = main.r THEN 1 ELSE 0) /\ Bit(Marked(r)) \in {0, 1}
      BY <1>1, <1>3 DEF Bit, Putting, Marked
    <3> QED
      BY <3>1, <3>2, <3>3, <3>4
  <2> QED
    BY <2>1 DEF Covers
<1>8. StateTypes' /\ JobTypes' /\ PhaseTypes' /\ QueueTypes'
  BY <1>1, <1>2 DEF Types, StateTypes, JobTypes, PhaseTypes, QueueTypes
<1>9. PutsKnown' /\ Failures'
  BY <1>1, <1>3, InCall DEF IInv, PutsKnown, Failures, Failing, InFlight, Waits, Ended
<1>10. Phases'
  BY <1>1, <1>2, <1>3, InCall DEF IInv, Phases, Told, Freed, Unsettled, Waiting
<1> QED
  BY <1>5, <1>6, <1>7, <1>8, <1>9, <1>10 DEF IInv, Types

-----------------------------------------------------------------------------
(* Puts that are settled *)

\* The puts of S are settled in this step, and nothing else happens to the puts.
SettledJobs(S) ==
  /\ IsSeq(job') /\ Len(job') = Len(job)
  /\ \A j \in 1 .. Len(job) :
       /\ DOMAIN job'[j] = DOMAIN job[j] /\ job'[j].r = job[j].r /\ job'[j].is = job[j].is
       /\ job'[j].called \in BOOLEAN /\ (job'[j].called <=> job[j].called \/ j \in S)

LEMMA SettledCount ==
  ASSUME Types, Covers, NEW R \in Reqs, NEW S, S \subseteq Unsettled(R), SettledJobs(S),
         UNCHANGED <<queue, busy>>, cnt' \in [Reqs -> Nat],
         \A q \in Reqs : cnt'[q] + (IF q = R THEN Cardinality(S) ELSE 0) + Bit(Marked(q)) >= cnt[q] + Bit(Marked(q)'),
         \A q \in Reqs : Putting(q)' => Putting(q)
  PROVE  Covers'
<1>1. \A q \in Reqs : Unsettled(q)' = IF q = R THEN Unsettled(q) \ S ELSE Unsettled(q)
  BY DEF Unsettled, SettledJobs
<1>2. ASSUME NEW q \in Reqs
      PROVE  cnt'[q] >= Puts(q)' + Stores(q)' + Bit(busy' = q) + Bit(Putting(q)') + Bit(Marked(q)')
  <2>1. /\ IsFiniteSet(Unsettled(q)) /\ Puts(q) \in Nat /\ Stores(q) \in Nat /\ cnt[q] \in Nat /\ cnt'[q] \in Nat
        /\ cnt[q] >= Puts(q) + Stores(q) + Bit(busy = q) + Bit(Putting(q)) + Bit(Marked(q))
    BY Counted DEF Covers, Types
  <2>2. Stores(q)' = Stores(q)
    BY DEF Stores, Waiting
  <2>3. /\ Bit(Putting(q)') \in {0, 1} /\ Bit(Putting(q)) \in {0, 1} /\ Bit(Putting(q)') <= Bit(Putting(q))
        /\ Bit(busy' = q) = Bit(busy = q) /\ Bit(busy = q) \in {0, 1}
        /\ Bit(Marked(q)') \in {0, 1} /\ Bit(Marked(q)) \in {0, 1}
    BY DEF Bit
  <2>4. CASE q = R
    <3>1. IsFiniteSet(S) /\ Cardinality(S) \in Nat
      BY <2>1, <2>4, FS_Subset, FS_CardinalityType
    <3>2. Unsettled(q) \cap S = S
      BY <2>4
    <3>3. Cardinality(Unsettled(q) \ S) = Cardinality(Unsettled(q)) - Cardinality(Unsettled(q) \cap S)
      BY <2>1, FS_Difference, Zenon
    <3>4. Puts(q)' = Puts(q) - Cardinality(S)
      BY <1>1, <2>4, <3>2, <3>3 DEF Puts
    <3>5. cnt'[q] + Cardinality(S) + Bit(Marked(q)) >= cnt[q] + Bit(Marked(q)')
      BY <2>4
    <3> QED
      BY <2>1, <2>2, <2>3, <3>1, <3>4, <3>5
  <2>5. CASE q # R
    <3>1. Puts(q)' = Puts(q)
      BY <1>1, <2>5 DEF Puts
    <3>2. cnt'[q] + 0 + Bit(Marked(q)) >= cnt[q] + Bit(Marked(q)')
      BY <2>5
    <3> QED
      BY <2>1, <2>2, <2>3, <3>1, <3>2
  <2> QED
    BY <2>4, <2>5
<1> QED
  BY <1>2 DEF Covers

LEMMA SettledKeeps ==
  ASSUME IInv, NEW R \in Reqs, NEW S, S \subseteq Unsettled(R), SettledJobs(S),
         \A j \in S : job[j].is \in {"ok", "bad"},
         UNCHANGED <<queue, busy, phase, asked>>, cnt' \in [Reqs -> Nat],
         \A q \in Reqs : cnt'[q] + (IF q = R THEN Cardinality(S) ELSE 0) + Bit(Marked(q)) >= cnt[q] + Bit(Marked(q)'),
         \A q \in Reqs : Putting(q)' => Putting(q),
         StateTypes',
         \A q \in Reqs : \A j : Among(j, st'[q].futures) => Among(j, st[q].futures) /\ ~(j \in S /\ job[j].is = "bad"),
         \A q \in Reqs : \A j : Among(j, st[q].futures) => Among(j, st'[q].futures) \/ ~InFlight(j),
         MainTypes', Failures', main'.pc # "dead" => main.pc # "dead", main'.pc \in Ended => main.pc \in Ended,
         OnCall' => OnCall /\ main'.r = main.r
  PROVE  IInv'
<1>1. Types /\ Covers
  BY DEF IInv
<1>2. Covers'
  BY <1>1, SettledCount
<1>3. JobTypes'
  BY <1>1 DEF SettledJobs, JobTypes, Types
<1>4. PhaseTypes' /\ QueueTypes'
  BY <1>1 DEF Types, PhaseTypes, QueueTypes
<1>5. \A j \in 1 .. Len(job) : /\ (InFlight(j)' <=> InFlight(j)) /\ job'[j].r = job[j].r /\ job[j].r \in Reqs
                               /\ job'[j].is = job[j].is /\ (job'[j].called <=> job[j].called \/ j \in S)
  BY <1>1 DEF InFlight, SettledJobs, Types, JobTypes
<1>6. Len(job') = Len(job)
  BY DEF SettledJobs
<1>7. PutsKnown'
  <2>1. \A j \in 1 .. Len(job') : job'[j].called => job'[j].is \in {"ok", "bad"}
    BY <1>5, <1>6 DEF IInv, PutsKnown
  <2>2. ASSUME NEW q \in Reqs, NEW i \in 1 .. Len(st'[q].futures)
        PROVE  LET j == st'[q].futures[i]
               IN j \in 1 .. Len(job') /\ job'[j].r = q /\ ~(job'[j].called /\ job'[j].is = "bad")
    <3> DEFINE j == st'[q].futures[i]
    <3>1. Among(j, st'[q].futures)
      BY DEF Among
    <3> HIDE DEF j
    <3>2. Among(j, st[q].futures) /\ ~(j \in S /\ job[j].is = "bad")
      BY <3>1
    <3>3. j \in 1 .. Len(job) /\ job[j].r = q /\ ~(job[j].called /\ job[j].is = "bad")
      BY <3>2 DEF Among, IInv, PutsKnown
    <3>4. j \in 1 .. Len(job') /\ job'[j].r = q /\ ~(job'[j].called /\ job'[j].is = "bad")
      BY <1>5, <1>6, <3>2, <3>3
    <3> QED
      BY <3>4 DEF j
  <2>3. ASSUME main'.pc # "dead", NEW j \in 1 .. Len(job'), InFlight(j)'
        PROVE  Among(j, st'[job'[j].r].futures)
    BY <1>5, <1>6, <2>3 DEF IInv, PutsKnown
  <2>4. main'.pc \in Ended => \A j \in 1 .. Len(job') : ~InFlight(j)'
    BY <1>5, <1>6 DEF IInv, PutsKnown
  <2> QED
    BY <2>1, <2>2, <2>3, <2>4 DEF PutsKnown
<1>8. Phases'
  <2>1. OnCall' => phase'[main'.r].is = "running"
    BY DEF IInv, Phases, OnCall
  <2>2. \A q \in Reqs : (Told(q)' <=> Told(q)) /\ (Freed(q)' <=> Freed(q)) /\ Waiting(q)' = Waiting(q)
    BY DEF Told, Freed, Waiting
  <2>3. \A q \in Reqs : Unsettled(q)' \subseteq Unsettled(q)
    BY <1>5, <1>6 DEF Unsettled
  <2>4. asked.deferred \subseteq Reqs
    BY <1>1 DEF Types, PhaseTypes
  <2> QED
    BY <2>1, <2>2, <2>3, <2>4 DEF IInv, Phases, OnCall
<1> QED
  BY <1>2, <1>3, <1>4, <1>7, <1>8 DEF IInv, Types

\* One put, settled or not, by its callback or by the wait.
LEMMA OneJob ==
  ASSUME Types, NEW j \in 1 .. Len(job), NEW b \in BOOLEAN,
         \/ job' = [job EXCEPT ![j].back = TRUE, ![j].called = job[j].called \/ b]
         \/ job' = [job EXCEPT ![j].called = job[j].called \/ b]
  PROVE  SettledJobs(IF b THEN {j} ELSE {})
<1> DEFINE S == IF b THEN {j} ELSE {}
<1>1. IsSeq(job) /\ JobTypes /\ DOMAIN job = 1 .. Len(job)
  BY DEF Types, JobTypes, IsSeq
<1>2. DOMAIN job' = 1 .. Len(job) /\ job' = [i \in 1 .. Len(job) |-> job'[i]]
  BY <1>1
<1>3. IsSeq(job') /\ Len(job') = Len(job)
  BY <1>1, <1>2, SeqUpdate
<1>4. ASSUME NEW i \in 1 .. Len(job)
      PROVE  /\ DOMAIN job'[i] = DOMAIN job[i] /\ job'[i].r = job[i].r /\ job'[i].is = job[i].is
             /\ job'[i].called \in BOOLEAN /\ (job'[i].called <=> job[i].called \/ i \in S)
  <2>1. DOMAIN job[i] = {"r", "pages", "ends", "base", "is", "called", "back"} /\ job[i].called \in BOOLEAN
    BY <1>1 DEF JobTypes
  <2>2. CASE i = j
    <3>1. job'[i] = [job[i] EXCEPT !.back = TRUE, !.called = job[i].called \/ b]
          \/ job'[i] = [job[i] EXCEPT !.called = job[i].called \/ b]
      BY <1>1, <2>2
    <3> QED
      BY <2>1, <2>2, <3>1
  <2>3. CASE i # j
    <3>1. job'[i] = job[i]
      BY <1>1, <2>3
    <3> QED
      BY <2>1, <2>3, <3>1
  <2> QED
    BY <2>2, <2>3
<1> QED
  BY <1>3, <1>4 DEF SettledJobs

\* The first of the two settles the put; the count it takes is the put's own.
LEMMA Discounted ==
  ASSUME Types, NEW R \in Reqs, NEW n \in Nat, cnt' = Decrement(cnt, R, n)
  PROVE  cnt' \in [Reqs -> Nat] /\ \A q \in Reqs : cnt'[q] + (IF q = R THEN n ELSE 0) >= cnt[q]
<1>1. \A q \in Reqs : cnt[q] \in Nat
  BY DEF Types
<1> QED
  BY <1>1 DEF Types, Decrement

LEMMA OneCount ==
  ASSUME Types, NEW j \in 1 .. Len(job), NEW b \in BOOLEAN,
         cnt' = IF b THEN Decrement(cnt, job[j].r, 1) ELSE cnt
  PROVE  /\ cnt' \in [Reqs -> Nat]
         /\ \A q \in Reqs : cnt'[q] + (IF q = job[j].r THEN Cardinality(IF b THEN {j} ELSE {}) ELSE 0) >= cnt[q]
<1>1. Cardinality({j}) = 1 /\ Cardinality({}) = 0
  BY FS_Singleton, FS_EmptySet
<1>2. job[j].r \in Reqs /\ \A q \in Reqs : cnt[q] \in Nat
  BY DEF Types, JobTypes
<1>3. CASE b
  BY <1>1, <1>2, <1>3, Discounted
<1>4. CASE ~b
  BY <1>1, <1>2, <1>4 DEF Types
<1> QED
  BY <1>3, <1>4

LEMMA CallbackKeeps ==
  ASSUME IInv, NEW j \in 1 .. Len(job), Callback(j)
  PROVE  IInv'
<1> DEFINE b == Settles(j)
           S == IF b THEN {j} ELSE {}
           R == job[j].r
<1>1. /\ job[j].is \in {"ok", "bad"} /\ UNCHANGED <<main, queue, busy, phase, asked>>
      /\ job' = [job EXCEPT ![j].back = TRUE, ![j].called = @ \/ b]
      /\ st' = IF b THEN [st EXCEPT ![R].pend = @ \ job[j].pages] ELSE st
      /\ cnt' = IF b THEN Decrement(cnt, R, 1) ELSE cnt
  BY DEF Callback, DirectStoreDone
<1>2. Types /\ StateTypes /\ R \in Reqs
  BY DEF IInv, Types, JobTypes
<1>3. b \in BOOLEAN /\ S \subseteq Unsettled(R) /\ \A i \in S : i = j
  BY DEF Unsettled, Settles, Discharged
<1>4. b => job[j].is = "ok"
  BY DEF Settles
<1> HIDE DEF b, R
<1>5. SettledJobs(S)
  BY <1>1, <1>2, <1>3, OneJob
<1>6. /\ cnt' \in [Reqs -> Nat]
      /\ \A q \in Reqs : cnt'[q] + (IF q = R THEN Cardinality(S) ELSE 0) >= cnt[q]
  BY <1>1, <1>2, <1>3, OneCount DEF R
<1> HIDE DEF S
<1>7. SameStates
  <2>1. DOMAIN st[R] = DOMAIN NoState
    BY <1>2 DEF StateTypes
  <2> DEFINE s == [st[R] EXCEPT !.pend = @ \ job[j].pages]
  <2>2. DOMAIN s = DOMAIN NoState /\ s.futures = st[R].futures
    BY <2>1 DEF NoState
  <2>3. UNCHANGED st \/ st' = [st EXCEPT ![R] = s]
    BY <1>1
  <2> HIDE DEF s
  <2> QED
    BY <1>2, <2>2, <2>3, StateKept, StatesKept
<1>8. StateTypes' /\ MainTypes' /\ Failures'
  <2>1. StateTypes'
    BY <1>2, <1>7 DEF StateTypes, SameStates
  <2>2. MainTypes'
    BY <1>1 DEF IInv, Types, MainTypes
  <2>3. ASSUME NEW i \in main.bad PROVE i \in 1 .. Len(job') /\ job'[i].r = main.r /\ job'[i].is = "bad" /\ ~job'[i].called
    <3>1. i \in 1 .. Len(job) /\ job[i].r = main.r /\ job[i].is = "bad" /\ ~job[i].called
      BY <2>3 DEF IInv, Failures, Failing
    <3>2. i \notin S
      BY <1>4, <3>1 DEF S
    <3> QED
      BY <1>5, <3>1, <3>2 DEF SettledJobs
  <2>4. main.pc \in {"replay", "broken"} => st'[main.r].futures = <<>>
    BY <1>7 DEF IInv, Failures, Failing, Types, MainTypes, SameStates, Waits
  <2> QED
    BY <1>1, <2>1, <2>2, <2>3, <2>4 DEF IInv, Failures, Failing
<1>9. \A q \in Reqs : \A i : Among(i, st'[q].futures) => Among(i, st[q].futures) /\ ~(i \in S /\ job[i].is = "bad")
  BY <1>3, <1>4, <1>7 DEF SameStates, S
<1>10. \A q \in Reqs : \A i : Among(i, st[q].futures) => Among(i, st'[q].futures) \/ ~InFlight(i)
  BY <1>7 DEF SameStates
<1>11. \A q \in Reqs : cnt'[q] + (IF q = R THEN Cardinality(S) ELSE 0) + Bit(Marked(q)) >= cnt[q] + Bit(Marked(q)')
  <2>1. ASSUME NEW q \in Reqs
        PROVE  cnt'[q] + (IF q = R THEN Cardinality(S) ELSE 0) + Bit(Marked(q)) >= cnt[q] + Bit(Marked(q)')
    <3>1. Bit(Marked(q)') = Bit(Marked(q)) /\ Bit(Marked(q)) \in {0, 1}
      BY <1>1 DEF Bit, Marked
    <3>2. cnt[q] \in Nat /\ cnt'[q] \in Nat
      BY <1>2, <1>6 DEF Types
    <3>3. IsFiniteSet(S) /\ Cardinality(S) \in Nat
      BY FS_Singleton, FS_EmptySet, FS_CardinalityType DEF S
    <3> QED
      BY <1>6, <3>1, <3>2, <3>3
  <2> QED
    BY <2>1
<1>12. OnCall' => OnCall /\ main'.r = main.r
  BY <1>1 DEF OnCall
<1>13. \A q \in Reqs : Putting(q)' => Putting(q)
  BY <1>1 DEF Putting
<1>14. \A i \in S : job[i].is \in {"ok", "bad"}
  BY <1>1, <1>3
<1> QED
  BY <1>1, <1>2, <1>3, <1>5, <1>6, <1>8, <1>9, <1>10, <1>11, <1>12, <1>13, <1>14, SettledKeeps

-----------------------------------------------------------------------------
(* wait_for_direct_stores and the replay *)

LEMMA HeadAndTail ==
  ASSUME NEW s \in Seq(Nat), s # <<>>
  PROVE  /\ Tail(s) \in Seq(Nat) /\ Among(Head(s), s)
         /\ \A j : Among(j, Tail(s)) => Among(j, s)
         /\ \A j : Among(j, s) => j = Head(s) \/ Among(j, Tail(s))
<1>1. Len(s) \in Nat \ {0} /\ Tail(s) \in Seq(Nat) /\ Head(s) = s[1] /\ Len(Tail(s)) = Len(s) - 1
      /\ \A i \in 1 .. Len(s) - 1 : Tail(s)[i] = s[i + 1]
  OBVIOUS
<1>2. Among(Head(s), s)
  BY <1>1 DEF Among
<1>3. ASSUME NEW j, Among(j, Tail(s)) PROVE Among(j, s)
  <2>1. PICK i \in 1 .. Len(Tail(s)) : Tail(s)[i] = j
    BY <1>3 DEF Among
  <2>2. i + 1 \in 1 .. Len(s) /\ s[i + 1] = j
    BY <1>1, <2>1
  <2> QED
    BY <2>2 DEF Among
<1>4. ASSUME NEW j, Among(j, s), j # Head(s) PROVE Among(j, Tail(s))
  <2>1. PICK i \in 1 .. Len(s) : s[i] = j
    BY <1>4 DEF Among
  <2>2. i # 1
    BY <1>1, <1>4, <2>1
  <2>3. i - 1 \in 1 .. Len(Tail(s)) /\ Tail(s)[i - 1] = s[i]
    BY <1>1, <2>2
  <2> QED
    BY <2>1, <2>3 DEF Among
<1> QED
  BY <1>1, <1>2, <1>3, <1>4

LEMMA InWait ==
  ASSUME IInv, main.pc \in Waits
  PROVE  /\ main.r \in Reqs /\ main.cont \in Targets /\ DOMAIN main = DOMAIN Idle /\ main.marked \in BOOLEAN
         /\ main.pc # "dead" /\ main.pc \notin Ended /\ main.pc \notin Calling
         /\ StateTypes /\ Types /\ DOMAIN st[main.r] = DOMAIN NoState /\ st[main.r].futures \in Seq(Nat)
         /\ OnCall <=> main.cont # "close"
BY DEF IInv, Types, MainTypes, OnCall, Waits, Calling, Ended, StateTypes

\* The oldest future that is waited for has ended; a failed put joins those that
\* the repair must settle.
LEMMA WaitPopKeeps ==
  ASSUME IInv, WaitPop
  PROVE  IInv'
<1> DEFINE R == main.r
           j == Head(st[R].futures)
           b == Settles(j)
           S == IF b THEN {j} ELSE {}
<1>1. main.pc = "wait" /\ main.pc \in Waits /\ UNCHANGED <<queue, busy, phase, asked>>
  BY DEF WaitPop, At, Waits
<1>2. /\ R \in Reqs /\ main.cont \in Targets /\ DOMAIN main = DOMAIN Idle /\ main.marked \in BOOLEAN
      /\ main.pc # "dead" /\ main.pc \notin Ended /\ Types /\ StateTypes
      /\ DOMAIN st[R] = DOMAIN NoState /\ st[R].futures \in Seq(Nat) /\ (OnCall <=> main.cont # "close")
  BY <1>1, InWait
<1>3. CASE job[j].is = "lost"
  <2>1. main' = [Idle EXCEPT !.pc = "dead"] /\ UNCHANGED <<job, cnt, st>>
    BY <1>3 DEF WaitPop
  <2>2. DOMAIN main' = DOMAIN Idle /\ main'.marked = FALSE /\ Leaves
    BY <2>1 DEF Idle, Leaves
  <2>3. SameStates /\ CountKept
    BY <1>2, <2>1, StatesKept DEF CountKept
  <2> QED
    BY <1>1, <2>1, <2>2, <2>3, CallStep
<1>4. CASE job[j].is # "lost"
  <2>1. /\ st[R].futures # <<>> /\ job[j].is # "run"
        /\ main' = [main EXCEPT !.log = Append(@, j), !.bad = IF job[j].is = "bad" THEN @ \cup {j} ELSE @]
        /\ job' = [job EXCEPT ![j].called = @ \/ b]
        /\ st' = IF b THEN [[st EXCEPT ![R].futures = Tail(@)] EXCEPT ![R].pend = @ \ job[j].pages]
                 ELSE [st EXCEPT ![R].futures = Tail(@)]
        /\ cnt' = IF b THEN Decrement(cnt, R, 1) ELSE cnt
    BY <1>4 DEF WaitPop
  <2>2. /\ Tail(st[R].futures) \in Seq(Nat) /\ Among(j, st[R].futures)
        /\ \A i : Among(i, Tail(st[R].futures)) => Among(i, st[R].futures)
        /\ \A i : Among(i, st[R].futures) => i = j \/ Among(i, Tail(st[R].futures))
    BY <1>2, <2>1, HeadAndTail
  <2>3. b \in BOOLEAN /\ (b => job[j].is = "ok" /\ ~job[j].called)
    BY DEF Settles, Discharged
  <2> HIDE DEF j, b
  <2>4. j \in 1 .. Len(job) /\ job[j].r = R /\ ~(job[j].called /\ job[j].is = "bad") /\ job[j].is \in {"ok", "bad"}
    <3>1. PICK i \in 1 .. Len(st[R].futures) : st[R].futures[i] = j
      BY <2>2 DEF Among
    <3>2. j \in 1 .. Len(job) /\ job[j].r = R /\ ~(job[j].called /\ job[j].is = "bad")
      BY <1>2, <3>1 DEF IInv, PutsKnown
    <3> QED
      BY <1>2, <1>4, <2>1, <3>2 DEF Types, JobTypes
  <2>5. S \subseteq Unsettled(R) /\ \A i \in S : i = j /\ job[i].is = "ok"
    BY <2>3, <2>4 DEF Unsettled
  <2>6. SettledJobs(S)
    BY <1>2, <2>1, <2>3, <2>4, OneJob
  <2>7. /\ cnt' \in [Reqs -> Nat]
        /\ \A q \in Reqs : cnt'[q] + (IF q = R THEN Cardinality(S) ELSE 0) >= cnt[q]
    BY <1>2, <2>1, <2>3, <2>4, OneCount
  <2>8. IsFiniteSet(S) /\ Cardinality(S) \in Nat
    BY FS_Singleton, FS_EmptySet, FS_CardinalityType
  <2> HIDE DEF S
  <2>9. /\ DOMAIN main' = DOMAIN Idle /\ main'.marked = main.marked /\ main'.r = R /\ main'.pc = "wait"
        /\ main'.cont = main.cont /\ main'.bad = IF job[j].is = "bad" THEN main.bad \cup {j} ELSE main.bad
    BY <1>1, <1>2, <2>1 DEF Idle
  <2>10. /\ DOMAIN st' = Reqs /\ DOMAIN st'[R] = DOMAIN NoState /\ st'[R].futures = Tail(st[R].futures)
         /\ \A q \in Reqs \ {R} : st'[q] = st[q]
    BY <1>2, <2>1 DEF StateTypes, NoState
  <2>11. StateTypes'
    BY <1>2, <2>2, <2>10 DEF StateTypes
  <2>12. MainTypes'
    BY <1>2, <2>9 DEF MainTypes, Places, Waits
  <2>13. Failures'
    <3>1. ASSUME NEW i \in main'.bad
          PROVE  i \in 1 .. Len(job) /\ job[i].r = R /\ job[i].is = "bad" /\ ~job[i].called
      <4>1. CASE i \in main.bad
        BY <4>1 DEF IInv, Failures, Failing
      <4>2. CASE i = j /\ job[j].is = "bad"
        BY <1>2, <2>4, <4>2 DEF Types, JobTypes
      <4> QED
        BY <2>9, <3>1, <4>1, <4>2
    <3>2. ASSUME NEW i \in main'.bad
          PROVE  i \in 1 .. Len(job') /\ job'[i].r = main'.r /\ job'[i].is = "bad" /\ ~job'[i].called
      <4>1. i \in 1 .. Len(job) /\ job[i].r = R /\ job[i].is = "bad" /\ ~job[i].called
        BY <3>1, <3>2
      <4>2. i \notin S
        BY <2>5, <4>1
      <4> QED
        BY <2>6, <2>9, <4>1, <4>2 DEF SettledJobs
    <3> QED
      BY <2>9, <3>2 DEF Failures, Failing, Waits
  <2>14. ASSUME NEW q \in Reqs, NEW i, Among(i, st'[q].futures)
         PROVE  Among(i, st[q].futures) /\ ~(i \in S /\ job[i].is = "bad")
    BY <2>2, <2>5, <2>10, <2>14
  <2>15. ASSUME NEW q \in Reqs, NEW i, Among(i, st[q].futures)
         PROVE  Among(i, st'[q].futures) \/ ~InFlight(i)
    BY <2>2, <2>4, <2>10, <2>15 DEF InFlight
  <2>16. ASSUME NEW q \in Reqs
         PROVE  cnt'[q] + (IF q = R THEN Cardinality(S) ELSE 0) + Bit(Marked(q)) >= cnt[q] + Bit(Marked(q)')
    <3>1. Bit(Marked(q)') = Bit(Marked(q)) /\ Bit(Marked(q)) \in {0, 1}
      BY <2>9 DEF Bit, Marked
    <3>2. cnt[q] \in Nat /\ cnt'[q] \in Nat
      BY <1>2, <2>7 DEF Types
    <3> QED
      BY <2>7, <2>8, <3>1, <3>2
  <2>17. OnCall' => OnCall /\ main'.r = main.r
    BY <1>2, <2>9 DEF OnCall, Waits, Calling
  <2>18. \A q \in Reqs : Putting(q)' => Putting(q)
    BY <2>9 DEF Putting
  <2>19. main'.pc \notin Ended /\ main'.pc # "dead"
    BY <2>9 DEF Ended
  <2>20. \A i \in S : job[i].is \in {"ok", "bad"}
    BY <2>5
  <2> QED
    BY <1>1, <1>2, <2>5, <2>6, <2>7, <2>11, <2>12, <2>13, <2>14, <2>15, <2>16, <2>17, <2>18, <2>19, <2>20, SettledKeeps
<1> QED
  BY <1>3, <1>4

\* The puts are over, and the windows are waited for.
LEMMA DrainedGoes ==
  ASSUME NEW m, DOMAIN m = DOMAIN Idle, m.cont \in Targets
  PROVE  /\ DOMAIN Drained(m) = DOMAIN Idle /\ Drained(m).marked = m.marked /\ Drained(m).r = m.r
         /\ Drained(m).bad = {} /\ Drained(m).pc = "drain" /\ Drained(m).cont = m.cont
BY DEF Drained, Idle

LEMMA WaitDoneKeeps ==
  ASSUME IInv, WaitDone
  PROVE  IInv'
<1>1. main.pc = "wait" /\ main.pc \in Waits /\ UNCHANGED <<job, cnt, queue, busy, phase, asked>>
  BY DEF WaitDone, At, Waits
<1>2. /\ main.r \in Reqs /\ main.cont \in Targets /\ DOMAIN main = DOMAIN Idle /\ main.marked \in BOOLEAN
      /\ StateTypes /\ DOMAIN st[main.r] = DOMAIN NoState /\ (OnCall <=> main.cont # "close")
  BY <1>1, InWait
<1>3. SameStates /\ CountKept
  <2> DEFINE s == [st[main.r] EXCEPT !.com = [g \in Groups |-> Upper(@[g], st[main.r].sub[g])]]
  <2>1. DOMAIN s = DOMAIN NoState /\ s.futures = st[main.r].futures
    BY <1>2 DEF NoState
  <2>2. UNCHANGED st \/ st' = [st EXCEPT ![main.r] = s]
    BY DEF WaitDone
  <2> HIDE DEF s
  <2> QED
    BY <1>1, <1>2, <2>1, <2>2, StateKept, StatesKept DEF CountKept
<1>4. CASE main' = Drained(main)
  <2>1. /\ DOMAIN main' = DOMAIN Idle /\ main'.marked = main.marked /\ main'.r = main.r
        /\ main'.bad = {} /\ main'.pc = "drain" /\ main'.cont = main.cont
    BY <1>2, <1>4, DrainedGoes
  <2>2. GoesOn
    BY <1>2, <2>1 DEF GoesOn, Failing, Calling, Waits
  <2> QED
    BY <1>1, <1>2, <1>3, <2>1, <2>2, CallStep
<1>5. CASE main' = [main EXCEPT !.pc = "replay", !.ver = st[main.r].com]
  <2>1. /\ DOMAIN main' = DOMAIN Idle /\ main'.marked = main.marked /\ main'.r = main.r
        /\ main'.bad = main.bad /\ main'.pc = "replay" /\ main'.cont = main.cont
    BY <1>2, <1>5 DEF Idle
  <2>2. st[main.r].futures = <<>>
    BY DEF WaitDone
  <2>3. GoesOn
    BY <1>2, <2>1, <2>2 DEF GoesOn, Failing, Waits
  <2> QED
    BY <1>1, <1>2, <1>3, <2>1, <2>3, CallStep
<1> QED
  BY <1>4, <1>5 DEF WaitDone

LEMMA ReplayKeeps ==
  ASSUME IInv, Replay
  PROVE  IInv'
<1>1. main.pc = "replay" /\ main.pc \in Waits /\ UNCHANGED <<st, job, cnt, queue, busy, phase, asked>>
  BY DEF Replay, At, Waits
<1>2. /\ main.r \in Reqs /\ main.cont \in Targets /\ DOMAIN main = DOMAIN Idle /\ main.marked \in BOOLEAN
      /\ StateTypes /\ (OnCall <=> main.cont # "close")
  BY <1>1, InWait
<1>3. SameStates /\ CountKept
  BY <1>1, <1>2, StatesKept DEF CountKept
<1>4. /\ DOMAIN main' = DOMAIN Idle /\ main'.marked = main.marked /\ main'.r = main.r
      /\ main'.bad = main.bad /\ main'.pc \in {"replay", "broken"} /\ main'.cont = main.cont
  BY <1>1, <1>2 DEF Replay, Idle
<1>5. st[main.r].futures = <<>>
  BY <1>1 DEF IInv, Failures, Failing
<1>6. GoesOn
  BY <1>2, <1>4, <1>5 DEF GoesOn, Failing, Waits
<1> QED
  BY <1>1, <1>2, <1>3, <1>4, <1>6, CallStep

\* Repaired or not, the failed puts of the wait are settled at its end.
LEMMA ReplayEndKeeps ==
  ASSUME IInv, ReplayEnd
  PROVE  IInv'
<1> DEFINE R == main.r
           S == main.bad
           n == Cardinality(S)
           left == st[R].pend \ UNION {job[j].pages : j \in S}
           m == [main EXCEPT !.bad = {}, !.log = <<>>]
<1>1. main.pc \in {"replay", "broken"} /\ main.pc \in Waits /\ UNCHANGED <<queue, busy, phase, asked>>
  BY DEF ReplayEnd, At, Waits
<1>2. /\ R \in Reqs /\ main.cont \in Targets /\ DOMAIN main = DOMAIN Idle /\ main.marked \in BOOLEAN
      /\ main.pc # "dead" /\ main.pc \notin Ended /\ Types /\ StateTypes
      /\ DOMAIN st[R] = DOMAIN NoState /\ (OnCall <=> main.cont # "close")
  BY <1>1, InWait
<1>3. \A j \in S : j \in 1 .. Len(job) /\ job[j].r = R /\ job[j].is = "bad" /\ ~job[j].called
  BY DEF IInv, Failures, Failing
<1>4. S \subseteq Unsettled(R)
  BY <1>3 DEF Unsettled
<1>5. n \in Nat
  BY <1>2, <1>4, Counted, FS_Subset, FS_CardinalityType
<1>6. SettledJobs(S)
  <2>1. IsSeq(job) /\ job' = [j \in 1 .. Len(job) |-> [job[j] EXCEPT !.called = @ \/ j \in S]]
    BY <1>2 DEF ReplayEnd, Types, JobTypes
  <2>2. IsSeq(job') /\ Len(job') = Len(job)
    BY <2>1, SeqUpdate
  <2>3. ASSUME NEW j \in 1 .. Len(job)
        PROVE  /\ DOMAIN job'[j] = DOMAIN job[j] /\ job'[j].r = job[j].r /\ job'[j].is = job[j].is
               /\ job'[j].called \in BOOLEAN /\ (job'[j].called <=> job[j].called \/ j \in S)
    <3>1. job'[j] = [job[j] EXCEPT !.called = job[j].called \/ j \in S]
      BY <2>1
    <3>2. DOMAIN job[j] = {"r", "pages", "ends", "base", "is", "called", "back"} /\ job[j].called \in BOOLEAN
      BY <1>2 DEF Types, JobTypes
    <3> QED
      BY <3>1, <3>2
  <2> QED
    BY <2>2, <2>3 DEF SettledJobs
<1>7. SameStates
  <2> DEFINE s1 == [st[R] EXCEPT !.pend = left, !.com = RepairedEnds(R)]
             s2 == [st[R] EXCEPT !.pend = left]
  <2>1. DOMAIN s1 = DOMAIN NoState /\ s1.futures = st[R].futures /\ DOMAIN s2 = DOMAIN NoState /\ s2.futures = st[R].futures
    BY <1>2 DEF NoState
  <2>2. st' = [st EXCEPT ![R] = s1] \/ st' = [st EXCEPT ![R] = s2]
    BY DEF ReplayEnd
  <2> HIDE DEF s1, s2
  <2> QED
    BY <1>2, <2>1, <2>2, StateKept
<1>8. /\ DOMAIN main' = DOMAIN Idle /\ main'.bad = {} /\ main'.marked \in BOOLEAN
      /\ \/ /\ cnt' = Decrement(cnt, R, n) /\ main'.marked = main.marked /\ main'.r = R
            /\ main'.pc = "drain" /\ main'.cont = main.cont
         \/ /\ cnt' = UnmarkedBy(Decrement(cnt, R, n), main) /\ ~main'.marked
            /\ \/ main'.pc = "dead"
               \/ /\ main.cont # "close" /\ main'.r = R
                  /\ main'.pc = "drop" \/ (main'.pc = "wait" /\ main'.cont = "abort")
  <2>1. CASE main' = Drained(main) /\ cnt' = Decrement(cnt, R, n)
    <3>1. /\ DOMAIN main' = DOMAIN Idle /\ main'.marked = main.marked /\ main'.r = R
          /\ main'.bad = {} /\ main'.pc = "drain" /\ main'.cont = main.cont
      BY <1>2, <2>1, DrainedGoes
    <3> QED
      BY <1>2, <2>1, <3>1
  <2>2. CASE main' = RaiseTo(m) /\ cnt' = UnmarkedBy(Decrement(cnt, R, n), main)
    <3>1. DOMAIN m = DOMAIN Idle /\ m.marked = main.marked /\ m.bad = {} /\ m.r = R /\ m.cont = main.cont
      BY <1>2 DEF Idle
    <3> HIDE DEF m
    <3>2. /\ DOMAIN RaiseTo(m) = DOMAIN Idle /\ ~RaiseTo(m).marked /\ RaiseTo(m).marked \in BOOLEAN
          /\ \/ RaiseTo(m).pc = "dead" /\ RaiseTo(m).bad = {}
             \/ /\ m.cont \notin {"preempt", "close"}
                /\ RaiseTo(m).r = m.r /\ RaiseTo(m).bad = m.bad
                /\ \/ RaiseTo(m).pc = "drop"
                   \/ RaiseTo(m).pc = "wait" /\ RaiseTo(m).cont = "abort"
      BY <1>2, <3>1, RaiseTyped
    <3> QED
      BY <2>2, <3>1, <3>2
  <2> QED
    BY <2>1, <2>2 DEF ReplayEnd
<1> HIDE DEF n, left, m
<1>9. cnt' \in [Reqs -> Nat]
  BY <1>2, <1>5, <1>8 DEF Decrement, UnmarkedBy, Types
<1>10. ASSUME NEW q \in Reqs
       PROVE  cnt'[q] + (IF q = R THEN n ELSE 0) + Bit(Marked(q)) >= cnt[q] + Bit(Marked(q)')
  <2>1. cnt[q] \in Nat /\ Bit(Marked(q)) \in {0, 1} /\ Bit(Marked(q)') \in {0, 1}
    BY <1>2 DEF Types, Bit
  <2>2. Decrement(cnt, R, n)[q] = IF q = R THEN (IF cnt[q] > n THEN cnt[q] - n ELSE 0) ELSE cnt[q]
    BY <1>2 DEF Decrement, Types
  <2>3. CASE cnt' = Decrement(cnt, R, n) /\ main'.marked = main.marked /\ main'.r = R
    <3>1. Bit(Marked(q)') = Bit(Marked(q))
      BY <2>3 DEF Bit, Marked
    <3> QED
      BY <1>5, <2>1, <2>2, <2>3, <3>1
  <2>4. CASE cnt' = UnmarkedBy(Decrement(cnt, R, n), main) /\ ~main'.marked
    <3>1. Bit(Marked(q)') = 0 /\ Bit(Marked(q)) = IF main.marked /\ R = q THEN 1 ELSE 0
      BY <2>4 DEF Bit, Marked
    <3>2. Decrement(cnt, R, n) \in [Reqs -> Nat]
      BY <1>2, <1>5 DEF Decrement, Types
    <3> DEFINE d == Decrement(cnt, R, n)
    <3> HIDE DEF d
    <3>3. cnt'[q] = IF main.marked /\ R = q THEN (IF d[q] > 1 THEN d[q] - 1 ELSE 0) ELSE d[q]
      <4>1. d \in [Reqs -> Nat] /\ cnt' = UnmarkedBy(d, main)
        BY <2>4, <3>2 DEF d
      <4> QED
        BY <4>1 DEF UnmarkedBy, Decrement
    <3>4. d[q] = IF q = R THEN (IF cnt[q] > n THEN cnt[q] - n ELSE 0) ELSE cnt[q]
      BY <2>2 DEF d
    <3> HIDE DEF R
    <3> QED
      BY <1>5, <2>1, <3>1, <3>3, <3>4
  <2> QED
    BY <1>8, <2>3, <2>4
<1>11. MainTypes'
  BY <1>2, <1>8 DEF MainTypes, Places, Waits, Calling, Targets
<1>12. StateTypes' /\ Failures'
  BY <1>2, <1>7, <1>8 DEF StateTypes, SameStates, Failures, Failing, Calling
<1>13. \A q \in Reqs : \A j : Among(j, st'[q].futures) <=> Among(j, st[q].futures)
  BY <1>7 DEF SameStates
<1>14. \A q \in Reqs : \A j : Among(j, st'[q].futures) => Among(j, st[q].futures) /\ ~(j \in S /\ job[j].is = "bad")
  <2>1. ASSUME NEW q \in Reqs, NEW j, Among(j, st[q].futures), j \in S PROVE FALSE
    <3>1. PICK i \in 1 .. Len(st[q].futures) : st[q].futures[i] = j
      BY <2>1 DEF Among
    <3>2. job[j].r = q
      BY <3>1 DEF IInv, PutsKnown
    <3>3. q = R /\ st[R].futures = <<>>
      BY <1>1, <1>3, <2>1, <3>2 DEF IInv, Failures, Failing
    <3> QED
      BY <3>1, <3>3
  <2> QED
    BY <1>13, <2>1
<1>15. OnCall' => OnCall /\ main'.r = main.r
  BY <1>2, <1>8 DEF OnCall, Waits, Calling
<1>16. (\A q \in Reqs : Putting(q)' => Putting(q)) /\ main'.pc \notin Ended
  BY <1>8 DEF Putting, Calling, Ended
<1>17. \A j \in S : job[j].is \in {"ok", "bad"}
  BY <1>3
<1> QED
  BY <1>1, <1>2, <1>4, <1>6, <1>9, <1>10, <1>11, <1>12, <1>13, <1>14, <1>15, <1>16, <1>17, SettledKeeps DEF n

\* The call goes on where it waited, and a close looks at the next request; a
\* window in an unknown state raises.
LEMMA DrainWindowsKeeps ==
  ASSUME IInv, DrainWindows
  PROVE  IInv'
<1>1. main.pc = "drain" /\ main.pc \in Waits /\ UNCHANGED <<st, job, queue, busy, phase, asked>>
  BY DEF DrainWindows, At, Waits
<1>2. /\ main.r \in Reqs /\ main.cont \in Targets /\ DOMAIN main = DOMAIN Idle /\ main.marked \in BOOLEAN
      /\ StateTypes /\ (OnCall <=> main.cont # "close") /\ main.bad = {}
  BY <1>1, InWait DEF IInv, Failures, Failing
<1>3. SameStates
  BY <1>1, <1>2, StatesKept
<1>4. CASE main' = [main EXCEPT !.pc = main.cont] /\ cnt' = cnt
  <2>1. /\ DOMAIN main' = DOMAIN Idle /\ main'.marked = main.marked /\ main'.r = main.r
        /\ main'.bad = {} /\ main'.pc = main.cont
    BY <1>2, <1>4 DEF Idle
  <2>2. GoesOn \/ Leaves
    BY <1>2, <2>1 DEF GoesOn, Failing, Leaves, Calling, Waits, Targets
  <2>3. CountKept
    BY <1>4 DEF CountKept
  <2> QED
    BY <1>1, <1>2, <1>3, <2>1, <2>2, <2>3, CallStep
<1>5. CASE main' = RaiseTo(main) /\ cnt' = UnmarkedBy(cnt, main)
  <2>1. /\ DOMAIN main' = DOMAIN Idle /\ ~main'.marked /\ main'.marked \in BOOLEAN
        /\ \/ main'.pc = "dead" /\ main'.bad = {}
           \/ /\ main.cont \notin {"preempt", "close"}
              /\ main'.r = main.r /\ main'.bad = main.bad
              /\ \/ main'.pc = "drop"
                 \/ main'.pc = "wait" /\ main'.cont = "abort"
    BY <1>2, <1>5, RaiseTyped
  <2>2. GoesOn \/ Leaves
    BY <1>2, <2>1 DEF GoesOn, Failing, Leaves, Calling, Waits, Targets
  <2>3. CountKept
    BY <1>5, <2>1 DEF CountKept
  <2> QED
    BY <1>1, <1>2, <1>3, <1>5, <2>1, <2>2, <2>3, CallStep
<1> QED
  BY <1>4, <1>5 DEF DrainWindows, Goto

-----------------------------------------------------------------------------
(* The repair and the end of a call *)

LEMMA RepairingKeeps ==
  ASSUME IInv, main.pc \in Calling, NEW gs, NEW start, NEW next, Repairing(gs, start, next),
         DOMAIN next = DOMAIN Idle, next.marked = main.marked, next.r = main.r, next.bad = main.bad,
         next.pc \in {"finalize", "plan"}
  PROVE  IInv'
<1>1. CASE Raise
  BY <1>1, RaiseKeeps
<1>2. CASE ~Raise
  <2>1. PICK ends : \E reach : CpuRepair(main.r, gs, start, reach, ends)
    BY <1>2 DEF Repairing
  <2>2. main' = next /\ UNCHANGED <<job, cnt, queue, busy, phase, asked>>
    BY <1>2 DEF Repairing
  <2>3. SameStates
    <3> DEFINE s == [st[main.r] EXCEPT !.com = [g \in Groups |-> IF g \in gs THEN ends[g] ELSE @[g]],
                                       !.sub = [g \in Groups |-> IF g \in gs THEN ends[g] ELSE @[g]]]
    <3>1. main.r \in Reqs /\ StateTypes /\ DOMAIN st[main.r] = DOMAIN NoState
      BY InCall DEF IInv, Types, StateTypes
    <3>2. DOMAIN s = DOMAIN NoState /\ s.futures = st[main.r].futures
      BY <3>1 DEF NoState
    <3>3. st' = [st EXCEPT ![main.r] = s]
      BY <2>1 DEF CpuRepair
    <3> HIDE DEF s
    <3> QED
      BY <3>1, <3>2, <3>3, StateKept
  <2>4. GoesOn /\ CountKept
    BY <2>2, InCall DEF GoesOn, Failing, CountKept, Waits, Calling
  <2> QED
    BY <2>2, <2>3, <2>4, InCall, CallStep
<1> QED
  BY <1>1, <1>2

LEMMA RepairsKeep ==
  ASSUME IInv, RepairAll \/ RepairGroup \/ RepairFinal
  PROVE  IInv'
<1> DEFINE on == [main EXCEPT !.pc = "finalize"]
           back == [main EXCEPT !.pc = "plan", !.todo = Tail(@), !.cont = None]
<1>1. main.pc \in Calling
  BY DEF RepairAll, RepairGroup, RepairFinal, At, Calling
<1>2. DOMAIN on = DOMAIN Idle /\ on.marked = main.marked /\ on.r = main.r /\ on.bad = main.bad /\ on.pc = "finalize"
  BY <1>1, InCall DEF Idle
<1>3. DOMAIN back = DOMAIN Idle /\ back.marked = main.marked /\ back.r = main.r /\ back.bad = main.bad /\ back.pc = "plan"
  BY <1>1, InCall DEF Idle
<1>4. \E gs, start : Repairing(gs, start, on) \/ Repairing(gs, start, back)
  BY DEF RepairAll, RepairGroup, RepairFinal
<1> HIDE DEF on, back
<1> QED
  BY <1>1, <1>2, <1>3, <1>4, RepairingKeeps

LEMMA FinalizeKeeps ==
  ASSUME IInv, FinalizeDirectStore
  PROVE  IInv'
<1>1. main.pc \in Calling
  BY DEF FinalizeDirectStore, At, Calling
<1>2. CASE NotFinalized(main.r)
  BY <1>1, <1>2, RaisedKeeps DEF NotFinalized
<1>3. CASE Finalized(main.r)
  <2>1. /\ st' = [st EXCEPT ![main.r].done = @ \/ main.final] /\ cnt' = UnmarkedBy(cnt, main)
        /\ main' = Return(main) /\ UNCHANGED <<job, queue, busy, phase, asked>>
    BY <1>3 DEF Finalized
  <2>2. SameStates
    <3> DEFINE s == [st[main.r] EXCEPT !.done = @ \/ main.final]
    <3>1. main.r \in Reqs /\ StateTypes /\ DOMAIN st[main.r] = DOMAIN NoState
      BY <1>1, InCall DEF IInv, Types, StateTypes
    <3>2. DOMAIN s = DOMAIN NoState /\ s.futures = st[main.r].futures
      BY <3>1 DEF NoState
    <3>3. st' = [st EXCEPT ![main.r] = s]
      BY <2>1
    <3> HIDE DEF s
    <3> QED
      BY <3>1, <3>2, <3>3, StateKept
  <2>3. /\ DOMAIN main' = DOMAIN Idle /\ main'.marked = FALSE /\ main'.bad = {}
        /\ \/ main'.pc = "idle"
           \/ main'.pc = "wait" /\ main'.r = main.r /\ main'.cont = "report"
    <3> DEFINE m == Return(main)
    <3>1. /\ DOMAIN m = DOMAIN Idle /\ m.marked = FALSE /\ m.bad = {}
          /\ m.pc = "idle" \/ (m.pc = "wait" /\ m.r = main.r /\ m.cont = "report")
      BY ReturnTyped
    <3> HIDE DEF m
    <3>2. main' = m
      BY <2>1 DEF m
    <3> QED
      BY <3>1, <3>2
  <2>4. GoesOn \/ Leaves
    BY <1>1, <2>3, InCall DEF GoesOn, Failing, Leaves, Waits, Calling, Targets
  <2>5. CountKept
    BY <2>1, <2>3 DEF CountKept
  <2> QED
    BY <1>1, <2>1, <2>2, <2>3, <2>4, <2>5, CallStep
<1> QED
  BY <1>2, <1>3 DEF FinalizeDirectStore

\* A state is dropped only without futures.
LEMMA DroppedStates ==
  ASSUME StateTypes, NEW r \in Reqs, Dropped(r)
  PROVE  SameStates
<1> DEFINE s == IF Releasable(r) THEN NoState ELSE st[r]
<1>1. DOMAIN s = DOMAIN NoState /\ s.futures = st[r].futures
  BY DEF StateTypes, NoState, Releasable
<1>2. st' = [st EXCEPT ![r] = s]
  BY DEF Dropped
<1> HIDE DEF s
<1> QED
  BY <1>1, <1>2, StateKept

LEMMA CallEndKeeps ==
  ASSUME IInv, Report \/ AbortSaveStep
  PROVE  IInv'
<1>1. /\ main.pc \in Calling /\ UNCHANGED <<job, cnt, queue, busy, phase, asked>>
      /\ main' = Idle \/ main' = [Idle EXCEPT !.pc = "dead"]
  BY DEF Report, AbortSaveStep, At, Calling
<1>2. main.r \in Reqs /\ StateTypes
  BY <1>1, InCall DEF IInv, Types
<1>3. SameStates
  BY <1>2, StatesKept, DroppedStates DEF Report, AbortSaveStep
<1>4. DOMAIN main' = DOMAIN Idle /\ main'.marked = FALSE /\ Leaves /\ CountKept
  BY <1>1 DEF Idle, Leaves, CountKept
<1> QED
  BY <1>1, <1>3, <1>4, CallStep

-----------------------------------------------------------------------------
(* store() and its worker *)

\* A step of store() or of the worker: it moves what is counted, or takes it away
\* with the count.
LEMMA StoreStep ==
  ASSUME IInv, UNCHANGED <<st, job, phase, asked>>, QueueTypes', cnt' \in [Reqs -> Nat],
         \A q \in Reqs : cnt'[q] + Stores(q) + Bit(busy = q) + Bit(Putting(q))
                           >= cnt[q] + Stores(q)' + Bit(busy' = q) + Bit(Putting(q)'),
         \A q \in Reqs : Stores(q)' \in Nat,
         \A q \in Reqs : Freed(q) => Waiting(q)' = {} /\ busy' # q,
         \/ UNCHANGED main
         \/ /\ main.pc \in {"idle", "put"} /\ DOMAIN main' = DOMAIN Idle /\ main'.pc \in {"idle", "put"}
            /\ main'.bad = {} /\ main'.marked = FALSE
            /\ main'.pc = "put" => main'.r \in Reqs /\ phase[main'.r].is = "running"
  PROVE  IInv'
<1>1. Types
  BY DEF IInv
<1>2. StateTypes' /\ JobTypes' /\ PhaseTypes'
  BY <1>1 DEF Types, StateTypes, JobTypes, PhaseTypes
<1>3. MainTypes'
  BY <1>1 DEF Types, MainTypes, Places, Waits, Calling
<1>4. Covers'
  <2>1. ASSUME NEW q \in Reqs
        PROVE  cnt'[q] >= Puts(q)' + Stores(q)' + Bit(busy' = q) + Bit(Putting(q)') + Bit(Marked(q)')
    <3>1. /\ Puts(q) \in Nat /\ Stores(q) \in Nat /\ cnt[q] \in Nat /\ cnt'[q] \in Nat
          /\ cnt[q] >= Puts(q) + Stores(q) + Bit(busy = q) + Bit(Putting(q)) + Bit(Marked(q))
      BY <1>1, Counted DEF IInv, Covers, Types
    <3>2. Puts(q)' = Puts(q)
      BY DEF Puts, Unsettled
    <3>3. /\ Bit(Putting(q)') \in {0, 1} /\ Bit(Putting(q)) \in {0, 1}
          /\ Bit(busy' = q) \in {0, 1} /\ Bit(busy = q) \in {0, 1}
          /\ Bit(Marked(q)') \in {0, 1} /\ Bit(Marked(q)) \in {0, 1}
      BY DEF Bit
    <3>4. Bit(Marked(q)') <= Bit(Marked(q))
      BY DEF Bit, Marked
    <3> QED
      BY <3>1, <3>2, <3>3, <3>4
  <2> QED
    BY <2>1 DEF Covers
<1>5. PutsKnown'
  BY DEF IInv, PutsKnown, InFlight, Ended
<1>6. Failures'
  BY DEF IInv, Failures, Failing, Waits
<1>7. Phases'
  <2>1. OnCall' => phase[main'.r].is = "running"
    BY DEF IInv, Phases, OnCall, Waits, Calling
  <2>2. \A q \in Reqs : Unsettled(q)' = Unsettled(q) /\ (Freed(q)' <=> Freed(q))
    BY DEF Unsettled, Freed
  <2> QED
    BY <2>1, <2>2 DEF IInv, Phases, OnCall, Told
<1> QED
  BY <1>1, <1>2, <1>3, <1>4, <1>5, <1>6, <1>7 DEF IInv, Types

LEMMA StoreCallKeeps ==
  ASSUME IInv, NEW r \in Reqs, StoreCall(r)
  PROVE  IInv'
<1>1. /\ main.pc = "idle" /\ phase[r].is = "running" /\ main' = [Idle EXCEPT !.pc = "put", !.r = r]
      /\ cnt' = [cnt EXCEPT ![r] = @ + 1] /\ UNCHANGED <<st, job, phase, asked, queue, busy>>
  BY DEF StoreCall, At, CountUp
<1>2. Types
  BY DEF IInv
<1>3. DOMAIN main' = DOMAIN Idle /\ main'.pc = "put" /\ main'.r = r /\ main'.bad = {} /\ main'.marked = FALSE
  BY <1>1 DEF Idle
<1>4. cnt' \in [Reqs -> Nat] /\ QueueTypes'
  BY <1>1, <1>2 DEF Types, QueueTypes
<1>5. ASSUME NEW q \in Reqs
      PROVE  /\ cnt'[q] + Stores(q) + Bit(busy = q) + Bit(Putting(q))
                  >= cnt[q] + Stores(q)' + Bit(busy' = q) + Bit(Putting(q)')
             /\ Stores(q)' \in Nat /\ (Freed(q) => Waiting(q)' = {} /\ busy' # q)
  <2>1. Waiting(q)' = Waiting(q) /\ Stores(q)' = Stores(q) /\ Stores(q) \in Nat /\ cnt[q] \in Nat
    BY <1>1, <1>2, Counted DEF Waiting, Stores, Types
  <2>2. /\ Bit(Putting(q)) = 0 /\ Bit(Putting(q)') = (IF q = r THEN 1 ELSE 0)
        /\ Bit(busy' = q) = Bit(busy = q) /\ Bit(busy = q) \in {0, 1}
    BY <1>1, <1>3 DEF Bit, Putting
  <2>3. cnt'[q] = IF q = r THEN cnt[q] + 1 ELSE cnt[q]
    BY <1>1, <1>2 DEF Types
  <2>4. Freed(q) => Waiting(q)' = {} /\ busy' # q
    BY <1>1, <2>1 DEF IInv, Phases
  <2> QED
    BY <2>1, <2>2, <2>3, <2>4
<1> QED
  BY <1>1, <1>3, <1>4, <1>5, StoreStep

LEMMA EnqueueStoreKeeps ==
  ASSUME IInv, EnqueueStore
  PROVE  IInv'
<1> DEFINE R == main.r
           n == Len(queue) + 1
<1>1. /\ main.pc = "put" /\ main.pc \in Calling /\ queue' = Append(queue, R) /\ main' = Idle
      /\ UNCHANGED <<st, job, phase, asked, cnt, busy>>
  BY DEF EnqueueStore, At, Calling
<1>2. Types /\ R \in Reqs /\ ~Freed(R) /\ queue \in Seq(Reqs \cup {"pill"}) /\ Len(queue) \in Nat
  BY <1>1, InCall DEF IInv, Types, QueueTypes
<1>3. DOMAIN main' = DOMAIN Idle /\ main'.pc = "idle" /\ main'.bad = {} /\ main'.marked = FALSE
  BY <1>1 DEF Idle
<1>4. cnt' \in [Reqs -> Nat] /\ QueueTypes'
  BY <1>1, <1>2 DEF Types, QueueTypes
<1>5. Len(queue') = n /\ queue'[n] = R /\ \A i \in 1 .. Len(queue) : queue'[i] = queue[i]
  BY <1>1, <1>2
<1>6. ASSUME NEW q \in Reqs
      PROVE  Waiting(q)' = IF q = R THEN Waiting(q) \cup {n} ELSE Waiting(q)
  BY <1>2, <1>5 DEF Waiting
<1>7. ASSUME NEW q \in Reqs
      PROVE  /\ cnt'[q] + Stores(q) + Bit(busy = q) + Bit(Putting(q))
                  >= cnt[q] + Stores(q)' + Bit(busy' = q) + Bit(Putting(q)')
             /\ Stores(q)' \in Nat /\ (Freed(q) => Waiting(q)' = {} /\ busy' # q)
  <2>a. n \notin 1 .. Len(queue)
    BY <1>2
  <2>1. IsFiniteSet(Waiting(q)) /\ Stores(q) \in Nat /\ cnt[q] \in Nat /\ n \notin Waiting(q)
    <3>1. n \notin Waiting(q)
      BY <2>a DEF Waiting
    <3> HIDE DEF n
    <3> QED
      BY <1>2, <3>1, Counted DEF Types
  <2>2. Cardinality(Waiting(q) \cup {n}) = Cardinality(Waiting(q)) + 1
    BY <2>1, FS_AddElement
  <2>3. Stores(q)' = IF q = R THEN Stores(q) + 1 ELSE Stores(q)
    BY <1>6, <2>2 DEF Stores
  <2>4. /\ Bit(Putting(q)) = (IF q = R THEN 1 ELSE 0) /\ Bit(Putting(q)') = 0
        /\ Bit(busy' = q) = Bit(busy = q) /\ Bit(busy = q) \in {0, 1}
    BY <1>1, <1>3 DEF Bit, Putting
  <2>5. Freed(q) => Waiting(q)' = {} /\ busy' # q
    BY <1>1, <1>2, <1>6 DEF IInv, Phases
  <2> QED
    BY <1>1, <2>1, <2>3, <2>4, <2>5
<1> QED
  BY <1>1, <1>3, <1>4, <1>7, StoreStep

LEMMA WorkerTakeKeeps ==
  ASSUME IInv, WorkerTake
  PROVE  IInv'
<1>1. /\ busy = None /\ queue # <<>> /\ busy' = Head(queue) /\ queue' = Tail(queue)
      /\ UNCHANGED <<main, st, job, phase, asked, cnt>>
  BY DEF WorkerTake
<1>2. Types /\ queue \in Seq(Reqs \cup {"pill"}) /\ None \notin Reqs
  BY StoreAssumption DEF IInv, Types, QueueTypes
<1>3. /\ Len(queue) \in Nat \ {0} /\ Tail(queue) \in Seq(Reqs \cup {"pill"}) /\ Head(queue) = queue[1]
      /\ Len(Tail(queue)) = Len(queue) - 1 /\ \A i \in 1 .. Len(queue) - 1 : Tail(queue)[i] = queue[i + 1]
  BY <1>1, <1>2
<1>4. queue[1] \in Reqs \cup {"pill"}
  BY <1>2, <1>3
<1>5. cnt' \in [Reqs -> Nat] /\ QueueTypes'
  BY <1>1, <1>2, <1>3, <1>4 DEF Types, QueueTypes
<1>6. ASSUME NEW q \in Reqs
      PROVE  /\ cnt'[q] + Stores(q) + Bit(busy = q) + Bit(Putting(q))
                  >= cnt[q] + Stores(q)' + Bit(busy' = q) + Bit(Putting(q)')
             /\ Stores(q)' \in Nat /\ (Freed(q) => Waiting(q)' = {} /\ busy' # q)
  <2> DEFINE W == Waiting(q) \ {1}
             V == Waiting(q)'
             f == [i \in V |-> i + 1]
  <2>1. IsFiniteSet(Waiting(q)) /\ Stores(q) \in Nat /\ cnt[q] \in Nat
    BY <1>2, Counted DEF Types
  <2>2. IsFiniteSet(W)
    BY <2>1, FS_Subset
  <2>3. \A i \in V : i \in Nat \ {0} /\ i + 1 \in W
    BY <1>1, <1>3 DEF Waiting
  <2>4. f \in [V -> W] /\ \A i, k \in V : f[i] = f[k] => i = k
    BY <2>3
  <2> HIDE DEF f, V, W
  <2>5. f \in Injection(V, W)
    BY <2>4 DEF Injection, IsInjective
  <2>6. Cardinality(V) <= Cardinality(W) /\ IsFiniteSet(V)
    BY <2>2, <2>5, FS_Injection
  <2>7. Cardinality(V) \in Nat /\ Cardinality(W) \in Nat
    BY <2>2, <2>6, FS_CardinalityType
  <2>8. Cardinality(W) = IF queue[1] = q THEN Stores(q) - 1 ELSE Stores(q)
    <3>1. 1 \in Waiting(q) <=> queue[1] = q
      BY <1>3 DEF Waiting
    <3>2. Cardinality(Waiting(q) \ {1}) = IF 1 \in Waiting(q) THEN Cardinality(Waiting(q)) - 1 ELSE Cardinality(Waiting(q))
      BY <2>1, FS_RemoveElement
    <3> QED
      BY <3>1, <3>2 DEF W, Stores
  <2>9. Stores(q)' = Cardinality(V)
    BY DEF Stores, V
  <2>10. /\ Bit(busy = q) = 0 /\ Bit(busy' = q) = (IF queue[1] = q THEN 1 ELSE 0)
         /\ Bit(Putting(q)') = Bit(Putting(q)) /\ Bit(Putting(q)) \in {0, 1}
    BY <1>1, <1>2, <1>3 DEF Bit, Putting
  <2>11. Freed(q) => V = {} /\ busy' # q
    <3>1. ASSUME Freed(q) PROVE Waiting(q) = {}
      BY <3>1 DEF IInv, Phases
    <3>2. Waiting(q) = {} => V = {} /\ queue[1] # q
      BY <1>3, <2>3 DEF W, Waiting
    <3> QED
      BY <1>1, <1>3, <3>1, <3>2
  <2>12. cnt'[q] = cnt[q]
    BY <1>1
  <2> QED
    BY <2>1, <2>6, <2>7, <2>8, <2>9, <2>10, <2>11, <2>12 DEF V
<1> QED
  BY <1>1, <1>5, <1>6, StoreStep

LEMMA WorkerDoneKeeps ==
  ASSUME IInv, WorkerDone
  PROVE  IInv'
<1>1. /\ busy \in Reqs /\ busy' = None /\ cnt' = Decrement(cnt, busy, 1)
      /\ UNCHANGED <<main, st, job, phase, asked, queue>>
  BY DEF WorkerDone
<1>2. Types /\ None \notin Reqs
  BY StoreAssumption DEF IInv
<1>3. /\ cnt' \in [Reqs -> Nat]
      /\ \A q \in Reqs : cnt'[q] + (IF q = busy THEN 1 ELSE 0) >= cnt[q]
  BY <1>1, <1>2, Discounted
<1>4. QueueTypes'
  BY <1>1, <1>2 DEF Types, QueueTypes
<1>5. ASSUME NEW q \in Reqs
      PROVE  /\ cnt'[q] + Stores(q) + Bit(busy = q) + Bit(Putting(q))
                  >= cnt[q] + Stores(q)' + Bit(busy' = q) + Bit(Putting(q)')
             /\ Stores(q)' \in Nat /\ (Freed(q) => Waiting(q)' = {} /\ busy' # q)
  <2>1. Waiting(q)' = Waiting(q) /\ Stores(q)' = Stores(q) /\ Stores(q) \in Nat
    BY <1>1, <1>2, Counted DEF Waiting, Stores
  <2>2. /\ Bit(busy = q) = (IF q = busy THEN 1 ELSE 0) /\ Bit(busy' = q) = 0
        /\ Bit(Putting(q)') = Bit(Putting(q)) /\ Bit(Putting(q)) \in {0, 1}
    BY <1>1, <1>2 DEF Bit, Putting
  <2>3. Freed(q) => Waiting(q)' = {} /\ busy' # q
    BY <1>1, <1>2, <2>1 DEF IInv, Phases
  <2>4. cnt[q] \in Nat /\ cnt'[q] \in Nat
    BY <1>2, <1>3 DEF Types
  <2> QED
    BY <1>3, <2>1, <2>2, <2>3, <2>4
<1> QED
  BY <1>1, <1>3, <1>4, <1>5, StoreStep

-----------------------------------------------------------------------------
(* The backend's put *)

LEMMA PutPagesKeeps ==
  ASSUME IInv, NEW j \in 1 .. Len(job), PutPages(j)
  PROVE  IInv'
<1>1. job[j].is = "run" /\ UNCHANGED <<main, st, cnt, queue, busy, phase, asked>>
  BY DEF PutPages
<1>2. PICK is \in {"ok", "bad", "lost"} : job' = [job EXCEPT ![j].is = is]
  BY DEF PutPages
<1>3. Types /\ IsSeq(job) /\ DOMAIN job = 1 .. Len(job)
  BY DEF IInv, Types, JobTypes, IsSeq
<1>4. IsSeq(job') /\ Len(job') = Len(job)
  <2>1. DOMAIN job' = 1 .. Len(job) /\ job' = [i \in 1 .. Len(job) |-> job'[i]]
    BY <1>2, <1>3
  <2> QED
    BY <1>3, <2>1, SeqUpdate
<1>5. \A i \in 1 .. Len(job) :
        /\ DOMAIN job[i] = {"r", "pages", "ends", "base", "is", "called", "back"}
        /\ job[i].r \in Reqs /\ job[i].called \in BOOLEAN /\ job[i].is \in {"run", "ok", "bad", "lost"}
  BY <1>3 DEF Types, JobTypes
<1>6. ASSUME NEW i \in 1 .. Len(job)
      PROVE  /\ DOMAIN job'[i] = DOMAIN job[i] /\ job'[i].r = job[i].r /\ job'[i].called = job[i].called
             /\ job'[i].is = IF i = j THEN is ELSE job[i].is
  <2>1. job'[i] = IF i = j THEN [job[i] EXCEPT !.is = is] ELSE job[i]
    BY <1>2, <1>3
  <2> QED
    BY <1>5, <2>1
<1>7. ~job[j].called
  BY <1>1 DEF IInv, PutsKnown
<1>8. Types'
  <2>1. JobTypes'
    BY <1>4, <1>5, <1>6 DEF JobTypes
  <2> QED
    BY <1>1, <1>3, <2>1 DEF Types, MainTypes, StateTypes, PhaseTypes, QueueTypes
<1>9. \A q \in Reqs : Unsettled(q)' = Unsettled(q) /\ Waiting(q)' = Waiting(q)
  BY <1>1, <1>4, <1>6 DEF Unsettled, Waiting
<1>10. Covers'
  BY <1>1, <1>9 DEF IInv, Covers, Puts, Stores, Putting, Marked
<1>11. \A i \in 1 .. Len(job) : InFlight(i)' => InFlight(i)
  BY <1>1, <1>6 DEF InFlight
<1>12. PutsKnown'
  <2>1. \A i \in 1 .. Len(job') : job'[i].called => job'[i].is \in {"ok", "bad"}
    BY <1>4, <1>6, <1>7 DEF IInv, PutsKnown
  <2>2. ASSUME NEW q \in Reqs, NEW i \in 1 .. Len(st'[q].futures)
        PROVE  LET k == st'[q].futures[i]
               IN k \in 1 .. Len(job') /\ job'[k].r = q /\ ~(job'[k].called /\ job'[k].is = "bad")
    <3> DEFINE k == st[q].futures[i]
    <3>1. k \in 1 .. Len(job) /\ job[k].r = q /\ ~(job[k].called /\ job[k].is = "bad")
      BY <1>1 DEF IInv, PutsKnown
    <3> HIDE DEF k
    <3>2. k \in 1 .. Len(job') /\ job'[k].r = q /\ ~(job'[k].called /\ job'[k].is = "bad")
      BY <1>4, <1>6, <1>7, <3>1
    <3> QED
      BY <1>1, <3>2 DEF k
  <2>3. ASSUME main'.pc # "dead", NEW i \in 1 .. Len(job'), InFlight(i)'
        PROVE  Among(i, st'[job'[i].r].futures)
    BY <1>1, <1>4, <1>6, <1>11, <2>3 DEF IInv, PutsKnown
  <2>4. main'.pc \in Ended => \A i \in 1 .. Len(job') : ~InFlight(i)'
    BY <1>1, <1>4, <1>11 DEF IInv, PutsKnown
  <2> QED
    BY <2>1, <2>2, <2>3, <2>4 DEF PutsKnown
<1>13. Failures'
  <2>1. ASSUME NEW i \in main.bad
        PROVE  i \in 1 .. Len(job') /\ job'[i].r = main.r /\ job'[i].is = "bad" /\ ~job'[i].called
    <3>1. i \in 1 .. Len(job) /\ job[i].r = main.r /\ job[i].is = "bad" /\ ~job[i].called
      BY DEF IInv, Failures, Failing
    <3> QED
      BY <1>1, <1>4, <1>6, <3>1
  <2> QED
    BY <1>1, <2>1 DEF IInv, Failures, Failing
<1>14. Phases'
  BY <1>1, <1>9 DEF IInv, Phases, Told, Freed
<1> QED
  BY <1>8, <1>10, <1>12, <1>13, <1>14 DEF IInv

-----------------------------------------------------------------------------
(* Finishing and preemption *)

LEMMA FinishKeeps ==
  ASSUME IInv, NEW r \in Reqs, Finish(r)
  PROVE  IInv'
<1>1. /\ main.pc = "idle" /\ phase[r].is = "running" /\ phase' = [phase EXCEPT ![r].is = "finished"]
      /\ UNCHANGED <<main, st, job, cnt, queue, busy, asked>>
  BY DEF Finish, At
<1>2. SameStates /\ CountKept /\ MainTypes'
  BY <1>1, StatesKept DEF CountKept, IInv, Types, MainTypes
<1>3. /\ DOMAIN phase' = Reqs
      /\ \A q \in Reqs : DOMAIN phase'[q] = {"is", "at", "base"}
                         /\ phase'[q].is = IF q = r THEN "finished" ELSE phase[q].is
  BY <1>1 DEF IInv, Types, PhaseTypes
<1>4. PhaseTypes'
  BY <1>1, <1>3 DEF IInv, Types, PhaseTypes
<1>5. Phases'
  <2>1. \A q \in Reqs : (Freed(q)' => Freed(q)) /\ (Told(q) => Told(q)') /\ Unsettled(q)' = Unsettled(q)
                        /\ Waiting(q)' = Waiting(q)
    BY <1>1, <1>3 DEF Freed, Told, Unsettled, Waiting
  <2>2. asked.deferred \subseteq Reqs
    BY DEF IInv, Types, PhaseTypes
  <2> QED
    BY <1>1, <2>1, <2>2 DEF IInv, Phases, Waits, Calling
<1>6. main.bad = {}
  BY <1>1 DEF IInv, Failures, Failing, Waits
<1> QED
  BY <1>1, <1>2, <1>4, <1>5, <1>6, QuietStep DEF Ended

LEMMA PreemptKeeps ==
  ASSUME IInv, NEW r \in Reqs, Preempt(r)
  PROVE  IInv'
<1>1. /\ main.pc = "idle" /\ phase[r].is = "running" /\ main' = [Idle EXCEPT !.pc = "wait", !.r = r, !.cont = "preempt"]
      /\ UNCHANGED <<st, job, cnt, queue, busy, asked, phase>>
  BY DEF Preempt, At
<1>2. SameStates /\ PhaseSame
  BY <1>1, StatesKept DEF PhaseSame, PhaseTypes, IInv, Types
<1>3. /\ DOMAIN main' = DOMAIN Idle /\ main'.marked = FALSE /\ main'.bad = {} /\ main'.pc = "wait"
      /\ main'.r = r /\ main'.cont = "preempt"
  BY <1>1 DEF Idle
<1> QED
  BY <1>1, <1>2, <1>3, StartStep DEF Targets

\* A request that nothing counts any more is not read.
LEMMA DrainedKeeps ==
  ASSUME IInv, PreemptDrained
  PROVE  IInv'
<1> DEFINE R == main.r
<1>1. /\ main.pc = "preempt" /\ main.pc \in Calling /\ ~Pending(R) /\ Dropped(R) /\ main' = Idle
      /\ phase' = [phase EXCEPT ![R].is = "freed"] /\ UNCHANGED <<job, cnt, queue, busy, asked>>
  BY DEF PreemptDrained, At, Calling
<1>2. Types /\ R \in Reqs /\ phase[R].is = "running" /\ StateTypes
  BY <1>1, InCall DEF IInv, Types
<1>3. SameStates /\ CountKept
  BY <1>1, <1>2, DroppedStates DEF CountKept
<1>4. /\ DOMAIN main' = DOMAIN Idle /\ main'.pc = "idle" /\ main'.marked = FALSE /\ main'.bad = {}
  BY <1>1 DEF Idle
<1>5. MainTypes'
  BY <1>4 DEF MainTypes, Places, Waits, Calling
<1>6. /\ DOMAIN phase' = Reqs
      /\ \A q \in Reqs : DOMAIN phase'[q] = {"is", "at", "base"}
                         /\ phase'[q].is = IF q = R THEN "freed" ELSE phase[q].is
  BY <1>1, <1>2 DEF Types, PhaseTypes
<1>7. PhaseTypes'
  BY <1>1, <1>6 DEF IInv, Types, PhaseTypes
<1>8. Unsettled(R) = {} /\ Waiting(R) = {} /\ busy # R
  <2>1. cnt[R] = 0
    BY <1>1, <1>2 DEF Pending, Types
  <2> QED
    BY <1>2, <2>1, Uncounted DEF IInv
<1>9. Phases'
  <2>1. \A q \in Reqs : (Freed(q)' => Freed(q) \/ q = R) /\ (q # R => (Told(q) => Told(q)'))
                        /\ Unsettled(q)' = Unsettled(q) /\ Waiting(q)' = Waiting(q)
    BY <1>1, <1>6 DEF Freed, Told, Unsettled, Waiting
  <2>2. asked.deferred \subseteq Reqs /\ R \notin asked.deferred
    BY <1>2 DEF IInv, Types, PhaseTypes, Phases, Told
  <2> QED
    BY <1>1, <1>4, <1>8, <2>1, <2>2 DEF IInv, Phases, Waits, Calling
<1> QED
  BY <1>1, <1>3, <1>4, <1>5, <1>7, <1>9, QuietStep DEF Ended

LEMMA GetFinishedKeeps ==
  ASSUME IInv, GetFinishedStores
  PROVE  IInv'
<1> DEFINE new == {r \in Reqs : phase[r].is = "finished"}
           out == {r \in Reqs : Reportable(r, new)}
<1>1. main.pc = "idle" /\ UNCHANGED <<main, job, cnt, queue, busy>>
  BY DEF GetFinishedStores, At
<1>2. /\ asked'.deferred = (asked.deferred \cup {r \in new : Pending(r)}) \ out
      /\ phase' = [r \in Reqs |-> IF r \in out THEN [phase[r] EXCEPT !.is = "freed"]
                                  ELSE IF r \in new THEN [phase[r] EXCEPT !.is = "told"] ELSE phase[r]]
      /\ st' = [r \in Reqs |-> IF r \in out /\ st[r].futures = <<>> /\ st[r].pend = {} THEN NoState ELSE st[r]]
  BY DEF GetFinishedStores
<1>3. Types /\ StateTypes /\ PhaseTypes /\ asked.deferred \subseteq Reqs
  BY DEF IInv, Types, PhaseTypes
<1>4. \A r \in out : cnt[r] = 0 /\ r \in Reqs
  BY <1>3 DEF Reportable, Pending, Types
<1>5. new \subseteq Reqs
  OBVIOUS
<1> HIDE DEF out
<1>6. SameStates /\ CountKept /\ MainTypes'
  <2>1. SameStates
    <3>1. DOMAIN st' = Reqs
      BY <1>2
    <3>2. ASSUME NEW r \in Reqs
          PROVE  DOMAIN st'[r] = DOMAIN NoState /\ st'[r].futures = st[r].futures
      <4>1. CASE r \in out /\ st[r].futures = <<>> /\ st[r].pend = {}
        <5>1. st'[r] = NoState
          BY <1>2, <4>1
        <5> QED
          BY <4>1, <5>1 DEF NoState
      <4>2. CASE ~(r \in out /\ st[r].futures = <<>> /\ st[r].pend = {})
        <5>1. st'[r] = st[r]
          BY <1>2, <4>2
        <5> QED
          BY <1>3, <5>1 DEF StateTypes
      <4> QED
        BY <4>1, <4>2
    <3> QED
      BY <3>1, <3>2 DEF SameStates
  <2> QED
    BY <1>1, <2>1 DEF CountKept, IInv, Types, MainTypes
<1>7. /\ DOMAIN phase' = Reqs
      /\ \A r \in Reqs : DOMAIN phase'[r] = {"is", "at", "base"}
                         /\ phase'[r].is = IF r \in out THEN "freed" ELSE IF r \in new THEN "told" ELSE phase[r].is
  BY <1>2, <1>3 DEF PhaseTypes
<1>8. PhaseTypes'
  BY <1>2, <1>3, <1>5, <1>7 DEF PhaseTypes
<1>9. Phases'
  <2>1. \A r \in asked'.deferred : r \in Reqs /\ r \notin out /\ (r \in new \/ Told(r))
    BY <1>2, <1>3, <1>5 DEF IInv, Phases
  <2>2. \A r \in asked'.deferred : Told(r)'
    BY <1>7, <2>1 DEF Told
  <2>3. \A r \in Reqs : Freed(r)' => Freed(r) \/ r \in out
    BY <1>7 DEF Freed
  <2>4. \A r \in Reqs : Freed(r)' => Unsettled(r) = {} /\ Waiting(r) = {} /\ busy # r
    BY <1>3, <1>4, <2>3, Uncounted DEF IInv, Phases
  <2>5. \A r \in Reqs : Unsettled(r)' = Unsettled(r) /\ Waiting(r)' = Waiting(r) /\ busy' = busy
    BY <1>1 DEF Unsettled, Waiting
  <2> QED
    BY <1>1, <2>2, <2>4, <2>5 DEF Phases, Waits, Calling
<1>10. main.bad = {}
  BY <1>1 DEF IInv, Failures, Failing, Waits
<1>11. asked'.deferred \subseteq Reqs
  BY <1>2, <1>3, <1>5
<1> QED
  BY <1>1, <1>6, <1>8, <1>9, <1>10, QuietStep DEF Ended

-----------------------------------------------------------------------------
(* The scheduler's metadata and close() *)

LEMMA WorkerMetaKeeps ==
  ASSUME IInv, WorkerMeta
  PROVE  IInv'
<1>1. main.pc = "idle" /\ UNCHANGED <<main, st, job, cnt, queue, busy, asked, phase>>
  BY DEF WorkerMeta, At
<1>2. SameStates /\ PhaseSame /\ DOMAIN main' = DOMAIN Idle /\ main'.marked \in BOOLEAN /\ main'.bad = {}
  BY <1>1, StatesKept DEF PhaseSame, PhaseTypes, IInv, Types, MainTypes, Failures, Failing, Waits
<1> QED
  BY <1>1, <1>2, StartStep

LEMMA CloseWaitKeeps ==
  ASSUME IInv, CloseWait
  PROVE  IInv'
<1>1. main.pc = "idle" /\ UNCHANGED <<st, job, cnt, queue, busy, asked, phase>>
  BY DEF CloseWait, At
<1>2. SameStates /\ PhaseSame /\ DOMAIN main = DOMAIN Idle /\ main.marked \in BOOLEAN /\ main.bad = {}
  BY <1>1, StatesKept DEF PhaseSame, PhaseTypes, IInv, Types, MainTypes, Failures, Failing, Waits
<1>3. CASE \E r \in Reqs : main' = [Idle EXCEPT !.pc = "wait", !.r = r, !.cont = "close"]
  <2>1. PICK r \in Reqs : main' = [Idle EXCEPT !.pc = "wait", !.r = r, !.cont = "close"]
    BY <1>3
  <2>2. /\ DOMAIN main' = DOMAIN Idle /\ main'.marked = FALSE /\ main'.bad = {} /\ main'.pc = "wait"
        /\ main'.r = r /\ main'.cont = "close"
    BY <2>1 DEF Idle
  <2> QED
    BY <1>1, <1>2, <2>2, StartStep DEF Targets
<1>4. CASE (\A r \in Reqs : st[r].futures = <<>>) /\ Goto("pill")
  <2>1. /\ DOMAIN main' = DOMAIN Idle /\ main'.marked = main.marked /\ main'.bad = {} /\ main'.pc = "pill"
        /\ main'.r = main.r
    BY <1>2, <1>4 DEF Goto, Idle
  <2> QED
    BY <1>1, <1>2, <1>4, <2>1, StartStep
<1> QED
  BY <1>3, <1>4 DEF CloseWait

LEMMA CloseNextKeeps ==
  ASSUME IInv, CloseNext
  PROVE  IInv'
<1>1. main.pc = "close" /\ main' = Idle /\ UNCHANGED <<st, job, cnt, queue, busy, asked, phase>>
  BY DEF CloseNext, At
<1>2. /\ DOMAIN main' = DOMAIN Idle /\ main'.pc = "idle" /\ main'.marked = FALSE /\ main'.bad = {}
  BY <1>1 DEF Idle
<1>3. SameStates /\ CountKept /\ MainTypes' /\ PhaseTypes'
  BY <1>1, <1>2, StatesKept DEF CountKept, IInv, Types, MainTypes, PhaseTypes, Places, Waits, Calling
<1>4. Phases'
  BY <1>1, <1>2 DEF IInv, Phases, Waits, Calling, Told, Freed, Unsettled, Waiting
<1> QED
  BY <1>1, <1>2, <1>3, <1>4, QuietStep DEF Ended

\* When every wait is behind, no put is in flight, and the states go.
LEMMA ClosePillKeeps ==
  ASSUME IInv, ClosePill
  PROVE  IInv'
<1>1. /\ main.pc = "pill" /\ main' = [main EXCEPT !.pc = "join"] /\ queue' = Append(queue, "pill")
      /\ st' = [r \in Reqs |-> NoState] /\ UNCHANGED <<job, cnt, busy, asked, phase>>
  BY DEF ClosePill, At, Goto
<1>2. Types /\ "pill" \notin Reqs /\ DOMAIN main = DOMAIN Idle /\ queue \in Seq(Reqs \cup {"pill"})
  BY StoreAssumption DEF IInv, Types, MainTypes, QueueTypes
<1>3. /\ DOMAIN main' = DOMAIN Idle /\ main'.pc = "join" /\ main'.marked = main.marked /\ main'.bad = main.bad
      /\ main'.r = main.r
  BY <1>1, <1>2 DEF Idle
<1>4. MainTypes' /\ JobTypes' /\ PhaseTypes' /\ QueueTypes' /\ cnt' \in [Reqs -> Nat]
  BY <1>1, <1>2, <1>3 DEF Types, MainTypes, JobTypes, PhaseTypes, QueueTypes, Places, Ended, Waits, Calling
<1>5. NoState.futures = <<>>
  BY DEF NoState
<1>6. \A r \in Reqs : st'[r].futures = <<>> /\ DOMAIN st'[r] = DOMAIN NoState
  BY <1>1, <1>5
<1>7. StateTypes'
  <2>1. <<>> \in Seq(Nat) /\ DOMAIN st' = Reqs
    BY <1>1
  <2>2. \A r \in Reqs : st'[r].futures \in Seq(Nat)
    BY <1>6, <2>1
  <2> QED
    BY <1>6, <2>1, <2>2 DEF StateTypes
<1>8. \A r \in Reqs : Waiting(r)' = Waiting(r) /\ Unsettled(r)' = Unsettled(r)
  <2>1. /\ Len(queue) \in Nat /\ Len(queue') = Len(queue) + 1 /\ queue'[Len(queue) + 1] = "pill"
        /\ \A i \in 1 .. Len(queue) : queue'[i] = queue[i]
    BY <1>1, <1>2
  <2>2. \A i \in 1 .. Len(queue') : i \in 1 .. Len(queue) \/ i = Len(queue) + 1
    BY <2>1
  <2>3. 1 .. Len(queue) \subseteq 1 .. Len(queue')
    BY <2>1
  <2> QED
    BY <1>1, <1>2, <2>1, <2>2, <2>3 DEF Waiting, Unsettled
<1>9. Covers'
  <2>1. \A r \in Reqs : (Putting(r)' <=> Putting(r)) /\ (Marked(r)' <=> Marked(r))
    BY <1>1, <1>3 DEF Putting, Marked
  <2>2. \A r \in Reqs : Bit(Putting(r)') = Bit(Putting(r)) /\ Bit(Marked(r)') = Bit(Marked(r))
    BY <2>1 DEF Bit
  <2>3. \A r \in Reqs : Puts(r)' = Puts(r) /\ Stores(r)' = Stores(r)
    BY <1>8 DEF Puts, Stores
  <2> QED
    BY <1>1, <2>2, <2>3 DEF IInv, Covers
<1>10. \A j \in 1 .. Len(job) : ~InFlight(j)
  BY <1>1 DEF IInv, PutsKnown, Ended
<1>11. PutsKnown'
  <2>1. \A j \in 1 .. Len(job') : ~InFlight(j)'
    BY <1>1, <1>10 DEF InFlight
  <2>2. \A r \in Reqs : 1 .. Len(st'[r].futures) = {}
    BY <1>6
  <2>3. \A j \in 1 .. Len(job') : job'[j].called => job'[j].is \in {"ok", "bad"}
    BY <1>1 DEF IInv, PutsKnown
  <2> QED
    BY <2>1, <2>2, <2>3 DEF PutsKnown
<1>12. Failures' /\ Phases'
  <2>1. main.bad = {}
    BY <1>1 DEF IInv, Failures, Failing, Waits
  <2>2. Phases'
    BY <1>1, <1>3, <1>8 DEF IInv, Phases, Waits, Calling, Told, Freed
  <2> QED
    BY <1>3, <2>1, <2>2 DEF Failures, Failing
<1> QED
  BY <1>4, <1>7, <1>9, <1>11, <1>12 DEF IInv, Types

LEMMA CloseJoinKeeps ==
  ASSUME IInv, CloseJoin
  PROVE  IInv'
<1>1. /\ main.pc = "join" /\ main' = [main EXCEPT !.pc = "closed"]
      /\ UNCHANGED <<st, job, cnt, queue, busy, asked, phase>>
  BY DEF CloseJoin, At, Goto
<1>2. DOMAIN main = DOMAIN Idle /\ main.marked \in BOOLEAN /\ main.bad = {}
  BY <1>1 DEF IInv, Types, MainTypes, Failures, Failing, Waits
<1>3. /\ DOMAIN main' = DOMAIN Idle /\ main'.pc = "closed" /\ main'.marked = main.marked /\ main'.bad = {}
      /\ main'.r = main.r
  BY <1>1, <1>2 DEF Idle
<1>4. SameStates /\ CountKept /\ MainTypes' /\ PhaseTypes'
  BY <1>1, <1>2, <1>3, StatesKept DEF CountKept, IInv, Types, MainTypes, PhaseTypes, Places, Ended, Waits, Calling
<1>5. Phases'
  BY <1>1, <1>3 DEF IInv, Phases, Waits, Calling, Told, Freed, Unsettled, Waiting
<1> QED
  BY <1>1, <1>3, <1>4, <1>5, QuietStep DEF Ended

-----------------------------------------------------------------------------
(* The invariant of the store side *)

LEMMA InitStore == Init => IInv
<1> SUFFICES ASSUME Init PROVE IInv
  OBVIOUS
<1>1. DOMAIN main = DOMAIN Idle /\ main.pc = "idle" /\ main.marked = FALSE /\ main.bad = {}
  BY DEF Init, Idle
<1>2. MainTypes
  BY <1>1 DEF MainTypes, Places, Waits, Calling
<1>3. job = <<>> /\ Len(job) = 0 /\ IsSeq(job) /\ JobTypes
  <2>1. job = <<>> /\ <<>> \in Seq({}) /\ Len(<<>>) = 0
    BY DEF Init
  <2> QED
    BY <2>1 DEF IsSeq, JobTypes
<1>4. StateTypes /\ \A r \in Reqs : st[r].futures = <<>>
  <2>1. NoState.futures = <<>> /\ <<>> \in Seq(Nat)
    BY DEF NoState
  <2>2. st = [r \in Reqs |-> NoState]
    BY DEF Init
  <2> QED
    BY <2>1, <2>2 DEF StateTypes
<1>5. /\ PhaseTypes /\ asked.deferred = {}
      /\ \A r \in Reqs : phase[r].is \in {"running", "away"}
  BY DEF Init, PhaseTypes
<1>6. queue = <<>> /\ busy = None /\ QueueTypes /\ cnt = [r \in Reqs |-> 0] /\ cnt \in [Reqs -> Nat]
  BY DEF Init, QueueTypes
<1>7. ASSUME NEW r \in Reqs
      PROVE  /\ Unsettled(r) = {} /\ Waiting(r) = {}
             /\ cnt[r] >= Puts(r) + Stores(r) + Bit(busy = r) + Bit(Putting(r)) + Bit(Marked(r))
  <2>1. Unsettled(r) = {} /\ Waiting(r) = {}
    BY <1>3, <1>6 DEF Unsettled, Waiting
  <2>2. Puts(r) = 0 /\ Stores(r) = 0
    BY <2>1, FS_EmptySet DEF Puts, Stores
  <2>3. busy # r
    BY <1>6, StoreAssumption
  <2>4. Bit(busy = r) = 0 /\ Bit(Putting(r)) = 0 /\ Bit(Marked(r)) = 0
    BY <1>1, <2>3 DEF Bit, Putting, Marked
  <2> QED
    BY <1>6, <2>1, <2>2, <2>4
<1>8. Covers
  BY <1>7 DEF Covers
<1>9. PutsKnown
  <2>1. 1 .. Len(job) = {} /\ \A r \in Reqs : 1 .. Len(st[r].futures) = {}
    BY <1>3, <1>4
  <2> QED
    BY <2>1 DEF PutsKnown
<1>10. Failures /\ Phases
  BY <1>1, <1>5 DEF Failures, Failing, Phases, Waits, Calling, Freed
<1> QED
  BY <1>2, <1>3, <1>4, <1>5, <1>6, <1>8, <1>9, <1>10 DEF IInv, Types

LEMMA StepStore == IInv /\ [Next]_vars => IInv'
<1> SUFFICES ASSUME IInv, [Next]_vars PROVE IInv'
  OBVIOUS
<1>1. ASSUME NEW r \in Reqs, EarlyCall(r) \/ StoreCall(r) \/ Finish(r) \/ Preempt(r) \/ BatchCall(r) PROVE IInv'
  BY <1>1, EarlyCallKeeps, StoreCallKeeps, FinishKeeps, PreemptKeeps, BatchCallKeeps
<1>2. ASSUME NEW j \in 1 .. Len(job), Callback(j) \/ PutPages(j) PROVE IInv'
  BY <1>2, CallbackKeeps, PutPagesKeeps
<1>3. CASE MakeRoom \/ LookUp \/ PlanGroup \/ SubmitBatch \/ SubmitTail \/ MarkFinal
  BY <1>3, MakeRoomKeeps, LookUpKeeps, PlanGroupKeeps, SubmitBatchKeeps, SubmitTailKeeps, MarkFinalKeeps
<1>4. CASE WaitPop \/ WaitDone \/ Replay \/ ReplayEnd \/ DrainWindows
  BY <1>4, WaitPopKeeps, WaitDoneKeeps, ReplayKeeps, ReplayEndKeeps, DrainWindowsKeeps
<1>5. CASE RepairAll \/ RepairGroup \/ RepairFinal \/ FinalizeDirectStore \/ Report \/ AbortSaveStep
  BY <1>5, RepairsKeep, FinalizeKeeps, CallEndKeeps
<1>6. CASE EnqueueStore \/ WorkerTake \/ WorkerDone
  BY <1>6, EnqueueStoreKeeps, WorkerTakeKeeps, WorkerDoneKeeps
<1>7. CASE GetFinishedStores \/ PreemptDrained \/ WorkerMeta
  BY <1>7, GetFinishedKeeps, DrainedKeeps, WorkerMetaKeeps
<1>8. CASE CloseWait \/ CloseNext \/ ClosePill \/ CloseJoin
  BY <1>8, CloseWaitKeeps, CloseNextKeeps, ClosePillKeeps, CloseJoinKeeps
<1>9. CASE UNCHANGED vars
  <2>1. UNCHANGED <<main, st, job, cnt, queue, busy, asked, phase>>
    BY <1>9 DEF vars
  <2>2. Types'
    BY <2>1 DEF IInv, Types, MainTypes, StateTypes, JobTypes, PhaseTypes, QueueTypes
  <2>3. Covers' /\ PutsKnown'
    BY <2>1 DEF IInv, Covers, PutsKnown, Puts, Stores, Unsettled, Waiting, Putting, Marked, InFlight
  <2>4. Failures' /\ Phases'
    BY <2>1 DEF IInv, Failures, Failing, Phases, Told, Freed, Unsettled, Waiting
  <2> QED
    BY <2>2, <2>3, <2>4 DEF IInv
<1> QED
  BY <1>1, <1>2, <1>3, <1>4, <1>5, <1>6, <1>7, <1>8, <1>9 DEF Next, Calls, Progress

LEMMA StoreInvariant == Spec => []IInv
BY InitStore, StepStore, PTL DEF Spec

\* A put in flight is not settled: what nothing counts, nothing reads.
LEMMA UnreadWhenFreed == IInv => FreedUnread
<1> SUFFICES ASSUME IInv PROVE FreedUnread
  OBVIOUS
<1>1. \A r \in Reqs : Running(r) \subseteq Unsettled(r)
  BY DEF IInv, PutsKnown, Running, InFlight, Unsettled
<1>2. ASSUME NEW r \in Reqs, Freed(r) PROVE ~Reads(r)
  <2>1. Unsettled(r) = {} /\ Waiting(r) = {} /\ busy # r
    BY <1>2 DEF IInv, Phases
  <2> QED
    BY <1>1, <2>1 DEF Reads, Waiting
<1>3. At("closed") => \A r \in Reqs : Running(r) = {}
  BY DEF At, IInv, PutsKnown, Ended, Running
<1> QED
  BY <1>2, <1>3 DEF FreedUnread

(* Blocks that were given back, by the poll for finished requests, by a     *)
(* preemption or by close(), are read by no put in flight and by no store   *)
(* in the background queue, whatever puts failed, were lost or were         *)
(* repaired on the way.                                                     *)
THEOREM FreedAlwaysUnread == Spec => []FreedUnread
BY StoreInvariant, UnreadWhenFreed, PTL

=============================================================================
