------------------------ MODULE RemoteFillProofs ------------------------
(***************************************************************************)
(* Remote fill, proved for any number of transfers, windows and pages: the *)
(* destination of a native push stays hidden while it may run, only pages  *)
(* that arrived completely are admitted, and the accounting of the queue   *)
(* is exact.                                                               *)
(*                                                                         *)
(* Everything the three properties rest on is said of one transfer at a    *)
(* time (Local), except for the cache, the pool of queued jobs and the     *)
(* sum of the bytes they are charged (PoolQueued, QueueInv).               *)
(***************************************************************************)
EXTENDS RemoteFillCoordinator, FiniteSetTheorems, SequenceTheorems, TLAPS

-----------------------------------------------------------------------------
(* Types *)

Places == {"none", "window", "negotiate", "open", "reserve", "select", "arm", "armStatus",
           "native", "wait", "report", "reportStatus", "satisfied", "failed", "raised", "idle",
           "finishing", "preAbort", "finish", "finStatus", "finAbort", "ended",
           "aborting", "abort", "closed"}
Ops == {"none", "negotiate", "open", "probe", "reserve", "arm", "report", "status", "finish", "abort"}
Results == {"none", "success", "failure"}
WindowStates == Results \cup {"reserved", "armed"}
TxStates == {"none", "open", "local", "persistent", "cancelled", "unsafe"}
Terminals == {"none", "LOCAL", "PERSISTENT", "CANCELLED", "FAILED"}
Phases == {"absent", "new", "submit", "wait", "finish", "finished", "abandoned", "abort",
           "closing", "raised", "released"}
JobStates == {"none", "queued", "running", "done", "fatal"}
Replies == [code : {"none", "ok", "reject", "fatal"}, hole : BOOLEAN, made : SUBSET Keys,
            seen : WindowStates \cup TxStates]
Calls == [op : Ops, w : Nat, arg : Results, st : {"idle", "sent", "served", "lost"}, reply : Replies]
Sessions == [pc : Places, w : Nat, probe : BOOLEAN, opened : BOOLEAN, viable : BOOLEAN,
             unknown : BOOLEAN, fatal : BOOLEAN, made : SUBSET Keys, rc : Results]
Requests == [phase : Phases, next : Nat \ {0}, disabled : BOOLEAN, futures : Seq(Nat),
             windows : Int, bytes : Int, extra : Nat]

\* The types of the variables.  Windows and jobs of a transfer are numbered by
\* PagesOf and Batches.
TypeOK ==
  /\ cache \in [Keys -> {"absent", "full", "partial"}]
  /\ \A p \in hidden : /\ p = <<p[1], p[2], p[3]>> /\ p[1] \in Transfers
                       /\ p[2] \in Windows(p[1]) /\ p[3] \in Keys
  /\ DOMAIN win = Transfers
  /\ \A q \in Transfers : win[q] \in [Windows(q) -> WindowStates]
  /\ tx \in [Transfers -> TxStates]
  /\ rpc \in [Transfers -> Calls]
  /\ ses \in [Transfers -> Sessions]
  /\ terminal \in [Transfers -> Terminals]
  /\ req \in [Transfers -> Requests]
  /\ DOMAIN job = Transfers
  /\ \A q \in Transfers : job[q] \in [DOMAIN Batches[q] -> JobStates]
  /\ pool \in Seq(Jobs)
  /\ total \in Int

-----------------------------------------------------------------------------
(* One transfer: its jobs, its session, the call in flight, its pages *)

JobPlaces == {"window", "negotiate", "open", "reserve", "select", "arm", "armStatus", "native",
              "wait", "report", "reportStatus", "satisfied", "failed"}
FinishPlaces == {"finishing", "preAbort", "finish", "finStatus", "finAbort"}
AbortPlaces == {"aborting", "abort"}

Awaited(q, b) == \E i \in 1 .. Len(req[q].futures) : req[q].futures[i] = b
Working(q, b) == job[q][b] = "running" /\ PreviousDone(q, b) /\ ~PreviousRaised(q, b)

\* A job that was submitted has its future until the store thread collects it.
JobsAwaited(q) ==
  \A b \in DOMAIN Batches[q] : /\ job[q][b] # "none" => b < req[q].next
                               /\ job[q][b] \in {"queued", "running"} => Awaited(q, b)

\* Who moves the session: the one job whose turn it is, finish() or abort().  A
\* fatal session stays where it is, and no request is released with one that
\* was raised.
SessionOwned(q) ==
  /\ ses[q].pc \in JobPlaces => \E b \in DOMAIN Batches[q] : Working(q, b)
  /\ ses[q].pc \in FinishPlaces => req[q].phase = "finish"
  /\ ses[q].pc \in AbortPlaces => req[q].phase = "abort"
  /\ ses[q].pc \in {"ended", "closed"} =>
       req[q].phase \in {"finish", "finished", "closing", "released", "raised", "abort"}
  /\ ses[q].pc = "raised" => /\ ses[q].fatal
                             /\ \/ req[q].phase \in {"finish", "abort", "raised"}
                                \/ \E b \in DOMAIN Batches[q] :
                                     Awaited(q, b) /\ (job[q][b] = "fatal" \/ Working(q, b))
  /\ ses[q].fatal => ses[q].pc \in {"raised", "ended"}
  /\ req[q].phase \in {"finish", "finished", "abort", "released"} => req[q].futures = <<>>
  /\ req[q].phase = "released" => ses[q].pc \in {"none", "idle", "ended", "closed"}

\* The one control request of a session follows from where the session is.
CallMatches(q) ==
  LET pc == ses[q].pc
      op == rpc[q].op
  IN  /\ pc \in {"negotiate", "open", "arm", "finish"} => op = pc
      /\ pc = "reserve" => op = IF ses[q].probe THEN "probe" ELSE "reserve"
      /\ pc \in {"armStatus", "reportStatus", "finStatus"} => op = "status"
      /\ pc \in {"preAbort", "finAbort", "abort"} => op = "abort"
      /\ pc = "report" => op \in {"none", "report"} /\ (op = "report" => rpc[q].arg = ses[q].rc)
      /\ pc \in {"none", "window", "select", "native", "wait", "satisfied", "failed", "raised", "idle",
                 "finishing", "ended", "aborting", "closed"} => op = "none"
      /\ pc \in JobPlaces /\ op \in {"probe", "reserve", "arm", "status", "report"} => rpc[q].w = ses[q].w
      /\ pc = "finStatus" => rpc[q].w = 0
      /\ pc \in JobPlaces => ses[q].w \in Windows(q)

HiddenAt(q, w, S) == \A k \in S : <<q, w, k>> \in hidden
OnlyHidden(q, w, S) == \A k \in Keys : <<q, w, k>> \in hidden => k \in S
Answered(q) == rpc[q].st = "served" /\ rpc[q].reply.code = "ok"

\* What RESERVE answered is what is hidden for the window, and stays hidden while
\* the transaction is open or the window is armed.
Reservation(q) ==
  LET w == ses[q].w
  IN  /\ \A v \in Windows(q) : win[q][v] = "none" => OnlyHidden(q, v, {})
      /\ ses[q].pc = "reserve" /\ rpc[q].op = "reserve" /\ Answered(q) /\ ~rpc[q].reply.hole =>
           /\ win[q][w] # "none" /\ OnlyHidden(q, w, rpc[q].reply.made)
           /\ tx[q] = "open" \/ win[q][w] = "armed" => HiddenAt(q, w, rpc[q].reply.made)
      /\ ses[q].pc \in {"select", "arm", "armStatus", "native", "wait", "report", "reportStatus"} =>
           win[q][w] # "none" /\ OnlyHidden(q, w, ses[q].made)
      /\ ses[q].pc \in {"select", "arm", "armStatus"} /\ (tx[q] = "open" \/ win[q][w] = "armed") =>
           HiddenAt(q, w, ses[q].made)

\* A push begins with a proof that its window is armed, and an armed window is
\* left alone by everything but the report of its end.
PushArmed(q) ==
  LET w == ses[q].w
  IN  /\ ses[q].pc = "arm" /\ Answered(q) => win[q][w] = "armed"
      /\ ses[q].pc = "armStatus" /\ Answered(q) /\ rpc[q].reply.seen = "armed" => win[q][w] = "armed"
      /\ ses[q].pc \in {"native", "wait"} => win[q][w] = "armed" /\ HiddenAt(q, w, ses[q].made)
      /\ \A v : <<q, v>> \in writing =>
           /\ v = w /\ w \in Windows(q) /\ ses[q].pc \in {"wait", "raised"}
           /\ win[q][w] = "armed" /\ HiddenAt(q, w, ses[q].made)

\* Success is reported of pages that were written, and what a window pushed with
\* success keeps hidden was written.
SuccessWritten(q) ==
  /\ ses[q].pc \in {"report", "reportStatus"} /\ ses[q].rc = "success" =>
       \A k \in ses[q].made : <<q, ses[q].w, k>> \in written
  /\ \A v \in Windows(q), k \in Keys :
       win[q][v] = "success" /\ <<q, v, k>> \in hidden => <<q, v, k>> \in written

\* A committed transfer stays committed, and LOCAL is said of committed ones only.
LocalCommitted(q) ==
  /\ tx[q] = "local" => Armed(q) = {}
  /\ ses[q].pc \in {"finish", "finStatus"} /\ Answered(q) /\ rpc[q].reply.seen = "local" => tx[q] = "local"
  /\ terminal[q] = "LOCAL" => tx[q] = "local"

\* What a request is charged.  The pages of a prefix window are charged from their
\* selection to the end of the window.
ExtraPlaces == {"arm", "armStatus", "native", "wait", "report", "reportStatus",
                "satisfied", "failed", "raised"}
ChargeExact(q) ==
  /\ req[q].windows = Cardinality(Held(q))
  /\ req[q].bytes = req[q].extra + Cardinality(HeldPages(q))
  /\ req[q].extra # 0 => ses[q].pc \in ExtraPlaces

SessionInv == \A q \in Transfers : JobsAwaited(q) /\ SessionOwned(q) /\ CallMatches(q)
PageInv ==
  /\ \A q \in Transfers : Reservation(q) /\ PushArmed(q) /\ SuccessWritten(q) /\ LocalCommitted(q)
  /\ \A k \in Keys : cache[k] # "partial"
\* A job waits in the pool once, from its submission until a worker takes it.
PoolQueued ==
  /\ \A i \in 1 .. Len(pool) : job[pool[i][1]][pool[i][2]] = "queued"
  /\ \A i, j \in 1 .. Len(pool) : pool[i] = pool[j] => i = j
QueueInv == (\A q \in Transfers : ChargeExact(q)) /\ total = Cardinality(Charged) /\ total <= MaxBytes

-----------------------------------------------------------------------------
(* Constants, and how the steps of the producer write its records *)

\* Windows and jobs are numbered from one.
LEMMA Numbering ==
  ASSUME NEW q \in Transfers
  PROVE  /\ Windows(q) = 1 .. Len(PagesOf[q]) /\ Windows(q) \subseteq Nat /\ 0 \notin Windows(q)
         /\ \A w \in Windows(q) : PagesOf[q][w] \subseteq Keys
         /\ DOMAIN Batches[q] = 1 .. Len(Batches[q]) /\ DOMAIN Batches[q] \subseteq Nat \ {0}
         /\ \A b \in DOMAIN Batches[q] :
              /\ Batches[q][b] \in [kind : {"probe", "prefix", "push"}, from : Nat, to : Nat]
              /\ Batches[q][b].from \in Windows(q) /\ Batches[q][b].to \in Windows(q)
              /\ Batches[q][b].from .. Batches[q][b].to \subseteq Windows(q)
<1>1. PagesOf[q] \in Seq((SUBSET Keys) \ {{}})
  BY DecoderAssumption
<1> DEFINE P == PagesOf[q]
           B == Batches[q]
<1> HIDE DEF P, B
<1>2. Len(P) \in Nat /\ DOMAIN P = 1 .. Len(P)
  BY <1>1, LenProperties DEF P
<1>3. \A w \in 1 .. Len(P) : P[w] \in (SUBSET Keys) \ {{}}
  BY <1>1, ElementOfSeq DEF P
<1>4. B \in Seq([kind : {"probe", "prefix", "push"}, from : Nat, to : Nat])
  BY CoordinatorAssumption DEF B
<1>5. Len(B) \in Nat /\ DOMAIN B = 1 .. Len(B)
  BY <1>4, LenProperties
<1>6. \A b \in 1 .. Len(B) : B[b] \in [kind : {"probe", "prefix", "push"}, from : Nat, to : Nat]
  BY <1>4, ElementOfSeq
<1>7. \A b \in DOMAIN B : B[b].from \in 1 .. B[b].to /\ B[b].to <= Len(P)
  BY CoordinatorAssumption DEF B, P
<1>8. /\ Windows(q) = 1 .. Len(P) /\ Windows(q) \subseteq Nat /\ 0 \notin Windows(q)
      /\ \A w \in Windows(q) : P[w] \subseteq Keys
  BY <1>2, <1>3 DEF Windows, P
<1>9. ASSUME NEW b \in DOMAIN B
      PROVE  B[b].from \in Windows(q) /\ B[b].to \in Windows(q)
             /\ B[b].from .. B[b].to \subseteq Windows(q)
  BY <1>2, <1>5, <1>6, <1>7, <1>8
<1> QED
  BY <1>2, <1>5, <1>6, <1>8, <1>9 DEF P, B

\* Pages are finitely many.
LEMMA FinitePages ==
  /\ \A S \in SUBSET Keys : IsFiniteSet(S) /\ Cardinality(S) \in Nat
  /\ \A q \in Transfers : \A b \in DOMAIN Batches[q] :
       IsFiniteSet(JobPages(<<q, b>>)) /\ JobBytes(<<q, b>>) \in Nat
<1>1. IsFiniteSet(Keys)
  BY DecoderAssumption
<1>2. ASSUME NEW q \in Transfers, NEW b \in DOMAIN Batches[q]
      PROVE  IsFiniteSet(JobPages(<<q, b>>))
  <2> DEFINE W == Batches[q][b].from .. Batches[q][b].to
  <2>1. IsFiniteSet(W)
    BY Numbering, FS_Interval
  <2>2. IsFiniteSet(W \X Keys)
    BY <1>1, <2>1, FS_Product
  <2>3. JobPages(<<q, b>>) \subseteq W \X Keys
    BY DEF JobPages, Batch
  <2> QED
    BY <2>2, <2>3, FS_Subset
<1> QED
  BY <1>1, <1>2, FS_Subset, FS_CardinalityType DEF JobBytes

-----------------------------------------------------------------------------
(* Types are preserved *)

\* How a session and its call are written, for the steps that write nothing else.
LEMMA Writes ==
  ASSUME TypeOK, NEW q \in Transfers
  PROVE  /\ \A op \in Ops, w \in Nat, arg \in Results :
              Call(q, op, w, arg) => rpc' \in [Transfers -> Calls]
         /\ HangUp(q) => rpc' \in [Transfers -> Calls]
         /\ \A where \in Places : Goto(q, where) => ses' \in [Transfers -> Sessions]
         /\ Abandoned(q) => ses' \in [Transfers -> Sessions]
         /\ PrearmUnknown(q) => ses' \in [Transfers -> Sessions]
         /\ Fatal(q) => ses' \in [Transfers -> Sessions]
<1>1. /\ Idle \in Calls
      /\ \A op \in Ops, w \in Nat, arg \in Results :
           [op |-> op, w |-> w, arg |-> arg, st |-> "sent", reply |-> NoReply] \in Calls
  <2>1. NoReply \in Replies
    BY DEF NoReply, Reply, Replies, WindowStates, Results
  <2> QED
    BY <2>1 DEF Idle, Calls, Ops, Results
<1>2. rpc \in [Transfers -> Calls] /\ ses \in [Transfers -> Sessions]
  BY DEF TypeOK
<1>3. /\ \A op \in Ops, w \in Nat, arg \in Results :
           Call(q, op, w, arg) => rpc' \in [Transfers -> Calls]
      /\ HangUp(q) => rpc' \in [Transfers -> Calls]
  BY <1>1, <1>2 DEF Call, HangUp
<1>4. \A where \in Places : Goto(q, where) => ses' \in [Transfers -> Sessions]
  BY <1>2 DEF Goto, Sessions
<1>5. /\ Abandoned(q) => ses' \in [Transfers -> Sessions]
      /\ PrearmUnknown(q) => ses' \in [Transfers -> Sessions]
      /\ Fatal(q) => ses' \in [Transfers -> Sessions]
  BY <1>2 DEF Abandoned, PrearmUnknown, Fatal, Sessions, Places
<1> QED
  BY <1>3, <1>4, <1>5

\* The steps that write a second field of the session, and the ends of a session.
LEMMA Updates ==
  ASSUME TypeOK, NEW q \in Transfers, NEW where \in Places
  PROVE  /\ [ses EXCEPT ![q].pc = where] \in [Transfers -> Sessions]
         /\ [ses EXCEPT ![q].pc = where, ![q].opened = TRUE] \in [Transfers -> Sessions]
         /\ \A made \in SUBSET Keys :
              [ses EXCEPT ![q].pc = where, ![q].made = made] \in [Transfers -> Sessions]
         /\ \A rc \in Results :
              [ses EXCEPT ![q].pc = where, ![q].rc = rc] \in [Transfers -> Sessions]
         /\ \A fatal \in BOOLEAN :
              [ses EXCEPT ![q].pc = where, ![q].fatal = fatal] \in [Transfers -> Sessions]
         /\ \A outcome \in Terminals :
              [terminal EXCEPT ![q] = outcome] \in [Transfers -> Terminals]
<1>1. ses \in [Transfers -> Sessions] /\ ses[q] \in Sessions
  BY DEF TypeOK
<1>2. [ses EXCEPT ![q].pc = where] \in [Transfers -> Sessions]
  BY <1>1 DEF Sessions
<1>3. [ses EXCEPT ![q].pc = where, ![q].opened = TRUE] \in [Transfers -> Sessions]
  BY <1>1 DEF Sessions
<1>4. ASSUME NEW made \in SUBSET Keys
      PROVE  [ses EXCEPT ![q].pc = where, ![q].made = made] \in [Transfers -> Sessions]
  BY <1>1 DEF Sessions
<1>5. ASSUME NEW rc \in Results
      PROVE  [ses EXCEPT ![q].pc = where, ![q].rc = rc] \in [Transfers -> Sessions]
  BY <1>1 DEF Sessions
<1>6. ASSUME NEW fatal \in BOOLEAN
      PROVE  [ses EXCEPT ![q].pc = where, ![q].fatal = fatal] \in [Transfers -> Sessions]
  BY <1>1 DEF Sessions
<1>7. \A outcome \in Terminals : [terminal EXCEPT ![q] = outcome] \in [Transfers -> Terminals]
  BY DEF TypeOK
<1> QED
  BY <1>2, <1>3, <1>4, <1>5, <1>6, <1>7

\* Every step of a session keeps the types of what it writes, and writes nothing
\* else that has a type.
LEMMA SessionTypes ==
  ASSUME TypeOK, NEW q \in Transfers, SessionStep(q) \/ Selected(q)
  PROVE  /\ ses' \in [Transfers -> Sessions] /\ rpc' \in [Transfers -> Calls]
         /\ terminal' \in [Transfers -> Terminals] /\ UNCHANGED <<cache, hidden, win, tx>>
<1>a. /\ ses \in [Transfers -> Sessions] /\ rpc \in [Transfers -> Calls]
      /\ terminal \in [Transfers -> Terminals]
      /\ ses[q].w \in Nat /\ ses[q].rc \in Results
      /\ rpc[q].reply.made \subseteq Keys
  BY DEF TypeOK, Sessions, Calls, Replies
<1>b. /\ {"negotiate", "open", "probe", "reserve", "arm", "report", "status", "finish", "abort"} \subseteq Ops
      /\ {"none", "success", "failure"} \subseteq Results /\ 0 \in Nat
      /\ {"window", "negotiate", "open", "reserve", "select", "arm", "armStatus", "native", "wait",
          "report", "reportStatus", "satisfied", "preAbort", "finish", "finStatus", "finAbort",
          "ended", "abort", "closed"} \subseteq Places
      /\ {"LOCAL", "PERSISTENT", "CANCELLED", "FAILED"} \subseteq Terminals
  BY DEF Ops, Results, Places, Terminals
<1>1. CASE OpenFirst(q)
  BY <1>a, <1>b, <1>1, Writes DEF OpenFirst, Quiet, cacheVars
<1>2. CASE Negotiated(q)
  BY <1>a, <1>b, <1>2, Writes DEF Negotiated, Quiet, cacheVars
<1>3. CASE Opened(q)
  <2>0. [ses EXCEPT ![q].pc = "window", ![q].opened = TRUE] \in [Transfers -> Sessions]
    BY <1>b, Updates
  <2>1. ses' \in [Transfers -> Sessions]
    BY <1>a, <1>b, <1>3, <2>0, Writes DEF Opened, Quiet, cacheVars
  <2>2. rpc' \in [Transfers -> Calls]
    BY <1>a, <1>b, <1>3, Writes DEF Opened, Quiet, cacheVars
  <2>3. terminal' \in [Transfers -> Terminals] /\ UNCHANGED <<cache, hidden, win, tx>>
    BY <1>a, <1>b, <1>3 DEF Opened, Quiet, cacheVars
  <2> QED
    BY <2>1, <2>2, <2>3
<1>4. CASE ReserveWindow(q)
  BY <1>a, <1>b, <1>4, Writes DEF ReserveWindow, Quiet, cacheVars
<1>5. CASE Probed(q)
  BY <1>a, <1>b, <1>5, Writes DEF Probed, Quiet, cacheVars
<1>6. CASE Reserved(q)
  <2>0. [ses EXCEPT ![q].pc = "select", ![q].made = rpc[q].reply.made] \in [Transfers -> Sessions]
    BY <1>a, <1>b, Updates
  <2>1. ses' \in [Transfers -> Sessions]
    BY <1>a, <1>b, <1>6, <2>0, Writes DEF Reserved, ReplyOf, Quiet, cacheVars
  <2>2. rpc' \in [Transfers -> Calls]
    BY <1>a, <1>b, <1>6, Writes DEF Reserved, ReplyOf, Quiet, cacheVars
  <2>3. terminal' \in [Transfers -> Terminals] /\ UNCHANGED <<cache, hidden, win, tx>>
    BY <1>a, <1>b, <1>6 DEF Reserved, ReplyOf, Quiet, cacheVars
  <2> QED
    BY <2>1, <2>2, <2>3
<1>7. CASE WindowArmed(q)
  BY <1>a, <1>b, <1>7, Writes DEF WindowArmed, Quiet, cacheVars
<1>8. CASE ResolveAmbiguousArm(q)
  BY <1>a, <1>b, <1>8, Writes DEF ResolveAmbiguousArm, Quiet, cacheVars
<1>9. CASE NativeSubmit(q)
  <2>0. [ses EXCEPT ![q].pc = "report", ![q].rc = "failure"] \in [Transfers -> Sessions]
    BY <1>b, Updates
  <2>1. ses' \in [Transfers -> Sessions]
    BY <1>a, <1>b, <1>9, <2>0, Writes DEF NativeSubmit, cacheVars
  <2>2. rpc' \in [Transfers -> Calls]
    BY <1>a, <1>b, <1>9, Writes DEF NativeSubmit, cacheVars
  <2>3. terminal' \in [Transfers -> Terminals] /\ UNCHANGED <<cache, hidden, win, tx>>
    BY <1>a, <1>b, <1>9 DEF NativeSubmit, cacheVars
  <2> QED
    BY <2>1, <2>2, <2>3
<1>10. CASE \E outcome \in {"complete", "short", "terminal"} : NativeEnds(q, outcome)
  <2>1. PICK outcome \in {"complete", "short", "terminal"} : NativeEnds(q, outcome)
    BY <1>10
  <2>2. ReturnCode(outcome) \in Results
    BY <1>b DEF ReturnCode
  <2>3. ses' \in [Transfers -> Sessions]
    BY <1>b, <2>1, <2>2, Updates DEF NativeEnds
  <2> QED
    BY <1>a, <2>1, <2>3 DEF NativeEnds
<1>11. CASE NativeUnknown(q)
  BY <1>a, <1>b, <1>11, Writes DEF NativeUnknown, Quiet, cacheVars
<1>12. CASE NativeEndsLater(q)
  BY <1>a, <1>b, <1>12, Writes DEF NativeEndsLater, Quiet, cacheVars, sessionVars, netVars
<1>13. CASE Report(q)
  BY <1>a, <1>b, <1>13, Writes DEF Report, Quiet, cacheVars
<1>14. CASE Reported(q)
  BY <1>a, <1>b, <1>14, Writes DEF Reported, Quiet, cacheVars
<1>15. CASE ResolveAmbiguousReport(q)
  BY <1>a, <1>b, <1>15, Writes DEF ResolveAmbiguousReport, Quiet, cacheVars
<1>16. CASE \E persistent \in BOOLEAN : FinishBegin(q, persistent)
  <2>0. [ses EXCEPT ![q].pc = "ended"] \in [Transfers -> Sessions]
    BY <1>b, Updates
  <2>1. ses' \in [Transfers -> Sessions]
    BY <1>a, <1>b, <1>16, <2>0, Writes DEF FinishBegin, End, Quiet, cacheVars
  <2>2. rpc' \in [Transfers -> Calls]
    BY <1>a, <1>b, <1>16, Writes DEF FinishBegin, End, Quiet, cacheVars
  <2>3. terminal' \in [Transfers -> Terminals] /\ UNCHANGED <<cache, hidden, win, tx>>
    BY <1>a, <1>b, <1>16 DEF FinishBegin, End, Quiet, cacheVars
  <2> QED
    BY <2>1, <2>2, <2>3
<1>17. CASE PreAborted(q)
  <2>0. [ses EXCEPT ![q].pc = "ended", ![q].fatal = SaysFatal(q)] \in [Transfers -> Sessions]
    BY <1>b, Updates DEF SaysFatal
  <2>1. ses' \in [Transfers -> Sessions]
    BY <1>a, <1>b, <1>17, <2>0, Writes DEF PreAborted, SaysFatal, Quiet, cacheVars
  <2>2. rpc' \in [Transfers -> Calls]
    BY <1>a, <1>b, <1>17, Writes DEF PreAborted, SaysFatal, Quiet, cacheVars
  <2>3. terminal' \in [Transfers -> Terminals] /\ UNCHANGED <<cache, hidden, win, tx>>
    BY <1>a, <1>b, <1>17 DEF PreAborted, SaysFatal, Quiet, cacheVars
  <2> QED
    BY <2>1, <2>2, <2>3
<1>18. CASE Finished(q)
  <2>0. [ses EXCEPT ![q].pc = "ended"] \in [Transfers -> Sessions]
    BY <1>b, Updates
  <2>1. ses' \in [Transfers -> Sessions]
    BY <1>a, <1>b, <1>18, <2>0, Writes DEF Finished, End, Classify, Quiet, cacheVars
  <2>2. rpc' \in [Transfers -> Calls]
    BY <1>a, <1>b, <1>18, Writes DEF Finished, End, Classify, Quiet, cacheVars
  <2>3. terminal' \in [Transfers -> Terminals] /\ UNCHANGED <<cache, hidden, win, tx>>
    BY <1>a, <1>b, <1>18 DEF Finished, End, Classify, Quiet, cacheVars
  <2> QED
    BY <2>1, <2>2, <2>3
<1>19. CASE ResolveAmbiguousFinish(q)
  <2>0. [ses EXCEPT ![q].pc = "ended"] \in [Transfers -> Sessions]
    BY <1>b, Updates
  <2>1. ses' \in [Transfers -> Sessions]
    BY <1>a, <1>b, <1>19, <2>0, Writes DEF ResolveAmbiguousFinish, End, Classify, Quiet, cacheVars
  <2>2. rpc' \in [Transfers -> Calls]
    BY <1>a, <1>b, <1>19, Writes DEF ResolveAmbiguousFinish, End, Classify, Quiet, cacheVars
  <2>3. terminal' \in [Transfers -> Terminals] /\ UNCHANGED <<cache, hidden, win, tx>>
    BY <1>a, <1>b, <1>19 DEF ResolveAmbiguousFinish, End, Classify, Quiet, cacheVars
  <2> QED
    BY <2>1, <2>2, <2>3
<1>20. CASE FinishAborted(q)
  <2>0. [ses EXCEPT ![q].pc = "ended"] \in [Transfers -> Sessions]
    BY <1>b, Updates
  <2>1. ses' \in [Transfers -> Sessions]
    BY <1>a, <1>b, <1>20, <2>0, Writes DEF FinishAborted, SaysFatal, End, Quiet, cacheVars
  <2>2. rpc' \in [Transfers -> Calls]
    BY <1>a, <1>b, <1>20, Writes DEF FinishAborted, SaysFatal, End, Quiet, cacheVars
  <2>3. terminal' \in [Transfers -> Terminals] /\ UNCHANGED <<cache, hidden, win, tx>>
    BY <1>a, <1>b, <1>20 DEF FinishAborted, SaysFatal, End, Quiet, cacheVars
  <2> QED
    BY <2>1, <2>2, <2>3
<1>21. CASE AbortBegin(q)
  BY <1>a, <1>b, <1>21, Writes DEF AbortBegin, Quiet, cacheVars
<1>22. CASE Aborted(q)
  BY <1>a, <1>b, <1>22, Writes DEF Aborted, Quiet, cacheVars
<1>23. CASE Selected(q)
  BY <1>a, <1>b, <1>23, Writes DEF Selected, Quiet, cacheVars
<1> QED
  BY <1>1, <1>2, <1>3, <1>4, <1>5, <1>6, <1>7, <1>8, <1>9, <1>10, <1>11, <1>12, <1>13, <1>14, <1>15, <1>16, <1>17, <1>18, <1>19, <1>20, <1>21, <1>22, <1>23 DEF SessionStep

\* What a page that is hidden is, and what the windows' states are.
PagesTyped(S) == \A p \in S : /\ p = <<p[1], p[2], p[3]>> /\ p[1] \in Transfers
                              /\ p[2] \in Windows(p[1]) /\ p[3] \in Keys
WindowsTyped(f) == DOMAIN f = Transfers /\ \A q \in Transfers : f[q] \in [Windows(q) -> WindowStates]

\* An answer leaves the request as it was sent.
SameCall(q) == /\ \A r \in Transfers \ {q} : rpc'[r] = rpc[r]
               /\ rpc'[q].op = rpc[q].op /\ rpc'[q].w = rpc[q].w /\ rpc'[q].arg = rpc[q].arg

\* A window of the transfer is written with a state of windows, or nothing is.
LEMMA WindowWrite ==
  ASSUME TypeOK, NEW q \in Transfers, NEW w, NEW s \in WindowStates
  PROVE  WindowsTyped(win) /\ WindowsTyped([win EXCEPT ![q][w] = s])
  BY DEF TypeOK, WindowsTyped

\* An answer keeps the call it answers and its type.
LEMMA Answers ==
  ASSUME TypeOK, NEW q \in Transfers, NEW reply \in Replies,
         Answer(q, reply) \/ rpc' = [rpc EXCEPT ![q].st = "served", ![q].reply = reply]
  PROVE  rpc' \in [Transfers -> Calls] /\ SameCall(q)
<1>1. rpc \in [Transfers -> Calls] /\ rpc[q] \in Calls
  BY DEF TypeOK
<1>2. PICK answer \in Replies : rpc' = [rpc EXCEPT ![q].st = "served", ![q].reply = answer]
  <2>1. [reply EXCEPT !.code = "fatal"] \in Replies
    BY DEF Replies
  <2> QED
    BY <2>1 DEF Answer
<1>3. [rpc[q] EXCEPT !.st = "served", !.reply = answer] \in Calls
  BY <1>1 DEF Calls
<1>4. rpc' = [rpc EXCEPT ![q] = [rpc[q] EXCEPT !.st = "served", !.reply = answer]]
  BY <1>1, <1>2
<1>5. rpc' \in [Transfers -> Calls]
  BY <1>1, <1>3, <1>4
<1>6. /\ \A r \in Transfers \ {q} : rpc'[r] = rpc[r]
      /\ rpc'[q] = [rpc[q] EXCEPT !.st = "served", !.reply = answer]
  BY <1>1, <1>4
<1>7. rpc'[q].op = rpc[q].op /\ rpc'[q].w = rpc[q].w /\ rpc'[q].arg = rpc[q].arg
  BY <1>1, <1>6 DEF Calls
<1> QED
  BY <1>5, <1>6, <1>7 DEF SameCall

\* The window a request is about is the session's.
LEMMA CallWindow ==
  ASSUME TypeOK, NEW q \in Transfers, CallMatches(q)
  PROVE  /\ rpc[q].op \in {"probe", "reserve", "arm", "report"} =>
              rpc[q].w = ses[q].w /\ ses[q].w \in Windows(q)
         /\ rpc[q].op = "status" => rpc[q].w = 0 \/ (rpc[q].w = ses[q].w /\ ses[q].w \in Windows(q))
         /\ rpc[q].op \in {"probe", "reserve"} => ses[q].pc = "reserve"
         /\ rpc[q].op = "arm" => ses[q].pc = "arm"
         /\ rpc[q].op = "report" => ses[q].pc = "report" /\ rpc[q].arg = ses[q].rc
         /\ rpc[q].op = "status" => ses[q].pc \in {"armStatus", "reportStatus", "finStatus"}
         /\ rpc[q].op = "finish" => ses[q].pc = "finish"
         /\ rpc[q].op \in {"negotiate", "open"} => ses[q].pc = rpc[q].op
<1>1. ses[q].pc \in Places
  BY DEF TypeOK, Sessions
<1> QED
  BY <1>1 DEF CallMatches, Places, JobPlaces

\* Every answer of the service keeps the types.
LEMMA HandleTypes ==
  ASSUME TypeOK, NEW q \in Transfers, CallMatches(q), Handle(q)
  PROVE  /\ cache' \in [Keys -> {"absent", "full", "partial"}] /\ PagesTyped(hidden')
         /\ WindowsTyped(win') /\ tx' \in [Transfers -> TxStates]
         /\ rpc' \in [Transfers -> Calls] /\ SameCall(q)
<1> DEFINE Typed == /\ cache' \in [Keys -> {"absent", "full", "partial"}] /\ PagesTyped(hidden')
                    /\ WindowsTyped(win') /\ tx' \in [Transfers -> TxStates]
                    /\ rpc' \in [Transfers -> Calls] /\ SameCall(q)
           w == rpc[q].w
<1>1. /\ cache \in [Keys -> {"absent", "full", "partial"}] /\ PagesTyped(hidden)
      /\ WindowsTyped(win) /\ tx \in [Transfers -> TxStates] /\ rpc \in [Transfers -> Calls]
  BY DEF TypeOK, PagesTyped, WindowsTyped
<1>2. \A S \in SUBSET hidden : PagesTyped(S)
  BY <1>1 DEF PagesTyped
<1>3. /\ {"none", "reserved", "armed", "success", "failure"} \subseteq WindowStates
      /\ {"none", "open", "local", "persistent", "cancelled", "unsafe"} \subseteq TxStates
      /\ tx[q] \in TxStates
      /\ w \in Windows(q) => win[q][w] \in WindowStates
  BY <1>1 DEF WindowStates, Results, TxStates, WindowsTyped
<1>4. \A code \in {"none", "ok", "reject", "fatal"}, hole \in BOOLEAN, made \in SUBSET Keys,
         seen \in WindowStates \cup TxStates : Reply(code, hole, made, seen) \in Replies
  BY DEF Reply, Replies
<1>5. {} \subseteq Keys
  OBVIOUS
<1>6. CASE rpc[q].op \in {"negotiate", "open"} /\ ServeOpen(q)
  <2>1. /\ Reply("ok", FALSE, {}, "open") \in Replies
        /\ Reply("reject", FALSE, {}, "none") \in Replies
    BY <1>3, <1>4
  <2>2. rpc' \in [Transfers -> Calls] /\ SameCall(q)
    BY <1>6, <2>1, Answers DEF ServeOpen
  <2> QED
    BY <1>1, <1>3, <1>6, <2>2 DEF ServeOpen, cacheVars
<1>7. CASE rpc[q].op = "probe" /\ ServeProbe(q)
  <2>1. /\ Reply("ok", Missing(q, w) # {}, {}, "reserved") \in Replies
        /\ Reply("reject", FALSE, {}, "none") \in Replies
    BY <1>3, <1>4
  <2>2. rpc' \in [Transfers -> Calls] /\ SameCall(q)
    BY <1>7, <2>1, Answers DEF ServeProbe
  <2>3. WindowsTyped(win')
    <3>1. WindowsTyped([win EXCEPT ![q][w] = "reserved"])
      BY <1>3, WindowWrite
    <3> QED
      BY <1>1, <1>7, <3>1 DEF ServeProbe
  <2> QED
    BY <1>1, <1>7, <2>2, <2>3 DEF ServeProbe, cacheVars
<1>8. CASE rpc[q].op = "reserve" /\ ServeReserve(q)
  <2>1. w \in Windows(q) /\ PagesOf[q][w] \subseteq Keys
    BY <1>8, CallWindow, Numbering
  <2>2. Reply("reject", FALSE, {}, "none") \in Replies
    BY <1>3, <1>4
  <2>3. ASSUME NEW missing \in SUBSET PagesOf[q][w], Allocate(q, w, missing)
        PROVE  PagesTyped(hidden') /\ WindowsTyped(win') /\ rpc' \in [Transfers -> Calls] /\ SameCall(q)
    <3>1. Reply("ok", FALSE, missing, "reserved") \in Replies
      BY <1>3, <1>4, <2>1
    <3>2. rpc' \in [Transfers -> Calls] /\ SameCall(q)
      BY <2>3, <3>1, Answers DEF Allocate
    <3>3. WindowsTyped(win')
      BY <1>3, <2>3, WindowWrite DEF Allocate
    <3>4. PagesTyped(hidden')
      BY <1>1, <2>1, <2>3 DEF Allocate, PagesTyped
    <3> QED
      BY <3>2, <3>3, <3>4
  <2>4. CASE tx[q] = "open" /\ win[q][w] = "none" /\ Cardinality(Missing(q, w)) <= Room
             /\ Allocate(q, w, Missing(q, w)) /\ UNCHANGED <<cache, tx>>
    <3>1. Missing(q, w) \subseteq PagesOf[q][w]
      BY DEF Missing
    <3> QED
      BY <1>1, <2>3, <2>4, <3>1
  <2>5. CASE tx' = tx /\ \E evicted \in SUBSET Cached :
               LET missing == {k \in PagesOf[q][w] : Reclaim(evicted)[k] = "absent"}
               IN  /\ cache' = Reclaim(evicted)
                   /\ IF Cardinality(missing) <= Room + Cardinality(evicted)
                      THEN Allocate(q, w, missing)
                      ELSE /\ win' = [win EXCEPT ![q][w] = "reserved"]
                           /\ rpc' = [rpc EXCEPT ![q].st = "served",
                                                 ![q].reply = Reply("ok", TRUE, {}, "reserved")]
                           /\ UNCHANGED hidden
    <3>1. PICK evicted \in SUBSET Cached :
            LET missing == {k \in PagesOf[q][w] : Reclaim(evicted)[k] = "absent"}
            IN  /\ cache' = Reclaim(evicted)
                /\ IF Cardinality(missing) <= Room + Cardinality(evicted)
                   THEN Allocate(q, w, missing)
                   ELSE /\ win' = [win EXCEPT ![q][w] = "reserved"]
                        /\ rpc' = [rpc EXCEPT ![q].st = "served",
                                              ![q].reply = Reply("ok", TRUE, {}, "reserved")]
                        /\ UNCHANGED hidden
      BY <2>5
    <3>2. cache' \in [Keys -> {"absent", "full", "partial"}]
      BY <1>1, <3>1 DEF Reclaim
    <3>3. CASE Allocate(q, w, {k \in PagesOf[q][w] : Reclaim(evicted)[k] = "absent"})
      BY <1>1, <2>3, <2>5, <3>2, <3>3
    <3>4. CASE /\ win' = [win EXCEPT ![q][w] = "reserved"]
               /\ rpc' = [rpc EXCEPT ![q].st = "served", ![q].reply = Reply("ok", TRUE, {}, "reserved")]
               /\ UNCHANGED hidden
      <4>1. Reply("ok", TRUE, {}, "reserved") \in Replies
        BY <1>3, <1>4
      <4>2. rpc' \in [Transfers -> Calls] /\ SameCall(q)
        BY <3>4, <4>1, Answers
      <4> QED
        BY <1>1, <1>3, <2>5, <3>2, <3>4, <4>2, WindowWrite
    <3> QED
      BY <3>1, <3>3, <3>4
  <2>6. CASE tx' = tx /\ RejectReserve(q)
    <3>1. rpc' \in [Transfers -> Calls] /\ SameCall(q)
      BY <2>2, <2>6, Answers DEF RejectReserve
    <3> QED
      BY <1>1, <2>6, <3>1 DEF RejectReserve
  <2>7. CASE Answer(q, Reply("reject", FALSE, {}, "none")) /\ UNCHANGED <<cache, hidden, win, tx>>
    <3>1. rpc' \in [Transfers -> Calls] /\ SameCall(q)
      BY <2>2, <2>7, Answers
    <3> QED
      BY <1>1, <2>7, <3>1
  <2> QED
    BY <1>8, <2>4, <2>5, <2>6, <2>7 DEF ServeReserve, PreparePages
<1>9. CASE rpc[q].op = "arm" /\ ServeArm(q)
  <2>1. /\ Reply("ok", FALSE, {}, "armed") \in Replies
        /\ Reply("reject", FALSE, {}, "armed") \in Replies
    BY <1>3, <1>4
  <2>2. rpc' \in [Transfers -> Calls] /\ SameCall(q)
    BY <1>9, <2>1, Answers DEF ServeArm
  <2>3. WindowsTyped(win')
    BY <1>3, <1>9, WindowWrite DEF ServeArm
  <2> QED
    BY <1>1, <1>9, <2>2, <2>3 DEF ServeArm, cacheVars
<1>10. CASE rpc[q].op = "report" /\ ServeReport(q)
  <2>1. w \in Windows(q) /\ win[q][w] \in WindowStates
    BY <1>3, <1>10, CallWindow
  <2>2. /\ Reply("reject", FALSE, {}, win[q][w]) \in Replies
        /\ Reply("ok", FALSE, {}, "success") \in Replies
        /\ Reply("ok", FALSE, {}, "failure") \in Replies
    BY <1>3, <1>4, <2>1
  <2>3. rpc' \in [Transfers -> Calls] /\ SameCall(q)
    BY <1>10, <2>2, Answers DEF ServeReport
  <2>4. WindowsTyped(win')
    <3>1. WindowsTyped([win EXCEPT ![q][w] = "success"]) /\ WindowsTyped([win EXCEPT ![q][w] = "failure"])
      BY <1>3, WindowWrite
    <3> QED
      BY <1>1, <1>10, <3>1 DEF ServeReport
  <2>5. PagesTyped(hidden')
    BY <1>2, <1>10 DEF ServeReport
  <2> QED
    BY <1>1, <1>10, <2>3, <2>4, <2>5 DEF ServeReport
<1>11. CASE rpc[q].op = "status" /\ ServeStatus(q)
  <2>1. w = 0 \/ (w \in Windows(q) /\ win[q][w] \in WindowStates)
    BY <1>3, <1>11, CallWindow
  <2>2. Reply("ok", FALSE, {}, IF w # 0 THEN win[q][w] ELSE IF Armed(q) # {} THEN "armed" ELSE tx[q]) \in Replies
    BY <1>3, <1>4, <2>1
  <2>3. rpc' \in [Transfers -> Calls] /\ SameCall(q)
    BY <1>11, <2>2, Answers DEF ServeStatus
  <2> QED
    BY <1>1, <1>11, <2>3 DEF ServeStatus, cacheVars
<1>12. CASE rpc[q].op = "finish" /\ ServeFinish(q)
  <2>1. tx' \in [Transfers -> TxStates]
    BY <1>1, <1>3, <1>12 DEF ServeFinish
  <2>2. \A code \in {"fatal", "ok"} : Reply(code, FALSE, {}, tx'[q]) \in Replies
    BY <1>4, <2>1
  <2>3. rpc' \in [Transfers -> Calls] /\ SameCall(q)
    BY <1>12, <2>2, Answers DEF ServeFinish
  <2>4. cache' \in [Keys -> {"absent", "full", "partial"}]
    BY <1>1, <1>12 DEF ServeFinish, CommitPages
  <2>5. PagesTyped(hidden')
    BY <1>2, <1>12 DEF ServeFinish, CommitPages, ReleasePages
  <2> QED
    BY <1>1, <1>12, <2>1, <2>3, <2>4, <2>5 DEF ServeFinish
<1>13. CASE rpc[q].op = "abort" /\ ServeAbort(q)
  <2>1. Reply("ok", FALSE, {}, "cancelled") \in Replies
    BY <1>3, <1>4
  <2>2. rpc' \in [Transfers -> Calls] /\ SameCall(q)
    BY <1>13, <2>1, Answers DEF ServeAbort
  <2> QED
    BY <1>1, <1>2, <1>3, <1>13, <2>2 DEF ServeAbort, ReleasePages
<1> QED
  BY <1>6, <1>7, <1>8, <1>9, <1>10, <1>11, <1>12, <1>13 DEF Handle

\* So do the other steps of the decoder and the loss of a reply.
LEMMA DecoderTypes ==
  ASSUME TypeOK, NEW q \in Transfers,
         \/ Lose(q) \/ Maintain(q) \/ ShutdownService \/ StopHost
         \/ \E w \in Windows(q) : ServeLate(q, w)
         \/ \E k \in Keys : Evict(k)
  PROVE  /\ cache' \in [Keys -> {"absent", "full", "partial"}] /\ PagesTyped(hidden')
         /\ WindowsTyped(win') /\ tx' \in [Transfers -> TxStates]
         /\ rpc' \in [Transfers -> Calls] /\ SameCall(q)
<1>1. /\ cache \in [Keys -> {"absent", "full", "partial"}] /\ PagesTyped(hidden)
      /\ WindowsTyped(win) /\ tx \in [Transfers -> TxStates] /\ rpc \in [Transfers -> Calls]
  BY DEF TypeOK, PagesTyped, WindowsTyped
<1>2. \A S \in SUBSET hidden : PagesTyped(S)
  BY <1>1 DEF PagesTyped
<1>3. /\ {"none", "reserved", "armed", "success", "failure"} \subseteq WindowStates
      /\ {"none", "open", "local", "persistent", "cancelled", "unsafe"} \subseteq TxStates
  BY DEF WindowStates, Results, TxStates
<1>4. CASE Lose(q)
  <2>1. /\ rpc' \in [Transfers -> Calls]
        /\ \A r \in Transfers \ {q} : rpc'[r] = rpc[r]
        /\ rpc'[q].op = rpc[q].op /\ rpc'[q].w = rpc[q].w /\ rpc'[q].arg = rpc[q].arg
    BY <1>1, <1>4 DEF Lose, Calls
  <2> QED
    BY <1>1, <1>4, <2>1 DEF Lose, cacheVars, SameCall
<1>5. CASE Maintain(q)
  BY <1>1, <1>2, <1>3, <1>5 DEF Maintain, ReleasePages, SameCall
<1>6. CASE ShutdownService
  <2>1. tx' \in [Transfers -> TxStates]
    BY <1>1, <1>3, <1>6 DEF ShutdownService
  <2> QED
    BY <1>1, <1>2, <1>6, <2>1 DEF ShutdownService, ReleaseAtShutdown, netVars, SameCall
<1>7. CASE StopHost
  BY <1>1, <1>7 DEF StopHost, cacheVars, SameCall
<1>8. CASE \E w \in Windows(q) : ServeLate(q, w)
  <2>1. PICK w \in Windows(q) : ServeLate(q, w)
    BY <1>8
  <2>2. WindowsTyped(win')
    <3>1. WindowsTyped([win EXCEPT ![q][w] = "reserved"]) /\ WindowsTyped([win EXCEPT ![q][w] = "armed"])
      BY <1>3, WindowWrite
    <3> QED
      BY <1>1, <2>1, <3>1 DEF ServeLate
  <2>3. \A k \in Missing(q, w) : k \in Keys
    BY Numbering DEF Missing
  <2>4. PagesTyped(hidden')
    BY <1>1, <2>1, <2>3 DEF ServeLate, PagesTyped
  <2> QED
    BY <1>1, <2>1, <2>2, <2>4 DEF ServeLate, SameCall
<1>9. CASE \E k \in Keys : Evict(k)
  BY <1>1, <1>9 DEF Evict, SameCall
<1> QED
  BY <1>4, <1>5, <1>6, <1>7, <1>8, <1>9

\* What a job of a request may write: the record of the request, the job's state.
LEMMA Ledger ==
  ASSUME TypeOK, NEW q \in Transfers
  PROVE  /\ req \in [Transfers -> Requests] /\ req[q] \in Requests
         /\ req[q].windows \in Int /\ req[q].bytes \in Int /\ req[q].extra \in Nat
         /\ req[q].futures \in Seq(Nat) /\ req[q].next \in Nat \ {0} /\ req[q].phase \in Phases
         /\ \A b \in DOMAIN Batches[q] : job[q][b] \in JobStates
         /\ ses[q] \in Sessions /\ ses[q].made \subseteq Keys /\ ses[q].pc \in Places
  BY DEF TypeOK, Requests, Sessions

JobsTyped(f) == DOMAIN f = Transfers /\ \A q \in Transfers : f[q] \in [DOMAIN Batches[q] -> JobStates]

\* A job that changes its state keeps the jobs typed.
LEMMA JobWrite ==
  ASSUME TypeOK, NEW q \in Transfers, NEW b, NEW s \in JobStates
  PROVE  JobsTyped(job) /\ JobsTyped([job EXCEPT ![q][b] = s])
  BY DEF TypeOK, JobsTyped

\* The store thread's steps.
LEMMA CallerTypes ==
  ASSUME TypeOK, NEW q \in Transfers,
         \/ Prepare(q) \/ SubmitProbe(q) \/ SubmitBatch(q) \/ RejectSourceBatch(q)
         \/ CallerStep(q) \/ FinishRequest(q) \/ Release(q) \/ Abandon(q) \/ Close(q)
  PROVE  /\ req' \in [Transfers -> Requests] /\ JobsTyped(job') /\ pool' \in Seq(Jobs) /\ total' \in Int
         /\ ses' \in [Transfers -> Sessions] /\ terminal' \in [Transfers -> Terminals]
         /\ UNCHANGED <<cache, hidden, written, writing, win, tx, rpc>>
<1>1. /\ req \in [Transfers -> Requests] /\ JobsTyped(job) /\ pool \in Seq(Jobs) /\ total \in Int
      /\ ses \in [Transfers -> Sessions] /\ terminal \in [Transfers -> Terminals]
  BY DEF TypeOK, JobsTyped
<1>2. /\ {"absent", "new", "submit", "wait", "finish", "finished", "abandoned", "abort",
          "closing", "raised", "released"} \subseteq Phases
      /\ "finishing" \in Places /\ "aborting" \in Places /\ "PERSISTENT" \in Terminals
      /\ {"none", "queued", "running", "done", "fatal"} \subseteq JobStates
  BY DEF Phases, Places, Terminals, JobStates
<1>3. ASSUME NEW phase \in Phases
      PROVE  /\ Phase(q, phase) => req' \in [Transfers -> Requests]
             /\ [req EXCEPT ![q].phase = phase, ![q].disabled = TRUE] \in [Transfers -> Requests]
             /\ \A futures \in Seq(Nat) :
                  [req EXCEPT ![q].phase = phase, ![q].futures = futures] \in [Transfers -> Requests]
  <2>1. Phase(q, phase) => req' \in [Transfers -> Requests]
    BY <1>1, ZenonT(60) DEF Requests, Phase
  <2>2. [req EXCEPT ![q].phase = phase, ![q].disabled = TRUE] \in [Transfers -> Requests]
    BY <1>1 DEF Requests
  <2>3. ASSUME NEW futures \in Seq(Nat)
        PROVE  [req EXCEPT ![q].phase = phase, ![q].futures = futures] \in [Transfers -> Requests]
    BY <1>1 DEF Requests
  <2> QED
    BY <2>1, <2>2, <2>3
<1>4. ASSUME NEW futures \in Seq(Nat)
      PROVE  [req EXCEPT ![q].futures = futures] \in [Transfers -> Requests]
  BY <1>1 DEF Requests
<1>5. req[q].futures # <<>> => Tail(req[q].futures) \in Seq(Nat)
  <2>1. req[q].futures \in Seq(Nat)
    BY Ledger
  <2> QED
    BY <2>1, HeadTailProperties
<1>6. [req EXCEPT ![q].next = @ + 1, ![q].disabled = TRUE] \in [Transfers -> Requests]
  <2>1. req[q] \in Requests /\ req[q].next + 1 \in Nat \ {0}
    BY Ledger
  <2>a. [req[q] EXCEPT !.next = req[q].next + 1, !.disabled = TRUE] \in Requests
    BY <2>1 DEF Requests
  <2>b. [req EXCEPT ![q].next = @ + 1, ![q].disabled = TRUE] = [req EXCEPT ![q] = [req[q] EXCEPT !.next = req[q].next + 1, !.disabled = TRUE]]
    BY <1>1
  <2> QED
    BY <1>1, <2>a, <2>b
<1>7. ASSUME NEW bytes \in Nat, CanSubmit(q), Enqueue(q, bytes)
      PROVE  /\ req' \in [Transfers -> Requests] /\ JobsTyped(job') /\ pool' \in Seq(Jobs) /\ total' \in Int
             /\ UNCHANGED <<ses, terminal, cache, hidden, written, writing, win, tx, rpc>>
  <2>1. req[q].next \in DOMAIN Batches[q]
    <3>1. Len(Batches[q]) \in Nat /\ DOMAIN Batches[q] = 1 .. Len(Batches[q])
      BY CoordinatorAssumption, LenProperties, Numbering
    <3> QED
      BY <1>7, <3>1, Ledger DEF CanSubmit
  <2>2. NextBatch(q) \in Jobs
    BY <2>1 DEF NextBatch, Jobs
  <2>3. UNCHANGED <<ses, terminal, cache, hidden, written, writing, win, tx, rpc>>
    BY <1>7 DEF Enqueue, Elsewhere, Apart, cacheVars
  <2>4. CASE Fits(q, 1, bytes)
    <3>1. req' = [req EXCEPT ![q].next = @ + 1, ![q].futures = Append(@, req[q].next),
                             ![q].windows = @ + 1, ![q].bytes = @ + bytes]
          /\ total' = total + bytes /\ job' = [job EXCEPT ![q][req[q].next] = "queued"]
          /\ pool' = Append(pool, NextBatch(q))
      BY <1>7, <2>4 DEF Enqueue
    <3>2. Append(req[q].futures, req[q].next) \in Seq(Nat)
      BY Ledger, AppendProperties
    <3>3. req' \in [Transfers -> Requests]
      <4>1. /\ req[q] \in Requests /\ req[q].next + 1 \in Nat \ {0}
            /\ req[q].windows + 1 \in Int /\ req[q].bytes + bytes \in Int
        BY Ledger
      <4>a. [req[q] EXCEPT !.next = req[q].next + 1, !.futures = Append(req[q].futures, req[q].next), !.windows = req[q].windows + 1, !.bytes = req[q].bytes + bytes] \in Requests
        BY <3>2, <4>1 DEF Requests
      <4>b. req' = [req EXCEPT ![q] = [req[q] EXCEPT !.next = req[q].next + 1, !.futures = Append(req[q].futures, req[q].next), !.windows = req[q].windows + 1, !.bytes = req[q].bytes + bytes]]
        BY <1>1, <3>1
      <4> QED
        BY <1>1, <4>a, <4>b
    <3>4. JobsTyped(job')
      BY <1>2, <3>1, JobWrite
    <3>5. pool' \in Seq(Jobs)
      BY <1>1, <2>2, <3>1, AppendProperties
    <3> QED
      BY <1>1, <2>3, <3>1, <3>3, <3>4, <3>5
  <2>5. CASE ~Fits(q, 1, bytes)
    BY <1>1, <1>6, <1>7, <2>3, <2>5 DEF Enqueue
  <2> QED
    BY <2>4, <2>5
<1>8. CASE Prepare(q)
  <2>1. /\ Phase(q, "submit") => req' \in [Transfers -> Requests]
        /\ [req EXCEPT ![q].phase = "submit", ![q].disabled = TRUE] \in [Transfers -> Requests]
    BY <1>2, <1>3
  <2> QED
    BY <1>1, <1>8, <2>1 DEF Prepare, Apart, cacheVars
<1>9. CASE SubmitProbe(q)
  BY <1>1, <1>7, <1>9 DEF SubmitProbe
<1>10. CASE SubmitBatch(q)
  <2>1. req[q].next \in DOMAIN Batches[q]
    <3>1. Len(Batches[q]) \in Nat /\ DOMAIN Batches[q] = 1 .. Len(Batches[q])
      BY CoordinatorAssumption, LenProperties, Numbering
    <3> QED
      BY <1>10, <3>1, Ledger DEF SubmitBatch, CanSubmit
  <2>2. JobBytes(NextBatch(q)) \in Nat
    BY <2>1, FinitePages DEF NextBatch
  <2> QED
    BY <1>1, <1>7, <1>10, <2>2 DEF SubmitBatch
<1>11. CASE RejectSourceBatch(q)
  BY <1>1, <1>6, <1>11 DEF RejectSourceBatch, Apart, cacheVars
<1>12. CASE Wait(q)
  <2>1. /\ [req EXCEPT ![q].phase = "raised", ![q].futures = Tail(req[q].futures)] \in [Transfers -> Requests]
        /\ [req EXCEPT ![q].futures = Tail(req[q].futures)] \in [Transfers -> Requests]
    BY <1>2, <1>3, <1>4, <1>5, <1>12 DEF Wait
  <2>2. req' \in [Transfers -> Requests]
    BY <1>1, <1>12, <2>1 DEF Wait
  <2> QED
    BY <1>1, <1>12, <2>2 DEF Wait, Elsewhere, Apart, cacheVars
<1>13. CASE FinishRequest(q)
  BY <1>1, <1>2, <1>3, <1>13 DEF FinishRequest, Elsewhere, Apart, cacheVars
<1>14. CASE FinishSession(q)
  <2>1. [terminal EXCEPT ![q] = "PERSISTENT"] \in [Transfers -> Terminals]
    BY <1>1, <1>2
  <2>2. Goto(q, "finishing") => ses' \in [Transfers -> Sessions]
    BY <1>2, Writes
  <2>3. /\ Phase(q, "finished") => req' \in [Transfers -> Requests]
        /\ Phase(q, "finish") => req' \in [Transfers -> Requests]
    BY <1>2, <1>3
  <2> QED
    BY <1>1, <1>14, <2>1, <2>2, <2>3 DEF FinishSession, decoderVars, netVars, cacheVars
<1>15. CASE FinishReturns(q)
  <2>1. /\ Phase(q, "finished") => req' \in [Transfers -> Requests]
        /\ Phase(q, "raised") => req' \in [Transfers -> Requests]
    BY <1>2, <1>3
  <2> QED
    BY <1>1, <1>15, <2>1 DEF FinishReturns, Elsewhere, Apart, cacheVars
<1>16. CASE Release(q)
  <2>1. /\ Phase(q, "released") => req' \in [Transfers -> Requests]
        /\ Phase(q, "abort") => req' \in [Transfers -> Requests]
        /\ Goto(q, "aborting") => ses' \in [Transfers -> Sessions]
    BY <1>2, <1>3, Writes
  <2> QED
    BY <1>1, <1>16, <2>1 DEF Release, Elsewhere, Apart, cacheVars
<1>17. CASE ReleaseReturns(q)
  <2>1. /\ Phase(q, "released") => req' \in [Transfers -> Requests]
        /\ Phase(q, "raised") => req' \in [Transfers -> Requests]
    BY <1>2, <1>3
  <2> QED
    BY <1>1, <1>17, <2>1 DEF ReleaseReturns, Elsewhere, Apart, cacheVars
<1>18. CASE Abandon(q)
  BY <1>1, <1>2, <1>3, <1>18 DEF Abandon, Elsewhere, Apart, cacheVars
<1>19. CASE Close(q)
  BY <1>1, <1>2, <1>3, <1>19 DEF Close, Elsewhere, Apart, cacheVars
<1>20. CASE CloseWait(q)
  <2>1. /\ Phase(q, "released") => req' \in [Transfers -> Requests]
        /\ Phase(q, "raised") => req' \in [Transfers -> Requests]
    BY <1>2, <1>3
  <2>2. req[q].futures # <<>> => [req EXCEPT ![q].futures = Tail(req[q].futures)] \in [Transfers -> Requests]
    BY <1>4, <1>5
  <2>3. req' \in [Transfers -> Requests]
    BY <1>1, <1>20, <2>1, <2>2 DEF CloseWait
  <2> QED
    BY <1>1, <1>20, <2>3 DEF CloseWait, Apart, cacheVars
<1> QED
  BY <1>8, <1>9, <1>10, <1>11, <1>12, <1>13, <1>14, <1>15, <1>16, <1>17, <1>18, <1>19, <1>20 DEF CallerStep

\* The workers' steps.
LEMMA JobTypes ==
  ASSUME TypeOK, NEW q \in Transfers,
         \/ SelectSources(q)
         \/ \E b \in DOMAIN Batches[q] : \/ BeginJob(q, b) \/ SessionFails(q, b) \/ InheritFatal(q, b)
                                         \/ WindowSatisfied(q, b) \/ WindowFailed(q, b) \/ JobRaised(q, b)
  PROVE  /\ req' \in [Transfers -> Requests] /\ JobsTyped(job') /\ pool' \in Seq(Jobs) /\ total' \in Int
         /\ ses' \in [Transfers -> Sessions] /\ terminal' \in [Transfers -> Terminals]
         /\ rpc' \in [Transfers -> Calls] /\ UNCHANGED <<cache, hidden, win, tx>>
<1>1. /\ req \in [Transfers -> Requests] /\ JobsTyped(job) /\ pool \in Seq(Jobs) /\ total \in Int
      /\ ses \in [Transfers -> Sessions] /\ terminal \in [Transfers -> Terminals]
      /\ rpc \in [Transfers -> Calls]
  BY DEF TypeOK, JobsTyped
<1>2. /\ {"none", "queued", "running", "done", "fatal"} \subseteq JobStates
      /\ {"window", "idle"} \subseteq Places
  BY DEF JobStates, Places
<1>3. req[q].windows \in Int /\ req[q].bytes \in Int /\ req[q].extra \in Nat
  BY Ledger
<1>4. CASE SelectSources(q)
  <2>1. Cardinality(ses[q].made) \in Nat
    BY Ledger, FinitePages
  <2>2. CASE Selected(q) /\ UNCHANGED coordVars
    BY <1>1, <2>2, SessionTypes DEF coordVars
  <2>3. CASE /\ Selected(q)
             /\ req' = [req EXCEPT ![q].extra = Cardinality(ses[q].made),
                                   ![q].bytes = @ + Cardinality(ses[q].made)]
             /\ total' = total + Cardinality(ses[q].made) /\ UNCHANGED <<job, pool>>
    <3>1. req' \in [Transfers -> Requests]
      <4>1. req[q] \in Requests /\ req[q].bytes + Cardinality(ses[q].made) \in Int
        BY <2>1, Ledger
      <4>a. [req[q] EXCEPT !.extra = Cardinality(ses[q].made), !.bytes = req[q].bytes + Cardinality(ses[q].made)] \in Requests
        BY <2>1, <4>1 DEF Requests
      <4>b. req' = [req EXCEPT ![q] = [req[q] EXCEPT !.extra = Cardinality(ses[q].made), !.bytes = req[q].bytes + Cardinality(ses[q].made)]]
        BY <1>1, <2>3
      <4> QED
        BY <1>1, <4>a, <4>b
    <3> QED
      BY <1>1, <2>1, <2>3, <3>1, SessionTypes
  <2>4. CASE Abandoned(q) /\ Elsewhere /\ UNCHANGED coordVars
    <3>1. ses' \in [Transfers -> Sessions]
      BY <2>4, Writes
    <3> QED
      BY <1>1, <2>4, <3>1 DEF coordVars, Elsewhere, Apart, cacheVars
  <2> QED
    BY <1>4, <2>2, <2>3, <2>4 DEF SelectSources
<1>5. ASSUME NEW b \in DOMAIN Batches[q],
             \/ BeginJob(q, b) \/ SessionFails(q, b) \/ InheritFatal(q, b)
             \/ WindowSatisfied(q, b) \/ WindowFailed(q, b) \/ JobRaised(q, b)
      PROVE  /\ req' \in [Transfers -> Requests] /\ JobsTyped(job') /\ pool' \in Seq(Jobs)
             /\ total' \in Int /\ ses' \in [Transfers -> Sessions] /\ terminal' \in [Transfers -> Terminals]
             /\ rpc' \in [Transfers -> Calls] /\ UNCHANGED <<cache, hidden, win, tx>>
  <2>1. /\ Batch(<<q, b>>).from \in Nat /\ Batch(<<q, b>>).kind \in {"probe", "prefix", "push"}
        /\ JobBytes(<<q, b>>) \in Nat
    BY Numbering, FinitePages DEF Batch
  <2>2. /\ JobsTyped([job EXCEPT ![q][b] = "done"]) /\ JobsTyped([job EXCEPT ![q][b] = "fatal"])
    BY <1>2, JobWrite
  <2>3. ReleaseCapacity(q, b) => req' \in [Transfers -> Requests] /\ total' \in Int
    <3>1. [req EXCEPT ![q].windows = @ - 1, ![q].bytes = @ - JobBytes(<<q, b>>)] \in [Transfers -> Requests]
      <4>1. req[q] \in Requests /\ req[q].windows - 1 \in Int /\ req[q].bytes - JobBytes(<<q, b>>) \in Int
        BY <1>3, <2>1, Ledger
      <4>a. [req[q] EXCEPT !.windows = req[q].windows - 1, !.bytes = req[q].bytes - JobBytes(<<q, b>>)] \in Requests
        BY <4>1 DEF Requests
      <4>b. [req EXCEPT ![q].windows = @ - 1, ![q].bytes = @ - JobBytes(<<q, b>>)] = [req EXCEPT ![q] = [req[q] EXCEPT !.windows = req[q].windows - 1, !.bytes = req[q].bytes - JobBytes(<<q, b>>)]]
        BY <1>1
      <4> QED
        BY <1>1, <4>a, <4>b
    <3> QED
      BY <1>1, <2>1, <3>1 DEF ReleaseCapacity
  <2>4. [req EXCEPT ![q].extra = 0, ![q].windows = @ - 1,
                    ![q].bytes = @ - req[q].extra - JobBytes(<<q, b>>)] \in [Transfers -> Requests]
    <3>1. /\ req[q] \in Requests /\ req[q].windows - 1 \in Int
          /\ req[q].bytes - req[q].extra - JobBytes(<<q, b>>) \in Int
      BY <1>3, <2>1, Ledger
    <3>a. [req[q] EXCEPT !.extra = 0, !.windows = req[q].windows - 1, !.bytes = req[q].bytes - req[q].extra - JobBytes(<<q, b>>)] \in Requests
      BY <3>1 DEF Requests
    <3>b. [req EXCEPT ![q].extra = 0, ![q].windows = @ - 1, ![q].bytes = @ - req[q].extra - JobBytes(<<q, b>>)] = [req EXCEPT ![q] = [req[q] EXCEPT !.extra = 0, !.windows = req[q].windows - 1, !.bytes = req[q].bytes - req[q].extra - JobBytes(<<q, b>>)]]
      BY <1>1
    <3> QED
      BY <1>1, <3>a, <3>b
  <2>5. CASE BeginJob(q, b)
    <3>1. [ses EXCEPT ![q].pc = "window", ![q].w = Batch(<<q, b>>).from,
                      ![q].probe = (Batch(<<q, b>>).kind = "probe")] \in [Transfers -> Sessions]
      <4>a. [ses[q] EXCEPT !.pc = "window", !.w = Batch(<<q, b>>).from, !.probe = (Batch(<<q, b>>).kind = "probe")] \in Sessions
        BY <1>1, <1>2, <2>1, ZenonT(60) DEF Sessions
      <4>b. [ses EXCEPT ![q].pc = "window", ![q].w = Batch(<<q, b>>).from, ![q].probe = (Batch(<<q, b>>).kind = "probe")] = [ses EXCEPT ![q] = [ses[q] EXCEPT !.pc = "window", !.w = Batch(<<q, b>>).from, !.probe = (Batch(<<q, b>>).kind = "probe")]]
        BY <1>1
      <4> QED
        BY <1>1, <4>a, <4>b
    <3> QED
      BY <1>1, <2>2, <2>3, <2>5, <3>1 DEF BeginJob, Elsewhere, Apart, cacheVars
  <2>6. CASE SessionFails(q, b)
    <3>1. [req EXCEPT ![q].windows = @ - 1, ![q].bytes = @ - JobBytes(<<q, b>>),
                      ![q].disabled = TRUE] \in [Transfers -> Requests]
      <4>1. req[q] \in Requests /\ req[q].windows - 1 \in Int /\ req[q].bytes - JobBytes(<<q, b>>) \in Int
        BY <1>3, <2>1, Ledger
      <4>a. [req[q] EXCEPT !.windows = req[q].windows - 1, !.bytes = req[q].bytes - JobBytes(<<q, b>>), !.disabled = TRUE] \in Requests
        BY <4>1 DEF Requests
      <4>b. [req EXCEPT ![q].windows = @ - 1, ![q].bytes = @ - JobBytes(<<q, b>>), ![q].disabled = TRUE] = [req EXCEPT ![q] = [req[q] EXCEPT !.windows = req[q].windows - 1, !.bytes = req[q].bytes - JobBytes(<<q, b>>), !.disabled = TRUE]]
        BY <1>1
      <4> QED
        BY <1>1, <4>a, <4>b
    <3>2. total - JobBytes(<<q, b>>) \in Int
      BY <1>1, <2>1
    <3> QED
      BY <1>1, <2>2, <2>6, <3>1, <3>2 DEF SessionFails, Apart, cacheVars
  <2>7. CASE InheritFatal(q, b)
    BY <1>1, <2>2, <2>3, <2>7 DEF InheritFatal, Elsewhere, Apart, cacheVars
  <2>8. CASE WindowSatisfied(q, b)
    <3>1. [ses EXCEPT ![q].pc = "window", ![q].w = @ + 1, ![q].made = {}] \in [Transfers -> Sessions]
      <4>1. ses[q] \in Sessions /\ ses[q].w + 1 \in Nat
        BY Ledger DEF Sessions
      <4>a. [ses[q] EXCEPT !.pc = "window", !.w = ses[q].w + 1, !.made = {}] \in Sessions
        BY <1>2, <4>1 DEF Sessions
      <4>b. [ses EXCEPT ![q].pc = "window", ![q].w = @ + 1, ![q].made = {}] = [ses EXCEPT ![q] = [ses[q] EXCEPT !.pc = "window", !.w = ses[q].w + 1, !.made = {}]]
        BY <1>1
      <4> QED
        BY <1>1, <4>a, <4>b
    <3>2. [ses EXCEPT ![q].pc = "idle", ![q].made = {}] \in [Transfers -> Sessions]
      BY <1>1, <1>2, ZenonT(60) DEF Sessions
    <3>3. [req EXCEPT ![q].extra = 0, ![q].bytes = @ - req[q].extra] \in [Transfers -> Requests]
      <4>1. req[q] \in Requests /\ req[q].bytes - req[q].extra \in Int
        BY <1>3, Ledger
      <4>a. [req[q] EXCEPT !.extra = 0, !.bytes = req[q].bytes - req[q].extra] \in Requests
        BY <4>1 DEF Requests
      <4>b. [req EXCEPT ![q].extra = 0, ![q].bytes = @ - req[q].extra] = [req EXCEPT ![q] = [req[q] EXCEPT !.extra = 0, !.bytes = req[q].bytes - req[q].extra]]
        BY <1>1
      <4> QED
        BY <1>1, <4>a, <4>b
    <3>4. total - req[q].extra \in Int /\ total - req[q].extra - JobBytes(<<q, b>>) \in Int
      BY <1>1, <1>3, <2>1
    <3> QED
      BY <1>1, <2>2, <2>4, <2>8, <3>1, <3>2, <3>3, <3>4 DEF WindowSatisfied, Elsewhere, Apart, cacheVars
  <2>9. CASE WindowFailed(q, b)
    <3>1. [ses EXCEPT ![q].pc = "idle", ![q].made = {}] \in [Transfers -> Sessions]
      BY <1>1, <1>2, ZenonT(60) DEF Sessions
    <3>2. [req EXCEPT ![q].disabled = TRUE, ![q].extra = 0, ![q].windows = @ - 1,
                      ![q].bytes = @ - req[q].extra - JobBytes(<<q, b>>)] \in [Transfers -> Requests]
      <4>1. /\ req[q] \in Requests /\ req[q].windows - 1 \in Int
            /\ req[q].bytes - req[q].extra - JobBytes(<<q, b>>) \in Int
        BY <1>3, <2>1, Ledger
      <4>a. [req[q] EXCEPT !.disabled = TRUE, !.extra = 0, !.windows = req[q].windows - 1, !.bytes = req[q].bytes - req[q].extra - JobBytes(<<q, b>>)] \in Requests
        BY <4>1 DEF Requests
      <4>b. [req EXCEPT ![q].disabled = TRUE, ![q].extra = 0, ![q].windows = @ - 1, ![q].bytes = @ - req[q].extra - JobBytes(<<q, b>>)] = [req EXCEPT ![q] = [req[q] EXCEPT !.disabled = TRUE, !.extra = 0, !.windows = req[q].windows - 1, !.bytes = req[q].bytes - req[q].extra - JobBytes(<<q, b>>)]]
        BY <1>1
      <4> QED
        BY <1>1, <4>a, <4>b
    <3>3. total - req[q].extra - JobBytes(<<q, b>>) \in Int
      BY <1>1, <1>3, <2>1
    <3> QED
      BY <1>1, <2>2, <2>9, <3>1, <3>2, <3>3 DEF WindowFailed, Elsewhere, Apart, cacheVars
  <2>10. CASE JobRaised(q, b)
    <3>1. total - req[q].extra - JobBytes(<<q, b>>) \in Int
      BY <1>1, <1>3, <2>1
    <3> QED
      BY <1>1, <2>2, <2>4, <2>10, <3>1 DEF JobRaised, Elsewhere, Apart, cacheVars
  <2> QED
    BY <1>5, <2>5, <2>6, <2>7, <2>8, <2>9, <2>10
<1> QED
  BY <1>4, <1>5

\* The executor takes a job of some transfer from the pool.
LEMMA StartTypes ==
  ASSUME TypeOK, StartJob
  PROVE  JobsTyped(job') /\ pool' \in Seq(Jobs) /\ NextJob \in Jobs
<1>1. pool \in Seq(Jobs) /\ pool # <<>>
  BY DEF TypeOK, StartJob
<1>2. Head(pool) \in Jobs /\ Tail(pool) \in Seq(Jobs)
  BY <1>1, HeadTailProperties
<1>3. PICK q \in Transfers : \E b \in DOMAIN Batches[q] : NextJob = <<q, b>>
  BY <1>2 DEF NextJob, Jobs
<1>a. PICK b \in DOMAIN Batches[q] : NextJob = <<q, b>>
  BY <1>3
<1>4. "running" \in JobStates
  BY DEF JobStates
<1>5. JobsTyped([job EXCEPT ![q][b] = "running"])
  BY <1>4, JobWrite
<1>6. job' = [job EXCEPT ![q][b] = "running"] /\ pool' = Tail(pool)
  BY <1>a DEF StartJob
<1> QED
  BY <1>2, <1>5, <1>6 DEF NextJob

\* The steps of the decoder and of the network, and those of the sessions.
ServiceStep ==
  \/ \E q \in Transfers : Lose(q) \/ Maintain(q)
  \/ \E q \in Transfers : \E w \in Windows(q) : ServeLate(q, w)
  \/ ShutdownService \/ StopHost
  \/ \E k \in Keys : Evict(k)

\* Next, by what its steps write.
LEMMA Steps ==
  ASSUME Next
  PROVE  \/ \E q \in Transfers : Serve(q) /\ UNCHANGED <<sessionVars, coordVars>>
         \/ ServiceStep /\ UNCHANGED <<sessionVars, coordVars>>
         \/ \E q \in Transfers : SessionStep(q) /\ UNCHANGED coordVars
         \/ \E q \in Transfers :
              \/ SelectSources(q)
              \/ \E b \in DOMAIN Batches[q] :
                   \/ BeginJob(q, b) \/ SessionFails(q, b) \/ InheritFatal(q, b)
                   \/ WindowSatisfied(q, b) \/ WindowFailed(q, b) \/ JobRaised(q, b)
         \/ \E q \in Transfers :
              \/ Prepare(q) \/ SubmitProbe(q) \/ SubmitBatch(q) \/ RejectSourceBatch(q)
              \/ CallerStep(q) \/ FinishRequest(q) \/ Release(q) \/ Abandon(q) \/ Close(q)
         \/ StartJob
  BY DEF Next, HostServe, GiveUp, JobStep, HostMaintain, Shutdown, ServiceStep

\* Types hold in every state, given that calls match their sessions.
LEMMA TypeStep ==
  ASSUME TypeOK, \A q \in Transfers : CallMatches(q), [Next]_vars
  PROVE  TypeOK'
<1> DEFINE Typed == /\ cache' \in [Keys -> {"absent", "full", "partial"}] /\ PagesTyped(hidden')
                    /\ WindowsTyped(win') /\ tx' \in [Transfers -> TxStates]
                    /\ rpc' \in [Transfers -> Calls]
                    /\ ses' \in [Transfers -> Sessions] /\ terminal' \in [Transfers -> Terminals]
                    /\ req' \in [Transfers -> Requests] /\ JobsTyped(job') /\ pool' \in Seq(Jobs)
                    /\ total' \in Int
<1>1. /\ cache \in [Keys -> {"absent", "full", "partial"}] /\ PagesTyped(hidden)
      /\ WindowsTyped(win) /\ tx \in [Transfers -> TxStates] /\ rpc \in [Transfers -> Calls]
      /\ ses \in [Transfers -> Sessions] /\ terminal \in [Transfers -> Terminals]
      /\ req \in [Transfers -> Requests] /\ JobsTyped(job) /\ pool \in Seq(Jobs) /\ total \in Int
  BY DEF TypeOK, PagesTyped, WindowsTyped, JobsTyped
<1>2. ASSUME UNCHANGED vars
      PROVE  Typed
  BY <1>1, <1>2 DEF vars, decoderVars, sessionVars, coordVars, cacheVars, netVars
<1>3. ASSUME NEW q \in Transfers, Serve(q), UNCHANGED <<sessionVars, coordVars>>
      PROVE  Typed
  <2>1. Handle(q)
    BY <1>3 DEF Serve
  <2> QED
    BY <1>1, <1>3, <2>1, HandleTypes DEF sessionVars, coordVars
<1>4. ASSUME ServiceStep, UNCHANGED <<sessionVars, coordVars>>
      PROVE  Typed
  <2>1. \/ \E q \in Transfers : \/ Lose(q) \/ Maintain(q) \/ ShutdownService \/ StopHost
                                \/ \E w \in Windows(q) : ServeLate(q, w)
                                \/ \E k \in Keys : Evict(k)
        \/ Transfers = {}
    BY <1>4 DEF ServiceStep
  <2>2. CASE Transfers = {}
    <3>1. PagesTyped(hidden') /\ rpc' = rpc /\ tx' \in [Transfers -> TxStates] /\ win' = win
      BY <1>1, <1>4, <2>2 DEF ServiceStep, ShutdownService, ReleaseAtShutdown, StopHost, Evict,
                              cacheVars, netVars, PagesTyped
    <3>2. cache' \in [Keys -> {"absent", "full", "partial"}]
      BY <1>1, <1>4, <2>2 DEF ServiceStep, ShutdownService, StopHost, Evict, cacheVars
    <3> QED
      BY <1>1, <1>4, <3>1, <3>2 DEF sessionVars, coordVars
  <2> QED
    BY <1>1, <1>4, <2>1, <2>2, DecoderTypes DEF sessionVars, coordVars
<1>5. ASSUME NEW q \in Transfers, SessionStep(q), UNCHANGED coordVars
      PROVE  Typed
  BY <1>1, <1>5, SessionTypes DEF coordVars
<1>6. ASSUME NEW q \in Transfers,
             \/ SelectSources(q)
             \/ \E b \in DOMAIN Batches[q] :
                  \/ BeginJob(q, b) \/ SessionFails(q, b) \/ InheritFatal(q, b)
                  \/ WindowSatisfied(q, b) \/ WindowFailed(q, b) \/ JobRaised(q, b)
      PROVE  Typed
  BY <1>1, <1>6, JobTypes
<1>7. ASSUME NEW q \in Transfers,
             \/ Prepare(q) \/ SubmitProbe(q) \/ SubmitBatch(q) \/ RejectSourceBatch(q)
             \/ CallerStep(q) \/ FinishRequest(q) \/ Release(q) \/ Abandon(q) \/ Close(q)
      PROVE  Typed
  BY <1>1, <1>7, CallerTypes
<1>8. ASSUME StartJob
      PROVE  Typed
  BY <1>1, <1>8, StartTypes DEF StartJob, decoderVars, sessionVars, cacheVars, netVars
<1>9. Typed
  <2> HIDE DEF Typed
  <2> QED
    BY <1>2, <1>3, <1>4, <1>5, <1>6, <1>7, <1>8, Steps
<1> QED
  BY <1>9 DEF TypeOK, PagesTyped, WindowsTyped, JobsTyped

-----------------------------------------------------------------------------
(* Who owns the session *)

Owned(q) == JobsAwaited(q) /\ SessionOwned(q)

\* How a session moves by itself: within the places of its owner, to its end, or
\* to the place where it raised.
SessionMove(q) ==
  LET pc == ses[q].pc
      next == ses'[q].pc
      fatal == ses'[q].fatal = ses[q].fatal
  IN  \/ next = pc /\ fatal
      \/ pc \in JobPlaces /\ next \in JobPlaces /\ fatal
      \/ pc \in JobPlaces \cup FinishPlaces \cup AbortPlaces /\ next = "raised" /\ ses'[q].fatal
      \/ pc \in FinishPlaces /\ next \in FinishPlaces /\ fatal
      \/ pc \in FinishPlaces /\ next = "ended"
      \/ pc \in AbortPlaces /\ next \in AbortPlaces \cup {"closed"} /\ fatal

\* Every step of a session is such a move.
LEMMA Moves ==
  ASSUME TypeOK, NEW q \in Transfers,
         SessionStep(q) \/ Selected(q) \/ (ses[q].pc = "select" /\ Abandoned(q))
  PROVE  SessionMove(q) /\ \A r \in Transfers \ {q} : ses'[r] = ses[r]
<1> USE DEF SessionMove, JobPlaces, FinishPlaces, AbortPlaces, Goto, Abandoned, PrearmUnknown, Fatal, End
<1>a. ses \in [Transfers -> Sessions]
  BY DEF TypeOK
<1>1. CASE OpenFirst(q)
  BY <1>a, <1>1 DEF Sessions, OpenFirst
<1>2. CASE Negotiated(q)
  BY <1>a, <1>2 DEF Sessions, Negotiated
<1>3. CASE Opened(q)
  BY <1>a, <1>3 DEF Sessions, Opened
<1>4. CASE ReserveWindow(q)
  BY <1>a, <1>4 DEF Sessions, ReserveWindow
<1>5. CASE Probed(q)
  BY <1>a, <1>5 DEF Sessions, Probed
<1>6. CASE Reserved(q)
  BY <1>a, <1>6 DEF Sessions, Reserved
<1>7. CASE WindowArmed(q)
  BY <1>a, <1>7 DEF Sessions, WindowArmed
<1>8. CASE ResolveAmbiguousArm(q)
  BY <1>a, <1>8 DEF Sessions, ResolveAmbiguousArm
<1>9. CASE NativeSubmit(q)
  BY <1>a, <1>9 DEF Sessions, NativeSubmit
<1>10. CASE \E outcome \in {"complete", "short", "terminal"} : NativeEnds(q, outcome)
  BY <1>a, <1>10 DEF Sessions, NativeEnds
<1>11. CASE NativeUnknown(q)
  BY <1>a, <1>11 DEF Sessions, NativeUnknown
<1>12. CASE NativeEndsLater(q)
  BY <1>a, <1>12 DEF Sessions, NativeEndsLater, sessionVars
<1>13. CASE Report(q)
  BY <1>a, <1>13 DEF Sessions, Report
<1>14. CASE Reported(q)
  BY <1>a, <1>14 DEF Sessions, Reported
<1>15. CASE ResolveAmbiguousReport(q)
  BY <1>a, <1>15 DEF Sessions, ResolveAmbiguousReport
<1>16. CASE \E persistent \in BOOLEAN : FinishBegin(q, persistent)
  BY <1>a, <1>16 DEF Sessions, FinishBegin
<1>17. CASE PreAborted(q)
  BY <1>a, <1>17 DEF Sessions, PreAborted
<1>18. CASE Finished(q)
  BY <1>a, <1>18 DEF Sessions, Finished
<1>19. CASE ResolveAmbiguousFinish(q)
  BY <1>a, <1>19 DEF Sessions, ResolveAmbiguousFinish
<1>20. CASE FinishAborted(q)
  BY <1>a, <1>20 DEF Sessions, FinishAborted
<1>21. CASE AbortBegin(q)
  BY <1>a, <1>21 DEF Sessions, AbortBegin
<1>22. CASE Aborted(q)
  BY <1>a, <1>22 DEF Sessions, Aborted
<1>23. CASE Selected(q)
  BY <1>a, <1>23 DEF Sessions, Selected
<1>24. CASE ses[q].pc = "select" /\ Abandoned(q)
  BY <1>a, <1>24 DEF Sessions
<1> QED
  BY <1>1, <1>2, <1>3, <1>4, <1>5, <1>6, <1>7, <1>8, <1>9, <1>10, <1>11, <1>12, <1>13, <1>14, <1>15, <1>16, <1>17, <1>18, <1>19, <1>20, <1>21, <1>22, <1>23, <1>24 DEF SessionStep

\* At most one job of a request has the turn.
LEMMA OneTurn ==
  ASSUME NEW q \in Transfers, NEW b \in DOMAIN Batches[q], NEW c \in DOMAIN Batches[q],
         job[q][b] = "running", job[q][c] = "running", PreviousDone(q, b), PreviousDone(q, c)
  PROVE  b = c
<1>1. b \in Nat /\ c \in Nat
  BY Numbering
<1>2. ~(b < c) /\ ~(c < b)
  BY DEF PreviousDone, PreviousOf
<1> QED
  BY <1>1, <1>2

\* A request whose futures are all collected has no job left.
LEMMA NothingAwaited ==
  ASSUME TypeOK, NEW q \in Transfers, Owned(q), req[q].futures = <<>>
  PROVE  /\ \A b \in DOMAIN Batches[q] : ~Awaited(q, b) /\ ~Working(q, b)
         /\ ses[q].pc \notin JobPlaces
<1>1. \A b \in DOMAIN Batches[q] : ~Awaited(q, b)
  BY DEF Awaited
<1>2. \A b \in DOMAIN Batches[q] : ~Working(q, b)
  BY <1>1 DEF Owned, JobsAwaited, Working
<1> QED
  BY <1>1, <1>2 DEF Owned, SessionOwned

\* Nothing of the transfer moves.
LEMMA OwnedKept ==
  ASSUME NEW q \in Transfers, Owned(q), ses'[q] = ses[q], req'[q] = req[q], job'[q] = job[q]
  PROVE  Owned(q)'
<1>1. \A b : Awaited(q, b)' <=> Awaited(q, b)
  BY DEF Awaited
<1>2. \A b : Working(q, b)' <=> Working(q, b)
  BY DEF Working, PreviousDone, PreviousRaised, PreviousOf
<1> QED
  BY <1>1, <1>2 DEF Owned, JobsAwaited, SessionOwned

\* Only the session moves.
LEMMA OwnedByMove ==
  ASSUME NEW q \in Transfers, Owned(q), SessionMove(q), req'[q] = req[q], job'[q] = job[q]
  PROVE  Owned(q)'
<1>1. \A b : Awaited(q, b)' <=> Awaited(q, b)
  BY DEF Awaited
<1>2. \A b : Working(q, b)' <=> Working(q, b)
  BY DEF Working, PreviousDone, PreviousRaised, PreviousOf
<1>3. JobsAwaited(q)'
  BY <1>1 DEF Owned, JobsAwaited
<1>4. \A b \in DOMAIN Batches[q] : Working(q, b) => Awaited(q, b)
  BY DEF Owned, JobsAwaited, Working
<1>5. /\ ses'[q].pc \in JobPlaces => \E b \in DOMAIN Batches[q] : Working(q, b)'
      /\ ses'[q].pc \in FinishPlaces => req'[q].phase = "finish"
      /\ ses'[q].pc \in AbortPlaces => req'[q].phase = "abort"
  BY <1>2 DEF Owned, SessionOwned, SessionMove, JobPlaces, FinishPlaces, AbortPlaces
<1>6. /\ ses'[q].pc \in {"ended", "closed"} =>
           req'[q].phase \in {"finish", "finished", "closing", "released", "raised", "abort"}
      /\ ses'[q].fatal => ses'[q].pc \in {"raised", "ended"}
  BY DEF Owned, SessionOwned, SessionMove, JobPlaces, FinishPlaces, AbortPlaces
<1>7. ses'[q].pc = "raised" =>
        /\ ses'[q].fatal
        /\ \/ req'[q].phase \in {"finish", "abort", "raised"}
           \/ \E b \in DOMAIN Batches[q] : Awaited(q, b)' /\ (job'[q][b] = "fatal" \/ Working(q, b)')
  <2>1. CASE ses[q].pc = "raised"
    BY <1>1, <1>2, <2>1 DEF Owned, SessionOwned, SessionMove, JobPlaces, FinishPlaces, AbortPlaces
  <2>2. CASE ses[q].pc \in JobPlaces
    BY <1>1, <1>2, <1>4, <2>2 DEF Owned, SessionOwned, SessionMove, JobPlaces, FinishPlaces, AbortPlaces
  <2>3. CASE ses[q].pc \in FinishPlaces \cup AbortPlaces
    BY <2>3 DEF Owned, SessionOwned, SessionMove, JobPlaces, FinishPlaces, AbortPlaces
  <2> QED
    BY <2>1, <2>2, <2>3 DEF SessionMove, JobPlaces, FinishPlaces, AbortPlaces
<1>8. /\ req'[q].phase \in {"finish", "finished", "abort", "released"} => req'[q].futures = <<>>
      /\ req'[q].phase = "released" => ses'[q].pc \in {"none", "idle", "ended", "closed"}
  <2>1. req[q].phase = "released" => ses[q].pc \in {"none", "idle", "ended", "closed"}
    BY DEF Owned, SessionOwned
  <2>2. ses[q].pc \in {"none", "idle", "ended", "closed"} => ses'[q].pc = ses[q].pc
    BY DEF SessionMove, JobPlaces, FinishPlaces, AbortPlaces
  <2> QED
    BY <2>1, <2>2 DEF Owned, SessionOwned
<1>9. SessionOwned(q)'
  BY <1>5, <1>6, <1>7, <1>8 DEF SessionOwned
<1> QED
  BY <1>3, <1>9 DEF Owned

\* The job with the turn, the only one that moves the session.
LEMMA TurnWorks ==
  ASSUME TypeOK, NEW q \in Transfers, NEW b \in DOMAIN Batches[q], Owned(q),
         job[q][b] = "running", PreviousDone(q, b)
  PROVE  /\ Awaited(q, b) /\ b < req[q].next
         /\ ses[q].pc \in JobPlaces => Working(q, b)
         /\ req[q].phase \notin {"finish", "finished", "abort", "released"}
         /\ ses[q].pc \notin FinishPlaces \cup AbortPlaces
<1>1. Awaited(q, b) /\ b < req[q].next
  BY DEF Owned, JobsAwaited
<1>2. ses[q].pc \in JobPlaces => Working(q, b)
  BY OneTurn DEF Owned, SessionOwned, Working
<1>3. req[q].futures # <<>>
  BY <1>1, NothingAwaited
<1> QED
  BY <1>1, <1>2, <1>3 DEF Owned, SessionOwned

\* The job with the turn ends, while the session rests, is idle again or has raised.
LEMMA OwnedByEnd ==
  ASSUME TypeOK, NEW q \in Transfers, NEW b \in DOMAIN Batches[q], Owned(q),
         job[q][b] = "running", PreviousDone(q, b), NEW s \in {"done", "fatal"},
         job' = [job EXCEPT ![q][b] = s],
         req'[q].phase = req[q].phase, req'[q].futures = req[q].futures, req'[q].next = req[q].next,
         ses'[q].pc \notin JobPlaces,
         ses'[q].fatal = ses[q].fatal,
         ses'[q].pc = ses[q].pc \/ (ses'[q].pc = "idle" /\ ses[q].pc \in JobPlaces),
         ses[q].pc = "raised" => s = "fatal"
  PROVE  Owned(q)'
<1>1. \A c : Awaited(q, c)' <=> Awaited(q, c)
  BY DEF Awaited
<1>2. \A c \in DOMAIN Batches[q] : job'[q][c] = IF c = b THEN s ELSE job[q][c]
  BY DEF TypeOK
<1>3. JobsAwaited(q)'
  BY <1>1, <1>2 DEF Owned, JobsAwaited
<1>4. /\ Awaited(q, b)
      /\ req[q].phase \notin {"finish", "finished", "abort", "released"}
      /\ ses[q].pc \notin FinishPlaces \cup AbortPlaces
  BY TurnWorks
<1>5. /\ ses'[q].pc \notin FinishPlaces \cup AbortPlaces
      /\ ses'[q].fatal => ses'[q].pc \in {"raised", "ended"}
      /\ ses'[q].pc \in {"ended", "closed", "raised"} => ses'[q].pc = ses[q].pc
  BY <1>4 DEF Owned, SessionOwned, FinishPlaces, AbortPlaces, JobPlaces
<1>6. ses'[q].pc = "raised" => ses'[q].fatal /\ Awaited(q, b)' /\ job'[q][b] = "fatal"
  BY <1>1, <1>2, <1>4, <1>5 DEF Owned, SessionOwned
<1>7. SessionOwned(q)'
  BY <1>4, <1>5, <1>6 DEF Owned, SessionOwned
<1> QED
  BY <1>3, <1>7 DEF Owned

\* The workers' steps keep the sessions owned.
LEMMA OwnedByJobs ==
  ASSUME TypeOK, NEW q \in Transfers, Owned(q),
         \/ SelectSources(q)
         \/ \E b \in DOMAIN Batches[q] : \/ BeginJob(q, b) \/ SessionFails(q, b) \/ InheritFatal(q, b)
                                         \/ WindowSatisfied(q, b) \/ WindowFailed(q, b) \/ JobRaised(q, b)
  PROVE  /\ Owned(q)'
         /\ \A r \in Transfers \ {q} : ses'[r] = ses[r] /\ req'[r] = req[r] /\ job'[r] = job[r]
<1> DEFINE Others == \A r \in Transfers \ {q} : ses'[r] = ses[r] /\ req'[r] = req[r] /\ job'[r] = job[r]
<1>1. /\ ses \in [Transfers -> Sessions] /\ req \in [Transfers -> Requests]
      /\ DOMAIN job = Transfers
      /\ \A r \in Transfers : job[r] \in [DOMAIN Batches[r] -> JobStates]
  BY DEF TypeOK
<1>2. CASE SelectSources(q)
  <2>1. SessionMove(q) /\ \A r \in Transfers \ {q} : ses'[r] = ses[r]
    BY <1>2, Moves DEF SelectSources
  <2>2. job' = job
    BY <1>2 DEF SelectSources, coordVars
  <2>3. CASE req' = req
    BY <2>1, <2>2, <2>3, OwnedByMove
  <2>4. CASE req' = [req EXCEPT ![q].extra = Cardinality(ses[q].made),
                                ![q].bytes = @ + Cardinality(ses[q].made)]
    <3>1. /\ req'[q].phase = req[q].phase /\ req'[q].futures = req[q].futures
          /\ req'[q].next = req[q].next
          /\ \A r \in Transfers \ {q} : req'[r] = req[r]
      BY <1>1, <2>4 DEF Requests
    <3>2. ses[q].pc = "select" /\ ses'[q].pc \in JobPlaces /\ ses'[q].fatal = ses[q].fatal
      BY <1>1, <1>2 DEF SelectSources, Selected, Goto, Abandoned, Sessions, JobPlaces
    <3>3. \A b : Awaited(q, b)' <=> Awaited(q, b)
      BY <3>1 DEF Awaited
    <3>4. \A b : Working(q, b)' <=> Working(q, b)
      BY <2>2 DEF Working, PreviousDone, PreviousRaised, PreviousOf
    <3>5. JobsAwaited(q)'
      BY <2>2, <3>1, <3>3 DEF Owned, JobsAwaited
    <3>6. SessionOwned(q)'
      BY <3>1, <3>2, <3>4 DEF Owned, SessionOwned, JobPlaces, FinishPlaces, AbortPlaces
    <3> QED
      BY <2>1, <2>2, <3>1, <3>5, <3>6 DEF Owned
  <2> QED
    BY <1>2, <2>3, <2>4 DEF SelectSources, coordVars
<1>3. ASSUME NEW b \in DOMAIN Batches[q],
             \/ BeginJob(q, b) \/ SessionFails(q, b) \/ InheritFatal(q, b)
             \/ WindowSatisfied(q, b) \/ WindowFailed(q, b) \/ JobRaised(q, b)
      PROVE  Owned(q)' /\ Others
  <2>1. job[q][b] = "running" /\ PreviousDone(q, b)
    BY <1>3 DEF BeginJob, SessionFails, InheritFatal, WindowSatisfied, WindowFailed, JobRaised
  <2>2. /\ req'[q].phase = req[q].phase /\ req'[q].futures = req[q].futures /\ req'[q].next = req[q].next
        /\ \A r \in Transfers \ {q} : req'[r] = req[r]
    <3>1. CASE BeginJob(q, b)
      BY <1>1, <3>1, ZenonT(60) DEF Requests, BeginJob, ReleaseCapacity
    <3>2. CASE SessionFails(q, b)
      BY <1>1, <3>2 DEF Requests, SessionFails
    <3>3. CASE InheritFatal(q, b)
      BY <1>1, <3>3 DEF Requests, InheritFatal, ReleaseCapacity
    <3>4. CASE WindowSatisfied(q, b)
      BY <1>1, <3>4 DEF Requests, WindowSatisfied
    <3>5. CASE WindowFailed(q, b)
      BY <1>1, <3>5, ZenonT(60) DEF Requests, WindowFailed
    <3>6. CASE JobRaised(q, b)
      <4>1. /\ req'[q] = [req[q] EXCEPT !.extra = 0, !.windows = req[q].windows - 1,
                              !.bytes = req[q].bytes - req[q].extra - JobBytes(<<q, b>>)]
            /\ \A r \in Transfers \ {q} : req'[r] = req[r]
        BY <1>1, <3>6 DEF JobRaised
      <4> QED
        BY <1>1, <4>1 DEF Requests
    <3> QED
      BY <1>3, <3>1, <3>2, <3>3, <3>4, <3>5, <3>6
  <2>3. \A r \in Transfers \ {q} : ses'[r] = ses[r] /\ job'[r] = job[r]
    BY <1>1, <1>3 DEF BeginJob, SessionFails, InheritFatal, WindowSatisfied, WindowFailed, JobRaised
  <2>4. /\ Awaited(q, b) /\ req[q].phase \notin {"finish", "finished", "abort", "released"}
        /\ ses[q].pc \in JobPlaces => Working(q, b)
        /\ ses[q].pc \notin FinishPlaces \cup AbortPlaces
    BY <2>1, TurnWorks
  <2>5. ASSUME job' = job, Working(q, b), ses'[q].pc \in JobPlaces, ses[q].pc \notin {"raised", "ended"},
               ses'[q].fatal = ses[q].fatal
        PROVE  Owned(q)'
    <3>1. \A c : Awaited(q, c)' <=> Awaited(q, c)
      BY <2>2 DEF Awaited
    <3>2. \A c : Working(q, c)' <=> Working(q, c)
      BY <2>5 DEF Working, PreviousDone, PreviousRaised, PreviousOf
    <3>3. JobsAwaited(q)'
      BY <2>2, <2>5, <3>1 DEF Owned, JobsAwaited
    <3>4. SessionOwned(q)'
      BY <2>2, <2>4, <2>5, <3>2 DEF Owned, SessionOwned, JobPlaces, FinishPlaces, AbortPlaces
    <3> QED
      BY <3>3, <3>4 DEF Owned
  <2>6. CASE BeginJob(q, b)
    <3>1. CASE ~PreviousRaised(q, b) /\ ses[q].viable /\ job' = job
               /\ ses' = [ses EXCEPT ![q].pc = "window", ![q].w = Batch(<<q, b>>).from,
                                     ![q].probe = (Batch(<<q, b>>).kind = "probe")]
      <4>1. ses'[q].pc = "window" /\ ses'[q].fatal = ses[q].fatal
        BY <1>1, <3>1 DEF Sessions
      <4>2. ses[q].pc \in {"none", "idle"}
        BY <2>6 DEF BeginJob
      <4> QED
        BY <2>1, <2>2, <2>3, <2>5, <3>1, <4>1, <4>2 DEF Working, JobPlaces
    <3>2. CASE job' = [job EXCEPT ![q][b] = "done"] /\ UNCHANGED ses
      <4>1. ses[q].pc \in {"none", "idle"}
        BY <2>6 DEF BeginJob
      <4>2. ses[q].pc \notin JobPlaces
        BY <4>1 DEF JobPlaces
      <4> QED
        BY <2>1, <2>2, <2>3, <3>2, <4>1, <4>2, OwnedByEnd
    <3> QED
      BY <2>6, <3>1, <3>2 DEF BeginJob
  <2>7. CASE SessionFails(q, b)
    <3>1. ses[q].pc = "none" /\ ses[q].pc \notin JobPlaces /\ ses' = ses
          /\ job' = [job EXCEPT ![q][b] = "done"]
      BY <2>7 DEF SessionFails, JobPlaces
    <3> QED
      BY <2>1, <2>2, <2>3, <3>1, OwnedByEnd
  <2>8. CASE InheritFatal(q, b)
    <3>1. PreviousRaised(q, b) /\ ses' = ses /\ job' = [job EXCEPT ![q][b] = "fatal"]
      BY <2>8 DEF InheritFatal
    <3>2. ses[q].pc \notin JobPlaces
      BY <2>4, <3>1 DEF Working
    <3> QED
      BY <2>1, <2>2, <2>3, <3>1, <3>2, OwnedByEnd
  <2>9. CASE WindowSatisfied(q, b)
    <3>1. ses[q].pc = "satisfied" /\ ses[q].pc \in JobPlaces /\ Working(q, b)
      BY <2>4, <2>9 DEF WindowSatisfied, JobPlaces
    <3>2. CASE job' = job /\ ses' = [ses EXCEPT ![q].pc = "window", ![q].w = @ + 1, ![q].made = {}]
      <4>1. ses'[q].pc = "window" /\ ses'[q].fatal = ses[q].fatal
        BY <1>1, <3>2 DEF Sessions
      <4> QED
        BY <2>2, <2>3, <2>5, <3>1, <3>2, <4>1 DEF JobPlaces
    <3>3. CASE job' = [job EXCEPT ![q][b] = "done"] /\ ses' = [ses EXCEPT ![q].pc = "idle", ![q].made = {}]
      <4>1. ses'[q].pc = "idle" /\ ses'[q].fatal = ses[q].fatal /\ ses'[q].pc \notin JobPlaces
        BY <1>1, <3>3 DEF Sessions, JobPlaces
      <4> QED
        BY <2>1, <2>2, <2>3, <3>1, <3>3, <4>1, OwnedByEnd
    <3> QED
      BY <2>9, <3>2, <3>3 DEF WindowSatisfied
  <2>10. CASE WindowFailed(q, b)
    <3>1. ses[q].pc = "failed" /\ ses[q].pc \in JobPlaces
          /\ job' = [job EXCEPT ![q][b] = "done"] /\ ses' = [ses EXCEPT ![q].pc = "idle", ![q].made = {}]
      BY <2>10 DEF WindowFailed, JobPlaces
    <3>2. ses'[q].pc = "idle" /\ ses'[q].fatal = ses[q].fatal /\ ses'[q].pc \notin JobPlaces
      BY <1>1, <3>1 DEF Sessions, JobPlaces
    <3> QED
      BY <2>1, <2>2, <2>3, <3>1, <3>2, OwnedByEnd
  <2>11. CASE JobRaised(q, b)
    <3>1. ses[q].pc = "raised" /\ ses[q].pc \notin JobPlaces /\ ses' = ses
          /\ job' = [job EXCEPT ![q][b] = "fatal"]
      BY <2>11 DEF JobRaised, JobPlaces
    <3> QED
      BY <2>1, <2>2, <2>3, <3>1, OwnedByEnd
  <2> QED
    BY <1>3, <2>6, <2>7, <2>8, <2>9, <2>10, <2>11
<1> QED
  BY <1>2, <1>3

\* The executor starts a queued job.
LEMMA OwnedByStart ==
  ASSUME TypeOK, NEW q \in Transfers, NEW b \in DOMAIN Batches[q], Owned(q), job[q][b] = "queued",
         job' = [job EXCEPT ![q][b] = "running"], ses' = ses, req' = req
  PROVE  Owned(q)'
<1>1. \A c : Awaited(q, c)' <=> Awaited(q, c)
  BY DEF Awaited
<1>2. \A c \in DOMAIN Batches[q] : job'[q][c] = IF c = b THEN "running" ELSE job[q][c]
  BY DEF TypeOK
<1>3. JobsAwaited(q)'
  BY <1>1, <1>2 DEF Owned, JobsAwaited
<1>4. ASSUME NEW c \in DOMAIN Batches[q], Working(q, c)
      PROVE  Working(q, c)'
  <2>1. c # b /\ b \notin PreviousOf(q, c)
    BY <1>4 DEF Working, PreviousDone
  <2>2. PreviousOf(q, c)' = PreviousOf(q, c)
    BY <1>2, <2>1 DEF PreviousOf
  <2>3. \A d \in PreviousOf(q, c) : d # b /\ job'[q][d] = job[q][d]
    BY <1>2, <2>1 DEF PreviousOf
  <2>4. PreviousDone(q, c)' /\ ~PreviousRaised(q, c)'
    BY <1>4, <2>2, <2>3 DEF PreviousDone, PreviousRaised, Working
  <2> QED
    BY <1>2, <1>4, <2>1, <2>4 DEF Working
<1>5. \A c \in DOMAIN Batches[q] : job[q][c] = "fatal" => job'[q][c] = "fatal"
  BY <1>2
<1>6. SessionOwned(q)'
  BY <1>1, <1>4, <1>5 DEF Owned, SessionOwned
<1> QED
  BY <1>3, <1>6 DEF Owned

\* The store thread moves the request on, and nothing else of the transfer but
\* futures it has collected.
LEMMA OwnedByPhase ==
  ASSUME NEW q \in Transfers, Owned(q), job'[q] = job[q], ses'[q] = ses[q],
         req'[q].next >= req[q].next, req[q].next \in Nat, req'[q].next \in Nat,
         \A b \in DOMAIN Batches[q] :
           Awaited(q, b) => Awaited(q, b)' \/ job[q][b] = "done"
                            \/ (job[q][b] = "fatal" /\ req'[q].phase = "raised"),
         /\ ses[q].pc \in FinishPlaces => req'[q].phase = "finish"
         /\ ses[q].pc \in AbortPlaces => req'[q].phase = "abort"
         /\ ses[q].pc \in {"ended", "closed"} =>
              req'[q].phase \in {"finish", "finished", "closing", "released", "raised", "abort"}
         /\ ses[q].pc = "raised" => req'[q].phase \in {"finish", "abort", "raised"}
                                    \/ req[q].phase \notin {"finish", "abort", "raised"}
         /\ req'[q].phase \in {"finish", "finished", "abort", "released"} => req'[q].futures = <<>>
         /\ req'[q].phase = "released" => ses[q].pc \in {"none", "idle", "ended", "closed"}
  PROVE  Owned(q)'
<1>1. \A b : Working(q, b)' <=> Working(q, b)
  BY DEF Working, PreviousDone, PreviousRaised, PreviousOf
<1>2. JobsAwaited(q)'
  <2>1. ASSUME NEW b \in DOMAIN Batches[q]
        PROVE  /\ job'[q][b] # "none" => b < req'[q].next
               /\ job'[q][b] \in {"queued", "running"} => Awaited(q, b)'
    <3>1. b \in Nat /\ (job[q][b] # "none" => b < req[q].next)
      BY Numbering DEF Owned, JobsAwaited
    <3>2. job[q][b] \in {"queued", "running"} => Awaited(q, b)
      BY DEF Owned, JobsAwaited
    <3> QED
      BY <3>1, <3>2
  <2> QED
    BY <2>1 DEF JobsAwaited
<1>3. ses[q].pc = "raised" =>
        \/ req'[q].phase \in {"finish", "abort", "raised"}
        \/ \E b \in DOMAIN Batches[q] : Awaited(q, b)' /\ (job'[q][b] = "fatal" \/ Working(q, b)')
  <2>1. SUFFICES ASSUME ses[q].pc = "raised", req'[q].phase \notin {"finish", "abort", "raised"}
                 PROVE  \E b \in DOMAIN Batches[q] : Awaited(q, b)' /\ (job'[q][b] = "fatal" \/ Working(q, b)')
    OBVIOUS
  <2>2. PICK b \in DOMAIN Batches[q] : Awaited(q, b) /\ (job[q][b] = "fatal" \/ Working(q, b))
    BY <2>1 DEF Owned, SessionOwned
  <2>3. job[q][b] # "done"
    BY <2>2 DEF Working
  <2> QED
    BY <1>1, <2>1, <2>2, <2>3
<1>4. SessionOwned(q)'
  BY <1>1, <1>3 DEF Owned, SessionOwned
<1> QED
  BY <1>2, <1>4 DEF Owned

\* Collecting the first future leaves the others awaited.
LEMMA TailAwaited ==
  ASSUME TypeOK, NEW q \in Transfers, req[q].futures # <<>>, req'[q].futures = Tail(req[q].futures)
  PROVE  \A b : Awaited(q, b) => Awaited(q, b)' \/ b = Head(req[q].futures)
<1>1. req[q].futures \in Seq(Nat)
  BY Ledger
<1> DEFINE F == req[q].futures
<1>2. SUFFICES ASSUME NEW b, Awaited(q, b), b # Head(F)
               PROVE  Awaited(q, b)'
  OBVIOUS
<1>a. PICK i \in 1 .. Len(F) : F[i] = b
  BY <1>2 DEF Awaited
<1>b. (\E j \in 1 .. Len(Tail(F)) : Tail(F)[j] = b) => Awaited(q, b)'
  BY DEF Awaited
<1>c. b # Head(F)
  BY <1>2
<1> HIDE DEF F
<1>3. F \in Seq(Nat) /\ F # <<>>
  BY <1>1 DEF F
<1>4. Len(Tail(F)) = Len(F) - 1 /\ Len(F) \in Nat /\ \A j \in 1 .. Len(F) - 1 : Tail(F)[j] = F[j + 1]
  BY <1>3, HeadTailProperties, LenProperties
<1>5. i - 1 \in 1 .. Len(F) - 1
  <2>1. i # 1
    BY <1>a, <1>c, <1>3
  <2> QED
    BY <1>a, <1>4, <2>1
<1>6. Tail(F)[i - 1] = b
  BY <1>a, <1>4, <1>5
<1> QED
  BY <1>b, <1>4, <1>5, <1>6

\* A submission adds its job, the last of the request.
LEMMA OwnedByEnqueue ==
  ASSUME TypeOK, NEW q \in Transfers, Owned(q), NEW bytes \in Nat, CanSubmit(q), Enqueue(q, bytes)
  PROVE  /\ Owned(q)'
         /\ \A r \in Transfers \ {q} : ses'[r] = ses[r] /\ req'[r] = req[r] /\ job'[r] = job[r]
<1>1. /\ req \in [Transfers -> Requests] /\ req[q] \in Requests /\ req[q].next \in Nat
      /\ DOMAIN job = Transfers /\ job[q] \in [DOMAIN Batches[q] -> JobStates]
      /\ req[q].futures \in Seq(Nat)
  BY Ledger DEF TypeOK
<1>2. ses' = ses /\ req[q].phase = "submit"
  BY DEF Enqueue, CanSubmit
<1>a. PICK n \in Nat : n = req[q].next
  BY <1>1
<1>3. CASE Fits(q, 1, bytes)
  <2>1. /\ req' = [req EXCEPT ![q].next = @ + 1, ![q].futures = Append(@, n),
                              ![q].windows = @ + 1, ![q].bytes = @ + bytes]
        /\ job' = [job EXCEPT ![q][n] = "queued"]
    BY <1>3, <1>a DEF Enqueue
  <2>2. req'[q] = [req[q] EXCEPT !.next = n + 1, !.futures = Append(req[q].futures, n),
                                 !.windows = req[q].windows + 1, !.bytes = req[q].bytes + bytes]
        /\ \A r \in Transfers \ {q} : req'[r] = req[r] /\ job'[r] = job[r]
    BY <1>1, <1>a, <2>1
  <2>3. req'[q].next = n + 1 /\ req'[q].futures = Append(req[q].futures, n) /\ req'[q].phase = "submit"
    BY <1>1, <1>2, <2>2 DEF Requests
  <2>4. \A b \in DOMAIN Batches[q] : job'[q][b] = IF b = n THEN "queued" ELSE job[q][b]
    BY <1>1, <2>1
  <2>5. (\A b : Awaited(q, b) => Awaited(q, b)') /\ Awaited(q, n)'
    <3> DEFINE F == req[q].futures
    <3>1. /\ Len(Append(F, n)) = Len(F) + 1 /\ Append(F, n)[Len(F) + 1] = n
          /\ \A i \in 1 .. Len(F) : Append(F, n)[i] = F[i]
      BY <1>1, AppendProperties
    <3>2. Len(F) \in Nat
      BY <1>1, LenProperties
    <3> HIDE DEF F
    <3>3. Len(F) + 1 \in 1 .. Len(F) + 1 /\ 1 .. Len(F) \subseteq 1 .. Len(F) + 1
      BY <3>2
    <3>4. Awaited(q, n)'
      <4>1. Len(F) + 1 \in 1 .. Len(Append(F, n)) /\ Append(F, n)[Len(F) + 1] = n
        BY <3>1, <3>3
      <4>2. req'[q].futures = Append(F, n)
        BY <2>3 DEF F
      <4> QED
        BY <4>1, <4>2 DEF Awaited
    <3>5. ASSUME NEW b, Awaited(q, b)
          PROVE  Awaited(q, b)'
      <4>1. PICK i \in 1 .. Len(F) : F[i] = b
        BY <3>5 DEF Awaited, F
      <4>2. i \in 1 .. Len(Append(F, n)) /\ Append(F, n)[i] = b
        BY <3>1, <3>3, <4>1
      <4> QED
        BY <2>3, <4>2 DEF Awaited, F
    <3> QED
      BY <3>4, <3>5
  <2>6. JobsAwaited(q)'
    <3>1. ASSUME NEW b \in DOMAIN Batches[q]
          PROVE  /\ job'[q][b] # "none" => b < n + 1
                 /\ job'[q][b] \in {"queued", "running"} => Awaited(q, b)'
      <4>1. b \in Nat /\ n \in Nat
        BY <1>1, Numbering
      <4>2. /\ job[q][b] # "none" => b < n
            /\ job[q][b] \in {"queued", "running"} => Awaited(q, b)
        BY <1>a DEF Owned, JobsAwaited
      <4> QED
        <5>1. CASE b = n
          <6>1. b < n + 1
            BY <4>1, <5>1
          <6>2. Awaited(q, b)'
            BY <2>5, <5>1 DEF Awaited
          <6> QED
            BY <6>1, <6>2
        <5>2. CASE b # n
          <6>1. job'[q][b] = job[q][b] /\ (b < n => b < n + 1)
            BY <2>4, <4>1, <5>2
          <6> QED
            BY <2>5, <4>2, <6>1
        <5> QED
          BY <5>1, <5>2
    <3> QED
      BY <2>3, <3>1 DEF JobsAwaited
  <2>7. ASSUME NEW b \in DOMAIN Batches[q], Working(q, b)
        PROVE  Working(q, b)'
    <3>1. b \in Nat /\ n \in Nat /\ b < n
      BY <1>1, <1>a, <2>7, Numbering DEF Owned, JobsAwaited, Working
    <3>2. \A c \in DOMAIN Batches[q] : c <= b => job'[q][c] = job[q][c]
      BY <2>4, <3>1, Numbering
    <3>3. PreviousOf(q, b)' = PreviousOf(q, b) /\ \A c \in PreviousOf(q, b) : job'[q][c] = job[q][c]
      <4>1. \A c \in DOMAIN Batches[q] : c < b => job'[q][c] = job[q][c]
        <5>1. \A c \in DOMAIN Batches[q] : c \in Nat
          BY Numbering
        <5> QED
          BY <3>1, <3>2, <5>1
      <4> QED
        BY <4>1 DEF PreviousOf
    <3>4. PreviousDone(q, b)' /\ ~PreviousRaised(q, b)'
      BY <2>7, <3>3 DEF PreviousDone, PreviousRaised, Working
    <3> QED
      BY <2>7, <3>1, <3>2, <3>4 DEF Working
  <2>8. \A b \in DOMAIN Batches[q] : job[q][b] = "fatal" => job'[q][b] = "fatal"
    <3>1. \A b \in DOMAIN Batches[q] : job[q][b] = "fatal" => b < n /\ b \in Nat /\ n \in Nat
      BY <1>1, <1>a, Numbering DEF Owned, JobsAwaited
    <3> QED
      BY <2>4, <3>1
  <2>9. SessionOwned(q)'
    BY <1>2, <2>3, <2>5, <2>7, <2>8 DEF Owned, SessionOwned
  <2> QED
    BY <1>2, <2>2, <2>6, <2>9 DEF Owned
<1>4. CASE ~Fits(q, 1, bytes)
  <2>1. req' = [req EXCEPT ![q].next = @ + 1, ![q].disabled = TRUE] /\ job' = job
    BY <1>4 DEF Enqueue
  <2>2. /\ req'[q].next = n + 1 /\ req'[q].futures = req[q].futures /\ req'[q].phase = "submit"
        /\ \A r \in Transfers \ {q} : req'[r] = req[r]
    BY <1>1, <1>2, <1>a, <2>1 DEF Requests
  <2>3. \A b : Awaited(q, b)' <=> Awaited(q, b)
    BY <2>2 DEF Awaited
  <2>4. /\ req'[q].next >= req[q].next /\ req'[q].next \in Nat
    BY <1>1, <1>a, <2>2
  <2>5. Owned(q)'
    BY <1>1, <1>2, <2>1, <2>2, <2>3, <2>4, OwnedByPhase DEF Owned, SessionOwned
  <2> QED
    BY <1>2, <2>1, <2>2, <2>5
<1> QED
  BY <1>3, <1>4

\* The store thread's steps keep the sessions owned.
LEMMA OwnedByCaller ==
  ASSUME TypeOK, NEW q \in Transfers, Owned(q),
         \/ Prepare(q) \/ SubmitProbe(q) \/ SubmitBatch(q) \/ RejectSourceBatch(q)
         \/ CallerStep(q) \/ FinishRequest(q) \/ Release(q) \/ Abandon(q) \/ Close(q)
  PROVE  /\ Owned(q)'
         /\ \A r \in Transfers \ {q} : ses'[r] = ses[r] /\ req'[r] = req[r] /\ job'[r] = job[r]
<1>1. /\ ses \in [Transfers -> Sessions] /\ req \in [Transfers -> Requests]
      /\ req[q].next \in Nat /\ req[q].futures \in Seq(Nat) /\ req[q].next + 1 \in Nat
      /\ req[q].next >= req[q].next /\ req[q].next + 1 >= req[q].next
  BY Ledger DEF TypeOK
<1>2. ses[q].pc \in Places
  BY Ledger
<1>3. CASE SubmitProbe(q)
  BY <1>3, OwnedByEnqueue DEF SubmitProbe
<1>4. CASE SubmitBatch(q)
  <2>1. JobBytes(NextBatch(q)) \in Nat
    <3>1. Len(Batches[q]) \in Nat /\ DOMAIN Batches[q] = 1 .. Len(Batches[q])
      BY CoordinatorAssumption, LenProperties, Numbering
    <3>2. req[q].next \in DOMAIN Batches[q]
      BY <1>4, <3>1, Ledger DEF SubmitBatch, CanSubmit
    <3> QED
      BY <3>2, FinitePages DEF NextBatch
  <2> QED
    BY <1>4, <2>1, OwnedByEnqueue DEF SubmitBatch
<1>5. ASSUME \/ Prepare(q) \/ RejectSourceBatch(q) \/ FinishRequest(q) \/ FinishReturns(q)
             \/ ReleaseReturns(q) \/ Abandon(q) \/ Close(q)
      PROVE  /\ Owned(q)'
             /\ \A r \in Transfers \ {q} : ses'[r] = ses[r] /\ req'[r] = req[r] /\ job'[r] = job[r]
  <2>1. ses' = ses /\ job' = job
    BY <1>5 DEF Prepare, RejectSourceBatch, FinishRequest, FinishReturns, ReleaseReturns, Abandon, Close
  <2>2. /\ req'[q].futures = req[q].futures /\ \A r \in Transfers \ {q} : req'[r] = req[r]
        /\ req'[q].next >= req[q].next /\ req'[q].next \in Nat
    <3>1. CASE Prepare(q) \/ Abandon(q) \/ Close(q)
      BY <1>1, <3>1 DEF Prepare, Abandon, Close, Phase, Requests
    <3>2. CASE RejectSourceBatch(q)
      BY <1>1, <3>2 DEF RejectSourceBatch, Requests
    <3>3. CASE FinishRequest(q) \/ FinishReturns(q) \/ ReleaseReturns(q)
      BY <1>1, <3>3, ZenonT(60) DEF FinishRequest, FinishReturns, ReleaseReturns, Phase, Requests
    <3> QED
      BY <1>5, <3>1, <3>2, <3>3
  <2>3. \A b : Awaited(q, b)' <=> Awaited(q, b)
    BY <2>2 DEF Awaited
  <2>4. \/ req[q].phase = "new" /\ req'[q].phase = "submit"
        \/ req[q].phase = "submit" /\ req'[q].phase \in {"submit", "wait", "abandoned", "closing"}
        \/ req[q].phase = "finished" /\ req'[q].phase = "closing"
        \/ req[q].phase = "finish" /\ req'[q].phase = "finished" /\ ses[q].pc = "ended"
        \/ req[q].phase = "finish" /\ req'[q].phase = "raised" /\ ses[q].pc = "raised"
        \/ req[q].phase = "abort" /\ req'[q].phase = "released" /\ ses[q].pc = "closed"
        \/ req[q].phase = "abort" /\ req'[q].phase = "raised" /\ ses[q].pc = "raised"
    <3>1. CASE Prepare(q) \/ Abandon(q) \/ Close(q)
      BY <1>1, <3>1 DEF Prepare, Abandon, Close, Phase, Requests
    <3>2. CASE RejectSourceBatch(q)
      BY <1>1, <3>2 DEF RejectSourceBatch, CanSubmit, Requests
    <3>3. CASE FinishRequest(q)
      BY <1>1, <3>3 DEF FinishRequest, Phase, Requests
    <3>4. CASE FinishReturns(q)
      BY <1>1, <3>4 DEF FinishReturns, Phase, Requests
    <3>5. CASE ReleaseReturns(q)
      BY <1>1, <3>5 DEF ReleaseReturns, Phase, Requests
    <3> QED
      BY <1>5, <3>1, <3>2, <3>3, <3>4, <3>5
  <2>5. /\ ses[q].pc \in FinishPlaces => req'[q].phase = "finish"
        /\ ses[q].pc \in AbortPlaces => req'[q].phase = "abort"
        /\ ses[q].pc \in {"ended", "closed"} =>
             req'[q].phase \in {"finish", "finished", "closing", "released", "raised", "abort"}
        /\ ses[q].pc = "raised" => req'[q].phase \in {"finish", "abort", "raised"}
                                   \/ req[q].phase \notin {"finish", "abort", "raised"}
        /\ req'[q].phase \in {"finish", "finished", "abort", "released"} => req'[q].futures = <<>>
        /\ req'[q].phase = "released" => ses[q].pc \in {"none", "idle", "ended", "closed"}
    BY <2>2, <2>4 DEF Owned, SessionOwned, FinishPlaces, AbortPlaces
  <2> QED
    BY <1>1, <2>1, <2>2, <2>3, <2>5, OwnedByPhase
<1>6. CASE Wait(q)
  <2>1. /\ ses' = ses /\ job' = job /\ req[q].futures # <<>>
        /\ req[q].phase \in {"wait", "abandoned"}
        /\ job[q][Head(req[q].futures)] \in {"done", "fatal"}
    BY <1>6 DEF Wait, Elsewhere
  <2>2. /\ req'[q].futures = Tail(req[q].futures) /\ \A r \in Transfers \ {q} : req'[r] = req[r]
        /\ req'[q].next = req[q].next
        /\ IF job[q][Head(req[q].futures)] = "fatal" THEN req'[q].phase = "raised"
                                                     ELSE req'[q].phase = req[q].phase
    BY <1>1, <1>6, ZenonT(60) DEF Wait, Requests
  <2>3. \A b \in DOMAIN Batches[q] : Awaited(q, b) => Awaited(q, b)' \/ job[q][b] = "done"
                                               \/ (job[q][b] = "fatal" /\ req'[q].phase = "raised")
    BY <2>1, <2>2, TailAwaited
  <2>4. /\ ses[q].pc \notin FinishPlaces \cup AbortPlaces \cup {"ended", "closed"}
        /\ req'[q].phase \in {"wait", "abandoned", "raised"}
    BY <2>1, <2>2 DEF Owned, SessionOwned
  <2> QED
    BY <1>1, <2>1, <2>2, <2>3, <2>4, OwnedByPhase
<1>7. CASE CloseWait(q)
  <2>1. ses' = ses /\ job' = job /\ req[q].phase = "closing"
    BY <1>7 DEF CloseWait
  <2>2. /\ \A r \in Transfers \ {q} : req'[r] = req[r]
        /\ req'[q].next = req[q].next
        /\ \/ /\ req[q].futures # <<>> /\ job[q][Head(req[q].futures)] = "done"
              /\ req'[q].futures = Tail(req[q].futures) /\ req'[q].phase = "closing"
           \/ req'[q].futures = req[q].futures /\ req'[q].phase = "raised"
           \/ /\ req[q].futures = <<>> /\ ~ses[q].fatal
              /\ req'[q].futures = <<>> /\ req'[q].phase = "released"
    <3>1. CASE /\ req[q].futures # <<>> /\ job[q][Head(req[q].futures)] = "done"
               /\ req' = [req EXCEPT ![q].futures = Tail(@)]
      BY <1>1, <2>1, <3>1 DEF Requests
    <3>2. CASE Phase(q, "raised")
      BY <1>1, <3>2 DEF Phase, Requests
    <3>3. CASE req[q].futures = <<>> /\ ~ses[q].fatal /\ Phase(q, "released")
      BY <1>1, <3>3 DEF Phase, Requests
    <3> QED
      BY <1>7, <3>1, <3>2, <3>3 DEF CloseWait
  <2>3. \A b \in DOMAIN Batches[q] : Awaited(q, b) => Awaited(q, b)' \/ job[q][b] = "done"
    <3>1. CASE req'[q].futures = req[q].futures
      BY <3>1 DEF Awaited
    <3>2. CASE req[q].futures # <<>> /\ job[q][Head(req[q].futures)] = "done"
               /\ req'[q].futures = Tail(req[q].futures)
      BY <3>2, TailAwaited
    <3> QED
      BY <2>2, <3>1, <3>2
  <2>4. ses[q].pc \notin FinishPlaces \cup AbortPlaces
    BY <2>1 DEF Owned, SessionOwned
  <2>5. req'[q].phase = "released" => ses[q].pc \in {"none", "idle", "ended", "closed"}
    <3>1. SUFFICES ASSUME req[q].futures = <<>>, ~ses[q].fatal
                   PROVE  ses[q].pc \in {"none", "idle", "ended", "closed"}
      BY <2>2
    <3>2. ses[q].pc \notin JobPlaces /\ ses[q].pc # "raised"
      BY <3>1, NothingAwaited DEF Owned, SessionOwned
    <3> QED
      BY <1>2, <2>4, <3>2 DEF Places, JobPlaces, FinishPlaces, AbortPlaces
  <2>6. /\ req'[q].phase \in {"closing", "raised", "released"}
        /\ req'[q].phase = "released" => req'[q].futures = <<>>
    BY <2>2
  <2> QED
    BY <1>1, <2>1, <2>2, <2>3, <2>4, <2>5, <2>6, OwnedByPhase
<1>8. CASE FinishSession(q)
  <2>1. job' = job /\ req[q].phase = "wait" /\ req[q].futures = <<>>
    BY <1>8 DEF FinishSession
  <2>2. ses[q].pc # "raised" /\ ~ses[q].fatal
    BY <2>1, NothingAwaited DEF Owned, SessionOwned
  <2>3. /\ req'[q].futures = <<>> /\ req'[q].next = req[q].next
        /\ \A r \in Transfers \ {q} : req'[r] = req[r] /\ ses'[r] = ses[r]
        /\ ses'[q].fatal = ses[q].fatal
        /\ \/ ses'[q].pc = "none" /\ req'[q].phase = "finished"
           \/ ses'[q].pc = "finishing" /\ req'[q].phase = "finish"
    BY <1>1, <1>8, <2>1 DEF FinishSession, Phase, Goto, Requests, Sessions
  <2>4. JobsAwaited(q)'
    <3>1. \A b : Awaited(q, b)' <=> Awaited(q, b)
      BY <2>1, <2>3 DEF Awaited
    <3> QED
      BY <2>1, <2>3, <3>1 DEF Owned, JobsAwaited
  <2>5. SessionOwned(q)'
    BY <2>2, <2>3 DEF SessionOwned, JobPlaces, FinishPlaces, AbortPlaces
  <2> QED
    BY <2>1, <2>3, <2>4, <2>5 DEF Owned
<1>9. CASE Release(q)
  <2>1. /\ job' = job /\ req[q].phase \in {"submit", "abandoned", "finished", "raised"}
        /\ ~ses[q].fatal /\ req[q].futures = <<>>
    BY <1>9 DEF Release, ReleaseAllowed
  <2>2. ses[q].pc \notin JobPlaces \cup FinishPlaces \cup AbortPlaces \cup {"raised"}
    BY <2>1, NothingAwaited DEF Owned, SessionOwned
  <2>3. ses[q].pc \in {"none", "idle", "ended", "closed"}
    BY <1>2, <2>2 DEF Places, JobPlaces, FinishPlaces, AbortPlaces
  <2>4. /\ req'[q].futures = <<>> /\ req'[q].next = req[q].next
        /\ \A r \in Transfers \ {q} : req'[r] = req[r] /\ ses'[r] = ses[r]
        /\ ses'[q].fatal = ses[q].fatal
        /\ \/ ses'[q].pc = ses[q].pc /\ req'[q].phase = "released"
           \/ ses'[q].pc = "aborting" /\ req'[q].phase = "abort"
    BY <1>1, <1>9, <2>1 DEF Release, Phase, Goto, Requests, Sessions
  <2>5. JobsAwaited(q)'
    <3>1. \A b : Awaited(q, b)' <=> Awaited(q, b)
      BY <2>1, <2>4 DEF Awaited
    <3> QED
      BY <2>1, <2>4, <3>1 DEF Owned, JobsAwaited
  <2>6. SessionOwned(q)'
    BY <2>1, <2>3, <2>4 DEF SessionOwned, JobPlaces, FinishPlaces, AbortPlaces
  <2> QED
    BY <2>1, <2>4, <2>5, <2>6 DEF Owned
<1> QED
  BY <1>3, <1>4, <1>5, <1>6, <1>7, <1>8, <1>9 DEF CallerStep

-----------------------------------------------------------------------------
(* Calls match their sessions *)

\* A call matches its session until one of them moves; that it is answered does not
\* matter.
LEMMA CallsKept ==
  ASSUME NEW q \in Transfers, CallMatches(q), ses'[q] = ses[q],
         rpc'[q].op = rpc[q].op, rpc'[q].w = rpc[q].w, rpc'[q].arg = rpc[q].arg
  PROVE  CallMatches(q)'
  BY DEF CallMatches

\* A session without a call in flight that goes where it makes none, or to a window.
LEMMA CallsSilent ==
  ASSUME NEW q \in Transfers, CallMatches(q), rpc'[q] = rpc[q], rpc[q].op = "none",
         \/ ses'[q].pc \in {"none", "raised", "idle", "finishing", "ended", "aborting", "closed"}
         \/ ses'[q].pc = "window" /\ ses'[q].w \in Windows(q)
  PROVE  CallMatches(q)'
  BY DEF CallMatches, JobPlaces

\* Every step of a session makes the call of the place it goes to.
LEMMA CallBySession ==
  ASSUME TypeOK, NEW q \in Transfers, CallMatches(q),
         SessionStep(q) \/ Selected(q) \/ (ses[q].pc = "select" /\ Abandoned(q) /\ UNCHANGED rpc)
  PROVE  CallMatches(q)' /\ \A r \in Transfers \ {q} : rpc'[r] = rpc[r]
<1> USE DEF Goto, Abandoned, PrearmUnknown, Fatal, End, Call, HangUp
<1>a. /\ ses \in [Transfers -> Sessions] /\ rpc \in [Transfers -> Calls]
      /\ ses[q].pc \in Places /\ ses[q] \in Sessions /\ rpc[q] \in Calls
  BY DEF TypeOK, Sessions
<1>b. Idle.op = "none" /\ Idle.st = "idle"
  BY DEF Idle
<1>1. CASE OpenFirst(q)
  <2>1. CallMatches(q)'
    <3>1. \E place \in {"open", "negotiate"} : /\ ses'[q] = [ses[q] EXCEPT !.pc = place]
                                              /\ rpc'[q].op = place
      BY <1>a, <1>1 DEF OpenFirst
    <3>2. ses[q].w \in Windows(q)
      BY <1>1 DEF OpenFirst, CallMatches, JobPlaces
    <3> QED
      BY <1>a, <3>1, <3>2 DEF CallMatches, JobPlaces, Sessions
  <2>2. \A r \in Transfers \ {q} : rpc'[r] = rpc[r]
    BY <1>a, <1>1 DEF OpenFirst, Quiet
  <2> QED
    BY <2>1, <2>2
<1>2. CASE Negotiated(q)
  <2>1. CallMatches(q)'
    BY <1>a, <1>b, <1>2 DEF CallMatches, JobPlaces, Sessions, Calls, Negotiated, Quiet
  <2>2. \A r \in Transfers \ {q} : rpc'[r] = rpc[r]
    BY <1>a, <1>2 DEF Negotiated, Quiet
  <2> QED
    BY <2>1, <2>2
<1>3. CASE Opened(q)
  <2>1. CallMatches(q)'
    BY <1>a, <1>b, <1>3 DEF CallMatches, JobPlaces, Sessions, Calls, Opened, Quiet
  <2>2. \A r \in Transfers \ {q} : rpc'[r] = rpc[r]
    BY <1>a, <1>3 DEF Opened, Quiet
  <2> QED
    BY <2>1, <2>2
<1>4. CASE ReserveWindow(q)
  <2>1. CallMatches(q)'
    BY <1>a, <1>b, <1>4 DEF CallMatches, JobPlaces, Sessions, Calls, ReserveWindow, Quiet
  <2>2. \A r \in Transfers \ {q} : rpc'[r] = rpc[r]
    BY <1>a, <1>4 DEF ReserveWindow, Quiet
  <2> QED
    BY <2>1, <2>2
<1>5. CASE Probed(q)
  <2>1. CallMatches(q)'
    BY <1>a, <1>b, <1>5 DEF CallMatches, JobPlaces, Sessions, Calls, Probed, Quiet
  <2>2. \A r \in Transfers \ {q} : rpc'[r] = rpc[r]
    BY <1>a, <1>5 DEF Probed, Quiet
  <2> QED
    BY <2>1, <2>2
<1>6. CASE Reserved(q)
  <2>1. CallMatches(q)'
    BY <1>a, <1>b, <1>6 DEF CallMatches, JobPlaces, Sessions, Calls, Reserved, Quiet
  <2>2. \A r \in Transfers \ {q} : rpc'[r] = rpc[r]
    BY <1>a, <1>6 DEF Reserved, Quiet
  <2> QED
    BY <2>1, <2>2
<1>7. CASE WindowArmed(q)
  <2>1. CallMatches(q)'
    BY <1>a, <1>b, <1>7 DEF CallMatches, JobPlaces, Sessions, Calls, WindowArmed, Quiet
  <2>2. \A r \in Transfers \ {q} : rpc'[r] = rpc[r]
    BY <1>a, <1>7 DEF WindowArmed, Quiet
  <2> QED
    BY <2>1, <2>2
<1>8. CASE ResolveAmbiguousArm(q)
  <2>1. CallMatches(q)'
    BY <1>a, <1>b, <1>8 DEF CallMatches, JobPlaces, Sessions, Calls, ResolveAmbiguousArm, Quiet
  <2>2. \A r \in Transfers \ {q} : rpc'[r] = rpc[r]
    BY <1>a, <1>8 DEF ResolveAmbiguousArm, Quiet
  <2> QED
    BY <2>1, <2>2
<1>9. CASE NativeSubmit(q)
  <2>1. CallMatches(q)'
    BY <1>a, <1>b, <1>9 DEF CallMatches, JobPlaces, Sessions, Calls, NativeSubmit, Quiet
  <2>2. \A r \in Transfers \ {q} : rpc'[r] = rpc[r]
    BY <1>a, <1>9 DEF NativeSubmit, Quiet
  <2> QED
    BY <2>1, <2>2
<1>10. CASE \E outcome \in {"complete", "short", "terminal"} : NativeEnds(q, outcome)
  <2>1. CallMatches(q)'
    BY <1>a, <1>b, <1>10 DEF CallMatches, JobPlaces, Sessions, Calls, NativeEnds, Quiet
  <2>2. \A r \in Transfers \ {q} : rpc'[r] = rpc[r]
    BY <1>a, <1>10 DEF NativeEnds, Quiet
  <2> QED
    BY <2>1, <2>2
<1>11. CASE NativeUnknown(q)
  <2>1. CallMatches(q)'
    BY <1>a, <1>b, <1>11 DEF CallMatches, JobPlaces, Sessions, Calls, NativeUnknown, Quiet
  <2>2. \A r \in Transfers \ {q} : rpc'[r] = rpc[r]
    BY <1>a, <1>11 DEF NativeUnknown, Quiet
  <2> QED
    BY <2>1, <2>2
<1>12. CASE NativeEndsLater(q)
  <2>1. CallMatches(q)'
    BY <1>a, <1>b, <1>12 DEF CallMatches, JobPlaces, Sessions, Calls, NativeEndsLater, sessionVars, netVars, Quiet
  <2>2. \A r \in Transfers \ {q} : rpc'[r] = rpc[r]
    BY <1>a, <1>12 DEF NativeEndsLater, sessionVars, netVars, Quiet
  <2> QED
    BY <2>1, <2>2
<1>13. CASE Report(q)
  <2>1. CallMatches(q)'
    BY <1>a, <1>b, <1>13 DEF CallMatches, JobPlaces, Sessions, Calls, Report, Quiet
  <2>2. \A r \in Transfers \ {q} : rpc'[r] = rpc[r]
    BY <1>a, <1>13 DEF Report, Quiet
  <2> QED
    BY <2>1, <2>2
<1>14. CASE Reported(q)
  <2>1. CallMatches(q)'
    BY <1>a, <1>b, <1>14 DEF CallMatches, JobPlaces, Sessions, Calls, Reported, Quiet
  <2>2. \A r \in Transfers \ {q} : rpc'[r] = rpc[r]
    BY <1>a, <1>14 DEF Reported, Quiet
  <2> QED
    BY <2>1, <2>2
<1>15. CASE ResolveAmbiguousReport(q)
  <2>1. CallMatches(q)'
    BY <1>a, <1>b, <1>15 DEF CallMatches, JobPlaces, Sessions, Calls, ResolveAmbiguousReport, Quiet
  <2>2. \A r \in Transfers \ {q} : rpc'[r] = rpc[r]
    BY <1>a, <1>15 DEF ResolveAmbiguousReport, Quiet
  <2> QED
    BY <2>1, <2>2
<1>16. CASE \E persistent \in BOOLEAN : FinishBegin(q, persistent)
  <2>1. CallMatches(q)'
    BY <1>a, <1>b, <1>16 DEF CallMatches, JobPlaces, Sessions, Calls, FinishBegin, Quiet
  <2>2. \A r \in Transfers \ {q} : rpc'[r] = rpc[r]
    BY <1>a, <1>16 DEF FinishBegin, Quiet
  <2> QED
    BY <2>1, <2>2
<1>17. CASE PreAborted(q)
  <2>1. CallMatches(q)'
    BY <1>a, <1>b, <1>17 DEF CallMatches, JobPlaces, Sessions, Calls, PreAborted, Quiet
  <2>2. \A r \in Transfers \ {q} : rpc'[r] = rpc[r]
    BY <1>a, <1>17 DEF PreAborted, Quiet
  <2> QED
    BY <2>1, <2>2
<1>18. CASE Finished(q)
  <2>1. CallMatches(q)'
    BY <1>a, <1>b, <1>18 DEF CallMatches, JobPlaces, Sessions, Calls, Finished, Quiet
  <2>2. \A r \in Transfers \ {q} : rpc'[r] = rpc[r]
    BY <1>a, <1>18 DEF Finished, Quiet
  <2> QED
    BY <2>1, <2>2
<1>19. CASE ResolveAmbiguousFinish(q)
  <2>1. CallMatches(q)'
    BY <1>a, <1>b, <1>19 DEF CallMatches, JobPlaces, Sessions, Calls, ResolveAmbiguousFinish, Quiet
  <2>2. \A r \in Transfers \ {q} : rpc'[r] = rpc[r]
    BY <1>a, <1>19 DEF ResolveAmbiguousFinish, Quiet
  <2> QED
    BY <2>1, <2>2
<1>20. CASE FinishAborted(q)
  <2>1. CallMatches(q)'
    BY <1>a, <1>b, <1>20 DEF CallMatches, JobPlaces, Sessions, Calls, FinishAborted, Quiet
  <2>2. \A r \in Transfers \ {q} : rpc'[r] = rpc[r]
    BY <1>a, <1>20 DEF FinishAborted, Quiet
  <2> QED
    BY <2>1, <2>2
<1>21. CASE AbortBegin(q)
  <2>1. CallMatches(q)'
    BY <1>a, <1>b, <1>21 DEF CallMatches, JobPlaces, Sessions, Calls, AbortBegin, Quiet
  <2>2. \A r \in Transfers \ {q} : rpc'[r] = rpc[r]
    BY <1>a, <1>21 DEF AbortBegin, Quiet
  <2> QED
    BY <2>1, <2>2
<1>22. CASE Aborted(q)
  <2>1. CallMatches(q)'
    BY <1>a, <1>b, <1>22 DEF CallMatches, JobPlaces, Sessions, Calls, Aborted, Quiet
  <2>2. \A r \in Transfers \ {q} : rpc'[r] = rpc[r]
    BY <1>a, <1>22 DEF Aborted, Quiet
  <2> QED
    BY <2>1, <2>2
<1>23. CASE Selected(q)
  <2>1. CallMatches(q)'
    BY <1>a, <1>b, <1>23 DEF CallMatches, JobPlaces, Sessions, Calls, Selected, Quiet
  <2>2. \A r \in Transfers \ {q} : rpc'[r] = rpc[r]
    BY <1>a, <1>23 DEF Selected, Quiet
  <2> QED
    BY <2>1, <2>2
<1>24. CASE ses[q].pc = "select" /\ Abandoned(q) /\ UNCHANGED rpc
  BY <1>a, <1>24 DEF CallMatches, JobPlaces, Sessions
<1> QED
  BY <1>1, <1>2, <1>3, <1>4, <1>5, <1>6, <1>7, <1>8, <1>9, <1>10, <1>11, <1>12, <1>13, <1>14, <1>15, <1>16, <1>17, <1>18, <1>19, <1>20, <1>21, <1>22, <1>23, <1>24 DEF SessionStep

\* A request that waits, is released or is closed has no call in flight.
LEMMA NoCall ==
  ASSUME TypeOK, NEW q \in Transfers, Owned(q), CallMatches(q),
         req[q].futures = <<>>, req[q].phase \notin {"finish", "abort"}
  PROVE  rpc[q].op = "none"
<1>1. ses[q].pc \notin JobPlaces \cup FinishPlaces \cup AbortPlaces /\ ses[q].pc \in Places
  BY NothingAwaited, Ledger DEF Owned, SessionOwned
<1>2. ses[q].pc \in {"none", "idle", "raised", "ended", "closed"}
  BY <1>1 DEF Places, JobPlaces, FinishPlaces, AbortPlaces
<1> QED
  BY <1>2 DEF CallMatches

\* The workers and the store thread move sessions that have no call in flight.
LEMMA CallByCoordinator ==
  ASSUME TypeOK, NEW q \in Transfers, Owned(q), CallMatches(q),
         \/ SelectSources(q)
         \/ \E b \in DOMAIN Batches[q] : \/ BeginJob(q, b) \/ SessionFails(q, b) \/ InheritFatal(q, b)
                                         \/ WindowSatisfied(q, b) \/ WindowFailed(q, b) \/ JobRaised(q, b)
         \/ Prepare(q) \/ SubmitProbe(q) \/ SubmitBatch(q) \/ RejectSourceBatch(q)
         \/ CallerStep(q) \/ FinishRequest(q) \/ Release(q) \/ Abandon(q) \/ Close(q)
  PROVE  CallMatches(q)' /\ \A r \in Transfers \ {q} : rpc'[r] = rpc[r]
<1>1. ses \in [Transfers -> Sessions] /\ ses[q] \in Sessions
  BY DEF TypeOK
<1>2. CASE SelectSources(q)
  BY <1>2, CallBySession DEF SelectSources, Elsewhere, Apart
<1>3. CASE \/ Prepare(q) \/ SubmitProbe(q) \/ SubmitBatch(q) \/ RejectSourceBatch(q)
           \/ Wait(q) \/ FinishReturns(q) \/ ReleaseReturns(q) \/ CloseWait(q)
           \/ FinishRequest(q) \/ Abandon(q) \/ Close(q)
  <2>1. ses' = ses /\ rpc' = rpc
    BY <1>3 DEF Prepare, SubmitProbe, SubmitBatch, Enqueue, RejectSourceBatch, Wait, FinishReturns,
                ReleaseReturns, CloseWait, FinishRequest, Abandon, Close, Elsewhere, Apart
  <2> QED
    BY <2>1, CallsKept
<1>4. CASE FinishSession(q)
  <2>1. rpc' = rpc /\ rpc[q].op = "none"
    BY <1>4, NoCall DEF FinishSession, decoderVars, netVars
  <2>2. ses'[q].pc \in {"none", "finishing"}
    BY <1>1, <1>4 DEF FinishSession, Goto, Sessions
  <2> QED
    BY <2>1, <2>2, CallsSilent
<1>5. CASE Release(q)
  <2>1. rpc' = rpc /\ rpc[q].op = "none"
    BY <1>5, NoCall DEF Release, ReleaseAllowed, Elsewhere, Apart
  <2>2. CASE ses' = ses
    BY <2>1, <2>2, CallsKept
  <2>3. CASE Goto(q, "aborting")
    <3>1. ses'[q].pc = "aborting"
      BY <1>1, <2>3 DEF Goto, Sessions
    <3> QED
      BY <2>1, <3>1, CallsSilent
  <2> QED
    BY <1>5, <2>2, <2>3 DEF Release
<1>6. ASSUME NEW b \in DOMAIN Batches[q],
             \/ BeginJob(q, b) \/ SessionFails(q, b) \/ InheritFatal(q, b)
             \/ WindowSatisfied(q, b) \/ WindowFailed(q, b) \/ JobRaised(q, b)
      PROVE  CallMatches(q)' /\ \A r \in Transfers \ {q} : rpc'[r] = rpc[r]
  <2>1. rpc' = rpc
    BY <1>6 DEF BeginJob, SessionFails, InheritFatal, WindowSatisfied, WindowFailed, JobRaised,
                Elsewhere, Apart
  <2>2. CASE ses' = ses
    BY <2>1, <2>2, CallsKept
  <2>3. CASE BeginJob(q, b) /\ ses' = [ses EXCEPT ![q].pc = "window", ![q].w = Batch(<<q, b>>).from,
                                                  ![q].probe = (Batch(<<q, b>>).kind = "probe")]
    <3>1. ses'[q].pc = "window" /\ ses'[q].w = Batches[q][b].from
      BY <1>1, <2>3 DEF Sessions, Batch
    <3>2. rpc[q].op = "none"
      BY <2>3 DEF BeginJob, CallMatches
    <3> QED
      BY <2>1, <3>1, <3>2, Numbering, CallsSilent
  <2>4. CASE WindowSatisfied(q, b) /\ ses[q].w < Batch(<<q, b>>).to
             /\ ses' = [ses EXCEPT ![q].pc = "window", ![q].w = @ + 1, ![q].made = {}]
    <3>1. ses'[q].pc = "window" /\ ses'[q].w = ses[q].w + 1
      BY <1>1, <2>4 DEF Sessions
    <3>2. ses[q].pc = "satisfied"
      BY <2>4 DEF WindowSatisfied
    <3>3. rpc[q].op = "none" /\ ses[q].w \in Windows(q)
      BY <3>2 DEF CallMatches, JobPlaces
    <3>4. ses[q].w + 1 \in Windows(q)
      <4> DEFINE w == ses[q].w
                 to == Batches[q][b].to
                 n == Len(PagesOf[q])
      <4>1. w \in 1 .. n /\ to \in 1 .. n /\ Windows(q) = 1 .. n /\ w < to
        BY <2>4, <3>3, Numbering DEF Batch
      <4>a. n \in Nat
        BY DecoderAssumption, LenProperties
      <4> HIDE DEF w, to, n
      <4>2. w + 1 \in 1 .. n
        BY <4>1, <4>a
      <4> QED
        BY <4>1, <4>2 DEF w
    <3> QED
      BY <2>1, <3>1, <3>3, <3>4, CallsSilent
  <2>5. CASE ses[q].pc \in {"satisfied", "failed"}
             /\ ses' = [ses EXCEPT ![q].pc = "idle", ![q].made = {}]
    <3>1. ses'[q].pc = "idle"
      BY <1>1, <2>5 DEF Sessions
    <3>2. rpc[q].op = "none"
      BY <2>5 DEF CallMatches
    <3> QED
      BY <2>1, <3>1, <3>2, CallsSilent
  <2>6. ses' = ses \/ BeginJob(q, b) \/ WindowSatisfied(q, b) \/ WindowFailed(q, b)
    BY <1>6 DEF SessionFails, InheritFatal, JobRaised
  <2> QED
    BY <2>2, <2>3, <2>4, <2>5, <2>6 DEF BeginJob, WindowSatisfied, WindowFailed
<1> QED
  BY <1>2, <1>3, <1>4, <1>5, <1>6 DEF CallerStep

-----------------------------------------------------------------------------
(* Pages: what the session and the coordinator do *)

Pages(q) == Reservation(q) /\ PushArmed(q) /\ SuccessWritten(q) /\ LocalCommitted(q)

BoundPlaces == {"reserve", "select", "arm", "armStatus", "native", "wait", "report", "reportStatus",
                "finish", "finStatus"}

\* Nothing of the transfer moves.
LEMMA PagesKept ==
  ASSUME NEW q \in Transfers, Pages(q), ses'[q] = ses[q], rpc'[q] = rpc[q], terminal'[q] = terminal[q],
         win'[q] = win[q], tx'[q] = tx[q],
         \A v, k : <<q, v, k>> \in hidden' <=> <<q, v, k>> \in hidden,
         \A v : <<q, v>> \in writing' => <<q, v>> \in writing,
         \A v, k : <<q, v, k>> \in written => <<q, v, k>> \in written'
  PROVE  Pages(q)'
<1>1. Reservation(q)'
  BY DEF Pages, Reservation, HiddenAt, OnlyHidden, Answered
<1>2. PushArmed(q)'
  BY DEF Pages, PushArmed, HiddenAt, Answered
<1>3. SuccessWritten(q)'
  BY DEF Pages, SuccessWritten
<1>4. LocalCommitted(q)'
  BY DEF Pages, LocalCommitted, Armed, Answered
<1> QED
  BY <1>1, <1>2, <1>3, <1>4 DEF Pages

\* The session goes where nothing is said of its window.
LEMMA PagesQuiet ==
  ASSUME NEW q \in Transfers, Pages(q), UNCHANGED <<hidden, win, tx, written, writing>>,
         \/ ses[q].pc \notin {"wait", "raised"}
         \/ ses'[q].pc = "raised" /\ ses'[q].w = ses[q].w /\ ses'[q].made = ses[q].made,
         ses'[q].pc \notin BoundPlaces,
         terminal'[q] = terminal[q] \/ terminal'[q] # "LOCAL" \/ tx[q] = "local"
  PROVE  Pages(q)'
<1>1. Reservation(q)'
  BY DEF Pages, Reservation, OnlyHidden, BoundPlaces
<1>2. PushArmed(q)'
  BY DEF Pages, PushArmed, HiddenAt, BoundPlaces
<1>3. SuccessWritten(q)'
  BY DEF Pages, SuccessWritten, BoundPlaces
<1>4. LocalCommitted(q)'
  BY DEF Pages, LocalCommitted, Armed, BoundPlaces
<1> QED
  BY <1>1, <1>2, <1>3, <1>4 DEF Pages

\* A call that is made has no answer yet.
LEMMA NoAnswer ==
  ASSUME TypeOK, NEW q \in Transfers, NEW op, NEW w, NEW arg, Call(q, op, w, arg) \/ HangUp(q)
  PROVE  ~Answered(q)'
  BY DEF TypeOK, Call, HangUp, Idle, Answered

\* The steps of a session that leave the decoder's side alone.
LEMMA PagesBySession ==
  ASSUME TypeOK, NEW q \in Transfers, CallMatches(q), Pages(q),
         SessionStep(q) \/ Selected(q) \/ (ses[q].pc = "select" /\ Abandoned(q) /\ Elsewhere)
  PROVE  Pages(q)'
<1> USE DEF Goto, Abandoned, PrearmUnknown, Fatal, Replied, LostReply, ReplyOf
<1>a. /\ ses \in [Transfers -> Sessions] /\ rpc \in [Transfers -> Calls]
      /\ terminal \in [Transfers -> Terminals]
      /\ ses[q].pc \in Places /\ ses[q] \in Sessions /\ rpc[q] \in Calls
  BY DEF TypeOK, Sessions
<1>b. \A op, w, arg : Call(q, op, w, arg) => ~Answered(q)'
  BY NoAnswer
<1>c. HangUp(q) => ~Answered(q)'
  BY NoAnswer
<1>1. CASE OpenFirst(q)
  <2>1. /\ ses[q].pc \notin {"wait", "raised"} /\ ses'[q].pc \notin BoundPlaces
        /\ terminal' = terminal /\ UNCHANGED <<hidden, win, tx, written, writing>>
    BY <1>a, <1>1 DEF OpenFirst, Quiet, cacheVars, Sessions, BoundPlaces
  <2> QED
    BY <2>1, PagesQuiet
<1>2. CASE Negotiated(q)
  <2>1. /\ ses[q].pc \notin {"wait", "raised"} /\ ses'[q].pc \notin BoundPlaces
        /\ terminal' = terminal /\ UNCHANGED <<hidden, win, tx, written, writing>>
    BY <1>a, <1>2 DEF Negotiated, Quiet, cacheVars, Sessions, BoundPlaces
  <2> QED
    BY <2>1, PagesQuiet
<1>3. CASE Opened(q)
  <2>1. /\ ses[q].pc \notin {"wait", "raised"} /\ ses'[q].pc \notin BoundPlaces
        /\ terminal' = terminal /\ UNCHANGED <<hidden, win, tx, written, writing>>
    BY <1>a, <1>3 DEF Opened, Quiet, cacheVars, Sessions, BoundPlaces
  <2> QED
    BY <2>1, PagesQuiet
<1>4. CASE Probed(q)
  <2>1. /\ ses[q].pc \notin {"wait", "raised"} /\ ses'[q].pc \notin BoundPlaces
        /\ terminal' = terminal /\ UNCHANGED <<hidden, win, tx, written, writing>>
    BY <1>a, <1>4 DEF Probed, Quiet, cacheVars, Sessions, BoundPlaces
  <2> QED
    BY <2>1, PagesQuiet
<1>5. CASE AbortBegin(q)
  <2>1. /\ ses[q].pc \notin {"wait", "raised"} /\ ses'[q].pc \notin BoundPlaces
        /\ terminal' = terminal /\ UNCHANGED <<hidden, win, tx, written, writing>>
    BY <1>a, <1>5 DEF AbortBegin, Quiet, cacheVars, Sessions, BoundPlaces
  <2> QED
    BY <2>1, PagesQuiet
<1>6. CASE Aborted(q)
  <2>1. /\ ses[q].pc \notin {"wait", "raised"} /\ ses'[q].pc \notin BoundPlaces
        /\ terminal' = terminal /\ UNCHANGED <<hidden, win, tx, written, writing>>
    BY <1>a, <1>6 DEF Aborted, Quiet, cacheVars, Sessions, BoundPlaces
  <2> QED
    BY <2>1, PagesQuiet
<1>7. CASE PreAborted(q)
  <2>1. /\ ses[q].pc \notin {"wait", "raised"} /\ ses'[q].pc \notin BoundPlaces
        /\ terminal'[q] = terminal[q] \/ terminal'[q] # "LOCAL"
        /\ UNCHANGED <<hidden, win, tx, written, writing>>
    BY <1>a, <1>7 DEF PreAborted, End, cacheVars, Sessions, BoundPlaces
  <2> QED
    BY <2>1, PagesQuiet
<1>8. CASE FinishAborted(q)
  <2>1. /\ ses[q].pc \notin {"wait", "raised"} /\ ses'[q].pc \notin BoundPlaces
        /\ terminal'[q] = terminal[q] \/ terminal'[q] # "LOCAL"
        /\ UNCHANGED <<hidden, win, tx, written, writing>>
    BY <1>a, <1>8 DEF FinishAborted, End, cacheVars, Sessions, BoundPlaces
  <2> QED
    BY <2>1, PagesQuiet
<1>9. CASE ReserveWindow(q)
  <2>11. Reservation(q)'
    BY <1>a, <1>b, <1>c, <1>9 DEF Pages, Reservation, HiddenAt, OnlyHidden, Sessions, ReserveWindow, Quiet, cacheVars
  <2>12. PushArmed(q)'
    BY <1>a, <1>b, <1>c, <1>9 DEF Pages, Reservation, PushArmed, HiddenAt, Answered, CallMatches, JobPlaces, Sessions, ReserveWindow, Quiet, cacheVars
  <2>13. SuccessWritten(q)'
    BY <1>a, <1>9 DEF Pages, SuccessWritten, Sessions, ReserveWindow, Quiet, cacheVars
  <2>14. LocalCommitted(q)'
    BY <1>a, <1>b, <1>c, <1>9 DEF Pages, LocalCommitted, Armed, Answered, Sessions, ReserveWindow, Quiet, cacheVars
  <2> QED
    BY <2>11, <2>12, <2>13, <2>14 DEF Pages
<1>10. CASE Reserved(q)
  <2>11. Reservation(q)'
    BY <1>a, <1>b, <1>c, <1>10 DEF Pages, Reservation, HiddenAt, OnlyHidden, Answered, Sessions, Reserved, Quiet, cacheVars
  <2>12. PushArmed(q)'
    BY <1>a, <1>b, <1>c, <1>10 DEF Pages, Reservation, PushArmed, HiddenAt, Answered, CallMatches, JobPlaces, Sessions, Reserved, Quiet, cacheVars
  <2>13. SuccessWritten(q)'
    BY <1>a, <1>10 DEF Pages, SuccessWritten, Sessions, Reserved, Quiet, cacheVars
  <2>14. LocalCommitted(q)'
    BY <1>a, <1>b, <1>c, <1>10 DEF Pages, LocalCommitted, Armed, Answered, Sessions, Reserved, Quiet, cacheVars
  <2> QED
    BY <2>11, <2>12, <2>13, <2>14 DEF Pages
<1>11. CASE Selected(q)
  <2>11. Reservation(q)'
    BY <1>a, <1>b, <1>c, <1>11 DEF Pages, Reservation, HiddenAt, OnlyHidden, Sessions, Selected, Quiet, cacheVars
  <2>12. PushArmed(q)'
    BY <1>a, <1>b, <1>c, <1>11 DEF Pages, Reservation, PushArmed, HiddenAt, Answered, CallMatches, JobPlaces, Sessions, Selected, Quiet, cacheVars
  <2>13. SuccessWritten(q)'
    BY <1>a, <1>11 DEF Pages, SuccessWritten, Sessions, Selected, Quiet, cacheVars
  <2>14. LocalCommitted(q)'
    BY <1>a, <1>b, <1>c, <1>11 DEF Pages, LocalCommitted, Armed, Answered, Sessions, Selected, Quiet, cacheVars
  <2> QED
    BY <2>11, <2>12, <2>13, <2>14 DEF Pages
<1>12. CASE WindowArmed(q)
  <2>11. Reservation(q)'
    BY <1>a, <1>b, <1>c, <1>12 DEF Pages, Reservation, HiddenAt, OnlyHidden, Sessions, WindowArmed, Quiet, cacheVars
  <2>12. PushArmed(q)'
    BY <1>a, <1>b, <1>c, <1>12 DEF Pages, Reservation, PushArmed, HiddenAt, Answered, CallMatches, JobPlaces, Sessions, WindowArmed, Quiet, cacheVars
  <2>13. SuccessWritten(q)'
    BY <1>a, <1>12 DEF Pages, SuccessWritten, Sessions, WindowArmed, Quiet, cacheVars
  <2>14. LocalCommitted(q)'
    BY <1>a, <1>b, <1>c, <1>12 DEF Pages, LocalCommitted, Armed, Answered, Sessions, WindowArmed, Quiet, cacheVars
  <2> QED
    BY <2>11, <2>12, <2>13, <2>14 DEF Pages
<1>13. CASE ResolveAmbiguousArm(q)
  <2>11. Reservation(q)'
    BY <1>a, <1>b, <1>c, <1>13 DEF Pages, Reservation, HiddenAt, OnlyHidden, Sessions, ResolveAmbiguousArm, Quiet, cacheVars, ProvedArmed
  <2>12. PushArmed(q)'
    BY <1>a, <1>b, <1>c, <1>13 DEF Pages, Reservation, PushArmed, HiddenAt, Answered, CallMatches, JobPlaces, Sessions, ResolveAmbiguousArm, Quiet, cacheVars, ProvedArmed
  <2>13. SuccessWritten(q)'
    BY <1>a, <1>13 DEF Pages, SuccessWritten, Sessions, ResolveAmbiguousArm, Quiet, cacheVars, ProvedArmed
  <2>14. LocalCommitted(q)'
    BY <1>a, <1>b, <1>c, <1>13 DEF Pages, LocalCommitted, Armed, Answered, Sessions, ResolveAmbiguousArm, Quiet, cacheVars, ProvedArmed
  <2> QED
    BY <2>11, <2>12, <2>13, <2>14 DEF Pages
<1>14. CASE NativeSubmit(q)
  <2>11. Reservation(q)'
    BY <1>a, <1>b, <1>c, <1>14 DEF Pages, Reservation, HiddenAt, OnlyHidden, Sessions, NativeSubmit, Quiet, cacheVars
  <2>12. PushArmed(q)'
    BY <1>a, <1>b, <1>c, <1>14 DEF Pages, Reservation, PushArmed, HiddenAt, Answered, CallMatches, JobPlaces, Sessions, NativeSubmit, Quiet, cacheVars
  <2>13. SuccessWritten(q)'
    BY <1>a, <1>14 DEF Pages, SuccessWritten, Sessions, NativeSubmit, Quiet, cacheVars
  <2>14. LocalCommitted(q)'
    BY <1>a, <1>b, <1>c, <1>14 DEF Pages, LocalCommitted, Armed, Answered, Sessions, NativeSubmit, Quiet, cacheVars
  <2> QED
    BY <2>11, <2>12, <2>13, <2>14 DEF Pages
<1>15. CASE \E outcome \in {"complete", "short", "terminal"} : NativeEnds(q, outcome)
  <2>11. Reservation(q)'
    BY <1>a, <1>b, <1>c, <1>15 DEF Pages, Reservation, HiddenAt, OnlyHidden, Sessions, NativeEnds, ReturnCode, cacheVars
  <2>12. PushArmed(q)'
    BY <1>a, <1>b, <1>c, <1>15 DEF Pages, Reservation, PushArmed, HiddenAt, Answered, CallMatches, JobPlaces, Sessions, NativeEnds, ReturnCode, cacheVars
  <2>13. SuccessWritten(q)'
    BY <1>a, <1>15 DEF Pages, SuccessWritten, Sessions, NativeEnds, ReturnCode, cacheVars
  <2>14. LocalCommitted(q)'
    BY <1>a, <1>b, <1>c, <1>15 DEF Pages, LocalCommitted, Armed, Answered, Sessions, NativeEnds, ReturnCode, cacheVars
  <2> QED
    BY <2>11, <2>12, <2>13, <2>14 DEF Pages
<1>16. CASE NativeUnknown(q)
  <2>11. Reservation(q)'
    BY <1>a, <1>b, <1>c, <1>16 DEF Pages, Reservation, HiddenAt, OnlyHidden, Sessions, NativeUnknown, Quiet, cacheVars
  <2>12. PushArmed(q)'
    BY <1>a, <1>b, <1>c, <1>16 DEF Pages, Reservation, PushArmed, HiddenAt, Answered, CallMatches, JobPlaces, Sessions, NativeUnknown, Quiet, cacheVars
  <2>13. SuccessWritten(q)'
    BY <1>a, <1>16 DEF Pages, SuccessWritten, Sessions, NativeUnknown, Quiet, cacheVars
  <2>14. LocalCommitted(q)'
    BY <1>a, <1>b, <1>c, <1>16 DEF Pages, LocalCommitted, Armed, Answered, Sessions, NativeUnknown, Quiet, cacheVars
  <2> QED
    BY <2>11, <2>12, <2>13, <2>14 DEF Pages
<1>17. CASE NativeEndsLater(q)
  <2>11. Reservation(q)'
    BY <1>a, <1>b, <1>c, <1>17 DEF Pages, Reservation, HiddenAt, OnlyHidden, Answered, NativeEndsLater, netVars, sessionVars, cacheVars
  <2>12. PushArmed(q)'
    BY <1>a, <1>b, <1>c, <1>17 DEF Pages, Reservation, PushArmed, HiddenAt, Answered, CallMatches, JobPlaces, Sessions, NativeEndsLater, netVars, sessionVars, cacheVars
  <2>13. SuccessWritten(q)'
    BY <1>a, <1>17 DEF Pages, SuccessWritten, Sessions, NativeEndsLater, netVars, sessionVars, cacheVars
  <2>14. LocalCommitted(q)'
    BY <1>a, <1>b, <1>c, <1>17 DEF Pages, LocalCommitted, Armed, Answered, Sessions, NativeEndsLater, netVars, sessionVars, cacheVars
  <2> QED
    BY <2>11, <2>12, <2>13, <2>14 DEF Pages
<1>18. CASE Report(q)
  <2>11. Reservation(q)'
    BY <1>a, <1>b, <1>c, <1>18 DEF Pages, Reservation, HiddenAt, OnlyHidden, Sessions, Report, Quiet, cacheVars
  <2>12. PushArmed(q)'
    BY <1>a, <1>b, <1>c, <1>18 DEF Pages, Reservation, PushArmed, HiddenAt, Answered, CallMatches, JobPlaces, Sessions, Report, Quiet, cacheVars
  <2>13. SuccessWritten(q)'
    BY <1>a, <1>18 DEF Pages, SuccessWritten, Sessions, Report, Quiet, cacheVars
  <2>14. LocalCommitted(q)'
    BY <1>a, <1>b, <1>c, <1>18 DEF Pages, LocalCommitted, Armed, Answered, Sessions, Report, Quiet, cacheVars
  <2> QED
    BY <2>11, <2>12, <2>13, <2>14 DEF Pages
<1>19. CASE Reported(q)
  <2>11. Reservation(q)'
    BY <1>a, <1>b, <1>c, <1>19 DEF Pages, Reservation, HiddenAt, OnlyHidden, Sessions, Reported, Quiet, cacheVars
  <2>12. PushArmed(q)'
    BY <1>a, <1>b, <1>c, <1>19 DEF Pages, Reservation, PushArmed, HiddenAt, Answered, CallMatches, JobPlaces, Sessions, Reported, Quiet, cacheVars
  <2>13. SuccessWritten(q)'
    BY <1>a, <1>19 DEF Pages, SuccessWritten, Sessions, Reported, Quiet, cacheVars
  <2>14. LocalCommitted(q)'
    BY <1>a, <1>b, <1>c, <1>19 DEF Pages, LocalCommitted, Armed, Answered, Sessions, Reported, Quiet, cacheVars
  <2> QED
    BY <2>11, <2>12, <2>13, <2>14 DEF Pages
<1>20. CASE ResolveAmbiguousReport(q)
  <2>11. Reservation(q)'
    BY <1>a, <1>b, <1>c, <1>20 DEF Pages, Reservation, HiddenAt, OnlyHidden, Sessions, ResolveAmbiguousReport, Quiet, cacheVars
  <2>12. PushArmed(q)'
    BY <1>a, <1>b, <1>c, <1>20 DEF Pages, Reservation, PushArmed, HiddenAt, Answered, CallMatches, JobPlaces, Sessions, ResolveAmbiguousReport, Quiet, cacheVars
  <2>13. SuccessWritten(q)'
    BY <1>a, <1>20 DEF Pages, SuccessWritten, Sessions, ResolveAmbiguousReport, Quiet, cacheVars
  <2>14. LocalCommitted(q)'
    BY <1>a, <1>b, <1>c, <1>20 DEF Pages, LocalCommitted, Armed, Answered, Sessions, ResolveAmbiguousReport, Quiet, cacheVars
  <2> QED
    BY <2>11, <2>12, <2>13, <2>14 DEF Pages
<1>21. CASE \E persistent \in BOOLEAN : FinishBegin(q, persistent)
  <2>11. Reservation(q)'
    BY <1>a, <1>b, <1>c, <1>21 DEF Pages, Reservation, HiddenAt, OnlyHidden, Sessions, FinishBegin, End, cacheVars
  <2>12. PushArmed(q)'
    BY <1>a, <1>b, <1>c, <1>21 DEF Pages, Reservation, PushArmed, HiddenAt, Answered, CallMatches, JobPlaces, Sessions, FinishBegin, End, cacheVars
  <2>13. SuccessWritten(q)'
    BY <1>a, <1>21 DEF Pages, SuccessWritten, Sessions, FinishBegin, End, cacheVars
  <2>14. LocalCommitted(q)'
    BY <1>a, <1>b, <1>c, <1>21 DEF Pages, LocalCommitted, Armed, Answered, Sessions, FinishBegin, End, cacheVars
  <2> QED
    BY <2>11, <2>12, <2>13, <2>14 DEF Pages
<1>22. CASE Finished(q)
  <2>11. Reservation(q)'
    BY <1>a, <1>b, <1>c, <1>22 DEF Pages, Reservation, HiddenAt, OnlyHidden, Sessions, Finished, End, Classify, cacheVars
  <2>12. PushArmed(q)'
    BY <1>a, <1>b, <1>c, <1>22 DEF Pages, Reservation, PushArmed, HiddenAt, Answered, CallMatches, JobPlaces, Sessions, Finished, End, Classify, cacheVars
  <2>13. SuccessWritten(q)'
    BY <1>a, <1>22 DEF Pages, SuccessWritten, Sessions, Finished, End, Classify, cacheVars
  <2>14. LocalCommitted(q)'
    BY <1>a, <1>b, <1>c, <1>22 DEF Pages, LocalCommitted, Armed, Answered, Sessions, Finished, End, Classify, cacheVars
  <2> QED
    BY <2>11, <2>12, <2>13, <2>14 DEF Pages
<1>23. CASE ResolveAmbiguousFinish(q)
  <2>11. Reservation(q)'
    BY <1>a, <1>b, <1>c, <1>23 DEF Pages, Reservation, HiddenAt, OnlyHidden, Sessions, ResolveAmbiguousFinish, End, Classify, cacheVars
  <2>12. PushArmed(q)'
    BY <1>a, <1>b, <1>c, <1>23 DEF Pages, Reservation, PushArmed, HiddenAt, Answered, CallMatches, JobPlaces, Sessions, ResolveAmbiguousFinish, End, Classify, cacheVars
  <2>13. SuccessWritten(q)'
    BY <1>a, <1>23 DEF Pages, SuccessWritten, Sessions, ResolveAmbiguousFinish, End, Classify, cacheVars
  <2>14. LocalCommitted(q)'
    BY <1>a, <1>b, <1>c, <1>23 DEF Pages, LocalCommitted, Armed, Answered, Sessions, ResolveAmbiguousFinish, End, Classify, cacheVars
  <2> QED
    BY <2>11, <2>12, <2>13, <2>14 DEF Pages
<1>24. CASE ses[q].pc = "select" /\ Abandoned(q) /\ Elsewhere
  <2>1. /\ ses[q].pc \notin {"wait", "raised"} /\ ses'[q].pc \notin BoundPlaces
        /\ terminal' = terminal /\ UNCHANGED <<hidden, win, tx, written, writing>>
    BY <1>a, <1>24 DEF Elsewhere, Apart, cacheVars, Sessions, BoundPlaces
  <2> QED
    BY <2>1, PagesQuiet
<1> QED
  BY <1>1, <1>2, <1>3, <1>4, <1>5, <1>6, <1>7, <1>8, <1>9, <1>10, <1>11, <1>12, <1>13, <1>14, <1>15, <1>16, <1>17, <1>18, <1>19, <1>20, <1>21, <1>22, <1>23, <1>24 DEF SessionStep

\* The workers and the store thread leave the pages alone.
LEMMA PagesByCoordinator ==
  ASSUME TypeOK, NEW q \in Transfers, Owned(q), CallMatches(q), Pages(q),
         \/ SelectSources(q)
         \/ \E b \in DOMAIN Batches[q] : \/ BeginJob(q, b) \/ SessionFails(q, b) \/ InheritFatal(q, b)
                                         \/ WindowSatisfied(q, b) \/ WindowFailed(q, b) \/ JobRaised(q, b)
         \/ Prepare(q) \/ SubmitProbe(q) \/ SubmitBatch(q) \/ RejectSourceBatch(q)
         \/ CallerStep(q) \/ FinishRequest(q) \/ Release(q) \/ Abandon(q) \/ Close(q)
  PROVE  /\ Pages(q)' /\ UNCHANGED <<cache, hidden, written, writing, win, tx>>
         /\ \A r \in Transfers \ {q} : terminal'[r] = terminal[r]
<1>1. /\ ses \in [Transfers -> Sessions] /\ ses[q] \in Sessions /\ ses[q].pc \in Places
      /\ terminal \in [Transfers -> Terminals]
  BY Ledger DEF TypeOK
<1>2. CASE SelectSources(q)
  <2>1. Pages(q)'
    BY <1>2, PagesBySession DEF SelectSources
  <2>2. CASE Selected(q)
    BY <2>1, <2>2 DEF Selected, Quiet, cacheVars
  <2>3. CASE Elsewhere
    BY <2>1, <2>3 DEF Elsewhere, Apart, cacheVars
  <2> QED
    BY <1>2, <2>2, <2>3 DEF SelectSources
<1>3. CASE \/ Prepare(q) \/ SubmitProbe(q) \/ SubmitBatch(q) \/ RejectSourceBatch(q)
           \/ Wait(q) \/ FinishReturns(q) \/ ReleaseReturns(q) \/ CloseWait(q)
           \/ FinishRequest(q) \/ Abandon(q) \/ Close(q)
  <2>1. ses' = ses /\ Apart
    BY <1>3 DEF Prepare, SubmitProbe, SubmitBatch, Enqueue, RejectSourceBatch, Wait, FinishReturns,
                ReleaseReturns, CloseWait, FinishRequest, Abandon, Close, Elsewhere
  <2> QED
    BY <2>1, PagesKept DEF Apart, cacheVars
<1>4. CASE FinishSession(q)
  <2>1. /\ UNCHANGED <<cache, hidden, written, writing, win, tx>>
        /\ req[q].phase = "wait" /\ req[q].futures = <<>>
        /\ terminal'[q] = terminal[q] \/ terminal'[q] # "LOCAL"
        /\ \A r \in Transfers \ {q} : terminal'[r] = terminal[r]
    BY <1>1, <1>4 DEF FinishSession, decoderVars, cacheVars
  <2>2. ses[q].pc \notin {"wait", "raised"}
    BY <2>1, NothingAwaited DEF Owned, SessionOwned, JobPlaces
  <2>3. ses'[q].pc \notin BoundPlaces
    BY <1>1, <1>4 DEF FinishSession, Goto, Sessions, BoundPlaces
  <2> QED
    BY <2>1, <2>2, <2>3, PagesQuiet
<1>5. CASE Release(q)
  <2>1. UNCHANGED <<cache, hidden, written, writing, win, tx, terminal, rpc>>
        /\ ~ses[q].fatal /\ req[q].futures = <<>>
    BY <1>5 DEF Release, ReleaseAllowed, Elsewhere, Apart, cacheVars
  <2>2. ses[q].pc \notin {"wait", "raised"}
    BY <2>1, NothingAwaited DEF Owned, SessionOwned, JobPlaces
  <2>3. CASE ses' = ses
    BY <2>1, <2>3, PagesKept
  <2>4. CASE Goto(q, "aborting")
    <3>1. ses'[q].pc \notin BoundPlaces
      BY <1>1, <2>4 DEF Goto, Sessions, BoundPlaces
    <3> QED
      BY <2>1, <2>2, <3>1, PagesQuiet
  <2> QED
    BY <1>5, <2>1, <2>3, <2>4 DEF Release
<1>6. ASSUME NEW b \in DOMAIN Batches[q],
             \/ BeginJob(q, b) \/ SessionFails(q, b) \/ InheritFatal(q, b)
             \/ WindowSatisfied(q, b) \/ WindowFailed(q, b) \/ JobRaised(q, b)
      PROVE  /\ Pages(q)' /\ UNCHANGED <<cache, hidden, written, writing, win, tx>>
             /\ \A r \in Transfers \ {q} : terminal'[r] = terminal[r]
  <2>1. UNCHANGED <<cache, hidden, written, writing, win, tx, terminal, rpc>>
    BY <1>6 DEF BeginJob, SessionFails, InheritFatal, WindowSatisfied, WindowFailed, JobRaised,
                Elsewhere, Apart, cacheVars
  <2>2. CASE ses' = ses
    BY <2>1, <2>2, PagesKept
  <2>3. CASE ses' # ses
    <3>1. /\ ses[q].pc \notin {"wait", "raised"}
          /\ \/ ses' = [ses EXCEPT ![q].pc = "window", ![q].w = Batch(<<q, b>>).from,
                                   ![q].probe = (Batch(<<q, b>>).kind = "probe")]
             \/ ses' = [ses EXCEPT ![q].pc = "window", ![q].w = @ + 1, ![q].made = {}]
             \/ ses' = [ses EXCEPT ![q].pc = "idle", ![q].made = {}]
      BY <1>6, <2>3 DEF BeginJob, SessionFails, InheritFatal, WindowSatisfied, WindowFailed, JobRaised
    <3>2. ses'[q].pc \in {"window", "idle"}
      BY <1>1, <3>1 DEF Sessions
    <3> QED
      BY <2>1, <3>1, <3>2, PagesQuiet DEF BoundPlaces
  <2> QED
    BY <2>2, <2>3
<1> QED
  BY <1>2, <1>3, <1>4, <1>5, <1>6 DEF CallerStep

-----------------------------------------------------------------------------
(* Pages: what the decoder does *)

\* An answer is an answer to the call in flight, ok only of a transaction that is
\* not unsafe.
LEMMA AnswerGives ==
  ASSUME TypeOK, NEW q \in Transfers, NEW code, NEW hole, NEW made, NEW seen,
         Reply(code, hole, made, seen) \in Replies, Answer(q, Reply(code, hole, made, seen))
  PROVE  /\ rpc'[q].st = "served" /\ (rpc'[q].reply.code = "ok" => code = "ok")
         /\ rpc'[q].reply.seen = seen
<1> DEFINE reply == Reply(code, hole, made, seen)
<1>1. rpc \in [Transfers -> Calls] /\ rpc[q] \in Calls
  BY DEF TypeOK
<1>2. rpc'[q].st = "served"
      /\ rpc'[q].reply = IF tx[q] = "unsafe" THEN [reply EXCEPT !.code = "fatal"] ELSE reply
  BY <1>1 DEF Answer, Calls
<1>3. reply.code = code /\ reply.seen = seen
  BY DEF Reply
<1> HIDE DEF reply
<1>4. reply \in Replies
  BY DEF reply
<1> QED
  BY <1>2, <1>3, <1>4 DEF Replies

\* The service's answers keep what is known of the pages of their transfer.
LEMMA PagesByHandle ==
  ASSUME TypeOK, NEW q \in Transfers, CallMatches(q), Pages(q), Handle(q), UNCHANGED <<writing, sessionVars>>
  PROVE  /\ Pages(q)' /\ written' = written
         /\ \A r \in Transfers \ {q} : /\ win'[r] = win[r] /\ tx'[r] = tx[r]
                                       /\ \A v, k : <<r, v, k>> \in hidden' <=> <<r, v, k>> \in hidden
<1> DEFINE w == rpc[q].w
           Others == \A r \in Transfers \ {q} : /\ win'[r] = win[r] /\ tx'[r] = tx[r]
                                                /\ \A v, k : <<r, v, k>> \in hidden' <=> <<r, v, k>> \in hidden
<1>1. /\ rpc \in [Transfers -> Calls] /\ rpc[q] \in Calls
      /\ DOMAIN win = Transfers /\ win[q] \in [Windows(q) -> WindowStates] /\ tx \in [Transfers -> TxStates]
  BY DEF TypeOK
<1>2. ses' = ses /\ terminal' = terminal
  BY DEF sessionVars
<1>3. rpc'[q].op = rpc[q].op /\ rpc'[q].w = rpc[q].w /\ rpc'[q].arg = rpc[q].arg
  BY HandleTypes DEF SameCall
<1>4. \A code \in {"none", "ok", "reject", "fatal"}, hole \in BOOLEAN, made \in SUBSET Keys,
         seen \in WindowStates \cup TxStates : Reply(code, hole, made, seen) \in Replies
  BY DEF Reply, Replies
<1>5. /\ {"none", "reserved", "armed", "success", "failure"} \subseteq WindowStates
      /\ {"none", "open", "local", "persistent", "cancelled", "unsafe"} \subseteq TxStates
  BY DEF WindowStates, Results, TxStates
<1>6. CASE rpc[q].op \in {"negotiate", "open"} /\ ServeOpen(q)
  <2>1. ses[q].pc \in {"negotiate", "open"}
    BY <1>6, CallWindow
  <2>2. /\ UNCHANGED <<hidden, win, written>> /\ \A r \in Transfers \ {q} : tx'[r] = tx[r]
        /\ tx'[q] = tx[q] \/ (tx[q] = "none" /\ tx'[q] = "open")
    BY <1>1, <1>6 DEF ServeOpen, cacheVars
  <2>3. Reservation(q)' /\ PushArmed(q)' /\ SuccessWritten(q)' /\ LocalCommitted(q)'
    BY <1>2, <2>1, <2>2 DEF Pages, Reservation, PushArmed, SuccessWritten, LocalCommitted, OnlyHidden, Armed
  <2> QED
    BY <2>2, <2>3 DEF Pages
<1>7. CASE rpc[q].op = "probe" /\ ServeProbe(q)
  <2>1. ses[q].pc = "reserve" /\ w = ses[q].w /\ w \in Windows(q) /\ rpc'[q].op = "probe"
    BY <1>3, <1>7, CallWindow
  <2>2. /\ UNCHANGED <<hidden, tx, written>> /\ \A r \in Transfers \ {q} : win'[r] = win[r]
        /\ win'[q] = win[q] \/ (tx[q] = "open" /\ win'[q] = [win[q] EXCEPT ![w] = "reserved"])
    BY <1>1, <1>7 DEF ServeProbe, cacheVars
  <2>3. Reservation(q)' /\ PushArmed(q)' /\ SuccessWritten(q)'
    BY <1>1, <1>2, <2>1, <2>2 DEF Pages, Reservation, PushArmed, SuccessWritten, OnlyHidden
  <2>4. LocalCommitted(q)'
    BY <1>1, <1>2, <2>1, <2>2 DEF Pages, LocalCommitted, Armed
  <2> QED
    BY <2>2, <2>3, <2>4 DEF Pages
<1>8. CASE rpc[q].op = "reserve" /\ ServeReserve(q)
  <2>1. ses[q].pc = "reserve" /\ w = ses[q].w /\ w \in Windows(q) /\ PagesOf[q][w] \subseteq Keys
    BY <1>8, CallWindow, Numbering
  <2>2. written' = written /\ tx' = tx
    BY <1>8 DEF ServeReserve
  <2>3. ASSUME NEW missing \in SUBSET PagesOf[q][w], Allocate(q, w, missing), tx[q] = "open", win[q][w] = "none"
        PROVE  Pages(q)' /\ Others
    <3>1. /\ rpc'[q].reply.made = missing /\ win'[q] = [win[q] EXCEPT ![w] = "reserved"]
          /\ hidden' = hidden \cup {<<q, w, k>> : k \in missing}
          /\ \A r \in Transfers \ {q} : win'[r] = win[r]
      BY <1>1, <2>3 DEF Allocate, Reply, Calls
    <3>2. \A v, k : <<q, v, k>> \in hidden' <=> <<q, v, k>> \in hidden \/ (v = w /\ k \in missing)
      BY <3>1
    <3>3. OnlyHidden(q, w, {})
      BY <2>1, <2>3 DEF Pages, Reservation
    <3>4. Reservation(q)'
      BY <1>1, <1>2, <2>1, <2>3, <3>1, <3>2, <3>3 DEF Pages, Reservation, OnlyHidden, HiddenAt
    <3>5. PushArmed(q)'
      BY <1>2, <2>1 DEF Pages, PushArmed
    <3>6. SuccessWritten(q)'
      BY <1>1, <1>2, <2>1, <2>2, <3>1, <3>2 DEF Pages, SuccessWritten
    <3>7. LocalCommitted(q)'
      BY <1>1, <1>2, <2>1, <2>2, <2>3 DEF Pages, LocalCommitted
    <3> QED
      BY <2>2, <3>1, <3>4, <3>5, <3>6, <3>7 DEF Pages
  <2>4. ASSUME \/ win' = [win EXCEPT ![q][w] = "reserved"] /\ tx[q] = "open" /\ win[q][w] = "none"
                  /\ rpc'[q].reply.hole
               \/ win' = win /\ rpc'[q].reply.code # "ok",
               UNCHANGED hidden
        PROVE  Pages(q)' /\ Others
    <3>1. /\ \A r \in Transfers \ {q} : win'[r] = win[r]
          /\ win'[q] = win[q] \/ (tx[q] = "open" /\ win'[q] = [win[q] EXCEPT ![w] = "reserved"])
      BY <1>1, <2>4
    <3>2. Reservation(q)'
      BY <1>1, <1>2, <2>1, <2>4, <3>1 DEF Pages, Reservation, OnlyHidden, Answered
    <3>3. PushArmed(q)' /\ SuccessWritten(q)'
      BY <1>1, <1>2, <2>1, <2>2, <2>4, <3>1 DEF Pages, PushArmed, SuccessWritten
    <3>4. LocalCommitted(q)'
      BY <1>1, <1>2, <2>1, <2>2, <3>1 DEF Pages, LocalCommitted, Armed
    <3> QED
      BY <2>2, <2>4, <3>1, <3>2, <3>3, <3>4 DEF Pages
  <2>5. Reply("reject", FALSE, {}, "none") \in Replies /\ Reply("ok", TRUE, {}, "reserved") \in Replies
    BY <1>4, <1>5
  <2>6. CASE tx[q] = "open" /\ win[q][w] = "none" /\ PreparePages(q, w)
    <3>1. CASE Allocate(q, w, Missing(q, w))
      BY <2>2, <2>3, <2>6, <3>1 DEF Missing
    <3>2. CASE \E evicted \in SUBSET Cached :
                 LET missing == {k \in PagesOf[q][w] : Reclaim(evicted)[k] = "absent"}
                 IN  \/ Allocate(q, w, missing)
                     \/ /\ win' = [win EXCEPT ![q][w] = "reserved"]
                        /\ rpc' = [rpc EXCEPT ![q].st = "served", ![q].reply = Reply("ok", TRUE, {}, "reserved")]
                        /\ UNCHANGED hidden
      <4>1. PICK evicted \in SUBSET Cached :
                 LET missing == {k \in PagesOf[q][w] : Reclaim(evicted)[k] = "absent"}
                 IN  \/ Allocate(q, w, missing)
                     \/ /\ win' = [win EXCEPT ![q][w] = "reserved"]
                        /\ rpc' = [rpc EXCEPT ![q].st = "served", ![q].reply = Reply("ok", TRUE, {}, "reserved")]
                        /\ UNCHANGED hidden
        BY <3>2
      <4>2. CASE Allocate(q, w, {k \in PagesOf[q][w] : Reclaim(evicted)[k] = "absent"})
        BY <2>2, <2>3, <2>6, <4>2
      <4>3. CASE /\ win' = [win EXCEPT ![q][w] = "reserved"]
                 /\ rpc' = [rpc EXCEPT ![q].st = "served", ![q].reply = Reply("ok", TRUE, {}, "reserved")]
                 /\ UNCHANGED hidden
        <5>1. rpc'[q].reply.hole
          BY <1>1, <4>3 DEF Calls, Reply
        <5> QED
          BY <2>2, <2>4, <2>6, <4>3, <5>1
      <4> QED
        BY <4>1, <4>2, <4>3
    <3>3. CASE RejectReserve(q)
      <4>1. rpc'[q].reply.code # "ok"
        BY <1>1, <3>3 DEF RejectReserve, Calls, Reply
      <4> QED
        BY <2>2, <2>4, <3>3, <4>1 DEF RejectReserve
    <3> QED
      BY <2>6, <3>1, <3>2, <3>3 DEF PreparePages
  <2>7. CASE Answer(q, Reply("reject", FALSE, {}, "none")) /\ UNCHANGED <<cache, hidden, win>>
    <3>1. rpc'[q].reply.code # "ok"
      <4>1. rpc'[q].reply.code = "ok" => "reject" = "ok"
        BY <2>5, <2>7, AnswerGives
      <4> QED
        BY <4>1
    <3> QED
      BY <2>2, <2>4, <2>7, <3>1
  <2> QED
    BY <1>8, <2>6, <2>7 DEF ServeReserve
<1>9. CASE rpc[q].op = "arm" /\ ServeArm(q)
  <2>1. ses[q].pc = "arm" /\ w = ses[q].w /\ w \in Windows(q)
    BY <1>9, CallWindow
  <2> DEFINE ok == tx[q] = "open" /\ win[q][w] = "reserved"
  <2>2. /\ UNCHANGED <<hidden, tx, written>> /\ \A r \in Transfers \ {q} : win'[r] = win[r]
        /\ win'[q] = IF ok THEN [win[q] EXCEPT ![w] = "armed"] ELSE win[q]
    BY <1>1, <1>9 DEF ServeArm, cacheVars
  <2>3. /\ Reply("ok", FALSE, {}, "armed") \in Replies
        /\ Reply("reject", FALSE, {}, "armed") \in Replies
    BY <1>4, <1>5
  <2>4. Answered(q)' => ok
    <3>1. CASE ok
      BY <3>1
    <3>2. CASE ~ok
      <4>1. Answer(q, Reply("reject", FALSE, {}, "armed"))
        BY <1>9, <3>2 DEF ServeArm
      <4>2. rpc'[q].reply.code = "ok" => "reject" = "ok"
        BY <2>3, <4>1, AnswerGives
      <4> QED
        BY <4>2 DEF Answered
    <3> QED
      BY <3>1, <3>2
  <2>5. Reservation(q)'
    BY <1>1, <1>2, <2>1, <2>2 DEF Pages, Reservation, OnlyHidden, HiddenAt
  <2>6. PushArmed(q)'
    BY <1>1, <1>2, <2>1, <2>2, <2>4 DEF Pages, PushArmed, HiddenAt
  <2>7. SuccessWritten(q)'
    BY <1>1, <1>2, <2>1, <2>2 DEF Pages, SuccessWritten
  <2>8. LocalCommitted(q)'
    BY <1>1, <1>2, <2>1, <2>2 DEF Pages, LocalCommitted, Armed
  <2> QED
    BY <2>2, <2>5, <2>6, <2>7, <2>8 DEF Pages
<1>10. CASE rpc[q].op = "report" /\ ServeReport(q)
  <2>1. ses[q].pc = "report" /\ w = ses[q].w /\ w \in Windows(q) /\ rpc[q].arg = ses[q].rc
    BY <1>10, CallWindow
  <2>2. /\ UNCHANGED <<tx, written>> /\ \A r \in Transfers \ {q} : win'[r] = win[r]
        /\ \/ win'[q] = win[q] /\ hidden' = hidden
           \/ /\ win[q][w] = "armed" /\ rpc[q].arg = "success"
              /\ win'[q] = [win[q] EXCEPT ![w] = "success"] /\ hidden' = hidden
           \/ /\ win[q][w] = "armed" /\ rpc[q].arg # "success"
              /\ win'[q] = [win[q] EXCEPT ![w] = "failure"] /\ hidden' = hidden \ HiddenIn(q, w)
    BY <1>1, <1>10 DEF ServeReport
  <2>3. \A r, v, k : /\ <<r, v, k>> \in hidden' => <<r, v, k>> \in hidden
                     /\ r # q => (<<r, v, k>> \in hidden => <<r, v, k>> \in hidden')
    BY <2>2 DEF HiddenIn
  <2>4. Reservation(q)'
    BY <1>1, <1>2, <2>1, <2>2, <2>3 DEF Pages, Reservation, OnlyHidden
  <2>5. PushArmed(q)'
    BY <1>2, <2>1 DEF Pages, PushArmed
  <2>6. SuccessWritten(q)'
    BY <1>1, <1>2, <2>1, <2>2, <2>3 DEF Pages, SuccessWritten, Reservation, OnlyHidden
  <2>7. LocalCommitted(q)'
    BY <1>1, <1>2, <2>1, <2>2 DEF Pages, LocalCommitted, Armed
  <2> QED
    BY <2>2, <2>3, <2>4, <2>5, <2>6, <2>7 DEF Pages
<1>11. CASE rpc[q].op = "status" /\ ServeStatus(q)
  <2> DEFINE seen == IF w # 0 THEN win[q][w] ELSE IF Armed(q) # {} THEN "armed" ELSE tx[q]
  <2>1. /\ ses[q].pc \in {"armStatus", "reportStatus", "finStatus"}
        /\ w = 0 \/ (w = ses[q].w /\ w \in Windows(q))
        /\ ses[q].pc = "armStatus" => w = ses[q].w /\ w \in Windows(q) /\ w # 0
        /\ ses[q].pc = "finStatus" => w = 0
    BY <1>11, CallWindow, Numbering DEF CallMatches, JobPlaces
  <2>2. UNCHANGED <<hidden, tx, written, win>>
    BY <1>11 DEF ServeStatus, cacheVars
  <2>3. seen \in WindowStates \cup TxStates
    BY <1>1, <1>5, <2>1
  <2> HIDE DEF seen
  <2>4. Reply("ok", FALSE, {}, seen) \in Replies /\ Answer(q, Reply("ok", FALSE, {}, seen))
    BY <1>4, <1>11, <2>3 DEF ServeStatus, seen
  <2>5. rpc'[q].reply.seen = seen
    BY <2>4, AnswerGives
  <2>6. Reservation(q)'
    BY <1>1, <1>2, <2>1, <2>2 DEF Pages, Reservation, OnlyHidden, HiddenAt
  <2>7. PushArmed(q)'
    BY <1>1, <1>2, <2>1, <2>2, <2>5 DEF Pages, PushArmed, HiddenAt, seen
  <2>8. SuccessWritten(q)'
    BY <1>1, <1>2, <2>1, <2>2 DEF Pages, SuccessWritten
  <2>9. LocalCommitted(q)'
    BY <1>1, <1>2, <2>1, <2>2, <2>5 DEF Pages, LocalCommitted, Armed, seen
  <2> QED
    BY <2>2, <2>6, <2>7, <2>8, <2>9 DEF Pages
<1>12. CASE rpc[q].op = "finish" /\ ServeFinish(q)
  <2>1. ses[q].pc = "finish"
    BY <1>12, CallWindow
  <2>2. /\ UNCHANGED <<written, win>> /\ \A r \in Transfers \ {q} : tx'[r] = tx[r]
        /\ \/ tx'[q] = tx[q]
           \/ tx[q] = "open" /\ tx'[q] = "local" /\ Armed(q) = {}
           \/ tx[q] = "open" /\ tx'[q] \in {"persistent", "unsafe"}
        /\ tx'[q] \in TxStates
    BY <1>1, <1>5, <1>12 DEF ServeFinish
  <2>3. \A r, v, k : /\ <<r, v, k>> \in hidden' => <<r, v, k>> \in hidden
                     /\ r # q => (<<r, v, k>> \in hidden => <<r, v, k>> \in hidden')
    BY <1>12 DEF ServeFinish, CommitPages, ReleasePages, Releasable, HiddenOf
  <2>4. Reply(IF tx'[q] = "unsafe" THEN "fatal" ELSE "ok", FALSE, {}, tx'[q]) \in Replies
    BY <1>4, <2>2
  <2>5. rpc'[q].reply.seen = tx'[q]
    <3>1. PICK code, seen : /\ code = IF tx'[q] = "unsafe" THEN "fatal" ELSE "ok"
                            /\ seen = tx'[q]
      OBVIOUS
    <3>2. Reply(code, FALSE, {}, seen) \in Replies /\ Answer(q, Reply(code, FALSE, {}, seen))
      BY <1>12, <2>4, <3>1 DEF ServeFinish
    <3>3. rpc'[q].reply.seen = seen
      BY <3>2, AnswerGives
    <3> QED
      BY <3>1, <3>3
  <2>6. Reservation(q)'
    BY <1>2, <1>3, <2>1, <2>2, <2>3 DEF Pages, Reservation, OnlyHidden
  <2>7. PushArmed(q)'
    BY <1>2, <2>1 DEF Pages, PushArmed
  <2>8. SuccessWritten(q)'
    BY <1>2, <2>1, <2>2, <2>3 DEF Pages, SuccessWritten
  <2>9. LocalCommitted(q)'
    BY <1>2, <2>1, <2>2, <2>5 DEF Pages, LocalCommitted, Armed
  <2> QED
    BY <2>2, <2>3, <2>6, <2>7, <2>8, <2>9 DEF Pages
<1>13. CASE rpc[q].op = "abort" /\ ServeAbort(q)
  <2>1. ses[q].pc \in {"preAbort", "finAbort", "abort"}
    BY <1>13, Ledger DEF CallMatches, Places
  <2>2. /\ UNCHANGED <<written, win>> /\ \A r \in Transfers \ {q} : tx'[r] = tx[r]
        /\ tx'[q] = tx[q] \/ (tx[q] \in {"none", "open"} /\ tx'[q] = "cancelled")
    BY <1>1, <1>13 DEF ServeAbort
  <2>3. \A r, v, k : /\ <<r, v, k>> \in hidden' => <<r, v, k>> \in hidden
                     /\ r # q => (<<r, v, k>> \in hidden => <<r, v, k>> \in hidden')
    BY <1>13 DEF ServeAbort, ReleasePages, Releasable, HiddenOf
  <2>4. Reservation(q)' /\ PushArmed(q)'
    BY <1>2, <2>1, <2>2, <2>3 DEF Pages, Reservation, PushArmed, OnlyHidden
  <2>5. SuccessWritten(q)' /\ LocalCommitted(q)'
    BY <1>2, <2>1, <2>2, <2>3 DEF Pages, SuccessWritten, LocalCommitted, Armed
  <2> QED
    BY <2>2, <2>3, <2>4, <2>5 DEF Pages
<1> QED
  BY <1>6, <1>7, <1>8, <1>9, <1>10, <1>11, <1>12, <1>13 DEF Handle

\* So do maintenance, late requests, lost replies and the end of the service.
LEMMA PagesByService ==
  ASSUME TypeOK, \A q \in Transfers : CallMatches(q) /\ Pages(q), ServiceStep, UNCHANGED sessionVars,
         NEW r \in Transfers
  PROVE  Pages(r)'
<1>1. /\ rpc \in [Transfers -> Calls] /\ rpc[r] \in Calls /\ DOMAIN win = Transfers
      /\ \A q \in Transfers : win[q] \in [Windows(q) -> WindowStates]
      /\ tx \in [Transfers -> TxStates]
  BY DEF TypeOK
<1>2. ses' = ses /\ terminal' = terminal
  BY DEF sessionVars
<1>3. CallMatches(r) /\ Pages(r)
  OBVIOUS
<1>4. ASSUME NEW q \in Transfers, Lose(q)
      PROVE  Pages(r)'
  <2>1. UNCHANGED <<hidden, written, writing, win, tx>>
    BY <1>4 DEF Lose, cacheVars
  <2>2. CASE r # q
    <3>1. rpc'[r] = rpc[r]
      BY <1>1, <1>4, <2>2 DEF Lose
    <3> QED
      BY <1>2, <1>3, <2>1, <3>1, PagesKept
  <2>3. CASE r = q
    <3>1. ~Answered(r)'
      BY <1>1, <1>4, <2>3 DEF Lose, Calls, Answered
    <3>2. Reservation(r)'
      BY <1>2, <1>3, <2>1, <3>1 DEF Pages, Reservation, OnlyHidden, HiddenAt
    <3>3. PushArmed(r)' /\ SuccessWritten(r)' /\ LocalCommitted(r)'
      BY <1>2, <1>3, <2>1, <3>1 DEF Pages, PushArmed, SuccessWritten, LocalCommitted, HiddenAt, Armed
    <3> QED
      BY <3>2, <3>3 DEF Pages
  <2> QED
    BY <2>2, <2>3
<1>5. ASSUME NEW q \in Transfers, Maintain(q)
      PROVE  Pages(r)'
  <2>1. /\ UNCHANGED <<written, writing, win, rpc>> /\ \A p \in Transfers \ {q} : tx'[p] = tx[p]
        /\ \/ tx[q] = "open" /\ Armed(q) = {} /\ tx'[q] = "cancelled"
           \/ (Armed(q) # {} \/ tx[q] = "unsafe") /\ tx'[q] = "unsafe" /\ hidden' = hidden
    BY <1>1, <1>5 DEF Maintain
  <2>2. \A p, v, k : /\ <<p, v, k>> \in hidden' => <<p, v, k>> \in hidden
                     /\ p # q => (<<p, v, k>> \in hidden => <<p, v, k>> \in hidden')
    BY <1>5 DEF Maintain, ReleasePages, Releasable, HiddenOf
  <2>3. CASE r # q
    BY <1>2, <1>3, <2>1, <2>2, <2>3, PagesKept
  <2>4. CASE r = q /\ hidden' = hidden
    <3>1. Reservation(r)'
      BY <1>2, <1>3, <2>1, <2>4 DEF Pages, Reservation, OnlyHidden, HiddenAt, Answered
    <3>2. PushArmed(r)' /\ SuccessWritten(r)'
      BY <1>2, <1>3, <2>1, <2>4 DEF Pages, PushArmed, SuccessWritten, HiddenAt, Answered
    <3>3. LocalCommitted(r)'
      BY <1>2, <1>3, <2>1, <2>4 DEF Pages, LocalCommitted, Armed, Answered
    <3> QED
      BY <3>1, <3>2, <3>3 DEF Pages
  <2>5. CASE r = q /\ tx[q] = "open" /\ Armed(q) = {} /\ tx'[q] = "cancelled"
    <3>1. \A v \in Windows(r) : win[r][v] # "armed"
      BY <2>5 DEF Armed
    <3>2. ses[r].pc \in JobPlaces => ses[r].w \in Windows(r)
      BY <1>3 DEF CallMatches
    <3>3. Reservation(r)'
      BY <1>2, <1>3, <2>1, <2>2, <2>5, <3>1, <3>2 DEF Pages, Reservation, OnlyHidden, Answered, JobPlaces
    <3>4. PushArmed(r)'
      BY <1>2, <1>3, <2>1, <2>5, <3>1, <3>2 DEF Pages, PushArmed, Answered, JobPlaces
    <3>5. SuccessWritten(r)'
      BY <1>2, <1>3, <2>1, <2>2, <2>5 DEF Pages, SuccessWritten
    <3>6. LocalCommitted(r)'
      BY <1>2, <1>3, <2>1, <2>5 DEF Pages, LocalCommitted, Armed, Answered
    <3> QED
      BY <3>3, <3>4, <3>5, <3>6 DEF Pages
  <2> QED
    BY <2>1, <2>3, <2>4, <2>5
<1>6. ASSUME NEW q \in Transfers, NEW w \in Windows(q), ServeLate(q, w)
      PROVE  Pages(r)'
  <2>1. /\ UNCHANGED <<written, writing, tx, rpc>> /\ \A p \in Transfers \ {q} : win'[p] = win[p]
        /\ \/ win' = win /\ hidden' = hidden
           \/ /\ tx[q] = "open" /\ win[q][w] = "none" /\ win'[q] = [win[q] EXCEPT ![w] = "reserved"]
              /\ hidden' = hidden \cup {<<q, w, k>> : k \in Missing(q, w)}
           \/ /\ tx[q] = "open" /\ win[q][w] = "reserved" /\ win'[q] = [win[q] EXCEPT ![w] = "armed"]
              /\ hidden' = hidden
    BY <1>1, <1>6 DEF ServeLate
  <2>2. \A p, v, k : /\ <<p, v, k>> \in hidden => <<p, v, k>> \in hidden'
                     /\ <<p, v, k>> \in hidden' => <<p, v, k>> \in hidden \/ (p = q /\ v = w)
    BY <2>1
  <2>3. CASE r # q
    BY <1>2, <1>3, <2>1, <2>2, <2>3, PagesKept
  <2>4. CASE win' = win /\ hidden' = hidden
    BY <1>2, <1>3, <2>1, <2>4, PagesKept
  <2>5. CASE r = q /\ tx[q] = "open" /\ win[q][w] = "none" /\ win'[q] = [win[q] EXCEPT ![w] = "reserved"]
    <3>1. Reservation(r)'
      BY <1>1, <1>2, <1>3, <1>6, <2>1, <2>2, <2>5 DEF Pages, Reservation, OnlyHidden, HiddenAt, Answered
    <3>2. PushArmed(r)'
      BY <1>1, <1>2, <1>3, <1>6, <2>1, <2>2, <2>5 DEF Pages, PushArmed, HiddenAt, Answered
    <3>3. SuccessWritten(r)'
      BY <1>1, <1>2, <1>3, <1>6, <2>1, <2>2, <2>5 DEF Pages, SuccessWritten
    <3>4. LocalCommitted(r)'
      BY <1>1, <1>2, <1>3, <2>1, <2>5 DEF Pages, LocalCommitted, Armed, Answered
    <3> QED
      BY <3>1, <3>2, <3>3, <3>4 DEF Pages
  <2>6. CASE r = q /\ tx[q] = "open" /\ win[q][w] = "reserved" /\ win'[q] = [win[q] EXCEPT ![w] = "armed"]
             /\ hidden' = hidden
    <3>1. Reservation(r)'
      BY <1>1, <1>2, <1>3, <1>6, <2>1, <2>6 DEF Pages, Reservation, OnlyHidden, HiddenAt, Answered
    <3>2. PushArmed(r)'
      BY <1>1, <1>2, <1>3, <1>6, <2>1, <2>6 DEF Pages, PushArmed, HiddenAt, Answered
    <3>3. SuccessWritten(r)'
      BY <1>1, <1>2, <1>3, <1>6, <2>1, <2>6 DEF Pages, SuccessWritten
    <3>4. LocalCommitted(r)'
      BY <1>1, <1>2, <1>3, <2>1, <2>6 DEF Pages, LocalCommitted, Armed, Answered
    <3> QED
      BY <3>1, <3>2, <3>3, <3>4 DEF Pages
  <2> QED
    BY <2>1, <2>3, <2>4, <2>5, <2>6
<1>7. CASE ShutdownService
  <2>1. /\ UNCHANGED <<written, writing, win, rpc>>
        /\ tx'[r] = IF Armed(r) # {} THEN "unsafe" ELSE IF tx[r] = "open" THEN "cancelled" ELSE tx[r]
        /\ \A v, k : <<r, v, k>> \in hidden' <=>
                       <<r, v, k>> \in hidden /\ (win[r][v] = "armed" \/ tx[r] = "unsafe")
    BY <1>7 DEF ShutdownService, ReleaseAtShutdown, netVars
  <2>2. Reservation(r)'
    BY <1>2, <1>3, <2>1 DEF Pages, Reservation, OnlyHidden, HiddenAt, Answered
  <2>3. PushArmed(r)'
    BY <1>2, <1>3, <2>1 DEF Pages, PushArmed, HiddenAt, Answered
  <2>4. SuccessWritten(r)'
    BY <1>2, <1>3, <2>1 DEF Pages, SuccessWritten
  <2>5. LocalCommitted(r)'
    BY <1>2, <1>3, <2>1 DEF Pages, LocalCommitted, Armed, Answered
  <2> QED
    BY <2>2, <2>3, <2>4, <2>5 DEF Pages
<1>8. CASE StopHost \/ \E k \in Keys : Evict(k)
  <2>1. UNCHANGED <<hidden, written, writing, win, tx, rpc>>
    BY <1>8 DEF StopHost, Evict, cacheVars
  <2> QED
    BY <1>2, <1>3, <2>1, PagesKept
<1> QED
  BY <1>4, <1>5, <1>6, <1>7, <1>8 DEF ServiceStep

\* A page is admitted only when its content arrived.
LEMMA Admitted ==
  ASSUME TypeOK, \A k \in Keys : cache[k] # "partial", NEW q \in Transfers, Pages(q),
         Handle(q)
  PROVE  \A k \in Keys : cache'[k] # "partial"
<1>1. CASE cache' = cache
  BY <1>1
<1>2. CASE CommitPages(q) /\ AllSatisfied(q)
  <2>1. \A p \in HiddenOf(q) : p \in written
    <3>1. SUFFICES ASSUME NEW p \in HiddenOf(q)
                   PROVE  p \in written
      OBVIOUS
    <3>2. p = <<q, p[2], p[3]>> /\ p[2] \in Windows(q) /\ p[3] \in Keys /\ p \in hidden
      BY DEF HiddenOf, TypeOK
    <3>3. p \in HiddenIn(q, p[2])
      BY <3>2 DEF HiddenIn, HiddenOf
    <3>4. win[q][p[2]] = "success"
      BY <1>2, <3>2, <3>3 DEF AllSatisfied
    <3> QED
      BY <3>2, <3>4 DEF Pages, SuccessWritten
  <2> QED
    BY <1>2, <2>1 DEF CommitPages
<1>3. CASE \E evicted \in SUBSET Cached : cache' = Reclaim(evicted)
  BY <1>3 DEF Reclaim
<1>4. \/ cache' = cache
      \/ CommitPages(q) /\ AllSatisfied(q)
      \/ \E evicted \in SUBSET Cached : cache' = Reclaim(evicted)
  BY DEF Handle, ServeOpen, ServeProbe, ServeReserve, PreparePages, RejectReserve, ServeArm,
         ServeReport, ServeStatus, ServeFinish, ServeAbort, cacheVars
<1> QED
  BY <1>1, <1>2, <1>3, <1>4

-----------------------------------------------------------------------------
(* Every step keeps what is said of each transfer *)

\* A session leaves alone what others push, have pushed and were told.
LEMMA OthersKept ==
  ASSUME TypeOK, NEW q \in Transfers, SessionStep(q), NEW r \in Transfers \ {q}
  PROVE  /\ terminal'[r] = terminal[r]
         /\ \A v : <<r, v>> \in writing' => <<r, v>> \in writing
         /\ \A v, k : <<r, v, k>> \in written => <<r, v, k>> \in written'
<1>1. terminal \in [Transfers -> Terminals]
  BY DEF TypeOK
<1>2. CASE \/ OpenFirst(q) \/ Negotiated(q) \/ Opened(q) \/ ReserveWindow(q) \/ Probed(q) \/ Reserved(q)
           \/ WindowArmed(q) \/ ResolveAmbiguousArm(q) \/ NativeUnknown(q)
           \/ Report(q) \/ Reported(q) \/ ResolveAmbiguousReport(q) \/ AbortBegin(q) \/ Aborted(q)
  <2>1. Quiet
    BY <1>2 DEF OpenFirst, Negotiated, Opened, ReserveWindow, Probed, Reserved, WindowArmed,
                ResolveAmbiguousArm, NativeUnknown, Report, Reported, ResolveAmbiguousReport, AbortBegin,
                Aborted
  <2> QED
    BY <2>1 DEF Quiet, cacheVars
<1>3. CASE \/ \E persistent \in BOOLEAN : FinishBegin(q, persistent)
           \/ PreAborted(q) \/ Finished(q) \/ ResolveAmbiguousFinish(q) \/ FinishAborted(q)
  <2>1. UNCHANGED <<written, writing>>
    BY <1>3 DEF FinishBegin, PreAborted, Finished, ResolveAmbiguousFinish, FinishAborted, cacheVars
  <2>2. terminal' = terminal \/ \E outcome : terminal' = [terminal EXCEPT ![q] = outcome]
    BY <1>3 DEF FinishBegin, PreAborted, Finished, ResolveAmbiguousFinish, FinishAborted, End
  <2> QED
    BY <1>1, <2>1, <2>2
<1>4. CASE NativeSubmit(q)
  BY <1>4 DEF NativeSubmit, cacheVars
<1>5. CASE \E outcome \in {"complete", "short", "terminal"} : NativeEnds(q, outcome)
  BY <1>5 DEF NativeEnds
<1>6. CASE NativeEndsLater(q)
  BY <1>6 DEF NativeEndsLater, cacheVars, sessionVars
<1> QED
  BY <1>2, <1>3, <1>4, <1>5, <1>6 DEF SessionStep

\* A request that is served changes the answers of its own session only.
LEMMA CallByService ==
  ASSUME TypeOK, \A q \in Transfers : CallMatches(q), Transfers # {},
         ServiceStep \/ \E q \in Transfers : Handle(q),
         ses' = ses, NEW r \in Transfers
  PROVE  CallMatches(r)'
<1>1. \E q \in Transfers : SameCall(q)
  <2>1. CASE \E q \in Transfers : Handle(q)
    BY <2>1, HandleTypes
  <2>2. CASE ServiceStep
    <3>1. \E q \in Transfers : \/ Lose(q) \/ Maintain(q) \/ ShutdownService \/ StopHost
                               \/ \E w \in Windows(q) : ServeLate(q, w)
                               \/ \E k \in Keys : Evict(k)
      BY <2>2 DEF ServiceStep
    <3> QED
      BY <3>1, DecoderTypes
  <2> QED
    BY <2>1, <2>2
<1>2. rpc'[r].op = rpc[r].op /\ rpc'[r].w = rpc[r].w /\ rpc'[r].arg = rpc[r].arg
  BY <1>1 DEF SameCall
<1> QED
  BY <1>2, CallsKept

\* No step of the decoder but the serving of a FINISH admits a page.
LEMMA AdmittedByService ==
  ASSUME TypeOK, ServiceStep, \A k \in Keys : cache[k] # "partial"
  PROVE  \A k \in Keys : cache'[k] # "partial"
<1>1. cache' = cache \/ \E k \in Keys : cache' = [cache EXCEPT ![k] = "absent"]
  BY DEF ServiceStep, Lose, Maintain, ServeLate, ShutdownService, StopHost, Evict, cacheVars
<1> QED
  BY <1>1 DEF TypeOK

\* What is said of one transfer.
Local(q) == Owned(q) /\ CallMatches(q) /\ Pages(q)

\* It stays true of every transfer.
LEMMA LocalStep ==
  ASSUME TypeOK, \A q \in Transfers : Local(q), \A k \in Keys : cache[k] # "partial", PoolQueued,
         [Next]_vars
  PROVE  /\ \A r \in Transfers : Local(r)'
         /\ \A k \in Keys : cache'[k] # "partial"
<1> DEFINE Good == (\A r \in Transfers : Local(r)') /\ \A k \in Keys : cache'[k] # "partial"
<1>1. \A q \in Transfers : Owned(q) /\ CallMatches(q) /\ Pages(q)
  BY DEF Local
<1>2. ASSUME UNCHANGED vars
      PROVE  Good
  <2>1. ses' = ses /\ req' = req /\ job' = job /\ rpc' = rpc /\ terminal' = terminal
        /\ UNCHANGED <<cache, hidden, written, writing, win, tx>>
    BY <1>2 DEF vars, decoderVars, sessionVars, coordVars, cacheVars, netVars
  <2>2. ASSUME NEW r \in Transfers
        PROVE  Owned(r)' /\ CallMatches(r)' /\ Pages(r)'
    BY <1>1, <2>1, OwnedKept, CallsKept, PagesKept
  <2> QED
    BY <2>1, <2>2 DEF Local
<1>3. ASSUME NEW q \in Transfers, Serve(q), UNCHANGED <<sessionVars, coordVars>>
      PROVE  Good
  <2>1. Handle(q) /\ writing' = writing /\ ses' = ses /\ req' = req /\ job' = job /\ terminal' = terminal
        /\ UNCHANGED <<writing, sessionVars>>
    BY <1>3 DEF Serve, sessionVars, coordVars
  <2>2. /\ Pages(q)' /\ written' = written
        /\ \A r \in Transfers \ {q} : /\ win'[r] = win[r] /\ tx'[r] = tx[r]
                                      /\ \A v, k : <<r, v, k>> \in hidden' <=> <<r, v, k>> \in hidden
    BY <1>1, <2>1, PagesByHandle
  <2>3. SameCall(q)
    BY <1>1, <2>1, HandleTypes
  <2>4. ASSUME NEW r \in Transfers
        PROVE  Owned(r)' /\ CallMatches(r)' /\ Pages(r)'
    <3>1. Owned(r)'
      BY <1>1, <2>1, OwnedKept
    <3>2. CallMatches(r)'
      BY <1>1, <2>1, CallByService
    <3>3. CASE r # q
      <4>1. rpc'[r] = rpc[r]
        BY <2>3, <3>3 DEF SameCall
      <4> QED
        BY <1>1, <2>1, <2>2, <3>1, <3>2, <3>3, <4>1, PagesKept
    <3> QED
      BY <2>2, <3>1, <3>2, <3>3
  <2>5. \A k \in Keys : cache'[k] # "partial"
    BY <1>1, <2>1, Admitted
  <2> QED
    BY <2>4, <2>5 DEF Local
<1>4. ASSUME ServiceStep, UNCHANGED <<sessionVars, coordVars>>
      PROVE  Good
  <2>1. ses' = ses /\ req' = req /\ job' = job /\ UNCHANGED sessionVars
    BY <1>4 DEF sessionVars, coordVars
  <2>2. ASSUME NEW r \in Transfers
        PROVE  Owned(r)' /\ CallMatches(r)' /\ Pages(r)'
    <3>1. Owned(r)'
      BY <1>1, <2>1, OwnedKept
    <3>2. CallMatches(r)'
      BY <1>1, <1>4, <2>1, CallByService
    <3>3. Pages(r)'
      BY <1>1, <1>4, <2>1, PagesByService
    <3> QED
      BY <3>1, <3>2, <3>3
  <2> QED
    BY <1>4, <2>2, AdmittedByService DEF Local
<1>5. ASSUME NEW q \in Transfers, SessionStep(q), UNCHANGED coordVars
      PROVE  Good
  <2>1. req' = req /\ job' = job
    BY <1>5 DEF coordVars
  <2>2. SessionMove(q) /\ \A r \in Transfers \ {q} : ses'[r] = ses[r]
    BY <1>5, Moves
  <2>3. CallMatches(q)' /\ \A r \in Transfers \ {q} : rpc'[r] = rpc[r]
    BY <1>1, <1>5, CallBySession
  <2>4. UNCHANGED <<cache, hidden, win, tx>>
    BY <1>5, SessionTypes
  <2>5. Owned(q)' /\ Pages(q)'
    BY <1>1, <1>5, <2>1, <2>2, OwnedByMove, PagesBySession
  <2>6. ASSUME NEW r \in Transfers \ {q}
        PROVE  Owned(r)' /\ CallMatches(r)' /\ Pages(r)'
    <3>1. Owned(r)' /\ CallMatches(r)'
      BY <1>1, <2>1, <2>2, <2>3, OwnedKept, CallsKept
    <3>2. /\ terminal'[r] = terminal[r]
          /\ \A v : <<r, v>> \in writing' => <<r, v>> \in writing
          /\ \A v, k : <<r, v, k>> \in written => <<r, v, k>> \in written'
      BY <1>5, OthersKept
    <3>3. Pages(r)'
      BY <1>1, <2>2, <2>3, <2>4, <3>2, PagesKept
    <3> QED
      BY <3>1, <3>3
  <2>7. \A r \in Transfers : Owned(r)' /\ CallMatches(r)' /\ Pages(r)'
    BY <2>3, <2>5, <2>6
  <2> QED
    BY <2>4, <2>7 DEF Local
<1>6. ASSUME NEW q \in Transfers,
             \/ SelectSources(q)
             \/ \E b \in DOMAIN Batches[q] : \/ BeginJob(q, b) \/ SessionFails(q, b) \/ InheritFatal(q, b)
                                             \/ WindowSatisfied(q, b) \/ WindowFailed(q, b) \/ JobRaised(q, b)
             \/ Prepare(q) \/ SubmitProbe(q) \/ SubmitBatch(q) \/ RejectSourceBatch(q)
             \/ CallerStep(q) \/ FinishRequest(q) \/ Release(q) \/ Abandon(q) \/ Close(q)
      PROVE  Good
  <2>1. Owned(q)' /\ \A r \in Transfers \ {q} : ses'[r] = ses[r] /\ req'[r] = req[r] /\ job'[r] = job[r]
    BY <1>1, <1>6, OwnedByJobs, OwnedByCaller
  <2>2. CallMatches(q)' /\ \A r \in Transfers \ {q} : rpc'[r] = rpc[r]
    BY <1>1, <1>6, CallByCoordinator
  <2>3. /\ Pages(q)' /\ UNCHANGED <<cache, hidden, written, writing, win, tx>>
        /\ \A r \in Transfers \ {q} : terminal'[r] = terminal[r]
    BY <1>1, <1>6, PagesByCoordinator
  <2>4. ASSUME NEW r \in Transfers \ {q}
        PROVE  Owned(r)' /\ CallMatches(r)' /\ Pages(r)'
    BY <1>1, <2>1, <2>2, <2>3, OwnedKept, CallsKept, PagesKept
  <2>5. \A r \in Transfers : Owned(r)' /\ CallMatches(r)' /\ Pages(r)'
    BY <2>1, <2>2, <2>3, <2>4
  <2> QED
    BY <2>3, <2>5 DEF Local
<1>7. ASSUME StartJob
      PROVE  Good
  <2>1. /\ UNCHANGED <<decoderVars, sessionVars, req>> /\ pool # <<>>
        /\ job' = [job EXCEPT ![NextJob[1]][NextJob[2]] = "running"]
    BY <1>7 DEF StartJob
  <2>2. ses' = ses /\ req' = req /\ rpc' = rpc /\ terminal' = terminal
        /\ UNCHANGED <<cache, hidden, written, writing, win, tx>>
    BY <2>1 DEF decoderVars, sessionVars, cacheVars, netVars
  <2>a. PICK q \in Transfers : \E b \in DOMAIN Batches[q] : NextJob = <<q, b>>
    BY <1>7, StartTypes DEF Jobs
  <2>3. PICK b \in DOMAIN Batches[q] : NextJob = <<q, b>>
    BY <2>a
  <2>4. job[q][b] = "queued"
    <3>1. Len(pool) \in Nat /\ 1 \in 1 .. Len(pool) /\ NextJob = pool[1]
      BY <2>1 DEF TypeOK, NextJob
    <3> QED
      BY <2>3, <3>1 DEF PoolQueued
  <2>5. job' = [job EXCEPT ![q][b] = "running"] /\ \A r \in Transfers \ {q} : job'[r] = job[r]
    BY <2>1, <2>3 DEF TypeOK
  <2>6. ASSUME NEW r \in Transfers
        PROVE  Owned(r)'
    BY <1>1, <2>2, <2>4, <2>5, OwnedKept, OwnedByStart
  <2>7. \A r \in Transfers : Owned(r)' /\ CallMatches(r)' /\ Pages(r)'
    BY <1>1, <2>2, <2>6, CallsKept, PagesKept
  <2> QED
    BY <2>2, <2>7 DEF Local
<1>8. Good
  <2> HIDE DEF Good
  <2> QED
    BY <1>2, <1>3, <1>4, <1>5, <1>6, <1>7, Steps
<1> QED
  BY <1>8

-----------------------------------------------------------------------------
(* What is charged, counted *)

\* Finitely many finite sets.
LEMMA FiniteUnions ==
  ASSUME NEW S, IsFiniteSet(S), NEW f, \A x \in S : IsFiniteSet(f[x])
  PROVE  IsFiniteSet(UNION {f[x] : x \in S})
<1> DEFINE T == {f[x] : x \in S}
           g == [x \in S |-> f[x]]
<1>1. g \in [S -> T] /\ \A t \in T : \E x \in S : g[x] = t
  OBVIOUS
<1>2. g \in Surjection(S, T)
  BY <1>1 DEF Surjection
<1>3. IsFiniteSet(T)
  BY <1>2, FS_Surjection
<1> QED
  BY <1>3, FS_UNION

\* An initial segment of the numbers.
LEMMA Segment ==
  ASSUME NEW n \in Int
  PROVE  IsFiniteSet(1 .. n) /\ (n \in Nat => Cardinality(1 .. n) = n)
<1>1. /\ IsFiniteSet(1 .. n)
      /\ Cardinality(1 .. n) = IF 1 > n THEN 0 ELSE n - 1 + 1
  BY FS_Interval
<1> QED
  BY <1>1

\* Jobs of a transfer, and their pages, are finitely many.
LEMMA JobsFinite ==
  ASSUME NEW q \in Transfers, NEW H \in SUBSET DOMAIN Batches[q]
  PROVE  IsFiniteSet(H) /\ IsFiniteSet(UNION {{b} \X JobPages(<<q, b>>) : b \in H})
<1>1. IsFiniteSet(DOMAIN Batches[q])
  <2>1. DOMAIN Batches[q] = 1 .. Len(Batches[q]) /\ Len(Batches[q]) \in Nat
    BY Numbering, CoordinatorAssumption
  <2> QED
    BY <2>1, FS_Interval
<1>2. IsFiniteSet(H)
  BY <1>1, FS_Subset
<1> DEFINE f == [b \in H |-> {b} \X JobPages(<<q, b>>)]
<1>3. ASSUME NEW b \in H
      PROVE  IsFiniteSet(f[b])
  <2>1. IsFiniteSet({b}) /\ IsFiniteSet(JobPages(<<q, b>>))
    BY <1>3, FinitePages, FS_EmptySet, FS_AddElement
  <2>2. IsFiniteSet({b} \X JobPages(<<q, b>>))
    BY <2>1, FS_Product
  <2> QED
    BY <2>2
<1>4. UNION {{b} \X JobPages(<<q, b>>) : b \in H} = UNION {f[b] : b \in H}
  OBVIOUS
<1>5. IsFiniteSet(UNION {f[b] : b \in H})
  <2> HIDE DEF f
  <2> QED
    BY <1>2, <1>3, FiniteUnions
<1> QED
  BY <1>2, <1>4, <1>5

\* So are those that hold capacity, before and after a step.
LEMMA HeldFinite ==
  ASSUME NEW q \in Transfers
  PROVE  /\ IsFiniteSet(Held(q)) /\ Cardinality(Held(q)) \in Nat
         /\ IsFiniteSet(HeldPages(q)) /\ Cardinality(HeldPages(q)) \in Nat
         /\ Cardinality(Held(q)') \in Nat /\ Cardinality(HeldPages(q)') \in Nat
<1>1. Held(q) \in SUBSET DOMAIN Batches[q] /\ Held(q)' \in SUBSET DOMAIN Batches[q]
  BY DEF Held
<1>2. /\ HeldPages(q) = UNION {{b} \X JobPages(<<q, b>>) : b \in Held(q)}
      /\ HeldPages(q)' = UNION {{b} \X JobPages(<<q, b>>) : b \in Held(q)'}
  BY DEF HeldPages
<1>3. IsFiniteSet(Held(q)) /\ IsFiniteSet(HeldPages(q))
  BY <1>1, <1>2, JobsFinite
<1>4. IsFiniteSet(Held(q)') /\ IsFiniteSet(HeldPages(q)')
  BY <1>1, <1>2, JobsFinite
<1> QED
  BY <1>3, <1>4, FS_CardinalityType

\* A set that grows by as many new elements as another has.
LEMMA Grown ==
  ASSUME NEW A, NEW B, IsFiniteSet(A), IsFiniteSet(B), A \cap B = {}
  PROVE  Cardinality(A \cup B) = Cardinality(A) + Cardinality(B)
<1>1. /\ Cardinality(A \cup B) = Cardinality(A) + Cardinality(B) - Cardinality(A \cap B)
      /\ Cardinality(A \cap B) = 0
  BY FS_Union, FS_EmptySet
<1> QED
  BY <1>1, FS_CardinalityType

\* A singleton times a set has as many elements as the set.
LEMMA Labelled ==
  ASSUME NEW x, NEW S, IsFiniteSet(S)
  PROVE  IsFiniteSet({x} \X S) /\ Cardinality({x} \X S) = Cardinality(S)
<1>1. IsFiniteSet({x}) /\ Cardinality({x}) = 1
  BY FS_Singleton
<1>2. IsFiniteSet({x} \X S) /\ Cardinality({x} \X S) = Cardinality({x}) * Cardinality(S)
  BY <1>1, FS_Product
<1> QED
  BY <1>1, <1>2, FS_CardinalityType

\* The pages that are held are those of the jobs that hold some, apart.
LEMMA HeldParts ==
  ASSUME NEW q \in Transfers
  PROVE  /\ \A b : Held(q)' = Held(q) \cup {b} /\ b \notin Held(q) =>
              LET P == {b} \X JobPages(<<q, b>>)
              IN  HeldPages(q)' = HeldPages(q) \cup P /\ HeldPages(q) \cap P = {}
         /\ \A b : Held(q)' = Held(q) \ {b} /\ b \in Held(q) =>
              LET P == {b} \X JobPages(<<q, b>>)
              IN  HeldPages(q)' = HeldPages(q) \ P /\ P \subseteq HeldPages(q)
<1> DEFINE P(b) == {b} \X JobPages(<<q, b>>)
<1>1. \A p : p \in HeldPages(q) <=> \E b \in Held(q) : p \in P(b)
  BY DEF HeldPages
<1>2. \A p : p \in HeldPages(q)' <=> \E b \in Held(q)' : p \in P(b)
  BY DEF HeldPages
<1>3. \A b, c : b # c => P(b) \cap P(c) = {}
  OBVIOUS
<1> HIDE DEF P
<1>4. ASSUME NEW b, Held(q)' = Held(q) \cup {b}, b \notin Held(q)
      PROVE  HeldPages(q)' = HeldPages(q) \cup P(b) /\ HeldPages(q) \cap P(b) = {}
  BY <1>1, <1>2, <1>3, <1>4
<1>5. ASSUME NEW b, Held(q)' = Held(q) \ {b}, b \in Held(q)
      PROVE  HeldPages(q)' = HeldPages(q) \ P(b) /\ P(b) \subseteq HeldPages(q)
  BY <1>1, <1>2, <1>3, <1>5
<1> QED
  BY <1>4, <1>5 DEF P

\* A job that takes capacity.
LEMMA HeldMore ==
  ASSUME TypeOK, NEW q \in Transfers, NEW b \in DOMAIN Batches[q], job[q][b] = "none",
         job' = [job EXCEPT ![q][b] = "queued"]
  PROVE  /\ Cardinality(Held(q)') = Cardinality(Held(q)) + 1
         /\ Cardinality(HeldPages(q)') = Cardinality(HeldPages(q)) + JobBytes(<<q, b>>)
<1>1. \A c \in DOMAIN Batches[q] : job'[q][c] = IF c = b THEN "queued" ELSE job[q][c]
  BY DEF TypeOK
<1>2. Held(q)' = Held(q) \cup {b} /\ b \notin Held(q)
  BY <1>1 DEF Held
<1> DEFINE P == {b} \X JobPages(<<q, b>>)
<1>3. HeldPages(q)' = HeldPages(q) \cup P /\ HeldPages(q) \cap P = {}
  BY <1>2, HeldParts
<1>4. IsFiniteSet(P) /\ Cardinality(P) = JobBytes(<<q, b>>)
  BY FinitePages, Labelled DEF JobBytes
<1> HIDE DEF P
<1>5. Cardinality(HeldPages(q) \cup P) = Cardinality(HeldPages(q)) + JobBytes(<<q, b>>)
  BY <1>3, <1>4, HeldFinite, Grown
<1>6. Cardinality(Held(q) \cup {b}) = Cardinality(Held(q)) + 1
  BY <1>2, HeldFinite, FS_AddElement
<1> QED
  BY <1>2, <1>3, <1>5, <1>6

\* A job that gives its capacity back.
LEMMA HeldLess ==
  ASSUME TypeOK, NEW q \in Transfers, NEW b \in DOMAIN Batches[q], job[q][b] = "running",
         NEW s \in {"done", "fatal"}, job' = [job EXCEPT ![q][b] = s]
  PROVE  /\ Cardinality(Held(q)') = Cardinality(Held(q)) - 1
         /\ Cardinality(HeldPages(q)') = Cardinality(HeldPages(q)) - JobBytes(<<q, b>>)
<1>1. \A c \in DOMAIN Batches[q] : job'[q][c] = IF c = b THEN s ELSE job[q][c]
  BY DEF TypeOK
<1>2. Held(q)' = Held(q) \ {b} /\ b \in Held(q)
  BY <1>1 DEF Held
<1> DEFINE P == {b} \X JobPages(<<q, b>>)
           R == HeldPages(q) \ P
<1>3. HeldPages(q)' = R /\ P \subseteq HeldPages(q)
  BY <1>2, HeldParts
<1>4. IsFiniteSet(P) /\ Cardinality(P) = JobBytes(<<q, b>>)
  BY FinitePages, Labelled DEF JobBytes
<1>5. IsFiniteSet(R) /\ R \cap P = {} /\ R \cup P = HeldPages(q)
  BY <1>3, HeldFinite, FS_Subset
<1> HIDE DEF P, R
<1>6. Cardinality(HeldPages(q)) = Cardinality(R) + JobBytes(<<q, b>>)
  BY <1>4, <1>5, Grown
<1>7. Cardinality(Held(q)') = Cardinality(Held(q)) - 1
  BY <1>2, HeldFinite, FS_RemoveElement
<1>8. Cardinality(R) \in Nat /\ JobBytes(<<q, b>>) \in Nat
  BY <1>5, FS_CardinalityType, FinitePages
<1> QED
  BY <1>3, <1>6, <1>7, <1>8

\* The sum over the transfers follows the transfer that changes.
LEMMA SumFollows ==
  ASSUME TypeOK, NEW q \in Transfers, \A r \in Transfers \ {q} : req'[r] = req[r],
         req[q].bytes \in Nat, req'[q].bytes \in Nat
  PROVE  /\ Cardinality(Charged') = Cardinality(Charged) + (req'[q].bytes - req[q].bytes)
         /\ Cardinality(Charged) \in Nat
<1> DEFINE Others == Transfers \ {q}
           f == [r \in Others |-> {r} \X (1 .. req[r].bytes)]
           Rest == UNION {f[r] : r \in Others}
<1>1. ASSUME NEW r \in Others
      PROVE  IsFiniteSet(f[r])
  <2>1. req[r].bytes \in Int
    BY Ledger
  <2>2. IsFiniteSet(1 .. req[r].bytes)
    BY <2>1, Segment
  <2> QED
    BY <2>2, Labelled
<1>2. IsFiniteSet(Rest)
  <2>1. IsFiniteSet(Others)
    BY DecoderAssumption, FS_Subset
  <2> HIDE DEF f
  <2> QED
    BY <1>1, <2>1, FiniteUnions
<1>3. ASSUME NEW n \in Nat
      PROVE  /\ IsFiniteSet({q} \X (1 .. n)) /\ Cardinality({q} \X (1 .. n)) = n
             /\ Rest \cap ({q} \X (1 .. n)) = {}
  <2>1. IsFiniteSet(1 .. n) /\ Cardinality(1 .. n) = n
    BY Segment
  <2>2. Rest \cap ({q} \X (1 .. n)) = {}
    OBVIOUS
  <2> HIDE DEF Rest
  <2> QED
    BY <2>1, <2>2, Labelled
<1>4. Charged = Rest \cup ({q} \X (1 .. req[q].bytes))
  BY DEF Charged
<1>5. Charged' = Rest \cup ({q} \X (1 .. req'[q].bytes))
  <2>1. Charged' = UNION {{r} \X (1 .. req'[r].bytes) : r \in Transfers}
    BY DEF Charged
  <2>2. \A r \in Others : f[r] = {r} \X (1 .. req'[r].bytes)
    OBVIOUS
  <2> QED
    BY <2>1, <2>2
<1> HIDE DEF Rest
<1>6. ASSUME NEW n \in Nat
      PROVE  Cardinality(Rest \cup ({q} \X (1 .. n))) = Cardinality(Rest) + n
  <2> DEFINE B == {q} \X (1 .. n)
  <2>1. IsFiniteSet(B) /\ Cardinality(B) = n /\ Rest \cap B = {}
    BY <1>3
  <2> HIDE DEF B
  <2>2. Cardinality(Rest \cup B) = Cardinality(Rest) + Cardinality(B)
    BY <1>2, <2>1, Grown
  <2> QED
    BY <2>1, <2>2 DEF B
<1>7. /\ Cardinality(Charged) = Cardinality(Rest) + req[q].bytes
      /\ Cardinality(Charged') = Cardinality(Rest) + req'[q].bytes
  BY <1>4, <1>5, <1>6
<1>8. Cardinality(Rest) \in Nat
  BY <1>2, FS_CardinalityType
<1> QED
  BY <1>7, <1>8

-----------------------------------------------------------------------------
(* The pool *)

\* What the workers' steps do to the jobs: one that runs may end.
LEMMA JobOutcome ==
  ASSUME NEW q \in Transfers,
         \/ SelectSources(q)
         \/ \E b \in DOMAIN Batches[q] : \/ BeginJob(q, b) \/ SessionFails(q, b) \/ InheritFatal(q, b)
                                         \/ WindowSatisfied(q, b) \/ WindowFailed(q, b) \/ JobRaised(q, b)
  PROVE  /\ pool' = pool
         /\ \/ job' = job
            \/ \E b \in DOMAIN Batches[q], s \in {"done", "fatal"} :
                 job[q][b] = "running" /\ job' = [job EXCEPT ![q][b] = s]
<1>1. CASE SelectSources(q)
  BY <1>1 DEF SelectSources, coordVars
<1>2. ASSUME NEW b \in DOMAIN Batches[q],
             \/ BeginJob(q, b) \/ SessionFails(q, b) \/ InheritFatal(q, b)
             \/ WindowSatisfied(q, b) \/ WindowFailed(q, b) \/ JobRaised(q, b)
      PROVE  /\ pool' = pool /\ job[q][b] = "running"
             /\ job' = job \/ \E s \in {"done", "fatal"} : job' = [job EXCEPT ![q][b] = s]
  BY <1>2 DEF BeginJob, SessionFails, InheritFatal, WindowSatisfied, WindowFailed, JobRaised
<1> QED
  BY <1>1, <1>2

\* The next batch of a request that may submit was never submitted.
LEMMA NextIsNew ==
  ASSUME TypeOK, NEW q \in Transfers, Owned(q), CanSubmit(q)
  PROVE  /\ req[q].next \in DOMAIN Batches[q] /\ job[q][req[q].next] = "none"
         /\ NextBatch(q) = <<q, req[q].next>> /\ NextBatch(q) \in Jobs
<1>1. Len(Batches[q]) \in Nat /\ DOMAIN Batches[q] = 1 .. Len(Batches[q])
  BY CoordinatorAssumption, LenProperties, Numbering
<1>2. req[q].next \in DOMAIN Batches[q] /\ req[q].next \in Nat
  BY <1>1, Ledger DEF CanSubmit
<1>3. ~(req[q].next < req[q].next)
  BY <1>2
<1> QED
  BY <1>2, <1>3 DEF Owned, JobsAwaited, NextBatch, Jobs

\* The store thread's steps add at most the next batch of one request.
LEMMA CallerOutcome ==
  ASSUME TypeOK, NEW q \in Transfers,
         \/ Prepare(q) \/ SubmitProbe(q) \/ SubmitBatch(q) \/ RejectSourceBatch(q)
         \/ CallerStep(q) \/ FinishRequest(q) \/ Release(q) \/ Abandon(q) \/ Close(q)
  PROVE  \/ pool' = pool /\ job' = job
         \/ /\ CanSubmit(q) /\ job' = [job EXCEPT ![q][req[q].next] = "queued"]
            /\ pool' = Append(pool, NextBatch(q))
<1>1. CASE SubmitProbe(q) \/ SubmitBatch(q)
  BY <1>1 DEF SubmitProbe, SubmitBatch, Enqueue
<1>2. CASE \/ Prepare(q) \/ RejectSourceBatch(q) \/ FinishRequest(q) \/ Release(q) \/ Abandon(q) \/ Close(q)
  BY <1>2 DEF Prepare, RejectSourceBatch, FinishRequest, Release, Abandon, Close
<1>3. CASE CallerStep(q)
  BY <1>3 DEF CallerStep, Wait, FinishSession, FinishReturns, ReleaseReturns, CloseWait
<1> QED
  BY <1>1, <1>2, <1>3

\* What waits in the pool is queued, once, after every step.
LEMMA PoolStep ==
  ASSUME TypeOK, \A q \in Transfers : Owned(q), PoolQueued, [Next]_vars
  PROVE  PoolQueued'
<1>1. /\ pool \in Seq(Jobs) /\ Len(pool) \in Nat /\ DOMAIN job = Transfers
      /\ \A q \in Transfers : job[q] \in [DOMAIN Batches[q] -> JobStates]
  BY LenProperties DEF TypeOK
<1>2. ASSUME NEW i \in 1 .. Len(pool)
      PROVE  \E q \in Transfers : \E b \in DOMAIN Batches[q] : pool[i] = <<q, b>> /\ job[q][b] = "queued"
  <2>1. pool[i] \in Jobs
    BY <1>1
  <2> QED
    BY <2>1 DEF Jobs, PoolQueued
<1>3. ASSUME pool' = pool, job' = job
      PROVE  PoolQueued'
  BY <1>3 DEF PoolQueued
<1>4. ASSUME NEW q \in Transfers, NEW b \in DOMAIN Batches[q], job[q][b] # "queued", NEW s,
             job' = [job EXCEPT ![q][b] = s]
      PROVE  \A i \in 1 .. Len(pool) : job'[pool[i][1]][pool[i][2]] = "queued" /\ pool[i] # <<q, b>>
  <2>1. ASSUME NEW i \in 1 .. Len(pool)
        PROVE  job'[pool[i][1]][pool[i][2]] = "queued" /\ pool[i] # <<q, b>>
    <3>1. PICK r \in Transfers : \E c \in DOMAIN Batches[r] : pool[i] = <<r, c>> /\ job[r][c] = "queued"
      BY <1>2, <2>1
    <3>2. PICK c \in DOMAIN Batches[r] : pool[i] = <<r, c>> /\ job[r][c] = "queued"
      BY <3>1
    <3>3. <<r, c>> # <<q, b>>
      BY <1>4, <3>2
    <3>4. job'[r][c] = job[r][c]
      BY <1>1, <1>4, <3>3
    <3> QED
      BY <3>2, <3>3, <3>4
  <2> QED
    BY <2>1
<1>5. ASSUME NEW q \in Transfers, NEW b \in DOMAIN Batches[q], job[q][b] # "queued", NEW s,
             job' = [job EXCEPT ![q][b] = s], pool' = pool
      PROVE  PoolQueued'
  <2>1. \A i \in 1 .. Len(pool) : job'[pool[i][1]][pool[i][2]] = "queued"
    BY <1>4, <1>5
  <2> QED
    BY <1>5, <2>1 DEF PoolQueued
<1>6. ASSUME NEW q \in Transfers, CanSubmit(q), job' = [job EXCEPT ![q][req[q].next] = "queued"],
             pool' = Append(pool, NextBatch(q))
      PROVE  PoolQueued'
  <2>1. PICK n \in DOMAIN Batches[q] : n = req[q].next /\ job[q][n] = "none"
    BY <1>6, NextIsNew
  <2>2. pool' = Append(pool, <<q, n>>) /\ <<q, n>> \in Jobs /\ job' = [job EXCEPT ![q][n] = "queued"]
    BY <1>6, <2>1, NextIsNew
  <2>3. \A i \in 1 .. Len(pool) : job'[pool[i][1]][pool[i][2]] = "queued" /\ pool[i] # <<q, n>>
    BY <1>4, <2>1, <2>2
  <2>4. job'[q][n] = "queued"
    BY <1>1, <2>2
  <2>5. /\ Len(pool') = Len(pool) + 1 /\ pool'[Len(pool) + 1] = <<q, n>>
        /\ \A i \in 1 .. Len(pool) : pool'[i] = pool[i]
    BY <1>1, <2>2, AppendProperties
  <2>6. \A i \in 1 .. Len(pool') : i \in 1 .. Len(pool) \/ i = Len(pool) + 1
    BY <1>1, <2>5
  <2>7. \A i \in 1 .. Len(pool') : job'[pool'[i][1]][pool'[i][2]] = "queued"
    BY <2>3, <2>4, <2>5, <2>6
  <2>8. \A i, j \in 1 .. Len(pool') : pool'[i] = pool'[j] => i = j
    BY <2>3, <2>5, <2>6 DEF PoolQueued
  <2> QED
    BY <2>7, <2>8 DEF PoolQueued
<1>7. ASSUME StartJob
      PROVE  PoolQueued'
  <2>1. pool # <<>> /\ pool' = Tail(pool) /\ NextJob = pool[1]
        /\ job' = [job EXCEPT ![NextJob[1]][NextJob[2]] = "running"]
    BY <1>1, <1>7 DEF StartJob, NextJob
  <2>2. /\ Len(pool') = Len(pool) - 1 /\ 1 \in 1 .. Len(pool)
        /\ \A i \in 1 .. Len(pool') : pool'[i] = pool[i + 1] /\ i + 1 \in 1 .. Len(pool) /\ i + 1 # 1
    <3>1. Len(Tail(pool)) = Len(pool) - 1
          /\ \A i \in 1 .. Len(Tail(pool)) : Tail(pool)[i] = pool[i + 1]
      BY <1>1, <2>1, HeadTailProperties
    <3>2. Len(pool) # 0
      BY <1>1, <2>1, EmptySeq
    <3> QED
      BY <1>1, <2>1, <3>1, <3>2
  <2>3. ASSUME NEW i \in 1 .. Len(pool')
        PROVE  job'[pool'[i][1]][pool'[i][2]] = "queued"
    <3>1. pool'[i] = pool[i + 1] /\ i + 1 \in 1 .. Len(pool) /\ pool[i + 1] # pool[1]
      BY <2>2, <2>3 DEF PoolQueued
    <3>2. PICK j \in 1 .. Len(pool) : j = i + 1
      BY <3>1
    <3>3. PICK r \in Transfers : \E c \in DOMAIN Batches[r] : pool[j] = <<r, c>> /\ job[r][c] = "queued"
      BY <1>2, <3>2
    <3>4. PICK c \in DOMAIN Batches[r] : pool[j] = <<r, c>> /\ job[r][c] = "queued"
      BY <3>3
    <3>5. PICK q \in Transfers : \E b \in DOMAIN Batches[q] : pool[1] = <<q, b>>
      BY <1>2, <2>2
    <3>6. PICK b \in DOMAIN Batches[q] : pool[1] = <<q, b>>
      BY <3>5
    <3>7. job' = [job EXCEPT ![q][b] = "running"] /\ <<r, c>> # <<q, b>> /\ pool'[i] = <<r, c>>
      BY <2>1, <3>1, <3>2, <3>4, <3>6
    <3>8. job'[r][c] = "queued"
      BY <1>1, <3>4, <3>7
    <3> QED
      BY <3>7, <3>8
  <2>4. \A i, j \in 1 .. Len(pool') : pool'[i] = pool'[j] => i = j
    <3>1. ASSUME NEW i \in 1 .. Len(pool'), NEW j \in 1 .. Len(pool'), pool'[i] = pool'[j]
          PROVE  i = j
      <4>1. i + 1 = j + 1
        BY <2>2, <3>1 DEF PoolQueued
      <4> QED
        BY <4>1
    <3> QED
      BY <3>1
  <2> QED
    BY <2>3, <2>4 DEF PoolQueued
<1>8. ASSUME UNCHANGED vars \/ UNCHANGED coordVars
      PROVE  PoolQueued'
  BY <1>3, <1>8 DEF vars, coordVars
<1>9. ASSUME NEW q \in Transfers,
             \/ SelectSources(q)
             \/ \E b \in DOMAIN Batches[q] : \/ BeginJob(q, b) \/ SessionFails(q, b) \/ InheritFatal(q, b)
                                             \/ WindowSatisfied(q, b) \/ WindowFailed(q, b) \/ JobRaised(q, b)
      PROVE  PoolQueued'
  BY <1>3, <1>5, <1>9, JobOutcome
<1>10. ASSUME NEW q \in Transfers,
              \/ Prepare(q) \/ SubmitProbe(q) \/ SubmitBatch(q) \/ RejectSourceBatch(q)
              \/ CallerStep(q) \/ FinishRequest(q) \/ Release(q) \/ Abandon(q) \/ Close(q)
       PROVE  PoolQueued'
  BY <1>3, <1>6, <1>10, CallerOutcome
<1> QED
  BY <1>7, <1>8, <1>9, <1>10, Steps

-----------------------------------------------------------------------------
(* The accounts *)

\* Nothing charged, nothing released.
LEMMA QueueKept ==
  ASSUME QueueInv, req' = req, ses' = ses, total' = total, \A q \in Transfers : Held(q)' = Held(q)
  PROVE  QueueInv'
<1>1. ASSUME NEW q \in Transfers
      PROVE  ChargeExact(q)'
  <2>1. HeldPages(q)' = HeldPages(q)
    BY DEF HeldPages
  <2> QED
    BY <2>1 DEF QueueInv, ChargeExact
<1>2. Charged' = Charged
  BY DEF Charged
<1> QED
  BY <1>1, <1>2 DEF QueueInv

\* The account of one transfer changes, with the jobs that hold capacity and with
\* the pages charged for the window in flight; so does the sum.
LEMMA Recharged ==
  ASSUME TypeOK, QueueInv, NEW q \in Transfers, req'[q] \in Requests,
         \A r \in Transfers \ {q} : ses'[r] = ses[r] /\ req'[r] = req[r] /\ job'[r] = job[r],
         NEW h \in Int, NEW p \in Int,
         Cardinality(Held(q)') = Cardinality(Held(q)) + h,
         Cardinality(HeldPages(q)') = Cardinality(HeldPages(q)) + p,
         req'[q].windows = req[q].windows + h,
         req'[q].bytes - req'[q].extra = req[q].bytes - req[q].extra + p,
         req'[q].extra # 0 => ses'[q].pc \in ExtraPlaces,
         total' = total + (req'[q].bytes - req[q].bytes), total' <= MaxBytes
  PROVE  QueueInv'
<1>1. ASSUME NEW r \in Transfers \ {q}
      PROVE  ChargeExact(r)'
  <2>1. Held(r)' = Held(r)
    BY <1>1 DEF Held
  <2>2. HeldPages(r)' = HeldPages(r)
    BY <2>1 DEF HeldPages
  <2> QED
    BY <1>1, <2>1, <2>2 DEF QueueInv, ChargeExact
<1>2. /\ req[q].windows = Cardinality(Held(q)) /\ req[q].bytes = req[q].extra + Cardinality(HeldPages(q))
      /\ total = Cardinality(Charged)
  BY DEF QueueInv, ChargeExact
<1>3. /\ Cardinality(Held(q)) \in Nat /\ Cardinality(HeldPages(q)) \in Nat
      /\ Cardinality(Held(q)') \in Nat /\ Cardinality(HeldPages(q)') \in Nat
  BY HeldFinite
<1>4. /\ req[q].windows \in Int /\ req[q].bytes \in Int /\ req[q].extra \in Nat
      /\ req'[q].windows \in Int /\ req'[q].bytes \in Int /\ req'[q].extra \in Nat
  BY Ledger DEF Requests
<1>5. req'[q].windows = Cardinality(Held(q)') /\ req'[q].bytes = req'[q].extra + Cardinality(HeldPages(q)')
  BY <1>2, <1>3, <1>4
<1>6. ChargeExact(q)'
  BY <1>5 DEF ChargeExact
<1>7. req[q].bytes \in Nat /\ req'[q].bytes \in Nat
  BY <1>2, <1>3, <1>4, <1>5
<1>8. Cardinality(Charged') = Cardinality(Charged) + (req'[q].bytes - req[q].bytes)
  BY <1>7, SumFollows
<1>9. total' = Cardinality(Charged')
  BY <1>2, <1>8
<1> QED
  BY <1>1, <1>6, <1>9 DEF QueueInv

\* A window that charged pages keeps the charge on its way.
LEMMA ExtraMoves ==
  ASSUME TypeOK, NEW q \in Transfers, SessionStep(q), ses[q].pc \in ExtraPlaces
  PROVE  ses'[q].pc \in ExtraPlaces
<1> USE DEF ExtraPlaces, Goto, Abandoned, Fatal
<1>a. ses \in [Transfers -> Sessions]
  BY DEF TypeOK
<1>1. CASE WindowArmed(q)
  BY <1>a, <1>1 DEF Sessions, WindowArmed
<1>2. CASE ResolveAmbiguousArm(q)
  BY <1>a, <1>2 DEF Sessions, ResolveAmbiguousArm
<1>3. CASE NativeSubmit(q)
  BY <1>a, <1>3 DEF Sessions, NativeSubmit
<1>4. CASE \E outcome \in {"complete", "short", "terminal"} : NativeEnds(q, outcome)
  BY <1>a, <1>4 DEF Sessions, NativeEnds
<1>5. CASE NativeUnknown(q)
  BY <1>a, <1>5 DEF Sessions, NativeUnknown
<1>6. CASE NativeEndsLater(q)
  BY <1>6 DEF NativeEndsLater, sessionVars
<1>7. CASE Report(q)
  BY <1>7 DEF Report
<1>8. CASE Reported(q)
  BY <1>a, <1>8 DEF Sessions, Reported
<1>9. CASE ResolveAmbiguousReport(q)
  BY <1>a, <1>9 DEF Sessions, ResolveAmbiguousReport
<1>10. CASE OpenFirst(q) \/ Negotiated(q) \/ Opened(q) \/ ReserveWindow(q) \/ Probed(q) \/ Reserved(q)
  BY <1>10 DEF OpenFirst, Negotiated, Opened, ReserveWindow, Probed, Reserved
<1>11. CASE \/ \E persistent \in BOOLEAN : FinishBegin(q, persistent)
            \/ PreAborted(q) \/ Finished(q) \/ ResolveAmbiguousFinish(q) \/ FinishAborted(q)
            \/ AbortBegin(q) \/ Aborted(q)
  BY <1>11 DEF FinishBegin, PreAborted, Finished, ResolveAmbiguousFinish, FinishAborted, AbortBegin, Aborted
<1> QED
  BY <1>1, <1>2, <1>3, <1>4, <1>5, <1>6, <1>7, <1>8, <1>9, <1>10, <1>11 DEF SessionStep

\* The account after the end of a job.
LEMMA EndCharged ==
  ASSUME TypeOK, QueueInv, NEW q \in Transfers, NEW b \in DOMAIN Batches[q], job[q][b] = "running",
         NEW s \in {"done", "fatal"}, job' = [job EXCEPT ![q][b] = s],
         req'[q] \in Requests, \A r \in Transfers \ {q} : ses'[r] = ses[r] /\ req'[r] = req[r],
         req'[q].windows = req[q].windows - 1,
         \/ /\ req'[q].extra = req[q].extra /\ ses'[q].pc = ses[q].pc
            /\ req'[q].bytes = req[q].bytes - JobBytes(<<q, b>>)
            /\ total' = total - JobBytes(<<q, b>>)
         \/ /\ req'[q].extra = 0
            /\ req'[q].bytes = req[q].bytes - req[q].extra - JobBytes(<<q, b>>)
            /\ total' = total - req[q].extra - JobBytes(<<q, b>>)
  PROVE  QueueInv'
<1> DEFINE n == JobBytes(<<q, b>>)
<1>1. /\ Cardinality(Held(q)') = Cardinality(Held(q)) - 1
      /\ Cardinality(HeldPages(q)') = Cardinality(HeldPages(q)) - n
  BY HeldLess
<1>2. Cardinality(Held(q)) \in Nat /\ Cardinality(HeldPages(q)) \in Nat
  BY HeldFinite
<1>3. n \in Nat
  BY FinitePages
<1>4. \A r \in Transfers \ {q} : job'[r] = job[r]
  BY DEF TypeOK
<1>5. /\ req[q].windows \in Int /\ req[q].bytes \in Int /\ req[q].extra \in Nat /\ total \in Int
      /\ req'[q].windows \in Int /\ req'[q].bytes \in Int /\ req'[q].extra \in Nat
  BY Ledger DEF Requests, TypeOK
<1>6. total <= MaxBytes /\ MaxBytes \in Nat
  BY CoordinatorAssumption DEF QueueInv
<1>7. req'[q].extra # 0 => ses'[q].pc \in ExtraPlaces
  BY DEF QueueInv, ChargeExact
<1> HIDE DEF n
<1>8. /\ req'[q].bytes - req'[q].extra = req[q].bytes - req[q].extra - n
      /\ total' = total + (req'[q].bytes - req[q].bytes) /\ total' <= MaxBytes
  BY <1>3, <1>5, <1>6 DEF n
<1>9. /\ Cardinality(Held(q)') = Cardinality(Held(q)) + (-1)
      /\ Cardinality(HeldPages(q)') = Cardinality(HeldPages(q)) + (-n)
      /\ req'[q].windows = req[q].windows + (-1)
      /\ req'[q].bytes - req'[q].extra = req[q].bytes - req[q].extra + (-n)
      /\ -1 \in Int /\ -n \in Int
  BY <1>1, <1>2, <1>3, <1>5, <1>8
<1> QED
  BY <1>4, <1>7, <1>8, <1>9, Recharged

\* The account of a transfer that keeps its jobs.
LEMMA SameJobs ==
  ASSUME TypeOK, QueueInv, NEW q \in Transfers, req'[q] \in Requests, job'[q] = job[q],
         \A r \in Transfers \ {q} : ses'[r] = ses[r] /\ req'[r] = req[r] /\ job'[r] = job[r],
         req'[q].windows = req[q].windows,
         \/ /\ req'[q].extra = req[q].extra /\ req'[q].bytes = req[q].bytes /\ total' = total
            /\ req[q].extra # 0 => ses'[q].pc \in ExtraPlaces
         \/ /\ req'[q].extra = 0 /\ req'[q].bytes = req[q].bytes - req[q].extra
            /\ total' = total - req[q].extra
         \/ /\ req[q].extra = 0 /\ req'[q].bytes = req[q].bytes + req'[q].extra
            /\ total' = total + req'[q].extra /\ total' <= MaxBytes /\ ses'[q].pc \in ExtraPlaces
  PROVE  QueueInv'
<1>1. Held(q)' = Held(q)
  BY DEF Held
<1>2. HeldPages(q)' = HeldPages(q)
  BY <1>1 DEF HeldPages
<1>3. Cardinality(Held(q)) \in Nat /\ Cardinality(HeldPages(q)) \in Nat
  BY HeldFinite
<1>4. /\ req[q].windows \in Int /\ req[q].bytes \in Int /\ req[q].extra \in Nat /\ total \in Int
      /\ req'[q].windows \in Int /\ req'[q].bytes \in Int /\ req'[q].extra \in Nat
  BY Ledger DEF Requests, TypeOK
<1>5. total <= MaxBytes /\ MaxBytes \in Nat
  BY CoordinatorAssumption DEF QueueInv
<1>6. /\ req'[q].bytes - req'[q].extra = req[q].bytes - req[q].extra + 0
      /\ total' = total + (req'[q].bytes - req[q].bytes) /\ total' <= MaxBytes
      /\ req'[q].windows = req[q].windows + 0
  BY <1>4, <1>5, SMTT(30)
<1>7. /\ Cardinality(Held(q)') = Cardinality(Held(q)) + 0
      /\ Cardinality(HeldPages(q)') = Cardinality(HeldPages(q)) + 0 /\ 0 \in Int
  BY <1>1, <1>2, <1>3
<1>8. req'[q].extra # 0 => ses'[q].pc \in ExtraPlaces
  OBVIOUS
<1> QED
  BY <1>6, <1>7, <1>8, Recharged

\* The workers' steps.
LEMMA QueueByJobs ==
  ASSUME TypeOK, QueueInv, NEW q \in Transfers, Owned(q),
         \/ SelectSources(q)
         \/ \E b \in DOMAIN Batches[q] : \/ BeginJob(q, b) \/ SessionFails(q, b) \/ InheritFatal(q, b)
                                         \/ WindowSatisfied(q, b) \/ WindowFailed(q, b) \/ JobRaised(q, b)
  PROVE  QueueInv'
<1>1. /\ \A r \in Transfers \ {q} : ses'[r] = ses[r] /\ req'[r] = req[r] /\ job'[r] = job[r]
      /\ req' \in [Transfers -> Requests] /\ req'[q] \in Requests
  BY OwnedByJobs, JobTypes
<1>2. /\ req \in [Transfers -> Requests] /\ req[q] \in Requests /\ ses \in [Transfers -> Sessions]
      /\ req[q].windows \in Int /\ req[q].bytes \in Int /\ req[q].extra \in Nat /\ total \in Int
  BY Ledger DEF TypeOK
<1>3. req[q].extra # 0 => ses[q].pc \in ExtraPlaces
  BY DEF QueueInv, ChargeExact
<1>4. CASE SelectSources(q)
  <2>1. PICK n \in Nat : n = Cardinality(ses[q].made)
    BY Ledger, FinitePages
  <2>2. req[q].extra = 0 /\ job' = job
    BY <1>3, <1>4 DEF SelectSources, coordVars, ExtraPlaces
  <2>3. CASE req' = req /\ total' = total
    BY <1>1, <2>2, <2>3, SameJobs
  <2>4. CASE /\ Fits(q, 0, n) /\ Selected(q) /\ total' = total + n
             /\ req' = [req EXCEPT ![q].extra = n, ![q].bytes = @ + n]
    <3>1. req'[q] = [req[q] EXCEPT !.extra = n, !.bytes = req[q].bytes + n]
      BY <1>2, <2>4
    <3>2. req'[q].extra = n /\ req'[q].bytes = req[q].bytes + n /\ req'[q].windows = req[q].windows
      BY <1>2, <3>1 DEF Requests
    <3>3. ses'[q].pc \in ExtraPlaces
      BY <1>2, <2>4 DEF Selected, Goto, Abandoned, ExtraPlaces, Sessions
    <3>4. total' <= MaxBytes
      BY <2>4 DEF Fits
    <3> QED
      BY <1>1, <2>2, <2>4, <3>2, <3>3, <3>4, SameJobs
  <2> QED
    BY <1>4, <2>1, <2>3, <2>4 DEF SelectSources, coordVars
<1>5. ASSUME NEW b \in DOMAIN Batches[q], BeginJob(q, b)
      PROVE  QueueInv'
  <2>1. req[q].extra = 0 /\ job[q][b] = "running"
    BY <1>3, <1>5 DEF BeginJob, ExtraPlaces
  <2>2. CASE UNCHANGED <<req, job, total>>
    BY <1>1, <2>1, <2>2, SameJobs
  <2>3. CASE job' = [job EXCEPT ![q][b] = "done"] /\ ReleaseCapacity(q, b) /\ ses' = ses
    <3>1. /\ req'[q].windows = req[q].windows - 1 /\ req'[q].extra = req[q].extra
          /\ req'[q].bytes = req[q].bytes - JobBytes(<<q, b>>)
          /\ total' = total - JobBytes(<<q, b>>)
      BY <1>2, <2>3 DEF ReleaseCapacity, Requests
    <3> QED
      BY <1>1, <2>1, <2>3, <3>1, EndCharged
  <2> QED
    BY <1>5, <2>2, <2>3 DEF BeginJob
<1>6. ASSUME NEW b \in DOMAIN Batches[q], SessionFails(q, b)
      PROVE  QueueInv'
  <2>1. job[q][b] = "running" /\ job' = [job EXCEPT ![q][b] = "done"] /\ ses' = ses
        /\ total' = total - JobBytes(<<q, b>>)
    BY <1>6 DEF SessionFails
  <2>2. req'[q] = [req[q] EXCEPT !.windows = req[q].windows - 1,
                                 !.bytes = req[q].bytes - JobBytes(<<q, b>>), !.disabled = TRUE]
    BY <1>2, <1>6 DEF SessionFails
  <2>3. /\ req'[q].windows = req[q].windows - 1 /\ req'[q].extra = req[q].extra
        /\ req'[q].bytes = req[q].bytes - JobBytes(<<q, b>>)
    BY <1>2, <2>2 DEF Requests
  <2> QED
    BY <1>1, <2>1, <2>3, EndCharged
<1>7. ASSUME NEW b \in DOMAIN Batches[q], InheritFatal(q, b)
      PROVE  QueueInv'
  <2>1. job[q][b] = "running" /\ job' = [job EXCEPT ![q][b] = "fatal"] /\ ses' = ses
    BY <1>7 DEF InheritFatal
  <2>2. /\ req'[q].windows = req[q].windows - 1 /\ req'[q].extra = req[q].extra
        /\ req'[q].bytes = req[q].bytes - JobBytes(<<q, b>>)
        /\ total' = total - JobBytes(<<q, b>>)
    BY <1>2, <1>7 DEF InheritFatal, ReleaseCapacity, Requests
  <2> QED
    BY <1>1, <2>1, <2>2, EndCharged
<1>8. ASSUME NEW b \in DOMAIN Batches[q],
             \/ (WindowSatisfied(q, b) /\ job' # job) \/ WindowFailed(q, b) \/ JobRaised(q, b)
      PROVE  QueueInv'
  <2>1. /\ job[q][b] = "running" /\ \E s \in {"done", "fatal"} : job' = [job EXCEPT ![q][b] = s]
        /\ total' = total - req[q].extra - JobBytes(<<q, b>>)
    BY <1>8 DEF WindowSatisfied, WindowFailed, JobRaised
  <2>2. \/ req'[q] = [req[q] EXCEPT !.disabled = TRUE, !.extra = 0, !.windows = req[q].windows - 1,
                                    !.bytes = req[q].bytes - req[q].extra - JobBytes(<<q, b>>)]
        \/ req'[q] = [req[q] EXCEPT !.extra = 0, !.windows = req[q].windows - 1,
                                    !.bytes = req[q].bytes - req[q].extra - JobBytes(<<q, b>>)]
    BY <1>2, <1>8 DEF WindowSatisfied, WindowFailed, JobRaised
  <2>3. /\ req'[q].windows = req[q].windows - 1 /\ req'[q].extra = 0
        /\ req'[q].bytes = req[q].bytes - req[q].extra - JobBytes(<<q, b>>)
    BY <1>2, <2>2 DEF Requests
  <2> QED
    BY <1>1, <2>1, <2>3, EndCharged
<1>9. ASSUME NEW b \in DOMAIN Batches[q], WindowSatisfied(q, b), job' = job
      PROVE  QueueInv'
  <2>1. CASE /\ req' = [req EXCEPT ![q].extra = 0, ![q].bytes = @ - req[q].extra]
             /\ total' = total - req[q].extra
    <3>1. req'[q] = [req[q] EXCEPT !.extra = 0, !.bytes = req[q].bytes - req[q].extra]
      BY <1>2, <2>1
    <3>2. /\ req'[q].windows = req[q].windows /\ req'[q].extra = 0
          /\ req'[q].bytes = req[q].bytes - req[q].extra
      BY <1>2, <3>1 DEF Requests
    <3> QED
      BY <1>1, <1>9, <2>1, <3>2, SameJobs
  <2>2. CASE job' = [job EXCEPT ![q][b] = "done"]
    <3>1. job[q][b] = "running" /\ DOMAIN job = Transfers /\ job[q] \in [DOMAIN Batches[q] -> JobStates]
      BY <1>9 DEF WindowSatisfied, TypeOK
    <3>2. job'[q][b] = "done"
      BY <2>2, <3>1
    <3> QED
      BY <1>9, <3>1, <3>2
  <2> QED
    BY <1>9, <2>1, <2>2 DEF WindowSatisfied
<1> QED
  BY <1>4, <1>5, <1>6, <1>7, <1>8, <1>9

\* The store thread's steps.
LEMMA QueueByCaller ==
  ASSUME TypeOK, QueueInv, NEW q \in Transfers, Owned(q),
         \/ Prepare(q) \/ SubmitProbe(q) \/ SubmitBatch(q) \/ RejectSourceBatch(q)
         \/ CallerStep(q) \/ FinishRequest(q) \/ Release(q) \/ Abandon(q) \/ Close(q)
  PROVE  QueueInv'
<1>1. /\ \A r \in Transfers \ {q} : ses'[r] = ses[r] /\ req'[r] = req[r] /\ job'[r] = job[r]
      /\ req' \in [Transfers -> Requests] /\ req'[q] \in Requests
  BY OwnedByCaller, CallerTypes
<1>2. /\ req \in [Transfers -> Requests] /\ req[q] \in Requests /\ ses \in [Transfers -> Sessions]
      /\ req[q].windows \in Int /\ req[q].bytes \in Int /\ req[q].extra \in Nat /\ total \in Int
      /\ req[q].next \in Nat /\ req[q].futures \in Seq(Nat)
  BY Ledger DEF TypeOK
<1>3. req[q].extra # 0 => ses[q].pc \in ExtraPlaces
  BY DEF QueueInv, ChargeExact
<1>4. CASE \/ Prepare(q) \/ RejectSourceBatch(q) \/ CallerStep(q)
           \/ FinishRequest(q) \/ Release(q) \/ Abandon(q) \/ Close(q)
  <2>1. job' = job /\ total' = total
    BY <1>4 DEF Prepare, RejectSourceBatch, FinishRequest, Release, Abandon, Close, CallerStep,
                Wait, FinishSession, FinishReturns, ReleaseReturns, CloseWait
  <2>2. /\ req'[q].windows = req[q].windows /\ req'[q].bytes = req[q].bytes
        /\ req'[q].extra = req[q].extra
    <3>1. CASE Prepare(q) \/ Abandon(q) \/ Close(q)
      BY <1>2, <3>1 DEF Prepare, Abandon, Close, Phase, Requests
    <3>2. CASE RejectSourceBatch(q)
      BY <1>2, <3>2 DEF RejectSourceBatch, Requests
    <3>3. CASE FinishRequest(q) \/ FinishReturns(q) \/ ReleaseReturns(q)
      BY <1>2, <3>3 DEF FinishRequest, FinishReturns, ReleaseReturns, Phase, Requests
    <3>4. CASE FinishSession(q) \/ Release(q)
      BY <1>2, <3>4 DEF FinishSession, Release, Phase, Requests
    <3>5. CASE Wait(q)
      BY <1>2, <3>5 DEF Wait, Requests
    <3>6. CASE CloseWait(q)
      BY <1>2, <3>6 DEF CloseWait, Phase, Requests
    <3> QED
      BY <1>4, <3>1, <3>2, <3>3, <3>4, <3>5, <3>6 DEF CallerStep
  <2>3. req[q].extra # 0 => ses'[q].pc \in ExtraPlaces
    <3>1. CASE ses' = ses
      BY <1>3, <3>1
    <3>2. CASE FinishSession(q) \/ (Release(q) /\ ses' # ses)
      <4>1. req[q].phase = "wait" \/ (Release(q) /\ ses' # ses)
        BY <3>2 DEF FinishSession
      <4>2. req[q].futures = <<>>
        BY <3>2 DEF FinishSession, Release, ReleaseAllowed
      <4>3. ses[q].pc \notin JobPlaces /\ \A b \in DOMAIN Batches[q] : ~Awaited(q, b)
        BY <4>2, NothingAwaited
      <4>4. ses[q].pc # "raised"
        BY <3>2, <4>1, <4>3 DEF Owned, SessionOwned, Release
      <4> QED
        BY <1>3, <4>3, <4>4 DEF ExtraPlaces, JobPlaces
    <3>3. ses' = ses \/ FinishSession(q) \/ Release(q)
      BY <1>4 DEF Prepare, RejectSourceBatch, FinishRequest, Abandon, Close, CallerStep,
                  Wait, FinishReturns, ReleaseReturns, CloseWait
    <3> QED
      BY <3>1, <3>2, <3>3
  <2> QED
    BY <1>1, <2>1, <2>2, <2>3, SameJobs
<1>5. CASE SubmitProbe(q) \/ SubmitBatch(q)
  <2>1. PICK n \in DOMAIN Batches[q] : /\ n = req[q].next /\ job[q][n] = "none"
                                       /\ NextBatch(q) = <<q, n>> /\ CanSubmit(q)
    BY <1>5, NextIsNew DEF SubmitProbe, SubmitBatch
  <2>2. PICK m \in Nat : m = JobBytes(<<q, n>>)
    BY FinitePages
  <2>3. Enqueue(q, m)
    <3>1. CASE SubmitBatch(q)
      BY <2>1, <2>2, <3>1 DEF SubmitBatch
    <3>2. CASE SubmitProbe(q)
      <4>1. Batch(<<q, n>>).kind # "push"
        BY <2>1, <3>2 DEF SubmitProbe
      <4>2. JobBytes(<<q, n>>) = 0
        BY <4>1, FS_EmptySet DEF JobBytes, JobPages
      <4> QED
        BY <2>2, <3>2, <4>2 DEF SubmitProbe
    <3> QED
      BY <1>5, <3>1, <3>2
  <2>4. ses' = ses
    BY <2>3 DEF Enqueue
  <2>5. CASE Fits(q, 1, m)
    <3>1. /\ req' = [req EXCEPT ![q].next = @ + 1, ![q].futures = Append(@, n),
                                ![q].windows = @ + 1, ![q].bytes = @ + m]
          /\ total' = total + m /\ job' = [job EXCEPT ![q][n] = "queued"] /\ total' <= MaxBytes
      BY <2>1, <2>3, <2>5 DEF Enqueue, Fits
    <3>2. req'[q] = [req[q] EXCEPT !.next = n + 1, !.futures = Append(req[q].futures, n),
                                   !.windows = req[q].windows + 1, !.bytes = req[q].bytes + m]
      BY <1>2, <2>1, <3>1
    <3>3. /\ req'[q].windows = req[q].windows + 1 /\ req'[q].bytes = req[q].bytes + m
          /\ req'[q].extra = req[q].extra
      BY <1>2, <3>2 DEF Requests
    <3>4. /\ Cardinality(Held(q)') = Cardinality(Held(q)) + 1
          /\ Cardinality(HeldPages(q)') = Cardinality(HeldPages(q)) + m
      BY <2>1, <2>2, <3>1, HeldMore
    <3>5. /\ req'[q].bytes - req'[q].extra = req[q].bytes - req[q].extra + m
          /\ total' = total + (req'[q].bytes - req[q].bytes)
          /\ 1 \in Int /\ m \in Int
      BY <1>2, <3>1, <3>3
    <3>6. req'[q].extra # 0 => ses'[q].pc \in ExtraPlaces
      BY <1>3, <2>4, <3>3
    <3>7. req'[q].windows = req[q].windows + 1 /\ total' <= MaxBytes
      BY <3>1, <3>3
    <3> QED
      BY <1>1, <3>4, <3>5, <3>6, <3>7, Recharged
  <2>6. CASE ~Fits(q, 1, m)
    <3>1. /\ req' = [req EXCEPT ![q].next = @ + 1, ![q].disabled = TRUE]
          /\ total' = total /\ job' = job
      BY <2>3, <2>6 DEF Enqueue
    <3>2. /\ req'[q].windows = req[q].windows /\ req'[q].bytes = req[q].bytes
          /\ req'[q].extra = req[q].extra
      BY <1>2, <3>1 DEF Requests
    <3> QED
      BY <1>1, <1>3, <2>4, <3>1, <3>2, SameJobs
  <2> QED
    BY <2>5, <2>6
<1> QED
  BY <1>4, <1>5

\* The accounts stay exact.
LEMMA QueueStep ==
  ASSUME TypeOK, \A q \in Transfers : Owned(q), PoolQueued, QueueInv, [Next]_vars
  PROVE  QueueInv'
<1>1. ASSUME UNCHANGED vars \/ (UNCHANGED <<sessionVars, coordVars>>)
      PROVE  QueueInv'
  <2>1. req' = req /\ ses' = ses /\ total' = total /\ job' = job
    BY <1>1 DEF vars, sessionVars, coordVars
  <2>2. \A q \in Transfers : Held(q)' = Held(q)
    BY <2>1 DEF Held
  <2> QED
    BY <2>1, <2>2, QueueKept
<1>2. ASSUME NEW q \in Transfers, SessionStep(q), UNCHANGED coordVars
      PROVE  QueueInv'
  <2>1. req' = req /\ total' = total /\ job' = job
    BY <1>2 DEF coordVars
  <2>2. \A r \in Transfers \ {q} : ses'[r] = ses[r]
    BY <1>2, Moves
  <2>3. req[q].extra # 0 => ses'[q].pc \in ExtraPlaces
    BY <1>2, ExtraMoves DEF QueueInv, ChargeExact
  <2> QED
    BY <2>1, <2>2, <2>3, Ledger, SameJobs
<1>3. ASSUME StartJob
      PROVE  QueueInv'
  <2>1. /\ req' = req /\ ses' = ses /\ total' = total /\ pool # <<>>
        /\ job' = [job EXCEPT ![NextJob[1]][NextJob[2]] = "running"]
    BY <1>3 DEF StartJob, sessionVars
  <2>2. PICK q \in Transfers : \E b \in DOMAIN Batches[q] : NextJob = <<q, b>>
    BY <1>3, StartTypes DEF Jobs
  <2>3. PICK b \in DOMAIN Batches[q] : NextJob = <<q, b>>
    BY <2>2
  <2>4. job[q][b] = "queued"
    <3>1. Len(pool) \in Nat /\ 1 \in 1 .. Len(pool) /\ NextJob = pool[1]
      BY <2>1 DEF TypeOK, NextJob
    <3> QED
      BY <2>3, <3>1 DEF PoolQueued
  <2>5. \A r \in Transfers : \A c :
        /\ <<r, c>> # <<q, b>> => job'[r][c] = job[r][c]
        /\ <<r, c>> = <<q, b>> => job'[r][c] = "running"
    BY <2>1, <2>3 DEF TypeOK
  <2>6. \A r \in Transfers : Held(r)' = Held(r)
    BY <2>4, <2>5 DEF Held
  <2> QED
    BY <2>1, <2>6, QueueKept
<1>4. ASSUME NEW q \in Transfers,
             \/ SelectSources(q)
             \/ \E b \in DOMAIN Batches[q] : \/ BeginJob(q, b) \/ SessionFails(q, b) \/ InheritFatal(q, b)
                                             \/ WindowSatisfied(q, b) \/ WindowFailed(q, b) \/ JobRaised(q, b)
      PROVE  QueueInv'
  BY <1>4, QueueByJobs
<1>5. ASSUME NEW q \in Transfers,
             \/ Prepare(q) \/ SubmitProbe(q) \/ SubmitBatch(q) \/ RejectSourceBatch(q)
             \/ CallerStep(q) \/ FinishRequest(q) \/ Release(q) \/ Abandon(q) \/ Close(q)
      PROVE  QueueInv'
  BY <1>5, QueueByCaller
<1> QED
  BY <1>1, <1>2, <1>3, <1>4, <1>5, Steps

-----------------------------------------------------------------------------
(* The inductive invariant and the theorems *)

IInv == TypeOK /\ SessionInv /\ PageInv /\ PoolQueued /\ QueueInv

\* The invariant, transfer by transfer.
LEMMA ByTransfer ==
  SessionInv /\ PageInv <=> /\ \A q \in Transfers : Local(q)
                            /\ \A k \in Keys : cache[k] # "partial"
  BY DEF SessionInv, PageInv, Local, Owned, Pages

\* In the beginning nothing was submitted, called, reserved or charged.
LEMMA InitTypes ==
  ASSUME Init
  PROVE  TypeOK
<1>1. cache \in [Keys -> {"absent", "full", "partial"}] /\ hidden = {} /\ written = {} /\ writing = {}
  BY DEF Init, DecoderInit
<1>2. /\ win = [q \in Transfers |-> [w \in Windows(q) |-> "none"]]
      /\ tx = [q \in Transfers |-> "none"] /\ rpc = [q \in Transfers |-> Idle]
      /\ ses = [q \in Transfers |-> NoSession] /\ terminal = [q \in Transfers |-> "none"]
      /\ job = [q \in Transfers |-> [b \in DOMAIN Batches[q] |-> "none"]] /\ pool = <<>> /\ total = 0
  BY DEF Init, DecoderInit, SessionInit
<1>3. Idle \in Calls
  BY DEF Idle, NoReply, Reply, Calls, Replies, Ops, Results, WindowStates, TxStates
<1>4. NoSession \in Sessions
  BY DEF NoSession, Sessions, Places, Results
<1>5. /\ "none" \in WindowStates /\ "none" \in TxStates /\ "none" \in Terminals /\ "none" \in JobStates
  BY DEF WindowStates, Results, TxStates, Terminals, JobStates
<1>6. req \in [Transfers -> Requests]
  <2>1. PICK active : req = [q \in Transfers |->
            [phase |-> IF q \in active THEN "new" ELSE "absent", next |-> 1, disabled |-> FALSE,
             futures |-> <<>>, windows |-> 0, bytes |-> 0, extra |-> 0]]
    BY DEF Init
  <2>2. <<>> \in Seq(Nat) /\ "new" \in Phases /\ "absent" \in Phases
    BY DEF Phases
  <2>3. \A phase \in Phases : [phase |-> phase, next |-> 1, disabled |-> FALSE, futures |-> <<>>,
                               windows |-> 0, bytes |-> 0, extra |-> 0] \in Requests
    BY <2>2 DEF Requests
  <2> QED
    BY <2>1, <2>2, <2>3
<1>7. pool \in Seq(Jobs) /\ total \in Int
  BY <1>2
<1>8. /\ \A q \in Transfers : win[q] \in [Windows(q) -> WindowStates]
      /\ \A q \in Transfers : job[q] \in [DOMAIN Batches[q] -> JobStates]
  BY <1>2, <1>5
<1> QED
  BY <1>1, <1>2, <1>3, <1>4, <1>5, <1>6, <1>7, <1>8 DEF TypeOK

\* No session was created, no call made and nothing reserved.
LEMMA InitLocal ==
  ASSUME Init
  PROVE  SessionInv /\ PageInv
<1>1. /\ hidden = {} /\ written = {} /\ writing = {}
      /\ \A k \in Keys : cache[k] # "partial"
  BY DEF Init, DecoderInit
<1>2. ASSUME NEW q \in Transfers
      PROVE  /\ ses[q].pc = "none" /\ ~ses[q].fatal /\ rpc[q].op = "none" /\ tx[q] = "none"
             /\ terminal[q] = "none" /\ req[q].futures = <<>> /\ req[q].phase \in {"new", "absent"}
             /\ \A b \in DOMAIN Batches[q] : job[q][b] = "none"
             /\ \A w \in Windows(q) : win[q][w] = "none"
  BY DEF Init, DecoderInit, SessionInit, Idle, NoSession
<1>3. ASSUME NEW q \in Transfers
      PROVE  JobsAwaited(q) /\ SessionOwned(q) /\ CallMatches(q)
  <2>1. JobsAwaited(q)
    BY <1>2 DEF JobsAwaited
  <2>2. SessionOwned(q)
    BY <1>2 DEF SessionOwned, JobPlaces, FinishPlaces, AbortPlaces
  <2>3. CallMatches(q)
    BY <1>2 DEF CallMatches, JobPlaces
  <2> QED
    BY <2>1, <2>2, <2>3
<1>4. ASSUME NEW q \in Transfers
      PROVE  Reservation(q) /\ PushArmed(q) /\ SuccessWritten(q) /\ LocalCommitted(q)
  <2>1. Reservation(q)
    BY <1>1, <1>2 DEF Reservation, OnlyHidden
  <2>2. PushArmed(q)
    BY <1>1, <1>2 DEF PushArmed
  <2>3. SuccessWritten(q)
    BY <1>1, <1>2 DEF SuccessWritten
  <2>4. LocalCommitted(q)
    BY <1>2 DEF LocalCommitted
  <2> QED
    BY <2>1, <2>2, <2>3, <2>4
<1> QED
  BY <1>1, <1>3, <1>4 DEF SessionInv, PageInv

\* No job holds capacity.
LEMMA InitQueue ==
  ASSUME Init
  PROVE  PoolQueued /\ QueueInv
<1>1. pool = <<>> /\ total = 0
  BY DEF Init
<1>2. ASSUME NEW q \in Transfers
      PROVE  /\ req[q].windows = 0 /\ req[q].bytes = 0 /\ req[q].extra = 0
             /\ \A b \in DOMAIN Batches[q] : job[q][b] = "none"
  BY DEF Init
<1>3. ASSUME NEW q \in Transfers
      PROVE  ChargeExact(q)
  <2>1. Held(q) = {}
    BY <1>2 DEF Held
  <2>2. HeldPages(q) = {}
    BY <2>1 DEF HeldPages
  <2> QED
    BY <1>2, <2>1, <2>2, FS_EmptySet DEF ChargeExact
<1>4. Charged = {}
  <2>1. ASSUME NEW q \in Transfers
        PROVE  {q} \X (1 .. req[q].bytes) = {}
    <3>1. 1 .. req[q].bytes = {}
      BY <1>2
    <3> QED
      BY <3>1
  <2> QED
    BY <2>1 DEF Charged
<1>5. total = Cardinality(Charged) /\ total <= MaxBytes
  BY <1>1, <1>4, FS_EmptySet, CoordinatorAssumption
<1>6. PoolQueued
  <2>1. 1 .. Len(pool) = {}
    BY <1>1
  <2> QED
    BY <2>1 DEF PoolQueued
<1> QED
  BY <1>3, <1>5, <1>6 DEF QueueInv

\* The invariant holds in every reachable state.
LEMMA Invariance == Spec => []IInv
<1>1. Init => IInv
  BY InitTypes, InitLocal, InitQueue DEF IInv
<1>2. IInv /\ [Next]_vars => IInv'
  <2> SUFFICES ASSUME IInv, [Next]_vars
               PROVE  IInv'
    OBVIOUS
  <2>1. /\ TypeOK /\ PoolQueued /\ QueueInv
        /\ \A q \in Transfers : Local(q)
        /\ \A k \in Keys : cache[k] # "partial"
    BY ByTransfer DEF IInv
  <2>2. \A q \in Transfers : Owned(q) /\ CallMatches(q)
    BY <2>1 DEF Local
  <2>3. TypeOK'
    BY <2>1, <2>2, TypeStep
  <2>4. (\A r \in Transfers : Local(r)') /\ \A k \in Keys : cache'[k] # "partial"
    BY <2>1, LocalStep
  <2>5. PoolQueued' /\ QueueInv'
    BY <2>1, <2>2, PoolStep, QueueStep
  <2>6. (SessionInv /\ PageInv)'
    BY <2>4 DEF SessionInv, PageInv, Local, Owned, Pages
  <2> QED
    BY <2>3, <2>5, <2>6 DEF IInv
<1> QED
  BY <1>1, <1>2, PTL DEF Spec

\* Every variable stays in its type: run() and the service thread only ever write
\* states, replies and counters of these ranges, and only to windows and jobs that
\* exist.
THEOREM TypesAlwaysHold == Spec => []TypeOK
<1>1. IInv => TypeOK
  BY DEF IInv
<1> QED
  BY <1>1, Invariance, PTL

\* While a native push may run, its pages are hidden on the decoder and its sources
\* belong to a request that was not released (submit to the native engine in
\* remote_fill_producer.py, _HiddenPage.release, release() of the coordinator).
THEOREM PushAlwaysOwnsPages == Spec => []PushOwnsPages
<1>1. IInv => PushOwnsPages
  <2> SUFFICES ASSUME IInv, NEW q \in Transfers, NEW w \in Windows(q), <<q, w>> \in writing
               PROVE  /\ {<<q, w, k>> : k \in ses[q].made} \subseteq hidden
                      /\ req[q].phase # "released"
    BY DEF PushOwnsPages
  <2>1. SessionOwned(q) /\ PushArmed(q)
    BY DEF IInv, SessionInv, PageInv
  <2>2. w = ses[q].w /\ ses[q].pc \in {"wait", "raised"} /\ HiddenAt(q, w, ses[q].made)
    BY <2>1 DEF PushArmed
  <2>3. req[q].phase # "released"
    BY <2>1, <2>2 DEF SessionOwned
  <2> QED
    BY <2>2, <2>3 DEF HiddenAt
<1> QED
  BY <1>1, Invariance, PTL

\* Only pages that arrived completely are admitted to the cache, and LOCAL is said
\* of committed transfers only (commit_pages, _classify_terminal).
THEOREM AdmittedAlwaysComplete == Spec => []AdmittedIsComplete
<1>1. IInv => AdmittedIsComplete
  BY DEF IInv, PageInv, LocalCommitted, AdmittedIsComplete
<1> QED
  BY <1>1, Invariance, PTL

\* The accounting of the queue is exact: run() gives back what submission took,
\* once, and the global limit holds (_acquire_queue_capacity, _release_queue_capacity).
THEOREM QueueAlwaysExact == Spec => []QueueExact
<1>1. IInv => QueueExact
  BY DEF IInv, QueueInv, ChargeExact, QueueExact
<1> QED
  BY <1>1, Invariance, PTL

=============================================================================
