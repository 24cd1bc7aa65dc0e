-------------------------- MODULE RemoteFillSession --------------------------
(***************************************************************************)
(* Remote fill, producer session (remote_fill_producer.py): the prefiller  *)
(* opens a transaction, pushes window after window (reserve, arm, native   *)
(* write, report), and finishes or aborts.  A lost reply before ARM only   *)
(* costs the direct path; from ARM on, what cannot be proved with STATUS   *)
(* is fatal, because a native write may own pages on both sides.           *)
(***************************************************************************)
EXTENDS RemoteFillDecoder

VARIABLES
  ses,        \* ses[q]: [pc, w, probe, opened, viable, unknown, fatal, made, rc]
  terminal,   \* terminal[q]: none, LOCAL, PERSISTENT, CANCELLED, FAILED
  negotiated  \* RemoteFillNegotiationCache knows the decoder's layout

sessionVars == <<ses, terminal, negotiated>>

NoSession == [pc |-> "none", w |-> 0, probe |-> FALSE, opened |-> FALSE, viable |-> TRUE,
              unknown |-> FALSE, fatal |-> FALSE, made |-> {}, rc |-> "none"]

Call(q, op, w, arg) ==
  rpc' = [rpc EXCEPT ![q] = [op |-> op, w |-> w, arg |-> arg, st |-> "sent", reply |-> NoReply]]
HangUp(q) == rpc' = [rpc EXCEPT ![q] = Idle]
Replied(q, op) == rpc[q].op = op /\ rpc[q].st = "served"
LostReply(q, op) == rpc[q].op = op /\ rpc[q].st = "lost"
ReplyOf(q) == rpc[q].reply
Goto(q, where) == ses' = [ses EXCEPT ![q].pc = where]

\* The window ends without the direct path; later windows are not tried.
Abandoned(q) == ses' = [ses EXCEPT ![q].pc = "failed", ![q].viable = FALSE]

\* _abandoned_window after an exception before ARM
PrearmUnknown(q) ==
  ses' = [ses EXCEPT ![q].pc = "failed", ![q].viable = FALSE, ![q].unknown = TRUE]

\* fatal_restart_required, and RemoteFillFatalError for the caller
Fatal(q) == ses' = [ses EXCEPT ![q].pc = "raised", ![q].viable = FALSE, ![q].fatal = TRUE]

Quiet == UNCHANGED <<cacheVars, writing, win, tx, host, late, terminal>>

-----------------------------------------------------------------------------
(* open() *)

\* The window to probe or transfer is set by the job that runs it.
OpenFirst(q) ==
  /\ ses[q].pc = "window" /\ ses[q].viable /\ ~ses[q].opened
  /\ IF negotiated
     THEN Call(q, "open", 0, "none") /\ Goto(q, "open")
     ELSE Call(q, "negotiate", 0, "none") /\ Goto(q, "negotiate")
  /\ Quiet /\ Fine /\ UNCHANGED negotiated

Negotiated(q) ==
  /\ ses[q].pc = "negotiate"
  /\ \/ /\ Replied(q, "negotiate") /\ ReplyOf(q).code = "ok"
        /\ negotiated' = TRUE
        /\ Call(q, "open", 0, "none") /\ Goto(q, "open")
     \/ /\ Replied(q, "negotiate") /\ ReplyOf(q).code = "reject"
        /\ HangUp(q) /\ Abandoned(q) /\ UNCHANGED negotiated
     \/ /\ Replied(q, "negotiate") /\ ReplyOf(q).code = "fatal"
        /\ HangUp(q) /\ Fatal(q) /\ UNCHANGED negotiated
     \/ /\ LostReply(q, "negotiate")
        /\ HangUp(q) /\ PrearmUnknown(q) /\ UNCHANGED negotiated
  /\ Quiet /\ Fine

Opened(q) ==
  /\ ses[q].pc = "open"
  /\ \/ /\ Replied(q, "open") /\ ReplyOf(q).code = "ok"
        /\ ses' = [ses EXCEPT ![q].pc = "window", ![q].opened = TRUE]
     \/ Replied(q, "open") /\ ReplyOf(q).code = "reject" /\ Abandoned(q)
     \/ Replied(q, "open") /\ ReplyOf(q).code = "fatal" /\ Fatal(q)
     \/ LostReply(q, "open") /\ PrearmUnknown(q)
  /\ HangUp(q) /\ Quiet /\ Fine /\ UNCHANGED negotiated

-----------------------------------------------------------------------------
(* probe_window and transfer_window *)

\* Source coverage and preparation come before RESERVE.
ReserveWindow(q) ==
  /\ ses[q].pc = "window" /\ ses[q].viable /\ ses[q].opened
  /\ \/ /\ Call(q, IF ses[q].probe THEN "probe" ELSE "reserve", ses[q].w, "none")
        /\ Goto(q, "reserve") /\ Fine
     \/ ~ses[q].probe /\ Abandoned(q) /\ UNCHANGED rpc /\ Fault
  /\ Quiet /\ UNCHANGED negotiated

Probed(q) ==
  /\ ses[q].pc = "reserve" /\ ses[q].probe
  /\ \/ /\ Replied(q, "probe") /\ ReplyOf(q).code = "ok" /\ ~ReplyOf(q).hole
        /\ Goto(q, "satisfied")
     \/ /\ Replied(q, "probe") /\ (ReplyOf(q).code = "reject" \/ ReplyOf(q).hole)
        /\ Abandoned(q)
     \/ Replied(q, "probe") /\ ReplyOf(q).code = "fatal" /\ Fatal(q)
     \/ LostReply(q, "probe") /\ PrearmUnknown(q)
  /\ HangUp(q) /\ Quiet /\ Fine /\ UNCHANGED negotiated

\* No descriptor: every page is there.  Otherwise the descriptors are kept.
Reserved(q) ==
  /\ ses[q].pc = "reserve" /\ ~ses[q].probe
  /\ \/ /\ Replied(q, "reserve") /\ ReplyOf(q).code = "ok" /\ ~ReplyOf(q).hole
        /\ IF ReplyOf(q).made = {}
           THEN Goto(q, "satisfied")
           ELSE ses' = [ses EXCEPT ![q].pc = "select", ![q].made = ReplyOf(q).made]
     \/ /\ Replied(q, "reserve") /\ (ReplyOf(q).code = "reject" \/ ReplyOf(q).hole)
        /\ Abandoned(q)
     \/ Replied(q, "reserve") /\ ReplyOf(q).code = "fatal" /\ Fatal(q)
     \/ LostReply(q, "reserve") /\ PrearmUnknown(q)
  /\ HangUp(q) /\ Quiet /\ Fine /\ UNCHANGED negotiated

\* Descriptors are validated against the control pages and the sources selected;
\* a mismatch, or a source factory that finds no queue capacity, abandons.
Selected(q) ==
  /\ ses[q].pc = "select"
  /\ \/ Call(q, "arm", ses[q].w, "none") /\ Goto(q, "arm") /\ Fine
     \/ Abandoned(q) /\ UNCHANGED rpc /\ Fault
  /\ Quiet /\ UNCHANGED negotiated

WindowArmed(q) ==
  /\ ses[q].pc = "arm"
  /\ \/ Replied(q, "arm") /\ ReplyOf(q).code = "ok" /\ Goto(q, "native") /\ HangUp(q)
     \/ Replied(q, "arm") /\ ReplyOf(q).code = "reject" /\ Abandoned(q) /\ HangUp(q)
     \/ Replied(q, "arm") /\ ReplyOf(q).code = "fatal" /\ Fatal(q) /\ HangUp(q)
     \/ LostReply(q, "arm") /\ Goto(q, "armStatus") /\ Call(q, "status", ses[q].w, "none")
  /\ Quiet /\ Fine /\ UNCHANGED negotiated

\* Mutant: a window that is still only reserved counts as armed.
NotRefuted(q) == Replied(q, "status") /\ ReplyOf(q).seen \in {"reserved", "armed"}

\* STATUS must show this attempt armed.
ProvedArmed(q) == Replied(q, "status") /\ ReplyOf(q).code = "ok" /\ ReplyOf(q).seen = "armed"

ResolveAmbiguousArm(q) ==
  /\ ses[q].pc = "armStatus" /\ rpc[q].st \in {"served", "lost"}
  /\ IF ProvedArmed(q) THEN Goto(q, "native") ELSE Fatal(q)
  /\ HangUp(q) /\ Quiet /\ Fine /\ UNCHANGED negotiated

\* The native engine takes the job; until it ends it may write the pages.
NativeSubmit(q) ==
  /\ ses[q].pc = "native"
  /\ \/ writing' = writing \cup {<<q, ses[q].w>>} /\ Goto(q, "wait") /\ Fine
     \/ /\ ses' = [ses EXCEPT ![q].pc = "report", ![q].rc = "failure"]
        /\ UNCHANGED writing /\ Fault
  /\ UNCHANGED <<cacheVars, win, tx, host, rpc, late, terminal, negotiated>>

\* Mutant: the number of bytes is not compared.
ReturnCodeOnly(outcome) == IF outcome = "terminal" THEN "failure" ELSE "success"

\* Another attempt's result, or too few bytes, is a failure.
ReturnCode(outcome) == IF outcome = "complete" THEN "success" ELSE "failure"

\* The write ends: complete, short, or with a known terminal error ...
NativeEnds(q, outcome) ==
  /\ ses[q].pc = "wait" /\ IF outcome = "complete" THEN Fine ELSE Fault
  /\ writing' = writing \ {<<q, ses[q].w>>}
  /\ written' = IF outcome = "complete"
                THEN written \cup {<<q, ses[q].w, k>> : k \in ses[q].made} ELSE written
  /\ ses' = [ses EXCEPT ![q].pc = "report", ![q].rc = ReturnCode(outcome)]
  /\ UNCHANGED <<cache, hidden, win, tx, host, rpc, late, terminal, negotiated>>

\* ... or the wait times out, also for the original future of a cancelled
\* submission, or it raises something unknown: the write may still be running.
NativeUnknown(q) ==
  /\ ses[q].pc = "wait" /\ Fatal(q) /\ Fault
  /\ UNCHANGED <<rpc, negotiated>> /\ Quiet

\* A write nobody waits for any more ends at some time.
NativeEndsLater(q) ==
  /\ ses[q].fatal /\ \E w \in Windows(q) : writing' = writing \ {<<q, w>>} /\ writing' # writing
  /\ UNCHANGED <<cacheVars, win, tx, host, netVars, sessionVars>>

Report(q) ==
  /\ ses[q].pc = "report" /\ rpc[q].st = "idle"
  /\ Call(q, "report", ses[q].w, ses[q].rc)
  /\ UNCHANGED <<ses, negotiated>> /\ Quiet /\ Fine

Reported(q) ==
  /\ ses[q].pc = "report"
  /\ \/ /\ Replied(q, "report") /\ ReplyOf(q).code \in {"ok", "reject"}
        /\ IF ReplyOf(q).code = "ok" /\ ses[q].rc = "success"
           THEN Goto(q, "satisfied") ELSE Abandoned(q)
        /\ HangUp(q)
     \/ Replied(q, "report") /\ ReplyOf(q).code = "fatal" /\ Fatal(q) /\ HangUp(q)
     \/ LostReply(q, "report") /\ Goto(q, "reportStatus") /\ Call(q, "status", ses[q].w, "none")
  /\ Quiet /\ Fine /\ UNCHANGED negotiated

\* STATUS must show the terminal state that was reported.
ResolveAmbiguousReport(q) ==
  /\ ses[q].pc = "reportStatus" /\ rpc[q].st \in {"served", "lost"}
  /\ IF Replied(q, "status") /\ ReplyOf(q).code = "ok" /\ ReplyOf(q).seen = ses[q].rc
     THEN IF ses[q].rc = "success" THEN Goto(q, "satisfied") ELSE Abandoned(q)
     ELSE Fatal(q)
  /\ HangUp(q) /\ Quiet /\ Fine /\ UNCHANGED negotiated

-----------------------------------------------------------------------------
(* finish(), abort() *)

End(q, outcome) ==
  /\ terminal' = [terminal EXCEPT ![q] = outcome]
  /\ ses' = [ses EXCEPT ![q].pc = "ended"]

\* Nothing is asked of the decoder when the session is fatal or the persistent
\* store fell short; after a lost pre-arm reply only an ABORT is sent.
FinishBegin(q, persistent) ==
  /\ ses[q].pc = "finishing" /\ rpc[q].st = "idle"
  /\ \/ ~persistent /\ End(q, "FAILED") /\ UNCHANGED rpc
     \/ /\ persistent /\ ~ses[q].opened /\ ~ses[q].unknown
        /\ End(q, "PERSISTENT") /\ UNCHANGED rpc
     \/ /\ persistent /\ ses[q].unknown
        /\ Call(q, "abort", 0, "none") /\ Goto(q, "preAbort") /\ UNCHANGED terminal
     \/ /\ persistent /\ ses[q].opened /\ ~ses[q].unknown
        /\ Call(q, "finish", 0, "none") /\ Goto(q, "finish") /\ UNCHANGED terminal
  /\ UNCHANGED <<cacheVars, writing, win, tx, host, late, faults, negotiated>>

\* The ABORT is best effort, but a fatal answer to it still marks the session.
SaysFatal(q) == rpc[q].st = "served" /\ ReplyOf(q).code = "fatal"
PreAborted(q) ==
  /\ ses[q].pc = "preAbort" /\ rpc[q].st \in {"served", "lost"}
  /\ terminal' = [terminal EXCEPT ![q] = "PERSISTENT"]
  /\ ses' = [ses EXCEPT ![q].pc = "ended", ![q].fatal = SaysFatal(q)]
  /\ HangUp(q)
  /\ UNCHANGED <<cacheVars, writing, win, tx, host, late, faults, negotiated>>

\* _classify_terminal
Classify(q) ==
  CASE ReplyOf(q).seen = "local" -> "LOCAL"
    [] ReplyOf(q).seen = "cancelled" -> "CANCELLED"
    [] OTHER -> "PERSISTENT"

Finished(q) ==
  /\ ses[q].pc = "finish"
  /\ \/ Replied(q, "finish") /\ ReplyOf(q).code = "ok" /\ End(q, Classify(q)) /\ HangUp(q)
     \/ /\ Replied(q, "finish") /\ ReplyOf(q).code = "fatal"
        /\ Fatal(q) /\ HangUp(q) /\ UNCHANGED terminal
     \/ /\ LostReply(q, "finish")
        /\ Goto(q, "finStatus") /\ Call(q, "status", 0, "none") /\ UNCHANGED terminal
  /\ UNCHANGED <<cacheVars, writing, win, tx, host, late, faults, negotiated>>

\* A lost FINISH: STATUS decides; without an answer the request falls back to
\* the persistent store, and a transaction that is still open is aborted.
ResolveAmbiguousFinish(q) ==
  /\ ses[q].pc = "finStatus"
  /\ \/ LostReply(q, "status") /\ End(q, "PERSISTENT") /\ HangUp(q)
     \/ /\ Replied(q, "status") /\ (ReplyOf(q).code = "fatal" \/ ReplyOf(q).seen = "armed")
        /\ Fatal(q) /\ HangUp(q) /\ UNCHANGED terminal
     \/ /\ Replied(q, "status") /\ ReplyOf(q).code = "ok"
        /\ ReplyOf(q).seen \in {"local", "persistent", "cancelled"}
        /\ End(q, Classify(q)) /\ HangUp(q)
     \/ /\ Replied(q, "status") /\ ReplyOf(q).code = "ok" /\ ReplyOf(q).seen \in {"none", "open"}
        /\ Call(q, "abort", 0, "none") /\ Goto(q, "finAbort") /\ UNCHANGED terminal
  /\ UNCHANGED <<cacheVars, writing, win, tx, host, late, faults, negotiated>>

FinishAborted(q) ==
  /\ ses[q].pc = "finAbort" /\ rpc[q].st \in {"served", "lost"}
  /\ IF SaysFatal(q) THEN Fatal(q) /\ UNCHANGED terminal ELSE End(q, "PERSISTENT")
  /\ HangUp(q)
  /\ UNCHANGED <<cacheVars, writing, win, tx, host, late, faults, negotiated>>

\* abort(): the request was released before FINISH.
AbortBegin(q) ==
  /\ ses[q].pc = "aborting" /\ rpc[q].st = "idle"
  /\ IF ses[q].opened
     THEN Call(q, "abort", 0, "none") /\ Goto(q, "abort")
     ELSE Goto(q, "closed") /\ UNCHANGED rpc
  /\ UNCHANGED negotiated /\ Quiet /\ Fine

Aborted(q) ==
  /\ ses[q].pc = "abort" /\ rpc[q].st \in {"served", "lost"}
  /\ IF SaysFatal(q) THEN Fatal(q) ELSE Goto(q, "closed")
  /\ HangUp(q) /\ UNCHANGED negotiated /\ Quiet /\ Fine

SessionInit ==
  /\ ses = [q \in Transfers |-> NoSession]
  /\ terminal = [q \in Transfers |-> "none"]
  /\ negotiated = FALSE

SessionStep(q) ==
  \/ OpenFirst(q) \/ Negotiated(q) \/ Opened(q)
  \/ ReserveWindow(q) \/ Probed(q) \/ Reserved(q)
  \/ WindowArmed(q) \/ ResolveAmbiguousArm(q) \/ NativeSubmit(q)
  \/ \E outcome \in {"complete", "short", "terminal"} : NativeEnds(q, outcome)
  \/ NativeUnknown(q) \/ NativeEndsLater(q)
  \/ Report(q) \/ Reported(q) \/ ResolveAmbiguousReport(q)
  \/ \E persistent \in BOOLEAN : FinishBegin(q, persistent)
  \/ PreAborted(q) \/ Finished(q) \/ ResolveAmbiguousFinish(q) \/ FinishAborted(q)
  \/ AbortBegin(q) \/ Aborted(q)

=============================================================================
