----------------------------- MODULE RankMailbox -----------------------------
(***************************************************************************)
(* The ordered control channel between the tensor-parallel ranks of one    *)
(* engine, and the agreements carried by it.                               *)
(*                                                                         *)
(* The first rank broadcasts envelopes; every other rank reads them in     *)
(* order into a mailbox from which its threads take the envelope of their  *)
(* own identity.  A rank has several loading threads and one reader at a   *)
(* time: whichever waiting thread reads, reads for all.  An agreement is a *)
(* marker envelope followed by an all-reduce, whose calls pair by their    *)
(* order on each rank; the thread that meets the marker joins the          *)
(* all-reduce on behalf of the thread that published the rank's result.    *)
(***************************************************************************)
EXTENDS Naturals, Sequences, FiniteSets

CONSTANTS Leader,     \* the first rank
          Passives,   \* the other ranks
          NoOne       \* no thread

ASSUME RanksAssumption == Leader \notin Passives

VARIABLES wire,     \* wire[p]: envelopes broadcast and not yet read by rank p
          box,      \* box[p]: envelopes read on rank p and not yet taken
          reader,   \* reader[p]: the thread inside an all-reduce as reader
          marker,   \* marker[p]: the marker that reader holds
          lock,     \* the leader thread holding the mailbox across a reduction
          results,  \* results[p]: the local results published on rank p
          calls     \* calls[k]: the all-reduces rank k entered, in order

mailboxVars == <<wire, box, reader, marker, lock, results, calls>>

Ranks == {Leader} \union Passives

\* An envelope carries the identity <<request, phase, layer, group>> and a
\* status: "ok", "skipped", "error", or the content a batch stands for; one
\* with handles also says how many pages they stand for.
Marker(e) == e.id[2] \in {"prefix", "fill"}

NoEnvelope == [id |-> <<NoOne, "none", 0, 0>>, status |-> "none"]

MailboxInit ==
    /\ wire = [p \in Passives |-> <<>>]
    /\ box = [p \in Passives |-> {}]
    /\ reader = [p \in Passives |-> NoOne]
    /\ marker = [p \in Passives |-> NoEnvelope]
    /\ lock = NoOne
    /\ results = [p \in Passives |-> {}]
    /\ calls = [k \in Ranks |-> <<>>]

(***************************************************************************)
(* Plain envelopes.                                                        *)
(***************************************************************************)

\* The leader's broadcast, made under the mailbox lock.
Broadcast(e) ==
    /\ lock = NoOne
    /\ wire' = [p \in Passives |-> Append(wire[p], e)]

Buffered(p, id) == \E e \in box[p] : e.id = id

TheEnvelope(p, id) == CHOOSE e \in box[p] : e.id = id

\* A thread takes the envelope of its identity.
Take(p, id) ==
    /\ Buffered(p, id)
    /\ box' = [box EXCEPT ![p] = @ \ {TheEnvelope(p, id)}]

\* A thread whose envelope is not there reads the next one.  It is buffered
\* for its addressee; on a marker the reader stays in the read.
Read(t, p, id) ==
    /\ ~Buffered(p, id)
    /\ reader[p] = NoOne
    /\ wire[p] # <<>>
    /\ LET e == Head(wire[p]) IN
         IF Marker(e)
         THEN /\ reader' = [reader EXCEPT ![p] = t]
              /\ marker' = [marker EXCEPT ![p] = e]
              /\ UNCHANGED box
         ELSE /\ box' = [box EXCEPT ![p] = @ \union {e}]
              /\ UNCHANGED <<reader, marker>>
    /\ wire' = [wire EXCEPT ![p] = Tail(@)]
    /\ UNCHANGED <<lock, results, calls>>

(***************************************************************************)
(* Agreements.                                                             *)
(***************************************************************************)

EnterReduction(k, id, ready) ==
    calls' = [calls EXCEPT ![k] = Append(@, [id |-> id, ready |-> ready])]

\* The all-reduce rank k entered for id, by its position among its calls.
CallOf(k, id) == CHOOSE n \in 1..Len(calls[k]) : calls[k][n].id = id

Reduced(n) == \A k \in Ranks : Len(calls[k]) >= n

AllTrue(n) == \A k \in Ranks : calls[k][n].ready

\* The leader keeps the mailbox from the marker to the end of the all-reduce.
KeepMailbox(t) == lock' = t
OpenMailbox(t) == lock' = lock

HoldMailbox(t) == KeepMailbox(t)

Announce(t, id) ==
    /\ Broadcast([id |-> id, status |-> "skipped"])
    /\ HoldMailbox(t)
    /\ UNCHANGED <<box, reader, marker, results, calls>>

LeaderReduce(id, ready) ==
    /\ EnterReduction(Leader, id, ready)
    /\ UNCHANGED <<wire, box, reader, marker, lock, results>>

LeaderReduced(id) ==
    /\ Reduced(CallOf(Leader, id))
    /\ lock' = NoOne
    /\ UNCHANGED <<wire, box, reader, marker, results, calls>>

\* A passive rank's thread publishes its local result before it waits, for
\* whichever thread reads the marker; and a slip: it keeps it to itself.
KeepResult(p, id, ready) == UNCHANGED mailboxVars

PublishResult(p, id, ready) ==
    /\ results' = [results EXCEPT ![p] = @ \union {[id |-> id, ready |-> ready]}]
    /\ UNCHANGED <<wire, box, reader, marker, lock, calls>>

\* The reader that met the marker waits for that result and joins.
JoinReduction(p) ==
    /\ reader[p] # NoOne
    /\ \A n \in 1..Len(calls[p]) : calls[p][n].id # marker[p].id
    /\ \E r \in results[p] :
         /\ r.id = marker[p].id
         /\ EnterReduction(p, r.id, r.ready)
    /\ UNCHANGED <<wire, box, reader, marker, lock, results>>

\* The reduction ends: the marker is buffered with the outcome.
LeaveReduction(p) ==
    /\ reader[p] # NoOne
    /\ \E n \in 1..Len(calls[p]) :
         /\ calls[p][n].id = marker[p].id
         /\ Reduced(n)
         /\ box' = [box EXCEPT ![p] = @ \union
              {[marker[p] EXCEPT !.status = IF AllTrue(n) THEN "skipped" ELSE "error"]}]
    /\ reader' = [reader EXCEPT ![p] = NoOne]
    /\ marker' = [marker EXCEPT ![p] = NoEnvelope]
    /\ UNCHANGED <<wire, lock, results, calls>>

\* The waiting thread takes the outcome and withdraws its result.
TakeOutcome(p, id) ==
    /\ Take(p, id)
    /\ results' = [results EXCEPT ![p] = {r \in @ : r.id # id}]
    /\ UNCHANGED <<wire, reader, marker, lock, calls>>

Agreed(p, id) == TheEnvelope(p, id).status = "skipped"

=============================================================================
