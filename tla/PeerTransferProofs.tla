------------------------- MODULE PeerTransferProofs -------------------------
(***************************************************************************)
(* Theorems about the exchange between two peers: its pages are accounted  *)
(* for on both sides, read only while the peer holds them, and scattered   *)
(* only from a pool that still has them.                                   *)
(***************************************************************************)
EXTENDS PeerTransfer, FiniteSetTheorems, SequenceTheorems, TLAPS

-----------------------------------------------------------------------------
(***************************************************************************)
(* Types.                                                                  *)
(***************************************************************************)

PeerTypes ==
    /\ mode \in {"push", "eager", "delay"}
    /\ DOMAIN st = Lookups /\ DOMAIN bufs = Lookups
    /\ tries \in [Lookups -> Nat] /\ hits \in [Lookups -> 0..Chunks]
    /\ reqs \subseteq Lookups \X Nat
    /\ answer.hits \in 0..Chunks
    /\ srv \in [pc : {"idle", "lookup", "unknown", "write", "ok", "error"},
                lookup : Lookups \union {None}, try : Nat, hits : 0..Chunks]
    /\ holds \in [Lookups -> Int] /\ dones \in [Lookups -> Nat]
    /\ pending \subseteq Lookups /\ lapsed \subseteq Lookups

\* Requests, and what the handler works on, were sent; entries are of lookups that were sent.
Asked ==
    /\ \A r \in reqs : 1 <= r[2] /\ r[2] <= tries[r[1]]
    /\ srv.pc # "idle" => srv.lookup \in Lookups /\ 1 <= srv.try /\ srv.try <= tries[srv.lookup]
    /\ \A l \in pending : tries[l] >= 1

\* What a handshake leaves alone.
Quiet == UNCHANGED <<channel, mode, clientVars, netVars, serverVars, pipeVars>>

\* The handshakes of the channel touch no page and no message.
LEMMA QuietSteps == Connect \/ Handshake \/ ConnectRaised \/ UNCHANGED vars => Quiet
BY DEF Connect, Handshake, ConnectRaised, LinkStep, InitRequest, ReadyRequest, MemRequest,
   Accepted, Connected, Quiet, vars

\* What the handler finds for a lookup, and what it takes for it.
LEMMA LookCases ==
    ASSUME PeerTypes, Asked, Look
    PROVE  /\ UNCHANGED <<mode, clientVars, netVars, lapsed>>
           /\ srv.pc = "lookup" /\ srv.lookup \in Lookups
           /\ srv' \in [pc : {"write", "ok", "error"}, lookup : Lookups, try : Nat,
                       hits : 0..Chunks]
           /\ srv'.lookup = srv.lookup /\ srv'.try = srv.try
           /\ holds' \in [Lookups -> Int]
           /\ \A l \in Lookups : l # srv.lookup => holds'[l] = holds[l]
           /\ \/ srv'.pc = "error" /\ UNCHANGED <<holds, pending>>
              \/ /\ srv'.pc = (IF mode = "push" THEN "write" ELSE "ok") /\ srv'.hits = 0
                 /\ UNCHANGED <<holds, pending>>
              \/ /\ mode = "push" /\ srv'.pc = "write" /\ srv'.hits > 0
                 /\ holds'[srv.lookup] = holds[srv.lookup] + 1 /\ UNCHANGED pending
              \/ /\ mode # "push" /\ srv'.pc = "ok" /\ srv'.hits > 0
                 /\ holds'[srv.lookup] = holds[srv.lookup] + 1
                 /\ pending' = pending \union {srv.lookup}
<1>1. srv.pc = "lookup" /\ srv.lookup \in Lookups /\ UNCHANGED <<mode, clientVars, netVars, lapsed>>
  BY DEF Look, Asked
<1>2. PICK k \in Lookups : k = srv.lookup
  BY <1>1
<1>3. CASE srv' = [srv EXCEPT !.pc = "error"] /\ UNCHANGED <<holds, pending>>
  BY <1>1, <1>3 DEF PeerTypes
<1>4. ASSUME NEW n \in Found[mode],
             srv' = [srv EXCEPT !.hits = n, !.pc = IF mode = "push" THEN "write" ELSE "ok"],
             IF n = 0 THEN UNCHANGED <<holds, pending>>
             ELSE IF mode = "push" THEN Hold(srv.lookup, 1) /\ UNCHANGED pending
             ELSE Register(srv.lookup)
      PROVE  /\ srv' \in [pc : {"write", "ok", "error"}, lookup : Lookups, try : Nat,
                           hits : 0..Chunks]
             /\ srv'.lookup = srv.lookup /\ srv'.try = srv.try /\ srv'.hits = n
             /\ srv'.pc = (IF mode = "push" THEN "write" ELSE "ok")
             /\ holds' \in [Lookups -> Int]
             /\ \A l \in Lookups : l # k => holds'[l] = holds[l]
             /\ n # 0 => holds'[k] = holds[k] + 1
             /\ n = 0 => UNCHANGED <<holds, pending>>
             /\ n # 0 /\ mode = "push" => UNCHANGED pending
             /\ n # 0 /\ mode # "push" => pending' = pending \union {k}
  <2>1. n \in 0..Chunks /\ Chunks \in Nat
    BY <1>4, PeerAssumption DEF PeerTypes
  <2>2. /\ srv' \in [pc : {"write", "ok", "error"}, lookup : Lookups, try : Nat, hits : 0..Chunks]
        /\ srv'.lookup = srv.lookup /\ srv'.try = srv.try /\ srv'.hits = n
        /\ srv'.pc = (IF mode = "push" THEN "write" ELSE "ok")
    BY <1>1, <1>4, <2>1 DEF PeerTypes
  <2>3. n # 0 => holds' = [holds EXCEPT ![k] = @ + 1]
    BY <1>2, <1>4 DEF Hold, Register
  <2> QED
    BY <1>2, <1>4, <2>2, <2>3 DEF PeerTypes, Hold, Register
<1>5. ASSUME NEW n \in Found[mode],
             srv' = [srv EXCEPT !.hits = n, !.pc = IF mode = "push" THEN "write" ELSE "ok"],
             IF n = 0 THEN UNCHANGED <<holds, pending>>
             ELSE IF mode = "push" THEN Hold(srv.lookup, 1) /\ UNCHANGED pending
             ELSE Register(srv.lookup)
      PROVE  n = 0 \/ n > 0
  BY PeerAssumption DEF PeerTypes
<1> QED
  BY <1>1, <1>2, <1>3, <1>4, <1>5 DEF Look

\* Every step keeps the types.
LEMMA TypesStep ==
    ASSUME PeerTypes, Asked, [Next]_vars
    PROVE  PeerTypes'
<1>0. /\ Chunks \in Nat /\ 0 \in 0..Chunks
      /\ \A m \in {"push", "eager", "delay"} : Found[m] \subseteq 0..Chunks
  BY PeerAssumption
<1>1. ASSUME Quiet PROVE PeerTypes'
  BY <1>0, <1>1 DEF Quiet, clientVars, netVars, serverVars, pipeVars, PeerTypes
<1>2. ASSUME NEW l \in Lookups, Start(l) PROVE PeerTypes'
  BY <1>0, <1>2 DEF Start, Go, Keep, clientVars, netVars, serverVars, pipeVars, PeerTypes
<1>3. ASSUME NEW l \in Lookups, Send(l) PROVE PeerTypes'
  BY <1>0, <1>3 DEF Send, Go, clientVars, netVars, serverVars, pipeVars, PeerTypes
<1>4. ASSUME NEW l \in Lookups, TimesOut(l) PROVE PeerTypes'
  BY <1>0, <1>4 DEF TimesOut, Go, NoAnswer, clientVars, netVars, serverVars, pipeVars, PeerTypes
<1>5. ASSUME NEW l \in Lookups, Reconnected(l) PROVE PeerTypes'
  BY <1>0, <1>5 DEF Reconnected, Go, Keep, clientVars, netVars, serverVars, pipeVars, PeerTypes
<1>6. ASSUME NEW l \in Lookups, Arrived(l) PROVE PeerTypes'
  BY <1>0, <1>6 DEF Arrived, Go, Trim, Keep, NoAnswer, clientVars, netVars, serverVars,
     pipeVars, PeerTypes
<1>7. ASSUME NEW l \in Lookups, ReadEnd(l) PROVE PeerTypes'
  BY <1>0, <1>7 DEF ReadEnd, Go, clientVars, netVars, serverVars, pipeVars, PeerTypes
<1>8. ASSUME NEW l \in Lookups, Finish(l) PROVE PeerTypes'
  BY <1>0, <1>8 DEF Finish, SendDone, DoneRaises, Go, Trim, Keep, clientVars, netVars,
     serverVars, pipeVars, PeerTypes
<1>9. ASSUME NEW S \in SUBSET Lookups, LoadBegin(S) PROVE PeerTypes'
  BY <1>0, <1>9 DEF LoadBegin, clientVars, netVars, serverVars, pipeVars, PeerTypes
<1>10. ASSUME LoadStep PROVE PeerTypes'
  BY <1>0, <1>10 DEF LoadStep, clientVars, netVars, serverVars, pipeVars, PeerTypes
<1>11. ASSUME LoadEnd PROVE PeerTypes'
  BY <1>0, <1>11 DEF LoadEnd, Loading, clientVars, netVars, serverVars, pipeVars, PeerTypes
<1>12. ASSUME NEW r \in reqs, Receive(r) PROVE PeerTypes'
  BY <1>0, <1>12 DEF Receive, SrvIdle, clientVars, netVars, serverVars, pipeVars, PeerTypes
<1>13. ASSUME Look PROVE PeerTypes'
  BY <1>13, LookCases DEF PeerTypes, clientVars, netVars
<1>14. ASSUME WriteEnd PROVE PeerTypes'
  BY <1>0, <1>14 DEF WriteEnd, ReleaseWritten, Hold, clientVars, netVars, serverVars, pipeVars,
     PeerTypes
<1>15. ASSUME Answer PROVE PeerTypes'
  BY <1>0, <1>15 DEF Answer, SrvIdle, clientVars, netVars, serverVars, pipeVars, PeerTypes
<1>16. ASSUME NEW l \in Lookups, HandleDone(l) PROVE PeerTypes'
  BY <1>0, <1>16 DEF HandleDone, Pop, Hold, clientVars, netVars, serverVars, pipeVars, PeerTypes
<1>17. ASSUME NEW l \in Lookups, Sweep(l) PROVE PeerTypes'
  BY <1>0, <1>17 DEF Sweep, Pop, Hold, clientVars, netVars, serverVars, pipeVars, PeerTypes
<1>18. ASSUME Restart PROVE PeerTypes'
  BY <1>0, <1>18 DEF Restart, SrvIdle, clientVars, netVars, serverVars, pipeVars, PeerTypes
<1> QED
  BY <1>1, <1>2, <1>3, <1>4, <1>5, <1>6, <1>7, <1>8, <1>9, <1>10, <1>11, <1>12, <1>13, <1>14,
     <1>15, <1>16, <1>17, <1>18, QuietSteps DEF Next, Client, ClientStep, Server, HandlerStep

\* Every step of either side keeps requests and entries behind what was sent.
LEMMA AskedStep ==
    ASSUME PeerTypes, Asked, [Next]_vars
    PROVE  Asked'
<1>1. ASSUME Quiet PROVE Asked'
  BY <1>1 DEF Quiet, clientVars, netVars, serverVars, pipeVars, PeerTypes, Asked
<1>2. ASSUME NEW l \in Lookups, Start(l) PROVE Asked'
  BY <1>2 DEF Start, Go, Keep, clientVars, netVars, serverVars, pipeVars, PeerTypes, Asked
<1>3. ASSUME NEW l \in Lookups, Send(l) PROVE Asked'
  BY <1>3 DEF Send, Go, clientVars, netVars, serverVars, pipeVars, PeerTypes, Asked
<1>4. ASSUME NEW l \in Lookups, TimesOut(l) PROVE Asked'
  BY <1>4 DEF TimesOut, Go, NoAnswer, clientVars, netVars, serverVars, pipeVars, PeerTypes,
     Asked
<1>5. ASSUME NEW l \in Lookups, Reconnected(l) PROVE Asked'
  BY <1>5 DEF Reconnected, Go, Keep, clientVars, netVars, serverVars, pipeVars, PeerTypes, Asked
<1>6. ASSUME NEW l \in Lookups, Arrived(l) PROVE Asked'
  BY <1>6 DEF Arrived, Go, Trim, Keep, NoAnswer, clientVars, netVars, serverVars, pipeVars,
     PeerTypes, Asked
<1>7. ASSUME NEW l \in Lookups, ReadEnd(l) PROVE Asked'
  BY <1>7 DEF ReadEnd, Go, clientVars, netVars, serverVars, pipeVars, PeerTypes, Asked
<1>8. ASSUME NEW l \in Lookups, Finish(l) PROVE Asked'
  BY <1>8 DEF Finish, SendDone, DoneRaises, Go, Trim, Keep, clientVars, netVars, serverVars,
     pipeVars, PeerTypes, Asked
<1>9. ASSUME NEW S \in SUBSET Lookups, LoadBegin(S) PROVE Asked'
  BY <1>9 DEF LoadBegin, clientVars, netVars, serverVars, pipeVars, PeerTypes, Asked
<1>10. ASSUME LoadStep PROVE Asked'
  BY <1>10 DEF LoadStep, clientVars, netVars, serverVars, pipeVars, PeerTypes, Asked
<1>11. ASSUME LoadEnd PROVE Asked'
  BY <1>11 DEF LoadEnd, Loading, clientVars, netVars, serverVars, pipeVars, PeerTypes, Asked
<1>12. ASSUME NEW r \in reqs, Receive(r) PROVE Asked'
  BY <1>12 DEF Receive, SrvIdle, clientVars, netVars, serverVars, pipeVars, PeerTypes, Asked
<1>13. ASSUME Look PROVE Asked'
  BY <1>13, LookCases DEF PeerTypes, Asked, clientVars, netVars
<1>14. ASSUME WriteEnd PROVE Asked'
  BY <1>14 DEF WriteEnd, ReleaseWritten, Hold, clientVars, netVars, serverVars, pipeVars,
     PeerTypes, Asked
<1>15. ASSUME Answer PROVE Asked'
  BY <1>15 DEF Answer, SrvIdle, clientVars, netVars, serverVars, pipeVars, PeerTypes, Asked
<1>16. ASSUME NEW l \in Lookups, HandleDone(l) PROVE Asked'
  BY <1>16 DEF HandleDone, Pop, Hold, clientVars, netVars, serverVars, pipeVars, PeerTypes,
     Asked
<1>17. ASSUME NEW l \in Lookups, Sweep(l) PROVE Asked'
  BY <1>17 DEF Sweep, Pop, Hold, clientVars, netVars, serverVars, pipeVars, PeerTypes, Asked
<1>18. ASSUME Restart PROVE Asked'
  BY <1>18 DEF Restart, SrvIdle, clientVars, netVars, serverVars, pipeVars, PeerTypes, Asked
<1> QED
  BY <1>1, <1>2, <1>3, <1>4, <1>5, <1>6, <1>7, <1>8, <1>9, <1>10, <1>11, <1>12, <1>13, <1>14,
     <1>15, <1>16, <1>17, <1>18, QuietSteps DEF Next, Client, ClientStep, Server, HandlerStep

-----------------------------------------------------------------------------
(***************************************************************************)
(* The pages of both sides.                                                *)
(***************************************************************************)

\* The server has no entry of a lookup whose only request it has yet to look up.
FirstOnly ==
    \A l \in Lookups : tries[l] <= 1 =>
      /\ (\E r \in reqs : r[1] = l) => l \notin pending /\ (srv.pc = "idle" \/ srv.lookup # l)
      /\ srv.pc = "lookup" /\ srv.lookup = l => l \notin pending

\* Pages are written in push mode only, and entries made in the others.
PushOnly == (srv.pc = "write" => mode = "push") /\ (mode = "push" => pending = {})

ServerExact == FirstOnly /\ PushOnly /\ HoldsExact

\* The server accounts for its pages in every step.
LEMMA ServerStep ==
    ASSUME PeerTypes, Asked, ServerExact, [Next]_vars
    PROVE  ServerExact'
<1>1. ASSUME Quiet PROVE ServerExact'
  BY <1>1 DEF Quiet, clientVars, netVars, serverVars, pipeVars, PeerTypes, Asked, ServerExact,
     FirstOnly, PushOnly, HoldsExact, One
<1>2. ASSUME NEW l \in Lookups, Start(l) PROVE ServerExact'
  BY <1>2 DEF Start, Go, Keep, clientVars, netVars, serverVars, pipeVars, PeerTypes, Asked,
     ServerExact, FirstOnly, PushOnly, HoldsExact, One
<1>3. ASSUME NEW l \in Lookups, Send(l) PROVE ServerExact'
  BY <1>3 DEF Send, Go, clientVars, netVars, serverVars, pipeVars, PeerTypes, Asked,
     ServerExact, FirstOnly, PushOnly, HoldsExact, One
<1>4. ASSUME NEW l \in Lookups, TimesOut(l) PROVE ServerExact'
  BY <1>4 DEF TimesOut, Go, NoAnswer, clientVars, netVars, serverVars, pipeVars, PeerTypes,
     Asked, ServerExact, FirstOnly, PushOnly, HoldsExact, One
<1>5. ASSUME NEW l \in Lookups, Reconnected(l) PROVE ServerExact'
  BY <1>5 DEF Reconnected, Go, Keep, clientVars, netVars, serverVars, pipeVars, PeerTypes,
     Asked, ServerExact, FirstOnly, PushOnly, HoldsExact, One
<1>6. ASSUME NEW l \in Lookups, Arrived(l) PROVE ServerExact'
  BY <1>6 DEF Arrived, Go, Trim, Keep, NoAnswer, clientVars, netVars, serverVars, pipeVars,
     PeerTypes, Asked, ServerExact, FirstOnly, PushOnly, HoldsExact, One
<1>7. ASSUME NEW l \in Lookups, ReadEnd(l) PROVE ServerExact'
  BY <1>7 DEF ReadEnd, Go, clientVars, netVars, serverVars, pipeVars, PeerTypes, Asked,
     ServerExact, FirstOnly, PushOnly, HoldsExact, One
<1>8. ASSUME NEW l \in Lookups, Finish(l) PROVE ServerExact'
  BY <1>8 DEF Finish, SendDone, DoneRaises, Go, Trim, Keep, clientVars, netVars, serverVars,
     pipeVars, PeerTypes, Asked, ServerExact, FirstOnly, PushOnly, HoldsExact, One
<1>9. ASSUME NEW S \in SUBSET Lookups, LoadBegin(S) PROVE ServerExact'
  BY <1>9 DEF LoadBegin, clientVars, netVars, serverVars, pipeVars, PeerTypes, Asked,
     ServerExact, FirstOnly, PushOnly, HoldsExact, One
<1>10. ASSUME LoadStep PROVE ServerExact'
  BY <1>10 DEF LoadStep, clientVars, netVars, serverVars, pipeVars, PeerTypes, Asked,
     ServerExact, FirstOnly, PushOnly, HoldsExact, One
<1>11. ASSUME LoadEnd PROVE ServerExact'
  BY <1>11 DEF LoadEnd, Loading, clientVars, netVars, serverVars, pipeVars, PeerTypes, Asked,
     ServerExact, FirstOnly, PushOnly, HoldsExact, One
<1>12. ASSUME NEW r \in reqs, Receive(r) PROVE ServerExact'
  BY <1>12 DEF Receive, SrvIdle, clientVars, netVars, serverVars, pipeVars, PeerTypes, Asked,
     ServerExact, FirstOnly, PushOnly, HoldsExact, One
<1>13. ASSUME Look PROVE ServerExact'
  BY <1>13, LookCases DEF PeerTypes, ServerExact, FirstOnly, PushOnly, HoldsExact, One,
     clientVars, netVars
<1>14. ASSUME WriteEnd PROVE ServerExact'
  BY <1>14 DEF WriteEnd, ReleaseWritten, Hold, clientVars, netVars, serverVars, pipeVars,
     PeerTypes, Asked, ServerExact, FirstOnly, PushOnly, HoldsExact, One
<1>15. ASSUME Answer PROVE ServerExact'
  BY <1>15 DEF Answer, SrvIdle, clientVars, netVars, serverVars, pipeVars, PeerTypes, Asked,
     ServerExact, FirstOnly, PushOnly, HoldsExact, One
<1>16. ASSUME NEW l \in Lookups, HandleDone(l) PROVE ServerExact'
  BY <1>16 DEF HandleDone, Pop, Hold, clientVars, netVars, serverVars, pipeVars, PeerTypes,
     Asked, ServerExact, FirstOnly, PushOnly, HoldsExact, One
<1>17. ASSUME NEW l \in Lookups, Sweep(l) PROVE ServerExact'
  BY <1>17 DEF Sweep, Pop, Hold, clientVars, netVars, serverVars, pipeVars, PeerTypes, Asked,
     ServerExact, FirstOnly, PushOnly, HoldsExact, One
<1>18. ASSUME Restart PROVE ServerExact'
  BY <1>18 DEF Restart, SrvIdle, clientVars, netVars, serverVars, pipeVars, PeerTypes, Asked,
     ServerExact, FirstOnly, PushOnly, HoldsExact, One
<1> QED
  BY <1>1, <1>2, <1>3, <1>4, <1>5, <1>6, <1>7, <1>8, <1>9, <1>10, <1>11, <1>12, <1>13, <1>14,
     <1>15, <1>16, <1>17, <1>18, QuietSteps DEF Next, Client, ClientStep, Server, HandlerStep

-----------------------------------------------------------------------------
(***************************************************************************)
(* The pipeline of a load.                                                 *)
(***************************************************************************)

Pages == Lookups \X (1..Chunks)

\* The pages of a list that the b-th batch takes.
Part(items, b) == {items[j] : j \in {n \in 1..Len(items) : (n - 1) \div Depth = b - 1}}

Op == [batch : SUBSET Pages, pool : {0, 1}, after : Nat]

PipeTypes ==
    /\ pipe \in [pc : {"idle", "read", "scatter", "last", "finally"}, items : Seq(Pages),
                 next : Nat, events : [{0, 1} -> Nat], pools : Nat, raised : BOOLEAN]
    /\ transport \in Seq(Op) /\ scatters \in Seq(Op)
    /\ ran \in [read : Nat, scatter : Nat]
    /\ content \in [{0, 1} -> SUBSET Pages] /\ wrong \subseteq Pages

Submitted == ran.scatter + Len(scatters)

\* How far the host is ahead of the streams, and what is left when a load is over.
PipeCounts ==
    /\ ~Streamed => transport = <<>>
    /\ pipe.pc = "idle" => scatters = <<>> /\ (pipe.raised \/ transport = <<>>)
    /\ pipe.pc # "idle" =>
         /\ pipe.next >= 1
         /\ Streamed => pipe.next - 1 = ran.read + Len(transport)
         /\ pipe.pc = "read" \/ pipe.raised =>
              Submitted = IF pipe.next = 1 THEN 0 ELSE pipe.next - 2
         /\ pipe.pc = "scatter" => pipe.next >= 3 /\ Submitted = pipe.next - 3
         /\ pipe.pc = "last" => pipe.next >= 2 /\ Submitted = pipe.next - 2
         /\ pipe.pc = "finally" /\ ~pipe.raised => Submitted = pipe.next - 1
         /\ pipe.raised => pipe.pc = "finally"

\* The scatter a read waits for.
After(b) == IF b = 1 THEN 0 ELSE b - 2

\* On the streams are the batches that come next, each with the event it needs; the events
\* the host keeps are those of its last two scatters; a scatter follows its read, and a read
\* the scatter before last.
Queued ==
    pipe.pc # "idle" /\ Streamed =>
      /\ \A i \in 1..Len(transport) :
           /\ transport[i].batch = Part(pipe.items, ran.read + i)
           /\ transport[i].pool = PoolOf(ran.read + i)
           /\ transport[i].after = After(ran.read + i)
      /\ \A i \in 1..Len(scatters) :
           /\ scatters[i].batch = Part(pipe.items, ran.scatter + i)
           /\ scatters[i].pool = PoolOf(ran.scatter + i)
           /\ scatters[i].after = ran.scatter + i
      /\ pipe.pc \in {"read", "scatter"} =>
           /\ pipe.events[PoolOf(Submitted)] = Submitted
           /\ pipe.events[PoolOf(Submitted + 1)] = IF Submitted = 0 THEN 0 ELSE Submitted - 1
      /\ ran.scatter <= ran.read /\ ran.read <= ran.scatter + 2

PipeInv == PipeTypes /\ PipeCounts /\ Queued

\* The pools take turns.
LEMMA PoolTurns ==
    ASSUME NEW b \in Nat
    PROVE  /\ PoolOf(b) \in {0, 1} /\ PoolOf(b + 1) \in {0, 1}
           /\ PoolOf(b + 1) # PoolOf(b) /\ PoolOf(b + 2) = PoolOf(b)
BY DEF PoolOf

\* A batch is made of pages of its list.
LEMMA BatchPages ==
    ASSUME NEW items \in Seq(Pages), NEW b
    PROVE  /\ Part(items, b) \subseteq Pages
           /\ \A x \in Part(items, b) : \E j \in 1..Len(items) : x = items[j]
BY DEF Part

\* Appending to a stream keeps what is on it.
LEMMA Appended ==
    ASSUME NEW s \in Seq(Op), NEW o \in Op
    PROVE  /\ Append(s, o) \in Seq(Op) /\ Len(Append(s, o)) = Len(s) + 1
           /\ Append(s, o)[Len(s) + 1] = o
           /\ \A i \in 1..Len(s) : Append(s, o)[i] = s[i]
OBVIOUS

\* Running the head of a stream moves the rest up.
LEMMA Removed ==
    ASSUME NEW s \in Seq(Op), s # <<>>
    PROVE  /\ Head(s) = s[1] /\ s[1] \in Op /\ Len(s) >= 1
           /\ Tail(s) \in Seq(Op) /\ Len(Tail(s)) = Len(s) - 1
           /\ \A i \in 1..Len(Tail(s)) : Tail(s)[i] = s[i + 1]
OBVIOUS

\* The proxies a load is given are a list of its lookups' pages.
LEMMA ProxyLists ==
    ASSUME PeerTypes, NEW S \in SUBSET Lookups, NEW items \in Proxies(S)
    PROVE  items \in Seq(Pages) /\ \A j \in 1..Len(items) : items[j] \in Pages /\ items[j][1] \in S
<1>1. Chunks \in Nat /\ IsFiniteSet(1..Chunks) /\ IsFiniteSet(Lookups)
  BY PeerAssumption, FS_Interval
<1> DEFINE all == {x \in S \X (1..Chunks) : x[2] <= hits[x[1]]}
<1>2. IsFiniteSet(Lookups \X (1..Chunks)) /\ all \subseteq Lookups \X (1..Chunks)
  BY <1>1, FS_Product
<1>3. IsFiniteSet(all)
  BY <1>2, FS_Subset
<1>4. Cardinality(all) \in Nat
  BY <1>3, FS_CardinalityType
<1>5. items \in [1..Cardinality(all) -> all]
  BY DEF Proxies
<1>6. \A x \in all : x \in Pages /\ x[1] \in S
  BY DEF Pages
<1>7. PICK n \in Nat : items \in [1..n -> all]
  BY <1>4, <1>5
<1> HIDE DEF all
<1>8. items \in [1..n -> Pages] /\ \A j \in 1..n : items[j] \in all
  BY <1>6, <1>7
<1>9. items \in Seq(Pages) /\ DOMAIN items = 1..n
  BY <1>7, <1>8, SeqDef
<1>10. Len(items) = n
  BY <1>9
<1> QED
  BY <1>6, <1>8, <1>9, <1>10

\* A load begins with empty streams.
LEMMA PipeBeginStep ==
    ASSUME PipeInv, NEW items \in Seq(Pages), NEW fails \in BOOLEAN, PipeBegin(items, fails),
           UNCHANGED channel
    PROVE  PipeInv'
<1>1. scatters = <<>> /\ transport = <<>> /\ Len(transport) = 0 /\ Len(scatters) = 0
  BY DEF PipeInv, PipeCounts, PipeBegin
<1>2. /\ pipe' \in [pc : {"read", "finally"}, items : {items}, next : {1},
                    events : {[p \in {0, 1} |-> 0]}, pools : {0, 2}, raised : {fails}]
      /\ pipe'.pc = (IF fails THEN "finally" ELSE "read")
  BY DEF PipeBegin, PipeIdle
<1>3. ran' = [read |-> 0, scatter |-> 0] /\ UNCHANGED <<transport, scatters, content, wrong>>
  BY DEF PipeBegin
<1>4. PipeTypes'
  BY <1>2, <1>3 DEF PipeTypes, PipeInv
<1>5. PipeCounts'
  BY <1>1, <1>2, <1>3 DEF PipeCounts, Submitted, Streamed
<1>6. Submitted' = 0 /\ ran'.read = 0 /\ ran'.scatter = 0
  BY <1>1, <1>3 DEF Submitted
<1>7. PoolOf(0) \in {0, 1} /\ PoolOf(0 + 1) \in {0, 1}
  BY PoolTurns
<1>8. pipe'.events[PoolOf(0)] = 0 /\ pipe'.events[PoolOf(0 + 1)] = 0
  BY <1>2, <1>7
<1>9. Queued'
  BY <1>1, <1>3, <1>6, <1>8 DEF Queued
<1> QED
  BY <1>4, <1>5, <1>9 DEF PipeInv

\* Where a read leads the host, and what it puts on the transport stream.
LEMMA SubmitReadStep ==
    ASSUME PipeInv, NEW good, SubmitRead(Streamed, good), UNCHANGED channel
    PROVE  PipeInv'
<1> DEFINE b == pipe.next
<1>1. /\ pipe.pc = "read" /\ b \in Nat /\ b >= 1 /\ PoolOf(b) \in {0, 1} /\ pipe.raised = FALSE
      /\ Submitted = (IF b = 1 THEN 0 ELSE b - 2)
  BY PoolTurns DEF PipeInv, PipeTypes, PipeCounts, SubmitRead
<1>2. /\ pipe' \in [pc : {"read", "scatter", "last"}, items : Seq(Pages), next : Nat,
                    events : [{0, 1} -> Nat], pools : Nat, raised : BOOLEAN]
      /\ pipe'.items = pipe.items /\ pipe'.next = b + 1 /\ pipe'.events = pipe.events
      /\ pipe'.raised = FALSE
      /\ b > 1 => pipe'.pc = "scatter"
      /\ b = 1 => pipe'.pc \in {"read", "last"}
  <2> DEFINE c == IF b > 1 THEN "scatter" ELSE IF b = Batches(pipe.items) THEN "last" ELSE "read"
  <2>1. pipe' = [pipe EXCEPT !.pc = c, !.next = b + 1]
    BY DEF SubmitRead
  <2>2. /\ c \in {"read", "scatter", "last"}
        /\ b > 1 => c = "scatter"
        /\ b = 1 => c \in {"read", "last"}
    BY <1>1
  <2> HIDE DEF c
  <2>3. pipe \in [pc : {"idle", "read", "scatter", "last", "finally"}, items : Seq(Pages),
                 next : Nat, events : [{0, 1} -> Nat], pools : Nat, raised : BOOLEAN]
    BY DEF PipeInv, PipeTypes
  <2>4. b + 1 \in Nat
    BY <1>1
  <2> QED
    BY <1>1, <2>1, <2>2, <2>3, <2>4
<1>3. UNCHANGED <<scatters, ran, wrong>> /\ Submitted' = Submitted /\ Streamed' = Streamed
  BY DEF SubmitRead, Submitted, Streamed
<1>4. CASE ~Streamed
  <2>1. /\ content' = [content EXCEPT ![PoolOf(b)] = Batch(b) \cap good]
        /\ UNCHANGED transport
    BY <1>4 DEF SubmitRead
  <2>2. Batch(b) \subseteq Pages
    BY <1>1, BatchPages DEF Batch, Part, PipeInv, PipeTypes
  <2>3. content' \in [{0, 1} -> SUBSET Pages]
    BY <1>1, <2>1, <2>2 DEF PipeInv, PipeTypes
  <2>4. PipeTypes'
    BY <1>2, <1>3, <2>1, <2>3 DEF PipeInv, PipeTypes
  <2>5. PipeCounts'
    BY <1>1, <1>2, <1>3, <1>4, <2>1, SMTT(30) DEF PipeInv, PipeCounts
  <2> QED
    BY <1>3, <1>4, <2>4, <2>5 DEF PipeInv, Queued
<1>5. CASE Streamed
  <2> DEFINE o == [batch |-> Batch(b), pool |-> PoolOf(b), after |-> AwaitScatter(PoolOf(b))]
  <2>1. transport' = Append(transport, o) /\ UNCHANGED content
    BY <1>5 DEF SubmitRead
  <2>2. Batch(b) = Part(pipe.items, b) /\ Part(pipe.items, b) \subseteq Pages
    BY BatchPages DEF Batch, Part, PipeInv, PipeTypes
  <2>3. AwaitScatter(PoolOf(b)) = After(b) /\ After(b) \in Nat
    <3>1. /\ pipe.events[PoolOf(Submitted)] = Submitted
          /\ pipe.events[PoolOf(Submitted + 1)] = (IF Submitted = 0 THEN 0 ELSE Submitted - 1)
      BY <1>1, <1>5 DEF PipeInv, Queued
    <3>2. CASE b = 1
      BY <1>1, <3>1, <3>2 DEF AwaitScatter, After
    <3>3. CASE b > 1
      <4>1. Submitted = b - 2 /\ b - 2 \in Nat
        BY <1>1, <3>3
      <4>2. PoolOf(b) = PoolOf(b - 2)
        BY <1>1, <4>1, PoolTurns DEF PoolOf
      <4> QED
        BY <1>1, <3>1, <3>3, <4>1, <4>2 DEF AwaitScatter, After
    <3> QED
      BY <1>1, <3>2, <3>3
  <2>4. o \in Op /\ o.batch = Part(pipe.items, b) /\ o.pool = PoolOf(b) /\ o.after = After(b)
    BY <1>1, <2>2, <2>3 DEF Op
  <2> HIDE DEF o
  <2>5. /\ transport' \in Seq(Op) /\ Len(transport') = Len(transport) + 1
        /\ Len(transport) \in Nat /\ transport'[Len(transport) + 1] = o
        /\ \A i \in 1..Len(transport) : transport'[i] = transport[i]
    BY <2>1, <2>4, Appended DEF PipeInv, PipeTypes
  <2>6. PipeTypes'
    BY <1>2, <1>3, <2>1, <2>5 DEF PipeInv, PipeTypes
  <2>7. b - 1 = ran.read + Len(transport) /\ ran.read \in Nat
    BY <1>1, <1>5 DEF PipeInv, PipeCounts, PipeTypes
  <2>8. PipeCounts'
    <3>1. ran' = ran /\ Streamed' /\ Submitted' = Submitted
      BY <1>3, <1>5
    <3> HIDE DEF o
    <3> QED
      <4>1. b > 1 => Submitted' = b - 2 /\ pipe'.pc = "scatter"
        BY <1>1, <1>2, <3>1
      <4>2. b = 1 => Submitted' = 0 /\ pipe'.pc \in {"read", "last"}
        BY <1>1, <1>2, <3>1
      <4>3. pipe'.next - 1 = ran'.read + Len(transport')
        <5>1. pipe'.next = b + 1 /\ ran'.read = ran.read
          BY <1>2, <3>1
        <5> HIDE DEF b
        <5> QED
          BY <1>1, <2>5, <2>7, <5>1
      <4>4. pipe'.pc # "idle" /\ pipe'.raised = FALSE /\ pipe'.next = b + 1 /\ pipe'.pc # "finally"
        BY <1>2
      <4> HIDE DEF b
      <4> QED
        BY <1>1, <3>1, <4>1, <4>2, <4>3, <4>4 DEF PipeCounts
  <2>9. Queued'
    <3>1. \A i \in 1..Len(transport') :
            /\ transport'[i].batch = Part(pipe.items, ran.read + i)
            /\ transport'[i].pool = PoolOf(ran.read + i)
            /\ transport'[i].after = After(ran.read + i)
      <4> TAKE i \in 1..Len(transport')
      <4>1. CASE i \in 1..Len(transport)
        BY <1>1, <1>5, <2>5, <4>1 DEF PipeInv, Queued
      <4>2. CASE i = Len(transport) + 1
        <5>1. ran.read + (Len(transport) + 1) = b
          BY <1>1, <2>5, <2>7
        <5>2. ran.read + i = b /\ transport'[i] = o
          BY <2>5, <4>2, <5>1
        <5> QED
          BY <2>4, <5>2
      <4> QED
        BY <2>5, <4>1, <4>2
    <3> QED
      BY <1>1, <1>2, <1>3, <1>5, <3>1 DEF PipeInv, Queued
  <2> QED
    BY <2>6, <2>8, <2>9 DEF PipeInv
<1> QED
  BY <1>4, <1>5

\* A read that raises leads to the finally clause.
LEMMA ReadRaisesStep ==
    ASSUME PipeInv, ReadRaises, UNCHANGED channel
    PROVE  PipeInv'
<1>1. /\ pipe.pc = "read" /\ pipe.raised = FALSE
      /\ pipe' \in [pc : {"finally"}, items : Seq(Pages), next : Nat,
                    events : [{0, 1} -> Nat], pools : Nat, raised : {TRUE}]
      /\ pipe'.items = pipe.items /\ pipe'.next = pipe.next
      /\ UNCHANGED <<transport, scatters, ran, content, wrong>>
  BY DEF PipeInv, PipeTypes, PipeCounts, ReadRaises
<1>2. PipeTypes'
  BY <1>1 DEF PipeInv, PipeTypes
<1>3. PipeCounts'
  BY <1>1 DEF PipeInv, PipeCounts, Submitted, Streamed
<1>4. Queued'
  BY <1>1 DEF PipeInv, Queued, Streamed
<1> QED
  BY <1>2, <1>3, <1>4 DEF PipeInv

\* A scatter goes on the load stream, with the event of its read, and records its own.
LEMMA SubmitScatterStep ==
    ASSUME PipeInv, SubmitScatter(Streamed), UNCHANGED channel
    PROVE  PipeInv'
<1> DEFINE b == IF pipe.pc = "scatter" THEN pipe.next - 2 ELSE pipe.next - 1
           o == [batch |-> Batch(b), pool |-> PoolOf(b), after |-> IF Streamed THEN b ELSE 0]
<1>1. /\ pipe.pc \in {"scatter", "last"} /\ pipe.raised = FALSE /\ pipe.next \in Nat
      /\ Submitted = b - 1 /\ b \in Nat /\ b >= 1 /\ PoolOf(b) \in {0, 1}
  <2>1. /\ pipe.pc \in {"scatter", "last"} /\ pipe.raised = FALSE /\ pipe.next \in Nat
        /\ pipe.pc = "scatter" => pipe.next >= 3 /\ Submitted = pipe.next - 3
        /\ pipe.pc = "last" => pipe.next >= 2 /\ Submitted = pipe.next - 2
    BY DEF PipeInv, PipeTypes, PipeCounts, SubmitScatter
  <2>2. Submitted = b - 1 /\ b \in Nat /\ b >= 1
    BY <2>1
  <2> QED
    BY <2>1, <2>2, PoolTurns
<1>2. /\ pipe' \in [pc : {"read", "last", "finally"}, items : Seq(Pages), next : Nat,
                    events : [{0, 1} -> Nat], pools : Nat, raised : BOOLEAN]
      /\ pipe'.items = pipe.items /\ pipe'.next = pipe.next /\ pipe'.raised = FALSE
      /\ pipe.pc = "last" => pipe'.pc = "finally"
      /\ pipe.pc = "scatter" => /\ pipe'.pc \in {"read", "last"}
                                /\ pipe'.events = [pipe.events EXCEPT ![PoolOf(b)] = b]
  BY <1>1 DEF PipeInv, PipeTypes, SubmitScatter
<1>3. UNCHANGED <<transport, ran, content, wrong>> /\ scatters' = Append(scatters, o)
  BY DEF SubmitScatter
<1>4. Batch(b) = Part(pipe.items, b) /\ Part(pipe.items, b) \subseteq Pages
  BY BatchPages DEF Batch, Part, PipeInv, PipeTypes
<1>5. /\ o \in Op /\ o.batch = Part(pipe.items, b) /\ o.pool = PoolOf(b)
      /\ Streamed => o.after = b
  BY <1>1, <1>4 DEF Op
<1> HIDE DEF o
<1>6. /\ scatters' \in Seq(Op) /\ Len(scatters') = Len(scatters) + 1
      /\ Len(scatters) \in Nat /\ scatters'[Len(scatters) + 1] = o
      /\ \A i \in 1..Len(scatters) : scatters'[i] = scatters[i]
  BY <1>3, <1>5, Appended DEF PipeInv, PipeTypes
<1>7. PipeTypes'
  BY <1>2, <1>3, <1>6 DEF PipeInv, PipeTypes
<1>8. Submitted' = b /\ ran.scatter + Len(scatters) = b - 1 /\ ran.scatter \in Nat
  <2>1. ran.scatter + Len(scatters) = b - 1 /\ ran.scatter \in Nat
    BY <1>1 DEF Submitted, PipeInv, PipeTypes
  <2>2. ran' = ran /\ Submitted' = ran'.scatter + Len(scatters')
    BY <1>3 DEF Submitted
  <2> HIDE DEF b
  <2> QED
    BY <1>1, <1>6, <2>1, <2>2
<1>9. PipeCounts'
  <2>1. Streamed' = Streamed
    BY DEF Streamed
  <2>2. /\ pipe.pc = "scatter" => b = pipe.next - 2 /\ pipe.next >= 3
        /\ pipe.pc = "last" => b = pipe.next - 1 /\ pipe.next >= 2
    BY <1>1 DEF PipeInv, PipeCounts
  <2>3. /\ ~Streamed => transport = <<>>
        /\ Streamed => pipe.next - 1 = ran.read + Len(transport)
    BY <1>1 DEF PipeInv, PipeCounts
  <2> HIDE DEF b
  <2> QED
    <3>1. /\ pipe.pc = "scatter" => Submitted' = pipe'.next - 2 /\ pipe'.next >= 3
          /\ pipe.pc = "last" => Submitted' = pipe'.next - 1 /\ pipe'.next >= 2
      BY <1>1, <1>2, <1>8, <2>2
    <3>2. pipe'.pc # "idle" /\ pipe'.pc # "scatter" /\ pipe'.raised = FALSE
      BY <1>2
    <3>3. /\ ~Streamed' => transport' = <<>>
          /\ Streamed' => pipe'.next - 1 = ran'.read + Len(transport')
      BY <1>2, <1>3, <2>1, <2>3
    <3> QED
      BY <1>1, <1>2, <3>1, <3>2, <3>3 DEF PipeCounts
<1>10. Queued'
  <2> SUFFICES ASSUME Streamed, pipe'.pc # "idle" PROVE Queued'
    BY DEF Queued, Streamed
  <2>1. \A i \in 1..Len(scatters') :
          /\ scatters'[i].batch = Part(pipe.items, ran.scatter + i)
          /\ scatters'[i].pool = PoolOf(ran.scatter + i)
          /\ scatters'[i].after = ran.scatter + i
    <3> TAKE i \in 1..Len(scatters')
    <3>1. CASE i \in 1..Len(scatters)
      BY <1>1, <1>6, <3>1 DEF PipeInv, Queued
    <3>2. CASE i = Len(scatters) + 1
      <4>1. ran.scatter + (Len(scatters) + 1) = b
        <5> HIDE DEF b
        <5> QED
          BY <1>1, <1>6, <1>8, SMTT(30)
      <4>2. ran.scatter + i = b /\ scatters'[i] = o
        BY <1>6, <3>2, <4>1
      <4> QED
        BY <1>5, <4>2
    <3> QED
      BY <1>6, <3>1, <3>2
  <2>2. ASSUME pipe'.pc \in {"read", "scatter"}
        PROVE  /\ pipe'.events[PoolOf(b)] = b
               /\ pipe'.events[PoolOf(b + 1)] = IF b = 0 THEN 0 ELSE b - 1
    <3>1. pipe.pc = "scatter" /\ pipe'.events = [pipe.events EXCEPT ![PoolOf(b)] = b]
      BY <1>1, <1>2, <2>2
    <3>2. pipe.events[PoolOf(b - 1)] = b - 1 /\ pipe.events \in [{0, 1} -> Nat]
      BY <1>1, <3>1 DEF PipeInv, Queued, PipeTypes
    <3>3. PoolOf(b + 1) = PoolOf(b - 1) /\ PoolOf(b + 1) # PoolOf(b) /\ PoolOf(b + 1) \in {0, 1}
      BY <1>1, PoolTurns DEF PoolOf
    <3> HIDE DEF b
    <3> QED
      BY <1>1, <3>1, <3>2, <3>3
  <2> QED
    BY <1>1, <1>2, <1>3, <1>8, <2>1, <2>2 DEF PipeInv, Queued
<1> QED
  BY <1>7, <1>9, <1>10 DEF PipeInv

\* The transport stream runs its next read, after the scatter that still used the pool.
LEMMA RunReadStep ==
    ASSUME PipeInv, NEW good, RunRead(good), UNCHANGED channel
    PROVE  PipeInv'
<1>1. /\ Head(transport) = transport[1] /\ transport[1] \in Op
      /\ transport' \in Seq(Op) /\ Len(transport') = Len(transport) - 1
      /\ Len(transport) \in Nat /\ Len(transport) >= 1
      /\ \A i \in 1..Len(transport') : transport'[i] = transport[i + 1]
  BY Removed DEF RunRead, PipeInv, PipeTypes
<1>2. ran' \in [read : Nat, scatter : Nat] /\ ran'.read = ran.read + 1 /\ ran'.scatter = ran.scatter
  <2>1. ran' = [ran EXCEPT !.read = @ + 1] /\ ran \in [read : Nat, scatter : Nat]
    BY DEF RunRead, PipeInv, PipeTypes
  <2> QED
    BY <2>1
<1>3. /\ UNCHANGED <<pipe, scatters, wrong>> /\ transport[1].after <= ran.scatter
      /\ content' \in [{0, 1} -> SUBSET Pages]
  BY <1>1 DEF RunRead, PipeInv, PipeTypes, Op
<1>4. PipeTypes'
  BY <1>1, <1>2, <1>3 DEF PipeInv, PipeTypes
<1>5. Streamed /\ (pipe.pc = "idle" => pipe.raised)
  BY <1>1 DEF PipeInv, PipeCounts
<1>6. /\ Submitted' = Submitted /\ Streamed' = Streamed
      /\ ran.read \in Nat /\ ran.scatter \in Nat /\ Len(scatters) \in Nat
  BY <1>2, <1>3 DEF Submitted, Streamed, PipeInv, PipeTypes
<1>7. PipeCounts'
  BY <1>1, <1>2, <1>3, <1>5, <1>6, SMTT(30) DEF PipeInv, PipeCounts
<1>8. Queued'
  <2> SUFFICES ASSUME pipe.pc # "idle" PROVE Queued'
    BY <1>3 DEF Queued
  <2>1. \A i \in 1..Len(transport') :
          /\ transport'[i].batch = Part(pipe.items, ran'.read + i)
          /\ transport'[i].pool = PoolOf(ran'.read + i)
          /\ transport'[i].after = After(ran'.read + i)
    <3> TAKE i \in 1..Len(transport')
    <3>1. i + 1 \in 1..Len(transport)
      BY <1>1
    <3>2. ran'.read + i = ran.read + (i + 1)
      <4>1. i \in Int /\ ran.read \in Int /\ ran'.read = ran.read + 1
        BY <1>1, <1>2, <1>6
      <4> QED
        BY <4>1
    <3> QED
      BY <1>1, <1>5, <3>1, <3>2 DEF PipeInv, Queued
  <2>2. transport[1].after = After(ran.read + 1)
    BY <1>1, <1>5 DEF PipeInv, Queued
  <2>3. ran'.scatter <= ran'.read /\ ran'.read <= ran'.scatter + 2
    BY <1>2, <1>3, <1>5, <1>6, <2>2 DEF PipeInv, Queued, After
  <2> QED
    BY <1>2, <1>3, <1>5, <1>6, <2>1, <2>3 DEF PipeInv, Queued
<1> QED
  BY <1>4, <1>7, <1>8 DEF PipeInv

\* The load stream runs its next scatter, after its read.
LEMMA RunScatterStep ==
    ASSUME PipeInv, RunScatter, UNCHANGED channel
    PROVE  PipeInv'
<1>1. /\ Head(scatters) = scatters[1] /\ scatters[1] \in Op
      /\ scatters' \in Seq(Op) /\ Len(scatters') = Len(scatters) - 1
      /\ Len(scatters) \in Nat /\ Len(scatters) >= 1
      /\ \A i \in 1..Len(scatters') : scatters'[i] = scatters[i + 1]
  BY Removed DEF RunScatter, PipeInv, PipeTypes
<1>2. ran' \in [read : Nat, scatter : Nat] /\ ran'.scatter = ran.scatter + 1 /\ ran'.read = ran.read
  BY SMTT(30) DEF RunScatter, PipeInv, PipeTypes
<1>3. /\ UNCHANGED <<pipe, transport, content>> /\ scatters[1].after <= ran.read
      /\ wrong' \subseteq Pages
  BY <1>1 DEF RunScatter, PipeInv, PipeTypes, Op
<1>4. PipeTypes'
  BY <1>1, <1>2, <1>3 DEF PipeInv, PipeTypes
<1>5. pipe.pc # "idle"
  BY <1>1 DEF PipeInv, PipeCounts
<1>6. /\ Submitted' = Submitted /\ Streamed' = Streamed
      /\ ran.read \in Nat /\ ran.scatter \in Nat
  BY <1>1, <1>2 DEF Submitted, Streamed, PipeInv, PipeTypes
<1>7. PipeCounts'
  BY <1>2, <1>3, <1>5, <1>6 DEF PipeInv, PipeCounts
<1>8. Queued'
  <2> SUFFICES ASSUME Streamed PROVE Queued'
    BY <1>6 DEF Queued
  <2>1. \A i \in 1..Len(scatters') :
          /\ scatters'[i].batch = Part(pipe.items, ran'.scatter + i)
          /\ scatters'[i].pool = PoolOf(ran'.scatter + i)
          /\ scatters'[i].after = ran'.scatter + i
    <3> TAKE i \in 1..Len(scatters')
    <3>1. i + 1 \in 1..Len(scatters)
      BY <1>1
    <3>2. ran'.scatter + i = ran.scatter + (i + 1)
      <4>1. i \in Int /\ ran.scatter \in Int /\ ran'.scatter = ran.scatter + 1
        BY <1>1, <1>2, <1>6
      <4> QED
        BY <4>1
    <3> QED
      BY <1>1, <1>5, <3>1, <3>2 DEF PipeInv, Queued
  <2>2. scatters[1].after = ran.scatter + 1
    BY <1>1, <1>5 DEF PipeInv, Queued
  <2>3. ran'.scatter <= ran'.read /\ ran'.read <= ran'.scatter + 2
    BY <1>2, <1>3, <1>5, <1>6, <2>2 DEF PipeInv, Queued
  <2> QED
    BY <1>2, <1>3, <1>5, <1>6, <2>1, <2>3 DEF PipeInv, Queued
<1> QED
  BY <1>4, <1>7, <1>8 DEF PipeInv

\* The load stream is empty at the end; unless the load raised, so is the transport stream.
LEMMA PipeEndStep ==
    ASSUME PipeInv, PipeEnd, UNCHANGED channel
    PROVE  PipeInv'
<1>1. /\ pipe.pc = "finally" /\ scatters = <<>> /\ Len(scatters) = 0
      /\ pipe' \in [pc : {"idle"}, items : Seq(Pages), next : Nat,
                    events : [{0, 1} -> Nat], pools : {0}, raised : BOOLEAN]
      /\ pipe'.raised = pipe.raised /\ UNCHANGED <<transport, scatters, ran, content, wrong>>
  BY DEF PipeInv, PipeTypes, PipeEnd, StreamsEnded
<1>2. PipeTypes'
  BY <1>1 DEF PipeInv, PipeTypes
<1>3. /\ ran.read \in Nat /\ ran.scatter \in Nat /\ Len(transport) \in Nat
      /\ Len(transport) = 0 => transport = <<>>
  BY DEF PipeInv, PipeTypes
<1>4. ~pipe.raised => transport = <<>>
  BY <1>1, <1>3 DEF PipeInv, PipeCounts, Queued, Submitted
<1>5. PipeCounts' /\ Queued'
  BY <1>1, <1>4 DEF PipeInv, PipeCounts, Queued, Streamed
<1> QED
  BY <1>2, <1>5 DEF PipeInv

\* Nothing but a load touches the pipeline.
LEMMA PipeAlone ==
    ASSUME [Next]_vars
    PROVE  /\ UNCHANGED channel
           /\ \/ UNCHANGED pipeVars
              \/ \E S \in SUBSET Lookups : LoadBegin(S)
              \/ LoadStep \/ LoadEnd
BY QuietSteps DEF Next, Client, ClientStep, Server, HandlerStep, Quiet, vars, pipeVars,
   Start, Send, TimesOut, Reconnected, Arrived, ReadEnd, Finish, LoadBegin, LoadStep, LoadEnd,
   Receive, Look, WriteEnd, Answer, HandleDone, Sweep, Restart

\* Every step keeps the pipeline's invariant.
LEMMA PipeStep ==
    ASSUME PeerTypes, PipeInv, [Next]_vars
    PROVE  PipeInv'
<1>1. UNCHANGED channel
  BY PipeAlone
<1>2. CASE UNCHANGED pipeVars
  BY <1>1, <1>2 DEF pipeVars, PipeInv, PipeTypes, PipeCounts, Queued, Submitted, Streamed
<1>3. ASSUME NEW S \in SUBSET Lookups, LoadBegin(S) PROVE PipeInv'
  <2>1. PICK items \in Proxies(S), fails \in BOOLEAN : PipeBegin(items, fails)
    BY <1>3 DEF LoadBegin
  <2> QED
    BY <1>1, <2>1, ProxyLists, PipeBeginStep
<1>4. CASE LoadStep
  BY <1>1, <1>4, SubmitReadStep, ReadRaisesStep, SubmitScatterStep, RunReadStep, RunScatterStep
     DEF LoadStep
<1>5. CASE LoadEnd
  BY <1>1, <1>5, PipeEndStep DEF LoadEnd
<1> QED
  BY <1>2, <1>3, <1>4, <1>5, PipeAlone

\* A step of a load does not end it.
LEMMA LoadGoesOn ==
    ASSUME PipeInv, LoadStep
    PROVE  pipe'.items = pipe.items /\ (pipe'.pc = pipe.pc \/ pipe'.pc # "idle")
           /\ (pipe.pc = "idle" => UNCHANGED pipe)
           /\ UNCHANGED <<channel, mode, clientVars, netVars, serverVars>>
<1>1. UNCHANGED <<channel, mode, clientVars, netVars, serverVars>>
  BY DEF LoadStep, SubmitRead, ReadRaises, SubmitScatter, RunRead, RunScatter
<1>2. DOMAIN pipe = {"pc", "items", "next", "events", "pools", "raised"}
  BY DEF PipeInv, PipeTypes
<1> DEFINE On == pipe'.items = pipe.items /\ pipe.pc # "idle" /\ pipe'.pc # "idle"
<1>3. ASSUME SubmitRead(Streamed, Backed) PROVE On
  BY <1>2, <1>3 DEF SubmitRead
<1>4. ASSUME ReadRaises PROVE On
  BY <1>2, <1>4 DEF ReadRaises
<1>5. ASSUME SubmitScatter(Streamed) PROVE On
  BY <1>2, <1>5 DEF SubmitScatter
<1>6. ASSUME RunRead(Backed) \/ RunScatter PROVE UNCHANGED pipe
  BY <1>6 DEF RunRead, RunScatter
<1> QED
  BY <1>1, <1>3, <1>4, <1>5, <1>6 DEF LoadStep

\* What the client holds follows from the mode.
Modes ==
    \A l \in Lookups : /\ st[l] \in {"proxies", "load"} => mode = "delay"
                       /\ st[l] \in {"read", "done", "failed"} => mode = "eager"

ClientExact == Modes /\ BuffersExact

\* The client accounts for its pages in every step.
LEMMA ClientExactStep ==
    ASSUME PeerTypes, Asked, PipeInv, ClientExact, [Next]_vars
    PROVE  ClientExact'
<1>1. ASSUME Quiet PROVE ClientExact'
  BY <1>1 DEF Quiet, clientVars, netVars, serverVars, pipeVars, PeerTypes, Asked, ClientExact,
     Modes, BuffersExact
<1>2. ASSUME NEW l \in Lookups, Start(l) PROVE ClientExact'
  BY <1>2 DEF Start, Go, Keep, clientVars, netVars, serverVars, pipeVars, PeerTypes, Asked,
     ClientExact, Modes, BuffersExact
<1>3. ASSUME NEW l \in Lookups, Send(l) PROVE ClientExact'
  BY <1>3 DEF Send, Go, clientVars, netVars, serverVars, pipeVars, PeerTypes, Asked,
     ClientExact, Modes, BuffersExact
<1>4. ASSUME NEW l \in Lookups, TimesOut(l) PROVE ClientExact'
  BY <1>4 DEF TimesOut, Go, NoAnswer, clientVars, netVars, serverVars, pipeVars, PeerTypes,
     Asked, ClientExact, Modes, BuffersExact
<1>5. ASSUME NEW l \in Lookups, Reconnected(l) PROVE ClientExact'
  BY <1>5 DEF Reconnected, Go, Keep, clientVars, netVars, serverVars, pipeVars, PeerTypes,
     Asked, ClientExact, Modes, BuffersExact
<1>6. ASSUME NEW l \in Lookups, Arrived(l) PROVE ClientExact'
  BY <1>6 DEF Arrived, Go, Trim, Keep, NoAnswer, clientVars, netVars, serverVars, pipeVars,
     PeerTypes, Asked, ClientExact, Modes, BuffersExact
<1>7. ASSUME NEW l \in Lookups, ReadEnd(l) PROVE ClientExact'
  BY <1>7 DEF ReadEnd, Go, clientVars, netVars, serverVars, pipeVars, PeerTypes, Asked,
     ClientExact, Modes, BuffersExact
<1>8. ASSUME NEW l \in Lookups, Finish(l) PROVE ClientExact'
  BY <1>8 DEF Finish, SendDone, DoneRaises, Go, Trim, Keep, clientVars, netVars, serverVars,
     pipeVars, PeerTypes, Asked, ClientExact, Modes, BuffersExact
<1>9. ASSUME NEW S \in SUBSET Lookups, LoadBegin(S) PROVE ClientExact'
  BY <1>9 DEF LoadBegin, PipeBegin, PipeIdle, clientVars, netVars, serverVars, pipeVars,
     PeerTypes, Asked, ClientExact, Modes, BuffersExact
<1>10. ASSUME LoadStep PROVE ClientExact'
  BY <1>10, LoadGoesOn DEF ClientExact, Modes, BuffersExact, clientVars, serverVars, netVars
<1>11. ASSUME LoadEnd PROVE ClientExact'
  BY <1>11 DEF LoadEnd, Loading, PipeEnd, clientVars, netVars, serverVars, pipeVars, PeerTypes,
     Asked, ClientExact, Modes, BuffersExact
<1>12. ASSUME NEW r \in reqs, Receive(r) PROVE ClientExact'
  BY <1>12 DEF Receive, SrvIdle, clientVars, netVars, serverVars, pipeVars, PeerTypes, Asked,
     ClientExact, Modes, BuffersExact
<1>13. ASSUME Look PROVE ClientExact'
  BY <1>13 DEF Look, Register, Hold, clientVars, netVars, serverVars, pipeVars, PeerTypes,
     Asked, ClientExact, Modes, BuffersExact
<1>14. ASSUME WriteEnd PROVE ClientExact'
  BY <1>14 DEF WriteEnd, ReleaseWritten, Hold, clientVars, netVars, serverVars, pipeVars,
     PeerTypes, Asked, ClientExact, Modes, BuffersExact
<1>15. ASSUME Answer PROVE ClientExact'
  BY <1>15 DEF Answer, SrvIdle, clientVars, netVars, serverVars, pipeVars, PeerTypes, Asked,
     ClientExact, Modes, BuffersExact
<1>16. ASSUME NEW l \in Lookups, HandleDone(l) PROVE ClientExact'
  BY <1>16 DEF HandleDone, Pop, Hold, clientVars, netVars, serverVars, pipeVars, PeerTypes,
     Asked, ClientExact, Modes, BuffersExact
<1>17. ASSUME NEW l \in Lookups, Sweep(l) PROVE ClientExact'
  BY <1>17 DEF Sweep, Pop, Hold, clientVars, netVars, serverVars, pipeVars, PeerTypes, Asked,
     ClientExact, Modes, BuffersExact
<1>18. ASSUME Restart PROVE ClientExact'
  BY <1>18 DEF Restart, SrvIdle, clientVars, netVars, serverVars, pipeVars, PeerTypes, Asked,
     ClientExact, Modes, BuffersExact
<1> QED
  BY <1>1, <1>2, <1>3, <1>4, <1>5, <1>6, <1>7, <1>8, <1>9, <1>10, <1>11, <1>12, <1>13, <1>14,
     <1>15, <1>16, <1>17, <1>18, QuietSteps DEF Next, Client, ClientStep, Server, HandlerStep

-----------------------------------------------------------------------------
(***************************************************************************)
(* Which lookups the peer has pages for.                                   *)
(***************************************************************************)

Ended == {"returned", "gaveup", "raised"}
Fetched == {"read", "done", "failed", "proxies", "load"}

\* The peer has an entry for the lookup, or dropped it itself.
HasEntry(l) == l \in pending \union lapsed

\* A Done is sent when its lookup is over.
DonesLate == \A l \in Lookups : dones[l] > 0 => st[l] \in Ended

\* While an answer with hits is on its way to a lookup that still waits for it, and while the
\* lookup makes use of it, the peer has an entry.
Answered ==
    mode # "push" => \A l \in Lookups :
      /\ st[l] = "wait" /\ srv.pc = "ok" /\ srv.lookup = l /\ srv.try = tries[l] /\ srv.hits > 0
           => HasEntry(l)
      /\ st[l] = "wait" /\ answer.to = l /\ answer.try = tries[l] /\ answer.kind = "ok"
           /\ answer.hits > 0 => HasEntry(l)
      /\ st[l] \in Fetched => HasEntry(l)

\* An answer is no newer than the last request.
AnswerOld == \A l \in Lookups : answer.to = l => answer.try \in Nat /\ answer.try <= tries[l]

EntriesInv == DonesLate /\ Answered /\ AnswerOld

\* Entries have pages.
LEMMA EntryHeld ==
    ASSUME PeerTypes, ServerExact, NEW l \in pending
    PROVE  l \in Lookups /\ holds[l] > 0
<1>1. l \in Lookups /\ holds[l] \in Int
  BY DEF PeerTypes
<1>2. One(srv.pc = "write" /\ srv.lookup = l /\ srv.hits > 0) \in {0, 1} /\ One(l \in pending) = 1
  BY DEF One
<1> QED
  BY <1>1, <1>2 DEF ServerExact, HoldsExact

\* The handler and the handlers of Done and of the sweep keep the entries of lookups that
\* need them.
LEMMA EntriesStep ==
    ASSUME PeerTypes, Asked, ServerExact, EntriesInv, [Next]_vars
    PROVE  EntriesInv'
<1>1. ASSUME Quiet PROVE EntriesInv'
  BY <1>1 DEF Quiet, clientVars, netVars, serverVars, pipeVars, PeerTypes, Asked, EntriesInv,
     DonesLate, Answered, AnswerOld, HasEntry, Ended, Fetched
<1>2. ASSUME NEW l \in Lookups, Start(l) PROVE EntriesInv'
  BY <1>2 DEF Start, Go, Keep, clientVars, netVars, serverVars, pipeVars, PeerTypes, Asked,
     EntriesInv, DonesLate, Answered, AnswerOld, HasEntry, Ended, Fetched
<1>3. ASSUME NEW l \in Lookups, Send(l) PROVE EntriesInv'
  BY <1>3 DEF Send, Go, clientVars, netVars, serverVars, pipeVars, PeerTypes, Asked, EntriesInv,
     DonesLate, Answered, AnswerOld, HasEntry, Ended, Fetched
<1>4. ASSUME NEW l \in Lookups, TimesOut(l) PROVE EntriesInv'
  BY <1>4 DEF TimesOut, Go, NoAnswer, clientVars, netVars, serverVars, pipeVars, PeerTypes,
     Asked, EntriesInv, DonesLate, Answered, AnswerOld, HasEntry, Ended, Fetched
<1>5. ASSUME NEW l \in Lookups, Reconnected(l) PROVE EntriesInv'
  BY <1>5 DEF Reconnected, Go, Keep, clientVars, netVars, serverVars, pipeVars, PeerTypes,
     Asked, EntriesInv, DonesLate, Answered, AnswerOld, HasEntry, Ended, Fetched
<1>6. ASSUME NEW l \in Lookups, Arrived(l) PROVE EntriesInv'
  BY <1>6 DEF Arrived, Go, Trim, Keep, NoAnswer, clientVars, netVars, serverVars, pipeVars,
     PeerTypes, Asked, EntriesInv, DonesLate, Answered, AnswerOld, HasEntry, Ended, Fetched
<1>7. ASSUME NEW l \in Lookups, ReadEnd(l) PROVE EntriesInv'
  BY <1>7 DEF ReadEnd, Go, clientVars, netVars, serverVars, pipeVars, PeerTypes, Asked,
     EntriesInv, DonesLate, Answered, AnswerOld, HasEntry, Ended, Fetched
<1>8. ASSUME NEW l \in Lookups, Finish(l) PROVE EntriesInv'
  BY <1>8 DEF Finish, SendDone, DoneRaises, Go, Trim, Keep, clientVars, netVars, serverVars,
     pipeVars, PeerTypes, Asked, EntriesInv, DonesLate, Answered, AnswerOld, HasEntry, Ended,
     Fetched
<1>9. ASSUME NEW S \in SUBSET Lookups, LoadBegin(S) PROVE EntriesInv'
  BY <1>9 DEF LoadBegin, clientVars, netVars, serverVars, pipeVars, PeerTypes, Asked,
     EntriesInv, DonesLate, Answered, AnswerOld, HasEntry, Ended, Fetched
<1>10. ASSUME LoadStep PROVE EntriesInv'
  BY <1>10 DEF LoadStep, clientVars, netVars, serverVars, pipeVars, PeerTypes, Asked,
     EntriesInv, DonesLate, Answered, AnswerOld, HasEntry, Ended, Fetched
<1>11. ASSUME LoadEnd PROVE EntriesInv'
  BY <1>11 DEF LoadEnd, Loading, clientVars, netVars, serverVars, pipeVars, PeerTypes, Asked,
     EntriesInv, DonesLate, Answered, AnswerOld, HasEntry, Ended, Fetched
<1>12. ASSUME NEW r \in reqs, Receive(r) PROVE EntriesInv'
  BY <1>12 DEF Receive, SrvIdle, clientVars, netVars, serverVars, pipeVars, PeerTypes, Asked,
     EntriesInv, DonesLate, Answered, AnswerOld, HasEntry, Ended, Fetched
<1>13. ASSUME Look PROVE EntriesInv'
  BY <1>13, LookCases DEF EntriesInv, DonesLate, Answered, AnswerOld, HasEntry, clientVars,
     netVars
<1>14. ASSUME WriteEnd PROVE EntriesInv'
  BY <1>14 DEF WriteEnd, clientVars, netVars, serverVars, ServerExact, PushOnly, PeerTypes,
     EntriesInv, DonesLate, Answered, AnswerOld, HasEntry
<1>15. ASSUME Answer PROVE EntriesInv'
  BY <1>15 DEF Answer, SrvIdle, clientVars, netVars, serverVars, pipeVars, PeerTypes, Asked,
     EntriesInv, DonesLate, Answered, AnswerOld, HasEntry, Ended, Fetched
<1>16. ASSUME NEW l \in Lookups, HandleDone(l) PROVE EntriesInv'
  BY <1>16 DEF HandleDone, Pop, Hold, clientVars, netVars, serverVars, pipeVars, PeerTypes,
     Asked, EntriesInv, DonesLate, Answered, AnswerOld, HasEntry, Ended, Fetched
<1>17. ASSUME NEW l \in Lookups, Sweep(l) PROVE EntriesInv'
  BY <1>17 DEF Sweep, Pop, Hold, Expired, clientVars, netVars, serverVars, pipeVars, PeerTypes,
     Asked, EntriesInv, DonesLate, Answered, AnswerOld, HasEntry, Ended, Fetched
<1>18. ASSUME Restart PROVE EntriesInv'
  BY <1>18, EntryHeld DEF Restart, SrvIdle, clientVars, netVars, serverVars, PeerTypes,
     EntriesInv, DonesLate, Answered, AnswerOld, HasEntry
<1> QED
  BY <1>1, <1>2, <1>3, <1>4, <1>5, <1>6, <1>7, <1>8, <1>9, <1>10, <1>11, <1>12, <1>13, <1>14,
     <1>15, <1>16, <1>17, <1>18, QuietSteps DEF Next, Client, ClientStep, Server, HandlerStep

\* The proxies of a load belong to lookups that load.
LoadItems ==
    pipe.pc # "idle" => /\ mode = "delay"
                        /\ \A j \in 1..Len(pipe.items) : st[pipe.items[j][1]] = "load"

\* A lookup that loads does so until the load ends; dropped entries are remembered.
LEMMA LoadsStay ==
    ASSUME PeerTypes, [Next]_vars
    PROVE  /\ mode' = mode /\ lapsed \subseteq lapsed'
           /\ LoadEnd \/ \A l \in Lookups : st[l] = "load" => st'[l] = "load"
<1>1. CASE Quiet
  BY <1>1 DEF Quiet, clientVars, serverVars
<1>2. ASSUME NEW l \in Lookups, Start(l) \/ ClientStep(l)
      PROVE  /\ mode' = mode /\ lapsed \subseteq lapsed'
             /\ \A k \in Lookups : st[k] = "load" => st'[k] = "load"
  BY <1>2 DEF ClientStep, Start, Send, TimesOut, Reconnected, Arrived, ReadEnd, Finish, DoneRaises,
     Go, PeerTypes, clientVars, serverVars
<1>3. ASSUME NEW S \in SUBSET Lookups, LoadBegin(S)
      PROVE  /\ mode' = mode /\ lapsed \subseteq lapsed'
             /\ \A k \in Lookups : st[k] = "load" => st'[k] = "load"
  BY <1>3 DEF LoadBegin, PeerTypes, serverVars
<1>4. CASE LoadStep \/ LoadEnd
  BY <1>4 DEF LoadStep, LoadEnd, clientVars, serverVars
<1>5. CASE Server \/ Restart
  BY <1>5 DEF Server, HandlerStep, Receive, Look, WriteEnd, Answer, HandleDone, Sweep, Restart,
     clientVars, serverVars
<1> QED
  BY <1>1, <1>2, <1>3, <1>4, <1>5, QuietSteps DEF Next, Client

\* Every step keeps the proxies of a load with it.
LEMMA LoadItemsStep ==
    ASSUME PeerTypes, PipeInv, ClientExact, LoadItems, [Next]_vars
    PROVE  LoadItems'
<1>0. \A j \in 1..Len(pipe.items) : pipe.items[j] \in Pages /\ pipe.items[j][1] \in Lookups
  BY DEF PipeInv, PipeTypes, Pages
<1>1. CASE UNCHANGED pipeVars /\ ~LoadEnd
  BY <1>0, <1>1, LoadsStay DEF LoadItems, pipeVars
<1>2. ASSUME NEW S \in SUBSET Lookups, LoadBegin(S) PROVE LoadItems'
  <2>1. PICK items \in Proxies(S), fails \in BOOLEAN : PipeBegin(items, fails)
    BY <1>2 DEF LoadBegin
  <2>2. pipe'.items = items
    BY <2>1 DEF PipeBegin, PipeIdle
  <2>3. \A j \in 1..Len(items) : items[j][1] \in S
    BY ProxyLists
  <2>4. \A l \in S : st'[l] = "load" /\ mode = "delay"
    BY <1>2 DEF LoadBegin, ClientExact, Modes
  <2>5. mode' = "delay"
    BY <1>2, <2>4 DEF LoadBegin
  <2> QED
    BY <2>2, <2>3, <2>4, <2>5 DEF LoadItems
<1>3. CASE LoadStep
  BY <1>3, LoadGoesOn DEF LoadItems, clientVars
<1>4. CASE LoadEnd
  BY <1>4 DEF LoadEnd, PipeEnd, LoadItems, PipeInv, PipeTypes
<1> QED
  BY <1>1, <1>2, <1>3, <1>4, PipeAlone

PeerInv ==
    PeerTypes /\ Asked /\ ServerExact /\ PipeInv /\ ClientExact /\ EntriesInv /\ LoadItems

\* The initial states satisfy the invariant.
LEMMA PeerInit ==
    ASSUME Init
    PROVE  PeerInv
<1>1. /\ mode \in {"push", "eager", "delay"} /\ Chunks \in Nat /\ 0 \in 0..Chunks
      /\ None \notin Lookups
  BY PeerAssumption DEF Init
<1>2. PeerTypes /\ Asked
  BY <1>1 DEF Init, PeerTypes, Asked, SrvIdle, NoAnswer
<1>3. ServerExact
  BY DEF Init, ServerExact, FirstOnly, PushOnly, HoldsExact, One, SrvIdle
<1>4. PipeInv
  BY DEF Init, PipeInit, PipeIdle, PipeInv, PipeTypes, PipeCounts, Queued
<1>5. ClientExact
  BY DEF Init, PipeInit, PipeIdle, ClientExact, Modes, BuffersExact
<1>6. EntriesInv
  BY <1>1 DEF Init, EntriesInv, DonesLate, Answered, AnswerOld, Fetched, SrvIdle, NoAnswer
<1>7. LoadItems
  BY DEF Init, PipeInit, PipeIdle, LoadItems
<1> QED
  BY <1>2, <1>3, <1>4, <1>5, <1>6, <1>7 DEF PeerInv

\* Every step keeps it.
LEMMA PeerStep ==
    ASSUME PeerInv, [Next]_vars
    PROVE  PeerInv'
BY TypesStep, AskedStep, ServerStep, PipeStep, ClientExactStep, EntriesStep, LoadItemsStep
   DEF PeerInv

\* The invariant always holds.
LEMMA PeerAlways == Spec => []PeerInv
<1>1. Init => PeerInv
  BY PeerInit
<1>2. PeerInv /\ [Next]_vars => PeerInv'
  BY PeerStep
<1> QED
  BY <1>1, <1>2, PTL DEF Spec

\* On the server a lookup's pages are referenced by the handler that writes them or by the
\* entry of pending_pull_resources, and the client holds exactly the pages its lookup's state
\* calls for, whatever is lost, repeated or fails.
THEOREM PagesAlwaysExact == Spec => []PagesExact
<1>1. PeerInv => PagesExact
  BY DEF PeerInv, ServerExact, ClientExact, PagesExact
<1> QED
  BY <1>1, PeerAlways, PTL

\* The pages a load reads are held, or the server dropped them itself.
LEMMA LoadedHeld ==
    ASSUME PeerInv, pipe.pc # "idle", NEW b, NEW x \in Part(pipe.items, b)
    PROVE  /\ x \in Pages /\ x[1] \in Lookups
           /\ x[1] \in lapsed \/ holds[x[1]] > 0
<1>1. PICK j \in 1..Len(pipe.items) : x = pipe.items[j]
  BY BatchPages DEF PeerInv, PipeInv, PipeTypes
<1>2. x \in Pages /\ x[1] \in Lookups
  BY <1>1 DEF PeerInv, PipeInv, PipeTypes, Pages
<1>3. mode = "delay" /\ st[x[1]] = "load"
  BY <1>1 DEF PeerInv, LoadItems
<1>4. HasEntry(x[1])
  BY <1>2, <1>3 DEF PeerInv, EntriesInv, Answered, Fetched
<1> QED
  BY <1>2, <1>4, EntryHeld DEF PeerInv, HasEntry

\* A peer's pages are read only while it holds them: neither a Done, repeated or not, nor the
\* end of a load overtakes a read that is under way on the loop or on the transport stream.
THEOREM ReadsAlwaysHeld == Spec => []ReadsHeld
<1>1. ASSUME PeerInv, NEW l \in Lookups \ lapsed, st[l] = "read" PROVE holds[l] > 0
  <2>1. mode # "push" /\ st[l] \in Fetched
    BY <1>1 DEF PeerInv, ClientExact, Modes, Fetched
  <2>2. l \in pending
    BY <1>1, <2>1 DEF PeerInv, EntriesInv, Answered, HasEntry
  <2> QED
    BY <1>1, <2>2, EntryHeld DEF PeerInv
<1>2. ASSUME PeerInv, NEW l \in Lookups \ lapsed, ~pipe.raised, NEW i \in DOMAIN transport,
             NEW c \in 1..Chunks, <<l, c>> \in transport[i].batch
      PROVE  holds[l] > 0
  <2>1. i \in 1..Len(transport) /\ transport # <<>>
    BY <1>2 DEF PeerInv, PipeInv, PipeTypes
  <2>2. Streamed /\ pipe.pc # "idle"
    BY <1>2, <2>1 DEF PeerInv, PipeInv, PipeCounts
  <2>3. transport[i].batch = Part(pipe.items, ran.read + i)
    BY <1>2, <2>1, <2>2 DEF PeerInv, PipeInv, Queued
  <2>4. PICK x \in Part(pipe.items, ran.read + i) : x = <<l, c>>
    BY <1>2, <2>3
  <2>5. x[1] \in lapsed \/ holds[x[1]] > 0
    BY <1>2, <2>2, LoadedHeld
  <2> QED
    BY <2>4, <2>5
<1>3. PeerInv => ReadsHeld
  BY <1>1, <1>2 DEF ReadsHeld
<1> QED
  BY <1>3, PeerAlways, PTL

-----------------------------------------------------------------------------
(***************************************************************************)
(* The pools.  A channel without a transport stream reads while the host   *)
(* runs ahead of the scatters, and has nothing to order the two by.        *)
(***************************************************************************)

\* Between its read and its scatter a pool has the pages of its batch, but those the server
\* dropped.
Filled ==
    pipe.pc # "idle" => \A b \in Nat : ran.scatter < b /\ b <= ran.read =>
      \A x \in Part(pipe.items, b) : x \in content[PoolOf(b)] \/ x[1] \in lapsed

PoolsInv == <<mode, channel>> \in Setups /\ Filled /\ PoolsIntact

\* Every step keeps the pools intact.
LEMMA PoolsStep ==
    ASSUME <<"delay", "hixl">> \notin Setups, PeerInv, PoolsInv, [Next]_vars
    PROVE  PoolsInv'
<1>1. UNCHANGED <<mode, channel>> /\ lapsed \subseteq lapsed' /\ PipeInv
  BY PipeAlone, LoadsStay DEF PeerInv
<1>2. pipe.pc # "idle" => Streamed
  BY DEF PeerInv, LoadItems, PoolsInv, Streamed
<1>3. ran.read \in Nat /\ ran.scatter \in Nat
  BY <1>1 DEF PipeInv, PipeTypes
<1>4. CASE UNCHANGED pipeVars
  BY <1>1, <1>4 DEF pipeVars, PoolsInv, Filled, PoolsIntact
<1>5. ASSUME NEW S \in SUBSET Lookups, LoadBegin(S) PROVE PoolsInv'
  <2>1. ran'.read = 0 /\ ran'.scatter = 0 /\ UNCHANGED <<wrong, lapsed>>
    BY <1>5 DEF LoadBegin, PipeBegin, serverVars
  <2> QED
    BY <1>1, <2>1 DEF PoolsInv, Filled, PoolsIntact
<1>6. CASE LoadStep
  <2>0. /\ pipe'.items = pipe.items /\ (pipe'.pc # "idle" => pipe.pc # "idle")
        /\ UNCHANGED lapsed
    BY <1>1, <1>6, LoadGoesOn DEF serverVars
  <2>1. CASE pipe.pc # "idle" /\ UNCHANGED <<ran, content, wrong>>
    BY <1>1, <2>0, <2>1 DEF PoolsInv, Filled, PoolsIntact
  <2>2. ASSUME RunRead(Backed) PROVE PoolsInv'
    <3> SUFFICES ASSUME pipe.pc # "idle" PROVE Filled'
      BY <1>1, <2>0, <2>2 DEF RunRead, PoolsInv, Filled, PoolsIntact
    <3>1. /\ transport # <<>> /\ Head(transport) = transport[1] /\ Len(transport) >= 1
          /\ ran'.read = ran.read + 1 /\ ran'.scatter = ran.scatter
      BY <1>1, <2>2, Removed DEF RunRead, PipeInv, PipeTypes
    <3>2. /\ transport[1].batch = Part(pipe.items, ran.read + 1)
          /\ transport[1].pool = PoolOf(ran.read + 1)
      BY <1>1, <1>2, <3>1 DEF PipeInv, Queued
    <3>3. content' = [content EXCEPT ![PoolOf(ran.read + 1)] =
                                       Part(pipe.items, ran.read + 1) \cap Backed]
      BY <2>2, <3>1, <3>2 DEF RunRead
    <3>4. ran'.read <= ran'.scatter + 2
      BY <1>1, <1>2, <2>0, <2>2, <3>1, RunReadStep DEF RunRead, PipeInv, Queued, Streamed
    <3>5. ASSUME NEW b \in Nat, ran'.scatter < b, b <= ran'.read, NEW x \in Part(pipe.items, b)
          PROVE  x \in content'[PoolOf(b)] \/ x[1] \in lapsed
      <4>1. b = ran.read + 1 \/ b = ran.read
        BY <1>3, <3>1, <3>4, <3>5
      <4>2. DOMAIN content = {0, 1} /\ PoolOf(b) \in {0, 1}
        BY <1>1, PoolTurns DEF PipeInv, PipeTypes
      <4>3. CASE b = ran.read + 1
        <5>1. x \in Backed \/ x[1] \in lapsed
          BY <3>5, LoadedHeld DEF Backed, Pages
        <5> QED
          BY <3>3, <3>5, <4>2, <4>3, <5>1
      <4>4. CASE b = ran.read
        <5>1. PoolOf(b) # PoolOf(ran.read + 1)
          BY <1>3, <4>4, PoolTurns
        <5>2. content'[PoolOf(b)] = content[PoolOf(b)]
          BY <3>3, <4>2, <5>1
        <5>3. ran.scatter < b /\ b <= ran.read
          BY <1>3, <3>1, <3>5, <4>4
        <5> QED
          BY <3>5, <5>2, <5>3 DEF PoolsInv, Filled
      <4> QED
        BY <4>1, <4>3, <4>4
    <3> QED
      BY <2>0, <3>5 DEF Filled
  <2>3. ASSUME RunScatter PROVE PoolsInv'
    <3>1. /\ scatters # <<>> /\ Head(scatters) = scatters[1] /\ Len(scatters) >= 1
          /\ ran'.scatter = ran.scatter + 1 /\ ran'.read = ran.read /\ content' = content
      BY <1>1, <2>3, Removed DEF RunScatter, PipeInv, PipeTypes
    <3>2. pipe.pc # "idle" /\ Streamed
      BY <1>1, <1>2, <3>1 DEF PipeInv, PipeCounts
    <3>3. /\ scatters[1].batch = Part(pipe.items, ran.scatter + 1)
          /\ scatters[1].pool = PoolOf(ran.scatter + 1)
          /\ scatters[1].after = ran.scatter + 1
      BY <1>1, <3>1, <3>2 DEF PipeInv, Queued
    <3>4. /\ ran.scatter + 1 <= ran.read
          /\ wrong' = wrong \union (Part(pipe.items, ran.scatter + 1)
                                      \ content[PoolOf(ran.scatter + 1)])
      BY <2>3, <3>1, <3>3 DEF RunScatter
    <3>5. \A x \in Part(pipe.items, ran.scatter + 1) :
            x \in content[PoolOf(ran.scatter + 1)] \/ x[1] \in lapsed
      BY <1>3, <3>2, <3>4 DEF PoolsInv, Filled
    <3>6. PoolsIntact'
      BY <2>0, <3>4, <3>5 DEF PoolsInv, PoolsIntact
    <3>7. Filled'
      <4> SUFFICES ASSUME NEW b \in Nat, ran'.scatter < b, b <= ran'.read
                   PROVE  \A x \in Part(pipe.items, b) :
                            x \in content[PoolOf(b)] \/ x[1] \in lapsed
        BY <2>0, <3>1 DEF Filled
      <4>1. ran.scatter < b /\ b <= ran.read
        BY <1>3, <3>1
      <4> QED
        BY <3>2, <4>1 DEF PoolsInv, Filled
    <3> QED
      BY <1>1, <3>6, <3>7 DEF PoolsInv
  <2>4. \/ RunRead(Backed) \/ RunScatter
        \/ pipe.pc # "idle" /\ UNCHANGED <<ran, content, wrong>>
    <3>1. CASE SubmitRead(Streamed, Backed)
      BY <1>2, <3>1 DEF SubmitRead
    <3>2. CASE ReadRaises \/ SubmitScatter(Streamed)
      BY <3>2 DEF ReadRaises, SubmitScatter
    <3> QED
      BY <1>6, <3>1, <3>2 DEF LoadStep
  <2> QED
    BY <2>1, <2>2, <2>3, <2>4
<1>7. CASE LoadEnd
  <2>1. pipe'.pc = "idle" /\ UNCHANGED <<wrong, lapsed>>
    BY <1>1, <1>7 DEF LoadEnd, PipeEnd, serverVars, PipeInv, PipeTypes
  <2> QED
    BY <1>1, <2>1 DEF PoolsInv, Filled, PoolsIntact
<1> QED
  BY <1>4, <1>5, <1>6, <1>7, PipeAlone

\* A read never overwrites a pool whose batch is still to be scattered, so the KV blocks of a
\* proxy get its own pages, but for those the server dropped.  The hypothesis leaves out
\* proxies over hixl, which has no transport stream: there the property fails.
THEOREM PoolsAlwaysIntact ==
    ASSUME <<"delay", "hixl">> \notin Setups
    PROVE  Spec => []PoolsIntact
<1>1. Init => PeerInv /\ PoolsInv
  <2> SUFFICES ASSUME Init PROVE PeerInv /\ PoolsInv
    OBVIOUS
  <2>1. pipe.pc = "idle" /\ wrong = {}
    BY DEF Init, PipeInit, PipeIdle
  <2>2. <<mode, channel>> \in Setups
    <3>1. PICK s \in Setups : mode = s[1] /\ channel = s[2]
      BY DEF Init
    <3>2. s = <<s[1], s[2]>>
      BY PeerAssumption
    <3> QED
      BY <3>1, <3>2
  <2> QED
    BY <2>1, <2>2, PeerInit DEF PoolsInv, Filled, PoolsIntact
<1>2. (PeerInv /\ PoolsInv) /\ [Next]_vars => (PeerInv /\ PoolsInv)'
  BY PeerStep, PoolsStep
<1>3. PoolsInv => PoolsIntact
  BY DEF PoolsInv
<1> QED
  BY <1>1, <1>2, <1>3, PTL DEF Spec

=============================================================================
