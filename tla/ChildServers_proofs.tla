------------------------- MODULE ChildServers_proofs -------------------------
(***************************************************************************)
(* For any number of queries and documents and an updates channel of any    *)
(* capacity: a document is announced once, a query that waits alone is      *)
(* woken, a session that is given up leaves no child, whoever writes holds *)
(* the mutex, and every variable keeps its type.                           *)
(***************************************************************************)
EXTENDS RpcConn_proofs

QueryPoints == {"idle", "notify", "notifying", "check", "select", "done"}

QueryTypes ==
    /\ qpc \in [Queries -> QueryPoints]
    /\ doc = [q \in Queries |-> doc[q]]
    /\ \A q \in Queries : qpc[q] # "idle" => doc[q] \in Uris
    /\ updated \in Seq(Uris)
    /\ didOpen \in [Uris -> Nat]
    /\ reader \in {"publish", "signal"} => frame \in PublishFrames

\* A query that has marked its document and not yet told the server.
Announcing(q) == qpc[q] \in {"notify", "notifying"}

\* The mark in opened is set by one query, and that one alone announces the document.
OneAnnouncer ==
    /\ \A u \in Uris : didOpen[u] <= 1 /\ (u \notin opened => didOpen[u] = 0)
    /\ \A q \in Queries : Announcing(q) => doc[q] \in opened /\ didOpen[doc[q]] = 0
    /\ \A q, r \in Queries : Announcing(q) /\ Announcing(r) /\ q # r => doc[q] # doc[r]

\* Of two queries that wait at the same time each knows of the other.
SharedKnown ==
    \A q, r \in Queries : q # r /\ qpc[q] \in Waiting /\ qpc[r] \in Waiting => q \in shared

QueryInv == QueryTypes /\ OneAnnouncer /\ SharedKnown /\ WakeupNotLost

\* What QueryInv is about, but for the reader and its frame.
queryVars == <<qpc, doc, shared, opened, diags, updated, didOpen>>

LEMMA InitQueryInv == Init => QueryInv
<1> SUFFICES ASSUME Init PROVE QueryInv
  OBVIOUS
<1> USE DEF Init, RpcInit
<1>0. <<>> \in Seq(Uris)
  OBVIOUS
<1>1. QueryTypes
  BY <1>0 DEF QueryTypes, QueryPoints
<1>2. OneAnnouncer /\ SharedKnown /\ WakeupNotLost
  BY DEF OneAnnouncer, Announcing, SharedKnown, WakeupNotLost, Waiting
<1> QED
  BY <1>1, <1>2 DEF QueryInv

\* Steps that leave the queries alone; a pending signal stays.
LEMMA OthersKeepQueryInv ==
  ASSUME QueryInv, UNCHANGED queryVars,
         reader' \in {"publish", "signal"} => frame' \in PublishFrames,
         reader = "signal" => reader' = "signal"
  PROVE  QueryInv'
<1>1. QueryTypes'
  BY DEF QueryInv, QueryTypes, queryVars
<1>2. OneAnnouncer'
  BY DEF QueryInv, OneAnnouncer, Announcing, queryVars
<1>3. SharedKnown' /\ WakeupNotLost'
  BY DEF QueryInv, SharedKnown, WakeupNotLost, queryVars
<1> QED
  BY <1>1, <1>2, <1>3 DEF QueryInv

LEMMA FrameKeepsQueryInv ==
  ASSUME QueryInv, UNCHANGED queryVars, UNCHANGED <<reader, frame>>
  PROVE  QueryInv'
BY OthersKeepQueryInv DEF QueryInv, QueryTypes

\* The reader takes diagnostics up in ReadFrame alone.
LEMMA ReaderKeepsQueryInv ==
  ASSUME ConnInv, QueryInv, ReaderStep, UNCHANGED queryVars
  PROVE  QueryInv'
<1>1. CASE ReadFrame
  <2>1. /\ reader = "read" /\ outbox # <<>> /\ reader' = Meaning(Head(outbox))
        /\ frame' = IF reader' \in {"read", "fail"} THEN NoFrame ELSE Head(outbox)
    BY <1>1 DEF ReadFrame
  <2>2. Head(outbox) \in Frames
    BY <2>1, FirstFrame
  <2>3. ASSUME NEW f \in Frames
        PROVE  Meaning(f) # "signal" /\ (Meaning(f) = "publish" => f \in PublishFrames)
    BY DEF Meaning, McpMeaning, LspMeaning, AcpMeaning, Frames, CallFrames, PlainFrames
  <2> DEFINE f == Head(outbox)
  <2>4. reader' = Meaning(f) /\ frame' = IF reader' \in {"read", "fail"} THEN NoFrame ELSE f
    BY <2>1
  <2>5. Meaning(f) # "signal" /\ (Meaning(f) = "publish" => f \in PublishFrames)
    BY <2>2, <2>3
  <2> HIDE DEF f
  <2>6. reader' \in {"publish", "signal"} => frame' \in PublishFrames
    BY <2>4, <2>5
  <2> QED
    BY <2>1, <2>6, OthersKeepQueryInv
<1>2. CASE ReadFails \/ Lookup \/ Send \/ ReplyLock \/ Reply \/ EndLoop \/ CloseDone
  <2>1. reader' \notin {"publish", "signal"} /\ reader # "signal"
    BY <1>2 DEF ReadFails, Lookup, Send, ReplyLock, Reply, EndLoop, CloseDone, NextFrame
  <2> QED
    BY <2>1, OthersKeepQueryInv
<1> QED
  BY <1>1, <1>2 DEF ReaderStep

\* Diagnostics arrive: the entry, then the signal.
LEMMA DiagsKeepQueryInv ==
  ASSUME QueryInv, SessionAssumption, StoreDiags \/ SignalDiags
  PROVE  QueryInv'
<1>1. CASE StoreDiags
  <2>1. /\ reader = "publish" /\ reader' = "signal"
        /\ UNCHANGED <<frame, qpc, doc, shared, opened, updated, didOpen>>
    BY <1>1 DEF StoreDiags
  <2>2. QueryTypes'
    BY <2>1 DEF QueryInv, QueryTypes
  <2>3. OneAnnouncer'
    BY <2>1 DEF QueryInv, OneAnnouncer, Announcing
  <2>4. SharedKnown' /\ WakeupNotLost'
    BY <2>1 DEF QueryInv, SharedKnown, WakeupNotLost
  <2> QED
    BY <2>2, <2>3, <2>4 DEF QueryInv
<1>2. CASE SignalDiags
  <2>1. /\ reader = "signal" /\ reader' = "read" /\ updated' = SentUpdate
        /\ UNCHANGED <<qpc, doc, shared, opened, diags, didOpen>>
    BY <1>2 DEF SignalDiags, NextFrame
  <2>2. updated \in Seq(Uris) /\ frame.uri \in Uris
    BY <2>1 DEF QueryInv, QueryTypes, PublishFrames
  <2>3. updated' \in Seq(Uris) /\ updated' # <<>>
    <3>1. CASE Len(updated) < UpdatedCap
      <4>1. /\ Append(updated, frame.uri) \in Seq(Uris)
            /\ Len(Append(updated, frame.uri)) = Len(updated) + 1
            /\ Len(updated) \in Nat
        BY <2>2, AppendProperties
      <4>2. Append(updated, frame.uri) # <<>>
        BY <4>1, EmptySeq
      <4> QED
        BY <2>1, <3>1, <4>1, <4>2 DEF SentUpdate
    <3>2. CASE ~(Len(updated) < UpdatedCap)
      <4>1. updated # <<>>
        BY <2>2, <3>2 DEF SessionAssumption
      <4> QED
        BY <2>1, <2>2, <3>2, <4>1 DEF SentUpdate
    <3> QED
      BY <3>1, <3>2
  <2>4. QueryTypes'
    BY <2>1, <2>3 DEF QueryInv, QueryTypes
  <2>5. OneAnnouncer'
    BY <2>1 DEF QueryInv, OneAnnouncer, Announcing
  <2>6. SharedKnown' /\ WakeupNotLost'
    BY <2>1, <2>3 DEF QueryInv, SharedKnown, WakeupNotLost
  <2> QED
    BY <2>4, <2>5, <2>6 DEF QueryInv
<1> QED
  BY <1>1, <1>2

(***************************************************************************)
(* The steps of a query.                                                   *)
(***************************************************************************)

\* A document not yet marked has nobody who announces it.
LEMMA OpenPathKeepsQueryInv ==
  ASSUME QueryInv, NEW q \in Queries, NEW u \in Uris, OpenPath(q, u)
  PROVE  QueryInv'
<1> DEFINE to == IF u \in opened THEN "done" ELSE "notify"
<1>1. /\ qpc[q] = "idle" /\ qpc' = [qpc EXCEPT ![q] = to]
      /\ doc' = [doc EXCEPT ![q] = u] /\ opened' = opened \cup {u}
      /\ UNCHANGED <<shared, diags, updated, didOpen, reader, frame>>
  BY DEF OpenPath, At, AlreadyOpen, rpcVars, connVars
<1>2. /\ to \in {"done", "notify"} /\ (to = "notify" => u \notin opened)
      /\ to \in QueryPoints /\ to # "idle"
  BY DEF QueryPoints
<1> HIDE DEF to
<1>3. /\ qpc \in [Queries -> QueryPoints] /\ doc = [r \in Queries |-> doc[r]]
      /\ \A r \in Queries : qpc[r] # "idle" => doc[r] \in Uris
  BY DEF QueryInv, QueryTypes
<1>4. /\ qpc'[q] = to /\ doc'[q] = u
      /\ \A r \in Queries \ {q} : qpc'[r] = qpc[r] /\ doc'[r] = doc[r]
  BY <1>1, <1>3
<1>5. QueryTypes'
  <2>1. qpc' \in [Queries -> QueryPoints] /\ doc' = [r \in Queries |-> doc'[r]]
    BY <1>1, <1>2, <1>3
  <2>2. \A r \in Queries : qpc'[r] # "idle" => doc'[r] \in Uris
    BY <1>3, <1>4
  <2> QED
    BY <1>1, <2>1, <2>2 DEF QueryInv, QueryTypes
<1>6. OneAnnouncer'
  <2>1. \A v \in Uris : didOpen'[v] <= 1 /\ (v \notin opened' => didOpen'[v] = 0)
    BY <1>1 DEF QueryInv, OneAnnouncer
  <2>2. \A r \in Queries \ {q} : Announcing(r)' <=> Announcing(r)
    BY <1>4 DEF Announcing
  <2>3. Announcing(q)' => u \notin opened /\ didOpen[u] = 0
    BY <1>2, <1>4 DEF Announcing, QueryInv, OneAnnouncer
  <2>4. \A r \in Queries : Announcing(r)' => doc'[r] \in opened' /\ didOpen'[doc'[r]] = 0
    BY <1>1, <1>4, <2>2, <2>3 DEF QueryInv, OneAnnouncer
  <2>5. \A r \in Queries \ {q} : Announcing(q)' /\ Announcing(r)' => doc'[r] # doc'[q]
    BY <1>4, <2>2, <2>3 DEF QueryInv, OneAnnouncer
  <2>6. \A r, s \in Queries : Announcing(r)' /\ Announcing(s)' /\ r # s => doc'[r] # doc'[s]
    BY <1>4, <2>2, <2>5 DEF QueryInv, OneAnnouncer
  <2> QED
    BY <2>1, <2>4, <2>6 DEF OneAnnouncer
<1>7. SharedKnown'
  BY <1>1, <1>2, <1>4 DEF QueryInv, SharedKnown, Waiting
<1>8. WakeupNotLost'
  BY <1>1, <1>2, <1>4 DEF QueryInv, WakeupNotLost
<1> QED
  BY <1>5, <1>6, <1>7, <1>8 DEF QueryInv

\* The steps that move one query on without an announcement.
LEMMA MoveOnKeepsQueryInv ==
  ASSUME QueryInv, NEW q \in Queries, NEW to \in QueryPoints \ {"idle"},
         qpc[q] # "idle", qpc' = [qpc EXCEPT ![q] = to],
         UNCHANGED <<doc, shared, opened, diags, didOpen, reader, frame>>,
         updated' \in Seq(Uris),
         to \in {"notify", "notifying"} => Announcing(q),
         to \in Waiting => qpc[q] \in Waiting,
         to = "select" => doc[q] \notin diags,
         updated' = updated \/ qpc[q] = "select"
  PROVE  QueryInv'
<1>1. qpc \in [Queries -> QueryPoints]
  BY DEF QueryInv, QueryTypes
<1>2. qpc'[q] = to /\ \A r \in Queries \ {q} : qpc'[r] = qpc[r]
  BY <1>1
<1>3. QueryTypes'
  BY <1>1, <1>2 DEF QueryInv, QueryTypes
<1>4. \A r \in Queries : (Announcing(r)' => Announcing(r)) /\ (qpc'[r] \in Waiting => qpc[r] \in Waiting)
  BY <1>2 DEF Announcing
<1>5. OneAnnouncer'
  BY <1>4 DEF QueryInv, OneAnnouncer
<1>6. SharedKnown'
  BY <1>4 DEF QueryInv, SharedKnown
<1>7. WakeupNotLost'
  <2> SUFFICES ASSUME NEW r \in Queries \ shared, qpc'[r] = "select", doc[r] \in diags
               PROVE  updated' # <<>> \/ reader = "signal"
    BY DEF WakeupNotLost
  <2>1. r # q /\ qpc[r] = "select"
    BY <1>2
  <2>2. qpc[q] # "select"
    BY <2>1 DEF QueryInv, SharedKnown, Waiting
  <2> QED
    BY <2>1, <2>2 DEF QueryInv, WakeupNotLost
<1> QED
  BY <1>3, <1>5, <1>6, <1>7 DEF QueryInv

\* The announcement, after which the query begins to wait.
LEMMA OpenNotifyKeepsQueryInv ==
  ASSUME QueryInv, NEW q \in Queries, OpenNotify(q)
  PROVE  QueryInv'
<1>1. /\ qpc[q] = "notifying"
      /\ UNCHANGED <<doc, opened, diags, updated, reader, frame>>
      /\ \/ /\ didOpen' = [didOpen EXCEPT ![doc[q]] = @ + 1]
            /\ qpc' = [qpc EXCEPT ![q] = "check"]
            /\ shared' = shared \cup Others(q) \cup (IF Others(q) = {} THEN {} ELSE {q})
         \/ qpc' = [qpc EXCEPT ![q] = "done"] /\ UNCHANGED <<didOpen, shared>>
  BY DEF OpenNotify, At
<1>2. CASE qpc' = [qpc EXCEPT ![q] = "done"] /\ UNCHANGED <<didOpen, shared>>
  BY <1>1, <1>2, MoveOnKeepsQueryInv DEF QueryInv, QueryTypes, QueryPoints, Waiting
<1>3. CASE /\ didOpen' = [didOpen EXCEPT ![doc[q]] = @ + 1]
           /\ qpc' = [qpc EXCEPT ![q] = "check"]
           /\ shared' = shared \cup Others(q) \cup (IF Others(q) = {} THEN {} ELSE {q})
  <2>1. /\ qpc \in [Queries -> QueryPoints] /\ didOpen \in [Uris -> Nat]
        /\ doc[q] \in Uris /\ didOpen[doc[q]] = 0 /\ doc[q] \in opened
    BY <1>1 DEF QueryInv, QueryTypes, OneAnnouncer, Announcing
  <2>2. qpc'[q] = "check" /\ \A r \in Queries \ {q} : qpc'[r] = qpc[r]
    BY <1>3, <2>1
  <2>3. /\ didOpen' \in [Uris -> Nat] /\ didOpen'[doc[q]] = 1
        /\ \A u \in Uris : u # doc[q] => didOpen'[u] = didOpen[u]
    BY <1>3, <2>1
  <2>4. QueryTypes'
    <3>1. qpc' \in [Queries -> QueryPoints]
      BY <1>3, <2>1 DEF QueryPoints
    <3>2. \A r \in Queries : qpc'[r] # "idle" => doc'[r] \in Uris
      BY <1>1, <2>1, <2>2 DEF QueryInv, QueryTypes
    <3> QED
      BY <1>1, <2>3, <3>1, <3>2 DEF QueryInv, QueryTypes
  <2>5. OneAnnouncer'
    <3>1. \A u \in Uris : didOpen'[u] <= 1 /\ (u \notin opened' => didOpen'[u] = 0)
      BY <1>1, <2>1, <2>3 DEF QueryInv, OneAnnouncer
    <3>2. \A r \in Queries : Announcing(r)' => r # q /\ Announcing(r) /\ Announcing(q)
      BY <1>1, <2>2 DEF Announcing
    <3>3. \A r \in Queries : Announcing(r) => doc[r] \in Uris
      BY DEF QueryInv, QueryTypes, Announcing
    <3>4. \A r \in Queries : Announcing(r)' => doc'[r] \in opened' /\ didOpen'[doc'[r]] = 0
      BY <1>1, <2>3, <3>2, <3>3 DEF QueryInv, OneAnnouncer
    <3>5. \A r, s \in Queries : Announcing(r)' /\ Announcing(s)' /\ r # s => doc'[r] # doc'[s]
      BY <1>1, <3>2 DEF QueryInv, OneAnnouncer
    <3> QED
      BY <3>1, <3>4, <3>5 DEF OneAnnouncer
  <2>6. SharedKnown'
    <3>1. \A r \in Queries \ {q} : qpc'[r] \in Waiting => r \in Others(q)
      BY <2>2 DEF Others
    <3>2. shared \subseteq shared' /\ Others(q) \subseteq shared' /\ (Others(q) # {} => q \in shared')
      BY <1>3
    <3> QED
      BY <2>2, <3>1, <3>2 DEF QueryInv, SharedKnown
  <2>7. WakeupNotLost'
    <3>1. shared \subseteq shared'
      BY <1>3
    <3> QED
      BY <1>1, <2>2, <3>1 DEF QueryInv, WakeupNotLost
  <2> QED
    BY <2>4, <2>5, <2>6, <2>7 DEF QueryInv
<1> QED
  BY <1>1, <1>2, <1>3

LEMMA QueryKeepsQueryInv ==
  ASSUME QueryInv, NEW q \in Queries, QueryStep(q)
  PROVE  QueryInv'
<1> USE DEF At, rpcVars, connVars, QueryPoints, Waiting
<1>1. updated \in Seq(Uris)
  BY DEF QueryInv, QueryTypes
<1>2. CASE OpenLock(q)
  BY <1>1, <1>2, MoveOnKeepsQueryInv DEF OpenLock, Announcing
<1>3. CASE OpenNotify(q)
  BY <1>3, OpenNotifyKeepsQueryInv
<1>4. CASE WaitCheck(q)
  <2>1. CASE doc[q] \in diags
    BY <1>1, <1>4, <2>1, MoveOnKeepsQueryInv DEF WaitCheck
  <2>2. CASE doc[q] \notin diags
    BY <1>1, <1>4, <2>2, MoveOnKeepsQueryInv DEF WaitCheck
  <2> QED
    BY <2>1, <2>2
<1>5. CASE WaitUpdate(q)
  <2>1. Tail(updated) \in Seq(Uris)
    BY <1>1, <1>5 DEF WaitUpdate
  <2>2. AfterUpdate(q) \in {"done", "check"}
    BY DEF AfterUpdate
  <2>3. /\ qpc[q] = "select" /\ qpc' = [qpc EXCEPT ![q] = AfterUpdate(q)] /\ updated' = Tail(updated)
        /\ UNCHANGED <<doc, shared, opened, diags, didOpen, reader, frame>>
    BY <1>5 DEF WaitUpdate
  <2> QED
    BY <2>1, <2>2, <2>3, MoveOnKeepsQueryInv
<1>6. CASE WaitTimeout(q)
  BY <1>1, <1>6, MoveOnKeepsQueryInv DEF WaitTimeout
<1> QED
  BY <1>2, <1>3, <1>4, <1>5, <1>6 DEF QueryStep

LEMMA NextKeepsQueryInv == ConnInv /\ QueryInv /\ [Next]_vars => QueryInv'
<1> SUFFICES ASSUME ConnInv, QueryInv, [Next]_vars PROVE QueryInv'
  OBVIOUS
<1> USE SessionAssumption
    DEF Session, docVars, queryVars, rpcVars, callVars, connVars, pipeVars, peerVars
<1>1. CASE McpStart \/ LspStart
  <2>1. UNCHANGED queryVars /\ UNCHANGED <<reader, frame>>
    BY <1>1 DEF McpStart, LspStart, StartCall, StartReturned, StartNotifyLock, StartNotify,
                CloseSession, CloseConn, KillSession, Kill, Make
  <2> QED
    BY <2>1, FrameKeepsQueryInv
<1>2. CASE RegistryClose \/ PeerReads \/ (PeerDies /\ Session)
  BY <1>2, FrameKeepsQueryInv DEF RegistryClose, PeerReads, PeerRead, PeerDies
<1>3. ASSUME NEW c \in ToolCalls, ToolCall(c) PROVE QueryInv'
  BY <1>3, FrameKeepsQueryInv DEF ToolCall, Make
<1>4. ASSUME NEW c \in Calls, (CallStep(c) \/ PeerAnswer(c)) /\ Session PROVE QueryInv'
  <2>1. UNCHANGED queryVars /\ UNCHANGED <<reader, frame>>
    BY <1>4 DEF PeerAnswer, CallStep, McpCall, LspCall, AcpCall, Register, WriteLock, Write,
                WriteFails, Cancelled, Forget, LoopDone, Received
  <2> QED
    BY <2>1, FrameKeepsQueryInv
<1>5. ASSUME NEW q \in Queries, NEW u \in Uris, OpenPath(q, u) PROVE QueryInv'
  BY <1>5, OpenPathKeepsQueryInv
<1>6. ASSUME NEW q \in Queries, QueryStep(q) PROVE QueryInv'
  BY <1>6, QueryKeepsQueryInv
<1>7. CASE Reads
  <2>1. CASE ReaderStep /\ Session
    BY <2>1, ReaderKeepsQueryInv
  <2> QED
    BY <1>7, <2>1, DiagsKeepQueryInv DEF Reads
<1>8. ASSUME NEW f \in Frames, PeerNoise(f) /\ Session PROVE QueryInv'
  BY <1>8, FrameKeepsQueryInv DEF PeerNoise
<1>9. CASE UNCHANGED vars
  BY <1>9, FrameKeepsQueryInv DEF vars
<1> QED
  BY <1>1, <1>2, <1>3, <1>4, <1>5, <1>6, <1>7, <1>8, <1>9 DEF Next

LEMMA QueryInvHolds == Spec => []QueryInv
<1> QED
  BY InitQueryInv, ConnInvHolds, NextKeepsQueryInv, PTL DEF Spec

\* However many queries open a document at the same time, the server is told of it once
\* (session.go OpenPath).
THEOREM AnnouncedOnce == Spec => []OpenedOnce
<1>1. QueryInv => OpenedOnce
  BY DEF QueryInv, OneAnnouncer, OpenedOnce
<1> QED
  BY <1>1, QueryInvHolds, PTL

\* A query that waits alone does not sleep on diagnostics already stored, whatever the
\* capacity of the channel (session.go waitURI and handleNotify).
THEOREM AlwaysWoken == Spec => []WakeupNotLost
<1>1. QueryInv => WakeupNotLost
  BY DEF QueryInv
<1> QED
  BY <1>1, QueryInvHolds, PTL

\* Whichever step of Start fails, a session that was given up or closed leaves no child
\* (stdio.go and session.go Start, Close).
THEOREM NoOrphan == Spec => []NoChildLeft
<1>1. Init => NoChildLeft
  BY DEF Init, NoChildLeft
<1>2. NoChildLeft /\ [Next]_vars => NoChildLeft'
  <2> SUFFICES ASSUME NoChildLeft, [Next]_vars PROVE NoChildLeft'
    OBVIOUS
  <2> USE DEF NoChildLeft, Session, rpcVars, pipeVars, peerVars
  <2>1. CASE KillSession
    BY <2>1 DEF KillSession, Kill
  <2>2. CASE RegistryClose \/ StartNotifyLock \/ StartNotify \/ CloseSession
    BY <2>2 DEF RegistryClose, StartNotifyLock, StartNotify, CloseSession, CloseConn
  <2>3. ASSUME NEW c, NEW at, StartCall(c, at) \/ ToolCall(c) PROVE NoChildLeft'
    BY <2>3 DEF StartCall, ToolCall, Make
  <2>4. ASSUME NEW c, NEW at, NEW next \in {"notify", "ready"}, StartReturned(c, at, next)
        PROVE  NoChildLeft'
    BY <2>4 DEF StartReturned, OrAbort
  <2>5. ASSUME NEW c, (CallStep(c) \/ PeerAnswer(c)) /\ Session PROVE NoChildLeft'
    BY <2>5 DEF CallStep, McpCall, LspCall, AcpCall, Register, WriteLock, Write, WriteFails, Cancelled,
                Forget, LoopDone, Received, PeerAnswer
  <2>6. ASSUME NEW q, (\E u \in Uris : OpenPath(q, u)) \/ QueryStep(q) PROVE NoChildLeft'
    BY <2>6 DEF OpenPath, QueryStep, OpenLock, OpenNotify, WaitCheck, WaitUpdate, WaitTimeout
  <2>7. CASE Reads
    BY <2>7 DEF Reads, ReaderStep, ReadFrame, ReadFails, Lookup, Send, ReplyLock, Reply, EndLoop,
                CloseDone, StoreDiags, SignalDiags
  <2>8. CASE PeerReads \/ (PeerDies /\ Session)
    BY <2>8 DEF PeerReads, PeerRead, PeerDies
  <2>9. ASSUME NEW f, PeerNoise(f) /\ Session PROVE NoChildLeft'
    BY <2>9 DEF PeerNoise
  <2>10. CASE UNCHANGED vars
    BY <2>10 DEF vars
  <2> QED
    BY <2>1, <2>2, <2>3, <2>4, <2>5, <2>6, <2>7, <2>8, <2>9, <2>10 DEF Next, McpStart, LspStart
<1> QED
  BY <1>1, <1>2, PTL DEF Spec

(***************************************************************************)
(* The types, and the mutex.                                               *)
(***************************************************************************)

\* What the pipe to the peer carries.
Letters == [type : {"call"}, id : Calls] \cup [type : {"reply", "initialized", "didOpen"}]
Lives == {"init", "notify", "notifying", "list", "ready", "abort", "aborting", "closing",
          "killing", "failed", "closed"}

PipeTypes ==
    /\ inbox \in Seq(Letters) /\ Len(inbox) <= PipeCap /\ Len(outbox) <= PipeCap
    /\ frame \in Frames \cup {NoFrame}

PeerTypes ==
    /\ done \in BOOLEAN /\ alive \in BOOLEAN
    /\ pending \subseteq Calls /\ answered \subseteq Calls /\ asked \subseteq Calls
    /\ noise \in 0..MaxNoise[kind]

DocTypes ==
    /\ doc \in [Queries -> Uris] /\ shared \subseteq Queries
    /\ opened \subseteq Uris /\ diags \subseteq Uris
    /\ Len(updated) <= UpdatedCap

\* The mutex has one holder, and the holder is writing.
OneWriter ==
    /\ mu \in Calls \cup Queries \cup {Reader, Nobody, Starter}
    /\ \A c \in Calls : pc[c] = "writing" <=> mu = c
    /\ \A q \in Queries : qpc[q] = "notifying" <=> mu = q
    /\ reader = "replying" <=> mu = Reader
    /\ life = "notifying" <=> mu = Starter
    /\ life \in Lives

LEMMA InitTypes == Init => PipeTypes /\ PeerTypes /\ DocTypes /\ OneWriter
<1> SUFFICES ASSUME Init PROVE PipeTypes /\ PeerTypes /\ DocTypes /\ OneWriter
  OBVIOUS
<1> USE RpcAssumption, SessionAssumption DEF Init, RpcInit
<1>1. PipeTypes
  <2>1. inbox \in Seq(Letters) /\ Len(inbox) = 0 /\ Len(outbox) = 0
    OBVIOUS
  <2> QED
    BY <2>1 DEF PipeTypes
<1>2. PeerTypes
  <2>1. MaxNoise[kind] \in Nat
    OBVIOUS
  <2>2. noise \in 0..MaxNoise[kind]
    BY <2>1
  <2>3. done = FALSE /\ alive = TRUE /\ pending = {} /\ answered = {} /\ asked = {}
    OBVIOUS
  <2> HIDE DEF Init, RpcInit
  <2> QED
    BY <2>2, <2>3 DEF PeerTypes
<1>3. DocTypes
  <2>1. (CHOOSE u \in Uris : TRUE) \in Uris
    OBVIOUS
  <2>2. Len(updated) = 0
    OBVIOUS
  <2> QED
    BY <2>1, <2>2 DEF DocTypes
<1>4. OneWriter
  <2>1. mu = Nobody /\ reader = "read" /\ life \in {"ready", "init"}
    OBVIOUS
  <2>2. \A c \in Calls : pc[c] = "unmade" /\ mu # c
    BY <2>1
  <2>3. \A q \in Queries : qpc[q] = "idle" /\ mu # q
    BY <2>1
  <2> QED
    BY <2>1, <2>2, <2>3 DEF OneWriter, Lives
<1> QED
  BY <1>1, <1>2, <1>3, <1>4

\* The pipes are written at one end when there is room, and read at the other.
LEMMA AppendFits ==
    ASSUME NEW S, NEW s \in Seq(S), NEW e \in S, Len(s) < PipeCap
    PROVE  Append(s, e) \in Seq(S) /\ Len(Append(s, e)) <= PipeCap
<1>1. Append(s, e) \in Seq(S) /\ Len(Append(s, e)) = Len(s) + 1 /\ Len(s) \in Nat
  BY AppendProperties
<1> QED
  BY <1>1, RpcAssumption

LEMMA TailFits ==
    ASSUME NEW S, NEW s \in Seq(S), s # <<>>, NEW n \in Nat, Len(s) <= n
    PROVE  Tail(s) \in Seq(S) /\ Len(Tail(s)) <= n /\ Head(s) \in S
<1>1. Tail(s) \in Seq(S) /\ Len(Tail(s)) = Len(s) - 1 /\ Head(s) \in S /\ Len(s) \in Nat
  BY HeadTailProperties
<1> QED
  BY <1>1

\* The frame a caller, a query, the starter or the reader writes.
LEMMA LettersWritten ==
    /\ \A c \in Calls : [type |-> "call", id |-> c] \in Letters
    /\ \A t \in {"reply", "initialized", "didOpen"} : [type |-> t] \in Letters
BY DEF Letters

LEMMA PipeTypesKept == ConnInv /\ PipeTypes /\ [Next]_vars => PipeTypes'
<1> SUFFICES ASSUME ConnInv, PipeTypes, [Next]_vars PROVE PipeTypes'
  OBVIOUS
<1> USE DEF callVars, connVars, pipeVars, peerVars, rpcVars
<1>1. outbox \in Seq(Frames) /\ inbox \in Seq(Letters) /\ PipeCap \in Nat
  BY RpcAssumption DEF ConnInv, ConnTypes, PipeTypes
<1>2. ASSUME UNCHANGED <<inbox, outbox, frame>> PROVE PipeTypes'
  BY <1>2 DEF PipeTypes
<1>3. ASSUME NEW l \in Letters, Len(inbox) < PipeCap, inbox' = Append(inbox, l),
             UNCHANGED outbox, frame' \in {frame, NoFrame}
      PROVE  PipeTypes'
  <2>1. inbox' \in Seq(Letters) /\ Len(inbox') <= PipeCap
    BY <1>1, <1>3, AppendFits
  <2> QED
    BY <1>3, <2>1 DEF PipeTypes
<1>4. ASSUME NEW f \in Frames, Len(outbox) < PipeCap, outbox' = Append(outbox, f),
             UNCHANGED <<inbox, frame>>
      PROVE  PipeTypes'
  <2>1. Len(outbox') <= PipeCap
    BY <1>1, <1>4, AppendFits
  <2> QED
    BY <1>4, <2>1 DEF PipeTypes
<1>5. ASSUME UNCHANGED <<inbox, outbox>>, frame' \in {frame, NoFrame} PROVE PipeTypes'
  BY <1>5 DEF PipeTypes
<1>6. CASE McpStart \/ LspStart
  <2>1. CASE StartNotify
    <3>1. CASE UNCHANGED inbox
      BY <1>2, <2>1, <3>1 DEF StartNotify
    <3>2. CASE Len(inbox) < PipeCap /\ inbox' = Append(inbox, [type |-> "initialized"])
      BY <1>3, <2>1, <3>2, LettersWritten DEF StartNotify
    <3> QED
      BY <2>1, <3>1, <3>2 DEF StartNotify
  <2>2. CASE KillSession
    <3>1. UNCHANGED <<inbox, frame>> /\ (outbox' = outbox \/ outbox' = <<>>)
      BY <2>2 DEF KillSession, Kill
    <3>2. CASE outbox' = outbox
      BY <1>2, <3>1, <3>2
    <3>3. CASE outbox' = <<>>
      <4>1. Len(outbox') = 0
        BY <3>3
      <4>2. Len(outbox') <= PipeCap
        BY <1>1, <4>1
      <4> QED
        BY <3>1, <4>2 DEF PipeTypes
    <3> QED
      BY <3>1, <3>2, <3>3
  <2>3. ASSUME NEW c, NEW at, StartCall(c, at) PROVE PipeTypes'
    BY <1>2, <2>3 DEF StartCall, Make
  <2>4. ASSUME NEW c, NEW at, NEW next, StartReturned(c, at, next) PROVE PipeTypes'
    BY <1>2, <2>4 DEF StartReturned
  <2>5. CASE StartNotifyLock \/ CloseSession
    BY <1>2, <2>5 DEF StartNotifyLock, CloseSession, CloseConn
  <2> QED
    BY <1>6, <2>1, <2>2, <2>3, <2>4, <2>5 DEF McpStart, LspStart
<1>7. CASE RegistryClose \/ UNCHANGED vars
  BY <1>2, <1>7 DEF RegistryClose, vars
<1>8. ASSUME NEW c \in Calls, ToolCall(c) PROVE PipeTypes'
  BY <1>2, <1>8 DEF ToolCall, Make
<1>9. ASSUME NEW c \in Calls, CallStep(c) PROVE PipeTypes'
  <2>1. CASE Write(c)
    BY <1>3, <2>1, LettersWritten DEF Write
  <2>2. CASE \/ Register(c) \/ WriteLock(c) \/ WriteFails(c) \/ Cancelled(c) \/ Forget(c)
             \/ LoopDone(c) \/ Received(c)
    BY <1>2, <2>2
       DEF Register, WriteLock, WriteFails, Cancelled, Forget, LoopDone, Received
  <2> QED
    BY <1>9, <2>1, <2>2 DEF CallStep, McpCall, LspCall, AcpCall
<1>10. ASSUME NEW c \in Calls, PeerAnswer(c) PROVE PipeTypes'
  <2>1. [type |-> "response", id |-> c] \in Frames
    BY DEF Frames, CallFrames
  <2> QED
    BY <1>4, <1>10, <2>1 DEF PeerAnswer
<1>11. ASSUME NEW q \in Queries, (\E u \in Uris : OpenPath(q, u)) \/ QueryStep(q) PROVE PipeTypes'
  <2>1. CASE OpenNotify(q)
    <3>1. CASE UNCHANGED inbox
      BY <1>2, <2>1, <3>1 DEF OpenNotify
    <3>2. CASE Len(inbox) < PipeCap /\ inbox' = Append(inbox, [type |-> "didOpen"])
      BY <1>3, <2>1, <3>2, LettersWritten DEF OpenNotify
    <3> QED
      BY <2>1, <3>1, <3>2 DEF OpenNotify
  <2>2. CASE OpenLock(q) \/ WaitCheck(q) \/ WaitUpdate(q) \/ WaitTimeout(q)
    BY <1>2, <2>2 DEF OpenLock, WaitCheck, WaitUpdate, WaitTimeout
  <2>3. ASSUME NEW u, OpenPath(q, u) PROVE PipeTypes'
    BY <1>2, <2>3 DEF OpenPath
  <2> QED
    BY <1>11, <2>1, <2>2, <2>3 DEF QueryStep
<1>12. CASE Reads
  <2>1. CASE ReadFrame
    <3> DEFINE f == Head(outbox)
    <3>1. /\ outbox # <<>> /\ outbox' = Tail(outbox) /\ UNCHANGED inbox
          /\ frame' = IF reader' \in {"read", "fail"} THEN NoFrame ELSE f
      BY <2>1 DEF ReadFrame
    <3>2. Len(outbox) <= PipeCap
      BY DEF PipeTypes
    <3>3. Len(outbox') <= PipeCap /\ f \in Frames
      BY <1>1, <3>1, <3>2, TailFits
    <3> HIDE DEF f
    <3>4. frame' \in Frames \cup {NoFrame}
      BY <3>1, <3>3
    <3> QED
      BY <3>1, <3>3, <3>4 DEF PipeTypes
  <2>2. CASE Reply
    <3>1. CASE UNCHANGED inbox
      BY <1>5, <2>2, <3>1 DEF Reply, NextFrame
    <3>2. CASE Len(inbox) < PipeCap /\ inbox' = Append(inbox, [type |-> "reply"])
      BY <1>3, <2>2, <3>2, LettersWritten DEF Reply, NextFrame
    <3> QED
      BY <2>2, <3>1, <3>2 DEF Reply
  <2>3. CASE ReadFails \/ Lookup \/ Send \/ ReplyLock \/ EndLoop \/ CloseDone \/ StoreDiags \/ SignalDiags
    BY <1>5, <2>3 DEF ReadFails, Lookup, Send, ReplyLock, EndLoop, CloseDone, StoreDiags,
                      SignalDiags, NextFrame
  <2> QED
    BY <1>12, <2>1, <2>2, <2>3 DEF Reads, ReaderStep
<1>13. CASE PeerReads
  <2>1. inbox # <<>> /\ inbox' = Tail(inbox) /\ UNCHANGED <<outbox, frame>>
    BY <1>13 DEF PeerReads, PeerRead
  <2>2. Len(inbox) <= PipeCap
    BY DEF PipeTypes
  <2>3. inbox' \in Seq(Letters) /\ Len(inbox') <= PipeCap
    BY <1>1, <2>1, <2>2, TailFits
  <2> QED
    BY <2>1, <2>3 DEF PipeTypes
<1>14. ASSUME NEW f \in Frames, PeerNoise(f) PROVE PipeTypes'
  BY <1>4, <1>14 DEF PeerNoise
<1>15. CASE PeerDies
  BY <1>2, <1>15 DEF PeerDies
<1> QED
  BY <1>6, <1>7, <1>8, <1>9, <1>10, <1>11, <1>12, <1>13, <1>14, <1>15 DEF Next, ToolCalls

LEMMA PeerTypesKept == ConnInv /\ PipeTypes /\ PeerTypes /\ [Next]_vars => PeerTypes'
<1> SUFFICES ASSUME ConnInv, PipeTypes, PeerTypes, [Next]_vars PROVE PeerTypes'
  OBVIOUS
<1> USE SessionAssumption DEF callVars, connVars, pipeVars, peerVars, rpcVars, PeerTypes
<1>1. CASE McpStart \/ LspStart
  <2>1. UNCHANGED <<kind, done, pending, answered, asked, noise>> /\ alive' \in {alive, FALSE}
    BY <1>1 DEF McpStart, LspStart, StartCall, StartReturned, StartNotifyLock, StartNotify,
                CloseSession, CloseConn, KillSession, Kill, Make
  <2> QED
    BY <2>1
<1>2. CASE RegistryClose \/ UNCHANGED vars
  BY <1>2 DEF RegistryClose, vars
<1>3. ASSUME NEW c \in Calls, ToolCall(c) PROVE PeerTypes'
  BY <1>3 DEF ToolCall, Make
<1>4. ASSUME NEW c \in Calls, CallStep(c) PROVE PeerTypes'
  BY <1>4 DEF CallStep, McpCall, LspCall, AcpCall, Register, WriteLock, Write, WriteFails,
              Cancelled, Forget, LoopDone, Received
<1>5. ASSUME NEW c \in Calls, PeerAnswer(c) PROVE PeerTypes'
  BY <1>5 DEF PeerAnswer
<1>6. ASSUME NEW q \in Queries, (\E u \in Uris : OpenPath(q, u)) \/ QueryStep(q) PROVE PeerTypes'
  BY <1>6 DEF OpenPath, QueryStep, OpenLock, OpenNotify, WaitCheck, WaitUpdate, WaitTimeout
<1>7. CASE Reads
  <2>1. UNCHANGED peerVars /\ kind' = kind /\ done' \in {done, TRUE}
    BY <1>7 DEF Reads, ReaderStep, ReadFrame, ReadFails, Lookup, Send, ReplyLock, Reply, EndLoop,
                CloseDone, StoreDiags, SignalDiags
  <2> QED
    BY <2>1
<1>8. CASE PeerReads
  <2>1. inbox \in Seq(Letters) /\ inbox # <<>>
    BY <1>8 DEF PipeTypes, PeerReads, PeerRead
  <2>2. Head(inbox) \in Letters
    BY <2>1, HeadTailProperties
  <2> DEFINE l == Head(inbox)
  <2>3. /\ pending' = IF l.type = "call" THEN pending \cup {l.id} ELSE pending
        /\ UNCHANGED <<kind, done, alive, answered, asked, noise>>
    BY <1>8 DEF PeerReads, PeerRead
  <2>4. l \in Letters
    BY <2>2
  <2> HIDE DEF l
  <2>5. l.type = "call" => l.id \in Calls
    BY <2>4 DEF Letters
  <2> QED
    BY <2>3, <2>5
<1>9. ASSUME NEW f \in Frames, PeerNoise(f) PROVE PeerTypes'
  <2>1. /\ UNCHANGED <<kind, done, alive, pending, answered>> /\ noise' = noise + 1
        /\ noise < MaxNoise[kind]
        /\ asked' = IF f.type = "request" /\ kind = "mcp" THEN asked \cup {f.id} ELSE asked
    BY <1>9 DEF PeerNoise
  <2>2. f.type = "request" => f.id \in Calls
    BY DEF Frames, CallFrames, PlainFrames, PublishFrames
  <2>3. MaxNoise[kind] \in Nat
    BY RpcAssumption DEF ConnInv, ConnTypes
  <2>4. noise + 1 \in 0..MaxNoise[kind]
    BY <2>1, <2>3
  <2>5. asked' \subseteq Calls
    BY <2>1, <2>2
  <2> QED
    BY <2>1, <2>4, <2>5
<1>10. CASE PeerDies
  BY <1>10 DEF PeerDies
<1> QED
  BY <1>1, <1>2, <1>3, <1>4, <1>5, <1>6, <1>7, <1>8, <1>9, <1>10 DEF Next, ToolCalls


LEMMA DocTypesKept == QueryInv /\ DocTypes /\ [Next]_vars => DocTypes'
<1> SUFFICES ASSUME QueryInv, DocTypes, [Next]_vars PROVE DocTypes'
  OBVIOUS
<1> USE DEF callVars, connVars, pipeVars, peerVars, rpcVars, docVars, Session
<1>1. ASSUME UNCHANGED <<doc, shared, opened, diags, updated>> PROVE DocTypes'
  BY <1>1 DEF DocTypes
<1>2. updated \in Seq(Uris) /\ UpdatedCap \in Nat
  BY SessionAssumption DEF QueryInv, QueryTypes
<1>3. CASE McpStart \/ LspStart
  BY <1>1, <1>3 DEF McpStart, LspStart, StartCall, StartReturned, StartNotifyLock, StartNotify,
                    CloseSession, CloseConn, KillSession, Kill, Make
<1>4. CASE RegistryClose \/ PeerReads \/ (PeerDies /\ Session) \/ UNCHANGED vars
  BY <1>1, <1>4 DEF RegistryClose, PeerReads, PeerDies, vars
<1>5. ASSUME NEW c, ToolCall(c) \/ ((CallStep(c) \/ PeerAnswer(c)) /\ Session) PROVE DocTypes'
  BY <1>1, <1>5 DEF ToolCall
<1>6. ASSUME NEW f, PeerNoise(f) /\ Session PROVE DocTypes'
  BY <1>1, <1>6
<1>7. ASSUME NEW q \in Queries, NEW u \in Uris, OpenPath(q, u) PROVE DocTypes'
  <2>1. doc' = [doc EXCEPT ![q] = u] /\ opened' = opened \cup {u} /\ UNCHANGED <<shared, diags, updated>>
    BY <1>7 DEF OpenPath
  <2> QED
    BY <2>1 DEF DocTypes
<1>8. ASSUME NEW q \in Queries, QueryStep(q) PROVE DocTypes'
  <2>1. CASE OpenNotify(q)
    <3>1. UNCHANGED <<doc, opened, diags, updated>> /\ shared' \subseteq shared \cup Others(q) \cup {q}
      BY <2>1 DEF OpenNotify
    <3> QED
      BY <3>1 DEF DocTypes, Others
  <2>2. CASE WaitUpdate(q)
    <3>1. updated # <<>> /\ updated' = Tail(updated) /\ UNCHANGED <<doc, shared, opened, diags>>
      BY <2>2 DEF WaitUpdate
    <3>2. Len(updated) <= UpdatedCap
      BY DEF DocTypes
    <3>3. Len(updated') <= UpdatedCap
      BY <1>2, <3>1, <3>2, TailFits
    <3> QED
      BY <3>1, <3>3 DEF DocTypes
  <2>3. CASE OpenLock(q) \/ WaitCheck(q) \/ WaitTimeout(q)
    BY <1>1, <2>3 DEF OpenLock, WaitCheck, WaitTimeout
  <2> QED
    BY <1>8, <2>1, <2>2, <2>3 DEF QueryStep
<1>9. CASE ReaderStep /\ Session
  BY <1>1, <1>9
<1>10. ASSUME reader \in {"publish", "signal"} PROVE frame.uri \in Uris
  BY <1>10 DEF QueryInv, QueryTypes, PublishFrames
<1>11. CASE StoreDiags
  BY <1>10, <1>11 DEF StoreDiags, DocTypes
<1>12. CASE SignalDiags
  <2>1. reader = "signal" /\ updated' = SentUpdate /\ UNCHANGED <<doc, shared, opened, diags>>
    BY <1>12 DEF SignalDiags
  <2>2. Len(updated') <= UpdatedCap
    <3>1. CASE Len(updated) < UpdatedCap
      <4>1. Len(Append(updated, frame.uri)) = Len(updated) + 1 /\ Len(updated) \in Nat
        BY <1>2, <1>10, <2>1, AppendProperties
      <4> QED
        BY <1>2, <2>1, <3>1, <4>1 DEF SentUpdate
    <3>2. CASE ~(Len(updated) < UpdatedCap)
      <4>1. updated' = updated
        BY <2>1, <3>2 DEF SentUpdate
      <4> QED
        BY <4>1 DEF DocTypes
    <3> QED
      BY <3>1, <3>2
  <2> QED
    BY <2>1, <2>2 DEF DocTypes
<1> QED
  BY <1>3, <1>4, <1>5, <1>6, <1>7, <1>8, <1>9, <1>11, <1>12 DEF Next, Reads

\* Whoever may hold the mutex is told from everybody else.
LEMMA Holders ==
    /\ \A c \in Calls : c # Reader /\ c # Nobody /\ c # Starter /\ c \notin Queries
    /\ \A q \in Queries : q # Reader /\ q # Nobody /\ q # Starter
    /\ Reader # Nobody /\ Reader # Starter /\ Nobody # Starter
BY RpcAssumption, SessionAssumption

\* Each kind of holder takes the mutex when it is free and gives it back.
LEMMA OneWriterKept == ConnInv /\ QueryInv /\ OneWriter /\ [Next]_vars => OneWriter'
<1> SUFFICES ASSUME ConnInv, QueryInv, OneWriter, [Next]_vars PROVE OneWriter'
  OBVIOUS
<1> USE DEF callVars, connVars, pipeVars, peerVars, rpcVars, docVars, Session
<1>1. pc \in [Calls -> Points] /\ qpc \in [Queries -> QueryPoints]
  BY DEF ConnInv, ConnTypes, QueryInv, QueryTypes
<1>2. ASSUME UNCHANGED <<pc, qpc, reader, life, mu>> PROVE OneWriter'
  BY <1>2 DEF OneWriter
\* The four kinds of holder, each with its steps outside, into and out of the mutex.
<1>3. ASSUME NEW c \in Calls, NEW to \in Points, pc' = [pc EXCEPT ![c] = to],
             UNCHANGED <<qpc, reader, life>>,
             \/ pc[c] # "writing" /\ to # "writing" /\ UNCHANGED mu
             \/ mu = Nobody /\ to = "writing" /\ mu' = c
             \/ pc[c] = "writing" /\ to # "writing" /\ mu' = Nobody
      PROVE  OneWriter'
  <2>1. pc'[c] = to /\ \A d \in Calls \ {c} : pc'[d] = pc[d]
    BY <1>1, <1>3
  <2> QED
    BY <1>3, <2>1, Holders DEF OneWriter
<1>4. ASSUME NEW q \in Queries, NEW to \in QueryPoints, qpc' = [qpc EXCEPT ![q] = to],
             UNCHANGED <<pc, reader, life>>,
             \/ qpc[q] # "notifying" /\ to # "notifying" /\ UNCHANGED mu
             \/ mu = Nobody /\ to = "notifying" /\ mu' = q
             \/ qpc[q] = "notifying" /\ to # "notifying" /\ mu' = Nobody
      PROVE  OneWriter'
  <2>1. qpc'[q] = to /\ \A r \in Queries \ {q} : qpc'[r] = qpc[r]
    BY <1>1, <1>4
  <2> QED
    BY <1>4, <2>1, Holders DEF OneWriter
<1>5. ASSUME UNCHANGED <<pc, qpc, life>>,
             \/ reader # "replying" /\ reader' # "replying" /\ UNCHANGED mu
             \/ mu = Nobody /\ reader' = "replying" /\ mu' = Reader
             \/ reader = "replying" /\ reader' # "replying" /\ mu' = Nobody
      PROVE  OneWriter'
  BY <1>5, Holders DEF OneWriter
<1>6. ASSUME UNCHANGED <<pc, qpc, reader>>, life' \in Lives,
             \/ life # "notifying" /\ life' # "notifying" /\ UNCHANGED mu
             \/ mu = Nobody /\ life' = "notifying" /\ mu' = Starter
             \/ life = "notifying" /\ life' # "notifying" /\ mu' = Nobody
      PROVE  OneWriter'
  BY <1>6, Holders DEF OneWriter
<1>7. ASSUME NEW c \in Calls, Make(c), UNCHANGED <<life, docVars>> PROVE OneWriter'
  BY <1>3, <1>7 DEF Make, GoTo, Points
<1>8. CASE McpStart \/ LspStart
  <2>1. ASSUME NEW c \in Calls, NEW at, StartCall(c, at) PROVE OneWriter'
    BY <1>7, <2>1 DEF StartCall
  <2>2. ASSUME NEW c \in Calls, NEW at \in {"init", "list"}, NEW next \in {"notify", "ready"},
               StartReturned(c, at, next)
        PROVE  OneWriter'
    BY <1>6, <2>2 DEF StartReturned, OrAbort, Lives
  <2>3. CASE StartNotifyLock
    BY <1>6, <2>3 DEF StartNotifyLock, Free, Lives
  <2>4. CASE StartNotify
    <3>1. life' \in {"list", "ready", "abort"}
      BY <2>4 DEF StartNotify
    <3> QED
      BY <1>6, <2>4, <3>1 DEF StartNotify, Lives
  <2>5. CASE CloseSession
    BY <1>6, <2>5 DEF CloseSession, CloseConn, Lives
  <2>6. CASE KillSession
    BY <1>6, <2>6 DEF KillSession, Kill, Lives
  <2> QED
    BY <1>8, <2>1, <2>2, <2>3, <2>4, <2>5, <2>6, SessionAssumption DEF McpStart, LspStart
<1>9. CASE RegistryClose
  BY <1>6, <1>9 DEF RegistryClose, Lives
<1>10. ASSUME NEW c \in ToolCalls, ToolCall(c) PROVE OneWriter'
  BY <1>7, <1>10 DEF ToolCall, ToolCalls
<1>11. ASSUME NEW c \in Calls, CallStep(c) /\ Session PROVE OneWriter'
  <2>1. CASE WriteLock(c)
    BY <1>3, <1>11, <2>1 DEF WriteLock, GoTo, Free, Points
  <2>2. CASE Write(c)
    BY <1>3, <1>11, <2>2 DEF Write, GoTo, Points
  <2>3. CASE WriteFails(c)
    BY <1>3, <1>11, <2>3 DEF WriteFails, Unlocked, Return, Points
  <2>4. CASE Register(c) \/ Cancelled(c) \/ Forget(c) \/ LoopDone(c) \/ Received(c)
    <3>1. /\ \E to \in Points \ {"writing"} : pc' = [pc EXCEPT ![c] = to]
          /\ pc[c] # "writing" /\ UNCHANGED <<mu, reader>>
      BY <2>4 DEF Register, Cancelled, Forget, LoopDone, Received, GoTo, Return, Points
    <3> QED
      BY <1>3, <1>11, <3>1
  <2> QED
    BY <1>11, <2>1, <2>2, <2>3, <2>4 DEF CallStep, McpCall, LspCall, AcpCall
<1>12. ASSUME NEW c \in Calls, PeerAnswer(c) /\ Session PROVE OneWriter'
  BY <1>2, <1>12 DEF PeerAnswer
<1>13. ASSUME NEW q \in Queries, NEW u \in Uris, OpenPath(q, u) PROVE OneWriter'
  BY <1>4, <1>13 DEF OpenPath, At, QueryPoints
<1>14. ASSUME NEW q \in Queries, QueryStep(q) PROVE OneWriter'
  <2>1. CASE OpenLock(q)
    BY <1>4, <2>1 DEF OpenLock, At, Free, QueryPoints
  <2>2. CASE OpenNotify(q)
    <3>1. \E to \in {"check", "done"} : qpc' = [qpc EXCEPT ![q] = to]
      BY <2>2 DEF OpenNotify, At
    <3>2. qpc[q] = "notifying" /\ mu' = Nobody /\ UNCHANGED <<pc, reader, life>>
      BY <2>2 DEF OpenNotify
    <3> QED
      BY <1>4, <3>1, <3>2 DEF QueryPoints
  <2>3. CASE WaitCheck(q) \/ WaitUpdate(q) \/ WaitTimeout(q)
    <3>1. /\ \E to \in QueryPoints \ {"notifying"} : qpc' = [qpc EXCEPT ![q] = to]
          /\ qpc[q] # "notifying" /\ UNCHANGED <<pc, mu, reader, life>>
      BY <2>3 DEF WaitCheck, WaitUpdate, WaitTimeout, AfterUpdate, At, QueryPoints
    <3> QED
      BY <1>4, <3>1
  <2> QED
    BY <1>14, <2>1, <2>2, <2>3 DEF QueryStep
<1>15. CASE Reads
  <2>1. UNCHANGED <<pc, qpc, life>>
    BY <1>15 DEF Reads, ReaderStep, ReadFrame, ReadFails, Lookup, Send, ReplyLock, Reply, EndLoop,
                 CloseDone, StoreDiags, SignalDiags
  <2>2. CASE ReplyLock
    BY <1>5, <2>1, <2>2 DEF ReplyLock, Free
  <2>3. CASE Reply
    BY <1>5, <2>1, <2>3 DEF Reply, NextFrame
  <2>4. CASE ReadFrame
    <3>1. reader = "read" /\ reader' = Meaning(Head(outbox)) /\ UNCHANGED mu
      BY <2>4 DEF ReadFrame
    <3>2. ASSUME NEW f PROVE Meaning(f) # "replying"
      BY DEF Meaning, McpMeaning, LspMeaning, AcpMeaning
    <3> QED
      BY <1>5, <2>1, <3>1, <3>2
  <2>5. CASE ReadFails \/ Lookup \/ Send \/ EndLoop \/ CloseDone \/ StoreDiags \/ SignalDiags
    <3>1. reader # "replying" /\ reader' # "replying" /\ UNCHANGED mu
      BY <2>5 DEF ReadFails, Lookup, Send, EndLoop, CloseDone, StoreDiags, SignalDiags, NextFrame
    <3> QED
      BY <1>5, <2>1, <3>1
  <2> QED
    BY <1>15, <2>2, <2>3, <2>4, <2>5 DEF Reads, ReaderStep
<1>16. CASE PeerReads
  BY <1>2, <1>16 DEF PeerReads, PeerRead
<1>17. ASSUME NEW f \in Frames, PeerNoise(f) /\ Session PROVE OneWriter'
  BY <1>2, <1>17 DEF PeerNoise
<1>18. CASE PeerDies /\ Session
  BY <1>2, <1>18 DEF PeerDies
<1>19. CASE UNCHANGED vars
  BY <1>2, <1>19 DEF vars
<1> QED
  BY <1>8, <1>9, <1>10, <1>11, <1>12, <1>13, <1>14, <1>15, <1>16, <1>17, <1>18, <1>19 DEF Next

LEMMA OneWriterHolds == Spec => []OneWriter
<1>1. Init => OneWriter
  BY InitTypes
<1> QED
  BY <1>1, ConnInvHolds, QueryInvHolds, OneWriterKept, PTL DEF Spec

\* Whoever writes a frame holds c.mu and nobody else writes, and whoever holds it is
\* writing: no way out of a write, a broken pipe included, keeps the mutex (conn.go write,
\* session.go OpenPath and the reply of readLoop).
THEOREM WritersExclude == Spec => []OneWriter
BY OneWriterHolds

\* Every variable stays within its type: the pipes and the updates channel within their
\* capacities, the holder of the mutex a caller, a query, the reader or the starter.
THEOREM TypeCorrect == Spec => []TypeOK
<1> DEFINE Types == PipeTypes /\ PeerTypes /\ DocTypes
<1>1. Init => Types
  BY InitTypes
<1>2. ConnInv /\ QueryInv /\ Types /\ [Next]_vars => Types'
  BY PipeTypesKept, PeerTypesKept, DocTypesKept
<1>3. ConnInv /\ QueryInv /\ OneWriter /\ Types => TypeOK
  <2> SUFFICES ASSUME ConnInv, QueryInv, OneWriter, Types PROVE TypeOK
    OBVIOUS
  <2>1. RpcTypeOK
    BY DEF RpcTypeOK, ConnInv, ConnTypes, Readers, PipeTypes, PeerTypes
  <2> QED
    BY <2>1 DEF TypeOK, OneWriter, Lives, QueryInv, QueryTypes, QueryPoints, DocTypes
<1> QED
  BY <1>1, <1>2, <1>3, ConnInvHolds, QueryInvHolds, OneWriterHolds, PTL DEF Spec

=============================================================================
