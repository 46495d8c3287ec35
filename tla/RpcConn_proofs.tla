--------------------------- MODULE RpcConn_proofs ---------------------------
(***************************************************************************)
(* For any calls, queries and documents, pipes of any size and any noise:  *)
(* the connection implements CallService, and the table of waiting calls    *)
(* is sound.  The argument: a frame that the reader takes for an answer has *)
(* been sent by the peer under that id, and a call that waits is in the     *)
(* table, or in the reader's hands, or its channel has been seen to.        *)
(***************************************************************************)
EXTENDS ChildServers, SequenceTheorems, TLAPS

Readers == {"read", "lookup", "send", "reply", "replying", "publish", "signal", "fail",
            "close", "ended"}
Held == {"write", "writing", "wait"}
Early == {"unmade", "register"}

ConnTypes ==
    /\ kind \in Kinds
    /\ pc \in [Calls -> Points]
    /\ outcome \in [Calls -> {"none", "result", "failed", "cancelled"}]
    /\ chan \in [Calls -> {"empty", "value", "closed"}]
    /\ wait \subseteq Calls
    /\ err \in BOOLEAN
    /\ reader \in Readers
    /\ reader \in {"lookup", "send"} => frame \in CallFrames
    /\ outbox \in Seq(Frames)

\* What the peer has sent under this id.
FromPeer(f) ==
    /\ f.type = "response" => f.id \in answered
    /\ f.type = "request" /\ kind = "mcp" => f.id \in asked

\* Every frame on its way has been sent, every value in a channel is an answer.
AnswersSent ==
    /\ \A i \in 1..Len(outbox) : FromPeer(outbox[i])
    /\ reader \in {"lookup", "send"} => frame.id \in Answerable
    /\ \A c \in Calls : chan[c] = "value" => c \in Answerable

\* A call has an outcome once it has returned, and before it is entered nobody knows it.
CallShape ==
    \A c \in Calls :
        /\ outcome[c] # "none" => pc[c] = "returned"
        /\ pc[c] \in Early => chan[c] = "empty" /\ c \notin wait

\* A waiting call with an empty channel is in the table or in the reader's hands.
NobodyForgotten ==
    /\ \A c \in Calls : pc[c] \in Held /\ chan[c] = "empty" =>
          c \in wait \/ (reader = "send" /\ frame.id = c)
    /\ reader = "send" => pc[frame.id] \notin Early

ConnInv == ConnTypes /\ AnswersSent /\ CallShape /\ NobodyForgotten /\ WaitTableSound

\* What ConnInv is about.
connInvVars == <<kind, pc, outcome, chan, wait, err, reader, frame, outbox, answered, asked>>

LEMMA InitConnInv == Init => ConnInv
<1> SUFFICES ASSUME Init PROVE ConnInv
  OBVIOUS
<1>0. outbox \in Seq(Frames)
  BY DEF Init, RpcInit
<1>1. ConnTypes
  BY <1>0 DEF Init, RpcInit, ConnTypes, Points, Readers
<1>2. AnswersSent /\ CallShape /\ NobodyForgotten /\ WaitTableSound
  BY DEF Init, RpcInit, AnswersSent, CallShape, NobodyForgotten, WaitTableSound, Held, Early
<1> QED
  BY <1>1, <1>2 DEF ConnInv

LEMMA FrameKeepsConnInv == ConnInv /\ UNCHANGED connInvVars => ConnInv'
<1> SUFFICES ASSUME ConnInv, UNCHANGED connInvVars PROVE ConnInv'
  OBVIOUS
<1>1. ConnTypes'
  BY DEF ConnInv, ConnTypes, connInvVars
<1>2. AnswersSent'
  BY DEF ConnInv, AnswersSent, FromPeer, Answerable, connInvVars
<1>3. CallShape' /\ NobodyForgotten' /\ WaitTableSound'
  BY DEF ConnInv, CallShape, NobodyForgotten, WaitTableSound, connInvVars
<1> QED
  BY <1>1, <1>2, <1>3 DEF ConnInv

\* Steps of callers other than Register: the reader's part of the state stays.
LEMMA MakeKeepsConnInv ==
  ASSUME ConnInv, NEW c \in Calls, Make(c)
  PROVE  ConnInv'
<1> USE DEF ConnInv, Make, GoTo, connVars, pipeVars, peerVars
<1>1. ConnTypes'
  BY DEF ConnTypes, Points
<1>2. AnswersSent'
  BY DEF AnswersSent, FromPeer, Answerable
<1>3. CallShape'
  BY DEF CallShape, ConnTypes, Early
<1>4. NobodyForgotten'
  BY DEF NobodyForgotten, CallShape, ConnTypes, Early, Held, CallFrames
<1>5. WaitTableSound'
  BY DEF WaitTableSound, CallShape, ConnTypes, Early
<1> QED
  BY <1>1, <1>2, <1>3, <1>4, <1>5

LEMMA RegisterKeepsConnInv ==
  ASSUME ConnInv, NEW c \in Calls, Register(c)
  PROVE  ConnInv'
<1> USE DEF ConnInv, Register, GoTo, Return, pipeVars, peerVars
<1>1. ConnTypes'
  BY DEF ConnTypes, Points
<1>2. AnswersSent'
  BY DEF AnswersSent, FromPeer, Answerable
<1>3. CallShape'
  BY DEF CallShape, ConnTypes, Early
<1>4. NobodyForgotten'
  BY DEF NobodyForgotten, CallShape, ConnTypes, Early, Held, CallFrames
<1>5. WaitTableSound'
  BY DEF WaitTableSound, CallShape, NobodyForgotten, ConnTypes, Early, CallFrames
<1> QED
  BY <1>1, <1>2, <1>3, <1>4, <1>5

\* The other steps of a caller: its pc moves on, its outcome may come, its entry may go.
Moves(c) ==
    WriteLock(c) \/ Write(c) \/ WriteFails(c) \/ Cancelled(c) \/ Forget(c) \/ LoopDone(c) \/ Received(c)

LEMMA MoveShape ==
  ASSUME ConnInv, NEW c \in Calls, Moves(c)
  PROVE  /\ UNCHANGED <<kind, chan, err, reader, frame, outbox, answered, asked>>
         /\ wait' = wait \/ (wait' = wait \ {c} /\ pc'[c] = "returned")
         /\ \E to \in {"writing", "wait", "forget", "returned"} : pc' = [pc EXCEPT ![c] = to]
         /\ \/ UNCHANGED outcome /\ pc'[c] # "returned"
            \/ /\ pc' = [pc EXCEPT ![c] = "returned"]
               /\ \E how \in {"result", "failed", "cancelled"} : outcome' = [outcome EXCEPT ![c] = how]
               /\ c \in wait' => outcome' = [outcome EXCEPT ![c] = "failed"]
         /\ pc[c] \in {"write", "writing", "wait", "forget"}
         /\ pc'[c] \in Held => pc[c] \in Held
<1> USE DEF ConnInv, ConnTypes, GoTo, Return, Points, Held, callVars, connVars, pipeVars, peerVars
<1>1. CASE WriteLock(c)
  BY <1>1 DEF WriteLock
<1>2. CASE Write(c)
  BY <1>2 DEF Write
<1>3. CASE WriteFails(c)
  BY <1>3 DEF WriteFails, Unlocked
<1>4. CASE Cancelled(c)
  BY <1>4 DEF Cancelled
<1>5. CASE Forget(c)
  BY <1>5 DEF Forget, OutOfTable
<1>6. CASE LoopDone(c)
  BY <1>6 DEF LoopDone
<1>7. CASE Received(c)
  <2>1. c \notin wait
    BY <1>7 DEF Received, WaitTableSound
  <2>2. Taken(c) \subseteq {"result", "failed"}
    BY DEF Taken
  <2> QED
    BY <1>7, <2>1, <2>2 DEF Received
<1> QED
  BY <1>1, <1>2, <1>3, <1>4, <1>5, <1>6, <1>7 DEF Moves

LEMMA MoveKeepsConnInv ==
  ASSUME ConnInv, NEW c \in Calls, Moves(c)
  PROVE  ConnInv'
<1>1. /\ UNCHANGED <<kind, chan, err, reader, frame, outbox, answered, asked>>
      /\ wait' = wait \/ (wait' = wait \ {c} /\ pc'[c] = "returned")
      /\ \E to \in {"writing", "wait", "forget", "returned"} : pc' = [pc EXCEPT ![c] = to]
      /\ \/ UNCHANGED outcome /\ pc'[c] # "returned"
         \/ /\ pc' = [pc EXCEPT ![c] = "returned"]
            /\ \E how \in {"result", "failed", "cancelled"} : outcome' = [outcome EXCEPT ![c] = how]
            /\ c \in wait' => outcome' = [outcome EXCEPT ![c] = "failed"]
      /\ pc[c] \in {"write", "writing", "wait", "forget"}
      /\ pc'[c] \in Held => pc[c] \in Held
  BY MoveShape
<1>2. ConnTypes'
  BY <1>1 DEF ConnInv, ConnTypes, Points
<1>3. AnswersSent'
  BY <1>1 DEF ConnInv, AnswersSent, FromPeer, Answerable
<1>4. CallShape'
  BY <1>1 DEF ConnInv, CallShape, ConnTypes, Early
<1>5. NobodyForgotten'
  BY <1>1 DEF ConnInv, NobodyForgotten, ConnTypes, Early, Held, CallFrames
<1>6. WaitTableSound'
  BY <1>1 DEF ConnInv, WaitTableSound, CallShape, ConnTypes, Held, Early
<1> QED
  BY <1>2, <1>3, <1>4, <1>5, <1>6 DEF ConnInv

\* The read loop.
LEMMA FirstFrame ==
  ASSUME ConnInv, outbox # <<>>
  PROVE  /\ Head(outbox) \in Frames /\ FromPeer(Head(outbox))
         /\ Tail(outbox) \in Seq(Frames)
         /\ \A i \in 1..Len(Tail(outbox)) : FromPeer(Tail(outbox)[i])
<1>1. outbox \in Seq(Frames) /\ \A i \in 1..Len(outbox) : FromPeer(outbox[i])
  BY DEF ConnInv, ConnTypes, AnswersSent
<1>2. Len(outbox) \in Nat /\ Len(outbox) >= 1 /\ Head(outbox) = outbox[1] /\ Head(outbox) \in Frames
  BY <1>1
<1>3. Tail(outbox) \in Seq(Frames) /\ Len(Tail(outbox)) = Len(outbox) - 1
      /\ \A i \in 1..Len(Tail(outbox)) : Tail(outbox)[i] = outbox[i + 1]
  BY <1>1
<1>4. FromPeer(Head(outbox))
  BY <1>1, <1>2
<1>5. \A i \in 1..Len(Tail(outbox)) : i + 1 \in 1..Len(outbox)
  BY <1>2, <1>3
<1> QED
  BY <1>1, <1>2, <1>3, <1>4, <1>5

\* Only an answer, or what mcp takes for one, is looked up.
LEMMA MeaningIsSound ==
  ASSUME ConnInv, NEW f \in Frames, FromPeer(f)
  PROVE  /\ Meaning(f) \in {"read", "lookup", "reply", "publish", "fail"}
         /\ Meaning(f) = "lookup" => f \in CallFrames /\ f.id \in Answerable
<1>1. kind \in Kinds
  BY DEF ConnInv, ConnTypes
<1>2. f.type \in {"response", "request"} => f \in CallFrames
  BY DEF Frames, PlainFrames, PublishFrames
<1>3. kind = "mcp" => /\ McpMeaning(f) \in {"read", "lookup", "fail"}
                      /\ McpMeaning(f) = "lookup" => f.type \in {"response", "request"}
  BY DEF McpMeaning
<1>4. kind = "lsp" => /\ LspMeaning(f) \in {"read", "lookup", "reply", "publish", "fail"}
                      /\ LspMeaning(f) = "lookup" => f.type = "response"
  BY DEF LspMeaning
<1>5. kind = "acp" => /\ AcpMeaning(f) \in {"read", "lookup", "fail"}
                      /\ AcpMeaning(f) = "lookup" => f.type = "response"
  BY DEF AcpMeaning
<1>6. /\ kind = "mcp" => Meaning(f) = McpMeaning(f)
      /\ kind = "lsp" => Meaning(f) = LspMeaning(f)
      /\ kind = "acp" => Meaning(f) = AcpMeaning(f)
  BY DEF Meaning
<1> QED
  BY <1>1, <1>2, <1>3, <1>4, <1>5, <1>6 DEF Kinds, FromPeer, Answerable

LEMMA ReadFrameKeepsConnInv == ConnInv /\ ReadFrame => ConnInv'
<1> SUFFICES ASSUME ConnInv, ReadFrame PROVE ConnInv'
  OBVIOUS
<1> DEFINE f == Head(outbox)
<1>1. /\ reader = "read" /\ outbox # <<>> /\ outbox' = Tail(outbox) /\ reader' = Meaning(f)
      /\ frame' = IF reader' \in {"read", "fail"} THEN NoFrame ELSE f
      /\ UNCHANGED <<kind, pc, outcome, chan, wait, err, answered, asked>>
  BY DEF ReadFrame, callVars, peerVars
<1>2. /\ f \in Frames /\ FromPeer(f) /\ Tail(outbox) \in Seq(Frames)
      /\ \A i \in 1..Len(Tail(outbox)) : FromPeer(Tail(outbox)[i])
  BY <1>1, FirstFrame
<1>3. /\ reader' \in {"read", "lookup", "reply", "publish", "fail"}
      /\ reader' = "lookup" => frame' = f /\ f \in CallFrames /\ f.id \in Answerable
  <2>1. /\ Meaning(f) \in {"read", "lookup", "reply", "publish", "fail"}
        /\ Meaning(f) = "lookup" => f \in CallFrames /\ f.id \in Answerable
    BY <1>2, MeaningIsSound
  <2> HIDE DEF f
  <2> QED
    BY <2>1, <1>1
<1> HIDE DEF f
<1>4. ConnTypes'
  BY <1>1, <1>2, <1>3 DEF ConnInv, ConnTypes, Readers
<1>5. AnswersSent'
  <2>1. Answerable' = Answerable
    BY <1>1 DEF Answerable
  <2>2. (\A i \in 1..Len(outbox) : FromPeer(outbox[i]))'
    BY <1>1, <1>2 DEF FromPeer
  <2>3. reader' \in {"lookup", "send"} => frame'.id \in Answerable
    BY <1>3
  <2>4. \A c \in Calls : chan'[c] = "value" => c \in Answerable
    BY <1>1 DEF ConnInv, AnswersSent
  <2> QED
    BY <2>1, <2>2, <2>3, <2>4 DEF AnswersSent
<1>6. reader' \notin {"send", "close", "ended"}
  BY <1>3
<1>7. CallShape'
  BY <1>1 DEF ConnInv, CallShape
<1>8. NobodyForgotten'
  BY <1>1, <1>6 DEF ConnInv, NobodyForgotten
<1>9. WaitTableSound'
  BY <1>1, <1>6 DEF ConnInv, WaitTableSound
<1> QED
  BY <1>4, <1>5, <1>7, <1>8, <1>9 DEF ConnInv

LEMMA LookupKeepsConnInv == ConnInv /\ Lookup => ConnInv'
<1> SUFFICES ASSUME ConnInv, Lookup PROVE ConnInv'
  OBVIOUS
<1>1. /\ reader = "lookup" /\ wait' = wait \ {frame.id}
      /\ \/ frame.id \in wait /\ reader' = "send" /\ frame' = frame
         \/ frame.id \notin wait /\ reader' = "read" /\ frame' = NoFrame
      /\ UNCHANGED <<kind, pc, outcome, chan, err, outbox, answered, asked>>
  BY DEF Lookup, NextFrame, OutOfTable, callVars, pipeVars, peerVars
<1>2. frame \in CallFrames /\ frame.id \in Calls /\ frame.id \in Answerable
  BY <1>1 DEF ConnInv, ConnTypes, AnswersSent, CallFrames
<1>3. ConnTypes'
  BY <1>1, <1>2 DEF ConnInv, ConnTypes, Readers
<1>4. AnswersSent'
  BY <1>1, <1>2 DEF ConnInv, AnswersSent, FromPeer, Answerable
<1>5. CallShape'
  BY <1>1 DEF ConnInv, CallShape
<1>6. NobodyForgotten'
  BY <1>1, <1>2 DEF ConnInv, NobodyForgotten, CallShape
<1>7. WaitTableSound'
  BY <1>1, <1>2 DEF ConnInv, WaitTableSound
<1> QED
  BY <1>3, <1>4, <1>5, <1>6, <1>7 DEF ConnInv

LEMMA SendKeepsConnInv == ConnInv /\ Send => ConnInv'
<1> SUFFICES ASSUME ConnInv, Send PROVE ConnInv'
  OBVIOUS
<1>1. /\ reader = "send" /\ chan' = [chan EXCEPT ![frame.id] = "value"]
      /\ reader' = "read" /\ frame' = NoFrame
      /\ UNCHANGED <<kind, pc, outcome, wait, err, outbox, answered, asked>>
  BY DEF Send, NextFrame, pipeVars, peerVars
<1>2. frame \in CallFrames /\ frame.id \in Calls /\ frame.id \in Answerable
  BY <1>1 DEF ConnInv, ConnTypes, AnswersSent, CallFrames
<1>3. ConnTypes'
  BY <1>1, <1>2 DEF ConnInv, ConnTypes, Readers
<1>4. AnswersSent'
  BY <1>1, <1>2 DEF ConnInv, ConnTypes, AnswersSent, FromPeer, Answerable
<1>5. CallShape'
  BY <1>1, <1>2 DEF ConnInv, ConnTypes, CallShape, NobodyForgotten
<1>6. NobodyForgotten'
  BY <1>1, <1>2 DEF ConnInv, ConnTypes, NobodyForgotten
<1>7. WaitTableSound'
  BY <1>1, <1>2 DEF ConnInv, ConnTypes, WaitTableSound
<1> QED
  BY <1>3, <1>4, <1>5, <1>6, <1>7 DEF ConnInv

\* The loop ends: every channel of the table is closed.
LEMMA EndLoopKeepsConnInv == ConnInv /\ EndLoop => ConnInv'
<1> SUFFICES ASSUME ConnInv, EndLoop PROVE ConnInv'
  OBVIOUS
<1>1. /\ reader = "fail"
      /\ UNCHANGED <<kind, pc, outcome, frame, outbox, answered, asked>>
      /\ \/ /\ kind # "acp" /\ err' = TRUE /\ wait' = {} /\ reader' = "close"
            /\ chan' = [c \in Calls |-> IF c \in wait THEN "closed" ELSE chan[c]]
         \/ kind = "acp" /\ reader' = "ended" /\ UNCHANGED <<err, chan, wait>>
  BY DEF EndLoop, pipeVars, peerVars
<1>2. ConnTypes'
  BY <1>1 DEF ConnInv, ConnTypes, Readers
<1>3. AnswersSent'
  BY <1>1 DEF ConnInv, ConnTypes, AnswersSent, FromPeer, Answerable
<1>4. CallShape'
  BY <1>1 DEF ConnInv, ConnTypes, CallShape, WaitTableSound, Early
<1>5. NobodyForgotten'
  BY <1>1 DEF ConnInv, ConnTypes, NobodyForgotten
<1>6. WaitTableSound'
  BY <1>1 DEF ConnInv, ConnTypes, WaitTableSound, NobodyForgotten, Held
<1> QED
  BY <1>2, <1>3, <1>4, <1>5, <1>6 DEF ConnInv

\* Steps of the reader that only move it on.
LEMMA ReaderMoves ==
  ASSUME ConnInv,
         UNCHANGED <<kind, pc, outcome, chan, wait, outbox, answered, asked>>,
         err' = err \/ err' = TRUE,
         \/ UNCHANGED <<reader, frame>>
         \/ /\ reader \notin {"close", "ended", "send"}
            /\ reader' \in {"read", "replying", "signal", "fail"}
         \/ reader = "close" /\ reader' = "ended"
  PROVE  ConnInv'
<1>1. ConnTypes'
  BY DEF ConnInv, ConnTypes, Readers
<1>2. AnswersSent'
  BY DEF ConnInv, AnswersSent, FromPeer, Answerable
<1>3. CallShape' /\ NobodyForgotten' /\ WaitTableSound'
  BY DEF ConnInv, CallShape, NobodyForgotten, WaitTableSound
<1> QED
  BY <1>1, <1>2, <1>3 DEF ConnInv

LEMMA ReaderKeepsConnInv == ConnInv /\ ReaderStep => ConnInv'
<1> SUFFICES ASSUME ConnInv, ReaderStep PROVE ConnInv'
  OBVIOUS
<1> USE DEF callVars, pipeVars, peerVars
<1>1. CASE ReadFrame
  BY <1>1, ReadFrameKeepsConnInv
<1>2. CASE ReadFails
  BY <1>2, ReaderMoves DEF ReadFails
<1>3. CASE Lookup
  BY <1>3, LookupKeepsConnInv
<1>4. CASE Send
  BY <1>4, SendKeepsConnInv
<1>5. CASE ReplyLock
  BY <1>5, ReaderMoves DEF ReplyLock
<1>6. CASE Reply
  BY <1>6, ReaderMoves DEF Reply, NextFrame
<1>7. CASE EndLoop
  BY <1>7, EndLoopKeepsConnInv
<1>8. CASE CloseDone
  BY <1>8, ReaderMoves DEF CloseDone
<1> QED
  BY <1>1, <1>2, <1>3, <1>4, <1>5, <1>6, <1>7, <1>8 DEF ReaderStep

\* What the peer sends joins the frames on their way.
LEMMA SentKeepsConnInv ==
  ASSUME ConnInv, NEW g \in Frames,
         outbox' = Append(outbox, g),
         answered \subseteq answered', asked \subseteq asked',
         g.type = "response" => g.id \in answered',
         g.type = "request" /\ kind = "mcp" => g.id \in asked',
         UNCHANGED <<kind, pc, outcome, chan, wait, err, reader, frame>>
  PROVE  ConnInv'
<1>1. /\ outbox \in Seq(Frames) /\ \A i \in 1..Len(outbox) : FromPeer(outbox[i])
      /\ reader \in {"lookup", "send"} => frame.id \in Answerable
      /\ \A c \in Calls : chan[c] = "value" => c \in Answerable
  BY DEF ConnInv, ConnTypes, AnswersSent
<1>2. /\ outbox' \in Seq(Frames) /\ Len(outbox') = Len(outbox) + 1 /\ Len(outbox) \in Nat
      /\ \A i \in 1..Len(outbox) : outbox'[i] = outbox[i]
      /\ outbox'[Len(outbox) + 1] = g
  BY <1>1, AppendProperties
<1>3. Answerable \subseteq Answerable'
  BY DEF Answerable
<1>4. ConnTypes'
  BY <1>2 DEF ConnInv, ConnTypes
<1>5. (\A i \in 1..Len(outbox) : FromPeer(outbox[i]))'
  <2>1. \A i \in 1..Len(outbox) : /\ outbox'[i].type = "response" => outbox'[i].id \in answered'
                                  /\ outbox'[i].type = "request" /\ kind' = "mcp" => outbox'[i].id \in asked'
    BY <1>1, <1>2 DEF FromPeer
  <2>2. \A i \in 1..Len(outbox') : i \in 1..Len(outbox) \/ i = Len(outbox) + 1
    BY <1>2
  <2> QED
    BY <1>2, <2>1, <2>2 DEF FromPeer
<1>6. AnswersSent'
  BY <1>1, <1>3, <1>5 DEF AnswersSent
<1>7. CallShape' /\ NobodyForgotten' /\ WaitTableSound'
  BY DEF ConnInv, CallShape, NobodyForgotten, WaitTableSound
<1> QED
  BY <1>4, <1>6, <1>7 DEF ConnInv

LEMMA PeerAnswerKeepsConnInv ==
  ASSUME ConnInv, NEW c \in Calls, PeerAnswer(c)
  PROVE  ConnInv'
<1> DEFINE g == [type |-> "response", id |-> c]
<1>1. g \in Frames /\ g.type = "response" /\ g.id = c
  BY DEF Frames, CallFrames
<1>2. /\ outbox' = Append(outbox, g) /\ answered' = answered \cup {c} /\ asked' = asked
      /\ UNCHANGED <<kind, pc, outcome, chan, wait, err, reader, frame>>
  BY DEF PeerAnswer, callVars, connVars
<1> HIDE DEF g
<1> QED
  BY <1>1, <1>2, SentKeepsConnInv

LEMMA PeerNoiseKeepsConnInv ==
  ASSUME ConnInv, NEW f \in Frames, PeerNoise(f)
  PROVE  ConnInv'
<1>1. /\ outbox' = Append(outbox, f) /\ answered' = answered /\ asked \subseteq asked'
      /\ f.type = "response" => f.id \in answered'
      /\ f.type = "request" /\ kind = "mcp" => f.id \in asked'
      /\ UNCHANGED <<kind, pc, outcome, chan, wait, err, reader, frame>>
  BY DEF PeerNoise, callVars, connVars
<1> QED
  BY <1>1, SentKeepsConnInv

\* A killed child may take what it had sent with it.
LEMMA KillKeepsConnInv == ConnInv /\ Kill => ConnInv'
<1> SUFFICES ASSUME ConnInv, Kill PROVE ConnInv'
  OBVIOUS
<1>1. /\ outbox' = outbox \/ outbox' = <<>>
      /\ UNCHANGED <<kind, pc, outcome, chan, wait, err, reader, frame, answered, asked>>
  BY DEF Kill, callVars, connVars
<1>2. CASE outbox' = outbox
  BY <1>1, <1>2, FrameKeepsConnInv DEF connInvVars
<1>3. CASE outbox' = <<>>
  <2>1. <<>> \in Seq(Frames) /\ Len(<<>>) = 0
    OBVIOUS
  <2>2. ConnTypes'
    BY <1>1, <1>3, <2>1 DEF ConnInv, ConnTypes
  <2>3. AnswersSent'
    BY <1>1, <1>3, <2>1 DEF ConnInv, AnswersSent, Answerable
  <2>4. CallShape' /\ NobodyForgotten' /\ WaitTableSound'
    BY <1>1 DEF ConnInv, CallShape, NobodyForgotten, WaitTableSound
  <2> QED
    BY <2>2, <2>3, <2>4 DEF ConnInv
<1> QED
  BY <1>1, <1>2, <1>3

(***************************************************************************)
(* The steps of the sessions.                                              *)
(***************************************************************************)

LEMMA CallKeepsConnInv ==
  ASSUME ConnInv, NEW c \in Calls, CallStep(c)
  PROVE  ConnInv'
<1>1. Register(c) \/ Moves(c)
  BY DEF CallStep, McpCall, LspCall, AcpCall, Moves
<1> QED
  BY <1>1, RegisterKeepsConnInv, MoveKeepsConnInv

\* What the steps of Start and Close do to the connection.
LEMMA StartKeepsConnInv == ConnInv /\ (McpStart \/ LspStart) => ConnInv'
<1> SUFFICES ASSUME ConnInv, McpStart \/ LspStart PROVE ConnInv'
  OBVIOUS
<1> USE SessionAssumption
<1>1. ASSUME NEW c \in Calls, NEW at, StartCall(c, at) PROVE ConnInv'
  BY <1>1, MakeKeepsConnInv DEF StartCall
<1>2. ASSUME NEW c \in Calls, NEW at, NEW next, StartReturned(c, at, next) PROVE ConnInv'
  BY <1>2, FrameKeepsConnInv
     DEF StartReturned, rpcVars, callVars, connVars, pipeVars, peerVars, connInvVars
<1>3. CASE StartNotifyLock \/ StartNotify
  <2>1. UNCHANGED connInvVars
    BY <1>3 DEF StartNotifyLock, StartNotify, callVars, pipeVars, peerVars, connInvVars
  <2> QED
    BY <2>1, FrameKeepsConnInv
<1>4. CASE CloseSession
  <2>1. /\ err' = TRUE
        /\ UNCHANGED <<kind, pc, outcome, chan, wait, reader, frame, outbox, answered, asked>>
    BY <1>4 DEF CloseSession, CloseConn, callVars, pipeVars, peerVars
  <2> QED
    BY <2>1, ReaderMoves
<1>5. CASE KillSession
  BY <1>5, KillKeepsConnInv DEF KillSession
<1> QED
  BY <1>1, <1>2, <1>3, <1>4, <1>5 DEF McpStart, LspStart

LEMMA QueryKeepsConnInv ==
  ASSUME ConnInv, NEW q, (\E u \in Uris : OpenPath(q, u)) \/ QueryStep(q)
  PROVE  ConnInv'
<1>1. UNCHANGED connInvVars
  BY DEF OpenPath, QueryStep, OpenLock, OpenNotify, WaitCheck, WaitUpdate, WaitTimeout,
         rpcVars, callVars, connVars, pipeVars, peerVars, connInvVars
<1> QED
  BY <1>1, FrameKeepsConnInv

LEMMA ReadsKeepsConnInv == ConnInv /\ Reads => ConnInv'
<1> SUFFICES ASSUME ConnInv, Reads PROVE ConnInv'
  OBVIOUS
<1> USE DEF callVars, pipeVars, peerVars
<1>1. CASE ReaderStep
  BY <1>1, ReaderKeepsConnInv
<1>2. CASE StoreDiags
  BY <1>2, ReaderMoves DEF StoreDiags
<1>3. CASE SignalDiags
  BY <1>3, ReaderMoves DEF SignalDiags, NextFrame
<1> QED
  BY <1>1, <1>2, <1>3 DEF Reads

LEMMA NextKeepsConnInv == ConnInv /\ [Next]_vars => ConnInv'
<1> SUFFICES ASSUME ConnInv, [Next]_vars PROVE ConnInv'
  OBVIOUS
<1> USE DEF callVars, connVars, pipeVars, peerVars, connInvVars
<1>1. CASE McpStart \/ LspStart
  BY <1>1, StartKeepsConnInv
<1>2. CASE RegistryClose
  BY <1>2, FrameKeepsConnInv DEF RegistryClose, rpcVars
<1>3. ASSUME NEW c \in ToolCalls, ToolCall(c) PROVE ConnInv'
  BY <1>3, MakeKeepsConnInv DEF ToolCall, ToolCalls
<1>4. ASSUME NEW c \in Calls, CallStep(c) PROVE ConnInv'
  BY <1>4, CallKeepsConnInv
<1>5. ASSUME NEW c \in Calls, PeerAnswer(c) PROVE ConnInv'
  BY <1>5, PeerAnswerKeepsConnInv
<1>6. ASSUME NEW q \in Queries, (\E u \in Uris : OpenPath(q, u)) \/ QueryStep(q) PROVE ConnInv'
  BY <1>6, QueryKeepsConnInv
<1>7. CASE Reads
  BY <1>7, ReadsKeepsConnInv
<1>8. CASE PeerReads
  BY <1>8, FrameKeepsConnInv DEF PeerReads, PeerRead
<1>9. ASSUME NEW f \in Frames, PeerNoise(f) PROVE ConnInv'
  BY <1>9, PeerNoiseKeepsConnInv
<1>10. CASE PeerDies
  BY <1>10, FrameKeepsConnInv DEF PeerDies
<1>11. CASE UNCHANGED vars
  BY <1>11, FrameKeepsConnInv DEF vars, rpcVars
<1> QED
  BY <1>1, <1>2, <1>3, <1>4, <1>5, <1>6, <1>7, <1>8, <1>9, <1>10, <1>11 DEF Next

LEMMA ConnInvHolds == Spec => []ConnInv
<1> QED
  BY InitConnInv, NextKeepsConnInv, PTL DEF Spec

\* The table of waiting calls is sound: no send of the reader blocks or meets a closed
\* channel, and a reader that has left leaves no caller waiting for its deadline (conn.go
\* call, readLoop and failAll).
THEOREM TableSound == Spec => []WaitTableSound
<1>1. ConnInv => WaitTableSound
  BY DEF ConnInv
<1> QED
  BY <1>1, ConnInvHolds, PTL

(***************************************************************************)
(* The connection implements CallService.                                  *)
(***************************************************************************)

states == [c \in Calls |-> StateOf(c)]

LEMMA StateValues ==
  ASSUME NEW c \in Calls
  PROVE  /\ pc[c] = "unmade" => StateOf(c) = "unmade"
         /\ pc[c] = "returned" /\ outcome[c] = "result" => StateOf(c) = "result"
         /\ pc[c] = "returned" /\ outcome[c] # "result" => StateOf(c) = "failed"
         /\ pc[c] \notin {"unmade", "returned"} => StateOf(c) = "pending"
BY DEF StateOf

\* Where neither a pc nor an outcome changes, no state does.
LEMMA QuietStutters ==
  ASSUME UNCHANGED <<kind, pc, outcome, answered, asked>>
  PROVE  UNCHANGED Service!vars
<1>1. \A c \in Calls : StateOf(c)' = StateOf(c)
  BY DEF StateOf
<1>2. Answerable' = Answerable
  BY DEF Answerable
<1> QED
  BY <1>1, <1>2 DEF Service!vars

\* A step of one caller changes the state of its own call alone.
LEMMA OneStateChanges ==
  ASSUME ConnInv, NEW c \in Calls, NEW to, NEW how,
         pc' = [pc EXCEPT ![c] = to],
         outcome' = outcome \/ outcome' = [outcome EXCEPT ![c] = how]
  PROVE  states' = [states EXCEPT ![c] = StateOf(c)'] /\ pc'[c] = to
<1>1. /\ pc \in [Calls -> Points]
      /\ outcome \in [Calls -> {"none", "result", "failed", "cancelled"}]
  BY DEF ConnInv, ConnTypes
<1>2. pc'[c] = to /\ \A d \in Calls \ {c} : pc'[d] = pc[d] /\ outcome'[d] = outcome[d]
  BY <1>1
<1>3. \A d \in Calls \ {c} : StateOf(d)' = StateOf(d)
  BY <1>2 DEF StateOf
<1> QED
  BY <1>2, <1>3 DEF states

LEMMA MakeImplements ==
  ASSUME ConnInv, NEW c \in Calls, Make(c)
  PROVE  Service!Next
<1>1. /\ pc[c] = "unmade" /\ pc' = [pc EXCEPT ![c] = "register"] /\ outcome' = outcome
      /\ UNCHANGED <<kind, answered, asked>>
  BY DEF Make, GoTo, peerVars
<1>2. states' = [states EXCEPT ![c] = StateOf(c)'] /\ pc'[c] = "register"
  BY <1>1, OneStateChanges
<1>3. StateOf(c)' = "pending"
  BY <1>2 DEF StateOf
<1>4. states[c] = "unmade"
  BY <1>1, StateValues DEF states
<1>5. Answerable' = Answerable
  BY <1>1 DEF Answerable
<1>6. Service!Make(c)
  BY <1>2, <1>3, <1>4, <1>5 DEF Service!Make, states
<1> QED
  BY <1>6 DEF Service!Next

LEMMA CallImplements ==
  ASSUME ConnInv, NEW c \in Calls, CallStep(c)
  PROVE  Service!Next \/ UNCHANGED Service!vars
<1>1. UNCHANGED <<kind, answered, asked>>
  BY DEF CallStep, McpCall, LspCall, AcpCall, Register, WriteLock, Write, WriteFails, Cancelled,
         Forget, LoopDone, Received, peerVars
<1>2. pc[c] \in {"register", "write", "writing", "wait", "forget"}
  BY DEF CallStep, McpCall, LspCall, AcpCall, Register, WriteLock, Write, WriteFails, Cancelled,
         Forget, LoopDone, Received
<1>3. \/ \E to \in {"write", "writing", "wait", "forget"} :
            pc' = [pc EXCEPT ![c] = to] /\ outcome' = outcome
      \/ \E how \in {"failed", "cancelled"} : Return(c, how)
      \/ Return(c, "result") /\ c \in Answerable
  <2>1. CASE Received(c)
    BY <2>1 DEF Received, Taken, ConnInv, AnswersSent
  <2>2. CASE Register(c) \/ WriteLock(c) \/ Write(c) \/ WriteFails(c) \/ Cancelled(c) \/ Forget(c)
             \/ LoopDone(c)
    BY <2>2 DEF Register, WriteLock, Write, WriteFails, Cancelled, Forget, LoopDone, GoTo, Return
  <2> QED
    BY <2>1, <2>2 DEF CallStep, McpCall, LspCall, AcpCall
<1>4. Answerable' = Answerable
  BY <1>1 DEF Answerable
<1>5. StateOf(c) = "pending" /\ states[c] = "pending"
  BY <1>2, StateValues DEF states
<1>6. ASSUME NEW to \in {"write", "writing", "wait", "forget"},
             pc' = [pc EXCEPT ![c] = to], outcome' = outcome
      PROVE  UNCHANGED Service!vars
  <2>1. states' = [states EXCEPT ![c] = StateOf(c)'] /\ pc'[c] = to
    BY <1>6, OneStateChanges
  <2>2. StateOf(c)' = "pending"
    BY <2>1 DEF StateOf
  <2>3. states' = states
    BY <2>1, <2>2, <1>5 DEF states
  <2> QED
    BY <2>3, <1>4 DEF Service!vars, states
<1>7. ASSUME NEW how \in {"result", "failed", "cancelled"}, Return(c, how)
      PROVE  /\ states' = [states EXCEPT ![c] = StateOf(c)']
             /\ StateOf(c)' = IF how = "result" THEN "result" ELSE "failed"
  <2>1. pc' = [pc EXCEPT ![c] = "returned"] /\ outcome' = [outcome EXCEPT ![c] = how]
    BY <1>7 DEF Return
  <2>2. states' = [states EXCEPT ![c] = StateOf(c)'] /\ pc'[c] = "returned"
    BY <2>1, OneStateChanges
  <2>3. outcome'[c] = how
    BY <2>1 DEF ConnInv, ConnTypes
  <2>4. StateOf(c)' = IF how = "result" THEN "result" ELSE "failed"
    BY <2>2, <2>3 DEF StateOf
  <2> QED
    BY <2>2, <2>4
<1>8. ASSUME NEW how \in {"failed", "cancelled"}, Return(c, how)
      PROVE  Service!Next
  <2>1. states' = [states EXCEPT ![c] = "failed"]
    BY <1>7, <1>8
  <2>2. Service!Fail(c)
    BY <2>1, <1>4, <1>5 DEF Service!Fail, states
  <2> QED
    BY <2>2 DEF Service!Next
<1>9. ASSUME Return(c, "result"), c \in Answerable
      PROVE  Service!Next
  <2>1. states' = [states EXCEPT ![c] = "result"]
    BY <1>7, <1>9
  <2>2. Service!Succeed(c)
    BY <2>1, <1>4, <1>5, <1>9 DEF Service!Succeed, states
  <2> QED
    BY <2>2 DEF Service!Next
<1> QED
  BY <1>3, <1>6, <1>8, <1>9

LEMMA SentImplements ==
  ASSUME NEW c \in Calls, UNCHANGED <<pc, outcome>>, Answerable' = Answerable \cup {c}
  PROVE  Service!Next
<1>1. \A d \in Calls : StateOf(d)' = StateOf(d)
  BY DEF StateOf
<1>2. Service!Answer(c)
  BY <1>1 DEF Service!Answer
<1> QED
  BY <1>2 DEF Service!Next

LEMMA PeerAnswerImplements ==
  ASSUME NEW c \in Calls, PeerAnswer(c)
  PROVE  Service!Next
<1>1. Answerable' = Answerable \cup {c} /\ UNCHANGED <<pc, outcome>>
  BY DEF PeerAnswer, Answerable, callVars
<1> QED
  BY <1>1, SentImplements

LEMMA PeerNoiseImplements ==
  ASSUME NEW f \in Frames, PeerNoise(f)
  PROVE  Service!Next \/ UNCHANGED Service!vars
<1>1. UNCHANGED <<kind, pc, outcome, answered>>
  BY DEF PeerNoise, callVars
<1>2. CASE f.type = "request" /\ kind = "mcp"
  <2>1. f.id \in Calls
    BY <1>2 DEF Frames, CallFrames, PlainFrames, PublishFrames
  <2>2. Answerable' = Answerable \cup {f.id}
    BY <1>1, <1>2 DEF PeerNoise, Answerable
  <2> QED
    BY <1>1, <2>1, <2>2, SentImplements
<1>3. CASE ~(f.type = "request" /\ kind = "mcp")
  <2>1. UNCHANGED asked
    BY <1>3 DEF PeerNoise
  <2> QED
    BY <1>1, <2>1, QuietStutters
<1> QED
  BY <1>2, <1>3

\* Every other step leaves the pcs and outcomes of the calls, and what the peer sent, alone.
LEMMA NextImplements == ConnInv /\ [Next]_vars => [Service!Next]_(Service!vars)
<1> SUFFICES ASSUME ConnInv, [Next]_vars
             PROVE  Service!Next \/ UNCHANGED Service!vars
  OBVIOUS
<1> USE SessionAssumption DEF callVars, connVars, pipeVars, peerVars
<1>1. CASE McpStart \/ LspStart
  <2>1. ASSUME NEW c \in Calls, NEW at, StartCall(c, at) PROVE Service!Next
    BY <2>1, MakeImplements DEF StartCall
  <2>2. ASSUME NEW c \in Calls, NEW at, NEW next, StartReturned(c, at, next)
        PROVE  UNCHANGED Service!vars
    BY <2>2, QuietStutters DEF StartReturned, rpcVars
  <2>3. CASE StartNotifyLock \/ StartNotify
    BY <2>3, QuietStutters DEF StartNotifyLock, StartNotify
  <2>4. CASE CloseSession \/ KillSession
    BY <2>4, QuietStutters DEF CloseSession, CloseConn, KillSession, Kill
  <2> QED
    BY <1>1, <2>1, <2>2, <2>3, <2>4 DEF McpStart, LspStart
<1>2. CASE RegistryClose
  BY <1>2, QuietStutters DEF RegistryClose, rpcVars
<1>3. ASSUME NEW c \in ToolCalls, ToolCall(c) PROVE Service!Next
  BY <1>3, MakeImplements DEF ToolCall, ToolCalls
<1>4. ASSUME NEW c \in Calls, CallStep(c) PROVE Service!Next \/ UNCHANGED Service!vars
  BY <1>4, CallImplements
<1>5. ASSUME NEW c \in Calls, PeerAnswer(c) PROVE Service!Next
  BY <1>5, PeerAnswerImplements
<1>6. ASSUME NEW q \in Queries, (\E u \in Uris : OpenPath(q, u)) \/ QueryStep(q)
      PROVE  UNCHANGED Service!vars
  <2>1. UNCHANGED <<kind, pc, outcome, answered, asked>>
    BY <1>6 DEF OpenPath, QueryStep, OpenLock, OpenNotify, WaitCheck, WaitUpdate, WaitTimeout, rpcVars
  <2> QED
    BY <2>1, QuietStutters
<1>7. CASE Reads
  <2>1. UNCHANGED <<kind, pc, outcome, answered, asked>>
    BY <1>7 DEF Reads, ReaderStep, ReadFrame, ReadFails, Lookup, Send, ReplyLock, Reply, EndLoop,
                CloseDone, StoreDiags, SignalDiags
  <2> QED
    BY <2>1, QuietStutters
<1>8. CASE PeerReads
  BY <1>8, QuietStutters DEF PeerReads, PeerRead
<1>9. ASSUME NEW f \in Frames, PeerNoise(f) PROVE Service!Next \/ UNCHANGED Service!vars
  BY <1>9, PeerNoiseImplements
<1>10. CASE PeerDies
  BY <1>10, QuietStutters DEF PeerDies
<1>11. CASE UNCHANGED vars
  BY <1>11, QuietStutters DEF vars, rpcVars
<1> QED
  BY <1>1, <1>2, <1>3, <1>4, <1>5, <1>6, <1>7, <1>8, <1>9, <1>10, <1>11 DEF Next

\* The connection is a CallService: a call ends once, and with a result only if the peer
\* sent one under its id (conn.go call and readLoop).
THEOREM Implements == Spec => ServiceSpec
<1>1. Init => Service!Init
  <2> SUFFICES ASSUME Init PROVE Service!Init
    OBVIOUS
  <2>1. pc = [c \in Calls |-> "unmade"] /\ answered = {} /\ asked = {}
    BY DEF Init, RpcInit
  <2>2. \A c \in Calls : StateOf(c) = "unmade"
    BY <2>1, StateValues
  <2>3. Answerable = {}
    BY <2>1 DEF Answerable
  <2> QED
    BY <2>2, <2>3 DEF Service!Init
<1> QED
  BY <1>1, ConnInvHolds, NextImplements, PTL DEF Spec, ServiceSpec, Service!Spec

=============================================================================
