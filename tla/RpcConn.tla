------------------------------- MODULE RpcConn -------------------------------
(***************************************************************************)
(* The JSON-RPC connection, of which the program has three variants:       *)
(* internal/mcp and internal/lsp talk to a child process and read its      *)
(* output in a goroutine; internal/acp talks to the editor and is read by  *)
(* the server's loop.  Callers, the reader and the peer meet in the table  *)
(* of waiting calls, in the mutex c.mu, which a writer keeps while the     *)
(* pipe is full, and in the two pipes.                                     *)
(*                                                                         *)
(* A call is its own id: ids are never reused.  A frame is a record; the   *)
(* bytes of its header and JSON are reduced to what the reader does with   *)
(* it: a "bad" frame ends the reading (no length, a length out of bounds, a *)
(* line too long and, over acp, text that is no JSON), a "notification" is  *)
(* skipped (also, over mcp and lsp, text that is no JSON or empty).         *)
(***************************************************************************)
EXTENDS Naturals, Sequences, FiniteSets

CONSTANTS
    Calls,      \* the calls made on the connection
    Uris,       \* documents a language server publishes diagnostics for
    PipeCap,    \* bound: frames a pipe holds before its writer blocks
    MaxNoise,   \* bound, per kind: frames the peer sends besides first answers
    Reader, Nobody  \* holders of c.mu that are not calls

Kinds == {"mcp", "lsp", "acp"}

ASSUME RpcAssumption ==
    /\ PipeCap \in Nat \ {0} /\ MaxNoise \in [Kinds -> Nat]
    /\ Reader \notin Calls /\ Nobody \notin Calls /\ Reader # Nobody

VARIABLES
    kind,      \* which of the three connections this is
    \* callers: where they are, how the call ended, its channel
    pc, outcome, chan,
    \* Conn: the table of waiting calls, holder of mu, err set, done closed
    wait, mu, err, done,
    \* the read loop and the frame in its hands
    reader, frame,
    \* the peer: running, the pipes to and from it, calls read and not answered,
    \* results sent, requests of its own sent (by id), further frames sent
    alive, inbox, outbox, pending, answered, asked, noise

callVars == <<pc, outcome, chan>>
connVars == <<wait, mu, err, done, reader, frame>>
pipeVars == <<inbox, outbox>>
peerVars == <<alive, pending, answered, asked, noise>>
rpcVars == <<kind, callVars, connVars, pipeVars, peerVars>>

CallFrames == [type : {"response", "request"}, id : Calls]
PlainFrames == [type : {"notification", "bad"}]
PublishFrames == [type : {"publish"}, uri : Uris]
NoFrame == [type |-> "none"]
Frames == CallFrames \cup PlainFrames \cup PublishFrames
Points == {"unmade", "register", "write", "writing", "wait", "forget", "returned"}

RpcTypeOK ==
    /\ kind \in Kinds
    /\ pc \in [Calls -> Points]
    /\ outcome \in [Calls -> {"none", "result", "failed", "cancelled"}]
    /\ chan \in [Calls -> {"empty", "value", "closed"}]
    /\ wait \subseteq Calls
    /\ err \in BOOLEAN /\ done \in BOOLEAN /\ alive \in BOOLEAN
    /\ reader \in {"read", "lookup", "send", "reply", "replying", "publish",
                   "signal", "fail", "close", "ended"}
    /\ frame \in Frames \cup {NoFrame}
    /\ reader \in {"lookup", "send"} => frame \in CallFrames
    /\ Len(outbox) <= PipeCap /\ Len(inbox) <= PipeCap
    /\ pending \subseteq Calls /\ answered \subseteq Calls /\ asked \subseteq Calls
    /\ noise \in 0..MaxNoise[kind]

RpcInit ==
    /\ pc = [c \in Calls |-> "unmade"]
    /\ outcome = [c \in Calls |-> "none"]
    /\ chan = [c \in Calls |-> "empty"]
    /\ wait = {} /\ mu = Nobody /\ err = FALSE /\ done = FALSE
    /\ reader = "read" /\ frame = NoFrame
    /\ alive = TRUE /\ inbox = <<>> /\ outbox = <<>>
    /\ pending = {} /\ answered = {} /\ asked = {} /\ noise = 0

Free == mu = Nobody

(***************************************************************************)
(* Callers.                                                                *)
(***************************************************************************)

Return(c, how) ==
    /\ pc' = [pc EXCEPT ![c] = "returned"]
    /\ outcome' = [outcome EXCEPT ![c] = how]

GoTo(c, point) == pc' = [pc EXCEPT ![c] = point] /\ UNCHANGED outcome

\* A caller enters call and draws an id.
Make(c) ==
    /\ pc[c] = "unmade"
    /\ GoTo(c, "register")
    /\ UNCHANGED <<kind, chan, connVars, pipeVars, peerVars>>

\* Under mu: refused once err is set (acp has no err), else entered in the table.
Register(c) ==
    /\ pc[c] = "register" /\ Free
    /\ IF err /\ kind # "acp"
       THEN Return(c, "failed") /\ UNCHANGED wait
       ELSE GoTo(c, "write") /\ wait' = wait \cup {c}
    /\ UNCHANGED <<kind, chan, mu, err, done, reader, frame, pipeVars, peerVars>>

WriteLock(c) ==
    /\ pc[c] = "write" /\ Free
    /\ mu' = c
    /\ GoTo(c, "writing")
    /\ UNCHANGED <<kind, chan, wait, err, done, reader, frame, pipeVars, peerVars>>

\* The frame goes into the pipe, when there is room for it.
Write(c) ==
    /\ pc[c] = "writing" /\ alive /\ Len(inbox) < PipeCap
    /\ inbox' = Append(inbox, [type |-> "call", id |-> c])
    /\ mu' = Nobody
    /\ GoTo(c, "wait")
    /\ UNCHANGED <<kind, chan, wait, err, done, reader, frame, outbox, peerVars>>

\* The deferred Unlock of write.  Mutant: missing on the way out of a failed write.
KeptLock == mu
Unlocked == Nobody

\* Nobody reads the pipe any more.  The entry in the table stays.
WriteFails(c) ==
    /\ pc[c] = "writing" /\ ~alive
    /\ mu' = Unlocked
    /\ Return(c, "failed")
    /\ UNCHANGED <<kind, chan, wait, err, done, reader, frame, pipeVars, peerVars>>

\* The select of call: its context, the end of the read loop, or its channel.  The
\* deadline or the interrupt may have come long before: it is only seen here.
Cancelled(c) ==
    /\ pc[c] = "wait"
    /\ GoTo(c, "forget")
    /\ UNCHANGED <<kind, chan, connVars, pipeVars, peerVars>>

\* Mutant: the cancelled call stays in the table.
StayInTable(c) == wait
OutOfTable(c) == wait \ {c}

Forget(c) ==
    /\ pc[c] = "forget" /\ Free
    /\ wait' = OutOfTable(c)
    /\ Return(c, "cancelled")
    /\ UNCHANGED <<kind, chan, mu, err, done, reader, frame, pipeVars, peerVars>>

LoopDone(c) ==
    /\ pc[c] = "wait" /\ done /\ Free
    /\ Return(c, "failed")
    /\ UNCHANGED <<kind, chan, connVars, pipeVars, peerVars>>

\* What is received: of an answer its result, or the error it carries instead.
\* Mutant: a closed channel is taken for an empty answer.
TakenAnyhow(c) == {"result"}
Taken(c) == IF chan[c] = "value" THEN {"result", "failed"} ELSE {"failed"}

Received(c) ==
    /\ pc[c] = "wait" /\ chan[c] # "empty"
    /\ \E how \in Taken(c) : Return(c, how)
    /\ UNCHANGED <<kind, chan, connVars, pipeVars, peerVars>>

McpCall(c) ==
    /\ kind = "mcp"
    /\ \/ Register(c) \/ WriteLock(c) \/ Write(c) \/ WriteFails(c)
       \/ Cancelled(c) \/ Forget(c) \/ LoopDone(c) \/ Received(c)

LspCall(c) ==
    /\ kind = "lsp"
    /\ \/ Register(c) \/ WriteLock(c) \/ Write(c) \/ WriteFails(c)
       \/ Cancelled(c) \/ Forget(c) \/ LoopDone(c) \/ Received(c)

\* The editor's connection waits for the response alone.
AcpCall(c) ==
    /\ kind = "acp"
    /\ Register(c) \/ WriteLock(c) \/ Write(c) \/ WriteFails(c) \/ Received(c)

CallStep(c) == McpCall(c) \/ LspCall(c) \/ AcpCall(c)

(***************************************************************************)
(* The read loop.                                                          *)
(***************************************************************************)

\* What mcp does with a frame.  A request of the server carries an id of the
\* server's own and no result: it is taken for a response.
McpMeaning(f) ==
    CASE f.type = "bad" -> "fail"
      [] f.type \in {"response", "request"} -> "lookup"
      [] OTHER -> "read"

\* lsp answers the server's requests itself and stores diagnostics.
LspMeaning(f) ==
    CASE f.type = "bad" -> "fail"
      [] f.type = "response" -> "lookup"
      [] f.type = "request" -> "reply"
      [] f.type = "publish" -> "publish"
      [] OTHER -> "read"

\* acp hands requests and notifications to the server's loop.
AcpMeaning(f) ==
    CASE f.type = "bad" -> "fail"
      [] f.type = "response" -> "lookup"
      [] OTHER -> "read"

Meaning(f) ==
    CASE kind = "mcp" -> McpMeaning(f)
      [] kind = "lsp" -> LspMeaning(f)
      [] OTHER -> AcpMeaning(f)

ReadFrame ==
    /\ reader = "read" /\ outbox # <<>>
    /\ outbox' = Tail(outbox)
    /\ reader' = Meaning(Head(outbox))
    /\ frame' = IF reader' \in {"read", "fail"} THEN NoFrame ELSE Head(outbox)
    /\ UNCHANGED <<kind, callVars, wait, mu, err, done, inbox, peerVars>>

\* End of input.
ReadFails ==
    /\ reader = "read" /\ outbox = <<>> /\ ~alive
    /\ reader' = "fail"
    /\ UNCHANGED <<kind, callVars, wait, mu, err, done, frame, pipeVars, peerVars>>

NextFrame == reader' = "read" /\ frame' = NoFrame

\* Under mu: the entry leaves the table, so that nobody sends to it again.
Lookup ==
    /\ reader = "lookup" /\ Free
    /\ wait' = OutOfTable(frame.id)
    /\ IF frame.id \in wait
       THEN reader' = "send" /\ UNCHANGED frame
       ELSE NextFrame
    /\ UNCHANGED <<kind, callVars, mu, err, done, pipeVars, peerVars>>

\* After mu is released; the channel has room for one.
Send ==
    /\ reader = "send" /\ chan[frame.id] = "empty"
    /\ chan' = [chan EXCEPT ![frame.id] = "value"]
    /\ NextFrame
    /\ UNCHANGED <<kind, pc, outcome, wait, mu, err, done, pipeVars, peerVars>>

\* lsp writes its reply from the read loop, which meanwhile reads nothing.
ReplyLock ==
    /\ reader = "reply" /\ Free
    /\ mu' = Reader
    /\ reader' = "replying"
    /\ UNCHANGED <<kind, callVars, wait, err, done, frame, pipeVars, peerVars>>

Reply ==
    /\ reader = "replying"
    /\ \/ alive /\ Len(inbox) < PipeCap /\ inbox' = Append(inbox, [type |-> "reply"])
       \/ ~alive /\ UNCHANGED inbox
    /\ mu' = Nobody
    /\ NextFrame
    /\ UNCHANGED <<kind, callVars, wait, err, done, outbox, peerVars>>

\* The way out: every waiting channel is closed and the table emptied, under mu.
EndLoop ==
    /\ reader = "fail"
    /\ \/ /\ kind # "acp" /\ Free
          /\ err' = TRUE
          /\ chan' = [c \in Calls |-> IF c \in wait THEN "closed" ELSE chan[c]]
          /\ wait' = {}
          /\ reader' = "close"
       \/ /\ kind = "acp"
          /\ reader' = "ended"
          /\ UNCHANGED <<err, chan, wait>>
    /\ UNCHANGED <<kind, pc, outcome, mu, done, frame, pipeVars, peerVars>>

\* The deferred close(c.done).
CloseDone ==
    /\ reader = "close"
    /\ done' = TRUE
    /\ reader' = "ended"
    /\ UNCHANGED <<kind, callVars, wait, mu, err, frame, pipeVars, peerVars>>

ReaderStep ==
    \/ ReadFrame \/ ReadFails \/ Lookup \/ Send \/ ReplyLock \/ Reply
    \/ EndLoop \/ CloseDone

\* Conn.Close: later calls are refused; calls already waiting go on waiting.
CloseConn ==
    /\ Free
    /\ err' = TRUE
    /\ UNCHANGED <<kind, callVars, wait, mu, done, reader, frame, pipeVars, peerVars>>

(***************************************************************************)
(* The peer.                                                               *)
(***************************************************************************)

PeerRead ==
    /\ alive /\ inbox # <<>>
    /\ pending' = IF Head(inbox).type = "call" THEN pending \cup {Head(inbox).id} ELSE pending
    /\ inbox' = Tail(inbox)
    /\ UNCHANGED <<kind, callVars, connVars, outbox, alive, answered, asked, noise>>

PeerAnswer(c) ==
    /\ alive /\ c \in pending /\ Len(outbox) < PipeCap
    /\ outbox' = Append(outbox, [type |-> "response", id |-> c])
    /\ pending' = pending \ {c}
    /\ answered' = answered \cup {c}
    /\ UNCHANGED <<kind, callVars, connVars, inbox, alive, asked, noise>>

\* A second response, a request or notification of the peer's, or a broken frame.
PeerNoise(f) ==
    /\ alive /\ Len(outbox) < PipeCap /\ noise < MaxNoise[kind]
    /\ f.type = "response" => f.id \in answered
    /\ outbox' = Append(outbox, f)
    /\ asked' = IF f.type = "request" /\ kind = "mcp" THEN asked \cup {f.id} ELSE asked
    /\ noise' = noise + 1
    /\ UNCHANGED <<kind, callVars, connVars, inbox, alive, pending, answered>>

PeerDies ==
    /\ alive
    /\ alive' = FALSE
    /\ UNCHANGED <<kind, callVars, connVars, pipeVars, pending, answered, asked, noise>>

\* killGroup and cmd.Wait: Wait closes the pipe, and what was unread in it is lost.
Kill ==
    /\ alive' = FALSE
    /\ outbox' \in {outbox, <<>>}
    /\ UNCHANGED <<kind, callVars, connVars, inbox, pending, answered, asked, noise>>

(***************************************************************************)
(* Properties.                                                             *)
(***************************************************************************)

\* Hazard: the reader sends outside mu on a channel with room for one value, and
\* closes channels.  A call in the table has an empty channel and has not ended,
\* unless its write failed; so no send blocks the reader or meets a closed channel.
\* When the reader has left, no call is left to wait for its deadline.
WaitTableSound ==
    /\ \A c \in wait :
          /\ chan[c] = "empty"
          /\ pc[c] \in {"write", "writing", "wait", "forget"} \/ outcome[c] = "failed"
    /\ reader = "send" => frame.id \notin wait /\ chan[frame.id] = "empty"
    /\ reader \in {"close", "ended"} /\ kind # "acp" =>
          /\ wait = {} /\ err
          /\ \A c \in Calls : pc[c] \in {"write", "writing", "wait"} => chan[c] # "empty"

\* The calls a result may belong to: those answered and, over mcp, those whose id
\* the server has used for a request of its own.
Answerable == IF kind = "mcp" THEN answered \cup asked ELSE answered

StateOf(c) ==
    CASE pc[c] = "unmade" -> "unmade"
      [] pc[c] = "returned" -> IF outcome[c] = "result" THEN "result" ELSE "failed"
      [] OTHER -> "pending"

Service == INSTANCE CallService
    WITH state <- [c \in Calls |-> StateOf(c)], answered <- Answerable

\* Hazard: an answer, a cancellation and the end of the stream race for the caller.
\* The connection is a CallService: a call ends once, with a result only if the
\* peer sent one (conn.go call and readLoop).
ServiceSpec == Service!Spec
=============================================================================
