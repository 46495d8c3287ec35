----------------------------- MODULE ChildServers -----------------------------
(***************************************************************************)
(* The sessions on top of RpcConn: an MCP server (internal/mcp/stdio.go)   *)
(* that is initialized, lists its tools and serves tool calls, and a       *)
(* language server (internal/lsp/session.go) that is initialized and then  *)
(* shown documents by diagnostics queries, several of which may run at     *)
(* once.  The editor's connection of internal/acp has no session: it is    *)
(* ready from the start and nobody kills the editor.                       *)
(*                                                                         *)
(* The model starts when the child process has been started.              *)
(***************************************************************************)
EXTENDS RpcConn

CONSTANTS
    InitCall, ListCall,   \* the calls of Start; the others are tool calls
    Queries,              \* diagnostics queries, each for one document
    Starter,              \* the goroutine of Start, as holder of c.mu
    UpdatedCap            \* capacity of Session.updated (8 in the code)

ASSUME SessionAssumption ==
    /\ InitCall \in Calls /\ ListCall \in Calls /\ InitCall # ListCall
    /\ Queries \cap Calls = {} /\ {Reader, Nobody} \cap Queries = {}
    /\ Starter \notin Calls \cup Queries \cup {Reader, Nobody}
    /\ UpdatedCap \in Nat \ {0} /\ Uris # {}

VARIABLES
    life,      \* where Start or Close of the session is
    \* queries: where they are, their document, whether another one waited meanwhile
    qpc, doc, shared,
    \* Session: opened, the documents with an entry in diags, the updated channel
    opened, diags, updated,
    didOpen    \* how often a document was announced to the server

docVars == <<qpc, doc, shared, opened, diags, updated, didOpen>>
vars == <<rpcVars, life, docVars>>

ToolCalls == Calls \ {InitCall, ListCall}
Waiting == {"check", "select"}

TypeOK ==
    /\ RpcTypeOK
    /\ mu \in Calls \cup Queries \cup {Reader, Nobody, Starter}
    /\ life \in {"init", "notify", "notifying", "list", "ready", "abort", "aborting",
                 "closing", "killing", "failed", "closed"}
    /\ qpc \in [Queries -> {"idle", "notify", "notifying", "check", "select", "done"}]
    /\ doc \in [Queries -> Uris] /\ shared \subseteq Queries
    /\ opened \subseteq Uris /\ diags \subseteq Uris
    /\ updated \in Seq(Uris) /\ Len(updated) <= UpdatedCap
    /\ didOpen \in [Uris -> Nat]

Init ==
    /\ RpcInit
    /\ kind \in Kinds
    /\ life = IF kind = "acp" THEN "ready" ELSE "init"
    /\ qpc = [q \in Queries |-> "idle"]
    /\ doc = [q \in Queries |-> CHOOSE u \in Uris : TRUE]
    /\ shared = {} /\ opened = {} /\ diags = {} /\ updated = <<>>
    /\ didOpen = [u \in Uris |-> 0]

(***************************************************************************)
(* Start and Close.                                                        *)
(***************************************************************************)

StartCall(c, at) ==
    /\ life = at
    /\ Make(c)
    /\ UNCHANGED <<life, docVars>>

\* Mutant: a server that fails to initialize is left running.
LeaveRunning(c, next) == IF outcome[c] = "result" THEN next ELSE "failed"
OrAbort(c, next) == IF outcome[c] = "result" THEN next ELSE "abort"

StartReturned(c, at, next) ==
    /\ life = at /\ pc[c] = "returned"
    /\ life' = OrAbort(c, next)
    /\ UNCHANGED <<rpcVars, docVars>>

\* The notification that ends the handshake, written like any frame.
StartNotifyLock ==
    /\ life = "notify" /\ Free
    /\ mu' = Starter /\ life' = "notifying"
    /\ UNCHANGED <<kind, callVars, wait, err, done, reader, frame, pipeVars, peerVars, docVars>>

StartNotify ==
    /\ life = "notifying"
    /\ mu' = Nobody
    /\ \/ /\ alive /\ Len(inbox) < PipeCap
          /\ inbox' = Append(inbox, [type |-> "initialized"])
          /\ life' = IF kind = "mcp" THEN "list" ELSE "ready"
       \/ ~alive /\ life' = "abort" /\ UNCHANGED inbox
    /\ UNCHANGED <<kind, callVars, wait, err, done, reader, frame, outbox, peerVars, docVars>>

\* Conn.Close, then the process group is killed and waited for.
CloseSession ==
    /\ life \in {"abort", "closing"}
    /\ CloseConn
    /\ life' = IF life = "abort" THEN "aborting" ELSE "killing"
    /\ UNCHANGED docVars

KillSession ==
    /\ life \in {"aborting", "killing"}
    /\ Kill
    /\ life' = IF life = "aborting" THEN "failed" ELSE "closed"
    /\ UNCHANGED docVars

\* The registry that holds the session is closed.
RegistryClose ==
    /\ life = "ready" /\ kind # "acp"
    /\ life' = "closing"
    /\ UNCHANGED <<rpcVars, docVars>>

McpStart ==
    /\ kind = "mcp"
    /\ \/ StartCall(InitCall, "init") \/ StartReturned(InitCall, "init", "notify")
       \/ StartNotifyLock \/ StartNotify
       \/ StartCall(ListCall, "list") \/ StartReturned(ListCall, "list", "ready")
       \/ CloseSession \/ KillSession

LspStart ==
    /\ kind = "lsp"
    /\ \/ StartCall(InitCall, "init") \/ StartReturned(InitCall, "init", "notify")
       \/ StartNotifyLock \/ StartNotify
       \/ CloseSession \/ KillSession

\* Tools go on calling a session that is being closed.
ToolCall(c) ==
    /\ kind # "lsp" /\ life \in {"ready", "closing", "killing", "closed"}
    /\ Make(c)
    /\ UNCHANGED <<life, docVars>>

(***************************************************************************)
(* Diagnostics queries.                                                    *)
(***************************************************************************)

Others(q) == {r \in Queries \ {q} : qpc[r] \in Waiting}
At(q, point) == qpc' = [qpc EXCEPT ![q] = point]

\* Mutant: a document counts as opened only once the server has been told.
OpenTwice(u) == didOpen[u] > 0
AlreadyOpen(u) == u \in opened

\* Query takes the session from the hub, which may close it before OpenPath.
Queryable == kind = "lsp" /\ life \in {"ready", "closing", "killing", "closed"}

\* OpenPath: a document opened before is answered from what is known of it.
OpenPath(q, u) ==
    /\ Queryable
    /\ qpc[q] = "idle"
    /\ At(q, IF AlreadyOpen(u) THEN "done" ELSE "notify")
    /\ doc' = [doc EXCEPT ![q] = u]
    /\ opened' = opened \cup {u}
    /\ UNCHANGED <<rpcVars, life, shared, diags, updated, didOpen>>

OpenLock(q) ==
    /\ qpc[q] = "notify" /\ Free
    /\ mu' = q
    /\ At(q, "notifying")
    /\ UNCHANGED <<kind, callVars, wait, err, done, reader, frame, pipeVars, peerVars, life,
                   doc, shared, opened, diags, updated, didOpen>>

\* didOpen; when the write fails the document stays marked as opened.
OpenNotify(q) ==
    /\ qpc[q] = "notifying"
    /\ mu' = Nobody
    /\ \/ /\ alive /\ Len(inbox) < PipeCap
          /\ inbox' = Append(inbox, [type |-> "didOpen"])
          /\ didOpen' = [didOpen EXCEPT ![doc[q]] = @ + 1]
          /\ At(q, "check")
          /\ shared' = shared \cup Others(q) \cup (IF Others(q) = {} THEN {} ELSE {q})
       \/ ~alive /\ At(q, "done") /\ UNCHANGED <<inbox, didOpen, shared>>
    /\ UNCHANGED <<kind, callVars, wait, err, done, reader, frame, outbox, peerVars, life,
                   doc, opened, diags, updated>>

\* waitURI looks at the stored diagnostics, then waits for an update of its document.
WaitCheck(q) ==
    /\ qpc[q] = "check"
    /\ At(q, IF doc[q] \in diags THEN "done" ELSE "select")
    /\ UNCHANGED <<rpcVars, life, doc, shared, opened, diags, updated, didOpen>>

\* Mutant: the update of another document is skipped without a second look.
KeepSelecting(q) == IF Head(updated) = doc[q] THEN "done" ELSE "select"
AfterUpdate(q) == IF Head(updated) = doc[q] THEN "done" ELSE "check"

WaitUpdate(q) ==
    /\ qpc[q] = "select" /\ updated # <<>>
    /\ At(q, AfterUpdate(q))
    /\ updated' = Tail(updated)
    /\ UNCHANGED <<rpcVars, life, doc, shared, opened, diags, didOpen>>

WaitTimeout(q) ==
    /\ qpc[q] = "select"
    /\ At(q, "done")
    /\ UNCHANGED <<rpcVars, life, doc, shared, opened, diags, updated, didOpen>>

\* handleNotify: the entry is stored, then an update is sent unless the channel is full.
StoreDiags ==
    /\ reader = "publish"
    /\ diags' = diags \cup {frame.uri}
    /\ reader' = "signal"
    /\ UNCHANGED <<kind, callVars, wait, mu, err, done, frame, pipeVars, peerVars, life,
                   qpc, doc, shared, opened, updated, didOpen>>

\* Mutant: the channel has no bound.
UnboundedUpdate == Append(updated, frame.uri)
SentUpdate == IF Len(updated) < UpdatedCap THEN Append(updated, frame.uri) ELSE updated

SignalDiags ==
    /\ reader = "signal"
    /\ updated' = SentUpdate
    /\ NextFrame
    /\ UNCHANGED <<kind, callVars, wait, mu, err, done, pipeVars, peerVars, life,
                   qpc, doc, shared, opened, diags, didOpen>>

QueryStep(q) ==
    OpenLock(q) \/ OpenNotify(q) \/ WaitCheck(q) \/ WaitUpdate(q) \/ WaitTimeout(q)

(***************************************************************************)
(* The specification.                                                      *)
(***************************************************************************)

\* What this kind of peer sends on its own: an MCP server requests and notifies, a
\* language server also publishes, and the ids of its requests make no difference.
\* The editor's requests are AcpServer's.
Sends(f) ==
    CASE f.type = "publish" -> kind = "lsp" /\ didOpen[f.uri] > 0
      [] f.type = "request" -> kind = "mcp" \/ (kind = "lsp" /\ f.id = InitCall)
      [] OTHER -> TRUE

Session == UNCHANGED <<life, docVars>>

Reads == (ReaderStep /\ Session) \/ StoreDiags \/ SignalDiags
PeerReads == PeerRead /\ Session

Next ==
    \/ McpStart \/ LspStart \/ RegistryClose
    \/ \E c \in ToolCalls : ToolCall(c)
    \/ \E c \in Calls : (CallStep(c) \/ PeerAnswer(c)) /\ Session
    \/ \E q \in Queries : (\E u \in Uris : OpenPath(q, u)) \/ QueryStep(q)
    \/ Reads \/ PeerReads
    \/ \E f \in Frames : Sends(f) /\ PeerNoise(f) /\ Session
    \/ PeerDies /\ Session

Spec == Init /\ [][Next]_vars

\* Every goroutine goes on when it can; every call of mcp and lsp has a deadline; a
\* child that lives reads its input.
Fairness ==
    /\ WF_vars(McpStart \/ LspStart) /\ WF_vars(Reads) /\ WF_vars(PeerReads)
    /\ \A c \in Calls : WF_vars(CallStep(c) /\ Session)
    /\ \A q \in Queries : WF_vars(QueryStep(q))

FairSpec == Spec /\ Fairness

(***************************************************************************)
(* Properties.                                                             *)
(***************************************************************************)

\* Hazard: writers keep c.mu while the pipe is full, and the reader needs it.  With
\* deadlines and a child that reads, every call over mcp and lsp and every query ends.
EveryCallReturns ==
    /\ \A c \in Calls : kind # "acp" /\ pc[c] # "unmade" ~> pc[c] = "returned"
    /\ \A q \in Queries : qpc[q] # "idle" ~> qpc[q] = "done"

\* Hazard: queries of one document check and mark it as opened at the same time.  The
\* server is told of a document once, as its protocol demands (session.go OpenPath).
OpenedOnce == \A u \in Uris : didOpen[u] <= 1

\* Hazard: updates are dropped when the channel is full, and one channel serves every
\* waiter.  A query that waits alone never sleeps on diagnostics already stored: an
\* update is on its way (session.go waitURI and handleNotify).
WakeupNotLost ==
    \A q \in Queries \ shared :
        qpc[q] = "select" /\ doc[q] \in diags => updated # <<>> \/ reader = "signal"

\* Hazard: Start fails at any of its steps.  A session that is given up or closed
\* leaves no child process behind (stdio.go and session.go Start).
NoChildLeft == life \in {"failed", "closed"} => ~alive
=============================================================================
