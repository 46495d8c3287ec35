------------------------------ MODULE AcpServer ------------------------------
(***************************************************************************)
(* The editor server of internal/acp: one read loop that runs every        *)
(* request handler itself, except session/prompt, which it hands to a      *)
(* goroutine of its own.  Prompt goroutines and the loop meet in the       *)
(* mutex-protected maps sessions, cancel and done, in the agents, in the   *)
(* session files and on the connection: a permission request sent by a     *)
(* prompt is answered by a message that only the read loop can read.       *)
(*                                                                         *)
(* A transcript is abstracted to the set of prompts whose user message it  *)
(* holds.  Disk errors are left to AgentRun; another process holding the   *)
(* session lock appears only as a failing LoadFile.                        *)
(***************************************************************************)
EXTENDS Naturals, FiniteSets

CONSTANTS
    Sessions,       \* session ids
    Prompts,        \* session/prompt requests, each sent at most once
    Agents,         \* agent.Agent objects the factory can make
    Modes,          \* modes of an agent ("act", "plan")
    None,           \* nil
    AlwaysApprove,  \* Cfg.AlwaysApprove: attachAsk installs no ask callback
    MaxAsks,        \* bound: permission requests one prompt makes
    Requests        \* what the client and the host do besides prompting

Kinds == {"load", "close", "delete", "set_mode", "cancel", "eof", "sigterm"}

ASSUME ConstantsOK ==
    /\ None \notin Sessions \cup Prompts \cup Agents
    /\ AlwaysApprove \in BOOLEAN
    /\ MaxAsks \in Nat
    /\ Requests \subseteq Kinds
    /\ Modes # {}

VARIABLES
    \* the read loop: where it is, the handler it runs and that handler's locals
    pc, req, cur, hand, file, await, ids,
    \* Server.sessions, Server.cancel (and done, which always changes with it)
    sessions, cancel,
    \* prompt goroutines: phase, session id, agent looked up, ctx cancelled, asks made
    phase, sid, on, ctx, asks,
    \* agents: life, transcript, mode
    life, mem, mode,
    \* session files, their transcripts, ids ever in use
    files, disk, born,
    \* Server.Ctx has been cancelled by a stop signal
    term,
    \* no read waits for the client any more: the next one past the buffer fails
    over

loopVars   == <<pc, req, cur, hand, file, await, ids>>
promptVars == <<phase, sid, on, ctx, asks>>
agentVars  == <<life, mem, mode>>
storeVars  == <<files, disk, born>>
vars == <<loopVars, sessions, cancel, promptVars, agentVars, storeVars, term, over>>

Points == {"read", "new", "stop", "wait", "release", "install", "erase",
           "apply", "drain", "next", "exited"}
Handlers == {"none", "load", "close", "delete", "discard", "set_mode", "shutdown"}
Phases == {"unsent", "spawned", "running", "asking", "replied", "failing",
           "failed", "answered", "errored", "dropped"}

\* A prompt whose entry is in Server.cancel: registered, deferred cleanup still to run.
Registered == {"running", "asking", "replied", "failing"}
\* The prompt's done channel is closed (or was never made).
Finished == {"failed", "answered", "errored", "dropped"}

TypeOK ==
    /\ pc \in Points /\ req \in Handlers
    /\ cur \in Sessions \cup {None} /\ hand \in Agents \cup {None}
    /\ file \subseteq Prompts /\ await \in Prompts \cup {None}
    /\ ids \subseteq Sessions
    /\ sessions \in [Sessions -> Agents \cup {None}]
    /\ cancel \in [Sessions -> Prompts \cup {None}]
    /\ phase \in [Prompts -> Phases]
    /\ sid \in [Prompts -> Sessions \cup {None}]
    /\ on \in [Prompts -> Agents \cup {None}]
    /\ ctx \in [Prompts -> BOOLEAN]
    /\ asks \in [Prompts -> 0..MaxAsks]
    /\ life \in [Agents -> {"fresh", "live", "closed"}]
    /\ mem \in [Agents -> SUBSET Prompts]
    /\ mode \in [Agents -> Modes]
    /\ files \subseteq Sessions /\ born \subseteq Sessions
    /\ disk \in [Sessions -> SUBSET Prompts]
    /\ term \in BOOLEAN /\ over \in BOOLEAN
    /\ pc \in {"new", "stop", "wait", "release", "install", "erase"} => cur # None
    /\ pc = "wait" => await # None
    /\ pc \in {"new", "install"} => req = "load"
    /\ pc \in {"drain", "next"} => req = "shutdown"
    /\ pc \in {"stop", "wait"} => req \in {"load", "close", "delete", "discard", "shutdown"}
    /\ pc = "release" => req \in {"load", "close", "discard", "shutdown"}
    /\ pc \in {"install", "apply"} => hand # None
    /\ \A p \in Prompts : phase[p] # "unsent" => sid[p] # None
    /\ \A p \in Prompts : phase[p] \in Registered => on[p] # None

\* Serve starts with empty maps; sessions of earlier processes may be on disk.
Init ==
    /\ pc = "read" /\ req = "none" /\ cur = None /\ hand = None
    /\ file = {} /\ await = None /\ ids = {}
    /\ sessions = [s \in Sessions |-> None]
    /\ cancel = [s \in Sessions |-> None]
    /\ phase = [p \in Prompts |-> "unsent"]
    /\ sid = [p \in Prompts |-> None]
    /\ on = [p \in Prompts |-> None]
    /\ ctx = [p \in Prompts |-> FALSE]
    /\ asks = [p \in Prompts |-> 0]
    /\ life = [a \in Agents |-> "fresh"]
    /\ mem = [a \in Agents |-> {}]
    /\ mode \in [Agents -> Modes]
    /\ files \in SUBSET Sessions
    /\ born = files
    /\ disk = [s \in Sessions |-> {}]
    /\ term = FALSE /\ over = FALSE

(***************************************************************************)
(* Shared steps.                                                           *)
(***************************************************************************)

\* Mutant: an existing file is left alone.
SaveOnce(s, turns) ==
    /\ disk' = IF turns = {} \/ s \in files THEN disk ELSE [disk EXCEPT ![s] = turns]
    /\ files' = IF turns = {} THEN files ELSE files \cup {s}
    /\ UNCHANGED born

\* Agent.Save: nothing is written for an agent with no messages.
Save(s, turns) ==
    /\ disk' = IF turns = {} THEN disk ELSE [disk EXCEPT ![s] = turns]
    /\ files' = IF turns = {} THEN files ELSE files \cup {s}
    /\ UNCHANGED born

\* NewAgent: every call makes another agent.  Mutant: it may hand out one in use.
ReusedAgent(a) == life[a] # "closed"
NewAgent(a) == life[a] = "fresh"

\* The context of one prompt, and of every prompt, cancelled.  Mutants: not cancelled.
NotCancelled(p) == ctx
Cancelled(p) == [ctx EXCEPT ![p] = TRUE]
AllCancelled == [p \in Prompts |-> ctx[p] \/ phase[p] \in Registered]

\* delete(s.sessions, id).  Mutant: forgotten.
KeptSession(s) == sessions
DroppedSession(s) == [sessions EXCEPT ![s] = None]

\* The loop goes back to conn.read, its handler's locals dropped.
Return ==
    /\ pc' = "read" /\ req' = "none" /\ cur' = None /\ hand' = None
    /\ file' = {} /\ await' = None /\ UNCHANGED ids

\* conn.read returns a message.  After a stop signal it was the last wait for one.
Message ==
    /\ pc = "read"
    /\ over' = (over \/ term)

Begin(kind, s, point) ==
    /\ Message
    /\ pc' = point /\ req' = kind /\ cur' = s
    /\ UNCHANGED <<file, await, ids>>

(***************************************************************************)
(* The read loop: requests.                                                *)
(***************************************************************************)

ReadPrompt(p, s) ==
    /\ Message
    /\ s \in born
    /\ phase[p] = "unsent"
    /\ phase' = [phase EXCEPT ![p] = "spawned"]
    /\ sid' = [sid EXCEPT ![p] = s]
    /\ UNCHANGED <<loopVars, sessions, cancel, on, ctx, asks, agentVars, storeVars, term>>

\* The response to a pending session/request_permission, of ask or askUser: whatever it
\* says, the tool goes on or has its refusal as a result.
ReadAnswer(p) ==
    /\ Message
    /\ phase[p] = "asking"
    /\ phase' = [phase EXCEPT ![p] = "running"]
    /\ UNCHANGED <<loopVars, sessions, cancel, sid, on, ctx, asks, agentVars, storeVars, term>>

ReadNew(s, a) ==
    /\ Message
    /\ s \notin born /\ NewAgent(a)
    /\ life' = [life EXCEPT ![a] = "live"]
    /\ sessions' = [sessions EXCEPT ![s] = a]
    /\ born' = born \cup {s}
    /\ UNCHANGED <<loopVars, cancel, promptVars, mem, mode, files, disk, term>>

ReadCancel(s) ==
    /\ "cancel" \in Requests
    /\ Message
    /\ cancel[s] # None
    /\ ctx' = Cancelled(cancel[s])
    /\ UNCHANGED <<loopVars, sessions, cancel, phase, sid, on, asks, agentVars, storeVars, term>>

\* session/load and session/resume read the file before anything else.
ReadRestore(s) ==
    /\ "load" \in Requests
    /\ s \in files
    /\ Message
    /\ pc' = "new" /\ req' = "load" /\ cur' = s
    /\ file' = disk[s]
    /\ UNCHANGED <<hand, await, ids, sessions, cancel, promptVars, agentVars, storeVars, term>>

ReadClose(s) ==
    /\ "close" \in Requests
    /\ s \in born
    /\ Begin("close", s, "stop")
    /\ UNCHANGED <<hand, sessions, cancel, promptVars, agentVars, storeVars, term>>

ReadDelete(s) ==
    /\ "delete" \in Requests
    /\ s \in born
    /\ Begin("delete", s, IF sessions[s] = None THEN "erase" ELSE "stop")
    /\ UNCHANGED <<hand, sessions, cancel, promptVars, agentVars, storeVars, term>>

\* getSession and sessionBusy; the mode is applied in a later step, without mu.
ReadSetMode(s) ==
    /\ "set_mode" \in Requests
    /\ sessions[s] # None
    /\ cancel[s] = None
    /\ Begin("set_mode", s, "apply")
    /\ hand' = sessions[s]
    /\ UNCHANGED <<sessions, cancel, promptVars, agentVars, storeVars, term>>

\* conn.read fails: end of input, or the input closed after a stop signal.  Close does
\* not wake a read that is waiting: that one ends with what the client sends next, a part
\* of a message or one that is still handled.
ReadStop ==
    /\ pc = "read"
    /\ over \/ term
    /\ pc' = "drain" /\ req' = "shutdown"
    /\ ids' = {s \in Sessions : sessions[s] # None}
    /\ ctx' = AllCancelled
    /\ UNCHANGED <<cur, hand, file, await, sessions, cancel, phase, sid, on, asks,
                   agentVars, storeVars, term, over>>

\* The client closes its end of the input.
Hangup ==
    /\ "eof" \in Requests
    /\ ~over /\ pc # "exited"
    /\ over' = TRUE
    /\ UNCHANGED <<loopVars, sessions, cancel, promptVars, agentVars, storeVars, term>>

\* SIGTERM or SIGHUP cancels Server.Ctx, the parent of every prompt's context, and a
\* goroutine closes the input: the next read fails, but not one already waiting.
Terminate ==
    /\ "sigterm" \in Requests
    /\ ~term /\ pc # "exited"
    /\ term' = TRUE
    /\ over' = (over \/ pc # "read")
    /\ ctx' = AllCancelled
    /\ UNCHANGED <<loopVars, sessions, cancel, phase, sid, on, asks, agentVars, storeVars>>

(***************************************************************************)
(* The read loop: the rest of the handlers.                                *)
(***************************************************************************)

\* restoreSession makes the new agent before it looks for an active one.
RestoreNew(a) ==
    /\ pc = "new"
    /\ NewAgent(a)
    /\ life' = [life EXCEPT ![a] = "live"]
    /\ hand' = a
    /\ pc' = IF sessions[cur] = None THEN "install" ELSE "stop"
    /\ UNCHANGED <<req, cur, file, await, ids, sessions, cancel, promptVars, mem, mode,
                   storeVars, term, over>>

RestoreNewFails ==
    /\ pc = "new"
    /\ Return
    /\ UNCHANGED <<sessions, cancel, promptVars, agentVars, storeVars, term, over>>

\* What follows stopPrompt: sessionDelete calls releaseSession, which stops again.
AfterStop ==
    /\ pc' = IF req = "delete" THEN "stop" ELSE "release"
    /\ req' = IF req = "delete" THEN "discard" ELSE req
    /\ await' = None

\* stopPrompt under mu, then the cancel call; the channel is awaited without mu.
StopPrompt ==
    /\ pc = "stop"
    /\ \/ /\ cancel[cur] = None
          /\ AfterStop
          /\ UNCHANGED ctx
       \/ /\ cancel[cur] # None
          /\ ctx' = Cancelled(cancel[cur])
          /\ await' = cancel[cur]
          /\ pc' = "wait"
          /\ UNCHANGED req
    /\ UNCHANGED <<cur, hand, file, ids, sessions, cancel, phase, sid, on, asks,
                   agentVars, storeVars, term, over>>

StopWait ==
    /\ pc = "wait"
    /\ phase[await] \in Finished
    /\ AfterStop
    /\ UNCHANGED <<cur, hand, file, ids, sessions, cancel, promptVars, agentVars, storeVars, term, over>>

\* releaseSession after stopPrompt: drop the entry, save, close the agent.
Release ==
    /\ pc = "release"
    /\ LET a == sessions[cur] IN
       /\ sessions' = DroppedSession(cur)
       /\ Save(cur, IF a = None \/ req = "discard" THEN {} ELSE mem[a])
       /\ life' = IF a = None THEN life ELSE [life EXCEPT ![a] = "closed"]
    /\ \/ req = "close" /\ Return
       \/ /\ req # "close"
          /\ pc' = CASE req = "load" -> "install"
                     [] req = "discard" -> "erase"
                     [] OTHER -> "next"
          /\ UNCHANGED <<req, cur, hand, file, await, ids>>
    /\ UNCHANGED <<cancel, promptVars, mem, mode, term, over>>

\* Agent.LoadFile with the file read by ReadRestore, then the entry in sessions.
Install(m) ==
    /\ pc = "install"
    /\ mem' = [mem EXCEPT ![hand] = file]
    /\ mode' = [mode EXCEPT ![hand] = m]
    /\ sessions' = [sessions EXCEPT ![cur] = hand]
    /\ Return
    /\ UNCHANGED <<cancel, promptVars, life, storeVars, term, over>>

\* LoadFile is refused the session lock: the new agent is closed.
InstallFails ==
    /\ pc = "install"
    /\ life' = [life EXCEPT ![hand] = "closed"]
    /\ Return
    /\ UNCHANGED <<sessions, cancel, promptVars, mem, mode, storeVars, term, over>>

\* session.Delete; its error, a lock held by another process, is ignored.
Erase ==
    /\ pc = "erase"
    /\ \/ files' = files \ {cur} /\ disk' = [disk EXCEPT ![cur] = {}]
       \/ UNCHANGED <<files, disk>>
    /\ Return
    /\ UNCHANGED <<born, sessions, cancel, promptVars, agentVars, term, over>>

ApplyMode(m) ==
    /\ pc = "apply"
    /\ mode' = [mode EXCEPT ![hand] = m]
    /\ Return
    /\ UNCHANGED <<sessions, cancel, promptVars, life, mem, storeVars, term, over>>

\* closeAll waits for the prompts that have already added themselves to inflight.
Drain ==
    /\ pc = "drain"
    /\ \A p \in Prompts : phase[p] \notin Registered
    /\ pc' = "next"
    /\ UNCHANGED <<req, cur, hand, file, await, ids, sessions, cancel, promptVars,
                   agentVars, storeVars, term, over>>

CloseNext(s) ==
    /\ pc = "next"
    /\ s \in ids
    /\ ids' = ids \ {s}
    /\ cur' = s
    /\ pc' = "stop"
    /\ UNCHANGED <<req, hand, file, await, sessions, cancel, promptVars, agentVars, storeVars, term, over>>

Exit ==
    /\ pc = "next" /\ ids = {}
    /\ pc' = "exited"
    /\ UNCHANGED <<req, cur, hand, file, await, ids, sessions, cancel, promptVars,
                   agentVars, storeVars, term, over>>

LoopStep ==
    \/ \E a \in Agents : RestoreNew(a)
    \/ RestoreNewFails
    \/ StopPrompt \/ StopWait \/ Release
    \/ \E m \in Modes : Install(m) \/ ApplyMode(m)
    \/ InstallFails \/ Erase
    \/ Drain \/ (\E s \in Sessions : CloseNext(s)) \/ Exit

(***************************************************************************)
(* Prompt goroutines.                                                      *)
(***************************************************************************)

MoveTo(p, ph) == phase' = [phase EXCEPT ![p] = ph]

\* The lookup and the busy check.  Mutants: one of them dropped.
AcceptsUnknown(s) == cancel[s] = None
AcceptsOverlap(s) == sessions[s] # None
Accepts(s) == sessions[s] # None /\ cancel[s] = None

\* Unknown session, or one with a prompt registered: an error response.
PromptRefused(p) ==
    /\ phase[p] = "spawned"
    /\ ~Accepts(sid[p])
    /\ MoveTo(p, IF term THEN "dropped" ELSE "errored")
    /\ UNCHANGED <<loopVars, sessions, cancel, sid, on, ctx, asks, agentVars, storeVars, term, over>>

\* The lookup, the busy check and the registration, in one critical section.
PromptRegister(p) ==
    /\ phase[p] = "spawned"
    /\ Accepts(sid[p])
    /\ cancel' = [cancel EXCEPT ![sid[p]] = p]
    /\ on' = [on EXCEPT ![p] = sessions[sid[p]]]
    /\ ctx' = [ctx EXCEPT ![p] = term]
    /\ MoveTo(p, "running")
    /\ UNCHANGED <<loopVars, sessions, sid, asks, agentVars, storeVars, term, over>>

\* Agent.Run appends the user message and checkpoints; not under a cancelled ctx.
PromptTurn(p) ==
    /\ phase[p] = "running"
    /\ ~ctx[p] /\ p \notin mem[on[p]]
    /\ mem' = [mem EXCEPT ![on[p]] = @ \cup {p}]
    /\ Save(sid[p], mem[on[p]] \cup {p})
    /\ UNCHANGED <<loopVars, sessions, cancel, promptVars, life, mode, term, over>>

\* attachAsk.
AskAttached == ~AlwaysApprove

\* A tool asks for permission: conn.call blocks on the response alone, not on ctx.
PromptAsk(p) ==
    /\ AskAttached
    /\ phase[p] = "running"
    /\ p \in mem[on[p]] /\ asks[p] < MaxAsks
    /\ asks' = [asks EXCEPT ![p] = @ + 1]
    /\ MoveTo(p, "asking")
    /\ UNCHANGED <<loopVars, sessions, cancel, sid, on, ctx, agentVars, storeVars, term, over>>

\* Run has returned, the session is saved and the response written.
PromptReply(p) ==
    /\ phase[p] = "running"
    /\ ~term
    /\ ctx[p] \/ p \in mem[on[p]]
    /\ Save(sid[p], mem[on[p]])
    /\ MoveTo(p, "replied")
    /\ UNCHANGED <<loopVars, sessions, cancel, sid, on, ctx, asks, agentVars, term, over>>

\* An error: a bad prompt or a failed write (nothing saved), or Run's own error.
PromptError(p) ==
    /\ phase[p] = "running"
    /\ ~term
    /\ Save(sid[p], mem[on[p]]) \/ UNCHANGED storeVars
    /\ MoveTo(p, "failing")
    /\ UNCHANGED <<loopVars, sessions, cancel, sid, on, ctx, asks, agentVars, term, over>>

\* The parent context is cancelled: return without saving.
PromptAbort(p) ==
    /\ phase[p] = "running"
    /\ term
    /\ MoveTo(p, "failing")
    /\ UNCHANGED <<loopVars, sessions, cancel, sid, on, ctx, asks, agentVars, storeVars, term, over>>

\* The ways out of the prompt that run the cleanup.  Mutant: success only.
CleansUpAnswered == {"replied"}
CleansUp == {"replied", "failing"}

\* delete(s.cancel, id).
DroppedEntry(p) == [cancel EXCEPT ![sid[p]] = None]

\* The deferred function: cancel, delete both entries, close(done).
PromptCleanup(p) ==
    /\ phase[p] \in CleansUp
    /\ cancel' = DroppedEntry(p)
    /\ ctx' = Cancelled(p)
    /\ MoveTo(p, IF phase[p] = "replied" THEN "answered" ELSE "failed")
    /\ UNCHANGED <<loopVars, sessions, sid, on, asks, agentVars, storeVars, term, over>>

\* Back in handle: the error response, unless the server is stopping.
PromptErrorReply(p) ==
    /\ phase[p] = "failed"
    /\ MoveTo(p, IF term THEN "dropped" ELSE "errored")
    /\ UNCHANGED <<loopVars, sessions, cancel, sid, on, ctx, asks, agentVars, storeVars, term, over>>

PromptStart(p)  == PromptRefused(p) \/ PromptRegister(p)
PromptReturn(p) == PromptReply(p) \/ PromptError(p) \/ PromptAbort(p)
PromptFinish(p) == PromptCleanup(p) \/ PromptErrorReply(p)

\* A prompt goroutine takes steps until the process exits.
PromptStep(p) ==
    /\ pc # "exited"
    /\ PromptStart(p) \/ PromptTurn(p) \/ PromptAsk(p) \/ PromptReturn(p) \/ PromptFinish(p)

ReadStep ==
    \/ \E p \in Prompts, s \in Sessions : ReadPrompt(p, s)
    \/ \E p \in Prompts : ReadAnswer(p)
    \/ \E s \in Sessions, a \in Agents : ReadNew(s, a)
    \/ \E s \in Sessions : \/ ReadCancel(s) \/ ReadRestore(s) \/ ReadClose(s)
                           \/ ReadDelete(s) \/ ReadSetMode(s)
    \/ ReadStop

Next == ReadStep \/ LoopStep \/ Hangup \/ Terminate \/ \E p \in Prompts : PromptStep(p)

Spec == Init /\ [][Next]_vars

(***************************************************************************)
(* Fairness.  Goroutines that can run are scheduled; Run returns once its  *)
(* context is cancelled (but nothing says a model call ends by itself);    *)
(* the client answers every permission request.  A read that cannot wait   *)
(* any more fails once the messages already received are used up, and      *)
(* they are finitely many; nothing is said of a read that waits for the    *)
(* client, with or without a stop signal.                                  *)
(***************************************************************************)
FairSpec ==
    /\ Spec
    /\ WF_vars(LoopStep)
    /\ SF_vars(over /\ ReadStop)
    /\ \A p \in Prompts :
        /\ WF_vars(pc # "exited" /\ PromptStart(p))
        /\ WF_vars(pc # "exited" /\ ctx[p] /\ PromptReturn(p))
        /\ WF_vars(pc # "exited" /\ PromptFinish(p))
        /\ SF_vars(ReadAnswer(p))

(***************************************************************************)
(* Properties.                                                             *)
(***************************************************************************)

\* No session ever has two prompts between their registration and their cleanup,
\* whatever the loop loads, closes or deletes meanwhile (the busy check).
OneRunPerSession ==
    \A p, q \in Prompts :
        phase[p] \in Registered /\ phase[q] \in Registered /\ sid[p] = sid[q] => p = q

\* No agent is run by two goroutines: Agent.Messages has no lock of its own.
OneRunPerAgent ==
    \A p, q \in Prompts :
        phase[p] \in Registered /\ phase[q] \in Registered /\ on[p] = on[q] => p = q

\* Server.sessions names live agents only, each under one id, even while a
\* handler replaces or drops entries: no request can reach a closed agent through it.
MapHoldsLiveAgents ==
    /\ \A s \in Sessions : sessions[s] # None => life[sessions[s]] = "live"
    /\ \A s, t \in Sessions : sessions[s] # None /\ sessions[s] = sessions[t] => s = t

\* restoreSession's new agent before Install: live, and in no session's entry.
HandPending == req = "load" /\ pc \in {"stop", "wait", "release", "install"}
NewAgentIsOurs ==
    HandPending => /\ hand \in Agents /\ life[hand] = "live"
                   /\ \A s \in Sessions : sessions[s] # hand

\* Server.cancel holds exactly the registered prompts, each under its own session.
CancelIsRegistration ==
    \A s \in Sessions, p \in Prompts :
        cancel[s] = p <=> phase[p] \in Registered /\ sid[p] = s

\* A running agent was never anybody else's: not fresh, not the one a restore
\* has just made, and if mapped at all then under the prompt's own session.
RunOwnsAgent ==
    \A p \in Prompts : phase[p] \in Registered =>
        /\ life[on[p]] # "fresh"
        /\ HandPending => on[p] # hand
        /\ \A s \in Sessions : sessions[s] = on[p] => s = sid[p]

\* The inductive invariant: what the properties above rest on.
IInv ==
    /\ TypeOK
    /\ CancelIsRegistration
    /\ MapHoldsLiveAgents
    /\ NewAgentIsOurs
    /\ RunOwnsAgent
    /\ OneRunPerAgent

\* A turn the client was given a response for is in the session file as long as there
\* is one, whatever is closed, loaded and deleted around the prompt (sessionPrompt and
\* releaseSession save).  Only an agent restored from a file read before the turn was
\* stored may have overwritten it since: LoadContinuesStored is about that.
AnsweredTurnIsStored ==
    \A p \in Prompts :
        phase[p] \in {"replied", "answered"} /\ p \in mem[on[p]] /\ sid[p] \in files =>
            \/ p \in disk[sid[p]]
            \/ \E a \in Agents \ {on[p]} : p \notin mem[a] /\ disk[sid[p]] = mem[a]

\* Every request handler the read loop starts comes back to conn.read, also after a stop
\* signal: session/close, load, resume and delete do end.
HandlerReturns == req \notin {"none", "shutdown"} ~> pc = "read"

\* closeAll waits for a prompt that registered after it cancelled the others: only a stop
\* signal reaches the context of such a prompt.
WaitsForLateTurn ==
    /\ pc = "drain" /\ ~term
    /\ \E p \in Prompts : phase[p] \in Registered /\ ~ctx[p]


\* A prompt whose context is cancelled gives up its registration.
CancelledPromptEnds ==
    \A p \in Prompts :
        phase[p] = "running" /\ ctx[p] ~> phase[p] \in Finished \/ pc = "exited"

\* session/close, load, resume and delete cancel the session's prompt and wait for
\* its end before its agent is closed: no prompt runs on a closed agent.
RunsOnLiveAgent ==
    \A p \in Prompts : phase[p] \in {"running", "asking"} => life[on[p]] = "live"

\* session/load goes on from the transcript that is stored when it goes on.
LoadContinuesStored ==
    [][\A s \in Sessions :
         sessions[s] = None /\ sessions'[s] # None /\ s \in files => mem'[sessions'[s]] = disk[s]]_vars
=============================================================================
