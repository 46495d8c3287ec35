------------------------------- MODULE Tui -------------------------------
(***************************************************************************)
(* The terminal UI (internal/tui): one event loop, the goroutine that runs  *)
(* a turn or a compaction, the questions its tools ask, the queue of        *)
(* prompts, and leaving the program, by a key or by a signal.               *)
(*                                                                         *)
(* The event loop (Update) takes one message at a time; the goroutine's      *)
(* messages wait until it does.  The transcript is a version number, new    *)
(* with each change, 0 when empty; the file of a session holds a version,   *)
(* 0 when there is none.                                                    *)
(***************************************************************************)
EXTENDS Integers

CONSTANTS
    MaxQueued,   \* maxQueuedPrompts (4 in the code)
    MaxSessions, \* bound: sessions ever begun
    MaxChanges,  \* bound: changes of a transcript
    Torn         \* a transcript read while it was being changed

ASSUME TuiAssumption ==
    /\ MaxQueued \in Nat \ {0} /\ MaxSessions \in Nat \ {0} /\ MaxChanges \in Nat
    /\ Torn \notin Nat

Sessions == 1..MaxSessions

VARIABLES
    overlay,  \* what the keys go to
    busy, queue,  \* model.busy, length of model.queue
    work,     \* the goroutine of startTurn or startCompact
    reply,    \* the channel of its question has an answer
    program,  \* running; quitting once tea.Quit is returned; stopped; waiting; exited; killed
    closed,   \* model.closed
    signalled,  \* m.ctx is cancelled
    agent,    \* SessionID and Messages: session and version
    disk,     \* the file of each session
    clock,    \* bound: changes so far
    lost      \* history: the last write of the agent's session failed or the wait for it was given up

workVars == <<work, reply>>
agentVars == <<agent, disk, clock, lost>>
progVars == <<program, closed, signalled>>
vars == <<overlay, busy, queue, workVars, agentVars, progVars>>

\* kind; whether its context is cancelled (turnCancel is nil for a compaction); how it ended.
NoWork == [state |-> "none", kind |-> "turn", cancelled |-> FALSE, err |-> "nil"]
Queued(kind) == [NoWork EXCEPT !.state = "queued", !.kind = kind]

\* /retry and /compact of the line REPL run with context.Background.
LineKinds == {"retry", "summary"}

Active == work.state \in {"queued", "running", "asking", "waiting"}
Questions == {"perm", "ask"}
Alive == program \in {"running", "quitting"}

TypeOK ==
    /\ overlay \in {"none", "quit"} \cup Questions
    /\ busy \in BOOLEAN /\ queue \in 0..MaxQueued
    /\ work.state \in {"none", "queued", "running", "asking", "waiting", "done", "dropped"}
    /\ work.kind \in {"turn", "compact"} \cup LineKinds /\ work.cancelled \in BOOLEAN
    /\ work.err \in {"nil", "canceled", "other"}
    /\ Active => busy
    /\ queue > 0 => busy \/ program # "running"
    /\ reply \in BOOLEAN /\ closed \in BOOLEAN /\ signalled \in BOOLEAN
    /\ program \in {"running", "quitting", "stopped", "waiting", "exited", "killed"}
    /\ agent.sid \in Sessions /\ agent.version \in 0..clock
    /\ \A s \in Sessions : disk[s] \in 0..clock \cup {Torn}
    /\ clock \in 0..MaxChanges /\ lost \in BOOLEAN

Init ==
    /\ overlay = "none" /\ busy = FALSE /\ queue = 0
    /\ work = NoWork /\ reply = FALSE
    /\ program = "running" /\ closed = FALSE /\ signalled = FALSE
    /\ agent = [sid |-> 1, version |-> 0] /\ disk = [s \in Sessions |-> 0]
    /\ clock = 0 /\ lost = FALSE

(***************************************************************************)
(* Saving.                                                                 *)
(***************************************************************************)

\* session.PersistFull of a snapshot.
Saved(version) == disk' = [disk EXCEPT ![agent.sid] = version] /\ lost' = FALSE

\* persistCurrent: it may fail, and leaves an empty transcript alone; a turn may be
\* changing the transcript meanwhile.
Written == {agent.version} \cup (IF Active THEN {Torn} ELSE {})
Persists ==
    IF agent.version = 0 THEN UNCHANGED <<disk, lost>> ELSE \E version \in Written : Saved(version)
PersistFails == agent.version # 0 /\ lost' = TRUE /\ UNCHANGED disk

Changed == clock < MaxChanges /\ clock' = clock + 1 /\ agent' = [agent EXCEPT !.version = clock']

(***************************************************************************)
(* The goroutine.                                                          *)
(***************************************************************************)

Ctx == work.cancelled \/ (signalled /\ work.kind \notin LineKinds)

WorkBegins ==
    /\ work.state = "queued"
    /\ work' = [work EXCEPT !.state = "running"]
    /\ UNCHANGED <<overlay, busy, queue, reply, agentVars, progVars>>

\* A command that Update has returned is dropped when the program is being stopped.
WorkDropped ==
    /\ work.state = "queued" /\ signalled
    /\ work' = [work EXCEPT !.state = "dropped"]
    /\ UNCHANGED <<overlay, busy, queue, reply, agentVars, progVars>>

\* A message of a turn, or the transcript after a compaction.
WorkChanges ==
    /\ work.state = "running"
    /\ Changed
    /\ UNCHANGED <<overlay, busy, queue, workVars, disk, lost, progVars>>

\* A tool's question (ask, askUser): the message waits for the event loop.  A cancelled turn
\* calls no other tool; one that is cancelled before its tool asks is cancelled while it asks.
WorkAsks ==
    /\ work.state = "running" /\ work.kind \in {"turn", "retry"} /\ ~Ctx
    /\ work' = [work EXCEPT !.state = "asking"] /\ reply' = FALSE
    /\ UNCHANGED <<overlay, busy, queue, agentVars, progVars>>

\* Mutant: only an answer ends the wait.
RepliedOnly == reply
Released == reply \/ signalled \/ closed

WorkGoesOn ==
    /\ \/ work.state = "waiting" /\ Released
       \/ work.state = "asking" /\ ~Alive /\ Released
    /\ work' = [work EXCEPT !.state = "running"]
    /\ UNCHANGED <<overlay, busy, queue, reply, agentVars, progVars>>

\* A cancelled turn may still end well; a compaction is saved only then, and not at all
\* by the line REPL.
WorkEnds ==
    /\ work.state = "running"
    /\ \E err \in {"nil", "other"} \cup (IF Ctx THEN {"canceled"} ELSE {}) :
          /\ work' = [work EXCEPT !.state = "done", !.err = err]
          /\ IF work.kind = "summary" \/ (work.kind = "compact" /\ err # "nil") THEN UNCHANGED <<disk, lost>>
             ELSE Saved(agent.version) \/ (lost' = TRUE /\ UNCHANGED disk)
    /\ UNCHANGED <<overlay, busy, queue, reply, agent, clock, progVars>>

WorkStep == WorkBegins \/ WorkDropped \/ WorkChanges \/ WorkAsks \/ WorkGoesOn \/ WorkEnds

(***************************************************************************)
(* Messages of the goroutine.                                              *)
(***************************************************************************)

\* permAskMsg, askUserMsg: whatever was there, the overlay becomes the question's.
Question(kind) ==
    /\ Alive /\ work.state = "asking"
    /\ overlay' = kind
    /\ work' = [work EXCEPT !.state = "waiting"]
    /\ UNCHANGED <<busy, queue, reply, agentVars, progVars>>

\* startTurn, with EnsureSession and trackWork.
StartTurn == busy' = TRUE /\ work' = Queued("turn")

\* A cancelled turn takes the queue with it.
DropsQueue == work.err = "canceled"

\* dropQueue.
Dropped == queue' = 0 /\ busy' = FALSE /\ work' = NoWork

\* kickQueue: the next prompt, if there is one.
Kick ==
    IF queue > 0 THEN queue' = queue - 1 /\ StartTurn
    ELSE busy' = FALSE /\ work' = NoWork /\ UNCHANGED queue

\* doneMsg: finishTurn.
Done ==
    /\ Alive /\ work.state = "done"
    /\ IF DropsQueue THEN Dropped ELSE Kick
    /\ UNCHANGED <<overlay, reply, agentVars, progVars>>

(***************************************************************************)
(* Leaving.                                                                *)
(***************************************************************************)

\* turnCancel of the turn in progress.
Cancelled == [work EXCEPT !.cancelled = @ \/ (busy /\ work.kind = "turn")]

\* shutdown: the turn is cancelled and its question answered.
\* Mutant: the answer alone.
NotCancelled == work
ShutWork == Cancelled
Shutdown ==
    /\ closed' = TRUE
    /\ work' = ShutWork
    /\ reply' = (reply \/ work.state = "waiting")

\* quit: saved, shut down, and tea.Quit is on its way to the event loop.
Quit ==
    /\ Persists \/ PersistFails
    /\ Shutdown
    /\ program' = "quitting"
    /\ UNCHANGED <<overlay, busy, queue, agent, clock, signalled>>

Signal ==
    /\ ~signalled /\ program # "exited"
    /\ signalled' = TRUE
    /\ UNCHANGED <<overlay, busy, queue, workVars, agentVars, program, closed>>

\* p.Run returns.
Stop ==
    /\ program = "quitting" \/ (program = "running" /\ signalled)
    /\ program' = "stopped"
    /\ UNCHANGED <<overlay, busy, queue, workVars, agentVars, closed, signalled>>

\* finish: shutdown, waitWork, persistCurrent.
FinishShutdown ==
    /\ program = "stopped"
    /\ program' = "waiting"
    /\ Shutdown
    /\ UNCHANGED <<overlay, busy, queue, agentVars, signalled>>

\* Mutant: nobody waits.
NoWait == TRUE
WorkOver == work.state \in {"none", "done"}

Finish ==
    /\ program = "waiting" /\ WorkOver
    /\ Persists \/ PersistFails
    /\ program' = "exited"
    /\ UNCHANGED <<overlay, busy, queue, workVars, agent, clock, closed, signalled>>

\* Ten seconds are over.
GiveUp ==
    /\ program = "waiting" /\ ~WorkOver
    /\ lost' = TRUE
    /\ UNCHANGED disk \/ \E version \in Written : disk' = [disk EXCEPT ![agent.sid] = version]
    /\ program' = "exited"
    /\ UNCHANGED <<overlay, busy, queue, workVars, agent, clock, closed, signalled>>

Messages == Done \/ \E kind \in Questions : Question(kind)
Exits == FinishShutdown \/ Finish

(***************************************************************************)
(* Keys.                                                                   *)
(***************************************************************************)

\* replyPerm, replyAsk: the channel holds one answer.
Reply == reply' = TRUE /\ overlay' = "none"

\* An answer to the question on the screen; ctrl+c also cancels the turn.
Answer(interrupt) ==
    /\ Alive /\ overlay \in Questions
    /\ Reply
    /\ work' = IF interrupt THEN Cancelled ELSE work
    /\ UNCHANGED <<busy, queue, agentVars, progVars>>

CtrlC ==
    /\ Alive /\ overlay = "none"
    /\ IF busy THEN work' = Cancelled /\ UNCHANGED overlay
       ELSE overlay' = "quit" /\ UNCHANGED work
    /\ UNCHANGED <<busy, queue, reply, agentVars, progVars>>

\* At an empty line.
CtrlD == Alive /\ overlay = "none" /\ ~busy /\ Quit

\* y or enter at the quit panel; n or esc.
ConfirmQuit == Alive /\ overlay = "quit" /\ Quit
KeepOn ==
    /\ Alive /\ overlay = "quit"
    /\ overlay' = "none"
    /\ UNCHANGED <<busy, queue, workVars, agentVars, progVars>>

\* /quit, in the middle of a turn too.
SlashQuit ==
    /\ Alive /\ overlay = "none"
    /\ overlay' = "quit"
    /\ UNCHANGED <<busy, queue, workVars, agentVars, progVars>>

\* enqueue: not when the queue is full.  Mutant: always.
EnqueuedAlways == queue + 1
Enqueued == IF queue < MaxQueued THEN queue + 1 ELSE queue

\* submit of a prompt.
Submit ==
    /\ Alive /\ overlay = "none"
    /\ IF busy THEN queue' = Enqueued /\ UNCHANGED <<busy, work>>
       ELSE StartTurn /\ UNCHANGED queue
    /\ UNCHANGED <<overlay, reply, agentVars, progVars>>

\* slashWhileBusy refuses the commands below.  Mutant: it lets them through.
AnyTime == Alive /\ overlay = "none"
Idle == Alive /\ overlay = "none" /\ ~busy

\* /export, in the middle of a turn too.
Export ==
    /\ Alive /\ overlay = "none" /\ agent.version # 0
    /\ Persists \/ PersistFails
    /\ UNCHANGED <<overlay, busy, queue, workVars, agent, clock, progVars>>

Compact ==
    /\ Idle
    /\ busy' = TRUE /\ work' = Queued("compact")
    /\ UNCHANGED <<overlay, queue, reply, agentVars, progVars>>

\* /retry: the transcript goes back to before its last prompt.
Retry ==
    /\ Idle /\ agent.version # 0
    /\ \/ Changed
       \/ agent' = [agent EXCEPT !.version = 0] /\ UNCHANGED clock
    /\ StartTurn
    /\ UNCHANGED <<overlay, queue, reply, disk, lost, progVars>>

Fresh == {s \in Sessions : s > agent.sid /\ \A t \in s..MaxSessions : disk[t] = 0}

\* /new and ctrl+n: saved first.
NewSession(s) ==
    /\ Idle /\ s \in Fresh
    /\ Persists
    /\ agent' = [sid |-> s, version |-> 0] /\ queue' = 0
    /\ UNCHANGED <<overlay, busy, workVars, clock, progVars>>

\* /delete of this session, or of another.
DeleteSession(s) ==
    /\ Idle /\ s \in Fresh
    /\ disk' = [disk EXCEPT ![agent.sid] = 0] /\ lost' = FALSE
    /\ agent' = [sid |-> s, version |-> 0] /\ queue' = 0
    /\ UNCHANGED <<overlay, busy, workVars, clock, progVars>>

DeleteOther(s) ==
    /\ Idle /\ s # agent.sid /\ disk[s] # 0
    /\ disk' = [disk EXCEPT ![s] = 0]
    /\ UNCHANGED <<overlay, busy, queue, workVars, agent, clock, lost, progVars>>

\* /sessions <id>: this one is saved, that one resolved and loaded.
LoadSession(s) ==
    /\ Idle /\ s # agent.sid /\ disk[s] \in Nat \ {0}
    /\ Persists
    /\ agent' = [sid |-> s, version |-> disk[s]] /\ queue' = 0
    /\ UNCHANGED <<overlay, busy, workVars, clock, progVars>>

\* Either goes no further when the save fails, nor /sessions when that one cannot be loaded.
NotSwitched ==
    /\ Idle /\ agent.version # 0
    /\ Persists \/ PersistFails
    /\ UNCHANGED <<overlay, busy, queue, workVars, agent, clock, progVars>>

Key ==
    \/ \E interrupt \in BOOLEAN : Answer(interrupt)
    \/ CtrlC \/ CtrlD \/ Export \/ ConfirmQuit \/ KeepOn \/ SlashQuit \/ Submit \/ Compact \/ Retry \/ NotSwitched
    \/ \E s \in Sessions : NewSession(s) \/ DeleteSession(s) \/ DeleteOther(s) \/ LoadSession(s)

Next == WorkStep \/ Messages \/ Stop \/ Exits \/ GiveUp \/ Signal \/ Key

Spec == Init /\ [][Next]_vars

(***************************************************************************)
(* Properties.                                                             *)
(***************************************************************************)

\* Hazard: keys are handled while a turn's goroutine appends to the transcript.  The
\* event loop changes the conversation and starts a goroutine only when none is at work
\* (update.go submit, runSlash, finishTurn).
OneWriter ==
    [][ Active => /\ agent'.sid = agent.sid
                  /\ work'.state = "queued" => work.state = "queued"
                  /\ agent' # agent => work.state = "running" /\ work' = work ]_vars

\* Hazard: leaving in the middle of a turn, with a save that tears or fails, a prompt
\* started from the queue after the shutdown, a signal between two steps.  When the
\* program has exited the file holds the whole transcript, unless the last write failed
\* or the ten seconds ran out with the goroutine at work (tui.go finish, update.go quit).
SavedOnExit ==
    program = "exited" /\ ~lost => agent.version = 0 \/ disk[agent.sid] = agent.version

\* Hazard: a question that arrives after the cancel, is asked over the quit panel or is
\* still open at shutdown: ask and askUser do not watch the turn's context.  A cancelled
\* turn ends, or its question is on the screen (tui.go ask, shutdown; update.go
\* handleOverlayKey).
CancelledTurnEnds ==
    work.cancelled ~> \/ work.state \in {"none", "done", "dropped"} \/ ~work.cancelled
                      \/ overlay \in Questions
=============================================================================
