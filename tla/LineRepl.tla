------------------------------ MODULE LineRepl ------------------------------
(***************************************************************************)
(* The front ends of an agent: the terminal UI, the line REPL and a single  *)
(* headless prompt (internal/repl).  The line REPL has one loop, which runs *)
(* the turn itself: the goroutine of Tui is that loop at work, and keys     *)
(* are lines typed at the prompt or at a question.                          *)
(***************************************************************************)
EXTENDS Tui

VARIABLE line  \* the front end, and where its loop is: tui; prompt or turn; once

lineVars == <<vars, line>>

LineInit == Init /\ line \in {"tui", "prompt", "once"}

Leaves == program' = "exited" /\ UNCHANGED line
Goes(to) == line' = to /\ UNCHANGED program

\* runLineTurn, or Compact: the loop is at work.
Works(kind) == busy' = TRUE /\ work' = Queued(kind)

\* readPrompt returns a line, even when ctx is cancelled by then; RunOnce.
PromptLine ==
    /\ line \in {"prompt", "once"} /\ ~busy
    /\ Works("turn")
    /\ Goes(IF line = "prompt" THEN "turn" ELSE "once")
    /\ UNCHANGED <<overlay, queue, reply, agentVars, closed, signalled>>

\* /compact.
SlashCompact ==
    /\ line = "prompt" /\ agent.version # 0
    /\ Works("summary")
    /\ Goes("turn")
    /\ UNCHANGED <<overlay, queue, reply, agentVars, closed, signalled>>

\* /retry: RewindLastUser first.
SlashRetry ==
    /\ line = "prompt" /\ agent.version # 0
    /\ \/ Changed
       \/ agent' = [agent EXCEPT !.version = 0] /\ UNCHANGED clock
    /\ Works("retry")
    /\ Goes("turn")
    /\ UNCHANGED <<overlay, queue, reply, disk, lost, closed, signalled>>

\* /new, /sessions <id>, /delete and /export do what they do in the terminal UI.
SlashSession ==
    /\ line = "prompt"
    /\ NotSwitched \/ Export \/ \E s \in Sessions : NewSession(s) \/ DeleteSession(s) \/ DeleteOther(s) \/ LoadSession(s)
    /\ UNCHANGED line

\* /quit, the end of the input, an interrupt, or ctx cancelled: saved, and out, even
\* when the save fails.
PromptEnds ==
    /\ line = "prompt"
    /\ Persists \/ PersistFails
    /\ Leaves
    /\ UNCHANGED <<overlay, busy, queue, workVars, agent, clock, closed, signalled>>

\* The turn asks with a scanner of its own (permissionAsk, userAsk), and so does a headless
\* prompt whose input is a terminal; without one nothing is asked.  The wait ends with the
\* user's answer, and in the REPL, whose input a signal closes (CloseStdinOnDone), a
\* question that comes after it is answered at once.
AskAnswered ==
    /\ \/ work.state = "waiting" /\ reply
       \/ work.state = "asking" /\ signalled /\ line = "turn"
    /\ work' = [work EXCEPT !.state = "running"]
    /\ UNCHANGED <<overlay, busy, queue, reply, agentVars, progVars, line>>

Asked == line \in {"turn", "once"} /\ \E kind \in Questions : Question(kind)

\* SIGINT: it cancels the turn and no more; anywhere else the process has no handler.
Interrupt ==
    /\ line = "turn"
    /\ IF Active /\ work.kind # "summary"
       THEN work' = [work EXCEPT !.cancelled = TRUE] /\ UNCHANGED program
       ELSE program' = "killed" /\ UNCHANGED work
    /\ UNCHANGED <<overlay, busy, queue, reply, agentVars, closed, signalled, line>>

\* What follows a turn (not a compaction): the save, and the end when ctx is cancelled or the prompt was
\* the only one; but /retry goes back to the prompt.
TurnOver ==
    /\ work.state = "done"
    /\ IF work.kind = "summary" THEN UNCHANGED <<disk, lost>>
       ELSE Saved(agent.version) \/ (lost' = TRUE /\ UNCHANGED disk)
    /\ work' = NoWork /\ busy' = FALSE
    /\ IF line = "once" \/ (signalled /\ work.kind = "turn") THEN Leaves ELSE Goes("prompt")
    /\ UNCHANGED <<overlay, queue, reply, agent, clock, closed, signalled>>

Runs == (WorkBegins \/ WorkChanges \/ WorkAsks \/ WorkEnds) /\ UNCHANGED line

LineStep ==
    /\ program = "running" /\ line # "tui"
    /\ \/ PromptLine \/ SlashCompact \/ SlashRetry \/ SlashSession \/ PromptEnds
       \/ Runs \/ AskAnswered \/ TurnOver \/ Interrupt
       \/ (Asked \/ Answer(FALSE) \/ Signal) /\ UNCHANGED line

OfTui(A) == line = "tui" /\ A /\ UNCHANGED line
OfLine(A) == program = "running" /\ line # "tui" /\ A

LineNext == OfTui(Next) \/ LineStep

\* The event loop takes the messages that wait, goroutines are scheduled, and a
\* cancelled turn comes to its end: provider, commands and tools watch its context.
\* Nobody has to press a key, and the ten seconds of the terminal UI do not count.
Fairness ==
    /\ WF_lineVars(OfTui(Messages)) /\ WF_lineVars(OfTui(Stop)) /\ WF_lineVars(OfTui(Exits))
    /\ WF_lineVars(OfTui(WorkBegins)) /\ WF_lineVars(OfTui(WorkGoesOn)) /\ WF_lineVars(OfTui(Ctx /\ WorkEnds))
    /\ WF_lineVars(OfLine(WorkBegins /\ UNCHANGED line))
    /\ WF_lineVars(OfLine(Ctx /\ WorkEnds /\ UNCHANGED line))
    /\ WF_lineVars(OfLine(AskAnswered)) /\ WF_lineVars(OfLine(Asked /\ UNCHANGED line))
    /\ WF_lineVars(OfLine(TurnOver)) /\ WF_lineVars(OfLine(signalled /\ PromptEnds))
    /\ WF_lineVars(OfLine(line = "once" /\ PromptLine))

FrontSpec == LineInit /\ [][LineNext]_lineVars /\ Fairness

\* Hazard: what started after shutdown, or was waiting for an answer, holds up the exit;
\* a signal that comes in the middle of a turn of the line REPL.  The program ends by
\* itself once a key or a signal has asked for it, unless something is at work that
\* nothing has cancelled: a compaction, which a key cannot cancel, or /retry and /compact
\* of the line REPL, which a signal cannot; or a question that was asked on the terminal
\* without the UI waits for its answer, which no signal takes back; or the goroutine was
\* dropped before it began (tui.go finish, waitWork; repl.go lineLoop, handleSlash, RunOnce).
ExitEnds ==
    program = "quitting" \/ signalled
        ~> \/ program \in {"exited", "killed"}
           \/ Active /\ work.kind # "turn" /\ ~Ctx
           \/ line # "tui" /\ overlay \in Questions
           \/ work.state = "dropped"
=============================================================================
