------------------------------ MODULE ToolRun ------------------------------
(***************************************************************************)
(* A registry at work (internal/tools): execute, which takes a call through *)
(* plan mode, pre hooks, permission, the tool and post hooks; commands of    *)
(* bash and of hooks with their time limits; background jobs; resetting and  *)
(* closing the registry meanwhile.                                          *)
(*                                                                         *)
(* The calls of a turn that do not only read run one after the other; of the *)
(* calls of a parallel batch, one is followed through execute and the others *)
(* by their hooks, which is all they run.  A command is known by the        *)
(* processes that hold its output pipe: its leader, a child in its process   *)
(* group, and a daemon that has left the group and so survives killGroup.   *)
(* cmd.Wait returns when none is left.                                      *)
(***************************************************************************)
EXTENDS FileTools, GitGuard

CONSTANTS
    MaxStarted,  \* bound: background jobs ever started
    Front,       \* the command a call or a hook waits for
    Sides,       \* the hooks of the calls beside it in a parallel batch
    NoJob,
    MaxJobs,     \* unfinished jobs allowed (maxBgJobs, 4 in the code)
    Starts,      \* bound: sets of tools a behaviour calls, with "hooks" if there are any,
                 \* what .git holds at first, and how much of MaxSteps is left out
    Edits,       \* bound: what the file tools are asked for
    Writes,      \* bound: what commands write into .git, a path and its contents
    MaxSteps     \* bound: writes to .git, edits by others, processes spawned, and files
                 \* a snapshot cannot read

Jobs == 1..MaxStarted
Cmds == Jobs \cup {Front} \cup Sides
Processes == {"leader", "child", "daemon"}

ASSUME ToolAssumption ==
    /\ Front \notin Nat /\ NoJob \notin Nat \cup {Front}
    /\ Sides \cap (Nat \cup {Front}) = {}
    /\ MaxStarted \in Nat /\ MaxJobs \in Nat \ {0} /\ MaxSteps \in Nat
    /\ \A start \in Starts : start.git \in GitDirs /\ start.spent \in 0..MaxSteps
    /\ \A w \in Writes : w[1] \in GitPaths /\ w[2] \in Contents

VARIABLES
    git,        \* the contents of .git
    cmd,        \* per command: state, processes that hold its pipe, its guards
    table,      \* jobHub.jobs
    next,       \* jobHub.next, the number of the newest job
    offered,    \* the tools this behaviour calls
    stage, step, tool,  \* the call: stage of execute, step in it, tool
    target,     \* the job bash_kill waits for
    closer, victims,    \* killAll on behalf of ResetRuntime or Close, jobs still to kill
    steps,      \* bound
    \* history: .git as the user left it; the paths of it that a guard was taken of after
    \* a command had written them, that the user has written across a command, or that
    \* could not be restored; the newest job of the conversations before this one; jobs
    \* started after killAll
    users, spoiled, before, late

gitVars == <<git, users, spoiled>>
callVars == <<stage, step, tool, target>>
jobVars == <<table, next, before, late>>
vars == <<fileVars, gitVars, cmd, jobVars, callVars, closer, victims, steps, offered>>

NoGuard == [path \in GitPaths |-> "none"]
NoCommand == [state |-> "none", procs |-> {}, guard |-> NoGuard]

Unfinished(c) == cmd[c].state = "live"
\* Its guards will be put back, unless it cannot be started.
Guarding(c) == cmd[c].state \in {"ready", "live"}
\* Mutating: the tools a user is asked about.  (mcp_ tools are like these two.)
FileTool == {"write_file", "edit_file", "apply_patch"}
Mutating == FileTool \cup {"bash", "bash_kill"}
\* runningLocked.  Mutant: an end that has not been noticed yet counts as one.
RunningLoose == Cardinality({j \in table : cmd[j].procs # {}})
Running == Cardinality({j \in table : Unfinished(j)})

TypeOK ==
    /\ git \in GitDirs /\ users \in GitDirs /\ spoiled \subseteq GitPaths
    /\ \A c \in Cmds :
          /\ cmd[c].state \in {"none", "ready", "live", "done"}
          /\ cmd[c].procs \subseteq Processes
          /\ cmd[c].guard \in GitDirs
          /\ cmd[c].procs # {} => Unfinished(c)
    /\ table \subseteq Jobs /\ victims \subseteq Jobs
    /\ Cardinality({j \in table : Unfinished(j)}) <= MaxJobs
    /\ stage \in {"idle", "pre", "ask", "run", "post"}
    /\ step \in {"enter", "start", "wait", "files", "kill"}
    /\ stage # "idle" => tool \in offered
    /\ step = "wait" => Unfinished(Front)
    /\ step = "start" => cmd[Front].state = "ready"
    /\ step = "kill" => target \in Jobs
    /\ closer \in {"none", "reset", "close", "closed"}
    /\ Len(snaps) <= UndoCap /\ Len(past) = Len(snaps)
    /\ steps \in 0..MaxSteps /\ next \in 0..MaxStarted /\ before \in 0..next
    /\ table \subseteq 1..next

Init ==
    /\ FileInit
    /\ \E start \in Starts : offered = start.offered /\ git = start.git /\ steps = start.spent
    /\ users = git /\ spoiled = {}
    /\ cmd = [c \in Cmds |-> NoCommand]
    /\ table = {} /\ next = 0 /\ victims = {} /\ before = 0 /\ late = {}
    /\ stage = "idle" /\ step = "enter" /\ tool = "none" /\ target = NoJob
    /\ closer = "none"

(***************************************************************************)
(* Commands.                                                               *)
(***************************************************************************)

\* What a guard does not promise: a file it could not read, one it does not look at, an
\* object that was there and that a command has removed or overwritten.
Exempt(path) ==
    \/ users[path] = "odd" \/ path \in Unguarded
    \/ path \in Objects /\ users[path] # "none"

\* What bears the traces of a command.
Dirty == {path \in GitPaths : git[path] # users[path] /\ ~Exempt(path)}

\* snapshotGitGuards, into the hands of the call.
TakeGuard(c) ==
    /\ cmd' = [cmd EXCEPT ![c] = [@ EXCEPT !.state = "ready", !.guard = Snapshot(git)]]
    /\ spoiled' = spoiled \cup Dirty
    /\ UNCHANGED <<git, users>>

Started(c) == [cmd EXCEPT ![c] = [@ EXCEPT !.state = "live", !.procs = {"leader"}]]
NotStarted(c) == [cmd EXCEPT ![c] = NoCommand]

\* killGroup.  Mutant: the leader alone.
KillLeader(c) == [cmd EXCEPT ![c].procs = @ \ {"leader"}]
KillGroup(c) == [cmd EXCEPT ![c].procs = @ \cap {"daemon"}]

\* cmd.Wait has returned: the guards are reverted and the command is over.
Ends(c) ==
    /\ Unfinished(c) /\ cmd[c].procs = {}
    /\ \E failed \in SUBSET Changed(git, cmd[c].guard) :
       \E gone \in SUBSET (failed \cap Links(git, cmd[c].guard)) :
          /\ git' = Reverted(git, cmd[c].guard, failed, gone)
          /\ spoiled' = spoiled \cup failed
    /\ cmd' = [cmd EXCEPT ![c] = [@ EXCEPT !.state = "done", !.guard = NoGuard]]
    /\ UNCHANGED users

\* revertGitWrites returns an error if it has put something back.
Refuses ==
    \E path \in Changed(git, cmd[Front].guard) :
        git'[path] = Restored(path, git[path], cmd[Front].guard[path])

JobEnds(j) ==
    /\ Ends(j)
    /\ UNCHANGED <<fileVars, jobVars, callVars, closer, victims, steps, offered>>

ProcessExits(c, x) ==
    /\ x \in cmd[c].procs
    /\ cmd' = [cmd EXCEPT ![c].procs = @ \ {x}]
    /\ UNCHANGED <<fileVars, gitVars, jobVars, callVars, closer, victims, steps, offered>>

Spend == steps < MaxSteps /\ steps' = steps + 1

Spawns(c, x) ==
    /\ "leader" \in cmd[c].procs /\ x \notin cmd[c].procs
    /\ Spend
    /\ cmd' = [cmd EXCEPT ![c].procs = @ \cup {x}]
    /\ UNCHANGED <<fileVars, gitVars, jobVars, callVars, closer, victims, offered>>

CommandWritesGit(c, path, content) ==
    /\ cmd[c].procs # {} /\ content # git[path]
    /\ Spend
    /\ git' = [git EXCEPT ![path] = content]
    /\ UNCHANGED <<users, spoiled, fileVars, cmd, jobVars, callVars, closer, victims, offered>>

\* A commit, a checkout, a hook of the user's, from another terminal.
UserWritesGit(path) ==
    /\ Spend /\ "bash" \in offered
    /\ git' = [git EXCEPT ![path] = "users"]
    /\ users' = [users EXCEPT ![path] = "users"]
    /\ spoiled' = IF \E c \in Cmds : Guarding(c) THEN spoiled \cup {path} ELSE spoiled \ {path}
    /\ UNCHANGED <<fileVars, cmd, jobVars, callVars, closer, victims, offered>>

CommandStep ==
    \/ \E j \in Jobs : JobEnds(j)
    \/ \E c \in Cmds :
          \/ \E x \in Processes : ProcessExits(c, x) \/ Spawns(c, x)
          \/ \E w \in Writes : CommandWritesGit(c, w[1], w[2])
    \/ \E path \in Watched : UserWritesGit(path)

(***************************************************************************)
(* A call.                                                                 *)
(***************************************************************************)

Goto(s, at) == stage' = s /\ step' = at /\ UNCHANGED <<tool, target>>
Return == stage' = "idle" /\ step' = "enter" /\ tool' = "none" /\ target' = NoJob

\* The other calls of a parallel batch that are at their hooks.
Beside == {s \in Sides : Guarding(s)}

\* Refused at once, without a trace: unknown tools, oversized inputs, and in plan mode
\* the tools of Mutating.  After Close the program ends.
Call(t) ==
    /\ stage = "idle" /\ closer \notin {"reset", "closed"}
    /\ t \in offered \ {"hooks"}
    /\ t \in Mutating => Beside = {}
    /\ stage' = "pre" /\ step' = "enter" /\ tool' = t /\ UNCHANGED target
    /\ UNCHANGED <<fileVars, gitVars, cmd, jobVars, closer, victims, steps, offered>>

\* Pre and post hooks: there may be none that matches.
NoHook ==
    /\ stage \in {"pre", "post"} /\ step = "enter"
    /\ IF stage = "pre" THEN Goto("ask", "enter") ELSE Return
    /\ UNCHANGED <<fileVars, gitVars, cmd, jobVars, closer, victims, steps, offered>>

\* A hook, or the command of bash, first looks at .git, then starts.
Prepare ==
    /\ \/ stage \in {"pre", "post"} /\ "hooks" \in offered
       \/ stage = "run" /\ tool = "bash"
    /\ step = "enter"
    /\ TakeGuard(Front)
    /\ Goto(stage, "start")
    /\ UNCHANGED <<fileVars, jobVars, closer, victims, steps, offered>>

StartCommand ==
    /\ step = "start"
    /\ cmd' = Started(Front)
    /\ Goto(stage, "wait")
    /\ UNCHANGED <<fileVars, gitVars, jobVars, closer, victims, steps, offered>>

\* The turn is cancelled, or the time is up.
TimeUp ==
    /\ step = "wait" /\ cmd[Front].procs \ {"daemon"} # {}
    /\ cmd' = KillGroup(Front)
    /\ UNCHANGED <<fileVars, gitVars, jobVars, callVars, closer, victims, steps, offered>>

\* A pre hook that failed, ran out of time or touched .git denies the call.
CommandEnds ==
    /\ step = "wait"
    /\ Ends(Front)
    /\ \/ stage = "pre" /\ ~Refuses /\ Goto("ask", "enter")
       \/ stage \in {"pre", "post"} /\ Return
       \/ stage = "run" /\ Goto("post", "enter")
    /\ UNCHANGED <<fileVars, jobVars, closer, victims, steps, offered>>

\* ask: a tool that only reads is allowed; so is one the user has allowed for the whole
\* session, which spares the question.
Ask(allowed) ==
    /\ stage = "ask"
    /\ tool \in Mutating \/ allowed
    /\ IF allowed THEN Goto("run", "enter") ELSE Return
    /\ UNCHANGED <<fileVars, gitVars, cmd, jobVars, closer, victims, steps, offered>>

\* jobHub.start: the job takes the guards the call has just taken.
StartJob ==
    LET j == next + 1 IN
    /\ stage = "run" /\ step = "start"
    /\ Running < MaxJobs /\ j \in Jobs
    /\ cmd' = [cmd EXCEPT ![j] = [state |-> "live", procs |-> {"leader"}, guard |-> cmd[Front].guard],
                          ![Front] = NoCommand]
    /\ table' = table \cup {j} /\ next' = j
    /\ late' = IF closer \in {"close", "closed"} THEN late \cup {j} ELSE late
    /\ Goto("post", "enter")
    /\ UNCHANGED <<fileVars, gitVars, before, closer, victims, steps, offered>>

\* Too many jobs, or a command that cannot be started.
StartFails ==
    /\ step = "start"
    /\ cmd' = NotStarted(Front)
    /\ IF stage = "run" THEN Goto("post", "enter") ELSE Return
    /\ UNCHANGED <<fileVars, gitVars, jobVars, closer, victims, steps, offered>>

\* bash_kill: the job is looked up, killed, and waited for.
KillJob(j) ==
    /\ stage = "run" /\ step = "enter" /\ tool = "bash_kill"
    /\ j \in table
    /\ cmd' = IF Unfinished(j) THEN KillGroup(j) ELSE cmd
    /\ stage' = "run" /\ step' = "kill" /\ target' = j /\ UNCHANGED tool
    /\ UNCHANGED <<fileVars, gitVars, jobVars, closer, victims, steps, offered>>

JobKilled ==
    /\ step = "kill" /\ ~Unfinished(target)
    /\ stage' = "post" /\ step' = "enter" /\ target' = NoJob /\ UNCHANGED tool
    /\ UNCHANGED <<fileVars, gitVars, cmd, jobVars, closer, victims, steps, offered>>

\* Tools that change nothing here, bash_poll, and bash_kill of an unknown job.
OtherTool ==
    /\ stage = "run" /\ step = "enter" /\ tool \notin FileTool \cup {"bash"}
    /\ Goto("post", "enter")
    /\ UNCHANGED <<fileVars, gitVars, cmd, jobVars, closer, victims, steps, offered>>

\* What a file tool is to do: write_file and edit_file one operation, apply_patch those
\* of its patch, if it is one.
Operations(asked) == IF asked.kind = "patch" THEN Parsed(asked.patch) ELSE <<asked>>

StartFiles(asked) ==
    /\ stage = "run" /\ step = "enter" /\ tool \in FileTool
    /\ IF Operations(asked) = Failure
       THEN UNCHANGED rest /\ Goto("post", "enter")
       ELSE rest' = Operations(asked) /\ Goto("run", "files")
    /\ UNCHANGED <<files, snaps, past, touched, gitVars, cmd, jobVars, closer, victims, steps, offered>>

FileStep ==
    /\ step = "files"
    /\ \/ (OpRefused \/ OpFails \/ OpDone) /\ UNCHANGED callVars
       \/ rest = <<>> /\ UNCHANGED fileVars /\ Goto("post", "enter")
    /\ IF touched' = touched THEN UNCHANGED steps ELSE Spend
    /\ UNCHANGED <<gitVars, cmd, jobVars, closer, victims, offered>>

CallStep ==
    \/ NoHook \/ Prepare \/ StartCommand \/ TimeUp \/ CommandEnds \/ StartFails
    \/ StartJob \/ \E j \in Jobs : KillJob(j)
    \/ JobKilled \/ OtherTool \/ FileStep
    \/ \E asked \in Edits : StartFiles(asked)

(***************************************************************************)
(* The hooks of the other calls of a parallel batch.  A batch that only      *)
(* reads is run in parallel; it is over before the next call is made.       *)
(***************************************************************************)

ReadOnly == offered \ (Mutating \cup {"hooks"})

SidePrepares(s) ==
    /\ "hooks" \in offered /\ ReadOnly # {}
    /\ tool \notin Mutating /\ closer \notin {"reset", "closed"}
    /\ ~Guarding(s)
    /\ TakeGuard(s)
    /\ UNCHANGED <<fileVars, jobVars, callVars, closer, victims, steps, offered>>

SideStarts(s) ==
    /\ cmd[s].state = "ready"
    /\ cmd' \in {Started(s), NotStarted(s)}
    /\ UNCHANGED <<fileVars, gitVars, jobVars, callVars, closer, victims, steps, offered>>

SideTimeUp(s) ==
    /\ cmd[s].procs \ {"daemon"} # {}
    /\ cmd' = KillGroup(s)
    /\ UNCHANGED <<fileVars, gitVars, jobVars, callVars, closer, victims, steps, offered>>

SideEnds(s) ==
    /\ Ends(s)
    /\ UNCHANGED <<fileVars, jobVars, callVars, closer, victims, steps, offered>>

SideStep == \E s \in Sides : SidePrepares(s) \/ SideStarts(s) \/ SideTimeUp(s) \/ SideEnds(s)

(***************************************************************************)
(* The user: undo, edits, a new conversation, the end.                     *)
(***************************************************************************)

UserUndo ==
    /\ stage = "idle" /\ Beside = {} /\ closer = "none"
    /\ Undo \/ UndoFails
    /\ UNCHANGED <<gitVars, cmd, jobVars, callVars, closer, victims, steps, offered>>

OthersEdit(path, lines) ==
    /\ Spend /\ offered \cap FileTool # {} /\ files[path] # lines
    /\ OutsideEdit(path, lines)
    /\ UNCHANGED <<gitVars, cmd, jobVars, callVars, closer, victims, offered>>

\* killAll, for ResetRuntime (/new, another session) between two calls, or for Close,
\* which a call in progress does not hold up.  Mutant: the table is taken, not emptied.
KeptTable == table
EmptyTable == {}

KillAll(for) ==
    /\ closer = "none"
    /\ for = "reset" => stage = "idle" /\ Beside = {}
    /\ closer' = for
    /\ victims' = table /\ table' = EmptyTable
    /\ UNCHANGED <<fileVars, gitVars, cmd, next, before, late, callVars, steps, offered>>

\* Mutant: nobody waits for a killed job.
SentSignal(j) == cmd[j].procs \subseteq {"daemon"}
Over(j) == ~Unfinished(j)

KillVictim(j) ==
    /\ j \in victims
    /\ IF Unfinished(j) /\ ~(cmd[j].procs \subseteq {"daemon"})
       THEN cmd' = KillGroup(j) /\ UNCHANGED victims
       ELSE Over(j) /\ victims' = victims \ {j} /\ UNCHANGED cmd
    /\ UNCHANGED <<fileVars, gitVars, jobVars, callVars, closer, steps, offered>>

ResetDone ==
    /\ closer = "reset" /\ victims = {}
    /\ closer' = "none" /\ before' = next
    /\ ClearEdits
    /\ UNCHANGED <<files, rest, gitVars, cmd, table, next, late, callVars, victims, steps, offered>>

CloseDone ==
    /\ closer = "close" /\ victims = {}
    /\ closer' = "closed" /\ before' = next
    /\ UNCHANGED <<fileVars, gitVars, cmd, table, next, late, callVars, victims, steps, offered>>

CloserStep == (\E j \in Jobs : KillVictim(j)) \/ ResetDone \/ CloseDone

Next ==
    \/ CommandStep \/ CallStep \/ SideStep \/ CloserStep
    \/ \E t \in offered : Call(t)
    \/ \E allowed \in BOOLEAN : Ask(allowed)
    \/ UserUndo
    \/ \E path \in Paths \ Protected : OthersEdit(path, Missing)
    \/ \E for \in {"reset", "close"} : KillAll(for)

Spec == Init /\ [][Next]_vars

\* A call that is not waiting for the user goes on, every time limit runs out, a job
\* whose processes are gone is noticed, killAll goes through its jobs.
Fairness ==
    /\ WF_vars(CallStep) /\ WF_vars(CloserStep)
    /\ \A j \in Jobs : WF_vars(JobEnds(j))

FairSpec == Spec /\ Fairness

(***************************************************************************)
(* Properties.                                                             *)
(***************************************************************************)

\* Hazard: commands, jobs and hooks that run at the same time revert .git to what it was
\* when each of them started.  When none runs, what is not as the user left it has a
\* reason: it could not be restored, a guard was taken of it while a command had already
\* written it, or the user wrote it while a command ran (bash.go Run, jobs.go start,
\* hooks.go runHookCmd, gitguard.go).
GitIsTheUsers == (\A c \in Cmds : ~Unfinished(c)) => Dirty \subseteq spoiled

\* Hazard: killAll empties the table and then kills, a job may finish meanwhile, and a
\* call may start one.  No job outlives the conversation it was started in, unless a
\* call that Close did not wait for started it afterwards (jobs.go killAll).
JobsEndWithSession == \A j \in Jobs : Unfinished(j) => j > before \/ j \in late

\* Hazard: the tool waits for every process that holds its output.  As long as none
\* leaves its process group, each call comes back or asks the user, and resetting and
\* closing end (bash.go Run, hooks.go runHookCmd, jobs.go kill and killAll).
NoDaemon == \A c \in Cmds : "daemon" \notin cmd[c].procs
CallsReturn ==
    []NoDaemon =>
        /\ stage \notin {"idle", "ask"} ~> stage \in {"idle", "ask"}
        /\ closer \in {"reset", "close"} ~> closer \in {"none", "closed"}
=============================================================================
