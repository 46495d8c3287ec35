--------------------------- MODULE ToolRun_proofs ---------------------------
(***************************************************************************)
(* For any number of jobs, of hooks of a parallel batch, of snapshots and of *)
(* files of .git: the limit of running jobs holds and none outlives its      *)
(* conversation, .git is the user's again when no command runs, but for the  *)
(* paths the history names, and /undo goes back through the workspaces as    *)
(* they were.                                                              *)
(*                                                                         *)
(* Commands relates a call to the command it waits for.  On top of it,      *)
(* JobTable says that a job that runs is in the table or still to be        *)
(* killed, GitInv that each guard to be put back holds what the user has    *)
(* left at every path that is not spoiled, and FileInv, for the snapshots from each on, which of them tells   *)
(* what a path was.                                                        *)
(***************************************************************************)
EXTENDS ToolRun, SequenceTheorems, FiniteSetTheorems, NaturalsInduction,
        WellFoundedInduction, TLAPS

(***************************************************************************)
(* Commands: what a step makes of them.                                    *)
(***************************************************************************)

CmdRecords == [state : {"none", "ready", "live", "done"}, procs : SUBSET Processes, guard : GitDirs]

CmdTypes ==
    /\ cmd \in [Cmds -> CmdRecords]
    /\ \A c \in Cmds : cmd[c].procs # {} => cmd[c].state = "live"
    /\ git \in GitDirs /\ users \in GitDirs /\ spoiled \subseteq GitPaths

\* States and guards of all commands but c are kept.
KeptBut(c) ==
    \A d \in Cmds \ {c} : cmd'[d].state = cmd[d].state /\ cmd'[d].guard = cmd[d].guard
AllKept == \A d \in Cmds : cmd'[d].state = cmd[d].state /\ cmd'[d].guard = cmd[d].guard
\* Command c is over.
OverNow(c) == cmd'[c].state = "done" /\ KeptBut(c)

LEMMA FrontIsNoJob ==
    /\ Front \in Cmds /\ Front \notin Jobs /\ Jobs \subseteq Cmds
    /\ Sides \subseteq Cmds /\ Front \notin Sides /\ Sides \cap Jobs = {}
BY ToolAssumption DEF ToolAssumption, Cmds, Jobs

LEMMA SnapshotType ==
    ASSUME NEW g \in GitDirs
    PROVE  Snapshot(g) \in GitDirs
<1>1. "none" \in Contents
  BY DEF Contents
<1>2. ASSUME NEW path \in GitPaths PROVE Read(path, g[path]) \in Contents
  <2>1. g[path] \in Contents
    BY DEF GitDirs
  <2> QED BY <1>1, <2>1 DEF Read
<1> QED BY <1>2 DEF Snapshot, GitDirs

LEMMA RevertedType ==
    ASSUME NEW g \in GitDirs, NEW s \in GitDirs, NEW failed, NEW gone
    PROVE  Reverted(g, s, failed, gone) \in GitDirs
<1>1. "none" \in Contents
  BY DEF Contents
<1>2. ASSUME NEW path \in GitPaths PROVE g[path] \in Contents /\ Restored(path, g[path], s[path]) \in Contents
  <2>1. g[path] \in Contents /\ s[path] \in Contents
    BY DEF GitDirs
  <2> QED BY <1>1, <2>1 DEF Restored, RestoredFile, RestoredObject
<1> QED BY <1>1, <1>2 DEF Reverted, GitDirs

\* The processes of one command change.
LEMMA ProcsStep ==
    ASSUME CmdTypes, NEW c \in Cmds, NEW P \in SUBSET Processes,
           P # {} => cmd[c].state = "live",
           cmd' = [cmd EXCEPT ![c] = [@ EXCEPT !.procs = P]]
    PROVE  cmd' \in [Cmds -> CmdRecords] /\ AllKept
           /\ \A d \in Cmds : cmd'[d].procs # {} => cmd'[d].state = "live"
<1>1. cmd[c] \in CmdRecords
  BY DEF CmdTypes
<1>2. /\ [cmd[c] EXCEPT !.procs = P] \in CmdRecords
      /\ [cmd[c] EXCEPT !.procs = P].state = cmd[c].state
      /\ [cmd[c] EXCEPT !.procs = P].guard = cmd[c].guard
      /\ [cmd[c] EXCEPT !.procs = P].procs = P
  BY <1>1 DEF CmdRecords
<1>3. cmd' = [cmd EXCEPT ![c] = [cmd[c] EXCEPT !.procs = P]]
  OBVIOUS
<1> QED BY <1>2, <1>3 DEF CmdTypes, AllKept

LEMMA KillGroupStep ==
    ASSUME CmdTypes, NEW c \in Cmds, cmd' = KillGroup(c)
    PROVE  cmd' \in [Cmds -> CmdRecords] /\ AllKept
           /\ \A d \in Cmds : cmd'[d].procs # {} => cmd'[d].state = "live"
<1>0. cmd[c].procs \in SUBSET Processes /\ (cmd[c].procs # {} => cmd[c].state = "live")
  BY DEF CmdTypes, CmdRecords
<1>1. /\ cmd[c].procs \cap {"daemon"} \in SUBSET Processes
      /\ cmd[c].procs \cap {"daemon"} # {} => cmd[c].state = "live"
  <2>1. \A P \in SUBSET Processes : P \cap {"daemon"} \in SUBSET Processes
    OBVIOUS
  <2> QED BY <1>0, <2>1
<1>2. cmd' = [cmd EXCEPT ![c] = [@ EXCEPT !.procs = cmd[c].procs \cap {"daemon"}]]
  BY DEF KillGroup
<1> QED BY <1>1, <1>2, ProcsStep

\* A command gets a new record.
LEMMA RecordStep ==
    ASSUME CmdTypes, NEW c \in Cmds, NEW r \in CmdRecords, r.procs # {} => r.state = "live",
           cmd' = [cmd EXCEPT ![c] = r]
    PROVE  /\ cmd' \in [Cmds -> CmdRecords] /\ cmd'[c] = r /\ KeptBut(c)
           /\ \A d \in Cmds : cmd'[d].procs # {} => cmd'[d].state = "live"
BY DEF CmdTypes, KeptBut

LEMMA EndsStep ==
    ASSUME CmdTypes, NEW c \in Cmds, Ends(c)
    PROVE  CmdTypes' /\ OverNow(c)
<1>1. cmd[c] \in CmdRecords /\ cmd[c].procs = {} /\ NoGuard \in GitDirs
  BY DEF CmdTypes, Ends, NoGuard, GitDirs, Contents
<1>2. /\ [cmd[c] EXCEPT !.state = "done", !.guard = NoGuard] \in CmdRecords
      /\ [cmd[c] EXCEPT !.state = "done", !.guard = NoGuard].state = "done"
      /\ [cmd[c] EXCEPT !.state = "done", !.guard = NoGuard].procs = {}
  BY <1>1 DEF CmdRecords
<1>3. cmd' = [cmd EXCEPT ![c] = [cmd[c] EXCEPT !.state = "done", !.guard = NoGuard]]
  BY DEF Ends
<1>4. /\ cmd' \in [Cmds -> CmdRecords] /\ KeptBut(c) /\ cmd'[c].state = "done"
      /\ \A d \in Cmds : cmd'[d].procs # {} => cmd'[d].state = "live"
  BY <1>2, <1>3, RecordStep
<1>5. git' \in GitDirs /\ users' = users /\ spoiled' \subseteq GitPaths
  <2>1. PICK failed \in SUBSET Changed(git, cmd[c].guard) :
           \E gone \in SUBSET (failed \cap Links(git, cmd[c].guard)) :
              /\ git' = Reverted(git, cmd[c].guard, failed, gone)
              /\ spoiled' = spoiled \cup failed
    BY DEF Ends
  <2>2. failed \subseteq GitPaths
    BY DEF Changed
  <2>3. cmd[c].guard \in GitDirs /\ git \in GitDirs /\ spoiled \subseteq GitPaths
    BY <1>1 DEF CmdTypes, CmdRecords
  <2> QED BY <2>1, <2>2, <2>3, RevertedType DEF Ends
<1> QED BY <1>4, <1>5 DEF CmdTypes, OverNow

LEMMA NoCommandType ==
    NoCommand \in CmdRecords /\ NoCommand.procs = {} /\ NoCommand.state = "none"
BY DEF NoCommand, CmdRecords, NoGuard, GitDirs, Contents

LEMMA TakeGuardStep ==
    ASSUME CmdTypes, NEW c \in Cmds, TakeGuard(c), cmd[c].state # "live"
    PROVE  /\ CmdTypes' /\ KeptBut(c)
           /\ cmd'[c].state = "ready" /\ cmd'[c].guard = Snapshot(git)
<1>1. cmd[c] \in CmdRecords /\ Snapshot(git) \in GitDirs /\ cmd[c].procs = {}
  BY SnapshotType DEF CmdTypes
<1> DEFINE r == [cmd[c] EXCEPT !.state = "ready", !.guard = Snapshot(git)]
<1>2. r \in CmdRecords /\ r.state = "ready" /\ r.procs = {} /\ r.guard = Snapshot(git)
  BY <1>1 DEF CmdRecords
<1>3. cmd' = [cmd EXCEPT ![c] = r]
  BY DEF TakeGuard
<1>4. git' = git /\ users' = users /\ spoiled' \subseteq GitPaths
  BY DEF TakeGuard, CmdTypes, Dirty
<1> HIDE DEF r
<1> QED BY <1>2, <1>3, <1>4, RecordStep DEF CmdTypes

LEMMA StartedStep ==
    ASSUME CmdTypes, NEW c \in Cmds, cmd' = Started(c)
    PROVE  /\ cmd' \in [Cmds -> CmdRecords] /\ KeptBut(c)
           /\ cmd'[c].state = "live" /\ cmd'[c].guard = cmd[c].guard
           /\ \A d \in Cmds : cmd'[d].procs # {} => cmd'[d].state = "live"
<1>1. cmd[c] \in CmdRecords
  BY DEF CmdTypes
<1> DEFINE r == [cmd[c] EXCEPT !.state = "live", !.procs = {"leader"}]
<1>2. r \in CmdRecords /\ r.state = "live" /\ r.guard = cmd[c].guard
  BY <1>1 DEF CmdRecords, Processes
<1>3. cmd' = [cmd EXCEPT ![c] = r]
  BY DEF Started
<1> HIDE DEF r
<1> QED BY <1>2, <1>3, RecordStep

LEMMA NotStartedStep ==
    ASSUME CmdTypes, NEW c \in Cmds, cmd' = NotStarted(c)
    PROVE  /\ cmd' \in [Cmds -> CmdRecords] /\ KeptBut(c) /\ cmd'[c].state = "none"
           /\ \A d \in Cmds : cmd'[d].procs # {} => cmd'[d].state = "live"
BY NoCommandType, RecordStep DEF NotStarted

\* jobHub.start hands the guards of the call to the job.
LEMMA StartJobStep ==
    ASSUME CmdTypes, StartJob
    PROVE  /\ cmd' \in [Cmds -> CmdRecords]
           /\ next + 1 \in Jobs
           /\ cmd'[next + 1].state = "live" /\ cmd'[next + 1].guard = cmd[Front].guard
           /\ cmd'[Front].state = "none"
           /\ \A d \in Cmds \ {next + 1, Front} :
                 cmd'[d].state = cmd[d].state /\ cmd'[d].guard = cmd[d].guard
           /\ \A d \in Cmds : cmd'[d].procs # {} => cmd'[d].state = "live"
<1> DEFINE j == next + 1
           r == [state |-> "live", procs |-> {"leader"}, guard |-> cmd[Front].guard]
<1>1. j \in Jobs /\ j \in Cmds /\ j # Front /\ Front \in Cmds
  BY FrontIsNoJob DEF StartJob
<1>2. r \in CmdRecords /\ r.state = "live" /\ r.guard = cmd[Front].guard
  BY <1>1 DEF CmdTypes, CmdRecords, Processes
<1>3. cmd' = [cmd EXCEPT ![j] = r, ![Front] = NoCommand]
  BY DEF StartJob
<1>4. /\ cmd' \in [Cmds -> CmdRecords] /\ cmd'[j] = r /\ cmd'[Front] = NoCommand
      /\ \A d \in Cmds \ {j, Front} : cmd'[d] = cmd[d]
  <2> HIDE DEF j, r
  <2> QED BY <1>1, <1>2, <1>3, NoCommandType DEF CmdTypes
<1> QED BY <1>1, <1>2, <1>4, NoCommandType DEF CmdTypes

(***************************************************************************)
(* Calls and commands: a command in the foreground is waited for.          *)
(***************************************************************************)

Stages == {"idle", "pre", "ask", "run", "post"}
CallSteps == {"enter", "start", "wait", "files", "kill"}

Commands ==
    /\ CmdTypes
    /\ stage \in Stages /\ step \in CallSteps
    /\ step = "wait" <=> Unfinished(Front)
    /\ step = "start" <=> cmd[Front].state = "ready"
    /\ stage \in {"idle", "ask"} => step = "enter"
    /\ step \in {"kill", "files"} => stage = "run"

LEMMA CommandsInit == Init => Commands
<1> SUFFICES ASSUME Init PROVE Commands
  OBVIOUS
<1>1. PICK start \in Starts : offered = start.offered /\ git = start.git
  BY DEF Init
<1>2. git \in GitDirs /\ users \in GitDirs /\ spoiled \subseteq GitPaths
  BY <1>1, ToolAssumption DEF Init, ToolAssumption
<1>3. /\ cmd \in [Cmds -> CmdRecords]
      /\ \A c \in Cmds : cmd[c] = NoCommand
  BY NoCommandType DEF Init
<1>4. CmdTypes /\ ~Unfinished(Front) /\ cmd[Front].state # "ready"
  BY <1>2, <1>3, NoCommandType, FrontIsNoJob DEF CmdTypes, Unfinished
<1> QED BY <1>4 DEF Init, Commands, Stages, CallSteps

\* The call stands still, and so does its command.
LEMMA CallFrame ==
    ASSUME Commands, CmdTypes', cmd'[Front].state = cmd[Front].state,
           stage' = stage, step' = step
    PROVE  Commands'
BY DEF Commands, Unfinished

\* The call moves on, away from a command that is over.
LEMMA CallMoves ==
    ASSUME Commands, CmdTypes', cmd'[Front].state \notin {"ready", "live"},
           NEW s \in Stages, NEW at \in CallSteps \ {"wait", "start"}, stage' = s, step' = at,
           s \in {"idle", "ask"} => at = "enter",
           at \in {"kill", "files"} => s = "run"
    PROVE  Commands'
BY DEF Commands, Unfinished

LEMMA CommandStepKeepsCommands ==
    ASSUME Commands, CommandStep
    PROVE  Commands'
<1> USE DEF Commands
<1>1. ASSUME NEW j \in Jobs, JobEnds(j) PROVE Commands'
  <2>1. CmdTypes' /\ KeptBut(j)
    BY <1>1, FrontIsNoJob, EndsStep DEF JobEnds, OverNow
  <2>2. cmd'[Front].state = cmd[Front].state
    BY <2>1, FrontIsNoJob DEF KeptBut
  <2> QED BY <1>1, <2>1, <2>2, CallFrame DEF JobEnds, callVars
<1>2. ASSUME NEW c \in Cmds, NEW x \in Processes, ProcessExits(c, x) PROVE Commands'
  <2>1. /\ cmd[c].procs \ {x} \in SUBSET Processes
        /\ cmd[c].procs \ {x} # {} => cmd[c].state = "live"
    BY <1>2 DEF ProcessExits, CmdTypes, CmdRecords
  <2>2. cmd' = [cmd EXCEPT ![c] = [@ EXCEPT !.procs = cmd[c].procs \ {x}]]
    BY <1>2 DEF ProcessExits
  <2>3. CmdTypes' /\ AllKept
    BY <1>2, <2>1, <2>2, ProcsStep DEF ProcessExits, gitVars, CmdTypes
  <2> QED BY <1>2, <2>3, FrontIsNoJob, CallFrame DEF ProcessExits, callVars, AllKept
<1>3. ASSUME NEW c \in Cmds, NEW x \in Processes, Spawns(c, x) PROVE Commands'
  <2>1. /\ cmd[c].procs \cup {x} \in SUBSET Processes
        /\ cmd[c].state = "live"
    BY <1>3 DEF Spawns, CmdTypes, CmdRecords
  <2>2. cmd' = [cmd EXCEPT ![c] = [@ EXCEPT !.procs = cmd[c].procs \cup {x}]]
    BY <1>3 DEF Spawns
  <2>3. CmdTypes' /\ AllKept
    BY <1>3, <2>1, <2>2, ProcsStep DEF Spawns, gitVars, CmdTypes
  <2> QED BY <1>3, <2>3, FrontIsNoJob, CallFrame DEF Spawns, callVars, AllKept
<1>4. ASSUME NEW c \in Cmds, NEW w \in Writes, CommandWritesGit(c, w[1], w[2]) PROVE Commands'
  <2>1. w[1] \in GitPaths /\ w[2] \in Contents
    BY ToolAssumption DEF ToolAssumption
  <2>2. CmdTypes'
    BY <1>4, <2>1 DEF CommandWritesGit, CmdTypes, GitDirs
  <2> QED BY <1>4, <2>2, CallFrame DEF CommandWritesGit, callVars
<1>5. ASSUME NEW path \in Watched, UserWritesGit(path) PROVE Commands'
  <2>1. path \in GitPaths /\ "users" \in Contents
    BY DEF GitPaths, Contents
  <2>2. git' \in GitDirs /\ users' \in GitDirs /\ spoiled' \subseteq GitPaths /\ cmd' = cmd
    BY <1>5, <2>1 DEF UserWritesGit, CmdTypes, GitDirs
  <2>3. CmdTypes'
    BY <2>2 DEF CmdTypes
  <2> QED BY <1>5, <2>3, CallFrame DEF UserWritesGit, callVars
<1> QED BY <1>1, <1>2, <1>3, <1>4, <1>5 DEF CommandStep

LEMMA CallStepKeepsCommands ==
    ASSUME Commands, CallStep
    PROVE  Commands'
<1>0. /\ CmdTypes /\ Front \in Cmds /\ Front \notin Jobs /\ Jobs \subseteq Cmds
      /\ stage \in Stages /\ step \in CallSteps
      /\ step # "wait" => cmd[Front].state # "live"
      /\ step # "start" => cmd[Front].state # "ready"
      /\ stage \in {"idle", "ask"} => step = "enter"
      /\ step \in {"kill", "files"} => stage = "run"
  BY FrontIsNoJob DEF Commands, Unfinished
<1>s. /\ "idle" \in Stages /\ "pre" \in Stages /\ "ask" \in Stages
      /\ "run" \in Stages /\ "post" \in Stages
      /\ "enter" \in CallSteps \ {"wait", "start"}
      /\ "kill" \in CallSteps \ {"wait", "start"} /\ "files" \in CallSteps \ {"wait", "start"}
  BY DEF Stages, CallSteps
<1>1. ASSUME NoHook PROVE Commands'
  <2>1. CmdTypes' /\ step \notin {"wait", "start"} /\ cmd' = cmd
    BY <1>0, <1>1 DEF NoHook, CmdTypes, gitVars
  <2> QED BY <1>0, <1>1, <1>s, <2>1, CallMoves DEF NoHook, Goto, Return
<1>2. ASSUME Prepare PROVE Commands'
  <2>1. CmdTypes' /\ cmd'[Front].state = "ready"
    BY <1>0, <1>2, TakeGuardStep DEF Prepare
  <2>2. stage' = stage /\ step' = "start" /\ stage \in {"pre", "post", "run"} /\ "start" \in CallSteps
    BY <1>2 DEF Prepare, Goto, CallSteps
  <2> QED BY <1>0, <2>1, <2>2 DEF Commands, Unfinished
<1>3. ASSUME StartCommand PROVE Commands'
  <2>1. /\ cmd' \in [Cmds -> CmdRecords] /\ cmd'[Front].state = "live"
        /\ \A d \in Cmds : cmd'[d].procs # {} => cmd'[d].state = "live"
    BY <1>0, <1>3, StartedStep DEF StartCommand
  <2>2. git' = git /\ users' = users /\ spoiled' = spoiled
    BY <1>3 DEF StartCommand, gitVars
  <2>3. CmdTypes'
    BY <1>0, <2>1, <2>2 DEF CmdTypes
  <2>4. stage' = stage /\ step' = "wait" /\ stage \notin {"idle", "ask"} /\ "wait" \in CallSteps
    BY <1>0, <1>3 DEF StartCommand, Goto, CallSteps
  <2> QED BY <1>0, <2>1, <2>3, <2>4 DEF Commands, Unfinished
<1>4. ASSUME TimeUp PROVE Commands'
  <2>1. CmdTypes' /\ AllKept
    BY <1>0, <1>4, KillGroupStep DEF TimeUp, gitVars, CmdTypes
  <2> QED BY <1>0, <1>4, <2>1, CallFrame DEF TimeUp, callVars, AllKept
<1>5. ASSUME CommandEnds PROVE Commands'
  <2>1. CmdTypes' /\ cmd'[Front].state = "done"
    BY <1>0, <1>5, EndsStep DEF CommandEnds, OverNow
  <2> QED BY <1>5, <1>s, <2>1, CallMoves DEF CommandEnds, Goto, Return
<1>6. ASSUME StartFails PROVE Commands'
  <2>1. CmdTypes' /\ cmd'[Front].state = "none"
    BY <1>0, <1>6, NotStartedStep DEF StartFails, gitVars, CmdTypes
  <2> QED BY <1>6, <1>s, <2>1, CallMoves DEF StartFails, Goto, Return
<1>7. ASSUME StartJob PROVE Commands'
  <2>1. /\ cmd' \in [Cmds -> CmdRecords] /\ cmd'[Front].state = "none"
        /\ \A d \in Cmds : cmd'[d].procs # {} => cmd'[d].state = "live"
    BY <1>0, <1>7, StartJobStep
  <2>2. git' = git /\ users' = users /\ spoiled' = spoiled
    BY <1>7 DEF StartJob, gitVars
  <2>3. CmdTypes'
    BY <1>0, <2>1, <2>2 DEF CmdTypes
  <2> QED BY <1>7, <1>s, <2>1, <2>3, CallMoves DEF StartJob, Goto
<1>8. ASSUME NEW j \in Jobs, KillJob(j) PROVE Commands'
  <2>1. CASE Unfinished(j)
    <3>1. CmdTypes' /\ AllKept
      BY <1>0, <1>8, <2>1, KillGroupStep DEF KillJob, gitVars, CmdTypes
    <3>2. cmd'[Front].state \notin {"ready", "live"}
      BY <1>0, <1>8, <3>1 DEF KillJob, AllKept
    <3> QED BY <1>8, <1>s, <3>1, <3>2, CallMoves DEF KillJob
  <2>2. CASE ~Unfinished(j)
    <3>1. CmdTypes' /\ cmd'[Front].state \notin {"ready", "live"}
      BY <1>0, <1>8, <2>2 DEF KillJob, gitVars, CmdTypes
    <3> QED BY <1>8, <1>s, <3>1, CallMoves DEF KillJob
  <2> QED BY <2>1, <2>2
<1>9. ASSUME JobKilled \/ OtherTool PROVE Commands'
  <2>1. CmdTypes' /\ cmd' = cmd /\ step \notin {"wait", "start"}
    BY <1>0, <1>9 DEF JobKilled, OtherTool, gitVars, CmdTypes
  <2> QED BY <1>0, <1>9, <1>s, <2>1, CallMoves DEF JobKilled, OtherTool, Goto
<1>10. ASSUME FileStep PROVE Commands'
  <2>1. CmdTypes' /\ cmd' = cmd /\ step \notin {"wait", "start"}
    BY <1>0, <1>10 DEF FileStep, gitVars, CmdTypes
  <2>2. CASE UNCHANGED callVars
    BY <2>1, <2>2, CallFrame DEF callVars
  <2>3. CASE Goto("post", "enter")
    BY <1>0, <1>s, <2>1, <2>3, CallMoves DEF Goto
  <2> QED BY <1>10, <2>2, <2>3 DEF FileStep
<1>11. ASSUME NEW asked \in Edits, StartFiles(asked) PROVE Commands'
  <2>1. CmdTypes' /\ cmd' = cmd /\ step \notin {"wait", "start"}
    BY <1>0, <1>11 DEF StartFiles, gitVars, CmdTypes
  <2>2. Goto("post", "enter") \/ Goto("run", "files")
    BY <1>11 DEF StartFiles
  <2> QED BY <1>0, <1>s, <2>1, <2>2, CallMoves DEF Goto
<1> QED BY <1>1, <1>2, <1>3, <1>4, <1>5, <1>6, <1>7, <1>8, <1>9, <1>10, <1>11 DEF CallStep

\* The hooks of the call beside: what they make of their own command, nobody else's.
SideStepOf(s) == SidePrepares(s) \/ SideStarts(s) \/ SideTimeUp(s) \/ SideEnds(s)

LEMMA SideCommand ==
    ASSUME CmdTypes, NEW s \in Sides, SideStepOf(s)
    PROVE  CmdTypes' /\ KeptBut(s)
<1>0. s \in Cmds
  BY FrontIsNoJob
<1>1. CASE SidePrepares(s)
  <2>1. TakeGuard(s) /\ cmd[s].state # "live"
    BY <1>1 DEF SidePrepares, Guarding
  <2> QED BY <1>0, <2>1, TakeGuardStep
<1>2. CASE SideStarts(s)
  <2>1. git' = git /\ users' = users /\ spoiled' = spoiled
    BY <1>2 DEF SideStarts, gitVars
  <2>2. /\ cmd' \in [Cmds -> CmdRecords] /\ KeptBut(s)
        /\ \A d \in Cmds : cmd'[d].procs # {} => cmd'[d].state = "live"
    <3>1. cmd' = Started(s) \/ cmd' = NotStarted(s)
      BY <1>2 DEF SideStarts
    <3> QED BY <1>0, <3>1, StartedStep, NotStartedStep
  <2> QED BY <2>1, <2>2 DEF CmdTypes
<1>3. CASE SideTimeUp(s)
  <2>1. git' = git /\ users' = users /\ spoiled' = spoiled /\ cmd' = KillGroup(s)
    BY <1>3 DEF SideTimeUp, gitVars
  <2>2. /\ cmd' \in [Cmds -> CmdRecords] /\ AllKept
        /\ \A d \in Cmds : cmd'[d].procs # {} => cmd'[d].state = "live"
    BY <1>0, <2>1, KillGroupStep
  <2> QED BY <2>1, <2>2 DEF CmdTypes, AllKept, KeptBut
<1>4. CASE SideEnds(s)
  BY <1>0, <1>4, EndsStep DEF SideEnds, OverNow
<1> QED BY <1>1, <1>2, <1>3, <1>4 DEF SideStepOf

LEMMA SideKeepsCommands ==
    ASSUME Commands, NEW s \in Sides, SideStepOf(s)
    PROVE  Commands'
<1>1. CmdTypes' /\ cmd'[Front].state = cmd[Front].state
  BY SideCommand, FrontIsNoJob DEF Commands, KeptBut
<1>2. stage' = stage /\ step' = step
  BY DEF SideStepOf, SidePrepares, SideStarts, SideTimeUp, SideEnds, callVars
<1> QED BY <1>1, <1>2, CallFrame

LEMMA KillVictimKeepsCommands ==
    ASSUME Commands, NEW j \in Jobs, KillVictim(j)
    PROVE  CmdTypes' /\ AllKept
<1>1. CASE cmd' = KillGroup(j)
  BY <1>1, FrontIsNoJob, KillGroupStep DEF KillVictim, gitVars, CmdTypes, Commands
<1>2. CASE UNCHANGED cmd
  BY <1>2 DEF KillVictim, gitVars, CmdTypes, AllKept, Commands
<1> QED BY <1>1, <1>2 DEF KillVictim

\* What neither runs a command nor writes to .git.
Quiet == UNCHANGED <<git, users, spoiled, cmd>>

LEMMA QuietFrame ==
    ASSUME Commands, Quiet, stage' = stage, step' = step
    PROVE  Commands'
<1>1. CmdTypes'
  BY DEF Commands, CmdTypes, Quiet
<1> QED BY <1>1, CallFrame DEF Quiet

\* The steps of the user and of killAll.
UserStep ==
    \/ \E t \in offered : Call(t)
    \/ \E allowed \in BOOLEAN : Ask(allowed)
    \/ UserUndo
    \/ \E path \in Paths \ Protected : OthersEdit(path, Missing)
    \/ \E for \in {"reset", "close"} : KillAll(for)
    \/ ResetDone \/ CloseDone

LEMMA NextCases ==
    Next <=> CommandStep \/ CallStep \/ SideStep \/ (\E j \in Jobs : KillVictim(j)) \/ UserStep
BY DEF Next, CloserStep, UserStep

LEMMA UserStepIsQuiet == UserStep => Quiet
BY DEF UserStep, Quiet, Call, Ask, UserUndo, OthersEdit, KillAll, ResetDone, CloseDone, gitVars

LEMMA UserStepKeepsCommands ==
    ASSUME Commands, UserStep
    PROVE  Commands'
<1>0. /\ Quiet
      /\ stage \in {"idle", "ask"} => cmd[Front].state \notin {"ready", "live"}
  BY UserStepIsQuiet DEF Commands, Unfinished
<1>1. CASE stage' = stage /\ step' = step
  BY <1>0, <1>1, QuietFrame
<1>2. CASE \E t \in offered : Call(t)
  <2>1. stage = "idle" /\ stage' = "pre" /\ step' = "enter"
    BY <1>2 DEF Call
  <2>2. CmdTypes' /\ "pre" \in Stages /\ "enter" \in CallSteps
    BY <1>0 DEF Quiet, Commands, CmdTypes, Stages, CallSteps
  <2> QED BY <1>0, <2>1, <2>2, CallMoves DEF Quiet
<1>3. CASE \E allowed \in BOOLEAN : Ask(allowed)
  <2>1. stage = "ask" /\ stage' \in {"run", "idle"} /\ step' = "enter"
    BY <1>3 DEF Ask, Goto, Return
  <2>2. CmdTypes' /\ "run" \in Stages /\ "idle" \in Stages /\ "enter" \in CallSteps
    BY <1>0 DEF Quiet, Commands, CmdTypes, Stages, CallSteps
  <2> QED BY <1>0, <2>1, <2>2, CallMoves DEF Quiet
<1> QED BY <1>1, <1>2, <1>3
        DEF UserStep, UserUndo, OthersEdit, KillAll, ResetDone, CloseDone, callVars

LEMMA CommandsNext == Commands /\ [Next]_vars => Commands'
<1> SUFFICES ASSUME Commands, [Next]_vars PROVE Commands'
  OBVIOUS
<1>1. ASSUME NEW j \in Jobs, KillVictim(j) PROVE Commands'
  BY <1>1, KillVictimKeepsCommands, FrontIsNoJob, CallFrame DEF KillVictim, callVars, AllKept
<1>2. CASE UNCHANGED vars
  BY <1>2, QuietFrame DEF vars, gitVars, callVars, Quiet
<1>3. ASSUME NEW s \in Sides, SideStepOf(s) PROVE Commands'
  BY <1>3, SideKeepsCommands
<1> QED BY <1>1, <1>2, <1>3, CommandStepKeepsCommands, CallStepKeepsCommands, UserStepKeepsCommands,
           NextCases DEF SideStep, SideStepOf

(***************************************************************************)
(* The jobs: each that runs is in the table, or still to be killed.        *)
(***************************************************************************)

JobTable ==
    /\ next \in 0..MaxStarted /\ before \in 0..next
    /\ table \subseteq 1..next /\ victims \subseteq 1..next
    /\ closer \in {"none", "reset", "close", "closed"}
    /\ closer \in {"none", "closed"} => victims = {}
    /\ closer = "reset" => stage = "idle" /\ table = {}
    /\ closer \in {"close", "closed"} => table \subseteq late
    /\ \A j \in table \cup victims : j > before \/ j \in late
    /\ \A j \in Jobs : Unfinished(j) => j \in table \cup victims
    /\ Running <= MaxJobs

\* Jobs may end, none begins.
NoneBegins == \A j \in Jobs : cmd'[j].state = "live" => cmd[j].state = "live"

LEMMA JobNumbers ==
    ASSUME JobTable
    PROVE  /\ next \in Nat /\ next <= MaxStarted /\ before \in Nat /\ before <= next
           /\ table \subseteq Jobs /\ victims \subseteq Jobs
           /\ IsFiniteSet(1..next) /\ IsFiniteSet(table)
           /\ Running \in Nat
<1>1. /\ MaxStarted \in Nat /\ next \in 0..MaxStarted /\ before \in 0..next
      /\ table \subseteq 1..next /\ victims \subseteq 1..next
  BY ToolAssumption DEF ToolAssumption, JobTable
<1>2. next \in Nat /\ next <= MaxStarted /\ before \in Nat /\ before <= next
  BY <1>1
<1>3. 1..next \subseteq Jobs
  BY <1>1 DEF Jobs
<1>4. IsFiniteSet(1..next)
  BY <1>2, FS_Interval
<1>5. IsFiniteSet(table)
  BY <1>1, <1>4, FS_Subset
<1>6. IsFiniteSet({j \in table : Unfinished(j)})
  BY <1>5, FS_Subset
<1> QED BY <1>1, <1>2, <1>3, <1>4, <1>5, <1>6, FS_CardinalityType DEF Running

LEMMA FewerRun ==
    ASSUME JobTable, NoneBegins, NEW T \in SUBSET table
    PROVE  Cardinality({j \in T : cmd'[j].state = "live"}) <= Running
<1>1. IsFiniteSet({j \in table : Unfinished(j)})
  BY JobNumbers, FS_Subset
<1>2. {j \in T : cmd'[j].state = "live"} \subseteq {j \in table : Unfinished(j)}
  BY JobNumbers DEF NoneBegins, Unfinished
<1> QED BY <1>1, <1>2, FS_Subset DEF Running

LEMMA RunningFits ==
    ASSUME JobTable, NoneBegins, table' \subseteq table
    PROVE  Running' <= MaxJobs
<1>1. Running' <= Running
  BY FewerRun DEF Running, Unfinished
<1>2. Running \in Nat /\ Running <= MaxJobs /\ MaxJobs \in Nat
  BY JobNumbers, ToolAssumption DEF JobTable, ToolAssumption
<1>3. Running' \in Nat
  <2>1. IsFiniteSet({j \in table' : cmd'[j].state = "live"})
    BY JobNumbers, FS_Subset
  <2> QED BY <2>1, FS_CardinalityType DEF Running, Unfinished
<1> QED BY <1>1, <1>2, <1>3

LEMMA JobFrame ==
    ASSUME JobTable, NoneBegins,
           UNCHANGED <<table, next, before, late, closer, victims>>,
           closer = "reset" => stage' = "idle"
    PROVE  JobTable'
<1>1. Running' <= MaxJobs
  BY RunningFits
<1> QED BY <1>1 DEF JobTable, NoneBegins, Unfinished

LEMMA JobTableInit == Init => JobTable
<1> SUFFICES ASSUME Init PROVE JobTable
  OBVIOUS
<1>1. /\ table = {} /\ victims = {} /\ next = 0 /\ before = 0 /\ closer = "none"
      /\ cmd = [c \in Cmds |-> NoCommand]
  BY DEF Init
<1>2. {j \in table : Unfinished(j)} = {}
  BY <1>1
<1>3. Running = 0
  BY <1>2, FS_EmptySet DEF Running
<1>4. \A j \in Jobs : ~Unfinished(j)
  BY <1>1, FrontIsNoJob, NoCommandType DEF Unfinished
<1>5. MaxStarted \in Nat /\ MaxJobs \in Nat /\ 0 <= MaxJobs /\ 0 \in 0..MaxStarted /\ 0 \in 0..0
  BY ToolAssumption DEF ToolAssumption
<1> QED BY <1>1, <1>3, <1>4, <1>5 DEF JobTable

LEMMA KeptJobsBegin ==
    ASSUME Commands, NEW c \in Cmds, KeptBut(c) \/ AllKept,
           cmd'[c].state # "live" \/ c \notin Jobs \/ AllKept
    PROVE  NoneBegins
BY FrontIsNoJob DEF KeptBut, AllKept, NoneBegins

LEMMA CommandStepKeepsJobTable ==
    ASSUME Commands, JobTable, CommandStep
    PROVE  JobTable'
<1>0. /\ CmdTypes
      /\ closer = "reset" => stage = "idle"
  BY DEF Commands, JobTable
<1>1. ASSUME NEW j \in Jobs, JobEnds(j) PROVE JobTable'
  <2>1. NoneBegins
    BY <1>0, <1>1, FrontIsNoJob, EndsStep, KeptJobsBegin DEF JobEnds, OverNow
  <2> QED BY <1>0, <1>1, <2>1, JobFrame DEF JobEnds, jobVars, callVars
<1>2. ASSUME NEW c \in Cmds, NEW x \in Processes, ProcessExits(c, x) PROVE JobTable'
  <2>1. NoneBegins
    BY <1>0, <1>2, FrontIsNoJob DEF ProcessExits, NoneBegins, CmdTypes, CmdRecords
  <2> QED BY <1>0, <1>2, <2>1, JobFrame DEF ProcessExits, jobVars, callVars
<1>3. ASSUME NEW c \in Cmds, NEW x \in Processes, Spawns(c, x) PROVE JobTable'
  <2>1. NoneBegins
    BY <1>0, <1>3, FrontIsNoJob DEF Spawns, NoneBegins, CmdTypes, CmdRecords
  <2> QED BY <1>0, <1>3, <2>1, JobFrame DEF Spawns, jobVars, callVars
<1>4. ASSUME NEW w \in Writes, NEW c \in Cmds, CommandWritesGit(c, w[1], w[2]) PROVE JobTable'
  BY <1>0, <1>4, JobFrame DEF CommandWritesGit, jobVars, callVars, NoneBegins
<1>5. ASSUME NEW path \in Watched, UserWritesGit(path) PROVE JobTable'
  BY <1>0, <1>5, JobFrame DEF UserWritesGit, jobVars, callVars, NoneBegins
<1> QED BY <1>1, <1>2, <1>3, <1>4, <1>5 DEF CommandStep

\* jobHub.start refuses once MaxJobs run.
LEMMA StartJobKeepsJobTable ==
    ASSUME Commands, JobTable, StartJob
    PROVE  JobTable'
<1> DEFINE j == next + 1
           running == {k \in table : Unfinished(k)}
<1>0. /\ CmdTypes /\ next \in Nat /\ before \in Nat /\ before <= next /\ j \in Jobs
      /\ j \in Nat /\ j > before /\ next <= j /\ MaxStarted \in Nat /\ 1 <= j
      /\ closer # "reset"
  BY JobNumbers, ToolAssumption, FrontIsNoJob DEF Commands, StartJob, JobTable, ToolAssumption
<1>1. /\ cmd'[j].state = "live"
      /\ \A k \in Jobs \ {j} : cmd'[k].state = cmd[k].state
  BY <1>0, StartJobStep, FrontIsNoJob
<1>2. /\ table' = table \cup {j} /\ next' = j /\ UNCHANGED <<before, closer, victims>>
      /\ late' = IF closer \in {"close", "closed"} THEN late \cup {j} ELSE late
      /\ Running < MaxJobs
  BY DEF StartJob
<1>3. j \in 0..MaxStarted /\ before \in 0..j /\ 1..next \subseteq 1..j /\ j \in 1..j
  BY <1>0 DEF Jobs
<1>4. Running' <= MaxJobs
  <2>1. IsFiniteSet(running)
    BY JobNumbers, FS_Subset
  <2>2. {k \in table' : cmd'[k].state = "live"} \subseteq running \cup {j}
    BY <1>1, <1>2, JobNumbers DEF Unfinished
  <2>3. /\ IsFiniteSet(running \cup {j})
        /\ Cardinality(running \cup {j}) <= Cardinality(running) + 1
    <3> HIDE DEF running, j
    <3>1. Cardinality(running) \in Nat
      BY <2>1, FS_CardinalityType
    <3>2. IsFiniteSet(running \cup {j})
          /\ (Cardinality(running \cup {j}) = Cardinality(running)
                \/ Cardinality(running \cup {j}) = Cardinality(running) + 1)
      BY <2>1, FS_AddElement
    <3> QED BY <3>1, <3>2
  <2>4. IsFiniteSet({k \in table' : cmd'[k].state = "live"})
        /\ Cardinality({k \in table' : cmd'[k].state = "live"}) <= Cardinality(running \cup {j})
    BY <2>2, <2>3, FS_Subset
  <2>5. /\ Cardinality({k \in table' : cmd'[k].state = "live"}) \in Nat
        /\ Cardinality(running \cup {j}) \in Nat /\ Cardinality(running) \in Nat
    BY <2>1, <2>3, <2>4, FS_CardinalityType
  <2>6. Running = Cardinality(running)
        /\ Running' = Cardinality({k \in table' : cmd'[k].state = "live"})
    BY DEF Running, Unfinished
  <2>7. MaxJobs \in Nat
    BY ToolAssumption DEF ToolAssumption
  <2> HIDE DEF running, j
  <2> QED BY <1>2, <2>3, <2>4, <2>5, <2>6, <2>7
<1>5. /\ table' \subseteq 1..next' /\ victims' \subseteq 1..next'
  BY <1>2, <1>3 DEF JobTable
<1>6. closer' \in {"close", "closed"} => table' \subseteq late'
  BY <1>2 DEF JobTable
<1>7. \A k \in table' \cup victims' : k > before' \/ k \in late'
  BY <1>0, <1>2 DEF JobTable
<1>8. \A k \in Jobs : Unfinished(k)' => k \in table' \cup victims'
  BY <1>1, <1>2 DEF JobTable, Unfinished
<1>9. /\ next' \in 0..MaxStarted /\ before' \in 0..next'
      /\ closer' \in {"none", "reset", "close", "closed"}
      /\ closer' \in {"none", "closed"} => victims' = {}
      /\ closer' # "reset"
  BY <1>0, <1>2, <1>3 DEF JobTable
<1> QED BY <1>4, <1>5, <1>6, <1>7, <1>8, <1>9 DEF JobTable

LEMMA CallStepKeepsJobTable ==
    ASSUME Commands, JobTable, CallStep
    PROVE  JobTable'
<1>0. /\ CmdTypes /\ Front \in Cmds
      /\ stage = "idle" => step \notin {"start", "wait", "files", "kill"}
      /\ closer = "reset" => stage = "idle"
  BY FrontIsNoJob DEF Commands, JobTable
<1>1. ASSUME NoHook \/ JobKilled \/ OtherTool PROVE JobTable'
  <2>1. stage # "idle" /\ NoneBegins
    BY <1>0, <1>1 DEF NoHook, JobKilled, OtherTool, NoneBegins
  <2> QED BY <1>0, <1>1, <2>1, JobFrame DEF NoHook, JobKilled, OtherTool, jobVars
<1>2. ASSUME Prepare PROVE JobTable'
  <2>1. stage # "idle" /\ step = "enter" /\ TakeGuard(Front)
    BY <1>2 DEF Prepare
  <2>2. cmd[Front].state # "live"
    BY <2>1 DEF Commands, Unfinished
  <2>3. NoneBegins
    BY <1>0, <2>1, <2>2, TakeGuardStep, KeptJobsBegin, FrontIsNoJob
  <2> QED BY <1>0, <1>2, <2>1, <2>3, JobFrame DEF Prepare, jobVars
<1>3. ASSUME StartCommand PROVE JobTable'
  <2>1. stage # "idle" /\ NoneBegins
    BY <1>0, <1>3, StartedStep, KeptJobsBegin, FrontIsNoJob DEF StartCommand
  <2> QED BY <1>0, <1>3, <2>1, JobFrame DEF StartCommand, jobVars
<1>4. ASSUME TimeUp PROVE JobTable'
  <2>1. stage # "idle" /\ NoneBegins
    BY <1>0, <1>4, KillGroupStep, KeptJobsBegin DEF TimeUp
  <2> QED BY <1>0, <1>4, <2>1, JobFrame DEF TimeUp, jobVars
<1>5. ASSUME CommandEnds PROVE JobTable'
  <2>1. stage # "idle" /\ NoneBegins
    BY <1>0, <1>5, EndsStep, KeptJobsBegin DEF CommandEnds, OverNow
  <2> QED BY <1>0, <1>5, <2>1, JobFrame DEF CommandEnds, jobVars
<1>6. ASSUME StartFails PROVE JobTable'
  <2>1. stage # "idle" /\ NoneBegins
    BY <1>0, <1>6, NotStartedStep, KeptJobsBegin DEF StartFails
  <2> QED BY <1>0, <1>6, <2>1, JobFrame DEF StartFails, jobVars
<1>7. ASSUME NEW j \in Jobs, KillJob(j) PROVE JobTable'
  <2>1. CASE cmd' = cmd
    BY <1>0, <1>7, <2>1, JobFrame DEF KillJob, jobVars, NoneBegins
  <2>2. CASE cmd' = KillGroup(j)
    <3>1. AllKept
      BY <1>0, <2>2, FrontIsNoJob, KillGroupStep
    <3>2. NoneBegins
      BY <3>1, FrontIsNoJob DEF AllKept, NoneBegins
    <3> QED BY <1>0, <1>7, <3>2, JobFrame DEF KillJob, jobVars
  <2> QED BY <1>7, <2>1, <2>2 DEF KillJob
<1>8. ASSUME FileStep PROVE JobTable'
  <2>1. stage # "idle" /\ NoneBegins
    BY <1>0, <1>8 DEF FileStep, NoneBegins
  <2> QED BY <1>0, <1>8, <2>1, JobFrame DEF FileStep, jobVars
<1>9. ASSUME NEW asked \in Edits, StartFiles(asked) PROVE JobTable'
  <2>1. stage # "idle" /\ NoneBegins
    BY <1>0, <1>9 DEF StartFiles, NoneBegins
  <2> QED BY <1>0, <1>9, <2>1, JobFrame DEF StartFiles, jobVars
<1> QED BY <1>1, <1>2, <1>3, <1>4, <1>5, <1>6, <1>7, <1>8, <1>9, StartJobKeepsJobTable DEF CallStep

\* killAll forgets a job only when it is over.
LEMMA KillVictimKeepsJobTable ==
    ASSUME Commands, JobTable, NEW j \in Jobs, KillVictim(j)
    PROVE  JobTable'
<1>0. CmdTypes
  BY DEF Commands
<1>1. /\ UNCHANGED <<table, next, before, late, closer>> /\ stage' = stage
      /\ victims' = victims \/ (victims' = victims \ {j} /\ ~Unfinished(j) /\ cmd' = cmd)
  BY DEF KillVictim, jobVars, callVars, Over
<1>2. NoneBegins
  BY FrontIsNoJob, KillVictimKeepsCommands, KeptJobsBegin
<1>3. CASE victims' = victims
  BY <1>1, <1>2, <1>3, JobFrame DEF JobTable
<1>4. CASE victims' = victims \ {j} /\ ~Unfinished(j) /\ cmd' = cmd
  <2>1. Running' <= MaxJobs
    BY <1>1, <1>2, RunningFits
  <2> QED BY <1>1, <1>4, <2>1 DEF JobTable, Unfinished
<1> QED BY <1>1, <1>3, <1>4

LEMMA UserStepKeepsJobTable ==
    ASSUME Commands, JobTable, UserStep
    PROVE  JobTable'
<1>0. cmd' = cmd /\ NoneBegins
  BY UserStepIsQuiet DEF Quiet, NoneBegins
<1>1. ASSUME NEW t \in offered, Call(t) PROVE JobTable'
  BY <1>0, <1>1, JobFrame DEF Call, jobVars
<1>2. ASSUME NEW allowed \in BOOLEAN, Ask(allowed) PROVE JobTable'
  BY <1>0, <1>2, JobFrame DEF Ask, jobVars, JobTable
<1>3. ASSUME UserUndo PROVE JobTable'
  BY <1>0, <1>3, JobFrame DEF UserUndo, jobVars, callVars, JobTable
<1>4. ASSUME NEW path \in Paths \ Protected, OthersEdit(path, Missing) PROVE JobTable'
  BY <1>0, <1>4, JobFrame DEF OthersEdit, jobVars, callVars, JobTable
<1>5. ASSUME NEW for \in {"reset", "close"}, KillAll(for) PROVE JobTable'
  <2>1. /\ closer = "none" /\ closer' = for /\ victims = {} /\ victims' = table /\ table' = {}
        /\ for = "reset" => stage = "idle"
        /\ UNCHANGED <<next, before, late, stage>>
    BY <1>5 DEF KillAll, EmptyTable, JobTable, callVars
  <2>2. Running' <= MaxJobs
    BY <1>0, <2>1, RunningFits
  <2> QED BY <1>0, <2>1, <2>2 DEF JobTable, Unfinished
<1>6. ASSUME ResetDone PROVE JobTable'
  <2>1. /\ closer = "reset" /\ closer' = "none" /\ victims = {} /\ table = {} /\ before' = next
        /\ UNCHANGED <<next, late, stage, victims, table>>
    BY <1>6 DEF ResetDone, JobTable, callVars
  <2>2. Running' <= MaxJobs /\ next \in 0..next
    BY <1>0, <2>1, RunningFits, JobNumbers
  <2> QED BY <1>0, <2>1, <2>2 DEF JobTable, Unfinished
<1>7. ASSUME CloseDone PROVE JobTable'
  <2>1. /\ closer = "close" /\ closer' = "closed" /\ victims = {} /\ before' = next
        /\ table \subseteq late
        /\ UNCHANGED <<next, late, stage, victims, table>>
    BY <1>7 DEF CloseDone, JobTable, callVars
  <2>2. Running' <= MaxJobs /\ next \in 0..next
    BY <1>0, <2>1, RunningFits, JobNumbers
  <2> QED BY <1>0, <2>1, <2>2 DEF JobTable, Unfinished
<1> QED BY <1>1, <1>2, <1>3, <1>4, <1>5, <1>6, <1>7 DEF UserStep

LEMMA SideKeepsJobTable ==
    ASSUME Commands, JobTable, NEW s \in Sides, SideStepOf(s)
    PROVE  JobTable'
<1>1. NoneBegins
  BY SideCommand, KeptJobsBegin, FrontIsNoJob DEF Commands
<1>2. UNCHANGED <<table, next, before, late, closer, victims>> /\ stage' = stage
  BY DEF SideStepOf, SidePrepares, SideStarts, SideTimeUp, SideEnds, jobVars, callVars
<1> QED BY <1>1, <1>2, JobFrame DEF JobTable

LEMMA JobTableNext == Commands /\ JobTable /\ [Next]_vars => JobTable'
<1> SUFFICES ASSUME Commands, JobTable, [Next]_vars PROVE JobTable'
  OBVIOUS
<1>1. CASE UNCHANGED vars
  BY <1>1, JobFrame DEF vars, jobVars, callVars, NoneBegins, JobTable
<1> QED BY <1>1, NextCases, CommandStepKeepsJobTable, CallStepKeepsJobTable,
           SideKeepsJobTable, KillVictimKeepsJobTable, UserStepKeepsJobTable DEF SideStep, SideStepOf

(***************************************************************************)
(* .git: at each path that is not spoiled, what a guard holds is what the   *)
(* user has left.                                                          *)
(***************************************************************************)

Agrees(dir) == \A path \in GitPaths \ spoiled : ~Exempt(path) => dir[path] = users[path]

GitInv ==
    /\ \A c \in Cmds : Guarding(c) => Agrees(cmd[c].guard)
    /\ GitIsTheUsers

\* .git and its history stand still, and no guard is taken.
LEMMA GitFrame ==
    ASSUME GitInv, UNCHANGED <<git, users, spoiled>>,
           \A c \in Cmds : Guarding(c)' => Guarding(c) /\ cmd'[c].guard = cmd[c].guard,
           (\A c \in Cmds : ~Unfinished(c)') => \A c \in Cmds : ~Unfinished(c)
    PROVE  GitInv'
<1>1. GitIsTheUsers'
  BY DEF GitInv, GitIsTheUsers, Dirty, Exempt
<1> QED BY <1>1 DEF GitInv, Agrees, Exempt

\* So do the commands.
LEMMA GitKept ==
    ASSUME GitInv, UNCHANGED <<git, users, spoiled>>, AllKept
    PROVE  GitInv'
BY GitFrame DEF AllKept, Guarding, Unfinished

\* A guard is taken: what it does not hold as the user left it is spoiled from now on.
LEMMA TakeGuardKeepsGit ==
    ASSUME CmdTypes, GitInv, NEW c \in Cmds, TakeGuard(c), ~Guarding(c)
    PROVE  GitInv'
<1>1. /\ cmd'[c].guard = Snapshot(git) /\ cmd'[c].state = "ready" /\ KeptBut(c)
      /\ git' = git /\ users' = users /\ spoiled' = spoiled \cup Dirty
  BY TakeGuardStep DEF TakeGuard, Guarding
<1>2. \A path : Exempt(path)' <=> Exempt(path)
  BY <1>1 DEF Exempt
<1>3. GitIsTheUsers'
  <2>1. \A d \in Cmds : Unfinished(d)' <=> Unfinished(d)
    BY <1>1 DEF KeptBut, Unfinished, Guarding
  <2>2. Dirty' = Dirty
    BY <1>1, <1>2 DEF Dirty
  <2> QED BY <1>1, <2>1, <2>2 DEF GitInv, GitIsTheUsers
<1>4. ASSUME NEW d \in Cmds, Guarding(d)' PROVE Agrees(cmd[d].guard)'
  <2>1. CASE d = c
    <3> SUFFICES ASSUME NEW path \in GitPaths \ spoiled', ~Exempt(path)
                 PROVE  Snapshot(git)[path] = users[path]
      BY <1>1, <1>2, <2>1 DEF Agrees
    <3>1. git[path] = users[path] /\ users[path] # "odd"
      BY <1>1 DEF Dirty, Exempt
    <3> QED BY <3>1 DEF Snapshot, Read
  <2>2. CASE d # c
    <3>1. Guarding(d) /\ cmd'[d].guard = cmd[d].guard
      BY <1>1, <1>4, <2>2 DEF Guarding, KeptBut
    <3>2. Agrees(cmd[d].guard)
      BY <3>1 DEF GitInv
    <3> QED BY <1>1, <1>2, <3>1, <3>2 DEF Agrees
  <2> QED BY <2>1, <2>2
<1> QED BY <1>3, <1>4 DEF GitInv

\* A command gets going, or cannot be started.
LEMMA StartKeepsGit ==
    ASSUME GitInv, CmdTypes, NEW c \in Cmds, cmd[c].state = "ready",
           cmd' = Started(c) \/ cmd' = NotStarted(c), UNCHANGED <<git, users, spoiled>>
    PROVE  GitInv'
<1>1. CASE cmd' = Started(c)
  <2>1. KeptBut(c) /\ cmd'[c].state = "live" /\ cmd'[c].guard = cmd[c].guard
    BY <1>1, StartedStep
  <2> QED BY <2>1, GitFrame DEF KeptBut, Guarding, Unfinished
<1>2. CASE cmd' = NotStarted(c)
  <2>1. KeptBut(c) /\ cmd'[c].state = "none"
    BY <1>2, NotStartedStep
  <2> QED BY <2>1, GitFrame DEF KeptBut, Guarding, Unfinished
<1> QED BY <1>1, <1>2

\* A command ends, and its guard is put back: what cannot be restored is spoiled.
LEMMA EndsKeepsGit ==
    ASSUME CmdTypes, GitInv, NEW c \in Cmds, Ends(c)
    PROVE  GitInv'
<1> DEFINE guard == cmd[c].guard
<1>0. Guarding(c) /\ users' = users /\ OverNow(c)
  BY EndsStep DEF Ends, Unfinished, Guarding
<1>1. PICK failed \in SUBSET Changed(git, guard) :
         \E gone \in SUBSET (failed \cap Links(git, guard)) :
            /\ git' = Reverted(git, guard, failed, gone)
            /\ spoiled' = spoiled \cup failed
  BY DEF Ends
<1>2. PICK gone \in SUBSET (failed \cap Links(git, guard)) : git' = Reverted(git, guard, failed, gone)
  BY <1>1
<1>3. \A path : Exempt(path)' <=> Exempt(path)
  BY <1>0 DEF Exempt
<1>4. Dirty' \subseteq spoiled'
  <2> SUFFICES ASSUME NEW path \in GitPaths, path \notin spoiled', ~Exempt(path)
               PROVE  git'[path] = users[path]
    BY <1>0, <1>3 DEF Dirty
  <2>1. path \notin spoiled /\ path \notin failed /\ path \notin gone
    BY <1>1, <1>2
  <2>2. git'[path] = Restored(path, git[path], guard[path])
    BY <1>2, <2>1 DEF Reverted
  <2>3. guard[path] = users[path]
    BY <1>0, <2>1 DEF GitInv, Agrees
  <2>4. /\ users[path] # "odd" /\ path \in Trees \cup Watched \cup Objects
        /\ path \in Objects => users[path] = "none"
    BY DEF Exempt, GitPaths
  <2> QED BY <2>2, <2>3, <2>4 DEF Restored, RestoredFile, RestoredObject
<1>5. ASSUME NEW d \in Cmds, Guarding(d)' PROVE Agrees(cmd[d].guard)'
  <2>1. Guarding(d) /\ cmd'[d].guard = cmd[d].guard
    BY <1>0, <1>5 DEF OverNow, KeptBut, Guarding
  <2>2. Agrees(cmd[d].guard)
    BY <2>1 DEF GitInv
  <2> QED BY <1>0, <1>1, <1>3, <2>1, <2>2 DEF Agrees
<1> QED BY <1>4, <1>5 DEF GitInv, GitIsTheUsers

LEMMA GitInit == Init => GitInv
<1> SUFFICES ASSUME Init PROVE GitInv
  OBVIOUS
<1>1. users = git /\ \A c \in Cmds : ~Guarding(c)
  BY NoCommandType DEF Init, Guarding
<1>2. Dirty = {}
  BY <1>1 DEF Dirty
<1> QED BY <1>1, <1>2 DEF GitInv, GitIsTheUsers

LEMMA CommandStepKeepsGit ==
    ASSUME Commands, GitInv, CommandStep
    PROVE  GitInv'
<1>0. CmdTypes /\ Front \in Cmds
  BY FrontIsNoJob DEF Commands
<1>1. ASSUME NEW j \in Jobs, JobEnds(j) PROVE GitInv'
  BY <1>0, <1>1, FrontIsNoJob, EndsKeepsGit DEF JobEnds
<1>2. ASSUME NEW c \in Cmds, NEW x \in Processes, ProcessExits(c, x) PROVE GitInv'
  <2>1. AllKept
    BY <1>0, <1>2 DEF ProcessExits, AllKept, CmdTypes, CmdRecords
  <2> QED BY <1>2, <2>1, GitKept DEF ProcessExits, gitVars
<1>3. ASSUME NEW c \in Cmds, NEW x \in Processes, Spawns(c, x) PROVE GitInv'
  <2>1. AllKept
    BY <1>0, <1>3 DEF Spawns, AllKept, CmdTypes, CmdRecords
  <2> QED BY <1>3, <2>1, GitKept DEF Spawns, gitVars
<1>4. ASSUME NEW w \in Writes, NEW c \in Cmds, CommandWritesGit(c, w[1], w[2]) PROVE GitInv'
  <2>1. Unfinished(c) /\ users' = users /\ spoiled' = spoiled /\ cmd' = cmd
    BY <1>0, <1>4 DEF CommandWritesGit, CmdTypes, Unfinished
  <2>2. GitIsTheUsers'
    BY <2>1 DEF GitIsTheUsers, Unfinished
  <2>3. \A d \in Cmds : Guarding(d)' => Agrees(cmd[d].guard)'
    BY <2>1 DEF GitInv, Guarding, Agrees, Exempt
  <2> QED BY <2>2, <2>3 DEF GitInv
<1>5. ASSUME NEW path \in Watched, UserWritesGit(path) PROVE GitInv'
  <2>1. /\ git' = [git EXCEPT ![path] = "users"] /\ users' = [users EXCEPT ![path] = "users"]
        /\ git \in GitDirs /\ users \in GitDirs /\ path \in GitPaths
        /\ cmd' = cmd
        /\ spoiled' = IF \E c \in Cmds : Guarding(c) THEN spoiled \cup {path} ELSE spoiled \ {path}
    BY <1>0, <1>5 DEF UserWritesGit, CmdTypes, GitPaths
  <2>2. \A p \in GitPaths \ {path} :
           git'[p] = git[p] /\ users'[p] = users[p] /\ (Exempt(p)' <=> Exempt(p))
    BY <2>1 DEF GitDirs, Exempt
  <2>3. git'[path] = users'[path]
    BY <2>1 DEF GitDirs
  <2>4. Dirty' \subseteq Dirty \ {path}
    BY <2>2, <2>3 DEF Dirty
  <2>5. \A c \in Cmds : (Guarding(c)' <=> Guarding(c)) /\ (Unfinished(c)' <=> Unfinished(c))
    BY <2>1 DEF Guarding, Unfinished
  <2>6. GitIsTheUsers'
    BY <2>1, <2>4, <2>5 DEF GitInv, GitIsTheUsers
  <2>7. ASSUME NEW c \in Cmds, Guarding(c)' PROVE Agrees(cmd[c].guard)'
    <3>1. spoiled' = spoiled \cup {path} /\ Agrees(cmd[c].guard)
      BY <2>1, <2>5, <2>7 DEF GitInv
    <3> QED BY <2>1, <2>2, <3>1 DEF Agrees
  <2> QED BY <2>6, <2>7 DEF GitInv
<1> QED BY <1>1, <1>2, <1>3, <1>4, <1>5 DEF CommandStep

LEMMA CallStepKeepsGit ==
    ASSUME Commands, GitInv, CallStep
    PROVE  GitInv'
<1>0. /\ CmdTypes /\ Front \in Cmds /\ Front \notin Jobs /\ Jobs \subseteq Cmds
      /\ step = "start" => cmd[Front].state = "ready"
      /\ step = "enter" => ~Guarding(Front)
  BY FrontIsNoJob DEF Commands, Guarding, Unfinished, CmdTypes, CmdRecords
<1>1. ASSUME NoHook \/ JobKilled \/ OtherTool PROVE GitInv'
  <2>1. AllKept /\ UNCHANGED <<git, users, spoiled>>
    BY <1>1 DEF NoHook, JobKilled, OtherTool, AllKept, gitVars
  <2> QED BY <2>1, GitKept
<1>2. ASSUME Prepare PROVE GitInv'
  BY <1>0, <1>2, TakeGuardKeepsGit DEF Prepare
<1>3. ASSUME StartCommand PROVE GitInv'
  BY <1>0, <1>3, StartKeepsGit DEF StartCommand, gitVars
<1>4. ASSUME TimeUp PROVE GitInv'
  <2>1. AllKept
    BY <1>0, <1>4, KillGroupStep DEF TimeUp
  <2> QED BY <1>4, <2>1, GitKept DEF TimeUp, gitVars
<1>5. ASSUME CommandEnds PROVE GitInv'
  BY <1>0, <1>5, EndsKeepsGit DEF CommandEnds
<1>6. ASSUME StartFails PROVE GitInv'
  BY <1>0, <1>6, StartKeepsGit DEF StartFails, gitVars
<1>7. ASSUME StartJob PROVE GitInv'
  <2> DEFINE j == next + 1
  <2>1. /\ j \in Jobs /\ j \in Cmds /\ j # Front
        /\ cmd'[j].state = "live" /\ cmd'[j].guard = cmd[Front].guard
        /\ cmd'[Front].state = "none"
        /\ \A d \in Cmds \ {j, Front} : cmd'[d].state = cmd[d].state /\ cmd'[d].guard = cmd[d].guard
    BY <1>0, <1>7, StartJobStep
  <2>2. cmd[Front].state = "ready" /\ UNCHANGED <<git, users, spoiled>>
    BY <1>0, <1>7 DEF StartJob, gitVars
  <2> HIDE DEF j
  <2>3. GitIsTheUsers'
    BY <2>1 DEF GitIsTheUsers, Unfinished
  <2>4. ASSUME NEW c \in Cmds, Guarding(c)' PROVE Agrees(cmd[c].guard)'
    <3>1. c # Front
      BY <2>1, <2>4 DEF Guarding
    <3>2. CASE c = j
      <4>1. Agrees(cmd[Front].guard)
        BY <1>0, <2>2 DEF GitInv, Guarding
      <4> QED BY <2>1, <2>2, <3>2, <4>1 DEF Agrees, Exempt
    <3>3. CASE c # j
      <4>1. Guarding(c) /\ cmd'[c].guard = cmd[c].guard
        BY <2>1, <2>4, <3>1, <3>3 DEF Guarding
      <4>2. Agrees(cmd[c].guard)
        BY <4>1 DEF GitInv
      <4> QED BY <2>2, <4>1, <4>2 DEF Agrees, Exempt
    <3> QED BY <3>2, <3>3
  <2> QED BY <2>3, <2>4 DEF GitInv
<1>8. ASSUME NEW j \in Jobs, KillJob(j) PROVE GitInv'
  <2>1. AllKept
    <3>1. CASE cmd' = cmd
      BY <3>1 DEF AllKept
    <3>2. CASE cmd' = KillGroup(j)
      BY <1>0, <3>2, KillGroupStep
    <3> QED BY <1>8, <3>1, <3>2 DEF KillJob
  <2> QED BY <1>8, <2>1, GitKept DEF KillJob, gitVars
<1>9. ASSUME FileStep PROVE GitInv'
  BY <1>9, GitKept DEF FileStep, AllKept, gitVars
<1>10. ASSUME NEW asked \in Edits, StartFiles(asked) PROVE GitInv'
  BY <1>10, GitKept DEF StartFiles, AllKept, gitVars
<1> QED BY <1>1, <1>2, <1>3, <1>4, <1>5, <1>6, <1>7, <1>8, <1>9, <1>10 DEF CallStep

LEMMA SideKeepsGit ==
    ASSUME Commands, GitInv, NEW s \in Sides, SideStepOf(s)
    PROVE  GitInv'
<1>0. CmdTypes /\ s \in Cmds
  BY FrontIsNoJob DEF Commands
<1>1. CASE SidePrepares(s)
  BY <1>0, <1>1, TakeGuardKeepsGit DEF SidePrepares
<1>2. CASE SideStarts(s)
  BY <1>0, <1>2, StartKeepsGit DEF SideStarts, gitVars
<1>3. CASE SideTimeUp(s)
  <2>1. AllKept
    BY <1>0, <1>3, KillGroupStep DEF SideTimeUp
  <2> QED BY <1>3, <2>1, GitKept DEF SideTimeUp, gitVars
<1>4. CASE SideEnds(s)
  BY <1>0, <1>4, EndsKeepsGit DEF SideEnds
<1> QED BY <1>1, <1>2, <1>3, <1>4 DEF SideStepOf

LEMMA GitNext == Commands /\ GitInv /\ [Next]_vars => GitInv'
<1> SUFFICES ASSUME Commands, GitInv, [Next]_vars PROVE GitInv'
  OBVIOUS
<1>1. ASSUME NEW j \in Jobs, KillVictim(j) PROVE GitInv'
  BY <1>1, KillVictimKeepsCommands, GitKept DEF KillVictim, gitVars
<1>2. ASSUME UserStep PROVE GitInv'
  BY <1>2, UserStepIsQuiet, GitKept DEF Quiet, AllKept
<1>3. CASE UNCHANGED vars
  BY <1>3, GitKept DEF vars, gitVars, AllKept
<1> QED BY <1>1, <1>2, <1>3, NextCases, CommandStepKeepsGit, CallStepKeepsGit, SideKeepsGit
        DEF SideStep, SideStepOf

(***************************************************************************)
(* The files and the stack of snapshots.                                   *)
(***************************************************************************)

IsSequence(s) == \E S : s \in Seq(S)

\* What remains of seq after d of its elements have been dropped, with elt at the end.
Shifted(new, seq, elt, d) ==
    /\ IsSequence(new) /\ Len(new) = (Len(seq) - d) + 1
    /\ \A i \in 1..(Len(seq) - d) : new[i] = seq[i + d]
    /\ new[Len(new)] = elt

LEMMA LengthOf == \A s : IsSequence(s) => Len(s) \in Nat
BY LenProperties DEF IsSequence

\* remember drops the oldest snapshot when the stack is full.
LEMMA Remembered ==
    ASSUME NEW seq, IsSequence(seq), Len(seq) <= UndoCap, NEW path, NEW elt
    PROVE  LET r == Remember(path, seq, elt)
               d == IF Len(seq) = UndoCap THEN 1 ELSE 0
           IN  Shifted(r, seq, elt, d) /\ Len(r) <= UndoCap
<1> DEFINE long == Append(seq, elt)
           n == Len(seq)
<1>0. UndoCap \in Nat /\ UndoCap >= 1 /\ n \in Nat /\ n <= UndoCap
  BY FileAssumption, LengthOf DEF FileAssumption
<1>1. PICK S : seq \in Seq(S)
  BY DEF IsSequence
<1>2. seq \in Seq(S \cup {elt}) /\ elt \in S \cup {elt}
  BY <1>1, SeqMonotonic
<1>3. /\ long \in Seq(S \cup {elt}) /\ Len(long) = n + 1
      /\ \A i \in 1..n : long[i] = seq[i]
      /\ long[n + 1] = elt
  BY <1>2, AppendProperties
<1>4. CASE n = UndoCap
  <2>1. Remember(path, seq, elt) = SubSeq(long, ((n + 1) - UndoCap) + 1, n + 1)
    BY <1>0, <1>3, <1>4 DEF Remember, LastOf
  <2>2. Remember(path, seq, elt) = SubSeq(long, 2, n + 1)
    BY <1>0, <1>4, <2>1
  <2>3. \A i \in 2..(n + 1) : long[i] \in S \cup {elt}
    BY <1>0, <1>3, LenProperties
  <2>4. /\ SubSeq(long, 2, n + 1) \in Seq(S \cup {elt})
        /\ Len(SubSeq(long, 2, n + 1)) = n
        /\ \A i \in 1..n : SubSeq(long, 2, n + 1)[i] = long[i + 1]
    <3>0. 2 \in Int /\ n + 1 \in Int /\ 2 <= n + 1 /\ ((n + 1) - 2) + 1 = n
      BY <1>0, <1>4
    <3>1. /\ SubSeq(long, 2, n + 1) \in Seq(S \cup {elt})
          /\ Len(SubSeq(long, 2, n + 1)) = ((n + 1) - 2) + 1
          /\ \A i \in 1..(((n + 1) - 2) + 1) : SubSeq(long, 2, n + 1)[i] = long[(2 + i) - 1]
      <4> HIDE DEF n, long
      <4> QED BY <2>3, <3>0, SubSeqProperties
    <3>2. \A i \in 1..n : (2 + i) - 1 = i + 1
      BY <1>0
    <3> HIDE DEF n, long
    <3> QED BY <3>0, <3>1, <3>2
  <2> HIDE DEF long
  <2>5. \A i \in 1..(n - 1) : SubSeq(long, 2, n + 1)[i] = seq[i + 1]
    BY <1>0, <1>3, <2>4
  <2>6. SubSeq(long, 2, n + 1)[n] = elt
    BY <1>0, <1>3, <1>4, <2>4
  <2>7. Shifted(SubSeq(long, 2, n + 1), seq, elt, 1)
    <3>1. (n - 1) + 1 = n
      BY <1>0
    <3>2. /\ Len(SubSeq(long, 2, n + 1)) = (Len(seq) - 1) + 1
          /\ SubSeq(long, 2, n + 1)[Len(SubSeq(long, 2, n + 1))] = elt
      BY <2>4, <2>6, <3>1
    <3>3. IsSequence(SubSeq(long, 2, n + 1))
      BY <2>4 DEF IsSequence
    <3> QED BY <2>5, <3>2, <3>3 DEF Shifted
  <2> QED BY <1>0, <1>4, <2>2, <2>4, <2>7
<1>5. CASE n # UndoCap
  <2>1. Remember(path, seq, elt) = long
    BY <1>0, <1>3, <1>5 DEF Remember, LastOf
  <2>2. n + 1 <= UndoCap
    BY <1>0, <1>5
  <2> HIDE DEF long
  <2>3. Shifted(long, seq, elt, 0)
    <3>1. n - 0 = n /\ \A i \in 1..n : i + 0 = i
      BY <1>0
    <3>2. Len(long) = (Len(seq) - 0) + 1 /\ long[Len(long)] = elt
      BY <1>3, <3>1
    <3>3. \A i \in 1..(Len(seq) - 0) : long[i] = seq[i + 0]
      BY <1>3, <3>1
    <3> QED BY <1>3, <3>2, <3>3 DEF Shifted, IsSequence
  <2> QED BY <1>3, <1>5, <2>1, <2>2, <2>3
<1> QED BY <1>4, <1>5

LEMMA Popped ==
    ASSUME NEW seq, IsSequence(seq), Len(seq) > 0
    PROVE  /\ IsSequence(Pop(seq)) /\ Len(Pop(seq)) = Len(seq) - 1
           /\ \A i \in 1..(Len(seq) - 1) : Pop(seq)[i] = seq[i]
<1> DEFINE n == Len(seq)
<1>0. n \in Nat /\ n >= 1
  BY LengthOf
<1>1. PICK S : seq \in Seq(S)
  BY DEF IsSequence
<1>2. \A i \in 1..(n - 1) : seq[i] \in S
  BY <1>0, <1>1, LenProperties
<1>3. 1 \in Int /\ n - 1 \in Int /\ ((n - 1) - 1) + 1 = n - 1 /\ (1 > n - 1 => n - 1 = 0)
  <2> HIDE DEF n
  <2> QED BY <1>0
<1>4. /\ SubSeq(seq, 1, n - 1) \in Seq(S)
      /\ Len(SubSeq(seq, 1, n - 1)) = IF 1 <= n - 1 THEN ((n - 1) - 1) + 1 ELSE 0
      /\ \A i \in 1..(((n - 1) - 1) + 1) : SubSeq(seq, 1, n - 1)[i] = seq[(1 + i) - 1]
  <2> HIDE DEF n
  <2> QED BY <1>2, <1>3, SubSeqProperties
<1>5. \A i \in 1..(n - 1) : (1 + i) - 1 = i
  BY <1>0
<1>6. /\ SubSeq(seq, 1, n - 1) \in Seq(S) /\ Len(SubSeq(seq, 1, n - 1)) = n - 1
      /\ \A i \in 1..(n - 1) : SubSeq(seq, 1, n - 1)[i] = seq[i]
  <2> HIDE DEF n
  <2>1. Len(SubSeq(seq, 1, n - 1)) = n - 1
    BY <1>0, <1>3, <1>4
  <2>2. \A i \in 1..(n - 1) : SubSeq(seq, 1, n - 1)[i] = seq[i]
    BY <1>3, <1>4, <1>5
  <2> QED BY <1>4, <2>1, <2>2
<1>7. Pop(seq) = SubSeq(seq, 1, n - 1)
  BY DEF Pop
<1>8. IsSequence(SubSeq(seq, 1, n - 1))
  BY <1>6 DEF IsSequence
<1> QED BY <1>6, <1>7, <1>8

\* Going back through s from now on, path first shows what it was: now, if s does not
\* have it, or what the first snapshot of it tells.
Recalls(s, n, path, now, was) ==
    /\ (\A i \in n..Len(s) : s[i].path # path) => now = was
    /\ \A i \in n..Len(s) :
          s[i].path = path /\ (\A k \in n..(i - 1) : s[k].path # path) => s[i].was = was

FileInv ==
    /\ DOMAIN files = Paths
    /\ IsSequence(snaps) /\ IsSequence(past) /\ Len(past) = Len(snaps)
    /\ Len(snaps) <= UndoCap
    /\ \A n \in 1..Len(snaps) : \A path \in Paths \ touched :
          Recalls(snaps, n, path, files[path], past[n][path])

LEMMA FileInitInv == FileInit => FileInv
<1> SUFFICES ASSUME FileInit PROVE FileInv
  OBVIOUS
<1>1. snaps = <<>> /\ past = <<>> /\ Len(<<>>) = 0 /\ <<>> \in Seq({})
  BY EmptySeq DEF FileInit
<1>2. IsSequence(snaps) /\ IsSequence(past)
  BY <1>1 DEF IsSequence
<1>3. DOMAIN files = Paths /\ 0 <= UndoCap /\ 1..0 = {}
  BY FileAssumption DEF FileInit, FileAssumption
<1> QED BY <1>1, <1>2, <1>3 DEF FileInv

\* An operation takes its snapshot, and changes its path or not.
LEMMA SnapshotKeepsFiles ==
    ASSUME FileInv, NEW p, TakeSnapshot(p), NEW now,
           files' = files \/ files' = [files EXCEPT ![p] = now]
    PROVE  FileInv'
<1>a. PICK seen : /\ snaps' = Remember(p, snaps, [path |-> p, was |-> seen])
                  /\ touched' = IF seen = files[p] THEN touched ELSE touched \cup {p}
  BY DEF TakeSnapshot
<1> DEFINE L == Len(snaps)
           d == IF L = UndoCap THEN 1 ELSE 0
           item == [path |-> p, was |-> seen]
<1>0. L \in Nat /\ d \in {0, 1} /\ L <= UndoCap /\ UndoCap \in Nat /\ UndoCap >= 1
      /\ L - d \in Nat
  BY LengthOf, FileAssumption DEF FileInv, FileAssumption
<1>1. Shifted(snaps', snaps, item, d) /\ Len(snaps') <= UndoCap
  BY <1>a, Remembered DEF FileInv
<1>2. Shifted(past', past, files, d) /\ Len(past') <= UndoCap
  BY Remembered DEF FileInv, TakeSnapshot
<1>3. Len(past) = L
  BY DEF FileInv
<1>4. /\ IsSequence(snaps') /\ IsSequence(past')
      /\ Len(snaps') = (L - d) + 1 /\ Len(past') = (L - d) + 1
      /\ \A i \in 1..(L - d) : snaps'[i] = snaps[i + d] /\ past'[i] = past[i + d]
      /\ snaps'[(L - d) + 1] = item /\ past'[(L - d) + 1] = files
  BY <1>1, <1>2, <1>3 DEF Shifted
<1>5. DOMAIN files' = Paths /\ \A path \in Paths \ {p} : files'[path] = files[path]
  BY DEF FileInv
<1>b. touched \subseteq touched' /\ (p \notin touched' => item.was = files[p])
  BY <1>a
<1> HIDE DEF L, d, item
<1>6. ASSUME NEW n \in 1..((L - d) + 1), NEW path \in Paths \ touched'
      PROVE  Recalls(snaps', n, path, files'[path], past'[n][path])
  <2>0. \A k \in n..(L - d) : k \in 1..(L - d) /\ k + d \in (n + d)..L
    BY <1>0, <1>6
  <2>1. CASE n = (L - d) + 1
    <3>1. item.path = p /\ (path = p => item.was = files[p]) /\ past'[n] = files
      BY <1>4, <1>6, <1>b, <2>1 DEF item
    <3>2. ASSUME NEW i \in n..((L - d) + 1)
          PROVE  i = n /\ snaps'[i] = item
      BY <1>0, <1>4, <1>6, <2>1, <3>2
    <3>3. n \in n..((L - d) + 1) /\ snaps'[n] = item
      BY <1>0, <1>4, <2>1
    <3>4. (\A i \in n..((L - d) + 1) : snaps'[i].path # path) => files'[path] = files[path]
      BY <1>5, <1>6, <3>1, <3>3
    <3> QED BY <1>4, <3>1, <3>2, <3>4 DEF Recalls
  <2>2. CASE n # (L - d) + 1
    <3>0. n \in 1..(L - d) /\ n + d \in 1..L /\ (L - d) + 1 \in n..((L - d) + 1)
          /\ n..((L - d) + 1) = (n..(L - d)) \cup {(L - d) + 1}
          /\ n..(((L - d) + 1) - 1) = n..(L - d)
      BY <1>0, <1>6, <2>2
    <3>1. past'[n] = past[n + d]
      BY <1>4, <3>0
    <3>2. Recalls(snaps, n + d, path, files[path], past'[n][path])
      <4>1. Recalls(snaps, n + d, path, files[path], past[n + d][path])
        BY <1>6, <1>b, <3>0 DEF FileInv, L
      <4> QED BY <3>1, <4>1
    <3>3. \A k \in n..(L - d) : snaps'[k] = snaps[k + d]
      BY <1>4, <2>0
    <3>4. ASSUME \A k \in n..(L - d) : snaps'[k].path # path
          PROVE  files[path] = past'[n][path]
      <4>1. \A i \in (n + d)..L : i - d \in n..(L - d) /\ (i - d) + d = i
        BY <1>0, <3>0
      <4>2. \A i \in (n + d)..L : snaps[i].path # path
        BY <3>3, <3>4, <4>1
      <4> QED BY <3>2, <4>2 DEF Recalls, L
    <3>5. ASSUME \A i \in n..((L - d) + 1) : snaps'[i].path # path
          PROVE  files'[path] = past'[n][path]
      <4>1. path # p
        BY <1>4, <3>0, <3>5 DEF item
      <4>2. files'[path] = files[path]
        BY <1>5, <1>6, <4>1
      <4> QED BY <3>0, <3>4, <3>5, <4>2
    <3>6. ASSUME NEW i \in n..((L - d) + 1), snaps'[i].path = path,
                 \A k \in n..(i - 1) : snaps'[k].path # path
          PROVE  snaps'[i].was = past'[n][path]
      <4>1. CASE i = (L - d) + 1
        <5>1. path = p /\ snaps'[i].was = files[p]
          <6>1. item.path = path
            BY <1>4, <3>6, <4>1
          <6>2. path = p
            BY <6>1 DEF item
          <6> QED BY <1>4, <1>6, <1>b, <4>1, <6>2
        <5>2. \A k \in n..(L - d) : snaps'[k].path # path
          BY <3>0, <3>6, <4>1
        <5> QED BY <3>4, <5>1, <5>2
      <4>2. CASE i # (L - d) + 1
        <5>1. i \in n..(L - d)
          BY <3>0, <3>6, <4>2
        <5>2. /\ i + d \in (n + d)..L
              /\ \A k \in (n + d)..((i + d) - 1) : k - d \in n..(i - 1) /\ k - d \in n..(L - d)
                                                   /\ (k - d) + d = k
          BY <1>0, <3>0, <5>1
        <5>3. \A k \in (n + d)..((i + d) - 1) : snaps[k].path # path
          BY <3>3, <3>6, <5>2
        <5>4. snaps[i + d] = snaps'[i]
          BY <3>3, <5>1
        <5> QED BY <3>2, <3>6, <5>2, <5>3, <5>4 DEF Recalls, L
      <4> QED BY <4>1, <4>2
    <3> QED BY <1>4, <3>5, <3>6 DEF Recalls
  <2> QED BY <2>1, <2>2
<1>7. Len(snaps') <= UndoCap
  BY <1>1
<1> QED BY <1>4, <1>5, <1>6, <1>7 DEF FileInv

\* The snapshot leaves the stack, and its file is written back, or touched.
LEMMA PopKeepsFiles ==
    ASSUME FileInv, snaps # <<>>, snaps' = Pop(snaps), past' = Pop(past),
           \/ files' = [files EXCEPT ![Top.path] = Top.was] /\ touched' = touched
           \/ files' = files /\ touched' = touched \cup {Top.path}
    PROVE  FileInv'
<1> DEFINE L == Len(snaps)
<1>0. L \in Nat /\ L >= 1 /\ L - 1 \in Nat /\ L <= UndoCap /\ L - 1 <= UndoCap /\ L > 0
      /\ Len(past) = L
  <2>1. PICK S : snaps \in Seq(S)
    BY DEF FileInv, IsSequence
  <2>2. L \in Nat \ {0}
    BY <2>1, EmptySeq
  <2>3. UndoCap \in Nat
    BY FileAssumption DEF FileAssumption
  <2> QED BY <2>2, <2>3 DEF FileInv
<1>1. /\ IsSequence(snaps') /\ IsSequence(past') /\ Len(snaps') = L - 1 /\ Len(past') = L - 1
      /\ \A i \in 1..(L - 1) : snaps'[i] = snaps[i] /\ past'[i] = past[i]
  BY <1>0, Popped DEF FileInv
<1>2. DOMAIN files' = Paths
  BY DEF FileInv
<1>3. Top = snaps[L]
  BY DEF Top
<1> HIDE DEF L
<1>4. ASSUME NEW n \in 1..(L - 1), NEW path \in Paths \ touched'
      PROVE  Recalls(snaps', n, path, files'[path], past'[n][path])
  <2>0. /\ path \in Paths \ touched /\ n \in 1..L /\ L \in n..L
        /\ n..L = (n..(L - 1)) \cup {L}
        /\ \A i \in n..(L - 1) : i \in 1..(L - 1) /\ n..(i - 1) \subseteq n..(L - 1)
    BY <1>0, <1>4
  <2>1. Recalls(snaps, n, path, files[path], past[n][path]) /\ past'[n] = past[n]
    BY <1>1, <1>4, <2>0 DEF FileInv, L
  <2>2. \A i \in n..(L - 1) : snaps'[i] = snaps[i]
    BY <1>1, <2>0
  <2>3. ASSUME \A i \in n..(L - 1) : snaps'[i].path # path
        PROVE  files'[path] = past[n][path]
    <3>1. \A i \in n..(L - 1) : snaps[i].path # path
      BY <2>2, <2>3
    <3>2. CASE snaps[L].path = path
      <4>1. files'[path] = snaps[L].was
        BY <1>3, <1>4, <3>2 DEF FileInv
      <4> QED BY <2>0, <2>1, <3>1, <3>2, <4>1 DEF Recalls, L
    <3>3. CASE snaps[L].path # path
      <4>1. files'[path] = files[path]
        BY <1>3, <1>4, <3>3 DEF FileInv
      <4>2. \A i \in n..L : snaps[i].path # path
        BY <2>0, <3>1, <3>3
      <4> QED BY <2>1, <4>1, <4>2 DEF Recalls, L
    <3> QED BY <3>2, <3>3
  <2>4. ASSUME NEW i \in n..(L - 1), snaps'[i].path = path,
               \A k \in n..(i - 1) : snaps'[k].path # path
        PROVE  snaps'[i].was = past[n][path]
    <3>1. snaps'[i] = snaps[i] /\ i \in n..L
      BY <2>0, <2>2
    <3>2. \A k \in n..(i - 1) : snaps[k].path # path
      BY <2>0, <2>2, <2>4
    <3> QED BY <2>1, <2>4, <3>1, <3>2 DEF Recalls, L
  <2> QED BY <1>1, <2>1, <2>3, <2>4 DEF Recalls
<1> QED BY <1>0, <1>1, <1>2, <1>4 DEF FileInv

LEMMA OutsideEditKeepsFiles ==
    ASSUME FileInv, NEW p, NEW lines, OutsideEdit(p, lines)
    PROVE  FileInv'
<1>1. /\ snaps' = snaps /\ past' = past /\ touched' = touched \cup {p}
      /\ files' = [files EXCEPT ![p] = lines]
  BY DEF OutsideEdit
<1>2. DOMAIN files' = Paths /\ \A path \in Paths \ touched' : files'[path] = files[path]
  BY <1>1 DEF FileInv
<1> QED BY <1>1, <1>2 DEF FileInv

LEMMA ClearKeepsFiles ==
    ASSUME FileInv, ClearEdits, files' = files
    PROVE  FileInv'
<1>1. Len(<<>>) = 0 /\ <<>> \in Seq({}) /\ 1..0 = {}
  BY EmptySeq
<1>2. IsSequence(<<>>)
  BY <1>1 DEF IsSequence
<1>3. 0 <= UndoCap
  BY FileAssumption DEF FileAssumption
<1> QED BY <1>1, <1>2, <1>3 DEF FileInv, ClearEdits

LEMMA FilesFrame ==
    ASSUME FileInv, UNCHANGED <<files, snaps, past, touched>>
    PROVE  FileInv'
BY DEF FileInv

LEMMA FileInvNext == Commands /\ FileInv /\ [Next]_vars => FileInv'
<1> SUFFICES ASSUME Commands, FileInv, [Next]_vars PROVE FileInv'
  OBVIOUS
<1>1. CASE UNCHANGED fileVars
  BY <1>1, FilesFrame DEF fileVars
<1>2. CASE UNCHANGED vars
  BY <1>1, <1>2 DEF vars
<1>3. ASSUME CommandStep PROVE UNCHANGED fileVars
  BY <1>3 DEF CommandStep, JobEnds, ProcessExits, Spawns, CommandWritesGit, UserWritesGit
<1>4. ASSUME FileStep PROVE FileInv'
  <2>1. CASE OpRefused
    BY <2>1, FilesFrame DEF OpRefused
  <2>2. CASE OpFails
    BY <2>2, SnapshotKeepsFiles DEF OpFails
  <2>3. CASE OpDone
    BY <2>3, SnapshotKeepsFiles DEF OpDone
  <2> QED BY <1>1, <1>4, <2>1, <2>2, <2>3 DEF FileStep
<1>5. ASSUME NEW asked \in Edits, StartFiles(asked) PROVE FileInv'
  BY <1>5, FilesFrame DEF StartFiles
<1>6. ASSUME CallStep PROVE FileInv'
  <2>1. ASSUME NoHook \/ Prepare \/ StartCommand \/ TimeUp \/ CommandEnds \/ StartFails
                 \/ StartJob \/ (\E j \in Jobs : KillJob(j)) \/ JobKilled \/ OtherTool
        PROVE  UNCHANGED fileVars
    BY <2>1 DEF NoHook, Prepare, StartCommand, TimeUp, CommandEnds, StartFails, StartJob,
                KillJob, JobKilled, OtherTool
  <2> QED BY <1>1, <1>4, <1>5, <1>6, <2>1 DEF CallStep
<1>7. ASSUME SideStep \/ \E j \in Jobs : KillVictim(j) PROVE UNCHANGED fileVars
  BY <1>7 DEF KillVictim, SideStep, SidePrepares, SideStarts, SideTimeUp, SideEnds
<1>8. ASSUME UserUndo PROVE FileInv'
  <2>1. CASE Undo
    BY <2>1, PopKeepsFiles DEF Undo
  <2>2. CASE UndoFails
    BY <2>2, PopKeepsFiles DEF UndoFails
  <2> QED BY <1>8, <2>1, <2>2 DEF UserUndo
<1>9. ASSUME NEW path \in Paths \ Protected, OthersEdit(path, Missing) PROVE FileInv'
  BY <1>9, OutsideEditKeepsFiles DEF OthersEdit
<1>10. ASSUME ResetDone PROVE FileInv'
  BY <1>10, ClearKeepsFiles DEF ResetDone
<1>11. ASSUME UserStep PROVE FileInv'
  <2>1. ASSUME \/ \E t \in offered : Call(t)
               \/ \E allowed \in BOOLEAN : Ask(allowed)
               \/ \E for \in {"reset", "close"} : KillAll(for)
               \/ CloseDone
        PROVE  UNCHANGED fileVars
    BY <2>1 DEF Call, Ask, KillAll, CloseDone
  <2> QED BY <1>1, <1>8, <1>9, <1>10, <1>11, <2>1 DEF UserStep
<1> QED BY <1>1, <1>2, <1>3, <1>6, <1>7, <1>11, NextCases

\* A set of numbers has a least one: the numbers are well-founded.
LEMMA LeastNat ==
    ASSUME NEW S \in SUBSET Nat, S # {}
    PROVE  \E n \in S : \A k \in S : n <= k
<1> DEFINE R == {p \in Nat \X Nat : p[1] < p[2]}
<1>1. IsWellFoundedOn(R, Nat)
  BY NatLessThanWellFounded DEF OpToRel
<1>2. \A a \in Nat, b \in Nat : a < b => <<a, b>> \in R
  OBVIOUS
<1> HIDE DEF R
<1>3. PICK n \in S : \A k \in S : ~ (<<k, n>> \in R)
  BY <1>1, WFMin
<1>4. n \in Nat /\ \A k \in S : k \in Nat /\ ~ (k < n)
  BY <1>2, <1>3
<1> QED BY <1>4

LEMMA RecallsUndone ==
    ASSUME FileInv, NEW n \in 1..Len(snaps), NEW path \in Paths \ touched
    PROVE  Undone(n)[path] = past[n][path]
<1> DEFINE was == past[n][path]
           of == {i \in n..Len(snaps) : snaps[i].path = path}
           first == CHOOSE i \in of : \A j \in of : i <= j
<1>1. Recalls(snaps, n, path, files[path], was) /\ Len(snaps) \in Nat
  BY LengthOf DEF FileInv
<1>2. Undone(n)[path] = IF of = {} THEN files[path] ELSE snaps[first].was
  BY DEF Undone
<1>3. CASE of = {}
  <2>1. \A i \in n..Len(snaps) : snaps[i].path # path
    BY <1>3
  <2> QED BY <1>1, <1>2, <1>3, <2>1 DEF Recalls
<1>4. CASE of # {}
  <2>1. of \in SUBSET Nat
    BY <1>1
  <2>2. \E i \in of : \A j \in of : i <= j
    <3> HIDE DEF of
    <3> QED BY <1>4, <2>1, LeastNat
  <2>3. first \in of /\ \A j \in of : first <= j
    <3> HIDE DEF of
    <3> QED BY <2>2
  <2> HIDE DEF first
  <2>4. /\ first \in n..Len(snaps) /\ snaps[first].path = path
        /\ \A k \in n..(first - 1) : k \in n..Len(snaps) /\ ~ (first <= k)
    BY <1>1, <2>3
  <2>5. \A k \in n..(first - 1) : snaps[k].path # path
    BY <2>3, <2>4
  <2>6. snaps[first].was = was
    BY <1>1, <2>4, <2>5 DEF Recalls
  <2> QED BY <1>2, <1>4, <2>6
<1> QED BY <1>3, <1>4

(***************************************************************************)
(* The theorems.                                                           *)
(***************************************************************************)

CallType ==
    /\ stage # "idle" => tool \in offered
    /\ step = "kill" => target \in Jobs
    /\ steps \in 0..MaxSteps

LEMMA CallTypeNext == Commands /\ CallType /\ [Next]_vars => CallType'
<1> SUFFICES ASSUME Commands, CallType, [Next]_vars PROVE CallType'
  OBVIOUS
<1>0. /\ stage \in {"idle", "ask"} => step = "enter"
      /\ step \in {"kill", "files"} => stage = "run"
      /\ stage # "idle" => tool \in offered
      /\ step = "kill" => target \in Jobs
      /\ steps \in 0..MaxSteps
      /\ Spend => steps' \in 0..MaxSteps
  <2>1. Spend => steps' \in 0..MaxSteps
    BY ToolAssumption DEF ToolAssumption, Spend, CallType
  <2> QED BY <2>1 DEF Commands, CallType
<1>1. CASE UNCHANGED callVars /\ offered' = offered /\ (steps' = steps \/ Spend)
  BY <1>0, <1>1 DEF callVars, CallType
<1>2. CASE /\ stage # "idle" /\ offered' = offered /\ steps' = steps
           /\ Return \/ tool' = tool
           /\ step' = "kill" => target' \in Jobs
  BY <1>0, <1>2 DEF CallType, Return
<1>3. CASE UNCHANGED vars
  BY <1>1, <1>3 DEF vars
<1>4. ASSUME CommandStep PROVE CallType'
  BY <1>1, <1>4 DEF CommandStep, JobEnds, ProcessExits, Spawns, CommandWritesGit, UserWritesGit
<1>5. ASSUME CallStep PROVE CallType'
  <2>1. ASSUME NoHook \/ Prepare \/ StartCommand \/ CommandEnds \/ StartFails \/ StartJob
                 \/ JobKilled \/ OtherTool
        PROVE  CallType'
    BY <1>0, <1>2, <2>1 DEF NoHook, Prepare, StartCommand, CommandEnds, StartFails, StartJob,
                            JobKilled, OtherTool, Goto, Return
  <2>2. ASSUME TimeUp PROVE CallType'
    BY <1>1, <2>2 DEF TimeUp
  <2>3. ASSUME NEW j \in Jobs, KillJob(j) PROVE CallType'
    BY <1>2, <2>3 DEF KillJob
  <2>4. ASSUME FileStep PROVE CallType'
    BY <1>0, <2>4 DEF FileStep, Goto, CallType, callVars
  <2>5. ASSUME NEW asked \in Edits, StartFiles(asked) PROVE CallType'
    BY <1>2, <2>5 DEF StartFiles, Goto
  <2> QED BY <1>5, <2>1, <2>2, <2>3, <2>4, <2>5 DEF CallStep
<1>6. ASSUME SideStep \/ \E j \in Jobs : KillVictim(j) PROVE CallType'
  BY <1>1, <1>6 DEF KillVictim, SideStep, SidePrepares, SideStarts, SideTimeUp, SideEnds
<1>7. ASSUME UserStep PROVE CallType'
  <2>1. ASSUME NEW t \in offered, Call(t) PROVE CallType'
    BY <1>0, <2>1 DEF Call, CallType
  <2>2. ASSUME NEW allowed \in BOOLEAN, Ask(allowed) PROVE CallType'
    BY <1>2, <2>2 DEF Ask, Goto, Return
  <2>3. ASSUME \/ UserUndo
               \/ \E path \in Paths \ Protected : OthersEdit(path, Missing)
               \/ \E for \in {"reset", "close"} : KillAll(for)
               \/ ResetDone \/ CloseDone
        PROVE  CallType'
    BY <1>1, <2>3 DEF UserUndo, OthersEdit, KillAll, ResetDone, CloseDone
  <2> QED BY <1>7, <2>1, <2>2, <2>3 DEF UserStep
<1> QED BY <1>3, <1>4, <1>5, <1>6, <1>7, NextCases

IInv == Commands /\ JobTable /\ GitInv /\ FileInv /\ CallType

\* The inductive invariant.
LEMMA Inductive == Spec => []IInv
<1>1. Init => IInv
  <2>1. Init => CallType
    BY ToolAssumption DEF Init, CallType, ToolAssumption
  <2>2. Init => FileInv
    BY FileInitInv DEF Init
  <2> QED BY <2>1, <2>2, CommandsInit, JobTableInit, GitInit DEF IInv
<1>2. IInv /\ [Next]_vars => IInv'
  BY CommandsNext, JobTableNext, GitNext, FileInvNext, CallTypeNext DEF IInv
<1> QED BY <1>1, <1>2, PTL DEF Spec

\* Every variable has its type; a command that is waited for runs, no more than MaxJobs
\* jobs run at a time, and no more than UndoCap snapshots are kept (bash.go, jobs.go
\* start, checkpoint.go remember).
THEOREM TypeCorrect == Spec => []TypeOK
<1>1. IInv => TypeOK
  <2> SUFFICES ASSUME IInv PROVE TypeOK
    OBVIOUS
  <2>1. \A c \in Cmds :
          /\ cmd[c].state \in {"none", "ready", "live", "done"}
          /\ cmd[c].procs \subseteq Processes
          /\ cmd[c].guard \in GitDirs
          /\ cmd[c].procs # {} => Unfinished(c)
    BY DEF IInv, Commands, CmdTypes, CmdRecords, Unfinished
  <2>2. git \in GitDirs /\ users \in GitDirs /\ spoiled \subseteq GitPaths
    BY DEF IInv, Commands, CmdTypes
  <2>3. /\ table \subseteq Jobs /\ victims \subseteq Jobs
        /\ Cardinality({j \in table : Unfinished(j)}) <= MaxJobs
    BY JobNumbers DEF IInv, JobTable, Running
  <2>4. /\ closer \in {"none", "reset", "close", "closed"}
        /\ next \in 0..MaxStarted /\ before \in 0..next /\ table \subseteq 1..next
    BY DEF IInv, JobTable
  <2>5. /\ stage \in {"idle", "pre", "ask", "run", "post"}
        /\ step \in {"enter", "start", "wait", "files", "kill"}
        /\ step = "wait" => Unfinished(Front)
        /\ step = "start" => cmd[Front].state = "ready"
    BY DEF IInv, Commands, Stages, CallSteps
  <2>6. Len(snaps) <= UndoCap /\ Len(past) = Len(snaps)
    BY DEF IInv, FileInv
  <2>7. /\ stage # "idle" => tool \in offered
        /\ step = "kill" => target \in Jobs
        /\ steps \in 0..MaxSteps
    BY DEF IInv, CallType
  <2> QED BY <2>1, <2>2, <2>3, <2>4, <2>5, <2>6, <2>7 DEF TypeOK
<1> QED BY <1>1, Inductive, PTL

\* When no command runs, neither of a call nor a job nor a hook of any number of calls
\* beside it, .git is as the user left it, whatever they wrote there and however they
\* overlapped, but for the paths the history names: those a command had already written
\* when a guard was taken, the user wrote across a command, or a revert could not restore
\* (gitguard.go, bash.go Run, jobs.go start, hooks.go runHookCmd).
THEOREM GitStaysTheUsers == Spec => []GitIsTheUsers
<1>1. IInv => GitIsTheUsers
  BY DEF IInv, GitInv
<1> QED BY <1>1, Inductive, PTL

\* No job runs on when the conversation it was started in is over, but for those a call
\* starts that Close does not wait for (jobs.go killAll and start).
THEOREM JobsEnd == Spec => []JobsEndWithSession
<1>1. IInv => JobsEndWithSession
  BY DEF IInv, JobTable, JobsEndWithSession
<1> QED BY <1>1, Inductive, PTL

\* Undone one by one, the snapshots lead back through the workspaces as they were, on
\* every path that nobody else has changed, no undo has failed to write and no snapshot
\* has failed to read (checkpoint.go remember and undo, diff.go originals).
THEOREM UndoGoesBack == Spec => []UndoRestores
<1>1. IInv => UndoRestores
  BY RecallsUndone DEF IInv, UndoRestores
<1> QED BY <1>1, Inductive, PTL
=============================================================================
